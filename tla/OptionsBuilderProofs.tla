------------------------ MODULE OptionsBuilderProofs ------------------------
(***************************************************************************)
(* Proofs about the options builder, for any annotations: any values, any  *)
(* numbers and any expressions.                                            *)
(***************************************************************************)
EXTENDS OptionsBuilder, TLAPS

----------------------------------------------------------------------------
(* The inductive invariant *)

\* The handlers that come later than a given one.
AfterURL == {"return"}
AfterPatch == {"url"} \cup AfterURL
AfterMinor == {"patch"} \cup AfterPatch
AfterMajor == {"minor"} \cup AfterMinor
AfterRegex == {"major"} \cup AfterMajor
AfterMetadata == {"regex"} \cup AfterRegex
AfterSHAToTag == {"metadata"} \cup AfterMetadata
AfterSHA == {"shatotag"} \cup AfterSHAToTag

NumberOf(key) ==
  IF annotation(key) \in DOMAIN Integer THEN Integer[annotation(key)] ELSE Absent

\* A pin is the number that its annotation spells, or there is an error; it is
\* only set with the pins it needs, and asks for a semver option.
PinOK(key, value, allowed) ==
  /\ key \notin errs =>
       /\ value = NumberOf(key)
       /\ annotation(key) # Absent => annotation(key) \in DOMAIN Integer
  /\ annotation(key) # Absent => setNonSha
  /\ value # Absent => allowed /\ annotation(key) # Absent

RegexOK ==
  /\ opts.MatchRegex = annotation("match-regex")
  /\ "match-regex" \notin errs => opts.MatchRegex \in Expressions \cup {Absent}
  /\ opts.MatchRegex # Absent => setNonSha

\* What the handlers that have run have made of the annotations.
HandledOK ==
  /\ handler \in AfterSHA => opts.UseSHA = (annotation("use-sha") = "true")
  /\ handler \in AfterSHAToTag =>
       opts.ResolveSHAToTags = (annotation("resolve-sha-to-tags") = "true")
  /\ handler \in AfterMetadata =>
       /\ opts.UseMetaData = (annotation("use-metadata") = "true")
       /\ opts.UseMetaData => setNonSha
  /\ handler \in AfterRegex => RegexOK
  /\ handler \in AfterMajor => PinOK("pin-major", opts.PinMajor, TRUE)
  /\ handler \in AfterMinor =>
       PinOK("pin-minor", opts.PinMinor, opts.PinMajor # Absent)
  /\ handler \in AfterPatch =>
       PinOK("pin-patch", opts.PinPatch,
             opts.PinMajor # Absent /\ opts.PinMinor # Absent)
  /\ handler \in AfterURL => opts.OverrideURL = annotation("override-url")

IInv ==
  /\ TypeOK
  /\ handler = "enabled" => opts = NoOptions
  /\ result \in {"disabled", "error", "options"} => handler = "return"
  /\ result # "disabled" => HandledOK
  /\ result = "options" => errs = {} /\ ~ (opts.UseSHA /\ setNonSha)

----------------------------------------------------------------------------
(* Every step keeps the invariant *)

OptionType ==
  [UseSHA : BOOLEAN, ResolveSHAToTags : BOOLEAN, UseMetaData : BOOLEAN,
   MatchRegex : Values \cup {Absent}, PinMajor : Int \cup {Absent},
   PinMinor : Int \cup {Absent}, PinPatch : Int \cup {Absent},
   OverrideURL : Values \cup {Absent}]

LEMMA AnnotationType ==
  ASSUME TypeOK, NEW key \in Keys
  PROVE  annotation(key) \in Values \cup {Absent}
BY DEF TypeOK, annotation

LEMMA PinType ==
  ASSUME TypeOK, NEW key \in Keys, NEW allowed \in BOOLEAN
  PROVE  LET p == pin(key, allowed) IN
         /\ p.value \in Int \cup {Absent}
         /\ p.errs \in {{}, {key}}
         /\ key \notin p.errs =>
              /\ p.value = NumberOf(key)
              /\ annotation(key) # Absent => annotation(key) \in DOMAIN Integer
         /\ p.value # Absent => allowed /\ annotation(key) # Absent
BY AnnotationType, AnnotationsAssumption DEF pin, NumberOf

LEMMA InitInv == Init => IInv
<1> SUFFICES ASSUME Init PROVE IInv
  OBVIOUS
<1>1. NoOptions \in OptionType
  BY AnnotationsAssumption DEF NoOptions, OptionType
<1>2. TypeOK
  BY <1>1, AnnotationsAssumption DEF Init, TypeOK, Handlers, OptionType
<1> QED BY <1>2
        DEF Init, IInv, HandledOK, AfterSHA, AfterSHAToTag, AfterMetadata,
            AfterRegex, AfterMajor, AfterMinor, AfterPatch, AfterURL

LEMMA EnabledStep ==
  ASSUME IInv, CheckEnabled
  PROVE  IInv'
<1> USE DEF CheckEnabled, inputVars
<1>1. TypeOK'
  BY DEF IInv, TypeOK, Handlers
<1> QED BY <1>1
        DEF IInv, HandledOK, AfterSHA, AfterSHAToTag, AfterMetadata,
            AfterRegex, AfterMajor, AfterMinor, AfterPatch, AfterURL

\* What is left to show of a handler that has run.
LEMMA HandlerStep ==
  ASSUME IInv, handler \notin {"enabled", "return"},
         handler' \in Handlers \ {"enabled"},
         opts' \in OptionType, setNonSha' \in BOOLEAN, errs' \in SUBSET Keys,
         UNCHANGED <<ans, name, testAll, result>>, HandledOK'
  PROVE  IInv'
<1>1. result = "none" /\ result' = "none"
  BY DEF IInv, TypeOK
<1>2. TypeOK'
  BY <1>1 DEF IInv, TypeOK, OptionType
<1> QED BY <1>1, <1>2 DEF IInv

\* One lemma for each handler: it makes of its annotation what HandledOK says,
\* and leaves alone what earlier handlers have made of theirs.
LEMMA SHAStep ==
  ASSUME IInv, handleSHAOption
  PROVE  IInv'
<1> DEFINE value == (annotation("use-sha") = "true")
<1>1. TypeOK /\ opts \in OptionType /\ value \in BOOLEAN
  BY AnnotationType DEF IInv, TypeOK, OptionType, Keys, PinKeys
<1>2. /\ handler = "sha" /\ handler' = "shatotag"
      /\ errs' = errs
      /\ setNonSha' = setNonSha
      /\ UNCHANGED <<ans, name, testAll, result>>
      /\ HandledOK
  BY DEF handleSHAOption, Handle, inputVars, IInv, TypeOK
<1>3. opts' = [opts EXCEPT !.UseSHA = value]
  BY DEF handleSHAOption, Handle
<1>4. /\ opts' \in OptionType /\ opts'.UseSHA = value
      /\ errs' \in SUBSET Keys /\ setNonSha' \in BOOLEAN
  BY <1>1, <1>2, <1>3 DEF TypeOK, OptionType, Keys, PinKeys
<1>5. HandledOK'
  BY <1>1, <1>2, <1>4, AnnotationsAssumption
     DEF HandledOK, RegexOK, PinOK, NumberOf, annotation,
         AfterSHA, AfterSHAToTag, AfterMetadata, AfterRegex,
         AfterMajor, AfterMinor, AfterPatch, AfterURL
<1> QED BY <1>2, <1>4, <1>5, HandlerStep DEF Handlers

LEMMA SHAToTagStep ==
  ASSUME IInv, handleSHAToTagOption
  PROVE  IInv'
<1> DEFINE value == (annotation("resolve-sha-to-tags") = "true")
<1>1. TypeOK /\ opts \in OptionType /\ value \in BOOLEAN
  BY AnnotationType DEF IInv, TypeOK, OptionType, Keys, PinKeys
<1>2. /\ handler = "shatotag" /\ handler' = "metadata"
      /\ errs' = errs
      /\ setNonSha' = setNonSha
      /\ UNCHANGED <<ans, name, testAll, result>>
      /\ HandledOK
  BY DEF handleSHAToTagOption, Handle, inputVars, IInv, TypeOK
<1>3. opts' = [opts EXCEPT !.ResolveSHAToTags = value]
  BY DEF handleSHAToTagOption, Handle
<1>4. /\ opts' \in OptionType /\ opts'.ResolveSHAToTags = value
      /\ errs' \in SUBSET Keys /\ setNonSha' \in BOOLEAN
      /\ opts'.UseSHA = opts.UseSHA
  BY <1>1, <1>2, <1>3 DEF TypeOK, OptionType, Keys, PinKeys
<1>5. HandledOK'
  BY <1>1, <1>2, <1>4, AnnotationsAssumption
     DEF HandledOK, RegexOK, PinOK, NumberOf, annotation,
         AfterSHA, AfterSHAToTag, AfterMetadata, AfterRegex,
         AfterMajor, AfterMinor, AfterPatch, AfterURL
<1> QED BY <1>2, <1>4, <1>5, HandlerStep DEF Handlers

LEMMA MetadataStep ==
  ASSUME IInv, handleMetadataOption
  PROVE  IInv'
<1> DEFINE value == (annotation("use-metadata") = "true")
<1>1. TypeOK /\ opts \in OptionType /\ value \in BOOLEAN
  BY AnnotationType DEF IInv, TypeOK, OptionType, Keys, PinKeys
<1>2. /\ handler = "metadata" /\ handler' = "regex"
      /\ errs' = errs
      /\ setNonSha' = (setNonSha \/ value)
      /\ UNCHANGED <<ans, name, testAll, result>>
      /\ HandledOK
  BY DEF handleMetadataOption, Handle, inputVars, IInv, TypeOK
<1>3. opts' = [opts EXCEPT !.UseMetaData = value]
  BY DEF handleMetadataOption, Handle
<1>4. /\ opts' \in OptionType /\ opts'.UseMetaData = value
      /\ errs' \in SUBSET Keys /\ setNonSha' \in BOOLEAN
      /\ opts'.UseSHA = opts.UseSHA
      /\ opts'.ResolveSHAToTags = opts.ResolveSHAToTags
  BY <1>1, <1>2, <1>3 DEF TypeOK, OptionType, Keys, PinKeys
<1>5. HandledOK'
  BY <1>1, <1>2, <1>4, AnnotationsAssumption
     DEF HandledOK, RegexOK, PinOK, NumberOf, annotation,
         AfterSHA, AfterSHAToTag, AfterMetadata, AfterRegex,
         AfterMajor, AfterMinor, AfterPatch, AfterURL
<1> QED BY <1>2, <1>4, <1>5, HandlerStep DEF Handlers

LEMMA RegexStep ==
  ASSUME IInv, handleRegexOption
  PROVE  IInv'
<1> DEFINE value == annotation("match-regex")
<1>1. TypeOK /\ opts \in OptionType /\ value \in Values \cup {Absent}
  BY AnnotationType DEF IInv, TypeOK, OptionType, Keys, PinKeys
<1>2. /\ handler = "regex" /\ handler' = "major"
      /\ errs' = errs \cup (IF value \in Expressions \cup {Absent} THEN {}
                          ELSE {"match-regex"})
      /\ setNonSha' = (setNonSha \/ (value # Absent))
      /\ UNCHANGED <<ans, name, testAll, result>>
      /\ HandledOK
  BY DEF handleRegexOption, Handle, inputVars, IInv, TypeOK
<1>3. opts' = [opts EXCEPT !.MatchRegex = value]
  BY DEF handleRegexOption, Handle
<1>4. /\ opts' \in OptionType /\ opts'.MatchRegex = value
      /\ errs' \in SUBSET Keys /\ setNonSha' \in BOOLEAN
      /\ opts'.UseSHA = opts.UseSHA
      /\ opts'.ResolveSHAToTags = opts.ResolveSHAToTags
      /\ opts'.UseMetaData = opts.UseMetaData
  BY <1>1, <1>2, <1>3 DEF TypeOK, OptionType, Keys, PinKeys
<1>5. HandledOK'
  BY <1>1, <1>2, <1>4, AnnotationsAssumption
     DEF HandledOK, RegexOK, PinOK, NumberOf, annotation,
         AfterSHA, AfterSHAToTag, AfterMetadata, AfterRegex,
         AfterMajor, AfterMinor, AfterPatch, AfterURL
<1> QED BY <1>2, <1>4, <1>5, HandlerStep DEF Handlers

LEMMA PinMajorStep ==
  ASSUME IInv, handlePinMajorOption
  PROVE  IInv'
<1> DEFINE p == pin("pin-major", TRUE)
<1>1. TypeOK /\ opts \in OptionType
  BY DEF IInv, TypeOK, OptionType
<1>2. /\ p.value \in Int \cup {Absent}
      /\ p.errs \in {{}, {"pin-major"}}
      /\ "pin-major" \notin p.errs =>
           /\ p.value = NumberOf("pin-major")
           /\ annotation("pin-major") # Absent =>
                annotation("pin-major") \in DOMAIN Integer
      /\ p.value # Absent => TRUE /\ annotation("pin-major") # Absent
  BY <1>1, PinType DEF Keys, PinKeys
<1>3. /\ handler = "major" /\ handler' = "minor"
      /\ errs' = errs \cup p.errs
      /\ setNonSha' = (setNonSha \/ (annotation("pin-major") # Absent))
      /\ UNCHANGED <<ans, name, testAll, result>>
      /\ HandledOK
  BY DEF handlePinMajorOption, Handle, inputVars, IInv, TypeOK
<1>4. opts' = [opts EXCEPT !.PinMajor = p.value]
  BY DEF handlePinMajorOption, Handle
<1> HIDE DEF p
<1>5. /\ opts' \in OptionType /\ opts'.PinMajor = p.value
      /\ errs' \in SUBSET Keys /\ setNonSha' \in BOOLEAN
      /\ opts'.UseSHA = opts.UseSHA
      /\ opts'.ResolveSHAToTags = opts.ResolveSHAToTags
      /\ opts'.UseMetaData = opts.UseMetaData
      /\ opts'.MatchRegex = opts.MatchRegex
  BY <1>1, <1>2, <1>3, <1>4 DEF TypeOK, OptionType, Keys, PinKeys
<1>6. HandledOK'
  BY <1>1, <1>2, <1>3, <1>5, AnnotationsAssumption
     DEF HandledOK, RegexOK, PinOK, NumberOf, annotation,
         AfterSHA, AfterSHAToTag, AfterMetadata, AfterRegex,
         AfterMajor, AfterMinor, AfterPatch, AfterURL
<1> QED BY <1>3, <1>5, <1>6, HandlerStep DEF Handlers

LEMMA PinMinorStep ==
  ASSUME IInv, handlePinMinorOption
  PROVE  IInv'
<1> DEFINE p == pin("pin-minor", opts.PinMajor # Absent)
<1>1. TypeOK /\ opts \in OptionType
  BY DEF IInv, TypeOK, OptionType
<1>2. /\ p.value \in Int \cup {Absent}
      /\ p.errs \in {{}, {"pin-minor"}}
      /\ "pin-minor" \notin p.errs =>
           /\ p.value = NumberOf("pin-minor")
           /\ annotation("pin-minor") # Absent =>
                annotation("pin-minor") \in DOMAIN Integer
      /\ p.value # Absent => opts.PinMajor # Absent /\ annotation("pin-minor") # Absent
  BY <1>1, PinType DEF Keys, PinKeys
<1>3. /\ handler = "minor" /\ handler' = "patch"
      /\ errs' = errs \cup p.errs
      /\ setNonSha' = (setNonSha \/ (annotation("pin-minor") # Absent))
      /\ UNCHANGED <<ans, name, testAll, result>>
      /\ HandledOK
  BY DEF handlePinMinorOption, Handle, inputVars, IInv, TypeOK
<1>4. opts' = [opts EXCEPT !.PinMinor = p.value]
  BY DEF handlePinMinorOption, Handle
<1> HIDE DEF p
<1>5. /\ opts' \in OptionType /\ opts'.PinMinor = p.value
      /\ errs' \in SUBSET Keys /\ setNonSha' \in BOOLEAN
      /\ opts'.UseSHA = opts.UseSHA
      /\ opts'.ResolveSHAToTags = opts.ResolveSHAToTags
      /\ opts'.UseMetaData = opts.UseMetaData
      /\ opts'.MatchRegex = opts.MatchRegex
      /\ opts'.PinMajor = opts.PinMajor
  BY <1>1, <1>2, <1>3, <1>4 DEF TypeOK, OptionType, Keys, PinKeys
<1>6. HandledOK'
  BY <1>1, <1>2, <1>3, <1>5, AnnotationsAssumption
     DEF HandledOK, RegexOK, PinOK, NumberOf, annotation,
         AfterSHA, AfterSHAToTag, AfterMetadata, AfterRegex,
         AfterMajor, AfterMinor, AfterPatch, AfterURL
<1> QED BY <1>3, <1>5, <1>6, HandlerStep DEF Handlers

LEMMA PinPatchStep ==
  ASSUME IInv, handlePinPatchOption
  PROVE  IInv'
<1> DEFINE p == pin("pin-patch", opts.PinMajor # Absent /\ opts.PinMinor # Absent)
<1>1. TypeOK /\ opts \in OptionType
  BY DEF IInv, TypeOK, OptionType
<1>2. /\ p.value \in Int \cup {Absent}
      /\ p.errs \in {{}, {"pin-patch"}}
      /\ "pin-patch" \notin p.errs =>
           /\ p.value = NumberOf("pin-patch")
           /\ annotation("pin-patch") # Absent =>
                annotation("pin-patch") \in DOMAIN Integer
      /\ p.value # Absent =>
           /\ opts.PinMajor # Absent /\ opts.PinMinor # Absent
           /\ annotation("pin-patch") # Absent
  BY <1>1, PinType DEF Keys, PinKeys
<1>3. /\ handler = "patch" /\ handler' = "url"
      /\ errs' = errs \cup p.errs
      /\ setNonSha' = (setNonSha \/ (annotation("pin-patch") # Absent))
      /\ UNCHANGED <<ans, name, testAll, result>>
      /\ HandledOK
  BY DEF handlePinPatchOption, Handle, inputVars, IInv, TypeOK
<1>4. opts' = [opts EXCEPT !.PinPatch = p.value]
  BY DEF handlePinPatchOption, Handle
<1> HIDE DEF p
<1>5. /\ opts' \in OptionType /\ opts'.PinPatch = p.value
      /\ errs' \in SUBSET Keys /\ setNonSha' \in BOOLEAN
      /\ opts'.UseSHA = opts.UseSHA
      /\ opts'.ResolveSHAToTags = opts.ResolveSHAToTags
      /\ opts'.UseMetaData = opts.UseMetaData
      /\ opts'.MatchRegex = opts.MatchRegex
      /\ opts'.PinMajor = opts.PinMajor
      /\ opts'.PinMinor = opts.PinMinor
  BY <1>1, <1>2, <1>3, <1>4 DEF TypeOK, OptionType, Keys, PinKeys
<1>6. HandledOK'
  BY <1>1, <1>2, <1>3, <1>5, AnnotationsAssumption
     DEF HandledOK, RegexOK, PinOK, NumberOf, annotation,
         AfterSHA, AfterSHAToTag, AfterMetadata, AfterRegex,
         AfterMajor, AfterMinor, AfterPatch, AfterURL
<1> QED BY <1>3, <1>5, <1>6, HandlerStep DEF Handlers

LEMMA OverrideURLStep ==
  ASSUME IInv, handleOverrideURLOption
  PROVE  IInv'
<1> DEFINE value == annotation("override-url")
<1>1. TypeOK /\ opts \in OptionType /\ value \in Values \cup {Absent}
  BY AnnotationType DEF IInv, TypeOK, OptionType, Keys, PinKeys
<1>2. /\ handler = "url" /\ handler' = "return"
      /\ errs' = errs
      /\ setNonSha' = setNonSha
      /\ UNCHANGED <<ans, name, testAll, result>>
      /\ HandledOK
  BY DEF handleOverrideURLOption, Handle, inputVars, IInv, TypeOK
<1>3. opts' = [opts EXCEPT !.OverrideURL = value]
  BY DEF handleOverrideURLOption, Handle
<1>4. /\ opts' \in OptionType /\ opts'.OverrideURL = value
      /\ errs' \in SUBSET Keys /\ setNonSha' \in BOOLEAN
      /\ opts'.UseSHA = opts.UseSHA
      /\ opts'.ResolveSHAToTags = opts.ResolveSHAToTags
      /\ opts'.UseMetaData = opts.UseMetaData
      /\ opts'.MatchRegex = opts.MatchRegex
      /\ opts'.PinMajor = opts.PinMajor
      /\ opts'.PinMinor = opts.PinMinor
      /\ opts'.PinPatch = opts.PinPatch
  BY <1>1, <1>2, <1>3 DEF TypeOK, OptionType, Keys, PinKeys
<1>5. HandledOK'
  BY <1>1, <1>2, <1>4, AnnotationsAssumption
     DEF HandledOK, RegexOK, PinOK, NumberOf, annotation,
         AfterSHA, AfterSHAToTag, AfterMetadata, AfterRegex,
         AfterMajor, AfterMinor, AfterPatch, AfterURL
<1> QED BY <1>2, <1>4, <1>5, HandlerStep DEF Handlers

LEMMA ReturnStep ==
  ASSUME IInv, Return
  PROVE  IInv'
<1> USE DEF Return, inputVars
<1>1. TypeOK'
  BY DEF IInv, TypeOK
<1>2. HandledOK /\ HandledOK'
  BY DEF IInv, HandledOK, RegexOK, PinOK, NumberOf, annotation
<1> QED BY <1>1, <1>2 DEF IInv, TypeOK

\* Every step keeps the invariant.
LEMMA NextInv == IInv /\ [Next]_vars => IInv'
<1> SUFFICES ASSUME IInv, [Next]_vars PROVE IInv'
  OBVIOUS
<1>1. CASE UNCHANGED vars
  BY <1>1 DEF vars, inputVars, IInv, TypeOK, HandledOK, RegexOK, PinOK, NumberOf,
              annotation
<1> QED BY <1>1, EnabledStep, SHAStep, SHAToTagStep, MetadataStep, RegexStep,
           PinMajorStep, PinMinorStep, PinPatchStep, OverrideURLStep, ReturnStep
        DEF Next

----------------------------------------------------------------------------
(* The theorems *)

\* What the invariant says of options that are returned.
LEMMA Returned ==
  ASSUME IInv, result = "options"
  PROVE  /\ opts.UseSHA = (annotation("use-sha") = "true")
         /\ opts.ResolveSHAToTags = (annotation("resolve-sha-to-tags") = "true")
         /\ opts.UseMetaData = (annotation("use-metadata") = "true")
         /\ opts.UseMetaData => setNonSha
         /\ RegexOK
         /\ PinOK("pin-major", opts.PinMajor, TRUE)
         /\ PinOK("pin-minor", opts.PinMinor, opts.PinMajor # Absent)
         /\ PinOK("pin-patch", opts.PinPatch,
                  opts.PinMajor # Absent /\ opts.PinMinor # Absent)
         /\ opts.OverrideURL = annotation("override-url")
         /\ errs = {} /\ ~ (opts.UseSHA /\ setNonSha)
         /\ opts \in OptionType
BY DEF IInv, TypeOK, HandledOK, OptionType, AfterSHA, AfterSHAToTag, AfterMetadata,
       AfterRegex, AfterMajor, AfterMinor, AfterPatch, AfterURL

\* The options have their types, and a disabled container gets none.
THEOREM OptionsTypes == Spec => []TypeOK
BY InitInv, NextInv, PTL DEF Spec, IInv

\* Options that are returned are consistent, whatever the annotations say: pins
\* come with the pins they need, an expression compiles, and a comparison by
\* SHA is not mixed with one by version.
THEOREM OptionsAlwaysConsistent == Spec => []OptionsConsistent
<1>1. ASSUME IInv PROVE OptionsConsistent
  <2> SUFFICES ASSUME result = "options" PROVE OptionsConsistent
    BY DEF OptionsConsistent
  <2> QED BY <1>1, Returned, AnnotationsAssumption
          DEF OptionsConsistent, RegexOK, PinOK, NumberOf
<1> QED BY <1>1, InitInv, NextInv, PTL DEF Spec

\* Options that are returned are what the container's own annotations ask for,
\* all of it and nothing else.
THEOREM AnnotationsAlwaysHonoured == Spec => []AnnotationsHonoured
<1>1. ASSUME IInv PROVE AnnotationsHonoured
  <2> SUFFICES ASSUME result = "options" PROVE AnnotationsHonoured
    BY DEF AnnotationsHonoured
  <2>1. /\ \A key \in PinKeys :
             annotation(key) # Absent => annotation(key) \in DOMAIN Integer
        /\ opts.PinMajor = NumberOf("pin-major")
        /\ opts.PinMinor = NumberOf("pin-minor")
        /\ opts.PinPatch = NumberOf("pin-patch")
    BY <1>1, Returned DEF PinOK, PinKeys
  <2>2. opts = [UseSHA |-> opts.UseSHA, ResolveSHAToTags |-> opts.ResolveSHAToTags,
                UseMetaData |-> opts.UseMetaData, MatchRegex |-> opts.MatchRegex,
                PinMajor |-> opts.PinMajor, PinMinor |-> opts.PinMinor,
                PinPatch |-> opts.PinPatch, OverrideURL |-> opts.OverrideURL]
    BY <1>1, Returned DEF OptionType
  <2> QED BY <1>1, <2>1, <2>2, Returned
          DEF AnnotationsHonoured, RegexOK, NumberOf, annotation
<1> QED BY <1>1, InitInv, NextInv, PTL DEF Spec
=============================================================================
