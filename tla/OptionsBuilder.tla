--------------------------- MODULE OptionsBuilder ---------------------------
(***************************************************************************)
(* How the annotations of a pod become the search options of a container:  *)
(* pkg/controller/options/options.go, as syncContainer calls it.           *)
(*                                                                         *)
(* Options runs eight handlers in order.  A handler may set an option, may *)
(* note an error and may note that a semver option was asked for; a later  *)
(* one reads what an earlier one set (the pins).  An error does not stop   *)
(* the handlers that follow: all errors are reported together.             *)
(*                                                                         *)
(* The value of an annotation is a string; three things matter of it: is   *)
(* it "true", does it parse as an integer, does it compile as a regular    *)
(* expression.                                                             *)
(***************************************************************************)
EXTENDS Integers

CONSTANTS
  Containers,   \* container names
  Values,       \* values of annotations
  Integer,      \* Integer[v]: the number v spells, for the values that do
  Expressions,  \* values that compile as regular expressions
  Annotations,  \* what pods carry: a value or Absent for a container and a key
  Absent        \* an annotation that is not set, an option that is not set

PinKeys == {"pin-major", "pin-minor", "pin-patch"}
Keys == PinKeys \cup {"enable", "use-sha", "resolve-sha-to-tags", "use-metadata",
                      "match-regex", "override-url"}

ASSUME AnnotationsAssumption ==
  /\ Absent \notin Values
  /\ DOMAIN Integer \subseteq Values
  /\ \A v \in DOMAIN Integer : Integer[v] \in Int
  /\ Expressions \subseteq Values
  /\ Annotations \subseteq [Containers -> [Keys -> Values \cup {Absent}]]
  /\ Absent \notin Int

VARIABLES
  ans,        \* the pod's annotations
  name,       \* the container
  testAll,    \* the flag --test-all-containers
  handler,    \* what runs next
  opts,       \* the options so far
  setNonSha,  \* a semver option was asked for
  errs,       \* annotations with an error
  result      \* "none", "disabled", "error" or "options"

inputVars == <<ans, name, testAll>>
vars == <<inputVars, handler, opts, setNonSha, errs, result>>

\* The options before any handler ran.
NoOptions ==
  [UseSHA |-> FALSE, ResolveSHAToTags |-> FALSE, UseMetaData |-> FALSE,
   MatchRegex |-> Absent, PinMajor |-> Absent, PinMinor |-> Absent,
   PinPatch |-> Absent, OverrideURL |-> Absent]

Handlers == {"enabled", "sha", "shatotag", "metadata", "regex", "major", "minor",
             "patch", "url", "return"}

\* Mutant: the name is left out, so another container's annotation counts.
annotation_AnyContainer(key) ==
  IF \E c \in Containers : ans[c][key] # Absent
  THEN ans[CHOOSE c \in Containers : ans[c][key] # Absent][key]
  ELSE Absent

\* index: the annotation's key is followed by the container's name.
annotation(key) == ans[name][key]

IsEnabled ==
  CASE annotation("enable") = "true" -> TRUE
    [] annotation("enable") = "false" -> FALSE
    [] OTHER -> testAll

Init ==
  /\ ans \in Annotations
  /\ name \in Containers
  /\ testAll \in BOOLEAN
  /\ handler = "enabled"
  /\ opts = NoOptions
  /\ setNonSha = FALSE
  /\ errs = {}
  /\ result = "none"

----------------------------------------------------------------------------
(* Handlers *)

\* One handler runs: what it makes of the options, the flag and the errors.
Handle(at, then, newOpts, nonSha, newErrs) ==
  /\ handler = at
  /\ handler' = then
  /\ opts' = newOpts
  /\ setNonSha' = (setNonSha \/ nonSha)
  /\ errs' = errs \cup newErrs
  /\ UNCHANGED <<inputVars, result>>

\* Mutant: the early return is missing.
CheckEnabled_Continues ==
  /\ handler = "enabled"
  /\ handler' = "sha"
  /\ result' = IF IsEnabled THEN result ELSE "disabled"
  /\ UNCHANGED <<inputVars, opts, setNonSha, errs>>

\* syncContainer goes on with Options only for an enabled container.
CheckEnabled ==
  /\ handler = "enabled"
  /\ handler' = IF IsEnabled THEN "sha" ELSE "return"
  /\ result' = IF IsEnabled THEN result ELSE "disabled"
  /\ UNCHANGED <<inputVars, opts, setNonSha, errs>>

handleSHAOption ==
  Handle("sha", "shatotag",
         [opts EXCEPT !.UseSHA = (annotation("use-sha") = "true")], FALSE, {})

handleSHAToTagOption ==
  Handle("shatotag", "metadata",
         [opts EXCEPT !.ResolveSHAToTags =
            (annotation("resolve-sha-to-tags") = "true")], FALSE, {})

handleMetadataOption ==
  LET set == annotation("use-metadata") = "true"
  IN  Handle("metadata", "regex", [opts EXCEPT !.UseMetaData = set], set, {})

handleRegexOption ==
  LET v == annotation("match-regex")
  IN  Handle("regex", "major", [opts EXCEPT !.MatchRegex = v], v # Absent,
             IF v \in Expressions \cup {Absent} THEN {} ELSE {"match-regex"})

\* A pin: "allowed" says whether the pins it needs are set.
pin(key, allowed) ==
  LET v == annotation(key)
  IN  IF v = Absent THEN [value |-> Absent, errs |-> {}]
      ELSE IF allowed /\ v \in DOMAIN Integer
           THEN [value |-> Integer[v], errs |-> {}]
           ELSE [value |-> Absent, errs |-> {key}]

handlePinMajorOption ==
  LET p == pin("pin-major", TRUE)
  IN  Handle("major", "minor", [opts EXCEPT !.PinMajor = p.value],
             annotation("pin-major") # Absent, p.errs)

\* Mutant: the minor version may be pinned without the major one.
handlePinMinorOption_Alone ==
  LET p == pin("pin-minor", TRUE)
  IN  Handle("minor", "patch", [opts EXCEPT !.PinMinor = p.value],
             annotation("pin-minor") # Absent, p.errs)

handlePinMinorOption ==
  LET p == pin("pin-minor", opts.PinMajor # Absent)
  IN  Handle("minor", "patch", [opts EXCEPT !.PinMinor = p.value],
             annotation("pin-minor") # Absent, p.errs)

handlePinPatchOption ==
  LET p == pin("pin-patch", opts.PinMajor # Absent /\ opts.PinMinor # Absent)
  IN  Handle("patch", "url", [opts EXCEPT !.PinPatch = p.value],
             annotation("pin-patch") # Absent, p.errs)

handleOverrideURLOption ==
  Handle("url", "return", [opts EXCEPT !.OverrideURL = annotation("override-url")],
         FALSE, {})

Return ==
  /\ handler = "return"
  /\ result = "none"
  /\ result' = IF errs # {} \/ (opts.UseSHA /\ setNonSha) THEN "error" ELSE "options"
  /\ UNCHANGED <<inputVars, handler, opts, setNonSha, errs>>

Next ==
  \/ CheckEnabled
  \/ handleSHAOption
  \/ handleSHAToTagOption
  \/ handleMetadataOption
  \/ handleRegexOption
  \/ handlePinMajorOption
  \/ handlePinMinorOption
  \/ handlePinPatchOption
  \/ handleOverrideURLOption
  \/ Return

Spec == Init /\ [][Next]_vars

----------------------------------------------------------------------------
(* Properties *)

\* Every variable has its type; a container that is not enabled has no
\* options set.
TypeOK ==
  /\ ans \in [Containers -> [Keys -> Values \cup {Absent}]]
  /\ name \in Containers
  /\ testAll \in BOOLEAN
  /\ handler \in Handlers
  /\ opts \in [UseSHA : BOOLEAN, ResolveSHAToTags : BOOLEAN, UseMetaData : BOOLEAN,
               MatchRegex : Values \cup {Absent}, PinMajor : Int \cup {Absent},
               PinMinor : Int \cup {Absent}, PinPatch : Int \cup {Absent},
               OverrideURL : Values \cup {Absent}]
  /\ setNonSha \in BOOLEAN
  /\ errs \subseteq Keys
  /\ result \in {"none", "disabled", "error", "options"}
  /\ result = "disabled" => opts = NoOptions

\* Returned options are consistent, as the search relies on: a finer pin
\* comes with the coarser ones (shouldSkipTag reads them independently), the
\* expression compiles, and the latest SHA is not asked for together with an
\* option on versions.
OptionsConsistent ==
  result = "options" =>
    /\ opts.PinPatch # Absent => opts.PinMinor # Absent
    /\ opts.PinMinor # Absent => opts.PinMajor # Absent
    /\ opts.MatchRegex \in Expressions \cup {Absent}
    /\ opts.UseSHA => /\ opts.PinMajor = Absent
                      /\ opts.MatchRegex = Absent
                      /\ ~ opts.UseMetaData

\* Returned options leave nothing out that the container's own annotations ask
\* for, and contain nothing that they do not: a bad annotation is never
\* dropped in silence, and a sibling's is never taken (Builder.index).
AnnotationsHonoured ==
  LET own(key) == ans[name][key]
      number(key) == IF own(key) \in DOMAIN Integer THEN Integer[own(key)] ELSE Absent
  IN  result = "options" =>
        /\ \A key \in PinKeys : own(key) # Absent => own(key) \in DOMAIN Integer
        /\ opts = [UseSHA |-> own("use-sha") = "true",
                   ResolveSHAToTags |-> own("resolve-sha-to-tags") = "true",
                   UseMetaData |-> own("use-metadata") = "true",
                   MatchRegex |-> own("match-regex"),
                   PinMajor |-> number("pin-major"),
                   PinMinor |-> number("pin-minor"),
                   PinPatch |-> number("pin-patch"),
                   OverrideURL |-> own("override-url")]
=============================================================================
