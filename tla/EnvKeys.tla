-------------------------------- MODULE EnvKeys --------------------------------
(***************************************************************************)
(* spec.matchEnvKey: how an environment name finds its entry in the        *)
(* platform file, in the spec and in the environments lists of components  *)
(* and tasks. A name such as review/pr-42 also matches a plain review.     *)
(***************************************************************************)
CONSTANTS
    EnvNames,    \* environment names: "review", "review/pr-42", ...
    Prefix       \* a name up to its first "/"

ASSUME PrefixAssumption ==
    /\ Prefix \in [EnvNames -> EnvNames]
    /\ \A e \in EnvNames : Prefix[Prefix[e]] = Prefix[e]

\* Exact match, then the part before the first "/".
matchEnvKey(e, keys) == e \in keys \/ Prefix[e] \in keys

\* The key it returns.
MatchedKey(e, keys) == IF e \in keys THEN e ELSE Prefix[e]
=============================================================================
