------------------------------- MODULE MCHookRun -------------------------------
(***************************************************************************)
(* Instances of HookRun for TLC.                                           *)
(***************************************************************************)
EXTENDS HookRun, TLC

\* "r" is review, "r/1" and "r/2" are pull request environments of it.
MCNames == {"prod", "r", "r/1", "r/2"}
MCPrefix == ("prod" :> "prod") @@ ("r" :> "r") @@ ("r/1" :> "r") @@ ("r/2" :> "r")
MCEnvs == {"prod", "r/1"}

\* The environments lists of tasks 1 and 2 (task 3 has none of its own) and of
\* the components all three inherit from: lists that cover each other, that
\* cover each other only through a prefix, that do not, and none at all.
MCEnvLists ==
    {<<[t \in Tasks |-> CASE t = 1 -> l[1] [] t = 2 -> l[2] [] OTHER -> {}],
       [t \in Tasks |-> l[3]]>> :
        l \in {<<{"prod"}, {"prod", "r"}, {}>>, <<{"prod", "r"}, {"prod"}, {"r"}>>,
               <<{"r/1", "r/2"}, {"prod", "r"}, {}>>, <<{"r/1", "r/2"}, {}, {"r"}>>,
               <<{}, {}, {}>>, <<{"r"}, {"r/1", "r/2"}, {"prod"}>>}}
=============================================================================
