------------------------------- MODULE MCIdentity -------------------------------
(***************************************************************************)
(* Instance of Identity for TLC: two users, and the callers in groups that *)
(* have something to disagree about.                                       *)
(***************************************************************************)
EXTENDS Identity

Mix(callers, calls_, asks_, troubles) ==
    [callers |-> callers, calls |-> calls_, asks |-> asks_, troubles |-> troubles]

\* The browser twice: where it meets faults, and where it is asked for more.
MCMixes ==
    {Mix({"pwa"}, 4, 3, 2), Mix({"pwa"}, 3, 4, 0),
     Mix({"register", "login", "bind"}, 4, 0, 2), Mix({"register", "upgrade", "open", "limits"}, 4, 0, 2),
     Mix({"register", "login", "logout"}, 4, 0, 2), Mix({"register", "login", "agentLogin"}, 4, 0, 2)}

MCChoices == {{"dailyLimit"}, {"maxBalance", "perTransactionLimit"}}
=============================================================================
