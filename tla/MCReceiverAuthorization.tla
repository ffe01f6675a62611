----------------------- MODULE MCReceiverAuthorization -----------------------
(***************************************************************************)
(* Instances of ReceiverAuthorization for TLC.                             *)
(***************************************************************************)
EXTENDS ReceiverAuthorization, TLC

CONSTANTS u1, u2, k1, k2

DistinctKeys == (u1 :> k1) @@ (u2 :> k2)
SharedKey    == (u1 :> k1) @@ (u2 :> k1)
OneTask      == (u1 :> k1)

\* Fault budgets: F(publish, cleanup, api, exit).
F(p, c, a, e) == [publish |-> p, cleanup |-> c, api |-> a, exit |-> e]
LeaseFaults      == F(1, 0, 1, 1)
RevocationFaults == F(1, 1, 0, 1)
CleanupFaults    == F(0, 1, 0, 0)
=============================================================================
