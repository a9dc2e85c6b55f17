----------------------------- MODULE MCSakAuth ------------------------------
(* SakAuth with named senders.                                             *)
EXTENDS SakAuth

CONSTANTS r1, r2, r3

MCRequests == {r1, r2, r3}
=============================================================================
