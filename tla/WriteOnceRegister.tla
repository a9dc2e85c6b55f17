------------------------- MODULE WriteOnceRegister -------------------------
(***************************************************************************)
(* What the persisted agent UUID promises the processes of one host: a     *)
(* register that is written at most once, and from which a process only    *)
(* ever learns the value that was written.                                 *)
(***************************************************************************)

CONSTANTS Callers, Values, None

VARIABLES
  val,        \* the value written, or None
  learned     \* learned[c]: the value process c works with, or None

regVars == <<val, learned>>

Init ==
  /\ val \in Values \cup {None}
  /\ learned = [c \in Callers |-> None]

Write(v) ==
  /\ val = None
  /\ val' = v
  /\ UNCHANGED learned

Learn(c) ==
  /\ val # None
  /\ learned[c] = None
  /\ learned' = [learned EXCEPT ![c] = val]
  /\ UNCHANGED val

\* The process ends; the process started in its place knows nothing yet.
Forget(c) ==
  /\ learned' = [learned EXCEPT ![c] = None]
  /\ UNCHANGED val

Next ==
  \/ \E v \in Values : Write(v)
  \/ \E c \in Callers : Learn(c) \/ Forget(c)

Spec == Init /\ [][Next]_regVars
=============================================================================
