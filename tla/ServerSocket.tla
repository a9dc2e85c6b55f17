---------------------------- MODULE ServerSocket ----------------------------
(***************************************************************************)
(* How daemons take over and give up the unix socket path: the socket part *)
(* of startServer, removeStaleSocket, and the listener's Close in Stop.    *)
(* The system calls of a start are steps of their own.  A socket file is   *)
(* represented by the daemon that bound it; it is stale when that daemon   *)
(* is not listening any more.                                              *)
(*                                                                         *)
(* External: connect succeeds exactly when the file belongs to a listening *)
(* daemon (a full backlog is left out), bind fails when the path exists,   *)
(* and UnixListener.Close unlinks the path by its name, once.              *)
(***************************************************************************)
EXTENDS Naturals

CONSTANTS
  Daemons,   \* fleetint run processes on one machine
  MaxStarts  \* bound on the starts of each

ASSUME StartsBounded == MaxStarts \in Nat

VARIABLES
  path,       \* what is at the socket path
  listening,  \* the daemons whose listener is open
  step,       \* step[d]: the next system call of daemon d
  starts,     \* starts[d]: how often d was started
  raced       \* history: two daemons were between probe and bind at once

socketVars == <<path, listening, step, starts, raced>>

NotSocket == {"file", "symlink"}

SocketSteps == {"off", "boot", "probe", "lstat", "remove", "listen", "chmod",
                "serving", "stopping", "exited"}

SocketTypeOK ==
  /\ path \in {"none"} \cup NotSocket \cup Daemons
  /\ listening \subseteq Daemons
  /\ step \in [Daemons -> SocketSteps]
  /\ starts \in [Daemons -> 0..MaxStarts]
  /\ raced \in BOOLEAN

\* At the path is nothing, a file of someone else, or the socket of a daemon
\* that was killed before.
SocketInit(found) ==
  /\ path = found
  /\ listening = {}
  /\ step = [d \in Daemons |-> "off"]
  /\ starts = [d \in Daemons |-> 0]
  /\ raced = FALSE

SocketGoto(d, s) == step' = [step EXCEPT ![d] = s]

\* Between the probe and the bind: what was found may be out of date.
Binding == {"lstat", "remove", "listen"}

TrackRace(d) ==
  raced' = (raced \/ \E e \in Daemons \ {d} : step[e] \in Binding)

-----------------------------------------------------------------------------
(* startServer *)

\* systemd or an operator starts the process.
Starts(d) ==
  /\ step[d] \in {"off", "exited"}
  /\ starts[d] < MaxStarts
  /\ starts' = [starts EXCEPT ![d] = @ + 1]
  /\ SocketGoto(d, "boot")
  /\ UNCHANGED <<path, listening, raced>>

\* runCommand and New are done, or one of them fails.
Boots(d, succeeds) ==
  /\ step[d] = "boot"
  /\ SocketGoto(d, IF succeeds THEN "probe" ELSE "exited")
  /\ UNCHANGED <<path, listening, starts, raced>>

\* net.DialTimeout: somebody answers, and the process exits, or nobody does.
Probe(d) ==
  /\ step[d] = "probe"
  /\ IF path \in listening
       THEN SocketGoto(d, "exited") /\ UNCHANGED raced
       ELSE SocketGoto(d, "lstat") /\ TrackRace(d)
  /\ UNCHANGED <<path, listening, starts>>

\* Mutant: a stale socket is left where it is.
LstatKeeps(d) ==
  /\ step[d] = "lstat"
  /\ SocketGoto(d, IF path \in NotSocket THEN "exited" ELSE "listen")
  /\ UNCHANGED <<path, listening, starts, raced>>

\* removeStaleSocket: Lstat.
Lstat(d) ==
  /\ step[d] = "lstat"
  /\ SocketGoto(d, CASE path = "none" -> "listen"
                     [] path \in NotSocket -> "exited"
                     [] OTHER -> "remove")
  /\ UNCHANGED <<path, listening, starts, raced>>

\* removeStaleSocket: Remove fails, and the process exits, when the path went
\* away meanwhile.
RemoveStale(d) ==
  /\ step[d] = "remove"
  /\ SocketGoto(d, IF path = "none" THEN "exited" ELSE "listen")
  /\ path' = "none"
  /\ UNCHANGED <<listening, starts, raced>>

\* MkdirAll and net.Listen.
Listen(d) ==
  /\ step[d] = "listen"
  /\ IF path = "none"
       THEN /\ path' = d
            /\ listening' = listening \cup {d}
            /\ SocketGoto(d, "chmod")
       ELSE SocketGoto(d, "exited") /\ UNCHANGED <<path, listening>>
  /\ UNCHANGED <<starts, raced>>

\* The directory cannot be made, or another system call fails.
SetupFails(d) ==
  /\ step[d] \in {"lstat", "listen"}
  /\ SocketGoto(d, "exited")
  /\ UNCHANGED <<path, listening, starts, raced>>

\* UnixListener.Close.
Closes(d) ==
  /\ path' = "none"
  /\ listening' = listening \ {d}

\* Chmod, then Serve.  A Chmod that fails, as it does when the path went away,
\* closes the listener and exits.
Chmod(d) ==
  /\ step[d] = "chmod"
  /\ IF path # "none"
       THEN SocketGoto(d, "serving") /\ UNCHANGED <<path, listening>>
       ELSE Closes(d) /\ SocketGoto(d, "exited")
  /\ UNCHANGED <<starts, raced>>

ChmodFails(d) ==
  /\ step[d] = "chmod"
  /\ Closes(d)
  /\ SocketGoto(d, "exited")
  /\ UNCHANGED <<starts, raced>>

\* A TCP address: ListenAndServe, which fails if the port is taken.
ListenAndServe(d, taken) ==
  /\ step[d] = "probe"
  /\ SocketGoto(d, IF taken THEN "exited" ELSE "serving")
  /\ UNCHANGED <<path, listening, starts, raced>>

-----------------------------------------------------------------------------
(* Stop, and the end of the process *)

\* Shutdown closes the listener.
StopClosesListener(d) ==
  /\ step[d] = "serving"
  /\ IF d \in listening THEN Closes(d) ELSE UNCHANGED <<path, listening>>
  /\ SocketGoto(d, "stopping")
  /\ UNCHANGED <<starts, raced>>

\* Mutant: the socket file is removed once more at the end of Stop.
StopRemovesPath(d) ==
  /\ step[d] = "stopping"
  /\ path' = "none"
  /\ SocketGoto(d, "exited")
  /\ UNCHANGED <<listening, starts, raced>>

\* The rest of Stop: s.listener.Close is the second Close and does nothing.
StopEnds(d) ==
  /\ step[d] = "stopping"
  /\ SocketGoto(d, "exited")
  /\ UNCHANGED <<path, listening, starts, raced>>

\* The process is killed, and leaves its socket file behind.
Killed(d) ==
  /\ step[d] \notin {"off", "exited"}
  /\ SocketGoto(d, "exited")
  /\ listening' = listening \ {d}
  /\ UNCHANGED <<path, starts, raced>>

SocketStep(d) == Probe(d) \/ Lstat(d) \/ RemoveStale(d) \/ Listen(d) \/ Chmod(d)

SocketFault(d) == SetupFails(d) \/ ChmodFails(d) \/ Killed(d)

-----------------------------------------------------------------------------

(***************************************************************************)
(* "if a daemon is already listening, refuse to start rather than stealing *)
(* its socket path" (server.go:702-703): a daemon that serves on the       *)
(* socket can be reached at its path, through starts, stops and kills of   *)
(* others, as long as no two of them were between probe and bind at once.  *)
(* (Two daemons that are started together can steal the path.)             *)
(***************************************************************************)
PathKept ==
  ~raced => \A d \in listening : path = d
=============================================================================
