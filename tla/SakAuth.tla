------------------------------ MODULE SakAuth -------------------------------
(***************************************************************************)
(* The collector's authenticator (otelcol/auth/sakauth).  Exports run      *)
(* concurrently.  Each takes the shared JWT, sends its request, installs a *)
(* token that came back in the header, and after a 401 refreshes the JWT   *)
(* with the SAK under refreshMu and retries once.                          *)
(*                                                                         *)
(* Tokens are numbered in the order the backend issued them.  The backend  *)
(* is external: it rejects a token from some moment on, and sends a new    *)
(* one with the answer to a request whose token is aging.                  *)
(***************************************************************************)
EXTENDS Naturals

CONSTANTS
  Requests,  \* the senders of the exporters
  MaxTokens  \* bound on the tokens the backend issues

ASSUME TokensBounded == MaxTokens \in Nat \ {0}

VARIABLES
  jwt,        \* the shared token
  refreshMu,  \* whether it is locked
  req,        \* req[r]: the request that sender r has under way
  issued,     \* number of the token issued last
  age,        \* age[t]: what the backend thinks of token t
  refreshes   \* refreshes[t]: enrollments that replaced token t (history)

vars == <<jwt, refreshMu, req, issued, age, refreshes>>

Tokens == 1..MaxTokens

NoToken == 0

Steps == {"idle", "sent", "ok", "unauthorized", "refresh", "enrolling",
          "enrolled", "retry"}

\* used: the token of the first try.  new: a token that the client was given.
Idle == [pc |-> "idle", used |-> NoToken, new |-> NoToken]

TypeOK ==
  /\ jwt \in Tokens
  /\ refreshMu \in BOOLEAN
  /\ req \in [Requests -> [pc : Steps, used : Tokens \cup {NoToken},
                           new : Tokens \cup {NoToken}]]
  /\ issued \in Tokens
  /\ age \in [Tokens -> {"fresh", "aging", "rejected"}]
  /\ refreshes \in [Tokens -> Nat]

\* Start has fetched the first token.
Init ==
  /\ jwt = 1
  /\ refreshMu = FALSE
  /\ req = [r \in Requests |-> Idle]
  /\ issued = 1
  /\ age = [t \in Tokens |-> "fresh"]
  /\ refreshes = [t \in Tokens |-> 0]

Finish(r) == req' = [req EXCEPT ![r] = Idle]

-----------------------------------------------------------------------------
(* The backend *)

\* A token lives long compared with the timeouts of the clients (30 seconds
\* for the enrollment): it does not reach 80% of its age on the way to the
\* client, nor while the enrollment that replaces an earlier token lasts.
OutlivesExchanges(t) ==
  \A r \in Requests :
    /\ req[r].pc \in {"ok", "enrolled"} => req[r].new # t
    /\ req[r].pc \in {"enrolling", "enrolled"} => t <= req[r].used

TokenAges(t) ==
  /\ t <= issued
  /\ \/ /\ age[t] = "fresh" /\ OutlivesExchanges(t)
        /\ age' = [age EXCEPT ![t] = "aging"]
     \/ /\ age[t] # "rejected"
        /\ age' = [age EXCEPT ![t] = "rejected"]
  /\ UNCHANGED <<jwt, refreshMu, req, issued, refreshes>>

\* The answer to the first try.  "The backend proactively sends a refreshed
\* JWT in the response header when the current token is near expiry"
\* (extension.go:211-212): never for a token it rejects, so not with a 401.
BackendAnswers(r) ==
  /\ req[r].pc = "sent"
  /\ \/ /\ age[req[r].used] = "rejected"
        /\ req' = [req EXCEPT ![r].pc = "unauthorized"]
        /\ UNCHANGED issued
     \/ /\ age[req[r].used] # "rejected"
        /\ req' = [req EXCEPT ![r].pc = "ok"]
        /\ UNCHANGED issued
     \/ /\ age[req[r].used] = "aging" /\ issued < MaxTokens
        /\ req' = [req EXCEPT ![r].pc = "ok", ![r].new = issued + 1]
        /\ issued' = issued + 1
  /\ UNCHANGED <<jwt, refreshMu, age, refreshes>>

BackendEnrolls(r) ==
  /\ req[r].pc = "enrolling"
  /\ issued < MaxTokens
  /\ issued' = issued + 1
  /\ req' = [req EXCEPT ![r].pc = "enrolled", ![r].new = issued + 1]
  /\ UNCHANGED <<jwt, refreshMu, age, refreshes>>

-----------------------------------------------------------------------------
(* RoundTrip *)

Begins(r) ==
  /\ req[r].pc = "idle"
  /\ req' = [req EXCEPT ![r].pc = "sent", ![r].used = jwt]
  /\ UNCHANGED <<jwt, refreshMu, issued, age, refreshes>>

\* The first try gets no answer, or it is lost: RoundTrip returns the error.
SendFails(r) ==
  /\ req[r].pc \in {"sent", "ok", "unauthorized"}
  /\ Finish(r)
  /\ UNCHANGED <<jwt, refreshMu, issued, age, refreshes>>

\* Mutant: a header token is installed whatever is stored by now.
AcceptedLate(r) ==
  /\ req[r].pc = "ok"
  /\ jwt' = IF req[r].new # NoToken THEN req[r].new ELSE jwt
  /\ Finish(r)
  /\ UNCHANGED <<refreshMu, issued, age, refreshes>>

\* A header token is installed if the stored one is still the one used; the
\* status of the answer is looked at after that.
HeaderInstalled(r) ==
  IF req[r].new # NoToken /\ jwt = req[r].used THEN req[r].new ELSE jwt

Accepted(r) ==
  /\ req[r].pc = "ok"
  /\ jwt' = HeaderInstalled(r)
  /\ Finish(r)
  /\ UNCHANGED <<refreshMu, issued, age, refreshes>>

\* Mutant: the request is repeated with the token it was rejected with.
UnauthorizedRepeats(r) ==
  /\ req[r].pc = "unauthorized"
  /\ req' = [req EXCEPT ![r].pc = "retry", ![r].new = req[r].used]
  /\ UNCHANGED <<jwt, refreshMu, issued, age, refreshes>>

\* The body can be replayed: refreshJWT.  Otherwise the 401 is an error.
Unauthorized(r) ==
  /\ req[r].pc = "unauthorized"
  /\ jwt' = HeaderInstalled(r)
  /\ req' = [req EXCEPT ![r].pc = "refresh"]
  /\ UNCHANGED <<refreshMu, issued, age, refreshes>>

CannotReplay(r) ==
  /\ req[r].pc = "unauthorized"
  /\ jwt' = HeaderInstalled(r)
  /\ Finish(r)
  /\ UNCHANGED <<refreshMu, issued, age, refreshes>>

-----------------------------------------------------------------------------
(* refreshJWT *)

\* Mutant: no look at what another request may have stored.
RefreshLocksAndEnrolls(r) ==
  /\ req[r].pc = "refresh"
  /\ ~refreshMu
  /\ req' = [req EXCEPT ![r].pc = "enrolling"]
  /\ refreshMu' = TRUE
  /\ UNCHANGED <<jwt, issued, age, refreshes>>

\* refreshMu is taken: another request may have refreshed the token already.
RefreshLocks(r) ==
  /\ req[r].pc = "refresh"
  /\ ~refreshMu
  /\ IF jwt # req[r].used
       THEN /\ req' = [req EXCEPT ![r].pc = "retry", ![r].new = jwt]
            /\ UNCHANGED refreshMu
       ELSE /\ req' = [req EXCEPT ![r].pc = "enrolling"]
            /\ refreshMu' = TRUE
  /\ UNCHANGED <<jwt, issued, age, refreshes>>

\* The answer is there: it is stored unconditionally.
RefreshStores(r) ==
  /\ req[r].pc = "enrolled"
  /\ jwt' = req[r].new
  /\ refreshMu' = FALSE
  /\ req' = [req EXCEPT ![r].pc = "retry"]
  /\ refreshes' = [refreshes EXCEPT ![req[r].used] = @ + 1]
  /\ UNCHANGED <<issued, age>>

\* Mutant: the error path keeps the lock.
RefreshFailsLocked(r) ==
  /\ req[r].pc \in {"enrolling", "enrolled"}
  /\ Finish(r)
  /\ UNCHANGED <<jwt, refreshMu, issued, age, refreshes>>

\* Enrollment failed, or its answer was lost.
RefreshFails(r) ==
  /\ req[r].pc \in {"enrolling", "enrolled"}
  /\ refreshMu' = FALSE
  /\ Finish(r)
  /\ UNCHANGED <<jwt, issued, age, refreshes>>

\* The retry is the last try, whatever the answer; its header is not read.
Retries(r) ==
  /\ req[r].pc = "retry"
  /\ Finish(r)
  /\ UNCHANGED <<jwt, refreshMu, issued, age, refreshes>>

-----------------------------------------------------------------------------

\* What ends a request once it is under way; a client that waits gives up.
Proceeds(r) ==
  \/ BackendAnswers(r) \/ BackendEnrolls(r)
  \/ SendFails(r) \/ Accepted(r) \/ Unauthorized(r) \/ CannotReplay(r)
  \/ RefreshLocks(r) \/ RefreshStores(r) \/ RefreshFails(r) \/ Retries(r)

Next ==
  \/ \E t \in Tokens : TokenAges(t)
  \/ \E r \in Requests : Begins(r) \/ Proceeds(r)

Spec == Init /\ [][Next]_vars

\* Clients have timeouts, and Go's mutex hands itself to the longest waiter.
FairSpec ==
  /\ Spec
  /\ \A r \in Requests : WF_vars(Proceeds(r)) /\ SF_vars(RefreshLocks(r))

-----------------------------------------------------------------------------

(***************************************************************************)
(* The shared token is never replaced by one that was issued earlier,      *)
(* although answers arrive in any order: neither by the header of a slow   *)
(* response, which is why it is only installed "if the stored token is     *)
(* still the one this request used" (extension.go:214-220), nor by the     *)
(* unconditional store of refreshJWT, whose token "is at least as fresh"   *)
(* (extension.go:143-145).                                                 *)
(***************************************************************************)
NeverOlder == [][jwt' >= jwt]_vars

(***************************************************************************)
(* A token is replaced by at most one enrollment, however many requests    *)
(* were answered 401 because of it: refreshMu and the comparison with the  *)
(* stale token together make the refresh single.                           *)
(***************************************************************************)
OneRefreshPerToken == \A t \in Tokens : refreshes[t] <= 1

(***************************************************************************)
(* A retry uses a token issued after the one that was rejected.            *)
(***************************************************************************)
RetryUsesNewer == \A r \in Requests : req[r].pc = "retry" => req[r].new > req[r].used

(***************************************************************************)
(* refreshMu is held exactly while one request enrolls: no error path      *)
(* keeps it.                                                               *)
(***************************************************************************)
EnrollmentHoldsLock ==
  /\ refreshMu <=> \E r \in Requests : req[r].pc \in {"enrolling", "enrolled"}
  /\ \A r, s \in Requests :
       req[r].pc \in {"enrolling", "enrolled"}
         /\ req[s].pc \in {"enrolling", "enrolled"} => r = s

(* What the two properties of the shared token rest on. *)

Refreshing(r) == req[r].pc \in {"enrolling", "enrolled"}

\* A token on its way to the client, which nobody uses yet.
InTransit(r) == req[r].pc = "enrolled" \/ (req[r].pc = "ok" /\ req[r].new # NoToken)

\* A request under way took a token that was stored by then; one that a 401
\* answered took a token that stays rejected.
UsedTokens ==
  \A r \in Requests :
    /\ req[r].pc = "idle" => req[r] = Idle
    /\ req[r].pc \in {"sent", "unauthorized"} => req[r].new = NoToken
    /\ req[r].pc # "idle" => req[r].used \in 1..jwt
    /\ req[r].pc \notin {"idle", "sent", "ok", "retry"}
         => age[req[r].used] = "rejected"

\* Tokens in transit are distinct, newer than the one their request used,
\* not stored, not in use and not aging.
TransitTokens ==
  \A r \in Requests : InTransit(r) =>
    /\ req[r].new \in (req[r].used + 1)..issued
    /\ age[req[r].new] # "aging"
    /\ jwt # req[r].new
    /\ \A s \in Requests :
         /\ req[s].used # req[r].new
         /\ InTransit(s) /\ req[s].new = req[r].new => r = s

\* While a token is being replaced, the stored one is that token or one that
\* came in a header and is not aging; no enrollment replaced it before; and
\* what the enrollment brings is newer than all that headers can install.
RefreshInProgress ==
  \A r \in Requests : Refreshing(r) =>
    /\ jwt = req[r].used \/ age[jwt] # "aging"
    /\ refreshes[req[r].used] = 0
    /\ req[r].pc = "enrolled" =>
         /\ jwt < req[r].new
         /\ \A s \in Requests :
              req[s].pc = "ok" /\ req[s].new # NoToken /\ req[s].used = jwt
                => req[s].new < req[r].new

\* A token that an enrollment replaced is behind the stored one, and tokens
\* that were not issued yet are fresh.
History ==
  /\ jwt <= issued
  /\ \A t \in Tokens : refreshes[t] > 0 => t < jwt
  /\ \A t \in Tokens : t > issued => age[t] = "fresh"

IInv ==
  /\ TypeOK /\ EnrollmentHoldsLock /\ RetryUsesNewer /\ OneRefreshPerToken
  /\ UsedTokens /\ TransitTokens /\ RefreshInProgress /\ History

(***************************************************************************)
(* Every export ends, also when all of them wait for the same refresh and  *)
(* that fails: the next one in line tries again.                           *)
(***************************************************************************)
RequestsEnd == \A r \in Requests : []<>(req[r].pc = "idle")
=============================================================================
