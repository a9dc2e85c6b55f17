--------------------------- MODULE SakAuthProofs ----------------------------
(***************************************************************************)
(* Proofs about the collector's authenticator, for any number of senders   *)
(* and tokens.  The inductive invariant IInv is in module SakAuth; each    *)
(* lemma below shows that one kind of step preserves it.                   *)
(***************************************************************************)
EXTENDS SakAuth, TLAPS

(***************************************************************************)
(* The state after Start.                                                  *)
(***************************************************************************)
LEMMA InitiallyIInv == Init => IInv
<1> SUFFICES ASSUME Init PROVE IInv
  OBVIOUS
<1>1. \A r \in Requests : req[r] = Idle
  BY DEF Init
<1>2. TypeOK
  <2>1. Idle \in [pc : Steps, used : Tokens \cup {NoToken}, new : Tokens \cup {NoToken}]
    BY DEF Idle, Steps
  <2>2. 1 \in Tokens /\ 0 \in Nat
    BY TokensBounded DEF Tokens
  <2>3. QED
    BY <2>1, <2>2 DEF Init, TypeOK
<1>3. EnrollmentHoldsLock
  <2>1. \A r \in Requests : req[r].pc = "idle"
    BY DEF Init, Idle
  <2>2. refreshMu = FALSE
    BY DEF Init
  <2>3. QED
    BY <2>1, <2>2 DEF EnrollmentHoldsLock
<1>4. RetryUsesNewer /\ UsedTokens /\ TransitTokens /\ RefreshInProgress
  BY <1>1 DEF RetryUsesNewer, UsedTokens, TransitTokens, RefreshInProgress,
              Refreshing, InTransit, Idle
<1>5. OneRefreshPerToken /\ History
  BY DEF Init, OneRefreshPerToken, History, Tokens
<1>6. QED
  BY <1>2, <1>3, <1>4, <1>5 DEF IInv

(***************************************************************************)
(* A request that ends without touching anything shared.                   *)
(***************************************************************************)
LEMMA FinishKeepsIInv ==
  ASSUME IInv, NEW r \in Requests, Finish(r), req[r].pc \notin {"enrolling", "enrolled"},
         UNCHANGED <<jwt, refreshMu, issued, age, refreshes>>
  PROVE  IInv'
<1>1. req'[r] = Idle /\ \A s \in Requests \ {r} : req'[s] = req[s]
  BY DEF Finish, IInv, TypeOK
<1>2. TypeOK'
  BY DEF Finish, IInv, TypeOK, Idle, NoToken, Steps
<1>3. EnrollmentHoldsLock'
  BY <1>1 DEF IInv, EnrollmentHoldsLock, Idle
<1>4. RetryUsesNewer' /\ OneRefreshPerToken' /\ UsedTokens' /\ History'
  BY <1>1 DEF IInv, RetryUsesNewer, OneRefreshPerToken, UsedTokens, History, Idle
<1>5. TransitTokens'
  BY <1>1 DEF IInv, TypeOK, TransitTokens, InTransit, Idle, NoToken, Tokens
<1>6. RefreshInProgress'
  BY <1>1 DEF IInv, RefreshInProgress, Refreshing, Idle
<1>7. QED
  BY <1>2, <1>3, <1>4, <1>5, <1>6 DEF IInv

(***************************************************************************)
(* The backend: a token ages, never one that is in transit nor, while an   *)
(* enrollment replaces a token, one issued after that token.               *)
(***************************************************************************)
LEMMA TokenAgesKeepsIInv ==
  ASSUME IInv, NEW t \in Tokens, TokenAges(t)
  PROVE  IInv'
<1> USE DEF TokenAges
<1>1. /\ \A u \in Tokens \ {t} : age'[u] = age[u]
      /\ age[t] = "rejected" => age'[t] = "rejected"
      /\ age'[t] = "aging" => OutlivesExchanges(t)
  BY DEF IInv, TypeOK
<1>2. TypeOK'
  BY DEF IInv, TypeOK
<1>3. EnrollmentHoldsLock' /\ RetryUsesNewer' /\ OneRefreshPerToken'
  BY DEF IInv, EnrollmentHoldsLock, RetryUsesNewer, OneRefreshPerToken
<1>4. UsedTokens'
  BY <1>1 DEF IInv, TypeOK, UsedTokens, Tokens, Idle, NoToken, Steps
<1>5. TransitTokens'
  BY <1>1 DEF IInv, TypeOK, TransitTokens, InTransit, OutlivesExchanges, Tokens, NoToken
<1>6. RefreshInProgress'
  BY <1>1 DEF IInv, TypeOK, UsedTokens, RefreshInProgress, Refreshing,
              OutlivesExchanges, Tokens, NoToken
<1>7. History'
  <2>1. t <= issued /\ t \in Nat /\ issued \in Nat
    BY DEF IInv, TypeOK, Tokens
  <2>2. QED
    BY <1>1, <2>1 DEF IInv, TypeOK, History, Tokens
<1>8. QED
  BY <1>2, <1>3, <1>4, <1>5, <1>6, <1>7 DEF IInv

(***************************************************************************)
(* An answer: a header token is the newest there is, and the token it is   *)
(* meant to replace is not the one that an enrollment is replacing.        *)
(***************************************************************************)
LEMMA BackendAnswersKeepsIInv ==
  ASSUME IInv, NEW r \in Requests, BackendAnswers(r)
  PROVE  IInv'
<1> USE DEF BackendAnswers
<1>1. /\ \A s \in Requests \ {r} : req'[s] = req[s]
      /\ req[r].pc = "sent" /\ req'[r].used = req[r].used
      /\ req'[r] \in [pc : Steps, used : Tokens \cup {NoToken}, new : Tokens \cup {NoToken}]
  BY DEF IInv, TypeOK, Tokens, Steps
<1>2. \/ /\ req'[r].pc = "unauthorized" /\ req'[r].new = req[r].new
         /\ age[req[r].used] = "rejected" /\ issued' = issued
      \/ /\ req'[r].pc = "ok" /\ req'[r].new = NoToken /\ issued' = issued
      \/ /\ req'[r].pc = "ok" /\ req'[r].new = issued + 1
         /\ issued' = issued + 1 /\ issued < MaxTokens
         /\ age[req[r].used] = "aging"
  BY DEF IInv, TypeOK, UsedTokens
<1>3. TypeOK'
  <2>1. req' \in [Requests -> [pc : Steps, used : Tokens \cup {NoToken},
                               new : Tokens \cup {NoToken}]]
    BY <1>1 DEF IInv, TypeOK
  <2>2. issued' \in Tokens
    BY <1>2, TokensBounded DEF IInv, TypeOK, Tokens
  <2>3. QED
    BY <2>1, <2>2 DEF IInv, TypeOK
<1>4. EnrollmentHoldsLock'
  BY <1>1, <1>2 DEF IInv, EnrollmentHoldsLock
<1>5. RetryUsesNewer' /\ OneRefreshPerToken'
  BY <1>1, <1>2 DEF IInv, RetryUsesNewer, OneRefreshPerToken
<1>6. UsedTokens'
  BY <1>1, <1>2 DEF IInv, UsedTokens
<1>7. TransitTokens'
  <2>1. \A s \in Requests : req'[s].used = req[s].used /\ req[s].used <= issued
    BY <1>1 DEF IInv, TypeOK, UsedTokens, History, Tokens, Idle, NoToken
  <2>2. \A s \in Requests \ {r} : InTransit(s)' =>
           /\ InTransit(s) /\ req'[s].new = req[s].new
    BY <1>1 DEF InTransit
  <2>3. InTransit(r)' =>
           /\ req'[r].new = issued + 1 /\ issued' = issued + 1
           /\ issued + 1 \in Tokens /\ age[issued + 1] = "fresh"
    BY <1>1, <1>2 DEF IInv, TypeOK, History, InTransit, Tokens
  <2>4. issued' >= issued /\ issued' \in Nat /\ issued \in Nat /\ jwt \in Nat /\ jwt <= issued
    BY <1>2 DEF IInv, TypeOK, History, Tokens
  <2>5. \A s \in Requests : InTransit(s) => req[s].new <= issued
    BY DEF IInv, TransitTokens
  <2>6. \A s \in Requests : req[s].used \in Nat /\ req[s].new \in Nat
    BY DEF IInv, TypeOK, Tokens, NoToken
  <2>7. ASSUME NEW s \in Requests, InTransit(s)'
        PROVE  /\ req'[s].new \in (req'[s].used + 1)..issued'
               /\ age'[req'[s].new] # "aging"
               /\ jwt' # req'[s].new
               /\ \A u \in Requests : req'[u].used # req'[s].new
    <3>1. CASE s = r
      BY <2>1, <2>3, <2>4, <2>6, <2>7, <3>1
    <3>2. CASE s # r
      BY <2>1, <2>2, <2>4, <2>6, <2>7, <3>2 DEF IInv, TransitTokens
    <3>3. QED
      BY <3>1, <3>2
  <2>8. ASSUME NEW s \in Requests, NEW u \in Requests, InTransit(s)', InTransit(u)',
               req'[u].new = req'[s].new
        PROVE  s = u
    BY <2>2, <2>3, <2>4, <2>5, <2>6, <2>8 DEF IInv, TransitTokens
  <2>9. QED
    BY <2>7, <2>8 DEF TransitTokens
<1>8. RefreshInProgress'
  <2> SUFFICES ASSUME NEW s \in Requests, Refreshing(s)'
               PROVE  /\ jwt' = req'[s].used \/ age'[jwt'] # "aging"
                      /\ refreshes'[req'[s].used] = 0
                      /\ req'[s].pc = "enrolled" =>
                           /\ jwt' < req'[s].new
                           /\ \A u \in Requests :
                                req'[u].pc = "ok" /\ req'[u].new # NoToken
                                  /\ req'[u].used = jwt' => req'[u].new < req'[s].new
    BY DEF RefreshInProgress
  <2>1. s # r /\ Refreshing(s) /\ req'[s] = req[s]
    BY <1>1, <1>2 DEF Refreshing
  <2>2. age[req[s].used] = "rejected"
    BY <2>1 DEF IInv, UsedTokens, Refreshing
  <2>3. ~(req'[r].pc = "ok" /\ req'[r].new # NoToken /\ req'[r].used = jwt)
    BY <1>1, <1>2, <2>1, <2>2 DEF IInv, RefreshInProgress
  <2>4. QED
    BY <1>1, <2>1, <2>3 DEF IInv, RefreshInProgress
<1>9. History'
  BY <1>2 DEF IInv, TypeOK, History, Tokens
<1>10. QED
  BY <1>3, <1>4, <1>5, <1>6, <1>7, <1>8, <1>9 DEF IInv

(***************************************************************************)
(* The answer of an enrollment: its token is newer than any other.         *)
(***************************************************************************)
LEMMA BackendEnrollsKeepsIInv ==
  ASSUME IInv, NEW r \in Requests, BackendEnrolls(r)
  PROVE  IInv'
<1>1. /\ \A s \in Requests \ {r} : req'[s] = req[s]
      /\ req[r].pc = "enrolling" /\ req'[r].pc = "enrolled"
      /\ req'[r].used = req[r].used /\ req'[r].new = issued + 1
      /\ issued' = issued + 1 /\ UNCHANGED <<jwt, refreshMu, age, refreshes>>
  BY DEF BackendEnrolls, IInv, TypeOK
<1>2. issued + 1 \in Tokens /\ issued \in Tokens
  BY TokensBounded DEF BackendEnrolls, IInv, TypeOK, Tokens
<1>3. TypeOK'
  <2> DEFINE R == [pc : Steps, used : Tokens \cup {NoToken}, new : Tokens \cup {NoToken}]
             q == [req[r] EXCEPT !.pc = "enrolled", !.new = issued + 1]
  <2>1. req \in [Requests -> R] /\ req' = [req EXCEPT ![r] = q]
    BY DEF BackendEnrolls, IInv, TypeOK
  <2>2. q \in R
    BY <1>2, <2>1 DEF Steps
  <2> HIDE DEF R, q
  <2>3. req' \in [Requests -> R]
    BY <2>1, <2>2
  <2>4. QED
    BY <1>1, <1>2, <2>3 DEF IInv, TypeOK, R
<1>4. EnrollmentHoldsLock'
  <2>1. \A s \in Requests : req'[s].pc \in {"enrolling", "enrolled"}
                              <=> req[s].pc \in {"enrolling", "enrolled"}
    BY <1>1
  <2>2. QED
    BY <1>1, <2>1, Zenon DEF IInv, EnrollmentHoldsLock
<1>5. RetryUsesNewer' /\ OneRefreshPerToken'
  BY <1>1 DEF IInv, RetryUsesNewer, OneRefreshPerToken
<1>6. UsedTokens'
  BY <1>1 DEF IInv, UsedTokens
<1>7. /\ \A s \in Requests : req[s].used \in Nat /\ req[s].new \in Nat
      /\ \A s \in Requests : req'[s].used = req[s].used /\ req[s].used <= issued
      /\ \A s \in Requests : InTransit(s) => req[s].new <= issued
  <2>1. \A s \in Requests : req[s].used \in Nat /\ req[s].new \in Nat
    BY DEF IInv, TypeOK, Tokens, NoToken
  <2>2. \A s \in Requests : req'[s].used = req[s].used
    BY <1>1
  <2>3. \A s \in Requests : req[s].used <= issued
    BY DEF IInv, TypeOK, UsedTokens, History, Tokens, Idle, NoToken
  <2>4. \A s \in Requests : InTransit(s) => req[s].new <= issued
    BY DEF IInv, TransitTokens
  <2>5. QED
    BY <2>1, <2>2, <2>3, <2>4
<1>8. jwt \in Nat /\ jwt <= issued /\ issued \in Nat /\ age[issued + 1] = "fresh"
  BY <1>2 DEF IInv, TypeOK, History, Tokens
<1>9. TransitTokens'
  <2>1. \A s \in Requests \ {r} : InTransit(s)' => InTransit(s) /\ req'[s].new = req[s].new
    BY <1>1 DEF InTransit
  <2>2. ASSUME NEW s \in Requests, InTransit(s)'
        PROVE  /\ req'[s].new \in (req'[s].used + 1)..issued'
               /\ age'[req'[s].new] # "aging"
               /\ jwt' # req'[s].new
               /\ \A u \in Requests : req'[u].used # req'[s].new
    <3>1. CASE s = r
      BY <1>1, <1>7, <1>8, <3>1
    <3>2. CASE s # r
      BY <1>1, <1>7, <1>8, <2>1, <2>2, <3>2 DEF IInv, TransitTokens
    <3>3. QED
      BY <3>1, <3>2
  <2>3. ASSUME NEW s \in Requests, NEW u \in Requests, InTransit(s)', InTransit(u)',
               req'[u].new = req'[s].new
        PROVE  s = u
    BY <1>1, <1>7, <1>8, <2>1, <2>3 DEF IInv, TransitTokens
  <2>4. QED
    BY <2>2, <2>3 DEF TransitTokens
<1>10. RefreshInProgress'
  <2>1. \A s \in Requests : Refreshing(s)' => s = r
    BY <1>1 DEF IInv, EnrollmentHoldsLock, Refreshing
  <2>2. \A s \in Requests : req'[s].pc = "ok" /\ req'[s].new # NoToken
                              => req'[s].new < issued + 1
    BY <1>1, <1>7, <1>8 DEF InTransit
  <2>3. QED
    BY <1>1, <1>8, <2>1, <2>2 DEF IInv, RefreshInProgress, Refreshing
<1>11. History'
  BY <1>1 DEF IInv, TypeOK, History, Tokens
<1>12. QED
  BY <1>3, <1>4, <1>5, <1>6, <1>9, <1>10, <1>11 DEF IInv

(***************************************************************************)
(* A request takes the stored token, which is not in transit.              *)
(***************************************************************************)
LEMMA BeginsKeepsIInv ==
  ASSUME IInv, NEW r \in Requests, Begins(r)
  PROVE  IInv'
<1> USE DEF Begins
<1>1. /\ \A s \in Requests \ {r} : req'[s] = req[s]
      /\ req[r].pc = "idle" /\ req'[r].pc = "sent"
      /\ req'[r].used = jwt /\ req'[r].new = NoToken
  BY DEF IInv, TypeOK, UsedTokens, Idle
<1>2. TypeOK'
  <2> DEFINE R == [pc : Steps, used : Tokens \cup {NoToken}, new : Tokens \cup {NoToken}]
             q == [req[r] EXCEPT !.pc = "sent", !.used = jwt]
  <2>1. req \in [Requests -> R] /\ req' = [req EXCEPT ![r] = q] /\ jwt \in Tokens
    BY DEF IInv, TypeOK
  <2>2. q \in R
    BY <2>1 DEF Steps
  <2> HIDE DEF R, q
  <2>3. req' \in [Requests -> R]
    BY <2>1, <2>2
  <2>4. QED
    BY <2>3 DEF IInv, TypeOK, R
<1>3. EnrollmentHoldsLock'
  BY <1>1 DEF IInv, EnrollmentHoldsLock
<1>4. RetryUsesNewer' /\ OneRefreshPerToken' /\ History'
  BY <1>1 DEF IInv, RetryUsesNewer, OneRefreshPerToken, History
<1>5. UsedTokens'
  BY <1>1 DEF IInv, TypeOK, UsedTokens, Tokens
<1>6. TransitTokens'
  BY <1>1 DEF IInv, TypeOK, UsedTokens, TransitTokens, InTransit, Tokens, NoToken, Idle
<1>7. RefreshInProgress'
  BY <1>1 DEF IInv, TypeOK, RefreshInProgress, Refreshing, Tokens, NoToken
<1>8. QED
  BY <1>2, <1>3, <1>4, <1>5, <1>6, <1>7 DEF IInv

(***************************************************************************)
(* A 401 whose request can be replayed.                                    *)
(***************************************************************************)
LEMMA UnauthorizedKeepsIInv ==
  ASSUME IInv, NEW r \in Requests, Unauthorized(r)
  PROVE  IInv' /\ jwt' = jwt
<1> USE DEF Unauthorized
<1>0. jwt' = jwt
  BY DEF IInv, UsedTokens, HeaderInstalled
<1>1. /\ \A s \in Requests \ {r} : req'[s] = req[s]
      /\ req[r].pc = "unauthorized" /\ req'[r].pc = "refresh"
      /\ req'[r].used = req[r].used /\ req'[r].new = req[r].new
  BY DEF IInv, TypeOK
<1>2. TypeOK'
  BY <1>0 DEF IInv, TypeOK, Steps
<1>3. EnrollmentHoldsLock'
  BY <1>1 DEF IInv, EnrollmentHoldsLock
<1>4. RetryUsesNewer' /\ OneRefreshPerToken' /\ History'
  BY <1>0, <1>1 DEF IInv, RetryUsesNewer, OneRefreshPerToken, History
<1>5. UsedTokens'
  BY <1>0, <1>1 DEF IInv, UsedTokens
<1>6. TransitTokens'
  BY <1>0, <1>1 DEF IInv, TransitTokens, InTransit
<1>7. RefreshInProgress'
  BY <1>0, <1>1 DEF IInv, RefreshInProgress, Refreshing
<1>8. QED
  BY <1>0, <1>2, <1>3, <1>4, <1>5, <1>6, <1>7 DEF IInv

(***************************************************************************)
(* A header token is installed only over the token its request used, and   *)
(* it is newer than that; an enrollment under way will bring a newer one.  *)
(***************************************************************************)
LEMMA AcceptedKeepsIInv ==
  ASSUME IInv, NEW r \in Requests, Accepted(r)
  PROVE  IInv' /\ jwt' >= jwt
<1> USE DEF Accepted, HeaderInstalled
<1>1. CASE ~(req[r].new # NoToken /\ jwt = req[r].used)
  <2>1. jwt' = jwt /\ jwt \in Nat
    BY <1>1 DEF IInv, TypeOK, Tokens
  <2>2. QED
    BY <2>1, FinishKeepsIInv
<1>2. CASE req[r].new # NoToken /\ jwt = req[r].used
  <2>1. /\ req'[r] = Idle /\ \A s \in Requests \ {r} : req'[s] = req[s]
        /\ jwt' = req[r].new /\ InTransit(r) /\ req[r].pc = "ok"
    BY <1>2 DEF Finish, IInv, TypeOK, InTransit
  <2>2. /\ jwt \in Nat /\ jwt' \in Nat /\ issued \in Nat
        /\ jwt < jwt' /\ jwt' <= issued /\ jwt' \in Tokens
    BY <1>2, <2>1, TokensBounded DEF IInv, TypeOK, TransitTokens, Tokens, NoToken
  <2>3. TypeOK'
    BY <2>2 DEF Finish, IInv, TypeOK, Idle, NoToken, Steps
  <2>4. EnrollmentHoldsLock'
    BY <2>1 DEF IInv, EnrollmentHoldsLock, Idle
  <2>5. RetryUsesNewer' /\ OneRefreshPerToken'
    BY <2>1 DEF IInv, RetryUsesNewer, OneRefreshPerToken, Idle
  <2>6. UsedTokens'
    BY <2>1, <2>2 DEF IInv, UsedTokens, Idle
  <2>7. TransitTokens'
    <3>1. \A s \in Requests : InTransit(s)' => s # r /\ InTransit(s) /\ req'[s] = req[s]
      BY <2>1 DEF InTransit, Idle
    <3>2. req'[r].used = NoToken
      BY <2>1 DEF Idle
    <3>3. \A s \in Requests : InTransit(s) => req[s].new # NoToken
      BY DEF IInv, TypeOK, TransitTokens, Tokens, NoToken
    <3>4. QED
      BY <2>1, <3>1, <3>2, <3>3 DEF IInv, TransitTokens
  <2>8. RefreshInProgress'
    <3> SUFFICES ASSUME NEW s \in Requests, Refreshing(s)'
                 PROVE  /\ age'[jwt'] # "aging"
                        /\ refreshes'[req'[s].used] = 0
                        /\ req'[s].pc = "enrolled" =>
                             /\ jwt' < req'[s].new
                             /\ \A u \in Requests :
                                  req'[u].pc = "ok" /\ req'[u].new # NoToken
                                    /\ req'[u].used = jwt' => req'[u].new < req'[s].new
      BY DEF RefreshInProgress
    <3>1. s # r /\ Refreshing(s) /\ req'[s] = req[s]
      BY <2>1 DEF Refreshing, Idle
    <3>2. age[jwt'] # "aging" /\ \A u \in Requests : req[u].used # jwt'
      BY <2>1 DEF IInv, TransitTokens
    <3>3. refreshes[req[s].used] = 0 /\ (req[s].pc = "enrolled" => jwt' < req[s].new)
      BY <1>2, <2>1, <3>1 DEF IInv, RefreshInProgress
    <3>4. \A u \in Requests : req'[u].pc = "ok" => req'[u].used # jwt'
      BY <2>1, <3>2 DEF Idle
    <3>5. QED
      BY <3>1, <3>2, <3>3, <3>4
  <2>9. History'
    BY <2>2 DEF IInv, TypeOK, History, Tokens
  <2>10. QED
    BY <2>2, <2>3, <2>4, <2>5, <2>6, <2>7, <2>8, <2>9 DEF IInv
<1>3. QED
  BY <1>1, <1>2

(***************************************************************************)
(* The lock is taken: the stored token is a later one, which is enough for *)
(* the retry, or the rejected one, which no enrollment replaced so far.    *)
(***************************************************************************)
LEMMA RefreshLocksKeepsIInv ==
  ASSUME IInv, NEW r \in Requests, RefreshLocks(r)
  PROVE  IInv'
<1> USE DEF RefreshLocks
<1>0. refreshMu = FALSE /\ req[r].pc = "refresh"
  BY DEF IInv, TypeOK
<1>1. \A s \in Requests : req[s].pc \notin {"enrolling", "enrolled"}
  BY <1>0, Zenon DEF IInv, EnrollmentHoldsLock
<1>2. req[r].used \in 1..jwt /\ age[req[r].used] = "rejected" /\ jwt \in Nat
  BY <1>0 DEF IInv, TypeOK, UsedTokens, Tokens
<1>3. CASE jwt # req[r].used
  <2>1. /\ \A s \in Requests \ {r} : req'[s] = req[s]
        /\ req'[r].pc = "retry" /\ req'[r].used = req[r].used /\ req'[r].new = jwt
    BY <1>3 DEF IInv, TypeOK
  <2>2. TypeOK'
    BY <1>3 DEF IInv, TypeOK, Steps
  <2>3. EnrollmentHoldsLock'
    <3>1. \A s \in Requests : req'[s].pc \notin {"enrolling", "enrolled"}
      BY <1>1, <2>1
    <3>2. refreshMu' = FALSE
      BY <1>0, <1>3
    <3>3. QED
      BY <3>1, <3>2, Zenon DEF EnrollmentHoldsLock
  <2>4. RetryUsesNewer'
    BY <1>2, <1>3, <2>1 DEF IInv, RetryUsesNewer
  <2>5. OneRefreshPerToken' /\ History'
    BY DEF IInv, OneRefreshPerToken, History
  <2>6. UsedTokens'
    BY <1>2, <2>1 DEF IInv, UsedTokens
  <2>7. TransitTokens'
    BY <1>0, <2>1 DEF IInv, TransitTokens, InTransit
  <2>8. RefreshInProgress'
    BY <1>1, <2>1 DEF RefreshInProgress, Refreshing
  <2>9. QED
    BY <2>2, <2>3, <2>4, <2>5, <2>6, <2>7, <2>8 DEF IInv
<1>4. CASE jwt = req[r].used
  <2>1. /\ \A s \in Requests \ {r} : req'[s] = req[s]
        /\ req'[r].pc = "enrolling" /\ req'[r].used = req[r].used
        /\ req'[r].new = req[r].new
    BY <1>4 DEF IInv, TypeOK
  <2>2. TypeOK'
    BY <1>4 DEF IInv, TypeOK, Steps
  <2>3. EnrollmentHoldsLock'
    <3>1. \A s \in Requests : req'[s].pc \in {"enrolling", "enrolled"} <=> s = r
      BY <1>1, <2>1
    <3>2. refreshMu' = TRUE
      BY <1>4
    <3>3. QED
      BY <3>1, <3>2, Zenon DEF EnrollmentHoldsLock
  <2>4. RetryUsesNewer' /\ OneRefreshPerToken' /\ History'
    BY <2>1 DEF IInv, RetryUsesNewer, OneRefreshPerToken, History
  <2>5. UsedTokens'
    BY <1>2, <2>1 DEF IInv, UsedTokens
  <2>6. TransitTokens'
    BY <1>0, <2>1 DEF IInv, TransitTokens, InTransit
  <2>7. RefreshInProgress'
    <3>1. refreshes[jwt] = 0
      BY DEF IInv, TypeOK, History, Tokens
    <3>2. QED
      BY <1>1, <1>4, <2>1, <3>1 DEF RefreshInProgress, Refreshing
  <2>8. QED
    BY <2>2, <2>3, <2>4, <2>5, <2>6, <2>7 DEF IInv
<1>5. QED
  BY <1>3, <1>4

(***************************************************************************)
(* The unconditional store: what the enrollment brought is newer than the  *)
(* stored token, and the first enrollment to replace the rejected one.     *)
(***************************************************************************)
LEMMA RefreshStoresKeepsIInv ==
  ASSUME IInv, NEW r \in Requests, RefreshStores(r)
  PROVE  IInv' /\ jwt' >= jwt
<1> USE DEF RefreshStores
<1>1. /\ \A s \in Requests \ {r} : req'[s] = req[s]
      /\ req[r].pc = "enrolled" /\ req'[r].pc = "retry"
      /\ req'[r].used = req[r].used /\ req'[r].new = req[r].new
      /\ jwt' = req[r].new
  BY DEF IInv, TypeOK
<1>2. \A s \in Requests \ {r} : req[s].pc \notin {"enrolling", "enrolled"}
  BY <1>1 DEF IInv, EnrollmentHoldsLock
<1>3. /\ jwt \in Nat /\ jwt' \in Tokens /\ issued \in Nat /\ jwt' \in Nat
      /\ jwt < jwt' /\ jwt' <= issued
      /\ req[r].used \in 1..jwt /\ req[r].used < jwt' /\ req[r].used \in Tokens
      /\ refreshes[req[r].used] = 0
  <2>1. jwt < req[r].new /\ refreshes[req[r].used] = 0
    BY <1>1 DEF IInv, RefreshInProgress, Refreshing
  <2>2. req[r].new \in (req[r].used + 1)..issued
    BY <1>1 DEF IInv, TransitTokens, InTransit
  <2>3. req[r].used \in 1..jwt
    BY <1>1 DEF IInv, UsedTokens
  <2>4. QED
    BY <1>1, <2>1, <2>2, <2>3, TokensBounded DEF IInv, TypeOK, Tokens
<1>4. TypeOK'
  <2>1. refreshes' \in [Tokens -> Nat]
    BY <1>3 DEF IInv, TypeOK
  <2>2. req' \in [Requests -> [pc : Steps, used : Tokens \cup {NoToken},
                               new : Tokens \cup {NoToken}]]
    BY DEF IInv, TypeOK, Steps
  <2>3. QED
    BY <1>3, <2>1, <2>2 DEF IInv, TypeOK
<1>5. EnrollmentHoldsLock'
  <2>1. \A s \in Requests : req'[s].pc \notin {"enrolling", "enrolled"}
    BY <1>1, <1>2
  <2>2. refreshMu' = FALSE
    OBVIOUS
  <2>3. QED
    BY <2>1, <2>2, Zenon DEF EnrollmentHoldsLock
<1>6. RetryUsesNewer'
  BY <1>1, <1>3 DEF IInv, TypeOK, RetryUsesNewer, Tokens
<1>7. /\ refreshes'[req[r].used] = 1
      /\ \A t \in Tokens \ {req[r].used} : refreshes'[t] = refreshes[t]
  BY <1>3 DEF IInv, TypeOK
<1>8. OneRefreshPerToken'
  BY <1>7 DEF IInv, OneRefreshPerToken
<1>9. UsedTokens'
  BY <1>1, <1>3 DEF IInv, UsedTokens
<1>10. TransitTokens'
  BY <1>1 DEF IInv, TransitTokens, InTransit
<1>11. RefreshInProgress'
  BY <1>1, <1>2 DEF RefreshInProgress, Refreshing
<1>12. History'
  BY <1>3, <1>7 DEF IInv, TypeOK, History, Tokens
<1>13. QED
  BY <1>3, <1>4, <1>5, <1>6, <1>8, <1>9, <1>10, <1>11, <1>12 DEF IInv

(***************************************************************************)
(* An enrollment that fails gives the lock back.                           *)
(***************************************************************************)
LEMMA RefreshFailsKeepsIInv ==
  ASSUME IInv, NEW r \in Requests, RefreshFails(r)
  PROVE  IInv'
<1>1. /\ req'[r] = Idle /\ \A s \in Requests \ {r} : req'[s] = req[s]
      /\ req[r].pc \in {"enrolling", "enrolled"}
      /\ refreshMu' = FALSE /\ UNCHANGED <<jwt, issued, age, refreshes>>
  BY DEF RefreshFails, Finish, IInv, TypeOK
<1>2. TypeOK'
  BY <1>1 DEF RefreshFails, Finish, IInv, TypeOK, Idle, NoToken, Steps
<1>3. \A s \in Requests : req'[s].pc \notin {"enrolling", "enrolled"}
  <2>1. req'[r].pc = "idle"
    BY <1>1 DEF Idle
  <2>2. \A s \in Requests \ {r} : req[s].pc \notin {"enrolling", "enrolled"}
    BY <1>1 DEF IInv, EnrollmentHoldsLock
  <2>3. QED
    BY <1>1, <2>1, <2>2
<1>4. EnrollmentHoldsLock'
  <2>1. refreshMu' = FALSE
    BY <1>1
  <2>2. QED
    BY <1>3, <2>1, Zenon DEF EnrollmentHoldsLock
<1>5. RetryUsesNewer' /\ OneRefreshPerToken' /\ UsedTokens' /\ History'
  BY <1>1 DEF IInv, RetryUsesNewer, OneRefreshPerToken, UsedTokens, History, Idle
<1>6. TransitTokens'
  <2>1. \A s \in Requests : InTransit(s)' => s # r /\ InTransit(s) /\ req'[s] = req[s]
    BY <1>1 DEF InTransit, Idle
  <2>2. req'[r].used = NoToken
    BY <1>1 DEF Idle
  <2>3. \A s \in Requests : InTransit(s) => req[s].new # NoToken
    BY DEF IInv, TypeOK, TransitTokens, Tokens, NoToken
  <2>4. QED
    BY <1>1, <2>1, <2>2, <2>3 DEF IInv, TransitTokens
<1>7. RefreshInProgress'
  BY <1>3 DEF RefreshInProgress, Refreshing
<1>8. QED
  BY <1>2, <1>4, <1>5, <1>6, <1>7 DEF IInv

(***************************************************************************)
(* Every step preserves the invariant, and none stores an older token.     *)
(***************************************************************************)
LEMMA StepKeepsIInv ==
  ASSUME IInv, [Next]_vars
  PROVE  IInv' /\ jwt' >= jwt
<1>0. jwt \in Nat
  BY DEF IInv, TypeOK, Tokens
<1>1. ASSUME NEW t \in Tokens, TokenAges(t) PROVE IInv' /\ jwt' >= jwt
  <2>1. IInv'
    BY <1>1, TokenAgesKeepsIInv
  <2>2. jwt' = jwt
    BY <1>1, Zenon DEF TokenAges
  <2>3. QED
    BY <1>0, <2>1, <2>2
<1>2. ASSUME NEW r \in Requests, Begins(r) PROVE IInv' /\ jwt' >= jwt
  <2>1. IInv'
    BY <1>2, BeginsKeepsIInv
  <2>2. jwt' = jwt
    BY <1>2, Zenon DEF Begins
  <2>3. QED
    BY <1>0, <2>1, <2>2
<1>3. ASSUME NEW r \in Requests, BackendAnswers(r) PROVE IInv' /\ jwt' >= jwt
  <2>1. IInv'
    BY <1>3, BackendAnswersKeepsIInv
  <2>2. jwt' = jwt
    BY <1>3, Zenon DEF BackendAnswers
  <2>3. QED
    BY <1>0, <2>1, <2>2
<1>4. ASSUME NEW r \in Requests, BackendEnrolls(r) PROVE IInv' /\ jwt' >= jwt
  <2>1. IInv'
    BY <1>4, BackendEnrollsKeepsIInv
  <2>2. jwt' = jwt
    BY <1>4, Zenon DEF BackendEnrolls
  <2>3. QED
    BY <1>0, <2>1, <2>2
<1>5. ASSUME NEW r \in Requests, SendFails(r) \/ CannotReplay(r) \/ Retries(r)
      PROVE  IInv' /\ jwt' >= jwt
  <2>1. /\ Finish(r) /\ req[r].pc \notin {"enrolling", "enrolled"}
        /\ UNCHANGED <<jwt, refreshMu, issued, age, refreshes>>
    BY <1>5 DEF SendFails, CannotReplay, Retries, HeaderInstalled, IInv, UsedTokens
  <2>2. IInv'
    BY <2>1, FinishKeepsIInv
  <2>3. QED
    BY <1>0, <2>1, <2>2
<1>6. ASSUME NEW r \in Requests, Accepted(r) PROVE IInv' /\ jwt' >= jwt
  BY <1>6, AcceptedKeepsIInv
<1>7. ASSUME NEW r \in Requests, Unauthorized(r) PROVE IInv' /\ jwt' >= jwt
  <2>1. IInv' /\ jwt' = jwt
    BY <1>7, UnauthorizedKeepsIInv
  <2>2. QED
    BY <1>0, <2>1
<1>8. ASSUME NEW r \in Requests, RefreshLocks(r) PROVE IInv' /\ jwt' >= jwt
  <2>1. IInv'
    BY <1>8, RefreshLocksKeepsIInv
  <2>2. jwt' = jwt
    BY <1>8, Zenon DEF RefreshLocks
  <2>3. QED
    BY <1>0, <2>1, <2>2
<1>9. ASSUME NEW r \in Requests, RefreshStores(r) PROVE IInv' /\ jwt' >= jwt
  BY <1>9, RefreshStoresKeepsIInv
<1>10. ASSUME NEW r \in Requests, RefreshFails(r) PROVE IInv' /\ jwt' >= jwt
  <2>1. IInv'
    BY <1>10, RefreshFailsKeepsIInv
  <2>2. jwt' = jwt
    BY <1>10, Zenon DEF RefreshFails
  <2>3. QED
    BY <1>0, <2>1, <2>2
<1>11. CASE UNCHANGED vars
  <2> USE <1>11 DEF vars
  <2>1. TypeOK' /\ UsedTokens' /\ History'
    BY DEF IInv, TypeOK, UsedTokens, History
  <2>2. EnrollmentHoldsLock' /\ RetryUsesNewer' /\ OneRefreshPerToken'
    BY DEF IInv, EnrollmentHoldsLock, RetryUsesNewer, OneRefreshPerToken
  <2>3. TransitTokens' /\ RefreshInProgress'
    BY DEF IInv, TransitTokens, RefreshInProgress, InTransit, Refreshing
  <2>4. QED
    BY <1>0, <2>1, <2>2, <2>3 DEF IInv
<1>12. QED
  BY <1>1, <1>2, <1>3, <1>4, <1>5, <1>6, <1>7, <1>8, <1>9, <1>10, <1>11
  DEF Next, Proceeds

-----------------------------------------------------------------------------

(***************************************************************************)
(* The inductive invariant of the authenticator holds in every state.      *)
(***************************************************************************)
THEOREM IInvHolds == Spec => []IInv
<1>1. IInv /\ [Next]_vars => IInv'
  BY StepKeepsIInv
<1>2. QED
  BY InitiallyIInv, <1>1, PTL DEF Spec

(***************************************************************************)
(* Whatever the number of exports that get a 401 for it, a token is        *)
(* replaced by at most one enrollment (refreshJWT's lock and comparison).  *)
(***************************************************************************)
THEOREM OneRefreshPerTokenHolds == Spec => []OneRefreshPerToken
<1>1. IInv => OneRefreshPerToken
  BY DEF IInv
<1>2. QED
  BY IInvHolds, <1>1, PTL

(***************************************************************************)
(* A retry carries a token issued after the one that was rejected.         *)
(***************************************************************************)
THEOREM RetryUsesNewerHolds == Spec => []RetryUsesNewer
<1>1. IInv => RetryUsesNewer
  BY DEF IInv
<1>2. QED
  BY IInvHolds, <1>1, PTL

(***************************************************************************)
(* refreshMu is held exactly while one request enrolls.                    *)
(***************************************************************************)
THEOREM EnrollmentHoldsLockHolds == Spec => []EnrollmentHoldsLock
<1>1. IInv => EnrollmentHoldsLock
  BY DEF IInv
<1>2. QED
  BY IInvHolds, <1>1, PTL

(***************************************************************************)
(* Neither the header of a slow response nor refreshJWT's unconditional    *)
(* store replaces the shared token by one issued earlier.                  *)
(***************************************************************************)
THEOREM NeverOlderHolds == Spec => NeverOlder
<1>1. IInv /\ [Next]_vars => [jwt' >= jwt]_vars
  BY StepKeepsIInv
<1>2. QED
  BY IInvHolds, <1>1, PTL DEF Spec, NeverOlder
=============================================================================
