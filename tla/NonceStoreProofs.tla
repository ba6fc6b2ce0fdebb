-------------------------- MODULE NonceStoreProofs --------------------------
(***************************************************************************)
(* For any number of threads and nonces, any clock range and any set of    *)
(* lifetimes: the variables of NonceStore keep their types, the windows of *)
(* a nonce are disjoint, and NonceStore implements ReplayWindow.           *)
(***************************************************************************)
EXTENDS NonceStore, TLAPS

\* Exactly the thread inside the critical section holds the mutex.
MutexInv == \A c \in Callers : pc[c] \in {"locked", "looked"} <=> holder = c

\* A thread in a call has a request.
RequestInv == \A c \in Callers : pc[c] # "idle" => req[c] \in Requests

\* What a thread read under the mutex is still what the map holds.
SeenInv == \A c \in Callers : pc[c] = "looked" => seen[c] = entries[req[c].nonce]

\* The single expiry the map keeps per nonce bounds every window ever opened.
NewestInv == \A g \in granted : g.until <= entries[g.nonce]

\* Every expiry in the map is the end of a window that was opened.
EntryInv == \A n \in Nonces :
                entries[n] # Absent =>
                    \E g \in granted : g.nonce = n /\ g.until = entries[n]

IInv == /\ TypeOK
        /\ MutexInv
        /\ RequestInv
        /\ SeenInv
        /\ NewestInv
        /\ EntryInv
        /\ DisjointWindows

-----------------------------------------------------------------------------
\* A saturated expiry is a u64 and never precedes the time it starts from.
LEMMA SaturatingAddBounds ==
    ASSUME NEW a \in Times, NEW t \in Ttls
    PROVE  SaturatingAdd(a, t) \in Times /\ a <= SaturatingAdd(a, t)
BY MaxTimeAssumption, TtlsAssumption DEF SaturatingAdd, Times

\* The empty store satisfies the invariant.
LEMMA InitIInv == Init => IInv
BY NoCallerAssumption
   DEF Init, IInv, TypeOK, MutexInv, RequestInv, SeenInv, NewestInv, EntryInv,
       DisjointWindows, Requests, Windows, Absent

\* A thread that moves without touching the map or the windows disturbs at
\* most the invariants on the mutex and on its own call.
LEMMA CallIInv == ASSUME IInv, NEW c \in Callers, Call(c) PROVE IInv'
<1> USE DEF IInv, Call
<1>1. TypeOK'
  BY DEF TypeOK
<1>2. MutexInv'
  BY NoCallerAssumption DEF TypeOK, MutexInv
<1>3. RequestInv' /\ SeenInv'
  BY DEF TypeOK, RequestInv, SeenInv
<1>4. NewestInv' /\ EntryInv' /\ DisjointWindows'
  BY DEF NewestInv, EntryInv, DisjointWindows
<1> QED BY <1>1, <1>2, <1>3, <1>4

LEMMA LockIInv == ASSUME IInv, NEW c \in Callers, Lock(c) PROVE IInv'
<1> USE DEF IInv, Lock
<1>1. TypeOK'
  BY DEF TypeOK
<1>2. MutexInv'
  BY NoCallerAssumption DEF TypeOK, MutexInv
<1>3. RequestInv' /\ SeenInv'
  BY DEF TypeOK, RequestInv, SeenInv
<1>4. NewestInv' /\ EntryInv' /\ DisjointWindows'
  BY DEF NewestInv, EntryInv, DisjointWindows
<1> QED BY <1>1, <1>2, <1>3, <1>4

LEMMA LookupIInv == ASSUME IInv, NEW c \in Callers, Lookup(c) PROVE IInv'
<1> USE DEF IInv, Lookup
<1>0. req[c].nonce \in Nonces
  BY DEF RequestInv, Requests
<1>1. TypeOK'
  BY <1>0 DEF TypeOK
<1>2. MutexInv'
  BY NoCallerAssumption DEF TypeOK, MutexInv
<1>3. RequestInv' /\ SeenInv'
  BY DEF TypeOK, RequestInv, SeenInv
<1>4. NewestInv' /\ EntryInv' /\ DisjointWindows'
  BY DEF NewestInv, EntryInv, DisjointWindows
<1> QED BY <1>1, <1>2, <1>3, <1>4

LEMMA RejectIInv == ASSUME IInv, NEW c \in Callers, Reject(c) PROVE IInv'
<1> USE DEF IInv, Reject
<1>1. TypeOK'
  BY DEF TypeOK
<1>2. MutexInv'
  BY NoCallerAssumption DEF TypeOK, MutexInv
<1>3. RequestInv' /\ SeenInv'
  BY DEF TypeOK, RequestInv, SeenInv
<1>4. NewestInv' /\ EntryInv' /\ DisjointWindows'
  BY DEF NewestInv, EntryInv, DisjointWindows
<1> QED BY <1>1, <1>2, <1>3, <1>4

LEMMA ReturnIInv == ASSUME IInv, NEW c \in Callers, Return(c) PROVE IInv'
<1> USE DEF IInv, Return
<1>1. TypeOK'
  BY DEF TypeOK
<1>2. MutexInv'
  BY DEF TypeOK, MutexInv
<1>3. RequestInv' /\ SeenInv'
  BY DEF TypeOK, RequestInv, SeenInv
<1>4. NewestInv' /\ EntryInv' /\ DisjointWindows'
  BY DEF NewestInv, EntryInv, DisjointWindows
<1> QED BY <1>1, <1>2, <1>3, <1>4

\* A thread that read under the mutex and found no valid entry is ahead of every
\* window of its nonce: the entry it read is still there and bounds them all.
LEMMA InsertFindsNoOpenWindow ==
    ASSUME IInv, NEW c \in Callers, pc[c] = "looked", ~StillValid(c)
    PROVE  \A g \in granted : g.nonce = req[c].nonce => g.until <= req[c].now
<1> DEFINE r == req[c]
<1>1. r \in Requests /\ r.nonce \in Nonces /\ r.now \in Times
  BY DEF IInv, RequestInv, Requests
<1>2. seen[c] = entries[r.nonce] /\ entries[r.nonce] \in Times \cup {Absent}
  BY <1>1 DEF IInv, SeenInv, TypeOK
<1>3. entries[r.nonce] <= r.now
  BY <1>1, <1>2 DEF StillValid, Absent, Times
<1> SUFFICES ASSUME NEW g \in granted, g.nonce = r.nonce
             PROVE  g.until <= r.now
  OBVIOUS
<1>4. g.until <= entries[r.nonce]
  BY DEF IInv, NewestInv
<1>5. g.until \in Int /\ entries[r.nonce] \in Int /\ r.now \in Int
  BY <1>1, <1>2, MaxTimeAssumption DEF IInv, TypeOK, Windows, Times, Absent
<1> QED BY <1>3, <1>4, <1>5

\* The step that writes: it holds the mutex, so what it looked up is still the
\* entry, the entry bounds every open window of the nonce, and the entry is
\* not later than the caller's time.
LEMMA InsertIInv == ASSUME IInv, NEW c \in Callers, Insert(c) PROVE IInv'
<1> DEFINE r == req[c]
           expiry == SaturatingAdd(r.now, r.ttl)
           w == [nonce |-> r.nonce, at |-> r.now, until |-> expiry]
<1>1. /\ pc[c] = "looked"
      /\ ~StillValid(c)
      /\ entries' = [entries EXCEPT ![r.nonce] = expiry]
      /\ granted' = granted \cup {w}
      /\ answer' = [answer EXCEPT ![c] = TRUE]
      /\ pc' = [pc EXCEPT ![c] = "done"]
      /\ holder' = NoCaller
      /\ UNCHANGED <<req, seen>>
  BY DEF Insert
<1>2. r \in Requests /\ r.nonce \in Nonces /\ r.now \in Times /\ r.ttl \in Ttls
  BY <1>1 DEF IInv, RequestInv, Requests
<1>3. expiry \in Times /\ r.now <= expiry
  BY <1>2, SaturatingAddBounds
<1>6. \A g \in granted : g.nonce = r.nonce => g.until <= r.now
  BY <1>1, InsertFindsNoOpenWindow
<1>7. w \in Windows
  BY <1>2, <1>3 DEF Windows
<1>8. TypeOK'
  BY <1>1, <1>2, <1>3, <1>7 DEF IInv, TypeOK
<1>9. MutexInv'
  BY <1>1, NoCallerAssumption DEF IInv, TypeOK, MutexInv
<1>10. RequestInv' /\ SeenInv'
  <2>1. \A d \in Callers : pc[d] = "looked" => d = c
    BY <1>1 DEF IInv, MutexInv
  <2> QED BY <1>1, <2>1 DEF IInv, TypeOK, RequestInv, SeenInv
<1>11. NewestInv'
  <2> SUFFICES ASSUME NEW g \in granted' PROVE g.until <= entries'[g.nonce]
    BY DEF NewestInv
  <2>1. CASE g = w
    BY <2>1, <1>1, <1>2, <1>3 DEF IInv, TypeOK, Times
  <2>2. CASE g \in granted /\ g.nonce = r.nonce
    <3>1. g.until <= r.now
      BY <2>2, <1>6
    <3>2. g.until \in Int /\ r.now \in Int /\ expiry \in Int
      BY <2>2, <1>2, <1>3, MaxTimeAssumption DEF IInv, TypeOK, Windows, Times
    <3>3. entries'[g.nonce] = expiry
      BY <2>2, <1>1, <1>2 DEF IInv, TypeOK
    <3> QED BY <3>1, <3>2, <3>3, <1>3
  <2>3. CASE g \in granted /\ g.nonce # r.nonce
    BY <2>3, <1>1 DEF IInv, TypeOK, NewestInv, Windows
  <2> QED BY <2>1, <2>2, <2>3, <1>1
<1>12. EntryInv'
  <2> SUFFICES ASSUME NEW n \in Nonces, entries'[n] # Absent
               PROVE  \E g \in granted' : g.nonce = n /\ g.until = entries'[n]
    BY DEF EntryInv
  <2>1. CASE n = r.nonce
    <3>1. entries'[n] = expiry
      BY <2>1, <1>1, <1>2 DEF IInv, TypeOK
    <3>2. w \in granted' /\ w.nonce = n /\ w.until = expiry
      BY <2>1, <1>1
    <3> QED BY <3>1, <3>2
  <2>2. CASE n # r.nonce
    BY <2>2, <1>1 DEF IInv, TypeOK, EntryInv
  <2> QED BY <2>1, <2>2
<1>13. DisjointWindows'
  <2> SUFFICES ASSUME NEW g \in granted', NEW h \in granted',
                      g.nonce = h.nonce, g # h
               PROVE  g.until <= h.at \/ h.until <= g.at
    BY DEF DisjointWindows
  <2>1. CASE g \in granted /\ h \in granted
    BY <2>1 DEF IInv, DisjointWindows
  <2>2. CASE g = w /\ h \in granted
    BY <2>2, <1>6
  <2>3. CASE h = w /\ g \in granted
    BY <2>3, <1>6
  <2> QED BY <2>1, <2>2, <2>3, <1>1
<1> QED BY <1>8, <1>9, <1>10, <1>11, <1>12, <1>13 DEF IInv

LEMMA ClearIInv == ASSUME IInv, Clear PROVE IInv'
<1> USE DEF IInv, Clear
<1>1. TypeOK'
  BY DEF TypeOK, Windows
<1>2. MutexInv' /\ RequestInv'
  BY DEF MutexInv, RequestInv
<1>3. SeenInv'
  BY NoCallerAssumption DEF MutexInv, SeenInv
<1>4. NewestInv' /\ EntryInv' /\ DisjointWindows'
  BY DEF NewestInv, EntryInv, DisjointWindows
<1> QED BY <1>1, <1>2, <1>3, <1>4

LEMMA RestartIInv == ASSUME IInv, Restart PROVE IInv'
BY NoCallerAssumption
   DEF Restart, IInv, TypeOK, MutexInv, RequestInv, SeenInv, NewestInv,
       EntryInv, DisjointWindows, Windows, Absent

LEMMA StutterIInv == ASSUME IInv, UNCHANGED vars PROVE IInv'
BY DEF vars, IInv, TypeOK, MutexInv, RequestInv, SeenInv, NewestInv, EntryInv,
       DisjointWindows

\* Every step keeps the invariant.
LEMMA NextIInv == IInv /\ [Next]_vars => IInv'
<1> SUFFICES ASSUME IInv, [Next]_vars PROVE IInv'
  OBVIOUS
<1>1. ASSUME NEW c \in Callers, Call(c) PROVE IInv'
  BY <1>1, CallIInv
<1>2. ASSUME NEW c \in Callers, Lock(c) PROVE IInv'
  BY <1>2, LockIInv
<1>3. ASSUME NEW c \in Callers, Lookup(c) PROVE IInv'
  BY <1>3, LookupIInv
<1>4. ASSUME NEW c \in Callers, Reject(c) PROVE IInv'
  BY <1>4, RejectIInv
<1>5. ASSUME NEW c \in Callers, Insert(c) PROVE IInv'
  BY <1>5, InsertIInv
<1>6. ASSUME NEW c \in Callers, Return(c) PROVE IInv'
  BY <1>6, ReturnIInv
<1>7. CASE Clear
  BY <1>7, ClearIInv
<1>8. CASE Restart
  BY <1>8, RestartIInv
<1>9. CASE UNCHANGED vars
  BY <1>9, StutterIInv
<1> QED BY <1>1, <1>2, <1>3, <1>4, <1>5, <1>6, <1>7, <1>8, <1>9 DEF Next

\* The inductive invariant holds in every reachable state.
THEOREM Invariance == Spec => []IInv
BY InitIInv, NextIInv, PTL DEF Spec

\* No expiry ever leaves the u64 range and every variable keeps its type.
THEOREM TypeCorrect == Spec => []TypeOK
<1>1. IInv => TypeOK
  BY DEF IInv
<1> QED BY <1>1, Invariance, PTL

\* One nonce is never granted twice for the same instant, for any number of
\* threads racing through try_record with any clocks.
THEOREM WindowsAreDisjoint == Spec => []DisjointWindows
<1>1. IInv => DisjointWindows
  BY DEF IInv
<1> QED BY <1>1, Invariance, PTL

-----------------------------------------------------------------------------
\* The refinement: taking the mutex and reading are stutters, the write or the
\* rejection under the mutex is the indivisible decision.
LEMMA InitRefines == Init => RW!Init
BY DEF Init, RW!Init, absStatus

LEMMA CallRefines ==
    ASSUME IInv, NEW c \in Callers, Call(c) PROVE RW!Call(c)
<1>1. absStatus[c] = "idle" /\ absStatus' = [absStatus EXCEPT ![c] = "pending"]
  BY DEF Call, absStatus, IInv, TypeOK
<1>2. \E r \in RW!Requests : req' = [req EXCEPT ![c] = r]
  BY DEF Call, Requests, Times, RW!Requests, RW!Times
<1> QED BY <1>1, <1>2 DEF Call, RW!Call

LEMMA InsideStutters ==
    ASSUME IInv, NEW c \in Callers, Lock(c) \/ Lookup(c)
    PROVE  UNCHANGED RW!vars
<1>1. absStatus' = absStatus
  BY DEF Lock, Lookup, absStatus, IInv, TypeOK
<1> QED BY <1>1 DEF Lock, Lookup, RW!vars

LEMMA RejectRefines ==
    ASSUME IInv, NEW c \in Callers, Reject(c) PROVE RW!Refuse(c)
<1>1. /\ absStatus[c] = "pending"
      /\ absStatus' = [absStatus EXCEPT ![c] = "answered"]
  BY DEF Reject, absStatus, IInv, TypeOK
<1>2. req[c] \in Requests /\ req[c].nonce \in Nonces /\ req[c].now \in Times
  BY DEF Reject, IInv, RequestInv, Requests
<1>3. /\ entries[req[c].nonce] # Absent
      /\ entries[req[c].nonce] > req[c].now
  BY <1>2 DEF Reject, StillValid, IInv, SeenInv
<1>4. PICK g \in granted : /\ g.nonce = req[c].nonce
                           /\ g.until = entries[req[c].nonce]
  BY <1>2, <1>3 DEF IInv, EntryInv
<1>5. ~(g.until <= req[c].now)
  BY <1>2, <1>3, <1>4, MaxTimeAssumption DEF IInv, TypeOK, Windows, Times
<1>6. ~RW!Fresh(req[c])
  BY <1>4, <1>5 DEF RW!Fresh
<1> QED BY <1>1, <1>6 DEF Reject, RW!Refuse

LEMMA InsertRefines ==
    ASSUME IInv, NEW c \in Callers, Insert(c) PROVE RW!Grant(c)
<1>1. /\ absStatus[c] = "pending"
      /\ absStatus' = [absStatus EXCEPT ![c] = "answered"]
  BY DEF Insert, absStatus, IInv, TypeOK
<1>2. RW!Fresh(req[c])
  BY InsertFindsNoOpenWindow DEF Insert, RW!Fresh
<1>3. granted' = granted \cup {RW!WindowOf(req[c])}
  BY DEF Insert, SaturatingAdd, RW!WindowOf, RW!SatAdd
<1> QED BY <1>1, <1>2, <1>3 DEF Insert, RW!Grant

LEMMA ReturnRefines ==
    ASSUME IInv, NEW c \in Callers, Return(c) PROVE RW!Return(c)
<1>1. /\ absStatus[c] = "answered"
      /\ absStatus' = [absStatus EXCEPT ![c] = "idle"]
  BY DEF Return, absStatus, IInv, TypeOK
<1> QED BY <1>1 DEF Return, RW!Return

LEMMA EmptyingRefines == (Clear => RW!Forget) /\ (Restart => RW!Restart)
<1>1. Clear => RW!Forget
  BY DEF Clear, RW!Forget, absStatus
<1>2. Restart => RW!Restart
  BY DEF Restart, RW!Restart, absStatus
<1> QED BY <1>1, <1>2

\* Every step of the store is a step of ReplayWindow or leaves it unchanged.
LEMMA NextRefines == IInv /\ [Next]_vars => [RW!Next]_(RW!vars)
<1> SUFFICES ASSUME IInv, [Next]_vars PROVE [RW!Next]_(RW!vars)
  OBVIOUS
<1> USE DEF RW!Next
<1>1. ASSUME NEW c \in Callers, Call(c) PROVE RW!Next
  BY <1>1, CallRefines
<1>2. ASSUME NEW c \in Callers, Lock(c) \/ Lookup(c) PROVE UNCHANGED RW!vars
  BY <1>2, InsideStutters
<1>3. ASSUME NEW c \in Callers, Reject(c) PROVE RW!Next
  BY <1>3, RejectRefines
<1>4. ASSUME NEW c \in Callers, Insert(c) PROVE RW!Next
  BY <1>4, InsertRefines
<1>5. ASSUME NEW c \in Callers, Return(c) PROVE RW!Next
  BY <1>5, ReturnRefines
<1>6. CASE Clear \/ Restart
  BY <1>6, EmptyingRefines
<1>7. CASE UNCHANGED vars
  BY <1>7 DEF vars, RW!vars, absStatus
<1> QED BY <1>1, <1>2, <1>3, <1>4, <1>5, <1>6, <1>7 DEF Next

\* The mutex-protected map is one indivisible decision per call to everybody
\* who uses it.
THEOREM Refinement == Spec => ImplementsReplayWindow
<1>1. Spec => RW!Init /\ [][RW!Next]_(RW!vars)
  BY InitRefines, NextRefines, Invariance, PTL DEF Spec
<1> QED BY <1>1 DEF ImplementsReplayWindow, RW!Spec
=============================================================================
