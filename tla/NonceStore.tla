----------------------------- MODULE NonceStore -----------------------------
(***************************************************************************)
(* InMemoryNonceStore (crates/capnagent-core/src/nonce_store.rs): a        *)
(* Mutex<HashMap<nonce, expiry>> shared by the verifiers of a process.     *)
(*                                                                         *)
(* try_record is taken apart at the points where another thread can run:   *)
(* entering it with a clock reading taken earlier, taking the mutex,       *)
(* reading the entry, and writing the new one.  The clock reading comes    *)
(* from the caller's Context, so nothing orders the readings of two        *)
(* threads and a reading may go back.                                      *)
(***************************************************************************)
EXTENDS Integers

CONSTANTS Nonces, Callers, MaxTime, Ttls, NoRequest,
          NoCaller     \* nobody holds the mutex

ASSUME MaxTimeAssumption == MaxTime \in Nat
ASSUME TtlsAssumption == Ttls \subseteq 0..MaxTime
ASSUME NoCallerAssumption == NoCaller \notin Callers

VARIABLES entries,  \* the HashMap: expiry per nonce, Absent when not a key
          holder,   \* the thread inside the mutex, or NoCaller
          pc,       \* where each thread is in try_record
          req,      \* the arguments of its call
          seen,     \* what its `seen.get(nonce)` returned
          answer,   \* its return value
          granted   \* history: the windows opened since the map was emptied

vars == <<entries, holder, pc, req, seen, answer, granted>>

Absent == -1
Times == 0..MaxTime
Requests == [nonce : Nonces, now : Times, ttl : Ttls]
Windows == [nonce : Nonces, at : Times, until : Times]

\* u64::saturating_add.
SaturatingAdd(a, b) == IF a + b > MaxTime THEN MaxTime ELSE a + b

-----------------------------------------------------------------------------
Init == /\ entries = [n \in Nonces |-> Absent]
        /\ holder = NoCaller
        /\ pc = [c \in Callers |-> "idle"]
        /\ req = [c \in Callers |-> NoRequest]
        /\ seen = [c \in Callers |-> Absent]
        /\ answer = [c \in Callers |-> FALSE]
        /\ granted = {}

\* A verifier calls try_record with the clock of the context it was given.
Call(c) ==
    /\ pc[c] = "idle"
    /\ \E r \in Requests : req' = [req EXCEPT ![c] = r]
    /\ pc' = [pc EXCEPT ![c] = "waiting"]
    /\ UNCHANGED <<entries, holder, seen, answer, granted>>

\* Mutant: the map is consulted without the mutex.
Lock_Shared(c) ==
    /\ pc[c] = "waiting"
    /\ holder' = c
    /\ pc' = [pc EXCEPT ![c] = "locked"]
    /\ UNCHANGED <<entries, req, seen, answer, granted>>

\* self.seen.lock()
Lock(c) ==
    /\ pc[c] = "waiting"
    /\ holder = NoCaller
    /\ holder' = c
    /\ pc' = [pc EXCEPT ![c] = "locked"]
    /\ UNCHANGED <<entries, req, seen, answer, granted>>

\* seen.get(nonce)
Lookup(c) ==
    /\ pc[c] = "locked"
    /\ seen' = [seen EXCEPT ![c] = entries[req[c].nonce]]
    /\ pc' = [pc EXCEPT ![c] = "looked"]
    /\ UNCHANGED <<entries, holder, req, answer, granted>>

\* The entry read has not expired at the caller's time.
StillValid(c) == seen[c] # Absent /\ seen[c] > req[c].now

\* Mutant: a replay pushes the expiry of the entry forward.
Reject_Refreshes(c) ==
    /\ pc[c] = "looked"
    /\ StillValid(c)
    /\ entries' = [entries EXCEPT ![req[c].nonce] =
                     SaturatingAdd(req[c].now, req[c].ttl)]
    /\ answer' = [answer EXCEPT ![c] = FALSE]
    /\ pc' = [pc EXCEPT ![c] = "done"]
    /\ holder' = NoCaller
    /\ UNCHANGED <<req, seen, granted>>

\* return false: the entry keeps its expiry, the guard drops the mutex.
Reject(c) ==
    /\ pc[c] = "looked"
    /\ StillValid(c)
    /\ answer' = [answer EXCEPT ![c] = FALSE]
    /\ pc' = [pc EXCEPT ![c] = "done"]
    /\ holder' = NoCaller
    /\ UNCHANGED <<entries, req, seen, granted>>

\* insert(nonce, now + ttl), return true; the guard drops the mutex.
Insert(c) ==
    /\ pc[c] = "looked"
    /\ ~StillValid(c)
    /\ LET r == req[c]
           expiry == SaturatingAdd(r.now, r.ttl)
       IN /\ entries' = [entries EXCEPT ![r.nonce] = expiry]
          /\ granted' = granted \cup
                 {[nonce |-> r.nonce, at |-> r.now, until |-> expiry]}
    /\ answer' = [answer EXCEPT ![c] = TRUE]
    /\ pc' = [pc EXCEPT ![c] = "done"]
    /\ holder' = NoCaller
    /\ UNCHANGED <<req, seen>>

\* The verifier takes the answer and goes on with the next leg.
Return(c) ==
    /\ pc[c] = "done"
    /\ pc' = [pc EXCEPT ![c] = "idle"]
    /\ req' = [req EXCEPT ![c] = NoRequest]
    /\ seen' = [seen EXCEPT ![c] = Absent]
    /\ answer' = [answer EXCEPT ![c] = FALSE]
    /\ UNCHANGED <<entries, holder, granted>>

\* clear(), which takes the same mutex.
Clear ==
    /\ holder = NoCaller
    /\ entries' = [n \in Nonces |-> Absent]
    /\ granted' = {}
    /\ UNCHANGED <<holder, pc, req, seen, answer>>

\* The process restarts with a new(), empty store.
Restart ==
    /\ entries' = [n \in Nonces |-> Absent]
    /\ holder' = NoCaller
    /\ pc' = [c \in Callers |-> "idle"]
    /\ req' = [c \in Callers |-> NoRequest]
    /\ seen' = [c \in Callers |-> Absent]
    /\ answer' = [c \in Callers |-> FALSE]
    /\ granted' = {}

Next ==
    \/ \E c \in Callers :
         Call(c) \/ Lock(c) \/ Lookup(c) \/ Reject(c) \/ Insert(c) \/ Return(c)
    \/ Clear
    \/ Restart

Spec == Init /\ [][Next]_vars

-----------------------------------------------------------------------------
\* The variables hold what the Rust types allow; in particular no expiry
\* exceeds u64::MAX, however late the clock and long the lifetime.
TypeOK ==
    /\ entries \in [Nonces -> Times \cup {Absent}]
    /\ holder \in Callers \cup {NoCaller}
    /\ pc \in [Callers -> {"idle", "waiting", "locked", "looked", "done"}]
    /\ req \in [Callers -> Requests \cup {NoRequest}]
    /\ seen \in [Callers -> Times \cup {Absent}]
    /\ answer \in [Callers -> BOOLEAN]
    /\ granted \subseteq Windows

\* Two different windows opened for one nonce never share an instant, whatever
\* the threads' clocks say and whichever of them wins the mutex: a proof is
\* accepted at most once within the lifetime of each acceptance.
DisjointWindows ==
    \A g, h \in granted :
        (g.nonce = h.nonce /\ g # h) => (g.until <= h.at \/ h.until <= g.at)

\* The threads see the store as one indivisible decision per call: a nonce is
\* accepted if and only if no open window covers the caller's time, and a
\* refused presentation leaves every later decision as it was.
absStatus ==
    [c \in Callers |-> CASE pc[c] = "idle" -> "idle"
                          [] pc[c] = "done" -> "answered"
                          [] OTHER -> "pending"]
RW == INSTANCE ReplayWindow WITH status <- absStatus
ImplementsReplayWindow == RW!Spec
=============================================================================
