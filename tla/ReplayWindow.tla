---------------------------- MODULE ReplayWindow ----------------------------
(***************************************************************************)
(* What a NonceStore promises its verifiers                                *)
(* (crates/capnagent-core/src/nonce_store.rs, trait NonceStore).           *)
(*                                                                         *)
(* Presenting a nonce at time `now` with lifetime `ttl` is granted exactly *)
(* when no earlier grant of the same nonce is still open at `now`; a grant *)
(* opens the window [now, now + ttl), the sum saturating at the largest    *)
(* u64.  Checking and recording are one indivisible step, whatever the     *)
(* implementation does inside.                                             *)
(***************************************************************************)
EXTENDS Integers

CONSTANTS Nonces,     \* the sha256(proof) values a store may be shown
          Callers,    \* the threads that share the store
          MaxTime,    \* u64::MAX, in milliseconds
          Ttls,       \* the nonce_ttl_ms of the verifiers sharing the store
          NoRequest   \* the request of a thread outside try_record

VARIABLES granted,  \* every window opened since the store was last emptied
          status,   \* [Callers -> "idle", "pending" or "answered"]
          req,      \* the request of each thread
          answer    \* what try_record returned to each thread

vars == <<granted, status, req, answer>>

Times == 0..MaxTime
Requests == [nonce : Nonces, now : Times, ttl : Ttls]
Windows == [nonce : Nonces, at : Times, until : Times]

\* u64::saturating_add.
SatAdd(a, b) == IF a + b > MaxTime THEN MaxTime ELSE a + b

\* The window a granted request opens.
WindowOf(r) == [nonce |-> r.nonce, at |-> r.now, until |-> SatAdd(r.now, r.ttl)]

\* No grant of the same nonce is still open at the time of the request.
Fresh(r) == \A g \in granted : g.nonce = r.nonce => g.until <= r.now

-----------------------------------------------------------------------------
Init == /\ granted = {}
        /\ status = [c \in Callers |-> "idle"]
        /\ req = [c \in Callers |-> NoRequest]
        /\ answer = [c \in Callers |-> FALSE]

Call(c) == /\ status[c] = "idle"
           /\ \E r \in Requests : req' = [req EXCEPT ![c] = r]
           /\ status' = [status EXCEPT ![c] = "pending"]
           /\ UNCHANGED <<granted, answer>>

Grant(c) == /\ status[c] = "pending"
            /\ Fresh(req[c])
            /\ granted' = granted \cup {WindowOf(req[c])}
            /\ status' = [status EXCEPT ![c] = "answered"]
            /\ answer' = [answer EXCEPT ![c] = TRUE]
            /\ UNCHANGED req

Refuse(c) == /\ status[c] = "pending"
             /\ ~Fresh(req[c])
             /\ status' = [status EXCEPT ![c] = "answered"]
             /\ answer' = [answer EXCEPT ![c] = FALSE]
             /\ UNCHANGED <<granted, req>>

Return(c) == /\ status[c] = "answered"
             /\ status' = [status EXCEPT ![c] = "idle"]
             /\ req' = [req EXCEPT ![c] = NoRequest]
             /\ answer' = [answer EXCEPT ![c] = FALSE]
             /\ UNCHANGED granted

\* InMemoryNonceStore::clear: every window is forgotten, calls in flight stay.
Forget == /\ granted' = {}
          /\ UNCHANGED <<status, req, answer>>

\* The process restarts: the store was memory only.
Restart == /\ granted' = {}
           /\ status' = [c \in Callers |-> "idle"]
           /\ req' = [c \in Callers |-> NoRequest]
           /\ answer' = [c \in Callers |-> FALSE]

Next == \/ \E c \in Callers : Call(c) \/ Grant(c) \/ Refuse(c) \/ Return(c)
        \/ Forget
        \/ Restart

Spec == Init /\ [][Next]_vars
=============================================================================
