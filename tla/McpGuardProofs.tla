--------------------------- MODULE McpGuardProofs ---------------------------
(***************************************************************************)
(* The safety of the guard for any number of concurrent calls, and that it *)
(* implements the gate: an invariant says what a call has by what it       *)
(* awaits, and that what the nonce store was told of one proof never       *)
(* overlaps.                                                               *)
(***************************************************************************)
EXTENDS McpGuard, TLAPS

\* A call that has no receipt yet.
Undecided(c) ==
    /\ receipt[c] = NoReceipt /\ ran[c] = 0 /\ handled[c] = FALSE
    /\ proven[c] = FALSE /\ entry[c] = NoEntry

\* A call that may be allowed.
Cleared(c) == options.intact = TRUE /\ (options.bound = TRUE => proven[c] = TRUE)

HasRun(c) == ran[c] = 1 /\ handled[c] = TRUE /\ receipt[c] = "allowed" /\ Cleared(c)

\* What a call has, by what it awaits or how it settled.
CallOK(c) ==
    /\ pc[c] \in {"idle", "context", "signing"} => Undecided(c)
    /\ pc[c] = "signing" => signed[c] \in Times
    /\ pc[c] = "reporting" => /\ receipt[c] \in Outcomes /\ ran[c] = 0
                              /\ receipt[c] = "allowed" => Cleared(c)
    /\ pc[c] \in {"running", "returned"} => HasRun(c)
    /\ pc[c] = "denied" => ran[c] = 0 /\ receipt[c] \in Outcomes \ {"allowed"}
    /\ pc[c] = "thrown" => HasRun(c) \/ Undecided(c)

\* The store remembers what it recorded for at least as long as it was to; the
\* times two records of one proof cover do not overlap; and a context's own time
\* is the time of the record.
RecordedOK(c) ==
    entry[c] # NoEntry =>
        /\ signed[c] \in Times /\ entry[c].until <= seen[signed[c]]
        /\ timed[c] = TRUE => entry[c].at = signed[c]

Apart(c, d) == entry[c].until <= entry[d].at \/ entry[d].until <= entry[c].at

ProofsOK ==
    /\ \A c \in Calls : RecordedOK(c)
    /\ \A c, d \in Calls : c # d /\ signed[c] = signed[d] => Apart(c, d)

CallsOK == \A c \in Calls : CallOK(c)

IInv == TypeOK /\ CallsOK /\ ProofsOK

-----------------------------------------------------------------------------
LEMMA InitInvariant == Init => IInv
<1> SUFFICES ASSUME Init PROVE IInv
  OBVIOUS
<1>1. TypeOK
  <2>1. clock \in Times
    BY MaxTimeInNat DEF Init, Times
  <2>2. options \in [bound : BOOLEAN, intact : BOOLEAN, signer : BOOLEAN] /\ ran \in [Calls -> 0..1]
    BY DEF Init
  <2>3. handled \in [Calls -> BOOLEAN] /\ proven \in [Calls -> BOOLEAN] /\ timed \in [Calls -> BOOLEAN]
    BY DEF Init
  <2>4. revoked \in BOOLEAN /\ freed \in BOOLEAN /\ store \in BOOLEAN /\ ttl \in Ttls
    BY DEF Init
  <2>5. entry \in [Calls -> [at : Nat, until : Nat]] /\ seen \in [Times -> Nat]
    BY DEF Init, NoEntry
  <2> QED BY <2>1, <2>2, <2>3, <2>4, <2>5 DEF Init, TypeOK
<1>2. CallsOK
  BY DEF Init, CallsOK, CallOK, Undecided
<1>3. ProofsOK
  BY DEF Init, ProofsOK, RecordedOK, Apart, NoEntry
<1> QED BY <1>1, <1>2, <1>3 DEF IInv

\* A call moves, gets what it is to have at its new place, and the others keep
\* theirs: enough for the calls.
LEMMA OneCallMoves ==
    ASSUME CallsOK, NEW c \in Calls, CallOK(c)', options' = options,
           \A d \in Calls \ {c} :
              /\ pc'[d] = pc[d] /\ signed'[d] = signed[d] /\ receipt'[d] = receipt[d]
              /\ handled'[d] = handled[d] /\ ran'[d] = ran[d]
              /\ proven'[d] = proven[d] /\ entry'[d] = entry[d]
    PROVE  CallsOK'
<1>1. ASSUME NEW d \in Calls \ {c} PROVE CallOK(d)'
  BY <1>1 DEF CallsOK, CallOK, HasRun, Cleared, Undecided
<1> QED BY <1>1 DEF CallsOK

\* Without a new proof or challenge the proofs stay apart.
LEMMA ProofsStay ==
    ASSUME ProofsOK, UNCHANGED <<challenge, entry, seen>> PROVE ProofsOK'
BY DEF ProofsOK, RecordedOK, Apart, challenge

\* A call that throws before it has a receipt.
LEMMA ThrowKeeps ==
    ASSUME IInv, NEW c \in Calls, pc[c] \in {"idle", "context", "signing"}, Throw(c),
           UNCHANGED <<challenge, world>>
    PROVE  IInv'
<1>1. TypeOK'
  BY DEF IInv, TypeOK, Throw, Goto, Settled, challenge, state, proofs, world, verifier
<1>2. CallOK(c)'
  BY DEF IInv, TypeOK, CallsOK, CallOK, Undecided, Throw, Goto, state, proofs, challenge
<1>3. CallsOK'
  BY <1>2, OneCallMoves DEF IInv, TypeOK, Throw, Goto, challenge, state, proofs, world, verifier
<1>4. ProofsOK'
  BY ProofsStay DEF IInv, Throw, state, proofs
<1> QED BY <1>1, <1>3, <1>4 DEF IInv

LEMMA BeginKeeps ==
    ASSUME IInv, NEW c \in Calls, GuardCall(c) \/ CallTool(c) PROVE IInv'
<1>1. CASE GuardCall(c) /\ (freed \/ SignerMissing)
  BY <1>1, ThrowKeeps DEF GuardCall
<1>2. CASE ~(GuardCall(c) /\ (freed \/ SignerMissing))
  <2>1. pc[c] = "idle" /\ pc' = [pc EXCEPT ![c] = "context"] /\ UNCHANGED <<challenge, state, world>>
    BY <1>2 DEF GuardCall, CallTool, Goto
  <2>2. TypeOK'
    BY <2>1 DEF IInv, TypeOK, Settled, challenge, state, proofs, world, verifier
  <2>3. CallOK(c)'
    BY <2>1 DEF IInv, TypeOK, CallsOK, CallOK, Undecided, state, challenge, proofs
  <2>4. CallsOK'
    BY <2>1, <2>3, OneCallMoves DEF IInv, TypeOK, challenge, state, proofs, world, verifier
  <2>5. ProofsOK'
    BY <2>1, ProofsStay DEF IInv, state, proofs
  <2> QED BY <2>2, <2>4, <2>5 DEF IInv
<1> QED BY <1>1, <1>2

\* A receipt is signed for a call that has none, and without a new proof: then
\* only an unbound capability, that is intact, may be allowed.
LEMMA SignKeeps ==
    ASSUME IInv, NEW c \in Calls, NEW outcome \in Outcomes, Sign(c, outcome),
           pc[c] \in {"context", "signing"}, outcome = "allowed" => Cleared(c),
           UNCHANGED <<proofs, challenge, world>>
    PROVE  IInv'
<1>1. TypeOK'
  BY DEF IInv, TypeOK, Sign, Goto, Settled, challenge, state, proofs, world, verifier
<1>2. CallOK(c)'
  BY DEF IInv, TypeOK, CallsOK, CallOK, Undecided, Cleared, Sign, Goto, world
<1>3. CallsOK'
  BY <1>2, OneCallMoves DEF IInv, TypeOK, Sign, Goto, world, challenge, proofs
<1>4. ProofsOK'
  BY ProofsStay DEF IInv, challenge, proofs
<1> QED BY <1>1, <1>3, <1>4 DEF IInv

\* A challenge is made for a call without a proof.
LEMMA ChallengeKeeps ==
    ASSUME IInv, NEW c \in Calls, pc[c] = "context", Challenge(c), UNCHANGED world
    PROVE  IInv'
<1> PICK t \in Times, own \in BOOLEAN :
          signed' = [signed EXCEPT ![c] = t] /\ timed' = [timed EXCEPT ![c] = own]
  BY DEF Challenge
<1>1. TypeOK'
  BY DEF Challenge, IInv, TypeOK, Goto, Settled, state, proofs, world, verifier
<1>2. CallOK(c)'
  BY DEF Challenge, IInv, TypeOK, CallsOK, CallOK, Undecided, Goto, state, proofs
<1>3. CallsOK'
  BY <1>2, OneCallMoves DEF Challenge, IInv, TypeOK, Goto, state, proofs, world
<1>4. entry[c] = NoEntry /\ UNCHANGED <<entry, seen>>
  BY DEF Challenge, state, proofs, IInv, CallsOK, CallOK, Undecided
<1>5. ProofsOK'
  BY <1>4 DEF IInv, TypeOK, ProofsOK, RecordedOK, Apart, NoEntry
<1> QED BY <1>1, <1>3, <1>5 DEF IInv

LEMMA ContextSettlesKeeps ==
    ASSUME IInv, NEW c \in Calls, ContextSettles(c) PROVE IInv'
<1> USE DEF ContextSettles
<1>1. CASE freed /\ Throw(c) /\ UNCHANGED challenge
  BY <1>1, ThrowKeeps
<1>2. CASE options.bound /\ Challenge(c)
  BY <1>2, ChallengeKeeps
<1>3. CASE ~options.bound /\ VerifyWithContext(c) /\ UNCHANGED challenge
  <2>1. CASE Throw(c)
    BY <1>3, <2>1, ThrowKeeps
  <2>2. ASSUME options.intact, NEW outcome \in Policy, Sign(c, outcome), UNCHANGED proofs
        PROVE  IInv'
    BY <1>3, <2>2, SignKeeps DEF Policy, Outcomes, Cleared, IInv, TypeOK
  <2> QED BY <1>3, <2>1, <2>2 DEF VerifyWithContext
<1> QED BY <1>1, <1>2, <1>3

\* What a store records of a proof it let through covers times that no earlier
\* record of the proof covers.
LEMMA RecordKeeps ==
    ASSUME IInv, NEW c \in Calls, signed[c] \in Times, entry[c] = NoEntry,
           ~Replayed(c), Record(c), UNCHANGED <<challenge, world>>
    PROVE  /\ entry' \in [Calls -> [at : Nat, until : Nat]] /\ seen' \in [Times -> Nat]
           /\ \A d \in Calls \ {c} : entry'[d] = entry[d]
           /\ ProofsOK'
<1> DEFINE now == NowOf(c)
<1>1. now \in Nat /\ ttl \in Nat /\ (timed[c] = TRUE => now = signed[c])
  BY MaxTimeInNat, TtlsInNat DEF NowOf, IInv, TypeOK, Times
<1>2. CASE store
  <2> DEFINE new == [at |-> now, until |-> now + ttl]
  <2>1. seen' = [seen EXCEPT ![signed[c]] = now + ttl] /\ entry' = [entry EXCEPT ![c] = new]
    BY <1>2 DEF Record
  <2>2. now + ttl \in Nat /\ new \in [at : Nat, until : Nat]
    BY <1>1
  <2>3. entry' \in [Calls -> [at : Nat, until : Nat]] /\ seen' \in [Times -> Nat]
    BY <2>1, <2>2 DEF IInv, TypeOK
  <2>4. seen[signed[c]] \in Nat /\ seen[signed[c]] <= now
    BY <1>1, <1>2 DEF Replayed, IInv, TypeOK
  <2>5. entry'[c] = new /\ seen'[signed[c]] = now + ttl /\ new.until = now + ttl /\ new.at = now
    BY <2>1 DEF IInv, TypeOK
  <2>6. \A d \in Calls \ {c} : entry'[d] = entry[d]
    BY <2>1 DEF IInv, TypeOK
  <2> HIDE DEF now, new
  <2>7. UNCHANGED <<signed, timed>>
    BY DEF challenge
  <2>8. RecordedOK(c)'
    BY <1>1, <2>5, <2>2, <2>7 DEF RecordedOK
  <2>9. ASSUME NEW d \in Calls \ {c}
        PROVE  /\ RecordedOK(d)'
               /\ signed[d] = signed[c] => entry[d].until <= now
    <3>1. entry[d] \in [at : Nat, until : Nat] /\ RecordedOK(d)
      BY DEF IInv, TypeOK, ProofsOK
    <3>2. CASE entry[d] = NoEntry
      BY <1>1, <2>6, <3>2 DEF RecordedOK, NoEntry
    <3>3. CASE entry[d] # NoEntry
      <4>1. signed[d] \in Times /\ entry[d].until <= seen[signed[d]]
            /\ (timed[d] = TRUE => entry[d].at = signed[d])
        BY <3>1, <3>3 DEF RecordedOK
      <4>2. entry[d].until \in Nat /\ seen[signed[d]] \in Nat
        BY <3>1, <4>1 DEF IInv, TypeOK
      <4>3. CASE signed[d] = signed[c]
        BY <1>1, <2>4, <2>5, <2>6, <2>7, <4>1, <4>2, <4>3 DEF RecordedOK
      <4>4. CASE signed[d] # signed[c]
        <5>1. seen'[signed[d]] = seen[signed[d]]
          BY <2>1, <4>1, <4>4 DEF IInv, TypeOK
        <5> QED BY <2>6, <2>7, <4>1, <4>4, <5>1 DEF RecordedOK
      <4> QED BY <4>3, <4>4
    <3> QED BY <3>2, <3>3
  <2>10. ASSUME NEW d \in Calls, NEW e \in Calls, d # e, signed[d] = signed[e] PROVE Apart(d, e)'
    <3>1. CASE d # c /\ e # c
      BY <2>6, <2>10, <3>1 DEF IInv, ProofsOK, Apart
    <3>2. CASE d = c
      BY <2>5, <2>6, <2>9, <2>10, <3>2 DEF Apart
    <3>3. CASE e = c
      BY <2>5, <2>6, <2>9, <2>10, <3>3 DEF Apart
    <3> QED BY <3>1, <3>2, <3>3
  <2>11. ProofsOK'
    BY <2>7, <2>8, <2>9, <2>10 DEF ProofsOK
  <2> QED BY <2>3, <2>6, <2>11
<1>3. CASE ~store
  BY <1>3, ProofsStay DEF Record, IInv, TypeOK
<1> QED BY <1>2, <1>3

\* A proof clears: it is good, and the store, if there is one, does not hold it.
LEMMA ClearKeeps ==
    ASSUME IInv, NEW c \in Calls, NEW outcome \in Outcomes, Sign(c, outcome),
           pc[c] = "signing", options.intact, ~Replayed(c),
           proven' = [proven EXCEPT ![c] = TRUE], Record(c), UNCHANGED <<challenge, world>>
    PROVE  IInv'
<1>1. signed[c] \in Times /\ entry[c] = NoEntry
  BY DEF IInv, CallsOK, CallOK, Undecided
<1>2. /\ entry' \in [Calls -> [at : Nat, until : Nat]] /\ seen' \in [Times -> Nat]
      /\ \A d \in Calls \ {c} : entry'[d] = entry[d]
      /\ ProofsOK'
  BY <1>1, RecordKeeps
<1>3. TypeOK'
  BY <1>2 DEF IInv, TypeOK, Sign, Goto, Settled, challenge, world, verifier
<1>4. CallOK(c)'
  BY DEF IInv, TypeOK, CallsOK, CallOK, Undecided, Cleared, Sign, Goto, world
<1>5. CallsOK'
  BY <1>2, <1>4, OneCallMoves DEF IInv, TypeOK, Sign, Goto, challenge, world
<1> QED BY <1>2, <1>3, <1>5 DEF IInv

LEMMA SignerSettlesKeeps ==
    ASSUME IInv, NEW c \in Calls, SignerSettles(c) PROVE IInv'
<1> USE DEF SignerSettles
<1>1. CASE Throw(c)
  BY <1>1, ThrowKeeps
<1>2. CASE VerifyWithProof(c) /\ ~Throw(c)
  <2>1. ASSUME NEW outcome \in {"bad proof", "replay"}, Sign(c, outcome), UNCHANGED proofs
        PROVE  IInv'
    BY <2>1, SignKeeps DEF Outcomes
  <2>2. ASSUME options.intact, ~Replayed(c), NEW outcome \in Policy, Sign(c, outcome),
               proven' = [proven EXCEPT ![c] = TRUE], Record(c)
        PROVE  IInv'
    BY <2>2, ClearKeeps DEF Policy, Outcomes
  <2> QED BY <1>2, <2>1, <2>2 DEF VerifyWithProof
<1> QED BY <1>1, <1>2

LEMMA ReceiptHandledKeeps ==
    ASSUME IInv, NEW c \in Calls, ReceiptHandled(c) PROVE IInv'
<1>1. ran[c] = 0 /\ receipt[c] \in Outcomes /\ (receipt[c] = "allowed" => Cleared(c))
  BY DEF ReceiptHandled, IInv, CallsOK, CallOK
<1>2. TypeOK'
  <2>1. ran' \in [Calls -> 0..1] /\ handled' \in [Calls -> BOOLEAN]
    BY <1>1 DEF ReceiptHandled, IInv, TypeOK
  <2>2. UNCHANGED <<challenge, receipt, proofs, world>>
    BY DEF ReceiptHandled
  <2> QED BY <2>1, <2>2 DEF ReceiptHandled, IInv, TypeOK, Goto, Settled, challenge, proofs, world, verifier
<1>3. CallOK(c)'
  BY <1>1 DEF ReceiptHandled, IInv, TypeOK, CallOK, HasRun, Cleared, Goto, world, challenge, proofs, Undecided
<1>4. CallsOK'
  BY <1>3, OneCallMoves DEF ReceiptHandled, IInv, TypeOK, Goto, world, challenge, proofs
<1>5. ProofsOK'
  BY ProofsStay DEF IInv, ReceiptHandled, challenge, proofs
<1> QED BY <1>2, <1>4, <1>5 DEF IInv

LEMMA ToolSettlesKeeps ==
    ASSUME IInv, NEW c \in Calls, ToolSettles(c) PROVE IInv'
<1>1. TypeOK'
  BY DEF ToolSettles, IInv, TypeOK, Goto, Settled, challenge, state, proofs, world, verifier
<1>2. CallOK(c)'
  BY DEF ToolSettles, IInv, TypeOK, CallsOK, CallOK, HasRun, Cleared, Goto, challenge, state, proofs, world, verifier
<1>3. CallsOK'
  BY <1>2, OneCallMoves DEF ToolSettles, IInv, TypeOK, Goto, challenge, state, proofs, world, verifier
<1>4. ProofsOK'
  BY ProofsStay DEF IInv, ToolSettles, state, proofs
<1> QED BY <1>1, <1>3, <1>4 DEF IInv

\* A store that holds nothing has nothing to confuse.
LEMMA FreshStoreKeeps ==
    ASSUME IInv, FreshStore PROVE IInv'
<1>1. TypeOK'
  BY DEF FreshStore, IInv, TypeOK, challenge, NoEntry
<1>2. CallsOK'
  BY DEF FreshStore, IInv, CallsOK, CallOK, HasRun, Cleared, Undecided, challenge
<1>3. ProofsOK'
  BY DEF FreshStore, ProofsOK, RecordedOK, Apart, NoEntry
<1> QED BY <1>1, <1>2, <1>3 DEF IInv

\* What else the rest of the program does changes no call.
LEMMA WorldKeeps ==
    ASSUME IInv, World \/ UNCHANGED vars, ~FreshStore PROVE IInv'
<1> USE DEF World, InstallList, Free, Tick, SetTtl, vars, world, verifier
<1>1. UNCHANGED <<pc, challenge, state, options>>
  OBVIOUS
<1>2. clock' \in Times
  BY MaxTimeInNat DEF IInv, TypeOK, Times
<1>3. revoked' \in BOOLEAN /\ freed' \in BOOLEAN /\ store' \in BOOLEAN /\ ttl' \in Ttls
  BY DEF IInv, TypeOK
<1>4. TypeOK'
  BY <1>1, <1>2, <1>3 DEF IInv, TypeOK, challenge, state, proofs
<1>5. CallsOK'
  BY <1>1 DEF IInv, CallsOK, CallOK, HasRun, Cleared, Undecided, challenge, state, proofs
<1>6. ProofsOK'
  BY <1>1, ProofsStay DEF IInv, state, proofs
<1> QED BY <1>4, <1>5, <1>6 DEF IInv

LEMMA NextInvariant == IInv /\ [Next]_vars => IInv'
<1> SUFFICES ASSUME IInv, [Next]_vars PROVE IInv'
  OBVIOUS
<1>1. ASSUME NEW c \in Calls, GuardCall(c) \/ CallTool(c) PROVE IInv'
  BY <1>1, BeginKeeps
<1>2. ASSUME NEW c \in Calls, ContextSettles(c) PROVE IInv'
  BY <1>2, ContextSettlesKeeps
<1>3. ASSUME NEW c \in Calls, SignerSettles(c) PROVE IInv'
  BY <1>3, SignerSettlesKeeps
<1>4. ASSUME NEW c \in Calls, CallbackFails(c) PROVE IInv'
  BY <1>4, ThrowKeeps DEF CallbackFails
<1>5. ASSUME NEW c \in Calls, ReceiptHandled(c) PROVE IInv'
  BY <1>5, ReceiptHandledKeeps
<1>6. ASSUME NEW c \in Calls, ToolSettles(c) PROVE IInv'
  BY <1>6, ToolSettlesKeeps
<1>7. CASE World \/ UNCHANGED vars
  BY <1>7, FreshStoreKeeps, WorldKeeps
<1> QED BY <1>1, <1>2, <1>3, <1>4, <1>5, <1>6, <1>7 DEF Next, Proceed

LEMMA Invariance == Spec => []IInv
BY InitInvariant, NextInvariant, PTL DEF Spec

-----------------------------------------------------------------------------
\* Every variable keeps its type, and no call runs its tool twice.
THEOREM TypeCorrect == Spec => []TypeOK
<1>1. IInv => TypeOK
  BY DEF IInv
<1> QED BY <1>1, Invariance, PTL

\* A call whose tool was invoked has its place and its receipt.
LEMMA RunMeansHasRun ==
    ASSUME IInv, NEW c \in Calls, ran[c] > 0
    PROVE  HasRun(c) /\ pc[c] \in {"running", "returned", "thrown"}
<1>1. ran[c] # 0
  OBVIOUS
<1> QED BY <1>1 DEF IInv, TypeOK, CallsOK, CallOK, Undecided, Settled

\* A tool runs only behind an allowing receipt that was handled, of an intact
\* capability and a good proof, for any number of concurrent calls.
THEOREM ToolsRunBehindGate == Spec => []ToolRunsBehindGate
<1>1. IInv => ToolRunsBehindGate
  BY RunMeansHasRun DEF ToolRunsBehindGate, HasRun, Cleared, IInv, TypeOK
<1> QED BY <1>1, Invariance, PTL

\* Of any number of concurrent calls, with or without a nonce store, two run the
\* tool on one proof only when one was decided after the record of the other
\* had expired or was lost, or when none was made.
THEOREM OneRunForEachProof == Spec => []OneRunPerProof
<1>1. IInv => OneRunPerProof
  BY DEF OneRunPerProof, IInv, ProofsOK, Apart
<1> QED BY <1>1, Invariance, PTL

\* A store holds a record of the call's proof, made with a lifetime that is not 0.
Held(c) == entry[c].at < entry[c].until

TimedProofsRunOnce ==
    \A c, d \in Calls :
        c # d /\ timed[c] /\ timed[d] /\ Held(c) /\ Held(d) => signed[c] # signed[d]

\* Calls whose contexts carry a time of their own, and whose proofs a store still
\* holds, never share a proof: the clock plays no part then.
THEOREM OwnTimesRunOnce == Spec => []TimedProofsRunOnce
<1>1. IInv => TimedProofsRunOnce
  <2> SUFFICES ASSUME IInv, NEW c \in Calls, NEW d \in Calls, c # d, timed[c], timed[d],
                      Held(c), Held(d), signed[c] = signed[d]
               PROVE  FALSE
    BY DEF TimedProofsRunOnce
  <2>1. entry[c] \in [at : Nat, until : Nat] /\ entry[d] \in [at : Nat, until : Nat]
    BY DEF IInv, TypeOK
  <2>2. entry[c] # NoEntry /\ entry[d] # NoEntry
    BY DEF Held, NoEntry
  <2>3. entry[c].at = signed[c] /\ entry[d].at = signed[d]
    BY <2>2 DEF IInv, TypeOK, ProofsOK, RecordedOK
  <2>4. Apart(c, d)
    BY DEF IInv, ProofsOK
  <2> QED BY <2>1, <2>3, <2>4 DEF Apart, Held
<1> QED BY <1>1, Invariance, PTL

\* A decision is made on the list and the capability of its moment.
THEOREM DecisionsStayCurrent == Spec => DecisionsAreCurrent
<1>1. IInv /\ [Next]_vars => [CurrentStep]_vars
  <2> SUFFICES ASSUME IInv, [Next]_vars, NEW c \in Calls, receipt[c] = NoReceipt
               PROVE  /\ revoked => receipt'[c] # "allowed"
                      /\ freed => receipt'[c] = NoReceipt
    BY DEF CurrentStep
  <2>1. CASE receipt' = receipt
    BY <2>1, NoReceiptAssumption DEF Outcomes
  <2>2. ASSUME NEW d \in Calls, ContextSettles(d) \/ SignerSettles(d), receipt' # receipt
        PROVE  ~freed /\ \E outcome \in {"bad proof", "replay"} \cup Policy : Sign(d, outcome)
    BY <2>2 DEF ContextSettles, SignerSettles, VerifyWithContext, VerifyWithProof, Throw, state, Challenge, challenge, proofs
  <2>3. ASSUME NEW d \in Calls, ContextSettles(d) \/ SignerSettles(d), receipt' # receipt
        PROVE  ~freed /\ (revoked => receipt'[c] # "allowed")
    BY <2>2, <2>3, NoReceiptAssumption DEF Sign, Policy, Outcomes, IInv, TypeOK
  <2>4. receipt' = receipt \/ \E d \in Calls : ContextSettles(d) \/ SignerSettles(d)
    BY DEF Next, Proceed, GuardCall, CallTool, CallbackFails, ReceiptHandled, ToolSettles,
           Throw, World, InstallList, FreshStore, SetTtl, Free, Tick, vars, state
  <2> QED BY <2>1, <2>3, <2>4
<1> QED BY <1>1, Invariance, PTL DEF Spec, DecisionsAreCurrent

-----------------------------------------------------------------------------
\* The refinement: the awaits before the decision and what the program does
\* meanwhile are stutters.
LEMMA InitRefines == Init => Gate!GateInit
<1> SUFFICES ASSUME Init PROVE Gate!GateInit
  OBVIOUS
<1>1. gatePhase = [c \in Calls |-> "idle"]
  BY DEF Init, gatePhase, Place
<1>2. ASSUME NEW c \in Calls PROVE OnReceipt(c) = "none"
  <2>1. receipt[c] = NoReceipt
    BY DEF Init
  <2> QED BY <2>1, NoReceiptAssumption DEF OnReceipt, Outcomes
<1>3. gateRan = {}
  BY DEF Init, gateRan
<1> QED BY <1>1, <1>2, <1>3 DEF Gate!GateInit, gateReceipt

\* Nothing of the gate's changes.
LEMMA Stutters ==
    ASSUME IInv, UNCHANGED <<receipt, ran>>, \A c \in Calls : Place(c)' = Place(c)
    PROVE  UNCHANGED Gate!gate
<1>1. gatePhase' = gatePhase
  BY DEF gatePhase
<1>2. gateReceipt' = gateReceipt /\ gateRan' = gateRan
  BY DEF gateReceipt, OnReceipt, gateRan
<1> QED BY <1>1, <1>2 DEF Gate!gate

\* One call moves to another place of the gate.
LEMMA Moves ==
    ASSUME IInv, NEW c \in Calls, NEW place, Goto(c, place)
    PROVE  /\ gatePhase[c] = Place(c)
           /\ gatePhase' = [gatePhase EXCEPT ![c] = Place(c)']
           /\ pc'[c] = place
  BY DEF Goto, gatePhase, Place, IInv, TypeOK

LEMMA ThrowRefines ==
    ASSUME IInv, NEW c \in Calls, Throw(c), pc[c] \in {"idle", "context", "signing"}
    PROVE  Gate!Throw(c)
<1>1. Place(c) = "idle" /\ Place(c)' = "settled"
  BY Moves DEF Throw, Place
<1>2. gateReceipt' = gateReceipt /\ gateRan' = gateRan
  BY DEF Throw, state, gateReceipt, OnReceipt, gateRan
<1> QED BY <1>1, <1>2, Moves DEF Throw, Gate!Throw, Gate!Move

LEMMA SignRefines ==
    ASSUME IInv, NEW c \in Calls, NEW outcome \in Outcomes, Sign(c, outcome),
           pc[c] \in {"context", "signing"}
    PROVE  Gate!Decide(c, outcome = "allowed")
<1>1. Place(c) = "idle" /\ Place(c)' = "decided"
  BY Moves DEF Sign, Place
<1>2. OnReceipt(c)' = IF outcome = "allowed" THEN "allowed" ELSE "denied"
  BY NoReceiptAssumption DEF Sign, OnReceipt, IInv, TypeOK
<1>3. \A d \in Calls \ {c} : OnReceipt(d)' = OnReceipt(d)
  BY DEF Sign, OnReceipt, IInv, TypeOK
<1>4. gateReceipt' = [gateReceipt EXCEPT ![c] = IF outcome = "allowed" THEN "allowed" ELSE "denied"]
  BY <1>2, <1>3 DEF gateReceipt
<1>5. gateRan' = gateRan
  BY DEF Sign, gateRan
<1> QED BY <1>1, <1>4, <1>5, Moves DEF Sign, Gate!Decide, Gate!Move

LEMMA BeginRefines ==
    ASSUME IInv, NEW c \in Calls, GuardCall(c) \/ CallTool(c)
    PROVE  Gate!Throw(c) \/ UNCHANGED Gate!gate
<1>1. CASE Throw(c)
  BY <1>1, ThrowRefines DEF GuardCall, CallTool
<1>2. CASE Goto(c, "context") /\ UNCHANGED state
  BY <1>2, Stutters DEF GuardCall, CallTool, Goto, state, Place, IInv, TypeOK
<1> QED BY <1>1, <1>2 DEF GuardCall, CallTool

LEMMA ContextRefines ==
    ASSUME IInv, NEW c \in Calls, ContextSettles(c)
    PROVE  Gate!Throw(c) \/ (\E ok \in BOOLEAN : Gate!Decide(c, ok)) \/ UNCHANGED Gate!gate
<1>1. CASE Throw(c)
  BY <1>1, ThrowRefines DEF ContextSettles
<1>2. CASE Challenge(c)
  BY <1>2, Stutters DEF ContextSettles, Challenge, Goto, state, Place, IInv, TypeOK
<1>3. ASSUME NEW outcome \in Policy, Sign(c, outcome) PROVE \E ok \in BOOLEAN : Gate!Decide(c, ok)
  <2>1. outcome \in Outcomes /\ (outcome = "allowed") \in BOOLEAN
    BY DEF Policy, Outcomes
  <2>2. Gate!Decide(c, outcome = "allowed")
    BY <1>3, <2>1, SignRefines DEF ContextSettles
  <2> QED BY <2>1, <2>2
<1> QED BY <1>1, <1>2, <1>3 DEF ContextSettles, VerifyWithContext

LEMMA SignerRefines ==
    ASSUME IInv, NEW c \in Calls, SignerSettles(c)
    PROVE  Gate!Throw(c) \/ \E ok \in BOOLEAN : Gate!Decide(c, ok)
<1>1. CASE Throw(c)
  BY <1>1, ThrowRefines DEF SignerSettles
<1>2. ASSUME NEW outcome \in {"bad proof", "replay"} \cup Policy, Sign(c, outcome)
      PROVE  \E ok \in BOOLEAN : Gate!Decide(c, ok)
  <2>1. outcome \in Outcomes /\ (outcome = "allowed") \in BOOLEAN
    BY DEF Policy, Outcomes
  <2>2. Gate!Decide(c, outcome = "allowed")
    BY <1>2, <2>1, SignRefines DEF SignerSettles
  <2> QED BY <2>1, <2>2
<1> QED BY <1>1, <1>2 DEF SignerSettles, VerifyWithProof

LEMMA ReceiptRefines ==
    ASSUME IInv, NEW c \in Calls, ReceiptHandled(c)
    PROVE  Gate!Refuse(c) \/ Gate!Enter(c, "running")
<1>1. ran[c] = 0 /\ receipt[c] \in Outcomes
  BY DEF ReceiptHandled, IInv, CallsOK, CallOK
<1>2. Place(c) = "decided" /\ gateReceipt' = gateReceipt
      /\ gateReceipt[c] = IF receipt[c] = "allowed" THEN "allowed" ELSE "denied"
  BY <1>1, NoReceiptAssumption DEF ReceiptHandled, Place, gateReceipt, OnReceipt
<1>3. CASE receipt[c] = "allowed"
  <2>1. Goto(c, "running") /\ ran' = [ran EXCEPT ![c] = @ + 1]
    BY <1>3 DEF ReceiptHandled
  <2>2. Place(c)' = "running"
    BY <2>1, Moves DEF Place
  <2>3. gateRan' = gateRan \cup {c}
    BY <2>1, <1>1 DEF gateRan, IInv, TypeOK
  <2> QED BY <1>2, <1>3, <2>1, <2>2, <2>3, Moves DEF Gate!Enter, Gate!Move
<1>4. CASE receipt[c] # "allowed"
  <2>1. Goto(c, "denied") /\ ran' = ran
    BY <1>4 DEF ReceiptHandled
  <2>2. Place(c)' = "settled"
    BY <2>1, Moves DEF Place
  <2>3. gateRan' = gateRan
    BY <2>1 DEF gateRan
  <2> QED BY <1>2, <1>4, <2>1, <2>2, <2>3, Moves DEF Gate!Refuse, Gate!Move
<1> QED BY <1>3, <1>4

LEMMA ToolRefines ==
    ASSUME IInv, NEW c \in Calls, ToolSettles(c) PROVE Gate!Settle(c)
<1>1. PICK place \in {"returned", "thrown"} : Goto(c, place)
  BY DEF ToolSettles
<1>2. Place(c) = "running" /\ Place(c)' = "settled"
  BY <1>1, Moves DEF ToolSettles, Place
<1>3. gateReceipt' = gateReceipt /\ gateRan' = gateRan
  BY DEF ToolSettles, state, gateReceipt, OnReceipt, gateRan
<1> QED BY <1>1, <1>2, <1>3, Moves DEF Gate!Settle, Gate!Move

\* Every step of the guard is one of the gate or leaves the gate as it is.
LEMMA NextRefines == IInv /\ [Next]_vars => [Gate!GateNext]_(Gate!gate)
<1> SUFFICES ASSUME IInv, [Next]_vars PROVE [Gate!GateNext]_(Gate!gate)
  OBVIOUS
<1> USE DEF Gate!GateNext, Gate!GateStep
<1>1. ASSUME NEW c \in Calls, GuardCall(c) \/ CallTool(c) PROVE [Gate!GateNext]_(Gate!gate)
  BY <1>1, BeginRefines
<1>2. ASSUME NEW c \in Calls, ContextSettles(c) PROVE [Gate!GateNext]_(Gate!gate)
  BY <1>2, ContextRefines
<1>3. ASSUME NEW c \in Calls, SignerSettles(c) PROVE [Gate!GateNext]_(Gate!gate)
  BY <1>3, SignerRefines
<1>4. ASSUME NEW c \in Calls, CallbackFails(c) PROVE [Gate!GateNext]_(Gate!gate)
  BY <1>4, ThrowRefines DEF CallbackFails
<1>5. ASSUME NEW c \in Calls, ReceiptHandled(c) PROVE [Gate!GateNext]_(Gate!gate)
  <2>1. "running" \in Gate!Phases
    BY DEF Gate!Phases
  <2> QED BY <1>5, <2>1, ReceiptRefines
<1>6. ASSUME NEW c \in Calls, ToolSettles(c) PROVE [Gate!GateNext]_(Gate!gate)
  BY <1>6, ToolRefines
<1>7. CASE World \/ UNCHANGED vars
  BY <1>7, Stutters DEF World, InstallList, FreshStore, SetTtl, Free, Tick, vars, state, Place
<1> QED BY <1>1, <1>2, <1>3, <1>4, <1>5, <1>6, <1>7 DEF Next, Proceed

\* Behind its awaits the guard is one decision and at most one run per call, for any
\* number of calls: whoever builds on the gate may take it for the guard.
THEOREM Refinement == Spec => ImplementsGate
<1>1. Spec => Gate!GateInit /\ [][Gate!GateNext]_(Gate!gate)
  BY InitRefines, NextRefines, Invariance, PTL DEF Spec
<1> QED BY <1>1 DEF ImplementsGate, Gate!GateSpec
=============================================================================
