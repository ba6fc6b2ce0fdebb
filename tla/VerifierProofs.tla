--------------------------- MODULE VerifierProofs ---------------------------
(***************************************************************************)
(* Proofs about Verifier, for any number of verifiers and stores, any      *)
(* capabilities, proofs, challenges and contexts, and any caveat language. *)
(*                                                                         *)
(* A proof over a default challenge that passed a store leaves an entry    *)
(* that expires after the time the challenge carries; the challenge fixes  *)
(* the time of every context it is good for, so the entry refuses them all *)
(* and can only be replaced by one that expires later still.               *)
(*                                                                         *)
(* The last part has the abstract store, ReplayWindow, inside the          *)
(* pipeline: calls are answered as it would answer them.                   *)
(***************************************************************************)
EXTENDS Verifier, TLAPS

\* A proof that has passed is blocked at the time its challenge names.
Burned ==
    \A s \in Stores, p \in Proofs :
        /\ cleared[s][p] <= 1
        /\ cleared[s][p] = 1 => /\ p.challenge.now_ms \in Times
                                /\ seen[s][p] > p.challenge.now_ms

IInv == TypeOK /\ Burned /\ StoreHoldsOnlyProven

LEMMA ExpiryBounds ==
    ASSUME NEW now \in Times, NEW ttl \in Times
    PROVE  /\ Expiry(now, ttl) \in Times
           /\ Expiry(now, ttl) >= now
           /\ ttl > 0 /\ now < MaxTime => Expiry(now, ttl) > now
  BY MaxTimeInNat, SMT DEF Expiry, Times

LEMMA InitIInv == Init => IInv
  BY TtlsInRange, SMT DEF Init, IInv, TypeOK, Burned, StoreHoldsOnlyProven,
     NewConfig, Absent

\* Reconfiguring a verifier touches no store.
LEMMA ReconfigureIInv ==
    ASSUME IInv, NEW v \in Verifiers,
           NEW c \in [store : Stores \cup {NoStore}, ttl : Ttls,
                      list : Lists \cup {NoList}],
           Reconfigure(v, c)
    PROVE  IInv'
  BY SMT DEF IInv, TypeOK, Burned, StoreHoldsOnlyProven, Reconfigure

LEMMA NewConfigType ==
    NewConfig \in [store : Stores \cup {NoStore}, ttl : Ttls,
                   list : Lists \cup {NoList}]
  BY TtlsInRange DEF NewConfig

LEMMA ConfigurationIInv ==
    ASSUME IInv, NEW v \in Verifiers,
           \/ \E s \in Stores : WithNonceStore(v, s)
           \/ \E ttl \in Ttls : WithNonceTtl(v, ttl)
           \/ WithoutNonceStore(v)
           \/ \E list \in Lists :
                WithRevocationList(v, list) \/ RefuseRevocationList(v, list)
           \/ WithoutRevocationList(v)
    PROVE  IInv'
<1> DEFINE Configs == [store : Stores \cup {NoStore}, ttl : Ttls,
                       list : Lists \cup {NoList}]
<1>1. config[v] \in Configs
  BY DEF IInv, TypeOK
<1>2. \E c \in Configs : Reconfigure(v, c)
  BY <1>1, NewConfigType DEF WithNonceStore, WithNonceTtl, WithoutNonceStore,
     WithRevocationList, RefuseRevocationList, WithoutRevocationList
<1> QED BY <1>2, ReconfigureIInv

LEMMA ClearStoreIInv ==
    ASSUME IInv, call = NoCall, NEW s \in Stores, ClearStore(s)
    PROVE  IInv'
  BY SMT DEF IInv, TypeOK, Burned, StoreHoldsOnlyProven, ClearStore, Absent

\* A call that records nothing leaves the stores as they were.
LEMMA RefusalIInv ==
    ASSUME IInv, NEW v \in Verifiers, NEW cap \in Caps, NEW ctx \in Contexts,
           NEW challenge, NEW proof \in Proofs \cup {NoProof},
           NEW outcome \in Outcomes,
           Answer(v, cap, ctx, challenge, proof, outcome),
           UNCHANGED <<seen, cleared>>
    PROVE  IInv'
<1>1. TypeOK'
  BY SMT DEF IInv, TypeOK, Answer
<1>2. Burned' /\ StoreHoldsOnlyProven'
  BY DEF IInv, Burned, StoreHoldsOnlyProven
<1> QED BY <1>1, <1>2 DEF IInv

LEMMA PolicyOutcomes ==
    ASSUME NEW v, NEW cap, NEW ctx
    PROVE  Policy(v, cap, ctx) \subseteq {"revoked", "caveat", "allowed"}
  BY DEF Policy

LEMMA VerifyWithContextIInv ==
    ASSUME IInv, NEW v \in Verifiers, NEW cap \in Caps, NEW ctx \in Contexts,
           VerifyWithContext(v, cap, ctx)
    PROVE  IInv'
<1>0. Policy(v, cap, ctx) \subseteq {"revoked", "caveat", "allowed"}
  BY PolicyOutcomes
<1>1. PICK outcome \in Outcomes :
          Answer(v, cap, ctx, NoProof, NoProof, outcome)
  BY <1>0 DEF VerifyWithContext, Outcomes
<1>2. UNCHANGED <<seen, cleared>>
  BY DEF VerifyWithContext
<1> QED BY <1>1, <1>2, RefusalIInv

\* The recording step keeps every store's entries proven and burned proofs
\* burned.
LEMMA RecordIInv ==
    ASSUME IInv, NEW v \in Verifiers, NEW cap \in Caps, NEW ctx \in Contexts,
           NEW challenge, NEW proof \in Proofs,
           Verifies(RootKey[v], cap), CheckProof(cap, challenge, proof),
           ~Replayed(v, ctx, proof),
           Record(v, cap, ctx, challenge, proof)
    PROVE  /\ seen' \in [Stores -> [Proofs -> Times \cup {Absent}]]
           /\ cleared' \in [Stores -> [Proofs -> 0..2]]
           /\ Burned'
           /\ StoreHoldsOnlyProven'
<1> DEFINE s == config[v].store
           ttl == config[v].ttl
           now == ctx.now
           expiry == Expiry(now, ttl)
<1>1. /\ s \in Stores \cup {NoStore}
      /\ ttl \in Times
      /\ now \in Times
  BY TtlsInRange DEF IInv, TypeOK, Contexts
<1>2. /\ seen \in [Stores -> [Proofs -> Times \cup {Absent}]]
      /\ cleared \in [Stores -> [Proofs -> 0..2]]
      /\ Burned
      /\ StoreHoldsOnlyProven
  BY DEF IInv, TypeOK
<1>3. CASE s = NoStore
  BY <1>2, <1>3 DEF Record, Burned, StoreHoldsOnlyProven
<1>4. CASE s # NoStore
  <2>1. s \in Stores /\ seen[s][proof] <= now
    <3>1. ~(seen[s][proof] > now)
      BY <1>4 DEF Replayed
    <3>2. seen[s][proof] \in Times \cup {Absent} /\ s \in Stores
      BY <1>1, <1>2, <1>4
    <3> QED BY <3>1, <3>2, <1>1, MaxTimeInNat DEF Times, Absent
  <2>2. /\ expiry \in Times
        /\ expiry >= now
        /\ ttl > 0 /\ now < MaxTime => expiry > now
    BY <1>1, ExpiryBounds
  <2>3. seen' = [seen EXCEPT ![s][proof] = expiry]
    BY <1>4 DEF Record
  <2>4. \/ /\ cleared' = [cleared EXCEPT ![s][proof] = @ + 1]
           /\ cleared[s][proof] < 2
           /\ challenge = PopChallengeFor(cap, ctx)
           /\ ttl > 0 /\ now < MaxTime
        \/ cleared' = cleared
    BY <1>4 DEF Record
  <2>5. /\ seen' \in [Stores -> [Proofs -> Times \cup {Absent}]]
        /\ cleared' \in [Stores -> [Proofs -> 0..2]]
    <3>1. seen' \in [Stores -> [Proofs -> Times \cup {Absent}]]
      BY <1>2, <2>1, <2>2, <2>3
    <3>2. CASE cleared' = [cleared EXCEPT ![s][proof] = @ + 1] /\ cleared[s][proof] < 2
      <4>1. cleared[s][proof] \in 0..2
        BY <1>2, <2>1
      <4>2. cleared[s][proof] + 1 \in 0..2
        BY <4>1, <3>2
      <4> QED BY <4>2, <3>1, <3>2, <1>2, <2>1
    <3>3. CASE cleared' = cleared
      BY <3>1, <3>3, <1>2
    <3> QED BY <3>2, <3>3, <2>4
  <2>6. StoreHoldsOnlyProven'
    <3> SUFFICES ASSUME NEW r \in Stores, NEW p \in Proofs, seen'[r][p] # Absent
                 PROVE  \E c \in Caps, w \in Verifiers :
                            Verifies(RootKey[w], c) /\ c.holder_of_key = p.key
      BY DEF StoreHoldsOnlyProven
    <3>1. CASE r = s /\ p = proof
      <4>1. proof.key = cap.holder_of_key
        BY DEF CheckProof
      <4> QED BY <3>1, <4>1
    <3>2. CASE ~(r = s /\ p = proof)
      <4>1. seen'[r][p] = seen[r][p]
        BY <1>2, <2>1, <2>3, <3>2, SMT
      <4> QED BY <4>1, <1>2 DEF StoreHoldsOnlyProven
    <3> QED BY <3>1, <3>2
  <2>7. Burned'
    <3> SUFFICES ASSUME NEW r \in Stores, NEW p \in Proofs
                 PROVE  /\ cleared'[r][p] <= 1
                        /\ cleared'[r][p] = 1 =>
                               /\ p.challenge.now_ms \in Times
                               /\ seen'[r][p] > p.challenge.now_ms
      BY DEF Burned
    <3>0. /\ cleared[r][p] \in 0..2
          /\ cleared[r][p] <= 1
          /\ cleared[r][p] = 1 => /\ p.challenge.now_ms \in Times
                                  /\ seen[r][p] > p.challenge.now_ms
          /\ seen[r][p] \in Times \cup {Absent}
      BY <1>2 DEF Burned
    <3>1. CASE ~(r = s /\ p = proof)
      <4>1. seen'[r][p] = seen[r][p] /\ cleared'[r][p] = cleared[r][p]
        BY <1>2, <2>1, <2>3, <2>4, <3>1, SMT
      <4> QED BY <4>1, <3>0
    <3>2. CASE r = s /\ p = proof
      <4>1. seen'[r][p] = expiry
        BY <1>2, <2>1, <2>3, <3>2
      <4>2. CASE cleared' = cleared
        BY <4>1, <4>2, <3>0, <3>2, <2>1, <2>2, <1>1, MaxTimeInNat DEF Times, Absent
      <4>3. CASE /\ cleared' = [cleared EXCEPT ![s][proof] = @ + 1]
                 /\ challenge = PopChallengeFor(cap, ctx)
                 /\ ttl > 0 /\ now < MaxTime
        <5>1. proof.challenge.now_ms = now
          BY <4>3 DEF CheckProof, PopChallengeFor
        <5>2. cleared[r][p] = 0
          BY <5>1, <3>0, <3>2, <2>1, <1>1, MaxTimeInNat DEF Times, Absent
        <5>3. cleared'[r][p] = 1
          BY <5>2, <4>3, <3>2, <1>2, <2>1
        <5> QED BY <5>1, <5>3, <4>1, <4>3, <3>2, <2>2, <1>1, MaxTimeInNat DEF Times
      <4> QED BY <4>2, <4>3, <2>4
    <3> QED BY <3>1, <3>2
  <2> QED BY <2>5, <2>6, <2>7
<1> QED BY <1>3, <1>4

LEMMA VerifyWithProofIInv ==
    ASSUME IInv, NEW v \in Verifiers, NEW cap \in Caps, NEW ctx \in Contexts,
           NEW challenge, NEW proof \in Proofs,
           VerifyWithProof(v, cap, ctx, challenge, proof)
    PROVE  IInv'
<1>1. ASSUME RefuseProof(v, cap, ctx, challenge, proof)
      PROVE  IInv'
  <2>1. PICK outcome \in Outcomes :
            Answer(v, cap, ctx, challenge, proof, outcome)
    BY <1>1 DEF RefuseProof, Outcomes
  <2> QED BY <1>1, <2>1, RefusalIInv DEF RefuseProof
<1>2. ASSUME RefuseReplay(v, cap, ctx, challenge, proof)
      PROVE  IInv'
  <2>1. "replay" \in Outcomes
    BY DEF Outcomes
  <2> QED BY <1>2, <2>1, RefusalIInv DEF RefuseReplay
<1>3. ASSUME DecideWithProof(v, cap, ctx, challenge, proof)
      PROVE  IInv'
  <2>1. /\ seen' \in [Stores -> [Proofs -> Times \cup {Absent}]]
        /\ cleared' \in [Stores -> [Proofs -> 0..2]]
        /\ Burned'
        /\ StoreHoldsOnlyProven'
    BY <1>3, RecordIInv DEF DecideWithProof
  <2>2. Policy(v, cap, ctx) \subseteq {"revoked", "caveat", "allowed"}
    BY PolicyOutcomes
  <2>3. PICK outcome \in Outcomes :
            Answer(v, cap, ctx, challenge, proof, outcome)
    BY <1>3, <2>2 DEF DecideWithProof, Outcomes
  <2> QED BY <2>1, <2>3 DEF Answer, IInv, TypeOK
<1> QED BY <1>1, <1>2, <1>3 DEF VerifyWithProof

LEMMA NextIInv == IInv /\ [Next]_vars => IInv'
<1> SUFFICES ASSUME IInv, [Next]_vars PROVE IInv'
  OBVIOUS
<1>1. CASE UNCHANGED vars
  BY <1>1 DEF IInv, TypeOK, Burned, StoreHoldsOnlyProven, vars
<1>2. ASSUME NEW v \in Verifiers, NEW cap \in Caps, NEW ctx \in Contexts,
             VerifyWithContext(v, cap, ctx)
      PROVE  IInv'
  BY <1>2, VerifyWithContextIInv
<1>3. ASSUME NEW v \in Verifiers, NEW cap \in Caps, NEW ctx \in Contexts,
             NEW challenge \in {PopChallengeFor(cap, ctx)} \cup ServerChallenges,
             NEW proof \in Proofs,
             VerifyWithProof(v, cap, ctx, challenge, proof)
      PROVE  IInv'
  BY <1>3, VerifyWithProofIInv
<1>4. ASSUME call = NoCall, NEW s \in Stores, ClearStore(s)
      PROVE  IInv'
  BY <1>4, ClearStoreIInv
<1>5. CASE Return
  BY <1>5 DEF Return, IInv, TypeOK, Burned, StoreHoldsOnlyProven
<1>6. CASE Next
  BY <1>2, <1>3, <1>4, <1>5, <1>6, ConfigurationIInv DEF Next
<1> QED BY <1>1, <1>6

-----------------------------------------------------------------------------
THEOREM Invariance == Spec => []IInv
  BY InitIInv, NextIInv, PTL DEF Spec

\* Whatever the calls and configurations, the variables keep their types; no
\* expiry exceeds u64::MAX.
THEOREM TypeCorrect == Spec => []TypeOK
<1>1. IInv => TypeOK
  BY DEF IInv
<1> QED BY <1>1, Invariance, PTL

\* A proof over the default challenge passes the replay leg of a store once,
\* for any lifetimes, clocks and verifiers sharing it.
THEOREM ProofsClearOnce == Spec => []ProofClearsOnce
<1>1. IInv => ProofClearsOnce
  BY DEF IInv, Burned, ProofClearsOnce
<1> QED BY <1>1, Invariance, PTL

\* A store holds no proof that its holder did not make for an issued capability.
THEOREM StoresHoldOnlyProven == Spec => []StoreHoldsOnlyProven
<1>1. IInv => StoreHoldsOnlyProven
  BY DEF IInv
<1> QED BY <1>1, Invariance, PTL

-----------------------------------------------------------------------------
(* What a call tells, and what it lets through.  A call in progress keeps    *)
(* the configuration it was decided under, so an "allowed" stays justified.  *)
JustifiedAllow ==
    call # NoCall /\ call.outcome = "allowed" =>
        /\ CaveatsHold(call.cap.caveats, call.ctx)
        /\ FALSE \in Revoked(call.by, call.cap)

CallInv == ProofGatesDecision /\ JustifiedAllow

\* The record of a call that returns.
LEMMA AnswerFields ==
    ASSUME NEW v, NEW cap, NEW ctx, NEW challenge, NEW proof, NEW outcome,
           Answer(v, cap, ctx, challenge, proof, outcome)
    PROVE  /\ call'.by = v /\ call'.cap = cap /\ call'.ctx = ctx
           /\ call'.challenge = challenge /\ call'.proof = proof
           /\ call'.outcome = outcome
           /\ config' = config
  BY DEF Answer

\* Policy allows exactly when revocation may pass and the caveats hold.
LEMMA PolicyAllows ==
    ASSUME NEW v, NEW cap, NEW ctx
    PROVE  "allowed" \in Policy(v, cap, ctx) <=>
               /\ CaveatsHold(cap.caveats, ctx)
               /\ FALSE \in Revoked(v, cap)
<1>1. Revoked(v, cap) \subseteq BOOLEAN
  BY DEF Revoked, BinarySearch
<1> QED BY <1>1 DEF Policy

\* A call that stops before the store says nothing about the later legs.
LEMMA RefusalCallInv ==
    ASSUME NEW v, NEW cap, NEW ctx, NEW challenge, NEW proof,
           NEW outcome \in {"chain", "entry point", "bad proof"},
           Answer(v, cap, ctx, challenge, proof, outcome)
    PROVE  CallInv'
  BY AnswerFields DEF CallInv, ProofGatesDecision, JustifiedAllow

LEMMA VerifyWithContextCallInv ==
    ASSUME NEW v \in Verifiers, NEW cap \in Caps, NEW ctx \in Contexts,
           VerifyWithContext(v, cap, ctx)
    PROVE  CallInv'
<1>1. PICK outcome \in IF ~Verifies(RootKey[v], cap) THEN {"chain"}
                       ELSE IF cap.holder_of_key # NoKey THEN {"entry point"}
                       ELSE Policy(v, cap, ctx) :
          Answer(v, cap, ctx, NoProof, NoProof, outcome)
  BY DEF VerifyWithContext
<1>2. CASE ~Verifies(RootKey[v], cap) \/ cap.holder_of_key # NoKey
  <2>1. outcome \in {"chain", "entry point", "bad proof"}
    BY <1>1, <1>2
  <2> QED BY <1>1, <2>1, RefusalCallInv
<1>3. CASE Verifies(RootKey[v], cap) /\ cap.holder_of_key = NoKey
  <2>1. outcome \in Policy(v, cap, ctx)
    BY <1>1, <1>3
  <2>2. /\ call'.by = v /\ call'.cap = cap /\ call'.ctx = ctx
        /\ call'.proof = NoProof /\ call'.outcome = outcome
        /\ config' = config
    BY <1>1, AnswerFields
  <2>3. ProofGatesDecision'
    BY <1>3, <2>2 DEF ProofGatesDecision, Verifies, Recompute
  <2>4. JustifiedAllow'
    BY <2>1, <2>2, PolicyAllows DEF JustifiedAllow, Revoked
  <2> QED BY <2>3, <2>4 DEF CallInv
<1> QED BY <1>2, <1>3

LEMMA VerifyWithProofCallInv ==
    ASSUME NEW v \in Verifiers, NEW cap \in Caps, NEW ctx \in Contexts,
           NEW challenge, NEW proof \in Proofs,
           VerifyWithProof(v, cap, ctx, challenge, proof)
    PROVE  CallInv'
<1>1. ASSUME RefuseProof(v, cap, ctx, challenge, proof)
      PROVE  CallInv'
  BY <1>1, RefusalCallInv DEF RefuseProof
<1>2. ASSUME NEW outcome \in {"replay"} \cup Policy(v, cap, ctx),
             Verifies(RootKey[v], cap), cap.holder_of_key # NoKey,
             CheckProof(cap, challenge, proof),
             Answer(v, cap, ctx, challenge, proof, outcome)
      PROVE  CallInv'
  <2>1. /\ call'.by = v /\ call'.cap = cap /\ call'.ctx = ctx
        /\ call'.challenge = challenge /\ call'.proof = proof
        /\ call'.outcome = outcome
        /\ config' = config
    BY <1>2, AnswerFields
  <2>2. proof.key = cap.holder_of_key /\ proof.challenge = challenge
    BY <1>2 DEF CheckProof
  <2>3. ProofGatesDecision'
    BY <1>2, <2>1, <2>2, NoValues DEF ProofGatesDecision, Verifies, Recompute
  <2>4. JustifiedAllow'
    BY <1>2, <2>1, PolicyAllows DEF JustifiedAllow, Revoked
  <2> QED BY <2>3, <2>4 DEF CallInv
<1>3. ASSUME RefuseReplay(v, cap, ctx, challenge, proof)
      PROVE  CallInv'
  BY <1>2, <1>3 DEF RefuseReplay
<1>4. ASSUME DecideWithProof(v, cap, ctx, challenge, proof)
      PROVE  CallInv'
  BY <1>2, <1>4 DEF DecideWithProof
<1> QED BY <1>1, <1>3, <1>4 DEF VerifyWithProof

\* Without a call returning, nothing is claimed.
LEMMA NoCallInv == call' = NoCall => CallInv'
  BY DEF CallInv, ProofGatesDecision, JustifiedAllow

LEMMA NextCallInv == CallInv /\ [Next]_vars => CallInv'
<1> SUFFICES ASSUME CallInv, [Next]_vars PROVE CallInv'
  OBVIOUS
<1>1. CASE UNCHANGED vars
  <2>1. config' = config /\ call' = call
    BY <1>1 DEF vars
  <2>2. ProofGatesDecision'
    BY <2>1 DEF CallInv, ProofGatesDecision
  <2>3. JustifiedAllow'
    BY <2>1 DEF CallInv, JustifiedAllow, Revoked
  <2> QED BY <2>2, <2>3 DEF CallInv
<1>2. ASSUME NEW v \in Verifiers, NEW cap \in Caps, NEW ctx \in Contexts,
             \/ VerifyWithContext(v, cap, ctx)
             \/ \E challenge \in {PopChallengeFor(cap, ctx)} \cup ServerChallenges,
                   proof \in Proofs :
                  VerifyWithProof(v, cap, ctx, challenge, proof)
      PROVE  CallInv'
  BY <1>2, VerifyWithContextCallInv, VerifyWithProofCallInv
<1>3. ASSUME NEW v \in Verifiers, call = NoCall,
             \/ \E s \in Stores : WithNonceStore(v, s)
             \/ \E ttl \in Ttls : WithNonceTtl(v, ttl)
             \/ WithoutNonceStore(v)
             \/ \E list \in Lists :
                  WithRevocationList(v, list) \/ RefuseRevocationList(v, list)
             \/ WithoutRevocationList(v)
      PROVE  CallInv'
  <2>1. call' = NoCall
    BY <1>3 DEF WithNonceStore, WithNonceTtl, WithoutNonceStore, Reconfigure,
       WithRevocationList, RefuseRevocationList, WithoutRevocationList
  <2> QED BY <2>1, NoCallInv
<1>4. ASSUME call = NoCall, NEW s \in Stores, ClearStore(s)
      PROVE  CallInv'
  BY <1>4, NoCallInv DEF ClearStore
<1>5. CASE Return
  BY <1>5, NoCallInv DEF Return
<1>6. CASE Next
  BY <1>2, <1>3, <1>4, <1>5, <1>6 DEF Next
<1> QED BY <1>1, <1>6

LEMMA CallInvariance == Spec => []CallInv
<1>1. Init => CallInv
  BY DEF Init, CallInv, ProofGatesDecision, JustifiedAllow
<1> QED BY <1>1, NextCallInv, PTL DEF Spec

\* No decision, and no hint of one, without an intact capability and, for a
\* bound one, its holder's signature of this call's challenge.
THEOREM ProofsGateDecisions == Spec => []ProofGatesDecision
<1>1. CallInv => ProofGatesDecision
  BY DEF CallInv
<1> QED BY <1>1, CallInvariance, PTL

\* Adding caveats only narrows: the conjunction over more caveats implies the
\* conjunction over fewer, in whatever language the caveats are written.
LEMMA PrefixHolds ==
    ASSUME NEW s \in Seq(Predicates), NEW t \in Seq(Predicates), IsPrefix(s, t),
           NEW ctx, CaveatsHold(t, ctx)
    PROVE  CaveatsHold(s, ctx)
<1>1. Len(s) <= Len(t) /\ \A i \in 1..Len(s) : s[i] = t[i]
  BY DEF IsPrefix
<1>2. DOMAIN s = 1..Len(s) /\ DOMAIN t = 1..Len(t) /\ Len(s) \in Nat /\ Len(t) \in Nat
  OBVIOUS
<1> QED BY <1>1, <1>2 DEF CaveatsHold

\* What a capability allows, every capability it was attenuated from may be allowed
\* in the same context (evaluate_all), for capabilities with sequences of caveats.
THEOREM AttenuationOnlyNarrows ==
    ASSUME \A cap \in Caps : cap.caveats \in Seq(Predicates)
    PROVE  Spec => []AttenuationNarrows
<1>1. CallInv /\ TypeOK => AttenuationNarrows
  <2> SUFFICES ASSUME CallInv, TypeOK, call # NoCall, call.outcome = "allowed",
                      NEW parent \in Caps,
                      parent.identifier = call.cap.identifier,
                      IsPrefix(parent.caveats, call.cap.caveats)
               PROVE  "allowed" \in Policy(call.by, parent, call.ctx)
    BY DEF AttenuationNarrows
  <2>1. /\ CaveatsHold(call.cap.caveats, call.ctx)
        /\ FALSE \in Revoked(call.by, call.cap)
    BY DEF CallInv, JustifiedAllow
  <2>2. CaveatsHold(parent.caveats, call.ctx)
    <3>1. call.cap.caveats \in Seq(Predicates) /\ parent.caveats \in Seq(Predicates)
      BY DEF TypeOK
    <3> QED BY <2>1, <3>1, PrefixHolds
  <2>3. FALSE \in Revoked(call.by, parent)
    BY <2>1 DEF Revoked
  <2> QED BY <2>2, <2>3, PolicyAllows
<1> QED BY <1>1, CallInvariance, TypeCorrect, PTL

-----------------------------------------------------------------------------
(* Lists: installed only verified, and asked by every call.                  *)
ListSigned(v) == config[v].list # NoList => VerifySignature(RootKey[v], config[v].list)

ListsSigned == \A v \in Verifiers : ListSigned(v)

\* A verifier gets a configuration whose list its own key signed.
LEMMA ReconfigureSigned ==
    ASSUME TypeOK, ListsSigned, NEW v \in Verifiers, NEW c, Reconfigure(v, c),
           c.list # NoList => VerifySignature(RootKey[v], c.list)
    PROVE  ListsSigned'
<1>1. config' = [config EXCEPT ![v] = c] /\ DOMAIN config = Verifiers
  BY DEF Reconfigure, TypeOK
<1> QED BY <1>1 DEF ListsSigned, ListSigned

LEMMA ConfigurationSigned ==
    ASSUME TypeOK, ListsSigned, NEW v \in Verifiers,
           \/ \E s \in Stores : WithNonceStore(v, s)
           \/ \E ttl \in Ttls : WithNonceTtl(v, ttl)
           \/ WithoutNonceStore(v)
           \/ \E list \in Lists :
                WithRevocationList(v, list) \/ RefuseRevocationList(v, list)
           \/ WithoutRevocationList(v)
    PROVE  ListsSigned'
<1>1. config[v] \in [store : Stores \cup {NoStore}, ttl : Ttls, list : Lists \cup {NoList}]
  BY DEF TypeOK
<1>2. ASSUME \/ \E s \in Stores : WithNonceStore(v, s)
             \/ \E ttl \in Ttls : WithNonceTtl(v, ttl)
             \/ WithoutNonceStore(v)
      PROVE  ListsSigned'
  <2>1. \A s : [config[v] EXCEPT !.store = s].list = config[v].list
    BY <1>1
  <2>2. \A ttl : [config[v] EXCEPT !.ttl = ttl].list = config[v].list
    BY <1>1
  <2>3. PICK c : Reconfigure(v, c) /\ c.list = config[v].list
    BY <2>1, <2>2, <1>2 DEF WithNonceStore, WithNonceTtl, WithoutNonceStore
  <2>4. c.list # NoList => VerifySignature(RootKey[v], c.list)
    BY <2>3 DEF ListsSigned, ListSigned
  <2> QED BY <2>3, <2>4, ReconfigureSigned
<1>3. ASSUME NEW list \in Lists, WithRevocationList(v, list) PROVE ListsSigned'
  <2>1. PICK c : Reconfigure(v, c) /\ c.list = list
    BY <1>1, <1>3 DEF WithRevocationList
  <2> QED BY <1>3, <2>1, ReconfigureSigned DEF WithRevocationList
<1>4. ASSUME \/ \E list \in Lists : RefuseRevocationList(v, list)
             \/ WithoutRevocationList(v)
      PROVE  ListsSigned'
  <2>1. PICK c : Reconfigure(v, c) /\ c.list = NoList
    BY <1>1, <1>4 DEF RefuseRevocationList, WithoutRevocationList, NewConfig
  <2> QED BY <2>1, ReconfigureSigned
<1> QED BY <1>2, <1>3, <1>4

LEMMA NextSigned == TypeOK /\ ListsSigned /\ [Next]_vars => ListsSigned'
<1> SUFFICES ASSUME TypeOK, ListsSigned, [Next]_vars PROVE ListsSigned'
  OBVIOUS
<1>1. CASE config' = config
  BY <1>1 DEF ListsSigned, ListSigned
<1>2. CASE config' # config
  <2>1. ASSUME NEW v, NEW cap, NEW ctx, VerifyWithContext(v, cap, ctx) PROVE FALSE
    BY <1>2, <2>1 DEF VerifyWithContext, Answer
  <2>2. ASSUME NEW v, NEW cap, NEW ctx, NEW challenge, NEW proof,
               VerifyWithProof(v, cap, ctx, challenge, proof)
        PROVE  FALSE
    BY <1>2, <2>2 DEF VerifyWithProof, RefuseProof, RefuseReplay, DecideWithProof, Answer
  <2>3. ~Return /\ vars' # vars /\ ~\E s \in Stores : ClearStore(s)
    BY <1>2 DEF Return, vars, ClearStore
  <2>4. PICK v \in Verifiers :
           \/ \E s \in Stores : WithNonceStore(v, s)
           \/ \E ttl \in Ttls : WithNonceTtl(v, ttl)
           \/ WithoutNonceStore(v)
           \/ \E list \in Lists :
                WithRevocationList(v, list) \/ RefuseRevocationList(v, list)
           \/ WithoutRevocationList(v)
    BY <2>1, <2>2, <2>3 DEF Next
  <2> QED BY <2>4, ConfigurationSigned
<1> QED BY <1>1, <1>2

\* A verifier holds only lists its own key signed as they stand, and allows no
\* capability on one that is in order, for any lists offered, forged ones included.
THEOREM RevokedAreRefused == Spec => []RevokedIsRefused
<1>1. Init => ListsSigned
  BY DEF Init, ListsSigned, ListSigned, NewConfig
<1>2. ListsSigned /\ CallInv => RevokedIsRefused
  <2> SUFFICES ASSUME ListsSigned, CallInv PROVE RevokedIsRefused
    OBVIOUS
  <2>1. ASSUME NEW v \in Verifiers, config[v].list # NoList
        PROVE  config[v].list.signature =
                   [key |-> RootKey[v],
                    bytes |-> CanonicalBytes(config[v].list.issued_at_ms, config[v].list.revoked)]
    BY <2>1 DEF ListsSigned, ListSigned, VerifySignature
  <2>2. ASSUME call # NoCall, call.outcome = "allowed", config[call.by].list # NoList,
               InOrder(config[call.by].list.revoked)
        PROVE  call.cap.identifier \notin ToSet(config[call.by].list.revoked)
    BY <2>2 DEF CallInv, JustifiedAllow, Revoked, BinarySearch
  <2> QED BY <2>1, <2>2 DEF RevokedIsRefused
<1> QED BY <1>1, <1>2, NextSigned, TypeCorrect, CallInvariance, PTL DEF Spec

-----------------------------------------------------------------------------
(* The store inside the pipeline and the one that NonceStore implements. The *)
(* answers of calls open windows: a proof that passed the replay leg of a    *)
(* verifier with a store was accepted by it from the time of the context to  *)
(* its expiry, until the store is emptied.                                   *)
VARIABLE windows  \* history: the windows that answers opened

\* A call is one step, so between steps no verifier is inside try_record.
RW == INSTANCE ReplayWindow WITH
          Nonces <- Stores \X Proofs, Callers <- Verifiers, NoRequest <- NoCall,
          granted <- windows, status <- [v \in Verifiers |-> "idle"],
          req <- [v \in Verifiers |-> NoCall], answer <- [v \in Verifiers |-> FALSE]

\* What the verifier of answer c asks of its store.
Asks(c) == c # NoCall /\ c.proof # NoProof /\ config[c.by].store # NoStore

RequestOf(c) == [nonce |-> <<config[c.by].store, c.proof>>, now |-> c.ctx.now,
                 ttl |-> config[c.by].ttl]

Passed(c) == c.outcome \in {"revoked", "caveat", "allowed"}

Opened(c) == IF Asks(c) /\ Passed(c) THEN {RW!WindowOf(RequestOf(c))} ELSE {}

EntryOf(nonce) == seen[nonce[1]][nonce[2]]

WindowsInit == Init /\ windows = {}
WindowsNext ==
    /\ Next
    /\ windows' = {w \in windows : EntryOf(w.nonce)' # Absent} \cup Opened(call')
WindowsSpec == WindowsInit /\ [][WindowsNext]_<<vars, windows>>

\* Two acceptances of a proof by a store never share an instant.
AcceptancesAreDisjoint ==
    \A g, h \in windows :
        g.nonce = h.nonce /\ g # h => g.until <= h.at \/ h.until <= g.at

\* A call passes the replay leg exactly when the abstract store would grant its
\* request, and then opens the window of that grant; a replay changes nothing.
AnswersAsReplayWindow ==
    call' # call /\ Asks(call') =>
        /\ Passed(call') => /\ RW!Fresh(RequestOf(call'))
                            /\ windows' = windows \cup {RW!WindowOf(RequestOf(call'))}
        /\ call'.outcome = "replay" => ~RW!Fresh(RequestOf(call')) /\ windows' = windows

\* An entry is the latest end of the windows of its proof.
EntriesAreEnds ==
    /\ windows \subseteq RW!Windows
    /\ \A w \in windows : w.until <= EntryOf(w.nonce)
    /\ \A s \in Stores, p \in Proofs :
           seen[s][p] # Absent =>
               \E w \in windows : w.nonce = <<s, p>> /\ w.until = seen[s][p]

WindowsInv == TypeOK /\ EntriesAreEnds /\ AcceptancesAreDisjoint

LEMMA RequestIs ==
    ASSUME TypeOK, NEW v \in Verifiers, NEW ctx \in Contexts, NEW proof \in Proofs,
           NEW c, c.by = v, c.ctx = ctx, c.proof = proof, config[v].store # NoStore,
           NEW w, w = RW!WindowOf(RequestOf(c))
    PROVE  /\ w.nonce = <<config[v].store, proof>> /\ w.at = ctx.now
           /\ w.until = Expiry(ctx.now, config[v].ttl)
           /\ w \in RW!Windows /\ w.until >= w.at
           /\ RequestOf(c).nonce = w.nonce /\ RequestOf(c).now = ctx.now
<1>1. config[v].store \in Stores /\ config[v].ttl \in Times /\ ctx.now \in Times
  BY TtlsInRange DEF TypeOK, Contexts
<1>2. Expiry(ctx.now, config[v].ttl) \in Times /\ Expiry(ctx.now, config[v].ttl) >= ctx.now
  BY <1>1, ExpiryBounds
<1>3. w = [nonce |-> <<config[v].store, proof>>, at |-> ctx.now,
           until |-> Expiry(ctx.now, config[v].ttl)]
  BY DEF RW!WindowOf, RequestOf, RW!SatAdd, Expiry
<1>4. RequestOf(c).nonce = <<config[v].store, proof>> /\ RequestOf(c).now = ctx.now
  BY DEF RequestOf
<1> QED BY <1>1, <1>2, <1>3, <1>4 DEF RW!Windows, RW!Times, Times

\* The abstract store has no window open at a time exactly when the entry has expired.
LEMMA FreshIsExpired ==
    ASSUME TypeOK, EntriesAreEnds, NEW s \in Stores, NEW p \in Proofs, NEW now \in Times,
           NEW request, request.nonce = <<s, p>>, request.now = now
    PROVE  RW!Fresh(request) <=> ~(seen[s][p] > now)
<1>1. seen[s][p] \in Times \cup {Absent}
  BY DEF TypeOK
<1>2. EntryOf(<<s, p>>) = seen[s][p]
  BY DEF EntryOf
<1>3. \A w \in windows : w.until \in Times
  BY DEF EntriesAreEnds, RW!Windows, RW!Times, Times
<1>4. CASE seen[s][p] > now
  <2>1. seen[s][p] # Absent
    BY <1>4, MaxTimeInNat DEF Times, Absent
  <2>2. PICK w \in windows : w.nonce = <<s, p>> /\ w.until = seen[s][p]
    BY <2>1 DEF EntriesAreEnds
  <2>3. ~(w.until <= now)
    BY <1>3, <1>4, <2>2, MaxTimeInNat DEF Times
  <2> QED BY <1>4, <2>2, <2>3 DEF RW!Fresh
<1>5. CASE ~(seen[s][p] > now)
  <2>1. ASSUME NEW w \in windows, w.nonce = request.nonce PROVE w.until <= request.now
    <3>1. w.until <= seen[s][p] /\ w.until \in Times
      BY <1>2, <1>3, <2>1 DEF EntriesAreEnds
    <3> QED BY <3>1, <1>1, <1>5, MaxTimeInNat DEF Times, Absent
  <2> QED BY <1>5, <2>1 DEF RW!Fresh
<1> QED BY <1>4, <1>5

\* A step that leaves the entries alone opens no window and forgets none.
LEMMA QuietStepKeeps ==
    ASSUME WindowsInv, seen' = seen, TypeOK', Opened(call') = {},
           windows' = {w \in windows : EntryOf(w.nonce)' # Absent} \cup Opened(call')
    PROVE  windows' = windows /\ WindowsInv'
<1>1. \A w \in windows : EntryOf(w.nonce)' # Absent
  <2> SUFFICES ASSUME NEW w \in windows PROVE EntryOf(w.nonce) # Absent
    BY DEF EntryOf
  <2>1. w.until \in Times /\ w.until <= EntryOf(w.nonce)
    BY DEF WindowsInv, EntriesAreEnds, RW!Windows, RW!Times, Times
  <2> QED BY <2>1, MaxTimeInNat DEF Times, Absent
<1>2. windows' = windows
  BY <1>1
<1>3. EntriesAreEnds' /\ AcceptancesAreDisjoint'
  BY <1>2 DEF WindowsInv, EntriesAreEnds, AcceptancesAreDisjoint, EntryOf, RW!Windows, RW!Times
<1> QED BY <1>2, <1>3 DEF WindowsInv

LEMMA ClearStepKeeps ==
    ASSUME WindowsInv, NEW s \in Stores, ClearStore(s), TypeOK', Opened(call') = {},
           windows' = {w \in windows : EntryOf(w.nonce)' # Absent} \cup Opened(call')
    PROVE  WindowsInv'
<1>1. /\ seen \in [Stores -> [Proofs -> Times \cup {Absent}]]
      /\ seen' = [seen EXCEPT ![s] = [p \in Proofs |-> Absent]]
  BY DEF WindowsInv, TypeOK, ClearStore
<1>2. windows' \subseteq windows /\ windows \subseteq RW!Windows
  BY DEF WindowsInv, EntriesAreEnds
<1>3. ASSUME NEW w \in windows
      PROVE  /\ w.nonce[1] \in Stores /\ w.nonce[2] \in Proofs
             /\ w.nonce = <<w.nonce[1], w.nonce[2]>>
             /\ w.until <= EntryOf(w.nonce)
             /\ w.until \in Times
  BY DEF WindowsInv, EntriesAreEnds, RW!Windows, RW!Times, Times
<1>4. ASSUME NEW w \in windows' PROVE w.until <= EntryOf(w.nonce)'
  <2>1. w \in windows /\ EntryOf(w.nonce)' # Absent
    OBVIOUS
  <2>2. w.nonce[1] # s
    BY <1>1, <1>3, <2>1 DEF EntryOf
  <2>3. EntryOf(w.nonce)' = EntryOf(w.nonce)
    BY <1>1, <1>3, <2>1, <2>2 DEF EntryOf
  <2> QED BY <1>3, <2>1, <2>3
<1>5. ASSUME NEW r \in Stores, NEW p \in Proofs, seen'[r][p] # Absent
      PROVE  \E w \in windows' : w.nonce = <<r, p>> /\ w.until = seen'[r][p]
  <2>1. r # s /\ seen'[r][p] = seen[r][p]
    BY <1>1, <1>5
  <2>2. PICK w \in windows : w.nonce = <<r, p>> /\ w.until = seen[r][p]
    BY <1>5, <2>1 DEF WindowsInv, EntriesAreEnds
  <2>3. EntryOf(w.nonce)' # Absent
    BY <2>1, <2>2, <1>5 DEF EntryOf
  <2> QED BY <2>1, <2>2, <2>3
<1>6. EntriesAreEnds'
  BY <1>2, <1>4, <1>5 DEF EntriesAreEnds, RW!Windows, RW!Times
<1>7. AcceptancesAreDisjoint'
  BY <1>2 DEF WindowsInv, AcceptancesAreDisjoint
<1> QED BY <1>6, <1>7 DEF WindowsInv

\* A proof that passes where there is no store opens no window.
LEMMA UnstoredStepKeeps ==
    ASSUME WindowsInv, NEW v \in Verifiers, NEW cap, NEW ctx, NEW challenge, NEW proof,
           NEW outcome, Answer(v, cap, ctx, challenge, proof, outcome),
           seen' = seen, TypeOK',
           proof = NoProof \/ config[v].store = NoStore
               \/ outcome \in {"chain", "entry point", "bad proof", "replay"},
           windows' = {w \in windows : EntryOf(w.nonce)' # Absent} \cup Opened(call')
    PROVE  windows' = windows /\ WindowsInv'
<1>1. /\ call'.by = v /\ call'.proof = proof /\ call'.outcome = outcome /\ config' = config
  BY AnswerFields
<1>2. ~(Asks(call') /\ Passed(call'))
  BY <1>1 DEF Asks, Passed
<1>3. Opened(call') = {}
  BY <1>2 DEF Opened
<1> QED BY <1>3, QuietStepKeeps

LEMMA DecideStepKeeps ==
    ASSUME WindowsInv, NEW v \in Verifiers, NEW cap \in Caps, NEW ctx \in Contexts,
           NEW challenge \in Challenges, NEW proof \in Proofs,
           DecideWithProof(v, cap, ctx, challenge, proof), TypeOK', config[v].store # NoStore,
           windows' = {w \in windows : EntryOf(w.nonce)' # Absent} \cup Opened(call')
    PROVE  /\ WindowsInv'
           /\ RW!Fresh(RequestOf(call'))
           /\ windows' = windows \cup {RW!WindowOf(RequestOf(call'))}
<1> DEFINE s == config[v].store
           expiry == Expiry(ctx.now, config[v].ttl)
           new == RW!WindowOf(RequestOf(call'))
<1>1. PICK outcome \in Policy(v, cap, ctx) : Answer(v, cap, ctx, challenge, proof, outcome)
  BY DEF DecideWithProof
<1>2. /\ call'.by = v /\ call'.cap = cap /\ call'.ctx = ctx /\ call'.challenge = challenge
      /\ call'.proof = proof /\ call'.outcome = outcome /\ config' = config
  BY <1>1, AnswerFields
<1>3. outcome \in {"revoked", "caveat", "allowed"}
  BY <1>1, PolicyOutcomes
<1>4. call' # NoCall
  <2>1. call' = [by |-> v, cap |-> cap, ctx |-> ctx, challenge |-> challenge,
                 proof |-> proof, outcome |-> outcome]
    BY <1>1 DEF Answer
  <2>2. call' \in Answers
    BY <2>1, <1>3 DEF Answers, Outcomes
  <2> QED BY <2>2, NoCallAssumption
<1>5. Asks(call')
  BY <1>2, <1>4, NoValues DEF Asks
<1>6. Opened(call') = {new}
  BY <1>2, <1>3, <1>5 DEF Opened, Passed
<1>7. /\ new.nonce = <<s, proof>> /\ new.at = ctx.now /\ new.until = expiry
      /\ new \in RW!Windows /\ new.until >= new.at
      /\ RequestOf(call').nonce = new.nonce /\ RequestOf(call').now = ctx.now
  <2>1. TypeOK
    BY DEF WindowsInv
  <2> QED BY <1>2, <2>1, RequestIs
<1>8. /\ s \in Stores /\ config[v].ttl \in Times /\ ctx.now \in Times /\ expiry \in Times
      /\ seen \in [Stores -> [Proofs -> Times \cup {Absent}]]
  <2>1. s \in Stores /\ config[v].ttl \in Times /\ ctx.now \in Times
    BY TtlsInRange DEF WindowsInv, TypeOK, Contexts
  <2> QED BY <2>1, ExpiryBounds DEF WindowsInv, TypeOK
<1>9. ~(seen[s][proof] > ctx.now)
  BY DEF DecideWithProof, Replayed
<1>10. RW!Fresh(RequestOf(call'))
  BY <1>7, <1>8, <1>9, FreshIsExpired DEF WindowsInv
<1>11. seen' = [seen EXCEPT ![s][proof] = expiry]
  BY DEF DecideWithProof, Record
<1> HIDE DEF new, expiry
<1>12. ASSUME NEW w \in windows
       PROVE  /\ w.nonce[1] \in Stores /\ w.nonce[2] \in Proofs
              /\ w.nonce = <<w.nonce[1], w.nonce[2]>>
              /\ w.until \in Times /\ w.at \in Times
              /\ w.until <= EntryOf(w.nonce)
  BY DEF WindowsInv, EntriesAreEnds, RW!Windows, RW!Times, Times
\* A window of this proof in this store has ended, and the new one ends no earlier.
<1>13. ASSUME NEW w \in windows, w.nonce = <<s, proof>>
       PROVE  w.until <= ctx.now /\ w.until <= expiry
  <2>1. w.until <= seen[s][proof]
    BY <1>12, <1>13 DEF EntryOf
  <2>2. seen[s][proof] \in Times \cup {Absent} /\ w.until \in Times
    BY <1>8, <1>12
  <2>3. expiry >= ctx.now
    BY <1>7
  <2> QED BY <2>1, <2>2, <2>3, <1>8, <1>9, MaxTimeInNat DEF Times, Absent
<1>14. seen'[s][proof] = expiry
  BY <1>8, <1>11
<1>15. ASSUME NEW r \in Stores, NEW p \in Proofs, ~(r = s /\ p = proof)
       PROVE  seen'[r][p] = seen[r][p]
  BY <1>8, <1>11, <1>15
<1>16. ASSUME NEW w \in windows PROVE w.until <= EntryOf(w.nonce)'
  <2>1. CASE w.nonce = <<s, proof>>
    BY <2>1, <1>13, <1>14 DEF EntryOf
  <2>2. CASE w.nonce # <<s, proof>>
    BY <2>2, <1>12, <1>15 DEF EntryOf
  <2> QED BY <2>1, <2>2
<1>17. ASSUME NEW w \in windows PROVE EntryOf(w.nonce)' # Absent
  <2>1. w.until \in Times /\ w.until <= EntryOf(w.nonce)'
    BY <1>12, <1>16
  <2> QED BY <2>1, MaxTimeInNat DEF Times, Absent
<1>18. windows' = windows \cup {new}
  BY <1>6, <1>17
<1>19. EntriesAreEnds'
  <2>1. windows' \subseteq RW!Windows
    BY <1>7, <1>18 DEF WindowsInv, EntriesAreEnds
  <2>2. ASSUME NEW w \in windows' PROVE w.until <= EntryOf(w.nonce)'
    <3>1. CASE w \in windows
      BY <3>1, <1>16
    <3>2. CASE w = new
      <4>1. EntryOf(w.nonce)' = expiry /\ w.until = expiry
        BY <3>2, <1>7, <1>14 DEF EntryOf
      <4> QED BY <4>1, <1>8, MaxTimeInNat DEF Times, expiry
    <3> QED BY <3>1, <3>2, <1>18
  <2>3. ASSUME NEW r \in Stores, NEW p \in Proofs, seen'[r][p] # Absent
        PROVE  \E w \in windows' : w.nonce = <<r, p>> /\ w.until = seen'[r][p]
    <3>1. CASE r = s /\ p = proof
      BY <3>1, <1>7, <1>14, <1>18
    <3>2. CASE ~(r = s /\ p = proof)
      <4>1. PICK w \in windows : w.nonce = <<r, p>> /\ w.until = seen[r][p]
        BY <2>3, <3>2, <1>15 DEF WindowsInv, EntriesAreEnds
      <4> QED BY <4>1, <3>2, <1>15, <1>18
    <3> QED BY <3>1, <3>2
  <2> QED BY <2>1, <2>2, <2>3 DEF EntriesAreEnds, RW!Windows, RW!Times
<1>20. AcceptancesAreDisjoint'
  <2> SUFFICES ASSUME NEW g \in windows', NEW h \in windows', g.nonce = h.nonce, g # h
               PROVE  g.until <= h.at \/ h.until <= g.at
    BY DEF AcceptancesAreDisjoint
  <2>1. CASE g \in windows /\ h \in windows
    BY <2>1 DEF WindowsInv, AcceptancesAreDisjoint
  <2>2. CASE g \in windows /\ h = new
    BY <2>2, <1>7, <1>13
  <2>3. CASE g = new /\ h \in windows
    BY <2>3, <1>7, <1>13
  <2> QED BY <2>1, <2>2, <2>3, <1>18
<1> QED BY <1>10, <1>18, <1>19, <1>20 DEF WindowsInv, new

LEMMA ReplayStepKeeps ==
    ASSUME WindowsInv, NEW v \in Verifiers, NEW cap, NEW ctx \in Contexts,
           NEW challenge, NEW proof \in Proofs,
           RefuseReplay(v, cap, ctx, challenge, proof), TypeOK',
           windows' = {w \in windows : EntryOf(w.nonce)' # Absent} \cup Opened(call')
    PROVE  /\ WindowsInv' /\ windows' = windows
           /\ call'.outcome = "replay"
           /\ ~RW!Fresh(RequestOf(call'))
<1>1. /\ Answer(v, cap, ctx, challenge, proof, "replay")
      /\ seen' = seen /\ config[v].store # NoStore /\ seen[config[v].store][proof] > ctx.now
  BY DEF RefuseReplay, Replayed
<1>2. call'.by = v /\ call'.ctx = ctx /\ call'.proof = proof /\ call'.outcome = "replay"
  BY <1>1, AnswerFields
<1>3. windows' = windows /\ WindowsInv'
  BY <1>1, UnstoredStepKeeps
<1>4. config[v].store \in Stores /\ ctx.now \in Times
  BY <1>1 DEF WindowsInv, TypeOK, Contexts
<1>5. RequestOf(call').nonce = <<config[v].store, proof>> /\ RequestOf(call').now = ctx.now
  BY <1>2 DEF RequestOf
<1>6. ~RW!Fresh(RequestOf(call'))
  BY <1>1, <1>4, <1>5, FreshIsExpired DEF WindowsInv
<1> QED BY <1>2, <1>3, <1>6

\* Every step keeps the invariant, and answers as the abstract store would.
LEMMA WindowsStep ==
    ASSUME WindowsInv, TypeOK', [WindowsNext]_<<vars, windows>>
    PROVE  WindowsInv' /\ AnswersAsReplayWindow
<1> USE DEF WindowsNext
<1>1. CASE UNCHANGED <<vars, windows>>
  <2>1. seen' = seen /\ windows' = windows /\ call' = call
    BY <1>1 DEF vars
  <2>2. WindowsInv'
    BY <2>1 DEF WindowsInv, EntriesAreEnds, AcceptancesAreDisjoint, EntryOf, RW!Windows, RW!Times
  <2> QED BY <2>1, <2>2 DEF AnswersAsReplayWindow
<1>2. ASSUME WindowsNext, call' = NoCall, seen' = seen
      PROVE  WindowsInv' /\ AnswersAsReplayWindow
  <2>1. ~Asks(call')
    BY <1>2 DEF Asks
  <2>2. Opened(call') = {}
    BY <2>1 DEF Opened
  <2>3. WindowsInv'
    BY <1>2, <2>2, QuietStepKeeps
  <2> QED BY <2>1, <2>3 DEF AnswersAsReplayWindow
<1>3. ASSUME WindowsNext, call = NoCall, NEW s \in Stores, ClearStore(s)
      PROVE  WindowsInv' /\ AnswersAsReplayWindow
  <2>1. call' = call /\ ~Asks(call')
    BY <1>3 DEF Asks, ClearStore
  <2>2. Opened(call') = {}
    BY <2>1 DEF Opened
  <2>3. WindowsInv'
    BY <1>3, <2>2, ClearStepKeeps
  <2> QED BY <2>1, <2>3 DEF AnswersAsReplayWindow
<1>4. ASSUME WindowsNext, NEW v \in Verifiers, NEW cap \in Caps, NEW ctx \in Contexts,
             VerifyWithContext(v, cap, ctx)
      PROVE  WindowsInv' /\ AnswersAsReplayWindow
  <2>1. PICK outcome : Answer(v, cap, ctx, NoProof, NoProof, outcome)
    BY <1>4 DEF VerifyWithContext
  <2>2. seen' = seen
    BY <1>4 DEF VerifyWithContext
  <2>3. WindowsInv'
    BY <1>4, <2>1, <2>2, UnstoredStepKeeps
  <2>4. ~Asks(call')
    BY <2>1, AnswerFields DEF Asks
  <2> QED BY <2>3, <2>4 DEF AnswersAsReplayWindow
<1>5. ASSUME WindowsNext, NEW v \in Verifiers, NEW cap \in Caps, NEW ctx \in Contexts,
             NEW challenge \in {PopChallengeFor(cap, ctx)} \cup ServerChallenges,
             NEW proof \in Proofs, VerifyWithProof(v, cap, ctx, challenge, proof)
      PROVE  WindowsInv' /\ AnswersAsReplayWindow
  <2>1. challenge \in Challenges
    BY DEF Challenges
  <2>2. ASSUME RefuseProof(v, cap, ctx, challenge, proof)
        PROVE  WindowsInv' /\ AnswersAsReplayWindow
    <3>1. PICK outcome \in {"chain", "entry point", "bad proof"} :
             Answer(v, cap, ctx, challenge, proof, outcome)
      BY <2>2 DEF RefuseProof
    <3>2. seen' = seen
      BY <2>2 DEF RefuseProof
    <3>3. WindowsInv'
      BY <1>5, <3>1, <3>2, UnstoredStepKeeps
    <3>4. ~Passed(call') /\ call'.outcome # "replay"
      BY <3>1, AnswerFields DEF Passed
    <3> QED BY <3>3, <3>4 DEF AnswersAsReplayWindow
  <2>3. ASSUME RefuseReplay(v, cap, ctx, challenge, proof)
        PROVE  WindowsInv' /\ AnswersAsReplayWindow
    <3>1. /\ WindowsInv' /\ windows' = windows /\ call'.outcome = "replay"
          /\ ~RW!Fresh(RequestOf(call'))
      BY <1>5, <2>3, ReplayStepKeeps
    <3>2. ~Passed(call')
      BY <3>1 DEF Passed
    <3> QED BY <3>1, <3>2 DEF AnswersAsReplayWindow
  <2>4. ASSUME DecideWithProof(v, cap, ctx, challenge, proof)
        PROVE  WindowsInv' /\ AnswersAsReplayWindow
    <3>1. PICK outcome \in Policy(v, cap, ctx) : Answer(v, cap, ctx, challenge, proof, outcome)
      BY <2>4 DEF DecideWithProof
    <3>2. call'.by = v /\ call'.outcome # "replay" /\ config' = config
      BY <3>1, AnswerFields, PolicyOutcomes
    <3>3. CASE config[v].store # NoStore
      <4>1. /\ WindowsInv' /\ RW!Fresh(RequestOf(call'))
            /\ windows' = windows \cup {RW!WindowOf(RequestOf(call'))}
        BY <1>5, <2>1, <2>4, <3>3, DecideStepKeeps
      <4> QED BY <4>1, <3>2 DEF AnswersAsReplayWindow
    <3>4. CASE config[v].store = NoStore
      <4>1. seen' = seen
        BY <2>4, <3>4 DEF DecideWithProof, Record
      <4>2. WindowsInv'
        BY <1>5, <3>1, <3>4, <4>1, UnstoredStepKeeps
      <4>3. ~Asks(call')
        BY <3>2, <3>4 DEF Asks
      <4> QED BY <4>2, <4>3 DEF AnswersAsReplayWindow
    <3> QED BY <3>3, <3>4
  <2> QED BY <1>5, <2>2, <2>3, <2>4 DEF VerifyWithProof
<1>6. ASSUME WindowsNext, call = NoCall, NEW v \in Verifiers,
             \/ \E s \in Stores : WithNonceStore(v, s)
             \/ \E ttl \in Ttls : WithNonceTtl(v, ttl)
             \/ WithoutNonceStore(v)
             \/ \E list \in Lists :
                  WithRevocationList(v, list) \/ RefuseRevocationList(v, list)
             \/ WithoutRevocationList(v)
      PROVE  WindowsInv' /\ AnswersAsReplayWindow
  <2>1. call' = NoCall /\ seen' = seen
    BY <1>6 DEF WithNonceStore, WithNonceTtl, WithoutNonceStore, Reconfigure,
       WithRevocationList, RefuseRevocationList, WithoutRevocationList
  <2> QED BY <1>6, <2>1, <1>2
<1>7. CASE WindowsNext /\ Return
  BY <1>2, <1>7 DEF Return
<1>8. CASE WindowsNext
  BY <1>3, <1>4, <1>5, <1>6, <1>7, <1>8 DEF Next
<1> QED BY <1>1, <1>8

\* The pipeline uses its store as the abstract one is meant: for any verifiers that
\* share it, lifetimes and clocks, a call passes the replay leg exactly when
\* ReplayWindow grants its request, which NonceStore implements (try_record); so what
\* one accepts of a proof, of a challenge of either kind, no other accepts within the
\* time to live.
THEOREM AnswersGrantAsReplayWindow ==
    WindowsSpec => []AcceptancesAreDisjoint /\ [][AnswersAsReplayWindow]_<<vars, windows>>
<1>1. WindowsInit => WindowsInv
  <2>1. Init => TypeOK
    BY InitIInv DEF IInv
  <2> QED BY <2>1 DEF WindowsInit, Init, WindowsInv, EntriesAreEnds, AcceptancesAreDisjoint
<1>2. WindowsSpec => Spec
  <2>1. WindowsInit => Init
    BY DEF WindowsInit
  <2>2. [WindowsNext]_<<vars, windows>> => [Next]_vars
    BY DEF WindowsNext
  <2> QED BY <2>1, <2>2, PTL DEF WindowsSpec, Spec
<1>3. WindowsInv => AcceptancesAreDisjoint
  BY DEF WindowsInv
<1>4. WindowsInv /\ TypeOK' /\ [WindowsNext]_<<vars, windows>> => WindowsInv' /\ AnswersAsReplayWindow
  BY WindowsStep
<1> QED BY <1>1, <1>2, <1>3, <1>4, TypeCorrect, PTL DEF WindowsSpec
=============================================================================
