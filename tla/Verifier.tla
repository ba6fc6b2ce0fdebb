------------------------------ MODULE Verifier ------------------------------
(***************************************************************************)
(* The verification pipeline (crates/capnagent-core/src/verifier.rs): the  *)
(* verifiers of one process, their configuration, the nonce stores they    *)
(* may share, and the two entry points verify_with_context and             *)
(* verify_with_proof.  A call borrows the verifier, whose configuration    *)
(* cannot change under it, and meets other calls only in try_record, which *)
(* NonceStore shows to be one indivisible decision; a call is one step.    *)
(***************************************************************************)
EXTENDS MacaroonChain, RevocationList

CONSTANTS
    Verifiers,
    RootKey,           \* [Verifiers -> Roots]: the key given to Verifier::new
    Stores,            \* the nonce stores of the process
    NoStore, NoList,   \* nonce_store: None, revocation_list: None
    Ttls, DefaultTtl,  \* nonce_ttl_ms and DEFAULT_NONCE_TTL_MS
    MaxTime,           \* u64::MAX, in milliseconds
    Inputs,            \* what a Context says besides the time: the request
                       \* (tool and args) and the rest (caller and env)
    Caps,              \* the capabilities presented, forged ones included
    Lists,             \* the revocation lists offered, forged ones included
    ServerChallenges,  \* challenges a caller of verify_with_proof makes itself
    Proofs,            \* the signatures presented: the key and what it signed
    NoProof,
    NoCall,
    Holds(_, _)        \* parse and evaluate a predicate in a context:
                       \* "true", "false" or "error"

Times == 0..MaxTime
Contexts == [now : Times, input : Inputs]

ASSUME TtlsInRange == Ttls \subseteq Times /\ DefaultTtl \in Ttls
ASSUME MaxTimeInNat == MaxTime \in Nat
ASSUME NoValues == /\ NoStore \notin Stores
                   /\ NoList \notin Lists
                   /\ NoProof \notin Proofs
ASSUME RootKeyType == RootKey \in [Verifiers -> Roots]

VARIABLES
    config,   \* each verifier's nonce_store, nonce_ttl_ms and revocation_list
    seen,     \* each store's expiry per proof, Absent when it holds none
    cleared,  \* history: how often (up to 2) each proof of a challenge made by
              \* pop_challenge_for passed each store for a time to live
    call      \* the call that is returning: its arguments and its outcome

vars == <<config, seen, cleared, call>>

Absent == -1

\* Verifier::new
NewConfig == [store |-> NoStore, ttl |-> DefaultTtl, list |-> NoList]

Init ==
    /\ config = [v \in Verifiers |-> NewConfig]
    /\ seen = [s \in Stores |-> [p \in Proofs |-> Absent]]
    /\ cleared = [s \in Stores |-> [p \in Proofs |-> 0]]
    /\ call = NoCall

-----------------------------------------------------------------------------
\* Configuration: every with_* takes the verifier by value and gives it back.
Reconfigure(v, c) ==
    /\ config' = [config EXCEPT ![v] = c]
    /\ UNCHANGED <<seen, cleared, call>>

WithNonceStore(v, s) == Reconfigure(v, [config[v] EXCEPT !.store = s])

WithNonceTtl(v, ttl) == Reconfigure(v, [config[v] EXCEPT !.ttl = ttl])

WithoutNonceStore(v) == Reconfigure(v, [config[v] EXCEPT !.store = NoStore])

\* Mutant: the list is installed unverified.
WithRevocationList_Unverified(v, list) ==
    Reconfigure(v, [config[v] EXCEPT !.list = list])

\* The list is verified once, here.
WithRevocationList(v, list) ==
    /\ VerifySignature(RootKey[v], list)
    /\ Reconfigure(v, [config[v] EXCEPT !.list = list])

\* with_revocation_list has consumed the verifier when it refuses the list; the
\* next one under this name is a Verifier::new, store and all to be set again.
RefuseRevocationList(v, list) ==
    /\ ~VerifySignature(RootKey[v], list)
    /\ Reconfigure(v, NewConfig)

WithoutRevocationList(v) == Reconfigure(v, [config[v] EXCEPT !.list = NoList])

\* InMemoryNonceStore::clear, or another store in its place.
ClearStore(s) ==
    /\ seen' = [seen EXCEPT ![s] = [p \in Proofs |-> Absent]]
    /\ cleared' = [cleared EXCEPT ![s] = [p \in Proofs |-> 0]]
    /\ UNCHANGED <<config, call>>

-----------------------------------------------------------------------------
\* The legs of the pipeline.

\* Mutant: the time is left out of the challenge.
PopChallengeFor_Timeless(cap, ctx) ==
    [id |-> cap.identifier, request |-> ctx.input.request]

\* pop_challenge_for: a hash of the identifier, the tool, the arguments and the
\* time, so neither the caller nor the environment is signed.
PopChallengeFor(cap, ctx) ==
    [id |-> cap.identifier, request |-> ctx.input.request, now_ms |-> ctx.now]

\* check_proof: the holder's key made this signature of this challenge.
CheckProof(cap, challenge, proof) == proof = [key |-> cap.holder_of_key,
                                              challenge |-> challenge]

\* now_ms.saturating_add(ttl_ms)
Expiry(now, ttl) == IF now + ttl > MaxTime THEN MaxTime ELSE now + ttl

\* try_record refuses: an entry has not expired at the time of the context.
Replayed(v, ctx, proof) ==
    config[v].store # NoStore /\ seen[config[v].store][proof] > ctx.now

\* Mutant: the last caveat decides.
CaveatsHold_LastOnly(caveats, ctx) ==
    caveats # <<>> => Holds(Last(caveats), ctx) = "true"

\* evaluate_all: the first caveat that does not parse, does not evaluate or is
\* false refuses.
CaveatsHold(caveats, ctx) ==
    \A i \in DOMAIN caveats : Holds(caveats[i], ctx) = "true"

\* check_revocation, as the set of answers it may give.
Revoked(v, cap) ==
    LET list == config[v].list
    IN IF list = NoList THEN {FALSE} ELSE BinarySearch(list, cap.identifier)

\* Revocation, then caveats: the outcomes the last two legs may give.
Policy(v, cap, ctx) ==
    {IF revoked THEN "revoked"
     ELSE IF CaveatsHold(cap.caveats, ctx) THEN "allowed" ELSE "caveat" :
         revoked \in Revoked(v, cap)}

\* The call returns `outcome`: no receipt for "chain", otherwise a receipt.
Answer(v, cap, ctx, challenge, proof, outcome) ==
    /\ call' = [by |-> v, cap |-> cap, ctx |-> ctx, challenge |-> challenge,
                proof |-> proof, outcome |-> outcome]
    /\ UNCHANGED config

-----------------------------------------------------------------------------
\* Mutant: a bound capability is decided without a proof.
VerifyWithContext_Unproven(v, cap, ctx) ==
    /\ \E outcome \in IF ~Verifies(RootKey[v], cap) THEN {"chain"}
                      ELSE Policy(v, cap, ctx) :
           Answer(v, cap, ctx, NoProof, NoProof, outcome)
    /\ UNCHANGED <<seen, cleared>>

\* Verifier::verify_with_context
VerifyWithContext(v, cap, ctx) ==
    /\ \E outcome \in IF ~Verifies(RootKey[v], cap) THEN {"chain"}
                      ELSE IF cap.holder_of_key # NoKey THEN {"entry point"}
                      ELSE Policy(v, cap, ctx) :
           Answer(v, cap, ctx, NoProof, NoProof, outcome)
    /\ UNCHANGED <<seen, cleared>>

\* verify_with_proof up to check_proof: nothing is recorded.
RefuseProof(v, cap, ctx, challenge, proof) ==
    /\ \/ /\ ~Verifies(RootKey[v], cap)
          /\ Answer(v, cap, ctx, challenge, proof, "chain")
       \/ /\ Verifies(RootKey[v], cap)
          /\ cap.holder_of_key = NoKey
          /\ Answer(v, cap, ctx, challenge, proof, "entry point")
       \/ /\ Verifies(RootKey[v], cap)
          /\ cap.holder_of_key # NoKey
          /\ ~CheckProof(cap, challenge, proof)
          /\ Answer(v, cap, ctx, challenge, proof, "bad proof")
    /\ UNCHANGED <<seen, cleared>>

\* The proof is good, and the store has it already.
RefuseReplay(v, cap, ctx, challenge, proof) ==
    /\ Verifies(RootKey[v], cap)
    /\ cap.holder_of_key # NoKey
    /\ CheckProof(cap, challenge, proof)
    /\ Replayed(v, ctx, proof)
    /\ Answer(v, cap, ctx, challenge, proof, "replay")
    /\ UNCHANGED <<seen, cleared>>

\* The store, when there is one, records the proof.
Record(v, cap, ctx, challenge, proof) ==
    LET s == config[v].store
        counts == challenge = PopChallengeFor(cap, ctx) /\ config[v].ttl > 0
                  /\ ctx.now < MaxTime /\ cleared[s][proof] < 2
    IN IF s = NoStore THEN UNCHANGED <<seen, cleared>>
       ELSE /\ seen' = [seen EXCEPT ![s][proof] = Expiry(ctx.now, config[v].ttl)]
            /\ cleared' = IF counts THEN [cleared EXCEPT ![s][proof] = @ + 1]
                          ELSE cleared

\* Mutant: the proof is recorded before it is checked.
DecideWithProof_RecordsFirst(v, cap, ctx, challenge, proof) ==
    /\ Verifies(RootKey[v], cap)
    /\ ~Replayed(v, ctx, proof)
    /\ Record(v, cap, ctx, challenge, proof)
    /\ \E outcome \in IF cap.holder_of_key = NoKey THEN {"entry point"}
                      ELSE IF ~CheckProof(cap, challenge, proof)
                      THEN {"bad proof"} ELSE Policy(v, cap, ctx) :
           Answer(v, cap, ctx, challenge, proof, outcome)

\* The proof is good and new: it is recorded, and only then are revocation and
\* the caveats looked at, so a refusal by these uses the proof up too.
DecideWithProof(v, cap, ctx, challenge, proof) ==
    /\ Verifies(RootKey[v], cap)
    /\ cap.holder_of_key # NoKey
    /\ CheckProof(cap, challenge, proof)
    /\ ~Replayed(v, ctx, proof)
    /\ Record(v, cap, ctx, challenge, proof)
    /\ \E outcome \in Policy(v, cap, ctx) :
           Answer(v, cap, ctx, challenge, proof, outcome)

\* Verifier::verify_with_proof
VerifyWithProof(v, cap, ctx, challenge, proof) ==
    \/ RefuseProof(v, cap, ctx, challenge, proof)
    \/ RefuseReplay(v, cap, ctx, challenge, proof)
    \/ DecideWithProof(v, cap, ctx, challenge, proof)

\* The caller takes the receipt or the error.
Return ==
    /\ call # NoCall
    /\ call' = NoCall
    /\ UNCHANGED <<config, seen, cleared>>

Next ==
    \/ /\ call = NoCall
       /\ \E v \in Verifiers :
            \/ \E s \in Stores : WithNonceStore(v, s)
            \/ \E ttl \in Ttls : WithNonceTtl(v, ttl)
            \/ WithoutNonceStore(v)
            \/ \E list \in Lists :
                 WithRevocationList(v, list) \/ RefuseRevocationList(v, list)
            \/ WithoutRevocationList(v)
            \/ \E cap \in Caps, ctx \in Contexts :
                 \/ VerifyWithContext(v, cap, ctx)
                 \/ \E challenge \in {PopChallengeFor(cap, ctx)} \cup ServerChallenges,
                       proof \in Proofs :
                      VerifyWithProof(v, cap, ctx, challenge, proof)
    \/ /\ call = NoCall
       /\ \E s \in Stores : ClearStore(s)
    \/ Return

Spec == Init /\ [][Next]_vars

-----------------------------------------------------------------------------
Outcomes == {"chain", "entry point", "bad proof", "replay", "revoked", "caveat",
             "allowed"}

\* What a call may answer, which having no call is not.
Challenges == {PopChallengeFor(cap, ctx) : cap \in Caps, ctx \in Contexts}
              \cup ServerChallenges \cup {NoProof}
Answers == [by : Verifiers, cap : Caps, ctx : Contexts, challenge : Challenges,
            proof : Proofs \cup {NoProof}, outcome : Outcomes]

ASSUME NoCallAssumption == NoCall \notin Answers

\* The variables hold what the Rust types allow; no expiry exceeds u64::MAX.
TypeOK ==
    /\ config \in [Verifiers -> [store : Stores \cup {NoStore}, ttl : Ttls,
                                 list : Lists \cup {NoList}]]
    /\ seen \in [Stores -> [Proofs -> Times \cup {Absent}]]
    /\ cleared \in [Stores -> [Proofs -> 0..2]]
    /\ call # NoCall => /\ call.by \in Verifiers
                        /\ call.cap \in Caps
                        /\ call.ctx \in Contexts
                        /\ call.proof \in Proofs \cup {NoProof}
                        /\ call.outcome \in Outcomes

\* A proof over the default challenge passes the replay leg at most once in the
\* life of a store, not only within the time to live: whatever lifetimes the
\* verifiers sharing the store have, whatever else they use the proof for, and
\* however their clocks differ.
ProofClearsOnce == \A s \in Stores, p \in Proofs : cleared[s][p] <= 1

\* A store remembers only proofs made by the holder of a capability some root
\* key issued: presenting anything else neither fills it nor uses a proof up.
StoreHoldsOnlyProven ==
    \A s \in Stores, p \in Proofs :
        seen[s][p] # Absent =>
            \E cap \in Caps, v \in Verifiers :
                Verifies(RootKey[v], cap) /\ cap.holder_of_key = p.key

\* Nothing is decided, or told, about the replay, revocation or caveats of a
\* capability that the verifier's key did not issue as it stands, nor of a
\* bound one unless its holder signed the challenge of this very call; and a
\* bearer capability is never taken as proven.
ProofGatesDecision ==
    call # NoCall /\ call.outcome \in {"replay", "revoked", "caveat", "allowed"} =>
        /\ Verifies(RootKey[call.by], call.cap)
        /\ call.cap.holder_of_key = NoKey <=> call.proof = NoProof
        /\ call.proof # NoProof => /\ call.proof.key = call.cap.holder_of_key
                                   /\ call.proof.challenge = call.challenge

\* What one intact capability may do, the capability it was attenuated from may
\* do in the same context: no caveat added ever opens what was closed, and none
\* added later can make up for one that fails.
AttenuationNarrows ==
    call # NoCall /\ call.outcome = "allowed" =>
        \A parent \in Caps :
            /\ Verifies(RootKey[call.by], parent)
            /\ parent.identifier = call.cap.identifier
            /\ IsPrefix(parent.caveats, call.cap.caveats)
            => "allowed" \in Policy(call.by, parent, call.ctx)

\* No verifier allows a capability whose identifier is on the list installed in
\* it, and every list installed is one its own root key signed as it was
\* published; lists that came out of order are the subject of Revocation.
RevokedIsRefused ==
    /\ \A v \in Verifiers :
           LET list == config[v].list
           IN list # NoList =>
                  list.signature = [key |-> RootKey[v],
                                    bytes |-> CanonicalBytes(list.issued_at_ms,
                                                             list.revoked)]
    /\ call # NoCall /\ call.outcome = "allowed" =>
           LET list == config[call.by].list
           IN list # NoList /\ InOrder(list.revoked) =>
                  call.cap.identifier \notin ToSet(list.revoked)
=============================================================================
