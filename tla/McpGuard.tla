------------------------------ MODULE McpGuard ------------------------------
(***************************************************************************)
(* guardCall and wrapMCPClient (packages/capnagent-mcp/src/guard.ts and    *)
(* wrap.ts): tool calls mediated by one WrapOptions, running concurrently  *)
(* on the event loop.  A call is its run between two awaits per step: the  *)
(* ContextProvider, the signer, onReceipt and the tool are the program's   *)
(* callbacks, and anything may happen to the verifier and to the           *)
(* capability's wasm handle while a call awaits one.  The pipeline of the  *)
(* verifier is reduced to what the concurrency can change.  Its nonce      *)
(* store is optional: there may be none, or one that is put in, emptied or *)
(* given another lifetime while calls are under way.                       *)
(***************************************************************************)
EXTENDS Integers, FiniteSets

CONSTANTS Calls,
          MaxTime,     \* bound on the clock and on the times of the contexts
          Ttls,        \* the lifetimes of a proof a program sets
          NoReceipt

ASSUME MaxTimeInNat == MaxTime \in Nat
ASSUME TtlsInNat == Ttls \subseteq Nat

Outcomes == {"bad proof", "replay", "revoked", "caveat", "allowed"}

ASSUME NoReceiptAssumption == NoReceipt \notin Outcomes

VARIABLES
    options,   \* of the wrapper: is the capability bound, intact, and is there
               \* a signer; never changed
    pc,        \* what each call awaits, or how it settled
    signed,    \* the time in the challenge of each call's proof, or Unsigned
    timed,     \* the call's context carries that time, as its own nowMs
    receipt,   \* the outcome on the receipt of each call, or NoReceipt
    handled,   \* onReceipt of the call has settled
    ran,       \* how often the call invoked the tool
    proven,    \* history: the call's proof was good and, to the store, new
    entry,     \* history: when the call's proof was recorded and until when it
               \* was to be remembered, NoEntry once the store has lost it
    seen,      \* the nonce store: by the time in the challenge, the expiry of
               \* the proof, 0 of one that is not there
    store,     \* the verifier has a nonce store
    ttl,       \* its lifetime of a proof
    revoked,   \* the verifier's list names the capability
    freed,     \* the capability's handle was consumed by attenuate or dispose
    clock

challenge == <<signed, timed>>
proofs == <<proven, entry, seen>>
state == <<receipt, handled, ran, proofs>>
verifier == <<store, ttl, revoked>>
world == <<options, verifier, freed, clock>>
vars == <<pc, challenge, state, world>>

Times == 0..MaxTime
Unsigned == -1
Settled == {"returned", "denied", "thrown"}
NoEntry == [at |-> 0, until |-> 0]

Init ==
    /\ options \in [bound : BOOLEAN, intact : BOOLEAN, signer : BOOLEAN]
    /\ pc = [c \in Calls |-> "idle"]
    /\ signed = [c \in Calls |-> Unsigned]
    /\ timed = [c \in Calls |-> FALSE]
    /\ receipt = [c \in Calls |-> NoReceipt]
    /\ handled = [c \in Calls |-> FALSE]
    /\ ran = [c \in Calls |-> 0]
    /\ proven = [c \in Calls |-> FALSE]
    /\ entry = [c \in Calls |-> NoEntry]
    /\ seen = [t \in Times |-> 0]
    /\ store \in BOOLEAN
    /\ ttl \in Ttls
    /\ revoked = FALSE
    /\ freed = FALSE
    /\ clock = 0

Goto(c, place) == pc' = [pc EXCEPT ![c] = place]

\* The call rejects, or its synchronous part throws.
Throw(c) == Goto(c, "thrown") /\ UNCHANGED state

\* __assertSignerIfHok
SignerMissing == options.bound /\ ~options.signer

-----------------------------------------------------------------------------
\* guardCall checks the options at every call, wrapMCPClient once and never
\* returns a client whose options fail; then __decide asks for the context.
GuardCall(c) ==
    /\ pc[c] = "idle"
    /\ IF freed \/ SignerMissing THEN Throw(c)
       ELSE Goto(c, "context") /\ UNCHANGED state
    /\ UNCHANGED <<challenge, world>>

CallTool(c) ==
    /\ pc[c] = "idle"
    /\ ~SignerMissing
    /\ Goto(c, "context")
    /\ UNCHANGED <<challenge, state, world>>

\* The receipt is signed; __decide hands it to onReceipt.
Sign(c, outcome) ==
    /\ receipt' = [receipt EXCEPT ![c] = outcome]
    /\ Goto(c, "reporting")
    /\ UNCHANGED <<handled, ran>>

\* The last legs of either entry point; the caveats may read the clock, so
\* whether they hold is open until now.
Policy == IF revoked THEN {"revoked"} ELSE {"allowed", "caveat"}

\* verifyWithContext, in the same run as the end of the await of the context:
\* a chain error throws, anything else is on the receipt.
VerifyWithContext(c) ==
    \/ ~options.intact /\ Throw(c)
    \/ /\ options.intact
       /\ \E outcome \in Policy : Sign(c, outcome)
       /\ UNCHANGED proofs

\* popChallengeFor puts a time into the challenge for the signer to sign: the
\* context's own nowMs or, when that is left out, Date.now().
Challenge(c) ==
    /\ \E t \in Times, own \in BOOLEAN :
          /\ own \/ t = clock
          /\ signed' = [signed EXCEPT ![c] = t]
          /\ timed' = [timed EXCEPT ![c] = own]
    /\ Goto(c, "signing")
    /\ UNCHANGED state

\* Mutant: the capability was looked at when the call began.
ContextSettles_HandleKept(c) ==
    /\ pc[c] = "context"
    /\ \/ options.bound /\ Challenge(c)
       \/ ~options.bound /\ VerifyWithContext(c) /\ UNCHANGED challenge
    /\ UNCHANGED world

\* The ContextProvider settles.  Using the capability throws once its handle is
\* gone; of a bound one, the challenge goes to the signer.
ContextSettles(c) ==
    /\ pc[c] = "context"
    /\ \/ freed /\ Throw(c) /\ UNCHANGED challenge
       \/ ~freed /\ options.bound /\ Challenge(c)
       \/ ~freed /\ ~options.bound /\ VerifyWithContext(c) /\ UNCHANGED challenge
    /\ UNCHANGED world

\* The time verifyWithProof gives the nonce store: the context's own or, when it
\* has none, Date.now(), read again after the await of the signer.
NowOf(c) == IF timed[c] THEN signed[c] ELSE clock

Replayed(c) == store /\ seen[signed[c]] > NowOf(c)

\* Mutant: the nonce store is asked but nothing is recorded.
Record_Unrecorded(c) ==
    /\ entry' = IF store THEN [entry EXCEPT ![c] = [at |-> NowOf(c), until |-> NowOf(c) + ttl]]
                ELSE entry
    /\ UNCHANGED seen

\* try_record of a proof that is not there, or there no longer; without a store
\* nothing is recorded.
Record(c) ==
    IF store
    THEN LET expiry == NowOf(c) + ttl
         IN  /\ seen' = [seen EXCEPT ![signed[c]] = expiry]
             /\ entry' = [entry EXCEPT ![c] = [at |-> NowOf(c), until |-> expiry]]
    ELSE UNCHANGED <<seen, entry>>

\* verifyWithProof of a proof that is wrong, already used, or good.  The calls
\* make the same request, so their challenges differ in the time only, and an
\* ed25519 signature is determined by the challenge.
VerifyWithProof(c) ==
    \/ ~options.intact /\ Throw(c)
    \/ options.intact /\ Sign(c, "bad proof") /\ UNCHANGED proofs
    \/ options.intact /\ Replayed(c) /\ Sign(c, "replay") /\ UNCHANGED proofs
    \/ /\ options.intact /\ ~Replayed(c)
       /\ \E outcome \in Policy : Sign(c, outcome)
       /\ proven' = [proven EXCEPT ![c] = TRUE]
       /\ Record(c)

\* The signer settles.
SignerSettles(c) ==
    /\ pc[c] = "signing"
    /\ IF freed THEN Throw(c) ELSE VerifyWithProof(c)
    /\ UNCHANGED <<challenge, world>>

\* The ContextProvider or the signer throws or rejects.
CallbackFails(c) ==
    /\ pc[c] \in {"context", "signing"}
    /\ Throw(c)
    /\ UNCHANGED <<challenge, world>>

\* Mutant: the tool is invoked without waiting for onReceipt.
ReceiptHandled_Detached(c) ==
    /\ pc[c] = "reporting"
    /\ IF receipt[c] = "allowed"
       THEN Goto(c, "running") /\ ran' = [ran EXCEPT ![c] = @ + 1]
       ELSE Goto(c, "denied") /\ UNCHANGED ran
    /\ UNCHANGED <<challenge, receipt, handled, proofs, world>>

\* Mutant: the denial is not told to the caller.
ReceiptHandled_NoDenial(c) ==
    /\ pc[c] = "reporting"
    /\ receipt[c] = "allowed"
    /\ handled' = [handled EXCEPT ![c] = TRUE]
    /\ Goto(c, "running") /\ ran' = [ran EXCEPT ![c] = @ + 1]
    /\ UNCHANGED <<challenge, receipt, proofs, world>>

\* onReceipt is absent, settles, or throws, which fireOnReceipt swallows; then
\* the tool is invoked, or the denial returned or thrown.
ReceiptHandled(c) ==
    /\ pc[c] = "reporting"
    /\ handled' = [handled EXCEPT ![c] = TRUE]
    /\ IF receipt[c] = "allowed"
       THEN Goto(c, "running") /\ ran' = [ran EXCEPT ![c] = @ + 1]
       ELSE Goto(c, "denied") /\ UNCHANGED ran
    /\ UNCHANGED <<challenge, receipt, proofs, world>>

\* Mutant: a tool that fails is tried again.
ToolSettles_Retries(c) ==
    /\ pc[c] = "running"
    /\ Goto(c, "returned") \/ Goto(c, "reporting")
    /\ UNCHANGED <<challenge, state, world>>

\* The tool's own outcome is the call's.
ToolSettles(c) ==
    /\ pc[c] = "running"
    /\ Goto(c, "returned") \/ Goto(c, "thrown")
    /\ UNCHANGED <<challenge, state, world>>

\* Meanwhile a list is installed in the verifier.
InstallList ==
    /\ ~revoked
    /\ revoked' = TRUE
    /\ UNCHANGED <<pc, challenge, state, options, store, ttl, freed, clock>>

\* The verifier gets a new nonce store (withNonceStore), or the one it has is
\* emptied (NonceStore.clear).
FreshStore ==
    /\ store' = TRUE
    /\ seen' = [t \in Times |-> 0]
    /\ entry' = [c \in Calls |-> NoEntry]
    /\ UNCHANGED <<pc, challenge, receipt, handled, ran, proven>>
    /\ UNCHANGED <<options, ttl, revoked, freed, clock>>

\* withNonceTtlMs: what is in the store keeps its expiry.
SetTtl(lifetime) ==
    /\ ttl' = lifetime
    /\ UNCHANGED <<pc, challenge, state, options, store, revoked, freed, clock>>

\* The capability is attenuated or disposed of.
Free ==
    /\ ~freed
    /\ freed' = TRUE
    /\ UNCHANGED <<pc, challenge, state, options, verifier, clock>>

Tick ==
    /\ clock < MaxTime
    /\ clock' = clock + 1
    /\ UNCHANGED <<pc, challenge, state, options, verifier, freed>>

World ==
    \/ InstallList \/ FreshStore \/ Free \/ Tick
    \/ \E lifetime \in Ttls : SetTtl(lifetime)

\* A step of a call that has begun.
Proceed(c) ==
    \/ ContextSettles(c) \/ SignerSettles(c) \/ CallbackFails(c)
    \/ ReceiptHandled(c) \/ ToolSettles(c)

Next ==
    \/ \E c \in Calls : GuardCall(c) \/ CallTool(c) \/ Proceed(c)
    \/ World

\* Every promise a callback returns settles, and the event loop gets to what
\* awaits it; no call has to begin and nothing else has to happen.
Spec == Init /\ [][Next]_vars /\ \A c \in Calls : WF_vars(Proceed(c))

-----------------------------------------------------------------------------
TypeOK ==
    /\ options \in [bound : BOOLEAN, intact : BOOLEAN, signer : BOOLEAN]
    /\ pc \in [Calls -> {"idle", "context", "signing", "reporting", "running"}
                        \cup Settled]
    /\ signed \in [Calls -> Times \cup {Unsigned}]
    /\ timed \in [Calls -> BOOLEAN]
    /\ receipt \in [Calls -> Outcomes \cup {NoReceipt}]
    /\ handled \in [Calls -> BOOLEAN]
    /\ ran \in [Calls -> 0..1]
    /\ proven \in [Calls -> BOOLEAN]
    /\ entry \in [Calls -> [at : Nat, until : Nat]]
    /\ seen \in [Times -> Nat]
    /\ store \in BOOLEAN /\ ttl \in Ttls
    /\ revoked \in BOOLEAN /\ freed \in BOOLEAN
    /\ clock \in Times

\* A tool is invoked only when its receipt says allowed, of an intact capability
\* and on a good proof when it is bound, one no nonce store refused, and only
\* after onReceipt is done with that receipt; a denied call ends without a run.
ToolRunsBehindGate ==
    \A c \in Calls :
        ran[c] > 0 =>
            /\ receipt[c] = "allowed" /\ handled[c]
            /\ options.intact
            /\ options.bound => proven[c]
            /\ pc[c] \in {"running", "returned", "thrown"}

\* However the awaits of concurrent calls interleave, and whatever store and
\* lifetime are put in meanwhile: when one proof let two calls run the tool, one
\* of them was decided only when the other's entry had expired by its clock, or
\* the verifier had no store for one of the two, or lost what it held.  Calls
\* whose contexts carry a time, with a lifetime that is not 0, never share a
\* proof then (try_record behind verifyWithProof).
OneRunPerProof ==
    \A c, d \in Calls :
        c # d /\ ran[c] > 0 /\ ran[d] > 0 /\ signed[c] = signed[d] =>
            entry[c].until <= entry[d].at \/ entry[d].until <= entry[c].at

CurrentStep ==
    \A c \in Calls :
        receipt[c] = NoReceipt =>
            /\ revoked => receipt'[c] # "allowed"
            /\ freed => receipt'[c] = NoReceipt

\* A decision is made on the state of its own moment, not of the moment the call
\* began: from the step that installs a list no call is allowed any more, and
\* from the step that consumes the capability none gets a receipt.
DecisionsAreCurrent == [][CurrentStep]_vars

\* What the guard promises, without the awaits (GatedTool): a call is decided when
\* its receipt is signed and runs when the tool has been invoked.
Place(c) ==
    CASE pc[c] \in {"idle", "context", "signing"} -> "idle"
      [] pc[c] = "reporting" -> "decided"
      [] pc[c] = "running" -> "running"
      [] OTHER -> "settled"

OnReceipt(c) ==
    CASE receipt[c] = NoReceipt -> "none"
      [] receipt[c] = "allowed" -> "allowed"
      [] OTHER -> "denied"

gatePhase == [c \in Calls |-> Place(c)]
gateReceipt == [c \in Calls |-> OnReceipt(c)]
gateRan == {c \in Calls : ran[c] > 0}

Gate == INSTANCE GatedTool WITH phase <- gatePhase, receipt <- gateReceipt, ran <- gateRan

\* Behind all its awaits the guard is one decision and at most one run per call:
\* no call is decided twice, runs on another call's receipt, or runs after it
\* settled (guardCall, wrapMCPClient).
ImplementsGate == Gate!GateSpec

\* Every call that begins settles, as returned, denied or thrown, whatever its
\* callbacks do and whatever happens to the capability under it.
EveryCallSettles == \A c \in Calls : pc[c] = "context" ~> pc[c] \in Settled
=============================================================================
