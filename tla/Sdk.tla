--------------------------------- MODULE Sdk ---------------------------------
(***************************************************************************)
(* What the TypeScript package (packages/capnagent/src) adds to the wasm   *)
(* module it wraps: the gate of init(), the class of every error, the      *)
(* public form of a receipt, the clock a context is given when it has none,*)
(* and the check of numbers that become a BigInt.  What the wrapped objects*)
(* are is in Handles; what the calls decide, in Verifier.                  *)
(***************************************************************************)
EXTENDS Integers

CONSTANTS Tools,      \* what a call may be about
          MaxNow,     \* bound on the clock's readings
          Given,      \* numbers a program may publish a list at
          Fraction,   \* a number that is no integer
          Width64,    \* stands for 2^64, the numbers of a u64
          NoTime,     \* a context without nowMs
          Nothing

ASSUME GivenAssumption ==
    /\ Width64 \in Nat \ {0} /\ Given \subseteq Int \cup {Fraction} /\ Fraction \notin Int
    /\ MaxNow \in Nat /\ NoTime \notin Int

VARIABLES
    ready,     \* init() was called
    now,       \* Date.now()
    failure,   \* the last error: the call, its cause, its words, its class
    held,      \* the receipt a program has, in its public form
    signed,    \* history: the receipt as the auditor signed it
    audited,   \* what Auditor.verify says of it
    proof,     \* the context whose challenge the holder signed
    verdict,   \* history: the last decision on it, and the contexts as written
    published  \* the time a list carries, and the number given

sdkVars == <<ready, now, failure, held, signed, audited, proof, verdict, published>>

-----------------------------------------------------------------------------
\* The methods of each class, with how mapWasmError treats what they throw; the
\* error of a "raw" one goes through as it is.
CapabilityOps == [parse |-> "generic", serialize |-> "generic", attenuate |-> "generic",
                  identifier |-> "raw", holderOfKey |-> "raw"]
BuilderOps == [caveat |-> "generic", bind |-> "generic", build |-> "generic"]
IssuerOps == [fromKey |-> "generic", issue |-> "generic"]
AuditorOps == [newAuditor |-> "audit", audit |-> "audit"]
ListOps == [parseList |-> "generic", serializeList |-> "generic", contains |-> "raw",
            listSize |-> "raw", issuedAtMs |-> "raw"]
RevokerOps == [newRevoker |-> "generic", revoke |-> "raw", unrevoke |-> "raw",
               revokerSize |-> "raw", publish |-> "generic"]
StoreOps == [newStore |-> "generic", storeSize |-> "raw", clear |-> "raw"]
ConfigOps == [newVerifier |-> "chain", withNonceStore |-> "chain", withRevocationList |-> "chain",
              withNonceTtlMs |-> "chain"]
StatusOps == [hasRevocationList |-> "chain", revocationListIssuedAtMs |-> "chain",
              hasNonceStore |-> "chain"]
VerifyOps == [verify |-> "chain", verifyWithContext |-> "either",
              verifyWithContextJson |-> "either"]
ProofOps == [verifyWithProof |-> "either"]
ChallengeOps == [popChallengeFor |-> "generic"]

Classes == {CapabilityOps, BuilderOps, IssuerOps, AuditorOps, ListOps, RevokerOps, StoreOps,
            ConfigOps, StatusOps, VerifyOps, ProofOps, ChallengeOps}

Ops == UNION {DOMAIN class : class \in Classes}

Kind(op) == (CHOOSE class \in Classes : op \in DOMAIN class)[op]

\* CapabilityError and the two that extend it; what is none of them.
ErrorClasses == {"CapabilityError", "CapabilityChainError", "CapabilityAuditError", "Error"}

Words == {"chain", "audit", "signature", "tamper"}

\* Mutant: the words of an audit failure are looked for first.
ErrorClass_AuditFirst(kind, words) ==
    CASE kind = "audit" -> "CapabilityAuditError"
      [] kind = "chain" -> "CapabilityChainError"
      [] kind = "either" -> IF words \ {"chain"} # {} THEN "CapabilityAuditError"
                            ELSE "CapabilityChainError"
      [] kind = "raw" -> "Error"
      [] OTHER -> "CapabilityError"

\* mapWasmError: of a call that may fail in either way the message decides.
ErrorClass(kind, words) ==
    CASE kind = "audit" -> "CapabilityAuditError"
      [] kind = "chain" -> "CapabilityChainError"
      [] kind = "either" -> IF words \ {"chain"} # {} /\ "chain" \notin words
                            THEN "CapabilityAuditError" ELSE "CapabilityChainError"
      [] kind = "raw" -> "Error"
      [] OTHER -> "CapabilityError"

\* Why the wrapped module throws: the token does not verify; the receipt does not;
\* the list is not this key's; the argument is refused, in a message that may quote
\* it; the handle was disposed of or consumed.
Causes(op) ==
    (IF op \in DOMAIN VerifyOps \cup DOMAIN ProofOps
     THEN {[why |-> "chain", words |-> {"chain", "signature"}]} ELSE {})
    \cup (IF op = "audit" THEN {[why |-> "receipt", words |-> {"signature"}]} ELSE {})
    \cup (IF op = "withRevocationList" THEN {[why |-> "list", words |-> {"signature"}]} ELSE {})
    \cup (IF op \in {"verifyWithContext", "verifyWithContextJson", "verifyWithProof", "audit",
                     "popChallengeFor", "caveat", "attenuate", "parse", "parseList"}
          THEN [why : {"argument"}, words : SUBSET Words] ELSE {})
    \cup (IF op \in {"bind", "build", "newAuditor", "verifyWithProof"}
          THEN {[why |-> "argument", words |-> {}]} ELSE {})
    \cup (IF op \notin {"parse", "fromKey", "newAuditor", "parseList", "newRevoker", "newStore",
                        "newVerifier"}
          THEN {[why |-> "handle", words |-> {}]} ELSE {})

Failed(op, why, words, class) ==
    failure' = [op |-> op, why |-> why, words |-> words, class |-> class]

-----------------------------------------------------------------------------
\* init: its body runs before the promise is returned, and once.
InitPackage ==
    /\ ready' = TRUE
    /\ UNCHANGED <<now, failure, held, signed, audited, proof, verdict, published>>

\* ensureReady in front of a call.
TooEarly(op) ==
    /\ ~ready
    /\ Failed(op, "not ready", {}, "CapabilityError")
    /\ UNCHANGED <<ready, now, held, signed, audited, proof, verdict, published>>

\* A call that the wrapped module refuses.
Throw(op, cause) ==
    /\ ready
    /\ Failed(op, cause.why, cause.words, ErrorClass(Kind(op), cause.words))
    /\ UNCHANGED <<ready, now, held, signed, audited, proof, verdict, published>>

Tick ==
    /\ now < MaxNow
    /\ now' = now + 1
    /\ UNCHANGED <<ready, failure, held, signed, audited, proof, verdict, published>>

-----------------------------------------------------------------------------
\* Mutant: the clock is always read.
WithDefaultNow_Always(ctx) == [ctx EXCEPT !.nowMs = now]

\* withDefaultNow, of a Context
WithDefaultNow(ctx) == IF ctx.nowMs = NoTime THEN [ctx EXCEPT !.nowMs = now] ELSE ctx

Contexts == [tool : Tools, nowMs : (0..MaxNow) \cup {NoTime}]

\* A receipt as the core makes it: RawReceipt, whose outcome has a reason if denied.
Raw(ctx, kind) == [version |-> 1, tool |-> ctx.tool, caveats |-> "own", kind |-> kind,
                   reason |-> IF kind = "denied" THEN "own" ELSE Nothing,
                   timestampMs |-> ctx.nowMs, signature |-> "own"]

\* rawReceiptToReceipt: field by field; what an allowed outcome has besides its kind
\* stays behind.
Public(raw) == [raw EXCEPT !.reason = IF raw.kind = "allowed" THEN Nothing ELSE @]

\* Mutant: the outcome goes back as it is.
ToRaw_Whole(receipt) == receipt

\* receiptToRaw: the same on the way back.
ToRaw(receipt) == [receipt EXCEPT !.reason = IF receipt.kind = "allowed" THEN Nothing ELSE @]

\* verifyWithContext, which gets to a receipt.
Verify(ctx, kind) ==
    /\ ready
    /\ signed' = Raw(WithDefaultNow(ctx), kind)
    /\ held' = Public(signed')
    /\ audited' = Nothing
    /\ UNCHANGED <<ready, now, failure, proof, verdict, published>>

\* A program writes a field of the receipt; only the entries of its caveats are frozen.
Edits == [version : {1, 2}, caveats : {"own", "other"}, kind : {"allowed", "denied"},
          reason : {Nothing, "own", "other"}, signature : {"own", "other"}, tool : Tools,
          timestampMs : 0..MaxNow]

Write(field) ==
    /\ held # Nothing
    /\ \E value \in {edit[field] : edit \in Edits} : held' = [held EXCEPT ![field] = value]
    /\ audited' = Nothing
    /\ UNCHANGED <<ready, now, failure, signed, proof, verdict, published>>

\* Auditor.verify: the core compares the signature over all fields it is given.
Audit ==
    /\ ready /\ held # Nothing
    /\ IF ToRaw(held) = signed
       THEN audited' = "intact" /\ UNCHANGED failure
       ELSE /\ audited' = "rejected"
            /\ Failed("audit", "receipt", {"signature"}, ErrorClass(Kind("audit"), {"signature"}))
    /\ UNCHANGED <<ready, now, held, signed, proof, verdict, published>>

-----------------------------------------------------------------------------
\* popChallengeFor at the holder, who signs it.
Prove(ctx) ==
    /\ ready
    /\ proof' = [written |-> ctx, challenge |-> WithDefaultNow(ctx)]
    /\ UNCHANGED <<ready, now, failure, held, signed, audited, verdict, published>>

\* popChallengeFor at the verifier, and verifyWithProof over its answer.
VerifyProof(ctx) ==
    /\ ready /\ proof # Nothing
    /\ verdict' = [accepts |-> proof.challenge = WithDefaultNow(ctx), holder |-> proof.written,
                   verifier |-> ctx]
    /\ UNCHANGED <<ready, now, failure, held, signed, audited, proof, published>>

-----------------------------------------------------------------------------
\* The check in Revoker.publish.
Publishable(ms) == ms # Fraction /\ ms >= 0

\* Revoker.publish: the BigInt enters wasm as 64 bits, and RevocationList.issuedAtMs
\* is the Number of them.
Publish(ms) ==
    /\ ready
    /\ IF Publishable(ms)
       THEN published' = [given |-> ms, issuedAtMs |-> ms % Width64] /\ UNCHANGED failure
       ELSE Failed("publish", "number", {}, "CapabilityError") /\ UNCHANGED published
    /\ UNCHANGED <<ready, now, held, signed, audited, proof, verdict>>

-----------------------------------------------------------------------------
SdkInit ==
    /\ ready = FALSE /\ now = 0 /\ failure = Nothing
    /\ held = Nothing /\ signed = Nothing /\ audited = Nothing
    /\ proof = Nothing /\ verdict = Nothing
    /\ published = Nothing

CallNext ==
    \/ InitPackage
    \/ \E op \in Ops : TooEarly(op) \/ \E cause \in Causes(op) : Throw(op, cause)
    \/ \E ms \in Given : Publish(ms)

ReceiptNext ==
    \/ InitPackage \/ Tick \/ Audit
    \/ \E ctx \in Contexts, kind \in {"allowed", "denied"} : Verify(ctx, kind)
    \/ \E field \in DOMAIN Raw([tool |-> Nothing, nowMs |-> Nothing], Nothing) : Write(field)

ProofNext ==
    \/ InitPackage \/ Tick
    \/ \E ctx \in Contexts : Prove(ctx) \/ VerifyProof(ctx)

SdkNext == CallNext \/ ReceiptNext \/ ProofNext

SdkSpec == SdkInit /\ [][SdkNext]_sdkVars

-----------------------------------------------------------------------------
SdkTypeOK ==
    /\ ready \in BOOLEAN /\ now \in 0..MaxNow
    /\ failure # Nothing => failure.op \in Ops /\ failure.class \in ErrorClasses
    /\ audited \in {Nothing, "intact", "rejected"}
    /\ proof # Nothing => proof.challenge.nowMs \in 0..MaxNow
    /\ published # Nothing => published.issuedAtMs \in 0..(Width64 - 1)

\* An error's class says what went wrong, where the caller must tell it: a token
\* that does not verify is never taken for a bad receipt though its message speaks
\* of a signature, nor the reverse, and a call that came too early is neither
\* (mapWasmError, ensureReady).  Only a message that quotes its caller's argument
\* can be taken for a bad receipt.
ErrorsNameTheirCause ==
    failure # Nothing =>
        /\ failure.why = "chain" => failure.class = "CapabilityChainError"
        /\ failure.why = "receipt" => failure.class = "CapabilityAuditError"
        /\ failure.why \in {"not ready", "number"} => failure.class = "CapabilityError"
        /\ failure.class = "CapabilityAuditError" =>
               failure.op \in DOMAIN AuditorOps \/ (failure.why = "argument" /\ failure.words # {})

\* What a reader of a receipt sees.
Seen(receipt) == IF receipt.kind = "allowed" THEN [receipt EXCEPT !.reason = Nothing] ELSE receipt

\* Whatever a program writes into a receipt and takes back, the auditor accepts it
\* if and only if all that is read from it is as it was signed (rawReceiptToReceipt,
\* receiptToRaw, Auditor.verify).
AcceptedIsAsSigned ==
    audited # Nothing => (audited = "intact" <=> Seen(held) = Seen(Public(signed)))

\* A proof is accepted for the tool and the time it was made for.  With the time in
\* the context an honest holder's proof is accepted however late it is verified;
\* left to the clock, it is when the clock has not moved (popChallengeFor,
\* withDefaultNow).
ProofsKeepTheirTime ==
    verdict # Nothing =>
        /\ verdict.accepts => verdict.holder.tool = verdict.verifier.tool
        /\ verdict.holder = verdict.verifier /\ verdict.holder.nowMs # NoTime => verdict.accepts
        /\ verdict.accepts /\ verdict.holder.nowMs # NoTime =>
               verdict.verifier.nowMs \in {NoTime, verdict.holder.nowMs}

\* A list carries the time it was published at, which is never negative, as long as
\* that is less than 2^64 (Revoker.publish, RevocationList.issuedAtMs).
PublishedTimeIsGiven ==
    published # Nothing =>
        published.given >= 0 /\ (published.given < Width64 => published.issuedAtMs = published.given)

\* Both are times that leave a program for another one: neither is changed on its
\* way in by the clock or by the width of the wasm interface.
TimesAreKept == ProofsKeepTheirTime /\ PublishedTimeIsGiven
=============================================================================
