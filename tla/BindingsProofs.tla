--------------------------- MODULE BindingsProofs ---------------------------
(***************************************************************************)
(* The properties of Handles for any number of wrappers, predicates, lists *)
(* and lifetimes; their conjunction is inductive as it stands.  And those  *)
(* of the receipts and times that go through the TypeScript package (Sdk). *)
(***************************************************************************)
EXTENDS Handles, Sdk, TLAPS

Records == [class : {"builder", "capability"}, value : (SUBSET Restrictions) \cup {Gone},
            asked : SUBSET Requests]

\* What the properties say of one wrapper.
Sound(b, w) ==
    /\ w \in Records \cup {Unused}
    /\ w # Unused /\ w.value # Gone =>
          /\ w.asked \cap Restrictions \subseteq w.value
          /\ b = "js" => w.asked \subseteq Restrictions
          /\ w.class = "capability" => w.value \cap Good # {}

\* The wrappers and what they stand for.
ObjectsOK ==
    /\ binding \in {"js", "py"}
    /\ object \in [Objects -> Records \cup {Unused}]
    /\ \A o \in Objects : Sound(binding, object[o])

\* The verifier.
VerifierOK ==
    /\ verifier \in Configs \cup {Gone}
    /\ verifier # Gone => verifier.lifetime < Width
    /\ told \in Configs
    /\ disposed \in BOOLEAN /\ poisoned \in BOOLEAN
    /\ ConfigIsAsTold

IInv == ObjectsOK /\ VerifierOK

\* The invariant has the four properties as its parts.
LEMMA InvariantMeansProperties ==
    IInv => TypeOK /\ NarrowingIsKept /\ NothingUnrestricted /\ ConfigIsAsTold
  BY DEF IInv, ObjectsOK, VerifierOK, TypeOK, NarrowingIsKept, NothingUnrestricted,
         Sound, Records, Holds

-----------------------------------------------------------------------------
\* Wrappers

\* Replacing wrappers by sound ones keeps the wrappers sound.
LEMMA ThrowsKeeps ==
    ASSUME ObjectsOK, NEW o \in Objects, NEW left, Sound(binding, left), Throws(o, left)
    PROVE  ObjectsOK'
  BY DEF ObjectsOK, Throws, Sound

LEMMA ReturnsKeeps ==
    ASSUME ObjectsOK, NEW o \in Objects, NEW n \in Objects, NEW left, NEW new,
           Sound(binding, left), Sound(binding, new), Returns(o, left, n, new)
    PROVE  ObjectsOK'
  BY DEF ObjectsOK, Returns, Sound

\* A wrapper that is emptied, and one with the restrictions it was asked for,
\* are sound.
LEMMA EmptiedIsSound ==
    ASSUME ObjectsOK, NEW o \in Objects, object[o] # Unused, NEW r \in SUBSET Requests
    PROVE  Sound(binding, Emptied(o, r))
  BY DEF ObjectsOK, Sound, Emptied, Records

LEMMA HeldIsRecord ==
    ASSUME ObjectsOK, NEW o \in Objects, NEW class, Holds(o, class)
    PROVE  /\ object[o] \in Records /\ object[o] # Unused
           /\ object[o].value \in SUBSET Restrictions
           /\ object[o].asked \in SUBSET Requests
           /\ object[o].asked \cap Restrictions \subseteq object[o].value
           /\ binding = "js" => object[o].asked \subseteq Restrictions
           /\ object[o].class = class
           /\ class = "capability" => object[o].value \cap Good # {}
  BY DEF ObjectsOK, Holds, Sound, Records

LEMMA GrantedIsSound ==
    ASSUME NEW class \in {"builder", "capability"},
           NEW value \in SUBSET Restrictions, NEW asked \in SUBSET Requests,
           asked \cap Restrictions \subseteq value,
           binding = "js" => asked \subseteq Restrictions,
           class = "capability" => value \cap Good # {}
    PROVE  Sound(binding, Wrapper(class, value, asked))
  BY DEF Sound, Wrapper, Records

\* The checks of the arguments keep the wrappers sound: the Python crate keeps
\* the value of a wrapper it refused, the wasm crate does not.
LEMMA RefuseKeeps ==
    ASSUME ObjectsOK, NEW o \in Objects, NEW class, Holds(o, class),
           NEW r \in Requests \ Restrictions, Refuse(o, r)
    PROVE  ObjectsOK'
  <1>1. CASE binding = "js"
    BY <1>1, HeldIsRecord, EmptiedIsSound, ThrowsKeeps DEF Refuse
  <1>2. CASE binding # "js"
    <2>1. Sound(binding, Kept(o, {r}))
      BY <1>2, HeldIsRecord DEF Sound, Kept, Records
    <2>2. QED
      BY <1>2, <2>1, ThrowsKeeps DEF Refuse
  <1>3. QED
    BY <1>1, <1>2

LEMMA RestrictKeeps ==
    ASSUME ObjectsOK, NEW o \in Objects, NEW n \in Objects, Holds(o, "builder"),
           NEW r \in Restrictions, Restrict(o, r, n)
    PROVE  ObjectsOK'
  <1>1. r \in Requests
    BY DEF Requests
  <1>2. Sound(binding, Emptied(o, {r}))
    BY <1>1, HeldIsRecord, EmptiedIsSound
  <1>3. Sound(binding, Wrapper("builder", object[o].value \cup {r}, object[o].asked \cup {r}))
    BY <1>1, HeldIsRecord, GrantedIsSound
  <1>4. QED
    BY <1>2, <1>3, ReturnsKeeps DEF Restrict

\* No step leaves a wrapper that is not sound.
LEMMA StepKeepsObjects == IInv /\ [Next]_vars => ObjectsOK'
  <1> SUFFICES ASSUME IInv, [Next]_vars PROVE ObjectsOK'
    OBVIOUS
  <1> USE DEF IInv
  <1>1. ASSUME NEW n \in Objects, Issue(n) PROVE ObjectsOK'
    <2>1. Sound(binding, Wrapper("builder", {}, {}))
      BY GrantedIsSound
    <2>2. QED
      BY <1>1, <2>1 DEF Issue, ObjectsOK, Sound
  <1>2. ASSUME NEW o \in Objects, NEW n \in Objects, NEW p \in Good \cup Bad, Caveat(o, p, n)
        PROVE  ObjectsOK'
    <2>1. CASE p \in Bad /\ Refuse(o, p)
      <3>1. p \in Requests \ Restrictions
        BY <2>1, RequestsAssumption DEF Requests, Restrictions
      <3>2. QED
        BY <1>2, <2>1, <3>1, RefuseKeeps DEF Caveat
    <2>2. CASE p \in Good /\ Restrict(o, p, n)
      BY <1>2, <2>2, RestrictKeeps DEF Caveat, Restrictions
    <2>3. QED
      BY <1>2, <2>1, <2>2 DEF Caveat
  <1>3. ASSUME NEW o \in Objects, NEW n \in Objects, NEW k \in {Key, ShortKey},
               HolderOfKey(o, k, n)
        PROVE  ObjectsOK'
    <2>1. CASE k = ShortKey /\ Refuse(o, k)
      <3>1. k \in Requests \ Restrictions
        BY <2>1, RequestsAssumption DEF Requests, Restrictions
      <3>2. QED
        BY <1>3, <2>1, <3>1, RefuseKeeps DEF HolderOfKey
    <2>2. CASE k = Key /\ Restrict(o, k, n)
      BY <1>3, <2>2, RestrictKeeps DEF HolderOfKey, Restrictions
    <2>3. CASE /\ object' = [object EXCEPT ![o] = Emptied(o, {k})]
               /\ binding' = binding
      <3>1. Sound(binding, Emptied(o, {k}))
        BY <1>3, HeldIsRecord, EmptiedIsSound DEF HolderOfKey, Requests, Restrictions
      <3>2. QED
        BY <2>3, <3>1 DEF ObjectsOK, Sound
    <2>4. QED
      BY <1>3, <2>1, <2>2, <2>3 DEF HolderOfKey
  <1>4. ASSUME NEW o \in Objects, NEW n \in Objects, Build(o, n) PROVE ObjectsOK'
    <2>1. Sound(binding, Emptied(o, {}))
      BY <1>4, HeldIsRecord, EmptiedIsSound DEF Build
    <2>2. CASE MayBuild(object[o].value)
      <3>1. Sound(binding, Wrapper("capability", object[o].value, object[o].asked))
        BY <1>4, <2>2, HeldIsRecord, GrantedIsSound DEF Build, MayBuild
      <3>2. QED
        BY <1>4, <2>1, <2>2, <3>1, ReturnsKeeps DEF Build
    <2>3. CASE ~MayBuild(object[o].value)
      BY <1>4, <2>1, <2>3, ThrowsKeeps DEF Build
    <2>4. QED
      BY <2>2, <2>3
  <1>5. ASSUME NEW o \in Objects, NEW n \in Objects, NEW p \in Good \cup Bad,
               Attenuate(o, p, n)
        PROVE  ObjectsOK'
    <2>1. CASE p \in Bad /\ Refuse(o, p)
      <3>1. p \in Requests \ Restrictions
        BY <2>1, RequestsAssumption DEF Requests, Restrictions
      <3>2. QED
        BY <1>5, <2>1, <3>1, RefuseKeeps DEF Attenuate
    <2>2. CASE UNCHANGED vars
      BY <2>2 DEF ObjectsOK, vars, Sound
    <2>3. CASE /\ p \in Good
               /\ Returns(o, IF binding = "js" THEN Emptied(o, {p}) ELSE object[o], n,
                          Wrapper("capability", object[o].value \cup {p},
                                  object[o].asked \cup {p}))
      <3>1. p \in Restrictions /\ p \in Requests
        BY <2>3 DEF Requests, Restrictions
      <3>2. Sound(binding, IF binding = "js" THEN Emptied(o, {p}) ELSE object[o])
        BY <1>5, <3>1, HeldIsRecord, EmptiedIsSound DEF Attenuate, ObjectsOK
      <3>3. Sound(binding, Wrapper("capability", object[o].value \cup {p},
                                   object[o].asked \cup {p}))
        BY <1>5, <2>3, <3>1, HeldIsRecord, GrantedIsSound DEF Attenuate
      <3>4. QED
        BY <2>3, <3>2, <3>3, ReturnsKeeps
    <2>4. QED
      BY <1>5, <2>1, <2>2, <2>3 DEF Attenuate
  <1>6. ASSUME NEW o \in Objects, NEW n \in Objects, Reparse(o, n) PROVE ObjectsOK'
    <2>1. Sound(binding, object[o])
      BY DEF ObjectsOK
    <2>2. Sound(binding, Wrapper("capability", object[o].value, object[o].value))
      BY <1>6, HeldIsRecord, GrantedIsSound DEF Reparse, Requests
    <2>3. QED
      BY <1>6, <2>1, <2>2, ReturnsKeeps DEF Reparse
  <1>7. ASSUME NEW o \in Objects, Dispose(o) PROVE ObjectsOK'
    BY <1>7, HeldIsRecord, EmptiedIsSound, ThrowsKeeps DEF Dispose
  <1>8. ASSUME NEW o \in Objects, Collect(o) PROVE ObjectsOK'
    BY <1>8, ThrowsKeeps DEF Collect, Sound
  <1>9. ASSUME NEW o \in Objects, PoisonedCall(o) PROVE ObjectsOK'
    BY <1>9, EmptiedIsSound, ThrowsKeeps DEF PoisonedCall
  <1>10. ASSUME UNCHANGED <<binding, object>> PROVE ObjectsOK'
    BY <1>10 DEF ObjectsOK, Sound
  <1>11. CASE UNCHANGED vars
    BY <1>10, <1>11 DEF vars
  <1>12. ASSUME NEW list, WithRevocationList(list) PROVE ObjectsOK'
    BY <1>10, <1>12 DEF WithRevocationList, Configured, vars
  <1>13. CASE \/ WithNonceStore \/ (\E ms \in Lifetimes : WithNonceTtlMs(ms))
              \/ ClockPanics \/ PoisonedConfiguring \/ DisposeVerifier
    BY <1>10, <1>13 DEF WithNonceStore, WithNonceTtlMs, Configured, ClockPanics,
                        PoisonedConfiguring, DisposeVerifier
  <1>14. QED
    BY <1>1, <1>2, <1>3, <1>4, <1>5, <1>6, <1>7, <1>8, <1>9, <1>11, <1>12, <1>13 DEF Next

-----------------------------------------------------------------------------
\* The verifier

\* A lifetime enters wasm modulo the width; one below it is kept.
LEMMA LifetimeFits ==
    ASSUME NEW ms \in Nat
    PROVE  ms % Width \in Nat /\ ms % Width < Width /\ (ms < Width => ms % Width = ms)
  BY VerifierAssumption

\* No step leaves a verifier other than the program was told, nor loses it.
LEMMA StepKeepsVerifier == IInv /\ [Next]_vars => VerifierOK'
  <1> SUFFICES ASSUME VerifierOK, ObjectsOK, [Next]_vars PROVE VerifierOK'
    BY DEF IInv
  <1> USE DEF VerifierOK, ConfigIsAsTold
  <1>1. ASSUME UNCHANGED <<verifier, told, disposed>>, poisoned' \in BOOLEAN,
               poisoned => poisoned'
        PROVE  VerifierOK'
    BY <1>1
  <1>2. ASSUME NEW o, NEW left, Throws(o, left) PROVE VerifierOK'
    BY <1>1, <1>2 DEF Throws
  <1>3. ASSUME NEW o, NEW left, NEW n, NEW new, Returns(o, left, n, new) PROVE VerifierOK'
    BY <1>1, <1>3 DEF Returns
  <1>4. ASSUME NEW n \in Objects, Issue(n) PROVE VerifierOK'
    BY <1>1, <1>4 DEF Issue
  <1>5. ASSUME NEW o \in Objects, NEW n \in Objects, NEW p, Caveat(o, p, n)
        PROVE  VerifierOK'
    BY <1>2, <1>3, <1>5 DEF Caveat, Refuse, Restrict
  <1>6. ASSUME NEW o \in Objects, NEW n \in Objects, NEW p, Attenuate(o, p, n)
        PROVE  VerifierOK'
    <2>1. CASE UNCHANGED vars
      BY <1>1, <2>1 DEF vars
    <2>2. QED
      BY <1>2, <1>3, <1>6, <2>1 DEF Attenuate, Refuse
  <1>7. ASSUME NEW o \in Objects, NEW n \in Objects, NEW k, HolderOfKey(o, k, n)
        PROVE  VerifierOK'
    <2>1. CASE Refuse(o, k) \/ Restrict(o, k, n)
      BY <1>2, <1>3, <2>1 DEF Refuse, Restrict
    <2>2. CASE /\ poisoned' = (poisoned \/ binding = "js")
               /\ UNCHANGED <<binding, verifier, told, disposed>>
      <3>1. poisoned => poisoned'
        BY <2>2
      <3>2. QED
        BY <1>1, <2>2, <3>1
    <2>3. QED
      BY <1>7, <2>1, <2>2 DEF HolderOfKey
  <1>8. ASSUME NEW o \in Objects, NEW n \in Objects, Build(o, n) \/ Reparse(o, n)
        PROVE  VerifierOK'
    BY <1>2, <1>3, <1>8 DEF Build, Reparse
  <1>9. ASSUME NEW o \in Objects, Dispose(o) \/ Collect(o) \/ PoisonedCall(o)
        PROVE  VerifierOK'
    BY <1>2, <1>9 DEF Dispose, Collect, PoisonedCall
  <1>10. CASE WithNonceStore
    <2>1. [verifier EXCEPT !.store = TRUE] \in Configs /\ [told EXCEPT !.store = TRUE] \in Configs
      BY <1>10 DEF WithNonceStore, Configured, Configs
    <2>2. QED
      BY <1>10, <2>1, GoneAssumption DEF WithNonceStore, Configured, Configs
  <1>11. ASSUME NEW ms \in Lifetimes, WithNonceTtlMs(ms) PROVE VerifierOK'
    <2>1. ms \in Nat
      BY VerifierAssumption
    <2>2. /\ [verifier EXCEPT !.lifetime = ms % Width] \in Configs
          /\ [told EXCEPT !.lifetime = ms] \in Configs
      BY <1>11, <2>1, LifetimeFits DEF WithNonceTtlMs, Configured, Configs
    <2>3. verifier' # Gone /\ verifier' \in Configs /\ told' \in Configs
      BY <1>11, <2>2, GoneAssumption DEF WithNonceTtlMs, Configured
    <2>4. /\ verifier'.lifetime = ms % Width /\ told'.lifetime = ms
          /\ verifier'.store = told'.store /\ verifier'.list = told'.list
      BY <1>11 DEF WithNonceTtlMs, Configured, Configs
    <2>5. disposed' \in BOOLEAN /\ poisoned' \in BOOLEAN
      BY <1>11 DEF WithNonceTtlMs, Configured
    <2>6. QED
      BY <2>1, <2>3, <2>4, <2>5, LifetimeFits
  <1>12. ASSUME NEW list \in Lists \cup {Forged}, WithRevocationList(list)
         PROVE  VerifierOK'
    <2>1. CASE list = Forged
      BY <1>1, <1>12, <2>1 DEF WithRevocationList, vars
    <2>2. CASE list # Forged
      <3>1. /\ [verifier EXCEPT !.list = list] \in Configs
            /\ [told EXCEPT !.list = list] \in Configs
        BY <1>12, <2>2 DEF WithRevocationList, Configured, Configs
      <3>2. QED
        BY <1>12, <2>2, <3>1, GoneAssumption DEF WithRevocationList, Configured, Configs
    <2>3. QED
      BY <2>1, <2>2
  <1>13. CASE ClockPanics
    BY <1>1, <1>13 DEF ClockPanics
  <1>14. CASE PoisonedConfiguring \/ DisposeVerifier
    BY <1>14 DEF PoisonedConfiguring, DisposeVerifier
  <1>15. CASE UNCHANGED vars
    BY <1>1, <1>15 DEF vars
  <1>16. QED
    BY <1>4, <1>5, <1>6, <1>7, <1>8, <1>9, <1>10, <1>11, <1>12, <1>13, <1>14, <1>15
       DEF Next

-----------------------------------------------------------------------------
\* The properties

LEMMA InitIsSound == Init => IInv
  <1> SUFFICES ASSUME Init PROVE IInv
    OBVIOUS
  <1>1. ObjectsOK
    BY DEF Init, ObjectsOK, Sound
  <1>2. /\ verifier = [store |-> FALSE, lifetime |-> 0, list |-> NoList]
        /\ told = verifier /\ disposed \in BOOLEAN /\ poisoned \in BOOLEAN
    BY DEF Init
  <1>3. verifier \in Configs
    BY <1>2 DEF Configs
  <1>4. verifier # Gone /\ verifier.lifetime < Width
    <2>1. verifier.lifetime = 0
      BY <1>2
    <2>2. 0 < Width
      BY VerifierAssumption
    <2>3. verifier # Gone
      BY <1>3, GoneAssumption
    <2>4. QED
      BY <2>1, <2>2, <2>3
  <1>5. VerifierOK
    BY <1>2, <1>3, <1>4 DEF VerifierOK, ConfigIsAsTold
  <1>6. QED
    BY <1>1, <1>5 DEF IInv

\* The inductive invariant holds in every reachable state.
LEMMA Invariant == Spec => []IInv
  <1>1. IInv /\ [Next]_vars => IInv'
    BY StepKeepsObjects, StepKeepsVerifier DEF IInv
  <1>2. QED
    BY InitIsSound, <1>1, PTL DEF Spec

\* Every variable keeps its type.
THEOREM TypeCorrect == Spec => []TypeOK
  BY Invariant, InvariantMeansProperties, PTL

\* What a program holds carries every restriction granted on the way there, and
\* behind JavaScript was refused none (caveat, holderOfKey, attenuate).
THEOREM NarrowingKept == Spec => []NarrowingIsKept
  BY Invariant, InvariantMeansProperties, PTL

\* No sequence of calls makes a capability without a caveat (build).
THEOREM AlwaysRestricted == Spec => []NothingUnrestricted
  BY Invariant, InvariantMeansProperties, PTL

\* The verifier in hand is configured as the program was told, and no failed call
\* loses it (withNonceStore, withNonceTtlMs, withRevocationList).
THEOREM ConfigAsTold == Spec => []ConfigIsAsTold
  BY Invariant, InvariantMeansProperties, PTL

-----------------------------------------------------------------------------
\* Receipts and times in the TypeScript package

\* Receipts as the core makes them; an allowed one has no reason.
RawReceipts == {raw \in [version : {1}, tool : Tools, caveats : {"own"},
                         kind : {"allowed", "denied"}, reason : {"own", Nothing},
                         timestampMs : 0..MaxNow, signature : {"own"}] :
                   raw.kind = "allowed" => raw.reason = Nothing}

IsAFunction(f) == f = [x \in DOMAIN f |-> f[x]]

\* A program with a receipt has it from a verification, and the auditor's word is on
\* the receipt in hand.
ReceiptsOK ==
    /\ held # Nothing => signed \in RawReceipts /\ IsAFunction(held)
    /\ audited # Nothing =>
          held # Nothing /\ (audited = "intact" <=> ToRaw(held) = signed)

\* A challenge is the context that was written, with a time.
ChallengeOf(ctx, t) == IF ctx.nowMs = NoTime THEN [ctx EXCEPT !.nowMs = t] ELSE ctx

TimesOK ==
    /\ now \in 0..MaxNow
    /\ proof # Nothing =>
          /\ proof.written \in Contexts
          /\ \E t \in 0..MaxNow : proof.challenge = ChallengeOf(proof.written, t)

SdkInv == ReceiptsOK /\ TimesOK /\ TimesAreKept

LEMMA RawIsReceipt ==
    ASSUME TimesOK, NEW ctx \in Contexts, NEW kind \in {"allowed", "denied"}
    PROVE  Raw(WithDefaultNow(ctx), kind) \in RawReceipts
<1>1. WithDefaultNow(ctx).tool \in Tools /\ WithDefaultNow(ctx).nowMs \in 0..MaxNow
  BY DEF Contexts, WithDefaultNow, TimesOK
<1> QED BY <1>1 DEF Raw, RawReceipts

\* On its way out and back a receipt of the core stays what it is.
LEMMA PublicIsRaw ==
    ASSUME NEW raw \in RawReceipts
    PROVE  Public(raw) = raw /\ Seen(raw) = raw
  BY DEF RawReceipts, Public, Seen

LEMMA InvariantMeansAsSigned == SdkInv => AcceptedIsAsSigned
<1> SUFFICES ASSUME SdkInv, audited # Nothing
             PROVE  audited = "intact" <=> Seen(held) = Seen(Public(signed))
  BY DEF AcceptedIsAsSigned
<1>1. /\ signed \in RawReceipts /\ IsAFunction(held)
      /\ audited = "intact" <=> ToRaw(held) = signed
  BY DEF SdkInv, ReceiptsOK
<1>2. Seen(Public(signed)) = signed
  BY <1>1, PublicIsRaw
<1>3. Seen(held) = ToRaw(held)
  <2>1. [held EXCEPT !.reason = @] = held
    BY <1>1 DEF IsAFunction
  <2> QED BY <2>1 DEF Seen, ToRaw
<1> QED BY <1>1, <1>2, <1>3

-----------------------------------------------------------------------------
LEMMA SdkInitHolds == SdkInit => SdkInv
  BY GivenAssumption DEF SdkInit, SdkInv, ReceiptsOK, TimesOK, TimesAreKept,
                         ProofsKeepTheirTime, PublishedTimeIsGiven

\* Calls that write none of these variables.
LEMMA OthersKeep ==
    ASSUME SdkInv, UNCHANGED <<now, held, signed, audited, proof, verdict, published>>
    PROVE  SdkInv'
  BY DEF SdkInv, ReceiptsOK, TimesOK, TimesAreKept, ProofsKeepTheirTime, PublishedTimeIsGiven

LEMMA VerifyKeeps ==
    ASSUME SdkInv, NEW ctx \in Contexts, NEW kind \in {"allowed", "denied"}, Verify(ctx, kind)
    PROVE  SdkInv'
<1>1. signed' \in RawReceipts /\ audited' = Nothing
  BY RawIsReceipt DEF SdkInv, Verify
<1>2. ReceiptsOK'
  <2>1. held' = signed'
    BY <1>1, PublicIsRaw DEF Verify
  <2>2. IsAFunction(signed')
    BY <1>1 DEF RawReceipts, IsAFunction
  <2> QED BY <1>1, <2>1, <2>2 DEF ReceiptsOK
<1>3. UNCHANGED <<now, proof, verdict, published>>
  BY DEF Verify
<1>4. TimesOK' /\ TimesAreKept'
  BY <1>3 DEF SdkInv, TimesOK, TimesAreKept, ProofsKeepTheirTime, PublishedTimeIsGiven
<1> QED BY <1>2, <1>4 DEF SdkInv

LEMMA WriteKeeps ==
    ASSUME SdkInv, NEW field, Write(field)
    PROVE  SdkInv'
<1>1. held # Nothing /\ audited' = Nothing /\ signed' = signed
      /\ UNCHANGED <<now, proof, verdict, published>>
  BY DEF Write
<1>2. ReceiptsOK'
  <2>1. PICK value : held' = [held EXCEPT ![field] = value]
    BY DEF Write
  <2>2. IsAFunction(held')
    BY <2>1 DEF IsAFunction
  <2> QED BY <1>1, <2>2 DEF SdkInv, ReceiptsOK
<1>3. TimesOK' /\ TimesAreKept'
  BY <1>1 DEF SdkInv, TimesOK, TimesAreKept, ProofsKeepTheirTime, PublishedTimeIsGiven
<1> QED BY <1>2, <1>3 DEF SdkInv

LEMMA AuditKeeps ==
    ASSUME SdkInv, Audit
    PROVE  SdkInv'
<1>1. /\ held # Nothing
      /\ \/ audited' = "intact" /\ ToRaw(held) = signed
         \/ audited' = "rejected" /\ ToRaw(held) # signed
      /\ UNCHANGED <<now, held, signed, proof, verdict, published>>
  BY DEF Audit
<1>2. ReceiptsOK'
  <2>1. held' # Nothing /\ signed' \in RawReceipts /\ IsAFunction(held')
    BY <1>1 DEF SdkInv, ReceiptsOK, IsAFunction
  <2>2. audited' = "intact" <=> ToRaw(held') = signed'
    BY <1>1 DEF ToRaw
  <2> QED BY <2>1, <2>2 DEF ReceiptsOK, ToRaw
<1>3. TimesOK' /\ TimesAreKept'
  BY <1>1 DEF SdkInv, TimesOK, TimesAreKept, ProofsKeepTheirTime, PublishedTimeIsGiven
<1> QED BY <1>2, <1>3 DEF SdkInv

LEMMA TickKeeps ==
    ASSUME SdkInv, Tick
    PROVE  SdkInv'
<1>1. now < MaxNow /\ now' = now + 1
      /\ UNCHANGED <<held, signed, audited, proof, verdict, published>>
  BY DEF Tick
<1>2. now' \in 0..MaxNow
  BY <1>1, GivenAssumption DEF SdkInv, TimesOK
<1> QED BY <1>1, <1>2 DEF SdkInv, ReceiptsOK, TimesOK, TimesAreKept, ProofsKeepTheirTime,
                          PublishedTimeIsGiven

LEMMA ProveKeeps ==
    ASSUME SdkInv, NEW ctx \in Contexts, Prove(ctx)
    PROVE  SdkInv'
<1>1. /\ proof' = [written |-> ctx, challenge |-> WithDefaultNow(ctx)]
      /\ UNCHANGED <<now, held, signed, audited, verdict, published>>
  BY DEF Prove
<1>2. proof'.written \in Contexts /\ now \in 0..MaxNow
      /\ proof'.challenge = ChallengeOf(proof'.written, now)
  BY <1>1 DEF SdkInv, TimesOK, WithDefaultNow, ChallengeOf
<1>3. TimesOK'
  BY <1>1, <1>2 DEF TimesOK
<1>4. ReceiptsOK' /\ TimesAreKept'
  BY <1>1 DEF SdkInv, ReceiptsOK, TimesAreKept, ProofsKeepTheirTime, PublishedTimeIsGiven
<1> QED BY <1>3, <1>4 DEF SdkInv

\* Equal challenges are of one tool and, where one of the contexts has a time, of
\* that time.
LEMMA VerifyProofKeeps ==
    ASSUME SdkInv, NEW ctx \in Contexts, VerifyProof(ctx)
    PROVE  SdkInv'
<1>1. /\ proof # Nothing
      /\ verdict' = [accepts |-> proof.challenge = WithDefaultNow(ctx),
                     holder |-> proof.written, verifier |-> ctx]
      /\ UNCHANGED <<now, held, signed, audited, proof, published>>
  BY DEF VerifyProof
<1>2. proof.written \in Contexts /\ now \in 0..MaxNow
  BY <1>1 DEF SdkInv, TimesOK
<1>3. PICK t \in 0..MaxNow : proof.challenge = ChallengeOf(proof.written, t)
  BY <1>1 DEF SdkInv, TimesOK
<1>4. ASSUME proof.challenge = WithDefaultNow(ctx)
      PROVE  /\ proof.written.tool = ctx.tool
             /\ proof.written.nowMs # NoTime => ctx.nowMs \in {NoTime, proof.written.nowMs}
  <2>1. /\ proof.challenge.tool = proof.written.tool
        /\ proof.written.nowMs # NoTime => proof.challenge.nowMs = proof.written.nowMs
    BY <1>2, <1>3 DEF ChallengeOf, Contexts
  <2>2. /\ WithDefaultNow(ctx).tool = ctx.tool
        /\ ctx.nowMs # NoTime => WithDefaultNow(ctx).nowMs = ctx.nowMs
    BY DEF WithDefaultNow, Contexts
  <2> QED BY <1>4, <2>1, <2>2
<1>5. proof.written = ctx /\ ctx.nowMs # NoTime => proof.challenge = WithDefaultNow(ctx)
  BY <1>3 DEF ChallengeOf, WithDefaultNow
<1>6. ProofsKeepTheirTime'
  BY <1>1, <1>4, <1>5 DEF ProofsKeepTheirTime
<1>7. ReceiptsOK' /\ TimesOK' /\ PublishedTimeIsGiven'
  BY <1>1 DEF SdkInv, ReceiptsOK, TimesOK, TimesAreKept, PublishedTimeIsGiven
<1> QED BY <1>6, <1>7 DEF SdkInv, TimesAreKept

LEMMA PublishKeeps ==
    ASSUME SdkInv, NEW ms \in Given, Publish(ms)
    PROVE  SdkInv'
<1>1. UNCHANGED <<now, held, signed, audited, proof, verdict>>
  BY DEF Publish
<1>2. PublishedTimeIsGiven'
  <2>1. CASE Publishable(ms)
    <3>1. published' = [given |-> ms, issuedAtMs |-> ms % Width64]
      BY <2>1 DEF Publish
    <3>2. ms \in Int /\ ms >= 0
      BY <2>1, GivenAssumption DEF Publishable
    <3>3. ms < Width64 => ms % Width64 = ms
      BY <3>2, GivenAssumption
    <3> QED BY <3>1, <3>2, <3>3 DEF PublishedTimeIsGiven
  <2>2. CASE ~Publishable(ms)
    BY <2>2 DEF Publish, SdkInv, TimesAreKept, PublishedTimeIsGiven
  <2> QED BY <2>1, <2>2
<1>3. ReceiptsOK' /\ TimesOK' /\ ProofsKeepTheirTime'
  BY <1>1 DEF SdkInv, ReceiptsOK, TimesOK, TimesAreKept, ProofsKeepTheirTime
<1> QED BY <1>2, <1>3 DEF SdkInv, TimesAreKept

LEMMA SdkStepKeeps == SdkInv /\ [SdkNext]_sdkVars => SdkInv'
<1> SUFFICES ASSUME SdkInv, [SdkNext]_sdkVars PROVE SdkInv'
  OBVIOUS
<1>1. CASE UNCHANGED sdkVars
  BY <1>1, OthersKeep DEF sdkVars
<1>2. CASE CallNext
  <2>1. CASE InitPackage
    BY <2>1, OthersKeep DEF InitPackage
  <2>2. ASSUME NEW op \in Ops, TooEarly(op) PROVE SdkInv'
    BY <2>2, OthersKeep DEF TooEarly
  <2>3. ASSUME NEW op \in Ops, NEW cause \in Causes(op), Throw(op, cause) PROVE SdkInv'
    BY <2>3, OthersKeep DEF Throw
  <2> QED BY <1>2, <2>1, <2>2, <2>3, PublishKeeps DEF CallNext
<1>3. CASE ReceiptNext
  <2>1. CASE InitPackage
    BY <2>1, OthersKeep DEF InitPackage
  <2> QED BY <1>3, <2>1, TickKeeps, AuditKeeps, VerifyKeeps, WriteKeeps DEF ReceiptNext
<1>4. CASE ProofNext
  <2>1. CASE InitPackage
    BY <2>1, OthersKeep DEF InitPackage
  <2> QED BY <1>4, <2>1, TickKeeps, ProveKeeps, VerifyProofKeeps DEF ProofNext
<1> QED BY <1>1, <1>2, <1>3, <1>4 DEF SdkNext

LEMMA SdkInvariance == SdkSpec => []SdkInv
  BY SdkInitHolds, SdkStepKeeps, PTL DEF SdkSpec

\* The auditor accepts a receipt that a program wrote to exactly when what is read
\* from it is as it was signed, for any tools and times.
THEOREM AcceptedAsSigned == SdkSpec => []AcceptedIsAsSigned
  BY SdkInvariance, InvariantMeansAsSigned, PTL

\* Proofs and lists keep the times they were given, for any clock and any width of
\* the wasm interface.
THEOREM TimesKept == SdkSpec => []TimesAreKept
<1>1. SdkInv => TimesAreKept
  BY DEF SdkInv
<1> QED BY <1>1, SdkInvariance, PTL

LEMMA Classified == \A kind, words : ErrorClass(kind, words) \in ErrorClasses
  BY DEF ErrorClass, ErrorClasses

LEMMA OpsNamed == {"audit", "publish"} \subseteq Ops
<1>1. "audit" \in DOMAIN AuditorOps /\ "publish" \in DOMAIN RevokerOps
  BY DEF AuditorOps, RevokerOps
<1>2. AuditorOps \in Classes /\ RevokerOps \in Classes
  BY DEF Classes
<1> QED BY <1>1, <1>2 DEF Ops

FailureOK == failure # Nothing => failure.op \in Ops /\ failure.class \in ErrorClasses

SdkTypes == /\ ready \in BOOLEAN /\ audited \in {Nothing, "intact", "rejected"} /\ FailureOK
            /\ published # Nothing => published.issuedAtMs \in 0..(Width64 - 1)

LEMMA FailedIsNamed ==
    ASSUME NEW op \in Ops, NEW why, NEW words, NEW class \in ErrorClasses,
           Failed(op, why, words, class)
    PROVE  FailureOK'
  BY DEF Failed, FailureOK

LEMMA SdkStepKeepsTypes == SdkTypes /\ [SdkNext]_sdkVars => SdkTypes'
<1> SUFFICES ASSUME SdkTypes, [SdkNext]_sdkVars PROVE SdkTypes'
  OBVIOUS
<1>1. CASE UNCHANGED sdkVars
  BY <1>1 DEF sdkVars, SdkTypes, FailureOK
<1>2. CASE InitPackage \/ Tick
  BY <1>2 DEF InitPackage, Tick, SdkTypes, FailureOK
<1>3. ASSUME NEW op \in Ops, TooEarly(op) PROVE SdkTypes'
  <2>1. FailureOK'
    BY <1>3, FailedIsNamed DEF TooEarly, ErrorClasses
  <2> QED BY <1>3, <2>1 DEF TooEarly, SdkTypes
<1>4. ASSUME NEW op \in Ops, NEW cause \in Causes(op), Throw(op, cause) PROVE SdkTypes'
  <2>1. FailureOK'
    BY <1>4, Classified, FailedIsNamed DEF Throw
  <2> QED BY <1>4, <2>1 DEF Throw, SdkTypes
<1>5. ASSUME NEW ms \in Given, Publish(ms) PROVE SdkTypes'
  <2>1. UNCHANGED <<ready, audited>>
    BY <1>5 DEF Publish
  <2>2. CASE Publishable(ms)
    <3>1. published' = [given |-> ms, issuedAtMs |-> ms % Width64] /\ failure' = failure
      BY <1>5, <2>2 DEF Publish
    <3>2. ms \in Int /\ Width64 \in Nat \ {0}
      BY <2>2, GivenAssumption DEF Publishable
    <3>3. ms % Width64 \in 0..(Width64 - 1)
      BY <3>2
    <3> QED BY <2>1, <3>1, <3>3 DEF SdkTypes, FailureOK
  <2>3. CASE ~Publishable(ms)
    <3>1. Failed("publish", "number", {}, "CapabilityError") /\ published' = published
      BY <1>5, <2>3 DEF Publish
    <3>2. FailureOK'
      BY <3>1, OpsNamed, FailedIsNamed DEF ErrorClasses
    <3> QED BY <2>1, <3>1, <3>2 DEF SdkTypes
  <2> QED BY <2>2, <2>3
<1>6. CASE Audit
  <2>1. ready' = ready /\ published' = published /\ audited' \in {"intact", "rejected"}
    BY <1>6 DEF Audit
  <2>2. FailureOK'
    <3>1. CASE ToRaw(held) = signed
      BY <1>6, <3>1 DEF Audit, SdkTypes, FailureOK
    <3>2. CASE ToRaw(held) # signed
      <4>1. Failed("audit", "receipt", {"signature"}, ErrorClass(Kind("audit"), {"signature"}))
        BY <1>6, <3>2 DEF Audit
      <4> QED BY <4>1, OpsNamed, Classified, FailedIsNamed
    <3> QED BY <3>1, <3>2
  <2> QED BY <2>1, <2>2 DEF SdkTypes
<1>7. ASSUME NEW ctx, NEW kind, Verify(ctx, kind) PROVE SdkTypes'
  BY <1>7 DEF Verify, SdkTypes, FailureOK
<1>8. ASSUME NEW field, Write(field) PROVE SdkTypes'
  BY <1>8 DEF Write, SdkTypes, FailureOK
<1>9. ASSUME NEW ctx, Prove(ctx) \/ VerifyProof(ctx) PROVE SdkTypes'
  BY <1>9 DEF Prove, VerifyProof, SdkTypes, FailureOK
<1> QED BY <1>1, <1>2, <1>3, <1>4, <1>5, <1>6, <1>7, <1>8, <1>9
           DEF SdkNext, CallNext, ReceiptNext, ProofNext

\* Errors are of the package's classes or plain ones, and times are in their range.
THEOREM SdkTypeCorrect == SdkSpec => []SdkTypeOK
<1>1. SdkInit => SdkTypes
  BY DEF SdkInit, SdkTypes, FailureOK
<1>2. SdkInv /\ SdkTypes => SdkTypeOK
  <2> SUFFICES ASSUME SdkInv, SdkTypes PROVE SdkTypeOK
    OBVIOUS
  <2>1. now \in 0..MaxNow /\ (proof # Nothing => proof.challenge.nowMs \in 0..MaxNow)
    <3>1. ASSUME proof # Nothing PROVE proof.challenge.nowMs \in 0..MaxNow
      <4>1. PICK t \in 0..MaxNow : proof.challenge = ChallengeOf(proof.written, t)
        BY <3>1 DEF SdkInv, TimesOK
      <4>2. proof.written \in Contexts
        BY <3>1 DEF SdkInv, TimesOK
      <4> QED BY <4>1, <4>2 DEF ChallengeOf, Contexts
    <3> QED BY <3>1 DEF SdkInv, TimesOK
  <2> QED BY <2>1 DEF SdkTypes, FailureOK, SdkTypeOK
<1> QED BY <1>1, <1>2, SdkInvariance, SdkStepKeepsTypes, PTL DEF SdkSpec

-----------------------------------------------------------------------------
\* Which calls fail in which way.
Told(op, kind) ==
    /\ kind = "audit" => op \in DOMAIN AuditorOps
    /\ kind = "either" => op \in DOMAIN VerifyOps \cup DOMAIN ProofOps
    /\ op \in DOMAIN VerifyOps \cup DOMAIN ProofOps => kind \in {"chain", "either"}
    /\ op = "audit" => kind = "audit"

LEMMA ClassesAreTold == \A class \in Classes : \A op \in DOMAIN class : Told(op, class[op])
<1>1. \A op \in DOMAIN CapabilityOps : Told(op, CapabilityOps[op])
  BY DEF CapabilityOps, Told, VerifyOps, ProofOps
<1>2. \A op \in DOMAIN BuilderOps : Told(op, BuilderOps[op])
  BY DEF BuilderOps, Told, VerifyOps, ProofOps
<1>3. \A op \in DOMAIN IssuerOps : Told(op, IssuerOps[op])
  BY DEF IssuerOps, Told, VerifyOps, ProofOps
<1>4. \A op \in DOMAIN AuditorOps : Told(op, AuditorOps[op])
  BY DEF AuditorOps, Told, VerifyOps, ProofOps
<1>5. \A op \in DOMAIN ListOps : Told(op, ListOps[op])
  BY DEF ListOps, Told, VerifyOps, ProofOps
<1>6. \A op \in DOMAIN RevokerOps : Told(op, RevokerOps[op])
  BY DEF RevokerOps, Told, VerifyOps, ProofOps
<1>7. \A op \in DOMAIN StoreOps : Told(op, StoreOps[op])
  BY DEF StoreOps, Told, VerifyOps, ProofOps
<1>8. \A op \in DOMAIN ConfigOps : Told(op, ConfigOps[op])
  BY DEF ConfigOps, Told, VerifyOps, ProofOps
<1>9. \A op \in DOMAIN StatusOps : Told(op, StatusOps[op])
  BY DEF StatusOps, Told, VerifyOps, ProofOps
<1>10. \A op \in DOMAIN VerifyOps : Told(op, VerifyOps[op])
  BY DEF VerifyOps, Told, ProofOps
<1>11. \A op \in DOMAIN ProofOps : Told(op, ProofOps[op])
  BY DEF VerifyOps, Told, ProofOps
<1>12. \A op \in DOMAIN ChallengeOps : Told(op, ChallengeOps[op])
  BY DEF ChallengeOps, Told, VerifyOps, ProofOps
<1> QED BY <1>1, <1>2, <1>3, <1>4, <1>5, <1>6, <1>7, <1>8, <1>9, <1>10, <1>11, <1>12 DEF Classes

LEMMA KindIsTold == ASSUME NEW op \in Ops PROVE Told(op, Kind(op))
<1>1. \E class \in Classes : op \in DOMAIN class
  BY DEF Ops
<1> DEFINE class == CHOOSE class \in Classes : op \in DOMAIN class
<1>2. class \in Classes /\ op \in DOMAIN class
  BY <1>1
<1>3. Kind(op) = class[op]
  BY DEF Kind
<1> HIDE DEF class
<1> QED BY <1>2, <1>3, ClassesAreTold

\* A refusal is classified by its cause.
LEMMA RefusalsAreTold ==
    ASSUME NEW op \in Ops, NEW cause \in Causes(op),
           NEW class, class = ErrorClass(Kind(op), cause.words)
    PROVE  /\ cause.why \notin {"not ready", "number"}
           /\ cause.why = "chain" => class = "CapabilityChainError"
           /\ cause.why = "receipt" => class = "CapabilityAuditError"
           /\ class = "CapabilityAuditError" =>
                  op \in DOMAIN AuditorOps \/ (cause.why = "argument" /\ cause.words # {})
<1>1. Told(op, Kind(op))
  BY KindIsTold
<1>2. /\ cause.why \in {"chain", "receipt", "list", "argument", "handle"}
      /\ cause.why = "chain" => op \in DOMAIN VerifyOps \cup DOMAIN ProofOps
                                /\ cause.words = {"chain", "signature"}
      /\ cause.why = "receipt" => op = "audit"
      /\ cause.why = "list" => op = "withRevocationList"
      /\ cause.why = "handle" => cause.words = {}
  BY DEF Causes
<1>3. op = "withRevocationList" => op \notin DOMAIN VerifyOps \cup DOMAIN ProofOps
  BY DEF VerifyOps, ProofOps
<1>4. ErrorClass("audit", cause.words) = "CapabilityAuditError"
  BY DEF ErrorClass
<1>5. cause.why = "chain" => class = "CapabilityChainError"
  BY <1>1, <1>2 DEF Told, ErrorClass
<1>6. cause.why = "receipt" => class = "CapabilityAuditError"
  BY <1>1, <1>2, <1>4 DEF Told
<1>7. ASSUME class = "CapabilityAuditError", op \notin DOMAIN AuditorOps
      PROVE  cause.why = "argument" /\ cause.words # {}
  <2>1. Kind(op) = "either" /\ cause.words \ {"chain"} # {} /\ "chain" \notin cause.words
    BY <1>1, <1>7 DEF Told, ErrorClass
  <2>2. op \in DOMAIN VerifyOps \cup DOMAIN ProofOps
    BY <1>1, <2>1 DEF Told
  <2>3. op # "audit"
    BY <2>2 DEF VerifyOps, ProofOps
  <2> QED BY <1>2, <1>3, <2>1, <2>2, <2>3
<1> QED BY <1>2, <1>5, <1>6, <1>7

\* For any tools and times, the class of an error says what went wrong where its caller
\* must tell a bad token from a bad receipt, but for what quotes the caller.
THEOREM ErrorsAreTold == SdkSpec => []ErrorsNameTheirCause
<1>1. SdkInit => ErrorsNameTheirCause
  BY DEF SdkInit, ErrorsNameTheirCause
<1>2. ErrorsNameTheirCause /\ [SdkNext]_sdkVars => ErrorsNameTheirCause'
  <2> SUFFICES ASSUME ErrorsNameTheirCause, [SdkNext]_sdkVars PROVE ErrorsNameTheirCause'
    OBVIOUS
  <2>1. failure' = failure => ErrorsNameTheirCause'
    BY DEF ErrorsNameTheirCause
  <2>2. ASSUME NEW op \in Ops, TooEarly(op) PROVE ErrorsNameTheirCause'
    BY <2>2 DEF TooEarly, Failed, ErrorsNameTheirCause
  <2>3. ASSUME NEW op \in Ops, NEW cause \in Causes(op), Throw(op, cause)
        PROVE  ErrorsNameTheirCause'
    <3> DEFINE class == ErrorClass(Kind(op), cause.words)
    <3>1. failure' = [op |-> op, why |-> cause.why, words |-> cause.words, class |-> class]
      BY <2>3 DEF Throw, Failed
    <3>2. /\ cause.why \notin {"not ready", "number"}
          /\ cause.why = "chain" => class = "CapabilityChainError"
          /\ cause.why = "receipt" => class = "CapabilityAuditError"
          /\ class = "CapabilityAuditError" =>
                 op \in DOMAIN AuditorOps \/ (cause.why = "argument" /\ cause.words # {})
      BY RefusalsAreTold
    <3> HIDE DEF class
    <3> QED BY <3>1, <3>2 DEF ErrorsNameTheirCause
  <2>4. CASE Audit
    <3>1. CASE ToRaw(held) = signed
      BY <2>1, <2>4, <3>1 DEF Audit
    <3>2. CASE ToRaw(held) # signed
      <4>1. failure' = [op |-> "audit", why |-> "receipt", words |-> {"signature"},
                        class |-> ErrorClass(Kind("audit"), {"signature"})]
        BY <2>4, <3>2 DEF Audit, Failed
      <4>2. Kind("audit") = "audit" /\ "audit" \in DOMAIN AuditorOps
        BY OpsNamed, KindIsTold DEF Told, AuditorOps
      <4>3. ErrorClass(Kind("audit"), {"signature"}) = "CapabilityAuditError"
        BY <4>2 DEF ErrorClass
      <4> QED BY <4>1, <4>2, <4>3 DEF ErrorsNameTheirCause
    <3> QED BY <3>1, <3>2
  <2>5. ASSUME NEW ms \in Given, Publish(ms) PROVE ErrorsNameTheirCause'
    <3>1. CASE Publishable(ms)
      BY <2>1, <2>5, <3>1 DEF Publish
    <3>2. CASE ~Publishable(ms)
      <4>1. failure' = [op |-> "publish", why |-> "number", words |-> {},
                        class |-> "CapabilityError"]
        BY <2>5, <3>2 DEF Publish, Failed
      <4> QED BY <4>1 DEF ErrorsNameTheirCause
    <3> QED BY <3>1, <3>2
  <2>6. CASE UNCHANGED sdkVars
    BY <2>1, <2>6 DEF sdkVars
  <2>7. CASE InitPackage \/ Tick
    BY <2>1, <2>7 DEF InitPackage, Tick
  <2>8. ASSUME NEW ctx, NEW kind, Verify(ctx, kind) PROVE ErrorsNameTheirCause'
    BY <2>1, <2>8 DEF Verify
  <2>9. ASSUME NEW field, Write(field) PROVE ErrorsNameTheirCause'
    BY <2>1, <2>9 DEF Write
  <2>10. ASSUME NEW ctx, Prove(ctx) \/ VerifyProof(ctx) PROVE ErrorsNameTheirCause'
    BY <2>1, <2>10 DEF Prove, VerifyProof
  <2> QED BY <2>2, <2>3, <2>4, <2>5, <2>6, <2>7, <2>8, <2>9, <2>10
             DEF SdkNext, CallNext, ReceiptNext, ProofNext
<1> QED BY <1>1, <1>2, PTL DEF SdkSpec
=============================================================================
