------------------------------ MODULE Handles ------------------------------
(***************************************************************************)
(* The objects a program holds behind the JavaScript and Python bindings   *)
(* (crates/capnagent-wasm/src/lib.rs under packages/capnagent/src/index.ts;*)
(* crates/capnagent-py/src/lib.rs).  The core's builder methods consume    *)
(* their receiver, so an object may be left without a value, and a refused *)
(* call leaves the two bindings in different states: a method of the wasm  *)
(* crate that takes `self` has emptied its handle before its body runs, a  *)
(* method of the Python crate takes the value out when all checks passed.  *)
(* Programs catch errors and go on with whatever objects they hold; a call *)
(* on an object without a value throws and changes nothing.                *)
(***************************************************************************)
EXTENDS Integers

CONSTANTS Objects,    \* wrappers of builders and capabilities
          Good,       \* predicates that parse
          Bad,        \* predicates that do not
          Key,        \* the binding to a key of 32 bytes
          ShortKey,   \* that to a key of another length
          Lists,      \* revocation lists with the verifier's signature
          Forged,     \* a list without it
          NoList,     \* no list is installed
          Lifetimes,  \* lifetimes of nonces a program may ask for
          Width,      \* stands for 2^64, the numbers of a u64
          Unused,     \* no such wrapper yet
          Gone        \* the wrapper's value was consumed or freed

ASSUME RequestsAssumption == /\ Good \cap (Bad \cup {Key, ShortKey}) = {}
                             /\ Key \notin Bad \cup {ShortKey}
ASSUME VerifierAssumption == /\ Lists \cap {Forged, NoList} = {}
                             /\ Width \in Nat \ {0} /\ Lifetimes \subseteq Nat

\* What a verifier can be configured with.
Configs == [store : BOOLEAN, lifetime : Nat, list : Lists \cup {NoList}]

ASSUME GoneAssumption == Gone \notin Configs

VARIABLES binding,   \* "js" or "py"
          object,    \* the wrappers of builders and capabilities
          verifier,  \* the value of the one Verifier wrapper
          told,      \* what the calls that returned say is configured
          disposed,  \* the Verifier wrapper was disposed of
          poisoned   \* a panic left the wasm instance in an unknown state

vars == <<binding, object, verifier, told, disposed, poisoned>>

\* A capability is the set of restrictions it carries.
Restrictions == Good \cup {Key}
Requests == Restrictions \cup Bad \cup {ShortKey}

\* `asked` is history: the restrictions the program asked this wrapper for, and
\* the wrappers this one comes from.
Wrapper(class, value, asked) == [class |-> class, value |-> value, asked |-> asked]

Init == /\ binding \in {"js", "py"}
        /\ object = [o \in Objects |-> Unused]
        /\ verifier = [store |-> FALSE, lifetime |-> 0, list |-> NoList]
        /\ told = verifier
        /\ disposed = FALSE
        /\ poisoned = FALSE

Holds(o, class) == /\ object[o] # Unused
                   /\ object[o].class = class
                   /\ object[o].value # Gone

\* What a call asking for r leaves of o: nothing, or its value.
Emptied(o, r) == [object[o] EXCEPT !.value = Gone, !.asked = @ \cup r]
Kept(o, r) == [object[o] EXCEPT !.asked = @ \cup r]

\* A call on o leaves `left` of it, and throws or returns the new wrapper n.
Throws(o, left) ==
    /\ object' = [object EXCEPT ![o] = left]
    /\ UNCHANGED <<binding, verifier, told, disposed, poisoned>>

Returns(o, left, n, new) ==
    /\ object[n] = Unused
    /\ object' = [object EXCEPT ![o] = left, ![n] = new]
    /\ UNCHANGED <<binding, verifier, told, disposed, poisoned>>

-----------------------------------------------------------------------------
\* Builders and capabilities

\* Issuer.issue
Issue(n) ==
    /\ object[n] = Unused
    /\ object' = [object EXCEPT ![n] = Wrapper("builder", {}, {})]
    /\ UNCHANGED <<binding, verifier, told, disposed, poisoned>>

\* Mutant: both bindings check before they take the value.
Refuse_Retryable(o, r) == Throws(o, Kept(o, {r}))

\* A check on the argument fails: the handle of the wasm crate is empty, the
\* object of the Python crate as it was.
Refuse(o, r) == Throws(o, IF binding = "js" THEN Emptied(o, {r}) ELSE Kept(o, {r}))

\* A builder takes a restriction: the value moves to a new wrapper.
Restrict(o, r, n) ==
    Returns(o, Emptied(o, {r}), n,
            Wrapper("builder", object[o].value \cup {r}, object[o].asked \cup {r}))

\* CapabilityBuilder.caveat
Caveat(o, p, n) ==
    /\ Holds(o, "builder")
    /\ \/ p \in Bad /\ Refuse(o, p)
       \/ p \in Good /\ Restrict(o, p, n)

\* CapabilityBuilder.holderOfKey.  After a caveat the core's assertion fails when
\* the value is taken: wasm traps, in Python the panic unwinds.
HolderOfKey(o, k, n) ==
    /\ Holds(o, "builder")
    /\ \/ k = ShortKey /\ Refuse(o, k)
       \/ k = Key /\ object[o].value \cap Good = {} /\ Restrict(o, k, n)
       \/ /\ k = Key
          /\ object[o].value \cap Good # {}
          /\ object' = [object EXCEPT ![o] = Emptied(o, {k})]
          /\ poisoned' = (poisoned \/ binding = "js")
          /\ UNCHANGED <<binding, verifier, told, disposed>>

\* Mutant: a binding counts as a caveat.
MayBuild_Bound(value) == value # {}

\* caveat_count() is not zero
MayBuild(value) == value \cap Good # {}

\* CapabilityBuilder.build: both bindings take the value before they check it.
Build(o, n) ==
    /\ Holds(o, "builder")
    /\ IF MayBuild(object[o].value)
       THEN Returns(o, Emptied(o, {}), n,
                    Wrapper("capability", object[o].value, object[o].asked))
       ELSE Throws(o, Emptied(o, {}))

\* Capability.attenuate consumes in JavaScript.  In Python it is a function of a
\* copy, and the wrapper stands for the parent before and after.
Attenuate(o, p, n) ==
    /\ Holds(o, "capability")
    /\ \/ p \in Bad /\ binding = "js" /\ Refuse(o, p)
       \/ p \in Bad /\ binding = "py" /\ UNCHANGED vars
       \/ /\ p \in Good
          /\ Returns(o, IF binding = "js" THEN Emptied(o, {p}) ELSE object[o], n,
                     Wrapper("capability", object[o].value \cup {p},
                             object[o].asked \cup {p}))

\* Capability.parse of the token that serialize() made of o
Reparse(o, n) ==
    /\ Holds(o, "capability")
    /\ Returns(o, object[o], n, Wrapper("capability", object[o].value, object[o].value))

\* Capability.dispose
Dispose(o) ==
    /\ binding = "js"
    /\ Holds(o, "capability")
    /\ Throws(o, Emptied(o, {}))

\* The program drops its last reference to o; the finalizer frees the handle.
Collect(o) ==
    /\ object[o] # Unused
    /\ Throws(o, Unused)

-----------------------------------------------------------------------------
\* The verifier

\* A configuring call that returns.
Configured(value, reported) ==
    /\ verifier # Gone
    /\ verifier' = value
    /\ told' = reported
    /\ UNCHANGED <<binding, object, disposed, poisoned>>

\* Verifier.withNonceStore: in JavaScript the handle is consumed and the wrapper
\* has the one returned.
WithNonceStore == Configured([verifier EXCEPT !.store = TRUE],
                             [told EXCEPT !.store = TRUE])

\* Verifier.withNonceTtlMs of a non-negative integer.  A BigInt enters wasm as a
\* 64 bit value; a Python int beyond a u64 is an OverflowError.
WithNonceTtlMs(ms) ==
    /\ binding = "py" => ms < Width
    /\ Configured([verifier EXCEPT !.lifetime = ms % Width],
                  [told EXCEPT !.lifetime = ms])

\* Mutant: as the core's method, which takes the verifier and then checks.
WithRevocationList_Consuming(list) ==
    IF list = Forged THEN Configured(Gone, told)
    ELSE Configured([verifier EXCEPT !.list = list], [told EXCEPT !.list = list])

\* Verifier.withRevocationList: the signature is checked before the value is
\* taken, in both bindings.
WithRevocationList(list) ==
    IF list = Forged THEN UNCHANGED vars
    ELSE Configured([verifier EXCEPT !.list = list], [told EXCEPT !.list = list])

\* Verifier.verifyWithContextJson of a context without nowMs: SystemTime::now()
\* panics on wasm32.  The other verifying calls change no object.
ClockPanics ==
    /\ binding = "js" /\ verifier # Gone
    /\ \E o \in Objects : Holds(o, "capability")
    /\ poisoned' = TRUE
    /\ UNCHANGED <<binding, object, verifier, told, disposed>>

\* Any call into the poisoned instance may fail; one that consumes has emptied
\* the handle.
PoisonedCall(o) ==
    /\ poisoned /\ object[o] # Unused
    /\ Throws(o, Emptied(o, {}))

PoisonedConfiguring ==
    /\ poisoned
    /\ verifier' = Gone
    /\ UNCHANGED <<binding, object, told, disposed, poisoned>>

\* Verifier.dispose
DisposeVerifier ==
    /\ binding = "js"
    /\ verifier' = Gone
    /\ disposed' = TRUE
    /\ UNCHANGED <<binding, object, told, poisoned>>

Next == \/ \E n \in Objects : Issue(n)
        \/ \E o, n \in Objects :
              \/ \E p \in Good \cup Bad : Caveat(o, p, n) \/ Attenuate(o, p, n)
              \/ \E k \in {Key, ShortKey} : HolderOfKey(o, k, n)
              \/ Build(o, n) \/ Reparse(o, n)
        \/ \E o \in Objects : Dispose(o) \/ Collect(o) \/ PoisonedCall(o)
        \/ WithNonceStore
        \/ \E ms \in Lifetimes : WithNonceTtlMs(ms)
        \/ \E list \in Lists \cup {Forged} : WithRevocationList(list)
        \/ ClockPanics \/ PoisonedConfiguring \/ DisposeVerifier

Spec == Init /\ [][Next]_vars

-----------------------------------------------------------------------------
\* Properties

\* Every variable has its type, and the lifetime of a verifier is a u64.
TypeOK ==
    /\ binding \in {"js", "py"}
    /\ object \in [Objects -> [class : {"builder", "capability"},
                               value : (SUBSET Restrictions) \cup {Gone},
                               asked : SUBSET Requests] \cup {Unused}]
    /\ verifier \in Configs \cup {Gone}
    /\ verifier # Gone => verifier.lifetime < Width
    /\ told \in Configs
    /\ disposed \in BOOLEAN /\ poisoned \in BOOLEAN

\* Whatever errors a program catches and whichever wrapper it goes on with, what
\* it holds carries every restriction it was granted on the way there; behind
\* JavaScript also nothing it was refused, for a refusal empties the wrapper, so
\* a program cannot mint without a caveat it asked for (caveat, holderOfKey and
\* attenuate of both crates).
NarrowingIsKept ==
    \A o \in Objects : object[o] # Unused /\ object[o].value # Gone =>
        /\ object[o].asked \cap Restrictions \subseteq object[o].value
        /\ binding = "js" => object[o].asked \subseteq Restrictions

\* No sequence of calls makes a capability without a caveat (build of both
\* crates; the core does not check).
NothingUnrestricted ==
    \A o \in Objects : Holds(o, "capability") => object[o].value \cap Good # {}

\* A verifier in hand has what the program was told it has, and a failed call
\* does not cost the program its verifier: it is gone only by dispose, or in an
\* instance that a panic broke.  A lifetime of 2^64 and more is not kept.
ConfigIsAsTold ==
    /\ verifier # Gone =>
          /\ verifier.store = told.store /\ verifier.list = told.list
          /\ told.lifetime < Width => verifier.lifetime = told.lifetime
    /\ verifier = Gone => disposed \/ poisoned

=============================================================================
