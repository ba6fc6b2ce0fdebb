------------------------ MODULE CapabilityLifecycle ------------------------
(***************************************************************************)
(* Minting and attenuating capabilities: Issuer::issue, CapabilityBuilder  *)
(* and Capability::attenuate (crates/capnagent-core/src/issuer.rs and      *)
(* capability.rs).  Capability::parse makes a record of any contents with  *)
(* any signature bytes and checks nothing, so the properties quantify over *)
(* such records and ask what Verifier::verify makes of them.               *)
(***************************************************************************)
EXTENDS MacaroonChain, SequencesExt

CONSTANTS NoBuilder,    \* no CapabilityBuilder is alive
          MaxCaveats,   \* bound on the caveats of a capability
          MaxBindings,  \* bound on holder_of_key calls per builder
          MaxTokens     \* bound on the capabilities made

ASSUME MaxCaveatsAssumption == MaxCaveats \in Nat

VARIABLES builder,  \* the CapabilityBuilder in progress
          tokens    \* the capabilities made: each with its history, the root
                    \* key, caveats and holder_of_key calls it was built from

vars == <<builder, tokens>>

Init == /\ builder = NoBuilder
        /\ tokens = {}

\* Issuer::issue: sig_0 = HMAC(root_key, identifier).
Issue(root, id) ==
    /\ builder = NoBuilder
    /\ builder' = [cap |-> Capability(id, NoKey, <<>>, ChainStart(root, id)),
                   root |-> root, bindings |-> <<>>]
    /\ UNCHANGED tokens

\* Mutant: the binding is a field only, no step of the chain.
HolderOfKey_Unchained(key) ==
    /\ builder # NoBuilder
    /\ builder.cap.caveats = <<>>
    /\ Len(builder.bindings) < MaxBindings
    /\ builder' = [builder EXCEPT !.cap.holder_of_key = key,
                                  !.bindings = Append(@, key)]
    /\ UNCHANGED tokens

\* CapabilityBuilder::holder_of_key before any caveat: the step is chained onto
\* the signature as it stands, and the field is overwritten.
HolderOfKey(key) ==
    /\ builder # NoBuilder
    /\ builder.cap.caveats = <<>>
    /\ Len(builder.bindings) < MaxBindings
    /\ builder' = [builder EXCEPT
                     !.cap.signature = ChainHolderOfKey(@, key),
                     !.cap.holder_of_key = key,
                     !.bindings = Append(@, key)]
    /\ UNCHANGED tokens

\* holder_of_key after a caveat, or with a key that is not 32 bytes, panics and
\* the builder is gone; so is one that is never built.
DropBuilder ==
    /\ builder # NoBuilder
    /\ builder' = NoBuilder
    /\ UNCHANGED tokens

\* A capability with one more caveat, chained from its own signature.
WithCaveat(cap, predicate) ==
    [cap EXCEPT !.caveats = Append(@, predicate),
                !.signature = ChainCaveat(@, predicate)]

\* CapabilityBuilder::caveat
AddCaveat(predicate) ==
    /\ builder # NoBuilder
    /\ Len(builder.cap.caveats) < MaxCaveats
    /\ builder' = [builder EXCEPT !.cap = WithCaveat(@, predicate)]
    /\ UNCHANGED tokens

\* CapabilityBuilder::build: the core asks for no minimum of caveats.
Build ==
    /\ builder # NoBuilder
    /\ Cardinality(tokens) < MaxTokens
    /\ tokens' = tokens \cup
           {[cap |-> builder.cap, root |-> builder.root,
             bindings |-> builder.bindings, caveats |-> builder.cap.caveats]}
    /\ builder' = NoBuilder

\* Mutant: the new caveat is listed but the signature stays.
Attenuate_Unchained(t, predicate) ==
    /\ Len(t.cap.caveats) < MaxCaveats
    /\ Cardinality(tokens) < MaxTokens
    /\ tokens' = tokens \cup
           {[t EXCEPT !.cap.caveats = Append(@, predicate)]}
    /\ UNCHANGED builder

\* Capability::attenuate, which any holder can call; other copies of the
\* capability stay in circulation.
Attenuate(t, predicate) ==
    /\ Len(t.cap.caveats) < MaxCaveats
    /\ Cardinality(tokens) < MaxTokens
    /\ tokens' = tokens \cup {[t EXCEPT !.cap = WithCaveat(@, predicate)]}
    /\ UNCHANGED builder

Next ==
    \/ \E root \in Roots, id \in Ids : Issue(root, id)
    \/ \E key \in Keys : HolderOfKey(key)
    \/ \E predicate \in Predicates : AddCaveat(predicate)
    \/ Build
    \/ DropBuilder
    \/ \E t \in tokens, predicate \in Predicates : Attenuate(t, predicate)

Spec == Init /\ [][Next]_vars

-----------------------------------------------------------------------------
CaveatLists == SeqOf(Predicates, MaxCaveats)
Signatures == Seq(Roots \cup Ids \cup Messages)
Capabilities ==
    [identifier : Ids, holder_of_key : Keys \cup {NoKey},
     caveats : CaveatLists, signature : Signatures]

\* The builder and the capabilities made are well formed.
TypeOK ==
    /\ builder # NoBuilder =>
           builder \in [cap : Capabilities, root : Roots, bindings : Seq(Keys)]
    /\ tokens \subseteq [cap : Capabilities, root : Roots,
                         bindings : Seq(Keys), caveats : CaveatLists]

\* The signatures a holder can write into a record: those of the capabilities
\* in circulation, as they are or with one more message chained on.
WireSignatures ==
    {t.cap.signature : t \in tokens} \cup
    {Append(t.cap.signature, m) : t \in tokens, m \in Messages}

\* The record Capability::parse may return.
WireRecords ==
    [identifier : Ids, holder_of_key : Keys \cup {NoKey},
     caveats : CaveatLists, signature : WireSignatures]

\* The record cap carries the identifier and every caveat of what was built
\* into t, in order, and is bound to the same holder (a capability built without
\* a binding and without caveats may have acquired one).
Extends(cap, t) ==
    /\ cap.identifier = t.cap.identifier
    /\ IsPrefix(t.caveats, cap.caveats)
    /\ \/ t.bindings = <<cap.holder_of_key>>
       \/ t.bindings = <<>> /\ (cap.holder_of_key = NoKey \/ t.caveats = <<>>)

\* Whatever a record claims, it verifies under a root key only if that key
\* minted a capability that the record extends: no caveat is ever dropped,
\* reordered or rewritten, no binding removed or exchanged, no root confused.
VerifiedExtendsMinted ==
    \A root \in Roots, cap \in WireRecords :
        Verifies(root, cap) => \E t \in tokens : t.root = root /\ Extends(cap, t)

\* What build() and attenuate() return verifies under the root key it was issued
\* with, and under no other, when the builder was bound to at most one key.
BuiltVerifies ==
    \A t \in tokens, root \in Roots :
        Len(t.bindings) <= 1 => (Verifies(root, t.cap) <=> root = t.root)

\* The comment of holder_of_key: "Calling this twice replaces the previous binding
\* and rebuilds the chain from the identifier".  Then what is built has the chain
\* of its identifier, its last binding and its caveats, and verifies.
RebindingRebuilds == \A t \in tokens : Verifies(t.root, t.cap)

\* Two capabilities with the same signature have the same contents.
SignatureBindsContents ==
    \A s, t \in tokens : s.cap.signature = t.cap.signature => s.cap = t.cap
=============================================================================
