-------------------------- MODULE CapabilityProofs --------------------------
(***************************************************************************)
(* The chain of a capability, and what its caveats decide.                 *)
(*                                                                         *)
(* For any roots, identifiers, keys, predicates and numbers of caveats,    *)
(* bindings and capabilities: what the signature chain guarantees.  The    *)
(* theorems that need it carry the hypothesis that no caveat predicate is  *)
(* spelled like a binding message; CapabilityHokPrefix.cfg shows that the  *)
(* code does not ensure it.                                                *)
(*                                                                         *)
(* For any contexts, timestamps and literals: the instants that a caveat   *)
(* compares, and the facts it may hold of.                                 *)
(*                                                                         *)
(* For a predicate of any number of tokens: the parser and the evaluator   *)
(* against the documented grammar.                                         *)
(***************************************************************************)
EXTENDS CapabilityLifecycle, CaveatDsl, CaveatValues, SequenceTheorems, FiniteSetTheorems,
        WellFoundedInduction, TLAPS

Values == Roots \cup Ids \cup Messages

\* No predicate consists of "__hok:" followed by the bytes of a public key.
DomainSeparation == \A k \in Keys : HokMessage[k] \notin Predicates

\* The signature sig holds exactly this root, identifier, bindings and caveats.
ChainOf(sig, root, id, bindings, caveats) ==
    /\ Len(sig) = 2 + Len(bindings) + Len(caveats)
    /\ sig[1] = root
    /\ sig[2] = id
    /\ \A i \in 1..Len(bindings) : sig[2 + i] = HokMessage[bindings[i]]
    /\ \A i \in 1..Len(caveats) : sig[2 + Len(bindings) + i] = caveats[i]

\* The holder_of_key field after these holder_of_key calls.
LastBinding(bindings) ==
    IF bindings = <<>> THEN NoKey ELSE bindings[Len(bindings)]

\* The record's signature is the chain of its history.
Chained(cap, root, bindings) ==
    /\ ChainOf(cap.signature, root, cap.identifier, bindings, cap.caveats)
    /\ cap.holder_of_key = LastBinding(bindings)

\* A sequence starts with another, position by position.
StartsWith(s, t) == Len(t) <= Len(s) /\ \A i \in 1..Len(t) : s[i] = t[i]

BuilderInv == builder # NoBuilder =>
                  Chained(builder.cap, builder.root, builder.bindings)
TokensInv == \A t \in tokens : /\ Chained(t.cap, t.root, t.bindings)
                               /\ StartsWith(t.cap.caveats, t.caveats)

IInv == TypeOK /\ BuilderInv /\ TokensInv

-----------------------------------------------------------------------------
\* The bounded sequences TLC enumerates are the sequences up to that length.
LEMMA CaveatListsAreSequences ==
    \A s : s \in CaveatLists <=> s \in Seq(Predicates) /\ Len(s) <= MaxCaveats
<1> TAKE s
<1>1. ASSUME s \in CaveatLists
      PROVE  s \in Seq(Predicates) /\ Len(s) <= MaxCaveats
  <2>1. PICK m \in 0..MaxCaveats : s \in [1..m -> Predicates]
    BY <1>1 DEF CaveatLists, SeqOf
  <2>2. m \in Nat /\ m <= MaxCaveats
    BY MaxCaveatsAssumption
  <2> QED BY <2>1, <2>2
<1>2. ASSUME s \in Seq(Predicates), Len(s) <= MaxCaveats
      PROVE  s \in CaveatLists
  <2>1. Len(s) \in 0..MaxCaveats /\ s \in [1..Len(s) -> Predicates]
    BY <1>2, LenProperties, MaxCaveatsAssumption
  <2> QED BY <2>1 DEF CaveatLists, SeqOf
<1> QED BY <1>1, <1>2

\* Chaining one message keeps the chain and adds the message at its end.
LEMMA AppendToSignature ==
    ASSUME NEW sig \in Signatures, NEW m \in Messages
    PROVE  /\ Append(sig, m) \in Signatures
           /\ Len(Append(sig, m)) = Len(sig) + 1
           /\ \A i \in 1..Len(sig) : Append(sig, m)[i] = sig[i]
           /\ Append(sig, m)[Len(sig) + 1] = m
BY AppendProperties DEF Signatures, Messages

\* One more element at the end of the caveats and of the signature.
LEMMA ChainGrows ==
    ASSUME NEW sig, NEW new_sig, NEW cs, NEW new_cs, NEW bindings,
           NEW root, NEW id, NEW p,
           Len(sig) \in Nat, Len(cs) \in Nat, Len(bindings) \in Nat,
           ChainOf(sig, root, id, bindings, cs),
           Len(new_sig) = Len(sig) + 1,
           \A i \in 1..Len(sig) : new_sig[i] = sig[i],
           new_sig[Len(sig) + 1] = p,
           Len(new_cs) = Len(cs) + 1,
           \A i \in 1..Len(cs) : new_cs[i] = cs[i],
           new_cs[Len(cs) + 1] = p
    PROVE  ChainOf(new_sig, root, id, bindings, new_cs)
<1> DEFINE L == 2 + Len(bindings)
<1>1. Len(sig) = L + Len(cs) /\ Len(new_sig) = L + Len(new_cs)
  BY DEF ChainOf
<1>2. new_sig[1] = root /\ new_sig[2] = id
  BY <1>1 DEF ChainOf
<1>3. ASSUME NEW i \in 1..Len(bindings)
      PROVE  new_sig[2 + i] = HokMessage[bindings[i]]
  BY <1>1 DEF ChainOf
<1>4. ASSUME NEW i \in 1..Len(new_cs)
      PROVE  new_sig[2 + Len(bindings) + i] = new_cs[i]
  <2>1. CASE i = Len(cs) + 1
    BY <2>1, <1>1
  <2>2. CASE i # Len(cs) + 1
    <3>1. i \in 1..Len(cs) /\ L + i \in 1..Len(sig)
      BY <2>2, <1>1
    <3>2. sig[L + i] = cs[i]
      BY <3>1 DEF ChainOf
    <3> QED BY <3>1, <3>2
  <2> QED BY <2>1, <2>2
<1> QED BY <1>1, <1>2, <1>3, <1>4 DEF ChainOf

\* A caveat chained onto a chain is the chain with the caveat added.
LEMMA WithCaveatChains ==
    ASSUME NEW cap \in Capabilities, NEW root \in Roots,
           NEW bindings \in Seq(Keys), NEW p \in Predicates,
           Chained(cap, root, bindings), Len(cap.caveats) < MaxCaveats
    PROVE  /\ WithCaveat(cap, p) \in Capabilities
           /\ Chained(WithCaveat(cap, p), root, bindings)
           /\ StartsWith(WithCaveat(cap, p).caveats, cap.caveats)
<1> DEFINE new == WithCaveat(cap, p)
<1>1. cap.caveats \in Seq(Predicates) /\ cap.signature \in Signatures
  BY CaveatListsAreSequences DEF Capabilities
<1>2. /\ Append(cap.caveats, p) \in Seq(Predicates)
      /\ Len(Append(cap.caveats, p)) = Len(cap.caveats) + 1
      /\ \A i \in 1..Len(cap.caveats) : Append(cap.caveats, p)[i] = cap.caveats[i]
      /\ Append(cap.caveats, p)[Len(cap.caveats) + 1] = p
  BY <1>1, AppendProperties
<1>3. /\ new.identifier = cap.identifier
      /\ new.holder_of_key = cap.holder_of_key
      /\ new.caveats = Append(cap.caveats, p)
      /\ new.signature = Append(cap.signature, p)
      /\ new = [cap EXCEPT !.caveats = Append(@, p), !.signature = Append(@, p)]
  BY DEF WithCaveat, ChainCaveat, Capabilities
<1>4. /\ Append(cap.signature, p) \in Signatures
      /\ Len(Append(cap.signature, p)) = Len(cap.signature) + 1
      /\ \A i \in 1..Len(cap.signature) :
             Append(cap.signature, p)[i] = cap.signature[i]
      /\ Append(cap.signature, p)[Len(cap.signature) + 1] = p
  BY <1>1, AppendToSignature DEF Messages
<1>5. Len(cap.caveats) \in Nat /\ Len(bindings) \in Nat /\ Len(cap.signature) \in Nat
  BY <1>1 DEF Signatures
<1>6. new \in Capabilities
  <2>1. Len(Append(cap.caveats, p)) <= MaxCaveats
    BY <1>2, <1>5, MaxCaveatsAssumption
  <2>2. Append(cap.caveats, p) \in CaveatLists
    BY <1>2, <2>1, CaveatListsAreSequences
  <2> QED BY <2>2, <1>3, <1>4 DEF Capabilities
<1>7. Chained(new, root, bindings)
  <2>1. ChainOf(cap.signature, root, cap.identifier, bindings, cap.caveats)
    BY DEF Chained
  <2>2. ChainOf(new.signature, root, new.identifier, bindings, new.caveats)
    <3> HIDE DEF new
    <3>1. ChainOf(Append(cap.signature, p), root, cap.identifier, bindings,
                  Append(cap.caveats, p))
      BY <2>1, <1>2, <1>4, <1>5, ChainGrows, Zenon
    <3> QED BY <3>1, <1>3
  <2> QED BY <2>2, <1>3 DEF Chained
<1>8. StartsWith(new.caveats, cap.caveats)
  BY <1>2, <1>3, <1>5 DEF StartsWith
<1> QED BY <1>6, <1>7, <1>8

-----------------------------------------------------------------------------
LEMMA InitIInv == Init => IInv
BY DEF Init, IInv, TypeOK, BuilderInv, TokensInv

\* The builder starts with the chain of the bare identifier.
LEMMA IssueIInv ==
    ASSUME IInv, NEW root \in Roots, NEW id \in Ids, Issue(root, id)
    PROVE  IInv'
<1> DEFINE sig == <<root, id>>
           cap == Capability(id, NoKey, <<>>, sig)
<1>1. /\ builder' = [cap |-> cap, root |-> root, bindings |-> <<>>]
      /\ tokens' = tokens
  BY DEF Issue, ChainStart
<1>2. sig \in Signatures
  BY DEF Signatures
<1>3. <<>> \in CaveatLists
  <2>1. <<>> \in Seq(Predicates) /\ Len(<<>>) <= MaxCaveats
    BY MaxCaveatsAssumption
  <2> QED BY <2>1, CaveatListsAreSequences, Zenon
<1>4. cap \in Capabilities
  BY <1>2, <1>3 DEF Capabilities, Capability
<1>5. Chained(cap, root, <<>>)
  <2>1. ChainOf(sig, root, id, <<>>, <<>>)
    BY DEF ChainOf
  <2> QED BY <2>1 DEF Chained, LastBinding, Capability
<1>6. TypeOK'
  BY <1>1, <1>4 DEF IInv, TypeOK
<1>7. BuilderInv'
  BY <1>1, <1>5 DEF BuilderInv
<1>8. TokensInv'
  BY <1>1 DEF IInv, TokensInv
<1> QED BY <1>6, <1>7, <1>8 DEF IInv

\* A binding goes right after the identifier and the earlier bindings.
LEMMA HolderOfKeyIInv ==
    ASSUME IInv, NEW key \in Keys, HolderOfKey(key)
    PROVE  IInv'
<1> DEFINE cap == builder.cap
           sig == builder.cap.signature
           bs == builder.bindings
           m == HokMessage[key]
           ncap == [cap EXCEPT !.signature = Append(sig, m),
                               !.holder_of_key = key]
<1>1. /\ builder # NoBuilder
      /\ cap.caveats = <<>>
      /\ builder' = [builder EXCEPT !.cap.signature = Append(@, m),
                                    !.cap.holder_of_key = key,
                                    !.bindings = Append(@, key)]
      /\ tokens' = tokens
  BY DEF HolderOfKey, ChainHolderOfKey
<1>2. /\ builder \in [cap : Capabilities, root : Roots, bindings : Seq(Keys)]
      /\ Chained(cap, builder.root, bs)
  BY <1>1 DEF IInv, TypeOK, BuilderInv
<1>3. cap \in Capabilities /\ sig \in Signatures /\ bs \in Seq(Keys)
  BY <1>2 DEF Capabilities
<1>4. builder' = [cap |-> ncap, root |-> builder.root, bindings |-> Append(bs, key)]
  BY <1>1, <1>2 DEF Capabilities
<1>5. /\ Append(sig, m) \in Signatures
      /\ Len(Append(sig, m)) = Len(sig) + 1
      /\ \A i \in 1..Len(sig) : Append(sig, m)[i] = sig[i]
      /\ Append(sig, m)[Len(sig) + 1] = m
  BY <1>3, AppendToSignature DEF Messages
<1>6. /\ Append(bs, key) \in Seq(Keys)
      /\ Append(bs, key) # <<>>
      /\ Len(Append(bs, key)) = Len(bs) + 1
      /\ \A i \in 1..Len(bs) : Append(bs, key)[i] = bs[i]
      /\ Append(bs, key)[Len(bs) + 1] = key
  BY <1>3, AppendProperties
<1>7. Len(sig) \in Nat /\ Len(bs) \in Nat /\ Len(sig) = 2 + Len(bs)
  BY <1>1, <1>2, <1>3 DEF Chained, ChainOf, Signatures
<1>8. ChainOf(Append(sig, m), builder.root, cap.identifier, Append(bs, key), <<>>)
  <2>1. Append(sig, m)[1] = builder.root /\ Append(sig, m)[2] = cap.identifier
    BY <1>2, <1>5, <1>7 DEF Chained, ChainOf
  <2>2. ASSUME NEW i \in 1..Len(Append(bs, key))
        PROVE  Append(sig, m)[2 + i] = HokMessage[Append(bs, key)[i]]
    <3>1. CASE i = Len(bs) + 1
      <4>1. 2 + i = Len(sig) + 1
        BY <3>1, <1>7
      <4>2. Append(sig, m)[2 + i] = m /\ Append(bs, key)[i] = key
        BY <3>1, <4>1, <1>5, <1>6
      <4> QED BY <4>2
    <3>2. CASE i # Len(bs) + 1
      <4>1. i \in 1..Len(bs) /\ 2 + i \in 1..Len(sig)
        BY <3>2, <1>6, <1>7
      <4>2. sig[2 + i] = HokMessage[bs[i]]
        BY <4>1, <1>2 DEF Chained, ChainOf
      <4> QED BY <4>1, <4>2, <1>5, <1>6
    <3> QED BY <3>1, <3>2
  <2>3. Len(Append(sig, m)) = 2 + Len(Append(bs, key)) + Len(<<>>)
    BY <1>5, <1>6, <1>7
  <2> QED BY <2>1, <2>2, <2>3 DEF ChainOf
<1>9. /\ ncap.signature = Append(sig, m)
      /\ ncap.holder_of_key = key
      /\ ncap.identifier = cap.identifier
      /\ ncap.caveats = <<>>
      /\ ncap \in Capabilities
  BY <1>1, <1>3, <1>5 DEF Capabilities
<1>10. Chained(ncap, builder.root, Append(bs, key))
  <2>1. LastBinding(Append(bs, key)) = key
    BY <1>6 DEF LastBinding
  <2> QED BY <2>1, <1>8, <1>9 DEF Chained
<1>11. TypeOK'
  BY <1>1, <1>2, <1>4, <1>6, <1>9 DEF IInv, TypeOK
<1>12. BuilderInv'
  BY <1>4, <1>10 DEF BuilderInv
<1>13. TokensInv'
  BY <1>1 DEF IInv, TokensInv
<1> QED BY <1>11, <1>12, <1>13 DEF IInv

LEMMA AddCaveatIInv ==
    ASSUME IInv, NEW p \in Predicates, AddCaveat(p)
    PROVE  IInv'
<1> DEFINE ncap == WithCaveat(builder.cap, p)
<1>1. /\ builder # NoBuilder
      /\ Len(builder.cap.caveats) < MaxCaveats
      /\ builder' = [builder EXCEPT !.cap = ncap]
      /\ tokens' = tokens
  BY DEF AddCaveat
<1>2. /\ builder \in [cap : Capabilities, root : Roots, bindings : Seq(Keys)]
      /\ Chained(builder.cap, builder.root, builder.bindings)
  BY <1>1 DEF IInv, TypeOK, BuilderInv
<1>3. ncap \in Capabilities /\ Chained(ncap, builder.root, builder.bindings)
  BY <1>1, <1>2, WithCaveatChains
<1>4. TypeOK'
  BY <1>1, <1>2, <1>3 DEF IInv, TypeOK
<1>5. BuilderInv'
  BY <1>1, <1>2, <1>3 DEF BuilderInv
<1>6. TokensInv'
  BY <1>1 DEF IInv, TokensInv
<1> QED BY <1>4, <1>5, <1>6 DEF IInv

LEMMA BuildIInv == ASSUME IInv, Build PROVE IInv'
<1> DEFINE t == [cap |-> builder.cap, root |-> builder.root,
                 bindings |-> builder.bindings, caveats |-> builder.cap.caveats]
<1>1. /\ builder # NoBuilder
      /\ tokens' = tokens \cup {t}
      /\ builder' = NoBuilder
  BY DEF Build
<1>2. /\ builder \in [cap : Capabilities, root : Roots, bindings : Seq(Keys)]
      /\ Chained(builder.cap, builder.root, builder.bindings)
  BY <1>1 DEF IInv, TypeOK, BuilderInv
<1>3. t \in [cap : Capabilities, root : Roots, bindings : Seq(Keys),
             caveats : CaveatLists]
  BY <1>2 DEF Capabilities
<1>4. StartsWith(t.cap.caveats, t.caveats)
  BY <1>3, CaveatListsAreSequences DEF StartsWith
<1>5. TypeOK'
  BY <1>1, <1>3 DEF IInv, TypeOK
<1>6. BuilderInv' /\ TokensInv'
  BY <1>1, <1>2, <1>4 DEF IInv, BuilderInv, TokensInv
<1> QED BY <1>5, <1>6 DEF IInv

LEMMA AttenuateIInv ==
    ASSUME IInv, NEW t \in tokens, NEW p \in Predicates, Attenuate(t, p)
    PROVE  IInv'
<1> DEFINE ncap == WithCaveat(t.cap, p)
           nt == [t EXCEPT !.cap = ncap]
<1>1. /\ Len(t.cap.caveats) < MaxCaveats
      /\ tokens' = tokens \cup {nt}
      /\ builder' = builder
  BY DEF Attenuate
<1>2. t \in [cap : Capabilities, root : Roots, bindings : Seq(Keys),
             caveats : CaveatLists]
  BY DEF IInv, TypeOK
<1>3. Chained(t.cap, t.root, t.bindings) /\ StartsWith(t.cap.caveats, t.caveats)
  BY DEF IInv, TokensInv
<1>4. /\ ncap \in Capabilities
      /\ Chained(ncap, t.root, t.bindings)
      /\ StartsWith(ncap.caveats, t.cap.caveats)
  BY <1>1, <1>2, <1>3, WithCaveatChains
<1>5. /\ nt.cap = ncap /\ nt.root = t.root /\ nt.bindings = t.bindings
      /\ nt.caveats = t.caveats
      /\ nt \in [cap : Capabilities, root : Roots, bindings : Seq(Keys),
                 caveats : CaveatLists]
  BY <1>2, <1>4
<1>6. StartsWith(ncap.caveats, t.caveats)
  <2>1. /\ Len(ncap.caveats) \in Nat /\ Len(t.cap.caveats) \in Nat
        /\ Len(t.caveats) \in Nat
    BY <1>2, <1>4, CaveatListsAreSequences DEF Capabilities
  <2> QED BY <2>1, <1>3, <1>4 DEF StartsWith
<1>7. TypeOK'
  BY <1>1, <1>5 DEF IInv, TypeOK
<1>8. BuilderInv' /\ TokensInv'
  BY <1>1, <1>4, <1>5, <1>6 DEF IInv, BuilderInv, TokensInv
<1> QED BY <1>7, <1>8 DEF IInv

LEMMA NextIInv == IInv /\ [Next]_vars => IInv'
<1> SUFFICES ASSUME IInv, [Next]_vars PROVE IInv'
  OBVIOUS
<1>1. ASSUME NEW root \in Roots, NEW id \in Ids, Issue(root, id) PROVE IInv'
  BY <1>1, IssueIInv
<1>2. ASSUME NEW key \in Keys, HolderOfKey(key) PROVE IInv'
  BY <1>2, HolderOfKeyIInv
<1>3. ASSUME NEW p \in Predicates, AddCaveat(p) PROVE IInv'
  BY <1>3, AddCaveatIInv
<1>4. CASE Build
  BY <1>4, BuildIInv
<1>5. CASE DropBuilder
  BY <1>5 DEF DropBuilder, IInv, TypeOK, BuilderInv, TokensInv
<1>6. ASSUME NEW t \in tokens, NEW p \in Predicates, Attenuate(t, p) PROVE IInv'
  BY <1>6, AttenuateIInv
<1>7. CASE UNCHANGED vars
  BY <1>7 DEF vars, IInv, TypeOK, BuilderInv, TokensInv
<1> QED BY <1>1, <1>2, <1>3, <1>4, <1>5, <1>6, <1>7 DEF Next

\* Every capability the API makes carries exactly the chain of its history.
THEOREM Invariance == Spec => []IInv
BY InitIInv, NextIInv, PTL DEF Spec

\* Builder and capabilities stay well formed, whatever the numbers involved.
THEOREM TypeCorrect == Spec => []TypeOK
<1>1. IInv => TypeOK
  BY DEF IInv
<1> QED BY <1>1, Invariance, PTL

-----------------------------------------------------------------------------
\* The bindings a record claims.
Claimed(cap) == IF cap.holder_of_key = NoKey THEN <<>> ELSE <<cap.holder_of_key>>

\* A record that verifies carries the chain of what it claims.
LEMMA VerifiesIsChain ==
    ASSUME NEW root \in Roots, NEW cap, Verifies(root, cap),
           cap.identifier \in Ids, cap.holder_of_key \in Keys \cup {NoKey},
           cap.caveats \in Seq(Predicates)
    PROVE  ChainOf(cap.signature, root, cap.identifier, Claimed(cap), cap.caveats)
<1> DEFINE start == IF cap.holder_of_key = NoKey
                    THEN <<root, cap.identifier>>
                    ELSE Append(<<root, cap.identifier>>,
                                HokMessage[cap.holder_of_key])
           cs == cap.caveats
<1>1. cap.signature = start \o cs
  BY DEF Verifies, Recompute, ChainStart, ChainHolderOfKey
<1>2. start \in Seq(Values) /\ cs \in Seq(Values)
  <2>1. root \in Values /\ cap.identifier \in Values /\ Predicates \subseteq Values
    BY DEF Values, Messages
  <2>2. cap.holder_of_key \in Keys => HokMessage[cap.holder_of_key] \in Values
    BY DEF Values, Messages
  <2>3. start \in Seq(Values)
    BY <2>1, <2>2, AppendProperties
  <2>4. cs \in Seq(Values)
    BY <2>1, SeqMonotonic
  <2> QED BY <2>3, <2>4
<1>3. Len(Claimed(cap)) \in Nat /\ Len(cs) \in Nat
  BY DEF Claimed
<1>4. /\ Len(start) = 2 + Len(Claimed(cap))
      /\ start[1] = root /\ start[2] = cap.identifier
      /\ \A i \in 1..Len(Claimed(cap)) : start[2 + i] = HokMessage[Claimed(cap)[i]]
  <2>1. CASE cap.holder_of_key = NoKey
    BY <2>1 DEF Claimed
  <2>2. CASE cap.holder_of_key # NoKey
    <3> DEFINE two == <<root, cap.identifier>>
               h == HokMessage[cap.holder_of_key]
    <3>1. /\ two \in Seq(Values) /\ h \in Values
          /\ Len(two) = 2 /\ two[1] = root /\ two[2] = cap.identifier
      BY <2>2 DEF Values, Messages
    <3>2. /\ Len(Append(two, h)) = Len(two) + 1
          /\ \A i \in 1..Len(two) : Append(two, h)[i] = two[i]
          /\ Append(two, h)[Len(two) + 1] = h
      BY <3>1, AppendProperties
    <3> QED BY <2>2, <3>1, <3>2 DEF Claimed
  <2> QED BY <2>1, <2>2
<1> HIDE DEF start
<1>5. /\ Len(start \o cs) = Len(start) + Len(cs)
      /\ \A i \in 1..Len(start) + Len(cs) :
             (start \o cs)[i] = IF i <= Len(start) THEN start[i]
                                ELSE cs[i - Len(start)]
  BY <1>2, ConcatProperties
<1>6. cap.signature[1] = root /\ cap.signature[2] = cap.identifier
  BY <1>1, <1>3, <1>4, <1>5
<1>7. ASSUME NEW i \in 1..Len(Claimed(cap))
      PROVE  cap.signature[2 + i] = HokMessage[Claimed(cap)[i]]
  BY <1>1, <1>3, <1>4, <1>5
<1>8. ASSUME NEW i \in 1..Len(cs)
      PROVE  cap.signature[2 + Len(Claimed(cap)) + i] = cs[i]
  BY <1>1, <1>3, <1>4, <1>5
<1> QED BY <1>1, <1>4, <1>5, <1>6, <1>7, <1>8 DEF ChainOf

\* The chain of a record with at most one binding, where it begins with the
\* chain of a capability that was made, extends that capability.
LEMMA ChainsAgree ==
    ASSUME DomainSeparation,
           NEW sig, NEW root, NEW id, NEW bs \in Seq(Keys),
           NEW cs \in Seq(Predicates), ChainOf(sig, root, id, bs, cs),
           Len(bs) <= 1,
           NEW tsig, NEW troot, NEW tid, NEW tbs \in Seq(Keys),
           NEW tcs \in Seq(Predicates), ChainOf(tsig, troot, tid, tbs, tcs),
           Len(tsig) <= Len(sig), \A i \in 1..Len(tsig) : sig[i] = tsig[i]
    PROVE  /\ troot = root /\ tid = id
           /\ StartsWith(cs, tcs)
           /\ tbs = bs \/ (tbs = <<>> /\ tcs = <<>>)
<1> DEFINE n == Len(bs)
           tn == Len(tbs)
           m == Len(cs)
           tm == Len(tcs)
<1>1. n \in 0..1 /\ tn \in Nat /\ m \in Nat /\ tm \in Nat
  <2>1. n \in Nat /\ tn \in Nat /\ m \in Nat /\ tm \in Nat
    BY LenProperties
  <2>2. n <= 1
    OBVIOUS
  <2> HIDE DEF n, tn, m, tm
  <2> QED BY <2>1, <2>2
<1>2. Len(sig) = 2 + n + m /\ Len(tsig) = 2 + tn + tm /\ tn + tm <= n + m
  BY <1>1 DEF ChainOf
<1>3. troot = root /\ tid = id
  BY <1>1, <1>2 DEF ChainOf
<1>4. \A i \in 1..tn : sig[2 + i] = HokMessage[tbs[i]]
  BY <1>1, <1>2 DEF ChainOf
<1>5. \A i \in 1..tm : sig[2 + tn + i] = tcs[i]
  BY <1>1, <1>2 DEF ChainOf
<1>6. tn <= n
  \* Otherwise the first binding past bs stands where a caveat of cs stands.
  <2>1. SUFFICES ASSUME n < tn PROVE FALSE
    BY <1>1
  <2>2. n + 1 \in 1..tn /\ 1 \in 1..m
    BY <2>1, <1>1, <1>2
  <2>3. sig[2 + (n + 1)] = HokMessage[tbs[n + 1]]
    BY <2>2, <1>4
  <2>4. sig[2 + n + 1] = cs[1]
    BY <2>2 DEF ChainOf
  <2>5. cs[1] \in Predicates /\ tbs[n + 1] \in Keys
    BY <2>2
  <2>6. 2 + (n + 1) = 2 + n + 1
    BY <1>1
  <2> QED BY <2>3, <2>4, <2>5, <2>6 DEF DomainSeparation
<1>7. CASE tn = n
  <2>1. tbs = bs
    <3>1. ASSUME NEW i \in 1..n PROVE tbs[i] = bs[i]
      <4>1. HokMessage[tbs[i]] = HokMessage[bs[i]]
        BY <1>4, <1>7 DEF ChainOf
      <4>2. tbs[i] \in Keys /\ bs[i] \in Keys
        BY <1>7
      <4> QED BY <4>1, <4>2, HokMessageAssumption
    <3> QED BY <3>1, <1>7, SeqEqual
  <2>2. StartsWith(cs, tcs)
    <3>1. tm <= m
      BY <1>1, <1>2, <1>7
    <3>2. ASSUME NEW i \in 1..tm PROVE cs[i] = tcs[i]
      <4>1. i \in 1..m
        BY <3>1, <1>1
      <4>2. sig[2 + n + i] = cs[i]
        BY <4>1 DEF ChainOf
      <4> QED BY <4>2, <1>5, <1>7
    <3> QED BY <3>1, <3>2 DEF StartsWith
  <2> QED BY <2>1, <2>2, <1>3
<1>8. CASE tn < n
  <2>1. tn = 0 /\ n = 1
    BY <1>1, <1>8
  <2>2. tbs = <<>>
    BY <2>1
  <2>3. tm = 0
    \* A caveat of the capability would stand where the binding of bs stands.
    <3>1. SUFFICES ASSUME 1 <= tm PROVE FALSE
      BY <1>1
    <3>2. sig[3] = tcs[1]
      BY <3>1, <2>1, <1>1, <1>5
    <3>3. sig[3] = HokMessage[bs[1]]
      BY <2>1 DEF ChainOf
    <3>4. tcs[1] \in Predicates /\ bs[1] \in Keys
      <4>1. 1 \in 1..Len(tcs) /\ 1 \in 1..Len(bs)
        BY <3>1, <2>1, <1>1
      <4> QED BY <4>1, ElementOfSeq
    <3> QED BY <3>2, <3>3, <3>4 DEF DomainSeparation
  <2>4. tcs = <<>> /\ StartsWith(cs, tcs)
    BY <2>3, <1>1 DEF StartsWith
  <2> QED BY <2>2, <2>4, <1>3
<1> QED BY <1>1, <1>6, <1>7, <1>8

\* The prefix the lemmas speak of is the one of the community module.
LEMMA StartsWithIsPrefix ==
    ASSUME NEW s \in Seq(Predicates), NEW t \in Seq(Predicates), StartsWith(s, t)
    PROVE  IsPrefix(t, s)
<1>1. Len(t) \in Nat /\ Len(s) \in Nat /\ Len(t) <= Len(s)
  BY LenProperties DEF StartsWith
<1> DEFINE u == SubSeq(s, 1, Len(t))
           v == SubSeq(t, 1, Len(t))
<1>2. /\ u \in Seq(Predicates) /\ Len(u) = Len(t)
      /\ \A i \in 1..Len(t) : u[i] = s[i]
  BY <1>1, SubSeqProperties
<1>3. v = t
  BY SubSeqFull
<1>4. u = t
  BY <1>2, SeqEqual DEF StartsWith
<1> QED BY <1>1, <1>3, <1>4 DEF IsPrefix

LEMMA IInvVerifiedExtends == DomainSeparation /\ IInv => VerifiedExtendsMinted
<1> SUFFICES ASSUME DomainSeparation, IInv, NEW root \in Roots,
                    NEW cap \in WireRecords, Verifies(root, cap)
             PROVE  \E t \in tokens : t.root = root /\ Extends(cap, t)
  BY DEF VerifiedExtendsMinted
<1>1. /\ cap.identifier \in Ids /\ cap.holder_of_key \in Keys \cup {NoKey}
      /\ cap.caveats \in Seq(Predicates) /\ cap.signature \in WireSignatures
  BY CaveatListsAreSequences DEF WireRecords
<1>2. PICK t \in tokens : \/ cap.signature = t.cap.signature
                          \/ \E m \in Messages :
                                 cap.signature = Append(t.cap.signature, m)
  BY <1>1 DEF WireSignatures
<1>3. /\ t.cap.signature \in Signatures /\ t.cap.caveats \in Seq(Predicates)
      /\ t.bindings \in Seq(Keys) /\ t.caveats \in Seq(Predicates)
      /\ Chained(t.cap, t.root, t.bindings)
      /\ StartsWith(t.cap.caveats, t.caveats)
  BY CaveatListsAreSequences DEF IInv, TypeOK, TokensInv, Capabilities
<1>4. /\ Len(t.cap.signature) \in Nat
      /\ Len(t.cap.signature) <= Len(cap.signature)
      /\ \A i \in 1..Len(t.cap.signature) : cap.signature[i] = t.cap.signature[i]
  <2>1. Len(t.cap.signature) \in Nat
    BY <1>3, LenProperties DEF Signatures
  <2>2. CASE cap.signature = t.cap.signature
    BY <2>1, <2>2
  <2>3. CASE \E m \in Messages : cap.signature = Append(t.cap.signature, m)
    BY <2>1, <2>3, <1>3, AppendToSignature
  <2> QED BY <1>2, <2>1, <2>2, <2>3
<1>5. ChainOf(cap.signature, root, cap.identifier, Claimed(cap), cap.caveats)
  BY <1>1, VerifiesIsChain
<1>6. Claimed(cap) \in Seq(Keys) /\ Len(Claimed(cap)) <= 1
  BY <1>1 DEF Claimed
<1>7. ChainOf(t.cap.signature, t.root, t.cap.identifier, t.bindings, t.cap.caveats)
  BY <1>3 DEF Chained
<1>8. /\ t.root = root /\ t.cap.identifier = cap.identifier
      /\ StartsWith(cap.caveats, t.cap.caveats)
      /\ \/ t.bindings = Claimed(cap)
         \/ t.bindings = <<>> /\ t.cap.caveats = <<>>
  BY <1>1, <1>3, <1>4, <1>5, <1>6, <1>7, ChainsAgree, SMTT(60)
<1>9. IsPrefix(t.caveats, cap.caveats)
  <2>1. /\ Len(cap.caveats) \in Nat /\ Len(t.cap.caveats) \in Nat
        /\ Len(t.caveats) \in Nat
    BY <1>1, <1>3, LenProperties
  <2>2. StartsWith(cap.caveats, t.caveats)
    BY <2>1, <1>3, <1>8 DEF StartsWith
  <2> QED BY <2>2, <1>1, <1>3, StartsWithIsPrefix
<1>10. t.cap.caveats = <<>> => t.caveats = <<>>
  BY <1>3 DEF StartsWith
<1>11. \/ t.bindings = <<cap.holder_of_key>>
       \/ t.bindings = <<>> /\ (cap.holder_of_key = NoKey \/ t.caveats = <<>>)
  BY <1>8, <1>10 DEF Claimed
<1> QED BY <1>8, <1>9, <1>11 DEF Extends

\* No record verifies unless it extends a capability its root key minted.
THEOREM OnlyExtensionsVerify ==
    ASSUME DomainSeparation
    PROVE  Spec => []VerifiedExtendsMinted
<1>1. IInv => VerifiedExtendsMinted
  BY IInvVerifiedExtends
<1> QED BY <1>1, Invariance, PTL

\* What was made verifies exactly under its own root key, and only if its builder
\* was bound to at most one key.
LEMMA VerifiesIfBoundOnce ==
    ASSUME IInv, NEW t \in tokens, NEW root \in Roots
    PROVE  Verifies(root, t.cap) <=> root = t.root /\ Len(t.bindings) <= 1
<1> DEFINE cap == t.cap
           sig == t.cap.signature
           chain == Recompute(t.root, cap)
<1>1. /\ cap.identifier \in Ids /\ cap.holder_of_key \in Keys \cup {NoKey}
      /\ cap.caveats \in Seq(Predicates) /\ sig \in Seq(Values)
      /\ t.bindings \in Seq(Keys) /\ t.root \in Roots
  BY CaveatListsAreSequences DEF IInv, TypeOK, Capabilities, Signatures, Values
<1>2. /\ ChainOf(sig, t.root, cap.identifier, t.bindings, cap.caveats)
      /\ cap.holder_of_key = LastBinding(t.bindings)
  BY DEF IInv, TokensInv, Chained
<1>3. Len(t.bindings) \in Nat /\ Len(cap.caveats) \in Nat
  BY <1>1, LenProperties
<1>4. ASSUME Verifies(root, cap) PROVE root = t.root /\ Len(t.bindings) <= 1
  <2>1. ChainOf(sig, root, cap.identifier, Claimed(cap), cap.caveats)
    BY <1>1, <1>4, VerifiesIsChain
  <2> DEFINE k == Len(Claimed(cap))
             n == Len(t.bindings)
             m == Len(cap.caveats)
  <2>2. k \in 0..1 /\ n \in Nat /\ m \in Nat
    BY <1>3 DEF Claimed
  <2>3. Len(sig) = 2 + k + m /\ sig[1] = root
    BY <2>1 DEF ChainOf
  <2>4. Len(sig) = 2 + n + m /\ sig[1] = t.root
    BY <1>2 DEF ChainOf
  <2>5. root = t.root /\ 2 + k + m = 2 + n + m
    BY <2>3, <2>4
  <2> HIDE DEF k, n, m
  <2>6. n <= 1
    BY <2>2, <2>5
  <2> QED BY <2>5, <2>6 DEF n
<1>5. ASSUME root = t.root, Len(t.bindings) <= 1 PROVE Verifies(root, cap)
  <2>1. t.bindings = Claimed(cap)
    <3>1. CASE t.bindings = <<>>
      BY <3>1, <1>2 DEF Claimed, LastBinding
    <3>2. CASE t.bindings # <<>>
      <4>1. Len(t.bindings) = 1
        <5> DEFINE n == Len(t.bindings)
        <5>1. n # 0 /\ n \in Nat /\ n <= 1
          BY <3>2, <1>1, <1>3, <1>5, EmptySeq
        <5> HIDE DEF n
        <5>2. n = 1
          BY <5>1
        <5> QED BY <5>2 DEF n
      <4>2. cap.holder_of_key = t.bindings[1] /\ t.bindings[1] \in Keys
        BY <3>2, <4>1, <1>1, <1>2, ElementOfSeq DEF LastBinding
      <4>3. t.bindings = <<t.bindings[1]>>
        BY <4>1, <1>1
      <4> QED BY <4>2, <4>3, HokMessageAssumption DEF Claimed
    <3> QED BY <3>1, <3>2
  \* The same capability with the recomputed chain as its signature verifies,
  \* so both signatures are the chain of the same contents.
  <2> DEFINE good == [cap EXCEPT !.signature = chain]
  <2>2. Verifies(t.root, good)
    BY DEF Verifies, Recompute, IInv, TypeOK, Capabilities
  <2>3. /\ good.identifier = cap.identifier /\ good.caveats = cap.caveats
        /\ good.holder_of_key = cap.holder_of_key /\ good.signature = chain
    BY DEF IInv, TypeOK, Capabilities
  <2>4. Claimed(good) = t.bindings
    BY <2>1, <2>3 DEF Claimed
  <2>5. ChainOf(good.signature, t.root, good.identifier, Claimed(good), good.caveats)
    <3> HIDE DEF good
    <3> QED BY <1>1, <2>2, <2>3, VerifiesIsChain
  <2>6. ChainOf(chain, t.root, cap.identifier, t.bindings, cap.caveats)
    BY <2>3, <2>4, <2>5
  <2>7. chain \in Seq(Values)
    <3>1. Predicates \subseteq Values /\ cap.caveats \in Seq(Values)
      BY <1>1, SeqMonotonic DEF Values, Messages
    <3>2. <<t.root, cap.identifier>> \in Seq(Values)
      BY <1>1 DEF Values
    <3>3. cap.holder_of_key # NoKey =>
              Append(<<t.root, cap.identifier>>, HokMessage[cap.holder_of_key])
                  \in Seq(Values)
      <4>1. cap.holder_of_key # NoKey => HokMessage[cap.holder_of_key] \in Values
        BY <1>1 DEF Values, Messages
      <4> QED BY <4>1, <3>2, AppendProperties
    <3> QED BY <3>1, <3>2, <3>3, ConcatProperties
            DEF Recompute, ChainStart, ChainHolderOfKey
  <2> HIDE DEF chain
  <2>8. Len(sig) = Len(chain)
    BY <2>6, <1>2 DEF ChainOf
  <2>9. ASSUME NEW i \in 1..Len(sig) PROVE sig[i] = chain[i]
    <3> DEFINE n == Len(t.bindings)
    <3>1. Len(sig) = 2 + n + Len(cap.caveats)
      BY <1>2 DEF ChainOf
    <3>2. CASE i = 1 \/ i = 2
      BY <3>2, <2>6, <1>2 DEF ChainOf
    <3>3. CASE i \in 3..(2 + n)
      <4>1. i - 2 \in 1..n /\ 2 + (i - 2) = i
        BY <3>3, <1>3
      <4> QED BY <4>1, <2>6, <1>2 DEF ChainOf
    <3>4. CASE i > 2 + n
      <4>1. i - 2 - n \in 1..Len(cap.caveats) /\ 2 + n + (i - 2 - n) = i
        <5> DEFINE m == Len(cap.caveats)
        <5>1. n \in Nat /\ m \in Nat /\ i \in 1..(2 + n + m) /\ i > 2 + n
          BY <3>1, <3>4, <1>3
        <5> HIDE DEF n, m
        <5>2. i - 2 - n \in 1..m /\ 2 + n + (i - 2 - n) = i
          BY <5>1
        <5> QED BY <5>2 DEF n, m
      <4>2. /\ sig[2 + n + (i - 2 - n)] = cap.caveats[i - 2 - n]
            /\ chain[2 + n + (i - 2 - n)] = cap.caveats[i - 2 - n]
        BY <4>1, <2>6, <1>2 DEF ChainOf
      <4> QED BY <4>1, <4>2
    <3> QED BY <3>1, <3>2, <3>3, <3>4, <1>1
  <2>10. sig = chain
    BY <2>7, <2>8, <2>9, <1>1, SeqEqual
  <2> QED BY <2>10, <1>5 DEF Verifies, chain
<1> QED BY <1>4, <1>5

\* What the API makes with at most one binding verifies under its own root key and
\* no other.
THEOREM BuiltCapabilitiesVerify == Spec => []BuiltVerifies
<1>1. IInv => BuiltVerifies
  BY VerifiesIfBoundOnce DEF BuiltVerifies
<1> QED BY <1>1, Invariance, PTL

ReboundIsLost ==
    \A t \in tokens, root \in Roots : Len(t.bindings) > 1 => ~Verifies(root, t.cap)

\* What contradicts RebindingRebuilds, and it is every capability whose builder was
\* bound twice: whatever the keys and caveats, no root key verifies it
\* (CapabilityBuilder::holder_of_key chains the second binding onto the first).
THEOREM ReboundCapabilitiesAreLost == Spec => []ReboundIsLost
<1>1. IInv => ReboundIsLost
  <2> SUFFICES ASSUME IInv, NEW t \in tokens, NEW root \in Roots, Len(t.bindings) > 1
               PROVE  ~Verifies(root, t.cap)
    BY DEF ReboundIsLost
  <2>1. t.bindings \in Seq(Keys)
    BY DEF IInv, TypeOK
  <2>2. Len(t.bindings) \in Nat
    BY <2>1, LenProperties
  <2>3. ~(Len(t.bindings) <= 1)
    BY <2>2
  <2> QED BY <2>3, VerifiesIfBoundOnce
<1> QED BY <1>1, Invariance, PTL

\* Two readings of one signature cannot disagree on the number of bindings:
\* where one has a binding the other would have a caveat.
LEMMA NoMoreBindings ==
    ASSUME DomainSeparation, NEW sig,
           NEW r1, NEW id1, NEW bs1 \in Seq(Keys), NEW cs1 \in Seq(Predicates),
           NEW r2, NEW id2, NEW bs2 \in Seq(Keys), NEW cs2 \in Seq(Predicates),
           ChainOf(sig, r1, id1, bs1, cs1), ChainOf(sig, r2, id2, bs2, cs2)
    PROVE  Len(bs2) <= Len(bs1)
<1> DEFINE n1 == Len(bs1)
           n2 == Len(bs2)
           m1 == Len(cs1)
           m2 == Len(cs2)
<1>1. n1 \in Nat /\ n2 \in Nat /\ m1 \in Nat /\ m2 \in Nat
  BY LenProperties
<1>2. 2 + n1 + m1 = 2 + n2 + m2
  BY DEF ChainOf
<1>3. SUFFICES ASSUME n1 < n2 PROVE FALSE
  BY <1>1
<1>4. n1 + 1 \in 1..n2 /\ 1 \in 1..m1 /\ 2 + (n1 + 1) = 2 + n1 + 1
  BY <1>1, <1>2, <1>3
<1>5. sig[2 + (n1 + 1)] = HokMessage[bs2[n1 + 1]]
  BY <1>4 DEF ChainOf
<1>6. sig[2 + n1 + 1] = cs1[1]
  BY <1>4 DEF ChainOf
<1>7. cs1[1] \in Predicates /\ bs2[n1 + 1] \in Keys
  BY <1>4
<1> QED BY <1>4, <1>5, <1>6, <1>7 DEF DomainSeparation

\* A signature has one reading.
LEMMA SameChain ==
    ASSUME DomainSeparation, NEW sig,
           NEW r1, NEW id1, NEW bs1 \in Seq(Keys), NEW cs1 \in Seq(Predicates),
           NEW r2, NEW id2, NEW bs2 \in Seq(Keys), NEW cs2 \in Seq(Predicates),
           ChainOf(sig, r1, id1, bs1, cs1), ChainOf(sig, r2, id2, bs2, cs2)
    PROVE  id1 = id2 /\ bs1 = bs2 /\ cs1 = cs2
<1> DEFINE n == Len(bs1)
           m == Len(cs1)
<1>1. id1 = id2
  BY DEF ChainOf
<1>2. Len(bs2) = n
  <2>1. Len(bs2) <= n /\ n <= Len(bs2)
    BY NoMoreBindings
  <2>2. Len(bs2) \in Nat /\ n \in Nat
    BY LenProperties
  <2> QED BY <2>1, <2>2
<1>3. Len(cs2) = m
  <2>1. 2 + n + m = 2 + n + Len(cs2)
    BY <1>2 DEF ChainOf
  <2>2. Len(cs2) \in Nat /\ n \in Nat /\ m \in Nat
    BY LenProperties
  <2> QED BY <2>1, <2>2
<1>4. ASSUME NEW i \in 1..n PROVE bs1[i] = bs2[i]
  <2>1. HokMessage[bs1[i]] = HokMessage[bs2[i]]
    BY <1>2 DEF ChainOf
  <2>2. bs1[i] \in Keys /\ bs2[i] \in Keys
    BY <1>2
  <2> QED BY <2>1, <2>2, HokMessageAssumption
<1>5. ASSUME NEW i \in 1..m PROVE cs1[i] = cs2[i]
  BY <1>2, <1>3 DEF ChainOf
<1> QED BY <1>1, <1>2, <1>3, <1>4, <1>5, SeqEqual

LEMMA IInvSignatureBinds == DomainSeparation /\ IInv => SignatureBindsContents
<1> SUFFICES ASSUME DomainSeparation, IInv, NEW s \in tokens, NEW t \in tokens,
                    s.cap.signature = t.cap.signature
             PROVE  s.cap = t.cap
  BY DEF SignatureBindsContents
<1>1. /\ s.cap \in Capabilities /\ t.cap \in Capabilities
      /\ s.cap.caveats \in Seq(Predicates) /\ t.cap.caveats \in Seq(Predicates)
      /\ s.bindings \in Seq(Keys) /\ t.bindings \in Seq(Keys)
  BY CaveatListsAreSequences DEF IInv, TypeOK, Capabilities
<1>2. /\ Chained(s.cap, s.root, s.bindings)
      /\ Chained(t.cap, t.root, t.bindings)
  BY DEF IInv, TokensInv
<1>3. /\ ChainOf(s.cap.signature, s.root, s.cap.identifier, s.bindings, s.cap.caveats)
      /\ ChainOf(s.cap.signature, t.root, t.cap.identifier, t.bindings, t.cap.caveats)
  BY <1>2 DEF Chained
<1>4. /\ s.cap.identifier = t.cap.identifier
      /\ s.bindings = t.bindings
      /\ s.cap.caveats = t.cap.caveats
  BY <1>1, <1>3, SameChain, SMTT(60)
<1>5. s.cap.holder_of_key = t.cap.holder_of_key
  BY <1>2, <1>4 DEF Chained
<1> QED BY <1>1, <1>4, <1>5 DEF Capabilities

\* A signature stands for one identifier, one binding and one list of caveats.
THEOREM SignaturesAreUnambiguous ==
    ASSUME DomainSeparation
    PROVE  Spec => []SignatureBindsContents
<1>1. IInv => SignatureBindsContents
  BY IInvSignatureBinds
<1> QED BY <1>1, Invariance, PTL
-----------------------------------------------------------------------------
\* Caveats: the two clocks, the calendar, and one comparison

\* A natural number is quotient and remainder.
LEMMA Division ==
    ASSUME NEW n \in Nat
    PROVE  /\ n \div Nanos \in Nat /\ n % Nanos \in 0..(Nanos - 1)
           /\ n = Nanos * (n \div Nanos) + (n % Nanos)
  BY SizesAssumption

\* A greater number of whole seconds is further by a second or more.
LEMMA WholeSeconds ==
    ASSUME NEW s \in Int, NEW t \in Int, s < t
    PROVE  Nanos * s + Nanos <= Nanos * t
  BY SizesAssumption

\* The pair of seconds and nanos is the instant, with nanos of less than a second.
LEMMA PairIsInstant ==
    ASSUME NEW i \in Int
    PROVE  /\ SystemTimeToUnix(i)[1] \in Int
           /\ SystemTimeToUnix(i)[2] \in 0..(Nanos - 1)
           /\ i = Nanos * SystemTimeToUnix(i)[1] + SystemTimeToUnix(i)[2]
  <1>1. CASE i >= 0
    <2>1. i \in Nat /\ SystemTimeToUnix(i) = <<i \div Nanos, i % Nanos>>
      BY <1>1 DEF SystemTimeToUnix
    <2> HIDE DEF SystemTimeToUnix
    <2>2. QED
      BY <2>1, Division
  <1>2. CASE i < 0
    <2> DEFINE secs == (-i) \div Nanos
               nanos == (-i) % Nanos
    <2>1. -i \in Nat
      BY <1>2
    <2>2. secs \in Nat /\ nanos \in 0..(Nanos - 1) /\ -i = Nanos * secs + nanos
      BY <2>1, Division
    <2>3. SystemTimeToUnix(i) = IF nanos = 0 THEN <<-secs, 0>> ELSE <<-secs - 1, Nanos - nanos>>
      BY <1>2 DEF SystemTimeToUnix
    <2>4. Nanos \in Nat \ {0} /\ Nanos * (-secs) = -(Nanos * secs)
          /\ Nanos * (-secs - 1) = -(Nanos * secs) - Nanos
      BY <2>2, SizesAssumption
    <2> HIDE DEF secs, nanos
    <2>5. QED
      BY <2>2, <2>3, <2>4
  <1>3. QED
    BY <1>1, <1>2

\* Comparing seconds and then nanos compares what they stand for.
LEMMA PairsKeepOrder ==
    ASSUME NEW a, NEW b, NEW p, NEW q,
           p[1] \in Int, p[2] \in 0..(Nanos - 1), a = Nanos * p[1] + p[2],
           q[1] \in Int, q[2] \in 0..(Nanos - 1), b = Nanos * q[1] + q[2]
    PROVE  a < b <=> p[1] < q[1] \/ (p[1] = q[1] /\ p[2] < q[2])
  <1>1. /\ p[1] \in Int /\ p[2] \in 0..(Nanos - 1) /\ a = Nanos * p[1] + p[2]
        /\ q[1] \in Int /\ q[2] \in 0..(Nanos - 1) /\ b = Nanos * q[1] + q[2]
    OBVIOUS
  <1>2. CASE p[1] < q[1]
    BY <1>1, <1>2, WholeSeconds, SizesAssumption
  <1>3. CASE p[1] = q[1]
    BY <1>1, <1>3, SizesAssumption
  <1>4. CASE q[1] < p[1]
    BY <1>1, <1>4, WholeSeconds, SizesAssumption
  <1>5. QED
    BY <1>1, <1>2, <1>3, <1>4

\* Comparing what the clock is converted to compares instants.
THEOREM ClockKeepsOrder ==
    ASSUME NEW a \in Int, NEW b \in Int,
           NEW p, p = SystemTimeToUnix(a), NEW q, q = SystemTimeToUnix(b)
    PROVE  a < b <=> p[1] < q[1] \/ (p[1] = q[1] /\ p[2] < q[2])
  BY PairIsInstant, PairsKeepOrder

-----------------------------------------------------------------------------
\* The calendar

NatLess == OpToRel(<, Nat)

\* What induction there is: a set of naturals has a least element.
LEMMA LeastOf ==
    ASSUME NEW T, T \subseteq Nat, T # {}
    PROVE  \E x \in T : \A y \in T : x <= y
<1>1. IsWellFoundedOn(NatLess, Nat)
  BY NatLessThanWellFounded DEF NatLess
<1>2. \A m, n \in Nat : <<m, n>> \in NatLess <=> m < n
  BY Zenon DEF NatLess, OpToRel
<1>3. PICK x \in T : \A y \in T : ~(<<y, x>> \in NatLess)
  BY <1>1, WFMin
<1>4. ASSUME NEW y \in T PROVE x <= y
  <2>1. x \in Nat /\ y \in Nat
    OBVIOUS
  <2>2. ~(y < x)
    BY <1>2, <1>3, <2>1
  <2> QED BY <2>1, <2>2
<1> QED BY <1>4

\* Days from 1970 to the first of January of a year, in closed form.
Century == 1770..2170
ToYear(y) == 365 * (y - 1970) + (y - 1) \div 4 - (y - 1) \div 100 + (y - 1) \div 400 - 477

YearDays(y) == 365 + (IF IsLongYear(y) THEN 1 ELSE 0)

LEMMA YearDaysIs == \A y : DaysBefore(y, 13) = YearDays(y)
  BY DEF DaysBefore, MonthStarts, YearDays

LEMMA YearAfterYear ==
    ASSUME NEW y \in Int
    PROVE  ToYear(y) \in Int /\ YearDays(y) \in Int /\ ToYear(y + 1) = ToYear(y) + YearDays(y)
  BY DEF ToYear, YearDays, IsLongYear

LEMMA CyclesOfYears ==
    ASSUME NEW y \in Int, NEW k \in Int
    PROVE  ToYear(y - k * 400) + k * (400 * 365 + 97) = ToYear(y)
  BY DEF ToYear

\* The recursion that adds up years is one that a function satisfies,
LEMMA YearStartIs ==
    ASSUME NEW y \in Century
    PROVE  YearStart[y] = IF y = 1970 THEN 0
                          ELSE IF y > 1970 THEN YearStart[y - 1] + YearDays(y - 1)
                          ELSE YearStart[y + 1] - YearDays(y)
<1> DEFINE Again(f) == [z \in 1770..2170 |->
                          IF z = 1970 THEN 0
                          ELSE IF z > 1970 THEN f[z - 1] + DaysBefore(z - 1, 13)
                          ELSE f[z + 1] - DaysBefore(z, 13)]
           sum == [z \in 1770..2170 |-> ToYear(z)]
<1>1. sum = Again(sum)
  <2>1. ASSUME NEW z \in 1770..2170
        PROVE  ToYear(z) = IF z = 1970 THEN 0
                           ELSE IF z > 1970 THEN sum[z - 1] + DaysBefore(z - 1, 13)
                           ELSE sum[z + 1] - DaysBefore(z, 13)
    <3>1. CASE z = 1970
      BY <3>1 DEF ToYear
    <3>2. CASE z > 1970
      <4>1. z - 1 \in 1770..2170 /\ z - 1 \in Int /\ (z - 1) + 1 = z
        BY <3>2
      <4>2. sum[z - 1] = ToYear(z - 1)
        BY <4>1
      <4>3. ToYear((z - 1) + 1) = ToYear(z - 1) + YearDays(z - 1)
        BY <4>1, YearAfterYear
      <4> QED BY <3>2, <4>1, <4>2, <4>3, YearDaysIs
    <3>3. CASE z < 1970
      <4>1. z + 1 \in 1770..2170 /\ z \in Int
        BY <3>3
      <4>2. sum[z + 1] = ToYear(z + 1)
        BY <4>1
      <4>3. ToYear(z + 1) = ToYear(z) + YearDays(z) /\ ToYear(z) \in Int /\ YearDays(z) \in Int
        BY <4>1, YearAfterYear
      <4> HIDE DEF sum
      <4> QED BY <3>3, <4>1, <4>2, <4>3, YearDaysIs
    <3> QED BY <3>1, <3>2, <3>3
  <2> QED BY <2>1
<1>2. YearStart = CHOOSE f : f = Again(f)
  BY DEF YearStart
<1>3. YearStart = Again(YearStart)
  <2> HIDE DEF Again, sum
  <2> QED BY <1>1, <1>2
<1>4. YearStart[y] = Again(YearStart)[y]
  <2> HIDE DEF Again, sum
  <2> QED BY <1>3
<1> QED BY <1>4, YearDaysIs DEF Century

\* and the only one.
LEMMA YearStartIsToYear == \A y \in Century : YearStart[y] = ToYear(y)
<1> DEFINE after == {n \in 0..200 : YearStart[1970 + n] # ToYear(1970 + n)}
           before == {n \in 0..200 : YearStart[1970 - n] # ToYear(1970 - n)}
<1>1. ToYear(1970) = 0
  BY DEF ToYear
<1>2. after = {}
  <2> SUFFICES ASSUME after # {} PROVE FALSE
    OBVIOUS
  <2>1. PICK n \in after : \A m \in after : n <= m
    <3>1. after \subseteq Nat
      OBVIOUS
    <3> HIDE DEF after
    <3> QED BY <3>1, LeastOf
  <2>2. n \in 0..200 /\ YearStart[1970 + n] # ToYear(1970 + n)
    OBVIOUS
  <2>3. n # 0
    BY <1>1, <2>2, YearStartIs DEF Century
  <2>4. n - 1 \in 0..200 /\ n - 1 \notin after
    <3>1. n - 1 \in 0..200 /\ ~(n <= n - 1)
      BY <2>2, <2>3
    <3> HIDE DEF after
    <3> QED BY <2>1, <3>1
  <2>5. YearStart[1970 + (n - 1)] = ToYear(1970 + (n - 1))
    <3>1. ASSUME NEW k \in 0..200, YearStart[1970 + k] # ToYear(1970 + k)
          PROVE  k \in after
      BY <3>1
    <3> HIDE DEF after
    <3> QED BY <2>4, <3>1
  <2> DEFINE y == 1970 + (n - 1)
  <2>6. y \in Int /\ y + 1 \in Century /\ y + 1 > 1970 /\ 1970 + n = y + 1 /\ (y + 1) - 1 = y
    BY <2>2, <2>3 DEF Century
  <2> HIDE DEF y
  <2>7. YearStart[y + 1] = YearStart[y] + YearDays(y)
    BY <2>6, YearStartIs
  <2> QED BY <2>2, <2>5, <2>6, <2>7, YearAfterYear DEF y
<1>3. before = {}
  <2> SUFFICES ASSUME before # {} PROVE FALSE
    OBVIOUS
  <2>1. PICK n \in before : \A m \in before : n <= m
    <3>1. before \subseteq Nat
      OBVIOUS
    <3> HIDE DEF before
    <3> QED BY <3>1, LeastOf
  <2>2. n \in 0..200 /\ YearStart[1970 - n] # ToYear(1970 - n)
    OBVIOUS
  <2>3. n # 0
    BY <1>1, <2>2, YearStartIs DEF Century
  <2>4. n - 1 \in 0..200 /\ n - 1 \notin before
    <3>1. n - 1 \in 0..200 /\ ~(n <= n - 1)
      BY <2>2, <2>3
    <3> HIDE DEF before
    <3> QED BY <2>1, <3>1
  <2>5. YearStart[1970 - (n - 1)] = ToYear(1970 - (n - 1))
    <3>1. ASSUME NEW k \in 0..200, YearStart[1970 - k] # ToYear(1970 - k)
          PROVE  k \in before
      BY <3>1
    <3> HIDE DEF before
    <3> QED BY <2>4, <3>1
  <2> DEFINE y == 1970 - n
  <2>6. y \in Int /\ y \in Century /\ y < 1970 /\ 1970 - (n - 1) = y + 1
    BY <2>2, <2>3 DEF Century
  <2> HIDE DEF y
  <2>7. YearStart[y] = YearStart[y + 1] - YearDays(y)
    BY <2>6, YearStartIs
  <2>8. YearStart[y + 1] = ToYear(y) + YearDays(y) /\ ToYear(y) \in Int /\ YearDays(y) \in Int
    BY <2>5, <2>6, YearAfterYear
  <2>9. YearStart[y] = ToYear(y)
    BY <2>7, <2>8
  <2> QED BY <2>2, <2>9 DEF y
<1>4. ASSUME NEW y \in Century PROVE YearStart[y] = ToYear(y)
  <2>1. CASE y >= 1970
    <3>1. y - 1970 \in 0..200 /\ 1970 + (y - 1970) = y
      BY <2>1 DEF Century
    <3> QED BY <1>2, <3>1
  <2>2. CASE y < 1970
    <3>1. 1970 - y \in 0..200 /\ 1970 - (1970 - y) = y
      BY <2>2 DEF Century
    <3> QED BY <1>3, <3>1
  <2> QED BY <2>1, <2>2 DEF Century
<1> QED BY <1>4

LEMMA FirstOfYearIs ==
    ASSUME NEW y \in Int
    PROVE  FirstOfYear(y) = ToYear(y) /\ FirstOfYear(y) \in Int
<1> DEFINE cycles == (y - 1770) \div 400
           within == y - cycles * 400
<1>1. cycles \in Int /\ within \in Century
  BY DEF Century
<1>2. FirstOfYear(y) = YearStart[within] + cycles * (400 * 365 + 97)
  BY DEF FirstOfYear
<1>3. YearStart[within] = ToYear(within)
  BY <1>1, YearStartIsToYear
<1> HIDE DEF cycles
<1>4. ToYear(within) + cycles * (400 * 365 + 97) = ToYear(y)
  BY <1>1, CyclesOfYears
<1> HIDE DEF within
<1> QED BY <1>2, <1>3, <1>4, YearAfterYear

\* days_in_month and the checks of parse_rfc3339 let dates pass and nothing else.
LEMMA MonthsAreCounted ==
    ASSUME NEW y \in Int, NEW m \in 1..12
    PROVE  DaysBefore(y, m + 1) - DaysBefore(y, m) = DaysInMonth(y, m)
           /\ DaysBefore(y, m) \in Int
<1>1. IsLongYear(y) <=> IsLeap(y)
  BY DEF IsLongYear, IsLeap
<1>2. m \in {1, 2, 3, 4, 5, 6, 7, 8, 9, 10, 11, 12}
  OBVIOUS
<1>3. /\ MonthStarts[1] = 0 /\ MonthStarts[2] = 31 /\ MonthStarts[3] = 59
      /\ MonthStarts[4] = 90 /\ MonthStarts[5] = 120 /\ MonthStarts[6] = 151
      /\ MonthStarts[7] = 181 /\ MonthStarts[8] = 212 /\ MonthStarts[9] = 243
      /\ MonthStarts[10] = 273 /\ MonthStarts[11] = 304 /\ MonthStarts[12] = 334
      /\ MonthStarts[13] = 365
  BY DEF MonthStarts
<1> QED BY <1>1, <1>2, <1>3 DEF DaysBefore, DaysInMonth

\* days_from_civil, with years that begin in March, counts the days.
LEMMA DaysAreCounted ==
    ASSUME NEW year \in Int, NEW m \in 1..12, NEW d \in Int
    PROVE  DaysFromCivil(year, m, d) = FirstOfYear(year) + DaysBefore(year, m) + d - 1
           /\ DaysFromCivil(year, m, d) \in Int
<1> DEFINE y == IF m <= 2 THEN year - 1 ELSE year
           era == IF y >= 0 THEN y \div 400 ELSE -((399 - y) \div 400)
           yoe == y - era * 400
           mp == IF m > 2 THEN m - 3 ELSE m + 9
           start == (153 * mp + 2) \div 5
<1>1. y \in Int
  OBVIOUS
<1>2. era = y \div 400 /\ era \in Int
  BY <1>1
<1>3. DaysFromCivil(year, m, d) = era * 146097 + yoe * 365 + yoe \div 4 - yoe \div 100
                                  + (start + d - 1) - 719468
  BY DEF DaysFromCivil
<1>4. era * 146097 + yoe * 365 + yoe \div 4 - yoe \div 100
      = y * 365 + y \div 4 - y \div 100 + y \div 400
  <2> HIDE DEF y
  <2>1. yoe \div 4 = y \div 4 - era * 100 /\ yoe \div 100 = y \div 100 - era * 4
    BY <1>1, <1>2
  <2> HIDE DEF era
  <2> QED BY <1>1, <1>2, <2>1
<1>5. m \in {1, 2, 3, 4, 5, 6, 7, 8, 9, 10, 11, 12}
  OBVIOUS
<1>6. start = IF m > 2 THEN MonthStarts[m] - 59 ELSE MonthStarts[m] + 306
  BY <1>5 DEF MonthStarts
<1>7. start \in Int /\ MonthStarts[m] \in Int
  BY <1>5 DEF MonthStarts
<1>8. DaysFromCivil(year, m, d) = y * 365 + y \div 4 - y \div 100 + y \div 400
                                  + (start + d - 1) - 719468
  <2> HIDE DEF y, era, start
  <2>1. yoe \in Int
    BY <1>1, <1>2
  <2> HIDE DEF yoe
  <2> QED BY <1>1, <1>2, <1>3, <1>4, <1>7, <2>1
<1> HIDE DEF start
<1>9. CASE m > 2
  <2>1. ToYear(year) + (IF IsLongYear(year) THEN 1 ELSE 0)
        = year * 365 + year \div 4 - year \div 100 + year \div 400 - 719468 - 59
    BY DEF ToYear, IsLongYear
  <2> QED BY <1>6, <1>7, <1>8, <1>9, <2>1, FirstOfYearIs DEF DaysBefore
<1>10. CASE m <= 2
  <2>1. ToYear(year)
        = (year - 1) * 365 + (year - 1) \div 4 - (year - 1) \div 100 + (year - 1) \div 400
          - 719468 + 306
    BY DEF ToYear
  <2> QED BY <1>6, <1>7, <1>8, <1>10, <2>1, FirstOfYearIs DEF DaysBefore
<1> QED BY <1>9, <1>10

-----------------------------------------------------------------------------
\* The comparisons

\* A timestamp, as the parser takes its fields together, is the instant it names.
LEMMA FieldsAddUp ==
    ASSUME NEW days \in Int, NEW hours \in Int, NEW minutes \in Int, NEW seconds \in Int,
           NEW h \in Int, NEW m \in Int, NEW s \in Int, NEW oh \in Int, NEW om \in Int
    PROVE  /\ ((days * hours + h - oh) * minutes + m - om) * seconds + s
                = days * (hours * (minutes * seconds)) + h * (minutes * seconds) + m * seconds + s
                  - (oh * (minutes * seconds) + om * seconds)
           /\ ((days * hours + h + oh) * minutes + m + om) * seconds + s
                = days * (hours * (minutes * seconds)) + h * (minutes * seconds) + m * seconds + s
                  + (oh * (minutes * seconds) + om * seconds)
  OBVIOUS

LEMMA InstantIs ==
    ASSUME NEW t, IsTimestamp(t), t.month \in 1..12,
           NEW p, p = ParseRfc3339(t)
    PROVE  /\ Instant(t) \in Int /\ p[1] \in Int /\ p[2] \in 0..(Nanos - 1)
           /\ Instant(t) = Nanos * p[1] + p[2]
<1> DEFINE days == DaysFromCivil(t.year, t.month, t.day)
           offset == t.offsetHour * (MinutesPerHour * SecondsPerMinute)
                     + t.offsetMinute * SecondsPerMinute
           local == days * (HoursPerDay * (MinutesPerHour * SecondsPerMinute))
                    + t.hour * (MinutesPerHour * SecondsPerMinute)
                    + t.minute * SecondsPerMinute + t.second
           minutes == (days * HoursPerDay + t.hour - t.sign * t.offsetHour) * MinutesPerHour
                      + t.minute - t.sign * t.offsetMinute
<1>1. /\ t.year \in Int /\ t.day \in Int /\ t.hour \in Int /\ t.minute \in Int /\ t.second \in Int
      /\ t.offsetHour \in Int /\ t.offsetMinute \in Int /\ t.sign \in {-1, 1}
      /\ t.nanos \in 0..(Nanos - 1)
      /\ {SecondsPerMinute, MinutesPerHour, HoursPerDay, Nanos} \subseteq Nat
  BY SizesAssumption DEF IsTimestamp
<1>2. days \in Int /\ days = FirstOfYear(t.year) + DaysBefore(t.year, t.month) + t.day - 1
  BY <1>1, DaysAreCounted
<1>3. local \in Int /\ offset \in Int
  <2> HIDE DEF days
  <2> QED BY <1>1, <1>2
<1>4. p[1] = local - t.sign * offset /\ p[2] = t.nanos
  <2>1. Offset(t) = t.sign * offset
    BY DEF Offset, SecondsPerHour
  <2> DEFINE upto == days * SecondsPerDay + t.hour * SecondsPerHour + t.minute * SecondsPerMinute
  <2>2. p = <<upto + (t.second - Offset(t)), t.nanos>>
    BY DEF ParseRfc3339
  <2>3. local = upto + t.second
    BY DEF SecondsPerDay, SecondsPerHour
  <2>4. upto \in Int
    <3> HIDE DEF days
    <3> QED BY <1>1, <1>2 DEF SecondsPerDay, SecondsPerHour
  <2>5. t.sign * offset \in Int
    <3> HIDE DEF offset
    <3> QED BY <1>1, <1>3
  <2> HIDE DEF local, offset, upto
  <2> QED BY <1>1, <1>3, <2>1, <2>2, <2>3, <2>4, <2>5
<1>5. Instant(t) = (minutes * SecondsPerMinute + t.second) * Nanos + t.nanos
  BY <1>2 DEF Instant
<1>6. minutes * SecondsPerMinute + t.second = local - t.sign * offset
  <2> HIDE DEF days
  <2>1. CASE t.sign = 1
    <3>1. minutes = (days * HoursPerDay + t.hour - t.offsetHour) * MinutesPerHour
                    + t.minute - t.offsetMinute
      BY <1>1, <1>2, <2>1
    <3>2. t.sign * offset = offset
      BY <1>3, <2>1
    <3> HIDE DEF minutes
    <3> QED BY <1>1, <1>2, <3>1, <3>2, FieldsAddUp
  <2>2. CASE t.sign = -1
    <3>1. minutes = (days * HoursPerDay + t.hour + t.offsetHour) * MinutesPerHour
                    + t.minute + t.offsetMinute
      BY <1>1, <1>2, <2>2
    <3>2. local - t.sign * offset = local + offset
      <4> HIDE DEF local, offset
      <4> QED BY <1>3, <2>2
    <3> HIDE DEF minutes
    <3> QED BY <1>1, <1>2, <3>1, <3>2, FieldsAddUp
  <2> QED BY <1>1, <2>1, <2>2
<1> HIDE DEF local, offset, minutes, days
<1>7. p[1] \in Int
  BY <1>1, <1>3, <1>4
<1> QED BY <1>1, <1>4, <1>5, <1>6, <1>7

LEMMA WellFormedIs ==
    ASSUME NEW t, IsTimestamp(t)
    PROVE  WellFormed(t) <=>
              /\ IsDate(t.year, t.month, t.day)
              /\ t.hour < HoursPerDay /\ t.minute < MinutesPerHour
              /\ t.second <= SecondsPerMinute
              /\ t.offsetHour < HoursPerDay /\ t.offsetMinute < MinutesPerHour
<1>1. t.month \in 1..12 =>
        DaysBefore(t.year, t.month + 1) - DaysBefore(t.year, t.month) = DaysInMonth(t.year, t.month)
  BY MonthsAreCounted DEF IsTimestamp
<1> QED BY <1>1 DEF WellFormed, IsDate

\* An ordering that agrees with two instants or numbers decides as they do.
LEMMA OrderingDecides ==
    ASSUME NEW a \in Int, NEW b \in Int, NEW ord \in Int,
           ord < 0 <=> a < b, ord > 0 <=> b < a, NEW op \in Orderings
    PROVE  OrderedToBool(op, ord) = Truth(Exact(op, a, b))
<1>1. /\ ord = 0 <=> a = b
      /\ ord <= 0 <=> a <= b
      /\ ord >= 0 <=> a >= b
      /\ ord > 0 <=> a > b
  OBVIOUS
<1>2. CASE op = "=="
  BY <1>1, <1>2 DEF OrderedToBool, Exact, Truth
<1>3. CASE op = "!="
  BY <1>1, <1>3 DEF OrderedToBool, Exact, Truth
<1>4. CASE op = "<"
  BY <1>4 DEF OrderedToBool, Exact, Truth
<1>5. CASE op = "<="
  BY <1>1, <1>5 DEF OrderedToBool, Exact, Truth
<1>6. CASE op = ">"
  BY <1>1, <1>6 DEF OrderedToBool, Exact, Truth
<1>7. CASE op = ">="
  BY <1>1, <1>7 DEF OrderedToBool, Exact, Truth
<1> QED BY <1>2, <1>3, <1>4, <1>5, <1>6, <1>7 DEF Orderings

\* Comparing pairs decides as comparing the instants does.
LEMMA PairsDecide ==
    ASSUME NEW a \in Int, NEW b \in Int, NEW p, NEW q, NEW op \in Orderings,
           p[1] \in Int, p[2] \in 0..(Nanos - 1), a = Nanos * p[1] + p[2],
           q[1] \in Int, q[2] \in 0..(Nanos - 1), b = Nanos * q[1] + q[2]
    PROVE  OrderedToBool(op, CmpPairs(p, q)) = Truth(Exact(op, a, b))
<1> DEFINE ord == CmpPairs(p, q)
<1>1. a < b <=> p[1] < q[1] \/ (p[1] = q[1] /\ p[2] < q[2])
  BY PairsKeepOrder
<1>2. b < a <=> q[1] < p[1] \/ (q[1] = p[1] /\ q[2] < p[2])
  BY PairsKeepOrder
<1>3. ord \in Int /\ (ord < 0 <=> a < b) /\ (ord > 0 <=> b < a)
  BY <1>1, <1>2 DEF CmpPairs, Cmp
<1> HIDE DEF ord
<1>4. OrderedToBool(op, ord) = Truth(Exact(op, a, b))
  BY <1>3, OrderingDecides
<1> QED BY <1>4 DEF ord

\* A comparison that is asked has an identifier, a context and a literal.
AskedOK ==
    asked # NotYet =>
        /\ asked.ident \in Seq(Segments) \ {<<>>}
        /\ IsContext(asked.context) /\ IsLiteral(asked.literal)

LEMMA QuestionIsOK ==
    ASSUME NEW path \in Seq(Segments) \ {<<>>}, NEW ctx, IsContext(ctx),
           NEW text, IsLiteral(text), asked' = Question(path, ctx, text)
    PROVE  AskedOK'
  BY DEF AskedOK, Question

LEMMA ArgIsContext ==
    ASSUME NEW ctx, IsContext(ctx), NEW json,
           json.type = "number" => IsNumber(json) /\ json.unit = NoUnit
    PROVE  IsContext(WithArg(ctx, json))
<1> DEFINE args == [path \in {<<"k">>} |-> json]
<1>1. WithArg(ctx, json) = [now |-> ctx.now, caller |-> ctx.caller, tool |-> ctx.tool,
                            args |-> args, env |-> ctx.env]
  BY DEF WithArg, IsContext
<1>2. \A path \in DOMAIN args : args[path] = json
  OBVIOUS
<1> HIDE DEF args
<1> QED BY <1>1, <1>2 DEF IsContext

LEMMA TimeIsContext ==
    ASSUME NEW ctx, IsContext(ctx), NEW now \in Int
    PROVE  IsContext(AtTime(ctx, now))
<1>1. AtTime(ctx, now) = [now |-> now, caller |-> ctx.caller, tool |-> ctx.tool,
                          args |-> ctx.args, env |-> ctx.env]
  BY DEF AtTime, IsContext
<1> QED BY <1>1 DEF IsContext

LEMMA TextsAreNumbers ==
    ASSUME NEW m \in Int, NEW text \in Texts(m)
    PROVE  IsNumber(text) /\ text.type = "number" /\ text.unit = NoUnit
<1>1. text = NumberText(m, TRUE, NoUnit)
      \/ (text = NumberText(m, FALSE, NoUnit) /\ m % Grain = 0)
  <2>1. CASE m % Grain = 0
    BY <2>1 DEF Texts
  <2>2. CASE m % Grain # 0
    BY <2>2 DEF Texts
  <2> QED BY <2>1, <2>2
<1>2. /\ text.type = "number" /\ text.unit = NoUnit /\ text.n = m
      /\ text.point = TRUE \/ (text.point = FALSE /\ m % Grain = 0)
  BY <1>1 DEF NumberText
<1> QED BY <1>2 DEF IsNumber

LEMMA AskedInvariance == ValuesSpec => []AskedOK
<1>1. ValuesInit => AskedOK
  BY DEF ValuesInit, AskedOK
<1>2. AskedOK /\ [ValuesNext]_asked => AskedOK'
  <2> SUFFICES ASSUME AskedOK, [ValuesNext]_asked PROVE AskedOK'
    OBVIOUS
  <2>1. CASE UNCHANGED asked
    BY <2>1 DEF AskedOK
  <2>2. CASE AskNumber
    <3>. PICK m \in Numerals, n \in Numerals, ctx \in Contexts :
           \E arg \in Texts(m), text \in Texts(n) :
              asked' = Question(<<"arg", "k">>, WithArg(ctx, arg), text)
      BY <2>2 DEF AskNumber
    <3>1. PICK arg \in Texts(m), text \in Texts(n) :
            asked' = Question(<<"arg", "k">>, WithArg(ctx, arg), text)
      OBVIOUS
    <3>2. IsNumber(arg) /\ arg.unit = NoUnit /\ text.type = "number" /\ IsNumber(text)
      <4>1. m \in Int /\ n \in Int
        BY NumbersAssumption
      <4> QED BY <3>1, <4>1, TextsAreNumbers
    <3>3. IsContext(WithArg(ctx, arg)) /\ IsLiteral(text)
      BY <3>2, ArgIsContext, TextsAssumption DEF IsLiteral
    <3>4. <<"arg", "k">> \in Seq(Segments) \ {<<>>}
      <4>1. {"arg", "k"} \subseteq Segments /\ Len(<<"arg", "k">>) = 2 /\ Len(<<>>) = 0
        BY DEF Segments
      <4> QED BY <4>1
    <3> QED BY <3>1, <3>3, <3>4, QuestionIsOK
  <2>3. CASE AskTime
    <3>1. PICK t \in Dates, ctx \in Contexts, delta \in -1..1 :
            LET now == IF IsDate(t.year, t.month, t.day) THEN Instant(t) + delta ELSE delta
            IN asked' = Question(<<"now">>, AtTime(ctx, now), TimeText(t))
      BY <2>3 DEF AskTime
    <3> DEFINE now == IF IsDate(t.year, t.month, t.day) THEN Instant(t) + delta ELSE delta
    <3>2. IsTimestamp(t) /\ IsContext(ctx)
      BY TextsAssumption
    <3>3. now \in Int
      BY <3>2, InstantIs DEF IsDate
    <3>4. asked' = Question(<<"now">>, AtTime(ctx, now), TimeText(t))
      BY <3>1
    <3> HIDE DEF now
    <3>5. IsContext(AtTime(ctx, now)) /\ IsLiteral(TimeText(t))
      BY <3>2, <3>3, TimeIsContext DEF IsLiteral, TimeText
    <3>6. <<"now">> \in Seq(Segments) \ {<<>>}
      <4>1. "now" \in Segments /\ Len(<<"now">>) = 1 /\ Len(<<>>) = 0
        BY DEF Segments
      <4> QED BY <4>1
    <3> QED BY <3>4, <3>5, <3>6, QuestionIsOK
  <2>4. CASE AskAny
    BY <2>4, QuestionIsOK, TextsAssumption DEF AskAny
  <2> QED BY <2>1, <2>2, <2>3, <2>4 DEF ValuesNext
<1> QED BY <1>1, <1>2, PTL DEF ValuesSpec

\* Whatever the sizes of minute, hour and day and in any year: a caveat on the time
\* decides by the instant that its timestamp names, and one that names none decides
\* nothing.
THEOREM TimesAreInstants == ValuesSpec => []TimesCompareAsInstants
<1>1. AskedOK => TimesCompareAsInstants
  <2> DEFINE t == asked.literal.t
             now == asked.context.now
             fact == Resolve(asked.ident, asked.context)
             value == ParseValue(asked.literal)
  <2> SUFFICES ASSUME AskedOK, asked # NotYet, asked.ident = <<"now">>,
                      asked.literal.type = "timestamp", NEW op \in Orderings
               PROVE  Compare(op) = IF WellFormed(t) THEN Truth(Exact(op, now, Instant(t)))
                                    ELSE "error"
    <3>1. AskedOK /\ asked # NotYet /\ asked.literal.type = "timestamp" => IsTimestamp(t)
      BY DEF AskedOK, IsLiteral
    <3> QED BY <3>1, WellFormedIs DEF TimesCompareAsInstants
  <2>1. now \in Int /\ IsTimestamp(t)
    BY DEF AskedOK, IsContext, IsLiteral
  <2>2. fact = Timestamp(SystemTimeToUnix(now))
    BY DEF Resolve
  <2>3. value = IF WellFormed(t) THEN Timestamp(ParseRfc3339(t)) ELSE NoValue
    BY DEF ParseValue
  <2>4. CASE ~WellFormed(t)
    BY <2>3, <2>4 DEF Compare
  <2>5. CASE WellFormed(t)
    <3> DEFINE p == SystemTimeToUnix(now)
               q == ParseRfc3339(t)
    <3>1. /\ p[1] \in Int /\ p[2] \in 0..(Nanos - 1) /\ now = Nanos * p[1] + p[2]
      BY <2>1, PairIsInstant
    <3>2. /\ Instant(t) \in Int /\ q[1] \in Int /\ q[2] \in 0..(Nanos - 1)
          /\ Instant(t) = Nanos * q[1] + q[2]
      BY <2>1, <2>5, InstantIs DEF WellFormed
    <3>3. fact = Timestamp(p) /\ value = Timestamp(q)
      BY <2>2, <2>3, <2>5
    <3> HIDE DEF p, q, fact, value, now
    <3>4. fact.type = "timestamp" /\ value.type = "timestamp" /\ fact.pair = p /\ value.pair = q
          /\ fact # NoValue /\ value # NoValue
      BY <3>3 DEF Timestamp, NoValue
    <3>5. Compare(op) = ApplyOp(op, fact, value)
      BY <3>4 DEF Compare, fact, value
    <3>6. ApplyOp(op, fact, value) = OrderedToBool(op, CmpPairs(p, q))
      BY <3>4 DEF ApplyOp
    <3> QED BY <2>1, <2>5, <3>1, <3>2, <3>5, <3>6, PairsDecide
  <2> QED BY <2>4, <2>5
<1> QED BY <1>1, AskedInvariance, PTL

\* A value that is resolved is of the type of a fact there is, and numbers have no unit.
LEMMA ResolvedIsFact ==
    ASSUME NEW path \in Seq(Segments) \ {<<>>}, NEW ctx, IsContext(ctx),
           NEW fact, fact = Resolve(path, ctx), fact # NoValue
    PROVE  /\ <<path, fact.type>> \in Facts(ctx)
           /\ fact.type = "number" => fact.unit = NoUnit
<1>1. CASE path = <<"now">>
  BY <1>1 DEF Resolve, Timestamp, Facts
<1>2. CASE path \in {<<"caller">>, <<"tool">>}
  <2>1. fact.type = "string"
    BY <1>2 DEF Resolve, StringText
  <2> QED BY <1>2, <2>1 DEF Facts
<1>3. CASE path \notin {<<"now">>, <<"caller">>, <<"tool">>} /\ path[1] = "arg" /\ Len(path) > 1
           /\ Tail(path) \in DOMAIN ctx.args
  <2> DEFINE json == ctx.args[Tail(path)]
  <2>1. fact = JsonToValue(json)
    BY <1>3 DEF Resolve
  <2>2. fact.type = json.type /\ (fact.type = "number" => fact.unit = json.unit)
    BY <2>1 DEF JsonToValue, Number
  <2>3. path = <<"arg">> \o Tail(path)
    BY <1>3
  <2>4. fact.type = "number" => fact.unit = NoUnit
    BY <1>3, <2>2 DEF IsContext
  <2>5. <<<<"arg">> \o Tail(path), json.type>> \in Facts(ctx)
    BY <1>3 DEF Facts
  <2> QED BY <2>2, <2>3, <2>4, <2>5
<1>4. CASE path \notin {<<"now">>, <<"caller">>, <<"tool">>} /\ path[1] = "env" /\ Len(path) = 2
           /\ path[2] \in DOMAIN ctx.env
  <2>1. fact.type = "string"
    BY <1>4 DEF Resolve, StringText
  <2>2. path = <<"env", path[2]>>
    BY <1>4
  <2>3. <<<<"env", path[2]>>, "string">> \in Facts(ctx)
    BY <1>4 DEF Facts
  <2> QED BY <2>1, <2>2, <2>3
<1> QED BY <1>1, <1>2, <1>3, <1>4 DEF Resolve

\* In any context and for any comparison: none holds of a fact that is absent, of another
\* type than the literal, or without its unit.
THEOREM LikeFactsAllow == ValuesSpec => []OnlyLikeFactsAllow
<1>1. AskedOK => OnlyLikeFactsAllow
  <2> DEFINE fact == Resolve(asked.ident, asked.context)
             value == ParseValue(asked.literal)
  <2> SUFFICES ASSUME AskedOK, asked # NotYet, NEW op \in Ops, Compare(op) = "true"
               PROVE  /\ <<asked.ident, asked.literal.type>> \in Facts(asked.context)
                      /\ asked.literal.type = "number" => asked.literal.unit = NoUnit
    BY DEF OnlyLikeFactsAllow
  <2>1. fact # NoValue /\ value # NoValue /\ ApplyOp(op, fact, value) = "true"
    BY DEF Compare
  <2>2. fact.type = value.type
    <3> HIDE DEF fact, value
    <3> QED BY <2>1 DEF ApplyOp, TypeMismatch
  <2>3. value.type = asked.literal.type
        /\ (value.type = "number" => value.unit = asked.literal.unit)
    BY <2>1 DEF ParseValue, Number, Timestamp, AskedOK, IsLiteral
  <2>4. <<asked.ident, fact.type>> \in Facts(asked.context)
        /\ (fact.type = "number" => fact.unit = NoUnit)
    BY <2>1, ResolvedIsFact DEF AskedOK
  <2>5. value.type = "number" => fact.unit = value.unit
    <3> HIDE DEF fact, value
    <3> QED BY <2>1, <2>2 DEF ApplyOp, Admits, TypeMismatch
  <2> QED BY <2>2, <2>3, <2>4, <2>5
<1> QED BY <1>1, AskedInvariance, PTL

-----------------------------------------------------------------------------
\* Numbers

\* The recursion that doubles is one that a function satisfies,
LEMMA TwoToIs ==
    ASSUME NEW k \in 0..Exponent
    PROVE  TwoTo[k] = IF k = 0 THEN 1 ELSE 2 * TwoTo[k - 1]
<1> DEFINE Again(n, f) == [i \in 0..n |-> IF i = 0 THEN 1 ELSE 2 * f[i - 1]]
           Defined(n) == \E f : f = Again(n, f)
           bad == {n \in Nat : ~Defined(n)}
<1>1. Defined(0)
  <2> DEFINE f == [i \in 0..0 |-> 1]
  <2>1. f = Again(0, f)
    OBVIOUS
  <2> QED BY <2>1
<1>2. ASSUME NEW n \in Nat, n # 0, Defined(n - 1) PROVE Defined(n)
  <2>1. PICK f : f = Again(n - 1, f)
    BY <1>2
  <2> DEFINE g == Again(n, f)
  <2>2. ASSUME NEW i \in 0..n, i # 0 PROVE g[i - 1] = f[i - 1]
    <3>1. i - 1 \in 0..n /\ i - 1 \in 0..(n - 1)
      BY <2>2
    <3>2. f[i - 1] = Again(n - 1, f)[i - 1]
      <4> HIDE DEF Again
      <4> QED BY <2>1
    <3> QED BY <3>1, <3>2
  <2>3. g = Again(n, g)
    <3>1. \A i \in 0..n : (IF i = 0 THEN 1 ELSE 2 * f[i - 1]) = IF i = 0 THEN 1 ELSE 2 * g[i - 1]
      <4> HIDE DEF g
      <4> QED BY <2>2
    <3> QED BY <3>1
  <2> QED BY <2>3
<1>3. bad = {}
  <2> SUFFICES ASSUME bad # {} PROVE FALSE
    OBVIOUS
  <2>1. PICK n \in bad : \A y \in bad : n <= y
    BY LeastOf, Zenon
  <2> HIDE DEF Defined
  <2>2. n \in Nat /\ n # 0 /\ ~Defined(n)
    BY <1>1
  <2>3. n - 1 \in Nat /\ ~(n <= n - 1)
    BY <2>2
  <2>4. n - 1 \notin bad
    BY <2>1, <2>3
  <2> QED BY <1>2, <2>2, <2>3, <2>4
<1>4. TwoTo = CHOOSE f : f = Again(Exponent, f)
  BY DEF TwoTo
<1>5. Defined(Exponent)
  BY <1>3, NumbersAssumption
<1>6. TwoTo = Again(Exponent, TwoTo)
  <2> HIDE DEF Again
  <2> QED BY <1>4, <1>5
<1>7. TwoTo[k] = Again(Exponent, TwoTo)[k]
  <2> HIDE DEF Again
  <2> QED BY <1>6
<1> QED BY <1>7

\* and its values are powers of two.
LEMMA PowersDouble ==
    /\ \A k \in 0..Exponent : TwoTo[k] \in Nat \ {0}
    /\ TwoTo[0] = 1
    /\ \A k \in 1..Exponent : TwoTo[k] = 2 * TwoTo[k - 1]
<1> DEFINE bad == {k \in 0..Exponent : TwoTo[k] \notin Nat \ {0}}
<1>1. TwoTo[0] = 1
  BY TwoToIs, NumbersAssumption
<1>2. \A k \in 1..Exponent : TwoTo[k] = 2 * TwoTo[k - 1]
  BY TwoToIs, NumbersAssumption
<1>3. bad = {}
  <2> SUFFICES ASSUME bad # {} PROVE FALSE
    OBVIOUS
  <2>1. PICK k \in bad : \A y \in bad : k <= y
    <3>1. bad \subseteq Nat
      BY NumbersAssumption
    <3> QED BY <3>1, LeastOf, Zenon
  <2>2. k \in 1..Exponent /\ TwoTo[k] \notin Nat \ {0}
    BY <1>1, NumbersAssumption
  <2>3. k - 1 \in 0..Exponent /\ ~(k <= k - 1)
    BY <2>2, NumbersAssumption
  <2>4. TwoTo[k - 1] \in Nat \ {0}
    BY <2>1, <2>3
  <2> QED BY <1>2, <2>2, <2>4
<1> QED BY <1>1, <1>2, <1>3

\* A lesser power divides a greater one.
LEMMA PowersDivide ==
    ASSUME NEW i \in 0..Exponent, NEW j \in 0..Exponent, i <= j
    PROVE  \E s \in Nat \ {0} : TwoTo[j] = s * TwoTo[i]
<1> DEFINE Divides(k) == \E s \in Nat \ {0} : TwoTo[k] = s * TwoTo[i]
           bad == {k \in i..Exponent : ~Divides(k)}
<1>1. Divides(i)
  <2>1. TwoTo[i] = 1 * TwoTo[i]
    BY PowersDouble
  <2> QED BY <2>1
<1>2. ASSUME NEW k \in i..Exponent, k # i, Divides(k - 1) PROVE Divides(k)
  <2>1. PICK s \in Nat \ {0} : TwoTo[k - 1] = s * TwoTo[i]
    BY <1>2
  <2>2. TwoTo[k] = 2 * (s * TwoTo[i]) /\ TwoTo[i] \in Nat
    BY <1>2, <2>1, PowersDouble, NumbersAssumption
  <2>3. TwoTo[k] = (2 * s) * TwoTo[i] /\ 2 * s \in Nat \ {0}
    BY <2>2
  <2> QED BY <2>3
<1>3. bad = {}
  <2> SUFFICES ASSUME bad # {} PROVE FALSE
    OBVIOUS
  <2> HIDE DEF Divides
  <2>1. PICK k \in bad : \A y \in bad : k <= y
    <3>1. bad \subseteq Nat
      BY NumbersAssumption
    <3> QED BY <3>1, LeastOf, Zenon
  <2>2. k \in i..Exponent /\ k # i /\ ~Divides(k)
    BY <1>1
  <2>3. k - 1 \in i..Exponent /\ ~(k <= k - 1)
    BY <2>2, NumbersAssumption
  <2>4. Divides(k - 1)
    BY <2>1, <2>3
  <2> QED BY <1>2, <2>2, <2>4
<1> QED BY <1>3, NumbersAssumption

\* A natural number is a multiple of any divisor, and a remainder.
LEMMA Divided ==
    ASSUME NEW m \in Nat, NEW u \in Nat \ {0}
    PROVE  m \div u \in Nat /\ m % u \in 0..(u - 1) /\ m = (m \div u) * u + (m % u)
<1>1. m \div u \in Int
  OBVIOUS
<1>2. m % u \in 0..(u - 1)
  OBVIOUS
<1>3. m = (m \div u) * u + (m % u)
  OBVIOUS
<1>4. m \div u >= 0
  OBVIOUS
<1> QED BY <1>1, <1>2, <1>3, <1>4

LEMMA ProductsKeepOrder ==
    ASSUME NEW a \in Int, NEW b \in Int, NEW u \in Nat, a <= b
    PROVE  a * u \in Int /\ b * u \in Int /\ a * u <= b * u
  OBVIOUS

\* The quotient is the greatest multiple that is not beyond.
LEMMA QuotientIs ==
    ASSUME NEW m \in Nat, NEW u \in Nat \ {0}, NEW q \in Nat
    PROVE  m \div u >= q <=> m >= q * u
<1>1. m \div u \in Nat /\ m % u \in 0..(u - 1) /\ m = (m \div u) * u + (m % u)
  BY Divided
<1>2. ASSUME m \div u >= q PROVE m >= q * u
  <2>1. q * u \in Int /\ (m \div u) * u \in Int /\ q * u <= (m \div u) * u
    BY <1>1, <1>2, ProductsKeepOrder
  <2> QED BY <1>1, <2>1
<1>3. ASSUME m \div u < q PROVE m < q * u
  <2> DEFINE p == m \div u
  <2>1. p \in Nat /\ p + 1 <= q
    BY <1>1, <1>3
  <2>2. (p + 1) * u \in Int /\ q * u \in Int /\ (p + 1) * u <= q * u
    <3> HIDE DEF p
    <3> QED BY <2>1, ProductsKeepOrder
  <2>3. m < p * u + u
    BY <1>1
  <2>4. (p + 1) * u = p * u + u
    BY <2>1
  <2> HIDE DEF p
  <2> QED BY <2>1, <2>2, <2>3, <2>4
<1>4. m \div u \in Int /\ q * u \in Int
  BY <1>1
<1> QED BY <1>2, <1>3, <1>4

\* The multiple of ulp next to a magnitude: the one below it or the one above.
LEMMA NearestIs ==
    ASSUME NEW m \in Nat, NEW u \in Nat \ {0}
    PROVE  /\ Nearest(m, u) \in {(m \div u) * u, (m \div u + 1) * u}
           /\ Nearest(m, u) \in Nat
           /\ m % u = 0 => Nearest(m, u) = m
<1>1. m \div u \in Nat /\ m % u \in 0..(u - 1) /\ m = (m \div u) * u + (m % u)
  BY Divided
<1>2. Nearest(m, u) \in {(m \div u) * u, (m \div u + 1) * u}
  BY DEF Nearest
<1>3. (m \div u) * u \in Nat /\ (m \div u + 1) * u \in Nat
  BY <1>1
<1>4. ASSUME m % u = 0 PROVE Nearest(m, u) = m
  <2>1. ~(2 * (m % u) > u) /\ ~(2 * (m % u) = u)
    BY <1>4
  <2>2. Nearest(m, u) = (m \div u) * u
    BY <2>1 DEF Nearest
  <2> QED BY <1>1, <1>4, <2>2
<1> QED BY <1>2, <1>3, <1>4

\* Rounding to multiples of one ulp keeps the order.
LEMMA NearestKeepsOrder ==
    ASSUME NEW m \in Nat, NEW n \in Nat, NEW u \in Nat \ {0}, m <= n
    PROVE  Nearest(m, u) <= Nearest(n, u)
<1> DEFINE p == m \div u
           q == n \div u
<1>1. p \in Nat /\ m % u \in 0..(u - 1) /\ m = p * u + (m % u)
  BY Divided
<1>2. q \in Nat /\ n % u \in 0..(u - 1) /\ n = q * u + (n % u)
  BY Divided
<1>3. p <= q
  <2>1. m >= p * u
    BY <1>1
  <2>2. n >= p * u
    BY <1>1, <2>1
  <2> QED BY <1>1, <2>2, QuotientIs
<1>4. CASE p < q
  <2>1. Nearest(m, u) \in {p * u, (p + 1) * u}
    BY NearestIs
  <2>2. Nearest(n, u) \in {q * u, (q + 1) * u}
    BY NearestIs
  <2> HIDE DEF p, q
  <2>3. /\ p * u \in Int /\ (p + 1) * u \in Int /\ q * u \in Int /\ (q + 1) * u \in Int
        /\ p * u <= (p + 1) * u /\ (p + 1) * u <= q * u /\ q * u <= (q + 1) * u
    BY <1>1, <1>2, <1>4, ProductsKeepOrder
  <2> QED BY <2>1, <2>2, <2>3
<1>5. CASE p = q
  <2>1. m % u <= n % u
    <3> DEFINE pu == p * u
    <3>1. pu \in Int /\ m = pu + (m % u) /\ n = pu + (n % u)
      BY <1>1, <1>2, <1>5
    <3> HIDE DEF pu, p, q
    <3> QED BY <1>1, <1>2, <3>1
  <2> DEFINE up(r) == 2 * r > u \/ (2 * r = u /\ p % 2 = 1)
  <2>2. Nearest(m, u) = (IF up(m % u) THEN p + 1 ELSE p) * u
    BY DEF Nearest
  <2>3. Nearest(n, u) = (IF up(n % u) THEN p + 1 ELSE p) * u
    BY <1>5 DEF Nearest
  <2>4. up(m % u) => up(n % u)
    <3> HIDE DEF p, q
    <3> QED BY <1>1, <1>2, <2>1
  <2>5. p * u \in Int /\ (p + 1) * u \in Int /\ p * u <= (p + 1) * u
    <3> HIDE DEF p, q
    <3> QED BY <1>1, ProductsKeepOrder
  <2> HIDE DEF p, q, up
  <2> QED BY <2>2, <2>3, <2>4, <2>5
<1> QED
  <2> HIDE DEF p, q
  <2> QED BY <1>1, <1>2, <1>3, <1>4, <1>5

\* Grain, the digits and infinity are powers of two.
LEMMA SizesOfNumbers ==
    /\ Precision \in 1..Exponent
    /\ TwoTo[Precision] \in Nat \ {0} /\ TwoTo[Precision - 1] \in Nat \ {0}
    /\ TwoTo[Precision] = 2 * TwoTo[Precision - 1]
    /\ Infinite \in Nat \ {0} /\ Grain \in Nat \ {0}
<1>1. PICK g \in 0..(Exponent - Precision) : Grain = TwoTo[g]
  BY GrainAssumption
<1>2. g \in 0..Exponent /\ Precision \in 1..Exponent /\ Precision - 1 \in 0..Exponent
  BY <1>1, NumbersAssumption
<1>3. Exponent \in 0..Exponent /\ Precision \in 0..Exponent
  BY <1>2, NumbersAssumption
<1> QED BY <1>1, <1>2, <1>3, PowersDouble DEF Infinite

\* What fits is less than so many ulps.
LEMMA FitsIs ==
    ASSUME NEW m \in Nat, NEW u \in Nat \ {0}
    PROVE  Fits(m, u) <=> m < TwoTo[Precision] * u
<1>1. TwoTo[Precision] \in Nat /\ m \div u \in Nat
  BY SizesOfNumbers, Divided
<1>2. m \div u >= TwoTo[Precision] <=> m >= TwoTo[Precision] * u
  BY <1>1, QuotientIs
<1> QED BY <1>1, <1>2 DEF Fits

\* The place of the last digit.
IsPlace(k, m) == /\ k \in 0..Exponent /\ Ulp(m) = TwoTo[k] /\ Fits(m, TwoTo[k])
                 /\ \A j \in 0..(k - 1) : ~Fits(m, TwoTo[j])

LEMMA UlpIs ==
    ASSUME NEW m \in Nat, m < Infinite
    PROVE  \E k \in 0..Exponent : IsPlace(k, m)
<1> DEFINE fitting == {k \in 0..Exponent : Fits(m, TwoTo[k])}
           IsLast(k) == Fits(m, TwoTo[k]) /\ \A j \in 0..(k - 1) : ~Fits(m, TwoTo[j])
<1>1. Exponent \in fitting
  <2>1. Exponent \in 0..Exponent
    BY NumbersAssumption
  <2>2. 1 * Infinite \in Int /\ TwoTo[Precision] * Infinite \in Int
        /\ 1 * Infinite <= TwoTo[Precision] * Infinite
    BY SizesOfNumbers, ProductsKeepOrder
  <2>3. m < TwoTo[Precision] * Infinite
    BY <2>2, SizesOfNumbers
  <2>4. Fits(m, TwoTo[Exponent])
    BY <2>3, FitsIs, SizesOfNumbers DEF Infinite
  <2> QED BY <2>1, <2>4
<1>2. PICK k \in fitting : \A j \in fitting : k <= j
  <2>1. fitting \subseteq Nat
    BY NumbersAssumption
  <2> QED BY <1>1, <2>1, LeastOf, Zenon
<1>3. k \in 0..Exponent /\ IsLast(k)
  <2>1. ASSUME NEW j \in 0..(k - 1) PROVE ~Fits(m, TwoTo[j])
    <3>1. j \in 0..Exponent /\ ~(k <= j)
      BY NumbersAssumption
    <3> QED BY <1>2, <3>1
  <2> QED BY <2>1
<1>4. Ulp(m) = TwoTo[CHOOSE i \in 0..Exponent : IsLast(i)]
  BY DEF Ulp
<1> DEFINE l == CHOOSE i \in 0..Exponent : IsLast(i)
<1>5. l \in 0..Exponent /\ IsLast(l)
  <2> HIDE DEF IsLast
  <2> QED BY <1>3
<1> QED BY <1>4, <1>5 DEF IsPlace

\* Rounding uses no more than the digits there are,
LEMMA NearestFits ==
    ASSUME NEW m \in Nat, NEW u \in Nat \ {0}, Fits(m, u)
    PROVE  Nearest(m, u) <= TwoTo[Precision] * u
<1> DEFINE q == m \div u
<1>1. q \in Nat /\ q < TwoTo[Precision] /\ TwoTo[Precision] \in Nat
  BY Divided, SizesOfNumbers DEF Fits
<1>2. Nearest(m, u) \in {q * u, (q + 1) * u}
  BY NearestIs
<1> HIDE DEF q
<1>3. /\ q * u \in Int /\ (q + 1) * u \in Int /\ TwoTo[Precision] * u \in Int
      /\ q * u <= (q + 1) * u /\ (q + 1) * u <= TwoTo[Precision] * u
  BY <1>1, ProductsKeepOrder
<1> QED BY <1>2, <1>3

\* and no fewer, when fewer places do not do.
LEMMA NearestFills ==
    ASSUME NEW m \in Nat, NEW k \in 1..Exponent, ~Fits(m, TwoTo[k - 1])
    PROVE  TwoTo[Precision - 1] * TwoTo[k] <= Nearest(m, TwoTo[k])
<1> DEFINE u == TwoTo[k]
           v == TwoTo[k - 1]
           h == TwoTo[Precision - 1]
           q == m \div u
<1>1. v \in Nat \ {0} /\ u \in Nat \ {0} /\ u = 2 * v
  <2>1. k \in 0..Exponent /\ k - 1 \in 0..Exponent
    BY NumbersAssumption
  <2> QED BY <2>1, PowersDouble
<1>2. h \in Nat \ {0} /\ TwoTo[Precision] = 2 * h
  BY SizesOfNumbers
<1>3. ~(m < TwoTo[Precision] * v)
  BY <1>1, FitsIs
<1>4. q \in Nat /\ Nearest(m, u) \in {q * u, (q + 1) * u}
  BY <1>1, NearestIs, Divided
<1>5. q >= h
  <2>1. m >= h * u
    <3> HIDE DEF u, v, h
    <3>1. (2 * h) * v = h * (2 * v) /\ (2 * h) * v \in Int
      BY <1>1, <1>2
    <3> QED BY <1>1, <1>2, <1>3, <3>1
  <2> QED BY <1>1, <1>2, <2>1, QuotientIs
<1> HIDE DEF u, v, h, q
<1>6. /\ h * u \in Int /\ q * u \in Int /\ (q + 1) * u \in Int
      /\ h * u <= q * u /\ q * u <= (q + 1) * u
  BY <1>1, <1>2, <1>4, <1>5, ProductsKeepOrder
<1>7. h * u <= Nearest(m, u)
  BY <1>4, <1>6
<1> QED BY <1>7 DEF u, h

\* Rounding keeps the order of magnitudes, from one place to the next too,
LEMMA FiniteKeepOrder ==
    ASSUME NEW m \in Nat, NEW n \in Nat, m <= n, n < Infinite
    PROVE  /\ Nearest(m, Ulp(m)) \in Nat /\ Nearest(n, Ulp(n)) \in Nat
           /\ Nearest(m, Ulp(m)) <= Nearest(n, Ulp(n))
<1>1. PICK k \in 0..Exponent : IsPlace(k, m)
  BY UlpIs, SizesOfNumbers
<1>2. PICK l \in 0..Exponent : IsPlace(l, n)
  BY UlpIs
<1> DEFINE u == TwoTo[k]
           v == TwoTo[l]
<1>3. u \in Nat \ {0} /\ v \in Nat \ {0} /\ Ulp(m) = u /\ Ulp(n) = v
      /\ Fits(m, u) /\ Fits(n, v)
  BY <1>1, <1>2, PowersDouble DEF IsPlace
<1>4. Nearest(m, u) \in Nat /\ Nearest(n, v) \in Nat
  <2> HIDE DEF u, v
  <2> QED BY <1>3, NearestIs
<1>5. CASE k = l
  <2> SUFFICES Nearest(m, u) <= Nearest(n, u)
    BY <1>3, <1>4, <1>5
  <2> HIDE DEF u
  <2> QED BY <1>3, NearestKeepsOrder
<1>6. CASE k < l
  <2> DEFINE w == TwoTo[k + 1]
             h == TwoTo[Precision - 1]
  <2>1. k + 1 \in 1..Exponent /\ k + 1 \in 0..Exponent /\ (k + 1) - 1 = k /\ k + 1 <= l
        /\ l \in 1..Exponent /\ l - 1 \in 0..(l - 1)
    BY <1>6, NumbersAssumption
  <2>2. w = 2 * u /\ w \in Nat \ {0}
    BY <2>1, PowersDouble
  <2>3. PICK s \in Nat \ {0} : v = s * w
    BY <2>1, PowersDivide
  <2>4. ~Fits(n, TwoTo[l - 1])
    BY <1>2, <2>1 DEF IsPlace
  <2>5. h * v <= Nearest(n, v)
    BY <2>1, <2>4, NearestFills
  <2>6. Nearest(m, u) <= TwoTo[Precision] * u
    <3> HIDE DEF u
    <3> QED BY <1>3, NearestFits
  <2>7. h \in Nat \ {0} /\ TwoTo[Precision] = 2 * h
    BY SizesOfNumbers
  <2> HIDE DEF u, v, w, h
  <2>8. TwoTo[Precision] * u = h * w /\ h * w \in Nat
    BY <1>3, <2>2, <2>7
  <2>9. 1 * w <= s * w /\ 1 * w \in Int /\ s * w \in Int
    BY <2>2, <2>3, ProductsKeepOrder
  <2>10. w <= v
    BY <2>2, <2>3, <2>9
  <2>11. w * h <= v * h /\ w * h \in Int /\ v * h \in Int
    BY <1>3, <2>2, <2>7, <2>10, ProductsKeepOrder
  <2>12. h * w = w * h /\ h * v = v * h
    BY <1>3, <2>2, <2>7
  <2> QED BY <1>3, <1>4, <2>5, <2>6, <2>8, <2>11, <2>12
<1>7. CASE l < k
  <2>1. ~Fits(m, v)
    BY <1>1, <1>7 DEF IsPlace
  <2> HIDE DEF v
  <2>2. ~(m < TwoTo[Precision] * v) /\ n < TwoTo[Precision] * v /\ TwoTo[Precision] * v \in Int
    BY <1>3, <2>1, FitsIs, SizesOfNumbers
  <2> QED BY <2>2
<1>8. k < l \/ k = l \/ l < k
  BY NumbersAssumption
<1> QED
  <2> HIDE DEF u, v
  <2> QED BY <1>3, <1>4, <1>5, <1>6, <1>7, <1>8

\* up to infinity, which is one number for them all.
LEMMA MagnitudesKeepOrder ==
    ASSUME NEW m \in Nat, NEW n \in Nat, m <= n
    PROVE  /\ RoundMagnitude(m) \in 0..Infinite /\ RoundMagnitude(n) \in 0..Infinite
           /\ RoundMagnitude(m) <= RoundMagnitude(n)
<1> DEFINE p == Nearest(m, Ulp(m))
           q == Nearest(n, Ulp(n))
<1>1. RoundMagnitude(m) = IF m >= Infinite \/ p >= Infinite THEN Infinite ELSE p
  BY DEF RoundMagnitude
<1>2. RoundMagnitude(n) = IF n >= Infinite \/ q >= Infinite THEN Infinite ELSE q
  BY DEF RoundMagnitude
<1>3. m < Infinite => p \in Nat
  BY FiniteKeepOrder
<1>4. n < Infinite => q \in Nat /\ p <= q
  BY FiniteKeepOrder
<1> DEFINE f == RoundMagnitude(m)
           h == RoundMagnitude(n)
<1> HIDE DEF p, q, f, h
<1>5. f \in 0..Infinite /\ h \in 0..Infinite
  BY <1>1, <1>2, <1>3, <1>4, SizesOfNumbers DEF f, h
<1>6. CASE h = Infinite
  BY <1>5, <1>6, SizesOfNumbers DEF f, h
<1>7. CASE h # Infinite
  <2>1. n < Infinite /\ h = q /\ q < Infinite /\ q \in Nat /\ p <= q
    BY <1>2, <1>4, <1>7, SizesOfNumbers DEF h
  <2>2. m < Infinite /\ p \in Nat
    BY <1>3, <2>1, SizesOfNumbers
  <2>3. f = p
    BY <1>1, <2>1, <2>2, SizesOfNumbers DEF f
  <2> QED BY <1>5, <2>1, <2>3 DEF f, h
<1> QED BY <1>5, <1>6, <1>7 DEF f, h

\* The product of two powers is the power of the sum.
LEMMA PowersMultiply ==
    ASSUME NEW i \in 0..Exponent, NEW j \in 0..(Exponent - i)
    PROVE  TwoTo[j] * TwoTo[i] = TwoTo[i + j]
<1> DEFINE IsProduct(k) == TwoTo[k] * TwoTo[i] = TwoTo[i + k]
           bad == {k \in 0..(Exponent - i) : ~IsProduct(k)}
<1>1. IsProduct(0)
  BY PowersDouble
<1>2. ASSUME NEW k \in 0..(Exponent - i), k # 0, IsProduct(k - 1) PROVE IsProduct(k)
  <2>1. k \in 1..Exponent /\ i + k \in 1..Exponent /\ k - 1 \in 0..Exponent
        /\ i + (k - 1) = (i + k) - 1
    BY <1>2, NumbersAssumption
  <2>2. TwoTo[k] = 2 * TwoTo[k - 1] /\ TwoTo[i + k] = 2 * TwoTo[(i + k) - 1]
    BY <2>1, PowersDouble
  <2>3. TwoTo[k - 1] * TwoTo[i] = TwoTo[(i + k) - 1]
    BY <1>2, <2>1
  <2>4. TwoTo[k - 1] \in Nat /\ TwoTo[i] \in Nat
    BY <2>1, PowersDouble
  <2>5. (2 * TwoTo[k - 1]) * TwoTo[i] = 2 * (TwoTo[k - 1] * TwoTo[i])
    BY <2>4
  <2> QED BY <2>2, <2>3, <2>5
<1>3. bad = {}
  <2> SUFFICES ASSUME bad # {} PROVE FALSE
    OBVIOUS
  <2> HIDE DEF IsProduct
  <2>1. PICK k \in bad : \A y \in bad : k <= y
    <3>1. bad \subseteq Nat
      BY NumbersAssumption
    <3> QED BY <3>1, LeastOf, Zenon
  <2>2. k \in 0..(Exponent - i) /\ k # 0 /\ ~IsProduct(k)
    BY <1>1
  <2>3. k - 1 \in 0..(Exponent - i) /\ ~(k <= k - 1)
    BY <2>2, NumbersAssumption
  <2>4. IsProduct(k - 1)
    BY <2>1, <2>3
  <2> QED BY <1>2, <2>2, <2>4
<1> QED BY <1>3

\* A multiple of the last place below a power of two is a multiple of any lesser one.
LEMMA MultiplesOfPowers ==
    ASSUME NEW c \in Nat, NEW k \in 0..Exponent, NEW l \in 0..Exponent, k <= l
    PROVE  (c * TwoTo[l]) % TwoTo[k] = 0
<1>1. PICK s \in Nat \ {0} : TwoTo[l] = s * TwoTo[k]
  BY PowersDivide
<1> DEFINE u == TwoTo[k]
           d == c * s
           m == c * TwoTo[l]
<1>2. u \in Nat \ {0} /\ d \in Nat
  BY PowersDouble
<1>3. m = d * u /\ m \in Nat
  BY <1>1, <1>2
<1> HIDE DEF u, d, m
<1>4. m \div u \in Nat /\ m % u \in 0..(u - 1) /\ m = (m \div u) * u + (m % u)
  BY <1>2, <1>3, Divided
<1>5. m \div u >= d
  BY <1>2, <1>3, QuotientIs
<1>6. d * u <= (m \div u) * u /\ d * u \in Int /\ (m \div u) * u \in Int
  BY <1>2, <1>4, <1>5, ProductsKeepOrder
<1>7. m % u = 0
  BY <1>2, <1>3, <1>4, <1>6
<1> QED BY <1>7 DEF m, u

\* Rounding leaves alone what fits,
LEMMA FittingIsExact ==
    ASSUME NEW c \in Nat, NEW l \in 0..Exponent, c < TwoTo[Precision],
           c * TwoTo[l] < Infinite
    PROVE  RoundMagnitude(c * TwoTo[l]) = c * TwoTo[l]
<1> DEFINE m == c * TwoTo[l]
<1>1. m \in Nat /\ TwoTo[l] \in Nat \ {0}
  BY PowersDouble
<1>2. PICK k \in 0..Exponent : IsPlace(k, m)
  BY <1>1, UlpIs
<1>3. Fits(m, TwoTo[l])
  <2> DEFINE v == TwoTo[l]
             b == TwoTo[Precision]
  <2>1. b \in Nat /\ c + 1 <= b /\ v \in Nat \ {0}
    BY <1>1, SizesOfNumbers
  <2> HIDE DEF v, b
  <2>2. (c + 1) * v <= b * v /\ (c + 1) * v \in Int /\ b * v \in Int
    BY <2>1, ProductsKeepOrder
  <2>3. (c + 1) * v = c * v + v
    BY <2>1
  <2>4. c * v < b * v
    BY <2>1, <2>2, <2>3
  <2> QED BY <1>1, <2>4, FitsIs DEF v, b
<1>4. k <= l
  BY <1>2, <1>3, NumbersAssumption DEF IsPlace
<1>5. m % TwoTo[k] = 0 /\ TwoTo[k] \in Nat \ {0} /\ Ulp(m) = TwoTo[k]
  BY <1>2, <1>4, MultiplesOfPowers, PowersDouble DEF IsPlace
<1>6. m < Infinite
  OBVIOUS
<1> HIDE DEF m
<1>7. Nearest(m, Ulp(m)) = m
  BY <1>1, <1>5, NearestIs
<1>8. RoundMagnitude(m) = m
  BY <1>1, <1>6, <1>7, SizesOfNumbers DEF RoundMagnitude
<1> QED BY <1>8 DEF m

\* and so every integer of no more than Precision digits, and the first of one more.
LEMMA IntegersAreExact ==
    ASSUME NEW c \in Nat, c <= TwoTo[Precision]
    PROVE  RoundMagnitude(c * Grain) = c * Grain
<1>1. PICK g \in 0..(Exponent - Precision) : Grain = TwoTo[g]
  BY GrainAssumption
<1> DEFINE b == TwoTo[Precision]
           h == TwoTo[Precision - 1]
<1>2. g \in 0..Exponent /\ g + 1 \in 1..Exponent /\ (g + 1) - 1 = g
  BY <1>1, SizesOfNumbers, NumbersAssumption
<1>3. b * Grain <= Infinite /\ b * Grain \in Nat
  <2>1. Precision \in 0..(Exponent - g) /\ g + Precision \in 0..Exponent
        /\ Exponent \in 0..Exponent /\ g + Precision <= Exponent
    BY <1>1, <1>2, SizesOfNumbers, NumbersAssumption
  <2>2. b * Grain = TwoTo[g + Precision]
    BY <1>1, <1>2, <2>1, PowersMultiply
  <2>3. PICK s \in Nat \ {0} : Infinite = s * TwoTo[g + Precision]
    BY <2>1, PowersDivide DEF Infinite
  <2> DEFINE w == TwoTo[g + Precision]
  <2>4. w \in Nat \ {0}
    BY <2>1, PowersDouble
  <2> HIDE DEF w
  <2>5. 1 * w <= s * w /\ 1 * w \in Int
    BY <2>4, ProductsKeepOrder
  <2>6. w <= s * w
    BY <2>4, <2>5
  <2> QED BY <2>2, <2>3, <2>4, <2>6 DEF w
<1>4. b = 2 * h /\ h \in Nat \ {0} /\ b \in Nat \ {0} /\ Grain \in Nat \ {0} /\ Infinite \in Nat \ {0}
  BY SizesOfNumbers
<1>5. CASE c < b
  <2> HIDE DEF b
  <2>1. (c + 1) * Grain <= b * Grain /\ (c + 1) * Grain \in Int
    BY <1>4, <1>5, ProductsKeepOrder
  <2>2. (c + 1) * Grain = c * Grain + Grain /\ c * Grain \in Int
    BY <1>4
  <2>3. c * Grain < Infinite
    BY <1>3, <1>4, <2>1, <2>2
  <2> QED BY <1>1, <1>2, <1>5, <2>3, FittingIsExact DEF b
<1>6. CASE c = b
  <2>1. CASE b * Grain < Infinite
    <3> DEFINE w == TwoTo[g + 1]
    <3>1. w = 2 * Grain /\ g + 1 \in 0..Exponent
      BY <1>1, <1>2, PowersDouble
    <3>2. h * w = b * Grain /\ h < b
      <4> HIDE DEF w, h, b
      <4> QED BY <1>4, <3>1
    <3>3. RoundMagnitude(h * w) = h * w
      BY <1>4, <2>1, <3>1, <3>2, FittingIsExact
    <3> HIDE DEF w, h, b
    <3> QED BY <1>6, <3>2, <3>3
  <2>2. CASE b * Grain = Infinite
    BY <1>6, <2>2, <1>4 DEF RoundMagnitude
  <2> QED BY <1>3, <1>4, <2>1, <2>2
<1> QED BY <1>4, <1>5, <1>6

\* With a sign: rounding keeps the order,
LEMMA F64KeepsOrder ==
    ASSUME NEW m \in Int, NEW n \in Int, m <= n
    PROVE  ToF64(m) \in Int /\ ToF64(n) \in Int /\ ToF64(m) <= ToF64(n)
<1>1. CASE m >= 0
  <2>1. m \in Nat /\ n \in Nat
    BY <1>1
  <2> QED BY <2>1, <1>1, MagnitudesKeepOrder, SizesOfNumbers DEF ToF64
<1>2. CASE m < 0 /\ n >= 0
  <2>1. -m \in Nat /\ n \in Nat /\ ~(m >= 0)
    BY <1>2
  <2>2. RoundMagnitude(-m) \in 0..Infinite /\ RoundMagnitude(n) \in 0..Infinite
    BY <2>1, MagnitudesKeepOrder
  <2>3. ToF64(m) = -RoundMagnitude(-m) /\ ToF64(n) = RoundMagnitude(n)
    BY <1>2, <2>1 DEF ToF64
  <2> QED BY <2>2, <2>3, SizesOfNumbers
<1>3. CASE n < 0
  <2>1. -m \in Nat /\ -n \in Nat /\ -n <= -m /\ ~(m >= 0) /\ ~(n >= 0)
    BY <1>3
  <2>2. RoundMagnitude(-m) \in 0..Infinite /\ RoundMagnitude(-n) \in 0..Infinite
        /\ RoundMagnitude(-n) <= RoundMagnitude(-m)
    BY <2>1, MagnitudesKeepOrder
  <2>3. ToF64(m) = -RoundMagnitude(-m) /\ ToF64(n) = -RoundMagnitude(-n)
    BY <2>1 DEF ToF64
  <2> QED BY <2>2, <2>3, SizesOfNumbers
<1> QED BY <1>1, <1>2, <1>3

\* and integers of few digits are themselves.
LEMMA F64IsExact ==
    ASSUME NEW c \in Int, -TwoTo[Precision] <= c, c <= TwoTo[Precision]
    PROVE  ToF64(c * Grain) = c * Grain
<1> DEFINE b == TwoTo[Precision]
<1>1. b \in Nat /\ Grain \in Nat \ {0} /\ -b <= c /\ c <= b
  BY SizesOfNumbers
<1>2. CASE c >= 0
  <2>1. c \in Nat /\ c * Grain >= 0
    BY <1>1, <1>2
  <2> QED BY <2>1, IntegersAreExact DEF ToF64
<1>3. CASE c < 0
  <2> DEFINE d == -c
  <2>1. d \in Nat /\ d <= b
    BY <1>1, <1>3
  <2>2. RoundMagnitude(d * Grain) = d * Grain
    <3> HIDE DEF d
    <3> QED BY <2>1, IntegersAreExact
  <2>3. -(c * Grain) = d * Grain /\ c * Grain \in Int
    BY <1>1
  <2>4. 1 * Grain <= d * Grain
    <3>1. 1 <= d
      BY <1>3
    <3> HIDE DEF d
    <3> QED BY <1>1, <2>1, <3>1, ProductsKeepOrder
  <2>5. ~(c * Grain >= 0)
    <3> HIDE DEF d
    <3> QED BY <1>1, <2>1, <2>3, <2>4
  <2>6. ToF64(c * Grain) = -RoundMagnitude(-(c * Grain))
    BY <2>5 DEF ToF64
  <2> HIDE DEF d
  <2> QED BY <2>2, <2>3, <2>6
<1> QED BY <1>2, <1>3

\* A multiple of Grain.
LEMMA WholeNumbers ==
    ASSUME NEW n \in Int, n % Grain = 0
    PROVE  \E c \in Int : n = c * Grain
<1>1. Grain \in Int /\ Grain > 0
  BY SizesOfNumbers
<1>2. n \div Grain \in Int /\ n = (n \div Grain) * Grain + (n % Grain)
  BY <1>1
<1>3. n = (n \div Grain) * Grain
  BY <1>1, <1>2
<1> QED BY <1>2, <1>3

\* An integer cap of few digits stands apart from the integers next to it.
LEMMA CapsStandApart ==
    ASSUME NEW arg \in Int, arg % Grain = 0, NEW cap \in Int, cap % Grain = 0,
           -(Grain * TwoTo[Precision]) < cap, cap < Grain * TwoTo[Precision]
    PROVE  /\ arg < cap => ToF64(arg) < ToF64(cap)
           /\ cap < arg => ToF64(cap) < ToF64(arg)
<1> DEFINE b == TwoTo[Precision]
<1>1. PICK c \in Int : cap = c * Grain
  BY WholeNumbers
<1>2. PICK d \in Int : arg = d * Grain
  BY WholeNumbers
<1>3. b \in Nat /\ Grain \in Nat \ {0} /\ -(Grain * b) < cap /\ cap < Grain * b
  BY SizesOfNumbers
<1> HIDE DEF b
<1>4. -b < c /\ c < b
  <2>1. ASSUME b <= c PROVE FALSE
    <3>1. b * Grain <= c * Grain /\ b * Grain \in Int
      BY <1>3, <2>1, ProductsKeepOrder
    <3>2. b * Grain = Grain * b
      BY <1>3
    <3> QED BY <1>1, <1>3, <3>1, <3>2
  <2>2. ASSUME c <= -b PROVE FALSE
    <3>1. c * Grain <= (-b) * Grain /\ (-b) * Grain \in Int
      BY <1>3, <2>2, ProductsKeepOrder
    <3>2. (-b) * Grain = -(Grain * b)
      BY <1>3
    <3> QED BY <1>1, <1>3, <3>1, <3>2
  <2> QED BY <1>3, <2>1, <2>2
<1>5. \A i \in Int : -b <= i /\ i <= b => ToF64(i * Grain) = i * Grain
  BY F64IsExact DEF b
<1>6. ToF64(cap) = cap
  BY <1>1, <1>3, <1>4, <1>5
<1>7. ASSUME arg < cap PROVE ToF64(arg) < cap
  <2>1. d < c
    <3>1. ASSUME c <= d PROVE FALSE
      <4>1. c * Grain <= d * Grain
        BY <1>3, <3>1, ProductsKeepOrder
      <4> QED BY <1>1, <1>2, <1>7, <4>1
    <3> QED BY <3>1
  <2> DEFINE e == c - 1
  <2>2. e \in Int /\ d <= e /\ -b <= e /\ e <= b /\ c = e + 1
    BY <1>3, <1>4, <2>1
  <2> HIDE DEF e
  <2>3. d * Grain <= e * Grain /\ e * Grain \in Int
    BY <1>3, <2>2, ProductsKeepOrder
  <2>4. ToF64(e * Grain) = e * Grain
    BY <1>5, <2>2
  <2>5. ToF64(arg) \in Int /\ ToF64(arg) <= e * Grain
    BY <1>2, <2>3, <2>4, F64KeepsOrder
  <2>6. cap = e * Grain + Grain
    BY <1>1, <1>3, <2>2
  <2> QED BY <1>3, <2>3, <2>5, <2>6
<1>8. ASSUME cap < arg PROVE cap < ToF64(arg)
  <2>1. c < d
    <3>1. ASSUME d <= c PROVE FALSE
      <4>1. d * Grain <= c * Grain
        BY <1>3, <3>1, ProductsKeepOrder
      <4> QED BY <1>1, <1>2, <1>8, <4>1
    <3> QED BY <3>1
  <2> DEFINE e == c + 1
  <2>2. e \in Int /\ e <= d /\ -b <= e /\ e <= b /\ c = e - 1
    BY <1>3, <1>4, <2>1
  <2> HIDE DEF e
  <2>3. e * Grain <= d * Grain /\ e * Grain \in Int
    BY <1>3, <2>2, ProductsKeepOrder
  <2>4. ToF64(e * Grain) = e * Grain
    BY <1>5, <2>2
  <2>5. ToF64(arg) \in Int /\ e * Grain <= ToF64(arg)
    BY <1>2, <2>3, <2>4, F64KeepsOrder
  <2>6. cap = e * Grain - Grain
    BY <1>1, <1>3, <2>2
  <2> QED BY <1>3, <2>3, <2>5, <2>6
<1> QED BY <1>6, <1>7, <1>8

\* What a comparison of a number that is answered compares.
LEMMA NumbersCompared ==
    ASSUME AskedOK, AskedNumber, NEW op, Compare(op) # "error",
           NEW arg, arg = asked.context.args[<<"k">>]
    PROVE  /\ \A o : Compare(o) =
                 OrderedToBool(o, Cmp(ToF64(arg.n), ToF64(asked.literal.n)))
           /\ IsNumber(arg) /\ IsNumber(asked.literal)
           /\ ~asked.literal.point => ~arg.point
<1> DEFINE fact == Resolve(asked.ident, asked.context)
           value == ParseValue(asked.literal)
<1>1. IsNumber(arg) /\ IsNumber(asked.literal) /\ arg.type = "number"
  BY DEF AskedOK, AskedNumber, IsContext, IsLiteral
<1>2. fact = JsonToValue(arg)
  <2>1. asked.ident # <<"now">> /\ asked.ident # <<"caller">> /\ asked.ident # <<"tool">>
    BY DEF AskedNumber
  <2>2. asked.ident[1] = "arg" /\ Len(asked.ident) > 1 /\ Tail(asked.ident) = <<"k">>
    BY DEF AskedNumber
  <2>3. <<"k">> \in DOMAIN asked.context.args
    BY DEF AskedNumber
  <2> QED BY <2>1, <2>2, <2>3 DEF Resolve
<1>3. value = Number(asked.literal)
  BY DEF ParseValue, AskedNumber
<1> HIDE DEF fact, value
<1>4. \A o : Compare(o) = IF NoValue \in {fact, value} THEN "error" ELSE ApplyOp(o, fact, value)
  BY DEF Compare, fact, value
<1>5. fact # NoValue /\ value # NoValue /\ ApplyOp(op, fact, value) # "error"
  BY <1>4
<1>6. fact = Number(arg)
  BY <1>1, <1>2, <1>5 DEF JsonToValue
<1>7. /\ fact.type = "number" /\ value.type = "number"
      /\ fact.f = ToF64(arg.n) /\ value.f = ToF64(asked.literal.n)
      /\ fact.kind = (IF arg.point THEN "Float" ELSE "Integer")
      /\ value.kind = (IF asked.literal.point THEN "Float" ELSE "Integer")
  BY <1>3, <1>6 DEF Number
<1>8. \A o : ApplyOp(o, fact, value) =
         IF Admits(fact, value) THEN OrderedToBool(o, Cmp(fact.f, value.f)) ELSE "error"
  BY <1>7 DEF ApplyOp, TypeMismatch
<1>9. Admits(fact, value)
  BY <1>5, <1>8
<1>10. ~asked.literal.point => ~arg.point
  BY <1>7, <1>9 DEF Admits
<1> QED BY <1>1, <1>4, <1>5, <1>7, <1>8, <1>9, <1>10

\* Comparisons of two pairs that are ordered alike decide alike.
LEMMA LikeOrdersDecide ==
    ASSUME NEW a \in Int, NEW b \in Int, NEW f \in Int, NEW g \in Int,
           f < g <=> a < b, g < f <=> b < a, NEW op \in Orderings
    PROVE  OrderedToBool(op, Cmp(f, g)) = Truth(Exact(op, a, b))
<1> DEFINE ord == Cmp(f, g)
<1>1. ord \in Int /\ (ord < 0 <=> a < b) /\ (ord > 0 <=> b < a)
  BY DEF Cmp
<1> HIDE DEF ord
<1>2. OrderedToBool(op, ord) = Truth(Exact(op, a, b))
  BY <1>1, OrderingDecides
<1> QED BY <1>2 DEF ord

\* With any number of digits, any exponent and any numbers: rounding never swaps two
\* numbers, and under an integer cap of few digits it does not even make two equal.
THEOREM NumbersAreOrdered == ValuesSpec => []NumbersKeepTheirOrder
<1>1. ASSUME AskedOK PROVE IntegerCapsAreExact
  <2> DEFINE json == asked.context.args[<<"k">>]
             arg == json.n
             cap == asked.literal.n
             bound == Grain * TwoTo[Precision]
  <2> SUFFICES ASSUME AskedNumber, ~asked.literal.point, -bound < cap, cap < bound,
                      NEW op \in Orderings, Compare(op) # "error"
               PROVE  Compare(op) = Truth(Exact(op, arg, cap))
    BY DEF IntegerCapsAreExact
  <2>1. /\ Compare(op) = OrderedToBool(op, Cmp(ToF64(arg), ToF64(cap)))
        /\ IsNumber(json) /\ IsNumber(asked.literal) /\ ~json.point
    BY <1>1, NumbersCompared
  <2>2. arg \in Int /\ arg % Grain = 0 /\ cap \in Int /\ cap % Grain = 0
    BY <2>1 DEF IsNumber
  <2>3. -bound < cap /\ cap < bound
    OBVIOUS
  <2> HIDE DEF arg, cap, bound
  <2>4. /\ arg < cap => ToF64(arg) < ToF64(cap)
        /\ cap < arg => ToF64(cap) < ToF64(arg)
    BY <2>2, <2>3, CapsStandApart DEF bound
  <2>5. ToF64(arg) \in Int /\ ToF64(cap) \in Int
    BY <2>2, F64KeepsOrder
  <2>6. (ToF64(arg) < ToF64(cap) <=> arg < cap) /\ (ToF64(cap) < ToF64(arg) <=> cap < arg)
    <3>1. CASE arg = cap
      BY <2>2, <2>5, <3>1
    <3>2. CASE arg # cap
      BY <2>2, <2>4, <2>5, <3>2
    <3> QED BY <3>1, <3>2
  <2> QED BY <2>1, <2>2, <2>5, <2>6, LikeOrdersDecide
<1>2. ASSUME AskedOK PROVE RoundingOnlyCollapses
  <2> DEFINE json == asked.context.args[<<"k">>]
             arg == json.n
             cap == asked.literal.n
  <2> SUFFICES ASSUME AskedNumber, NEW pair \in {<<"<", "<=">>, <<">", ">=">>},
                      Compare(pair[1]) # "error"
               PROVE  /\ Compare(pair[1]) = "true" => Exact(pair[1], arg, cap)
                      /\ Exact(pair[2], arg, cap) => Compare(pair[2]) = "true"
    BY DEF RoundingOnlyCollapses
  <2> DEFINE f == ToF64(arg)
             g == ToF64(cap)
  <2>1. /\ \A o : Compare(o) = OrderedToBool(o, Cmp(f, g))
        /\ IsNumber(json) /\ IsNumber(asked.literal)
    BY <1>2, NumbersCompared
  <2>2. arg \in Int /\ cap \in Int
    BY <2>1 DEF IsNumber
  <2> HIDE DEF arg, cap
  <2>3. f \in Int /\ g \in Int /\ (arg <= cap => f <= g) /\ (cap <= arg => g <= f)
    BY <2>2, F64KeepsOrder
  <2> HIDE DEF f, g
  <2>4. \A o \in Orderings : Compare(o) = Truth(Exact(o, f, g))
    BY <2>1, <2>3, LikeOrdersDecide
  <2>5. CASE pair = <<"<", "<=">>
    <3>1. Compare("<") = Truth(f < g) /\ Compare("<=") = Truth(f <= g)
      BY <2>4 DEF Orderings, Exact
    <3>2. Exact("<", arg, cap) = (arg < cap) /\ Exact("<=", arg, cap) = (arg <= cap)
      BY DEF Exact
    <3>3. pair[1] = "<" /\ pair[2] = "<="
      BY <2>5
    <3>4. Truth(f < g) = "true" => arg < cap
      BY <2>2, <2>3 DEF Truth
    <3>5. arg <= cap => Truth(f <= g) = "true"
      BY <2>2, <2>3 DEF Truth
    <3> QED BY <3>1, <3>2, <3>3, <3>4, <3>5
  <2>6. CASE pair = <<">", ">=">>
    <3>1. Compare(">") = Truth(f > g) /\ Compare(">=") = Truth(f >= g)
      BY <2>4 DEF Orderings, Exact
    <3>2. Exact(">", arg, cap) = (arg > cap) /\ Exact(">=", arg, cap) = (arg >= cap)
      BY DEF Exact
    <3>3. pair[1] = ">" /\ pair[2] = ">="
      BY <2>6
    <3>4. Truth(f > g) = "true" => arg > cap
      BY <2>2, <2>3 DEF Truth
    <3>5. arg >= cap => Truth(f >= g) = "true"
      BY <2>2, <2>3 DEF Truth
    <3> QED BY <3>1, <3>2, <3>3, <3>4, <3>5
  <2> QED BY <2>5, <2>6
<1> QED BY <1>1, <1>2, AskedInvariance, PTL DEF NumbersKeepTheirOrder
-----------------------------------------------------------------------------
(* The boolean layer of the caveat language.  Parser and Meanings are        *)
(* recursive functions: first they are shown to satisfy their equations, then *)
(* to agree, by induction on what is left of the input.                      *)

\* How far a call is from the end: every call is made by one further away.
CallRank(s, call) ==
    4 * (Len(s) + 1 - call[3])
    + (IF call[1] = "unary" THEN 1
       ELSE IF call[2] # "none" THEN 0
       ELSE IF call[1] = "AND" THEN 2 ELSE 3)

\* A call returns no expression, or one that ends after it started and no later
\* than the input.  A loop may end where it starts.
CallReturns(s, call, result) ==
    \/ result = Failed
    \/ \E v \in Outcomes, e \in call[3]..(Len(s) + 1) :
           /\ result = Parsed(v, e)
           /\ call[3] = e => call[1] # "unary" /\ call[2] # "none"

Called(s, f, call) == ParserStep(s, f, call[1], call[2], call[3])

\* The value of every call of a lower rank is settled.
SettledBelow(s, f, n) ==
    \A d \in ParserCalls(s) :
        CallRank(s, d) < n => f[d] = Called(s, f, d) /\ CallReturns(s, d, f[d])

\* A call depends on calls of a lower rank only.
LEMMA CallsGoDown ==
    ASSUME NEW s \in Seq(Tokens), NEW f, NEW g, NEW c \in ParserCalls(s),
           \A d \in ParserCalls(s) :
               CallRank(s, d) < CallRank(s, c) => f[d] = g[d] /\ CallReturns(s, d, f[d])
    PROVE  Called(s, f, c) = Called(s, g, c) /\ CallReturns(s, c, Called(s, f, c))
<1> DEFINE keyword == c[1]
           left == c[2]
           pos == c[3]
<1>1. /\ keyword \in {"OR", "AND", "unary"}
      /\ left \in Outcomes \cup {"none"}
      /\ pos \in 1..(Len(s) + 1)
      /\ Len(s) \in Nat
      /\ c = <<keyword, left, pos>>
  BY DEF ParserCalls
<1>3. ASSUME NEW fn \in {"OR", "AND", "unary"}, NEW l \in Outcomes \cup {"none"},
             NEW p \in 1..(Len(s) + 1), CallRank(s, <<fn, l, p>>) < CallRank(s, c)
      PROVE  /\ f[<<fn, l, p>>] = g[<<fn, l, p>>]
             /\ CallReturns(s, <<fn, l, p>>, f[<<fn, l, p>>])
  <2>1. <<fn, l, p>> \in ParserCalls(s)
    BY DEF ParserCalls
  <2> QED BY <1>3, <2>1
<1> HIDE DEF keyword, left, pos
<1>4. CASE keyword = "unary"
  <2>1. CallRank(s, c) = 4 * (Len(s) + 1 - pos) + 1
    BY <1>4, <1>1 DEF CallRank
  <2>2. /\ Called(s, f, c) = ParseUnary(s, f, pos)
        /\ Called(s, g, c) = ParseUnary(s, g, pos)
    BY <1>4, <1>1 DEF Called, ParserStep
  <2>3. CASE Peek(s, pos) # "("
    <3>1. /\ ParseUnary(s, f, pos) = ParseComparison(s, pos)
          /\ ParseUnary(s, g, pos) = ParseComparison(s, pos)
      BY <2>3 DEF ParseUnary
    <3>2. CASE Peek(s, pos) \in Comparisons /\ ~(Peek(s, pos) = "now" /\ Peek(s, pos + 1) = ")")
      <4>1. pos \in 1..Len(s) /\ s[pos] \in Comparisons
        BY <3>2, <1>1 DEF Peek, Comparisons
      <4>2. Outcome(s[pos]) \in Outcomes
        BY <4>1 DEF Outcome, Outcomes, Comparisons
      <4>3. ParseComparison(s, pos) = Parsed(Outcome(s[pos]), pos + 1)
        BY <3>2 DEF ParseComparison
      <4>4. pos + 1 \in pos..(Len(s) + 1) /\ pos # pos + 1
        BY <4>1
      <4>5. CallReturns(s, c, Parsed(Outcome(s[pos]), pos + 1))
        BY <4>2, <4>4, <1>1 DEF CallReturns, pos
      <4> QED BY <3>1, <4>3, <4>5, <2>2
    <3>3. CASE ~(Peek(s, pos) \in Comparisons /\ ~(Peek(s, pos) = "now" /\ Peek(s, pos + 1) = ")"))
      <4>1. ParseComparison(s, pos) = Failed
        BY <3>3 DEF ParseComparison
      <4> QED BY <3>1, <4>1, <2>2 DEF CallReturns
    <3> QED BY <3>2, <3>3
  <2>4. CASE Peek(s, pos) = "("
    <3> DEFINE d == <<"OR", "none", pos + 1>>
    <3>1. pos \in 1..Len(s)
      BY <2>4, <1>1 DEF Peek
    <3>2. CallRank(s, d) = 4 * (Len(s) + 1 - (pos + 1)) + 3
      BY DEF CallRank
    <3>3. f[d] = g[d] /\ CallReturns(s, d, f[d])
      <4>1. CallRank(s, d) < CallRank(s, c)
        BY <3>2, <2>1, <3>1
      <4>2. pos + 1 \in 1..(Len(s) + 1)
        BY <3>1
      <4> QED BY <4>1, <4>2, <1>3
    <3>4. ParseUnary(s, f, pos) = ParseUnary(s, g, pos)
      BY <3>3, <2>4 DEF ParseUnary
    <3>5. CASE f[d].ok /\ Peek(s, f[d].pos) = ")"
      <4>1. PICK v \in Outcomes, e \in (pos + 1)..(Len(s) + 1) : f[d] = Parsed(v, e)
        BY <3>3, <3>5 DEF CallReturns, Failed
      <4>2. ParseUnary(s, f, pos) = Parsed(v, e + 1) /\ Peek(s, e) = ")"
        BY <4>1, <3>5, <2>4 DEF ParseUnary, Parsed
      <4>3. e + 1 \in pos..(Len(s) + 1) /\ pos # e + 1
        <5>1. e \in 1..Len(s)
          BY <4>2, <3>1 DEF Peek
        <5> QED BY <5>1, <3>1
      <4>4. CallReturns(s, c, Parsed(v, e + 1))
        BY <4>3, <1>1 DEF CallReturns, pos
      <4> QED BY <4>4, <4>2, <3>4, <2>2
    <3>6. CASE ~(f[d].ok /\ Peek(s, f[d].pos) = ")")
      <4>1. ParseUnary(s, f, pos) = Failed
        BY <3>6, <2>4 DEF ParseUnary
      <4> QED BY <4>1, <3>4, <2>2 DEF CallReturns
    <3> QED BY <3>5, <3>6
  <2> QED BY <2>3, <2>4
<1>5. CASE keyword # "unary" /\ left = "none"
  <2>1. CallRank(s, c) = 4 * (Len(s) + 1 - pos) + (IF keyword = "AND" THEN 2 ELSE 3)
    BY <1>5, <1>1 DEF CallRank
  <2>2. /\ Called(s, f, c) = ParseChain(f, keyword, pos)
        /\ Called(s, g, c) = ParseChain(g, keyword, pos)
    BY <1>5, <1>1 DEF Called, ParserStep
  <2> DEFINE d == <<IF keyword = "OR" THEN "AND" ELSE "unary", "none", pos>>
  <2>3. f[d] = g[d] /\ CallReturns(s, d, f[d])
    <3>1. CallRank(s, d) < CallRank(s, c)
      <4>1. CallRank(s, d) = 4 * (Len(s) + 1 - pos) + (IF keyword = "OR" THEN 2 ELSE 1)
        BY DEF CallRank
      <4>2. 4 * (Len(s) + 1 - pos) \in Int
        BY <1>1
      <4> QED BY <4>1, <4>2, <2>1, <1>1, <1>5
    <3> QED BY <3>1, <1>3, <1>1
  <2>4. Operand(f, keyword, pos) = f[d] /\ Operand(g, keyword, pos) = g[d]
    BY DEF Operand
  <2> HIDE DEF d
  <2>5. CASE f[d].ok
    <3>1. PICK v \in Outcomes, e \in pos..(Len(s) + 1) : f[d] = Parsed(v, e) /\ e # pos
      BY <2>3, <2>5 DEF CallReturns, Failed, d
    <3> DEFINE l == <<keyword, v, e>>
    <3>2. /\ ParseChain(f, keyword, pos) = f[l]
          /\ ParseChain(g, keyword, pos) = g[l]
      BY <2>3, <2>4, <3>1 DEF ParseChain, Parsed
    <3>3. f[l] = g[l] /\ CallReturns(s, l, f[l])
      <4>1. CallRank(s, l) = 4 * (Len(s) + 1 - e)
        BY <1>5 DEF CallRank, Outcomes
      <4>2. CallRank(s, l) < CallRank(s, c)
        BY <4>1, <2>1, <3>1, <1>1
      <4>3. e \in 1..(Len(s) + 1)
        BY <3>1, <1>1
      <4> QED BY <4>2, <4>3, <1>3, <1>1
    <3>4. CallReturns(s, c, f[l])
      <4>1. CASE f[l] = Failed
        BY <4>1 DEF CallReturns
      <4>2. ASSUME NEW w \in Outcomes, NEW x \in e..(Len(s) + 1), f[l] = Parsed(w, x)
            PROVE  CallReturns(s, c, f[l])
        <5>1. x \in pos..(Len(s) + 1) /\ x # pos
          BY <3>1, <1>1
        <5> QED BY <5>1, <4>2 DEF CallReturns, pos
      <4> QED BY <3>3, <4>1, <4>2 DEF CallReturns
    <3> QED BY <3>2, <3>3, <3>4, <2>2
  <2>6. CASE ~f[d].ok
    <3>1. ParseChain(f, keyword, pos) = Failed /\ ParseChain(g, keyword, pos) = Failed
      BY <2>6, <2>3, <2>4 DEF ParseChain
    <3> QED BY <3>1, <2>2 DEF CallReturns
  <2> QED BY <2>5, <2>6
<1>6. CASE keyword # "unary" /\ left # "none"
  <2>1. CallRank(s, c) = 4 * (Len(s) + 1 - pos)
    BY <1>6, <1>1 DEF CallRank
  <2>2. /\ Called(s, f, c) = Continue(s, f, keyword, left, pos)
        /\ Called(s, g, c) = Continue(s, g, keyword, left, pos)
    BY <1>6, <1>1 DEF Called, ParserStep
  <2>3. CASE Peek(s, pos) # keyword
    <3>1. /\ Continue(s, f, keyword, left, pos) = Parsed(left, pos)
          /\ Continue(s, g, keyword, left, pos) = Parsed(left, pos)
      BY <2>3 DEF Continue
    <3>2. CallReturns(s, c, Parsed(left, pos))
      <4>1. left \in Outcomes /\ pos \in pos..(Len(s) + 1)
        BY <1>1, <1>6
      <4> QED BY <4>1, <1>6 DEF CallReturns, pos, left, keyword
    <3> QED BY <3>1, <3>2, <2>2
  <2>4. CASE Peek(s, pos) = keyword
    <3>1. pos \in 1..Len(s)
      <4>1. Peek(s, pos) # ""
        BY <2>4, <1>1
      <4>2. pos \in DOMAIN s
        BY <4>1 DEF Peek
      <4>3. DOMAIN s = 1..Len(s)
        OBVIOUS
      <4> QED BY <4>2, <4>3
    <3> DEFINE d == <<IF keyword = "OR" THEN "AND" ELSE "unary", "none", pos + 1>>
    <3>2. f[d] = g[d] /\ CallReturns(s, d, f[d])
      <4>1. CallRank(s, d) < CallRank(s, c)
        <5>1. CallRank(s, d) = 4 * (Len(s) + 1 - (pos + 1)) + (IF keyword = "OR" THEN 2 ELSE 1)
          BY DEF CallRank
        <5> QED BY <5>1, <2>1, <3>1
      <4>2. pos + 1 \in 1..(Len(s) + 1)
        BY <3>1
      <4> QED BY <4>1, <4>2, <1>3
    <3>3. Operand(f, keyword, pos + 1) = f[d] /\ Operand(g, keyword, pos + 1) = g[d]
      BY DEF Operand
    <3> HIDE DEF d
    <3>4. CASE f[d].ok
      <4>1. PICK v \in Outcomes, e \in (pos + 1)..(Len(s) + 1) : f[d] = Parsed(v, e)
        BY <3>2, <3>4 DEF CallReturns, Failed, d
      <4> DEFINE l == <<keyword, Evaluated(keyword, left, v), e>>
      <4>2. /\ Continue(s, f, keyword, left, pos) = f[l]
            /\ Continue(s, g, keyword, left, pos) = g[l]
        BY <3>2, <3>3, <4>1, <2>4 DEF Continue, Parsed
      <4>3. Evaluated(keyword, left, v) \in Outcomes
        BY <1>1, <1>6 DEF Evaluated
      <4>4. f[l] = g[l] /\ CallReturns(s, l, f[l])
        <5>1. CallRank(s, l) = 4 * (Len(s) + 1 - e)
          BY <1>6, <4>3 DEF CallRank, Outcomes
        <5>2. CallRank(s, l) < CallRank(s, c)
          BY <5>1, <2>1, <1>1
        <5>3. e \in 1..(Len(s) + 1)
          BY <1>1
        <5> QED BY <5>2, <5>3, <4>3, <1>3, <1>1
      <4>5. CallReturns(s, c, f[l])
        <5>1. CASE f[l] = Failed
          BY <5>1 DEF CallReturns
        <5>2. ASSUME NEW w \in Outcomes, NEW x \in e..(Len(s) + 1), f[l] = Parsed(w, x)
              PROVE  CallReturns(s, c, f[l])
          <6>1. x \in pos..(Len(s) + 1) /\ x # pos
            BY <1>1
          <6> QED BY <6>1, <5>2 DEF CallReturns, pos
        <5> QED BY <4>4, <5>1, <5>2 DEF CallReturns
      <4> QED BY <4>2, <4>4, <4>5, <2>2
    <3>5. CASE ~f[d].ok
      <4>1. Continue(s, f, keyword, left, pos) = Failed /\ Continue(s, g, keyword, left, pos) = Failed
        BY <3>5, <3>2, <3>3, <2>4 DEF Continue
      <4> QED BY <4>1, <2>2 DEF CallReturns
    <3> QED BY <3>4, <3>5
  <2> QED BY <2>3, <2>4
<1> QED BY <1>4, <1>5, <1>6

LEMMA RankIsNat ==
    ASSUME NEW s \in Seq(Tokens), NEW c \in ParserCalls(s)
    PROVE  CallRank(s, c) \in 0..(4 * Len(s) + 3)
<1>1. c[3] \in 1..(Len(s) + 1) /\ Len(s) \in Nat
  BY DEF ParserCalls
<1> DEFINE extra == IF c[1] = "unary" THEN 1 ELSE IF c[2] # "none" THEN 0
                    ELSE IF c[1] = "AND" THEN 2 ELSE 3
<1>2. extra \in 0..3
  OBVIOUS
<1>3. CallRank(s, c) = 4 * (Len(s) + 1 - c[3]) + extra
  BY DEF CallRank
<1> HIDE DEF extra
<1> QED BY <1>1, <1>2, <1>3

\* The parser is a function: some results satisfy the equations of every call.
LEMMA ParserExists ==
    ASSUME NEW s \in Seq(Tokens)
    PROVE  \E f : f = [c \in ParserCalls(s) |-> Called(s, f, c)]
<1> DEFINE Stage(n) == \E f : SettledBelow(s, f, n)
           missing == {n \in Nat : ~Stage(n)}
<1>1. Stage(0)
  <2>1. \A c \in ParserCalls(s) : ~(CallRank(s, c) < 0)
    BY RankIsNat
  <2>2. SettledBelow(s, <<>>, 0)
    BY <2>1 DEF SettledBelow
  <2> QED BY <2>2
<1>2. ASSUME NEW n \in Nat, Stage(n) PROVE Stage(n + 1)
  <2>1. PICK f : SettledBelow(s, f, n)
    BY <1>2
  <2> DEFINE g == [c \in ParserCalls(s) |-> Called(s, f, c)]
  <2>2. \A c \in ParserCalls(s) : g[c] = Called(s, f, c)
    OBVIOUS
  <2> HIDE DEF g
  <2>3. ASSUME NEW c \in ParserCalls(s), CallRank(s, c) < n + 1
        PROVE  g[c] = Called(s, g, c) /\ CallReturns(s, c, g[c])
    <3>1. CallRank(s, c) \in Nat
      BY RankIsNat
    <3>2. ASSUME NEW d \in ParserCalls(s), CallRank(s, d) < CallRank(s, c)
          PROVE  f[d] = g[d] /\ CallReturns(s, d, f[d])
      <4>1. CallRank(s, d) < n
        BY <3>1, <3>2, <2>3, RankIsNat
      <4> QED BY <4>1, <2>1, <2>2 DEF SettledBelow
    <3>3. Called(s, f, c) = Called(s, g, c) /\ CallReturns(s, c, Called(s, f, c))
      BY <3>2, CallsGoDown
    <3> QED BY <3>3, <2>2
  <2>4. SettledBelow(s, g, n + 1)
    BY <2>3 DEF SettledBelow
  <2> QED BY <2>4
<1>3. missing = {}
  <2> SUFFICES ASSUME missing # {} PROVE FALSE
    OBVIOUS
  <2>1. PICK n \in missing : \A y \in missing : n <= y
    BY LeastOf, Zenon
  <2> HIDE DEF Stage
  <2>2. n \in Nat /\ n # 0 /\ ~Stage(n)
    BY <1>1
  <2>3. n - 1 \in Nat /\ ~(n <= n - 1) /\ (n - 1) + 1 = n
    BY <2>2
  <2>4. n - 1 \notin missing
    BY <2>1, <2>3
  <2>5. Stage(n - 1)
    BY <2>3, <2>4
  <2>6. Stage((n - 1) + 1)
    BY <1>2, <2>3, <2>5
  <2> QED BY <2>2, <2>3, <2>6
<1>4. PICK f : SettledBelow(s, f, 4 * Len(s) + 4)
  <2>1. 4 * Len(s) + 4 \in Nat
    OBVIOUS
  <2>2. Stage(4 * Len(s) + 4)
    BY <1>3, <2>1
  <2> QED BY <2>2
<1>5. ASSUME NEW c \in ParserCalls(s)
      PROVE  f[c] = Called(s, f, c) /\ CallReturns(s, c, f[c])
  <2>1. CallRank(s, c) < 4 * Len(s) + 4
    BY RankIsNat
  <2> QED BY <2>1, <1>4 DEF SettledBelow
<1> DEFINE g == [c \in ParserCalls(s) |-> Called(s, f, c)]
<1>6. \A c \in ParserCalls(s) : f[c] = g[c]
  BY <1>5
<1>7. \A c \in ParserCalls(s) : Called(s, f, c) = Called(s, g, c)
  <2> HIDE DEF g
  <2> QED BY <1>5, <1>6, CallsGoDown
<1>8. g = [c \in ParserCalls(s) |-> Called(s, g, c)]
  <2> DEFINE h == [c \in ParserCalls(s) |-> Called(s, g, c)]
  <2>1. g = h
    <3>1. \A c \in ParserCalls(s) : g[c] = h[c]
      BY <1>7
    <3> QED BY <3>1
  <2> QED BY <2>1
<1> QED BY <1>8, Zenon

\* Every call returns what its parse function makes of the calls it makes.
LEMMA ParserIs ==
    ASSUME NEW s \in Seq(Tokens), NEW c \in ParserCalls(s)
    PROVE  /\ Parser(s)[c] = ParserStep(s, Parser(s), c[1], c[2], c[3])
           /\ CallReturns(s, c, Parser(s)[c])
<1> DEFINE P == Parser(s)
           bad == {n \in Nat : \E d \in ParserCalls(s) :
                                  CallRank(s, d) = n /\ ~CallReturns(s, d, P[d])}
<1>1. P = CHOOSE f : f = [d \in ParserCalls(s) |-> Called(s, f, d)]
  BY Zenon DEF Parser, Called
<1>2. P = [d \in ParserCalls(s) |-> Called(s, P, d)]
  <2> DEFINE Again(f) == [d \in ParserCalls(s) |-> Called(s, f, d)]
  <2>1. \E f : f = Again(f)
    BY ParserExists, Zenon
  <2>2. P = CHOOSE f : f = Again(f)
    BY <1>1, Zenon
  <2> HIDE DEF Again, P
  <2>3. P = Again(P)
    BY <2>1, <2>2
  <2> QED BY <2>3 DEF Again
<1> HIDE DEF P
<1>3. ASSUME NEW d \in ParserCalls(s) PROVE P[d] = Called(s, P, d)
  <2> DEFINE h == [e \in ParserCalls(s) |-> Called(s, P, e)]
  <2>1. h[d] = Called(s, P, d)
    OBVIOUS
  <2>2. P = h
    BY <1>2
  <2> HIDE DEF h
  <2> QED BY <2>1, <2>2
<1>4. bad = {}
  <2> SUFFICES ASSUME bad # {} PROVE FALSE
    OBVIOUS
  <2>1. PICK n \in bad : \A y \in bad : n <= y
    <3>1. bad \subseteq Nat
      OBVIOUS
    <3> QED BY <3>1, LeastOf, Zenon
  <2>2. PICK d \in ParserCalls(s) : CallRank(s, d) = n /\ ~CallReturns(s, d, P[d])
    OBVIOUS
  <2>3. ASSUME NEW e \in ParserCalls(s), CallRank(s, e) < CallRank(s, d)
        PROVE  CallReturns(s, e, P[e])
    <3>1. CallRank(s, e) \in Nat /\ ~(n <= CallRank(s, e))
      BY <2>2, <2>3, RankIsNat
    <3>2. CallRank(s, e) \notin bad
      BY <3>1, <2>1
    <3> QED BY <3>1, <3>2
  <2>4. CallReturns(s, d, Called(s, P, d))
    BY <2>3, CallsGoDown
  <2> QED BY <2>2, <2>4, <1>3
<1>5. CallRank(s, c) \in Nat
  BY RankIsNat
<1>6. CallReturns(s, c, P[c])
  BY <1>4, <1>5
<1> QED BY <1>3, <1>6 DEF Called, P

-----------------------------------------------------------------------------
(* The reference, a recursive function over the parts of a predicate.        *)

Spans(s) == (1..(Len(s) + 1)) \X (0..Len(s))

SpanRank(s, span) == span[2] + (Len(s) + 1 - span[1])

Meant(s, m, span) == MeaningStep(s, m, span[1], span[2])

\* The least position outside the parentheses is one.
LEMMA LeastOutside ==
    ASSUME NEW s \in Seq(Tokens), NEW i \in 1..(Len(s) + 1), NEW j \in 0..Len(s), NEW keyword,
           Outside(s, i, j, keyword) # {}
    PROVE  /\ Min(Outside(s, i, j, keyword)) \in Outside(s, i, j, keyword)
           /\ \A k \in Outside(s, i, j, keyword) : Min(Outside(s, i, j, keyword)) <= k
           /\ Outside(s, i, j, keyword) \subseteq i..j
<1> DEFINE T == Outside(s, i, j, keyword)
<1>1. T \subseteq i..j /\ i..j \subseteq Nat
  BY DEF Outside
<1> HIDE DEF T
<1>2. \E x \in T : \A y \in T : x <= y
  <2>1. T \subseteq Nat /\ T # {}
    BY <1>1 DEF T
  <2> QED BY <2>1, LeastOf, Zenon
<1>3. Min(T) \in T /\ \A y \in T : Min(T) <= y
  BY <1>2 DEF Min
<1> QED BY <1>1, <1>3 DEF T

\* The meaning of a span depends on shorter spans only.
LEMMA SpansShrink ==
    ASSUME NEW s \in Seq(Tokens), NEW f, NEW g, NEW c \in Spans(s),
           \A d \in Spans(s) : SpanRank(s, d) < SpanRank(s, c) => f[d] = g[d]
    PROVE  Meant(s, f, c) = Meant(s, g, c)
<1> DEFINE i == c[1]
           j == c[2]
<1>1. i \in 1..(Len(s) + 1) /\ j \in 0..Len(s) /\ Len(s) \in Nat
  BY DEF Spans
<1>2. Meant(s, f, c) = MeaningStep(s, f, i, j) /\ Meant(s, g, c) = MeaningStep(s, g, i, j)
  BY DEF Meant
<1>3. SpanRank(s, c) = j + (Len(s) + 1 - i)
  BY DEF SpanRank
<1> HIDE DEF i, j
<1>4. ASSUME NEW a \in 1..(Len(s) + 1), NEW b \in 0..Len(s), b - a < j - i
      PROVE  f[<<a, b>>] = g[<<a, b>>]
  <2>1. <<a, b>> \in Spans(s)
    BY DEF Spans
  <2>2. SpanRank(s, <<a, b>>) = b + (Len(s) + 1 - a)
    BY DEF SpanRank
  <2>3. SpanRank(s, <<a, b>>) < SpanRank(s, c)
    BY <1>1, <1>3, <1>4, <2>2
  <2> QED BY <2>1, <2>3
<1>5. ASSUME NEW keyword, NEW neutral, Outside(s, i, j, keyword) # {}
      PROVE  Join(s, f, i, j, keyword, neutral) = Join(s, g, i, j, keyword, neutral)
  <2> DEFINE k == Min(Outside(s, i, j, keyword))
  <2>1. k \in i..j
    BY <1>1, <1>5, LeastOutside
  <2> HIDE DEF k
  <2>2. /\ i \in 1..(Len(s) + 1) /\ k - 1 \in 0..Len(s)
        /\ k + 1 \in 1..(Len(s) + 1) /\ j \in 0..Len(s)
        /\ (k - 1) - i < j - i /\ j - (k + 1) < j - i
    BY <1>1, <2>1
  <2>3. f[<<i, k - 1>>] = g[<<i, k - 1>>] /\ f[<<k + 1, j>>] = g[<<k + 1, j>>]
    BY <1>4, <2>2
  <2> QED BY <2>3 DEF Join, k
<1>6. CASE i + 1 < j
  <2>1. i + 1 \in 1..(Len(s) + 1) /\ j - 1 \in 0..Len(s) /\ (j - 1) - (i + 1) < j - i
    BY <1>1, <1>6
  <2>2. f[<<i + 1, j - 1>>] = g[<<i + 1, j - 1>>]
    BY <1>4, <2>1
  <2> QED BY <1>2, <1>5, <2>2 DEF MeaningStep
<1>7. CASE ~(i + 1 < j)
  BY <1>2, <1>5, <1>7 DEF MeaningStep
<1> QED BY <1>6, <1>7

LEMMA SpanRankIsNat ==
    ASSUME NEW s \in Seq(Tokens), NEW c \in Spans(s)
    PROVE  SpanRank(s, c) \in 0..(2 * Len(s))
<1>1. c[1] \in 1..(Len(s) + 1) /\ c[2] \in 0..Len(s) /\ Len(s) \in Nat
  BY DEF Spans
<1> QED BY <1>1 DEF SpanRank

LEMMA MeaningExists ==
    ASSUME NEW s \in Seq(Tokens)
    PROVE  \E m : m = [c \in Spans(s) |-> Meant(s, m, c)]
<1> DEFINE Settled(m, n) == \A c \in Spans(s) : SpanRank(s, c) < n => m[c] = Meant(s, m, c)
           Stage(n) == \E m : Settled(m, n)
           missing == {n \in Nat : ~Stage(n)}
<1>1. Stage(0)
  <2>1. \A c \in Spans(s) : ~(SpanRank(s, c) < 0)
    BY SpanRankIsNat
  <2>2. Settled(<<>>, 0)
    BY <2>1
  <2> QED BY <2>2
<1>2. ASSUME NEW n \in Nat, Stage(n) PROVE Stage(n + 1)
  <2>1. PICK f : Settled(f, n)
    BY <1>2
  <2> DEFINE g == [c \in Spans(s) |-> Meant(s, f, c)]
  <2>2. \A c \in Spans(s) : g[c] = Meant(s, f, c)
    OBVIOUS
  <2> HIDE DEF g
  <2>3. ASSUME NEW c \in Spans(s), SpanRank(s, c) < n + 1
        PROVE  g[c] = Meant(s, g, c)
    <3>1. ASSUME NEW d \in Spans(s), SpanRank(s, d) < SpanRank(s, c)
          PROVE  f[d] = g[d]
      <4>1. SpanRank(s, d) < n
        <5>1. SpanRank(s, c) \in Nat /\ SpanRank(s, d) \in Nat
          BY SpanRankIsNat
        <5> QED BY <5>1, <3>1, <2>3
      <4> QED BY <4>1, <2>1, <2>2
    <3>2. Meant(s, f, c) = Meant(s, g, c)
      BY <3>1, SpansShrink
    <3> QED BY <3>2, <2>2
  <2>4. Settled(g, n + 1)
    BY <2>3
  <2> QED BY <2>4
<1>3. missing = {}
  <2> SUFFICES ASSUME missing # {} PROVE FALSE
    OBVIOUS
  <2>1. PICK n \in missing : \A y \in missing : n <= y
    BY LeastOf, Zenon
  <2> HIDE DEF Stage
  <2>2. n \in Nat /\ n # 0 /\ ~Stage(n)
    BY <1>1
  <2>3. n - 1 \in Nat /\ ~(n <= n - 1) /\ (n - 1) + 1 = n
    BY <2>2
  <2>4. n - 1 \notin missing
    BY <2>1, <2>3
  <2>5. Stage(n - 1)
    BY <2>3, <2>4
  <2>6. Stage((n - 1) + 1)
    BY <1>2, <2>3, <2>5
  <2> QED BY <2>2, <2>3, <2>6
<1>4. PICK f : Settled(f, 2 * Len(s) + 1)
  <2>1. 2 * Len(s) + 1 \in Nat
    OBVIOUS
  <2>2. Stage(2 * Len(s) + 1)
    BY <1>3, <2>1
  <2> QED BY <2>2
<1>5. ASSUME NEW c \in Spans(s) PROVE f[c] = Meant(s, f, c)
  <2>1. SpanRank(s, c) < 2 * Len(s) + 1
    BY SpanRankIsNat
  <2> QED BY <2>1, <1>4
<1> DEFINE g == [c \in Spans(s) |-> Meant(s, f, c)]
<1>6. \A c \in Spans(s) : f[c] = g[c]
  BY <1>5
<1>7. \A c \in Spans(s) : Meant(s, f, c) = Meant(s, g, c)
  <2> HIDE DEF g
  <2> QED BY <1>6, SpansShrink
<1>8. g = [c \in Spans(s) |-> Meant(s, g, c)]
  <2> DEFINE h == [c \in Spans(s) |-> Meant(s, g, c)]
  <2>1. g = h
    <3>1. \A c \in Spans(s) : g[c] = h[c]
      BY <1>7
    <3> QED BY <3>1
  <2> QED BY <2>1
<1> QED BY <1>8, Zenon

LEMMA MeaningIs ==
    ASSUME NEW s \in Seq(Tokens), NEW i \in 1..(Len(s) + 1), NEW j \in 0..Len(s)
    PROVE  Meanings(s)[<<i, j>>] = MeaningStep(s, Meanings(s), i, j)
<1> DEFINE M == Meanings(s)
<1>1. M = CHOOSE m : m = [c \in Spans(s) |-> Meant(s, m, c)]
  BY Zenon DEF Meanings, Spans, Meant
<1>2. M = [c \in Spans(s) |-> Meant(s, M, c)]
  <2> DEFINE Again(f) == [c \in Spans(s) |-> Meant(s, f, c)]
  <2>1. \E f : f = Again(f)
    BY MeaningExists, Zenon
  <2>2. M = CHOOSE f : f = Again(f)
    BY <1>1, Zenon
  <2> HIDE DEF Again, M
  <2>3. M = Again(M)
    BY <2>1, <2>2
  <2> QED BY <2>3 DEF Again
<1> HIDE DEF M
<1>3. <<i, j>> \in Spans(s)
  BY DEF Spans
<1>4. M[<<i, j>>] = Meant(s, M, <<i, j>>)
  <2> DEFINE h == [e \in Spans(s) |-> Meant(s, M, e)]
  <2>1. h[<<i, j>>] = Meant(s, M, <<i, j>>)
    BY <1>3
  <2>2. M = h
    BY <1>2
  <2> HIDE DEF h
  <2> QED BY <2>1, <2>2
<1> QED BY <1>4 DEF Meant, M

-----------------------------------------------------------------------------
(* What the parse functions return, without their loops.                     *)

\* What a parse function returns at a position.
Result(s, fn, pos) == Parser(s)[<<fn, "none", pos>>]

OperandOf(keyword) == IF keyword = "OR" THEN "AND" ELSE "unary"

\* A keyword after a left operand: the rest of the chain, and both together.
Rest(s, keyword, left, pos) ==
    LET rest == Result(s, keyword, pos + 1)
    IN IF Peek(s, pos) # keyword THEN Parsed(left, pos)
       ELSE IF rest.ok THEN Parsed(Evaluated(keyword, left, rest.value), rest.pos)
       ELSE Failed

LEMMA ResultEndsLater ==
    ASSUME NEW s \in Seq(Tokens), NEW fn \in {"OR", "AND", "unary"},
           NEW pos \in 1..(Len(s) + 1)
    PROVE  \/ Result(s, fn, pos) = Failed /\ ~Result(s, fn, pos).ok
           \/ \E v \in Outcomes, e \in (pos + 1)..(Len(s) + 1) :
                  /\ Result(s, fn, pos) = Parsed(v, e)
                  /\ Result(s, fn, pos).ok
                  /\ Result(s, fn, pos).value = v
                  /\ Result(s, fn, pos).pos = e
<1> DEFINE c == <<fn, "none", pos>>
<1>1. c \in ParserCalls(s)
  BY DEF ParserCalls
<1>2. CallReturns(s, c, Parser(s)[c])
  BY <1>1, ParserIs
<1>3. CASE Parser(s)[c] = Failed
  BY <1>3 DEF Failed, Result
<1>4. ASSUME NEW v \in Outcomes, NEW e \in pos..(Len(s) + 1),
             Parser(s)[c] = Parsed(v, e), pos # e
      PROVE  \E w \in Outcomes, x \in (pos + 1)..(Len(s) + 1) :
                  /\ Result(s, fn, pos) = Parsed(w, x)
                  /\ Result(s, fn, pos).ok
                  /\ Result(s, fn, pos).value = w
                  /\ Result(s, fn, pos).pos = x
  <2>1. e \in (pos + 1)..(Len(s) + 1)
    BY <1>4
  <2>2. /\ Result(s, fn, pos) = Parsed(v, e)
        /\ Result(s, fn, pos).ok
        /\ Result(s, fn, pos).value = v
        /\ Result(s, fn, pos).pos = e
    BY <1>4 DEF Result, Parsed
  <2> QED BY <2>1, <2>2
<1> QED BY <1>2, <1>3, <1>4 DEF CallReturns

LEMMA PeekInside ==
    ASSUME NEW s \in Seq(Tokens), NEW pos \in 1..(Len(s) + 1)
    PROVE  /\ Peek(s, pos) # "" => pos \in 1..Len(s) /\ Peek(s, pos) = s[pos]
           /\ pos \in 1..Len(s) => Peek(s, pos) = s[pos] /\ s[pos] \in Tokens
<1>1. DOMAIN s = 1..Len(s)
  OBVIOUS
<1>2. Peek(s, pos) # "" => pos \in 1..Len(s)
  BY <1>1 DEF Peek
<1>3. pos \in 1..Len(s) => Peek(s, pos) = s[pos]
  BY <1>1 DEF Peek
<1>4. pos \in 1..Len(s) => s[pos] \in Tokens
  OBVIOUS
<1> QED BY <1>2, <1>3, <1>4

LEMMA UnaryIs ==
    ASSUME NEW s \in Seq(Tokens), NEW pos \in 1..(Len(s) + 1)
    PROVE  Result(s, "unary", pos) =
               IF Peek(s, pos) # "(" THEN ParseComparison(s, pos)
               ELSE IF /\ Result(s, "OR", pos + 1).ok
                       /\ Peek(s, Result(s, "OR", pos + 1).pos) = ")"
               THEN Parsed(Result(s, "OR", pos + 1).value, Result(s, "OR", pos + 1).pos + 1)
               ELSE Failed
<1> DEFINE c == <<"unary", "none", pos>>
<1>1. c \in ParserCalls(s) /\ c[1] = "unary" /\ c[2] = "none" /\ c[3] = pos
  BY DEF ParserCalls
<1>2. Parser(s)[c] = ParseUnary(s, Parser(s), pos)
  <2>1. Parser(s)[c] = ParserStep(s, Parser(s), "unary", "none", pos)
    BY <1>1, ParserIs
  <2> QED BY <2>1 DEF ParserStep
<1> QED BY <1>2 DEF ParseUnary, Result

\* A loop returns its left operand, or that operand and the rest of the chain:
\* the operation is associative.
LEMMA LoopIs ==
    ASSUME NEW s \in Seq(Tokens), NEW keyword \in {"OR", "AND"},
           NEW left \in Outcomes, NEW pos \in 1..(Len(s) + 1)
    PROVE  Parser(s)[<<keyword, left, pos>>] = Rest(s, keyword, left, pos)
<1> DEFINE Loops(v, p) == Parser(s)[<<keyword, v, p>>] = Rest(s, keyword, v, p)
           bad == {n \in Nat : \E v \in Outcomes, p \in 1..(Len(s) + 1) :
                                  n = Len(s) + 1 - p /\ ~Loops(v, p)}
<1>1. ASSUME NEW v \in Outcomes, NEW p \in 1..(Len(s) + 1),
             \A w \in Outcomes, q \in (p + 1)..(Len(s) + 1) : Loops(w, q)
      PROVE  Loops(v, p)
  <2> DEFINE r == Result(s, OperandOf(keyword), p + 1)
  <2>1. Parser(s)[<<keyword, v, p>>] = Continue(s, Parser(s), keyword, v, p)
    <3> DEFINE c == <<keyword, v, p>>
    <3>1. c \in ParserCalls(s) /\ c[1] = keyword /\ c[2] = v /\ c[3] = p
      BY DEF ParserCalls
    <3>2. Parser(s)[c] = ParserStep(s, Parser(s), keyword, v, p)
      BY <3>1, ParserIs
    <3> QED BY <3>2 DEF ParserStep, Outcomes
  <2>2. CASE Peek(s, p) # keyword
    BY <2>1, <2>2 DEF Continue, Rest
  <2>3. CASE Peek(s, p) = keyword
    <3>1. p \in 1..Len(s) /\ p + 1 \in 1..(Len(s) + 1)
      <4>1. Peek(s, p) # ""
        BY <2>3
      <4>2. p \in 1..Len(s)
        BY <4>1, PeekInside
      <4> QED BY <4>2
    <3>2. Parser(s)[<<keyword, v, p>>] =
            IF r.ok THEN Parser(s)[<<keyword, Evaluated(keyword, v, r.value), r.pos>>] ELSE Failed
      BY <2>1, <2>3 DEF Continue, Operand, Result, OperandOf
    <3>3. Result(s, keyword, p + 1) =
            IF r.ok THEN Parser(s)[<<keyword, r.value, r.pos>>] ELSE Failed
      <4> DEFINE c == <<keyword, "none", p + 1>>
      <4>1. c \in ParserCalls(s) /\ c[1] = keyword /\ c[2] = "none" /\ c[3] = p + 1
        BY <3>1 DEF ParserCalls
      <4>2. Parser(s)[c] = ParserStep(s, Parser(s), keyword, "none", p + 1)
        BY <4>1, ParserIs
      <4>3. Parser(s)[c] = ParseChain(Parser(s), keyword, p + 1)
        BY <4>2 DEF ParserStep
      <4> QED BY <4>3 DEF ParseChain, Operand, Result, OperandOf
    <3>4. OperandOf(keyword) \in {"OR", "AND", "unary"}
      BY DEF OperandOf
    <3>5. \/ ~r.ok
          \/ \E u \in Outcomes, e \in (p + 2)..(Len(s) + 1) : r.ok /\ r.value = u /\ r.pos = e
      BY <3>1, <3>4, ResultEndsLater
    <3> HIDE DEF r
    <3>6. CASE ~r.ok
      <4>1. ~Result(s, keyword, p + 1).ok
        BY <3>3, <3>6 DEF Failed
      <4> QED BY <3>2, <3>6, <4>1, <2>3 DEF Rest
    <3>7. CASE r.ok
      <4>1. PICK u \in Outcomes, e \in (p + 2)..(Len(s) + 1) : r.value = u /\ r.pos = e
        BY <3>5, <3>7
      <4>2. e \in (p + 1)..(Len(s) + 1) /\ e \in 1..(Len(s) + 1)
        BY <3>1, <4>1
      <4> DEFINE w == Evaluated(keyword, v, u)
                 d == Result(s, keyword, e + 1)
                 c == Result(s, keyword, p + 1)
      <4>3. w \in Outcomes
        BY DEF Evaluated
      <4>4. Parser(s)[<<keyword, v, p>>] = Rest(s, keyword, w, e)
        BY <3>2, <3>7, <4>1, <4>2, <4>3, <1>1
      <4>5. c = Rest(s, keyword, u, e)
        BY <3>3, <3>7, <4>1, <4>2, <1>1
      <4>6. CASE Peek(s, e) # keyword
        <5>1. Rest(s, keyword, w, e) = Parsed(w, e) /\ c = Parsed(u, e)
          BY <4>5, <4>6 DEF Rest
        <5>2. Rest(s, keyword, v, p) = Parsed(Evaluated(keyword, v, c.value), c.pos)
          BY <5>1, <2>3 DEF Rest, Parsed
        <5>3. c.value = u /\ c.pos = e
          BY <5>1 DEF Parsed
        <5> QED BY <4>4, <5>1, <5>2, <5>3
      <4>7. CASE Peek(s, e) = keyword /\ ~d.ok
        <5>1. Rest(s, keyword, w, e) = Failed /\ c = Failed
          BY <4>5, <4>7 DEF Rest
        <5> QED BY <4>4, <5>1, <2>3 DEF Rest, Failed
      <4>8. CASE Peek(s, e) = keyword /\ d.ok
        <5>1. /\ Rest(s, keyword, w, e) = Parsed(Evaluated(keyword, w, d.value), d.pos)
              /\ c = Parsed(Evaluated(keyword, u, d.value), d.pos)
          BY <4>5, <4>8 DEF Rest
        <5>2. Rest(s, keyword, v, p) = Parsed(Evaluated(keyword, v, c.value), c.pos)
          BY <5>1, <2>3 DEF Rest, Parsed
        <5>3. c.value = Evaluated(keyword, u, d.value) /\ c.pos = d.pos
          BY <5>1 DEF Parsed
        <5>4. Evaluated(keyword, v, Evaluated(keyword, u, d.value))
                = Evaluated(keyword, Evaluated(keyword, v, u), d.value)
          BY DEF Evaluated, Decides
        <5> QED BY <4>4, <5>1, <5>2, <5>3, <5>4
      <4> QED BY <4>6, <4>7, <4>8
    <3> QED BY <3>6, <3>7
  <2> QED BY <2>2, <2>3
<1> HIDE DEF Loops
<1>2. bad = {}
  <2> SUFFICES ASSUME bad # {} PROVE FALSE
    OBVIOUS
  <2>1. PICK n \in bad : \A y \in bad : n <= y
    <3>1. bad \subseteq Nat
      OBVIOUS
    <3> QED BY <3>1, LeastOf, Zenon
  <2>2. PICK v \in Outcomes, p \in 1..(Len(s) + 1) : n = Len(s) + 1 - p /\ ~Loops(v, p)
    OBVIOUS
  <2>3. ASSUME NEW w \in Outcomes, NEW q \in (p + 1)..(Len(s) + 1)
        PROVE  Loops(w, q)
    <3>1. q \in 1..(Len(s) + 1) /\ Len(s) + 1 - q \in Nat /\ ~(n <= Len(s) + 1 - q)
      BY <2>2, <2>3
    <3>2. Len(s) + 1 - q \notin bad
      BY <3>1, <2>1
    <3> QED BY <3>1, <3>2
  <2> QED BY <2>2, <2>3, <1>1
<1>3. Len(s) + 1 - pos \in Nat
  OBVIOUS
<1>4. Loops(left, pos)
  BY <1>2, <1>3
<1> QED BY <1>4 DEF Loops

\* A chain is an operand, or an operand, the keyword and a chain.
LEMMA ChainIs ==
    ASSUME NEW s \in Seq(Tokens), NEW keyword \in {"OR", "AND"},
           NEW pos \in 1..(Len(s) + 1)
    PROVE  Result(s, keyword, pos) =
               IF Result(s, OperandOf(keyword), pos).ok
               THEN Rest(s, keyword, Result(s, OperandOf(keyword), pos).value,
                         Result(s, OperandOf(keyword), pos).pos)
               ELSE Failed
<1> DEFINE c == <<keyword, "none", pos>>
           r == Result(s, OperandOf(keyword), pos)
<1>1. c \in ParserCalls(s) /\ c[1] = keyword /\ c[2] = "none" /\ c[3] = pos
  BY DEF ParserCalls
<1>2. Parser(s)[c] = ParserStep(s, Parser(s), keyword, "none", pos)
  BY <1>1, ParserIs
<1>3. Parser(s)[c] = ParseChain(Parser(s), keyword, pos)
  BY <1>2 DEF ParserStep
<1>4. Result(s, keyword, pos) = IF r.ok THEN Parser(s)[<<keyword, r.value, r.pos>>] ELSE Failed
  BY <1>3 DEF ParseChain, Operand, Result, OperandOf
<1>5. OperandOf(keyword) \in {"OR", "AND", "unary"}
  BY DEF OperandOf
<1>6. r.ok => r.value \in Outcomes /\ r.pos \in 1..(Len(s) + 1)
  BY <1>5, ResultEndsLater
<1> HIDE DEF r
<1>7. r.ok => Parser(s)[<<keyword, r.value, r.pos>>] = Rest(s, keyword, r.value, r.pos)
  BY <1>6, LoopIs
<1> QED BY <1>4, <1>7 DEF r

-----------------------------------------------------------------------------
(* Whatever a parse function returns has the meaning of what it has read.    *)

LEMMA CountStep ==
    ASSUME NEW s, NEW x, NEW k \in Nat, k # 0
    PROVE  /\ CountOf(s, x, k) \in Nat
           /\ CountOf(s, x, k - 1) \in Nat
           /\ CountOf(s, x, k) = CountOf(s, x, k - 1) + (IF s[k] = x THEN 1 ELSE 0)
<1> DEFINE before == {i \in 1..(k - 1) : s[i] = x}
           now == {i \in 1..k : s[i] = x}
<1>1. IsFiniteSet(before) /\ Cardinality(before) \in Nat
  <2>1. IsFiniteSet(1..(k - 1)) /\ before \subseteq 1..(k - 1)
    BY FS_Interval
  <2>2. IsFiniteSet(before)
    BY <2>1, FS_Subset
  <2> QED BY <2>2, FS_CardinalityType
<1>2. CASE s[k] = x
  <2>1. now = before \cup {k} /\ k \notin before
    BY <1>2
  <2> HIDE DEF before, now
  <2>2. Cardinality(now) = Cardinality(before) + 1
    BY <1>1, <2>1, FS_AddElement
  <2> QED BY <1>1, <1>2, <2>2 DEF before, now, CountOf
<1>3. CASE s[k] # x
  <2>1. now = before
    BY <1>3
  <2> QED BY <1>1, <1>3, <2>1 DEF CountOf
<1> QED BY <1>2, <1>3

LEMMA HeightStep ==
    ASSUME NEW s, NEW k \in Nat, k # 0
    PROVE  /\ Height(s, k) \in Int
           /\ Height(s, k - 1) \in Int
           /\ s[k] = "(" => Height(s, k) = Height(s, k - 1) + 1
           /\ s[k] = ")" => Height(s, k) = Height(s, k - 1) - 1
           /\ s[k] \notin {"(", ")"} => Height(s, k) = Height(s, k - 1)
<1>1. \A x : /\ CountOf(s, x, k) \in Nat
             /\ CountOf(s, x, k - 1) \in Nat
             /\ CountOf(s, x, k) = CountOf(s, x, k - 1) + (IF s[k] = x THEN 1 ELSE 0)
  BY CountStep
<1> QED BY <1>1 DEF Height

\* The parentheses of the tokens i..j match.
Balanced(s, i, j) ==
    /\ Height(s, j) = Height(s, i - 1)
    /\ \A k \in i..j : Height(s, k) >= Height(s, i - 1)

\* What a parse function has read from i up to e.
Derived(s, fn, i, v, e) ==
    /\ Balanced(s, i, e - 1)
    /\ Meanings(s)[<<i, e - 1>>] = v
    /\ fn # "OR" => Outside(s, i, e - 1, "OR") = {}
    /\ fn = "unary" => Outside(s, i, e - 1, "AND") = {}
    /\ \A k \in i..(e - 1) : ~(s[k] = "now" /\ Peek(s, k + 1) = ")")

\* An operand, its keyword and a chain make a chain.
LEMMA DerivedChain ==
    ASSUME NEW s \in Seq(Tokens), NEW keyword \in {"OR", "AND"},
           NEW i \in 1..(Len(s) + 1), NEW mid \in (i + 1)..Len(s),
           NEW e \in (mid + 2)..(Len(s) + 1),
           NEW u \in Outcomes, NEW w \in Outcomes,
           Derived(s, OperandOf(keyword), i, u, mid),
           s[mid] = keyword,
           Derived(s, keyword, mid + 1, w, e)
    PROVE  Derived(s, keyword, i, Evaluated(keyword, u, w), e)
<1>0. /\ i \in Nat /\ mid \in Nat /\ e \in Nat /\ Len(s) \in Nat
      /\ i < mid /\ mid + 1 < e /\ e <= Len(s) + 1 /\ i >= 1
  OBVIOUS
<1>1. /\ Height(s, mid) = Height(s, mid - 1)
      /\ Height(s, mid - 1) = Height(s, i - 1)
      /\ Height(s, mid) \in Int
      /\ Height(s, e - 1) = Height(s, mid)
  <2>1. Height(s, mid) = Height(s, mid - 1) /\ Height(s, mid) \in Int
    <3>1. s[mid] \notin {"(", ")"} /\ mid # 0
      BY <1>0
    <3> QED BY <1>0, <3>1, HeightStep
  <2>2. (mid + 1) - 1 = mid
    BY <1>0
  <2> QED BY <2>1, <2>2 DEF Derived, Balanced
<1>2. \A k \in i..(e - 1) : k \in i..(mid - 1) \/ k = mid \/ k \in (mid + 1)..(e - 1)
  BY <1>0
<1>3. Balanced(s, i, e - 1)
  <2>1. ASSUME NEW k \in i..(e - 1) PROVE Height(s, k) >= Height(s, i - 1)
    <3>1. CASE k \in i..(mid - 1)
      BY <3>1 DEF Derived, Balanced
    <3>2. CASE k = mid
      BY <3>2, <1>1
    <3>3. CASE k \in (mid + 1)..(e - 1)
      <4>1. (mid + 1) - 1 = mid
        BY <1>0
      <4> QED BY <3>3, <4>1, <1>1 DEF Derived, Balanced
    <3> QED BY <1>2, <3>1, <3>2, <3>3
  <2> QED BY <2>1, <1>1 DEF Balanced
<1>4. \A k \in i..(e - 1) : ~(s[k] = "now" /\ Peek(s, k + 1) = ")")
  BY <1>2 DEF Derived
<1>5. ASSUME NEW x, NEW k \in Outside(s, i, e - 1, x)
      PROVE  \/ k \in Outside(s, i, mid - 1, x)
             \/ k = mid /\ x = keyword
             \/ k \in Outside(s, mid + 1, e - 1, x)
  <2>1. k \in i..(e - 1) /\ s[k] = x /\ Height(s, k - 1) = Height(s, i - 1)
    BY <1>5 DEF Outside
  <2>2. (mid + 1) - 1 = mid
    BY <1>0
  <2>3. k \in (mid + 1)..(e - 1) => Height(s, k - 1) = Height(s, (mid + 1) - 1)
    BY <2>1, <2>2, <1>1
  <2> QED BY <1>2, <2>1, <2>3 DEF Outside
<1>6. keyword = "AND" => Outside(s, i, e - 1, "OR") = {}
  BY <1>5 DEF Derived, OperandOf
<1>7. Outside(s, i, mid - 1, keyword) = {}
  BY DEF Derived, OperandOf
<1>8. mid \in Outside(s, i, e - 1, keyword)
  <2>1. mid \in i..(e - 1)
    BY <1>0
  <2> QED BY <2>1, <1>1 DEF Outside
<1>9. Min(Outside(s, i, e - 1, keyword)) = mid
  <2> DEFINE T == Outside(s, i, e - 1, keyword)
             k == Min(T)
  <2>1. k \in T /\ k <= mid /\ k \in i..(e - 1)
    <3>1. T # {} /\ e - 1 \in 0..Len(s)
      BY <1>0, <1>8
    <3> QED BY <3>1, <1>8, LeastOutside
  <2> HIDE DEF k
  <2>2. k \notin Outside(s, mid + 1, e - 1, keyword)
    BY <2>1, <1>0 DEF Outside
  <2>3. k = mid
    BY <2>1, <2>2, <1>5, <1>7
  <2> QED BY <2>3 DEF k
<1>10. Meanings(s)[<<i, e - 1>>] = Evaluated(keyword, u, w)
  <2>1. Meanings(s)[<<i, mid - 1>>] = u /\ Meanings(s)[<<mid + 1, e - 1>>] = w
    BY DEF Derived
  <2>2. Meanings(s)[<<i, e - 1>>] = MeaningStep(s, Meanings(s), i, e - 1)
    <3>1. e - 1 \in 0..Len(s)
      BY <1>0
    <3> QED BY <3>1, MeaningIs
  <2>3. "syntax" \notin {u, w}
    BY DEF Outcomes
  <2>4. CASE keyword = "OR"
    <3>1. Meanings(s)[<<i, e - 1>>] = Join(s, Meanings(s), i, e - 1, "OR", "false")
      BY <2>2, <2>4, <1>8 DEF MeaningStep
    <3>2. Meanings(s)[<<i, e - 1>>] = IF u = "false" THEN w ELSE u
      BY <3>1, <2>1, <2>3, <2>4, <1>9 DEF Join
    <3> QED BY <3>2, <2>4 DEF Evaluated, Decides
  <2>5. CASE keyword = "AND"
    <3>1. Meanings(s)[<<i, e - 1>>] = Join(s, Meanings(s), i, e - 1, "AND", "true")
      BY <2>2, <2>5, <1>6, <1>8 DEF MeaningStep
    <3>2. Meanings(s)[<<i, e - 1>>] = IF u = "true" THEN w ELSE u
      BY <3>1, <2>1, <2>3, <2>5, <1>9 DEF Join
    <3> QED BY <3>2, <2>5 DEF Evaluated, Decides
  <2> QED BY <2>4, <2>5
<1> QED BY <1>3, <1>4, <1>6, <1>10 DEF Derived

\* A comparison.
LEMMA DerivedComparison ==
    ASSUME NEW s \in Seq(Tokens), NEW i \in 1..(Len(s) + 1),
           ParseComparison(s, i).ok
    PROVE  /\ ParseComparison(s, i) = Parsed(Outcome(s[i]), i + 1)
           /\ Derived(s, "unary", i, Outcome(s[i]), i + 1)
<1>1. /\ Peek(s, i) \in Comparisons
      /\ ~(Peek(s, i) = "now" /\ Peek(s, i + 1) = ")")
      /\ ParseComparison(s, i) = Parsed(Outcome(s[i]), i + 1)
  BY DEF ParseComparison, Failed
<1>2. i \in 1..Len(s) /\ s[i] \in Comparisons /\ Peek(s, i) = s[i]
  <2>1. Peek(s, i) # ""
    BY <1>1 DEF Comparisons
  <2> QED BY <1>1, <2>1, PeekInside
<1>3. (i + 1) - 1 = i /\ i..i = {i} /\ i \in 0..Len(s) /\ i \in Nat /\ i # 0
  BY <1>2
<1>4. Height(s, i) = Height(s, i - 1) /\ Height(s, i) \in Int
  BY <1>2, <1>3, HeightStep DEF Comparisons
<1>5. Balanced(s, i, i)
  BY <1>3, <1>4 DEF Balanced
<1>6. Outside(s, i, i, "OR") = {} /\ Outside(s, i, i, "AND") = {}
  BY <1>2, <1>3 DEF Outside, Comparisons
<1>7. Meanings(s)[<<i, i>>] = Outcome(s[i])
  <2>1. Meanings(s)[<<i, i>>] = MeaningStep(s, Meanings(s), i, i)
    BY <1>3, MeaningIs
  <2> QED BY <2>1, <1>2, <1>6 DEF MeaningStep
<1>8. \A k \in i..i : ~(s[k] = "now" /\ Peek(s, k + 1) = ")")
  BY <1>1, <1>2, <1>3
<1> QED BY <1>1, <1>3, <1>5, <1>6, <1>7, <1>8 DEF Derived

\* A disjunction in parentheses.
LEMMA DerivedGroup ==
    ASSUME NEW s \in Seq(Tokens), NEW i \in 1..Len(s), NEW e \in (i + 2)..Len(s),
           NEW v \in Outcomes,
           s[i] = "(", s[e] = ")", Derived(s, "OR", i + 1, v, e)
    PROVE  Derived(s, "unary", i, v, e + 1)
<1>0. /\ i \in Nat /\ e \in Nat /\ i # 0 /\ e # 0 /\ i + 1 < e /\ e <= Len(s) /\ Len(s) \in Nat
      /\ (e + 1) - 1 = e /\ (i + 1) - 1 = i /\ e \in 0..Len(s) /\ i \in 1..(Len(s) + 1)
  OBVIOUS
<1>1. /\ Height(s, i) = Height(s, i - 1) + 1
      /\ Height(s, i) \in Int /\ Height(s, i - 1) \in Int
      /\ Height(s, e) = Height(s, e - 1) - 1
      /\ Height(s, e - 1) = Height(s, i)
      /\ \A k \in (i + 1)..(e - 1) : Height(s, k) >= Height(s, i)
  <2>1. Height(s, e - 1) = Height(s, i) /\ \A k \in (i + 1)..(e - 1) : Height(s, k) >= Height(s, i)
    BY <1>0 DEF Derived, Balanced
  <2>2. /\ Height(s, i) = Height(s, i - 1) + 1
        /\ Height(s, i) \in Int /\ Height(s, i - 1) \in Int
    BY <1>0, HeightStep
  <2>3. Height(s, e) = Height(s, e - 1) - 1
    BY <1>0, HeightStep
  <2> QED BY <2>1, <2>2, <2>3
<1>2. \A k \in i..e : k = i \/ k \in (i + 1)..(e - 1) \/ k = e
  BY <1>0
<1>3. Balanced(s, i, e)
  <2>1. Height(s, e) = Height(s, i - 1)
    BY <1>1
  <2>2. ASSUME NEW k \in i..e PROVE Height(s, k) >= Height(s, i - 1)
    <3>1. k \in Nat /\ k # 0
      BY <1>0
    <3>2. Height(s, k) \in Int
      BY <3>1, HeightStep
    <3> QED BY <1>1, <1>2, <2>1, <3>2
  <2> QED BY <2>1, <2>2 DEF Balanced
<1>4. ASSUME NEW x \in {"OR", "AND"} PROVE Outside(s, i, e, x) = {}
  <2> SUFFICES ASSUME NEW k \in i..e, s[k] = x, Height(s, k - 1) = Height(s, i - 1)
               PROVE  FALSE
    BY DEF Outside
  <2>1. k \in (i + 1)..(e - 1)
    BY <1>2
  <2>2. k - 1 = i \/ k - 1 \in (i + 1)..(e - 1)
    BY <2>1, <1>0
  <2>3. Height(s, k - 1) >= Height(s, i)
    BY <2>2, <1>1
  <2> QED BY <2>3, <1>1
<1>5. Meanings(s)[<<i, e>>] = v
  <2>1. Meanings(s)[<<i, e>>] = MeaningStep(s, Meanings(s), i, e)
    BY <1>0, MeaningIs
  <2>2. i # e /\ i + 1 < e
    BY <1>0
  <2>3. Meanings(s)[<<i, e>>] = Meanings(s)[<<i + 1, e - 1>>]
    BY <2>1, <2>2, <1>4 DEF MeaningStep
  <2> QED BY <2>3 DEF Derived
<1>6. \A k \in i..e : ~(s[k] = "now" /\ Peek(s, k + 1) = ")")
  BY <1>2 DEF Derived
<1> QED BY <1>0, <1>3, <1>4, <1>5, <1>6 DEF Derived

\* What a parse function returns at i, if it returns an expression.
ReturnsMeaning(s, fn, i) ==
    Result(s, fn, i).ok => Derived(s, fn, i, Result(s, fn, i).value, Result(s, fn, i).pos)

LEMMA UnaryReturnsMeaning ==
    ASSUME NEW s \in Seq(Tokens), NEW i \in 1..(Len(s) + 1),
           i \in 1..Len(s) => ReturnsMeaning(s, "OR", i + 1)
    PROVE  ReturnsMeaning(s, "unary", i)
<1> SUFFICES ASSUME Result(s, "unary", i).ok
             PROVE  Derived(s, "unary", i, Result(s, "unary", i).value, Result(s, "unary", i).pos)
  BY DEF ReturnsMeaning
<1>1. CASE Peek(s, i) # "("
  <2>1. Result(s, "unary", i) = ParseComparison(s, i)
    BY <1>1, UnaryIs
  <2>2. /\ Result(s, "unary", i) = Parsed(Outcome(s[i]), i + 1)
        /\ Derived(s, "unary", i, Outcome(s[i]), i + 1)
    BY <2>1, DerivedComparison
  <2> QED BY <2>2 DEF Parsed
<1>2. CASE Peek(s, i) = "("
  <2> DEFINE r == Result(s, "OR", i + 1)
  <2>1. i \in 1..Len(s) /\ s[i] = "(" /\ i + 1 \in 1..(Len(s) + 1)
    <3>1. Peek(s, i) # ""
      BY <1>2
    <3>2. i \in 1..Len(s) /\ s[i] = "("
      BY <1>2, <3>1, PeekInside
    <3> QED BY <3>2
  <2>2. Result(s, "unary", i) =
          IF r.ok /\ Peek(s, r.pos) = ")" THEN Parsed(r.value, r.pos + 1) ELSE Failed
    BY <1>2, UnaryIs
  <2>3. \/ ~r.ok
        \/ \E v \in Outcomes, e \in (i + 2)..(Len(s) + 1) : r.ok /\ r.value = v /\ r.pos = e
    <3>1. (i + 1) + 1 = i + 2
      BY <2>1
    <3> QED BY <2>1, <3>1, ResultEndsLater
  <2>4. r.ok => Derived(s, "OR", i + 1, r.value, r.pos)
    BY <2>1 DEF ReturnsMeaning
  <2> HIDE DEF r
  <2>5. r.ok /\ Peek(s, r.pos) = ")"
    BY <2>2 DEF Failed
  <2>6. PICK v \in Outcomes, e \in (i + 2)..(Len(s) + 1) : r.value = v /\ r.pos = e
    BY <2>3, <2>5
  <2>7. e \in (i + 2)..Len(s) /\ s[e] = ")"
    <3>1. e \in 1..(Len(s) + 1)
      BY <2>1
    <3>2. Peek(s, e) = ")" /\ Peek(s, e) # ""
      BY <2>5, <2>6
    <3>3. e \in 1..Len(s) /\ s[e] = ")"
      BY <3>1, <3>2, PeekInside
    <3> QED BY <3>3, <2>6
  <2>8. Derived(s, "unary", i, v, e + 1)
    BY <2>1, <2>4, <2>5, <2>6, <2>7, DerivedGroup
  <2> QED BY <2>2, <2>5, <2>6, <2>8 DEF Parsed
<1> QED BY <1>1, <1>2

LEMMA ChainReturnsMeaning ==
    ASSUME NEW s \in Seq(Tokens), NEW keyword \in {"OR", "AND"}, NEW i \in 1..(Len(s) + 1),
           ReturnsMeaning(s, OperandOf(keyword), i),
           \A p \in (i + 1)..(Len(s) + 1) : ReturnsMeaning(s, keyword, p)
    PROVE  ReturnsMeaning(s, keyword, i)
<1> SUFFICES ASSUME Result(s, keyword, i).ok
             PROVE  Derived(s, keyword, i, Result(s, keyword, i).value, Result(s, keyword, i).pos)
  BY DEF ReturnsMeaning
<1> DEFINE r == Result(s, OperandOf(keyword), i)
<1>1. OperandOf(keyword) \in {"OR", "AND", "unary"}
  BY DEF OperandOf
<1>2. \/ ~r.ok
      \/ \E v \in Outcomes, e \in (i + 1)..(Len(s) + 1) : r.ok /\ r.value = v /\ r.pos = e
  BY <1>1, ResultEndsLater
<1>3. Result(s, keyword, i) = IF r.ok THEN Rest(s, keyword, r.value, r.pos) ELSE Failed
  BY ChainIs
<1>4. r.ok => Derived(s, OperandOf(keyword), i, r.value, r.pos)
  BY DEF ReturnsMeaning
<1> HIDE DEF r
<1>5. r.ok
  BY <1>3 DEF Failed
<1>6. PICK u \in Outcomes, mid \in (i + 1)..(Len(s) + 1) : r.value = u /\ r.pos = mid
  BY <1>2, <1>5
<1>7. mid \in 1..(Len(s) + 1)
  OBVIOUS
<1>8. Result(s, keyword, i) = Rest(s, keyword, u, mid) /\ Derived(s, OperandOf(keyword), i, u, mid)
  BY <1>3, <1>4, <1>5, <1>6
<1>9. CASE Peek(s, mid) # keyword
  <2>1. Result(s, keyword, i) = Parsed(u, mid)
    BY <1>8, <1>9 DEF Rest
  <2>2. Derived(s, keyword, i, u, mid)
    BY <1>8 DEF Derived, OperandOf
  <2> QED BY <2>1, <2>2 DEF Parsed
<1>10. CASE Peek(s, mid) = keyword
  <2> DEFINE rest == Result(s, keyword, mid + 1)
  <2>1. mid \in (i + 1)..Len(s) /\ s[mid] = keyword /\ mid + 1 \in 1..(Len(s) + 1)
           /\ mid + 1 \in (i + 1)..(Len(s) + 1)
    <3>1. Peek(s, mid) # ""
      BY <1>10
    <3>2. mid \in 1..Len(s) /\ s[mid] = keyword
      BY <1>10, <1>7, <3>1, PeekInside
    <3> QED BY <3>2
  <2>2. \/ ~rest.ok
        \/ \E v \in Outcomes, e \in (mid + 2)..(Len(s) + 1) : rest.ok /\ rest.value = v /\ rest.pos = e
    <3>1. (mid + 1) + 1 = mid + 2
      BY <2>1
    <3> QED BY <2>1, <3>1, ResultEndsLater
  <2>3. rest.ok => Derived(s, keyword, mid + 1, rest.value, rest.pos)
    BY <2>1 DEF ReturnsMeaning
  <2>4. Result(s, keyword, i) =
          IF rest.ok THEN Parsed(Evaluated(keyword, u, rest.value), rest.pos) ELSE Failed
    BY <1>8, <1>10 DEF Rest
  <2> HIDE DEF rest
  <2>5. rest.ok
    BY <2>4 DEF Failed
  <2>6. PICK w \in Outcomes, e \in (mid + 2)..(Len(s) + 1) : rest.value = w /\ rest.pos = e
    BY <2>2, <2>5
  <2>7. Derived(s, keyword, i, Evaluated(keyword, u, w), e)
    BY <1>8, <2>1, <2>3, <2>5, <2>6, DerivedChain
  <2> QED BY <2>4, <2>5, <2>6, <2>7 DEF Parsed
<1> QED BY <1>9, <1>10

\* An expression is returned only for tokens that mean its value.
LEMMA ParserSound ==
    ASSUME NEW s \in Seq(Tokens), NEW i \in 1..(Len(s) + 1)
    PROVE  ReturnsMeaning(s, "OR", i)
<1> DEFINE Good(p) == \A fn \in {"OR", "AND", "unary"} : ReturnsMeaning(s, fn, p)
           bad == {n \in Nat : \E p \in 1..(Len(s) + 1) : n = Len(s) + 1 - p /\ ~Good(p)}
<1>1. ASSUME NEW p \in 1..(Len(s) + 1), \A q \in (p + 1)..(Len(s) + 1) : Good(q)
      PROVE  Good(p)
  <2>1. ReturnsMeaning(s, "unary", p)
    <3>1. p \in 1..Len(s) => p + 1 \in (p + 1)..(Len(s) + 1)
      OBVIOUS
    <3> QED BY <1>1, <3>1, UnaryReturnsMeaning
  <2>2. ReturnsMeaning(s, "AND", p)
    <3>1. OperandOf("AND") = "unary"
      BY DEF OperandOf
    <3> QED BY <1>1, <2>1, <3>1, ChainReturnsMeaning
  <2>3. ReturnsMeaning(s, "OR", p)
    <3>1. OperandOf("OR") = "AND"
      BY DEF OperandOf
    <3> QED BY <1>1, <2>2, <3>1, ChainReturnsMeaning
  <2> QED BY <2>1, <2>2, <2>3
<1> HIDE DEF Good
<1>2. bad = {}
  <2> SUFFICES ASSUME bad # {} PROVE FALSE
    OBVIOUS
  <2>1. PICK n \in bad : \A y \in bad : n <= y
    <3>1. bad \subseteq Nat
      OBVIOUS
    <3> QED BY <3>1, LeastOf, Zenon
  <2>2. PICK p \in 1..(Len(s) + 1) : n = Len(s) + 1 - p /\ ~Good(p)
    OBVIOUS
  <2>3. ASSUME NEW q \in (p + 1)..(Len(s) + 1) PROVE Good(q)
    <3>1. q \in 1..(Len(s) + 1) /\ Len(s) + 1 - q \in Nat /\ ~(n <= Len(s) + 1 - q)
      BY <2>2, <2>3
    <3>2. Len(s) + 1 - q \notin bad
      BY <3>1, <2>1
    <3> QED BY <3>1, <3>2
  <2> QED BY <2>2, <2>3, <1>1
<1>3. Len(s) + 1 - i \in Nat
  OBVIOUS
<1>4. Good(i)
  BY <1>2, <1>3
<1> QED BY <1>4 DEF Good

-----------------------------------------------------------------------------
(* Tokens with a meaning are read to their end, by the parse function that   *)
(* their outermost operation calls for.                                      *)

Reads(s, fn, i, j) == Result(s, fn, i).ok /\ Result(s, fn, i).pos = j + 1

ReadsMeaning(s, i, j) ==
    Meanings(s)[<<i, j>>] # "syntax" =>
        /\ Outside(s, i, j, "OR") = {} /\ Outside(s, i, j, "AND") = {} => Reads(s, "unary", i, j)
        /\ Outside(s, i, j, "OR") = {} /\ Peek(s, j + 1) # "AND" => Reads(s, "AND", i, j)
        /\ Peek(s, j + 1) \notin {"AND", "OR"} => Reads(s, "OR", i, j)

\* An operand that no keyword follows is a chain.
LEMMA ReadsOperand ==
    ASSUME NEW s \in Seq(Tokens), NEW keyword \in {"OR", "AND"},
           NEW i \in 1..(Len(s) + 1), NEW j \in 0..Len(s),
           Reads(s, OperandOf(keyword), i, j), Peek(s, j + 1) # keyword
    PROVE  Reads(s, keyword, i, j)
<1> DEFINE r == Result(s, OperandOf(keyword), i)
<1>1. Result(s, keyword, i) = IF r.ok THEN Rest(s, keyword, r.value, r.pos) ELSE Failed
  BY ChainIs
<1>2. Result(s, keyword, i) = Parsed(r.value, j + 1)
  BY <1>1 DEF Reads, Rest
<1> QED BY <1>2 DEF Reads, Parsed

\* An operand, its keyword and a chain are a chain.
LEMMA ReadsChain ==
    ASSUME NEW s \in Seq(Tokens), NEW keyword \in {"OR", "AND"},
           NEW i \in 1..(Len(s) + 1), NEW k \in i..Len(s), NEW j \in k..Len(s),
           Reads(s, OperandOf(keyword), i, k - 1), s[k] = keyword, Reads(s, keyword, k + 1, j)
    PROVE  Reads(s, keyword, i, j)
<1> DEFINE r == Result(s, OperandOf(keyword), i)
           rest == Result(s, keyword, k + 1)
<1>1. Result(s, keyword, i) = IF r.ok THEN Rest(s, keyword, r.value, r.pos) ELSE Failed
  BY ChainIs
<1>2. (k - 1) + 1 = k /\ k \in 1..Len(s) /\ k \in 1..(Len(s) + 1)
  OBVIOUS
<1>3. r.ok /\ r.pos = k /\ rest.ok /\ rest.pos = j + 1
  BY <1>2 DEF Reads
<1>4. Peek(s, k) = keyword
  BY <1>2, PeekInside
<1> HIDE DEF r
<1>5. Rest(s, keyword, r.value, k) = Parsed(Evaluated(keyword, r.value, rest.value), j + 1)
  BY <1>3, <1>4 DEF Rest
<1> QED BY <1>1, <1>3, <1>5 DEF Reads, Parsed

LEMMA ParserComplete ==
    ASSUME NEW s \in Seq(Tokens), ~Spoiled(s),
           NEW i \in 1..(Len(s) + 1), NEW j \in 0..Len(s),
           \A a \in 1..(Len(s) + 1), b \in 0..Len(s) : b - a < j - i => ReadsMeaning(s, a, b)
    PROVE  ReadsMeaning(s, i, j)
<1> SUFFICES ASSUME Meanings(s)[<<i, j>>] # "syntax"
             PROVE  /\ Outside(s, i, j, "OR") = {} /\ Outside(s, i, j, "AND") = {} => Reads(s, "unary", i, j)
                    /\ Outside(s, i, j, "OR") = {} /\ Peek(s, j + 1) # "AND" => Reads(s, "AND", i, j)
                    /\ Peek(s, j + 1) \notin {"AND", "OR"} => Reads(s, "OR", i, j)
  BY DEF ReadsMeaning
<1>1. Meanings(s)[<<i, j>>] = MeaningStep(s, Meanings(s), i, j)
  BY MeaningIs
<1>2. OperandOf("OR") = "AND" /\ OperandOf("AND") = "unary"
  BY DEF OperandOf
<1>3. ASSUME NEW keyword \in {"OR", "AND"}, NEW neutral, Outside(s, i, j, keyword) # {},
             Meanings(s)[<<i, j>>] = Join(s, Meanings(s), i, j, keyword, neutral)
      PROVE  \E k \in i..j :
                 /\ k \in Outside(s, i, j, keyword)
                 /\ k \in 1..Len(s)
                 /\ s[k] = keyword
                 /\ Outside(s, i, k - 1, keyword) = {}
                 /\ \A x : Outside(s, i, j, x) = {} => Outside(s, i, k - 1, x) = {}
                 /\ \A x : Outside(s, i, j, x) = {} => Outside(s, k + 1, j, x) = {}
                 /\ Meanings(s)[<<i, k - 1>>] # "syntax" /\ ReadsMeaning(s, i, k - 1)
                 /\ Meanings(s)[<<k + 1, j>>] # "syntax" /\ ReadsMeaning(s, k + 1, j)
  <2> DEFINE k == Min(Outside(s, i, j, keyword))
  <2>1. /\ k \in Outside(s, i, j, keyword)
        /\ \A x \in Outside(s, i, j, keyword) : k <= x
        /\ k \in i..j
    BY <1>3, LeastOutside
  <2>2. ~("syntax" \in {Meanings(s)[<<i, k - 1>>], Meanings(s)[<<k + 1, j>>]})
    BY <1>3 DEF Join
  <2> HIDE DEF k
  <2>3. s[k] = keyword /\ Height(s, k - 1) = Height(s, i - 1)
    BY <2>1 DEF Outside
  <2>4. /\ k \in Nat /\ k # 0 /\ k \in 1..Len(s)
        /\ k - 1 \in 0..Len(s) /\ k + 1 \in 1..(Len(s) + 1)
        /\ (k - 1) - i < j - i /\ j - (k + 1) < j - i
        /\ (k + 1) - 1 = k
    BY <2>1
  <2>5. Height(s, k) = Height(s, k - 1)
    <3>1. s[k] \notin {"(", ")"}
      BY <2>3
    <3> QED BY <2>4, <3>1, HeightStep
  <2>6. ASSUME NEW x, NEW y \in Outside(s, i, k - 1, x)
        PROVE  y \in Outside(s, i, j, x) /\ y < k
    <3>1. y \in i..(k - 1) /\ s[y] = x /\ Height(s, y - 1) = Height(s, i - 1)
      BY <2>6 DEF Outside
    <3>2. y \in i..j /\ y < k
      BY <3>1, <2>1
    <3> QED BY <3>1, <3>2 DEF Outside
  <2>7. ASSUME NEW x, NEW y \in Outside(s, k + 1, j, x)
        PROVE  y \in Outside(s, i, j, x)
    <3>1. y \in (k + 1)..j /\ s[y] = x /\ Height(s, y - 1) = Height(s, (k + 1) - 1)
      BY <2>7 DEF Outside
    <3>2. y \in i..j
      BY <3>1, <2>1
    <3> QED BY <3>1, <3>2, <2>3, <2>4, <2>5 DEF Outside
  <2>8. Outside(s, i, k - 1, keyword) = {}
    <3> SUFFICES ASSUME NEW y \in Outside(s, i, k - 1, keyword) PROVE FALSE
      OBVIOUS
    <3>1. y \in Outside(s, i, j, keyword) /\ y < k /\ k <= y /\ y \in i..j
      BY <2>1, <2>6 DEF Outside
    <3> QED BY <3>1, <2>4
  <2>9. ReadsMeaning(s, i, k - 1) /\ ReadsMeaning(s, k + 1, j)
    BY <2>4
  <2> QED BY <2>1, <2>2, <2>3, <2>4, <2>6, <2>7, <2>8, <2>9
<1>4. CASE Outside(s, i, j, "OR") # {}
  <2>1. Meanings(s)[<<i, j>>] = Join(s, Meanings(s), i, j, "OR", "false")
    BY <1>1, <1>4 DEF MeaningStep
  <2>2. PICK k \in i..j :
                 /\ k \in 1..Len(s)
                 /\ s[k] = "OR"
                 /\ Outside(s, i, k - 1, "OR") = {}
                 /\ Meanings(s)[<<i, k - 1>>] # "syntax" /\ ReadsMeaning(s, i, k - 1)
                 /\ Meanings(s)[<<k + 1, j>>] # "syntax" /\ ReadsMeaning(s, k + 1, j)
    BY <1>3, <1>4, <2>1
  <2>3. (k - 1) + 1 = k /\ Peek(s, k) = "OR" /\ k \in i..Len(s) /\ j \in k..Len(s)
    <3>1. k \in 1..(Len(s) + 1) /\ (k - 1) + 1 = k /\ k \in i..Len(s) /\ j \in k..Len(s)
      BY <2>2
    <3>2. Peek(s, k) = "OR"
      BY <2>2, <3>1, PeekInside
    <3> QED BY <3>1, <3>2
  <2>4. Reads(s, "AND", i, k - 1)
    BY <2>2, <2>3 DEF ReadsMeaning
  <2>5. Peek(s, j + 1) \notin {"AND", "OR"} => Reads(s, "OR", k + 1, j)
    BY <2>2 DEF ReadsMeaning
  <2>6. Peek(s, j + 1) \notin {"AND", "OR"} => Reads(s, "OR", i, j)
    BY <1>2, <2>2, <2>3, <2>4, <2>5, ReadsChain
  <2> QED BY <1>4, <2>6
<1>5. CASE Outside(s, i, j, "OR") = {} /\ Outside(s, i, j, "AND") # {}
  <2>1. Meanings(s)[<<i, j>>] = Join(s, Meanings(s), i, j, "AND", "true")
    BY <1>1, <1>5 DEF MeaningStep
  <2>2. PICK k \in i..j :
                 /\ k \in 1..Len(s)
                 /\ s[k] = "AND"
                 /\ Outside(s, i, k - 1, "AND") = {}
                 /\ Outside(s, i, k - 1, "OR") = {}
                 /\ Outside(s, k + 1, j, "OR") = {}
                 /\ Meanings(s)[<<i, k - 1>>] # "syntax" /\ ReadsMeaning(s, i, k - 1)
                 /\ Meanings(s)[<<k + 1, j>>] # "syntax" /\ ReadsMeaning(s, k + 1, j)
    BY <1>3, <1>5, <2>1
  <2>3. k \in i..Len(s) /\ j \in k..Len(s)
    BY <2>2
  <2>4. Reads(s, "unary", i, k - 1)
    BY <2>2 DEF ReadsMeaning
  <2>5. Peek(s, j + 1) # "AND" => Reads(s, "AND", k + 1, j)
    BY <2>2 DEF ReadsMeaning
  <2>6. Peek(s, j + 1) # "AND" => Reads(s, "AND", i, j)
    BY <1>2, <2>2, <2>3, <2>4, <2>5, ReadsChain
  <2>7. Peek(s, j + 1) \notin {"AND", "OR"} => Reads(s, "OR", i, j)
    BY <1>2, <2>6, ReadsOperand
  <2> QED BY <1>5, <2>6, <2>7
<1>6. CASE Outside(s, i, j, "OR") = {} /\ Outside(s, i, j, "AND") = {}
  <2>1. Reads(s, "unary", i, j)
    <3>1. CASE i = j /\ s[i] \in Comparisons
      <4>1. i \in 1..Len(s) /\ Peek(s, i) = s[i]
        <5>1. i \in 1..Len(s)
          BY <3>1
        <5> QED BY <5>1, PeekInside
      <4>2. ~(Peek(s, i) = "now" /\ Peek(s, i + 1) = ")")
        <5> SUFFICES ASSUME Peek(s, i) = "now", Peek(s, i + 1) = ")" PROVE FALSE
          OBVIOUS
        <5>1. i + 1 \in 1..(Len(s) + 1) /\ (i + 1) - 1 = i
          BY <4>1
        <5>2. i + 1 \in 1..Len(s) /\ s[i + 1] = ")"
          <6>1. Peek(s, i + 1) # ""
            OBVIOUS
          <6> QED BY <5>1, <6>1, PeekInside
        <5>3. i + 1 \in 2..Len(s)
          BY <4>1, <5>2
        <5> QED BY <4>1, <5>1, <5>2, <5>3 DEF Spoiled
      <4>3. Result(s, "unary", i) = Parsed(Outcome(s[i]), i + 1)
        <5>1. Peek(s, i) # "("
          BY <3>1, <4>1 DEF Comparisons
        <5>2. Result(s, "unary", i) = ParseComparison(s, i)
          BY <5>1, UnaryIs
        <5> QED BY <5>2, <3>1, <4>1, <4>2 DEF ParseComparison
      <4> QED BY <3>1, <4>3 DEF Reads, Parsed
    <3>2. CASE i + 1 < j /\ s[i] = "(" /\ s[j] = ")"
                 /\ Meanings(s)[<<i, j>>] = Meanings(s)[<<i + 1, j - 1>>]
      <4>1. /\ i \in 1..Len(s) /\ j \in 1..Len(s) /\ j \in 1..(Len(s) + 1)
            /\ i + 1 \in 1..(Len(s) + 1) /\ j - 1 \in 0..Len(s)
            /\ (j - 1) - (i + 1) < j - i /\ (j - 1) + 1 = j
        BY <3>2
      <4>2. Peek(s, i) = "(" /\ Peek(s, j) = ")"
        BY <3>2, <4>1, PeekInside
      <4>3. ReadsMeaning(s, i + 1, j - 1)
        BY <4>1
      <4>4. Reads(s, "OR", i + 1, j - 1)
        BY <3>2, <4>1, <4>2, <4>3 DEF ReadsMeaning
      <4>5. Result(s, "unary", i) = Parsed(Result(s, "OR", i + 1).value, j + 1)
        BY <4>1, <4>2, <4>4, UnaryIs DEF Reads
      <4> QED BY <4>5 DEF Reads, Parsed
    <3> QED BY <1>1, <1>6, <3>1, <3>2 DEF MeaningStep
  <2>2. Peek(s, j + 1) # "AND" => Reads(s, "AND", i, j)
    BY <1>2, <2>1, ReadsOperand
  <2>3. Peek(s, j + 1) \notin {"AND", "OR"} => Reads(s, "OR", i, j)
    BY <1>2, <2>2, ReadsOperand
  <2> QED BY <2>1, <2>2, <2>3
<1> QED BY <1>4, <1>5, <1>6

\* Every span, by its length.
LEMMA MeaningIsRead ==
    ASSUME NEW s \in Seq(Tokens), ~Spoiled(s), NEW i \in 1..(Len(s) + 1), NEW j \in 0..Len(s)
    PROVE  ReadsMeaning(s, i, j)
<1> DEFINE bad == {n \in Nat : \E a \in 1..(Len(s) + 1), b \in 0..Len(s) :
                                  n = b + (Len(s) + 1 - a) /\ ~ReadsMeaning(s, a, b)}
<1>1. bad = {}
  <2> SUFFICES ASSUME bad # {} PROVE FALSE
    OBVIOUS
  <2>1. PICK n \in bad : \A y \in bad : n <= y
    <3>1. bad \subseteq Nat
      OBVIOUS
    <3> QED BY <3>1, LeastOf, Zenon
  <2>2. PICK a \in 1..(Len(s) + 1), b \in 0..Len(s) :
            n = b + (Len(s) + 1 - a) /\ ~ReadsMeaning(s, a, b)
    OBVIOUS
  <2>3. ASSUME NEW c \in 1..(Len(s) + 1), NEW d \in 0..Len(s), d - c < b - a
        PROVE  ReadsMeaning(s, c, d)
    <3>1. d + (Len(s) + 1 - c) \in Nat /\ ~(n <= d + (Len(s) + 1 - c))
      BY <2>2, <2>3
    <3>2. d + (Len(s) + 1 - c) \notin bad
      BY <3>1, <2>1
    <3> QED BY <3>1, <3>2
  <2> QED BY <2>2, <2>3, ParserComplete
<1>2. j + (Len(s) + 1 - i) \in Nat
  OBVIOUS
<1> QED BY <1>1, <1>2

-----------------------------------------------------------------------------
\* For a predicate of any number of tokens: the parser accepts it exactly when the
\* documented grammar gives it a meaning and no parenthesis spoils a timestamp, and
\* then decides what it means.
THEOREM ParserMeetsGrammar ==
    ASSUME NEW s \in Seq(Tokens)
    PROVE  Matches(s) = IF Spoiled(s) THEN "syntax" ELSE Meaning(s)
<1> DEFINE r == Result(s, "OR", 1)
<1>1. 1 \in 1..(Len(s) + 1) /\ Len(s) \in 0..Len(s) /\ Len(s) \in Nat
  OBVIOUS
<1>2. Matches(s) = IF r.ok /\ r.pos = Len(s) + 1 THEN r.value ELSE "syntax"
  BY DEF Matches, Result
<1>3. r.ok => Derived(s, "OR", 1, r.value, r.pos) /\ r.value \in Outcomes
  BY <1>1, ParserSound, ResultEndsLater DEF ReturnsMeaning
<1>4. CASE r.ok /\ r.pos = Len(s) + 1
  <2>1. (Len(s) + 1) - 1 = Len(s)
    BY <1>1
  <2>2. Meaning(s) = r.value
    BY <1>3, <1>4, <2>1 DEF Derived, Meaning
  <2>3. ~Spoiled(s)
    <3> SUFFICES ASSUME NEW k \in 2..Len(s), s[k - 1] = "now", s[k] = ")" PROVE FALSE
      BY DEF Spoiled
    <3>1. k - 1 \in 1..Len(s) /\ (k - 1) + 1 = k /\ k \in 1..(Len(s) + 1) /\ k \in 1..Len(s)
      OBVIOUS
    <3>2. Peek(s, k) = ")"
      BY <3>1, PeekInside
    <3> QED BY <1>3, <1>4, <2>1, <3>1, <3>2 DEF Derived
  <2> QED BY <1>2, <1>4, <2>2, <2>3
<1>5. CASE ~(r.ok /\ r.pos = Len(s) + 1)
  <2>1. Matches(s) = "syntax"
    BY <1>2, <1>5
  <2>2. ASSUME ~Spoiled(s), Meaning(s) # "syntax" PROVE FALSE
    <3>1. ReadsMeaning(s, 1, Len(s))
      BY <1>1, <2>2, MeaningIsRead
    <3>2. Peek(s, Len(s) + 1) = ""
      <4>1. Len(s) + 1 \in 1..(Len(s) + 1) /\ Len(s) + 1 \notin 1..Len(s)
        BY <1>1
      <4> QED BY <4>1, PeekInside
    <3>3. Reads(s, "OR", 1, Len(s))
      BY <2>2, <3>1, <3>2 DEF ReadsMeaning, Meaning
    <3> QED BY <1>5, <3>3 DEF Reads
  <2> QED BY <2>1, <2>2
<1> QED BY <1>4, <1>5

\* The strengthening: the input is a sequence of tokens, of any length.
InputIsTokens == input \in Seq(Tokens)

\* Every predicate is accepted and decided as the documented grammar says.
THEOREM PredicatesFollowGrammar == DslSpec => []FollowsGrammar
<1>1. DslInit => InputIsTokens
  BY DEF DslInit, InputIsTokens
<1>2. InputIsTokens /\ [DslNext]_input => InputIsTokens'
  BY DEF DslNext, Extend, InputIsTokens
<1>3. InputIsTokens => FollowsGrammar
  BY ParserMeetsGrammar DEF FollowsGrammar, InputIsTokens
<1> QED BY <1>1, <1>2, <1>3, PTL DEF DslSpec
=============================================================================
