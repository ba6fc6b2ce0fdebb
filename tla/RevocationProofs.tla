-------------------------- MODULE RevocationProofs --------------------------
(***************************************************************************)
(* What can be installed, for any identifiers, times, lists and verifiers. *)
(* Most of it is that the snapshot lists the set, in order.                *)
(***************************************************************************)
EXTENDS Revocation, FiniteSetTheorems, TLAPS

\* The identifiers of a set below one.
Below(ids, id) == {other \in ids : other < id}

LEMMA BelowGrows ==
    ASSUME NEW ids \in SUBSET Ids, IsFiniteSet(ids), NEW a \in ids, NEW b \in ids, a < b
    PROVE  Cardinality(Below(ids, a)) < Cardinality(Below(ids, b))
<1>1. a \in Nat /\ b \in Nat /\ ids \subseteq Nat
  BY IdsInNat
<1>2. Below(ids, a) \subseteq Below(ids, b) /\ a \in Below(ids, b) \ Below(ids, a)
  <2>1. ASSUME NEW other \in Below(ids, a) PROVE other \in Below(ids, b)
    BY <1>1, <2>1 DEF Below
  <2>2. a \in Below(ids, b) /\ a \notin Below(ids, a)
    BY <1>1 DEF Below
  <2> QED BY <2>1, <2>2
<1>3. IsFiniteSet(Below(ids, b)) /\ Below(ids, b) \subseteq ids
  BY FS_Subset DEF Below
<1>4. Cardinality(Below(ids, a)) <= Cardinality(Below(ids, b))
      /\ Cardinality(Below(ids, a)) # Cardinality(Below(ids, b))
  BY <1>2, <1>3, FS_Subset
<1>5. IsFiniteSet(Below(ids, a))
  BY <1>2, <1>3, FS_Subset
<1>6. Cardinality(Below(ids, a)) \in Nat /\ Cardinality(Below(ids, b)) \in Nat
  BY <1>3, <1>5, FS_CardinalityType
<1> QED BY <1>4, <1>6

\* Each number below the size of the set is that of the identifiers below just one.
LEMMA Ranks ==
    ASSUME NEW ids \in SUBSET Ids, IsFiniteSet(ids)
    PROVE  /\ Cardinality(ids) \in Nat
           /\ \A id \in ids : Cardinality(Below(ids, id)) \in 0..(Cardinality(ids) - 1)
           /\ \A k \in 0..(Cardinality(ids) - 1) : \E id \in ids : Cardinality(Below(ids, id)) = k
<1> DEFINE n == Cardinality(ids)
           rank == [id \in ids |-> Cardinality(Below(ids, id))]
<1>1. n \in Nat
  BY FS_CardinalityType
<1>2. ASSUME NEW id \in ids PROVE Cardinality(Below(ids, id)) \in 0..(n - 1)
  <2>1. Below(ids, id) \in SUBSET ids /\ id \notin Below(ids, id) /\ id \in Nat
    BY IdsInNat DEF Below
  <2>2. IsFiniteSet(Below(ids, id)) /\ Cardinality(Below(ids, id)) <= n
        /\ Cardinality(Below(ids, id)) # n
    BY <2>1, FS_Subset
  <2>3. Cardinality(Below(ids, id)) \in Nat
    BY <2>2, FS_CardinalityType
  <2> QED BY <1>1, <2>2, <2>3
<1>3. ASSUME NEW a \in ids, NEW b \in ids, a # b PROVE rank[a] # rank[b]
  <2>1. a < b \/ b < a
    BY <1>3, IdsInNat
  <2>2. Cardinality(Below(ids, a)) < Cardinality(Below(ids, b))
        \/ Cardinality(Below(ids, b)) < Cardinality(Below(ids, a))
    BY <2>1, BelowGrows
  <2>3. Cardinality(Below(ids, a)) \in Int /\ Cardinality(Below(ids, b)) \in Int
    BY <1>2, <1>1
  <2> QED BY <2>2, <2>3
<1>4. rank \in Injection(ids, 0..(n - 1))
  <2>1. rank \in [ids -> 0..(n - 1)]
    BY <1>2
  <2> QED BY <1>3, <2>1 DEF Injection, IsInjective
<1>5. IsFiniteSet(0..(n - 1)) /\ Cardinality(0..(n - 1)) = n
  <2>1. n - 1 \in Int /\ 0 \in Int
    BY <1>1
  <2>2. /\ IsFiniteSet(0..(n - 1))
        /\ Cardinality(0..(n - 1)) = IF 0 > n - 1 THEN 0 ELSE (n - 1) - 0 + 1
    BY <2>1, FS_Interval
  <2> QED BY <1>1, <2>2
<1>6. rank \in Surjection(ids, 0..(n - 1))
  BY <1>4, <1>5, FS_Injection
<1>7. ASSUME NEW k \in 0..(n - 1) PROVE \E id \in ids : Cardinality(Below(ids, id)) = k
  BY <1>6, <1>7 DEF Surjection
<1> QED BY <1>1, <1>2, <1>7

\* The identifier at a position of a snapshot.
LEMMA SnapshotAt ==
    ASSUME NEW ids \in SUBSET Ids, IsFiniteSet(ids), NEW i \in 1..Cardinality(ids)
    PROVE  /\ SnapshotOrder(ids)[i] \in ids
           /\ Cardinality(Below(ids, SnapshotOrder(ids)[i])) = i - 1
<1>1. Cardinality(ids) \in Nat /\ i - 1 \in 0..(Cardinality(ids) - 1)
  BY Ranks
<1>2. \E id \in ids : Cardinality(Below(ids, id)) = i - 1
  BY <1>1, Ranks
<1>3. SnapshotOrder(ids)[i] = CHOOSE id \in ids : Cardinality(Below(ids, id)) = i - 1
  BY DEF SnapshotOrder, Below
<1> QED BY <1>2, <1>3

\* Revoker::publish lists the revoked identifiers, each once and in order.
LEMMA SnapshotIsSorted ==
    ASSUME NEW ids \in SUBSET Ids, IsFiniteSet(ids)
    PROVE  /\ SnapshotOrder(ids) \in Seq(Ids)
           /\ ToSet(SnapshotOrder(ids)) = ids
           /\ InOrder(SnapshotOrder(ids))
<1> DEFINE n == Cardinality(ids)
           s == SnapshotOrder(ids)
<1>1. n \in Nat /\ DOMAIN s = 1..n
  BY Ranks DEF SnapshotOrder
<1>2. \A i \in 1..n : s[i] \in ids /\ Cardinality(Below(ids, s[i])) = i - 1
  BY SnapshotAt
<1>3. s \in Seq(Ids)
  <2>1. s \in [1..n -> Ids]
    BY <1>1, <1>2 DEF SnapshotOrder
  <2> QED BY <1>1, <2>1
<1>4. ASSUME NEW id \in ids PROVE \E i \in 1..n : s[i] = id
  <2>1. PICK k \in 0..(n - 1) : Cardinality(Below(ids, id)) = k
    BY Ranks
  <2>2. k + 1 \in 1..n /\ (k + 1) - 1 = k
    BY <1>1
  <2>3. s[k + 1] \in ids /\ Cardinality(Below(ids, s[k + 1])) = k
    BY <1>2, <2>2
  <2>4. ~(s[k + 1] < id) /\ ~(id < s[k + 1])
    BY <2>1, <2>3, BelowGrows
  <2>5. s[k + 1] = id
    <3>1. s[k + 1] \in Nat /\ id \in Nat
      BY <2>3, IdsInNat
    <3> QED BY <2>4, <3>1
  <2> QED BY <2>2, <2>5
<1>5. ToSet(s) = ids
  BY <1>1, <1>2, <1>4 DEF ToSet
<1>6. ASSUME NEW i \in 1..n, NEW j \in 1..n, i < j PROVE s[i] <= s[j]
  <2>1. s[i] \in Nat /\ s[j] \in Nat /\ s[i] \in ids /\ s[j] \in ids
    BY <1>2, IdsInNat
  <2>2. ~(s[j] < s[i])
    BY <1>2, <1>6, <2>1, BelowGrows
  <2> QED BY <2>1, <2>2
<1>7. InOrder(s)
  BY <1>1, <1>6 DEF InOrder
<1> QED BY <1>3, <1>5, <1>7

-----------------------------------------------------------------------------
\* A published list is what the Revoker signed of its snapshot.
PublishedOK ==
    /\ IsFiniteSet(revoked)
    /\ \A p \in published :
         /\ p.snapshot \in SUBSET Ids /\ IsFiniteSet(p.snapshot)
         /\ \E t \in Times : p.list = SignedList(RootKey, t, SnapshotOrder(p.snapshot))

\* An installed list has the contents that some published list was signed for.
InstalledOK == \A v \in Verifiers : installed[v] # NoList => VerifySignature(RootKey, installed[v])

IInv == TypeOK /\ PublishedOK /\ InstalledOK /\ InstalledIsPublished

LEMMA SignedListType ==
    ASSUME NEW key \in {RootKey, OtherKey}, NEW t \in Times, NEW s \in Seq(Ids)
    PROVE  SignedList(key, t, s) \in Lists
<1>1. ToSet(s) \subseteq Ids
  BY DEF ToSet
<1> QED BY <1>1 DEF SignedList, CanonicalBytes, Lists

LEMMA WireListType == ASSUME TypeOK, NEW list \in WireLists PROVE list \in Lists
<1>1. SeqOf(Ids, MaxLength) \subseteq Seq(Ids)
  BY DEF SeqOf
<1>2. CASE \E c \in Times \X SeqOf(Ids, MaxLength), p \in published :
             list = [issued_at_ms |-> c[1], revoked |-> c[2], signature |-> p.list.signature]
  <2>1. PICK c \in Times \X SeqOf(Ids, MaxLength), p \in published :
             list = [issued_at_ms |-> c[1], revoked |-> c[2], signature |-> p.list.signature]
    BY <1>2
  <2>2. c[1] \in Times /\ c[2] \in Seq(Ids) /\ p.list \in Lists
    BY <1>1 DEF TypeOK
  <2> QED BY <2>1, <2>2 DEF Lists
<1>3. CASE \E c \in Times \X SeqOf(Ids, MaxLength) : list = SignedList(OtherKey, c[1], c[2])
  <2>1. PICK c \in Times \X SeqOf(Ids, MaxLength) : list = SignedList(OtherKey, c[1], c[2])
    BY <1>3
  <2>2. c[1] \in Times /\ c[2] \in Seq(Ids)
    BY <1>1
  <2> QED BY <2>1, <2>2, SignedListType
<1> QED BY <1>2, <1>3 DEF WireLists

\* A list in transit that verifies has the time and the identifiers of a published
\* one, in whatever order.
LEMMA VerifiedIsPublished ==
    ASSUME PublishedOK, NEW list \in WireLists, VerifySignature(RootKey, list)
    PROVE  \E p \in published : /\ p.list.issued_at_ms = list.issued_at_ms
                               /\ p.snapshot = ToSet(list.revoked)
<1>1. list.signature.key = RootKey
      /\ list.signature.bytes = CanonicalBytes(list.issued_at_ms, list.revoked)
  BY DEF VerifySignature
<1>2. PICK p \in published : list.signature = p.list.signature
  <2>1. ASSUME NEW c, list = SignedList(OtherKey, c[1], c[2]) PROVE FALSE
    BY <1>1, <2>1, KeysDiffer DEF SignedList
  <2> QED BY <2>1 DEF WireLists
<1>3. PICK t \in Times : p.list = SignedList(RootKey, t, SnapshotOrder(p.snapshot))
  BY DEF PublishedOK
<1>4. ToSet(SnapshotOrder(p.snapshot)) = p.snapshot
  BY SnapshotIsSorted DEF PublishedOK
<1>5. CanonicalBytes(list.issued_at_ms, list.revoked) = CanonicalBytes(t, SnapshotOrder(p.snapshot))
  BY <1>1, <1>2, <1>3 DEF SignedList
<1>6. list.issued_at_ms = t /\ ToSet(list.revoked) = p.snapshot /\ p.list.issued_at_ms = t
  BY <1>3, <1>4, <1>5 DEF CanonicalBytes, SignedList
<1> QED BY <1>6

LEMMA InitInvariant == Init => IInv
BY FS_EmptySet DEF Init, IInv, TypeOK, PublishedOK, InstalledOK, InstalledIsPublished

\* The Revoker's set changes.
LEMMA RevokerKeeps ==
    ASSUME IInv, revoked' \in SUBSET Ids, IsFiniteSet(revoked'), UNCHANGED <<published, installed>>
    PROVE  IInv'
BY DEF IInv, TypeOK, PublishedOK, InstalledOK, InstalledIsPublished

LEMMA PublishKeeps ==
    ASSUME IInv, NEW t \in Times, Publish(t) PROVE IInv'
<1> DEFINE new == [list |-> SignedList(RootKey, t, SnapshotOrder(revoked)), snapshot |-> revoked]
<1>1. revoked \in SUBSET Ids /\ IsFiniteSet(revoked)
  BY DEF IInv, TypeOK, PublishedOK
<1>2. new.list \in Lists
  BY <1>1, SnapshotIsSorted, SignedListType
<1>3. published' = published \cup {new} /\ UNCHANGED <<revoked, installed>>
  BY DEF Publish
<1>4. TypeOK'
  BY <1>1, <1>2, <1>3 DEF IInv, TypeOK
<1>5. PublishedOK'
  BY <1>1, <1>3 DEF IInv, PublishedOK
<1>6. InstalledOK' /\ InstalledIsPublished'
  BY <1>3 DEF IInv, InstalledOK, InstalledIsPublished
<1> QED BY <1>4, <1>5, <1>6 DEF IInv

\* A verifier gets a list that verifies, or none.
LEMMA InstallKeeps ==
    ASSUME IInv, NEW v \in Verifiers, NEW list,
           \/ list = NoList
           \/ list \in WireLists /\ VerifySignature(RootKey, list),
           installed' = [installed EXCEPT ![v] = list], UNCHANGED <<revoked, published>>
    PROVE  IInv'
<1>1. TypeOK'
  BY WireListType DEF IInv, TypeOK
<1>2. PublishedOK'
  BY DEF IInv, PublishedOK
<1>3. InstalledOK'
  BY DEF IInv, TypeOK, InstalledOK
<1>4. InstalledIsPublished'
  <2> SUFFICES ASSUME NEW w \in Verifiers, installed'[w] # NoList
               PROVE  \E p \in published : /\ p.list.issued_at_ms = installed'[w].issued_at_ms
                                          /\ p.snapshot = ToSet(installed'[w].revoked)
    BY DEF InstalledIsPublished
  <2>1. CASE w = v
    BY <2>1, VerifiedIsPublished DEF IInv, TypeOK
  <2>2. CASE w # v
    BY <2>2 DEF IInv, TypeOK, InstalledIsPublished
  <2> QED BY <2>1, <2>2
<1> QED BY <1>1, <1>2, <1>3, <1>4 DEF IInv

LEMMA NextInvariant == IInv /\ [Next]_vars => IInv'
<1> SUFFICES ASSUME IInv, [Next]_vars PROVE IInv'
  OBVIOUS
<1>1. revoked \in SUBSET Ids /\ IsFiniteSet(revoked)
  BY DEF IInv, TypeOK, PublishedOK
<1>2. ASSUME NEW id \in Ids, Revoke(id) \/ Unrevoke(id) PROVE IInv'
  BY <1>1, <1>2, FS_AddElement, FS_RemoveElement, RevokerKeeps DEF Revoke, Unrevoke
<1>3. CASE NewRevoker \/ UNCHANGED vars
  BY <1>1, <1>3, FS_EmptySet, RevokerKeeps DEF NewRevoker, vars
<1>4. ASSUME NEW t \in Times, Publish(t) PROVE IInv'
  BY <1>4, PublishKeeps
<1>5. ASSUME NEW v \in Verifiers, NEW list \in WireLists, Install(v, list) PROVE IInv'
  BY <1>5, InstallKeeps DEF Install
<1>6. ASSUME NEW v \in Verifiers, NEW list \in WireLists, Refuse(v, list) PROVE IInv'
  <2>1. CASE v \in JsVerifiers
    BY <1>1, <1>6, <2>1, RevokerKeeps DEF Refuse
  <2>2. CASE v \notin JsVerifiers
    BY <1>6, <2>2, InstallKeeps DEF Refuse
  <2> QED BY <2>1, <2>2
<1>7. ASSUME NEW v \in Verifiers, WithoutList(v) PROVE IInv'
  BY <1>7, InstallKeeps DEF WithoutList
<1> QED BY <1>2, <1>3, <1>4, <1>5, <1>6, <1>7 DEF Next

LEMMA Invariance == Spec => []IInv
BY InitInvariant, NextInvariant, PTL DEF Spec

-----------------------------------------------------------------------------
\* The Revoker, the lists and the verifiers keep their types.
THEOREM TypeCorrect == Spec => []TypeOK
<1>1. IInv => TypeOK
  BY DEF IInv
<1> QED BY <1>1, Invariance, PTL

\* Whatever lists are altered, replayed or forged in transit, what a verifier holds
\* has the time and the identifiers of a list that was published.
THEOREM InstalledArePublished == Spec => []InstalledIsPublished
<1>1. IInv => InstalledIsPublished
  BY DEF IInv
<1> QED BY <1>1, Invariance, PTL

\* The search of a list as it was published is exact, for any set of identifiers.
THEOREM PublishedAreExact == Spec => []PublishedListsAreExact
<1>1. IInv => PublishedListsAreExact
  <2> SUFFICES ASSUME IInv, NEW p \in published, NEW id \in Ids
               PROVE  BinarySearch(p.list, id) = {(id \in p.snapshot)}
    BY DEF PublishedListsAreExact
  <2>1. PICK t \in Times : p.list = SignedList(RootKey, t, SnapshotOrder(p.snapshot))
    BY DEF IInv, PublishedOK
  <2>2. p.list.revoked = SnapshotOrder(p.snapshot)
    BY <2>1 DEF SignedList
  <2>3. InOrder(p.list.revoked) /\ ToSet(p.list.revoked) = p.snapshot
    BY <2>2, SnapshotIsSorted DEF IInv, PublishedOK
  <2>4. CASE id \in p.snapshot
    BY <2>3, <2>4 DEF BinarySearch
  <2>5. CASE id \notin p.snapshot
    <3>1. (id \in p.snapshot) = FALSE
      BY <2>5
    <3>2. BinarySearch(p.list, id) = {FALSE}
      BY <2>3, <2>5 DEF BinarySearch
    <3> HIDE DEF BinarySearch
    <3> QED BY <3>1, <3>2, Zenon
  <2> QED BY <2>4, <2>5
<1> QED BY <1>1, Invariance, PTL

\* No step takes the list of a verifier behind the wasm binding away.
THEOREM ListsAreNeverLost == Spec => ListIsNeverLost
<1>1. IInv /\ [Next]_vars => [KeepsLists]_vars
  <2> SUFFICES ASSUME IInv, Next, NEW w \in JsVerifiers, installed[w] # NoList
               PROVE  installed'[w] # NoList
    BY DEF KeepsLists
  <2>1. w \in Verifiers
    BY JsAreVerifiers
  <2>2. CASE UNCHANGED installed
    BY <2>2
  <2>3. ASSUME NEW v \in Verifiers, NEW list \in WireLists, Install(v, list)
        PROVE  installed'[w] # NoList
    <3>1. list # NoList
      BY WireListType, NoListAssumption DEF IInv
    <3> QED BY <2>1, <2>3, <3>1 DEF Install, IInv, TypeOK
  <2>4. ASSUME NEW v \in Verifiers, NEW list \in WireLists, Refuse(v, list)
        PROVE  installed'[w] # NoList
    BY <2>1, <2>4 DEF Refuse, IInv, TypeOK
  <2>5. ASSUME NEW v \in Verifiers, WithoutList(v) PROVE installed'[w] # NoList
    BY <2>1, <2>5 DEF WithoutList, IInv, TypeOK
  <2>6. ASSUME \/ \E id \in Ids : Revoke(id) \/ Unrevoke(id)
               \/ NewRevoker
               \/ \E t \in Times : Publish(t)
        PROVE  UNCHANGED installed
    BY <2>6 DEF Revoke, Unrevoke, NewRevoker, Publish
  <2> QED BY <2>2, <2>3, <2>4, <2>5, <2>6 DEF Next
<1> QED BY <1>1, Invariance, PTL DEF Spec, ListIsNeverLost
=============================================================================
