----------------------------- MODULE Revocation -----------------------------
(***************************************************************************)
(* Revocation lists from the Revoker that publishes them to the verifiers  *)
(* that install them (crates/capnagent-core/src/revocation.rs and the      *)
(* with_revocation_list of the core and of the wasm binding).              *)
(*                                                                         *)
(* A list travels as JSON: whoever carries it may change its identifiers,  *)
(* their order and its time, and may replay an old one; only the root key  *)
(* makes a signature that verifies.  Clock readings are the publisher's    *)
(* arguments, and nothing makes them grow.                                 *)
(***************************************************************************)
EXTENDS RevocationList

CONSTANTS
    Ids,             \* capability identifiers, numbered in byte order
    Times,           \* issued_at_ms readings
    Verifiers,       \* all with the Revoker's root key
    JsVerifiers,     \* those behind the wasm binding
    RootKey, OtherKey,
    NoList,
    MaxLength,       \* bound on the length of a list in transit
    MaxLists         \* bound on the lists published

ASSUME IdsInNat == Ids \subseteq Nat
ASSUME KeysDiffer == RootKey # OtherKey
ASSUME JsAreVerifiers == JsVerifiers \subseteq Verifiers

Lists == [issued_at_ms : Times, revoked : Seq(Ids),
          signature : [key : {RootKey, OtherKey},
                       bytes : [issued_at_ms : Times, revoked : SUBSET Ids]]]

ASSUME NoListAssumption == NoList \notin Lists

VARIABLES revoked,    \* the Revoker's BTreeSet
          published,  \* the lists published, and the set each is a snapshot of
          installed   \* each verifier's revocation_list

vars == <<revoked, published, installed>>

Init == /\ revoked = {}
        /\ published = {}
        /\ installed = [v \in Verifiers |-> NoList]

Revoke(id) ==
    /\ revoked' = revoked \cup {id}
    /\ UNCHANGED <<published, installed>>

Unrevoke(id) ==
    /\ revoked' = revoked \ {id}
    /\ UNCHANGED <<published, installed>>

\* The Revoker's process restarts: Revoker::new knows no revocation.
NewRevoker ==
    /\ revoked' = {}
    /\ UNCHANGED <<published, installed>>

\* Mutant: the identifiers the other way round.
SnapshotOrder_Hashed(ids) ==
    [i \in 1..Cardinality(ids) |->
        CHOOSE id \in ids : Cardinality({other \in ids : other > id}) = i - 1]

\* The iteration order of a BTreeSet: each identifier comes after those below it.
SnapshotOrder(ids) ==
    [i \in 1..Cardinality(ids) |->
        CHOOSE id \in ids : Cardinality({other \in ids : other < id}) = i - 1]

\* Revoker::publish
Publish(issued_at_ms) ==
    /\ Cardinality(published) < MaxLists
    /\ published' = published \cup
           {[list |-> SignedList(RootKey, issued_at_ms, SnapshotOrder(revoked)),
             snapshot |-> revoked]}
    /\ UNCHANGED <<revoked, installed>>

\* What may be handed to a verifier as a RevocationList: any contents, with a
\* signature seen on a published list or made with another key.
WireLists ==
    LET contents == Times \X SeqOf(Ids, MaxLength)
    IN {[issued_at_ms |-> c[1], revoked |-> c[2], signature |-> p.list.signature] :
            c \in contents, p \in published}
       \cup {SignedList(OtherKey, c[1], c[2]) : c \in contents}

\* Verifier::with_revocation_list of a list that verifies.  Whatever list was
\* installed is replaced: the times of the two are not compared.
Install(v, list) ==
    /\ VerifySignature(RootKey, list)
    /\ installed' = [installed EXCEPT ![v] = list]
    /\ UNCHANGED <<revoked, published>>

\* Mutant: the wasm binding consumes the verifier before it checks, too.
Refuse_Consuming(v, list) ==
    /\ ~VerifySignature(RootKey, list)
    /\ installed' = [installed EXCEPT ![v] = NoList]
    /\ UNCHANGED <<revoked, published>>

\* Of a list that does not: the wasm binding checks the signature first and
\* leaves the verifier as it is; the core has taken it by value, and the
\* program goes on with a Verifier::new, which has no list.
Refuse(v, list) ==
    /\ ~VerifySignature(RootKey, list)
    /\ installed' = IF v \in JsVerifiers THEN installed
                    ELSE [installed EXCEPT ![v] = NoList]
    /\ UNCHANGED <<revoked, published>>

\* Verifier::without_revocation_list, which the wasm binding does not have.
WithoutList(v) ==
    /\ v \notin JsVerifiers
    /\ installed' = [installed EXCEPT ![v] = NoList]
    /\ UNCHANGED <<revoked, published>>

Next ==
    \/ \E id \in Ids : Revoke(id) \/ Unrevoke(id)
    \/ NewRevoker
    \/ \E t \in Times : Publish(t)
    \/ \E v \in Verifiers :
         \/ \E list \in WireLists : Install(v, list) \/ Refuse(v, list)
         \/ WithoutList(v)

Spec == Init /\ [][Next]_vars

-----------------------------------------------------------------------------
TypeOK ==
    /\ revoked \subseteq Ids
    /\ published \subseteq [list : Lists, snapshot : SUBSET Ids]
    /\ installed \in [Verifiers -> Lists \cup {NoList}]

\* However a list was altered on its way, a verifier that installed it refuses
\* an identifier only if the Revoker had revoked it when it published a list of
\* that time, and holds no other time than a published one.
InstalledIsPublished ==
    \A v \in Verifiers :
        installed[v] # NoList =>
            \E p \in published :
                /\ p.list.issued_at_ms = installed[v].issued_at_ms
                /\ p.snapshot = ToSet(installed[v].revoked)

\* A list in the order it was published answers exactly: the binary search
\* finds the identifiers that were revoked then, and finds no others.
PublishedListsAreExact ==
    \A p \in published, id \in Ids :
        BinarySearch(p.list, id) = {(id \in p.snapshot)}

KeepsLists == \A v \in JsVerifiers : installed[v] # NoList => installed'[v] # NoList

\* A JavaScript verifier that once had a list has one for good: nothing that is
\* handed to it, however malformed, leaves it without.
ListIsNeverLost == [][KeepsLists]_vars

\* verifier.rs: once a list is installed, every capability whose identifier
\* appears in it is denied.
InstalledListDenies ==
    \A v \in Verifiers :
        installed[v] # NoList =>
            \A id \in ToSet(installed[v].revoked) :
                BinarySearch(installed[v], id) = {TRUE}
=============================================================================
