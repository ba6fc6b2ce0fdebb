--------------------------- MODULE RevocationList ---------------------------
(***************************************************************************)
(* The signed list of revoked identifiers                                  *)
(* (crates/capnagent-core/src/revocation.rs).  Identifiers are numbered in *)
(* their byte order, so that sorting strings is sorting numbers.  The MAC  *)
(* is taken to be collision free: a signature is the key and what it signs.*)
(***************************************************************************)
EXTENDS Integers, SequencesExt

\* The bytes that are signed.  The identifiers are sorted and deduplicated
\* first, whatever order the list itself has, so only their set counts.
CanonicalBytes(issued_at_ms, revoked) ==
    [issued_at_ms |-> issued_at_ms, revoked |-> ToSet(revoked)]

SignedList(root, issued_at_ms, revoked) ==
    [issued_at_ms |-> issued_at_ms, revoked |-> revoked,
     signature |-> [key |-> root,
                    bytes |-> CanonicalBytes(issued_at_ms, revoked)]]

\* Mutant: the canonical bytes of the signature are trusted, not recomputed.
VerifySignature_KeyOnly(root, list) == list.signature.key = root

\* RevocationList::verify_signature
VerifySignature(root, list) ==
    list.signature = [key |-> root,
                      bytes |-> CanonicalBytes(list.issued_at_ms, list.revoked)]

InOrder(ids) == \A i, j \in DOMAIN ids : i < j => ids[i] <= ids[j]

\* RevocationList::contains, as the set of answers it may give: a binary search
\* is exact on a sorted slice; on any other the standard library leaves open
\* whether it finds an element that is there, and it reports no other.
BinarySearch(list, id) ==
    IF id \notin ToSet(list.revoked) THEN {FALSE}
    ELSE IF InOrder(list.revoked) THEN {TRUE} ELSE BOOLEAN
=============================================================================
