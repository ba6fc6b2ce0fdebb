---------------------------- MODULE MCCapability ----------------------------
\* Capabilities on a small instance.  The binding message of key k is the pair
\* <<"hok", k>>; with Collide, one public key is made of printable bytes and a
\* predicate is spelled like its binding message.
EXTENDS CapabilityLifecycle

CONSTANTS Collide, p1, p2, k1

MCHokMessage == [k \in Keys |-> <<"hok", k>>]
MCPredicates == IF Collide THEN {p1, <<"hok", k1>>} ELSE {p1, p2}
Symmetry == Permutations(Roots) \cup Permutations(Ids)
            \cup Permutations(Keys) \cup Permutations({p1, p2})
=============================================================================
