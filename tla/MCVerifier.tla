----------------------------- MODULE MCVerifier -----------------------------
\* Two verifiers of one root key sharing a store.  The capabilities are a bound
\* one and one attenuated from it, the attenuated one with its caveat torn off,
\* two bearer ones and one attenuated from the second.
EXTENDS Verifier, TLC

CONSTANTS v1, v2, root, other, p1, p2, k1, k2, q1, q2, a1, a2, server

MCRootKey == [v \in Verifiers |-> root]
MCHokMessage == [k \in Keys |-> <<"hok", k>>]

MCInputs == {[request |-> q1, caller |-> a1], [request |-> q1, caller |-> a2],
             [request |-> q2, caller |-> a1]}

\* p1 allows the request q1 and nothing else; p2 does not evaluate.
MCHolds(p, ctx) ==
    IF p = p2 THEN "error"
    ELSE IF ctx.input.request = q1 THEN "true" ELSE "false"

\* A capability minted by the verifiers' root key.
Minted(id, hok, caveats) ==
    LET bare == Capability(id, hok, caveats, <<>>)
    IN Capability(id, hok, caveats, Recompute(root, bare))

MCCaps ==
    {Minted(1, k1, <<>>), Minted(1, k1, <<p1>>),
     [Minted(1, k1, <<p1>>) EXCEPT !.caveats = <<>>],
     Minted(2, NoKey, <<p1>>), Minted(2, NoKey, <<p2>>),
     Minted(2, NoKey, <<p2, p1>>)}

\* A list as published, one whose identifiers changed order on the way, and one
\* that another key signed.
MCLists == {SignedList(root, 0, <<1, 2>>), SignedList(root, 0, <<2, 1>>),
            SignedList(other, 0, <<>>)}

\* The challenge of the first capability for the request q1.
DefaultChallenge(now) ==
    PopChallengeFor(Minted(1, k1, <<>>),
                    [now |-> now, input |-> [request |-> q1, caller |-> a1]])
MCProofs ==
    {[key |-> k1, challenge |-> DefaultChallenge(0)],
     [key |-> k1, challenge |-> server],
     [key |-> k2, challenge |-> DefaultChallenge(0)]}

Symmetry == Permutations(Verifiers)
=============================================================================
