--------------------------- MODULE MacaroonChain ---------------------------
(***************************************************************************)
(* The capability record and its signature chain                           *)
(* (crates/capnagent-core/src/capability.rs, issuer.rs, verifier.rs).      *)
(*                                                                         *)
(* The code chains HMAC-SHA256: the root key keys the MAC of the           *)
(* identifier, and every signature keys the MAC of the next message.  The  *)
(* MAC is taken to be collision free, which makes a signature the sequence *)
(* of everything folded into it: the root key, the identifier and then the *)
(* messages.  A message is a byte string; a caveat contributes its         *)
(* predicate, and a holder binding contributes "__hok:" || pubkey.         *)
(***************************************************************************)
EXTENDS Sequences, Integers

CONSTANTS Roots,       \* issuer root keys
          Ids,         \* capability identifiers
          Keys,        \* ed25519 public keys
          Predicates,  \* caveat predicates, as the bytes that are hashed
          HokMessage,  \* [Keys -> the bytes "__hok:" || pubkey]
          NoKey        \* holder_of_key: None

\* Different public keys give different messages, and None is not a key.
ASSUME HokMessageAssumption ==
    /\ NoKey \notin Keys
    /\ \A j, k \in Keys : HokMessage[j] = HokMessage[k] => j = k

Messages == Predicates \cup {HokMessage[k] : k \in Keys}

\* A Capability: its contents and the tail of the chain.
Capability(id, hok, caveats, sig) ==
    [identifier |-> id, holder_of_key |-> hok, caveats |-> caveats,
     signature |-> sig]

\* HMAC(root_key, identifier)
ChainStart(root, id) == <<root, id>>

\* HMAC(prev_sig, predicate)
ChainCaveat(sig, predicate) == Append(sig, predicate)

\* HMAC(prev_sig, "__hok:" || pubkey)
ChainHolderOfKey(sig, key) == Append(sig, HokMessage[key])

\* Mutant: verify leaves the binding out of the chain it recomputes.
Recompute_NoBinding(root, cap) == ChainStart(root, cap.identifier) \o cap.caveats

\* The chain Verifier::verify recomputes: the binding, when there is one, comes
\* right after the identifier, then the caveats in order.
Recompute(root, cap) ==
    (IF cap.holder_of_key = NoKey
     THEN ChainStart(root, cap.identifier)
     ELSE ChainHolderOfKey(ChainStart(root, cap.identifier), cap.holder_of_key))
    \o cap.caveats

\* Verifier::verify: equal length, then constant-time equal bytes.
Verifies(root, cap) == cap.signature = Recompute(root, cap)
=============================================================================
