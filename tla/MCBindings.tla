----------------------------- MODULE MCBindings -----------------------------
(***************************************************************************)
(* The bindings, one question in each behaviour: the objects of Handles, or*)
(* calls, receipts or proofs of the TypeScript package, which share nothing*)
(* but init().                                                             *)
(***************************************************************************)
EXTENDS Handles, Sdk, TLC

VARIABLE question

bindingsVars == <<question, vars, sdkVars>>

MCLifetimes == {1, Width}
Symmetry == Permutations(Objects) \cup Permutations(Good)

MCGiven == {-1, 0, 5, Width64 - 1, Width64, Width64 + 1, Fraction}

BindingsInit == /\ Init /\ SdkInit
                /\ question \in {"objects", "calls", "receipts", "proofs"}
                /\ question = "objects" \/ binding = "js"

Objecting == question = "objects" /\ Next /\ UNCHANGED sdkVars
Calling == question = "calls" /\ CallNext /\ UNCHANGED vars
Receiving == question = "receipts" /\ ReceiptNext /\ UNCHANGED vars
Proving == question = "proofs" /\ ProofNext /\ UNCHANGED vars

BindingsNext == (Objecting \/ Calling \/ Receiving \/ Proving) /\ UNCHANGED question

BindingsSpec == BindingsInit /\ [][BindingsNext]_bindingsVars
=============================================================================
