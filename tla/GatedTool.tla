------------------------------ MODULE GatedTool ------------------------------
(***************************************************************************)
(* What wrapMCPClient and guardCall promise whoever puts a tool behind     *)
(* them: each call is decided once, its receipt is there before anything   *)
(* else happens, and only a call that was allowed reaches the tool, once.  *)
(* McpGuard is shown to implement it, and the example agents are built on  *)
(* it: their actions conjoin the ones below with what the agent adds.      *)
(***************************************************************************)
CONSTANTS Calls

VARIABLES
    phase,    \* where each call is
    receipt,  \* the outcome on each call's receipt, "none" before there is one
    ran       \* the calls that reached the tool behind the guard

gate == <<phase, receipt, ran>>

Phases == {"idle", "decided", "running", "settled"}

GateInit ==
    /\ phase = [c \in Calls |-> "idle"]
    /\ receipt = [c \in Calls |-> "none"]
    /\ ran = {}

Move(c, place) == phase' = [phase EXCEPT ![c] = place]

(* The guard signs the call's receipt and hands it out before it acts. *)
Decide(c, ok) ==
    /\ phase[c] = "idle"
    /\ receipt' = [receipt EXCEPT ![c] = IF ok THEN "allowed" ELSE "denied"]
    /\ Move(c, "decided")
    /\ UNCHANGED ran

(* The verification throws: no receipt, and the tool does not run. *)
Throw(c) ==
    /\ phase[c] = "idle"
    /\ Move(c, "settled")
    /\ UNCHANGED <<receipt, ran>>

(* A denied call ends as a CapabilityDeniedError. *)
Refuse(c) ==
    /\ phase[c] = "decided" /\ receipt[c] = "denied"
    /\ Move(c, "settled")
    /\ UNCHANGED <<receipt, ran>>

(* An allowed call is handed to the tool, which may be done with it at once. *)
Enter(c, place) ==
    /\ phase[c] = "decided" /\ receipt[c] = "allowed"
    /\ place \in {"running", "settled"}
    /\ Move(c, place)
    /\ ran' = ran \cup {c}
    /\ UNCHANGED receipt

Settle(c) ==
    /\ phase[c] = "running"
    /\ Move(c, "settled")
    /\ UNCHANGED <<receipt, ran>>

GateStep(c) ==
    \/ \E ok \in BOOLEAN : Decide(c, ok)
    \/ Throw(c)
    \/ Refuse(c)
    \/ \E place \in Phases : Enter(c, place)
    \/ Settle(c)

GateNext == \E c \in Calls : GateStep(c)

GateSpec == GateInit /\ [][GateNext]_gate

-----------------------------------------------------------------------------
(* Types. *)
GateTypeOK ==
    /\ phase \in [Calls -> Phases]
    /\ receipt \in [Calls -> {"none", "allowed", "denied"}]
    /\ ran \subseteq Calls

(* Nothing but an allowed call is ever in the tool's hands, and no call that *)
(* has not been decided has a receipt (guardCall, wrapMCPClient).            *)
Gated ==
    /\ \A c \in ran : receipt[c] = "allowed" /\ phase[c] \in {"running", "settled"}
    /\ \A c \in Calls : phase[c] = "idle" => receipt[c] = "none"
=============================================================================
