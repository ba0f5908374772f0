-------------------------- MODULE MC_ResponseGate --------------------------
(* Small instances of ResponseGate for TLC. *)
EXTENDS ResponseGate, TLC

CONSTANTS r1, t1

(* All approvals and all tool calls are of one run: they contend for it and   *)
(* for the chain of its tenant.                                               *)
MC_RunOf == [a \in Approval |-> r1]
MC_WantedBy == [x \in Tool |-> r1]
MC_TenantOf == [r \in Run |-> t1]
=============================================================================
