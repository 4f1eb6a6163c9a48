-------------------------- MODULE MCEventPipeline --------------------------
(***************************************************************************)
(* A lease with its two events, TenantJoined and then LeaseEnded, which    *)
(* can only follow it: one partition, and an order that may be lost.       *)
(***************************************************************************)
EXTENDS EventPipeline, TLC

CONSTANTS joined, ended, lease

LeaseEvents == {joined, ended}
LeaseEntities == {lease}
LeaseEntityOf == (joined :> lease) @@ (ended :> lease)
LeaseCause == (joined :> NoEvent) @@ (ended :> joined)

RelaySymmetry == Permutations(Relays)
=============================================================================
