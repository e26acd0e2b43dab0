------------------------------ MODULE RigOwner ------------------------------
(***************************************************************************)
(* What the acquisition lock and the careful setup and teardown of Run     *)
(* promise about the one rig of a machine (two network namespaces and the  *)
(* pair of links between them, all under fixed names): it is free, or the  *)
(* property of one run at work, or debris a run has left.  Nobody takes    *)
(* over what another run made, and nobody clears debris away.              *)
(***************************************************************************)
CONSTANT Runs

VARIABLE owner

Free == "nobody"
Debris == "debris"

OwnerInit == owner = Free

(* A run makes the first piece of its rig.                                 *)
Take(r) == owner = Free /\ owner' = r

(* It has removed the last one.                                            *)
Return(r) == owner = r /\ owner' = Free

(* It ends or is killed with pieces left.                                  *)
Abandon(r) == owner = r /\ owner' = Debris

OwnerNext == \E r \in Runs : Take(r) \/ Return(r) \/ Abandon(r)

OwnerSpec == OwnerInit /\ [][OwnerNext]_owner
=============================================================================
