-------------------------- MODULE MCLockFreeBuffer --------------------------
(***************************************************************************)
(* LockFreeBuffer with rings of one, two and four slots: the ring without  *)
(* a usable slot, the one that is full after one item, and one where the   *)
(* indices wrap at every distance.                                         *)
(***************************************************************************)
EXTENDS LockFreeBuffer

MCCapacities == {0, 1, 3}
=============================================================================
