---------------------------- MODULE MCLockService ----------------------------
(* Two owners contending for one lock.                                      *)
EXTENDS LockService, TLC

CONSTANTS o1, o2

MCOwners == {o1, o2}

Symmetry == Permutations(MCOwners)
====
