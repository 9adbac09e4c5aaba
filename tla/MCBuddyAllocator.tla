-------------------------- MODULE MCBuddyAllocator --------------------------
(* An area of eight of the smallest blocks, in four levels, in both. *)
EXTENDS BuddyLockstep

FourLevels == [l \in 0..3 |-> 2 ^ (3 - l)]
=============================================================================
