---------------------------- MODULE MCSysService ----------------------------
(* Instance of SysService for TLC. *)
EXTENDS SysService, TLC

(* Everything a slot, a caller or a descriptor is named by is              *)
(* interchangeable in the safety runs.                                     *)
FullSymmetry ==
    Permutations(Threads) \union Permutations(Slots) \union Permutations(Keys)
    \union Permutations(Abis) \union Permutations(Ops)
=============================================================================
