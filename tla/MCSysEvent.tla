------------------------------ MODULE MCSysEvent ------------------------------
(* Instance of SysEvent for TLC. *)
EXTENDS SysEvent, TLC

(* Client threads, subscriptions and event ids are interchangeable in the  *)
(* safety runs.                                                            *)
FullSymmetry ==
    Permutations(Threads) \union Permutations(Subscriptions) \union Permutations(Events)
=============================================================================
