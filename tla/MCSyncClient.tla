----------------------------- MODULE MCSyncClient -----------------------------
(* Instances of SyncClient for TLC.                                          *)
EXTENDS SyncClient, TLC

Symmetric == Permutations(Users) \cup Permutations(Hooks)
=============================================================================
