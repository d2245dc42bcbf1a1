----------------------------- MODULE MCSyncServer -----------------------------
(* Instances of SyncServer for TLC.                                          *)
EXTENDS SyncServer, TLC

Symmetric == Permutations(Devices) \cup Permutations(Posts)
=============================================================================
