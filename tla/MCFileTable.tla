---------------------------- MODULE MCFileTable ----------------------------
(* Small instances of FileTable for TLC.                                   *)
EXTENDS FileTable, TLC

(* Every rule of Safe; or sceIoOpen only, with rule "slot" alone.          *)
SafeOrSync == {Safe, SyncOnly \cup {"few"}}
Symmetry == Permutations(Threads) \cup Permutations(Fds)
=============================================================================
