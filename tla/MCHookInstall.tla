--------------------------- MODULE MCHookInstall ---------------------------
(* Small instances of HookInstall for TLC.                                 *)
EXTENDS HookInstall

Numbers == <<3, 1, 4, 2, 6>>
AllTypes == [Entries -> {"N", "M", "S"}]
=============================================================================
