----------------------------- MODULE MCFilePos -----------------------------
(* Small instances of FilePos for TLC.                                     *)
EXTENDS FilePos

ToTheEnd == {0}
=============================================================================
