---------------------------- MODULE MCKernelExec ----------------------------
(* Small instances of KernelExec for TLC.                                  *)
EXTENDS KernelExec

(* A bit the drive has only when active (0x20, "READABLE"), or none.       *)
ActiveMask == {{32}}
NoMasks == {}

(* Loads one at a time; loads in any order, or one at a time with a stop   *)
(* at any moment; registration between notifications, or at any time in a  *)
(* build without a log.                                                    *)
SerialStay == {{"serial", "stay"}}
FreeOrStopped == {{"stay"}, {"serial", "prompt"}}
QuietOrFresh == {{"quiet"}, {"fresh", "nolog"}}
=============================================================================
