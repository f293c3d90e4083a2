----------------------------- MODULE BootProofs -----------------------------
(***************************************************************************)
(* Theorems about Boot, for every set of targets and functions, and every  *)
(* number of failures and power cuts.  They use only the safety part of    *)
(* Spec.                                                                   *)
(***************************************************************************)
EXTENDS Boot, TLAPS

LEMMA OriginalType == TypeOK => Original \in Files
  BY BootAssumption DEF TypeOK, Original, get_file_size, File, Files

-----------------------------------------------------------------------------
(* What relates the patch file, the buffer and the loaded program to the   *)
(* configuration.  The patch file may be of any size, and the target may   *)
(* have changed since it was written, but what is in it is always a target *)
(* with exactly the selected functions killed, or the head of an image: it *)
(* is deleted with every change of them, and nothing else is ever written  *)
(* to it.                                                                  *)
Copy(f) ==
    f.of \in Targets /\ f.killed = sel \cap Imports[f.of] /\ f.size <= Size[f.of]
Head(f) == f.of = ImageHead /\ sel = {}

PatchInv == patch # NoFile => Copy(patch) \/ Head(patch)

BufferInv ==
    /\ pc = "patch" => szBuffer = Original /\ file_size = Size[target]
    /\ pc = "create" =>
          \/ szBuffer = NoFile /\ sel = {} /\ file_size = 0
          \/ /\ szBuffer # NoFile
             /\ (szBuffer.of = target /\ Copy(szBuffer)) \/ Head(szBuffer)
             /\ szBuffer.size = Size[target] /\ file_size = Size[target]

(* The size tells the copies of two targets apart.                         *)
DifferentSizes == \A t, u \in Targets : t # u => Size[t] # Size[u]

(* A patch file of another target is loaded only after it could not be     *)
(* written.                                                                *)
ModuleInv ==
    pc = "module" /\ Copied /\ DifferentSizes /\ "create" \notin ignored =>
        \/ patch = NoFile
        \/ patch.of \in {target, ImageHead}
        \/ patch.size # Size[patch.of]

ImageInv ==
    /\ pc \in {"module", "hook"} => file_size = Size[target]
    /\ pc \in {"hook", "run"} =>
          /\ Copy(image) /\ image.size = Size[image.of]
          /\ DifferentSizes /\ image.of # target => "create" \in ignored
    /\ pc = "run" /\ image.of = target /\ "thread" \notin ignored => hooked = image.killed

BootInv == PatchInv /\ BufferInv /\ ModuleInv /\ ImageInv

LEMMA StepType == ASSUME TypeOK, BootInv, Next PROVE TypeOK'
  <1>0. /\ Fault => faults' \in 0..MaxFaults
        /\ \A t \in Targets : Size[t] \in Nat /\ Imports[t] \in SUBSET Funcs
        /\ MaxFaults \in Nat
    BY BootAssumption DEF Fault, TypeOK
  <1> USE <1>0 DEF TypeOK, Files, Goto, Config, Loads, Memory, get_file_size
  <1>1. CASE Select
    <2>1. target' \in Targets /\ sel' \in SUBSET Funcs /\ patch' \in {patch, NoFile}
      BY <1>1 DEF Select
    <2>2. UNCHANGED <<pc, file_size, szBuffer, image, hooked, ignored, faults>>
      BY <1>1 DEF Select
    <2> QED
      BY <2>1, <2>2
  <1>16. CASE Start
    BY <1>16 DEF Start
  <1>2. CASE Direct \/ NoTarget
    BY <1>2 DEF Direct, NoTarget
  <1>3. CASE Bypass
    BY <1>3 DEF Bypass, Complete
  <1>4. CASE Rebuild
    BY <1>4 DEF Rebuild
  <1>5. CASE LoadFile
    BY <1>5, OriginalType DEF LoadFile
  <1>6. CASE LoadFileFails
    BY <1>6 DEF LoadFileFails
  <1>7. CASE LoadHead
    BY <1>7 DEF LoadHead, File
  <1>8. CASE PatchProgram
    <2>1. szBuffer \in Files
      BY <1>8, OriginalType DEF PatchProgram, BootInv, BufferInv
    <2> QED
      BY <1>8, <2>1 DEF PatchProgram, KillNIDs
  <1>9. CASE WritePatch
    <2>1. CASE szBuffer = NoFile
      BY <1>9, <2>1 DEF WritePatch, Purged, File
    <2>2. CASE szBuffer # NoFile
      BY <1>9, <2>2 DEF WritePatch, Purged
    <2> QED
      BY <2>1, <2>2
  <1>10. CASE CreateFails
    BY <1>10 DEF CreateFails, Purged
  <1>11. CASE LoadModule
    BY <1>11, OriginalType DEF LoadModule, Loaded
  <1>12. CASE LoadModuleFails
    BY <1>12 DEF LoadModuleFails
  <1>13. CASE HookModule
    BY <1>13 DEF HookModule
  <1>14. CASE ThreadFails
    BY <1>14 DEF ThreadFails
  <1>15. CASE Off
    BY <1>15 DEF Off
  <1> QED
    BY <1>1, <1>2, <1>3, <1>4, <1>5, <1>6, <1>7, <1>8, <1>9, <1>10, <1>11, <1>12, <1>13, <1>14,
       <1>15, <1>16 DEF Next, Boot

LEMMA StepPatch == ASSUME TypeOK, BootInv, Next PROVE PatchInv'
  <1> USE DEF PatchInv, Copy, Head, Goto, Config, Loads, Memory
  <1>1. CASE Select
    BY <1>1 DEF Select, BootInv
  <1>2. CASE Rebuild
    BY <1>2 DEF Rebuild, BootInv
  <1>3. CASE WritePatch
    <2> USE DEF TypeOK, Files, Purged, BootInv, BufferInv, WritePatch, Fault
    <2>1. CASE szBuffer = NoFile
      BY <1>3, <2>1, BootAssumption DEF File
    <2>2. CASE szBuffer # NoFile
      <3>1. PICK n \in 0..file_size : patch' = [szBuffer EXCEPT !.size = n]
        BY <1>3, <2>2
      <3>2. /\ patch'.of = szBuffer.of /\ patch'.killed = szBuffer.killed
            /\ patch'.size = n /\ n <= Size[target]
        BY <1>3, <2>2, <3>1, BootAssumption
      <3> QED
        BY <1>3, <2>2, <3>2
    <2> QED
      BY <2>1, <2>2
  <1>4. CASE \/ Start \/ Direct \/ NoTarget \/ Bypass \/ LoadFile \/ LoadFileFails
             \/ LoadHead \/ PatchProgram \/ CreateFails \/ LoadModule \/ LoadModuleFails
             \/ HookModule \/ ThreadFails \/ Off
    BY <1>4 DEF Start, Direct, NoTarget, Bypass, LoadFile, LoadFileFails, LoadHead,
       PatchProgram, CreateFails, Purged, LoadModule, LoadModuleFails, HookModule,
       ThreadFails, Off, BootInv
  <1> QED
    BY <1>1, <1>2, <1>3, <1>4 DEF Next, Boot

LEMMA StepBuffer == ASSUME TypeOK, BootInv, Next PROVE BufferInv'
  <1> USE DEF BufferInv, Head, Goto, Config, Loads, Memory, get_file_size
  <1>1. CASE LoadFile
    BY <1>1 DEF LoadFile, Original, File
  <1>2. CASE LoadFileFails
    BY <1>2 DEF LoadFileFails
  <1>5. CASE LoadHead
    BY <1>5, BootAssumption DEF LoadHead, File, TypeOK
  <1>3. CASE PatchProgram
    <2>1. szBuffer = Original /\ file_size = Size[target] /\ Original \in Files
      BY <1>3, OriginalType DEF PatchProgram, BootInv
    <2>2. szBuffer'.of = target /\ szBuffer'.killed = sel \cap Imports[target]
             /\ szBuffer'.size = Size[target] /\ szBuffer' \in Files
      BY <1>3, <2>1, BootAssumption
         DEF PatchProgram, KillNIDs, Original, get_file_size, File, Files, TypeOK
    <2>3. Copy(szBuffer)'
      BY <1>3, <2>2, BootAssumption DEF PatchProgram, Copy, TypeOK
    <2> QED
      BY <1>3, <2>1, <2>2, <2>3, BootAssumption DEF PatchProgram, Files
  <1>4. CASE \/ Select \/ Start \/ Direct \/ NoTarget \/ Bypass \/ Rebuild
             \/ WritePatch \/ CreateFails \/ LoadModule \/ LoadModuleFails
             \/ HookModule \/ ThreadFails \/ Off
    BY <1>4 DEF Select, Start, Direct, NoTarget, Bypass, Rebuild, WritePatch, CreateFails,
       Purged, LoadModule, LoadModuleFails, HookModule, ThreadFails, Off
  <1> QED
    BY <1>1, <1>2, <1>3, <1>4, <1>5 DEF Next, Boot

LEMMA StepModule == ASSUME TypeOK, BootInv, Next PROVE ModuleInv'
  <1> USE DEF ModuleInv, Goto, Config, Loads, Memory, Copied
  <1>1. CASE Direct
    BY <1>1 DEF Direct
  <1>2. CASE Bypass
    <2>1. patch # NoFile /\ patch.size = Size[target] /\ UNCHANGED <<patch, target>>
      BY <1>2 DEF Bypass, Complete, get_file_size
    <2>2. patch.of \in Targets \/ patch.of = ImageHead
      BY <2>1 DEF BootInv, PatchInv, Copy, Head
    <2>3. DifferentSizes => patch.of \in {target, ImageHead} \/ patch.size # Size[patch.of]
      BY <2>1, <2>2 DEF DifferentSizes, TypeOK
    <2> QED
      BY <2>1, <2>3
  <1>3. CASE WritePatch
    <2>1. CASE szBuffer = NoFile
      BY <1>3, <2>1 DEF WritePatch, BootInv, BufferInv
    <2>2. CASE szBuffer # NoFile
      <3>1. patch'.of = szBuffer.of
        BY <1>3, <2>2 DEF WritePatch, TypeOK, Files
      <3>2. szBuffer.of \in {target, ImageHead} /\ target' = target
        BY <1>3, <2>2 DEF WritePatch, Purged, BootInv, BufferInv, Head
      <3> QED
        BY <3>1, <3>2
    <2> QED
      BY <2>1, <2>2
  <1>4. CASE CreateFails
    BY <1>4 DEF CreateFails
  <1>5. CASE \/ Select \/ Start \/ NoTarget \/ Rebuild \/ LoadFile \/ LoadFileFails
             \/ LoadHead \/ PatchProgram \/ LoadModule \/ LoadModuleFails
             \/ HookModule \/ ThreadFails \/ Off
    BY <1>5 DEF Select, Start, NoTarget, Rebuild, LoadFile, LoadFileFails, LoadHead,
       PatchProgram, LoadModule, LoadModuleFails, HookModule, ThreadFails, Off
  <1> QED
    BY <1>1, <1>2, <1>3, <1>4, <1>5 DEF Next, Boot

LEMMA StepImage == ASSUME TypeOK, BootInv, Next PROVE ImageInv'
  <1> USE DEF ImageInv, Goto, Config, Loads, Memory, get_file_size
  <1>1. CASE Direct \/ Bypass
    BY <1>1 DEF Direct, Bypass, Complete
  <1>2. CASE WritePatch \/ CreateFails
    BY <1>2 DEF WritePatch, CreateFails, Purged, BootInv, BufferInv
  <1>3. CASE LoadModule
    <2>1. /\ Loaded # NoFile /\ Loaded.of \in Targets
          /\ Loaded.size = Size[Loaded.of] /\ image' = Loaded
          /\ UNCHANGED <<target, sel, ignored, file_size>> /\ pc = "module"
      BY <1>3 DEF LoadModule, Loadable
    <2>2. Copy(Loaded) /\ (DifferentSizes /\ Loaded.of # target => "create" \in ignored)
      <3>1. CASE Copied
        BY <2>1, <3>1, BootAssumption DEF Loaded, BootInv, PatchInv, Head, ModuleInv
      <3>2. CASE ~Copied
        BY <3>2, BootAssumption DEF Loaded, Copied, Copy, Original, File, TypeOK
      <3> QED
        BY <3>1, <3>2
    <2> QED
      BY <1>3, <2>1, <2>2 DEF LoadModule, Copy, BootInv
  <1>4. CASE HookModule
    <2>1. file_size = Size[target] /\ Copy(image) /\ image.size = Size[image.of]
      BY <1>4 DEF HookModule, BootInv
    <2>2. image.of = target => file_size >= image.size
      BY <2>1, BootAssumption DEF TypeOK
    <2>3. image.of = target => hooked' = image.killed
      BY <1>4, <2>1, <2>2 DEF HookModule, Copy
    <2> QED
      BY <1>4, <2>1, <2>3 DEF HookModule, Copy, BootInv
  <1>5. CASE ThreadFails
    BY <1>5 DEF ThreadFails, Copy, BootInv
  <1>6. CASE \/ Select \/ Start \/ NoTarget \/ Rebuild \/ LoadFile \/ LoadFileFails
             \/ LoadHead \/ PatchProgram \/ LoadModuleFails \/ Off
    BY <1>6 DEF Select, Start, NoTarget, Rebuild, LoadFile, LoadFileFails, LoadHead,
       PatchProgram, LoadModuleFails, Off, BootInv
  <1> QED
    BY <1>1, <1>2, <1>3, <1>4, <1>5, <1>6 DEF Next, Boot

THEOREM BootInvariant == Spec => [](TypeOK /\ BootInv)
  <1> USE DEF PatchInv, BufferInv, ModuleInv, ImageInv, Copy, Head
  <1>1. Init => TypeOK /\ BootInv
    BY BootAssumption DEF Init, TypeOK, BootInv
  <1>2. TypeOK /\ BootInv /\ [Next]_vars => (TypeOK /\ BootInv)'
    <2>1. ASSUME TypeOK, BootInv, UNCHANGED vars PROVE (TypeOK /\ BootInv)'
      BY <2>1 DEF TypeOK, BootInv, Original, get_file_size, File, Copied, vars
    <2>2. ASSUME TypeOK, BootInv, Next PROVE (TypeOK /\ BootInv)'
      BY <2>2, StepType, StepPatch, StepBuffer, StepModule, StepImage DEF BootInv
    <2> QED
      BY <2>1, <2>2
  <1> QED
    BY <1>1, <1>2, PTL DEF Spec

(* Every variable of the boot program keeps its type.  The type alone is   *)
(* not inductive: psp_patch_NID must find a program in the buffer.         *)
THEOREM BootTypeCorrect == Spec => []TypeOK
  BY BootInvariant, PTL

(* Whatever failed or was cut short before, a patch file that has the      *)
(* target's size is the right one, and pre_patch may use it again, unless  *)
(* it is the head of the target's image or was cut short at this size when *)
(* another target was copied; no two targets are of the same size.         *)
THEOREM CompletePatchFileIsRight == DifferentSizes => (Spec => []CompleteIsRight)
  <1> SUFFICES ASSUME DifferentSizes PROVE Spec => []CompleteIsRight
    OBVIOUS
  <1>1. TypeOK /\ BootInv => CompleteIsRight
    <2> SUFFICES ASSUME TypeOK, BootInv, Copied, Complete, ~HeadOfImage, ~CutElsewhere
                 PROVE  patch = File(target, Size[target], sel \cap Imports[target])
      BY DEF CompleteIsRight
    <2>1. patch \in Files /\ patch # NoFile /\ patch.size = Size[target] /\ target \in Targets
      BY DEF TypeOK, Complete, get_file_size
    <2>2. Copy(patch)
      BY <2>1 DEF BootInv, PatchInv, Head, HeadOfImage, Copied
    <2>3. patch.of = target
      <3> SUFFICES ASSUME patch.of # target PROVE FALSE
        OBVIOUS
      <3>1. Size[target] \in Nat /\ Size[patch.of] \in Nat
        BY <2>1, <2>2, BootAssumption DEF Copy
      <3>2. ~(patch.size < Size[patch.of])
        BY <2>2 DEF CutElsewhere, Copy
      <3>3. Size[patch.of] = Size[target]
        BY <2>1, <2>2, <3>1, <3>2 DEF Copy
      <3> QED
        BY <2>1, <2>2, <3>3 DEF DifferentSizes, Copy
    <2> QED
      BY <2>1, <2>2, <2>3 DEF Files, Copy, File
  <1> QED
    BY <1>1, BootInvariant, PTL

(* The program that is started is the selected one, and its killed NIDs    *)
(* are the selected ones and hooked, unless one of the two failures that   *)
(* the boot program takes no notice of came before: the patch file of      *)
(* another target could not be written over, or the thread that hooks      *)
(* could not be created.  No two targets are of the same size.             *)
THEOREM StartedAsSelected == DifferentSizes => (Spec => []RunsAsSelected)
  <1> SUFFICES ASSUME DifferentSizes PROVE Spec => []RunsAsSelected
    OBVIOUS
  <1>1. BootInv => RunsAsSelected
    BY DEF BootInv, ImageInv, Copy, RunsAsSelected
  <1> QED
    BY <1>1, BootInvariant, PTL
=============================================================================
