-------------------------------- MODULE Boot --------------------------------
(***************************************************************************)
(* The start of a target (main.c, file.c, psp_elf.c).  To hook functions   *)
(* of the target alone (mode M), hook boot loads a copy of it, the patch   *)
(* file, in which the NIDs of these functions are killed, so that the      *)
(* system does not link them, and marked at their entry, where             *)
(* hook_module_one finds them once the copy is loaded.  A target inside an *)
(* ISO image ('@' in its path) is copied as well.                          *)
(*                                                                         *)
(* The patch file stays on the memory stick.  It is used again when its    *)
(* size is the target's, and written again otherwise: this is all that     *)
(* tells a complete patch file from one whose writing was cut short.  It   *)
(* does not tell one selection of functions from another: who changes the  *)
(* selection has to delete the patch file as well (how_to_j.txt:129).  Who *)
(* changes the target need not.                                            *)
(*                                                                         *)
(* A file is its program, the NIDs killed in it and the size written.      *)
(***************************************************************************)
EXTENDS Integers

CONSTANTS
    Targets, Funcs,
    Iso,            \* the targets inside an ISO image
    Imports,        \* the functions each target imports
    Size,           \* the size of each target
    NoFile,
    ImageHead,      \* what an ISO image begins with: no program
    MaxFaults       \* bound on failed calls and power cuts

ASSUME BootAssumption ==
    /\ Iso \subseteq Targets
    /\ Imports \in [Targets -> SUBSET Funcs]
    /\ Size \in [Targets -> Nat \ {0}]
    /\ MaxFaults \in Nat
    /\ ImageHead \notin Targets
    /\ NoFile \notin [of : Targets \cup {ImageHead}, size : Nat, killed : SUBSET Funcs]

VARIABLES
    target, sel,    \* cfg_target_path and the functions of mode M
    patch,          \* the patch file
    pc,
    file_size,      \* what pre_patch returns
    szBuffer,       \* the program in memory, while the patch file is made
    image,          \* the program loaded
    hooked,         \* the functions hooked in it
    ignored,        \* what failed in this start without being noticed
    faults

vars == <<target, sel, patch, pc, file_size, szBuffer, image, hooked, ignored, faults>>

(* The size of the target, or of the file found inside its ISO image.      *)
get_file_size == Size[target]

File(t, n, killed) == [of |-> t, size |-> n, killed |-> killed]
Original == File(target, get_file_size, {})

Init ==
    /\ target \in Targets /\ sel \in SUBSET Funcs
    /\ patch = NoFile /\ pc = "off" /\ file_size = 0
    /\ szBuffer = NoFile /\ image = NoFile /\ hooked = {}
    /\ ignored = {} /\ faults = 0

Goto(from, to) == pc = from /\ pc' = to
Config == <<target, sel>>
Loads == <<image, hooked, ignored>>
Memory == <<szBuffer, Loads>>

(* A call that fails without reason, as long as the bound allows it.       *)
Fault == faults < MaxFaults /\ faults' = faults + 1

-----------------------------------------------------------------------------
(* The user chooses another target or other functions; with other          *)
(* functions goes the patch file (mode S, which the target need not be     *)
(* copied for, is not modelled).                                           *)
Select ==
    /\ pc = "off"
    /\ target' \in Targets /\ sel' \in SUBSET Funcs
    /\ patch' \in {patch, NoFile} /\ (sel' # sel => patch' = NoFile)
    /\ UNCHANGED <<pc, file_size, Memory, faults>>

Start ==
    /\ Goto("off", "sizes")
    /\ UNCHANGED <<Config, patch, file_size, Memory, faults>>

-----------------------------------------------------------------------------
(* pre_patch and its part of main: cfg_patch_path is the target itself if  *)
(* it need not be copied.                                                  *)
Copied == sel # {} \/ target \in Iso

Direct ==
    /\ Goto("sizes", "module")
    /\ ~Copied
    /\ file_size' = get_file_size
    /\ UNCHANGED <<Config, patch, Memory, faults>>

NoTarget ==
    /\ Goto("sizes", "exit")
    /\ ~Copied /\ Fault
    /\ UNCHANGED <<Config, patch, file_size, Memory>>

\* Variant: any patch file is good enough.
Complete_Any == patch # NoFile

Complete == patch # NoFile /\ patch.size = get_file_size

Bypass ==
    /\ Goto("sizes", "module")
    /\ Copied /\ Complete
    /\ file_size' = patch.size
    /\ UNCHANGED <<Config, patch, Memory, faults>>

(* The patch file is still open (main.c:48), and whether it can be removed *)
(* then is not checked.                                                    *)
Rebuild ==
    /\ Goto("sizes", "load")
    /\ Copied /\ (Complete => Fault) /\ (~Complete => UNCHANGED faults)
    /\ patch' \in {patch, NoFile}
    /\ UNCHANGED <<Config, file_size, Memory>>

LoadFile ==
    /\ Goto("load", "patch")
    /\ szBuffer' = Original /\ file_size' = get_file_size
    /\ UNCHANGED <<Config, patch, Loads, faults>>

(* Without functions to hook, pre_patch goes on to write an empty file.    *)
LoadFileFails ==
    /\ Goto("load", IF sel = {} THEN "create" ELSE "exit")
    /\ Fault /\ file_size' = 0 /\ szBuffer' = NoFile
    /\ UNCHANGED <<Config, patch, Loads>>

(* The file is not found in the image when load_file searches it again: as *)
(* many bytes are read from the head of the image instead.  Only with      *)
(* functions to hook is the result looked at, and refused (elf_loadElf).   *)
LoadHead ==
    /\ Goto("load", IF sel = {} THEN "create" ELSE "exit")
    /\ target \in Iso /\ Fault
    /\ szBuffer' = IF sel = {} THEN File(ImageHead, get_file_size, {}) ELSE NoFile
    /\ file_size' = IF sel = {} THEN get_file_size ELSE 0
    /\ UNCHANGED <<Config, patch, Loads>>

\* Variant: the functions left to the system are killed as well.
KillNIDs_All(f) == [f EXCEPT !.killed = Imports[f.of]]

(* psp_patch_NID, for the functions that are imported and of mode M.       *)
KillNIDs(f) == [f EXCEPT !.killed = Imports[f.of] \cap sel]

\* Variant: the program is written as it was read.
PatchProgram_Skipped ==
    /\ Goto("patch", "create")
    /\ UNCHANGED <<Config, patch, file_size, Memory, faults>>

PatchProgram ==
    /\ Goto("patch", "create")
    /\ szBuffer' = IF sel = {} THEN szBuffer ELSE KillNIDs(szBuffer)
    /\ UNCHANGED <<Config, patch, file_size, Loads, faults>>

Purged == szBuffer' = NoFile /\ UNCHANGED <<Config, file_size, image, hooked>>

(* What is written is not compared with what was to be written.            *)
WritePatch ==
    /\ Goto("create", IF file_size = 0 THEN "exit" ELSE "module")
    /\ IF szBuffer = NoFile
         THEN patch' = File(target, 0, {}) /\ UNCHANGED faults
         ELSE \E n \in 0 .. file_size :
                /\ patch' = [szBuffer EXCEPT !.size = n]
                /\ IF n < file_size THEN Fault ELSE UNCHANGED faults
    /\ Purged /\ UNCHANGED ignored

(* The file cannot be opened for writing: what is there, if it could not   *)
(* be removed either, is loaded.                                           *)
CreateFails ==
    /\ Goto("create", IF file_size = 0 THEN "exit" ELSE "module")
    /\ Fault /\ UNCHANGED patch
    /\ ignored' = ignored \cup {"create"}
    /\ Purged

-----------------------------------------------------------------------------
(* sceKernelLoadModule refuses a file that is not a complete program.      *)
Loaded == IF Copied THEN patch ELSE Original

Loadable == Loaded # NoFile /\ Loaded.of \in Targets /\ Loaded.size = Size[Loaded.of]

LoadModule ==
    /\ Goto("module", "hook")
    /\ Loadable /\ image' = Loaded
    /\ UNCHANGED <<Config, patch, file_size, szBuffer, hooked, ignored, faults>>

LoadModuleFails ==
    /\ Goto("module", "exit")
    /\ Loadable => Fault
    /\ ~Loadable => UNCHANGED faults
    /\ UNCHANGED <<Config, patch, file_size, Memory>>

(* hook_module_one finds a function by the mark in its entry: the loader   *)
(* has overwritten the entry of a function it has linked.  It searches     *)
(* file_size bytes; which marks a shorter search meets is left open.       *)
HookModule ==
    /\ Goto("hook", "run")
    /\ hooked' \in SUBSET (sel \cap image.killed)
    /\ file_size >= image.size => hooked' = sel \cap image.killed
    /\ UNCHANGED <<Config, patch, file_size, szBuffer, image, ignored, faults>>

(* func_hook_start creates no thread and returns before it hooks anything; *)
(* main takes its 0 for a number of hooks and starts the program.          *)
ThreadFails ==
    /\ Goto("hook", "run")
    /\ Fault /\ ignored' = ignored \cup {"thread"}
    /\ UNCHANGED <<Config, patch, file_size, szBuffer, image, hooked>>

(* The target ends, or the user leaves after an error, or power is cut at  *)
(* any other moment, in the middle of a write too (WritePatch, then Off).  *)
Off ==
    /\ pc # "off" /\ pc' = "off"
    /\ IF pc \in {"run", "exit"} THEN UNCHANGED faults ELSE Fault
    /\ file_size' = 0 /\ szBuffer' = NoFile /\ image' = NoFile /\ hooked' = {}
    /\ ignored' = {}
    /\ UNCHANGED <<Config, patch>>

Boot ==
    \/ Direct \/ NoTarget \/ Bypass \/ Rebuild \/ LoadFile \/ LoadFileFails \/ LoadHead
    \/ PatchProgram \/ WritePatch \/ CreateFails \/ LoadModule \/ LoadModuleFails \/ HookModule \/ ThreadFails

Next == Select \/ Start \/ Boot \/ Off

(* The program goes on by itself; the user need do nothing.                *)
Spec == Init /\ [][Next]_vars /\ WF_vars(Boot)

-----------------------------------------------------------------------------
(* Every variable has the type the code gives it.                          *)
Files == [of : Targets \cup {ImageHead}, size : Nat, killed : SUBSET Funcs]

TypeOK ==
    /\ target \in Targets /\ sel \in SUBSET Funcs
    /\ patch \in Files \cup {NoFile}
    /\ pc \in {"off", "sizes", "load", "patch", "create", "module", "hook", "run", "exit"}
    /\ file_size \in Nat
    /\ szBuffer \in Files \cup {NoFile} /\ image \in Files \cup {NoFile}
    /\ hooked \in SUBSET Funcs /\ ignored \subseteq {"create", "thread"}
    /\ faults \in 0 .. MaxFaults

(* Whatever failed or was cut short while it was written, a patch file as  *)
(* large as the target is the target with exactly the selected functions   *)
(* killed: the size is enough to tell (main.c:50-57) between targets of    *)
(* different sizes.  There are two exceptions.  Of a target in an image    *)
(* that is copied with no functions to hook, a search that fails can leave *)
(* a file of the right size that is none.  And the copy of another target  *)
(* may have been cut short at just this size before the target changed.    *)
HeadOfImage == target \in Iso /\ sel = {} /\ patch.of = ImageHead
CutElsewhere == patch.of \in Targets \ {target} /\ patch.size < Size[patch.of]

CompleteIsRight ==
    Copied /\ Complete =>
        \/ patch = File(target, Size[target], sel \cap Imports[target])
        \/ HeadOfImage \/ CutElsewhere

(* The program that runs is the one selected, unless the patch file, which *)
(* was another's, could not be written; the functions killed in it are     *)
(* those selected; and these are the ones hooked, unless the kernel thread *)
(* could not be created (func_hook.c:1366; then a killed function returns  *)
(* nothing).  Every other failure is noticed before the program starts.    *)
RunsAsSelected ==
    pc = "run" =>
        /\ image.of # target => "create" \in ignored
        /\ image.of = target => image.killed = sel \cap Imports[target]
        /\ image.of = target /\ "thread" \notin ignored => hooked = image.killed

(* Failures and power cuts leave nothing behind that stops the target from *)
(* being started, but for a patch file of its size that is not its copy:   *)
(* once they are over, a start ends with the target at work.               *)
StartsAgain ==
    pc = "sizes" /\ faults = MaxFaults /\ ~(Complete /\ patch.of # target) ~> pc = "run"
=============================================================================
