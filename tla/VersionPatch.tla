---------------------------- MODULE VersionPatch ----------------------------
(***************************************************************************)
(* The version patches (kpatch.c, patch_devkit_version, their callers).    *)
(* A program made for a newer firmware may ask what firmware it runs on,   *)
(* and asks for its libraries by a version the running one does not have;  *)
(* IMPORT_VER=old,new has every import table of version old rewritten: in  *)
(* the program when it is loaded (main.c), in each module right after      *)
(* sceKernelLoadModule, on the kernel thread (import_ver_hack).  The       *)
(* modules' places are not known, so the memory is searched: the kernel's  *)
(* first, then the last 2 MB of the user's, then                           *)
(* either 128 KB below them or all the rest.                               *)
(*                                                                         *)
(* Abstraction: memory is a function of word addresses.  Of a word, ver is *)
(* its low byte, and table says that it is the second word of an import    *)
(* table: the word before it points to a name, at most 64 KB ahead, and    *)
(* the word after it has the type of one.                                  *)
(***************************************************************************)
EXTENDS Integers, Sequences, FiniteSets

CONSTANTS
    KmemTop, KmemSize,      \* PSP_KMEM_TOP, PSP_KMEM_SIZE
    UmemTop, UmemEnd,       \* PSP_UMEM_TOP, PSP_UMEM_END
    FirstBottom,            \* FIRST_BOTTOM_SEARCH
    AddedBottom,            \* ADDED_BOTTOM_SEARCH
    Vers,                   \* the low bytes of words
    hack_ver, set_ver,      \* cfg_import_hack_ver and cfg_import_set_ver
    Resident,               \* what the memory may hold at the start
    Images,                 \* what a file puts into memory: sequences of words
    FreePtr,                \* where the system loads the program
    MaxModules,             \* bound: how many files are loaded
    devkit_ver,             \* cfg_devkit_ver, or 0
    Firmwares,              \* what sceKernelDevkitVersion may answer
    kernel_ver,             \* cfg_kernel_ver, or 0
    Drivers                 \* the modules of the kernel patch_kernel_version recognises

Words == [ver : Vers, table : BOOLEAN]
Kmem == KmemTop..(KmemTop + KmemSize - 1)
Umem == UmemTop..(UmemEnd - 1)
Memory == Kmem \cup Umem

(* An import table of the version that is to be replaced.                  *)
Target(w) == w.table /\ w.ver = hack_ver

(* The version to be replaced is one the firmware does not have, so none   *)
(* of the modules that are there from the start asks for it.               *)
ASSUME PatchAssumption ==
    /\ KmemTop \in Nat /\ KmemSize \in Nat \ {0}
    /\ UmemTop \in Nat /\ UmemEnd \in Nat
    /\ FirstBottom \in Nat \ {0} /\ AddedBottom \in Nat \ {0}
    /\ UmemTop + AddedBottom + FirstBottom < UmemEnd
    /\ Kmem \cap Umem = {}
    /\ hack_ver \in Vers /\ set_ver \in Vers /\ hack_ver \notin {0, set_ver}
    /\ Resident \subseteq [Memory -> {w \in Words : ~Target(w)}]
    /\ Images \subseteq Seq(Words) \ {<<>>} /\ FreePtr \in Nat
    /\ devkit_ver \in Nat /\ Firmwares \subseteq Nat /\ kernel_ver \in Nat

VARIABLES
    mem,
    filesize,       \* the words of the program
    program,        \* the program, a function from the addresses it is loaded at
    module,         \* the file loaded last, the program included
    modules,        \* all that were loaded
    devkit,         \* what sceKernelDevkitVersion answers, whether its code has the form
                    \* that patch_devkit_version knows, and whether the system call
                    \* table is known (main may have cleared cfg_sysvec_addr)
    driver_ver,     \* the versions of the kernel's own modules
    patch_pc        \* "rest", or where main or the kernel thread is

patchVars == <<mem, filesize, program, module, modules, devkit, driver_ver, patch_pc>>

NoModule == [a \in {} |-> 0]

PatchInit ==
    /\ patch_pc = "boot" /\ mem \in Resident
    /\ filesize = 0 /\ program = NoModule /\ module = NoModule /\ modules = {}
    /\ devkit \in [ver : Firmwares, known : BOOLEAN, table : BOOLEAN]
    /\ driver_ver \in [Drivers -> 0..(kernel_ver + 1)]

-----------------------------------------------------------------------------
(* The words psp_lib_patch compares: not the first one, whose name would   *)
(* be in front of the area, nor those that do not fill 16 bytes.           *)
Scanned(top, size) ==
    LET words == IF size = 0 THEN UmemEnd - top ELSE size
    IN (top + 1)..(top + 4 * (words \div 4) - 1)

\* Variant: the old version is not masked out.
Patched_Or(w) == IF Target(w) THEN [w EXCEPT !.ver = hack_ver + set_ver] ELSE w

Patched(w) == IF Target(w) THEN [w EXCEPT !.ver = set_ver] ELSE w

psp_lib_patch(area) ==
    mem' = [a \in Memory |-> IF a \in area THEN Patched(mem[a]) ELSE mem[a]]

(* Its result is not 0.                                                    *)
AnyTarget(area) == \E a \in area \cap Memory : Target(mem[a])

KernelArea == Scanned(KmemTop, KmemSize)
BottomArea == Scanned(UmemEnd - FirstBottom, 0)
AddedArea == Scanned(UmemEnd - FirstBottom - AddedBottom, AddedBottom)
HeadArea == Scanned(UmemTop, UmemEnd - UmemTop - FirstBottom)
ProgramArea == Scanned(FreePtr, filesize)

-----------------------------------------------------------------------------
(* The system puts a file into memory that is free.                        *)
Load(image, base) ==
    LET place == base..(base + Len(image) - 1) IN
    /\ place \subseteq Kmem \/ place \subseteq Umem
    /\ \A m \in modules : DOMAIN m \cap place = {}
    /\ Cardinality(modules) < MaxModules
    /\ module' = [a \in place |-> image[a - base + 1]]
    /\ modules' = modules \cup {module'}
    /\ mem' = [a \in Memory |-> IF a \in place THEN module'[a] ELSE mem[a]]

(* main, from sceKernelLoadModule to the last of the patches.  A program   *)
(* has more than 16 bytes.                                                 *)
LoadProgram(image) ==
    /\ patch_pc = "boot" /\ patch_pc' = "devkit"
    /\ Len(image) > 4
    /\ Load(image, FreePtr) /\ program' = module' /\ filesize' = Len(image)
    /\ UNCHANGED <<devkit, driver_ver>>

patch_devkit_version ==
    /\ patch_pc = "devkit" /\ patch_pc' = "drivers"
    /\ devkit' = IF devkit_ver # 0 /\ devkit.table /\ devkit.known
                 THEN [devkit EXCEPT !.ver = devkit_ver] ELSE devkit
    /\ UNCHANGED <<mem, filesize, program, module, modules, driver_ver>>

PatchDrivers ==
    /\ patch_pc = "drivers" /\ patch_pc' = "program"
    /\ driver_ver' = [d \in Drivers |->
                        IF driver_ver[d] < kernel_ver THEN kernel_ver ELSE driver_ver[d]]
    /\ UNCHANGED <<mem, filesize, program, module, modules, devkit>>

PatchProgram ==
    /\ patch_pc = "program" /\ patch_pc' = "idle"
    /\ psp_lib_patch(ProgramArea)
    /\ UNCHANGED <<filesize, program, module, modules, devkit, driver_ver>>

(* CMD_LOAD_MODULE and CMD_LOAD_MODULE_BYID on the kernel thread, and then *)
(* import_ver_hack.                                                        *)
LoadModule(image, base) ==
    /\ patch_pc = "idle" /\ patch_pc' = "kernel"
    /\ Load(image, base)
    /\ UNCHANGED <<filesize, program, devkit, driver_ver>>

Search(area, from, to) ==
    /\ patch_pc = from /\ patch_pc' = to
    /\ psp_lib_patch(area)
    /\ UNCHANGED <<filesize, program, module, modules, devkit, driver_ver>>

HackKernel == Search(KernelArea, "kernel", IF AnyTarget(KernelArea) THEN "idle" ELSE "bottom")

\* Variant: the two searches that may follow are swapped.
HackBottom_Swapped ==
    Search(BottomArea, "bottom", IF AnyTarget(BottomArea) THEN "head" ELSE "added")

HackBottom == Search(BottomArea, "bottom", IF AnyTarget(BottomArea) THEN "added" ELSE "head")

HackAdded == Search(AddedArea, "added", "idle")

HackHead == Search(HeadArea, "head", "idle")

PatchNext ==
    \/ \E i \in Images : LoadProgram(i)
    \/ patch_devkit_version \/ PatchDrivers \/ PatchProgram
    \/ \E i \in Images, base \in Memory : LoadModule(i, base)
    \/ HackKernel \/ HackBottom \/ HackAdded \/ HackHead

PatchSpec == PatchInit /\ [][PatchNext]_patchVars

-----------------------------------------------------------------------------
(* Every variable has its type; what is loaded lies in memory, each file   *)
(* in a place of its own.                                                  *)
PatchPlaces == {"rest", "boot", "devkit", "drivers", "program", "idle", "kernel", "bottom", "added", "head"}

Files == modules \cup {program, module}

PatchTypeOK ==
    /\ mem \in [Memory -> Words]
    /\ \A m \in Files : m \in [DOMAIN m -> Words] /\ (DOMAIN m \subseteq Kmem \/ DOMAIN m \subseteq Umem)
    /\ \A m, n \in modules : m # n => DOMAIN m \cap DOMAIN n = {}
    /\ patch_pc \notin {"rest", "boot"} => {program, module} \subseteq modules
    /\ filesize \in Nat /\ devkit \in [ver : Nat, known : BOOLEAN, table : BOOLEAN] /\ driver_ver \in [Drivers -> Nat]
    /\ patch_pc \in PatchPlaces

Targets(m) == {a \in DOMAIN m : Target(m[a])}

(* Where the searches can find the tables of a file: the four areas do not *)
(* cover the memory, and which of them are searched depends on what the    *)
(* ones before held.                                                       *)
InReach(m) ==
    IF m = program THEN Targets(m) \subseteq ProgramArea
    ELSE IF DOMAIN m \subseteq Kmem THEN Targets(m) \subseteq KernelArea
    ELSE IF Targets(m) \cap BottomArea = {} THEN Targets(m) \subseteq HeadArea
    ELSE Targets(m) \subseteq BottomArea \cup AddedArea

(* Provided that the program is within reach, and whatever else was        *)
(* loaded, and wherever: when no load is under way, the files within reach *)
(* are in memory with all their tables of the old version rewritten, and   *)
(* with nothing else changed; no module loaded before, even one out of     *)
(* reach, has ended the search for another one too early.  A program with  *)
(* a table behind the last whole 16 bytes of it can do that: the table is  *)
(* left for a later search to find, which then looks no further.           *)
(* Before that the firmware has the version asked for, if the system call  *)
(* table is known and its code has the known form, and each of its drivers *)
(* has at least the one asked for.                                         *)
AllPatched ==
    patch_pc = "idle" =>
        /\ devkit_ver # 0 /\ devkit.table /\ devkit.known => devkit.ver = devkit_ver
        /\ \A d \in Drivers : driver_ver[d] >= kernel_ver
        /\ InReach(program) =>
              \A m \in modules : InReach(m) => \A a \in DOMAIN m :
                 mem[a] = IF Target(m[a]) THEN [m[a] EXCEPT !.ver = set_ver] ELSE m[a]
=============================================================================
