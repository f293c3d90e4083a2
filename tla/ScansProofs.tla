---------------------------- MODULE ScansProofs ----------------------------
(***************************************************************************)
(* Theorems about the three searches of the run Scans.  About VersionPatch,*)
(* for every layout of the memory, every sequence of loads and any number  *)
(* of them.  About ElfPatch, for every program, list of functions and      *)
(* choice of hooks.  About Iso9660, for every image, every path and every  *)
(* size of a sector: the search is right wherever the directories are tidy.*)
(***************************************************************************)
EXTENDS VersionPatch, ElfPatch, Iso9660, FiniteSetTheorems, TLAPS

-----------------------------------------------------------------------------
(* The areas that are always searched lie in the kernel's and the user's   *)
(* part of the memory.                                                     *)
LEMMA Quarters == ASSUME NEW n \in Nat PROVE 4 * (n \div 4) <= n /\ n \div 4 \in Nat
  BY SMT

LEMMA Areas == KernelArea \subseteq Kmem /\ BottomArea \subseteq Umem
  <1> USE PatchAssumption
  <1>1. KernelArea \subseteq Kmem
    BY Quarters DEF KernelArea, Scanned, Kmem
  <1>2. BottomArea \subseteq Umem
    <2>1. UmemEnd - (UmemEnd - FirstBottom) = FirstBottom
      OBVIOUS
    <2>2. BottomArea = (UmemEnd - FirstBottom + 1)
                          .. (UmemEnd - FirstBottom + 4 * (FirstBottom \div 4) - 1)
      BY <2>1 DEF BottomArea, Scanned
    <2> QED
      BY <2>2, Quarters DEF Umem
  <1> QED
    BY <1>1, <1>2

(* A word that was rewritten is not rewritten again.                       *)
LEMMA PatchedWord ==
    ASSUME NEW w \in Words
    PROVE  /\ Patched(w) \in Words /\ ~Target(Patched(w)) /\ Patched(Patched(w)) = Patched(w)
           /\ ~Target(w) => Patched(w) = w
           /\ Patched(w) = IF Target(w) THEN [w EXCEPT !.ver = set_ver] ELSE w
  BY PatchAssumption DEF Patched, Target, Words

(* What a load does.                                                       *)
WellPlaced(m) ==
    m \in [DOMAIN m -> Words] /\ (DOMAIN m \subseteq Kmem \/ DOMAIN m \subseteq Umem)

LEMMA LoadFacts ==
    ASSUME mem \in [Memory -> Words], \A m \in modules : WellPlaced(m),
           NEW image \in Images, NEW top \in Int, Load(image, top)
    PROVE  /\ WellPlaced(module') /\ DOMAIN module' # {} /\ module' \notin modules
           /\ \A m \in modules : DOMAIN m \cap DOMAIN module' = {}
           /\ modules' = modules \cup {module'}
           /\ mem' \in [Memory -> Words]
           /\ \A a \in DOMAIN module' : mem'[a] = module'[a]
           /\ \A a \in Memory \ DOMAIN module' : mem'[a] = mem[a]
  <1> DEFINE place == top .. (top + Len(image) - 1)
  <1>1. image \in Seq(Words) /\ Len(image) \in Nat \ {0}
    BY PatchAssumption
  <1>2. top \in place /\ \A a \in place : a - top + 1 \in 1 .. Len(image)
    BY <1>1
  <1>3. \A a \in place : image[a - top + 1] \in Words
    BY <1>1, <1>2
  <1>4. module' = [a \in place |-> image[a - top + 1]]
    BY DEF Load
  <1>5. module' \in [place -> Words] /\ DOMAIN module' = place
    BY <1>3, <1>4
  <1>6. /\ place \subseteq Kmem \/ place \subseteq Umem
        /\ \A m \in modules : DOMAIN m \cap place = {}
        /\ modules' = modules \cup {module'}
        /\ mem' = [a \in Memory |-> IF a \in place THEN module'[a] ELSE mem[a]]
    BY DEF Load
  <1> HIDE DEF place
  <1>7. module' \notin modules
    BY <1>2, <1>5, <1>6
  <1> QED
    BY <1>2, <1>5, <1>6, <1>7 DEF WellPlaced, Memory

LEMMA PatchFacts ==
    ASSUME mem \in [Memory -> Words], NEW area, psp_lib_patch(area)
    PROVE  /\ mem' \in [Memory -> Words]
           /\ \A a \in Memory : mem'[a] = IF a \in area THEN Patched(mem[a]) ELSE mem[a]
           /\ \A a \in Memory \cap area : ~Target(mem'[a])
           /\ \A a \in Memory : Target(mem'[a]) => Target(mem[a])
  BY PatchedWord DEF psp_lib_patch

-----------------------------------------------------------------------------
LEMMA PatchInitType == PatchInit => PatchTypeOK
  BY PatchAssumption
     DEF PatchInit, PatchTypeOK, Files, NoModule, PatchPlaces, Kmem, Umem

(* The program is loaded first and is the only file until it is patched.   *)
FirstInv ==
    /\ patch_pc # "rest"
    /\ patch_pc = "boot" => modules = {}

LEMMA PatchNextType ==
    ASSUME PatchTypeOK, FirstInv, PatchNext
    PROVE  PatchTypeOK' /\ FirstInv'
  <1>0. mem \in [Memory -> Words] /\ (\A m \in modules : WellPlaced(m))
        /\ \A m \in Files : WellPlaced(m)
    BY DEF PatchTypeOK, Files, WellPlaced
  <1>1. ASSUME NEW i \in Images, LoadProgram(i) PROVE PatchTypeOK' /\ FirstInv'
    <2>1. Load(i, FreePtr) /\ program' = module' /\ filesize' = Len(i) /\ patch_pc' = "devkit"
          /\ UNCHANGED <<devkit, driver_ver>>
      BY <1>1 DEF LoadProgram
    <2>2. FreePtr \in Int /\ Len(i) \in Nat
      BY PatchAssumption
    <2>3. /\ WellPlaced(module') /\ modules' = modules \cup {module'}
          /\ \A m \in modules : DOMAIN m \cap DOMAIN module' = {}
          /\ mem' \in [Memory -> Words]
      BY <1>0, <2>1, <2>2, LoadFacts
    <2> QED
      BY <1>0, <2>1, <2>2, <2>3 DEF PatchTypeOK, FirstInv, Files, WellPlaced, PatchPlaces
  <1>2. CASE patch_devkit_version
    BY <1>2, PatchAssumption DEF patch_devkit_version, PatchTypeOK, FirstInv, Files, PatchPlaces
  <1>3. CASE PatchDrivers
    BY <1>3, PatchAssumption DEF PatchDrivers, PatchTypeOK, FirstInv, Files, PatchPlaces
  <1>4. ASSUME NEW area, psp_lib_patch(area), patch_pc' \in PatchPlaces \ {"rest", "boot"},
               patch_pc \notin {"rest", "boot"},
               UNCHANGED <<filesize, program, module, modules, devkit, driver_ver>>
        PROVE  PatchTypeOK' /\ FirstInv'
    BY <1>0, <1>4, PatchFacts DEF PatchTypeOK, FirstInv, Files
  <1>5. CASE PatchProgram
    BY <1>4, <1>5 DEF PatchProgram, PatchPlaces
  <1>6. ASSUME NEW i \in Images, NEW top \in Memory, LoadModule(i, top) PROVE PatchTypeOK' /\ FirstInv'
    <2>1. Load(i, top) /\ patch_pc = "idle" /\ patch_pc' = "kernel"
          /\ UNCHANGED <<filesize, program, devkit, driver_ver>>
      BY <1>6 DEF LoadModule
    <2>2. top \in Int
      BY PatchAssumption DEF Memory, Kmem, Umem
    <2>3. /\ WellPlaced(module') /\ modules' = modules \cup {module'}
          /\ \A m \in modules : DOMAIN m \cap DOMAIN module' = {}
          /\ mem' \in [Memory -> Words]
      BY <1>0, <2>1, <2>2, LoadFacts
    <2> QED
      BY <1>0, <2>1, <2>3 DEF PatchTypeOK, FirstInv, Files, WellPlaced, PatchPlaces
  <1>7. CASE HackKernel \/ HackBottom \/ HackAdded \/ HackHead
    <2>1. ASSUME NEW area, NEW from, NEW to, Search(area, from, to),
                 {from, to} \subseteq PatchPlaces \ {"rest", "boot"}
          PROVE  PatchTypeOK' /\ FirstInv'
      BY <1>4, <2>1 DEF Search
    <2> QED
      BY <1>7, <2>1 DEF HackKernel, HackBottom, HackAdded, HackHead, PatchPlaces
  <1> QED
    BY <1>1, <1>2, <1>3, <1>5, <1>6, <1>7 DEF PatchNext

LEMMA PatchTypeInvariant == PatchSpec => [](PatchTypeOK /\ FirstInv)
  <1>1. PatchInit => FirstInv
    BY DEF PatchInit, FirstInv
  <1>2. PatchTypeOK /\ FirstInv /\ [PatchNext]_patchVars => (PatchTypeOK /\ FirstInv)'
    <2>1. ASSUME PatchTypeOK, FirstInv, UNCHANGED patchVars PROVE (PatchTypeOK /\ FirstInv)'
      BY <2>1 DEF PatchTypeOK, FirstInv, Files, patchVars
    <2> QED
      BY <2>1, PatchNextType
  <1> QED
    BY <1>1, <1>2, PatchInitType, PTL DEF PatchSpec

(* Every variable keeps its type, and every file that was loaded has a     *)
(* place of its own in one of the two parts of the memory.                 *)
THEOREM PatchTypeCorrect == PatchSpec => []PatchTypeOK
  BY PatchTypeInvariant, PTL

-----------------------------------------------------------------------------
(* The firmware's own versions.                                            *)
FirmwareInv ==
    /\ patch_pc \notin {"rest", "boot", "devkit"} =>
          (devkit_ver # 0 /\ devkit.table /\ devkit.known => devkit.ver = devkit_ver)
    /\ patch_pc \notin {"rest", "boot", "devkit", "drivers"} =>
          \A d \in Drivers : driver_ver[d] >= kernel_ver

LEMMA FirmwareStep ==
    ASSUME PatchTypeOK, FirstInv, FirmwareInv, [PatchNext]_patchVars
    PROVE  FirmwareInv'
  <1> USE DEF FirmwareInv, FirstInv
  <1>1. ASSUME NEW i \in Images, LoadProgram(i) PROVE FirmwareInv'
    BY <1>1 DEF LoadProgram
  <1>2. CASE patch_devkit_version
    BY <1>2 DEF patch_devkit_version, PatchTypeOK
  <1>3. CASE PatchDrivers
    BY <1>3, PatchAssumption DEF PatchDrivers, PatchTypeOK
  <1>4. CASE PatchProgram
    BY <1>4 DEF PatchProgram
  <1>5. ASSUME NEW i \in Images, NEW top \in Memory, LoadModule(i, top) PROVE FirmwareInv'
    BY <1>5 DEF LoadModule
  <1>6. CASE HackKernel \/ HackBottom \/ HackAdded \/ HackHead
    BY <1>6 DEF HackKernel, HackBottom, HackAdded, HackHead, Search
  <1>7. CASE UNCHANGED patchVars
    BY <1>7 DEF patchVars
  <1> QED
    BY <1>1, <1>2, <1>3, <1>4, <1>5, <1>6, <1>7 DEF PatchNext

-----------------------------------------------------------------------------
(* The words of the files.  Every search cleans the areas it visits, so    *)
(* when a module is loaded only its own tables can be found in the areas   *)
(* that are always searched, and what is found tells where it lies.        *)
Booting == {"devkit", "drivers", "program"}
Hacking == {"kernel", "bottom", "added", "head"}
TargetsIn(area) == {a \in Memory \cap area : Target(mem[a])}

Untouched(m) == \A a \in DOMAIN m : mem[a] = m[a]
Rewritten(m) == \A a \in DOMAIN m : mem[a] = Patched(m[a])

BootWords ==
    /\ patch_pc = "boot" => TargetsIn(Memory) = {}
    /\ patch_pc \in Booting =>
          modules = {program} /\ Untouched(program) /\ TargetsIn(Memory) \subseteq DOMAIN program

DoneWords ==
    LET done == CASE patch_pc = "idle" -> modules
                  [] patch_pc \in Hacking -> modules \ {module}
                  [] OTHER -> {}
    IN  \A m \in done : InReach(m) => Rewritten(m)

SearchWords ==
    /\ patch_pc \in Hacking => module \in modules \ {program}
    /\ patch_pc = "kernel" =>
          TargetsIn(KernelArea \cup BottomArea) \subseteq DOMAIN module
    /\ patch_pc = "bottom" => TargetsIn(BottomArea) \subseteq DOMAIN module
    /\ patch_pc \in {"kernel", "bottom", "head"} => Untouched(module)
    /\ patch_pc \in {"idle", "bottom", "added", "head"} => TargetsIn(KernelArea) = {}
    /\ patch_pc \in {"idle", "added", "head"} => TargetsIn(BottomArea) = {}
    /\ patch_pc = "added" =>
          /\ Targets(module) \cap BottomArea # {}
          /\ \A a \in DOMAIN module :
                mem[a] = IF a \in BottomArea THEN Patched(module[a]) ELSE module[a]
    /\ patch_pc \in {"bottom", "head"} => Targets(module) \cap KernelArea = {}
    /\ patch_pc = "head" => Targets(module) \cap BottomArea = {}

WordsInv == BootWords /\ (InReach(program) => DoneWords /\ SearchWords)

LEMMA LoadProgramWords ==
    ASSUME PatchTypeOK, FirstInv, WordsInv, NEW i \in Images, LoadProgram(i)
    PROVE  WordsInv'
  <1>1. Load(i, FreePtr) /\ program' = module' /\ patch_pc = "boot" /\ patch_pc' = "devkit"
    BY DEF LoadProgram
  <1>2. /\ mem \in [Memory -> Words] /\ modules = {} /\ FreePtr \in Int
        /\ \A m \in modules : WellPlaced(m)
    BY <1>1, PatchAssumption DEF PatchTypeOK, FirstInv
  <1>3. /\ modules' = {program'}
        /\ \A a \in DOMAIN program' : mem'[a] = program'[a]
        /\ \A a \in Memory \ DOMAIN program' : mem'[a] = mem[a]
    BY <1>1, <1>2, LoadFacts
  <1> QED
    BY <1>1, <1>3
       DEF WordsInv, BootWords, DoneWords, SearchWords, TargetsIn, Booting, Hacking, Untouched

LEMMA BootWordsStep ==
    ASSUME PatchTypeOK, WordsInv, patch_devkit_version \/ PatchDrivers
    PROVE  WordsInv'
  BY DEF patch_devkit_version, PatchDrivers, WordsInv, BootWords, DoneWords, SearchWords, TargetsIn,
     Booting, Hacking, Untouched

(* In memory as the program left it, all targets are the program's.        *)
LEMMA PatchProgramWords ==
    ASSUME PatchTypeOK, WordsInv, PatchProgram
    PROVE  WordsInv'
  <1>1. /\ psp_lib_patch(ProgramArea) /\ patch_pc = "program" /\ patch_pc' = "idle"
        /\ UNCHANGED <<filesize, program, module, modules>>
    BY DEF PatchProgram
  <1>2. /\ modules = {program} /\ Untouched(program) /\ TargetsIn(Memory) \subseteq DOMAIN program
        /\ mem \in [Memory -> Words] /\ WellPlaced(program)
    BY <1>1 DEF WordsInv, BootWords, Booting, PatchTypeOK, Files, WellPlaced
  <1>3. /\ \A a \in Memory : mem'[a] = IF a \in ProgramArea THEN Patched(mem[a]) ELSE mem[a]
        /\ \A a \in Memory \cap ProgramArea : ~Target(mem'[a])
        /\ \A a \in Memory : Target(mem'[a]) => Target(mem[a])
    BY <1>1, <1>2, PatchFacts
  <1>4. ASSUME InReach(program) PROVE DoneWords' /\ SearchWords'
    <2>1. Targets(program) \subseteq ProgramArea
      BY <1>4 DEF InReach
    <2>2. \A a \in DOMAIN program : /\ a \in Memory /\ mem[a] = program[a] /\ program[a] \in Words
                                    /\ a \notin ProgramArea => ~Target(program[a])
      BY <1>2, <2>1 DEF Untouched, WellPlaced, Memory, Targets
    <2>3. \A a \in DOMAIN program : mem'[a] = Patched(program[a])
      <3> SUFFICES ASSUME NEW a \in DOMAIN program PROVE mem'[a] = Patched(program[a])
        OBVIOUS
      <3>1. program[a] \in Words /\ a \in Memory /\ mem[a] = program[a]
        BY <2>2
      <3>2. ~Target(program[a]) => Patched(program[a]) = program[a]
        BY <3>1, PatchedWord
      <3> QED
        BY <1>3, <2>2, <3>1, <3>2
    <2>4. DoneWords'
      BY <1>1, <1>2, <2>3 DEF DoneWords, Rewritten, Hacking
    <2>5. \A a \in Memory : ~Target(mem'[a])
      <3> SUFFICES ASSUME NEW a \in Memory, Target(mem'[a]) PROVE FALSE
        OBVIOUS
      <3>1. a \in DOMAIN program
        BY <1>2, <1>3 DEF TargetsIn
      <3>2. program[a] \in Words /\ mem'[a] = Patched(program[a])
        BY <2>2, <2>3, <3>1
      <3> QED
        BY <3>2, PatchedWord
    <2>6. SearchWords'
      BY <1>1, <2>5 DEF SearchWords, TargetsIn, Hacking
    <2> QED
      BY <2>4, <2>6
  <1>5. InReach(program)' = InReach(program)
    BY <1>1 DEF InReach, ProgramArea, Targets
  <1> QED
    BY <1>1, <1>4, <1>5 DEF WordsInv, BootWords, Booting

(* A load only changes the place of the file.                              *)
LEMMA LoadModuleWords ==
    ASSUME PatchTypeOK, WordsInv, NEW i \in Images, NEW top \in Memory, LoadModule(i, top)
    PROVE  WordsInv'
  <1>1. /\ Load(i, top) /\ patch_pc = "idle" /\ patch_pc' = "kernel"
        /\ UNCHANGED <<filesize, program>>
    BY DEF LoadModule
  <1>2. /\ mem \in [Memory -> Words] /\ top \in Int /\ (\A m \in modules : WellPlaced(m))
        /\ program \in modules
    <2>1. top \in Int
      BY PatchAssumption DEF Memory, Kmem, Umem
    <2> QED
      BY <1>1, <2>1 DEF PatchTypeOK, Files, WellPlaced
  <1>3. /\ WellPlaced(module') /\ module' \notin modules
        /\ \A m \in modules : DOMAIN m \cap DOMAIN module' = {}
        /\ modules' = modules \cup {module'}
        /\ \A a \in DOMAIN module' : mem'[a] = module'[a]
        /\ \A a \in Memory \ DOMAIN module' : mem'[a] = mem[a]
    BY <1>1, <1>2, LoadFacts
  <1>4. \A m \in modules : InReach(m)' = InReach(m)
    BY <1>1 DEF InReach, ProgramArea, Targets
  <1>5. ASSUME InReach(program) PROVE DoneWords' /\ SearchWords'
    <2>1. \A m \in modules : InReach(m) => Rewritten(m)
      BY <1>1, <1>5 DEF WordsInv, DoneWords, Hacking
    <2>2. \A m \in modules : Rewritten(m) => Rewritten(m)'
      BY <1>2, <1>3 DEF Rewritten, WellPlaced, Memory
    <2>3. DoneWords'
      BY <1>1, <1>3, <1>4, <2>1, <2>2 DEF DoneWords, Hacking
    <2>4. TargetsIn(KernelArea \cup BottomArea)' \subseteq DOMAIN module'
      BY <1>1, <1>3, <1>5 DEF WordsInv, SearchWords, TargetsIn
    <2>5. Untouched(module)'
      BY <1>3 DEF Untouched
    <2> QED
      BY <1>1, <1>2, <1>3, <2>3, <2>4, <2>5 DEF SearchWords, Hacking
  <1> QED
    BY <1>1, <1>2, <1>4, <1>5 DEF WordsInv, BootWords, Booting

-----------------------------------------------------------------------------
(* What every search leaves as it is: the files that are done, and areas   *)
(* without targets.                                                        *)
LEMMA SearchKeeps ==
    ASSUME PatchTypeOK, patch_pc \notin {"rest", "boot"}, NEW area, psp_lib_patch(area),
           UNCHANGED <<filesize, program, module, modules>>
    PROVE  /\ \A m \in modules : Rewritten(m) => Rewritten(m)'
           /\ \A m : InReach(m)' = InReach(m) /\ Targets(m)' = Targets(m)
           /\ \A s : TargetsIn(s)' \subseteq TargetsIn(s) /\ TargetsIn(s)' \cap area = {}
           /\ \A a \in DOMAIN module : /\ a \in Memory /\ module[a] \in Words
                                      /\ mem'[a] = IF a \in area THEN Patched(mem[a]) ELSE mem[a]
  <1>1. /\ mem \in [Memory -> Words] /\ (\A m \in modules : WellPlaced(m)) /\ WellPlaced(module)
    BY DEF PatchTypeOK, Files, WellPlaced
  <1>2. /\ \A a \in Memory : mem'[a] = IF a \in area THEN Patched(mem[a]) ELSE mem[a]
        /\ \A a \in Memory \cap area : ~Target(mem'[a])
        /\ \A a \in Memory : Target(mem'[a]) => Target(mem[a])
    BY <1>1, PatchFacts
  <1>3. ASSUME NEW m \in modules, Rewritten(m) PROVE Rewritten(m)'
    <2> SUFFICES ASSUME NEW a \in DOMAIN m PROVE mem'[a] = Patched(m[a])
      BY DEF Rewritten
    <2>1. a \in Memory /\ m[a] \in Words /\ mem[a] = Patched(m[a])
      BY <1>1, <1>3 DEF WellPlaced, Memory, Rewritten
    <2>2. Patched(Patched(m[a])) = Patched(m[a])
      BY <2>1, PatchedWord
    <2> QED
      BY <1>2, <2>1, <2>2
  <1>4. \A m : InReach(m)' = InReach(m) /\ Targets(m)' = Targets(m)
    BY DEF InReach, ProgramArea, Targets
  <1>5. \A s : TargetsIn(s)' \subseteq TargetsIn(s) /\ TargetsIn(s)' \cap area = {}
    BY <1>2 DEF TargetsIn
  <1>6. \A a \in DOMAIN module : a \in Memory /\ module[a] \in Words
    BY <1>1 DEF WellPlaced, Memory
  <1> QED
    BY <1>2, <1>3, <1>4, <1>5, <1>6

LEMMA HackKernelWords == ASSUME PatchTypeOK, WordsInv, InReach(program), HackKernel PROVE WordsInv'
  <1>1. /\ psp_lib_patch(KernelArea) /\ patch_pc = "kernel"
        /\ patch_pc' = IF AnyTarget(KernelArea) THEN "idle" ELSE "bottom"
        /\ UNCHANGED <<filesize, program, module, modules>>
    BY DEF HackKernel, Search
  <1>2. /\ \A m \in modules \ {module} : InReach(m) => Rewritten(m)
        /\ module \in modules \ {program} /\ Untouched(module)
        /\ TargetsIn(KernelArea \cup BottomArea) \subseteq DOMAIN module
    BY <1>1 DEF WordsInv, DoneWords, SearchWords, Hacking
  <1>3. /\ \A m \in modules : Rewritten(m) => Rewritten(m)'
        /\ \A m : InReach(m)' = InReach(m) /\ Targets(m)' = Targets(m)
        /\ \A s : TargetsIn(s)' \subseteq TargetsIn(s) /\ TargetsIn(s)' \cap KernelArea = {}
        /\ \A a \in DOMAIN module : /\ a \in Memory /\ module[a] \in Words
                                   /\ mem'[a] = IF a \in KernelArea THEN Patched(mem[a]) ELSE mem[a]
    BY <1>1, SearchKeeps
  <1>4. TargetsIn(KernelArea)' = {}
    BY <1>3 DEF TargetsIn
  <1>5. CASE ~AnyTarget(KernelArea)
    <2>1. \A a \in DOMAIN module : a \in KernelArea => ~Target(module[a])
      BY <1>2, <1>3, <1>5 DEF AnyTarget, Untouched
    <2>2. Untouched(module)'
      <3> SUFFICES ASSUME NEW a \in DOMAIN module PROVE mem'[a] = module[a]
        BY <1>1 DEF Untouched
      <3>1. mem[a] = module[a] /\ module[a] \in Words
        BY <1>2, <1>3 DEF Untouched
      <3>2. ~Target(module[a]) => Patched(module[a]) = module[a]
        BY <3>1, PatchedWord
      <3> QED
        BY <1>3, <2>1, <3>1, <3>2
    <2>3. Targets(module)' \cap KernelArea = {}
      BY <1>1, <2>1 DEF Targets
    <2>4. TargetsIn(BottomArea)' \subseteq DOMAIN module
      BY <1>2, <1>3 DEF TargetsIn
    <2>5. patch_pc' = "bottom"
      BY <1>1, <1>5
    <2>6. DoneWords'
      BY <1>1, <1>2, <1>3, <2>5 DEF DoneWords, Hacking
    <2>7. SearchWords'
      BY <1>1, <1>2, <1>4, <2>2, <2>3, <2>4, <2>5 DEF SearchWords, Hacking
    <2> QED
      BY <1>3, <2>5, <2>6, <2>7 DEF WordsInv, BootWords, Booting
  <1>6. CASE AnyTarget(KernelArea)
    <2>1. PICK a \in DOMAIN module : a \in Kmem /\ Target(module[a])
      BY <1>2, <1>6, Areas DEF AnyTarget, TargetsIn, Untouched
    <2>2. DOMAIN module \subseteq Kmem
      BY <2>1, PatchAssumption DEF PatchTypeOK, Files
    <2>3. InReach(module) => Rewritten(module)'
      <3> SUFFICES ASSUME InReach(module), NEW b \in DOMAIN module PROVE mem'[b] = Patched(module[b])
        BY <1>1 DEF Rewritten
      <3>1. Target(module[b]) => b \in KernelArea
        BY <1>2, <2>2 DEF InReach, Targets
      <3>2. mem[b] = module[b] /\ module[b] \in Words
        BY <1>2, <1>3 DEF Untouched
      <3>3. ~Target(module[b]) => Patched(module[b]) = module[b]
        BY <3>2, PatchedWord
      <3> QED
        BY <1>3, <3>1, <3>2, <3>3
    <2>4. TargetsIn(BottomArea)' = {}
      <3>1. TargetsIn(BottomArea) \subseteq Kmem \cap Umem
        BY <1>2, <2>2, Areas DEF TargetsIn
      <3> QED
        BY <1>3, <3>1, PatchAssumption
    <2>5. patch_pc' = "idle"
      BY <1>1, <1>6
    <2>6. DoneWords'
      BY <1>1, <1>2, <1>3, <2>3, <2>5 DEF DoneWords
    <2>7. SearchWords'
      BY <1>4, <2>4, <2>5 DEF SearchWords, Hacking
    <2> QED
      BY <2>5, <2>6, <2>7 DEF WordsInv, BootWords, Booting
  <1> QED
    BY <1>5, <1>6

LEMMA HackBottomWords == ASSUME PatchTypeOK, WordsInv, InReach(program), HackBottom PROVE WordsInv'
  <1>1. /\ psp_lib_patch(BottomArea) /\ patch_pc = "bottom"
        /\ patch_pc' = IF AnyTarget(BottomArea) THEN "added" ELSE "head"
        /\ UNCHANGED <<filesize, program, module, modules>>
    BY DEF HackBottom, Search
  <1>2. /\ \A m \in modules \ {module} : InReach(m) => Rewritten(m)
        /\ module \in modules \ {program} /\ Untouched(module)
        /\ TargetsIn(BottomArea) \subseteq DOMAIN module
        /\ TargetsIn(KernelArea) = {} /\ Targets(module) \cap KernelArea = {}
    BY <1>1 DEF WordsInv, DoneWords, SearchWords, Hacking
  <1>3. /\ \A m \in modules : Rewritten(m) => Rewritten(m)'
        /\ \A m : InReach(m)' = InReach(m) /\ Targets(m)' = Targets(m)
        /\ \A s : TargetsIn(s)' \subseteq TargetsIn(s) /\ TargetsIn(s)' \cap BottomArea = {}
        /\ \A a \in DOMAIN module : /\ a \in Memory /\ module[a] \in Words
                                   /\ mem'[a] = IF a \in BottomArea THEN Patched(mem[a]) ELSE mem[a]
    BY <1>1, SearchKeeps
  <1>4. TargetsIn(BottomArea)' = {} /\ TargetsIn(KernelArea)' = {}
    BY <1>2, <1>3 DEF TargetsIn
  <1>5. DoneWords'
    BY <1>1, <1>2, <1>3 DEF DoneWords, Hacking
  <1>6. Targets(module)' \cap KernelArea = {}
    BY <1>1, <1>2 DEF Targets
  <1>7. CASE ~AnyTarget(BottomArea)
    <2>1. \A a \in DOMAIN module : a \in BottomArea => ~Target(module[a])
      BY <1>2, <1>3, <1>7 DEF AnyTarget, Untouched
    <2>2. Untouched(module)'
      <3> SUFFICES ASSUME NEW a \in DOMAIN module PROVE mem'[a] = module[a]
        BY <1>1 DEF Untouched
      <3>1. mem[a] = module[a] /\ module[a] \in Words
        BY <1>2, <1>3 DEF Untouched
      <3>2. ~Target(module[a]) => Patched(module[a]) = module[a]
        BY <3>1, PatchedWord
      <3> QED
        BY <1>3, <2>1, <3>1, <3>2
    <2>3. Targets(module)' \cap BottomArea = {}
      BY <1>1, <2>1 DEF Targets
    <2>4. patch_pc' = "head"
      BY <1>1, <1>7
    <2>5. SearchWords'
      BY <1>1, <1>2, <1>4, <1>6, <2>2, <2>3, <2>4 DEF SearchWords, Hacking
    <2> QED
      BY <1>3, <1>5, <2>4, <2>5 DEF WordsInv, BootWords, Booting
  <1>8. CASE AnyTarget(BottomArea)
    <2>1. PICK a \in DOMAIN module : a \in BottomArea /\ Target(module[a])
      BY <1>2, <1>8 DEF AnyTarget, TargetsIn, Untouched
    <2>2. Targets(module)' \cap BottomArea # {}
      BY <1>1, <2>1 DEF Targets
    <2>3. \A b \in DOMAIN module :
             mem'[b] = IF b \in BottomArea THEN Patched(module[b]) ELSE module[b]
      BY <1>2, <1>3 DEF Untouched
    <2>4. patch_pc' = "added"
      BY <1>1, <1>8
    <2>5. SearchWords'
      BY <1>1, <1>2, <1>4, <2>2, <2>3, <2>4 DEF SearchWords, Hacking
    <2> QED
      BY <1>3, <1>5, <2>4, <2>5 DEF WordsInv, BootWords, Booting
  <1> QED
    BY <1>7, <1>8

(* The last search, of the words below the bottom or of all the rest: with *)
(* it the module is done, if it was within reach.                          *)
LEMMA LastSearch ==
    ASSUME PatchTypeOK, WordsInv, InReach(program), HackAdded \/ HackHead
    PROVE  WordsInv'
  <1> DEFINE area == IF patch_pc = "added" THEN AddedArea ELSE HeadArea
  <1>1. /\ psp_lib_patch(area) /\ patch_pc \in {"added", "head"} /\ patch_pc' = "idle"
        /\ UNCHANGED <<filesize, program, module, modules>>
    BY DEF HackAdded, HackHead, Search
  <1>2. /\ \A m \in modules \ {module} : InReach(m) => Rewritten(m)
        /\ module \in modules \ {program}
        /\ TargetsIn(KernelArea) = {} /\ TargetsIn(BottomArea) = {}
    BY <1>1 DEF WordsInv, DoneWords, SearchWords, Hacking
  <1> HIDE DEF area
  <1>3. /\ \A m \in modules : Rewritten(m) => Rewritten(m)'
        /\ \A m : InReach(m)' = InReach(m) /\ Targets(m)' = Targets(m)
        /\ \A s : TargetsIn(s)' \subseteq TargetsIn(s) /\ TargetsIn(s)' \cap area = {}
        /\ \A a \in DOMAIN module : /\ a \in Memory /\ module[a] \in Words
                                   /\ mem'[a] = IF a \in area THEN Patched(mem[a]) ELSE mem[a]
    BY <1>1, SearchKeeps
  <1>4. TargetsIn(BottomArea)' = {} /\ TargetsIn(KernelArea)' = {}
    BY <1>2, <1>3 DEF TargetsIn
  <1>5. InReach(module) => Rewritten(module)'
    <2> SUFFICES ASSUME InReach(module), NEW b \in DOMAIN module PROVE mem'[b] = Patched(module[b])
      BY <1>1 DEF Rewritten
    <2>1. module[b] \in Words
      BY <1>3
    <2>2. /\ Patched(Patched(module[b])) = Patched(module[b])
          /\ ~Target(module[b]) => Patched(module[b]) = module[b]
      BY <2>1, PatchedWord
    <2>3. CASE patch_pc = "added"
      <3>1. /\ Targets(module) \cap BottomArea # {}
            /\ mem[b] = IF b \in BottomArea THEN Patched(module[b]) ELSE module[b]
        BY <2>3 DEF WordsInv, SearchWords
      <3>2. ~(DOMAIN module \subseteq Kmem)
        BY <3>1, Areas, PatchAssumption DEF Targets
      <3>3. Target(module[b]) => b \in BottomArea \cup area
        BY <1>2, <2>3, <3>1, <3>2 DEF InReach, Targets, area
      <3> QED
        BY <1>3, <2>2, <3>1, <3>3
    <2>4. CASE patch_pc = "head"
      <3>1. /\ Targets(module) \cap KernelArea = {} /\ Targets(module) \cap BottomArea = {}
            /\ mem[b] = module[b]
        BY <2>4 DEF WordsInv, SearchWords, Untouched
      <3>2. Target(module[b]) => b \in area
        BY <1>2, <2>4, <3>1 DEF InReach, Targets, area
      <3> QED
        BY <1>3, <2>2, <3>1, <3>2
    <2> QED
      BY <1>1, <2>3, <2>4
  <1>6. DoneWords'
    BY <1>1, <1>2, <1>3, <1>5 DEF DoneWords
  <1>7. SearchWords'
    BY <1>1, <1>4 DEF SearchWords, Hacking
  <1> QED
    BY <1>1, <1>6, <1>7 DEF WordsInv, BootWords, Booting

(* A program out of reach says nothing, and stays out of reach.            *)
LEMMA OutOfReach ==
    ASSUME PatchTypeOK, WordsInv, ~InReach(program), HackKernel \/ HackBottom \/ HackAdded \/ HackHead
    PROVE  WordsInv'
  <1>1. /\ patch_pc \in Hacking /\ patch_pc' \in Hacking \cup {"idle"}
        /\ UNCHANGED <<filesize, program>>
    BY DEF HackKernel, HackBottom, HackAdded, HackHead, Search, Hacking
  <1>2. InReach(program)' = InReach(program)
    BY <1>1 DEF InReach, ProgramArea, Targets
  <1> QED
    BY <1>1, <1>2 DEF WordsInv, BootWords, Booting, Hacking

(* If all tables of the program lie within its whole 16 bytes, then        *)
(* whatever was loaded, in whatever order and wherever: when no load is    *)
(* under way, every file within reach is in memory with all its tables of  *)
(* the old version rewritten and nothing else changed.  The firmware has   *)
(* the version asked for, if the system call table is known and the code   *)
(* has the known form, and its drivers at least theirs (import_ver_hack,   *)
(* patch_devkit_version, patch_kernel_version).                            *)
THEOREM LoadedIsPatched == PatchSpec => []AllPatched
  <1>1. PatchInit => FirmwareInv /\ WordsInv
    BY PatchAssumption
       DEF PatchInit, FirmwareInv, WordsInv, BootWords, DoneWords, SearchWords, TargetsIn, Booting, Hacking
  <1>2. PatchTypeOK /\ FirstInv /\ WordsInv /\ [PatchNext]_patchVars => WordsInv'
    <2>1. ASSUME WordsInv, UNCHANGED patchVars PROVE WordsInv'
      BY <2>1 DEF WordsInv, BootWords, DoneWords, SearchWords, TargetsIn, Untouched, Rewritten,
         InReach, ProgramArea, Targets, patchVars
    <2> QED
      BY <2>1, LoadProgramWords, BootWordsStep, PatchProgramWords, LoadModuleWords,
         HackKernelWords, HackBottomWords, LastSearch, OutOfReach
         DEF PatchNext
  <1>3. PatchTypeOK /\ FirmwareInv /\ WordsInv => AllPatched
    <2> SUFFICES ASSUME PatchTypeOK, FirmwareInv, WordsInv, patch_pc = "idle"
                 PROVE  /\ devkit_ver # 0 /\ devkit.table /\ devkit.known => devkit.ver = devkit_ver
                        /\ \A d \in Drivers : driver_ver[d] >= kernel_ver
                        /\ InReach(program) =>
                              \A m \in modules : InReach(m) => \A a \in DOMAIN m :
                                 mem[a] = IF Target(m[a]) THEN [m[a] EXCEPT !.ver = set_ver] ELSE m[a]
      BY DEF AllPatched
    <2>1. /\ devkit_ver # 0 /\ devkit.table /\ devkit.known => devkit.ver = devkit_ver
          /\ \A d \in Drivers : driver_ver[d] >= kernel_ver
      BY DEF FirmwareInv
    <2>2. ASSUME InReach(program), NEW m \in modules, InReach(m), NEW a \in DOMAIN m
          PROVE  mem[a] = IF Target(m[a]) THEN [m[a] EXCEPT !.ver = set_ver] ELSE m[a]
      <3>1. mem[a] = Patched(m[a])
        <4>1. DoneWords
          BY <2>2 DEF WordsInv
        <4>2. \A n \in modules : InReach(n) => Rewritten(n)
          BY <4>1 DEF DoneWords, Hacking
        <4> QED
          BY <2>2, <4>2 DEF Rewritten
      <3>2. m[a] \in Words
        BY <2>2 DEF PatchTypeOK, Files
      <3> QED
        BY <3>1, <3>2, PatchedWord
    <2> QED
      BY <2>1, <2>2
  <1> QED
    BY <1>1, <1>2, <1>3, FirmwareStep, PatchTypeInvariant, PTL DEF PatchSpec

-----------------------------------------------------------------------------
(* Every variable of ElfPatch keeps its type, and its loops their bounds.  *)
ElfPlaces == {"mark", "load", "hook", "done"}

ElfTypeInv ==
    /\ prog \in Progs /\ type \in HookTypes
    /\ DOMAIN file = DOMAIN prog.words
    /\ lib \in 1..(Cardinality(DOMAIN prog.libs) + 1) /\ func \in Nat
    /\ lib \in DOMAIN prog.libs => func <= prog.libs[lib].num_funcs
    /\ entry \in 1..(Cardinality(DOMAIN Listed) + 1)
    /\ elf_pc \in ElfPlaces /\ (elf_pc \in {"mark", "load"} => entry = 1)

(* Kinds of words differ.                                                  *)
LEMMA WordKinds ==
    ASSUME NEW n, NEW m
    PROVE  /\ JrRa[1] # NID(n)[1] /\ JrRa[1] # Nop[1] /\ NID(n)[1] # Nop[1]
           /\ Zero[1] # NID(n)[1] /\ Zero[1] # JrRa[1] /\ Zero[1] # Nop[1]
           /\ Syscall(n)[1] # JrRa[1] /\ Syscall(n)[1] # NID(m)[1]
           /\ JumpTo(n)[1] # JrRa[1] /\ JumpTo(n)[1] # NID(m)[1]
           /\ NID(n)[1] = "nid" /\ NID(n)[2] = n /\ (NID(n) = NID(m) => n = m)
  BY DEF JrRa, NID, Nop, Zero, Syscall, JumpTo, Word

LEMMA Sizes ==
    /\ \A p \in Progs : Cardinality(DOMAIN p.words) \in Nat
                        /\ DOMAIN p.words = 0..(Cardinality(DOMAIN p.words) - 1)
                        /\ Cardinality(DOMAIN p.libs) \in Nat
                        /\ DOMAIN p.libs = 1..Cardinality(DOMAIN p.libs)
    /\ Cardinality(DOMAIN Listed) \in Nat /\ DOMAIN Listed = 1..Cardinality(DOMAIN Listed)
  BY ElfAssumption, FS_CardinalityType DEF Sequence

LEMMA ElfTypeCorrect == ElfSpec => []ElfTypeInv
  <1>1. ElfInit => ElfTypeInv
    <2> SUFFICES ASSUME ElfInit PROVE ElfTypeInv
      OBVIOUS
    <2>1. lib \in DOMAIN prog.libs => prog.libs[lib].num_funcs \in Nat
      BY ElfAssumption DEF ElfInit
    <2> QED
      BY <2>1, Sizes DEF ElfInit, ElfTypeInv, ElfPlaces
  <1>2. ElfTypeInv /\ [ElfNext]_elfVars => ElfTypeInv'
    <2> SUFFICES ASSUME ElfTypeInv, [ElfNext]_elfVars PROVE ElfTypeInv'
      OBVIOUS
    <2> USE Sizes DEF ElfTypeInv, ElfPlaces
    <2>0. \A l \in DOMAIN prog.libs : prog.libs[l].num_funcs \in Nat
      BY ElfAssumption
    <2>1. CASE MarkEntry
      <3>1. /\ prog' = prog /\ type' = type /\ entry' = entry /\ lib' = lib /\ elf_pc' = elf_pc
            /\ lib \in DOMAIN prog.libs /\ func < prog.libs[lib].num_funcs /\ func' = func + 1
        BY <2>1 DEF MarkEntry, Unpatched
      <3>2. DOMAIN file' = DOMAIN file
        BY <2>1 DEF MarkEntry, Enter
      <3>3. func' \in Nat /\ func' <= prog.libs[lib].num_funcs
        BY <2>0, <3>1, SMTT(30)
      <3> QED
        BY <3>1, <3>2, <3>3
    <2>2. CASE NextLib
      BY <2>0, <2>2 DEF NextLib, Unpatched
    <2>3. CASE EndMark
      BY <2>0, <2>3 DEF EndMark, Unpatched
    <2>4. CASE LoadExec
      BY <2>4 DEF LoadExec
    <2>5. CASE SkipEntry
      BY <2>5 DEF SkipEntry
    <2>6. CASE hook_module_one
      BY <2>6 DEF hook_module_one
    <2>7. CASE EndHook
      BY <2>7 DEF EndHook
    <2>8. CASE UNCHANGED elfVars
      BY <2>8 DEF elfVars
    <2> QED
      BY <2>1, <2>2, <2>3, <2>4, <2>5, <2>6, <2>7, <2>8 DEF ElfNext
  <1> QED
    BY <1>1, <1>2, PTL DEF ElfSpec

-----------------------------------------------------------------------------
(* Places.                                                                 *)
LEMMA SegmentOf ==
    ASSUME prog \in Progs, SegmentsApart, NEW s \in DOMAIN prog.segs, NEW a \in Addresses(s)
    PROVE  /\ Segment(a) = {s}
           /\ Place(a) = a - prog.segs[s].vaddr + prog.segs[s].offset
           /\ Place(a) \in Positions(s) /\ Place(a) \in DOMAIN prog.words
           /\ \A w : Content(w, a) = w[Place(a)]
  <1>1. Segment(a) = {s}
    BY DEF Segment, SegmentsApart
  <1>2. Place(a) = a - prog.segs[s].vaddr + prog.segs[s].offset
    BY <1>1 DEF Place
  <1>3. {prog.segs[s].vaddr, prog.segs[s].filesz, prog.segs[s].offset} \subseteq Nat
    BY ElfAssumption
  <1>4. Place(a) \in Positions(s)
    BY <1>2, <1>3 DEF Addresses, Positions
  <1> QED
    BY <1>1, <1>2, <1>4 DEF Content, SegmentsApart

LEMMA Injective ==
    ASSUME prog \in Progs, SegmentsApart, NEW a, NEW b, Segment(a) # {}, Segment(b) # {},
           Place(a) = Place(b)
    PROVE  a = b
  <1>1. PICK s \in DOMAIN prog.segs : a \in Addresses(s)
    BY DEF Segment
  <1>2. PICK t \in DOMAIN prog.segs : b \in Addresses(t)
    BY DEF Segment
  <1>3. Place(a) \in Positions(s) /\ Place(a) \in Positions(t)
    BY <1>1, <1>2, SegmentOf
  <1>4. s = t
    BY <1>3 DEF SegmentsApart
  <1>5. {prog.segs[s].vaddr, prog.segs[s].filesz, prog.segs[s].offset} \subseteq Nat
    BY ElfAssumption
  <1>6. /\ Place(a) = a - prog.segs[s].vaddr + prog.segs[s].offset
        /\ Place(b) = b - prog.segs[s].vaddr + prog.segs[s].offset
    BY <1>1, <1>2, <1>4, SegmentOf
  <1>7. prog.segs[s].vaddr \in Int /\ prog.segs[s].offset \in Int /\ a \in Int /\ b \in Int
    BY <1>1, <1>2, <1>4, <1>5 DEF Addresses
  <1>8. \A x, y, v, o \in Int : x - v + o = y - v + o => x = y
    OBVIOUS
  <1>9. a - prog.segs[s].vaddr + prog.segs[s].offset = b - prog.segs[s].vaddr + prog.segs[s].offset
    BY <1>6
  <1> QED
    BY <1>7, <1>8, <1>9

(* The pre-patch finds the tables where the loader will put them.          *)
LEMMA TablePlaces ==
    ASSUME prog \in Progs, Regular, NEW l \in DOMAIN prog.libs,
           NEW j \in 0..(prog.libs[l].num_funcs - 1)
    PROVE  LET i == Import(l, j) IN
           /\ i \in Imports
           /\ get_program_offset(prog.libs[l].offset_nid) + j = Place(i.nid)
           /\ get_program_offset(prog.libs[l].offset_ent) + 2 * j = Place(i.ent)
           /\ Place(i.ent + 1) = Place(i.ent) + 1
           /\ Segment(i.nid) # {} /\ Segment(i.ent) # {} /\ Segment(i.ent + 1) # {}
           /\ {i.nid, i.ent} \subseteq Nat
           /\ get_program_offset(prog.libs[l].offset_nid) \in Nat
           /\ get_program_offset(prog.libs[l].offset_ent) \in Nat
  <1> DEFINE i == Import(l, j)
  <1>0. i \in Imports
    BY DEF Imports
  <1>1. {prog.libs[l].num_funcs, prog.libs[l].offset_nid, prog.libs[l].offset_ent} \subseteq Nat
    BY ElfAssumption
  <1>2. PICK s \in DOMAIN prog.segs, t \in DOMAIN prog.segs :
           \A k \in 0..(prog.libs[l].num_funcs - 1) :
              Import(l, k).nid \in Addresses(s)
              /\ {Import(l, k).ent, Import(l, k).ent + 1} \subseteq Addresses(t)
    BY DEF Regular, TablesInside
  <1>3. 0 \in 0..(prog.libs[l].num_funcs - 1)
    BY <1>1
  <1>4. Import(l, 0).nid = prog.libs[l].offset_nid /\ Import(l, 0).ent = prog.libs[l].offset_ent
    BY <1>1 DEF Import
  <1>5. i.nid = prog.libs[l].offset_nid + j /\ i.ent = prog.libs[l].offset_ent + 2 * j
        /\ {i.nid, i.ent} \subseteq Nat
    BY <1>1 DEF Import
  <1>6. ASSUME NEW r \in DOMAIN prog.segs, NEW a \in Nat, a \in Addresses(r),
               a \in {prog.libs[l].offset_nid, prog.libs[l].offset_ent}
        PROVE  get_program_offset(a) = a - prog.segs[r].vaddr + prog.segs[r].offset
    <2> DEFINE holds == {u \in DOMAIN prog.segs :
                           /\ prog.segs[u].vaddr <= a
                           /\ prog.segs[u].vaddr + prog.segs[u].filesz >= a}
    <2>1. \A u \in DOMAIN prog.segs : {prog.segs[u].vaddr, prog.segs[u].filesz} \subseteq Nat
      BY ElfAssumption
    <2>2. \A u \in DOMAIN prog.segs : prog.segs[u].vaddr + prog.segs[u].filesz # a
      BY <1>6 DEF Regular, TablesInside
    <2>3. \A u \in holds : a \in Addresses(u)
      BY <2>1, <2>2 DEF Addresses
    <2>4. r \in holds
      BY <1>6, <2>1 DEF Addresses
    <2>5. holds = {r}
      BY <1>6, <2>3, <2>4 DEF Regular, SegmentsApart
    <2>6. (CHOOSE u \in holds : \A v \in holds : u <= v) = r
      <3>1. r \in Nat
        BY ElfAssumption, FS_CardinalityType DEF Sequence
      <3> QED
        BY <2>5, <3>1
    <2> QED
      BY <2>4, <2>6 DEF get_program_offset
  <1>7. /\ get_program_offset(prog.libs[l].offset_nid)
             = prog.libs[l].offset_nid - prog.segs[s].vaddr + prog.segs[s].offset
        /\ get_program_offset(prog.libs[l].offset_ent)
             = prog.libs[l].offset_ent - prog.segs[t].vaddr + prog.segs[t].offset
    <2>1. prog.libs[l].offset_nid \in Addresses(s) /\ prog.libs[l].offset_ent \in Addresses(t)
      BY <1>2, <1>3, <1>4
    <2> QED
      BY <1>1, <1>6, <2>1
  <1>8. i.nid \in Addresses(s) /\ {i.ent, i.ent + 1} \subseteq Addresses(t)
    BY <1>2
  <1>9. /\ Place(i.nid) = i.nid - prog.segs[s].vaddr + prog.segs[s].offset
        /\ Place(i.ent) = i.ent - prog.segs[t].vaddr + prog.segs[t].offset
        /\ Place(i.ent + 1) = (i.ent + 1) - prog.segs[t].vaddr + prog.segs[t].offset
        /\ Segment(i.nid) # {} /\ Segment(i.ent) # {} /\ Segment(i.ent + 1) # {}
    BY <1>8, SegmentOf DEF Regular
  <1>10. \A u \in {s, t} : {prog.segs[u].vaddr, prog.segs[u].offset} \subseteq Nat
    BY ElfAssumption
  <1>11. /\ prog.segs[s].vaddr \in Int /\ prog.segs[s].offset \in Int
         /\ prog.segs[t].vaddr \in Int /\ prog.segs[t].offset \in Int
         /\ prog.libs[l].offset_nid \in Int /\ prog.libs[l].offset_ent \in Int /\ j \in Int
    BY <1>1, <1>10
  <1>12. get_program_offset(prog.libs[l].offset_nid) + j = Place(i.nid)
    <2>1. \A x, v, o, k \in Int : (x - v + o) + k = (x + k) - v + o
      OBVIOUS
    <2> QED
      BY <2>1, <1>5, <1>7, <1>9, <1>11
  <1>13. get_program_offset(prog.libs[l].offset_ent) + 2 * j = Place(i.ent)
         /\ Place(i.ent + 1) = Place(i.ent) + 1
    <2>1. \A x, v, o, k \in Int : /\ (x - v + o) + 2 * k = (x + 2 * k) - v + o
                                  /\ (x + 1) - v + o = (x - v + o) + 1
      OBVIOUS
    <2>2. i.ent \in Int
      BY <1>5
    <2> QED
      BY <2>1, <2>2, <1>5, <1>7, <1>9, <1>11
  <1>14. /\ get_program_offset(prog.libs[l].offset_nid) \in Nat
         /\ get_program_offset(prog.libs[l].offset_ent) \in Nat
    <2>1. prog.libs[l].offset_nid \in Addresses(s) /\ prog.libs[l].offset_ent \in Addresses(t)
      BY <1>2, <1>3, <1>4
    <2>2. prog.libs[l].offset_nid >= prog.segs[s].vaddr /\ prog.libs[l].offset_ent >= prog.segs[t].vaddr
      BY <2>1, <1>11 DEF Addresses
    <2>3. \A x, v \in Int, o \in Nat : x >= v => x - v + o \in Nat
      OBVIOUS
    <2> QED
      BY <1>7, <1>10, <1>11, <2>2, <2>3
  <1> QED
    BY <1>0, <1>5, <1>9, <1>12, <1>13, <1>14

-----------------------------------------------------------------------------
(* The NID of a function, and whether it is to be hooked; whether the      *)
(* pre-patch has come past it, and whether hook_systemcall_all has not.    *)
Wanted(i) == Content(prog.words, i.nid)
Hooked(i) == IsModuleHook(Wanted(i))
Visited(i) ==
    \E l \in DOMAIN prog.libs : \E j \in 0..(prog.libs[l].num_funcs - 1) :
       i = Import(l, j) /\ (l < lib \/ (l = lib /\ j < func))
Pending(i) == \E e \in DOMAIN Listed : e >= entry /\ Wanted(i) = NID(Listed[e])

LEMMA ImportOf ==
    ASSUME prog \in Progs, Regular, NEW i \in Imports
    PROVE  /\ Segment(i.nid) # {} /\ Segment(i.ent) # {} /\ Segment(i.ent + 1) # {}
           /\ Place(i.ent + 1) = Place(i.ent) + 1
           /\ {Place(i.nid), Place(i.ent), Place(i.ent + 1)} \subseteq DOMAIN prog.words
           /\ i.nid \in Nat /\ i.ent \in DOMAIN prog.words /\ i.ent \in Nat /\ i.ent + 1 \in Nat
           /\ \A w : /\ Content(w, i.nid) = w[Place(i.nid)]
                     /\ Content(w, i.ent) = w[Place(i.ent)]
                     /\ Content(w, i.ent + 1) = w[Place(i.ent + 1)]
           /\ Wanted(i) = NID(Wanted(i)[2])
           /\ Content(prog.words, i.ent) = JrRa /\ Content(prog.words, i.ent + 1) = Nop
  <1>1. PICK l \in DOMAIN prog.libs : \E j \in 0..(prog.libs[l].num_funcs - 1) : i = Import(l, j)
    BY DEF Imports
  <1>2. /\ Segment(i.nid) # {} /\ Segment(i.ent) # {} /\ Segment(i.ent + 1) # {}
        /\ Place(i.ent + 1) = Place(i.ent) + 1 /\ i.nid \in Nat /\ i.ent \in Nat
    BY <1>1, TablePlaces
  <1>3. \A a : Segment(a) # {} =>
           Place(a) \in DOMAIN prog.words /\ \A w : Content(w, a) = w[Place(a)]
    <2> SUFFICES ASSUME NEW a, Segment(a) # {}
                 PROVE  Place(a) \in DOMAIN prog.words /\ \A w : Content(w, a) = w[Place(a)]
      OBVIOUS
    <2>1. PICK s \in DOMAIN prog.segs : a \in Addresses(s)
      BY DEF Segment
    <2> QED
      BY <2>1, SegmentOf DEF Regular
  <1>4. /\ Content(prog.words, i.nid)[1] = "nid" /\ i.ent \in DOMAIN prog.words
        /\ Content(prog.words, i.ent) = JrRa /\ Content(prog.words, i.ent + 1) = Nop
    BY DEF Regular, EmptyEntries
  <1>5. Wanted(i) = NID(Wanted(i)[2])
    <2>1. Wanted(i) = prog.words[Place(i.nid)] /\ Place(i.nid) \in DOMAIN prog.words
      BY <1>2, <1>3 DEF Wanted
    <2>2. Wanted(i) = Word(Wanted(i)[1], Wanted(i)[2])
      BY <2>1, ElfAssumption
    <2> QED
      BY <1>4, <2>2 DEF Wanted, NID, Word
  <1>6. i.ent + 1 \in Nat
    BY <1>2
  <1> QED
    BY <1>2, <1>3, <1>4, <1>5, <1>6

(* No word of the file serves two purposes.                                *)
LEMMA Apart ==
    ASSUME prog \in Progs, Regular, NEW i \in Imports, NEW k \in Imports
    PROVE  /\ i.nid # k.ent /\ i.nid # k.ent + 1 /\ i.ent # k.ent + 1
           /\ (\/ Wanted(i) = Wanted(k) \/ i.nid = k.nid
               \/ i.ent = k.ent \/ i.ent + 1 = k.ent + 1) => i = k
           /\ Place(i.nid) # Place(k.ent) /\ Place(i.nid) # Place(k.ent + 1)
           /\ Place(i.ent) # Place(k.ent + 1)
           /\ (Place(i.nid) = Place(k.nid) \/ Place(i.ent + 1) = Place(k.ent + 1)) => i = k
  <1>1. /\ Wanted(i) = NID(Wanted(i)[2])
        /\ Content(prog.words, k.ent) = JrRa /\ Content(prog.words, k.ent + 1) = Nop
        /\ Content(prog.words, i.ent) = JrRa /\ i.ent \in Nat /\ k.ent \in Nat
    BY ImportOf
  <1>2. i.nid # k.ent /\ i.nid # k.ent + 1 /\ i.ent # k.ent + 1
    BY <1>1, WordKinds DEF Wanted
  <1>3. i.ent + 1 = k.ent + 1 => i.ent = k.ent
    BY <1>1
  <1>4. (Wanted(i) = Wanted(k) \/ i.nid = k.nid \/ i.ent = k.ent) => i = k
    BY DEF Wanted, Regular, EmptyEntries
  <1>5. \A a, b : Segment(a) # {} /\ Segment(b) # {} /\ Place(a) = Place(b) => a = b
    BY Injective DEF Regular
  <1>6. /\ Segment(i.nid) # {} /\ Segment(i.ent) # {} /\ Segment(i.ent + 1) # {}
        /\ Segment(k.nid) # {} /\ Segment(k.ent) # {} /\ Segment(k.ent + 1) # {}
    BY ImportOf
  <1> QED
    BY <1>2, <1>3, <1>4, <1>5, <1>6

-----------------------------------------------------------------------------
(* What a step that leaves the program alone leaves as it was.             *)
LEMMA Fixed ==
    ASSUME prog' = prog, type' = type
    PROVE  /\ Regular' = Regular /\ Imports' = Imports
           /\ \A a : Place(a)' = Place(a) /\ Segment(a)' = Segment(a)
           /\ \A l, j : Import(l, j)' = Import(l, j)
           /\ \A i : Wanted(i)' = Wanted(i) /\ Hooked(i)' = Hooked(i)
           /\ \A w : IsModuleHook(w)' = IsModuleHook(w)
           /\ \A a : Content(prog.words, a)' = Content(prog.words, a)
  <1>1. \A l, j : Import(l, j)' = Import(l, j)
    BY DEF Import
  <1>2. Imports' = Imports
    BY DEF Imports, Import
  <1>3. \A a : Place(a)' = Place(a) /\ Segment(a)' = Segment(a)
    BY DEF Place, Segment, Addresses
  <1>4. \A a : Content(prog.words, a)' = Content(prog.words, a)
    BY DEF Content, Place, Segment, Addresses
  <1>5. \A w : IsModuleHook(w)' = IsModuleHook(w)
    BY DEF IsModuleHook
  <1>6. \A i : Wanted(i)' = Wanted(i) /\ Hooked(i)' = Hooked(i)
    BY DEF Wanted, Hooked, Content, Place, Segment, Addresses, IsModuleHook
  <1>7. Regular' = Regular
    BY DEF Regular, SegmentsApart, TablesInside, EmptyEntries, Positions, Addresses,
           Content, Place, Segment, Imports, Import
  <1> QED
    BY <1>1, <1>2, <1>3, <1>4, <1>5, <1>6, <1>7

(* The pre-patch: each function it has come past, if it is to be hooked,   *)
(* has its NID in its entry; everything else is as it was.                 *)
Moved(i) == Hooked(i) /\ Visited(i)

MarkInv ==
    Regular =>
        /\ elf_pc # "mark" => lib \notin DOMAIN prog.libs
        /\ \A i \in Imports :
              IF Moved(i)
              THEN file[Place(i.nid)] = Zero /\ file[Place(i.ent + 1)] = Wanted(i)
              ELSE file[Place(i.nid)] = Wanted(i) /\ file[Place(i.ent + 1)] = Nop
        /\ \A p \in DOMAIN prog.words :
              (\A i \in Imports : p # Place(i.nid) /\ p # Place(i.ent + 1))
                 => file[p] = prog.words[p]

LEMMA Marked == ElfSpec => []MarkInv
  <1>1. ElfInit /\ ElfTypeInv => MarkInv
    <2> SUFFICES ASSUME ElfInit, ElfTypeInv, Regular PROVE MarkInv
      BY DEF MarkInv
    <2>0. prog \in Progs /\ file = prog.words /\ elf_pc = "mark" /\ lib = 1 /\ func = 0
      BY DEF ElfInit, Regular
    <2>1. \A i \in Imports : ~ Visited(i)
      BY <2>0, Sizes DEF Visited
    <2>2. \A i \in Imports : file[Place(i.nid)] = Wanted(i) /\ file[Place(i.ent + 1)] = Nop
      BY <2>0, ImportOf DEF Wanted
    <2> QED
      BY <2>0, <2>1, <2>2 DEF MarkInv, Moved
  <1>2. ElfTypeInv /\ MarkInv /\ [ElfNext]_elfVars => MarkInv'
    <2> SUFFICES ASSUME ElfTypeInv, MarkInv, [ElfNext]_elfVars, Regular' PROVE MarkInv'
      BY DEF MarkInv
    <2>0. prog' = prog /\ type' = type
      BY DEF ElfNext, elfVars, Unpatched, MarkEntry, NextLib, EndMark, LoadExec,
             SkipEntry, hook_module_one, EndHook
    <2>1. prog \in Progs /\ Regular
      BY <2>0, Fixed DEF ElfTypeInv
    <2>2. /\ elf_pc # "mark" => lib \notin DOMAIN prog.libs
          /\ \A i \in Imports :
                IF Moved(i)
                THEN file[Place(i.nid)] = Zero /\ file[Place(i.ent + 1)] = Wanted(i)
                ELSE file[Place(i.nid)] = Wanted(i) /\ file[Place(i.ent + 1)] = Nop
          /\ \A p \in DOMAIN prog.words :
                (\A i \in Imports : p # Place(i.nid) /\ p # Place(i.ent + 1))
                   => file[p] = prog.words[p]
      BY <2>1 DEF MarkInv
    <2>3. SUFFICES
          /\ elf_pc' # "mark" => lib' \notin DOMAIN prog.libs
          /\ \A i \in Imports :
                IF Hooked(i) /\ Visited(i)'
                THEN file'[Place(i.nid)] = Zero /\ file'[Place(i.ent + 1)] = Wanted(i)
                ELSE file'[Place(i.nid)] = Wanted(i) /\ file'[Place(i.ent + 1)] = Nop
          /\ \A p \in DOMAIN prog.words :
                (\A i \in Imports : p # Place(i.nid) /\ p # Place(i.ent + 1))
                   => file'[p] = prog.words[p]
      BY <2>0, Fixed DEF MarkInv, Moved
    <2>4. CASE MarkEntry
      <3> DEFINE i == Import(lib, func)
      <3>1. /\ elf_pc = "mark" /\ elf_pc' = elf_pc /\ lib \in DOMAIN prog.libs /\ lib' = lib
            /\ func \in Nat /\ func' = func + 1 /\ func < prog.libs[lib].num_funcs
            /\ prog.libs[lib].num_funcs \in Nat /\ DOMAIN file = DOMAIN prog.words
            /\ DOMAIN prog.libs = 1..Cardinality(DOMAIN prog.libs)
            /\ Cardinality(DOMAIN prog.libs) \in Nat
        BY <2>1, <2>4, Sizes, ElfAssumption DEF MarkEntry, ElfTypeInv
      <3>2. func \in 0..(prog.libs[lib].num_funcs - 1)
        BY <3>1
      <3>3. /\ i \in Imports
            /\ get_program_offset(prog.libs[lib].offset_nid) + func = Place(i.nid)
            /\ get_program_offset(prog.libs[lib].offset_ent) + 2 * func = Place(i.ent)
            /\ Place(i.ent + 1) = Place(i.ent) + 1
            /\ get_program_offset(prog.libs[lib].offset_nid) # -1
            /\ get_program_offset(prog.libs[lib].offset_ent) # -1
        <4>1. prog \in Progs /\ Regular
          BY <2>1
        <4> HIDE DEF i
        <4>2. /\ Import(lib, func) \in Imports
              /\ get_program_offset(prog.libs[lib].offset_nid) + func = Place(Import(lib, func).nid)
              /\ get_program_offset(prog.libs[lib].offset_ent) + 2 * func = Place(Import(lib, func).ent)
              /\ Place(Import(lib, func).ent + 1) = Place(Import(lib, func).ent) + 1
              /\ get_program_offset(prog.libs[lib].offset_nid) \in Nat
              /\ get_program_offset(prog.libs[lib].offset_ent) \in Nat
          BY <3>1, <3>2, <4>1, TablePlaces
        <4> QED
          BY <4>2 DEF i
      <3>4. file' = IF IsModuleHook(file[Place(i.nid)])
                    THEN [file EXCEPT ![Place(i.ent + 1)] = file[Place(i.nid)],
                                      ![Place(i.nid)] = Zero]
                    ELSE file
        BY <2>4, <3>3 DEF MarkEntry, Listing, Enter
      <3>5. \A k \in Imports : Visited(k)' <=> Visited(k) \/ k = i
        <4> SUFFICES ASSUME NEW k \in Imports PROVE Visited(k)' <=> Visited(k) \/ k = i
          OBVIOUS
        <4>1. ASSUME Visited(k)' PROVE Visited(k) \/ k = i
          <5>1. PICK l \in DOMAIN prog.libs : \E j \in 0..(prog.libs[l].num_funcs - 1) :
                   k = Import(l, j) /\ (l < lib \/ (l = lib /\ j < func + 1))
            BY <2>0, <3>1, <4>1, Fixed DEF Visited
          <5>2. PICK j \in 0..(prog.libs[l].num_funcs - 1) :
                   k = Import(l, j) /\ (l < lib \/ (l = lib /\ j < func + 1))
            BY <5>1
          <5>3. j < func + 1 => j < func \/ j = func
            BY <3>1, <5>2
          <5> QED
            BY <5>2, <5>3 DEF Visited
        <4>2. ASSUME Visited(k) PROVE Visited(k)'
          <5>1. \A j \in Int : j < func => j < func + 1
            BY <3>1
          <5> QED
            BY <2>0, <3>1, <4>2, <5>1, Fixed DEF Visited
        <4>3. k = i => Visited(k)'
          <5>1. func < func + 1
            BY <3>1
          <5> QED
            BY <2>0, <3>1, <3>2, <5>1, Fixed DEF Visited
        <4> QED
          BY <4>1, <4>2, <4>3
      <3>6. CASE ~ IsModuleHook(file[Place(i.nid)])
        <4>1. file' = file
          BY <3>4, <3>6
        <4>2. Hooked(i) => Visited(i)
          BY <2>2, <3>3, <3>6 DEF Moved, Hooked
        <4> QED
          BY <2>2, <3>1, <3>5, <4>1, <4>2 DEF Moved
      <3>7. CASE IsModuleHook(file[Place(i.nid)])
        <4>1. file[Place(i.nid)] = Wanted(i) /\ Hooked(i)
          <5>1. ~ IsModuleHook(Zero)
            BY WordKinds DEF IsModuleHook
          <5> QED
            BY <2>2, <3>3, <3>7, <5>1 DEF Hooked
        <4>2. file' = [file EXCEPT ![Place(i.ent + 1)] = Wanted(i), ![Place(i.nid)] = Zero]
          BY <3>4, <3>7, <4>1
        <4>3. {Place(i.nid), Place(i.ent + 1)} \subseteq DOMAIN file /\ Place(i.nid) # Place(i.ent + 1)
          BY <2>1, <3>1, <3>3, ImportOf, Apart
        <4>4. /\ file'[Place(i.nid)] = Zero /\ file'[Place(i.ent + 1)] = Wanted(i)
              /\ \A p \in DOMAIN prog.words :
                    p # Place(i.nid) /\ p # Place(i.ent + 1) => file'[p] = file[p]
          BY <3>1, <4>2, <4>3
        <4>5. ASSUME NEW k \in Imports, k # i
              PROVE  /\ file'[Place(k.nid)] = file[Place(k.nid)]
                     /\ file'[Place(k.ent + 1)] = file[Place(k.ent + 1)]
          <5>1. {Place(k.nid), Place(k.ent + 1)} \subseteq DOMAIN prog.words
            BY <2>1, ImportOf
          <5>2. /\ Place(k.nid) # Place(i.nid) /\ Place(k.nid) # Place(i.ent + 1)
                /\ Place(k.ent + 1) # Place(i.nid) /\ Place(k.ent + 1) # Place(i.ent + 1)
            BY <2>1, <3>3, <4>5, Apart
          <5> QED
            BY <4>4, <5>1, <5>2
        <4>6. \A k \in Imports :
                IF Hooked(k) /\ Visited(k)'
                THEN file'[Place(k.nid)] = Zero /\ file'[Place(k.ent + 1)] = Wanted(k)
                ELSE file'[Place(k.nid)] = Wanted(k) /\ file'[Place(k.ent + 1)] = Nop
          BY <2>2, <3>5, <4>1, <4>4, <4>5 DEF Moved
        <4>7. \A p \in DOMAIN prog.words :
                (\A k \in Imports : p # Place(k.nid) /\ p # Place(k.ent + 1))
                   => file'[p] = prog.words[p]
          BY <2>2, <3>3, <4>4
        <4> QED
          BY <3>1, <4>6, <4>7
      <3> QED
        BY <3>6, <3>7
    <2>5. CASE NextLib
      <3>1. /\ elf_pc = "mark" /\ elf_pc' = elf_pc /\ lib \in DOMAIN prog.libs /\ lib' = lib + 1
            /\ func = prog.libs[lib].num_funcs /\ func' = 0 /\ file' = file /\ func \in Nat
            /\ DOMAIN prog.libs = 1..Cardinality(DOMAIN prog.libs)
            /\ Cardinality(DOMAIN prog.libs) \in Nat
        BY <2>1, <2>5, Sizes DEF NextLib, ElfTypeInv
      <3>2. \A k \in Imports : Visited(k)' <=> Visited(k)
        <4>1. \A l \in DOMAIN prog.libs : \A j \in 0..(prog.libs[l].num_funcs - 1) :
                (l < lib + 1 \/ (l = lib + 1 /\ j < 0)) <=> (l < lib \/ (l = lib /\ j < func))
          BY <3>1
        <4> QED
          BY <2>0, <3>1, <4>1, Fixed DEF Visited
      <3> QED
        BY <2>2, <3>1, <3>2 DEF Moved
    <2>6. CASE EndMark
      <3>1. file' = file /\ lib' = lib /\ func' = func /\ lib \notin DOMAIN prog.libs
        BY <2>6 DEF EndMark
      <3>2. \A k \in Imports : Visited(k)' <=> Visited(k)
        BY <2>0, <3>1, Fixed DEF Visited
      <3> QED
        BY <2>2, <3>1, <3>2 DEF Moved
    <2>7. CASE LoadExec \/ SkipEntry \/ hook_module_one \/ EndHook \/ UNCHANGED elfVars
      <3>1. file' = file /\ lib' = lib /\ func' = func
            /\ (elf_pc = "mark" => elf_pc' = "mark")
        BY <2>7 DEF LoadExec, SkipEntry, hook_module_one, EndHook, elfVars
      <3>2. \A k \in Imports : Visited(k)' <=> Visited(k)
        BY <2>0, <3>1, Fixed DEF Visited
      <3> QED
        BY <2>2, <3>1, <3>2 DEF Moved
    <2> QED
      BY <2>4, <2>5, <2>6, <2>7 DEF ElfNext
  <1> QED
    BY <1>1, <1>2, ElfTypeCorrect, PTL DEF ElfSpec

-----------------------------------------------------------------------------
(* Hooking: of the functions to be hooked, those hook_systemcall_all has   *)
(* come past jump to their hooks and the others still have their marks;    *)
(* the functions that are not to be hooked are linked.                     *)
HookInv ==
    elf_pc \in {"hook", "done"} /\ Regular =>
        /\ elf_pc = "done" => entry \notin DOMAIN Listed
        /\ DOMAIN base = 0..Cardinality(DOMAIN prog.words)
        /\ \A i \in Imports :
              IF ~ Hooked(i)
              THEN base[i.ent] = JrRa /\ base[i.ent + 1] = Syscall(Wanted(i)[2])
              ELSE IF Pending(i)
                   THEN base[i.ent] = JrRa /\ base[i.ent + 1] = Wanted(i)
                   ELSE base[i.ent] = JumpTo(Wanted(i)[2]) /\ base[i.ent + 1] = Nop
        /\ \A a \in DOMAIN base :
              (\A i \in Imports : a # i.ent /\ a # i.ent + 1) =>
                 \/ base[a] = Content(prog.words, a)
                 \/ base[a] = Zero /\ \E i \in Imports : a = i.nid

(* What the system makes of the patched file.                              *)
LEMMA Loaded ==
    ASSUME ElfTypeInv, MarkInv, Regular, elf_pc = "load", NEW i \in Imports
    PROVE  IF Hooked(i)
           THEN Linked(file, i.ent) = JrRa /\ Linked(file, i.ent + 1) = Wanted(i)
           ELSE Linked(file, i.ent) = JrRa /\ Linked(file, i.ent + 1) = Syscall(Wanted(i)[2])
  <1>0. prog \in Progs /\ func \in Nat /\ lib \notin DOMAIN prog.libs
    BY DEF ElfTypeInv, MarkInv
  <1>1. \A k \in Imports : Visited(k)
    <2>1. \A l \in DOMAIN prog.libs : l < lib
      BY <1>0, Sizes DEF ElfTypeInv
    <2> QED
      BY <2>1 DEF Visited, Imports
  <1>2. \A k \in Imports :
           IF Hooked(k) THEN file[Place(k.nid)] = Zero /\ file[Place(k.ent + 1)] = Wanted(k)
           ELSE file[Place(k.nid)] = Wanted(k)
    BY <1>1 DEF MarkInv, Moved
  <1>3. \A k \in Imports : Content(file, k.nid)[1] = "nid" <=> ~ Hooked(k)
    <2> SUFFICES ASSUME NEW k \in Imports PROVE Content(file, k.nid)[1] = "nid" <=> ~ Hooked(k)
      OBVIOUS
    <2>1. Content(file, k.nid) = file[Place(k.nid)] /\ Wanted(k) = NID(Wanted(k)[2])
      BY <1>0, ImportOf
    <2> QED
      BY <1>2, <2>1, WordKinds
  <1>4. \A k \in Imports : (i.ent \in {k.ent, k.ent + 1} \/ i.ent + 1 \in {k.ent, k.ent + 1}) => k = i
    BY <1>0, Apart
  <1>5. Content(file, i.ent) = JrRa /\ Content(file, i.ent + 1) = file[Place(i.ent + 1)]
    <2>1. /\ Place(i.ent) \in DOMAIN prog.words /\ Content(file, i.ent) = file[Place(i.ent)]
          /\ prog.words[Place(i.ent)] = JrRa
          /\ Content(file, i.ent + 1) = file[Place(i.ent + 1)]
      BY <1>0, ImportOf
    <2>2. \A k \in Imports : Place(i.ent) # Place(k.nid) /\ Place(i.ent) # Place(k.ent + 1)
      BY <1>0, Apart
    <2> QED
      BY <2>1, <2>2 DEF MarkInv
  <1>6. i.ent + 1 # i.ent
    BY <1>0, ImportOf
  <1> DEFINE links(a) == {k \in Imports : /\ a \in {k.ent, k.ent + 1}
                                          /\ Content(file, k.nid)[1] = "nid"}
  <1>7. CASE Hooked(i)
    <2>1. links(i.ent) = {} /\ links(i.ent + 1) = {}
      BY <1>3, <1>4, <1>7
    <2>2. /\ Linked(file, i.ent) = Content(file, i.ent)
          /\ Linked(file, i.ent + 1) = Content(file, i.ent + 1)
      BY <2>1 DEF Linked
    <2> QED
      BY <1>2, <1>5, <1>7, <2>2
  <1>8. CASE ~ Hooked(i)
    <2>1. links(i.ent) = {i} /\ links(i.ent + 1) = {i}
      BY <1>3, <1>4, <1>8
    <2>2. /\ Linked(file, i.ent) = JrRa
          /\ Linked(file, i.ent + 1) = Syscall(Content(file, i.nid)[2])
      BY <1>6, <2>1 DEF Linked
    <2>3. Content(file, i.nid) = Wanted(i)
      BY <1>0, <1>2, <1>8, ImportOf
    <2> QED
      BY <1>8, <2>2, <2>3
  <1> QED
    BY <1>7, <1>8

LEMMA LoadedElse ==
    ASSUME ElfTypeInv, MarkInv, Regular, elf_pc = "load", NEW a,
           \A i \in Imports : a # i.ent /\ a # i.ent + 1
    PROVE  \/ Linked(file, a) = Content(prog.words, a)
           \/ Linked(file, a) = Zero /\ \E i \in Imports : a = i.nid
  <1>0. prog \in Progs
    BY DEF ElfTypeInv
  <1>1. Linked(file, a) = Content(file, a)
    BY DEF Linked
  <1>2. CASE Segment(a) = {}
    BY <1>1, <1>2 DEF Content
  <1>3. CASE Segment(a) # {}
    <2>1. PICK s \in DOMAIN prog.segs : a \in Addresses(s)
      BY <1>3 DEF Segment
    <2>2. Place(a) \in DOMAIN prog.words /\ Content(file, a) = file[Place(a)]
          /\ Content(prog.words, a) = prog.words[Place(a)]
      BY <1>0, <2>1, SegmentOf DEF Regular
    <2>3. \A b : Segment(b) # {} /\ Place(a) = Place(b) => a = b
      BY <1>0, <1>3, Injective DEF Regular
    <2>4. CASE \E i \in Imports : Place(a) = Place(i.nid)
      <3>1. PICK i \in Imports : Place(a) = Place(i.nid)
        BY <2>4
      <3>2. a = i.nid
        BY <1>0, <2>3, <3>1, ImportOf
      <3>3. file[Place(a)] = Zero \/ file[Place(a)] = Wanted(i)
        BY <3>1 DEF MarkInv
      <3> QED
        BY <1>1, <2>2, <3>2, <3>3 DEF Wanted
    <2>5. CASE \A i \in Imports : Place(a) # Place(i.nid)
      <3>1. \A i \in Imports : Place(a) # Place(i.ent + 1)
        BY <1>0, <2>3, ImportOf
      <3>2. file[Place(a)] = prog.words[Place(a)]
        BY <2>2, <2>5, <3>1 DEF MarkInv
      <3> QED
        BY <1>1, <2>2, <3>2
    <2> QED
      BY <2>4, <2>5
  <1> QED
    BY <1>2, <1>3

(* The marks of a listed function are the entries it still has.            *)
LEMMA MarksAreEntries ==
    ASSUME ElfTypeInv, HookInv, Regular, elf_pc = "hook", entry \in DOMAIN Listed,
           type[entry] = "M"
    PROVE  Marks = {i.ent : i \in {k \in Imports : Wanted(k) = NID(Listed[entry])}}
  <1>0. /\ prog \in Progs /\ DOMAIN file = DOMAIN prog.words
        /\ DOMAIN prog.words = 0..(Cardinality(DOMAIN prog.words) - 1)
        /\ Cardinality(DOMAIN prog.words) \in Nat
        /\ DOMAIN base = 0..Cardinality(DOMAIN prog.words) /\ entry \in Nat
    BY Sizes DEF ElfTypeInv, HookInv
  <1> DEFINE nid == NID(Listed[entry])
  <1>1. ASSUME NEW k \in Imports, Wanted(k) = nid PROVE k.ent \in Marks
    <2>1. Hooked(k) /\ Pending(k)
      BY <1>0, <1>1 DEF Hooked, Pending, IsModuleHook
    <2>2. base[k.ent] = JrRa /\ base[k.ent + 1] = nid
      BY <1>1, <2>1 DEF HookInv
    <2> QED
      BY <1>0, <2>2, ImportOf DEF Marks
  <1>2. ASSUME NEW a \in Marks PROVE \E k \in Imports : Wanted(k) = nid /\ a = k.ent
    <2>1. a \in DOMAIN prog.words /\ base[a] = JrRa /\ base[a + 1] = nid
      BY <1>0 DEF Marks
    <2>2. a \in Nat /\ a + 1 \in DOMAIN base /\ a \in DOMAIN base
      BY <1>0, <2>1
    <2>3. \A k \in Imports : k.ent \in Nat /\ Wanted(k) = NID(Wanted(k)[2])
      BY <1>0, ImportOf
    <2>4. CASE \E k \in Imports : a + 1 = k.ent + 1
      <3>1. PICK k \in Imports : a + 1 = k.ent + 1
        BY <2>4
      <3>2. a = k.ent
        BY <2>2, <2>3, <3>1
      <3>3. base[k.ent + 1] \in {Syscall(Wanted(k)[2]), Wanted(k), Nop}
        BY DEF HookInv
      <3>4. Wanted(k) = nid
        BY <2>1, <3>1, <3>3, WordKinds
      <3> QED
        BY <3>2, <3>4
    <2>5. CASE \A k \in Imports : a + 1 # k.ent + 1
      <3>1. \A k \in Imports : a # k.ent
        BY <2>5
      <3>2. \A k \in Imports : base[k.ent] \in {JrRa, JumpTo(Wanted(k)[2])}
        BY DEF HookInv
      <3>3. \A k \in Imports : a + 1 # k.ent
        <4> SUFFICES ASSUME NEW k \in Imports PROVE a + 1 # k.ent
          OBVIOUS
        <4> QED
          BY <2>1, <3>2, WordKinds
      <3>4. \A k \in Imports : a # k.ent + 1
        <4> SUFFICES ASSUME NEW k \in Imports PROVE a # k.ent + 1
          OBVIOUS
        <4>1. base[k.ent + 1] \in {Syscall(Wanted(k)[2]), NID(Wanted(k)[2]), Nop}
          BY <2>3 DEF HookInv
        <4> QED
          BY <2>1, <4>1, WordKinds
      <3>5. base[a + 1] = Content(prog.words, a + 1) /\ base[a] = Content(prog.words, a)
        <4>1. base[a + 1] # Zero /\ base[a] # Zero
          BY <2>1, WordKinds
        <4> QED
          BY <2>2, <2>5, <3>1, <3>3, <3>4, <4>1 DEF HookInv
      <3>6. Content(prog.words, a) = JrRa /\ Content(prog.words, a + 1)[1] = "nid"
        <4>1. nid[1] = "nid"
          BY DEF NID, Word
        <4> QED
          BY <2>1, <3>5, <4>1
      <3> QED
        BY <2>1, <3>6 DEF Regular, EmptyEntries
    <2> QED
      BY <2>4, <2>5
  <1> QED
    BY <1>1, <1>2

LEMMA HookedByOrder == ElfSpec => []HookInv
  <1>1. ElfInit => HookInv
    BY DEF ElfInit, HookInv
  <1>2. ElfTypeInv /\ ElfTypeInv' /\ MarkInv /\ HookInv /\ [ElfNext]_elfVars => HookInv'
    <2> SUFFICES ASSUME ElfTypeInv, ElfTypeInv', MarkInv, HookInv, [ElfNext]_elfVars,
                        elf_pc' \in {"hook", "done"}, Regular'
                 PROVE  HookInv'
      BY DEF HookInv
    <2>0. prog' = prog /\ type' = type
      BY DEF ElfNext, elfVars, Unpatched, MarkEntry, NextLib, EndMark, LoadExec,
             SkipEntry, hook_module_one, EndHook
    <2>1. prog \in Progs /\ Regular /\ entry \in Nat
      <3>1. Regular
        BY <2>0, Fixed
      <3>2. prog \in Progs /\ entry \in Nat
        BY Sizes DEF ElfTypeInv
      <3> QED
        BY <3>1, <3>2
    <2>2. SUFFICES
            /\ elf_pc' = "done" => entry' \notin DOMAIN Listed
            /\ DOMAIN base' = 0..Cardinality(DOMAIN prog.words)
            /\ \A i \in Imports :
                  IF ~ Hooked(i)
                  THEN base'[i.ent] = JrRa /\ base'[i.ent + 1] = Syscall(Wanted(i)[2])
                  ELSE IF Pending(i)'
                       THEN base'[i.ent] = JrRa /\ base'[i.ent + 1] = Wanted(i)
                       ELSE base'[i.ent] = JumpTo(Wanted(i)[2]) /\ base'[i.ent + 1] = Nop
            /\ \A a \in DOMAIN base' :
                  (\A i \in Imports : a # i.ent /\ a # i.ent + 1) =>
                     \/ base'[a] = Content(prog.words, a)
                     \/ base'[a] = Zero /\ \E i \in Imports : a = i.nid
      BY <2>0, Fixed DEF HookInv
    <2>3. CASE LoadExec
      <3>1. /\ elf_pc = "load" /\ elf_pc' = "hook" /\ entry' = entry
            /\ base' = [a \in 0..Cardinality(DOMAIN prog.words) |-> Linked(file, a)]
        BY <2>3 DEF LoadExec, ElfTypeInv
      <3>2. \A i \in Imports : {i.ent, i.ent + 1} \subseteq 0..Cardinality(DOMAIN prog.words)
        BY <2>1, ImportOf, Sizes
      <3>3. \A i \in Imports : Hooked(i) => Pending(i)'
        <4> SUFFICES ASSUME NEW i \in Imports, Hooked(i) PROVE Pending(i)'
          OBVIOUS
        <4>1. entry = 1 /\ \A e \in DOMAIN Listed : e >= 1
          BY <3>1, Sizes DEF ElfTypeInv
        <4>2. \E e \in DOMAIN Listed : Wanted(i) = NID(Listed[e])
          BY DEF Hooked, IsModuleHook
        <4> QED
          BY <2>0, <3>1, <4>1, <4>2, Fixed DEF Pending
      <3>4. \A i \in Imports :
               IF Hooked(i)
               THEN base'[i.ent] = JrRa /\ base'[i.ent + 1] = Wanted(i)
               ELSE base'[i.ent] = JrRa /\ base'[i.ent + 1] = Syscall(Wanted(i)[2])
        BY <2>1, <3>1, <3>2, Loaded
      <3>5. \A a \in DOMAIN base' :
               (\A i \in Imports : a # i.ent /\ a # i.ent + 1) =>
                  \/ base'[a] = Content(prog.words, a)
                  \/ base'[a] = Zero /\ \E i \in Imports : a = i.nid
        BY <2>1, <3>1, LoadedElse
      <3> QED
        BY <3>1, <3>3, <3>4, <3>5
    <2>4. ASSUME elf_pc = "hook", entry \in DOMAIN Listed, entry' = entry + 1,
                 NEW i \in Imports, Hooked(i)
          PROVE  /\ Pending(i)' <=> Pending(i) /\ Wanted(i) # NID(Listed[entry])
                 /\ Wanted(i) = NID(Listed[entry]) => type[entry] = "M" /\ Pending(i)
      <3>1. \A e \in DOMAIN Listed : e \in Nat
        BY Sizes
      <3>2. \A d, e \in DOMAIN Listed : NID(Listed[d]) = NID(Listed[e]) => d = e
        BY ElfAssumption, WordKinds
      <3>3. PICK d \in DOMAIN Listed : Wanted(i) = NID(Listed[d]) /\ type[d] = "M"
        BY <2>4 DEF Hooked, IsModuleHook
      <3>4. Pending(i) <=> d >= entry
        BY <3>2, <3>3 DEF Pending
      <3>5. Pending(i)' <=> d >= entry + 1
        BY <2>0, <2>4, <3>2, <3>3, Fixed DEF Pending
      <3>6. d >= entry + 1 <=> d >= entry /\ d # entry
        BY <2>1, <3>1, <3>3
      <3>7. Wanted(i) = NID(Listed[entry]) <=> d = entry
        BY <2>4, <3>2, <3>3
      <3>8. d = entry => d >= entry
        BY <2>1
      <3> QED
        BY <3>3, <3>4, <3>5, <3>6, <3>7, <3>8
    <2>5. CASE SkipEntry
      <3>1. /\ elf_pc = "hook" /\ elf_pc' = "hook" /\ base' = base /\ entry \in DOMAIN Listed
            /\ entry' = entry + 1 /\ type[entry] # "M"
        BY <2>5 DEF SkipEntry
      <3>2. \A i \in Imports : Hooked(i) => (Pending(i)' <=> Pending(i))
        BY <2>4, <3>1
      <3> QED
        BY <2>1, <3>1, <3>2 DEF HookInv
    <2>6. CASE hook_module_one
      <3>1. /\ elf_pc = "hook" /\ elf_pc' = "hook" /\ entry \in DOMAIN Listed
            /\ entry' = entry + 1 /\ type[entry] = "M"
            /\ DOMAIN base = 0..Cardinality(DOMAIN prog.words)
        BY <2>1, <2>6 DEF hook_module_one, HookInv
      <3> DEFINE nid == NID(Listed[entry])
      <3>2. Marks = {i.ent : i \in {k \in Imports : Wanted(k) = nid}}
        BY <2>1, <3>1, MarksAreEntries
      <3>3. CASE \A k \in Imports : Wanted(k) # nid
        <4>1. base' = base
          BY <2>6, <3>2, <3>3 DEF hook_module_one
        <4>2. \A i \in Imports : Hooked(i) => (Pending(i)' <=> Pending(i))
          BY <2>4, <3>1, <3>3
        <4> QED
          BY <2>1, <3>1, <4>1, <4>2 DEF HookInv
      <3>4. CASE \E k \in Imports : Wanted(k) = nid
        <4>1. PICK k \in Imports : Wanted(k) = nid
          BY <3>4
        <4>2. {i \in Imports : Wanted(i) = nid} = {k}
          BY <2>1, <4>1, Apart
        <4>3. Marks = {k.ent}
          BY <3>2, <4>2
        <4>4. k.ent \in Nat /\ k.ent + 1 \in Nat /\ {k.ent, k.ent + 1} \subseteq DOMAIN base
          BY <2>1, <3>1, ImportOf, Sizes
        <4>5. Marks # {} /\ (CHOOSE a \in Marks : \A b \in Marks : a <= b) = k.ent
          BY <4>3, <4>4
        <4>6. base' = [base EXCEPT ![k.ent] = JumpTo(Listed[entry]), ![k.ent + 1] = Nop]
          BY <2>6, <4>5 DEF hook_module_one
        <4>7. k.ent # k.ent + 1
          BY <4>4
        <4>8. /\ DOMAIN base' = DOMAIN base
              /\ base'[k.ent] = JumpTo(Listed[entry]) /\ base'[k.ent + 1] = Nop
              /\ \A a \in DOMAIN base : a # k.ent /\ a # k.ent + 1 => base'[a] = base[a]
          BY <4>4, <4>6, <4>7
        <4>9. Hooked(k) /\ Wanted(k)[2] = Listed[entry]
          BY <3>1, <4>1, WordKinds DEF Hooked, IsModuleHook
        <4>10. ASSUME NEW i \in Imports, i # k
               PROVE  /\ base'[i.ent] = base[i.ent] /\ base'[i.ent + 1] = base[i.ent + 1]
                      /\ Hooked(i) => (Pending(i)' <=> Pending(i))
          <5>1. {i.ent, i.ent + 1} \subseteq DOMAIN base
            <6>1. i.ent \in Nat /\ i.ent \in DOMAIN prog.words
              BY <2>1, ImportOf
            <6>2. /\ DOMAIN prog.words = 0..(Cardinality(DOMAIN prog.words) - 1)
                  /\ Cardinality(DOMAIN prog.words) \in Nat
              BY <2>1, Sizes
            <6> QED
              BY <3>1, <6>1, <6>2
          <5>2. /\ i.ent # k.ent /\ i.ent # k.ent + 1
                /\ i.ent + 1 # k.ent /\ i.ent + 1 # k.ent + 1
            BY <2>1, <4>10, Apart
          <5>3. Wanted(i) # nid
            BY <4>2, <4>10
          <5> QED
            BY <2>4, <3>1, <4>8, <5>1, <5>2, <5>3
        <4>11. ~ Pending(k)'
          BY <2>4, <3>1, <4>1, <4>9
        <4>12. \A i \in Imports :
                  IF ~ Hooked(i)
                  THEN base'[i.ent] = JrRa /\ base'[i.ent + 1] = Syscall(Wanted(i)[2])
                  ELSE IF Pending(i)'
                       THEN base'[i.ent] = JrRa /\ base'[i.ent + 1] = Wanted(i)
                       ELSE base'[i.ent] = JumpTo(Wanted(i)[2]) /\ base'[i.ent + 1] = Nop
          BY <2>1, <3>1, <4>8, <4>9, <4>10, <4>11 DEF HookInv
        <4>13. \A a \in DOMAIN base' :
                  (\A i \in Imports : a # i.ent /\ a # i.ent + 1) =>
                     \/ base'[a] = Content(prog.words, a)
                     \/ base'[a] = Zero /\ \E i \in Imports : a = i.nid
          BY <2>1, <3>1, <4>8 DEF HookInv
        <4> QED
          BY <3>1, <4>8, <4>12, <4>13
      <3> QED
        BY <3>3, <3>4
    <2>7. CASE EndHook \/ UNCHANGED elfVars
      <3>1. /\ base' = base /\ entry' = entry /\ elf_pc \in {"hook", "done"}
            /\ (elf_pc' = "done" /\ elf_pc = "hook" => entry \notin DOMAIN Listed)
        BY <2>7 DEF EndHook, elfVars
      <3>2. \A i \in Imports : Pending(i)' <=> Pending(i)
        BY <2>0, <3>1, Fixed DEF Pending
      <3> QED
        BY <2>1, <3>1, <3>2 DEF HookInv
    <2>8. CASE MarkEntry \/ NextLib \/ EndMark
      BY <2>8 DEF MarkEntry, NextLib, EndMark
    <2> QED
      BY <2>3, <2>5, <2>6, <2>7, <2>8 DEF ElfNext
  <1> QED
    BY <1>1, <1>2, ElfTypeCorrect, Marked, PTL DEF ElfSpec

(* psp_patch_NID and hook_module_one: for every program with the tables    *)
(* and sections the patch is made for, every list of functions and every   *)
(* choice of modes, when both are done every entry leads to its own hook   *)
(* or to its own function of the system, and no other word has changed.    *)
THEOREM EntriesLeadHome == ElfSpec => []HookedOrLinked
  <1>1. ElfTypeInv /\ HookInv => HookedOrLinked
    <2> SUFFICES ASSUME ElfTypeInv, HookInv, elf_pc = "done", Regular PROVE HookedOrLinked
      BY DEF HookedOrLinked
    <2>1. \A i \in Imports : ~ Pending(i)
      <3>1. entry \in Nat /\ \A e \in DOMAIN Listed : e < entry /\ e \in Nat
        BY Sizes DEF ElfTypeInv, HookInv
      <3>2. \A e \in DOMAIN Listed : ~ (e >= entry)
        BY <3>1
      <3> QED
        BY <3>2 DEF Pending
    <2> QED
      BY <2>1 DEF HookInv, HookedOrLinked, Hooked, Wanted
  <1> QED
    BY <1>1, ElfTypeCorrect, HookedByOrder, PTL

-----------------------------------------------------------------------------
(* Names.                                                                  *)
LEMMA NamedMatches ==
    ASSUME NEW r, NEW c \in Seq(Chars), Named(r, c)
    PROVE  Matches(r, c)
  <1>1. CASE c = <<>>
    <2>1. r.name = Self /\ Len(c) = 0 /\ Len(Self) \in Nat
      BY <1>1, IsoAssumption DEF Named
    <2> QED
      BY <1>1, <2>1, IsoAssumption DEF Matches
  <1>2. CASE r.name = c
    BY <1>2 DEF Matches
  <1>3. CASE r.name = c \o Version
    <2>1. Len(c \o Version) = Len(c) + Len(Version) /\ Len(c) \in Nat /\ Len(Version) \in Nat
      BY IsoAssumption
    <2>2. SubSeq(c \o Version, 1, Len(c)) = c
      BY <2>1, IsoAssumption
    <2> QED
      BY <1>3, <2>1, <2>2 DEF Matches
  <1> QED
    BY <1>1, <1>2, <1>3 DEF Named

-----------------------------------------------------------------------------
(* Types.                                                                  *)
LEMMA ComponentsType ==
    ASSUME wanted \in Paths
    PROVE  Components \in Seq(Seq(Chars)) /\ Depth \in Nat \ {0}
  <1>1. wanted \in Seq(Seq(Chars)) /\ wanted # <<>>
    BY IsoAssumption
  <1>2. CASE Len(wanted) > 1 /\ wanted[1] = <<>>
    <2>1. Components = Tail(wanted)
      BY <1>2 DEF Components
    <2>2. Tail(wanted) \in Seq(Seq(Chars)) /\ Len(Tail(wanted)) = Len(wanted) - 1
      BY <1>1, <1>2
    <2>3. Depth = Len(wanted) - 1 /\ Len(wanted) \in Nat
      BY <1>1, <2>1, <2>2 DEF Depth
    <2>4. Depth \in Nat \ {0}
      BY <1>2, <2>3
    <2> QED
      BY <2>1, <2>2, <2>4
  <1>3. CASE ~(Len(wanted) > 1 /\ wanted[1] = <<>>)
    BY <1>1, <1>3 DEF Components, Depth
  <1> QED
    BY <1>2, <1>3

LEMMA ExtentNat == ASSUME NEW r \in Records PROVE Extent(r) \in Nat
  <1>1. r.extent \in Nat /\ PerSector \in Nat
    BY IsoAssumption DEF Records
  <1> QED
    BY <1>1 DEF Extent

LEMMA ReadsRecord ==
    ASSUME IsoTypeOK, fpos \in DOMAIN disc
    PROVE  /\ Record = disc[fpos]
           /\ Record # Pad => Record \in Records
  BY IsoAssumption DEF IsoTypeOK, Record

LEMMA RecordType ==
    ASSUME IsoTypeOK
    PROVE  /\ Record \in {disc[s] : s \in DOMAIN disc} \cup {Pad}
           /\ Record \in Records \cup {Pad}
  BY IsoAssumption DEF IsoTypeOK, Record

(* The type invariant.                                                     *)
THEOREM IsoTypeCorrect == IsoSpec => []IsoTypeOK
  <1>1. IsoInit => IsoTypeOK
    BY IsoAssumption DEF IsoInit, Start, IsoTypeOK
  <1>2. IsoTypeOK /\ [IsoNext]_isoVars => IsoTypeOK'
    <2> SUFFICES ASSUME IsoTypeOK, [IsoNext]_isoVars PROVE IsoTypeOK'
      OBVIOUS
    <2> USE DEF IsoTypeOK
    <2>0. disc' = disc /\ wanted' = wanted /\ Components' = Components /\ Depth' = Depth
      BY DEF IsoNext, isoVars, GetRoot, NotFound, NextRecord, Descend, Found, Read, Components, Depth
    <2>1. CASE GetRoot
      <3>1. dir_rec' = disc[RootSlot] /\ disc[RootSlot] \in Records
        BY <2>1, IsoAssumption DEF GetRoot, Record
      <3>2. fpos' \in Nat
        BY <2>0, <2>1, <3>1, ExtentNat DEF GetRoot, Extent
      <3>3. path' = Components
        BY <2>1 DEF GetRoot, Components
      <3>4. Done' = 0 /\ path' \in Seq(Seq(Chars)) /\ Len(path') \in 1..Depth
        BY <2>0, <3>3, ComponentsType DEF Done, Depth
      <3>5. \A i \in 1..Len(path') : path'[i] = Components[Done' + i]
        BY <3>3, <3>4
      <3>6. iso_pc' = "search" /\ found' = found /\ found = Pad
        BY <2>1 DEF GetRoot
      <3>7. /\ disc' \in Discs /\ wanted' \in Paths
            /\ dir_rec' \in {disc'[s] : s \in DOMAIN disc'} \cup {Pad}
            /\ found' \in {disc'[s] : s \in DOMAIN disc'} \cup {Pad}
        BY <2>0, <3>1, <3>6, IsoAssumption
      <3>8. \A i \in 1..Len(path') : path'[i] = Components'[Done' + i]
        BY <2>0, <3>5
      <3>9. Len(path') \in 1..Depth'
        BY <2>0, <3>4
      <3> QED
        BY <3>2, <3>4, <3>6, <3>7, <3>8, <3>9
    <2>2. CASE NotFound
      BY <2>0, <2>2, RecordType DEF NotFound, Read, Done
    <2>3. CASE NextRecord
      BY <2>0, <2>3, RecordType DEF NextRecord, Read, Done
    <2>4. CASE Descend
      <3>1. Record \in Records /\ dir_rec' = Record /\ Len(path) > 1 /\ path' = Tail(path)
            /\ iso_pc = "search" /\ iso_pc' = "search" /\ fpos' = Extent(Record) /\ found' = found
        BY <2>4, RecordType DEF Descend, Read
      <3>2. path \in Seq(Seq(Chars)) /\ Len(path) \in 1..Depth /\ Depth \in Nat
        BY <3>1, ComponentsType
      <3>3. Len(path') = Len(path) - 1 /\ path' \in Seq(Seq(Chars))
        BY <3>1, <3>2
      <3>4. Done' = Done + 1 /\ Done \in Nat /\ Done + 1 < Depth
        BY <2>0, <3>1, <3>2, <3>3 DEF Done
      <3>5. \A i \in 1..Len(path') : path'[i] = Components[Done' + i]
        <4> SUFFICES ASSUME NEW i \in 1..Len(path') PROVE path'[i] = Components[Done' + i]
          OBVIOUS
        <4>1. path'[i] = path[i + 1] /\ i + 1 \in 1..Len(path)
          BY <3>1, <3>2, <3>3
        <4>2. path[i + 1] = Components[Done + (i + 1)]
          BY <3>1, <4>1
        <4>3. Done + (i + 1) = Done' + i
          BY <3>4
        <4> QED
          BY <4>1, <4>2, <4>3
      <3>6. dir_rec' \in {disc[s] : s \in DOMAIN disc} \cup {Pad}
        BY <3>1, RecordType
      <3>7. Len(path') \in 1..Depth
        BY <3>1, <3>2, <3>3
      <3> QED
        BY <2>0, <3>1, <3>3, <3>5, <3>6, <3>7, ExtentNat
    <2>5. CASE Found
      BY <2>0, <2>5, RecordType DEF Found, Read, Done
    <2>6. CASE UNCHANGED isoVars
      BY <2>0, <2>6 DEF isoVars, Done
    <2> QED
      BY <2>1, <2>2, <2>3, <2>4, <2>5, <2>6 DEF IsoNext
  <1> QED
    BY <1>1, <1>2, PTL DEF IsoSpec

-----------------------------------------------------------------------------
(* The search has come to a directory by a way through ones with the names *)
(* that were asked for, and stands at one of its entries or right behind   *)
(* the last; if a way to the file exists it has been taken so far, and the *)
(* next record on it is not behind the search yet.                         *)
Leading(way, k) ==
    /\ way \in [1..k -> DOMAIN disc]
    /\ \A i \in 1..k : /\ disc[way[i]] # Pad /\ Under(way, i).dir
                      /\ way[i] \in Slots(Under(way, i))
                      /\ Matches(disc[way[i]], Components[i])

Right(way, k) ==
    \A w \in Ways(Named) : (\A i \in 1..k : way[i] = w[i]) /\ fpos <= w[k + 1]

SearchInv ==
    Tidy /\ iso_pc = "search" =>
        \E way \in [1..Done -> DOMAIN disc] :
            LET dir == Under(way, Done + 1) IN
            /\ Leading(way, Done)
            /\ dir \in Records /\ dir.dir
            /\ fpos \in Extent(dir)..(Extent(dir) + dir.size)
            /\ Right(way, Done)

(* What the search promises.                                              *)
Correct == FindsTheFile /\ FoundIsReached

(* A way leads from one record of the image to the next.                   *)
LEMMA UnderIn ==
    ASSUME IsoTypeOK, NEW k \in Nat, NEW way \in [1..k -> DOMAIN disc]
    PROVE  \E s \in DOMAIN disc : Under(way, k + 1) = disc[s]
  <1>1. CASE k = 0
    BY <1>1, IsoAssumption DEF Under, IsoTypeOK
  <1>2. CASE k # 0
    <2>1. k + 1 # 1 /\ (k + 1) - 1 = k /\ k \in 1..k
      BY <1>2
    <2> QED
      BY <2>1 DEF Under
  <1> QED
    BY <1>1, <1>2

(* What a way to a file is made of.                                        *)
LEMMA WayOfNames ==
    ASSUME IsoTypeOK, NEW w \in Ways(Named), NEW i \in 1..Depth
    PROVE  /\ w \in [1..Depth -> DOMAIN disc]
           /\ disc[w[i]] \in Records /\ disc[w[i]] # Pad
           /\ Under(w, i).dir /\ w[i] \in Slots(Under(w, i))
           /\ Named(disc[w[i]], Components[i])
           /\ Components[i] \in Seq(Chars)
           /\ IF i = Depth THEN ~disc[w[i]].dir ELSE disc[w[i]].dir
  <1>1. Components \in Seq(Seq(Chars)) /\ Depth \in Nat \ {0}
    BY ComponentsType DEF IsoTypeOK
  <1>2. Components[i] \in Seq(Chars)
    BY <1>1 DEF Depth
  <1>3. w \in [1..Depth -> DOMAIN disc] /\ disc[w[i]] # Pad
    BY DEF Ways
  <1>4. disc[w[i]] \in Records
    <2>1. w[i] \in DOMAIN disc /\ disc \in Discs
      BY <1>3 DEF IsoTypeOK
    <2> QED
      BY <1>3, <2>1, IsoAssumption
  <1>5. /\ Under(w, i).dir /\ w[i] \in Slots(Under(w, i))
        /\ Named(disc[w[i]], Components[i])
    BY DEF Ways
  <1>6. i = Depth => ~disc[w[i]].dir
    BY DEF Ways
  <1>7. ASSUME i # Depth PROVE disc[w[i]].dir
    <2>1. i + 1 \in 1..Depth /\ i + 1 # 1 /\ (i + 1) - 1 = i
      BY <1>1, <1>7
    <2>2. Under(w, i + 1).dir
      BY <2>1 DEF Ways
    <2> QED
      BY <2>1, <2>2 DEF Under
  <1> QED
    BY <1>2, <1>3, <1>4, <1>5, <1>6, <1>7

(* The record read is an entry of the directory, or a Pad behind them all. *)
LEMMA AtEntry ==
    ASSUME IsoTypeOK, Tidy, NEW s \in DOMAIN disc, disc[s] \in Records, disc[s].dir,
           fpos \in Extent(disc[s])..(Extent(disc[s]) + disc[s].size)
    PROVE  /\ fpos \in DOMAIN disc /\ Record = disc[fpos]
           /\ Record \in Records <=> fpos \in Slots(disc[s])
           /\ Record # Pad <=> fpos \in Slots(disc[s])
           /\ fpos \notin Slots(disc[s]) => fpos = Extent(disc[s]) + disc[s].size
  <1>1. disc[s] # Pad /\ Pad \notin Records
    BY IsoAssumption
  <1>2. /\ \A t \in Slots(disc[s]) : t \in DOMAIN disc /\ disc[t] # Pad
        /\ Extent(disc[s]) + disc[s].size \in DOMAIN disc
        /\ disc[Extent(disc[s]) + disc[s].size] = Pad
    BY <1>1 DEF Tidy
  <1>3. Extent(disc[s]) \in Nat /\ disc[s].size \in Nat
    BY ExtentNat DEF Records
  <1>4. fpos \in Slots(disc[s]) \/ fpos = Extent(disc[s]) + disc[s].size
    BY <1>3 DEF Slots
  <1>5. fpos = Extent(disc[s]) + disc[s].size => fpos \notin Slots(disc[s])
    BY <1>3 DEF Slots
  <1>6. fpos \in DOMAIN disc
    BY <1>2, <1>4
  <1>7. disc[fpos] # Pad <=> fpos \in Slots(disc[s])
    BY <1>2, <1>4, <1>5
  <1>8. disc[fpos] \in Records <=> disc[fpos] # Pad
    BY <1>1, <1>6, IsoAssumption DEF IsoTypeOK
  <1> QED
    BY <1>4, <1>6, <1>7, <1>8 DEF Record

(* At an entry with the name that is asked for, the search is where the    *)
(* way to the file goes on; and it is never behind that place.             *)
LEMMA OnTheWay ==
    ASSUME IsoTypeOK, Tidy, iso_pc = "search",
           NEW way \in [1..Done -> DOMAIN disc], NEW dir, dir = Under(way, Done + 1),
           dir \in Records, dir.dir, fpos \in Extent(dir)..(Extent(dir) + dir.size),
           NEW w \in Ways(Named), \A i \in 1..Done : way[i] = w[i], fpos <= w[Done + 1]
    PROVE  /\ fpos \in Slots(dir)
           /\ Matches(Record, Head(path)) => w[Done + 1] = fpos
           /\ Matches(disc[w[Done + 1]], Head(path))
  <1> DEFINE k == Done + 1
  <1>1. k \in 1..Depth /\ Done \in Nat /\ Head(path) = Components[k] /\ Depth \in Nat
    <2>1. path \in Seq(Seq(Chars)) /\ Len(path) \in 1..Depth /\ path[1] = Components[Done + 1]
      BY DEF IsoTypeOK
    <2>2. Depth \in Nat
      BY ComponentsType DEF IsoTypeOK
    <2> QED
      BY <2>1, <2>2 DEF Done
  <1>2. Under(w, k) = dir
    <2>1. CASE Done = 0
      BY <1>1, <2>1 DEF Under
    <2>2. CASE Done # 0
      <3>1. k # 1 /\ k - 1 = Done /\ Done \in 1..Done
        BY <1>1, <2>2
      <3> QED
        BY <3>1 DEF Under
    <2> QED
      BY <2>1, <2>2
  <1>3. w[k] \in Slots(dir) /\ Named(disc[w[k]], Components[k]) /\ Components[k] \in Seq(Chars)
    BY <1>1, <1>2, WayOfNames
  <1>4. PICK s \in DOMAIN disc : dir = disc[s]
    BY <1>1, UnderIn
  <1>5. fpos \in Slots(dir)
    <2>1. w[k] < Extent(dir) + dir.size
      BY <1>3, ExtentNat DEF Slots, Records
    <2>2. fpos < Extent(dir) + dir.size
      <3>1. w[k] \in Int /\ fpos \in Nat /\ Extent(dir) \in Nat /\ dir.size \in Nat
        BY <1>3, ExtentNat DEF Slots, Records, IsoTypeOK
      <3> QED
        BY <2>1, <3>1
    <2> QED
      BY <1>4, <2>2, AtEntry DEF IsoTypeOK
  <1>6. ASSUME Matches(Record, Head(path)) PROVE w[k] = fpos
    <2>1. Record = disc[fpos]
      BY <1>4, AtEntry
    <2>2. w[k] <= fpos
      <3>1. dir # Pad
        BY IsoAssumption
      <3> HIDE DEF k
      <3>2. \A t, u \in Slots(disc[s]) : Named(disc[t], Components[k]) /\ Matches(disc[u], Components[k])
                                             => t <= u
        BY <1>1, <1>4, <3>1 DEF Tidy
      <3> QED
        BY <1>1, <1>3, <1>4, <1>5, <1>6, <2>1, <3>2
    <2>3. w[k] \in Int /\ fpos \in Nat
      BY <1>3, ExtentNat DEF Slots, Records, IsoTypeOK
    <2> QED
      BY <2>2, <2>3
  <1>7. Matches(disc[w[k]], Head(path))
    BY <1>1, <1>3, NamedMatches
  <1> QED
    BY <1>5, <1>6, <1>7

(* Each step goes on with the way, or ends it where the file is.           *)
LEMMA SearchKept ==
    ASSUME IsoTypeOK, IsoTypeOK', SearchInv, [IsoNext]_isoVars
    PROVE  SearchInv'
  <1>0. disc' = disc /\ wanted' = wanted /\ Components' = Components /\ Depth' = Depth
        /\ (Tidy' <=> Tidy) /\ Ways(Named)' = Ways(Named)
    <2>1. disc' = disc /\ wanted' = wanted
      BY DEF IsoNext, isoVars, GetRoot, NotFound, NextRecord, Descend, Found, Read
    <2> QED
      BY <2>1 DEF Components, Depth, Tidy, Slots, Extent, Named, Matches, Ways, Under
  <1> SUFFICES ASSUME Tidy, iso_pc' = "search"
               PROVE  \E way \in [1..Done' -> DOMAIN disc] :
                         LET dir == Under(way, Done' + 1) IN
                         /\ Leading(way, Done')
                         /\ dir \in Records /\ dir.dir
                         /\ fpos' \in Extent(dir)..(Extent(dir) + dir.size)
                         /\ \A w \in Ways(Named) : (\A i \in 1..Done' : way[i] = w[i])
                                                   /\ fpos' <= w[Done' + 1]
    BY <1>0 DEF SearchInv, Leading, Under, Slots, Extent, Matches, Right
  <1>1. CASE GetRoot
    <2>1. path' = Components /\ Done' = 0
      BY <1>0, <1>1, ComponentsType DEF GetRoot, Components, Done, Depth, IsoTypeOK
    <2> DEFINE root == disc[RootSlot]
    <2>2. root \in Records /\ root.dir /\ fpos' = Extent(root)
      <3>1. fpos = RootSlot
        BY <1>1 DEF GetRoot, IsoTypeOK
      <3> QED
        BY <1>0, <1>1, <3>1, IsoAssumption DEF GetRoot, Record, IsoTypeOK, Extent
    <2>3. fpos' \in Extent(root)..(Extent(root) + root.size)
      BY <2>2, ExtentNat DEF Records
    <2> DEFINE way == [i \in 1..0 |-> RootSlot]
    <2>4. way \in [1..Done' -> DOMAIN disc] /\ Leading(way, Done') /\ Under(way, Done' + 1) = root
      BY <2>1 DEF Leading, Under
    <2>5. ASSUME NEW w \in Ways(Named)
          PROVE  (\A i \in 1..Done' : way[i] = w[i]) /\ fpos' <= w[Done' + 1]
      <3>1. 1 \in 1..Depth
        BY ComponentsType DEF IsoTypeOK
      <3>2. w[1] \in Slots(root)
        BY <3>1, WayOfNames DEF Under
      <3>3. fpos' <= w[1]
        BY <2>2, <3>2, ExtentNat DEF Slots, Records
      <3> QED
        BY <2>1, <3>3
    <2> QED
      BY <2>2, <2>3, <2>4, <2>5
  <1>2. CASE NextRecord \/ Descend \/ UNCHANGED isoVars
    <2>1. iso_pc = "search" /\ Done \in Nat /\ Depth \in Nat
      BY <1>2, <1>0, ComponentsType DEF NextRecord, Descend, Read, isoVars, IsoTypeOK, Done
    <2>2. PICK way \in [1..Done -> DOMAIN disc] :
             LET dir == Under(way, Done + 1) IN
             /\ Leading(way, Done) /\ dir \in Records /\ dir.dir
             /\ fpos \in Extent(dir)..(Extent(dir) + dir.size)
             /\ Right(way, Done)
      BY <2>1 DEF SearchInv
    <2> DEFINE dir == Under(way, Done + 1)
    <2>3. PICK s \in DOMAIN disc : dir = disc[s]
      BY <2>1, UnderIn
    <2> HIDE DEF dir
    <2>4. /\ Leading(way, Done) /\ dir \in Records /\ dir.dir
          /\ fpos \in Extent(dir)..(Extent(dir) + dir.size)
          /\ \A w \in Ways(Named) : (\A i \in 1..Done : way[i] = w[i]) /\ fpos <= w[Done + 1]
      BY <2>2 DEF Right, dir
    <2>5. /\ Record = disc[fpos] /\ fpos \in DOMAIN disc
          /\ Record # Pad <=> fpos \in Slots(dir)
          /\ Record # Pad => Record \in Records
      BY <2>3, <2>4, AtEntry
    <2>6. CASE NextRecord
      <3>1. path' = path /\ Done' = Done /\ fpos' = fpos + 1 /\ Record # Pad
            /\ ~Matches(Record, Head(path))
        BY <1>0, <2>5, <2>6 DEF NextRecord, Done
      <3>2. fpos' \in Extent(dir)..(Extent(dir) + dir.size)
        BY <2>4, <2>5, <3>1, ExtentNat DEF Slots, Records
      <3>3. ASSUME NEW w \in Ways(Named) PROVE fpos' <= w[Done + 1]
        <4>1. w[Done + 1] # fpos
          <5>1. Matches(disc[w[Done + 1]], Head(path))
            BY <2>1, <2>4, OnTheWay DEF dir
          <5> QED
            BY <2>5, <3>1, <5>1
        <4>2. fpos <= w[Done + 1] /\ w[Done + 1] \in Int /\ fpos \in Nat
          <5>1. Done + 1 \in 1..Depth
            BY <2>1 DEF IsoTypeOK, Done
          <5>2. w \in [1..Depth -> DOMAIN disc]
            BY <5>1, WayOfNames
          <5>3. DOMAIN disc \subseteq Nat
            BY IsoAssumption DEF IsoTypeOK
          <5> QED
            <6>1. fpos <= w[Done + 1] /\ w[Done + 1] \in DOMAIN disc
              BY <2>4, <5>1, <5>2
            <6> QED
              BY <5>3, <6>1 DEF IsoTypeOK
        <4> QED
          BY <3>1, <4>1, <4>2
      <3> QED
        BY <2>4, <3>1, <3>2, <3>3 DEF dir
    <2>7. CASE Descend
      <3>1. Record # Pad /\ Record \in Records /\ Matches(Record, Head(path)) /\ Record.dir
            /\ Len(path) > 1 /\ path' = Tail(path) /\ fpos' = Extent(Record)
        BY <1>0, <2>5, <2>7 DEF Descend, KindWanted
      <3>2. path \in Seq(Seq(Chars)) /\ Len(path) \in 1..Depth /\ Head(path) = Components[Done + 1]
        BY <2>1 DEF IsoTypeOK
      <3>3. Done' = Done + 1 /\ Done + 1 \in 1..Depth /\ Done + 2 \in 1..Depth
        <4>1. Len(path') = Len(path) - 1 /\ Len(path) \in Nat
          BY <3>1, <3>2
        <4>2. Done' = Depth - (Len(path) - 1) /\ Done = Depth - Len(path)
          BY <1>0, <4>1 DEF Done
        <4> QED
          BY <2>1, <3>1, <3>2, <4>1, <4>2
      <3> DEFINE way1 == [i \in 1..(Done + 1) |-> IF i = Done + 1 THEN fpos ELSE way[i]]
      <3>4. way1 \in [1..Done' -> DOMAIN disc]
        BY <2>1, <2>5, <3>3
      <3>5. Under(way1, Done' + 1) = Record
        <4>1. Done' + 1 # 1 /\ (Done' + 1) - 1 = Done + 1 /\ Done + 1 \in 1..(Done + 1)
          BY <2>1, <3>3
        <4> QED
          BY <2>5, <4>1 DEF Under
      <3>6. Leading(way1, Done')
        <4> SUFFICES ASSUME NEW i \in 1..(Done + 1)
                     PROVE  /\ disc[way1[i]] # Pad /\ Under(way1, i).dir
                            /\ way1[i] \in Slots(Under(way1, i))
                            /\ Matches(disc[way1[i]], Components[i])
          BY <3>3, <3>4 DEF Leading
        <4>1. Under(way1, i) = Under(way, i)
          <5>1. i # 1 => i - 1 \in 1..Done /\ i - 1 \in 1..(Done + 1) /\ i - 1 # Done + 1
            BY <2>1
          <5> QED
            BY <5>1 DEF Under
        <4>2. CASE i = Done + 1
          BY <2>4, <2>5, <3>1, <3>2, <4>1, <4>2 DEF dir
        <4>3. CASE i # Done + 1
          <5>1. i \in 1..Done /\ way1[i] = way[i]
            BY <2>1, <4>3
          <5> QED
            BY <2>4, <4>1, <5>1 DEF Leading
        <4> QED
          BY <4>2, <4>3
      <3>7. fpos' \in Extent(Record)..(Extent(Record) + Record.size)
        BY <3>1, ExtentNat DEF Records
      <3>8. ASSUME NEW w \in Ways(Named)
            PROVE  (\A i \in 1..Done' : way1[i] = w[i]) /\ fpos' <= w[Done' + 1]
        <4>1. w[Done + 1] = fpos
          BY <2>1, <2>4, <3>1, OnTheWay DEF dir
        <4>2. w[Done + 2] \in Slots(Under(w, Done + 2))
          BY <3>3, WayOfNames
        <4>3. Under(w, Done + 2) = Record
          <5>1. Done + 2 # 1 /\ (Done + 2) - 1 = Done + 1
            BY <2>1
          <5> QED
            BY <2>5, <4>1, <5>1 DEF Under
        <4>4. fpos' <= w[Done + 2]
          BY <3>1, <4>2, <4>3, ExtentNat DEF Slots, Records
        <4>5. Done' + 1 = Done + 2
          BY <2>1, <3>3
        <4>6. \A i \in 1..(Done + 1) : way1[i] = w[i]
          <5>1. \A i \in 1..(Done + 1) : i # Done + 1 => i \in 1..Done
            BY <2>1
          <5> QED
            BY <2>4, <4>1, <5>1
        <4> QED
          BY <3>3, <4>4, <4>5, <4>6
      <3> HIDE DEF way1
      <3> QED
        BY <3>1, <3>4, <3>5, <3>6, <3>7, <3>8
    <2>8. CASE UNCHANGED isoVars
      <3>1. Done' = Done /\ fpos' = fpos
        BY <1>0, <2>8 DEF isoVars, Done
      <3> QED
        BY <2>4, <3>1 DEF dir
    <2> QED
      BY <1>2, <2>6, <2>7, <2>8
  <1>3. CASE NotFound \/ Found
    BY <1>3 DEF NotFound, Found
  <1> QED
    BY <1>1, <1>2, <1>3 DEF IsoNext

(* The search ends at the file, if a way leads to one, and never at what   *)
(* no way leads to.                                                        *)
LEMMA EndsRight ==
    ASSUME IsoTypeOK, IsoTypeOK', SearchInv, Correct, [IsoNext]_isoVars
    PROVE  Correct'
  <1>0. disc' = disc /\ wanted' = wanted /\ Components' = Components /\ Depth' = Depth
        /\ (Tidy' <=> Tidy) /\ Leads(Named)' = Leads(Named) /\ Leads(Matches)' = Leads(Matches)
    <2>1. disc' = disc /\ wanted' = wanted
      BY DEF IsoNext, isoVars, GetRoot, NotFound, NextRecord, Descend, Found, Read
    <2> QED
      BY <2>1 DEF Components, Depth, Tidy, Slots, Extent, Named, Matches, Leads, Ways, Under
  <1> SUFFICES ASSUME Tidy, iso_pc' = "done"
               PROVE  /\ Leads(Named) # {} => found' \in Leads(Named)
                      /\ found' # Pad => found' \in Leads(Matches)
    BY <1>0 DEF Correct, FindsTheFile, FoundIsReached
  <1>1. CASE NotFound \/ Found
    <2>1. iso_pc = "search" /\ Done \in Nat /\ Depth \in Nat /\ Done + 1 \in 1..Depth
          /\ Head(path) = Components[Done + 1]
      BY <1>1, ComponentsType DEF NotFound, Found, Read, IsoTypeOK, Done
    <2>2. PICK way \in [1..Done -> DOMAIN disc] :
             LET dir == Under(way, Done + 1) IN
             /\ Leading(way, Done) /\ dir \in Records /\ dir.dir
             /\ fpos \in Extent(dir)..(Extent(dir) + dir.size)
             /\ Right(way, Done)
      BY <2>1 DEF SearchInv
    <2> DEFINE dir == Under(way, Done + 1)
    <2>3. PICK s \in DOMAIN disc : dir = disc[s]
      BY <2>1, UnderIn
    <2> HIDE DEF dir
    <2>4. /\ Leading(way, Done) /\ dir \in Records /\ dir.dir
          /\ fpos \in Extent(dir)..(Extent(dir) + dir.size)
          /\ \A w \in Ways(Named) : (\A i \in 1..Done : way[i] = w[i]) /\ fpos <= w[Done + 1]
      BY <2>2 DEF Right, dir
    <2>5. /\ Record = disc[fpos] /\ fpos \in DOMAIN disc
          /\ Record # Pad <=> fpos \in Slots(dir)
          /\ Record # Pad => Record \in Records
      BY <2>3, <2>4, AtEntry
    <2>6. ASSUME NEW w \in Ways(Named)
          PROVE  Record # Pad /\ (Matches(Record, Head(path)) => w[Done + 1] = fpos /\ KindWanted(Record))
      <3>1. fpos \in Slots(dir) /\ (Matches(Record, Head(path)) => w[Done + 1] = fpos)
        BY <2>1, <2>4, OnTheWay DEF dir
      <3>2. IF Done + 1 = Depth THEN ~disc[w[Done + 1]].dir ELSE disc[w[Done + 1]].dir
        BY <2>1, WayOfNames
      <3>3. Done + 1 = Depth <=> Len(path) <= 1
        BY <2>1 DEF Done, IsoTypeOK
      <3>4. disc[w[Done + 1]].dir \in BOOLEAN
        BY <2>1, WayOfNames DEF Records
      <3> QED
        BY <2>1, <2>5, <3>1, <3>2, <3>3, <3>4 DEF KindWanted, IsoTypeOK
    <2>7. CASE NotFound
      <3>1. Ways(Named) = {}
        BY <2>6, <2>7 DEF NotFound
      <3>2. Leads(Named) = {}
        BY <3>1 DEF Leads
      <3>3. found' = Pad
        <4>1. found = Pad
          BY <2>1 DEF IsoTypeOK
        <4> QED
          BY <2>7, <4>1 DEF NotFound
      <3> QED
        BY <3>2, <3>3
    <2>8. CASE Found
      <3>1. /\ found' = Record /\ Record # Pad /\ Record \in Records
            /\ Matches(Record, Head(path)) /\ KindWanted(Record) /\ Len(path) = 1
        BY <2>5, <2>8 DEF Found
      <3>2. Done + 1 = Depth /\ ~Record.dir
        BY <2>1, <3>1 DEF Done, KindWanted
      <3>3. ASSUME NEW w \in Ways(Named) PROVE found' \in Leads(Named)
        <4>1. w[Depth] = fpos
          BY <2>6, <3>1, <3>2
        <4> QED
          BY <2>5, <3>1, <4>1 DEF Leads
      <3> DEFINE taken == [i \in 1..Depth |-> IF i = Depth THEN fpos ELSE way[i]]
      <3>4. taken \in Ways(Matches)
        <4>1. ASSUME NEW i \in 1..Depth
              PROVE  /\ Under(taken, i).dir /\ taken[i] \in Slots(Under(taken, i))
                     /\ Matches(disc[taken[i]], Components[i])
                     /\ taken[i] \in DOMAIN disc /\ disc[taken[i]] # Pad
          <5>1. Under(taken, i) = Under(way, i)
            <6>1. i # 1 => i - 1 \in 1..Depth /\ i - 1 # Depth
              BY <2>1
            <6> QED
              BY <6>1 DEF Under
          <5>2. CASE i = Depth
            BY <2>1, <2>4, <2>5, <3>1, <3>2, <5>1, <5>2 DEF dir
          <5>3. CASE i # Depth
            <6>1. i \in 1..Done /\ taken[i] = way[i]
              BY <2>1, <3>2, <5>3
            <6> QED
              BY <2>4, <5>1, <6>1 DEF Leading
          <5> QED
            BY <5>2, <5>3
        <4>2. taken[Depth] = fpos /\ Depth \in 1..Depth
          BY <2>1, <3>2
        <4> HIDE DEF taken
        <4>3. taken \in [1..Depth -> {t \in DOMAIN disc : disc[t] # Pad /\
                                \E i \in 1..Depth : Matches(disc[t], Components[i])}]
          BY <4>1 DEF taken
        <4> QED
          BY <2>5, <3>2, <4>1, <4>2, <4>3 DEF Ways
      <3>5. taken[Depth] = fpos
        BY <2>1, <3>2
      <3>6. found' \in Leads(Matches)
        BY <2>5, <3>1, <3>4, <3>5 DEF Leads
      <3> QED
        BY <3>3, <3>6 DEF Leads
    <2> QED
      BY <1>1, <2>7, <2>8
  <1>2. CASE UNCHANGED isoVars
    BY <1>0, <1>2 DEF isoVars, Correct, FindsTheFile, FoundIsReached
  <1>3. CASE GetRoot \/ NextRecord \/ Descend
    BY <1>3 DEF GetRoot, NextRecord, Descend, Read
  <1> QED
    BY <1>1, <1>2, <1>3 DEF IsoNext

LEMMA SearchCorrect == IsoSpec => [](SearchInv /\ Correct)
  <1>1. IsoInit => SearchInv /\ Correct
    BY DEF IsoInit, SearchInv, Correct, FindsTheFile, FoundIsReached
  <1>2. IsoTypeOK /\ IsoTypeOK' /\ SearchInv /\ Correct /\ [IsoNext]_isoVars => SearchInv' /\ Correct'
    BY SearchKept, EndsRight
  <1>3. IsoSpec => []IsoTypeOK
    BY IsoTypeCorrect
  <1> QED
    BY <1>1, <1>2, <1>3, PTL DEF IsoSpec

(* In a tidy image the file that the path names is found, whatever other   *)
(* names start alike.                                                      *)
THEOREM FileIsFound == IsoSpec => []FindsTheFile
  BY SearchCorrect, PTL DEF Correct

(* In a tidy image nothing is found that no directories lead to.           *)
THEOREM FoundReached == IsoSpec => []FoundIsReached
  BY SearchCorrect, PTL DEF Correct
=============================================================================
