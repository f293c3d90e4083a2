------------------------- MODULE HookInstallProofs -------------------------
(***************************************************************************)
(* Theorems about HookInstall, for every table of hooks and every          *)
(* configuration, under Room: the vectors the installation takes for the   *)
(* originals are free, which the code does not check.                      *)
(***************************************************************************)
EXTENDS HookInstall, TLAPS

(* Entry e is hooked by system call, and its turn has come: its original   *)
(* handler is saved (from "table" on), its vector patched (when done).     *)
Saved(e) == func_hook_type[e] = "S" /\ (e < i \/ (e = i /\ pc = "table"))
Hooked(e) == func_hook_type[e] = "S" /\ e < i

PlaceInv ==
    /\ pc \in {"check", "exit"} => i = 1
    /\ pc \in {"stub", "table"} => i \in Entries /\ func_hook_type[i] = "S"
    /\ pc = "stub" => i \notin ByPointer
    /\ pc \in {"done", "stopped"} => i = N + 1

(* At most one vector per entry, taken downwards.                          *)
RepInv == rep_num <= Start /\ rep_num >= Start - (IF pc \in {"stub", "table"} THEN i ELSE i - 1)

(* The vectors the system uses, but for those of the hooked entries, are   *)
(* as they were.                                                           *)
TableInv ==
    /\ \A n \in Used : (\A e \in Entries : Num[e] # n) => SYSCALL_TBL[n] = Sys(n)
    /\ \A e \in Entries :
          SYSCALL_TBL[Num[e]] = IF Hooked(e) THEN Hook(e) ELSE Sys(Num[e])

(* The originals are above rep_num, out of the way of the vectors the      *)
(* system uses and of the next ones to be taken.                           *)
StubInv ==
    /\ pc = "stub" => rep_num \in Vectors /\ SYSCALL_TBL[rep_num] = Sys(Num[i])
    /\ \A e \in Entries \ ByPointer :
          IF Saved(e) THEN /\ stub[e] \in Vectors /\ stub[e] >= rep_num
                           /\ SYSCALL_TBL[stub[e]] = Sys(Num[e])
                      ELSE stub[e] = Num[e]

PointerInv == \A e \in ByPointer : stub[e] = Num[e] /\ (Saved(e) => os[e] = Sys(Num[e]))

ImageInv == image = {e \in Marked : func_hook_type[e] = "M" /\ e < i}

HookInv == TypeOK /\ PlaceInv /\ RepInv /\ TableInv /\ StubInv /\ PointerInv /\ ImageInv

-----------------------------------------------------------------------------
LEMMA Bounds ==
    /\ N \in Nat /\ Top \in Nat /\ Start \in Nat /\ Start <= Top
    /\ \A n \in Used : n \in Vectors /\ n \in Nat /\ n >= 1
    /\ ByPointer \subseteq Entries /\ Marked \subseteq Entries
  <1>1. Used \subseteq 1 .. Top - 1 /\ Top \in Nat
    BY HookInstallAssumption
  <1>2. \A n \in Used : n \in Vectors /\ n \in Nat /\ n >= 1
    BY <1>1 DEF Vectors
  <1>3. Start \in 1 .. Top
    BY HookInstallAssumption
  <1> QED
    BY <1>1, <1>2, <1>3, HookInstallAssumption

LEMMA Numbers ==
    /\ Num \in [Entries -> Used] /\ Num \in [Entries -> Vectors]
    /\ \A e \in Entries : Num[e] \in Used /\ Num[e] \in Vectors /\ Num[e] \in Nat
    /\ \A e, f \in Entries : Num[e] = Num[f] => e = f
  <1>1. Num \in [Entries -> Used] /\ \A e, f \in Entries : Num[e] = Num[f] => e = f
    BY HookInstallAssumption
  <1>2. Num \in [Entries -> Vectors]
    BY <1>1, Bounds
  <1> QED
    BY <1>1, <1>2, Bounds

LEMMA SysHandler == \A e \in Entries : Sys(Num[e]) \in Handlers /\ Hook(e) \in Handlers
  BY Numbers DEF Handlers

LEMMA RecordsDiffer ==
    ASSUME NEW e, NEW n
    PROVE  Sys(n) # Hook(e)
  BY DEF Sys, Hook

LEMMA InitInv == Init => HookInv
  <1> SUFFICES ASSUME Init PROVE HookInv
    OBVIOUS
  <1> USE Bounds, Numbers DEF Init
  <1>1. TypeOK
    <2>1. Free \in Handlers /\ NULL \in Handlers /\ \A n \in Used : Sys(n) \in Handlers
      BY DEF Handlers
    <2>2. SYSCALL_TBL \in [Vectors -> Handlers]
      BY <2>1
    <2>3. stub \in [Entries -> Vectors] /\ os \in [Entries -> Handlers]
      BY <2>1
    <2> QED
      BY <2>2, <2>3 DEF TypeOK
  <1>2. PlaceInv /\ RepInv
    BY DEF PlaceInv, RepInv
  <1>3. \A e \in Entries : ~Saved(e) /\ ~Hooked(e)
    BY DEF Saved, Hooked, Entries
  <1>4. TableInv
    BY <1>3 DEF TableInv, Vectors
  <1>5. StubInv /\ PointerInv
    BY <1>3 DEF StubInv, PointerInv
  <1>6. ImageInv
    <2>1. \A e \in Marked : ~(e < 1)
      BY DEF Entries
    <2> QED
      BY <2>1 DEF ImageInv
  <1> QED
    BY <1>1, <1>2, <1>4, <1>5, <1>6 DEF HookInv

(* The entry whose turn it is done, and nothing written to the tables.     *)
LEMMA SkipStep ==
    ASSUME HookInv, Skip \/ HookModuleOne
    PROVE  HookInv'
  <1> USE Bounds DEF Skip, HookModuleOne, At, NextEntry, HookInv
  <1>0. /\ i \in 1 .. N /\ i' = i + 1 /\ pc = "loop" /\ pc' = "loop"
        /\ func_hook_type[i] \in {"N", "M"}
        /\ UNCHANGED <<func_hook_type, SYSCALL_TBL, stub, os, rep_num>>
    BY DEF Entries
  <1>1. \A e \in Entries : (Saved(e)' <=> Saved(e)) /\ (Hooked(e)' <=> Hooked(e))
    BY <1>0 DEF Saved, Hooked, Entries
  <1>2. TypeOK'
    BY <1>0 DEF TypeOK
  <1>3. PlaceInv' /\ RepInv'
    BY <1>0 DEF PlaceInv, RepInv, TypeOK
  <1>4. TableInv'
    BY <1>0, <1>1 DEF TableInv
  <1>5. StubInv' /\ PointerInv'
    BY <1>0, <1>1 DEF StubInv, PointerInv
  <1>6. ImageInv'
    <2>1. \A e \in Marked : e < i' <=> e < i \/ e = i
      BY <1>0 DEF Entries
    <2>2. image' = image \cup (IF func_hook_type[i] = "M" THEN {i} \cap Marked ELSE {})
      BY <1>0
    <2> QED
      BY <1>0, <2>1, <2>2 DEF ImageInv
  <1> QED
    BY <1>2, <1>3, <1>4, <1>5, <1>6

LEMMA PointerStep ==
    ASSUME HookInv, SavePointer
    PROVE  HookInv'
  <1> USE Bounds DEF SavePointer, At, HookInv
  <1>0. /\ i \in Entries /\ i \in 1 .. N /\ pc = "loop" /\ pc' = "table"
        /\ func_hook_type[i] = "S" /\ i \in ByPointer
        /\ UNCHANGED <<func_hook_type, SYSCALL_TBL, stub, image, rep_num, i>>
    BY DEF Entries
  <1>1. \A e \in Entries : Hooked(e)' <=> Hooked(e)
    BY <1>0 DEF Hooked
  <1>2. \A e \in Entries : Saved(e)' <=> Saved(e) \/ e = i
    BY <1>0 DEF Saved
  <1>3. os' = [os EXCEPT ![i] = Sys(Num[i])]
    <2>1. ~Hooked(i) /\ stub[i] = Num[i]
      BY <1>0 DEF Hooked, PointerInv
    <2> QED
      BY <1>0, <2>1 DEF TableInv
  <1>4. TypeOK'
    BY <1>0, <1>3, SysHandler DEF TypeOK
  <1>5. PlaceInv' /\ RepInv' /\ TableInv' /\ ImageInv'
    BY <1>0, <1>1 DEF PlaceInv, RepInv, TableInv, ImageInv, TypeOK
  <1>6. StubInv'
    BY <1>0, <1>2 DEF StubInv
  <1>7. PointerInv'
    BY <1>0, <1>2, <1>3 DEF PointerInv, TypeOK
  <1> QED
    BY <1>4, <1>5, <1>6, <1>7

(* The vector taken is free of the system's use and below all taken before *)
(* it: here Room is needed.                                                *)
LEMMA CopyStep ==
    ASSUME Room, HookInv, CopyVector
    PROVE  HookInv'
  <1> USE Bounds, Numbers DEF CopyVector, At, HookInv
  <1> DEFINE r == rep_num - 1
  <1>0. /\ i \in Entries /\ i \in 1 .. N /\ pc = "loop" /\ pc' = "stub"
        /\ func_hook_type[i] = "S" /\ i \notin ByPointer
        /\ UNCHANGED <<func_hook_type, stub, os, image, i>>
    BY DEF Entries
  <1>1. rep_num \in Int /\ rep_num <= Start /\ rep_num >= Start - (i - 1)
    BY <1>0 DEF RepInv, TypeOK
  <1>2. r \in Int /\ r < rep_num /\ r >= Start - i /\ r >= Start - N /\ r <= Start
    BY <1>0, <1>1
  <1>3. \A n \in Used : n < r
    BY <1>2 DEF Room
  <1>4. r \in Vectors
    <2>1. Num[i] >= 1 /\ Num[i] < r /\ Num[i] \in Nat
      BY <1>0, <1>3
    <2> QED
      BY <1>2, <2>1 DEF Vectors
  <1>5. SYSCALL_TBL' = [SYSCALL_TBL EXCEPT ![r] = Sys(Num[i])] /\ rep_num' = r
    <2>1. ~Saved(i) /\ ~Hooked(i)
      BY <1>0 DEF Saved, Hooked
    <2>2. stub[i] = Num[i]
      BY <1>0, <2>1 DEF StubInv
    <2> QED
      BY <1>0, <2>1, <2>2 DEF TableInv
  <1>6. SYSCALL_TBL'[r] = Sys(Num[i]) /\ \A n \in Vectors : n # r => SYSCALL_TBL'[n] = SYSCALL_TBL[n]
    BY <1>4, <1>5 DEF TypeOK
  <1>7. \A e \in Entries : (Hooked(e)' <=> Hooked(e)) /\ (Saved(e)' <=> Saved(e))
    BY <1>0 DEF Hooked, Saved
  <1>8. TypeOK'
    <2>1. SYSCALL_TBL' \in [Vectors -> Handlers]
      BY <1>0, <1>5, SysHandler DEF TypeOK
    <2>2. rep_num' \in Start - N .. Start
      BY <1>2, <1>5
    <2> QED
      BY <1>0, <2>1, <2>2 DEF TypeOK
  <1>9. PlaceInv' /\ RepInv'
    BY <1>0, <1>1, <1>2, <1>5 DEF PlaceInv, RepInv
  <1>10. TableInv'
    <2>1. \A n \in Used : SYSCALL_TBL'[n] = SYSCALL_TBL[n]
      BY <1>2, <1>3, <1>6
    <2>2. \A e \in Entries : SYSCALL_TBL'[Num[e]] = SYSCALL_TBL[Num[e]]
      BY <2>1
    <2> QED
      BY <1>7, <2>1, <2>2 DEF TableInv
  <1>11. StubInv'
    <2>1. ASSUME NEW e \in Entries \ ByPointer, Saved(e)
          PROVE  stub[e] >= r /\ stub[e] \in Vectors /\ SYSCALL_TBL'[stub[e]] = Sys(Num[e])
      <3>1. stub[e] \in Vectors /\ stub[e] >= rep_num /\ SYSCALL_TBL[stub[e]] = Sys(Num[e])
        BY <2>1 DEF StubInv
      <3>2. stub[e] \in Int
        BY <3>1 DEF Vectors
      <3> QED
        BY <1>1, <1>2, <1>6, <3>1, <3>2
    <2>2. \A e \in Entries \ ByPointer : ~Saved(e) => stub[e] = Num[e]
      BY DEF StubInv
    <2> QED
      BY <1>0, <1>4, <1>5, <1>6, <1>7, <2>1, <2>2 DEF StubInv
  <1>12. PointerInv' /\ ImageInv'
    BY <1>0, <1>7 DEF PointerInv, ImageInv
  <1> QED
    BY <1>8, <1>9, <1>10, <1>11, <1>12

LEMMA RedirectStep ==
    ASSUME HookInv, RedirectStub
    PROVE  HookInv'
  <1> USE Bounds, Numbers DEF RedirectStub, At, HookInv
  <1>0. /\ i \in Entries /\ i \in 1 .. N /\ pc = "stub" /\ pc' = "table"
        /\ func_hook_type[i] = "S" /\ i \notin ByPointer
        /\ stub' = [stub EXCEPT ![i] = rep_num]
        /\ UNCHANGED <<func_hook_type, SYSCALL_TBL, os, image, rep_num, i>>
    BY DEF Entries, PlaceInv
  <1>1. rep_num \in Vectors /\ rep_num \in Int /\ SYSCALL_TBL[rep_num] = Sys(Num[i])
    BY <1>0 DEF StubInv, Vectors
  <1>2. \A e \in Entries : (Hooked(e)' <=> Hooked(e)) /\ (Saved(e)' <=> Saved(e) \/ e = i)
    BY <1>0 DEF Hooked, Saved
  <1>3. TypeOK'
    BY <1>0, <1>1 DEF TypeOK
  <1>4. PlaceInv' /\ RepInv' /\ TableInv' /\ ImageInv'
    BY <1>0, <1>2 DEF PlaceInv, RepInv, TableInv, ImageInv, TypeOK
  <1>5. StubInv'
    <2>1. stub'[i] = rep_num /\ \A e \in Entries : e # i => stub'[e] = stub[e]
      BY <1>0 DEF TypeOK
    <2> QED
      BY <1>0, <1>1, <1>2, <2>1 DEF StubInv
  <1>6. PointerInv'
    BY <1>0, <1>2 DEF PointerInv, TypeOK
  <1> QED
    BY <1>3, <1>4, <1>5, <1>6

(* The patched vector is one the system uses, so none that holds a saved   *)
(* original: they are from rep_num on, and Room again keeps these apart.   *)
LEMMA PatchStep ==
    ASSUME Room, HookInv, PatchVector
    PROVE  HookInv'
  <1> USE Bounds, Numbers DEF PatchVector, NextEntry, HookInv
  <1>0. /\ i \in Entries /\ i \in 1 .. N /\ i' = i + 1 /\ pc = "table" /\ pc' = "loop"
        /\ func_hook_type[i] = "S"
        /\ SYSCALL_TBL' = [SYSCALL_TBL EXCEPT ![Num[i]] = Hook(i)]
        /\ UNCHANGED <<func_hook_type, stub, os, image, rep_num>>
    BY DEF Entries, PlaceInv
  <1>1. SYSCALL_TBL'[Num[i]] = Hook(i)
        /\ \A n \in Vectors : n # Num[i] => SYSCALL_TBL'[n] = SYSCALL_TBL[n]
    BY <1>0 DEF TypeOK
  <1>2. \A e \in Entries : (Saved(e)' <=> Saved(e)) /\ (Hooked(e)' <=> Hooked(e) \/ e = i)
    BY <1>0 DEF Saved, Hooked, Entries
  <1>3. TypeOK'
    BY <1>0, SysHandler DEF TypeOK
  <1>4. rep_num \in Int /\ rep_num <= Start /\ rep_num >= Start - i
    BY <1>0 DEF RepInv, TypeOK
  <1>5. PlaceInv' /\ RepInv'
    BY <1>0, <1>4 DEF PlaceInv, RepInv
  <1>6. TableInv'
    BY <1>0, <1>1, <1>2 DEF TableInv
  <1>7. StubInv'
    <2>1. ASSUME NEW e \in Entries \ ByPointer, Saved(e)
          PROVE  SYSCALL_TBL'[stub[e]] = SYSCALL_TBL[stub[e]]
      <3>1. stub[e] \in Vectors /\ stub[e] \in Int /\ stub[e] >= rep_num
        BY <2>1 DEF StubInv, Vectors
      <3>2. Num[i] < rep_num /\ Num[i] \in Int
        <4>1. Num[i] < Start - N /\ Num[i] \in Int
          BY <1>0 DEF Room
        <4> QED
          BY <1>0, <1>4, <4>1
      <3> QED
        BY <1>1, <1>4, <3>1, <3>2
    <2> QED
      BY <1>0, <1>2, <2>1 DEF StubInv
  <1>8. PointerInv'
    BY <1>0, <1>2 DEF PointerInv
  <1>9. ImageInv'
    <2>1. \A e \in Marked : e < i' <=> e < i \/ e = i
      BY <1>0 DEF Entries
    <2> QED
      BY <1>0, <2>1 DEF ImageInv
  <1> QED
    BY <1>3, <1>5, <1>6, <1>7, <1>8, <1>9

LEMMA PlaceStep ==
    ASSUME HookInv, CheckFreeVector \/ Done \/ RestoreHook
    PROVE  HookInv'
  <1> USE Bounds DEF CheckFreeVector, Done, RestoreHook, HookInv
  <1>0. /\ UNCHANGED <<func_hook_type, SYSCALL_TBL, stub, os, image, rep_num, i>>
        /\ pc \in {"check", "loop", "done"} /\ pc' \in {"loop", "exit", "done", "stopped"}
    OBVIOUS
  <1>1. \A e \in Entries : (Saved(e)' <=> Saved(e)) /\ (Hooked(e)' <=> Hooked(e))
    BY <1>0 DEF Saved, Hooked
  <1>2. TypeOK' /\ PlaceInv' /\ RepInv'
    BY <1>0 DEF TypeOK, PlaceInv, RepInv
  <1>3. TableInv' /\ StubInv' /\ PointerInv' /\ ImageInv'
    BY <1>0, <1>1 DEF TableInv, StubInv, PointerInv, ImageInv
  <1> QED
    BY <1>2, <1>3

THEOREM HookInvariant == Room => (Spec => []HookInv)
  <1> SUFFICES ASSUME Room PROVE Spec => []HookInv
    OBVIOUS
  <1>1. HookInv /\ [Next]_vars => HookInv'
    <2>1. ASSUME HookInv, UNCHANGED vars PROVE HookInv'
      BY <2>1 DEF HookInv, TypeOK, PlaceInv, RepInv, TableInv, StubInv, PointerInv, ImageInv,
         Saved, Hooked, vars
    <2>2. ASSUME HookInv, Next PROVE HookInv'
      BY <2>2, SkipStep, PointerStep, CopyStep, RedirectStep, PatchStep, PlaceStep DEF Next
    <2> QED
      BY <2>1, <2>2
  <1> QED
    BY <1>1, InitInv, PTL DEF Spec

-----------------------------------------------------------------------------
(* Every variable of the installation keeps its type; with Room, rep_num   *)
(* stays inside the table.                                                 *)
THEOREM HookTypeCorrect == Room => (Spec => []TypeOK)
  <1>1. HookInv => TypeOK
    BY DEF HookInv
  <1> QED
    BY <1>1, HookInvariant, PTL

(* At every moment of the installation every system call of every thread   *)
(* ends in the system's handler for it, through its own hook at most.      *)
THEOREM InstallationTransparent == Room => (Spec => []Transparent)
  <1>1. HookInv => Transparent
    <2> SUFFICES ASSUME HookInv, NEW n \in Used, SYSCALL_TBL[n] # Sys(n)
                 PROVE  \E e \in Entries : /\ Num[e] = n /\ SYSCALL_TBL[n] = Hook(e)
                                           /\ PassedOnTo(e) = Sys(n)
      BY DEF Transparent
    <2>1. PICK e \in Entries : Num[e] = n /\ Hooked(e)
      BY DEF HookInv, TableInv
    <2>2. Saved(e) /\ SYSCALL_TBL[n] = Hook(e)
      BY <2>1 DEF Hooked, Saved, HookInv, TableInv
    <2>3. PassedOnTo(e) = Sys(Num[e])
      BY <2>2 DEF PassedOnTo, HookInv, StubInv, PointerInv
    <2> QED
      BY <2>1, <2>2, <2>3
  <1> QED
    BY <1>1, HookInvariant, PTL

(* The module's own calls reach the system, not its hooks.                 *)
THEOREM OwnCallsDirect == Room => (Spec => []InnerCallsDirect)
  <1>1. HookInv => InnerCallsDirect
    <2> SUFFICES ASSUME HookInv, NEW e \in Entries \ ByPointer
                 PROVE  SYSCALL_TBL[stub[e]] = Sys(Num[e])
      BY DEF InnerCallsDirect
    <2>1. CASE Saved(e)
      BY <2>1 DEF HookInv, StubInv
    <2>2. CASE ~Saved(e)
      <3>1. stub[e] = Num[e] /\ ~Hooked(e)
        BY <2>2 DEF HookInv, StubInv, Saved, Hooked
      <3> QED
        BY <3>1 DEF HookInv, TableInv
    <2> QED
      BY <2>1, <2>2
  <1> QED
    BY <1>1, HookInvariant, PTL

(* The finished installation is the configuration's.                       *)
THEOREM InstalledIsAsked == Room => (Spec => []InstalledAsAsked)
  <1>1. HookInv => InstalledAsAsked
    <2> SUFFICES ASSUME HookInv, pc = "done", NEW e \in Entries
                 PROVE  /\ SYSCALL_TBL[Num[e]] = Hook(e) <=> func_hook_type[e] = "S"
                        /\ e \in image <=> func_hook_type[e] = "M" /\ e \in Marked
      BY DEF InstalledAsAsked
    <2>1. e < i
      BY Bounds DEF HookInv, PlaceInv, Entries
    <2>2. SYSCALL_TBL[Num[e]] = IF func_hook_type[e] = "S" THEN Hook(e) ELSE Sys(Num[e])
      BY <2>1 DEF HookInv, TableInv, Hooked
    <2> QED
      BY <2>1, <2>2, RecordsDiffer DEF HookInv, ImageInv
  <1> QED
    BY <1>1, HookInvariant, PTL
=============================================================================
