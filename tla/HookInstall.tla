---------------------------- MODULE HookInstall ----------------------------
(***************************************************************************)
(* Installing the hooks (func_hook.c, hook_systemcall_all), in the order   *)
(* of hook_list_all:                                                       *)
(*                                                                         *)
(*   - a SYSCALL hook goes into the system's vector table.  The original   *)
(*     handler is saved in an os_ pointer, for the functions that have     *)
(*     one, or in a free vector to which the stub of this module is        *)
(*     redirected, so that the hooks, the log and the kernel thread still  *)
(*     reach the system;                                                   *)
(*   - a MODULE hook goes into the image of the game, where the pre-patch  *)
(*     has left the NID as a mark.                                         *)
(*                                                                         *)
(* The table is live: every store is seen by all threads of the system.    *)
(***************************************************************************)
EXTENDS Integers, FiniteSets

CONSTANTS
    N,          \* entries of hook_list_all
    Num,        \* the system call number behind each entry's stub
    ByPointer,  \* the entries with an api_ptr (HOOK_ENTRYE)
    Used,       \* the vectors the system uses
    Top,        \* the last vector (0x2fff)
    Start,      \* SYCALL_HOOK_START (0x2fe0)
    Limit,      \* the highest last vector check_free_vector accepts (0x2ff0)
    Types,      \* the configurations: what the NID= lines make of func_hook_type
    Marked      \* the entries whose mark the pre-patch left in the image

Entries == 1 .. N

ASSUME HookInstallAssumption ==
    /\ N \in Nat /\ Top \in Nat /\ Start \in 1 .. Top /\ Limit \in 1 .. Top
    /\ Used \subseteq 1 .. Top - 1
    /\ Num \in [Entries -> Used] /\ \A i, j \in Entries : Num[i] = Num[j] => i = j
    /\ ByPointer \subseteq Entries /\ Marked \subseteq Entries
    /\ Types \subseteq [Entries -> {"N", "M", "S"}]

(* What the code relies on and does not check: the vectors it takes, below *)
(* Start, are not in use.                                                  *)
Room == \A n \in Used : n < Start - N

VARIABLES
    func_hook_type,
    SYSCALL_TBL,
    stub,       \* the vector each stub of this module calls
    os,         \* the os_ pointers, written through api_ptr
    image,      \* the entries of the game's image that jump to a hook
    rep_num, i, pc

vars == <<func_hook_type, SYSCALL_TBL, stub, os, image, rep_num, i, pc>>

(* What a vector or a pointer leads to.                                    *)
Sys(n) == [to |-> "system", num |-> n]
Hook(e) == [to |-> "hook", num |-> e]
Free == [to |-> "free", num |-> 0]
NULL == [to |-> "NULL", num |-> 0]
Vectors == 1 .. Top
Handlers == {Sys(n) : n \in Used} \cup {Hook(e) : e \in Entries} \cup {Free, NULL}

Init ==
    /\ func_hook_type \in Types
    /\ SYSCALL_TBL = [n \in Vectors |-> IF n \in Used THEN Sys(n) ELSE Free]
    /\ stub = Num
    /\ os = [e \in Entries |-> NULL]
    /\ image = {}
    /\ rep_num = Start /\ i = 1 /\ pc = "check"

-----------------------------------------------------------------------------
(* check_free_vector: above the last vector in use all are free, and it    *)
(* is not too high.                                                        *)
UsedVectors == {n \in 1 .. Top - 1 : SYSCALL_TBL[n] # SYSCALL_TBL[Top]}
VectorTableOk == UsedVectors # {} /\ \A n \in UsedVectors : n <= Limit

(* The boot program gives up if a SYSCALL hook is asked for and the table  *)
(* does not look right, or if no hook is asked for.                        *)
Asked(type) == \E e \in Entries : func_hook_type[e] = type
CheckFreeVector ==
    /\ pc = "check"
    /\ pc' = IF (Asked("S") => VectorTableOk) /\ (Asked("S") \/ Asked("M"))
             THEN "loop" ELSE "exit"
    /\ UNCHANGED <<func_hook_type, SYSCALL_TBL, stub, os, image, rep_num, i>>

NextEntry == i' = i + 1 /\ pc' = "loop"
At(place, type) == pc = place /\ i \in Entries /\ func_hook_type[i] = type

Skip ==
    /\ At("loop", "N")
    /\ NextEntry
    /\ UNCHANGED <<func_hook_type, SYSCALL_TBL, stub, os, image, rep_num>>

\* Variant: the case falls through to the patch of the vector.
HookModuleOne_FallsThrough ==
    /\ At("loop", "M")
    /\ image' = image \cup ({i} \cap Marked)
    /\ pc' = "table"
    /\ UNCHANGED <<func_hook_type, SYSCALL_TBL, stub, os, rep_num, i>>

(* hook_module_one finds the mark, or logs that it is not there.           *)
HookModuleOne ==
    /\ At("loop", "M")
    /\ image' = image \cup ({i} \cap Marked)
    /\ NextEntry
    /\ UNCHANGED <<func_hook_type, SYSCALL_TBL, stub, os, rep_num>>

SavePointer ==
    /\ At("loop", "S") /\ i \in ByPointer
    /\ os' = [os EXCEPT ![i] = SYSCALL_TBL[stub[i]]]
    /\ pc' = "table"
    /\ UNCHANGED <<func_hook_type, SYSCALL_TBL, stub, image, rep_num, i>>

\* Variant: the vectors are taken upwards.
CopyVector_Up ==
    /\ At("loop", "S") /\ i \notin ByPointer
    /\ rep_num' = rep_num + 1
    /\ SYSCALL_TBL' = [SYSCALL_TBL EXCEPT ![rep_num'] = SYSCALL_TBL[stub[i]]]
    /\ pc' = "stub"
    /\ UNCHANGED <<func_hook_type, stub, os, image, i>>

\* Variant: every original goes into the same vector.
CopyVector_SameVector ==
    /\ At("loop", "S") /\ i \notin ByPointer
    /\ rep_num' = Start - 1
    /\ SYSCALL_TBL' = [SYSCALL_TBL EXCEPT ![rep_num'] = SYSCALL_TBL[stub[i]]]
    /\ pc' = "stub"
    /\ UNCHANGED <<func_hook_type, stub, os, image, i>>

CopyVector ==
    /\ At("loop", "S") /\ i \notin ByPointer
    /\ rep_num' = rep_num - 1
    /\ SYSCALL_TBL' = [SYSCALL_TBL EXCEPT ![rep_num'] = SYSCALL_TBL[stub[i]]]
    /\ pc' = "stub"
    /\ UNCHANGED <<func_hook_type, stub, os, image, i>>

\* Variant: the stub is left as it is.
RedirectStub_Kept ==
    /\ At("stub", "S")
    /\ pc' = "table"
    /\ UNCHANGED <<func_hook_type, SYSCALL_TBL, stub, os, image, rep_num, i>>

RedirectStub ==
    /\ At("stub", "S")
    /\ stub' = [stub EXCEPT ![i] = rep_num]
    /\ pc' = "table"
    /\ UNCHANGED <<func_hook_type, SYSCALL_TBL, os, image, rep_num, i>>

(* syscall_num was read from the stub before it was redirected.            *)
PatchVector ==
    /\ pc = "table"
    /\ SYSCALL_TBL' = [SYSCALL_TBL EXCEPT ![Num[i]] = Hook(i)]
    /\ NextEntry
    /\ UNCHANGED <<func_hook_type, stub, os, image, rep_num>>

Done ==
    /\ pc = "loop" /\ i = N + 1
    /\ pc' = "done"
    /\ UNCHANGED <<func_hook_type, SYSCALL_TBL, stub, os, image, rep_num, i>>

(* func_hook_stop calls restore_hook, whose loop runs over no entry.       *)
RestoreHook ==
    /\ pc = "done"
    /\ pc' = "stopped"
    /\ UNCHANGED <<func_hook_type, SYSCALL_TBL, stub, os, image, rep_num, i>>

Next ==
    \/ CheckFreeVector \/ Skip \/ HookModuleOne \/ SavePointer
    \/ CopyVector \/ RedirectStub \/ PatchVector \/ Done \/ RestoreHook

Spec == Init /\ [][Next]_vars

-----------------------------------------------------------------------------
(* Every variable has the type the code gives it.                          *)
TypeOK ==
    /\ func_hook_type \in Types
    /\ SYSCALL_TBL \in [Vectors -> Handlers]
    /\ stub \in [Entries -> Vectors]
    /\ os \in [Entries -> Handlers]
    /\ image \subseteq Entries
    /\ rep_num \in Start - N .. Start
    /\ i \in 1 .. N + 1
    /\ pc \in {"check", "loop", "stub", "table", "done", "exit", "stopped"}

(* What the code of hook e reaches when it passes a call on.               *)
PassedOnTo(e) == IF e \in ByPointer THEN os[e] ELSE SYSCALL_TBL[stub[e]]

(* At every moment of the installation, every system call ends in the      *)
(* handler the system has for it, directly or through the hook of that     *)
(* very call: no vector the system uses is lost, no hook calls itself.     *)
Transparent ==
    \A n \in Used :
        \/ SYSCALL_TBL[n] = Sys(n)
        \/ \E e \in Entries :
              Num[e] = n /\ SYSCALL_TBL[n] = Hook(e) /\ PassedOnTo(e) = Sys(n)

(* The calls this module makes itself (the log writes to a file, the       *)
(* kernel thread loads modules) never enter its own hooks, but for those   *)
(* hooked by pointer.                                                      *)
InnerCallsDirect ==
    \A e \in Entries \ ByPointer : SYSCALL_TBL[stub[e]] = Sys(Num[e])

(* A hook the game's image jumps to passes its call on to the system.      *)
(* (False of a function with an os_ pointer: run HookModuleNull.)          *)
ModuleHooksServed == \A e \in image : PassedOnTo(e) = Sys(Num[e])

(* In the end exactly the entries the configuration asks for are hooked,   *)
(* each in the way it asks for.                                            *)
InstalledAsAsked ==
    pc = "done" =>
        \A e \in Entries :
            /\ SYSCALL_TBL[Num[e]] = Hook(e) <=> func_hook_type[e] = "S"
            /\ e \in image <=> func_hook_type[e] = "M" /\ e \in Marked
=============================================================================
