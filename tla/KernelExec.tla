----------------------------- MODULE KernelExec -----------------------------
(***************************************************************************)
(* The resident kernel thread of HOOK BOOT (func_hook.c, KernelExecThread) *)
(* and everything that talks to it:                                        *)
(*                                                                         *)
(*   - the load mailbox: the hooks of sceKernelLoadModule and              *)
(*     sceKernelLoadModuleByID leave their arguments in static variables,  *)
(*     put a command in threadCMD and poll until the thread has served it; *)
(*   - the emulated UMD drive: the hooks of sceUmdActivate, Deactivate,    *)
(*     WaitDriveStat, RegisterUMDCallBack and UnRegisterUMDCallBack share  *)
(*     the emulated status and a count of pending notifications with the   *)
(*     thread, which calls the game's callback.                            *)
(*                                                                         *)
(* The code has no lock: the statics say "use semaphore" and use none. One *)
(* action is one access to the shared statics that the other side can tell *)
(* from its neighbours; `x++' and `x--' are a load and a store.            *)
(*                                                                         *)
(* The thread has priority 0x11.  The scheduler is strict, so a game       *)
(* thread of a lower priority runs only while the kernel thread is         *)
(* blocked; PreemptK allows game threads of a higher priority too.         *)
(***************************************************************************)
EXTENDS Integers, FiniteSets

CONSTANTS
    Loaders,        \* game threads that load modules
    Players,        \* game threads that use the UMD drive
    Reqs,           \* the load calls the game makes, each at most once
    ByIdReqs,       \* those made with sceKernelLoadModuleByID
    Callbacks,      \* callback ids; a callback has its own function and arg
    Masks,          \* the masks the game passes to sceUmdWaitDriveStat
    None,           \* NULL, 0, or no request
    HasPathList,    \* the configuration names at least one replaced path
    PreemptK,       \* some game thread has a higher priority than 0x11
    MaxChanges,     \* bound on the status changes of a behaviour
    RuleSets        \* the sets of rules to consider

(* What game, build and boot program may keep to; the code enforces none.  *)
(*   "serial"  the game makes one load call at a time                      *)
(*   "stay"    the boot program does not call func_hook_stop               *)
(*   "prompt"  serving a load, and a caller's way from its poll to its     *)
(*             write, take less than the 100 ms of func_hook_stop          *)
(*   "quiet"   callbacks are registered and removed only while no          *)
(*             notification is pending or under way                        *)
(*   "fresh"   a callback is registered only while none is registered and  *)
(*             no other thread is registering one; removals are free       *)
(*   "nolog"   the build has no LOG_OUTPUT: between the test of the        *)
(*             callback and the call nothing blocks                        *)
Rules == {"serial", "stay", "prompt", "quiet", "fresh", "nolog"}

ASSUME KernelExecAssumption ==
    /\ Loaders \cap Players = {}
    /\ ByIdReqs \subseteq Reqs /\ Masks \subseteq SUBSET {1, 2, 4, 8, 16, 32}
    /\ None \notin Reqs \cup Callbacks
    /\ HasPathList \in BOOLEAN /\ PreemptK \in BOOLEAN
    /\ RuleSets \subseteq SUBSET Rules
    /\ MaxChanges \in Nat

VARIABLES
    threadCMD, mload_path, mload_id, mload_mod, mload_ret,
    loads,          \* how often the system loaded each image
    patched,        \* images whose import versions import_ver_hack visited
    todo,           \* load calls not made yet
    call,           \* the load call each thread is in
    reply,          \* what each load call returned
    umd_stat, umd_callback_request, umd_callback_func, umd_callback_id,
    umd_callback_arg, info,
    told,           \* the status last given to the registered callback
    want,           \* the callback a thread is (un)registering
    mask,           \* the bits a thread waits for
    reg,            \* a thread's register in umd_callback_request++
    changes,        \* status changes so far, bounded by MaxChanges
    pc,             \* where each game thread is
    kpc, kload, kreg,   \* the kernel thread: place, load arguments, register
                        \* (registers and arguments are reset after their use)
    spc,            \* the boot program in func_hook_stop
    rules           \* the rules kept in this behaviour

mailVars == <<mload_path, mload_id, mload_mod, mload_ret>>
loadVars == <<loads, patched, todo, call, reply>>
cbVars   == <<umd_callback_func, umd_callback_id, umd_callback_arg, info>>
umdVars  == <<umd_stat, umd_callback_request, cbVars, told, want, mask, reg, changes>>
kVars    == <<kpc, kload, kreg>>
vars     == <<threadCMD, mailVars, loadVars, umdVars, pc, kVars, spc, rules>>

Threads == Loaders \cup Players

Serialised == "serial" \in rules
MayStop == "stay" \notin rules

(* The commands set by the code; nobody sets the two that have no case.    *)
Commands == {"IDLE", "LOAD_MODULE", "LOAD_MODULE_BYID", "EXIT"}
LoadCommands == {"LOAD_MODULE", "LOAD_MODULE_BYID"}
CommandOf(r) == IF r \in ByIdReqs THEN "LOAD_MODULE_BYID" ELSE "LOAD_MODULE"

(* What one call of the system's loader was asked for: by file or by id,   *)
(* which file or id, and whose parameter block.                            *)
Images == [by : LoadCommands, what : Reqs \cup {None}, mod : Reqs \cup {None}]
OwnImage == [r \in Reqs |-> [by |-> CommandOf(r), what |-> r, mod |-> r]]
NoImage == [by |-> "LOAD_MODULE", what |-> None, mod |-> None]

(* Drive status bits, as the comment above sceUmdGetDriveStat lists them.  *)
Bits == {1, 2, 4, 8, 16, 32}
UMD_POWERUP  == {2}
UMD_DEACTIVE == {2, 8}
UMD_ACTIVE   == {2, 32}

(* The kernel thread between its test of the request count and the end of  *)
(* the decrement.                                                          *)
Window == {"umdwait", "armed", "callback", "dec", "decst"}
Registering == {"reg1", "reg2", "unreg"}
Changing == {"inc", "incst"}

Init ==
    /\ threadCMD = "IDLE"
    /\ mload_path = None /\ mload_id = None /\ mload_mod = None
    /\ mload_ret = NoImage
    /\ loads = [i \in Images |-> 0] /\ patched = {}
    /\ todo = Reqs
    /\ call = [t \in Threads |-> None] /\ reply = [r \in Reqs |-> NoImage]
    /\ umd_stat = UMD_POWERUP /\ umd_callback_request = 0
    /\ umd_callback_func = None /\ umd_callback_id = None
    /\ umd_callback_arg = None /\ info = None
    /\ told = UMD_POWERUP
    /\ want = [t \in Threads |-> None] /\ mask = [t \in Threads |-> {}]
    /\ reg = [t \in Threads |-> 0] /\ changes = 0
    /\ pc = [t \in Threads |-> "idle"]
    /\ kpc = "top" /\ kload = NoImage /\ kreg = 0
    /\ spc = "run" /\ rules \in RuleSets

Goto(t, from, to) == pc[t] = from /\ pc' = [pc EXCEPT ![t] = to]

(* Places where the kernel thread sleeps or waits for the memory stick; at *)
(* "armed" it does so to write a line of the log.                          *)
Blocked == {"sleep", "umdwait", "callback", "loading", "exited", "crashed"}
           \cup IF "nolog" \in rules THEN {} ELSE {"armed"}
MayRun == PreemptK \/ kpc \in Blocked

-----------------------------------------------------------------------------
(* The load mailbox, seen from a game thread.                              *)

(* makePath copies the path into mload_path only when the path list has an *)
(* entry to try; its result is not used.                                   *)
LoadModule(t, r) ==
    /\ Goto(t, "idle", "args")
    /\ r \in todo \ ByIdReqs
    /\ Serialised => \A u \in Loaders : pc[u] = "idle"
    /\ todo' = todo \ {r} /\ call' = [call EXCEPT ![t] = r]
    /\ mload_path' = IF HasPathList THEN r ELSE mload_path
    /\ UNCHANGED <<threadCMD, mload_id, mload_mod, mload_ret, loads, patched, reply>>

LoadModuleByID(t, r) ==
    /\ Goto(t, "idle", "args")
    /\ r \in todo \cap ByIdReqs
    /\ Serialised => \A u \in Loaders : pc[u] = "idle"
    /\ todo' = todo \ {r} /\ call' = [call EXCEPT ![t] = r]
    /\ mload_id' = r
    /\ UNCHANGED <<threadCMD, mload_path, mload_mod, mload_ret, loads, patched, reply>>

(* mload_zero and mload_mod.                                               *)
LoadArgs(t) ==
    /\ Goto(t, "args", "awaitidle")
    /\ mload_mod' = call[t]
    /\ UNCHANGED <<threadCMD, mload_path, mload_id, mload_ret, loadVars>>

(* set_kthread_cmd: poll for CMD_IDLE, write the command, poll until it is *)
(* gone.  The three steps are not one.                                     *)
AwaitIdle(t) ==
    /\ Goto(t, "awaitidle", "post")
    /\ threadCMD = "IDLE"
    /\ UNCHANGED <<threadCMD, mailVars, loadVars>>

PostCommand(t) ==
    /\ Goto(t, "post", "awaitdone")
    /\ threadCMD' = CommandOf(call[t])
    /\ UNCHANGED <<mailVars, loadVars>>

\* Variant: the second polling loop of set_kthread_cmd is missing.
AwaitDone_Unguarded(t) ==
    /\ Goto(t, "awaitdone", "fetch")
    /\ UNCHANGED <<threadCMD, mailVars, loadVars>>

AwaitDone(t) ==
    /\ Goto(t, "awaitdone", "fetch")
    /\ threadCMD # CommandOf(call[t])
    /\ UNCHANGED <<threadCMD, mailVars, loadVars>>

FetchResult(t) ==
    /\ Goto(t, "fetch", "idle")
    /\ reply' = [reply EXCEPT ![call[t]] = mload_ret]
    /\ call' = [call EXCEPT ![t] = None]
    /\ UNCHANGED <<threadCMD, mailVars, loads, patched, todo>>

LoaderContinues(t) ==
    \/ LoadArgs(t) \/ AwaitIdle(t) \/ PostCommand(t)
    \/ AwaitDone(t) \/ FetchResult(t)

LoaderStep(t) ==
    /\ MayRun
    /\ \/ \E r \in Reqs : LoadModule(t, r) \/ LoadModuleByID(t, r)
       \/ LoaderContinues(t)
    /\ UNCHANGED <<umdVars, kVars, spc, rules>>

-----------------------------------------------------------------------------
(* The emulated drive, seen from a game thread.                            *)

Quiescent ==
    /\ umd_callback_request <= 0 /\ kpc \notin Window
    /\ \A u \in Players : pc[u] \notin Changing \cup Registering

MayRegister ==
    /\ "quiet" \in rules => Quiescent
    /\ "fresh" \in rules => /\ umd_callback_func = None
                           /\ \A u \in Players : pc[u] \notin {"reg1", "reg2"}

(* sceUmdActivate and sceUmdDeactivate: the status, then the request count.*)
\* Variant: the bits are added to the status (|= for =).
ChangeStat_Or(t, stat) ==
    /\ Goto(t, "idle", "inc")
    /\ changes < MaxChanges /\ changes' = changes + 1
    /\ "quiet" \in rules => \A u \in Players : pc[u] \notin Registering
    /\ umd_stat' = umd_stat \cup stat
    /\ UNCHANGED <<umd_callback_request, cbVars, told, want, mask, reg>>

ChangeStat(t, stat) ==
    /\ Goto(t, "idle", "inc")
    /\ changes < MaxChanges /\ changes' = changes + 1
    /\ "quiet" \in rules => \A u \in Players : pc[u] \notin Registering
    /\ umd_stat' = stat
    /\ UNCHANGED <<umd_callback_request, cbVars, told, want, mask, reg>>

Activate(t) == ChangeStat(t, UMD_ACTIVE)
Deactivate(t) == ChangeStat(t, UMD_DEACTIVE)

RequestLoad(t) ==
    /\ Goto(t, "inc", "incst")
    /\ reg' = [reg EXCEPT ![t] = umd_callback_request]
    /\ UNCHANGED <<umd_stat, umd_callback_request, cbVars, told, want, mask, changes>>

\* Variant: the count is stored as it was loaded.
RequestStore_NoIncrement(t) ==
    /\ Goto(t, "incst", "idle")
    /\ umd_callback_request' = reg[t] /\ reg' = [reg EXCEPT ![t] = 0]
    /\ UNCHANGED <<umd_stat, cbVars, told, want, mask, changes>>

RequestStore(t) ==
    /\ Goto(t, "incst", "idle")
    /\ umd_callback_request' = reg[t] + 1 /\ reg' = [reg EXCEPT ![t] = 0]
    /\ UNCHANGED <<umd_stat, cbVars, told, want, mask, changes>>

WaitDriveStat(t, a) ==
    /\ Goto(t, "idle", "waitstat")
    /\ mask' = [mask EXCEPT ![t] = a]
    /\ UNCHANGED <<umd_stat, umd_callback_request, cbVars, told, want, reg, changes>>

\* Variant: the status is compared with the mask as a whole.
DriveReady_Exact(t) ==
    /\ Goto(t, "waitstat", "idle")
    /\ umd_stat = mask[t]
    /\ mask' = [mask EXCEPT ![t] = {}]
    /\ UNCHANGED <<umd_stat, umd_callback_request, cbVars, told, want, reg, changes>>

DriveReady(t) ==
    /\ Goto(t, "waitstat", "idle")
    /\ umd_stat \cap mask[t] # {}
    /\ mask' = [mask EXCEPT ![t] = {}]
    /\ UNCHANGED <<umd_stat, umd_callback_request, cbVars, told, want, reg, changes>>

(* sceUmdRegisterUMDCallBack: refer the callback's status into the static  *)
(* `info', reset the count, take the argument, then the function.          *)
RegisterUMDCallBack(t, c) ==
    /\ Goto(t, "idle", "reg1")
    /\ MayRegister
    /\ info' = c /\ want' = [want EXCEPT ![t] = c]
    /\ UNCHANGED <<umd_stat, umd_callback_request, umd_callback_func, umd_callback_id,
                   umd_callback_arg, told, mask, reg, changes>>

\* Variant: the function is published before its argument.
RegisterArg_FuncFirst(t) ==
    /\ Goto(t, "reg1", "reg2")
    /\ umd_callback_request' = 0
    /\ umd_callback_id' = want[t] /\ umd_callback_func' = info
    /\ UNCHANGED <<umd_stat, umd_callback_arg, info, told, want, mask, reg, changes>>

RegisterArg(t) ==
    /\ Goto(t, "reg1", "reg2")
    /\ umd_callback_request' = 0
    /\ umd_callback_id' = want[t] /\ umd_callback_arg' = info
    /\ UNCHANGED <<umd_stat, umd_callback_func, info, told, want, mask, reg, changes>>

RegisterFunc(t) ==
    /\ Goto(t, "reg2", "idle")
    /\ umd_callback_func' = info /\ told' = umd_stat
    /\ want' = [want EXCEPT ![t] = None]
    /\ UNCHANGED <<umd_stat, umd_callback_request, umd_callback_id,
                   umd_callback_arg, info, mask, reg, changes>>

(* sceUmdUnRegisterUMDCallBack of the callback that is registered: a test, *)
(* a line in the log, the reset.                                           *)
UnRegisterUMDCallBack(t, c) ==
    /\ Goto(t, "idle", "unreg")
    /\ "quiet" \in rules => Quiescent
    /\ umd_callback_func # None /\ umd_callback_id = c
    /\ UNCHANGED umdVars

UnRegisterFunc(t) ==
    /\ Goto(t, "unreg", "idle")
    /\ umd_callback_func' = None
    /\ UNCHANGED <<umd_stat, umd_callback_request, umd_callback_id,
                   umd_callback_arg, info, told, want, mask, reg, changes>>

PlayerContinues(t) ==
    \/ RequestLoad(t) \/ RequestStore(t) \/ DriveReady(t)
    \/ RegisterArg(t) \/ RegisterFunc(t) \/ UnRegisterFunc(t)

PlayerStep(t) ==
    /\ MayRun
    /\ \/ Activate(t) \/ Deactivate(t)
       \/ \E a \in Masks : WaitDriveStat(t, a)
       \/ \E c \in Callbacks : RegisterUMDCallBack(t, c) \/ UnRegisterUMDCallBack(t, c)
       \/ PlayerContinues(t)
    /\ UNCHANGED <<threadCMD, mailVars, loadVars, kVars, spc, rules>>

-----------------------------------------------------------------------------
(* KernelExecThread.                                                       *)

KGoto(from, to) == kpc = from /\ kpc' = to
UmdFrame == <<umd_stat, umd_callback_id, umd_callback_arg, info, want, mask, reg, changes>>

\* Variant: a count of zero is taken for a request.
KIdle_AtZero ==
    /\ threadCMD = "IDLE"
    /\ KGoto("top", IF umd_callback_request >= 0 THEN "umdwait" ELSE "sleep")
    /\ UNCHANGED <<threadCMD, mailVars, loadVars, umdVars, kload, kreg>>

(* case CMD_IDLE *)
KIdle ==
    /\ threadCMD = "IDLE"
    /\ KGoto("top", IF umd_callback_request > 0 THEN "umdwait" ELSE "sleep")
    /\ UNCHANGED <<threadCMD, mailVars, loadVars, umdVars, kload, kreg>>

\* Variant: the function is not tested.
KTestFunc_Untested ==
    /\ KGoto("umdwait", "armed")
    /\ UNCHANGED <<threadCMD, mailVars, loadVars, umdVars, kload, kreg>>

(* After 5 ms: is there a function to call?                                *)
KTestFunc ==
    /\ KGoto("umdwait", IF umd_callback_func # None THEN "armed" ELSE "dec")
    /\ UNCHANGED <<threadCMD, mailVars, loadVars, umdVars, kload, kreg>>

(* After the log line the volatile pointer is read again and called.       *)
KCall ==
    /\ KGoto("armed", IF umd_callback_func # None THEN "callback" ELSE "crashed")
    /\ told' = umd_stat
    /\ UNCHANGED <<threadCMD, mailVars, loadVars, UmdFrame, umd_callback_request,
                   umd_callback_func, kload, kreg>>

(* A callback that does not return 0 is removed.                           *)
KCallReturns(keep) ==
    /\ KGoto("callback", "dec")
    /\ umd_callback_func' = IF keep THEN umd_callback_func ELSE None
    /\ UNCHANGED <<threadCMD, mailVars, loadVars, UmdFrame, umd_callback_request,
                   told, kload, kreg>>

KRequestLoad ==
    /\ KGoto("dec", "decst")
    /\ kreg' = umd_callback_request
    /\ UNCHANGED <<threadCMD, mailVars, loadVars, umdVars, kload>>

KRequestStore ==
    /\ KGoto("decst", "sleep")
    /\ umd_callback_request' = kreg - 1 /\ kreg' = 0
    /\ UNCHANGED <<threadCMD, mailVars, loadVars, UmdFrame, umd_callback_func,
                   told, kload>>

KWake ==
    /\ KGoto("sleep", "top")
    /\ UNCHANGED <<threadCMD, mailVars, loadVars, umdVars, kload, kreg>>

\* Variant: the switch has no case for CMD_LOAD_MODULE_BYID.
KTakeLoad_PathOnly ==
    /\ threadCMD \in LoadCommands
    /\ KGoto("top", IF threadCMD = "LOAD_MODULE" THEN "loading" ELSE "sleep")
    /\ kload' = [by |-> threadCMD, what |-> mload_id, mod |-> mload_mod]
    /\ UNCHANGED <<threadCMD, mailVars, loadVars, umdVars, kreg>>

(* case CMD_LOAD_MODULE and CMD_LOAD_MODULE_BYID: the id and the parameter *)
(* block are passed by value, the path by address.                         *)
KTakeLoad ==
    /\ threadCMD \in LoadCommands
    /\ KGoto("top", "loading")
    /\ kload' = [by |-> threadCMD, what |-> mload_id, mod |-> mload_mod]
    /\ UNCHANGED <<threadCMD, mailVars, loadVars, umdVars, kreg>>

Image == IF kload.by = "LOAD_MODULE" THEN [kload EXCEPT !.what = mload_path] ELSE kload

\* Variant: the command is cleared before import_ver_hack.
KLoad_EarlyIdle ==
    /\ KGoto("loading", "hack")
    /\ loads' = [loads EXCEPT ![Image] = @ + 1]
    /\ mload_ret' = Image /\ threadCMD' = "IDLE"
    /\ UNCHANGED <<mload_path, mload_id, mload_mod, patched, todo, call, reply,
                   umdVars, kload, kreg>>

KLoad ==
    /\ KGoto("loading", "hack")
    /\ loads' = [loads EXCEPT ![Image] = @ + 1]
    /\ mload_ret' = Image
    /\ UNCHANGED <<threadCMD, mload_path, mload_id, mload_mod, patched, todo, call, reply,
                   umdVars, kload, kreg>>

KImportVerHack ==
    /\ KGoto("hack", "done")
    /\ patched' = {i \in Images : loads[i] > 0}
    /\ UNCHANGED <<threadCMD, mailVars, loads, todo, call, reply, umdVars, kload, kreg>>

\* Variant: the command is not cleared.
KFinishLoad_NoIdle ==
    /\ KGoto("done", "sleep")
    /\ kload' = NoImage
    /\ UNCHANGED <<threadCMD, mailVars, loadVars, umdVars, kreg>>

KFinishLoad ==
    /\ KGoto("done", "sleep")
    /\ threadCMD' = "IDLE" /\ kload' = NoImage
    /\ UNCHANGED <<mailVars, loadVars, umdVars, kreg>>

KExit ==
    /\ threadCMD = "EXIT"
    /\ KGoto("top", "exited")
    /\ UNCHANGED <<threadCMD, mailVars, loadVars, umdVars, kload, kreg>>

KStep ==
    /\ \/ KIdle \/ KTestFunc \/ KCall \/ (\E keep \in BOOLEAN : KCallReturns(keep))
       \/ KRequestLoad \/ KRequestStore \/ KWake
       \/ KTakeLoad \/ KLoad \/ KImportVerHack \/ KFinishLoad \/ KExit
    /\ UNCHANGED <<pc, spc, rules>>

-----------------------------------------------------------------------------
(* func_hook_stop, called by the boot program when the game did not start: *)
(* CMD_EXIT is written, and written again 100 ms later.  What a load that  *)
(* was being served, or a caller that had seen CMD_IDLE, wrote over the    *)
(* first is then written over by the second.                               *)
LoadPassed == kpc \notin {"loading", "hack", "done"} /\ \A t \in Loaders : pc[t] # "post"

Stop(from, to) ==
    /\ MayStop /\ MayRun
    /\ spc = from /\ spc' = to
    /\ from = "again" /\ "prompt" \in rules => LoadPassed
    /\ threadCMD' = "EXIT"
    /\ UNCHANGED <<mailVars, loadVars, umdVars, pc, kVars, rules>>

\* Variant: the exit command is written once.
StopStep_Once == Stop("run", "stopped")

StopStep == Stop("run", "again") \/ Stop("again", "stopped")

Next ==
    \/ \E t \in Loaders : LoaderStep(t)
    \/ \E t \in Players : PlayerStep(t)
    \/ KStep
    \/ StopStep

(* The kernel thread is never starved.  A game thread that has entered a   *)
(* hook goes on: strong fairness, because the kernel thread keeps taking   *)
(* the processor for a moment and giving it back.  (It is not stronger     *)
(* than that: calls and changes are bounded, so what a polling loop waits  *)
(* for is true for good or not at all.)  The boot program ends what it     *)
(* began.                                                                  *)
Fairness ==
    /\ WF_vars(KStep)
    /\ \A t \in Loaders : SF_vars(LoaderStep(t) /\ LoaderContinues(t))
    /\ \A t \in Players : SF_vars(PlayerStep(t) /\ PlayerContinues(t))
    /\ SF_vars(Stop("again", "stopped"))

Spec == Init /\ [][Next]_vars /\ Fairness
-----------------------------------------------------------------------------
(* Every variable has the type the code gives it.                          *)
LoaderPlaces == {"idle", "args", "awaitidle", "post", "awaitdone", "fetch"}
PlayerPlaces == {"idle", "waitstat"} \cup Changing \cup Registering
KPlaces == Window \cup {"top", "sleep", "loading", "hack", "done", "exited", "crashed"}

TypeOK ==
    /\ threadCMD \in Commands
    /\ mload_path \in Reqs \cup {None} /\ mload_id \in Reqs \cup {None}
    /\ mload_mod \in Reqs \cup {None} /\ mload_ret \in Images
    /\ loads \in [Images -> Nat] /\ patched \subseteq Images
    /\ todo \subseteq Reqs
    /\ call \in [Threads -> Reqs \cup {None}] /\ reply \in [Reqs -> Images]
    /\ umd_stat \in {UMD_POWERUP, UMD_DEACTIVE, UMD_ACTIVE}
    /\ umd_callback_request \in Int
    /\ umd_callback_func \in Callbacks \cup {None}
    /\ umd_callback_id \in Callbacks \cup {None}
    /\ umd_callback_arg \in Callbacks \cup {None}
    /\ info \in Callbacks \cup {None}
    /\ told \in {UMD_POWERUP, UMD_DEACTIVE, UMD_ACTIVE}
    /\ want \in [Threads -> Callbacks \cup {None}]
    /\ mask \in [Threads -> SUBSET Bits]
    /\ reg \in [Threads -> Int] /\ changes \in 0 .. MaxChanges
    /\ pc \in [Threads -> LoaderPlaces \cup PlayerPlaces]
    /\ \A t \in Loaders : pc[t] \in LoaderPlaces /\ (call[t] = None <=> pc[t] = "idle")
    /\ \A t \in Players : pc[t] \in PlayerPlaces
    /\ kpc \in KPlaces /\ kload \in Images /\ kreg \in Int
    /\ spc \in {"run", "again", "stopped"} /\ rules \in RuleSets

-----------------------------------------------------------------------------
(* The load mailbox.                                                       *)

(* A load command is in threadCMD only while the thread that wrote it, or  *)
(* another with the same command, polls for its end: no command is left    *)
(* behind for a caller that has already returned (set_kthread_cmd).        *)
NoOrphanCommand ==
    threadCMD \in LoadCommands =>
        \E t \in Loaders : pc[t] = "awaitdone" /\ CommandOf(call[t]) = threadCMD

(* A call that has returned: not in todo, and no thread is in it.          *)
Returned == {r \in Reqs \ todo : \A t \in Loaders : call[t] # r}

(* If the game makes one load call at a time and the thread is not         *)
(* stopped, every load call that returned got the result of the very       *)
(* module it asked for (mload_ret read after the command was served) ...   *)
OwnResult ==
    Serialised /\ ~MayStop => \A r \in Returned : reply[r] = OwnImage[r]

(* ... and made the system load its module exactly once, with              *)
(* import_ver_hack visiting it before the call returned.                   *)
LoadedOnceAndPatched ==
    Serialised /\ ~MayStop =>
        \A r \in Returned : loads[OwnImage[r]] = 1 /\ OwnImage[r] \in patched

(* Whatever the threads do, every load call ends (the two polling loops of *)
(* set_kthread_cmd), unless the boot program stops the kernel thread.      *)
CallsReturn == \A t \in Loaders : ~MayStop /\ pc[t] # "idle" ~> pc[t] = "idle"

(* What ModuleLoader promises is what the mailbox does.                    *)
Promise == INSTANCE ModuleLoader WITH Own <- OwnImage, Nothing <- NoImage
PromiseSpec == Promise!Spec

-----------------------------------------------------------------------------
(* The emulated UMD drive.                                                 *)

(* If callbacks are registered and removed only while no notification is   *)
(* pending, the count of pending notifications never goes below zero: at   *)
(* -1 the next change of the status would only bring it to 0, unnoticed.   *)
RequestNonNegative == "quiet" \in rules => umd_callback_request >= 0

(* The kernel thread never calls through the pointer it has tested after   *)
(* somebody reset it: not if callbacks are removed between notifications   *)
(* only; and not with removals at any time either if nothing blocks        *)
(* between the test and the call and no game thread has a priority above   *)
(* 0x11.  (That the count is tested 5 ms before the pointer does no harm.) *)
NoNullCall ==
    "quiet" \in rules \/ ("nolog" \in rules /\ ~PreemptK) => kpc # "crashed"

(* The function that is about to be called has the argument registered     *)
(* with it and the id under which it can be removed, also when its         *)
(* registration overlaps a notification, as long as it replaces no other.  *)
OwnArgument ==
    /\ umd_callback_func # None
    /\ "fresh" \in rules \/ ("quiet" \in rules /\ kpc \in Window)
    => umd_callback_arg = umd_callback_func /\ umd_callback_id = umd_callback_func

(* If callbacks are registered and removed only while no notification is   *)
(* pending: when the status changes, the registered callback is called     *)
(* with the new status, unless it is removed, the status changes back, or  *)
(* the boot program stops the thread.                                      *)
StatusDelivered ==
    "quiet" \in rules /\ umd_callback_func # None /\ told # umd_stat
        ~> umd_callback_func = None \/ told = umd_stat \/ spc # "run"

(* No thread stays in sceUmdWaitDriveStat while the drive keeps a bit of   *)
(* its mask: the 10 ms poll sees a status that does not change back.       *)
WaitEnds ==
    \A t \in Players : []<>~(pc[t] = "waitstat" /\ mask[t] \cap umd_stat # {})

(* After func_hook_stop has returned, the kernel thread leaves its loop,   *)
(* even if a load was being served when the stop began: the second write   *)
(* comes after whatever that load wrote over the first.                    *)
StopEndsThread == "prompt" \in rules /\ spc = "stopped" ~> kpc = "exited"
=============================================================================
