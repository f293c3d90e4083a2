-------------------------- MODULE KernelExecProofs --------------------------
(***************************************************************************)
(* Theorems about KernelExec, for every set of threads, calls and          *)
(* callbacks.  They use only the safety part of Spec.                      *)
(***************************************************************************)
EXTENDS KernelExec, TLAPS

LEMMA InitType == Init => TypeOK
  <1> SUFFICES ASSUME Init PROVE TypeOK
    OBVIOUS
  <1> USE KernelExecAssumption
  <1>1. NoImage \in Images
    BY DEF NoImage, Images, LoadCommands
  <1> QED
    BY <1>1 DEF Init, TypeOK, Commands, Threads, LoaderPlaces, PlayerPlaces, KPlaces,
                Changing, Registering, Window

LEMMA LoaderType ==
    ASSUME TypeOK, NEW t \in Loaders, LoaderStep(t)
    PROVE  TypeOK'
  <1> USE KernelExecAssumption DEF TypeOK, Goto, Threads, LoaderPlaces, umdVars, cbVars,
          kVars, mailVars, loadVars
  <1> DEFINE Rest == UNCHANGED <<umdVars, kVars, spc, rules>>
  <1>0. Rest
    BY DEF LoaderStep
  <1>1. ASSUME NEW r \in Reqs, LoadModule(t, r) PROVE TypeOK'
    BY <1>0, <1>1 DEF LoadModule
  <1>2. ASSUME NEW r \in Reqs, LoadModuleByID(t, r) PROVE TypeOK'
    BY <1>0, <1>2 DEF LoadModuleByID
  <1>3. CASE LoadArgs(t)
    BY <1>0, <1>3 DEF LoadArgs
  <1>4. CASE AwaitIdle(t)
    BY <1>0, <1>4 DEF AwaitIdle
  <1>5. CASE PostCommand(t)
    BY <1>0, <1>5 DEF PostCommand, CommandOf, Commands
  <1>6. CASE AwaitDone(t)
    BY <1>0, <1>6 DEF AwaitDone
  <1>7. CASE FetchResult(t)
    BY <1>0, <1>7 DEF FetchResult
  <1> QED
    BY <1>1, <1>2, <1>3, <1>4, <1>5, <1>6, <1>7 DEF LoaderStep, LoaderContinues

LEMMA PlayerType ==
    ASSUME TypeOK, NEW t \in Players, PlayerStep(t)
    PROVE  TypeOK'
  <1> USE KernelExecAssumption DEF TypeOK, Goto, Threads, PlayerPlaces, Changing,
          Registering, umdVars, cbVars, kVars, mailVars, loadVars
  <1> DEFINE Rest == UNCHANGED <<threadCMD, mailVars, loadVars, kVars, spc, rules>>
  <1>0. Rest
    BY DEF PlayerStep
  <1>1. ASSUME NEW s \in {UMD_ACTIVE, UMD_DEACTIVE}, ChangeStat(t, s) PROVE TypeOK'
    BY <1>0, <1>1 DEF ChangeStat
  <1>2. ASSUME NEW a \in Masks, WaitDriveStat(t, a) PROVE TypeOK'
    BY <1>0, <1>2 DEF WaitDriveStat, Bits
  <1>3. ASSUME NEW c \in Callbacks, RegisterUMDCallBack(t, c) PROVE TypeOK'
    BY <1>0, <1>3 DEF RegisterUMDCallBack
  <1>4. ASSUME NEW c \in Callbacks, UnRegisterUMDCallBack(t, c) PROVE TypeOK'
    BY <1>0, <1>4 DEF UnRegisterUMDCallBack
  <1>5. CASE RequestLoad(t)
    BY <1>0, <1>5 DEF RequestLoad
  <1>6. CASE RequestStore(t)
    BY <1>0, <1>6 DEF RequestStore
  <1>7. CASE DriveReady(t)
    BY <1>0, <1>7 DEF DriveReady
  <1>8. CASE RegisterArg(t)
    BY <1>0, <1>8 DEF RegisterArg
  <1>9. CASE RegisterFunc(t)
    BY <1>0, <1>9 DEF RegisterFunc
  <1>10. CASE UnRegisterFunc(t)
    BY <1>0, <1>10 DEF UnRegisterFunc
  <1> QED
    BY <1>1, <1>2, <1>3, <1>4, <1>5, <1>6, <1>7, <1>8, <1>9, <1>10
       DEF PlayerStep, PlayerContinues, Activate, Deactivate

LEMMA ImageType == TypeOK => Image \in Images
  BY DEF TypeOK, Image, Images, LoadCommands

LEMMA KernelType ==
    ASSUME TypeOK, KStep
    PROVE  TypeOK'
  <1> USE DEF TypeOK, KGoto, KPlaces, Window, Threads, umdVars, cbVars, UmdFrame, mailVars,
          loadVars
  <1>0. UNCHANGED <<pc, spc, rules>>
    BY DEF KStep
  <1>1. CASE KIdle
    BY <1>0, <1>1 DEF KIdle
  <1>2. CASE KTestFunc
    BY <1>0, <1>2 DEF KTestFunc
  <1>3. CASE KCall
    BY <1>0, <1>3 DEF KCall
  <1>4. ASSUME NEW keep \in BOOLEAN, KCallReturns(keep) PROVE TypeOK'
    BY <1>0, <1>4 DEF KCallReturns
  <1>5. CASE KRequestLoad
    BY <1>0, <1>5 DEF KRequestLoad
  <1>6. CASE KRequestStore
    BY <1>0, <1>6 DEF KRequestStore
  <1>7. CASE KWake
    BY <1>0, <1>7 DEF KWake
  <1>8. CASE KTakeLoad
    BY <1>0, <1>8 DEF KTakeLoad, Images
  <1>9. CASE KLoad
    BY <1>0, <1>9, ImageType DEF KLoad
  <1>10. CASE KImportVerHack
    BY <1>0, <1>10 DEF KImportVerHack
  <1>11. CASE KFinishLoad
    BY <1>0, <1>11 DEF KFinishLoad, Commands, NoImage, Images, LoadCommands
  <1>12. CASE KExit
    BY <1>0, <1>12 DEF KExit
  <1> QED
    BY <1>1, <1>2, <1>3, <1>4, <1>5, <1>6, <1>7, <1>8, <1>9, <1>10, <1>11, <1>12 DEF KStep

LEMMA StopType == TypeOK /\ StopStep => TypeOK'
  BY DEF TypeOK, StopStep, Stop, Commands, mailVars, loadVars, umdVars, cbVars, kVars, Threads

(* Every variable keeps the type the code gives it.                        *)
THEOREM TypeCorrect == Spec => []TypeOK
  <1>1. TypeOK /\ [Next]_vars => TypeOK'
    <2> SUFFICES ASSUME TypeOK, [Next]_vars PROVE TypeOK'
      OBVIOUS
    <2>1. CASE UNCHANGED vars
      BY <2>1 DEF TypeOK, vars, mailVars, loadVars, umdVars, cbVars, kVars
    <2> QED
      BY <2>1, LoaderType, PlayerType, KernelType, StopType DEF Next
  <1> QED
    BY <1>1, InitType, PTL DEF Spec

-----------------------------------------------------------------------------
(* No load command is left in the mailbox without a caller that polls for  *)
(* its end, however the threads interleave and whether or not the boot     *)
(* program stops the kernel thread.                                        *)
THEOREM CommandHasCaller == Spec => []NoOrphanCommand
  <1>1. Init => NoOrphanCommand
    BY DEF Init, NoOrphanCommand, LoadCommands
  <1>2. TypeOK /\ NoOrphanCommand /\ [Next]_vars => NoOrphanCommand'
    <2> SUFFICES ASSUME TypeOK, NoOrphanCommand, [Next]_vars PROVE NoOrphanCommand'
      OBVIOUS
    <2> USE DEF NoOrphanCommand
    <2>1. ASSUME NEW t \in Loaders, LoaderStep(t) PROVE NoOrphanCommand'
      <3>1. CASE PostCommand(t)
        BY <2>1, <3>1 DEF PostCommand, Goto, CommandOf, LoadCommands, TypeOK, Threads, loadVars
      <3>2. CASE AwaitDone(t)
        BY <2>1, <3>2 DEF AwaitDone, Goto, CommandOf, TypeOK, Threads, loadVars
      <3>3. ASSUME NEW r \in Reqs, LoadModule(t, r) \/ LoadModuleByID(t, r) PROVE NoOrphanCommand'
        BY <2>1, <3>3 DEF LoadModule, LoadModuleByID, Goto, CommandOf, TypeOK, Threads
      <3>4. CASE LoadArgs(t) \/ AwaitIdle(t) \/ FetchResult(t)
        BY <2>1, <3>4 DEF LoadArgs, AwaitIdle, FetchResult, Goto, CommandOf, TypeOK, Threads,
           loadVars
      <3> QED
        BY <2>1, <3>1, <3>2, <3>3, <3>4 DEF LoaderStep, LoaderContinues
    <2>2. ASSUME NEW t \in Players, PlayerStep(t) PROVE NoOrphanCommand'
      <3>1. \A u \in Loaders : pc'[u] = pc[u]
        BY <2>2, KernelExecAssumption
           DEF PlayerStep, PlayerContinues, Activate, Deactivate, ChangeStat, WaitDriveStat,
               RegisterUMDCallBack, UnRegisterUMDCallBack, RequestLoad, RequestStore,
               DriveReady, RegisterArg, RegisterFunc, UnRegisterFunc, Goto, TypeOK, Threads
      <3> QED
        BY <2>2, <3>1 DEF PlayerStep, loadVars, CommandOf
    <2>3. CASE KStep
      BY <2>3 DEF KStep, KIdle, KTestFunc, KCall, KCallReturns, KRequestLoad, KRequestStore,
         KWake, KTakeLoad, KLoad, KImportVerHack, KFinishLoad, KExit, LoadCommands, loadVars,
         CommandOf
    <2>4. CASE StopStep
      BY <2>4 DEF StopStep, Stop, LoadCommands
    <2>5. CASE UNCHANGED vars
      BY <2>5 DEF vars, loadVars, CommandOf
    <2> QED
      BY <2>1, <2>2, <2>3, <2>4, <2>5 DEF Next
  <1> QED
    BY <1>1, <1>2, TypeCorrect, PTL DEF Spec

-----------------------------------------------------------------------------
(* The emulated drive.                                                     *)

(* Under rule "quiet": nobody registers while a notification is counted or *)
(* in progress, one thread registers at a time, and the count stays        *)
(* positive as long as the kernel thread is inside its window.             *)
UmdInv ==
    /\ umd_callback_request >= 0 /\ kpc # "crashed"
    /\ kpc \in Window => umd_callback_request >= 1
    /\ kpc = "decst" => kreg >= 1
    /\ kpc = "armed" => umd_callback_func # None
    /\ \A t \in Players : pc[t] = "incst" => reg[t] >= 0
    /\ \A t \in Players : pc[t] \in Registering =>
          /\ umd_callback_request = 0 /\ kpc \notin Window
          /\ \A u \in Players \ {t} : pc[u] \notin Changing \cup Registering
          /\ pc[t] \in {"reg1", "reg2"} => info = want[t]
          /\ pc[t] = "reg2" => umd_callback_id = info /\ umd_callback_arg = info
    /\ (\A t \in Players : pc[t] # "reg2") /\ umd_callback_func # None =>
          umd_callback_arg = umd_callback_func /\ umd_callback_id = umd_callback_func

(* Under rule "nolog", and when no game thread preempts the kernel thread: *)
(* what it has tested it finds again.                                      *)
TestInv == kpc # "crashed" /\ (kpc = "armed" => umd_callback_func # None)

(* Under rule "fresh": who registers does so alone, and stores id and      *)
(* argument while there is no function.                                    *)
FreshInv ==
    /\ \A t \in Players : pc[t] \in {"reg1", "reg2"} =>
          /\ umd_callback_func = None /\ info = want[t]
          /\ \A u \in Players \ {t} : pc[u] \notin {"reg1", "reg2"}
          /\ pc[t] = "reg2" => umd_callback_id = info /\ umd_callback_arg = info
    /\ umd_callback_func # None =>
          umd_callback_arg = umd_callback_func /\ umd_callback_id = umd_callback_func

RulesInv ==
    /\ "quiet" \in rules => UmdInv
    /\ "nolog" \in rules /\ ~PreemptK => TestInv
    /\ "fresh" \in rules => FreshInv

LEMMA UmdInvInit == Init => UmdInv
  BY KernelExecAssumption DEF Init, UmdInv, Window, Changing, Registering, Threads

LEMMA UmdInvPlayer ==
    ASSUME "quiet" \in rules, TypeOK, UmdInv, NEW t \in Players, PlayerStep(t)
    PROVE  UmdInv'
  <1> USE KernelExecAssumption DEF UmdInv, Goto, Changing, Registering, cbVars
  <1>0. /\ UNCHANGED <<kpc, kload, kreg>>
        /\ pc \in [Threads -> LoaderPlaces \cup PlayerPlaces] /\ t \in Threads
        /\ Players \subseteq Threads
        /\ umd_callback_request \in Int /\ kreg \in Int
        /\ reg \in [Threads -> Int] /\ want \in [Threads -> Callbacks \cup {None}]
    BY DEF PlayerStep, kVars, TypeOK, Threads
  <1>1. ASSUME NEW s \in {UMD_ACTIVE, UMD_DEACTIVE}, ChangeStat(t, s) PROVE UmdInv'
    BY <1>0, <1>1 DEF ChangeStat
  <1>2. ASSUME NEW a \in Masks, WaitDriveStat(t, a) PROVE UmdInv'
    BY <1>0, <1>2 DEF WaitDriveStat
  <1>3. ASSUME NEW c \in Callbacks, RegisterUMDCallBack(t, c) PROVE UmdInv'
    BY <1>0, <1>3 DEF RegisterUMDCallBack, MayRegister, Quiescent
  <1>4. ASSUME NEW c \in Callbacks, UnRegisterUMDCallBack(t, c) PROVE UmdInv'
    BY <1>0, <1>4 DEF UnRegisterUMDCallBack, Quiescent, umdVars
  <1>5. CASE RequestLoad(t)
    BY <1>0, <1>5 DEF RequestLoad
  <1>6. CASE RequestStore(t)
    BY <1>0, <1>6 DEF RequestStore
  <1>7. CASE DriveReady(t)
    BY <1>0, <1>7 DEF DriveReady, umdVars
  <1>8. CASE RegisterArg(t)
    BY <1>0, <1>8 DEF RegisterArg
  <1>9. CASE RegisterFunc(t)
    BY <1>0, <1>9 DEF RegisterFunc, Window
  <1>10. CASE UnRegisterFunc(t)
    BY <1>0, <1>10 DEF UnRegisterFunc, Window
  <1> QED
    BY <1>1, <1>2, <1>3, <1>4, <1>5, <1>6, <1>7, <1>8, <1>9, <1>10
       DEF PlayerStep, PlayerContinues, Activate, Deactivate

LEMMA UmdInvKernel ==
    ASSUME TypeOK, UmdInv, KStep
    PROVE  UmdInv'
  <1> USE DEF UmdInv, KGoto, Window, umdVars, cbVars, UmdFrame
  <1>0. /\ UNCHANGED <<pc, spc>>
        /\ umd_callback_request \in Int /\ kreg \in Int
    BY DEF KStep, TypeOK
  <1>1. CASE KIdle
    BY <1>0, <1>1 DEF KIdle
  <1>2. CASE KTestFunc
    BY <1>0, <1>2 DEF KTestFunc
  <1>3. CASE KCall
    BY <1>0, <1>3 DEF KCall
  <1>4. ASSUME NEW keep \in BOOLEAN, KCallReturns(keep) PROVE UmdInv'
    BY <1>0, <1>4 DEF KCallReturns
  <1>5. CASE KRequestLoad
    BY <1>0, <1>5 DEF KRequestLoad
  <1>6. CASE KRequestStore
    BY <1>0, <1>6 DEF KRequestStore
  <1>7. CASE KWake \/ KTakeLoad \/ KLoad \/ KImportVerHack \/ KFinishLoad \/ KExit
    BY <1>0, <1>7 DEF KWake, KTakeLoad, KLoad, KImportVerHack, KFinishLoad, KExit
  <1> QED
    BY <1>1, <1>2, <1>3, <1>4, <1>5, <1>6, <1>7 DEF KStep

LEMMA OthersKeepDrive ==
    ASSUME TypeOK, (\E t \in Loaders : LoaderStep(t)) \/ StopStep \/ UNCHANGED vars
    PROVE  UNCHANGED <<umdVars, kVars>> /\ \A u \in Players : pc'[u] = pc[u]
  BY KernelExecAssumption
     DEF LoaderStep, LoaderContinues, LoadModule, LoadModuleByID, LoadArgs, AwaitIdle,
         PostCommand, AwaitDone, FetchResult, Goto, StopStep, Stop, vars, TypeOK, Threads

LEMMA TestInvPlayer ==
    ASSUME "nolog" \in rules, ~PreemptK, TestInv, NEW t \in Players, PlayerStep(t)
    PROVE  TestInv'
  <1>1. kpc # "armed" /\ kpc' = kpc
    BY DEF PlayerStep, MayRun, Blocked, kVars
  <1> QED
    BY <1>1 DEF TestInv

LEMMA TestInvKernel == ASSUME TestInv, KStep PROVE TestInv'
  BY DEF TestInv, KStep, KGoto, KIdle, KTestFunc, KCall, KCallReturns, KRequestLoad,
     KRequestStore, KWake, KTakeLoad, KLoad, KImportVerHack, KFinishLoad, KExit, umdVars, cbVars

LEMMA FreshInvPlayer ==
    ASSUME "fresh" \in rules, TypeOK, FreshInv, NEW t \in Players, PlayerStep(t)
    PROVE  FreshInv'
  <1> USE KernelExecAssumption DEF FreshInv, Goto, cbVars
  <1>0. /\ pc \in [Threads -> LoaderPlaces \cup PlayerPlaces] /\ t \in Threads
        /\ Players \subseteq Threads
        /\ want \in [Threads -> Callbacks \cup {None}]
    BY DEF TypeOK, Threads
  <1>1. ASSUME NEW s \in {UMD_ACTIVE, UMD_DEACTIVE}, ChangeStat(t, s) PROVE FreshInv'
    BY <1>0, <1>1 DEF ChangeStat
  <1>2. ASSUME NEW a \in Masks, WaitDriveStat(t, a) PROVE FreshInv'
    BY <1>0, <1>2 DEF WaitDriveStat
  <1>3. ASSUME NEW c \in Callbacks, RegisterUMDCallBack(t, c) PROVE FreshInv'
    BY <1>0, <1>3 DEF RegisterUMDCallBack, MayRegister
  <1>4. ASSUME NEW c \in Callbacks, UnRegisterUMDCallBack(t, c) PROVE FreshInv'
    BY <1>0, <1>4 DEF UnRegisterUMDCallBack, umdVars
  <1>5. CASE RequestLoad(t)
    BY <1>0, <1>5 DEF RequestLoad
  <1>6. CASE RequestStore(t)
    BY <1>0, <1>6 DEF RequestStore
  <1>7. CASE DriveReady(t)
    BY <1>0, <1>7 DEF DriveReady
  <1>8. CASE RegisterArg(t)
    BY <1>0, <1>8 DEF RegisterArg
  <1>9. CASE RegisterFunc(t)
    BY <1>0, <1>9 DEF RegisterFunc
  <1>10. CASE UnRegisterFunc(t)
    BY <1>0, <1>10 DEF UnRegisterFunc
  <1> QED
    BY <1>1, <1>2, <1>3, <1>4, <1>5, <1>6, <1>7, <1>8, <1>9, <1>10
       DEF PlayerStep, PlayerContinues, Activate, Deactivate

LEMMA FreshInvKernel == ASSUME FreshInv, KStep PROVE FreshInv'
  <1> USE DEF FreshInv, UmdFrame, umdVars, cbVars
  <1>0. UNCHANGED pc
    BY DEF KStep
  <1>1. ASSUME NEW keep \in BOOLEAN, KCallReturns(keep) PROVE FreshInv'
    BY <1>0, <1>1 DEF KCallReturns
  <1>2. CASE KIdle \/ KTestFunc \/ KCall \/ KRequestLoad \/ KRequestStore
    BY <1>0, <1>2 DEF KIdle, KTestFunc, KCall, KRequestLoad, KRequestStore
  <1>3. CASE KWake \/ KTakeLoad \/ KLoad \/ KImportVerHack \/ KFinishLoad \/ KExit
    BY <1>0, <1>3 DEF KWake, KTakeLoad, KLoad, KImportVerHack, KFinishLoad, KExit
  <1> QED
    BY <1>1, <1>2, <1>3 DEF KStep

LEMMA RulesKept == [Next]_vars => rules' = rules
  BY DEF Next, LoaderStep, PlayerStep, KStep, StopStep, Stop, vars

THEOREM DriveInvariant == Spec => []RulesInv
  <1>1. Init => RulesInv
    <2> SUFFICES ASSUME Init PROVE TestInv /\ FreshInv
      BY UmdInvInit DEF RulesInv
    <2> QED
      BY KernelExecAssumption DEF Init, TestInv, FreshInv, Threads
  <1>2. TypeOK /\ RulesInv /\ [Next]_vars => RulesInv'
    <2> SUFFICES ASSUME TypeOK, RulesInv, [Next]_vars PROVE RulesInv'
      OBVIOUS
    <2>0. rules' = rules
      BY RulesKept
    <2>1. ASSUME NEW t \in Players, PlayerStep(t) PROVE RulesInv'
      BY <2>0, <2>1, UmdInvPlayer, TestInvPlayer, FreshInvPlayer DEF RulesInv
    <2>2. CASE KStep
      BY <2>0, <2>2, UmdInvKernel, TestInvKernel, FreshInvKernel DEF RulesInv
    <2>3. CASE (\E t \in Loaders : LoaderStep(t)) \/ StopStep \/ UNCHANGED vars
      <3>1. UNCHANGED <<umdVars, kVars>> /\ \A u \in Players : pc'[u] = pc[u]
        BY <2>3, OthersKeepDrive
      <3>2. (UmdInv => UmdInv') /\ (TestInv => TestInv') /\ (FreshInv => FreshInv')
        BY <3>1 DEF UmdInv, TestInv, FreshInv, umdVars, cbVars, kVars
      <3> QED
        BY <2>0, <3>2 DEF RulesInv
    <2> QED
      BY <2>1, <2>2, <2>3 DEF Next
  <1> QED
    BY <1>1, <1>2, TypeCorrect, PTL DEF Spec

(* If callbacks are registered and removed only between notifications, the *)
(* count of pending notifications never goes below zero, not even when a   *)
(* game thread interrupts the kernel thread inside its decrement.          *)
THEOREM NotificationsCounted == Spec => []RequestNonNegative
  <1>1. RulesInv => RequestNonNegative
    BY DEF RulesInv, UmdInv, RequestNonNegative
  <1> QED
    BY <1>1, DriveInvariant, PTL

(* The kernel thread never calls through a pointer that was reset after    *)
(* its test: in a build without a log whenever callbacks are removed, in   *)
(* one with a log if they are removed between notifications.               *)
THEOREM CallbackSound == Spec => []NoNullCall
  <1>1. RulesInv => NoNullCall
    BY DEF RulesInv, UmdInv, TestInv, NoNullCall
  <1> QED
    BY <1>1, DriveInvariant, PTL

(* The function it calls gets its own argument, also when its registration *)
(* overlaps a notification, as long as it replaces no other.               *)
THEOREM ArgumentIsOwn == Spec => []OwnArgument
  <1>1. RulesInv => OwnArgument
    BY DEF RulesInv, UmdInv, FreshInv, OwnArgument, Registering
  <1> QED
    BY <1>1, DriveInvariant, PTL

-----------------------------------------------------------------------------
(* The load mailbox of a game that makes one call at a time.               *)

(* Under Serialised, HasPathList and ~MayStop: who is in a call, what the  *)
(* mailbox then holds and how far the kernel thread is with it.            *)
KServing == {"loading", "hack", "done"}
Ready(r) == loads[OwnImage[r]] = 1 /\ OwnImage[r] \in patched

Serving(r) ==
    CASE kpc = "loading" -> loads[OwnImage[r]] = 0 /\ Image = OwnImage[r]
      [] kpc = "hack" -> loads[OwnImage[r]] = 1 /\ mload_ret = OwnImage[r]
      [] kpc = "done" -> Ready(r) /\ mload_ret = OwnImage[r]
      [] OTHER -> loads[OwnImage[r]] = 0

InCall(t) ==
    LET r == call[t]
    IN  /\ r \in Reqs \ todo /\ reply[r] = NoImage
        /\ (IF r \in ByIdReqs THEN mload_id ELSE mload_path) = r
        /\ pc[t] # "args" => mload_mod = r
        /\ pc[t] \in {"args", "awaitidle", "post"} =>
              threadCMD = "IDLE" /\ kpc \notin KServing /\ loads[OwnImage[r]] = 0
        /\ pc[t] = "awaitdone" /\ threadCMD = CommandOf(r) => Serving(r)
        /\ pc[t] = "fetch" \/ (pc[t] = "awaitdone" /\ threadCMD # CommandOf(r)) =>
              threadCMD = "IDLE" /\ kpc \notin KServing /\ Ready(r) /\ mload_ret = OwnImage[r]

OwnReplies == \A r \in Returned : reply[r] = OwnImage[r]
LoadedReturned ==
    \A r \in Returned : loads[OwnImage[r]] = 1 /\ OwnImage[r] \in patched

LoadInv ==
    /\ \A t, u \in Loaders : pc[t] # "idle" /\ pc[u] # "idle" => t = u
    /\ \A t \in Loaders : pc[t] # "idle" => InCall(t)
    /\ (\A t \in Loaders : pc[t] = "idle") => threadCMD = "IDLE" /\ kpc \notin KServing
    /\ patched \subseteq {i \in Images : loads[i] > 0}
    /\ \A r \in todo : loads[OwnImage[r]] = 0 /\ reply[r] = NoImage
    /\ OwnReplies /\ LoadedReturned

LEMMA OwnImageFacts ==
    /\ \A r \in Reqs : OwnImage[r] \in Images /\ OwnImage[r] # NoImage
    /\ \A r, s \in Reqs : OwnImage[r] = OwnImage[s] => r = s
    /\ \A r \in Reqs : CommandOf(r) \in LoadCommands
  BY KernelExecAssumption DEF OwnImage, Images, NoImage, CommandOf, LoadCommands

LEMMA LoadInvInit == Init => LoadInv
  BY OwnImageFacts, KernelExecAssumption
     DEF Init, LoadInv, InCall, OwnReplies, LoadedReturned, Returned, Threads, KServing

LEMMA LoadInvLoader ==
    ASSUME Serialised, HasPathList, TypeOK, LoadInv, NEW t \in Loaders, LoaderStep(t)
    PROVE  LoadInv'
  <1> USE KernelExecAssumption, OwnImageFacts
  <1> DEFINE Typing ==
        /\ pc \in [Threads -> LoaderPlaces \cup PlayerPlaces] /\ Loaders \subseteq Threads
        /\ call \in [Threads -> Reqs \cup {None}] /\ reply \in [Reqs -> Images]
        /\ \A u \in Loaders : call[u] = None <=> pc[u] = "idle"
        /\ todo \subseteq Reqs
  <1>0. UNCHANGED <<kpc, kload>> /\ Typing
    BY DEF LoaderStep, kVars, TypeOK, Threads
  <1>1. ASSUME NEW r \in Reqs, LoadModule(t, r) \/ LoadModuleByID(t, r) PROVE LoadInv'
    <2>1. /\ \A u \in Loaders : pc[u] = "idle" /\ (u # t => pc'[u] = "idle" /\ call'[u] = call[u])
          /\ pc'[t] = "args" /\ call'[t] = r /\ r \in todo /\ todo' = todo \ {r}
          /\ (IF r \in ByIdReqs THEN mload_id' ELSE mload_path') = r
          /\ UNCHANGED <<threadCMD, mload_mod, mload_ret, loads, patched, reply>>
      BY <1>0, <1>1 DEF LoadModule, LoadModuleByID, Goto
    <2>2. threadCMD = "IDLE" /\ kpc \notin KServing
      BY <2>1 DEF LoadInv
    <2>3. \A u \in Loaders : pc'[u] # "idle" => InCall(u)'
      BY <1>0, <2>1, <2>2 DEF LoadInv, InCall
    <2>4. Returned' = Returned
      BY <1>0, <2>1 DEF Returned
    <2> QED
      BY <1>0, <2>1, <2>3, <2>4 DEF LoadInv, OwnReplies, LoadedReturned
  <1>2. CASE LoadArgs(t) \/ AwaitIdle(t) \/ PostCommand(t) \/ AwaitDone(t)
    <2>1. /\ pc[t] # "idle" /\ \A u \in Loaders : u # t => pc[u] = "idle" /\ pc'[u] = "idle"
          /\ pc'[t] # "idle"
          /\ UNCHANGED <<mload_path, mload_id, mload_ret, loads, patched, todo, call, reply>>
      BY <1>0, <1>2 DEF LoadInv, LoadArgs, AwaitIdle, PostCommand, AwaitDone, Goto, loadVars,
         mailVars
    <2>2. InCall(t)
      BY <2>1 DEF LoadInv
    <2>3. InCall(t)'
      <3>1. CASE LoadArgs(t)
        BY <1>0, <2>1, <2>2, <3>1 DEF LoadArgs, InCall, Goto, Ready
      <3>2. CASE AwaitIdle(t)
        BY <1>0, <2>1, <2>2, <3>2 DEF AwaitIdle, InCall, Goto, Ready, mailVars
      <3>3. CASE PostCommand(t)
        BY <1>0, <2>1, <2>2, <3>3 DEF PostCommand, InCall, Goto, Serving, KServing, mailVars
      <3>4. CASE AwaitDone(t)
        BY <1>0, <2>1, <2>2, <3>4 DEF AwaitDone, InCall, Goto, Ready, mailVars
      <3> QED
        BY <1>2, <3>1, <3>2, <3>3, <3>4
    <2> QED
      BY <2>1, <2>3 DEF LoadInv, OwnReplies, LoadedReturned, Returned
  <1>3. CASE FetchResult(t)
    <2> DEFINE r == call[t]
    <2>1. /\ pc[t] = "fetch" /\ \A u \in Loaders : u # t => pc[u] = "idle" /\ call[u] = None
          /\ \A u \in Loaders : pc'[u] = "idle" /\ call'[u] = None
          /\ reply' = [reply EXCEPT ![r] = mload_ret]
          /\ UNCHANGED <<threadCMD, mload_path, mload_id, mload_mod, mload_ret, loads, patched, todo>>
      BY <1>0, <1>3 DEF LoadInv, FetchResult, Goto, mailVars
    <2>2. /\ r \in Reqs \ todo /\ Ready(r) /\ mload_ret = OwnImage[r]
          /\ threadCMD = "IDLE" /\ kpc \notin KServing
      BY <2>1 DEF LoadInv, InCall
    <2>3. Returned' = Returned \cup {r}
      BY <1>0, <2>1, <2>2 DEF Returned
    <2>4. OwnReplies'
      BY <1>0, <2>1, <2>2, <2>3 DEF OwnReplies, LoadInv, Returned
    <2>5. LoadedReturned'
      BY <2>1, <2>2, <2>3 DEF LoadedReturned, LoadInv, Ready
    <2> QED
      BY <1>0, <2>1, <2>2, <2>4, <2>5 DEF LoadInv
  <1> QED
    BY <1>1, <1>2, <1>3 DEF LoaderStep, LoaderContinues

LEMMA LoadInvKernel ==
    ASSUME ~MayStop, TypeOK, LoadInv, KStep
    PROVE  LoadInv'
  <1> USE KernelExecAssumption, OwnImageFacts
  <1>0. UNCHANGED <<pc, spc>> /\ loads \in [Images -> Nat]
    BY DEF KStep, TypeOK
  (* Outside a load the step changes neither the mailbox nor the loads.    *)
  <1>1. CASE \/ KIdle \/ KTestFunc \/ KCall \/ (\E keep \in BOOLEAN : KCallReturns(keep))
             \/ KRequestLoad \/ KRequestStore \/ KWake \/ KExit
    <2>1. /\ UNCHANGED <<threadCMD, mailVars, loadVars>>
          /\ kpc \notin KServing /\ kpc' \notin KServing
      BY <1>1 DEF KIdle, KTestFunc, KCall, KCallReturns, KRequestLoad, KRequestStore, KWake,
         KExit, KGoto, KServing
    <2>2. \A t \in Loaders : InCall(t) => InCall(t)'
      BY <1>0, <2>1 DEF InCall, Serving, KServing, Ready, mailVars, loadVars
    <2> QED
      BY <1>0, <2>1, <2>2 DEF LoadInv, OwnReplies, LoadedReturned, Returned, loadVars
  (* In a load there is a caller, and it polls for the end of the command. *)
  <1>2. ASSUME threadCMD \in LoadCommands \/ kpc \in KServing
        PROVE  \E t \in Loaders :
                 /\ pc[t] = "awaitdone" /\ threadCMD = CommandOf(call[t]) /\ InCall(t)
                 /\ Serving(call[t])
                 /\ \A u \in Loaders : u # t => pc[u] = "idle"
    <2>1. PICK t \in Loaders : pc[t] # "idle"
      BY <1>2 DEF LoadInv, LoadCommands
    <2>2. InCall(t) /\ \A u \in Loaders : u # t => pc[u] = "idle"
      BY <2>1 DEF LoadInv
    <2>3. pc[t] \in LoaderPlaces
      BY DEF TypeOK
    <2>4. pc[t] = "awaitdone" /\ threadCMD = CommandOf(call[t])
      BY <1>2, <2>1, <2>2, <2>3 DEF InCall, LoaderPlaces, LoadCommands
    <2> QED
      BY <2>2, <2>4 DEF InCall
  <1>3. CASE KTakeLoad
    <2>1. /\ threadCMD \in LoadCommands /\ kpc = "top" /\ kpc' = "loading"
          /\ kload' = [by |-> threadCMD, what |-> mload_id, mod |-> mload_mod]
          /\ UNCHANGED <<threadCMD, mload_path, mload_id, mload_mod, mload_ret, loads, patched,
                         todo, call, reply>>
      BY <1>3 DEF KTakeLoad, KGoto, mailVars, loadVars
    <2>2. PICK t \in Loaders :
                 /\ pc[t] = "awaitdone" /\ threadCMD = CommandOf(call[t]) /\ InCall(t)
                 /\ Serving(call[t])
                 /\ \A u \in Loaders : u # t => pc[u] = "idle"
      BY <1>2, <2>1
    <2>3. Image' = OwnImage[call[t]]
      BY <2>1, <2>2 DEF Image, OwnImage, InCall, CommandOf
    <2>4. InCall(t)'
      BY <1>0, <2>1, <2>2, <2>3 DEF InCall, Serving
    <2> QED
      BY <1>0, <2>1, <2>2, <2>4 DEF LoadInv, OwnReplies, LoadedReturned, Returned
  <1>4. CASE KLoad
    <2>1. /\ kpc = "loading" /\ kpc' = "hack"
          /\ loads' = [loads EXCEPT ![Image] = @ + 1] /\ mload_ret' = Image
          /\ UNCHANGED <<threadCMD, mload_path, mload_id, mload_mod, kload, patched, todo, call,
                         reply>>
      BY <1>4 DEF KLoad, KGoto
    <2>2. PICK t \in Loaders :
                 /\ pc[t] = "awaitdone" /\ threadCMD = CommandOf(call[t]) /\ InCall(t)
                 /\ Serving(call[t])
                 /\ \A u \in Loaders : u # t => pc[u] = "idle"
      BY <1>2, <2>1 DEF KServing
    <2>3. Image = OwnImage[call[t]] /\ loads[OwnImage[call[t]]] = 0 /\ call[t] \in Reqs \ todo
      BY <2>1, <2>2 DEF Serving, InCall
    <2>4. /\ loads'[OwnImage[call[t]]] = 1
          /\ \A r \in Reqs : r # call[t] => loads'[OwnImage[r]] = loads[OwnImage[r]]
          /\ \A i \in Images : loads[i] > 0 => loads'[i] > 0
      BY <1>0, <2>1, <2>3
    <2>5. InCall(t)'
      BY <1>0, <2>1, <2>2, <2>3, <2>4 DEF InCall, Serving
    <2>6. call[t] \notin Returned /\ Returned' = Returned
      BY <1>0, <2>1 DEF Returned
    <2> QED
      BY <1>0, <2>1, <2>2, <2>3, <2>4, <2>5, <2>6
         DEF LoadInv, OwnReplies, LoadedReturned, Returned, TypeOK
  <1>5. CASE KImportVerHack
    <2>1. /\ kpc = "hack" /\ kpc' = "done"
          /\ patched' = {i \in Images : loads[i] > 0}
          /\ UNCHANGED <<threadCMD, mload_path, mload_id, mload_mod, mload_ret, kload, loads,
                         todo, call, reply>>
      BY <1>5 DEF KImportVerHack, KGoto, mailVars
    <2>2. PICK t \in Loaders :
                 /\ pc[t] = "awaitdone" /\ threadCMD = CommandOf(call[t]) /\ InCall(t)
                 /\ Serving(call[t])
                 /\ \A u \in Loaders : u # t => pc[u] = "idle"
      BY <1>2, <2>1 DEF KServing
    <2>3. patched \subseteq patched'
      BY <2>1 DEF LoadInv
    <2>4. InCall(t)'
      BY <1>0, <2>1, <2>2, <2>3 DEF InCall, Serving, Ready
    <2> QED
      BY <1>0, <2>1, <2>2, <2>3, <2>4 DEF LoadInv, OwnReplies, LoadedReturned, Returned
  <1>6. CASE KFinishLoad
    <2>1. /\ kpc = "done" /\ kpc' = "sleep" /\ threadCMD' = "IDLE"
          /\ UNCHANGED <<mload_path, mload_id, mload_mod, mload_ret, loads, patched, todo,
                         call, reply>>
      BY <1>6 DEF KFinishLoad, KGoto, mailVars, loadVars
    <2>2. PICK t \in Loaders :
                 /\ pc[t] = "awaitdone" /\ threadCMD = CommandOf(call[t]) /\ InCall(t)
                 /\ Serving(call[t])
                 /\ \A u \in Loaders : u # t => pc[u] = "idle"
      BY <1>2, <2>1 DEF KServing
    <2>3. InCall(t)'
      BY <1>0, <2>1, <2>2 DEF InCall, Serving, Ready, KServing, LoadCommands
    <2> QED
      BY <1>0, <2>1, <2>2, <2>3 DEF LoadInv, OwnReplies, LoadedReturned, Returned, KServing
  <1> QED
    BY <1>1, <1>3, <1>4, <1>5, <1>6 DEF KStep

LEMMA LoadInvOther ==
    ASSUME TypeOK, LoadInv, (\E t \in Players : PlayerStep(t)) \/ UNCHANGED vars
    PROVE  LoadInv'
  <1>1. /\ UNCHANGED <<threadCMD, mailVars, loadVars, kVars>>
        /\ \A u \in Loaders : pc'[u] = pc[u]
    BY KernelExecAssumption
       DEF PlayerStep, PlayerContinues, Activate, Deactivate, ChangeStat, WaitDriveStat,
           RegisterUMDCallBack, UnRegisterUMDCallBack, RequestLoad, RequestStore, DriveReady,
           RegisterArg, RegisterFunc, UnRegisterFunc, Goto, vars, TypeOK, Threads
  <1>2. \A u \in Loaders : InCall(u) => InCall(u)'
    BY <1>1 DEF InCall, Serving, Ready, Image, mailVars, loadVars, kVars
  <1> QED
    BY <1>1, <1>2 DEF LoadInv, OwnReplies, LoadedReturned, Returned, loadVars, kVars

(* What the game and the boot program keep to holds for ever.              *)
OneAtATime == Serialised /\ ~MayStop

LEMMA OneAtATimeKept == OneAtATime /\ [Next]_vars => OneAtATime'
  BY RulesKept DEF OneAtATime, Serialised, MayStop

THEOREM LoadInvariant == HasPathList => (Spec => [](OneAtATime => LoadInv))
  <1> SUFFICES ASSUME HasPathList PROVE Spec => [](OneAtATime => LoadInv)
    OBVIOUS
  <1>1. TypeOK /\ (OneAtATime => LoadInv) /\ [Next]_vars => (OneAtATime => LoadInv)'
    <2> SUFFICES ASSUME TypeOK, OneAtATime, LoadInv, [Next]_vars PROVE LoadInv'
      BY RulesKept DEF OneAtATime, Serialised, MayStop
    <2> QED
      BY LoadInvLoader, LoadInvKernel, LoadInvOther DEF OneAtATime, Next, StopStep, Stop
  <1> QED
    BY <1>1, LoadInvInit, TypeCorrect, PTL DEF Spec

(* A game that makes one load call at a time, with a configuration that    *)
(* names a path list, gets from every call the result of the very module   *)
(* it asked for.                                                           *)
THEOREM ResultIsOwn == HasPathList => (Spec => []OwnResult)
  <1>1. (OneAtATime => LoadInv) => OwnResult
    BY DEF OneAtATime, LoadInv, OwnReplies, OwnResult
  <1> QED
    BY <1>1, LoadInvariant, PTL

(* ... and each call made the system load that module exactly once, with   *)
(* the import versions patched before the call returned.                   *)
THEOREM LoadedOnce == HasPathList => (Spec => []LoadedOnceAndPatched)
  <1>1. (OneAtATime => LoadInv) => LoadedOnceAndPatched
    BY DEF OneAtATime, LoadInv, LoadedReturned, LoadedOnceAndPatched
  <1> QED
    BY <1>1, LoadInvariant, PTL

-----------------------------------------------------------------------------
(* Every step of the mailbox is a step of ModuleLoader or changes nothing  *)
(* that ModuleLoader talks of.                                             *)
LEMMA PromiseStep ==
    ASSUME TypeOK, LoadInv, LoadInv', [Next]_vars, ~MayStop
    PROVE  [Promise!Next]_Promise!vars
  <1> USE KernelExecAssumption, OwnImageFacts
      DEF Promise!vars, Promise!Next, Promise!Serve
  <1>1. ASSUME NEW t \in Loaders, LoaderStep(t) PROVE [Promise!Next]_Promise!vars
    <2>1. ASSUME NEW r \in Reqs, LoadModule(t, r) \/ LoadModuleByID(t, r)
          PROVE  Promise!Call(r)
      BY <2>1 DEF LoadModule, LoadModuleByID, Promise!Call
    <2>2. CASE LoadArgs(t) \/ AwaitIdle(t) \/ PostCommand(t) \/ AwaitDone(t)
      BY <2>2 DEF LoadArgs, AwaitIdle, PostCommand, AwaitDone, loadVars
    <2>3. CASE FetchResult(t)
      <3>1. pc[t] = "fetch" /\ InCall(t)
        BY <2>3 DEF FetchResult, Goto, LoadInv
      <3>2. Promise!Return(call[t])
        BY <2>3, <3>1 DEF FetchResult, InCall, Ready, Promise!Return, Promise!Open
      <3> QED
        BY <3>1, <3>2 DEF InCall
    <2> QED
      BY <1>1, <2>1, <2>2, <2>3 DEF LoaderStep, LoaderContinues
  <1>2. CASE KStep
    <2>1. CASE KLoad
      <3>1. PICK t \in Loaders : pc[t] # "idle" /\ InCall(t) /\ kpc = "loading"
        BY <2>1 DEF KLoad, KGoto, LoadInv, KServing
      <3>2. pc[t] \in LoaderPlaces
        BY DEF TypeOK
      <3>3. pc[t] = "awaitdone" /\ Serving(call[t])
        BY <3>1, <3>2 DEF InCall, KServing, LoaderPlaces
      <3>4. /\ loads[OwnImage[call[t]]] = 0 /\ Image = OwnImage[call[t]]
            /\ call[t] \in Reqs \ todo /\ reply[call[t]] = NoImage
        BY <3>1, <3>3 DEF InCall, Serving
      <3>5. /\ loads' = [loads EXCEPT ![Image] = 0 + 1]
            /\ UNCHANGED <<todo, patched, reply>>
        BY <2>1, <3>4 DEF KLoad
      <3>6. Promise!Load(call[t])
        BY <3>4, <3>5 DEF Promise!Load, Promise!Open
      <3> QED
        BY <3>4, <3>6
    <2>2. CASE KImportVerHack
      BY <2>2 DEF KImportVerHack, Promise!Patch
    <2>3. CASE \/ KIdle \/ KTestFunc \/ KCall \/ (\E keep \in BOOLEAN : KCallReturns(keep))
               \/ KRequestLoad \/ KRequestStore \/ KWake
               \/ KTakeLoad \/ KFinishLoad \/ KExit
      BY <2>3 DEF KIdle, KTestFunc, KCall, KCallReturns, KRequestLoad, KRequestStore, KWake,
         KTakeLoad, KFinishLoad, KExit, loadVars
    <2> QED
      BY <1>2, <2>1, <2>2, <2>3 DEF KStep
  <1>3. CASE (\E t \in Players : PlayerStep(t)) \/ UNCHANGED vars
    BY <1>3 DEF PlayerStep, vars, loadVars
  <1> QED
    BY <1>1, <1>2, <1>3 DEF Next, StopStep, Stop

(* The mailbox implements ModuleLoader (its safety part): whatever order   *)
(* the threads run in, a game that makes one load call at a time sees each *)
(* call load, patch and answer exactly what it asked for.                  *)
THEOREM MailboxKeepsPromise ==
    HasPathList => (Spec /\ OneAtATime => Promise!Init /\ [][Promise!Next]_Promise!vars)
  <1> SUFFICES ASSUME HasPathList
               PROVE  Spec /\ OneAtATime => Promise!Init /\ [][Promise!Next]_Promise!vars
    OBVIOUS
  <1>1. Init => Promise!Init
    BY DEF Init, Promise!Init
  <1>2. /\ TypeOK /\ (OneAtATime => LoadInv) /\ (OneAtATime => LoadInv)'
        /\ OneAtATime /\ OneAtATime' /\ [Next]_vars
        => [Promise!Next]_Promise!vars
    BY PromiseStep DEF OneAtATime
  <1> QED
    BY <1>1, <1>2, LoadInvariant, OneAtATimeKept, TypeCorrect, PTL DEF Spec
=============================================================================
