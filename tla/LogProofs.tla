----------------------------- MODULE LogProofs -----------------------------
(***************************************************************************)
(* Theorems about Log, for every number of threads, lines and descriptors. *)
(***************************************************************************)
EXTENDS Log, TLAPS

LEMMA GameType == ASSUME TypeOK, GameStep PROVE TypeOK'
  BY DEF GameStep, GameClose, GameOpen, TypeOK, Locals, Outputs

LEMMA AddType ==
    ASSUME NEW c \in [Lines -> Nat], NEW l \in Lines \cup {NoLine}
    PROVE  Add(c, l) \in [Lines -> Nat]
  BY LogAssumption DEF Add

(* A thread that is to write a line has one.                               *)
LineInv ==
    \A t \in Threads : pc[t] # "idle" => line[t] \in Lines

LEMMA ThreadType ==
    ASSUME TypeOK, LineInv, NEW t \in Threads, LogStep(t)
    PROVE  TypeOK' /\ LineInv'
  <1> USE DEF TypeOK, LineInv, Goto, Places, Outputs, Files, Locals
  <1>1. ASSUME NEW l \in Lines, Printf(t, l) PROVE TypeOK' /\ LineInv'
    BY <1>1 DEF Printf
  <1>2. CASE Format(t) \/ Leave(t) \/ TakeMode(t) \/ ClearMode(t)
    BY <1>2 DEF Format, Leave, TakeMode, ClearMode
  <1>3. CASE OpenFile(t) \/ OpenFails(t)
    BY <1>3 DEF OpenFile, OpenFails, NotOpened
  <1>4. CASE WriteFile(t)
    <2>1. Add(file, log_buf) \in [Lines -> Nat]
      BY AddType
    <2> QED
      BY <1>4, <2>1 DEF WriteFile
  <1>5. CASE CloseFile(t) \/ RestoreMode(t)
    BY <1>5 DEF CloseFile, RestoreMode
  <1>6. CASE Display(t)
    <2>1. Add(screen, log_buf) \in [Lines -> Nat]
      BY AddType
    <2> QED
      BY <1>6, <2>1 DEF Display
  <1> QED
    BY <1>1, <1>2, <1>3, <1>4, <1>5, <1>6 DEF LogStep

LEMMA LogTypeInvariant == Spec => [](TypeOK /\ LineInv)
  <1>1. Init => TypeOK /\ LineInv
    <2> SUFFICES ASSUME Init PROVE TypeOK /\ LineInv
      OBVIOUS
    <2>1. /\ line \in [Threads -> Lines \cup {NoLine}]
          /\ org_log_mode \in [Threads -> {{}, Device}]
          /\ fd \in [Threads -> Fds \cup {NoFd}] /\ pc \in [Threads -> Places]
      BY DEF Init, Places
    <2>2. file \in [Lines -> Nat] /\ screen \in [Lines -> Nat]
      BY DEF Init
    <2> QED
      BY <2>1, <2>2 DEF Init, TypeOK, LineInv
  <1>2. TypeOK /\ LineInv /\ [Next]_vars => (TypeOK /\ LineInv)'
    <2>1. ASSUME TypeOK, LineInv, UNCHANGED vars PROVE (TypeOK /\ LineInv)'
      BY <2>1 DEF TypeOK, LineInv, vars
    <2>2. ASSUME TypeOK, LineInv, GameStep PROVE (TypeOK /\ LineInv)'
      BY <2>2, GameType DEF GameStep, LineInv, Locals
    <2>3. ASSUME TypeOK, LineInv, NEW t \in Threads, LogStep(t) PROVE (TypeOK /\ LineInv)'
      BY <2>3, ThreadType
    <2> QED
      BY <2>1, <2>2, <2>3 DEF Next
  <1> QED
    BY <1>1, <1>2, PTL DEF Spec

(* Every variable of the log keeps its type: log_mode is never a part of   *)
(* the devices.                                                            *)
THEOREM LogTypeCorrect == Spec => []TypeOK
  BY LogTypeInvariant, PTL

-----------------------------------------------------------------------------
(* The mode is 0 only while some thread is on its way to put it back, and  *)
(* what every such thread will put back is the configured mode.            *)
Suspending == {"open", "write", "close", "disp", "restore"}

ModeInv ==
    /\ \A t \in Threads : pc[t] \in Suspending \cup {"clear"} => org_log_mode[t] = Device
    /\ log_mode = {} => \E t \in Threads : pc[t] \in Suspending

LEMMA ModeStep ==
    ASSUME TypeOK, ModeInv, NEW t \in Threads, LogStep(t)
    PROVE  ModeInv'
  <1> USE LogAssumption DEF TypeOK, ModeInv, Goto, Suspending, Places, Outputs, Files, Locals
  <1>1. ASSUME NEW l \in Lines, Printf(t, l) PROVE ModeInv'
    BY <1>1 DEF Printf
  <1>2. CASE Format(t) \/ Leave(t) \/ TakeMode(t)
    BY <1>2 DEF Format, Leave, TakeMode
  <1>3. CASE ClearMode(t)
    BY <1>3 DEF ClearMode
  <1>4. CASE OpenFile(t) \/ OpenFails(t)
    BY <1>4 DEF OpenFile, OpenFails, NotOpened
  <1>5. CASE WriteFile(t) \/ CloseFile(t) \/ Display(t)
    BY <1>5 DEF WriteFile, CloseFile, Display
  <1>6. CASE RestoreMode(t)
    BY <1>6 DEF RestoreMode
  <1> QED
    BY <1>1, <1>2, <1>3, <1>4, <1>5, <1>6 DEF LogStep

(* However many threads are in log_output at once, logging is on again     *)
(* when they have left it.                                                 *)
THEOREM LoggingAlwaysComesBack == Spec => []LoggingComesBack
  <1>1. Init => ModeInv
    BY LogAssumption DEF Init, ModeInv, Suspending
  <1>2. TypeOK /\ ModeInv /\ [Next]_vars => ModeInv'
    <2>1. ASSUME ModeInv, UNCHANGED vars \/ GameStep PROVE ModeInv'
      BY <2>1 DEF ModeInv, vars, GameStep, Locals
    <2> QED
      BY <2>1, ModeStep DEF Next
  <1>3. TypeOK /\ ModeInv => LoggingComesBack
    BY DEF TypeOK, ModeInv, LoggingComesBack, Quiet, Suspending
  <1> QED
    BY <1>1, <1>2, <1>3, LogTypeCorrect, PTL DEF Spec

-----------------------------------------------------------------------------
(* With one thread in the log at a time, the descriptor it writes to and   *)
(* closes is open, its own, and not the game's.                            *)
SerialInv ==
    order = "serial" =>
        /\ \A t, u \in Threads : pc[t] # "idle" /\ pc[u] # "idle" => t = u
        /\ \A t \in Threads : pc[t] \in {"write", "close"} =>
              log_fd = fd[t] /\ log_fd \in open /\ log_fd # game
        /\ game # NoFd => game \in open
        /\ ~spoiled

LEMMA SerialGame == ASSUME TypeOK, SerialInv, GameStep PROVE SerialInv'
  <1> USE LogAssumption DEF TypeOK, SerialInv, Outputs, Locals
  <1>1. ASSUME NEW f \in Fds, GameOpen(f), GameStep PROVE SerialInv'
    BY <1>1 DEF GameStep, GameOpen
  <1>2. CASE GameClose
    BY <1>2 DEF GameStep, GameClose
  <1> QED
    BY <1>1, <1>2 DEF GameStep

LEMMA SerialStep ==
    ASSUME TypeOK, SerialInv, NEW t \in Threads, LogStep(t)
    PROVE  SerialInv'
  <1> USE LogAssumption DEF TypeOK, SerialInv, Goto, Places, Outputs, Files, Locals
  <1>1. ASSUME NEW l \in Lines, Printf(t, l) PROVE SerialInv'
    BY <1>1 DEF Printf
  <1>2. CASE Format(t) \/ Leave(t) \/ TakeMode(t)
    BY <1>2 DEF Format, Leave, TakeMode
  <1>3. CASE ClearMode(t)
    BY <1>3 DEF ClearMode
  <1>4. CASE OpenFile(t)
    BY <1>4 DEF OpenFile
  <1>5. CASE OpenFails(t)
    BY <1>5 DEF OpenFails, NotOpened
  <1>6. CASE WriteFile(t)
    BY <1>6 DEF WriteFile
  <1>7. CASE CloseFile(t)
    BY <1>7 DEF CloseFile
  <1>8. CASE Display(t) \/ RestoreMode(t)
    BY <1>8 DEF Display, RestoreMode
  <1> QED
    BY <1>1, <1>2, <1>3, <1>4, <1>5, <1>6, <1>7, <1>8 DEF LogStep

(* If no two threads log at once, the log never closes a file of the game  *)
(* nor writes into it, although the system reuses the descriptors.         *)
THEOREM LogSparesGame == Spec => []GameFileSafe
  <1>1. Init => SerialInv
    BY DEF Init, SerialInv
  <1>2. TypeOK /\ SerialInv /\ [Next]_vars => SerialInv'
    <2>1. ASSUME SerialInv, UNCHANGED vars PROVE SerialInv'
      BY <2>1 DEF SerialInv, vars
    <2> QED
      BY <2>1, SerialGame, SerialStep DEF Next
  <1>3. SerialInv => GameFileSafe
    BY DEF SerialInv, GameFileSafe
  <1> QED
    BY <1>1, <1>2, <1>3, LogTypeCorrect, PTL DEF Spec

-----------------------------------------------------------------------------
(* With one thread in the log at a time: the lines not logged yet have not *)
(* been written, those logged are on every device, and how far the line    *)
(* that is being logged has come depends on the thread's place.            *)
Shown == IF "DISP" \in Device THEN 1 ELSE 0
Kept(l) == IF "FILE" \in Device /\ l \notin unopened THEN 1 ELSE 0
Active(t) == pc[t] # "idle"

UnderWay(t) ==
    /\ line[t] \in Lines \ todo
    /\ pc[t] # "format" => log_buf = line[t]
    /\ pc[t] \in {"open", "write", "close"} => "FILE" \in Device
    /\ pc[t] \notin {"disp", "restore"} => line[t] \notin unopened
    /\ screen[line[t]] = IF pc[t] = "restore" THEN Shown ELSE 0
    /\ file[line[t]] = CASE pc[t] = "close" -> 1
                         [] pc[t] \in {"disp", "restore"} -> Kept(line[t])
                         [] OTHER -> 0

CompleteInv ==
    order = "serial" =>
        /\ \A l \in todo : screen[l] = 0 /\ file[l] = 0 /\ l \notin unopened
        /\ \A l \in Lines \ todo :
              (\A t \in Threads : Active(t) => line[t] # l) => screen[l] = Shown /\ file[l] = Kept(l)
        /\ \A t \in Threads : Active(t) => UnderWay(t)
        /\ open \subseteq {game, log_fd}
        /\ (\A t \in Threads : pc[t] \notin {"write", "close"}) => open \subseteq {game}

LEMMA CompleteGame == ASSUME TypeOK, SerialInv, CompleteInv, GameStep PROVE CompleteInv'
  <1> USE LogAssumption DEF TypeOK, SerialInv, CompleteInv, Outputs, Locals, Active, UnderWay, Kept
  <1>1. ASSUME NEW f \in Fds, GameOpen(f), GameStep PROVE CompleteInv'
    BY <1>1 DEF GameStep, GameOpen
  <1>2. CASE GameClose
    BY <1>2 DEF GameStep, GameClose
  <1> QED
    BY <1>1, <1>2 DEF GameStep

LEMMA CompleteStep ==
    ASSUME TypeOK, LineInv, ModeInv, SerialInv, CompleteInv, order = "serial",
           NEW t \in Threads, LogStep(t)
    PROVE  CompleteInv'
  <1> USE LogAssumption
      DEF TypeOK, LineInv, ModeInv, SerialInv, CompleteInv, Suspending, Goto, Places, Outputs, Files,
          Locals, Active, UnderWay, Kept, Shown
  <1>1. ASSUME NEW l \in Lines, Printf(t, l) PROVE CompleteInv'
    BY <1>1 DEF Printf
  <1>2. CASE Format(t) \/ Leave(t) \/ TakeMode(t)
    BY <1>2 DEF Format, Leave, TakeMode
  <1>3. CASE ClearMode(t)
    BY <1>3 DEF ClearMode
  <1>4. CASE OpenFile(t)
    BY <1>4 DEF OpenFile
  <1>5. CASE OpenFails(t)
    BY <1>5 DEF OpenFails, NotOpened
  <1>6. CASE WriteFile(t)
    BY <1>6 DEF WriteFile, Add
  <1>7. CASE CloseFile(t)
    BY <1>7 DEF CloseFile
  <1>8. CASE Display(t)
    BY <1>8 DEF Display, Add
  <1>9. CASE RestoreMode(t)
    BY <1>9 DEF RestoreMode
  <1> QED
    BY <1>1, <1>2, <1>3, <1>4, <1>5, <1>6, <1>7, <1>8, <1>9 DEF LogStep

(* If no two threads log at once, every line logged is on each device      *)
(* exactly once, and the log leaves no descriptor open.                    *)
THEOREM LogComplete == Spec => []LinesComplete
  <1>1. Init => ModeInv /\ SerialInv /\ CompleteInv
    BY LogAssumption DEF Init, ModeInv, SerialInv, CompleteInv, Suspending, Active
  <1>2. TypeOK /\ LineInv /\ ModeInv /\ SerialInv /\ CompleteInv /\ [Next]_vars
            => (ModeInv /\ SerialInv /\ CompleteInv)'
    <2>1. ASSUME ModeInv, SerialInv, CompleteInv, UNCHANGED vars
          PROVE  (ModeInv /\ SerialInv /\ CompleteInv)'
      BY <2>1 DEF ModeInv, SerialInv, CompleteInv, Active, UnderWay, Kept, vars
    <2>2. ASSUME TypeOK, ModeInv, GameStep PROVE ModeInv'
      BY <2>2 DEF ModeInv, GameStep, Locals
    <2>3. ASSUME TypeOK, LineInv, ModeInv, SerialInv, CompleteInv, NEW t \in Threads, LogStep(t)
          PROVE  CompleteInv'
      <3>1. CASE order = "serial"
        BY <2>3, <3>1, CompleteStep
      <3>2. CASE order # "serial"
        BY <2>3, <3>2 DEF LogStep, Printf, Format, Leave, TakeMode, ClearMode, OpenFile, OpenFails,
           NotOpened, WriteFile, CloseFile, Display, RestoreMode, CompleteInv
      <3> QED
        BY <3>1, <3>2
    <2> QED
      BY <2>1, <2>2, <2>3, ModeStep, SerialGame, SerialStep, CompleteGame DEF Next
  <1>3. TypeOK /\ CompleteInv => LinesComplete
    BY DEF CompleteInv, LinesComplete, Quiet, Active, Kept, Shown
  <1> QED
    BY <1>1, <1>2, <1>3, LogTypeInvariant, PTL DEF Spec
=============================================================================
