-------------------------------- MODULE Log --------------------------------
(***************************************************************************)
(* The log (log.c).  Every hook logs its call and its result, on the       *)
(* thread that makes the call, and so does the kernel thread.  log_output  *)
(* sets log_mode to 0 while it is at work, so that what it calls does not  *)
(* log in its turn, and then puts it back.                                 *)
(*                                                                         *)
(* log_mode, log_buf and log_fd are shared and not protected: "must be use *)
(* semaphore" says the code.  log_mode is loaded once in log_output, and   *)
(* log_fd may or may not be loaded again for the write (-O2).              *)
(***************************************************************************)
EXTENDS Integers, FiniteSets

CONSTANTS
    Threads,        \* game threads and the kernel thread
    Lines,          \* the lines they log, each at most once
    Device,         \* the devices of LOG_DEVICE=: "FILE", "DISP" or both
    Fds,            \* the descriptors the system hands out
    Orders,         \* which orders to consider: "serial", "free" or both
    NoLine, NoFd    \* an empty buffer, and -1

ASSUME LogAssumption ==
    /\ Device \subseteq {"FILE", "DISP"} /\ Device # {}
    /\ Orders \subseteq {"serial", "free"}
    /\ NoLine \notin Lines /\ NoFd \notin Fds

VARIABLES
    log_mode,       \* the devices in use; {} is 0
    log_buf, log_fd,
    line,           \* the line each thread is to log
    org_log_mode,   \* a local of log_output
    fd,             \* the register that holds the result of sceIoOpen
    todo,           \* lines not logged yet
    unopened,       \* lines whose open of the file failed
    file, screen,   \* how often each line was written
    open,           \* the descriptors open in the system
    game,           \* the one the game holds, or NoFd
    spoiled,        \* a line was written into a file of the game
    pc,
    order           \* "serial": no two threads are in the log at once

vars == <<log_mode, log_buf, log_fd, line, org_log_mode, fd, todo, unopened, file, screen,
          open, game, spoiled, pc, order>>

Init ==
    /\ log_mode = Device /\ log_buf = NoLine /\ log_fd = NoFd
    /\ line = [t \in Threads |-> NoLine]
    /\ org_log_mode = [t \in Threads |-> {}]
    /\ fd = [t \in Threads |-> NoFd]
    /\ todo = Lines /\ unopened = {}
    /\ file = [l \in Lines |-> 0] /\ screen = [l \in Lines |-> 0]
    /\ open = {} /\ game = NoFd /\ spoiled = FALSE
    /\ pc = [t \in Threads |-> "idle"]
    /\ order \in Orders

Goto(t, from, to) == pc[t] = from /\ pc' = [pc EXCEPT ![t] = to]
Outputs == <<unopened, file, screen, spoiled>>
Files == <<open, game>>
Locals == <<line, org_log_mode, fd>>

-----------------------------------------------------------------------------
(* log_printf and log_write                                                *)
Printf(t, l) ==
    /\ Goto(t, "idle", IF log_mode = {} THEN "idle" ELSE "format")
    /\ order = "serial" => \A u \in Threads : pc[u] = "idle"
    /\ l \in todo /\ todo' = todo \ {l}
    /\ line' = [line EXCEPT ![t] = l]
    /\ UNCHANGED <<log_mode, log_buf, log_fd, org_log_mode, fd, Outputs, Files, order>>

Format(t) ==
    /\ Goto(t, "format", "output")
    /\ log_buf' = line[t]
    /\ UNCHANGED <<log_mode, log_fd, Locals, todo, Outputs, Files, order>>

(* log_output                                                              *)
Leave(t) ==
    /\ log_mode = {}
    /\ Goto(t, "output", "idle")
    /\ UNCHANGED <<log_mode, log_buf, log_fd, Locals, todo, Outputs, Files, order>>

TakeMode(t) ==
    /\ log_mode # {}
    /\ Goto(t, "output", "clear")
    /\ org_log_mode' = [org_log_mode EXCEPT ![t] = log_mode]
    /\ UNCHANGED <<log_mode, log_buf, log_fd, line, fd, todo, Outputs, Files, order>>

ClearMode(t) ==
    /\ Goto(t, "clear", IF "FILE" \in org_log_mode[t] THEN "open" ELSE "disp")
    /\ log_mode' = {}
    /\ UNCHANGED <<log_buf, log_fd, Locals, todo, Outputs, Files, order>>

OpenFile(t) ==
    \E f \in Fds :
        /\ f \notin open /\ open' = open \cup {f}
        /\ Goto(t, "open", "write")
        /\ log_fd' = f /\ fd' = [fd EXCEPT ![t] = f]
        /\ UNCHANGED <<log_mode, log_buf, line, org_log_mode, todo, Outputs, game, order>>

NotOpened(t) ==
    /\ unopened' = unopened \cup {line[t]}
    /\ UNCHANGED <<log_mode, log_buf, Locals, todo, file, screen, spoiled, Files, order>>

\* Variant: the descriptor of the last time is kept and used.
OpenFails_Stale(t) == Goto(t, "open", "write") /\ NotOpened(t) /\ UNCHANGED log_fd

OpenFails(t) == Goto(t, "open", "disp") /\ NotOpened(t) /\ log_fd' = NoFd

Add(counts, l) == IF l = NoLine THEN counts ELSE [counts EXCEPT ![l] = @ + 1]

(* A write to a descriptor that is closed goes nowhere, one to the game's  *)
(* descriptor into the game's file.                                        *)
WriteFile(t) ==
    \E f \in {fd[t], log_fd} :
        /\ Goto(t, "write", "close")
        /\ file' = IF f \in open \ {game} THEN Add(file, log_buf) ELSE file
        /\ spoiled' = (spoiled \/ f \in open \cap {game})
        /\ UNCHANGED <<log_mode, log_buf, log_fd, Locals, todo, unopened, screen, Files, order>>

\* Variant: the file is not closed.
CloseFile_Missing(t) ==
    /\ Goto(t, "close", "disp")
    /\ UNCHANGED <<log_mode, log_buf, log_fd, Locals, todo, Outputs, Files, order>>

CloseFile(t) ==
    /\ Goto(t, "close", "disp")
    /\ open' = open \ {log_fd}
    /\ UNCHANGED <<log_mode, log_buf, log_fd, Locals, todo, Outputs, game, order>>

Display(t) ==
    /\ Goto(t, "disp", "restore")
    /\ screen' = IF "DISP" \in org_log_mode[t] THEN Add(screen, log_buf) ELSE screen
    /\ UNCHANGED <<log_mode, log_buf, log_fd, Locals, todo, unopened, file, spoiled, Files, order>>

\* Variant: the mode is not put back.
RestoreMode_Missing(t) ==
    /\ Goto(t, "restore", "idle")
    /\ UNCHANGED <<log_mode, log_buf, log_fd, Locals, todo, Outputs, Files, order>>

RestoreMode(t) ==
    /\ Goto(t, "restore", "idle")
    /\ log_mode' = org_log_mode[t]
    /\ UNCHANGED <<log_buf, log_fd, Locals, todo, Outputs, Files, order>>

LogStep(t) ==
    \/ \E l \in Lines : Printf(t, l)
    \/ Format(t) \/ Leave(t) \/ TakeMode(t) \/ ClearMode(t) \/ OpenFile(t) \/ OpenFails(t)
    \/ WriteFile(t) \/ CloseFile(t) \/ Display(t) \/ RestoreMode(t)

-----------------------------------------------------------------------------
(* The game opens and closes a file of its own.                            *)
GameOpen(f) ==
    /\ game = NoFd /\ game' = f
    /\ f \notin open /\ open' = open \cup {f}

GameClose ==
    /\ game # NoFd /\ game' = NoFd
    /\ open' = open \ {game}

GameStep ==
    /\ GameClose \/ \E f \in Fds : GameOpen(f)
    /\ UNCHANGED <<log_mode, log_buf, log_fd, Locals, todo, Outputs, pc, order>>

Next == GameStep \/ \E t \in Threads : LogStep(t)

Spec == Init /\ [][Next]_vars

-----------------------------------------------------------------------------
(* Every variable has the type the code gives it.                          *)
Places == {"idle", "format", "output", "clear", "open", "write", "close", "disp", "restore"}

TypeOK ==
    /\ log_mode \in {{}, Device}
    /\ log_buf \in Lines \cup {NoLine} /\ log_fd \in Fds \cup {NoFd}
    /\ line \in [Threads -> Lines \cup {NoLine}]
    /\ org_log_mode \in [Threads -> {{}, Device}]
    /\ fd \in [Threads -> Fds \cup {NoFd}]
    /\ todo \subseteq Lines /\ unopened \subseteq Lines
    /\ file \in [Lines -> Nat] /\ screen \in [Lines -> Nat]
    /\ open \subseteq Fds /\ game \in Fds \cup {NoFd} /\ spoiled \in BOOLEAN
    /\ pc \in [Threads -> Places]
    /\ order \in Orders

Quiet == \A t \in Threads : pc[t] = "idle"

(* However the threads interleave in log_output, logging is on again when  *)
(* they have left it: no thread puts back the 0 of another one.            *)
LoggingComesBack == Quiet => log_mode = Device

(* If no two threads log at once, every line logged is on each device      *)
(* exactly once (a file that cannot be opened apart) and the log keeps no  *)
(* descriptor open.                                                        *)
LinesComplete ==
    order = "serial" /\ Quiet =>
        /\ \A l \in Lines \ todo :
              /\ screen[l] = IF "DISP" \in Device THEN 1 ELSE 0
              /\ file[l] = IF "FILE" \in Device /\ l \notin unopened THEN 1 ELSE 0
        /\ open \subseteq {game}

(* If no two threads log at once, the log neither closes a file of the     *)
(* game nor writes into it.                                                *)
GameFileSafe == order = "serial" => ~spoiled /\ (game # NoFd => game \in open)
=============================================================================
