------------------------------ MODULE FileTable ------------------------------
(***************************************************************************)
(* The table of emulated descriptors (file_emu.c) and the hooks of         *)
(* sceIoOpen, sceIoOpenAsync, sceIoClose and sceIoCloseAsync that keep it. *)
(*                                                                         *)
(* A path the path list sends into an ISO image is opened as the image     *)
(* itself; the table remembers, for the descriptor the game got, the mode  *)
(* and a descriptor of the image to read from: the same one, or, after an  *)
(* asynchronous open, one of its own.  The game's threads open and close   *)
(* concurrently, the system hands out any descriptor that is free, and the *)
(* table has no lock.                                                      *)
(***************************************************************************)
EXTENDS Integers, FiniteSets, FiniteSetsExt

CONSTANTS
    Threads,
    Fds,            \* the descriptors the system hands out, besides 0 (stdin)
    NSlots,         \* MAX_FD_CATCH
    AsyncKinds,     \* the kinds of path the game opens asynchronously
    SyncKinds,      \* the kinds of path it opens with sceIoOpen
    RuleSets        \* the sets of rules to consider

(* A plain file; a file found in an image; a file not found there; a whole *)
(* image in block mode.                                                    *)
Kinds == {"plain", "iso", "lost", "block"}

(* Rules that would make the table safe; nothing in the code enforces them. *)
(*   slot:  no thread is preempted while it takes a slot (file_emu.c:29-33) *)
(*          or compares the entry it has just looked up (file_emu.c:96-99)  *)
(*   close: no thread opens a file while another one closes one            *)
(*   table: the game holds at most NSlots emulated descriptors             *)
(* Two more say what the game uses, the second as a bound for TLC:         *)
(*   sync:  only sceIoOpen                                                 *)
(*   few:   at most NSlots + 1 descriptors at a time                       *)
Safe == {"slot", "close", "table"}
SyncOnly == {"sync", "slot"}

ASSUME FileTableAssumption ==
    /\ 0 \notin Fds /\ NSlots \in Nat
    /\ AsyncKinds \subseteq {"plain", "iso", "lost", "block"}
    /\ SyncKinds \subseteq {"plain", "iso", "lost", "block"}
    /\ RuleSets \subseteq SUBSET {"slot", "close", "table", "sync", "few"}

VARIABLES
    emu_state,  \* the table
    real,       \* the descriptors that are open in the system
    held,       \* the descriptors the game holds, and what it opened
    pc, op,     \* each thread's place in a hook, and its locals
    rules       \* the rules that game and scheduler keep to, in this behaviour

vars == <<emu_state, real, held, pc, op, rules>>

Slots == 1 .. NSlots
Emulated == {"iso", "block"}

(* place is the file whose sector size, offset and length the entry holds. *)
Entry == [fd : Fds \cup {0}, isofd : Fds \cup {0}, mode : Emulated \cup {"none"},
          place : Fds \cup {0}]

(* A hook's descriptor, its descriptor of the image, the kind of the path  *)
(* and the slot it looks at (NSlots + 1 behind the last one); NoOp outside *)
(* a hook.                                                                 *)
Op == [fd : Fds \cup {0}, isofd : Fds \cup {0}, kind : Kinds, slot : 0 .. NSlots + 1]
NoOp == [fd |-> 0, isofd |-> 0, kind |-> "plain", slot |-> 0]

(* Places in a hook of open, and of close.  Taking: where rule "slot" lets *)
(* no other thread run.                                                    *)
Opening == {"isoopen", "delete", "deletemode", "find", "fd", "isofd", "mode", "place"}
Closing == {"look", "compare", "isoclose", "clearisofd", "clearfd", "clearmode", "clearplace"}
Taking == {"fd", "isofd", "mode", "compare"}

Init ==
    /\ emu_state = [i \in Slots |-> [fd |-> 0, isofd |-> 0, mode |-> "none", place |-> 0]]
    /\ real = {0}
    /\ held = [f \in Fds |-> "none"]
    /\ pc = [t \in Threads |-> "idle"]
    /\ op = [t \in Threads |-> NoOp]
    /\ rules \in RuleSets

Goto(t, from, to) == pc[t] = from /\ pc' = [pc EXCEPT ![t] = to]
Return(t, from) == Goto(t, from, "idle") /\ op' = [op EXCEPT ![t] = NoOp]
At(t, from, i) == pc[t] = from /\ op[t].slot = i
NextSlot(t) == op' = [op EXCEPT ![t].slot = op[t].slot + 1]

(* get_file_emu_state: the first slot with this descriptor, unless its     *)
(* mode is clear; 0 stands for NULL.  (The scan is one step: a descriptor  *)
(* has at most one entry, so that what the scan finds is what one look at  *)
(* the table would have found at some moment of it.)                       *)
SlotsOf(f) == {i \in Slots : emu_state[i].fd = f}
Lookup(f) ==
    IF SlotsOf(f) # {} /\ emu_state[Min(SlotsOf(f))].mode # "none"
    THEN Min(SlotsOf(f)) ELSE 0

ModeOf(f) == IF Lookup(f) = 0 THEN "none" ELSE emu_state[Lookup(f)].mode

-----------------------------------------------------------------------------
(* The rules of the game, and of the scheduler.                            *)
MayOpen(k) ==
    /\ "few" \in rules => Cardinality(real \ {0}) <= NSlots
    /\ "close" \in rules => \A u \in Threads : pc[u] \notin Closing
    /\ "table" \in rules /\ k \in Emulated =>
          Cardinality({f \in Fds : held[f] \in Emulated})
              + Cardinality({u \in Threads : op[u].kind \in Emulated}) < NSlots

MayClose == "close" \in rules => \A u \in Threads : pc[u] \notin Opening

Undisturbed(t) == "slot" \in rules => \A u \in Threads \ {t} : pc[u] \notin Taking

-----------------------------------------------------------------------------
(* sceIoOpen and sceIoOpenAsync open the path as makePath left it ...      *)
Open(t, k, async) ==
    \E f \in Fds \ real :
        /\ Goto(t, "idle", IF async /\ k \in {"iso", "lost"} THEN "isoopen" ELSE "delete")
        /\ MayOpen(k)
        /\ real' = real \cup {f}
        /\ op' = [op EXCEPT ![t] = [fd |-> f, isofd |-> IF async THEN 0 ELSE f,
                                    kind |-> k, slot |-> 1]]
        /\ UNCHANGED <<emu_state, held>>

(* ... and file_emu_open opens the image once more for itself if it was    *)
(* not given a descriptor of it.                                           *)
IsoOpen(t) ==
    /\ Goto(t, "isoopen", "delete")
    /\ \E f \in Fds \ real :
          real' = real \cup {f} /\ op' = [op EXCEPT ![t].isofd = f]
    /\ UNCHANGED <<emu_state, held>>

(* No descriptor is left for the image: the file counts as not found.      *)
IsoOpenFails(t) ==
    /\ Goto(t, "isoopen", "delete")
    /\ Fds \subseteq real
    /\ op' = [op EXCEPT ![t].kind = "lost"]
    /\ UNCHANGED <<emu_state, real, held>>

OpenReturns(t, from) ==
    Return(t, from) /\ held' = [held EXCEPT ![op[t].fd] = op[t].kind]

(* set_file_mode, lines 15-23: old entries of the descriptor go, whatever  *)
(* is opened, slot by slot and store by store.                             *)
KeepSlot(t) ==
    \E i \in Slots :
        /\ At(t, "delete", i)
        /\ emu_state[i].fd # op[t].fd
        /\ NextSlot(t)
        /\ UNCHANGED <<emu_state, real, held, pc>>

\* Variant: a file without a mode returns before old entries are deleted.
DeleteOld_Late(t) ==
    \E i \in Slots :
        /\ At(t, "delete", i)
        /\ emu_state[i].fd = op[t].fd
        /\ \/ /\ op[t].kind \in Emulated
              /\ emu_state' = [emu_state EXCEPT ![i].fd = 0]
              /\ Goto(t, "delete", "deletemode")
              /\ UNCHANGED <<real, held, op>>
           \/ op[t].kind \notin Emulated /\ OpenReturns(t, "delete") /\ UNCHANGED <<emu_state, real>>

DeleteOld(t) ==
    \E i \in Slots :
        /\ At(t, "delete", i)
        /\ emu_state[i].fd = op[t].fd
        /\ emu_state' = [emu_state EXCEPT ![i].fd = 0]
        /\ Goto(t, "delete", "deletemode")
        /\ UNCHANGED <<real, held, op>>

DeleteMode(t) ==
    /\ Goto(t, "deletemode", "delete")
    /\ emu_state' = [emu_state EXCEPT ![op[t].slot].mode = "none"]
    /\ NextSlot(t)
    /\ UNCHANGED <<real, held>>

NoMode(t) ==
    /\ At(t, "delete", NSlots + 1)
    /\ op[t].kind \notin Emulated
    /\ OpenReturns(t, "delete")
    /\ UNCHANGED <<emu_state, real>>

StartFind(t) ==
    /\ At(t, "delete", NSlots + 1)
    /\ op[t].kind \in Emulated
    /\ Goto(t, "delete", "find")
    /\ op' = [op EXCEPT ![t].slot = 1]
    /\ UNCHANGED <<emu_state, real, held>>

(* Lines 26-30: the first slot that is free when its turn comes ...        *)
Free(i) == emu_state[i].fd = 0 \/ emu_state[i].mode = "none"

PassSlot(t) ==
    \E i \in Slots :
        /\ At(t, "find", i)
        /\ ~ Free(i)
        /\ NextSlot(t)
        /\ UNCHANGED <<emu_state, real, held, pc>>

FindSlot(t) ==
    \E i \in Slots :
        /\ At(t, "find", i)
        /\ Free(i)
        /\ Goto(t, "find", "fd")
        /\ UNCHANGED <<emu_state, real, held, op>>

(* "error:OVERFLOW fd buffer" in the log; the open succeeds all the same.  *)
TableOverflow(t) ==
    /\ At(t, "find", NSlots + 1)
    /\ OpenReturns(t, "find")
    /\ UNCHANGED <<emu_state, real>>

(* ... is filled, lines 31-36, each store a step (the last three, of what  *)
(* describes the place in the image, count as one).                        *)
StoreFd(t) ==
    /\ Goto(t, "fd", "isofd")
    /\ emu_state' = [emu_state EXCEPT ![op[t].slot].fd = op[t].fd]
    /\ UNCHANGED <<real, held, op>>

\* Variant: the entry does not get its descriptor of the image.
StoreIsofd_Missing(t) ==
    /\ Goto(t, "isofd", "mode")
    /\ emu_state' = [emu_state EXCEPT ![op[t].slot].isofd = 0]
    /\ UNCHANGED <<real, held, op>>

StoreIsofd(t) ==
    /\ Goto(t, "isofd", "mode")
    /\ emu_state' = [emu_state EXCEPT ![op[t].slot].isofd = op[t].isofd]
    /\ UNCHANGED <<real, held, op>>

StoreMode(t) ==
    /\ Goto(t, "mode", "place")
    /\ emu_state' = [emu_state EXCEPT ![op[t].slot].mode = op[t].kind]
    /\ UNCHANGED <<real, held, op>>

StorePlace(t) ==
    /\ OpenReturns(t, "place")
    /\ emu_state' = [emu_state EXCEPT ![op[t].slot].place = op[t].fd]
    /\ UNCHANGED real

-----------------------------------------------------------------------------
(* sceIoClose and sceIoCloseAsync: the system first, the table afterwards. *)
Close(t, f) ==
    /\ Goto(t, "idle", "look")
    /\ MayClose
    /\ held[f] # "none"
    /\ real' = real \ {f} /\ held' = [held EXCEPT ![f] = "none"]
    /\ op' = [op EXCEPT ![t].fd = f]
    /\ UNCHANGED emu_state

(* file_mode_close                                                         *)
CloseNothing(t) ==
    /\ Lookup(op[t].fd) = 0
    /\ Return(t, "look")
    /\ UNCHANGED <<emu_state, real, held>>

CloseLook(t) ==
    /\ Lookup(op[t].fd) # 0
    /\ Goto(t, "look", "compare")
    /\ op' = [op EXCEPT ![t].slot = Lookup(op[t].fd)]
    /\ UNCHANGED <<emu_state, real, held>>

CloseCompare(t) ==
    LET e == emu_state[op[t].slot]
    IN  /\ Goto(t, "compare", IF e.fd # e.isofd THEN "isoclose" ELSE "clearfd")
        /\ UNCHANGED <<emu_state, real, held, op>>

\* Variant: the image stays open.
IsoClose_Missing(t) ==
    /\ Goto(t, "isoclose", "clearisofd")
    /\ UNCHANGED <<emu_state, real, held, op>>

IsoClose(t) ==
    /\ Goto(t, "isoclose", "clearisofd")
    /\ real' = real \ {emu_state[op[t].slot].isofd}
    /\ UNCHANGED <<emu_state, held, op>>

ClearIsofd(t) ==
    /\ Goto(t, "clearisofd", "clearfd")
    /\ emu_state' = [emu_state EXCEPT ![op[t].slot].isofd = 0]
    /\ UNCHANGED <<real, held, op>>

(* Lines 105-108, each store a step (the last two count as one).           *)
\* Variant: the entry keeps its descriptor.
ClearFd_Kept(t) ==
    /\ Goto(t, "clearfd", "clearplace")
    /\ UNCHANGED <<emu_state, real, held, op>>

ClearFd(t) ==
    /\ Goto(t, "clearfd", "clearmode")
    /\ emu_state' = [emu_state EXCEPT ![op[t].slot].fd = 0]
    /\ UNCHANGED <<real, held, op>>

ClearMode(t) ==
    /\ Goto(t, "clearmode", "clearplace")
    /\ emu_state' = [emu_state EXCEPT ![op[t].slot].mode = "none"]
    /\ UNCHANGED <<real, held, op>>

ClearPlace(t) ==
    /\ Return(t, "clearplace")
    /\ emu_state' = [emu_state EXCEPT ![op[t].slot].place = 0]
    /\ UNCHANGED <<real, held>>

-----------------------------------------------------------------------------
OpenStep(t) ==
    \/ \E k \in SyncKinds : Open(t, k, FALSE)
    \/ "sync" \notin rules /\ \E k \in AsyncKinds : Open(t, k, TRUE)
    \/ IsoOpen(t) \/ IsoOpenFails(t)
    \/ KeepSlot(t) \/ DeleteOld(t) \/ DeleteMode(t) \/ NoMode(t)
    \/ StartFind(t) \/ PassSlot(t) \/ FindSlot(t) \/ TableOverflow(t)
    \/ StoreFd(t) \/ StoreIsofd(t) \/ StoreMode(t) \/ StorePlace(t)

CloseStep(t) ==
    \/ \E f \in Fds : Close(t, f)
    \/ CloseNothing(t) \/ CloseLook(t) \/ CloseCompare(t)
    \/ IsoClose(t) \/ ClearIsofd(t)
    \/ ClearFd(t) \/ ClearMode(t) \/ ClearPlace(t)

ThreadStep(t) == Undisturbed(t) /\ (OpenStep(t) \/ CloseStep(t)) /\ UNCHANGED rules

Next == \E t \in Threads : ThreadStep(t)

Spec == Init /\ [][Next]_vars

-----------------------------------------------------------------------------
(* Every variable has the type the code gives it.                          *)
TypeOK ==
    /\ emu_state \in [Slots -> Entry]
    /\ real \subseteq Fds \cup {0}
    /\ held \in [Fds -> Kinds \cup {"none"}]
    /\ pc \in [Threads -> {"idle"} \cup Opening \cup Closing]
    /\ op \in [Threads -> Op]
    /\ rules \in RuleSets

(* However opens and closes interleave store by store, and when the table  *)
(* is full, a game that uses sceIoOpen never has a descriptor treated as   *)
(* something else than what it was opened as, at worst its emulation is    *)
(* lost - provided no thread is preempted while it takes or compares a     *)
(* slot: between the stores of fd and mode (file_emu.c:31-33) the slot     *)
(* counts as free, and a second thread in it mixes two files up.           *)
NoForeignMode ==
    SyncOnly \subseteq rules =>
        \A f \in Fds : held[f] # "none" => ModeOf(f) \in {held[f], "none"}

(* Under the rules, the hooks of read and seek treat every descriptor the  *)
(* game holds as what it was opened as (get_file_emu_state): a file in an  *)
(* image and a whole image are emulated in their mode, at their own place. *)
HeldAsOpened ==
    Safe \subseteq rules =>
        \A f \in Fds : held[f] \in Emulated =>
            ModeOf(f) = held[f] /\ emu_state[Lookup(f)].place = f

(* Under the rules, no descriptor the game holds is closed behind its back *)
(* by file_mode_close closing another entry's image, and stdin stays open. *)
HeldIsOpen ==
    Safe \subseteq rules => 0 \in real /\ \A f \in Fds : held[f] # "none" => f \in real

(* Under the rules, an entry the game can use reads from a descriptor that *)
(* is open, that no other entry uses, and that the game does not hold as   *)
(* something else.                                                         *)
InUse == {i \in Slots : ~ Free(i)}
Usable == {i \in InUse : held[emu_state[i].fd] # "none"}
IsofdOwned ==
    Safe \subseteq rules =>
        \A i \in Usable :
            LET e == emu_state[i]
            IN  /\ e.isofd \in real \ {0}
                /\ e.isofd # e.fd => held[e.isofd] = "none"
                /\ \A j \in InUse \ {i} : emu_state[j].isofd # e.isofd

(* Under the rules, when no open or close is in progress, every open       *)
(* descriptor is one the game holds or the image of an entry: none is left *)
(* open for ever.                                                          *)
NoDescriptorLost ==
    Safe \subseteq rules /\ (\A t \in Threads : pc[t] = "idle") =>
        real \subseteq {0} \cup {f \in Fds : held[f] # "none"}
                  \cup {emu_state[i].isofd : i \in InUse}
=============================================================================
