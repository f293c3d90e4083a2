------------------------------ MODULE PathList ------------------------------
(***************************************************************************)
(* The list of path assignments and what the path hooks do with it         *)
(* (path.c, str_cmp2 and str_rep in sstring.c, makePath in func_hook.c).   *)
(* The list is a heap of strings, a search string and its replacement in   *)
(* turn, that ends with an empty string.  A hook goes through the pairs to *)
(* the first one whose search string the path begins with, and puts its    *)
(* path together by way of rep_buf, one static buffer for all threads.     *)
(*                                                                         *)
(* Abstraction: a string is a sequence of tokens, of which each counts as  *)
(* one character ('.ISO' as its four), and letters have no case.           *)
(***************************************************************************)
EXTENDS Integers, Sequences, SequencesExt

CONSTANTS
    HeapSize,       \* PATH_HEAP_SIZE
    Tokens,         \* what strings consist of
    NUL, At, IsoExt,    \* 0x00, '@' and ".ISO"
    Stack,          \* what a path buffer on the stack may hold behind its string
    Threads,        \* threads of the game
    GamePaths,      \* the paths they open, each short enough for a buffer
    BufSize,        \* MAX_FILE_PATH
    Orders          \* "serial", "free" or both

ASSUME PathAssumption ==
    /\ HeapSize \in Nat \ {0, 1} /\ BufSize \in Nat \ {0}
    /\ NUL \notin Tokens /\ At # IsoExt
    /\ \A p \in GamePaths \cup Stack : p \in Seq(Tokens) /\ Len(p) < BufSize
    /\ Orders \subseteq {"serial", "free"}

VARIABLES
    path_list, path_list_pos,
    assigned,       \* a ghost: the assignments the list was asked to take, in their order
    rep_buf,
    path,           \* the path each thread opens
    place,          \* ptr of makePath, as a place in the list
    hooked_path,    \* what it passes to the system, as far as it is made
    rest,           \* the part of its path behind the search string
    at,             \* how far strcpy or sprintf has come, or where a NUL was stored last
    t_pc,
    order           \* "serial": no two threads are in a path hook at once

listVars == <<path_list, path_list_pos, assigned>>
hookVars == <<rep_buf, path, place, hooked_path, rest, at, t_pc>>

(* init_path_list; the arrays are static, so they begin as zeros.          *)
PathInit ==
    /\ path_list = [i \in 0..(HeapSize - 1) |-> NUL] /\ path_list_pos = 0
    /\ assigned = <<>>
    /\ rep_buf = [i \in 0..(BufSize - 1) |-> NUL]
    /\ path = [t \in Threads |-> <<>>] /\ hooked_path = path /\ rest = path
    /\ place = [t \in Threads |-> 0] /\ at = place
    /\ t_pc = [t \in Threads |-> "idle"]
    /\ order \in Orders

-----------------------------------------------------------------------------
\* Variant: the terminator of the list is not counted.
Fits_NoTerminator(pos, s) == pos + Len(s) + 1 <= HeapSize

Fits(pos, s) == pos + Len(s) + 1 <= HeapSize - 1

(* memcpy of the string with its NUL, and the empty string behind it.      *)
Added(list, pos, s) ==
    [i \in DOMAIN list |->
       IF i \in pos..(pos + Len(s) - 1) THEN s[i - pos + 1]
       ELSE IF i \in {pos + Len(s), pos + Len(s) + 1} THEN NUL ELSE list[i]]

(* Two calls of add_path_list; the second is not made if the first fails,  *)
(* and the first is not undone if the second does.                         *)
Assign(search, rep) ==
    LET pos == path_list_pos + Len(search) + 1
        kept == IF ~Fits(path_list_pos, search) THEN "none"
                ELSE IF ~Fits(pos, rep) THEN "search" ELSE "both"
        one == Added(path_list, path_list_pos, search)
    IN /\ assigned' = Append(assigned, [search |-> search, rep |-> rep, kept |-> kept,
                                        place |-> path_list_pos])
       /\ path_list' = CASE kept = "none" -> path_list
                         [] kept = "search" -> one
                         [] kept = "both" -> Added(one, pos, rep)
       /\ path_list_pos' = CASE kept = "none" -> path_list_pos
                             [] kept = "search" -> pos
                             [] kept = "both" -> pos + Len(rep) + 1

-----------------------------------------------------------------------------
Smallest(S) == CHOOSE m \in S : \A n \in S : m <= n

StrLen(pos) == Smallest({k \in pos..(HeapSize - 1) : path_list[k] = NUL}) - pos
Str(pos) == [i \in 1..StrLen(pos) |-> path_list[pos + i - 1]]

(* str_cmp2: equal as far as both go.                                      *)
Begins(p, search) == IsPrefix(search, p) \/ IsPrefix(p, search)

After(pos) == pos + StrLen(pos) + 1

-----------------------------------------------------------------------------
Goto(t, from, to) == t_pc[t] = from /\ t_pc' = [t_pc EXCEPT ![t] = to]

(* A hook is called with a path.                                           *)
OpenPath(t, p) ==
    /\ Goto(t, "idle", "look")
    /\ order = "serial" => \A u \in Threads : t_pc[u] \in {"idle", "done"}
    /\ path' = [path EXCEPT ![t] = p] /\ place' = [place EXCEPT ![t] = 0]
    /\ UNCHANGED <<rep_buf, hooked_path, rest, at, listVars, order>>

(* Behind a list that ends with half a pair makePath reads on in zeros.    *)
Ended(t) == place[t] >= HeapSize \/ path_list[place[t]] = NUL

KeepPath(t) ==
    /\ Goto(t, "look", "done") /\ Ended(t)
    /\ hooked_path' = [hooked_path EXCEPT ![t] = path[t]]
    /\ UNCHANGED <<rep_buf, path, place, rest, at, listVars, order>>

NextPair(t) ==
    /\ t_pc[t] = "look" /\ ~Ended(t) /\ ~Begins(path[t], Str(place[t]))
    /\ place' = [place EXCEPT ![t] = After(After(place[t]))]
    /\ UNCHANGED <<rep_buf, path, hooked_path, rest, at, t_pc, listVars, order>>

(* strcpy is to save the rest of the path.  If the path is shorter than    *)
(* the search string, the rest is what lies behind it.                     *)
TakePath(t) ==
    /\ Goto(t, "look", "save") /\ ~Ended(t) /\ Begins(path[t], Str(place[t]))
    /\ \E junk \in Stack :
          LET n == StrLen(place[t]) IN
          rest' = [rest EXCEPT ![t] = IF Len(path[t]) < n THEN junk
                                      ELSE SubSeq(path[t], n + 1, Len(path[t]))]
    /\ hooked_path' = [hooked_path EXCEPT ![t] = Str(After(place[t]))]
    /\ at' = [at EXCEPT ![t] = 0]
    /\ UNCHANGED <<rep_buf, path, place, listVars, order>>

(* strcpy, a character at a time.                                          *)
SaveRest(t) ==
    /\ t_pc[t] = "save" /\ at[t] < Len(rest[t])
    /\ rep_buf' = [rep_buf EXCEPT ![at[t]] = rest[t][at[t] + 1]]
    /\ at' = [at EXCEPT ![t] = @ + 1]
    /\ UNCHANGED <<path, place, hooked_path, rest, t_pc, listVars, order>>

\* Variant: the NUL is not copied.
EndSave_NoNul(t) ==
    /\ Goto(t, "save", "append") /\ at[t] = Len(rest[t])
    /\ at' = [at EXCEPT ![t] = 0]
    /\ UNCHANGED <<rep_buf, path, place, hooked_path, rest, listVars, order>>

EndSave(t) ==
    /\ Goto(t, "save", "append") /\ at[t] = Len(rest[t])
    /\ rep_buf' = [rep_buf EXCEPT ![at[t]] = NUL]
    /\ at' = [at EXCEPT ![t] = 0]
    /\ UNCHANGED <<path, place, hooked_path, rest, listVars, order>>

(* sprintf: the replacement, and the rest a character at a time.           *)
AppendRest(t) ==
    /\ t_pc[t] = "append" /\ rep_buf[at[t]] # NUL
    /\ hooked_path' = [hooked_path EXCEPT ![t] = Append(@, rep_buf[at[t]])]
    /\ at' = [at EXCEPT ![t] = @ + 1]
    /\ UNCHANGED <<rep_buf, path, place, rest, t_pc, listVars, order>>

(* makePath puts a second NUL behind the one of the string, so that        *)
(* file_emu_open finds no name there.                                      *)
EndAppend(t) ==
    /\ Goto(t, "append", "done") /\ rep_buf[at[t]] = NUL
    /\ at' = [at EXCEPT ![t] = Len(hooked_path[t]) + 1]
    /\ UNCHANGED <<rep_buf, path, place, hooked_path, rest, listVars, order>>

PathStep(t) ==
    \/ \E p \in GamePaths : OpenPath(t, p)
    \/ KeepPath(t) \/ NextPair(t) \/ TakePath(t)
    \/ SaveRest(t) \/ EndSave(t) \/ AppendRest(t) \/ EndAppend(t)

-----------------------------------------------------------------------------
(* What the system and file_emu_open see: makePath cuts the path at '@',   *)
(* and the character behind the one after ".ISO" decides how it is opened. *)
Upto(s, c) == IF Contains(s, c) THEN SubSeq(s, 1, Smallest({i \in DOMAIN s : s[i] = c}) - 1) ELSE s

OpenedAs(s, mode_umd_emu) ==
    LET name == Upto(s, At)
        ext == {i \in DOMAIN name : name[i] = IsoExt}
    IN IF mode_umd_emu = 0 \/ ext = {} THEN "file"
       ELSE IF Smallest(ext) + 2 \in DOMAIN s \ {Len(name) + 1} THEN "file_in_image"
       ELSE "image"
=============================================================================
