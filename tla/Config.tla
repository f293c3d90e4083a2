------------------------------- MODULE Config -------------------------------
(***************************************************************************)
(* The configuration (config.c, get_line_args in sstring.c, make_full_path *)
(* in file.c): cfg_load reads hookboot.ini line by line, each line a       *)
(* section and its parameters, and goes on with the file that the last     *)
(* CONFIG_PATH of a file names, until one names none.  Then main decides   *)
(* whether the game can be run; its threads' path hooks (PathList) use the *)
(* list the ASSIGN_PATH lines have left.                                   *)
(*                                                                         *)
(* Abstraction: a file is a sequence of tokens; besides the separators     *)
(* they are names, numbers and pieces of paths.                            *)
(***************************************************************************)
EXTENDS PathList, FiniteSets

CONSTANTS
    FileSystems,    \* what may be on the memory stick: functions from paths to files
    IniFile,        \* CONFIG_NAME
    BootPath,       \* the directory of hook boot
    Drives,         \* tokens with a ':'
    CR, LF, Eof, Space, Eq, Comma, Slash, Dot,
    Hex,            \* str2hex: the value of a sequence of tokens
    AllNids,        \* 0xffffffff
    Nids,           \* the NIDs of hook_list_all
    psp_devkit_ver,
    KernelMemory,   \* words a KPATCH may be for, and their values
    MaxLoads        \* bound: how many files are read

ASSUME ConfigAssumption ==
    /\ BootPath \in Seq(Tokens) /\ Slash \in Tokens
    /\ Len(BootPath) > 1 /\ BootPath[1] \in Drives
    /\ \A i \in 2..Len(BootPath) : BootPath[i] \notin Drives
    /\ \A f \in FileSystems : \A p \in DOMAIN f :
          f[p] \in Seq(Tokens) /\ p # <<>> /\ Last(p) # Slash
    /\ \A s \in DOMAIN Hex : Hex[s] \in Nat
    /\ MaxLoads \in Nat

VARIABLES
    files,
    config_path,    \* the file to read, or to read next
    ptr,            \* what is left of the file that is being read
    psp_boot_path,
    cfg,            \* the cfg_ variables and mode_umd_emu
    func_hook_type,
    kmem,
    lines,          \* a ghost: the arguments of every line, and the file it is in
    loads,          \* a ghost: the files that were read
    cfg_pc

configVars == <<config_path, ptr, psp_boot_path, cfg, func_hook_type, kmem, lines, loads, cfg_pc>>
vars == <<files, configVars, listVars, hookVars, order>>

NoConfig ==
    [target |-> <<>>, patch |-> <<>>, log |-> {}, sysvec |-> 0, devkit |-> 0, kernel |-> 0,
     hack |-> 0, set |-> 0, wait |-> 0, title |-> <<>>, umd |-> 1]

Init ==
    /\ PathInit
    /\ files \in FileSystems
    /\ config_path = IniFile /\ ptr = <<>>
    /\ psp_boot_path = BootPath
    /\ cfg = NoConfig
    /\ func_hook_type = [n \in Nids |-> "N"]
    /\ kmem = KernelMemory
    /\ lines = <<>> /\ loads = <<>>
    /\ cfg_pc = "next_file"

-----------------------------------------------------------------------------
(* get_line_args.  A line ends with a CR, and with the LF behind it; the   *)
(* last one may go without.                                                *)
Line == Upto(ptr, CR)
AfterLine ==
    LET after == SubSeq(ptr, Len(Line) + 2, Len(ptr))
    IN IF after # <<>> /\ after[1] = LF THEN Tail(after) ELSE after
LastLine == AfterLine = <<>> \/ AfterLine[1] = Eof

(* The section ends at the first '=', a parameter at a ','.                *)
Ends(line) ==
    LET eq == Smallest({i \in DOMAIN line : line[i] = Eq} \cup {Len(line) + 1})
    IN {0, eq, Len(line) + 1} \cup {i \in DOMAIN line : i > eq /\ line[i] = Comma}

(* The spaces in front are dropped, and all from the next one on.          *)
Word(line, first, last) ==
    LET word == {i \in first..last : line[i] # Space}
        start == Smallest(word)
    IN IF word = {} THEN <<>>
       ELSE SubSeq(line, start,
                   Smallest({i \in start..last : line[i] = Space} \cup {last + 1}) - 1)

Args(line) ==
    LET end(k) == CHOOSE e \in Ends(line) : Cardinality({d \in Ends(line) : d < e}) = k
    IN [k \in 1..(Cardinality(Ends(line)) - 1) |-> Word(line, end(k - 1) + 1, end(k) - 1)]

str2hex(s) == IF s \in DOMAIN Hex THEN Hex[s] ELSE 0

make_full_path(p) ==
    IF \E i \in DOMAIN p : p[i] \in Drives THEN p
    ELSE LET name == IF Len(p) > 1 /\ p[1] = Dot /\ p[2] = Slash THEN SubSeq(p, 3, Len(p)) ELSE p
         IN psp_boot_path \o (IF Last(psp_boot_path) = Slash THEN <<>> ELSE <<Slash>>) \o name

(* A path that begins with '/' has the boot directory itself cut behind    *)
(* the drive, after it was copied.                                         *)
RootAfter(p) ==
    IF (\E i \in DOMAIN p : p[i] \in Drives) \/ p = <<>> \/ p[1] # Slash THEN psp_boot_path
    ELSE <<Head(psp_boot_path)>>

-----------------------------------------------------------------------------
\* Variant: the name of the next file is not cleared.
LoadFile_KeepPath ==
    /\ cfg_pc = "next_file" /\ config_path # <<>>
    /\ config_path \in DOMAIN files /\ Len(loads) < MaxLoads
    /\ ptr' = files[config_path]
    /\ loads' = Append(loads, config_path)
    /\ cfg_pc' = "line"
    /\ UNCHANGED <<files, config_path, psp_boot_path, cfg, func_hook_type, kmem, lines, listVars,
                   hookVars, order>>

(* The head of the loop of cfg_load.                                       *)
LoadFile ==
    /\ cfg_pc = "next_file" /\ config_path # <<>>
    /\ config_path \in DOMAIN files /\ Len(loads) < MaxLoads
    /\ ptr' = files[config_path] /\ config_path' = <<>>
    /\ loads' = Append(loads, config_path)
    /\ cfg_pc' = "line"
    /\ UNCHANGED <<files, psp_boot_path, cfg, func_hook_type, kmem, lines, listVars, hookVars, order>>

NoFile ==
    /\ cfg_pc = "next_file" /\ config_path # <<>> /\ config_path \notin DOMAIN files
    /\ cfg_pc' = "exit"
    /\ UNCHANGED <<files, config_path, ptr, psp_boot_path, cfg, func_hook_type, kmem, lines, loads,
                   listVars, hookVars, order>>

(* The loop over the lines.                                                *)
NextLine(args) ==
    /\ cfg_pc = "line"
    /\ IF LastLine THEN cfg_pc' = "next_file" /\ ptr' = <<>>
       ELSE cfg_pc' = "line" /\ ptr' = AfterLine
    /\ lines' = Append(lines, [args |-> args, file |-> Len(loads)])
    /\ UNCHANGED <<files, loads, hookVars, order>>

(* A section is taken if the line has as many parameters as it needs.      *)
Parameters ==
    [TITLE |-> 1, UMD_EMU |-> 1, ASSIGN_PATH |-> 2, TARGET_PATH |-> 1, CONFIG_PATH |-> 1,
     PATCH_PATH |-> 1, LOG_DEVICE |-> 1, SYSCALL_VECTOR |-> 1, DEVKIT_VER |-> 1,
     KERNEL_VER |-> 1, IMPORT_VER |-> 2, WAIT_RUN |-> 1, NID |-> 1, KPATCH |-> 3]

Is(args, name) == args[1] = <<name>> /\ Len(args) > Parameters[name]

hook_type_str == {<<"N">>, <<"M">>, <<"S">>}

(* A comment, a section that is not known, too few parameters, a mode that *)
(* is none: the line is dropped, and the next one read.                    *)
Dropped(args) ==
    \/ ~\E name \in DOMAIN Parameters : Is(args, name)
    \/ Is(args, "NID") /\ Len(args) > 2 /\ args[3] \notin hook_type_str

Drop(args) ==
    /\ NextLine(args) /\ Dropped(args)
    /\ UNCHANGED <<config_path, psp_boot_path, cfg, func_hook_type, kmem, listVars>>

(* A version given with a parameter must be the running one's.             *)
ForThisFirmware(args, n) == Len(args) >= n => str2hex(args[n]) = psp_devkit_ver

LogBit(device) ==
    CASE device = <<"DISP">> -> 0 [] device = <<"FILE">> -> 1 [] device = <<"DELAY">> -> 7
      [] OTHER -> 31

Configured(args) ==
    CASE Is(args, "TITLE") -> [cfg EXCEPT !.title = args[2]]
      [] Is(args, "UMD_EMU") -> [cfg EXCEPT !.umd = str2hex(args[2])]
      [] Is(args, "LOG_DEVICE") -> [cfg EXCEPT !.log = @ \cup {LogBit(args[2])}]
      [] Is(args, "SYSCALL_VECTOR") ->
            IF ForThisFirmware(args, 3) THEN [cfg EXCEPT !.sysvec = str2hex(args[2])] ELSE cfg
      [] Is(args, "DEVKIT_VER") -> [cfg EXCEPT !.devkit = str2hex(args[2]) % 65536]
      [] Is(args, "KERNEL_VER") -> [cfg EXCEPT !.kernel = str2hex(args[2])]
      [] Is(args, "IMPORT_VER") ->
            [cfg EXCEPT !.hack = str2hex(args[2]) % 256, !.set = str2hex(args[3]) % 256]
      [] Is(args, "WAIT_RUN") -> [cfg EXCEPT !.wait = str2hex(args[2])]

Configure(args) ==
    /\ NextLine(args)
    /\ \E name \in {"TITLE", "UMD_EMU", "LOG_DEVICE", "SYSCALL_VECTOR", "DEVKIT_VER",
                    "KERNEL_VER", "IMPORT_VER", "WAIT_RUN"} : Is(args, name)
    /\ cfg' = Configured(args)
    /\ UNCHANGED <<config_path, psp_boot_path, func_hook_type, kmem, listVars>>

SetPath(args) ==
    /\ NextLine(args) /\ args[1] \in {<<"TARGET_PATH">>, <<"PATCH_PATH">>} /\ Len(args) > 1
    /\ cfg' = IF Is(args, "TARGET_PATH") THEN [cfg EXCEPT !.target = make_full_path(args[2])]
              ELSE [cfg EXCEPT !.patch = make_full_path(args[2])]
    /\ psp_boot_path' = RootAfter(args[2])
    /\ UNCHANGED <<config_path, func_hook_type, kmem, listVars>>

\* Variant: the first one of a file stands.
ConfigPath_First(args) ==
    /\ NextLine(args) /\ Is(args, "CONFIG_PATH")
    /\ config_path' = IF config_path = <<>> THEN make_full_path(args[2]) ELSE config_path
    /\ psp_boot_path' = RootAfter(args[2])
    /\ UNCHANGED <<cfg, func_hook_type, kmem, listVars>>

ConfigPath(args) ==
    /\ NextLine(args) /\ Is(args, "CONFIG_PATH")
    /\ config_path' = make_full_path(args[2])
    /\ psp_boot_path' = RootAfter(args[2])
    /\ UNCHANGED <<cfg, func_hook_type, kmem, listVars>>

AssignPath(args) ==
    /\ NextLine(args) /\ Is(args, "ASSIGN_PATH")
    /\ Assign(args[2], make_full_path(args[3]))
    /\ psp_boot_path' = RootAfter(args[3])
    /\ UNCHANGED <<config_path, cfg, func_hook_type, kmem>>

set_hook_type(nid, type) ==
    func_hook_type' = [n \in Nids |-> IF nid \in {n, AllNids} THEN type ELSE func_hook_type[n]]

Nid(args) ==
    /\ NextLine(args) /\ Is(args, "NID") /\ ~Dropped(args)
    /\ set_hook_type(str2hex(args[2]), IF Len(args) = 2 THEN "M" ELSE Head(args[3]))
    /\ UNCHANGED <<config_path, psp_boot_path, cfg, kmem, listVars>>

KPatch(args) ==
    /\ NextLine(args) /\ Is(args, "KPATCH")
    /\ LET addr == str2hex(args[2])
       IN kmem' = IF ForThisFirmware(args, 5) /\ kmem[addr] = str2hex(args[3])
                  THEN [kmem EXCEPT ![addr] = str2hex(args[4])] ELSE kmem
    /\ UNCHANGED <<config_path, psp_boot_path, cfg, func_hook_type, listVars>>

(* No file is named: the configuration is complete.                        *)
EndLoad ==
    /\ cfg_pc = "next_file" /\ config_path = <<>> /\ cfg_pc' = "loaded"
    /\ UNCHANGED <<files, config_path, ptr, psp_boot_path, cfg, func_hook_type, kmem, lines, loads,
                   listVars, hookVars, order>>

Asked(type) == \E n \in Nids : func_hook_type[n] = type

(* main: check_free_vector may find that the vector table is not one.      *)
Main(vector_ok) ==
    LET sysvec == IF vector_ok THEN cfg.sysvec ELSE 0 IN
    /\ cfg_pc = "loaded"
    /\ cfg_pc' = IF (Asked("S") => sysvec # 0) /\ (Asked("S") \/ Asked("M")) THEN "run" ELSE "exit"
    /\ cfg' = [cfg EXCEPT !.sysvec = sysvec,
                          !.patch = IF Asked("M") \/ Contains(cfg.target, At) THEN @ ELSE cfg.target]
    /\ UNCHANGED <<files, config_path, ptr, psp_boot_path, func_hook_type, kmem, lines, loads,
                   listVars, hookVars, order>>

LoadStep ==
    \/ LoadFile \/ NoFile \/ EndLoad
    \/ \E line \in {Line} : \E args \in {Args(line)} :
          \/ Drop(args) \/ Configure(args) \/ SetPath(args) \/ ConfigPath(args)
          \/ AssignPath(args) \/ Nid(args) \/ KPatch(args)
    \/ \E ok \in BOOLEAN : Main(ok)

GameStep == cfg_pc = "run" /\ (\E t \in Threads : PathStep(t)) /\ UNCHANGED <<files, configVars>>

Next == LoadStep \/ GameStep

(* The configuration is read by one thread, which nothing holds up.        *)
Spec == Init /\ [][Next]_vars /\ WF_vars(LoadStep)

-----------------------------------------------------------------------------
(* The widths of cfg_devkit_ver and of the bytes of IMPORT_VER, and the    *)
(* bits of the log.                                                        *)
NumbersOK ==
    /\ {cfg.devkit, cfg.hack, cfg.set} \subseteq Nat /\ cfg.log \subseteq 0..31
    /\ cfg.devkit < 65536 /\ cfg.hack < 256 /\ cfg.set < 256

(* Every variable has its type, the list ends within its heap, and neither *)
(* strcpy nor sprintf nor the NUL behind the string leaves rep_buf or the  *)
(* buffer of a path, whatever other threads write there (add_path_list,    *)
(* str_rep, makePath).                                                     *)
TypeOK ==
    /\ path_list_pos \in 0..(HeapSize - 1) /\ path_list[path_list_pos] = NUL
    /\ DOMAIN path_list = 0..(HeapSize - 1) /\ DOMAIN rep_buf = 0..(BufSize - 1)
    /\ \A t \in Threads : at[t] \in 0..(BufSize - 1) /\ Len(hooked_path[t]) < BufSize
    /\ NumbersOK
    /\ func_hook_type \in [Nids -> {"N", "M", "S"}]
    /\ psp_boot_path \in {BootPath, <<Head(BootPath)>>}
    /\ cfg_pc \in {"next_file", "line", "loaded", "run", "exit"}

(* A line counts unless it is dropped.                                     *)
Lines(name) == {k \in DOMAIN lines : ~Dropped(lines[k].args) /\ Is(lines[k].args, name)}
LastOf(S) == CHOOSE k \in S : \A j \in S : j <= k
Arg(k, n) == lines[k].args[n]

PathArg(k) == Arg(k, IF k \in Lines("ASSIGN_PATH") THEN 3 ELSE 2)
Rooted == {k \in Lines("ASSIGN_PATH") \cup Lines("TARGET_PATH") \cup Lines("CONFIG_PATH")
                  \cup Lines("PATCH_PATH") : PathArg(k) # <<>> /\ PathArg(k)[1] = Slash}
Relative(p) == \A i \in DOMAIN p : p[i] \notin Drives

(* The modes and values in force are those of the last line that gives     *)
(* them, over all the files as if they were one; each file but the first   *)
(* is the one that the last CONFIG_PATH of the file before it names; and   *)
(* the target is in hook boot's directory if its path names no drive,      *)
(* unless an earlier path began with '/' (how_to_j.txt:27, cfg_load).      *)
LastLineWins ==
    cfg_pc = "loaded" =>
        /\ \A n \in Nids :
              LET given == {k \in Lines("NID") : str2hex(Arg(k, 2)) \in {n, AllNids}}
              IN func_hook_type[n] = IF given = {} THEN "N"
                                     ELSE IF Len(lines[LastOf(given)].args) = 2 THEN "M"
                                     ELSE Arg(LastOf(given), 3)[1]
        /\ LET given == {k \in Lines("SYSCALL_VECTOR") :
                           Len(lines[k].args) > 2 => str2hex(Arg(k, 3)) = psp_devkit_ver}
           IN cfg.sysvec = IF given = {} THEN 0 ELSE str2hex(Arg(LastOf(given), 2))
        /\ \A f \in DOMAIN loads :
              LET given == {k \in Lines("CONFIG_PATH") : lines[k].file = f}
              IN IF f = Len(loads) THEN given = {}
                 ELSE given # {} /\ Last(loads[f + 1]) = Last(Arg(LastOf(given), 2))
        /\ Lines("TARGET_PATH") = {} \/
              LET k == LastOf(Lines("TARGET_PATH"))
              IN (\A j \in Rooted : j >= k) /\ Relative(Arg(k, 2)) => IsPrefix(BootPath, cfg.target)

(* What how_to_j.txt:27 says of a path without ':'.                        *)
RelativeToBoot ==
    /\ cfg_pc = "loaded" /\ Lines("TARGET_PATH") # {}
    /\ Relative(Arg(LastOf(Lines("TARGET_PATH")), 2))
    => IsPrefix(BootPath, cfg.target)

(* The name of an image, with no other in it.                              *)
Image(name) ==
    /\ name # <<>> /\ Last(name) = IsoExt
    /\ \A i \in 1..(Len(name) - 1) : name[i] \notin {IsoExt, At}

(* An assignment whose pair is whole and seen, and that p is long enough for. *)
Plain(a, p) ==
    /\ a.kept # "search" /\ a.search # <<>>
    /\ IsPrefix(p, a.search) => p = a.search

(* If one thread at a time opens a file: a path becomes the replacement of *)
(* the first search string it begins with, and what follows that in it; no *)
(* other path is changed.  With "x.ISO@" for its replacement a path that   *)
(* goes on is opened as a file of the image, with "x.ISO" one that does    *)
(* not as the image itself.                                                *)
(* Excepted are a path shorter than a search string it agrees with, and    *)
(* the assignments after one of which only half fitted the heap, or with   *)
(* an empty search string (add_path_list, makePath, str_rep).              *)
PathsAsAssigned ==
    order = "serial" => \A t \in {u \in Threads : t_pc[u] = "done"} :
        LET p == path[t]
            out == hooked_path[t]
            hits == {i \in DOMAIN assigned :
                        assigned[i].kept = "both" /\ IsPrefix(assigned[i].search, p)}
            seen == IF hits = {} THEN Len(assigned) ELSE Smallest(hits)
            a == assigned[seen]
            behind == SubSeq(p, Len(a.search) + 1, Len(p))
        IN (\A j \in 1..seen : Plain(assigned[j], p))
           => IF hits = {} THEN out = p
              ELSE /\ out = a.rep \o behind
                   /\ Last(a.rep) = At /\ Image(Front(a.rep)) /\ behind # <<>> /\ cfg.umd # 0
                         => OpenedAs(out, cfg.umd) = "file_in_image"
                   /\ Image(a.rep) /\ behind = <<>> /\ cfg.umd # 0
                         => OpenedAs(out, cfg.umd) = "image"

(* Reading the configuration ends, unless a file names one that was read   *)
(* before it, or itself: then hook boot reads them over and over.          *)
Circle ==
    \E k \in Lines("CONFIG_PATH") : \E j \in 1..lines[k].file : Last(loads[j]) = Last(Arg(k, 2))
LoadEnds == <>(cfg_pc \in {"run", "exit"} \/ Circle)
=============================================================================
