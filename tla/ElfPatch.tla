------------------------------ MODULE ElfPatch ------------------------------
(***************************************************************************)
(* How a MODULE hook gets into the game's program.  The pre-patch          *)
(* (psp_elf.c, psp_patch_NID) goes through the import tables of the file:  *)
(* the NID of a function that is to be hooked is moved from the list of    *)
(* NIDs into the second word of the function's entry ("jr ra; nop"), so    *)
(* that the system does not link it and the entry can be recognised.       *)
(* After the system has loaded the file, hook_module_one searches memory   *)
(* for each mark ("jr ra; NID") and makes it a jump to the hook            *)
(* (func_hook.c).                                                          *)
(*                                                                         *)
(* Abstraction: a word of the file or of memory is a pair of a kind and a  *)
(* number; memory is counted from the place the program is loaded at.      *)
(***************************************************************************)
EXTENDS Integers, FiniteSets

CONSTANTS
    Progs,      \* the program files; see ElfAssumption
    Listed,     \* the NIDs of hook_list_all that have a hook, a sequence
    HookTypes   \* what the NID= lines may make of func_hook_type

Word(kind, n) == <<kind, n>>
JrRa == Word("jr ra", 0)
Nop == Word("nop", 0)
Zero == Word("zero", 0)
Bss == Word("bss", 0)
Torn == Word("torn", 0)     \* bytes of more than one word
NID(n) == Word("nid", n)
JumpTo(n) == Word("jump to hook", n)
Syscall(n) == Word("syscall", n)

(* words: the file, counted from 0; segs: its program headers; libs: its   *)
(* import tables, with the addresses of the NIDs and of the entries.       *)
(* stub: it has a section .lib.stub, whatever the case of the letters.     *)
Sequence(f) == IsFiniteSet(DOMAIN f) /\ DOMAIN f = 1..Cardinality(DOMAIN f)

ASSUME ElfAssumption ==
    /\ \A p \in Progs :
          /\ DOMAIN p = {"words", "segs", "libs", "stub"}
          /\ IsFiniteSet(DOMAIN p.words) /\ DOMAIN p.words = 0..(Cardinality(DOMAIN p.words) - 1)
          /\ \A x \in DOMAIN p.words : p.words[x] = Word(p.words[x][1], p.words[x][2])
          /\ Sequence(p.segs) /\ Sequence(p.libs)
          /\ \A s \in DOMAIN p.segs :
                {p.segs[s].vaddr, p.segs[s].filesz, p.segs[s].offset} \subseteq Nat
          /\ \A l \in DOMAIN p.libs :
                {p.libs[l].num_funcs, p.libs[l].offset_nid, p.libs[l].offset_ent} \subseteq Nat
    /\ Sequence(Listed) /\ \A d, e \in DOMAIN Listed : Listed[d] = Listed[e] => d = e
    /\ HookTypes \subseteq [DOMAIN Listed -> {"N", "M", "S"}]

VARIABLES
    prog,       \* the program file as the game has it
    type,       \* func_hook_type
    file,       \* szBuffer, and then the patched file
    lib, func,  \* the loops of psp_patch_NID
    base,       \* the program in memory
    entry,      \* the loop of hook_systemcall_all
    elf_pc      \* "rest", "mark", "load", "hook" or "done"

elfVars == <<prog, type, file, lib, func, base, entry, elf_pc>>

ElfInit ==
    /\ prog \in Progs /\ type \in HookTypes
    /\ file = prog.words
    /\ lib = 1 /\ func = 0 /\ base = <<>> /\ entry = 1
    /\ elf_pc = IF prog.stub THEN "mark" ELSE "load"

-----------------------------------------------------------------------------
(* get_program_offset: the first segment that holds the address, or ends   *)
(* just before it.  If there is none, the result is -1, and its callers    *)
(* take it for an offset in bytes.                                         *)
get_program_offset(addr) ==
    LET holds == {s \in DOMAIN prog.segs :
                    /\ prog.segs[s].vaddr <= addr
                    /\ prog.segs[s].vaddr + prog.segs[s].filesz >= addr}
        seg == prog.segs[CHOOSE s \in holds : \A t \in holds : s <= t]
    IN IF holds = {} THEN -1 ELSE addr - seg.vaddr + seg.offset

(* search_hook_nid and get_hook_type.                                      *)
IsModuleHook(w) == \E e \in DOMAIN Listed : w = NID(Listed[e]) /\ type[e] = "M"

Unpatched == UNCHANGED <<prog, type, base, entry>>

(* The NID at a place of the list; bytes of two words are taken for none.  *)
Listing(nids) == IF nids = -1 THEN Torn ELSE file[nids + func]

(* The file with a NID put into the second word of an entry; an entry one  *)
(* byte in front of its place has it put across both words.                *)
Enter(nid, ents) ==
    IF ents = -1 THEN [file EXCEPT ![2 * func] = Torn, ![2 * func + 1] = Torn]
    ELSE [file EXCEPT ![ents + 2 * func + 1] = nid]

\* Variant: the NID stays in the list as well.
MarkEntry_Keep ==
    /\ elf_pc = "mark" /\ lib \in DOMAIN prog.libs
    /\ func < prog.libs[lib].num_funcs /\ func' = func + 1
    /\ LET nid == Listing(get_program_offset(prog.libs[lib].offset_nid))
           ents == get_program_offset(prog.libs[lib].offset_ent)
       IN file' = IF IsModuleHook(nid) THEN Enter(nid, ents) ELSE file
    /\ UNCHANGED <<lib, elf_pc>> /\ Unpatched

MarkEntry ==
    /\ elf_pc = "mark" /\ lib \in DOMAIN prog.libs
    /\ func < prog.libs[lib].num_funcs /\ func' = func + 1
    /\ LET nids == get_program_offset(prog.libs[lib].offset_nid)
           ents == get_program_offset(prog.libs[lib].offset_ent)
           nid == Listing(nids)
       IN file' = IF IsModuleHook(nid) THEN [Enter(nid, ents) EXCEPT ![nids + func] = Zero]
                  ELSE file
    /\ UNCHANGED <<lib, elf_pc>> /\ Unpatched

NextLib ==
    /\ elf_pc = "mark" /\ lib \in DOMAIN prog.libs
    /\ func = prog.libs[lib].num_funcs /\ func' = 0
    /\ lib' = lib + 1
    /\ UNCHANGED <<file, elf_pc>> /\ Unpatched

EndMark ==
    /\ elf_pc = "mark" /\ lib \notin DOMAIN prog.libs
    /\ elf_pc' = "load"
    /\ UNCHANGED <<file, lib, func>> /\ Unpatched

-----------------------------------------------------------------------------
(* The system puts the segments where their headers say, and links every   *)
(* entry whose NID it knows to a system call.                              *)
Addresses(s) == prog.segs[s].vaddr..(prog.segs[s].vaddr + prog.segs[s].filesz - 1)
Segment(addr) == {s \in DOMAIN prog.segs : addr \in Addresses(s)}

Place(addr) ==
    LET seg == prog.segs[CHOOSE s \in Segment(addr) : TRUE] IN addr - seg.vaddr + seg.offset

Content(words, addr) == IF Segment(addr) = {} THEN Bss ELSE words[Place(addr)]

(* The functions of the program: where the NID is, and where the entry.    *)
Import(l, j) == [nid |-> prog.libs[l].offset_nid + j, ent |-> prog.libs[l].offset_ent + 2 * j]
Imports ==
    UNION {{Import(l, j) : j \in 0..(prog.libs[l].num_funcs - 1)} : l \in DOMAIN prog.libs}

Linked(words, addr) ==
    LET imports == {i \in Imports : /\ addr \in {i.ent, i.ent + 1}
                                    /\ Content(words, i.nid)[1] = "nid"}
    IN IF imports = {} THEN Content(words, addr)
       ELSE LET i == CHOOSE i \in imports : TRUE
            IN IF addr = i.ent THEN JrRa ELSE Syscall(Content(words, i.nid)[2])

LoadExec ==
    /\ elf_pc = "load" /\ elf_pc' = "hook"
    /\ base' = [a \in 0..Cardinality(DOMAIN file) |-> Linked(file, a)]
    /\ UNCHANGED <<prog, type, file, lib, func, entry>>

-----------------------------------------------------------------------------
(* hook_systemcall_all reaches an entry that is not a MODULE hook.         *)
SkipEntry ==
    /\ elf_pc = "hook" /\ entry \in DOMAIN Listed /\ type[entry] # "M"
    /\ entry' = entry + 1
    /\ UNCHANGED <<prog, type, file, lib, func, base, elf_pc>>

Marks == {a \in DOMAIN file : base[a] = JrRa /\ base[a + 1] = NID(Listed[entry])}

hook_module_one ==
    /\ elf_pc = "hook" /\ entry \in DOMAIN Listed /\ type[entry] = "M"
    /\ base' = IF Marks = {} THEN base
               ELSE LET a == CHOOSE a \in Marks : \A b \in Marks : a <= b
                    IN [base EXCEPT ![a] = JumpTo(Listed[entry]), ![a + 1] = Nop]
    /\ entry' = entry + 1
    /\ UNCHANGED <<prog, type, file, lib, func, elf_pc>>

EndHook ==
    /\ elf_pc = "hook" /\ entry \notin DOMAIN Listed
    /\ elf_pc' = "done"
    /\ UNCHANGED <<prog, type, file, lib, func, base, entry>>

ElfNext ==
    \/ MarkEntry \/ NextLib \/ EndMark \/ LoadExec
    \/ SkipEntry \/ hook_module_one \/ EndHook

ElfSpec == ElfInit /\ [][ElfNext]_elfVars

-----------------------------------------------------------------------------
(* A program the patch is made for: it has the section; its segments are   *)
(* apart, and each table lies in one of them and not right behind the end  *)
(* of another; its entries are the empty functions the linker leaves, no   *)
(* two of one function, within the part of the memory that is searched;    *)
(* and nothing else in it looks like a mark.                               *)
Positions(s) == prog.segs[s].offset..(prog.segs[s].offset + prog.segs[s].filesz - 1)

SegmentsApart ==
    \A s, t \in DOMAIN prog.segs :
        /\ Positions(s) \subseteq DOMAIN prog.words
        /\ s # t => Addresses(s) \cap Addresses(t) = {} /\ Positions(s) \cap Positions(t) = {}

TablesInside ==
    \A l \in DOMAIN prog.libs :
        /\ \A s \in DOMAIN prog.segs :
              prog.segs[s].vaddr + prog.segs[s].filesz
                 \notin {prog.libs[l].offset_nid, prog.libs[l].offset_ent}
        /\ \E s, t \in DOMAIN prog.segs : \A j \in 0..(prog.libs[l].num_funcs - 1) :
              /\ Import(l, j).nid \in Addresses(s)
              /\ {Import(l, j).ent, Import(l, j).ent + 1} \subseteq Addresses(t)

EmptyEntries ==
    /\ \A i \in Imports :
          /\ Content(prog.words, i.nid)[1] = "nid" /\ i.ent \in DOMAIN prog.words
          /\ Content(prog.words, i.ent) = JrRa /\ Content(prog.words, i.ent + 1) = Nop
    /\ \A i, j \in Imports :
          Content(prog.words, i.nid) = Content(prog.words, j.nid) \/ i.ent = j.ent => i = j
    /\ \A a \in DOMAIN prog.words :
          ~(Content(prog.words, a) = JrRa /\ Content(prog.words, a + 1)[1] = "nid")

Regular == prog.stub /\ SegmentsApart /\ TablesInside /\ EmptyEntries

(* In the end every entry of a function that is to be hooked is a jump to  *)
(* its own hook, whatever the order of the list and of the tables; every   *)
(* other entry is linked to its own function of the system; and the        *)
(* program's other words are what they were, but for the NIDs taken out.   *)
HookedOrLinked ==
    elf_pc = "done" /\ Regular =>
        /\ \A i \in Imports :
              LET w == Content(prog.words, i.nid) IN
              IF IsModuleHook(w)
              THEN base[i.ent] = JumpTo(w[2]) /\ base[i.ent + 1] = Nop
              ELSE base[i.ent] = JrRa /\ base[i.ent + 1] = Syscall(w[2])
        /\ \A a \in DOMAIN base :
              a \notin UNION {{i.nid, i.ent, i.ent + 1} : i \in Imports} =>
                 base[a] = Content(prog.words, a)
=============================================================================
