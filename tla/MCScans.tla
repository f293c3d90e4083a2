------------------------------ MODULE MCScans ------------------------------
(* Inputs for the run of the three searches that one thread does alone:    *)
(* for a file in an image, for import tables in memory, for functions in   *)
(* the program.  They share no state, so one of them runs at a time, and   *)
(* the other two are at rest.                                              *)
EXTENDS Iso9660, VersionPatch, ElfPatch

CONSTANTS chA, chB, self, up, ver, data, d1

-----------------------------------------------------------------------------
(* Images.  The root directory has the sectors 1 and 2, which its entries  *)
(* may fill beyond the first; a directory below it has sector 3.  Names    *)
(* start alike, with and without ";1"; entries come in any order.          *)
SelfName == <<self>>
VersionName == <<ver>>
AllChars == {self, up, ver, chA, chB}
Names == {<<chA>>, <<chA, ver>>, <<chA, chB>>, <<chB>>}
Kinds == {<<"file", n>> : n \in Names} \cup {<<"dir", n>> : n \in {<<chA>>, <<chA, chB>>}}
Lists == {l \in UNION {[1..n -> Kinds] : n \in 0..3} :
            /\ \A i, j \in DOMAIN l : l[i][2] = l[j][2] => i = j
            /\ Cardinality({i \in DOMAIN l : l[i][1] = "dir"}) <= 1}
Sublists == {<<>>, <<<<"file", <<chA>>>>, <<"file", <<chB>>>>>>} \cup {<<<<"file", n>>>> : n \in Names}

Entry(name, extent, size, dir) == [name |-> name, extent |-> extent, size |-> size, dir |-> dir]
Entries(list, sector, top, sub) ==
    <<Entry(SelfName, sector, 2 + Len(list), TRUE), Entry(<<up>>, 1, top, TRUE)>>
    \o [i \in 1..Len(list) |->
          IF list[i][1] = "dir" THEN Entry(list[i][2], 3, sub, TRUE)
          ELSE Entry(list[i][2], 10 * sector + i, 1, FALSE)]
Pads(n) == [i \in 1..n |-> Pad]

Layout(list, sublist) ==
    LET top == 2 + Len(list)
        sub == 2 + Len(sublist)
        slots == <<Entry(SelfName, 1, top, TRUE)>> \o Pads(3)
                 \o Entries(list, 1, top, sub) \o Pads(8 - top)
                 \o Entries(sublist, 3, top, 0) \o Pads(4 - sub)
    IN [s \in 0..15 |-> slots[s + 1]]

AllDiscs == {Layout(list, sublist) : list \in Lists, sublist \in Sublists}
One == {<<>>, <<chA>>, <<chB>>, <<chA, chB>>}
AllPaths == {<<x>> : x \in One} \cup {<<x, y>> : x \in One, y \in One}
            \cup {<<<<>>, x, y>> : x \in One \ {<<>>}, y \in One}

-----------------------------------------------------------------------------
(* Memory.  Four words of the kernel's, sixteen of the user's in four      *)
(* parts; files with tables of the old version (T) and another one (O), a  *)
(* word that only has the version (L), and anything else (Z).              *)
T == [ver |-> 1, table |-> TRUE]
O == [ver |-> 0, table |-> TRUE]
L == [ver |-> 1, table |-> FALSE]
Z == [ver |-> 0, table |-> FALSE]
OldMemory == {[w \in 0..19 |-> Z], [w \in 0..19 |-> IF w % 2 = 0 THEN O ELSE L]}
LoadedFiles == {<<Z, T>>, <<T, L>>, <<L, T, O, T>>, <<T, Z, Z, Z, T>>, <<Z, T, Z, Z, Z, Z>>,
                <<T, T, T, T, T, T, T, T, T>>}

-----------------------------------------------------------------------------
(* Programs.  One segment with two import tables, or the entries in one    *)
(* segment and the NIDs in another, with or without a gap between them, or *)
(* in no segment; functions once or twice, listed or not; a word before    *)
(* that may be taken for half a mark.                                      *)
File(s) == [w \in 0..(Len(s) - 1) |-> s[w + 1]]
Seg(vaddr, filesz, offset) == [vaddr |-> vaddr, filesz |-> filesz, offset |-> offset]
Lib(nids, ents, num) == [offset_nid |-> nids, offset_ent |-> ents, num_funcs |-> num]
NidList(s) == [i \in DOMAIN s |-> NID(s[i])]
Blank == Word(data, 0)
Ents(n) == [i \in 1..2 * n |-> IF i % 2 = 1 THEN JrRa ELSE Nop]

OneSegment(s, before, stub) ==
    [words |-> File(<<Blank, before, Blank>> \o NidList(s) \o Ents(3)),
     segs |-> <<Seg(0, 11, 1)>>, libs |-> <<Lib(2, 5, 2), Lib(4, 9, 1)>>, stub |-> stub]
TwoSegments(s, gap) ==
    [words |-> File(<<Blank>> \o Ents(3) \o <<Blank>> \o NidList(s)),
     segs |-> <<Seg(0, 6, 1), Seg(6 + gap, 3, 8)>>, libs |-> <<Lib(6 + gap, 0, 3)>>, stub |-> TRUE]
NoSegment(s, nids, ents) ==
    [words |-> File(NidList(s) \o Ents(3)),
     segs |-> <<Seg(0, 9, 0)>>, libs |-> <<Lib(nids, ents, 3)>>, stub |-> TRUE]

Functions == {<<1, 2, 3>>, <<3, 1, 4>>, <<2, 1, 2>>, <<4, 3, 2>>}
Programs == {OneSegment(s, before, stub) :
               s \in Functions, before \in {Blank, JrRa, NID(1)}, stub \in BOOLEAN}
            \cup {TwoSegments(s, gap) : s \in Functions, gap \in 0..1}
            \cup {NoSegment(s, 10, 3) : s \in Functions} \cup {NoSegment(s, 0, 10) : s \in Functions}
AllTypes == [1..3 -> {"N", "M", "S"}]
ThreeListed == <<2, 3, 1>>

-----------------------------------------------------------------------------
IsoRest ==
    /\ disc = <<>> /\ wanted = <<<<chA>>>> /\ path = wanted /\ dir_rec = Pad /\ found = Pad
    /\ fpos = 0 /\ iso_pc = "rest"
PatchRest ==
    /\ mem = [w \in Memory |-> Z] /\ program = NoModule /\ module = NoModule /\ modules = {}
    /\ filesize = 0 /\ devkit = [ver |-> 0, known |-> FALSE, table |-> FALSE] /\ driver_ver = [d \in Drivers |-> 0] /\ patch_pc = "rest"
ElfRest ==
    /\ prog = [words |-> <<>>, segs |-> <<>>, libs |-> <<>>, stub |-> FALSE] /\ type = <<>> /\ file = <<>> /\ lib = 1 /\ func = 0
    /\ base = <<>> /\ entry = 1 /\ elf_pc = "rest"

Init ==
    \/ IsoInit /\ PatchRest /\ ElfRest
    \/ PatchInit /\ IsoRest /\ ElfRest
    \/ ElfInit /\ IsoRest /\ PatchRest

Next ==
    \/ IsoNext /\ UNCHANGED <<patchVars, elfVars>>
    \/ PatchNext /\ UNCHANGED <<isoVars, elfVars>>
    \/ ElfNext /\ UNCHANGED <<isoVars, patchVars>>

Spec == Init /\ [][Next]_<<isoVars, patchVars, elfVars>> /\ WF_isoVars(IsoNext /\ UNCHANGED <<patchVars, elfVars>>)
=============================================================================
