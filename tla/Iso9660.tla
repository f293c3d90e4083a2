------------------------------ MODULE Iso9660 ------------------------------
(***************************************************************************)
(* The search for a file inside an ISO image (iso9660.c), which a path     *)
(* with '@' asks for: "image.iso@DIR/FILE".  The search walks the          *)
(* directory records of the image, one level of the path after the other.  *)
(*                                                                         *)
(* Abstraction: the image is a sequence of slots, a record takes one slot  *)
(* and a sector PerSector of them, so fpos counts slots; the zeros after   *)
(* the last record of a directory (LEN_DR = 0) are the record Pad.  A name *)
(* is a sequence of characters, the path a sequence of components: a '/'   *)
(* at its start is an empty first component, one at its end an empty last  *)
(* one.  The byte after a name in the image is no character of a path.     *)
(***************************************************************************)
EXTENDS Integers, Sequences

CONSTANTS
    Discs,          \* the images: functions from slots to records or Pad
    Paths,          \* the paths searched in them
    PerSector,      \* slots in a sector (SEC_SIZE)
    RootSlot,       \* where the record of the root directory is: 16*SEC_SIZE + 156
    Self,           \* the name of a directory's first entry, itself
    Version,        \* the suffix ";1" that a mastering tool may give a file's name
    Pad,            \* a record of length 0
    Chars           \* what names and components are made of

Records == [name : Seq(Chars), extent : Nat, size : Nat, dir : BOOLEAN]

ASSUME IsoAssumption ==
    /\ PerSector \in Nat \ {0} /\ RootSlot \in Nat
    /\ Self \in Seq(Chars) /\ Version \in Seq(Chars) /\ Pad \notin Records
    /\ \A d \in Discs :
          /\ DOMAIN d \subseteq Nat /\ RootSlot \in DOMAIN d
          /\ \A s \in DOMAIN d : d[s] \in Records \cup {Pad}
          /\ d[RootSlot] # Pad /\ d[RootSlot].dir
    /\ Paths \subseteq Seq(Seq(Chars)) \ {<<>>}

VARIABLES
    disc,           \* the image behind isofd
    wanted,         \* the path asked for
    path,           \* the components of it still to be found
    dir_rec,        \* the record read last
    fpos,           \* the slot to read next
    iso_pc,         \* "rest", "root", "search" or "done"
    found           \* the record whose extent and size become offset and filesize, or Pad

isoVars == <<disc, wanted, path, dir_rec, fpos, iso_pc, found>>

Start(d, p) ==
    /\ disc = d /\ wanted = p /\ path = p
    /\ dir_rec = Pad /\ fpos = RootSlot /\ found = Pad

IsoInit == iso_pc = "root" /\ \E d \in Discs, p \in Paths : Start(d, p)

-----------------------------------------------------------------------------
\* Variant: the length of the name is compared as well.
Matches_Whole(r, component) == r.name = component

(* memcmp(&dir_rec[DIRREC_NAME],path,path_size): the name may go on.       *)
Matches(r, component) ==
    Len(component) <= Len(r.name) /\ SubSeq(r.name, 1, Len(component)) = component

Extent(r) == r.extent * PerSector

(* sceIoLseek and sceIoRead: a read past the end leaves the old record.    *)
Record == IF fpos \in DOMAIN disc THEN disc[fpos] ELSE dir_rec

\* Variant: what is found need not be of the kind that is wanted.
KindWanted_Any(r) == TRUE

(* DIRREC_FLAG_TYPE_DIR: a directory if the path goes on, else a file.     *)
KindWanted(r) == r.dir <=> Len(path) > 1

-----------------------------------------------------------------------------
(* The head of iso9660_search_path.                                        *)
GetRoot ==
    /\ iso_pc = "root" /\ iso_pc' = "search"
    /\ dir_rec' = Record /\ fpos' = Extent(dir_rec')
    /\ path' = IF Len(path) > 1 /\ Head(path) = <<>> THEN Tail(path) ELSE path
    /\ UNCHANGED <<disc, wanted, found>>

Read ==
    /\ iso_pc = "search" /\ dir_rec' = Record
    /\ UNCHANGED <<disc, wanted>>

(* The end of the directory, or a record of the wrong kind: return 0.      *)
NotFound ==
    /\ Read
    /\ Record # Pad => Matches(Record, Head(path)) /\ ~KindWanted(Record)
    /\ iso_pc' = "done"
    /\ UNCHANGED <<path, fpos, found>>

\* Variant: the position stays where it is.
NextRecord_Stuck ==
    /\ Read
    /\ Record # Pad /\ ~Matches(Record, Head(path))
    /\ UNCHANGED <<path, fpos, iso_pc, found>>

(* Past the end every read fails, so the position need not be counted on.  *)
NextRecord ==
    /\ Read
    /\ Record # Pad /\ ~Matches(Record, Head(path))
    /\ fpos' = IF fpos \in DOMAIN disc THEN fpos + 1 ELSE fpos
    /\ UNCHANGED <<path, iso_pc, found>>

Descend ==
    /\ Read
    /\ Record # Pad /\ Matches(Record, Head(path)) /\ KindWanted(Record)
    /\ Len(path) > 1 /\ path' = Tail(path)
    /\ fpos' = Extent(Record)
    /\ UNCHANGED <<iso_pc, found>>

(* return 1, and iso9660_get_offset takes the extent and the size.         *)
Found ==
    /\ Read
    /\ Record # Pad /\ Matches(Record, Head(path)) /\ KindWanted(Record)
    /\ Len(path) = 1
    /\ found' = Record /\ iso_pc' = "done"
    /\ UNCHANGED <<path, fpos>>

IsoNext == GetRoot \/ NotFound \/ NextRecord \/ Descend \/ Found

IsoSpec == IsoInit /\ [][IsoNext]_isoVars /\ WF_isoVars(IsoNext)

-----------------------------------------------------------------------------
(* What the path asks for: a '/' at its start says nothing.                *)
Components == IF Len(wanted) > 1 /\ wanted[1] = <<>> THEN Tail(wanted) ELSE wanted

Depth == Len(Components)
Done == Depth - Len(path)

(* Every variable has its type, and what is left of the path is its end.   *)
IsoTypeOK ==
    LET records == {disc[s] : s \in DOMAIN disc} \cup {Pad} IN
    /\ disc \in Discs /\ wanted \in Paths
    /\ iso_pc \in {"root", "search", "done"}
    /\ iso_pc = "root" => path = wanted /\ fpos = RootSlot
    /\ iso_pc # "done" => found = Pad
    /\ iso_pc # "root" =>
          /\ path \in Seq(Seq(Chars)) /\ Len(path) \in 1..Depth
          /\ \A i \in 1..Len(path) : path[i] = Components[Done + i]
    /\ fpos \in Nat /\ dir_rec \in records /\ found \in records

(* What the image holds: the entries of a directory are the records from   *)
(* its extent on, as many as its size says.                                *)
Slots(r) == Extent(r)..(Extent(r) + r.size - 1)
Named(r, component) ==
    r.name \in IF component = <<>> THEN {Self} ELSE {component, component \o Version}

(* The ways through the directories to a file, if a record r answers to a  *)
(* component c when Answers(r, c): a way is the slots of the records on it. *)
Under(way, i) == disc[IF i = 1 THEN RootSlot ELSE way[i - 1]]

Ways(Answers(_, _)) ==
    LET steps == {s \in DOMAIN disc : disc[s] # Pad /\
                    \E i \in 1..Depth : Answers(disc[s], Components[i])}
    IN {way \in [1..Depth -> steps] :
          /\ \A i \in 1..Depth :
                /\ Under(way, i).dir /\ way[i] \in Slots(Under(way, i))
                /\ Answers(disc[way[i]], Components[i])
          /\ ~disc[way[Depth]].dir}

Leads(Answers(_, _)) == {disc[way[Depth]] : way \in Ways(Answers)}

(* An image whose directories the search can read: the entries of each lie *)
(* one after another, with a Pad behind the last one, and in the order of  *)
(* the standard, in which a name comes before the longer ones it starts.   *)
Tidy ==
    \A s \in DOMAIN disc : disc[s] # Pad /\ disc[s].dir =>
        /\ \A t \in Slots(disc[s]) : t \in DOMAIN disc /\ disc[t] # Pad
        /\ LET after == Extent(disc[s]) + disc[s].size
           IN after \in DOMAIN disc /\ disc[after] = Pad
        /\ \A t, u \in Slots(disc[s]) : \A i \in 1..Depth :
              /\ Named(disc[t], Components[i]) /\ Named(disc[u], Components[i]) => t = u
              /\ Named(disc[t], Components[i]) /\ Matches(disc[u], Components[i]) => t <= u

(* The file that a path names is the one that is found, in an image with   *)
(* tidy directories, whatever other names start alike.                     *)
FindsTheFile == iso_pc = "done" /\ Tidy /\ Leads(Named) # {} => found \in Leads(Named)

(* What is found is a file, reached through directories of the image by    *)
(* names that start with the components of the path.                       *)
FoundIsReached == iso_pc = "done" /\ Tidy /\ found # Pad => found \in Leads(Matches)

(* The search of a tidy image ends: it does not run on behind a directory. *)
SearchEnds == (iso_pc = "root" /\ Tidy) ~> (iso_pc = "done")
=============================================================================
