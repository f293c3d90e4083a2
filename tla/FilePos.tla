------------------------------- MODULE FilePos -------------------------------
(***************************************************************************)
(* Reading and seeking in an emulated descriptor: the hooks of sceIoRead,  *)
(* sceIoLseek(32), sceIoReadAsync and sceIoLseek(32)Async translate        *)
(* between positions in the file the game sees and positions in the image. *)
(*                                                                         *)
(* One descriptor, opened as a file of the image (ISO9660 mode, at Offset) *)
(* or as the whole image in sectors (block mode), with sceIoOpen or        *)
(* sceIoOpenAsync.  After the latter the entry has a second descriptor of  *)
(* the image, and the game's own one only carries results.                 *)
(***************************************************************************)
EXTENDS Integers

CONSTANTS
    SecSize,        \* bytes of a sector (2048)
    Offset,         \* where the file begins in the image
    FileSize,       \* its size
    ImageSize,      \* bytes of the image
    Whences,        \* what the game passes to seeks: "SET", "CUR", "END"
    EndOffsets,     \* the offsets it passes with "END"
    ReadsWithin,    \* it never reads past the end of a file
    KindsMatch      \* what sceIoOpen opened it reads and seeks with the plain
                    \* calls, what sceIoOpenAsync opened with the Async ones

ASSUME FilePosAssumption ==
    /\ SecSize \in Nat \ {0} /\ Offset \in Nat /\ FileSize \in Nat
    /\ ImageSize \in Nat /\ Offset + FileSize <= ImageSize
    /\ ImageSize % SecSize = 0
    /\ Whences \subseteq {"SET", "CUR", "END"} /\ EndOffsets \subseteq Int
    /\ ReadsWithin \in BOOLEAN /\ KindsMatch \in BOOLEAN

VARIABLES
    mode,       \* FD_MODE_ISO9660 or FD_MODE_UMDBLOCK
    fd, isofd,  \* the descriptors: the same, or one opened for the image
    at,         \* the system's position of each descriptor
    last        \* what the last call returned to the game

vars == <<mode, fd, isofd, at, last>>
entry == <<mode, fd, isofd>>

(* The fields of FILE_EMU_STATE.                                           *)
secsize == IF mode = "block" THEN SecSize ELSE 1
offset == IF mode = "iso" THEN Offset ELSE 0
filesize == IF mode = "iso" THEN FileSize ELSE 2147483647

Units == IF mode = "iso" THEN FileSize ELSE ImageSize \div SecSize
VirtualPos == (at[isofd] - offset) \div secsize

(* file_emu_open leaves the descriptor it reads from at the file's first   *)
(* byte.  A block mode entry after sceIoOpenAsync has no image to read.    *)
Init ==
    /\ mode \in {"iso", "block"} /\ fd = "fd"
    /\ isofd \in IF mode = "iso" THEN {"fd", "image"} ELSE {"fd"}
    /\ at = [d \in {"fd", "image"} |-> IF d = isofd THEN offset ELSE 0]
    /\ last = [call |-> "open", at |-> 0, count |-> 0]

-----------------------------------------------------------------------------
(* The system's calls on the image.                                        *)
SysRead(d, bytes) ==
    IF bytes < ImageSize - at[d] THEN bytes ELSE IF at[d] < ImageSize THEN ImageSize - at[d] ELSE 0

SysSeek(from, o, whence) ==
    o + CASE whence = "SET" -> 0 [] whence = "CUR" -> from [] whence = "END" -> ImageSize

(* What the game returns to its caller: the data of a read begin at byte   *)
(* at[d] of the image, which is this unit of the file.                     *)
DataOf(d, k) == [call |-> "read", at |-> (at[d] - offset) \div secsize, count |-> k]
PosOf(p) == [call |-> "seek", at |-> p, count |-> 0]

(* The game's own discipline: which calls it makes on the descriptor.  The *)
(* hooks test none of this.                                                *)
Sync == isofd = fd
PlainAllowed == KindsMatch => Sync
AsyncAllowed == KindsMatch => ~Sync
ReadAllowed(n) == ReadsWithin => VirtualPos + n <= Units
SeekAllowed(o, whence) ==
    LET target == o + CASE whence = "SET" -> 0 [] whence = "CUR" -> VirtualPos
                        [] whence = "END" -> Units
    IN  /\ target \in 0 .. Units
        /\ whence = "END" => mode = "iso" /\ o \in EndOffsets

-----------------------------------------------------------------------------
\* Variant: the bytes read are returned, not the sectors.
Read_Bytes(n) ==
    LET k == SysRead(fd, n * secsize)
    IN  /\ PlainAllowed /\ ReadAllowed(n)
        /\ last' = DataOf(fd, k)
        /\ at' = [at EXCEPT ![fd] = @ + k]
        /\ UNCHANGED entry

(* sceIoRead                                                               *)
Read(n) ==
    LET k == SysRead(fd, n * secsize)
    IN  /\ PlainAllowed /\ ReadAllowed(n)
        /\ last' = DataOf(fd, k \div secsize)
        /\ at' = [at EXCEPT ![fd] = @ + k]
        /\ UNCHANGED entry

(* The offset and whence the seeks pass on: an offset from the end becomes *)
(* one from the start.                                                     *)
PassedOffset(o, whence) == IF whence = "END" THEN filesize - o ELSE o
PassedWhence(whence) == IF whence = "END" THEN "SET" ELSE whence

(* sceIoLseek and sceIoLseek32                                             *)
Lseek(o, whence) ==
    LET p == SysSeek(at[fd], PassedOffset(o, whence) * secsize + offset, PassedWhence(whence))
    IN  /\ PlainAllowed /\ SeekAllowed(o, whence)
        /\ at' = [at EXCEPT ![fd] = p]
        /\ last' = PosOf(p \div secsize - offset)
        /\ UNCHANGED entry

(* sceIoReadAsync reads at once, and sends the game's descriptor to the    *)
(* position that is to be the call's result.                               *)
ReadAsync(n) ==
    LET k == SysRead(isofd, n * secsize)
    IN  /\ AsyncAllowed /\ ReadAllowed(n)
        /\ last' = DataOf(isofd, k \div secsize)
        /\ at' = [at EXCEPT ![isofd] = @ + k, ![fd] = k \div secsize]
        /\ UNCHANGED entry

\* Variant: the file's place in the image is not added.
LseekAsync_NoOffset(o, whence) ==
    LET passed == PassedOffset(o, whence)
    IN  /\ AsyncAllowed /\ SeekAllowed(o, whence)
        /\ at' = [at EXCEPT ![isofd] = SysSeek(@, passed * secsize, PassedWhence(whence)),
                            ![fd] = SysSeek(@, passed, PassedWhence(whence))]
        /\ last' = PosOf(at'[fd])
        /\ UNCHANGED entry

(* sceIoLseekAsync and sceIoLseek32Async: the image's descriptor moves at  *)
(* once, the game's one gives the result.                                  *)
LseekAsync(o, whence) ==
    LET passed == PassedOffset(o, whence)
    IN  /\ AsyncAllowed /\ SeekAllowed(o, whence)
        /\ at' = [at EXCEPT ![isofd] =
                                SysSeek(@, passed * secsize + offset, PassedWhence(whence)),
                            ![fd] = SysSeek(@, passed, PassedWhence(whence))]
        /\ last' = PosOf(at'[fd])
        /\ UNCHANGED entry

Offsets == -ImageSize .. ImageSize

Next ==
    \/ \E n \in 0 .. ImageSize : Read(n) \/ ReadAsync(n)
    \/ \E o \in Offsets, whence \in Whences : Lseek(o, whence) \/ LseekAsync(o, whence)

Spec == Init /\ [][Next]_vars

-----------------------------------------------------------------------------
(* Every variable has the type the code gives it.                          *)
TypeOK ==
    /\ mode \in {"iso", "block"} /\ fd = "fd" /\ isofd \in {"fd", "image"}
    /\ at \in [{"fd", "image"} -> Nat]
    /\ last \in [call : {"open", "read", "seek"}, at : Int, count : Nat]

(* For a game with the discipline of the run (KindsMatch, ReadsWithin, the *)
(* whences): the descriptor the data come from never leaves the part of    *)
(* the image that belongs to the file, and in block mode never stands      *)
(* inside a sector (the offset and sector arithmetic of the hooks).        *)
StaysInFile ==
    /\ at[isofd] \in offset .. offset + Units * secsize
    /\ (at[isofd] - offset) % secsize = 0

(* Such a game sees a file of its own: VirtualFile, with the position in   *)
(* the image translated back.                                              *)
Virtual == INSTANCE VirtualFile WITH size <- Units, pos <- VirtualPos
VirtualSpec == Virtual!Spec
=============================================================================
