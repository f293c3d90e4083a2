---------------------------- MODULE FilePosProofs ----------------------------
(***************************************************************************)
(* Theorems about FilePos, for every sector size, image and place of a     *)
(* file in it.                                                             *)
(***************************************************************************)
EXTENDS FilePos, TLAPS

(* What the game must keep to, as in the run, and what no hook tests: no   *)
(* read past the end, no SEEK_CUR, SEEK_END with the offset 0 only, and    *)
(* plain calls on what sceIoOpen opened, Async ones on what sceIoOpenAsync *)
(* opened.  Of a file opened plainly, sceIoReadAsync would send the one    *)
(* descriptor there is to the number of bytes read (func_hook.c:491-498).  *)
Disciplined ==
    ReadsWithin /\ KindsMatch /\ "CUR" \notin Whences /\ EndOffsets \subseteq {0}

-----------------------------------------------------------------------------
(* Arithmetic.                                                             *)
LEMMA MulDiv ==
    ASSUME NEW s \in Nat \ {0}, NEW v \in Int
    PROVE  (v * s) \div s = v /\ (v * s) % s = 0
  BY SMT

LEMMA DivMul ==
    ASSUME NEW s \in Nat \ {0}, NEW n \in Nat, n % s = 0
    PROVE  n = (n \div s) * s /\ n \div s \in Nat
  BY SMT

LEMMA Multiples ==
    ASSUME NEW s \in Nat \ {0}, NEW v \in Int, NEW w \in Int
    PROVE  /\ v <= w <=> v * s <= w * s
           /\ v * s \in Int /\ (v + w) * s = v * s + w * s
           /\ v >= 0 => v * s \in Nat
  BY SMT

-----------------------------------------------------------------------------
(* The position in the image is that of a unit of the file, or its end.    *)
Place(v) == v \in 0 .. Units /\ at[isofd] = offset + v * secsize

PosInv == TypeOK /\ (mode = "block" => isofd = fd) /\ \E v \in 0 .. Units : Place(v)

LEMMA Measures ==
    ASSUME TypeOK
    PROVE  /\ secsize \in Nat \ {0} /\ offset \in Nat /\ filesize \in Nat /\ Units \in Nat
           /\ offset + Units * secsize <= ImageSize
           /\ mode = "iso" => secsize = 1 /\ Units = filesize
           /\ mode = "block" => offset = 0
  <1>1. CASE mode = "iso"
    BY <1>1, FilePosAssumption DEF secsize, offset, filesize, Units
  <1>2. CASE mode = "block"
    <2>1. ImageSize = (ImageSize \div SecSize) * SecSize /\ ImageSize \div SecSize \in Nat
      BY DivMul, FilePosAssumption
    <2> QED
      BY <1>2, <2>1, FilePosAssumption DEF secsize, offset, filesize, Units
  <1> QED
    BY <1>1, <1>2 DEF TypeOK

(* What the game sees of a place in the file.                              *)
LEMMA PlaceSeen ==
    ASSUME TypeOK, NEW v \in 0 .. Units, Place(v)
    PROVE  VirtualPos = v /\ (at[isofd] - offset) % secsize = 0
  <1> DEFINE s == secsize
             o == offset
  <1>1. s \in Nat \ {0} /\ o \in Nat /\ v \in Int /\ at[isofd] = o + v * s
    BY Measures DEF Place
  <1> HIDE DEF s, o
  <1>2. v * s \in Int /\ at[isofd] - o = v * s
    BY <1>1, Multiples
  <1>3. (at[isofd] - o) \div s = v /\ (at[isofd] - o) % s = 0
    BY <1>1, <1>2, MulDiv
  <1> QED
    BY <1>3 DEF VirtualPos, s, o

LEMMA SeenAt == \A w \in Int : TypeOK /\ Place(w) => VirtualPos = w
  BY PlaceSeen DEF Place

(* A read within the file gets all it asks for.                            *)
LEMMA ReadPlace ==
    ASSUME TypeOK, Disciplined, NEW v \in 0 .. Units, Place(v), NEW n \in Nat, ReadAllowed(n)
    PROVE  /\ v + n \in 0 .. Units
           /\ SysRead(isofd, n * secsize) = n * secsize
           /\ at[isofd] + n * secsize = offset + (v + n) * secsize
           /\ at[isofd] + n * secsize \in Nat
           /\ (n * secsize) \div secsize = n
  <1>0. secsize \in Nat \ {0} /\ offset \in Nat /\ Units \in Nat
        /\ offset + Units * secsize <= ImageSize
    BY Measures
  <1>1. v + n \in 0 .. Units
    BY <1>0, PlaceSeen DEF ReadAllowed, Disciplined
  <1>2. /\ v * secsize \in Nat /\ n * secsize \in Nat
        /\ (v + n) * secsize = v * secsize + n * secsize
        /\ (v + n) * secsize <= Units * secsize
        /\ Units * secsize \in Nat
    BY <1>0, <1>1, Multiples
  <1>3. at[isofd] = offset + v * secsize
    BY DEF Place
  <1>4. SysRead(isofd, n * secsize) = n * secsize
    BY <1>0, <1>2, <1>3, FilePosAssumption DEF SysRead
  <1>5. (n * secsize) \div secsize = n
    BY <1>0, MulDiv
  <1> QED
    BY <1>0, <1>1, <1>2, <1>3, <1>4, <1>5

(* A seek goes to a unit of the file.                                      *)
Sought(o, whence) == IF whence = "END" THEN Units ELSE o

LEMMA SeekPlace ==
    ASSUME TypeOK, Disciplined, NEW o \in Offsets, NEW whence \in Whences, SeekAllowed(o, whence),
           NEW d \in Int
    PROVE  /\ Sought(o, whence) \in 0 .. Units
           /\ PassedOffset(o, whence) = Sought(o, whence)
           /\ SysSeek(d, PassedOffset(o, whence) * secsize + offset, PassedWhence(whence))
                 = offset + Sought(o, whence) * secsize
           /\ offset + Sought(o, whence) * secsize \in Nat
           /\ SysSeek(d, PassedOffset(o, whence), PassedWhence(whence)) = Sought(o, whence)
           /\ (offset + Sought(o, whence) * secsize) \div secsize - offset = Sought(o, whence)
           /\ whence = "END" => o = 0
  <1> DEFINE u == Sought(o, whence)
  <1>0. secsize \in Nat \ {0} /\ offset \in Nat /\ Units \in Nat /\ filesize \in Nat
    BY Measures
  <1>1. /\ u \in 0 .. Units /\ PassedOffset(o, whence) = u /\ (whence = "END" => o = 0)
        /\ PassedWhence(whence) = "SET"
    <2>1. CASE whence = "SET"
      BY <2>1, <1>0 DEF SeekAllowed, Sought, PassedOffset, PassedWhence, Offsets
    <2>2. CASE whence = "END"
      <3>1. mode = "iso" /\ o = 0
        BY <2>2 DEF SeekAllowed, Disciplined
      <3> QED
        BY <2>2, <3>1, <1>0, Measures DEF Sought, PassedOffset, PassedWhence
    <2> QED
      BY <2>1, <2>2, FilePosAssumption DEF Disciplined
  <1>2. u * secsize \in Nat /\ u \in Int
    BY <1>0, <1>1, Multiples
  <1>3. SysSeek(d, u * secsize + offset, "SET") = offset + u * secsize /\ SysSeek(d, u, "SET") = u
    BY <1>0, <1>1, <1>2 DEF SysSeek
  <1>4. (offset + u * secsize) \div secsize - offset = u
    <2>1. CASE mode = "iso"
      <3>1. (offset + u) \div 1 = offset + u
        BY <1>0, <1>1, MulDiv
      <3> QED
        BY <2>1, <3>1, <1>0, <1>1, Measures
    <2>2. CASE mode = "block"
      <3> HIDE DEF u
      <3>1. (u * secsize) \div secsize = u
        BY <1>0, <1>2, MulDiv
      <3>2. offset = 0
        BY <2>2, Measures
      <3>3. offset + u * secsize = u * secsize
        BY <1>2, <3>2
      <3> QED
        BY <1>2, <3>1, <3>2, <3>3
    <2> QED
      BY <2>1, <2>2 DEF TypeOK
  <1> QED
    BY <1>0, <1>1, <1>2, <1>3, <1>4

-----------------------------------------------------------------------------
LEMMA PosInit == Init => PosInv /\ Place(0)
  <1> SUFFICES ASSUME Init PROVE PosInv /\ Place(0)
    OBVIOUS
  <1>1. TypeOK
    BY FilePosAssumption DEF Init, TypeOK, offset
  <1>2. Place(0) /\ (mode = "block" => isofd = fd)
    BY <1>1, Measures DEF Init, Place
  <1> QED
    BY <1>1, <1>2 DEF PosInv, Place

(* Where a call leaves the game's position, and what it gives the game.    *)
LEMMA StepRead ==
    ASSUME PosInv, Disciplined, NEW v \in 0 .. Units, Place(v), NEW n \in 0 .. ImageSize,
           Read(n) \/ ReadAsync(n)
    PROVE  /\ PosInv' /\ Place(v + n)' /\ UNCHANGED <<entry, Units>>
           /\ last' = [call |-> "read", at |-> v, count |-> n]
           /\ v + n \in 0 .. Units
  <1>0. TypeOK /\ (mode = "block" => isofd = fd) /\ ReadAllowed(n) /\ n \in Nat /\ v \in Int
    BY FilePosAssumption, Measures DEF PosInv, Read, ReadAsync
  <1>1. /\ v + n \in 0 .. Units
        /\ SysRead(isofd, n * secsize) = n * secsize
        /\ at[isofd] + n * secsize = offset + (v + n) * secsize
        /\ at[isofd] + n * secsize \in Nat
        /\ (n * secsize) \div secsize = n
    BY <1>0, ReadPlace
  <1>2. DataOf(isofd, n) = [call |-> "read", at |-> v, count |-> n]
    BY <1>0, PlaceSeen DEF DataOf, VirtualPos
  <1>3. last' = DataOf(isofd, n) /\ UNCHANGED entry /\ at' \in [{"fd", "image"} -> Nat]
        /\ at'[isofd] = at[isofd] + n * secsize
    <2>1. CASE Read(n)
      BY <2>1, <1>0, <1>1 DEF Read, PlainAllowed, Sync, Disciplined, TypeOK
    <2>2. CASE ReadAsync(n)
      BY <2>2, <1>0, <1>1 DEF ReadAsync, AsyncAllowed, Sync, Disciplined, TypeOK
    <2> QED
      BY <2>1, <2>2
  <1>4. UNCHANGED <<mode, fd, isofd, Units, secsize, offset>>
    BY <1>3 DEF entry, Units, secsize, offset
  <1>5. Place(v + n)'
    BY <1>1, <1>3, <1>4 DEF Place
  <1>6. TypeOK'
    BY <1>0, <1>2, <1>3, <1>4 DEF TypeOK
  <1> QED
    BY <1>0, <1>1, <1>2, <1>3, <1>4, <1>5, <1>6 DEF PosInv

LEMMA StepSeek ==
    ASSUME PosInv, Disciplined, NEW o \in Offsets, NEW whence \in Whences,
           Lseek(o, whence) \/ LseekAsync(o, whence)
    PROVE  /\ PosInv' /\ Place(Sought(o, whence))' /\ UNCHANGED <<entry, Units>>
           /\ last' = [call |-> "seek", at |-> Sought(o, whence), count |-> 0]
           /\ Sought(o, whence) \in 0 .. Units
           /\ whence = "END" => o = 0
  <1> DEFINE u == Sought(o, whence)
  <1>0. TypeOK /\ (mode = "block" => isofd = fd) /\ SeekAllowed(o, whence)
    BY DEF PosInv, Lseek, LseekAsync
  <1>1. \A d \in Int :
           /\ u \in 0 .. Units /\ PassedOffset(o, whence) = u
           /\ SysSeek(d, PassedOffset(o, whence) * secsize + offset, PassedWhence(whence))
                 = offset + u * secsize
           /\ offset + u * secsize \in Nat
           /\ SysSeek(d, PassedOffset(o, whence), PassedWhence(whence)) = u
           /\ (offset + u * secsize) \div secsize - offset = u
           /\ whence = "END" => o = 0
    BY <1>0, SeekPlace
  <1>2. last' = PosOf(u) /\ UNCHANGED entry /\ at' \in [{"fd", "image"} -> Nat]
        /\ at'[isofd] = offset + u * secsize
    <2>1. CASE Lseek(o, whence)
      BY <2>1, <1>0, <1>1 DEF Lseek, PlainAllowed, Sync, Disciplined, TypeOK
    <2>2. CASE LseekAsync(o, whence)
      <3>1. u \in Nat
        BY <1>1, <1>0, Measures
      <3> QED
        BY <2>2, <3>1, <1>0, <1>1 DEF LseekAsync, AsyncAllowed, Sync, Disciplined, TypeOK
    <2> QED
      BY <2>1, <2>2
  <1>3. UNCHANGED <<mode, fd, isofd, Units, secsize, offset>>
    BY <1>2 DEF entry, Units, secsize, offset
  <1>4. Place(u)'
    <2>1. u \in (0 .. Units)' /\ at'[isofd'] = offset' + u * secsize'
      BY <1>1, <1>2, <1>3
    <2>2. u' = u
      BY <1>3 DEF Sought
    <2> QED
      BY <2>1, <2>2 DEF Place
  <1>5. TypeOK'
    BY <1>0, <1>1, <1>2, <1>3, Measures DEF TypeOK, PosOf
  <1>6. (\E v \in 0 .. Units : Place(v))'
    BY <1>4 DEF Place
  <1>7. PosInv'
    BY <1>0, <1>3, <1>5, <1>6 DEF PosInv
  <1>8. last' = [call |-> "seek", at |-> u, count |-> 0]
    BY <1>2 DEF PosOf
  <1> QED
    BY <1>1, <1>2, <1>3, <1>4, <1>7, <1>8

LEMMA PosNext == ASSUME PosInv, Disciplined, [Next]_vars PROVE PosInv'
  <1>1. PICK v \in 0 .. Units : Place(v)
    BY DEF PosInv
  <1>2. CASE UNCHANGED vars
    BY <1>2 DEF PosInv, TypeOK, Place, vars, Units, secsize, offset
  <1>3. ASSUME NEW n \in 0 .. ImageSize, Read(n) \/ ReadAsync(n) PROVE PosInv'
    BY <1>1, <1>3, StepRead
  <1>4. ASSUME NEW o \in Offsets, NEW whence \in Whences, Lseek(o, whence) \/ LseekAsync(o, whence)
        PROVE  PosInv'
    BY <1>4, StepSeek
  <1> QED
    BY <1>2, <1>3, <1>4 DEF Next

THEOREM PosInvariant == Disciplined => (Spec => []PosInv)
  <1> SUFFICES ASSUME Disciplined PROVE Spec => []PosInv
    OBVIOUS
  <1> QED
    BY PosInit, PosNext, PTL DEF Spec

(* For a disciplined game every variable keeps its type: no position is    *)
(* ever negative.                                                          *)
THEOREM PosTypeCorrect == Disciplined => (Spec => []TypeOK)
  <1>1. PosInv => TypeOK
    BY DEF PosInv
  <1> QED
    BY <1>1, PosInvariant, PTL

(* Whatever a disciplined game reads and seeks, the descriptor the data    *)
(* come from is within the file's part of the image, at the start of a     *)
(* sector in block mode (the hooks of sceIoRead and sceIoLseek).           *)
THEOREM ReadsStayInFile == Disciplined => (Spec => []StaysInFile)
  <1>1. PosInv => StaysInFile
    <2> SUFFICES ASSUME PosInv PROVE StaysInFile
      OBVIOUS
    <2>1. PICK v \in 0 .. Units : Place(v)
      BY DEF PosInv
    <2>2. (at[isofd] - offset) % secsize = 0
      BY <2>1, PlaceSeen DEF PosInv
    <2>3. v * secsize \in Nat /\ Units * secsize \in Nat /\ v * secsize <= Units * secsize
      BY <2>1, Measures, Multiples DEF PosInv
    <2> QED
      BY <2>1, <2>2, <2>3, Measures DEF StaysInFile, Place, PosInv
  <1> QED
    BY <1>1, PosInvariant, PTL

(* A disciplined game sees a file of its own: every step of the emulation  *)
(* is one of VirtualFile, or changes nothing the game can see.             *)
THEOREM EmulationIsVirtual == Disciplined => (Spec => VirtualSpec)
  <1> SUFFICES ASSUME Disciplined PROVE Spec => VirtualSpec
    OBVIOUS
  <1>1. Init => Virtual!Init
    <2> SUFFICES ASSUME Init PROVE Virtual!Init
      OBVIOUS
    <2>1. TypeOK /\ Place(0)
      BY PosInit DEF PosInv
    <2>2. VirtualPos = 0 /\ Units \in Nat
      BY <2>1, Measures, PlaceSeen DEF Place
    <2> QED
      BY <2>2 DEF Virtual!Init, Virtual!Fresh, Init
  <1>2. PosInv /\ PosInv' /\ [Next]_vars => [Virtual!Next]_Virtual!vars
    <2> SUFFICES ASSUME PosInv, PosInv', [Next]_vars PROVE [Virtual!Next]_Virtual!vars
      OBVIOUS
    <2>0. (\A w \in Int : TypeOK /\ Place(w) => VirtualPos = w)'
      BY SeenAt, PTL
    <2>1. PICK v \in 0 .. Units : Place(v)
      BY DEF PosInv
    <2>2. VirtualPos = v /\ Units \in Nat /\ v \in Nat
      BY <2>1, PlaceSeen, Measures DEF PosInv
    <2>3. CASE UNCHANGED vars
      BY <2>3 DEF vars, Virtual!vars, Units, VirtualPos, secsize, offset
    <2>4. ASSUME NEW n \in 0 .. ImageSize, Read(n) \/ ReadAsync(n) PROVE Virtual!Next
      <3>1. /\ PosInv' /\ Place(v + n)' /\ UNCHANGED <<entry, Units>> /\ v + n \in 0 .. Units
            /\ last' = [call |-> "read", at |-> v, count |-> n]
        BY <2>1, <2>4, StepRead
      <3>2. VirtualPos' = v + n
        BY <2>0, <2>2, <3>1 DEF PosInv
      <3>3. Virtual!Read(n) /\ n \in 0 .. Units
        BY <2>2, <3>1, <3>2, FilePosAssumption DEF Virtual!Read
      <3> QED
        BY <3>3 DEF Virtual!Next
    <2>5. ASSUME NEW o \in Offsets, NEW whence \in Whences, Lseek(o, whence) \/ LseekAsync(o, whence)
          PROVE  Virtual!Next
      <3> DEFINE u == Sought(o, whence)
      <3>1. /\ PosInv' /\ Place(u)' /\ UNCHANGED Units /\ u \in 0 .. Units
            /\ last' = [call |-> "seek", at |-> u, count |-> 0]
            /\ whence = "END" => o = 0
        BY <2>5, StepSeek
      <3>2. u' = u
        BY <3>1 DEF Sought
      <3>3. VirtualPos' = u
        <4>1. TypeOK' /\ u' \in Int /\ Place(u)'
          BY <2>2, <3>1, <3>2 DEF PosInv
        <4> QED
          BY <2>0, <3>2, <4>1
      <3>4. Virtual!Target(o, whence) = u /\ o \in -Units .. Units
        BY <2>2, <3>1, FilePosAssumption DEF Virtual!Target, Sought, Disciplined, Offsets
      <3>5. Virtual!Seek(o, whence)
        BY <3>1, <3>3, <3>4 DEF Virtual!Seek
      <3> QED
        BY <3>4, <3>5 DEF Virtual!Next
    <2> QED
      BY <2>3, <2>4, <2>5 DEF Next
  <1> QED
    BY <1>1, <1>2, PosInvariant, PTL DEF Spec, VirtualSpec, Virtual!Spec
=============================================================================
