---------------------------- MODULE ConfigProofs ----------------------------
(***************************************************************************)
(* Theorems about Config and its PathList, for all files on the stick,     *)
(* every directory of hook boot, any number of threads and paths, and all  *)
(* sizes of the list's heap and of the buffers.                            *)
(***************************************************************************)
EXTENDS Config, WellFoundedInduction, FiniteSetTheorems, SequenceTheorems, TLAPS

-----------------------------------------------------------------------------
(* Smallest and largest elements, strings, and the arguments of a line.    *)

LEMMA SmallestIn ==
    ASSUME NEW S, S \subseteq Nat, S # {}
    PROVE  Smallest(S) \in S /\ \A n \in S : Smallest(S) <= n
  <1> DEFINE R == OpToRel(<, Nat)
  <1>1. R = {p \in Nat \X Nat : p[1] < p[2]}
    BY Zenon DEF OpToRel
  <1>2. IsWellFoundedOn(R, Nat)
    BY NatLessThanWellFounded
  <1> HIDE DEF R
  <1>3. PICK x \in S : \A y \in S : ~ (<<y, x>> \in R)
    BY <1>2, WFMin
  <1>4. ASSUME NEW y \in S, y < x PROVE FALSE
    <2>1. <<y, x>> \in Nat \X Nat /\ <<y, x>>[1] < <<y, x>>[2]
      BY <1>4
    <2>2. <<y, x>> \in R
      BY <1>1, <2>1, Zenon
    <2> QED
      BY <1>3, <2>2
  <1>5. \A y \in S : x <= y
    BY <1>4
  <1> QED
    BY <1>5 DEF Smallest

LEMMA LastOfIn ==
    ASSUME NEW S, S \subseteq Nat, S # {}, NEW n \in Nat, \A j \in S : j <= n
    PROVE  LastOf(S) \in S /\ \A j \in S : j <= LastOf(S)
  <1> DEFINE above == {m \in Nat : \A j \in S : j <= m}
             top == Smallest(above)
  <1>1. top \in above /\ \A m \in above : top <= m
    <2>1. above \subseteq Nat /\ n \in above
      OBVIOUS
    <2> QED
      BY <2>1, SmallestIn, Zenon
  <1> HIDE DEF top
  <1>2. top \in S
    <2> SUFFICES ASSUME top \notin S PROVE FALSE
      OBVIOUS
    <2>1. \A j \in S : j <= top /\ j # top /\ j \in Nat
      BY <1>1
    <2>2. PICK j \in S : TRUE
      OBVIOUS
    <2>3. top \in Nat /\ j \in Nat /\ j <= top /\ j # top
      BY <1>1, <2>1, <2>2
    <2>4. \A i \in S : i \in Nat /\ i <= top - 1
      BY <2>1, <2>3
    <2>5. top - 1 \in Nat
      BY <2>3
    <2>6. top - 1 \in above
      BY <2>4, <2>5
    <2>7. top <= top - 1
      BY <1>1, <2>6
    <2> QED
      BY <2>3, <2>7
  <1>3. \A j \in S : j <= top
    BY <1>1
  <1> QED
    BY <1>2, <1>3 DEF LastOf

LEMMA LastOfGrown ==
    ASSUME NEW S, S \subseteq Nat, NEW n \in Nat, \A j \in S : j < n
    PROVE  LastOf(S \cup {n}) = n
  <1> DEFINE T == S \cup {n}
  <1>1. T \subseteq Nat /\ T # {} /\ n \in T /\ \A j \in T : j <= n
    OBVIOUS
  <1> HIDE DEF T
  <1>2. LastOf(T) \in T /\ \A j \in T : j <= LastOf(T)
    BY <1>1, LastOfIn, Zenon
  <1>3. LastOf(T) \in Nat /\ LastOf(T) <= n /\ n <= LastOf(T)
    BY <1>1, <1>2
  <1>4. LastOf(T) = n
    BY <1>3
  <1> QED
    BY <1>4 DEF T

LEMMA UptoType ==
    ASSUME NEW T, NEW s \in Seq(T), NEW c
    PROVE  /\ Upto(s, c) \in Seq(T) /\ Len(Upto(s, c)) <= Len(s)
           /\ Upto(s, c) = SubSeq(s, 1, Len(Upto(s, c)))
           /\ \A i \in 1..Len(Upto(s, c)) : s[i] # c
           /\ Len(Upto(s, c)) < Len(s) => s[Len(Upto(s, c)) + 1] = c
  <1>1. CASE Contains(s, c)
    <2> DEFINE hits == {i \in DOMAIN s : s[i] = c}
               first == Smallest(hits)
    <2>1. hits # {} /\ hits \subseteq Nat
      BY <1>1 DEF Contains
    <2>2. first \in hits /\ \A i \in hits : first <= i
      BY <2>1, SmallestIn, Zenon
    <2> HIDE DEF first
    <2>3. Upto(s, c) = SubSeq(s, 1, first - 1)
      BY <1>1 DEF Upto, first
    <2>4. /\ SubSeq(s, 1, first - 1) \in Seq(T)
          /\ Len(SubSeq(s, 1, first - 1)) = first - 1
      BY <2>2, SubSeqProperties
    <2> QED
      BY <2>2, <2>3, <2>4
  <1>2. CASE ~Contains(s, c)
    <2>1. Upto(s, c) = s
      BY <1>2 DEF Upto
    <2>2. s = SubSeq(s, 1, Len(s))
      BY SubSeqFull
    <2>3. \A i \in 1..Len(s) : s[i] # c
      BY <1>2 DEF Contains
    <2> QED
      BY <2>1, <2>2, <2>3
  <1> QED
    BY <1>1, <1>2

LEMMA LineType ==
    ASSUME ptr \in Seq(Tokens)
    PROVE  Line \in Seq(Tokens) /\ AfterLine \in Seq(Tokens)
  <1> DEFINE after == SubSeq(ptr, Len(Line) + 2, Len(ptr))
  <1>1. Line \in Seq(Tokens) /\ Len(Line) \in Nat
    BY UptoType DEF Line
  <1>2. after \in Seq(Tokens)
    BY <1>1, SubSeqProperties
  <1>3. after # <<>> => Tail(after) \in Seq(Tokens)
    BY <1>2
  <1> HIDE DEF after
  <1> QED
    BY <1>1, <1>2, <1>3 DEF AfterLine, after

(* The ranks of the elements of a finite set are 0, 1, ... *)
LEMMA RankOnto ==
    ASSUME NEW S, S \subseteq Nat, IsFiniteSet(S), NEW k \in 0..(Cardinality(S) - 1)
    PROVE  \E e \in S : Cardinality({d \in S : d < e}) = k
  <1> DEFINE below(e) == {d \in S : d < e}
             R == 0..(Cardinality(S) - 1)
             rank == [e \in S |-> Cardinality(below(e))]
  <1>1. Cardinality(S) \in Nat
    BY FS_CardinalityType
  <1>2. ASSUME NEW e \in S PROVE IsFiniteSet(below(e)) /\ Cardinality(below(e)) \in R
    <2>1. below(e) \in SUBSET S /\ e \notin below(e)
      OBVIOUS
    <2>2. /\ IsFiniteSet(below(e)) /\ Cardinality(below(e)) <= Cardinality(S)
          /\ Cardinality(below(e)) # Cardinality(S)
      BY <2>1, FS_Subset, Zenon
    <2>3. Cardinality(below(e)) \in Nat
      BY <2>2, FS_CardinalityType
    <2> QED
      BY <1>1, <2>2, <2>3
  <1>3. ASSUME NEW e \in S, NEW f \in S, e < f PROVE rank[e] # rank[f]
    <2>1. below(e) \in SUBSET below(f) /\ e \in below(f) /\ e \notin below(e)
      <3>1. e \in Nat /\ f \in Nat /\ \A d \in S : d \in Nat /\ (d < e => d < f)
        BY <1>3
      <3>2. \A d \in S : d < e => d < f
        BY <3>1
      <3>3. below(e) \in SUBSET below(f)
        BY <3>2
      <3>4. e \in below(f) /\ e \notin below(e)
        BY <1>3, <3>1
      <3> QED
        BY <3>3, <3>4
    <2>2. IsFiniteSet(below(f))
      BY <1>2
    <2>3. Cardinality(below(e)) # Cardinality(below(f))
      BY <2>1, <2>2, FS_Subset, Zenon
    <2> QED
      BY <2>3
  <1>4. rank \in [S -> R]
    BY <1>2
  <1>5. \A e, f \in S : rank[e] = rank[f] => e = f
    BY <1>3
  <1>6. rank \in Injection(S, R)
    BY <1>4, <1>5 DEF Injection, IsInjective
  <1>7. IsFiniteSet(R) /\ Cardinality(R) = Cardinality(S)
    <2>1. \A n \in Nat : /\ IsFiniteSet(0..(n - 1))
                          /\ Cardinality(0..(n - 1)) = IF 0 > n - 1 THEN 0 ELSE n - 1 - 0 + 1
      BY FS_Interval
    <2> QED
      BY <1>1, <2>1
  <1>8. rank \in Surjection(S, R)
    BY <1>6, <1>7, FS_Injection, Zenon
  <1>9. \E e \in S : rank[e] = k
    BY <1>8 DEF Surjection
  <1> QED
    BY <1>9

LEMMA WordType ==
    ASSUME NEW line \in Seq(Tokens), NEW first \in Nat \ {0}, NEW last \in Int, last <= Len(line)
    PROVE  Word(line, first, last) \in Seq(Tokens)
  <1> DEFINE word == {i \in first..last : line[i] # Space}
             start == Smallest(word)
             stops == {i \in start..last : line[i] = Space} \cup {last + 1}
             stop == Smallest(stops)
  <1>1. CASE word = {}
    <2>1. Word(line, first, last) = <<>>
      BY <1>1 DEF Word
    <2> QED
      BY <2>1
  <1>2. CASE word # {}
    <2>1. word \subseteq Nat
      OBVIOUS
    <2>2. start \in word
      BY <1>2, <2>1, SmallestIn, Zenon
    <2>3. Word(line, first, last) = SubSeq(line, start, stop - 1)
      BY <1>2 DEF Word
    <2> HIDE DEF start
    <2>4. stops \subseteq Nat /\ stops # {} /\ \A i \in stops : i <= last + 1
      BY <2>2
    <2>5. stop \in stops
      BY <2>4, SmallestIn, Zenon
    <2> HIDE DEF stop
    <2>6. start \in Nat \ {0} /\ stop \in Nat /\ stop - 1 <= Len(line) /\ Len(line) \in Nat
      BY <2>2, <2>4, <2>5
    <2>7. \A i \in start..(stop - 1) : line[i] \in Tokens
      BY <2>6
    <2> QED
      BY <2>3, <2>6, <2>7, SubSeqProperties
  <1> QED
    BY <1>1, <1>2

LEMMA EndsType ==
    ASSUME NEW line \in Seq(Tokens)
    PROVE  /\ Ends(line) \subseteq 0..(Len(line) + 1) /\ {0, Len(line) + 1} \subseteq Ends(line)
           /\ IsFiniteSet(Ends(line)) /\ Cardinality(Ends(line)) \in Nat \ {0, 1}
  <1> DEFINE eqs == {i \in DOMAIN line : line[i] = Eq} \cup {Len(line) + 1}
             eq == Smallest(eqs)
  <1>1. eq \in 1..(Len(line) + 1)
    <2>1. eqs \subseteq 1..(Len(line) + 1) /\ eqs \subseteq Nat /\ eqs # {}
      OBVIOUS
    <2>2. eq \in eqs
      BY <2>1, SmallestIn, Zenon
    <2> QED
      BY <2>1, <2>2
  <1> HIDE DEF eq
  <1>2. Ends(line) = {0, eq, Len(line) + 1} \cup {i \in DOMAIN line : i > eq /\ line[i] = Comma}
    BY DEF Ends, eq
  <1>3. Ends(line) \subseteq 0..(Len(line) + 1) /\ {0, Len(line) + 1} \subseteq Ends(line)
    BY <1>1, <1>2
  <1>4. IsFiniteSet(0..(Len(line) + 1))
    BY FS_Interval
  <1>5. IsFiniteSet(Ends(line)) /\ Cardinality(Ends(line)) \in Nat
    BY <1>3, <1>4, FS_Subset, FS_CardinalityType, Zenon
  <1>6. Cardinality(Ends(line)) # 0
    BY <1>3, <1>5, FS_EmptySet
  <1>7. Cardinality(Ends(line)) # 1
    <2>1. 0 # Len(line) + 1
      BY Len(line) \in Nat
    <2>2. ~ \E x : Ends(line) = {x}
      BY <1>3, <2>1
    <2> QED
      BY <1>5, <2>2, FS_Singleton
  <1> QED
    BY <1>3, <1>5, <1>6, <1>7

LEMMA FunctionIsSeq ==
    ASSUME NEW T, NEW n \in Nat, NEW f \in [1..n -> T]
    PROVE  f \in Seq(T) /\ Len(f) = n
  OBVIOUS

LEMMA ArgsType ==
    ASSUME NEW line \in Seq(Tokens)
    PROVE  Args(line) \in Seq(Seq(Tokens)) /\ Len(Args(line)) \in Nat \ {0}
  <1> DEFINE E == Ends(line)
             n == Cardinality(E)
             end(k) == CHOOSE e \in E : Cardinality({d \in E : d < e}) = k
  <1>1. n \in Nat \ {0, 1} /\ E \subseteq Nat /\ IsFiniteSet(E) /\ E \subseteq 0..(Len(line) + 1)
    BY EndsType
  <1> HIDE DEF n, E
  <1>2. ASSUME NEW k \in 0..(n - 1) PROVE end(k) \in 0..(Len(line) + 1)
    <2>1. \E e \in E : Cardinality({d \in E : d < e}) = k
      BY <1>1, <1>2, RankOnto DEF n
    <2>2. end(k) \in E
      BY <2>1
    <2> QED
      BY <1>1, <2>2
  <1> HIDE DEF end
  <1>3. ASSUME NEW k \in 1..(n - 1)
        PROVE  Word(line, end(k - 1) + 1, end(k) - 1) \in Seq(Tokens)
    <2>1. k - 1 \in 0..(n - 1) /\ k \in 0..(n - 1)
      BY <1>1
    <2>2. end(k - 1) \in 0..(Len(line) + 1) /\ end(k) \in 0..(Len(line) + 1)
      BY <1>2, <2>1
    <2>3. /\ end(k - 1) + 1 \in Nat \ {0} /\ end(k) - 1 \in Int
          /\ end(k) - 1 <= Len(line)
      BY <2>2
    <2> QED
      BY <2>3, WordType
  <1>4. Args(line) = [k \in 1..(n - 1) |-> Word(line, end(k - 1) + 1, end(k) - 1)]
    BY DEF Args, n, E, end
  <1>5. n - 1 \in Nat \ {0}
    BY <1>1
  <1>6. Args(line) \in [1..(n - 1) -> Seq(Tokens)]
    BY <1>3, <1>4
  <1>7. Args(line) \in Seq(Seq(Tokens)) /\ Len(Args(line)) = n - 1
    BY <1>5, <1>6, FunctionIsSeq
  <1> QED
    BY <1>5, <1>7

(* What is true of the directory of hook boot at any time. *)
BootInv == psp_boot_path \in {BootPath, <<Head(BootPath)>>}

LEMMA BootType == ASSUME BootInv PROVE psp_boot_path \in Seq(Tokens) /\ psp_boot_path # <<>>
  <1>1. BootPath \in Seq(Tokens) /\ BootPath # <<>> /\ Head(BootPath) \in Tokens
    BY ConfigAssumption
  <1>2. <<Head(BootPath)>> \in Seq(Tokens) /\ <<Head(BootPath)>> # <<>>
    BY <1>1
  <1> QED
    BY <1>1, <1>2 DEF BootInv

LEMMA FullPathType ==
    ASSUME BootInv, NEW p \in Seq(Tokens)
    PROVE  make_full_path(p) \in Seq(Tokens)
  <1> DEFINE name == IF Len(p) > 1 /\ p[1] = Dot /\ p[2] = Slash THEN SubSeq(p, 3, Len(p)) ELSE p
             sep == IF Last(psp_boot_path) = Slash THEN <<>> ELSE <<Slash>>
  <1>1. name \in Seq(Tokens) /\ sep \in Seq(Tokens) /\ psp_boot_path \in Seq(Tokens)
    BY BootType, ConfigAssumption, SubSeqProperties
  <1>2. psp_boot_path \o sep \o name \in Seq(Tokens)
    BY <1>1
  <1>3. CASE \E i \in DOMAIN p : p[i] \in Drives
    BY <1>3 DEF make_full_path
  <1>4. CASE ~ \E i \in DOMAIN p : p[i] \in Drives
    BY <1>2, <1>4, Zenon DEF make_full_path
  <1> QED
    BY <1>3, <1>4

LEMMA RootAfterType == ASSUME BootInv, NEW p PROVE RootAfter(p) \in {BootPath, <<Head(BootPath)>>}
  <1>1. Head(psp_boot_path) = Head(BootPath)
    BY ConfigAssumption DEF BootInv
  <1> QED
    BY <1>1 DEF BootInv, RootAfter

-----------------------------------------------------------------------------
(* The strings of the list.                                                *)
Heap == 0..(HeapSize - 1)

ListInv ==
    /\ path_list \in [Heap -> Tokens \cup {NUL}]
    /\ path_list_pos \in Heap
    /\ \A i \in Heap : i >= path_list_pos => path_list[i] = NUL
    /\ path_list_pos > 0 => path_list[path_list_pos - 1] = NUL

LEMMA StrFacts ==
    ASSUME ListInv, NEW pos \in Heap
    PROVE  /\ StrLen(pos) \in Nat /\ pos + StrLen(pos) \in Heap
           /\ path_list[pos + StrLen(pos)] = NUL
           /\ \A i \in pos..(pos + StrLen(pos) - 1) : path_list[i] # NUL
           /\ Str(pos) \in Seq(Tokens) /\ Len(Str(pos)) = StrLen(pos)
           /\ \A i \in 1..StrLen(pos) : Str(pos)[i] = path_list[pos + i - 1]
           /\ pos >= path_list_pos => StrLen(pos) = 0
           /\ pos < path_list_pos => After(pos) <= path_list_pos
  <1> DEFINE ends == {k \in pos..(HeapSize - 1) : path_list[k] = NUL}
             stop == Smallest(ends)
  <1>1. HeapSize \in Nat /\ HeapSize - 1 \in Heap /\ path_list_pos \in Heap
    BY PathAssumption DEF Heap, ListInv
  <1>2. \A i \in Heap : i >= path_list_pos => i \in Nat /\ path_list[i] = NUL
    BY <1>1 DEF Heap, ListInv
  <1>3. path_list[HeapSize - 1] = NUL
    BY <1>1, <1>2 DEF Heap
  <1>4. ends \subseteq Nat /\ HeapSize - 1 \in ends /\ \A i \in ends : i \in pos..(HeapSize - 1)
    BY <1>1, <1>3 DEF Heap
  <1>5. stop \in ends /\ \A i \in ends : stop <= i
    BY <1>4, SmallestIn, Zenon
  <1> HIDE DEF stop
  <1>6. stop \in pos..(HeapSize - 1) /\ path_list[stop] = NUL
    BY <1>4, <1>5
  <1>7. \A i \in pos..(stop - 1) : path_list[i] # NUL
    <2> SUFFICES ASSUME NEW i \in pos..(stop - 1), path_list[i] = NUL PROVE FALSE
      OBVIOUS
    <2>1. i \in pos..(HeapSize - 1) /\ i < stop /\ i \in Int /\ stop \in Int
      BY <1>1, <1>6 DEF Heap
    <2>2. i \in ends
      BY <2>1
    <2> QED
      BY <1>5, <2>1, <2>2
  <1>8. StrLen(pos) = stop - pos
    BY DEF StrLen, stop
  <1>9. StrLen(pos) \in Nat /\ pos + StrLen(pos) = stop /\ stop \in Heap
    BY <1>1, <1>6, <1>8 DEF Heap
  <1>10. \A i \in 1..StrLen(pos) : pos + i - 1 \in pos..(stop - 1) /\ pos + i - 1 \in Heap
    BY <1>1, <1>6, <1>9 DEF Heap
  <1>11. \A i \in 1..StrLen(pos) : path_list[pos + i - 1] \in Tokens
    <2>1. \A i \in Heap : path_list[i] # NUL => path_list[i] \in Tokens
      BY DEF ListInv
    <2> QED
      BY <1>7, <1>10, <2>1
  <1>12. Str(pos) \in [1..StrLen(pos) -> Tokens]
    BY <1>11 DEF Str
  <1>13. Str(pos) \in Seq(Tokens) /\ Len(Str(pos)) = StrLen(pos)
    BY <1>9, <1>12, FunctionIsSeq
  <1>14. \A i \in 1..StrLen(pos) : Str(pos)[i] = path_list[pos + i - 1]
    BY DEF Str
  <1>15. ASSUME pos >= path_list_pos PROVE StrLen(pos) = 0
    <2>1. pos \in ends
      BY <1>1, <1>2, <1>15 DEF Heap
    <2>2. stop <= pos
      BY <1>5, <2>1
    <2> QED
      BY <1>6, <1>8, <2>2 DEF Heap
  <1>16. ASSUME pos < path_list_pos PROVE After(pos) <= path_list_pos
    <2>1. path_list_pos - 1 \in pos..(HeapSize - 1)
      BY <1>1, <1>16 DEF Heap
    <2>2. path_list_pos > 0
      BY <1>1, <1>16 DEF Heap
    <2>3. path_list_pos - 1 \in ends
      BY <2>1, <2>2 DEF ListInv
    <2>4. stop <= path_list_pos - 1
      BY <1>5, <2>3
    <2> QED
      BY <1>1, <1>6, <1>9, <2>4 DEF After, Heap
  <1>17. \A i \in pos..(pos + StrLen(pos) - 1) : path_list[i] # NUL
    <2>1. pos + StrLen(pos) - 1 = stop - 1
      BY <1>1, <1>9 DEF Heap
    <2>2. pos..(pos + StrLen(pos) - 1) = pos..(stop - 1)
      BY <2>1, Zenon
    <2> QED
      BY <1>7, <2>2, Zenon
  <1>18. path_list[pos + StrLen(pos)] = NUL
    BY <1>6, <1>9
  <1> QED
    BY <1>9, <1>13, <1>14, <1>15, <1>16, <1>17, <1>18, Zenon

LEMMA AddedFacts ==
    ASSUME NEW list \in [Heap -> Tokens \cup {NUL}], NEW pos \in Heap, NEW s \in Seq(Tokens),
           Fits(pos, s), \A i \in Heap : i >= pos => list[i] = NUL
    PROVE  /\ Added(list, pos, s) \in [Heap -> Tokens \cup {NUL}]
           /\ pos + Len(s) \in Heap /\ pos + Len(s) + 1 \in Heap
           /\ \A i \in Heap :
                 Added(list, pos, s)[i] = IF i \in pos..(pos + Len(s) - 1) THEN s[i - pos + 1]
                                          ELSE IF i < pos THEN list[i] ELSE NUL
  <1>1. Len(s) \in Nat /\ pos \in Nat /\ HeapSize \in Nat /\ DOMAIN list = Heap
    BY PathAssumption DEF Heap
  <1>2. pos + Len(s) \in Heap /\ pos + Len(s) + 1 \in Heap
    BY <1>1 DEF Fits, Heap
  <1>3. \A i \in Heap : i \in Int /\ (i \in pos..(pos + Len(s) - 1) => s[i - pos + 1] \in Tokens)
    <2>1. \A i \in pos..(pos + Len(s) - 1) : i - pos + 1 \in 1..Len(s)
      BY <1>1
    <2> QED
      BY <2>1 DEF Heap
  <1>4. \A i \in Heap :
           Added(list, pos, s)[i] = IF i \in pos..(pos + Len(s) - 1) THEN s[i - pos + 1]
                                    ELSE IF i \in {pos + Len(s), pos + Len(s) + 1} THEN NUL
                                    ELSE list[i]
    BY <1>1 DEF Added
  <1>5. ASSUME NEW i \in Heap
        PROVE  Added(list, pos, s)[i] = IF i \in pos..(pos + Len(s) - 1) THEN s[i - pos + 1]
                                        ELSE IF i < pos THEN list[i] ELSE NUL
    BY <1>1, <1>3, <1>4
  <1>6. Added(list, pos, s) \in [Heap -> Tokens \cup {NUL}]
    <2>1. \A i \in Heap : Added(list, pos, s)[i] \in Tokens \cup {NUL}
      BY <1>3, <1>4
    <2>2. Added(list, pos, s) = [i \in Heap |-> Added(list, pos, s)[i]]
      BY <1>1 DEF Added
    <2> QED
      BY <2>1, <2>2, Zenon
  <1> QED
    BY <1>2, <1>5, <1>6

-----------------------------------------------------------------------------
(* The assignments and where the list holds them.                          *)
Assignment ==
    [search : Seq(Tokens), rep : Seq(Tokens), kept : {"none", "search", "both"}, place : Nat]

Holds(pos, s) ==
    /\ \A k \in 1..Len(s) : path_list[pos + k - 1] = s[k]
    /\ path_list[pos + Len(s)] = NUL

RepPlace(a) == a.place + Len(a.search) + 1
EndOf(a) ==
    IF a.kept = "none" THEN a.place
    ELSE IF a.kept = "search" THEN RepPlace(a) ELSE RepPlace(a) + Len(a.rep) + 1

PlaceOf(i) == IF i = Len(assigned) + 1 THEN path_list_pos ELSE assigned[i].place

Stored(a) ==
    /\ EndOf(a) <= path_list_pos
    /\ a.kept # "none" => Holds(a.place, a.search)
    /\ a.kept = "both" => Holds(RepPlace(a), a.rep)

(* The assignments lie one behind the other, and what is not kept takes    *)
(* no room.                                                                *)
AssignedInv ==
    /\ assigned \in Seq(Assignment)
    /\ PlaceOf(1) = 0
    /\ \A i \in 1..Len(assigned) : Stored(assigned[i]) /\ PlaceOf(i + 1) = EndOf(assigned[i])
    /\ \A i \in 1..(Len(assigned) + 1) : \A j \in 1..(Len(assigned) + 1) :
          i <= j /\ (\A k \in 1..Len(assigned) : i <= k /\ k < j => assigned[k].kept = "none")
          => PlaceOf(i) = PlaceOf(j)

LEMMA HoldsStays ==
    ASSUME ListInv, NEW pos \in Nat, NEW s \in Seq(Tokens), Holds(pos, s),
           pos + Len(s) + 1 <= path_list_pos,
           \A i \in Heap : i < path_list_pos => path_list'[i] = path_list[i]
    PROVE  Holds(pos, s)'
  <1>1. path_list_pos \in Heap /\ Len(s) \in Nat /\ HeapSize \in Nat
    BY PathAssumption DEF ListInv
  <1>2. \A k \in 1..Len(s) : pos + k - 1 \in Heap /\ pos + k - 1 < path_list_pos
    BY <1>1 DEF Heap
  <1>3. pos + Len(s) \in Heap /\ pos + Len(s) < path_list_pos
    BY <1>1 DEF Heap
  <1>4. \A k \in 1..Len(s) : path_list'[pos + k - 1] = s[k]
    BY <1>2 DEF Holds
  <1>5. path_list'[pos + Len(s)] = NUL
    BY <1>3 DEF Holds
  <1> QED
    BY <1>4, <1>5 DEF Holds

(* What the two calls of add_path_list leave.                              *)
LEMMA AssignList ==
    ASSUME ListInv, NEW search \in Seq(Tokens), NEW rep \in Seq(Tokens), Assign(search, rep)
    PROVE  \E a \in Assignment :
              /\ ListInv' /\ assigned' = Append(assigned, a)
              /\ a.search = search /\ a.rep = rep /\ a.place = path_list_pos
              /\ path_list_pos' = EndOf(a) /\ EndOf(a) >= path_list_pos
              /\ \A i \in Heap : i < path_list_pos => path_list'[i] = path_list[i]
              /\ Stored(a)'
  <1>p. PICK p : p = path_list_pos
    OBVIOUS
  <1>q. PICK q : q = p + Len(search) + 1
    OBVIOUS
  <1>one. PICK one : one = Added(path_list, p, search)
    OBVIOUS
  <1>two. PICK two : two = Added(one, q, rep)
    OBVIOUS
  <1>kept. PICK kept : kept = IF ~Fits(p, search) THEN "none"
                              ELSE IF ~Fits(q, rep) THEN "search" ELSE "both"
    OBVIOUS
  <1>a. PICK a : a = [search |-> search, rep |-> rep, kept |-> kept, place |-> p]
    OBVIOUS
  <1>0. a.search = search /\ a.rep = rep /\ a.kept = kept /\ a.place = p
    BY <1>a
  <1>1. /\ path_list \in [Heap -> Tokens \cup {NUL}] /\ p \in Heap /\ p \in Nat
        /\ \A i \in Heap : i >= p => path_list[i] = NUL
        /\ Len(search) \in Nat /\ Len(rep) \in Nat /\ HeapSize \in Nat
    BY <1>p, PathAssumption DEF ListInv, Heap
  <1>2. a \in Assignment /\ assigned' = Append(assigned, a)
    <2>1. kept \in {"none", "search", "both"}
      BY <1>kept
    <2> QED
      BY <1>1, <1>p, <1>q, <1>kept, <1>a, <2>1 DEF Assign, Assignment
  <1>3. ASSUME Fits(p, search)
        PROVE  /\ one \in [Heap -> Tokens \cup {NUL}] /\ q \in Heap
               /\ \A i \in Heap : one[i] = IF i \in p..(p + Len(search) - 1) THEN search[i - p + 1]
                                           ELSE IF i < p THEN path_list[i] ELSE NUL
               /\ \A i \in Heap : i >= q => one[i] = NUL
    <2>1. /\ one \in [Heap -> Tokens \cup {NUL}] /\ q \in Heap
          /\ \A i \in Heap : one[i] = IF i \in p..(p + Len(search) - 1) THEN search[i - p + 1]
                                      ELSE IF i < p THEN path_list[i] ELSE NUL
      BY <1>1, <1>3, <1>q, <1>one, AddedFacts
    <2>2. \A i \in Heap : i >= q => i \notin p..(p + Len(search) - 1) /\ ~(i < p)
      BY <1>1, <1>q DEF Heap
    <2>3. \A i \in Heap : i >= q => one[i] = NUL
      BY <2>1, <2>2
    <2> QED
      BY <2>1, <2>3
  <1>4. ASSUME Fits(p, search), Fits(q, rep)
        PROVE  /\ two \in [Heap -> Tokens \cup {NUL}] /\ q + Len(rep) + 1 \in Heap
               /\ \A i \in Heap : two[i] = IF i \in q..(q + Len(rep) - 1) THEN rep[i - q + 1]
                                           ELSE IF i < q THEN one[i] ELSE NUL
    BY <1>1, <1>3, <1>4, <1>two, AddedFacts
  <1>5. /\ path_list' = IF kept = "none" THEN path_list ELSE IF kept = "search" THEN one ELSE two
        /\ path_list_pos' = IF kept = "none" THEN p
                            ELSE IF kept = "search" THEN q ELSE q + Len(rep) + 1
    BY <1>p, <1>q, <1>one, <1>two, <1>kept DEF Assign
  <1>6. EndOf(a) = IF kept = "none" THEN p ELSE IF kept = "search" THEN q ELSE q + Len(rep) + 1
    BY <1>0, <1>kept, <1>q DEF EndOf, RepPlace
  <1>7. \A k \in 1..Len(search) : /\ p + k - 1 \in p..(p + Len(search) - 1) /\ p + k - 1 < q
                                  /\ (p + k - 1) - p + 1 = k
    BY <1>1, <1>q
  <1>8. p + Len(search) \notin p..(p + Len(search) - 1) /\ ~(p + Len(search) < p)
    BY <1>1
  <1>9. CASE kept = "none"
    <2>1. path_list' = path_list /\ path_list_pos' = p /\ EndOf(a) = p
      BY <1>5, <1>6, <1>9, Zenon
    <2>2. ListInv'
      BY <1>p, <2>1 DEF ListInv
    <2>3. Stored(a)'
      BY <1>0, <1>1, <1>9, <2>1 DEF Stored, EndOf, RepPlace
    <2> QED
      BY <1>0, <1>1, <1>2, <1>p, <2>1, <2>2, <2>3
  <1>10. CASE kept = "search"
    <2>1. path_list' = one /\ path_list_pos' = q /\ EndOf(a) = q /\ Fits(p, search)
      BY <1>5, <1>6, <1>10, <1>kept
    <2>2. q - 1 = p + Len(search) /\ q - 1 \in Heap /\ q > 0
      BY <1>1, <1>3, <1>q, <2>1 DEF Heap
    <2>3. one[p + Len(search)] = NUL
      BY <1>3, <1>8, <2>1, <2>2
    <2>4. ListInv'
      BY <1>1, <1>3, <2>1, <2>2, <2>3 DEF ListInv
    <2>5. \A k \in 1..Len(search) : one[p + k - 1] = search[k]
      BY <1>1, <1>3, <1>7, <2>1 DEF Heap
    <2>6. Holds(p, search)'
      BY <2>1, <2>3, <2>5 DEF Holds
    <2>7. Stored(a)'
      BY <1>0, <1>1, <1>10, <2>1, <2>6 DEF Stored, EndOf, RepPlace
    <2>8. \A i \in Heap : i < p => one[i] = path_list[i]
      BY <1>1, <1>3, <2>1 DEF Heap
    <2> QED
      BY <1>0, <1>1, <1>2, <1>p, <1>q, <2>1, <2>4, <2>7, <2>8
  <1>11. CASE kept = "both"
    <2>r. PICK r : r = q + Len(rep) + 1
      OBVIOUS
    <2>1. path_list' = two /\ path_list_pos' = r /\ EndOf(a) = r /\ Fits(p, search) /\ Fits(q, rep)
      BY <1>5, <1>6, <1>11, <1>kept, <2>r
    <2>2. q \in Nat /\ r - 1 = q + Len(rep) /\ r - 1 \in Heap /\ r \in Heap /\ r > 0
      BY <1>1, <1>3, <1>4, <2>1, <2>r DEF Heap
    <2>3. q + Len(rep) \notin q..(q + Len(rep) - 1) /\ ~(q + Len(rep) < q)
      BY <1>1, <2>2
    <2>4. two[q + Len(rep)] = NUL
      BY <1>4, <2>1, <2>2, <2>3
    <2>5. \A i \in Heap : i >= r => two[i] = NUL
      BY <1>1, <1>4, <2>1, <2>2, <2>r DEF Heap
    <2>6. ListInv'
      BY <1>4, <2>1, <2>2, <2>4, <2>5 DEF ListInv
    <2>7. \A i \in Heap : i < q => two[i] = one[i]
      BY <1>1, <1>4, <2>1, <2>2 DEF Heap
    <2>8. \A k \in 1..Len(search) : two[p + k - 1] = search[k]
      <3>1. \A k \in 1..Len(search) : p + k - 1 \in Heap
        BY <1>1, <1>3, <1>7, <2>1 DEF Heap
      <3> QED
        BY <1>3, <1>7, <2>1, <2>7, <3>1
    <2>9. two[p + Len(search)] = NUL
      <3>1. p + Len(search) \in Heap /\ p + Len(search) < q
        BY <1>1, <1>3, <1>q, <2>1 DEF Heap
      <3> QED
        BY <1>3, <1>8, <2>1, <2>7, <3>1
    <2>10. \A k \in 1..Len(rep) : /\ q + k - 1 \in q..(q + Len(rep) - 1) /\ q + k - 1 \in Heap
                                  /\ (q + k - 1) - q + 1 = k
      BY <1>1, <2>2 DEF Heap
    <2>11. \A k \in 1..Len(rep) : two[q + k - 1] = rep[k]
      BY <1>4, <2>1, <2>10
    <2>12. Holds(p, search)' /\ Holds(q, rep)'
      BY <2>1, <2>4, <2>8, <2>9, <2>11 DEF Holds
    <2>13. Stored(a)'
      <3>1. EndOf(a)' = r /\ RepPlace(a)' = q /\ RepPlace(a) = q
        BY <1>0, <1>11, <1>q, <2>r DEF EndOf, RepPlace
      <3>2. EndOf(a)' <= path_list_pos'
        BY <2>1, <2>2, <3>1 DEF Heap
      <3> QED
        BY <1>0, <2>12, <3>1, <3>2 DEF Stored
    <2>14. \A i \in Heap : i < p => two[i] = path_list[i]
      <3>1. \A i \in Heap : i < p => i < q /\ i \notin p..(p + Len(search) - 1)
        BY <1>1, <1>q, <2>2 DEF Heap
      <3> QED
        BY <1>3, <2>1, <2>7, <3>1
    <2>15. r >= p
      BY <1>1, <1>q, <2>2, <2>r
    <2> QED
      BY <1>0, <1>2, <1>p, <2>1, <2>6, <2>13, <2>14, <2>15
  <1> QED
    BY <1>9, <1>10, <1>11, <1>kept

LEMMA AssignStep ==
    ASSUME ListInv, AssignedInv, NEW search \in Seq(Tokens), NEW rep \in Seq(Tokens),
           Assign(search, rep)
    PROVE  ListInv' /\ AssignedInv'
  <1>1. PICK a \in Assignment :
              /\ ListInv' /\ assigned' = Append(assigned, a)
              /\ a.search = search /\ a.rep = rep /\ a.place = path_list_pos
              /\ path_list_pos' = EndOf(a) /\ EndOf(a) >= path_list_pos
              /\ \A i \in Heap : i < path_list_pos => path_list'[i] = path_list[i]
              /\ Stored(a)'
    BY AssignList
  <1>2. PICK n : n = Len(assigned)
    OBVIOUS
  <1>3. /\ n \in Nat /\ assigned' \in Seq(Assignment) /\ Len(assigned') = n + 1
        /\ assigned'[n + 1] = a /\ \A i \in 1..n : assigned'[i] = assigned[i]
        /\ \A i \in 1..n : assigned[i] \in Assignment
    <2>1. assigned \in Seq(Assignment)
      BY DEF AssignedInv
    <2> QED
      BY <1>1, <1>2, <2>1
  <1>4. path_list_pos \in Nat
    BY PathAssumption DEF ListInv, Heap
  <1>5. ASSUME NEW b \in Assignment, Stored(b) PROVE Stored(b)'
    <2>1. /\ b.place \in Nat /\ b.search \in Seq(Tokens) /\ b.rep \in Seq(Tokens)
          /\ Len(b.search) \in Nat /\ Len(b.rep) \in Nat
          /\ b.kept \in {"none", "search", "both"}
      BY DEF Assignment
    <2>2. EndOf(b) <= path_list_pos /\ EndOf(b) \in Nat /\ EndOf(b)' = EndOf(b)
          /\ RepPlace(b)' = RepPlace(b) /\ RepPlace(b) \in Nat
      <3>1. EndOf(b)' = EndOf(b) /\ RepPlace(b)' = RepPlace(b)
        BY DEF EndOf, RepPlace
      <3>2. RepPlace(b) \in Nat /\ b.place \in Nat /\ RepPlace(b) + Len(b.rep) + 1 \in Nat
        <4>1. \A x, y \in Nat : x + y + 1 \in Nat
          OBVIOUS
        <4>2. RepPlace(b) \in Nat
          BY <2>1, <4>1 DEF RepPlace
        <4> QED
          BY <2>1, <4>1, <4>2
      <3>3. EndOf(b) \in Nat
        BY <3>2 DEF EndOf
      <3> QED
        BY <1>5, <3>1, <3>2, <3>3 DEF Stored
    <2>3. EndOf(a) \in Nat
      BY <1>1, <1>4 DEF EndOf, RepPlace, Assignment
    <2>4. EndOf(b)' <= path_list_pos'
      BY <1>1, <1>4, <2>2, <2>3
    <2>5. ASSUME b.kept # "none" PROVE Holds(b.place, b.search)'
      <3>1. b.place + Len(b.search) + 1 <= path_list_pos
        BY <1>4, <2>1, <2>2, <2>5 DEF EndOf, RepPlace
      <3> QED
        BY <1>1, <1>5, <2>1, <2>5, <3>1, HoldsStays DEF Stored
    <2>6. ASSUME b.kept = "both" PROVE Holds(RepPlace(b), b.rep)'
      <3>1. RepPlace(b) + Len(b.rep) + 1 <= path_list_pos
        BY <1>4, <2>1, <2>2, <2>6 DEF EndOf
      <3>2. Holds(RepPlace(b), b.rep)
        BY <1>5, <2>6 DEF Stored
      <3>3. PICK q \in Nat : q = RepPlace(b)
        BY <2>2
      <3>4. Holds(q, b.rep)'
        BY <1>1, <2>1, <3>1, <3>2, <3>3, HoldsStays
      <3> QED
        BY <2>2, <3>3, <3>4 DEF Holds
    <2> QED
      BY <2>4, <2>5, <2>6 DEF Stored
  <1>6. \A i \in 1..(n + 1) : PlaceOf(i)' = PlaceOf(i)
    <2>1. \A i \in 1..n : i # n + 1 /\ i # n + 2
      BY <1>3
    <2> QED
      BY <1>1, <1>2, <1>3, <2>1 DEF PlaceOf
  <1>7. PlaceOf(n + 1) = path_list_pos
    BY <1>2 DEF PlaceOf
  <1>8. PlaceOf(n + 2)' = EndOf(a) /\ EndOf(a)' = EndOf(a)
    BY <1>1, <1>3 DEF PlaceOf, EndOf, RepPlace
  <1>9. PlaceOf(1)' = 0
    BY <1>3, <1>6 DEF AssignedInv
  <1>10. ASSUME NEW i \in 1..(n + 1)
         PROVE  Stored(assigned[i])' /\ PlaceOf(i + 1)' = EndOf(assigned[i])'
    <2>1. CASE i = n + 1
      <3>1. Stored(a)' /\ assigned'[i] = a /\ i + 1 = n + 2
        BY <1>1, <1>3, <2>1
      <3> QED
        BY <1>1, <1>8, <3>1 DEF Stored, Holds, EndOf, RepPlace
    <2>2. CASE i # n + 1
      <3>1. PICK b \in Assignment : b = assigned[i] /\ b = assigned'[i] /\ i \in 1..n /\ i + 1 \in 1..(n + 1)
        BY <1>3, <2>2
      <3>2. Stored(b) /\ PlaceOf(i + 1) = EndOf(b)
        BY <1>2, <3>1 DEF AssignedInv
      <3>3. Stored(b)' /\ PlaceOf(i + 1)' = EndOf(b) /\ EndOf(b)' = EndOf(b)
        BY <1>5, <1>6, <3>1, <3>2 DEF EndOf, RepPlace
      <3> QED
        BY <3>1, <3>3 DEF Stored, Holds, EndOf, RepPlace
    <2> QED
      BY <2>1, <2>2
  <1>11. ASSUME NEW i \in 1..(n + 2), NEW j \in 1..(n + 2), i <= j,
                \A k \in 1..(n + 1) : i <= k /\ k < j => assigned'[k].kept = "none"
         PROVE  PlaceOf(i)' = PlaceOf(j)'
    <2>1. ASSUME NEW m \in 1..(n + 1), i <= m, m <= j PROVE PlaceOf(i)' = PlaceOf(m)'
      <3>1. \A k \in 1..n : i <= k /\ k < m => assigned[k].kept = "none"
        BY <1>3, <1>11, <2>1
      <3>2. i \in 1..(n + 1)
        BY <1>3, <2>1
      <3>3. PlaceOf(i) = PlaceOf(m)
        BY <1>2, <2>1, <3>1, <3>2 DEF AssignedInv
      <3> QED
        BY <1>6, <2>1, <3>2, <3>3
    <2>2. CASE j \in 1..(n + 1)
      BY <1>3, <1>11, <2>1, <2>2
    <2>3. CASE i = n + 2
      BY <1>3, <1>11, <2>3
    <2>4. CASE i # n + 2 /\ j = n + 2
      <3>1. i <= n + 1 /\ n + 1 \in 1..(n + 1) /\ n + 1 <= j /\ n + 1 < j
        BY <1>3, <2>4
      <3>2. PlaceOf(i)' = PlaceOf(n + 1)'
        BY <2>1, <3>1
      <3>3. a.kept = "none"
        BY <1>3, <1>11, <3>1
      <3>4. EndOf(a) = path_list_pos
        BY <1>1, <3>3 DEF EndOf
      <3> QED
        BY <1>6, <1>7, <1>8, <2>4, <3>1, <3>2, <3>4
    <2> QED
      BY <1>3, <2>2, <2>3, <2>4
  <1>12. n + 2 = Len(assigned') + 1 /\ n + 1 = Len(assigned')
    BY <1>3
  <1>13. /\ \A i \in 1..Len(assigned') : Stored(assigned[i])' /\ PlaceOf(i + 1)' = EndOf(assigned[i])'
         /\ \A i \in 1..(Len(assigned') + 1) : \A j \in 1..(Len(assigned') + 1) :
               i <= j /\ (\A k \in 1..Len(assigned') : i <= k /\ k < j => assigned'[k].kept = "none")
               => PlaceOf(i)' = PlaceOf(j)'
    BY <1>10, <1>11, <1>12
  <1> QED
    BY <1>1, <1>3, <1>9, <1>13, Zenon DEF AssignedInv

-----------------------------------------------------------------------------
(* Types of what cfg_load reads and sets.                                  *)
Byte == {n \in Nat : n < 256}
Halfword == {n \in Nat : n < 65536}

Settings ==
    [target : Seq(Tokens), patch : Seq(Tokens), log : SUBSET (0..31), sysvec : Nat,
     devkit : Halfword, kernel : Nat, hack : Byte, set : Byte, wait : Nat,
     title : Seq(Tokens), umd : Nat]

Arguments == {a \in Seq(Seq(Tokens)) : a # <<>>}

LoadInv ==
    /\ files \in FileSystems /\ ptr \in Seq(Tokens) /\ BootInv
    /\ cfg \in Settings
    /\ func_hook_type \in [Nids -> {"N", "M", "S"}]
    /\ lines \in Seq([args : Arguments, file : Nat]) /\ loads \in Seq(DOMAIN files)
    /\ cfg_pc \in {"next_file", "line", "loaded", "run", "exit"}

loadVars == <<files, configVars>>

LEMMA ModType ==
    ASSUME NEW x \in Nat
    PROVE  x % 65536 \in Halfword /\ x % 256 \in Byte
  BY DEF Halfword, Byte

LEMMA Hex2Nat == \A s : str2hex(s) \in Nat
  BY ConfigAssumption DEF str2hex

LEMMA LogBitType == \A device : LogBit(device) \in 0..31
  BY DEF LogBit

LEMMA ParametersOf ==
    /\ \A name \in DOMAIN Parameters : Parameters[name] \in 1..3
    /\ Parameters["ASSIGN_PATH"] = 2 /\ Parameters["IMPORT_VER"] = 2 /\ Parameters["KPATCH"] = 3
    /\ \A name \in {"TITLE", "UMD_EMU", "TARGET_PATH", "CONFIG_PATH", "PATCH_PATH", "LOG_DEVICE",
                    "SYSCALL_VECTOR", "DEVKIT_VER", "KERNEL_VER", "WAIT_RUN", "NID"} :
          name \in DOMAIN Parameters /\ Parameters[name] = 1
    /\ {"ASSIGN_PATH", "IMPORT_VER", "KPATCH"} \subseteq DOMAIN Parameters
  BY DEF Parameters

(* Of a parameter of the line.                                             *)
LEMMA ArgType ==
    ASSUME NEW args \in Arguments, NEW n \in 1..Len(args)
    PROVE  args[n] \in Seq(Tokens)
  BY DEF Arguments

LEMMA NewLine ==
    ASSUME LoadInv, NEW args \in Arguments, NextLine(args)
    PROVE  /\ files' \in FileSystems /\ files' = files /\ ptr' \in Seq(Tokens)
           /\ lines' \in Seq([args : Arguments, file : Nat]) /\ loads' \in Seq(DOMAIN files')
           /\ cfg_pc' \in {"next_file", "line"}
  <1>1. AfterLine \in Seq(Tokens)
    BY LineType DEF LoadInv
  <1>2. Len(loads) \in Nat
    BY DEF LoadInv
  <1>3. [args |-> args, file |-> Len(loads)] \in [args : Arguments, file : Nat]
    BY <1>2
  <1>4. lines' \in Seq([args : Arguments, file : Nat])
    BY <1>3 DEF NextLine, LoadInv
  <1>5. ptr' \in Seq(Tokens)
    <2>1. ptr' = <<>> \/ ptr' = AfterLine
      BY DEF NextLine
    <2>2. <<>> \in Seq(Tokens)
      OBVIOUS
    <2> QED
      BY <1>1, <2>1, <2>2, Zenon
  <1>6. files' = files /\ loads' = loads /\ cfg_pc' \in {"next_file", "line"}
    BY DEF NextLine
  <1>7. files \in FileSystems /\ loads \in Seq(DOMAIN files)
    BY DEF LoadInv
  <1> QED
    BY <1>4, <1>5, <1>6, <1>7

LEMMA SettingsExcept ==
    ASSUME NEW c \in Settings, NEW x \in Nat, NEW s \in Seq(Tokens)
    PROVE  /\ [c EXCEPT !.title = s] \in Settings /\ [c EXCEPT !.target = s] \in Settings
           /\ [c EXCEPT !.patch = s] \in Settings
           /\ [c EXCEPT !.umd = x] \in Settings /\ [c EXCEPT !.sysvec = x] \in Settings
           /\ [c EXCEPT !.kernel = x] \in Settings /\ [c EXCEPT !.wait = x] \in Settings
           /\ \A y \in 0..31 : [c EXCEPT !.log = @ \cup {y}] \in Settings
           /\ \A y \in Halfword : [c EXCEPT !.devkit = y] \in Settings
           /\ \A y, z \in Byte : [c EXCEPT !.hack = y, !.set = z] \in Settings
  <1>1. [c EXCEPT !.title = s] \in Settings /\ [c EXCEPT !.target = s] \in Settings
    BY DEF Settings
  <1>2. [c EXCEPT !.patch = s] \in Settings
    BY DEF Settings
  <1>3. [c EXCEPT !.umd = x] \in Settings /\ [c EXCEPT !.sysvec = x] \in Settings
    BY DEF Settings
  <1>4. [c EXCEPT !.kernel = x] \in Settings /\ [c EXCEPT !.wait = x] \in Settings
    BY DEF Settings
  <1>5. \A y \in 0..31 : [c EXCEPT !.log = @ \cup {y}] \in Settings
    BY DEF Settings
  <1>6. \A y \in Halfword : [c EXCEPT !.devkit = y] \in Settings
    BY DEF Settings
  <1>7. \A y, z \in Byte : [c EXCEPT !.hack = y, !.set = z] \in Settings
    BY DEF Settings
  <1> QED
    BY <1>1, <1>2, <1>3, <1>4, <1>5, <1>6, <1>7

LEMMA ConfiguredType ==
    ASSUME LoadInv, NEW args \in Arguments, Configure(args)
    PROVE  cfg' \in Settings
  <1>1. Len(args) > 1 /\ args[2] \in Seq(Tokens)
    <2>1. Len(args) > 1 /\ Len(args) \in Nat
      BY ParametersOf DEF Configure, Is, Arguments
    <2> QED
      BY <2>1, ArgType
  <1>2. \A n \in 2..3 : /\ str2hex(args[n]) \in Nat /\ str2hex(args[n]) % 65536 \in Halfword
                        /\ str2hex(args[n]) % 256 \in Byte
    BY Hex2Nat, ModType
  <1>3. LogBit(args[2]) \in 0..31
    BY LogBitType
  <1>4. cfg \in Settings /\ 2 \in 2..3 /\ 3 \in 2..3
    BY DEF LoadInv
  <1>5. /\ [cfg EXCEPT !.title = args[2]] \in Settings
        /\ [cfg EXCEPT !.umd = str2hex(args[2])] \in Settings
        /\ [cfg EXCEPT !.log = @ \cup {LogBit(args[2])}] \in Settings
        /\ [cfg EXCEPT !.sysvec = str2hex(args[2])] \in Settings
        /\ [cfg EXCEPT !.devkit = str2hex(args[2]) % 65536] \in Settings
        /\ [cfg EXCEPT !.kernel = str2hex(args[2])] \in Settings
        /\ [cfg EXCEPT !.hack = str2hex(args[2]) % 256, !.set = str2hex(args[3]) % 256] \in Settings
        /\ [cfg EXCEPT !.wait = str2hex(args[2])] \in Settings
    <2>1. \A x \in Nat : \A s \in Seq(Tokens) :
             /\ [cfg EXCEPT !.title = s] \in Settings
             /\ [cfg EXCEPT !.umd = x] \in Settings /\ [cfg EXCEPT !.sysvec = x] \in Settings
             /\ [cfg EXCEPT !.kernel = x] \in Settings /\ [cfg EXCEPT !.wait = x] \in Settings
             /\ \A y \in 0..31 : [cfg EXCEPT !.log = @ \cup {y}] \in Settings
             /\ \A y \in Halfword : [cfg EXCEPT !.devkit = y] \in Settings
             /\ \A y, z \in Byte : [cfg EXCEPT !.hack = y, !.set = z] \in Settings
      BY <1>4, SettingsExcept, Zenon
    <2>2. PICK h \in Halfword : h = str2hex(args[2]) % 65536
      BY <1>2
    <2>3. PICK y \in Byte, z \in Byte : y = str2hex(args[2]) % 256 /\ z = str2hex(args[3]) % 256
      BY <1>2
    <2>4. PICK x \in Nat, s \in Seq(Tokens), b \in 0..31 :
             x = str2hex(args[2]) /\ s = args[2] /\ b = LogBit(args[2])
      BY <1>1, <1>3, Hex2Nat, Zenon
    <2>5. [cfg EXCEPT !.devkit = h] \in Settings /\ [cfg EXCEPT !.hack = y, !.set = z] \in Settings
      <3>1. h \in Halfword /\ y \in Byte /\ z \in Byte
        BY <2>2, <2>3
      <3> QED
        BY <2>1, <2>4, <3>1, Zenon
    <2>6. /\ [cfg EXCEPT !.title = s] \in Settings
          /\ [cfg EXCEPT !.umd = x] \in Settings /\ [cfg EXCEPT !.sysvec = x] \in Settings
          /\ [cfg EXCEPT !.kernel = x] \in Settings /\ [cfg EXCEPT !.wait = x] \in Settings
          /\ [cfg EXCEPT !.log = @ \cup {b}] \in Settings
      BY <2>1, <2>4, Zenon
    <2>7. [cfg EXCEPT !.devkit = str2hex(args[2]) % 65536] = [cfg EXCEPT !.devkit = h]
      BY <2>2
    <2>8. [cfg EXCEPT !.hack = str2hex(args[2]) % 256, !.set = str2hex(args[3]) % 256]
             = [cfg EXCEPT !.hack = y, !.set = z]
      BY <2>3
    <2>9. /\ [cfg EXCEPT !.title = args[2]] \in Settings
          /\ [cfg EXCEPT !.umd = str2hex(args[2])] \in Settings
          /\ [cfg EXCEPT !.log = @ \cup {LogBit(args[2])}] \in Settings
          /\ [cfg EXCEPT !.sysvec = str2hex(args[2])] \in Settings
          /\ [cfg EXCEPT !.kernel = str2hex(args[2])] \in Settings
          /\ [cfg EXCEPT !.wait = str2hex(args[2])] \in Settings
      BY <2>4, <2>6, Zenon
    <2> QED
      BY <2>5, <2>7, <2>8, <2>9
  <1>6. \E name \in {"TITLE", "UMD_EMU", "LOG_DEVICE", "SYSCALL_VECTOR", "DEVKIT_VER",
                     "KERNEL_VER", "IMPORT_VER", "WAIT_RUN"} : Is(args, name)
    BY DEF Configure
  <1>7. Configured(args) \in Settings
    BY <1>4, <1>5, <1>6 DEF Configured
  <1> QED
    BY <1>7 DEF Configure

LEMMA SetPathType ==
    ASSUME LoadInv, NEW args \in Arguments, Len(args) > 1
    PROVE  /\ make_full_path(args[2]) \in Seq(Tokens)
           /\ [cfg EXCEPT !.target = make_full_path(args[2])] \in Settings
           /\ [cfg EXCEPT !.patch = make_full_path(args[2])] \in Settings
           /\ RootAfter(args[2]) \in {BootPath, <<Head(BootPath)>>}
  <1>1. args[2] \in Seq(Tokens)
    <2>1. 2 \in 1..Len(args)
      BY DEF Arguments
    <2> QED
      BY <2>1, ArgType
  <1>2. BootInv /\ cfg \in Settings
    BY DEF LoadInv
  <1>3. make_full_path(args[2]) \in Seq(Tokens) /\ RootAfter(args[2]) \in {BootPath, <<Head(BootPath)>>}
    BY <1>1, <1>2, FullPathType, RootAfterType
  <1>4. 0 \in Nat
    OBVIOUS
  <1> QED
    BY <1>2, <1>3, <1>4, SettingsExcept, Zenon

listInvs == ListInv /\ AssignedInv

LEMMA ListStays == ASSUME listInvs, UNCHANGED listVars PROVE listInvs'
  <1>1. path_list' = path_list /\ path_list_pos' = path_list_pos /\ assigned' = assigned
    BY DEF listVars
  <1>2. ListInv'
    BY <1>1 DEF listInvs, ListInv
  <1>3. \A i : PlaceOf(i)' = PlaceOf(i)
    BY <1>1 DEF PlaceOf
  <1>4. \A i : Stored(assigned[i])' = Stored(assigned[i]) /\ EndOf(assigned[i])' = EndOf(assigned[i])
    BY <1>1 DEF Stored, Holds, EndOf, RepPlace
  <1>5. AssignedInv'
    <2>1. AssignedInv
      BY DEF listInvs
    <2>2. assigned' \in Seq(Assignment) /\ PlaceOf(1)' = 0
      BY <1>1, <1>3, <2>1 DEF AssignedInv
    <2>3. \A i \in 1..Len(assigned) :
             Stored(assigned[i])' /\ PlaceOf(i + 1)' = EndOf(assigned[i])'
      BY <1>3, <1>4, <2>1 DEF AssignedInv
    <2>4. \A i \in 1..(Len(assigned) + 1) : \A j \in 1..(Len(assigned) + 1) :
             i <= j /\ (\A k \in 1..Len(assigned) : i <= k /\ k < j => assigned[k].kept = "none")
             => PlaceOf(i)' = PlaceOf(j)'
      BY <1>3, <2>1 DEF AssignedInv
    <2> QED
      BY <1>1, <2>2, <2>3, <2>4 DEF AssignedInv
  <1> QED
    BY <1>2, <1>5 DEF listInvs

LEMMA LineStepInv ==
    ASSUME LoadInv, listInvs, NEW args \in Arguments,
           \/ Drop(args) \/ Configure(args) \/ SetPath(args) \/ ConfigPath(args)
           \/ AssignPath(args) \/ Nid(args) \/ KPatch(args)
    PROVE  LoadInv' /\ listInvs'
  <1>1. NextLine(args)
    BY DEF Drop, Configure, SetPath, ConfigPath, AssignPath, Nid, KPatch
  <1>2. /\ files' \in FileSystems /\ files' = files /\ ptr' \in Seq(Tokens)
        /\ lines' \in Seq([args : Arguments, file : Nat]) /\ loads' \in Seq(DOMAIN files')
        /\ cfg_pc' \in {"next_file", "line"}
    BY <1>1, NewLine
  <1>3. /\ psp_boot_path \in {BootPath, <<Head(BootPath)>>} /\ cfg \in Settings
        /\ func_hook_type \in [Nids -> {"N", "M", "S"}] /\ Len(args) \in Nat
    BY DEF LoadInv, BootInv, Arguments
  <1>4. SUFFICES /\ psp_boot_path' \in {BootPath, <<Head(BootPath)>>} /\ cfg' \in Settings
                 /\ func_hook_type' \in [Nids -> {"N", "M", "S"}] /\ listInvs'
    BY <1>2 DEF LoadInv, BootInv
  <1>5. CASE Drop(args)
    BY <1>3, <1>5, ListStays DEF Drop
  <1>6. CASE Configure(args)
    BY <1>3, <1>6, ListStays, ConfiguredType DEF Configure
  <1>7. CASE SetPath(args)
    BY <1>3, <1>7, ListStays, SetPathType DEF SetPath
  <1>8. CASE ConfigPath(args)
    <2>1. Len(args) > 1
      BY <1>3, <1>8, ParametersOf DEF ConfigPath, Is
    <2> QED
      BY <1>3, <1>8, <2>1, ListStays, SetPathType DEF ConfigPath
  <1>9. CASE AssignPath(args)
    <2>1. Len(args) > 2
      BY <1>3, <1>9, ParametersOf DEF AssignPath, Is
    <2>2. args[2] \in Seq(Tokens) /\ args[3] \in Seq(Tokens)
      BY <1>3, <2>1, ArgType
    <2>3. make_full_path(args[3]) \in Seq(Tokens) /\ RootAfter(args[3]) \in {BootPath, <<Head(BootPath)>>}
      BY <2>2, FullPathType, RootAfterType DEF LoadInv
    <2>4. listInvs'
      BY <1>9, <2>2, <2>3, AssignStep DEF AssignPath, listInvs
    <2> QED
      BY <1>3, <1>9, <2>3, <2>4 DEF AssignPath
  <1>10. CASE Nid(args)
    <2>1. (IF Len(args) = 2 THEN "M" ELSE Head(args[3])) \in {"N", "M", "S"}
      <3>1. Len(args) > 1
        BY <1>3, <1>10, ParametersOf DEF Nid, Is
      <3>2. CASE Len(args) = 2
        BY <3>2
      <3>3. CASE Len(args) # 2
        <4>1. args[3] \in hook_type_str
          <5>1. ~Dropped(args) /\ Is(args, "NID")
            BY <1>10 DEF Nid
          <5>2. Len(args) > 2
            <6>1. Len(args) \in Nat /\ Len(args) # 2
              BY <1>3, <3>3
            <6> QED
              BY <3>1, <6>1
          <5> QED
            BY <5>1, <5>2, Zenon DEF Dropped
        <4>2. Head(args[3]) \in {"N", "M", "S"}
          <5>1. Head(<<"N">>) = "N" /\ Head(<<"M">>) = "M" /\ Head(<<"S">>) = "S"
            OBVIOUS
          <5> QED
            BY <4>1, <5>1, Zenon DEF hook_type_str
        <4> QED
          BY <3>3, <4>2
      <3> QED
        BY <3>2, <3>3
    <2>2. func_hook_type' \in [Nids -> {"N", "M", "S"}]
      BY <1>3, <1>10, <2>1 DEF Nid, set_hook_type
    <2> QED
      BY <1>3, <1>10, <2>2, ListStays DEF Nid
  <1>11. CASE KPatch(args)
    BY <1>3, <1>11, ListStays DEF KPatch
  <1> QED
    BY <1>5, <1>6, <1>7, <1>8, <1>9, <1>10, <1>11

LEMMA LineArguments == ASSUME LoadInv PROVE Args(Line) \in Arguments
  <1>1. Line \in Seq(Tokens)
    BY LineType DEF LoadInv
  <1>2. Args(Line) \in Seq(Seq(Tokens)) /\ Len(Args(Line)) \in Nat \ {0}
    BY <1>1, ArgsType
  <1> QED
    BY <1>2 DEF Arguments

LEMMA LoadStepInv == ASSUME LoadInv, listInvs, LoadStep PROVE LoadInv' /\ listInvs'
  <1>1. CASE LoadFile
    <2>1. files[config_path] \in Seq(Tokens)
      BY <1>1, ConfigAssumption DEF LoadFile, LoadInv
    <2>2. loads' \in Seq(DOMAIN files)
      BY <1>1 DEF LoadFile, LoadInv
    <2> QED
      BY <1>1, <2>1, <2>2, ListStays DEF LoadFile, LoadInv, BootInv
  <1>2. CASE NoFile
    BY <1>2, ListStays DEF NoFile, LoadInv, BootInv
  <1>3. CASE EndLoad
    BY <1>3, ListStays DEF EndLoad, LoadInv, BootInv
  <1>4. ASSUME NEW ok \in BOOLEAN, Main(ok) PROVE LoadInv' /\ listInvs'
    <2>1. cfg' \in Settings
      BY <1>4 DEF Main, LoadInv, Settings
    <2>2. cfg_pc' \in {"run", "exit"}
      BY <1>4 DEF Main
    <2> QED
      BY <1>4, <2>1, <2>2, ListStays DEF Main, LoadInv, BootInv
  <1>5. CASE \E line \in {Line} : \E args \in {Args(line)} :
               \/ Drop(args) \/ Configure(args) \/ SetPath(args) \/ ConfigPath(args)
               \/ AssignPath(args) \/ Nid(args) \/ KPatch(args)
    <2>1. PICK args : /\ args = Args(Line)
                      /\ \/ Drop(args) \/ Configure(args) \/ SetPath(args) \/ ConfigPath(args)
                         \/ AssignPath(args) \/ Nid(args) \/ KPatch(args)
      BY <1>5
    <2>2. args \in Arguments
      BY <2>1, LineArguments
    <2> QED
      BY <2>1, <2>2, LineStepInv
  <1> QED
    BY <1>1, <1>2, <1>3, <1>4, <1>5 DEF LoadStep

-----------------------------------------------------------------------------
(* The path hooks stay within their buffers.                               *)
Texts == GamePaths \cup Stack
Cells == 0..(BufSize - 1)

(* No string of the list is so long that what a path adds to it does not   *)
(* fit a path buffer: nothing in the code checks it.                       *)
Fit == \A pos \in Heap : \A p \in Texts : StrLen(pos) + Len(p) + 1 < BufSize

HookTypes ==
    /\ path \in [Threads -> Seq(Tokens)] /\ hooked_path \in [Threads -> Seq(Tokens)]
    /\ rest \in [Threads -> Seq(Tokens)] /\ place \in [Threads -> Nat] /\ at \in [Threads -> Nat]
    /\ t_pc \in [Threads -> {"idle", "look", "save", "append", "done"}]
    /\ rep_buf \in [Cells -> Tokens \cup {NUL}]

Within(n) == \E p \in Texts : n <= Len(p)

RepInv == \A i \in Cells : rep_buf[i] # NUL => Within(i + 1)

ThreadInv(t) ==
    /\ IF t_pc[t] \in {"idle", "look", "done"} THEN at[t] < BufSize
       ELSE at[t] = 0 \/ Within(at[t])
    /\ Len(hooked_path[t]) < BufSize
    /\ t_pc[t] # "idle" => place[t] <= path_list_pos + 1
    /\ t_pc[t] \in {"look", "save", "append"} => path[t] \in GamePaths
    /\ t_pc[t] = "save" => at[t] <= Len(rest[t]) /\ Within(Len(rest[t]))
    /\ t_pc[t] \in {"save", "append"} =>
          \E pos \in Heap :
             Len(hooked_path[t]) = StrLen(pos) + (IF t_pc[t] = "append" THEN at[t] ELSE 0)
    /\ t_pc[t] = "append" => Len(hooked_path[t]) + 1 < BufSize

IdleInv == cfg_pc # "run" => \A t \in Threads : t_pc[t] = "idle"

HookInv == HookTypes /\ RepInv /\ (\A t \in Threads : ThreadInv(t)) /\ IdleInv

LEMMA WithinBuf == ASSUME NEW n \in Nat, Within(n) PROVE n < BufSize
  <1>1. PICK p \in Texts : n <= Len(p)
    BY DEF Within
  <1>2. Len(p) \in Nat /\ Len(p) < BufSize /\ BufSize \in Nat
    BY PathAssumption DEF Texts
  <1> QED
    BY <1>1, <1>2

LEMMA AtInCells ==
    ASSUME HookTypes, NEW t \in Threads, ThreadInv(t)
    PROVE  at[t] \in Cells
  <1>1. at[t] \in Nat /\ BufSize \in Nat \ {0}
    BY PathAssumption DEF HookTypes
  <1>2. at[t] < BufSize
    BY <1>1, WithinBuf DEF ThreadInv
  <1> QED
    BY <1>1, <1>2 DEF Cells

(* Where makePath is when it looks at a pair.                              *)
LEMMA LookPlace ==
    ASSUME ListInv, HookTypes, NEW t \in Threads, ~Ended(t)
    PROVE  /\ place[t] \in Heap /\ place[t] < path_list_pos /\ StrLen(place[t]) \in Nat
           /\ After(place[t]) \in Heap /\ After(place[t]) <= path_list_pos
           /\ After(After(place[t])) \in Nat /\ After(After(place[t])) <= path_list_pos + 1
  <1>1. place[t] \in Nat /\ HeapSize \in Nat /\ path_list_pos \in Heap
    BY PathAssumption DEF HookTypes, ListInv
  <1>2. place[t] \in Heap /\ path_list[place[t]] # NUL
    BY <1>1 DEF Ended, Heap
  <1>3. place[t] < path_list_pos
    BY <1>1, <1>2 DEF ListInv, Heap
  <1>4. StrLen(place[t]) \in Nat /\ After(place[t]) <= path_list_pos
    BY <1>2, <1>3, StrFacts
  <1>5. After(place[t]) \in Heap
    BY <1>1, <1>2, <1>4 DEF After, Heap
  <1>6. /\ StrLen(After(place[t])) \in Nat
        /\ After(place[t]) >= path_list_pos => StrLen(After(place[t])) = 0
        /\ After(place[t]) < path_list_pos => After(After(place[t])) <= path_list_pos
    BY <1>5, StrFacts
  <1>7. After(After(place[t])) = After(place[t]) + StrLen(After(place[t])) + 1
    BY DEF After
  <1>8. PICK q \in Heap : q = After(place[t])
    BY <1>5
  <1> QED
    BY <1>1, <1>2, <1>3, <1>4, <1>6, <1>7, <1>8 DEF Heap

LEMMA StrSame ==
    ASSUME UNCHANGED listVars
    PROVE  /\ \A pos : StrLen(pos)' = StrLen(pos) /\ After(pos)' = After(pos)
           /\ path_list' = path_list /\ path_list_pos' = path_list_pos /\ assigned' = assigned
  BY DEF listVars, StrLen, After

LEMMA ThreadFrame ==
    ASSUME UNCHANGED listVars, NEW u \in Threads, ThreadInv(u),
           at'[u] = at[u], hooked_path'[u] = hooked_path[u], rest'[u] = rest[u],
           place'[u] = place[u], path'[u] = path[u], t_pc'[u] = t_pc[u]
    PROVE  ThreadInv(u)'
  <1>1. /\ \A pos : StrLen(pos)' = StrLen(pos)
        /\ path_list_pos' = path_list_pos
    BY StrSame
  <1> QED
    BY <1>1 DEF ThreadInv, Within

(* What a step of t may change.                                            *)
Touches(t) ==
    \A u \in Threads \ {t} :
       /\ at'[u] = at[u] /\ hooked_path'[u] = hooked_path[u] /\ rest'[u] = rest[u]
       /\ place'[u] = place[u] /\ path'[u] = path[u] /\ t_pc'[u] = t_pc[u]

LEMMA PathTouches ==
    ASSUME HookTypes, NEW t \in Threads, PathStep(t)
    PROVE  Touches(t) /\ UNCHANGED listVars /\ UNCHANGED order
  BY DEF HookTypes, Touches, PathStep, OpenPath, KeepPath, NextPair, TakePath, SaveRest, EndSave,
         AppendRest, EndAppend, Goto

LEMMA PathTypes ==
    ASSUME ListInv, HookInv, NEW t \in Threads, PathStep(t)
    PROVE  HookTypes'
  <1> USE DEF HookTypes, Goto
  <1>0. HookTypes /\ ThreadInv(t) /\ at[t] \in Cells /\ BufSize \in Nat \ {0}
    BY AtInCells, PathAssumption DEF HookInv
  <1>1. ASSUME NEW p \in GamePaths, OpenPath(t, p) PROVE HookTypes'
    BY <1>0, <1>1, PathAssumption DEF OpenPath
  <1>2. CASE KeepPath(t)
    BY <1>0, <1>2 DEF KeepPath
  <1>3. CASE NextPair(t)
    BY <1>0, <1>3, LookPlace DEF NextPair
  <1>4. CASE TakePath(t)
    <2>1. ~Ended(t)
      BY <1>4 DEF TakePath
    <2>2. Str(After(place[t])) \in Seq(Tokens) /\ StrLen(place[t]) \in Nat
      BY <1>0, <2>1, LookPlace, StrFacts
    <2>3. PICK junk \in Stack :
            rest' = [rest EXCEPT ![t] = IF Len(path[t]) < StrLen(place[t]) THEN junk
                                        ELSE SubSeq(path[t], StrLen(place[t]) + 1, Len(path[t]))]
      BY <1>4 DEF TakePath
    <2>4. (IF Len(path[t]) < StrLen(place[t]) THEN junk
           ELSE SubSeq(path[t], StrLen(place[t]) + 1, Len(path[t]))) \in Seq(Tokens)
      <3>1. junk \in Seq(Tokens) /\ path[t] \in Seq(Tokens)
        BY <1>0, PathAssumption
      <3>2. SubSeq(path[t], StrLen(place[t]) + 1, Len(path[t])) \in Seq(Tokens)
        BY <2>2, <3>1, SubSeqProperties
      <3> QED
        BY <3>1, <3>2
    <2>5. rest' \in [Threads -> Seq(Tokens)]
      BY <1>0, <2>3, <2>4
    <2> QED
      BY <1>0, <1>4, <2>2, <2>5 DEF TakePath
  <1>5. CASE SaveRest(t)
    <2>1. rest[t][at[t] + 1] \in Tokens
      BY <1>0, <1>5 DEF SaveRest
    <2> QED
      BY <1>0, <1>5, <2>1 DEF SaveRest
  <1>6. CASE EndSave(t)
    BY <1>0, <1>6 DEF EndSave
  <1>7. CASE AppendRest(t)
    <2>1. rep_buf[at[t]] \in Tokens
      BY <1>0, <1>7 DEF AppendRest
    <2>2. Append(hooked_path[t], rep_buf[at[t]]) \in Seq(Tokens)
      BY <1>0, <2>1
    <2> QED
      BY <1>0, <1>7, <2>2 DEF AppendRest
  <1>8. CASE EndAppend(t)
    BY <1>0, <1>8 DEF EndAppend
  <1> QED
    BY <1>1, <1>2, <1>3, <1>4, <1>5, <1>6, <1>7, <1>8 DEF PathStep

LEMMA PathRep ==
    ASSUME HookInv, NEW t \in Threads, PathStep(t)
    PROVE  RepInv'
  <1>1. HookTypes /\ RepInv /\ ThreadInv(t) /\ at[t] \in Cells
    BY AtInCells DEF HookInv
  <1>2. CASE SaveRest(t)
    <2>1. at[t] + 1 <= Len(rest[t]) /\ Within(Len(rest[t])) /\ Len(rest[t]) \in Nat /\ at[t] \in Nat
      BY <1>1, <1>2 DEF HookTypes, ThreadInv, SaveRest
    <2>2. Within(at[t] + 1)
      <3>1. PICK p \in Texts : Len(rest[t]) <= Len(p) /\ Len(p) \in Nat
        BY <2>1, PathAssumption DEF Within, Texts
      <3>2. at[t] + 1 <= Len(p)
        BY <2>1, <3>1
      <3> QED
        BY <3>2 DEF Within
    <2>3. \A i \in Cells : i # at[t] => rep_buf'[i] = rep_buf[i]
      BY <1>1, <1>2 DEF SaveRest, HookTypes
    <2> QED
      BY <1>1, <2>2, <2>3 DEF RepInv, Within
  <1>3. CASE EndSave(t)
    <2>1. \A i \in Cells : rep_buf'[i] = IF i = at[t] THEN NUL ELSE rep_buf[i]
      BY <1>1, <1>3 DEF EndSave, HookTypes
    <2> QED
      BY <1>1, <2>1 DEF RepInv, Within
  <1>4. CASE UNCHANGED rep_buf
    BY <1>1, <1>4 DEF RepInv, Within
  <1> QED
    BY <1>2, <1>3, <1>4 DEF PathStep, OpenPath, KeepPath, NextPair, TakePath, AppendRest, EndAppend

(* The buffer of t, if it takes every text with every string of the list.  *)
LEMMA PathThread ==
    ASSUME ListInv, HookInv, Fit, NEW t \in Threads, PathStep(t)
    PROVE  ThreadInv(t)'
  <1>1. /\ HookTypes /\ HookTypes' /\ RepInv /\ ThreadInv(t) /\ at[t] \in Cells /\ at[t] \in Nat
        /\ BufSize \in Nat \ {0}
    BY AtInCells, PathTypes, PathAssumption DEF HookInv, Cells
  <1>2. /\ \A pos : StrLen(pos)' = StrLen(pos)
        /\ path_list_pos' = path_list_pos /\ path_list_pos \in Nat
    BY PathTouches, StrSame DEF ListInv, Heap, HookInv
  <1>3. \A n : Within(n)' = Within(n)
    BY DEF Within
  <1>4. \A p \in Texts : p \in Seq(Tokens) /\ Len(p) \in Nat /\ Len(p) < BufSize
    BY PathAssumption DEF Texts
  <1>5. GamePaths \subseteq Texts /\ Stack \subseteq Texts
    BY DEF Texts
  <1>6. ASSUME NEW p \in GamePaths, OpenPath(t, p) PROVE ThreadInv(t)'
    BY <1>1, <1>2, <1>3, <1>6 DEF OpenPath, Goto, HookTypes, ThreadInv
  <1>7. CASE KeepPath(t)
    <2>1. Len(path[t]) < BufSize
      BY <1>1, <1>4, <1>5, <1>7 DEF KeepPath, Goto, ThreadInv
    <2> QED
      BY <1>1, <1>2, <1>3, <1>7, <2>1 DEF KeepPath, Goto, HookTypes, ThreadInv
  <1>8. CASE NextPair(t)
    <2>1. After(After(place[t])) <= path_list_pos + 1
      BY <1>1, <1>8, LookPlace DEF NextPair
    <2> QED
      BY <1>1, <1>2, <1>3, <1>8, <2>1 DEF NextPair, HookTypes, ThreadInv
  <1>9. CASE TakePath(t)
    <2>1. ~Ended(t) /\ path[t] \in GamePaths /\ t_pc[t] = "look"
      BY <1>1, <1>9 DEF TakePath, Goto, ThreadInv
    <2>2. After(place[t]) \in Heap /\ StrLen(place[t]) \in Nat
      BY <1>1, <2>1, LookPlace
    <2>3. /\ Len(Str(After(place[t]))) = StrLen(After(place[t])) /\ StrLen(After(place[t])) \in Nat
      BY <2>2, StrFacts
    <2>4. StrLen(After(place[t])) < BufSize
      <3>1. path[t] \in Texts /\ Len(path[t]) \in Nat
        BY <1>4, <1>5, <2>1
      <3>2. StrLen(After(place[t])) + Len(path[t]) + 1 < BufSize
        BY <2>2, <3>1 DEF Fit
      <3> QED
        BY <1>1, <2>3, <3>1, <3>2
    <2>5. Within(Len(rest'[t]))
      <3>1. PICK junk \in Stack :
              rest'[t] = IF Len(path[t]) < StrLen(place[t]) THEN junk
                         ELSE SubSeq(path[t], StrLen(place[t]) + 1, Len(path[t]))
        BY <1>1, <1>9 DEF TakePath, HookTypes
      <3>2. CASE Len(path[t]) < StrLen(place[t])
        <4>1. rest'[t] \in Texts /\ Len(rest'[t]) <= Len(rest'[t])
          BY <1>4, <1>5, <3>1, <3>2
        <4> QED
          BY <4>1 DEF Within
      <3>3. CASE ~(Len(path[t]) < StrLen(place[t]))
        <4>1. path[t] \in Seq(Tokens) /\ path[t] \in Texts /\ Len(path[t]) \in Nat
          BY <1>4, <1>5, <2>1
        <4>2. Len(SubSeq(path[t], StrLen(place[t]) + 1, Len(path[t]))) <= Len(path[t])
          <5>1. \A i \in (StrLen(place[t]) + 1)..Len(path[t]) : path[t][i] \in Tokens
            BY <2>2, <4>1
          <5>2. Len(SubSeq(path[t], StrLen(place[t]) + 1, Len(path[t])))
                  = IF StrLen(place[t]) + 1 <= Len(path[t])
                    THEN Len(path[t]) - (StrLen(place[t]) + 1) + 1 ELSE 0
            BY <2>2, <4>1, <5>1, SubSeqProperties
          <5> QED
            BY <2>2, <4>1, <5>2
        <4> QED
          BY <3>1, <3>3, <4>1, <4>2 DEF Within
      <3> QED
        BY <3>2, <3>3
    <2>6. hooked_path'[t] = Str(After(place[t])) /\ at'[t] = 0 /\ t_pc'[t] = "save"
          /\ place' = place /\ path' = path
      BY <1>1, <1>9 DEF TakePath, Goto, HookTypes
    <2>7. place[t] <= path_list_pos + 1 /\ Len(rest'[t]) \in Nat
      BY <1>1, <2>1 DEF ThreadInv, HookTypes
    <2> QED
      BY <1>1, <1>2, <1>3, <2>1, <2>2, <2>3, <2>4, <2>5, <2>6, <2>7 DEF ThreadInv
  <1>10. CASE SaveRest(t)
    <2>1. /\ t_pc' = t_pc /\ t_pc[t] = "save" /\ at'[t] = at[t] + 1 /\ rest' = rest
          /\ hooked_path' = hooked_path /\ path' = path /\ place' = place
          /\ at[t] + 1 <= Len(rest[t]) /\ Len(rest[t]) \in Nat
      BY <1>1, <1>10 DEF SaveRest, HookTypes
    <2>2. Within(at[t] + 1)
      <3>1. PICK p \in Texts : Len(rest[t]) <= Len(p) /\ Len(p) \in Nat
        BY <1>1, <1>4, <2>1 DEF ThreadInv, Within
      <3>2. at[t] + 1 <= Len(p)
        BY <1>1, <2>1, <3>1
      <3> QED
        BY <3>2 DEF Within
    <2> QED
      BY <1>1, <1>2, <1>3, <2>1, <2>2 DEF ThreadInv
  <1>11. CASE EndSave(t)
    <2>1. /\ t_pc'[t] = "append" /\ t_pc[t] = "save" /\ at'[t] = 0 /\ rest' = rest
          /\ hooked_path' = hooked_path /\ path' = path /\ place' = place
      BY <1>1, <1>11 DEF EndSave, Goto, HookTypes
    <2>2. PICK pos \in Heap : Len(hooked_path[t]) = StrLen(pos) + 0
      BY <1>1, <2>1 DEF ThreadInv
    <2>3. path[t] \in Texts /\ Len(path[t]) \in Nat
      BY <1>1, <1>4, <1>5, <2>1 DEF ThreadInv
    <2>4. StrLen(pos) + Len(path[t]) + 1 < BufSize /\ StrLen(pos) \in Nat
      BY <2>3, StrFacts DEF Fit
    <2>5. Len(hooked_path'[t]) = StrLen(pos) + at'[t] /\ Len(hooked_path'[t]) + 1 < BufSize
      BY <1>1, <2>1, <2>2, <2>3, <2>4
    <2> QED
      BY <1>1, <1>2, <1>3, <2>1, <2>5 DEF ThreadInv
  <1>12. CASE AppendRest(t)
    <2>1. /\ t_pc' = t_pc /\ t_pc[t] = "append" /\ at'[t] = at[t] + 1 /\ rest' = rest
          /\ path' = path /\ place' = place /\ rep_buf[at[t]] \in Tokens
          /\ hooked_path'[t] = Append(hooked_path[t], rep_buf[at[t]])
      BY <1>1, <1>12 DEF AppendRest, HookTypes
    <2>2. Within(at[t] + 1)
      BY <1>1, <1>12 DEF RepInv, AppendRest
    <2>3. Len(hooked_path'[t]) = Len(hooked_path[t]) + 1
      BY <1>1, <2>1 DEF HookTypes
    <2>4. PICK pos \in Heap : Len(hooked_path[t]) = StrLen(pos) + at[t]
      BY <1>1, <2>1 DEF ThreadInv
    <2>5. PICK p \in Texts : at[t] + 1 <= Len(p)
      BY <2>2 DEF Within
    <2>6. StrLen(pos) + Len(p) + 1 < BufSize /\ StrLen(pos) \in Nat /\ Len(p) \in Nat
      BY <1>4, StrFacts DEF Fit
    <2>7. Len(hooked_path'[t]) = StrLen(pos) + at'[t] /\ Len(hooked_path'[t]) + 1 < BufSize
      <3>1. \A n, m, k, b \in Nat : n + 1 <= m /\ k + m + 1 < b => (k + n) + 1 = k + (n + 1) /\ (k + n) + 2 < b
        OBVIOUS
      <3>2. at[t] \in Nat /\ BufSize \in Nat
        BY <1>1
      <3>3. (StrLen(pos) + at[t]) + 1 = StrLen(pos) + (at[t] + 1) /\ (StrLen(pos) + at[t]) + 2 < BufSize
        BY <2>5, <2>6, <3>1, <3>2
      <3>4. at'[t] = at[t] + 1 /\ Len(hooked_path'[t]) = (StrLen(pos) + at[t]) + 1
        BY <2>1, <2>3, <2>4
      <3> QED
        BY <2>6, <3>2, <3>3, <3>4
    <2> QED
      BY <1>1, <1>2, <1>3, <2>1, <2>2, <2>7 DEF ThreadInv
  <1>13. CASE EndAppend(t)
    <2>1. /\ t_pc'[t] = "done" /\ t_pc[t] = "append" /\ at'[t] = Len(hooked_path[t]) + 1
          /\ rest' = rest /\ hooked_path' = hooked_path /\ path' = path /\ place' = place
      BY <1>1, <1>13 DEF EndAppend, Goto, HookTypes
    <2>2. Len(hooked_path[t]) + 1 < BufSize /\ Len(hooked_path[t]) \in Nat
      BY <1>1, <2>1 DEF ThreadInv, HookTypes
    <2> QED
      BY <1>1, <1>2, <1>3, <2>1, <2>2 DEF ThreadInv
  <1> QED
    BY <1>6, <1>7, <1>8, <1>9, <1>10, <1>11, <1>12, <1>13 DEF PathStep

LEMMA HookLoadStep ==
    ASSUME LoadInv, listInvs, HookInv, LoadStep
    PROVE  HookInv'
  <1>1. UNCHANGED hookVars /\ cfg_pc # "run" /\ (cfg_pc' = "run" => TRUE)
    BY DEF LoadStep, LoadFile, NoFile, EndLoad, Main, Drop, Configure, SetPath, ConfigPath,
           AssignPath, Nid, KPatch, NextLine
  <1>2. \A t \in Threads : t_pc'[t] = "idle"
    BY <1>1 DEF HookInv, IdleInv, hookVars
  <1>3. HookTypes' /\ RepInv'
    BY <1>1 DEF HookInv, HookTypes, RepInv, Within, hookVars
  <1>4. ASSUME NEW t \in Threads PROVE ThreadInv(t)'
    BY <1>1, <1>2 DEF HookInv, ThreadInv, Within, hookVars
  <1> QED
    BY <1>2, <1>3, <1>4 DEF HookInv, IdleInv

LEMMA HookGameStep ==
    ASSUME LoadInv, listInvs, HookInv, Fit, GameStep
    PROVE  LoadInv' /\ listInvs' /\ HookInv'
  <1>1. PICK t \in Threads : PathStep(t)
    BY DEF GameStep
  <1>2. ListInv /\ HookTypes /\ UNCHANGED configVars /\ files' = files
    BY DEF listInvs, HookInv, GameStep
  <1>3. Touches(t) /\ UNCHANGED listVars
    BY <1>1, <1>2, PathTouches
  <1>4. LoadInv' /\ listInvs'
    BY <1>2, <1>3, ListStays DEF LoadInv, BootInv, configVars
  <1>5. HookTypes' /\ RepInv' /\ ThreadInv(t)'
    BY <1>1, <1>2, PathTypes, PathRep, PathThread
  <1>6. ASSUME NEW u \in Threads, u # t PROVE ThreadInv(u)'
    BY <1>3, <1>6, ThreadFrame DEF HookInv, Touches
  <1>7. IdleInv'
    BY DEF GameStep, IdleInv, configVars
  <1> QED
    BY <1>4, <1>5, <1>6, <1>7 DEF HookInv

TypeInv == LoadInv /\ listInvs /\ HookInv

LEMMA InitType == Init => TypeInv
  <1> SUFFICES ASSUME Init PROVE TypeInv
    OBVIOUS
  <1>1. HeapSize \in Nat \ {0, 1} /\ BufSize \in Nat \ {0}
    BY PathAssumption
  <1>2. PathInit
    BY DEF Init
  <1>3. ListInv
    BY <1>1, <1>2 DEF PathInit, ListInv, Heap
  <1>4. AssignedInv
    <2>1. assigned = <<>> /\ Len(assigned) = 0 /\ path_list_pos = 0
      BY <1>2 DEF PathInit
    <2>2. PlaceOf(1) = 0
      BY <2>1 DEF PlaceOf
    <2>3. \A i, j \in 1..(Len(assigned) + 1) : i = 1 /\ j = 1
      BY <2>1
    <2>4. assigned \in Seq(Assignment) /\ 1..Len(assigned) = {}
      BY <2>1
    <2> QED
      BY <2>2, <2>3, <2>4 DEF AssignedInv
  <1>5. LoadInv
    <2>1. NoConfig \in Settings
      BY DEF NoConfig, Settings, Byte, Halfword
    <2> QED
      BY <2>1 DEF Init, LoadInv, BootInv
  <1>6. HookTypes
    BY <1>1, <1>2 DEF PathInit, HookTypes, Cells
  <1>7. RepInv /\ IdleInv
    BY <1>1, <1>2 DEF PathInit, RepInv, IdleInv, Cells
  <1>8. ASSUME NEW t \in Threads PROVE ThreadInv(t)
    BY <1>1, <1>2 DEF PathInit, ThreadInv
  <1> QED
    BY <1>3, <1>4, <1>5, <1>6, <1>7, <1>8 DEF TypeInv, listInvs, HookInv

LEMMA TypeStep == ASSUME TypeInv, Fit, [Next]_vars PROVE TypeInv'
  <1>1. CASE LoadStep
    BY <1>1, LoadStepInv, HookLoadStep DEF TypeInv
  <1>2. CASE GameStep
    BY <1>2, HookGameStep DEF TypeInv
  <1>3. CASE UNCHANGED vars
    <2>1. UNCHANGED listVars /\ UNCHANGED hookVars /\ UNCHANGED configVars /\ files' = files
      BY <1>3 DEF vars
    <2>2. listInvs' /\ LoadInv'
      BY <2>1, ListStays DEF TypeInv, LoadInv, BootInv, configVars
    <2>3. HookTypes' /\ RepInv' /\ IdleInv'
      BY <2>1 DEF TypeInv, HookInv, HookTypes, RepInv, Within, IdleInv, hookVars, configVars
    <2>4. ASSUME NEW u \in Threads PROVE ThreadInv(u)'
      BY <2>1, ThreadFrame DEF TypeInv, HookInv, hookVars
    <2> QED
      BY <2>2, <2>3, <2>4 DEF TypeInv, HookInv
  <1> QED
    BY <1>1, <1>2, <1>3 DEF Next

LEMMA TypeInvOK == TypeInv => TypeOK
  <1> SUFFICES ASSUME TypeInv PROVE TypeOK
    OBVIOUS
  <1>1. LoadInv /\ ListInv /\ HookInv
    BY DEF TypeInv, listInvs
  <1>2. /\ path_list_pos \in 0..(HeapSize - 1) /\ path_list[path_list_pos] = NUL
        /\ DOMAIN path_list = 0..(HeapSize - 1) /\ DOMAIN rep_buf = 0..(BufSize - 1)
    <2>1. path_list_pos \in Heap /\ path_list_pos >= path_list_pos
      BY <1>1, PathAssumption DEF ListInv, Heap
    <2> QED
      BY <1>1, <2>1 DEF ListInv, HookInv, HookTypes, Heap, Cells
  <1>3. \A t \in Threads : at[t] \in 0..(BufSize - 1) /\ Len(hooked_path[t]) < BufSize
    BY <1>1, AtInCells DEF HookInv, ThreadInv, Cells
  <1>4. NumbersOK
    BY <1>1 DEF NumbersOK, LoadInv, Settings, Byte, Halfword
  <1>5. /\ func_hook_type \in [Nids -> {"N", "M", "S"}]
        /\ psp_boot_path \in {BootPath, <<Head(BootPath)>>}
        /\ cfg_pc \in {"next_file", "line", "loaded", "run", "exit"}
    BY <1>1 DEF LoadInv, BootInv
  <1> QED
    BY <1>2, <1>3, <1>4, <1>5 DEF TypeOK

(* The list ends within its heap, whatever the files say, and if no string *)
(* of it is too long for a path buffer with a path of the game or what is  *)
(* behind one, then neither strcpy nor sprintf leaves rep_buf or the       *)
(* buffer of a path, in whatever order the threads take their steps        *)
(* (add_path_list, makePath, str_rep).                                     *)
THEOREM TypesOfConfig == Spec /\ []Fit => []TypeOK
  <1>1. TypeInv /\ Fit /\ [Next]_vars => TypeInv'
    BY TypeStep
  <1>2. TypeInv => TypeOK
    BY TypeInvOK
  <1> QED
    BY InitType, <1>1, <1>2, PTL DEF Spec

-----------------------------------------------------------------------------
(* The last line wins.                                                     *)
HookLines(n) == {k \in Lines("NID") : str2hex(Arg(k, 2)) \in {n, AllNids}}
VectorLines ==
    {k \in Lines("SYSCALL_VECTOR") :
        Len(lines[k].args) > 2 => str2hex(Arg(k, 3)) = psp_devkit_ver}
NextLines(f) == {k \in Lines("CONFIG_PATH") : lines[k].file = f}

ModesInv ==
    \A n \in Nids :
       func_hook_type[n] = IF HookLines(n) = {} THEN "N"
                           ELSE IF Len(lines[LastOf(HookLines(n))].args) = 2 THEN "M"
                           ELSE Arg(LastOf(HookLines(n)), 3)[1]

VectorInv == cfg.sysvec = IF VectorLines = {} THEN 0 ELSE str2hex(Arg(LastOf(VectorLines), 2))

(* The name in config_path is that of the last line, which is a file's or  *)
(* none that there is.                                                     *)
ChainInv ==
    /\ \A k \in DOMAIN lines : lines[k].file \in 1..Len(loads)
    /\ cfg_pc = "line" => Len(loads) > 0
    /\ cfg_pc = "loaded" => config_path = <<>>
    /\ \A f \in 1..(Len(loads) - 1) :
          /\ NextLines(f) # {}
          /\ Last(loads[f + 1]) = Last(Arg(LastOf(NextLines(f)), 2))
    /\ Len(loads) > 0 =>
          IF NextLines(Len(loads)) = {} THEN config_path = <<>>
          ELSE /\ config_path # <<>>
               /\ config_path \in DOMAIN files =>
                     Last(config_path) = Last(Arg(LastOf(NextLines(Len(loads))), 2))

TargetInv ==
    /\ Rooted = {} => psp_boot_path = BootPath
    /\ Lines("TARGET_PATH") = {} \/
          LET k == LastOf(Lines("TARGET_PATH"))
          IN (\A j \in Rooted : j >= k) /\ Relative(Arg(k, 2)) => IsPrefix(BootPath, cfg.target)

LinesInv ==
    cfg_pc \in {"next_file", "line", "loaded"} => ModesInv /\ VectorInv /\ ChainInv /\ TargetInv

LEMMA OneName == \A args, a, b : Is(args, a) /\ Is(args, b) => a = b
  BY DEF Is

(* What the line with these arguments adds to the n before it. *)
Grown(n, args) ==
    /\ n = Len(lines) /\ DOMAIN lines = 1..n /\ DOMAIN lines' = 1..(n + 1)
    /\ \A k \in 1..n : lines'[k] = lines[k]
    /\ \A k \in 1..n : \A m : Arg(k, m)' = Arg(k, m)
    /\ lines'[n + 1].args = args /\ lines'[n + 1].file = Len(loads)
    /\ \A m : Arg(n + 1, m)' = args[m]
    /\ \A name : Lines(name)' = Lines(name) \cup
                     (IF ~Dropped(args) /\ Is(args, name) THEN {n + 1} ELSE {})
    /\ \A name : Lines(name) \subseteq 1..n

LEMMA LinesGrow ==
    ASSUME LoadInv, NEW args \in Arguments, NextLine(args)
    PROVE  \E n \in Nat : Grown(n, args)
  <1>1. PICK n : n = Len(lines)
    OBVIOUS
  <1>2. PICK r : r = [args |-> args, file |-> Len(loads)]
    OBVIOUS
  <1>3. r.args = args /\ r.file = Len(loads) /\ r \in [args : Arguments, file : Nat]
    BY <1>2 DEF LoadInv
  <1>4. lines' = Append(lines, r) /\ lines \in Seq([args : Arguments, file : Nat])
    BY <1>2 DEF NextLine, LoadInv
  <1>5. /\ n \in Nat /\ DOMAIN lines = 1..n /\ Len(lines') = n + 1 /\ DOMAIN lines' = 1..(n + 1)
        /\ \A k \in 1..n : lines'[k] = lines[k]
        /\ lines'[n + 1] = r
    BY <1>1, <1>3, <1>4
  <1>6. /\ \A k \in 1..n : \A m : Arg(k, m)' = Arg(k, m)
        /\ \A m : Arg(n + 1, m)' = args[m]
    BY <1>3, <1>5 DEF Arg
  <1>7. ASSUME NEW name
        PROVE  Lines(name)' = Lines(name) \cup
                  (IF ~Dropped(args) /\ Is(args, name) THEN {n + 1} ELSE {})
    <2>1. Lines(name)' = {k \in 1..(n + 1) : ~Dropped(lines'[k].args) /\ Is(lines'[k].args, name)}
      BY <1>5 DEF Lines
    <2>2. Lines(name) = {k \in 1..n : ~Dropped(lines[k].args) /\ Is(lines[k].args, name)}
      BY <1>5 DEF Lines
    <2>3. \A k : k \in 1..(n + 1) <=> k \in 1..n \/ k = n + 1
      BY <1>5
    <2>4. n + 1 \notin 1..n
      BY <1>5
    <2> QED
      BY <1>3, <1>5, <2>1, <2>2, <2>3, <2>4
  <1>8. \A name : Lines(name) \subseteq 1..n
    BY <1>5 DEF Lines
  <1>9. n \in Nat /\ Grown(n, args)
    BY <1>1, <1>3, <1>5, <1>6, <1>7, <1>8, Zenon DEF Grown
  <1> QED
    BY <1>9, Zenon

(* LastOf of a set of lines to which this line is added, or not.           *)
LEMMA LastStays ==
    ASSUME NEW n \in Nat, NEW S, S \subseteq 1..n
    PROVE  /\ LastOf(S \cup {n + 1}) = n + 1
           /\ S # {} => LastOf(S) \in S
  <1>1. S \subseteq Nat /\ \A j \in S : j < n + 1 /\ j <= n
    OBVIOUS
  <1>2. n + 1 \in Nat
    OBVIOUS
  <1> QED
    BY <1>1, <1>2, LastOfGrown, LastOfIn, Zenon

LineAction(args) ==
    \/ Drop(args) \/ Configure(args) \/ SetPath(args) \/ ConfigPath(args)
    \/ AssignPath(args) \/ Nid(args) \/ KPatch(args)

(* A line counts as one of the section whose action it takes, and as no other. *)
LEMMA Section ==
    ASSUME NEW args \in Arguments, LineAction(args)
    PROVE  /\ NextLine(args)
           /\ Drop(args) => Dropped(args)
           /\ ~Dropped(args) =>
                 /\ Is(args, "NID") => Nid(args)
                 /\ Is(args, "SYSCALL_VECTOR") => Configure(args)
                 /\ Is(args, "CONFIG_PATH") => ConfigPath(args)
                 /\ Is(args, "ASSIGN_PATH") => AssignPath(args)
                 /\ Is(args, "TARGET_PATH") \/ Is(args, "PATCH_PATH") => SetPath(args)
           /\ Nid(args) => Is(args, "NID") /\ ~Dropped(args)
           /\ ConfigPath(args) => Is(args, "CONFIG_PATH") /\ ~Dropped(args)
           /\ AssignPath(args) => Is(args, "ASSIGN_PATH") /\ ~Dropped(args)
           /\ SetPath(args) => (Is(args, "TARGET_PATH") \/ Is(args, "PATCH_PATH")) /\ ~Dropped(args)
           /\ Configure(args) => ~Dropped(args) /\ ~Is(args, "NID") /\ ~Is(args, "CONFIG_PATH")
                                 /\ ~Is(args, "ASSIGN_PATH") /\ ~Is(args, "TARGET_PATH")
                                 /\ ~Is(args, "PATCH_PATH")
           /\ KPatch(args) => Is(args, "KPATCH")
  <1> DEFINE named == {"TITLE", "UMD_EMU", "LOG_DEVICE", "SYSCALL_VECTOR", "DEVKIT_VER",
                       "KERNEL_VER", "IMPORT_VER", "WAIT_RUN"}
  <1>1. named \subseteq DOMAIN Parameters
    BY ParametersOf
  <1>2. Drop(args) => Dropped(args)
    BY DEF Drop
  <1>3. Nid(args) => Is(args, "NID") /\ ~Dropped(args)
    BY DEF Nid
  <1>4. ASSUME NEW name \in DOMAIN Parameters, name # "NID", Is(args, name) PROVE ~Dropped(args)
    <2>1. ~Is(args, "NID")
      BY <1>4, OneName
    <2> QED
      BY <1>4, <2>1 DEF Dropped
  <1>5. ConfigPath(args) => Is(args, "CONFIG_PATH") /\ ~Dropped(args)
    BY <1>4, ParametersOf DEF ConfigPath
  <1>6. AssignPath(args) => Is(args, "ASSIGN_PATH") /\ ~Dropped(args)
    BY <1>4, ParametersOf DEF AssignPath
  <1>7. SetPath(args) => (Is(args, "TARGET_PATH") \/ Is(args, "PATCH_PATH")) /\ ~Dropped(args)
    <2>1. SetPath(args) => Is(args, "TARGET_PATH") \/ Is(args, "PATCH_PATH")
      BY ParametersOf DEF SetPath, Is
    <2> QED
      BY <1>4, <2>1, ParametersOf
  <1>8. Configure(args) => ~Dropped(args) /\ \E name \in named : Is(args, name)
    BY <1>1, <1>4 DEF Configure
  <1>9. KPatch(args) => Is(args, "KPATCH")
    BY DEF KPatch
  <1>10. Configure(args) => /\ ~Is(args, "NID") /\ ~Is(args, "CONFIG_PATH") /\ ~Is(args, "ASSIGN_PATH")
                            /\ ~Is(args, "TARGET_PATH") /\ ~Is(args, "PATCH_PATH")
    BY <1>8, OneName
  <1>11. NextLine(args)
    BY DEF LineAction, Drop, Configure, SetPath, ConfigPath, AssignPath, Nid, KPatch
  <1>12. /\ Nid(args) \/ KPatch(args) \/ AssignPath(args) \/ SetPath(args) \/ ConfigPath(args)
            \/ Configure(args) \/ Dropped(args)
    BY <1>2 DEF LineAction
  <1>13. SetPath(args) => ~Is(args, "NID") /\ ~Is(args, "CONFIG_PATH") /\ ~Is(args, "ASSIGN_PATH")
                          /\ ~Is(args, "SYSCALL_VECTOR")
    BY <1>7, OneName
  <1>14. /\ Nid(args) => \A name : Is(args, name) => name = "NID"
         /\ KPatch(args) => \A name : Is(args, name) => name = "KPATCH"
         /\ AssignPath(args) => \A name : Is(args, name) => name = "ASSIGN_PATH"
         /\ ConfigPath(args) => \A name : Is(args, name) => name = "CONFIG_PATH"
    BY <1>3, <1>5, <1>6, <1>9, OneName
  <1> QED
    BY <1>2, <1>3, <1>5, <1>6, <1>7, <1>8, <1>9, <1>10, <1>11, <1>12, <1>13, <1>14

LEMMA ModesLine ==
    ASSUME LoadInv, ModesInv, NEW args \in Arguments, LineAction(args)
    PROVE  ModesInv'
  <1>0. PICK n \in Nat : Grown(n, args)
    BY Section, LinesGrow
  <1>1. /\ n = Len(lines) /\ DOMAIN lines = 1..n /\ DOMAIN lines' = 1..(n + 1)
        /\ \A k \in 1..n : lines'[k] = lines[k]
        /\ \A k \in 1..n : \A m : Arg(k, m)' = Arg(k, m)
        /\ lines'[n + 1].args = args
        /\ \A m : Arg(n + 1, m)' = args[m]
        /\ \A name : Lines(name)' = Lines(name) \cup
                        (IF ~Dropped(args) /\ Is(args, name) THEN {n + 1} ELSE {})
        /\ \A name : Lines(name) \subseteq 1..n
    BY <1>0 DEF Grown
  <1>2. SUFFICES ASSUME NEW m \in Nids
                 PROVE  func_hook_type'[m] = IF HookLines(m)' = {} THEN "N"
                            ELSE IF Len(lines'[LastOf(HookLines(m)')].args) = 2 THEN "M"
                            ELSE Arg(LastOf(HookLines(m)), 3)'[1]
    BY DEF ModesInv
  <1>3. HookLines(m) \subseteq 1..n /\ n + 1 \notin 1..n
    BY <1>1 DEF HookLines
  <1>4. ASSUME HookLines(m)' = HookLines(m), func_hook_type'[m] = func_hook_type[m]
        PROVE  func_hook_type'[m] = IF HookLines(m)' = {} THEN "N"
                   ELSE IF Len(lines'[LastOf(HookLines(m)')].args) = 2 THEN "M"
                   ELSE Arg(LastOf(HookLines(m)), 3)'[1]
    <2>1. CASE HookLines(m) = {}
      BY <1>4, <2>1 DEF ModesInv
    <2>2. CASE HookLines(m) # {}
      <3>1. PICK k \in 1..n : k = LastOf(HookLines(m))
        BY <1>1, <1>3, <2>2, LastStays
      <3>2. func_hook_type[m] = IF Len(lines[k].args) = 2 THEN "M" ELSE Arg(k, 3)[1]
        BY <2>2, <3>1 DEF ModesInv
      <3>3. lines'[k] = lines[k] /\ Arg(k, 3)' = Arg(k, 3) /\ k = LastOf(HookLines(m)')
        BY <1>1, <1>4, <3>1
      <3>4. Arg(LastOf(HookLines(m)), 3)' = Arg(k, 3)'
        BY <3>3 DEF Arg
      <3> QED
        BY <1>4, <2>2, <3>2, <3>3, <3>4
    <2> QED
      BY <2>1, <2>2
  <1>5. CASE Nid(args)
    <2>1. Lines("NID")' = Lines("NID") \cup {n + 1}
      BY <1>1, <1>5, Section
    <2>2. HookLines(m)' = HookLines(m) \cup
             (IF str2hex(args[2]) \in {m, AllNids} THEN {n + 1} ELSE {})
      <3>1. HookLines(m)' = {k \in Lines("NID")' : str2hex(Arg(k, 2)') \in {m, AllNids}}
        BY DEF HookLines
      <3>2. \A k \in Lines("NID") : Arg(k, 2)' = Arg(k, 2)
        BY <1>1
      <3>3. Arg(n + 1, 2)' = args[2]
        BY <1>1
      <3> QED
        BY <2>1, <3>1, <3>2, <3>3 DEF HookLines
    <2>3. func_hook_type'[m] = IF str2hex(args[2]) \in {m, AllNids}
                               THEN IF Len(args) = 2 THEN "M" ELSE Head(args[3])
                               ELSE func_hook_type[m]
      BY <1>5 DEF Nid, set_hook_type
    <2>4. CASE str2hex(args[2]) \in {m, AllNids}
      <3>1. LastOf(HookLines(m)') = n + 1 /\ HookLines(m)' # {}
        BY <1>1, <1>3, <2>2, <2>4, LastStays
      <3>2. Arg(LastOf(HookLines(m)), 3)' = args[3] /\ lines'[LastOf(HookLines(m)')].args = args
        BY <1>1, <3>1 DEF Arg
      <3>3. Head(args[3]) = args[3][1]
        OBVIOUS
      <3> QED
        BY <2>3, <2>4, <3>1, <3>2, <3>3
    <2>5. CASE str2hex(args[2]) \notin {m, AllNids}
      BY <1>4, <2>2, <2>3, <2>5
    <2> QED
      BY <2>4, <2>5
  <1>6. CASE ~Nid(args)
    <2>1. Lines("NID")' = Lines("NID") /\ func_hook_type' = func_hook_type
      <3>1. Dropped(args) \/ ~Is(args, "NID")
        BY <1>6, Section
      <3>2. Lines("NID")' = Lines("NID")
        BY <1>1, <3>1
      <3>3. func_hook_type' = func_hook_type
        BY <1>6 DEF LineAction, Drop, Configure, SetPath, ConfigPath, AssignPath, KPatch
      <3> QED
        BY <3>2, <3>3
    <2>2. HookLines(m)' = HookLines(m)
      <3>1. HookLines(m)' = {k \in Lines("NID")' : str2hex(Arg(k, 2)') \in {m, AllNids}}
        BY DEF HookLines
      <3>2. \A k \in Lines("NID") : Arg(k, 2)' = Arg(k, 2)
        BY <1>1
      <3> QED
        BY <2>1, <3>1, <3>2 DEF HookLines
    <2> QED
      BY <1>4, <2>1, <2>2
  <1> QED
    BY <1>5, <1>6

LEMMA VectorLine ==
    ASSUME LoadInv, VectorInv, NEW args \in Arguments, LineAction(args)
    PROVE  VectorInv'
  <1>0. PICK n \in Nat : Grown(n, args)
    BY Section, LinesGrow
  <1>1. /\ \A k \in 1..n : lines'[k] = lines[k]
        /\ \A k \in 1..n : \A m : Arg(k, m)' = Arg(k, m)
        /\ lines'[n + 1].args = args
        /\ \A m : Arg(n + 1, m)' = args[m]
        /\ \A name : Lines(name)' = Lines(name) \cup
                        (IF ~Dropped(args) /\ Is(args, name) THEN {n + 1} ELSE {})
        /\ \A name : Lines(name) \subseteq 1..n
    BY <1>0 DEF Grown
  <1>2. PICK sets \in BOOLEAN :
           sets = (/\ ~Dropped(args) /\ Is(args, "SYSCALL_VECTOR")
                   /\ Len(args) > 2 => str2hex(args[3]) = psp_devkit_ver)
    OBVIOUS
  <1>3. VectorLines \subseteq 1..n /\ n + 1 \notin 1..n
    BY <1>1 DEF VectorLines
  <1>4. VectorLines' = VectorLines \cup (IF sets THEN {n + 1} ELSE {})
    <2>1. VectorLines' = {k \in Lines("SYSCALL_VECTOR")' :
                             Len(lines'[k].args) > 2 => str2hex(Arg(k, 3)') = psp_devkit_ver}
      BY DEF VectorLines
    <2>2. \A k \in Lines("SYSCALL_VECTOR") : Arg(k, 3)' = Arg(k, 3) /\ lines'[k] = lines[k]
      BY <1>1
    <2>3. Arg(n + 1, 3)' = args[3] /\ lines'[n + 1].args = args
      BY <1>1
    <2>4. Lines("SYSCALL_VECTOR")' = Lines("SYSCALL_VECTOR") \cup
             (IF ~Dropped(args) /\ Is(args, "SYSCALL_VECTOR") THEN {n + 1} ELSE {})
      BY <1>1
    <2> QED
      BY <1>2, <2>1, <2>2, <2>3, <2>4 DEF VectorLines
  <1>5. cfg'.sysvec = IF sets THEN str2hex(args[2]) ELSE cfg.sysvec
    <2>1. cfg \in Settings /\ Len(args) \in Nat
      BY DEF LoadInv, Arguments
    <2>2. CASE Configure(args) /\ Is(args, "SYSCALL_VECTOR")
      <3>1. ~Dropped(args)
        BY <2>2, Section
      <3>2. \A name : Is(args, name) => name = "SYSCALL_VECTOR"
        BY <2>2, OneName
      <3>3. cfg' = IF ForThisFirmware(args, 3) THEN [cfg EXCEPT !.sysvec = str2hex(args[2])] ELSE cfg
        <4>1. /\ ~Is(args, "TITLE") /\ ~Is(args, "UMD_EMU") /\ ~Is(args, "LOG_DEVICE")
              /\ ~Is(args, "DEVKIT_VER") /\ ~Is(args, "KERNEL_VER") /\ ~Is(args, "IMPORT_VER")
              /\ ~Is(args, "WAIT_RUN")
          BY <3>2
        <4>2. cfg' = Configured(args)
          BY <2>2 DEF Configure
        <4> QED
          BY <2>2, <4>1, <4>2 DEF Configured
      <3>4. ForThisFirmware(args, 3) <=> sets
        BY <1>2, <2>1, <2>2, <3>1 DEF ForThisFirmware
      <3>5. [cfg EXCEPT !.sysvec = str2hex(args[2])].sysvec = str2hex(args[2])
        BY <2>1 DEF Settings
      <3> QED
        BY <3>3, <3>4, <3>5
    <2>3. CASE Configure(args) /\ ~Is(args, "SYSCALL_VECTOR")
      <3>1. ~sets
        BY <1>2, <2>3
      <3>2. cfg' = Configured(args)
        BY <2>3 DEF Configure
      <3>3. /\ [cfg EXCEPT !.title = args[2]].sysvec = cfg.sysvec
            /\ [cfg EXCEPT !.umd = str2hex(args[2])].sysvec = cfg.sysvec
            /\ [cfg EXCEPT !.log = @ \cup {LogBit(args[2])}].sysvec = cfg.sysvec
        BY <2>1 DEF Settings
      <3>4. /\ [cfg EXCEPT !.devkit = str2hex(args[2]) % 65536].sysvec = cfg.sysvec
            /\ [cfg EXCEPT !.kernel = str2hex(args[2])].sysvec = cfg.sysvec
            /\ [cfg EXCEPT !.wait = str2hex(args[2])].sysvec = cfg.sysvec
        BY <2>1 DEF Settings
      <3>5. [cfg EXCEPT !.hack = str2hex(args[2]) % 256, !.set = str2hex(args[3]) % 256].sysvec
               = cfg.sysvec
        BY <2>1 DEF Settings
      <3>6. \E name \in {"TITLE", "UMD_EMU", "LOG_DEVICE", "DEVKIT_VER",
                         "KERNEL_VER", "IMPORT_VER", "WAIT_RUN"} : Is(args, name)
        BY <2>3 DEF Configure
      <3> QED
        BY <2>3, <3>1, <3>2, <3>3, <3>4, <3>5, <3>6 DEF Configured
    <2>4. CASE ~Configure(args)
      <3>1. ~sets
        BY <1>2, <2>4, Section
      <3>2. CASE SetPath(args)
        BY <2>1, <3>1, <3>2 DEF SetPath, Settings
      <3>3. CASE ~SetPath(args)
        BY <2>4, <3>1, <3>3 DEF LineAction, Drop, ConfigPath, AssignPath, Nid, KPatch
      <3> QED
        BY <3>2, <3>3
    <2> QED
      BY <2>2, <2>3, <2>4
  <1>6. CASE sets
    <2>1. LastOf(VectorLines') = n + 1 /\ VectorLines' # {}
      BY <1>3, <1>4, <1>6, LastStays
    <2>2. Arg(LastOf(VectorLines), 2)' = args[2]
      BY <1>1, <2>1 DEF Arg
    <2> QED
      BY <1>5, <1>6, <2>1, <2>2 DEF VectorInv
  <1>7. CASE ~sets
    <2>1. VectorLines' = VectorLines /\ cfg'.sysvec = cfg.sysvec
      BY <1>4, <1>5, <1>7
    <2>2. CASE VectorLines = {}
      BY <2>1, <2>2 DEF VectorInv
    <2>3. CASE VectorLines # {}
      <3>1. PICK k \in 1..n : k = LastOf(VectorLines)
        BY <1>3, <2>3, LastStays
      <3>2. Arg(LastOf(VectorLines), 2)' = Arg(k, 2)' /\ Arg(k, 2)' = Arg(k, 2)
        BY <1>1, <2>1, <3>1 DEF Arg
      <3> QED
        BY <2>1, <2>3, <3>1, <3>2 DEF VectorInv
    <2> QED
      BY <2>2, <2>3
  <1> QED
    BY <1>6, <1>7

LEMMA FullPathEnd ==
    ASSUME BootInv, NEW p \in Seq(Tokens)
    PROVE  /\ make_full_path(p) # <<>>
           /\ Last(make_full_path(p)) = Slash \/ Last(make_full_path(p)) = Last(p)
  <1>1. CASE \E i \in DOMAIN p : p[i] \in Drives
    BY <1>1 DEF make_full_path
  <1>2. CASE ~ \E i \in DOMAIN p : p[i] \in Drives
    <2>1. PICK name : name = IF Len(p) > 1 /\ p[1] = Dot /\ p[2] = Slash THEN SubSeq(p, 3, Len(p)) ELSE p
      OBVIOUS
    <2>2. PICK base : base = psp_boot_path \o (IF Last(psp_boot_path) = Slash THEN <<>> ELSE <<Slash>>)
      OBVIOUS
    <2>3. make_full_path(p) = base \o name
      BY <1>2, <2>1, <2>2, Zenon DEF make_full_path
    <2>4. base \in Seq(Tokens) /\ base # <<>> /\ Last(base) = Slash
      BY <2>2, BootType, ConfigAssumption DEF Last
    <2>5. name \in Seq(Tokens) /\ (name # <<>> => Last(name) = Last(p))
      BY <2>1, SubSeqProperties DEF Last
    <2>6. base \o name # <<>> /\ Last(base \o name) = IF name = <<>> THEN Slash ELSE Last(name)
      BY <2>4, <2>5 DEF Last
    <2> QED
      BY <2>3, <2>5, <2>6
  <1> QED
    BY <1>1, <1>2

LEMMA ChainLine ==
    ASSUME LoadInv, ChainInv, NEW args \in Arguments, LineAction(args)
    PROVE  ChainInv'
  <1>0. PICK n \in Nat : Grown(n, args)
    BY Section, LinesGrow
  <1>1. /\ DOMAIN lines = 1..n /\ DOMAIN lines' = 1..(n + 1)
        /\ \A k \in 1..n : lines'[k] = lines[k]
        /\ \A k \in 1..n : \A m : Arg(k, m)' = Arg(k, m)
        /\ lines'[n + 1].file = Len(loads)
        /\ \A m : Arg(n + 1, m)' = args[m]
        /\ \A name : Lines(name)' = Lines(name) \cup
                        (IF ~Dropped(args) /\ Is(args, name) THEN {n + 1} ELSE {})
        /\ \A name : Lines(name) \subseteq 1..n
    BY <1>0 DEF Grown
  <1>2. /\ loads' = loads /\ files' = files /\ Len(loads) \in Nat /\ Len(loads) > 0
        /\ cfg_pc' # "loaded" /\ BootInv /\ Len(args) \in Nat /\ files \in FileSystems
    <2>1. loads' = loads /\ files' = files /\ cfg_pc = "line" /\ cfg_pc' # "loaded"
      BY Section DEF NextLine
    <2>2. Len(loads) \in Nat /\ BootInv /\ Len(args) \in Nat /\ files \in FileSystems
      BY DEF LoadInv, Arguments
    <2>3. Len(loads) > 0
      BY <2>1 DEF ChainInv
    <2> QED
      BY <2>1, <2>2, <2>3
  <1>3. PICK top \in Nat : top = Len(loads)
    BY <1>2
  <1>4. PICK names \in BOOLEAN : names = (~Dropped(args) /\ Is(args, "CONFIG_PATH"))
    OBVIOUS
  <1>5. \A f : NextLines(f) \subseteq 1..n
    BY <1>1 DEF NextLines
  <1>6. \A f : NextLines(f)' = NextLines(f) \cup (IF names /\ f = top THEN {n + 1} ELSE {})
    <2>1. \A f : NextLines(f)' = {k \in Lines("CONFIG_PATH")' : lines'[k].file = f}
      BY DEF NextLines
    <2>2. \A k \in Lines("CONFIG_PATH") : lines'[k] = lines[k]
      BY <1>1
    <2>3. Lines("CONFIG_PATH")' = Lines("CONFIG_PATH") \cup (IF names THEN {n + 1} ELSE {})
      BY <1>1, <1>4
    <2> QED
      BY <1>1, <1>3, <2>1, <2>2, <2>3 DEF NextLines
  <1>7. config_path' = IF names THEN make_full_path(args[2]) ELSE config_path
    <2>1. CASE names
      BY <1>4, <2>1, Section DEF ConfigPath
    <2>2. CASE ~names
      <3>1. ~ConfigPath(args)
        BY <1>4, <2>2, Section
      <3> QED
        BY <2>2, <3>1 DEF LineAction, Drop, Configure, SetPath, AssignPath, Nid, KPatch
    <2> QED
      BY <2>1, <2>2
  <1>8. \A k \in DOMAIN lines' : lines'[k].file \in 1..Len(loads')
    <2>1. \A k \in 1..n : lines'[k].file \in 1..Len(loads)
      BY <1>1 DEF ChainInv
    <2>2. \A k \in 1..(n + 1) : k \in 1..n \/ k = n + 1
      OBVIOUS
    <2> QED
      BY <1>1, <1>2, <2>1, <2>2
  <1>9. ASSUME NEW f, ~(names /\ f = top), NextLines(f) # {}
        PROVE  NextLines(f)' # {} /\ Arg(LastOf(NextLines(f)), 2)' = Arg(LastOf(NextLines(f)), 2)
    <2>1. PICK S : S = NextLines(f)
      OBVIOUS
    <2>2. NextLines(f)' = S
      BY <1>6, <1>9, <2>1
    <2>3. PICK k \in 1..n : k = LastOf(S)
      BY <1>5, <1>9, <2>1, LastStays
    <2>4. Arg(LastOf(NextLines(f)), 2)' = Arg(k, 2)'
      BY <2>2, <2>3 DEF Arg
    <2> QED
      BY <1>1, <1>9, <2>1, <2>2, <2>3, <2>4
  <1>10. ASSUME NEW f \in 1..(Len(loads') - 1)
         PROVE  /\ NextLines(f)' # {}
                /\ Last(loads'[f + 1]) = Last(Arg(LastOf(NextLines(f)), 2)')
    <2>1. f \in 1..(Len(loads) - 1) /\ f # top
      BY <1>2, <1>3
    <2>2. NextLines(f) # {} /\ Last(loads[f + 1]) = Last(Arg(LastOf(NextLines(f)), 2))
      BY <2>1 DEF ChainInv
    <2> QED
      BY <1>2, <1>9, <2>1, <2>2
  <1>11. ASSUME names
         PROVE  /\ NextLines(top)' # {} /\ config_path' # <<>>
                /\ config_path' \in DOMAIN files' =>
                      Last(config_path') = Last(Arg(LastOf(NextLines(top)), 2)')
    <2>1. args[2] \in Seq(Tokens)
      <3>1. Len(args) > 1
        BY <1>4, <1>11, ParametersOf DEF Is
      <3> QED
        BY <1>2, <3>1, ArgType
    <2>2. config_path' = make_full_path(args[2])
      BY <1>7, <1>11
    <2>3. LastOf(NextLines(top)') = n + 1 /\ NextLines(top)' # {}
      BY <1>5, <1>6, <1>11, LastStays
    <2>4. Arg(LastOf(NextLines(top)), 2)' = args[2]
      BY <1>1, <2>3 DEF Arg
    <2>5. config_path' # <<>> /\ (Last(config_path') = Slash \/ Last(config_path') = Last(args[2]))
      BY <1>2, <2>1, <2>2, FullPathEnd
    <2>6. \A p \in DOMAIN files : Last(p) # Slash
      BY <1>2, ConfigAssumption
    <2> QED
      BY <1>2, <2>3, <2>4, <2>5, <2>6
  <1>12. ASSUME ~names
         PROVE  IF NextLines(top)' = {} THEN config_path' = <<>>
                ELSE /\ config_path' # <<>>
                     /\ config_path' \in DOMAIN files' =>
                           Last(config_path') = Last(Arg(LastOf(NextLines(top)), 2)')
    <2>1. config_path' = config_path /\ NextLines(top)' = NextLines(top)
      BY <1>6, <1>7, <1>12
    <2>2. IF NextLines(top) = {} THEN config_path = <<>>
          ELSE /\ config_path # <<>>
               /\ config_path \in DOMAIN files =>
                     Last(config_path) = Last(Arg(LastOf(NextLines(top)), 2))
      BY <1>2, <1>3 DEF ChainInv
    <2> QED
      BY <1>2, <1>9, <1>12, <2>1, <2>2
  <1>13. NextLines(Len(loads))' = NextLines(top)' /\ Len(loads') = top
         /\ Arg(LastOf(NextLines(Len(loads))), 2)' = Arg(LastOf(NextLines(top)), 2)'
    BY <1>2, <1>3 DEF NextLines, Arg
  <1>14. IF NextLines(Len(loads))' = {} THEN config_path' = <<>>
         ELSE /\ config_path' # <<>>
              /\ config_path' \in DOMAIN files' =>
                    Last(config_path') = Last(Arg(LastOf(NextLines(Len(loads))), 2)')
    BY <1>11, <1>12, <1>13
  <1> QED
    BY <1>2, <1>8, <1>10, <1>14 DEF ChainInv

(* A path line, and its path.                                              *)
PathLine(args) ==
    /\ ~Dropped(args)
    /\ \/ Is(args, "ASSIGN_PATH") \/ Is(args, "TARGET_PATH")
       \/ Is(args, "CONFIG_PATH") \/ Is(args, "PATCH_PATH")
PathOf(args) == args[IF Is(args, "ASSIGN_PATH") THEN 3 ELSE 2]

LEMMA BootPathStays ==
    ASSUME NEW args \in Arguments, LineAction(args)
    PROVE  psp_boot_path' = IF PathLine(args) THEN RootAfter(PathOf(args)) ELSE psp_boot_path
  <1>1. CASE ConfigPath(args)
    <2>1. Is(args, "CONFIG_PATH") /\ ~Is(args, "ASSIGN_PATH") /\ ~Dropped(args)
      BY <1>1, Section, OneName
    <2> QED
      BY <1>1, <2>1 DEF ConfigPath, PathLine, PathOf
  <1>2. CASE SetPath(args)
    <2>1. /\ Is(args, "TARGET_PATH") \/ Is(args, "PATCH_PATH")
          /\ ~Is(args, "ASSIGN_PATH") /\ ~Dropped(args)
      BY <1>2, Section, OneName
    <2> QED
      BY <1>2, <2>1 DEF SetPath, PathLine, PathOf
  <1>3. CASE AssignPath(args)
    <2>1. Is(args, "ASSIGN_PATH") /\ ~Dropped(args)
      BY <1>3, Section
    <2> QED
      BY <1>3, <2>1 DEF AssignPath, PathLine, PathOf
  <1>4. CASE ~ConfigPath(args) /\ ~SetPath(args) /\ ~AssignPath(args)
    <2>1. ~PathLine(args)
      BY <1>4, Section DEF PathLine
    <2>2. psp_boot_path' = psp_boot_path
      BY <1>4 DEF LineAction, Drop, Configure, Nid, KPatch
    <2> QED
      BY <2>1, <2>2
  <1> QED
    BY <1>1, <1>2, <1>3, <1>4

LEMMA RootedGrows ==
    ASSUME NEW args \in Arguments, NEW n \in Nat, Grown(n, args)
    PROVE  /\ Rooted \subseteq 1..n
           /\ Rooted' = Rooted \cup
                 (IF PathLine(args) /\ PathOf(args) # <<>> /\ PathOf(args)[1] = Slash THEN {n + 1}
                  ELSE {})
  <1> DEFINE paths == {"ASSIGN_PATH", "TARGET_PATH", "CONFIG_PATH", "PATCH_PATH"}
  <1>1. /\ \A k \in 1..n : \A m : Arg(k, m)' = Arg(k, m)
        /\ \A m : Arg(n + 1, m)' = args[m]
        /\ \A name : Lines(name)' = Lines(name) \cup
                        (IF ~Dropped(args) /\ Is(args, name) THEN {n + 1} ELSE {})
        /\ \A name : Lines(name) \subseteq 1..n
    BY DEF Grown
  <1>2. n + 1 \notin 1..n
    OBVIOUS
  <1>3. PICK all : all = UNION {Lines(name) : name \in paths}
    OBVIOUS
  <1>4. all = Lines("ASSIGN_PATH") \cup Lines("TARGET_PATH") \cup Lines("CONFIG_PATH")
                 \cup Lines("PATCH_PATH")
    BY <1>3
  <1>5. Rooted = {k \in all : PathArg(k) # <<>> /\ PathArg(k)[1] = Slash}
    BY <1>4 DEF Rooted
  <1>6. all \subseteq 1..n
    BY <1>1, <1>4
  <1>7. Rooted' = {k \in all \cup (IF PathLine(args) THEN {n + 1} ELSE {}) :
                      PathArg(k)' # <<>> /\ PathArg(k)'[1] = Slash}
    <2>1. Rooted' = {k \in Lines("ASSIGN_PATH")' \cup Lines("TARGET_PATH")' \cup Lines("CONFIG_PATH")'
                              \cup Lines("PATCH_PATH")' : PathArg(k)' # <<>> /\ PathArg(k)'[1] = Slash}
      BY DEF Rooted
    <2>2. Lines("ASSIGN_PATH")' \cup Lines("TARGET_PATH")' \cup Lines("CONFIG_PATH")'
             \cup Lines("PATCH_PATH")' = all \cup (IF PathLine(args) THEN {n + 1} ELSE {})
      BY <1>1, <1>4 DEF PathLine
    <2> QED
      BY <2>1, <2>2
  <1>8. ASSUME NEW k \in all PROVE PathArg(k)' = PathArg(k)
    <2>1. k \in 1..n /\ k # n + 1
      BY <1>2, <1>6
    <2>2. k \in Lines("ASSIGN_PATH")' <=> k \in Lines("ASSIGN_PATH")
      BY <1>1, <2>1
    <2>3. PathArg(k)' = IF k \in Lines("ASSIGN_PATH")' THEN Arg(k, 3)' ELSE Arg(k, 2)'
      BY DEF PathArg, Arg
    <2> QED
      BY <1>1, <2>1, <2>2, <2>3 DEF PathArg
  <1>9. ASSUME PathLine(args) PROVE PathArg(n + 1)' = PathOf(args)
    <2>1. n + 1 \in Lines("ASSIGN_PATH")' <=> Is(args, "ASSIGN_PATH")
      BY <1>1, <1>2, <1>9 DEF PathLine
    <2>2. PathArg(n + 1)' = IF n + 1 \in Lines("ASSIGN_PATH")' THEN Arg(n + 1, 3)' ELSE Arg(n + 1, 2)'
      BY DEF PathArg, Arg
    <2> QED
      BY <1>1, <2>1, <2>2 DEF PathOf
  <1>10. Rooted' = Rooted \cup
            (IF PathLine(args) /\ PathOf(args) # <<>> /\ PathOf(args)[1] = Slash THEN {n + 1}
             ELSE {})
    BY <1>5, <1>7, <1>8, <1>9
  <1> QED
    BY <1>5, <1>6, <1>10

LEMMA TargetStays ==
    ASSUME LoadInv, NEW args \in Arguments, LineAction(args)
    PROVE  cfg'.target = IF ~Dropped(args) /\ Is(args, "TARGET_PATH") THEN make_full_path(args[2])
                         ELSE cfg.target
  <1>1. cfg \in Settings
    BY DEF LoadInv
  <1>2. CASE SetPath(args)
    <2>1. ~Dropped(args)
      BY <1>2, Section
    <2>2. /\ [cfg EXCEPT !.target = make_full_path(args[2])].target = make_full_path(args[2])
          /\ [cfg EXCEPT !.patch = make_full_path(args[2])].target = cfg.target
      BY <1>1 DEF Settings
    <2> QED
      BY <1>2, <2>1, <2>2 DEF SetPath
  <1>3. CASE Configure(args)
    <2>1. ~Is(args, "TARGET_PATH")
      BY <1>3, Section
    <2>2. cfg' = Configured(args)
      BY <1>3 DEF Configure
    <2>3. /\ [cfg EXCEPT !.title = args[2]].target = cfg.target
          /\ [cfg EXCEPT !.umd = str2hex(args[2])].target = cfg.target
          /\ [cfg EXCEPT !.log = @ \cup {LogBit(args[2])}].target = cfg.target
          /\ [cfg EXCEPT !.sysvec = str2hex(args[2])].target = cfg.target
      BY <1>1 DEF Settings
    <2>4. /\ [cfg EXCEPT !.devkit = str2hex(args[2]) % 65536].target = cfg.target
          /\ [cfg EXCEPT !.kernel = str2hex(args[2])].target = cfg.target
          /\ [cfg EXCEPT !.wait = str2hex(args[2])].target = cfg.target
      BY <1>1 DEF Settings
    <2>5. [cfg EXCEPT !.hack = str2hex(args[2]) % 256, !.set = str2hex(args[3]) % 256].target
             = cfg.target
      BY <1>1 DEF Settings
    <2>6. \E name \in {"TITLE", "UMD_EMU", "LOG_DEVICE", "SYSCALL_VECTOR", "DEVKIT_VER",
                       "KERNEL_VER", "IMPORT_VER", "WAIT_RUN"} : Is(args, name)
      BY <1>3 DEF Configure
    <2> QED
      BY <2>1, <2>2, <2>3, <2>4, <2>5, <2>6 DEF Configured
  <1>4. CASE ~SetPath(args) /\ ~Configure(args)
    <2>1. Dropped(args) \/ ~Is(args, "TARGET_PATH")
      BY <1>4, Section
    <2>2. cfg' = cfg
      BY <1>4 DEF LineAction, Drop, ConfigPath, AssignPath, Nid, KPatch
    <2> QED
      BY <2>1, <2>2
  <1> QED
    BY <1>2, <1>3, <1>4

LEMMA TargetLine ==
    ASSUME LoadInv, TargetInv, NEW args \in Arguments, LineAction(args)
    PROVE  TargetInv'
  <1>0. PICK n \in Nat : Grown(n, args)
    BY Section, LinesGrow
  <1>1. /\ \A k \in 1..n : \A m : Arg(k, m)' = Arg(k, m)
        /\ \A m : Arg(n + 1, m)' = args[m]
        /\ Lines("TARGET_PATH")' = Lines("TARGET_PATH") \cup
              (IF ~Dropped(args) /\ Is(args, "TARGET_PATH") THEN {n + 1} ELSE {})
        /\ Lines("TARGET_PATH") \subseteq 1..n
    BY <1>0 DEF Grown
  <1>2. /\ Rooted \subseteq 1..n
        /\ Rooted' = Rooted \cup
              (IF PathLine(args) /\ PathOf(args) # <<>> /\ PathOf(args)[1] = Slash THEN {n + 1}
               ELSE {})
    BY <1>0, RootedGrows
  <1>3. psp_boot_path' = IF PathLine(args) THEN RootAfter(PathOf(args)) ELSE psp_boot_path
    BY BootPathStays
  <1>4. ASSUME Rooted' = {} PROVE psp_boot_path' = BootPath
    <2>1. Rooted = {} /\ (PathLine(args) => PathOf(args) = <<>> \/ PathOf(args)[1] # Slash)
      BY <1>2, <1>4
    <2>2. psp_boot_path' = psp_boot_path
      BY <1>3, <2>1 DEF RootAfter
    <2> QED
      BY <2>1, <2>2 DEF TargetInv
  <1>5. ASSUME ~Dropped(args), Is(args, "TARGET_PATH"), Relative(Arg(n + 1, 2)'),
               \A j \in Rooted' : j >= n + 1
        PROVE  IsPrefix(BootPath, cfg'.target)
    <2>1. Rooted = {}
      <3>1. \A j \in Rooted : j \in 1..n /\ j \in Rooted'
        BY <1>2
      <3> QED
        BY <1>5, <3>1
    <2>2. psp_boot_path = BootPath
      BY <2>1 DEF TargetInv
    <2>3. args[2] \in Seq(Tokens)
      <3>1. Len(args) > 1 /\ Len(args) \in Nat
        BY <1>5, ParametersOf DEF Is, Arguments
      <3> QED
        BY <3>1, ArgType
    <2>4. ~ \E i \in DOMAIN args[2] : args[2][i] \in Drives
      BY <1>1, <1>5 DEF Relative
    <2>5. cfg'.target = make_full_path(args[2])
      BY <1>5, TargetStays
    <2>6. PICK name : name = IF Len(args[2]) > 1 /\ args[2][1] = Dot /\ args[2][2] = Slash
                             THEN SubSeq(args[2], 3, Len(args[2])) ELSE args[2]
      OBVIOUS
    <2>7. name \in Seq(Tokens)
      BY <2>3, <2>6, SubSeqProperties
    <2>8. cfg'.target = BootPath \o (IF Last(BootPath) = Slash THEN <<>> ELSE <<Slash>>) \o name
      BY <2>2, <2>4, <2>5, <2>6, Zenon DEF make_full_path
    <2>9. BootPath \in Seq(Tokens) /\ Slash \in Tokens
      BY ConfigAssumption
    <2>10. PICK back \in Seq(Tokens) : cfg'.target = BootPath \o back
      <3>1. CASE Last(BootPath) = Slash
        <4>1. cfg'.target = BootPath \o <<>> \o name /\ BootPath \o <<>> = BootPath
          BY <2>8, <2>9, <3>1
        <4> QED
          BY <2>7, <4>1
      <3>2. CASE Last(BootPath) # Slash
        <4>1. cfg'.target = BootPath \o <<Slash>> \o name
          BY <2>8, <3>2, Zenon
        <4>2. /\ BootPath \o <<Slash>> \o name = BootPath \o (<<Slash>> \o name)
              /\ <<Slash>> \o name \in Seq(Tokens)
          BY <2>7, <2>9
        <4> QED
          BY <4>1, <4>2
      <3> QED
        BY <3>1, <3>2
    <2> QED
      BY <2>9, <2>10 DEF IsPrefix
  <1>6. CASE ~Dropped(args) /\ Is(args, "TARGET_PATH")
    <2>1. LastOf(Lines("TARGET_PATH")') = n + 1
      BY <1>1, <1>6, LastStays
    <2>2. (\A j \in Rooted' : j >= LastOf(Lines("TARGET_PATH"))')
          /\ Relative(Arg(LastOf(Lines("TARGET_PATH")), 2))' => IsPrefix(BootPath, cfg'.target)
      <3>1. LastOf(Lines("TARGET_PATH"))' = n + 1
        BY <2>1 DEF LastOf
      <3>2. Relative(Arg(LastOf(Lines("TARGET_PATH")), 2))' <=> Relative(Arg(n + 1, 2)')
        BY <3>1 DEF Arg, Relative
      <3> QED
        BY <1>5, <1>6, <3>1, <3>2
    <2> QED
      BY <1>4, <2>2 DEF TargetInv
  <1>7. CASE Dropped(args) \/ ~Is(args, "TARGET_PATH")
    <2>1. Lines("TARGET_PATH")' = Lines("TARGET_PATH") /\ cfg'.target = cfg.target
      BY <1>1, <1>7, TargetStays
    <2>2. CASE Lines("TARGET_PATH") = {}
      BY <1>4, <2>1, <2>2 DEF TargetInv
    <2>3. CASE Lines("TARGET_PATH") # {}
      <3>1. PICK k \in 1..n : k = LastOf(Lines("TARGET_PATH"))
        BY <1>1, <2>3, LastStays
      <3>2. LastOf(Lines("TARGET_PATH"))' = k
        BY <2>1, <3>1 DEF LastOf
      <3>3. Relative(Arg(LastOf(Lines("TARGET_PATH")), 2))' <=> Relative(Arg(k, 2))
        BY <1>1, <3>1, <3>2 DEF Arg, Relative
      <3>4. (\A j \in Rooted' : j >= k) /\ Relative(Arg(k, 2)) => IsPrefix(BootPath, cfg'.target)
        <4>1. \A j \in Rooted : j \in Rooted'
          BY <1>2
        <4> QED
          BY <2>1, <2>3, <3>1, <4>1 DEF TargetInv
      <3> QED
        BY <1>4, <3>1, <3>2, <3>3, <3>4 DEF TargetInv
    <2> QED
      BY <2>2, <2>3
  <1> QED
    BY <1>6, <1>7

LEMMA LinesLine ==
    ASSUME LoadInv, LinesInv, NEW args \in Arguments, LineAction(args)
    PROVE  LinesInv'
  <1>1. cfg_pc = "line"
    BY Section DEF NextLine
  <1>2. ModesInv /\ VectorInv /\ ChainInv /\ TargetInv
    BY <1>1 DEF LinesInv
  <1>3. ModesInv' /\ VectorInv' /\ ChainInv' /\ TargetInv'
    BY <1>2, ModesLine, VectorLine, ChainLine, TargetLine
  <1> QED
    BY <1>3 DEF LinesInv

(* A step that reads no line leaves what the lines say.                    *)
LEMMA LinesStay ==
    ASSUME UNCHANGED <<lines, func_hook_type, cfg, psp_boot_path>>, ModesInv, VectorInv, TargetInv
    PROVE  ModesInv' /\ VectorInv' /\ TargetInv'
  <1>1. \A name : Lines(name)' = Lines(name)
    BY DEF Lines
  <1>2. \A k, m : Arg(k, m)' = Arg(k, m)
    BY DEF Arg
  <1>3. \A n : HookLines(n)' = HookLines(n)
    BY <1>1 DEF HookLines, Arg
  <1>4. VectorLines' = VectorLines
    BY <1>1 DEF VectorLines, Arg
  <1>5. Rooted' = Rooted
    BY <1>1 DEF Rooted, PathArg, Arg
  <1>6. ModesInv'
    BY <1>3 DEF ModesInv, Arg, LastOf
  <1>7. VectorInv'
    BY <1>4 DEF VectorInv, Arg, LastOf
  <1>8. TargetInv'
    BY <1>1, <1>5 DEF TargetInv, Arg, LastOf, Relative
  <1> QED
    BY <1>6, <1>7, <1>8

(* A file is read: no line is in it yet, and the last line of the file     *)
(* before it that names one names it.                                      *)
LEMMA ChainLoad ==
    ASSUME LoadInv, ChainInv, LoadFile
    PROVE  ChainInv'
  <1>1. PICK n \in Nat : n = Len(loads)
    BY DEF LoadInv
  <1>2. /\ lines' = lines /\ files' = files /\ config_path \in DOMAIN files /\ config_path # <<>>
        /\ loads' = Append(loads, config_path) /\ config_path' = <<>> /\ cfg_pc' # "loaded"
    BY DEF LoadFile
  <1>3. /\ Len(loads') = n + 1 /\ loads'[n + 1] = config_path
        /\ \A f \in 1..n : loads'[f] = loads[f]
    BY <1>1, <1>2 DEF LoadInv
  <1>4. \A f : NextLines(f)' = NextLines(f)
    BY <1>2 DEF NextLines, Lines
  <1>5. \A k \in DOMAIN lines : lines[k].file \in 1..n
    BY <1>1 DEF ChainInv
  <1>6. NextLines(n + 1) = {}
    <2>1. \A k \in DOMAIN lines : lines[k].file # n + 1
      BY <1>5
    <2> QED
      BY <2>1 DEF NextLines, Lines
  <1>7. \A f : Arg(LastOf(NextLines(f)), 2)' = Arg(LastOf(NextLines(f)), 2)
    BY <1>2, <1>4 DEF Arg, LastOf
  <1>8. ASSUME NEW f \in 1..n
        PROVE  /\ NextLines(f) # {}
               /\ Last(loads'[f + 1]) = Last(Arg(LastOf(NextLines(f)), 2))
    <2>1. CASE f = n
      <3>1. NextLines(n) # {} /\ Last(config_path) = Last(Arg(LastOf(NextLines(n)), 2))
        BY <1>1, <1>2, <1>8, <2>1 DEF ChainInv
      <3> QED
        BY <1>3, <2>1, <3>1
    <2>2. CASE f # n
      <3>1. f \in 1..(Len(loads) - 1) /\ f + 1 \in 1..n
        BY <1>1, <1>8, <2>2
      <3> QED
        BY <1>3, <3>1 DEF ChainInv
    <2> QED
      BY <2>1, <2>2
  <1>9. \A k \in DOMAIN lines' : lines'[k].file \in 1..Len(loads')
    <2>1. 1..n \subseteq 1..(n + 1)
      OBVIOUS
    <2> QED
      BY <1>2, <1>3, <1>5, <2>1
  <1>10. \A f \in 1..(Len(loads') - 1) :
            NextLines(f)' # {} /\ Last(loads'[f + 1]) = Last(Arg(LastOf(NextLines(f)), 2)')
    <2>1. Len(loads') - 1 = n
      BY <1>3
    <2> QED
      BY <1>4, <1>7, <1>8, <2>1
  <1>11. NextLines(Len(loads))' = {} /\ Len(loads') > 0
    <2>1. NextLines(Len(loads))' = NextLines(n + 1)
      BY <1>2, <1>3 DEF NextLines, Lines
    <2> QED
      BY <1>3, <1>6, <2>1
  <1> QED
    BY <1>2, <1>9, <1>10, <1>11 DEF ChainInv

LEMMA ChainStays ==
    ASSUME UNCHANGED <<files, lines, loads, config_path>>, ChainInv, cfg_pc' \in {cfg_pc, "loaded"},
           cfg_pc' = "loaded" => config_path = <<>>
    PROVE  ChainInv'
  <1>1. \A f : NextLines(f)' = NextLines(f) /\ NextLines(Len(loads))' = NextLines(Len(loads))
    BY DEF NextLines, Lines
  <1>2. /\ \A f : Arg(LastOf(NextLines(f)), 2)' = Arg(LastOf(NextLines(f)), 2)
        /\ Arg(LastOf(NextLines(Len(loads))), 2)' = Arg(LastOf(NextLines(Len(loads))), 2)
    BY <1>1 DEF Arg, LastOf
  <1> QED
    BY <1>1, <1>2 DEF ChainInv

LEMMA LinesInit == Init => LinesInv
  <1> SUFFICES ASSUME Init PROVE LinesInv
    OBVIOUS
  <1>1. lines = <<>> /\ loads = <<>> /\ psp_boot_path = BootPath /\ cfg = NoConfig /\ cfg_pc = "next_file"
        /\ func_hook_type = [n \in Nids |-> "N"]
    BY DEF Init
  <1>2. Len(loads) = 0 /\ DOMAIN lines = {}
    BY <1>1
  <1>3. \A name : Lines(name) = {}
    BY <1>2 DEF Lines
  <1>4. ModesInv
    BY <1>1, <1>3 DEF ModesInv, HookLines
  <1>5. VectorInv
    BY <1>1, <1>3 DEF VectorInv, VectorLines, NoConfig
  <1>6. ChainInv
    BY <1>1, <1>2 DEF ChainInv
  <1>7. TargetInv
    BY <1>1, <1>3 DEF TargetInv
  <1> QED
    BY <1>4, <1>5, <1>6, <1>7 DEF LinesInv

LEMMA LinesStep ==
    ASSUME LoadInv, LinesInv, [Next]_vars
    PROVE  LinesInv'
  <1>1. CASE LoadFile
    <2>1. ModesInv /\ VectorInv /\ ChainInv /\ TargetInv
      BY <1>1 DEF LinesInv, LoadFile
    <2>2. UNCHANGED <<lines, func_hook_type, cfg, psp_boot_path>>
      BY <1>1 DEF LoadFile
    <2>3. ModesInv' /\ VectorInv' /\ TargetInv' /\ ChainInv'
      BY <1>1, <2>1, <2>2, LinesStay, ChainLoad
    <2> QED
      BY <2>3 DEF LinesInv
  <1>2. CASE EndLoad
    <2>1. ModesInv /\ VectorInv /\ ChainInv /\ TargetInv
      BY <1>2 DEF LinesInv, EndLoad
    <2>2. UNCHANGED <<lines, func_hook_type, cfg, psp_boot_path>>
          /\ UNCHANGED <<files, lines, loads, config_path>> /\ cfg_pc' = "loaded" /\ config_path = <<>>
      BY <1>2 DEF EndLoad
    <2>3. ModesInv' /\ VectorInv' /\ TargetInv' /\ ChainInv'
      BY <2>1, <2>2, LinesStay, ChainStays
    <2> QED
      BY <2>3 DEF LinesInv
  <1>3. CASE NoFile
    BY <1>3 DEF NoFile, LinesInv
  <1>4. ASSUME NEW ok \in BOOLEAN, Main(ok) PROVE LinesInv'
    <2>1. cfg_pc' \in {"run", "exit"}
      BY <1>4 DEF Main
    <2> QED
      BY <2>1 DEF LinesInv
  <1>5. CASE \E line \in {Line} : \E args \in {Args(line)} :
               \/ Drop(args) \/ Configure(args) \/ SetPath(args) \/ ConfigPath(args)
               \/ AssignPath(args) \/ Nid(args) \/ KPatch(args)
    <2>1. PICK args : args = Args(Line) /\ LineAction(args)
      BY <1>5 DEF LineAction
    <2>2. args \in Arguments
      BY <2>1, LineArguments
    <2> QED
      BY <2>1, <2>2, LinesLine
  <1>6. CASE GameStep
    <2>1. cfg_pc' = "run"
      BY <1>6 DEF GameStep, configVars
    <2> QED
      BY <2>1 DEF LinesInv
  <1>7. CASE UNCHANGED vars
    <2>1. CASE cfg_pc \in {"next_file", "line", "loaded"}
      <3>1. ModesInv /\ VectorInv /\ ChainInv /\ TargetInv
        BY <2>1 DEF LinesInv
      <3>2. UNCHANGED <<lines, func_hook_type, cfg, psp_boot_path>>
            /\ UNCHANGED <<files, lines, loads, config_path>>
        BY <1>7 DEF vars, configVars
      <3>3. cfg_pc' = cfg_pc
        BY <1>7 DEF vars, configVars
      <3>4. ModesInv' /\ VectorInv' /\ TargetInv'
        BY <3>1, <3>2, LinesStay
      <3>5. ChainInv'
        BY <3>1, <3>2, <3>3, ChainStays DEF ChainInv
      <3> QED
        BY <3>4, <3>5 DEF LinesInv
    <2>2. CASE cfg_pc \notin {"next_file", "line", "loaded"}
      BY <1>7, <2>2 DEF LinesInv, vars, configVars
    <2> QED
      BY <2>1, <2>2
  <1> QED
    BY <1>1, <1>2, <1>3, <1>4, <1>5, <1>6, <1>7 DEF Next, LoadStep

(* What needs no string to fit a path buffer. *)
LEMMA ListsStep ==
    ASSUME LoadInv, listInvs, [Next]_vars
    PROVE  LoadInv' /\ listInvs'
  <1>1. CASE LoadStep
    BY <1>1, LoadStepInv
  <1>2. CASE GameStep \/ UNCHANGED vars
    <2>1. UNCHANGED <<listVars, configVars>> /\ files' = files
      BY <1>2 DEF GameStep, vars, PathStep, OpenPath, KeepPath, NextPair, TakePath, SaveRest,
                  EndSave, AppendRest, EndAppend
    <2> QED
      BY <2>1, ListStays DEF LoadInv, BootInv, configVars
  <1> QED
    BY <1>1, <1>2 DEF Next

LEMMA LinesSay == ASSUME LoadInv, LinesInv PROVE LastLineWins
  <1> SUFFICES ASSUME cfg_pc = "loaded" PROVE LastLineWins
    BY DEF LastLineWins
  <1>1. ModesInv /\ VectorInv /\ ChainInv /\ TargetInv
    BY DEF LinesInv
  <1>2. \A n \in Nids :
           LET given == {k \in Lines("NID") : str2hex(Arg(k, 2)) \in {n, AllNids}}
           IN func_hook_type[n] = IF given = {} THEN "N"
                                  ELSE IF Len(lines[LastOf(given)].args) = 2 THEN "M"
                                  ELSE Arg(LastOf(given), 3)[1]
    BY <1>1 DEF ModesInv, HookLines
  <1>3. LET given == {k \in Lines("SYSCALL_VECTOR") :
                        Len(lines[k].args) > 2 => str2hex(Arg(k, 3)) = psp_devkit_ver}
        IN cfg.sysvec = IF given = {} THEN 0 ELSE str2hex(Arg(LastOf(given), 2))
    BY <1>1 DEF VectorInv, VectorLines
  <1>4. ASSUME NEW f \in DOMAIN loads
        PROVE  IF f = Len(loads) THEN NextLines(f) = {}
               ELSE NextLines(f) # {} /\ Last(loads[f + 1]) = Last(Arg(LastOf(NextLines(f)), 2))
    <2>1. Len(loads) \in Nat /\ f \in 1..Len(loads) /\ Len(loads) > 0
      BY DEF LoadInv
    <2>2. CASE f = Len(loads)
      BY <1>1, <2>1, <2>2 DEF ChainInv
    <2>3. CASE f # Len(loads)
      BY <1>1, <2>1, <2>3 DEF ChainInv
    <2> QED
      BY <2>2, <2>3
  <1> QED
    BY <1>1, <1>2, <1>3, <1>4 DEF LastLineWins, NextLines, TargetInv

(* The modes, the vector and the target that are in force when the         *)
(* configuration is complete are those of the last lines that give them,   *)
(* and the files were read in the order their last CONFIG_PATH lines name  *)
(* them (cfg_load, set_hook_type, make_full_path).                         *)
THEOREM LinesInForce == Spec => []LastLineWins
  <1>1. Init => LoadInv /\ listInvs /\ LinesInv
    BY InitType, LinesInit DEF TypeInv
  <1>2. LoadInv /\ listInvs /\ LinesInv /\ [Next]_vars => LoadInv' /\ listInvs' /\ LinesInv'
    BY ListsStep, LinesStep
  <1>3. LoadInv /\ LinesInv => LastLineWins
    BY LinesSay
  <1> QED
    BY <1>1, <1>2, <1>3, PTL DEF Spec

-----------------------------------------------------------------------------
(* Paths, if one thread at a time opens a file.                            *)
Hit(i, p) == assigned[i].kept = "both" /\ IsPrefix(assigned[i].search, p)
NoHit(i, p) == \A j \in 1..Len(assigned) : j < i => ~Hit(j, p)
RestOf(i, p) == SubSeq(p, Len(assigned[i].search) + 1, Len(p))

(* PathsAsAssigned says nothing of p.                                      *)
Off(p) == \E i \in 1..Len(assigned) : NoHit(i, p) /\ ~Plain(assigned[i], p)

(* makePath is at the place of an assignment, and none before it hits.     *)
Looks(p, pos) == \E i \in 1..(Len(assigned) + 1) : PlaceOf(i) = pos /\ NoHit(i, p)

Taken(i, p, r) == i \in 1..Len(assigned) /\ Hit(i, p) /\ NoHit(i, p) /\ r = RestOf(i, p)

(* So much of the rest is in rep_buf, and in the path.                     *)
Saves(p, out, r, n) ==
    /\ \E i \in 1..Len(assigned) : Taken(i, p, r) /\ out = assigned[i].rep
    /\ n <= Len(r) /\ \A k \in 1..n : rep_buf[k - 1] = r[k]
Appends(p, out, r, n) ==
    /\ \E i \in 1..Len(assigned) : Taken(i, p, r) /\ out = assigned[i].rep \o SubSeq(r, 1, n)
    /\ n <= Len(r) /\ \A k \in 1..Len(r) : rep_buf[k - 1] = r[k]
    /\ rep_buf[Len(r)] = NUL
Made(p, out) ==
    \/ NoHit(Len(assigned) + 1, p) /\ out = p
    \/ \E i \in 1..Len(assigned) : Hit(i, p) /\ NoHit(i, p) /\ out = assigned[i].rep \o RestOf(i, p)

PathInv(t) ==
    \/ Off(path[t])
    \/ /\ t_pc[t] = "look" => Looks(path[t], place[t])
       /\ t_pc[t] = "save" => Saves(path[t], hooked_path[t], rest[t], at[t])
       /\ t_pc[t] = "append" => Appends(path[t], hooked_path[t], rest[t], at[t])
       /\ t_pc[t] = "done" => Made(path[t], hooked_path[t])

Busy(t) == t_pc[t] \in {"look", "save", "append"}

SerialInv ==
    order = "serial" =>
       /\ \A t \in Threads : \A u \in Threads : Busy(t) /\ Busy(u) => t = u
       /\ \A t \in Threads : t_pc[t] # "idle" => PathInv(t) /\ path[t] \in Seq(Tokens)

LEMMA PrefixLen ==
    ASSUME NEW s \in Seq(Tokens), NEW p \in Seq(Tokens), IsPrefix(s, p)
    PROVE  Len(s) <= Len(p)
  BY DEF IsPrefix

LEMMA PrefixSelf == ASSUME NEW s \in Seq(Tokens) PROVE IsPrefix(s, s)
  BY DEF IsPrefix

LEMMA StrHolds ==
    ASSUME ListInv, NEW pos \in Heap, NEW s \in Seq(Tokens), Holds(pos, s)
    PROVE  StrLen(pos) = Len(s) /\ Str(pos) = s
  <1>1. /\ StrLen(pos) \in Nat /\ pos + StrLen(pos) \in Heap /\ path_list[pos + StrLen(pos)] = NUL
        /\ \A i \in pos..(pos + StrLen(pos) - 1) : path_list[i] # NUL
        /\ Str(pos) \in Seq(Tokens) /\ Len(Str(pos)) = StrLen(pos)
        /\ \A i \in 1..StrLen(pos) : Str(pos)[i] = path_list[pos + i - 1]
    BY StrFacts
  <1>2. Len(s) \in Nat /\ pos \in Nat /\ \A k \in 1..Len(s) : s[k] \in Tokens /\ s[k] # NUL
    BY PathAssumption DEF Heap
  <1>3. ASSUME StrLen(pos) > Len(s) PROVE FALSE
    <2>1. pos + Len(s) \in pos..(pos + StrLen(pos) - 1)
      BY <1>1, <1>2, <1>3
    <2> QED
      BY <1>1, <2>1 DEF Holds
  <1>4. ASSUME StrLen(pos) < Len(s) PROVE FALSE
    <2>0. StrLen(pos) \in Nat /\ Len(s) \in Nat
      BY <1>1, <1>2
    <2>1. PICK k \in 1..Len(s) : k = StrLen(pos) + 1
      BY <1>4, <2>0
    <2>2. pos + k - 1 = pos + StrLen(pos)
      BY <1>1, <1>2, <2>1
    <2>3. path_list[pos + k - 1] = s[k]
      BY <2>1 DEF Holds
    <2> QED
      BY <1>1, <1>2, <2>1, <2>2, <2>3
  <1>5. StrLen(pos) = Len(s)
    BY <1>1, <1>2, <1>3, <1>4
  <1>6. \A i \in 1..Len(s) : Str(pos)[i] = s[i]
    BY <1>1, <1>5 DEF Holds
  <1> QED
    BY <1>1, <1>5, <1>6

(* What an assignment is made of. *)
LEMMA OneAssignment ==
    ASSUME AssignedInv, NEW i \in 1..Len(assigned)
    PROVE  /\ assigned[i].search \in Seq(Tokens) /\ assigned[i].rep \in Seq(Tokens)
           /\ assigned[i].kept \in {"none", "search", "both"} /\ assigned[i].place \in Nat
           /\ PlaceOf(i) = assigned[i].place /\ Len(assigned) \in Nat /\ Stored(assigned[i])
           /\ PlaceOf(i + 1) = EndOf(assigned[i])
  <1>1. assigned \in Seq(Assignment)
    BY DEF AssignedInv
  <1>2. assigned[i] \in Assignment /\ Len(assigned) \in Nat /\ i # Len(assigned) + 1
    BY <1>1
  <1>3. /\ assigned[i].search \in Seq(Tokens) /\ assigned[i].rep \in Seq(Tokens)
        /\ assigned[i].kept \in {"none", "search", "both"} /\ assigned[i].place \in Nat
    BY <1>2 DEF Assignment
  <1>4. PlaceOf(i) = assigned[i].place
    BY <1>2 DEF PlaceOf
  <1> QED
    BY <1>2, <1>3, <1>4 DEF AssignedInv

(* The next pair of the list is that of the next assignment that was kept. *)
LEMMA NextKept ==
    ASSUME AssignedInv, NEW i \in 1..(Len(assigned) + 1), NEW p, NoHit(i, p), ~Off(p)
    PROVE  \/ NoHit(Len(assigned) + 1, p) /\ PlaceOf(i) = path_list_pos
           \/ \E m \in 1..Len(assigned) :
                 /\ PlaceOf(m) = PlaceOf(i) /\ NoHit(m, p)
                 /\ assigned[m].kept = "both" /\ Plain(assigned[m], p)
  <1>1. PICK n \in Nat : n = Len(assigned)
    BY DEF AssignedInv
  <1>2. \A k \in 1..n : assigned[k].kept \in {"none", "search", "both"}
    BY <1>1, OneAssignment
  <1>3. PICK kept : kept = {k \in 1..n : i <= k /\ assigned[k].kept # "none"}
    OBVIOUS
  <1>4. \A j \in 1..(n + 1) :
           i <= j /\ (\A k \in 1..n : i <= k /\ k < j => assigned[k].kept = "none")
           => PlaceOf(i) = PlaceOf(j)
    BY <1>1 DEF AssignedInv
  <1>5. \A k \in 1..n : assigned[k].kept = "none" => ~Hit(k, p)
    BY DEF Hit
  <1>6. ASSUME NEW m \in 1..(n + 1), i <= m,
               \A k \in 1..n : i <= k /\ k < m => assigned[k].kept = "none"
        PROVE  NoHit(m, p)
    <2> SUFFICES ASSUME NEW k \in 1..n, k < m PROVE ~Hit(k, p)
      BY <1>1 DEF NoHit
    <2>1. CASE k < i
      BY <1>1, <2>1 DEF NoHit
    <2>2. CASE ~(k < i)
      BY <1>1, <1>5, <1>6, <2>2
    <2> QED
      BY <2>1, <2>2
  <1>7. CASE kept = {}
    <2>1. n + 1 \in 1..(n + 1) /\ i <= n + 1
      BY <1>1
    <2>2. \A k \in 1..n : i <= k /\ k < n + 1 => assigned[k].kept = "none"
      BY <1>3, <1>7
    <2>3. NoHit(n + 1, p) /\ PlaceOf(i) = PlaceOf(n + 1)
      BY <1>4, <1>6, <2>1, <2>2
    <2> QED
      BY <1>1, <2>3 DEF PlaceOf
  <1>8. CASE kept # {}
    <2>1. kept \subseteq Nat
      BY <1>3
    <2>2. PICK m \in kept : \A k \in kept : m <= k
      BY <1>8, <2>1, SmallestIn
    <2>3. m \in 1..n /\ m \in 1..(n + 1) /\ i <= m /\ assigned[m].kept # "none"
      BY <1>1, <1>3, <2>2
    <2>4. \A k \in 1..n : i <= k /\ k < m => assigned[k].kept = "none"
      BY <1>3, <2>2, <2>3
    <2>5. NoHit(m, p) /\ PlaceOf(i) = PlaceOf(m)
      BY <1>4, <1>6, <2>3, <2>4
    <2>6. Plain(assigned[m], p)
      BY <1>1, <2>3, <2>5 DEF Off
    <2>7. assigned[m].kept = "both"
      BY <1>2, <2>3, <2>6 DEF Plain
    <2> QED
      BY <1>1, <2>3, <2>5, <2>6, <2>7
  <1> QED
    BY <1>7, <1>8

(* makePath finds it there. *)
LEMMA PairThere ==
    ASSUME ListInv, AssignedInv, NEW m \in 1..Len(assigned), NEW p \in Seq(Tokens),
           assigned[m].kept = "both", Plain(assigned[m], p)
    PROVE  LET a == assigned[m] IN
           /\ a.place \in Heap /\ a.place < path_list_pos /\ path_list[a.place] # NUL
           /\ Str(a.place) = a.search /\ StrLen(a.place) = Len(a.search)
           /\ Str(After(a.place)) = a.rep /\ After(After(a.place)) = PlaceOf(m + 1)
  <1>1. PICK a : a = assigned[m]
    OBVIOUS
  <1>2. /\ a.search \in Seq(Tokens) /\ a.rep \in Seq(Tokens) /\ a.place \in Nat
        /\ Stored(a) /\ PlaceOf(m + 1) = EndOf(a) /\ a.kept = "both" /\ a.search # <<>>
    BY <1>1, OneAssignment DEF Plain
  <1>3. PICK q : q = RepPlace(a)
    OBVIOUS
  <1>4. PICK s \in Seq(Tokens) : s = a.search
    BY <1>2
  <1>5. PICK r \in Seq(Tokens) : r = a.rep
    BY <1>2
  <1>6. PICK pos \in Nat : pos = a.place
    BY <1>2
  <1>7. q = pos + Len(s) + 1 /\ EndOf(a) = q + Len(r) + 1
    BY <1>2, <1>3, <1>4, <1>5, <1>6 DEF EndOf, RepPlace
  <1>8. /\ q + Len(r) + 1 <= path_list_pos /\ Holds(pos, s) /\ Holds(q, r)
    BY <1>2, <1>3, <1>4, <1>5, <1>6, <1>7 DEF Stored
  <1>9. pos \in Heap /\ q \in Heap /\ pos < path_list_pos
    BY <1>7, <1>8, PathAssumption DEF ListInv, Heap
  <1>10. Str(pos) = s /\ StrLen(pos) = Len(s) /\ Str(q) = r /\ StrLen(q) = Len(r)
    BY <1>8, <1>9, StrHolds
  <1>11. After(pos) = q /\ After(q) = EndOf(a)
    BY <1>7, <1>10 DEF After
  <1>12. path_list[pos] # NUL
    <2>1. 1 \in 1..Len(s) /\ s[1] \in Tokens /\ pos + 1 - 1 = pos
      BY <1>2, <1>4
    <2>2. path_list[pos] = s[1]
      BY <1>8, <2>1 DEF Holds
    <2> QED
      BY <2>1, <2>2, PathAssumption
  <1> QED
    BY <1>1, <1>2, <1>4, <1>5, <1>6, <1>9, <1>10, <1>11, <1>12

(* A path that is looked up. *)
LEMMA LookKeeps ==
    ASSUME ListInv, AssignedInv, HookTypes, NEW t \in Threads, path[t] \in Seq(Tokens),
           Looks(path[t], place[t]), ~Off(path[t]), Ended(t)
    PROVE  NoHit(Len(assigned) + 1, path[t])
  <1>1. PICK i \in 1..(Len(assigned) + 1) : PlaceOf(i) = place[t] /\ NoHit(i, path[t])
    BY DEF Looks
  <1>2. SUFFICES ASSUME NEW m \in 1..Len(assigned), PlaceOf(m) = place[t],
                        assigned[m].kept = "both", Plain(assigned[m], path[t])
                 PROVE  FALSE
    BY <1>1, NextKept
  <1>3. assigned[m].place = place[t]
    BY <1>2, OneAssignment
  <1>4. place[t] \in Heap /\ path_list[place[t]] # NUL
    BY <1>2, <1>3, PairThere
  <1> QED
    BY <1>4, PathAssumption DEF Ended, Heap

LEMMA LookFinds ==
    ASSUME ListInv, AssignedInv, HookTypes, NEW t \in Threads, path[t] \in Seq(Tokens),
           Looks(path[t], place[t]), ~Off(path[t]), ~Ended(t)
    PROVE  \E m \in 1..Len(assigned) :
              /\ NoHit(m, path[t]) /\ assigned[m].kept = "both" /\ Plain(assigned[m], path[t])
              /\ Str(place[t]) = assigned[m].search /\ StrLen(place[t]) = Len(assigned[m].search)
              /\ Str(After(place[t])) = assigned[m].rep /\ After(After(place[t])) = PlaceOf(m + 1)
  <1>1. PICK i \in 1..(Len(assigned) + 1) : PlaceOf(i) = place[t] /\ NoHit(i, path[t])
    BY DEF Looks
  <1>2. place[t] < path_list_pos /\ place[t] \in Nat /\ path_list_pos \in Nat
    BY LookPlace, PathAssumption DEF ListInv, Heap
  <1>3. PICK m \in 1..Len(assigned) :
           /\ PlaceOf(m) = place[t] /\ NoHit(m, path[t])
           /\ assigned[m].kept = "both" /\ Plain(assigned[m], path[t])
    BY <1>1, <1>2, NextKept
  <1>4. assigned[m].place = place[t]
    BY <1>3, OneAssignment
  <1> QED
    BY <1>3, <1>4, PairThere

(* The pair is passed. *)
LEMMA LookPasses ==
    ASSUME ListInv, AssignedInv, HookTypes, NEW t \in Threads, path[t] \in Seq(Tokens),
           Looks(path[t], place[t]), ~Off(path[t]), ~Ended(t), ~Begins(path[t], Str(place[t]))
    PROVE  Looks(path[t], After(After(place[t])))
  <1>1. PICK m \in 1..Len(assigned) :
           /\ NoHit(m, path[t]) /\ Str(place[t]) = assigned[m].search
           /\ After(After(place[t])) = PlaceOf(m + 1)
    BY LookFinds
  <1>2. ~Hit(m, path[t])
    BY <1>1 DEF Begins, Hit
  <1>3. NoHit(m + 1, path[t]) /\ m + 1 \in 1..(Len(assigned) + 1)
    <2>1. Len(assigned) \in Nat
      BY DEF AssignedInv
    <2>2. \A j \in 1..Len(assigned) : j < m + 1 => j < m \/ j = m
      BY <2>1
    <2> QED
      BY <1>1, <1>2, <2>1, <2>2 DEF NoHit
  <1> QED
    BY <1>1, <1>3 DEF Looks

(* The pair is taken. *)
LEMMA LookTakes ==
    ASSUME ListInv, AssignedInv, HookTypes, NEW t \in Threads, path[t] \in Seq(Tokens),
           Looks(path[t], place[t]), ~Off(path[t]), ~Ended(t), Begins(path[t], Str(place[t]))
    PROVE  /\ ~(Len(path[t]) < StrLen(place[t]))
           /\ \E i \in 1..Len(assigned) :
                 /\ Taken(i, path[t], SubSeq(path[t], StrLen(place[t]) + 1, Len(path[t])))
                 /\ Str(After(place[t])) = assigned[i].rep
  <1>1. PICK m \in 1..Len(assigned) :
           /\ NoHit(m, path[t]) /\ assigned[m].kept = "both" /\ Plain(assigned[m], path[t])
           /\ Str(place[t]) = assigned[m].search /\ StrLen(place[t]) = Len(assigned[m].search)
           /\ Str(After(place[t])) = assigned[m].rep
    BY LookFinds
  <1>2. PICK s \in Seq(Tokens) : s = assigned[m].search
    BY OneAssignment
  <1>3. IsPrefix(s, path[t])
    BY <1>1, <1>2, PrefixSelf DEF Begins, Plain
  <1>4. ~(Len(path[t]) < StrLen(place[t]))
    <2>1. Len(s) <= Len(path[t]) /\ Len(s) \in Nat /\ Len(path[t]) \in Nat
      BY <1>3, PrefixLen
    <2> QED
      BY <1>1, <1>2, <2>1
  <1>5. Hit(m, path[t])
    BY <1>1, <1>2, <1>3 DEF Hit
  <1> QED
    BY <1>1, <1>2, <1>4, <1>5 DEF Taken, RestOf

(* The list stays as it is while paths are looked up.                      *)
LEMMA ListSame ==
    ASSUME UNCHANGED listVars
    PROVE  /\ \A p : Off(p)' = Off(p)
           /\ \A p, pos : Looks(p, pos)' = Looks(p, pos)
           /\ \A p, out : Made(p, out)' = Made(p, out)
           /\ \A i, p, r : Taken(i, p, r)' = Taken(i, p, r)
           /\ assigned' = assigned
  <1>1. assigned' = assigned /\ path_list_pos' = path_list_pos
    BY DEF listVars
  <1>2. \A i, p : Hit(i, p)' = Hit(i, p)
    BY <1>1 DEF Hit
  <1>3. \A i, p : NoHit(i, p)' = NoHit(i, p)
    BY <1>1, <1>2 DEF NoHit, Hit
  <1>4. \A i, p : RestOf(i, p)' = RestOf(i, p)
    BY <1>1 DEF RestOf
  <1>5. \A p : Off(p)' = Off(p)
    BY <1>1, <1>3 DEF Off, NoHit, Hit
  <1>6. \A p, pos : Looks(p, pos)' = Looks(p, pos)
    BY <1>1, <1>3 DEF Looks, PlaceOf, NoHit, Hit
  <1>7. \A p, out : Made(p, out)' = Made(p, out)
    BY <1>1, <1>2, <1>3, <1>4 DEF Made, NoHit, Hit, RestOf
  <1>8. \A i, p, r : Taken(i, p, r)' = Taken(i, p, r)
    BY <1>1, <1>2, <1>3, <1>4 DEF Taken, NoHit, Hit, RestOf
  <1> QED
    BY <1>1, <1>5, <1>6, <1>7, <1>8

LEMMA AppendBehind ==
    ASSUME NEW a \in Seq(Tokens), NEW s \in Seq(Tokens), NEW c \in Tokens
    PROVE  Append(a \o s, c) = a \o Append(s, c)
  OBVIOUS

LEMMA AppendTo ==
    ASSUME NEW a \in Seq(Tokens), NEW r \in Seq(Tokens), NEW n \in Nat, n + 1 <= Len(r)
    PROVE  Append(a \o SubSeq(r, 1, n), r[n + 1]) = a \o SubSeq(r, 1, n + 1)
  <1>1. /\ SubSeq(r, 1, n) \in Seq(Tokens) /\ Len(SubSeq(r, 1, n)) = n
        /\ SubSeq(r, 1, n + 1) \in Seq(Tokens) /\ Len(SubSeq(r, 1, n + 1)) = n + 1
        /\ \A k \in 1..n : SubSeq(r, 1, n)[k] = r[k]
        /\ \A k \in 1..(n + 1) : SubSeq(r, 1, n + 1)[k] = r[k]
    OBVIOUS
  <1>2. r[n + 1] \in Tokens
    OBVIOUS
  <1>3. Append(SubSeq(r, 1, n), r[n + 1]) = SubSeq(r, 1, n + 1)
    <2> DEFINE s == SubSeq(r, 1, n)
               u == SubSeq(r, 1, n + 1)
    <2>1. s \in Seq(Tokens) /\ Len(s) = n /\ u \in Seq(Tokens) /\ Len(u) = n + 1
      BY <1>1
    <2>2. \A k \in 1..(n + 1) : u[k] = IF k = n + 1 THEN r[n + 1] ELSE s[k]
      BY <1>1
    <2> HIDE DEF s, u
    <2> QED
      BY <1>2, <2>1, <2>2
  <1>4. Append(a \o SubSeq(r, 1, n), r[n + 1]) = a \o Append(SubSeq(r, 1, n), r[n + 1])
    BY <1>1, <1>2, AppendBehind
  <1> QED
    BY <1>3, <1>4

(* A step of the thread that is in a hook.                                 *)
LEMMA PathOfThread ==
    ASSUME ListInv, AssignedInv, HookTypes, NEW t \in Threads, ThreadInv(t), PathStep(t),
           t_pc[t] # "idle" => PathInv(t) /\ path[t] \in Seq(Tokens)
    PROVE  PathInv(t)' /\ path'[t] \in Seq(Tokens)
  <1>0. /\ UNCHANGED listVars
        /\ at[t] \in Cells /\ at[t] \in Nat /\ rest[t] \in Seq(Tokens)
        /\ hooked_path[t] \in Seq(Tokens) /\ BufSize \in Nat
    BY PathTouches, AtInCells, PathAssumption DEF HookTypes
  <1>1. /\ \A p : Off(p)' = Off(p)
        /\ \A p, pos : Looks(p, pos)' = Looks(p, pos)
        /\ \A p, out : Made(p, out)' = Made(p, out)
        /\ \A i, p, r : Taken(i, p, r)' = Taken(i, p, r)
        /\ assigned' = assigned
    BY <1>0, ListSame
  <1>2. PICK p, pos, out, r, n : /\ p = path'[t] /\ pos = place'[t] /\ out = hooked_path'[t]
                                 /\ r = rest'[t] /\ n = at'[t]
    OBVIOUS
  <1>3. /\ Off(path[t])' = Off(p)
        /\ Looks(path[t], place[t])' = Looks(p, pos)
        /\ Made(path[t], hooked_path[t])' = Made(p, out)
        /\ Saves(path[t], hooked_path[t], rest[t], at[t])' = Saves(p, out, r, n)'
        /\ Appends(path[t], hooked_path[t], rest[t], at[t])' = Appends(p, out, r, n)'
    <2>1. Off(path[t])' = Off(p)'
      BY <1>2 DEF Off, NoHit, Hit
    <2>2. Looks(path[t], place[t])' = Looks(p, pos)'
      BY <1>2 DEF Looks, PlaceOf, NoHit, Hit
    <2>3. Made(path[t], hooked_path[t])' = Made(p, out)'
      BY <1>2 DEF Made, NoHit, Hit, RestOf
    <2>4. Saves(path[t], hooked_path[t], rest[t], at[t])' = Saves(p, out, r, n)'
      BY <1>2 DEF Saves, Taken, NoHit, Hit, RestOf
    <2>5. Appends(path[t], hooked_path[t], rest[t], at[t])' = Appends(p, out, r, n)'
      BY <1>2 DEF Appends, Taken, NoHit, Hit, RestOf
    <2> QED
      BY <1>1, <2>1, <2>2, <2>3, <2>4, <2>5
  <1>4. (\/ Off(p)
         \/ /\ t_pc'[t] = "look" => Looks(p, pos)
            /\ t_pc'[t] = "save" => Saves(p, out, r, n)'
            /\ t_pc'[t] = "append" => Appends(p, out, r, n)'
            /\ t_pc'[t] = "done" => Made(p, out))
        => PathInv(t)'
    BY <1>3 DEF PathInv
  <1>5. CASE \E q \in GamePaths : OpenPath(t, q)
    <2>1. p \in GamePaths /\ pos = 0 /\ t_pc'[t] = "look"
      BY <1>2, <1>5 DEF OpenPath, Goto, HookTypes
    <2>2. 1 \in 1..(Len(assigned) + 1) /\ PlaceOf(1) = 0 /\ \A j \in 1..Len(assigned) : ~(j < 1)
      BY DEF AssignedInv
    <2>3. Looks(p, pos)
      BY <2>1, <2>2 DEF Looks, NoHit
    <2>4. p \in Seq(Tokens)
      BY <2>1, PathAssumption
    <2> QED
      BY <1>2, <1>4, <2>1, <2>3, <2>4
  <1>6. CASE ~ \E q \in GamePaths : OpenPath(t, q)
    <2>1. p = path[t] /\ t_pc[t] # "idle"
      BY <1>2, <1>6 DEF PathStep, KeepPath, NextPair, TakePath, SaveRest, EndSave, AppendRest,
                        EndAppend, Goto
    <2>2. p \in Seq(Tokens) /\ PathInv(t)
      BY <2>1
    <2>3. SUFFICES ASSUME ~Off(p) PROVE PathInv(t)'
      BY <1>2, <1>4, <2>2
    <2>4. /\ t_pc[t] = "look" => Looks(p, place[t])
          /\ t_pc[t] = "save" => Saves(p, hooked_path[t], rest[t], at[t])
          /\ t_pc[t] = "append" => Appends(p, hooked_path[t], rest[t], at[t])
      BY <2>1, <2>2, <2>3 DEF PathInv
    <2>5. CASE KeepPath(t)
      <3>1. t_pc'[t] = "done" /\ out = p /\ Looks(p, place[t]) /\ Ended(t)
        BY <1>2, <2>1, <2>4, <2>5 DEF KeepPath, Goto, HookTypes
      <3>2. NoHit(Len(assigned) + 1, p)
        BY <2>1, <2>2, <2>3, <3>1, LookKeeps
      <3> QED
        BY <1>4, <3>1, <3>2 DEF Made
    <2>6. CASE NextPair(t)
      <3>1. /\ t_pc'[t] = "look" /\ pos = After(After(place[t]))
            /\ Looks(p, place[t]) /\ ~Ended(t) /\ ~Begins(p, Str(place[t]))
        BY <1>2, <2>1, <2>4, <2>6 DEF NextPair, HookTypes
      <3>2. Looks(p, pos)
        BY <2>1, <2>2, <2>3, <3>1, LookPasses
      <3> QED
        BY <1>4, <3>1, <3>2
    <2>7. CASE TakePath(t)
      <3>1. /\ t_pc'[t] = "save" /\ out = Str(After(place[t])) /\ n = 0
            /\ Looks(p, place[t]) /\ ~Ended(t) /\ Begins(p, Str(place[t]))
        BY <1>2, <2>1, <2>4, <2>7 DEF TakePath, Goto, HookTypes
      <3>2. PICK i \in 1..Len(assigned) :
               /\ Taken(i, p, SubSeq(p, StrLen(place[t]) + 1, Len(p)))
               /\ Str(After(place[t])) = assigned[i].rep
        BY <2>1, <2>2, <2>3, <3>1, LookTakes
      <3>3. ~(Len(p) < StrLen(place[t]))
        BY <2>1, <2>2, <2>3, <3>1, LookTakes
      <3>4. r = SubSeq(p, StrLen(place[t]) + 1, Len(p))
        BY <1>2, <2>1, <2>7, <3>3 DEF TakePath, HookTypes
      <3>5. Taken(i, p, r)' /\ out = assigned'[i].rep /\ i \in 1..Len(assigned')
        BY <1>1, <3>1, <3>2, <3>4
      <3>6. n <= Len(r) /\ \A k \in 1..n : rep_buf'[k - 1] = r[k]
        <4>1. Len(r) \in Nat
          BY <2>2, <3>4, LookPlace, <3>1, SubSeqProperties
        <4> QED
          BY <3>1, <4>1
      <3>7. Saves(p, out, r, n)'
        BY <3>5, <3>6 DEF Saves
      <3> QED
        BY <1>4, <3>1, <3>7
    <2>8. CASE SaveRest(t)
      <3>1. /\ t_pc'[t] = "save" /\ out = hooked_path[t] /\ n = at[t] + 1 /\ r = rest[t]
            /\ at[t] < Len(r) /\ Saves(p, out, r, at[t])
        BY <1>2, <2>1, <2>4, <2>8 DEF SaveRest, HookTypes
      <3>2. \A k \in Cells : rep_buf'[k] = IF k = at[t] THEN r[n] ELSE rep_buf[k]
        BY <1>0, <2>8, <3>1 DEF SaveRest, HookTypes
      <3>3. Len(r) \in Nat /\ \A k \in 1..n : k - 1 \in Cells /\ (k - 1 = at[t] => k = n)
        BY <1>0, <3>1 DEF Cells
      <3>4. \A k \in 1..n : rep_buf'[k - 1] = r[k]
        <4>1. \A k \in 1..at[t] : rep_buf[k - 1] = r[k]
          BY <3>1 DEF Saves
        <4>2. \A k \in 1..n : k - 1 # at[t] => k \in 1..at[t]
          BY <1>0, <3>1
        <4> QED
          BY <3>2, <3>3, <4>1, <4>2
      <3>5. PICK i \in 1..Len(assigned) : Taken(i, p, r) /\ out = assigned[i].rep
        BY <3>1 DEF Saves
      <3>6. n <= Len(r)
        BY <1>0, <3>1, <3>3
      <3>7. Saves(p, out, r, n)'
        BY <1>1, <3>4, <3>5, <3>6 DEF Saves
      <3> QED
        BY <1>4, <3>1, <3>7
    <2>9. CASE EndSave(t)
      <3>1. /\ t_pc'[t] = "append" /\ out = hooked_path[t] /\ n = 0 /\ r = rest[t]
            /\ at[t] = Len(r) /\ Saves(p, out, r, at[t])
        BY <1>2, <2>1, <2>4, <2>9 DEF EndSave, Goto, HookTypes
      <3>2. \A k \in Cells : rep_buf'[k] = IF k = at[t] THEN NUL ELSE rep_buf[k]
        BY <1>0, <2>9, <3>1 DEF EndSave, HookTypes
      <3>3. \A k \in 1..Len(r) : k - 1 \in Cells /\ k - 1 # at[t]
        BY <1>0, <3>1 DEF Cells
      <3>4. \A k \in 1..Len(r) : rep_buf'[k - 1] = r[k]
        BY <3>1, <3>2, <3>3 DEF Saves
      <3>5. PICK i \in 1..Len(assigned) : Taken(i, p, r) /\ out = assigned[i].rep
        BY <3>1 DEF Saves
      <3>6. out = assigned[i].rep \o SubSeq(r, 1, n)
        <4>1. r \in Seq(Tokens) /\ assigned[i].rep \in Seq(Tokens)
          BY <1>0, <3>1, <3>5, OneAssignment
        <4>2. SubSeq(r, 1, 0) = <<>>
          BY <4>1
        <4> QED
          BY <3>1, <3>5, <4>1, <4>2
      <3>7. rep_buf'[Len(r)] = NUL /\ n <= Len(r)
        BY <1>0, <3>1, <3>2
      <3>8. Appends(p, out, r, n)'
        BY <1>1, <3>4, <3>5, <3>6, <3>7 DEF Appends
      <3> QED
        BY <1>4, <3>1, <3>8
    <2>10. CASE AppendRest(t)
      <3>1. /\ t_pc'[t] = "append" /\ out = Append(hooked_path[t], rep_buf[at[t]]) /\ n = at[t] + 1
            /\ r = rest[t] /\ rep_buf' = rep_buf /\ rep_buf[at[t]] # NUL
            /\ Appends(p, hooked_path[t], r, at[t])
        BY <1>2, <2>1, <2>4, <2>10 DEF AppendRest, HookTypes
      <3>2. n <= Len(r) /\ rep_buf[at[t]] = r[n]
        <4>1. at[t] <= Len(r) /\ Len(r) \in Nat /\ rep_buf[Len(r)] = NUL
          BY <1>0, <3>1 DEF Appends
        <4>2. n \in 1..Len(r) /\ n - 1 = at[t]
          BY <1>0, <3>1, <4>1
        <4>3. \A k \in 1..Len(r) : rep_buf[k - 1] = r[k]
          BY <3>1 DEF Appends
        <4>4. rep_buf[n - 1] = r[n] /\ n <= Len(r)
          BY <4>1, <4>2, <4>3
        <4> QED
          BY <4>2, <4>4
      <3>3. PICK i \in 1..Len(assigned) :
               Taken(i, p, r) /\ hooked_path[t] = assigned[i].rep \o SubSeq(r, 1, at[t])
        BY <3>1 DEF Appends
      <3>4. out = assigned[i].rep \o SubSeq(r, 1, n)
        <4>1. r \in Seq(Tokens) /\ assigned[i].rep \in Seq(Tokens)
          BY <1>0, <3>1, <3>3, OneAssignment
        <4>2. Append(assigned[i].rep \o SubSeq(r, 1, at[t]), r[at[t] + 1])
                 = assigned[i].rep \o SubSeq(r, 1, at[t] + 1)
          BY <1>0, <3>1, <3>2, <4>1, AppendTo
        <4> QED
          BY <3>1, <3>2, <3>3, <4>2
      <3>5. /\ \A k \in 1..Len(r) : rep_buf'[k - 1] = r[k]
            /\ rep_buf'[Len(r)] = NUL
        BY <3>1 DEF Appends
      <3>6. Appends(p, out, r, n)'
        BY <1>1, <3>2, <3>3, <3>4, <3>5 DEF Appends
      <3> QED
        BY <1>4, <3>1, <3>6
    <2>11. CASE EndAppend(t)
      <3>1. /\ t_pc'[t] = "done" /\ out = hooked_path[t] /\ rep_buf[at[t]] = NUL
            /\ Appends(p, out, rest[t], at[t])
        BY <1>2, <2>1, <2>4, <2>11 DEF EndAppend, Goto, HookTypes
      <3>2. at[t] = Len(rest[t])
        <4>1. at[t] <= Len(rest[t]) /\ Len(rest[t]) \in Nat
          BY <1>0, <3>1 DEF Appends
        <4>2. ASSUME at[t] < Len(rest[t]) PROVE FALSE
          <5>1. at[t] + 1 \in 1..Len(rest[t]) /\ (at[t] + 1) - 1 = at[t]
            BY <1>0, <4>1, <4>2
          <5>2. rep_buf[at[t]] = rest[t][at[t] + 1] /\ rest[t][at[t] + 1] \in Tokens
            BY <1>0, <3>1, <5>1 DEF Appends
          <5> QED
            BY <3>1, <5>2, PathAssumption
        <4> QED
          BY <1>0, <4>1, <4>2
      <3>3. PICK i \in 1..Len(assigned) :
               Taken(i, p, rest[t]) /\ out = assigned[i].rep \o SubSeq(rest[t], 1, at[t])
        BY <3>1 DEF Appends
      <3>4. SubSeq(rest[t], 1, at[t]) = rest[t]
        BY <1>0, <3>2
      <3>5. Made(p, out)
        BY <3>3, <3>4 DEF Made, Taken
      <3> QED
        BY <1>4, <3>1, <3>5
    <2> QED
      BY <1>6, <2>5, <2>6, <2>7, <2>8, <2>9, <2>10, <2>11 DEF PathStep
  <1> QED
    BY <1>5, <1>6

LEMMA SerialStep ==
    ASSUME LoadInv, listInvs, HookInv, SerialInv, [Next]_vars
    PROVE  SerialInv'
  <1>0. HookTypes /\ IdleInv /\ ListInv /\ AssignedInv /\ (\A t \in Threads : ThreadInv(t))
    BY DEF HookInv, listInvs
  <1>1. order' = order
    BY DEF Next, LoadStep, LoadFile, NoFile, EndLoad, Main, Drop, Configure, SetPath, ConfigPath,
           AssignPath, Nid, KPatch, NextLine, GameStep, PathStep, OpenPath, KeepPath, NextPair,
           TakePath, SaveRest, EndSave, AppendRest, EndAppend, vars
  <1>2. SUFFICES ASSUME order = "serial"
                 PROVE  /\ \A t \in Threads : \A u \in Threads : Busy(t)' /\ Busy(u)' => t = u
                        /\ \A t \in Threads : t_pc'[t] # "idle" => PathInv(t)' /\ path'[t] \in Seq(Tokens)
    BY <1>1 DEF SerialInv
  <1>3. /\ \A t \in Threads : \A u \in Threads : Busy(t) /\ Busy(u) => t = u
        /\ \A t \in Threads : t_pc[t] # "idle" => PathInv(t) /\ path[t] \in Seq(Tokens)
    BY <1>2 DEF SerialInv
  <1>4. CASE LoadStep
    <2>1. UNCHANGED hookVars /\ cfg_pc # "run"
      BY <1>4 DEF LoadStep, LoadFile, NoFile, EndLoad, Main, Drop, Configure, SetPath, ConfigPath,
                  AssignPath, Nid, KPatch, NextLine
    <2>2. \A t \in Threads : t_pc'[t] = "idle"
      BY <1>0, <2>1 DEF IdleInv, hookVars
    <2> QED
      BY <2>2 DEF Busy
  <1>5. ASSUME NEW u \in Threads, UNCHANGED listVars, t_pc'[u] # "idle",
               t_pc'[u] = t_pc[u], path'[u] = path[u], place'[u] = place[u],
               hooked_path'[u] = hooked_path[u], rest'[u] = rest[u], at'[u] = at[u],
               Busy(u) => rep_buf' = rep_buf
        PROVE  PathInv(u)' /\ path'[u] \in Seq(Tokens)
    <2>1. PathInv(u) /\ path[u] \in Seq(Tokens)
      BY <1>3, <1>5
    <2>2. PICK p, pos, out, r, n : /\ p = path[u] /\ pos = place[u] /\ out = hooked_path[u]
                                   /\ r = rest[u] /\ n = at[u]
      OBVIOUS
    <2>3. /\ Off(p)' = Off(p) /\ Looks(p, pos)' = Looks(p, pos) /\ Made(p, out)' = Made(p, out)
          /\ \A i : Taken(i, p, r)' = Taken(i, p, r)
          /\ assigned' = assigned
      BY <1>5, ListSame
    <2>4. /\ Off(path[u])' = Off(p)
          /\ Looks(path[u], place[u])' = Looks(p, pos)
          /\ Made(path[u], hooked_path[u])' = Made(p, out)
          /\ Saves(path[u], hooked_path[u], rest[u], at[u])' = Saves(p, out, r, n)'
          /\ Appends(path[u], hooked_path[u], rest[u], at[u])' = Appends(p, out, r, n)'
      <3>1. Off(path[u])' = Off(p)'
        BY <1>5, <2>2 DEF Off, NoHit, Hit
      <3>2. Looks(path[u], place[u])' = Looks(p, pos)'
        BY <1>5, <2>2 DEF Looks, PlaceOf, NoHit, Hit
      <3>3. Made(path[u], hooked_path[u])' = Made(p, out)'
        BY <1>5, <2>2 DEF Made, NoHit, Hit, RestOf
      <3>4. Saves(path[u], hooked_path[u], rest[u], at[u])' = Saves(p, out, r, n)'
        BY <1>5, <2>2 DEF Saves, Taken, NoHit, Hit, RestOf
      <3>5. Appends(path[u], hooked_path[u], rest[u], at[u])' = Appends(p, out, r, n)'
        BY <1>5, <2>2 DEF Appends, Taken, NoHit, Hit, RestOf
      <3> QED
        BY <2>3, <3>1, <3>2, <3>3, <3>4, <3>5
    <2>5. ASSUME Busy(u) PROVE Saves(p, out, r, n)' = Saves(p, out, r, n)
                               /\ Appends(p, out, r, n)' = Appends(p, out, r, n)
      BY <1>5, <2>3, <2>5 DEF Saves, Appends
    <2>6. PathInv(u)'
      BY <1>5, <2>1, <2>2, <2>4, <2>5 DEF PathInv, Busy
    <2> QED
      BY <1>5, <2>1, <2>6
  <1>6. CASE GameStep
    <2>1. PICK t \in Threads : PathStep(t)
      BY <1>6 DEF GameStep
    <2>2. Touches(t) /\ UNCHANGED listVars
      BY <1>0, <2>1, PathTouches
    <2>3. PathInv(t)' /\ path'[t] \in Seq(Tokens)
      BY <1>0, <1>3, <2>1, PathOfThread
    <2>4. (\E p \in GamePaths : OpenPath(t, p)) \/ Busy(t)
      BY <2>1 DEF PathStep, KeepPath, NextPair, TakePath, SaveRest, EndSave, AppendRest, EndAppend,
                  Goto, Busy
    <2>5. ASSUME NEW u \in Threads, u # t PROVE ~Busy(u) /\ ~Busy(u)'
      <3>1. t_pc'[u] = t_pc[u]
        BY <2>2, <2>5 DEF Touches
      <3>2. CASE \E p \in GamePaths : OpenPath(t, p)
        BY <1>2, <3>1, <3>2 DEF OpenPath, Busy
      <3>3. CASE Busy(t)
        BY <1>3, <2>5, <3>1, <3>3 DEF Busy
      <3> QED
        BY <2>4, <3>2, <3>3
    <2>6. ASSUME NEW u \in Threads, u # t, t_pc'[u] # "idle"
          PROVE  PathInv(u)' /\ path'[u] \in Seq(Tokens)
      BY <1>5, <2>2, <2>5, <2>6 DEF Touches
    <2> QED
      BY <2>3, <2>5, <2>6
  <1>7. CASE UNCHANGED vars
    <2>1. UNCHANGED hookVars /\ UNCHANGED listVars
      BY <1>7 DEF vars
    <2>2. \A t \in Threads : Busy(t)' = Busy(t)
      BY <2>1 DEF hookVars, Busy
    <2>3. ASSUME NEW u \in Threads, t_pc'[u] # "idle" PROVE PathInv(u)' /\ path'[u] \in Seq(Tokens)
      BY <1>5, <2>1, <2>3 DEF hookVars
    <2> QED
      BY <1>3, <2>2, <2>3
  <1> QED
    BY <1>4, <1>6, <1>7 DEF Next

(* How the system opens a path that makePath has made.                     *)
LEMMA SmallestOne == ASSUME NEW x \in Nat PROVE Smallest({x}) = x
  <1>1. {x} \subseteq Nat /\ {x} # {}
    OBVIOUS
  <1>2. Smallest({x}) \in {x}
    BY <1>1, SmallestIn, Zenon
  <1> QED
    BY <1>2

LEMMA FileInImage ==
    ASSUME NEW rep \in Seq(Tokens), NEW behind \in Seq(Tokens), behind # <<>>,
           Last(rep) = At, Image(Front(rep)), NEW umd, umd # 0
    PROVE  OpenedAs(rep \o behind, umd) = "file_in_image"
  <1>0. rep # <<>>
    <2>1. Front(<<>>) = <<>>
      BY DEF Front
    <2> QED
      BY <2>1 DEF Image
  <1>1. PICK n \in Nat : n = Len(rep) - 1
    BY <1>0
  <1>2. PICK front \in Seq(Tokens) : front = Front(rep)
    <2>1. Front(rep) \in Seq(Tokens)
      BY <1>1, SubSeqProperties DEF Front
    <2> QED
      BY <2>1
  <1>3. Len(front) = n /\ \A i \in 1..n : front[i] = rep[i]
    BY <1>1, <1>2 DEF Front
  <1>4. /\ n > 0 /\ front[n] = IsoExt /\ \A i \in 1..(n - 1) : front[i] \notin {IsoExt, At}
    BY <1>1, <1>2, <1>3 DEF Image, Last
  <1>5. PICK s \in Seq(Tokens) : s = rep \o behind
    <2>1. rep \o behind \in Seq(Tokens)
      OBVIOUS
    <2> QED
      BY <2>1
  <1>6. /\ Len(s) > n + 1 /\ s[n + 1] = At /\ \A i \in 1..n : s[i] = front[i]
        /\ Len(s) \in Nat
    <2>1. rep[n + 1] = At
      BY <1>1 DEF Last
    <2> QED
      BY <1>1, <1>3, <1>5, <2>1
  <1>7. \A i \in 1..n : s[i] # At
    BY <1>4, <1>6, PathAssumption
  <1>8. Upto(s, At) \in Seq(Tokens) /\ Len(Upto(s, At)) = n /\ \A i \in 1..n : Upto(s, At)[i] = s[i]
    <2>1. PICK u \in Seq(Tokens) : u = Upto(s, At)
      BY UptoType
    <2>2. /\ Len(u) \in Nat /\ Len(u) <= Len(s) /\ u = SubSeq(s, 1, Len(u))
          /\ \A i \in 1..Len(u) : s[i] # At
          /\ Len(u) < Len(s) => s[Len(u) + 1] = At
      BY <2>1, UptoType
    <2>3. Len(u) < n + 1
      <3>1. ~(Len(u) >= n + 1)
        BY <1>6, <2>2
      <3> QED
        BY <2>2, <3>1
    <2>4. ~(Len(u) < n)
      BY <1>6, <1>7, <2>2
    <2>5. Len(u) = n
      <3>1. Len(u) \in Nat /\ n \in Nat
        OBVIOUS
      <3> QED
        BY <2>3, <2>4, <3>1
    <2> QED
      BY <1>6, <2>1, <2>2, <2>5
  <1>9. PICK name \in Seq(Tokens) : name = Upto(s, At)
    BY <1>8
  <1>10. {i \in DOMAIN name : name[i] = IsoExt} = {n}
    <2>1. DOMAIN name = 1..n /\ \A i \in 1..n : name[i] = front[i]
      BY <1>6, <1>8, <1>9
    <2>2. \A i \in 1..n : i = n \/ i \in 1..(n - 1)
      OBVIOUS
    <2>3. n \in 1..n
      BY <1>4
    <2>4. \A i \in 1..n : name[i] = IsoExt <=> i = n
      BY <1>4, <2>1, <2>2, <2>3
    <2> QED
      BY <2>1, <2>3, <2>4
  <1>11. Smallest({i \in DOMAIN name : name[i] = IsoExt}) + 2 = n + 2
    BY <1>10, SmallestOne
  <1>12. n + 2 \in DOMAIN s /\ n + 2 # Len(name) + 1
    BY <1>6, <1>8, <1>9
  <1>13. {i \in DOMAIN name : name[i] = IsoExt} # {}
    BY <1>10
  <1> QED
    BY <1>5, <1>9, <1>11, <1>12, <1>13, Zenon DEF OpenedAs

LEMMA TheImage ==
    ASSUME NEW rep \in Seq(Tokens), Image(rep), NEW umd, umd # 0
    PROVE  OpenedAs(rep, umd) = "image"
  <1>1. PICK n \in Nat : n = Len(rep)
    OBVIOUS
  <1>2. n > 0 /\ rep[n] = IsoExt /\ \A i \in 1..(n - 1) : rep[i] \notin {IsoExt, At}
    BY <1>1 DEF Image, Last
  <1>3. Upto(rep, At) = rep
    <2>1. \A i \in 1..n : i = n \/ i \in 1..(n - 1)
      OBVIOUS
    <2>2. ~Contains(rep, At)
      BY <1>1, <1>2, <2>1, PathAssumption DEF Contains
    <2> QED
      BY <2>2 DEF Upto
  <1>4. {i \in DOMAIN rep : rep[i] = IsoExt} = {n}
    <2>1. DOMAIN rep = 1..n
      BY <1>1
    <2>2. \A i \in 1..n : i # n => i \in 1..(n - 1)
      OBVIOUS
    <2> QED
      BY <1>2, <2>1, <2>2
  <1>5. Smallest({i \in DOMAIN rep : rep[i] = IsoExt}) + 2 = n + 2
    BY <1>4, SmallestOne
  <1>6. n + 2 \notin DOMAIN rep
    BY <1>1
  <1>7. {i \in DOMAIN rep : rep[i] = IsoExt} # {}
    BY <1>4
  <1> QED
    BY <1>3, <1>5, <1>6, <1>7, Zenon DEF OpenedAs

LEMMA PathsMade ==
    ASSUME AssignedInv, HookTypes, SerialInv
    PROVE  PathsAsAssigned
  <1> SUFFICES ASSUME order = "serial", NEW t \in Threads, t_pc[t] = "done"
               PROVE  LET p == path[t]
                          out == hooked_path[t]
                          hits == {i \in DOMAIN assigned :
                                      assigned[i].kept = "both" /\ IsPrefix(assigned[i].search, p)}
                          seen == IF hits = {} THEN Len(assigned) ELSE Smallest(hits)
                          a == assigned[seen]
                          behind == SubSeq(p, Len(a.search) + 1, Len(p))
                      IN (\A j \in 1..seen : Plain(assigned[j], p))
                         => IF hits = {} THEN out = p
                            ELSE /\ out = a.rep \o behind
                                 /\ Last(a.rep) = At /\ Image(Front(a.rep)) /\ behind # <<>> /\ cfg.umd # 0
                                       => OpenedAs(out, cfg.umd) = "file_in_image"
                                 /\ Image(a.rep) /\ behind = <<>> /\ cfg.umd # 0
                                       => OpenedAs(out, cfg.umd) = "image"
    BY DEF PathsAsAssigned
  <1> DEFINE p == path[t]
             out == hooked_path[t]
             hits == {i \in DOMAIN assigned :
                         assigned[i].kept = "both" /\ IsPrefix(assigned[i].search, p)}
             seen == IF hits = {} THEN Len(assigned) ELSE Smallest(hits)
             a == assigned[seen]
             behind == SubSeq(p, Len(a.search) + 1, Len(p))
  <1>1. PICK n \in Nat : n = Len(assigned) /\ DOMAIN assigned = 1..n
    BY DEF AssignedInv
  <1>2. SUFFICES ASSUME \A j \in 1..seen : Plain(assigned[j], p)
                 PROVE  IF hits = {} THEN out = p
                        ELSE /\ out = a.rep \o behind
                             /\ Last(a.rep) = At /\ Image(Front(a.rep)) /\ behind # <<>> /\ cfg.umd # 0
                                   => OpenedAs(out, cfg.umd) = "file_in_image"
                             /\ Image(a.rep) /\ behind = <<>> /\ cfg.umd # 0
                                   => OpenedAs(out, cfg.umd) = "image"
    OBVIOUS
  <1>3. p \in Seq(Tokens) /\ PathInv(t)
    BY DEF SerialInv
  <1>4. \A i : i \in hits <=> i \in 1..n /\ Hit(i, p)
    BY <1>1 DEF Hit
  <1>5. hits # {} => seen \in hits /\ \A i \in hits : seen <= i
    <2>1. hits \subseteq Nat
      BY <1>1
    <2> HIDE DEF hits
    <2> QED
      BY <2>1, SmallestIn, Zenon
  <1>6. ASSUME NEW i \in 1..n, NoHit(i, p) PROVE i <= seen
    <2>1. CASE hits = {}
      BY <1>1, <2>1
    <2>2. CASE hits # {}
      <3>1. seen \in 1..n /\ Hit(seen, p)
        BY <1>4, <1>5, <2>2
      <3>2. ~(seen < i)
        BY <1>1, <1>6, <3>1 DEF NoHit
      <3> QED
        BY <3>1, <3>2
    <2> QED
      BY <2>1, <2>2
  <1>7. ~Off(p)
    <2> SUFFICES ASSUME NEW i \in 1..n, NoHit(i, p), ~Plain(assigned[i], p) PROVE FALSE
      BY <1>1 DEF Off
    <2>1. i <= seen /\ seen \in Nat
      BY <1>1, <1>5, <1>6
    <2> QED
      BY <1>2, <2>1
  <1>8. Made(p, out)
    BY <1>3, <1>7 DEF PathInv
  <1>9. CASE hits = {}
    <2>1. \A i \in 1..n : ~Hit(i, p)
      BY <1>4, <1>9
    <2> QED
      BY <1>1, <1>8, <1>9, <2>1 DEF Made
  <1>10. CASE hits # {}
    <2>1. seen \in 1..n /\ Hit(seen, p)
      BY <1>4, <1>5, <1>10
    <2>2. ~NoHit(n + 1, p)
      BY <1>1, <2>1 DEF NoHit
    <2>3. PICK i \in 1..n : Hit(i, p) /\ NoHit(i, p) /\ out = assigned[i].rep \o RestOf(i, p)
      BY <1>1, <1>8, <2>2 DEF Made
    <2>4. i = seen
      <3>1. i <= seen
        BY <1>6, <2>3
      <3>2. seen <= i
        BY <1>4, <1>5, <1>10, <2>3
      <3> QED
        BY <2>1, <3>1, <3>2
    <2>5. out = a.rep \o behind
      BY <2>3, <2>4 DEF RestOf
    <2>6. a.rep \in Seq(Tokens) /\ a.search \in Seq(Tokens)
      BY <1>1, <2>1, OneAssignment
    <2>7. behind \in Seq(Tokens)
      BY <1>3, <2>6, SubSeqProperties
    <2>8. PICK rep, back, umd : rep = a.rep /\ back = behind /\ umd = cfg.umd
      OBVIOUS
    <2>9. out = rep \o back /\ rep \in Seq(Tokens) /\ back \in Seq(Tokens)
      BY <2>5, <2>6, <2>7, <2>8
    <2>10. Last(rep) = At /\ Image(Front(rep)) /\ back # <<>> /\ umd # 0
              => OpenedAs(out, umd) = "file_in_image"
      BY <2>9, FileInImage
    <2>11. Image(rep) /\ back = <<>> /\ umd # 0 => OpenedAs(out, umd) = "image"
      <3> SUFFICES ASSUME Image(rep), back = <<>>, umd # 0 PROVE OpenedAs(out, umd) = "image"
        OBVIOUS
      <3>1. out = rep
        BY <2>9
      <3> QED
        BY <2>9, <3>1, TheImage
    <2> QED
      BY <1>10, <2>5, <2>8, <2>10, <2>11
  <1> QED
    BY <1>9, <1>10

(* One thread at a time: a path becomes the replacement of the first       *)
(* search string it begins with, and what follows that, or stays as it is, *)
(* whatever rep_buf held before (makePath, str_rep).                       *)
THEOREM PathsInTurn == Spec /\ []Fit => []PathsAsAssigned
  <1>1. Init => TypeInv /\ SerialInv
    <2>1. Init => SerialInv
      BY DEF Init, PathInit, SerialInv, Busy
    <2> QED
      BY <2>1, InitType
  <1>2. TypeInv /\ SerialInv /\ Fit /\ [Next]_vars => TypeInv' /\ SerialInv'
    BY TypeStep, SerialStep DEF TypeInv
  <1>3. TypeInv /\ SerialInv => PathsAsAssigned
    BY PathsMade DEF TypeInv, listInvs, HookInv
  <1> QED
    BY <1>1, <1>2, <1>3, PTL DEF Spec
=============================================================================
