--------------------------- MODULE FileTableProofs ---------------------------
(***************************************************************************)
(* Theorems about FileTable, for any number of threads, descriptors and    *)
(* slots.                                                                  *)
(***************************************************************************)
EXTENDS FileTable, WellFoundedInduction, FiniteSetTheorems, TLAPS

LEMMA MinIn ==
    ASSUME NEW S, S \subseteq Nat, S # {}
    PROVE  Min(S) \in S
  <1> DEFINE R == OpToRel(<, Nat)
  <1>1. R = {p \in Nat \X Nat : p[1] < p[2]}
    BY Zenon DEF OpToRel
  <1>2. IsWellFoundedOn(R, Nat)
    BY NatLessThanWellFounded
  <1> HIDE DEF R
  <1>3. PICK x \in S : \A y \in S : ~ (<<y, x>> \in R)
    BY <1>2, WFMin
  <1>4. ASSUME NEW y \in S, y < x PROVE FALSE
    <2>1. <<y, x>> \in Nat \X Nat /\ <<y, x>>[1] < <<y, x>>[2]
      BY <1>4
    <2>2. <<y, x>> \in R
      BY <1>1, <2>1, Zenon
    <2> QED
      BY <1>3, <2>2
  <1>5. \A y \in S : x <= y
    BY <1>4
  <1> QED
    BY <1>5 DEF Min

LEMMA SlotMin == ASSUME NEW S, S \subseteq Slots, S # {} PROVE Min(S) \in S
  <1>1. S \subseteq Nat
    BY FileTableAssumption DEF Slots
  <1> QED
    BY <1>1, MinIn

LEMMA LookupFinds ==
    ASSUME NEW f
    PROVE  /\ Lookup(f) \in Slots \cup {0}
           /\ Lookup(f) # 0 => /\ Lookup(f) \in Slots
                               /\ emu_state[Lookup(f)].fd = f
                               /\ emu_state[Lookup(f)].mode # "none"
  BY SlotMin DEF Lookup, SlotsOf, Slots

-----------------------------------------------------------------------------
(* Only an emulated file gets as far as an entry of the table, and a hook  *)
(* that writes to a slot has one.                                          *)
Filling == {"fd", "isofd", "mode", "place"}

KindInv == \A t \in Threads : pc[t] \in Filling \cup {"find"} => op[t].kind \in Emulated

SlotInv ==
    \A t \in Threads :
        /\ pc[t] \in Filling \cup {"deletemode"} \cup (Closing \ {"look"}) => op[t].slot \in Slots
        /\ pc[t] \in {"isoopen", "delete", "find"} => op[t].slot # 0

TypeInv == TypeOK /\ KindInv /\ SlotInv

(* Storing one field of an entry.                                          *)
LEMMA StoreTypes ==
    ASSUME emu_state \in [Slots -> Entry], NEW i, NEW d \in Fds \cup {0},
           NEW m \in Emulated \cup {"none"},
           \/ emu_state' = [emu_state EXCEPT ![i].fd = d]
           \/ emu_state' = [emu_state EXCEPT ![i].isofd = d]
           \/ emu_state' = [emu_state EXCEPT ![i].mode = m]
           \/ emu_state' = [emu_state EXCEPT ![i].place = d]
    PROVE  emu_state' \in [Slots -> Entry]
  <1>1. CASE i \in Slots
    <2> DEFINE e == emu_state[i]
    <2>1. e \in Entry
      BY <1>1
    <2>2. /\ [e EXCEPT !.fd = d] \in Entry /\ [e EXCEPT !.isofd = d] \in Entry
          /\ [e EXCEPT !.mode = m] \in Entry /\ [e EXCEPT !.place = d] \in Entry
      BY <2>1 DEF Entry
    <2>3. \E x \in Entry : emu_state' = [emu_state EXCEPT ![i] = x]
      BY <2>2
    <2> QED
      BY <2>3
  <1>2. CASE i \notin Slots
    <2>1. emu_state' = emu_state
      BY <1>2
    <2> QED
      BY <2>1
  <1> QED
    BY <1>1, <1>2

LEMMA ReturnTypes ==
    ASSUME TypeInv, NEW t \in Threads, NEW from, OpenReturns(t, from),
           emu_state' \in [Slots -> Entry], UNCHANGED <<real, rules>>
    PROVE  TypeInv'
  <1> USE FileTableAssumption DEF TypeInv, TypeOK, KindInv, SlotInv, Filling, Opening, Closing, Goto
  <1>1. /\ pc' = [pc EXCEPT ![t] = "idle"] /\ op' = [op EXCEPT ![t] = NoOp]
        /\ held' = [held EXCEPT ![op[t].fd] = op[t].kind]
    BY DEF OpenReturns, Return
  <1>2. op[t].kind \in Kinds
    BY DEF Op
  <1>3. held' \in [Fds -> Kinds \cup {"none"}]
    BY <1>1, <1>2
  <1>4. NoOp \in Op
    BY DEF NoOp, Op, Kinds
  <1>5. op' \in [Threads -> Op]
    BY <1>1, <1>4
  <1>6. \A u \in Threads : u # t => pc'[u] = pc[u] /\ op'[u] = op[u]
    BY <1>1
  <1> QED
    BY <1>1, <1>3, <1>5, <1>6

LEMMA TypeStep == ASSUME TypeInv, NEW t \in Threads, ThreadStep(t) PROVE TypeInv'
  <1> USE FileTableAssumption DEF TypeInv, TypeOK, KindInv, SlotInv, Filling, Opening, Closing, Goto
  <1>0. rules' = rules /\ NoOp \in Op /\ NSlots + 1 \in 0 .. NSlots + 1 /\ Slots \subseteq 0 .. NSlots + 1
    BY DEF ThreadStep, NoOp, Op, Kinds, Slots
  <1>1. ASSUME NEW k \in Kinds, NEW a \in BOOLEAN, Open(t, k, a) PROVE TypeInv'
    BY <1>0, <1>1 DEF Open, Op
  <1>2. CASE IsoOpen(t)
    <2>1. op' \in [Threads -> Op] /\ \A u \in Threads : op'[u].kind = op[u].kind /\ op'[u].slot = op[u].slot
      BY <1>2, SMTT(15) DEF IsoOpen, Op
    <2> QED
      BY <1>0, <1>2, <2>1 DEF IsoOpen
  <1>3. CASE IsoOpenFails(t)
    BY <1>0, <1>3 DEF IsoOpenFails, Op, Kinds
  <1>4. CASE KeepSlot(t) \/ PassSlot(t)
    <2>1. op[t].slot \in Slots /\ op' = [op EXCEPT ![t].slot = op[t].slot + 1]
          /\ UNCHANGED <<emu_state, real, held, pc>>
      BY <1>4 DEF KeepSlot, PassSlot, At, NextSlot
    <2>2. op[t].slot + 1 \in 0 .. NSlots + 1 /\ op[t].slot + 1 # 0
      BY <2>1 DEF Slots
    <2> QED
      BY <1>0, <1>4, <2>1, <2>2 DEF KeepSlot, PassSlot, At, Op
  <1>5. CASE DeleteOld(t)
    <2>1. op[t].slot \in Slots /\ pc' = [pc EXCEPT ![t] = "deletemode"] /\ UNCHANGED <<real, held, op>>
      BY <1>5 DEF DeleteOld, At
    <2>2. emu_state' \in [Slots -> Entry]
      BY <1>5, StoreTypes DEF DeleteOld
    <2> QED
      BY <1>0, <2>1, <2>2
  <1>6. CASE DeleteMode(t)
    <2>1. op[t].slot \in Slots /\ op[t].slot + 1 \in 0 .. NSlots + 1 /\ op[t].slot + 1 # 0
      BY <1>6 DEF DeleteMode, Slots
    <2>2. emu_state' \in [Slots -> Entry]
      BY <1>6, StoreTypes DEF DeleteMode
    <2> QED
      BY <1>0, <1>6, <2>1, <2>2, SMTT(30) DEF DeleteMode, NextSlot, Op
  <1>7. CASE NoMode(t) \/ TableOverflow(t)
    BY <1>0, <1>7, ReturnTypes DEF NoMode, TableOverflow
  <1>8. CASE StartFind(t)
    <2>1. 1 \in 0 .. NSlots + 1 /\ 1 # 0
      OBVIOUS
    <2> QED
      BY <1>0, <1>8, <2>1 DEF StartFind, Op
  <1>9. CASE FindSlot(t)
    BY <1>0, <1>9 DEF FindSlot, At
  <1>10. CASE StoreFd(t) \/ StoreIsofd(t) \/ StoreMode(t)
    <2>1. op[t].fd \in Fds \cup {0} /\ op[t].isofd \in Fds \cup {0}
          /\ (pc[t] = "mode" => op[t].kind \in Emulated)
      BY DEF Op
    <2>2. emu_state' \in [Slots -> Entry]
      BY <1>10, <2>1, StoreTypes, SMTT(30) DEF StoreFd, StoreIsofd, StoreMode
    <2> QED
      BY <1>0, <1>10, <2>2 DEF StoreFd, StoreIsofd, StoreMode
  <1>11. CASE StorePlace(t)
    <2>1. op[t].fd \in Fds \cup {0}
      BY DEF Op
    <2>2. emu_state' \in [Slots -> Entry]
      BY <1>11, <2>1, StoreTypes DEF StorePlace
    <2> QED
      BY <1>0, <1>11, <2>2, ReturnTypes DEF StorePlace
  <1>12. ASSUME NEW f \in Fds, Close(t, f) PROVE TypeInv'
    <2>1. op' \in [Threads -> Op] /\ \A u \in Threads : op'[u].kind = op[u].kind /\ op'[u].slot = op[u].slot
      BY <1>12 DEF Close, Op
    <2> QED
      BY <1>0, <1>12, <2>1 DEF Close
  <1>13. CASE CloseNothing(t)
    BY <1>0, <1>13 DEF CloseNothing, Return
  <1>14. CASE CloseLook(t)
    <2>1. Lookup(op[t].fd) \in Slots
      BY <1>14, LookupFinds DEF CloseLook
    <2> QED
      BY <1>0, <1>14, <2>1 DEF CloseLook, Op
  <1>15. CASE CloseCompare(t) \/ IsoClose(t)
    BY <1>0, <1>15 DEF CloseCompare, IsoClose
  <1>16. CASE ClearIsofd(t) \/ ClearFd(t) \/ ClearMode(t)
    <2>1. emu_state' \in [Slots -> Entry]
      BY <1>16, StoreTypes, ZenonT(40) DEF ClearIsofd, ClearFd, ClearMode
    <2> QED
      BY <1>0, <1>16, <2>1 DEF ClearIsofd, ClearFd, ClearMode
  <1>17. CASE ClearPlace(t)
    <2>1. emu_state' \in [Slots -> Entry]
      BY <1>17, StoreTypes DEF ClearPlace
    <2> QED
      BY <1>0, <1>17, <2>1 DEF ClearPlace, Return
  <1>18. SyncKinds \subseteq Kinds /\ AsyncKinds \subseteq Kinds
    BY DEF Kinds
  <1>19. CASE OpenStep(t)
    BY <1>1, <1>2, <1>3, <1>4, <1>5, <1>6, <1>7, <1>8, <1>9, <1>10, <1>11, <1>18, <1>19 DEF OpenStep
  <1>20. CASE CloseStep(t)
    BY <1>12, <1>13, <1>14, <1>15, <1>16, <1>17, <1>20 DEF CloseStep
  <1> QED
    BY <1>19, <1>20 DEF ThreadStep

LEMMA TypeInvariant == Spec => []TypeInv
  <1>1. Init => TypeInv
    BY FileTableAssumption
       DEF Init, TypeInv, TypeOK, KindInv, SlotInv, Filling, Closing, Entry, Op, NoOp, Kinds, Emulated
  <1>2. TypeInv /\ [Next]_vars => TypeInv'
    <2>1. ASSUME TypeInv, UNCHANGED vars PROVE TypeInv'
      BY <2>1 DEF TypeInv, TypeOK, KindInv, SlotInv, vars
    <2> QED
      BY <2>1, TypeStep DEF Next
  <1> QED
    BY <1>1, <1>2, PTL DEF Spec

(* Every variable of the table keeps its type.                             *)
THEOREM TableTypeCorrect == Spec => []TypeOK
  BY TypeInvariant, PTL DEF TypeInv

-----------------------------------------------------------------------------
(* A game that uses sceIoOpen only: no hook opens an image of its own, and *)
(* an entry that outlived its descriptor goes before the descriptor is     *)
(* given out again.  A slot is settled while no thread is between storing  *)
(* its descriptor and its mode.                                            *)
Openers == {t \in Threads : pc[t] \in Opening}
Closers == {t \in Threads : pc[t] \in Closing}
Settled == {i \in Slots : \A t \in Threads : pc[t] \in {"isofd", "mode"} => op[t].slot # i}

SyncPlaces ==
    /\ \A t \in Threads : pc[t] \notin {"isoopen", "isoclose", "clearisofd"}
    /\ \A t, u \in Threads : pc[t] \in Taking /\ pc[u] \in Taking => t = u
    /\ \A t \in Threads : pc[t] = "compare" => emu_state[op[t].slot].fd = emu_state[op[t].slot].isofd

SyncEntries ==
    /\ \A t \in Threads :
          /\ pc[t] \in {"isofd", "mode"} => emu_state[op[t].slot].fd = op[t].fd
          /\ pc[t] = "mode" => emu_state[op[t].slot].isofd = op[t].fd
    /\ \A i \in Settled : emu_state[i].mode # "none" => emu_state[i].fd \in {0, emu_state[i].isofd}

SyncOwned ==
    /\ \A f \in Fds : held[f] # "none" => f \in real
    /\ \A t \in Openers : /\ op[t].fd \in real \cap Fds /\ held[op[t].fd] = "none"
                          /\ op[t].isofd = op[t].fd
    /\ \A t, u \in Openers : t # u => op[t].fd # op[u].fd
    /\ \A t \in Closers : op[t].fd # 0

SyncModes ==
    /\ \A i \in Settled :
          LET e == emu_state[i]
          IN  e.mode # "none" /\ e.fd \in Fds => held[e.fd] \in {"none", e.mode}
    /\ \A t \in Openers, i \in Slots : emu_state[i].fd = op[t].fd =>
          /\ pc[t] = "delete" => i >= op[t].slot
          /\ pc[t] = "deletemode" => i > op[t].slot
          /\ pc[t] \notin {"find", "fd"}
          /\ pc[t] \in {"isofd", "mode"} => i = op[t].slot
          /\ pc[t] = "place" => emu_state[i].mode \in {op[t].kind, "none"}

SyncInv == SyncOnly \subseteq rules => SyncPlaces /\ SyncEntries /\ SyncOwned /\ SyncModes

(* A hook of open returns: the entries of its descriptor are of its kind.  *)
LEMMA SyncReturn ==
    ASSUME TypeInv, SyncInv, SyncOnly \subseteq rules, NEW t \in Threads, NEW from \in Opening,
           OpenReturns(t, from), UNCHANGED <<real, rules>>,
           from \notin {"isofd", "mode"},
           \A i \in Slots : emu_state'[i].fd = op[t].fd => emu_state'[i].mode \in {op[t].kind, "none"},
           \A i \in Slots : /\ emu_state'[i].fd = emu_state[i].fd
                            /\ emu_state'[i].mode = emu_state[i].mode
                            /\ emu_state'[i].isofd = emu_state[i].isofd
    PROVE  SyncInv'
  <1> USE FileTableAssumption DEF TypeInv, TypeOK, SlotInv, Filling, Opening, Closing, Goto, SyncInv
  <1>1. /\ pc[t] = from /\ pc' = [pc EXCEPT ![t] = "idle"] /\ op' = [op EXCEPT ![t] = NoOp]
        /\ held' = [held EXCEPT ![op[t].fd] = op[t].kind]
    BY DEF OpenReturns, Return
  <1>2. t \in Openers /\ Openers' = Openers \ {t} /\ Closers' = Closers /\ t \notin Closers
    BY <1>1 DEF Openers, Closers
  <1>3. \A u \in Threads \ {t} : pc'[u] = pc[u] /\ op'[u] = op[u]
    BY <1>1
  <1>4. pc'[t] = "idle"
    BY <1>1
  <1>5. Settled' = Settled
    BY <1>1, <1>3, <1>4 DEF Settled
  <1>6. op[t].fd \in Fds /\ op[t].fd \in real /\ \A f \in Fds : f # op[t].fd => held'[f] = held[f]
    BY <1>1, <1>2 DEF SyncOwned
  <1>7. SyncPlaces'
    BY <1>1, <1>3, <1>4 DEF SyncPlaces, Taking
  <1>8. SyncEntries'
    BY <1>3, <1>4, <1>5 DEF SyncEntries, Settled
  <1>9. SyncOwned'
    BY <1>1, <1>2, <1>3, <1>6 DEF SyncOwned
  <1>10. SyncModes'
    <2>1. held'[op[t].fd] = op[t].kind
      BY <1>1, <1>6
    <2>2. \A i \in Settled' :
             LET e == emu_state'[i]
             IN  e.mode # "none" /\ e.fd \in Fds => held'[e.fd] \in {"none", e.mode}
      BY <1>5, <1>6, <2>1 DEF SyncModes, Settled
    <2>3. \A u \in Openers' : u \in Openers /\ pc'[u] = pc[u] /\ op'[u] = op[u]
      BY <1>2, <1>3 DEF Openers
    <2>4. \A u \in Openers', i \in Slots : emu_state'[i].fd = op'[u].fd =>
             /\ pc'[u] = "delete" => i >= op'[u].slot
             /\ pc'[u] = "deletemode" => i > op'[u].slot
             /\ pc'[u] \notin {"find", "fd"}
             /\ pc'[u] \in {"isofd", "mode"} => i = op'[u].slot
             /\ pc'[u] = "place" => emu_state'[i].mode \in {op'[u].kind, "none"}
      BY <2>3 DEF SyncModes
    <2> QED
      BY <2>2, <2>4 DEF SyncModes
  <1> QED
    BY <1>7, <1>8, <1>9, <1>10

(* A hook of open goes from one place to the next, and may store to the    *)
(* slot it looks at.                                                       *)
LEMMA SyncStep ==
    ASSUME TypeInv, SyncInv, SyncOnly \subseteq rules, NEW t \in Threads, ThreadStep(t)
    PROVE  SyncInv'
  <1> USE FileTableAssumption
      DEF TypeInv, TypeOK, SlotInv, Filling, Opening, Closing, Goto, SyncInv
  <1> USE DEF SyncPlaces, SyncEntries, SyncOwned, SyncModes, Openers, Closers, Settled
  <1>0. rules' = rules /\ \A u \in Threads \ {t} : pc[u] \notin Taking
    BY DEF ThreadStep, Undisturbed, SyncOnly
  <1>1. ASSUME NEW k \in Kinds, Open(t, k, FALSE) PROVE SyncInv'
    <2>1. PICK f \in Fds \ real :
             /\ pc[t] = "idle" /\ pc' = [pc EXCEPT ![t] = "delete"] /\ real' = real \cup {f}
             /\ op' = [op EXCEPT ![t] = [fd |-> f, isofd |-> f, kind |-> k, slot |-> 1]]
             /\ UNCHANGED <<emu_state, held>>
      BY <1>1 DEF Open
    <2>2. \A u \in Threads \ {t} : pc'[u] = pc[u] /\ op'[u] = op[u]
      BY <2>1
    <2>3. pc'[t] = "delete" /\ op'[t].fd = f /\ op'[t].isofd = f /\ op'[t].slot = 1
      BY <2>1
    <2>4. Settled' = Settled
      BY <2>1, <2>2, <2>3
    <2>5. SyncPlaces' /\ SyncEntries' /\ SyncOwned'
      BY <2>1, <2>2, <2>3, <2>4 DEF Taking
    <2>6. \A i \in Slots : i >= 1
      BY DEF Slots
    <2>7. SyncModes'
      BY <2>1, <2>2, <2>3, <2>4, <2>6
    <2> QED
      BY <2>5, <2>7
  <1>2. CASE IsoOpen(t) \/ IsoOpenFails(t) \/ IsoClose(t) \/ ClearIsofd(t)
    BY <1>2 DEF IsoOpen, IsoOpenFails, IsoClose, ClearIsofd
  <1>3. CASE KeepSlot(t)
    <2> DEFINE i == op[t].slot
    <2>1. /\ pc[t] = "delete" /\ i \in Slots /\ emu_state[i].fd # op[t].fd
          /\ op' = [op EXCEPT ![t].slot = i + 1]
          /\ UNCHANGED <<emu_state, real, held, pc>>
      BY <1>3 DEF KeepSlot, At, NextSlot
    <2>2. \A u \in Threads \ {t} : op'[u] = op[u]
      BY <2>1
    <2>3. op'[t].fd = op[t].fd /\ op'[t].isofd = op[t].isofd /\ op'[t].slot = i + 1
      BY <2>1
    <2>4. \A j \in Slots : emu_state[j].fd = op[t].fd => j >= i + 1
      <3>1. \A j \in Slots : emu_state[j].fd = op[t].fd => j >= i /\ j # i
        BY <2>1
      <3> QED
        BY <2>1, <3>1 DEF Slots
    <2> HIDE DEF i
    <2>5. Settled' = Settled
      BY <2>1, <2>2
    <2>6. SyncPlaces' /\ SyncEntries' /\ SyncOwned'
      BY <2>1, <2>2, <2>3, <2>5 DEF Taking
    <2>7. SyncModes'
      BY <2>1, <2>2, <2>3, <2>4, <2>5
    <2> QED
      BY <1>0, <2>6, <2>7
  <1>4. CASE DeleteOld(t)
    <2>1. PICK i \in Slots : /\ pc[t] = "delete" /\ op[t].slot = i /\ emu_state[i].fd = op[t].fd
                             /\ emu_state' = [emu_state EXCEPT ![i].fd = 0]
                             /\ pc' = [pc EXCEPT ![t] = "deletemode"]
                             /\ UNCHANGED <<real, held, op>>
      BY <1>4 DEF DeleteOld, At
    <2>2. /\ emu_state'[i].fd = 0 /\ emu_state'[i].mode = emu_state[i].mode
          /\ emu_state'[i].isofd = emu_state[i].isofd
          /\ \A j \in Slots \ {i} : emu_state'[j] = emu_state[j]
      BY <2>1
    <2>3. pc'[t] = "deletemode" /\ \A u \in Threads \ {t} : pc'[u] = pc[u]
      BY <2>1
    <2>4. Settled' = Settled
      BY <2>1, <2>3
    <2>5. \A j \in Slots : emu_state'[j].fd = op[t].fd => j > i
      BY <2>1, <2>2 DEF Slots
    <2>6. Openers' = Openers /\ \A u \in Openers : op[u].fd # 0
      BY <2>1, <2>3
    <2>7. SyncPlaces' /\ SyncEntries' /\ SyncOwned'
      BY <1>0, <2>1, <2>2, <2>3, <2>4 DEF Taking
    <2>8. SyncModes'
      BY <2>1, <2>2, <2>3, <2>4, <2>5, <2>6
    <2> QED
      BY <2>7, <2>8
  <1>5. CASE DeleteMode(t)
    <2> DEFINE i == op[t].slot
    <2>1. /\ pc[t] = "deletemode" /\ i \in Slots
          /\ emu_state' = [emu_state EXCEPT ![i].mode = "none"]
          /\ pc' = [pc EXCEPT ![t] = "delete"] /\ op' = [op EXCEPT ![t].slot = i + 1]
          /\ UNCHANGED <<real, held>>
      BY <1>5 DEF DeleteMode, NextSlot
    <2>2. /\ emu_state'[i].fd = emu_state[i].fd /\ emu_state'[i].mode = "none"
          /\ emu_state'[i].isofd = emu_state[i].isofd
          /\ \A j \in Slots \ {i} : emu_state'[j] = emu_state[j]
      BY <2>1
    <2>3. /\ pc'[t] = "delete" /\ op'[t].fd = op[t].fd /\ op'[t].isofd = op[t].isofd /\ op'[t].slot = i + 1
          /\ \A u \in Threads \ {t} : pc'[u] = pc[u] /\ op'[u] = op[u]
      BY <2>1
    <2>4. Settled' = Settled
      BY <2>1, <2>3
    <2>5. \A j \in Slots : emu_state'[j].fd = op[t].fd => j >= i + 1
      BY <2>1, <2>2 DEF Slots
    <2> HIDE DEF i
    <2>7. SyncPlaces' /\ SyncEntries' /\ SyncOwned'
      BY <1>0, <2>1, <2>2, <2>3, <2>4 DEF Taking
    <2>8. SyncModes'
      BY <2>1, <2>2, <2>3, <2>4, <2>5
    <2> QED
      BY <2>7, <2>8
  <1>6. CASE NoMode(t)
    <2>1. pc[t] = "delete" /\ op[t].slot = NSlots + 1 /\ UNCHANGED <<emu_state, real>> /\ OpenReturns(t, "delete")
      BY <1>6 DEF NoMode, At
    <2>2. \A i \in Slots : emu_state[i].fd # op[t].fd
      BY <2>1 DEF Slots
    <2>3. \A i \in Slots : emu_state'[i].fd = op[t].fd => emu_state'[i].mode \in {op[t].kind, "none"}
      BY <2>1, <2>2
    <2> HIDE DEF TypeInv, TypeOK, SlotInv, SyncInv, SyncPlaces, SyncEntries, SyncOwned, SyncModes
    <2> QED
      BY <1>0, <2>1, <2>3, SyncReturn
  <1>7. CASE StartFind(t)
    <2>1. /\ pc[t] = "delete" /\ op[t].slot = NSlots + 1 /\ UNCHANGED <<emu_state, real, held>>
          /\ pc' = [pc EXCEPT ![t] = "find"] /\ op' = [op EXCEPT ![t].slot = 1]
      BY <1>7 DEF StartFind, At
    <2>2. \A i \in Slots : emu_state[i].fd # op[t].fd
      BY <2>1 DEF Slots
    <2>3. /\ pc'[t] = "find" /\ op'[t].fd = op[t].fd /\ op'[t].isofd = op[t].isofd
          /\ \A u \in Threads \ {t} : pc'[u] = pc[u] /\ op'[u] = op[u]
      BY <2>1
    <2>4. Settled' = Settled
      BY <2>1, <2>3
    <2>5. SyncPlaces' /\ SyncEntries' /\ SyncOwned'
      BY <2>1, <2>3, <2>4 DEF Taking
    <2>6. SyncModes'
      BY <2>1, <2>2, <2>3, <2>4
    <2> QED
      BY <2>5, <2>6
  <1>8. CASE PassSlot(t)
    <2>1. /\ pc[t] = "find" /\ op' = [op EXCEPT ![t].slot = op[t].slot + 1]
          /\ UNCHANGED <<emu_state, real, held, pc>>
      BY <1>8 DEF PassSlot, At, NextSlot
    <2>2. /\ op'[t].fd = op[t].fd /\ op'[t].isofd = op[t].isofd
          /\ \A u \in Threads \ {t} : op'[u] = op[u]
      BY <2>1
    <2>3. Settled' = Settled
      BY <2>1, <2>2
    <2>4. SyncPlaces' /\ SyncEntries' /\ SyncOwned'
      BY <2>1, <2>2, <2>3 DEF Taking
    <2>5. SyncModes'
      BY <2>1, <2>2, <2>3
    <2> QED
      BY <2>4, <2>5
  <1>9. CASE FindSlot(t)
    <2>1. pc[t] = "find" /\ pc' = [pc EXCEPT ![t] = "fd"] /\ UNCHANGED <<emu_state, real, held, op>>
      BY <1>9 DEF FindSlot, At
    <2>2. pc'[t] = "fd" /\ \A u \in Threads \ {t} : pc'[u] = pc[u]
      BY <2>1
    <2>3. SyncPlaces' /\ SyncEntries' /\ SyncOwned' /\ SyncModes'
      BY <1>0, <2>1, <2>2 DEF Taking
    <2> QED
      BY <2>3
  <1>10. CASE TableOverflow(t)
    <2>1. pc[t] = "find" /\ UNCHANGED <<emu_state, real>> /\ OpenReturns(t, "find")
      BY <1>10 DEF TableOverflow, At
    <2>2. \A i \in Slots : emu_state'[i].fd = op[t].fd => emu_state'[i].mode \in {op[t].kind, "none"}
      BY <2>1
    <2> HIDE DEF TypeInv, TypeOK, SlotInv, SyncInv, SyncPlaces, SyncEntries, SyncOwned, SyncModes
    <2> QED
      BY <1>0, <2>1, <2>2, SyncReturn
  <1>11. CASE StoreFd(t) \/ StoreIsofd(t) \/ StoreMode(t)
    <2> DEFINE i == op[t].slot
    <2>1. /\ t \in Openers /\ i \in Slots /\ pc[t] \in {"fd", "isofd", "mode"}
          /\ UNCHANGED <<real, held, op>> /\ Openers' = Openers /\ Closers' = Closers
          /\ pc'[t] = (IF pc[t] = "fd" THEN "isofd" ELSE IF pc[t] = "isofd" THEN "mode" ELSE "place")
          /\ \A u \in Threads \ {t} : pc'[u] = pc[u]
      BY <1>11 DEF StoreFd, StoreIsofd, StoreMode
    <2>2. \A j \in Slots \ {i} : emu_state'[j] = emu_state[j]
      BY <1>11 DEF StoreFd, StoreIsofd, StoreMode
    <2>3. /\ pc[t] = "fd" => emu_state'[i].fd = op[t].fd
          /\ pc[t] = "isofd" => emu_state'[i].isofd = op[t].isofd /\ emu_state'[i].fd = emu_state[i].fd
          /\ pc[t] = "mode" => /\ emu_state'[i].mode = op[t].kind
                               /\ emu_state'[i].fd = emu_state[i].fd
                               /\ emu_state'[i].isofd = emu_state[i].isofd
      <3>1. emu_state[i] \in Entry
        BY <2>1
      <3>2. CASE StoreFd(t)
        BY <2>1, <3>1, <3>2 DEF StoreFd, Entry
      <3>3. CASE StoreIsofd(t)
        BY <2>1, <3>1, <3>3 DEF StoreIsofd, Entry
      <3>4. CASE StoreMode(t)
        BY <2>1, <3>1, <3>4 DEF StoreMode, Entry
      <3> QED
        BY <1>11, <3>2, <3>3, <3>4
    <2>4. \A u \in Threads \ {t} : pc[u] \notin {"fd", "isofd", "mode", "compare"}
      BY <1>0 DEF Taking
    <2>5. Settled' = (IF pc[t] = "mode" THEN Slots ELSE Slots \ {i})
      BY <2>1, <2>4
    <2>6. \A j \in Slots \ {i} : j \in Settled
      BY <2>1, <2>4
    <2>7. op[t].fd \in Fds /\ op[t].isofd = op[t].fd /\ held[op[t].fd] = "none" /\ op[t].fd # 0
      BY <2>1
    <2>8. emu_state'[i].fd = op[t].fd
      BY <2>1, <2>3
    <2>9. \A u \in Openers \ {t} : op[u].fd # op[t].fd
      BY <2>1
    <2> HIDE DEF i
    <2>10. SyncPlaces'
      BY <2>1, <2>4 DEF Taking
    <2>11. SyncEntries'
      BY <2>1, <2>2, <2>3, <2>4, <2>5, <2>6, <2>7, <2>8 DEF i
    <2>12. SyncOwned'
      BY <2>1
    <2>13. \A j \in Settled' :
              LET e == emu_state'[j]
              IN  e.mode # "none" /\ e.fd \in Fds => held'[e.fd] \in {"none", e.mode}
      BY <2>1, <2>2, <2>5, <2>6, <2>7, <2>8
    <2>14. ASSUME NEW u \in Openers', NEW j \in Slots, emu_state'[j].fd = op'[u].fd
           PROVE  /\ pc'[u] = "delete" => j >= op'[u].slot
                  /\ pc'[u] = "deletemode" => j > op'[u].slot
                  /\ pc'[u] \notin {"find", "fd"}
                  /\ pc'[u] \in {"isofd", "mode"} => j = op'[u].slot
                  /\ pc'[u] = "place" => emu_state'[j].mode \in {op'[u].kind, "none"}
      <3>1. CASE u # t
        <4>1. j # i /\ op'[u] = op[u] /\ pc'[u] = pc[u] /\ u \in Openers
          BY <2>1, <2>8, <2>9, <2>14, <3>1
        <4> QED
          BY <2>2, <2>14, <4>1
      <3>2. CASE u = t
        <4>1. CASE j = i
          BY <2>1, <2>3, <3>2, <4>1 DEF i
        <4>2. CASE j # i
          BY <2>1, <2>2, <2>14, <3>2, <4>2 DEF i
        <4> QED
          BY <4>1, <4>2
      <3> QED
        BY <3>1, <3>2
    <2>15. SyncModes'
      BY <2>13, <2>14
    <2> QED
      BY <2>10, <2>11, <2>12, <2>15
  <1>12. CASE StorePlace(t)
    <2>1. /\ OpenReturns(t, "place") /\ pc[t] = "place" /\ UNCHANGED real /\ op[t].slot \in Slots
          /\ emu_state' = [emu_state EXCEPT ![op[t].slot].place = op[t].fd]
      BY <1>12 DEF StorePlace, OpenReturns, Return
    <2>2. \A i \in Slots : /\ emu_state'[i].fd = emu_state[i].fd
                           /\ emu_state'[i].mode = emu_state[i].mode
                           /\ emu_state'[i].isofd = emu_state[i].isofd
      BY <2>1
    <2>3. \A i \in Slots : emu_state'[i].fd = op[t].fd => emu_state'[i].mode \in {op[t].kind, "none"}
      BY <2>1, <2>2
    <2> HIDE DEF TypeInv, TypeOK, SlotInv, SyncInv, SyncPlaces, SyncEntries, SyncOwned, SyncModes
    <2> QED
      BY <1>0, <2>1, <2>2, <2>3, SyncReturn
  <1>13. ASSUME NEW f \in Fds, Close(t, f) PROVE SyncInv'
    <2>1. /\ pc[t] = "idle" /\ UNCHANGED emu_state /\ held[f] # "none"
          /\ real' = real \ {f} /\ held' = [held EXCEPT ![f] = "none"]
          /\ pc' = [pc EXCEPT ![t] = "look"] /\ op' = [op EXCEPT ![t].fd = f]
      BY <1>13 DEF Close
    <2>2. /\ pc'[t] = "look" /\ op'[t].fd = f /\ f # 0
          /\ \A u \in Threads \ {t} : pc'[u] = pc[u] /\ op'[u] = op[u]
      BY <2>1
    <2>3. Settled' = Settled
      BY <2>1, <2>2
    <2>4. held'[f] = "none" /\ \A g \in Fds \ {f} : held'[g] = held[g]
      BY <2>1
    <2>5. SyncPlaces' /\ SyncEntries' /\ SyncOwned'
      BY <2>1, <2>2, <2>3, <2>4 DEF Taking
    <2>6. SyncModes'
      BY <2>1, <2>2, <2>3, <2>4
    <2> QED
      BY <2>5, <2>6
  <1>14. CASE CloseNothing(t)
    <2>1. /\ pc[t] = "look" /\ UNCHANGED <<emu_state, real, held>>
          /\ pc' = [pc EXCEPT ![t] = "idle"] /\ op' = [op EXCEPT ![t] = NoOp]
      BY <1>14 DEF CloseNothing, Return
    <2>2. pc'[t] = "idle" /\ \A u \in Threads \ {t} : pc'[u] = pc[u] /\ op'[u] = op[u]
      BY <2>1
    <2>3. Settled' = Settled
      BY <2>1, <2>2
    <2>4. SyncPlaces' /\ SyncEntries' /\ SyncOwned' /\ SyncModes'
      BY <2>1, <2>2, <2>3 DEF Taking
    <2> QED
      BY <2>4
  <1>15. CASE CloseLook(t)
    <2> DEFINE i == Lookup(op[t].fd)
    <2>1. /\ pc[t] = "look" /\ UNCHANGED <<emu_state, real, held>>
          /\ pc' = [pc EXCEPT ![t] = "compare"] /\ op' = [op EXCEPT ![t].slot = i] /\ i # 0
      BY <1>15 DEF CloseLook
    <2>2. i \in Slots /\ emu_state[i].fd = op[t].fd /\ emu_state[i].mode # "none"
      BY <2>1, LookupFinds
    <2> HIDE DEF i
    <2>3. /\ pc'[t] = "compare" /\ op'[t].fd = op[t].fd /\ op'[t].slot = i
          /\ \A u \in Threads \ {t} : pc'[u] = pc[u] /\ op'[u] = op[u]
      BY <2>1
    <2>4. Settled' = Settled /\ i \in Settled
      BY <1>0, <2>1, <2>2, <2>3 DEF Taking
    <2>5. emu_state[i].fd = emu_state[i].isofd
      BY <2>1, <2>2, <2>4
    <2>6. SyncPlaces'
      BY <1>0, <2>1, <2>3, <2>5 DEF Taking
    <2>7. SyncEntries' /\ SyncOwned' /\ SyncModes'
      BY <2>1, <2>3, <2>4
    <2> QED
      BY <2>6, <2>7
  <1>16. CASE CloseCompare(t)
    <2>1. /\ pc[t] = "compare" /\ UNCHANGED <<emu_state, real, held, op>>
          /\ pc' = [pc EXCEPT ![t] = "clearfd"]
      BY <1>16 DEF CloseCompare
    <2>2. pc'[t] = "clearfd" /\ \A u \in Threads \ {t} : pc'[u] = pc[u]
      BY <2>1
    <2>3. SyncPlaces' /\ SyncEntries' /\ SyncOwned' /\ SyncModes'
      BY <1>0, <2>1, <2>2 DEF Taking
    <2> QED
      BY <2>3
  <1>17. CASE ClearFd(t) \/ ClearMode(t)
    <2> DEFINE i == op[t].slot
    <2>1. /\ t \in Closers /\ i \in Slots /\ UNCHANGED <<real, held, op>>
          /\ pc'[t] \in {"clearmode", "clearplace"} /\ pc[t] \in {"clearfd", "clearmode"}
          /\ \A u \in Threads \ {t} : pc'[u] = pc[u]
      BY <1>17 DEF ClearFd, ClearMode
    <2>2. /\ emu_state'[i].fd \in {0, emu_state[i].fd} /\ emu_state'[i].isofd = emu_state[i].isofd
          /\ emu_state'[i].mode \in {"none", emu_state[i].mode}
          /\ \A j \in Slots \ {i} : emu_state'[j] = emu_state[j]
      <3>1. emu_state[i] \in Entry
        BY <2>1
      <3>2. CASE ClearFd(t)
        BY <2>1, <3>1, <3>2 DEF ClearFd, Entry
      <3>3. CASE ClearMode(t)
        BY <2>1, <3>1, <3>3 DEF ClearMode, Entry
      <3> QED
        BY <1>17, <3>2, <3>3
    <2>3. Settled' = Settled /\ Openers' = Openers /\ Closers' = Closers
      BY <2>1
    <2>4. \A u \in Threads : pc[u] \notin {"fd", "isofd", "mode", "compare"}
      BY <1>0, <2>1 DEF Taking
    <2>5. \A u \in Openers : op[u].fd # 0
      OBVIOUS
    <2> HIDE DEF i
    <2>6. SyncPlaces'
      BY <2>1, <2>4 DEF Taking
    <2>7. SyncEntries' /\ SyncOwned'
      BY <2>1, <2>2, <2>3, <2>4
    <2>8. SyncModes'
      BY <2>1, <2>2, <2>3, <2>4, <2>5
    <2> QED
      BY <2>6, <2>7, <2>8
  <1>18. CASE ClearPlace(t)
    <2>1. /\ pc[t] = "clearplace" /\ UNCHANGED <<real, held>> /\ op[t].slot \in Slots
          /\ pc' = [pc EXCEPT ![t] = "idle"] /\ op' = [op EXCEPT ![t] = NoOp]
          /\ emu_state' = [emu_state EXCEPT ![op[t].slot].place = 0]
      BY <1>18 DEF ClearPlace, Return
    <2>2. pc'[t] = "idle" /\ \A u \in Threads \ {t} : pc'[u] = pc[u] /\ op'[u] = op[u]
      BY <2>1
    <2>3. \A i \in Slots : /\ emu_state'[i].fd = emu_state[i].fd
                           /\ emu_state'[i].mode = emu_state[i].mode
                           /\ emu_state'[i].isofd = emu_state[i].isofd
      BY <2>1
    <2>4. Settled' = Settled
      BY <2>1, <2>2
    <2>5. SyncPlaces' /\ SyncEntries' /\ SyncOwned'
      BY <2>1, <2>2, <2>3, <2>4 DEF Taking
    <2>6. SyncModes'
      BY <2>1, <2>2, <2>3, <2>4
    <2> QED
      BY <2>5, <2>6
  <1>19. SyncKinds \subseteq Kinds
    BY DEF Kinds
  <1>20. CASE OpenStep(t)
    BY <1>1, <1>2, <1>3, <1>4, <1>5, <1>6, <1>7, <1>8, <1>9, <1>10, <1>11, <1>12, <1>19, <1>20
       DEF OpenStep, SyncOnly
  <1>21. CASE CloseStep(t)
    BY <1>2, <1>13, <1>14, <1>15, <1>16, <1>17, <1>18, <1>21 DEF CloseStep
  <1> QED
    BY <1>20, <1>21 DEF ThreadStep

(* However opens and closes interleave, and when the table is full, a game *)
(* that uses sceIoOpen never has a descriptor treated as something else    *)
(* than what it was opened as, provided no thread is preempted while it    *)
(* takes a slot or compares an entry.                                      *)
THEOREM NoForeignModeEver == Spec => []NoForeignMode
  <1>1. Init => SyncInv
    BY FileTableAssumption
       DEF Init, SyncInv, SyncPlaces, SyncEntries, SyncOwned, SyncModes, Openers, Closers, Settled,
           Opening, Closing, Taking
  <1>2. TypeInv /\ SyncInv /\ [Next]_vars => SyncInv'
    <2>1. ASSUME SyncInv, UNCHANGED vars PROVE SyncInv'
      BY <2>1 DEF SyncInv, SyncPlaces, SyncEntries, SyncOwned, SyncModes, Openers, Closers, Settled, vars
    <2>2. ASSUME ~ (SyncOnly \subseteq rules), Next PROVE SyncInv'
      BY <2>2 DEF Next, ThreadStep, SyncInv
    <2> QED
      BY <2>1, <2>2, SyncStep DEF Next
  <1>3. TypeInv /\ SyncInv => NoForeignMode
    <2> SUFFICES ASSUME TypeInv, SyncInv, SyncOnly \subseteq rules, NEW f \in Fds, held[f] # "none",
                        ModeOf(f) # "none"
                 PROVE  ModeOf(f) = held[f]
      BY DEF NoForeignMode
    <2> DEFINE i == Lookup(f)
    <2>1. i \in Slots /\ emu_state[i].fd = f /\ ModeOf(f) = emu_state[i].mode
      BY LookupFinds DEF ModeOf
    <2> HIDE DEF i
    <2>2. i \in Settled
      BY <2>1 DEF SyncInv, SyncEntries, SyncOwned, Settled, Openers, Opening
    <2> QED
      BY <2>1, <2>2 DEF SyncInv, SyncModes
  <1> QED
    BY <1>1, <1>2, <1>3, TypeInvariant, PTL DEF Spec

-----------------------------------------------------------------------------
(* What the rules of Safe secure.  A thread in a hook of open owns the     *)
(* descriptors it got and the slot it fills; an entry of the table owns    *)
(* the descriptor of its image; an entry whose descriptor the game has     *)
(* closed is on its way out of the table, by a thread that keeps its       *)
(* number in use meanwhile.  An entry counts from its last store on.       *)
Fillers == {t \in Threads : pc[t] \in Filling}
Entered == {i \in Slots : ~ Free(i) /\ \A t \in Fillers : op[t].slot # i}

PhaseInv ==
    /\ Openers = {} \/ Closers = {}
    /\ \A t \in Threads \ Openers : op[t].kind = "plain"

RealInv == 0 \in real /\ \A f \in Fds : held[f] # "none" => f \in real

OpenInv ==
    \A t \in Openers :
        /\ op[t].fd \in real \ {0} /\ held[op[t].fd] = "none"
        /\ op[t].isofd \in real \cup {0}
        /\ op[t].isofd \notin {0, op[t].fd} => op[t].kind = "iso" /\ held[op[t].isofd] = "none"
        /\ pc[t] = "isoopen" => op[t].kind = "iso" /\ op[t].isofd = 0
        /\ pc[t] # "isoopen" /\ op[t].kind \in Emulated => op[t].isofd # 0
        /\ \A u \in Openers \ {t} :
              /\ op[u].fd \notin {op[t].fd, op[t].isofd}
              /\ op[u].isofd # 0 => op[u].isofd # op[t].isofd

(* The slots being filled.                                                 *)
FillInv ==
    /\ \A t \in Threads : pc[t] # "deletemode"
    /\ \A t \in Threads, j \in Slots : pc[t] = "find" /\ j < op[t].slot => ~ Free(j)
    /\ \A t, u \in Fillers : t # u => op[t].slot # op[u].slot
    /\ \A t \in Fillers :
          LET e == emu_state[op[t].slot]
          IN  /\ pc[t] = "fd" => e.fd = 0
              /\ pc[t] # "fd" => e.fd = op[t].fd
              /\ pc[t] \in {"mode", "place"} => e.isofd = op[t].isofd
              /\ e.mode = IF pc[t] = "place" THEN op[t].kind ELSE "none"

(* The slots not in use: all but those being filled or cleared are empty.  *)
FreeInv ==
    \A i \in Slots \ Entered :
        /\ emu_state[i].fd # 0 => \E t \in Fillers : op[t].slot = i
        /\ emu_state[i].mode # "none" =>
              \E t \in Threads : pc[t] \in {"place", "clearmode"} /\ op[t].slot = i

EntryInv ==
    \A i \in Entered :
        LET e == emu_state[i]
        IN  /\ held[e.fd] \in {e.mode, "none"}
            /\ held[e.fd] = "none" => \E t \in Closers : op[t].fd = e.fd
            /\ held[e.fd] # "none" => e.isofd # 0 /\ e.place = e.fd
            /\ e.isofd \notin {0, e.fd} =>
                  /\ e.isofd \in real \/ \E t \in Closers : pc[t] = "clearisofd" /\ op[t].slot = i
                  /\ held[e.isofd] = "none"
                  /\ \A t \in Openers : e.isofd \notin {op[t].fd, op[t].isofd}
            /\ \A j \in Entered \ {i} :
                  emu_state[j].fd # e.fd /\ (e.isofd # 0 => emu_state[j].isofd # e.isofd)

CloseInv ==
    \A t \in Closers :
        LET e == emu_state[op[t].slot]
        IN  /\ op[t].fd # 0 /\ op[t].fd \notin real /\ held[op[t].fd] = "none"
            /\ \A u \in Closers \ {t} : op[u].fd # op[t].fd
            /\ pc[t] = "look" =>
                  \A i \in Entered : emu_state[i].fd = op[t].fd => emu_state[i].isofd # 0
            /\ pc[t] \in {"compare", "isoclose", "clearisofd", "clearfd"} =>
                  op[t].slot \in Entered /\ e.fd = op[t].fd
            /\ pc[t] = "compare" => e.isofd # 0
            /\ pc[t] \in {"isoclose", "clearisofd"} => e.isofd \notin {0, op[t].fd}
            /\ pc[t] = "isoclose" => e.isofd \in real
            /\ pc[t] = "clearisofd" => e.isofd \notin real
            /\ pc[t] = "clearfd" => e.isofd \in {0, op[t].fd}
            /\ pc[t] \in {"clearmode", "clearplace"} =>
                  e.fd = 0 /\ \A i \in Entered : emu_state[i].fd # op[t].fd
            /\ pc[t] = "clearplace" => e.mode = "none"

OwnerInv ==
    /\ \A f \in real \ {0} :
          \/ held[f] # "none"
          \/ \E i \in Entered : emu_state[i].isofd = f
          \/ \E t \in Openers : f \in {op[t].fd, op[t].isofd}
    /\ \A f \in Fds : held[f] \in Emulated => \E i \in Entered : emu_state[i].fd = f

SafeInv ==
    PhaseInv /\ RealInv /\ OpenInv /\ FillInv /\ FreeInv /\ EntryInv /\ CloseInv /\ OwnerInv

-----------------------------------------------------------------------------
(* A number that no thread and no entry owns is free to be handed out.     *)
LEMMA FreshDescriptor ==
    ASSUME TypeInv, SafeInv, Closers = {}, NEW f \in Fds \ real
    PROVE  /\ f # 0 /\ held[f] = "none"
           /\ \A i \in Entered : f \notin {emu_state[i].fd, emu_state[i].isofd}
           /\ \A u \in Openers : f \notin {op[u].fd, op[u].isofd}
  <1> USE FileTableAssumption DEF TypeInv, TypeOK, Entry, Op, Entered
  <1>1. f # 0 /\ held[f] = "none"
    BY DEF SafeInv, RealInv
  <1>2. \A u \in Openers : f \notin {op[u].fd, op[u].isofd}
    BY <1>1 DEF SafeInv, OpenInv
  <1>3. ASSUME NEW i \in Entered PROVE f \notin {emu_state[i].fd, emu_state[i].isofd}
    <2>1. emu_state[i].fd # 0 /\ emu_state[i].fd \in Fds
      BY <1>3 DEF Free
    <2>2. emu_state[i].fd \in real
      BY <1>3, <2>1 DEF SafeInv, RealInv, EntryInv
    <2>3. emu_state[i].isofd \notin {0, emu_state[i].fd} => emu_state[i].isofd \in real
      BY <1>3 DEF SafeInv, EntryInv
    <2> QED
      BY <1>1, <2>2, <2>3
  <1> QED
    BY <1>1, <1>2, <1>3

(* sceIoOpen and sceIoOpenAsync.                                           *)
LEMMA OpenSafe ==
    ASSUME TypeInv, SafeInv, Safe \subseteq rules, NEW t \in Threads,
           NEW k \in Kinds, NEW async \in BOOLEAN, async => k \in {"plain", "iso"},
           Open(t, k, async)
    PROVE  SafeInv'
  <1> USE FileTableAssumption DEF TypeInv, TypeOK, KindInv, Entry, Op, Kinds, Emulated, Opening, Closing, Goto
  <1>1. PICK f \in Fds \ real :
           /\ pc[t] = "idle" /\ real' = real \cup {f}
           /\ pc' = [pc EXCEPT ![t] = IF async /\ k \in {"iso", "lost"} THEN "isoopen" ELSE "delete"]
           /\ op' = [op EXCEPT ![t] = [fd |-> f, isofd |-> IF async THEN 0 ELSE f,
                                      kind |-> k, slot |-> 1]]
           /\ UNCHANGED <<emu_state, held>>
    BY DEF Open
  <1>2. Closers = {} /\ Openers' = Openers \cup {t} /\ t \notin Openers /\ Closers' = {}
    BY <1>1 DEF Closers, Openers, Open, MayOpen, Safe
  <1>4. /\ f # 0 /\ held[f] = "none"
        /\ \A i \in Entered : f \notin {emu_state[i].fd, emu_state[i].isofd}
        /\ \A u \in Openers : f \notin {op[u].fd, op[u].isofd}
    BY <1>2, FreshDescriptor
  <1>6. \A u \in Threads \ {t} : pc'[u] = pc[u] /\ op'[u] = op[u]
    BY <1>1
  <1>7. /\ op'[t].fd = f /\ op'[t].isofd = (IF async THEN 0 ELSE f) /\ op'[t].kind = k
        /\ pc'[t] = IF async /\ k = "iso" THEN "isoopen" ELSE "delete"
    BY <1>1
  <1>8. Fillers' = Fillers /\ t \notin Fillers
    BY <1>1, <1>6, <1>7 DEF Fillers, Filling
  <1>9. Entered' = Entered
    BY <1>1, <1>6, <1>8 DEF Entered, Free, Fillers
  <1>11. PhaseInv'
    BY <1>2, <1>6, <1>7 DEF PhaseInv, SafeInv
  <1>12. RealInv'
    BY <1>1 DEF RealInv, SafeInv
  <1>13. OpenInv'
    BY <1>1, <1>2, <1>4, <1>6, <1>7 DEF OpenInv, SafeInv
  <1>14. FillInv'
    BY <1>1, <1>6, <1>7, <1>8 DEF FillInv, SafeInv, Free, Fillers
  <1>15. FreeInv'
    BY <1>1, <1>6, <1>7, <1>8, <1>9 DEF FreeInv, SafeInv, Fillers
  <1>16. EntryInv'
    BY <1>1, <1>2, <1>4, <1>6, <1>7, <1>9 DEF EntryInv, SafeInv
  <1>17. CloseInv'
    BY <1>2 DEF CloseInv
  <1>18. OwnerInv'
    BY <1>1, <1>2, <1>6, <1>7, <1>9, SMTT(30) DEF OwnerInv, SafeInv
  <1> QED
    BY <1>11, <1>12, <1>13, <1>14, <1>15, <1>16, <1>17, <1>18 DEF SafeInv

(* file_emu_open opens the image once more, or cannot.                     *)
LEMMA IsoOpenSafe ==
    ASSUME TypeInv, SafeInv, NEW t \in Threads, IsoOpen(t)
    PROVE  SafeInv'
  <1> USE FileTableAssumption DEF TypeInv, TypeOK, KindInv, Entry, Op, Kinds, Emulated, Opening, Closing, Goto
  <1>1. PICK f \in Fds \ real :
           /\ pc[t] = "isoopen" /\ real' = real \cup {f}
           /\ pc' = [pc EXCEPT ![t] = "delete"] /\ op' = [op EXCEPT ![t].isofd = f]
           /\ UNCHANGED <<emu_state, held>>
    BY DEF IsoOpen
  <1>2. t \in Openers /\ Openers' = Openers /\ Closers = {} /\ Closers' = {}
    BY <1>1 DEF Closers, Openers, SafeInv, PhaseInv
  <1>4. /\ f # 0 /\ held[f] = "none"
        /\ \A i \in Entered : f \notin {emu_state[i].fd, emu_state[i].isofd}
        /\ \A u \in Openers : f \notin {op[u].fd, op[u].isofd}
    BY <1>2, FreshDescriptor
  <1>6. \A u \in Threads \ {t} : pc'[u] = pc[u] /\ op'[u] = op[u]
    BY <1>1
  <1>7. op'[t].fd = op[t].fd /\ op'[t].isofd = f /\ op'[t].kind = op[t].kind /\ pc'[t] = "delete"
    BY <1>1
  <1>8. Fillers' = Fillers /\ t \notin Fillers
    BY <1>1, <1>6, <1>7 DEF Fillers, Filling
  <1>9. Entered' = Entered
    BY <1>1, <1>6, <1>8 DEF Entered, Free, Fillers
  <1>10. op[t].kind = "iso" /\ op[t].isofd = 0
    BY <1>1, <1>2 DEF SafeInv, OpenInv
  <1>11. PhaseInv'
    BY <1>2, <1>6 DEF PhaseInv, SafeInv
  <1>12. RealInv'
    BY <1>1 DEF RealInv, SafeInv
  <1>13. OpenInv'
    BY <1>1, <1>2, <1>4, <1>6, <1>7, <1>10 DEF OpenInv, SafeInv
  <1>14. FillInv'
    BY <1>1, <1>6, <1>7, <1>8 DEF FillInv, SafeInv, Free, Fillers
  <1>15. FreeInv'
    BY <1>1, <1>6, <1>7, <1>8, <1>9 DEF FreeInv, SafeInv, Fillers
  <1>16. EntryInv'
    BY <1>1, <1>2, <1>4, <1>6, <1>7, <1>9 DEF EntryInv, SafeInv
  <1>17. CloseInv'
    BY <1>2 DEF CloseInv
  <1>18. OwnerInv'
    BY <1>1, <1>2, <1>6, <1>7, <1>9, <1>10 DEF OwnerInv, SafeInv
  <1> QED
    BY <1>11, <1>12, <1>13, <1>14, <1>15, <1>16, <1>17, <1>18 DEF SafeInv

(* A thread in a hook of open that neither gets nor gives a descriptor,    *)
(* and changes no entry.                                                   *)
LEMMA OpeningStep ==
    ASSUME TypeInv, SafeInv, NEW t \in Openers,
           Openers' = Openers, Closers' = Closers, Entered' = Entered,
           UNCHANGED <<real, held>>,
           \A i \in Entered : emu_state'[i] = emu_state[i],
           \A u \in Threads : op'[u].fd = op[u].fd /\ op'[u].isofd = op[u].isofd,
           \A u \in Threads \ {t} : op'[u].kind = op[u].kind /\ pc'[u] = pc[u],
           \/ pc[t] # "isoopen" /\ op'[t].kind = op[t].kind
           \/ op'[t].kind = "lost" /\ op[t].isofd = 0,
           pc'[t] # "isoopen", FillInv', FreeInv'
    PROVE  SafeInv'
  <1>0. Closers = {} /\ Openers \subseteq Threads
    BY DEF SafeInv, PhaseInv, Openers
  <1>1. PhaseInv'
    BY <1>0 DEF PhaseInv, SafeInv
  <1>2. RealInv'
    BY DEF RealInv, SafeInv
  <1>3. OpenInv'
    BY <1>0 DEF OpenInv, SafeInv, Emulated
  <1>4. EntryInv'
    BY <1>0 DEF EntryInv, SafeInv
  <1>5. CloseInv'
    BY <1>0 DEF CloseInv
  <1>6. OwnerInv'
    BY <1>0 DEF OwnerInv, SafeInv
  <1> QED
    BY <1>1, <1>2, <1>3, <1>4, <1>5, <1>6 DEF SafeInv

LEMMA IsoOpenFailsSafe ==
    ASSUME TypeInv, SafeInv, NEW t \in Threads, IsoOpenFails(t)
    PROVE  SafeInv'
  <1> USE DEF TypeInv, TypeOK, Op, Opening, Closing, Goto
  <1>1. /\ pc[t] = "isoopen" /\ UNCHANGED <<emu_state, real, held>>
        /\ pc' = [pc EXCEPT ![t] = "delete"] /\ op' = [op EXCEPT ![t].kind = "lost"]
    BY DEF IsoOpenFails
  <1>2. \A u \in Threads \ {t} : pc'[u] = pc[u] /\ op'[u] = op[u]
    BY <1>1
  <1>3. /\ op'[t].fd = op[t].fd /\ op'[t].isofd = op[t].isofd /\ op'[t].slot = op[t].slot
        /\ op'[t].kind = "lost" /\ pc'[t] = "delete"
    BY <1>1
  <1>4. t \in Openers /\ Openers' = Openers /\ Closers' = Closers
    BY <1>1, <1>2, <1>3 DEF Closers, Openers
  <1>5. Fillers' = Fillers /\ t \notin Fillers
    BY <1>1, <1>2, <1>3 DEF Fillers, Filling
  <1>6. Entered' = Entered
    BY <1>1, <1>2, <1>5 DEF Entered, Free, Fillers
  <1>7. op[t].isofd = 0
    BY <1>1, <1>4 DEF SafeInv, OpenInv
  <1>8. FillInv'
    BY <1>1, <1>2, <1>3, <1>5 DEF FillInv, SafeInv, Free, Fillers
  <1>9. FreeInv'
    BY <1>1, <1>2, <1>3, <1>5, <1>6 DEF FreeInv, SafeInv, Fillers
  <1>10. /\ \A i \in Entered : emu_state'[i] = emu_state[i]
         /\ \A u \in Threads : op'[u].fd = op[u].fd /\ op'[u].isofd = op[u].isofd
         /\ \A u \in Threads \ {t} : op'[u].kind = op[u].kind /\ pc'[u] = pc[u]
    BY <1>1, <1>2, <1>3
  <1> HIDE DEF TypeInv, TypeOK, Op, Opening, Closing, Goto
  <1> QED
    BY <1>1, <1>3, <1>4, <1>6, <1>7, <1>8, <1>9, <1>10, OpeningStep

(* The descriptor was free, so that no entry of it is left to delete.      *)
LEMMA NothingToDelete ==
    ASSUME TypeInv, SafeInv, NEW t \in Threads, pc[t] = "delete"
    PROVE  \A i \in Slots : emu_state[i].fd # op[t].fd
  <1> SUFFICES ASSUME NEW i \in Slots, emu_state[i].fd = op[t].fd PROVE FALSE
    OBVIOUS
  <1>1. t \in Openers /\ Closers = {} /\ t \notin Fillers
    BY DEF Openers, Opening, Fillers, Filling, SafeInv, PhaseInv
  <1>2. op[t].fd # 0 /\ held[op[t].fd] = "none"
    BY <1>1 DEF SafeInv, OpenInv
  <1>3. CASE i \in Entered
    BY <1>1, <1>2, <1>3 DEF SafeInv, EntryInv
  <1>4. CASE i \notin Entered
    <2>1. PICK u \in Fillers : op[u].slot = i
      BY <1>2, <1>4 DEF SafeInv, FreeInv
    <2>2. u \in Openers /\ u # t
      BY <1>1 DEF Openers, Opening, Fillers, Filling
    <2>3. emu_state[i].fd = op[u].fd
      BY <1>2, <2>1 DEF SafeInv, FillInv
    <2>4. op[u].fd # op[t].fd
      BY <1>1, <2>2 DEF SafeInv, OpenInv
    <2> QED
      BY <2>3, <2>4
  <1> QED
    BY <1>3, <1>4

(* The loops of set_file_mode go from slot to slot.                        *)
LEMMA ScanSafe ==
    ASSUME TypeInv, SafeInv, NEW t \in Threads, KeepSlot(t) \/ StartFind(t) \/ PassSlot(t)
    PROVE  SafeInv'
  <1> USE FileTableAssumption DEF TypeInv, TypeOK, Op, Opening, Closing, Goto
  <1>1. /\ pc[t] \in {"delete", "find"} /\ pc'[t] \in {"delete", "find"}
        /\ UNCHANGED <<emu_state, real, held>>
        /\ \A u \in Threads \ {t} : pc'[u] = pc[u] /\ op'[u] = op[u]
        /\ op'[t].fd = op[t].fd /\ op'[t].isofd = op[t].isofd /\ op'[t].kind = op[t].kind
    BY DEF KeepSlot, StartFind, PassSlot, NextSlot, At
  <1>2. t \in Openers /\ Openers' = Openers /\ Closers' = Closers
    BY <1>1 DEF Closers, Openers
  <1>3. Fillers' = Fillers /\ t \notin Fillers
    BY <1>1 DEF Fillers, Filling
  <1>4. Entered' = Entered
    BY <1>1, <1>3 DEF Entered, Free, Fillers
  <1>5. pc'[t] = "find" => \A j \in Slots : j < op'[t].slot => ~ Free(j)
    <2>1. CASE KeepSlot(t)
      BY <2>1 DEF KeepSlot, At
    <2>2. CASE StartFind(t)
      BY <2>2 DEF StartFind, Slots
    <2>3. CASE PassSlot(t)
      <3>1. pc[t] = "find" /\ op[t].slot \in Slots /\ ~ Free(op[t].slot) /\ op'[t].slot = op[t].slot + 1
        BY <2>3 DEF PassSlot, At, NextSlot
      <3>2. \A j \in Slots : j < op[t].slot => ~ Free(j)
        BY <3>1 DEF SafeInv, FillInv
      <3> QED
        BY <3>1, <3>2 DEF Slots
    <2> QED
      BY <2>1, <2>2, <2>3
  <1>8. FillInv'
    BY <1>1, <1>3, <1>5 DEF FillInv, SafeInv, Free, Fillers
  <1>9. FreeInv'
    BY <1>1, <1>3, <1>4 DEF FreeInv, SafeInv, Fillers
  <1>10. /\ \A i \in Entered : emu_state'[i] = emu_state[i]
         /\ \A u \in Threads : op'[u].fd = op[u].fd /\ op'[u].isofd = op[u].isofd
         /\ \A u \in Threads \ {t} : op'[u].kind = op[u].kind /\ pc'[u] = pc[u]
         /\ pc[t] # "isoopen" /\ pc'[t] # "isoopen" /\ UNCHANGED <<real, held>> /\ op'[t].kind = op[t].kind
    BY <1>1
  <1> HIDE DEF TypeInv, TypeOK, Op, Opening, Closing, Goto
  <1> QED
    BY <1>2, <1>4, <1>8, <1>9, <1>10, OpeningStep

(* Under the rules nothing is deleted.                                     *)
LEMMA DeleteSafe ==
    ASSUME TypeInv, SafeInv, NEW t \in Threads, DeleteOld(t) \/ DeleteMode(t)
    PROVE  FALSE
  <1>1. CASE DeleteOld(t)
    BY <1>1, NothingToDelete DEF DeleteOld, At
  <1>2. CASE DeleteMode(t)
    BY <1>2 DEF DeleteMode, Goto, SafeInv, FillInv
  <1> QED
    BY <1>1, <1>2

LEMMA FindSlotSafe ==
    ASSUME TypeInv, SafeInv, Safe \subseteq rules, NEW t \in Threads, FindSlot(t), Undisturbed(t)
    PROVE  SafeInv'
  <1> USE DEF TypeInv, TypeOK, Entry, Op, Opening, Closing, Goto
  <1> DEFINE i == op[t].slot
  <1>1. /\ pc[t] = "find" /\ i \in Slots /\ Free(i) /\ UNCHANGED <<emu_state, real, held, op>>
        /\ pc' = [pc EXCEPT ![t] = "fd"]
    BY DEF FindSlot, At
  <1>2. pc'[t] = "fd" /\ \A u \in Threads \ {t} : pc'[u] = pc[u] /\ op'[u] = op[u]
    BY <1>1
  <1>3. t \in Openers /\ Openers' = Openers /\ Closers' = Closers /\ Closers = {}
    BY <1>1, <1>2 DEF Closers, Openers, SafeInv, PhaseInv
  <1>4. Fillers' = Fillers \cup {t} /\ t \notin Fillers
    BY <1>1, <1>2 DEF Fillers, Filling
  <1>5. ASSUME NEW u \in Fillers PROVE op[u].slot # i
    <2>1. pc[u] = "place" /\ u \in Openers
      BY <1>4 DEF Undisturbed, Safe, Taking, Fillers, Filling, Openers
    <2>2. emu_state[op[u].slot].fd = op[u].fd /\ emu_state[op[u].slot].mode = op[u].kind
      BY <2>1 DEF SafeInv, FillInv
    <2>3. op[u].fd # 0 /\ op[u].kind # "none"
      BY <2>1 DEF SafeInv, OpenInv, Openers, Kinds
    <2> QED
      BY <1>1, <2>2, <2>3 DEF Free
  <1>6. i \notin Entered
    BY <1>1 DEF Entered
  <1>7. Entered' = Entered
    BY <1>1, <1>4, <1>6 DEF Entered, Free, Fillers
  <1>8. emu_state[i].fd = 0 /\ emu_state[i].mode = "none"
    <2>1. emu_state[i].fd = 0
      BY <1>1, <1>5, <1>6 DEF SafeInv, FreeInv
    <2>2. ASSUME emu_state[i].mode # "none" PROVE FALSE
      <3>1. PICK u \in Threads : pc[u] \in {"place", "clearmode"} /\ op[u].slot = i
        BY <1>1, <1>6, <2>2 DEF SafeInv, FreeInv
      <3>2. u \in Fillers \/ u \in Closers
        BY <3>1 DEF Fillers, Filling, Closers
      <3> QED
        BY <1>3, <1>5, <3>1, <3>2
    <2> QED
      BY <2>1, <2>2
  <1> HIDE DEF i
  <1>9. FillInv'
    <2>1. op'[t].slot = i /\ op' = op /\ emu_state' = emu_state
      BY <1>1 DEF i
    <2> QED
      BY <1>2, <1>4, <1>5, <1>8, <2>1 DEF FillInv, SafeInv, Free, Fillers
  <1>10. FreeInv'
    BY <1>1, <1>2, <1>4, <1>7 DEF FreeInv, SafeInv, Fillers
  <1>11. /\ \A j \in Entered : emu_state'[j] = emu_state[j]
         /\ \A u \in Threads : op'[u].fd = op[u].fd /\ op'[u].isofd = op[u].isofd
         /\ \A u \in Threads \ {t} : op'[u].kind = op[u].kind /\ pc'[u] = pc[u]
         /\ pc[t] # "isoopen" /\ pc'[t] # "isoopen" /\ UNCHANGED <<real, held>> /\ op'[t].kind = op[t].kind
    BY <1>1, <1>2
  <1> HIDE DEF TypeInv, TypeOK, Op, Opening, Closing, Goto
  <1> QED
    BY <1>3, <1>7, <1>9, <1>10, <1>11, OpeningStep

(* The stores to a slot that is not yet an entry.                          *)
LEMMA StoreSafe ==
    ASSUME TypeInv, SafeInv, NEW t \in Threads, StoreFd(t) \/ StoreIsofd(t) \/ StoreMode(t)
    PROVE  SafeInv'
  <1> USE DEF TypeInv, TypeOK, KindInv, SlotInv, Op, Emulated, Opening, Closing, Goto
  <1> DEFINE i == op[t].slot
  <1>1. /\ pc[t] \in {"fd", "isofd", "mode"} /\ i \in Slots /\ UNCHANGED <<real, held, op>>
        /\ pc'[t] = (IF pc[t] = "fd" THEN "isofd" ELSE IF pc[t] = "isofd" THEN "mode" ELSE "place")
        /\ \A u \in Threads \ {t} : pc'[u] = pc[u]
    BY DEF StoreFd, StoreIsofd, StoreMode, Filling
  <1>2. /\ \A j \in Slots \ {i} : emu_state'[j] = emu_state[j]
        /\ pc[t] = "fd" => /\ emu_state'[i].fd = op[t].fd /\ emu_state'[i].mode = emu_state[i].mode
        /\ pc[t] = "isofd" => /\ emu_state'[i].isofd = op[t].isofd /\ emu_state'[i].fd = emu_state[i].fd
                              /\ emu_state'[i].mode = emu_state[i].mode
        /\ pc[t] = "mode" => /\ emu_state'[i].mode = op[t].kind
                             /\ emu_state'[i].fd = emu_state[i].fd
                             /\ emu_state'[i].isofd = emu_state[i].isofd
    <2>1. emu_state[i] \in Entry
      BY <1>1
    <2>2. CASE StoreFd(t)
      BY <1>1, <2>1, <2>2 DEF StoreFd, Entry
    <2>3. CASE StoreIsofd(t)
      BY <1>1, <2>1, <2>3 DEF StoreIsofd, Entry
    <2>4. CASE StoreMode(t)
      BY <1>1, <2>1, <2>4 DEF StoreMode, Entry
    <2> QED
      BY <2>2, <2>3, <2>4
  <1>3. t \in Openers /\ Openers' = Openers /\ Closers' = Closers
    BY <1>1 DEF Closers, Openers
  <1>4. Fillers' = Fillers /\ t \in Fillers /\ \A u \in Fillers \ {t} : op[u].slot # i
    BY <1>1 DEF Fillers, Filling, SafeInv, FillInv
  <1>5. i \notin Entered /\ i \notin Entered'
    BY <1>1, <1>4 DEF Entered
  <1>6. Entered' = Entered
    BY <1>1, <1>2, <1>4, <1>5 DEF Entered, Free
  <1>7. op[t].fd # 0 /\ op[t].kind # "none"
    BY <1>1, <1>3 DEF SafeInv, OpenInv, Kinds
  <1>8. /\ emu_state[i].fd = (IF pc[t] = "fd" THEN 0 ELSE op[t].fd) /\ emu_state[i].mode = "none"
        /\ pc[t] = "mode" => emu_state[i].isofd = op[t].isofd
    BY <1>1, <1>4 DEF SafeInv, FillInv
  <1>9. FillInv'
    <2>1. \A u \in Threads : pc'[u] # "deletemode"
      BY <1>1 DEF SafeInv, FillInv
    <2>2. ASSUME NEW u \in Threads, NEW j \in Slots, pc'[u] = "find" /\ j < op'[u].slot
          PROVE  ~ Free(j)'
      <3>1. ~ Free(j)
        BY <1>1, <2>2 DEF SafeInv, FillInv
      <3>2. j # i
        BY <1>8, <3>1 DEF Free
      <3> QED
        BY <1>2, <3>1, <3>2 DEF Free
    <2>3. \A u, v \in Fillers' : u # v => op'[u].slot # op'[v].slot
      BY <1>1, <1>4 DEF SafeInv, FillInv
    <2>4. ASSUME NEW u \in Fillers'
          PROVE  LET e == emu_state'[op'[u].slot]
                 IN  /\ pc'[u] = "fd" => e.fd = 0
                     /\ pc'[u] # "fd" => e.fd = op'[u].fd
                     /\ pc'[u] \in {"mode", "place"} => e.isofd = op'[u].isofd
                     /\ e.mode = IF pc'[u] = "place" THEN op'[u].kind ELSE "none"
      <3>1. CASE u = t
        BY <1>1, <1>2, <1>8, <3>1
      <3>2. CASE u # t
        <4>1. u \in Fillers /\ pc'[u] = pc[u] /\ op'[u] = op[u] /\ op[u].slot \in Slots \ {i}
          BY <1>1, <1>4, <2>4, <3>2 DEF Fillers, Filling
        <4> QED
          BY <1>2, <4>1 DEF SafeInv, FillInv
      <3> QED
        BY <3>1, <3>2
    <2> QED
      BY <2>1, <2>2, <2>3, <2>4 DEF FillInv
  <1>10. FreeInv'
    <2>1. ASSUME NEW j \in Slots \ Entered'
          PROVE  /\ emu_state'[j].fd # 0 => \E u \in Fillers' : op'[u].slot = j
                 /\ emu_state'[j].mode # "none" =>
                       \E u \in Threads : pc'[u] \in {"place", "clearmode"} /\ op'[u].slot = j
      <3>1. CASE j = i
        BY <1>1, <1>2, <1>4, <1>8, <3>1
      <3>2. CASE j # i
        <4>1. j \in Slots \ Entered /\ emu_state'[j] = emu_state[j]
          BY <1>2, <1>6, <3>2
        <4>2. emu_state[j].mode # "none" =>
                 \E u \in Threads \ {t} : pc[u] \in {"place", "clearmode"} /\ op[u].slot = j
          BY <1>1, <4>1 DEF SafeInv, FreeInv
        <4>3. emu_state[j].fd # 0 => \E u \in Fillers : op[u].slot = j
          BY <4>1 DEF SafeInv, FreeInv
        <4> QED
          BY <1>1, <1>4, <4>1, <4>2, <4>3
      <3> QED
        BY <3>1, <3>2
    <2> QED
      BY <2>1 DEF FreeInv
  <1>11. /\ \A j \in Entered : emu_state'[j] = emu_state[j]
         /\ \A u \in Threads : op'[u].fd = op[u].fd /\ op'[u].isofd = op[u].isofd
         /\ \A u \in Threads \ {t} : op'[u].kind = op[u].kind /\ pc'[u] = pc[u]
         /\ pc[t] # "isoopen" /\ pc'[t] # "isoopen" /\ UNCHANGED <<real, held>> /\ op'[t].kind = op[t].kind
    BY <1>1, <1>2, <1>5 DEF Entered
  <1> HIDE DEF TypeInv, TypeOK, KindInv, SlotInv, Op, Emulated, Opening, Closing, Goto, i
  <1> QED
    BY <1>3, <1>6, <1>9, <1>10, <1>11, OpeningStep

(* A hook of open returns without an entry.                                *)
LEMMA NoModeSafe ==
    ASSUME TypeInv, SafeInv, NEW t \in Threads, NoMode(t)
    PROVE  SafeInv'
  <1> USE FileTableAssumption DEF TypeInv, TypeOK, KindInv, Entry, Op, Kinds, Emulated, Opening, Closing, Goto
  <1>1. /\ pc[t] = "delete" /\ UNCHANGED <<emu_state, real>> /\ op[t].kind \notin Emulated
        /\ pc' = [pc EXCEPT ![t] = "idle"] /\ op' = [op EXCEPT ![t] = NoOp]
        /\ held' = [held EXCEPT ![op[t].fd] = op[t].kind]
    BY DEF NoMode, OpenReturns, Return, At
  <1>2. t \in Openers /\ Openers' = Openers \ {t} /\ Closers = {} /\ Closers' = {}
    BY <1>1 DEF Closers, Openers, SafeInv, PhaseInv
  <1>3. Fillers' = Fillers /\ t \notin Fillers
    BY <1>1 DEF Fillers, Filling
  <1>4. \A u \in Threads \ {t} : pc'[u] = pc[u] /\ op'[u] = op[u]
    BY <1>1
  <1>5. op'[t] = NoOp /\ pc'[t] = "idle"
    BY <1>1
  <1>6. Entered' = Entered
    BY <1>1, <1>3, <1>4 DEF Entered, Free, Fillers
  <1>7. op[t].fd \in real \ {0} /\ op[t].isofd \in {0, op[t].fd}
    BY <1>1, <1>2 DEF SafeInv, OpenInv
  <1>8. op[t].fd \in Fds /\ held'[op[t].fd] = op[t].kind /\ op[t].kind # "none"
        /\ \A f \in Fds \ {op[t].fd} : held'[f] = held[f]
    BY <1>1, <1>7
  <1>9. \A i \in Entered : op[t].fd \notin {emu_state[i].fd, emu_state[i].isofd}
    <2>1. \A i \in Entered : emu_state[i].fd # op[t].fd
      BY <1>1, NothingToDelete DEF Entered
    <2>2. \A i \in Entered : emu_state[i].isofd \notin {0, emu_state[i].fd} => emu_state[i].isofd # op[t].fd
      BY <1>2 DEF SafeInv, EntryInv
    <2> QED
      BY <1>7, <2>1, <2>2
  <1>10. \A u \in Openers' : op[t].fd \notin {op[u].fd, op[u].isofd}
    BY <1>2 DEF SafeInv, OpenInv
  <1>11. PhaseInv'
    BY <1>2, <1>4, <1>5 DEF PhaseInv, SafeInv, NoOp
  <1>12. RealInv'
    BY <1>1, <1>7, <1>8 DEF RealInv, SafeInv
  <1>13. OpenInv'
    BY <1>1, <1>2, <1>4, <1>5, <1>8, <1>10 DEF OpenInv, SafeInv
  <1>14. FillInv'
    BY <1>1, <1>3, <1>4, <1>5 DEF FillInv, SafeInv, Free, Fillers
  <1>15. FreeInv'
    BY <1>1, <1>3, <1>4, <1>5, <1>6 DEF FreeInv, SafeInv, Fillers
  <1>16. EntryInv'
    BY <1>1, <1>2, <1>4, <1>6, <1>8, <1>9 DEF EntryInv, SafeInv
  <1>17. CloseInv'
    BY <1>2 DEF CloseInv
  <1>18. OwnerInv'
    BY <1>1, <1>2, <1>4, <1>6, <1>7, <1>8, <1>9 DEF OwnerInv, SafeInv
  <1> QED
    BY <1>11, <1>12, <1>13, <1>14, <1>15, <1>16, <1>17, <1>18 DEF SafeInv

(* The last store makes an entry of the slot.                              *)
LEMMA StorePlaceSafe ==
    ASSUME TypeInv, SafeInv, NEW t \in Threads, StorePlace(t)
    PROVE  SafeInv'
  <1> USE FileTableAssumption DEF TypeInv, TypeOK, KindInv, SlotInv, Op, Kinds, Emulated, Opening, Closing, Goto
  <1>0. op[t].slot \in Slots
    BY DEF StorePlace, OpenReturns, Return, Filling
  <1> PICK i \in Slots : i = op[t].slot
    BY <1>0
  <1>1. /\ pc[t] = "place" /\ UNCHANGED real /\ i = op[t].slot /\ op[t].kind \in Emulated
        /\ pc' = [pc EXCEPT ![t] = "idle"] /\ op' = [op EXCEPT ![t] = NoOp]
        /\ held' = [held EXCEPT ![op[t].fd] = op[t].kind]
        /\ emu_state' = [emu_state EXCEPT ![i].place = op[t].fd]
    BY DEF StorePlace, OpenReturns, Return, Filling
  <1>2. t \in Openers /\ Openers' = Openers \ {t} /\ Closers = {} /\ Closers' = {}
    BY <1>1 DEF Closers, Openers, SafeInv, PhaseInv
  <1>3. t \in Fillers /\ Fillers' = Fillers \ {t} /\ \A u \in Fillers \ {t} : op[u].slot # i
    BY <1>1 DEF Fillers, Filling, SafeInv, FillInv
  <1>4. \A u \in Threads \ {t} : pc'[u] = pc[u] /\ op'[u] = op[u]
    BY <1>1
  <1>5. op'[t] = NoOp /\ pc'[t] = "idle"
    BY <1>1
  <1>6. /\ emu_state'[i].fd = op[t].fd /\ emu_state'[i].isofd = op[t].isofd
        /\ emu_state'[i].mode = op[t].kind /\ emu_state'[i].place = op[t].fd
        /\ \A j \in Slots \ {i} : emu_state'[j] = emu_state[j]
    <2>1. emu_state[i].fd = op[t].fd /\ emu_state[i].isofd = op[t].isofd /\ emu_state[i].mode = op[t].kind
      BY <1>1, <1>3 DEF SafeInv, FillInv
    <2>2. emu_state[i] \in Entry
      BY <1>1
    <2> QED
      BY <1>1, <2>1, <2>2 DEF Entry
  <1>7. /\ op[t].fd \in real \ {0} /\ op[t].isofd # 0 /\ op[t].isofd \in real
        /\ op[t].isofd # op[t].fd => held[op[t].isofd] = "none"
    BY <1>1, <1>2 DEF SafeInv, OpenInv
  <1>8. i \notin Entered /\ Entered' = Entered \cup {i}
    <2>1. i \notin Entered
      BY <1>1, <1>3 DEF Entered
    <2>2. ~ Free(i)'
      BY <1>1, <1>6, <1>7 DEF Free
    <2>3. \A j \in Slots \ {i} : Free(j)' = Free(j)
      BY <1>6 DEF Free
    <2>4. \A u \in Fillers' : u # t /\ op'[u] = op[u] /\ op[u].slot # i
      BY <1>3, <1>4 DEF Fillers
    <2>5. i \in Entered'
      BY <1>1, <2>2, <2>4 DEF Entered
    <2>6. ASSUME NEW j \in Slots \ {i} PROVE j \in Entered' <=> j \in Entered
      BY <1>3, <2>3, <2>4 DEF Entered
    <2> QED
      BY <1>1, <2>1, <2>5, <2>6 DEF Entered
  <1>9. op[t].fd \in Fds /\ held'[op[t].fd] = op[t].kind /\ op[t].kind # "none"
        /\ \A f \in Fds \ {op[t].fd} : held'[f] = held[f]
    BY <1>1, <1>7
  <1>10. \A u \in Openers' : /\ op[t].fd \notin {op[u].fd, op[u].isofd}
                             /\ op[t].isofd \notin {op[u].fd, op[u].isofd}
    BY <1>2, <1>7 DEF SafeInv, OpenInv
  <1>11. \A j \in Entered : /\ op[t].fd \notin {emu_state[j].fd, emu_state[j].isofd}
                            /\ op[t].isofd # emu_state[j].isofd
                            /\ emu_state[j].fd # op[t].isofd
    <2> SUFFICES ASSUME NEW j \in Entered
                 PROVE  /\ op[t].fd \notin {emu_state[j].fd, emu_state[j].isofd}
                        /\ op[t].isofd # emu_state[j].isofd
                        /\ emu_state[j].fd # op[t].isofd
      OBVIOUS
    <2>1. held[emu_state[j].fd] # "none"
      BY <1>2 DEF SafeInv, EntryInv
    <2>2. held[op[t].fd] = "none"
      BY <1>2 DEF SafeInv, OpenInv
    <2>3. emu_state[j].isofd \notin {0, emu_state[j].fd} =>
             emu_state[j].isofd \notin {op[t].fd, op[t].isofd}
      BY <1>2 DEF SafeInv, EntryInv
    <2> QED
      BY <1>7, <2>1, <2>2, <2>3
  <1>12. PhaseInv'
    BY <1>2, <1>4, <1>5 DEF PhaseInv, SafeInv, NoOp
  <1>13. RealInv'
    BY <1>1, <1>7, <1>9 DEF RealInv, SafeInv
  <1>14. OpenInv'
    BY <1>1, <1>2, <1>4, <1>9, <1>10 DEF OpenInv, SafeInv
  <1>15. FillInv'
    <2>1. \A u \in Threads : pc'[u] # "deletemode"
      BY <1>4, <1>5 DEF SafeInv, FillInv
    <2>2. ASSUME NEW u \in Threads, NEW j \in Slots, pc'[u] = "find" /\ j < op'[u].slot
          PROVE  ~ Free(j)'
      <3>1. ~ Free(j)
        BY <1>4, <1>5, <2>2 DEF SafeInv, FillInv
      <3>2. CASE j = i
        BY <1>1, <1>6, <1>7, <3>2 DEF Free
      <3>3. CASE j # i
        BY <1>6, <3>1, <3>3 DEF Free
      <3> QED
        BY <3>2, <3>3
    <2>3. ASSUME NEW u \in Fillers'
          PROVE  /\ u \in Fillers /\ op'[u] = op[u] /\ pc'[u] = pc[u]
                 /\ emu_state'[op[u].slot] = emu_state[op[u].slot]
      BY <1>3, <1>4, <1>6 DEF Fillers
    <2>4. \A u, v \in Fillers' : u # v => op'[u].slot # op'[v].slot
      BY <2>3 DEF SafeInv, FillInv
    <2>5. ASSUME NEW u \in Fillers'
          PROVE  LET e == emu_state'[op'[u].slot]
                 IN  /\ pc'[u] = "fd" => e.fd = 0
                     /\ pc'[u] # "fd" => e.fd = op'[u].fd
                     /\ pc'[u] \in {"mode", "place"} => e.isofd = op'[u].isofd
                     /\ e.mode = IF pc'[u] = "place" THEN op'[u].kind ELSE "none"
      BY <2>3 DEF SafeInv, FillInv
    <2> QED
      BY <2>1, <2>2, <2>4, <2>5 DEF FillInv
  <1>16. FreeInv'
    <2> SUFFICES ASSUME NEW j \in Slots \ Entered'
                 PROVE  /\ emu_state'[j].fd # 0 => \E u \in Fillers' : op'[u].slot = j
                        /\ emu_state'[j].mode # "none" =>
                              \E u \in Threads : pc'[u] \in {"place", "clearmode"} /\ op'[u].slot = j
      BY DEF FreeInv
    <2>1. j \in Slots \ Entered /\ j # i /\ emu_state'[j] = emu_state[j]
      BY <1>6, <1>8
    <2>2. emu_state[j].fd # 0 => \E u \in Fillers : op[u].slot = j /\ u # t
      BY <2>1 DEF SafeInv, FreeInv
    <2>3. emu_state[j].mode # "none" =>
             \E u \in Threads : pc[u] \in {"place", "clearmode"} /\ op[u].slot = j /\ u # t
      BY <2>1 DEF SafeInv, FreeInv
    <2> QED
      BY <1>3, <1>4, <2>1, <2>2, <2>3 DEF Fillers
  <1>17. EntryInv'
    <2> SUFFICES ASSUME NEW j \in Entered'
                 PROVE  LET e == emu_state'[j]
                        IN  /\ held'[e.fd] \in {e.mode, "none"}
                            /\ held'[e.fd] = "none" => \E u \in Closers' : op'[u].fd = e.fd
                            /\ held'[e.fd] # "none" => e.isofd # 0 /\ e.place = e.fd
                            /\ e.isofd \notin {0, e.fd} =>
                                  /\ e.isofd \in real' \/ \E u \in Closers' : pc'[u] = "clearisofd" /\ op'[u].slot = j
                                  /\ held'[e.isofd] = "none"
                                  /\ \A u \in Openers' : e.isofd \notin {op'[u].fd, op'[u].isofd}
                            /\ \A l \in Entered' \ {j} :
                                  emu_state'[l].fd # e.fd /\ (e.isofd # 0 => emu_state'[l].isofd # e.isofd)
      BY DEF EntryInv
    <2>1. \A u \in Openers' : op'[u] = op[u]
      BY <1>2, <1>4 DEF Openers
    <2>2. CASE j = i
      <3> HIDE FileTableAssumption DEF Op, Kinds, Opening, Closing, Goto
      <3> QED
        BY <1>1, <1>6, <1>7, <1>8, <1>9, <1>10, <1>11, <2>1, <2>2, SMTT(30) DEF Entered
    <2>3. CASE j # i
      <3>1. j \in Entered /\ emu_state'[j] = emu_state[j]
        BY <1>6, <1>8, <2>3 DEF Entered
      <3>2. held'[emu_state[j].fd] = held[emu_state[j].fd] /\ held[emu_state[j].fd] # "none"
        <4>1. emu_state[j].fd \in Fds /\ emu_state[j].fd # op[t].fd
          BY <1>11, <3>1 DEF Entered, Free, Entry
        <4>2. held[emu_state[j].fd] # "none"
          BY <1>2, <3>1 DEF SafeInv, EntryInv
        <4> QED
          BY <1>9, <4>1, <4>2
      <3>3. emu_state[j].isofd \notin {0, emu_state[j].fd} =>
               /\ emu_state[j].isofd \in real /\ held'[emu_state[j].isofd] = "none"
               /\ \A u \in Openers' : emu_state[j].isofd \notin {op'[u].fd, op'[u].isofd}
        <4>1. emu_state[j].isofd \in Fds \cup {0} /\ emu_state[j].isofd # op[t].fd
          BY <1>11, <3>1 DEF Entered, Entry
        <4>2. emu_state[j].isofd \notin {0, emu_state[j].fd} =>
                 /\ emu_state[j].isofd \in real /\ held[emu_state[j].isofd] = "none"
                 /\ \A u \in Openers : emu_state[j].isofd \notin {op[u].fd, op[u].isofd}
          BY <1>2, <3>1 DEF SafeInv, EntryInv
        <4> QED
          BY <1>2, <1>9, <2>1, <4>1, <4>2
      <3>4. ASSUME NEW l \in Entered' \ {j}
            PROVE  /\ emu_state'[l].fd # emu_state[j].fd
                   /\ emu_state[j].isofd # 0 => emu_state'[l].isofd # emu_state[j].isofd
        <4>1. CASE l = i
          BY <1>6, <1>11, <3>1, <4>1
        <4>2. CASE l # i
          <5>1. l \in Entered \ {j} /\ emu_state'[l] = emu_state[l]
            BY <1>6, <1>8, <4>2 DEF Entered
          <5> QED
            BY <3>1, <5>1 DEF SafeInv, EntryInv
        <4> QED
          BY <4>1, <4>2
      <3>5. /\ held[emu_state[j].fd] \in {emu_state[j].mode, "none"}
            /\ held[emu_state[j].fd] # "none" => emu_state[j].isofd # 0 /\ emu_state[j].place = emu_state[j].fd
        BY <3>1 DEF SafeInv, EntryInv
      <3>6. held'[emu_state[j].fd] # "none"
        BY <3>2
      <3>7. \A l \in Entered' \ {j} :
               emu_state'[l].fd # emu_state[j].fd /\ (emu_state[j].isofd # 0 => emu_state'[l].isofd # emu_state[j].isofd)
        BY <3>4
      <3>8. emu_state[j].isofd \notin {0, emu_state[j].fd} =>
               /\ emu_state[j].isofd \in real' /\ held'[emu_state[j].isofd] = "none"
               /\ \A u \in Openers' : emu_state[j].isofd \notin {op'[u].fd, op'[u].isofd}
        BY <1>1, <3>3
      <3>9. held'[emu_state[j].fd] \in {emu_state[j].mode, "none"} /\ emu_state[j].isofd # 0
            /\ emu_state[j].place = emu_state[j].fd
        BY <3>2, <3>5
      <3>10. emu_state'[j] = emu_state[j]
        BY <3>1
      <3> HIDE DEF TypeInv, TypeOK
      <3> QED
        BY <3>6, <3>7, <3>8, <3>9, <3>10
    <2> QED
      BY <2>2, <2>3
  <1>18. CloseInv'
    BY <1>2 DEF CloseInv
  <1>19. OwnerInv'
    <2>1. \A u \in Openers \ {t} : u \in Openers' /\ op'[u] = op[u]
      BY <1>2, <1>4 DEF Openers
    <2>2. ASSUME NEW f \in real' \ {0}
          PROVE  \/ held'[f] # "none"
                 \/ \E j \in Entered' : emu_state'[j].isofd = f
                 \/ \E u \in Openers' : f \in {op'[u].fd, op'[u].isofd}
      <3>1. CASE held[f] # "none"
        BY <1>1, <1>9, <3>1
      <3>2. ASSUME NEW j \in Entered, emu_state[j].isofd = f
            PROVE  j \in Entered' /\ emu_state'[j].isofd = f
        BY <1>6, <1>8, <3>2 DEF Entered
      <3>3. CASE f \in {op[t].fd, op[t].isofd}
        BY <1>6, <1>8, <1>9, <3>3
      <3>4. CASE \E u \in Openers \ {t} : f \in {op[u].fd, op[u].isofd}
        BY <2>1, <3>4
      <3>5. \/ held[f] # "none"
            \/ \E j \in Entered : emu_state[j].isofd = f
            \/ \E u \in Openers : f \in {op[u].fd, op[u].isofd}
        BY <1>1, <2>2 DEF SafeInv, OwnerInv
      <3> QED
        BY <3>1, <3>2, <3>3, <3>4, <3>5
    <2>3. ASSUME NEW f \in Fds, held'[f] \in Emulated PROVE \E j \in Entered' : emu_state'[j].fd = f
      <3>1. CASE f = op[t].fd
        BY <1>6, <1>8, <3>1
      <3>2. CASE f # op[t].fd
        <4>1. held[f] \in Emulated
          BY <1>9, <2>3, <3>2
        <4>2. PICK j \in Entered : emu_state[j].fd = f
          BY <4>1 DEF SafeInv, OwnerInv
        <4>3. j \in Entered' /\ emu_state'[j] = emu_state[j]
          BY <1>6, <1>8 DEF Entered
        <4> QED
          BY <4>2, <4>3
      <3> QED
        BY <3>1, <3>2
    <2> QED
      BY <2>2, <2>3 DEF OwnerInv
  <1> QED
    BY <1>12, <1>13, <1>14, <1>15, <1>16, <1>17, <1>18, <1>19 DEF SafeInv

-----------------------------------------------------------------------------
(* While a thread is in a hook of close, none is in a hook of open.        *)
LEMMA ClosingPhase ==
    ASSUME TypeInv, SafeInv, NEW t \in Threads, t \in Closers \/ (Openers = {} /\ pc[t] = "idle"),
           pc'[t] \in Closing \cup {"idle"}, op'[t].kind = "plain",
           \A u \in Threads \ {t} : pc'[u] = pc[u] /\ op'[u] = op[u]
    PROVE  /\ Openers = {} /\ Openers' = {} /\ Fillers = {} /\ Fillers' = {}
           /\ PhaseInv' /\ OpenInv' /\ FillInv'
  <1>1. Openers = {} /\ Openers' = {}
    BY DEF Openers, Opening, Closing, Closers, SafeInv, PhaseInv
  <1>2. Fillers = {} /\ Fillers' = {} /\ \A u \in Threads : pc'[u] \notin {"deletemode", "find"}
    BY <1>1 DEF Fillers, Filling, Openers, Opening
  <1>3. \A u \in Threads : op'[u].kind = "plain"
    BY <1>1 DEF SafeInv, PhaseInv
  <1>4. PhaseInv'
    BY <1>1, <1>3 DEF PhaseInv
  <1>5. OpenInv'
    BY <1>1 DEF OpenInv
  <1>6. FillInv'
    BY <1>2 DEF FillInv
  <1> QED
    BY <1>1, <1>2, <1>4, <1>5, <1>6

(* No two threads that close compare or clear the same entry.              *)
LEMMA ClosersApart ==
    ASSUME SafeInv, NEW t \in Closers, NEW u \in Closers, t # u,
           pc[t] \in {"compare", "isoclose", "clearisofd", "clearfd"},
           pc[u] \in Closing \ {"look"}
    PROVE  op[u].slot # op[t].slot
  BY DEF SafeInv, CloseInv, Closing

(* sceIoClose and sceIoCloseAsync.                                         *)
LEMMA CloseSafe ==
    ASSUME TypeInv, SafeInv, Safe \subseteq rules, NEW t \in Threads, NEW f \in Fds, Close(t, f)
    PROVE  SafeInv'
  <1> USE FileTableAssumption DEF TypeInv, TypeOK, Entry, Op, Kinds, Emulated, Opening, Closing, Goto
  <1>1. /\ pc[t] = "idle" /\ UNCHANGED emu_state /\ held[f] # "none"
        /\ real' = real \ {f} /\ held' = [held EXCEPT ![f] = "none"]
        /\ pc' = [pc EXCEPT ![t] = "look"] /\ op' = [op EXCEPT ![t].fd = f]
    BY DEF Close
  <1>2. Openers = {} /\ t \notin Closers /\ Closers' = Closers \cup {t}
    BY <1>1 DEF Closers, Openers, Close, MayClose, Safe
  <1>3. \A u \in Threads \ {t} : pc'[u] = pc[u] /\ op'[u] = op[u]
    BY <1>1
  <1>4. op'[t].fd = f /\ op'[t].kind = "plain" /\ pc'[t] = "look"
    BY <1>1, <1>2 DEF SafeInv, PhaseInv
  <1>5. /\ Openers' = {} /\ Fillers = {} /\ Fillers' = {} /\ PhaseInv' /\ OpenInv' /\ FillInv'
    BY <1>1, <1>2, <1>3, <1>4, ClosingPhase
  <1>6. Entered' = Entered
    BY <1>1, <1>5 DEF Entered, Free
  <1>7. f # 0 /\ f \in real /\ \A i \in Entered : emu_state[i].isofd \notin {0, emu_state[i].fd} => emu_state[i].isofd # f
    BY <1>1 DEF SafeInv, RealInv, EntryInv
  <1>8. \A u \in Closers : op[u].fd # f
    BY <1>7 DEF SafeInv, CloseInv
  <1>9. held'[f] = "none" /\ \A g \in Fds \ {f} : held'[g] = held[g]
    BY <1>1
  <1>12. RealInv'
    BY <1>1, <1>7, <1>9 DEF RealInv, SafeInv
  <1>15. FreeInv'
    BY <1>1, <1>3, <1>4, <1>5, <1>6 DEF FreeInv, SafeInv
  <1>16. EntryInv'
    BY <1>1, <1>2, <1>3, <1>4, <1>5, <1>6, <1>7, <1>8, <1>9 DEF EntryInv, SafeInv
  <1>17. CloseInv'
    <2>1. \A u \in Closers : /\ u # t /\ op'[u] = op[u] /\ pc'[u] = pc[u] /\ op[u].fd \notin real'
                             /\ op[u].fd \in Fds /\ held'[op[u].fd] = "none"
      BY <1>1, <1>2, <1>3, <1>9 DEF Closers, CloseInv, SafeInv
    <2>2. \A i \in Entered : emu_state[i].fd = f => emu_state[i].isofd # 0
      BY <1>1 DEF EntryInv, SafeInv
    <2>3. \A u \in Closers : pc[u] = "isoclose" => emu_state[op[u].slot].isofd \in real'
      BY <1>1, <1>7 DEF CloseInv, SafeInv
    <2>4. f \notin real' /\ held'[f] = "none"
      BY <1>1, <1>9
    <2> QED
      BY <1>1, <1>2, <1>4, <1>6, <1>7, <1>8, <2>1, <2>2, <2>3, <2>4 DEF CloseInv, SafeInv
  <1>18. OwnerInv'
    BY <1>1, <1>2, <1>5, <1>6, <1>9 DEF OwnerInv, SafeInv
  <1> QED
    BY <1>5, <1>12, <1>15, <1>16, <1>17, <1>18 DEF SafeInv

LEMMA CloseNothingSafe ==
    ASSUME TypeInv, SafeInv, NEW t \in Threads, CloseNothing(t)
    PROVE  SafeInv'
  <1> USE FileTableAssumption DEF TypeInv, TypeOK, Entry, Op, Kinds, Emulated, Opening, Closing, Goto
  <1>1. /\ pc[t] = "look" /\ UNCHANGED <<emu_state, real, held>> /\ Lookup(op[t].fd) = 0
        /\ pc' = [pc EXCEPT ![t] = "idle"] /\ op' = [op EXCEPT ![t] = NoOp]
    BY DEF CloseNothing, Return
  <1>2. t \in Closers /\ Closers' = Closers \ {t}
    BY <1>1 DEF Closers
  <1>3. \A u \in Threads \ {t} : pc'[u] = pc[u] /\ op'[u] = op[u]
    BY <1>1
  <1>4. op'[t].kind = "plain" /\ pc'[t] = "idle"
    BY <1>1 DEF NoOp
  <1>5. /\ Openers = {} /\ Openers' = {} /\ Fillers = {} /\ Fillers' = {}
        /\ PhaseInv' /\ OpenInv' /\ FillInv'
    BY <1>2, <1>3, <1>4, ClosingPhase
  <1>6. Entered' = Entered
    BY <1>1, <1>5 DEF Entered, Free
  <1>7. \A i \in Entered : emu_state[i].fd # op[t].fd
    <2>1. op[t].fd # 0
      BY <1>2 DEF SafeInv, CloseInv
    <2>2. SlotsOf(op[t].fd) \subseteq Entered
      BY <2>1, <1>5 DEF SlotsOf, SafeInv, FreeInv
    <2>3. SlotsOf(op[t].fd) = {}
      <3>1. SUFFICES ASSUME SlotsOf(op[t].fd) # {} PROVE FALSE
        OBVIOUS
      <3>2. Min(SlotsOf(op[t].fd)) \in SlotsOf(op[t].fd)
        BY <3>1, SlotMin, ZenonT(40) DEF SlotsOf
      <3>3. Min(SlotsOf(op[t].fd)) \in Slots /\ emu_state[Min(SlotsOf(op[t].fd))].mode # "none"
        BY <2>2, <3>2 DEF Entered, Free
      <3> QED
        BY <1>1, <3>1, <3>3 DEF Lookup, Slots
    <2> QED
      BY <2>3 DEF SlotsOf, Entered
  <1>12. RealInv'
    BY <1>1 DEF RealInv, SafeInv
  <1>15. FreeInv'
    BY <1>1, <1>3, <1>5, <1>6 DEF FreeInv, SafeInv
  <1>16. EntryInv'
    BY <1>1, <1>2, <1>3, <1>5, <1>6, <1>7 DEF EntryInv, SafeInv
  <1>17. CloseInv'
    BY <1>1, <1>2, <1>3, <1>6 DEF CloseInv, SafeInv
  <1>18. OwnerInv'
    BY <1>1, <1>5, <1>6 DEF OwnerInv, SafeInv
  <1> QED
    BY <1>5, <1>12, <1>15, <1>16, <1>17, <1>18 DEF SafeInv

LEMMA CloseLookSafe ==
    ASSUME TypeInv, SafeInv, NEW t \in Threads, CloseLook(t)
    PROVE  SafeInv'
  <1> USE FileTableAssumption DEF TypeInv, TypeOK, Entry, Op, Kinds, Emulated, Opening, Closing, Goto
  <1> PICK i : i = Lookup(op[t].fd)
    OBVIOUS
  <1>1. /\ pc[t] = "look" /\ UNCHANGED <<emu_state, real, held>> /\ i # 0
        /\ pc' = [pc EXCEPT ![t] = "compare"] /\ op' = [op EXCEPT ![t].slot = i]
    BY DEF CloseLook
  <1>2. t \in Closers /\ Closers' = Closers
    BY <1>1 DEF Closers
  <1>3. \A u \in Threads \ {t} : pc'[u] = pc[u] /\ op'[u] = op[u]
    BY <1>1
  <1>4. op'[t].fd = op[t].fd /\ op'[t].kind = op[t].kind /\ op'[t].slot = i /\ pc'[t] = "compare"
    BY <1>1
  <1>5. /\ Openers = {} /\ Openers' = {} /\ Fillers = {} /\ Fillers' = {}
        /\ PhaseInv' /\ OpenInv' /\ FillInv'
    <2>1. op[t].kind = "plain"
      BY <1>1 DEF SafeInv, PhaseInv, Openers
    <2> QED
      BY <1>2, <1>3, <1>4, <2>1, ClosingPhase
  <1>6. Entered' = Entered
    BY <1>1, <1>5 DEF Entered, Free
  <1>7. i \in Entered /\ emu_state[i].fd = op[t].fd /\ emu_state[i].isofd # 0
    <2>1. op[t].fd # 0
      BY <1>2 DEF SafeInv, CloseInv
    <2>2. i \in Entered /\ emu_state[i].fd = op[t].fd
      BY <1>1, <1>5, <2>1, LookupFinds DEF Entered, Free
    <2> QED
      BY <1>1, <1>2, <2>2 DEF SafeInv, CloseInv
  <1>12. RealInv'
    BY <1>1 DEF RealInv, SafeInv
  <1>15. FreeInv'
    BY <1>1, <1>3, <1>5, <1>6 DEF FreeInv, SafeInv
  <1>16. EntryInv'
    BY <1>1, <1>2, <1>3, <1>4, <1>5, <1>6 DEF EntryInv, SafeInv
  <1>17. CloseInv'
    BY <1>1, <1>2, <1>3, <1>4, <1>6, <1>7 DEF CloseInv, SafeInv
  <1>18. OwnerInv'
    BY <1>1, <1>5, <1>6 DEF OwnerInv, SafeInv
  <1> QED
    BY <1>5, <1>12, <1>15, <1>16, <1>17, <1>18 DEF SafeInv

LEMMA CloseCompareSafe ==
    ASSUME TypeInv, SafeInv, NEW t \in Threads, CloseCompare(t)
    PROVE  SafeInv'
  <1> USE FileTableAssumption DEF TypeInv, TypeOK, Entry, Op, Kinds, Emulated, Opening, Closing, Goto
  <1>1. /\ pc[t] = "compare" /\ UNCHANGED <<emu_state, real, held, op>>
        /\ pc'[t] = (IF emu_state[op[t].slot].fd # emu_state[op[t].slot].isofd THEN "isoclose" ELSE "clearfd")
        /\ \A u \in Threads \ {t} : pc'[u] = pc[u]
    BY DEF CloseCompare
  <1>2. t \in Closers /\ Closers' = Closers
    BY <1>1 DEF Closers
  <1>5. /\ Openers = {} /\ Openers' = {} /\ Fillers = {} /\ Fillers' = {}
        /\ PhaseInv' /\ OpenInv' /\ FillInv'
    <2>1. op[t].kind = "plain"
      BY <1>1 DEF SafeInv, PhaseInv, Openers
    <2> QED
      BY <1>1, <1>2, <2>1, ClosingPhase
  <1>6. Entered' = Entered
    BY <1>1, <1>5 DEF Entered, Free
  <1>7. LET e == emu_state[op[t].slot]
        IN  /\ op[t].slot \in Entered /\ e.fd = op[t].fd /\ e.isofd # 0
            /\ e.isofd # e.fd => e.isofd \in real
    <2>1. op[t].slot \in Entered /\ emu_state[op[t].slot].fd = op[t].fd /\ emu_state[op[t].slot].isofd # 0
      BY <1>1, <1>2 DEF SafeInv, CloseInv
    <2>2. emu_state[op[t].slot].isofd # emu_state[op[t].slot].fd =>
             \/ emu_state[op[t].slot].isofd \in real
             \/ \E u \in Closers : pc[u] = "clearisofd" /\ op[u].slot = op[t].slot
      BY <2>1 DEF SafeInv, EntryInv
    <2>3. \A u \in Closers : pc[u] = "clearisofd" => op[u].slot # op[t].slot
      BY <1>1, <1>2, ClosersApart
    <2> QED
      BY <2>1, <2>2, <2>3
  <1>12. RealInv'
    BY <1>1 DEF RealInv, SafeInv
  <1>15. FreeInv'
    BY <1>1, <1>5, <1>6 DEF FreeInv, SafeInv
  <1>8. \A u \in Closers : pc[u] = "clearisofd" => pc'[u] = "clearisofd"
    BY <1>1 DEF Closers
  <1> HIDE DEF TypeInv, TypeOK
  <1>16. EntryInv'
    BY <1>1, <1>2, <1>5, <1>6, <1>8 DEF EntryInv, SafeInv
  <1>17. CloseInv'
    <2>1. \A u \in Closers \ {t} : pc'[u] = pc[u]
      BY <1>1 DEF Closers
    <2>2. emu_state' = emu_state /\ real' = real /\ held' = held /\ op' = op
      BY <1>1
    <2>3. \/ /\ pc'[t] = "isoclose"
             /\ emu_state[op[t].slot].isofd \notin {0, op[t].fd} /\ emu_state[op[t].slot].isofd \in real
          \/ pc'[t] = "clearfd" /\ emu_state[op[t].slot].isofd = op[t].fd
      <3>1. CASE emu_state[op[t].slot].fd # emu_state[op[t].slot].isofd
        BY <1>1, <1>7, <3>1
      <3>2. CASE emu_state[op[t].slot].fd = emu_state[op[t].slot].isofd
        BY <1>1, <1>7, <3>2
      <3> QED
        BY <3>1, <3>2
    <2>4. op[t].slot \in Entered /\ emu_state[op[t].slot].fd = op[t].fd
      BY <1>7
    <2> QED
      BY <1>2, <1>6, <2>1, <2>2, <2>3, <2>4 DEF CloseInv, SafeInv
  <1>18. OwnerInv'
    BY <1>1, <1>5, <1>6 DEF OwnerInv, SafeInv
  <1> QED
    BY <1>5, <1>12, <1>15, <1>16, <1>17, <1>18 DEF SafeInv

(* The image of the entry is closed first, its number cleared afterwards.  *)
LEMMA IsoCloseSafe ==
    ASSUME TypeInv, SafeInv, NEW t \in Threads, IsoClose(t)
    PROVE  SafeInv'
  <1> USE FileTableAssumption DEF TypeInv, TypeOK, SlotInv, Entry, Op, Kinds, Emulated, Opening, Closing, Goto
  <1>0. op[t].slot \in Slots
    BY DEF IsoClose
  <1> PICK i \in Slots : i = op[t].slot
    BY <1>0
  <1> PICK d : d = emu_state[i].isofd
    OBVIOUS
  <1>1. /\ pc[t] = "isoclose" /\ UNCHANGED <<emu_state, held, op>> /\ real' = real \ {d}
        /\ pc'[t] = "clearisofd" /\ \A u \in Threads \ {t} : pc'[u] = pc[u]
    BY DEF IsoClose
  <1>2. t \in Closers /\ Closers' = Closers
    BY <1>1 DEF Closers
  <1>3. /\ i \in Entered /\ emu_state[i].fd = op[t].fd /\ op[t].fd # 0 /\ op[t].fd \notin real
        /\ d \notin {0, op[t].fd} /\ held[op[t].fd] = "none"
    BY <1>1, <1>2 DEF SafeInv, CloseInv
  <1>4. held[d] = "none" /\ \A j \in Entered \ {i} : d # emu_state[j].isofd /\ emu_state[j].fd # op[t].fd
    BY <1>3 DEF SafeInv, EntryInv
  <1>5. /\ Openers = {} /\ Openers' = {} /\ Fillers = {} /\ Fillers' = {}
        /\ PhaseInv' /\ OpenInv' /\ FillInv'
    <2>1. op[t].kind = "plain"
      BY <1>1 DEF SafeInv, PhaseInv, Openers
    <2> QED
      BY <1>1, <1>2, <2>1, ClosingPhase
  <1>6. Entered' = Entered
    BY <1>1, <1>5 DEF Entered, Free
  <1>7. \A u \in Closers \ {t} : pc[u] \in Closing \ {"look"} => op[u].slot # i
    BY <1>1, <1>2, ClosersApart
  <1>12. RealInv'
    BY <1>1, <1>3, <1>4 DEF RealInv, SafeInv
  <1>15. FreeInv'
    BY <1>1, <1>5, <1>6 DEF FreeInv, SafeInv
  <1>8. \A u \in Closers \ {t} : pc'[u] = pc[u]
    BY <1>1 DEF Closers
  <1>9. emu_state' = emu_state /\ held' = held /\ op' = op
    BY <1>1
  <1> HIDE DEF TypeInv, TypeOK, SlotInv
  <1>16. EntryInv'
    <2>1. \A u \in Closers : pc[u] = "clearisofd" => pc'[u] = "clearisofd"
      BY <1>1, <1>8
    <2>2. ASSUME NEW j \in Entered, emu_state[j].isofd \notin {0, emu_state[j].fd}
          PROVE  emu_state[j].isofd \in real' \/ \E u \in Closers : pc'[u] = "clearisofd" /\ op[u].slot = j
      <3>1. CASE j = i
        BY <1>1, <1>2, <3>1
      <3>2. CASE j # i
        <4>1. emu_state[j].isofd # d
          BY <1>4, <3>2
        <4> QED
          BY <1>1, <2>1, <2>2, <4>1 DEF EntryInv, SafeInv
      <3> QED
        BY <3>1, <3>2
    <2> QED
      BY <1>2, <1>5, <1>6, <1>9, <2>2 DEF EntryInv, SafeInv
  <1>17. CloseInv'
    <2>1. \A u \in Closers \ {t} : pc[u] = "isoclose" => emu_state[op[u].slot].isofd # d
      BY <1>4, <1>7 DEF SafeInv, CloseInv
    <2> QED
      BY <1>1, <1>2, <1>3, <1>6, <1>8, <1>9, <2>1, SMTT(30) DEF CloseInv, SafeInv
  <1>18. OwnerInv'
    BY <1>1, <1>5, <1>6 DEF OwnerInv, SafeInv
  <1> QED
    BY <1>5, <1>12, <1>15, <1>16, <1>17, <1>18 DEF SafeInv

(* The entry keeps its descriptor and its mode, and loses its image.       *)
LEMMA ClearIsofdSafe ==
    ASSUME TypeInv, SafeInv, NEW t \in Threads, ClearIsofd(t)
    PROVE  SafeInv'
  <1> USE FileTableAssumption DEF TypeInv, TypeOK, SlotInv, Op, Kinds, Emulated, Opening, Closing, Goto
  <1>0. op[t].slot \in Slots
    BY DEF ClearIsofd
  <1> PICK i \in Slots : i = op[t].slot
    BY <1>0
  <1>1. /\ pc[t] = "clearisofd" /\ UNCHANGED <<real, held, op>>
        /\ emu_state' = [emu_state EXCEPT ![i].isofd = 0]
        /\ pc'[t] = "clearfd" /\ \A u \in Threads \ {t} : pc'[u] = pc[u]
    BY DEF ClearIsofd
  <1>2. t \in Closers /\ Closers' = Closers
    BY <1>1 DEF Closers
  <1>3. /\ emu_state'[i].isofd = 0 /\ emu_state'[i].fd = emu_state[i].fd
        /\ emu_state'[i].mode = emu_state[i].mode
        /\ \A j \in Slots \ {i} : emu_state'[j] = emu_state[j]
    <2>1. emu_state[i] \in Entry
      OBVIOUS
    <2> QED
      BY <1>1, <2>1 DEF Entry
  <1>4. /\ i \in Entered /\ emu_state[i].fd = op[t].fd /\ op[t].fd # 0
        /\ held[op[t].fd] = "none" /\ emu_state[i].isofd \notin {0, op[t].fd} /\ emu_state[i].isofd \notin real
    BY <1>1, <1>2 DEF SafeInv, CloseInv, EntryInv
  <1>5. /\ Openers = {} /\ Openers' = {} /\ Fillers = {} /\ Fillers' = {}
        /\ PhaseInv' /\ OpenInv' /\ FillInv'
    <2>1. op[t].kind = "plain"
      BY <1>1 DEF SafeInv, PhaseInv, Openers
    <2> QED
      BY <1>1, <1>2, <2>1, ClosingPhase
  <1>6. Entered' = Entered
    BY <1>3, <1>5 DEF Entered, Free
  <1>7. \A u \in Closers \ {t} : /\ pc'[u] = pc[u]
                                 /\ pc[u] \in Closing \ {"look"} => op[u].slot # i
    BY <1>1, <1>2, ClosersApart DEF Closers
  <1>8. \A j \in Entered \ {i} : emu_state'[j] = emu_state[j] /\ emu_state[j].fd # op[t].fd
    BY <1>3, <1>4 DEF SafeInv, EntryInv, Entered
  <1>9. \A u \in Closers \ {t} : pc[u] # "look" => op[u].slot \in Slots /\ emu_state'[op[u].slot] = emu_state[op[u].slot]
    BY <1>3, <1>7 DEF Closers
  <1> HIDE DEF TypeInv, TypeOK, SlotInv
  <1>12. RealInv'
    BY <1>1 DEF RealInv, SafeInv
  <1>15. FreeInv'
    <2>1. \A j \in Slots \ Entered : emu_state'[j] = emu_state[j]
      BY <1>3, <1>4
    <2>2. \A u \in Threads : pc[u] = "clearmode" => pc'[u] = "clearmode"
      BY <1>1
    <2>3. \A u \in Threads : pc[u] # "place"
      BY <1>5 DEF Openers
    <2> QED
      BY <1>1, <1>5, <1>6, <2>1, <2>2, <2>3 DEF FreeInv, SafeInv
  <1>16. EntryInv'
    <2>1. \A u \in Closers : pc[u] = "clearisofd" /\ op[u].slot # i => pc'[u] = "clearisofd"
      BY <1>1, <1>7
    <2>2. ASSUME NEW j \in Entered \ {i}, emu_state[j].isofd \notin {0, emu_state[j].fd}
          PROVE  emu_state[j].isofd \in real \/ \E u \in Closers : pc'[u] = "clearisofd" /\ op[u].slot = j
      BY <2>1, <2>2 DEF EntryInv, SafeInv
    <2>3. \A u \in Openers' : FALSE
      BY <1>5
    <2>4. held[emu_state[i].fd] = "none" /\ op[t].fd = emu_state[i].fd
      BY <1>4
    <2>5. \A j \in Entered \ {i} :
             emu_state[j].fd # emu_state[i].fd /\ (emu_state[j].isofd # 0 => emu_state[j].isofd # emu_state[i].isofd)
      BY <1>4 DEF EntryInv, SafeInv
    <2> QED
      BY <1>1, <1>2, <1>3, <1>6, <1>8, <2>2, <2>3, <2>4, <2>5, SMTT(30) DEF EntryInv, SafeInv
  <1>17. CloseInv'
    <2>1. ASSUME NEW u \in Closers \ {t}
          PROVE  LET e == emu_state'[op[u].slot]
                 IN  /\ op[u].fd # 0 /\ op[u].fd \notin real /\ held[op[u].fd] = "none"
                     /\ pc[u] \in {"compare", "isoclose", "clearisofd", "clearfd"} =>
                           op[u].slot \in Entered /\ e.fd = op[u].fd
                     /\ pc[u] = "compare" => e.isofd # 0
                     /\ pc[u] \in {"isoclose", "clearisofd"} => e.isofd \notin {0, op[u].fd}
                     /\ pc[u] = "isoclose" => e.isofd \in real
                     /\ pc[u] = "clearisofd" => e.isofd \notin real
                     /\ pc[u] = "clearfd" => e.isofd \in {0, op[u].fd}
                     /\ pc[u] \in {"clearmode", "clearplace"} =>
                           e.fd = 0 /\ \A j \in Entered : emu_state'[j].fd # op[u].fd
                     /\ pc[u] = "clearplace" => e.mode = "none"
      <3>1. \A j \in Entered : emu_state'[j].fd = emu_state[j].fd
        BY <1>3, <1>8
      <3> QED
        BY <1>9, <3>1 DEF SafeInv, CloseInv
    <2>2. ASSUME NEW u \in Closers \ {t}, pc[u] = "look", NEW j \in Entered, emu_state'[j].fd = op[u].fd
          PROVE  emu_state'[j].isofd # 0
      <3>1. op[u].fd # op[t].fd /\ (emu_state[j].fd = op[u].fd => emu_state[j].isofd # 0)
        BY <1>2, <2>2 DEF SafeInv, CloseInv
      <3>2. j # i
        BY <1>3, <1>4, <2>2, <3>1
      <3> QED
        BY <1>8, <2>2, <3>1, <3>2
    <2>3. \A u, v \in Closers : u # v => op[v].fd # op[u].fd
      BY DEF SafeInv, CloseInv
    <2>4. op[t].fd \notin real
      BY <1>2 DEF SafeInv, CloseInv
    <2>5. ASSUME NEW u \in Closers' \ {t} PROVE u \in Closers \ {t} /\ pc'[u] = pc[u] /\ op'[u] = op[u]
      BY <1>1, <1>2, <1>7
    <2>6. op' = op /\ held' = held /\ real' = real
      BY <1>1
    <2> HIDE FileTableAssumption DEF Op, Kinds, Emulated, Goto
    <2> QED
      BY <1>1, <1>2, <1>3, <1>4, <1>6, <2>1, <2>2, <2>3, <2>4, <2>5, <2>6, SMTT(30) DEF CloseInv
  <1>18. OwnerInv'
    <2>1. ASSUME NEW j \in Entered, emu_state[j].isofd \in real PROVE emu_state'[j] = emu_state[j]
      BY <1>4, <1>8, <2>1
    <2>2. \A j \in Entered : emu_state'[j].fd = emu_state[j].fd
      BY <1>3, <1>8
    <2>3. \A f \in real \ {0} : held[f] # "none" \/ \E j \in Entered : emu_state'[j].isofd = f
      BY <1>5, <2>1 DEF OwnerInv, SafeInv
    <2>4. \A f \in Fds : held[f] \in Emulated => \E j \in Entered : emu_state'[j].fd = f
      BY <2>2 DEF OwnerInv, SafeInv
    <2> QED
      BY <1>1, <1>6, <2>3, <2>4 DEF OwnerInv
  <1> QED
    BY <1>5, <1>12, <1>15, <1>16, <1>17, <1>18 DEF SafeInv

(* The entry is free from here on, and its number is given up.             *)
LEMMA ClearFdSafe ==
    ASSUME TypeInv, SafeInv, NEW t \in Threads, ClearFd(t)
    PROVE  SafeInv'
  <1> USE FileTableAssumption DEF TypeInv, TypeOK, SlotInv, Op, Kinds, Emulated, Opening, Closing, Goto
  <1>0. op[t].slot \in Slots
    BY DEF ClearFd
  <1> PICK i \in Slots : i = op[t].slot
    BY <1>0
  <1>1. /\ pc[t] = "clearfd" /\ UNCHANGED <<real, held, op>>
        /\ emu_state' = [emu_state EXCEPT ![i].fd = 0]
        /\ pc'[t] = "clearmode" /\ \A u \in Threads \ {t} : pc'[u] = pc[u]
    BY DEF ClearFd
  <1>2. t \in Closers /\ Closers' = Closers
    BY <1>1 DEF Closers
  <1>3. /\ emu_state'[i].fd = 0 /\ emu_state'[i].mode = emu_state[i].mode
        /\ \A j \in Slots \ {i} : emu_state'[j] = emu_state[j]
    <2>1. emu_state[i] \in Entry
      OBVIOUS
    <2> QED
      BY <1>1, <2>1 DEF Entry
  <1>4. /\ i \in Entered /\ emu_state[i].fd = op[t].fd /\ op[t].fd # 0 /\ op[t].fd \notin real
        /\ held[op[t].fd] = "none" /\ emu_state[i].isofd \in {0, op[t].fd}
        /\ \A j \in Entered \ {i} : emu_state[j].fd # op[t].fd
    BY <1>1, <1>2 DEF SafeInv, CloseInv, EntryInv
  <1>5. /\ Openers = {} /\ Openers' = {} /\ Fillers = {} /\ Fillers' = {}
        /\ PhaseInv' /\ OpenInv' /\ FillInv'
    <2>1. op[t].kind = "plain"
      BY <1>1 DEF SafeInv, PhaseInv, Openers
    <2> QED
      BY <1>1, <1>2, <2>1, ClosingPhase
  <1>6. Entered' = Entered \ {i}
    BY <1>3, <1>5 DEF Entered, Free
  <1>7. \A u \in Closers \ {t} : /\ pc'[u] = pc[u] /\ op[u].fd # op[t].fd
                                 /\ pc[u] \in Closing \ {"look"} => op[u].slot # i
    <2>1. \A u \in Closers \ {t} : op[u].fd # op[t].fd
      BY <1>2 DEF SafeInv, CloseInv
    <2> QED
      BY <1>1, <1>2, <2>1, ClosersApart DEF Closers
  <1>8. \A j \in Entered \ {i} : emu_state'[j] = emu_state[j]
    BY <1>3 DEF Entered
  <1>9. \A u \in Closers \ {t} : pc[u] # "look" => op[u].slot \in Slots /\ emu_state'[op[u].slot] = emu_state[op[u].slot]
    BY <1>3, <1>7 DEF Closers
  <1> HIDE DEF TypeInv, TypeOK, SlotInv
  <1>12. RealInv'
    BY <1>1 DEF RealInv, SafeInv
  <1>15. FreeInv'
    <2>1. \A j \in Slots \ Entered : emu_state'[j] = emu_state[j]
      BY <1>3, <1>4
    <2>2. \A u \in Threads : pc[u] = "clearmode" => pc'[u] = "clearmode"
      BY <1>1
    <2>3. \A u \in Threads : pc[u] # "place"
      BY <1>5 DEF Openers
    <2> QED
      BY <1>1, <1>3, <1>5, <1>6, <2>1, <2>2, <2>3 DEF FreeInv, SafeInv
  <1>16. EntryInv'
    <2>1. \A u \in Closers : pc[u] = "clearisofd" => pc'[u] = "clearisofd"
      BY <1>1, <1>7
    <2>2. ASSUME NEW j \in Entered \ {i}, held[emu_state[j].fd] = "none"
          PROVE  \E u \in Closers : op[u].fd = emu_state[j].fd
      BY <2>2 DEF EntryInv, SafeInv
    <2>3. ASSUME NEW j \in Entered \ {i}, emu_state[j].isofd \notin {0, emu_state[j].fd}
          PROVE  emu_state[j].isofd \in real \/ \E u \in Closers : pc'[u] = "clearisofd" /\ op[u].slot = j
      BY <2>1, <2>3 DEF EntryInv, SafeInv
    <2>4. \A u \in Openers' : FALSE
      BY <1>5
    <2> QED
      BY <1>1, <1>2, <1>6, <1>8, <2>2, <2>3, <2>4 DEF EntryInv, SafeInv
  <1>17. CloseInv'
    <2>1. ASSUME NEW u \in Closers \ {t}
          PROVE  LET e == emu_state'[op[u].slot]
                 IN  /\ op[u].fd # 0 /\ op[u].fd \notin real /\ held[op[u].fd] = "none"
                     /\ pc[u] \in {"compare", "isoclose", "clearisofd", "clearfd"} =>
                           op[u].slot \in Entered \ {i} /\ e.fd = op[u].fd
                     /\ pc[u] = "compare" => e.isofd # 0
                     /\ pc[u] \in {"isoclose", "clearisofd"} => e.isofd \notin {0, op[u].fd}
                     /\ pc[u] = "isoclose" => e.isofd \in real
                     /\ pc[u] = "clearisofd" => e.isofd \notin real
                     /\ pc[u] = "clearfd" => e.isofd \in {0, op[u].fd}
                     /\ pc[u] \in {"clearmode", "clearplace"} =>
                           e.fd = 0 /\ \A j \in Entered \ {i} : emu_state'[j].fd # op[u].fd
                     /\ pc[u] = "clearplace" => e.mode = "none"
      BY <1>7, <1>8, <1>9 DEF SafeInv, CloseInv
    <2>2. ASSUME NEW u \in Closers \ {t}, pc[u] = "look", NEW j \in Entered \ {i}, emu_state'[j].fd = op[u].fd
          PROVE  emu_state'[j].isofd # 0
      BY <1>8, <2>2 DEF SafeInv, CloseInv
    <2>3. \A u, v \in Closers : u # v => op[v].fd # op[u].fd
      BY DEF SafeInv, CloseInv
    <2>4. ASSUME NEW u \in Closers' \ {t} PROVE u \in Closers \ {t} /\ pc'[u] = pc[u] /\ op'[u] = op[u]
      BY <1>1, <1>2, <1>7
    <2>5. op' = op /\ held' = held /\ real' = real
      BY <1>1
    <2> HIDE FileTableAssumption DEF Op, Kinds, Emulated, Goto
    <2> QED
      BY <1>1, <1>2, <1>3, <1>4, <1>6, <2>1, <2>2, <2>3, <2>4, <2>5, SMTT(30) DEF CloseInv
  <1>18. OwnerInv'
    <2>1. emu_state[i].isofd \notin real \ {0} /\ held[emu_state[i].fd] = "none"
      BY <1>4
    <2>2. \A f \in real \ {0} :
             held[f] # "none" \/ \E j \in Entered \ {i} : emu_state'[j].isofd = f
      BY <1>5, <1>8, <2>1 DEF OwnerInv, SafeInv
    <2>3. \A f \in Fds : held[f] \in Emulated => \E j \in Entered \ {i} : emu_state'[j].fd = f
      BY <1>8, <2>1 DEF OwnerInv, SafeInv
    <2> QED
      BY <1>1, <1>6, <2>2, <2>3 DEF OwnerInv
  <1> QED
    BY <1>5, <1>12, <1>15, <1>16, <1>17, <1>18 DEF SafeInv

(* The rest of a slot that is no entry any more.                           *)
LEMMA ClearRestSafe ==
    ASSUME TypeInv, SafeInv, NEW t \in Threads, ClearMode(t) \/ ClearPlace(t)
    PROVE  SafeInv'
  <1> USE FileTableAssumption DEF TypeInv, TypeOK, SlotInv, Op, Kinds, Emulated, Opening, Closing, Goto
  <1>0. op[t].slot \in Slots
    BY DEF ClearMode, ClearPlace, Return
  <1> PICK i \in Slots : i = op[t].slot
    BY <1>0
  <1>1. /\ pc[t] \in {"clearmode", "clearplace"} /\ UNCHANGED <<real, held>>
        /\ \A u \in Threads \ {t} : pc'[u] = pc[u] /\ op'[u] = op[u]
        /\ pc[t] = "clearmode" => pc'[t] = "clearplace" /\ op'[t] = op[t]
        /\ pc[t] = "clearplace" => pc'[t] = "idle" /\ op'[t] = NoOp
    BY DEF ClearMode, ClearPlace, Return
  <1>2. /\ emu_state'[i].fd = emu_state[i].fd
        /\ pc[t] = "clearmode" => emu_state'[i].mode = "none"
        /\ pc[t] = "clearplace" => emu_state'[i].mode = emu_state[i].mode
        /\ \A j \in Slots \ {i} : emu_state'[j] = emu_state[j]
    <2>1. emu_state[i] \in Entry
      OBVIOUS
    <2>2. CASE ClearMode(t)
      BY <2>1, <2>2 DEF ClearMode, Entry
    <2>3. CASE ClearPlace(t)
      BY <2>1, <2>3 DEF ClearPlace, Return, Entry
    <2> QED
      BY <2>2, <2>3
  <1>3. t \in Closers /\ Closers' = IF pc[t] = "clearmode" THEN Closers ELSE Closers \ {t}
    BY <1>1 DEF Closers
  <1>4. i \notin Entered /\ emu_state[i].fd = 0 /\ (pc[t] = "clearplace" => emu_state[i].mode = "none")
    BY <1>1, <1>3 DEF SafeInv, CloseInv, Entered, Free
  <1>5. /\ Openers = {} /\ Openers' = {} /\ Fillers = {} /\ Fillers' = {}
        /\ PhaseInv' /\ OpenInv' /\ FillInv'
    <2>1. op[t].kind = "plain"
      BY <1>1 DEF SafeInv, PhaseInv, Openers
    <2> QED
      BY <1>1, <1>3, <2>1, ClosingPhase DEF NoOp
  <1>6. Entered' = Entered
    BY <1>2, <1>4, <1>5 DEF Entered, Free
  <1>7. emu_state'[i].fd = 0 /\ emu_state'[i].mode = "none" /\ \A j \in Entered : emu_state'[j] = emu_state[j]
    BY <1>1, <1>2, <1>4 DEF Entered
  <1>8. \A u \in Closers \ {t} : pc[u] # "look" => op[u].slot \in Slots
    BY DEF Closers
  <1>9. \A u \in Closers' : u \in Closers /\ op'[u] = op[u] /\ (u # t => pc'[u] = pc[u])
    BY <1>1, <1>3 DEF Closers
  <1>10. \A u \in Closers : pc[u] \notin {"clearmode", "clearplace"} => u \in Closers' /\ u # t
    BY <1>1, <1>3 DEF Closers
  <1> HIDE DEF TypeInv, TypeOK, SlotInv
  <1>12. RealInv'
    BY <1>1 DEF RealInv, SafeInv
  <1>15. FreeInv'
    <2>1. ASSUME NEW j \in Slots \ Entered, j # i
          PROVE  /\ emu_state'[j].fd = 0
                 /\ emu_state'[j].mode # "none" => \E u \in Threads : pc'[u] = "clearmode" /\ op'[u].slot = j
      <3>1. emu_state'[j] = emu_state[j] /\ \A u \in Threads : pc[u] # "place"
        BY <1>2, <1>5, <2>1 DEF Openers
      <3>2. emu_state[j].mode # "none" => \E u \in Threads \ {t} : pc[u] = "clearmode" /\ op[u].slot = j
        BY <2>1, <3>1 DEF FreeInv, SafeInv
      <3> QED
        BY <1>1, <1>5, <2>1, <3>1, <3>2 DEF FreeInv, SafeInv
    <2> QED
      BY <1>6, <1>7, <2>1 DEF FreeInv
  <1>16. EntryInv'
    <2>1. ASSUME NEW j \in Entered, held[emu_state[j].fd] = "none"
          PROVE  \E u \in Closers' : op'[u].fd = emu_state[j].fd
      <3>1. PICK u \in Closers : op[u].fd = emu_state[j].fd
        BY <2>1 DEF EntryInv, SafeInv
      <3>2. pc[u] \notin {"clearmode", "clearplace"}
        BY <3>1 DEF CloseInv, SafeInv
      <3> QED
        BY <1>9, <1>10, <3>1, <3>2
    <2>2. ASSUME NEW j \in Entered, emu_state[j].isofd \notin {0, emu_state[j].fd}
          PROVE  emu_state[j].isofd \in real \/ \E u \in Closers' : pc'[u] = "clearisofd" /\ op'[u].slot = j
      <3>1. emu_state[j].isofd \in real \/ \E u \in Closers : pc[u] = "clearisofd" /\ op[u].slot = j
        BY <2>2 DEF EntryInv, SafeInv
      <3>2. \A u \in Closers : pc[u] = "clearisofd" => u \in Closers' /\ pc'[u] = "clearisofd" /\ op'[u] = op[u]
        BY <1>9, <1>10
      <3> QED
        BY <3>1, <3>2
    <2>3. \A u \in Openers' : FALSE
      BY <1>5
    <2> QED
      BY <1>1, <1>6, <1>7, <2>1, <2>2, <2>3 DEF EntryInv, SafeInv
  <1>17. CloseInv'
    <2>1. ASSUME NEW u \in Closers', pc'[u] # "look"
          PROVE  /\ u \in Closers /\ op'[u] = op[u] /\ op[u].slot \in Slots
                 /\ op[u].slot \in Entered => emu_state'[op[u].slot] = emu_state[op[u].slot] /\ op[u].slot # i
      <3>1. u \in Closers /\ op'[u] = op[u] /\ op[u].slot \in Slots
        BY <1>1, <1>8, <1>9, <2>1
      <3> QED
        BY <1>4, <1>7, <3>1
    <2>2. ASSUME NEW u \in Closers', pc'[u] \in {"clearmode", "clearplace"}
          PROVE  /\ emu_state'[op'[u].slot].fd = 0
                 /\ pc'[u] = "clearplace" => emu_state'[op'[u].slot].mode = "none"
                 /\ \A j \in Entered' : emu_state'[j].fd # op'[u].fd
      <3>1. u \in Closers /\ op'[u] = op[u] /\ op[u].slot \in Slots
        BY <2>1, <2>2
      <3>2. pc[u] \in {"clearmode", "clearplace"} /\ (u # t => pc'[u] = pc[u])
        BY <1>1, <1>9, <2>2
      <3>3. /\ emu_state[op[u].slot].fd = 0 /\ (pc[u] = "clearplace" => emu_state[op[u].slot].mode = "none")
            /\ \A j \in Entered : emu_state[j].fd # op[u].fd
        BY <3>1, <3>2 DEF CloseInv, SafeInv
      <3>4. CASE op[u].slot = i
        BY <1>6, <1>7, <3>1, <3>3, <3>4
      <3>5. CASE op[u].slot # i
        <4>1. emu_state'[op[u].slot] = emu_state[op[u].slot] /\ u # t
          BY <1>2, <3>1, <3>5
        <4> QED
          BY <1>6, <1>7, <3>1, <3>2, <3>3, <4>1
      <3> QED
        BY <3>4, <3>5
    <2>3. ASSUME NEW u \in Closers', pc'[u] \notin {"clearmode", "clearplace"}
          PROVE  u \in Closers /\ u # t /\ op'[u] = op[u] /\ pc'[u] = pc[u]
      BY <1>1, <1>9, <2>3 DEF Closers
    <2>4. \A u \in Closers' : op[u].fd # 0 /\ op[u].fd \notin real /\ held[op[u].fd] = "none"
      BY <1>9 DEF CloseInv, SafeInv
    <2>5. \A u, v \in Closers' : u # v => op[u].fd # op[v].fd
      BY <1>9 DEF CloseInv, SafeInv
    <2>6. ASSUME NEW u \in Closers', pc'[u] = "look", NEW j \in Entered', emu_state'[j].fd = op'[u].fd
          PROVE  emu_state'[j].isofd # 0
      BY <1>6, <1>7, <2>3, <2>6 DEF CloseInv, SafeInv
    <2>7. ASSUME NEW u \in Closers', pc'[u] \in {"compare", "isoclose", "clearisofd", "clearfd"}
          PROVE  LET e == emu_state'[op'[u].slot]
                 IN  /\ op'[u].slot \in Entered' /\ e.fd = op'[u].fd
                     /\ pc'[u] = "compare" => e.isofd # 0
                     /\ pc'[u] \in {"isoclose", "clearisofd"} => e.isofd \notin {0, op'[u].fd}
                     /\ pc'[u] = "isoclose" => e.isofd \in real'
                     /\ pc'[u] = "clearisofd" => e.isofd \notin real'
                     /\ pc'[u] = "clearfd" => e.isofd \in {0, op'[u].fd}
      <3>1. u \in Closers /\ op'[u] = op[u] /\ pc'[u] = pc[u]
        BY <2>3, <2>7
      <3>2. op[u].slot \in Entered /\ emu_state'[op[u].slot] = emu_state[op[u].slot]
        BY <1>7, <2>7, <3>1 DEF CloseInv, SafeInv
      <3> QED
        BY <1>1, <1>6, <2>7, <3>1, <3>2 DEF CloseInv, SafeInv
    <2> QED
      BY <1>1, <1>9, <2>2, <2>4, <2>5, <2>6, <2>7 DEF CloseInv
  <1>18. OwnerInv'
    BY <1>1, <1>5, <1>6, <1>7 DEF OwnerInv, SafeInv
  <1> QED
    BY <1>5, <1>12, <1>15, <1>16, <1>17, <1>18 DEF SafeInv

-----------------------------------------------------------------------------
(* The rule "table" counts the emulated descriptors of the game and of the *)
(* hooks of open, and so leaves a slot for each of the latter.             *)
Finite == IsFiniteSet(Threads) /\ IsFiniteSet(Fds)

Emulation == {f \in Fds : held[f] \in Emulated}
Emulating == {t \in Threads : op[t].kind \in Emulated}

CountInv == Cardinality(Emulation) + Cardinality(Emulating) <= NSlots

LEMMA Counts ==
    ASSUME Finite
    PROVE  /\ IsFiniteSet(Emulation) /\ Cardinality(Emulation) \in Nat
           /\ IsFiniteSet(Emulating) /\ Cardinality(Emulating) \in Nat
  <1>1. Emulation \in SUBSET Fds /\ Emulating \in SUBSET Threads
    BY DEF Emulation, Emulating
  <1> QED
    BY <1>1, FS_Subset, FS_CardinalityType DEF Finite

LEMMA CountFewer ==
    ASSUME Finite, CountInv, Emulation' \subseteq Emulation, Emulating' \subseteq Emulating
    PROVE  CountInv'
  <1>1. Cardinality(Emulation') <= Cardinality(Emulation) /\ Cardinality(Emulating') <= Cardinality(Emulating)
    BY Counts, FS_Subset
  <1>2. Cardinality(Emulation') \in Nat /\ Cardinality(Emulating') \in Nat
    BY Counts, FS_Subset, FS_CardinalityType
  <1> QED
    BY <1>1, <1>2, Counts, FileTableAssumption DEF CountInv

LEMMA CountReturn ==
    ASSUME Finite, TypeInv, CountInv, NEW t \in Threads, NEW from, OpenReturns(t, from)
    PROVE  CountInv'
  <1> USE DEF TypeInv, TypeOK, Op
  <1>1. /\ op' = [op EXCEPT ![t] = NoOp] /\ held' = [held EXCEPT ![op[t].fd] = op[t].kind]
    BY DEF OpenReturns, Return
  <1>2. Emulating' = Emulating \ {t}
    BY <1>1 DEF Emulating, NoOp, Emulated
  <1>3. CASE t \in Emulating
    <2>1. Emulation' \subseteq Emulation \cup {op[t].fd}
      BY <1>1 DEF Emulation
    <2>2. /\ IsFiniteSet(Emulation \cup {op[t].fd})
          /\ Cardinality(Emulation \cup {op[t].fd}) <= Cardinality(Emulation) + 1
      <3>1. IsFiniteSet(Emulation) /\ Cardinality(Emulation) \in Nat
        BY Counts
      <3>2. /\ IsFiniteSet(Emulation \cup {op[t].fd})
            /\ Cardinality(Emulation \cup {op[t].fd}) =
                  IF op[t].fd \in Emulation THEN Cardinality(Emulation) ELSE Cardinality(Emulation) + 1
        BY <3>1, FS_AddElement, Zenon
      <3> QED
        BY <3>1, <3>2
    <2>3. Cardinality(Emulation') <= Cardinality(Emulation \cup {op[t].fd}) /\ Cardinality(Emulation') \in Nat
      BY <2>1, <2>2, FS_Subset, FS_CardinalityType
    <2>4. Cardinality(Emulation \cup {op[t].fd}) \in Nat
      BY <2>2, FS_CardinalityType
    <2>5. Cardinality(Emulating') = Cardinality(Emulating) - 1
      BY <1>2, <1>3, Counts, FS_RemoveElement
    <2> QED
      BY <2>2, <2>3, <2>4, <2>5, Counts, FileTableAssumption DEF CountInv
  <1>4. CASE t \notin Emulating
    <2>1. Emulation' \subseteq Emulation
      BY <1>1, <1>4 DEF Emulation, Emulating
    <2> QED
      BY <1>2, <2>1, CountFewer
  <1> QED
    BY <1>3, <1>4

LEMMA CountOpen ==
    ASSUME Finite, TypeInv, CountInv, Safe \subseteq rules, NEW t \in Threads,
           NEW k \in Kinds, NEW async \in BOOLEAN, Open(t, k, async)
    PROVE  CountInv'
  <1> USE DEF TypeInv, TypeOK, Op
  <1>1. /\ op'[t].kind = k /\ (\A u \in Threads \ {t} : op'[u] = op[u]) /\ held' = held
    BY DEF Open
  <1>2. Emulation' = Emulation
    BY <1>1 DEF Emulation
  <1>3. CASE k \in Emulated
    <2>1. Cardinality(Emulation) + Cardinality(Emulating) < NSlots
      BY <1>3 DEF Open, MayOpen, Safe, Emulation, Emulating
    <2>2. Emulating' = Emulating \cup {t}
      BY <1>1, <1>3 DEF Emulating
    <2>3. Cardinality(Emulating') <= Cardinality(Emulating) + 1 /\ Cardinality(Emulating') \in Nat
      <3>1. IsFiniteSet(Emulating) /\ Cardinality(Emulating) \in Nat
        BY Counts
      <3>2. Cardinality(Emulating \cup {t}) =
               IF t \in Emulating THEN Cardinality(Emulating) ELSE Cardinality(Emulating) + 1
        BY <3>1, FS_AddElement, Zenon
      <3> QED
        BY <2>2, <3>1, <3>2
    <2> QED
      BY <1>2, <2>1, <2>3, Counts, FileTableAssumption DEF CountInv
  <1>4. CASE k \notin Emulated
    <2>1. Emulating' \subseteq Emulating
      BY <1>1, <1>4 DEF Emulating
    <2> QED
      BY <1>2, <2>1, CountFewer
  <1> QED
    BY <1>3, <1>4

LEMMA CountStep ==
    ASSUME Finite, TypeInv, CountInv, Safe \subseteq rules, NEW t \in Threads, ThreadStep(t)
    PROVE  CountInv'
  <1> USE DEF TypeInv, TypeOK, Op
  <1>1. ASSUME NEW k \in Kinds, NEW a \in BOOLEAN, Open(t, k, a) PROVE CountInv'
    BY <1>1, CountOpen
  <1>2. CASE \/ IsoOpen(t) \/ IsoOpenFails(t) \/ KeepSlot(t) \/ DeleteOld(t) \/ DeleteMode(t)
             \/ StartFind(t) \/ PassSlot(t) \/ FindSlot(t) \/ StoreFd(t) \/ StoreIsofd(t) \/ StoreMode(t)
             \/ CloseLook(t) \/ CloseCompare(t) \/ IsoClose(t)
             \/ ClearIsofd(t) \/ ClearFd(t) \/ ClearMode(t)
    <2>1. held' = held /\ \A u \in Threads : op'[u].kind \in {op[u].kind, "lost"}
      BY <1>2 DEF IsoOpen, IsoOpenFails, KeepSlot, DeleteOld, DeleteMode, StartFind, PassSlot, FindSlot,
         NextSlot, StoreFd, StoreIsofd, StoreMode, CloseLook, CloseCompare, IsoClose, ClearIsofd,
         ClearFd, ClearMode
    <2>2. Emulation' \subseteq Emulation /\ Emulating' \subseteq Emulating
      BY <2>1 DEF Emulation, Emulating, Emulated
    <2> QED
      BY <2>2, CountFewer
  <1>4. CASE NoMode(t) \/ TableOverflow(t) \/ StorePlace(t)
    BY <1>4, CountReturn DEF NoMode, TableOverflow, StorePlace
  <1>5. ASSUME NEW f \in Fds, Close(t, f) PROVE CountInv'
    <2>1. held' = [held EXCEPT ![f] = "none"] /\ \A u \in Threads : op'[u].kind = op[u].kind
      BY <1>5 DEF Close
    <2>2. Emulation' \subseteq Emulation /\ Emulating' \subseteq Emulating
      BY <2>1 DEF Emulation, Emulating, Emulated
    <2> QED
      BY <2>2, CountFewer
  <1>6. CASE CloseNothing(t) \/ ClearPlace(t)
    <2>1. held' = held /\ op' = [op EXCEPT ![t] = NoOp]
      BY <1>6 DEF CloseNothing, ClearPlace, Return
    <2>2. Emulation' \subseteq Emulation /\ Emulating' \subseteq Emulating
      BY <2>1 DEF Emulation, Emulating, Emulated, NoOp
    <2> QED
      BY <2>2, CountFewer
  <1>7. SyncKinds \subseteq Kinds /\ AsyncKinds \subseteq Kinds
    BY FileTableAssumption DEF Kinds
  <1> QED
    BY <1>1, <1>2, <1>4, <1>5, <1>6, <1>7 DEF ThreadStep, OpenStep, CloseStep

(* A thread that looks for a slot finds one.                               *)
LEMMA NoOverflow ==
    ASSUME Finite, TypeInv, SafeInv, CountInv, NEW t \in Threads, TableOverflow(t)
    PROVE  FALSE
  <1> USE DEF TypeInv, TypeOK, Entry, Op
  <1>1. pc[t] = "find" /\ op[t].slot = NSlots + 1
    BY DEF TableOverflow, OpenReturns, Return, Goto, At
  <1>2. t \in Emulating /\ t \notin Fillers
    BY <1>1 DEF KindInv, Emulating, Fillers, Filling
  <1>3. Closers = {}
    BY <1>1 DEF SafeInv, PhaseInv, Openers, Opening
  <1>4. \A i \in Slots : ~ Free(i)
    BY <1>1, FileTableAssumption DEF SafeInv, FillInv, Slots
  <1> DEFINE Others == Emulating \ {t}
             fdOf == [u \in Others |-> op[u].fd]
             Opened == {op[u].fd : u \in Others}
             slotFd == [i \in Slots |-> emu_state[i].fd]
  <1>5. \A i \in Entered : emu_state[i].fd \in Emulation
    BY <1>3 DEF SafeInv, EntryInv, Emulation, Entered, Free
  <1>6. ASSUME NEW i \in Slots \ Entered
        PROVE  \E u \in Others : u \in Fillers /\ op[u].slot = i /\ emu_state[i].fd = op[u].fd
    <2>1. PICK u \in Fillers : op[u].slot = i
      BY <1>4 DEF Entered
    <2>2. emu_state[i].fd = op[u].fd
      BY <1>4, <2>1 DEF SafeInv, FillInv, Free
    <2>3. u \in Others
      BY <1>2, <2>1 DEF KindInv, Emulating, Fillers, Filling
    <2> QED
      BY <2>1, <2>2, <2>3
  <1>7. ASSUME NEW i \in Slots, NEW j \in Slots, emu_state[i].fd = emu_state[j].fd, i # j
        PROVE  FALSE
    <2>1. CASE i \in Entered /\ j \in Entered
      BY <1>7, <2>1 DEF SafeInv, EntryInv
    <2>2. CASE i \notin Entered /\ j \notin Entered
      <3>1. PICK u \in Others : u \in Fillers /\ op[u].slot = i /\ emu_state[i].fd = op[u].fd
        BY <1>6, <2>2
      <3>2. PICK v \in Others : v \in Fillers /\ op[v].slot = j /\ emu_state[j].fd = op[v].fd
        BY <1>6, <2>2
      <3>3. u \in Openers /\ v \in Openers /\ u # v
        BY <1>7, <3>1, <3>2 DEF Fillers, Filling, Openers, Opening
      <3>4. op[u].fd # op[v].fd
        BY <3>3 DEF SafeInv, OpenInv
      <3> QED
        BY <1>7, <3>1, <3>2, <3>4
    <2>3. ASSUME NEW k \in Entered, NEW l \in Slots \ Entered PROVE emu_state[k].fd # emu_state[l].fd
      <3>1. PICK u \in Others : u \in Fillers /\ op[u].slot = l /\ emu_state[l].fd = op[u].fd
        BY <1>6
      <3>2. held[emu_state[l].fd] = "none"
        BY <3>1 DEF Fillers, Filling, Openers, Opening, SafeInv, OpenInv
      <3>3. held[emu_state[k].fd] # "none"
        BY <1>5 DEF Emulation, Emulated
      <3> QED
        BY <3>2, <3>3
    <2> QED
      BY <1>7, <2>1, <2>2, <2>3
  <1>8. slotFd \in Injection(Slots, Emulation \cup Opened)
    BY <1>5, <1>6, <1>7 DEF Injection, IsInjective
  <1>9. fdOf \in Surjection(Others, Opened)
    BY DEF Surjection
  <1>10. /\ IsFiniteSet(Others) /\ Cardinality(Others) = Cardinality(Emulating) - 1
    BY <1>2, Counts, FS_RemoveElement
  <1>11. IsFiniteSet(Opened) /\ Cardinality(Opened) <= Cardinality(Emulating) - 1
    BY <1>9, <1>10, FS_Surjection
  <1> HIDE DEF slotFd, fdOf, Others, Opened
  <1>12. /\ IsFiniteSet(Emulation \cup Opened)
         /\ Cardinality(Emulation \cup Opened) <= Cardinality(Emulation) + Cardinality(Opened)
    <2>1. /\ IsFiniteSet(Emulation \cup Opened)
          /\ Cardinality(Emulation \cup Opened) =
                Cardinality(Emulation) + Cardinality(Opened) - Cardinality(Emulation \cap Opened)
      BY <1>11, Counts, FS_Union
    <2>2. Cardinality(Emulation \cap Opened) \in Nat
      BY <1>11, FS_Intersection, Counts, FS_CardinalityType
    <2> QED
      BY <2>1, <2>2, <1>11, Counts, FS_CardinalityType
  <1>13. Cardinality(Slots) <= Cardinality(Emulation \cup Opened)
    BY <1>8, <1>12, FS_Injection
  <1>14. Cardinality(Slots) = NSlots
    BY FS_Interval, FileTableAssumption DEF Slots
  <1>15. Cardinality(Opened) \in Nat /\ Cardinality(Emulation \cup Opened) \in Nat
    BY <1>11, <1>12, FS_CardinalityType
  <1> QED
    BY <1>11, <1>12, <1>13, <1>14, <1>15, Counts, FileTableAssumption DEF CountInv

-----------------------------------------------------------------------------
(* What the game does not do: no image is opened asynchronously to be read *)
(* in block mode, and no file that its image lacks.                        *)
NoBlindOpen == AsyncKinds \subseteq {"plain", "iso"}

UnderRules == Safe \subseteq rules => SafeInv /\ CountInv

(* Under the rules, the invariants above hold in every state.              *)
THEOREM SafeInvariant ==
    ASSUME Finite, NoBlindOpen
    PROVE  Spec => [](TypeInv /\ UnderRules)
  <1>1. Init => UnderRules
    <2>1. Init => SafeInv
      BY DEF Init, SafeInv, PhaseInv, RealInv, OpenInv, FillInv, FreeInv, EntryInv, CloseInv,
         OwnerInv, Entered, Free, Openers, Closers, Fillers, Opening, Closing, Filling, NoOp, Emulated
    <2>2. Init => Emulation = {} /\ Emulating = {}
      BY DEF Init, Emulation, Emulating, Emulated, NoOp
    <2>3. Init => CountInv
      <3>1. Cardinality({}) = 0 /\ 0 + 0 <= NSlots
        BY FS_EmptySet, FileTableAssumption
      <3> QED
        BY <2>2, <3>1 DEF CountInv
    <2> QED
      BY <2>1, <2>3 DEF UnderRules
  <1>2. TypeInv /\ UnderRules /\ [Next]_vars => UnderRules'
    <2> SUFFICES ASSUME TypeInv, UnderRules, [Next]_vars, Safe \subseteq rules'
                 PROVE  SafeInv' /\ CountInv'
      BY DEF UnderRules
    <2>1. CASE UNCHANGED vars
      BY <2>1 DEF vars, UnderRules, SafeInv, PhaseInv, RealInv, OpenInv, FillInv, FreeInv, EntryInv,
         CloseInv, OwnerInv, Entered, Free, Openers, Closers, Fillers, CountInv, Emulation, Emulating
    <2>2. ASSUME NEW t \in Threads, ThreadStep(t) PROVE SafeInv' /\ CountInv'
      <3>1. Safe \subseteq rules /\ SafeInv /\ CountInv /\ UNCHANGED rules /\ Undisturbed(t)
        BY <2>2 DEF ThreadStep, UnderRules
      <3>2. CountInv'
        BY <2>2, <3>1, CountStep
      <3>3. ASSUME NEW k \in SyncKinds, Open(t, k, FALSE) PROVE SafeInv'
        <4>1. k \in Kinds /\ FALSE \in BOOLEAN
          BY FileTableAssumption DEF Kinds
        <4> QED
          BY <3>1, <3>3, <4>1, OpenSafe, Zenon
      <3>4. ASSUME NEW k \in AsyncKinds, Open(t, k, TRUE) PROVE SafeInv'
        BY <3>1, <3>4, OpenSafe DEF Kinds, NoBlindOpen
      <3>5. ASSUME NEW f \in Fds, Close(t, f) PROVE SafeInv'
        BY <3>1, <3>5, CloseSafe
      <3>6. ASSUME IsoOpen(t) \/ IsoOpenFails(t) PROVE SafeInv'
        BY <3>1, <3>6, IsoOpenSafe, IsoOpenFailsSafe
      <3>7. ASSUME KeepSlot(t) \/ StartFind(t) \/ PassSlot(t) PROVE SafeInv'
        BY <3>1, <3>7, ScanSafe
      <3>8. ASSUME DeleteOld(t) \/ DeleteMode(t) \/ TableOverflow(t) PROVE SafeInv'
        BY <3>1, <3>8, DeleteSafe, NoOverflow
      <3>9. ASSUME FindSlot(t) PROVE SafeInv'
        BY <3>1, <3>9, FindSlotSafe
      <3>10. ASSUME NoMode(t) \/ StorePlace(t) PROVE SafeInv'
        BY <3>1, <3>10, NoModeSafe, StorePlaceSafe
      <3>11. ASSUME StoreFd(t) \/ StoreIsofd(t) \/ StoreMode(t) PROVE SafeInv'
        BY <3>1, <3>11, StoreSafe
      <3>12. ASSUME CloseNothing(t) \/ CloseLook(t) \/ CloseCompare(t) PROVE SafeInv'
        BY <3>1, <3>12, CloseNothingSafe, CloseLookSafe, CloseCompareSafe
      <3>13. ASSUME IsoClose(t) \/ ClearIsofd(t) PROVE SafeInv'
        BY <3>1, <3>13, IsoCloseSafe, ClearIsofdSafe
      <3>14. ASSUME ClearFd(t) \/ ClearMode(t) \/ ClearPlace(t) PROVE SafeInv'
        BY <3>1, <3>14, ClearFdSafe, ClearRestSafe
      <3>15. CASE OpenStep(t)
        <4>1. (\E k \in SyncKinds : Open(t, k, FALSE)) => SafeInv'
          BY <3>3
        <4>2. (\E k \in AsyncKinds : Open(t, k, TRUE)) => SafeInv'
          BY <3>4
        <4> QED
          BY <3>2, <3>6, <3>7, <3>8, <3>9, <3>10, <3>11, <3>15, <4>1, <4>2 DEF OpenStep
      <3>16. CASE CloseStep(t)
        <4>1. (\E f \in Fds : Close(t, f)) => SafeInv'
          BY <3>5
        <4> QED
          BY <3>2, <3>12, <3>13, <3>14, <3>16, <4>1 DEF CloseStep
      <3> QED
        BY <2>2, <3>2, <3>15, <3>16 DEF ThreadStep
    <2> QED
      BY <2>1, <2>2 DEF Next
  <1> QED
    BY <1>1, <1>2, TypeInvariant, PTL DEF Spec

(* Between hooks and in them, a slot in use is an entry or being filled.   *)
LEMMA HeldEntry ==
    ASSUME TypeInv, SafeInv, NEW i \in InUse, held[emu_state[i].fd] # "none"
    PROVE  i \in Entered
  <1>1. i \in Slots /\ emu_state[i].fd # 0
    BY DEF InUse, Free
  <1>2. ASSUME i \notin Entered PROVE FALSE
    <2>1. PICK t \in Fillers : op[t].slot = i
      BY <1>1, <1>2 DEF SafeInv, FreeInv
    <2>2. t \in Openers /\ emu_state[i].fd = op[t].fd
      BY <1>1, <2>1 DEF SafeInv, FillInv, Fillers, Filling, Openers, Opening
    <2> QED
      BY <2>2 DEF SafeInv, OpenInv
  <1> QED
    BY <1>2

(* Under the rules, a descriptor the game has for a file in an image or    *)
(* for a whole image is emulated in its mode, at its own place.            *)
THEOREM EmulatedAsOpened ==
    ASSUME Finite, NoBlindOpen
    PROVE  Spec => []HeldAsOpened
  <1>1. TypeInv /\ UnderRules => HeldAsOpened
    <2> SUFFICES ASSUME TypeInv, SafeInv, NEW f \in Fds, held[f] \in Emulated
                 PROVE  ModeOf(f) = held[f] /\ emu_state[Lookup(f)].place = f
      BY DEF HeldAsOpened, UnderRules
    <2>1. PICK i \in Entered : emu_state[i].fd = f
      BY DEF SafeInv, OwnerInv
    <2>2. ASSUME NEW j \in Slots, emu_state[j].fd = f PROVE j = i
      <3>1. held[f] # "none" /\ f # 0
        BY <2>1 DEF Emulated, Entered, Free
      <3>2. j \in Entered
        <4>1. ASSUME j \notin Entered PROVE FALSE
          <5>1. PICK t \in Fillers : op[t].slot = j
            BY <2>2, <3>1, <4>1 DEF SafeInv, FreeInv
          <5>2. t \in Openers /\ f = op[t].fd
            BY <2>2, <3>1, <5>1 DEF SafeInv, FillInv, Fillers, Filling, Openers, Opening
          <5> QED
            BY <3>1, <5>2 DEF SafeInv, OpenInv
        <4> QED
          BY <4>1
      <3> QED
        BY <2>1, <2>2, <3>2 DEF SafeInv, EntryInv
    <2>3. SlotsOf(f) # {} /\ Min(SlotsOf(f)) = i
      BY <2>1, <2>2, SlotMin DEF SlotsOf, Entered
    <2>4. Lookup(f) = i /\ i # 0
      BY <2>1, <2>3 DEF Lookup, Entered, Free, Slots
    <2>5. held[f] = emu_state[i].mode /\ emu_state[i].place = f
      BY <2>1 DEF SafeInv, EntryInv, Emulated
    <2> QED
      BY <2>4, <2>5 DEF ModeOf
  <1> QED
    BY <1>1, SafeInvariant, PTL

(* Under the rules, what the game holds is open, and so is stdin.          *)
THEOREM HeldStaysOpen ==
    ASSUME Finite, NoBlindOpen
    PROVE  Spec => []HeldIsOpen
  <1>1. UnderRules => HeldIsOpen
    BY DEF HeldIsOpen, UnderRules, SafeInv, RealInv
  <1> QED
    BY <1>1, SafeInvariant, PTL

(* Under the rules, each entry the game can use has a descriptor of the    *)
(* image for itself.                                                       *)
THEOREM ImageOwned ==
    ASSUME Finite, NoBlindOpen
    PROVE  Spec => []IsofdOwned
  <1>1. TypeInv /\ UnderRules => IsofdOwned
    <2> SUFFICES ASSUME TypeInv, SafeInv, NEW i \in Usable
                 PROVE  /\ emu_state[i].isofd \in real \ {0}
                        /\ emu_state[i].isofd # emu_state[i].fd => held[emu_state[i].isofd] = "none"
                        /\ \A j \in InUse \ {i} : emu_state[j].isofd # emu_state[i].isofd
      BY DEF IsofdOwned, UnderRules
    <2>1. i \in Entered /\ held[emu_state[i].fd] # "none" /\ emu_state[i].fd \in Fds
      BY HeldEntry DEF Usable, InUse, Free, TypeInv, TypeOK, Entry
    <2>2. emu_state[i].isofd # 0 /\ emu_state[i].fd \in real
      BY <2>1 DEF SafeInv, EntryInv, RealInv
    <2>3. ASSUME emu_state[i].isofd # emu_state[i].fd
          PROVE  emu_state[i].isofd \in real /\ held[emu_state[i].isofd] = "none"
      <3>1. \A t \in Closers : pc[t] = "clearisofd" /\ op[t].slot = i => FALSE
        BY <2>1 DEF SafeInv, CloseInv
      <3> QED
        BY <2>1, <2>2, <2>3, <3>1 DEF SafeInv, EntryInv
    <2>4. ASSUME NEW j \in InUse \ {i} PROVE emu_state[j].isofd # emu_state[i].isofd
      <3>1. CASE j \in Entered
        BY <2>1, <2>2, <3>1 DEF SafeInv, EntryInv
      <3>2. CASE j \notin Entered
        <4>1. PICK t \in Fillers : op[t].slot = j
          BY <3>2 DEF Entered, InUse
        <4>2. t \in Openers /\ emu_state[j].isofd = op[t].isofd
          BY <4>1 DEF SafeInv, FillInv, Fillers, Filling, Openers, Opening, InUse, Free
        <4>3. op[t].isofd \in {0, op[t].fd} \/ held[op[t].isofd] = "none"
          BY <4>2 DEF SafeInv, OpenInv
        <4>4. held[op[t].fd] = "none"
          BY <4>2 DEF SafeInv, OpenInv
        <4>5. emu_state[i].isofd # emu_state[i].fd => emu_state[i].isofd # op[t].isofd
          BY <2>1, <2>2, <4>2 DEF SafeInv, EntryInv
        <4> QED
          BY <2>1, <2>2, <4>2, <4>3, <4>4, <4>5
      <3> QED
        BY <3>1, <3>2
    <2> QED
      BY <2>1, <2>2, <2>3, <2>4
  <1> QED
    BY <1>1, SafeInvariant, PTL

(* Under the rules, no descriptor is left open for ever.                   *)
THEOREM NothingLeaks ==
    ASSUME Finite, NoBlindOpen
    PROVE  Spec => []NoDescriptorLost
  <1>1. TypeInv /\ UnderRules => NoDescriptorLost
    <2> SUFFICES ASSUME TypeInv, SafeInv, \A t \in Threads : pc[t] = "idle", NEW f \in real \ {0},
                        held[f] = "none"
                 PROVE  \E i \in InUse : f = emu_state[i].isofd
      BY DEF NoDescriptorLost, UnderRules, TypeInv, TypeOK
    <2> QED
      BY DEF SafeInv, OwnerInv, Openers, Opening, Entered, InUse
  <1> QED
    BY <1>1, SafeInvariant, PTL
=============================================================================
