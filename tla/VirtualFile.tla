---------------------------- MODULE VirtualFile ----------------------------
(***************************************************************************)
(* What a game expects of an open file of size units (bytes, or sectors of *)
(* a disc opened in block mode): a read returns the units from the file    *)
(* position on and no more than the file has, and a seek goes to the       *)
(* position asked for and returns it.                                      *)
(***************************************************************************)
EXTENDS Integers

CONSTANT Whences    \* those the game uses of "SET", "CUR" and "END"

VARIABLES size,     \* units in the file
          pos,      \* the file position
          last      \* what the last call returned

vars == <<size, pos, last>>

Fresh == [call |-> "open", at |-> 0, count |-> 0]
Init == size \in Nat /\ pos = 0 /\ last = Fresh

Read(n) ==
    LET left == IF pos < size THEN size - pos ELSE 0
        k == IF n < left THEN n ELSE left
    IN  /\ last' = [call |-> "read", at |-> pos, count |-> k]
        /\ pos' = pos + k
        /\ UNCHANGED size

Target(offset, whence) ==
    offset + CASE whence = "SET" -> 0 [] whence = "CUR" -> pos [] whence = "END" -> size

Seek(offset, whence) ==
    /\ Target(offset, whence) \in 0 .. size
    /\ pos' = Target(offset, whence)
    /\ last' = [call |-> "seek", at |-> pos', count |-> 0]
    /\ UNCHANGED size

Next ==
    \/ \E n \in 0 .. size : Read(n)
    \/ \E offset \in -size .. size, whence \in Whences : Seek(offset, whence)

Spec == Init /\ [][Next]_vars
=============================================================================
