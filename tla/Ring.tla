-------------------------------- MODULE Ring --------------------------------
(***************************************************************************)
(* The size of a ring buffer of lwrb.c, what is put into it, and the       *)
(* arithmetic of its indices.                                              *)
(***************************************************************************)
EXTENDS Integers, Sequences

CONSTANTS Byte,
          Chunk,  \* the blocks that are offered to the buffer
          Size    \* buff->size

ASSUME RingAssumption == Size \in Nat \ {0} /\ Chunk \subseteq Seq(Byte)

Index == 0 .. Size - 1

\* An index that passed the end of the buffer by less than its size.
Wrap(i) == IF i >= Size THEN i - Size ELSE i

Leading(s, n) == [i \in 1 .. n |-> s[i]]
Smaller(m, n) == IF m < n THEN m ELSE n
=============================================================================
