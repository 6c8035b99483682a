-------------------------------- MODULE LwRB --------------------------------
(***************************************************************************)
(* The ring buffer of lwrb.c, which hr_thread and the interrupt of its     *)
(* serial port share without a lock: one writer and one reader that may    *)
(* preempt each other between any two bytes they copy.  The writer only    *)
(* stores w, the reader only stores r, each after its copy.                *)
(***************************************************************************)
EXTENDS Ring

VARIABLES buff,    \* buff->buff
          w, r,    \* buff->w, buff->r
          block,   \* the bytes that the writer writes; empty: it writes nothing
          copied,  \* how many of them it has copied
          want,    \* how many bytes the reader reads; 0: it reads nothing
          skip,    \* how far from r it starts (lwrb_peek)
          keep,    \* it leaves them in the buffer (lwrb_peek)
          taken,   \* those that it has copied
          last     \* the bytes of the last read or peek

writer == <<buff, w, block, copied>>
reader == <<r, want, skip, keep, taken, last>>
ring == <<writer, reader>>

RingTypeOK ==
  /\ buff \in [Index -> Byte]
  /\ w \in Index /\ r \in Index
  /\ block \in Seq(Byte) /\ copied \in Nat
  /\ want \in Nat /\ skip \in Nat /\ keep \in BOOLEAN
  /\ taken \in Seq(Byte) /\ last \in Seq(Byte)

\* lwrb_init
RingInit ==
  /\ buff \in [Index -> Byte]
  /\ w = 0 /\ r = 0
  /\ block = <<>> /\ copied = 0
  /\ want = 0 /\ skip = 0 /\ keep = FALSE /\ taken = <<>> /\ last = <<>>

-----------------------------------------------------------------------------
\* Mutant: the buffer is used up to its last byte.
FreeAll == IF w >= r THEN Size - (w - r) ELSE r - w

lwrb_get_free == IF w >= r THEN Size - (w - r) - 1 ELSE r - w - 1
lwrb_get_full == IF w >= r THEN w - r ELSE Size - (r - w)

lwrb_get_linear_block_write_length ==
  IF w >= r THEN (IF r = 0 THEN Size - w - 1 ELSE Size - w) ELSE r - w - 1

lwrb_get_linear_block_read_length == IF w > r THEN w - r ELSE IF r > w THEN Size - r ELSE 0

-----------------------------------------------------------------------------
\* lwrb_write_ex up to the copy: as much of s as there is room for, or, with
\* LWRB_FLAG_WRITE_ALL, all of it or nothing.
lwrb_write_ex(s, all) ==
  /\ block = <<>>
  /\ lwrb_get_free > 0 /\ (all => Len(s) <= lwrb_get_free)
  /\ block' = Leading(s, Smaller(lwrb_get_free, Len(s)))
  /\ copied' = 0
  /\ UNCHANGED <<buff, w, reader>>

\* A block that fits is put at the linear write address directly (by DMA),
\* and then lwrb_advance is called.
WriteLinear(s) ==
  /\ block = <<>>
  /\ Len(s) <= lwrb_get_linear_block_write_length
  /\ block' = s
  /\ copied' = 0
  /\ UNCHANGED <<buff, w, reader>>

CopyIn ==
  /\ copied < Len(block)
  /\ buff' = [buff EXCEPT ![Wrap(w + copied)] = block[copied + 1]]
  /\ copied' = copied + 1
  /\ UNCHANGED <<w, block, reader>>

\* The store of w that ends lwrb_write_ex or lwrb_advance.
WriteEnd ==
  /\ block # <<>> /\ copied = Len(block)
  /\ w' = Wrap(w + copied)
  /\ block' = <<>> /\ copied' = 0
  /\ UNCHANGED <<buff, reader>>

\* lwrb_read_ex up to the copy, and lwrb_peek
ReadBegin(n, from, leave) ==
  /\ want = 0
  /\ from < lwrb_get_full
  /\ want' = Smaller(lwrb_get_full - from, n)
  /\ skip' = from /\ keep' = leave /\ taken' = <<>>
  /\ UNCHANGED <<r, last, writer>>

lwrb_read_ex(n, all) == (all => n <= lwrb_get_full) /\ ReadBegin(n, 0, FALSE)

lwrb_peek(n, from) == ReadBegin(n, from, TRUE)

\* A block is taken from the linear read address (by DMA), and then lwrb_skip
\* is called.
ReadLinear == ReadBegin(lwrb_get_linear_block_read_length, 0, FALSE)

CopyOut ==
  /\ Len(taken) < want
  /\ taken' = Append(taken, buff[Wrap(r + skip + Len(taken))])
  /\ UNCHANGED <<r, want, skip, keep, last, writer>>

\* The store of r that ends lwrb_read_ex or lwrb_skip; lwrb_peek has none.
ReadEnd ==
  /\ want > 0 /\ Len(taken) = want
  /\ r' = IF keep THEN r ELSE Wrap(r + want)
  /\ last' = taken
  /\ want' = 0 /\ skip' = 0 /\ keep' = FALSE /\ taken' = <<>>
  /\ UNCHANGED writer

\* lwrb_skip: bytes are dropped without being read.
lwrb_skip(n) ==
  /\ want = 0 /\ lwrb_get_full > 0
  /\ r' = Wrap(r + Smaller(n, lwrb_get_full))
  /\ UNCHANGED <<want, skip, keep, taken, last, writer>>

\* lwrb_reset, which is for a buffer that nobody reads or writes.
lwrb_reset ==
  /\ block = <<>> /\ want = 0
  /\ w' = 0 /\ r' = 0
  /\ UNCHANGED <<buff, block, copied, want, skip, keep, taken, last>>

\* A count above Size asks for what Size asks for.
RingNext ==
  \/ \E s \in Chunk :
       s # <<>> /\ (WriteLinear(s) \/ \E all \in BOOLEAN : lwrb_write_ex(s, all))
  \/ CopyIn \/ WriteEnd
  \/ \E n \in 1 .. Size : \/ \E all \in BOOLEAN : lwrb_read_ex(n, all)
                         \/ \E from \in 0 .. Size : lwrb_peek(n, from)
                         \/ lwrb_skip(n)
  \/ ReadLinear \/ CopyOut \/ ReadEnd
  \/ lwrb_reset

RingSpec == RingInit /\ [][RingNext]_ring

-----------------------------------------------------------------------------
\* The bytes between r and w are a Pipe: whatever the two sides do to each
\* other between two bytes, no byte is lost, repeated, overwritten or read
\* before it is there.
Queue == [i \in 1 .. lwrb_get_full |-> buff[Wrap(r + i - 1)]]

Abstract == INSTANCE Pipe WITH
              Capacity <- Size - 1, queue <- Queue, given <- block, last <- last

ImplementsPipe == Abstract!Spec
=============================================================================
