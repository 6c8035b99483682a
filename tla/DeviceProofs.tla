---------------------------- MODULE DeviceProofs ----------------------------
(***************************************************************************)
(* What the device side promises, for every value of the constants.        *)
(*                                                                         *)
(* Ring buffer: LwRB implements Pipe, for a buffer of any size and blocks  *)
(* of any bytes.  The argument counts every index from r: the bytes to be  *)
(* read are at the distances 0 .. full - 1, those the writer has copied    *)
(* follow them, and both together stay below Size, so that no distance is  *)
(* met twice.                                                              *)
(* Input of the shell: for a fifo of any size, the newest bytes in order.  *)
(* Button: for any thresholds, every press is told once and for what it    *)
(* was.                                                                    *)
(* Heap: for any size of the heap and of its blocks, the headers are a     *)
(* chain from 0 to heap_end in which prev leads back, lfree is below every *)
(* free block and no two free blocks are neighbours, but for the one that  *)
(* is being freed: each of the two joins of plug_holes takes a header out  *)
(* of the chain and closes one of the two gaps.                            *)
(* AT commands: for any commands, retries and times, what a callback is    *)
(* told is the modem's answer to the last send, if the line was clear.     *)
(* Configuration in the flash: for any number of power failures, to change *)
(* one field keeps the others.                                             *)
(* Work queue: for any callers and items, an item is in the list where the *)
(* last call put it, or in none, and no assertion about a timer fails.     *)
(* LEDs: for any light arrays and loop counts, the callback comes after    *)
(* the last entry of the last round.                                       *)
(***************************************************************************)
EXTENDS LwRB, Console, Button, Heap, AtChat, Flash, WorkQueue, Led, TLAPS,
        NaturalsInduction, WellFoundedInduction, FiniteSetTheorems, SequenceTheorems

-----------------------------------------------------------------------------
(* The ring buffer *)


full == lwrb_get_full
free == lwrb_get_free

\* The writer's block still fits (r only moves away from w), and what it has
\* copied is behind w.
WriterInv ==
  /\ Len(block) <= free
  /\ copied <= Len(block)
  /\ \A i \in 1 .. copied : buff[Wrap(w + i - 1)] = block[i]

\* What the reader asked for is still there (w only moves away from r), and
\* what it has copied is what the buffer holds.
ReaderInv ==
  /\ want > 0 => skip + want <= full
  /\ Len(taken) <= want
  /\ ~ keep => skip = 0
  /\ \A i \in 1 .. Len(taken) : taken[i] = buff[Wrap(r + skip + i - 1)]

IInv == RingTypeOK /\ WriterInv /\ ReaderInv

-----------------------------------------------------------------------------
\* Indices of the buffer, counted from r, wrap at most once.
LEMMA WrapType == ASSUME NEW x \in Index, NEW n \in 0 .. Size
                  PROVE  Wrap(x + n) \in Index
  BY RingAssumption DEF Wrap, Index

LEMMA WrapSum == ASSUME NEW x \in Index, NEW m \in Nat, NEW n \in Nat, m + n <= Size
                 PROVE  Wrap(Wrap(x + m) + n) = Wrap(x + m + n)
  BY RingAssumption DEF Wrap, Index

LEMMA WrapDiffers == ASSUME NEW x \in Index, NEW m \in 0 .. Size - 1,
                            NEW n \in 0 .. Size - 1, m # n
                     PROVE  Wrap(x + m) # Wrap(x + n)
  BY RingAssumption DEF Wrap, Index

LEMMA FullFree == ASSUME w \in Index, r \in Index
                  PROVE  /\ full \in 0 .. Size - 1
                         /\ free = Size - 1 - full
                         /\ w = Wrap(r + full)
  BY RingAssumption DEF full, free, lwrb_get_full, lwrb_get_free, Wrap, Index

\* What an operation at w does to the number of bytes.
LEMMA FullAfterWrite ==
  ASSUME w \in Index, r \in Index, r' = r,
         NEW n \in Nat, n <= free, w' = Wrap(w + n)
  PROVE  w' \in Index /\ full' = full + n
  BY RingAssumption DEF full, free, lwrb_get_full, lwrb_get_free, Wrap, Index

\* What an operation at r does to the number of bytes.
LEMMA FullAfterRead ==
  ASSUME w \in Index, r \in Index, w' = w,
         NEW n \in Nat, n <= full, r' = Wrap(r + n)
  PROVE  r' \in Index /\ full' = full - n /\ free' = free + n
  BY RingAssumption DEF full, free, lwrb_get_full, lwrb_get_free, Wrap, Index

LEMMA FrontProp ==
  ASSUME NEW s \in Seq(Byte), NEW n \in Nat, n <= Len(s)
  PROVE  Leading(s, n) \in Seq(Byte) /\ Len(Leading(s, n)) = n
  BY DEF Leading

LEMMA LinearFits ==
  ASSUME w \in Index, r \in Index
  PROVE  lwrb_get_linear_block_write_length \in Int
         /\ lwrb_get_linear_block_write_length <= free
         /\ lwrb_get_linear_block_read_length \in Nat
         /\ lwrb_get_linear_block_read_length <= full
  BY RingAssumption DEF full, free, lwrb_get_full, lwrb_get_free, Index,
     lwrb_get_linear_block_write_length, lwrb_get_linear_block_read_length

-----------------------------------------------------------------------------
LEMMA InitInv == RingInit => IInv
<1> SUFFICES ASSUME RingInit PROVE IInv
  OBVIOUS
<1>1. <<>> \in Seq(Byte) /\ Len(<<>>) = 0 /\ 0 \in Index
  BY RingAssumption DEF Index
<1>2. free \in Nat
  BY RingAssumption DEF RingInit, free, lwrb_get_free
<1>3. RingTypeOK
  BY <1>1 DEF RingInit, RingTypeOK
<1>4. WriterInv /\ ReaderInv
  BY <1>1, <1>2 DEF RingInit, WriterInv, ReaderInv
<1> QED
  BY <1>3, <1>4 DEF IInv

LEMMA WriteBeginInv ==
  ASSUME IInv, NEW s \in Chunk,
         WriteLinear(s) \/ \E all \in BOOLEAN : lwrb_write_ex(s, all)
  PROVE  IInv'
<1>1. s \in Seq(Byte) /\ Len(s) \in Nat
  BY RingAssumption
<1>2. w \in Index /\ r \in Index
  BY DEF IInv, RingTypeOK
<1>3. full \in 0 .. Size - 1 /\ free \in Nat
  BY <1>2, FullFree, RingAssumption
<1>4. block' \in Seq(Byte) /\ Len(block') <= free
  <2>1. CASE WriteLinear(s)
    BY <1>1, <1>2, <1>3, <2>1, LinearFits DEF WriteLinear
  <2>2. ASSUME NEW all \in BOOLEAN, lwrb_write_ex(s, all)
        PROVE  block' \in Seq(Byte) /\ Len(block') <= free
    <3>1. Smaller(free, Len(s)) \in Nat /\ Smaller(free, Len(s)) <= Len(s)
          /\ Smaller(free, Len(s)) <= free
      BY <1>1, <1>3 DEF Smaller
    <3>2. block' = Leading(s, Smaller(free, Len(s)))
      BY <2>2 DEF lwrb_write_ex, free
    <3> QED
      BY <1>1, <3>1, <3>2, FrontProp
  <2> QED
    BY <2>1, <2>2
<1>5. copied' = 0 /\ UNCHANGED <<buff, w, reader>>
  BY DEF WriteLinear, lwrb_write_ex
<1>6. free' = free /\ full' = full
  BY <1>5 DEF free, full, lwrb_get_free, lwrb_get_full, reader
<1>7. RingTypeOK'
  BY <1>4, <1>5 DEF IInv, RingTypeOK, reader
<1>8. WriterInv'
  BY <1>4, <1>5, <1>6 DEF WriterInv
<1>9. ReaderInv'
  BY <1>5, <1>6 DEF IInv, ReaderInv, reader, Wrap
<1> QED
  BY <1>7, <1>8, <1>9 DEF IInv

\* A byte of the block goes behind everything that the reader may read.
LEMMA CopyInApart ==
  ASSUME IInv, CopyIn
  PROVE  /\ copied + full < Size - 1
         /\ Wrap(w + copied) = Wrap(r + full + copied)
         /\ \A i \in 1 .. full : buff'[Wrap(r + i - 1)] = buff[Wrap(r + i - 1)]
         /\ \A i \in 1 .. copied : buff'[Wrap(w + i - 1)] = buff[Wrap(w + i - 1)]
         /\ buff'[Wrap(w + copied)] = block[copied + 1]
<1>1. w \in Index /\ r \in Index /\ copied \in Nat /\ block \in Seq(Byte)
      /\ buff \in [Index -> Byte]
  BY DEF IInv, RingTypeOK
<1>2. full \in 0 .. Size - 1 /\ free = Size - 1 - full /\ w = Wrap(r + full)
  BY <1>1, FullFree
<1>3. copied + full < Size - 1
  BY <1>1, <1>2, RingAssumption DEF CopyIn, IInv, WriterInv
<1>4. Wrap(w + copied) = Wrap(r + full + copied)
  BY <1>1, <1>2, <1>3, WrapSum, RingAssumption
<1>5. Wrap(w + copied) \in Index
  BY <1>1, <1>2, <1>3, WrapType, RingAssumption
<1>6. ASSUME NEW i \in 1 .. full
      PROVE  buff'[Wrap(r + i - 1)] = buff[Wrap(r + i - 1)]
  <2>1. /\ i - 1 \in 0 .. Size - 1 /\ full + copied \in 0 .. Size - 1
        /\ i - 1 # full + copied /\ r + i - 1 = r + (i - 1)
        /\ r + full + copied = r + (full + copied) /\ i - 1 \in 0 .. Size
    BY <1>1, <1>2, <1>3, RingAssumption DEF Index
  <2>2. Wrap(r + i - 1) # Wrap(w + copied)
    BY <1>1, <1>4, <2>1, WrapDiffers
  <2>3. Wrap(r + i - 1) \in Index
    BY <1>1, <2>1, WrapType
  <2> QED
    BY <1>1, <1>5, <2>2, <2>3 DEF CopyIn
<1>7. ASSUME NEW i \in 1 .. copied
      PROVE  buff'[Wrap(w + i - 1)] = buff[Wrap(w + i - 1)]
  <2>1. /\ i - 1 \in 0 .. Size - 1 /\ copied \in 0 .. Size - 1
        /\ i - 1 # copied /\ w + i - 1 = w + (i - 1) /\ i - 1 \in 0 .. Size
    BY <1>1, <1>2, <1>3, RingAssumption DEF Index
  <2>2. Wrap(w + i - 1) # Wrap(w + copied)
    BY <1>1, <2>1, WrapDiffers
  <2>3. Wrap(w + i - 1) \in Index
    BY <1>1, <2>1, WrapType
  <2> QED
    BY <1>1, <1>5, <2>2, <2>3 DEF CopyIn
<1>8. buff'[Wrap(w + copied)] = block[copied + 1]
  BY <1>1, <1>5 DEF CopyIn
<1> QED
  BY <1>3, <1>4, <1>6, <1>7, <1>8

LEMMA CopyInInv == ASSUME IInv, CopyIn
                   PROVE  IInv'
<1>1. w \in Index /\ r \in Index /\ copied \in Nat /\ block \in Seq(Byte)
      /\ buff \in [Index -> Byte] /\ skip \in Nat /\ want \in Nat /\ taken \in Seq(Byte)
  BY DEF IInv, RingTypeOK
<1>2. UNCHANGED <<w, block, reader>> /\ copied' = copied + 1 /\ copied < Len(block)
  BY DEF CopyIn
<1>3. free' = free /\ full' = full
  BY <1>2 DEF free, full, lwrb_get_free, lwrb_get_full, reader
<1>4. full \in 0 .. Size - 1
  BY <1>1, FullFree
<1>5. RingTypeOK'
  <2>1. block[copied + 1] \in Byte
    BY <1>1, <1>2
  <2>2. buff' \in [Index -> Byte]
    BY <1>1, <2>1 DEF CopyIn
  <2> QED
    BY <1>1, <1>2, <2>2 DEF IInv, RingTypeOK, reader
<1>6. WriterInv'
  <2>1. copied' <= Len(block') /\ Len(block') <= free'
    BY <1>1, <1>2, <1>3 DEF IInv, WriterInv
  <2>2. ASSUME NEW i \in 1 .. copied'
        PROVE  buff'[Wrap(w + i - 1)] = block[i]
    <3>1. CASE i = copied + 1
      <4>1. w + i - 1 = w + copied
        BY <1>1, <3>1 DEF Index
      <4> QED
        BY <3>1, <4>1, CopyInApart
    <3>2. CASE i # copied + 1
      <4>1. i \in 1 .. copied
        BY <1>1, <1>2, <3>2
      <4> QED
        BY <4>1, CopyInApart DEF IInv, WriterInv
    <3> QED
      BY <3>1, <3>2
  <2> QED
    BY <1>2, <2>1, <2>2 DEF WriterInv, Wrap
<1>7. ReaderInv'
  <2>1. ASSUME NEW i \in 1 .. Len(taken)
        PROVE  taken[i] = buff'[Wrap(r + skip + i - 1)]
    <3>1. want > 0 /\ skip + i \in 1 .. full /\ r + skip + i - 1 = r + (skip + i) - 1
      BY <1>1, <1>4 DEF IInv, ReaderInv, Index
    <3> QED
      BY <3>1, CopyInApart DEF IInv, ReaderInv
  <2> QED
    BY <1>2, <1>3, <2>1 DEF IInv, ReaderInv, reader, Wrap
<1> QED
  BY <1>5, <1>6, <1>7 DEF IInv

LEMMA WriteEndInv == ASSUME IInv, WriteEnd
                     PROVE  IInv' /\ full' = full + Len(block)
<1>1. w \in Index /\ r \in Index /\ copied \in Nat /\ block \in Seq(Byte)
  BY DEF IInv, RingTypeOK
<1>2. UNCHANGED <<buff, reader>> /\ copied = Len(block) /\ copied <= free
      /\ w' = Wrap(w + copied) /\ block' = <<>> /\ copied' = 0 /\ r' = r
  BY DEF WriteEnd, IInv, WriterInv, reader
<1>3. w' \in Index /\ full' = full + copied
  BY <1>1, <1>2, FullAfterWrite
<1>4. full \in Nat /\ free' \in Nat
  <2>1. full \in Nat
    BY <1>1, RingAssumption DEF full, lwrb_get_full, Index
  <2>2. \A x \in Index : (IF x >= r THEN Size - (x - r) - 1 ELSE r - x - 1) \in Nat
    BY <1>1, RingAssumption DEF Index
  <2>3. free' = IF w' >= r THEN Size - (w' - r) - 1 ELSE r - w' - 1
    BY <1>2 DEF free, lwrb_get_free
  <2> QED
    BY <1>3, <2>1, <2>2, <2>3
<1>5. RingTypeOK'
  BY <1>2, <1>3 DEF IInv, RingTypeOK, reader
<1>6. WriterInv'
  BY <1>2, <1>4 DEF WriterInv
<1>7. ReaderInv'
  BY <1>1, <1>2, <1>3, <1>4 DEF IInv, RingTypeOK, ReaderInv, reader, Wrap
<1> QED
  BY <1>2, <1>3, <1>5, <1>6, <1>7 DEF IInv

LEMMA ReadBeginInv ==
  ASSUME IInv, NEW n \in Nat, NEW from \in Nat, from < full,
         want' = Smaller(full - from, n), UNCHANGED <<r, last, writer>>,
         skip' = from, keep' \in BOOLEAN, ~ keep' => from = 0, taken' = <<>>
  PROVE  IInv' /\ UNCHANGED <<buff, w, r, block, last>>
<1>1. w \in Index /\ r \in Index
  BY DEF IInv, RingTypeOK
<1>2. full \in 0 .. Size - 1
  BY <1>1, FullFree
<1>3. want' \in Nat /\ from + want' <= full
  BY <1>2, RingAssumption DEF Smaller
<1>5. free' = free /\ full' = full
  BY DEF free, full, lwrb_get_free, lwrb_get_full, writer
<1>6. RingTypeOK'
  BY <1>3 DEF IInv, RingTypeOK, writer
<1>7. WriterInv'
  BY <1>5 DEF IInv, WriterInv, writer, Wrap
<1>8. ReaderInv'
  BY <1>3, <1>5 DEF ReaderInv
<1> QED
  BY <1>6, <1>7, <1>8 DEF IInv, writer

LEMMA CopyOutInv == ASSUME IInv, CopyOut
                    PROVE  IInv'
<1>1. w \in Index /\ r \in Index /\ want \in Nat /\ skip \in Nat /\ taken \in Seq(Byte)
      /\ buff \in [Index -> Byte]
  BY DEF IInv, RingTypeOK
<1>2. full \in 0 .. Size - 1
  BY <1>1, FullFree
<1> DEFINE at == skip + Len(taken)
<1>3. at \in 0 .. Size - 1 /\ r + skip + Len(taken) = r + at
  BY <1>1, <1>2, RingAssumption DEF CopyOut, IInv, ReaderInv, Index
<1>4. buff[Wrap(r + skip + Len(taken))] \in Byte
  BY <1>1, <1>3, WrapType, RingAssumption
<1>5. UNCHANGED <<r, want, skip, keep, last, writer>>
      /\ taken' = Append(taken, buff[Wrap(r + skip + Len(taken))]) /\ Len(taken) < want
  BY DEF CopyOut
<1>6. taken' \in Seq(Byte) /\ Len(taken') = Len(taken) + 1
      /\ taken'[Len(taken) + 1] = buff[Wrap(r + skip + Len(taken))]
      /\ \A i \in 1 .. Len(taken) : taken'[i] = taken[i]
  BY <1>1, <1>4, <1>5
<1>7. free' = free /\ full' = full
  BY <1>5 DEF free, full, lwrb_get_free, lwrb_get_full, writer
<1>8. RingTypeOK'
  BY <1>5, <1>6 DEF IInv, RingTypeOK, writer
<1>9. WriterInv'
  BY <1>5, <1>7 DEF IInv, WriterInv, writer, Wrap
<1>10. ASSUME NEW i \in 1 .. Len(taken')
       PROVE  taken'[i] = buff[Wrap(r + skip + i - 1)]
  <2>1. CASE i = Len(taken) + 1
    <3>1. r + skip + i - 1 = r + skip + Len(taken)
      BY <1>1, <2>1 DEF Index
    <3> QED
      BY <1>6, <2>1, <3>1
  <2>2. CASE i # Len(taken) + 1
    <3>1. i \in 1 .. Len(taken)
      BY <1>1, <1>6, <2>2
    <3> QED
      BY <1>6, <3>1 DEF IInv, ReaderInv
  <2> QED
    BY <2>1, <2>2
<1>11. ReaderInv'
  BY <1>1, <1>5, <1>6, <1>7, <1>10 DEF IInv, ReaderInv, writer, Wrap
<1> QED
  BY <1>8, <1>9, <1>11 DEF IInv

\* The reader moves r over bytes of the buffer, and is then idle.
LEMMA AdvanceInv ==
  ASSUME IInv, NEW n \in Nat, n <= full, r' = Wrap(r + n), UNCHANGED writer,
         want' = 0, skip' = 0 \/ UNCHANGED <<skip, keep>>, taken' = <<>>,
         RingTypeOK => keep' \in BOOLEAN /\ skip' \in Nat /\ last' \in Seq(Byte)
  PROVE  IInv' /\ full' = full - n
<1>1. w \in Index /\ r \in Index /\ w' = w
  BY DEF IInv, RingTypeOK, writer
<1>2. r' \in Index /\ full' = full - n /\ free' = free + n
  BY <1>1, FullAfterRead
<1>3. full \in 0 .. Size - 1 /\ free \in Nat
  BY <1>1, FullFree, RingAssumption
<1>4. RingTypeOK'
  BY <1>1, <1>2 DEF IInv, RingTypeOK, writer
<1>5. WriterInv'
  BY <1>2, <1>3 DEF IInv, RingTypeOK, WriterInv, writer, Wrap
<1>6. ReaderInv'
  BY DEF IInv, ReaderInv
<1> QED
  BY <1>2, <1>4, <1>5, <1>6 DEF IInv

LEMMA ReadEndInv == ASSUME IInv, ReadEnd
                    PROVE  IInv' /\ full' = (IF keep THEN full ELSE full - want)
<1>1. w \in Index /\ r \in Index /\ full \in Nat
  BY FullFree, RingAssumption DEF IInv, RingTypeOK
<1>2. /\ UNCHANGED writer /\ want' = 0 /\ skip' = 0 /\ taken' = <<>>
      /\ keep' \in BOOLEAN /\ last' = taken /\ want \in Nat /\ taken \in Seq(Byte)
      /\ skip \in Nat /\ skip + want <= full
  BY DEF ReadEnd, IInv, RingTypeOK, ReaderInv
<1>3. CASE keep
  <2>1. r = Wrap(r + 0) /\ r' = r
    BY <1>1, <1>3, RingAssumption DEF ReadEnd, Wrap, Index
  <2>2. IInv' /\ full' = full - 0
    BY <1>1, <1>2, <2>1, AdvanceInv
  <2> QED
    BY <1>1, <1>3, <2>2
<1>4. CASE ~ keep
  <2>1. r' = Wrap(r + want) /\ want <= full
    BY <1>1, <1>2, <1>4 DEF ReadEnd
  <2> QED
    BY <1>1, <1>2, <1>4, <2>1, AdvanceInv
<1> QED
  BY <1>3, <1>4

LEMMA SkipInv ==
  ASSUME IInv, NEW n \in 1 .. Size, lwrb_skip(n)
  PROVE  IInv' /\ Smaller(n, full) \in 1 .. full /\ full' = full - Smaller(n, full)
<1>1. w \in Index /\ r \in Index /\ full \in Nat
  BY FullFree, RingAssumption DEF IInv, RingTypeOK
<1>2. Smaller(n, full) \in 1 .. full /\ Smaller(n, full) \in Nat
  BY <1>1, RingAssumption DEF lwrb_skip, Smaller, full
<1>3. /\ r' = Wrap(r + Smaller(n, full)) /\ want' = 0 /\ UNCHANGED <<skip, keep>>
      /\ taken' = taken /\ UNCHANGED writer /\ last' = last
  BY DEF lwrb_skip, full
<1>4. taken = <<>>
  BY DEF lwrb_skip, IInv, RingTypeOK, ReaderInv
<1>5. RingTypeOK => keep' \in BOOLEAN /\ skip' \in Nat /\ last' \in Seq(Byte)
  BY <1>3 DEF RingTypeOK
<1>6. Smaller(n, full) <= full /\ taken' = <<>>
  BY <1>1, <1>2, <1>3, <1>4
<1> QED
  BY <1>2, <1>3, <1>5, <1>6, AdvanceInv

LEMMA ResetInv == ASSUME IInv, lwrb_reset
                  PROVE  IInv' /\ full' = 0
<1>1. w' \in Index /\ r' \in Index /\ full' = 0 /\ free' \in Nat
  BY RingAssumption DEF lwrb_reset, Index, full, free, lwrb_get_full, lwrb_get_free
<1>2. RingTypeOK'
  BY <1>1 DEF lwrb_reset, IInv, RingTypeOK
<1>3. taken = <<>> /\ block = <<>> /\ copied = 0
  BY DEF lwrb_reset, IInv, RingTypeOK, ReaderInv, WriterInv
<1>4. WriterInv' /\ ReaderInv'
  BY <1>1, <1>3 DEF lwrb_reset, IInv, WriterInv, ReaderInv
<1> QED
  BY <1>1, <1>2, <1>4 DEF IInv

LEMMA NextInv == ASSUME IInv, [RingNext]_ring
                 PROVE  IInv'
<1>1. CASE \E s \in Chunk :
             s # <<>> /\ (WriteLinear(s) \/ \E all \in BOOLEAN : lwrb_write_ex(s, all))
  BY <1>1, WriteBeginInv
<1>2. CASE CopyIn
  BY <1>2, CopyInInv
<1>3. CASE WriteEnd
  BY <1>3, WriteEndInv
<1>4. ASSUME NEW n \in 1 .. Size, NEW all \in BOOLEAN, lwrb_read_ex(n, all)
      PROVE  IInv'
  <2>1. /\ 0 < full /\ want' = Smaller(full - 0, n) /\ UNCHANGED <<r, last, writer>>
        /\ skip' = 0 /\ keep' = FALSE /\ taken' = <<>>
    BY <1>4 DEF lwrb_read_ex, ReadBegin, full
  <2>2. n \in Nat /\ 0 \in Nat
    BY RingAssumption
  <2> QED
    BY <2>1, <2>2, ReadBeginInv
<1>5. ASSUME NEW n \in 1 .. Size, NEW from \in 0 .. Size, lwrb_peek(n, from)
      PROVE  IInv'
  BY <1>5, ReadBeginInv, RingAssumption DEF lwrb_peek, ReadBegin, full
<1>6. ASSUME NEW n \in 1 .. Size, lwrb_skip(n)
      PROVE  IInv'
  BY <1>6, SkipInv
<1>7. CASE ReadLinear
  BY <1>7, ReadBeginInv, LinearFits DEF ReadLinear, ReadBegin, full, IInv, RingTypeOK
<1>8. CASE CopyOut
  BY <1>8, CopyOutInv
<1>9. CASE ReadEnd
  BY <1>9, ReadEndInv
<1>10. CASE lwrb_reset
  BY <1>10, ResetInv
<1>11. CASE UNCHANGED ring
  BY <1>11 DEF ring, writer, reader, IInv, RingTypeOK, WriterInv, ReaderInv, full, free,
     lwrb_get_full, lwrb_get_free, Wrap
<1> QED
  BY <1>1, <1>2, <1>3, <1>4, <1>5, <1>6, <1>7, <1>8, <1>9, <1>10, <1>11 DEF RingNext

\* Type correctness: the indices stay inside the buffer whatever the
\* interleaving.
THEOREM TypeCorrect == RingSpec => []RingTypeOK
<1>1. RingInit => IInv
  BY InitInv
<1>2. IInv /\ [RingNext]_ring => IInv'
  BY NextInv
<1>3. IInv => RingTypeOK
  BY DEF IInv
<1> QED
  BY <1>1, <1>2, <1>3, PTL DEF RingSpec

-----------------------------------------------------------------------------
\* The step-by-step refinement.
LEMMA QueueProp == ASSUME RingTypeOK
                   PROVE  /\ Queue \in Seq(Byte) /\ Len(Queue) = full
                          /\ \A i \in 1 .. full : Queue[i] = buff[Wrap(r + i - 1)]
<1>1. full \in 0 .. Size - 1 /\ full \in Nat
  BY FullFree, RingAssumption DEF RingTypeOK
<1>2. ASSUME NEW i \in 1 .. full
      PROVE  buff[Wrap(r + i - 1)] \in Byte
  <2>1. r + i - 1 = r + (i - 1) /\ i - 1 \in 0 .. Size
    BY <1>1, RingAssumption DEF RingTypeOK, Index
  <2> QED
    BY <2>1, WrapType DEF RingTypeOK
<1> QED
  BY <1>1, <1>2 DEF Queue, full

LEMMA InitRefines == RingInit => Abstract!Init
  BY RingAssumption DEF RingInit, Abstract!Init, Queue, lwrb_get_full

\* While neither index moves and the bytes between them stay, so does the
\* abstract queue.
LEMMA QueueStays ==
  ASSUME RingTypeOK, w' = w, r' = r,
         \A i \in 1 .. full : buff'[Wrap(r + i - 1)] = buff[Wrap(r + i - 1)]
  PROVE  Queue' = Queue
<1>1. lwrb_get_full' = lwrb_get_full
  BY DEF lwrb_get_full
<1>2. \A i \in 1 .. full : buff'[Wrap(r' + i - 1)] = buff[Wrap(r + i - 1)]
  OBVIOUS
<1> QED
  BY <1>1, <1>2 DEF Queue, full, Wrap

LEMMA WriteEndRefines == ASSUME IInv, WriteEnd
                         PROVE  Abstract!Write
<1>1. RingTypeOK /\ RingTypeOK'
  BY WriteEndInv DEF IInv
<1>2. /\ w \in Index /\ r \in Index /\ block \in Seq(Byte) /\ copied = Len(block)
      /\ UNCHANGED <<buff, reader>> /\ block' = <<>> /\ r' = r
  BY DEF IInv, RingTypeOK, WriteEnd, reader
<1>3. full \in 0 .. Size - 1 /\ w = Wrap(r + full) /\ Len(block) <= Size - 1 - full
      /\ full' = full + Len(block)
  BY <1>2, FullFree, WriteEndInv DEF IInv, WriterInv
<1>4. Len(block) \in Nat /\ full \in Nat /\ Size \in Nat /\ r \in Nat
  BY <1>2, <1>3, RingAssumption DEF Index
<1>5. ASSUME NEW i \in 1 .. full + Len(block)
      PROVE  buff'[Wrap(r' + i - 1)] = IF i <= Len(Queue) THEN Queue[i]
                                       ELSE block[i - Len(Queue)]
  <2> i <= full \/ i > full
    BY <1>4
  <2>1. CASE i <= full
    BY <1>1, <1>2, <1>4, <2>1, QueueProp
  <2>2. CASE i > full
    <3>1. i - full \in 1 .. Len(block) /\ i - full - 1 \in Nat
      BY <1>4, <2>2
    <3>2. block[i - full] = buff[Wrap(w + (i - full) - 1)]
      BY <1>2, <3>1 DEF IInv, WriterInv
    <3>3. w + (i - full) - 1 = Wrap(r + full) + (i - full - 1)
          /\ full + (i - full - 1) <= Size /\ r + full + (i - full - 1) = r + i - 1
      BY <1>2, <1>3, <1>4, <3>1 DEF Index
    <3>4. Wrap(w + (i - full) - 1) = Wrap(r + i - 1)
      BY <1>2, <1>4, <3>1, <3>3, WrapSum
    <3>5. buff' = buff /\ r' = r /\ Len(Queue) = full
      BY <1>1, <1>2, QueueProp
    <3>6. buff'[Wrap(r' + i - 1)] = block[i - full]
      BY <3>2, <3>4, <3>5
    <3> QED
      BY <1>4, <2>2, <3>5, <3>6
  <2> QED
    BY <2>1, <2>2
<1>6. Len(Queue) = full /\ lwrb_get_full' = full + Len(block)
  BY <1>1, <1>3, QueueProp DEF full
<1>7. Queue' = Abstract!Join(Queue, block)
  BY <1>5, <1>6 DEF Queue, Abstract!Join, Wrap
<1> QED
  BY <1>2, <1>7 DEF Abstract!Write, reader

\* What remains of the queue when r has moved over n bytes.
LEMMA Dequeued ==
  ASSUME RingTypeOK, NEW n \in Nat, n <= full, r' = Wrap(r + n), UNCHANGED writer,
         full' = full - n
  PROVE  Queue' = Abstract!Rest(Queue, n)
<1>1. /\ w \in Index /\ r \in Index /\ full \in 0 .. Size - 1 /\ buff' = buff
      /\ Len(Queue) = full /\ r \in Nat /\ full \in Nat /\ Size \in Nat
  BY FullFree, QueueProp, RingAssumption DEF RingTypeOK, writer, Index
<1>2. ASSUME NEW i \in 1 .. full - n
      PROVE  buff'[Wrap(r' + i - 1)] = Queue[i + n]
  <2>1. i - 1 \in Nat /\ n + (i - 1) <= Size /\ i + n \in 1 .. full
        /\ Wrap(r + n) + i - 1 = Wrap(r + n) + (i - 1)
        /\ r + n + (i - 1) = r + (i + n) - 1
    BY <1>1 DEF Wrap
  <2>2. Wrap(r' + i - 1) = Wrap(r + (i + n) - 1)
    BY <1>1, <2>1, WrapSum
  <2> QED
    BY <1>1, <2>1, <2>2, QueueProp
<1>3. lwrb_get_full' = Len(Queue) - n
  BY <1>1 DEF full
<1> QED
  BY <1>1, <1>2, <1>3 DEF Queue, Abstract!Rest, Wrap

\* What the reader has copied when it is done: bytes of the queue, in order.
LEMMA TakenIsQueue ==
  ASSUME IInv, want > 0, Len(taken) = want
  PROVE  /\ want \in 1 .. Len(Queue) - skip /\ skip \in 0 .. Len(Queue)
         /\ ~ keep => want \in 1 .. Len(Queue)
         /\ taken = Abstract!Leading(Abstract!Rest(Queue, skip), want)
         /\ ~ keep => taken = Abstract!Leading(Queue, want)
<1>1. /\ taken \in Seq(Byte) /\ want \in Nat /\ skip \in Nat /\ skip + want <= full
      /\ full \in Nat /\ Len(Queue) = full /\ r \in Nat
  BY FullFree, QueueProp, RingAssumption DEF IInv, RingTypeOK, ReaderInv, Index
<1>2. ASSUME NEW i \in 1 .. want
      PROVE  taken[i] = Queue[i + skip] /\ i \in 1 .. Len(Queue) - skip
  <2>1. i + skip \in 1 .. full /\ r + skip + i - 1 = r + (i + skip) - 1
        /\ i \in 1 .. Len(Queue) - skip
    BY <1>1
  <2>2. taken[i] = buff[Wrap(r + (i + skip) - 1)]
    BY <2>1 DEF IInv, ReaderInv
  <2> QED
    BY <2>1, <2>2, QueueProp DEF IInv
<1>3. taken = [i \in 1 .. want |-> taken[i]]
  BY <1>1
<1>4. taken = Abstract!Leading(Abstract!Rest(Queue, skip), want)
  BY <1>2, <1>3 DEF Abstract!Leading, Abstract!Rest
<1>5. ~ keep => taken = Abstract!Leading(Queue, want)
  BY <1>1, <1>2, <1>3 DEF Abstract!Leading, IInv, ReaderInv
<1> QED
  BY <1>1, <1>4, <1>5 DEF IInv, ReaderInv

LEMMA ReadEndRefines == ASSUME IInv, ReadEnd
                        PROVE  Abstract!Read \/ Abstract!Peek
<1>1. /\ want > 0 /\ Len(taken) = want /\ last' = taken /\ UNCHANGED writer
      /\ RingTypeOK /\ want \in Nat /\ want <= full
  BY FullFree DEF ReadEnd, IInv, RingTypeOK, ReaderInv
<1>2. CASE keep
  <2>1. r' = r /\ w' = w /\ buff' = buff /\ block' = block
    BY <1>1, <1>2 DEF ReadEnd, writer
  <2>2. Queue' = Queue
    BY <1>1, <2>1, QueueStays
  <2> QED
    BY <1>1, <2>1, <2>2, TakenIsQueue DEF Abstract!Peek
<1>3. CASE ~ keep
  <2>1. r' = Wrap(r + want) /\ full' = full - want
    BY <1>3, ReadEndInv DEF ReadEnd
  <2>2. Queue' = Abstract!Rest(Queue, want)
    BY <1>1, <2>1, Dequeued
  <2> QED
    BY <1>1, <1>3, <2>2, TakenIsQueue DEF Abstract!Read, writer
<1> QED
  BY <1>2, <1>3

LEMMA SkipRefines == ASSUME IInv, NEW n \in 1 .. Size, lwrb_skip(n)
                     PROVE  Abstract!Skip
<1> DEFINE m == Smaller(n, full)
<1>1. m \in 1 .. full /\ full' = full - m /\ RingTypeOK
  BY SkipInv DEF IInv
<1>2. r' = Wrap(r + m) /\ UNCHANGED writer /\ last' = last
  BY DEF lwrb_skip, full
<1>3. full \in Nat
  BY <1>1, FullFree, RingAssumption DEF RingTypeOK
<1>4. m \in Nat /\ m <= full /\ Len(Queue) = full
  BY <1>1, <1>3, QueueProp
<1> HIDE DEF m
<1>5. Queue' = Abstract!Rest(Queue, m)
  BY <1>1, <1>2, <1>4, Dequeued
<1> QED
  BY <1>1, <1>2, <1>4, <1>5 DEF Abstract!Skip, writer

LEMMA GiveRefines ==
  ASSUME IInv, NEW s \in Chunk,
         WriteLinear(s) \/ \E all \in BOOLEAN : lwrb_write_ex(s, all)
  PROVE  Abstract!Give
<1>1. block = <<>> /\ UNCHANGED <<buff, w, reader>> /\ RingTypeOK /\ r' = r /\ last' = last
  BY DEF WriteLinear, lwrb_write_ex, IInv, reader
<1>2. Queue' = Queue
  BY <1>1, QueueStays
<1>3. Len(block') <= free' /\ free' = free /\ block' \in Seq(Byte)
  BY <1>1, WriteBeginInv DEF IInv, RingTypeOK, WriterInv, free, lwrb_get_free
<1>4. full \in Nat /\ free = Size - 1 - full /\ Len(Queue) = full
  BY <1>1, FullFree, QueueProp, RingAssumption DEF RingTypeOK
<1>5. Len(Queue) + Len(block') <= Size - 1
  BY <1>3, <1>4, RingAssumption
<1> QED
  BY <1>1, <1>2, <1>5 DEF Abstract!Give

LEMMA NextRefines ==
  ASSUME IInv, [RingNext]_ring
  PROVE  [Abstract!Next]_<<Queue, block, last>>
<1>0. RingTypeOK
  BY DEF IInv
<1>1. CASE \E s \in Chunk :
             s # <<>> /\ (WriteLinear(s) \/ \E all \in BOOLEAN : lwrb_write_ex(s, all))
  BY <1>1, GiveRefines DEF Abstract!Next
<1>2. CASE CopyIn
  BY <1>0, <1>2, CopyInApart, QueueStays DEF CopyIn, reader
<1>3. CASE WriteEnd
  BY <1>3, WriteEndRefines DEF Abstract!Next
<1>4. ASSUME buff' = buff, w' = w, r' = r, block' = block, last' = last
      PROVE  UNCHANGED <<Queue, block, last>>
  BY <1>0, <1>4, QueueStays
<1>5. CASE ReadLinear
  BY <1>4, <1>5 DEF ReadLinear, ReadBegin, writer
<1>6. ASSUME NEW n \in 1 .. Size, NEW all \in BOOLEAN, lwrb_read_ex(n, all)
      PROVE  UNCHANGED <<Queue, block, last>>
  BY <1>4, <1>6 DEF lwrb_read_ex, ReadBegin, writer
<1>7. ASSUME NEW n \in 1 .. Size, NEW from \in 0 .. Size, lwrb_peek(n, from)
      PROVE  UNCHANGED <<Queue, block, last>>
  BY <1>4, <1>7 DEF lwrb_peek, ReadBegin, writer
<1>8. ASSUME NEW n \in 1 .. Size, lwrb_skip(n)
      PROVE  Abstract!Next
  BY <1>8, SkipRefines DEF Abstract!Next
<1>9. CASE CopyOut
  BY <1>4, <1>9 DEF CopyOut, writer
<1>10. CASE ReadEnd
  BY <1>10, ReadEndRefines DEF Abstract!Next
<1>11. CASE lwrb_reset
  <2>1. full' = 0 /\ block' = block /\ last' = last
    BY <1>11, ResetInv DEF lwrb_reset
  <2>2. Queue' = <<>>
    BY <2>1 DEF Queue, full
  <2> QED
    BY <2>1, <2>2 DEF Abstract!Next, Abstract!Reset
<1>12. CASE UNCHANGED ring
  BY <1>4, <1>12 DEF ring, writer, reader
<1> QED
  BY <1>1, <1>2, <1>3, <1>5, <1>6, <1>7, <1>8, <1>9, <1>10, <1>11, <1>12 DEF RingNext

\* Refinement: however the interrupt that writes and the thread that reads
\* preempt each other inside lwrb_write_ex and lwrb_read_ex, the ring buffer is
\* a queue of bytes, for every size of it.
THEOREM Implements == RingSpec => ImplementsPipe
<1>1. RingInit => Abstract!Init
  BY InitRefines
<1>2. RingInit => IInv
  BY InitInv
<1>3. IInv /\ [RingNext]_ring => IInv' /\ [Abstract!Next]_<<Queue, block, last>>
  BY NextInv, NextRefines
<1> QED
  BY <1>1, <1>2, <1>3, PTL DEF RingSpec, ImplementsPipe, Abstract!Spec

-----------------------------------------------------------------------------
(* The input of the shell *)

LEMMA LeastOf ==
  ASSUME NEW S \in SUBSET Nat, S # {}
  PROVE  \E n \in S : \A m \in S : n <= m
<1>1. PICK p \in S : \A q \in S : ~(<<q, p>> \in OpToRel(<, Nat))
  BY NatLessThanWellFounded, WFMin
<1>2. ASSUME NEW q \in S PROVE p <= q
  <2>1. ~(q < p)
    BY <1>1 DEF OpToRel
  <2> QED
    BY <2>1
<1> QED
  BY <1>2

Fifo == [buffer : [Cells -> 0 .. MaxBytes], put : Cells, get : Cells, full : BOOLEAN]

\* What InputServed says of the fifo f when a bytes have arrived; and only a fifo
\* that holds all it can is marked as full.
Newest(f, a) ==
  /\ \A i \in 1 .. rx_length(f) : f.buffer[Place(f.get + i - 1)] = a - rx_length(f) + i
  /\ a - rx_length(f) >= got
  /\ a - rx_length(f) = got \/ f.full
  /\ f.full => rx_length(f) = BufSz - 1

Length(put, get) == IF put >= get THEN put - get ELSE BufSz - (get - put)

LEMMA LengthFacts ==
  ASSUME NEW p \in Cells, NEW g \in Cells
  PROVE  /\ Length(p, g) \in 0 .. BufSz - 1
         /\ p = Place(g + Length(p, g))
         /\ Length(p, g) = 0 <=> g = p
         /\ After(p) \in Cells
         /\ IF After(p) = g
            THEN Length(p, g) = BufSz - 1 /\ Length(After(p), After(g)) = BufSz - 1
            ELSE Length(p, g) < BufSz - 1 /\ Length(After(p), g) = Length(p, g) + 1
BY ConsoleAssumption DEF Cells, Length, Place, After

LEMMA PlaceFacts ==
  ASSUME NEW x \in Cells, NEW m \in 0 .. BufSz - 1, NEW n \in 0 .. BufSz - 1
  PROVE  /\ Place(x + m) \in Cells
         /\ Place(x + m) = Place(x + n) => m = n
         /\ Place(After(x) + m) = Place(x + (m + 1))
BY ConsoleAssumption DEF Cells, Place, After

\* A byte goes behind the newest one, in the place of the oldest if need be.
LEMMA PutByteKeeps ==
  ASSUME NEW f \in Fifo, NEW a \in Nat, a + 1 <= MaxBytes, Newest(f, a), got \in Nat
  PROVE  /\ PutByte(f, a + 1) \in Fifo /\ Newest(PutByte(f, a + 1), a + 1)
         /\ rx_length(PutByte(f, a + 1)) > 0
<1>1. PICK p \in Cells, q \in Cells, n \in 0 .. BufSz - 1 :
        p = f.put /\ q = f.get /\ n = rx_length(f) /\ n = Length(p, q)
  <2>1. f.put \in Cells /\ f.get \in Cells /\ rx_length(f) = Length(f.put, f.get)
    BY DEF Fifo, rx_length, Length
  <2> QED
    BY <2>1, LengthFacts
<1>2. /\ BufSz \in Nat /\ BufSz >= 2 /\ MaxBytes \in Nat /\ p = Place(q + n)
      /\ f.buffer \in [Cells -> 0 .. MaxBytes] /\ f.full \in BOOLEAN
  BY <1>1, ConsoleAssumption, LengthFacts DEF Fifo
<1>3. PICK g : g = PutByte(f, a + 1)
  OBVIOUS
<1>4. /\ g.buffer = [f.buffer EXCEPT ![p] = a + 1] /\ g.put = After(p)
      /\ g.get = (IF After(p) = q THEN After(q) ELSE q)
      /\ g.full = (f.full \/ After(p) = q)
      /\ g = [buffer |-> g.buffer, put |-> g.put, get |-> g.get, full |-> g.full]
  BY <1>1, <1>3 DEF PutByte
<1>5. /\ g.buffer[p] = a + 1
      /\ \A x \in Cells : x # p => g.buffer[x] = f.buffer[x]
      /\ g.buffer \in [Cells -> 0 .. MaxBytes]
  BY <1>2, <1>4
<1>6. g \in Fifo
  <2>1. g.put \in Cells /\ g.get \in Cells /\ g.full \in BOOLEAN
    BY <1>2, <1>4, LengthFacts
  <2> QED
    BY <1>4, <1>5, <2>1 DEF Fifo
<1>7. /\ \A i \in 1 .. n : f.buffer[Place(q + i - 1)] = a - n + i
      /\ a - n >= got /\ (a - n = got \/ f.full) /\ (f.full => n = BufSz - 1)
  BY <1>1 DEF Newest
<1>8. PICK m \in 0 .. BufSz - 1 : m = rx_length(g) /\ m = Length(g.put, g.get)
  <2>1. g.put \in Cells /\ g.get \in Cells /\ rx_length(g) = Length(g.put, g.get)
    BY <1>6 DEF Fifo, rx_length, Length
  <2> QED
    BY <2>1, LengthFacts
<1>9. CASE After(p) = q
  <2>1. n = BufSz - 1 /\ m = BufSz - 1 /\ g.get = After(q) /\ g.full
    <3>1. Length(p, q) = BufSz - 1 /\ Length(After(p), After(q)) = BufSz - 1
      BY <1>9, LengthFacts
    <3> QED
      BY <1>1, <1>4, <1>8, <1>9, <3>1
  <2>2. ASSUME NEW i \in 1 .. m
        PROVE  g.buffer[Place(g.get + i - 1)] = a + 1 - m + i
    <3>1. i - 1 \in 0 .. BufSz - 1 /\ i \in 0 .. BufSz - 1 /\ q \in Nat /\ After(q) \in Nat
      <4>1. After(q) \in Cells /\ q \in Cells
        BY LengthFacts
      <4> QED
        BY <1>2, <2>1, <4>1 DEF Cells
    <3>2. Place(After(q) + (i - 1)) = Place(q + ((i - 1) + 1))
      BY <3>1, PlaceFacts
    <3>3. Place(g.get + i - 1) = Place(q + i)
      <4>1. g.get + i - 1 = After(q) + (i - 1) /\ q + ((i - 1) + 1) = q + i
        BY <2>1, <3>1
      <4> QED
        BY <3>2, <4>1
    <3>4. Place(q + i) \in Cells /\ (Place(q + i) = p => i = n)
      BY <1>2, <3>1, PlaceFacts
    <3>5. CASE i = n
      BY <1>2, <1>5, <2>1, <3>3, <3>5
    <3>6. CASE i # n
      <4>1. i + 1 \in 1 .. n /\ q + (i + 1) - 1 = q + i
        BY <1>2, <2>1, <3>1, <3>6
      <4>2. f.buffer[Place(q + i)] = a - n + (i + 1)
        BY <1>7, <4>1
      <4> QED
        <5>1. PICK x \in Cells : x = Place(q + i)
          BY <3>4
        <5>2. g.buffer[x] = f.buffer[x] /\ f.buffer[x] = a - n + (i + 1)
          BY <1>5, <3>4, <3>6, <4>2, <5>1
        <5>3. a - n + (i + 1) = a + 1 - m + i
          BY <1>2, <2>1, <3>1
        <5> QED
          BY <3>3, <5>1, <5>2, <5>3
    <3> QED
      BY <3>5, <3>6
  <2>3. a + 1 - m >= got
    BY <1>2, <1>7, <2>1
  <2>4. Newest(g, a + 1)
    BY <1>8, <2>1, <2>2, <2>3 DEF Newest
  <2> QED
    BY <1>2, <1>3, <1>6, <1>8, <2>1, <2>4
<1>10. CASE After(p) # q
  <2>1. n < BufSz - 1 /\ m = n + 1 /\ g.get = q
    BY <1>1, <1>4, <1>8, <1>10, LengthFacts
  <2>2. ~f.full /\ ~g.full
    BY <1>2, <1>4, <1>7, <1>10, <2>1
  <2>3. ASSUME NEW i \in 1 .. m
        PROVE  g.buffer[Place(g.get + i - 1)] = a + 1 - m + i
    <3>1. i - 1 \in 0 .. BufSz - 1 /\ q \in Nat /\ i \in Nat /\ n \in Nat
      BY <1>2, <2>1 DEF Cells
    <3>2. /\ g.get + i - 1 = q + (i - 1) /\ q + i - 1 = q + (i - 1)
      BY <2>1, <3>1
    <3>3. Place(q + (i - 1)) \in Cells /\ (Place(q + (i - 1)) = p => i - 1 = n)
      BY <1>2, <3>1, PlaceFacts
    <3>4. CASE i - 1 = n
      BY <1>2, <1>5, <2>1, <3>1, <3>2, <3>4
    <3>5. CASE i - 1 # n
      <4>1. i \in 1 .. n
        BY <2>1, <3>1, <3>5
      <4>2. f.buffer[Place(q + (i - 1))] = a - n + i
        BY <1>7, <3>2, <4>1
      <4> QED
        <5>1. PICK x \in Cells : x = Place(q + (i - 1))
          BY <3>3
        <5>2. g.buffer[x] = f.buffer[x] /\ f.buffer[x] = a - n + i
          BY <1>5, <3>3, <3>5, <4>2, <5>1
        <5>3. a - n + i = a + 1 - m + i
          BY <1>2, <2>1, <3>1
        <5> QED
          BY <3>2, <5>1, <5>2, <5>3
    <3> QED
      BY <3>4, <3>5
  <2>4. a + 1 - m >= got /\ a + 1 - m = got
    BY <1>2, <1>7, <2>1, <2>2
  <2>5. Newest(g, a + 1)
    BY <1>8, <2>2, <2>3, <2>4 DEF Newest
  <2> QED
    BY <1>2, <1>3, <1>6, <1>8, <2>1, <2>5
<1> QED
  BY <1>9, <1>10

\* The fifos after 0 .. n bytes.
IsPut(p, f, a, n) ==
  p = [i \in 0 .. n |-> IF i = 0 THEN f ELSE PutByte(p[i - 1], a + i)]

LEMMA PutExists ==
  ASSUME NEW f, NEW a, NEW n \in Nat
  PROVE  \E p : IsPut(p, f, a, n)
<1> DEFINE Bad == {m \in Nat : ~\E p : IsPut(p, f, a, m)}
<1>1. SUFFICES ASSUME Bad # {} PROVE FALSE
  OBVIOUS
<1>2. PICK m \in Bad : \A i \in Bad : m <= i
  BY <1>1, LeastOf
<1> HIDE DEF Bad
<1>3. m \in Nat /\ ~\E p : IsPut(p, f, a, m)
  BY DEF Bad
<1>4. m # 0
  <2> DEFINE g == [i \in 0 .. 0 |-> f]
  <2>1. g = [i \in 0 .. 0 |-> IF i = 0 THEN f ELSE PutByte(g[i - 1], a + i)]
    OBVIOUS
  <2> HIDE DEF g
  <2>2. IsPut(g, f, a, 0)
    BY <2>1 DEF IsPut
  <2> QED
    BY <2>2, <1>3
<1>5. m - 1 \in Nat /\ m - 1 \notin Bad
  BY <1>2, <1>3, <1>4
<1>6. PICK p : IsPut(p, f, a, m - 1)
  BY <1>5 DEF Bad
<1> DEFINE g == [i \in 0 .. m |-> IF i = m THEN PutByte(p[m - 1], a + m) ELSE p[i]]
           h == [i \in 0 .. m |-> IF i = 0 THEN f ELSE PutByte(g[i - 1], a + i)]
<1>7. ASSUME NEW i \in 0 .. m PROVE g[i] = h[i]
  <2>1. CASE i = m
    <3>1. g[i] = PutByte(p[m - 1], a + m)
      BY <2>1
    <3>2. h[i] = PutByte(g[m - 1], a + m)
      BY <2>1, <1>4
    <3>3. m - 1 \in 0 .. m /\ m - 1 # m
      BY <1>3, <1>4
    <3>4. g[m - 1] = p[m - 1]
      BY <3>3
    <3> HIDE DEF g, h
    <3> QED
      BY <3>1, <3>2, <3>4, <2>1
  <2>2. CASE i # m
    <3>1. i \in 0 .. m - 1 /\ g[i] = p[i]
      BY <2>2, <1>3
    <3>2. p[i] = IF i = 0 THEN f ELSE PutByte(p[i - 1], a + i)
      BY <3>1, <1>6 DEF IsPut
    <3>3. i # 0 => g[i - 1] = p[i - 1]
      BY <3>1, <1>3
    <3>4. h[i] = IF i = 0 THEN f ELSE PutByte(g[i - 1], a + i)
      OBVIOUS
    <3> HIDE DEF g, h
    <3> QED
      BY <3>1, <3>2, <3>3, <3>4
  <2> QED
    BY <2>1, <2>2
<1>8. g = h
  <2>1. g = [i \in 0 .. m |-> g[i]] /\ h = [i \in 0 .. m |-> h[i]]
    OBVIOUS
  <2> HIDE DEF g, h
  <2> QED
    BY <2>1, <1>7
<1>9. IsPut(g, f, a, m)
  <2>1. g = [i \in 0 .. m |-> IF i = 0 THEN f ELSE PutByte(g[i - 1], a + i)]
    BY <1>8, Zenon DEF h
  <2> HIDE DEF g
  <2> QED
    BY <2>1, Zenon DEF IsPut
<1> QED
  BY <1>3, <1>9

Fifo0 == [buffer |-> buffer, put |-> put_index, get |-> get_index, full |-> is_full]

LEMMA PutKeeps ==
  ASSUME NEW n \in Nat \ {0}, Fifo0 \in Fifo, arrived \in Nat, got \in Nat,
         arrived + n <= MaxBytes, Newest(Fifo0, arrived)
  PROVE  /\ Put[n] \in Fifo /\ Newest(Put[n], arrived + n)
         /\ rx_length(Put[n]) > 0
<1>1. MaxBytes \in Nat
  BY ConsoleAssumption
<1>2. IsPut(Put, Fifo0, arrived, MaxBytes)
  <2> DEFINE g == CHOOSE p : IsPut(p, Fifo0, arrived, MaxBytes)
  <2>1. IsPut(g, Fifo0, arrived, MaxBytes)
    BY <1>1, PutExists
  <2>2. Put = g
    BY DEF IsPut, Put, Fifo0
  <2> HIDE DEF g
  <2> QED
    BY <2>1, <2>2
<1> DEFINE Fine(i) == /\ Put[i] \in Fifo /\ Newest(Put[i], arrived + i)
                      /\ (i > 0 => rx_length(Put[i]) > 0)
           Bad == {i \in 0 .. n : ~Fine(i)}
<1>3. Bad = {}
  <2>1. SUFFICES ASSUME Bad # {} PROVE FALSE
    OBVIOUS
  <2>2. PICK i \in Bad : \A j \in Bad : i <= j
    <3>1. Bad \in SUBSET Nat
      OBVIOUS
    <3> HIDE DEF Bad
    <3> QED
      BY <2>1, <3>1, LeastOf
  <2>3. i \in 0 .. n /\ ~Fine(i) /\ i \in 0 .. MaxBytes
    BY <1>1
  <2>4. Put[i] = IF i = 0 THEN Fifo0 ELSE PutByte(Put[i - 1], arrived + i)
    BY <1>2, <2>3, Zenon DEF IsPut
  <2>5. CASE i = 0
    <3>1. Put[i] = Fifo0 /\ arrived + i = arrived
      BY <2>4, <2>5
    <3> QED
      BY <2>3, <2>5, <3>1
  <2>6. CASE i # 0
    <3>1. i - 1 \in 0 .. n /\ i - 1 \notin Bad
      BY <2>2, <2>3, <2>6
    <3>2. Fine(i - 1)
      BY <3>1
    <3>3. PICK a \in Nat : a = arrived + (i - 1)
      BY <2>3, <3>1
    <3>4. a + 1 = arrived + i /\ a + 1 <= MaxBytes
      BY <1>1, <2>3, <3>3
    <3>5. PICK f : f = Put[i - 1]
      OBVIOUS
    <3>6. f \in Fifo /\ Newest(f, a) /\ Put[i] = PutByte(f, a + 1)
      BY <2>4, <2>6, <3>2, <3>3, <3>4, <3>5
    <3>7. /\ PutByte(f, a + 1) \in Fifo /\ Newest(PutByte(f, a + 1), a + 1)
          /\ rx_length(PutByte(f, a + 1)) > 0
      BY <3>4, <3>6, PutByteKeeps
    <3> HIDE DEF Bad
    <3> QED
      BY <2>3, <3>4, <3>6, <3>7
  <2> QED
    BY <2>5, <2>6
<1>4. Fine(n)
  <2>1. n \in 0 .. n
    OBVIOUS
  <2> HIDE DEF Fine
  <2> QED
    BY <1>3, <2>1
<1> QED
  BY <1>4

-----------------------------------------------------------------------------
\* What the fifo holds, and that a shell which found nothing will be woken for what
\* came since.
ConsoleInv ==
  /\ ConsoleTyped
  /\ Newest(Fifo0, arrived)
  /\ shell = "take" /\ rx_length(Fifo0) > 0 => rx_sem > 0
  /\ shell = "wait" => rx_length(Fifo0) = 0

LEMMA FifoFacts ==
  ASSUME ConsoleTyped
  PROVE  /\ Fifo0 \in Fifo /\ arrived \in Nat /\ got \in Nat /\ arrived <= MaxBytes
         /\ rx_length(Fifo0) = Length(put_index, get_index)
         /\ BufSz \in Nat /\ BufSz >= 2 /\ MaxBytes \in Nat /\ MaxTokens \in Nat /\ MaxTokens >= 1
BY ConsoleAssumption DEF ConsoleTyped, Fifo0, Fifo, rx_length, Length

LEMMA ConsoleInitInv == ConsoleInit => ConsoleInv
<1> SUFFICES ASSUME ConsoleInit PROVE ConsoleInv
  OBVIOUS
<1>1. ConsoleTyped
  <2>1. 0 \in Cells /\ 0 \in 0 .. MaxBytes /\ 0 \in 0 .. MaxTokens /\ 0 \in 0 .. 0
    BY ConsoleAssumption DEF Cells
  <2>2. buffer \in [Cells -> 0 .. MaxBytes]
    BY <2>1 DEF ConsoleInit
  <2> QED
    BY <2>1, <2>2 DEF ConsoleInit, ConsoleTyped
<1>2. rx_length(Fifo0) = 0
  BY ConsoleAssumption DEF ConsoleInit, Fifo0, rx_length
<1>3. Newest(Fifo0, arrived)
  BY <1>2, FifoFacts, <1>1 DEF ConsoleInit, Newest, Fifo0
<1> QED
  BY <1>1, <1>2, <1>3 DEF ConsoleInit, ConsoleInv

LEMMA IsrKeeps ==
  ASSUME ConsoleInv, NEW n \in 1 .. BufSz + 1, arrived + n <= MaxBytes, rt_hw_serial_isr(n)
  PROVE  ConsoleInv'
<1>1. /\ ConsoleTyped /\ Fifo0 \in Fifo /\ arrived \in Nat /\ got \in Nat
      /\ MaxTokens \in Nat /\ MaxTokens >= 1 /\ n \in Nat \ {0} /\ MaxBytes \in Nat
  BY FifoFacts DEF ConsoleInv
<1>2. PICK f : f = Put[n]
  OBVIOUS
<1>3. f \in Fifo /\ Newest(f, arrived + n) /\ rx_length(f) > 0
  BY <1>1, <1>2, PutKeeps DEF ConsoleInv
<1>4. /\ arrived' = arrived + n /\ got' = got
      /\ buffer' = f.buffer /\ put_index' = f.put /\ get_index' = f.get /\ is_full' = f.full
      /\ \/ shell = "wait" /\ shell' = "read" /\ rx_sem' = rx_sem
         \/ /\ shell # "wait" /\ shell' = shell
            /\ rx_sem' = IF rx_sem < MaxTokens THEN rx_sem + 1 ELSE rx_sem
  BY <1>2, <1>3 DEF rt_hw_serial_isr
<1>5. f.buffer \in [Cells -> 0 .. MaxBytes] /\ f.put \in Cells /\ f.get \in Cells /\ f.full \in BOOLEAN
  BY <1>3 DEF Fifo
<1>6. Fifo0' = f
  BY <1>3, <1>4 DEF Fifo0, Fifo
<1>7. ConsoleTyped'
  BY <1>1, <1>4, <1>5 DEF ConsoleTyped
<1>8. Newest(Fifo0, arrived)'
  BY <1>3, <1>4, <1>6 DEF Newest, rx_length, Place
<1>9. shell' # "wait" /\ (shell' = "take" => rx_sem' > 0)
  BY <1>1, <1>4 DEF ConsoleTyped
<1> QED
  BY <1>7, <1>8, <1>9 DEF ConsoleInv

\* The oldest byte is the next after the one that was read last.
LEMMA ReadByteKeeps ==
  ASSUME ConsoleInv, ReadByte
  PROVE  ConsoleInv'
<1>1. /\ ConsoleTyped /\ Fifo0 \in Fifo /\ arrived \in Nat /\ got \in Nat
      /\ BufSz \in Nat /\ BufSz >= 2 /\ rx_length(Fifo0) = Length(put_index, get_index)
  BY FifoFacts DEF ConsoleInv
<1>2. PICK p \in Cells, q \in Cells, n \in 0 .. BufSz - 1 :
        p = put_index /\ q = get_index /\ n = Length(p, q)
  BY <1>1, LengthFacts DEF ConsoleTyped
<1>3. /\ \A i \in 1 .. n : buffer[Place(q + i - 1)] = arrived - n + i
      /\ arrived - n >= got /\ (arrived - n = got \/ is_full)
      /\ is_full => n = BufSz - 1
  BY <1>1, <1>2 DEF ConsoleInv, Newest, Fifo0
<1>4. n > 0 /\ q \in Nat /\ q < BufSz
  <2>1. q = p => is_full
    BY <1>2 DEF ReadByte
  <2>2. n = 0 <=> q = p
    BY <1>2, LengthFacts
  <2> QED
    BY <1>1, <1>2, <1>3, <2>1, <2>2 DEF Cells
<1>5. /\ got' = buffer[q] /\ get_index' = After(q) /\ is_full' = FALSE
      /\ buffer' = buffer /\ put_index' = put_index /\ rx_sem' = rx_sem
      /\ shell = "read" /\ shell' = "read" /\ arrived' = arrived
  BY <1>2 DEF ReadByte
<1>6. got' = arrived - n + 1
  <2>1. Place(q + 1 - 1) = q
    BY <1>1, <1>4 DEF Place
  <2> QED
    BY <1>3, <1>4, <1>5, <2>1
<1>7. Length(p, After(q)) = n - 1 /\ After(q) \in Cells
  BY <1>1, <1>2, <1>4 DEF Length, After, Cells
<1>8. ConsoleTyped' /\ Fifo0' = [buffer |-> buffer, put |-> p, get |-> After(q), full |-> FALSE]
  <2>1. got' \in 0 .. arrived'
    BY <1>1, <1>2, <1>3, <1>4, <1>5, <1>6
  <2> QED
    BY <1>1, <1>2, <1>5, <1>7, <2>1 DEF ConsoleTyped, Fifo0
<1>9. rx_length(Fifo0)' = n - 1
  BY <1>7, <1>8 DEF rx_length, Length
<1>10. ASSUME NEW i \in 1 .. n - 1
       PROVE  buffer[Place(After(q) + i - 1)] = arrived - (n - 1) + i
  <2>1. /\ i - 1 \in 0 .. BufSz - 1 /\ i + 1 \in 1 .. n /\ After(q) \in Nat
        /\ n \in Nat /\ i \in Nat
    BY <1>1, <1>2, <1>7 DEF Cells
  <2>2. Place(After(q) + (i - 1)) = Place(q + ((i - 1) + 1))
    BY <1>1, <1>4, <2>1 DEF Place, After
  <2>3. /\ After(q) + i - 1 = After(q) + (i - 1) /\ q + ((i - 1) + 1) = q + (i + 1) - 1
        /\ arrived - n + (i + 1) = arrived - (n - 1) + i
    BY <1>1, <1>4, <2>1
  <2>4. buffer[Place(q + (i + 1) - 1)] = arrived - n + (i + 1)
    BY <1>3, <2>1
  <2> QED
    BY <2>2, <2>3, <2>4
<1>11. Newest(Fifo0, arrived)'
  <2>1. arrived' - (n - 1) >= got' /\ arrived' - (n - 1) = got'
    BY <1>1, <1>2, <1>5, <1>6
  <2>2. \A i \in 1 .. n - 1 : Fifo0'.buffer[Place(Fifo0'.get + i - 1)] = arrived' - (n - 1) + i
    BY <1>5, <1>8, <1>10
  <2>3. ~Fifo0'.full
    BY <1>8
  <2> QED
    BY <1>9, <2>1, <2>2, <2>3 DEF Newest, Place, rx_length
<1> QED
  BY <1>5, <1>8, <1>11 DEF ConsoleInv

LEMMA ShellKeeps ==
  ASSUME ConsoleInv, ReadNothing \/ Take
  PROVE  ConsoleInv'
<1>1. /\ ConsoleTyped /\ rx_length(Fifo0) = Length(put_index, get_index)
      /\ rx_length(Fifo0) \in Nat /\ MaxTokens \in Nat
      /\ (get_index = put_index => rx_length(Fifo0) = 0)
  <2>1. ConsoleTyped /\ rx_length(Fifo0) = Length(put_index, get_index) /\ MaxTokens \in Nat
        /\ put_index \in Cells /\ get_index \in Cells
    BY FifoFacts DEF ConsoleInv, ConsoleTyped
  <2> QED
    BY <2>1, ConsoleAssumption DEF Length, Cells
<1>2. UNCHANGED <<buffer, put_index, get_index, is_full, arrived, got>>
  BY DEF ReadNothing, Take, fifo
<1>3. /\ ConsoleTyped' /\ shell' \in {"take", "read", "wait"}
      /\ shell' = "take" => get_index = put_index
      /\ shell' = "wait" => shell = "take" /\ rx_sem = 0
  BY <1>1, <1>2 DEF ConsoleTyped, ReadNothing, Take
<1>4. Fifo0' = Fifo0
  BY <1>2 DEF Fifo0
<1>5. Newest(Fifo0, arrived)' /\ rx_length(Fifo0)' = rx_length(Fifo0)
  BY <1>2, <1>4 DEF ConsoleInv, Newest, rx_length, Place
<1> QED
  BY <1>1, <1>3, <1>5 DEF ConsoleInv

LEMMA ConsoleInvariant == ConsoleSpec => []ConsoleInv
<1>1. ConsoleInit => ConsoleInv
  BY ConsoleInitInv
<1>2. ConsoleInv /\ [ConsoleNext]_consoleVars => ConsoleInv'
  <2> SUFFICES ASSUME ConsoleInv, [ConsoleNext]_consoleVars PROVE ConsoleInv'
    OBVIOUS
  <2>1. CASE UNCHANGED consoleVars
    BY <2>1 DEF consoleVars, fifo, ConsoleInv, ConsoleTyped, Fifo0, Newest, rx_length, Place
  <2> QED
    BY <2>1, IsrKeeps, ReadByteKeeps, ShellKeeps DEF ConsoleNext, finsh_getchar
<1> QED
  BY <1>1, <1>2, PTL DEF ConsoleSpec

\* rt_hw_serial_isr and finsh_getchar, whatever bytes arrive between any two steps
\* of the shell: the newest bytes in order, none missing between two that are read
\* unless the fifo overflowed, and no wait beside a byte.
THEOREM ConsoleServes == ConsoleSpec => []InputServed
<1>1. ConsoleInv => InputServed
  <2> SUFFICES ASSUME ConsoleInv PROVE InputServed
    OBVIOUS
  <2>1. ConsoleTyped /\ Newest(Fifo0, arrived)
    BY DEF ConsoleInv
  <2>2. rx_length([put |-> put_index, get |-> get_index]) = rx_length(Fifo0)
    BY DEF rx_length, Fifo0
  <2> QED
    BY <2>1, <2>2 DEF ConsoleInv, InputServed, Newest, Fifo0
<1> QED
  BY <1>1, ConsoleInvariant, PTL

\* The indices of the fifo stay inside the buffer and the semaphore of the shell
\* within RT_SEM_VALUE_MAX.
THEOREM ConsoleTypes == ConsoleSpec => []ConsoleTyped
<1>1. ConsoleInv => ConsoleTyped
  BY DEF ConsoleInv
<1> QED
  BY <1>1, ConsoleInvariant, PTL

-----------------------------------------------------------------------------
(* The button *)

\* Clicks that were told while the button is down began the count again.
Shift == IF late THEN Interval + 1 ELSE 0

\* While the button is down the count is that of the scans, or it has been at its
\* limit and stays above Hold; clicks that wait to be told keep it small.
Timed ==
  status = "down" =>
    /\ \/ scan_cnt = held - Shift
       \/ scan_cnt >= Hold /\ held - Shift >= Hold
    /\ click_cnt > 0 => ~late /\ scan_cnt = held /\ scan_cnt <= Interval
    /\ click_cnt < MaxClicks

ButtonInv ==
  /\ ButtonTyped
  /\ Timed
  /\ untold = IF status = "default" THEN 0 ELSE click_cnt
  /\ status = "multiple" => click_cnt > 0
  /\ event[1] = "up" => /\ status = "default"
                        /\ event[2] = Grade(held - Shift)

LEMMA Thresholds ==
  /\ Interval \in Nat /\ Short \in Nat /\ Long \in Nat /\ Hold \in Nat /\ MaxScan \in Nat
  /\ Interval + 1 < Short /\ Short < Long /\ Long < Hold /\ Hold < MaxScan
  /\ MaxClicks \in Nat /\ MaxClicks > 0 /\ MaxHeld = MaxScan + Interval
BY ButtonAssumption DEF MaxHeld

\* The count of this scan.
LEMMA CountedFacts ==
  ASSUME ButtonInv
  PROVE  /\ Counted \in 0 .. MaxScan - 1 /\ Counted \in Nat
         /\ scan_cnt <= Interval => Counted = scan_cnt + 1
         /\ status = "down" /\ StillHeld /\ late' = late =>
              /\ held' \in 0 .. MaxHeld
              /\ \/ Counted = held' - Shift'
                 \/ Counted >= Hold /\ held' - Shift' >= Hold
              /\ click_cnt > 0 => Counted = held' /\ Counted = scan_cnt + 1
<1>1. /\ scan_cnt \in 0 .. MaxScan - 1 /\ held \in 0 .. MaxHeld /\ late \in BOOLEAN
      /\ click_cnt \in Nat /\ Shift \in 0 .. Interval + 1 /\ Timed
  BY Thresholds DEF ButtonInv, ButtonTyped, Shift
<1>2. /\ Counted \in 0 .. MaxScan - 1 /\ Counted \in Nat
      /\ scan_cnt <= Interval => Counted = scan_cnt + 1
      /\ Counted = scan_cnt + 1 \/ (Counted = Hold /\ scan_cnt = MaxScan - 1)
  BY <1>1, Thresholds DEF Counted
<1>3. ASSUME status = "down", StillHeld, late' = late
      PROVE  /\ held' \in 0 .. MaxHeld
             /\ \/ Counted = held' - Shift'
                \/ Counted >= Hold /\ held' - Shift' >= Hold
             /\ click_cnt > 0 => Counted = held' /\ Counted = scan_cnt + 1
  <2>1. Shift' = Shift /\ held' = IF held < MaxHeld THEN held + 1 ELSE held
    BY <1>3 DEF Shift, StillHeld
  <2>2. held' \in 0 .. MaxHeld /\ held' >= held
    BY <1>1, <2>1, Thresholds
  <2>3. CASE scan_cnt = held - Shift
    <3>1. click_cnt > 0 => scan_cnt = held /\ scan_cnt <= Interval
      BY <1>1, <1>3 DEF Timed
    <3>2. CASE Counted = scan_cnt + 1
      <4>1. held' = held + 1
        BY <1>1, <1>2, <2>1, <2>3, <3>2, Thresholds
      <4> QED
        BY <1>1, <2>1, <2>2, <2>3, <3>1, <3>2, <4>1, Thresholds
    <3>3. CASE Counted = Hold /\ scan_cnt = MaxScan - 1
      <4>1. ~(click_cnt > 0)
        BY <3>1, <3>3, Thresholds
      <4> QED
        BY <1>1, <2>1, <2>2, <2>3, <3>3, <4>1, Thresholds
    <3> QED
      BY <1>2, <3>2, <3>3
  <2>4. CASE scan_cnt >= Hold /\ held - Shift >= Hold
    <3>1. Counted >= Hold /\ held' - Shift' >= Hold
      BY <1>1, <1>2, <2>1, <2>2, <2>4, Thresholds
    <3>2. ~(click_cnt > 0)
      BY <1>1, <1>3, <2>4, Thresholds DEF Timed
    <3> QED
      BY <2>2, <3>1, <3>2
  <2> QED
    BY <1>1, <1>3, <2>3, <2>4 DEF Timed
<1> QED
  BY <1>2, <1>3

LEMMA GradeFacts ==
  ASSUME NEW n \in Nat
  PROVE  /\ Grade(n) # "click" => n > Interval + 1 /\ Grade(n) \in {"hold", "long", "short"}
         /\ n <= Interval + 1 => Grade(n) = "click"
         /\ n >= Hold => Grade(n) = "hold"
BY Thresholds DEF Grade

LEMMA EventFacts ==
  /\ <<"press", "none">> \in Events /\ <<"press", "down">> \in Events
  /\ \A g \in {"hold", "long", "short"} : <<"start", g>> \in Events /\ <<"up", g>> \in Events
  /\ \A n \in Nat \ {0} : <<"click", Clicks(n)>> \in Events
<1>1. \A n \in Nat \ {0} : Clicks(n) \in {"single", "double", "repeat"}
  BY DEF Clicks
<1> QED
  BY <1>1 DEF Events

LEMMA UpKeeps ==
  ASSUME ButtonInv, Unpressed \/ PressDown \/ PressAgain \/ StayUp \/ ClicksDone
  PROVE  ButtonInv'
<1>1. /\ ButtonTyped /\ Counted \in 0 .. MaxScan - 1
      /\ event[1] = "up" => status = "default"
      /\ untold = IF status = "default" THEN 0 ELSE click_cnt
  BY CountedFacts DEF ButtonInv
<1>2. CASE Unpressed
  <2>1. event'[1] # "up" /\ event' \in Events
    BY <1>2, EventFacts DEF Unpressed
  <2>2. status' = status /\ status = "default" /\ UNCHANGED <<scan_cnt, click_cnt, held, late, untold>>
    BY <1>2 DEF Unpressed, timing
  <2> QED
    BY <1>1, <2>1, <2>2 DEF ButtonInv, ButtonTyped, Timed
<1>3. CASE PressDown
  <2>1. event'[1] # "up" /\ event' \in Events
    BY <1>3, EventFacts DEF PressDown
  <2>2. /\ status' = "down" /\ scan_cnt' = 0 /\ click_cnt' = 0 /\ held' = 0 /\ late' = FALSE
        /\ untold' = untold /\ untold = 0
    BY <1>1, <1>3 DEF PressDown
  <2>3. Shift' = 0
    BY <2>2, Zenon DEF Shift
  <2>4. 0 \in 0 .. MaxScan - 1 /\ 0 \in 0 .. MaxClicks /\ 0 \in 0 .. MaxHeld
    BY Thresholds
  <2>5. ButtonTyped'
    BY <2>1, <2>2, <2>4 DEF ButtonTyped
  <2> QED
    BY <2>1, <2>2, <2>3, <2>5, Thresholds DEF ButtonInv, Timed
<1>4. CASE PressAgain
  <2>1. /\ status = "multiple" /\ status' = "down" /\ scan_cnt' = 0 /\ click_cnt' = click_cnt
        /\ held' = 0 /\ late' = FALSE /\ click_cnt < MaxClicks
        /\ untold' = untold /\ untold = click_cnt /\ event' = event /\ event[1] # "up"
    BY <1>1, <1>4 DEF PressAgain
  <2>2. Shift' = 0
    BY <2>1, Zenon DEF Shift
  <2>3. 0 \in 0 .. MaxScan - 1 /\ 0 \in 0 .. MaxClicks /\ 0 \in 0 .. MaxHeld
    BY Thresholds
  <2>4. ButtonTyped'
    BY <1>1, <2>1, <2>3 DEF ButtonTyped
  <2> QED
    BY <2>1, <2>2, <2>4, Thresholds DEF ButtonInv, Timed
<1>5. CASE StayUp
  <2>1. /\ status = "multiple" /\ status' = status /\ scan_cnt' = Counted /\ event[1] # "up"
        /\ UNCHANGED <<event, click_cnt, held, late, untold>>
    BY <1>1, <1>5 DEF StayUp, timing
  <2> QED
    BY <1>1, <2>1 DEF ButtonInv, ButtonTyped, Timed
<1>6. CASE ClicksDone
  <2>1. /\ status = "multiple" /\ status' = "default" /\ scan_cnt' = Counted
        /\ event' = <<"click", Clicks(click_cnt)>> /\ untold' = untold - click_cnt
        /\ untold = click_cnt /\ click_cnt' = click_cnt /\ held' = held /\ late' = late
    BY <1>1, <1>6 DEF ClicksDone, timing
  <2>2. click_cnt > 0
    BY <2>1 DEF ButtonInv
  <2>3. event' \in Events /\ event'[1] # "up" /\ untold' = 0
    BY <1>1, <2>1, <2>2, EventFacts DEF ButtonTyped
  <2> QED
    BY <1>1, <2>1, <2>3, Thresholds DEF ButtonInv, ButtonTyped, Timed
<1> QED
  BY <1>2, <1>3, <1>4, <1>5, <1>6

LEMMA DownKeeps ==
  ASSUME ButtonInv, ClicksBeforeHold \/ StayDown \/ ReleaseLong \/ ReleaseClick
  PROVE  ButtonInv'
<1>1. /\ ButtonTyped /\ status = "down" /\ Counted \in 0 .. MaxScan - 1 /\ Counted \in Nat
      /\ untold = click_cnt /\ event[1] # "up" /\ click_cnt < MaxClicks /\ click_cnt \in Nat
      /\ event \in Events /\ scan_cnt \in Nat
      /\ scan_cnt <= Interval => Counted = scan_cnt + 1
      /\ click_cnt > 0 => ~late /\ scan_cnt = held /\ scan_cnt <= Interval
  BY CountedFacts DEF ButtonInv, ButtonTyped, Timed, ClicksBeforeHold, StayDown,
                      ReleaseLong, ReleaseClick
<1>2. /\ Interval \in Nat /\ MaxClicks \in Nat /\ MaxScan \in Nat /\ MaxHeld = MaxScan + Interval
      /\ Interval + 1 < Hold /\ Hold < MaxScan /\ Hold \in Nat
  BY Thresholds
<1>3. StillHeld /\ held' \in 0 .. MaxHeld
  BY <1>1, <1>2 DEF ClicksBeforeHold, StayDown, ReleaseLong, ReleaseClick, StillHeld, ButtonTyped
<1>4. CASE ClicksBeforeHold
  <2>1. /\ status' = "down" /\ scan_cnt' = 0 /\ click_cnt' = 0 /\ late' = TRUE
        /\ event' = <<"click", Clicks(click_cnt)>> /\ untold' = untold - click_cnt
        /\ click_cnt > 0 /\ Counted > Interval
    BY <1>1, <1>4 DEF ClicksBeforeHold
  <2>2. held' = Interval + 1 /\ Shift' = Interval + 1
    <3>1. Shift' = Interval + 1
      BY <2>1, Zenon DEF Shift
    <3>2. held = Interval /\ held < MaxHeld
      BY <1>1, <1>2, <2>1
    <3> QED
      BY <1>3, <3>1, <3>2 DEF StillHeld
  <2>3. event' \in Events /\ event'[1] # "up"
    BY <1>1, <2>1, EventFacts
  <2>4. untold' = 0
    BY <1>1, <2>1
  <2>5. ButtonTyped'
    BY <1>2, <1>3, <2>1, <2>3, <2>4 DEF ButtonTyped
  <2>6. Timed'
    BY <1>1, <1>2, <2>1, <2>2 DEF Timed
  <2> QED
    BY <2>1, <2>3, <2>4, <2>5, <2>6 DEF ButtonInv
<1>5. CASE StayDown
  <2>1. /\ status' = "down" /\ scan_cnt' = Counted /\ click_cnt' = click_cnt /\ late' = late
        /\ untold' = untold /\ ~(click_cnt > 0 /\ Counted > Interval)
        /\ event' = IF click_cnt > 0 \/ Grade(Counted) = "click" THEN event
                    ELSE <<"start", Grade(Counted)>>
    BY <1>1, <1>5 DEF StayDown
  <2>2. event' \in Events /\ event'[1] # "up"
    BY <1>1, <2>1, EventFacts, GradeFacts
  <2>3. /\ \/ Counted = held' - Shift'
           \/ Counted >= Hold /\ held' - Shift' >= Hold
        /\ click_cnt > 0 => Counted = held'
    BY <1>1, <1>3, <2>1, CountedFacts
  <2>4. ButtonTyped'
    BY <1>1, <1>2, <1>3, <2>1, <2>2 DEF ButtonTyped
  <2>5. Timed'
    BY <1>1, <1>2, <2>1, <2>3 DEF Timed
  <2> QED
    BY <1>1, <2>1, <2>2, <2>4, <2>5 DEF ButtonInv
<1>6. CASE ReleaseLong
  <2>1. /\ status' = "default" /\ scan_cnt' = Counted /\ event' = <<"up", Grade(Counted)>>
        /\ click_cnt' = click_cnt /\ late' = late /\ untold' = untold /\ Grade(Counted) # "click"
    BY <1>6 DEF ReleaseLong
  <2>2. click_cnt = 0 /\ untold' = 0
    BY <1>1, <1>2, <2>1, GradeFacts
  <2>3. Grade(Counted) = Grade(held' - Shift')
    <3>1. \/ Counted = held' - Shift'
          \/ Counted >= Hold /\ held' - Shift' >= Hold
      BY <1>1, <1>3, <2>1, CountedFacts
    <3>2. Counted = held' - Shift' => Grade(Counted) = Grade(held' - Shift')
      OBVIOUS
    <3>3. Shift' \in Nat
      <4>1. Interval + 1 \in Nat /\ 0 \in Nat
        BY <1>2
      <4> QED
        BY <4>1, Zenon DEF Shift
    <3>4. Counted >= Hold /\ held' - Shift' >= Hold => Grade(Counted) = Grade(held' - Shift')
      <4>1. held' - Shift' >= Hold => held' - Shift' \in Nat
        <5>1. PICK x \in Nat, y \in Nat : x = held' /\ y = Shift'
          BY <1>2, <1>3, <3>3
        <5>2. x - y >= Hold => x - y \in Nat
          BY <1>2
        <5> QED
          BY <5>1, <5>2
      <4> QED
        BY <1>1, <4>1, GradeFacts
    <3> QED
      BY <3>1, <3>2, <3>4
  <2>4. event' \in Events /\ event'[1] = "up" /\ event'[2] = Grade(held - Shift)'
    <3>1. event' \in Events
      BY <1>1, <2>1, EventFacts, GradeFacts
    <3> QED
      BY <2>1, <2>3, <3>1 DEF Grade
  <2>5. ButtonTyped' /\ Timed'
    BY <1>1, <1>2, <1>3, <2>1, <2>2, <2>4 DEF ButtonTyped, Timed
  <2> QED
    BY <2>1, <2>2, <2>4, <2>5 DEF ButtonInv
<1>7. CASE ReleaseClick
  <2>1. /\ status' = "multiple" /\ scan_cnt' = Counted /\ event' = event
        /\ click_cnt' = click_cnt + 1 /\ late' = late /\ untold' = untold + 1
    BY <1>7 DEF ReleaseClick
  <2>2. ButtonTyped' /\ Timed' /\ untold' = click_cnt'
    BY <1>1, <1>2, <1>3, <2>1 DEF ButtonTyped, Timed
  <2> QED
    BY <1>1, <2>1, <2>2 DEF ButtonInv
<1> QED
  BY <1>4, <1>5, <1>6, <1>7

LEMMA ButtonInitInv == ButtonInit => ButtonInv
<1> SUFFICES ASSUME ButtonInit PROVE ButtonInv
  OBVIOUS
<1>1. 0 \in 0 .. MaxScan - 1 /\ 0 \in 0 .. MaxClicks /\ 0 \in 0 .. MaxHeld
  BY Thresholds
<1>2. event \in Events /\ event[1] # "up"
  BY EventFacts DEF ButtonInit
<1>3. ButtonTyped
  BY <1>1, <1>2 DEF ButtonInit, ButtonTyped
<1> QED
  BY <1>2, <1>3 DEF ButtonInit, ButtonInv, Timed

LEMMA ButtonInvariant == ButtonSpec => []ButtonInv
<1>1. ButtonInit => ButtonInv
  BY ButtonInitInv
<1>2. ButtonInv /\ [ButtonNext]_buttonVars => ButtonInv'
  <2> SUFFICES ASSUME ButtonInv, [ButtonNext]_buttonVars PROVE ButtonInv'
    OBVIOUS
  <2>1. CASE UNCHANGED buttonVars
    BY <2>1 DEF buttonVars, timing, ButtonInv, ButtonTyped, Timed, Shift, Grade
  <2> QED
    BY <2>1, UpKeeps, DownKeeps DEF ButtonNext
<1> QED
  BY <1>1, <1>2, PTL DEF ButtonSpec

\* flex_button_scan, for every interval and thresholds in the order of bsp_button.c
\* and however long a button is held: every press is told once, and by how long it
\* was, also when the counter has been at its limit.
THEOREM ButtonTells == ButtonSpec => []PressesTold
<1>1. ButtonInv => PressesTold
  BY DEF ButtonInv, PressesTold, Shift
<1> QED
  BY <1>1, ButtonInvariant, PTL

\* The counters stay within their types.
THEOREM ButtonTypes == ButtonSpec => []ButtonTyped
<1>1. ButtonInv => ButtonTyped
  BY DEF ButtonInv
<1> QED
  BY <1>1, ButtonInvariant, PTL

-----------------------------------------------------------------------------
(* The heap *)

LEMMA MinOf ==
  ASSUME NEW S \in SUBSET Nat, S # {}
  PROVE  Min(S) \in S /\ \A m \in S : Min(S) <= m
BY LeastOf DEF Min

LEMMA MinIs ==
  ASSUME NEW S \in SUBSET Nat, NEW n \in S, \A m \in S : n <= m
  PROVE  Min(S) = n
<1>1. Min(S) \in S /\ \A m \in S : Min(S) <= m
  BY MinOf
<1>2. Min(S) <= n /\ n <= Min(S) /\ Min(S) \in Nat /\ n \in Nat
  BY <1>1
<1> QED
  BY <1>2

-----------------------------------------------------------------------------
\* The headers m cut the heap into blocks, and prev leads back to the block below.
Joined(m, p) ==
  /\ m[p].next \in DOMAIN m /\ p < m[p].next
  /\ \A q \in DOMAIN m : q > p => m[p].next <= q
  /\ p > 0 => m[p].prev \in DOMAIN m /\ m[p].prev < p /\ m[m[p].prev].next = p

HeaderRec == [used : BOOLEAN, next : Offset, prev : Offset]

Links(m) ==
  /\ DOMAIN m \subseteq Offset /\ 0 \in DOMAIN m /\ heap_end \in DOMAIN m
  /\ \A p \in DOMAIN m : m[p] \in HeaderRec
  /\ m[heap_end].used
  /\ m[0].prev = 0
  /\ \A p \in DOMAIN m \ {heap_end} : Joined(m, p)

\* No free block is below l.
Lowest(m, l) == l \in DOMAIN m /\ \A p \in DOMAIN m : ~m[p].used => l <= p

\* Of two neighbours one is in use.
Apart(m) == \A p \in DOMAIN m \ {heap_end} : m[p].used \/ m[m[p].next].used

InUse(m) == {p \in DOMAIN m \ {heap_end} : m[p].used}

\* The blocks of the set S are as they were.
Stay(m2, m, S) == \A x \in S : m2[x].next = m[x].next

LEMMA OffsetFacts ==
  /\ heap_end \in Nat /\ heap_end > 0
  /\ Offset \subseteq Nat /\ 0 \in Offset /\ heap_end \in Offset
  /\ \A a \in Offset : a <= heap_end
BY HeapAssumption DEF heap_end, Offset

-----------------------------------------------------------------------------
\* The header of n, the block above p, is given up: m2 is what m becomes.
IsMerge(m2, m, p, n) ==
  /\ DOMAIN m2 = DOMAIN m \ {n}
  /\ \A x \in DOMAIN m \ {n} :
       /\ m2[x] \in HeaderRec
       /\ m2[x].used = m[x].used
       /\ m2[x].next = IF x = p THEN m[n].next ELSE m[x].next
       /\ m2[x].prev = IF x = m[n].next THEN p ELSE m[x].prev

LEMMA MergeLinks ==
  ASSUME NEW m, NEW m2, Links(m),
         NEW p \in DOMAIN m \ {heap_end}, NEW n, n = m[p].next, n # heap_end,
         IsMerge(m2, m, p, n)
  PROVE  Links(m2)
<1> USE OffsetFacts
<1>1. DOMAIN m \subseteq Nat /\ p \in Nat /\ n \in DOMAIN m /\ n \in Nat /\ p < n
  BY DEF Links, Joined
<1>2. /\ m[n].next \in DOMAIN m /\ n < m[n].next
      /\ \A q \in DOMAIN m : q > n => m[n].next <= q
  BY <1>1 DEF Links, Joined
<1>3. \A q \in DOMAIN m : q > p => n <= q
  BY DEF Links, Joined
<1>4. m[n].next \in DOMAIN m2 /\ m[n].next \in Nat
  BY <1>1, <1>2 DEF IsMerge
<1>5. ASSUME NEW x \in DOMAIN m2 \ {heap_end} PROVE Joined(m2, x)
  <2>1. x \in DOMAIN m \ {heap_end} /\ x # n /\ x \in Nat
    BY <1>1 DEF IsMerge
  <2>2. Joined(m, x)
    BY <2>1 DEF Links
  <2>3. m2[x].next = (IF x = p THEN m[n].next ELSE m[x].next)
    BY <2>1 DEF IsMerge
  <2>4. m[x].next = n => x = p
    <3>1. SUFFICES ASSUME m[x].next = n, x # p PROVE FALSE
      OBVIOUS
    <3>2. CASE x < p
      BY <3>1, <3>2, <2>2, <2>1, <1>1 DEF Joined
    <3>3. CASE x > p
      BY <3>1, <3>3, <2>2, <2>1, <1>1, <1>3 DEF Joined
    <3> QED
      BY <3>1, <3>2, <3>3, <2>1, <1>1
  <2>5. m2[x].next \in DOMAIN m2 /\ x < m2[x].next
    BY <2>1, <2>2, <2>3, <2>4, <1>1, <1>2, <1>4 DEF Joined, IsMerge
  <2>6. ASSUME NEW q \in DOMAIN m2, q > x PROVE m2[x].next <= q
    <3>1. q \in DOMAIN m /\ q # n /\ q \in Nat
      BY <1>1 DEF IsMerge
    <3>2. CASE x = p
      BY <3>1, <3>2, <2>6, <2>3, <1>1, <1>2, <1>3
    <3>3. CASE x # p
      BY <3>1, <3>3, <2>6, <2>3, <2>2 DEF Joined
    <3> QED
      BY <3>2, <3>3
  <2>7. ASSUME x > 0
        PROVE  m2[x].prev \in DOMAIN m2 /\ m2[x].prev < x /\ m2[m2[x].prev].next = x
    <3>1. m2[x].prev = (IF x = m[n].next THEN p ELSE m[x].prev)
      BY <2>1 DEF IsMerge
    <3>2. p \in DOMAIN m2 /\ m2[p].next = m[n].next
      BY <1>1 DEF IsMerge
    <3>3. CASE x = m[n].next
      BY <3>1, <3>2, <3>3, <1>1, <1>2, <1>4
    <3>4. CASE x # m[n].next
      <4>1. m[x].prev \in DOMAIN m /\ m[x].prev < x /\ m[m[x].prev].next = x
        BY <2>7, <2>2 DEF Joined
      <4>2. m[x].prev # n /\ m[x].prev # p
        BY <4>1, <3>4, <2>1
      <4>3. m2[m[x].prev].next = x
        BY <4>1, <4>2 DEF IsMerge
      <4> QED
        BY <4>1, <4>2, <4>3, <3>1, <3>4 DEF IsMerge
    <3> QED
      BY <3>3, <3>4
  <2> QED
    BY <2>5, <2>6, <2>7 DEF Joined
<1>6. 0 \in DOMAIN m2 /\ heap_end \in DOMAIN m2 /\ DOMAIN m2 \subseteq Offset
  BY <1>1 DEF IsMerge, Links
<1>7. m2[heap_end].used
  BY <1>1 DEF IsMerge, Links
<1>8. m2[0].prev = 0
  <2>1. 0 # m[n].next /\ 0 # n /\ 0 \in DOMAIN m
    BY <1>1, <1>2, <1>4 DEF Links
  <2> QED
    BY <2>1 DEF IsMerge, Links
<1>9. \A q \in DOMAIN m2 : m2[q] \in HeaderRec
  BY DEF IsMerge
<1> QED
  BY <1>5, <1>6, <1>7, <1>8, <1>9 DEF Links

\* What is left when a free block p and the free block n above it are joined.
IsFree(m, p) == p \in DOMAIN m \ {heap_end} /\ ~m[p].used

LEMMA MergeKeeps ==
  ASSUME NEW m, NEW m2, Links(m), NEW p, NEW n, IsFree(m, p), IsFree(m, n), n = m[p].next,
         IsMerge(m2, m, p, n), NEW l, Lowest(m, l)
  PROVE  /\ InUse(m2) = InUse(m)
         /\ Stay(m2, m, InUse(m))
         /\ IsFree(m2, p)
         /\ l # n /\ Lowest(m2, l)
<1> USE OffsetFacts DEF IsFree
<1>1. DOMAIN m \subseteq Nat /\ p \in Nat /\ n \in DOMAIN m /\ n \in Nat /\ p < n
  BY DEF Links, Joined
<1>2. InUse(m2) = InUse(m)
  BY DEF InUse, IsMerge
<1>3. Stay(m2, m, InUse(m))
  BY DEF InUse, IsMerge, Stay
<1>4. p \in DOMAIN m2 \ {heap_end} /\ ~m2[p].used
  BY <1>1 DEF IsMerge
<1>5. l # n /\ Lowest(m2, l)
  <2>1. l <= p /\ l \in DOMAIN m /\ l \in Nat
    BY <1>1 DEF Lowest
  <2>2. l # n
    BY <2>1, <1>1
  <2>3. l \in DOMAIN m2
    BY <2>1, <2>2 DEF IsMerge
  <2>4. \A x \in DOMAIN m2 : ~m2[x].used => l <= x
    BY DEF Lowest, IsMerge
  <2> QED
    BY <2>2, <2>3, <2>4 DEF Lowest
<1> QED
  BY <1>2, <1>3, <1>4, <1>5
-----------------------------------------------------------------------------
\* The merge that PlugForward and PlugBackward do.
Merged(m, p, n) ==
  LET after == m[n].next
      joined == With(Without(m, n), p, [m[p] EXCEPT !.next = after])
  IN  [joined EXCEPT ![after].prev = p]

LEMMA MergedIs ==
  ASSUME NEW m, Links(m),
         NEW p \in DOMAIN m \ {heap_end}, NEW n, n = m[p].next, n # heap_end
  PROVE  IsMerge(Merged(m, p, n), m, p, n)
<1> USE OffsetFacts
<1>1. DOMAIN m \subseteq Nat /\ p \in Nat /\ n \in DOMAIN m /\ n \in Nat /\ p < n
  BY DEF Links, Joined
<1> DEFINE after == m[n].next
<1>2. after \in DOMAIN m /\ n < after /\ after \in Nat /\ after \in Offset /\ p \in Offset
  BY <1>1 DEF Links, Joined
<1>3. \A q \in DOMAIN m : m[q] \in HeaderRec
  BY DEF Links
<1> HIDE DEF after
<1> DEFINE D == DOMAIN m \ {n}
           joined == [q \in D |-> IF q = p THEN [m[p] EXCEPT !.next = after] ELSE m[q]]
<1>4. p \in D /\ after \in D /\ p # after
  BY <1>1, <1>2
<1>5. With(Without(m, n), p, [m[p] EXCEPT !.next = after]) = joined
  <2>1. Without(m, n) = [q \in D |-> m[q]]
    BY DEF Without
  <2>2. DOMAIN Without(m, n) \cup {p} = D
    BY <2>1, <1>4
  <2>3. \A q \in D : Without(m, n)[q] = m[q]
    BY <2>1
  <2> HIDE DEF D
  <2> QED
    BY <2>2, <2>3 DEF With
<1>6. Merged(m, p, n) = [joined EXCEPT ![after].prev = p]
  BY <1>5 DEF Merged, after
<1>7. DOMAIN Merged(m, p, n) = D
  BY <1>6
<1>8. ASSUME NEW x \in D
      PROVE  Merged(m, p, n)[x] = IF x = after THEN [joined[x] EXCEPT !.prev = p] ELSE joined[x]
  BY <1>6
<1>9. ASSUME NEW x \in D
      PROVE  joined[x] = IF x = p THEN [m[p] EXCEPT !.next = after] ELSE m[x]
  OBVIOUS
<1> HIDE DEF joined
<1>10. ASSUME NEW x \in D
       PROVE  LET item == Merged(m, p, n)[x]
              IN  /\ item \in HeaderRec
                  /\ item.used = m[x].used
                  /\ item.next = IF x = p THEN after ELSE m[x].next
                  /\ item.prev = IF x = after THEN p ELSE m[x].prev
  <2>1. m[x] \in HeaderRec
    BY <1>3
  <2>2. CASE x = p
    <3>1. Merged(m, p, n)[x] = [m[p] EXCEPT !.next = after]
      BY <2>2, <1>4, <1>8, <1>9
    <3> QED
      BY <3>1, <2>1, <2>2, <1>2, <1>4 DEF HeaderRec
  <2>3. CASE x = after
    <3>1. Merged(m, p, n)[x] = [m[x] EXCEPT !.prev = p]
      BY <2>3, <1>4, <1>8, <1>9
    <3> QED
      BY <3>1, <2>1, <2>3, <1>2, <1>4 DEF HeaderRec
  <2>4. CASE x # p /\ x # after
    <3>1. Merged(m, p, n)[x] = m[x]
      BY <2>4, <1>4, <1>8, <1>9
    <3> QED
      BY <3>1, <2>1, <2>4
  <2> QED
    BY <2>2, <2>3, <2>4
<1> QED
  BY <1>7, <1>10 DEF IsMerge, after

HeapOf(m, l, u) == [mem |-> m, lfree |-> l, used |-> u]

\* Only the free block p may have a free neighbour: the one above it, or the one below.
Hole(m, p) == \A x \in DOMAIN m \ {heap_end} :
                m[x].used \/ m[m[x].next].used \/ x = p \/ m[x].next = p
HoleBelow(m, p) == \A x \in DOMAIN m \ {heap_end} :
                     m[x].used \/ m[m[x].next].used \/ m[x].next = p

\* m2 and l2 come from m and l by joining free blocks.
Tidier(m2, l2, m, l) ==
  /\ Links(m2) /\ Lowest(m2, l2)
  /\ InUse(m2) = InUse(m) /\ Stay(m2, m, InUse(m))

LEMMA ForwardSound ==
  ASSUME NEW m, NEW l, NEW u, Links(m), Lowest(m, l),
         NEW p \in DOMAIN m \ {heap_end}, ~m[p].used, Hole(m, p)
  PROVE  \E m2, l2 : /\ PlugForward(HeapOf(m, l, u), p) = HeapOf(m2, l2, u)
                     /\ Tidier(m2, l2, m, l)
                     /\ p \in DOMAIN m2 \ {heap_end} /\ ~m2[p].used
                     /\ HoleBelow(m2, p)
<1> USE OffsetFacts
<1> DEFINE n == m[p].next
<1>1. CASE m[n].used \/ n = heap_end
  <2>1. PlugForward(HeapOf(m, l, u), p) = HeapOf(m, l, u)
    BY <1>1 DEF PlugForward, HeapOf
  <2>2. m[n].used
    BY <1>1 DEF Links
  <2>3. HoleBelow(m, p)
    BY <2>2 DEF Hole, HoleBelow
  <2>4. Tidier(m, l, m, l)
    BY DEF Tidier, Stay
  <2> QED
    BY <2>1, <2>3, <2>4
<1>2. CASE ~m[n].used /\ n # heap_end
  <2> DEFINE m2 == Merged(m, p, n)
             l2 == IF l = n THEN p ELSE l
  <2>1. PlugForward(HeapOf(m, l, u), p) = HeapOf(m2, l2, u)
    BY <1>2 DEF PlugForward, HeapOf, Merged
  <2>2. IsMerge(m2, m, p, n)
    BY <1>2, MergedIs
  <2> HIDE DEF m2
  <2>3. Links(m2)
    BY <2>2, <1>2, MergeLinks
  <2>4. /\ InUse(m2) = InUse(m)
        /\ Stay(m2, m, InUse(m))
        /\ p \in DOMAIN m2 \ {heap_end} /\ ~m2[p].used
        /\ l # n /\ Lowest(m2, l)
    <3>1. IsFree(m, p) /\ IsFree(m, n) /\ n = m[p].next
      BY <1>2 DEF IsFree, Links, Joined
    <3>2. /\ InUse(m2) = InUse(m)
          /\ Stay(m2, m, InUse(m))
          /\ IsFree(m2, p)
          /\ l # n /\ Lowest(m2, l)
      BY <2>2, <3>1, MergeKeeps
    <3> QED
      BY <3>2 DEF IsFree
  <2>5. HoleBelow(m2, p)
    <3> SUFFICES ASSUME NEW x \in DOMAIN m2 \ {heap_end}, ~m2[x].used, m2[x].next # p
                 PROVE  m2[m2[x].next].used
      BY DEF HoleBelow
    <3>1. x \in DOMAIN m \ {heap_end} /\ x # n /\ ~m[x].used
      BY <2>2 DEF IsMerge
    <3>2. m2[x].next \in DOMAIN m2
      BY <2>3 DEF Links, Joined
    <3>3. n \in DOMAIN m /\ n # p /\ p \in Nat /\ m[n].next # p
      <4>1. Joined(m, p) /\ p \in Nat
        BY DEF Links
      <4>2. n \in DOMAIN m /\ p < n /\ n \in Nat
        BY <4>1 DEF Joined, Links
      <4>3. Joined(m, n)
        BY <4>2, <1>2 DEF Links
      <4>4. m[n].next > n /\ m[n].next \in Nat
        BY <4>2, <4>3 DEF Joined, Links
      <4> QED
        BY <4>1, <4>2, <4>4
    <3>4. CASE x = p
      <4>1. m2[x].next = m[n].next
        BY <3>1, <3>4, <2>2 DEF IsMerge
      <4>2. m[m[n].next].used
        BY <3>3, <1>2 DEF Hole
      <4> QED
        BY <4>1, <4>2, <3>2, <2>2 DEF IsMerge
    <3>5. CASE x # p
      <4>1. m2[x].next = m[x].next
        BY <3>1, <3>5, <2>2 DEF IsMerge
      <4>2. m[m[x].next].used
        BY <3>1, <3>5, <4>1 DEF Hole
      <4> QED
        BY <4>1, <4>2, <3>2, <2>2 DEF IsMerge
    <3> QED
      BY <3>4, <3>5
  <2> QED
    BY <2>1, <2>3, <2>4, <2>5 DEF Tidier
<1> QED
  BY <1>1, <1>2

LEMMA BackwardSound ==
  ASSUME NEW m, NEW l, NEW u, Links(m), Lowest(m, l),
         NEW p \in DOMAIN m \ {heap_end}, ~m[p].used, HoleBelow(m, p)
  PROVE  \E m2, l2 : /\ PlugBackward(HeapOf(m, l, u), p) = HeapOf(m2, l2, u)
                     /\ Tidier(m2, l2, m, l)
                     /\ Apart(m2)
<1> USE OffsetFacts
<1> DEFINE b == m[p].prev
<1>0. p \in Nat /\ Joined(m, p)
  BY DEF Links
<1>1. CASE b = p \/ m[b].used
  <2>1. PlugBackward(HeapOf(m, l, u), p) = HeapOf(m, l, u)
    BY <1>1 DEF PlugBackward, HeapOf
  <2>2. Apart(m)
    <3> SUFFICES ASSUME NEW x \in DOMAIN m \ {heap_end}, ~m[x].used, ~m[m[x].next].used
                 PROVE  FALSE
      BY DEF Apart
    <3>1. m[x].next = p
      BY DEF HoleBelow
    <3>2. x \in Nat /\ x < p
      BY <3>1 DEF Links, Joined
    <3>3. b \in DOMAIN m /\ b < p /\ m[b].next = p /\ b \in Nat
      <4>1. p > 0
        BY <3>2, <1>0
      <4> QED
        BY <4>1, <1>0 DEF Joined, Links
    <3>4. m[b].used /\ b # heap_end
      BY <3>3, <1>1, <1>0 DEF Links
    <3>5. Joined(m, b) /\ Joined(m, x)
      BY <3>3, <3>4 DEF Links
    <3>6. b = x
      BY <3>1, <3>2, <3>3, <3>5, <1>0 DEF Joined
    <3> QED
      BY <3>4, <3>6
  <2>3. Tidier(m, l, m, l)
    BY DEF Tidier, Stay
  <2> QED
    BY <2>1, <2>2, <2>3
<1>2. CASE b # p /\ ~m[b].used
  <2>1. p > 0
    BY <1>2, <1>0 DEF Links
  <2>2. b \in DOMAIN m \ {heap_end} /\ m[b].next = p /\ p # heap_end
    BY <2>1, <1>0, <1>2 DEF Joined, Links
  <2> DEFINE m2 == Merged(m, b, p)
             l2 == IF l = p THEN b ELSE l
  <2>3. PlugBackward(HeapOf(m, l, u), p) = HeapOf(m2, l2, u)
    BY <1>2 DEF PlugBackward, HeapOf, Merged
  <2>4. IsMerge(m2, m, b, p)
    BY <2>2, MergedIs
  <2> HIDE DEF m2
  <2>5. Links(m2)
    BY <2>2, <2>4, MergeLinks
  <2>6. /\ InUse(m2) = InUse(m)
        /\ Stay(m2, m, InUse(m))
        /\ Lowest(m2, l2)
    <3>1. IsFree(m, b) /\ IsFree(m, p) /\ p = m[b].next
      BY <1>2, <2>2 DEF IsFree
    <3> HIDE DEF b, l2
    <3>2. /\ InUse(m2) = InUse(m)
          /\ Stay(m2, m, InUse(m))
          /\ IsFree(m2, b)
          /\ l # p /\ Lowest(m2, l)
      BY <2>4, <3>1, MergeKeeps
    <3> QED
      BY <3>2 DEF l2
  <2>7. Apart(m2)
    <3> SUFFICES ASSUME NEW x \in DOMAIN m2 \ {heap_end}, ~m2[x].used
                 PROVE  m2[m2[x].next].used
      BY DEF Apart
    <3>1. x \in DOMAIN m \ {heap_end} /\ x # p /\ ~m[x].used
      BY <2>4 DEF IsMerge
    <3>2. m2[x].next \in DOMAIN m2
      BY <2>5 DEF Links, Joined
    <3>4. CASE x = b
      <4>1. m2[x].next = m[p].next
        BY <3>1, <3>4, <2>4 DEF IsMerge
      <4>2. m[p].next # p
        BY <1>0 DEF Joined
      <4>3. m[m[p].next].used
        BY <4>2 DEF HoleBelow
      <4> QED
        BY <4>1, <4>3, <3>2, <2>4 DEF IsMerge
    <3>5. CASE x # b
      <4>1. m2[x].next = m[x].next
        BY <3>1, <3>5, <2>4 DEF IsMerge
      <4>2. m[x].next # p
        BY <4>1, <3>2, <2>4 DEF IsMerge
      <4>3. m[m[x].next].used
        BY <3>1, <4>2 DEF HoleBelow
      <4> QED
        BY <4>1, <4>3, <3>2, <2>4 DEF IsMerge
    <3> QED
      BY <3>4, <3>5
  <2> QED
    BY <2>3, <2>5, <2>6, <2>7 DEF Tidier
<1> QED
  BY <1>1, <1>2

LEMMA PlugSound ==
  ASSUME NEW m, NEW l, NEW u, Links(m), Lowest(m, l),
         NEW p \in DOMAIN m \ {heap_end}, ~m[p].used, Hole(m, p)
  PROVE  \E m2, l2 : /\ plug_holes(HeapOf(m, l, u), p) = HeapOf(m2, l2, u)
                     /\ Tidier(m2, l2, m, l)
                     /\ Apart(m2)
<1>1. PICK m1, l1 : /\ PlugForward(HeapOf(m, l, u), p) = HeapOf(m1, l1, u)
                    /\ Tidier(m1, l1, m, l)
                    /\ p \in DOMAIN m1 \ {heap_end} /\ ~m1[p].used
                    /\ HoleBelow(m1, p)
  BY ForwardSound
<1>2. Links(m1) /\ Lowest(m1, l1)
  BY <1>1 DEF Tidier
<1>3. PICK m2, l2 : /\ PlugBackward(HeapOf(m1, l1, u), p) = HeapOf(m2, l2, u)
                    /\ Tidier(m2, l2, m1, l1)
                    /\ Apart(m2)
  BY <1>1, <1>2, BackwardSound
<1>4. Tidier(m2, l2, m, l)
  BY <1>1, <1>3 DEF Tidier, Stay
<1>5. plug_holes(HeapOf(m, l, u), p) = HeapOf(m2, l2, u)
  BY <1>1, <1>3 DEF plug_holes
<1> QED
  BY <1>3, <1>4, <1>5
-----------------------------------------------------------------------------
\* The block at p is cut at q: m2 is what m becomes.
IsSplit(m2, m, p, q) ==
  /\ DOMAIN m2 = DOMAIN m \cup {q}
  /\ \A x \in DOMAIN m \cup {q} :
       /\ m2[x] \in HeaderRec
       /\ m2[x].used = IF x = q THEN FALSE ELSE m[x].used
       /\ m2[x].next = IF x = p THEN q ELSE IF x = q THEN m[p].next ELSE m[x].next
       /\ m2[x].prev = IF x = q THEN p
                       ELSE IF x = m[p].next /\ x # heap_end THEN q ELSE m[x].prev

LEMMA SplitIs ==
  ASSUME NEW m, NEW l, NEW u, Links(m),
         NEW p \in DOMAIN m \ {heap_end}, NEW size \in Nat,
         p + Struct + size < m[p].next
  PROVE  \E m2 : /\ Split(HeapOf(m, l, u), p, size) = HeapOf(m2, l, u)
                 /\ IsSplit(m2, m, p, p + Struct + size)
<1> USE OffsetFacts
<1>1. PICK q : q = p + Struct + size
  OBVIOUS
<1>2. PICK after : after = m[p].next
  OBVIOUS
<1>3. /\ p \in DOMAIN m /\ p \in Nat /\ p \in Offset
      /\ after \in DOMAIN m /\ after \in Nat /\ after \in Offset
      /\ \A x \in DOMAIN m : x > p => after <= x
  BY <1>2 DEF Links, Joined
<1>4. q \in Nat /\ p < q /\ q < after /\ q \in Offset
  BY <1>1, <1>2, <1>3, HeapAssumption DEF Offset, heap_end
<1>5. q \notin DOMAIN m /\ q # p /\ q # after /\ p # after
  BY <1>3, <1>4
<1>6. \A x \in DOMAIN m : m[x] \in HeaderRec
  BY DEF Links
<1> DEFINE D == DOMAIN m \cup {q}
           k == [x \in D |-> IF x = q THEN MemItem(FALSE, after, p)
                             ELSE IF x = p THEN [m[p] EXCEPT !.next = q] ELSE m[x]]
           m2 == IF after # heap_end THEN [k EXCEPT ![after].prev = q] ELSE k
<1>7. With([m EXCEPT ![p].next = q], q, MemItem(FALSE, after, p)) = k
  <2>1. DOMAIN [m EXCEPT ![p].next = q] \cup {q} = D
    OBVIOUS
  <2>2. \A x \in DOMAIN m :
           [m EXCEPT ![p].next = q][x] = IF x = p THEN [m[p] EXCEPT !.next = q] ELSE m[x]
    OBVIOUS
  <2>3. \A x \in D : x # q => x \in DOMAIN m
    OBVIOUS
  <2> QED
    BY <2>1, <2>2, <2>3 DEF With
<1>8. Split(HeapOf(m, l, u), p, size) = HeapOf(m2, l, u)
  <2> DEFINE h == HeapOf(m, l, u)
             cut == With([m EXCEPT ![p].next = q], q, MemItem(FALSE, after, p))
  <2>1. h.mem = m
    BY DEF HeapOf
  <2> HIDE DEF h, k
  <2>2. Split(h, p, size) =
          [h EXCEPT !.mem = IF after # heap_end THEN [cut EXCEPT ![after].prev = q] ELSE cut]
    BY <1>1, <1>2, <2>1 DEF Split
  <2>3. [h EXCEPT !.mem = m2] = HeapOf(m2, l, u)
    BY DEF HeapOf, h
  <2> QED
    BY <1>7, <2>2, <2>3 DEF h
<1>9. ASSUME NEW x \in D
      PROVE  k[x] = IF x = q THEN MemItem(FALSE, after, p)
                    ELSE IF x = p THEN [m[p] EXCEPT !.next = q] ELSE m[x]
  OBVIOUS
<1>10. DOMAIN k = D
  OBVIOUS
<1> HIDE DEF k
<1>11. DOMAIN m2 = D
  BY <1>10
<1>12. ASSUME NEW x \in D
       PROVE  m2[x] = IF x = after /\ after # heap_end THEN [k[x] EXCEPT !.prev = q] ELSE k[x]
  BY <1>10
<1>13. ASSUME NEW x \in D
       PROVE  LET item == m2[x]
              IN  /\ item \in HeaderRec
                  /\ item.used = IF x = q THEN FALSE ELSE m[x].used
                  /\ item.next = IF x = p THEN q ELSE IF x = q THEN after ELSE m[x].next
                  /\ item.prev = IF x = q THEN p
                              ELSE IF x = after /\ x # heap_end THEN q ELSE m[x].prev
  <2>1. CASE x = q
    <3>1. m2[x] = MemItem(FALSE, after, p)
      BY <2>1, <1>5, <1>9, <1>12
    <3> DEFINE item == MemItem(FALSE, after, p)
    <3>2. item \in HeaderRec /\ item.used = FALSE /\ item.next = after /\ item.prev = p
      BY <1>3 DEF HeaderRec, MemItem
    <3> HIDE DEF item
    <3> QED
      BY <3>1, <3>2, <2>1, <1>5 DEF item
  <2>2. CASE x = p
    <3>1. m2[x] = [m[p] EXCEPT !.next = q] /\ m[p] \in HeaderRec
      BY <2>2, <1>3, <1>5, <1>6, <1>9, <1>12
    <3> QED
      BY <3>1, <2>2, <1>4, <1>5 DEF HeaderRec
  <2>3. CASE x = after /\ x # heap_end
    <3>1. m2[x] = [m[x] EXCEPT !.prev = q] /\ m[x] \in HeaderRec
      BY <2>3, <1>3, <1>5, <1>6, <1>9, <1>12
    <3> QED
      BY <3>1, <2>3, <1>4, <1>5 DEF HeaderRec
  <2>4. CASE x # q /\ x # p /\ ~(x = after /\ x # heap_end)
    <3>1. m2[x] = m[x] /\ m[x] \in HeaderRec
      BY <2>4, <1>6, <1>9, <1>12
    <3> QED
      BY <3>1, <2>4
  <2> QED
    BY <2>1, <2>2, <2>3, <2>4
<1>14. IsSplit(m2, m, p, q)
  BY <1>2, <1>11, <1>13 DEF IsSplit
<1> QED
  BY <1>1, <1>8, <1>14

LEMMA SplitLinks ==
  ASSUME NEW m, NEW m2, Links(m),
         NEW p \in DOMAIN m \ {heap_end}, NEW q \in Nat, p < q, q < m[p].next,
         IsSplit(m2, m, p, q)
  PROVE  /\ Links(m2)
         /\ q \in DOMAIN m2 \ {heap_end} /\ q \notin DOMAIN m /\ ~m2[q].used
<1> USE OffsetFacts
<1>1. PICK after : after = m[p].next
  OBVIOUS
<1>2. /\ DOMAIN m \subseteq Nat /\ p \in Nat /\ after \in DOMAIN m /\ after \in Nat
      /\ after <= heap_end
      /\ \A x \in DOMAIN m : x > p => after <= x
      /\ p < q /\ q < after
  BY <1>1 DEF Links, Joined
<1>3. q \notin DOMAIN m /\ q # p /\ q # after /\ q # heap_end /\ q \in Offset
  BY <1>2 DEF Offset
<1>4. DOMAIN m2 = DOMAIN m \cup {q}
  BY DEF IsSplit
<1>5. ASSUME NEW x \in DOMAIN m2
      PROVE  /\ m2[x].used = IF x = q THEN FALSE ELSE m[x].used
             /\ m2[x].next = IF x = p THEN q ELSE IF x = q THEN after ELSE m[x].next
             /\ m2[x].prev = IF x = q THEN p
                             ELSE IF x = after /\ x # heap_end THEN q ELSE m[x].prev
  BY <1>1, <1>4 DEF IsSplit
<1>6. ASSUME NEW x \in DOMAIN m2 \ {heap_end} PROVE Joined(m2, x)
  <2>1. CASE x = q
    <3>1. m2[q].next = after /\ m2[q].prev = p /\ m2[p].next = q
      BY <1>2, <1>3, <1>4, <1>5
    <3>2. \A s \in DOMAIN m2 : s > q => after <= s
      BY <1>2, <1>4
    <3> QED
      BY <2>1, <3>1, <3>2, <1>2, <1>4 DEF Joined
  <2>2. CASE x # q
    <3>1. x \in DOMAIN m \ {heap_end} /\ x \in Nat /\ Joined(m, x)
      BY <2>2, <1>2, <1>4 DEF Links
    <3>2. m2[x].next = IF x = p THEN q ELSE m[x].next
      BY <2>2, <1>5
    <3>3. m2[x].next \in DOMAIN m2 /\ x < m2[x].next
      BY <3>1, <3>2, <1>2, <1>4 DEF Joined
    <3>4. ASSUME NEW s \in DOMAIN m2, s > x PROVE m2[x].next <= s
      <4>1. CASE x = p
        BY <4>1, <3>2, <3>4, <1>2, <1>4
      <4>2. CASE x # p /\ s = q
        <5>1. x < p
          <6>1. SUFFICES ASSUME x > p PROVE FALSE
            BY <4>2, <3>1, <1>2
          <6> QED
            BY <6>1, <4>2, <3>4, <3>1, <1>2
        <5>2. m[x].next <= p
          BY <5>1, <3>1 DEF Joined
        <5>3. m[x].next \in Nat
          BY <3>1, <1>2 DEF Joined
        <5> QED
          BY <4>2, <5>2, <5>3, <3>2, <1>2
      <4>3. CASE x # p /\ s # q
        BY <4>3, <3>1, <3>2, <3>4, <1>4 DEF Joined
      <4> QED
        BY <4>1, <4>2, <4>3
    <3>5. ASSUME x > 0
          PROVE  m2[x].prev \in DOMAIN m2 /\ m2[x].prev < x /\ m2[m2[x].prev].next = x
      <4>1. m[x].prev \in DOMAIN m /\ m[x].prev < x /\ m[m[x].prev].next = x
        BY <3>1, <3>5 DEF Joined
      <4>2. CASE x = after
        <5>1. m2[x].prev = q /\ m2[q].next = after
          BY <4>2, <3>1, <1>3, <1>4, <1>5
        <5> QED
          BY <5>1, <4>2, <1>2, <1>4
      <4>3. CASE x # after
        <5>1. m2[x].prev = m[x].prev
          BY <4>3, <2>2, <1>5
        <5>2. m[x].prev # p /\ m[x].prev # q
          BY <4>1, <4>3, <1>1, <1>3
        <5>3. m2[m[x].prev].next = x
          BY <5>2, <4>1, <1>4, <1>5
        <5> QED
          BY <5>1, <5>3, <4>1, <1>4
      <4> QED
        BY <4>2, <4>3
    <3> QED
      BY <3>3, <3>4, <3>5 DEF Joined
  <2> QED
    BY <2>1, <2>2
<1>7. 0 \in DOMAIN m2 /\ heap_end \in DOMAIN m2 /\ DOMAIN m2 \subseteq Offset
  BY <1>3, <1>4 DEF Links
<1>8. m2[heap_end].used
  BY <1>3, <1>5, <1>7 DEF Links
<1>9. m2[0].prev = 0
  <2>1. 0 # q /\ 0 # after /\ m[0].prev = 0
    BY <1>2 DEF Links
  <2> QED
    BY <2>1, <1>5, <1>7
<1>10. \A x \in DOMAIN m2 : m2[x] \in HeaderRec
  BY <1>4 DEF IsSplit
<1>11. ~m2[q].used /\ q \in DOMAIN m2
  BY <1>4, <1>5
<1> QED
  BY <1>3, <1>6, <1>7, <1>8, <1>9, <1>10, <1>11 DEF Links

\* A free block is taken: m2 is what m becomes.
IsUse(m2, m, p) ==
  /\ DOMAIN m2 = DOMAIN m
  /\ \A x \in DOMAIN m : /\ m2[x].used = IF x = p THEN TRUE ELSE m[x].used
                         /\ m2[x].next = m[x].next

LEMMA UseSound ==
  ASSUME NEW m, NEW l, NEW u, Links(m), Lowest(m, l),
         NEW p \in DOMAIN m \ {heap_end}, ~m[p].used
  PROVE  \E m2, l2 :
           /\ Use(HeapOf(m, l, u), p) = HeapOf(m2, l2, u + (m[p].next - p))
           /\ Links(m2) /\ Lowest(m2, l2) /\ IsUse(m2, m, p)
<1> USE OffsetFacts
<1> DEFINE m2 == [m EXCEPT ![p].used = TRUE]
           S == {q \in DOMAIN m2 : q >= p /\ ~m2[q].used} \cup {heap_end}
           l2 == IF p # l THEN l ELSE Min(S)
<1>1. DOMAIN m2 = DOMAIN m
  OBVIOUS
<1>2. ASSUME NEW x \in DOMAIN m
      PROVE  m2[x] = IF x = p THEN [m[p] EXCEPT !.used = TRUE] ELSE m[x]
  OBVIOUS
<1>3. \A x \in DOMAIN m : m[x] \in HeaderRec
  BY DEF Links
<1>4. ASSUME NEW x \in DOMAIN m
      PROVE  /\ m2[x].used = IF x = p THEN TRUE ELSE m[x].used
             /\ m2[x].next = m[x].next
             /\ m2[x].prev = m[x].prev
             /\ m2[x] \in HeaderRec
  <2>1. m[x] \in HeaderRec
    BY <1>3
  <2> HIDE DEF m2
  <2>2. CASE x = p
    BY <1>2, <2>1, <2>2 DEF HeaderRec
  <2>3. CASE x # p
    BY <1>2, <2>1, <2>3
  <2> QED
    BY <2>2, <2>3
<1>5. Use(HeapOf(m, l, u), p) = HeapOf(m2, l2, u + (m[p].next - p))
  <2>1. m2[p].next = m[p].next
    BY <1>4
  <2> DEFINE h == HeapOf(m, l, u)
  <2>2. h.mem = m /\ h.lfree = l /\ h.used = u
    BY DEF HeapOf
  <2> HIDE DEF h
  <2>3. Use(h, p) = [h EXCEPT !.mem = m2, !.used = h.used + (m2[p].next - p),
                              !.lfree = IF p # h.lfree THEN h.lfree ELSE Min(S)]
    BY <2>2 DEF Use
  <2> HIDE DEF m2, S
  <2>4. Use(h, p) = [h EXCEPT !.mem = m2, !.used = u + (m[p].next - p), !.lfree = l2]
    BY <2>1, <2>2, <2>3
  <2> QED
    BY <2>4 DEF HeapOf, h
<1> HIDE DEF m2
<1>6. Links(m2)
  <2>1. ASSUME NEW x \in DOMAIN m \ {heap_end} PROVE Joined(m2, x)
    <3>1. Joined(m, x)
      BY DEF Links
    <3> QED
      BY <3>1, <1>1, <1>4 DEF Joined
  <2>2. \A x \in DOMAIN m2 : m2[x] \in HeaderRec
    BY <1>1, <1>4
  <2>3. /\ DOMAIN m2 \subseteq Offset /\ 0 \in DOMAIN m2 /\ heap_end \in DOMAIN m2
        /\ m2[heap_end].used /\ m2[0].prev = 0
    BY <1>1, <1>4 DEF Links
  <2> QED
    BY <2>1, <2>2, <2>3, <1>1 DEF Links
<1>7. Lowest(m2, l2)
  <2>1. l <= p /\ l \in DOMAIN m /\ DOMAIN m \subseteq Nat
    BY DEF Lowest, Links
  <2>2. CASE p # l
    <3>1. \A x \in DOMAIN m2 : ~m2[x].used => l <= x
      BY <1>1, <1>4 DEF Lowest
    <3> QED
      BY <2>1, <2>2, <3>1, <1>1 DEF Lowest
  <2>3. CASE p = l
    <3>1. S \in SUBSET Nat /\ S # {} /\ S \subseteq DOMAIN m
      BY <2>1, <1>1 DEF Links
    <3>2. Min(S) \in S /\ \A s \in S : Min(S) <= s
      BY <3>1, MinOf
    <3>3. ASSUME NEW x \in DOMAIN m2, ~m2[x].used PROVE Min(S) <= x
      <4>1. x \in DOMAIN m /\ x # p /\ ~m[x].used
        BY <3>3, <1>1, <1>4
      <4>2. x >= p
        BY <4>1, <2>3 DEF Lowest
      <4> QED
        BY <4>2, <3>2, <3>3
    <3> HIDE DEF S
    <3> QED
      BY <2>3, <3>1, <3>2, <3>3, <1>1 DEF Lowest
  <2> QED
    BY <2>2, <2>3
<1>8. IsUse(m2, m, p)
  BY <1>1, <1>4 DEF IsUse
<1> HIDE DEF l2
<1> QED
  BY <1>5, <1>6, <1>7, <1>8
-----------------------------------------------------------------------------
\* What the blocks in use take, in units.
Taking(m) == UNION {p .. m[p].next - 1 : p \in InUse(m)}

LEMMA TakingFacts ==
  ASSUME NEW m, Links(m)
  PROVE  /\ IsFiniteSet(Taking(m))
         /\ Cardinality(Taking(m)) \in Nat
         /\ \A a : a \in Taking(m) <=> \E p \in InUse(m) : a \in p .. m[p].next - 1
<1> USE OffsetFacts
<1>1. \A a : a \in Taking(m) <=> \E p \in InUse(m) : a \in p .. m[p].next - 1
  BY DEF Taking
<1>2. Taking(m) \subseteq 0 .. heap_end
  <2> SUFFICES ASSUME NEW p \in InUse(m), NEW a \in p .. m[p].next - 1
               PROVE  a \in 0 .. heap_end
    BY <1>1
  <2>1. p \in Nat /\ m[p].next \in Nat /\ m[p].next <= heap_end
    BY DEF InUse, Links, Joined
  <2> QED
    BY <2>1
<1>3. IsFiniteSet(Taking(m))
  <2>1. 0 \in Int /\ heap_end \in Int
    OBVIOUS
  <2>2. IsFiniteSet(0 .. heap_end)
    BY ONLY <2>1, FS_Interval
  <2> QED
    BY <1>2, <2>2, FS_Subset
<1> QED
  BY <1>1, <1>3, FS_CardinalityType

LEMMA DisjointCount ==
  ASSUME NEW S, IsFiniteSet(S), NEW x \in Nat, NEW y \in Nat, x <= y,
         S \cap (x .. y - 1) = {}
  PROVE  Cardinality(S \cup (x .. y - 1)) = Cardinality(S) + (y - x)
<1>1. IsFiniteSet(x .. y - 1) /\ Cardinality(x .. y - 1) = y - x
  <2>1. PICK z : z = y - 1 /\ z \in Int /\ x \in Int
    OBVIOUS
  <2>2. IsFiniteSet(x .. z) /\ Cardinality(x .. z) = IF x > z THEN 0 ELSE z - x + 1
    BY ONLY <2>1, FS_Interval
  <2> QED
    BY <2>1, <2>2
<1>2. /\ IsFiniteSet(S \cup (x .. y - 1))
      /\ Cardinality(S \cup (x .. y - 1))
           = Cardinality(S) + Cardinality(x .. y - 1) - Cardinality(S \cap (x .. y - 1))
  BY <1>1, FS_Union
<1>3. Cardinality(S) \in Nat
  BY FS_CardinalityType
<1> QED
  <2>1. \A T : T = {} => Cardinality(T) = 0
    BY FS_EmptySet
  <2>2. Cardinality(S \cap (x .. y - 1)) = 0
    BY ONLY <2>1, S \cap (x .. y - 1) = {}, Zenon
  <2> QED
    BY <1>1, <1>2, <1>3, <2>2

\* Two blocks have nothing in common.
LEMMA BlocksApart ==
  ASSUME NEW m, Links(m), NEW p \in DOMAIN m \ {heap_end}, NEW q \in DOMAIN m \ {heap_end},
         p # q, NEW a \in p .. m[p].next - 1
  PROVE  a \notin q .. m[q].next - 1
<1> USE OffsetFacts
<1>1. /\ p \in Nat /\ q \in Nat /\ m[p].next \in Nat /\ m[q].next \in Nat
      /\ p < q => m[p].next <= q
      /\ q < p => m[q].next <= p
  BY DEF Links, Joined
<1> QED
  BY <1>1

\* m2 has one block in use more than m.
LEMMA OneMore ==
  ASSUME NEW m, NEW m2, Links(m), Links(m2), NEW p,
         InUse(m2) = InUse(m) \cup {p}, p \notin InUse(m), Stay(m2, m, InUse(m))
  PROVE  Cardinality(Taking(m2)) = Cardinality(Taking(m)) + (m2[p].next - p)
<1> USE OffsetFacts
<1>1. /\ p \in DOMAIN m2 \ {heap_end} /\ p \in Nat /\ m2[p].next \in Nat /\ p <= m2[p].next
  <2>1. p \in DOMAIN m2 \ {heap_end}
    BY DEF InUse
  <2>2. Joined(m2, p) /\ DOMAIN m2 \subseteq Nat
    BY <2>1 DEF Links
  <2> QED
    BY <2>1, <2>2 DEF Joined
<1>2. Taking(m2) = Taking(m) \cup (p .. m2[p].next - 1)
  <2>1. ASSUME NEW a PROVE a \in Taking(m2) <=> a \in Taking(m) \/ a \in p .. m2[p].next - 1
    <3>1. a \in Taking(m2) <=> \E x \in InUse(m2) : a \in x .. m2[x].next - 1
      BY TakingFacts
    <3>2. a \in Taking(m) <=> \E x \in InUse(m) : a \in x .. m[x].next - 1
      BY TakingFacts
    <3>3. \A x \in InUse(m) : m2[x].next = m[x].next
      BY DEF Stay
    <3> QED
      BY <3>1, <3>2, <3>3
  <2> QED
    BY <2>1
<1>3. Taking(m) \cap (p .. m2[p].next - 1) = {}
  <2> SUFFICES ASSUME NEW a \in p .. m2[p].next - 1, a \in Taking(m) PROVE FALSE
    OBVIOUS
  <2>1. PICK x \in InUse(m) : a \in x .. m[x].next - 1
    BY TakingFacts
  <2>2. x \in DOMAIN m2 \ {heap_end} /\ x # p /\ m2[x].next = m[x].next
    BY DEF InUse, Stay
  <2> QED
    BY <1>1, <2>1, <2>2, BlocksApart
<1> QED
  BY <1>1, <1>2, <1>3, TakingFacts, DisjointCount

\* What a block in use gives up at its end.
LEMMA OneLess ==
  ASSUME NEW m, NEW m2, Links(m), Links(m2), NEW p \in InUse(m), NEW q,
         InUse(m2) = InUse(m), Stay(m2, m, InUse(m) \ {p}),
         m2[p].next = q, p < q, q < m[p].next
  PROVE  Cardinality(Taking(m2)) = Cardinality(Taking(m)) - (m[p].next - q)
<1> USE OffsetFacts
<1>1. /\ p \in DOMAIN m \ {heap_end} /\ p \in Nat /\ m[p].next \in Nat /\ q \in Nat
      /\ p \in DOMAIN m2 \ {heap_end}
  BY DEF InUse, Links, Joined
<1>2. Taking(m) = Taking(m2) \cup (q .. m[p].next - 1)
  <2>1. ASSUME NEW a PROVE a \in Taking(m) <=> a \in Taking(m2) \/ a \in q .. m[p].next - 1
    <3>1. a \in Taking(m2) <=> \E x \in InUse(m) : a \in x .. m2[x].next - 1
      BY TakingFacts
    <3>2. a \in Taking(m) <=> \E x \in InUse(m) : a \in x .. m[x].next - 1
      BY TakingFacts
    <3>3. \A x \in InUse(m) \ {p} : m2[x].next = m[x].next
      BY DEF Stay
    <3>4. a \in p .. m[p].next - 1 <=> a \in p .. m2[p].next - 1 \/ a \in q .. m[p].next - 1
      BY <1>1
    <3> QED
      BY <3>1, <3>2, <3>3, <3>4
  <2> QED
    BY <2>1
<1>3. Taking(m2) \cap (q .. m[p].next - 1) = {}
  <2> SUFFICES ASSUME NEW a \in q .. m[p].next - 1, a \in Taking(m2) PROVE FALSE
    OBVIOUS
  <2>1. PICK x \in InUse(m) : a \in x .. m2[x].next - 1
    BY TakingFacts
  <2>2. x \in DOMAIN m \ {heap_end} /\ a \in p .. m[p].next - 1
    BY <1>1 DEF InUse
  <2>3. CASE x = p
    BY <2>1, <2>3, <1>1
  <2>4. CASE x # p
    <3>1. a \in x .. m[x].next - 1
      BY <2>1, <2>4 DEF Stay
    <3> QED
      BY <3>1, <2>2, <2>4, <1>1, BlocksApart
  <2> QED
    BY <2>3, <2>4
<1>4. Cardinality(Taking(m)) = Cardinality(Taking(m2)) + (m[p].next - q)
  BY <1>1, <1>2, <1>3, TakingFacts, DisjointCount
<1> QED
  BY <1>1, <1>4, TakingFacts

-----------------------------------------------------------------------------
\* The heap is whole between two calls.
Whole(m, l, u) == Links(m) /\ Lowest(m, l) /\ Apart(m) /\ u = Cardinality(Taking(m))

LEMMA AllocatedWhole ==
  ASSUME NEW m, NEW l, NEW u, Whole(m, l, u), NEW size \in Nat,
         Fitting(HeapOf(m, l, u), Larger(size)) # {},
         NEW t, t = Taken(HeapOf(m, l, u), size)
  PROVE  \E m2, l2, u2 :
           /\ Allocated(HeapOf(m, l, u), size) = HeapOf(m2, l2, u2)
           /\ Whole(m2, l2, u2)
           /\ InUse(m2) = InUse(m) \cup {t} /\ t \notin InUse(m)
           /\ Stay(m2, m, InUse(m))
           /\ m2[t].next - (t + Struct) >= size
<1> USE OffsetFacts
<1> DEFINE h == HeapOf(m, l, u)
<1>1. PICK L : L = Larger(size)
  OBVIOUS
<1>2. L \in Nat /\ L >= size
  BY <1>1, HeapAssumption DEF Larger
<1>3. h.mem = m /\ h.lfree = l /\ h.used = u
  BY DEF HeapOf
<1>4. Links(m) /\ Lowest(m, l) /\ Apart(m) /\ u = Cardinality(Taking(m))
  BY DEF Whole
<1> HIDE DEF h
<1>5. Fitting(h, L) \in SUBSET Nat /\ Fitting(h, L) # {}
  BY <1>1, <1>3, <1>4 DEF Fitting, Links, h
<1>6. t \in Fitting(h, L)
  BY <1>1, <1>5, MinOf DEF Taken, h
<1>7. /\ t \in DOMAIN m \ {heap_end} /\ ~m[t].used /\ t \in Nat /\ m[t].next \in Nat
      /\ m[t].next - (t + Struct) >= L
  <2>1. t \in DOMAIN m /\ ~m[t].used /\ m[t].next - (t + Struct) >= L
    BY <1>3, <1>6 DEF Fitting, Room
  <2>2. t # heap_end
    BY <2>1, <1>4 DEF Links
  <2> QED
    BY <2>1, <2>2, <1>4 DEF Links, Joined
<1> DEFINE h1 == IF Room(h, t) >= L + Struct + MinSize THEN Split(h, t, L) ELSE h
<1>8. Allocated(h, size) = Use(h1, t)
  BY <1>1 DEF Allocated, h
<1>9. t \notin InUse(m)
  BY <1>7 DEF InUse
\* The block as it is used: whole, or what is left when its end is split off.
<1>10. \E m1 : /\ h1 = HeapOf(m1, l, u) /\ Links(m1) /\ Lowest(m1, l)
               /\ t \in DOMAIN m1 \ {heap_end} /\ ~m1[t].used
               /\ InUse(m1) = InUse(m) /\ Stay(m1, m, InUse(m))
               /\ \A x \in DOMAIN m1 \ {heap_end} :
                    m1[x].used \/ m1[m1[x].next].used \/ x = t \/ m1[x].next = t
               /\ m1[t].next - (t + Struct) >= size
  <2>1. CASE ~(Room(h, t) >= L + Struct + MinSize)
    <3>1. h1 = HeapOf(m, l, u)
      BY <2>1 DEF h
    <3>2. \A x \in DOMAIN m \ {heap_end} : m[x].used \/ m[m[x].next].used
      BY <1>4 DEF Apart
    <3>3. m[t].next - (t + Struct) >= size
      BY <1>2, <1>7, HeapAssumption
    <3> QED
      BY <3>1, <3>2, <3>3, <1>4, <1>7 DEF Stay
  <2>2. CASE Room(h, t) >= L + Struct + MinSize
    <3>1. PICK q : q = t + Struct + L
      OBVIOUS
    <3>2. q \in Nat /\ t < q /\ q < m[t].next /\ q - (t + Struct) >= size
      BY <2>2, <3>1, <1>2, <1>3, <1>7, HeapAssumption DEF Room
    <3>3. PICK m1 : Split(h, t, L) = HeapOf(m1, l, u) /\ IsSplit(m1, m, t, q)
      BY <3>1, <3>2, <1>2, <1>4, <1>7, SplitIs DEF h
    <3>4. /\ Links(m1)
          /\ q \in DOMAIN m1 \ {heap_end} /\ q \notin DOMAIN m /\ ~m1[q].used
      BY <3>2, <3>3, <1>4, <1>7, SplitLinks
    <3>5. DOMAIN m1 = DOMAIN m \cup {q}
      BY <3>3 DEF IsSplit
    <3>6. \A x \in DOMAIN m1 :
            /\ m1[x].used = IF x = q THEN FALSE ELSE m[x].used
            /\ m1[x].next = IF x = t THEN q ELSE IF x = q THEN m[t].next ELSE m[x].next
      BY <3>3 DEF IsSplit
    <3>7. Lowest(m1, l)
      <4>1. l <= t /\ l \in Nat /\ l \in DOMAIN m
        BY <1>4, <1>7 DEF Lowest, Links
      <4>2. l <= q
        BY <4>1, <3>2, <1>7
      <4> QED
        BY <4>1, <4>2, <3>4, <3>5, <3>6, <1>4 DEF Lowest
    <3>8. InUse(m1) = InUse(m)
      BY <3>4, <3>5, <3>6 DEF InUse
    <3>9. Stay(m1, m, InUse(m))
      BY <3>4, <3>5, <3>6, <1>9 DEF Stay, InUse
    <3>10. t \in DOMAIN m1 \ {heap_end} /\ ~m1[t].used /\ m1[t].next = q
      BY <3>2, <3>5, <3>6, <1>7
    <3>11. ASSUME NEW x \in DOMAIN m1 \ {heap_end}, x # t, ~m1[x].used, m1[x].next # t
           PROVE  m1[m1[x].next].used
      <4>0. m1[x].next \in DOMAIN m1
        BY <3>4 DEF Links, Joined
      <4>1. CASE x = q
        <5>1. m1[x].next = m[t].next /\ m[m[t].next].used /\ m[t].next \in DOMAIN m
          BY <4>1, <3>2, <3>6, <3>11, <1>4, <1>7 DEF Apart, Links, Joined
        <5> QED
          BY <5>1, <3>4, <3>5, <3>6
      <4>2. CASE x # q
        <5>1. x \in DOMAIN m \ {heap_end} /\ m1[x].next = m[x].next /\ ~m[x].used
          BY <4>2, <3>5, <3>6, <3>11
        <5>2. m[m[x].next].used /\ m[x].next \in DOMAIN m
          BY <5>1, <1>4 DEF Apart, Links, Joined
        <5> QED
          BY <5>1, <5>2, <3>4, <3>5, <3>6
      <4> QED
        BY <4>1, <4>2
    <3>12. m1[t].next - (t + Struct) >= size
      BY <3>2, <3>10
    <3>13. h1 = HeapOf(m1, l, u)
      BY <2>2, <3>3
    <3> HIDE DEF h1
    <3> QED
      BY <3>4, <3>7, <3>8, <3>9, <3>10, <3>11, <3>12, <3>13
  <2> QED
    BY <2>1, <2>2
<1>11. PICK m1 : /\ h1 = HeapOf(m1, l, u) /\ Links(m1) /\ Lowest(m1, l)
                 /\ t \in DOMAIN m1 \ {heap_end} /\ ~m1[t].used
                 /\ InUse(m1) = InUse(m) /\ Stay(m1, m, InUse(m))
                 /\ \A x \in DOMAIN m1 \ {heap_end} :
                      m1[x].used \/ m1[m1[x].next].used \/ x = t \/ m1[x].next = t
                 /\ m1[t].next - (t + Struct) >= size
  BY <1>10
<1> HIDE DEF h1
<1>20. PICK m2, l2 :
         /\ Use(HeapOf(m1, l, u), t) = HeapOf(m2, l2, u + (m1[t].next - t))
         /\ Links(m2) /\ Lowest(m2, l2) /\ IsUse(m2, m1, t)
  <2>1. /\ Links(m1) /\ Lowest(m1, l)
        /\ t \in DOMAIN m1 \ {heap_end} /\ ~m1[t].used
    BY <1>11
  <2> QED
    BY ONLY <2>1, UseSound
<1>12. /\ Use(HeapOf(m1, l, u), t) = HeapOf(m2, l2, u + (m1[t].next - t))
       /\ Links(m2) /\ Lowest(m2, l2)
       /\ DOMAIN m2 = DOMAIN m1
       /\ \A x \in DOMAIN m1 : /\ m2[x].used = IF x = t THEN TRUE ELSE m1[x].used
                               /\ m2[x].next = m1[x].next
  BY <1>20 DEF IsUse
<1>13. InUse(m2) = InUse(m) \cup {t}
  <2>1. InUse(m2) = InUse(m1) \cup {t}
    BY <1>11, <1>12 DEF InUse
  <2> QED
    BY <2>1, <1>11
<1>14. Stay(m2, m, InUse(m))
  <2>1. InUse(m) \subseteq DOMAIN m1
    BY <1>11 DEF InUse
  <2> QED
    BY <2>1, <1>11, <1>12 DEF Stay
<1>15. m2[t].next = m1[t].next
  BY <1>11, <1>12
<1>16. Apart(m2)
  <2> SUFFICES ASSUME NEW x \in DOMAIN m2 \ {heap_end}, ~m2[x].used
               PROVE  m2[m2[x].next].used
    BY DEF Apart
  <2>1. x \in DOMAIN m1 \ {heap_end} /\ x # t /\ ~m1[x].used /\ m2[x].next = m1[x].next
    BY <1>12
  <2>2. m1[x].next \in DOMAIN m1
    BY <2>1, <1>11 DEF Links, Joined
  <2>3. m1[m1[x].next].used \/ m1[x].next = t
    BY <2>1, <1>11
  <2> QED
    BY <2>1, <2>2, <2>3, <1>12
<1>17. u + (m1[t].next - t) = Cardinality(Taking(m2))
  BY <1>4, <1>9, <1>12, <1>13, <1>14, <1>15, OneMore
<1>18. Whole(m2, l2, u + (m1[t].next - t))
  BY <1>12, <1>16, <1>17 DEF Whole
<1>19. Allocated(h, size) = HeapOf(m2, l2, u + (m1[t].next - t))
  BY <1>8, <1>11, <1>12
<1> QED
  BY <1>9, <1>11, <1>13, <1>14, <1>15, <1>18, <1>19 DEF h

LEMMA FreedWhole ==
  ASSUME NEW m, NEW l, NEW u, Whole(m, l, u), NEW p \in InUse(m)
  PROVE  \E m2, l2, u2 :
           /\ Freed(HeapOf(m, l, u), p) = HeapOf(m2, l2, u2)
           /\ Whole(m2, l2, u2)
           /\ InUse(m2) = InUse(m) \ {p}
           /\ Stay(m2, m, InUse(m) \ {p})
<1> USE OffsetFacts
<1> DEFINE h == HeapOf(m, l, u)
           m1 == [m EXCEPT ![p].used = FALSE]
           l1 == IF p < l THEN p ELSE l
           u1 == u - (m[p].next - p)
<1>1. h.mem = m /\ h.lfree = l /\ h.used = u
  BY DEF HeapOf
<1>2. Links(m) /\ Lowest(m, l) /\ Apart(m) /\ u = Cardinality(Taking(m))
  BY DEF Whole
<1>3. p \in DOMAIN m \ {heap_end} /\ p \in Nat /\ m[p].next \in Nat
  BY <1>2 DEF InUse, Links, Joined
<1>4. Freed(h, p) = plug_holes(HeapOf(m1, l1, u1), p)
  <2> HIDE DEF h
  <2>1. Freed(h, p) = plug_holes([h EXCEPT !.mem = m1, !.lfree = l1, !.used = u1], p)
    BY <1>1 DEF Freed
  <2>2. PICK a, b, c : a = m1 /\ b = l1 /\ c = u1
    OBVIOUS
  <2> HIDE DEF m1, l1, u1
  <2>4. PICK k, g : k = h /\ g = [k EXCEPT !.mem = a, !.lfree = b, !.used = c]
    OBVIOUS
  <2>3. g = HeapOf(a, b, c)
    BY <2>4 DEF HeapOf, h
  <2> QED
    BY <2>1, <2>2, <2>3, <2>4
<1>5. DOMAIN m1 = DOMAIN m
  OBVIOUS
<1>6. \A x \in DOMAIN m : m[x] \in HeaderRec
  BY <1>2 DEF Links
<1>7. ASSUME NEW x \in DOMAIN m
      PROVE  /\ m1[x].used = IF x = p THEN FALSE ELSE m[x].used
             /\ m1[x].next = m[x].next
             /\ m1[x].prev = m[x].prev
             /\ m1[x] \in HeaderRec
  <2>1. m[x] \in HeaderRec
    BY <1>6
  <2>2. CASE x = p
    <3>1. m1[x] = [m[x] EXCEPT !.used = FALSE]
      BY <2>2
    <3> HIDE DEF m1
    <3> QED
      BY <2>1, <2>2, <3>1 DEF HeaderRec
  <2>3. CASE x # p
    <3>1. m1[x] = m[x]
      BY <2>3
    <3> HIDE DEF m1
    <3> QED
      BY <2>1, <2>3, <3>1
  <2> QED
    BY <2>2, <2>3
<1> HIDE DEF m1
<1>8. Links(m1)
  <2>1. ASSUME NEW x \in DOMAIN m \ {heap_end} PROVE Joined(m1, x)
    <3>1. Joined(m, x)
      BY <1>2 DEF Links
    <3> QED
      BY <3>1, <1>5, <1>7 DEF Joined
  <2>2. \A x \in DOMAIN m1 : m1[x] \in HeaderRec
    BY <1>5, <1>7
  <2>3. /\ DOMAIN m1 \subseteq Offset /\ 0 \in DOMAIN m1 /\ heap_end \in DOMAIN m1
        /\ m1[heap_end].used /\ m1[0].prev = 0
    BY <1>2, <1>3, <1>5, <1>7 DEF Links
  <2> QED
    BY <2>1, <2>2, <2>3, <1>5 DEF Links
<1>9. Lowest(m1, l1)
  <2>1. l \in DOMAIN m /\ l \in Nat /\ DOMAIN m \subseteq Nat
    BY <1>2 DEF Lowest, Links
  <2>2. ASSUME NEW x \in DOMAIN m1, ~m1[x].used PROVE l1 <= x
    <3>1. x \in Nat /\ (x = p \/ ~m[x].used)
      BY <2>1, <2>2, <1>5, <1>7
    <3>2. x = p \/ l <= x
      BY <3>1, <2>2, <1>2, <1>5 DEF Lowest
    <3> QED
      BY <3>1, <3>2, <2>1, <1>3
  <2> QED
    BY <2>1, <2>2, <1>3, <1>5 DEF Lowest
<1>10. p \in DOMAIN m1 \ {heap_end} /\ ~m1[p].used
  BY <1>3, <1>5, <1>7
<1>11. Hole(m1, p)
  <2> SUFFICES ASSUME NEW x \in DOMAIN m1 \ {heap_end}, ~m1[x].used, x # p, m1[x].next # p
               PROVE  m1[m1[x].next].used
    BY DEF Hole
  <2>1. x \in DOMAIN m \ {heap_end} /\ m1[x].next = m[x].next /\ ~m[x].used
    BY <1>5, <1>7
  <2>2. m[m[x].next].used /\ m[x].next \in DOMAIN m
    BY <2>1, <1>2 DEF Apart, Links, Joined
  <2> QED
    BY <2>1, <2>2, <1>7
<1> HIDE DEF l1, u1
<1>12. PICK m2, l2 : /\ plug_holes(HeapOf(m1, l1, u1), p) = HeapOf(m2, l2, u1)
                     /\ Tidier(m2, l2, m1, l1)
                     /\ Apart(m2)
  BY <1>8, <1>9, <1>10, <1>11, PlugSound
<1>13. Links(m2) /\ Lowest(m2, l2)
  BY <1>12 DEF Tidier
<1>14. InUse(m2) = InUse(m) \ {p}
  <2>1. InUse(m1) = InUse(m) \ {p}
    BY <1>5, <1>7 DEF InUse
  <2> QED
    BY <2>1, <1>12 DEF Tidier
<1>15. Stay(m2, m, InUse(m) \ {p})
  <2>1. \A x \in InUse(m) \ {p} : m1[x].next = m[x].next
    BY <1>7 DEF InUse
  <2>2. InUse(m1) = InUse(m) \ {p}
    BY <1>5, <1>7 DEF InUse
  <2> QED
    BY <2>1, <2>2, <1>12 DEF Tidier, Stay
<1>16. u1 = Cardinality(Taking(m2))
  <2>1. InUse(m) = InUse(m2) \cup {p} /\ p \notin InUse(m2) /\ Stay(m, m2, InUse(m2))
    BY <1>14, <1>15 DEF Stay
  <2>2. Cardinality(Taking(m)) = Cardinality(Taking(m2)) + (m[p].next - p)
    BY <2>1, <1>2, <1>13, OneMore
  <2>3. Cardinality(Taking(m2)) \in Nat /\ Cardinality(Taking(m)) \in Nat
    BY <1>2, <1>13, TakingFacts
  <2> QED
    BY <2>2, <2>3, <1>2, <1>3 DEF u1
<1>17. Whole(m2, l2, u1)
  BY <1>12, <1>13, <1>16 DEF Whole
<1> QED
  BY <1>4, <1>12, <1>14, <1>15, <1>17
\* What Shrink makes of the heap h.
Shrunk(h, p, size) ==
  LET q == p + Struct + size
  IN  plug_holes([Split(h, p, size) EXCEPT !.used = @ - (Room(h, p) - size),
                                           !.lfree = IF q < @ THEN q ELSE @], q)

LEMMA ShrunkWhole ==
  ASSUME NEW m, NEW l, NEW u, Whole(m, l, u), NEW p \in InUse(m), NEW size \in Nat,
         size + Struct + MinSize < Room(HeapOf(m, l, u), p)
  PROVE  \E m2, l2, u2 :
           /\ Shrunk(HeapOf(m, l, u), p, size) = HeapOf(m2, l2, u2)
           /\ Whole(m2, l2, u2)
           /\ InUse(m2) = InUse(m)
           /\ Stay(m2, m, InUse(m) \ {p})
           /\ m2[p].next = p + Struct + size
<1> USE OffsetFacts
<1>1. Links(m) /\ Lowest(m, l) /\ Apart(m) /\ u = Cardinality(Taking(m))
  BY DEF Whole
<1>2. p \in DOMAIN m \ {heap_end} /\ m[p].used
  BY DEF InUse
<1>3. p \in Nat /\ m[p].next \in Nat
  BY <1>1, <1>2 DEF Links, Joined
<1>4. Room(HeapOf(m, l, u), p) = m[p].next - (p + Struct)
  BY DEF Room, HeapOf
<1>5. PICK q : q = p + Struct + size
  OBVIOUS
<1>6. q \in Nat /\ p < q /\ q < m[p].next
  BY <1>3, <1>4, <1>5, HeapAssumption
<1>7. PICK m1 : Split(HeapOf(m, l, u), p, size) = HeapOf(m1, l, u) /\ IsSplit(m1, m, p, q)
  BY <1>1, <1>2, <1>5, <1>6, SplitIs
<1>8. /\ Links(m1)
      /\ q \in DOMAIN m1 \ {heap_end} /\ q \notin DOMAIN m /\ ~m1[q].used
  BY <1>1, <1>2, <1>6, <1>7, SplitLinks
<1>9. DOMAIN m1 = DOMAIN m \cup {q}
  BY <1>7 DEF IsSplit
<1>10. \A x \in DOMAIN m1 :
         /\ m1[x].used = IF x = q THEN FALSE ELSE m[x].used
         /\ m1[x].next = IF x = p THEN q ELSE IF x = q THEN m[p].next ELSE m[x].next
  BY <1>7 DEF IsSplit
<1>11. PICK l1, u1 : l1 = (IF q < l THEN q ELSE l) /\ u1 = u - (m[p].next - q)
  OBVIOUS
<1>12. Shrunk(HeapOf(m, l, u), p, size) = plug_holes(HeapOf(m1, l1, u1), q)
  <2>1. PICK k, g : /\ k = Split(HeapOf(m, l, u), p, size)
                    /\ g = [k EXCEPT !.used = k.used - (Room(HeapOf(m, l, u), p) - size),
                                     !.lfree = IF q < k.lfree THEN q ELSE k.lfree]
    OBVIOUS
  <2>2. k = HeapOf(m1, l, u)
    BY <1>7, <2>1
  <2>3. k.used = u /\ k.lfree = l
    BY <2>2 DEF HeapOf
  <2>4. Room(HeapOf(m, l, u), p) - size = m[p].next - q
    BY <1>3, <1>4, <1>5, HeapAssumption
  <2>5. g = [k EXCEPT !.used = u1, !.lfree = l1]
    BY <1>11, <2>1, <2>3, <2>4
  <2>6. g = HeapOf(m1, l1, u1)
    BY <2>2, <2>5 DEF HeapOf
  <2>7. Shrunk(HeapOf(m, l, u), p, size) = plug_holes(g, q)
    BY <1>5, <2>1 DEF Shrunk
  <2> QED
    BY <2>6, <2>7
<1>13. Lowest(m1, l1)
  <2>1. l \in DOMAIN m /\ l \in Nat /\ DOMAIN m1 \subseteq Nat
    BY <1>1, <1>8 DEF Lowest, Links
  <2>2. ASSUME NEW x \in DOMAIN m1, ~m1[x].used PROVE l1 <= x
    <3>1. x = q \/ (x \in DOMAIN m /\ ~m[x].used)
      BY <2>2, <1>9, <1>10
    <3>2. x = q \/ l <= x
      BY <3>1, <1>1 DEF Lowest
    <3> QED
      BY <3>2, <2>1, <1>6, <1>11
  <2> QED
    BY <2>1, <2>2, <1>6, <1>8, <1>9, <1>11 DEF Lowest
<1>14. Hole(m1, q)
  <2> SUFFICES ASSUME NEW x \in DOMAIN m1 \ {heap_end}, ~m1[x].used, x # q, m1[x].next # q
               PROVE  m1[m1[x].next].used
    BY DEF Hole
  <2>1. x \in DOMAIN m \ {heap_end} /\ ~m[x].used
    BY <1>9, <1>10
  <2>2. x # p
    BY <2>1, <1>2
  <2>3. m1[x].next = m[x].next
    BY <2>1, <2>2, <1>10
  <2>4. m[m[x].next].used /\ m[x].next \in DOMAIN m
    BY <2>1, <1>1 DEF Apart, Links, Joined
  <2> QED
    BY <2>3, <2>4, <1>8, <1>9, <1>10
<1>15. PICK m2, l2 : /\ plug_holes(HeapOf(m1, l1, u1), q) = HeapOf(m2, l2, u1)
                     /\ Tidier(m2, l2, m1, l1)
                     /\ Apart(m2)
  BY <1>8, <1>13, <1>14, PlugSound
<1>16. Links(m2) /\ Lowest(m2, l2)
  BY <1>15 DEF Tidier
<1>17. InUse(m1) = InUse(m)
  BY <1>8, <1>9, <1>10 DEF InUse
<1>18. InUse(m2) = InUse(m) /\ Stay(m2, m1, InUse(m))
  BY <1>15, <1>17 DEF Tidier
<1>19. Stay(m2, m, InUse(m) \ {p})
  <2>1. \A x \in InUse(m) \ {p} : m1[x].next = m[x].next
    BY <1>8, <1>9, <1>10 DEF InUse
  <2> QED
    BY <2>1, <1>18 DEF Stay
<1>20. m2[p].next = q
  BY <1>2, <1>9, <1>10, <1>18 DEF Stay
<1>21. u1 = Cardinality(Taking(m2))
  <2>1. Cardinality(Taking(m2)) = Cardinality(Taking(m)) - (m[p].next - q)
    BY <1>1, <1>6, <1>16, <1>18, <1>19, <1>20, OneLess
  <2> QED
    BY <2>1, <1>1, <1>11
<1>22. Whole(m2, l2, u1)
  BY <1>15, <1>16, <1>21 DEF Whole
<1> QED
  BY <1>5, <1>12, <1>15, <1>18, <1>19, <1>20, <1>22

-----------------------------------------------------------------------------
\* The blocks in use are those that callers have, and each is as large as asked.
HeapInv ==
  /\ Whole(mem, lfree, used)
  /\ InUse(mem) = DOMAIN handed
  /\ \A p \in DOMAIN handed : handed[p] \in Nat /\ mem[p].next - (p + Struct) >= handed[p]

LEMMA HeapInvTyped ==
  ASSUME HeapInv
  PROVE  HeapTyped
<1> USE OffsetFacts
<1>1. Links(mem) /\ Lowest(mem, lfree) /\ used = Cardinality(Taking(mem))
  BY DEF HeapInv, Whole
<1>2. used \in Nat
  BY <1>1, TakingFacts
<1>3. DOMAIN handed \subseteq DOMAIN mem
  BY DEF HeapInv, InUse
<1> QED
  BY <1>1, <1>2, <1>3 DEF HeapTyped, Links, Lowest, HeaderRec

LEMMA HeapInvSound ==
  ASSUME HeapInv
  PROVE  HeapSound
<1> USE OffsetFacts
<1>1. Links(mem) /\ Lowest(mem, lfree) /\ Apart(mem) /\ used = Cardinality(Taking(mem))
  BY DEF HeapInv, Whole
<1>2. DOMAIN mem \subseteq Nat /\ heap_end \in DOMAIN mem
  BY <1>1 DEF Links
<1>3. ASSUME NEW p \in DOMAIN mem \ {heap_end}
      PROVE  /\ mem[p].next = Min(Above(p))
             /\ p > 0 => mem[mem[p].prev].next = p
             /\ ~mem[p].used /\ mem[p].next # heap_end => mem[mem[p].next].used
  <2>1. Joined(mem, p)
    BY <1>1 DEF Links
  <2>2. Above(p) \in SUBSET Nat
    BY <1>2 DEF Above
  <2>3. mem[p].next \in Above(p) /\ \A q \in Above(p) : mem[p].next <= q
    BY <2>1, <1>2 DEF Joined, Above
  <2>4. Min(Above(p)) = mem[p].next
    BY ONLY <2>2, <2>3, MinIs
  <2> QED
    BY <2>1, <2>4, <1>1 DEF Joined, Apart
<1>4. {p \in DOMAIN mem : mem[p].used} = DOMAIN handed \cup {heap_end}
  BY <1>1 DEF HeapInv, InUse, Links
<1>5. \A p \in DOMAIN handed : Room(heap, p) >= handed[p]
  BY DEF HeapInv, Room, heap
<1>6. used = Cardinality(UNION {Units(p) : p \in DOMAIN handed})
  <2>1. UNION {Units(p) : p \in DOMAIN handed} = Taking(mem)
    BY DEF HeapInv, Taking, Units
  <2> QED
    BY <2>1, <1>1
<1>7. ASSUME NEW p \in DOMAIN mem, ~mem[p].used, NEW size \in 1 .. Room(heap, p), size >= MinSize
      PROVE  Fitting(heap, size) # {}
  <2>1. heap.mem = mem /\ heap.lfree = lfree
    BY DEF heap
  <2>2. Room(heap, p) = mem[p].next - (p + Struct)
    BY <2>1 DEF Room
  <2>3. p \in DOMAIN mem \ {heap_end}
    BY <1>1, <1>7 DEF Links
  <2>4. p \in Nat /\ mem[p].next \in Nat /\ mem[p].next <= heap_end
    BY <2>3, <1>1 DEF Links, Joined
  <2>5. lfree <= p
    BY <1>1, <1>7 DEF Lowest
  <2>6. size \in Nat /\ size <= Room(heap, p)
    BY <2>2, <2>4, HeapAssumption
  <2>7. p + size <= Total
    BY <2>2, <2>4, <2>6, HeapAssumption DEF heap_end
  <2>8. p \in Fitting(heap, size)
    BY <2>1, <2>5, <2>6, <2>7, <1>7 DEF Fitting
  <2> QED
    BY <2>8
<1> QED
  BY <1>3, <1>4, <1>5, <1>6, <1>7 DEF HeapSound

LEMMA HeapInvInit ==
  ASSUME HeapInit
  PROVE  HeapInv
<1> USE OffsetFacts
<1>1. DOMAIN handed = {}
  BY DEF HeapInit
<1>2. DOMAIN mem = {0, heap_end}
  <2>1. DOMAIN With(<<>>, 0, MemItem(FALSE, heap_end, 0)) = {0}
    BY DEF With
  <2> QED
    BY <2>1 DEF HeapInit, With
<1>3. mem[0] = MemItem(FALSE, heap_end, 0) /\ mem[heap_end] = MemItem(TRUE, heap_end, heap_end)
  <2>1. PICK x, y : x = MemItem(FALSE, heap_end, 0) /\ y = MemItem(TRUE, heap_end, heap_end)
    OBVIOUS
  <2>2. PICK g : g = With(<<>>, 0, x)
    OBVIOUS
  <2>3. DOMAIN g = {0} /\ g[0] = x
    BY ONLY <2>2 DEF With
  <2>4. mem = With(g, heap_end, y)
    BY ONLY <2>1, <2>2, HeapInit DEF HeapInit
  <2>5. 0 # heap_end
    BY OffsetFacts
  <2>6. mem[0] = x /\ mem[heap_end] = y
    BY ONLY <2>3, <2>4, <2>5 DEF With
  <2> QED
    BY ONLY <2>1, <2>6
<1>4. /\ mem[0] \in HeaderRec /\ mem[heap_end] \in HeaderRec
      /\ mem[0].used = FALSE /\ mem[0].next = heap_end /\ mem[0].prev = 0
      /\ mem[heap_end].used = TRUE
  BY <1>3 DEF MemItem, HeaderRec
<1>5. Links(mem)
  BY <1>2, <1>4 DEF Links, Joined
<1>6. Lowest(mem, lfree) /\ Apart(mem)
  <2>1. lfree = 0
    BY DEF HeapInit
  <2>2. Lowest(mem, lfree)
    BY <1>2, <2>1 DEF Lowest
  <2>3. \A p \in DOMAIN mem \ {heap_end} : mem[mem[p].next].used
    BY <1>2, <1>4
  <2> QED
    BY <2>2, <2>3 DEF Apart
<1>7. InUse(mem) = {}
  BY <1>2, <1>4 DEF InUse
<1>8. Taking(mem) = {}
  BY <1>7 DEF Taking
<1>9. used = Cardinality(Taking(mem))
  BY <1>8, FS_EmptySet DEF HeapInit
<1> QED
  BY <1>1, <1>5, <1>6, <1>7, <1>9 DEF HeapInv, Whole

LEMMA HeapInvNext ==
  ASSUME HeapInv, [HeapNext]_heapVars
  PROVE  HeapInv'
<1> USE OffsetFacts
<1>1. heap = HeapOf(mem, lfree, used)
  BY DEF heap, HeapOf
<1>2. Whole(mem, lfree, used) /\ InUse(mem) = DOMAIN handed
  BY DEF HeapInv
<1>3. \A p \in DOMAIN handed : handed[p] \in Nat /\ mem[p].next - (p + Struct) >= handed[p]
  BY DEF HeapInv
\* What is left to show of a step that makes the heap whole again.
<1>4. ASSUME NEW m2, NEW l2, NEW u2, Becomes(HeapOf(m2, l2, u2)), Whole(m2, l2, u2)
      PROVE  /\ mem' = m2
             /\ Whole(mem, lfree, used)'
  BY <1>4 DEF Becomes, HeapOf
<1>5. ASSUME NEW size \in 1 .. Total, rt_smem_alloc(size) PROVE HeapInv'
  <2>1. PICK t : t = Taken(heap, size)
    OBVIOUS
  <2>2. size \in Nat
    BY HeapAssumption
  <2>3. /\ Fitting(heap, Larger(size)) # {}
        /\ Becomes(Allocated(heap, size))
        /\ handed' = With(handed, t, size)
    BY <1>5, <2>1 DEF rt_smem_alloc
  <2>4. PICK m2, l2, u2 :
          /\ Allocated(heap, size) = HeapOf(m2, l2, u2)
          /\ Whole(m2, l2, u2)
          /\ InUse(m2) = InUse(mem) \cup {t} /\ t \notin InUse(mem)
          /\ Stay(m2, mem, InUse(mem))
          /\ m2[t].next - (t + Struct) >= size
    BY <1>1, <1>2, <2>1, <2>2, <2>3, AllocatedWhole
  <2>5. mem' = m2 /\ Whole(mem, lfree, used)'
    BY <1>4, <2>3, <2>4
  <2>6. /\ DOMAIN handed' = DOMAIN handed \cup {t}
        /\ \A p \in DOMAIN handed' : handed'[p] = IF p = t THEN size ELSE handed[p]
    BY <2>3 DEF With
  <2>7. InUse(mem)' = DOMAIN handed'
    BY <1>2, <2>4, <2>5, <2>6 DEF InUse
  <2>8. ASSUME NEW p \in DOMAIN handed'
        PROVE  handed'[p] \in Nat /\ mem'[p].next - (p + Struct) >= handed'[p]
    <3>1. CASE p = t
      BY <3>1, <2>2, <2>4, <2>5, <2>6
    <3>2. CASE p # t
      <4>1. p \in DOMAIN handed /\ handed'[p] = handed[p] /\ mem'[p].next = mem[p].next
        BY <3>2, <1>2, <2>4, <2>5, <2>6 DEF Stay
      <4> QED
        BY <4>1, <1>3
    <3> QED
      BY <3>1, <3>2
  <2> QED
    BY <2>5, <2>7, <2>8 DEF HeapInv
<1>6. ASSUME NEW p \in DOMAIN handed, rt_smem_free(p) PROVE HeapInv'
  <2>1. Becomes(Freed(heap, p)) /\ handed' = Without(handed, p)
    BY <1>6 DEF rt_smem_free
  <2>2. PICK m2, l2, u2 :
          /\ Freed(heap, p) = HeapOf(m2, l2, u2)
          /\ Whole(m2, l2, u2)
          /\ InUse(m2) = InUse(mem) \ {p}
          /\ Stay(m2, mem, InUse(mem) \ {p})
    BY <1>1, <1>2, FreedWhole
  <2>3. mem' = m2 /\ Whole(mem, lfree, used)'
    BY <1>4, <2>1, <2>2
  <2>4. /\ DOMAIN handed' = DOMAIN handed \ {p}
        /\ \A x \in DOMAIN handed' : handed'[x] = handed[x]
    BY <2>1 DEF Without
  <2>5. InUse(mem)' = DOMAIN handed'
    BY <1>2, <2>2, <2>3, <2>4 DEF InUse
  <2>6. ASSUME NEW x \in DOMAIN handed'
        PROVE  handed'[x] \in Nat /\ mem'[x].next - (x + Struct) >= handed'[x]
    <3>1. x \in DOMAIN handed /\ handed'[x] = handed[x] /\ mem'[x].next = mem[x].next
      BY <1>2, <2>2, <2>3, <2>4 DEF Stay
    <3> QED
      BY <3>1, <1>3
  <2> QED
    BY <2>3, <2>5, <2>6 DEF HeapInv
<1>7. ASSUME NEW p \in DOMAIN handed, NEW size \in 1 .. Total, Shrink(p, size) PROVE HeapInv'
  <2>1. size \in Nat
    BY HeapAssumption
  <2>2. /\ size + Struct + MinSize < Room(heap, p)
        /\ Becomes(Shrunk(heap, p, size))
        /\ handed' = [handed EXCEPT ![p] = size]
    BY <1>7 DEF Shrink, Shrunk
  <2>3. PICK m2, l2, u2 :
          /\ Shrunk(heap, p, size) = HeapOf(m2, l2, u2)
          /\ Whole(m2, l2, u2)
          /\ InUse(m2) = InUse(mem)
          /\ Stay(m2, mem, InUse(mem) \ {p})
          /\ m2[p].next = p + Struct + size
    BY <1>1, <1>2, <2>1, <2>2, ShrunkWhole
  <2>4. mem' = m2 /\ Whole(mem, lfree, used)'
    BY <1>4, <2>2, <2>3
  <2>5. /\ DOMAIN handed' = DOMAIN handed
        /\ \A x \in DOMAIN handed' : handed'[x] = IF x = p THEN size ELSE handed[x]
    BY <2>2
  <2>6. InUse(mem)' = DOMAIN handed'
    BY <1>2, <2>3, <2>4, <2>5 DEF InUse
  <2>7. p \in Nat
    BY <1>2 DEF InUse, Whole, Links
  <2>8. ASSUME NEW x \in DOMAIN handed'
        PROVE  handed'[x] \in Nat /\ mem'[x].next - (x + Struct) >= handed'[x]
    <3>1. CASE x = p
      <4>1. mem'[x].next = p + Struct + size /\ handed'[x] = size
        BY <3>1, <2>3, <2>4, <2>5
      <4> QED
        BY <4>1, <3>1, <2>1, <2>7, HeapAssumption
    <3>2. CASE x # p
      <4>1. x \in DOMAIN handed /\ handed'[x] = handed[x] /\ mem'[x].next = mem[x].next
        BY <3>2, <1>2, <2>3, <2>4, <2>5 DEF Stay
      <4> QED
        BY <4>1, <1>3
    <3> QED
      BY <3>1, <3>2
  <2> QED
    BY <2>4, <2>6, <2>8 DEF HeapInv
<1>8. ASSUME NEW p \in DOMAIN handed, NEW size \in 1 .. Total, SameSize(p, size) PROVE HeapInv'
  <2>1. /\ size = mem[p].next - (p + Struct) /\ size \in Nat
        /\ handed' = [handed EXCEPT ![p] = size]
        /\ mem' = mem /\ lfree' = lfree /\ used' = used
    BY <1>8, HeapAssumption DEF SameSize, Room, heap
  <2>2. /\ DOMAIN handed' = DOMAIN handed
        /\ \A x \in DOMAIN handed' : handed'[x] = IF x = p THEN size ELSE handed[x]
    BY <2>1
  <2>3. Whole(mem, lfree, used)'
    BY <1>2, <2>1
  <2>4. InUse(mem)' = DOMAIN handed'
    BY <1>2, <2>1, <2>2 DEF InUse
  <2>5. \A x \in DOMAIN handed' : handed'[x] \in Nat /\ mem'[x].next - (x + Struct) >= handed'[x]
    BY <1>3, <2>1, <2>2
  <2> QED
    BY <2>3, <2>4, <2>5 DEF HeapInv
<1>9. ASSUME NEW p \in DOMAIN handed, NEW size \in 1 .. Total, Move(p, size) PROVE HeapInv'
  <2>1. PICK t : t = Taken(heap, size)
    OBVIOUS
  <2>2. size \in Nat
    BY HeapAssumption
  <2>3. /\ Fitting(heap, Larger(size)) # {}
        /\ Becomes(Freed(Allocated(heap, size), p))
        /\ handed' = With(Without(handed, p), t, size)
    BY <1>9, <2>1 DEF Move
  <2>4. PICK m1, l1, u1 :
          /\ Allocated(heap, size) = HeapOf(m1, l1, u1)
          /\ Whole(m1, l1, u1)
          /\ InUse(m1) = InUse(mem) \cup {t} /\ t \notin InUse(mem)
          /\ Stay(m1, mem, InUse(mem))
          /\ m1[t].next - (t + Struct) >= size
    BY <1>1, <1>2, <2>1, <2>2, <2>3, AllocatedWhole
  <2>5. p \in InUse(m1) /\ p # t
    BY <1>2, <2>4
  <2>6. PICK m2, l2, u2 :
          /\ Freed(HeapOf(m1, l1, u1), p) = HeapOf(m2, l2, u2)
          /\ Whole(m2, l2, u2)
          /\ InUse(m2) = InUse(m1) \ {p}
          /\ Stay(m2, m1, InUse(m1) \ {p})
    BY <2>4, <2>5, FreedWhole
  <2>7. mem' = m2 /\ Whole(mem, lfree, used)'
    BY <1>4, <2>3, <2>4, <2>6
  <2>8. /\ DOMAIN handed' = (DOMAIN handed \ {p}) \cup {t}
        /\ \A x \in DOMAIN handed' : handed'[x] = IF x = t THEN size ELSE handed[x]
    BY <2>3 DEF With, Without
  <2>9. InUse(mem)' = DOMAIN handed'
    <3>1. InUse(m2) = (DOMAIN handed \ {p}) \cup {t}
      BY <1>2, <2>4, <2>5, <2>6
    <3> QED
      BY <3>1, <2>7, <2>8 DEF InUse
  <2>10. ASSUME NEW x \in DOMAIN handed'
         PROVE  handed'[x] \in Nat /\ mem'[x].next - (x + Struct) >= handed'[x]
    <3>1. x \in InUse(m1) \ {p}
      BY <1>2, <2>4, <2>5, <2>8
    <3>2. mem'[x].next = m1[x].next
      BY <3>1, <2>6, <2>7 DEF Stay
    <3>3. CASE x = t
      BY <3>2, <3>3, <2>2, <2>4, <2>8
    <3>4. CASE x # t
      <4>1. x \in DOMAIN handed /\ handed'[x] = handed[x] /\ m1[x].next = mem[x].next
        BY <3>4, <1>2, <2>4, <2>8 DEF Stay
      <4> QED
        BY <4>1, <3>2, <1>3
    <3> QED
      BY <3>3, <3>4
  <2> QED
    BY <2>7, <2>9, <2>10 DEF HeapInv
<1>10. CASE UNCHANGED heapVars
  <2>1. mem' = mem /\ lfree' = lfree /\ used' = used /\ handed' = handed
    BY <1>10 DEF heapVars
  <2> QED
    BY <1>2, <1>3, <2>1 DEF HeapInv, InUse
<1> QED
  BY <1>5, <1>6, <1>7, <1>8, <1>9, <1>10 DEF HeapNext, rt_smem_realloc

LEMMA HeapInvariant == HeapSpec => []HeapInv
BY HeapInvInit, HeapInvNext, PTL DEF HeapSpec

\* The headers, lfree and what is counted keep their types (rt_smem_init,
\* rt_smem_alloc, rt_smem_realloc, rt_smem_free).
THEOREM HeapTypes == HeapSpec => []HeapTyped
BY HeapInvariant, HeapInvTyped, PTL

\* The allocator is right for any size of the heap, of its headers and of its
\* smallest block: the blocks of callers never overlap and hold what was asked
\* for, nothing is lost, free neighbours are joined, and a request that a free
\* block has room for does not fail (rt_smem_alloc, rt_smem_realloc,
\* rt_smem_free, plug_holes).
THEOREM HeapServes == HeapSpec => []HeapSound
BY HeapInvariant, HeapInvSound, PTL

-----------------------------------------------------------------------------
(* Sequences in which nothing is twice: the lists of commands and of items *)

LEMMA InjectiveAppend ==
  ASSUME NEW S, NEW s \in Seq(S), IsInjective(s), NEW c \in S, c \notin Range(s)
  PROVE  /\ Append(s, c) \in Seq(S) /\ IsInjective(Append(s, c))
         /\ Range(Append(s, c)) = Range(s) \cup {c}
<1>1. /\ DOMAIN Append(s, c) = 1 .. Len(s) + 1 /\ Len(s) \in Nat /\ DOMAIN s = 1 .. Len(s)
      /\ \A n \in 1 .. Len(s) : Append(s, c)[n] = s[n]
      /\ Append(s, c)[Len(s) + 1] = c
  OBVIOUS
<1>2. \A n \in 1 .. Len(s) + 1 : n \in 1 .. Len(s) \/ n = Len(s) + 1
  BY <1>1
<1>3. Range(Append(s, c)) = Range(s) \cup {c}
  BY <1>1, <1>2 DEF Range
<1>4. \A n \in 1 .. Len(s) : s[n] # c
  BY <1>1 DEF Range
<1>5. IsInjective(Append(s, c))
  BY <1>1, <1>2, <1>4 DEF IsInjective
<1> QED
  BY <1>3, <1>5

\* RemoveAt closes the gap at position n.
LEMMA GapClosed ==
  ASSUME NEW S, NEW s \in Seq(S), NEW n \in 1 .. Len(s)
  PROVE  /\ RemoveAt(s, n) \in Seq(S)
         /\ Len(RemoveAt(s, n)) = Len(s) - 1
         /\ \A j \in 1 .. Len(s) - 1 :
              RemoveAt(s, n)[j] = IF j < n THEN s[j] ELSE s[j + 1]
<1> DEFINE A == SubSeq(s, 1, n - 1)
           B == SubSeq(s, n + 1, Len(s))
<1>1. /\ A \in Seq(S) /\ Len(A) = n - 1
      /\ \A j \in 1 .. n - 1 : A[j] = s[j]
  BY SubSeqProperties
<1>2. /\ B \in Seq(S) /\ Len(B) = Len(s) - n
      /\ \A j \in 1 .. Len(s) - n : B[j] = s[n + j]
  BY SubSeqProperties
<1>3. RemoveAt(s, n) = A \o B
  BY DEF RemoveAt
<1> HIDE DEF A, B
<1>4. /\ A \o B \in Seq(S) /\ Len(A \o B) = Len(A) + Len(B)
      /\ \A j \in 1 .. Len(A) + Len(B) :
           (A \o B)[j] = IF j <= Len(A) THEN A[j] ELSE B[j - Len(A)]
  BY <1>1, <1>2, ConcatProperties
<1>5. ASSUME NEW j \in 1 .. Len(s) - 1
      PROVE  (A \o B)[j] = IF j < n THEN s[j] ELSE s[j + 1]
  BY <1>1, <1>2, <1>4
<1>6. Len(s) \in Nat /\ n \in 1 .. Len(s)
  OBVIOUS
<1>7. Len(A \o B) = Len(s) - 1
  BY ONLY <1>1, <1>2, <1>4, <1>6
<1> QED
  BY ONLY <1>3, <1>4, <1>5, <1>7

\* To remove one element of an injective sequence leaves the others, once.
LEMMA InjectiveRemove ==
  ASSUME NEW S, NEW s \in Seq(S), IsInjective(s), NEW p \in 1 .. Len(s)
  PROVE  /\ RemoveAt(s, p) \in Seq(S) /\ IsInjective(RemoveAt(s, p))
         /\ Range(RemoveAt(s, p)) = Range(s) \ {s[p]}
<1>2. DOMAIN s = 1 .. Len(s) /\ Len(s) \in Nat
  OBVIOUS
<1>3. PICK t : t = RemoveAt(s, p)
  OBVIOUS
<1>4. /\ t \in Seq(S) /\ DOMAIN t = 1 .. Len(s) - 1
      /\ \A n \in 1 .. Len(s) - 1 : t[n] = IF n < p THEN s[n] ELSE s[n + 1]
  <2>2. /\ t \in Seq(S) /\ Len(t) = Len(s) - 1
        /\ \A n \in 1 .. Len(s) - 1 : t[n] = IF n < p THEN s[n] ELSE s[n + 1]
    BY <1>3, GapClosed
  <2> QED
    BY <2>2
<1>5. \A a, b \in 1 .. Len(s) : s[a] = s[b] => a = b
  BY <1>2 DEF IsInjective
<1>6. IsInjective(t)
  <2> SUFFICES ASSUME NEW a \in 1 .. Len(s) - 1, NEW b \in 1 .. Len(s) - 1, t[a] = t[b]
               PROVE  a = b
    BY <1>4 DEF IsInjective
  <2>1. PICK x \in 1 .. Len(s) : x = (IF a < p THEN a ELSE a + 1) /\ t[a] = s[x]
    BY <1>2, <1>4
  <2>2. PICK y \in 1 .. Len(s) : y = (IF b < p THEN b ELSE b + 1) /\ t[b] = s[y]
    BY <1>2, <1>4
  <2>3. x = y
    BY <2>1, <2>2, <1>5
  <2> QED
    BY <2>1, <2>2, <2>3, <1>2
<1>7. Range(t) = Range(s) \ {s[p]}
  <2>1. ASSUME NEW n \in 1 .. Len(s) - 1 PROVE t[n] \in Range(s) \ {s[p]}
    <3>1. PICK x \in 1 .. Len(s) : x # p /\ t[n] = s[x]
      BY <1>2, <1>4
    <3> QED
      BY <3>1, <1>2, <1>5 DEF Range
  <2>2. ASSUME NEW x \in 1 .. Len(s), x # p PROVE s[x] \in Range(t)
    <3>1. PICK n \in 1 .. Len(s) - 1 : x = IF n < p THEN n ELSE n + 1
      <4>1. CASE x < p
        BY <4>1, <1>2
      <4>2. CASE x > p
        <5>1. x - 1 \in 1 .. Len(s) - 1 /\ ~(x - 1 < p) /\ x = x - 1 + 1
          BY <4>2, <1>2
        <5> QED
          BY <5>1
      <4> QED
        BY <4>1, <4>2, <2>2, <1>2
    <3>2. t[n] = s[x]
      BY <3>1, <1>2, <1>4
    <3> QED
      BY <3>2, <1>4 DEF Range
  <2>3. \A v : v \in Range(t) <=> \E n \in 1 .. Len(s) - 1 : v = t[n]
    BY <1>4 DEF Range
  <2>4. \A v : v \in Range(s) <=> \E n \in 1 .. Len(s) : v = s[n]
    BY <1>2 DEF Range
  <2> QED
    BY <2>1, <2>2, <2>3, <2>4, <1>2
<1> QED
  BY <1>3, <1>4, <1>6, <1>7

-----------------------------------------------------------------------------
(* AT commands: whose answer a callback is told.  The engine does not match  *)
(* answers with commands, so the argument is by number: on a line that was   *)
(* clear at the last send there is one answer at most, wherever it is.       *)

\* A command is being tried: it was sent once for every time the engine gave up
\* an answer, and once more while it waits for one.
Tries ==
  /\ state \in {"send", "retry"} => sends = retries
  /\ state = "recv" => sends = retries + 1
  /\ retries <= Retry

\* What is received, on the way or to come, when the line was clear at the last
\* send: one answer at most, and its value is reply.
OneReply ==
  /\ asked + Len(recvbuf) + Len(link) <= 1
  /\ \A j \in 1 .. Len(recvbuf) : recvbuf[j] = reply
  /\ \A j \in 1 .. Len(link) : link[j] = reply

\* A command that is linked, or will be, and not at the cursor was never started; the one at the
\* cursor runs until it was told something or is aborted.
Started ==
  /\ \A c \in Linked \cup made : c # cursor => work[c] \in {"ready", "abort"}
  /\ cursor # NoCmd /\ stage # "recycle" => work[cursor] \in {"run", "abort"}

\* What the callback is told, while told is what it was told.
Outcome ==
  /\ told \in Answers => sends > 0
  /\ told \in Answers /\ clear => told = reply /\ asked = 0
  /\ told \in {"error", "timeout"} => sends = Retry + 1
  /\ stage = "recycle" => told # "none" \/ work[cursor] = "abort"

ChatInv ==
  /\ ChatTyped
  /\ stage # "poll" => cursor # NoCmd
  /\ stage # "recycle" /\ cursor # NoCmd => told = "none" /\ Tries
  /\ clear /\ sends > 0 => OneReply
  /\ Started
  /\ Outcome

-----------------------------------------------------------------------------
\* The two queues: each holds its own commands, once.
QueuesSound(l) ==
  /\ DOMAIN l = {"high", "low"}
  /\ \A q \in {"high", "low"} : /\ l[q] \in Seq(Cmd) /\ IsInjective(l[q])
                               /\ \A c \in Range(l[q]) : QueueOf(c) = q

LinkedOf(l) == Range(l["high"]) \cup Range(l["low"])

\* What is typed apart from the queues.
Rest ==
  /\ stage \in {"poll", "handle", "recycle"}
  /\ work \in [Cmd -> {"ready", "run", "finish", "abort"}]
  /\ state \in {"send", "recv", "retry"} /\ retries \in 0 .. Retry + 1
  /\ age \in 0 .. MaxAge
  /\ recvbuf \in Seq(Answers) /\ link \in Seq(Answers)
  /\ asked \in Nat /\ asked + Len(link) <= MaxAsked
  /\ sends \in 0 .. Retry + 1 /\ clear \in BOOLEAN
  /\ reply \in Answers \cup {"none"}
  /\ told \in Answers \cup {"none", "timeout"}

LEMMA TypedIs ==
  ChatTyped <=> /\ list \in [{"high", "low"} -> Seq(Cmd)]
                /\ QueuesSound(list)
                /\ made \subseteq Cmd \ Linked
                /\ cursor \in Linked \cup {NoCmd}
                /\ Rest
BY DEF ChatTyped, QueuesSound, Rest

LEMMA TypedNext ==
  ASSUME list' \in [{"high", "low"} -> Seq(Cmd)], QueuesSound(list'),
         made' \subseteq Cmd \ Linked', cursor' \in Linked' \cup {NoCmd}, Rest'
  PROVE  ChatTyped'
BY DEF ChatTyped, QueuesSound, Rest

LEMMA LinkedFacts ==
  ASSUME NEW l, QueuesSound(l)
  PROVE  /\ LinkedOf(l) \subseteq Cmd
         /\ \A c \in LinkedOf(l) : c \in Range(l[QueueOf(c)])
<1>1. \A q \in {"high", "low"} : \A c \in Range(l[q]) : c \in Cmd /\ QueueOf(c) = q
  BY DEF QueuesSound, Range
<1> QED
  BY <1>1 DEF LinkedOf

LEMMA UnlinkKeeps ==
  ASSUME NEW s \in Seq(Cmd), IsInjective(s), NEW c \in Range(s)
  PROVE  /\ Unlinked(s, c) \in Seq(Cmd) /\ IsInjective(Unlinked(s, c))
         /\ Range(Unlinked(s, c)) = Range(s) \ {c}
<1>1. PICK p : p = CHOOSE n \in DOMAIN s : s[n] = c
  OBVIOUS
<1>2. p \in 1 .. Len(s) /\ s[p] = c /\ Unlinked(s, c) = RemoveAt(s, p)
  BY <1>1 DEF Range, Unlinked
<1> QED
  BY <1>2, InjectiveRemove

-----------------------------------------------------------------------------
LEMMA ChatInvInit ==
  ASSUME ChatInit
  PROVE  ChatInv
<1> USE ChatAssumption
<1>1. list["high"] = <<>> /\ list["low"] = <<>> /\ list \in [{"high", "low"} -> Seq(Cmd)]
  BY DEF ChatInit
<1>2. QueuesSound(list) /\ Linked = {}
  BY <1>1 DEF QueuesSound, Linked, Range, IsInjective
<1>3. Rest
  BY DEF ChatInit, Rest, MaxAge, Answers
<1>4. ChatTyped
  BY <1>1, <1>2, <1>3, TypedIs DEF ChatInit
<1> QED
  BY <1>2, <1>4 DEF ChatInit, ChatInv, Started, Outcome, Answers

\* The parts of ChatInv, for the steps below.
LEMMA ChatParts ==
  ASSUME ChatInv
  PROVE  /\ list \in [{"high", "low"} -> Seq(Cmd)]
         /\ QueuesSound(list)
         /\ made \subseteq Cmd /\ made \cap Linked = {}
         /\ cursor \in Linked \cup {NoCmd}
         /\ Linked \subseteq Cmd
         /\ cursor # NoCmd => cursor \in Cmd
         /\ Rest
<1>1. ChatTyped
  BY DEF ChatInv
<1>2. Linked \subseteq Cmd
  BY <1>1, TypedIs, LinkedFacts DEF Linked, LinkedOf
<1> QED
  BY <1>1, <1>2, TypedIs

LEMMA SubmitKeeps ==
  ASSUME ChatInv, NEW c \in Cmd, create_work_item(c) \/ sumit_work_item(c)
  PROVE  ChatInv'
<1> USE ChatParts
<1>1. CASE create_work_item(c)
  <2>1. /\ work' = [work EXCEPT ![c] = "ready"] /\ c \notin Linked /\ c \notin made
        /\ made' = made \cup {c}
        /\ UNCHANGED <<list, cursor, stage, state, retries, age, recvbuf, asked, link, sends,
                       clear, reply, told>>
    BY <1>1 DEF create_work_item, env, modem, history
  <2>2. Linked' = Linked /\ QueuesSound(list')
    BY <2>1 DEF Linked
  <2>3. \A d \in Cmd : work'[d] = IF d = c THEN "ready" ELSE work[d]
    BY <2>1 DEF Rest
  <2>4. Rest'
    BY <2>1 DEF Rest
  <2>5. ChatTyped'
    BY <2>1, <2>2, <2>4, TypedNext
  <2> QED
    BY <2>1, <2>2, <2>3, <2>5 DEF ChatInv, Started, Outcome, Tries, OneReply
<1>2. CASE sumit_work_item(c)
  <2>1. /\ c \in made /\ made' = made \ {c}
        /\ list' = [list EXCEPT ![QueueOf(c)] = Append(list[QueueOf(c)], c)]
        /\ UNCHANGED <<cursor, stage, work, state, retries, age, recvbuf, asked, link, sends,
                       clear, reply, told>>
    BY <1>2 DEF sumit_work_item, env, modem, history
  <2>2. QueueOf(c) \in {"high", "low"} /\ c \notin Linked
    BY <2>1 DEF QueueOf
  <2>3. PICK s : /\ s = list[QueueOf(c)] /\ s \in Seq(Cmd) /\ IsInjective(s)
                 /\ \A d \in Range(s) : QueueOf(d) = QueueOf(c)
    BY <2>2 DEF QueuesSound
  <2>4. c \notin Range(s)
    BY <2>2, <2>3 DEF Linked
  <2>5. /\ Append(s, c) \in Seq(Cmd) /\ IsInjective(Append(s, c))
        /\ Range(Append(s, c)) = Range(s) \cup {c}
    BY <2>3, <2>4, InjectiveAppend
  <2>6. PICK t : t = Append(s, c)
    OBVIOUS
  <2>7. /\ list' \in [{"high", "low"} -> Seq(Cmd)]
        /\ \A q \in {"high", "low"} : list'[q] = IF q = QueueOf(c) THEN t ELSE list[q]
    BY <2>1, <2>2, <2>3, <2>5, <2>6
  <2>8. QueuesSound(list')
    BY <2>2, <2>3, <2>5, <2>6, <2>7 DEF QueuesSound
  <2>9. Linked' = Linked \cup {c}
    BY <2>2, <2>3, <2>5, <2>6, <2>7 DEF Linked
  <2>10. Rest'
    BY <2>1 DEF Rest
  <2>11. ChatTyped'
    BY <2>1, <2>7, <2>8, <2>9, <2>10, TypedNext
  <2> QED
    BY <2>1, <2>9, <2>11 DEF ChatInv, Started, Outcome, Tries, OneReply
<1> QED
  BY <1>1, <1>2

\* Most steps leave the queues as they are.
LEMMA QueuesSame ==
  ASSUME ChatInv, UNCHANGED <<list, made>>, cursor' \in Linked \cup {NoCmd}, Rest'
  PROVE  ChatTyped' /\ Linked' = Linked
<1>1. Linked' = Linked
  BY DEF Linked
<1>2. ChatTyped'
  BY <1>1, ChatParts, TypedNext
<1> QED
  BY <1>1, <1>2

LEMMA AbortKeeps ==
  ASSUME ChatInv, at_work_abort_all
  PROVE  ChatInv'
<1> USE ChatParts
<1>1. /\ work' = [d \in Cmd |-> IF d \in Linked THEN "abort" ELSE work[d]]
      /\ UNCHANGED <<list, made, cursor, stage, state, retries, age, recvbuf, asked, link, sends,
                     clear, reply, told>>
  BY DEF at_work_abort_all, env, modem, history
<1>2. \A d \in Cmd : work'[d] = IF d \in Linked THEN "abort" ELSE work[d]
  BY <1>1
<1>3. Rest'
  BY <1>1 DEF Rest
<1>4. ChatTyped' /\ Linked' = Linked
  BY <1>1, <1>3, QueuesSame
<1> QED
  BY <1>1, <1>2, <1>4 DEF ChatInv, Started, Outcome, Tries, OneReply

-----------------------------------------------------------------------------
(* The polling thread *)

LEMMA SubSeqFacts ==
  ASSUME NEW S, NEW s \in Seq(S), NEW n \in 0 .. Len(s)
  PROVE  /\ SubSeq(s, 1, n) \in Seq(S) /\ SubSeq(s, n + 1, Len(s)) \in Seq(S)
         /\ Len(SubSeq(s, 1, n)) = n /\ Len(SubSeq(s, n + 1, Len(s))) = Len(s) - n
         /\ \A j \in 1 .. n : SubSeq(s, 1, n)[j] = s[j]
         /\ \A j \in 1 .. Len(s) - n : SubSeq(s, n + 1, Len(s))[j] = s[n + j]
<1>1. /\ SubSeq(s, 1, n) \in Seq(S) /\ Len(SubSeq(s, 1, n)) = n
      /\ \A j \in 1 .. n : SubSeq(s, 1, n)[j] = s[j]
  BY SubSeqProperties
<1>2. /\ SubSeq(s, n + 1, Len(s)) \in Seq(S) /\ Len(SubSeq(s, n + 1, Len(s))) = Len(s) - n
      /\ \A j \in 1 .. Len(s) - n : SubSeq(s, n + 1, Len(s))[j] = s[n + j]
  BY SubSeqProperties
<1> QED
  BY <1>1, <1>2

\* The first n answers on the way are read: what is received, and what is left.
LEMMA ReadFacts ==
  ASSUME link \in Seq(Answers), recvbuf \in Seq(Answers), NEW n \in 0 .. Len(link)
  PROVE  /\ recvbuf \o SubSeq(link, 1, n) \in Seq(Answers)
         /\ Len(recvbuf \o SubSeq(link, 1, n)) = Len(recvbuf) + n
         /\ \A j \in 1 .. Len(recvbuf) + n :
              (recvbuf \o SubSeq(link, 1, n))[j] =
                IF j <= Len(recvbuf) THEN recvbuf[j] ELSE link[j - Len(recvbuf)]
         /\ SubSeq(link, n + 1, Len(link)) \in Seq(Answers)
         /\ Len(SubSeq(link, n + 1, Len(link))) = Len(link) - n
         /\ \A j \in 1 .. Len(link) - n : SubSeq(link, n + 1, Len(link))[j] = link[n + j]
<1>1. PICK l, b : l = link /\ b = recvbuf /\ l \in Seq(Answers) /\ b \in Seq(Answers)
  OBVIOUS
<1>2. n \in 0 .. Len(l) /\ Len(l) \in Nat /\ Len(b) \in Nat
  BY <1>1
<1>3. /\ SubSeq(l, 1, n) \in Seq(Answers) /\ SubSeq(l, n + 1, Len(l)) \in Seq(Answers)
      /\ Len(SubSeq(l, 1, n)) = n /\ Len(SubSeq(l, n + 1, Len(l))) = Len(l) - n
      /\ \A j \in 1 .. n : SubSeq(l, 1, n)[j] = l[j]
      /\ \A j \in 1 .. Len(l) - n : SubSeq(l, n + 1, Len(l))[j] = l[n + j]
  BY ONLY <1>1, <1>2, SubSeqFacts
<1> DEFINE s == SubSeq(l, 1, n)
<1>4. s \in Seq(Answers) /\ Len(s) = n /\ \A j \in 1 .. n : s[j] = l[j]
  BY <1>3
<1> HIDE DEF s
<1>5. /\ b \o s \in Seq(Answers) /\ Len(b \o s) = Len(b) + Len(s)
      /\ \A j \in 1 .. Len(b) + Len(s) :
           (b \o s)[j] = IF j <= Len(b) THEN b[j] ELSE s[j - Len(b)]
  BY ONLY <1>1, <1>4, ConcatProperties
<1>6. \A j \in 1 .. Len(b) + n : (b \o s)[j] = IF j <= Len(b) THEN b[j] ELSE l[j - Len(b)]
  BY ONLY <1>2, <1>4, <1>5
<1>7. Len(b \o s) = Len(b) + n
  BY ONLY <1>4, <1>5
<1>8. /\ b \o SubSeq(l, 1, n) \in Seq(Answers) /\ Len(b \o SubSeq(l, 1, n)) = Len(b) + n
      /\ \A j \in 1 .. Len(b) + n :
           (b \o SubSeq(l, 1, n))[j] = IF j <= Len(b) THEN b[j] ELSE l[j - Len(b)]
  BY ONLY <1>5, <1>6, <1>7 DEF s
<1> QED
  BY ONLY <1>1, <1>3, <1>8

LEMMA PollKeeps ==
  ASSUME ChatInv, Poll
  PROVE  ChatInv'
<1> USE ChatParts
<1>1. /\ stage = "poll" /\ cursor # NoCmd /\ stage' = "handle"
      /\ UNCHANGED <<list, made, cursor, work, state, retries, age, asked, sends, clear, reply,
                     told>>
  BY DEF Poll, history
<1>2. PICK n \in 0 .. Len(link) : /\ recvbuf' = recvbuf \o SubSeq(link, 1, n)
                                  /\ link' = SubSeq(link, n + 1, Len(link))
  BY DEF Poll, Receive
<1>3. recvbuf \in Seq(Answers) /\ link \in Seq(Answers) /\ asked \in Nat
  BY DEF Rest
<1>4. n \in Nat /\ Len(recvbuf) \in Nat /\ Len(link) \in Nat /\ n <= Len(link)
  BY <1>3
<1>5. /\ recvbuf' \in Seq(Answers) /\ Len(recvbuf') = Len(recvbuf) + n
      /\ \A j \in 1 .. Len(recvbuf) + n :
           recvbuf'[j] = IF j <= Len(recvbuf) THEN recvbuf[j] ELSE link[j - Len(recvbuf)]
  BY <1>2, <1>3, ReadFacts
<1>6. /\ link' \in Seq(Answers) /\ Len(link') = Len(link) - n
      /\ \A j \in 1 .. Len(link) - n : link'[j] = link[n + j]
  BY <1>2, <1>3, ReadFacts
<1>7. OneReply => OneReply'
  <2> SUFFICES ASSUME OneReply PROVE OneReply'
    OBVIOUS
  <2>1. /\ asked + Len(recvbuf) + Len(link) <= 1
        /\ \A j \in 1 .. Len(recvbuf) : recvbuf[j] = reply
        /\ \A j \in 1 .. Len(link) : link[j] = reply
    BY DEF OneReply
  <2>2. asked + Len(recvbuf') + Len(link') <= 1
    BY <1>3, <1>4, <1>5, <1>6, <2>1
  <2>3. ASSUME NEW j \in 1 .. Len(recvbuf') PROVE recvbuf'[j] = reply
    <3>1. j \in 1 .. Len(recvbuf) + n
      BY <1>5
    <3>2. CASE j <= Len(recvbuf)
      <4>1. j \in 1 .. Len(recvbuf)
        BY <3>1, <3>2, <1>4
      <4> QED
        BY <3>1, <3>2, <4>1, <2>1, <1>5
    <3>3. CASE ~(j <= Len(recvbuf))
      <4>1. j - Len(recvbuf) \in 1 .. Len(link)
        BY <3>1, <3>3, <1>4
      <4> QED
        BY <3>1, <3>3, <4>1, <2>1, <1>5
    <3> QED
      BY <3>2, <3>3
  <2>4. ASSUME NEW j \in 1 .. Len(link') PROVE link'[j] = reply
    <3>1. j \in 1 .. Len(link) - n /\ n + j \in 1 .. Len(link)
      BY <1>4, <1>6
    <3> QED
      BY <3>1, <2>1, <1>6
  <2> QED
    BY <1>1, <2>2, <2>3, <2>4 DEF OneReply
<1>8. asked' + Len(link') <= MaxAsked
  BY <1>1, <1>3, <1>4, <1>6, ChatAssumption DEF Rest
<1>9. Rest'
  BY <1>1, <1>5, <1>6, <1>8 DEF Rest
<1>10. ChatTyped' /\ Linked' = Linked
  BY <1>1, <1>9, QueuesSame
<1> QED
  BY <1>1, <1>7, <1>10 DEF ChatInv, Started, Outcome, Tries

LEMMA PollIdleKeeps ==
  ASSUME ChatInv, PollIdle
  PROVE  ChatInv'
<1> USE ChatParts
<1>1. /\ link # <<>> /\ link' = Tail(link)
      /\ UNCHANGED <<list, made, cursor, stage, work, state, retries, age, recvbuf, asked, sends,
                     clear, reply, told>>
  BY DEF PollIdle, env, history
<1>2. recvbuf \in Seq(Answers) /\ link \in Seq(Answers) /\ asked \in Nat
  BY DEF Rest
<1>3. link' \in Seq(Answers) /\ Len(link') = Len(link) - 1
      /\ \A j \in 1 .. Len(link') : link'[j] = link[j + 1] /\ j + 1 \in 1 .. Len(link)
  BY <1>1, <1>2
<1>4. OneReply => OneReply'
  BY <1>1, <1>2, <1>3 DEF OneReply
<1>5. asked' + Len(link') <= MaxAsked
  <2>1. Len(link) \in Nat /\ asked + Len(link) <= MaxAsked /\ asked' = asked
    BY <1>1, <1>2 DEF Rest
  <2> QED
    BY <2>1, <1>2, <1>3, ChatAssumption
<1>6. Rest'
  BY <1>1, <1>2, <1>3, <1>5 DEF Rest
<1>7. ChatTyped' /\ Linked' = Linked
  BY <1>1, <1>6, QueuesSame
<1> QED
  BY <1>1, <1>4, <1>7 DEF ChatInv, Started, Outcome, Tries

LEMMA StartKeeps ==
  ASSUME ChatInv, NEW c \in Cmd, Start(c)
  PROVE  ChatInv'
<1> USE ChatParts, ChatAssumption
<1>1. /\ stage = "poll" /\ cursor = NoCmd
      /\ IF list["high"] # <<>> THEN c = list["high"][1]
         ELSE list["low"] # <<>> /\ c = list["low"][1]
      /\ cursor' = c /\ stage' = "handle"
      /\ state' = "send" /\ retries' = 0 /\ age' = 0 /\ recvbuf' = <<>>
      /\ work' = [work EXCEPT ![c] = IF work[c] = "ready" THEN "run" ELSE work[c]]
      /\ sends' = 0 /\ clear' = TRUE /\ reply' = "none" /\ told' = "none"
      /\ UNCHANGED <<list, made, asked>>
  BY DEF Start
<1>2. PICK n \in 0 .. Len(link) : link' = SubSeq(link, n + 1, Len(link))
  BY DEF Start
<1>3. link' \in Seq(Answers) /\ asked' + Len(link') <= MaxAsked
  <2>1. link \in Seq(Answers) /\ recvbuf \in Seq(Answers) /\ asked \in Nat
    BY DEF Rest
  <2>2. link' \in Seq(Answers) /\ Len(link') = Len(link) - n
    BY <1>2, <2>1, ReadFacts
  <2>3. Len(link) \in Nat /\ n \in Nat /\ asked + Len(link) <= MaxAsked /\ asked' = asked
    BY <1>1, <2>1 DEF Rest
  <2> QED
    BY <2>1, <2>2, <2>3
<1>4. c \in Linked
  <2>1. ASSUME NEW s \in Seq(Cmd), s # <<>> PROVE s[1] \in Range(s)
    <3>1. 1 \in DOMAIN s
      BY <2>1
    <3> QED
      BY <3>1 DEF Range
  <2>2. list["high"] \in Seq(Cmd) /\ list["low"] \in Seq(Cmd)
    BY DEF QueuesSound
  <2> QED
    BY <1>1, <2>1, <2>2 DEF Linked
<1>5. /\ work[c] \in {"ready", "abort"}
      /\ \A d \in Cmd : work'[d] = IF d # c THEN work[d]
                                   ELSE IF work[d] = "ready" THEN "run" ELSE work[d]
  BY <1>1, <1>4 DEF ChatInv, Started, Rest
<1>6. work' \in [Cmd -> {"ready", "run", "finish", "abort"}]
  BY <1>1, <1>5 DEF Rest
<1>7. Rest'
  <2>1. 0 \in 0 .. MaxAge /\ 0 \in 0 .. Retry + 1
    BY DEF MaxAge
  <2>2. recvbuf' \in Seq(Answers) /\ asked' \in Nat
    BY <1>1 DEF Rest
  <2> QED
    BY <1>1, <1>3, <1>6, <2>1, <2>2 DEF Rest
<1>8. ChatTyped' /\ Linked' = Linked
  BY <1>1, <1>4, <1>7, QueuesSame
<1>9. Started'
  BY <1>1, <1>5, <1>8 DEF ChatInv, Started
<1> QED
  BY <1>1, <1>8, <1>9 DEF ChatInv, Outcome, Tries, Answers

LEMMA StoppedKeeps ==
  ASSUME ChatInv, Stopped
  PROVE  ChatInv'
<1> USE ChatParts
<1>1. /\ stage = "handle" /\ work[cursor] \in {"finish", "abort"} /\ stage' = "recycle"
      /\ UNCHANGED <<list, made, cursor, work, state, retries, age, recvbuf, asked, link, sends,
                     clear, reply, told>>
  BY DEF Stopped, env, modem, history
<1>2. cursor # NoCmd /\ work[cursor] = "abort"
  BY <1>1 DEF ChatInv, Started
<1>3. Rest'
  BY <1>1 DEF Rest
<1>4. ChatTyped' /\ Linked' = Linked
  BY <1>1, <1>3, QueuesSame
<1> QED
  BY <1>1, <1>2, <1>4 DEF ChatInv, Started, Outcome, Tries, OneReply

LEMMA SendKeepsInv ==
  ASSUME ChatInv, Send
  PROVE  ChatInv'
<1> USE ChatParts, ChatAssumption
<1>1. /\ stage = "handle" /\ state = "send" /\ state' = "recv" /\ age' = 0 /\ recvbuf' = <<>>
      /\ asked' \in {asked, asked + 1} /\ asked' + Len(link) <= MaxAsked
      /\ sends' = sends + 1 /\ reply' = "none"
      /\ clear' = (asked = 0 /\ link = <<>>)
      /\ stage' = "poll"
      /\ UNCHANGED <<list, made, cursor, work, retries, link, told>>
  BY DEF Send, Handling, Asked, Again
<1>2. cursor # NoCmd /\ told = "none" /\ sends = retries /\ retries <= Retry
  BY <1>1 DEF ChatInv, Tries
<1>3. asked \in Nat /\ retries \in Nat
  BY DEF Rest
<1>4. clear' \in BOOLEAN
  BY <1>1
<1>5. Rest'
  BY <1>1, <1>2, <1>3, <1>4 DEF Rest, MaxAge
<1>6. ChatTyped' /\ Linked' = Linked
  BY <1>1, <1>5, QueuesSame
<1>7. clear' => OneReply'
  <2>1. SUFFICES ASSUME asked = 0, link = <<>> PROVE OneReply'
    BY <1>1
  <2>2. Len(recvbuf') = 0 /\ Len(link') = 0 /\ asked' \in {0, 1}
    BY <1>1, <2>1
  <2>3. PICK x, y, z : x = asked' /\ y = Len(recvbuf') /\ z = Len(link')
    OBVIOUS
  <2>4. x \in {0, 1} /\ y = 0 /\ z = 0
    BY ONLY <2>2, <2>3
  <2>5. x + y + z <= 1
    BY ONLY <2>4
  <2>6. asked' + Len(recvbuf') + Len(link') <= 1
    BY ONLY <2>3, <2>5
  <2>7. 1 .. Len(recvbuf') = {} /\ 1 .. Len(link') = {}
    BY ONLY <2>2
  <2> QED
    BY ONLY <2>6, <2>7 DEF OneReply
<1>8. Tries'
  BY <1>1, <1>2, <1>3 DEF Tries
<1>9. Started' /\ Outcome'
  BY <1>1, <1>2, <1>6 DEF ChatInv, Started, Outcome, Answers
<1> QED
  BY <1>1, <1>2, <1>6, <1>7, <1>8, <1>9 DEF ChatInv

\* While an answer is waited for: what is received counts, and is the last.
LEMMA Received ==
  ASSUME ChatInv, Handling, state = "recv", recvbuf # <<>>
  PROVE  /\ cursor \in Cmd /\ told = "none" /\ sends = retries + 1 /\ retries <= Retry
         /\ retries \in Nat
         /\ clear => asked = 0 /\ \A a \in Range(recvbuf) : a = reply
<1> USE ChatParts
<1>1. /\ cursor \in Cmd /\ told = "none" /\ sends = retries + 1 /\ retries <= Retry
      /\ retries \in Nat
  BY DEF ChatInv, Tries, Handling, Rest
<1>2. ASSUME clear PROVE asked = 0 /\ \A a \in Range(recvbuf) : a = reply
  <2>1. OneReply
    BY <1>1, <1>2 DEF ChatInv
  <2>2. recvbuf \in Seq(Answers) /\ link \in Seq(Answers) /\ asked \in Nat
    BY DEF Rest
  <2>3. Len(recvbuf) \in Nat \ {0} /\ Len(link) \in Nat /\ DOMAIN recvbuf = 1 .. Len(recvbuf)
    BY <2>2
  <2> QED
    BY <2>1, <2>2, <2>3 DEF OneReply, Range
<1> QED
  BY <1>1, <1>2

LEMMA ErrorKeeps ==
  ASSUME ChatInv, ReceiveError
  PROVE  ChatInv'
<1> USE ChatParts, ChatAssumption
<1>1. /\ Handling /\ state = "recv" /\ "error" \in Range(recvbuf)
      /\ retries' = retries + 1
      /\ UNCHANGED <<list, made, cursor, recvbuf, asked, link, sends, clear, reply>>
  BY DEF ReceiveError, modem
<1>2. stage = "handle" /\ work[cursor] = "run"
  BY <1>1 DEF Handling
<1>3. recvbuf # <<>>
  BY <1>1 DEF Range
<1>4. /\ cursor \in Cmd /\ told = "none" /\ sends = retries + 1 /\ retries <= Retry
      /\ retries \in Nat
      /\ clear => asked = 0 /\ \A a \in Range(recvbuf) : a = reply
  BY <1>1, <1>3, Received
<1>5. \/ /\ retries = Retry /\ told' = "error" /\ state' = state /\ age' = age
         /\ work' = [work EXCEPT ![cursor] = "finish"] /\ stage' = "recycle"
      \/ /\ retries < Retry /\ state' = "retry" /\ age' = 0
         /\ "ok" \in Range(recvbuf) /\ told' = "ok"
         /\ work' = [work EXCEPT ![cursor] = "finish"] /\ stage' = "recycle"
      \/ /\ retries < Retry /\ state' = "retry" /\ age' = 0
         /\ UNCHANGED <<told, work>> /\ stage' = "poll"
  BY <1>4 DEF ReceiveError, Tell, Again
<1>6. /\ work' \in [Cmd -> {"ready", "run", "finish", "abort"}]
      /\ \A d \in Cmd : d # cursor => work'[d] = work[d]
      /\ stage' = "poll" => work'[cursor] = "run"
  BY <1>2, <1>5 DEF Rest
<1>7. Rest'
  <2>1. told' \in Answers \cup {"none", "timeout"} /\ stage' \in {"poll", "handle", "recycle"}
    BY <1>4, <1>5 DEF Answers
  <2>2. state' \in {"send", "recv", "retry"} /\ age' \in 0 .. MaxAge
    <3>1. state \in {"send", "recv", "retry"} /\ age \in 0 .. MaxAge
      BY DEF Rest
    <3>2. 0 \in 0 .. MaxAge
      BY DEF MaxAge
    <3>3. (state' = state /\ age' = age) \/ (state' = "retry" /\ age' = 0)
      BY ONLY <1>5, Zenon
    <3> QED
      BY ONLY <3>1, <3>2, <3>3
  <2>3. retries' \in 0 .. Retry + 1
    BY <1>1, <1>4
  <2> QED
    BY <1>1, <1>6, <2>1, <2>2, <2>3 DEF Rest
<1>8. ChatTyped' /\ Linked' = Linked
  BY <1>1, <1>7, QueuesSame
<1>9. Started'
  BY <1>1, <1>4, <1>5, <1>6, <1>8 DEF ChatInv, Started
<1>10. Outcome'
  BY <1>1, <1>4, <1>5 DEF Outcome, Answers
<1>11. stage' # "recycle" => told' = "none" /\ Tries'
  BY <1>1, <1>4, <1>5 DEF Tries
<1>12. clear' /\ sends' > 0 => OneReply'
  BY <1>1 DEF ChatInv, OneReply
<1> QED
  BY <1>1, <1>4, <1>8, <1>9, <1>10, <1>11, <1>12 DEF ChatInv

LEMMA OkKeeps ==
  ASSUME ChatInv, ReceiveOk
  PROVE  ChatInv'
<1> USE ChatParts, ChatAssumption
<1>1. /\ Handling /\ state = "recv" /\ Range(recvbuf) = {"ok"}
      /\ told' = "ok" /\ work' = [work EXCEPT ![cursor] = "finish"] /\ stage' = "recycle"
      /\ UNCHANGED <<list, made, cursor, state, retries, age, recvbuf, asked, link, sends, clear,
                     reply>>
  BY DEF ReceiveOk, Tell, modem, env
<1>2. stage = "handle" /\ work[cursor] = "run"
  BY <1>1 DEF Handling
<1>3. recvbuf # <<>>
  BY <1>1 DEF Range
<1>4. /\ cursor \in Cmd /\ told = "none" /\ sends = retries + 1 /\ retries <= Retry
      /\ retries \in Nat
      /\ clear => asked = 0 /\ \A a \in Range(recvbuf) : a = reply
  BY <1>1, <1>3, Received
<1>5. /\ work' \in [Cmd -> {"ready", "run", "finish", "abort"}]
      /\ \A d \in Cmd : d # cursor => work'[d] = work[d]
  BY <1>1 DEF Rest
<1>6. Rest'
  BY <1>1, <1>5 DEF Rest, Answers
<1>7. ChatTyped' /\ Linked' = Linked
  BY <1>1, <1>6, QueuesSame
<1>8. Started'
  BY <1>1, <1>5, <1>7 DEF ChatInv, Started
<1>9. Outcome'
  BY <1>1, <1>4 DEF Outcome, Answers
<1>10. clear' /\ sends' > 0 => OneReply'
  BY <1>1 DEF ChatInv, OneReply
<1> QED
  BY <1>1, <1>4, <1>7, <1>8, <1>9, <1>10 DEF ChatInv

LEMMA NothingKeeps ==
  ASSUME ChatInv, ReceiveNothing
  PROVE  ChatInv'
<1> USE ChatParts, ChatAssumption
<1>1. /\ Handling /\ state = "recv" /\ recvbuf = <<>>
      /\ UNCHANGED <<list, made, cursor, age, recvbuf, asked, link, sends, clear, reply>>
  BY DEF ReceiveNothing, modem
<1>2. stage = "handle" /\ work[cursor] = "run"
  BY <1>1 DEF Handling
<1>3. /\ cursor \in Cmd /\ told = "none" /\ sends = retries + 1 /\ retries <= Retry
      /\ retries \in Nat
  BY <1>1, <1>2 DEF ChatInv, Tries, Rest
<1>4. \/ UNCHANGED <<state, retries, told, work>> /\ stage' = "poll"
      \/ /\ retries' = retries + 1 /\ retries = Retry /\ told' = "timeout" /\ UNCHANGED state
         /\ work' = [work EXCEPT ![cursor] = "finish"] /\ stage' = "recycle"
      \/ /\ retries' = retries + 1 /\ retries < Retry /\ state' = "send"
         /\ UNCHANGED <<told, work>> /\ stage' = "poll"
  BY <1>3 DEF ReceiveNothing, Tell, Again
<1>5. /\ work' \in [Cmd -> {"ready", "run", "finish", "abort"}]
      /\ \A d \in Cmd : d # cursor => work'[d] = work[d]
      /\ stage' = "poll" => work'[cursor] = "run"
  BY <1>2, <1>4 DEF Rest
<1>6. Rest'
  <2>1. told' \in Answers \cup {"none", "timeout"} /\ stage' \in {"poll", "handle", "recycle"}
    BY <1>3, <1>4
  <2>2. state' \in {"send", "recv", "retry"}
    BY <1>1, <1>4
  <2>3. retries' \in 0 .. Retry + 1
    BY <1>3, <1>4
  <2> QED
    BY <1>1, <1>5, <2>1, <2>2, <2>3 DEF Rest
<1>7. ChatTyped' /\ Linked' = Linked
  BY <1>1, <1>6, QueuesSame
<1>8. Started'
  BY <1>1, <1>3, <1>4, <1>5, <1>7 DEF ChatInv, Started
<1>9. Outcome'
  BY <1>1, <1>3, <1>4 DEF Outcome, Answers
<1>10. stage' # "recycle" => told' = "none" /\ Tries'
  BY <1>1, <1>3, <1>4 DEF Tries
<1>11. clear' /\ sends' > 0 => OneReply'
  BY <1>1 DEF ChatInv, OneReply
<1> QED
  BY <1>1, <1>3, <1>7, <1>8, <1>9, <1>10, <1>11 DEF ChatInv

LEMMA LaterKeeps ==
  ASSUME ChatInv, RetryLater
  PROVE  ChatInv'
<1> USE ChatParts
<1>1. /\ stage = "handle" /\ work[cursor] = "run" /\ state = "retry"
      /\ state' \in {"send", "retry"} /\ stage' = "poll"
      /\ UNCHANGED <<list, made, cursor, work, retries, age, recvbuf, asked, link, sends, clear,
                     reply, told>>
  BY DEF RetryLater, Handling, Again, modem
<1>2. Rest'
  BY <1>1 DEF Rest
<1>3. ChatTyped' /\ Linked' = Linked
  BY <1>1, <1>2, QueuesSame
<1> QED
  BY <1>1, <1>3 DEF ChatInv, Started, Outcome, Tries, OneReply

LEMMA RecycleKeeps ==
  ASSUME ChatInv, work_item_recycle
  PROVE  ChatInv'
<1> USE ChatParts
<1>1. /\ stage = "recycle"
      /\ list' = [list EXCEPT ![QueueOf(cursor)] = Unlinked(list[QueueOf(cursor)], cursor)]
      /\ cursor' = NoCmd /\ stage' = "poll"
      /\ UNCHANGED <<made, work, state, retries, age, recvbuf, asked, link, sends, clear, reply,
                     told>>
  BY DEF work_item_recycle, env, modem, history
<1>2. cursor \in Linked /\ QueueOf(cursor) \in {"high", "low"}
  BY <1>1 DEF ChatInv, QueueOf
<1>3. PICK s : /\ s = list[QueueOf(cursor)] /\ s \in Seq(Cmd) /\ IsInjective(s)
               /\ \A d \in Range(s) : QueueOf(d) = QueueOf(cursor)
  BY <1>2 DEF QueuesSound
<1>4. cursor \in Range(s)
  BY <1>2, <1>3 DEF Linked, QueuesSound
<1>5. PICK t : /\ t = Unlinked(s, cursor) /\ t \in Seq(Cmd) /\ IsInjective(t)
               /\ Range(t) = Range(s) \ {cursor}
  BY <1>3, <1>4, UnlinkKeeps
<1>6. /\ list' \in [{"high", "low"} -> Seq(Cmd)]
      /\ \A q \in {"high", "low"} : list'[q] = IF q = QueueOf(cursor) THEN t ELSE list[q]
  BY <1>1, <1>2, <1>3, <1>5
<1>7. QueuesSound(list')
  BY <1>2, <1>3, <1>5, <1>6 DEF QueuesSound
<1>8. Linked' = Linked \ {cursor}
  <2>1. \A q \in {"high", "low"} : q # QueueOf(cursor) => cursor \notin Range(list[q])
    BY DEF QueuesSound
  <2> QED
    BY <1>2, <1>3, <1>5, <1>6, <2>1 DEF Linked
<1>9. Rest'
  BY <1>1 DEF Rest
<1>10. ChatTyped'
  BY <1>1, <1>6, <1>7, <1>8, <1>9, TypedNext
<1> QED
  BY <1>1, <1>8, <1>10 DEF ChatInv, Started, Outcome, OneReply

-----------------------------------------------------------------------------
(* The modem, and time *)

LEMMA ModemKeeps ==
  ASSUME ChatInv, (\E a \in Answers : Answer(a)) \/ Silence
  PROVE  ChatInv'
<1> USE ChatParts
<1>0. recvbuf \in Seq(Answers) /\ link \in Seq(Answers) /\ asked \in Nat
  BY DEF Rest
<1>1. CASE Silence
  <2>1. /\ asked > 0 /\ asked' = asked - 1
        /\ UNCHANGED <<list, made, cursor, stage, work, state, retries, age, recvbuf, link, sends,
                       clear, reply, told>>
    BY <1>1 DEF Silence, env, history
  <2>2. asked' \in Nat /\ asked' + Len(link') <= MaxAsked
    <3>1. Len(link) \in Nat /\ asked + Len(link) <= MaxAsked /\ link' = link
      BY <1>0, <2>1 DEF Rest
    <3> QED
      BY <3>1, <2>1, <1>0, ChatAssumption
  <2>3. Rest'
    BY <2>1, <2>2 DEF Rest
  <2>4. ChatTyped' /\ Linked' = Linked
    BY <2>1, <2>3, QueuesSame
  <2>5. OneReply => OneReply'
    BY <2>1, <1>0 DEF OneReply
  <2>6. Outcome'
    BY <2>1 DEF ChatInv, Outcome
  <2> QED
    BY <2>1, <2>4, <2>5, <2>6 DEF ChatInv, Started, Tries
<1>2. ASSUME NEW a \in Answers, Answer(a) PROVE ChatInv'
  <2>1. /\ asked > 0 /\ asked' = asked - 1 /\ link' = Append(link, a) /\ reply' = a
        /\ UNCHANGED <<list, made, cursor, stage, work, state, retries, age, recvbuf, sends,
                       clear, told>>
    BY <1>2 DEF Answer, env
  <2>2. /\ link' \in Seq(Answers) /\ Len(link') = Len(link) + 1
        /\ link'[Len(link) + 1] = a
    BY <2>1, <1>0
  <2>3. Rest'
    BY <2>1, <2>2, <1>0 DEF Rest
  <2>4. ChatTyped' /\ Linked' = Linked
    BY <2>1, <2>3, QueuesSame
  <2>5. OneReply => OneReply'
    <3> SUFFICES ASSUME OneReply PROVE OneReply'
      OBVIOUS
    <3>1. Len(recvbuf) = 0 /\ Len(link) = 0 /\ asked = 1
      BY <2>1, <1>0 DEF OneReply
    <3> QED
      BY <2>1, <2>2, <3>1 DEF OneReply
  <2>6. Outcome'
    BY <2>1 DEF ChatInv, Outcome
  <2> QED
    BY <2>1, <2>4, <2>5, <2>6 DEF ChatInv, Started, Tries
<1> QED
  BY <1>1, <1>2

LEMMA ChatTickKeeps ==
  ASSUME ChatInv, ChatTick
  PROVE  ChatInv'
<1> USE ChatParts, ChatAssumption
<1>1. /\ age < MaxAge /\ age' = age + 1
      /\ UNCHANGED <<list, made, cursor, stage, work, state, retries, recvbuf, asked, link, sends,
                     clear, reply, told>>
  BY DEF ChatTick, modem, history
<1>2. MaxAge \in Nat
  BY DEF MaxAge
<1>3. Rest'
  BY <1>1, <1>2 DEF Rest
<1>4. ChatTyped' /\ Linked' = Linked
  BY <1>1, <1>3, QueuesSame
<1> QED
  BY <1>1, <1>4 DEF ChatInv, Started, Outcome, Tries, OneReply

LEMMA ChatInvNext ==
  ASSUME ChatInv, [ChatNext]_chatVars
  PROVE  ChatInv'
<1>1. CASE UNCHANGED chatVars
  BY <1>1 DEF chatVars, env, modem, history, ChatInv, ChatTyped, Linked, Started, Outcome, Tries,
              OneReply
<1>2. CASE at_obj_process
  BY <1>2, PollKeeps, StartKeeps, PollIdleKeeps, StoppedKeeps, SendKeepsInv, ErrorKeeps, OkKeeps,
     NothingKeeps, LaterKeeps, RecycleKeeps DEF at_obj_process
<1> QED
  BY <1>1, <1>2, SubmitKeeps, AbortKeeps, ModemKeeps, ChatTickKeeps DEF ChatNext

LEMMA ChatInvariant == ChatSpec => []ChatInv
BY ChatInvInit, ChatInvNext, PTL DEF ChatSpec

\* The queues hold every command once and by its priority, and the counters of
\* the engine stay in their ranges (create_work_item, do_cmd_handler,
\* work_item_recycle).
THEOREM ChatTypes == ChatSpec => []ChatTyped
<1>1. ChatInv => ChatTyped
  BY DEF ChatInv
<1> QED
  BY <1>1, ChatInvariant, PTL

\* For any commands, threads that submit and abort them, number of retries and
\* modem: a callback is told the answer to the last time its command was sent, a
\* failure only after all retries, and a command that ends was told something or
\* was aborted (do_cmd_handler).
THEOREM ChatAnswers == ChatSpec => []OutcomeIsOwn
<1>1. ChatInv => OutcomeIsOwn
  BY DEF ChatInv, Outcome, OutcomeIsOwn
<1> QED
  BY <1>1, ChatInvariant, PTL

-----------------------------------------------------------------------------
(* The configuration: what one thread does to the page from reading it to    *)
(* the end of writing it is one change, and only a failure of the power or   *)
(* the other thread can get in between.                                      *)

\* The page with all that was set, and the flag.
Complete == [set EXCEPT ![Flag] = Header]

IsPage(cells) == cells = [c \in Page |-> cells[c]]

ConfigTyped ==
  /\ power \in {"off", "init", "factory", "expiry", "on"}
  /\ doing \in [User -> {"idle", "record", "erase", "write"}]
  /\ doing["hr"] # "record"
  /\ spoiled \in BOOLEAN
  /\ IsPage(config) /\ IsPage(set)
  /\ DOMAIN buf = User /\ \A t \in User : IsPage(buf[t])

\* Before the threads run only the shell's code does, and without power none.
StartsAlone ==
  /\ power # "on" => doing["hr"] = "idle"
  /\ power = "off" => doing["shell"] = "idle"

\* The shell's record and its change of the configuration exclude each other, so
\* the two threads overlap only where both change the configuration.
OneChanges == ~ spoiled => \E t \in User : ~ Changing(t)

\* Who changes the page has all of it in page_buf; from the erasure on it is
\* only there.
InHand ==
  ~ spoiled => \A t \in User :
    /\ Changing(t) => buf[t] = Complete
    /\ doing[t] = "write" => config = ErasedConfig

\* Otherwise the page is complete, but for a start that has not set the flag.
PageComplete ==
  ~ spoiled /\ (\A t \in User : ~ Changing(t)) =>
    IF power = "off" THEN config[Flag] = Header => config = Complete
                     ELSE config = Complete

FlashInv == ConfigTyped /\ StartsAlone /\ OneChanges /\ InHand /\ PageComplete

LEMMA PageFacts ==
  /\ IsPage(ErasedConfig)
  /\ \A cells : IsPage(cells) => DOMAIN cells = Page
  /\ \A cells, f, v : IsPage(cells) => IsPage([cells EXCEPT ![f] = v])
<1>1. IsPage(ErasedConfig)
  BY DEF IsPage, ErasedConfig
<1>2. ASSUME NEW cells, IsPage(cells) PROVE DOMAIN cells = Page
  BY <1>2 DEF IsPage
<1>3. ASSUME NEW cells, NEW f, NEW v, IsPage(cells)
      PROVE  IsPage([cells EXCEPT ![f] = v])
  BY <1>2, <1>3 DEF IsPage
<1> QED
  BY <1>1, <1>2, <1>3

LEMMA FlagThere ==
  ASSUME NEW cells, IsPage(cells), cells[Flag] = Header
  PROVE  [cells EXCEPT ![Flag] = Header] = cells
BY PageFacts DEF IsPage

\* What is programmed keeps the cells of the page; an erased page takes all of it.
LEMMA WritePage ==
  ASSUME NEW old, IsPage(old), NEW data, IsPage(data), NEW n \in Nat
  PROVE  /\ IsPage(Flash_Write(old, data, n))
         /\ old = ErasedConfig => Flash_Write(old, data, Flag) = data
<1>1. IsPage(Flash_Write(old, data, n))
  BY PageFacts DEF IsPage, Flash_Write
<1>2. ASSUME old = ErasedConfig PROVE Flash_Write(old, data, Flag) = data
  <2>1. \A c \in Page : c <= Flag /\ \A d \in 1 .. c : old[d] = Blank
    BY <1>2 DEF ErasedConfig, Page, Flag
  <2>2. Flash_Write(old, data, Flag) = [c \in Page |-> data[c]]
    BY <2>1, PageFacts DEF Flash_Write
  <2> QED
    BY <2>2 DEF IsPage
<1> QED
  BY <1>1, <1>2

LEMMA FlashInvInit ==
  ASSUME FlashInit
  PROVE  FlashInv
<1>1. /\ config = ErasedConfig /\ set = ErasedConfig /\ power = "off" /\ spoiled = FALSE
      /\ doing = [t \in User |-> "idle"] /\ buf = [t \in User |-> ErasedConfig]
  BY DEF FlashInit
<1>2. config[Flag] = Header => config = Complete
  BY <1>1, PageFacts, FlagThere DEF Complete
<1>3. ConfigTyped
  BY <1>1, PageFacts DEF ConfigTyped, User
<1> QED
  BY <1>1, <1>2, <1>3 DEF FlashInv, StartsAlone, OneChanges, InHand, PageComplete, Changing, User

LEMMA RecordKeeps ==
  ASSUME FlashInv, WriteRecord \/ WriteRecordIndex \/ Flash_Erase_Records
  PROVE  FlashInv'
<1>1. /\ UNCHANGED <<config, buf, set, spoiled, power>> /\ power # "off"
      /\ doing'["hr"] = doing["hr"]
      /\ doing["shell"] \in {"idle", "record"} /\ doing'["shell"] \in {"idle", "record"}
      /\ doing' \in [User -> {"idle", "record", "erase", "write"}]
  BY DEF FlashInv, ConfigTyped, WriteRecord, WriteRecordIndex, Flash_Erase_Records, IsAt, GoesTo,
         settings, User
<1>2. \A t \in User : /\ Changing(t)' <=> Changing(t)
                      /\ doing'[t] = "write" <=> doing[t] = "write"
  BY <1>1 DEF Changing, User
<1>3. Complete' = Complete
  BY <1>1 DEF Complete
<1> QED
  BY <1>1, <1>2, <1>3 DEF FlashInv, ConfigTyped, StartsAlone, OneChanges, InHand, PageComplete

\* The page is read, and a field of what was read changed.
LEMMA ReadKeeps ==
  ASSUME FlashInv, NEW t \in User, NEW f \in Field, NEW v,
         power # "off", doing[t] = "idle", MayRun(t), UNCHANGED config,
         spoiled' = (spoiled \/ \E u \in User : Changing(u)),
         ReadConfigInfo(t, f, v), GoesTo(t, "erase"),
         power' \in {"factory", "expiry", "on"}, power' # "on" => t = "shell"
  PROVE  FlashInv'
<1>1. /\ buf' = [buf EXCEPT ![t] = [config EXCEPT ![f] = v]]
      /\ set' = IF spoiled' THEN ErasedConfig ELSE [set EXCEPT ![f] = v]
      /\ doing' = [doing EXCEPT ![t] = "erase"]
  BY DEF ReadConfigInfo, GoesTo
<1>2. /\ doing' \in [User -> {"idle", "record", "erase", "write"}]
      /\ \A u \in User : doing'[u] = IF u = t THEN "erase" ELSE doing[u]
      /\ DOMAIN buf' = User
      /\ \A u \in User : buf'[u] = IF u = t THEN [config EXCEPT ![f] = v] ELSE buf[u]
  BY <1>1 DEF FlashInv, ConfigTyped
<1>3. ConfigTyped'
  BY <1>1, <1>2, PageFacts DEF FlashInv, ConfigTyped, User
<1>4. StartsAlone'
  BY <1>2 DEF FlashInv, StartsAlone, MayRun, User
<1>5. OneChanges' /\ InHand' /\ PageComplete'
  <2> SUFFICES ASSUME ~ spoiled' PROVE OneChanges' /\ InHand' /\ PageComplete'
    BY DEF OneChanges, InHand, PageComplete
  <2>1. ~ spoiled /\ \A u \in User : ~ Changing(u)
    OBVIOUS
  <2>2. config = Complete
    BY <2>1 DEF FlashInv, PageComplete
  <2>3. [config EXCEPT ![f] = v] = Complete'
    <3>1. IsPage(set) /\ set' = [set EXCEPT ![f] = v]
      BY <1>1 DEF FlashInv, ConfigTyped
    <3>2. PICK s : s = set
      OBVIOUS
    <3>3. PICK x : x = [s EXCEPT ![Flag] = Header]
      OBVIOUS
    <3>4. PICK y : y = [s EXCEPT ![f] = v]
      OBVIOUS
    <3>5. f # Flag /\ f \in Page /\ Flag \in Page /\ DOMAIN s = Page
      BY <3>1, <3>2, PageFacts DEF Field, Flag, Page
    <3>6. /\ x = [c \in Page |-> IF c = Flag THEN Header ELSE s[c]]
          /\ y = [c \in Page |-> IF c = f THEN v ELSE s[c]]
      BY ONLY <3>3, <3>4, <3>5
    <3>7. [x EXCEPT ![f] = v] = [y EXCEPT ![Flag] = Header]
      BY ONLY <3>5, <3>6
    <3>8. x = config /\ y = set'
      BY <2>2, <3>1, <3>2, <3>3, <3>4 DEF Complete
    <3> QED
      BY <3>7, <3>8 DEF Complete
  <2>4. \A u \in User : Changing(u)' <=> u = t
    BY <2>1, <1>2 DEF Changing
  <2>5. \A u \in User : doing'[u] # "write"
    BY <2>1, <1>2 DEF Changing
  <2> QED
    BY <1>2, <2>3, <2>4, <2>5 DEF OneChanges, InHand, PageComplete, User
<1> QED
  BY <1>3, <1>4, <1>5 DEF FlashInv

LEMMA SetKeeps ==
  ASSUME FlashInv, NEW t \in User, NEW f \in Field, SetField(t, f)
  PROVE  FlashInv'
<1>1. /\ power = "on" /\ doing[t] = "idle" /\ MayRun(t) /\ UNCHANGED <<config, power>>
      /\ spoiled' = (spoiled \/ \E u \in User : Changing(u))
      /\ ReadConfigInfo(t, f, "other") /\ GoesTo(t, "erase")
  BY DEF SetField, IsAt
<1> QED
  BY <1>1, ReadKeeps

LEMMA InitFieldKeeps ==
  ASSUME FlashInv, NEW f \in Field,
         \/ InitField("init", "factory", f) \/ InitField("factory", "expiry", f)
  PROVE  FlashInv'
<1>1. /\ power \in {"init", "factory"} /\ power' \in {"factory", "expiry"}
      /\ doing["shell"] = "idle" /\ UNCHANGED <<config, spoiled>>
      /\ ReadConfigInfo("shell", f, "default") /\ GoesTo("shell", "erase")
  BY DEF InitField, IsAt
<1>2. doing["hr"] = "idle"
  BY <1>1 DEF FlashInv, StartsAlone
<1>3. \A u \in User : ~ Changing(u)
  BY <1>1, <1>2 DEF Changing, User
<1>4. spoiled' = (spoiled \/ \E u \in User : Changing(u))
  BY <1>1, <1>3 DEF FlashInv, ConfigTyped
<1>5. MayRun("shell") /\ "shell" \in User
  BY <1>2 DEF MayRun, User
<1> QED
  BY <1>1, <1>4, <1>5, ReadKeeps

LEMMA EraseKeeps ==
  ASSUME FlashInv, NEW t \in User, EraseConfigInfo(t)
  PROVE  FlashInv'
<1>1. /\ power # "off" /\ doing[t] = "erase" /\ config' = ErasedConfig
      /\ doing' = [doing EXCEPT ![t] = "write"] /\ UNCHANGED <<power, buf, set, spoiled>>
  BY DEF EraseConfigInfo, IsAt, GoesTo
<1>2. /\ doing' \in [User -> {"idle", "record", "erase", "write"}]
      /\ \A u \in User : doing'[u] = IF u = t THEN "write" ELSE doing[u]
  BY <1>1 DEF FlashInv, ConfigTyped
<1>3. \A u \in User : Changing(u)' <=> Changing(u)
  BY <1>1, <1>2 DEF Changing
<1>4. Changing(t)
  BY <1>1 DEF Changing
<1>5. ConfigTyped'
  BY <1>1, <1>2, PageFacts DEF FlashInv, ConfigTyped, User
<1>6. StartsAlone'
  BY <1>1, <1>2 DEF FlashInv, StartsAlone, User
<1>7. Complete' = Complete
  BY <1>1 DEF Complete
<1> QED
  BY <1>1, <1>2, <1>3, <1>4, <1>5, <1>6, <1>7 DEF FlashInv, OneChanges, InHand, PageComplete

LEMMA WriteKeeps ==
  ASSUME FlashInv, NEW t \in User, Flash_Write_ConfigInfo(t)
  PROVE  FlashInv'
<1>1. /\ power # "off" /\ doing[t] = "write" /\ config' = Flash_Write(config, buf[t], Flag)
      /\ buf' = [buf EXCEPT ![t] = ErasedConfig]
      /\ doing' = [doing EXCEPT ![t] = "idle"] /\ UNCHANGED <<power, set, spoiled>>
  BY DEF Flash_Write_ConfigInfo, IsAt, GoesTo
<1>2. /\ doing' \in [User -> {"idle", "record", "erase", "write"}]
      /\ \A u \in User : doing'[u] = IF u = t THEN "idle" ELSE doing[u]
      /\ DOMAIN buf' = User
      /\ \A u \in User : buf'[u] = IF u = t THEN ErasedConfig ELSE buf[u]
  BY <1>1 DEF FlashInv, ConfigTyped
<1>3. IsPage(config) /\ IsPage(buf[t]) /\ Flag \in Nat
  BY DEF FlashInv, ConfigTyped, Flag
<1>4. IsPage(config') /\ (config = ErasedConfig => config' = buf[t])
  BY <1>1, <1>3, WritePage
<1>5. ConfigTyped'
  BY <1>1, <1>2, <1>4, PageFacts DEF FlashInv, ConfigTyped, User
<1>6. StartsAlone'
  BY <1>1, <1>2 DEF FlashInv, StartsAlone, User
<1>7. OneChanges' /\ InHand' /\ PageComplete'
  <2> SUFFICES ASSUME ~ spoiled PROVE OneChanges' /\ InHand' /\ PageComplete'
    BY <1>1 DEF OneChanges, InHand, PageComplete
  <2>1. Changing(t) /\ \A u \in User : u # t => ~ Changing(u)
    BY <1>1 DEF FlashInv, OneChanges, Changing, User
  <2>2. config' = Complete /\ Complete' = Complete
    BY <1>1, <1>4, <2>1 DEF FlashInv, InHand, Complete
  <2>3. \A u \in User : ~ Changing(u)'
    BY <1>2, <2>1 DEF Changing
  <2>4. \A u \in User : doing'[u] # "write"
    BY <2>3 DEF Changing
  <2> QED
    BY <1>1, <2>2, <2>3, <2>4 DEF OneChanges, InHand, PageComplete, User
<1> QED
  BY <1>5, <1>6, <1>7 DEF FlashInv

LEMMA StartKeepsConfig ==
  ASSUME FlashInv, BSP_Flash_Init
  PROVE  FlashInv'
<1>1. power = "off" /\ UNCHANGED doing
  BY DEF BSP_Flash_Init
<1>2. \A u \in User : doing[u] = "idle" /\ ~ Changing(u) /\ ~ Changing(u)'
  BY <1>1 DEF FlashInv, StartsAlone, Changing, User
<1>3. CASE config[Flag] = Header
  <2>1. power' = "on" /\ UNCHANGED <<config, buf, set, spoiled>>
    BY <1>3 DEF BSP_Flash_Init, settings
  <2>2. ~ spoiled => config' = Complete'
    BY <1>1, <1>2, <1>3, <2>1 DEF FlashInv, PageComplete, Complete
  <2> QED
    BY <1>1, <1>2, <2>1, <2>2
       DEF FlashInv, ConfigTyped, StartsAlone, OneChanges, InHand, PageComplete, User
<1>4. CASE config[Flag] # Header
  <2>1. /\ power' = "init" /\ config' = [ErasedConfig EXCEPT ![Flag] = Header]
        /\ set' = ErasedConfig /\ spoiled' = FALSE /\ UNCHANGED buf
    BY <1>4 DEF BSP_Flash_Init
  <2>2. config' = Complete'
    BY <2>1 DEF Complete
  <2>3. ConfigTyped'
    BY <1>1, <2>1, PageFacts DEF FlashInv, ConfigTyped
  <2> QED
    BY <1>1, <1>2, <2>1, <2>2, <2>3
       DEF FlashInv, StartsAlone, OneChanges, InHand, PageComplete, User
<1> QED
  BY <1>3, <1>4

LEMMA DoneKeeps ==
  ASSUME FlashInv, InitDone
  PROVE  FlashInv'
<1>1. /\ power = "expiry" /\ power' = "on"
      /\ UNCHANGED <<doing, config, buf, set, spoiled>>
  BY DEF InitDone, settings
<1> QED
  BY <1>1 DEF FlashInv, ConfigTyped, StartsAlone, OneChanges, InHand, PageComplete, Changing,
              Complete

\* The power fails: an incomplete page is not held against what was set, nor is
\* a field that was to be changed.
LEMMA FailureKeeps ==
  ASSUME FlashInv, NEW n \in 0 .. 3, PowerFailure(n)
  PROVE  FlashInv'
<1> DEFINE label == IF doing["hr"] # "idle" THEN doing["hr"] ELSE doing["shell"]
           t == IF doing["hr"] # "idle" THEN "hr" ELSE "shell"
<1>1. /\ power # "off" /\ power' = "off"
      /\ doing' = [u \in User |-> "idle"] /\ buf' = [u \in User |-> ErasedConfig]
      /\ spoiled' = (spoiled \/ \E u \in User : doing[u] = "write")
      /\ \/ label = "record" /\ config' = config
            /\ set' = IF spoiled' THEN ErasedConfig ELSE set
         \/ label = "write" /\ config' = Flash_Write(config, buf[t], n) /\ set' = ErasedConfig
         \/ label \in {"idle", "erase"} /\ config' = config
            /\ set' = IF spoiled' THEN ErasedConfig ELSE config
  BY DEF PowerFailure, records
<1>2. t \in User /\ label = doing[t]
  BY DEF User
<1> HIDE DEF t
<1>3. IsPage(config) /\ IsPage(buf[t]) /\ IsPage(set) /\ n \in Nat
  BY <1>2 DEF FlashInv, ConfigTyped
<1>4. IsPage(Flash_Write(config, buf[t], n))
  BY <1>3, WritePage
<1>5. IsPage(config') /\ IsPage(set')
  BY <1>1, <1>3, <1>4, PageFacts
<1>6. ConfigTyped'
  BY <1>1, <1>5, PageFacts DEF FlashInv, ConfigTyped, User
<1>7. \A u \in User : doing'[u] = "idle" /\ ~ Changing(u)'
  BY <1>1 DEF Changing
<1>8. ASSUME ~ spoiled', config'[Flag] = Header PROVE config' = Complete'
  <2>1. ~ spoiled /\ \A u \in User : doing[u] # "write"
    BY <1>1, <1>8
  <2>2. CASE label = "record"
    <3>1. doing["hr"] = "idle" /\ doing["shell"] = "record"
      BY <2>2 DEF FlashInv, ConfigTyped
    <3>2. \A u \in User : ~ Changing(u)
      BY <3>1 DEF Changing, User
    <3>3. config = Complete
      BY <1>1, <2>1, <3>2 DEF FlashInv, PageComplete
    <3> QED
      BY <1>1, <1>8, <2>2, <3>3 DEF Complete
  <2>3. CASE label \in {"idle", "erase"}
    <3>1. config' = config /\ set' = config
      BY <1>1, <1>8, <2>3
    <3> QED
      BY <3>1, <1>3, <1>8, FlagThere DEF Complete
  <2>4. label # "write"
    BY <1>2, <2>1
  <2> QED
    BY <1>1, <2>2, <2>3, <2>4
<1> QED
  BY <1>1, <1>6, <1>7, <1>8
     DEF FlashInv, StartsAlone, OneChanges, InHand, PageComplete, User

LEMMA FlashInvNext ==
  ASSUME FlashInv, [FlashNext]_flashVars
  PROVE  FlashInv'
<1>1. CASE UNCHANGED flashVars
  BY <1>1 DEF flashVars, FlashInv, ConfigTyped, StartsAlone, OneChanges, InHand, PageComplete,
              Changing, Complete
<1>2. 1 \in Field /\ 2 \in Field
  BY DEF Field
<1> QED
  BY <1>1, <1>2, RecordKeeps, SetKeeps, EraseKeeps, WriteKeeps, StartKeepsConfig, DoneKeeps,
     InitFieldKeeps, FailureKeeps DEF FlashNext

LEMMA FlashInvariant == FlashSpec => []FlashInv
BY FlashInvInit, FlashInvNext, PTL DEF FlashSpec

\* For any kinds and sizes of the history, any number of power failures, at any
\* halfword, and any overlap of the shell and hr_thread: to change a field keeps
\* the others and the flag, but for the cases the code leaves open
\* (Flash_Set_AlarmLel, Flash_SetProductTimeLimit, BSP_Flash_Init).
THEOREM ConfigSafe == FlashSpec => []ConfigKept
<1>1. FlashInv => ConfigKept
  BY DEF FlashInv, PageComplete, ConfigKept, Complete
<1> QED
  BY <1>1, FlashInvariant, PTL

-----------------------------------------------------------------------------
(* The work queue: an item is in one list at most, and the lists, the flags  *)
(* and the timers tell the same of it, but for a call that is between its    *)
(* section and the start of the timer.  Calls on an item take turns and none *)
(* without a delay meets one that waits for it: without either an assertion  *)
(* of the code fails.                                                        *)

IsList(s) == s \in Seq(Item) /\ IsInjective(s)

LEMMA ListEmpty ==
  ASSUME NEW s, IsList(s)
  PROVE  s = <<>> <=> Range(s) = {}
<1>1. s \in Seq(Item) /\ DOMAIN s = 1 .. Len(s) /\ Len(s) \in Nat
  BY DEF IsList
<1>2. ASSUME s = <<>> PROVE Range(s) = {}
  BY <1>2 DEF Range
<1>3. ASSUME s # <<>> PROVE Range(s) # {}
  <2>1. 1 \in DOMAIN s
    BY <1>1, <1>3
  <2> QED
    BY <2>1 DEF Range
<1> QED
  BY <1>2, <1>3

LEMMA OffAnyList ==
  ASSUME NEW S, NEW s \in Seq(S), IsInjective(s), NEW k
  PROVE  /\ Unlink(s, k) \in Seq(S) /\ IsInjective(Unlink(s, k))
         /\ Range(Unlink(s, k)) = Range(s) \ {k}
<1>1. CASE k \notin Range(s)
  BY <1>1 DEF Unlink, Member, Range
<1>2. CASE k \in Range(s)
  <2>1. PICK p : p = CHOOSE n \in DOMAIN s : s[n] = k
    OBVIOUS
  <2>2. p \in 1 .. Len(s) /\ s[p] = k
    BY <1>2, <2>1 DEF Range
  <2>3. Unlink(s, k) = RemoveAt(s, p)
    BY <1>2, <2>1 DEF Unlink, Member, Range
  <2>4. /\ RemoveAt(s, p) \in Seq(S) /\ IsInjective(RemoveAt(s, p))
        /\ Range(RemoveAt(s, p)) = Range(s) \ {s[p]}
    BY ONLY <2>2, IsInjective(s), s \in Seq(S), InjectiveRemove
  <2> QED
    BY ONLY <2>2, <2>3, <2>4
<1> QED
  BY <1>1, <1>2

LEMMA OffList ==
  ASSUME NEW s, IsList(s), NEW k
  PROVE  IsList(Unlink(s, k)) /\ Range(Unlink(s, k)) = Range(s) \ {k}
BY OffAnyList DEF IsList

LEMMA OnList ==
  ASSUME NEW s, IsList(s), NEW k \in Item
  PROVE  /\ IsList(Append(Unlink(s, k), k))
         /\ Range(Append(Unlink(s, k), k)) = Range(s) \cup {k}
<1>1. PICK t : t = Unlink(s, k)
  OBVIOUS
<1>2. t \in Seq(Item) /\ IsInjective(t) /\ Range(t) = Range(s) \ {k}
  BY <1>1, OffList DEF IsList
<1>3. /\ Append(t, k) \in Seq(Item) /\ IsInjective(Append(t, k))
      /\ Range(Append(t, k)) = Range(t) \cup {k}
  BY <1>2, InjectiveAppend
<1> QED
  BY <1>1, <1>2, <1>3 DEF IsList

LEMMA FirstOnList ==
  ASSUME NEW s, IsList(s), NEW k \in Item
  PROVE  /\ IsList(<<k>> \o Unlink(s, k))
         /\ Range(<<k>> \o Unlink(s, k)) = Range(s) \cup {k}
<1>1. PICK t : t = Unlink(s, k)
  OBVIOUS
<1>2. t \in Seq(Item) /\ IsInjective(t) /\ Range(t) = Range(s) \ {k}
  BY <1>1, OffList DEF IsList
<1>3. PICK h, u : h = <<k>> /\ u = h \o t
  OBVIOUS
<1>4. h \in Seq(Item) /\ Len(h) = 1 /\ h[1] = k
  BY <1>3
<1>5. /\ u \in Seq(Item) /\ Len(u) = Len(h) + Len(t)
      /\ \A i \in 1 .. Len(h) + Len(t) : u[i] = IF i <= Len(h) THEN h[i] ELSE t[i - Len(h)]
  BY ONLY <1>2, <1>3, <1>4, ConcatProperties
<1>6. Len(t) \in Nat /\ DOMAIN t = 1 .. Len(t) /\ DOMAIN u = 1 .. Len(t) + 1
  BY <1>2, <1>4, <1>5
<1>7. u[1] = k /\ \A i \in 1 .. Len(t) : u[i + 1] = t[i]
  BY ONLY <1>4, <1>5, <1>6
<1>8. ASSUME NEW i \in 1 .. Len(t) + 1 PROVE i = 1 \/ \E j \in 1 .. Len(t) : i = j + 1
  <2>1. CASE i # 1
    <3>1. i - 1 \in 1 .. Len(t) /\ i = i - 1 + 1
      BY <2>1, <1>6
    <3> QED
      BY <3>1
  <2> QED
    BY <2>1
<1>9. Range(u) = Range(t) \cup {k}
  <2>1. \A v : v \in Range(u) <=> \E i \in 1 .. Len(t) + 1 : v = u[i]
    BY <1>6 DEF Range
  <2>2. \A v : v \in Range(t) <=> \E i \in 1 .. Len(t) : v = t[i]
    BY <1>6 DEF Range
  <2>3. 1 \in 1 .. Len(t) + 1 /\ \A i \in 1 .. Len(t) : i + 1 \in 1 .. Len(t) + 1
    BY <1>6
  <2>4. ASSUME NEW v PROVE v \in Range(u) <=> v \in Range(t) \/ v = k
    BY <2>1, <2>2, <2>3, <1>7, <1>8
  <2> QED
    BY <2>4
<1>10. IsInjective(u)
  <2>1. \A i \in 1 .. Len(t) : t[i] # k
    BY <1>2, <1>6 DEF Range
  <2>2. \A i, j \in 1 .. Len(t) : t[i] = t[j] => i = j
    BY <1>2, <1>6 DEF IsInjective
  <2>3. ASSUME NEW i \in 1 .. Len(t) + 1, NEW j \in 1 .. Len(t) + 1, u[i] = u[j] PROVE i = j
    BY <2>1, <2>2, <2>3, <1>7, <1>8
  <2> QED
    BY <2>3, <1>6 DEF IsInjective
<1> QED
  BY <1>1, <1>2, <1>3, <1>5, <1>9, <1>10 DEF IsList

LEMMA HeadOff ==
  ASSUME NEW s, IsList(s), s # <<>>
  PROVE  /\ Head(s) \in Item /\ Head(s) \in Range(s)
         /\ IsList(Tail(s)) /\ Range(Tail(s)) = Range(s) \ {Head(s)}
<1>1. /\ s \in Seq(Item) /\ IsInjective(s) /\ DOMAIN s = 1 .. Len(s) /\ Len(s) \in Nat \ {0}
      /\ Head(s) = s[1]
  BY DEF IsList
<1>2. PICK t : t = Tail(s)
  OBVIOUS
<1>3. /\ t \in Seq(Item) /\ DOMAIN t = 1 .. Len(s) - 1
      /\ \A i \in 1 .. Len(s) - 1 : t[i] = s[i + 1]
  BY <1>1, <1>2
<1>4. \A i, j \in 1 .. Len(s) : s[i] = s[j] => i = j
  BY <1>1 DEF IsInjective
<1>5. 1 \in 1 .. Len(s) /\ \A i \in 1 .. Len(s) - 1 : i + 1 \in 1 .. Len(s) /\ i + 1 # 1
  BY <1>1
<1>6. IsInjective(t)
  <2>1. ASSUME NEW i \in 1 .. Len(s) - 1, NEW j \in 1 .. Len(s) - 1, t[i] = t[j] PROVE i = j
    <3>1. i + 1 = j + 1
      BY <2>1, <1>3, <1>4, <1>5
    <3> QED
      BY <3>1
  <2> QED
    BY <2>1, <1>3 DEF IsInjective
<1>7. Range(t) = Range(s) \ {s[1]}
  <2>1. \A v : v \in Range(t) <=> \E i \in 1 .. Len(s) - 1 : v = t[i]
    BY <1>3 DEF Range
  <2>2. \A v : v \in Range(s) <=> \E i \in 1 .. Len(s) : v = s[i]
    BY <1>1 DEF Range
  <2>3. ASSUME NEW i \in 1 .. Len(s), i # 1 PROVE s[i] \in Range(t)
    <3>1. i - 1 \in 1 .. Len(s) - 1 /\ i = i - 1 + 1
      BY <2>3, <1>1
    <3>2. t[i - 1] = s[i]
      BY <3>1, <1>3
    <3> QED
      BY <3>1, <3>2, <2>1
  <2>4. ASSUME NEW v PROVE v \in Range(t) <=> v \in Range(s) /\ v # s[1]
    BY <2>1, <2>2, <2>3, <1>3, <1>4, <1>5
  <2> QED
    BY <2>4
<1> QED
  BY <1>1, <1>2, <1>3, <1>5, <1>6, <1>7 DEF IsList, Range

-----------------------------------------------------------------------------
\* A delayed submission has left its section and not started the timer yet.
Starting(k) == \E t \in Caller : caller[t] = "start" /\ arg[t] = k

QueueParts ==
  /\ IsList(work_list) /\ IsList(delayed_list)
  /\ work_current \in Item \cup {None}
  /\ workqueue \subseteq Item /\ submitting \subseteq Item /\ timer \subseteq Item
  /\ caller \in [Caller -> {"idle", "start", "sync", "wait"}]
  /\ arg \in [Caller -> Item \cup {None}]
  /\ promise \in [Item -> {"none", "queue", "delay"}]
  /\ worker_at \in {"fetch", "suspended", "run", "ack"}

ListsKept ==
  \A k \in Item :
    /\ promise[k] = "queue" <=> k \in Range(work_list)
    /\ promise[k] = "delay" <=> k \in Range(delayed_list)
    /\ promise[k] = "delay" <=> k \in submitting
    /\ promise[k] = "delay" => k \in workqueue

\* An item that waits for its delay has a timer or will get it: one of the two, and
\* from one caller.
TimersKept ==
  /\ \A k \in Item : /\ promise[k] = "delay" <=> (Starting(k) \/ k \in timer)
                     /\ ~ (Starting(k) /\ k \in timer)
  /\ \A t \in Caller : caller[t] = "start" => arg[t] \in Item
  /\ \A t, u \in Caller : caller[t] = "start" /\ caller[u] = "start" /\ arg[t] = arg[u]
                          => t = u

\* The worker sleeps with nothing in hand and nothing to do only.
WorkerAwake ==
  /\ worker_at # "run" => work_current = None
  /\ work_list # <<>> => worker_at # "suspended"

QueueInv == failed = FALSE /\ QueueParts /\ ListsKept /\ TimersKept /\ WorkerAwake

LEMMA QueueInvInit ==
  ASSUME QueueInit
  PROVE  QueueInv
<1>1. IsList(<<>>) /\ Range(<<>>) = {}
  BY DEF IsList, IsInjective, Range
<1>2. QueueParts
  BY <1>1 DEF QueueInit, QueueParts
<1>3. ListsKept
  BY <1>1 DEF QueueInit, ListsKept
<1>4. TimersKept
  BY DEF QueueInit, TimersKept, Starting
<1> QED
  BY <1>2, <1>3, <1>4 DEF QueueInv, QueueInit, WorkerAwake

LEMMA HasTimer ==
  ASSUME QueueInv, NEW k \in Item
  PROVE  /\ promise[k] = "delay" <=> (Starting(k) \/ k \in timer)
         /\ ~ (Starting(k) /\ k \in timer)
BY Zenon DEF QueueInv, TimersKept

\* One item stops waiting for a delay, and then it waits to be run or does not.
LEMMA Settled ==
  ASSUME QueueInv, NEW k \in Item, NEW p \in {"queue", "none"}, ~ Starting(k),
         IsList(work_list'), IsList(delayed_list'),
         Range(work_list') = IF p = "queue" THEN Range(work_list) \cup {k}
                                            ELSE Range(work_list) \ {k},
         Range(delayed_list') = Range(delayed_list) \ {k},
         promise' = [promise EXCEPT ![k] = p],
         submitting' = submitting \ {k}, timer' = timer \ {k},
         workqueue' \in {workqueue, workqueue \cup {k}, workqueue \ {k}},
         work_current' \in Item \cup {None}, worker_at' \in {"fetch", "suspended", "run", "ack"},
         UNCHANGED <<caller, arg, failed>>, WorkerAwake'
  PROVE  QueueInv'
<1>1. \A x \in Item : promise'[x] = IF x = k THEN p ELSE promise[x]
  BY DEF QueueInv, QueueParts
<1>2. \A x : Starting(x)' <=> Starting(x)
  BY DEF Starting
<1>3. QueueParts'
  BY DEF QueueInv, QueueParts
<1>4. ListsKept'
  <2> SUFFICES ASSUME NEW x \in Item
               PROVE  /\ promise'[x] = "queue" <=> x \in Range(work_list')
                      /\ promise'[x] = "delay" <=> x \in Range(delayed_list')
                      /\ promise'[x] = "delay" <=> x \in submitting'
                      /\ promise'[x] = "delay" => x \in workqueue'
    BY DEF ListsKept
  <2>1. CASE x = k
    BY <2>1, <1>1
  <2>2. CASE x # k
    BY <2>2, <1>1 DEF QueueInv, ListsKept
  <2> QED
    BY <2>1, <2>2
<1>5. TimersKept'
  <2>1. ASSUME NEW x \in Item
        PROVE  /\ promise'[x] = "delay" <=> (Starting(x) \/ x \in timer')
               /\ ~ (Starting(x) /\ x \in timer')
    <3>1. CASE x = k
      BY <3>1, <1>1
    <3>2. CASE x # k
      <4>1. promise'[x] = promise[x] /\ (x \in timer' <=> x \in timer)
        BY <3>2, <1>1
      <4>2. /\ promise[x] = "delay" <=> (Starting(x) \/ x \in timer)
            /\ ~ (Starting(x) /\ x \in timer)
        BY HasTimer
      <4> QED
        BY ONLY <4>1, <4>2
    <3> QED
      BY <3>1, <3>2
  <2>2. /\ \A t \in Caller : caller'[t] = "start" => arg'[t] \in Item
        /\ \A t, u \in Caller :
             caller'[t] = "start" /\ caller'[u] = "start" /\ arg'[t] = arg'[u] => t = u
    BY DEF QueueInv, TimersKept
  <2> QED
    BY <1>2, <2>1, <2>2 DEF TimersKept
<1> QED
  BY <1>3, <1>4, <1>5 DEF QueueInv

\* Steps that leave the items alone, and start or end no delayed submission.
LEMMA ItemsSame ==
  ASSUME QueueInv, UNCHANGED <<itemVars, failed>>,
         caller' \in [Caller -> {"idle", "start", "sync", "wait"}],
         arg' \in [Caller -> Item \cup {None}],
         \A t \in Caller : caller'[t] = "start" <=> caller[t] = "start",
         \A t \in Caller : caller[t] = "start" => arg'[t] = arg[t],
         work_current' \in Item \cup {None}, worker_at' \in {"fetch", "suspended", "run", "ack"},
         WorkerAwake'
  PROVE  QueueInv'
<1>1. \A x : Starting(x)' <=> Starting(x)
  BY DEF Starting
<1>2. UNCHANGED <<work_list, delayed_list, workqueue, submitting, timer, promise>>
  BY DEF itemVars
<1>3. QueueParts'
  BY <1>2 DEF QueueInv, QueueParts
<1>4. ListsKept'
  BY <1>2 DEF QueueInv, ListsKept
<1>5. /\ \A k \in Item : /\ promise'[k] = "delay" <=> (Starting(k)' \/ k \in timer')
                         /\ ~ (Starting(k)' /\ k \in timer')
      /\ \A t \in Caller : caller'[t] = "start" => arg'[t] \in Item
      /\ \A t, u \in Caller :
           caller'[t] = "start" /\ caller'[u] = "start" /\ arg'[t] = arg'[u] => t = u
  BY <1>1, <1>2 DEF QueueInv, TimersKept
<1> QED
  BY <1>3, <1>4, <1>5 DEF QueueInv, TimersKept

-----------------------------------------------------------------------------
(* The calls, which take turns *)

LEMMA MyTurn ==
  ASSUME TakeTurns, NEW t \in Caller, NEW k \in Item, Calls(t, k)
  PROVE  ~ failed /\ caller[t] = "idle" /\ ~ Starting(k)
BY DEF Calls, Turn, Starting

\* Resume wakes the worker if there may be something to do.
LEMMA ResumeWakes ==
  ASSUME QueueInv, Resume, UNCHANGED work_current
  PROVE  WorkerAwake' /\ worker_at' \in {"fetch", "suspended", "run", "ack"}
BY DEF QueueInv, QueueParts, WorkerAwake, Resume

LEMMA NoTimer ==
  ASSUME QueueInv, NEW k \in Item, k \notin submitting
  PROVE  k \notin timer
<1>1. promise[k] # "delay"
  BY DEF QueueInv, ListsKept
<1> QED
  BY <1>1, HasTimer

LEMMA DoworkKeeps ==
  ASSUME QueueInv, TakeTurns, KeepDelay, NEW t \in Caller, NEW k \in Item,
         rt_workqueue_dowork(t, k)
  PROVE  QueueInv'
<1>1. /\ Calls(t, k) /\ k \notin submitting /\ Resume
      /\ delayed_list' = Unlink(delayed_list, k)
      /\ UNCHANGED <<submitting, timer, work_current, caller, arg, failed>>
      /\ \/ /\ work_list' = Append(Unlink(work_list, k), k)
            /\ workqueue' = workqueue \cup {k}
            /\ promise' = [promise EXCEPT ![k] = "queue"]
         \/ /\ work_list' = Unlink(work_list, k)
            /\ promise' = [promise EXCEPT ![k] = "none"]
            /\ UNCHANGED workqueue
  BY DEF rt_workqueue_dowork, Promise, Undelayed
<1>2. ~ Starting(k)
  BY <1>1, MyTurn
<1>3. k \notin timer /\ submitting' = submitting \ {k} /\ timer' = timer \ {k}
  BY <1>1, NoTimer
<1>4. IsList(work_list) /\ IsList(delayed_list)
  BY DEF QueueInv, QueueParts
<1>5. IsList(delayed_list') /\ Range(delayed_list') = Range(delayed_list) \ {k}
  BY <1>1, <1>4, OffList
<1>6. WorkerAwake' /\ worker_at' \in {"fetch", "suspended", "run", "ack"}
  BY <1>1, ResumeWakes
<1>7. work_current' \in Item \cup {None}
  BY <1>1 DEF QueueInv, QueueParts
<1>8. PICK p \in {"queue", "none"} :
        /\ promise' = [promise EXCEPT ![k] = p]
        /\ IsList(work_list')
        /\ Range(work_list') = IF p = "queue" THEN Range(work_list) \cup {k}
                                              ELSE Range(work_list) \ {k}
        /\ workqueue' \in {workqueue, workqueue \cup {k}, workqueue \ {k}}
  <2>1. CASE promise' = [promise EXCEPT ![k] = "queue"] /\ work_list' = Append(Unlink(work_list, k), k)
             /\ workqueue' = workqueue \cup {k}
    <3>1. IsList(work_list') /\ Range(work_list') = Range(work_list) \cup {k}
      BY <2>1, <1>4, OnList
    <3> QED
      BY <2>1, <3>1
  <2>2. CASE promise' = [promise EXCEPT ![k] = "none"] /\ work_list' = Unlink(work_list, k)
             /\ UNCHANGED workqueue
    <3>1. IsList(work_list') /\ Range(work_list') = Range(work_list) \ {k}
      BY <2>2, <1>4, OffList
    <3> QED
      BY <2>2, <3>1
  <2> QED
    BY <1>1, <2>1, <2>2
<1> QED
  BY <1>1, <1>2, <1>3, <1>5, <1>6, <1>7, <1>8, Settled

LEMMA UrgentKeeps ==
  ASSUME QueueInv, TakeTurns, KeepDelay, NEW t \in Caller, NEW k \in Item,
         rt_workqueue_urgent_work(t, k)
  PROVE  QueueInv'
<1>1. /\ Calls(t, k) /\ k \notin submitting /\ Resume
      /\ delayed_list' = Unlink(delayed_list, k)
      /\ work_list' = <<k>> \o Unlink(work_list, k)
      /\ promise' = [promise EXCEPT ![k] = "queue"]
      /\ UNCHANGED <<workqueue, submitting, timer, work_current, caller, arg, failed>>
  BY DEF rt_workqueue_urgent_work, Promise, Undelayed
<1>2. ~ Starting(k)
  BY <1>1, MyTurn
<1>3. k \notin timer /\ submitting' = submitting \ {k} /\ timer' = timer \ {k}
  BY <1>1, NoTimer
<1>4. IsList(work_list) /\ IsList(delayed_list)
  BY DEF QueueInv, QueueParts
<1>5. IsList(delayed_list') /\ Range(delayed_list') = Range(delayed_list) \ {k}
  BY <1>1, <1>4, OffList
<1>6. WorkerAwake' /\ worker_at' \in {"fetch", "suspended", "run", "ack"}
  BY <1>1, ResumeWakes
<1>7. work_current' \in Item \cup {None}
  BY <1>1 DEF QueueInv, QueueParts
<1>8. IsList(work_list') /\ Range(work_list') = Range(work_list) \cup {k}
  BY <1>1, <1>4, FirstOnList
<1> QED
  BY <1>1, <1>2, <1>3, <1>5, <1>6, <1>7, <1>8, Settled

LEMMA CancelKeeps ==
  ASSUME QueueInv, TakeTurns, NEW t \in Caller, NEW k \in Item,
         rt_workqueue_cancel_work(t, k)
  PROVE  QueueInv'
<1>1. /\ Calls(t, k)
      /\ work_list' = Unlink(work_list, k) /\ delayed_list' = Unlink(delayed_list, k)
      /\ workqueue' = workqueue \ {k}
      /\ timer' = timer \ ({k} \cap submitting) /\ submitting' = submitting \ {k}
      /\ promise' = [x \in Item |-> IF x \in {k} THEN "none" ELSE promise[x]]
      /\ UNCHANGED <<work_current, worker_at, caller, arg, failed>>
  BY DEF rt_workqueue_cancel_work, Cancel
<1>2. ~ Starting(k)
  BY <1>1, MyTurn
<1>3. timer' = timer \ {k}
  BY <1>1, NoTimer
<1>4. IsList(work_list) /\ IsList(delayed_list)
  BY DEF QueueInv, QueueParts
<1>5. /\ IsList(delayed_list') /\ Range(delayed_list') = Range(delayed_list) \ {k}
      /\ IsList(work_list') /\ Range(work_list') = Range(work_list) \ {k}
  BY <1>1, <1>4, OffList
<1>6. WorkerAwake'
  BY <1>1, <1>4, <1>5, ListEmpty DEF QueueInv, WorkerAwake
<1>7. promise' = [promise EXCEPT ![k] = "none"]
  BY <1>1 DEF QueueInv, QueueParts
<1>8. work_current' \in Item \cup {None} /\ worker_at' \in {"fetch", "suspended", "run", "ack"}
  BY <1>1 DEF QueueInv, QueueParts
<1> QED
  BY <1>1, <1>2, <1>3, <1>5, <1>6, <1>7, <1>8, Settled
LEMMA DelayedKeeps ==
  ASSUME QueueInv, TakeTurns, NEW t \in Caller, NEW k \in Item,
         rt_workqueue_submit_work(t, k)
  PROVE  QueueInv'
<1>1. /\ Calls(t, k)
      /\ work_list' = Unlink(work_list, k)
      /\ delayed_list' = Append(Unlink(delayed_list, k), k)
      /\ timer' = timer \ {k} /\ submitting' = submitting \cup {k}
      /\ workqueue' = workqueue \cup {k}
      /\ promise' = [promise EXCEPT ![k] = "delay"]
      /\ caller' = [caller EXCEPT ![t] = "start"] /\ arg' = [arg EXCEPT ![t] = k]
      /\ UNCHANGED <<work_current, worker_at, failed>>
  BY DEF rt_workqueue_submit_work, Promise, Proceed
<1>2. ~ Starting(k) /\ caller[t] = "idle"
  BY <1>1, MyTurn
<1>3. IsList(work_list) /\ IsList(delayed_list)
  BY DEF QueueInv, QueueParts
<1>4. /\ IsList(work_list') /\ Range(work_list') = Range(work_list) \ {k}
      /\ IsList(delayed_list') /\ Range(delayed_list') = Range(delayed_list) \cup {k}
  BY <1>1, <1>3, OffList, OnList
<1>5. /\ \A u \in Caller : /\ caller'[u] = IF u = t THEN "start" ELSE caller[u]
                           /\ arg'[u] = IF u = t THEN k ELSE arg[u]
      /\ \A x \in Item : promise'[x] = IF x = k THEN "delay" ELSE promise[x]
  BY <1>1 DEF QueueInv, QueueParts
<1>6. \A x \in Item : Starting(x)' <=> Starting(x) \/ x = k
  BY <1>2, <1>5 DEF Starting
<1>7. QueueParts'
  <2>1. /\ caller' \in [Caller -> {"idle", "start", "sync", "wait"}]
        /\ arg' \in [Caller -> Item \cup {None}]
        /\ promise' \in [Item -> {"none", "queue", "delay"}]
    BY <1>1 DEF QueueInv, QueueParts
  <2> QED
    BY <1>1, <1>4, <2>1 DEF QueueInv, QueueParts
<1>8. ListsKept'
  <2> SUFFICES ASSUME NEW x \in Item
               PROVE  /\ promise'[x] = "queue" <=> x \in Range(work_list')
                      /\ promise'[x] = "delay" <=> x \in Range(delayed_list')
                      /\ promise'[x] = "delay" <=> x \in submitting'
                      /\ promise'[x] = "delay" => x \in workqueue'
    BY DEF ListsKept
  <2>1. CASE x = k
    BY <2>1, <1>1, <1>4, <1>5
  <2>2. CASE x # k
    BY <2>2, <1>1, <1>4, <1>5 DEF QueueInv, ListsKept
  <2> QED
    BY <2>1, <2>2
<1>9. TimersKept'
  <2>1. ASSUME NEW x \in Item
        PROVE  /\ promise'[x] = "delay" <=> (Starting(x)' \/ x \in timer')
               /\ ~ (Starting(x)' /\ x \in timer')
    <3>1. CASE x = k
      BY <3>1, <1>1, <1>5, <1>6
    <3>2. CASE x # k
      BY <3>2, <1>1, <1>5, <1>6, HasTimer
    <3> QED
      BY <3>1, <3>2
  <2>2. ASSUME NEW u \in Caller, caller'[u] = "start"
        PROVE  arg'[u] \in Item
    BY <2>2, <1>5 DEF QueueInv, TimersKept
  <2>3. ASSUME NEW u \in Caller, NEW v \in Caller, caller'[u] = "start", caller'[v] = "start",
               arg'[u] = arg'[v]
        PROVE  u = v
    <3>1. \A y \in Caller : caller[y] = "start" => arg[y] # k
      BY <1>2 DEF Starting
    <3> QED
      BY <2>3, <3>1, <1>5 DEF QueueInv, TimersKept
  <2> QED
    BY <2>1, <2>2, <2>3 DEF TimersKept
<1>10. WorkerAwake'
  BY <1>1, <1>3, <1>4, ListEmpty DEF QueueInv, WorkerAwake
<1> QED
  BY <1>1, <1>7, <1>8, <1>9, <1>10 DEF QueueInv

\* The item of a caller between the two parts of a delayed submission waits for its
\* delay, so that its timer is not detached.
LEMMA TimerStartKeeps ==
  ASSUME QueueInv, NEW t \in Caller, StartItsTimer(t)
  PROVE  QueueInv'
<1>1. PICK k \in Item : k = arg[t] /\ caller[t] = "start"
  BY DEF StartItsTimer, Reached, QueueInv, TimersKept
<1>2. Starting(k)
  BY <1>1 DEF Starting
<1>3. promise[k] = "delay" /\ k \notin timer
  BY <1>2, HasTimer
<1>4. k \in submitting
  BY <1>3 DEF QueueInv, ListsKept
<1>5. /\ timer' = timer \cup {k}
      /\ UNCHANGED <<work_list, delayed_list, workqueue, submitting, promise>>
      /\ UNCHANGED <<work_current, worker_at, failed>>
      /\ caller' = [caller EXCEPT ![t] = "idle"] /\ arg' = [arg EXCEPT ![t] = None]
  BY <1>1, <1>4 DEF StartItsTimer, Proceed
<1>6. \A u \in Caller : /\ caller'[u] = IF u = t THEN "idle" ELSE caller[u]
                        /\ u # t => arg'[u] = arg[u]
  BY <1>5 DEF QueueInv, QueueParts
<1>7. /\ caller' \in [Caller -> {"idle", "start", "sync", "wait"}]
      /\ arg' \in [Caller -> Item \cup {None}]
  BY <1>5 DEF QueueInv, QueueParts
<1>8. QueueParts' /\ ListsKept' /\ WorkerAwake'
  BY <1>5, <1>7 DEF QueueInv, QueueParts, ListsKept, WorkerAwake
<1>9. TimersKept'
  <2>1. \A u \in Caller : caller[u] = "start" /\ arg[u] = k => u = t
    BY <1>1 DEF QueueInv, TimersKept
  <2>2. \A x \in Item : Starting(x)' <=> Starting(x) /\ x # k
    BY <2>1, <1>1, <1>6 DEF Starting
  <2>3. ASSUME NEW x \in Item
        PROVE  /\ promise'[x] = "delay" <=> (Starting(x)' \/ x \in timer')
               /\ ~ (Starting(x)' /\ x \in timer')
    <3>1. CASE x = k
      BY <3>1, <2>2, <1>3, <1>5
    <3>2. CASE x # k
      BY <3>2, <2>2, <1>5, HasTimer
    <3> QED
      BY <3>1, <3>2
  <2>4. ASSUME NEW u \in Caller, caller'[u] = "start"
        PROVE  arg'[u] \in Item
    BY <2>4, <1>6 DEF QueueInv, TimersKept
  <2>5. ASSUME NEW u \in Caller, NEW v \in Caller, caller'[u] = "start", caller'[v] = "start",
               arg'[u] = arg'[v]
        PROVE  u = v
    BY <2>5, <1>6 DEF QueueInv, TimersKept
  <2> QED
    BY <2>3, <2>4, <2>5 DEF TimersKept
<1> QED
  BY <1>5, <1>8, <1>9 DEF QueueInv

LEMMA CancelAllKeeps ==
  ASSUME QueueInv, TakeTurns, NEW t \in Caller, rt_workqueue_cancel_all_work(t)
  PROVE  QueueInv'
<1>1. PICK ws : ws = Range(work_list) \cup Range(delayed_list)
  OBVIOUS
<1>2. /\ \A k \in Item : Calls(t, k)
      /\ work_list' = <<>> /\ delayed_list' = <<>>
      /\ workqueue' = workqueue \ ws
      /\ timer' = timer \ (ws \cap submitting) /\ submitting' = submitting \ ws
      /\ promise' = [k \in Item |-> IF k \in ws THEN "none" ELSE promise[k]]
      /\ UNCHANGED <<work_current, worker_at, caller, arg, failed>>
  BY <1>1 DEF rt_workqueue_cancel_all_work, Cancel
<1>3. \A k \in Item : ~ Starting(k)
  BY <1>2, MyTurn
<1>4. \A k \in Item : k \in ws <=> promise[k] # "none"
  BY <1>1 DEF QueueInv, QueueParts, ListsKept
<1>5. \A k \in Item : k \in timer => k \in ws /\ k \in submitting
  <2> SUFFICES ASSUME NEW k \in Item, k \in timer
               PROVE  k \in ws /\ k \in submitting
    OBVIOUS
  <2>1. promise[k] = "delay"
    BY HasTimer
  <2> QED
    BY <2>1, <1>4 DEF QueueInv, ListsKept
<1>6. \A k \in Item : promise'[k] = "none" /\ k \notin timer' /\ k \notin submitting'
  <2> SUFFICES ASSUME NEW k \in Item
               PROVE  promise'[k] = "none" /\ k \notin timer' /\ k \notin submitting'
    OBVIOUS
  <2>1. promise[k] \in {"none", "queue", "delay"}
    BY DEF QueueInv, QueueParts
  <2>2. promise'[k] = "none"
    BY <2>1, <1>2, <1>4
  <2>3. k \in submitting => k \in ws
    BY <1>4 DEF QueueInv, ListsKept
  <2> QED
    BY <2>2, <2>3, <1>2, <1>5
<1>7. IsList(<<>>) /\ Range(<<>>) = {}
  BY DEF IsList, IsInjective, Range
<1>8. QueueParts'
  <2>1. promise' \in [Item -> {"none", "queue", "delay"}]
    BY <1>2 DEF QueueInv, QueueParts
  <2> QED
    BY <1>2, <1>7, <2>1 DEF QueueInv, QueueParts
<1>9. ListsKept'
  BY <1>2, <1>6, <1>7 DEF ListsKept
<1>10. TimersKept'
  <2>1. \A x : Starting(x)' <=> Starting(x)
    BY <1>2 DEF Starting
  <2>2. \A k \in Item : /\ promise'[k] = "delay" <=> (Starting(k)' \/ k \in timer')
                        /\ ~ (Starting(k)' /\ k \in timer')
    BY <2>1, <1>3, <1>6
  <2>3. /\ \A u \in Caller : caller'[u] = "start" => arg'[u] \in Item
        /\ \A u, v \in Caller :
             caller'[u] = "start" /\ caller'[v] = "start" /\ arg'[u] = arg'[v] => u = v
    BY <1>2 DEF QueueInv, TimersKept
  <2> QED
    BY <2>2, <2>3 DEF TimersKept
<1>11. WorkerAwake'
  BY <1>2 DEF QueueInv, WorkerAwake
<1> QED
  BY <1>2, <1>8, <1>9, <1>10, <1>11 DEF QueueInv

\* A thread waits for the item that runs, or goes on to do so.
LEMMA SyncKeeps ==
  ASSUME QueueInv, NEW t \in Caller,
         (\E k \in Item : rt_workqueue_cancel_work_sync(t, k)) \/ TakeSem(t)
  PROVE  QueueInv'
<1>1. PICK at \in {"sync", "wait"}, a \in Item \cup {None} :
        /\ caller' = [caller EXCEPT ![t] = at] /\ arg' = [arg EXCEPT ![t] = a]
        /\ caller[t] # "start"
        /\ UNCHANGED <<itemVars, work_current, worker_at, failed>>
  <2>1. CASE \E k \in Item : rt_workqueue_cancel_work_sync(t, k)
    BY <2>1 DEF rt_workqueue_cancel_work_sync, Proceed, Calls
  <2>2. CASE TakeSem(t)
    <3>1. arg[t] \in Item \cup {None}
      BY DEF QueueInv, QueueParts
    <3> QED
      BY <2>2, <3>1 DEF TakeSem, Proceed, Reached
  <2> QED
    BY <2>1, <2>2
<1>2. /\ \A u \in Caller : caller'[u] = IF u = t THEN at ELSE caller[u]
      /\ \A u \in Caller : u # t => arg'[u] = arg[u]
      /\ caller' \in [Caller -> {"idle", "start", "sync", "wait"}]
      /\ arg' \in [Caller -> Item \cup {None}]
  BY <1>1 DEF QueueInv, QueueParts
<1>3. /\ \A u \in Caller : caller'[u] = "start" <=> caller[u] = "start"
      /\ \A u \in Caller : caller[u] = "start" => arg'[u] = arg[u]
  BY <1>1, <1>2
<1>4. /\ work_current' \in Item \cup {None}
      /\ worker_at' \in {"fetch", "suspended", "run", "ack"} /\ WorkerAwake'
  BY <1>1 DEF QueueInv, QueueParts, WorkerAwake, itemVars
<1> QED
  BY <1>1, <1>2, <1>3, <1>4, ItemsSame

-----------------------------------------------------------------------------
(* The timers and the worker *)

\* An item with a timer belongs to the queue, as _delayed_work_timeout_handler asserts.
LEMMA ExpiryKeeps ==
  ASSUME QueueInv, NEW k \in Item, _delayed_work_timeout_handler(k)
  PROVE  QueueInv'
<1>1. promise[k] = "delay" /\ ~ Starting(k)
  BY HasTimer DEF _delayed_work_timeout_handler
<1>2. k \in workqueue
  BY <1>1 DEF QueueInv, ListsKept
<1>3. /\ timer' = timer \ {k} /\ submitting' = submitting \ {k} /\ Resume
      /\ delayed_list' = Unlink(delayed_list, k)
      /\ \/ /\ work_list' = Append(Unlink(work_list, k), k)
            /\ promise' = [promise EXCEPT ![k] = "queue"]
         \/ /\ work_list' = Unlink(work_list, k)
            /\ promise' = [promise EXCEPT ![k] = "none"]
      /\ UNCHANGED <<workqueue, work_current, caller, arg, failed>>
  BY <1>2 DEF _delayed_work_timeout_handler, Promise
<1>4. IsList(work_list) /\ IsList(delayed_list)
  BY DEF QueueInv, QueueParts
<1>5. IsList(delayed_list') /\ Range(delayed_list') = Range(delayed_list) \ {k}
  BY <1>3, <1>4, OffList
<1>6. WorkerAwake' /\ worker_at' \in {"fetch", "suspended", "run", "ack"}
  BY <1>3, ResumeWakes
<1>7. work_current' \in Item \cup {None}
  BY <1>3 DEF QueueInv, QueueParts
<1>8. PICK p \in {"queue", "none"} :
        /\ promise' = [promise EXCEPT ![k] = p]
        /\ IsList(work_list')
        /\ Range(work_list') = IF p = "queue" THEN Range(work_list) \cup {k}
                                              ELSE Range(work_list) \ {k}
  <2>1. CASE /\ promise' = [promise EXCEPT ![k] = "queue"]
             /\ work_list' = Append(Unlink(work_list, k), k)
    <3>1. IsList(work_list') /\ Range(work_list') = Range(work_list) \cup {k}
      BY <2>1, <1>4, OnList
    <3> QED
      BY <2>1, <3>1
  <2>2. CASE /\ promise' = [promise EXCEPT ![k] = "none"]
             /\ work_list' = Unlink(work_list, k)
    <3>1. IsList(work_list') /\ Range(work_list') = Range(work_list) \ {k}
      BY <2>2, <1>4, OffList
    <3> QED
      BY <2>2, <3>1
  <2> QED
    BY <1>3, <2>1, <2>2
<1> QED
  BY <1>1, <1>3, <1>5, <1>6, <1>7, <1>8, Settled

LEMMA FetchKeeps ==
  ASSUME QueueInv, Fetch
  PROVE  QueueInv'
<1>1. PICK k : k = Head(work_list)
  OBVIOUS
<1>2. /\ worker_at = "fetch" /\ work_list # <<>>
      /\ work_current' = k /\ work_list' = Tail(work_list)
      /\ workqueue' = workqueue \ {k}
      /\ promise' = [promise EXCEPT ![k] = "none"] /\ worker_at' = "run"
      /\ UNCHANGED <<delayed_list, submitting, timer, caller, arg, failed>>
  BY <1>1 DEF Fetch, Promise, Working
<1>3. IsList(work_list) /\ IsList(delayed_list)
  BY DEF QueueInv, QueueParts
<1>4. /\ k \in Item /\ k \in Range(work_list)
      /\ IsList(work_list') /\ Range(work_list') = Range(work_list) \ {k}
  BY <1>1, <1>2, <1>3, HeadOff
<1>5. promise[k] = "queue"
  BY <1>4 DEF QueueInv, ListsKept
<1>6. k \notin submitting /\ k \notin Range(delayed_list)
  BY <1>4, <1>5 DEF QueueInv, ListsKept
<1>7. ~ Starting(k) /\ k \notin timer
  BY <1>4, <1>5, HasTimer
<1>8. /\ IsList(delayed_list') /\ Range(delayed_list') = Range(delayed_list) \ {k}
      /\ submitting' = submitting \ {k} /\ timer' = timer \ {k}
      /\ workqueue' \in {workqueue, workqueue \cup {k}, workqueue \ {k}}
      /\ work_current' \in Item \cup {None}
      /\ worker_at' \in {"fetch", "suspended", "run", "ack"} /\ WorkerAwake'
  BY <1>2, <1>3, <1>4, <1>6, <1>7 DEF WorkerAwake
<1> QED
  BY <1>2, <1>4, <1>7, <1>8, Settled

\* The worker falls asleep, ends an item or wakes those who wait for it.
LEMMA WorkerKeeps ==
  ASSUME QueueInv, Suspend \/ WorkDone \/ _workqueue_work_completion
  PROVE  QueueInv'
<1>1. CASE Suspend
  <2>1. WorkerAwake' /\ worker_at' = "suspended" /\ UNCHANGED <<itemVars, work_current, caller, arg, failed>>
    BY <1>1 DEF Suspend, Working, QueueInv, WorkerAwake, itemVars
  <2>2. /\ caller' \in [Caller -> {"idle", "start", "sync", "wait"}]
        /\ arg' \in [Caller -> Item \cup {None}] /\ work_current' \in Item \cup {None}
    BY <2>1 DEF QueueInv, QueueParts
  <2> QED
    BY <2>1, <2>2, ItemsSame
<1>2. CASE WorkDone
  <2>1. /\ WorkerAwake' /\ worker_at' = "ack" /\ work_current' = None
        /\ UNCHANGED <<itemVars, caller, arg, failed>>
    BY <1>2 DEF WorkDone, Working, QueueInv, WorkerAwake, itemVars
  <2>2. /\ caller' \in [Caller -> {"idle", "start", "sync", "wait"}]
        /\ arg' \in [Caller -> Item \cup {None}]
    BY <2>1 DEF QueueInv, QueueParts
  <2> QED
    BY <2>1, <2>2, ItemsSame
<1>3. CASE _workqueue_work_completion
  <2>1. /\ worker_at = "ack" /\ worker_at' = "fetch"
        /\ caller' = [t \in Caller |-> IF caller[t] = "wait" THEN "idle" ELSE caller[t]]
        /\ arg' = [t \in Caller |-> IF caller[t] = "wait" THEN None ELSE arg[t]]
        /\ UNCHANGED <<itemVars, work_current, failed>>
    BY <1>3 DEF _workqueue_work_completion, Working
  <2>2. WorkerAwake' /\ work_current' \in Item \cup {None}
    BY <2>1 DEF QueueInv, QueueParts, WorkerAwake, itemVars
  <2>3. /\ caller' \in [Caller -> {"idle", "start", "sync", "wait"}]
        /\ arg' \in [Caller -> Item \cup {None}]
    BY <2>1 DEF QueueInv, QueueParts
  <2>4. /\ \A t \in Caller : caller'[t] = "start" <=> caller[t] = "start"
        /\ \A t \in Caller : caller[t] = "start" => arg'[t] = arg[t]
    BY <2>1
  <2> QED
    BY <2>1, <2>2, <2>3, <2>4, ItemsSame
<1> QED
  BY <1>1, <1>2, <1>3

LEMMA QueueInvNext ==
  ASSUME TakeTurns, KeepDelay, QueueInv, [QueueNext]_queueVars
  PROVE  QueueInv'
<1>1. ASSUME NEW t \in Caller, NEW k \in Item,
             \/ rt_workqueue_dowork(t, k) \/ rt_workqueue_submit_work(t, k)
             \/ rt_workqueue_urgent_work(t, k) \/ rt_workqueue_cancel_work(t, k)
             \/ rt_workqueue_cancel_work_sync(t, k)
      PROVE  QueueInv'
  BY <1>1, DoworkKeeps, DelayedKeeps, UrgentKeeps, CancelKeeps, SyncKeeps
<1>2. ASSUME NEW t \in Caller, rt_workqueue_cancel_all_work(t)
      PROVE  QueueInv'
  BY <1>2, CancelAllKeeps
<1>3. ASSUME NEW t \in Caller, StartItsTimer(t)
      PROVE  QueueInv'
  BY <1>3, TimerStartKeeps
<1>4. ASSUME NEW t \in Caller, TakeSem(t)
      PROVE  QueueInv'
  BY <1>4, SyncKeeps
<1>5. ASSUME NEW k \in Item, _delayed_work_timeout_handler(k)
      PROVE  QueueInv'
  BY <1>5, ExpiryKeeps
<1>6. CASE _workqueue_thread_entry
  BY <1>6, FetchKeeps, WorkerKeeps DEF _workqueue_thread_entry
<1>7. CASE UNCHANGED queueVars
  <2>1. UNCHANGED <<work_list, delayed_list, workqueue, submitting, timer, promise>>
    BY <1>7 DEF queueVars, itemVars
  <2>2. UNCHANGED <<work_current, worker_at, caller, arg, failed>>
    BY <1>7 DEF queueVars
  <2> QED
    BY <2>1, <2>2 DEF QueueInv, QueueParts, ListsKept, TimersKept, Starting, WorkerAwake
<1> QED
  BY <1>1, <1>2, <1>3, <1>4, <1>5, <1>6, <1>7 DEF QueueNext

\* Between any callers, in any order of calls, expiries and steps of the worker, an
\* item is where the last call on it put it, and neither rt_timer_start nor
\* _delayed_work_timeout_handler meets a failing assertion.  Calls on one item wait
\* for each other and an item that waits for its delay is not submitted without one:
\* without these the assertion fails.
THEOREM QueueKeepsPromises ==
  ASSUME TakeTurns, KeepDelay
  PROVE  QueueSpec => []PromiseKept
<1>1. QueueInit => QueueInv
  BY QueueInvInit
<1>2. QueueInv /\ [QueueNext]_queueVars => QueueInv'
  BY QueueInvNext
<1>3. QueueInv => PromiseKept
  BY DEF QueueInv, ListsKept, TimersKept, WorkerAwake, PromiseKept, Starting
<1> QED
  BY <1>1, <1>2, <1>3, PTL DEF QueueSpec

LEMMA BothLists ==
  ASSUME NEW s, NEW u, IsList(s), IsList(u), Range(s) \cap Range(u) = {}
  PROVE  IsInjective(s \o u)
<1>1. PICK z : z = s \o u
  OBVIOUS
<1>2. /\ s \in Seq(Item) /\ u \in Seq(Item) /\ Len(s) \in Nat /\ Len(u) \in Nat
      /\ DOMAIN s = 1 .. Len(s) /\ DOMAIN u = 1 .. Len(u)
  BY DEF IsList
<1>3. /\ DOMAIN z = 1 .. Len(s) + Len(u)
      /\ \A i \in 1 .. Len(s) + Len(u) : z[i] = IF i <= Len(s) THEN s[i] ELSE u[i - Len(s)]
  BY <1>1, <1>2, ConcatProperties
<1>4. /\ \A i, j \in 1 .. Len(s) : s[i] = s[j] => i = j
      /\ \A i, j \in 1 .. Len(u) : u[i] = u[j] => i = j
  BY <1>2 DEF IsList, IsInjective
<1>5. \A i \in 1 .. Len(s), j \in 1 .. Len(u) : s[i] # u[j]
  BY <1>2 DEF Range
<1>6. ASSUME NEW i \in 1 .. Len(s) + Len(u), NEW j \in 1 .. Len(s) + Len(u), z[i] = z[j]
      PROVE  i = j
  <2>1. ASSUME NEW n \in 1 .. Len(s) + Len(u), n > Len(s)
        PROVE  n - Len(s) \in 1 .. Len(u)
    BY <2>1, <1>2
  <2>2. CASE i <= Len(s) /\ j <= Len(s)
    BY <2>2, <1>2, <1>3, <1>4, <1>6
  <2>3. CASE i <= Len(s) /\ j > Len(s)
    BY <2>1, <2>3, <1>2, <1>3, <1>5, <1>6
  <2>4. CASE i > Len(s) /\ j <= Len(s)
    BY <2>1, <2>4, <1>2, <1>3, <1>5, <1>6
  <2>5. CASE i > Len(s) /\ j > Len(s)
    <3>1. i - Len(s) = j - Len(s)
      BY <2>1, <2>5, <1>2, <1>3, <1>4, <1>6
    <3> QED
      BY <3>1, <1>2
  <2> QED
    BY <2>2, <2>3, <2>4, <2>5, <1>2
<1> QED
  BY <1>1, <1>3, <1>6 DEF IsInjective

\* The variables keep their types, and no item is twice in the lists, under the same
\* two conditions.
THEOREM QueueTypes ==
  ASSUME TakeTurns, KeepDelay
  PROVE  QueueSpec => []QueueTyped
<1>1. QueueInit => QueueInv
  BY QueueInvInit
<1>2. QueueInv /\ [QueueNext]_queueVars => QueueInv'
  BY QueueInvNext
<1>3. QueueInv => QueueTyped
  <2> SUFFICES ASSUME QueueInv PROVE QueueTyped
    OBVIOUS
  <2>1. IsList(work_list) /\ IsList(delayed_list)
    BY DEF QueueInv, QueueParts
  <2>2. ASSUME NEW k \in Range(work_list), k \in Range(delayed_list) PROVE FALSE
    <3>1. k \in Item
      BY <2>1 DEF IsList, Range
    <3> QED
      BY <2>2, <3>1 DEF QueueInv, ListsKept
  <2>3. IsInjective(work_list \o delayed_list)
    BY <2>1, <2>2, BothLists
  <2> QED
    BY <2>1, <2>3 DEF QueueInv, QueueParts, QueueTyped, IsList
<1> QED
  BY <1>1, <1>2, <1>3, PTL DEF QueueSpec

-----------------------------------------------------------------------------
(* The LEDs *)

\* The entries that are shown, counted from the start of the array.
LEMMA LitFacts ==
  ASSUME NEW arr, NEW n \in Nat
  PROVE  /\ IsFiniteSet({i \in 1 .. n : arr[i] > 0}) /\ Lit(arr, n) \in Nat
         /\ Lit(arr, 0) = 0
         /\ \A p \in Nat : p > n /\ arr[p] > 0 /\ (\A i \in n + 1 .. p - 1 : ~(arr[i] > 0)) =>
              Lit(arr, p) = Lit(arr, n) + 1
         /\ \A p \in Nat : p >= n /\ (\A i \in n + 1 .. p : ~(arr[i] > 0)) =>
              Lit(arr, p) = Lit(arr, n)
<1> DEFINE L(m) == {i \in 1 .. m : arr[i] > 0}
<1>1. IsFiniteSet(L(n)) /\ Cardinality(L(n)) \in Nat
  <2>1. IsFiniteSet(1 .. n)
    BY FS_Interval
  <2>2. L(n) \subseteq 1 .. n
    OBVIOUS
  <2> QED
    BY <2>1, <2>2, FS_Subset, FS_CardinalityType
<1>2. L(0) = {}
  OBVIOUS
<1>3. ASSUME NEW p \in Nat, p > n, arr[p] > 0, \A i \in n + 1 .. p - 1 : ~(arr[i] > 0)
      PROVE  Lit(arr, p) = Lit(arr, n) + 1
  <2>1. \A i \in 1 .. p : i \in 1 .. n \/ i \in n + 1 .. p - 1 \/ i = p
    BY <1>3
  <2>2. p \in 1 .. p /\ p \notin 1 .. n /\ \A i \in 1 .. n : i \in 1 .. p
    BY <1>3
  <2>3. L(p) = L(n) \cup {p} /\ p \notin L(n)
    BY <1>3, <2>1, <2>2
  <2> HIDE DEF L
  <2>4. Cardinality(L(p)) = Cardinality(L(n)) + 1
    BY <1>1, <2>3, FS_AddElement
  <2> QED
    BY <2>4 DEF Lit, L
<1>4. ASSUME NEW p \in Nat, p >= n, \A i \in n + 1 .. p : ~(arr[i] > 0)
      PROVE  Lit(arr, p) = Lit(arr, n)
  <2>1. \A i \in 1 .. p : i \in 1 .. n \/ i \in n + 1 .. p
    BY <1>4
  <2>2. \A i \in 1 .. n : i \in 1 .. p
    BY <1>4
  <2>3. L(p) = L(n)
    BY <1>4, <2>1, <2>2
  <2> QED
    BY <2>3 DEF Lit
<1>5. Lit(arr, 0) = 0
  BY <1>2, FS_EmptySet DEF Lit
<1> QED
  BY <1>1, <1>3, <1>4, <1>5 DEF Lit

LEMMA ArrayFacts ==
  ASSUME NEW mode \in Modes \cup {<<>>} PROVE mode \in Seq(Nat) /\ Len(mode) \in Nat
<1>1. CASE mode = <<>>
  BY <1>1
<1>2. CASE mode \in Modes
  <2>1. mode \in Seq(Nat)
    BY <1>2, LedAssumption
  <2> QED
    BY <2>1
<1> QED
  BY <1>1, <1>2

\* To count one round more.
LEMMA OneRoundMore ==
  ASSUME NEW x \in Int, NEW y \in Int PROVE (x + 1) * y = x * y + y /\ x * y \in Int
OBVIOUS

\* What is shown of an LED that blinks, while its rounds are counted: the whole
\* array for each round that is over and the entries of this one.  A list that
\* an LED has left says nothing of it any more: every way back onto the
\* list is a new start.
RoundsExact(l) ==
  /\ loop_cnt[l] = 0 => arr_index[l] = 0
  /\ loop_cnt[l] >= 0 =>
       shown[l] = (loop_init[l] - loop_cnt[l]) * Lit(light_arr[l], Len(light_arr[l]))
                    + Lit(light_arr[l], arr_index[l])

LedInv == LedTyped /\ \A l \in Range(active) : RoundsExact(l)

LEMMA LedInvInit == LedInit => LedInv
<1> SUFFICES ASSUME LedInit PROVE LedInv
  OBVIOUS
<1>1. Range(active) = {} /\ active \in Seq(Lamp) /\ IsInjective(active) /\ Len(active) = 0
  BY DEF LedInit, Range, IsInjective
<1>2. /\ loop_init \in [Lamp -> Loops] /\ loop_cnt \in [Lamp -> Int]
      /\ light_arr \in [Lamp -> Modes \cup {<<>>}] /\ arr_index \in [Lamp -> Nat]
      /\ wait \in [Lamp -> Nat] /\ shown \in [Lamp -> Nat] /\ node \in -1 .. Len(active)
  BY <1>1, LedAssumption DEF LedInit
<1> QED
  BY <1>1, <1>2 DEF LedInv, LedTyped, LedInit

\* A new start counts from nothing, and touches no other LED.
LEMMA RestartKeeps ==
  ASSUME LedInv, NEW l \in Lamp, NEW mode \in Modes \cup {<<>>}, NEW n \in Loops,
         Restart(l, mode, n), Range(active') \subseteq Range(active) \cup {l}
  PROVE  /\ light_arr' \in [Lamp -> Modes \cup {<<>>}] /\ arr_index' \in [Lamp -> Nat]
         /\ loop_init' \in [Lamp -> Loops] /\ loop_cnt' \in [Lamp -> Int]
         /\ wait' \in [Lamp -> Nat] /\ shown' \in [Lamp -> Nat]
         /\ \A x \in Range(active') : RoundsExact(x)' /\ arr_index'[x] <= Len(light_arr'[x])
<1>1. /\ light_arr \in [Lamp -> Modes \cup {<<>>}] /\ arr_index \in [Lamp -> Nat]
      /\ loop_init \in [Lamp -> Loops] /\ loop_cnt \in [Lamp -> Int]
      /\ wait \in [Lamp -> Nat] /\ shown \in [Lamp -> Nat] /\ Range(active) \subseteq Lamp
  BY DEF LedInv, LedTyped, Range
<1>2. /\ light_arr' \in [Lamp -> Modes \cup {<<>>}] /\ arr_index' \in [Lamp -> Nat]
      /\ loop_init' \in [Lamp -> Loops] /\ loop_cnt' \in [Lamp -> Int]
      /\ wait' \in [Lamp -> Nat] /\ shown' \in [Lamp -> Nat]
  BY <1>1, LedAssumption DEF Restart
<1>3. ASSUME NEW x \in Range(active'), x # l
      PROVE  RoundsExact(x)' /\ arr_index'[x] <= Len(light_arr'[x])
  <2>1. x \in Range(active) /\ x \in Lamp
    BY <1>1, <1>3
  <2>2. /\ light_arr'[x] = light_arr[x] /\ arr_index'[x] = arr_index[x] /\ shown'[x] = shown[x]
        /\ loop_init'[x] = loop_init[x] /\ loop_cnt'[x] = loop_cnt[x]
    BY <1>1, <1>3, <2>1 DEF Restart
  <2>3. RoundsExact(x) /\ arr_index[x] <= Len(light_arr[x])
    BY <2>1 DEF LedInv, LedTyped
  <2> QED
    BY <2>2, <2>3 DEF RoundsExact
<1>4. RoundsExact(l)' /\ arr_index'[l] <= Len(light_arr'[l])
  <2>1. /\ light_arr'[l] = mode /\ arr_index'[l] = 0 /\ shown'[l] = 0
        /\ loop_init'[l] = n /\ loop_cnt'[l] = n
    BY <1>1 DEF Restart
  <2>2. mode \in Seq(Nat) /\ Len(mode) \in Nat /\ n \in Int
    BY ArrayFacts, LedAssumption
  <2>3. Lit(mode, 0) = 0 /\ Lit(mode, Len(mode)) \in Nat
    BY <2>2, LitFacts
  <2>4. (n - n) * Lit(mode, Len(mode)) = 0
    BY <2>2, <2>3
  <2> QED
    BY <2>1, <2>2, <2>3, <2>4 DEF RoundsExact
<1> QED
  BY <1>2, <1>3, <1>4

\* Nor does it matter to those that stay when an LED leaves the list.
LEMMA RestKeeps ==
  ASSUME LedInv, UNCHANGED <<light_arr, arr_index, loop_init, loop_cnt, shown>>,
         Range(active') \subseteq Range(active)
  PROVE  \A x \in Range(active') : RoundsExact(x)' /\ arr_index'[x] <= Len(light_arr'[x])
BY DEF LedInv, LedTyped, RoundsExact

LEMMA ServicesKeep ==
  ASSUME LedInv, NEW l \in Lamp, NEW mode \in Modes \cup {<<>>}, NEW n \in Loops,
         \/ agile_led_create(l, mode, n) \/ agile_led_change_light_mode(l, mode, n)
         \/ agile_led_start(l)
  PROVE  LedInv'
<1>1. /\ active \in Seq(Lamp) /\ IsInjective(active) /\ Range(active) \subseteq created
      /\ created \subseteq Lamp /\ node \in -1 .. Len(active) /\ Len(active) \in Nat
      /\ light_arr \in [Lamp -> Modes \cup {<<>>}] /\ loop_init \in [Lamp -> Loops]
  BY DEF LedInv, LedTyped
<1>2. CASE agile_led_create(l, mode, n) \/ agile_led_change_light_mode(l, mode, n)
  <2>1. /\ Restart(l, mode, n) /\ active' = active /\ node' = node
        /\ created \subseteq created' /\ created' \subseteq Lamp
    BY <1>1, <1>2 DEF agile_led_create, agile_led_change_light_mode
  <2> QED
    BY <1>1, <2>1, RestartKeeps DEF LedInv, LedTyped
<1>3. CASE agile_led_start(l)
  <2>1. /\ Restart(l, light_arr[l], loop_init[l]) /\ active' = Append(active, l)
        /\ node' = node /\ created' = created /\ l \in created /\ l \notin Range(active)
    BY <1>3 DEF agile_led_start
  <2>2. /\ Append(active, l) \in Seq(Lamp) /\ IsInjective(Append(active, l))
        /\ Range(Append(active, l)) = Range(active) \cup {l}
    BY ONLY <1>1, <2>1, l \in Lamp, InjectiveAppend
  <2>3. Len(active') = Len(active) + 1 /\ node' \in -1 .. Len(active')
    BY <1>1, <2>1
  <2>4. light_arr[l] \in Modes \cup {<<>>} /\ loop_init[l] \in Loops
    BY <1>1
  <2>5. Range(active') \subseteq Range(active) \cup {l}
    BY <2>1, <2>2
  <2> QED
    BY <1>1, <2>1, <2>2, <2>3, <2>4, <2>5, RestartKeeps DEF LedInv, LedTyped
<1> QED
  BY <1>2, <1>3

LEMMA StopsKeep ==
  ASSUME LedInv, NEW l \in Lamp,
         agile_led_delete(l) \/ ChangeFails(l) \/ agile_led_stop(l)
  PROVE  LedInv'
<1>1. /\ active \in Seq(Lamp) /\ IsInjective(active) /\ Range(active) \subseteq created
      /\ created \subseteq Lamp /\ Len(active) \in Nat
      /\ light_arr \in [Lamp -> Modes \cup {<<>>}]
  BY DEF LedInv, LedTyped
<1>2. /\ active' = Unlink(active, l) /\ node' = node /\ node \in {-1, 0}
      /\ created \ {l} \subseteq created' /\ created' \subseteq created
      /\ UNCHANGED <<arr_index, loop_init, loop_cnt, wait, shown>>
      /\ light_arr' \in {light_arr, [light_arr EXCEPT ![l] = <<>>]}
  BY DEF agile_led_delete, ChangeFails, agile_led_stop, Free, lamp
<1>3. /\ active' \in Seq(Lamp) /\ IsInjective(active') /\ Range(active') = Range(active) \ {l}
  BY <1>1, <1>2, OffAnyList
<1>4. node' \in -1 .. Len(active') /\ Range(active') \subseteq created' /\ created' \subseteq Lamp
  BY <1>1, <1>2, <1>3
<1>5. light_arr' \in [Lamp -> Modes \cup {<<>>}]
  BY <1>1, <1>2
<1>6. ASSUME NEW x \in Range(active')
      PROVE  RoundsExact(x)' /\ arr_index'[x] <= Len(light_arr'[x])
  <2>1. x \in Range(active) /\ x # l /\ x \in Lamp
    BY <1>1, <1>3, <1>6
  <2>2. light_arr'[x] = light_arr[x]
    BY <1>1, <1>2, <2>1
  <2>3. RoundsExact(x) /\ arr_index[x] <= Len(light_arr[x])
    BY <2>1 DEF LedInv, LedTyped
  <2> QED
    BY <1>2, <2>2, <2>3 DEF RoundsExact
<1> QED
  BY <1>2, <1>3, <1>4, <1>5, <1>6 DEF LedInv, LedTyped

\* The walk shows the next entry, or finds that there is none and counts.
LEMMA WalkKeeps ==
  ASSUME LedInv, node > 0, NEW l, l = active[node], ShowEntry(l) \/ EndOfRound(l)
  PROVE  LedInv'
<1>1. /\ active \in Seq(Lamp) /\ Len(active) \in Nat /\ node \in 1 .. Len(active)
      /\ l \in Range(active) /\ l \in Lamp /\ DOMAIN active = 1 .. Len(active)
      /\ light_arr \in [Lamp -> Modes \cup {<<>>}] /\ arr_index \in [Lamp -> Nat]
      /\ loop_init \in [Lamp -> Loops] /\ loop_cnt \in [Lamp -> Int]
      /\ wait \in [Lamp -> Nat] /\ shown \in [Lamp -> Nat]
  <2>1. /\ active \in Seq(Lamp) /\ node \in -1 .. Len(active)
        /\ light_arr \in [Lamp -> Modes \cup {<<>>}] /\ arr_index \in [Lamp -> Nat]
        /\ loop_init \in [Lamp -> Loops] /\ loop_cnt \in [Lamp -> Int]
        /\ wait \in [Lamp -> Nat] /\ shown \in [Lamp -> Nat]
    BY DEF LedInv, LedTyped
  <2>2. DOMAIN active = 1 .. Len(active) /\ Len(active) \in Nat
    BY <2>1
  <2>3. node \in 1 .. Len(active)
    BY <2>1, <2>2
  <2>4. l \in Range(active) /\ l \in Lamp
    <3>1. node \in DOMAIN active
      BY <2>2, <2>3
    <3>2. active[node] \in Lamp
      BY <2>1, <3>1, <2>2
    <3> QED
      BY <3>1, <3>2 DEF Range
  <2> QED
    BY <2>1, <2>2, <2>3, <2>4
<1>2. node' \in -1 .. Len(active) /\ active' = active /\ created' = created
      /\ light_arr' = light_arr /\ loop_init' = loop_init
  <2>1. Following \in -1 .. Len(active)
    <3>1. node = Len(active) \/ node + 1 \in -1 .. Len(active)
      <4>1. Len(active) \in Nat /\ node \in 1 .. Len(active)
        BY <1>1
      <4>2. PICK n : n = Len(active)
        OBVIOUS
      <4> QED
        BY ONLY <4>1, <4>2
    <3>2. 0 \in -1 .. Len(active)
      BY <1>1
    <3> QED
      BY <3>1, <3>2 DEF Following
  <2> QED
    BY <2>1 DEF ShowEntry, EndOfRound
<1>3. PICK arr, at, c, e, z : /\ arr = light_arr[l] /\ at = arr_index[l] /\ c = loop_cnt[l]
                              /\ e = Lit(arr, Len(arr)) /\ z = (loop_init[l] - c) * e
  OBVIOUS
<1>4. /\ arr \in Seq(Nat) /\ Len(arr) \in Nat /\ at \in 0 .. Len(arr) /\ c \in Int
      /\ loop_init[l] \in Int /\ shown[l] \in Nat
  <2>1. arr \in Seq(Nat) /\ Len(arr) \in Nat /\ loop_init[l] \in Int
    BY <1>1, <1>3, ArrayFacts, LedAssumption
  <2>2. at <= Len(arr)
    BY <1>1, <1>3 DEF LedInv, LedTyped
  <2> QED
    BY <1>1, <1>3, <2>1, <2>2
<1>5. e \in Nat /\ Lit(arr, at) \in Nat /\ z \in Int
  <2>1. e \in Nat /\ Lit(arr, at) \in Nat
    <3>1. at \in Nat /\ Len(arr) \in Nat
      BY <1>4
    <3> QED
      BY <1>3, <3>1, LitFacts
  <2> QED
    BY <1>3, <1>4, <2>1
<1>6. /\ c = 0 => at = 0
      /\ c >= 0 => shown[l] = z + Lit(arr, at)
  BY <1>1, <1>3 DEF LedInv, RoundsExact
<1>7. CASE ShowEntry(l)
  <2>1. PICK i \in Ahead(l) :
          /\ \A j \in Ahead(l) : i <= j
          /\ wait' = [wait EXCEPT ![l] = light_arr[l][i]]
          /\ arr_index' = [arr_index EXCEPT ![l] = i]
    BY <1>7 DEF ShowEntry
  <2>2. /\ c # 0 /\ loop_cnt' = loop_cnt
        /\ shown' = IF c > 0 THEN [shown EXCEPT ![l] = @ + 1] ELSE shown
    BY <1>3, <1>7 DEF ShowEntry
  <2>3. /\ i \in at + 1 .. Len(arr) /\ arr[i] > 0 /\ i \in Nat /\ arr[i] \in Nat
        /\ \A j \in at + 1 .. i - 1 : ~(arr[j] > 0)
    <3>1. i \in at + 1 .. Len(arr) /\ arr[i] > 0
      BY <1>3, <2>1 DEF Ahead
    <3>2. i \in Nat /\ arr[i] \in Nat
      BY <1>4, <3>1
    <3>3. ASSUME NEW j \in at + 1 .. i - 1, arr[j] > 0 PROVE FALSE
      <4>1. j \in at + 1 .. Len(arr) /\ j < i
        BY <1>4, <3>1, <3>3
      <4>2. j \in Ahead(l)
        BY <1>3, <3>3, <4>1 DEF Ahead
      <4> QED
        BY <1>4, <2>1, <3>2, <4>1, <4>2
    <3> QED
      BY <3>1, <3>2, <3>3
  <2>4. Lit(arr, i) = Lit(arr, at) + 1
    <3>1. at \in Nat /\ i > at
      BY <1>4, <2>3
    <3> QED
      BY <2>3, <3>1, LitFacts
  <2>5. /\ arr_index' \in [Lamp -> Nat] /\ wait' \in [Lamp -> Nat] /\ shown' \in [Lamp -> Nat]
    <3>1. shown[l] + 1 \in Nat /\ light_arr[l][i] \in Nat
      BY <1>3, <1>4, <2>3
    <3> QED
      BY <1>1, <2>1, <2>2, <2>3, <3>1
  <2>6. arr_index'[l] = i /\ (c > 0 => shown'[l] = shown[l] + 1)
    BY <1>1, <2>1, <2>2
  <2>7. ASSUME NEW x \in Range(active), x # l
        PROVE  RoundsExact(x)' /\ arr_index'[x] <= Len(light_arr'[x])
    <3>1. arr_index'[x] = arr_index[x] /\ shown'[x] = shown[x]
      BY <1>1, <2>1, <2>2, <2>7 DEF Range
    <3>2. RoundsExact(x) /\ arr_index[x] <= Len(light_arr[x])
      BY <2>7 DEF LedInv, LedTyped
    <3> QED
      BY <1>2, <2>2, <3>1, <3>2 DEF RoundsExact
  <2>8. RoundsExact(l)' /\ arr_index'[l] <= Len(light_arr'[l])
    <3>1. c > 0 => shown'[l] = z + Lit(arr, i)
      BY <1>4, <1>5, <1>6, <2>4, <2>6
    <3> QED
      BY <1>2, <1>3, <1>4, <2>2, <2>3, <2>6, <3>1 DEF RoundsExact
  <2> QED
    BY <1>2, <2>2, <2>5, <2>7, <2>8 DEF LedInv, LedTyped
<1>8. CASE EndOfRound(l)
  <2>1. /\ c # 0 /\ Ahead(l) = {}
        /\ arr_index' = [arr_index EXCEPT ![l] = 0]
        /\ loop_cnt' = [loop_cnt EXCEPT ![l] = IF @ > 0 THEN @ - 1 ELSE @]
        /\ wait' = wait /\ shown' = shown
    BY <1>3, <1>8 DEF EndOfRound
  <2>2. \A j \in at + 1 .. Len(arr) : ~(arr[j] > 0)
    BY <1>3, <2>1 DEF Ahead
  <2>3. e = Lit(arr, at) /\ Lit(arr, 0) = 0
    <3>1. at \in Nat /\ Len(arr) >= at /\ Len(arr) \in Nat
      BY <1>4
    <3> QED
      BY <1>3, <2>2, <3>1, LitFacts
  <2>4. arr_index' \in [Lamp -> Nat] /\ loop_cnt' \in [Lamp -> Int]
    BY <1>1, <2>1
  <2>5. arr_index'[l] = 0 /\ loop_cnt'[l] = IF c > 0 THEN c - 1 ELSE c
    BY <1>1, <1>3, <2>1
  <2>6. ASSUME NEW x \in Range(active), x # l
        PROVE  RoundsExact(x)' /\ arr_index'[x] <= Len(light_arr'[x])
    <3>1. arr_index'[x] = arr_index[x] /\ loop_cnt'[x] = loop_cnt[x]
      BY <1>1, <2>1, <2>6 DEF Range
    <3>2. RoundsExact(x) /\ arr_index[x] <= Len(light_arr[x])
      BY <2>6 DEF LedInv, LedTyped
    <3> QED
      BY <1>2, <2>1, <3>1, <3>2 DEF RoundsExact
  <2>7. RoundsExact(l)' /\ arr_index'[l] <= Len(light_arr'[l])
    <3>1. c > 0 => shown[l] = (loop_init[l] - (c - 1)) * e + 0
      <4>1. loop_init[l] - c \in Int /\ loop_init[l] - (c - 1) = (loop_init[l] - c) + 1 /\ e \in Int
        BY <1>4, <1>5
      <4>2. (loop_init[l] - (c - 1)) * e = z + e
        BY <1>3, <4>1, OneRoundMore
      <4> QED
        BY <1>4, <1>5, <1>6, <2>3, <4>2
    <3> QED
      BY <1>2, <1>3, <1>4, <2>1, <2>3, <2>5, <3>1 DEF RoundsExact
  <2> QED
    BY <1>2, <2>1, <2>4, <2>6, <2>7 DEF LedInv, LedTyped
<1> QED
  BY <1>7, <1>8

LEMMA LedInvNext == LedInv /\ [LedNext]_ledVars => LedInv'
<1> SUFFICES ASSUME LedInv, [LedNext]_ledVars PROVE LedInv'
  OBVIOUS
<1>1. /\ active \in Seq(Lamp) /\ IsInjective(active) /\ Range(active) \subseteq created
      /\ created \subseteq Lamp /\ Len(active) \in Nat /\ node \in -1 .. Len(active)
      /\ wait \in [Lamp -> Nat] /\ DOMAIN active = 1 .. Len(active)
  BY DEF LedInv, LedTyped
<1>2. ASSUME active' = active, created' = created, node' \in -1 .. Len(active),
             wait' \in [Lamp -> Nat],
             UNCHANGED <<light_arr, arr_index, loop_init, loop_cnt, shown>>
      PROVE  LedInv'
  BY <1>2 DEF LedInv, LedTyped, RoundsExact
<1>3. CASE UNCHANGED ledVars
  BY <1>1, <1>2, <1>3 DEF ledVars, lamp
<1>4. CASE WalkBegin \/ CallbackEnd
  <2>1. 1 \in -1 .. Len(active) \/ active = <<>>
    BY <1>1
  <2> QED
    BY <1>1, <1>2, <1>4, <2>1 DEF WalkBegin, CallbackEnd, First, lamp
<1>5. ASSUME node > 0, NEW l, l = active[node], Finish(l) PROVE LedInv'
  <2>1. /\ active' = Unlink(active, l) /\ node' = -1 /\ created' = created /\ wait' = wait
        /\ UNCHANGED <<light_arr, arr_index, loop_init, loop_cnt, shown>>
    BY <1>5 DEF Finish, lamp
  <2>2. /\ active' \in Seq(Lamp) /\ IsInjective(active')
        /\ Range(active') = Range(active) \ {l}
    BY <1>1, <2>1, OffAnyList
  <2>3. node' \in -1 .. Len(active')
    BY <2>1, <2>2
  <2>4. \A x \in Range(active') : RoundsExact(x)' /\ arr_index'[x] <= Len(light_arr'[x])
    BY <2>1, <2>2, RestKeeps
  <2> QED
    BY <1>1, <2>1, <2>2, <2>3, <2>4 DEF LedInv, LedTyped
<1>6. ASSUME node > 0, NEW l, l = active[node], NotYet(l) PROVE LedInv'
  <2>1. node' \in -1 .. Len(active)
    BY <1>1, <1>6 DEF NotYet, Following
  <2> QED
    BY <1>1, <1>2, <1>6, <2>1 DEF NotYet, lamp
<1>7. CASE LedTick
  <2>1. wait' \in [Lamp -> Nat]
    BY <1>1, <1>7 DEF LedTick
  <2> QED
    BY <1>1, <1>2, <1>7, <2>1 DEF LedTick
<1>8. CASE agile_led_process
  BY <1>4, <1>5, <1>6, <1>8, WalkKeeps DEF agile_led_process
<1>9. ASSUME NEW l \in Lamp, agile_led_start(l) PROVE LedInv'
  <2>1. light_arr[l] \in Modes \cup {<<>>} /\ loop_init[l] \in Loops
    BY <1>9 DEF LedInv, LedTyped
  <2> QED
    BY <1>9, <2>1, ServicesKeep
<1>10. CASE LedNext
  BY <1>7, <1>8, <1>9, <1>10, ServicesKeep, StopsKeep DEF LedNext
<1> QED
  BY <1>3, <1>10

\* The completion callback of an LED comes when it has shown its array as often as it
\* was asked to, whatever is started, stopped, changed or deleted meanwhile, also
\* by callbacks inside the walk of agile_led_process.
THEOREM LedsShow == LedSpec => RoundsShown
<1>1. LedInv /\ [LedNext]_ledVars => [CallbackInTime]_ledVars
  <2> SUFFICES ASSUME LedInv, LedNext, node' = -1, node > 0, NEW l, l = active[node]
               PROVE  /\ shown[l] = loop_init[l] * Lit(light_arr[l], Len(light_arr[l]))
                      /\ l \notin Range(active')
    BY DEF CallbackInTime
  <2>1. /\ active \in Seq(Lamp) /\ IsInjective(active) /\ Len(active) \in Nat
        /\ node \in 1 .. Len(active) /\ l \in Range(active) /\ l \in Lamp
    BY DEF LedInv, LedTyped, Range
  <2>2. Following # -1 /\ First # -1
    BY <2>1 DEF Following, First
  <2>3. Finish(l)
    BY <2>1, <2>2 DEF LedNext, agile_led_process, WalkBegin, CallbackEnd, NotYet, ShowEntry,
         EndOfRound, LedTick, agile_led_create, agile_led_change_light_mode, agile_led_delete,
         ChangeFails, agile_led_start, agile_led_stop, Free
  <2>4. l \notin Range(active')
    BY <2>1, <2>3, OffAnyList DEF Finish
  <2>5. /\ light_arr[l] \in Seq(Nat) /\ Len(light_arr[l]) \in Nat /\ loop_init[l] \in Int
    <3>1. light_arr[l] \in Modes \cup {<<>>} /\ loop_init[l] \in Loops
      BY <2>1 DEF LedInv, LedTyped
    <3> QED
      BY <3>1, ArrayFacts, LedAssumption
  <2>6. Lit(light_arr[l], 0) = 0 /\ Lit(light_arr[l], Len(light_arr[l])) \in Nat
    BY <2>5, LitFacts
  <2>7. /\ loop_cnt[l] = 0 /\ arr_index[l] = 0
        /\ shown[l] = (loop_init[l] - 0) * Lit(light_arr[l], Len(light_arr[l])) + 0
    BY <2>1, <2>3, <2>6 DEF Finish, LedInv, RoundsExact
  <2> QED
    BY <2>4, <2>5, <2>6, <2>7
<1> QED
  BY <1>1, LedInvInit, LedInvNext, PTL DEF LedSpec, RoundsShown

\* The LEDs keep their types, and none is twice in the list.
THEOREM LedTypes == LedSpec => []LedTyped
<1>1. LedInv => LedTyped
  BY DEF LedInv
<1> QED
  BY <1>1, LedInvInit, LedInvNext, PTL DEF LedSpec
=============================================================================
