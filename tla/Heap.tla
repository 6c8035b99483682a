-------------------------------- MODULE Heap --------------------------------
(***************************************************************************)
(* The small memory heap of mem.c behind rt_malloc, rt_realloc, rt_calloc  *)
(* and rt_free of kservice.c, which run one at a time: they hold a mutex.  *)
(* The headers of the blocks are in the heap itself and link the blocks in *)
(* the order of their addresses.  Sizes are in units of RT_ALIGN_SIZE.     *)
(***************************************************************************)
EXTENDS Naturals, FiniteSets, FiniteSetsExt

CONSTANTS Total,   \* mem_size_aligned
          Struct,  \* SIZEOF_STRUCT_MEM
          MinSize  \* MIN_SIZE_ALIGNED

ASSUME HeapAssumption == Total \in Nat /\ Struct \in Nat \ {0} /\ MinSize \in Nat \ {0}

VARIABLES mem,     \* the headers: offset -> struct rt_small_mem_item
          lfree,   \* offset of the lowest free block, or heap_end
          used,    \* parent.used
          handed   \* history: offset of the blocks in use -> size asked for

heapVars == <<mem, lfree, used, handed>>

heap_end == Total + Struct
Offset == 0 .. heap_end

HeapTyped ==
  /\ DOMAIN mem \subseteq Offset
  /\ \A p \in DOMAIN mem : mem[p] \in [used : BOOLEAN, next : Offset, prev : Offset]
  /\ lfree \in DOMAIN mem
  /\ used \in Nat
  /\ DOMAIN handed \subseteq Offset

MemItem(u, next, prev) == [used |-> u, next |-> next, prev |-> prev]

\* m with the header at p set, and without it.
With(m, p, header) == [q \in DOMAIN m \cup {p} |-> IF q = p THEN header ELSE m[q]]
Without(m, p) == [q \in DOMAIN m \ {p} |-> m[q]]

\* rt_smem_init
HeapInit ==
  /\ mem = With(With(<<>>, 0, MemItem(FALSE, heap_end, 0)),
                heap_end, MemItem(TRUE, heap_end, heap_end))
  /\ lfree = 0 /\ used = 0
  /\ handed = <<>>

-----------------------------------------------------------------------------
\* The state of the heap as a record, for what is done in several steps.
heap == [mem |-> mem, lfree |-> lfree, used |-> used]
Becomes(h) == mem' = h.mem /\ lfree' = h.lfree /\ used' = h.used

Room(h, p) == h.mem[p].next - (p + Struct)

PlugForward(h, p) ==
  LET n == h.mem[p].next IN
  IF h.mem[n].used \/ n = heap_end THEN h
  ELSE LET after == h.mem[n].next
           joined == With(Without(h.mem, n), p, [h.mem[p] EXCEPT !.next = after])
       IN  [h EXCEPT !.mem = [joined EXCEPT ![after].prev = p],
                     !.lfree = IF @ = n THEN p ELSE @]

\* Mutant: what is freed is not joined to a free block below it.
PlugNothing(h, p) == h

PlugBackward(h, p) ==
  LET b == h.mem[p].prev IN
  IF b = p \/ h.mem[b].used THEN h
  ELSE LET after == h.mem[p].next
           joined == With(Without(h.mem, p), b, [h.mem[b] EXCEPT !.next = after])
       IN  [h EXCEPT !.mem = [joined EXCEPT ![after].prev = b],
                     !.lfree = IF @ = p THEN b ELSE @]

plug_holes(h, p) == PlugBackward(PlugForward(h, p), p)

\* The block at p keeps size, what is above becomes a free block of its own.
Split(h, p, size) ==
  LET q == p + Struct + size
      after == h.mem[p].next
      m == With([h.mem EXCEPT ![p].next = q], q, MemItem(FALSE, after, p))
  IN  [h EXCEPT !.mem = IF after # heap_end THEN [m EXCEPT ![after].prev = q] ELSE m]

Larger(size) == IF size < MinSize THEN MinSize ELSE size

\* The blocks that the search of rt_smem_alloc, from lfree up, may take.
Fitting(h, size) ==
  {p \in DOMAIN h.mem : /\ h.lfree <= p /\ p + size <= Total
                        /\ ~h.mem[p].used /\ Room(h, p) >= size}

Use(h, p) ==
  LET m == [h.mem EXCEPT ![p].used = TRUE] IN
  [h EXCEPT !.mem = m,
            !.used = @ + (m[p].next - p),
            !.lfree = IF p # @ THEN @
                      ELSE Min({q \in DOMAIN m : q >= p /\ ~m[q].used} \cup {heap_end})]

\* rt_smem_alloc of a size that fits somewhere, and the block it takes
Taken(h, size) == Min(Fitting(h, Larger(size)))
Allocated(h, size) ==
  LET p == Taken(h, size) IN
  Use(IF Room(h, p) >= Larger(size) + Struct + MinSize THEN Split(h, p, Larger(size)) ELSE h, p)

Freed(h, p) ==
  plug_holes([h EXCEPT !.mem = [@ EXCEPT ![p].used = FALSE],
                       !.lfree = IF p < @ THEN p ELSE @,
                       !.used = @ - (h.mem[p].next - p)], p)

-----------------------------------------------------------------------------
rt_smem_alloc(size) ==
  /\ Fitting(heap, Larger(size)) # {}
  /\ Becomes(Allocated(heap, size))
  /\ handed' = With(handed, Taken(heap, size), size)

rt_smem_free(p) ==
  /\ Becomes(Freed(heap, p))
  /\ handed' = Without(handed, p)

\* rt_smem_realloc of a block in place: it stays as it is, or its end is split off.
Shrink(p, size) ==
  /\ size + Struct + MinSize < Room(heap, p)
  /\ LET h == Split(heap, p, size)
         q == p + Struct + size
     IN  Becomes(plug_holes([h EXCEPT !.used = @ - (Room(heap, p) - size),
                                      !.lfree = IF q < @ THEN q ELSE @], q))
  /\ handed' = [handed EXCEPT ![p] = size]

SameSize(p, size) ==
  /\ size = Room(heap, p)
  /\ handed' = [handed EXCEPT ![p] = size]
  /\ UNCHANGED <<mem, lfree, used>>

\* rt_smem_realloc otherwise: into another block, larger or not, or not at all.
Move(p, size) ==
  /\ size # Room(heap, p) /\ size + Struct + MinSize >= Room(heap, p)
  /\ Fitting(heap, Larger(size)) # {}
  /\ Becomes(Freed(Allocated(heap, size), p))
  /\ handed' = With(Without(handed, p), Taken(heap, size), size)

rt_smem_realloc(p, size) == Shrink(p, size) \/ SameSize(p, size) \/ Move(p, size)

HeapNext ==
  \/ \E size \in 1 .. Total : rt_smem_alloc(size)
  \/ \E p \in DOMAIN handed :
       rt_smem_free(p) \/ \E size \in 1 .. Total : rt_smem_realloc(p, size)

HeapSpec == HeapInit /\ [][HeapNext]_heapVars

-----------------------------------------------------------------------------
Above(p) == {q \in DOMAIN mem : q > p}
Units(p) == p .. mem[p].next - 1

\* However blocks are taken, resized and given back: the headers cut the whole
\* heap into blocks, without two free neighbours; the blocks in use are those
\* that callers have, each with room for what was asked, so that none overlap
\* and none is lost; lfree and used are right; and a request fails only when
\* no free block has room for it.
HeapSound ==
  /\ \A p \in DOMAIN mem \ {heap_end} :
       /\ mem[p].next = Min(Above(p))
       /\ p > 0 => mem[mem[p].prev].next = p
       /\ ~mem[p].used /\ mem[p].next # heap_end => mem[mem[p].next].used
  /\ {p \in DOMAIN mem : mem[p].used} = DOMAIN handed \cup {heap_end}
  /\ \A p \in DOMAIN handed : Room(heap, p) >= handed[p]
  /\ used = Cardinality(UNION {Units(p) : p \in DOMAIN handed})
  /\ \A p \in DOMAIN mem : ~mem[p].used =>
       \A size \in 1 .. Room(heap, p) :
         size >= MinSize => Fitting(heap, size) # {}
=============================================================================
