------------------------------- MODULE Malloc -------------------------------
(***************************************************************************)
(* The segregated-free-list allocator of src/Malloc_library/...mm.c.       *)
(*                                                                         *)
(* The heap is modelled as the allocator sees it: a function `mem` from    *)
(* word index (byte address \div 8) to the 64-bit word stored there, and   *)
(* the break `brk` that mem_sbrk moves.  Headers, footers and the next /   *)
(* prev links of free blocks live in `mem`, exactly where the C code puts  *)
(* them; free_list, endofflist and largestfree are the C globals.  Every   *)
(* public call (malloc, free, realloc, calloc) runs to completion, so each *)
(* is one atomic action; the helpers it calls are operators that map a     *)
(* heap record h to the next one, applied in the order the C code calls    *)
(* them.  Payload bytes written by the client are not modelled: no code    *)
(* of the allocator reads them unless the metadata is already corrupt,     *)
(* which the invariants below rule out.                                    *)
(***************************************************************************)
EXTENDS Integers, Sequences, FiniteSets, TLC

CONSTANTS
  CHUNKSIZE,  \* chunksize: bytes by which the heap grows (2048 in the code)
  MAX_HEAP,   \* bytes mem_sbrk can hand out before it fails
  SIZE_BITS,  \* width of size_t in the model (64 in the code)
  Requests,   \* byte sizes the client passes to malloc and realloc
  CallocArgs  \* <<nmemb, size>> pairs the client passes to calloc

ASSUME CHUNKSIZE % 16 = 0 /\ CHUNKSIZE >= 32
ASSUME MAX_HEAP % 16 = 0
ASSUME SIZE_BITS \in 8..30

VARIABLES
  mem,         \* word index -> word: the bytes the allocator manages
  brk,         \* mem_sbrk's break: first byte past the heap
  heap_listp,  \* NULL until mm_init; then the first block header
  free_list,   \* size class -> first block of its list (NULL if empty)
  endofflist,  \* size class -> last block of its list
  largestfree, \* cached size of the largest free block
  live,        \* client: payload pointer it holds -> bytes it asked for
  last         \* history: the public call of the last step and its size

vars == <<mem, brk, heap_listp, free_list, endofflist, largestfree, live, last>>

(* Constants of the C code (64-bit target). *)
wsize == 8
dsize == 16
min_block_size == 32
seglistsize == 7
NULL == 0
SizeMod == 2^SIZE_BITS          \* size_t arithmetic wraps modulo this
Classes == 0..(seglistsize - 1)
Words == 0..(MAX_HEAP \div 8 - 1)

(* The heap state as one record, so that helpers can be chained. *)
Cur == [mem |-> mem, brk |-> brk, heap_listp |-> heap_listp,
        free_list |-> free_list, endofflist |-> endofflist,
        largestfree |-> largestfree]

Commit(h) == /\ mem' = h.mem
             /\ brk' = h.brk
             /\ heap_listp' = h.heap_listp
             /\ free_list' = h.free_list
             /\ endofflist' = h.endofflist
             /\ largestfree' = h.largestfree

Word(h, a) == h.mem[a \div 8]
SetWord(h, a, v) == [h EXCEPT !.mem[a \div 8] = v]

(***************************************************************************)
(* Block codec.                                                            *)
(***************************************************************************)
\* mutant: rounds down (the + (n - 1) dropped)
round_up_rounds_down(size, n) == (n * ((size % SizeMod) \div n)) % SizeMod
round_up(size, n) == (n * (((size + (n - 1)) % SizeMod) \div n)) % SizeMod
pack(size, alloc) == IF alloc THEN size + 1 ELSE size  \* size | 1, size even
extract_size(w) == w - (w % 16)                          \* w & ~0xF
extract_alloc(w) == w % 2 = 1                            \* w & 0x1
get_size(h, b) == extract_size(Word(h, b))
get_alloc(h, b) == extract_alloc(Word(h, b))
preisfree(h, b) == (Word(h, b) \div 2) % 2 = 1          \* header & 0x2
makeprefree(h, b) ==
  SetWord(h, b, IF preisfree(h, b) THEN Word(h, b) ELSE Word(h, b) + 2)
remprefree(h, b) ==
  SetWord(h, b, IF preisfree(h, b) THEN Word(h, b) - 2 ELSE Word(h, b))
write_header(h, b, size, alloc) == SetWord(h, b, pack(size, alloc))
\* the footer sits at payload + get_size(block) - dsize = block + size - 8
\* mutant: the footer one word early, at payload + size - dsize - wsize
write_footer_off_by_word(h, b, size, alloc) ==
  SetWord(h, b + get_size(h, b) - dsize, pack(size, alloc))
write_footer(h, b, size, alloc) ==
  SetWord(h, b + wsize + get_size(h, b) - dsize, pack(size, alloc))
find_next(h, b) == b + get_size(h, b)
find_prev(h, b) == b - extract_size(Word(h, b - wsize))
header_to_payload(b) == b + wsize
payload_to_header(p) == p - wsize
get_payload_size(h, b) == get_size(h, b) - wsize
\* the free-list links stored in a free block's payload
NextOf(h, b) == Word(h, header_to_payload(b))
PrevOf(h, b) == Word(h, header_to_payload(b) + wsize)

get_class(s) ==
  LET block_size == s \div dsize IN
  CASE block_size <= 2   -> 0
    [] block_size <= 3   -> 1
    [] block_size <= 4   -> 2
    [] block_size <= 8   -> 3
    [] block_size <= 32  -> 4
    [] block_size <= 128 -> 5
    [] OTHER             -> 6

MaxOf(x, y) == IF x > y THEN x ELSE y

(***************************************************************************)
(* memlib's mem_sbrk (not under src/): grows the heap by incr bytes and    *)
(* returns the old break, or fails when the heap would pass MAX_HEAP.      *)
(***************************************************************************)
SbrkFails(h, incr) == h.brk + incr > MAX_HEAP
mem_sbrk(h, incr) == [h EXCEPT !.brk = h.brk + incr]

(***************************************************************************)
(* Segregated free lists.  A heap state that a helper uses more than once  *)
(* is passed to a further operator rather than bound by LET, so that each  *)
(* intermediate heap is written down once.                                 *)
(***************************************************************************)
\* the tail of insertblock: link the old tail to b, mark b's successor
LinkTail(h, lastblock, b) ==
  IF lastblock # NULL THEN SetWord(h, header_to_payload(lastblock), b) ELSE h

MarkNext(h, b) == makeprefree(h, find_next(h, b))

MarkNextPrefree(h, b) == IF find_next(h, b) # NULL THEN MarkNext(h, b) ELSE h

\* the list globals and b's own links, as insertblock writes them
Appended(h, b) ==
  LET class == get_class(get_size(h, b))
      h1 == [h EXCEPT !.free_list[class] = IF @ = NULL THEN b ELSE @,
                      !.endofflist[class] = b]
  IN  SetWord(SetWord(h1, header_to_payload(b), NULL),
              header_to_payload(b) + wsize, h.endofflist[class])

\* mutant: the next block's prefree bit is not set
insertblock_no_prefree(h, b) ==
  LinkTail(Appended(h, b), h.endofflist[get_class(get_size(h, b))], b)

insertblock(h, b) ==
  MarkNextPrefree(LinkTail(Appended(h, b),
                           h.endofflist[get_class(get_size(h, b))], b), b)

RemNextPrefree(h, b) == remprefree(h, find_next(h, b))

\* mutant: removing the tail leaves endofflist on the removed block
removeblock_keeps_tail(h, b) ==
  LET mynext == NextOf(h, b)
      myprev == PrevOf(h, b)
      class == get_class(get_size(h, b))
  IN  RemNextPrefree(
        CASE myprev = NULL /\ mynext = NULL ->
               [h EXCEPT !.free_list[class] = NULL, !.endofflist[class] = NULL]
          [] myprev # NULL /\ mynext # NULL ->
               SetWord(SetWord(h, header_to_payload(myprev), mynext),
                       header_to_payload(mynext) + wsize, myprev)
          [] myprev = NULL /\ mynext # NULL ->
               SetWord([h EXCEPT !.free_list[class] = mynext],
                       header_to_payload(mynext) + wsize, NULL)
          [] OTHER -> SetWord(h, header_to_payload(myprev), NULL), b)

removeblock(h, b) ==
  LET mynext == NextOf(h, b)
      myprev == PrevOf(h, b)
      class == get_class(get_size(h, b))
  IN  RemNextPrefree(
        CASE myprev = NULL /\ mynext = NULL ->
               [h EXCEPT !.free_list[class] = NULL, !.endofflist[class] = NULL]
          [] myprev # NULL /\ mynext # NULL ->
               SetWord(SetWord(h, header_to_payload(myprev), mynext),
                       header_to_payload(mynext) + wsize, myprev)
          [] myprev = NULL /\ mynext # NULL ->
               SetWord([h EXCEPT !.free_list[class] = mynext],
                       header_to_payload(mynext) + wsize, NULL)
          [] OTHER ->
               SetWord([h EXCEPT !.endofflist[class] = myprev],
                       header_to_payload(myprev), NULL), b)

(***************************************************************************)
(* coalesce: the four neighbour cases; returns [st, ret] with the block    *)
(* that was inserted into its list.                                        *)
(***************************************************************************)
SetLargest(h, b) ==
  IF get_size(h, b) > h.largestfree
    THEN [h EXCEPT !.largestfree = get_size(h, b)] ELSE h

\* cases 2-4 after the neighbours are removed: tag, insert, update largest
MergeInto(h, block, size) ==
  [st |-> SetLargest(insertblock(write_footer(write_header(h, block, size, FALSE),
                                              block, size, FALSE), block), block),
   ret |-> block]

coalesce(h, b) ==
  LET block_next == find_next(h, b)
      prev_alloc == ~preisfree(h, b)
      block_prev == IF prev_alloc THEN NULL ELSE find_prev(h, b)
      next_alloc == get_alloc(h, block_next)
      size == get_size(h, b)
  IN  CASE prev_alloc /\ next_alloc ->
             [st |-> insertblock(SetLargest(h, b), b), ret |-> b]
        [] prev_alloc /\ ~next_alloc ->
             MergeInto(removeblock(h, block_next), b, size + get_size(h, block_next))
        [] ~prev_alloc /\ next_alloc ->
             MergeInto(removeblock(h, block_prev), block_prev,
                       size + get_size(h, block_prev))
        [] OTHER ->
             MergeInto(removeblock(removeblock(h, block_next), block_prev), block_prev,
                       size + get_size(h, block_next) + get_size(h, block_prev))

(***************************************************************************)
(* extend_heap and mm_init; extend_heap returns [st, ret].                 *)
(***************************************************************************)
\* a rewritten header keeps the prefree bit the old word had
KeepPrefree(h, b, wasfree) == IF wasfree THEN makeprefree(h, b) ELSE h

\* the new free block's header and footer, written over the old epilogue
FreshBlock(h, block, size) ==
  KeepPrefree(write_footer(write_header(mem_sbrk(h, size), block, size, FALSE),
                           block, size, FALSE), block, preisfree(h, block))

NewEpilogue(h, block) == MarkNext(write_header(h, find_next(h, block), 0, TRUE), block)

\* mutant: no new epilogue header is written at the new end of the heap
extend_heap_no_epilogue(h, size0) ==
  LET size == round_up(size0, dsize)
      block == payload_to_header(h.brk)
  IN  IF SbrkFails(h, size) THEN [st |-> h, ret |-> NULL]
      ELSE coalesce(FreshBlock(h, block, size), block)

extend_heap(h, size0) ==
  LET size == round_up(size0, dsize)
      block == payload_to_header(h.brk)
  IN  IF SbrkFails(h, size) THEN [st |-> h, ret |-> NULL]
      ELSE coalesce(NewEpilogue(FreshBlock(h, block, size), block), block)

\* the lists reset and prologue footer / epilogue header written at start
InitialHeap(h, start) ==
  SetWord(SetWord([mem_sbrk(h, 2 * wsize) EXCEPT
                     !.free_list = [c \in Classes |-> NULL],
                     !.endofflist = [c \in Classes |-> NULL],
                     !.largestfree = 0],
                  start, pack(0, TRUE)), start + wsize, pack(0, TRUE))

\* mutant: heap_listp one word too far, past the epilogue header
mm_init_skips_epilogue(h) ==
  IF SbrkFails(h, 2 * wsize) THEN h
  ELSE extend_heap([InitialHeap(h, h.brk) EXCEPT !.heap_listp = h.brk + dsize],
                   CHUNKSIZE).st

mm_init(h) ==
  IF SbrkFails(h, 2 * wsize) THEN h
  ELSE extend_heap([InitialHeap(h, h.brk) EXCEPT !.heap_listp = h.brk + wsize],
                   CHUNKSIZE).st

(***************************************************************************)
(* find_fit: first fit, scanning classes upward from get_class(asize) and  *)
(* each list from its head.  A list is walked at most MaxBlocks steps; a   *)
(* well-formed list (SegListsExact) is never longer.                       *)
(***************************************************************************)
MaxBlocks == MAX_HEAP \div min_block_size + 1

RECURSIVE ListFrom(_, _, _)
ListFrom(h, b, fuel) ==
  IF b = NULL \/ fuel = 0 THEN <<>>
  ELSE <<b>> \o ListFrom(h, NextOf(h, b), fuel - 1)

FreeListSeq(h, c) == ListFrom(h, h.free_list[c], MaxBlocks)

\* the first block of class c's list that fits asize, or NULL
FirstFit(h, c, asize) ==
  LET l == FreeListSeq(h, c)
      hits == {k \in DOMAIN l : asize <= get_size(h, l[k])}
  IN  IF hits = {} THEN NULL ELSE l[CHOOSE k \in hits : \A j \in hits : k <= j]

find_fit(h, asize) ==
  LET found == {c \in get_class(asize)..(seglistsize - 1) : FirstFit(h, c, asize) # NULL}
  IN  IF asize > h.largestfree \/ found = {} THEN NULL
      ELSE FirstFit(h, CHOOSE c \in found : \A d \in found : c <= d, asize)

(***************************************************************************)
(* place: split when the remainder is at least min_block_size.             *)
(***************************************************************************)
ShrinkLargest(h, csize, rest) ==
  IF h.largestfree = csize THEN [h EXCEPT !.largestfree = rest] ELSE h

\* the split branch after b's header is written: the remainder block
SplitRest(h, b, csize, rest) ==
  LET block_next == find_next(h, b)
  IN  insertblock(ShrinkLargest(write_footer(write_header(h, block_next, rest, FALSE),
                                             block_next, rest, FALSE), csize, rest),
                  block_next)

\* mutant: the unsplit block is left marked free
place_unsplit_stays_free(h, b, asize) ==
  LET csize == get_size(h, b)
      rest == (csize - asize) % SizeMod
  IN  IF rest >= min_block_size
        THEN SplitRest(write_header(removeblock(h, b), b, asize, TRUE), b, csize, rest)
        ELSE write_header(removeblock(h, b), b, csize, FALSE)

\* mutant: on a split the allocated header keeps the whole size csize
place_split_keeps_csize(h, b, asize) ==
  LET csize == get_size(h, b)
      rest == (csize - asize) % SizeMod
  IN  IF rest >= min_block_size
        THEN write_header(SplitRest(write_header(removeblock(h, b), b, asize, TRUE),
                                    b, csize, rest), b, csize, TRUE)
        ELSE write_header(removeblock(h, b), b, csize, TRUE)

place(h, b, asize) ==
  LET csize == get_size(h, b)
      rest == (csize - asize) % SizeMod
  IN  IF rest >= min_block_size
        THEN SplitRest(write_header(removeblock(h, b), b, asize, TRUE), b, csize, rest)
        ELSE write_header(removeblock(h, b), b, csize, TRUE)

(***************************************************************************)
(* The public calls, as operators returning [st, ret].                     *)
(***************************************************************************)
AdjustedSize(size) ==
  LET asize == round_up((size + wsize) % SizeMod, dsize)
  IN  IF asize = 16 THEN 32 ELSE asize

\* malloc's tail when no fit was found: place in the grown heap, if any
PlaceGrown(grown, asize) ==
  IF grown.ret = NULL THEN grown
  ELSE [st |-> place(grown.st, grown.ret, asize), ret |-> header_to_payload(grown.ret)]

\* malloc once the heap is initialised
MallocOn(h, size) ==
  LET asize == AdjustedSize(size)
      fit == find_fit(h, asize)
  IN  CASE size = 0 -> [st |-> h, ret |-> NULL]
        [] fit # NULL -> [st |-> place(h, fit, asize), ret |-> header_to_payload(fit)]
        [] OTHER -> PlaceGrown(extend_heap(h, MaxOf(asize, CHUNKSIZE)), asize)

malloc(h, size) ==
  MallocOn(IF h.heap_listp = NULL THEN mm_init(h) ELSE h, size)

\* the tagged-free block, before coalescing
Freed(h, block) ==
  KeepPrefree(write_footer(write_header(h, block, get_size(h, block), FALSE),
                           block, get_size(h, block), FALSE),
              block, preisfree(h, block))

\* mutant: the freed block is listed without being coalesced
free_no_coalesce(h, bp) ==
  IF bp = NULL THEN h
  ELSE MarkNext(insertblock(SetLargest(Freed(h, payload_to_header(bp)),
                                       payload_to_header(bp)),
                            payload_to_header(bp)), payload_to_header(bp))

free(h, bp) ==
  IF bp = NULL THEN h
  ELSE MarkNext(coalesce(Freed(h, payload_to_header(bp)), payload_to_header(bp)).st,
                payload_to_header(bp))

\* realloc's tail: free the old block once the new one is allocated
MoveTo(m, ptr) == IF m.ret = NULL THEN m ELSE [st |-> free(m.st, ptr), ret |-> m.ret]

realloc(h, ptr, size) ==
  CASE size = 0 -> [st |-> free(h, ptr), ret |-> NULL]
    [] ptr = NULL -> malloc(h, size)
    [] OTHER -> MoveTo(malloc(h, size), ptr)

\* calloc's overflow check divides by nmemb: nmemb = 0 traps (SIGFPE)
CallocTraps(nmemb) == nmemb = 0

calloc(h, nmemb, size) ==
  IF ((nmemb * size) % SizeMod) \div nmemb # size THEN [st |-> h, ret |-> NULL]
  ELSE malloc(h, (nmemb * size) % SizeMod)

(***************************************************************************)
(* The client: the calls a program makes, each run to completion.  It      *)
(* frees and reallocates only pointers it holds (anything else is          *)
(* undefined and out of scope); `last` records the call and its size.      *)
(***************************************************************************)
Without(f, p) == [q \in DOMAIN f \ {p} |-> f[q]]
Alive == last.op # "SIGFPE"

\* a call that returned r: the heap is r.st; the client then holds r.ret
\* beside `held`, or `failed` when r.ret is NULL
Returned(r, held, failed, op, req) ==
  /\ Commit(r.st)
  /\ live' = IF r.ret = NULL THEN failed ELSE (r.ret :> req) @@ held
  /\ last' = [op |-> op, req |-> req]

Malloc(n) ==
  /\ Alive
  /\ Returned(malloc(Cur, n), live, live, "malloc", n)

Free(p) ==
  /\ Alive
  /\ Commit(free(Cur, p))
  /\ live' = Without(live, p)
  /\ last' = [op |-> "free", req |-> 0]

\* realloc(p, 0) frees p; a failed realloc(p, n) keeps p
Realloc(p, n) ==
  /\ Alive
  /\ Returned(realloc(Cur, p, n), Without(live, p),
              IF n = 0 THEN Without(live, p) ELSE live, "realloc", n)

Calloc(nmemb, size) ==
  /\ Alive
  /\ IF CallocTraps(nmemb)
       THEN /\ last' = [op |-> "SIGFPE", req |-> 0]
            /\ UNCHANGED <<mem, brk, heap_listp, free_list, endofflist,
                           largestfree, live>>
       ELSE Returned(calloc(Cur, nmemb, size), live, live, "calloc",
                     (nmemb * size) % SizeMod)

Init ==
  /\ mem = [w \in Words |-> 0]
  /\ brk = 0
  /\ heap_listp = NULL
  /\ free_list = [c \in Classes |-> NULL]
  /\ endofflist = [c \in Classes |-> NULL]
  /\ largestfree = 0
  /\ live = <<>>
  /\ last = [op |-> "none", req |-> 0]

Next ==
  \/ \E n \in Requests : Malloc(n)
  \/ \E p \in DOMAIN live \cup {NULL} : Free(p)
  \/ \E p \in DOMAIN live \cup {NULL}, n \in Requests : Realloc(p, n)
  \/ \E a \in CallocArgs : Calloc(a[1], a[2])

Spec == Init /\ [][Next]_vars

(***************************************************************************)
(* The heap as mm_checkheap walks it: from heap_listp, block by block, by  *)
(* the size in each header, up to the epilogue.                            *)
(***************************************************************************)
SizeAt(b) == extract_size(mem[b \div 8])

RECURSIVE BlocksFrom(_, _)
BlocksFrom(b, fuel) ==
  IF fuel = 0 \/ b >= brk - wsize \/ SizeAt(b) = 0 THEN <<>>
  ELSE <<b>> \o BlocksFrom(b + SizeAt(b), fuel - 1)

Blocks == IF heap_listp = NULL THEN <<>> ELSE BlocksFrom(heap_listp, MaxBlocks)
BlockSet == {Blocks[i] : i \in DOMAIN Blocks}
WalkEnd == IF Blocks = <<>> THEN heap_listp
           ELSE Blocks[Len(Blocks)] + SizeAt(Blocks[Len(Blocks)])
IsFree(b) == ~extract_alloc(mem[b \div 8])
FreeBlocks == {b \in BlockSet : IsFree(b)}
AllocBlocks == BlockSet \ FreeBlocks

TypeOK ==
  /\ mem \in [Words -> 0..(SizeMod - 1)]
  /\ brk \in 0..MAX_HEAP /\ brk % 16 = 0
  /\ heap_listp \in {NULL, 8}
  /\ free_list \in [Classes -> 0..MAX_HEAP]
  /\ endofflist \in [Classes -> 0..MAX_HEAP]
  /\ largestfree \in 0..MAX_HEAP
  /\ DOMAIN live \subseteq 0..MAX_HEAP
  /\ last.op \in {"none", "malloc", "free", "realloc", "calloc", "SIGFPE"}

(* Spec invariant 1 and the checker's walk: starting after the prologue,   *)
(* every block is a non-zero multiple of 16 of at least min_block_size,    *)
(* and the walk lands exactly on a zero-size allocated epilogue header at  *)
(* the break.  Broken by any split, merge or growth that writes a wrong    *)
(* size or writes the epilogue in the wrong place.                         *)
ImplicitListWellFormed ==
  heap_listp # NULL =>
    /\ Word(Cur, heap_listp - wsize) = pack(0, TRUE)
    /\ WalkEnd = brk - wsize
    /\ get_size(Cur, WalkEnd) = 0 /\ get_alloc(Cur, WalkEnd)
    /\ \A b \in BlockSet : get_size(Cur, b) >= min_block_size
                            /\ get_size(Cur, b) % dsize = 0

(* Spec invariant 2: the footer of every free block repeats its header's   *)
(* size and free bit, since coalesce finds a free predecessor by reading   *)
(* that footer (find_prev).                                                *)
BoundaryTagsAgree ==
  \A b \in FreeBlocks :
    LET f == Word(Cur, b + get_size(Cur, b) - wsize)
    IN  extract_size(f) = get_size(Cur, b) /\ ~extract_alloc(f)

(* Spec invariant 3: the previous-block-free bit of every block, and of    *)
(* the epilogue, says whether the block just before it is free.  Set and   *)
(* cleared by insertblock / removeblock as side effects, overwritten by    *)
(* every write_header.                                                     *)
PrevFreeBitsAccurate ==
  LET n == Len(Blocks)
      after == [i \in 1..(n + 1) |-> IF i <= n THEN Blocks[i] ELSE WalkEnd]
  IN  \A i \in 1..(n + 1) :
        preisfree(Cur, after[i]) = (i > 1 /\ IsFree(Blocks[i - 1]))

(* Spec invariant 4: coalescing is eager, so no two neighbours are free.   *)
NoAdjacentFree ==
  \A i \in 1..(Len(Blocks) - 1) : ~(IsFree(Blocks[i]) /\ IsFree(Blocks[i + 1]))

(* Spec invariant 5: class c's list, walked from free_list[c] by the next  *)
(* links, holds each free block of class c exactly once and nothing else;  *)
(* its prev links mirror the next links and endofflist[c] is its tail.     *)
(* What insertblock / removeblock must keep across splits and merges.      *)
SegListsExact ==
  \A c \in Classes :
    LET l == FreeListSeq(Cur, c)
        members == {b \in FreeBlocks : get_class(get_size(Cur, b)) = c}
    IN  /\ {l[k] : k \in DOMAIN l} = members
        /\ Len(l) = Cardinality(members)
        /\ \A k \in DOMAIN l : PrevOf(Cur, l[k]) = IF k = 1 THEN NULL ELSE l[k - 1]
        /\ endofflist[c] = IF l = <<>> THEN NULL ELSE l[Len(l)]

(* The pointers the client holds are exactly the payloads of the           *)
(* allocated blocks of the heap: no two share a block (no overlap), none   *)
(* is free or unreachable, and no allocated block is leaked.               *)
LiveBlocksExact ==
  {payload_to_header(p) : p \in DOMAIN live} = AllocBlocks

(* Spec invariant 6: every payload handed out is 16-byte aligned and at    *)
(* least as large as the size its caller asked for.                        *)
PayloadCoversRequest ==
  \A p \in DOMAIN live :
    /\ p % 16 = 0
    /\ live[p] <= get_payload_size(Cur, payload_to_header(p))

(***************************************************************************)
(* Refinement: the heap, read through its walk, implements the abstract    *)
(* allocator.  A payload is owned when its block is allocated; its usable  *)
(* size is the block size less the header.                                 *)
(***************************************************************************)
OwnedMap == [p \in {header_to_payload(b) : b \in AllocBlocks} |->
               SizeAt(payload_to_header(p)) - wsize]

ABS == INSTANCE AbstractAllocator
         WITH live <- live, owned <- OwnedMap,
              Addr <- {a \in 0..MAX_HEAP : a % 16 = 0},
              Sizes <- Requests \cup {(a[1] * a[2]) % SizeMod : a \in CallocArgs}

(* Every step of malloc, free, realloc and calloc is a step of the abstract *)
(* allocator: payloads handed out are fresh, aligned, large enough and      *)
(* disjoint from every other payload, and no payload moves, shrinks or is   *)
(* taken back except by the client's own free or realloc.                   *)
AllocatorRefinement == ABS!Spec

(***************************************************************************)
(* Properties the spec states of the calls, checked against what the code  *)
(* does.                                                                   *)
(***************************************************************************)
Allocating == {"malloc", "realloc", "calloc"}

(* Spec section 8, "Reuse": a call that allocates grows the heap only when *)
(* no free block is large enough for the adjusted request.  find_fit       *)
(* rejects a request larger than largestfree without scanning, so this     *)
(* holds only if largestfree never falls below the largest free block.     *)
FitNotMissed ==
  [][ (last'.op \in Allocating /\ heap_listp # NULL /\ brk' > brk)
        => \A b \in FreeBlocks : SizeAt(b) < AdjustedSize(last'.req) ]_vars

(* Spec section 8: malloc(0) returns NULL and never grows the heap.        *)
Malloc0NoGrowth ==
  [][ (last'.op = "malloc" /\ last'.req = 0) => brk' = brk ]_vars

(* calloc never traps: its overflow check is evaluated for every nmemb.    *)
CallocNeverTraps == last.op # "SIGFPE"

=============================================================================
