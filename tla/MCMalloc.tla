------------------------------ MODULE MCMalloc ------------------------------
(* Model-checking instances of Malloc: heaps of a few minimum blocks that  *)
(* grow by a chunk at a time, and requests whose adjusted sizes fall in    *)
(* different size classes, one above the chunk size.                       *)
EXTENDS Malloc

MC_CHUNK == 64
MC_MAX_HEAP == 144
MC_SIZE_BITS == 16
\* the refinement run: fewer request sizes, since the refinement mapping
\* walks the heap on both sides of every transition
MC_RefRequests == {0, 24, 72}
MC_RefCallocArgs == {<<2, 12>>}
\* sizes near SIZE_MAX, where size + wsize wraps in malloc
MC_WrapRequests == {2^MC_SIZE_BITS - 4}
MC_ZeroAsizeRequests == {24, 2^MC_SIZE_BITS - 8}
\* calloc with nmemb = 0
MC_ZeroCallocArgs == {<<0, 24>>}
\* room for two free 64-byte blocks apart and one more chunk
MC_ReuseMaxHeap == 272
MC_ReuseRequests == {24, 40}
\* the invariants run: a heap that grows 32 bytes at a time up to room for
\* five minimum blocks, so that one class list can hold three free blocks
MC_InvChunk == 32
MC_InvMaxHeap == 176
\* 24 gives minimum blocks; 68 an 80-byte block above the chunk, with a
\* size + wsize that is not a multiple of 16
MC_InvRequests == {0, 24, 68}
MC_InvCallocArgs == {<<2, 12>>, <<2, 2^15>>}
\* the state up to the history variable last, of which Next reads only
\* whether calloc trapped
MC_InvView == <<mem, brk, heap_listp, free_list, endofflist, largestfree, live, Alive>>
=============================================================================
