------------------------------- MODULE Trans -------------------------------
(***************************************************************************)
(* The matrix transposes of src/Cache/trans.c, B = A^T for an N x M matrix *)
(* A.  transpose_submit picks one of three blocked loop nests by M (61, 32 *)
(* or anything else, meant for 64); trans is the plain row-wise scan.      *)
(*                                                                         *)
(* Each step is one iteration of the innermost loop, with the diagonal     *)
(* write that follows the inner loop in the 61 and 32 nests.  The locals   *)
(* tmp and index start uninitialised (Undef); the model flags a diagonal   *)
(* write that would read them before any assignment.  A holds distinct     *)
(* values, so B equals the transpose exactly when every element has been   *)
(* copied to its place: the code only moves values.                        *)
(***************************************************************************)
EXTENDS Integers

CONSTANTS
    Sizes,      \* the <<M, N>> the driver calls the functions with
    Funcs,      \* the registered functions: "submit", "trans"
    Undef       \* the value of an uninitialised local

VARIABLES
    fn, M, N,   \* the call: which function, and its arguments
    B,          \* the output matrix, B[M][N]
    pos,        \* the loop counters [rb, cb, o, i]
    tmp, index, \* transpose_submit's locals for the diagonal
    pc          \* "61", "32", "64", "trans" while running; "done"; "uninit"

vars == <<fn, M, N, B, pos, tmp, index, pc>>

blocksize == 8

\* A[r][c], distinct values
A(r, c) == r * 1000 + c

\* the dispatch of transpose_submit (lines 33, 67, 99)
Path(f, m) == IF f = "trans" THEN "trans"
              ELSE IF m = 61 THEN "61" ELSE IF m = 32 THEN "32" ELSE "64"

Init ==
    /\ fn \in Funcs
    /\ \E sz \in Sizes : M = sz[1] /\ N = sz[2]
    /\ B = [c \in 0..(M - 1) |-> [r \in 0..(N - 1) |-> -1]]
    /\ pos = [rb |-> 0, cb |-> 0, o |-> 0, i |-> 0]
    /\ tmp = Undef /\ index = Undef
    /\ pc = Path(fn, M)

--------------------------------------------------------------------------
(* The blocked nests for M = 61 (lines 38-64) and M = 32 (lines 71-96).    *)
(* Both run rowblock over N and colblock over M by blocksize; within a     *)
(* block the 61 nest runs c outside r, the 32 nest r outside c.            *)

\* mutant: the diagonal branch forgets index = r
Body_no_index(r, c) ==
    IF r # c THEN [b |-> [B EXCEPT ![c][r] = A(r, c)], tmp |-> tmp, index |-> index]
    ELSE [b |-> B, tmp |-> A(r, c), index |-> index]

\* mutant: the diagonal branch swaps the two assignments
Body_swapped(r, c) ==
    IF r # c THEN [b |-> [B EXCEPT ![c][r] = A(r, c)], tmp |-> tmp, index |-> index]
    ELSE [b |-> B, tmp |-> r, index |-> A(r, c)]

\* the body: B[c][r] = A[r][c] off the diagonal, else tmp and index
Body(r, c) ==
    IF r # c THEN [b |-> [B EXCEPT ![c][r] = A(r, c)], tmp |-> tmp, index |-> index]
    ELSE [b |-> B, tmp |-> A(r, c), index |-> r]

\* the counters once a nest has run out
End == [rb |-> -1, cb |-> -1, o |-> -1, i |-> -1]

\* mutant: the inner loop stops one short of the block's edge
InnerEnds_short(x, lim, block) == x + 1 >= lim \/ x + 2 >= block + blocksize

\* the inner loop's bound: (x < lim) && (x < block + blocksize)
InnerEnds(x, lim, block) == x + 1 >= lim \/ x + 1 >= block + blocksize

\* the loop variables at the corner of block (rb, cb): the 61 nest runs
\* c (o) from colblock and r (i) from rowblock, the 32 nest the reverse
Corner61(rb, cb) == [rb |-> rb, cb |-> cb, o |-> cb, i |-> rb]
Corner32(rb, cb) == [rb |-> rb, cb |-> cb, o |-> rb, i |-> cb]

\* the counters after the inner loop has ended: next outer value (o runs
\* below oLim within block ob; i restarts at ib), next colblock, next
\* rowblock, or the end of the nest
Corner(nest, rb, cb) == IF nest = "61" THEN Corner61(rb, cb) ELSE Corner32(rb, cb)

AdvanceOuter(p, ob, oLim, ib, nest) ==
    IF ~InnerEnds(p.o, oLim, ob) THEN [p EXCEPT !.o = @ + 1, !.i = ib]
    ELSE IF p.cb + blocksize < M THEN Corner(nest, p.rb, p.cb + blocksize)
    ELSE IF p.rb + blocksize < N THEN Corner(nest, p.rb + blocksize, 0)
    ELSE End

\* after the inner loop, if (rowblock == colblock) B[index][index] = tmp
AfterInner(st, p) ==
    IF p.rb = p.cb
    THEN [st EXCEPT !.b = [@ EXCEPT ![st.index][st.index] = st.tmp]]
    ELSE st

\* that write while index and tmp were never assigned
ReadsUninit(st, p) == p.rb = p.cb /\ Undef \in {st.index, st.tmp}

\* one inner iteration of a blocked nest: its body st, then, if the inner
\* loop ends, the diagonal write, then the counters next
NestStep(st, p, innerEnds, next) ==
    IF innerEnds /\ ReadsUninit(st, p)
    THEN pc' = "uninit" /\ UNCHANGED <<B, pos, tmp, index>>
    ELSE /\ B' = (IF innerEnds THEN AfterInner(st, p) ELSE st).b
         /\ tmp' = st.tmp /\ index' = st.index
         /\ IF next = End THEN pc' = "done" /\ UNCHANGED pos
            ELSE pos' = next /\ UNCHANGED pc

Next61(p) == IF ~InnerEnds(p.i, N, p.rb) THEN [p EXCEPT !.i = @ + 1]
             ELSE AdvanceOuter(p, p.cb, M, p.rb, "61")

Next32(p) == IF ~InnerEnds(p.i, M, p.cb) THEN [p EXCEPT !.i = @ + 1]
             ELSE AdvanceOuter(p, p.rb, N, p.cb, "32")

Submit61 ==
    /\ pc = "61"
    /\ NestStep(Body(pos.i, pos.o), pos, InnerEnds(pos.i, N, pos.rb), Next61(pos))
    /\ UNCHANGED <<fn, M, N>>

Submit32 ==
    /\ pc = "32"
    /\ NestStep(Body(pos.o, pos.i), pos, InnerEnds(pos.i, M, pos.cb), Next32(pos))
    /\ UNCHANGED <<fn, M, N>>

--------------------------------------------------------------------------
(* The nest for any other M (lines 99-128): 4 x 4 blocks, two rows of a   *)
(* block per iteration, with no bound on r or the columns but the block's. *)

Next64(p) ==
    IF p.o + 2 < p.rb + 4 THEN [p EXCEPT !.o = @ + 2]
    ELSE IF p.cb + 4 < M THEN [p EXCEPT !.cb = @ + 4, !.o = p.rb]
    ELSE IF p.rb + 4 < N THEN [rb |-> p.rb + 4, cb |-> 0, o |-> p.rb + 4, i |-> 0]
    ELSE End

\* v1..v8 = rows r and r+1 of the block; B[colblock+k][r+d] = v
Submit64 ==
    /\ pc = "64"
    /\ LET r == pos.o IN
       B' = [c \in DOMAIN B |-> [x \in DOMAIN B[c] |->
                IF c \in pos.cb..(pos.cb + 3) /\ x \in {r, r + 1}
                THEN A(x, c) ELSE B[c][x]]]
    /\ IF Next64(pos) = End THEN pc' = "done" /\ UNCHANGED pos
       ELSE pos' = Next64(pos) /\ UNCHANGED pc
    /\ UNCHANGED <<fn, M, N, tmp, index>>

\* mutant: the outer loop's i++ is lost
NextTrans_no_incr(p) ==
    IF p.cb + 1 < M THEN [p EXCEPT !.cb = @ + 1]
    ELSE IF p.rb + 1 < N THEN [p EXCEPT !.cb = 0]
    ELSE End

\* trans (lines 141-156): for i < N, for j < M, B[j][i] = A[i][j]
\* (i is pos.rb, j is pos.cb)
NextTrans(p) ==
    IF p.cb + 1 < M THEN [p EXCEPT !.cb = @ + 1]
    ELSE IF p.rb + 1 < N THEN [p EXCEPT !.rb = @ + 1, !.cb = 0]
    ELSE End

TransStep ==
    /\ pc = "trans"
    /\ B' = [B EXCEPT ![pos.cb][pos.rb] = A(pos.rb, pos.cb)]
    /\ IF NextTrans(pos) = End THEN pc' = "done" /\ UNCHANGED pos
       ELSE pos' = NextTrans(pos) /\ UNCHANGED pc
    /\ UNCHANGED <<fn, M, N, tmp, index>>

Next == Submit61 \/ Submit32 \/ Submit64 \/ TransStep

Spec == Init /\ [][Next]_vars

\* a transpose runs on one thread, which keeps taking its next step
FairSpec == Spec /\ WF_vars(Next)

--------------------------------------------------------------------------
(* Properties.                                                             *)

TypeOK ==
    /\ B \in [0..(M - 1) -> [0..(N - 1) -> Int]]
    /\ pc \in {"61", "32", "64", "trans", "done", "uninit"}
    /\ index \in 0..(N - 1) \cup {Undef}
    /\ tmp \in Int \cup {Undef}

\* is_transpose (lines 180-192): A[i][j] = B[j][i] for every i < N, j < M
is_transpose == \A i \in 0..(N - 1), j \in 0..(M - 1) : A(i, j) = B[j][i]

\* The ENSURES of both functions (lines 129, 155): when the loops end, B
\* is the transpose of A, on each of the sizes the functions are tuned
\* for, whichever nest transpose_submit's test of M picks.
TransposeOnReturn == pc = "done" => is_transpose

\* The diagonal write after the inner loop (B[index][index] = tmp, lines
\* 60 and 92) never reads tmp and index before the loop has assigned them.
NoUninitRead == pc # "uninit"

\* Every call returns: each loop nest advances its counters until its
\* rowblock (or i) passes N.
Returns == <>(pc \in {"done", "uninit"})

====
