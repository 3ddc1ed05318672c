------------------------------- MODULE Csim -------------------------------
(***************************************************************************)
(* The cache simulator of src/Cache/csim.c.  main reads a trace of         *)
(* records; each L or S record is one call of operate, which looks the     *)
(* address up in its set, counts a hit, or counts a miss and fills an      *)
(* empty line or evicts the line findminmax picks.  Each line keeps a      *)
(* counter "used"; a new line gets the set's largest counter plus one.     *)
(*                                                                         *)
(* Beside the cache the model keeps a reference LRU cache (lru): per set,  *)
(* the sequence of resident tags from least to most recently used.  It is  *)
(* what the comment on findminmax (lines 89-94) says the counters achieve. *)
(*                                                                         *)
(* Addresses are AddrBits wide instead of 64.  The shifts of operate are   *)
(* taken modulo 2^AddrBits, with the shift count masked to the word width  *)
(* as the x86-64 shift instructions do.                                    *)
(***************************************************************************)
EXTENDS Integers, Sequences, FiniteSets

CONSTANTS
    s,          \* set index bits (-s)
    b,          \* block offset bits (-b)
    E,          \* lines per set (-E)
    AddrBits,   \* width of an address
    Addrs,      \* the addresses the trace may name
    Instrs,     \* the record kinds the trace may hold: "L", "S", "M", "I"
    MaxTrace    \* the number of trace records read

VARIABLES
    cache,      \* set -> line -> [used, validbit, tag]
    hits, misses, evicts,
    lru,        \* set -> resident tags, least recently used first
    n           \* records read so far

vars == <<cache, hits, misses, evicts, lru, n>>

no_sets == 2 ^ s
Sets == 0..(no_sets - 1)
Lines == 0..(E - 1)

--------------------------------------------------------------------------
(* Address arithmetic, lines 124-126.                                      *)

Shl(x, k) == (x * 2 ^ (k % AddrBits)) % (2 ^ AddrBits)
Shr(x, k) == x \div 2 ^ (k % AddrBits)

tagsize == AddrBits - (s + b)
\* mutant: the tag taken above the block bits only
TagOf_no_set_bits(memloc) == Shr(memloc, b)

TagOf(memloc) == Shr(memloc, s + b)
SetOf(memloc) == Shr(Shl(memloc, tagsize), tagsize + b)

--------------------------------------------------------------------------

EmptyLine == [used |-> 0, validbit |-> 0, tag |-> 0]

initcache == [i \in Sets |-> [j \in Lines |-> EmptyLine]]

\* findminmax: one pass from line 1, keeping the first line with the
\* smallest counter and the largest counter
RECURSIVE FindFrom(_, _, _)

Step(curset, line, acc) ==
    [oldest |-> IF curset[line].used < acc.min THEN line ELSE acc.oldest,
     min    |-> IF curset[line].used < acc.min THEN curset[line].used ELSE acc.min,
     max    |-> IF curset[line].used > acc.max THEN curset[line].used ELSE acc.max]

\* mutant: the loop stops one line early
FindFrom_short(curset, line, acc) ==
    IF line >= E - 1 THEN acc ELSE FindFrom(curset, line + 1, Step(curset, line, acc))

FindFrom(curset, line, acc) ==
    IF line >= E THEN acc ELSE FindFrom(curset, line + 1, Step(curset, line, acc))

findminmax(curset) ==
    FindFrom(curset, 1, [oldest |-> 0, min |-> curset[0].used, max |-> curset[0].used])

FirstOf(S) == CHOOSE i \in S : \A k \in S : i <= k

HitLines(cs, t) == {l \in Lines : cs[l].validbit = 1 /\ cs[l].tag = t}
EmptyLines(cs) == {l \in Lines : cs[l].validbit = 0}

\* operate on a hit: every valid line with the tag gets used++ and a hit
OperateHit(set, t, cs) ==
    /\ cache' = [cache EXCEPT ![set] =
                    [l \in Lines |-> IF l \in HitLines(cs, t)
                                     THEN [cs[l] EXCEPT !.used = @ + 1]
                                     ELSE cs[l]]]
    /\ hits' = hits + Cardinality(HitLines(cs, t))
    /\ UNCHANGED <<misses, evicts>>

\* mutant: the evict count taken on every miss
OperateMiss_counts_all(set, t, cs, mm) ==
    /\ misses' = misses + 1
    /\ evicts' = evicts + 1
    /\ IF EmptyLines(cs) = {}
       THEN cache' = [cache EXCEPT ![set][mm.oldest] =
                         [@ EXCEPT !.tag = t, !.used = mm.max + 1]]
       ELSE cache' = [cache EXCEPT ![set][FirstOf(EmptyLines(cs))] =
                         [used |-> mm.max + 1, validbit |-> 1, tag |-> t]]
    /\ UNCHANGED hits

\* operate on a miss: evict findminmax's oldest line of a full set, or fill
\* the first empty line; either gets the largest counter plus one
OperateMiss(set, t, cs, mm) ==
    /\ misses' = misses + 1
    /\ IF EmptyLines(cs) = {}
       THEN /\ cache' = [cache EXCEPT ![set][mm.oldest] =
                            [@ EXCEPT !.tag = t, !.used = mm.max + 1]]
            /\ evicts' = evicts + 1
       ELSE /\ cache' = [cache EXCEPT ![set][FirstOf(EmptyLines(cs))] =
                            [used |-> mm.max + 1, validbit |-> 1, tag |-> t]]
            /\ UNCHANGED evicts
    /\ UNCHANGED hits

operate(set, t, cs) ==
    IF HitLines(cs, t) # {}
    THEN OperateHit(set, t, cs)
    ELSE OperateMiss(set, t, cs, findminmax(cs))

--------------------------------------------------------------------------
(* The reference LRU cache.                                                *)

Resident(q) == {q[i] : i \in DOMAIN q}

RefAccess(q, t) ==
    IF t \in Resident(q) THEN Append(SelectSeq(q, LAMBDA x : x # t), t)
    ELSE IF Len(q) < E THEN Append(q, t)
    ELSE Append(Tail(q), t)

--------------------------------------------------------------------------
(* main, lines 223-251.                                                    *)

Init ==
    /\ cache = initcache
    /\ hits = 0 /\ misses = 0 /\ evicts = 0
    /\ lru = [i \in Sets |-> <<>>]
    /\ n = 0

\* one record of the trace: L and S call operate, any other is skipped
Record(instr, memloc) ==
    /\ n < MaxTrace
    /\ n' = n + 1
    /\ IF instr \in {"L", "S"}
       THEN /\ operate(SetOf(memloc), TagOf(memloc), cache[SetOf(memloc)])
            /\ lru' = [lru EXCEPT ![SetOf(memloc)] = RefAccess(@, TagOf(memloc))]
       ELSE UNCHANGED <<cache, hits, misses, evicts, lru>>

Next == \E i \in Instrs, m \in Addrs : Record(i, m)

Spec == Init /\ [][Next]_vars

--------------------------------------------------------------------------
(* Properties.                                                             *)

TypeOK ==
    /\ cache \in [Sets -> [Lines -> [used : 0..MaxTrace, validbit : {0, 1},
                                     tag : 0..(2 ^ tagsize - 1)]]]
    /\ {hits, misses, evicts, n} \subseteq 0..MaxTrace

\* The counters account for the cache: every miss that evicts nothing
\* fills one line, and no line is ever emptied, so misses - evicts is the
\* number of valid lines.
MissesFillLines ==
    misses - evicts =
        Cardinality({<<i, l>> \in Sets \X Lines : cache[i][l].validbit = 1})

\* findminmax returns the first line with the least counter, and the
\* greatest counter, on the counters of every set the cache reaches
\* (with ties, which the hit path's used++ creates).
MinUsed(cs) == CHOOSE v \in {cs[l].used : l \in Lines} : \A l \in Lines : v <= cs[l].used
MaxUsed(cs) == CHOOSE v \in {cs[l].used : l \in Lines} : \A l \in Lines : v >= cs[l].used
RefMinMax(cs) ==
    [oldest |-> FirstOf({l \in Lines : cs[l].used = MinUsed(cs)}),
     min |-> MinUsed(cs), max |-> MaxUsed(cs)]
FindMinMaxCorrect ==
    \A i \in Sets : findminmax(cache[i]) = RefMinMax(cache[i])

\* The cache holds what an LRU cache holds after the same accesses (the
\* comment on findminmax: "evict the minused ... keep the oldest one to
\* throw and the newest to keep").
LRUAgrees ==
    \A i \in Sets :
        {cache[i][l].tag : l \in {k \in Lines : cache[i][k].validbit = 1}}
            = Resident(lru[i])

====
