-------------------------- MODULE AbstractAllocator --------------------------
(***************************************************************************)
(* What the allocator promises its single client (spec sections 3, 6, 8):  *)
(* a successful allocation of n > 0 bytes hands out a fresh 16-byte       *)
(* aligned payload of at least n usable bytes that overlaps no payload     *)
(* still handed out; release takes a payload back; reallocation hands out  *)
(* a fresh payload and takes the old one back in one call, or changes      *)
(* nothing when it fails.  A payload never moves and never changes size    *)
(* while it is handed out.  A failing call (out of memory, overflow) is a  *)
(* step that changes nothing.                                              *)
(***************************************************************************)
EXTENDS Integers, TLC

CONSTANTS
  Addr,   \* the payload addresses the heap can contain
  Sizes   \* the byte counts the client may ask for

VARIABLES
  live,   \* payload -> bytes the client asked for
  owned   \* payload -> usable bytes the allocator reserved for it

avars == <<live, owned>>

Drop(f, p) == [q \in DOMAIN f \ {p} |-> f[q]]

(* [p, p + u) overlaps no payload in `others`. *)
Disjoint(p, u, others) ==
  \A q \in DOMAIN others : p + u <= q \/ q + others[q] <= p

(* In the next state, a fresh payload p holds n requested bytes, next to  *)
(* the payloads `others` (usable sizes) and `kept` (requested sizes).      *)
Grants(p, n, others, kept) ==
  /\ live' = (p :> n) @@ kept
  /\ p \notin DOMAIN others
  /\ p % 16 = 0
  /\ LET u == owned'[p] IN
       /\ p \in DOMAIN owned'
       /\ u >= n
       /\ Disjoint(p, u, others)
       /\ owned' = (p :> u) @@ others

Allocate(n) ==
  /\ n > 0
  /\ \E p \in Addr : Grants(p, n, owned, live)

Release(p) ==
  /\ live' = Drop(live, p)
  /\ p \in DOMAIN live
  /\ owned' = Drop(owned, p)

Reallocate(p, n) ==
  /\ p \in DOMAIN live
  /\ n > 0
  /\ \E q \in Addr : Grants(q, n, Drop(owned, p), Drop(live, p))

Init == live = <<>> /\ owned = <<>>

Next ==
  \/ \E n \in Sizes : Allocate(n)
  \/ \E p \in DOMAIN live :
       \/ Release(p)
       \/ \E n \in Sizes : Reallocate(p, n)

Spec == Init /\ [][Next]_avars

=============================================================================
