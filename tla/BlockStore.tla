----------------------------- MODULE BlockStore -----------------------------
(***************************************************************************)
(* What kmalloc(), kcalloc(), krealloc(), kpagealloc() and kfree() promise *)
(* their callers: blocks of the heap's memory that do not overlap, each as *)
(* long as was asked for, owned by the caller until it gives them back.    *)
(***************************************************************************)
EXTENDS Integers

CONSTANTS
  Low, High,   (* the heap's memory: the addresses Low .. High - 1         *)
  Sizes        (* the sizes callers ask for                                *)

VARIABLE owned   (* the blocks callers own: their sizes, by address        *)

Addresses == {p \in Low .. High - 1 : p % 8 = 0}

Apart(p, m, q, n) == p + m <= q \/ q + n <= p

(* The blocks in `others' with one more, of n bytes at p, that overlaps    *)
(* none of them.                                                           *)
Beside(others, p, n) ==
  {blocks \in {[q \in DOMAIN others \union {p} |-> IF q = p THEN n ELSE others[q]]} :
     p + n <= High /\ \A q \in DOMAIN others : Apart(p, n, q, others[q])}

Without(p) == [q \in DOMAIN owned \ {p} |-> owned[q]]

Give(p, n) == p \notin DOMAIN owned /\ owned' \in Beside(owned, p, n)

TakeBack(p) == owned' = Without(p)

(* The block at p is now n bytes at q: the old block when it was long      *)
(* enough, otherwise a new one.                                            *)
Resize(p, q, n) == owned' \in Beside(Without(p), q, n)

StoreInit == owned = << >>

StoreNext ==
  \/ \E p \in Addresses, n \in Sizes : Give(p, n)
  \/ \E p \in DOMAIN owned : TakeBack(p)
  \/ \E p \in DOMAIN owned, q \in Addresses, n \in Sizes : Resize(p, q, n)

StoreSpec == StoreInit /\ [][StoreNext]_owned
=============================================================================
