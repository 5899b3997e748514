----------------------------- MODULE HeapNested -----------------------------
(***************************************************************************)
(* The kernel heap used like a stack: a caller frees or resizes only the   *)
(* block it was given last, a resize does not outgrow its area, and no     *)
(* call takes the end of the heap.  For callers of other habits see the    *)
(* runs of module Heap.                                                    *)
(***************************************************************************)
EXTENDS Heap, Sequences

(* No request comes so close to the largest size_t that its size wraps     *)
(* around when headers are added; kcalloc() refuses the products that do.  *)
ASSUME CallersAssumption ==
  /\ \A size \in Sizes : size + 2 * HeadSize <= Modulus
  /\ \A array \in Arrays : Total(array[1], array[2]) + 2 * HeadSize <= Modulus
  /\ \A n \in PageCounts : n * PageSize < Modulus

VARIABLE stack    (* the blocks owned, in the order they were given out *)

nestedVars == <<heap, owned, wild, stack>>

Top == stack[Len(stack)]

NestedInit == Init /\ stack = << >>

(* The area in front of heap_end is free.                                  *)
TailIsFree(head) == \A a \in Visited(head) : head[a].next = HeapEnd => ~ head[a].used

(* Any of the allocating calls; the block it returned, if any, is the top. *)
PushBlock ==
  /\ \/ \E size \in Sizes : Kmalloc(size)
     \/ \E array \in Arrays : Kcalloc(array[1], array[2])
     \/ \E n \in PageCounts : Kpagealloc(n)
  /\ \/ DOMAIN owned' = DOMAIN owned /\ UNCHANGED stack
     \/ \E p \in DOMAIN owned' \ DOMAIN owned : stack' = Append(stack, p)
  /\ TailIsFree(heap'.head)

ResizeTop(size) ==
  /\ stack # << >> /\ AreaSize(heap.head, Top - HeadSize) >= size
  /\ Krealloc(Top, size)
  /\ UNCHANGED stack

PopBlock ==
  /\ stack # << >>
  /\ Kfree(Top)
  /\ stack' = SubSeq(stack, 1, Len(stack) - 1)

NestedNext == PushBlock \/ PopBlock \/ \E size \in Sizes : ResizeTop(size)

NestedSpec == NestedInit /\ [][NestedNext]_nestedVars
=============================================================================
