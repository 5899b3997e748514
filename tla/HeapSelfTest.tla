---------------------------- MODULE HeapSelfTest ----------------------------
(***************************************************************************)
(* The heap calls of kernel_main() (kernel.c), its self test: five         *)
(* allocations, one of them grown with krealloc(), and the kfree() of all  *)
(* of them in an order that is neither that of the allocations nor its     *)
(* reverse.  The sizes are constants, so that the order is examined rather *)
(* than the particular sizes of the test.                                  *)
(***************************************************************************)
EXTENDS Heap

CONSTANTS
  Small,    (* the sizes of test, test2 and test3 (50, 12 and 20)          *)
  Big,      (* the sizes of big (4096)                                     *)
  Grown     (* the sizes test grows to as test4 (100)                      *)

Requests == Small \union Big \union Grown

(* The heap has room for the pages, aligned, and for five blocks as large  *)
(* as the largest with their headers, and test grows by so much that       *)
(* krealloc() moves it.                                                    *)
ASSUME TestAssumption ==
  /\ Requests \subseteq Nat \ {0}
  /\ \E most \in Requests :
       /\ \A size \in Requests : size <= most
       /\ \A n \in PageCounts :
            HeapStart + (n + 1) * PageSize + 5 * (most + 2 * HeadSize) + 3 * HeadSize < HeapEnd
  /\ \A s \in Small, g \in Grown : s + 4 * HeadSize <= g

VARIABLES
  step,     (* the call kernel_main() makes next                           *)
  block     (* its pointer variables                                       *)

testVars == <<heap, owned, wild, step, block>>

LastCall == 11    \* the kfree() of pagetest

TestInit ==
  /\ Init
  /\ step = 1
  /\ block = [x \in {"pagetest", "test", "test2", "test3", "big", "test4"} |-> NULL]

(* The variable takes the block the call returns; the test uses the block  *)
(* unchecked, so it does not go on with NULL.                              *)
Assigned(x) ==
  block' \in {[block EXCEPT ![x] = p] : p \in DOMAIN owned' \ DOMAIN owned}
              \union (IF wild' THEN {block} ELSE {})

Allocation(x, n) ==
  /\ IF x = "pagetest" THEN Kpagealloc(n) ELSE Kmalloc(n)
  /\ Assigned(x)
  /\ step' = step + 1

Release(x) ==
  /\ step' = step + 1
  /\ Kfree(block[x])
  /\ UNCHANGED block

TestStep ==
  \/ step = 1  /\ \E n \in PageCounts : Allocation("pagetest", n)
  \/ step = 2  /\ \E n \in Small : Allocation("test", n)
  \/ step = 3  /\ \E n \in Small : Allocation("test2", n)
  \/ step = 4  /\ \E n \in Small : Allocation("test3", n)
  \/ step = 5  /\ \E n \in Big : Allocation("big", n)
  \/ step = 6  /\ \E n \in Grown : Krealloc(block["test"], n) /\ Assigned("test4")
                /\ step' = step + 1
  \/ step = 7  /\ Release("test2")
  \/ step = 8  /\ Release("test3")
  \/ step = 9  /\ Release("test4")
  \/ step = 10 /\ Release("big")
  \/ step = 11 /\ Release("pagetest")

-----------------------------------------------------------------------------
(* At its end the heap is what init_heap() made it, one free area.         *)
TestRestoresHeap == step > LastCall => NothingOwnedIsOneArea /\ owned = << >>
=============================================================================
