-------------------------------- MODULE Heap --------------------------------
(***************************************************************************)
(* malloc and free of kernel/src/memory/mem.cpp.  Addresses count from     *)
(* heap_buf, which is aligned.                                             *)
(***************************************************************************)
EXTENDS Integers

CONSTANTS
  heap_max,      (* The size of the heap (16 MB).                          *)
  Align          (* What sizes and addresses are multiples of (8).         *)

ASSUME HeapAssumption ==
  heap_max \in Nat /\ Align \in Nat \ {0} /\ heap_max % Align = 0

VARIABLE heap_ptr

HeapInit == heap_ptr = 0

(* Mutant: sizes are rounded down. *)
align_up_Down(v) == (v \div Align) * Align

align_up(v) == ((v + Align - 1) \div Align) * Align

(* Mutant: it is tested where the block starts, not where it ends. *)
Fits_Start(size) == align_up(heap_ptr) < heap_max

Fits(size) == align_up(heap_ptr) + align_up(size) <= heap_max

(* What malloc does when it does not panic; the block is where the pointer *)
(* was.                                                                    *)
malloc(size) == heap_ptr' = align_up(heap_ptr) + align_up(size)

free == UNCHANGED heap_ptr
=============================================================================
