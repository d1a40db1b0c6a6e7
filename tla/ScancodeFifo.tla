---------------------------- MODULE ScancodeFifo ----------------------------
(***************************************************************************)
(* What the scancode buffer of kernel/src/driver/ps2/keyboard.cpp amounts  *)
(* to, without its ring, indices or interrupts: a bounded first-in         *)
(* first-out queue that keeps its newest byte to itself.  It starts with   *)
(* the one byte of the zeroed buffer, takes a byte while fewer than        *)
(* Capacity are held (a byte that finds it full is dropped), and hands out *)
(* its oldest byte while it holds at least two.                            *)
(***************************************************************************)
EXTENDS Naturals, Sequences

CONSTANTS
  Byte,      (* The bytes the keyboard can send.                           *)
  Zero,      (* The byte in a slot that was never written.                 *)
  Capacity   (* The most bytes the queue holds.                            *)

VARIABLES
  queue,     (* The bytes held, oldest first; never empty.                 *)
  taken      (* The bytes handed out so far, oldest first (history).       *)

vars == <<queue, taken>>

Init ==
  /\ queue = <<Zero>>
  /\ taken = <<>>

Put(b) ==
  /\ Len(queue) < Capacity
  /\ queue' = Append(queue, b)
  /\ UNCHANGED taken

Take ==
  /\ Len(queue) > 1
  /\ taken' = Append(taken, Head(queue))
  /\ queue' = Tail(queue)

Next == (\E b \in Byte : Put(b)) \/ Take

Spec == Init /\ [][Next]_vars
=============================================================================
