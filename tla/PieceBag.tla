------------------------------ MODULE PieceBag ------------------------------
(***************************************************************************)
(* What Tetris::new_piece of kernel/src/game/tetris.cpp promises about the *)
(* order of the pieces: they are dealt from a bag that is refilled, when   *)
(* it is empty, with every piece once, in any order.  The shuffle loop     *)
(* behind it is module BagShuffle, which implements this one.              *)
(***************************************************************************)
EXTENDS Integers, Sequences

CONSTANT NumPieces       (* The number of piece definitions (7).           *)

ASSUME NumPiecesAssumption == NumPieces \in Nat \ {0}

Piece == 0 .. NumPieces - 1

VARIABLES
  bag,                   (* The pieces left, the next to be dealt last.    *)
  next_piece_index,      (* The piece that draw() shows as the next one.   *)
  piece_index            (* The piece dealt last.                          *)

bagVars == <<bag, next_piece_index, piece_index>>

BagInit ==
  /\ bag = <<>>
  /\ next_piece_index = 0 /\ piece_index = 0

(* The orders in which a bag can be refilled. *)
Arrangements ==
  {b \in [1 .. NumPieces -> Piece] :
     \A i, j \in 1 .. NumPieces : b[i] = b[j] => i = j}

(* The bags the next piece can be dealt from, given what is left.          *)
Supply(left) == IF left = <<>> THEN Arrangements ELSE {left}

(* The next piece of the bag b becomes the held one; the one after it is   *)
(* shown as the next, or piece 0 when it was the last of its bag.          *)
DealFrom(b) ==
  /\ piece_index' = b[Len(b)]
  /\ bag' = SubSeq(b, 1, Len(b) - 1)
  /\ next_piece_index' = IF Len(b) > 1 THEN b[Len(b) - 1] ELSE 0

Deal == \E b \in Supply(bag) : DealFrom(b)

(* restart() throws the bag away. *)
Discard == bag' = <<>> /\ UNCHANGED <<next_piece_index, piece_index>>

BagSpec == BagInit /\ [][Deal \/ Discard]_bagVars
=============================================================================
