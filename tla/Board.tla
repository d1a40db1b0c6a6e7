------------------------------- MODULE Board --------------------------------
(***************************************************************************)
(* The board of kernel/src/game/tetris.cpp and what is done with it: the   *)
(* collision test, locking a piece, and taking out full rows.  A board is  *)
(* a function from the rows, 0 at the top, to the columns whose tile is    *)
(* not empty.                                                              *)
(***************************************************************************)
EXTENDS Pieces

CONSTANTS
  BOARD_WIDTH, BOARD_HEIGHT,   (* 10 and 20 in the code.                   *)
  Int8Mod                      (* The number of int8_t values (2^8).       *)

(* The box of a piece fits on the board, and the place of a mino is an     *)
(* int8_t wherever a step from a place on the board can take the piece.    *)
ASSUME BoardAssumption ==
  /\ BOARD_WIDTH \in Nat /\ BOARD_WIDTH >= PIECE_SIZE
  /\ BOARD_HEIGHT \in Nat /\ BOARD_HEIGHT >= PIECE_SIZE
  /\ Int8Mod \in Nat /\ Int8Mod % 2 = 0
  /\ Int8Mod >= 2 * (BOARD_WIDTH + PIECE_SIZE)
  /\ Int8Mod >= 2 * (BOARD_HEIGHT + 2 * PIECE_SIZE)

Row == 0 .. BOARD_HEIGHT - 1
Col == 0 .. BOARD_WIDTH - 1

EmptyBoard == [r \in Row |-> {}]

(* Conversion to int8_t. *)
Int8 == -(Int8Mod \div 2) .. (Int8Mod \div 2) - 1
ToInt8(n) == ((n + Int8Mod \div 2) % Int8Mod) - Int8Mod \div 2

(* A mino of a piece whose box is at x, y. *)
AbsX(p, x) == ToInt8(x + p[2])
AbsY(p, y) == ToInt8(y + p[1])

(* Mutant: the left wall is not tested. *)
collides_NoLeftWall(b, minos, x, y) ==
  \E p \in minos :
    \/ AbsX(p, x) >= BOARD_WIDTH
    \/ AbsY(p, y) >= BOARD_HEIGHT
    \/ AbsY(p, y) >= 0 /\ AbsX(p, x) \in b[AbsY(p, y)]

collides(b, minos, x, y) ==
  \E p \in minos :
    \/ AbsX(p, x) \notin Col
    \/ AbsY(p, y) >= BOARD_HEIGHT
    \/ AbsY(p, y) >= 0 /\ AbsX(p, x) \in b[AbsY(p, y)]

(* The board with the piece h locked into it; minos above it are lost.     *)
Lock(b, h) ==
  [r \in Row |-> b[r] \cup {c \in Col : \E p \in h.minos :
                              AbsY(p, h.y) = r /\ AbsX(p, h.x) = c}]

(* Mutant: the row that falls into the place of a full row is not checked. *)
FullRows_NoRecheck(b) ==
  LET full == {r \in Row : /\ b[r] = Col
                           /\ \A q \in r .. BOARD_HEIGHT - 1 : b[q] # {}}
      RunBelow(r) == {q \in r + 1 .. BOARD_HEIGHT - 1 : r + 1 .. q \subseteq full}
  IN {r \in full : Cardinality(RunBelow(r)) % 2 = 0}

(* check_row looks for full rows from the bottom up to the first empty     *)
(* row ...                                                                 *)
FullRows(b) ==
  {r \in Row : /\ b[r] = Col
               /\ \A q \in r .. BOARD_HEIGHT - 1 : b[q] # {}}

(* Mutants: rows do not fall; rows fall for full rows above them too.      *)
Landing_Stay(q, full) == q
Landing_All(q, full) == q + Cardinality(full)

(* ... takes them out, and lets every row above fall by one for each.      *)
Landing(q, full) == q + Cardinality({f \in full : f > q})

check_row(b) ==
  LET full == FullRows(b)
  IN [r \in Row |->
        UNION {b[q] : q \in {q \in Row \ full : Landing(q, full) = r}}]
=============================================================================
