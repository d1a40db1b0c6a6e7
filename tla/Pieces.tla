------------------------------- MODULE Pieces -------------------------------
(***************************************************************************)
(* The pieces of kernel/src/game/tetris.cpp and their rotation.  A piece's *)
(* minos are the set of the cells <<row, column>> of its 4 by 4 box that   *)
(* are not 0.  The colour only says that a tile of the board is not empty. *)
(***************************************************************************)
EXTENDS Integers, FiniteSets

PIECE_SIZE == 4
Box == (0 .. PIECE_SIZE - 1) \X (0 .. PIECE_SIZE - 1)

(* The seven definitions, in the code's order: I J T L O Z S. *)
PIECE_DEFS ==
  [i \in 0 .. 6 |->
     CASE i = 0 -> {<<1,0>>, <<1,1>>, <<1,2>>, <<1,3>>}
       [] i = 1 -> {<<0,1>>, <<1,1>>, <<2,0>>, <<2,1>>}
       [] i = 2 -> {<<0,1>>, <<1,0>>, <<1,1>>, <<1,2>>}
       [] i = 3 -> {<<0,1>>, <<1,1>>, <<2,1>>, <<2,2>>}
       [] i = 4 -> {<<0,0>>, <<0,1>>, <<1,0>>, <<1,1>>}
       [] i = 5 -> {<<0,0>>, <<0,1>>, <<1,1>>, <<1,2>>}
       [] i = 6 -> {<<0,1>>, <<0,2>>, <<1,0>>, <<1,1>>}]

(* compute_rotated: the box turned by a quarter. *)
compute_rotated(minos, clockwise) ==
  IF clockwise
  THEN {<<p[2], PIECE_SIZE - 1 - p[1]>> : p \in minos}
  ELSE {<<PIECE_SIZE - 1 - p[2], p[1]>> : p \in minos}

(* Mutant: the quotient is always rounded towards plus infinity at halves, *)
(* the remainder of a negative sum being ignored.                          *)
div_round_Floor(num, den) == (num + den \div 2) \div den

(* The quotient rounded to the nearest integer, halves away from zero.     *)
div_round(num, den) ==
  IF num >= 0 THEN (num + den \div 2) \div den
              ELSE -((-num + den \div 2) \div den)

RowsFrom(minos, k) == {p \in minos : p[1] >= k}
ColumnsFrom(minos, k) == {p \in minos : p[2] >= k}

(* The sums of the minos' rows and columns: 3 is counted three times, ...  *)
Rows(minos) == Cardinality(RowsFrom(minos, 1))
               + Cardinality(RowsFrom(minos, 2)) + Cardinality(RowsFrom(minos, 3))
Columns(minos) == Cardinality(ColumnsFrom(minos, 1))
                  + Cardinality(ColumnsFrom(minos, 2))
                  + Cardinality(ColumnsFrom(minos, 3))

(* Mutant: the centre's move is rounded down, as a shift of the bits does. *)
RotationShift_Down(minos, rotated) ==
  [x |-> (Columns(minos) - Columns(rotated)) \div Cardinality(minos),
   y |-> (Rows(minos) - Rows(rotated)) \div Cardinality(minos)]

(* How far rotate_piece moves the box so that the minos' centre stays.     *)
RotationShift(minos, rotated) ==
  [x |-> div_round(Columns(minos) - Columns(rotated), Cardinality(minos)),
   y |-> div_round(Rows(minos) - Rows(rotated), Cardinality(minos))]

(* The minos hang together: no row and no column between two of them is    *)
(* free of minos.  (Not in the code; a property of its pieces.)            *)
Compact(minos) ==
  \A p, q \in minos :
    /\ \A k \in p[1] .. q[1] : \E s \in minos : s[1] = k
    /\ \A k \in p[2] .. q[2] : \E s \in minos : s[2] = k

(* Twice the height of the pivot over the top of the box: the point that   *)
(* all turns of the minos leave where it is.  (It is not in the code; the  *)
(* shift of every turn is the difference of the lifts, halved.)            *)
Lift(minos) ==
  LET n == Cardinality(minos)
  IN div_round(Rows(minos) - Columns(minos), n)
     + div_round(Rows(minos) + Columns(minos) - 3 * n, n)
=============================================================================
