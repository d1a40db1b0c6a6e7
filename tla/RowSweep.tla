------------------------------ MODULE RowSweep ------------------------------
(***************************************************************************)
(* The loop of Tetris::check_row in kernel/src/game/tetris.cpp, one        *)
(* iteration a step: it scans up from the bottom row, moves everything     *)
(* above a full row down by one and looks at the same row again, and stops *)
(* at an empty row.  The rest of the project uses the closed form of its   *)
(* result, check_row and FullRows of module Board; here that form is       *)
(* compared with the loop, for every board, gaps included.                 *)
(***************************************************************************)
EXTENDS Board

VARIABLES
  before,          (* The board check_row is called with.                  *)
  board,           (* The board.                                           *)
  y,               (* The loop variable.                                   *)
  lines_cleared,
  done             (* Has the loop ended?                                  *)

vars == <<before, board, y, lines_cleared, done>>

Init ==
  /\ before \in [Row -> SUBSET Col] /\ board = before
  /\ y = BOARD_HEIGHT - 1
  /\ lines_cleared = 0
  /\ done = FALSE

(* The rows above row y fall by one. *)
ShiftDown(b) ==
  [r \in Row |-> IF r > y THEN b[r] ELSE IF r > 0 THEN b[r - 1] ELSE {}]

EmptyRow ==
  /\ board[y] = {}
  /\ done' = TRUE
  /\ UNCHANGED <<board, y, lines_cleared>>

(* Mutant: the loop goes on with the next row. *)
FullRow_NoRecheck ==
  /\ board[y] = Col
  /\ board' = ShiftDown(board)
  /\ lines_cleared' = lines_cleared + 1
  /\ y' = y - 1
  /\ UNCHANGED done

FullRow ==
  /\ board[y] = Col
  /\ board' = ShiftDown(board)
  /\ lines_cleared' = lines_cleared + 1
  /\ UNCHANGED <<y, done>>

(* Mutant: the loop does not go on. *)
PartRow_Stay ==
  /\ board[y] \notin {{}, Col}
  /\ UNCHANGED <<board, y, lines_cleared, done>>

PartRow ==
  /\ board[y] \notin {{}, Col}
  /\ y' = y - 1
  /\ UNCHANGED <<board, lines_cleared, done>>

Iterate == ~done /\ y >= 0 /\ (EmptyRow \/ FullRow \/ PartRow) /\ UNCHANGED before

Top == ~done /\ y < 0 /\ done' = TRUE /\ UNCHANGED <<before, board, y, lines_cleared>>

Next == Iterate \/ Top

Spec == Init /\ [][Next]_vars
FairSpec == Spec /\ WF_vars(Next)

-----------------------------------------------------------------------------
TypeOK ==
  /\ before \in [Row -> SUBSET Col] /\ board \in [Row -> SUBSET Col]
  /\ y \in -1 .. BOARD_HEIGHT - 1
  /\ lines_cleared \in 0 .. BOARD_HEIGHT
  /\ done \in BOOLEAN

(* In the middle of the loop: the rows of the first board from row         *)
(* y - lines_cleared + 1 down have been looked at, and the board is the    *)
(* first one without those of them that were full.                         *)
Cleared == {r \in FullRows(before) : r > y - lines_cleared}
SweepInv ==
  /\ lines_cleared = Cardinality(Cleared)
  /\ board = [r \in Row |->
                UNION {before[q] : q \in {q \in Row \ Cleared :
                                            Landing(q, Cleared) = r}}]

(* When the loop ends the board is the closed form, and lines_cleared is   *)
(* the number of full rows below the first empty one.                      *)
ClosedForm ==
  done => /\ board = check_row(before)
          /\ lines_cleared = Cardinality(FullRows(before))

(* Looking at the same row again does not make the loop run forever: every *)
(* row taken out puts an empty one on top.                                 *)
Terminates == <>done
=============================================================================
