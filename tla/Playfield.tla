----------------------------- MODULE Playfield ------------------------------
(***************************************************************************)
(* The playfield of kernel/src/game/tetris.cpp: the board, the held piece, *)
(* the bag and the game state, under the keys of Tetris::handle_key and    *)
(* the automatic drop of Tetris::update.  Both run in the main loop, so an *)
(* action is a whole handler.  When the automatic drop comes, and what the *)
(* cleared lines do to level, score and speed, is module Pacing.           *)
(***************************************************************************)
EXTENDS Board, PieceBag

CONSTANTS
  PieceDefs,   (* The minos of each piece (PIECE_DEFS).                    *)
  SPAWN_X      (* The column of a new piece's box (3).                     *)

ASSUME PlayfieldAssumption ==
  /\ PieceDefs \in [Piece -> (SUBSET Box) \ {{}}]
  /\ SPAWN_X \in 0 .. BOARD_WIDTH - PIECE_SIZE

ASSUME CompactAssumption == \A i \in Piece : Compact(PieceDefs[i])

STATE_START == "start"
STATE_ACTIVE == "active"
STATE_PAUSED == "paused"
STATE_GAME_OVER == "game over"
GameState == {STATE_START, STATE_ACTIVE, STATE_PAUSED, STATE_GAME_OVER}

VARIABLES
  board,     (* Per row, the columns whose tile is not empty.              *)
  held,      (* The held piece: its minos and the place of its box.        *)
  state      (* The game state.                                            *)

vars == <<board, held, state, bagVars>>

(* held starts zeroed, with no minos: there is no piece before new_piece.  *)
Init ==
  /\ board = EmptyBoard
  /\ held = [minos |-> {}, x |-> 0, y |-> 0]
  /\ state = STATE_START
  /\ BagInit

-----------------------------------------------------------------------------
(* new_piece: the definition of the last piece of bag b, at the top. *)
Spawned(b) == [minos |-> PieceDefs[b[Len(b)]], x |-> SPAWN_X, y |-> 0]

(* drop_piece with the piece h: lock it, take out full rows, deal the next *)
(* piece, and end the game unless that could move down by one.             *)
drop_piece(h) ==
  LET swept == check_row(Lock(board, h))
  IN \E b \in Supply(bag) :
       /\ DealFrom(b)
       /\ board' = swept
       /\ held' = Spawned(b)
       /\ state' = IF collides(swept, Spawned(b).minos, SPAWN_X, 1)
                   THEN STATE_GAME_OVER ELSE state

-----------------------------------------------------------------------------
(* The keys, on a press; a release does nothing.  Only the space and pause *)
(* keys look at the game state.                                            *)

CanMove(dx, dy) ==
  ~collides(board, held.minos, ToInt8(held.x + dx), ToInt8(held.y + dy))

Shift(dx, dy) ==
  /\ CanMove(dx, dy)
  /\ held' = [held EXCEPT !.x = ToInt8(held.x + dx), !.y = ToInt8(held.y + dy)]
  /\ UNCHANGED <<board, state, bagVars>>

MoveLeft == Shift(-1, 0)
MoveRight == Shift(1, 0)

(* Mutant: a piece that cannot move down stays where it is. *)
MoveDown_NoDrop == Shift(0, 1)

(* move(0, 1), by the down keys or by gravity: a piece that cannot move    *)
(* down is dropped where it is.                                            *)
MoveDown ==
  \/ Shift(0, 1)
  \/ ~CanMove(0, 1) /\ drop_piece(held)

(* rotate_piece *)
Rotated(h, clockwise) ==
  LET rotated == compute_rotated(h.minos, clockwise)
      shift == RotationShift(h.minos, rotated)
  IN [minos |-> rotated,
      x |-> ToInt8(h.x + shift.x), y |-> ToInt8(h.y + shift.y)]

(* Mutant: the place a piece is turned into is not tested. *)
Rotate_NoTest(clockwise) ==
  /\ held.minos # {}
  /\ held' = Rotated(held, clockwise)
  /\ UNCHANGED <<board, state, bagVars>>

Rotate(clockwise) ==
  /\ held.minos # {}
  /\ LET r == Rotated(held, clockwise)
     IN ~collides(board, r.minos, r.x, r.y) /\ held' = r
  /\ UNCHANGED <<board, state, bagVars>>

(* hard_drop: down until the next row collides, and drop there. *)
HardDrop ==
  \E d \in 0 .. BOARD_HEIGHT + PIECE_SIZE :
    /\ \A k \in 1 .. d : CanMove(0, k)
    /\ ~CanMove(0, d + 1)
    /\ drop_piece([held EXCEPT !.y = ToInt8(held.y + d)])

StartGame ==
  \E b \in Supply(bag) :
    /\ DealFrom(b)
    /\ held' = Spawned(b)
    /\ state' = STATE_ACTIVE
    /\ UNCHANGED board

PressSpace ==
  \/ state = STATE_START /\ StartGame
  \/ state = STATE_ACTIVE /\ HardDrop

PressPause ==
  /\ state' = CASE state = STATE_ACTIVE -> STATE_PAUSED
                [] state = STATE_PAUSED -> STATE_ACTIVE
                [] OTHER -> state
  /\ UNCHANGED <<board, held, bagVars>>

(* A piece is dealt here, and another one by the space key. *)
restart ==
  \E b \in Supply(<<>>) :
    /\ DealFrom(b)
    /\ held' = Spawned(b)
    /\ board' = EmptyBoard
    /\ state' = STATE_START

handle_key ==
  \/ Rotate(TRUE) \/ Rotate(FALSE)
  \/ MoveDown \/ MoveLeft \/ MoveRight
  \/ PressSpace \/ PressPause \/ restart

(* The frame of update() in which the drop is due. *)
Gravity == state = STATE_ACTIVE /\ MoveDown

Next == handle_key \/ Gravity

Spec == Init /\ [][Next]_vars

(* update() runs every frame, so a drop comes due again and again while    *)
(* the game is active; nobody has to press a key.                          *)
FairSpec == Spec /\ WF_vars(Gravity)

-----------------------------------------------------------------------------
Tetromino == [minos : SUBSET Box, x : Int8, y : Int8]

TypeOK ==
  /\ board \in [Row -> SUBSET Col]
  /\ held \in Tetromino
  /\ state \in GameState
  /\ bag \in Seq(Piece) /\ Len(bag) < NumPieces
  /\ next_piece_index \in Piece /\ piece_index \in Piece

(* No move, turn, drop or deal takes a mino through a wall or the floor:   *)
(* the place tested, in int8 arithmetic, is the place taken.               *)
HeldInside ==
  \A p \in held.minos :
    held.x + p[2] \in Col /\ held.y + p[1] < BOARD_HEIGHT

(* The tiles of the board that the held piece lies upon. *)
Overlaps ==
  \E p \in held.minos :
    held.y + p[1] \in Row /\ held.x + p[2] \in board[held.y + p[1]]

(* A piece lies upon tiles only when it was dealt there, and has not moved *)
(* since: moves, turns, locked pieces and falling rows never bring it on   *)
(* top of a tile.                                                          *)
OverlapOnlyAtSpawn ==
  Overlaps => /\ held.x = SPAWN_X /\ held.y = 0
              /\ \E i \in Piece : held.minos = PieceDefs[i]

(* Between two handlers no full row is left on the board, although         *)
(* check_row stops at the first empty row and full rows above it would     *)
(* stay: ...                                                               *)
NoFullRow == \A r \in Row : board[r] # Col

(* ... there is no row with tiles above an empty one, whatever was locked, *)
(* in whatever game state, also by pieces that stuck out of the board.     *)
NoGap == \A r \in Row : board[r] = {} => \A q \in 0 .. r : board[q] = {}

(* A turn is undone exactly by the opposite turn, and four turns bring the *)
(* piece home, at every place and in every orientation: the rounded shift  *)
(* of the box does not let a piece creep over the board, or climb forever. *)
RotationExact ==
  held.minos # {} =>
    /\ \A cw \in BOOLEAN : Rotated(Rotated(held, cw), ~cw) = held
    /\ LET Turn(h) == Rotated(h, TRUE)
       IN Turn(Turn(Turn(Turn(held)))) = held

(* Turning a piece does not make it climb: the pivot that its turns leave  *)
(* where it is never gets above that of a new piece, so that, however long *)
(* a player turns it, its box stays near the board.                        *)
NeverClimbs ==
  held.minos # {} =>
    \E i \in Piece : 2 * held.y + Lift(held.minos) >= Lift(PieceDefs[i])

(* How far the held piece can fall. *)
Drops(d) == (\A k \in 1 .. d : CanMove(0, k)) /\ ~CanMove(0, d + 1)

Tiles(b) == Cardinality({q \in Row \X Col : q[2] \in b[q[1]]})

(* Locking a piece that lies upon nothing adds its minos to the board, but *)
(* those above it, and takes away whole rows: check_row loses, repeats and *)
(* splits no row.                                                          *)
TilesConserved ==
  [][(board' # board /\ board' # EmptyBoard /\ ~Overlaps) =>
       \E d \in 0 .. BOARD_HEIGHT + PIECE_SIZE :
         /\ Drops(d)
         /\ LET landed == {p \in held.minos : held.y + d + p[1] >= 0}
            IN Tiles(board) + Cardinality(landed) - Tiles(board')
                 \in {k * BOARD_WIDTH : k \in 0 .. PIECE_SIZE}]_vars

(* While the game is active, gravity alone brings every piece down, in     *)
(* spite of moves and turns, and the next one is dealt.                    *)
PiecesKeepComing ==
  []<>(state # STATE_ACTIVE) \/ []<><<bag' # bag>>_vars
=============================================================================
