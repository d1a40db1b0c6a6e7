----------------------------- MODULE BagShuffle -----------------------------
(***************************************************************************)
(* Tetris::new_piece of kernel/src/game/tetris.cpp, step by step: the      *)
(* array bag_pieces is refilled and shuffled in place when the bag is      *)
(* empty, and pieces are dealt from its end.  rand() % (i + 1) is any      *)
(* index up to i: rand returns an int, the remainder is taken unsigned.    *)
(***************************************************************************)
EXTENDS Integers, Sequences

CONSTANT NumPieces       (* The number of piece definitions (7).           *)

ASSUME NumPiecesAssumption == NumPieces \in Nat \ {0}

Piece == 0 .. NumPieces - 1

VARIABLES
  bag_pieces, bag_size,  (* The bag: the first bag_size elements.          *)
  next_piece_index,      (* The piece shown as the next one.               *)
  piece_index,           (* The piece dealt last (new_piece's local).      *)
  pc,                    (* Where new_piece is.                            *)
  i,                     (* The shuffle's loop variable.                   *)
  promised,              (* History: has this game shown a next piece?     *)
  since                  (* History: deals since each piece was dealt.     *)

vars == <<bag_pieces, bag_size, next_piece_index, piece_index, pc, i,
          promised, since>>

Init ==
  /\ bag_pieces = [k \in Piece |-> 0] /\ bag_size = 0
  /\ next_piece_index = 0 /\ piece_index = 0
  /\ pc = "idle" /\ i = 0
  /\ promised = FALSE /\ since = [p \in Piece |-> 0]

(* The game calls new_piece. *)
CallNewPiece ==
  /\ pc = "idle"
  /\ pc' = IF bag_size = 0 THEN "fill" ELSE "deal"
  /\ UNCHANGED <<bag_pieces, bag_size, next_piece_index, piece_index, i,
                 promised, since>>

(* restart() empties the bag and calls new_piece: a new game.              *)
restart ==
  /\ pc = "idle"
  /\ bag_size' = 0 /\ pc' = "fill"
  /\ promised' = FALSE /\ since' = [p \in Piece |-> 0]
  /\ UNCHANGED <<bag_pieces, next_piece_index, piece_index, i>>

Fill ==
  /\ pc = "fill"
  /\ bag_pieces' = [k \in Piece |-> k]
  /\ i' = NumPieces - 1
  /\ pc' = "shuffle"
  /\ UNCHANGED <<bag_size, next_piece_index, piece_index, promised, since>>

(* Mutant: the second half of the exchange reads the element just written. *)
Exchange_NoTmp(a, k, l) == [a EXCEPT ![k] = a[l]]

Exchange(a, k, l) == [a EXCEPT ![k] = a[l], ![l] = a[k]]

Swap ==
  /\ pc = "shuffle" /\ i > 0
  /\ \E j \in 0 .. i : bag_pieces' = Exchange(bag_pieces, i, j)
  /\ i' = i - 1
  /\ UNCHANGED <<bag_size, next_piece_index, piece_index, pc, promised, since>>

Shuffled ==
  /\ pc = "shuffle" /\ i = 0
  /\ bag_size' = NumPieces
  /\ pc' = "deal"
  /\ UNCHANGED <<bag_pieces, next_piece_index, piece_index, i, promised, since>>

(* Mutant: the element before the last is dealt. *)
DealLast_Second ==
  /\ pc = "deal"
  /\ piece_index' = bag_pieces[IF bag_size > 1 THEN bag_size - 2 ELSE 0]
  /\ bag_size' = bag_size - 1
  /\ next_piece_index' = IF bag_size' > 0 THEN bag_pieces[bag_size' - 1] ELSE 0
  /\ pc' = "idle" /\ promised' = TRUE
  /\ since' = [p \in Piece |-> IF p = piece_index' THEN 0 ELSE since[p] + 1]
  /\ UNCHANGED <<bag_pieces, i>>

DealLast ==
  /\ pc = "deal"
  /\ piece_index' = bag_pieces[bag_size - 1]
  /\ bag_size' = bag_size - 1
  /\ next_piece_index' = IF bag_size' > 0 THEN bag_pieces[bag_size' - 1] ELSE 0
  /\ pc' = "idle" /\ promised' = TRUE
  /\ since' = [p \in Piece |-> IF p = piece_index' THEN 0 ELSE since[p] + 1]
  /\ UNCHANGED <<bag_pieces, i>>

Next == CallNewPiece \/ restart \/ Fill \/ Swap \/ Shuffled \/ DealLast

Spec == Init /\ [][Next]_vars

-----------------------------------------------------------------------------
TypeOK ==
  /\ bag_pieces \in [Piece -> Piece] /\ bag_size \in 0 .. NumPieces
  /\ next_piece_index \in Piece /\ piece_index \in Piece
  /\ pc \in {"idle", "fill", "shuffle", "deal"}
  /\ i \in 0 .. NumPieces - 1
  /\ promised \in BOOLEAN /\ since \in [Piece -> Nat]

(* The pieces left in the bag. *)
Left == {bag_pieces[k] : k \in 0 .. bag_size - 1}

(* Every piece is in the array, and no piece is in it twice. *)
IsArrangement(a) ==
  /\ \A k, l \in Piece : a[k] = a[l] => k = l
  /\ \A p \in Piece : \E k \in Piece : a[k] = p

(* Whatever rand() returns and however often the game is restarted, no     *)
(* piece is kept waiting: between two deals of one piece there are at most *)
(* 2 * (NumPieces - 1) others (it was first of one bag, last of the next). *)
DroughtBounded == \A p \in Piece : since[p] <= 2 * (NumPieces - 1)

(* The inductive invariant behind it: a piece still in the bag has waited  *)
(* at most the previous bag and what this bag has dealt; one already dealt *)
(* from this bag at most what the bag has dealt after it.                  *)
WaitInv ==
  \A p \in Piece :
    since[p] <= IF p \in Left
                THEN (NumPieces - 1) + (NumPieces - bag_size)
                ELSE NumPieces - bag_size - 1

BagInv ==
  /\ (bag_size > 0 \/ pc \in {"shuffle", "deal"}) => IsArrangement(bag_pieces)
  /\ pc \in {"fill", "shuffle"} => bag_size = 0
  /\ pc = "deal" => bag_size > 0
  /\ pc # "deal" => bag_size < NumPieces
  /\ (pc = "deal" /\ bag_size = NumPieces) =>
       \A p \in Piece : since[p] <= NumPieces - 1
  /\ ~(pc = "deal" /\ bag_size = NumPieces) => WaitInv

(* Shuffle and deal, step by step, implement the abstract bag: a full bag  *)
(* has not been dealt from, so to the game it is still the empty one.      *)
Remaining == IF bag_size = NumPieces THEN <<>>
             ELSE [k \in 1 .. bag_size |-> bag_pieces[k - 1]]
Bag == INSTANCE PieceBag WITH bag <- Remaining
BagSpec == Bag!BagSpec

(* The piece shown as the next one: the bag's last.                        *)
PreviewInv ==
  pc \in {"idle", "deal"} /\ promised /\ bag_size \in 1 .. NumPieces - 1 =>
    next_piece_index = bag_pieces[bag_size - 1]

(* Within a game each piece dealt is the one that draw() showed as the     *)
(* next (tetris.cpp:108 and :508), unless the bag had to be refilled for   *)
(* it: before that the player is shown piece 0, whatever will come.        *)
ShownUnlessEmpty ==
  [][(pc = "deal" /\ pc' = "idle" /\ promised /\ bag_size < NumPieces) =>
       piece_index' = next_piece_index]_vars
=============================================================================
