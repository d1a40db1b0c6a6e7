------------------------------ MODULE BagProof ------------------------------
(***************************************************************************)
(* Proofs about the piece bag, for every number of pieces: the shuffle     *)
(* keeps every piece exactly once, so no piece is ever kept waiting for    *)
(* longer than two bags, and the code implements the abstract bag.         *)
(***************************************************************************)
EXTENDS BagShuffle, TLAPS

IInv == TypeOK /\ BagInv

-----------------------------------------------------------------------------
(* Exchanging two elements of an arrangement gives an arrangement. *)
LEMMA ExchangeProperties ==
  ASSUME NEW a \in [Piece -> Piece], NEW k \in Piece, NEW l \in Piece
  PROVE  /\ Exchange(a, k, l) \in [Piece -> Piece]
         /\ IsArrangement(a) => IsArrangement(Exchange(a, k, l))
<1>. DEFINE e == Exchange(a, k, l)
<1>1. /\ e \in [Piece -> Piece]
      /\ \A x \in Piece : e[x] = IF x = l THEN a[k]
                                 ELSE IF x = k THEN a[l] ELSE a[x]
  BY DEF Exchange
<1>. HIDE DEF e
<1>2. ASSUME IsArrangement(a)  PROVE \A x, y \in Piece : e[x] = e[y] => x = y
  BY <1>1, <1>2 DEF IsArrangement
<1>3. ASSUME IsArrangement(a), NEW p \in Piece  PROVE \E x \in Piece : e[x] = p
  <2>1. PICK x \in Piece : a[x] = p
    BY <1>3 DEF IsArrangement
  <2>2. CASE x = k
    BY <1>1, <2>1, <2>2
  <2>3. CASE x = l
    BY <1>1, <2>1, <2>3
  <2>4. CASE x # k /\ x # l
    BY <1>1, <2>1, <2>4
  <2>. QED
    BY <2>2, <2>3, <2>4
<1>4. IsArrangement(a) => IsArrangement(e)
  BY <1>2, <1>3 DEF IsArrangement
<1>. QED
  BY <1>1, <1>4 DEF e

LEMMA InitInv == Init => IInv
<1>. SUFFICES ASSUME Init PROVE IInv
  OBVIOUS
<1>1. TypeOK
  <2>1. /\ 0 \in Piece /\ 0 \in 0 .. NumPieces
        /\ 0 \in 0 .. NumPieces - 1
    BY NumPiecesAssumption DEF Piece
  <2>2. [k \in Piece |-> 0] \in [Piece -> Piece]
    BY <2>1
  <2>3. [p \in Piece |-> 0] \in [Piece -> Nat]
    OBVIOUS
  <2>. QED
    BY <2>1, <2>2, <2>3 DEF Init, TypeOK
<1>2. WaitInv
  <2>1. Left = {} /\ \A p \in Piece : since[p] = 0
    BY DEF Init, Left
  <2>. QED
    BY <2>1, NumPiecesAssumption DEF Init, WaitInv
<1>. QED
  BY <1>1, <1>2, NumPiecesAssumption DEF Init, IInv, BagInv

-----------------------------------------------------------------------------
(* Dealing from the end of the bag: the piece dealt is no longer left, the *)
(* others are as they were.                                                *)
LEMMA DealLeft ==
  ASSUME IInv, DealLast
  PROVE  /\ piece_index' \in Left /\ piece_index' \in Piece
         /\ Left' = Left \ {piece_index'}
<1>. DEFINE last == bag_size - 1
<1>1. /\ bag_size \in 1 .. NumPieces /\ NumPieces \in Nat /\ last \in Piece
      /\ bag_size' = last /\ bag_pieces' = bag_pieces
      /\ piece_index' = bag_pieces[last] /\ bag_pieces \in [Piece -> Piece]
  <2>1. /\ bag_size \in 1 .. NumPieces /\ NumPieces \in Nat
        /\ bag_pieces \in [Piece -> Piece]
    BY NumPiecesAssumption DEF IInv, TypeOK, BagInv, DealLast
  <2>. QED
    BY <2>1 DEF DealLast, Piece
<1>2. IsArrangement(bag_pieces)
  BY DEF IInv, BagInv, DealLast
<1>3. piece_index' \in Left /\ piece_index' \in Piece
  BY <1>1 DEF Left
<1>4. ASSUME NEW p \in Left, p # piece_index'  PROVE p \in Left'
  <2>1. PICK k \in 0 .. bag_size - 1 : p = bag_pieces[k]
    BY DEF Left
  <2>2. k \in 0 .. bag_size' - 1
    BY <1>1, <1>4, <2>1
  <2>. QED
    BY <1>1, <2>1, <2>2 DEF Left
<1>5. ASSUME NEW p \in Left'  PROVE p \in Left /\ p # piece_index'
  <2>1. PICK k \in 0 .. bag_size' - 1 : p = bag_pieces[k]
    BY <1>1 DEF Left
  <2>2. k \in 0 .. bag_size - 1 /\ k \in Piece /\ k # last
    BY <1>1, <2>1 DEF Piece
  <2>. QED
    BY <1>1, <1>2, <2>1, <2>2 DEF Left, IsArrangement
<1>. QED
  BY <1>3, <1>4, <1>5

(* The wait after a deal.  A full bag holds every piece, and each of them  *)
(* has waited at most the whole bag before.                                *)
LEMMA DealWait ==
  ASSUME IInv, DealLast
  PROVE  WaitInv'
<1>. SUFFICES ASSUME NEW p \in Piece
              PROVE  since'[p] <= IF p \in Left'
                       THEN (NumPieces - 1) + (NumPieces - bag_size')
                       ELSE NumPieces - bag_size' - 1
  BY DEF WaitInv
<1>1. /\ bag_size \in 1 .. NumPieces /\ NumPieces \in Nat
      /\ bag_size' = bag_size - 1 /\ since \in [Piece -> Nat]
      /\ since'[p] = IF p = piece_index' THEN 0 ELSE since[p] + 1
      /\ since[p] \in Nat
  BY NumPiecesAssumption DEF IInv, TypeOK, BagInv, DealLast
<1>2. /\ piece_index' \in Left /\ Left' = Left \ {piece_index'}
  BY DealLeft
<1>3. CASE bag_size = NumPieces
  <2>1. since[p] <= NumPieces - 1
    BY <1>3 DEF IInv, BagInv, DealLast
  <2>2. p \in Left
    BY <1>3, NumPiecesAssumption DEF IInv, BagInv, DealLast, IsArrangement, Left, Piece
  <2>. QED
    BY <1>1, <1>2, <1>3, <2>1, <2>2
<1>4. CASE bag_size # NumPieces
  <2>1. since[p] <= IF p \in Left
                    THEN (NumPieces - 1) + (NumPieces - bag_size)
                    ELSE NumPieces - bag_size - 1
    BY <1>4 DEF IInv, BagInv, WaitInv
  <2>. QED
    BY <1>1, <1>2, <2>1
<1>. QED
  BY <1>3, <1>4

LEMMA NextInv == IInv /\ [Next]_vars => IInv'
<1>. SUFFICES ASSUME IInv, [Next]_vars  PROVE IInv'
  OBVIOUS
<1>1. /\ NumPieces \in Nat \ {0} /\ TypeOK /\ BagInv
  BY NumPiecesAssumption DEF IInv
<1>2. CASE CallNewPiece
  <2>1. TypeOK'
    BY <1>1, <1>2 DEF TypeOK, CallNewPiece
  <2>2. bag_size < NumPieces /\ WaitInv'
    BY <1>1, <1>2 DEF CallNewPiece, WaitInv, Left, BagInv
  <2>3. BagInv'
    BY <1>1, <1>2, <2>2 DEF TypeOK, CallNewPiece, BagInv, IsArrangement
  <2>. QED
    BY <2>1, <2>3 DEF IInv
<1>3. CASE restart
  <2>1. TypeOK'
    <3>1. 0 \in 0 .. NumPieces /\ since' \in [Piece -> Nat]
      BY <1>1, <1>3 DEF restart
    <3>. QED
      BY <1>1, <1>3, <3>1 DEF TypeOK, restart
  <2>2. Left' = {} /\ \A p \in Piece : since'[p] = 0
    BY <1>3 DEF restart, Left
  <2>3. WaitInv'
    BY <1>1, <1>3, <2>2 DEF restart, WaitInv
  <2>4. BagInv'
    BY <1>1, <1>3, <2>3 DEF restart, BagInv
  <2>. QED
    BY <2>1, <2>4 DEF IInv
<1>4. CASE Fill
  <2>1. TypeOK'
    BY <1>1, <1>4 DEF TypeOK, Fill, Piece
  <2>2. IsArrangement(bag_pieces')
    BY <1>4 DEF Fill, IsArrangement
  <2>3. Left' = {} /\ Left = {}
    BY <1>1, <1>4 DEF Fill, BagInv, Left
  <2>4. WaitInv'
    BY <1>1, <1>4, <2>3 DEF Fill, BagInv, WaitInv
  <2>5. BagInv'
    BY <1>1, <1>4, <2>2, <2>4 DEF Fill, BagInv, IsArrangement
  <2>. QED
    BY <2>1, <2>5 DEF IInv
<1>5. CASE Swap
  <2>1. PICK j \in 0 .. i : bag_pieces' = Exchange(bag_pieces, i, j)
    BY <1>5 DEF Swap
  <2>2. /\ i \in Piece /\ j \in Piece /\ i - 1 \in 0 .. NumPieces - 1
        /\ bag_pieces \in [Piece -> Piece]
    <3>1. i \in 0 .. NumPieces - 1 /\ i > 0 /\ bag_pieces \in [Piece -> Piece]
      BY <1>1, <1>5 DEF TypeOK, Swap
    <3>. QED
      BY <1>1, <2>1, <3>1 DEF Piece
  <2>3. bag_pieces' \in [Piece -> Piece] /\ IsArrangement(bag_pieces')
    BY <1>1, <1>5, <2>1, <2>2, ExchangeProperties DEF BagInv, Swap
  <2>4. TypeOK'
    BY <1>1, <1>5, <2>2, <2>3 DEF TypeOK, Swap
  <2>5. Left' = {} /\ Left = {}
    BY <1>1, <1>5 DEF Swap, BagInv, Left
  <2>6. WaitInv'
    BY <1>1, <1>5, <2>5 DEF Swap, BagInv, WaitInv
  <2>7. BagInv'
    BY <1>1, <1>5, <2>3, <2>6 DEF Swap, BagInv, IsArrangement
  <2>. QED
    BY <2>4, <2>7 DEF IInv
<1>6. CASE Shuffled
  <2>1. TypeOK'
    BY <1>1, <1>6 DEF TypeOK, Shuffled
  <2>2. /\ pc = "shuffle" /\ bag_size = 0 /\ Left = {}
        /\ IsArrangement(bag_pieces) /\ WaitInv
    BY <1>1, <1>6 DEF Shuffled, BagInv, Left
  <2>3. \A p \in Piece : since[p] <= NumPieces - 1
    BY <1>1, <2>2 DEF WaitInv
  <2>4. BagInv'
    BY <1>1, <1>6, <2>2, <2>3 DEF Shuffled, BagInv, IsArrangement
  <2>. QED
    BY <2>1, <2>4 DEF IInv
<1>7. CASE DealLast
  <2>1. bag_size \in 1 .. NumPieces /\ bag_size - 1 \in Piece
    BY <1>1, <1>7 DEF TypeOK, BagInv, DealLast, Piece
  <2>2. /\ bag_size' \in 0 .. NumPieces - 1
        /\ (bag_size' > 0 => bag_size' - 1 \in Piece) /\ 0 \in Piece
    BY <1>1, <1>7, <2>1 DEF DealLast, Piece
  <2>3. next_piece_index' \in Piece /\ piece_index' \in Piece
    BY <1>1, <1>7, <2>1, <2>2 DEF DealLast, TypeOK
  <2>4. since' \in [Piece -> Nat]
    BY <1>1, <1>7 DEF DealLast, TypeOK
  <2>5. TypeOK'
    BY <1>1, <1>7, <2>2, <2>3, <2>4 DEF TypeOK, DealLast
  <2>6. WaitInv'
    BY <1>7, DealWait
  <2>7. BagInv'
    BY <1>1, <1>7, <2>2, <2>6 DEF DealLast, BagInv, IsArrangement
  <2>. QED
    BY <2>5, <2>7 DEF IInv
<1>8. CASE UNCHANGED vars
  <2>1. TypeOK'
    BY <1>1, <1>8 DEF vars, TypeOK
  <2>2. WaitInv' <=> WaitInv
    BY <1>8 DEF vars, WaitInv, Left
  <2>3. BagInv'
    BY <1>1, <1>8, <2>2 DEF vars, BagInv, IsArrangement
  <2>. QED
    BY <2>1, <2>3 DEF IInv
<1>. QED
  BY <1>2, <1>3, <1>4, <1>5, <1>6, <1>7, <1>8 DEF Next

-----------------------------------------------------------------------------
(* The bag's indices stay inside bag_pieces and PIECE_DEFS. *)
THEOREM TypeCorrect == Spec => []TypeOK
  BY InitInv, NextInv, PTL DEF Spec, IInv

(* The shuffle gives every piece once, and new_piece deals nothing from an *)
(* empty or a half-shuffled bag.                                           *)
THEOREM BagCorrect == Spec => []BagInv
  BY InitInv, NextInv, PTL DEF Spec, IInv

(* No piece is kept waiting for more than two bags less two deals. *)
THEOREM NoDrought == Spec => []DroughtBounded
<1>1. IInv => DroughtBounded
  <2>. SUFFICES ASSUME IInv, NEW p \in Piece
                PROVE  since[p] <= 2 * (NumPieces - 1)
    BY DEF DroughtBounded
  <2>1. /\ NumPieces \in Nat \ {0} /\ since[p] \in Nat
        /\ bag_size \in 0 .. NumPieces
    BY NumPiecesAssumption DEF IInv, TypeOK
  <2>2. CASE pc = "deal" /\ bag_size = NumPieces
    BY <2>1, <2>2 DEF IInv, BagInv
  <2>3. CASE ~(pc = "deal" /\ bag_size = NumPieces)
    <3>1. since[p] <= IF p \in Left
                      THEN (NumPieces - 1) + (NumPieces - bag_size)
                      ELSE NumPieces - bag_size - 1
      BY <2>3 DEF IInv, BagInv, WaitInv
    <3>2. p \in Left => bag_size > 0
      BY <2>1 DEF Left
    <3>. QED
      BY <2>1, <3>1, <3>2
  <2>. QED
    BY <2>2, <2>3
<1>. QED
  BY <1>1, InitInv, NextInv, PTL DEF Spec

(* Whatever the bag's size, the shuffle and the restarts, a piece that was *)
(* shown as the next one is dealt next, unless the bag was refilled.       *)
THEOREM PreviewKept == Spec => ShownUnlessEmpty
<1>1. Init => PreviewInv
  BY DEF Init, PreviewInv
<1>2. IInv /\ PreviewInv /\ [Next]_vars => PreviewInv'
  <2>. SUFFICES ASSUME IInv, PreviewInv, [Next]_vars  PROVE PreviewInv'
    OBVIOUS
  <2>1. NumPieces \in Nat \ {0} /\ bag_size \in 0 .. NumPieces
    BY NumPiecesAssumption DEF IInv, TypeOK
  <2>2. CASE CallNewPiece \/ UNCHANGED vars
    BY <2>2 DEF CallNewPiece, vars, PreviewInv
  <2>3. CASE restart \/ Fill \/ Swap
    BY <2>3 DEF restart, Fill, Swap, PreviewInv
  <2>4. CASE Shuffled
    BY <2>1, <2>4 DEF Shuffled, PreviewInv
  <2>5. CASE DealLast
    BY <2>1, <2>5 DEF DealLast, PreviewInv, IInv, BagInv
  <2>. QED
    BY <2>2, <2>3, <2>4, <2>5 DEF Next
<1>3. IInv /\ PreviewInv /\ [Next]_vars =>
        [(pc = "deal" /\ pc' = "idle" /\ promised /\ bag_size < NumPieces) =>
           piece_index' = next_piece_index]_vars
  <2>. SUFFICES ASSUME IInv, PreviewInv, Next, promised, bag_size < NumPieces,
                       pc = "deal", pc' = "idle"
                PROVE  piece_index' = next_piece_index
    BY DEF vars
  <2>1. NumPieces \in Nat \ {0} /\ bag_size \in 1 .. NumPieces - 1
    BY NumPiecesAssumption DEF IInv, TypeOK, BagInv
  <2>2. DealLast
    BY DEF Next, CallNewPiece, restart, Fill, Swap, Shuffled
  <2>. QED
    BY <2>1, <2>2 DEF DealLast, PreviewInv
<1>. QED
  BY <1>1, <1>2, <1>3, InitInv, NextInv, PTL DEF Spec, ShownUnlessEmpty

(* The code implements the abstract bag: what the game sees of the array,  *)
(* its size and the shuffle is a bag refilled with every piece once.       *)
LEMMA RemainingBag ==
  ASSUME IInv
  PROVE  /\ Remaining \in Seq(Piece)
         /\ Len(Remaining) = IF bag_size = NumPieces THEN 0 ELSE bag_size
<1>1. /\ bag_size \in 0 .. NumPieces /\ NumPieces \in Nat \ {0}
      /\ bag_pieces \in [Piece -> Piece]
  BY NumPiecesAssumption DEF IInv, TypeOK
<1>2. \A k \in 1 .. bag_size : k - 1 \in Piece
  BY <1>1 DEF Piece
<1>3. [k \in 1 .. bag_size |-> bag_pieces[k - 1]] \in [1 .. bag_size -> Piece]
  BY <1>1, <1>2
<1>. QED
  BY <1>1, <1>3 DEF Remaining

LEMMA StepBag ==
  ASSUME IInv, IInv', [Next]_vars
  PROVE  [Bag!Deal \/ Bag!Discard]_(Bag!bagVars)
<1>1. /\ NumPieces \in Nat \ {0} /\ bag_size \in 0 .. NumPieces
      /\ bag_pieces \in [Piece -> Piece]
  BY NumPiecesAssumption DEF IInv, TypeOK
<1>2. CASE DealLast
  <2>1. /\ bag_size' = bag_size - 1 /\ bag_size \in 1 .. NumPieces
        /\ bag_pieces' = bag_pieces /\ IsArrangement(bag_pieces)
    BY <1>1, <1>2 DEF DealLast, IInv, BagInv
  <2>. DEFINE b == [k \in 1 .. bag_size |-> bag_pieces[k - 1]]
  <2>2. b \in Seq(Piece) /\ Len(b) = bag_size /\ b \in [1 .. bag_size -> Piece]
    <3>1. \A k \in 1 .. bag_size : k - 1 \in Piece
      BY <1>1 DEF Piece
    <3>. QED
      BY <1>1, <2>1, <3>1
  <2>3. b \in Bag!Supply(Remaining)
    <3>1. CASE bag_size = NumPieces
      <4>1. \A k, l \in 1 .. NumPieces : b[k] = b[l] => k = l
        <5>. SUFFICES ASSUME NEW k \in 1 .. NumPieces, NEW l \in 1 .. NumPieces,
                             b[k] = b[l]
                      PROVE  k = l
          OBVIOUS
        <5>1. k - 1 \in Piece /\ l - 1 \in Piece
          BY <1>1 DEF Piece
        <5>2. bag_pieces[k - 1] = bag_pieces[l - 1]
          BY <3>1
        <5>3. k - 1 = l - 1
          BY <2>1, <5>1, <5>2 DEF IsArrangement
        <5>. QED
          BY <1>1, <5>3
      <4>2. b \in [1 .. NumPieces -> Bag!Piece]
        BY <2>2, <3>1 DEF Piece, Bag!Piece
      <4>3. Remaining = <<>>
        BY <3>1 DEF Remaining
      <4>. QED
        BY <4>1, <4>2, <4>3 DEF Bag!Supply, Bag!Arrangements
    <3>2. CASE bag_size # NumPieces
      <4>1. Remaining = b
        BY <3>2 DEF Remaining
      <4>2. Remaining # <<>>
        BY <2>1, <2>2, <4>1
      <4>. QED
        BY <4>1, <4>2 DEF Bag!Supply
    <3>. QED
      BY <3>1, <3>2
  <2>4. Remaining' = SubSeq(b, 1, Len(b) - 1)
    <3>1. Remaining' = [k \in 1 .. bag_size - 1 |-> bag_pieces[k - 1]]
      BY <1>1, <2>1 DEF Remaining
    <3>. QED
      BY <1>1, <2>1, <2>2, <3>1
  <2>5. next_piece_index' = IF Len(b) > 1 THEN b[Len(b) - 1] ELSE 0
    <3>1. next_piece_index' = IF bag_size' > 0
                              THEN bag_pieces[bag_size' - 1] ELSE 0
      BY <1>2 DEF DealLast
    <3>2. bag_size > 1 => b[bag_size - 1] = bag_pieces[bag_size' - 1]
      BY <1>1, <2>1
    <3>. QED
      BY <1>1, <2>1, <2>2, <3>1, <3>2
  <2>6. piece_index' = b[Len(b)]
    BY <1>1, <1>2, <2>1, <2>2 DEF DealLast
  <2>. HIDE DEF b
  <2>. QED
    BY <2>3, <2>4, <2>5, <2>6 DEF Bag!Deal, Bag!DealFrom
<1>3. CASE restart
  BY <1>1, <1>3 DEF restart, Bag!Discard, Remaining
<1>4. CASE CallNewPiece \/ Fill \/ Swap \/ Shuffled \/ UNCHANGED vars
  <2>1. UNCHANGED <<next_piece_index, piece_index>>
    BY <1>4 DEF CallNewPiece, Fill, Swap, Shuffled, vars
  <2>2. UNCHANGED Remaining
    <3>1. CASE CallNewPiece \/ UNCHANGED vars
      BY <3>1 DEF CallNewPiece, vars, Remaining
    <3>2. CASE Fill \/ Swap \/ Shuffled
      <4>1. bag_size = 0 /\ bag_size' \in {0, NumPieces}
        BY <3>2 DEF IInv, BagInv, Fill, Swap, Shuffled
      <4>. QED
        BY <1>1, <4>1 DEF Remaining
    <3>. QED
      BY <1>4, <3>1, <3>2
  <2>. QED
    BY <2>1, <2>2 DEF Bag!bagVars
<1>. QED
  BY <1>2, <1>3, <1>4 DEF Next

THEOREM ImplementsBag == Spec => BagSpec
<1>1. Init => Bag!BagInit
  BY NumPiecesAssumption DEF Init, Bag!BagInit, Remaining
<1>2. IInv /\ IInv' /\ [Next]_vars => [Bag!Deal \/ Bag!Discard]_(Bag!bagVars)
  BY StepBag
<1>. QED
  BY <1>1, <1>2, InitInv, NextInv, PTL DEF Spec, BagSpec, Bag!BagSpec
=============================================================================
