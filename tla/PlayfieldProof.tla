--------------------------- MODULE PlayfieldProof ---------------------------
(***************************************************************************)
(* Proofs about the playfield, for every board a box fits on and every set *)
(* of pieces: type correctness, that the held piece stays between the      *)
(* walls, above the floor and off the tiles of the board, that turns are   *)
(* exact, what drops and sweeps leave of the board, and where a frame is   *)
(* painted, on every screen.  The first part is about the pieces and the   *)
(* board: conversion to int8_t near the board, how far a turn shifts a     *)
(* piece, what the collision test rules out, what a sweep leaves, and how  *)
(* many tiles there are.                                                   *)
(***************************************************************************)
EXTENDS Screen, FiniteSetTheorems, TLAPS

Half == Int8Mod \div 2

-----------------------------------------------------------------------------
(* int8_t. *)

LEMMA HalfProperties ==
  /\ Half \in Nat /\ Int8Mod = 2 * Half
  /\ Half >= BOARD_WIDTH + PIECE_SIZE
  /\ Half >= BOARD_HEIGHT + 2 * PIECE_SIZE
  /\ BOARD_WIDTH \in Nat /\ BOARD_WIDTH >= 4
  /\ BOARD_HEIGHT \in Nat /\ BOARD_HEIGHT >= 4
  BY BoardAssumption DEF Half, PIECE_SIZE

(* A conversion gives an int8_t; it changes nothing in the range ... *)
LEMMA ToInt8Type ==
  ASSUME NEW n \in Int
  PROVE  ToInt8(n) \in Int8
<1>1. /\ Half \in Nat /\ Half > 0 /\ Int8Mod \in Nat /\ Int8Mod = 2 * Half
  BY HalfProperties, BoardAssumption DEF PIECE_SIZE
<1>2. (n + Half) % Int8Mod \in 0 .. Int8Mod - 1
  BY <1>1
<1>. QED
  BY <1>1, <1>2 DEF ToInt8, Int8, Half

LEMMA ToInt8Id ==
  ASSUME NEW n \in Int8
  PROVE  ToInt8(n) = n
<1>1. /\ Half \in Nat /\ Half > 0 /\ Int8Mod \in Nat /\ Int8Mod = 2 * Half
  BY HalfProperties, BoardAssumption DEF PIECE_SIZE
<1>2. n \in -Half .. Half - 1
  BY DEF Int8, Half
<1>3. (n + Half) % Int8Mod = n + Half
  BY <1>1, <1>2
<1>. QED
  BY <1>1, <1>2, <1>3 DEF ToInt8, Half

(* ... and beyond it the value wraps around, and is negative. *)
LEMMA ToInt8Wrap ==
  ASSUME NEW n \in Half .. Half + 3
  PROVE  ToInt8(n) < 0
<1>1. /\ Half \in Nat /\ Half > 3 /\ Int8Mod \in Nat /\ Int8Mod = 2 * Half
  BY HalfProperties, BoardAssumption DEF PIECE_SIZE
<1>2. (n + Half) % Int8Mod = n + Half - Int8Mod
  <2>1. n + Half \in Int8Mod .. Int8Mod + 3 /\ Int8Mod > 3
    BY <1>1
  <2>2. \A a \in Nat, m \in Nat : (m > 3 /\ a \in m .. m + 3) => a % m = a - m
    OBVIOUS
  <2>. QED
    BY <1>1, <2>1, <2>2
<1>. QED
  BY <1>1, <1>2 DEF ToInt8, Half

(* A sum of an int8_t and a box coordinate never wraps back onto the board.*)
LEMMA AbsXInside ==
  ASSUME NEW p \in Box, NEW x \in Int8, AbsX(p, x) \in Col
  PROVE  AbsX(p, x) = x + p[2] /\ x + p[2] \in Col
<1>1. /\ Half \in Nat /\ x \in -Half .. Half - 1 /\ p[2] \in 0 .. 3
  BY HalfProperties DEF Int8, Half, Box, PIECE_SIZE
<1>2. CASE x + p[2] \in Int8
  BY <1>2, ToInt8Id DEF AbsX
<1>3. CASE x + p[2] \notin Int8
  <2>1. x + p[2] \in Half .. Half + 3
    BY <1>1, <1>3 DEF Int8, Half
  <2>2. AbsX(p, x) < 0
    BY <2>1, ToInt8Wrap DEF AbsX
  <2>. QED
    BY <2>2, HalfProperties DEF Col
<1>. QED
  BY <1>2, <1>3

LEMMA AbsYInside ==
  ASSUME NEW p \in Box, NEW y \in -Half .. BOARD_HEIGHT + PIECE_SIZE
  PROVE  AbsY(p, y) = y + p[1]
<1>1. /\ Half \in Nat /\ p[1] \in 0 .. 3 /\ Half >= BOARD_HEIGHT + 8
      /\ BOARD_HEIGHT \in Nat
  BY HalfProperties DEF Box, PIECE_SIZE
<1>2. y + p[1] \in Int8
  BY <1>1 DEF Int8, Half, PIECE_SIZE
<1>. QED
  BY <1>2, ToInt8Id DEF AbsY

-----------------------------------------------------------------------------
(* Turning a piece. *)

LEMMA BoxFinite == IsFiniteSet(Box)
<1>1. IsFiniteSet(0 .. PIECE_SIZE - 1)
  <2>1. 0 \in Int /\ PIECE_SIZE - 1 \in Int
    BY DEF PIECE_SIZE
  <2>. QED
    BY <2>1, FS_Interval
<1>. QED
  BY <1>1, FS_Product DEF Box

LEMMA MinosFinite ==
  ASSUME NEW minos \in SUBSET Box
  PROVE  /\ IsFiniteSet(minos) /\ Cardinality(minos) \in Nat
         /\ minos # {} => Cardinality(minos) > 0
<1>1. IsFiniteSet(minos)
  BY BoxFinite, FS_Subset
<1>2. Cardinality(minos) \in Nat
  BY <1>1, FS_CardinalityType
<1>. QED
  BY <1>1, <1>2, FS_EmptySet

(* The place a mino is turned to. *)
Turned(p, cw) == IF cw THEN <<p[2], 3 - p[1]>> ELSE <<3 - p[2], p[1]>>

LEMMA TurnedProperties ==
  ASSUME NEW cw \in BOOLEAN
  PROVE  /\ \A p \in Box : Turned(p, cw) \in Box
         /\ \A p, q \in Box : Turned(p, cw) = Turned(q, cw) => p = q
  BY DEF Turned, Box, PIECE_SIZE

LEMMA RotatedIsTurned ==
  ASSUME NEW minos \in SUBSET Box, NEW cw \in BOOLEAN
  PROVE  compute_rotated(minos, cw) = {Turned(p, cw) : p \in minos}
  BY DEF compute_rotated, Turned, PIECE_SIZE

(* A turn moves every set of minos to one with as many. *)
LEMMA TurnedCardinality ==
  ASSUME NEW part \in SUBSET Box, NEW cw \in BOOLEAN
  PROVE  Cardinality({Turned(p, cw) : p \in part}) = Cardinality(part)
<1>. DEFINE image == {Turned(p, cw) : p \in part}
            turn == [p \in part |-> Turned(p, cw)]
<1>1. turn \in [part -> image]
  OBVIOUS
<1>2. \A p, q \in part : turn[p] = turn[q] => p = q
  BY TurnedProperties
<1>3. \A t \in image : \E p \in part : turn[p] = t
  OBVIOUS
<1>4. turn \in Bijection(part, image)
  BY <1>1, <1>2, <1>3 DEF Bijection, Injection, Surjection, IsInjective
<1>5. ExistsBijection(part, image)
  BY <1>4 DEF ExistsBijection
<1>. QED
  BY <1>5, MinosFinite, FS_Bijection

LEMMA RotatedProperties ==
  ASSUME NEW minos \in SUBSET Box, NEW cw \in BOOLEAN
  PROVE  /\ compute_rotated(minos, cw) \in SUBSET Box
         /\ minos # {} => compute_rotated(minos, cw) # {}
         /\ Cardinality(compute_rotated(minos, cw)) = Cardinality(minos)
<1>1. compute_rotated(minos, cw) = {Turned(p, cw) : p \in minos}
  BY RotatedIsTurned
<1>2. \A p \in minos : Turned(p, cw) \in Box
  BY TurnedProperties
<1>3. Cardinality({Turned(p, cw) : p \in minos}) = Cardinality(minos)
  BY TurnedCardinality
<1>. QED
  BY <1>1, <1>2, <1>3

(* The sum of n coordinates is at most 3 * n. *)
LEMMA SumBounds ==
  ASSUME NEW minos \in SUBSET Box
  PROVE  /\ Rows(minos) \in 0 .. 3 * Cardinality(minos)
         /\ Columns(minos) \in 0 .. 3 * Cardinality(minos)
<1>1. ASSUME NEW part \in SUBSET minos
      PROVE  Cardinality(part) \in 0 .. Cardinality(minos)
  BY MinosFinite, FS_Subset, FS_CardinalityType
<1>2. Cardinality(minos) \in Nat
  BY MinosFinite
<1>3. ASSUME NEW k \in 1 .. 3
      PROVE  /\ Cardinality(RowsFrom(minos, k)) \in 0 .. Cardinality(minos)
             /\ Cardinality(ColumnsFrom(minos, k)) \in 0 .. Cardinality(minos)
  BY <1>1 DEF RowsFrom, ColumnsFrom
<1>. QED
  BY <1>2, <1>3 DEF Rows, Columns

LEMMA DivRoundBounds ==
  ASSUME NEW den \in Nat \ {0}, NEW num \in -(3 * den) .. 3 * den
  PROVE  div_round(num, den) \in -3 .. 3
<1>1. ASSUME NEW a \in 0 .. 3 * den  PROVE (a + den \div 2) \div den \in 0 .. 3
  <2>1. den \div 2 \in 0 .. den - 1
    OBVIOUS
  <2>2. PICK c \in Nat : c = a + den \div 2 /\ c < 4 * den
    BY <2>1
  <2>3. PICK q \in Nat : q = c \div den /\ q * den <= c
    BY <2>2
  <2>4. q < 4
    <3>1. CASE q >= 4
      <4>1. q * den >= 4 * den
        BY <3>1
      <4>. QED
        BY <2>2, <2>3, <4>1
    <3>. QED
      BY <3>1
  <2>. QED
    BY <2>2, <2>3, <2>4
<1>2. CASE num >= 0
  BY <1>1, <1>2 DEF div_round
<1>3. CASE num < 0
  BY <1>1, <1>3 DEF div_round
<1>. QED
  BY <1>2, <1>3

(* Minos of a turned box that are told by where they were turned from. *)
Image(part, cw) == {Turned(p, cw) : p \in part}

Comes(minos, cw, after, before) ==
  /\ after \in SUBSET Image(minos, cw)
  /\ before \in SUBSET minos
  /\ \A p \in minos : Turned(p, cw) \in after <=> p \in before

LEMMA ImageOfPart ==
  ASSUME NEW minos, NEW cw, NEW after, NEW before,
         Comes(minos, cw, after, before)
  PROVE  after = Image(before, cw)
<1>. USE DEF Comes
<1>1. ASSUME NEW q \in after  PROVE q \in Image(before, cw)
  <2>1. PICK p \in minos : q = Turned(p, cw)
    BY DEF Image
  <2>2. p \in before
    BY <2>1
  <2>. QED
    BY <2>1, <2>2 DEF Image
<1>2. ASSUME NEW q \in Image(before, cw)  PROVE q \in after
  <2>1. PICK p \in before : q = Turned(p, cw)
    BY <1>2 DEF Image
  <2>. QED
    BY <2>1
<1>. QED
  BY <1>1, <1>2

(* The minos of a turned box from row or column k on are those that were   *)
(* turned there.                                                           *)
LEMMA TurnedFrom ==
  ASSUME NEW minos \in SUBSET Box, NEW k \in 1 .. 3
  PROVE  LET right == compute_rotated(minos, TRUE)
             left == compute_rotated(minos, FALSE)
         IN  /\ RowsFrom(right, k) = Image(ColumnsFrom(minos, k), TRUE)
             /\ ColumnsFrom(right, k) = Image(minos \ RowsFrom(minos, 4 - k), TRUE)
             /\ RowsFrom(left, k) = Image(minos \ ColumnsFrom(minos, 4 - k), FALSE)
             /\ ColumnsFrom(left, k) = Image(RowsFrom(minos, k), FALSE)
<1>. DEFINE right == compute_rotated(minos, TRUE)
            left == compute_rotated(minos, FALSE)
<1>1. right = Image(minos, TRUE) /\ left = Image(minos, FALSE)
  BY RotatedIsTurned DEF Image
<1>2. ASSUME NEW p \in minos
      PROVE  /\ Turned(p, TRUE)[1] >= k <=> p \in ColumnsFrom(minos, k)
             /\ Turned(p, TRUE)[2] >= k <=> p \in minos \ RowsFrom(minos, 4 - k)
             /\ Turned(p, FALSE)[1] >= k <=> p \in minos \ ColumnsFrom(minos, 4 - k)
             /\ Turned(p, FALSE)[2] >= k <=> p \in RowsFrom(minos, k)
  <2>1. /\ p[1] \in 0 .. 3 /\ p[2] \in 0 .. 3
        /\ Turned(p, TRUE)[1] = p[2] /\ Turned(p, TRUE)[2] = 3 - p[1]
        /\ Turned(p, FALSE)[1] = 3 - p[2] /\ Turned(p, FALSE)[2] = p[1]
    BY DEF Box, PIECE_SIZE, Turned
  <2>2. \A c \in 0 .. 3 : 3 - c >= k <=> ~(c >= 4 - k)
    OBVIOUS
  <2>. QED
    BY <2>1, <2>2 DEF RowsFrom, ColumnsFrom
<1>3. \A p \in minos : Turned(p, TRUE) \in right /\ Turned(p, FALSE) \in left
  BY <1>1 DEF Image
<1>. HIDE DEF right, left
<1>4. \A p \in minos :
        /\ Turned(p, TRUE) \in RowsFrom(right, k) <=> p \in ColumnsFrom(minos, k)
        /\ Turned(p, TRUE) \in ColumnsFrom(right, k)
              <=> p \in minos \ RowsFrom(minos, 4 - k)
        /\ Turned(p, FALSE) \in RowsFrom(left, k)
              <=> p \in minos \ ColumnsFrom(minos, 4 - k)
        /\ Turned(p, FALSE) \in ColumnsFrom(left, k) <=> p \in RowsFrom(minos, k)
  <2>1. \A q : /\ q \in RowsFrom(right, k) <=> q \in right /\ q[1] >= k
               /\ q \in ColumnsFrom(right, k) <=> q \in right /\ q[2] >= k
               /\ q \in RowsFrom(left, k) <=> q \in left /\ q[1] >= k
               /\ q \in ColumnsFrom(left, k) <=> q \in left /\ q[2] >= k
    BY DEF RowsFrom, ColumnsFrom
  <2>. QED
    BY <1>2, <1>3, <2>1
<1>5. /\ RowsFrom(right, k) \in SUBSET right /\ ColumnsFrom(right, k) \in SUBSET right
      /\ RowsFrom(left, k) \in SUBSET left /\ ColumnsFrom(left, k) \in SUBSET left
      /\ \A j \in Int : /\ RowsFrom(minos, j) \in SUBSET minos
                        /\ ColumnsFrom(minos, j) \in SUBSET minos
  BY DEF RowsFrom, ColumnsFrom
<1>6. k \in Int /\ 4 - k \in Int
  OBVIOUS
<1>7. RowsFrom(right, k) = Image(ColumnsFrom(minos, k), TRUE)
  <2>1. Comes(minos, TRUE, RowsFrom(right, k), ColumnsFrom(minos, k))
    BY <1>1, <1>4, <1>5, <1>6 DEF Comes
  <2>. QED
    BY <2>1, ImageOfPart
<1>8. ColumnsFrom(right, k) = Image(minos \ RowsFrom(minos, 4 - k), TRUE)
  <2>1. Comes(minos, TRUE, ColumnsFrom(right, k), minos \ RowsFrom(minos, 4 - k))
    BY <1>1, <1>4, <1>5, <1>6 DEF Comes
  <2>. QED
    BY <2>1, ImageOfPart
<1>9. RowsFrom(left, k) = Image(minos \ ColumnsFrom(minos, 4 - k), FALSE)
  <2>1. Comes(minos, FALSE, RowsFrom(left, k), minos \ ColumnsFrom(minos, 4 - k))
    BY <1>1, <1>4, <1>5, <1>6 DEF Comes
  <2>. QED
    BY <2>1, ImageOfPart
<1>10. ColumnsFrom(left, k) = Image(RowsFrom(minos, k), FALSE)
  <2>1. Comes(minos, FALSE, ColumnsFrom(left, k), RowsFrom(minos, k))
    BY <1>1, <1>4, <1>5, <1>6 DEF Comes
  <2>. QED
    BY <2>1, ImageOfPart
<1>. QED
  BY <1>7, <1>8, <1>9, <1>10 DEF right, left

(* Turned clockwise, columns become rows, and rows become columns counted  *)
(* from the other side; anticlockwise the other way round.                 *)
LEMMA RotatedSums ==
  ASSUME NEW minos \in SUBSET Box
  PROVE  /\ Rows(compute_rotated(minos, TRUE)) = Columns(minos)
         /\ Columns(compute_rotated(minos, TRUE)) =
              3 * Cardinality(minos) - Rows(minos)
         /\ Rows(compute_rotated(minos, FALSE)) =
              3 * Cardinality(minos) - Columns(minos)
         /\ Columns(compute_rotated(minos, FALSE)) = Rows(minos)
<1>. DEFINE n == Cardinality(minos)
            R(k) == Cardinality(RowsFrom(minos, k))
            C(k) == Cardinality(ColumnsFrom(minos, k))
            right == compute_rotated(minos, TRUE)
            left == compute_rotated(minos, FALSE)
<1>1. ASSUME NEW part \in SUBSET minos, NEW cw \in BOOLEAN
      PROVE  /\ Cardinality(Image(part, cw)) = Cardinality(part)
             /\ Cardinality(Image(minos \ part, cw)) = n - Cardinality(part)
             /\ Cardinality(part) \in Nat
  <2>1. IsFiniteSet(minos) /\ minos \cap part = part
    BY MinosFinite
  <2>2. Cardinality(minos \ part) = n - Cardinality(part)
    BY <2>1, FS_Difference
  <2>3. part \in SUBSET Box /\ minos \ part \in SUBSET Box
    OBVIOUS
  <2>. QED
    BY <2>2, <2>3, TurnedCardinality, MinosFinite DEF Image
<1>2. ASSUME NEW k \in 1 .. 3
      PROVE  /\ Cardinality(RowsFrom(right, k)) = C(k)
             /\ Cardinality(ColumnsFrom(right, k)) = n - R(4 - k)
             /\ Cardinality(RowsFrom(left, k)) = n - C(4 - k)
             /\ Cardinality(ColumnsFrom(left, k)) = R(k)
             /\ R(k) \in Nat /\ C(k) \in Nat
  <2>1. \A j \in Int : /\ RowsFrom(minos, j) \in SUBSET minos
                       /\ ColumnsFrom(minos, j) \in SUBSET minos
    BY DEF RowsFrom, ColumnsFrom
  <2>2. k \in Int /\ 4 - k \in Int
    OBVIOUS
  <2>. QED
    BY <1>1, <2>1, <2>2, TurnedFrom
<1>3. n \in Nat
  BY MinosFinite
<1>4. /\ 1 \in 1 .. 3 /\ 2 \in 1 .. 3 /\ 3 \in 1 .. 3
      /\ 4 - 1 = 3 /\ 4 - 2 = 2 /\ 4 - 3 = 1
  OBVIOUS
<1>5. /\ Rows(minos) = R(1) + R(2) + R(3)
      /\ Columns(minos) = C(1) + C(2) + C(3)
  BY DEF Rows, Columns
<1>. HIDE DEF n, R, C, right, left
<1>6. /\ Rows(right) = C(1) + C(2) + C(3)
      /\ Columns(right) = (n - R(3)) + (n - R(2)) + (n - R(1))
      /\ Rows(left) = (n - C(3)) + (n - C(2)) + (n - C(1))
      /\ Columns(left) = R(1) + R(2) + R(3)
  BY <1>2, <1>4 DEF Rows, Columns
<1>7. /\ R(1) \in Nat /\ R(2) \in Nat /\ R(3) \in Nat
      /\ C(1) \in Nat /\ C(2) \in Nat /\ C(3) \in Nat
  BY <1>2, <1>4
<1>8. /\ Rows(right) = Columns(minos) /\ Columns(right) = 3 * n - Rows(minos)
      /\ Rows(left) = 3 * n - Columns(minos) /\ Columns(left) = Rows(minos)
  BY <1>3, <1>5, <1>6, <1>7
<1>. QED
  BY <1>8 DEF n, right, left

(* Rounding is symmetric. *)
LEMMA DivRoundOdd ==
  ASSUME NEW den \in Nat \ {0}, NEW num \in Int
  PROVE  div_round(-num, den) = -div_round(num, den)
<1>1. (0 + den \div 2) \div den = 0
  <2>1. den \div 2 \in 0 .. den - 1
    OBVIOUS
  <2>. QED
    BY <2>1
<1>2. /\ (num + den \div 2) \div den \in Int
      /\ (-num + den \div 2) \div den \in Int
  OBVIOUS
<1>3. CASE num = 0
  BY <1>1, <1>3 DEF div_round
<1>4. CASE num > 0
  BY <1>2, <1>4 DEF div_round
<1>5. CASE num < 0
  BY <1>2, <1>5 DEF div_round
<1>. QED
  BY <1>3, <1>4, <1>5

(* A turn shifts the box by at most three places either way, and does not  *)
(* move the pivot, up or down.                                             *)
LEMMA ShiftProperties ==
  ASSUME NEW minos \in SUBSET Box, minos # {}, NEW cw \in BOOLEAN
  PROVE  LET rotated == compute_rotated(minos, cw)
             shift == RotationShift(minos, rotated)
         IN  /\ shift.x \in -3 .. 3 /\ shift.y \in -3 .. 3
             /\ Lift(minos) \in -6 .. 6 /\ Lift(rotated) \in -6 .. 6
             /\ 2 * shift.y + Lift(rotated) = Lift(minos)
<1>. DEFINE rotated == compute_rotated(minos, cw)
            n == Cardinality(minos)
            R == Rows(minos)
            C == Columns(minos)
<1>1. /\ n \in Nat \ {0} /\ rotated \in SUBSET Box
      /\ Cardinality(rotated) = n
  BY RotatedProperties, MinosFinite
<1>2. /\ R \in 0 .. 3 * n /\ C \in 0 .. 3 * n
      /\ Rows(rotated) \in 0 .. 3 * n /\ Columns(rotated) \in 0 .. 3 * n
  BY <1>1, SumBounds
<1>. DEFINE u == R - C
            v == R + C - 3 * n
<1>3. /\ u \in -(3 * n) .. 3 * n /\ v \in -(3 * n) .. 3 * n
      /\ -u \in -(3 * n) .. 3 * n /\ -v \in -(3 * n) .. 3 * n
  BY <1>1, <1>2
<1>4. /\ div_round(u, n) \in -3 .. 3 /\ div_round(v, n) \in -3 .. 3
      /\ div_round(-u, n) = -div_round(u, n)
      /\ div_round(-v, n) = -div_round(v, n)
  <2>. HIDE DEF u, v, n
  <2>. QED
    BY <1>1, <1>3, DivRoundBounds, DivRoundOdd
<1>5. Lift(minos) = div_round(u, n) + div_round(v, n)
  BY DEF Lift
<1>6. CASE cw = TRUE
  <2>1. Rows(rotated) = C /\ Columns(rotated) = 3 * n - R
    BY <1>6, RotatedSums
  <2>2. /\ R - Rows(rotated) = u /\ C - Columns(rotated) = v
        /\ Rows(rotated) - Columns(rotated) = v
        /\ Rows(rotated) + Columns(rotated) - 3 * n = -u
    BY <1>1, <1>2, <2>1
  <2>3. /\ RotationShift(minos, rotated).y = div_round(u, n)
        /\ RotationShift(minos, rotated).x = div_round(v, n)
        /\ Lift(rotated) = div_round(v, n) + div_round(-u, n)
    BY <1>1, <2>2 DEF RotationShift, Lift
  <2>. HIDE DEF rotated, n, R, C, u, v
  <2>4. /\ RotationShift(minos, rotated).y \in -3 .. 3
        /\ RotationShift(minos, rotated).x \in -3 .. 3
        /\ Lift(minos) \in -6 .. 6 /\ Lift(rotated) \in -6 .. 6
        /\ 2 * RotationShift(minos, rotated).y + Lift(rotated) = Lift(minos)
    BY <1>4, <1>5, <2>3
  <2>. QED
    BY <2>4 DEF rotated
<1>7. CASE cw = FALSE
  <2>1. Rows(rotated) = 3 * n - C /\ Columns(rotated) = R
    BY <1>7, RotatedSums
  <2>2. /\ R - Rows(rotated) = v /\ C - Columns(rotated) = -u
        /\ Rows(rotated) - Columns(rotated) = -v
        /\ Rows(rotated) + Columns(rotated) - 3 * n = u
    BY <1>1, <1>2, <2>1
  <2>3. /\ RotationShift(minos, rotated).y = div_round(v, n)
        /\ RotationShift(minos, rotated).x = div_round(-u, n)
        /\ Lift(rotated) = div_round(-v, n) + div_round(u, n)
    BY <1>1, <2>2 DEF RotationShift, Lift
  <2>. HIDE DEF rotated, n, R, C, u, v
  <2>4. /\ RotationShift(minos, rotated).y \in -3 .. 3
        /\ RotationShift(minos, rotated).x \in -3 .. 3
        /\ Lift(minos) \in -6 .. 6 /\ Lift(rotated) \in -6 .. 6
        /\ 2 * RotationShift(minos, rotated).y + Lift(rotated) = Lift(minos)
    BY <1>4, <1>5, <2>3
  <2>. QED
    BY <2>4 DEF rotated
<1>. QED
  BY <1>6, <1>7

-----------------------------------------------------------------------------
(* Turns that undo each other. *)

LEMMA OppositeTurns ==
  ASSUME NEW minos \in SUBSET Box
  PROVE  /\ compute_rotated(compute_rotated(minos, TRUE), FALSE) = minos
         /\ compute_rotated(compute_rotated(minos, FALSE), TRUE) = minos
<1>1. ASSUME NEW cw \in BOOLEAN, NEW back \in BOOLEAN, back # cw
      PROVE  compute_rotated(compute_rotated(minos, cw), back) = minos
  <2>. DEFINE turned == {Turned(p, cw) : p \in minos}
  <2>1. compute_rotated(minos, cw) = turned /\ turned \in SUBSET Box
    BY RotatedIsTurned, RotatedProperties
  <2>. HIDE DEF turned
  <2>2. compute_rotated(turned, back) = {Turned(q, back) : q \in turned}
    BY <2>1, RotatedIsTurned
  <2>. USE DEF turned
  <2>3. \A p \in minos : Turned(Turned(p, cw), back) = p
    BY <1>1 DEF Turned, Box, PIECE_SIZE
  <2>4. {Turned(q, back) : q \in turned} = minos
    BY <2>3
  <2>. QED
    BY <2>1, <2>2, <2>4
<1>. QED
  BY <1>1

(* The place of a mino after two turns either way. *)
Opposite(p) == <<3 - p[1], 3 - p[2]>>

LEMMA FourTurns ==
  ASSUME NEW minos \in SUBSET Box
  PROVE  compute_rotated(compute_rotated(compute_rotated(compute_rotated(
           minos, TRUE), TRUE), TRUE), TRUE) = minos
<1>1. ASSUME NEW part \in SUBSET Box
      PROVE  compute_rotated(compute_rotated(part, TRUE), TRUE)
               = {Opposite(p) : p \in part}
  <2>. DEFINE turned == {Turned(p, TRUE) : p \in part}
  <2>1. compute_rotated(part, TRUE) = turned /\ turned \in SUBSET Box
    BY RotatedIsTurned, RotatedProperties
  <2>2. compute_rotated(turned, TRUE) = {Turned(q, TRUE) : q \in turned}
    BY <2>1, RotatedIsTurned
  <2>3. \A p \in part : Turned(Turned(p, TRUE), TRUE) = Opposite(p)
    BY DEF Turned, Opposite, Box, PIECE_SIZE
  <2>4. ASSUME NEW q
        PROVE  q \in {Turned(t, TRUE) : t \in turned}
                 <=> q \in {Opposite(p) : p \in part}
    BY <2>3
  <2>. QED
    BY <2>1, <2>2, <2>4
<1>. DEFINE half == compute_rotated(compute_rotated(minos, TRUE), TRUE)
<1>2. half \in SUBSET Box /\ half = {Opposite(p) : p \in minos}
  BY <1>1, RotatedProperties
<1>. HIDE DEF half
<1>3. compute_rotated(compute_rotated(half, TRUE), TRUE)
        = {Opposite(q) : q \in half}
  BY <1>1, <1>2
<1>4. \A p \in minos : Opposite(Opposite(p)) = p
  BY DEF Opposite, Box, PIECE_SIZE
<1>5. ASSUME NEW p
      PROVE  p \in {Opposite(q) : q \in half} <=> p \in minos
  BY <1>2, <1>4
<1>. QED
  BY <1>3, <1>5 DEF half

(* The shift of a turn clockwise; that of every other turn follows. *)
ShiftX(minos) ==
  div_round(Rows(minos) + Columns(minos) - 3 * Cardinality(minos),
            Cardinality(minos))
ShiftY(minos) == div_round(Rows(minos) - Columns(minos), Cardinality(minos))

LEMMA ShiftsTurn ==
  ASSUME NEW minos \in SUBSET Box, minos # {}
  PROVE  LET right == compute_rotated(minos, TRUE)
             left == compute_rotated(minos, FALSE)
         IN  /\ ShiftX(minos) \in -3 .. 3 /\ ShiftY(minos) \in -3 .. 3
             /\ RotationShift(minos, right).x = ShiftX(minos)
             /\ RotationShift(minos, right).y = ShiftY(minos)
             /\ ShiftX(right) = -ShiftY(minos) /\ ShiftY(right) = ShiftX(minos)
             /\ RotationShift(minos, left).x = -ShiftY(minos)
             /\ RotationShift(minos, left).y = ShiftX(minos)
             /\ ShiftX(left) = ShiftY(minos) /\ ShiftY(left) = -ShiftX(minos)
<1>. DEFINE right == compute_rotated(minos, TRUE)
            left == compute_rotated(minos, FALSE)
            n == Cardinality(minos)
            R == Rows(minos)
            C == Columns(minos)
            u == R - C
            v == R + C - 3 * n
<1>1. /\ n \in Nat \ {0} /\ Cardinality(right) = n /\ Cardinality(left) = n
      /\ R \in 0 .. 3 * n /\ C \in 0 .. 3 * n
  <2>1. n \in Nat \ {0}
    BY MinosFinite
  <2>2. \A cw \in BOOLEAN : Cardinality(compute_rotated(minos, cw)) = n
    BY RotatedProperties
  <2>. QED
    BY <2>1, <2>2, SumBounds
<1>2. /\ u \in -(3 * n) .. 3 * n /\ v \in -(3 * n) .. 3 * n
  BY <1>1
<1>3. /\ div_round(u, n) \in -3 .. 3 /\ div_round(v, n) \in -3 .. 3
      /\ div_round(-u, n) = -div_round(u, n)
      /\ div_round(-v, n) = -div_round(v, n)
  <2>. HIDE DEF u, v, n
  <2>. QED
    BY <1>1, <1>2, DivRoundBounds, DivRoundOdd
<1>4. /\ Rows(right) = C /\ Columns(right) = 3 * n - R
      /\ Rows(left) = 3 * n - C /\ Columns(left) = R
  BY RotatedSums
<1>5. /\ C - Columns(right) = v /\ R - Rows(right) = u
      /\ Rows(right) + Columns(right) - 3 * n = -u
      /\ Rows(right) - Columns(right) = v
      /\ C - Columns(left) = -u /\ R - Rows(left) = v
      /\ Rows(left) + Columns(left) - 3 * n = u
      /\ Rows(left) - Columns(left) = -v
  <2>. HIDE DEF R, C, n, right, left
  <2>. QED
    BY <1>1, <1>4
<1>6. /\ ShiftX(minos) = div_round(v, n) /\ ShiftY(minos) = div_round(u, n)
      /\ ShiftX(right) = div_round(-u, n) /\ ShiftY(right) = div_round(v, n)
      /\ ShiftX(left) = div_round(u, n) /\ ShiftY(left) = div_round(-v, n)
  BY <1>1, <1>5 DEF ShiftX, ShiftY
<1>7. /\ RotationShift(minos, right).x = div_round(v, n)
      /\ RotationShift(minos, right).y = div_round(u, n)
      /\ RotationShift(minos, left).x = div_round(-u, n)
      /\ RotationShift(minos, left).y = div_round(v, n)
  BY <1>5 DEF RotationShift
<1>. HIDE DEF right, left, n, u, v
<1>8. /\ ShiftX(minos) \in -3 .. 3 /\ ShiftY(minos) \in -3 .. 3
      /\ RotationShift(minos, right).x = ShiftX(minos)
      /\ RotationShift(minos, right).y = ShiftY(minos)
      /\ ShiftX(right) = -ShiftY(minos) /\ ShiftY(right) = ShiftX(minos)
      /\ RotationShift(minos, left).x = -ShiftY(minos)
      /\ RotationShift(minos, left).y = ShiftX(minos)
      /\ ShiftX(left) = ShiftY(minos) /\ ShiftY(left) = -ShiftX(minos)
  BY <1>3, <1>6, <1>7
<1>. QED
  BY <1>8 DEF right, left

(* A sum of shifts by a few places is right but for a wrap of int8_t, ...  *)
Congruent(x, n) == x - n \in {0, Int8Mod, -Int8Mod}

LEMMA ShiftedCongruent ==
  ASSUME NEW x \in Int8, NEW n \in Int, Congruent(x, n), NEW s \in -3 .. 3,
         n + s \in -Half - 6 .. Half + 5
  PROVE  ToInt8(x + s) \in Int8 /\ Congruent(ToInt8(x + s), n + s)
<1>1. /\ Half \in Nat /\ Int8Mod = 2 * Half /\ Half >= 12 /\ Int8Mod \in Nat
      /\ x \in -Half .. Half - 1
  BY HalfProperties, BoardAssumption DEF Int8, Half, PIECE_SIZE
<1>2. x + s \in Int /\ ToInt8(x + s) \in Int8
  BY <1>1, ToInt8Type
<1>3. ToInt8(x + s) \in -Half .. Half - 1
  BY <1>2 DEF Int8, Half
<1>4. ToInt8(x + s) - (x + s) \in {0, Int8Mod, -Int8Mod}
  <2>. DEFINE m == x + s + Half
  <2>1. m \in -3 .. Int8Mod + 2 /\ Int8Mod > 3
    BY <1>1
  <2>2. ToInt8(x + s) = (m % Int8Mod) - Half
    BY DEF ToInt8, Half
  <2>. HIDE DEF m
  <2>3. m % Int8Mod \in {m, m + Int8Mod, m - Int8Mod}
    <3>1. CASE m < 0
      BY <1>1, <2>1, <3>1
    <3>2. CASE m >= 0 /\ m < Int8Mod
      BY <1>1, <2>1, <3>2
    <3>3. CASE m >= Int8Mod
      BY <1>1, <2>1, <3>3
    <3>. QED
      BY <1>1, <2>1, <3>1, <3>2, <3>3
  <2>. QED
    BY <1>1, <2>1, <2>2, <2>3 DEF m
<1>. HIDE DEF Int8
<1>5. ToInt8(x + s) - (n + s) \in {0, Int8Mod, -Int8Mod}
  <2>. DEFINE z == ToInt8(x + s)
  <2>1. z \in -Half .. Half - 1 /\ z - (x + s) \in {0, Int8Mod, -Int8Mod}
    BY <1>3, <1>4
  <2>. HIDE DEF z
  <2>2. z - (n + s) \in {0, Int8Mod, -Int8Mod}
    BY <1>1, <2>1 DEF Congruent
  <2>. QED
    BY <2>2 DEF z
<1>. QED
  BY <1>2, <1>5 DEF Congruent

(* ... so that four turns, whose shifts add up to nothing, lead home. *)
LEMMA FourShifts ==
  ASSUME NEW x \in Int8, NEW a \in -3 .. 3, NEW b \in -3 .. 3
  PROVE  ToInt8(ToInt8(ToInt8(ToInt8(x + a) + b) + (-a)) + (-b)) = x
<1>1. /\ Half \in Nat /\ x \in -Half .. Half - 1 /\ -a \in -3 .. 3
      /\ Int8Mod = 2 * Half /\ -b \in -3 .. 3
  BY HalfProperties DEF Int8, Half
<1>. DEFINE x1 == ToInt8(x + a)
            x2 == ToInt8(x1 + b)
            x3 == ToInt8(x2 + (-a))
            x4 == ToInt8(x3 + (-b))
<1>2. x1 \in Int8 /\ Congruent(x1, x + a)
  <2>1. Congruent(x, x) /\ x \in Int /\ x + a \in -Half - 6 .. Half + 5
    BY <1>1 DEF Congruent
  <2>. QED
    BY <2>1, ShiftedCongruent
<1>3. x2 \in Int8 /\ Congruent(x2, x + a + b)
  <2>1. x + a \in Int /\ x + a + b \in -Half - 6 .. Half + 5
    BY <1>1
  <2>. HIDE DEF x1
  <2>. QED
    BY <1>2, <2>1, ShiftedCongruent
<1>4. x3 \in Int8 /\ Congruent(x3, x + a + b + (-a))
  <2>1. x + a + b \in Int /\ x + a + b + (-a) \in -Half - 6 .. Half + 5
    BY <1>1
  <2>. HIDE DEF x2
  <2>. QED
    BY <1>1, <1>3, <2>1, ShiftedCongruent
<1>5. x4 \in Int8 /\ Congruent(x4, x + a + b + (-a) + (-b))
  <2>1. /\ x + a + b + (-a) \in Int
        /\ x + a + b + (-a) + (-b) \in -Half - 6 .. Half + 5
    BY <1>1
  <2>. HIDE DEF x3
  <2>. QED
    BY <1>1, <1>4, <2>1, ShiftedCongruent
<1>. HIDE DEF x4
<1>6. x4 - x \in {0, Int8Mod, -Int8Mod} /\ x4 \in -Half .. Half - 1
  BY <1>1, <1>5 DEF Congruent, Int8, Half
<1>7. x4 = x
  BY <1>1, <1>6
<1>. QED
  BY <1>7 DEF x4

LEMMA TwoShifts ==
  ASSUME NEW x \in Int8, NEW a \in -3 .. 3
  PROVE  ToInt8(ToInt8(x + a) + (-a)) = x
<1>1. /\ Half \in Nat /\ x \in -Half .. Half - 1 /\ -a \in -3 .. 3
      /\ Int8Mod = 2 * Half
  BY HalfProperties DEF Int8, Half
<1>. DEFINE x1 == ToInt8(x + a)
            x2 == ToInt8(x1 + (-a))
<1>2. x1 \in Int8 /\ Congruent(x1, x + a)
  <2>1. Congruent(x, x) /\ x \in Int /\ x + a \in -Half - 6 .. Half + 5
    BY <1>1 DEF Congruent
  <2>. QED
    BY <2>1, ShiftedCongruent
<1>3. x2 \in Int8 /\ Congruent(x2, x + a + (-a))
  <2>1. x + a \in Int /\ x + a + (-a) \in -Half - 6 .. Half + 5
    BY <1>1
  <2>. HIDE DEF x1
  <2>. QED
    BY <1>1, <1>2, <2>1, ShiftedCongruent
<1>. HIDE DEF x2
<1>4. x2 - x \in {0, Int8Mod, -Int8Mod} /\ x2 \in -Half .. Half - 1
  BY <1>1, <1>3 DEF Congruent, Int8, Half
<1>5. x2 = x
  BY <1>1, <1>4
<1>. QED
  BY <1>5 DEF x2

-----------------------------------------------------------------------------
(* The board. *)

LEMMA LockType ==
  ASSUME NEW b \in [Row -> SUBSET Col], NEW h
  PROVE  Lock(b, h) \in [Row -> SUBSET Col]
  BY DEF Lock

LEMMA CheckRowType ==
  ASSUME NEW b \in [Row -> SUBSET Col]
  PROVE  check_row(b) \in [Row -> SUBSET Col]
<1>. DEFINE full == FullRows(b)
            From(r) == {q \in Row \ full : Landing(q, full) = r}
<1>1. \A r \in Row : UNION {b[q] : q \in From(r)} \in SUBSET Col
  OBVIOUS
<1>. QED
  BY <1>1 DEF check_row

(* Where a piece does not collide, and the box is not far below the board, *)
(* its minos are between the walls, above the floor and on empty tiles.    *)
LEMMA NotCollides ==
  ASSUME NEW b \in [Row -> SUBSET Col], NEW minos \in SUBSET Box,
         NEW x \in Int8, NEW y \in -Half .. BOARD_HEIGHT + PIECE_SIZE,
         ~collides(b, minos, x, y)
  PROVE  \A p \in minos :
           /\ x + p[2] \in Col /\ y + p[1] < BOARD_HEIGHT
           /\ y + p[1] \in Row => x + p[2] \notin b[y + p[1]]
<1>. SUFFICES ASSUME NEW p \in minos
              PROVE  /\ x + p[2] \in Col /\ y + p[1] < BOARD_HEIGHT
                     /\ y + p[1] \in Row => x + p[2] \notin b[y + p[1]]
  OBVIOUS
<1>1. p \in Box
  OBVIOUS
<1>2. /\ AbsX(p, x) \in Col /\ ~(AbsY(p, y) >= BOARD_HEIGHT)
      /\ ~(AbsY(p, y) >= 0 /\ AbsX(p, x) \in b[AbsY(p, y)])
  BY DEF collides
<1>3. AbsX(p, x) = x + p[2] /\ x + p[2] \in Col
  BY <1>1, <1>2, AbsXInside
<1>4. AbsY(p, y) = y + p[1]
  BY <1>1, AbsYInside
<1>5. y + p[1] \in Int
  BY <1>1, HalfProperties DEF Box, PIECE_SIZE
<1>. QED
  BY <1>2, <1>3, <1>4, <1>5, HalfProperties DEF Row

-----------------------------------------------------------------------------
(* Compact pieces. *)

LEMMA RotatedCompact ==
  ASSUME NEW minos \in SUBSET Box, Compact(minos), NEW cw \in BOOLEAN
  PROVE  Compact(compute_rotated(minos, cw))
<1>1. compute_rotated(minos, cw) = {Turned(p, cw) : p \in minos}
  BY RotatedIsTurned
<1>2. \A p \in minos : p[1] \in 0 .. 3 /\ p[2] \in 0 .. 3
  BY DEF Box, PIECE_SIZE
<1>3. /\ \A p, q \in minos : \A k \in p[1] .. q[1] : \E s \in minos : s[1] = k
      /\ \A p, q \in minos : \A k \in p[2] .. q[2] : \E s \in minos : s[2] = k
  BY DEF Compact
<1>4. ASSUME NEW p \in minos, NEW q \in minos,
             NEW k \in Turned(p, cw)[1] .. Turned(q, cw)[1]
      PROVE  \E s \in minos : Turned(s, cw)[1] = k
  <2>1. CASE cw
    <3>1. k \in p[2] .. q[2]
      BY <1>4, <2>1 DEF Turned
    <3>2. PICK s \in minos : s[2] = k
      BY <1>3, <3>1
    <3>. QED
      BY <2>1, <3>2 DEF Turned
  <2>2. CASE ~cw
    <3>1. k \in 3 - p[2] .. 3 - q[2]
      BY <1>4, <2>2 DEF Turned
    <3>2. 3 - k \in q[2] .. p[2]
      BY <1>2, <3>1
    <3>3. PICK s \in minos : s[2] = 3 - k
      BY <1>3, <3>2
    <3>4. 3 - s[2] = k
      BY <1>2, <3>1, <3>3
    <3>. QED
      BY <2>2, <3>4 DEF Turned
  <2>. QED
    BY <2>1, <2>2
<1>5. ASSUME NEW p \in minos, NEW q \in minos,
             NEW k \in Turned(p, cw)[2] .. Turned(q, cw)[2]
      PROVE  \E s \in minos : Turned(s, cw)[2] = k
  <2>1. CASE cw
    <3>1. k \in 3 - p[1] .. 3 - q[1]
      BY <1>5, <2>1 DEF Turned
    <3>2. 3 - k \in q[1] .. p[1]
      BY <1>2, <3>1
    <3>3. PICK s \in minos : s[1] = 3 - k
      BY <1>3, <3>2
    <3>4. 3 - s[1] = k
      BY <1>2, <3>1, <3>3
    <3>. QED
      BY <2>1, <3>4 DEF Turned
  <2>2. CASE ~cw
    <3>1. k \in p[1] .. q[1]
      BY <1>5, <2>2 DEF Turned
    <3>2. PICK s \in minos : s[1] = k
      BY <1>3, <3>1
    <3>. QED
      BY <2>2, <3>2 DEF Turned
  <2>. QED
    BY <2>1, <2>2
<1>. QED
  BY <1>1, <1>4, <1>5 DEF Compact

-----------------------------------------------------------------------------
(* Sweeping a board without gaps. *)

(* Above an empty row all are empty. *)
GapFree(b) == \A r \in Row : b[r] = {} => \A q \in 0 .. r : b[q] = {}

LEMMA RowsFinite ==
  ASSUME NEW C \in SUBSET Row
  PROVE  IsFiniteSet(C) /\ Cardinality(C) \in Nat
<1>1. IsFiniteSet(Row)
  BY FS_Interval, HalfProperties DEF Row
<1>. QED
  BY <1>1, FS_Subset, FS_CardinalityType

(* The rows from m + 1 to n without n - m or more of them. *)
LEMMA BetweenBound ==
  ASSUME NEW C, NEW m \in Int, NEW n \in Int, m <= n, C \subseteq m + 1 .. n
  PROVE  /\ IsFiniteSet(C) /\ Cardinality(C) \in 0 .. n - m
         /\ Cardinality(C) = n - m => C = m + 1 .. n
<1>1. m + 1 \in Int
  OBVIOUS
<1>2. /\ IsFiniteSet(m + 1 .. n)
      /\ Cardinality(m + 1 .. n) = IF m + 1 > n THEN 0 ELSE n - (m + 1) + 1
  BY <1>1, FS_Interval
<1>3. Cardinality(m + 1 .. n) = n - m
  BY <1>2
<1>4. IsFiniteSet(C) /\ Cardinality(C) <= n - m
  BY <1>2, <1>3, FS_Subset
<1>5. Cardinality(C) \in Nat
  BY <1>4, FS_CardinalityType
<1>6. Cardinality(C) = n - m => C = m + 1 .. n
  BY <1>2, <1>3, FS_Subset
<1>. QED
  BY <1>4, <1>5, <1>6

(* Rows fall, but not below the floor, ... *)
LEMMA LandingRange ==
  ASSUME NEW C \in SUBSET Row, NEW q \in Row
  PROVE  Landing(q, C) \in q .. BOARD_HEIGHT - 1 /\ q \in Int
<1>. DEFINE A == {f \in C : f > q}
<1>1. q \in Int /\ q >= 0 /\ q <= BOARD_HEIGHT - 1 /\ BOARD_HEIGHT \in Int
  BY HalfProperties DEF Row
<1>2. A \subseteq q + 1 .. BOARD_HEIGHT - 1
  <2>. SUFFICES ASSUME NEW f \in A  PROVE f \in q + 1 .. BOARD_HEIGHT - 1
    OBVIOUS
  <2>1. f \in 0 .. BOARD_HEIGHT - 1 /\ f > q
    BY DEF Row
  <2>. QED
    BY <1>1, <2>1
<1>3. Cardinality(A) \in 0 .. BOARD_HEIGHT - 1 - q
  <2>1. BOARD_HEIGHT - 1 \in Int /\ q <= BOARD_HEIGHT - 1
    BY <1>1
  <2>. HIDE DEF A
  <2>. QED
    BY <1>1, <1>2, <2>1, BetweenBound
<1>4. Landing(q, C) = q + Cardinality(A)
  BY DEF Landing
<1>. HIDE DEF A
<1>. QED
  BY <1>1, <1>3, <1>4

(* ... and without passing or meeting each other. *)
LEMMA LandingOrder ==
  ASSUME NEW C \in SUBSET Row, NEW m \in Row, NEW n \in Row \ C, m < n
  PROVE  Landing(m, C) < Landing(n, C)
<1>. DEFINE A == {f \in C : f > m}
            B == {f \in C : f > n}
            M == {f \in C : f > m /\ f < n}
<1>1. m \in Int /\ n \in Int /\ \A f \in C : f \in Int
  BY DEF Row
<1>2. M \subseteq m + 1 .. n - 1
  <2>. SUFFICES ASSUME NEW f \in M  PROVE f \in m + 1 .. n - 1
    OBVIOUS
  <2>1. f \in Int /\ f > m /\ f < n
    BY <1>1
  <2>. QED
    BY <1>1, <2>1
<1>3. A = B \cup M /\ B \cap M = {}
  <2>1. \A f \in C : f # n
    OBVIOUS
  <2>2. \A f \in C : /\ f > m <=> (f > n \/ (f > m /\ f < n))
                     /\ ~(f > n /\ f < n)
    BY <1>1, <2>1
  <2>. QED
    BY <2>2
<1>4. A \in SUBSET Row /\ B \in SUBSET Row /\ M \in SUBSET Row
  OBVIOUS
<1>5. Landing(m, C) = m + Cardinality(A) /\ Landing(n, C) = n + Cardinality(B)
  BY DEF Landing
<1>. HIDE DEF A, B, M
<1>6. /\ IsFiniteSet(B) /\ Cardinality(B) \in Nat /\ IsFiniteSet(M)
      /\ Cardinality(A) \in Nat
  BY <1>4, RowsFinite
<1>7. Cardinality(M) \in 0 .. n - 1 - m
  <2>1. n - 1 \in Int /\ m <= n - 1
    BY <1>1
  <2>. QED
    BY <1>1, <1>2, <2>1, BetweenBound
<1>8. Cardinality(A) = Cardinality(B) + Cardinality(M)
  <2>1. Cardinality(B \cup M)
          = Cardinality(B) + Cardinality(M) - Cardinality(B \cap M)
    BY <1>6, FS_Union
  <2>2. Cardinality(B \cap M) = 0
    BY <1>3, FS_EmptySet
  <2>. QED
    BY <1>3, <1>6, <1>7, <2>1, <2>2
<1>. QED
  BY <1>1, <1>5, <1>6, <1>7, <1>8

(* Below a row that stays, every row it does not come to lie on is taken   *)
(* by one that stays, too.                                                 *)
LEMMA LandingFills ==
  ASSUME NEW C \in SUBSET Row, NEW m \in Row \ C,
         NEW r \in Row, r > Landing(m, C)
  PROVE  \E n \in Row \ C : n > m /\ Landing(n, C) = r
<1>. DEFINE top == BOARD_HEIGHT - 1
            A == {f \in C : f > m}
            S == {n \in Row \ C : n > m}
            T == {Landing(n, C) : n \in S}
            land == [n \in S |-> Landing(n, C)]
<1>1. /\ m \in Int /\ m >= 0 /\ m <= top /\ top \in Int /\ r \in Int /\ r <= top
      /\ \A n \in Row : n \in Int /\ n <= top /\ n >= 0
      /\ \A n \in Int : n >= 0 /\ n <= top => n \in Row
  BY HalfProperties DEF Row
<1>2. Landing(m, C) = m + Cardinality(A)
  BY DEF Landing
<1>3. /\ A \in SUBSET Row /\ S \in SUBSET Row
      /\ A \cup S = m + 1 .. top /\ A \cap S = {}
  <2>1. ASSUME NEW n \in m + 1 .. top  PROVE n \in A \/ n \in S
    <3>1. n \in Row /\ n > m
      BY <1>1, <2>1
    <3>. QED
      BY <3>1
  <2>2. ASSUME NEW n \in Row, n > m  PROVE n \in m + 1 .. top
    BY <1>1, <2>2
  <2>3. A \in SUBSET Row /\ S \in SUBSET Row
    OBVIOUS
  <2>4. \A n \in A \cup S : n \in Row /\ n > m
    OBVIOUS
  <2>5. A \cap S = {}
    OBVIOUS
  <2>. HIDE DEF A, S
  <2>. QED
    BY <2>1, <2>2, <2>3, <2>4, <2>5
<1>4. /\ IsFiniteSet(A) /\ Cardinality(A) \in Nat
      /\ IsFiniteSet(S) /\ Cardinality(S) \in Nat
  <2>. HIDE DEF A, S
  <2>. QED
    BY <1>3, RowsFinite
<1>5. Cardinality(A) + Cardinality(S) = top - m
  <2>1. Cardinality(m + 1 .. top) = top - m
    <3>1. m + 1 \in Int /\ m + 1 <= top + 1
      BY <1>1
    <3>2. Cardinality(m + 1 .. top)
            = IF m + 1 > top THEN 0 ELSE top - (m + 1) + 1
      BY <1>1, <3>1, FS_Interval
    <3>. HIDE DEF top
    <3>. QED
      BY <1>1, <3>1, <3>2
  <2>. HIDE DEF A, S, top
  <2>2. Cardinality(A \cup S)
          = Cardinality(A) + Cardinality(S) - Cardinality(A \cap S)
    BY <1>4, FS_Union
  <2>3. Cardinality(A \cap S) = 0
    BY <1>3, FS_EmptySet
  <2>4. Cardinality(A \cup S) = top - m
    BY <1>3, <2>1, Zenon
  <2>. QED
    BY <1>4, <2>2, <2>3, <2>4
<1>6. /\ \A n \in S : Landing(n, C) \in Landing(m, C) + 1 .. top
      /\ \A n, k \in S : Landing(n, C) = Landing(k, C) => n = k
  <2>1. ASSUME NEW n \in S
        PROVE  Landing(n, C) \in Landing(m, C) + 1 .. top
    <3>1. n \in Row \ C /\ n > m
      OBVIOUS
    <3>2. Landing(n, C) \in n .. top
      BY <3>1, LandingRange
    <3>3. Landing(m, C) < Landing(n, C)
      BY <3>1, LandingOrder
    <3>4. Landing(m, C) \in Int
      BY <1>1, <1>2, <1>4
    <3>5. n \in Int
      BY <1>1, <3>1
    <3>. HIDE DEF top
    <3>. QED
      BY <1>1, <3>2, <3>3, <3>4, <3>5
  <2>2. ASSUME NEW n \in S, NEW k \in S, n < k
        PROVE  Landing(n, C) # Landing(k, C)
    <3>1. n \in Row /\ k \in Row \ C
      OBVIOUS
    <3>2. Landing(n, C) < Landing(k, C)
      BY <2>2, <3>1, LandingOrder
    <3>3. Landing(n, C) \in Int /\ Landing(k, C) \in Int
      <4>1. n \in Int /\ k \in Int
        BY <1>1, <3>1
      <4>2. Landing(n, C) \in n .. top /\ Landing(k, C) \in k .. top
        BY <3>1, LandingRange
      <4>. HIDE DEF top
      <4>. QED
        BY <1>1, <4>1, <4>2
    <3>. QED
      BY <3>2, <3>3
  <2>3. \A n, k \in S : n = k \/ n < k \/ k < n
    <3>1. \A n \in S : n \in Int
      BY <1>1
    <3>. HIDE DEF S
    <3>. QED
      BY <3>1
  <2>. HIDE DEF S, top
  <2>. QED
    BY <2>1, <2>2, <2>3
<1>7. IsFiniteSet(T) /\ Cardinality(T) = Cardinality(S)
  <2>1. land \in [S -> T]
    OBVIOUS
  <2>2. \A n, k \in S : land[n] = land[k] => n = k
    BY <1>6
  <2>3. \A t \in T : \E n \in S : land[n] = t
    OBVIOUS
  <2>. HIDE DEF land, S, T
  <2>4. land \in Bijection(S, T)
    BY <2>1, <2>2, <2>3 DEF Bijection, Injection, Surjection, IsInjective
  <2>5. ExistsBijection(S, T)
    BY <2>4 DEF ExistsBijection
  <2>. QED
    BY <1>4, <2>5, FS_Bijection
<1>8. T \subseteq Landing(m, C) + 1 .. top
  BY <1>6
<1>. HIDE DEF top, A, S, land
<1>9. /\ Landing(m, C) \in Int /\ Landing(m, C) <= top
      /\ Cardinality(T) = top - Landing(m, C)
  BY <1>1, <1>2, <1>4, <1>5, <1>7
<1>10. T = Landing(m, C) + 1 .. top
  <2>. HIDE DEF T
  <2>. QED
    BY <1>1, <1>8, <1>9, BetweenBound
<1>11. r \in Landing(m, C) + 1 .. top
  BY <1>1, <1>9
<1>12. PICK n \in S : Landing(n, C) = r
  BY <1>10, <1>11
<1>. QED
  BY <1>12 DEF S

(* Without gaps the sweep takes out every full row, ... *)
LEMMA AllFull ==
  ASSUME NEW b \in [Row -> SUBSET Col], GapFree(b)
  PROVE  FullRows(b) = {r \in Row : b[r] = Col}
<1>1. Col # {} /\ BOARD_HEIGHT \in Nat
  <2>1. 0 \in Col
    BY HalfProperties DEF Col
  <2>. QED
    BY <2>1, HalfProperties
<1>2. ASSUME NEW r \in Row, b[r] = Col, NEW q \in r .. BOARD_HEIGHT - 1
      PROVE  b[q] # {}
  <2>1. q \in Row /\ r \in 0 .. q
    BY <1>1 DEF Row
  <2>. QED
    BY <1>1, <1>2, <2>1 DEF GapFree
<1>. QED
  BY <1>2 DEF FullRows

(* ... each row of the result is one of those left, or empty, ... *)
LEMMA SweptRow ==
  ASSUME NEW b \in [Row -> SUBSET Col], NEW q \in Row \ FullRows(b),
         NEW r \in Row, Landing(q, FullRows(b)) = r
  PROVE  check_row(b)[r] = b[q]
<1>. DEFINE F == FullRows(b)
            From == {n \in Row \ F : Landing(n, F) = r}
<1>1. F \in SUBSET Row
  BY DEF FullRows
<1>2. check_row(b)[r] = UNION {b[n] : n \in From}
  BY DEF check_row
<1>3. ASSUME NEW n \in Row \ F, Landing(n, F) = r  PROVE n = q
  <2>1. n \in Int /\ q \in Int
    BY DEF Row
  <2>2. CASE n < q
    <3>1. Landing(n, F) < Landing(q, F)
      BY <1>1, <2>2, LandingOrder
    <3>. QED
      BY <1>3, <3>1 DEF Row
  <2>3. CASE q < n
    <3>1. Landing(q, F) < Landing(n, F)
      BY <1>1, <2>3, LandingOrder
    <3>. QED
      BY <1>3, <3>1 DEF Row
  <2>. QED
    BY <2>1, <2>2, <2>3
<1>4. From = {q}
  BY <1>3
<1>. QED
  BY <1>2, <1>4

(* ... none of them is full, ... *)
LEMMA SweptNotFull ==
  ASSUME NEW b \in [Row -> SUBSET Col], GapFree(b)
  PROVE  \A r \in Row : check_row(b)[r] # Col
<1>. SUFFICES ASSUME NEW r \in Row, check_row(b)[r] = Col  PROVE FALSE
  OBVIOUS
<1>1. PICK c \in Col : TRUE
  <2>1. 0 \in Col
    BY HalfProperties DEF Col
  <2>. QED
    BY <2>1
<1>2. check_row(b)[r] = UNION {b[n] : n \in {n \in Row \ FullRows(b) :
                                            Landing(n, FullRows(b)) = r}}
  BY DEF check_row
<1>3. PICK q \in Row \ FullRows(b) : Landing(q, FullRows(b)) = r
  BY <1>1, <1>2
<1>4. b[q] = Col
  BY <1>3, SweptRow
<1>. QED
  BY <1>3, <1>4, AllFull

(* ... and there are no gaps in it either. *)
LEMMA SweptGapFree ==
  ASSUME NEW b \in [Row -> SUBSET Col], GapFree(b)
  PROVE  GapFree(check_row(b))
<1>. DEFINE F == FullRows(b)
<1>1. F \in SUBSET Row
  BY DEF FullRows
<1>. SUFFICES ASSUME NEW r \in Row, check_row(b)[r] = {}, NEW s \in 0 .. r,
                     check_row(b)[s] # {}
              PROVE  FALSE
  BY DEF GapFree
<1>2. s \in Row /\ s \in Int /\ r \in Int /\ s <= r
  BY HalfProperties DEF Row
<1>3. check_row(b)[s] = UNION {b[n] : n \in {n \in Row \ F : Landing(n, F) = s}}
  BY <1>2 DEF check_row
<1>4. PICK m \in Row \ F : Landing(m, F) = s /\ b[m] # {}
  BY <1>3
<1>5. s # r
  OBVIOUS
<1>6. r > Landing(m, F)
  BY <1>2, <1>4, <1>5
<1>. HIDE DEF F
<1>7. PICK n \in Row \ F : n > m /\ Landing(n, F) = r
  BY <1>1, <1>4, <1>6, LandingFills
<1>8. b[n] = {}
  BY <1>7, SweptRow DEF F
<1>9. m \in 0 .. n
  BY <1>7 DEF Row
<1>. QED
  BY <1>4, <1>8, <1>9 DEF GapFree

-----------------------------------------------------------------------------
(* Locking a piece that lies on something. *)

(* The rows with tiles after locking a piece between the walls. *)
LEMMA LockedRows ==
  ASSUME NEW b \in [Row -> SUBSET Col], NEW h,
         h.minos \in SUBSET Box, h.x \in Int8,
         h.y \in -Half .. BOARD_HEIGHT + PIECE_SIZE,
         \A p \in h.minos : h.x + p[2] \in Col
  PROVE  \A r \in Row : Lock(b, h)[r] = {}
                         <=> b[r] = {} /\ \A p \in h.minos : h.y + p[1] # r
<1>. SUFFICES ASSUME NEW r \in Row
              PROVE  Lock(b, h)[r] = {}
                       <=> b[r] = {} /\ \A p \in h.minos : h.y + p[1] # r
  OBVIOUS
<1>1. Lock(b, h)[r] = b[r] \cup {c \in Col : \E p \in h.minos :
                                     AbsY(p, h.y) = r /\ AbsX(p, h.x) = c}
  BY DEF Lock
<1>2. ASSUME NEW p \in h.minos
      PROVE  /\ AbsY(p, h.y) = h.y + p[1]
             /\ AbsX(p, h.x) = h.x + p[2] /\ h.x + p[2] \in Col
  <2>1. p \in Box
    OBVIOUS
  <2>2. AbsY(p, h.y) = h.y + p[1]
    BY <2>1, AbsYInside
  <2>3. h.x + p[2] \in Col /\ h.x + p[2] \in Int8
    BY HalfProperties DEF Col, Int8, Half, PIECE_SIZE
  <2>. QED
    BY <2>2, <2>3, ToInt8Id DEF AbsX
<1>. QED
  BY <1>1, <1>2

(* A compact piece that cannot fall further closes up with the rows below. *)
LEMMA LockGapFree ==
  ASSUME NEW b \in [Row -> SUBSET Col], GapFree(b), NEW h,
         h.minos \in SUBSET Box, Compact(h.minos), h.x \in Int8,
         h.y \in -9 .. BOARD_HEIGHT - 1,
         \A p \in h.minos : h.x + p[2] \in Col /\ h.y + p[1] < BOARD_HEIGHT,
         collides(b, h.minos, h.x, h.y + 1)
  PROVE  GapFree(Lock(b, h))
<1>1. /\ h.y \in -Half .. BOARD_HEIGHT + PIECE_SIZE /\ h.y \in Int
      /\ h.y + 1 \in -Half .. BOARD_HEIGHT + PIECE_SIZE
      /\ BOARD_HEIGHT \in Int
  BY HalfProperties DEF PIECE_SIZE
<1>2. ASSUME NEW p \in h.minos
      PROVE  /\ p \in Box /\ p[1] \in Int
             /\ AbsY(p, h.y + 1) = h.y + 1 + p[1]
             /\ AbsX(p, h.x) = h.x + p[2] /\ h.x + p[2] \in Col
             /\ h.y + p[1] < BOARD_HEIGHT
  <2>1. p \in Box /\ p[1] \in Int
    BY DEF Box, PIECE_SIZE
  <2>2. AbsY(p, h.y + 1) = h.y + 1 + p[1]
    BY <1>1, <2>1, AbsYInside
  <2>3. h.x + p[2] \in Col /\ h.x + p[2] \in Int8
    BY HalfProperties DEF Col, Int8, Half, PIECE_SIZE
  <2>. QED
    BY <2>1, <2>2, <2>3, ToInt8Id DEF AbsX
<1>3. PICK z \in h.minos :
        \/ AbsX(z, h.x) \notin Col
        \/ AbsY(z, h.y + 1) >= BOARD_HEIGHT
        \/ AbsY(z, h.y + 1) >= 0 /\ AbsX(z, h.x) \in b[AbsY(z, h.y + 1)]
  BY DEF collides
<1>. DEFINE below == h.y + 1 + z[1]
<1>4. /\ below \in Int
      /\ below <= BOARD_HEIGHT
      /\ below = BOARD_HEIGHT \/ (below \in Row /\ b[below] # {})
  <2>1. z[1] \in Int /\ h.y + z[1] < BOARD_HEIGHT
    BY <1>2
  <2>2. below \in Int /\ below <= BOARD_HEIGHT
    BY <1>1, <2>1
  <2>3. below >= BOARD_HEIGHT \/ (below >= 0 /\ b[below] # {})
    BY <1>2, <1>3
  <2>. HIDE DEF below
  <2>. QED
    BY <1>1, <2>2, <2>3 DEF Row
<1>5. ASSUME NEW q \in Row, q >= below  PROVE b[q] # {}
  <2>1. below \in Row /\ b[below] # {} /\ below \in 0 .. q
    BY <1>1, <1>4, <1>5 DEF Row
  <2>. HIDE DEF below
  <2>. QED
    BY <2>1 DEF GapFree
<1>6. \A r \in Row : Lock(b, h)[r] = {}
                      <=> b[r] = {} /\ \A p \in h.minos : h.y + p[1] # r
  BY <1>1, <1>2, LockedRows
<1>. SUFFICES ASSUME NEW q \in Row, Lock(b, h)[q] = {}, NEW r \in 0 .. q,
                     Lock(b, h)[r] # {}
              PROVE  FALSE
  BY DEF GapFree
<1>7. r \in Row /\ q \in Int /\ r \in Int /\ r <= q
  BY <1>1 DEF Row
<1>8. b[q] = {} /\ \A p \in h.minos : h.y + p[1] # q
  BY <1>6
<1>9. b[r] = {}
  BY <1>8 DEF GapFree
<1>10. PICK p \in h.minos : h.y + p[1] = r
  BY <1>6, <1>7, <1>9
<1>11. q < below
  <2>1. ~(q >= below)
    BY <1>5, <1>8
  <2>. HIDE DEF below
  <2>. QED
    BY <1>4, <1>7, <2>1
<1>12. q - h.y \in p[1] .. z[1]
  BY <1>1, <1>2, <1>7, <1>10, <1>11
<1>13. PICK s \in h.minos : s[1] = q - h.y
  BY <1>12 DEF Compact
<1>14. h.y + s[1] = q
  BY <1>1, <1>7, <1>13
<1>. QED
  BY <1>8, <1>14
-----------------------------------------------------------------------------
(* Counting tiles. *)

(* The tiles of a board, as cells. *)
TileCells(b) == {q \in Row \X Col : q[2] \in b[q[1]]}

LEMMA SizeOfBoard ==
  /\ IsFiniteSet(Row) /\ IsFiniteSet(Col) /\ IsFiniteSet(Row \X Col)
  /\ Cardinality(Col) = BOARD_WIDTH
<1>1. /\ 0 \in Int /\ BOARD_WIDTH - 1 \in Int /\ BOARD_HEIGHT - 1 \in Int
      /\ ~(0 > BOARD_WIDTH - 1) /\ BOARD_WIDTH - 1 - 0 + 1 = BOARD_WIDTH
  BY HalfProperties
<1>2. IsFiniteSet(Row) /\ IsFiniteSet(Col)
  BY <1>1, FS_Interval DEF Row, Col
<1>3. Cardinality(Col) = BOARD_WIDTH
  BY <1>1, FS_Interval DEF Col
<1>. QED
  BY <1>2, <1>3, FS_Product

LEMMA CellsFinite ==
  ASSUME NEW S \in SUBSET (Row \X Col)
  PROVE  IsFiniteSet(S) /\ Cardinality(S) \in Nat
<1>1. IsFiniteSet(S)
  BY SizeOfBoard, FS_Subset
<1>. QED
  BY <1>1, FS_CardinalityType

LEMMA DisjointCount ==
  ASSUME NEW S, NEW T, IsFiniteSet(S), IsFiniteSet(T), S \cap T = {}
  PROVE  Cardinality(S \cup T) = Cardinality(S) + Cardinality(T)
<1>1. Cardinality(S \cup T)
        = Cardinality(S) + Cardinality(T) - Cardinality(S \cap T)
  BY FS_Union
<1>2. Cardinality(S \cap T) = 0
  BY FS_EmptySet
<1>3. Cardinality(S) \in Nat /\ Cardinality(T) \in Nat
  BY FS_CardinalityType
<1>. QED
  BY <1>1, <1>2, <1>3

(* A set has as many elements as its image, if no two meet. *)
LEMMA ImageCount ==
  ASSUME NEW S, IsFiniteSet(S), NEW T, NEW f \in [S -> T],
         \A x, y \in S : f[x] = f[y] => x = y,
         \A t \in T : \E x \in S : f[x] = t
  PROVE  IsFiniteSet(T) /\ Cardinality(T) = Cardinality(S)
<1>1. f \in Bijection(S, T)
  BY DEF Bijection, Injection, Surjection, IsInjective
<1>2. ExistsBijection(S, T)
  BY <1>1 DEF ExistsBijection
<1>. QED
  BY <1>2, FS_Bijection

(* A piece locked onto empty tiles adds its minos, but those above the     *)
(* board.                                                                  *)
LEMMA LockAdds ==
  ASSUME NEW b \in [Row -> SUBSET Col], NEW h,
         h.minos \in SUBSET Box, h.x \in Int8,
         h.y \in -Half .. BOARD_HEIGHT + PIECE_SIZE,
         \A p \in h.minos : /\ h.x + p[2] \in Col /\ h.y + p[1] < BOARD_HEIGHT
                            /\ h.y + p[1] \in Row =>
                                 h.x + p[2] \notin b[h.y + p[1]]
  PROVE  LET landed == {p \in h.minos : h.y + p[1] >= 0}
         IN  Cardinality(TileCells(Lock(b, h)))
               = Cardinality(TileCells(b)) + Cardinality(landed)
<1>. DEFINE landed == {p \in h.minos : h.y + p[1] >= 0}
            place == [p \in landed |-> <<h.y + p[1], h.x + p[2]>>]
            New == {<<h.y + p[1], h.x + p[2]>> : p \in landed}
<1>1. ASSUME NEW p \in h.minos
      PROVE  /\ AbsY(p, h.y) = h.y + p[1] /\ AbsX(p, h.x) = h.x + p[2]
             /\ h.x + p[2] \in Col /\ p = <<p[1], p[2]>>
             /\ p[1] \in Int /\ p[2] \in Int
             /\ h.y + p[1] >= 0 <=> h.y + p[1] \in Row
  <2>1. p \in Box
    OBVIOUS
  <2>2. AbsY(p, h.y) = h.y + p[1]
    BY <2>1, AbsYInside
  <2>3. h.x + p[2] \in Col /\ h.x + p[2] \in Int8
    BY HalfProperties DEF Col, Int8, Half, PIECE_SIZE
  <2>4. p = <<p[1], p[2]>> /\ p[1] \in Int /\ p[2] \in Int
    BY <2>1 DEF Box, PIECE_SIZE
  <2>5. h.y + p[1] \in Int /\ h.y + p[1] < BOARD_HEIGHT
    BY <2>4, HalfProperties
  <2>6. h.y + p[1] >= 0 <=> h.y + p[1] \in Row
    BY <2>5, HalfProperties DEF Row
  <2>. QED
    BY <2>2, <2>3, <2>4, <2>6, ToInt8Id DEF AbsX
<1>2. h.x \in Int /\ h.y \in Int
  BY HalfProperties DEF Int8, Half
<1>3. TileCells(Lock(b, h)) = TileCells(b) \cup New
  <2>1. \A r \in Row : \A c \in Col :
          c \in Lock(b, h)[r] <=> \/ c \in b[r]
                                  \/ \E p \in landed : <<r, c>> = <<h.y + p[1], h.x + p[2]>>
    <3>. SUFFICES ASSUME NEW r \in Row, NEW c \in Col
                  PROVE  c \in Lock(b, h)[r] <=>
                           \/ c \in b[r]
                           \/ \E p \in landed : <<r, c>> = <<h.y + p[1], h.x + p[2]>>
      OBVIOUS
    <3>1. c \in Lock(b, h)[r] <=>
            \/ c \in b[r]
            \/ \E p \in h.minos : AbsY(p, h.y) = r /\ AbsX(p, h.x) = c
      BY DEF Lock
    <3>2. ASSUME NEW p \in h.minos
          PROVE  (AbsY(p, h.y) = r /\ AbsX(p, h.x) = c)
                   <=> p \in landed /\ <<r, c>> = <<h.y + p[1], h.x + p[2]>>
      BY <1>1
    <3>. QED
      BY <3>1, <3>2
  <2>2. \A q \in New : q \in Row \X Col
    BY <1>1
  <2>3. ASSUME NEW q \in Row \X Col
        PROVE  q \in TileCells(Lock(b, h)) <=> q \in TileCells(b) \/ q \in New
    <3>1. PICK r \in Row, c \in Col : q = <<r, c>>
      OBVIOUS
    <3>2. /\ q \in TileCells(Lock(b, h)) <=> c \in Lock(b, h)[r]
          /\ q \in TileCells(b) <=> c \in b[r]
      BY <3>1 DEF TileCells
    <3>. QED
      BY <2>1, <3>1, <3>2
  <2>4. \A q \in TileCells(Lock(b, h)) \cup TileCells(b) : q \in Row \X Col
    BY DEF TileCells
  <2>. HIDE DEF New
  <2>. QED
    BY <2>2, <2>3, <2>4
<1>4. TileCells(b) \cap New = {}
  BY <1>1 DEF TileCells
<1>5. IsFiniteSet(New) /\ Cardinality(New) = Cardinality(landed)
  <2>1. IsFiniteSet(landed)
    BY MinosFinite
  <2>2. place \in [landed -> New] /\ \A t \in New : \E p \in landed : place[p] = t
    OBVIOUS
  <2>3. ASSUME NEW p \in landed, NEW q \in landed, place[p] = place[q]
        PROVE  p = q
    <3>1. h.y + p[1] = h.y + q[1] /\ h.x + p[2] = h.x + q[2]
      BY <2>3
    <3>2. p[1] = q[1] /\ p[2] = q[2]
      BY <1>1, <1>2, <3>1
    <3>. QED
      BY <1>1, <3>2
  <2>. HIDE DEF New, landed, place
  <2>. QED
    BY <2>1, <2>2, <2>3, ImageCount
<1>6. IsFiniteSet(TileCells(b))
  BY CellsFinite DEF TileCells
<1>. HIDE DEF New
<1>7. Cardinality(TileCells(b) \cup New) = Cardinality(TileCells(b)) + Cardinality(New)
  BY <1>4, <1>5, <1>6, DisjointCount
<1>. QED
  BY <1>3, <1>5, <1>7

(* A sweep takes out the tiles of the full rows, and no others. *)
LEMMA SweepRemoves ==
  ASSUME NEW b \in [Row -> SUBSET Col]
  PROVE  /\ Cardinality(FullRows(b)) \in Nat
         /\ Cardinality(TileCells(b)) = Cardinality(TileCells(check_row(b)))
                                    + Cardinality(FullRows(b)) * BOARD_WIDTH
<1>. DEFINE F == FullRows(b)
            Stay == {q \in TileCells(b) : q[1] \notin F}
            Swept == TileCells(check_row(b))
            fall == [q \in Stay |-> <<Landing(q[1], F), q[2]>>]
<1>1. F \in SUBSET Row /\ \A r \in F : b[r] = Col
  BY DEF FullRows
<1>2. IsFiniteSet(F) /\ Cardinality(F) \in Nat
  BY <1>1, RowsFinite
<1>3. TileCells(b) = Stay \cup (F \X Col) /\ Stay \cap (F \X Col) = {}
  <2>1. ASSUME NEW q \in TileCells(b)  PROVE q \in Stay \/ q \in F \X Col
    BY DEF TileCells
  <2>2. ASSUME NEW q \in F \X Col  PROVE q \in TileCells(b) /\ q \notin Stay
    BY <1>1 DEF TileCells
  <2>. QED
    BY <2>1, <2>2
<1>4. IsFiniteSet(Stay) /\ Cardinality(Stay) \in Nat
      /\ Cardinality(Swept) \in Nat
  BY CellsFinite DEF TileCells
<1>5. /\ IsFiniteSet(F \X Col)
      /\ Cardinality(F \X Col) = Cardinality(F) * BOARD_WIDTH
  BY <1>2, SizeOfBoard, FS_Product
<1>6. Cardinality(TileCells(b)) = Cardinality(Stay) + Cardinality(F) * BOARD_WIDTH
  <2>. HIDE DEF Stay, F
  <2>1. Cardinality(Stay \cup (F \X Col))
          = Cardinality(Stay) + Cardinality(F \X Col)
    BY <1>3, <1>4, <1>5, DisjointCount
  <2>. QED
    BY <1>3, <1>5, <2>1
<1>7. ASSUME NEW q \in Stay
      PROVE  /\ q[1] \in Row \ F /\ q[2] \in Col /\ q = <<q[1], q[2]>>
             /\ q[2] \in b[q[1]]
             /\ Landing(q[1], F) \in Row
             /\ check_row(b)[Landing(q[1], F)] = b[q[1]]
  <2>1. /\ q[1] \in Row \ F /\ q[2] \in Col /\ q = <<q[1], q[2]>>
        /\ q[2] \in b[q[1]]
    BY DEF TileCells
  <2>2. Landing(q[1], F) \in Row
    BY <1>1, <2>1, LandingRange, HalfProperties DEF Row
  <2>3. check_row(b)[Landing(q[1], F)] = b[q[1]]
    BY <2>1, <2>2, SweptRow
  <2>. QED
    BY <2>1, <2>2, <2>3
<1>8. fall \in [Stay -> Swept]
  <2>. SUFFICES ASSUME NEW q \in Stay
                PROVE  <<Landing(q[1], F), q[2]>> \in Swept
    OBVIOUS
  <2>. QED
    BY <1>7 DEF TileCells
<1>9. ASSUME NEW p \in Stay, NEW q \in Stay, fall[p] = fall[q]
      PROVE  p = q
  <2>1. Landing(p[1], F) = Landing(q[1], F) /\ p[2] = q[2]
    BY <1>9
  <2>2. /\ p[1] \in Row \ F /\ q[1] \in Row \ F
        /\ p[1] \in Int /\ q[1] \in Int /\ Landing(p[1], F) \in Int
    BY <1>7 DEF Row
  <2>3. p[1] = q[1]
    <3>1. CASE p[1] < q[1]
      BY <1>1, <2>1, <2>2, <3>1, LandingOrder
    <3>2. CASE q[1] < p[1]
      BY <1>1, <2>1, <2>2, <3>2, LandingOrder
    <3>. QED
      BY <2>2, <3>1, <3>2
  <2>. QED
    BY <1>7, <2>1, <2>3
<1>10. ASSUME NEW t \in Swept  PROVE \E q \in Stay : fall[q] = t
  <2>1. PICK r \in Row, c \in Col : t = <<r, c>> /\ c \in check_row(b)[r]
    BY DEF TileCells
  <2>2. check_row(b)[r] = UNION {b[n] : n \in {n \in Row \ F : Landing(n, F) = r}}
    BY DEF check_row
  <2>3. PICK n \in Row \ F : Landing(n, F) = r /\ c \in b[n]
    BY <2>1, <2>2
  <2>4. <<n, c>> \in Stay
    BY <2>1, <2>3 DEF TileCells
  <2>. QED
    BY <2>1, <2>3, <2>4
<1>11. Cardinality(Swept) = Cardinality(Stay)
  <2>. HIDE DEF Stay, Swept, fall
  <2>. QED
    BY <1>4, <1>8, <1>9, <1>10, ImageCount
<1>. QED
  BY <1>2, <1>6, <1>11

(* Locking a piece fills as many rows as its box has, at most. *)
LEMMA FewFill ==
  ASSUME NEW b \in [Row -> SUBSET Col], \A r \in Row : b[r] # Col, NEW h,
         h.minos \in SUBSET Box,
         h.y \in -Half .. BOARD_HEIGHT + PIECE_SIZE
  PROVE  Cardinality(FullRows(Lock(b, h))) \in 0 .. PIECE_SIZE
<1>. DEFINE F == FullRows(Lock(b, h))
<1>1. ASSUME NEW r \in F  PROVE r \in (h.y - 1) + 1 .. h.y + 3
  <2>1. r \in Row /\ Lock(b, h)[r] = Col /\ b[r] # Col /\ b[r] \subseteq Col
    BY DEF FullRows
  <2>2. Lock(b, h)[r] = b[r] \cup {c \in Col : \E p \in h.minos :
                                     AbsY(p, h.y) = r /\ AbsX(p, h.x) = c}
    BY <2>1 DEF Lock
  <2>3. PICK p \in h.minos : AbsY(p, h.y) = r
    BY <2>1, <2>2
  <2>4. p \in Box /\ p[1] \in 0 .. 3
    BY DEF Box, PIECE_SIZE
  <2>5. r = h.y + p[1]
    BY <2>3, <2>4, AbsYInside
  <2>. QED
    BY <2>4, <2>5, HalfProperties
<1>2. h.y - 1 \in Int /\ h.y + 3 \in Int /\ h.y - 1 <= h.y + 3
      /\ (h.y + 3) - (h.y - 1) = PIECE_SIZE
  BY HalfProperties DEF PIECE_SIZE
<1>. HIDE DEF F
<1>3. F \subseteq (h.y - 1) + 1 .. h.y + 3
  BY <1>1
<1>4. Cardinality(F) \in 0 .. (h.y + 3) - (h.y - 1)
  BY <1>2, <1>3, BetweenBound
<1>. QED
  BY <1>2, <1>4 DEF F

-----------------------------------------------------------------------------
(* The playfield. *)

(* Typing alone is not inductive for what the collision test promises: its *)
(* int8_t arithmetic is right only for a box near the board.  The box is   *)
(* not below the board because the piece in it is inside, and not far      *)
(* above it because turns do not make a piece climb.                       *)
IInv == TypeOK /\ HeldInside /\ NeverClimbs

-----------------------------------------------------------------------------
(* A piece taken from the bag. *)

LEMMA SupplyProperties ==
  ASSUME TypeOK, NEW left \in {bag, <<>>}, NEW b \in Supply(left)
  PROVE  /\ b \in Seq(Piece) /\ Len(b) \in 1 .. NumPieces
         /\ b[Len(b)] \in Piece
<1>1. NumPieces \in Nat \ {0}
  BY NumPiecesAssumption
<1>2. CASE left = <<>>
  <2>1. b \in [1 .. NumPieces -> Piece]
    BY <1>2 DEF Supply, Arrangements
  <2>. QED
    BY <1>1, <2>1
<1>3. CASE left # <<>>
  <2>1. b = bag /\ b # <<>> /\ b \in Seq(Piece) /\ Len(b) < NumPieces
    BY <1>3 DEF Supply, TypeOK
  <2>. QED
    BY <1>1, <2>1
<1>. QED
  BY <1>2, <1>3

LEMMA DealType ==
  ASSUME TypeOK, NEW left \in {bag, <<>>}, NEW b \in Supply(left), DealFrom(b)
  PROVE  /\ bag' \in Seq(Piece) /\ Len(bag') < NumPieces
         /\ next_piece_index' \in Piece /\ piece_index' \in Piece
<1>1. /\ NumPieces \in Nat \ {0} /\ 0 \in Piece
      /\ b \in Seq(Piece) /\ Len(b) \in 1 .. NumPieces
  BY NumPiecesAssumption, SupplyProperties DEF Piece
<1>2. bag' = SubSeq(b, 1, Len(b) - 1)
  BY DEF DealFrom
<1>3. bag' \in Seq(Piece) /\ Len(bag') = Len(b) - 1
  <2>1. /\ 1 \in Int /\ Len(b) - 1 \in Int /\ 1 <= Len(b)
        /\ \A i \in 1 .. Len(b) - 1 : b[i] \in Piece
    BY <1>1
  <2>2. PICK n \in Nat : n = Len(b)
    BY <1>1
  <2>3. SubSeq(b, 1, n - 1) \in Seq(Piece) /\ Len(SubSeq(b, 1, n - 1)) = n - 1
    <3>1. n - 1 \in 0 .. Len(b)
      BY <2>1, <2>2
    <3>. HIDE DEF Piece
    <3>. QED
      BY <1>1, <2>2, <3>1
  <2>. QED
    BY <1>2, <2>2, <2>3
<1>4. next_piece_index' \in Piece /\ piece_index' \in Piece
  BY <1>1, SupplyProperties DEF DealFrom
<1>. QED
  BY <1>1, <1>3, <1>4

(* A new piece is inside the board, where it was dealt. *)
AtSpawn(h) ==
  /\ h.x = SPAWN_X /\ h.y = 0
  /\ \E i \in Piece : h.minos = PieceDefs[i]

LEMMA SpawnProperties ==
  ASSUME TypeOK, NEW left \in {bag, <<>>}, NEW b \in Supply(left)
  PROVE  /\ Spawned(b) \in Tetromino
         /\ AtSpawn(Spawned(b))
         /\ \A p \in Spawned(b).minos :
              /\ Spawned(b).x + p[2] \in Col
              /\ Spawned(b).y + p[1] < BOARD_HEIGHT
<1>. DEFINE h == Spawned(b)
<1>1. b[Len(b)] \in Piece
  BY SupplyProperties
<1>2. h.minos = PieceDefs[b[Len(b)]] /\ h.x = SPAWN_X /\ h.y = 0
  BY DEF Spawned
<1>3. h.minos \in SUBSET Box
  BY <1>1, <1>2, PlayfieldAssumption
<1>4. h.x \in 0 .. BOARD_WIDTH - 4 /\ h.x \in Int8 /\ 0 \in Int8
  BY <1>2, PlayfieldAssumption, HalfProperties DEF Int8, Half, PIECE_SIZE
<1>5. h \in Tetromino
  BY <1>2, <1>3, <1>4 DEF Spawned, Tetromino
<1>6. ASSUME NEW p \in h.minos
      PROVE  h.x + p[2] \in Col /\ h.y + p[1] < BOARD_HEIGHT
  <2>1. p[1] \in 0 .. 3 /\ p[2] \in 0 .. 3
    BY <1>3 DEF Box, PIECE_SIZE
  <2>. QED
    BY <1>2, <1>4, <2>1, HalfProperties DEF Col
<1>. QED
  BY <1>1, <1>2, <1>5, <1>6 DEF AtSpawn

-----------------------------------------------------------------------------
(* What each kind of step does. *)

(* A step that moves or turns the piece tests the new place first. *)
Tested ==
  /\ held' \in Tetromino
  /\ \A p \in held'.minos :
       /\ held'.x + p[2] \in Col /\ held'.y + p[1] < BOARD_HEIGHT
       /\ held'.y + p[1] \in Row =>
            held'.x + p[2] \notin board[held'.y + p[1]]
  /\ UNCHANGED <<board, state, bagVars>>

(* A step that deals puts the new piece at the top. *)
Dealt ==
  /\ held' \in Tetromino /\ AtSpawn(held')
  /\ \A p \in held'.minos :
       held'.x + p[2] \in Col /\ held'.y + p[1] < BOARD_HEIGHT
  /\ board' \in [Row -> SUBSET Col]
  /\ state' \in GameState
  /\ bag' \in Seq(Piece) /\ Len(bag') < NumPieces
  /\ next_piece_index' \in Piece /\ piece_index' \in Piece

(* The box of a piece with minos is near the board. *)
LEMMA NearBoard ==
  ASSUME IInv, held.minos # {}
  PROVE  held.y \in -6 .. BOARD_HEIGHT - 1
<1>1. PICK q \in held.minos : TRUE
  OBVIOUS
<1>2. /\ held.minos \in SUBSET Box /\ held.y \in Int8
      /\ held.y + q[1] < BOARD_HEIGHT
  BY <1>1 DEF IInv, TypeOK, HeldInside, Tetromino
<1>3. PICK i \in Piece : 2 * held.y + Lift(held.minos) >= Lift(PieceDefs[i])
  BY DEF IInv, NeverClimbs
<1>4. Lift(held.minos) \in -6 .. 6
  BY <1>2, ShiftProperties
<1>5. Lift(PieceDefs[i]) \in -6 .. 6
  <2>1. PieceDefs[i] \in SUBSET Box /\ PieceDefs[i] # {}
    BY PlayfieldAssumption
  <2>. QED
    BY <2>1, ShiftProperties
<1>6. q[1] \in 0 .. 3 /\ held.y \in Int
  BY <1>1, <1>2, HalfProperties DEF Box, PIECE_SIZE, Int8, Half
<1>. QED
  BY <1>2, <1>3, <1>4, <1>5, <1>6, HalfProperties

(* Places a step away from the board are int8_t, and the collision test    *)
(* works for them.                                                         *)
LEMMA NearInt8 ==
  ASSUME NEW n \in -9 .. BOARD_HEIGHT + PIECE_SIZE
  PROVE  /\ n \in Int8 /\ ToInt8(n) = n
         /\ n \in -Half .. BOARD_HEIGHT + PIECE_SIZE
<1>1. n \in -Half .. BOARD_HEIGHT + PIECE_SIZE /\ n \in Int8
  BY HalfProperties DEF Int8, Half, PIECE_SIZE
<1>. QED
  BY <1>1, ToInt8Id

(* Where a step of a near piece does not collide, it is inside the board. *)
LEMMA TestedPlace ==
  ASSUME TypeOK, NEW h \in Tetromino,
         h.minos # {} => h.y \in -9 .. BOARD_HEIGHT + PIECE_SIZE,
         ~collides(board, h.minos, h.x, h.y)
  PROVE  \A p \in h.minos :
           /\ h.x + p[2] \in Col /\ h.y + p[1] < BOARD_HEIGHT
           /\ h.y + p[1] \in Row => h.x + p[2] \notin board[h.y + p[1]]
<1>1. CASE h.minos = {}
  BY <1>1
<1>2. CASE h.minos # {}
  <2>1. /\ h.minos \in SUBSET Box /\ h.x \in Int8
        /\ board \in [Row -> SUBSET Col]
    BY DEF Tetromino, TypeOK
  <2>2. h.y \in -Half .. BOARD_HEIGHT + PIECE_SIZE
    BY <1>2, NearInt8
  <2>. QED
    BY <2>1, <2>2, NotCollides
<1>. QED
  BY <1>1, <1>2

LEMMA ShiftIsTested ==
  ASSUME IInv, NEW dx \in -1 .. 1, NEW dy \in 0 .. 1, Shift(dx, dy)
  PROVE  Tested /\ NeverClimbs'
<1>. DEFINE x == ToInt8(held.x + dx)
            y == ToInt8(held.y + dy)
<1>1. /\ held.minos \in SUBSET Box /\ held.x \in Int8 /\ held.y \in Int8
      /\ held.x \in Int /\ held.y \in Int
  BY HalfProperties DEF IInv, TypeOK, Tetromino, Int8, Half
<1>2. x \in Int8 /\ y \in Int8
  BY <1>1, ToInt8Type
<1>3. /\ held' = [held EXCEPT !.x = x, !.y = y]
      /\ ~collides(board, held.minos, x, y)
      /\ UNCHANGED <<board, state, bagVars>>
  BY DEF Shift, CanMove
<1>4. held' = [minos |-> held.minos, x |-> x, y |-> y]
  BY <1>3 DEF IInv, TypeOK, Tetromino
<1>5. held.minos # {} => /\ y = held.y + dy
                         /\ y \in -9 .. BOARD_HEIGHT + PIECE_SIZE
  <2>1. CASE held.minos # {}
    <3>1. held.y \in -6 .. BOARD_HEIGHT - 1
      BY <2>1, NearBoard
    <3>2. held.y + dy \in -9 .. BOARD_HEIGHT + PIECE_SIZE
      BY <3>1, HalfProperties DEF PIECE_SIZE
    <3>. QED
      BY <3>2, NearInt8
  <2>. QED
    BY <2>1
<1>. HIDE DEF x, y
<1>6. held' \in Tetromino
  BY <1>1, <1>2, <1>4 DEF Tetromino
<1>7. Tested
  <2>1. ~collides(board, held'.minos, held'.x, held'.y)
    BY <1>3, <1>4
  <2>2. held'.minos # {} => held'.y \in -9 .. BOARD_HEIGHT + PIECE_SIZE
    BY <1>4, <1>5
  <2>. QED
    BY <1>3, <1>6, <2>1, <2>2, TestedPlace DEF Tested, IInv
<1>8. NeverClimbs'
  <2>1. SUFFICES ASSUME held.minos # {}
                 PROVE  \E i \in Piece : 2 * y + Lift(held.minos) >= Lift(PieceDefs[i])
    BY <1>4 DEF NeverClimbs
  <2>2. PICK i \in Piece : 2 * held.y + Lift(held.minos) >= Lift(PieceDefs[i])
    BY <2>1 DEF IInv, NeverClimbs
  <2>3. y = held.y + dy
    BY <1>5, <2>1
  <2>4. Lift(held.minos) \in Int /\ Lift(PieceDefs[i]) \in Int
    <3>1. PieceDefs[i] \in SUBSET Box /\ PieceDefs[i] # {}
      BY PlayfieldAssumption
    <3>2. Lift(PieceDefs[i]) \in -6 .. 6
      BY <3>1, ShiftProperties
    <3>3. Lift(held.minos) \in -6 .. 6
      BY <1>1, <2>1, ShiftProperties
    <3>. QED
      BY <3>2, <3>3
  <2>5. 2 * y + Lift(held.minos) >= Lift(PieceDefs[i])
    BY <1>1, <2>2, <2>3, <2>4
  <2>. QED
    BY <2>5
<1>. QED
  BY <1>7, <1>8

LEMMA RotateIsTested ==
  ASSUME IInv, NEW cw \in BOOLEAN, Rotate(cw)
  PROVE  Tested /\ NeverClimbs'
<1>. DEFINE rotated == compute_rotated(held.minos, cw)
            shift == RotationShift(held.minos, rotated)
            x == ToInt8(held.x + shift.x)
            y == ToInt8(held.y + shift.y)
<1>1. /\ held.minos \in SUBSET Box /\ held.minos # {}
      /\ held.x \in Int8 /\ held.x \in Int
  BY HalfProperties DEF IInv, TypeOK, Tetromino, Int8, Half, Rotate
<1>2. /\ shift.x \in -3 .. 3 /\ shift.y \in -3 .. 3
      /\ Lift(held.minos) \in -6 .. 6 /\ Lift(rotated) \in -6 .. 6
      /\ 2 * shift.y + Lift(rotated) = Lift(held.minos)
  BY <1>1, ShiftProperties
<1>3. held.y \in -6 .. BOARD_HEIGHT - 1
  BY <1>1, NearBoard
<1>4. /\ y = held.y + shift.y /\ y \in Int8
      /\ y \in -9 .. BOARD_HEIGHT + PIECE_SIZE
  <2>1. held.y + shift.y \in -9 .. BOARD_HEIGHT + PIECE_SIZE
    BY <1>2, <1>3, HalfProperties DEF PIECE_SIZE
  <2>. QED
    BY <2>1, NearInt8
<1>5. x \in Int8
  BY <1>1, <1>2, ToInt8Type
<1>6. rotated \in SUBSET Box
  BY <1>1, RotatedProperties
<1>7. /\ held' = [minos |-> rotated, x |-> x, y |-> y]
      /\ ~collides(board, rotated, x, y)
      /\ UNCHANGED <<board, state, bagVars>>
  BY DEF Rotate, Rotated
<1>. HIDE DEF rotated, shift, x, y
<1>8. held' \in Tetromino
  BY <1>4, <1>5, <1>6, <1>7 DEF Tetromino
<1>9. Tested
  <2>1. ~collides(board, held'.minos, held'.x, held'.y)
    BY <1>7
  <2>2. held'.y \in -9 .. BOARD_HEIGHT + PIECE_SIZE
    BY <1>4, <1>7
  <2>. QED
    BY <1>7, <1>8, <2>1, <2>2, TestedPlace DEF Tested, IInv
<1>10. NeverClimbs'
  <2>1. PICK i \in Piece : 2 * held.y + Lift(held.minos) >= Lift(PieceDefs[i])
    BY <1>1 DEF IInv, NeverClimbs
  <2>2. 2 * y + Lift(rotated) = 2 * held.y + Lift(held.minos)
    BY <1>2, <1>3, <1>4
  <2>. QED
    BY <1>7, <2>1, <2>2 DEF NeverClimbs
<1>. QED
  BY <1>9, <1>10

LEMMA DealIsDealt ==
  ASSUME TypeOK, NEW left \in {bag, <<>>}, NEW b \in Supply(left), DealFrom(b),
         held' = Spawned(b),
         board' \in [Row -> SUBSET Col], state' \in GameState
  PROVE  Dealt /\ NeverClimbs'
<1>1. /\ held' \in Tetromino /\ AtSpawn(held')
      /\ \A p \in held'.minos :
           held'.x + p[2] \in Col /\ held'.y + p[1] < BOARD_HEIGHT
  BY SpawnProperties
<1>2. /\ bag' \in Seq(Piece) /\ Len(bag') < NumPieces
      /\ next_piece_index' \in Piece /\ piece_index' \in Piece
  BY DealType
<1>3. NeverClimbs'
  <2>1. PICK i \in Piece : held'.minos = PieceDefs[i]
    BY <1>1 DEF AtSpawn
  <2>2. held'.y = 0
    BY <1>1 DEF AtSpawn
  <2>3. Lift(PieceDefs[i]) \in -6 .. 6
    <3>1. PieceDefs[i] \in SUBSET Box /\ PieceDefs[i] # {}
      BY PlayfieldAssumption
    <3>. QED
      BY <3>1, ShiftProperties
  <2>4. 2 * held'.y + Lift(held'.minos) >= Lift(PieceDefs[i])
    BY <2>1, <2>2, <2>3
  <2>. QED
    BY <2>4 DEF NeverClimbs
<1>. QED
  BY <1>1, <1>2, <1>3 DEF Dealt

LEMMA DropIsDealt ==
  ASSUME TypeOK, NEW h, drop_piece(h)
  PROVE  Dealt /\ NeverClimbs'
<1>1. PICK b \in Supply(bag) :
        /\ DealFrom(b)
        /\ board' = check_row(Lock(board, h))
        /\ held' = Spawned(b)
        /\ state' \in {STATE_GAME_OVER, state}
  BY DEF drop_piece
<1>2. board' \in [Row -> SUBSET Col]
  BY <1>1, LockType, CheckRowType DEF TypeOK
<1>3. state' \in GameState
  BY <1>1 DEF TypeOK, GameState
<1>4. bag \in {bag, <<>>}
  OBVIOUS
<1>. QED
  BY <1>1, <1>2, <1>3, <1>4, DealIsDealt

-----------------------------------------------------------------------------
(* The invariant. *)

(* Every step moves the piece to a place it has tested, puts a new piece   *)
(* at the top, or leaves board and piece as they are.                      *)
LEMMA StepKinds ==
  ASSUME IInv, Next
  PROVE  \/ Tested /\ NeverClimbs'
         \/ Dealt /\ NeverClimbs'
         \/ UNCHANGED <<board, held, bagVars>> /\ state' \in GameState
<1>1. TypeOK
  BY DEF IInv
<1>2. ASSUME MoveDown
      PROVE  (Tested \/ Dealt) /\ NeverClimbs'
  <2>1. CASE Shift(0, 1)
    BY <2>1, ShiftIsTested
  <2>2. CASE drop_piece(held)
    BY <1>1, <2>2, DropIsDealt
  <2>. QED
    BY <1>2, <2>1, <2>2 DEF MoveDown
<1>3. CASE \E cw \in BOOLEAN : Rotate(cw)
  BY <1>3, RotateIsTested
<1>4. CASE MoveLeft \/ MoveRight
  BY <1>4, ShiftIsTested DEF MoveLeft, MoveRight
<1>5. CASE PressSpace
  <2>1. CASE HardDrop
    <3>1. PICK h : drop_piece(h)
      BY <2>1 DEF HardDrop
    <3>. QED
      BY <1>1, <3>1, DropIsDealt
  <2>2. CASE StartGame
    <3>1. PICK b \in Supply(bag) : /\ DealFrom(b)
                                   /\ held' = Spawned(b)
                                   /\ state' = STATE_ACTIVE
                                   /\ board' = board
      BY <2>2 DEF StartGame
    <3>2. /\ board' \in [Row -> SUBSET Col] /\ state' \in GameState
          /\ bag \in {bag, <<>>}
      BY <1>1, <3>1 DEF TypeOK, GameState
    <3>. QED
      BY <1>1, <3>1, <3>2, DealIsDealt
  <2>. QED
    BY <1>5, <2>1, <2>2 DEF PressSpace
<1>6. CASE PressPause
  BY <1>1, <1>6 DEF PressPause, TypeOK, GameState
<1>7. CASE restart
  <2>1. PICK b \in Supply(<<>>) : /\ DealFrom(b)
                                  /\ held' = Spawned(b)
                                  /\ state' = STATE_START
                                  /\ board' = EmptyBoard
    BY <1>7 DEF restart
  <2>2. /\ board' \in [Row -> SUBSET Col] /\ state' \in GameState
        /\ <<>> \in {bag, <<>>}
    BY <2>1 DEF EmptyBoard, GameState
  <2>. QED
    BY <1>1, <2>1, <2>2, DealIsDealt
<1>8. CASE Gravity
  BY <1>2, <1>8 DEF Gravity
<1>. QED
  BY <1>2, <1>3, <1>4, <1>5, <1>6, <1>7, <1>8 DEF Next, handle_key

LEMMA InitIInv == Init => IInv
<1>. SUFFICES ASSUME Init  PROVE IInv
  OBVIOUS
<1>1. /\ EmptyBoard \in [Row -> SUBSET Col]
      /\ 0 \in Int8 /\ {} \in SUBSET Box
  <2>1. 0 \in Int8
    BY HalfProperties DEF Int8, Half, PIECE_SIZE
  <2>. QED
    BY <2>1 DEF EmptyBoard
<1>2. /\ NumPieces > 0 /\ NumPieces \in Nat /\ 0 \in Piece
      /\ <<>> \in Seq(Piece) /\ Len(<<>>) = 0
  BY NumPiecesAssumption DEF Piece
<1>3. held \in Tetromino /\ held.minos = {}
  BY <1>1 DEF Init, Tetromino
<1>4. TypeOK
  BY <1>1, <1>2, <1>3 DEF Init, BagInit, TypeOK, GameState
<1>. QED
  BY <1>3, <1>4 DEF IInv, HeldInside, NeverClimbs

LEMMA StepIInv == IInv /\ [Next]_vars => IInv'
<1>. SUFFICES ASSUME IInv, [Next]_vars  PROVE IInv'
  OBVIOUS
<1>1. CASE Tested /\ NeverClimbs'
  <2>1. TypeOK'
    BY <1>1 DEF Tested, IInv, TypeOK, bagVars
  <2>2. HeldInside'
    BY <1>1 DEF Tested, HeldInside
  <2>. QED
    BY <1>1, <2>1, <2>2 DEF IInv
<1>2. CASE Dealt /\ NeverClimbs'
  <2>1. TypeOK'
    BY <1>2 DEF Dealt, TypeOK
  <2>2. HeldInside'
    BY <1>2 DEF Dealt, HeldInside
  <2>. QED
    BY <1>2, <2>1, <2>2 DEF IInv
<1>3. CASE UNCHANGED <<board, held, bagVars>> /\ state' \in GameState
  BY <1>3 DEF IInv, TypeOK, HeldInside, NeverClimbs, bagVars
<1>4. CASE UNCHANGED vars
  BY <1>4 DEF vars, bagVars, IInv, TypeOK, HeldInside, NeverClimbs
<1>. QED
  BY <1>1, <1>2, <1>3, <1>4, StepKinds

LEMMA Invariance == Spec => []IInv
  BY InitIInv, StepIInv, PTL DEF Spec

-----------------------------------------------------------------------------
(* Every variable keeps its type.  Above all, the place of the box is an   *)
(* int8_t, by the conversions in the code.                                 *)
THEOREM TypeCorrect == Spec => []TypeOK
<1>1. IInv => TypeOK
  BY DEF IInv
<1>. QED
  BY <1>1, Invariance, PTL

(* Between the walls and above the floor: what move, rotate_piece, the     *)
(* drops and new_piece keep, on every board and with every set of pieces.  *)
THEOREM StaysInside == Spec => []HeldInside
<1>1. IInv => HeldInside
  BY DEF IInv
<1>. QED
  BY <1>1, Invariance, PTL

(* No sequence of keys makes a piece climb. *)
THEOREM NoClimbing == Spec => []NeverClimbs
<1>1. IInv => NeverClimbs
  BY DEF IInv
<1>. QED
  BY <1>1, Invariance, PTL

(* The held piece lies upon tiles only where it was dealt. *)
THEOREM NoOverlap == Spec => []OverlapOnlyAtSpawn
<1>1. Init => OverlapOnlyAtSpawn
  BY DEF Init, OverlapOnlyAtSpawn, Overlaps
<1>2. IInv /\ OverlapOnlyAtSpawn /\ [Next]_vars => OverlapOnlyAtSpawn'
  <2>. SUFFICES ASSUME IInv, OverlapOnlyAtSpawn, [Next]_vars
                PROVE  OverlapOnlyAtSpawn'
    OBVIOUS
  <2>1. CASE Tested
    <3>1. ~Overlaps'
      BY <2>1 DEF Tested, Overlaps
    <3>. QED
      BY <3>1 DEF OverlapOnlyAtSpawn
  <2>2. CASE Dealt
    BY <2>2 DEF Dealt, AtSpawn, OverlapOnlyAtSpawn
  <2>3. CASE UNCHANGED <<board, held, bagVars>>
    BY <2>3 DEF OverlapOnlyAtSpawn, Overlaps
  <2>4. CASE UNCHANGED vars
    BY <2>4 DEF vars, OverlapOnlyAtSpawn, Overlaps
  <2>. QED
    BY <2>1, <2>2, <2>3, <2>4, StepKinds
<1>. QED
  BY <1>1, <1>2, Invariance, PTL DEF Spec
-----------------------------------------------------------------------------
(* What a turn makes of a piece, in terms of the shift of the first one. *)
LEMMA TurnOf ==
  ASSUME NEW h \in Tetromino, h.minos # {}
  PROVE  /\ Rotated(h, TRUE) \in Tetromino /\ Rotated(h, FALSE) \in Tetromino
         /\ Rotated(h, TRUE).minos # {} /\ Rotated(h, FALSE).minos # {}
         /\ ShiftX(h.minos) \in -3 .. 3 /\ ShiftY(h.minos) \in -3 .. 3
         /\ Rotated(h, TRUE) = [minos |-> compute_rotated(h.minos, TRUE),
                                x |-> ToInt8(h.x + ShiftX(h.minos)),
                                y |-> ToInt8(h.y + ShiftY(h.minos))]
         /\ ShiftX(Rotated(h, TRUE).minos) = -ShiftY(h.minos)
         /\ ShiftY(Rotated(h, TRUE).minos) = ShiftX(h.minos)
         /\ Rotated(h, FALSE) = [minos |-> compute_rotated(h.minos, FALSE),
                                 x |-> ToInt8(h.x + (-ShiftY(h.minos))),
                                 y |-> ToInt8(h.y + ShiftX(h.minos))]
         /\ ShiftX(Rotated(h, FALSE).minos) = ShiftY(h.minos)
         /\ ShiftY(Rotated(h, FALSE).minos) = -ShiftX(h.minos)
<1>. DEFINE right == compute_rotated(h.minos, TRUE)
            left == compute_rotated(h.minos, FALSE)
            a == ShiftX(h.minos)
            b == ShiftY(h.minos)
<1>1. h.minos \in SUBSET Box /\ h.x \in Int8 /\ h.y \in Int8
  BY DEF Tetromino
<1>2. /\ right \in SUBSET Box /\ right # {} /\ left \in SUBSET Box /\ left # {}
  BY <1>1, RotatedProperties
<1>3. /\ a \in -3 .. 3 /\ b \in -3 .. 3
      /\ RotationShift(h.minos, right).x = a /\ RotationShift(h.minos, right).y = b
      /\ ShiftX(right) = -b /\ ShiftY(right) = a
      /\ RotationShift(h.minos, left).x = -b /\ RotationShift(h.minos, left).y = a
      /\ ShiftX(left) = b /\ ShiftY(left) = -a
  BY <1>1, ShiftsTurn
<1>4. /\ Rotated(h, TRUE) = [minos |-> right, x |-> ToInt8(h.x + a),
                             y |-> ToInt8(h.y + b)]
      /\ Rotated(h, FALSE) = [minos |-> left, x |-> ToInt8(h.x + (-b)),
                              y |-> ToInt8(h.y + a)]
  BY <1>3 DEF Rotated
<1>5. \A n \in Int8, s \in -3 .. 3 : ToInt8(n + s) \in Int8 /\ ToInt8(n + (-s)) \in Int8
  <2>1. \A n \in Int8 : n \in Int
    BY HalfProperties DEF Int8, Half
  <2>. QED
    BY <2>1, ToInt8Type
<1>6. /\ ToInt8(h.x + a) \in Int8 /\ ToInt8(h.y + b) \in Int8
      /\ ToInt8(h.x + (-b)) \in Int8 /\ ToInt8(h.y + a) \in Int8
  BY <1>1, <1>3, <1>5
<1>. HIDE DEF right, left, a, b
<1>7. /\ Rotated(h, TRUE) \in Tetromino /\ Rotated(h, FALSE) \in Tetromino
      /\ Rotated(h, TRUE).minos = right /\ Rotated(h, FALSE).minos = left
  <2>. DEFINE xr == ToInt8(h.x + a)
              yr == ToInt8(h.y + b)
              xl == ToInt8(h.x + (-b))
              yl == ToInt8(h.y + a)
  <2>1. /\ xr \in Int8 /\ yr \in Int8 /\ xl \in Int8 /\ yl \in Int8
        /\ Rotated(h, TRUE) = [minos |-> right, x |-> xr, y |-> yr]
        /\ Rotated(h, FALSE) = [minos |-> left, x |-> xl, y |-> yl]
    BY <1>4, <1>6
  <2>. HIDE DEF xr, yr, xl, yl
  <2>2. \A m \in SUBSET Box, u \in Int8, v \in Int8 :
          [minos |-> m, x |-> u, y |-> v] \in Tetromino
    BY DEF Tetromino
  <2>3. /\ [minos |-> right, x |-> xr, y |-> yr] \in Tetromino
        /\ [minos |-> left, x |-> xl, y |-> yl] \in Tetromino
    BY <1>2, <2>1, <2>2
  <2>4. Rotated(h, TRUE) \in Tetromino /\ Rotated(h, FALSE) \in Tetromino
    BY <2>1, <2>3, Zenon
  <2>5. \A R, m, u, v : R = [minos |-> m, x |-> u, y |-> v] => R.minos = m
    OBVIOUS
  <2>6. Rotated(h, TRUE).minos = right /\ Rotated(h, FALSE).minos = left
    BY <2>1, <2>5, Zenon
  <2>. QED
    BY <2>4, <2>6
<1>8. /\ a \in -3 .. 3 /\ b \in -3 .. 3
      /\ right # {} /\ left # {}
      /\ ShiftX(Rotated(h, TRUE).minos) = -b
      /\ ShiftY(Rotated(h, TRUE).minos) = a
      /\ ShiftX(Rotated(h, FALSE).minos) = b
      /\ ShiftY(Rotated(h, FALSE).minos) = -a
  BY <1>2, <1>3, <1>7
<1>. QED
  BY <1>4, <1>7, <1>8 DEF right, left, a, b

(* Turning back restores the piece: its minos, and its place in spite of   *)
(* the conversions to int8_t.                                              *)
LEMMA TurnAndBack ==
  ASSUME NEW h \in Tetromino, h.minos # {}
  PROVE  /\ Rotated(Rotated(h, TRUE), FALSE) = h
         /\ Rotated(Rotated(h, FALSE), TRUE) = h
<1>. DEFINE r == Rotated(h, TRUE)
            l == Rotated(h, FALSE)
            a == ShiftX(h.minos)
            b == ShiftY(h.minos)
<1>1. /\ h.minos \in SUBSET Box /\ h.x \in Int8 /\ h.y \in Int8
      /\ h = [minos |-> h.minos, x |-> h.x, y |-> h.y]
  BY DEF Tetromino
<1>2. /\ r \in Tetromino /\ r.minos # {} /\ l \in Tetromino /\ l.minos # {}
      /\ a \in -3 .. 3 /\ b \in -3 .. 3 /\ -a \in -3 .. 3 /\ -b \in -3 .. 3
      /\ r.minos = compute_rotated(h.minos, TRUE)
      /\ r.x = ToInt8(h.x + a) /\ r.y = ToInt8(h.y + b)
      /\ ShiftX(r.minos) = -b /\ ShiftY(r.minos) = a
      /\ l.minos = compute_rotated(h.minos, FALSE)
      /\ l.x = ToInt8(h.x + (-b)) /\ l.y = ToInt8(h.y + a)
      /\ ShiftX(l.minos) = b /\ ShiftY(l.minos) = -a
  <2>1. /\ r \in Tetromino /\ r.minos # {} /\ l \in Tetromino /\ l.minos # {}
        /\ a \in -3 .. 3 /\ b \in -3 .. 3
        /\ r = [minos |-> compute_rotated(h.minos, TRUE),
                x |-> ToInt8(h.x + a), y |-> ToInt8(h.y + b)]
        /\ ShiftX(r.minos) = -b /\ ShiftY(r.minos) = a
        /\ l = [minos |-> compute_rotated(h.minos, FALSE),
                x |-> ToInt8(h.x + (-b)), y |-> ToInt8(h.y + a)]
        /\ ShiftX(l.minos) = b /\ ShiftY(l.minos) = -a
    BY TurnOf
  <2>. HIDE DEF r, l, a, b
  <2>2. -a \in -3 .. 3 /\ -b \in -3 .. 3
    BY <2>1
  <2>. QED
    BY <2>1, <2>2
<1>. HIDE DEF r, l, a, b
<1>3. Rotated(r, FALSE) = [minos |-> compute_rotated(r.minos, FALSE),
                           x |-> ToInt8(r.x + (-a)), y |-> ToInt8(r.y + (-b))]
  BY <1>2, TurnOf
<1>4. Rotated(l, TRUE) = [minos |-> compute_rotated(l.minos, TRUE),
                          x |-> ToInt8(l.x + b), y |-> ToInt8(l.y + (-a))]
  BY <1>2, TurnOf
<1>5. /\ ToInt8(r.x + (-a)) = h.x /\ ToInt8(r.y + (-b)) = h.y
      /\ ToInt8(l.y + (-a)) = h.y
  BY <1>1, <1>2, TwoShifts
<1>6. ToInt8(l.x + b) = h.x
  <2>1. ToInt8(ToInt8(h.x + (-b)) + (-(-b))) = h.x
    BY <1>1, <1>2, TwoShifts
  <2>2. -(-b) = b
    BY <1>2
  <2>. QED
    BY <1>2, <2>1, <2>2
<1>7. /\ compute_rotated(r.minos, FALSE) = h.minos
      /\ compute_rotated(l.minos, TRUE) = h.minos
  BY <1>1, <1>2, OppositeTurns
<1>8. Rotated(r, FALSE) = h /\ Rotated(l, TRUE) = h
  BY <1>1, <1>3, <1>4, <1>5, <1>6, <1>7
<1>. QED
  BY <1>8 DEF r, l

LEMMA TurnsHome ==
  ASSUME NEW h \in Tetromino, h.minos # {}
  PROVE  Rotated(Rotated(Rotated(Rotated(h, TRUE), TRUE), TRUE), TRUE) = h
<1>. DEFINE h1 == Rotated(h, TRUE)
            h2 == Rotated(h1, TRUE)
            h3 == Rotated(h2, TRUE)
            h4 == Rotated(h3, TRUE)
            a == ShiftX(h.minos)
            b == ShiftY(h.minos)
<1>1. /\ h.minos \in SUBSET Box /\ h.x \in Int8 /\ h.y \in Int8
      /\ h = [minos |-> h.minos, x |-> h.x, y |-> h.y]
  BY DEF Tetromino
<1>2. /\ h1 \in Tetromino /\ h1.minos # {}
      /\ a \in -3 .. 3 /\ b \in -3 .. 3
      /\ h1.minos = compute_rotated(h.minos, TRUE)
      /\ h1.x = ToInt8(h.x + a) /\ h1.y = ToInt8(h.y + b)
      /\ ShiftX(h1.minos) = -b /\ ShiftY(h1.minos) = a
  <2>1. /\ h1 \in Tetromino /\ h1.minos # {}
        /\ a \in -3 .. 3 /\ b \in -3 .. 3
        /\ h1 = [minos |-> compute_rotated(h.minos, TRUE),
                 x |-> ToInt8(h.x + a), y |-> ToInt8(h.y + b)]
        /\ ShiftX(h1.minos) = -b /\ ShiftY(h1.minos) = a
    BY TurnOf
  <2>. HIDE DEF h1, a, b
  <2>. QED
    BY <2>1
<1>. HIDE DEF h1, a, b
<1>3. /\ h2 \in Tetromino /\ h2.minos # {}
      /\ h2.minos = compute_rotated(h1.minos, TRUE)
      /\ h2.x = ToInt8(h1.x + (-b)) /\ h2.y = ToInt8(h1.y + a)
      /\ ShiftX(h2.minos) = -a /\ ShiftY(h2.minos) = -b
  <2>1. /\ h2 \in Tetromino /\ h2.minos # {}
        /\ h2 = [minos |-> compute_rotated(h1.minos, TRUE),
                 x |-> ToInt8(h1.x + ShiftX(h1.minos)),
                 y |-> ToInt8(h1.y + ShiftY(h1.minos))]
        /\ ShiftX(h2.minos) = -ShiftY(h1.minos)
        /\ ShiftY(h2.minos) = ShiftX(h1.minos)
    BY <1>2, TurnOf
  <2>. HIDE DEF h2
  <2>. QED
    BY <1>2, <2>1
<1>. HIDE DEF h2
<1>4. /\ h3 \in Tetromino /\ h3.minos # {}
      /\ h3.minos = compute_rotated(h2.minos, TRUE)
      /\ h3.x = ToInt8(h2.x + (-a)) /\ h3.y = ToInt8(h2.y + (-b))
      /\ ShiftX(h3.minos) = -(-b) /\ ShiftY(h3.minos) = -a
  <2>1. /\ h3 \in Tetromino /\ h3.minos # {}
        /\ h3 = [minos |-> compute_rotated(h2.minos, TRUE),
                 x |-> ToInt8(h2.x + ShiftX(h2.minos)),
                 y |-> ToInt8(h2.y + ShiftY(h2.minos))]
        /\ ShiftX(h3.minos) = -ShiftY(h2.minos)
        /\ ShiftY(h3.minos) = ShiftX(h2.minos)
    BY <1>3, TurnOf
  <2>. HIDE DEF h3
  <2>. QED
    BY <1>3, <2>1
<1>. HIDE DEF h3
<1>5. h4 = [minos |-> compute_rotated(h3.minos, TRUE),
            x |-> ToInt8(h3.x + (-(-b))), y |-> ToInt8(h3.y + (-a))]
  BY <1>4, TurnOf
<1>6. ToInt8(h3.x + (-(-b))) = h.x
  <2>1. -b \in -3 .. 3
    BY <1>2
  <2>2. ToInt8(ToInt8(ToInt8(ToInt8(h.x + a) + (-b)) + (-a)) + (-(-b))) = h.x
    BY <1>1, <1>2, <2>1, FourShifts
  <2>. QED
    BY <1>2, <1>3, <1>4, <2>2
<1>7. ToInt8(h3.y + (-a)) = h.y
  <2>1. ToInt8(ToInt8(ToInt8(ToInt8(h.y + b) + a) + (-b)) + (-a)) = h.y
    BY <1>1, <1>2, FourShifts
  <2>. QED
    BY <1>2, <1>3, <1>4, <2>1
<1>8. compute_rotated(h3.minos, TRUE) = h.minos
  BY <1>1, <1>2, <1>3, <1>4, FourTurns
<1>9. h4 = h
  BY <1>1, <1>5, <1>6, <1>7, <1>8
<1>. QED
  BY <1>9 DEF h1, h2, h3

(* Turns of rotate_piece are exact: each is undone by the opposite one,    *)
(* and four of them bring a piece home, for every shape and every width of *)
(* the integers, so that no turning about makes a piece creep.             *)
THEOREM TurnsExact == Spec => []RotationExact
<1>1. IInv => RotationExact
  <2>. SUFFICES ASSUME IInv, held.minos # {}  PROVE RotationExact
    BY DEF RotationExact
  <2>1. held \in Tetromino
    BY DEF IInv, TypeOK
  <2>2. /\ Rotated(Rotated(held, TRUE), FALSE) = held
        /\ Rotated(Rotated(held, FALSE), TRUE) = held
        /\ Rotated(Rotated(Rotated(Rotated(held, TRUE), TRUE), TRUE), TRUE)
             = held
    BY <2>1, TurnAndBack, TurnsHome
  <2>. QED
    BY <2>2 DEF RotationExact
<1>. QED
  BY <1>1, Invariance, PTL

-----------------------------------------------------------------------------
(* The stack: no row with tiles is above an empty one, because pieces hang *)
(* together and are locked where they lie on something.                    *)

Stack == Compact(held.minos) /\ NoGap

LEMMA NoGapIsGapFree == NoGap <=> GapFree(board)
  BY DEF NoGap, GapFree

(* The place of the held piece, as the collision test sees it. *)
LEMMA HeldPlace ==
  ASSUME IInv, held.minos # {}
  PROVE  /\ held \in Tetromino /\ held.minos \in SUBSET Box
         /\ held.x \in Int8 /\ ToInt8(held.x + 0) = held.x
         /\ held.y \in -6 .. BOARD_HEIGHT - 1 /\ held.y \in Int
         /\ BOARD_HEIGHT \in Nat
         /\ \A p \in held.minos :
              p \in Box /\ p[1] \in 0 .. 3 /\ held.y + p[1] < BOARD_HEIGHT
<1>1. /\ held \in Tetromino /\ held.minos \in SUBSET Box /\ held.x \in Int8
      /\ \A p \in held.minos : held.y + p[1] < BOARD_HEIGHT
  BY DEF IInv, TypeOK, Tetromino, HeldInside
<1>2. ToInt8(held.x + 0) = held.x
  <2>1. held.x + 0 = held.x
    BY <1>1, HalfProperties DEF Int8, Half
  <2>. QED
    BY <1>1, <2>1, ToInt8Id
<1>3. held.y \in -6 .. BOARD_HEIGHT - 1
  BY NearBoard
<1>4. BOARD_HEIGHT \in Nat /\ held.y \in Int
  BY <1>3, HalfProperties
<1>5. \A p \in held.minos : p \in Box /\ p[1] \in 0 .. 3
  BY <1>1 DEF Box, PIECE_SIZE
<1>. QED
  BY <1>1, <1>2, <1>3, <1>4, <1>5

(* A piece dropped as h has fallen d rows, as far as it can, and lies on   *)
(* something, inside the board and off its tiles.                          *)
DroppedAs(h, d) ==
  /\ Drops(d) /\ drop_piece(h)
  /\ h \in Tetromino /\ h.minos = held.minos /\ h.x = held.x
  /\ h.y = held.y + d /\ h.y \in -9 .. BOARD_HEIGHT - 1
  /\ \A p \in h.minos :
       /\ h.x + p[2] \in Col /\ h.y + p[1] < BOARD_HEIGHT
       /\ (~Overlaps /\ h.y + p[1] \in Row)
            => h.x + p[2] \notin board[h.y + p[1]]
  /\ collides(board, h.minos, h.x, h.y + 1)

LEMMA MoveDownDrops ==
  ASSUME IInv, ~CanMove(0, 1), drop_piece(held)
  PROVE  DroppedAs(held, 0)
<1>1. collides(board, held.minos, ToInt8(held.x + 0), ToInt8(held.y + 1))
  BY DEF CanMove
<1>2. held.minos # {}
  BY <1>1 DEF collides
<1>3. /\ held.y + 1 \in -9 .. BOARD_HEIGHT + PIECE_SIZE
      /\ held.y \in -9 .. BOARD_HEIGHT - 1 /\ held.y = held.y + 0
  BY <1>2, HeldPlace DEF PIECE_SIZE
<1>4. ToInt8(held.y + 1) = held.y + 1
  BY <1>3, NearInt8
<1>5. collides(board, held.minos, held.x, held.y + 1)
  BY <1>1, <1>2, <1>4, HeldPlace
<1>6. Drops(0)
  <2>1. 1 .. 0 = {} /\ 0 + 1 = 1
    OBVIOUS
  <2>. QED
    BY <2>1 DEF Drops
<1>7. \A p \in held.minos :
        /\ held.x + p[2] \in Col /\ held.y + p[1] < BOARD_HEIGHT
        /\ (~Overlaps /\ held.y + p[1] \in Row)
             => held.x + p[2] \notin board[held.y + p[1]]
  BY DEF IInv, HeldInside, Overlaps
<1>. QED
  BY <1>2, <1>3, <1>5, <1>6, <1>7, HeldPlace DEF DroppedAs

(* A hard drop ends where the piece lies on something, above the floor. *)
LEMMA HardDropDrops ==
  ASSUME IInv, HardDrop
  PROVE  \E d \in 0 .. BOARD_HEIGHT + PIECE_SIZE : \E h : DroppedAs(h, d)
<1>1. PICK d \in 0 .. BOARD_HEIGHT + PIECE_SIZE :
        /\ \A k \in 1 .. d : CanMove(0, k)
        /\ ~CanMove(0, d + 1)
        /\ drop_piece([held EXCEPT !.y = ToInt8(held.y + d)])
  BY DEF HardDrop
<1>2. collides(board, held.minos, ToInt8(held.x + 0), ToInt8(held.y + (d + 1)))
  BY <1>1 DEF CanMove
<1>3. held.minos # {}
  BY <1>2 DEF collides
<1>4. /\ held \in Tetromino /\ held.minos \in SUBSET Box
      /\ held.x \in Int8 /\ ToInt8(held.x + 0) = held.x
      /\ held.y \in -6 .. BOARD_HEIGHT - 1 /\ held.y \in Int
      /\ BOARD_HEIGHT \in Nat /\ d \in Nat
      /\ \A p \in held.minos :
           p \in Box /\ p[1] \in 0 .. 3 /\ held.y + p[1] < BOARD_HEIGHT
  <2>1. d \in Nat
    BY <1>1
  <2>. QED
    BY <1>3, <2>1, HeldPlace
<1>5. ASSUME NEW p \in held.minos  PROVE held.y + d + p[1] < BOARD_HEIGHT
  <2>. SUFFICES ASSUME held.y + d + p[1] >= BOARD_HEIGHT  PROVE FALSE
    BY <1>4
  <2>. DEFINE k == BOARD_HEIGHT - held.y - p[1]
  <2>1. k \in 1 .. d /\ held.y + k = BOARD_HEIGHT - p[1]
    BY <1>4
  <2>2. BOARD_HEIGHT - p[1] \in -9 .. BOARD_HEIGHT + PIECE_SIZE
    BY <1>4 DEF PIECE_SIZE
  <2>. HIDE DEF k
  <2>3. ToInt8(held.y + k) = BOARD_HEIGHT - p[1]
    BY <2>1, <2>2, NearInt8
  <2>4. AbsY(p, BOARD_HEIGHT - p[1]) = BOARD_HEIGHT
    <3>1. BOARD_HEIGHT - p[1] \in -Half .. BOARD_HEIGHT + PIECE_SIZE
      BY <2>2, NearInt8
    <3>2. AbsY(p, BOARD_HEIGHT - p[1]) = BOARD_HEIGHT - p[1] + p[1]
      BY <1>4, <3>1, AbsYInside
    <3>. QED
      BY <1>4, <3>2
  <2>5. ~collides(board, held.minos, ToInt8(held.x + 0), BOARD_HEIGHT - p[1])
    BY <1>1, <2>1, <2>3 DEF CanMove
  <2>. QED
    BY <1>4, <2>4, <2>5 DEF collides
<1>6. /\ held.y + d \in -9 .. BOARD_HEIGHT - 1
      /\ held.y + d \in -9 .. BOARD_HEIGHT + PIECE_SIZE
      /\ held.y + (d + 1) \in -9 .. BOARD_HEIGHT + PIECE_SIZE
  <2>1. PICK p \in held.minos : TRUE
    BY <1>3
  <2>. QED
    BY <1>4, <1>5, <2>1 DEF PIECE_SIZE
<1>7. /\ ToInt8(held.y + d) = held.y + d /\ held.y + d \in Int8
      /\ held.y + d \in -Half .. BOARD_HEIGHT + PIECE_SIZE
      /\ ToInt8(held.y + (d + 1)) = held.y + (d + 1)
  BY <1>6, NearInt8
<1>. DEFINE h == [held EXCEPT !.y = ToInt8(held.y + d)]
<1>8. /\ h \in Tetromino /\ h.minos = held.minos /\ h.x = held.x
      /\ h.y = held.y + d
  <2>. DEFINE y == held.y + d
  <2>1. h = [held EXCEPT !.y = y] /\ y \in Int8
    BY <1>7
  <2>. HIDE DEF y, h
  <2>2. h \in Tetromino /\ h.minos = held.minos /\ h.x = held.x /\ h.y = y
    BY <1>4, <2>1 DEF Tetromino
  <2>. QED
    BY <2>2 DEF y
<1>9. drop_piece(h)
  BY <1>1 DEF h
<1>. HIDE DEF h
<1>10. collides(board, h.minos, h.x, h.y + 1)
  <2>1. held.y + (d + 1) = h.y + 1
    BY <1>4, <1>8
  <2>. QED
    BY <1>2, <1>4, <1>7, <1>8, <2>1
<1>11. ASSUME NEW p \in h.minos
       PROVE  /\ h.x + p[2] \in Col /\ h.y + p[1] < BOARD_HEIGHT
              /\ (~Overlaps /\ h.y + p[1] \in Row)
                   => h.x + p[2] \notin board[h.y + p[1]]
  <2>1. h.x + p[2] \in Col /\ h.y + p[1] < BOARD_HEIGHT
    BY <1>5, <1>8 DEF IInv, HeldInside
  <2>2. CASE d = 0
    <3>1. h.y = held.y
      BY <1>4, <1>8, <2>2
    <3>. QED
      BY <1>8, <2>1, <3>1 DEF Overlaps
  <2>3. CASE d # 0
    <3>1. d \in 1 .. d
      BY <1>4, <2>3
    <3>2. ~collides(board, h.minos, h.x, h.y)
      BY <1>1, <1>4, <1>7, <1>8, <3>1 DEF CanMove
    <3>3. /\ board \in [Row -> SUBSET Col] /\ h.minos \in SUBSET Box
          /\ h.x \in Int8 /\ h.y \in -Half .. BOARD_HEIGHT + PIECE_SIZE
      BY <1>4, <1>7, <1>8 DEF IInv, TypeOK
    <3>. QED
      BY <2>1, <3>2, <3>3, NotCollides
  <2>. QED
    BY <2>2, <2>3
<1>12. DroppedAs(h, d)
  BY <1>1, <1>6, <1>8, <1>9, <1>10, <1>11 DEF DroppedAs, Drops
<1>. QED
  BY <1>12

(* Locking a piece and sweeping keeps the rows together, and leaves none   *)
(* that is full.                                                           *)
LEMMA DropKeepsStack ==
  ASSUME IInv, Stack, NEW h, NEW d, DroppedAs(h, d)
  PROVE  NoGap' /\ NoFullRow'
<1>. DEFINE locked == Lock(board, h)
<1>1. /\ board \in [Row -> SUBSET Col] /\ GapFree(board) /\ Compact(h.minos)
      /\ h.minos \in SUBSET Box /\ h.x \in Int8
      /\ h.y \in -9 .. BOARD_HEIGHT - 1
      /\ \A p \in h.minos : h.x + p[2] \in Col /\ h.y + p[1] < BOARD_HEIGHT
      /\ collides(board, h.minos, h.x, h.y + 1)
  BY NoGapIsGapFree DEF IInv, TypeOK, Stack, Tetromino, DroppedAs
<1>2. locked \in [Row -> SUBSET Col] /\ GapFree(locked)
  BY <1>1, LockType, LockGapFree
<1>3. board' = check_row(locked)
  BY DEF DroppedAs, drop_piece
<1>. HIDE DEF locked
<1>4. GapFree(board')
  BY <1>2, <1>3, SweptGapFree
<1>5. \A r \in Row : board'[r] # Col
  BY <1>2, <1>3, SweptNotFull
<1>. QED
  BY <1>4, <1>5 DEF NoGap, GapFree, NoFullRow

(* What a drop does to the number of tiles. *)
TilesAdded ==
  \E d \in 0 .. BOARD_HEIGHT + PIECE_SIZE :
    /\ Drops(d)
    /\ LET landed == {p \in held.minos : held.y + d + p[1] >= 0}
       IN Tiles(board) + Cardinality(landed) - Tiles(board')
            \in {k * BOARD_WIDTH : k \in 0 .. PIECE_SIZE}

LEMMA TilesIsCells == \A b : Tiles(b) = Cardinality(TileCells(b))
  BY DEF Tiles, TileCells

LEMMA DropCounts ==
  ASSUME IInv, NoFullRow, ~Overlaps,
         NEW d \in 0 .. BOARD_HEIGHT + PIECE_SIZE, NEW h, DroppedAs(h, d)
  PROVE  TilesAdded
<1>. DEFINE locked == Lock(board, h)
            landed == {p \in h.minos : h.y + p[1] >= 0}
            full == Cardinality(FullRows(locked))
<1>1. /\ board \in [Row -> SUBSET Col] /\ \A r \in Row : board[r] # Col
      /\ h.minos \in SUBSET Box /\ h.x \in Int8
      /\ \A p \in h.minos : /\ h.x + p[2] \in Col /\ h.y + p[1] < BOARD_HEIGHT
                            /\ h.y + p[1] \in Row =>
                                 h.x + p[2] \notin board[h.y + p[1]]
      /\ board' = check_row(locked) /\ Drops(d)
  BY DEF IInv, TypeOK, NoFullRow, DroppedAs, Tetromino, drop_piece
<1>2. h.y \in -Half .. BOARD_HEIGHT + PIECE_SIZE
  <2>1. h.y \in -9 .. BOARD_HEIGHT - 1
    BY DEF DroppedAs
  <2>. QED
    BY <2>1, HalfProperties DEF PIECE_SIZE
<1>3. landed = {p \in held.minos : held.y + d + p[1] >= 0}
  BY DEF DroppedAs
<1>4. Cardinality(TileCells(locked)) = Cardinality(TileCells(board)) + Cardinality(landed)
  BY <1>1, <1>2, LockAdds
<1>5. locked \in [Row -> SUBSET Col]
  BY <1>1, LockType
<1>6. full \in 0 .. PIECE_SIZE
  BY <1>1, <1>2, FewFill
<1>. HIDE DEF locked
<1>7. Cardinality(TileCells(locked))
        = Cardinality(TileCells(board')) + full * BOARD_WIDTH
  BY <1>1, <1>5, SweepRemoves
<1>8. /\ Cardinality(TileCells(board)) \in Nat /\ Cardinality(TileCells(board')) \in Nat
      /\ Cardinality(landed) \in Nat /\ BOARD_WIDTH \in Nat
  <2>1. TileCells(board) \in SUBSET (Row \X Col) /\ TileCells(board') \in SUBSET (Row \X Col)
    BY DEF TileCells
  <2>. QED
    BY <1>1, <2>1, CellsFinite, MinosFinite, HalfProperties
<1>9. full * BOARD_WIDTH \in Nat
  BY <1>6, <1>8 DEF PIECE_SIZE
<1>. HIDE DEF landed, full
<1>10. Tiles(board) + Cardinality(landed) - Tiles(board') = full * BOARD_WIDTH
  BY <1>4, <1>7, <1>8, <1>9, TilesIsCells
<1>. QED
  BY <1>1, <1>3, <1>6, <1>10 DEF TilesAdded

(* Every step keeps the board, clears it, or locks a piece that lies on    *)
(* something.                                                              *)
LEMMA StepBoard ==
  ASSUME IInv, Next
  PROVE  \/ board' = board \/ board' = EmptyBoard
         \/ \E d \in 0 .. BOARD_HEIGHT + PIECE_SIZE : \E h : DroppedAs(h, d)
<1>1. ASSUME MoveDown
      PROVE  \/ board' = board
             \/ \E d \in 0 .. BOARD_HEIGHT + PIECE_SIZE : \E h : DroppedAs(h, d)
  <2>1. CASE Shift(0, 1)
    BY <2>1 DEF Shift
  <2>2. CASE ~CanMove(0, 1) /\ drop_piece(held)
    <3>1. 0 \in 0 .. BOARD_HEIGHT + PIECE_SIZE
      BY HalfProperties DEF PIECE_SIZE
    <3>. QED
      BY <2>2, <3>1, MoveDownDrops
  <2>. QED
    BY <1>1, <2>1, <2>2 DEF MoveDown
<1>2. CASE MoveLeft \/ MoveRight
  BY <1>2 DEF MoveLeft, MoveRight, Shift
<1>3. CASE Rotate(TRUE) \/ Rotate(FALSE)
  BY <1>3 DEF Rotate
<1>4. CASE PressSpace
  BY <1>4, HardDropDrops DEF PressSpace, StartGame
<1>5. CASE PressPause
  BY <1>5 DEF PressPause
<1>6. CASE restart
  BY <1>6 DEF restart
<1>7. CASE Gravity
  BY <1>1, <1>7 DEF Gravity
<1>. QED
  BY <1>1, <1>2, <1>3, <1>4, <1>5, <1>6, <1>7 DEF Next, handle_key

(* The held piece hangs together, however it was turned. *)
LEMMA DealtCompact ==
  ASSUME TypeOK, NEW left \in {bag, <<>>}, NEW b \in Supply(left)
  PROVE  Compact(Spawned(b).minos)
<1>1. b[Len(b)] \in Piece
  BY SupplyProperties
<1>. QED
  BY <1>1, CompactAssumption DEF Spawned

LEMMA DropCompact ==
  ASSUME TypeOK, NEW h, drop_piece(h)
  PROVE  Compact(held'.minos)
<1>1. PICK b \in Supply(bag) : held' = Spawned(b)
  BY DEF drop_piece
<1>. QED
  BY <1>1, DealtCompact

LEMMA ShiftCompact ==
  ASSUME Compact(held.minos), TypeOK, NEW dx, NEW dy, Shift(dx, dy)
  PROVE  Compact(held'.minos)
<1>1. held'.minos = held.minos
  BY DEF Shift, TypeOK, Tetromino
<1>. QED
  BY <1>1

LEMMA StepCompact ==
  ASSUME IInv, Compact(held.minos), Next
  PROVE  Compact(held'.minos)
<1>1. TypeOK
  BY DEF IInv
<1>2. ASSUME MoveDown  PROVE Compact(held'.minos)
  BY <1>1, <1>2, ShiftCompact, DropCompact DEF MoveDown
<1>3. CASE MoveLeft \/ MoveRight
  BY <1>1, <1>3, ShiftCompact DEF MoveLeft, MoveRight
<1>4. ASSUME NEW cw \in BOOLEAN, Rotate(cw)  PROVE Compact(held'.minos)
  <2>1. held'.minos = compute_rotated(held.minos, cw)
    BY <1>4 DEF Rotate, Rotated
  <2>2. held.minos \in SUBSET Box
    BY <1>1 DEF TypeOK, Tetromino
  <2>. QED
    BY <2>1, <2>2, RotatedCompact
<1>5. CASE PressSpace
  <2>1. CASE HardDrop
    <3>1. PICK h : drop_piece(h)
      BY <2>1 DEF HardDrop
    <3>. QED
      BY <1>1, <3>1, DropCompact
  <2>2. CASE StartGame
    BY <1>1, <2>2, DealtCompact DEF StartGame
  <2>. QED
    BY <1>5, <2>1, <2>2 DEF PressSpace
<1>6. CASE PressPause
  BY <1>6 DEF PressPause
<1>7. CASE restart
  BY <1>1, <1>7, DealtCompact DEF restart
<1>8. CASE Gravity
  BY <1>2, <1>8 DEF Gravity
<1>. QED
  BY <1>2, <1>3, <1>4, <1>5, <1>6, <1>7, <1>8 DEF Next, handle_key

LEMMA StackStep == IInv /\ Stack /\ NoFullRow /\ [Next]_vars => Stack' /\ NoFullRow'
<1>. SUFFICES ASSUME IInv, Stack, NoFullRow, [Next]_vars
              PROVE  Stack' /\ NoFullRow'
  OBVIOUS
<1>1. CASE Next
  <2>1. Compact(held'.minos)
    BY <1>1, StepCompact DEF Stack
  <2>2. NoGap' /\ NoFullRow'
    <3>1. CASE board' = board
      BY <3>1 DEF Stack, NoGap, NoFullRow
    <3>2. CASE board' = EmptyBoard
      <4>1. Col # {}
        <5>1. 0 \in Col
          BY HalfProperties DEF Col
        <5>. QED
          BY <5>1
      <4>2. \A r \in Row : board'[r] = {}
        BY <3>2 DEF EmptyBoard
      <4>3. \A r \in Row : \A q \in 0 .. r : q \in Row
        BY HalfProperties DEF Row
      <4>. QED
        BY <4>1, <4>2, <4>3 DEF NoGap, NoFullRow
    <3>. QED
      BY <1>1, <3>1, <3>2, StepBoard, DropKeepsStack
  <2>. QED
    BY <2>1, <2>2 DEF Stack
<1>2. CASE UNCHANGED vars
  BY <1>2 DEF vars, Stack, NoGap, NoFullRow
<1>. QED
  BY <1>1, <1>2

LEMMA StackInvariance == Spec => [](Stack /\ NoFullRow)
<1>1. Init => Stack /\ NoFullRow
  <2>. SUFFICES ASSUME Init  PROVE Stack /\ NoFullRow
    OBVIOUS
  <2>1. held.minos = {} /\ board = EmptyBoard
    BY DEF Init
  <2>2. Compact(held.minos)
    BY <2>1 DEF Compact
  <2>3. 0 \in Col /\ \A r \in Row : \A q \in 0 .. r : q \in Row
    BY HalfProperties DEF Row, Col
  <2>4. \A r \in Row : board[r] = {}
    BY <2>1 DEF EmptyBoard
  <2>5. NoGap
    BY <2>3, <2>4 DEF NoGap
  <2>6. NoFullRow
    BY <2>3, <2>4 DEF NoFullRow
  <2>. QED
    BY <2>2, <2>5, <2>6 DEF Stack
<1>. QED
  BY <1>1, StackStep, Invariance, PTL DEF Spec

(* In whatever game state pieces are dropped, check_row leaves no row with *)
(* tiles above an empty one, on every board, with every set of pieces that *)
(* hang together.                                                          *)
THEOREM NoGaps == Spec => []NoGap
<1>1. Stack => NoGap
  BY DEF Stack
<1>. QED
  BY <1>1, StackInvariance, PTL

(* Between two handlers no full row is left: because there are no gaps,    *)
(* check_row comes past all of them before it stops at an empty row.       *)
THEOREM NoneFull == Spec => []NoFullRow
  BY StackInvariance, PTL

(* Every drop adds the minos that land on the board and takes away whole   *)
(* rows, at most as many as a box has: Lock and check_row lose, repeat and *)
(* split nothing, on every board and with every set of pieces.             *)
THEOREM TilesAccounted == Spec => TilesConserved
<1>1. IInv /\ Stack /\ NoFullRow /\ [Next]_vars =>
        ((board' # board /\ board' # EmptyBoard /\ ~Overlaps) => TilesAdded)
  <2>. SUFFICES ASSUME IInv, NoFullRow, [Next]_vars, board' # board,
                       board' # EmptyBoard, ~Overlaps
                PROVE  TilesAdded
    OBVIOUS
  <2>1. Next
    BY DEF vars
  <2>. QED
    BY <2>1, StepBoard, DropCounts
<1>. QED
  BY <1>1, Invariance, StackInvariance, PTL DEF Spec, TilesConserved, TilesAdded

-----------------------------------------------------------------------------
(* What a frame paints.  Placed gives the layout as linear bounds, from    *)
(* which every part of a frame follows.                                    *)

Across(l) == l.block_size * BOARD_WIDTH
Down(l) == l.block_size * BOARD_HEIGHT

Placed(l) ==
  /\ l.mode.width \in Nat /\ l.mode.width <= 32768
  /\ l.mode.height \in Nat /\ l.mode.height <= 32768
  /\ UiHeight(l.mode) \in Nat
  /\ UiHeight(l.mode) >= 480 /\ UiHeight(l.mode) <= 32768
  /\ l.screen = Rect(0, 0, l.mode.width, l.mode.height)
  /\ l.block_size \in Nat /\ l.block_size = Scaled(l.mode, 15)
  /\ 32 * l.block_size <= UiHeight(l.mode)
  /\ UiHeight(l.mode) < 32 * l.block_size + 32
  /\ Across(l) \in 4 * l.block_size .. 10 * l.block_size
  /\ Down(l) \in 4 * l.block_size .. 20 * l.block_size
  /\ l.border_width = l.block_size /\ l.border_blocks = 1
  /\ l.line_height \in Nat
  /\ 30 * l.line_height <= UiHeight(l.mode)
  /\ UiHeight(l.mode) < 30 * l.line_height + 30
  /\ l.playfield_x = l.mode.width \div 2 - Across(l) \div 2
  /\ l.playfield_y = l.mode.height \div 2 - Down(l) \div 2
  /\ Scaled(l.mode, 20) \in Nat
  /\ 24 * Scaled(l.mode, 20) <= UiHeight(l.mode)
  /\ UiHeight(l.mode) < 24 * Scaled(l.mode, 20) + 24
  /\ l.info_x = l.playfield_x + Across(l) + l.block_size + Scaled(l.mode, 20)

LEMMA ProductBetween ==
  ASSUME NEW s \in Nat, NEW n \in Nat, NEW a \in Nat, NEW b \in Nat,
         a <= n, n <= b
  PROVE  s * n \in s * a .. s * b
<1>1. s * (n - a) >= 0 /\ s * (b - n) >= 0
  OBVIOUS
<1>2. s * (n - a) = s * n - s * a /\ s * (b - n) = s * b - s * n
  OBVIOUS
<1>. QED
  BY <1>1, <1>2

LEMMA LayoutPlaced ==
  ASSUME NEW fb \in Framebuffers
  PROVE  Placed(init(fb)) /\ init(fb).mode = fb
<1>. DEFINE h == fb.height
            w == fb.width
            ui == UiHeight(fb)
            size == Scaled(fb, 15)
            gap == Scaled(fb, 20)
            across == size * BOARD_WIDTH
            down == size * BOARD_HEIGHT
            left == w \div 2 - across \div 2
            l == init(fb)
<1>1. /\ w \in Nat /\ w <= 32768 /\ h \in Nat /\ h <= 32768
      /\ ui \in Nat /\ ui >= 480 /\ ui <= 32768
  BY ScreenAssumption DEF UiHeight
<1>2. /\ size \in Nat /\ 32 * size <= ui /\ ui < 32 * size + 32
      /\ gap \in Nat /\ 24 * gap <= ui /\ ui < 24 * gap + 24
      /\ Scaled(fb, 16) \in Nat /\ 30 * Scaled(fb, 16) <= ui
      /\ ui < 30 * Scaled(fb, 16) + 30
  <2>. HIDE DEF ui
  <2>1. \A n \in {15, 16, 20} : Scaled(fb, n) = (n * ui) \div 480
    BY DEF Scaled, ui
  <2>. QED
    BY <1>1, <2>1
<1>3. across \in 4 * size .. 10 * size /\ down \in 4 * size .. 20 * size
  <2>1. /\ BOARD_WIDTH \in Nat /\ BOARD_HEIGHT \in Nat
        /\ 4 <= BOARD_WIDTH /\ BOARD_WIDTH <= 10
        /\ 4 <= BOARD_HEIGHT /\ BOARD_HEIGHT <= 20
    BY HalfProperties, LayoutAssumption
  <2>. HIDE DEF size
  <2>2. /\ size * BOARD_WIDTH \in size * 4 .. size * 10
        /\ size * BOARD_HEIGHT \in size * 4 .. size * 20
    BY <1>2, <2>1, ProductBetween
  <2>. QED
    BY <1>2, <2>2
<1>4. (size + size - 1) \div size = 1
  <2>1. \A n \in Nat : n > 0 => (n + n - 1) \div n = 1
    OBVIOUS
  <2>. HIDE DEF size
  <2>2. size > 0
    BY <1>1, <1>2
  <2>. QED
    BY <1>2, <2>1, <2>2
<1>5. /\ l.mode = fb /\ l.screen = Rect(0, 0, w, h)
      /\ l.block_size = size /\ l.border_width = size
      /\ l.line_height = Scaled(fb, 16)
      /\ l.border_blocks = (size + size - 1) \div size
      /\ l.playfield_x = left
      /\ l.playfield_y = h \div 2 - down \div 2
      /\ l.info_x = left + across + size + gap
  BY DEF init, Whole
<1>. HIDE DEF l, size, gap, h, w, ui, across, down, left
<1>6. Across(l) = across /\ Down(l) = down
  BY <1>5 DEF Across, Down, across, down
<1>7. Placed(l)
  BY <1>1, <1>2, <1>3, <1>4, <1>5, <1>6 DEF Placed, h, w, ui, size, gap, left
<1>. QED
  BY <1>5, <1>7 DEF l

(* On the screen, and not below the border of a board of full height. *)
OnScreen(r, l) ==
  /\ r.x \in Int /\ r.y \in Int /\ r.w \in Int /\ r.h \in Int
  /\ 0 <= r.x /\ r.x + r.w <= l.mode.width
  /\ 0 <= r.y /\ r.y + r.h <= l.mode.height \div 2 + 11 * l.block_size

(* A pixel is stored when the line below it would still be. *)
LEMMA LastPixel ==
  ASSUME NEW p \in Nat, NEW b \in {3, 4}, NEW w \in Nat \ {0}, p >= w * b,
         NEW x \in Int, NEW y \in Int, NEW k \in Int, x < w, y < k
  PROVE  p * y + x * b + 4 <= p * (k + 1)
<1>1. p * (k - 1 - y) >= 0 /\ p * (k - 1 - y) = p * k - p - p * y
  OBVIOUS
<1>2. p * k \in Int /\ p * y \in Int /\ p * (k + 1) = p * k + p
  OBVIOUS
<1>3. x * b \in Int /\ x * b + b <= w * b /\ w * b \in Int /\ w * b >= b
  OBVIOUS
<1>. QED
  BY <1>1, <1>2, <1>3

LEMMA PixelStored ==
  ASSUME NEW fb \in Framebuffers, Playable(fb), NEW r, OnScreen(r, init(fb))
  PROVE  Painted(init(fb), r)
<1>. DEFINE w == fb.width
            h == fb.height
            s == Scaled(fb, 15)
            k == h \div 2 + 11 * s
            x == r.x + r.w - 1
            y == r.y + r.h - 1
<1>1. /\ w \in Nat \ {0} /\ h \in Nat /\ fb.bytes \in {3, 4}
      /\ fb.pitch \in Nat /\ fb.pitch >= w * fb.bytes
  BY ScreenAssumption
<1>2. /\ init(fb).mode = fb /\ init(fb).screen = Rect(0, 0, w, h)
      /\ init(fb).block_size = s /\ s \in Nat
  <2>1. Placed(init(fb)) /\ init(fb).mode = fb
    BY LayoutPlaced
  <2>. QED
    BY <2>1 DEF Placed
<1>3. /\ h >= 22 * s + 2 /\ fb.pitch * (k + 1) <= Size(fb)
  BY DEF Playable
<1>. HIDE DEF s, w, h
<1>4. /\ k \in Int /\ k <= h
      /\ x \in Int /\ y \in Int /\ x < w /\ y < k
  BY <1>1, <1>2, <1>3 DEF OnScreen, h, w
<1>5. Within(r, init(fb).screen)
  BY <1>1, <1>2, <1>4 DEF OnScreen, Within, Rect, w, h
<1>. HIDE DEF x, y, k
<1>6. fb.pitch * y + x * fb.bytes + 4 <= fb.pitch * (k + 1)
  BY <1>1, <1>4, LastPixel
<1>7. put_pixel_stores(fb, x, y)
  <2>1. PICK p \in Nat, b \in {3, 4} : p = fb.pitch /\ b = fb.bytes
    BY <1>1
  <2>2. p * y \in Int /\ x * b \in Int /\ p * (k + 1) \in Int
    BY <1>4, <2>1
  <2>3. Size(fb) \in Int
    <3>1. PICK n \in Nat : n = fb.width * fb.height * 8 * b
      <4>1. w * h \in Nat
        BY <1>1
      <4>. QED
        BY <4>1 DEF w, h
    <3>2. WordMod \in Nat \ {0}
      BY ScreenAssumption
    <3>. QED
      BY <2>1, <3>1, <3>2 DEF Size, Word
  <2>. QED
    BY <1>3, <1>6, <2>1, <2>2, <2>3 DEF put_pixel_stores, Offset
<1>. QED
  BY <1>2, <1>5, <1>7 DEF Painted, x, y

(* A tile of the board, or of a piece next to it: its place is a whole     *)
(* number of blocks from the corner of the board.                          *)
LEMMA TilePlace ==
  ASSUME NEW l, Placed(l), NEW gx \in Nat, NEW gy \in Nat, NEW n \in Nat,
         NEW m \in Nat, gx + 1 <= n, gy + 1 <= m
  PROVE  LET t == Tile(l, gx, gy)
         IN /\ t.x \in Int /\ t.y \in Int
            /\ t.w = l.block_size /\ t.h = l.block_size
            /\ l.playfield_x <= t.x /\ t.x + t.w <= l.playfield_x + l.block_size * n
            /\ l.playfield_y <= t.y /\ t.y + t.h <= l.playfield_y + l.block_size * m
<1>. DEFINE s == l.block_size
<1>1. s \in Nat /\ l.playfield_x \in Int /\ l.playfield_y \in Int
  BY DEF Placed
<1>2. Tile(l, gx, gy) = [x |-> l.playfield_x + gx * s, y |-> l.playfield_y + gy * s,
                         w |-> s, h |-> s]
  BY DEF Tile, Rect
<1>. HIDE DEF s
<1>3. \A k, j \in Nat : k + 1 <= j =>
        k * s \in Nat /\ k * s + s <= s * j /\ s * j \in Nat
  <2>. SUFFICES ASSUME NEW k \in Nat, NEW j \in Nat, k + 1 <= j
                PROVE  k * s \in Nat /\ k * s + s <= s * j /\ s * j \in Nat
    OBVIOUS
  <2>1. s * (k + 1) \in s * 0 .. s * j
    BY <1>1, ProductBetween
  <2>2. s * (k + 1) = k * s + s /\ k * s \in Nat /\ s * j \in Nat
    BY <1>1
  <2>. QED
    BY <2>1, <2>2
<1>4. /\ gx * s \in Nat /\ gx * s + s <= s * n /\ s * n \in Nat
      /\ gy * s \in Nat /\ gy * s + s <= s * m /\ s * m \in Nat
  BY <1>3
<1>. DEFINE X == gx * s
            Y == gy * s
            A == s * n
            B == s * m
<1>. HIDE DEF X, Y, A, B
<1>5. /\ l.playfield_x <= l.playfield_x + X
      /\ l.playfield_x + X + s <= l.playfield_x + A
      /\ l.playfield_y <= l.playfield_y + Y
      /\ l.playfield_y + Y + s <= l.playfield_y + B
      /\ l.playfield_x + X \in Int /\ l.playfield_y + Y \in Int
  BY <1>1, <1>4 DEF X, Y, A, B
<1>. QED
  BY <1>2, <1>5 DEF X, Y, A, B, s

(* The board with its border, and without. *)
LEMMA BorderedIs ==
  ASSUME NEW l, Placed(l)
  PROVE  /\ Bordered(l, 1) = Rect(l.playfield_x - l.block_size,
                                  l.playfield_y - l.block_size,
                                  Across(l) + 2 * l.block_size,
                                  Down(l) + 2 * l.block_size)
         /\ Bordered(l, 0) = Rect(l.playfield_x, l.playfield_y,
                                  Across(l), Down(l))
<1>1. /\ l.block_size \in Nat /\ BOARD_WIDTH \in Nat /\ BOARD_HEIGHT \in Nat
      /\ l.playfield_x \in Int /\ l.playfield_y \in Int
  BY HalfProperties DEF Placed
<1>2. \A s, n \in Nat : (n + 2 * 1) * s = s * n + 2 * s /\ (n + 2 * 0) * s = s * n
  OBVIOUS
<1>3. /\ (BOARD_WIDTH + 2 * 1) * l.block_size = Across(l) + 2 * l.block_size
      /\ (BOARD_HEIGHT + 2 * 1) * l.block_size = Down(l) + 2 * l.block_size
      /\ (BOARD_WIDTH + 2 * 0) * l.block_size = Across(l)
      /\ (BOARD_HEIGHT + 2 * 0) * l.block_size = Down(l)
  BY <1>1, <1>2 DEF Across, Down
<1>4. \A s \in Nat : \A x \in Int :
        x - 1 * s = x - s /\ x - 0 * s = x
  OBVIOUS
<1>. QED
  BY <1>1, <1>3, <1>4 DEF Bordered

LEMMA BorderOnScreen ==
  ASSUME NEW l, Placed(l), Playable(l.mode), NEW r \in draw_border(l)
  PROVE  OnScreen(r, l)
<1>1. l.border_blocks = 1 /\ 1 * l.block_size = l.block_size
  BY DEF Placed
<1>2. draw_border(l) = draw_rect_outline(Bordered(l, 1), l.block_size)
  BY <1>1 DEF draw_border
<1>. QED
  BY <1>2, BorderedIs DEF draw_rect_outline, Rect, OnScreen, Placed, Playable

(* The texts are in a column beside the board, the title above it. *)
LEMMA TitlePlace ==
  ASSUME NEW l
  PROVE  /\ Title(l).x = l.info_x /\ Title(l).w = 192 /\ Title(l).h = 32
         /\ Title(l).y = l.playfield_y - l.border_width - 40
  BY DEF Title, draw, Rect

LEMMA InfoPlace ==
  ASSUME NEW l, Placed(l), NEW started \in BOOLEAN, NEW r \in Info(l, started)
  PROVE  /\ r.x = l.info_x /\ r.w \in 0 .. 257 /\ r.h \in 0 .. 11
         /\ r.y \in Int /\ r.y >= l.playfield_y
         /\ 2 * r.y <= 2 * l.playfield_y + 11 * l.line_height
<1>. DEFINE e == l.line_height
            y == l.playfield_y
            x == l.info_x
            k == y + 3 * e + (3 * e) \div 2
<1>1. y \in Int /\ e \in Nat /\ x \in Int
  BY DEF Placed
<1>2. \/ r = draw(22, x, y + 0 * e, 13)
      \/ r = draw(23, x, y + 0 * e, 14)
      \/ r = draw(18, x, y + 1 * e, 14)
      \/ r = draw(18, x, y + 2 * e, 14)
      \/ r = draw(17, x, y + 3 * e, 14)
      \/ r = draw(12, x, k, 14)
      \/ r = draw(12, x, k + e, 14)
  BY DEF Info
<1>. HIDE DEF x, y, e
<1>3. k \in Int /\ y + 3 * e <= k /\ 2 * k <= 2 * y + 9 * e
  BY <1>1
<1>. HIDE DEF k
<1>4. /\ r.x = x /\ r.w \in 0 .. 257 /\ r.h \in 0 .. 11
      /\ r.y \in {y + 0 * e, y + 1 * e, y + 2 * e, y + 3 * e, k, k + e}
  BY <1>1, <1>2 DEF draw, Rect
<1>5. /\ r.y \in Int /\ r.y >= y /\ 2 * r.y <= 2 * y + 11 * e
  BY <1>1, <1>3, <1>4
<1>. QED
  BY <1>4, <1>5 DEF x, y, e

LEMMA TextsOnScreen ==
  ASSUME NEW l, Placed(l), Roomy(l.mode), NEW started \in BOOLEAN,
         NEW r \in {Title(l)} \cup Info(l, started)
  PROVE  OnScreen(r, l)
<1>1. CASE r = Title(l)
  BY <1>1, TitlePlace DEF OnScreen, Placed, Roomy
<1>2. CASE r \in Info(l, started)
  BY <1>2, InfoPlace DEF OnScreen, Placed, Roomy
<1>. QED
  BY <1>1, <1>2

LEMMA CellsInside ==
  ASSUME NEW l, Placed(l), TypeOK, HeldInside, NEW r \in Cells(l)
  PROVE  /\ r.x \in Int /\ r.y \in Int /\ r.w \in Int /\ r.h \in Int
         /\ Within(r, Bordered(l, 0))
<1>1. \E gx \in Col, gy \in Row : r = Tile(l, gx, gy)
  <2>1. CASE r \in draw_board(l)
    BY <2>1 DEF draw_board
  <2>2. CASE r \in draw_piece(l, held.minos, held.x, held.y)
    <3>1. PICK p \in held.minos : /\ held.y + p[1] >= 0
                                  /\ r = Tile(l, held.x + p[2], held.y + p[1])
      BY <2>2 DEF draw_piece
    <3>2. p \in Box /\ held.y \in Int
      BY HalfProperties DEF TypeOK, Tetromino, Int8, Half
    <3>3. p[1] \in Int
      BY <3>2 DEF Box, PIECE_SIZE
    <3>4. held.x + p[2] \in Col /\ held.y + p[1] < BOARD_HEIGHT
      BY DEF HeldInside
    <3>5. held.y + p[1] \in Row
      BY <3>1, <3>2, <3>3, <3>4, HalfProperties DEF Row
    <3>. QED
      BY <3>1, <3>4, <3>5
  <2>. QED
    BY <2>1, <2>2 DEF Cells
<1>2. PICK gx \in Col, gy \in Row : r = Tile(l, gx, gy)
  BY <1>1
<1>3. /\ gx \in Nat /\ gy \in Nat /\ BOARD_WIDTH \in Nat /\ BOARD_HEIGHT \in Nat
      /\ gx + 1 <= BOARD_WIDTH /\ gy + 1 <= BOARD_HEIGHT
  BY HalfProperties DEF Row, Col
<1>4. /\ r.x \in Int /\ r.y \in Int
      /\ r.w = l.block_size /\ r.h = l.block_size
      /\ l.playfield_x <= r.x /\ r.x + r.w <= l.playfield_x + Across(l)
      /\ l.playfield_y <= r.y /\ r.y + r.h <= l.playfield_y + Down(l)
  BY <1>2, <1>3, TilePlace DEF Across, Down
<1>5. Bordered(l, 0) = Rect(l.playfield_x, l.playfield_y, Across(l), Down(l))
  BY BorderedIs
<1>. QED
  BY <1>4, <1>5 DEF Rect, Within, Placed

LEMMA CellsOnScreen ==
  ASSUME NEW l, Placed(l), Playable(l.mode), TypeOK, HeldInside, NEW r \in Cells(l)
  PROVE  OnScreen(r, l)
<1>1. /\ r.x \in Int /\ r.y \in Int /\ r.w \in Int /\ r.h \in Int
      /\ Within(r, Bordered(l, 0))
  BY CellsInside
<1>. QED
  BY <1>1, BorderedIs DEF Rect, Within, OnScreen, Placed, Playable

(* The next piece is shown beside the board, below the texts. *)
LEMMA PreviewPlace ==
  ASSUME NEW l, Placed(l), NEW i \in Piece, NEW r \in Preview(l, i)
  PROVE  /\ r.x \in Int /\ r.y \in Int
         /\ r.w = l.block_size /\ r.h = l.block_size
         /\ l.playfield_x + 14 * l.block_size <= r.x
         /\ r.x <= l.playfield_x + 17 * l.block_size
         /\ l.playfield_y + 8 * l.block_size <= r.y
         /\ r.y <= l.playfield_y + 11 * l.block_size
<1>1. PICK p \in PieceDefs[i] : r = Tile(l, 14 + p[2], 8 + p[1])
  BY DEF Preview, draw_piece, Next_x, Next_y
<1>2. p[1] \in 0 .. 3 /\ p[2] \in 0 .. 3
  <2>1. p \in Box
    BY PlayfieldAssumption
  <2>. QED
    BY <2>1 DEF Box, PIECE_SIZE
<1>3. r = [x |-> l.playfield_x + (14 + p[2]) * l.block_size,
           y |-> l.playfield_y + (8 + p[1]) * l.block_size,
           w |-> l.block_size, h |-> l.block_size]
  BY <1>1 DEF Tile, Rect
<1>4. l.block_size \in Nat /\ l.playfield_x \in Int /\ l.playfield_y \in Int
  BY DEF Placed
<1>5. /\ (14 + p[2]) * l.block_size \in 14 * l.block_size .. 17 * l.block_size
      /\ (8 + p[1]) * l.block_size \in 8 * l.block_size .. 11 * l.block_size
  <2>1. \A s \in Nat : \A k \in 0 .. 3 : /\ (14 + k) * s \in 14 * s .. 17 * s
                                         /\ (8 + k) * s \in 8 * s .. 11 * s
    <3>. SUFFICES ASSUME NEW s \in Nat, NEW k \in 0 .. 3
                  PROVE  /\ (14 + k) * s \in 14 * s .. 17 * s
                         /\ (8 + k) * s \in 8 * s .. 11 * s
      OBVIOUS
    <3>1. k = 0 \/ k = 1 \/ k = 2 \/ k = 3
      OBVIOUS
    <3>. QED
      BY <3>1
  <2>. QED
    BY <1>2, <1>4, <2>1
<1>. QED
  BY <1>3, <1>4, <1>5

LEMMA PreviewOnScreen ==
  ASSUME NEW l, Placed(l), Roomy(l.mode), NEW i \in Piece, NEW r \in Preview(l, i)
  PROVE  OnScreen(r, l)
<1>1. (36 - BOARD_WIDTH) * l.block_size = 36 * l.block_size - Across(l)
  BY HalfProperties DEF Across, Placed
<1>. QED
  BY <1>1, PreviewPlace DEF OnScreen, Placed, Roomy

(* The unsigned arithmetic of the overlay is exact on values that fit. *)
LEMMA SmallWords ==
  ASSUME NEW n \in Nat, n <= 65536
  PROVE  Word(n) = n /\ Int32(n) = n
<1>1. WordMod \in Nat /\ WordMod >= 1048576
  BY ScreenAssumption
<1>2. Word(n) = n
  BY <1>1 DEF Word
<1>. QED
  BY <1>1, <1>2 DEF Int32

LEMMA OverlayOnScreen ==
  ASSUME NEW l, Placed(l), Roomy(l.mode), NEW r \in Overlay(l)
  PROVE  OnScreen(r, l)
<1>. DEFINE w == (l.block_size * BOARD_WIDTH * 3) \div 2
            h == (l.block_size * BOARD_HEIGHT) \div 3
            bx == l.mode.width \div 2 - w \div 2
            by == l.mode.height \div 2 - h \div 2
            box == Rect(bx, by, w, h)
<1>1. w = (Across(l) * 3) \div 2 /\ h = Down(l) \div 3
  BY DEF Across, Down
<1>2. /\ l.mode.width \in Nat /\ l.mode.width <= 32768
      /\ l.mode.height \in Nat /\ l.mode.height <= 32768
      /\ l.block_size \in Nat /\ l.block_size >= 15
      /\ l.mode.height >= 22 * l.block_size + 80
      /\ l.mode.width >= 15 * l.block_size
      /\ Across(l) \in 4 * l.block_size .. 10 * l.block_size
      /\ 3 * Across(l) >= 320
      /\ Down(l) \in 4 * l.block_size .. 20 * l.block_size
      /\ l.screen.w = l.mode.width /\ l.screen.h = l.mode.height
  <2>1. 3 * l.block_size * BOARD_WIDTH = 3 * Across(l)
    BY HalfProperties DEF Across, Placed
  <2>. QED
    BY <2>1 DEF Placed, Rect, Roomy
<1>3. /\ w \in Nat /\ h \in Nat /\ w >= 160 /\ h >= 20
      /\ w <= 15 * l.block_size /\ 3 * h <= 20 * l.block_size
  BY <1>1, <1>2
<1>. HIDE DEF w, h
<1>4. /\ bx \in Nat /\ by \in Nat
      /\ bx + w <= l.mode.width /\ w <= l.mode.width
      /\ by + h <= l.mode.height \div 2 + 11 * l.block_size
      /\ by + h \div 2 + 9 <= l.mode.height \div 2 + 11 * l.block_size
      /\ by + 24 <= l.mode.height \div 2 + 11 * l.block_size
  BY <1>2, <1>3
<1>. HIDE DEF bx, by
<1>5. \A t \in Nat : t <= 160 =>
        Int32(bx + Word(w - t) \div 2) = bx + (w - t) \div 2
  <2>. SUFFICES ASSUME NEW t \in Nat, t <= 160
                PROVE  Int32(bx + Word(w - t) \div 2) = bx + (w - t) \div 2
    OBVIOUS
  <2>1. /\ w - t \in Nat /\ w - t <= 65536
        /\ bx + (w - t) \div 2 \in Nat /\ bx + (w - t) \div 2 <= 65536
    BY <1>2, <1>3, <1>4
  <2>2. Word(w - t) = w - t
    BY <2>1, SmallWords
  <2>. QED
    BY <2>1, <2>2, SmallWords
<1>6. ASSUME NEW n \in {6, 10}, NEW m \in {10, 11}, r \in draw_overlay(l, n, m)
      PROVE  OnScreen(r, l)
  <2>. DEFINE nx == Int32(bx + Word(w - (n * 8 * 20) \div 10) \div 2)
              mx == Int32(bx + Word(w - (m * 8 * 12) \div 10) \div 2)
  <2>1. \/ r = box
        \/ r = draw(n, nx, by + 8, 20)
        \/ r = draw(m, mx, by + h \div 2, 12)
        \/ r \in draw_rect_outline(box, 4)
    BY <1>2, <1>6 DEF draw_overlay, w, h, bx, by, box, Rect
  <2>2. /\ nx = bx + (w - (n * 8 * 20) \div 10) \div 2
        /\ mx = bx + (w - (m * 8 * 12) \div 10) \div 2
    <3>1. /\ (n * 8 * 20) \div 10 \in Nat /\ (n * 8 * 20) \div 10 <= 160
          /\ (m * 8 * 12) \div 10 \in Nat /\ (m * 8 * 12) \div 10 <= 160
      OBVIOUS
    <3>. QED
      BY <1>5, <3>1
  <2>. HIDE DEF nx, mx
  <2>3. CASE r = box
    BY <1>2, <1>3, <1>4, <2>3 DEF Rect, OnScreen
  <2>4. CASE r \in draw_rect_outline(box, 4)
    BY <1>2, <1>3, <1>4, <2>4 DEF draw_rect_outline, Rect, OnScreen
  <2>5. CASE r = draw(n, nx, by + 8, 20)
    BY <1>2, <1>3, <1>4, <2>2, <2>5 DEF draw, Rect, OnScreen
  <2>6. CASE r = draw(m, mx, by + h \div 2, 12)
    BY <1>2, <1>3, <1>4, <2>2, <2>6 DEF draw, Rect, OnScreen
  <2>. QED
    BY <2>1, <2>3, <2>4, <2>5, <2>6
<1>. QED
  BY <1>6 DEF Overlay

(* On every screen that has room for the board and its border, put_pixel   *)
(* drops nothing of them, of the tiles and of the piece that falls, and    *)
(* nothing of them comes out in the line below; and on every one that has  *)
(* room for a frame, the same holds of all that a frame paints, in every   *)
(* state of the game, for 3 and 4 bytes a pixel and with padded lines.     *)
THEOREM FrameFits == Spec => []FrameOnScreen
<1>1. IInv => FrameOnScreen
  <2>. SUFFICES ASSUME IInv, NEW fb \in Framebuffers, Playable(fb), NEW r,
                       \/ r \in draw_border(init(fb)) \cup Cells(init(fb))
                       \/ Roomy(fb) /\ r \in Frame(init(fb))
                PROVE  Painted(init(fb), r)
    <3>1. \A fb \in Framebuffers : init(fb).mode = fb
      BY LayoutPlaced
    <3>2. \A fb \in Framebuffers : Roomy(fb) => Playable(fb)
      BY DEF Roomy
    <3>. QED
      BY <3>1, <3>2 DEF FrameOnScreen, Layouts
  <2>. DEFINE l == init(fb)
  <2>1. Placed(l) /\ l.mode = fb
    BY LayoutPlaced
  <2>2. TypeOK /\ HeldInside /\ next_piece_index \in Piece /\ Started \in BOOLEAN
    BY DEF IInv, TypeOK, Started
  <2>. HIDE DEF l
  <2>3. \/ r \in draw_border(l) \/ r \in Cells(l)
        \/ /\ Roomy(fb)
           /\ \/ r \in {Title(l)} \cup Info(l, Started)
              \/ r \in Preview(l, next_piece_index) \/ r \in Overlay(l)
    BY DEF Frame, l
  <2>4. OnScreen(r, l)
    BY <2>1, <2>2, <2>3, TextsOnScreen, BorderOnScreen, CellsOnScreen,
       PreviewOnScreen, OverlayOnScreen
  <2>. QED
    BY <2>4, PixelStored DEF l
<1>. QED
  BY <1>1, Invariance, PTL

LEMMA TextsKeepApart ==
  ASSUME NEW l, Placed(l), NEW started \in BOOLEAN
  PROVE  LET texts == {Title(l)} \cup Info(l, started)
         IN \A r, t \in texts \cup {Bordered(l, l.border_blocks)} :
              r = t \/ Disjoint(r, t)
<1>. DEFINE texts == {Title(l)} \cup Info(l, started)
            bordered == Bordered(l, l.border_blocks)
<1>1. bordered = Rect(l.playfield_x - l.block_size,
                      l.playfield_y - l.block_size,
                      Across(l) + 2 * l.block_size,
                      Down(l) + 2 * l.block_size)
  BY BorderedIs DEF Placed
<1>2. \A t \in texts : t.x = l.info_x
  BY DEF Title, Info, draw, Rect
<1>3. \A t \in texts : t.x \in Int /\ t.y \in Int /\ t.w \in Int /\ t.h \in Int
  <2>1. l.info_x \in Int /\ l.playfield_y - l.border_width - 40 \in Int
    BY DEF Placed
  <2>2. ASSUME NEW t \in Info(l, started)
        PROVE  t.x \in Int /\ t.y \in Int /\ t.w \in Int /\ t.h \in Int
    BY <2>1, InfoPlace
  <2>. QED
    BY <2>1, <2>2, TitlePlace
<1>4. l.info_x >= bordered.x + bordered.w
  BY <1>1 DEF Rect, Placed
<1>5. \A t \in texts : Disjoint(t, bordered) /\ Disjoint(bordered, t)
  BY <1>2, <1>4 DEF Disjoint
<1>6. \A t \in Info(l, started) : t.y \in Int /\ t.y >= l.playfield_y
  BY InfoPlace
<1>7. \A t \in Info(l, started) :
        Disjoint(t, Title(l)) /\ Disjoint(Title(l), t)
  <2>1. /\ Title(l).y \in Int /\ Title(l).h \in Int
        /\ Title(l).y + Title(l).h <= l.playfield_y
        /\ l.playfield_y \in Int
    BY TitlePlace DEF Placed
  <2>. QED
    BY <1>6, <2>1 DEF Disjoint
<1>8. \A r, t \in Info(l, started) : r = t \/ Disjoint(r, t)
  <2>. SUFFICES ASSUME started = TRUE, NEW r \in Info(l, TRUE), NEW t \in Info(l, TRUE)
                PROVE  r = t \/ Disjoint(r, t)
    BY DEF Info
  <2>. DEFINE y == l.playfield_y
              e == l.line_height
              k == y + 3 * e + (3 * e) \div 2
  <2>1. /\ y \in Int /\ e \in Nat /\ e >= 16 /\ l.info_x \in Int
        /\ k \in Int /\ k >= y + 4 * e
    BY DEF Placed
  <2>. DEFINE t0 == draw(23, l.info_x, y + 0 * e, 14)
              t1 == draw(18, l.info_x, y + 1 * e, 14)
              t2 == draw(18, l.info_x, y + 2 * e, 14)
              t3 == draw(17, l.info_x, y + 3 * e, 14)
              t4 == draw(12, l.info_x, k, 14)
              t5 == draw(12, l.info_x, k + e, 14)
  <2>2. /\ t0.y = y + 0 * e /\ t1.y = y + 1 * e /\ t2.y = y + 2 * e
        /\ t3.y = y + 3 * e /\ t4.y = k /\ t5.y = k + e
    BY DEF draw, Rect
  <2>3. r.h = 11 /\ t.h = 11
    BY DEF Info, draw, Rect
  <2>4. Info(l, TRUE) = {t0, t1, t2, t3, t4, t5}
    BY DEF Info
  <2>. HIDE DEF t0, t1, t2, t3, t4, t5, k, y, e
  <2>5. /\ t0.y \in Int /\ t0.y + 11 <= t1.y
        /\ t1.y \in Int /\ t1.y + 11 <= t2.y
        /\ t2.y \in Int /\ t2.y + 11 <= t3.y
        /\ t3.y \in Int /\ t3.y + 11 <= t4.y
        /\ t4.y \in Int /\ t4.y + 11 <= t5.y /\ t5.y \in Int
    BY <2>1, <2>2
  <2>6. \A q \in {t1, t2, t3, t4, t5} : t0.y + 11 <= q.y
    BY <2>5
  <2>7. \A q \in {t2, t3, t4, t5} : t1.y + 11 <= q.y
    BY <2>5
  <2>8. \A q \in {t3, t4, t5} : t2.y + 11 <= q.y
    BY <2>5
  <2>9. \A q \in {t4, t5} : t3.y + 11 <= q.y
    BY <2>5
  <2>10. r = t \/ r.y + 11 <= t.y \/ t.y + 11 <= r.y
    <3>1. r \in {t0, t1, t2, t3, t4, t5} /\ t \in {t0, t1, t2, t3, t4, t5}
      BY <2>4
    <3>2. CASE r = t0
      BY <3>1, <3>2, <2>6
    <3>3. CASE r = t1
      BY <3>1, <3>3, <2>6, <2>7
    <3>4. CASE r = t2
      BY <3>1, <3>4, <2>6, <2>7, <2>8
    <3>5. CASE r = t3
      BY <3>1, <3>5, <2>6, <2>7, <2>8, <2>9
    <3>6. CASE r = t4
      BY <3>1, <3>6, <2>5, <2>6, <2>7, <2>8, <2>9
    <3>7. CASE r = t5
      BY <3>1, <3>7, <2>5, <2>6, <2>7, <2>8, <2>9
    <3>. QED
      BY <3>1, <3>2, <3>3, <3>4, <3>5, <3>6, <3>7
  <2>. QED
    BY <2>3, <2>10 DEF Disjoint
<1>. QED
  BY <1>5, <1>7, <1>8

LEMMA PreviewApart ==
  ASSUME NEW l, Placed(l), NEW started \in BOOLEAN, NEW i \in Piece,
         NEW r \in Preview(l, i)
  PROVE  \A t \in {Title(l)} \cup Info(l, started)
                  \cup {Bordered(l, l.border_blocks)} : Disjoint(r, t)
<1>1. /\ r.x \in Int /\ r.y \in Int
      /\ r.w = l.block_size /\ r.h = l.block_size
      /\ l.playfield_x + 14 * l.block_size <= r.x
      /\ l.playfield_y + 8 * l.block_size <= r.y
  BY PreviewPlace
<1>2. Disjoint(r, Bordered(l, l.border_blocks))
  BY <1>1, BorderedIs DEF Rect, Disjoint, Placed
<1>3. Disjoint(r, Title(l))
  BY <1>1 DEF Title, draw, Rect, Disjoint, Placed
<1>4. \A t \in Info(l, started) : t.y + t.h <= l.playfield_y + 8 * l.block_size
  BY DEF Info, draw, Rect, Placed
<1>5. \A t \in Info(l, started) : t.y \in Int /\ t.h \in Int
  BY InfoPlace
<1>6. \A t \in Info(l, started) : Disjoint(r, t)
  BY <1>1, <1>4, <1>5 DEF Disjoint, Placed
<1>. QED
  BY <1>2, <1>3, <1>6

LEMMA Ornaments ==
  ASSUME NEW size \in Nat, size >= 15
  PROVE  \A r \in draw_tile(0, 0, size) :
           r.w >= 0 /\ r.h >= 0 /\ Within(r, Rect(0, 0, size, size))
  BY DEF draw_tile, Rect, Within

(* The tiles stay inside the border, their ornaments inside the tiles, and *)
(* the texts and the next piece keep clear of the board and of each other, *)
(* on screens of every size and with every set of pieces.                  *)
THEOREM PartsKeepApart == Spec => []PartsApart
<1>1. IInv => PartsApart
  <2>. SUFFICES ASSUME IInv  PROVE PartsApart
    OBVIOUS
  <2>1. \A l \in Layouts : Placed(l)
    BY LayoutPlaced DEF Layouts
  <2>2. TextsApart
    BY <2>1, TextsKeepApart, PreviewApart DEF TextsApart
  <2>3. OrnamentsInside
    <3>1. \A l \in Layouts : l.block_size \in Nat /\ l.block_size >= 15
      BY <2>1 DEF Placed
    <3>. QED
      BY <3>1, Ornaments DEF OrnamentsInside
  <2>4. \A l \in Layouts : \A r \in Cells(l) : Within(r, Bordered(l, 0))
    BY <2>1, CellsInside DEF IInv
  <2>. QED
    BY <2>2, <2>3, <2>4 DEF PartsApart
<1>. QED
  BY <1>1, Invariance, PTL
=============================================================================
