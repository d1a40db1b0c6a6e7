--------------------------- MODULE RowSweepProof ----------------------------
(***************************************************************************)
(* Proofs about RowSweep: on every board of every size, gaps and full rows *)
(* anywhere, the loop of check_row computes the closed form that the rest  *)
(* of the project uses for it.                                             *)
(***************************************************************************)
EXTENDS RowSweep, FiniteSetTheorems, TLAPS

(* The row of the first board that the loop looks at next; it is the row y *)
(* of the board unless only empty rows that have moved in are left.        *)
Source == y - lines_cleared

(* The rows looked at are not empty. *)
Seen == \A r \in Row : r > Source => before[r] # {}

(* At the end no full row is left for later. *)
Ended == done => Cleared = FullRows(before)

IInv == TypeOK /\ SweepInv /\ Seen /\ Ended

-----------------------------------------------------------------------------
(* Where a row lands. *)

LEMMA RowFinite ==
  ASSUME NEW C \in SUBSET Row
  PROVE  /\ IsFiniteSet(C) /\ Cardinality(C) \in 0 .. BOARD_HEIGHT
         /\ \A T \in SUBSET C : T \in SUBSET Row
<1>1. /\ IsFiniteSet(Row) /\ Cardinality(Row) = BOARD_HEIGHT
      /\ BOARD_HEIGHT \in Nat
  BY FS_Interval, BoardAssumption DEF Row, PIECE_SIZE
<1>2. IsFiniteSet(C) /\ Cardinality(C) <= BOARD_HEIGHT
  BY <1>1, FS_Subset
<1>. QED
  BY <1>1, <1>2, FS_CardinalityType

(* A row above all those taken out falls by one for each. *)
LEMMA LandingAbove ==
  ASSUME NEW C \in SUBSET Row, NEW p \in Int, \A f \in C : f > p,
         NEW q \in Row, q <= p
  PROVE  Landing(q, C) = q + Cardinality(C)
<1>1. \A f \in C : f > q
  <2>. SUFFICES ASSUME NEW f \in C  PROVE f > q
    OBVIOUS
  <2>1. f \in Int /\ q \in Int /\ f > p
    BY DEF Row
  <2>. QED
    BY <2>1
<1>2. {f \in C : f > q} = C
  BY <1>1
<1>. QED
  BY <1>2 DEF Landing

(* A row below p lands lower than p would, or a row between them would     *)
(* have been taken out twice.                                              *)
LEMMA LandingBelow ==
  ASSUME NEW C \in SUBSET Row, NEW p \in Int, \A f \in C : f > p,
         NEW q \in Row \ C, q > p
  PROVE  Landing(q, C) \in Int /\ Landing(q, C) > p + Cardinality(C)
<1>. DEFINE A == {f \in C : f > q}
            B == {f \in C : f < q}
<1>0. q \in Int /\ C \in SUBSET Int
  BY DEF Row
<1>1. /\ IsFiniteSet(A) /\ Cardinality(A) \in Int
      /\ IsFiniteSet(B) /\ Cardinality(B) \in Int
      /\ Cardinality(C) \in Int
  <2>1. A \in SUBSET Row /\ B \in SUBSET Row
    OBVIOUS
  <2>. HIDE DEF A, B
  <2>. QED
    BY <2>1, RowFinite
<1>2. Cardinality(B) <= q - 1 - p
  <2>1. B \in SUBSET (p + 1 .. q - 1)
    <3>. SUFFICES ASSUME NEW f \in B  PROVE f \in p + 1 .. q - 1
      OBVIOUS
    <3>1. f \in Int /\ f > p /\ f < q
      BY <1>0
    <3>. QED
      BY <1>0, <3>1
  <2>2. /\ IsFiniteSet(p + 1 .. q - 1)
        /\ Cardinality(p + 1 .. q - 1) = q - 1 - p
    <3>1. p + 1 \in Int /\ q - 1 \in Int /\ p + 1 <= q
      BY <1>0
    <3>2. /\ IsFiniteSet(p + 1 .. q - 1)
          /\ Cardinality(p + 1 .. q - 1)
               = IF p + 1 > q - 1 THEN 0 ELSE (q - 1) - (p + 1) + 1
      BY <3>1, FS_Interval
    <3>. QED
      BY <1>0, <3>1, <3>2
  <2>. HIDE DEF B
  <2>3. Cardinality(B) <= Cardinality(p + 1 .. q - 1)
    BY <2>1, <2>2, FS_Subset
  <2>. QED
    BY <2>2, <2>3
<1>3. Cardinality(C) = Cardinality(A) + Cardinality(B)
  <2>1. C = A \cup B /\ A \cap B = {}
    <3>1. \A f \in C : (f > q \/ f < q) /\ ~(f > q /\ f < q)
      BY <1>0
    <3>. QED
      BY <3>1
  <2>. HIDE DEF A, B
  <2>2. Cardinality(A \cup B)
          = Cardinality(A) + Cardinality(B) - Cardinality(A \cap B)
    BY <1>1, FS_Union
  <2>. QED
    BY <1>1, <2>1, <2>2, FS_EmptySet
<1>4. Landing(q, C) = q + Cardinality(A)
  BY DEF Landing
<1>. HIDE DEF A, B
<1>. QED
  BY <1>0, <1>1, <1>2, <1>3, <1>4

(* Taking row p out, too, changes nothing below it. *)
LEMMA LandingKept ==
  ASSUME NEW C \in SUBSET Row, NEW p \in Row, NEW q \in Row, q > p
  PROVE  Landing(q, C \cup {p}) = Landing(q, C)
<1>1. {f \in C \cup {p} : f > q} = {f \in C : f > q}
  BY DEF Row
<1>. QED
  BY <1>1 DEF Landing

(* The rows that end up at row r without the rows C. *)
Sources(r, C) == {q \in Row \ C : Landing(q, C) = r}

(* Row p is the source of row y, if it is a row at all. *)
LEMMA SourceOfRow ==
  ASSUME NEW C \in SUBSET Row, NEW p \in Int, \A f \in C : f > p,
         NEW r \in Row, r = p + Cardinality(C)
  PROVE  Sources(r, C) = {p} \cap Row
<1>1. Cardinality(C) \in Int /\ r \in Int
  BY RowFinite DEF Row
<1>2. ASSUME NEW q \in Row
      PROVE  q \in Row \ C /\ Landing(q, C) = r <=> q = p
  <2>0. q \in Int
    BY DEF Row
  <2>1. CASE q <= p
    <3>1. Landing(q, C) = q + Cardinality(C) /\ q \notin C
      BY <2>0, <2>1, LandingAbove
    <3>. QED
      BY <1>1, <2>0, <3>1
  <2>2. CASE q > p
    <3>1. q \notin C => Landing(q, C) > r /\ Landing(q, C) \in Int
      BY <2>2, LandingBelow
    <3>. QED
      BY <1>1, <2>0, <2>2, <3>1
  <2>. QED
    BY <2>0, <2>1, <2>2
<1>. QED
  BY <1>2 DEF Sources

(* One more row taken out: the rows below keep what they have, those above *)
(* get what was over them.                                                 *)
LEMMA SourcesShift ==
  ASSUME NEW C \in SUBSET Row, NEW p \in Row, \A f \in C : f > p,
         NEW r \in Row, NEW top, top = p + Cardinality(C),
         NEW D, D = C \cup {p}
  PROVE  /\ r > top => Sources(r, D) = Sources(r, C)
         /\ r <= top /\ r > 0 => Sources(r, D) = Sources(r - 1, C)
         /\ r <= top /\ r = 0 => Sources(r, D) = {}
<1>1. /\ Cardinality(C) \in Nat /\ top \in Int /\ p \in Int /\ r \in Int
      /\ r >= 0 /\ p \notin C
  <2>1. Cardinality(C) \in Nat
    BY RowFinite
  <2>2. p \in Int /\ r \in Int /\ r >= 0
    BY DEF Row
  <2>3. p \notin C
    BY <2>2
  <2>. QED
    BY <2>1, <2>2, <2>3
<1>2. D \in SUBSET Row /\ Cardinality(D) = Cardinality(C) + 1
  <2>1. IsFiniteSet(C)
    BY RowFinite
  <2>2. Cardinality(C \cup {p}) = Cardinality(C) + 1
    BY <1>1, <2>1, FS_AddElement
  <2>3. D \in SUBSET Row
    OBVIOUS
  <2>. QED
    BY <2>2, <2>3, Zenon
<1>3. Landing(p, C) = top
  <2>1. p <= p
    BY <1>1
  <2>2. Landing(p, C) = p + Cardinality(C)
    BY <1>1, <2>1, LandingAbove
  <2>. QED
    BY <2>2
<1>4. ASSUME NEW q \in Row, q < p
      PROVE  /\ q \notin C /\ q \in Int /\ q >= 0
             /\ Landing(q, C) = q + Cardinality(C)
             /\ Landing(q, D) = q + Cardinality(C) + 1
  <2>1. q \in Int /\ q >= 0
    BY DEF Row
  <2>2. q \notin C
    BY <1>1, <1>4, <2>1
  <2>3. Landing(q, C) = q + Cardinality(C)
    BY <1>1, <1>4, <2>1, LandingAbove
  <2>4. Landing(q, D) = q + Cardinality(D)
    <3>1. \A f \in D : f > q
      BY <1>1, <1>4, <2>1 DEF Row
    <3>2. {f \in D : f > q} = D
      BY <3>1
    <3>. QED
      BY <3>2 DEF Landing
  <2>. QED
    BY <1>1, <1>2, <2>1, <2>2, <2>3, <2>4
<1>5. ASSUME NEW q \in Row, q > p, q \notin C
      PROVE  /\ Landing(q, D) = Landing(q, C)
             /\ Landing(q, C) \in Int /\ Landing(q, C) > top
  BY <1>1, <1>5, LandingBelow, LandingKept
<1>6. \A q \in Row : q = p \/ q < p \/ q > p
  BY <1>1 DEF Row
<1>7. \A q \in Row : q \in D <=> q \in C \/ q = p
  OBVIOUS
<1>8. top = p + Cardinality(C)
  OBVIOUS
<1>9. ASSUME r > top  PROVE Sources(r, D) = Sources(r, C)
  <2>1. ASSUME NEW q \in Row
        PROVE  q \notin D /\ Landing(q, D) = r
                 <=> q \notin C /\ Landing(q, C) = r
    <3>1. CASE q = p
      BY <1>1, <1>3, <1>7, <1>9, <3>1
    <3>2. CASE q < p
      BY <1>1, <1>4, <1>8, <1>9, <3>2
    <3>3. CASE q > p
      BY <1>1, <1>5, <1>7, <3>3
    <3>. QED
      BY <1>6, <3>1, <3>2, <3>3
  <2>. QED
    BY <2>1 DEF Sources
<1>10. ASSUME r <= top, r > 0  PROVE Sources(r, D) = Sources(r - 1, C)
  <2>1. ASSUME NEW q \in Row
        PROVE  q \notin D /\ Landing(q, D) = r
                 <=> q \notin C /\ Landing(q, C) = r - 1
    <3>1. CASE q = p
      BY <1>1, <1>3, <1>7, <1>10, <3>1
    <3>2. CASE q < p
      BY <1>1, <1>4, <1>7, <3>2
    <3>3. CASE q > p
      <4>1. q \notin C => Landing(q, C) # r - 1 /\ Landing(q, D) # r
        BY <1>1, <1>5, <1>10, <3>3
      <4>2. q \in D <=> q \in C
        BY <1>1, <1>7, <3>3
      <4>. QED
        BY <4>1, <4>2
    <3>. QED
      BY <1>6, <3>1, <3>2, <3>3
  <2>. QED
    BY <2>1 DEF Sources
<1>11. ASSUME r <= top, r = 0  PROVE Sources(r, D) = {}
  <2>1. ASSUME NEW q \in Row, q \notin D  PROVE Landing(q, D) # r
    <3>1. CASE q = p
      BY <1>7, <2>1, <3>1
    <3>2. CASE q < p
      BY <1>1, <1>4, <1>11, <3>2
    <3>3. CASE q > p
      BY <1>1, <1>5, <1>7, <1>11, <2>1, <3>3
    <3>. QED
      BY <1>6, <3>1, <3>2, <3>3
  <2>. QED
    BY <2>1 DEF Sources
<1>. QED
  BY <1>9, <1>10, <1>11

-----------------------------------------------------------------------------
(* The invariant. *)

(* The board is made of what ends up in each row. *)
LEMMA BoardOf ==
  ASSUME SweepInv
  PROVE  board = [r \in Row |-> UNION {before[q] : q \in Sources(r, Cleared)}]
  BY DEF SweepInv, Sources

LEMMA ClearedRows ==
  ASSUME TypeOK, SweepInv
  PROVE  /\ Cleared \in SUBSET Row /\ Source \in Int
         /\ \A f \in Cleared : f > Source
         /\ Source + Cardinality(Cleared) = y
         /\ lines_cleared = Cardinality(Cleared)
         /\ y \in Int /\ lines_cleared \in Int /\ BOARD_HEIGHT \in Int
<1>1. y \in Int /\ lines_cleared \in Int /\ BOARD_HEIGHT \in Int
  BY BoardAssumption DEF TypeOK
<1>2. Cleared \in SUBSET Row
  BY DEF Cleared, FullRows
<1>3. Source \in Int /\ \A f \in Cleared : f > Source
  BY <1>1 DEF Cleared, Source
<1>4. lines_cleared = Cardinality(Cleared)
  BY DEF SweepInv
<1>5. Source + lines_cleared = y
  BY <1>1 DEF Source
<1>. QED
  BY <1>1, <1>2, <1>3, <1>4, <1>5

(* The row the loop looks at is its source's, or an empty one. *)
LEMMA RowLookedAt ==
  ASSUME TypeOK, SweepInv, y >= 0
  PROVE  /\ y \in Row
         /\ Source \in Row => board[y] = before[Source]
         /\ Source \notin Row => board[y] = {} /\ Source < 0
<1>1. y \in Row
  BY ClearedRows DEF TypeOK, Row
<1>2. Sources(y, Cleared) = {Source} \cap Row
  BY <1>1, ClearedRows, SourceOfRow
<1>3. board[y] = UNION {before[q] : q \in {Source} \cap Row}
  BY <1>1, <1>2, BoardOf
<1>4. Source \in Row =>
        UNION {before[q] : q \in {Source} \cap Row} = before[Source]
  OBVIOUS
<1>5. Source \notin Row => UNION {before[q] : q \in {Source} \cap Row} = {}
  OBVIOUS
<1>6. Source \notin Row => Source < 0
  <2>1. Source <= y
    <3>1. Cardinality(Cleared) >= 0 /\ Cardinality(Cleared) \in Int
      BY ClearedRows, RowFinite
    <3>. QED
      BY <3>1, ClearedRows
  <2>2. y <= BOARD_HEIGHT - 1
    BY DEF TypeOK
  <2>. QED
    BY <2>1, <2>2, ClearedRows DEF Row
<1>. QED
  BY <1>1, <1>3, <1>4, <1>5, <1>6

(* Once the source is empty, or above the board, no full row is left. *)
LEMMA NothingLeft ==
  ASSUME TypeOK, SweepInv, Source \in Row => before[Source] = {},
         Source \notin Row => Source < 0
  PROVE  Cleared = FullRows(before)
<1>1. ASSUME NEW r \in FullRows(before)  PROVE r > Source
  <2>1. r \in Row /\ r \in Int /\ r >= 0 /\ r <= BOARD_HEIGHT - 1
    BY <1>1, ClearedRows DEF FullRows, Row
  <2>2. CASE Source \in Row
    <3>1. \A q \in r .. BOARD_HEIGHT - 1 : before[q] # {}
      BY <1>1 DEF FullRows
    <3>2. Source \notin r .. BOARD_HEIGHT - 1
      BY <2>2, <3>1
    <3>3. Source \in Int /\ Source <= BOARD_HEIGHT - 1
      BY <2>2, ClearedRows DEF Row
    <3>. QED
      BY <2>1, <3>2, <3>3, ClearedRows
  <2>3. CASE Source \notin Row
    BY <2>1, <2>3, ClearedRows
  <2>. QED
    BY <2>2, <2>3
<1>. QED
  BY <1>1 DEF Cleared, Source

LEMMA InitInv == Init => IInv
<1>. SUFFICES ASSUME Init  PROVE IInv
  OBVIOUS
<1>1. /\ before \in [Row -> SUBSET Col] /\ board = before
      /\ y = BOARD_HEIGHT - 1 /\ lines_cleared = 0 /\ done = FALSE
      /\ BOARD_HEIGHT \in Int /\ BOARD_HEIGHT >= 4
  BY BoardAssumption DEF Init, PIECE_SIZE
<1>2. TypeOK
  <2>1. /\ y \in -1 .. BOARD_HEIGHT - 1
        /\ lines_cleared \in 0 .. BOARD_HEIGHT
    BY <1>1
  <2>2. board \in [Row -> SUBSET Col] /\ done \in BOOLEAN
    BY <1>1, Zenon
  <2>. QED
    BY <1>1, <2>1, <2>2 DEF TypeOK
<1>3. Source = BOARD_HEIGHT - 1
  BY <1>1 DEF Source
<1>4. \A r \in Row : ~(r > Source)
  BY <1>1, <1>3 DEF Row
<1>5. Cleared = {}
  BY <1>4 DEF Cleared, FullRows, Source
<1>6. SweepInv
  <2>1. lines_cleared = Cardinality(Cleared)
    BY <1>1, <1>5, FS_EmptySet
  <2>2. \A q \in Row : Landing(q, Cleared) = q
    <3>1. {f \in Cleared : FALSE} = {}
      OBVIOUS
    <3>2. ASSUME NEW q \in Row  PROVE Landing(q, Cleared) = q
      <4>1. {f \in Cleared : f > q} = {}
        BY <1>5
      <4>2. q \in Int
        BY DEF Row
      <4>. QED
        BY <4>1, <4>2, FS_EmptySet DEF Landing
    <3>. QED
      BY <3>2
  <2>3. ASSUME NEW r \in Row
        PROVE  board[r] = UNION {before[q] : q \in {q \in Row \ Cleared :
                                                   Landing(q, Cleared) = r}}
    <3>1. {q \in Row \ Cleared : Landing(q, Cleared) = r} = {r}
      BY <1>5, <2>2
    <3>. QED
      BY <1>1, <3>1
  <2>4. board = [r \in Row |-> board[r]]
    BY <1>1
  <2>. QED
    BY <2>1, <2>3, <2>4 DEF SweepInv
<1>7. Seen
  BY <1>4 DEF Seen
<1>8. Ended
  BY <1>1 DEF Ended
<1>. QED
  BY <1>2, <1>6, <1>7, <1>8 DEF IInv

(* An iteration that ends the loop, or finds the row neither empty nor     *)
(* full, leaves everything but y and done.                                 *)
LEMMA LeaveRow ==
  ASSUME IInv, y >= 0, ~done, EmptyRow \/ PartRow, before' = before
  PROVE  IInv'
<1>1. /\ TypeOK /\ SweepInv /\ Seen
      /\ board' = board /\ lines_cleared' = lines_cleared /\ before' = before
  BY DEF IInv, EmptyRow, PartRow
<1>2. /\ y \in Row
      /\ Source \in Row => board[y] = before[Source]
      /\ Source \notin Row => board[y] = {} /\ Source < 0
  BY <1>1, RowLookedAt
<1>3. CASE EmptyRow
  <2>1. board[y] = {} /\ y' = y /\ done' = TRUE
    BY <1>3 DEF EmptyRow
  <2>2. Cleared = FullRows(before)
    BY <1>1, <1>2, <2>1, NothingLeft
  <2>3. Cleared' = Cleared /\ Source' = Source
    BY <1>1, <2>1 DEF Cleared, Source
  <2>4. TypeOK'
    <3>1. done' \in BOOLEAN
      BY <2>1, Zenon
    <3>. QED
      BY <1>1, <2>1, <3>1 DEF TypeOK
  <2>5. SweepInv'
    BY <1>1, <2>3 DEF SweepInv
  <2>6. Seen'
    BY <1>1, <2>3 DEF Seen
  <2>7. Ended'
    BY <1>1, <2>2, <2>3 DEF Ended
  <2>. QED
    BY <2>4, <2>5, <2>6, <2>7 DEF IInv
<1>4. CASE PartRow
  <2>1. board[y] \notin {{}, Col} /\ y' = y - 1 /\ done' = done
    BY <1>4 DEF PartRow
  <2>2. /\ Source \in Row /\ Source \in Int /\ y \in Int
        /\ before[Source] # {} /\ before[Source] # Col
    BY <1>1, <1>2, <2>1, ClearedRows
  <2>3. Source' = Source - 1
    BY <1>1, <2>1, <2>2, ClearedRows DEF Source
  <2>4. \A r \in Row : r \in Int /\ (r > Source' <=> r > Source \/ r = Source)
    BY <2>2, <2>3 DEF Row
  <2>5. Source \notin FullRows(before)
    BY <2>2 DEF FullRows
  <2>6. Cleared' = Cleared
    <3>1. Cleared' = {r \in FullRows(before) : r > Source'}
      BY <1>1 DEF Cleared, Source
    <3>2. Cleared = {r \in FullRows(before) : r > Source}
      BY DEF Cleared, Source
    <3>3. \A r \in FullRows(before) : r > Source' <=> r > Source
      BY <2>4, <2>5 DEF FullRows
    <3>. QED
      BY <3>1, <3>2, <3>3
  <2>7. TypeOK'
    <3>1. y' \in -1 .. BOARD_HEIGHT - 1
      BY <1>1, <1>2, <2>1, <2>2, ClearedRows DEF Row
    <3>. QED
      BY <1>1, <2>1, <3>1 DEF TypeOK
  <2>8. SweepInv'
    BY <1>1, <2>6 DEF SweepInv
  <2>9. Seen'
    BY <1>1, <2>2, <2>4 DEF Seen
  <2>10. Ended'
    BY <2>1 DEF Ended
  <2>. QED
    BY <2>7, <2>8, <2>9, <2>10 DEF IInv
<1>. QED
  BY <1>3, <1>4

(* An iteration that takes a full row out. *)
LEMMA TakeRow ==
  ASSUME IInv, y >= 0, ~done, FullRow, before' = before
  PROVE  IInv'
<1>1. /\ TypeOK /\ SweepInv /\ Seen /\ before' = before
      /\ board[y] = Col /\ board' = ShiftDown(board)
      /\ lines_cleared' = lines_cleared + 1 /\ y' = y /\ done' = done
  BY DEF IInv, FullRow
<1>2. y \in Row /\ Source \in Row /\ before[Source] = Col /\ Col # {}
  <2>1. 0 \in Col
    BY BoardAssumption DEF Col, PIECE_SIZE
  <2>. QED
    BY <1>1, <2>1, RowLookedAt
<1>3. /\ Cleared \in SUBSET Row /\ Source \in Int
      /\ \A f \in Cleared : f > Source
      /\ Source + Cardinality(Cleared) = y
      /\ lines_cleared = Cardinality(Cleared)
      /\ y \in Int /\ lines_cleared \in Int /\ BOARD_HEIGHT \in Int
  BY <1>1, ClearedRows
<1>4. Source' = Source - 1
  BY <1>1, <1>3 DEF Source
<1>5. \A r \in Row : r \in Int /\ (r > Source' <=> r > Source \/ r = Source)
  BY <1>3, <1>4 DEF Row
<1>6. Source \in FullRows(before)
  <2>1. ASSUME NEW q \in Source .. BOARD_HEIGHT - 1  PROVE before[q] # {}
    <3>1. q \in Row /\ (q = Source \/ q > Source)
      BY <1>2, <1>3 DEF Row
    <3>. QED
      BY <1>1, <1>2, <3>1 DEF Seen
  <2>. QED
    BY <1>2, <2>1 DEF FullRows
<1>7. Cleared' = Cleared \cup {Source}
  <2>1. Cleared' = {r \in FullRows(before) : r > Source'}
    BY <1>1 DEF Cleared, Source
  <2>2. Cleared = {r \in FullRows(before) : r > Source}
    BY DEF Cleared, Source
  <2>3. \A r \in FullRows(before) : r > Source' <=> r > Source \/ r = Source
    BY <1>5 DEF FullRows
  <2>. QED
    BY <1>6, <2>1, <2>2, <2>3
<1>8. /\ Cleared' \in SUBSET Row
      /\ lines_cleared' = Cardinality(Cleared')
      /\ lines_cleared' \in 0 .. BOARD_HEIGHT
  <2>1. Cleared' \in SUBSET Row
    BY <1>2, <1>3, <1>7
  <2>2. Source \notin Cleared /\ IsFiniteSet(Cleared)
    BY <1>3, RowFinite
  <2>3. Cardinality(Cleared \cup {Source}) = Cardinality(Cleared) + 1
    BY <2>2, FS_AddElement
  <2>4. lines_cleared' = Cardinality(Cleared')
    BY <1>1, <1>3, <1>7, <2>3
  <2>5. Cardinality(Cleared') \in 0 .. BOARD_HEIGHT
    BY <2>1, RowFinite
  <2>. QED
    BY <2>1, <2>4, <2>5
<1>9. board' = [r \in Row |-> UNION {before[q] : q \in Sources(r, Cleared')}]
  <2>1. board = [r \in Row |-> UNION {before[q] : q \in Sources(r, Cleared)}]
    BY <1>1, BoardOf
  <2>2. ASSUME NEW r \in Row
        PROVE  (IF r > y THEN board[r] ELSE IF r > 0 THEN board[r - 1] ELSE {})
                 = UNION {before[q] : q \in Sources(r, Cleared')}
    <3>1. /\ r > y => Sources(r, Cleared') = Sources(r, Cleared)
          /\ r <= y /\ r > 0 => Sources(r, Cleared') = Sources(r - 1, Cleared)
          /\ r <= y /\ r = 0 => Sources(r, Cleared') = {}
      BY <1>2, <1>3, <1>7, SourcesShift
    <3>2. r \in Int /\ r >= 0 /\ (r > 0 => r - 1 \in Row)
      BY <1>3 DEF Row
    <3>3. CASE r > y
      <4>1. board[r] = UNION {before[q] : q \in Sources(r, Cleared)}
        BY <2>1
      <4>. QED
        BY <3>1, <3>3, <4>1
    <3>4. CASE r <= y /\ r > 0
      <4>1. board[r - 1] = UNION {before[q] : q \in Sources(r - 1, Cleared)}
        BY <2>1, <3>2, <3>4
      <4>2. ~(r > y)
        BY <1>3, <3>2, <3>4
      <4>. QED
        BY <3>1, <3>4, <4>1, <4>2
    <3>5. CASE r <= y /\ r = 0
      <4>1. ~(r > y) /\ ~(r > 0)
        BY <1>3, <3>2, <3>5
      <4>2. UNION {before[q] : q \in {}} = {}
        OBVIOUS
      <4>. QED
        BY <3>1, <3>5, <4>1, <4>2
    <3>. QED
      BY <1>3, <3>2, <3>3, <3>4, <3>5
  <2>. QED
    BY <1>1, <2>2 DEF ShiftDown
<1>10. SweepInv'
  <2>1. board' = [r \in Row |-> UNION {before'[q] : q \in Sources(r, Cleared')}]
    BY <1>1, <1>9
  <2>. QED
    BY <1>8, <2>1 DEF SweepInv, Sources
<1>11. TypeOK'
  <2>1. ASSUME NEW r \in Row
        PROVE  (IF r > y THEN board[r] ELSE IF r > 0 THEN board[r - 1] ELSE {})
                 \in SUBSET Col
    <3>1. r > 0 => r - 1 \in Row
      BY <1>3 DEF Row
    <3>2. \A k \in Row : board[k] \in SUBSET Col
      BY <1>1 DEF TypeOK
    <3>. QED
      BY <3>1, <3>2
  <2>2. board' \in [Row -> SUBSET Col]
    BY <1>1, <2>1 DEF ShiftDown
  <2>. QED
    BY <1>1, <1>8, <2>2 DEF TypeOK
<1>12. Seen'
  BY <1>1, <1>2, <1>5 DEF Seen
<1>13. Ended'
  BY <1>1 DEF Ended
<1>. QED
  BY <1>10, <1>11, <1>12, <1>13 DEF IInv

LEMMA NextInv == IInv /\ [Next]_vars => IInv'
<1>. SUFFICES ASSUME IInv, [Next]_vars  PROVE IInv'
  OBVIOUS
<1>1. CASE Iterate
  BY <1>1, LeaveRow, TakeRow DEF Iterate
<1>2. CASE Top
  <2>1. /\ TypeOK /\ SweepInv /\ Seen /\ y < 0 /\ done' = TRUE
        /\ before' = before /\ board' = board /\ y' = y
        /\ lines_cleared' = lines_cleared
    BY <1>2 DEF IInv, Top
  <2>2. Source < 0 /\ Source \notin Row
    <3>1. Cardinality(Cleared) >= 0 /\ Cardinality(Cleared) \in Int
      BY <2>1, ClearedRows, RowFinite
    <3>2. Source < 0
      BY <2>1, <3>1, ClearedRows
    <3>. QED
      BY <2>1, <3>2, ClearedRows DEF Row
  <2>3. Cleared = FullRows(before)
    BY <2>1, <2>2, NothingLeft
  <2>4. Cleared' = Cleared /\ Source' = Source
    BY <2>1 DEF Cleared, Source
  <2>5. TypeOK'
    <3>1. done' \in BOOLEAN
      BY <2>1, Zenon
    <3>. QED
      BY <2>1, <3>1 DEF TypeOK
  <2>6. SweepInv' /\ Seen' /\ Ended'
    BY <2>1, <2>3, <2>4 DEF SweepInv, Seen, Ended
  <2>. QED
    BY <2>5, <2>6 DEF IInv
<1>3. CASE UNCHANGED vars
  <2>1. /\ before' = before /\ board' = board /\ y' = y
        /\ lines_cleared' = lines_cleared /\ (done' <=> done)
        /\ done' = done
    BY <1>3 DEF vars
  <2>2. Cleared' = Cleared /\ Source' = Source
    BY <2>1 DEF Cleared, Source
  <2>3. TypeOK'
    BY <2>1 DEF IInv, TypeOK
  <2>4. SweepInv' /\ Seen'
    BY <2>1, <2>2 DEF IInv, SweepInv, Seen
  <2>5. Ended'
    BY <2>1, <2>2 DEF IInv, Ended
  <2>. QED
    BY <2>3, <2>4, <2>5 DEF IInv
<1>. QED
  BY <1>1, <1>2, <1>3 DEF Next

LEMMA Invariance == Spec => []IInv
  BY InitInv, NextInv, PTL DEF Spec

-----------------------------------------------------------------------------
(* The variables of check_row keep their types: the loop variable stays on *)
(* the board, and no more lines are counted than there are.                *)
THEOREM TypeCorrect == Spec => []TypeOK
<1>1. IInv => TypeOK
  BY DEF IInv
<1>. QED
  BY <1>1, Invariance, PTL

(* In every iteration of check_row the board is the first one without the  *)
(* full rows among those looked at, the rows above each moved down by one. *)
THEOREM SweepCorrect == Spec => []SweepInv
<1>1. IInv => SweepInv
  BY DEF IInv
<1>. QED
  BY <1>1, Invariance, PTL

(* When the loop of check_row ends, it has taken out exactly the full rows *)
(* below the first empty one, and every other row has fallen by the number *)
(* of those taken out below it.                                            *)
THEOREM SweepIsClosedForm == Spec => []ClosedForm
<1>1. IInv => ClosedForm
  <2>. SUFFICES ASSUME IInv, done  PROVE ClosedForm
    BY DEF ClosedForm
  <2>1. SweepInv /\ Cleared = FullRows(before)
    BY DEF IInv, Ended
  <2>2. board = check_row(before)
    BY <2>1 DEF SweepInv, check_row
  <2>3. lines_cleared = Cardinality(FullRows(before))
    BY <2>1 DEF SweepInv
  <2>. QED
    BY <2>2, <2>3 DEF ClosedForm
<1>. QED
  BY <1>1, Invariance, PTL
=============================================================================
