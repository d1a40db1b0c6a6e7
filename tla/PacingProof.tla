---------------------------- MODULE PacingProof -----------------------------
(***************************************************************************)
(* Proofs about the counters of the game, for every choice of the          *)
(* constants: the speed follows the lines, automatic drops come in time    *)
(* and the clock is exact.                                                 *)
(***************************************************************************)
EXTENDS Pacing, TLAPS

(* That drops come in time rests on the speed never being 0, and that on   *)
(* the speed being that of the lines.                                      *)
IInv == TypeOK /\ SpeedOfLines /\ ClockExact

-----------------------------------------------------------------------------
(* Quotients and products by a divisor that is a constant of the module.   *)

LEMMA DivMonotone ==
  ASSUME NEW d \in Nat \ {0}, NEW a \in Nat, NEW b \in Nat, a <= b
  PROVE  a \div d \in Nat /\ b \div d \in Nat /\ a \div d <= b \div d
  OBVIOUS

LEMMA ProductMonotone ==
  ASSUME NEW d \in Nat, NEW a \in Int, NEW b \in Int, a <= b
  PROVE  a * d \in Int /\ b * d \in Int /\ a * d <= b * d
  OBVIOUS

LEMMA LevelProperties ==
  ASSUME NEW a \in Nat, NEW b \in Nat, a <= b
  PROVE  /\ LevelAfter(a) \in Nat \ {0} /\ LevelAfter(b) \in Nat \ {0}
         /\ LevelAfter(a) <= LevelAfter(b)
<1>1. LINES_PER_LEVEL \in Nat \ {0}
  BY PacingAssumption
<1>2. /\ a \div LINES_PER_LEVEL \in Nat /\ b \div LINES_PER_LEVEL \in Nat
      /\ a \div LINES_PER_LEVEL <= b \div LINES_PER_LEVEL
  BY <1>1, DivMonotone
<1>. QED
  BY <1>2 DEF LevelAfter

(* uint32_t arithmetic. *)
LEMMA WordProperties ==
  /\ \A n \in Int : Word(n) \in 0 .. WordMod - 1
  /\ \A n \in 0 .. WordMod - 1 : Word(n) = n
<1>1. WordMod \in Nat /\ WordMod > 0
  BY PacingAssumption
<1>. QED
  BY <1>1 DEF Word

(* The speed of a level is a word, and between its limits when the         *)
(* subtraction does not underflow.                                         *)
LEMMA SpeedProperties ==
  ASSUME NEW lvl \in Nat \ {0}
  PROVE  /\ SpeedAt(lvl) \in 1 .. WordMod - 1
         /\ lvl * FRAMES_PER_LEVEL <= INITIAL_FRAMES_PER_DROP =>
              SpeedAt(lvl) \in MIN_FRAMES_PER_DROP .. INITIAL_FRAMES_PER_DROP
<1>. DEFINE p == lvl * FRAMES_PER_LEVEL
            n == INITIAL_FRAMES_PER_DROP - p
<1>1. /\ p \in Nat
      /\ INITIAL_FRAMES_PER_DROP \in Nat /\ WordMod \in Nat
      /\ MIN_FRAMES_PER_DROP \in Nat \ {0}
      /\ MIN_FRAMES_PER_DROP < INITIAL_FRAMES_PER_DROP
      /\ INITIAL_FRAMES_PER_DROP < WordMod
  BY PacingAssumption
<1>2. SpeedAt(lvl) = IF Word(n) < MIN_FRAMES_PER_DROP
                     THEN MIN_FRAMES_PER_DROP ELSE Word(n)
  BY DEF SpeedAt
<1>. HIDE DEF p
<1>3. n \in Int /\ Word(n) \in 0 .. WordMod - 1
  BY <1>1, WordProperties
<1>4. p <= INITIAL_FRAMES_PER_DROP => Word(n) = n
  BY <1>1, WordProperties
<1>. HIDE DEF n
<1>5. SpeedAt(lvl) \in 1 .. WordMod - 1
  BY <1>1, <1>2, <1>3
<1>6. p <= INITIAL_FRAMES_PER_DROP =>
        SpeedAt(lvl) \in MIN_FRAMES_PER_DROP .. INITIAL_FRAMES_PER_DROP
  BY <1>1, <1>2, <1>3, <1>4 DEF n
<1>. QED
  BY <1>5, <1>6 DEF p

-----------------------------------------------------------------------------
(* What a dropped piece does to lines, level, score and speed. *)
LEMMA DropProgress ==
  ASSUME TypeOK, SpeedOfLines, drop_piece
  PROVE  /\ full_lines' \in 0 .. MaxLines /\ level' \in Nat \ {0}
         /\ level' >= level
         /\ score' \in 0 .. WordMod - 1 /\ frames_per_drop' \in 0 .. WordMod - 1
         /\ state' \in GameState
         /\ SpeedOfLines'
<1>1. PICK n \in 0 .. Len(line_scores) :
        /\ full_lines + n <= MaxLines
        /\ check_row(n)
        /\ state' \in {state, "game over"}
  BY DEF drop_piece
<1>. DEFINE new_level == LevelAfter(full_lines + n)
<1>2. /\ full_lines \in Nat /\ n \in Nat /\ MaxLines \in Nat
      /\ full_lines + n \in Nat /\ full_lines <= full_lines + n
      /\ full_lines + n <= MaxLines
  <2>1. MaxLines \in Nat /\ line_scores \in Seq(Nat)
    BY PacingAssumption
  <2>2. PICK len \in Nat : len = Len(line_scores)
    BY <2>1
  <2>3. n \in 0 .. len /\ full_lines + n <= MaxLines
    BY <1>1, <2>2
  <2>4. full_lines \in 0 .. MaxLines
    BY DEF TypeOK
  <2>. QED
    BY <2>1, <2>3, <2>4
<1>3. level = LevelAfter(full_lines)
  BY DEF SpeedOfLines
<1>4. level \in Nat \ {0} /\ new_level \in Nat \ {0} /\ level <= new_level
  BY <1>2, <1>3, LevelProperties
<1>5. /\ full_lines' = full_lines + n
      /\ score' = Word(score + (IF n > 0 THEN line_scores[n] * level' ELSE 0))
      /\ \/ /\ new_level > level /\ level' = new_level
            /\ frames_per_drop' = SpeedAt(new_level)
         \/ /\ new_level <= level
            /\ level' = level /\ frames_per_drop' = frames_per_drop
  BY <1>1 DEF check_row
<1>. HIDE DEF new_level
<1>6. full_lines' \in 0 .. MaxLines
  <2>1. full_lines' = full_lines + n
    BY <1>5
  <2>. QED
    BY <1>2, <2>1
<1>7. level' = new_level /\ level' \in Nat \ {0} /\ level' >= level
  BY <1>4, <1>5
<1>8. score' \in 0 .. WordMod - 1
  <2>1. score \in Nat
    BY PacingAssumption DEF TypeOK
  <2>2. CASE n > 0
    <3>1. line_scores[n] \in Nat
      <4>1. line_scores \in Seq(Nat) /\ n \in 1 .. Len(line_scores)
        BY <2>2, PacingAssumption
      <4>. QED
        BY <4>1
    <3>2. line_scores[n] * level' \in Nat
      BY <1>7, <3>1
    <3>. QED
      BY <1>5, <2>1, <2>2, <3>2, WordProperties
  <2>3. CASE n = 0
    BY <1>5, <2>1, <2>3, WordProperties
  <2>. QED
    BY <1>2, <2>2, <2>3
<1>9. frames_per_drop' \in 0 .. WordMod - 1
  <2>1. CASE new_level > level
    <3>1. frames_per_drop' = SpeedAt(new_level)
      BY <1>4, <1>5, <2>1
    <3>2. SpeedAt(new_level) \in 1 .. WordMod - 1
      BY <1>4, SpeedProperties
    <3>3. WordMod \in Nat
      BY PacingAssumption
    <3>. QED
      BY <3>1, <3>2, <3>3
  <2>2. CASE new_level <= level
    <3>1. frames_per_drop' = frames_per_drop
      BY <1>4, <1>5, <2>2
    <3>. QED
      BY <3>1 DEF TypeOK
  <2>. QED
    BY <1>4, <2>1, <2>2
<1>10. state' \in GameState
  BY <1>1 DEF TypeOK, GameState
<1>11. SpeedOfLines'
  <2>1. level' = LevelAfter(full_lines')
    BY <1>5, <1>7 DEF new_level
  <2>2. CASE new_level > level
    BY <1>4, <1>5, <2>1, <2>2 DEF SpeedOfLines
  <2>3. CASE new_level = level
    BY <1>4, <1>5, <2>1, <2>3 DEF SpeedOfLines
  <2>. QED
    BY <1>4, <2>2, <2>3
<1>. QED
  BY <1>6, <1>7, <1>8, <1>9, <1>10, <1>11

LEMMA SpeedInLimits == TypeOK /\ SpeedOfLines => SpeedLimits
<1>. SUFFICES ASSUME TypeOK, SpeedOfLines, NoUnderflow
              PROVE  frames_per_drop \in MIN_FRAMES_PER_DROP .. INITIAL_FRAMES_PER_DROP
  BY DEF SpeedLimits
<1>1. level \in Nat \ {0}
  <2>1. full_lines \in Nat /\ full_lines <= full_lines
    BY PacingAssumption DEF TypeOK
  <2>. QED
    BY <2>1, LevelProperties DEF SpeedOfLines
<1>2. CASE level = 1
  BY <1>2, PacingAssumption DEF SpeedOfLines
<1>3. CASE level # 1
  BY <1>1, <1>3, SpeedProperties DEF SpeedOfLines, NoUnderflow
<1>. QED
  BY <1>2, <1>3

-----------------------------------------------------------------------------
(* The clock. *)

(* A frame moves the clock on by one, modulo all the frames it can show.   *)
LEMMA TickExact ==
  ASSUME TypeOK, ClockExact, Tick,
         played' = (played + 1) % (WordMod * FRAMES_PER_SECOND)
  PROVE  /\ seconds_counter' \in 0 .. FRAMES_PER_SECOND - 1
         /\ time' \in 0 .. WordMod - 1
         /\ played' \in 0 .. WordMod * FRAMES_PER_SECOND - 1
         /\ ClockExact'
<1>. DEFINE F == FRAMES_PER_SECOND
            all == WordMod * F
<1>1. /\ F \in Nat \ {0} /\ WordMod \in Nat \ {0} /\ WordMod > 1
  BY PacingAssumption
<1>2. /\ time \in 0 .. WordMod - 1 /\ seconds_counter \in 0 .. F - 1
      /\ played = time * F + seconds_counter
  BY DEF TypeOK, ClockExact
<1>3. played' = (played + 1) % all
  OBVIOUS
<1>4. /\ Word(time + 1) \in 0 .. WordMod - 1
      /\ time + 1 < WordMod => Word(time + 1) = time + 1
      /\ time + 1 = WordMod => Word(time + 1) = 0
  BY <1>1, <1>2 DEF Word
<1>5. /\ all \in Nat \ {0} /\ time * F \in Nat
      /\ (time + 1) * F = time * F + F
      /\ time * F + F <= all
      /\ time + 1 < WordMod => time * F + F < all
      /\ time + 1 = WordMod => time * F + F = all
  <2>1. time * F \in Nat /\ (time + 1) * F = time * F + F
    BY <1>1, <1>2
  <2>2. all \in Nat /\ (time + 1) * F <= all
    BY <1>1, <1>2, ProductMonotone
  <2>3. ASSUME time + 1 < WordMod  PROVE (time + 1) * F < all
    <3>1. (time + 2) * F <= all /\ (time + 2) * F = (time + 1) * F + F
      BY <1>1, <1>2, <2>3, ProductMonotone
    <3>. QED
      BY <1>1, <2>1, <2>2, <3>1
  <2>. QED
    BY <1>1, <2>1, <2>2, <2>3
<1>. HIDE DEF F, all
<1>6. \A m \in 0 .. all - 1 : m % all = m
  BY <1>5
<1>7. all % all = 0
  BY <1>5
<1>8. CASE seconds_counter + 1 < F
  <2>1. seconds_counter' = seconds_counter + 1 /\ time' = time
    BY <1>1, <1>2, <1>8 DEF Tick, F
  <2>2. played + 1 \in 0 .. all - 1
    BY <1>1, <1>2, <1>5, <1>8
  <2>3. played' = time' * F + seconds_counter'
    BY <1>2, <1>3, <1>5, <1>6, <2>1, <2>2
  <2>4. played' \in 0 .. all - 1
    BY <1>3, <1>6, <2>2
  <2>5. seconds_counter' \in 0 .. F - 1
    BY <1>1, <1>2, <1>8, <2>1
  <2>. QED
    BY <1>2, <2>1, <2>3, <2>4, <2>5 DEF ClockExact, F, all
<1>9. CASE seconds_counter + 1 >= F
  <2>1. seconds_counter' = 0 /\ time' = Word(time + 1)
    BY <1>1, <1>2, <1>9 DEF Tick, F
  <2>2. played + 1 = time * F + F
    BY <1>1, <1>2, <1>5, <1>9
  <2>3. CASE time + 1 < WordMod
    <3>1. played' = time * F + F
      BY <1>1, <1>3, <1>5, <1>6, <2>2, <2>3
    <3>. QED
      BY <1>1, <1>4, <1>5, <2>1, <2>3, <3>1 DEF ClockExact, F, all
  <2>4. CASE time + 1 = WordMod
    <3>1. played' = 0
      BY <1>3, <1>5, <1>7, <2>2, <2>4
    <3>. QED
      BY <1>1, <1>4, <1>5, <2>1, <2>4, <3>1 DEF ClockExact, F, all
  <2>. QED
    BY <1>1, <1>2, <2>3, <2>4
<1>. QED
  BY <1>1, <1>2, <1>8, <1>9

-----------------------------------------------------------------------------
(* The score. *)

LEMMA ProductCancels ==
  ASSUME NEW n \in Nat \ {0}, NEW a \in Nat, NEW b \in Nat, n * a <= n * b
  PROVE  a <= b
<1>. SUFFICES ASSUME b + 1 <= a  PROVE FALSE
  OBVIOUS
<1>1. (b + 1) * n <= a * n
  BY ProductMonotone
<1>2. (b + 1) * n = n * b + n /\ a * n = n * a
  OBVIOUS
<1>3. n * a \in Nat /\ n * b \in Nat
  OBVIOUS
<1>. QED
  BY <1>1, <1>2, <1>3

(* A score s of l lines, at most a for n lines, is made larger by k lines  *)
(* worth b.  Whichever of a for n and b for k is more a line still bounds  *)
(* it; v is the level.                                                     *)
LEMMA BestOfTwo ==
  ASSUME NEW n \in Nat \ {0}, NEW k \in Nat \ {0}, NEW a \in Nat, NEW b \in Nat,
         NEW s \in Nat, NEW l \in Nat, NEW v \in Nat, n * s <= a * (l * v)
  PROVE  \/ n * (s + b * v) <= a * ((l + k) * v)
         \/ k * (s + b * v) <= b * ((l + k) * v)
<1>1. /\ n * b \in Nat /\ a * k \in Nat /\ l * v \in Nat /\ b * v \in Nat
      /\ k * v \in Nat /\ n * s \in Nat /\ k * s \in Nat
  OBVIOUS
<1>2. (l + k) * v = l * v + k * v
  OBVIOUS
<1>3. CASE n * b <= a * k
  <2>1. n * (s + b * v) = n * s + (n * b) * v
    BY <1>1
  <2>2. a * ((l + k) * v) = a * (l * v) + (a * k) * v
    BY <1>1, <1>2
  <2>3. (n * b) * v <= (a * k) * v
    BY <1>1, <1>3, ProductMonotone
  <2>4. (n * b) * v \in Nat /\ (a * k) * v \in Nat /\ a * (l * v) \in Nat
    BY <1>1
  <2>. QED
    BY <1>1, <2>1, <2>2, <2>3, <2>4
<1>4. CASE a * k <= n * b
  <2>1. k * (n * s) <= k * (a * (l * v))
    <3>1. a * (l * v) \in Nat
      BY <1>1
    <3>2. (n * s) * k <= (a * (l * v)) * k
      BY <1>1, <3>1, ProductMonotone
    <3>. QED
      BY <1>1, <3>1, <3>2
  <2>2. k * (a * (l * v)) = (a * k) * (l * v)
    BY <1>1
  <2>3. (a * k) * (l * v) <= (n * b) * (l * v)
    BY <1>1, <1>4, ProductMonotone
  <2>4. k * (n * s) = n * (k * s)
    BY <1>1
  <2>5. (n * b) * (l * v) = n * (b * (l * v))
    BY <1>1
  <2>6. b * (l * v) \in Nat
    BY <1>1
  <2>7. n * (k * s) <= n * (b * (l * v))
    <3>1. /\ n * (k * s) \in Nat /\ n * (b * (l * v)) \in Nat
          /\ (a * k) * (l * v) \in Nat
      BY <1>1, <2>6
    <3>. QED
      BY <2>1, <2>2, <2>3, <2>4, <2>5, <3>1
  <2>8. k * s <= b * (l * v)
    BY <1>1, <2>6, <2>7, ProductCancels
  <2>9. k * (s + b * v) = k * s + b * (k * v)
    BY <1>1
  <2>10. b * ((l + k) * v) = b * (l * v) + b * (k * v)
    BY <1>1, <1>2
  <2>11. b * (k * v) \in Nat
    BY <1>1
  <2>. QED
    BY <1>1, <2>6, <2>8, <2>9, <2>10, <2>11
<1>. QED
  BY <1>1, <1>3, <1>4

(* The bound grows with the level. *)
LEMMA BoundGrows ==
  ASSUME NEW p \in Int, NEW a \in Nat, NEW l \in Nat, NEW u \in Nat, NEW v \in Nat,
         u <= v, p <= a * (l * u)
  PROVE  p <= a * (l * v)
<1>1. a * l \in Nat
  OBVIOUS
<1>2. u * (a * l) <= v * (a * l)
  BY <1>1, ProductMonotone
<1>3. u * (a * l) = a * (l * u) /\ v * (a * l) = a * (l * v)
  OBVIOUS
<1>4. a * (l * u) \in Nat /\ a * (l * v) \in Nat
  OBVIOUS
<1>. QED
  BY <1>2, <1>3, <1>4

(* The best worth of the lines grows with the lines and the level. *)
LEMMA WorthGrows ==
  ASSUME NEW a \in Nat, NEW l \in Nat, NEW k \in Nat, NEW u \in Nat, NEW v \in Nat,
         u <= v
  PROVE  a * l * u <= a * (l + k) * v
<1>1. a * l \in Nat /\ a * k \in Nat /\ a * (l + k) = a * l + a * k
  OBVIOUS
<1>2. PICK p \in Nat, q \in Nat : p = a * l /\ q = a * k /\ a * (l + k) = p + q
  BY <1>1
<1>3. p * u \in Nat /\ p * v \in Nat /\ q * v \in Nat /\ (p + q) * v = p * v + q * v
  OBVIOUS
<1>4. u * p <= v * p
  BY ProductMonotone
<1>. QED
  BY <1>2, <1>3, <1>4

(* A word is what n times of which is less than n times the words. *)
LEMMA FitsWord ==
  ASSUME NEW n \in Nat \ {0}, NEW s \in Nat, NEW c \in Int,
         n * s <= c, c < n * WordMod
  PROVE  Word(s) = s
<1>1. WordMod \in Nat
  BY PacingAssumption
<1>2. s < WordMod
  <2>. SUFFICES ASSUME WordMod <= s  PROVE FALSE
    BY <1>1
  <2>1. WordMod * n <= s * n
    BY <1>1, ProductMonotone
  <2>2. n * s \in Nat /\ n * WordMod \in Nat /\ s * n = n * s /\ WordMod * n = n * WordMod
    BY <1>1
  <2>. QED
    BY <2>1, <2>2
<1>. QED
  BY <1>1, <1>2, WordProperties

(* k lines at once, each worth at least w, at a level v. *)
LEMMA WorthSingles ==
  ASSUME NEW w \in Nat, NEW l \in Nat, NEW k \in Nat, NEW b \in Nat, NEW s \in Nat,
         NEW v \in Nat \ {0}, w * l <= s, k * w <= b
  PROVE  w * (l + k) <= s + b * v
<1>1. w * (l + k) = w * l + k * w
  OBVIOUS
<1>2. 1 * b <= v * b
  BY ProductMonotone
<1>3. b <= b * v
  BY <1>2
<1>4. w * l \in Nat /\ k * w \in Nat /\ b * v \in Nat
  OBVIOUS
<1>. QED
  BY <1>1, <1>3, <1>4

(* No line is worth less than a single one, and one number of lines at     *)
(* once is the best that was ever made of them.                            *)
LEMMA DropScore ==
  ASSUME TypeOK, SpeedOfLines, ScoreOfLines, drop_piece
  PROVE  ScoreOfLines'
<1>. DEFINE S == 1 .. Len(line_scores)
<1>. SUFFICES ASSUME ScoreFits'
              PROVE  /\ score' >= line_scores[1] * full_lines'
                     /\ \E n \in S : n * score' <= line_scores[n] * full_lines' * level'
  BY DEF ScoreOfLines, BestWorth
<1>1. PICK k \in 0 .. Len(line_scores) : check_row(k)
  BY DEF drop_piece
<1>2. /\ \A i \in S : line_scores[i] \in Nat /\ line_scores[i] >= i * line_scores[1]
      /\ Len(line_scores) \in Nat /\ 1 \in S
      /\ WordMod \in Nat
  BY PacingAssumption, ScoreAssumption
<1>3. /\ full_lines \in Nat /\ score \in 0 .. WordMod - 1
      /\ full_lines' = full_lines + k
      /\ score' = Word(score + (IF k > 0 THEN line_scores[k] * level' ELSE 0))
      /\ level \in Nat /\ level' \in Nat \ {0} /\ level <= level'
  <2>1. full_lines \in Nat
    BY PacingAssumption DEF TypeOK
  <2>2. level' \in Nat \ {0} /\ level <= level'
    BY DropProgress
  <2>. QED
    BY <1>1, <2>1, <2>2 DEF TypeOK, check_row
<1>4. PICK l \in Nat, s \in Nat, v \in Nat \ {0}, u \in Nat, w \in Nat :
        /\ l = full_lines /\ s = score /\ v = level' /\ u = level
        /\ w = line_scores[1] /\ u <= v /\ k \in Nat
  <2>1. k \in Nat /\ line_scores[1] \in Nat
    BY <1>2
  <2>2. full_lines \in Nat /\ score \in Nat /\ level' \in Nat \ {0} /\ level \in Nat
    BY <1>2, <1>3
  <2>3. level <= level'
    BY <1>3
  <2>. QED
    BY <2>1, <2>2, <2>3
<1>5. \A i \in S : line_scores[i] * (l + k) * v < i * WordMod
  BY <1>3, <1>4 DEF ScoreFits, BestWorth
<1>6. ScoreFits
  <2>. SUFFICES ASSUME NEW i \in S  PROVE line_scores[i] * l * u < i * WordMod
    BY <1>4 DEF ScoreFits, BestWorth
  <2>1. PICK a \in Nat : a = line_scores[i]
    BY <1>2
  <2>2. a * l * u <= a * (l + k) * v
    BY <1>4, WorthGrows
  <2>3. a * l * u \in Int /\ a * (l + k) * v \in Int /\ i * WordMod \in Int
    BY <1>2, <1>4
  <2>4. a * (l + k) * v < i * WordMod
    BY <1>5, <2>1, Zenon
  <2>. DEFINE b == a * l * u
              c == a * (l + k) * v
              d == i * WordMod
  <2>5. b \in Int /\ c \in Int /\ d \in Int /\ b <= c /\ c < d
    BY <2>2, <2>3, <2>4, Zenon
  <2>6. b < d
    <3>. HIDE DEF b, c, d
    <3>. QED
      BY <2>5
  <2>. QED
    BY <2>1, <2>6, Zenon
<1>7. PICK n \in S : n * s <= line_scores[n] * l * u
  <2>1. PICK m \in S : m * score <= BestWorth(m)
    BY <1>6 DEF ScoreOfLines
  <2>2. m * s <= line_scores[m] * l * u
    BY <1>4, <2>1 DEF BestWorth
  <2>. QED
    BY <2>2
<1>8. w * l <= s
  BY <1>4, <1>6 DEF ScoreOfLines
<1>9. n \in Nat \ {0} /\ n * s <= line_scores[n] * (l * v)
  <2>1. PICK a \in Nat : a = line_scores[n]
    BY <1>2
  <2>2. n \in Nat \ {0} /\ a * l * u = a * (l * u) /\ n * s \in Int
    BY <1>2, <1>4, <2>1
  <2>3. n * s <= a * (l * u)
    BY <1>7, <2>1, <2>2
  <2>4. n * s <= a * (l * v)
    BY <1>4, <2>2, <2>3, BoundGrows
  <2>. QED
    BY <2>1, <2>2, <2>4
<1>10. CASE k = 0
  <2>1. score' = s /\ full_lines' = l
    BY <1>3, <1>4, <1>10, WordProperties
  <2>2. line_scores[n] * (l * v) = line_scores[n] * l * v
    BY <1>2, <1>4
  <2>. QED
    BY <1>4, <1>8, <1>9, <2>1, <2>2
<1>11. CASE k > 0
  <2>1. PICK a \in Nat, b \in Nat : a = line_scores[n] /\ b = line_scores[k] /\ b >= k * w
    BY <1>2, <1>4, <1>11
  <2>2. score' = Word(s + b * v) /\ full_lines' = l + k
    BY <1>3, <1>4, <1>11, <2>1
  <2>3. w * (l + k) <= s + b * v
    BY <1>4, <1>8, <2>1, WorthSingles
  <2>4. k \in Nat \ {0} /\ k \in S
    BY <1>2, <1>4, <1>11
  <2>5. \/ n * (s + b * v) <= a * ((l + k) * v)
        \/ k * (s + b * v) <= b * ((l + k) * v)
    <3>1. n * s <= a * (l * v)
      BY <1>9, <2>1
    <3>. QED
      BY <1>9, <2>4, <3>1, BestOfTwo
  <2>6. /\ a * ((l + k) * v) = a * (l + k) * v
        /\ b * ((l + k) * v) = b * (l + k) * v
        /\ a * (l + k) * v \in Int /\ b * (l + k) * v \in Int
        /\ s + b * v \in Nat
    <3>1. l + k \in Nat /\ b * v \in Nat /\ s + b * v \in Nat
      <4>1. k \in Nat
        BY <1>4
      <4>2. b * v \in Nat
        OBVIOUS
      <4>. QED
        BY <4>1, <4>2
    <3>2. PICK m \in Nat : m = l + k
      BY <3>1
    <3>3. /\ a * (m * v) = a * m * v /\ b * (m * v) = b * m * v
          /\ a * m * v \in Int /\ b * m * v \in Int
      OBVIOUS
    <3>. QED
      BY <3>1, <3>2, <3>3
  <2>7. PICK m \in {n, k} : m * (s + b * v) <= line_scores[m] * (l + k) * v
    BY <2>1, <2>5, <2>6
  <2>8. m \in S /\ m \in Nat \ {0} /\ line_scores[m] * (l + k) * v \in Int
    BY <1>9, <2>1, <2>4, <2>6
  <2>9. Word(s + b * v) = s + b * v
    <3>1. line_scores[m] * (l + k) * v < m * WordMod
      BY <1>5, <2>8
    <3>. QED
      BY <2>6, <2>7, <2>8, <3>1, FitsWord
  <2>. QED
    BY <1>4, <2>2, <2>3, <2>7, <2>8, <2>9
<1>. QED
  BY <1>4, <1>10, <1>11

-----------------------------------------------------------------------------
(* The invariant. *)

(* The counters at the start of a game. *)
NewGame ==
  /\ state \in GameState /\ dealt \in BOOLEAN
  /\ full_lines = 0 /\ level = 1 /\ score = 0
  /\ frames_per_drop = INITIAL_FRAMES_PER_DROP
  /\ frame_counter = 0 /\ seconds_counter = 0 /\ time = 0 /\ played = 0

LEMMA NewGameIInv == NewGame => IInv
<1>. SUFFICES ASSUME NewGame  PROVE IInv
  OBVIOUS
<1>1. /\ 0 \in 0 .. MaxLines /\ 0 \in 0 .. WordMod - 1
      /\ 0 \in 0 .. FRAMES_PER_SECOND - 1
      /\ INITIAL_FRAMES_PER_DROP \in 0 .. WordMod - 1
      /\ FRAMES_PER_SECOND \in Nat \ {0} /\ WordMod \in Nat \ {0}
  BY PacingAssumption
<1>2. 0 \in 0 .. WordMod * FRAMES_PER_SECOND - 1
  BY <1>1
<1>3. TypeOK
  BY <1>1, <1>2 DEF NewGame, TypeOK
<1>4. SpeedOfLines
  <2>1. 0 \div LINES_PER_LEVEL = 0
    BY PacingAssumption
  <2>. QED
    BY <2>1 DEF NewGame, SpeedOfLines, LevelAfter
<1>5. ClockExact
  BY PacingAssumption DEF NewGame, ClockExact
<1>. QED
  BY <1>3, <1>4, <1>5 DEF IInv

LEMMA InitIInv == Init => IInv
  BY NewGameIInv DEF Init, NewGame, GameState

LEMMA StepIInv == IInv /\ [Next]_vars => IInv'
<1>. SUFFICES ASSUME IInv, [Next]_vars  PROVE IInv'
  OBVIOUS
<1>. USE DEF IInv
<1>1. CASE KeyDrop
  <2>1. drop_piece /\ UNCHANGED <<dealt, frame_counter, clock>>
    BY <1>1 DEF KeyDrop
  <2>2. TypeOK'
    BY <2>1, DropProgress DEF TypeOK, clock
  <2>3. ClockExact'
    BY <2>1 DEF ClockExact, clock
  <2>. QED
    BY <2>1, <2>2, <2>3, DropProgress
<1>2. CASE StartGame \/ TogglePause
  <2>1. /\ UNCHANGED <<progress, frame_counter, clock>>
        /\ state' \in GameState /\ dealt' \in BOOLEAN
    BY <1>2 DEF StartGame, TogglePause, TypeOK, GameState
  <2>. QED
    BY <2>1 DEF progress, clock, TypeOK, SpeedOfLines, ClockExact
<1>3. CASE restart
  <2>1. NewGame'
    BY <1>3 DEF restart, NewGame, GameState
  <2>2. NewGame' => IInv'
    BY NewGameIInv, PTL
  <2>. QED
    BY <2>1, <2>2
<1>4. CASE Frame
  <2>1. /\ Tick /\ Fall
        /\ played' = (played + 1) % (WordMod * FRAMES_PER_SECOND)
        /\ dealt' = dealt /\ state = "active"
    BY <1>4 DEF Frame
  <2>2. /\ seconds_counter' \in 0 .. FRAMES_PER_SECOND - 1
        /\ time' \in 0 .. WordMod - 1
        /\ played' \in 0 .. WordMod * FRAMES_PER_SECOND - 1
        /\ ClockExact'
    BY <2>1, TickExact
  <2>3. CASE drop_piece /\ frame_counter' = 0
    <3>1. TypeOK'
      BY <2>1, <2>2, <2>3, DropProgress, PacingAssumption DEF TypeOK
    <3>. QED
      BY <2>2, <2>3, <3>1, DropProgress
  <2>4. CASE UNCHANGED <<progress, state>> /\ frame_counter' \in 0 .. WordMod - 1
    <3>1. TypeOK'
      BY <2>1, <2>2, <2>4 DEF TypeOK, progress
    <3>2. SpeedOfLines'
      BY <2>4 DEF progress, SpeedOfLines
    <3>. QED
      BY <2>2, <3>1, <3>2
  <2>5. CASE UNCHANGED <<progress, state>> /\ frame_counter' = 0
    BY <2>4, <2>5, PacingAssumption
  <2>6. CASE /\ ~DropDue /\ frame_counter' = Word(frame_counter + 1)
             /\ UNCHANGED <<progress, state>>
    <3>1. frame_counter + 1 \in Int
      BY PacingAssumption DEF TypeOK
    <3>. QED
      BY <2>4, <2>6, <3>1, WordProperties
  <2>. QED
    BY <2>1, <2>3, <2>5, <2>6 DEF Fall
<1>5. CASE UNCHANGED vars
  BY <1>5 DEF vars, progress, clock, TypeOK, SpeedOfLines, ClockExact
<1>. QED
  BY <1>1, <1>2, <1>3, <1>4, <1>5 DEF Next

(* No level is so fast that its pieces are not to wait at all. *)
LEMMA SpeedPositive == TypeOK /\ SpeedOfLines => frames_per_drop >= 1
<1>. SUFFICES ASSUME TypeOK, SpeedOfLines  PROVE frames_per_drop >= 1
  OBVIOUS
<1>1. level \in Nat \ {0}
  <2>1. full_lines \in Nat /\ full_lines <= full_lines
    BY PacingAssumption DEF TypeOK
  <2>. QED
    BY <2>1, LevelProperties DEF SpeedOfLines
<1>2. CASE level = 1
  BY <1>2, PacingAssumption DEF SpeedOfLines
<1>3. CASE level # 1
  BY <1>1, <1>3, SpeedProperties, PacingAssumption DEF SpeedOfLines
<1>. QED
  BY <1>2, <1>3

(* A frame either starts the count anew, or a drop is not due and the      *)
(* counter moves on by one without wrapping.                               *)
LEMMA FrameInTime ==
  ASSUME IInv, IInv', Frame
  PROVE  frame_counter' < frames_per_drop'
<1>1. CASE DropDue
  <2>1. frame_counter' = 0
    BY <1>1 DEF Frame, Fall
  <2>2. (TypeOK /\ SpeedOfLines => frames_per_drop >= 1)'
    BY SpeedPositive, PTL
  <2>3. frames_per_drop' \in Int
    BY DEF IInv, TypeOK
  <2>. QED
    BY <2>1, <2>2, <2>3 DEF IInv
<1>2. CASE ~DropDue
  <2>1. /\ frame_counter \in 0 .. WordMod - 1
        /\ frames_per_drop \in 0 .. WordMod - 1
        /\ WordMod \in Nat
    BY PacingAssumption DEF IInv, TypeOK
  <2>2. /\ frame_counter' = Word(frame_counter + 1)
        /\ frames_per_drop' = frames_per_drop
    BY <1>2 DEF Frame, Fall, progress
  <2>3. frame_counter + 1 < frames_per_drop
    BY <1>2, <2>1 DEF DropDue
  <2>4. frame_counter + 1 \in 0 .. WordMod - 1
    BY <2>1, <2>3
  <2>. QED
    BY <2>2, <2>3, <2>4, WordProperties
<1>. QED
  BY <1>1, <1>2

LEMMA Invariance == Spec => []IInv
  BY InitIInv, StepIInv, PTL DEF Spec

-----------------------------------------------------------------------------
(* The counters stay in their types; seconds and frames below their limits.*)
THEOREM TypeCorrect == Spec => []TypeOK
<1>1. IInv => TypeOK
  BY DEF IInv
<1>. QED
  BY <1>1, Invariance, PTL

(* Level and speed are those of the lines, in every game, whatever was     *)
(* dropped before, between and after games.                                *)
THEOREM SpeedFollowsLines == Spec => []SpeedOfLines
<1>1. IInv => SpeedOfLines
  BY DEF IInv
<1>. QED
  BY <1>1, Invariance, PTL

(* The speed is between its limits up to the level where the subtraction   *)
(* underflows.                                                             *)
THEOREM SpeedLimited == Spec => []SpeedLimits
<1>1. IInv => SpeedLimits
  BY SpeedInLimits DEF IInv
<1>. QED
  BY <1>1, Invariance, PTL

(* No frame leaves the counter at the drop time of the level or beyond it: *)
(* at every speed, also when the level was raised by key since the last    *)
(* frame, no automatic drop is more than a frame late.                     *)
THEOREM DropsOnTime == Spec => NeverOverdue
<1>1. IInv /\ [Next]_vars => [Frame => frame_counter' < frames_per_drop']_vars
  BY StepIInv, FrameInTime
<1>. QED
  BY <1>1, Invariance, PTL DEF Spec, NeverOverdue

(* The clock shows the frames played. *)
THEOREM ClockIsExact == Spec => []ClockExact
<1>1. IInv => ClockExact
  BY DEF IInv
<1>. QED
  BY <1>1, Invariance, PTL

(* The score is that of the lines of the running game: each is worth a     *)
(* single line at the first level or more, and at most what the best drop  *)
(* makes of it at the level reached.  It never wraps in a game whose best  *)
(* score fits a word.                                                      *)
THEOREM ScoreFollowsLines == Spec => []ScoreOfLines
<1>1. NewGame => ScoreOfLines
  <2>1. /\ 1 \in 1 .. Len(line_scores) /\ line_scores[1] \in Nat
    BY PacingAssumption, ScoreAssumption
  <2>2. /\ line_scores[1] * 0 = 0 /\ 1 * 0 = 0 /\ line_scores[1] * 0 * 1 = 0
    BY <2>1
  <2>. QED
    BY <2>1, <2>2 DEF NewGame, ScoreOfLines, BestWorth
<1>2. Init => ScoreOfLines
  BY <1>1 DEF Init, NewGame, GameState
<1>3. IInv /\ ScoreOfLines /\ [Next]_vars => ScoreOfLines'
  <2>. SUFFICES ASSUME IInv, ScoreOfLines, [Next]_vars  PROVE ScoreOfLines'
    OBVIOUS
  <2>1. CASE drop_piece
    BY <2>1, DropScore DEF IInv
  <2>2. CASE restart
    <3>1. NewGame'
      BY <2>2 DEF restart, NewGame, GameState, IInv, TypeOK
    <3>2. NewGame' => ScoreOfLines'
      BY <1>1, PTL
    <3>. QED
      BY <3>1, <3>2
  <2>3. CASE UNCHANGED progress
    BY <2>3 DEF progress, ScoreOfLines, ScoreFits, BestWorth
  <2>. QED
    BY <2>1, <2>2, <2>3 DEF Next, KeyDrop, StartGame, TogglePause, Frame, Fall,
                            vars
<1>. QED
  BY <1>2, <1>3, Invariance, PTL DEF Spec
=============================================================================
