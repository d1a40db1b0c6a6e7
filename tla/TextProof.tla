----------------------------- MODULE TextProof -----------------------------
(***************************************************************************)
(* Proofs about the texts of the kernel, for every heap, every size of the *)
(* first block and all requests whose arguments fit their formats: that no *)
(* directive ever misses its argument, type correctness, that a text       *)
(* overwrites no other, that a text which did not fit is made once more and*)
(* not again, and that what a log says of a message is the message.        *)
(***************************************************************************)
EXTENDS Text, WellFoundedInduction, FiniteSetTheorems, SequenceTheorems, TLAPS

(* Every set of numbers with 0 and, of each of its members, the successor. *)
LEMMA SetInduction ==
  ASSUME NEW S \in SUBSET Nat, 0 \in S, \A n \in S : n + 1 \in S
  PROVE  S = Nat
<1>. DEFINE R == {ss \in Nat \X Nat : ss[1] < ss[2]}
<1>. SUFFICES ASSUME S # Nat PROVE FALSE
  OBVIOUS
<1>1. IsWellFoundedOn(R, Nat)
  BY NatLessThanWellFounded DEF OpToRel
<1>. HIDE DEF R
<1>2. PICK x \in Nat \ S : \A y \in Nat \ S : ~(<<y, x>> \in R)
  BY <1>1, WFMin
<1>3. x - 1 \in Nat /\ x - 1 \in S
  <2>1. x - 1 \in Nat
    BY <1>2
  <2>2. <<x - 1, x>> \in R
    BY <2>1, <1>2 DEF R
  <2>. QED
    BY <2>1, <2>2, <1>2
<1>. QED
  BY <1>2, <1>3

(* The same where each number may rest on all that are smaller. *)
LEMMA StrongInduction ==
  ASSUME NEW S \in SUBSET Nat,
         \A n \in Nat : (\A k \in Nat : k < n => k \in S) => n \in S
  PROVE  S = Nat
<1>. DEFINE T == {n \in Nat : \A k \in Nat : k < n => k \in S}
<1>1. 0 \in T
  OBVIOUS
<1>2. ASSUME NEW n \in T PROVE n + 1 \in T
  <2>1. n \in S
    OBVIOUS
  <2>2. \A k \in Nat : k < n + 1 => k < n \/ k = n
    OBVIOUS
  <2>. QED
    BY <2>1, <2>2
<1>3. T = Nat
  <2>. HIDE DEF T
  <2>1. T \in SUBSET Nat
    BY DEF T
  <2>. QED
    BY <1>1, <1>2, <2>1, SetInduction
<1>. QED
  BY <1>3

-----------------------------------------------------------------------------
(* Digits of a number. *)

LEMMA DivisionSmaller ==
  ASSUME NEW n \in Nat \ {0}, NEW base \in Nat, base >= 2
  PROVE  n \div base \in Nat /\ n \div base < n
<1>1. n \div base \in Nat /\ base * (n \div base) <= n
  BY SMTT(30)
<1>2. \A q \in Nat : base * q <= n => q < n
  <2>. TAKE q \in Nat
  <2>1. CASE q = 0
    BY <2>1
  <2>2. CASE q > 0
    <3>1. 2 * q <= base * q
      BY SMTT(30)
    <3>. QED
      BY <3>1, <2>2
  <2>. QED
    BY <2>1, <2>2
<1>. QED
  BY <1>1, <1>2

(* The letters that a base needs. *)
IsBase(base, letters) ==
  base \in Nat /\ base >= 2 /\ \A i \in 1 .. base : letters[i] \in Char

LastDigit(base, letters, n) == letters[(n % base) + 1]

LEMMA LastDigitType ==
  ASSUME NEW base, NEW letters, IsBase(base, letters), NEW n \in Nat
  PROVE  LastDigit(base, letters, n) \in Char
<1>1. base \in Nat /\ base >= 2 /\ \A i \in 1 .. base : letters[i] \in Char
  BY DEF IsBase
<1>2. (n % base) + 1 \in 1 .. base
  BY <1>1, SMTT(30)
<1>. QED
  BY <1>1, <1>2 DEF LastDigit

(* The equation of the loop, up to a number. *)
DigitsUpTo(base, letters, n, g) ==
  \A k \in 0 .. n :
    g[k] = IF k = 0 THEN <<>>
           ELSE Append(g[k \div base], LastDigit(base, letters, k))

LEMMA DigitsUnique ==
  ASSUME NEW base, NEW letters, IsBase(base, letters),
         NEW n \in Nat, NEW m \in Nat, NEW g, NEW h,
         DigitsUpTo(base, letters, n, g), DigitsUpTo(base, letters, m, h)
  PROVE  \A k \in Nat : k <= n /\ k <= m => g[k] = h[k]
<1>. DEFINE S == {k \in Nat : k <= n /\ k <= m => g[k] = h[k]}
<1>1. ASSUME NEW k \in Nat, \A i \in Nat : i < k => i \in S
      PROVE  k \in S
  <2>. SUFFICES ASSUME k <= n, k <= m PROVE g[k] = h[k]
    OBVIOUS
  <2>1. k \in 0 .. n /\ k \in 0 .. m
    OBVIOUS
  <2>2. CASE k = 0
    BY <2>1, <2>2 DEF DigitsUpTo
  <2>3. CASE k # 0
    <3>1. k \div base \in Nat /\ k \div base < k
      BY <2>3, DivisionSmaller DEF IsBase
    <3>2. g[k \div base] = h[k \div base]
      BY <3>1, <1>1
    <3>3. /\ g[k] = Append(g[k \div base], LastDigit(base, letters, k))
          /\ h[k] = Append(h[k \div base], LastDigit(base, letters, k))
      BY <2>1, <2>3 DEF DigitsUpTo
    <3>. QED
      BY <3>2, <3>3
  <2>. QED
    BY <2>2, <2>3
<1>2. S = Nat
  <2>. HIDE DEF S
  <2>1. S \in SUBSET Nat
    BY DEF S
  <2>. QED
    BY <1>1, <2>1, StrongInduction
<1>. QED
  BY <1>2

LEMMA DigitsExistUpTo ==
  ASSUME NEW base, NEW letters, IsBase(base, letters), NEW n \in Nat
  PROVE  \E g : DigitsUpTo(base, letters, n, g)
<1>. DEFINE S == {k \in Nat : \E g : DigitsUpTo(base, letters, k, g)}
<1>1. 0 \in S
  <2>. DEFINE g == [k \in {0} |-> <<>>]
  <2>1. \A k \in 0 .. 0 : k = 0 /\ g[k] = <<>>
    OBVIOUS
  <2>2. DigitsUpTo(base, letters, 0, g)
    <3>. HIDE DEF g
    <3>. QED
      BY <2>1 DEF DigitsUpTo
  <2>. QED
    BY <2>2
<1>2. ASSUME NEW k \in S PROVE k + 1 \in S
  <2>1. PICK g : DigitsUpTo(base, letters, k, g)
    OBVIOUS
  <2>. DEFINE h == [i \in 0 .. k + 1 |->
                      IF i = k + 1
                      THEN Append(g[(k + 1) \div base],
                                  LastDigit(base, letters, k + 1))
                      ELSE g[i]]
  <2>2. /\ h[k + 1] = Append(g[(k + 1) \div base],
                             LastDigit(base, letters, k + 1))
        /\ \A i \in 0 .. k : h[i] = g[i]
    OBVIOUS
  <2>. HIDE DEF h
  <2>3. ASSUME NEW i \in 0 .. k + 1
        PROVE  h[i] = IF i = 0 THEN <<>>
                      ELSE Append(h[i \div base], LastDigit(base, letters, i))
    <3>1. CASE i = 0
      BY <3>1, <2>1, <2>2 DEF DigitsUpTo
    <3>2. CASE i # 0
      <4>1. i \div base \in Nat /\ i \div base < i
        BY <3>2, DivisionSmaller DEF IsBase
      <4>2. i \div base \in 0 .. k
        BY <4>1
      <4>3. h[i \div base] = g[i \div base]
        BY <4>2, <2>2
      <4>4. CASE i = k + 1
        BY <3>2, <4>3, <4>4, <2>2
      <4>5. CASE i # k + 1
        <5>1. i \in 0 .. k
          BY <4>5
        <5>2. g[i] = Append(g[i \div base], LastDigit(base, letters, i))
          BY <5>1, <3>2, <2>1 DEF DigitsUpTo
        <5>. QED
          BY <5>1, <5>2, <4>3, <2>2, <3>2
      <4>. QED
        BY <4>4, <4>5
    <3>. QED
      BY <3>1, <3>2
  <2>. QED
    BY <2>3 DEF DigitsUpTo
<1>3. S = Nat
  <2>. HIDE DEF S
  <2>1. S \in SUBSET Nat
    BY DEF S
  <2>. QED
    BY <1>1, <1>2, <2>1, SetInduction
<1>. QED
  BY <1>3

(* So Digits is the function that its equation describes ... *)
LEMMA DigitsEquation ==
  ASSUME NEW base, NEW letters, IsBase(base, letters)
  PROVE  \A n \in Nat :
           Digits(base, letters)[n] =
             IF n = 0 THEN <<>>
             ELSE Append(Digits(base, letters)[n \div base],
                         LastDigit(base, letters, n))
<1>. DEFINE G(n) == CHOOSE g : DigitsUpTo(base, letters, n, g)
            e == [n \in Nat |-> G(n)[n]]
            Body(f) == [n \in Nat |->
                          IF n = 0 THEN <<>>
                          ELSE Append(f[n \div base], letters[(n % base) + 1])]
<1>1. ASSUME NEW n \in Nat PROVE DigitsUpTo(base, letters, n, G(n))
  BY DigitsExistUpTo
<1>. HIDE DEF G
<1>2. ASSUME NEW n \in Nat
      PROVE  e[n] = IF n = 0 THEN <<>>
                    ELSE Append(e[n \div base], letters[(n % base) + 1])
  <2>0. e[n] = G(n)[n] /\ n \in 0 .. n
    OBVIOUS
  <2>1. CASE n = 0
    BY <2>0, <2>1, <1>1 DEF DigitsUpTo
  <2>2. CASE n # 0
    <3>1. n \div base \in Nat /\ n \div base < n
      BY <2>2, DivisionSmaller DEF IsBase
    <3>2. G(n)[n] = Append(G(n)[n \div base], LastDigit(base, letters, n))
      BY <2>0, <2>2, <1>1 DEF DigitsUpTo
    <3>3. G(n)[n \div base] = G(n \div base)[n \div base]
      BY <3>1, <1>1, DigitsUnique
    <3>4. e[n \div base] = G(n \div base)[n \div base]
      BY <3>1
    <3>. QED
      BY <2>0, <2>2, <3>2, <3>3, <3>4 DEF LastDigit
  <2>. QED
    BY <2>1, <2>2
<1>3. e = Body(e)
  BY <1>2
<1>. HIDE DEF e
<1>4. Digits(base, letters) = CHOOSE f : f = Body(f)
  BY DEF Digits
<1>5. Digits(base, letters) = Body(Digits(base, letters))
  <2>. HIDE DEF Body
  <2>. QED
    BY <1>3, <1>4
<1>. QED
  BY <1>5 DEF LastDigit

(* ... and writes characters. *)
LEMMA DigitsType ==
  ASSUME NEW base, NEW letters, IsBase(base, letters)
  PROVE  \A n \in Nat : Digits(base, letters)[n] \in Seq(Char)
<1>. DEFINE S == {n \in Nat : Digits(base, letters)[n] \in Seq(Char)}
<1>1. ASSUME NEW n \in Nat, \A k \in Nat : k < n => k \in S
      PROVE  n \in S
  <2>1. CASE n = 0
    <3>1. Digits(base, letters)[n] = <<>>
      BY <2>1, DigitsEquation
    <3>2. <<>> \in Seq(Char)
      OBVIOUS
    <3>. QED
      BY <3>1, <3>2
  <2>2. CASE n # 0
    <3>1. n \div base \in Nat /\ n \div base < n
      BY <2>2, DivisionSmaller DEF IsBase
    <3>2. Digits(base, letters)[n \div base] \in Seq(Char)
      BY <3>1, <1>1
    <3>3. LastDigit(base, letters, n) \in Char
      BY LastDigitType
    <3>4. Digits(base, letters)[n] =
            Append(Digits(base, letters)[n \div base],
                   LastDigit(base, letters, n))
      BY <2>2, DigitsEquation
    <3>. HIDE DEF S
    <3>5. Digits(base, letters)[n] \in Seq(Char)
      BY <3>2, <3>3, <3>4
    <3>. QED
      BY <3>5 DEF S
  <2>. QED
    BY <2>1, <2>2
<1>2. S = Nat
  <2>. HIDE DEF S
  <2>1. S \in SUBSET Nat
    BY DEF S
  <2>. QED
    BY <1>1, <2>1, StrongInduction
<1>. QED
  BY <1>2

(* A numeral: read from the left, each letter adds its digit to so many     *)
(* times what came before, and no number on the way is zero, so there are  *)
(* no leading zeros.                                                       *)
IsNumeral(base, letters, s, n) ==
  \E v \in [0 .. Len(s) -> Nat] :
    /\ v[0] = 0 /\ v[Len(s)] = n
    /\ \A k \in 1 .. Len(s) :
         /\ v[k] # 0
         /\ \E d \in 0 .. base - 1 :
              s[k] = letters[d + 1] /\ v[k] = v[k - 1] * base + d

LEMMA NumeralExtends ==
  ASSUME NEW base \in Nat, base >= 2, NEW letters, NEW s \in Seq(Char),
         NEW n \in Nat, IsNumeral(base, letters, s, n),
         NEW d \in 0 .. base - 1, n * base + d # 0, letters[d + 1] \in Char
  PROVE  IsNumeral(base, letters, Append(s, letters[d + 1]), n * base + d)
<1>. DEFINE L == Len(s)
            t == Append(s, letters[d + 1])
            m == n * base + d
<1>1. L \in Nat
  OBVIOUS
<1>2. /\ Len(t) = L + 1 /\ t[L + 1] = letters[d + 1]
      /\ \A k \in 1 .. L : t[k] = s[k]
  OBVIOUS
<1>3. m \in Nat
  <2>1. n * base \in Nat
    BY SMTT(30)
  <2>. QED
    BY <2>1
<1>4. PICK v \in [0 .. L -> Nat] :
        /\ v[0] = 0 /\ v[L] = n
        /\ \A k \in 1 .. L :
             /\ v[k] # 0
             /\ \E e \in 0 .. base - 1 :
                  s[k] = letters[e + 1] /\ v[k] = v[k - 1] * base + e
  BY DEF IsNumeral
<1>. DEFINE u == [k \in 0 .. L + 1 |-> IF k = L + 1 THEN m ELSE v[k]]
<1>5. u \in [0 .. L + 1 -> Nat]
  <2>. HIDE DEF m, L
  <2>1. \A k \in 0 .. L + 1 : k # L + 1 => k \in 0 .. L
    BY <1>1
  <2>. QED
    BY <1>3, <2>1
<1>. HIDE DEF L, t
<1>6. u[L + 1] = m /\ \A k \in 0 .. L : u[k] = v[k]
  <2>. HIDE DEF m
  <2>. QED
    BY <1>1
<1>7. m # 0 /\ m = n * base + d
  OBVIOUS
<1>. HIDE DEF u, m
<1>8. u[0] = 0
  BY <1>1, <1>4, <1>6
<1>9. ASSUME NEW k \in 1 .. L + 1
      PROVE  /\ u[k] # 0
             /\ \E e \in 0 .. base - 1 :
                  t[k] = letters[e + 1] /\ u[k] = u[k - 1] * base + e
  <2>1. CASE k = L + 1
    <3>1. u[k] = m /\ u[k - 1] = n /\ t[k] = letters[d + 1]
      <4>1. L \in 0 .. L /\ k - 1 = L
        BY <1>1, <2>1
      <4>. QED
        BY <4>1, <2>1, <1>2, <1>4, <1>6
    <3>. QED
      BY Zenon, <3>1, <1>7
  <2>2. CASE k # L + 1
    <3>1. k \in 1 .. L /\ k \in 0 .. L /\ k - 1 \in 0 .. L
      BY <1>1, <2>2
    <3>2. u[k] = v[k] /\ u[k - 1] = v[k - 1] /\ t[k] = s[k]
      BY <3>1, <1>2, <1>6
    <3>. QED
      BY Zenon, <3>1, <3>2, <1>4
  <2>. QED
    BY <2>1, <2>2
<1>10. IsNumeral(base, letters, t, m)
  <2>1. /\ u \in [0 .. Len(t) -> Nat] /\ u[0] = 0 /\ u[Len(t)] = m
        /\ \A k \in 1 .. Len(t) :
             /\ u[k] # 0
             /\ \E e \in 0 .. base - 1 :
                  t[k] = letters[e + 1] /\ u[k] = u[k - 1] * base + e
    BY Zenon, <1>2, <1>5, <1>6, <1>8, <1>9
  <2>. QED
    BY Zenon, <2>1 DEF IsNumeral
<1>. QED
  BY <1>10 DEF t, m

(* simple_outputi's loop spells every number right, in every base: %d, %u, *)
(* %x, %X and %p of any number give its numeral, without leading zeros.    *)
THEOREM NumbersSpelled ==
  ASSUME NEW base, NEW letters, IsBase(base, letters)
  PROVE  \A n \in Nat : IsNumeral(base, letters, Digits(base, letters)[n], n)
<1>0. base \in Nat /\ base >= 2
  BY DEF IsBase
<1>. DEFINE D(n) == Digits(base, letters)[n]
            S == {n \in Nat : IsNumeral(base, letters, D(n), n)}
<1>1. ASSUME NEW n \in Nat, \A k \in Nat : k < n => k \in S
      PROVE  n \in S
  <2>1. CASE n = 0
    <3>1. D(n) = <<>>
      BY <2>1, DigitsEquation
    <3>2. IsNumeral(base, letters, <<>>, 0)
      <4>. DEFINE v == [k \in {0} |-> 0]
      <4>1. v \in [0 .. 0 -> Nat] /\ v[0] = 0 /\ 1 .. 0 = {} /\ Len(<<>>) = 0
        OBVIOUS
      <4>. HIDE DEF v
      <4>. QED
        BY <4>1 DEF IsNumeral
    <3>. QED
      BY <2>1, <3>1, <3>2
  <2>2. CASE n # 0
    <3>. DEFINE q == n \div base
                r == n % base
    <3>1. q \in Nat /\ q < n
      BY <2>2, <1>0, DivisionSmaller
    <3>2. r \in 0 .. base - 1 /\ n = q * base + r
      <4>1. r \in 0 .. base - 1 /\ n = base * q + r
        BY <1>0, SMTT(30)
      <4>2. base * q = q * base
        BY <3>1, <1>0, SMTT(30)
      <4>. QED
        BY <4>1, <4>2
    <3>3. D(n) = Append(D(q), letters[r + 1])
      BY Zenon, <2>2, DigitsEquation DEF LastDigit
    <3>. HIDE DEF q, r
    <3>4. IsNumeral(base, letters, D(q), q) /\ D(q) \in Seq(Char)
      BY <3>1, <1>1, DigitsType
    <3>5. letters[r + 1] \in Char
      <4>1. r + 1 \in 1 .. base
        BY <3>2, <1>0
      <4>. QED
        BY <4>1 DEF IsBase
    <3>6. IsNumeral(base, letters, Append(D(q), letters[r + 1]), q * base + r)
      <4>1. q * base + r # 0
        BY <2>2, <3>2
      <4>. HIDE DEF D
      <4>. QED
        BY Zenon, <1>0, <3>1, <3>2, <3>4, <3>5, <4>1, NumeralExtends
    <3>7. IsNumeral(base, letters, D(n), n)
      BY Zenon, <3>2, <3>3, <3>6
    <3>. QED
      BY <3>7
  <2>. QED
    BY <2>1, <2>2
<1>2. S = Nat
  <2>. HIDE DEF S
  <2>1. S \in SUBSET Nat
    BY DEF S
  <2>. QED
    BY <1>1, <2>1, StrongInduction
<1>. QED
  BY <1>2

-----------------------------------------------------------------------------
(* What a conversion writes. *)

LEMMA ElementOf ==
  ASSUME NEW C, NEW s \in Seq(C), NEW i \in 1 .. Len(s)
  PROVE  s[i] \in C
  OBVIOUS

LEMMA PrefixOf ==
  ASSUME NEW C, NEW s \in Seq(C), NEW n \in 1 .. Len(s)
  PROVE  SubSeq(s, 1, n) \in Seq(C) /\ Len(SubSeq(s, 1, n)) = n
  OBVIOUS

LEMMA Letters ==
  /\ Lower \in Seq(Char) /\ Len(Lower) = 16
  /\ Upper \in Seq(Char) /\ Len(Upper) = 16
  /\ NullName \in Seq(Char)
  /\ "0" \in Char /\ "-" \in Char /\ "%" \in Char
<1>1. /\ Lower \in Seq(Char) /\ Upper \in Seq(Char)
      /\ NullName \in Seq(Char) /\ <<"%", "-", " ">> \in Seq(Char)
  BY Zenon, FormatAssumption
<1>2. Len(Lower) = 16 /\ Lower[1] = "0"
  BY DEF Lower
<1>3. Len(Upper) = 16
  <2>1. SubSeq(Lower, 1, 10) \in Seq(Char) /\ Len(SubSeq(Lower, 1, 10)) = 10
    <3>1. 10 \in 1 .. Len(Lower)
      BY <1>2
    <3>. QED
      BY <3>1, <1>1, PrefixOf
  <2>2. Upper = SubSeq(Lower, 1, 10) \o <<"A", "B", "C", "D", "E", "F">>
    BY DEF Upper
  <2>3. /\ <<"A", "B", "C", "D", "E", "F">> \in Seq({"A", "B", "C", "D", "E", "F"})
        /\ Len(<<"A", "B", "C", "D", "E", "F">>) = 6
    OBVIOUS
  <2>. QED
    BY <2>1, <2>2, <2>3
<1>4. "0" \in Char
  <2>1. Lower[1] \in Char
    <3>1. 1 \in 1 .. Len(Lower)
      BY <1>2
    <3>. QED
      BY <3>1, <1>1, ElementOf
  <2>. QED
    BY <2>1, <1>2
<1>5. "-" \in Char /\ "%" \in Char
  <2>. DEFINE signs == <<"%", "-", " ">>
  <2>1. Len(signs) = 3 /\ signs[1] = "%" /\ signs[2] = "-"
    OBVIOUS
  <2>2. signs \in Seq(Char)
    BY <1>1
  <2>. HIDE DEF signs
  <2>. QED
    BY <2>1, <2>2
<1>. QED
  BY <1>1, <1>2, <1>3, <1>4, <1>5

LEMMA Bases == IsBase(10, Lower) /\ IsBase(16, Lower) /\ IsBase(16, Upper)
<1>1. 10 \in Nat /\ 10 >= 2 /\ 16 \in Nat /\ 16 >= 2
  OBVIOUS
<1>2. /\ \A i \in 1 .. 10 : Lower[i] \in Char
      /\ \A i \in 1 .. 16 : Lower[i] \in Char /\ Upper[i] \in Char
  <2>1. \A i \in 1 .. 16 : Lower[i] \in Char /\ Upper[i] \in Char
    BY Letters, ElementOf
  <2>2. \A i \in 1 .. 10 : i \in 1 .. 16
    OBVIOUS
  <2>. QED
    BY <2>1, <2>2
<1>. QED
  BY <1>1, <1>2 DEF IsBase

(* What a field is padded with. *)
Pad(fl) == IF "PAD_ZERO" \in fl THEN "0" ELSE " "

LEMMA PadType == \A fl : Pad(fl) \in Char
<1>1. " " \in Char
  <2>. DEFINE signs == <<"%", "-", " ">>
  <2>1. signs[3] = " "
    OBVIOUS
  <2>4. Len(signs) = 3
    OBVIOUS
  <2>2. signs \in Seq(Char)
    BY Zenon, FormatAssumption
  <2>. HIDE DEF signs
  <2>3. signs[3] \in Char
    <3>1. 3 \in 1 .. Len(signs)
      BY <2>4
    <3>. QED
      BY <3>1, <2>2, ElementOf
  <2>. QED
    BY Zenon, <2>1, <2>3
<1>. QED
  BY Zenon, <1>1, Letters DEF Pad

LEMMA PaddingType ==
  ASSUME NEW n \in Int, NEW c \in Char
  PROVE  [i \in 1 .. n |-> c] \in Seq(Char)
<1>1. CASE n >= 0
  BY <1>1
<1>2. CASE n < 0
  <2>1. 1 .. n = 1 .. 0
    BY <1>2
  <2>2. [i \in 1 .. 0 |-> c] \in Seq(Char)
    OBVIOUS
  <2>. QED
    BY <2>1, <2>2
<1>. QED
  BY <1>1, <1>2

LEMMA PrintsType ==
  ASSUME NEW string \in Seq(Char), NEW w \in Int, NEW fl
  PROVE  prints(string, w, fl) \in Seq(Char)
<1>. DEFINE padding == [i \in 1 .. w - Len(string) |-> Pad(fl)]
<1>1. padding \in Seq(Char)
  <2>1. w - Len(string) \in Int
    OBVIOUS
  <2>. QED
    BY <2>1, PadType, PaddingType
<1>2. prints(string, w, fl) =
        IF "PAD_RIGHT" \in fl THEN string \o padding ELSE padding \o string
  BY Zenon DEF prints, Pad
<1>. HIDE DEF padding
<1>3. string \o padding \in Seq(Char) /\ padding \o string \in Seq(Char)
  BY <1>1
<1>. QED
  BY Zenon, <1>2, <1>3

LEMMA NumberType ==
  ASSUME NEW i \in Int, NEW base, NEW letters, IsBase(base, letters),
         NEW w \in Int, NEW fl
  PROVE  simple_outputi(i, base, w, fl, letters) \in Seq(Char)
<1>. DEFINE digits == Digits(base, letters)[IF i < 0 THEN -i ELSE i]
<1>1. digits \in Seq(Char)
  <2>1. (IF i < 0 THEN -i ELSE i) \in Nat
    OBVIOUS
  <2>. QED
    BY <2>1, DigitsType
<1>2. simple_outputi(i, base, w, fl, letters) =
        IF i = 0 THEN prints(<<"0">>, w, fl)
        ELSE IF i > 0 THEN prints(digits, w, fl)
        ELSE IF w # 0 /\ "PAD_ZERO" \in fl
             THEN <<"-">> \o prints(digits, w - 1, fl)
        ELSE prints(<<"-">> \o digits, w, fl)
  BY Zenon DEF simple_outputi
<1>. HIDE DEF digits
<1>3. <<"0">> \in Seq(Char) /\ <<"-">> \in Seq(Char)
  BY Letters
<1>4. <<"-">> \o digits \in Seq(Char)
  BY <1>1, <1>3
<1>5. /\ prints(<<"0">>, w, fl) \in Seq(Char)
      /\ prints(digits, w, fl) \in Seq(Char)
      /\ prints(digits, w - 1, fl) \in Seq(Char)
      /\ prints(<<"-">> \o digits, w, fl) \in Seq(Char)
  <2>1. w - 1 \in Int
    OBVIOUS
  <2>. QED
    BY Zenon, <2>1, <1>1, <1>3, <1>4, PrintsType
<1>6. <<"-">> \o prints(digits, w - 1, fl) \in Seq(Char)
  BY <1>3, <1>5
<1>. QED
  BY Zenon, <1>2, <1>5, <1>6

LEMMA PaddingLength ==
  ASSUME NEW n \in Int, NEW c
  PROVE  Len([i \in 1 .. n |-> c]) = IF n > 0 THEN n ELSE 0
<1>1. CASE n > 0
  BY <1>1
<1>2. CASE n <= 0
  <2>1. 1 .. n = 1 .. 0
    BY <1>2
  <2>2. Len([i \in 1 .. 0 |-> c]) = 0
    <3>. DEFINE s == [i \in 1 .. 0 |-> c]
    <3>1. s \in Seq({c}) /\ DOMAIN s = 1 .. 0
      OBVIOUS
    <3>. HIDE DEF s
    <3>2. Len(s) \in Nat /\ DOMAIN s = 1 .. Len(s)
      BY <3>1
    <3>3. Len(s) = 0
      BY <3>1, <3>2
    <3>. QED
      BY <3>3 DEF s
  <2>3. ~(n > 0)
    BY <1>2
  <2>4. [i \in 1 .. n |-> c] = [i \in 1 .. 0 |-> c]
    BY <2>1
  <2>5. Len([i \in 1 .. n |-> c]) = 0
    BY Zenon, <2>2, <2>4
  <2>. QED
    BY Zenon, <2>3, <2>5
<1>3. n > 0 \/ n <= 0
  OBVIOUS
<1>. QED
  BY Zenon, <1>1, <1>2, <1>3

LEMMA PrintsLength ==
  ASSUME NEW string \in Seq(Char), NEW w \in Int, NEW fl
  PROVE  Len(prints(string, w, fl)) =
           IF Len(string) < w THEN w ELSE Len(string)
<1>. DEFINE n == w - Len(string)
            padding == [i \in 1 .. n |-> Pad(fl)]
<1>1. n \in Int /\ Len(string) \in Nat
  OBVIOUS
<1>2. padding \in Seq(Char) /\ Len(padding) = IF n > 0 THEN n ELSE 0
  <2>. HIDE DEF n
  <2>. QED
    BY Zenon, <1>1, PadType, PaddingType, PaddingLength
<1>3. prints(string, w, fl) =
        IF "PAD_RIGHT" \in fl THEN string \o padding ELSE padding \o string
  BY Zenon DEF prints, Pad
<1>. HIDE DEF padding
<1>4. /\ Len(string \o padding) = Len(string) + Len(padding)
      /\ Len(padding \o string) = Len(string) + Len(padding)
  BY <1>2
<1>5. Len(prints(string, w, fl)) = Len(string) + Len(padding)
  BY Zenon, <1>3, <1>4
<1>. QED
  BY <1>1, <1>2, <1>5

(* A number fills its field, with the sign that goes before the padding    *)
(* counted, and is longer only when it has more digits.                    *)
THEOREM FieldFilled ==
  ASSUME NEW i \in Int, NEW base, NEW letters, IsBase(base, letters),
         NEW w \in Int, NEW fl
  PROVE  LET digits == Digits(base, letters)[IF i < 0 THEN -i ELSE i]
             needed == IF i = 0 THEN 1
                       ELSE IF i > 0 THEN Len(digits) ELSE Len(digits) + 1
         IN Len(simple_outputi(i, base, w, fl, letters)) =
              IF needed < w THEN w ELSE needed
<1>. DEFINE digits == Digits(base, letters)[IF i < 0 THEN -i ELSE i]
<1>1. digits \in Seq(Char)
  <2>1. (IF i < 0 THEN -i ELSE i) \in Nat
    OBVIOUS
  <2>. QED
    BY <2>1, DigitsType
<1>2. simple_outputi(i, base, w, fl, letters) =
        IF i = 0 THEN prints(<<"0">>, w, fl)
        ELSE IF i > 0 THEN prints(digits, w, fl)
        ELSE IF w # 0 /\ "PAD_ZERO" \in fl
             THEN <<"-">> \o prints(digits, w - 1, fl)
        ELSE prints(<<"-">> \o digits, w, fl)
  BY Zenon DEF simple_outputi
<1>. HIDE DEF digits
<1>3. /\ <<"0">> \in Seq(Char) /\ Len(<<"0">>) = 1
      /\ <<"-">> \o digits \in Seq(Char)
      /\ Len(<<"-">> \o digits) = Len(digits) + 1
      /\ Len(digits) \in Nat /\ w - 1 \in Int
  <2>1. <<"-">> \in Seq(Char) /\ Len(<<"-">>) = 1
    BY Letters
  <2>. QED
    BY <1>1, <2>1, Letters
<1>4. /\ Len(prints(<<"0">>, w, fl)) = IF 1 < w THEN w ELSE 1
      /\ Len(prints(digits, w, fl)) =
           IF Len(digits) < w THEN w ELSE Len(digits)
      /\ Len(prints(<<"-">> \o digits, w, fl)) =
           IF Len(digits) + 1 < w THEN w ELSE Len(digits) + 1
  BY <1>1, <1>3, PrintsLength
<1>5. Len(<<"-">> \o prints(digits, w - 1, fl)) =
        IF Len(digits) + 1 < w THEN w ELSE Len(digits) + 1
  <2>1. /\ prints(digits, w - 1, fl) \in Seq(Char)
        /\ Len(prints(digits, w - 1, fl)) =
             IF Len(digits) < w - 1 THEN w - 1 ELSE Len(digits)
    BY Zenon, <1>1, <1>3, PrintsType, PrintsLength
  <2>2. /\ <<"-">> \in Seq(Char) /\ Len(<<"-">>) = 1
    BY Letters
  <2>3. Len(<<"-">> \o prints(digits, w - 1, fl)) =
          1 + Len(prints(digits, w - 1, fl))
    BY <2>1, <2>2
  <2>. QED
    BY <1>3, <2>1, <2>3
<1>6. CASE i = 0
  BY Zenon, <1>2, <1>4, <1>6 DEF digits
<1>7. CASE i > 0
  <2>1. ~(i = 0)
    BY <1>7
  <2>. QED
    BY Zenon, <1>2, <1>4, <1>7, <2>1 DEF digits
<1>8. CASE i < 0
  <2>1. ~(i = 0) /\ ~(i > 0)
    BY <1>8
  <2>2. Len(simple_outputi(i, base, w, fl, letters)) =
          IF Len(digits) + 1 < w THEN w ELSE Len(digits) + 1
    BY Zenon, <1>2, <1>4, <1>5, <2>1
  <2>. QED
    BY Zenon, <2>1, <2>2 DEF digits
<1>. QED
  BY <1>6, <1>7, <1>8

LEMMA PowerPositive ==
  ASSUME NEW k \in Nat
  PROVE  2^k \in Nat \ {0}
<1>1. IsFiniteSet(1 .. k) /\ Cardinality(1 .. k) = k
  BY FS_Interval
<1>2. IsFiniteSet(SUBSET (1 .. k)) /\ Cardinality(SUBSET (1 .. k)) = 2^k
  BY <1>1, FS_SUBSET
<1>3. Cardinality(SUBSET (1 .. k)) \in Nat
  BY <1>2, FS_CardinalityType
<1>4. Cardinality(SUBSET (1 .. k)) # 0
  <2>1. SUBSET (1 .. k) # {}
    OBVIOUS
  <2>. QED
    BY <2>1, <1>2, FS_EmptySet
<1>. QED
  BY <1>2, <1>3, <1>4

LEMMA WordTypes ==
  ASSUME NEW m, NEW c, NEW word \in Int
  PROVE  /\ Unsigned(SizeOf(m, c), word) \in Int
         /\ SignedValue(SizeOf(m, c), word) \in Int
<1>1. SizeOf(m, c) \in {"int", "l", "h", "hh"}
  BY DEF SizeOf
<1>2. Bits[SizeOf(m, c)] \in Nat \ {0}
  BY <1>1, FormatAssumption
<1>. DEFINE power == 2^Bits[SizeOf(m, c)]
<1>3. power \in Nat \ {0}
  BY <1>2, PowerPositive
<1>4. word % power \in Int
  <2>. HIDE DEF power
  <2>. QED
    BY <1>3, SMTT(30)
<1>. HIDE DEF power
<1>5. Unsigned(SizeOf(m, c), word) \in Int
  BY <1>4 DEF Unsigned, power
<1>6. \/ SignedValue(SizeOf(m, c), word) = Unsigned(SizeOf(m, c), word)
      \/ SignedValue(SizeOf(m, c), word) =
           Unsigned(SizeOf(m, c), word) - power
  BY Zenon DEF SignedValue, power
<1>. QED
  BY <1>3, <1>5, <1>6

(* The kind of argument that a conversion takes. *)
ArgumentOf(c) == IF c \in {"c", "s"} THEN {NullText} \cup Seq(Char) ELSE Int

LEMMA ConvertedType ==
  ASSUME NEW m, NEW c \in Conversion, NEW arg \in ArgumentOf(c),
         NEW w \in Int, NEW fl
  PROVE  Converted(m, c, arg, w, fl) \in Seq(Char)
<1>1. CASE c \in {"d", "u", "x", "X", "p"}
  <2>1. arg \in Int
    BY <1>1 DEF ArgumentOf
  <2>. DEFINE u == Unsigned(SizeOf(m, c), arg)
              v == SignedValue(SizeOf(m, c), arg)
  <2>2. u \in Int /\ v \in Int
    BY <2>1, WordTypes
  <2>3. Converted(m, c, arg, w, fl) \in
          {simple_outputi(v, 10, w, fl, Lower),
           simple_outputi(u, 10, w, fl, Lower),
           simple_outputi(u, 16, w, fl, Lower),
           simple_outputi(u, 16, w, fl, Upper)}
    BY <1>1 DEF Converted
  <2>. HIDE DEF u, v
  <2>. QED
    BY <2>2, <2>3, Bases, NumberType
<1>2. CASE c \in {"c", "s"}
  <2>. DEFINE string == IF arg = NullText THEN NullName ELSE arg
  <2>1. string \in Seq(Char)
    BY <1>2, Letters DEF ArgumentOf
  <2>2. Converted(m, c, arg, w, fl) = prints(string, w, fl)
    BY <1>2 DEF Converted
  <2>. HIDE DEF string
  <2>. QED
    BY <2>1, <2>2, PrintsType
<1>. QED
  BY <1>1, <1>2 DEF Conversion, NumberConversion

-----------------------------------------------------------------------------
(* A pass as a function: where it is determines where it goes. *)

Stage(f, a, m, w, fl, o) ==
  [format |-> f, ap |-> a, mode |-> m, width |-> w, flags |-> fl, out |-> o]

Current == Stage(format, ap, mode, width, flags, out)

Onward(f, a, m, w, fl, o) ==
  LET c == Head(f)
      rest == Tail(f)
  IN IF f = <<>>
     THEN Stage(IF m \in {"text", "%", "z"} THEN f ELSE Behind, a, "text", w, fl, o)
     ELSE IF m = "text" /\ c # "%" THEN Stage(rest, a, m, w, fl, Append(o, c))
     ELSE IF m = "text" THEN Stage(rest, a, "%", 0, {}, o)
     ELSE IF c \notin Known(m)
          THEN Stage(IF m = "z" THEN f ELSE rest, a, "text", w, fl, o)
     ELSE IF c = "%" THEN Stage(rest, a, "text", w, fl, Append(o, "%"))
     ELSE IF c = "-" THEN Stage(rest, a, "zeros", w, {"PAD_RIGHT"}, o)
     ELSE IF c = "*" THEN Stage(rest, Tail(a), "int", Head(a), fl, o)
     ELSE IF c \in Conversion
          THEN Stage(rest, Tail(a), "text", w, fl,
                     o \o Converted(m, c, Head(a), w, fl))
     ELSE IF c \in {"h", "l", "z"}
          THEN Stage(rest, a, IF m = "h" THEN "hh" ELSE IF m = "l" THEN "ll" ELSE c,
                     w, fl, o)
     ELSE IF c = "0" /\ m \in {"%", "zeros"}
          THEN Stage(rest, a, "zeros", w, fl \cup {"PAD_ZERO"}, o)
     ELSE Stage(rest, a, "width", w * 10 + DigitValue(c), fl, o)

After(s) == Onward(s.format, s.ap, s.mode, s.width, s.flags, s.out)

Final(s) == s.mode = "text" /\ s.format = <<>>

LEMMA DecimalDigits ==
  DecimalDigit = {"0", "1", "2", "3", "4", "5", "6", "7", "8", "9"}
<1>1. 1 .. 10 = {1, 2, 3, 4, 5, 6, 7, 8, 9, 10}
  OBVIOUS
<1>2. DecimalDigit = {Lower[i] : i \in {1, 2, 3, 4, 5, 6, 7, 8, 9, 10}}
  BY Zenon, <1>1 DEF DecimalDigit
<1>3. /\ Lower[1] = "0" /\ Lower[2] = "1" /\ Lower[3] = "2" /\ Lower[4] = "3"
      /\ Lower[5] = "4" /\ Lower[6] = "5" /\ Lower[7] = "6" /\ Lower[8] = "7"
      /\ Lower[9] = "8" /\ Lower[10] = "9"
  BY DEF Lower
<1>. QED
  BY <1>2, <1>3

LEMMA KnownChars ==
  /\ Known("%") = {"%", "-", "*", "h", "l", "z"} \cup DecimalDigit \cup Conversion
  /\ Known("zeros") = {"*", "h", "l", "z"} \cup DecimalDigit \cup Conversion
  /\ Known("width") = {"h", "l", "z"} \cup DecimalDigit \cup Conversion
  /\ Known("int") = {"h", "l", "z"} \cup Conversion
  /\ Known("h") = {"h"} \cup NumberConversion
  /\ Known("l") = {"l"} \cup NumberConversion
  /\ Known("hh") = NumberConversion
  /\ Known("ll") = NumberConversion
  /\ Known("z") = NumberConversion
  BY DEF Known

LEMMA AfterCurrent ==
  /\ After(Current) = Onward(format, ap, mode, width, flags, out)
  /\ Final(Current) <=> Passed
  BY DEF After, Current, Stage, Final, Passed

LEMMA PassFollows ==
  ASSUME Pass
  PROVE  Current' = After(Current) /\ ~Final(Current)
<1>. SUFFICES /\ Current' = Onward(format, ap, mode, width, flags, out)
              /\ ~Passed
  BY Zenon, AfterCurrent
<1>1. CASE Literal
  BY Zenon, <1>1 DEF Literal, Onward, Current, Passed
<1>2. CASE Percent
  BY Zenon, <1>2 DEF Percent, Sees, Onward, Current, Passed
<1>3. CASE PercentSign
  <2>1. mode = "%" /\ format # <<>> /\ Head(format) = "%"
    BY <1>3 DEF PercentSign, Sees
  <2>2. mode # "text" /\ Head(format) \in Known(mode)
    BY <2>1, KnownChars
  <2>. QED
    BY Zenon, <1>3, <2>1, <2>2 DEF PercentSign, Onward, Current, Passed
<1>4. CASE LonePercent
  BY <1>4 DEF LonePercent, Onward, Current, Passed
<1>5. CASE Minus
  <2>1. mode = "%" /\ format # <<>> /\ Head(format) = "-"
    BY <1>5 DEF Minus, Sees
  <2>2. mode # "text" /\ Head(format) \in Known(mode) /\ Head(format) # "%"
    BY <2>1, KnownChars
  <2>. QED
    BY Zenon, <1>5, <2>1, <2>2 DEF Minus, Onward, Current, Passed
<1>6. CASE Zero
  <2>1. mode \in {"%", "zeros"} /\ format # <<>> /\ Head(format) = "0"
    BY <1>6 DEF Zero, Sees
  <2>2. /\ mode # "text" /\ Head(format) \in Known(mode)
        /\ Head(format) \notin {"%", "-", "*", "h", "l", "z"} \cup Conversion
    BY <2>1, KnownChars, DecimalDigits DEF Conversion, NumberConversion
  <2>. QED
    BY Zenon, <1>6, <2>1, <2>2 DEF Zero, Onward, Current, Passed
<1>7. CASE Star
  <2>1. mode \in {"%", "zeros"} /\ format # <<>> /\ Head(format) = "*"
    BY <1>7 DEF Star, Sees
  <2>2. /\ mode # "text" /\ Head(format) \in Known(mode)
        /\ Head(format) \notin {"%", "-"}
    BY <2>1, KnownChars
  <2>. QED
    BY Zenon, <1>7, <2>1, <2>2 DEF Star, Onward, Current, Passed
<1>8. CASE WidthDigit
  <2>1. /\ mode \in {"%", "zeros", "width"} /\ format # <<>>
        /\ Head(format) \in DecimalDigit
        /\ Head(format) = "0" => mode = "width"
    BY <1>8 DEF WidthDigit, Sees
  <2>2. /\ mode # "text" /\ Head(format) \in Known(mode)
        /\ Head(format) \notin {"%", "-", "*", "h", "l", "z"} \cup Conversion
        /\ ~(Head(format) = "0" /\ mode \in {"%", "zeros"})
    BY <2>1, KnownChars, DecimalDigits DEF Conversion, NumberConversion
  <2>. QED
    BY Zenon, <1>8, <2>1, <2>2 DEF WidthDigit, Onward, Current, Passed
<1>9. CASE Size
  <2>1. /\ format # <<>> /\ Head(format) \in {"h", "l", "z"}
        /\ mode \in {"%", "zeros", "width", "int", "h", "l"}
        /\ mode = "h" => Head(format) = "h" /\ mode' = "hh"
        /\ mode = "l" => Head(format) = "l" /\ mode' = "ll"
        /\ mode \notin {"h", "l"} => mode' = Head(format)
    BY <1>9 DEF Size, Sees, AtConversion
  <2>2. /\ mode # "text" /\ Head(format) \in Known(mode)
        /\ Head(format) \notin {"%", "-", "*"} \cup Conversion
    BY <2>1, KnownChars DEF Conversion, NumberConversion
  <2>3. mode' = IF mode = "h" THEN "hh" ELSE IF mode = "l" THEN "ll"
                ELSE Head(format)
    BY <2>1
  <2>. QED
    BY Zenon, <1>9, <2>1, <2>2, <2>3 DEF Size, Onward, Current, Passed
<1>10. CASE Convert
  <2>1. /\ format # <<>> /\ Head(format) \in Conversion
        /\ mode \in {"%", "zeros", "width", "int", "h", "hh", "l", "ll", "z"}
        /\ mode \in {"h", "hh", "l", "ll", "z"} =>
             Head(format) \in NumberConversion
    BY <1>10 DEF Convert, SeesConversion, Sees, AtConversion, Conversion
  <2>2. /\ mode # "text" /\ Head(format) \in Known(mode)
        /\ Head(format) \notin {"%", "-", "*"}
    BY <2>1, KnownChars DEF Conversion, NumberConversion
  <2>. QED
    BY Zenon, <1>10, <2>1, <2>2 DEF Convert, Onward, Current, Passed
<1>11. CASE Unknown
  BY Zenon, <1>11 DEF Unknown, Onward, Current, Passed
<1>12. CASE ReadOn
  BY <1>12 DEF ReadOn, Onward, Current, Passed
<1>. QED
  BY <1>1, <1>2, <1>3, <1>4, <1>5, <1>6, <1>7, <1>8, <1>9, <1>10, <1>11, <1>12
     DEF Pass

-----------------------------------------------------------------------------
(* What a pass keeps. *)

PassType ==
  /\ format \in Seq(Char) /\ out \in Seq(Char)
  /\ width \in Int /\ flags \subseteq {"PAD_RIGHT", "PAD_ZERO"}

LEMMA DigitValueType == \A c \in DecimalDigit : DigitValue(c) \in Int
<1>. TAKE c \in DecimalDigit
<1>1. \E i \in 1 .. 10 : Lower[i] = c
  BY DEF DecimalDigit
<1>. DEFINE v == CHOOSE i \in 1 .. 10 : Lower[i] = c
<1>2. v \in 1 .. 10
  BY <1>1
<1>3. DigitValue(c) = v - 1
  BY Zenon DEF DigitValue
<1>. HIDE DEF v
<1>. QED
  BY <1>2, <1>3

LEMMA HeadTail ==
  ASSUME NEW C, NEW s \in Seq(C), s # <<>>
  PROVE  Head(s) \in C /\ Tail(s) \in Seq(C)
  OBVIOUS

LEMMA AppendType ==
  ASSUME NEW C, NEW s \in Seq(C), NEW c \in C
  PROVE  Append(s, c) \in Seq(C)
  OBVIOUS

LEMMA JoinType ==
  ASSUME NEW C, NEW s \in Seq(C), NEW t \in Seq(C)
  PROVE  s \o t \in Seq(C)
  OBVIOUS

LEMMA PassKeepsType ==
  ASSUME PassType, ArgumentsFit, pc = "pass", Pass
  PROVE  PassType'
<1>1. CASE Literal
  <2>1. /\ format \in Seq(Char) /\ format # <<>>
        /\ format' = Tail(format) /\ out' = Append(out, Head(format))
        /\ width' = width /\ flags' = flags
    BY <1>1 DEF Literal, PassType
  <2>2. format' \in Seq(Char) /\ out' \in Seq(Char)
    BY <2>1, HeadTail, AppendType DEF PassType
  <2>. QED
    BY <2>1, <2>2 DEF PassType
<1>2. ASSUME format # <<>>, format' = Tail(format), out' = out,
             width' \in Int, flags' \subseteq {"PAD_RIGHT", "PAD_ZERO"}
      PROVE  PassType'
  <2>1. format' \in Seq(Char)
    BY <1>2, HeadTail DEF PassType
  <2>. QED
    BY <1>2, <2>1 DEF PassType
<1>3. CASE Percent
  BY <1>2, <1>3 DEF Percent, Sees, PassType
<1>4. CASE PercentSign
  <2>1. /\ format \in Seq(Char) /\ format # <<>>
        /\ format' = Tail(format) /\ out' = Append(out, "%")
        /\ width' = width /\ flags' = flags
    BY <1>4 DEF PercentSign, Sees, PassType
  <2>2. format' \in Seq(Char) /\ out' \in Seq(Char)
    BY <2>1, HeadTail, AppendType, Letters DEF PassType
  <2>. QED
    BY <2>1, <2>2 DEF PassType
<1>5. CASE LonePercent
  BY <1>5 DEF LonePercent, PassType
<1>6. CASE Minus
  BY <1>2, <1>6 DEF Minus, Sees, PassType
<1>7. CASE Zero
  BY <1>2, <1>7 DEF Zero, Sees, PassType
<1>8. CASE Star
  <2>1. Head(ap) \in Int
    BY <1>8 DEF Star, ArgumentsFit
  <2>. QED
    BY <1>2, <1>8, <2>1 DEF Star, Sees, PassType
<1>9. CASE WidthDigit
  <2>1. format # <<>> /\ Head(format) \in DecimalDigit
    BY <1>9 DEF WidthDigit, Sees
  <2>2. width' \in Int
    <3>1. DigitValue(Head(format)) \in Int
      BY <2>1, DigitValueType
    <3>2. width' = width * 10 + DigitValue(Head(format))
      BY <1>9 DEF WidthDigit
    <3>. QED
      BY <3>1, <3>2 DEF PassType
  <2>. QED
    BY <1>2, <1>9, <2>1, <2>2 DEF WidthDigit, PassType
<1>10. CASE Size
  BY <1>2, <1>10 DEF Size, Sees, PassType
<1>11. CASE Convert
  <2>1. /\ format # <<>> /\ Head(format) \in Conversion
        /\ Head(ap) \in ArgumentOf(Head(format))
    BY <1>11 DEF Convert, SeesConversion, Sees, Conversion, ArgumentsFit,
                 ArgumentOf
  <2>2. Converted(mode, Head(format), Head(ap), width, flags) \in Seq(Char)
    BY <2>1, ConvertedType DEF PassType
  <2>3. /\ format' = Tail(format) /\ width' = width /\ flags' = flags
        /\ out' = out \o Converted(mode, Head(format), Head(ap), width, flags)
    BY <1>11 DEF Convert
  <2>4. out' \in Seq(Char)
    BY <2>2, <2>3, JoinType DEF PassType
  <2>5. format' \in Seq(Char)
    BY <2>1, <2>3, HeadTail DEF PassType
  <2>. QED
    BY <2>3, <2>4, <2>5 DEF PassType
<1>12. CASE Unknown
  <2>1. /\ format # <<>> /\ format' \in {format, Tail(format)} /\ out' = out
        /\ width' = width /\ flags' = flags
    BY <1>12 DEF Unknown
  <2>2. format' \in Seq(Char)
    BY <2>1, HeadTail DEF PassType
  <2>. QED
    BY <2>1, <2>2 DEF PassType
<1>13. CASE ReadOn
  BY <1>13, FormatAssumption DEF ReadOn, PassType
<1>. QED
  BY <1>1, <1>3, <1>4, <1>5, <1>6, <1>7, <1>8, <1>9, <1>10, <1>11, <1>12, <1>13
     DEF Pass

-----------------------------------------------------------------------------
(* Blocks. *)

LEMMA MultipleOf ==
  ASSUME NEW m \in Nat \ {0}, NEW a \in Int, a % m = 0
  PROVE  a = m * (a \div m)
  BY SMTT(30)

LEMMA RemainderOf ==
  ASSUME NEW m \in Nat \ {0}, NEW q \in Int
  PROVE  (q * m) % m = 0
  BY SMTT(30)

LEMMA SumOfMultiples ==
  ASSUME NEW m \in Nat \ {0}, NEW a \in Int, NEW b \in Int,
         a % m = 0, b % m = 0
  PROVE  (a + b) % m = 0
<1>. DEFINE p == a \div m
            q == b \div m
<1>1. p \in Int /\ q \in Int /\ a = m * p /\ b = m * q
  BY MultipleOf, SMTT(30)
<1>. HIDE DEF p, q
<1>2. a + b = (p + q) * m
  BY <1>1, SMTT(30)
<1>. QED
  BY <1>1, <1>2, RemainderOf

LEMMA RoundedUp ==
  ASSUME NEW m \in Nat \ {0}, NEW v \in Nat
  PROVE  /\ ((v + m - 1) \div m) * m \in Nat
         /\ ((v + m - 1) \div m) * m >= v
         /\ (((v + m - 1) \div m) * m) % m = 0
<1>. DEFINE x == v + m - 1
            q == x \div m
            r == x % m
<1>1. x \in Nat
  OBVIOUS
<1>2. q \in Int /\ r \in 0 .. m - 1 /\ x = m * q + r
  <2>. HIDE DEF x
  <2>. QED
    BY <1>1, SMTT(30)
<1>. HIDE DEF q, r
<1>3. (q * m) % m = 0 /\ q * m \in Int
  <2>1. q * m \in Int
    BY <1>2
  <2>. QED
    BY <2>1, <1>2, RemainderOf
<1>4. q * m = m * q
  BY <1>2, SMTT(30)
<1>5. q * m >= v
  BY <1>2, <1>4, <1>3
<1>. QED
  BY <1>3, <1>5 DEF q

LEMMA AlignUp ==
  ASSUME NEW v \in Nat
  PROVE  /\ align_up(v) \in Nat /\ align_up(v) >= v
         /\ align_up(v) % Align = 0
  BY RoundedUp, HeapAssumption DEF align_up

(* A block lies behind everything that was given away before. *)
LEMMA BlockFits ==
  ASSUME heap_ptr \in 0 .. heap_max, NEW size \in Nat, Fits(size), malloc(size)
  PROVE  /\ align_up(heap_ptr) \in heap_ptr .. heap_max
         /\ heap_ptr' \in 0 .. heap_max /\ heap_ptr' % Align = 0
         /\ align_up(heap_ptr) + size <= heap_ptr'
<1>1. heap_ptr \in Nat /\ heap_max \in Nat /\ Align \in Nat \ {0}
  BY HeapAssumption
<1>. DEFINE a == align_up(heap_ptr)
            b == align_up(size)
<1>2. /\ a \in Nat /\ a >= heap_ptr /\ a % Align = 0
      /\ b \in Nat /\ b >= size /\ b % Align = 0
  BY <1>1, AlignUp
<1>3. a + b <= heap_max /\ heap_ptr' = a + b
  BY DEF Fits, malloc
<1>. HIDE DEF a, b
<1>4. (a + b) % Align = 0
  <2>1. a \in Int /\ b \in Int
    BY <1>2
  <2>. QED
    BY Zenon, <2>1, <1>1, <1>2, SumOfMultiples
<1>5. /\ a \in heap_ptr .. heap_max /\ a + b \in 0 .. heap_max
      /\ a + size <= a + b
  BY <1>1, <1>2, <1>3
<1>. QED
  BY <1>3, <1>4, <1>5 DEF a

-----------------------------------------------------------------------------
(* Type correctness.  A text's format is one, also when it is a message of *)
(* panic or the format of a log line, and only panics fill the stack.      *)

CallInv ==
  /\ pc \in {"start", "idle", "malloc", "pass", "halted", "crashed"}
  /\ caller \in {None} \cup DOMAIN Texts
  /\ request # None => DOMAIN request = DOMAIN OutOfMemory
  /\ cap \in Nat /\ tries \in Nat /\ depth \in 0 .. StackDepth
  /\ pc \in {"malloc", "pass"} => request.format \in Seq(Char)
  /\ pc \in {"start", "idle"} => depth = 0
  /\ pc \in {"malloc", "pass"} /\ caller \notin {"panic", "fault"} => depth = 0

HeapInv ==
  /\ heap_ptr \in 0 .. heap_max /\ heap_ptr % Align = 0
  /\ buf \in 0 .. heap_max

DrawInv ==
  framebuffer_size \in {0} \cup FramebufferSizes /\ vga_buffer \in BOOLEAN

TypeInv == CallInv /\ HeapInv /\ DrawInv /\ PassType /\ body \in Seq(Char)

LEMMA TypeInvIsTyping == TypeInv => TypeOK
  BY Zenon DEF TypeInv, CallInv, HeapInv, DrawInv, PassType, TypeOK

LEMMA CallerNames == DOMAIN Texts = {"draw", "log", "panic", "fault"}
  BY DEF Texts

LEMMA OutOfMemoryFits ==
  /\ OutOfMemory.format \in Seq(Char)
  /\ DOMAIN OutOfMemory = {"format", "args", "text"}
<1>1. "O" \in Char /\ "u" \in Char /\ "t" \in Char /\ "!" \in Char
  BY Zenon, TextAssumption
<1>. QED
  BY <1>1 DEF OutOfMemory

LEMMA RequestFits ==
  ASSUME NEW who \in DOMAIN Texts, NEW r,
         r \in Requests[who] \/ r = OutOfMemory
  PROVE  r.format \in Seq(Char) /\ DOMAIN r = DOMAIN OutOfMemory
<1>1. who \in DOMAIN Requests
  BY Zenon, CallerNames, TextAssumption
<1>2. ASSUME r \in Requests[who]
      PROVE  DOMAIN r = {"format", "args", "text"} /\ r.format \in Seq(Char)
  BY Zenon, <1>1, <1>2, TextAssumption
<1>. QED
  BY Zenon, <1>2, OutOfMemoryFits

LEMMA ElevenOf ==
  ASSUME NEW C, NEW c1 \in C, NEW c2 \in C, NEW c3 \in C, NEW c4 \in C,
         NEW c5 \in C, NEW c6 \in C, NEW c7 \in C, NEW c8 \in C,
         NEW c9 \in C, NEW c10 \in C, NEW c11 \in C
  PROVE  <<c1, c2, c3, c4, c5, c6, c7, c8, c9, c10, c11>> \in Seq(C)
  OBVIOUS

LEMMA EightOf ==
  ASSUME NEW C, NEW c1 \in C, NEW c2 \in C, NEW c3 \in C, NEW c4 \in C,
         NEW c5 \in C, NEW c6 \in C, NEW c7 \in C, NEW c8 \in C
  PROVE  <<c1, c2, c3, c4, c5, c6, c7, c8>> \in Seq(C)
  OBVIOUS

LEMMA JobFormat ==
  ASSUME body \in Seq(Char), request.format \in Seq(Char)
  PROVE  Job.format \in Seq(Char)
<1>1. /\ "%" \in Char /\ "s" \in Char /\ "[" \in Char /\ "]" \in Char
      /\ " " \in Char /\ "^" \in Char /\ "\n" \in Char
  BY Zenon, TextAssumption
<1>2. <<"%", "s", "[", "%", "s", "]", " ", "%", "s", "^", "\n">> \in Seq(Char)
  BY Zenon, <1>1, ElevenOf
<1>3. <<"[", "%", "s", "]", " ", "%", "s", "\n">> \in Seq(Char)
  BY Zenon, <1>1, EightOf
<1>4. \A f, a : [format |-> f, args |-> a].format = f
  OBVIOUS
<1>5. CASE Head(todo) = "serial"
  BY Zenon, <1>2, <1>4, <1>5 DEF Job
<1>6. CASE Head(todo) = "line"
  BY Zenon, <1>3, <1>4, <1>6 DEF Job
<1>7. CASE Head(todo) \notin {"serial", "line"}
  BY Zenon, <1>4, <1>7 DEF Job
<1>. QED
  BY Zenon, <1>5, <1>6, <1>7

LEMMA InitTyped == Init => TypeInv
<1>. SUFFICES ASSUME Init PROVE TypeInv
  OBVIOUS
<1>1. /\ StackDepth \in Nat /\ heap_max \in Nat /\ Align \in Nat \ {0}
  BY Zenon, TextAssumption, HeapAssumption
<1>2. HeapInv
  <2>1. 0 % Align = 0
    BY <1>1, SMTT(30)
  <2>. QED
    BY <1>1, <2>1 DEF Init, HeapInit, HeapInv
<1>3. CallInv
  BY <1>1 DEF Init, CallInv
<1>4. DrawInv
  BY DEF Init, DrawInv
<1>5. PassType /\ body \in Seq(Char)
  BY DEF Init, PassType
<1>. QED
  BY <1>2, <1>3, <1>4, <1>5 DEF TypeInv

LEMMA EnterTyped ==
  ASSUME CallInv, NEW who \in DOMAIN Texts, NEW r, Enter(who, r),
         r \in Requests[who] \/ r = OutOfMemory,
         who \in {"draw", "log"} => depth = 0,
         who = "panic" => depth < StackDepth
  PROVE  CallInv'
<1>1. FirstCap \in Nat /\ StackDepth \in Nat
  BY Zenon, TextAssumption
<1>2. /\ caller' = who /\ request' = r /\ pc' = "malloc" /\ cap' = FirstCap
      /\ tries' = 0
      /\ depth' = IF who = "panic" THEN depth + 1 ELSE depth
  BY DEF Enter
<1>3. r.format \in Seq(Char) /\ DOMAIN r = DOMAIN OutOfMemory
  BY Zenon, RequestFits
<1>4. who \in {"draw", "log", "panic", "fault"}
  BY CallerNames
<1>5. depth' \in 0 .. StackDepth
  BY <1>1, <1>2 DEF CallInv
<1>6. who \notin {"panic", "fault"} => depth' = 0
  BY <1>2, <1>4
<1>. HIDE DEF Texts, OutOfMemory
<1>. QED
  BY <1>1, <1>2, <1>3, <1>5, <1>6 DEF CallInv

(* What a begun pass, or the clearing of the last one, leaves. *)
LEMMA BeginTyped ==
  ASSUME NEW f \in Seq(Char), NEW a, Begin(f, a)
  PROVE  PassType'
  BY DEF Begin, PassType

LEMMA StepTyped ==
  ASSUME TypeInv, ArgumentsFit, [Next]_vars
  PROVE  TypeInv'
<1>0. /\ CallInv /\ HeapInv /\ DrawInv /\ PassType /\ body \in Seq(Char)
      /\ FirstCap \in Nat /\ StackDepth \in Nat \ {0}
      /\ FramebufferSizes \subseteq Nat \ {0}
  BY Zenon, TextAssumption DEF TypeInv
<1>. USE <1>0
<1>1. CASE Call
  <2>1. UNCHANGED <<heap_ptr, formatVars, body, buf, drawVars>>
    BY <1>1 DEF Call
  <2>2. CallInv'
    <3>1. PICK who \in DOMAIN Texts :
            /\ \E r \in Requests[who] : Enter(who, r)
            /\ who # "fault" => pc \in {"start", "idle"}
      BY <1>1, CallerNames DEF Call
    <3>2. PICK r \in Requests[who] : Enter(who, r)
      BY <3>1
    <3>3. who # "fault" => depth = 0
      BY <3>1 DEF CallInv
    <3>. QED
      BY <3>2, <3>3, EnterTyped
  <2>. QED
    BY <2>1, <2>2 DEF TypeInv, HeapInv, DrawInv, PassType, formatVars, drawVars
<1>2. CASE fb_init
  <2>1. /\ pc = "start" /\ framebuffer_size' \in FramebufferSizes
        /\ framebuffer_size' \in Nat
        /\ UNCHANGED <<formatVars, body, buf>>
    BY <1>2 DEF fb_init
  <2>2. CASE /\ Fits(framebuffer_size') /\ malloc(framebuffer_size')
             /\ vga_buffer' = TRUE /\ pc' = "idle"
             /\ UNCHANGED <<caller, request, todo, depth, cap, tries>>
    <3>1. heap_ptr' \in 0 .. heap_max /\ heap_ptr' % Align = 0
      BY <2>1, <2>2, BlockFits DEF HeapInv
    <3>2. CallInv'
      BY <2>1, <2>2 DEF CallInv
    <3>. QED
      BY <2>1, <2>2, <3>1, <3>2
      DEF TypeInv, HeapInv, DrawInv, PassType, formatVars
  <2>3. CASE /\ Enter("panic", OutOfMemory)
             /\ UNCHANGED <<heap_ptr, vga_buffer, watched>>
    <3>1. CallInv'
      <4>1. "panic" \in DOMAIN Texts
        BY CallerNames
      <4>2. depth = 0
        BY <2>1 DEF CallInv
      <4>. QED
        BY <2>3, <4>1, <4>2, EnterTyped
    <3>. QED
      BY <2>1, <2>3, <3>1 DEF TypeInv, HeapInv, DrawInv, PassType, formatVars
  <2>. QED
    BY <1>2, <2>2, <2>3 DEF fb_init
<1>3. CASE TakeBlock
  <2>1. /\ pc = "malloc" /\ Fits(cap) /\ malloc(cap)
        /\ buf' = align_up(heap_ptr) /\ Begin(Job.format, Job.args)
        /\ pc' = "pass" /\ tries' = tries + 1
        /\ UNCHANGED <<caller, todo, request, body, depth, cap>>
        /\ UNCHANGED <<framebuffer_size, vga_buffer>>
    BY <1>3 DEF TakeBlock, callVars, drawVars
  <2>2. HeapInv'
    <3>1. cap \in Nat
      BY DEF CallInv
    <3>2. /\ align_up(heap_ptr) \in heap_ptr .. heap_max
          /\ heap_ptr' \in 0 .. heap_max /\ heap_ptr' % Align = 0
      BY <2>1, <3>1, BlockFits DEF HeapInv
    <3>3. heap_max \in Nat /\ heap_ptr \in Nat
      BY HeapAssumption DEF HeapInv
    <3>. QED
      BY <2>1, <3>2, <3>3 DEF HeapInv
  <2>3. PassType'
    <3>1. Job.format \in Seq(Char)
      BY <2>1, JobFormat DEF CallInv
    <3>. QED
      BY <2>1, <3>1, BeginTyped
  <2>4. CallInv'
    BY <2>1 DEF CallInv
  <2>. QED
    BY <2>1, <2>2, <2>3, <2>4 DEF TypeInv, DrawInv
<1>4. CASE Exhausted
  <2>1. UNCHANGED <<heap_ptr, formatVars, body, buf, drawVars>>
    BY <1>4 DEF Exhausted
  <2>2. CallInv'
    <3>1. CASE depth < StackDepth /\ Enter("panic", OutOfMemory)
      <4>1. "panic" \in DOMAIN Texts
        BY CallerNames
      <4>. QED
        BY <3>1, <4>1, EnterTyped
    <3>2. CASE /\ pc' = "crashed"
               /\ UNCHANGED <<caller, todo, request, depth, cap, tries>>
      BY <3>2 DEF CallInv
    <3>. QED
      BY <1>4, <3>1, <3>2 DEF Exhausted
  <2>. QED
    BY <2>1, <2>2 DEF TypeInv, HeapInv, DrawInv, PassType, formatVars, drawVars
<1>5. CASE PassStep
  <2>1. /\ pc = "pass" /\ Pass
        /\ UNCHANGED <<heap_ptr, pc, caller, todo, request, body, depth, buf, cap>>
        /\ UNCHANGED <<framebuffer_size, vga_buffer, tries>>
    BY <1>5 DEF PassStep, callVars, drawVars
  <2>2. PassType'
    BY <2>1, PassKeepsType
  <2>. QED
    BY <2>1, <2>2 DEF TypeInv, CallInv, HeapInv, DrawInv
<1>6. CASE Retry
  <2>1. /\ pc = "pass" /\ cap' = Len(out) + 1 /\ pc' = "malloc"
        /\ UNCHANGED <<heap_ptr, format, ap, mode, width, flags, out>>
        /\ UNCHANGED <<caller, todo, request, body, depth, buf, tries>>
        /\ UNCHANGED <<framebuffer_size, vga_buffer>>
    BY <1>6 DEF Retry, free, callVars, drawVars, formatVars
  <2>2. cap' \in Nat
    <3>1. Len(out) \in Nat
      BY DEF PassType
    <3>. QED
      BY <2>1, <3>1
  <2>. QED
    BY <2>1, <2>2 DEF TypeInv, CallInv, HeapInv, DrawInv, PassType
<1>7. CASE Return
  <2>1. /\ pc = "pass" /\ cap' = FirstCap
        /\ UNCHANGED <<heap_ptr, buf, framebuffer_size, vga_buffer>>
    BY <1>7 DEF Return, free, drawVars
  <2>2. CASE pc' = "crashed" /\ UNCHANGED <<formatVars, callVars, tries>>
    BY <2>1, <2>2
    DEF TypeInv, CallInv, HeapInv, DrawInv, PassType, formatVars, callVars
  <2>3. CASE /\ Begin(<<>>, <<>>) /\ tries' = 0
             /\ caller' = None /\ request' = None /\ body' = <<>>
             /\ UNCHANGED depth
             /\ pc' = IF caller \in {"panic", "fault"} THEN "halted" ELSE "idle"
    <3>1. PassType' /\ body' \in Seq(Char)
      <4>1. <<>> \in Seq(Char)
        OBVIOUS
      <4>. QED
        BY <2>3, <4>1, BeginTyped
    <3>2. pc' \in {"halted", "idle"} /\ (pc' = "idle" => depth' = 0)
      BY <2>1, <2>3 DEF CallInv
    <3>3. CallInv'
      BY <2>1, <2>3, <3>2 DEF CallInv
    <3>. QED
      BY <2>1, <3>1, <3>3 DEF TypeInv, HeapInv, DrawInv
  <2>4. CASE /\ Begin(<<>>, <<>>) /\ tries' = 0
             /\ body' = IF Head(todo) \in {"text", "body"} THEN out ELSE body
             /\ pc' = "malloc" /\ UNCHANGED <<caller, request, depth>>
    <3>1. PassType' /\ body' \in Seq(Char)
      <4>1. <<>> \in Seq(Char)
        OBVIOUS
      <4>2. PassType'
        BY <2>4, <4>1, BeginTyped
      <4>3. body' \in Seq(Char)
        BY <2>4 DEF PassType
      <4>. QED
        BY <4>2, <4>3
    <3>2. CallInv'
      BY <2>1, <2>4 DEF CallInv
    <3>. QED
      BY <2>1, <3>1, <3>2 DEF TypeInv, HeapInv, DrawInv
  <2>. QED
    BY Zenon, <1>7, <2>2, <2>3, <2>4 DEF Return
<1>8. CASE UNCHANGED vars
  BY <1>8
  DEF vars, TypeInv, CallInv, HeapInv, DrawInv, PassType, formatVars, callVars,
      drawVars
<1>. QED
  BY <1>1, <1>2, <1>3, <1>4, <1>5, <1>6, <1>7, <1>8 DEF Next

-----------------------------------------------------------------------------
(* Texts overwrite no other: what is taken later lies behind.              *)

Before(block, address) ==
  /\ block.at \in Nat /\ block.size \in Nat
  /\ block.at + block.size <= address

ApartInv ==
  watched # None =>
    /\ Before(watched, heap_ptr)
    /\ pc = "pass" => watched.at = buf \/ Before(watched, buf)

LEMMA BeforeGrows ==
  ASSUME NEW block, NEW a \in Nat, NEW b \in Nat, a <= b, Before(block, a)
  PROVE  Before(block, b)
<1>. DEFINE e == block.at + block.size
<1>1. e \in Nat /\ e <= a
  BY DEF Before
<1>2. e <= b
  <2>. HIDE DEF e
  <2>. QED
    BY <1>1
<1>. QED
  BY <1>2 DEF Before

LEMMA StepApart ==
  ASSUME TypeInv, ApartInv, [Next]_vars
  PROVE  ApartInv'
<1>1. HeapInv /\ CallInv /\ heap_ptr \in Nat /\ heap_max \in Nat
  BY HeapAssumption DEF TypeInv, HeapInv
<1>2. ASSUME UNCHANGED <<heap_ptr, buf, watched>>, pc' = "pass" => pc = "pass"
      PROVE  ApartInv'
  BY <1>2 DEF ApartInv
<1>3. CASE Call
  <2>1. UNCHANGED <<heap_ptr, buf, watched>> /\ pc' = "malloc"
    BY <1>3 DEF Call, Enter
  <2>. QED
    BY <1>2, <2>1
<1>4. CASE fb_init
  <2>1. framebuffer_size' \in Nat
    BY <1>4, TextAssumption DEF fb_init
  <2>2. CASE /\ Fits(framebuffer_size') /\ malloc(framebuffer_size')
             /\ pc' = "idle"
             /\ watched' \in {watched, [at |-> 0, size |-> framebuffer_size']}
    <3>1. /\ align_up(heap_ptr) \in heap_ptr .. heap_max
          /\ heap_ptr' \in 0 .. heap_max
          /\ align_up(heap_ptr) + framebuffer_size' <= heap_ptr'
      BY <2>1, <2>2, <1>1, BlockFits DEF HeapInv
    <3>2. heap_ptr' \in Nat /\ heap_ptr <= heap_ptr'
          /\ framebuffer_size' <= heap_ptr'
      BY <3>1, <2>1, <1>1
    <3>3. CASE watched' = watched
      <4>1. watched # None => Before(watched, heap_ptr')
        BY <1>1, <3>2, BeforeGrows DEF ApartInv
      <4>. QED
        BY <2>2, <3>3, <4>1 DEF ApartInv
    <3>4. CASE watched' = [at |-> 0, size |-> framebuffer_size']
      <4>1. watched'.at = 0 /\ watched'.size = framebuffer_size'
        BY <3>4
      <4>2. Before(watched', heap_ptr')
        <5>1. \A x, y \in Nat : x <= y => 0 + x <= y /\ 0 \in Nat
          OBVIOUS
        <5>2. 0 + framebuffer_size' <= heap_ptr' /\ 0 \in Nat
          BY Zenon, <2>1, <3>2, <5>1
        <5>. QED
          BY Zenon, <2>1, <4>1, <5>2 DEF Before
      <4>. QED
        BY <2>2, <4>2 DEF ApartInv
    <3>. QED
      BY <2>2, <3>3, <3>4
  <2>3. CASE Enter("panic", OutOfMemory) /\ UNCHANGED <<heap_ptr, buf, watched>>
    BY <1>2, <2>3 DEF Enter
  <2>. QED
    BY <1>4, <2>2, <2>3 DEF fb_init
<1>5. CASE TakeBlock
  <2>1. /\ Fits(cap) /\ malloc(cap) /\ buf' = align_up(heap_ptr) /\ cap' = cap
        /\ watched' \in {watched, [at |-> buf', size |-> cap]} /\ cap \in Nat
    BY <1>1, <1>5 DEF TakeBlock, CallInv
  <2>2. /\ align_up(heap_ptr) \in heap_ptr .. heap_max
        /\ heap_ptr' \in 0 .. heap_max
        /\ align_up(heap_ptr) + cap <= heap_ptr'
    BY <2>1, <1>1, BlockFits DEF HeapInv
  <2>3. /\ heap_ptr' \in Nat /\ buf' \in Nat
        /\ heap_ptr <= buf' /\ buf' + cap <= heap_ptr' /\ heap_ptr <= heap_ptr'
    BY <2>1, <2>2, <1>1
  <2>4. CASE watched' = watched
    <3>1. watched # None => Before(watched, heap_ptr') /\ Before(watched, buf')
      BY <1>1, <2>3, BeforeGrows DEF ApartInv
    <3>. QED
      BY <2>4, <3>1 DEF ApartInv
  <2>5. CASE watched' = [at |-> buf', size |-> cap]
    BY <2>1, <2>3, <2>5 DEF ApartInv, Before
  <2>. QED
    BY <2>1, <2>4, <2>5
<1>6. CASE Exhausted
  <2>1. UNCHANGED <<heap_ptr, buf, watched>> /\ pc' \in {"malloc", "crashed"}
    BY <1>6 DEF Exhausted, Enter
  <2>. QED
    BY <1>2, <2>1
<1>7. CASE PassStep
  BY <1>2, <1>7 DEF PassStep
<1>8. CASE Retry
  BY <1>2, <1>8 DEF Retry, free
<1>9. CASE Return
  BY <1>2, <1>9 DEF Return, free
<1>10. CASE UNCHANGED vars
  BY <1>2, <1>10 DEF vars
<1>. QED
  BY <1>3, <1>4, <1>5, <1>6, <1>7, <1>8, <1>9, <1>10 DEF Next

LEMMA ApartInvKeeps ==
  ASSUME TypeInv, ApartInv
  PROVE  TextsApart
<1>. SUFFICES ASSUME pc = "pass", watched # None, watched.at # buf,
                     NEW i \in 0 .. Len(out),
                     buf + i \in watched.at .. watched.at + watched.size - 1
              PROVE  FALSE
  BY DEF TextsApart
<1>1. Before(watched, buf)
  BY DEF ApartInv
<1>2. buf \in Nat
  BY HeapAssumption DEF TypeInv, HeapInv
<1>3. Len(out) \in Nat
  BY DEF TypeInv, PassType
<1>4. i \in Nat
  BY <1>3
<1>. DEFINE a == watched.at
            n == watched.size
<1>5. a \in Nat /\ n \in Nat /\ a + n <= buf /\ buf + i \in a .. a + n - 1
  BY <1>1 DEF Before
<1>. HIDE DEF a, n
<1>. QED
  BY <1>2, <1>4, <1>5

-----------------------------------------------------------------------------
(* Passes that begin at the same stage come to the same end.               *)

Start(job) == Stage(job.format, job.args, "text", 0, {}, <<>>)

(* The first n stages after a first one. *)
Stages(first, n, f) ==
  /\ f[0] = first
  /\ \A i \in 0 .. n - 1 : ~Final(f[i]) /\ f[i + 1] = After(f[i])

Reaches(first, s) == \E n \in Nat : \E f : Stages(first, n, f) /\ f[n] = s

LEMMA StartReached == \A first : Reaches(first, first)
<1>. TAKE first
<1>. DEFINE f == [i \in {0} |-> first]
<1>1. f[0] = first
  OBVIOUS
<1>2. 0 .. 0 - 1 = {}
  OBVIOUS
<1>3. Stages(first, 0, f)
  BY <1>1, <1>2 DEF Stages
<1>. QED
  BY <1>1, <1>3 DEF Reaches

LEMMA NextReached ==
  ASSUME NEW first, NEW s, Reaches(first, s), ~Final(s)
  PROVE  Reaches(first, After(s))
<1>0. PICK n \in Nat : \E f : Stages(first, n, f) /\ f[n] = s
  BY DEF Reaches
<1>1. PICK f : Stages(first, n, f) /\ f[n] = s
  BY <1>0
<1>. DEFINE g == [i \in 0 .. n + 1 |-> IF i = n + 1 THEN After(s) ELSE f[i]]
<1>2. /\ g[n + 1] = After(s)
      /\ \A i \in 0 .. n : g[i] = f[i]
  OBVIOUS
<1>. HIDE DEF g
<1>3. g[0] = first
  BY <1>1, <1>2 DEF Stages
<1>4. ASSUME NEW i \in 0 .. (n + 1) - 1
      PROVE  ~Final(g[i]) /\ g[i + 1] = After(g[i])
  <2>1. CASE i = n
    BY <1>1, <1>2, <2>1
  <2>2. CASE i # n
    <3>1. i \in 0 .. n - 1 /\ i \in 0 .. n /\ i + 1 \in 0 .. n
      BY <2>2
    <3>2. ~Final(f[i]) /\ f[i + 1] = After(f[i])
      BY <1>1, <3>1 DEF Stages
    <3>. QED
      BY <1>2, <3>1, <3>2
  <2>. QED
    BY <2>1, <2>2
<1>5. Stages(first, n + 1, g) /\ n + 1 \in Nat
  BY <1>3, <1>4 DEF Stages
<1>. QED
  BY <1>2, <1>5 DEF Reaches

LEMMA StagesAgree ==
  ASSUME NEW first, NEW n \in Nat, NEW m \in Nat, NEW f, NEW g,
         Stages(first, n, f), Stages(first, m, g)
  PROVE  \A i \in Nat : i <= n /\ i <= m => f[i] = g[i]
<1>. DEFINE S == {i \in Nat : i <= n /\ i <= m => f[i] = g[i]}
<1>1. 0 \in S
  BY DEF Stages
<1>2. ASSUME NEW i \in S PROVE i + 1 \in S
  <2>. SUFFICES ASSUME i + 1 <= n, i + 1 <= m PROVE f[i + 1] = g[i + 1]
    OBVIOUS
  <2>1. i \in 0 .. n - 1 /\ i \in 0 .. m - 1 /\ f[i] = g[i]
    OBVIOUS
  <2>2. f[i + 1] = After(f[i]) /\ g[i + 1] = After(g[i])
    BY <2>1 DEF Stages
  <2>. QED
    BY <2>1, <2>2
<1>3. S = Nat
  <2>. HIDE DEF S
  <2>1. S \in SUBSET Nat
    BY DEF S
  <2>. QED
    BY <1>1, <1>2, <2>1, SetInduction
<1>. QED
  BY <1>3

(* A pass comes to one end only. *)
LEMMA OneEnd ==
  ASSUME NEW first, NEW s, NEW t, Reaches(first, s), Reaches(first, t),
         Final(s), Final(t)
  PROVE  s = t
<1>0. PICK n \in Nat : \E f : Stages(first, n, f) /\ f[n] = s
  BY DEF Reaches
<1>1. PICK f : Stages(first, n, f) /\ f[n] = s
  BY <1>0
<1>7. PICK m \in Nat : \E g : Stages(first, m, g) /\ g[m] = t
  BY DEF Reaches
<1>2. PICK g : Stages(first, m, g) /\ g[m] = t
  BY <1>7
<1>3. \A i \in Nat : i <= n /\ i <= m => f[i] = g[i]
  BY <1>1, <1>2, StagesAgree
<1>4. ~(n < m)
  <2>. SUFFICES ASSUME n < m PROVE FALSE
    OBVIOUS
  <2>1. n \in 0 .. m - 1 /\ f[n] = g[n]
    BY <1>3
  <2>2. ~Final(g[n])
    BY <1>2, <2>1 DEF Stages
  <2>. QED
    BY <1>1, <2>1, <2>2
<1>5. ~(m < n)
  <2>. SUFFICES ASSUME m < n PROVE FALSE
    OBVIOUS
  <2>1. m \in 0 .. n - 1 /\ f[m] = g[m]
    BY <1>3
  <2>2. ~Final(f[m])
    BY <1>1, <2>1 DEF Stages
  <2>. QED
    BY <1>2, <2>1, <2>2
<1>6. n = m
  BY <1>4, <1>5
<1>. QED
  BY <1>1, <1>2, <1>3, <1>6

(* The pass under way is one of the job, and a second one has a block that *)
(* is long enough for the end of the first.                                *)
RetryInv ==
  /\ tries \in 0 .. 2
  /\ pc = "malloc" => tries \in {0, 1}
  /\ pc = "pass" => tries \in {1, 2} /\ Reaches(Start(Job), Current)
  /\ (pc = "pass" /\ tries = 2) \/ (pc = "malloc" /\ tries = 1) =>
       \E s : Reaches(Start(Job), s) /\ Final(s) /\ Len(s.out) < cap

LEMMA StepRetry ==
  ASSUME TypeInv, ArgumentsFit, RetryInv, [Next]_vars
  PROVE  RetryInv'
<1>1. ASSUME pc' = "malloc" /\ tries' = 0
      PROVE  RetryInv'
  BY <1>1 DEF RetryInv
<1>2. ASSUME pc' \in {"idle", "halted", "crashed"}, tries' \in {0, tries}
      PROVE  RetryInv'
  BY <1>2 DEF RetryInv
<1>3. CASE Call
  BY <1>1, <1>3 DEF Call, Enter
<1>4. CASE fb_init
  BY <1>1, <1>2, <1>4 DEF fb_init, Enter
<1>5. CASE TakeBlock
  <2>1. /\ pc = "malloc" /\ Begin(Job.format, Job.args)
        /\ pc' = "pass" /\ tries' = tries + 1 /\ cap' = cap
        /\ UNCHANGED <<caller, todo, request, body>>
    BY <1>5 DEF TakeBlock, callVars
  <2>2. Job' = Job
    BY <2>1 DEF Job
  <2>3. Current' = Start(Job)
    BY <2>1 DEF Begin, Current, Start
  <2>4. Reaches(Start(Job'), Current')
    BY <2>2, <2>3, StartReached
  <2>5. tries' \in {1, 2} /\ (tries' = 2 => tries = 1)
    BY <2>1 DEF RetryInv
  <2>6. tries' = 2 => \E s : Reaches(Start(Job'), s) /\ Final(s) /\ Len(s.out) < cap'
    BY Zenon, <2>1, <2>2, <2>5 DEF RetryInv
  <2>7. tries' \in 0 .. 2 /\ pc' # "malloc"
    BY <2>1, <2>5
  <2>. QED
    BY Zenon, <2>1, <2>4, <2>5, <2>6, <2>7 DEF RetryInv
<1>6. CASE Exhausted
  BY <1>1, <1>2, <1>6 DEF Exhausted, Enter
<1>7. CASE PassStep
  <2>1. /\ pc = "pass" /\ Pass /\ pc' = pc
        /\ UNCHANGED <<caller, todo, request, body, tries, cap>>
    BY <1>7 DEF PassStep, callVars
  <2>2. Job' = Job
    BY <2>1 DEF Job
  <2>3. Current' = After(Current) /\ ~Final(Current)
    BY <2>1, PassFollows
  <2>4. Reaches(Start(Job'), Current')
    BY <2>1, <2>2, <2>3, NextReached DEF RetryInv
  <2>. QED
    BY Zenon, <2>1, <2>2, <2>4 DEF RetryInv
<1>8. CASE Retry
  <2>1. /\ pc = "pass" /\ Passed /\ Len(out) >= cap
        /\ cap' = Len(out) + 1 /\ pc' = "malloc"
        /\ UNCHANGED <<caller, todo, request, body, tries>>
    BY <1>8 DEF Retry, callVars
  <2>2. Job' = Job
    BY <2>1 DEF Job
  <2>3. Len(out) \in Nat /\ cap \in Nat
    BY DEF TypeInv, PassType, CallInv
  <2>4. Reaches(Start(Job), Current) /\ Final(Current) /\ Current.out = out
    BY <2>1, AfterCurrent DEF RetryInv, Current, Stage
  <2>5. tries # 2
    <3>. SUFFICES ASSUME tries = 2 PROVE FALSE
      OBVIOUS
    <3>1. PICK s : Reaches(Start(Job), s) /\ Final(s) /\ Len(s.out) < cap
      BY Zenon, <2>1 DEF RetryInv
    <3>2. s = Current
      BY <2>4, <3>1, OneEnd
    <3>. QED
      BY <2>1, <2>3, <2>4, <3>1, <3>2
  <2>6. tries' \in {1} /\ tries' \in 0 .. 2
    BY <2>1, <2>5 DEF RetryInv
  <2>7. Len(Current.out) < cap'
    BY <2>1, <2>3, <2>4
  <2>8. \E s : Reaches(Start(Job'), s) /\ Final(s) /\ Len(s.out) < cap'
    BY Zenon, <2>2, <2>4, <2>7
  <2>9. tries' \in {0, 1} /\ pc' # "pass"
    BY <2>1, <2>6
  <2>. QED
    BY Zenon, <2>1, <2>6, <2>8, <2>9 DEF RetryInv
<1>9. CASE Return
  <2>1. \/ pc' = "crashed" /\ UNCHANGED tries
        \/ tries' = 0 /\ pc' \in {"malloc", "halted", "idle"}
    BY <1>9 DEF Return
  <2>. QED
    BY <1>1, <1>2, <2>1
<1>10. CASE UNCHANGED vars
  <2>1. UNCHANGED <<pc, caller, todo, request, body, tries, cap>>
    BY <1>10 DEF vars, callVars
  <2>2. UNCHANGED <<format, ap, mode, width, flags, out>>
    BY <1>10 DEF vars, formatVars
  <2>3. Job' = Job
    BY <2>1 DEF Job
  <2>4. Current' = Current
    BY <2>2 DEF Current
  <2>. QED
    BY Zenon, <2>1, <2>3, <2>4 DEF RetryInv
<1>. QED
  BY <1>3, <1>4, <1>5, <1>6, <1>7, <1>8, <1>9, <1>10 DEF Next

-----------------------------------------------------------------------------
(* Arguments that fit.                                                     *)

(* A stage whose directive finds an argument of its kind. *)
FitAt(s) ==
  /\ s.format # <<>> /\ s.mode \in {"%", "zeros"} /\ Head(s.format) = "*" =>
       s.ap # <<>> /\ Head(s.ap) \in Int
  /\ /\ s.format # <<>>
     /\ \/ s.mode \in AtConversion /\ Head(s.format) \in Conversion
        \/ /\ s.mode \in {"h", "hh", "l", "ll", "z"}
           /\ Head(s.format) \in NumberConversion
     => s.ap # <<>> /\ Head(s.ap) \in ArgumentOf(Head(s.format))

(* A pass that begins there never misses an argument. *)
Fitting(first) == \A s : Reaches(first, s) => FitAt(s)

(* What the attribute "format (printf, ...)" has the compiler check of the *)
(* requests, and what nobody checks: that the message of a panic, which is *)
(* logged as a format, needs no arguments.                                 *)
RequestsFit ==
  /\ \A who \in DOMAIN Requests : \A r \in Requests[who] : Fitting(Start(r))
  /\ \A r \in Requests["panic"] : \A s : Reaches(Start(r), s) /\ Final(s) =>
       Fitting(Start([format |-> s.out, args |-> <<>>]))

LEMMA FitCurrent ==
  ASSUME pc = "pass" => FitAt(Current)
  PROVE  ArgumentsFit
<1>. SUFFICES ASSUME pc = "pass"
              PROVE  /\ Sees({"%", "zeros"}, {"*"}) =>
                          ap # <<>> /\ Head(ap) \in Int
                     /\ SeesConversion =>
                          ap # <<>> /\ Head(ap) \in ArgumentOf(Head(format))
  BY Zenon DEF ArgumentsFit, ArgumentOf
<1>1. Current.format = format /\ Current.mode = mode /\ Current.ap = ap
  BY DEF Current, Stage
<1>2. FitAt(Current)
  OBVIOUS
<1>. QED
  BY <1>1, <1>2 DEF FitAt, Sees, SeesConversion

LEMMA ReachesOnward ==
  ASSUME NEW s, NEW t, Reaches(s, t)
  PROVE  t = s \/ (~Final(s) /\ Reaches(After(s), t))
<1>0. PICK n \in Nat : \E f : Stages(s, n, f) /\ f[n] = t
  BY DEF Reaches
<1>1. PICK f : Stages(s, n, f) /\ f[n] = t
  BY <1>0
<1>2. CASE n = 0
  BY <1>1, <1>2 DEF Stages
<1>3. CASE n # 0
  <2>1. 0 \in 0 .. n - 1 /\ n - 1 \in Nat
    BY <1>3
  <2>2. f[0] = s /\ ~Final(s) /\ f[0 + 1] = After(s)
    BY <1>1, <2>1 DEF Stages
  <2>. DEFINE g == [i \in 0 .. n - 1 |-> f[i + 1]]
  <2>3. \A i \in 0 .. n - 1 : g[i] = f[i + 1]
    OBVIOUS
  <2>. HIDE DEF g
  <2>4. Stages(After(s), n - 1, g)
    <3>1. g[0] = After(s)
      BY <2>1, <2>2, <2>3
    <3>2. ASSUME NEW i \in 0 .. (n - 1) - 1
          PROVE  ~Final(g[i]) /\ g[i + 1] = After(g[i])
      <4>1. i \in 0 .. n - 1 /\ i + 1 \in 0 .. n - 1
        BY <2>1
      <4>2. ~Final(f[i + 1]) /\ f[(i + 1) + 1] = After(f[i + 1])
        BY <1>1, <4>1 DEF Stages
      <4>. QED
        BY <2>3, <4>1, <4>2
    <3>. QED
      BY <3>1, <3>2 DEF Stages
  <2>5. g[n - 1] = t
    <3>1. n - 1 \in 0 .. n - 1 /\ (n - 1) + 1 = n
      BY <2>1
    <3>. QED
      BY <1>1, <2>3, <3>1
  <2>. QED
    BY <2>1, <2>2, <2>4, <2>5 DEF Reaches
<1>. QED
  BY <1>2, <1>3

(* Texts put together. *)
One(c) == <<c>>

LEMMA Joining ==
  /\ <<>> \in Seq(Char)
  /\ \A c \in Char : One(c) \in Seq(Char)
  /\ \A r \in Seq(Char) : r \o <<>> = r
  /\ \A r, s \in Seq(Char) : r \o s \in Seq(Char)
<1>1. \A r \in Seq(Char) : r \o <<>> = r
  BY ConcatEmptySeq
<1>2. ASSUME NEW r \in Seq(Char), NEW s \in Seq(Char)
      PROVE  r \o s \in Seq(Char)
  OBVIOUS
<1>3. <<>> \in Seq(Char) /\ \A c \in Char : One(c) \in Seq(Char)
  BY DEF One
<1>. QED
  BY Zenon, <1>1, <1>2, <1>3

LEMMA JoiningThree ==
  ASSUME NEW r \in Seq(Char), NEW s \in Seq(Char), NEW t \in Seq(Char)
  PROVE  (r \o s) \o t = r \o (s \o t)
  BY ConcatAssociative

LEMMA OneBefore ==
  ASSUME NEW c \in Char, NEW q \in Seq(Char), NEW r \in Seq(Char)
  PROVE  (One(c) \o q) \o r = One(c) \o (q \o r)
<1>1. One(c) \in Seq(Char)
  BY Zenon, Joining
<1>. QED
  BY Zenon, <1>1, JoiningThree

(* A pass that misses no argument and has written t at its end. *)
Ends(first, t) ==
  Fitting(first) /\ \A s : Reaches(first, s) /\ Final(s) => s.out = t

LEMMA EndsNow ==
  ASSUME NEW s, FitAt(s), Final(s)
  PROVE  Ends(s, s.out)
  BY Zenon, ReachesOnward DEF Ends, Fitting

LEMMA EndsAfter ==
  ASSUME NEW s, NEW t, FitAt(s), ~Final(s), Ends(After(s), t)
  PROVE  Ends(s, t)
  BY Zenon, ReachesOnward DEF Ends, Fitting

(* What a format of fixed characters and strings writes, from its end. *)
Writes(f, a, t) ==
  \A w, fl : \A o \in Seq(Char) :
    Ends(Stage(f, a, "text", w, fl, o), o \o t)

LEMMA WritesEnd == \A a : Writes(<<>>, a, <<>>)
<1>. SUFFICES ASSUME NEW a, NEW w, NEW fl, NEW o \in Seq(Char)
              PROVE  Ends(Stage(<<>>, a, "text", w, fl, o), o \o <<>>)
  BY DEF Writes
<1>. DEFINE s == Stage(<<>>, a, "text", w, fl, o)
<1>1. s.mode = "text" /\ s.format = <<>> /\ s.out = o
  BY DEF Stage
<1>2. o \o <<>> = o
  BY ConcatEmptySeq
<1>. HIDE DEF s
<1>3. Final(s) /\ FitAt(s)
  BY <1>1 DEF Final, FitAt
<1>4. Ends(s, o)
  BY Zenon, <1>1, <1>3, EndsNow
<1>. QED
  BY Zenon, <1>2, <1>4 DEF s

LEMMA WritesLiteral ==
  ASSUME NEW f, NEW a, NEW t \in Seq(Char), f # <<>>, Head(f) # "%",
         Head(f) \in Char, Writes(Tail(f), a, t)
  PROVE  Writes(f, a, One(Head(f)) \o t)
<1>. SUFFICES ASSUME NEW w, NEW fl, NEW o \in Seq(Char)
              PROVE  Ends(Stage(f, a, "text", w, fl, o), o \o (One(Head(f)) \o t))
  BY DEF Writes
<1>. DEFINE s == Stage(f, a, "text", w, fl, o)
            c == Head(f)
<1>1. /\ s.format = f /\ s.ap = a /\ s.mode = "text" /\ s.width = w
      /\ s.flags = fl /\ s.out = o
  BY DEF Stage
<1>. HIDE DEF s
<1>2. After(s) = Stage(Tail(f), a, "text", w, fl, Append(o, c))
  BY Zenon, <1>1 DEF After, Onward
<1>3. FitAt(s) /\ ~Final(s)
  BY <1>1 DEF FitAt, Final, AtConversion
<1>. HIDE DEF c
<1>4. Append(o, c) \in Seq(Char) /\ Append(o, c) \o t = o \o (One(c) \o t)
  <2>1. c \in Char
    BY DEF c
  <2>2. Append(o, c) = o \o One(c)
    BY <2>1, AppendIsConcat DEF One
  <2>3. One(c) \in Seq(Char)
    BY Zenon, <2>1, Joining
  <2>4. o \o One(c) \in Seq(Char)
    BY Zenon, <2>3, Joining
  <2>5. (o \o One(c)) \o t = o \o (One(c) \o t)
    BY Zenon, <2>3, JoiningThree
  <2>. QED
    BY Zenon, <2>2, <2>4, <2>5
<1>5. Ends(After(s), o \o (One(c) \o t))
  <2>1. Ends(Stage(Tail(f), a, "text", w, fl, Append(o, c)), Append(o, c) \o t)
    BY Zenon, <1>4 DEF Writes
  <2>. QED
    BY Zenon, <1>2, <1>4, <2>1
<1>6. Ends(s, o \o (One(c) \o t))
  BY <1>3, <1>5, EndsAfter
<1>. QED
  BY <1>6 DEF s, c

LEMMA WritesLast ==
  ASSUME NEW f, NEW a, f # <<>>, Head(f) # "%", Head(f) \in Char,
         Tail(f) = <<>>
  PROVE  Writes(f, a, One(Head(f)))
<1>. DEFINE t == Tail(f)
<1>1. Writes(t, a, t) /\ t \in Seq(Char)
  BY Zenon, WritesEnd, Joining
<1>. HIDE DEF t
<1>2. Writes(f, a, One(Head(f)) \o t)
  BY <1>1, WritesLiteral DEF t
<1>3. One(Head(f)) \o t = One(Head(f))
  <2>1. One(Head(f)) \in Seq(Char)
    BY Zenon, Joining
  <2>. QED
    BY Zenon, <2>1, Joining DEF t
<1>. QED
  BY Zenon, <1>2, <1>3

(* A string in no field is written as it is. *)
LEMMA StringWritten ==
  ASSUME NEW m \in Seq(Char)
  PROVE  Converted("%", "s", m, 0, {}) = m
<1>1. m # NullText
  BY FormatAssumption
<1>2. Converted("%", "s", m, 0, {}) = prints(m, 0, {})
  BY Zenon, <1>1 DEF Converted
<1>. DEFINE n == 0 - Len(m)
            padding == [i \in 1 .. n |-> IF "PAD_ZERO" \in {} THEN "0" ELSE " "]
<1>3. prints(m, 0, {}) = padding \o m
  BY Zenon DEF prints
<1>4. n \in Int /\ ~(n > 0)
  OBVIOUS
<1>5. padding \in Seq(Char) /\ Len(padding) = 0
  <2>. HIDE DEF n
  <2>1. /\ [i \in 1 .. n |-> Pad({})] \in Seq(Char)
        /\ Len([i \in 1 .. n |-> Pad({})]) = 0
    BY Zenon, <1>4, PadType, PaddingType, PaddingLength
  <2>. QED
    BY Zenon, <2>1 DEF Pad
<1>. HIDE DEF padding
<1>6. padding = <<>>
  BY <1>5
<1>7. padding \o m = m
  BY Zenon, <1>6, ConcatEmptySeq
<1>. QED
  BY Zenon, <1>2, <1>3, <1>7

LEMMA WritesString ==
  ASSUME NEW f, NEW a, NEW t \in Seq(Char), f # <<>>, Head(f) = "%",
         Tail(f) # <<>>, Head(Tail(f)) = "s",
         a # <<>>, Head(a) \in Seq(Char),
         Writes(Tail(Tail(f)), Tail(a), t)
  PROVE  Writes(f, a, Head(a) \o t)
<1>. SUFFICES ASSUME NEW w, NEW fl, NEW o \in Seq(Char)
              PROVE  Ends(Stage(f, a, "text", w, fl, o), o \o (Head(a) \o t))
  BY DEF Writes
<1>. DEFINE g == Tail(f)
            m == Head(a)
            s == Stage(f, a, "text", w, fl, o)
            u == Stage(g, a, "%", 0, {}, o)
<1>1. /\ s.format = f /\ s.ap = a /\ s.mode = "text" /\ s.width = w
      /\ s.flags = fl /\ s.out = o
  BY DEF Stage
<1>2. /\ u.format = g /\ u.ap = a /\ u.mode = "%" /\ u.width = 0
      /\ u.flags = {} /\ u.out = o
  BY DEF Stage
<1>. HIDE DEF s
<1>3. After(s) = u
  <2>. HIDE DEF g
  <2>. QED
    BY Zenon, <1>1 DEF After, Onward, g
<1>. HIDE DEF u, g
<1>4. "s" \in Known("%") /\ "s" \in Conversion /\ "s" \notin {"%", "-", "*"}
  BY KnownChars DEF Conversion
<1>5. After(u) = Stage(Tail(g), Tail(a), "text", 0, {}, o \o m)
  <2>1. /\ g # <<>> /\ Head(g) = "s" /\ "%" # "text"
        /\ "s" # "%" /\ "s" # "-" /\ "s" # "*"
    BY DEF g
  <2>2. Converted("%", "s", m, 0, {}) = m
    BY StringWritten
  <2>3. After(u) = Stage(Tail(g), Tail(a), "text", 0, {},
                         o \o Converted("%", "s", m, 0, {}))
    BY Zenon, <1>2, <1>4, <2>1 DEF After, Onward
  <2>. QED
    BY Zenon, <2>2, <2>3
<1>6. FitAt(s) /\ ~Final(s)
  BY <1>1 DEF FitAt, Final, AtConversion
<1>7. FitAt(u) /\ ~Final(u)
  <2>1. Head(g) = "s" /\ "s" \notin NumberConversion
    BY DEF g, NumberConversion
  <2>2. m \in ArgumentOf("s")
    BY DEF ArgumentOf
  <2>. QED
    BY <1>2, <2>1, <2>2 DEF FitAt, Final
<1>. HIDE DEF m
<1>8. m \in Seq(Char) /\ o \o m \in Seq(Char) /\ (o \o m) \o t = o \o (m \o t)
  <2>1. m \in Seq(Char)
    BY DEF m
  <2>2. o \o m \in Seq(Char)
    BY <2>1, JoinType
  <2>3. (o \o m) \o t = o \o (m \o t)
    BY Zenon, <2>1, JoiningThree
  <2>. QED
    BY <2>1, <2>2, <2>3
<1>9. Ends(After(u), o \o (m \o t))
  <2>1. Ends(Stage(Tail(g), Tail(a), "text", 0, {}, o \o m), (o \o m) \o t)
    BY Zenon, <1>8 DEF Writes, g
  <2>. QED
    BY Zenon, <1>5, <1>8, <2>1
<1>10. Ends(u, o \o (m \o t))
  BY <1>7, <1>9, EndsAfter
<1>11. Ends(s, o \o (m \o t))
  BY <1>3, <1>6, <1>10, EndsAfter
<1>. QED
  BY <1>11 DEF s, m

(* Sequences put together, one element at a time. *)
LEMMA OneAndOne ==
  ASSUME NEW a, NEW b
  PROVE  One(a) \o <<b>> = <<a, b>>
<1>. DEFINE V == {a, b}
            s == One(a)
            r == <<b>>
            t == <<a, b>>
            u == s \o r
<1>1. /\ s \in Seq(V) /\ r \in Seq(V) /\ t \in Seq(V)
      /\ Len(s) = 1 /\ Len(r) = 1 /\ Len(t) = 2
  BY DEF One
<1>2. /\ u \in Seq(V) /\ Len(u) = 2 /\ u[1] = s[1]
      /\ \A i \in 2 .. 2 : u[i] = r[i - 1]
  BY <1>1 DEF One
<1>3. /\ s[1] = a /\ r[1] = b
      /\ t[1] = a /\ t[2] = b
  BY DEF One
<1>. HIDE DEF s, r, t, u, V
<1>4. \A i \in 1 .. 2 : u[i] = t[i]
  BY <1>2, <1>3
<1>5. u = t
  BY <1>1, <1>2, <1>4
<1>. QED
  BY <1>5 DEF u, t, s, r

LEMMA OneAndTwo ==
  ASSUME NEW a, NEW b, NEW c
  PROVE  One(a) \o <<b, c>> = <<a, b, c>>
<1>. DEFINE V == {a, b, c}
            s == One(a)
            r == <<b, c>>
            t == <<a, b, c>>
            u == s \o r
<1>1. /\ s \in Seq(V) /\ r \in Seq(V) /\ t \in Seq(V)
      /\ Len(s) = 1 /\ Len(r) = 2 /\ Len(t) = 3
  BY DEF One
<1>2. /\ u \in Seq(V) /\ Len(u) = 3 /\ u[1] = s[1]
      /\ \A i \in 2 .. 3 : u[i] = r[i - 1]
  BY <1>1 DEF One
<1>3. /\ s[1] = a /\ r[1] = b /\ r[2] = c
      /\ t[1] = a /\ t[2] = b /\ t[3] = c
  BY DEF One
<1>. HIDE DEF s, r, t, u, V
<1>4. \A i \in 1 .. 3 : u[i] = t[i]
  BY <1>2, <1>3
<1>5. u = t
  BY <1>1, <1>2, <1>4
<1>. QED
  BY <1>5 DEF u, t, s, r

LEMMA OneAndThree ==
  ASSUME NEW a, NEW b, NEW c, NEW d
  PROVE  One(a) \o <<b, c, d>> = <<a, b, c, d>>
<1>. DEFINE V == {a, b, c, d}
            s == One(a)
            r == <<b, c, d>>
            t == <<a, b, c, d>>
            u == s \o r
<1>1. /\ s \in Seq(V) /\ r \in Seq(V) /\ t \in Seq(V)
      /\ Len(s) = 1 /\ Len(r) = 3 /\ Len(t) = 4
  BY DEF One
<1>2. /\ u \in Seq(V) /\ Len(u) = 4 /\ u[1] = s[1]
      /\ \A i \in 2 .. 4 : u[i] = r[i - 1]
  BY <1>1 DEF One
<1>3. /\ s[1] = a /\ r[1] = b /\ r[2] = c /\ r[3] = d
      /\ t[1] = a /\ t[2] = b /\ t[3] = c /\ t[4] = d
  BY DEF One
<1>. HIDE DEF s, r, t, u, V
<1>4. \A i \in 1 .. 4 : u[i] = t[i]
  BY <1>2, <1>3
<1>5. u = t
  BY <1>1, <1>2, <1>4
<1>. QED
  BY <1>5 DEF u, t, s, r

LEMMA OneAndFour ==
  ASSUME NEW a, NEW b, NEW c, NEW d, NEW e
  PROVE  One(a) \o <<b, c, d, e>> = <<a, b, c, d, e>>
<1>. DEFINE V == {a, b, c, d, e}
            s == One(a)
            r == <<b, c, d, e>>
            t == <<a, b, c, d, e>>
            u == s \o r
<1>1. /\ s \in Seq(V) /\ r \in Seq(V) /\ t \in Seq(V)
      /\ Len(s) = 1 /\ Len(r) = 4 /\ Len(t) = 5
  BY DEF One
<1>2. /\ u \in Seq(V) /\ Len(u) = 5 /\ u[1] = s[1]
      /\ \A i \in 2 .. 5 : u[i] = r[i - 1]
  BY <1>1 DEF One
<1>3. /\ s[1] = a /\ r[1] = b /\ r[2] = c /\ r[3] = d /\ r[4] = e
      /\ t[1] = a /\ t[2] = b /\ t[3] = c /\ t[4] = d /\ t[5] = e
  BY DEF One
<1>. HIDE DEF s, r, t, u, V
<1>4. \A i \in 1 .. 5 : u[i] = t[i]
  BY <1>2, <1>3
<1>5. u = t
  BY <1>1, <1>2, <1>4
<1>. QED
  BY <1>5 DEF u, t, s, r

(* Opaque to the provers, which would take the tuples to pieces. *)
Four(a, b, c, d) == <<a, b, c, d>>
Five(a, b, c, d, e) == <<a, b, c, d, e>>
Joined(q, r, t) == q \o r = t

LEMMA FourBefore ==
  ASSUME NEW a \in Char, NEW b \in Char, NEW c \in Char, NEW d \in Char,
         NEW r \in Seq(Char)
  PROVE  Joined(Four(a, b, c, d), r,
                One(a) \o (One(b) \o (One(c) \o (One(d) \o r))))
<1>. DEFINE q2 == <<c, d>>
            q3 == <<b, c, d>>
            q4 == <<a, b, c, d>>
<1>1. /\ One(c) \o One(d) = q2
      /\ One(b) \o q2 = q3
      /\ One(a) \o q3 = q4
  BY OneAndOne, OneAndTwo, OneAndThree DEF One
<1>. HIDE DEF q2, q3, q4
<1>2. q2 \in Seq(Char)
  BY DEF q2
<1>3. q3 \in Seq(Char)
  BY DEF q3
<1>4. (One(c) \o One(d)) \o r = One(c) \o (One(d) \o r)
  <2>1. One(d) \in Seq(Char)
    BY Zenon, Joining
  <2>. QED
    BY Zenon, <2>1, OneBefore
<1>5. (One(b) \o q2) \o r = One(b) \o (q2 \o r)
  BY <1>2, OneBefore
<1>6. (One(a) \o q3) \o r = One(a) \o (q3 \o r)
  BY <1>3, OneBefore
<1>. QED
  BY Zenon, <1>1, <1>4, <1>5, <1>6 DEF q4, Four, Joined

LEMMA FiveBefore ==
  ASSUME NEW a \in Char, NEW b \in Char, NEW c \in Char, NEW d \in Char,
         NEW e \in Char,
         NEW r \in Seq(Char)
  PROVE  Joined(Five(a, b, c, d, e), r,
                One(a) \o (One(b) \o (One(c) \o (One(d) \o (One(e) \o r)))))
<1>. DEFINE q2 == <<d, e>>
            q3 == <<c, d, e>>
            q4 == <<b, c, d, e>>
            q5 == <<a, b, c, d, e>>
<1>1. /\ One(d) \o One(e) = q2
      /\ One(c) \o q2 = q3
      /\ One(b) \o q3 = q4
      /\ One(a) \o q4 = q5
  BY OneAndOne, OneAndTwo, OneAndThree, OneAndFour DEF One
<1>. HIDE DEF q2, q3, q4, q5
<1>2. q2 \in Seq(Char)
  BY DEF q2
<1>3. q3 \in Seq(Char)
  BY DEF q3
<1>4. q4 \in Seq(Char)
  BY DEF q4
<1>5. (One(d) \o One(e)) \o r = One(d) \o (One(e) \o r)
  <2>1. One(e) \in Seq(Char)
    BY Zenon, Joining
  <2>. QED
    BY Zenon, <2>1, OneBefore
<1>6. (One(c) \o q2) \o r = One(c) \o (q2 \o r)
  BY <1>2, OneBefore
<1>7. (One(b) \o q3) \o r = One(b) \o (q3 \o r)
  BY <1>3, OneBefore
<1>8. (One(a) \o q4) \o r = One(a) \o (q4 \o r)
  BY <1>4, OneBefore
<1>. QED
  BY Zenon, <1>1, <1>5, <1>6, <1>7, <1>8 DEF q5, Five, Joined

(* Fixed characters are written as they are. *)
LEMMA WordWrites ==
  ASSUME NEW c1 \in Char, c1 # "%", NEW c2 \in Char, c2 # "%",
         NEW c3 \in Char, c3 # "%", NEW c4 \in Char, c4 # "%"
  PROVE  Writes(<<c1, c2, c3, c4>>, <<>>,
                One(c1) \o (One(c2) \o (One(c3) \o One(c4))))
<1>. DEFINE f1 == <<c4>>
            f2 == <<c3, c4>>
            f3 == <<c2, c3, c4>>
            f4 == <<c1, c2, c3, c4>>
            t1 == One(c4)
            t2 == One(c3) \o t1
            t3 == One(c2) \o t2
            t4 == One(c1) \o t3
<1>b. /\ f1 # <<>> /\ Head(f1) = c4 /\ Tail(f1) = <<>>
      /\ f2 # <<>> /\ Head(f2) = c3 /\ Tail(f2) = f1
      /\ f3 # <<>> /\ Head(f3) = c2 /\ Tail(f3) = f2
  OBVIOUS
<1>c. /\ f4 # <<>> /\ Head(f4) = c1 /\ Tail(f4) = f3
  OBVIOUS
<1>. HIDE DEF f1, f2, f3, f4
<1>t. /\ t1 \in Seq(Char) /\ t2 \in Seq(Char) /\ t3 \in Seq(Char) /\ t4 \in Seq(Char)
  BY Zenon, Joining
<1>. HIDE DEF t1, t2, t3, t4
<1>1. Writes(f1, <<>>, t1)
  BY <1>b, WritesLast DEF t1
<1>2. Writes(f2, <<>>, t2)
  <2>1. Writes(f2, <<>>, One(c3) \o t1)
    BY <1>b, <1>1, <1>t, WritesLiteral
  <2>. QED
    BY Zenon, <2>1 DEF t2
<1>3. Writes(f3, <<>>, t3)
  <2>1. Writes(f3, <<>>, One(c2) \o t2)
    BY <1>b, <1>2, <1>t, WritesLiteral
  <2>. QED
    BY Zenon, <2>1 DEF t3
<1>4. Writes(f4, <<>>, t4)
  <2>1. Writes(f4, <<>>, One(c1) \o t3)
    BY <1>c, <1>3, <1>t, WritesLiteral
  <2>. QED
    BY Zenon, <2>1 DEF t4
<1>. QED
  BY Zenon, <1>4 DEF f4, t1, t2, t3, t4

(* The formats of vlog, with any characters for the fixed ones. *)
LEMMA LineWrites ==
  ASSUME NEW open \in Char, open # "%", NEW close \in Char, close # "%",
         NEW blank \in Char, blank # "%", NEW end \in Char, end # "%",
         NEW level \in Seq(Char), NEW message \in Seq(Char)
  PROVE  Writes(<<open, "%", "s", close, blank, "%", "s", end>>,
                <<level, message>>,
                One(open) \o (level \o (One(close) \o (One(blank)
                  \o (message \o One(end))))))
<1>. DEFINE a1 == <<message>>
            a2 == <<level, message>>
            f1 == <<end>>
            f2 == <<"s", end>>
            f3 == <<"%", "s", end>>
            f4 == <<blank, "%", "s", end>>
            f5 == <<close, blank, "%", "s", end>>
            f6 == <<"s", close, blank, "%", "s", end>>
            f7 == <<"%", "s", close, blank, "%", "s", end>>
            f8 == <<open, "%", "s", close, blank, "%", "s", end>>
            t1 == One(end)
            t2 == message \o t1
            t3 == One(blank) \o t2
            t4 == One(close) \o t3
            t5 == level \o t4
            t6 == One(open) \o t5
<1>a. /\ a1 # <<>> /\ Head(a1) = message /\ Tail(a1) = <<>>
      /\ a2 # <<>> /\ Head(a2) = level /\ Tail(a2) = a1
  OBVIOUS
<1>b. /\ f1 # <<>> /\ Head(f1) = end /\ Tail(f1) = <<>>
      /\ f2 # <<>> /\ Head(f2) = "s" /\ Tail(f2) = f1
      /\ f3 # <<>> /\ Head(f3) = "%" /\ Tail(f3) = f2
  OBVIOUS
<1>c. /\ f4 # <<>> /\ Head(f4) = blank /\ Tail(f4) = f3
      /\ f5 # <<>> /\ Head(f5) = close /\ Tail(f5) = f4
      /\ f6 # <<>> /\ Head(f6) = "s" /\ Tail(f6) = f5
  OBVIOUS
<1>d. /\ f7 # <<>> /\ Head(f7) = "%" /\ Tail(f7) = f6
      /\ f8 # <<>> /\ Head(f8) = open /\ Tail(f8) = f7
  OBVIOUS
<1>. HIDE DEF a1, a2, f1, f2, f3, f4, f5, f6, f7, f8
<1>t. /\ t1 \in Seq(Char) /\ t2 \in Seq(Char) /\ t3 \in Seq(Char) /\ t4 \in Seq(Char)
      /\ t5 \in Seq(Char) /\ t6 \in Seq(Char)
  BY Zenon, Joining
<1>. HIDE DEF t1, t2, t3, t4, t5, t6
<1>1. Writes(f1, <<>>, t1)
  BY <1>b, WritesLast DEF t1
<1>2. Writes(f3, a1, t2)
  <2>1. Writes(f3, a1, message \o t1)
    BY <1>a, <1>b, <1>1, <1>t, WritesString
  <2>. QED
    BY Zenon, <2>1 DEF t2
<1>3. Writes(f4, a1, t3)
  <2>1. Writes(f4, a1, One(blank) \o t2)
    BY <1>c, <1>2, <1>t, WritesLiteral
  <2>. QED
    BY Zenon, <2>1 DEF t3
<1>4. Writes(f5, a1, t4)
  <2>1. Writes(f5, a1, One(close) \o t3)
    BY <1>c, <1>3, <1>t, WritesLiteral
  <2>. QED
    BY Zenon, <2>1 DEF t4
<1>5. Writes(f7, a2, t5)
  <2>1. Writes(f7, a2, level \o t4)
    BY <1>a, <1>c, <1>d, <1>4, <1>t, WritesString
  <2>. QED
    BY Zenon, <2>1 DEF t5
<1>6. Writes(f8, a2, t6)
  <2>1. Writes(f8, a2, One(open) \o t5)
    BY <1>d, <1>5, <1>t, WritesLiteral
  <2>. QED
    BY Zenon, <2>1 DEF t6
<1>. QED
  BY Zenon, <1>6 DEF f8, a2, t1, t2, t3, t4, t5, t6

LEMMA SerialWrites ==
  ASSUME NEW open \in Char, open # "%", NEW close \in Char, close # "%",
         NEW blank \in Char, blank # "%", NEW white \in Char, white # "%",
         NEW end \in Char, end # "%", NEW colour \in Seq(Char),
         NEW level \in Seq(Char), NEW message \in Seq(Char)
  PROVE  Writes(<<"%", "s", open, "%", "s", close, blank, "%", "s", white, end>>,
                <<colour, level, message>>,
                colour \o (One(open) \o (level \o (One(close) \o (One(blank)
                  \o (message \o (One(white) \o One(end))))))))
<1>. DEFINE a1 == <<message>>
            a2 == <<level, message>>
            a3 == <<colour, level, message>>
            f1 == <<end>>
            f2 == <<white, end>>
            f3 == <<"s", white, end>>
            f4 == <<"%", "s", white, end>>
            f5 == <<blank, "%", "s", white, end>>
            f6 == <<close, blank, "%", "s", white, end>>
            f7 == <<"s", close, blank, "%", "s", white, end>>
            f8 == <<"%", "s", close, blank, "%", "s", white, end>>
            f9 == <<open, "%", "s", close, blank, "%", "s", white, end>>
            f10 == <<"s", open, "%", "s", close, blank, "%", "s", white, end>>
            f11 == <<"%", "s", open, "%", "s", close, blank, "%", "s", white, end>>
            t1 == One(end)
            t2 == One(white) \o t1
            t3 == message \o t2
            t4 == One(blank) \o t3
            t5 == One(close) \o t4
            t6 == level \o t5
            t7 == One(open) \o t6
            t8 == colour \o t7
<1>a. /\ a1 # <<>> /\ Head(a1) = message /\ Tail(a1) = <<>>
      /\ a2 # <<>> /\ Head(a2) = level /\ Tail(a2) = a1
      /\ a3 # <<>> /\ Head(a3) = colour /\ Tail(a3) = a2
  OBVIOUS
<1>b. /\ f1 # <<>> /\ Head(f1) = end /\ Tail(f1) = <<>>
      /\ f2 # <<>> /\ Head(f2) = white /\ Tail(f2) = f1
      /\ f3 # <<>> /\ Head(f3) = "s" /\ Tail(f3) = f2
  OBVIOUS
<1>c. /\ f4 # <<>> /\ Head(f4) = "%" /\ Tail(f4) = f3
      /\ f5 # <<>> /\ Head(f5) = blank /\ Tail(f5) = f4
      /\ f6 # <<>> /\ Head(f6) = close /\ Tail(f6) = f5
  OBVIOUS
<1>d. /\ f7 # <<>> /\ Head(f7) = "s" /\ Tail(f7) = f6
      /\ f8 # <<>> /\ Head(f8) = "%" /\ Tail(f8) = f7
      /\ f9 # <<>> /\ Head(f9) = open /\ Tail(f9) = f8
  OBVIOUS
<1>e. /\ f10 # <<>> /\ Head(f10) = "s" /\ Tail(f10) = f9
      /\ f11 # <<>> /\ Head(f11) = "%" /\ Tail(f11) = f10
  OBVIOUS
<1>. HIDE DEF a1, a2, a3, f1, f2, f3, f4, f5, f6, f7, f8, f9, f10, f11
<1>t. /\ t1 \in Seq(Char) /\ t2 \in Seq(Char) /\ t3 \in Seq(Char) /\ t4 \in Seq(Char)
      /\ t5 \in Seq(Char) /\ t6 \in Seq(Char) /\ t7 \in Seq(Char) /\ t8 \in Seq(Char)
  BY Zenon, Joining
<1>. HIDE DEF t1, t2, t3, t4, t5, t6, t7, t8
<1>1. Writes(f1, <<>>, t1)
  BY <1>b, WritesLast DEF t1
<1>2. Writes(f2, <<>>, t2)
  <2>1. Writes(f2, <<>>, One(white) \o t1)
    BY <1>b, <1>1, <1>t, WritesLiteral
  <2>. QED
    BY Zenon, <2>1 DEF t2
<1>3. Writes(f4, a1, t3)
  <2>1. Writes(f4, a1, message \o t2)
    BY <1>a, <1>b, <1>c, <1>2, <1>t, WritesString
  <2>. QED
    BY Zenon, <2>1 DEF t3
<1>4. Writes(f5, a1, t4)
  <2>1. Writes(f5, a1, One(blank) \o t3)
    BY <1>c, <1>3, <1>t, WritesLiteral
  <2>. QED
    BY Zenon, <2>1 DEF t4
<1>5. Writes(f6, a1, t5)
  <2>1. Writes(f6, a1, One(close) \o t4)
    BY <1>c, <1>4, <1>t, WritesLiteral
  <2>. QED
    BY Zenon, <2>1 DEF t5
<1>6. Writes(f8, a2, t6)
  <2>1. Writes(f8, a2, level \o t5)
    BY <1>a, <1>d, <1>5, <1>t, WritesString
  <2>. QED
    BY Zenon, <2>1 DEF t6
<1>7. Writes(f9, a2, t7)
  <2>1. Writes(f9, a2, One(open) \o t6)
    BY <1>d, <1>6, <1>t, WritesLiteral
  <2>. QED
    BY Zenon, <2>1 DEF t7
<1>8. Writes(f11, a3, t8)
  <2>1. Writes(f11, a3, colour \o t7)
    BY <1>a, <1>e, <1>7, <1>t, WritesString
  <2>. QED
    BY Zenon, <2>1 DEF t8
<1>. QED
  BY Zenon, <1>8 DEF f11, a3, t1, t2, t3, t4, t5, t6, t7, t8

LEMMA WordText ==
  ASSUME NEW c1, NEW c2, NEW c3, NEW c4
  PROVE  One(c1) \o (One(c2) \o (One(c3) \o One(c4))) = <<c1, c2, c3, c4>>
<1>. DEFINE q2 == <<c3, c4>>
            q3 == <<c2, c3, c4>>
            q4 == <<c1, c2, c3, c4>>
<1>1. One(c3) \o One(c4) = q2 /\ One(c2) \o q2 = q3 /\ One(c1) \o q3 = q4
  BY OneAndOne, OneAndTwo, OneAndThree DEF One
<1>. HIDE DEF q2, q3, q4
<1>. QED
  BY Zenon, <1>1 DEF q4

-----------------------------------------------------------------------------
(* The texts of the kernel's own formats.                                  *)

LEMMA StartEnds ==
  ASSUME NEW f, NEW a, NEW t \in Seq(Char), Writes(f, a, t)
  PROVE  Ends(Start([format |-> f, args |-> a]), t)
<1>. DEFINE job == [format |-> f, args |-> a]
<1>1. job.format = f /\ job.args = a
  OBVIOUS
<1>2. Start(job) = Stage(f, a, "text", 0, {}, <<>>)
  <2>. HIDE DEF job
  <2>. QED
    BY Zenon, <1>1 DEF Start
<1>3. <<>> \o t = t
  BY ConcatEmptySeq
<1>4. Ends(Stage(f, a, "text", 0, {}, <<>>), <<>> \o t)
  BY Zenon, Joining DEF Writes
<1>. QED
  BY Zenon, <1>2, <1>3, <1>4

LEMMA OutOfMemoryEnds ==
  /\ Ends(Start(OutOfMemory), OutOfMemory.text)
  /\ OutOfMemory.text \in Seq(Char)
  /\ Fitting(Start([format |-> OutOfMemory.text, args |-> <<>>]))
<1>. DEFINE word == <<"O", "u", "t", "!">>
<1>1. /\ OutOfMemory.format = word /\ OutOfMemory.args = <<>>
      /\ OutOfMemory.text = word
  BY DEF OutOfMemory
<1>2. /\ "O" # "%" /\ "u" # "%" /\ "t" # "%" /\ "!" # "%"
      /\ "O" \in Char /\ "u" \in Char /\ "t" \in Char /\ "!" \in Char
  <2>1. /\ "O" \in Char /\ "u" \in Char /\ "t" \in Char /\ "!" \in Char
    BY Zenon, TextAssumption
  <2>. QED
    BY <2>1
<1>3. One("O") \o (One("u") \o (One("t") \o One("!"))) = word
  BY WordText
<1>4. Writes(word, <<>>, word)
  BY Zenon, <1>2, <1>3, WordWrites
<1>5. word \in Seq(Char)
  BY <1>2
<1>. HIDE DEF word
<1>6. Ends(Start([format |-> word, args |-> <<>>]), word)
  BY Zenon, <1>4, <1>5, StartEnds
<1>7. Start(OutOfMemory) = Start([format |-> word, args |-> <<>>])
  <2>1. \A f, a : [format |-> f, args |-> a].format = f
              /\ [format |-> f, args |-> a].args = a
    OBVIOUS
  <2>. QED
    BY Zenon, <1>1, <2>1 DEF Start
<1>. QED
  BY Zenon, <1>1, <1>5, <1>6, <1>7 DEF Ends

(* The lines of a log, with any characters for the fixed ones. *)
LEMMA LineEnds ==
  ASSUME NEW open \in Char, open # "%", NEW close \in Char, close # "%",
         NEW blank \in Char, blank # "%", NEW end \in Char, end # "%",
         NEW level \in Char, NEW message \in Seq(Char)
  PROVE  Ends(Start([format |-> <<open, "%", "s", close, blank, "%", "s", end>>,
                     args |-> <<<<level>>, message>>]),
              <<open, level, close, blank>> \o message \o <<end>>)
<1>. DEFINE f == <<open, "%", "s", close, blank, "%", "s", end>>
            a == <<One(level), message>>
            t == <<open, level, close, blank>> \o message \o <<end>>
            u == One(open) \o (One(level) \o (One(close) \o (One(blank)
                   \o (message \o One(end)))))
<1>1. One(level) \in Seq(Char)
  BY Zenon, Joining
<1>2. Writes(f, a, u)
  BY Zenon, <1>1, LineWrites
<1>3. u = t
  <2>. DEFINE q == Four(open, level, close, blank)
              r == message \o One(end)
  <2>1. One(end) \in Seq(Char) /\ r \in Seq(Char)
    BY Zenon, Joining
  <2>2. q \in Seq(Char)
    BY DEF Four
  <2>3. q \o r = u
    <3>1. Joined(q, r, u)
      BY Zenon, <2>1, FourBefore
    <3>. QED
      BY Zenon, <3>1 DEF Joined
  <2>. HIDE DEF q
  <2>4. (q \o message) \o One(end) = q \o r
    BY Zenon, <2>1, <2>2, JoiningThree
  <2>. HIDE DEF u, r
  <2>5. t = (q \o message) \o One(end)
    BY Zenon DEF q, Four, One
  <2>. QED
    BY Zenon, <2>3, <2>4, <2>5
<1>4. u \in Seq(Char)
  BY Zenon, Joining
<1>5. a = <<<<level>>, message>>
  BY DEF One
<1>. HIDE DEF f, a, t, u
<1>6. Ends(Start([format |-> f, args |-> a]), t)
  BY Zenon, <1>2, <1>3, <1>4, StartEnds
<1>. QED
  BY Zenon, <1>5, <1>6 DEF f, t

LEMMA SerialEnds ==
  ASSUME NEW open \in Char, open # "%", NEW close \in Char, close # "%",
         NEW blank \in Char, blank # "%", NEW white \in Char, white # "%",
         NEW end \in Char, end # "%", NEW colour \in Char,
         NEW level \in Char, NEW message \in Seq(Char)
  PROVE  Ends(Start([format |-> <<"%", "s", open, "%", "s", close, blank,
                                  "%", "s", white, end>>,
                     args |-> <<<<colour>>, <<level>>, message>>]),
              <<colour, open, level, close, blank>> \o message
                \o <<white, end>>)
<1>. DEFINE f == <<"%", "s", open, "%", "s", close, blank, "%", "s", white, end>>
            a == <<One(colour), One(level), message>>
            t == <<colour, open, level, close, blank>> \o message
                   \o <<white, end>>
            u == One(colour) \o (One(open) \o (One(level) \o (One(close)
                   \o (One(blank) \o (message \o (One(white) \o One(end)))))))
<1>1. One(level) \in Seq(Char) /\ One(colour) \in Seq(Char)
  BY Zenon, Joining
<1>2. Writes(f, a, u)
  BY Zenon, <1>1, SerialWrites
<1>3. u = t
  <2>. DEFINE q == Five(colour, open, level, close, blank)
              e == One(white) \o One(end)
              r == message \o e
  <2>1. e \in Seq(Char) /\ r \in Seq(Char)
    BY Zenon, Joining
  <2>2. q \in Seq(Char)
    BY DEF Five
  <2>3. q \o r = u
    <3>1. Joined(q, r, u)
      BY Zenon, <2>1, FiveBefore
    <3>. QED
      BY Zenon, <3>1 DEF Joined
  <2>4. e = <<white, end>>
    BY OneAndOne DEF One
  <2>. HIDE DEF q, e
  <2>5. (q \o message) \o e = q \o r
    BY Zenon, <2>1, <2>2, JoiningThree
  <2>. HIDE DEF u, r
  <2>6. t = (q \o message) \o e
    BY Zenon, <2>4 DEF q, Five
  <2>. QED
    BY Zenon, <2>3, <2>5, <2>6
<1>4. u \in Seq(Char)
  BY Zenon, Joining
<1>5. a = <<<<colour>>, <<level>>, message>>
  BY DEF One
<1>. HIDE DEF f, a, t, u
<1>6. Ends(Start([format |-> f, args |-> a]), t)
  BY Zenon, <1>2, <1>3, <1>4, StartEnds
<1>. QED
  BY Zenon, <1>5, <1>6 DEF f, t

LEMMA VlogEnds ==
  ASSUME body \in Seq(Char)
  PROVE  /\ Head(todo) = "serial" =>
              Ends(Start(Job),
                   <<"^", "[", "L", "]", " ">> \o body \o <<"^", "\n">>)
         /\ Head(todo) = "line" =>
              Ends(Start(Job), <<"[", "L", "]", " ">> \o body \o <<"\n">>)
<1>1. /\ "[" \in Char /\ "]" \in Char /\ " " \in Char
      /\ "^" \in Char /\ "\n" \in Char /\ "L" \in Char
  BY Zenon, TextAssumption
<1>2. "[" # "%" /\ "]" # "%" /\ "^" # "%" /\ "\n" # "%"
  OBVIOUS
<1>3. " " # "%"
  BY Zenon
<1>4. CASE Head(todo) = "serial"
  <2>1. Head(todo) # "line"
    BY <1>4
  <2>. QED
    BY Zenon, <1>1, <1>2, <1>3, <1>4, <2>1, SerialEnds DEF Job
<1>5. CASE Head(todo) = "line"
  <2>1. Head(todo) # "serial"
    BY <1>5
  <2>. QED
    BY Zenon, <1>1, <1>2, <1>3, <1>5, <2>1, LineEnds DEF Job
<1>. QED
  BY Zenon, <1>4, <1>5

(* What is being made is one of the caller's texts, and the message of a   *)
(* panic that is about to be logged as a format needs no arguments.        *)
PanicTexts ==
  {<<"text", "body", "serial", "line">>, <<"body", "serial", "line">>,
   <<"serial", "line">>, <<"line">>}

AsFormat(message) == Start([format |-> message, args |-> <<>>])

JobInv ==
  pc \in {"malloc", "pass"} =>
    /\ caller \in DOMAIN Texts
    /\ \/ request \in Requests[caller]
       \/ caller = "panic" /\ request = OutOfMemory
    /\ caller = "panic" => todo \in PanicTexts
    /\ caller = "panic" /\ Head(todo) = "body" => Fitting(AsFormat(body))

LEMMA RequestFitting ==
  ASSUME RequestsFit, JobInv, pc \in {"malloc", "pass"}
  PROVE  /\ Fitting(Start(request))
         /\ caller = "panic" =>
              \A s : Reaches(Start(request), s) /\ Final(s) =>
                    Fitting(AsFormat(s.out))
<1>1. caller \in DOMAIN Requests /\ "panic" \in DOMAIN Requests
  BY CallerNames, TextAssumption DEF JobInv
<1>2. CASE request \in Requests[caller]
  BY Zenon, <1>1, <1>2 DEF RequestsFit, AsFormat
<1>3. CASE request = OutOfMemory
  BY Zenon, <1>3, OutOfMemoryEnds DEF AsFormat, Ends
<1>. QED
  BY Zenon, <1>2, <1>3 DEF JobInv

LEMMA JobOfRequest ==
  ASSUME Head(todo) \notin {"serial", "line"},
         ~(Head(todo) = "body" /\ caller = "panic")
  PROVE  Start(Job) = Start(request)
<1>1. \A f, a : [format |-> f, args |-> a].format = f
             /\ [format |-> f, args |-> a].args = a
  OBVIOUS
<1>2. Job = [format |-> request.format, args |-> request.args]
  BY DEF Job
<1>. QED
  BY Zenon, <1>1, <1>2 DEF Start

LEMMA JobFitting ==
  ASSUME RequestsFit, TypeInv, JobInv, pc \in {"malloc", "pass"}
  PROVE  Fitting(Start(Job))
<1>1. CASE Head(todo) \in {"serial", "line"}
  <2>1. body \in Seq(Char) /\ (Head(todo) = "serial" \/ Head(todo) = "line")
    BY <1>1 DEF TypeInv
  <2>. QED
    BY Zenon, <2>1, VlogEnds DEF Ends
<1>2. CASE Head(todo) = "body" /\ caller = "panic"
  <2>1. Job = [format |-> body, args |-> <<>>]
    BY Zenon, <1>2 DEF Job
  <2>. QED
    BY Zenon, <1>2, <2>1 DEF JobInv, AsFormat
<1>3. CASE /\ Head(todo) \notin {"serial", "line"}
           /\ ~(Head(todo) = "body" /\ caller = "panic")
  BY Zenon, <1>3, JobOfRequest, RequestFitting
<1>. QED
  BY Zenon, <1>1, <1>2, <1>3

(* In any state, what is left of the format finds its arguments. *)
LEMMA ArgumentsFitNow ==
  ASSUME RequestsFit, TypeInv, RetryInv, JobInv
  PROVE  ArgumentsFit
<1>1. pc = "pass" => Fitting(Start(Job)) /\ Reaches(Start(Job), Current)
  BY JobFitting DEF RetryInv
<1>. QED
  BY Zenon, <1>1, FitCurrent DEF Fitting

LEMMA TextsOfPanic ==
  /\ Texts["panic"] = <<"text", "body", "serial", "line">>
  /\ \A t \in PanicTexts : Head(t) = "text" => Head(Tail(t)) = "body"
  /\ \A t \in PanicTexts : Head(t) # "text" => Head(Tail(t)) # "body" \/ Tail(t) = <<>>
  /\ \A t \in PanicTexts : Tail(t) = <<>> \/ Tail(t) \in PanicTexts
<1>1. Texts["panic"] = <<"text">> \o vlog
  BY DEF Texts
<1>2. <<"text">> \o <<"body", "serial", "line">>
        = <<"text", "body", "serial", "line">>
  BY OneAndThree DEF One
<1>. QED
  BY <1>1, <1>2 DEF vlog, PanicTexts

LEMMA StepJob ==
  ASSUME RequestsFit, TypeInv, RetryInv, JobInv, [Next]_vars
  PROVE  JobInv'
<1>1. ASSUME NEW who \in DOMAIN Texts, NEW r, Enter(who, r),
             r \in Requests[who] \/ (who = "panic" /\ r = OutOfMemory)
      PROVE  JobInv'
  <2>1. caller' = who /\ request' = r /\ todo' = Texts[who]
    BY <1>1 DEF Enter
  <2>2. Texts["panic"] \in PanicTexts /\ Head(Texts["panic"]) # "body"
    BY TextsOfPanic DEF PanicTexts
  <2>. QED
    BY Zenon, <1>1, <2>1, <2>2 DEF JobInv
<1>2. ASSUME pc' \in {"idle", "halted", "crashed"}
      PROVE  JobInv'
  BY <1>2 DEF JobInv
<1>3. ASSUME UNCHANGED <<caller, request, todo, body>>,
             pc' \in {"malloc", "pass"} => pc \in {"malloc", "pass"}
      PROVE  JobInv'
  <2>1. /\ caller' = caller /\ request' = request
        /\ todo' = todo /\ body' = body
    BY <1>3
  <2>2. AsFormat(body)' = AsFormat(body)
    BY <2>1 DEF AsFormat
  <2>. QED
    BY Zenon, <1>3, <2>1, <2>2 DEF JobInv
<1>4. CASE Call
  <2>1. PICK who \in DOMAIN Texts : \E r \in Requests[who] : Enter(who, r)
    BY <1>4, CallerNames DEF Call
  <2>2. PICK r \in Requests[who] : Enter(who, r)
    BY <2>1
  <2>. QED
    BY Zenon, <1>1, <2>2
<1>5. CASE fb_init
  <2>1. "panic" \in DOMAIN Texts
    BY CallerNames
  <2>2. pc' = "idle" \/ Enter("panic", OutOfMemory)
    BY <1>5 DEF fb_init
  <2>. QED
    BY <1>1, <1>2, <2>1, <2>2
<1>6. CASE TakeBlock
  BY <1>3, <1>6 DEF TakeBlock, callVars
<1>7. CASE Exhausted
  <2>1. "panic" \in DOMAIN Texts
    BY CallerNames
  <2>2. pc' = "crashed" \/ Enter("panic", OutOfMemory)
    BY <1>7 DEF Exhausted
  <2>. QED
    BY <1>1, <1>2, <2>1, <2>2
<1>8. CASE PassStep
  BY <1>3, <1>8 DEF PassStep, callVars
<1>9. CASE Retry
  BY <1>3, <1>9 DEF Retry, callVars
<1>10. CASE Return
  <2>1. CASE pc' \in {"idle", "halted", "crashed"}
    BY <1>2, <2>1
  <2>2. CASE pc' \notin {"idle", "halted", "crashed"}
    <3>1. /\ pc = "pass" /\ Passed /\ UNCHANGED <<caller, request>>
          /\ todo' = Tail(todo) /\ Tail(todo) # <<>>
          /\ body' = IF Head(todo) \in {"text", "body"} THEN out ELSE body
      BY <1>10, <2>2 DEF Return
    <3>2. caller' = caller /\ request' = request
      BY <3>1
    <3>3. ASSUME caller = "panic" PROVE todo' \in PanicTexts
      BY Zenon, <3>1, <3>3, TextsOfPanic DEF JobInv
    <3>4. ASSUME caller = "panic", Head(todo') = "body"
          PROVE  Fitting(AsFormat(body'))
      <4>1. Head(todo) = "text" /\ body' = out
        <5>1. todo \in PanicTexts
          BY <3>1, <3>4 DEF JobInv
        <5>2. Head(todo) = "text"
          BY Zenon, <3>1, <3>4, <5>1, TextsOfPanic
        <5>. QED
          BY <3>1, <5>2
      <4>2. Start(Job) = Start(request)
        BY <4>1, JobOfRequest
      <4>3. Reaches(Start(request), Current) /\ Final(Current)
        BY <3>1, <4>2, AfterCurrent DEF RetryInv
      <4>4. Current.out = out
        BY DEF Current, Stage
      <4>5. pc \in {"malloc", "pass"}
        BY <3>1
      <4>6. Fitting(AsFormat(out))
        BY Zenon, <3>4, <4>3, <4>4, <4>5, RequestFitting
      <4>. QED
        BY Zenon, <4>1, <4>6
    <3>5. pc \in {"malloc", "pass"}
      BY <3>1
    <3>6. /\ caller \in DOMAIN Texts
          /\ \/ request \in Requests[caller]
             \/ caller = "panic" /\ request = OutOfMemory
      BY Zenon, <3>5 DEF JobInv
    <3>7. AsFormat(body') = AsFormat(body)'
      BY DEF AsFormat, Start, Stage
    <3>. QED
      BY Zenon, <3>2, <3>3, <3>4, <3>6, <3>7 DEF JobInv
  <2>. QED
    BY <2>1, <2>2
<1>11. CASE UNCHANGED vars
  BY <1>3, <1>11 DEF vars, callVars
<1>. QED
  BY <1>4, <1>5, <1>6, <1>7, <1>8, <1>9, <1>10, <1>11 DEF Next

-----------------------------------------------------------------------------
(* The invariant of everything the kernel says. *)

TextInv == TypeInv /\ ApartInv /\ RetryInv /\ JobInv

LEMMA Invariance ==
  ASSUME RequestsFit
  PROVE  Spec => []TextInv
<1>1. Init => TextInv
  <2>1. Init => ApartInv /\ RetryInv /\ JobInv
    BY DEF Init, ApartInv, RetryInv, JobInv
  <2>. QED
    BY <2>1, InitTyped DEF TextInv
<1>2. TextInv /\ [Next]_vars => TextInv'
  <2>. SUFFICES ASSUME TextInv, [Next]_vars PROVE TextInv'
    OBVIOUS
  <2>1. ArgumentsFit
    BY ArgumentsFitNow DEF TextInv
  <2>. QED
    BY <2>1, StepTyped, StepApart, StepRetry, StepJob DEF TextInv
<1>. QED
  BY <1>1, <1>2, PTL DEF Spec

(* No directive of any text misses its argument or finds one of another    *)
(* kind, if those of the callers' requests do not and the message of a     *)
(* panic, which panic logs as a format, has none that needs one: not in a  *)
(* second pass, nor in the line of a log, nor in the panic that want of    *)
(* memory makes of a text.                                                 *)
THEOREM ArgumentsAlwaysFit ==
  ASSUME RequestsFit
  PROVE  Spec => []ArgumentsFit
<1>1. TextInv => ArgumentsFit
  BY ArgumentsFitNow DEF TextInv
<1>. QED
  BY <1>1, Invariance, PTL

(* Every variable keeps its type, in every nesting of panics and faults:   *)
(* the heap's pointer stays aligned and in the heap, and no more panics are*)
(* on the stack than it holds.                                             *)
THEOREM TypeCorrect ==
  ASSUME RequestsFit
  PROVE  Spec => []TypeOK
<1>1. TextInv => TypeOK
  BY TypeInvIsTyping DEF TextInv
<1>. QED
  BY <1>1, Invariance, PTL

(* No pass ever writes into the block of another text or into the frame's  *)
(* buffer, however far it runs beyond its own block.                       *)
THEOREM OthersUntouched ==
  ASSUME RequestsFit
  PROVE  Spec => []TextsApart
<1>1. TextInv => TextsApart
  BY ApartInvKeeps DEF TextInv
<1>. QED
  BY <1>1, Invariance, PTL

(* Whatever is written, the block that is taken for a text that did not    *)
(* fit is large enough: vformat's loop goes round twice at most.           *)
THEOREM NoThirdBlock ==
  ASSUME RequestsFit
  PROVE  Spec => []OneRetry
<1>1. TextInv => OneRetry
  BY DEF TextInv, RetryInv, OneRetry
<1>. QED
  BY <1>1, Invariance, PTL

(* What the callers expect of their own formats: a pass of such a format   *)
(* ends with the text that C's printf makes of it.                         *)
RequestsSpelled ==
  \A who \in DOMAIN Requests : \A r \in Requests[who] : r.text # None =>
    \A s : Reaches(Start(r), s) /\ Final(s) => s.out = r.text

LEMMA EndExpected ==
  ASSUME RequestsFit, RequestsSpelled, TypeInv, RetryInv, JobInv,
         pc = "pass", Passed, Expected # None
  PROVE  out = Expected
<1>1. /\ Reaches(Start(Job), Current) /\ Final(Current) /\ Current.out = out
      /\ body \in Seq(Char) /\ pc \in {"malloc", "pass"}
  BY AfterCurrent DEF RetryInv, Current, Stage, TypeInv
<1>2. CASE Head(todo) = "serial"
  <2>1. Expected = <<"^", "[", "L", "]", " ">> \o body \o <<"^", "\n">>
    <3>1. Head(todo) # "text" /\ Head(todo) # "body"
      BY <1>2
    <3>. QED
      BY Zenon, <1>2, <3>1 DEF Expected
  <2>. QED
    BY Zenon, <1>1, <1>2, <2>1, VlogEnds DEF Ends
<1>3. CASE Head(todo) = "line"
  <2>1. Expected = <<"[", "L", "]", " ">> \o body \o <<"\n">>
    <3>1. Head(todo) # "text" /\ Head(todo) # "body" /\ Head(todo) # "serial"
      BY <1>3
    <3>. QED
      BY Zenon, <1>3, <3>1 DEF Expected
  <2>. QED
    BY Zenon, <1>1, <1>3, <2>1, VlogEnds DEF Ends
<1>4. CASE Head(todo) = "text" \/ (Head(todo) = "body" /\ caller # "panic")
  <2>1. Expected = request.text
    BY Zenon, <1>4 DEF Expected
  <2>2. /\ Head(todo) \notin {"serial", "line"}
        /\ ~(Head(todo) = "body" /\ caller = "panic")
    BY <1>4
  <2>3. Reaches(Start(request), Current)
    BY Zenon, <1>1, <2>2, JobOfRequest
  <2>4. CASE request \in Requests[caller]
    <3>1. caller \in DOMAIN Requests
      BY <1>1, CallerNames, TextAssumption DEF JobInv
    <3>. QED
      BY Zenon, <1>1, <2>1, <2>3, <2>4, <3>1 DEF RequestsSpelled
  <2>5. CASE request = OutOfMemory
    BY Zenon, <1>1, <2>1, <2>3, <2>5, OutOfMemoryEnds DEF Ends
  <2>. QED
    BY Zenon, <1>1, <2>4, <2>5 DEF JobInv
<1>5. CASE /\ Head(todo) # "text" /\ ~(Head(todo) = "body" /\ caller # "panic")
           /\ Head(todo) # "serial" /\ Head(todo) # "line"
  BY Zenon, <1>5 DEF Expected
<1>. QED
  BY Zenon, <1>2, <1>3, <1>4, <1>5

(* If every request's format ends with the request's text, so do all the   *)
(* texts that are made in its place or of it: the second pass of one that  *)
(* did not fit, in a block that an earlier pass may have overrun; and both *)
(* lines of a log, which say its message as it is, percent signs included, *)
(* also those of a panic and of the panic that want of memory makes.       *)
THEOREM TextsRight ==
  ASSUME RequestsFit, RequestsSpelled
  PROVE  Spec => []TextIsRight
<1>1. TextInv => TextIsRight
  BY ArgumentsFitNow, EndExpected DEF TextInv, TextIsRight
<1>. QED
  BY <1>1, Invariance, PTL
=============================================================================
