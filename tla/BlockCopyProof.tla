--------------------------- MODULE BlockCopyProof ---------------------------
(***************************************************************************)
(* The fast copies and fills are right for every word size, every length,  *)
(* every alignment and every overlap.                                      *)
(***************************************************************************)
EXTENDS BlockCopy, TLAPS

(* The arguments the functions are called with. *)
ArgsOK ==
  /\ n \in Nat /\ dst \in Nat /\ src \in Nat
  /\ dst + n <= MemSize /\ src + n <= MemSize
  /\ op \in {"memcpy_fast", "memmove_fast", "memset_fast", "memmove"}
  /\ op = "memcpy_fast" => Disjoint \/ dst = src
  /\ op = "memset_fast" => src = dst

(* A function returns at once, or after its last loop. *)
ReturnInv == pc = "done" => remaining = 0 \/ (op # "memset_fast" /\ dst = src)

IInv ==
  /\ ArgsOK /\ CopyInv /\ ReturnInv
  /\ mem \in [Addr -> Int] /\ remaining \in 0 .. n /\ s \in Int
  /\ pc \in {"align", "chunks", "words", "bytes", "done"}

-----------------------------------------------------------------------------
(* The memory m when the copy has come to p. *)
DoneUpTo(p) == IF Backwards THEN p .. dst + n - 1 ELSE dst .. p - 1

Progress(m, p) ==
  m \in [Addr -> Int] /\ \A a \in Addr : m[a] = IF a \in DoneUpTo(p) THEN Wanted(a) ELSE a

(* The next k bytes from p on, in the direction of the copy, are in the    *)
(* destination.                                                            *)
Fits(p, k) == IF Backwards THEN p - k >= dst /\ p <= dst + n
                           ELSE p >= dst /\ p + k <= dst + n

After(p, k) == IF Backwards THEN p - k ELSE p + k

(* Bytes still to be read have not been overwritten: a block of k bytes    *)
(* takes the copy k bytes further.                                         *)
LEMMA WriteProgress ==
  ASSUME ArgsOK, NEW m, NEW p \in Int, NEW k \in Nat, Progress(m, p), Fits(p, k)
  PROVE  Progress(Write(m, Low(p, k), Low(p, k) + (src - dst), k), After(p, k))
<1>. DEFINE to == Low(p, k)
            from == to + (src - dst)
            w == Write(m, to, from, k)
<1>1. /\ n \in Nat /\ dst \in Nat /\ src \in Nat /\ MemSize \in Nat
      /\ dst + n <= MemSize /\ src + n <= MemSize
  BY BlockCopyAssumption DEF ArgsOK
<1>2. to \in Int /\ dst <= to /\ to + k <= dst + n
  BY <1>1 DEF Low, Fits
<1>3. \A a \in Addr : w[a] = IF a \in to .. to + k - 1
                            THEN IF op = "memset_fast" THEN Fill ELSE m[from + (a - to)]
                            ELSE m[a]
  BY DEF Write
<1>4. ASSUME NEW a \in to .. to + k - 1, op # "memset_fast"
      PROVE  m[from + (a - to)] = Wanted(a)
  <2>1. a \in Int /\ from + (a - to) = src + (a - dst)
    BY <1>1, <1>2
  <2>2. src + (a - dst) \in Addr
    BY <1>1, <1>2, <2>1 DEF Addr
  <2>3. src + (a - dst) \notin DoneUpTo(p) \/ src = dst
    <3>1. CASE Backwards
      BY <1>1, <1>2, <2>1, <3>1 DEF Backwards, DoneUpTo, Low, Fits
    <3>2. CASE ~Backwards
      <4>1. dst < src \/ Disjoint \/ dst = src
        BY <1>1, <1>4, <3>2 DEF Backwards, ArgsOK
      <4>. QED
        BY <1>1, <1>2, <2>1, <3>2, <4>1 DEF DoneUpTo, Low, Fits, Disjoint
    <3>. QED
      BY <3>1, <3>2
  <2>4. m[src + (a - dst)] = src + (a - dst)
    BY <1>1, <1>4, <2>1, <2>2, <2>3 DEF Progress, Wanted
  <2>. QED
    BY <1>4, <2>1, <2>4 DEF Wanted
<1>5. \A a \in Addr : a \in DoneUpTo(After(p, k)) <=>
                        a \in DoneUpTo(p) \/ a \in to .. to + k - 1
  BY <1>1 DEF Addr, DoneUpTo, After, Low, Fits
<1>6. \A a \in Addr : Wanted(a) \in Int
  BY <1>1 DEF Addr, Wanted, Fill
<1>7. \A a \in Addr : w[a] = IF a \in DoneUpTo(After(p, k)) THEN Wanted(a) ELSE a
  <2>. SUFFICES ASSUME NEW a \in Addr
                PROVE  w[a] = IF a \in DoneUpTo(After(p, k)) THEN Wanted(a) ELSE a
    OBVIOUS
  <2>1. CASE a \in to .. to + k - 1
    BY <1>3, <1>4, <1>5, <2>1 DEF Wanted
  <2>2. CASE a \notin to .. to + k - 1
    BY <1>3, <1>5, <2>2 DEF Progress
  <2>. QED
    BY <2>1, <2>2
<1>8. w \in [Addr -> Int]
  <2>1. \A a \in Addr : w[a] \in Int
    BY <1>1, <1>6, <1>7 DEF Addr
  <2>2. w = [a \in Addr |-> w[a]]
    BY DEF Write
  <2>. QED
    BY <2>1, <2>2
<1>. QED
  BY <1>7, <1>8 DEF Progress

(* Four words are a chunk: the order in which they are moved is the        *)
(* direction of the copy.                                                  *)
LEMMA ChunkProgress ==
  ASSUME ArgsOK, NEW m, NEW p \in Int, Progress(m, p), Fits(p, kChunk)
  PROVE  Progress(Chunk(m, Low(p, kChunk), Low(p, kChunk) + (src - dst)),
                  After(p, kChunk))
<1>. DEFINE W == kWordSize
            to == Low(p, kChunk)
            from == to + (src - dst)
            Word(mm, i) == Write(mm, to + WordOrder[i] * W,
                                     from + WordOrder[i] * W, W)
            At(i) == IF Backwards THEN p - i * W ELSE p + i * W
<1>1. /\ W \in Nat \ {0} /\ n \in Nat /\ dst \in Nat /\ src \in Nat
      /\ kChunk = 4 * W
  BY BlockCopyAssumption DEF ArgsOK, kChunk
<1>2. ASSUME NEW i \in 1 .. 4, NEW mm, Progress(mm, At(i - 1))
      PROVE  Progress(Word(mm, i), At(i))
  <2>. DEFINE q == At(i - 1)
  <2>1. /\ q \in Int /\ Fits(q, W) /\ After(q, W) = At(i)
        /\ to + WordOrder[i] * W = Low(q, W)
        /\ from + WordOrder[i] * W = Low(q, W) + (src - dst)
    <3>1. i \in {1, 2, 3, 4}
      OBVIOUS
    <3>2. WordOrder[i] = IF Backwards THEN 4 - i ELSE i - 1
      BY <3>1 DEF WordOrder
    <3>3. /\ 0 * W = 0 /\ 1 * W = W /\ 2 * W = W + W /\ 3 * W = W + W + W
          /\ 4 * W = W + W + W + W
      BY <1>1
    <3>. QED
      BY <1>1, <3>1, <3>2, <3>3 DEF Fits, After, Low
  <2>. HIDE DEF At
  <2>2. Progress(Write(mm, Low(q, W), Low(q, W) + (src - dst), W), After(q, W))
    BY <1>1, <1>2, <2>1, WriteProgress
  <2>. QED
    BY <2>1, <2>2
<1>3. At(0) = p /\ At(4) = After(p, kChunk)
  BY <1>1 DEF After
<1>4. Chunk(m, to, from) = Word(Word(Word(Word(m, 1), 2), 3), 4)
  BY DEF Chunk
<1>. HIDE DEF At, Word
<1>5. Progress(m, At(0))
  BY <1>3
<1>6. Progress(Word(m, 1), At(1))
  BY <1>2, <1>5
<1>7. Progress(Word(Word(m, 1), 2), At(2))
  BY <1>2, <1>6
<1>8. Progress(Word(Word(Word(m, 1), 2), 3), At(3))
  BY <1>2, <1>7
<1>9. Progress(Word(Word(Word(Word(m, 1), 2), 3), 4), At(4))
  BY <1>2, <1>8
<1>. QED
  BY <1>3, <1>4, <1>9

-----------------------------------------------------------------------------
(* The invariant. *)

LEMMA Pointers ==
  ASSUME IInv
  PROVE  /\ n \in Nat /\ dst \in Nat /\ src \in Nat /\ MemSize \in Nat
         /\ dst + n <= MemSize /\ src + n <= MemSize
         /\ d \in Int /\ s \in Int /\ remaining \in 0 .. n
         /\ s = d + (src - dst)
         /\ d = IF Backwards THEN dst + remaining ELSE dst + n - remaining
         /\ Progress(mem, d)
<1>1. /\ n \in Nat /\ dst \in Nat /\ src \in Nat /\ MemSize \in Nat
      /\ dst + n <= MemSize /\ src + n <= MemSize
      /\ remaining \in 0 .. n
      /\ d = IF Backwards THEN dst + remaining ELSE dst + n - remaining
      /\ d - s = dst - src /\ s \in Int
  BY BlockCopyAssumption DEF IInv, ArgsOK, CopyInv
<1>2. d \in Int /\ s = d + (src - dst)
  BY <1>1
<1>3. Progress(mem, d)
  BY DEF IInv, CopyInv, Progress, DoneUpTo, Written
<1>. QED
  BY <1>1, <1>2, <1>3

LEMMA MoveStep ==
  ASSUME IInv, NEW k \in {1, kWordSize, kChunk}, remaining >= k, Move(k),
         UNCHANGED args
  PROVE  /\ ArgsOK' /\ CopyInv'
         /\ mem' \in [Addr -> Int] /\ remaining' \in 0 .. n' /\ s' \in Int
<1>1. /\ n \in Nat /\ dst \in Nat /\ src \in Nat
      /\ d \in Int /\ s \in Int /\ remaining \in 0 .. n
      /\ s = d + (src - dst)
      /\ d = IF Backwards THEN dst + remaining ELSE dst + n - remaining
      /\ Progress(mem, d) /\ ArgsOK
  BY Pointers DEF IInv
<1>2. k \in Nat \ {0} /\ kWordSize \in Nat \ {0} /\ kChunk \in Nat \ {0}
  BY BlockCopyAssumption DEF kChunk
<1>3. Fits(d, k)
  BY <1>1, <1>2 DEF Fits
<1>4. Low(s, k) = Low(d, k) + (src - dst)
  BY <1>1, <1>2 DEF Low
<1>5. Progress(mem', After(d, k))
  <2>1. CASE k = kChunk
    BY <1>1, <1>3, <1>4, <2>1, ChunkProgress DEF Move
  <2>2. CASE k # kChunk
    <3>1. mem' = Write(mem, Low(d, k), Low(d, k) + (src - dst), k)
      BY <1>4, <2>2 DEF Move
    <3>. QED
      BY <1>1, <1>2, <1>3, <3>1, WriteProgress
  <2>. QED
    BY <2>1, <2>2
<1>6. /\ d' = After(d, k) /\ s' = IF Backwards THEN s - k ELSE s + k
      /\ remaining' = remaining - k
  BY DEF Move, Advance, After
<1>7. /\ n' = n /\ dst' = dst /\ src' = src /\ op' = op
  BY DEF args
<1>8. ArgsOK' /\ (Backwards' <=> Backwards)
  BY <1>1, <1>7 DEF ArgsOK, Disjoint, Backwards
<1>9. remaining' \in 0 .. n' /\ mem' \in [Addr -> Int] /\ s' \in Int
  BY <1>1, <1>2, <1>5, <1>6, <1>7 DEF Progress
<1>10. \A a \in Addr : mem'[a] = IF a \in Written' THEN Wanted(a)' ELSE a
  <2>1. Written' = DoneUpTo(d')
    BY <1>7, <1>8 DEF Written, DoneUpTo
  <2>2. \A a \in Addr : Wanted(a)' = Wanted(a)
    BY <1>7 DEF Wanted
  <2>. QED
    BY <1>5, <1>6, <2>1, <2>2 DEF Progress
<1>11. /\ d' - s' = dst' - src'
       /\ d' = IF Backwards' THEN dst' + remaining' ELSE dst' + n' - remaining'
  BY <1>1, <1>2, <1>6, <1>7, <1>8 DEF After
<1>. QED
  BY <1>8, <1>9, <1>10, <1>11 DEF CopyInv

LEMMA InitIInv == Init => IInv
<1>. SUFFICES ASSUME Init  PROVE IInv
  OBVIOUS
<1>1. /\ MemSize \in Nat /\ n \in Nat /\ dst \in Nat /\ src \in Nat
      /\ dst + n <= MemSize /\ src + n <= MemSize
      /\ op = "memset_fast" => src = dst
      /\ op \in {"memcpy_fast", "memmove_fast", "memset_fast", "memmove"}
      /\ op = "memcpy_fast" => Disjoint \/ dst = src
  BY BlockCopyAssumption DEF Init
<1>2. ArgsOK
  BY <1>1 DEF ArgsOK
<1>3. remaining = n /\ remaining \in 0 .. n
  BY <1>1 DEF Init
<1>4. CopyInv
  <2>1. Written = {}
    BY <1>1 DEF Init, Written
  <2>2. \A a \in Addr : mem[a] = a
    BY DEF Init
  <2>3. /\ d = IF Backwards THEN dst + remaining ELSE dst + n - remaining
        /\ d - s = dst - src
    BY <1>1 DEF Init
  <2>. QED
    BY <2>1, <2>2, <2>3 DEF CopyInv
<1>5. mem \in [Addr -> Int] /\ s \in Int
  BY <1>1 DEF Init, Addr
<1>6. pc = FirstLoop
  BY DEF Init
<1>7. pc \in {"align", "chunks", "words", "bytes", "done"}
  BY <1>6 DEF FirstLoop
<1>8. ReturnInv
  BY <1>3, <1>6 DEF ReturnInv, FirstLoop
<1>. QED
  BY <1>2, <1>3, <1>4, <1>5, <1>7, <1>8 DEF IInv

LEMMA LoopStep ==
  ASSUME IInv, NEW here \in {"align", "chunks", "words", "bytes"},
         NEW more \in BOOLEAN, NEW k \in {1, kWordSize, kChunk},
         NEW after \in {"chunks", "words", "bytes", "done"},
         more => remaining >= k, ~more /\ after = "done" => remaining = 0,
         Loop(here, more, k, after)
  PROVE  IInv'
<1>1. CASE more /\ Move(k) /\ UNCHANGED pc /\ UNCHANGED args /\ pc = here
  BY <1>1, MoveStep DEF IInv, ReturnInv
<1>2. CASE ~more /\ pc' = after /\ UNCHANGED <<mem, d, s, remaining>> /\ UNCHANGED args
  BY <1>2 DEF IInv, args, ArgsOK, CopyInv, ReturnInv, Disjoint, Written,
              Wanted, Backwards
<1>. QED
  BY <1>1, <1>2 DEF Loop

LEMMA StepIInv == IInv /\ [Next]_vars => IInv'
<1>. SUFFICES ASSUME IInv, [Next]_vars  PROVE IInv'
  OBVIOUS
<1>1. remaining \in Nat /\ kWordSize \in Nat \ {0}
  BY Pointers, BlockCopyAssumption
<1>2. CASE Align
  <2>. DEFINE more == remaining # 0 /\ d % kWordSize # 0
  <2>1. more \in BOOLEAN /\ (more => remaining >= 1)
    BY <1>1
  <2>2. Loop("align", more, 1, "chunks")
    BY <1>2 DEF Align
  <2>. QED
    BY <2>1, <2>2, LoopStep
<1>3. CASE Chunks
  <2>. DEFINE more == remaining >= kChunk
  <2>1. more \in BOOLEAN
    OBVIOUS
  <2>2. Loop("chunks", more, kChunk, "words")
    BY <1>3 DEF Chunks
  <2>. QED
    BY <2>1, <2>2, LoopStep
<1>4. CASE Words
  <2>. DEFINE more == remaining >= kWordSize
  <2>1. more \in BOOLEAN
    OBVIOUS
  <2>2. Loop("words", more, kWordSize, "bytes")
    BY <1>4 DEF Words
  <2>. QED
    BY <2>1, <2>2, LoopStep
<1>5. CASE Bytes
  <2>. DEFINE more == remaining # 0
  <2>1. more \in BOOLEAN /\ (more => remaining >= 1)
    BY <1>1
  <2>2. Loop("bytes", more, 1, "done")
    BY <1>5 DEF Bytes
  <2>. QED
    BY <2>1, <2>2, LoopStep
<1>6. CASE UNCHANGED vars
  BY <1>6 DEF vars, args, IInv, ArgsOK, CopyInv, ReturnInv, Disjoint, Written,
              Wanted, Backwards
<1>. QED
  BY <1>2, <1>3, <1>4, <1>5, <1>6 DEF Next

LEMMA Invariance == Spec => []IInv
  BY InitIInv, StepIInv, PTL DEF Spec

-----------------------------------------------------------------------------
(* The pointers stay inside the two blocks and the memory. *)
THEOREM TypeCorrect == Spec => []TypeOK
<1>1. IInv => TypeOK
  <2>. SUFFICES ASSUME IInv  PROVE TypeOK
    OBVIOUS
  <2>1. /\ n \in Nat /\ dst \in Nat /\ src \in Nat /\ MemSize \in Nat
        /\ dst + n <= MemSize /\ src + n <= MemSize
        /\ d \in Int /\ s \in Int /\ remaining \in 0 .. n
        /\ s = d + (src - dst)
        /\ d = IF Backwards THEN dst + remaining ELSE dst + n - remaining
    BY Pointers
  <2>2. d \in 0 .. MemSize /\ s \in 0 .. MemSize
    BY <2>1
  <2>3. ASSUME NEW a \in Addr  PROVE mem[a] \in 0 .. MemSize
    <3>1. a \in 0 .. MemSize - 1
      BY DEF Addr
    <3>2. CASE a \in Written
      <4>1. a \in dst .. dst + n - 1
        BY <2>1, <3>1, <3>2 DEF Written
      <4>2. Wanted(a) \in 0 .. MemSize
        BY <2>1, <3>1, <4>1 DEF Wanted, Fill
      <4>. QED
        BY <3>2, <4>2 DEF IInv, CopyInv
    <3>3. CASE a \notin Written
      BY <2>1, <3>1, <3>3 DEF IInv, CopyInv
    <3>. QED
      BY <3>2, <3>3
  <2>. QED
    BY <2>1, <2>2, <2>3 DEF IInv, TypeOK
<1>. QED
  BY <1>1, Invariance, PTL

(* At every moment exactly the bytes the copy has come to are those of the *)
(* source as it was, overlap or not.                                       *)
THEOREM ProgressExact == Spec => []CopyInv
<1>1. IInv => CopyInv
  BY DEF IInv
<1>. QED
  BY <1>1, Invariance, PTL

(* A copy or fill that returns has done what memmove or memset promise.    *)
THEOREM CopyCorrect == Spec => []Copied
<1>1. IInv => Copied
  <2>. SUFFICES ASSUME IInv, pc = "done", NEW a \in Addr
                PROVE  mem[a] = IF a \in dst .. dst + n - 1 THEN Wanted(a) ELSE a
    BY DEF Copied
  <2>1. /\ n \in Nat /\ dst \in Nat /\ src \in Nat /\ MemSize \in Nat
        /\ d = IF Backwards THEN dst + remaining ELSE dst + n - remaining
    BY Pointers
  <2>2. mem[a] = IF a \in Written THEN Wanted(a) ELSE a
    BY DEF IInv, CopyInv
  <2>3. a \in Int
    BY <2>1 DEF Addr
  <2>4. CASE remaining = 0
    <3>1. Written = dst .. dst + n - 1
      BY <2>1, <2>4 DEF Written
    <3>. QED
      BY <2>2, <3>1
  <2>5. CASE op # "memset_fast" /\ dst = src
    <3>1. Wanted(a) = a
      BY <2>1, <2>3, <2>5 DEF Wanted
    <3>. QED
      BY <2>2, <3>1
  <2>. QED
    BY <2>4, <2>5 DEF IInv, ReturnInv
<1>. QED
  BY <1>1, Invariance, PTL

-----------------------------------------------------------------------------
(* Alignment. *)

LEMMA Multiple ==
  ASSUME NEW m \in Nat \ {0}, NEW a \in Int, a % m = 0
  PROVE  \E q \in Int : a = q * m
  BY SMTT(30)

LEMMA MultipleRemainder ==
  ASSUME NEW m \in Nat \ {0}, NEW q \in Int
  PROVE  (q * m) % m = 0
  BY SMTT(30)

(* A whole number of words away from a multiple of their size is another. *)
LEMMA WordsAway ==
  ASSUME NEW x \in Int, x % kWordSize = 0, NEW c \in {1, -1, 4, -4}
  PROVE  (x + c * kWordSize) % kWordSize = 0
<1>1. kWordSize \in Nat \ {0}
  BY BlockCopyAssumption
<1>2. PICK q \in Int : x = q * kWordSize
  BY <1>1, Multiple
<1>3. x + c * kWordSize = (q + c) * kWordSize
  BY <1>1, <1>2
<1>4. q + c \in Int
  OBVIOUS
<1>5. ((q + c) * kWordSize) % kWordSize = 0
  BY <1>1, <1>4, MultipleRemainder
<1>. QED
  BY <1>3, <1>5

(* Between the first loop and the last the pointer is aligned, unless      *)
(* nothing is left.                                                        *)
AlignInv ==
  pc \in {"chunks", "words"} /\ remaining # 0 => d % kWordSize = 0

LEMMA AlignStep == IInv /\ AlignInv /\ [Next]_vars => AlignInv'
<1>. SUFFICES ASSUME IInv, AlignInv, [Next]_vars  PROVE AlignInv'
  OBVIOUS
<1>1. /\ remaining \in Nat /\ d \in Int /\ kWordSize \in Nat \ {0}
      /\ kChunk = 4 * kWordSize
  BY Pointers, BlockCopyAssumption DEF kChunk
<1>2. CASE Align
  BY <1>2 DEF Align, Loop, AlignInv
<1>3. ASSUME NEW c \in {1, 4}, AlignInv, Advance(c * kWordSize), pc' = pc,
             remaining >= c * kWordSize
      PROVE  AlignInv'
  <2>. SUFFICES ASSUME pc \in {"chunks", "words"}  PROVE d' % kWordSize = 0
    BY <1>3 DEF AlignInv
  <2>1. remaining # 0
    BY <1>1, <1>3
  <2>2. d % kWordSize = 0
    BY <2>1 DEF AlignInv
  <2>3. d' = d + c * kWordSize \/ d' = d + (-c) * kWordSize
    BY <1>1, <1>3 DEF Advance
  <2>4. /\ (d + c * kWordSize) % kWordSize = 0
        /\ (d + (-c) * kWordSize) % kWordSize = 0
    <3>1. c \in {1, -1, 4, -4} /\ -c \in {1, -1, 4, -4}
      OBVIOUS
    <3>. QED
      BY <1>1, <2>2, <3>1, WordsAway
  <2>. QED
    BY <2>3, <2>4
<1>4. CASE Chunks
  <2>1. CASE remaining >= kChunk /\ Move(kChunk) /\ pc' = pc
    BY <1>1, <1>3, <2>1 DEF Move
  <2>2. CASE pc' = "words" /\ d' = d /\ remaining' = remaining /\ pc = "chunks"
    BY <2>2 DEF AlignInv
  <2>. QED
    BY <1>4, <2>1, <2>2 DEF Chunks, Loop
<1>5. CASE Words
  <2>1. CASE remaining >= kWordSize /\ Move(kWordSize) /\ pc' = pc
    <3>1. kWordSize = 1 * kWordSize
      BY <1>1
    <3>2. Advance(1 * kWordSize) /\ remaining >= 1 * kWordSize
      BY <2>1, <3>1 DEF Move
    <3>. QED
      BY <1>3, <2>1, <3>2
  <2>2. CASE pc' = "bytes"
    BY <2>2 DEF AlignInv
  <2>. QED
    BY <1>5, <2>1, <2>2 DEF Words, Loop
<1>6. CASE Bytes
  BY <1>6 DEF Bytes, Loop, AlignInv
<1>7. CASE UNCHANGED vars
  BY <1>7 DEF vars, AlignInv
<1>. QED
  BY <1>2, <1>4, <1>5, <1>6, <1>7 DEF Next

(* Words are stored at multiples of their size only, in either direction   *)
(* and for every alignment of the two blocks against each other.           *)
THEOREM Aligned == Spec => []StoresAligned
<1>1. Init => AlignInv
  BY DEF Init, FirstLoop, AlignInv
<1>2. IInv /\ AlignInv => StoresAligned
  <2>. SUFFICES ASSUME IInv, AlignInv  PROVE StoresAligned
    OBVIOUS
  <2>1. kWordSize > 0 /\ kChunk > 0 /\ kChunk \in Int /\ remaining \in Int
    BY Pointers, BlockCopyAssumption DEF kChunk
  <2>2. /\ remaining >= kChunk => remaining # 0
        /\ remaining >= kWordSize => remaining # 0
    BY <2>1, BlockCopyAssumption
  <2>. QED
    BY <2>2 DEF AlignInv, StoresAligned
<1>. QED
  BY <1>1, <1>2, AlignStep, Invariance, PTL DEF Spec
=============================================================================
