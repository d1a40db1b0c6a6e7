---------------------------- MODULE KeyboardProof ----------------------------
(***************************************************************************)
(* Proofs about the keyboard driver, for every buffer size of at least two *)
(* slots, every set of keys and every number of bytes: type correctness,   *)
(* the stability of the slot being read, the refinement of the abstract    *)
(* queue ScancodeFifo, and the events decoded from the bytes taken.        *)
(***************************************************************************)
EXTENDS Keyboard, SequenceTheorems, FiniteSetTheorems, TLAPS

N == KB_BUFFER_SIZE
Contents == Byte \cup {Zero}

(* The inductive invariant: the slot being read is stable because the ring *)
(* is not empty from the test to the advance of the tail.                  *)
IInv == TypeOK /\ DequeueInv

-----------------------------------------------------------------------------
(* Arithmetic of the ring. *)

LEMMA ModSmall ==
  ASSUME NEW n \in Nat \ {0}, NEW x \in 0 .. n - 1
  PROVE  x % n = x
  OBVIOUS

LEMMA ModWrap ==
  ASSUME NEW n \in Nat \ {0}, NEW x \in n .. 2*n - 1
  PROVE  x % n = x - n
  OBVIOUS

(* The slot d places after slot i, d less than the size of the ring.       *)
LEMMA SlotAt ==
  ASSUME NEW i \in Slot, NEW d \in 0 .. N
  PROVE  /\ (i + d) % N = IF i + d < N THEN i + d ELSE i + d - N
         /\ (i + d) % N \in Slot
<1>. N \in Nat \ {0} /\ i \in 0 .. N - 1 /\ Slot = 0 .. N - 1
  BY KeyboardAssumption DEF N, Slot
<1>1. CASE i + d < N
  <2>1. i + d \in 0 .. N - 1
    BY <1>1
  <2>2. (i + d) % N = i + d
    BY <2>1, ModSmall
  <2>. QED
    BY <1>1, <2>1, <2>2
<1>2. CASE i + d >= N
  <2>1. i + d \in N .. 2 * N - 1 /\ i + d - N \in 0 .. N - 1
    BY <1>2
  <2>2. \A x \in N .. 2 * N - 1 : x % N = x - N
    BY ModWrap
  <2>. QED
    BY <1>2, <2>1, <2>2
<1>. QED
  BY <1>1, <1>2

LEMMA AfterSlot ==
  ASSUME NEW i \in Slot
  PROVE  /\ After(i) = IF i + 1 < N THEN i + 1 ELSE 0
         /\ After(i) \in Slot
<1>1. 1 \in 0 .. N /\ N \in Nat /\ i \in 0 .. N - 1
  BY KeyboardAssumption DEF Slot, N
<1>2. (i + 1) % N \in Slot /\ (i + 1) % N = IF i + 1 < N THEN i + 1 ELSE i + 1 - N
  BY <1>1, SlotAt
<1>. QED
  BY <1>1, <1>2 DEF After, N

(* Less than N places apart, two slots differ. *)
LEMMA SlotsDiffer ==
  ASSUME NEW i \in Slot, NEW d \in 0 .. N - 1, NEW e \in 0 .. N - 1, d # e
  PROVE  (i + d) % N # (i + e) % N
<1>1. N \in Nat /\ i \in 0 .. N - 1 /\ d \in 0 .. N /\ e \in 0 .. N
  BY KeyboardAssumption DEF N, Slot
<1>2. (i + d) % N = IF i + d < N THEN i + d ELSE i + d - N
  BY <1>1, SlotAt
<1>3. (i + e) % N = IF i + e < N THEN i + e ELSE i + e - N
  BY <1>1, SlotAt
<1>. QED
  BY <1>1, <1>2, <1>3

(* Starting one slot later and going one place less is the same. *)
LEMMA SlotShift ==
  ASSUME NEW i \in Slot, NEW d \in 1 .. N - 1
  PROVE  (After(i) + (d - 1)) % N = (i + d) % N
<1>1. /\ N \in Nat /\ i \in 0 .. N - 1
      /\ d \in 0 .. N /\ d - 1 \in 0 .. N /\ After(i) \in Slot
  BY KeyboardAssumption, AfterSlot DEF N, Slot
<1>2. (i + d) % N = IF i + d < N THEN i + d ELSE i + d - N
  BY <1>1, SlotAt
<1>3. (After(i) + (d - 1)) % N =
        IF After(i) + (d - 1) < N THEN After(i) + (d - 1)
        ELSE After(i) + (d - 1) - N
  BY <1>1, SlotAt
<1>4. After(i) = IF i + 1 < N THEN i + 1 ELSE 0
  BY AfterSlot
<1>. QED
  BY <1>1, <1>2, <1>3, <1>4

(* Two facts about sequences: appending to the right part of a             *)
(* concatenation, and moving the head of the right part to the left one.   *)
LEMMA AppendToConcat ==
  ASSUME NEW S, NEW s \in Seq(S), NEW t \in Seq(S), NEW e \in S
  PROVE  s \o Append(t, e) = Append(s \o t, e)
  OBVIOUS

LEMMA HeadToTaken ==
  ASSUME NEW S, NEW s \in Seq(S), NEW t \in Seq(S), t # <<>>
  PROVE  Append(s, Head(t)) \o Tail(t) = s \o t
<1>1. /\ Head(t) \in S /\ Tail(t) \in Seq(S) /\ Len(Tail(t)) = Len(t) - 1
      /\ \A i \in 1 .. Len(Tail(t)) : Tail(t)[i] = t[i + 1]
      /\ Head(t) = t[1] /\ Len(t) \in Nat \ {0} /\ Len(s) \in Nat
  BY HeadTailProperties
<1>2. Append(s, Head(t)) \in Seq(S) /\ Len(Append(s, Head(t))) = Len(s) + 1
  BY <1>1
<1>. DEFINE l == Append(s, Head(t)) \o Tail(t)
            r == s \o t
<1>3. /\ l \in Seq(S) /\ r \in Seq(S) /\ Len(l) = Len(r)
      /\ Len(l) = Len(s) + Len(t)
  BY <1>1, <1>2
<1>4. \A i \in 1 .. Len(l) : l[i] = r[i]
  BY <1>1, <1>2, <1>3
<1>. QED
  BY <1>3, <1>4, SeqEqual

(* Pending counts the steps from the tail to the head. *)
LEMMA PendingProperties ==
  ASSUME TypeOK
  PROVE  /\ Pending \in 0 .. N - 1
         /\ kb_buf_head = (kb_buf_tail + Pending) % N
         /\ (Pending = 0) <=> (kb_buf_head = kb_buf_tail)
         /\ (Pending = N - 1) <=> (After(kb_buf_head) = kb_buf_tail)
<1>1. Pending \in 0 .. N - 1
  BY KeyboardAssumption DEF TypeOK, Pending, Slot, N
<1>2. kb_buf_head = (kb_buf_tail + Pending) % N
  <2>1. Pending \in 0 .. N /\ kb_buf_tail \in Slot
    BY <1>1, KeyboardAssumption DEF TypeOK, N
  <2>2. (kb_buf_tail + Pending) % N = IF kb_buf_tail + Pending < N
          THEN kb_buf_tail + Pending ELSE kb_buf_tail + Pending - N
    BY <2>1, SlotAt
  <2>. QED
    BY <2>2, KeyboardAssumption DEF TypeOK, Pending, Slot, N
<1>3. (Pending = 0) <=> (kb_buf_head = kb_buf_tail)
  BY KeyboardAssumption DEF TypeOK, Pending, Slot, N
<1>4. (Pending = N - 1) <=> (After(kb_buf_head) = kb_buf_tail)
  BY AfterSlot, KeyboardAssumption DEF TypeOK, Pending, Slot, N
<1>. QED
  BY <1>1, <1>2, <1>3, <1>4

(* Held is the sequence of the contents of the slots from tail to head.    *)
HeldIsContents ==
  /\ Held \in Seq(Contents)
  /\ Len(Held) = Pending + 1
  /\ Held # <<>>
  /\ \A i \in 1 .. Pending + 1 :
       Held[i] = kb_buf[(kb_buf_tail + (i - 1)) % N]
  /\ Held[1] = kb_buf[kb_buf_tail]

LEMMA HeldProperties == TypeOK => HeldIsContents
<1>. SUFFICES ASSUME TypeOK PROVE HeldIsContents
  OBVIOUS
<1>1. Pending + 1 \in Nat \ {0} /\ Pending \in 0 .. N - 1 /\ N \in Nat
  BY PendingProperties, KeyboardAssumption DEF N
<1>2. \A i \in 1 .. Pending + 1 :
        /\ kb_buf_tail + i - 1 = kb_buf_tail + (i - 1)
        /\ (kb_buf_tail + (i - 1)) % N \in Slot
  <2>. SUFFICES ASSUME NEW i \in 1 .. Pending + 1
                PROVE  /\ kb_buf_tail + i - 1 = kb_buf_tail + (i - 1)
                       /\ (kb_buf_tail + (i - 1)) % N \in Slot
    OBVIOUS
  <2>1. i - 1 \in 0 .. N /\ kb_buf_tail \in Slot /\ kb_buf_tail \in Nat
    BY <1>1 DEF TypeOK, Slot
  <2>. QED
    BY <2>1, SlotAt
<1>3. \A i \in 1 .. Pending + 1 :
        Held[i] = kb_buf[(kb_buf_tail + (i - 1)) % N]
  BY <1>2 DEF Held, N
<1>4. Held \in [1 .. Pending + 1 -> Contents]
  BY <1>2 DEF Held, TypeOK, Contents, N
<1>5. Held \in Seq(Contents) /\ Len(Held) = Pending + 1
  <2>1. \A m \in Nat : \A f \in [1 .. m -> Contents] :
          f \in Seq(Contents) /\ Len(f) = m
    OBVIOUS
  <2>2. PICK m \in Nat : m = Pending + 1
    BY <1>1
  <2>3. Held \in [1 .. m -> Contents]
    BY <1>4, <2>2
  <2>4. Held \in Seq(Contents) /\ Len(Held) = m
    BY <2>1, <2>3
  <2>. QED
    BY <2>2, <2>4
<1>6. Held[1] = kb_buf[kb_buf_tail]
  <2>1. kb_buf_tail \in Nat /\ Pending \in Nat
    BY <1>1, KeyboardAssumption DEF TypeOK, Slot
  <2>2. 1 \in 1 .. Pending + 1 /\ kb_buf_tail + (1 - 1) = kb_buf_tail
    BY <2>1
  <2>3. kb_buf_tail % N = kb_buf_tail
    <3>1. N \in Nat \ {0} /\ kb_buf_tail \in 0 .. N - 1
      BY KeyboardAssumption DEF TypeOK, Slot, N
    <3>. QED
      BY <3>1, ModSmall
  <2>. QED
    BY <1>3, <2>2, <2>3
<1>. QED
  BY <1>1, <1>3, <1>5, <1>6 DEF HeldIsContents

LEMMA HeldPropertiesNext == TypeOK' => HeldIsContents'
  BY HeldProperties, PTL

-----------------------------------------------------------------------------
(* Every reachable state has the types the declarations give, and the slot *)
(* about to be read is neither given up nor rewritten between the test for *)
(* emptiness and the advance of the tail (kb_dequeue's three accesses).    *)

LEMMA InitInv == Init => IInv
<1>. SUFFICES ASSUME Init  PROVE IInv
  OBVIOUS
<1>1. 0 \in Slot
  BY KeyboardAssumption DEF Slot
<1>2. kb_buf \in [Slot -> Byte \cup {Zero}] /\ sc \in Byte \cup {Zero}
  BY DEF Init
<1>3. /\ accepted \in Seq(Byte) /\ taken \in Seq(Byte \cup {Zero})
      /\ events \in Seq(KeyEvent)
  BY DEF Init
<1>4. TypeOK
  BY <1>1, <1>2, <1>3 DEF Init, TypeOK
<1>5. DequeueInv
  BY DEF Init, DequeueInv
<1>. QED
  BY <1>4, <1>5 DEF IInv

LEMMA NextInv == IInv /\ [Next]_vars => IInv'
<1>. SUFFICES ASSUME IInv, [Next]_vars  PROVE IInv'
  OBVIOUS
<1>. USE DEF IInv
<1>1. ASSUME NEW b \in Byte, kb_handler(b)  PROVE IInv'
  <2>1. TypeOK'
    <3>1. After(kb_buf_head) \in Slot
      BY AfterSlot DEF TypeOK
    <3>2. kb_buf' \in [Slot -> Byte \cup {Zero}] /\ kb_buf_head' \in Slot
      BY <1>1, <3>1 DEF TypeOK, kb_handler, kb_enqueue
    <3>3. accepted' \in Seq(Byte)
      BY <1>1 DEF TypeOK, kb_handler, kb_enqueue
    <3>. QED
      BY <1>1, <3>2, <3>3 DEF TypeOK, kb_handler, decoder
  <2>2. After(kb_buf_head) # kb_buf_head /\ After(kb_buf_head) \in Slot
    BY AfterSlot, KeyboardAssumption DEF TypeOK, Slot, N
  <2>3. DequeueInv'
    BY <1>1, <2>2 DEF TypeOK, DequeueInv, kb_handler, kb_enqueue
  <2>. QED
    BY <2>1, <2>3
<1>2. CASE kb_register_listener
  BY <1>2 DEF kb_register_listener, TypeOK, DequeueInv, ring
<1>3. CASE CallProcessQueue
  BY <1>3 DEF CallProcessQueue, TypeOK, DequeueInv, ring, decoder
<1>4. CASE TestEmpty
  BY <1>4 DEF TestEmpty, TypeOK, DequeueInv, ring, decoder
<1>5. CASE ReadSlot
  BY <1>5 DEF ReadSlot, TypeOK, DequeueInv, ring, decoder
<1>6. CASE AdvanceTail
  BY <1>6, AfterSlot DEF AdvanceTail, TypeOK, DequeueInv, decoder
<1>7. CASE Decode
  <2>1. sc \notin Prefix => sc \in Key \cup {Zero}
    BY DEF TypeOK, Byte
  <2>2. events' \in Seq(KeyEvent)
    <3>1. CASE Remember
      BY <3>1 DEF Remember, TypeOK
    <3>2. CASE Forward
      <4>1. [scancode |-> sc, break_key |-> break_key,
             extended_key |-> ext_key] \in KeyEvent
        BY <2>1, <3>2 DEF KeyEvent, TypeOK, Forward
      <4>. QED
        BY <3>2, <4>1 DEF Forward, TypeOK
    <3>. QED
      BY <1>7, <3>1, <3>2 DEF Decode
  <2>3. break_key' \in BOOLEAN /\ ext_key' \in BOOLEAN
    BY <1>7 DEF Decode, Remember, Forward, TypeOK
  <2>. QED
    BY <1>7, <2>2, <2>3 DEF Decode, TypeOK, DequeueInv, ring
<1>8. CASE UNCHANGED vars
  BY <1>8 DEF vars, ring, decoder, TypeOK, DequeueInv
<1>. QED
  BY <1>1, <1>2, <1>3, <1>4, <1>5, <1>6, <1>7, <1>8 DEF Next, Main

(* Type correctness of the driver's state. *)
THEOREM TypeCorrect == Spec => []TypeOK
  BY InitInv, NextInv, PTL DEF Spec, IInv

(* kb_dequeue's slot is stable under any number of interrupts. *)
THEOREM DequeueCorrect == Spec => []DequeueInv
  BY InitInv, NextInv, PTL DEF Spec, IInv

-----------------------------------------------------------------------------
(* The refinement.  Putting a byte in the slot after the head appends it   *)
(* to Held; moving the tail takes Held's head; nothing else changes Held.  *)

LEMMA HeldUnchanged ==
  ASSUME UNCHANGED ring
  PROVE  Held' = Held
  BY DEF ring, Held, Pending

(* The handler's slot is Pending + 1 places after the tail. *)
LEMMA AfterHead ==
  ASSUME TypeOK, Pending + 1 \in 0 .. N - 1
  PROVE  After(kb_buf_head) = (kb_buf_tail + (Pending + 1)) % N
<1>1. /\ kb_buf_head \in Slot /\ kb_buf_tail \in Slot
      /\ N \in Nat /\ N >= 2 /\ Slot = 0 .. N - 1
      /\ Pending + 1 \in 0 .. N
  BY KeyboardAssumption DEF TypeOK, N, Slot
<1>2. (kb_buf_tail + (Pending + 1)) % N =
        IF kb_buf_tail + (Pending + 1) < N
        THEN kb_buf_tail + (Pending + 1)
        ELSE kb_buf_tail + (Pending + 1) - N
  BY <1>1, SlotAt
<1>. QED
  BY <1>1, <1>2, AfterSlot DEF Pending, N

(* So putting a byte appends it to Held. *)
LEMMA PutAppends ==
  ASSUME TypeOK, TypeOK', NEW b \in Byte, kb_enqueue(b),
         After(kb_buf_head) # kb_buf_tail, UNCHANGED kb_buf_tail
  PROVE  /\ Held' = Append(Held, b)
         /\ Len(Held) < N
<1>1. /\ kb_buf' = [kb_buf EXCEPT ![After(kb_buf_head)] = b]
      /\ kb_buf_head' = After(kb_buf_head)
  BY DEF kb_enqueue
<1>2. /\ kb_buf_head \in Slot /\ kb_buf_tail \in Slot
      /\ kb_buf \in [Slot -> Contents]
      /\ N \in Nat /\ N >= 2 /\ Slot = 0 .. N - 1
  BY KeyboardAssumption DEF TypeOK, Contents, N, Slot
<1>3. Pending' = Pending + 1 /\ Pending \in Nat /\ Pending + 1 \in 0 .. N - 1
  <2>1. Pending' = Pending + 1 /\ Pending + 1 \in 0 .. N - 1
    BY <1>1, <1>2, AfterSlot DEF Pending, N
  <2>. QED
    BY <2>1, PendingProperties
<1>4. After(kb_buf_head) = (kb_buf_tail + (Pending + 1)) % N
  BY <1>3, AfterHead
<1>5. \A i \in 1 .. Pending + 1 :
        /\ (kb_buf_tail + (i - 1)) % N \in Slot
        /\ (kb_buf_tail + (i - 1)) % N # After(kb_buf_head)
  <2>. SUFFICES ASSUME NEW i \in 1 .. Pending + 1
                PROVE  /\ (kb_buf_tail + (i - 1)) % N \in Slot
                       /\ (kb_buf_tail + (i - 1)) % N # After(kb_buf_head)
    OBVIOUS
  <2>1. /\ i - 1 \in 0 .. N - 1 /\ i - 1 \in 0 .. N
        /\ Pending + 1 \in 0 .. N - 1 /\ i - 1 # Pending + 1
    BY <1>2, <1>3
  <2>2. (kb_buf_tail + (i - 1)) % N \in Slot
    BY <1>2, <2>1, SlotAt
  <2>3. (kb_buf_tail + (i - 1)) % N # (kb_buf_tail + (Pending + 1)) % N
    BY <1>2, <2>1, SlotsDiffer
  <2>. QED
    BY <1>4, <2>2, <2>3
<1>6. /\ Held \in Seq(Contents) /\ Len(Held) = Pending + 1
      /\ Held' \in Seq(Contents) /\ Len(Held') = Pending + 2
  <2>1. (Held \in Seq(Contents) /\ Len(Held) = Pending + 1)'
    BY HeldPropertiesNext DEF HeldIsContents
  <2>2. Pending + 2 = (Pending + 1) + 1
    BY PendingProperties
  <2>. QED
    BY <1>3, <2>1, <2>2, HeldProperties DEF HeldIsContents
<1>7. b \in Contents
  BY DEF Contents
<1>8. \A i \in 1 .. Pending + 1 : Held'[i] = Held[i]
  <2>. SUFFICES ASSUME NEW i \in 1 .. Pending + 1
                PROVE  Held'[i] = Held[i]
    OBVIOUS
  <2>1. i \in 1 .. Pending' + 1
    BY <1>3
  <2>2. Held'[i] = kb_buf'[(kb_buf_tail' + (i - 1)) % N]
    BY <2>1, HeldPropertiesNext DEF HeldIsContents
  <2>3. Held[i] = kb_buf[(kb_buf_tail + (i - 1)) % N]
    BY HeldProperties DEF HeldIsContents
  <2>. QED
    BY <1>1, <1>2, <1>5, <2>2, <2>3
<1>9. Held'[Pending + 2] = b
  <2>1. Pending + 2 \in 1 .. Pending' + 1 /\ (Pending + 2) - 1 = Pending + 1
    BY <1>3
  <2>2. Held'[Pending + 2] = kb_buf'[(kb_buf_tail' + ((Pending + 2) - 1)) % N]
    BY <2>1, HeldPropertiesNext DEF HeldIsContents
  <2>. QED
    BY <1>1, <1>2, <1>4, <2>1, <2>2, AfterSlot
<1>. QED
  <2>1. /\ Append(Held, b) \in Seq(Contents)
        /\ Len(Append(Held, b)) = Pending + 2
        /\ Append(Held, b)[Pending + 2] = b
        /\ \A i \in 1 .. Pending + 1 : Append(Held, b)[i] = Held[i]
    BY <1>6, <1>7, PendingProperties
  <2>2. \A i \in 1 .. Pending + 2 : Held'[i] = Append(Held, b)[i]
    BY <1>8, <1>9, <2>1, PendingProperties
  <2>3. Held' = Append(Held, b)
    BY <1>6, <2>1, <2>2, SeqEqual
  <2>. QED
    BY <1>2, <1>3, <1>6, <2>3

LEMMA AdvanceTakesHead ==
  ASSUME TypeOK, TypeOK', AdvanceTail, kb_buf_head # kb_buf_tail
  PROVE  /\ Held' = Tail(Held)
         /\ Len(Held) > 1
<1>1. /\ kb_buf_head \in Slot /\ kb_buf_tail \in Slot
      /\ N \in Nat /\ N >= 2 /\ Slot = 0 .. N - 1
  BY KeyboardAssumption DEF TypeOK, N, Slot
<1>2. /\ kb_buf_tail' = After(kb_buf_tail)
      /\ UNCHANGED <<kb_buf, kb_buf_head>>
  BY DEF AdvanceTail
<1>3. Pending' = Pending - 1 /\ Pending \in 1 .. N - 1
  <2>1. kb_buf_tail' = IF kb_buf_tail + 1 < N THEN kb_buf_tail + 1 ELSE 0
    BY <1>1, <1>2, AfterSlot
  <2>2. /\ Pending = IF kb_buf_tail <= kb_buf_head
                     THEN kb_buf_head - kb_buf_tail
                     ELSE kb_buf_head + N - kb_buf_tail
        /\ Pending' = IF kb_buf_tail' <= kb_buf_head
                      THEN kb_buf_head - kb_buf_tail'
                      ELSE kb_buf_head + N - kb_buf_tail'
    BY <1>2 DEF Pending, N
  <2>3. CASE kb_buf_tail + 1 < N
    BY <1>1, <2>1, <2>2, <2>3
  <2>4. CASE ~(kb_buf_tail + 1 < N)
    BY <1>1, <2>1, <2>2, <2>4
  <2>. QED
    BY <2>3, <2>4
<1>4. /\ Held \in Seq(Contents) /\ Len(Held) = Pending + 1 /\ Held # <<>>
      /\ Held' \in Seq(Contents) /\ Len(Held') = Pending
  <2>1. (Held \in Seq(Contents) /\ Len(Held) = Pending + 1)'
    BY HeldPropertiesNext DEF HeldIsContents
  <2>. QED
    BY <1>3, <2>1, HeldProperties DEF HeldIsContents
<1>5. \A i \in 1 .. Pending : Held'[i] = Held[i + 1]
  <2>. SUFFICES ASSUME NEW i \in 1 .. Pending
                PROVE  Held'[i] = Held[i + 1]
    OBVIOUS
  <2>1. i \in 1 .. Pending' + 1 /\ i + 1 \in 1 .. Pending + 1
        /\ (i + 1) - 1 = i /\ i - 1 \in 0 .. N /\ i \in 0 .. N
    BY <1>1, <1>3
  <2>2. Held'[i] = kb_buf'[(kb_buf_tail' + (i - 1)) % N]
    BY <2>1, HeldPropertiesNext DEF HeldIsContents
  <2>3. Held[i + 1] = kb_buf[(kb_buf_tail + i) % N]
    BY <2>1, HeldProperties DEF HeldIsContents
  <2>4. (After(kb_buf_tail) + (i - 1)) % N = (kb_buf_tail + i) % N
    BY <1>1, <1>3, SlotShift
  <2>. QED
    BY <1>2, <2>2, <2>3, <2>4
<1>6. /\ Tail(Held) \in Seq(Contents) /\ Len(Tail(Held)) = Pending
      /\ \A i \in 1 .. Pending : Tail(Held)[i] = Held[i + 1]
  BY <1>3, <1>4, HeadTailProperties
<1>. QED
  <2>1. Held' = Tail(Held)
    BY <1>4, <1>5, <1>6, SeqEqual
  <2>. QED
    BY <1>3, <1>4, <2>1

(* What a step of the driver does to the pair Held, taken: the handler     *)
(* appends a byte or drops it, moving the tail takes the head, and every   *)
(* other step changes neither.                                             *)
LEMMA StepOnHeld ==
  ASSUME IInv, IInv', [Next]_vars
  PROVE  \/ \E b \in Byte : /\ Len(Held) < N
                            /\ Held' = Append(Held, b)
                            /\ accepted' = Append(accepted, b)
                            /\ UNCHANGED taken
         \/ /\ Len(Held) > 1
            /\ Held' = Tail(Held)
            /\ taken' = Append(taken, Head(Held))
            /\ UNCHANGED accepted
         \/ Held' = Held /\ UNCHANGED <<taken, accepted>>
<1>. USE DEF IInv
<1>1. ASSUME NEW b \in Byte, kb_handler(b), After(kb_buf_head) # kb_buf_tail
      PROVE  /\ Len(Held) < N /\ Held' = Append(Held, b)
             /\ accepted' = Append(accepted, b) /\ UNCHANGED taken
  <2>1. kb_enqueue(b) /\ UNCHANGED <<kb_buf_tail, taken>>
    BY <1>1 DEF kb_handler
  <2>. QED
    BY <1>1, <2>1, PutAppends DEF kb_enqueue
<1>2. ASSUME NEW b \in Byte, kb_handler(b), After(kb_buf_head) = kb_buf_tail
      PROVE  Held' = Held /\ UNCHANGED <<taken, accepted>>
  BY <1>2, HeldUnchanged DEF kb_handler, kb_enqueue, ring
<1>3. CASE AdvanceTail
  <2>1. Held' = Tail(Held) /\ Len(Held) > 1
    BY <1>3, AdvanceTakesHead DEF AdvanceTail, DequeueInv
  <2>2. sc = Head(Held)
    BY <1>3, HeldProperties DEF AdvanceTail, DequeueInv, HeldIsContents
  <2>. QED
    BY <1>3, <2>1, <2>2 DEF AdvanceTail
<1>4. CASE \/ kb_register_listener \/ CallProcessQueue \/ TestEmpty
           \/ ReadSlot \/ Decode \/ UNCHANGED vars
  <2>1. UNCHANGED <<ring, taken, accepted>>
    BY <1>4 DEF kb_register_listener, CallProcessQueue, TestEmpty, ReadSlot,
                Decode, vars
  <2>. QED
    BY <2>1, HeldUnchanged
<1>. QED
  BY <1>1, <1>2, <1>3, <1>4 DEF Next, Main

LEMMA InitHeld == Init => Held = <<Zero>>
<1>. SUFFICES ASSUME Init PROVE Held = <<Zero>>
  OBVIOUS
<1>1. TypeOK
  BY InitInv DEF IInv
<1>2. Pending = 0 /\ kb_buf[kb_buf_tail] = Zero
  BY KeyboardAssumption DEF Init, Pending, Slot
<1>3. Len(Held) = 1 /\ Held[1] = Zero /\ Held \in Seq(Contents)
  BY <1>1, <1>2, HeldProperties DEF HeldIsContents
<1>. QED
  BY <1>3

(* The driver implements the abstract queue: its buffer, whose handler may *)
(* interrupt any access of the reader, is a queue that loses, repeats and  *)
(* reorders nothing it has accepted.                                       *)
THEOREM ImplementsFifo == Spec => FifoSpec
<1>1. Init => Fifo!Init
  BY InitHeld DEF Init, Fifo!Init
<1>2. IInv /\ IInv' /\ [Next]_vars => [Fifo!Next]_(Fifo!vars)
  BY StepOnHeld DEF Fifo!Next, Fifo!Put, Fifo!Take, Fifo!vars, N
<1>. QED
  BY <1>1, <1>2, InitInv, NextInv, PTL DEF Spec, FifoSpec, Fifo!Spec

(* kb_dequeue hands the bytes out in the order the handler accepted them,  *)
(* one behind: first the zero of the never written slot, and always with   *)
(* the newest byte accepted still in the buffer.                           *)
THEOREM OneBehind == Spec => []OneByteBehind
<1>1. Init => OneByteBehind
  BY InitHeld DEF Init, OneByteBehind, Stream
<1>2. IInv /\ IInv' /\ OneByteBehind /\ [Next]_vars => OneByteBehind'
  <2>. SUFFICES ASSUME IInv, IInv', OneByteBehind, [Next]_vars
                PROVE  OneByteBehind'
    OBVIOUS
  <2>1. /\ taken \in Seq(Contents) /\ Held \in Seq(Contents) /\ Held # <<>>
        /\ accepted \in Seq(Byte) /\ Zero \in Contents
        /\ Byte \subseteq Contents
    BY HeldProperties DEF IInv, TypeOK, Contents, HeldIsContents
  <2>2. accepted \in Seq(Contents)
    BY <2>1, SeqMonotonic
  <2>3. ASSUME NEW b \in Byte, Held' = Append(Held, b),
               accepted' = Append(accepted, b), taken' = taken
        PROVE  taken' \o Held' = <<Zero>> \o accepted'
    <3>1. taken \o Append(Held, b) = Append(taken \o Held, b)
      BY <2>1, AppendToConcat
    <3>2. <<Zero>> \o Append(accepted, b) = Append(<<Zero>> \o accepted, b)
      BY <2>1, <2>2, AppendToConcat
    <3>. QED
      BY <2>3, <3>1, <3>2 DEF OneByteBehind, Stream
  <2>4. ASSUME Held' = Tail(Held), taken' = Append(taken, Head(Held)),
               accepted' = accepted
        PROVE  taken' \o Held' = <<Zero>> \o accepted'
    BY <2>1, <2>4, HeadToTaken DEF OneByteBehind, Stream
  <2>. QED
    BY <2>3, <2>4, StepOnHeld DEF OneByteBehind, Stream
<1>. QED
  BY <1>1, <1>2, InitInv, NextInv, PTL DEF Spec

(* No interrupt writes a slot that is still to be read. *)
THEOREM HeldStable == Spec => HeldNotOverwritten
<1>1. IInv /\ [Next]_vars => (\A i \in HeldSlots : kb_buf'[i] = kb_buf[i])
  <2>. SUFFICES ASSUME IInv, [Next]_vars, NEW i \in HeldSlots
                PROVE  kb_buf'[i] = kb_buf[i]
    OBVIOUS
  <2>1. CASE UNCHANGED kb_buf
    BY <2>1
  <2>2. ASSUME NEW b \in Byte, kb_enqueue(b), After(kb_buf_head) # kb_buf_tail
        PROVE  kb_buf'[i] = kb_buf[i]
    <3>1. /\ kb_buf_tail \in Slot /\ kb_buf_head \in Slot
          /\ kb_buf \in [Slot -> Contents] /\ Pending \in 0 .. N - 2
          /\ kb_buf_head = (kb_buf_tail + Pending) % N
          /\ N \in Nat /\ N >= 2
      BY <2>2, PendingProperties, KeyboardAssumption
         DEF IInv, TypeOK, Contents, N
    <3>2. PICK d \in 0 .. Pending : i = (kb_buf_tail + d) % N
      BY DEF HeldSlots, N
    <3>3. /\ d \in 0 .. N /\ d \in 0 .. N - 1 /\ Pending + 1 \in 0 .. N - 1
          /\ d # Pending + 1
      BY <3>1
    <3>4. After(kb_buf_head) = (kb_buf_tail + (Pending + 1)) % N
      BY <3>1, AfterHead DEF IInv
    <3>5. i \in Slot /\ i # After(kb_buf_head)
      <4>1. (kb_buf_tail + d) % N \in Slot
        BY <3>1, <3>3, SlotAt
      <4>2. (kb_buf_tail + d) % N # (kb_buf_tail + (Pending + 1)) % N
        BY <3>1, <3>3, SlotsDiffer
      <4>. QED
        BY <3>2, <3>4, <4>1, <4>2
    <3>. QED
      BY <2>2, <3>1, <3>5 DEF kb_enqueue
  <2>. QED
    BY <2>1, <2>2 DEF Next, Main, vars, ring, kb_handler, kb_enqueue,
       kb_register_listener, CallProcessQueue, TestEmpty, ReadSlot,
       AdvanceTail, Decode
<1>. QED
  BY <1>1, InitInv, NextInv, PTL DEF Spec, HeldNotOverwritten
-----------------------------------------------------------------------------
(* The decoder.  Its two flags are the prefixes at the end of the bytes    *)
(* decoded so far, which are the bytes taken, but for the last one while   *)
(* it is being decoded; the events are those of the key bytes among them.  *)

Decoded(s) ==
  /\ break_key <=> (F0 \in PrefixesOf(s, Len(s) + 1))
  /\ ext_key <=> (E0 \in PrefixesOf(s, Len(s) + 1))
  /\ Len(events) = Cardinality(KeyPositions(s))
  /\ \A i \in KeyPositions(s) :
       events[Cardinality(KeyPositions(s) \cap (1 .. i))] = EventAt(s, i)

DecodeInv ==
  /\ pc # "boot" => g_listener
  /\ pc # "decode" => Decoded(taken)
  /\ pc = "decode" => \E t \in Seq(Contents) : /\ taken = Append(t, sc)
                                               /\ Decoded(t)

LEMMA KeyPositionsFinite ==
  ASSUME NEW s \in Seq(Contents)
  PROVE  /\ KeyPositions(s) \subseteq 1 .. Len(s)
         /\ IsFiniteSet(KeyPositions(s))
         /\ Cardinality(KeyPositions(s)) \in Nat
<1>1. KeyPositions(s) \subseteq 1 .. Len(s)
  BY DEF KeyPositions
<1>2. IsFiniteSet(1 .. Len(s))
  <2>1. Len(s) \in Int
    OBVIOUS
  <2>. QED
    BY <2>1, FS_Interval
<1>3. IsFiniteSet(KeyPositions(s))
  BY <1>1, <1>2, FS_Subset
<1>. QED
  BY <1>1, <1>3, FS_CardinalityType

(* A further byte changes nothing for the bytes before it. *)
LEMMA PrefixesStable ==
  ASSUME NEW s \in Seq(Contents), NEW b \in Contents,
         NEW i \in 1 .. Len(s) + 1
  PROVE  PrefixesOf(Append(s, b), i) = PrefixesOf(s, i)
<1>. DEFINE u == Append(s, b)
            J(q) == {j \in 1 .. i - 1 : \A k \in j .. i - 1 : q[k] \in Prefix}
<1>1. \A k \in 1 .. i - 1 : u[k] = s[k]
  OBVIOUS
<1>2. J(u) = J(s)
  BY <1>1
<1>3. \A j \in J(s) : u[j] = s[j]
  BY <1>1
<1>4. PrefixesOf(u, i) = {u[j] : j \in J(u)} /\ PrefixesOf(s, i) = {s[j] : j \in J(s)}
  BY DEF PrefixesOf
<1>. HIDE DEF u, J
<1>5. {u[j] : j \in J(u)} = {s[j] : j \in J(s)}
  BY <1>2, <1>3
<1>. QED
  BY <1>4, <1>5 DEF u

(* After a prefix, it has joined the prefixes at the end of the stream. *)
LEMMA PrefixJoins ==
  ASSUME NEW s \in Seq(Contents), NEW b \in Prefix
  PROVE  /\ KeyPositions(Append(s, b)) = KeyPositions(s)
         /\ PrefixesOf(Append(s, b), Len(s) + 2) =
              PrefixesOf(s, Len(s) + 1) \cup {b}
<1>. DEFINE u == Append(s, b)
            n == Len(s)
<1>0. b \in Contents
  BY DEF Contents, Byte
<1>1. /\ n \in Nat /\ Len(u) = n + 1 /\ u[n + 1] = b
      /\ \A k \in 1 .. n : u[k] = s[k]
  BY <1>0
<1>. HIDE DEF u, n
<1>2. KeyPositions(u) = KeyPositions(s)
  <2>1. KeyPositions(u) = {i \in 1 .. n + 1 : u[i] \notin Prefix}
    BY <1>1 DEF KeyPositions
  <2>2. KeyPositions(s) = {i \in 1 .. n : s[i] \notin Prefix}
    BY DEF KeyPositions, n
  <2>3. ASSUME NEW i \in 1 .. n + 1, u[i] \notin Prefix
        PROVE  i \in 1 .. n
    BY <1>1, <2>3
  <2>4. ASSUME NEW i \in 1 .. n
        PROVE  i \in 1 .. n + 1 /\ u[i] = s[i]
    BY <1>1
  <2>. QED
    BY <2>1, <2>2, <2>3, <2>4
<1>. DEFINE J == {j \in 1 .. n : \A k \in j .. n : s[k] \in Prefix}
            K == {j \in 1 .. n + 1 : \A k \in j .. n + 1 : u[k] \in Prefix}
<1>3. K = J \cup {n + 1}
  <2>1. ASSUME NEW j \in K  PROVE j \in J \cup {n + 1}
    <3>1. CASE j = n + 1
      BY <3>1
    <3>2. CASE j # n + 1
      <4>1. j \in 1 .. n /\ \A k \in j .. n : k \in j .. n + 1 /\ k \in 1 .. n
        BY <1>1, <3>2
      <4>. QED
        BY <1>1, <4>1
    <3>. QED
      BY <3>1, <3>2
  <2>2. ASSUME NEW j \in J  PROVE j \in K
    <3>1. ASSUME NEW k \in j .. n + 1  PROVE u[k] \in Prefix
      <4>1. CASE k = n + 1
        BY <1>1, <4>1
      <4>2. CASE k # n + 1
        <5>1. k \in j .. n /\ k \in 1 .. n
          BY <1>1, <4>2
        <5>. QED
          BY <1>1, <5>1
      <4>. QED
        BY <4>1, <4>2
    <3>. QED
      BY <1>1, <3>1
  <2>3. n + 1 \in K
    BY <1>1
  <2>. QED
    BY <2>1, <2>2, <2>3
<1>4. J \subseteq 1 .. n
  OBVIOUS
<1>5. PrefixesOf(u, n + 2) = {u[j] : j \in K}
  BY <1>1 DEF PrefixesOf
<1>6. PrefixesOf(s, n + 1) = {s[j] : j \in J}
  BY <1>1 DEF PrefixesOf
<1>. HIDE DEF J, K
<1>7. {u[j] : j \in K} = {s[j] : j \in J} \cup {b}
  BY <1>1, <1>3, <1>4
<1>. QED
  BY <1>2, <1>5, <1>6, <1>7 DEF u, n

(* After a key byte there is one more key, and no prefix is pending. *)
LEMMA KeyEnds ==
  ASSUME NEW s \in Seq(Contents), NEW b \in Contents, b \notin Prefix
  PROVE  /\ KeyPositions(Append(s, b)) = KeyPositions(s) \cup {Len(s) + 1}
         /\ PrefixesOf(Append(s, b), Len(s) + 2) = {}
<1>. DEFINE u == Append(s, b)
            n == Len(s)
<1>1. /\ n \in Nat /\ Len(u) = n + 1 /\ u[n + 1] = b
      /\ \A k \in 1 .. n : u[k] = s[k]
  OBVIOUS
<1>. HIDE DEF u, n
<1>2. KeyPositions(u) = KeyPositions(s) \cup {n + 1}
  <2>1. KeyPositions(u) = {i \in 1 .. n + 1 : u[i] \notin Prefix}
    BY <1>1 DEF KeyPositions
  <2>2. KeyPositions(s) = {i \in 1 .. n : s[i] \notin Prefix}
    BY DEF KeyPositions, n
  <2>3. ASSUME NEW i \in 1 .. n + 1
        PROVE  i = n + 1 \/ i \in 1 .. n
    BY <1>1
  <2>4. ASSUME NEW i \in 1 .. n
        PROVE  i \in 1 .. n + 1 /\ u[i] = s[i]
    BY <1>1
  <2>5. n + 1 \in 1 .. n + 1
    BY <1>1
  <2>. QED
    BY <1>1, <2>1, <2>2, <2>3, <2>4, <2>5
<1>3. PrefixesOf(u, n + 2) = {}
  <2>1. ASSUME NEW j \in 1 .. n + 1,
               \A k \in j .. n + 1 : u[k] \in Prefix
        PROVE  FALSE
    <3>1. n + 1 \in j .. n + 1
      BY <1>1
    <3>. QED
      BY <1>1, <2>1, <3>1
  <2>2. (n + 2) - 1 = n + 1
    BY <1>1
  <2>. QED
    BY <2>1, <2>2 DEF PrefixesOf
<1>. QED
  BY <1>2, <1>3 DEF u, n

LEMMA DecodePrefix ==
  ASSUME NEW s \in Seq(Contents), NEW b \in Contents, b = sc,
         Decoded(s), Remember
  PROVE  Decoded(Append(s, b))'
<1>. DEFINE u == Append(s, b)
<1>1. /\ b \in Prefix /\ UNCHANGED events
      /\ ext_key' <=> (ext_key \/ b = E0)
      /\ break_key' <=> (break_key \/ b = F0)
  BY DEF Remember
<1>2. /\ KeyPositions(u) = KeyPositions(s) /\ Len(u) + 1 = Len(s) + 2
      /\ PrefixesOf(u, Len(s) + 2) = PrefixesOf(s, Len(s) + 1) \cup {b}
  BY <1>1, PrefixJoins
<1>3. \A i \in KeyPositions(s) : EventAt(u, i) = EventAt(s, i)
  <2>. SUFFICES ASSUME NEW i \in KeyPositions(s)
                PROVE  EventAt(u, i) = EventAt(s, i)
    OBVIOUS
  <2>1. i \in 1 .. Len(s) + 1 /\ u[i] = s[i]
    BY DEF KeyPositions
  <2>2. PrefixesOf(u, i) = PrefixesOf(s, i)
    BY <2>1, PrefixesStable
  <2>. QED
    BY <2>1, <2>2 DEF EventAt
<1>. HIDE DEF u
<1>4. Decoded(u)'
  BY <1>1, <1>2, <1>3 DEF Decoded
<1>. QED
  BY <1>4 DEF u

LEMMA DecodeKey ==
  ASSUME NEW s \in Seq(Contents), NEW b \in Contents, b = sc,
         TypeOK, Decoded(s), Forward, g_listener
  PROVE  Decoded(Append(s, b))'
<1>. DEFINE u == Append(s, b)
            n == Len(s)
            K == KeyPositions(s)
            e == [scancode |-> b, break_key |-> break_key,
                  extended_key |-> ext_key]
<1>1. /\ b \notin Prefix /\ break_key' = FALSE /\ ext_key' = FALSE
      /\ events' = Append(events, e)
  BY DEF Forward
<1>2. /\ KeyPositions(u) = K \cup {n + 1}
      /\ PrefixesOf(u, n + 2) = {} /\ Len(u) + 1 = n + 2
  BY <1>1, KeyEnds
<1>3. /\ n \in Nat /\ u[n + 1] = b /\ \A i \in 1 .. n : u[i] = s[i]
  OBVIOUS
<1>4. K \subseteq 1 .. n /\ IsFiniteSet(K) /\ Cardinality(K) \in Nat
  BY KeyPositionsFinite
<1>5. Cardinality(K \cup {n + 1}) = Cardinality(K) + 1
  <2>1. n + 1 \notin K
    BY <1>3, <1>4
  <2>. QED
    BY <1>4, <2>1, FS_AddElement
<1>6. /\ Len(events) = Cardinality(K) /\ Len(events') = Cardinality(K) + 1
      /\ events'[Cardinality(K) + 1] = e
      /\ \A c \in 1 .. Cardinality(K) : events'[c] = events[c]
  BY <1>1, <1>4 DEF TypeOK, Decoded
<1>7. EventAt(u, n + 1) = e
  <2>1. PrefixesOf(u, n + 1) = PrefixesOf(s, n + 1)
    BY <1>3, PrefixesStable
  <2>2. break_key = (F0 \in PrefixesOf(s, n + 1))
        /\ ext_key = (E0 \in PrefixesOf(s, n + 1))
    BY DEF TypeOK, Decoded
  <2>. HIDE DEF u
  <2>. QED
    BY <1>3, <2>1, <2>2 DEF EventAt
<1>8. ASSUME NEW i \in K
      PROVE  events'[Cardinality((K \cup {n + 1}) \cap (1 .. i))]
               = EventAt(u, i)
  <2>1. i \in 1 .. n /\ i \in 1 .. n + 1 /\ u[i] = s[i]
    BY <1>3, <1>4
  <2>2. EventAt(u, i) = EventAt(s, i)
    BY <2>1, PrefixesStable DEF EventAt
  <2>3. (K \cup {n + 1}) \cap (1 .. i) = K \cap (1 .. i)
    BY <1>3, <2>1
  <2>4. Cardinality(K \cap (1 .. i)) \in 1 .. Cardinality(K)
    <3>. DEFINE L == K \cap (1 .. i)
    <3>1. IsFiniteSet(L) /\ Cardinality(L) <= Cardinality(K)
      BY <1>4, FS_Subset
    <3>2. i \in L
      BY <2>1
    <3>. HIDE DEF L
    <3>3. Cardinality(L) \in Nat /\ Cardinality(L) # 0
      BY <3>1, <3>2, FS_CardinalityType, FS_EmptySet
    <3>. QED
      BY <1>4, <3>1, <3>3 DEF L
  <2>5. events[Cardinality(K \cap (1 .. i))] = EventAt(s, i)
    BY DEF Decoded
  <2>. HIDE DEF u
  <2>. QED
    BY <1>6, <2>2, <2>3, <2>4, <2>5
<1>9. events'[Cardinality((K \cup {n + 1}) \cap (1 .. n + 1))]
        = EventAt(u, n + 1)
  <2>1. (K \cup {n + 1}) \cap (1 .. n + 1) = K \cup {n + 1}
    BY <1>3, <1>4
  <2>. QED
    BY <1>5, <1>6, <1>7, <2>1
<1>. HIDE DEF u, n, K, e
<1>10. Decoded(u)'
  BY <1>1, <1>2, <1>5, <1>6, <1>8, <1>9 DEF Decoded
<1>. QED
  BY <1>10 DEF u

LEMMA DecodedUnchanged ==
  ASSUME NEW s, UNCHANGED <<break_key, ext_key, events>>
  PROVE  Decoded(s)' <=> Decoded(s)
  BY DEF Decoded

LEMMA InitDecode == Init => DecodeInv
<1>. SUFFICES ASSUME Init PROVE DecodeInv
  OBVIOUS
<1>1. KeyPositions(<<>>) = {} /\ Cardinality({}) = 0
  BY FS_EmptySet DEF KeyPositions
<1>2. PrefixesOf(<<>>, 1) = {}
  BY DEF PrefixesOf
<1>3. Decoded(<<>>)
  <2>1. Len(<<>>) = 0 /\ Len(<<>>) + 1 = 1
    OBVIOUS
  <2>. QED
    BY <1>1, <1>2, <2>1 DEF Init, Decoded
<1>. QED
  BY <1>3 DEF Init, DecodeInv

LEMMA NextDecode == IInv /\ IInv' /\ DecodeInv /\ [Next]_vars => DecodeInv'
<1>. SUFFICES ASSUME IInv, IInv', DecodeInv, [Next]_vars
              PROVE  DecodeInv'
  OBVIOUS
<1>1. ASSUME NEW b \in Byte, kb_handler(b)  PROVE DecodeInv'
  BY <1>1, DecodedUnchanged DEF kb_handler, DecodeInv, decoder
<1>2. CASE kb_register_listener
  BY <1>2, DecodedUnchanged DEF kb_register_listener, DecodeInv
<1>3. CASE CallProcessQueue
  BY <1>3, DecodedUnchanged DEF CallProcessQueue, DecodeInv, decoder
<1>4. CASE TestEmpty
  BY <1>4, DecodedUnchanged DEF TestEmpty, DecodeInv, decoder
<1>5. CASE ReadSlot
  BY <1>5, DecodedUnchanged DEF ReadSlot, DecodeInv, decoder
<1>6. CASE AdvanceTail
  <2>1. taken \in Seq(Contents) /\ Decoded(taken) /\ g_listener
    BY <1>6 DEF AdvanceTail, DecodeInv, IInv, TypeOK, Contents
  <2>2. /\ taken' = Append(taken, sc) /\ pc' = "decode"
        /\ UNCHANGED <<sc, break_key, ext_key, events, g_listener>>
    BY <1>6 DEF AdvanceTail, decoder
  <2>4. \A s : Decoded(s)' <=> Decoded(s)
    BY <2>2 DEF Decoded
  <2>. QED
    BY <2>1, <2>2, <2>4 DEF DecodeInv
<1>7. CASE Decode
  <2>1. PICK t \in Seq(Contents) : taken = Append(t, sc) /\ Decoded(t)
    BY <1>7 DEF Decode, DecodeInv
  <2>2. sc \in Contents /\ TypeOK /\ g_listener
    BY <1>7 DEF Decode, DecodeInv, IInv, TypeOK, Contents
  <2>3. \A b \in Contents : b = sc => Decoded(Append(t, b))'
    BY <1>7, <2>1, <2>2, DecodePrefix, DecodeKey DEF Decode
  <2>. QED
    BY <1>7, <2>1, <2>2, <2>3 DEF Decode, DecodeInv
<1>8. CASE UNCHANGED vars
  BY <1>8, DecodedUnchanged DEF vars, decoder, DecodeInv
<1>. QED
  BY <1>1, <1>2, <1>3, <1>4, <1>5, <1>6, <1>7, <1>8 DEF Next, Main

(* The listener gets one event for every key byte taken, in order, with    *)
(* exactly the prefixes that precede the key, however the bytes were cut   *)
(* into calls of kb_process_queue and whatever interrupts came between.    *)
THEOREM EventsFollowBytes == Spec => []EventsMatchBytes
<1>1. DecodeInv => EventsMatchBytes
  BY DEF DecodeInv, Decoded, EventsMatchBytes
<1>. QED
  BY <1>1, InitInv, NextInv, InitDecode, NextDecode, PTL DEF Spec
=============================================================================
