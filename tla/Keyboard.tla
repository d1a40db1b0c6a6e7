------------------------------ MODULE Keyboard ------------------------------
(***************************************************************************)
(* The keyboard driver, kernel/src/driver/ps2/keyboard.cpp: a ring buffer  *)
(* filled by the IRQ 1 handler and emptied by kb_process_queue, which the  *)
(* main loop calls once a frame, and the decoder that turns the scancode   *)
(* bytes into KeyEvents for the registered listener.                       *)
(*                                                                         *)
(* The handler runs behind an interrupt gate on the only CPU, so it is one *)
(* step; it may come between any two accesses of the main thread to the    *)
(* shared volatile variables, so kb_process_queue is one step per access.  *)
(***************************************************************************)
EXTENDS Naturals, Sequences, FiniteSets

CONSTANTS
  KB_BUFFER_SIZE,  (* Slots of kb_buf (64 in the code).                    *)
  Key,             (* The bytes that name a key.                           *)
  E0, F0,          (* The "extended" and "break" prefix bytes.             *)
  Zero,            (* The byte of a slot of kb_buf never written.          *)
  MaxBytes         (* Bound: bytes the keyboard gets into the buffer.      *)

Prefix == {E0, F0}
Byte == Key \cup Prefix

ASSUME KeyboardAssumption ==
  /\ KB_BUFFER_SIZE \in Nat /\ KB_BUFFER_SIZE >= 2
  /\ E0 # F0 /\ Key \cap Prefix = {} /\ Zero \notin Prefix
  /\ MaxBytes \in Nat

VARIABLES
  kb_buf, kb_buf_head, kb_buf_tail,  (* The ring buffer and its indices.   *)
  break_key, ext_key,                (* Prefixes seen since the last key.  *)
  g_listener,                        (* Has a listener been registered?    *)
  pc,                                (* Where the main thread is.          *)
  sc,                                (* kb_process_queue's local.          *)
  accepted,      (* History: the bytes the handler put into the buffer.    *)
  taken,         (* History: the bytes kb_dequeue returned.                *)
  events         (* History: the KeyEvents the listener was called with.   *)

ring == <<kb_buf, kb_buf_head, kb_buf_tail>>
decoder == <<break_key, ext_key, g_listener, events>>
vars == <<ring, decoder, pc, sc, accepted, taken>>

Slot == 0 .. KB_BUFFER_SIZE - 1

KeyEvent ==
  [scancode : Key \cup {Zero}, break_key : BOOLEAN, extended_key : BOOLEAN]

(* The slot after slot i. *)
After(i) == (i + 1) % KB_BUFFER_SIZE

Init ==
  /\ kb_buf = [i \in Slot |-> Zero]
  /\ kb_buf_head = 0 /\ kb_buf_tail = 0
  /\ break_key = FALSE /\ ext_key = FALSE
  /\ g_listener = FALSE
  /\ pc = "boot"
  /\ sc = Zero
  /\ accepted = <<>> /\ taken = <<>> /\ events = <<>>

-----------------------------------------------------------------------------
(* The interrupt handler. *)

(* Mutants: no test for a full buffer; the byte put in the head's slot.    *)
Enqueue_NoFullTest(b) ==
  /\ kb_buf' = [kb_buf EXCEPT ![After(kb_buf_head)] = b]
  /\ kb_buf_head' = After(kb_buf_head)
  /\ accepted' = Append(accepted, b)

Enqueue_AtHead(b) ==
  \/ /\ After(kb_buf_head) # kb_buf_tail
     /\ kb_buf' = [kb_buf EXCEPT ![kb_buf_head] = b]
     /\ kb_buf_head' = After(kb_buf_head)
     /\ accepted' = Append(accepted, b)
  \/ /\ After(kb_buf_head) = kb_buf_tail
     /\ UNCHANGED <<kb_buf, kb_buf_head, accepted>>

(* kb_enqueue: the byte goes to the slot after the head, unless that slot  *)
(* is the tail; then it is dropped.                                        *)
kb_enqueue(b) ==
  \/ /\ After(kb_buf_head) # kb_buf_tail
     /\ kb_buf' = [kb_buf EXCEPT ![After(kb_buf_head)] = b]
     /\ kb_buf_head' = After(kb_buf_head)
     /\ accepted' = Append(accepted, b)
  \/ /\ After(kb_buf_head) = kb_buf_tail
     /\ UNCHANGED <<kb_buf, kb_buf_head, accepted>>

(* IRQ 1, at any time after kb_init: the keyboard sends the byte b.        *)
kb_handler(b) ==
  /\ Len(accepted) < MaxBytes
  /\ kb_enqueue(b)
  /\ UNCHANGED <<kb_buf_tail, decoder, pc, sc, taken>>

-----------------------------------------------------------------------------
(* The main thread. *)

(* kmain registers Tetris::handle_key and enters the main loop. *)
kb_register_listener ==
  /\ pc = "boot"
  /\ g_listener' = TRUE
  /\ pc' = "frame"
  /\ UNCHANGED <<ring, break_key, ext_key, events, sc, accepted, taken>>

(* The main loop comes round to its call of kb_process_queue. *)
CallProcessQueue ==
  /\ pc = "frame"
  /\ pc' = "test"
  /\ UNCHANGED <<ring, decoder, sc, accepted, taken>>

(* Mutant: the buffer counts as empty while it holds one byte. *)
TestEmpty_Early ==
  /\ pc = "test"
  /\ pc' = IF kb_buf_head \in {kb_buf_tail, After(kb_buf_tail)}
           THEN "frame" ELSE "read"
  /\ UNCHANGED <<ring, decoder, sc, accepted, taken>>

(* kb_dequeue's first line: return false, and end the loop, when empty. *)
TestEmpty ==
  /\ pc = "test"
  /\ pc' = IF kb_buf_tail = kb_buf_head THEN "frame" ELSE "read"
  /\ UNCHANGED <<ring, decoder, sc, accepted, taken>>

(* Mutant: the slot the handler writes first is the slot read first. *)
ReadSlot_AfterTail ==
  /\ pc = "read"
  /\ sc' = kb_buf[After(kb_buf_tail)]
  /\ pc' = "advance"
  /\ UNCHANGED <<ring, decoder, accepted, taken>>

ReadSlot ==
  /\ pc = "read"
  /\ sc' = kb_buf[kb_buf_tail]
  /\ pc' = "advance"
  /\ UNCHANGED <<ring, decoder, accepted, taken>>

AdvanceTail ==
  /\ pc = "advance"
  /\ kb_buf_tail' = After(kb_buf_tail)
  /\ taken' = Append(taken, sc)
  /\ pc' = "decode"
  /\ UNCHANGED <<kb_buf, kb_buf_head, decoder, sc, accepted>>

(* The body of kb_process_queue's loop: a prefix is remembered, any other  *)
(* byte is forwarded with the prefixes remembered, which are forgotten.    *)
Remember ==
  /\ sc \in Prefix
  /\ ext_key' = (ext_key \/ sc = E0)
  /\ break_key' = (break_key \/ sc = F0)
  /\ UNCHANGED events

(* Mutant: break_key is not reset after the event. *)
Forward_KeepBreak ==
  /\ sc \notin Prefix
  /\ events' = IF g_listener
               THEN Append(events, [scancode |-> sc, break_key |-> break_key,
                                    extended_key |-> ext_key])
               ELSE events
  /\ ext_key' = FALSE
  /\ UNCHANGED break_key

Forward ==
  /\ sc \notin Prefix
  /\ events' = IF g_listener
               THEN Append(events, [scancode |-> sc, break_key |-> break_key,
                                    extended_key |-> ext_key])
               ELSE events
  /\ break_key' = FALSE /\ ext_key' = FALSE

Decode ==
  /\ pc = "decode"
  /\ Remember \/ Forward
  /\ pc' = "test"
  /\ UNCHANGED <<ring, g_listener, sc, accepted, taken>>

Main ==
  \/ kb_register_listener \/ CallProcessQueue
  \/ TestEmpty \/ ReadSlot \/ AdvanceTail \/ Decode

Next == (\E b \in Byte : kb_handler(b)) \/ Main

Spec == Init /\ [][Next]_vars

(* The CPU runs the main thread whenever no interrupt handler runs; the    *)
(* keyboard owes nobody a byte.                                            *)
FairSpec == Spec /\ WF_vars(Main)

-----------------------------------------------------------------------------
TypeOK ==
  /\ kb_buf \in [Slot -> Byte \cup {Zero}]
  /\ kb_buf_head \in Slot /\ kb_buf_tail \in Slot
  /\ break_key \in BOOLEAN /\ ext_key \in BOOLEAN /\ g_listener \in BOOLEAN
  /\ pc \in {"boot", "frame", "test", "read", "advance", "decode"}
  /\ sc \in Byte \cup {Zero}
  /\ accepted \in Seq(Byte) /\ taken \in Seq(Byte \cup {Zero})
  /\ events \in Seq(KeyEvent)

(* The number of bytes between the tail and the head. *)
Pending == IF kb_buf_tail <= kb_buf_head
           THEN kb_buf_head - kb_buf_tail
           ELSE kb_buf_head + KB_BUFFER_SIZE - kb_buf_tail

(* The slots from the tail to the head, both included. *)
HeldSlots == {(kb_buf_tail + i) % KB_BUFFER_SIZE : i \in 0 .. Pending}

(* The contents of those slots, oldest first. *)
Held == [i \in 1 .. Pending + 1 |->
           kb_buf[(kb_buf_tail + i - 1) % KB_BUFFER_SIZE]]

(* What the buffer says of itself between the accesses of kb_dequeue: the  *)
(* slot about to be read, or just read, is still the oldest held, however  *)
(* many interrupts came since the test for emptiness.                      *)
DequeueInv ==
  /\ pc \in {"read", "advance"} => kb_buf_head # kb_buf_tail
  /\ pc = "advance" => sc = kb_buf[kb_buf_tail]

(* The bytes in the order they come out: the zero byte of the never        *)
(* written slot 0 first, then everything the handler accepted.             *)
Stream == <<Zero>> \o accepted

(* The ring, the interrupts and the wrap-around lose, repeat and reorder   *)
(* nothing: what was taken followed by what is held is the whole stream.   *)
(* So kb_dequeue runs one byte behind: it reports an empty buffer when the *)
(* newest byte accepted has not been handed out.                           *)
OneByteBehind == taken \o Held = Stream

(* The handler never writes a slot that is still to be read: not the       *)
(* unread ones, and not the tail that kb_dequeue may just be reading.      *)
HeldNotOverwritten ==
  [][\A i \in HeldSlots : kb_buf'[i] = kb_buf[i]]_vars

(* The positions of key bytes in a stream, and the event of the key byte   *)
(* at position i: its prefixes are those between it and the key before.    *)
KeyPositions(s) == {i \in 1 .. Len(s) : s[i] \notin Prefix}
PrefixesOf(s, i) ==
  {s[j] : j \in {j \in 1 .. i - 1 : \A k \in j .. i - 1 : s[k] \in Prefix}}
EventAt(s, i) == [scancode |-> s[i],
                  break_key |-> F0 \in PrefixesOf(s, i),
                  extended_key |-> E0 \in PrefixesOf(s, i)]

(* The listener is called once for every key byte taken, in order, with    *)
(* exactly the prefixes that came with it, although a prefix and its key   *)
(* may be taken by different calls of kb_process_queue, frames apart.      *)
EventsMatchBytes ==
  pc # "decode" =>
    LET keys == KeyPositions(taken)
    IN /\ Len(events) = Cardinality(keys)
       /\ \A i \in keys :
            events[Cardinality(keys \cap (1 .. i))] = EventAt(taken, i)

(* The ring, filled by interrupts and emptied access by access, implements *)
(* the abstract queue: kb_enqueue is its Put or drops the byte, moving the *)
(* tail is its Take, and no other access shows.                            *)
Fifo == INSTANCE ScancodeFifo WITH
          Byte <- Byte, Zero <- Zero, Capacity <- KB_BUFFER_SIZE,
          queue <- Held, taken <- taken
FifoSpec == Fifo!Spec

(* Every byte the handler accepts but the newest is eventually forwarded   *)
(* to the decoder: an accepted byte releases the one before it.            *)
EventuallyTaken ==
  \A n \in 1 .. MaxBytes : (Len(accepted) >= n) ~> (Len(taken) >= n)

(* keyboard.hpp:58 says of kb_process_queue: "Process any queued           *)
(* scancodes, forwarding them to the listener".  So when it finds the      *)
(* buffer empty it has forwarded the scancodes the handler queued.         *)
QueueForwarded ==
  (pc = "test" /\ kb_buf_tail = kb_buf_head) => taken = accepted
=============================================================================
