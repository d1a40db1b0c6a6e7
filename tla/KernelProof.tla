---------------------------- MODULE KernelProof -----------------------------
(***************************************************************************)
(* Proofs about the boot and the main loop, for every word size, every     *)
(* frame time and any number of key presses: the waits of a frame are      *)
(* exact across the wrap of the tick count, the kernel gives up with       *)
(* reason only, and the keyboard's bytes are handled once and in order.    *)
(***************************************************************************)
EXTENDS Kernel, SequenceTheorems, TLAPS

(* The program of ps2::init, step by step. *)
LEMMA Program ==
  /\ Len(ps2_init) = 12
  /\ ps2_init[1] = <<"write", "disable_first_port">>
  /\ ps2_init[2] = <<"write", "disable_second_port">>
  /\ ps2_init[3] = <<"flush", "output">>
  /\ ps2_init[4] = <<"write", "read_config">>
  /\ ps2_init[5] = <<"read", "config">>
  /\ ps2_init[6] = <<"write", "write_config">>
  /\ ps2_init[7] = <<"write", "config">>
  /\ ps2_init[8] = <<"write", "self_test">>
  /\ ps2_init[9] = <<"read", "result">>
  /\ ps2_init[10] = <<"write", "enable_first_port">>
  /\ ps2_init[11] = <<"write", "enable_scanning">>
  /\ ps2_init[12] = <<"read", "ack">>
  BY DEF ps2_init

LEMMA ProgramLength == Len(ps2_init) = 12
  BY Program

LEMMA WrittenWords ==
  /\ \A i \in 1 .. 12 : ps2_init[i][2] \in Written
  /\ Written = {ps2_init[i][2] : i \in 1 .. 12}
<1>1. DOMAIN ps2_init = 1 .. 12
  BY DEF ps2_init
<1>. QED
  BY <1>1 DEF Written

-----------------------------------------------------------------------------
(* The tick count. *)

Word == 0 .. WordMod - 1
TicksRequested == IF 0 \in requested THEN 1 ELSE 0
Slack == IF MaxLag >= ticks THEN MaxLag ELSE ticks

(* Few ticks come before the main thread looks at the count, and eticks is *)
(* as far from it as ticks are left, but for a wrap of either.             *)
TimeInv ==
  /\ timer_ticks \in Word /\ eticks \in Word /\ elapsed \in Nat
  /\ elapsed + TicksRequested <= Slack + 1
  /\ pc = "hlt" => elapsed + TicksRequested <= Slack
  /\ pc = "halted" /\ 0 \notin requested => elapsed <= Slack
  /\ Waiting => eticks - timer_ticks \in {ticks - elapsed,
                                          ticks - elapsed + WordMod,
                                          ticks - elapsed - WordMod}

LEMMA Constants ==
  /\ WordMod \in Nat \ {0} /\ WordMod = 2 * (WordMod \div 2)
  /\ WordMod \div 2 \in Nat \ {0}
  /\ ticks \in Nat /\ ticks < WordMod \div 2
  /\ MaxLag \in Nat /\ MaxLag < WordMod \div 2
  /\ Slack \in Nat /\ Slack < WordMod \div 2
<1>1. ticks \in Nat
  BY TimerAssumption DEF ticks, TICK_MS
<1>. HIDE DEF ticks
<1>. QED
  BY <1>1, TimerAssumption DEF Slack

(* Remainders within one word of the range. *)
LEMMA Wrap ==
  ASSUME NEW n \in Nat \ {0}, NEW x \in Int
  PROVE  /\ x \in 0 .. n - 1 => x % n = x
         /\ x \in n .. 2 * n - 1 => x % n = x - n
         /\ x \in -n .. -1 => x % n = x + n
<1>1. ASSUME NEW y \in 0 .. n - 1  PROVE y % n = y
  OBVIOUS
<1>2. ASSUME x \in n .. 2 * n - 1  PROVE x % n = x - n
  BY <1>2
<1>3. ASSUME x \in -n .. -1  PROVE x % n = x + n
  BY <1>3
<1>. QED
  BY <1>1, <1>2, <1>3

LEMMA WaitIsExact == TimeInv => WaitExact
<1>. SUFFICES ASSUME TimeInv, Waiting
              PROVE  MustWait <=> elapsed < ticks
  BY DEF WaitExact
<1>. DEFINE h == WordMod \div 2
            x == eticks - timer_ticks
            left == ticks - elapsed
<1>1. /\ h \in Nat \ {0} /\ WordMod = 2 * h /\ WordMod \in Nat \ {0}
      /\ ticks \in Nat /\ ticks < h /\ Slack < h /\ Slack \in Nat
  BY Constants
<1>2. /\ elapsed \in Nat /\ elapsed <= Slack + 1
      /\ x \in {left, left + WordMod, left - WordMod}
      /\ timer_ticks \in 0 .. WordMod - 1 /\ eticks \in 0 .. WordMod - 1
  BY <1>1 DEF TimeInv, TicksRequested, Word
<1>. HIDE DEF h
<1>3. /\ x \in Int /\ -WordMod < x /\ x < WordMod
      /\ left \in Int /\ -h <= left /\ left < h
  BY <1>1, <1>2
<1>4. x % WordMod = IF left >= 0 THEN left ELSE left + WordMod
  <2>. HIDE DEF x, left
  <2>1. CASE x \in 0 .. WordMod - 1
    BY <1>1, <1>2, <1>3, <2>1, Wrap
  <2>2. CASE x \in -WordMod .. -1
    BY <1>1, <1>2, <1>3, <2>2, Wrap
  <2>. QED
    BY <1>1, <1>3, <2>1, <2>2
<1>. QED
  BY <1>1, <1>2, <1>3, <1>4 DEF MustWait, Signed, h

-----------------------------------------------------------------------------
(* The inductive invariant. *)

Starting == pc \in {"start", "pic", "timer", "sti"}
Served == pc \in {"ps2", "kb_init"} \/ Running

(* No handler leaves a line in service, and a boot that has come to        *)
(* interrupts has them of the timer and the keyboard.                      *)
PicInv ==
  /\ in_service = {} /\ requested \subseteq {0, 1}
  /\ unmasked \in {{}, {0, 1}} /\ irq_routines \subseteq {0, 1}
  /\ pc \notin {"start", "pic", "panic"} => unmasked = {0, 1}
  /\ Served => IF_flag
  /\ 1 \in irq_routines <=> Running

(* The dialogue with the controller up to the flush of its output. *)
Setup ==
  /\ step = 1 => input = None
  /\ step = 2 => /\ input \in {None, "disable_first_port"}
                 /\ input = None => ~port_on
  /\ step = 3 => ~port_on /\ input \in {None, "disable_second_port"}

(* The dialogue from there on, when no key disturbs it. *)
Dialogue ==
  /\ step = 4 => ~port_on /\ output = None /\ input \in {None, "disable_second_port"}
  /\ step = 5 => /\ ~port_on
               /\ \/ input = "read_config" /\ output = None
                  \/ input = None /\ output = <<"config", 0>>
  /\ step = 6 => ~port_on /\ output = None /\ input = None
  /\ step = 7 => ~port_on /\ output = None /\ input \in {None, "write_config"}
  /\ step = 8 => output = None /\ (input = "config" \/ (input = None /\ irq_on))
  /\ step = 9 => /\ irq_on
               /\ \/ input = "self_test" /\ output = None
                  \/ input = None /\ output = <<"pass", 0>>
                  \/ input = None /\ output = <<"fail", 0>> /\ faulty
  /\ step = 10 => irq_on /\ output = None /\ input = None
  /\ step = 11 => irq_on /\ output = None /\ input \in {None, "enable_first_port"}
  /\ step = 12 => /\ irq_on
                /\ \/ input = "enable_scanning" /\ output = None
                   \/ input = None /\ output = <<"ack", 0>>
  /\ step = 13 => irq_on /\ input = None /\ (Running \/ output = None)

Ps2Inv ==
  /\ step \in 1 .. 13
  /\ Starting => step = 1
  /\ pc = "ps2" => step <= 12
  /\ pc = "kb_init" \/ Running => step = 13
  /\ Setup
  /\ ~early => Dialogue

(* The keyboard's interrupt means a byte, and nothing is recorded before   *)
(* the handler is there.                                                   *)
KeyInv ==
  /\ Running /\ 1 \in requested => output # None
  /\ ~Running => handled = <<>> /\ sent = <<>>
  /\ KeysInOrder

IInv == TypeOK /\ PicInv /\ TimeInv /\ Ps2Inv /\ KeyInv /\ PanicJustified

-----------------------------------------------------------------------------
(* What the steps do to the interrupt controllers. *)

(* One line alone is in service, and the end of interrupt is for it. *)
LEMMA Served1 ==
  ASSUME PicInv, NEW l \in Line, Interrupt(l)
  PROVE  /\ l \in {0, 1} /\ l \in requested /\ IF_flag /\ unmasked = {0, 1}
         /\ requested' = requested \ {l} /\ in_service' = {}
         /\ UNCHANGED <<unmasked, irq_routines>>
<1>1. l \in {0, 1} /\ l \in requested /\ l \in unmasked /\ IF_flag
  BY DEF PicInv, Interrupt, Deliverable
<1>2. EOI({l}) = {}
  BY <1>1 DEF EOI, FirstPic
<1>3. in_service \cup {l, Input(l)} = {l}
  BY <1>1 DEF PicInv, Input
<1>. QED
  BY <1>1, <1>2, <1>3 DEF Interrupt, irq_handle, PicInv

(* The main thread goes on only when no interrupt is pending. *)
LEMMA AtRest ==
  ASSUME PicInv, Main, Served
  PROVE  requested = {}
<1>1. /\ IF_flag /\ unmasked = {0, 1} /\ in_service = {}
      /\ requested \subseteq {0, 1}
  BY DEF PicInv, Served, Running, Waiting
<1>2. ASSUME NEW l \in requested, \A k \in requested : k >= l
      PROVE  FALSE
  <2>1. l \in Line /\ Input(l) = l
    BY <1>1 DEF Line, Input
  <2>2. Deliverable(l)
    BY <1>1, <1>2, <2>1 DEF Deliverable, FirstPic
  <2>. QED
    BY <1>1, <2>1, <2>2 DEF Main
<1>3. CASE 0 \in requested
  BY <1>1, <1>2, <1>3
<1>4. CASE 0 \notin requested /\ 1 \in requested
  BY <1>1, <1>2, <1>4
<1>. QED
  BY <1>1, <1>3, <1>4

(* An edge asks for an interrupt only when a byte has come. *)
LEMMA EdgeAdds ==
  ASSUME Edge
  PROVE  /\ requested' \in {requested, requested \cup {1}}
         /\ 1 \in requested' => 1 \in requested \/ output' # None
         /\ output = None /\ output' # None /\ irq_on' => 1 \in requested'
  BY DEF Edge

LEMMA PicStep ==
  ASSUME PicInv, [Next]_vars
  PROVE  PicInv'
<1>. USE DEF Served, Running, Waiting
<1>1. CASE Main
  <2>1. CASE Start
    BY <2>1 DEF Start, Goto, PicInv, picVars
  <2>2. CASE InitPic
    BY <2>2 DEF InitPic, Goto, pic_init, unmask_irq, remap, PicInv
  <2>3. CASE InitTimer
    BY <2>3 DEF InitTimer, Goto, irq_install_handler, PicInv
  <2>4. CASE Sti
    BY <2>4 DEF Sti, Goto, PicInv, picVars
  <2>5. CASE InitPs2
    BY <2>5 DEF InitPs2, Goto, PicInv, picVars
  <2>6. CASE kb_init
    BY <2>6 DEF kb_init, Goto, irq_install_handler, PicInv
  <2>7. CASE Frame
    BY <2>7 DEF Frame, Goto, PicInv, picVars
  <2>8. CASE Test
    BY <2>8 DEF Test, Goto, PicInv, picVars
  <2>9. CASE Hlt
    BY <2>9 DEF Hlt, Goto, PicInv, picVars
  <2>. QED
    BY <1>1, <2>1, <2>2, <2>3, <2>4, <2>5, <2>6, <2>7, <2>8, <2>9 DEF Main
<1>2. ASSUME NEW l \in Line, Interrupt(l)
      PROVE  PicInv'
  <2>1. /\ requested' = requested \ {l} /\ in_service' = {}
        /\ UNCHANGED <<unmasked, irq_routines>>
    BY <1>2, Served1
  <2>2. IF_flag' = IF_flag /\ pc' = IF pc = "halted" THEN "test" ELSE pc
    BY <1>2 DEF Interrupt
  <2>. QED
    BY <2>1, <2>2 DEF PicInv
<1>3. CASE Pulse
  BY <1>3 DEF Pulse, mainVars, PicInv
<1>4. CASE Controller
  BY <1>4, EdgeAdds DEF Controller, Obey, mainVars, PicInv
<1>5. CASE Key
  BY <1>5, EdgeAdds DEF Key, SendKey, mainVars, PicInv
<1>6. CASE UNCHANGED vars
  BY <1>6 DEF vars, picVars, mainVars, PicInv
<1>. QED
  BY <1>1, <1>2, <1>3, <1>4, <1>5, <1>6 DEF Next, Interrupts

-----------------------------------------------------------------------------
(* Types. *)

(* The handler is called for a byte, and takes it away. *)
LEMMA Handler ==
  ASSUME PicInv, KeyInv, NEW l \in Line, Interrupt(l)
  PROVE  \/ /\ l = 1 /\ Running /\ output # None /\ kb_handler
            /\ UNCHANGED timerVars
         \/ l = 0 /\ UNCHANGED <<ps2Vars, histories>>
                  /\ (UNCHANGED timerVars \/ timer_handler)
         \/ l = 1 /\ ~Running /\ UNCHANGED <<ps2Vars, histories, timerVars>>
<1>1. l \in {0, 1} /\ l \in requested
  BY Served1
<1>2. CASE l = 0
  BY <1>1, <1>2 DEF Interrupt
<1>3. CASE l = 1 /\ Running
  BY <1>1, <1>3 DEF Interrupt, PicInv, KeyInv
<1>4. CASE l = 1 /\ ~Running
  BY <1>1, <1>4 DEF Interrupt, PicInv
<1>. QED
  BY <1>1, <1>2, <1>3, <1>4

LEMMA Answered ==
  ASSUME Obey
  PROVE  output' = output \/ (output = None /\ output' \in Answer)
<1>1. \/ output' = output
      \/ output = None /\ \E S \in {{"config"}, {"pass", "fail"}, {"ack"}} :
                            output' \in S \X {0}
  BY DEF Obey, Answers
<1>2. ASSUME NEW S \in {{"config"}, {"pass", "fail"}, {"ack"}}
      PROVE  S \X {0} \subseteq Answer
  BY <1>2 DEF Answer
<1>. QED
  BY <1>1, <1>2

LEMMA TypeStep ==
  ASSUME TypeOK, PicInv, KeyInv, [Next]_vars
  PROVE  TypeOK'
<1>. USE DEF TypeOK
<1>1. CASE Main
  <2>1. CASE Start
    BY <2>1 DEF Start, Goto, picVars, ps2Vars, timerVars
  <2>2. CASE InitPic
    BY <2>2 DEF InitPic, Goto, pic_init, unmask_irq, remap, Line, ps2Vars,
                timerVars, histories
  <2>3. CASE InitTimer
    BY <2>3 DEF InitTimer, Goto, irq_install_handler, ps2Vars, timerVars,
                histories
  <2>4. CASE Sti
    BY <2>4 DEF Sti, Goto, picVars, ps2Vars, timerVars, histories
  <2>5. CASE InitPs2
    <3>1. /\ input' \in {None} \cup Written
          /\ step' \in 1 .. Len(ps2_init) + 1
          /\ output' \in {output, None}
          /\ UNCHANGED <<port_on, irq_on, pressed>>
      <4>1. Write \/ Flush \/ Read
        BY <2>5 DEF InitPs2
      <4>2. Len(ps2_init) = 12 /\ step \in 1 .. 13
        BY ProgramLength
      <4>3. step \in 1 .. 12 => ps2_init[step][2] \in Written
        BY WrittenWords
      <4>4. CASE Write
        BY <4>2, <4>3, <4>4 DEF Write, Do
      <4>5. CASE Flush
        BY <4>2, <4>5 DEF Flush, Do
      <4>6. CASE Read
        BY <4>2, <4>6 DEF Read, Do
      <4>. QED
        BY <4>1, <4>4, <4>5, <4>6
    <3>. QED
      BY <2>5, <3>1 DEF InitPs2, Goto, picVars, timerVars, histories
  <2>6. CASE kb_init
    BY <2>6 DEF kb_init, Goto, irq_install_handler, ps2Vars, timerVars,
                histories
  <2>7. CASE Frame
    <3>1. eticks' \in 0 .. WordMod - 1 /\ elapsed' \in Nat /\ UNCHANGED timer_ticks
      BY <2>7, Constants DEF Frame, wait
    <3>. QED
      BY <2>7, <3>1 DEF Frame, Goto, picVars, ps2Vars, histories
  <2>8. CASE Test
    BY <2>8 DEF Test, Goto, picVars, ps2Vars, timerVars, histories
  <2>9. CASE Hlt
    BY <2>9 DEF Hlt, Goto, picVars, ps2Vars, timerVars, histories
  <2>. QED
    BY <1>1, <2>1, <2>2, <2>3, <2>4, <2>5, <2>6, <2>7, <2>8, <2>9 DEF Main
<1>2. ASSUME NEW l \in Line, Interrupt(l)
      PROVE  TypeOK'
  <2>1. /\ requested' = requested \ {l} /\ in_service' = {}
        /\ UNCHANGED <<unmasked, irq_routines>>
    BY <1>2, Served1
  <2>2. IF_flag' = IF_flag /\ pc' = IF pc = "halted" THEN "test" ELSE pc
    BY <1>2 DEF Interrupt
  <2>3. /\ timer_ticks' \in 0 .. WordMod - 1 /\ elapsed' \in Nat
        /\ UNCHANGED eticks
    BY <1>2, Handler, Constants DEF timer_handler, timerVars
  <2>4. /\ output' \in {output, None} /\ handled' \in Seq(Answer \cup KeyByte)
        /\ UNCHANGED <<input, port_on, irq_on, step, pressed, sent, early, faulty>>
    BY <1>2, Handler DEF kb_handler, ps2Vars, histories
  <2>. QED
    BY <2>1, <2>2, <2>3, <2>4
<1>3. CASE Pulse
  <2>1. requested' \subseteq Line
    BY <1>3 DEF Pulse, Line
  <2>. QED
    BY <1>3, <2>1 DEF Pulse, ps2Vars, timerVars, mainVars, histories
<1>4. CASE Controller
  <2>1. requested' \subseteq Line
    <3>1. requested' \in {requested, requested \cup {1}}
      BY <1>4, EdgeAdds DEF Controller, Obey
    <3>2. 1 \in Line
      BY DEF Line
    <3>. QED
      BY <3>1, <3>2
  <2>2. output' \in {None} \cup Answer \cup KeyByte
    BY <1>4, Answered DEF Controller
  <2>3. /\ input' = None /\ port_on' \in BOOLEAN /\ irq_on' \in BOOLEAN
        /\ UNCHANGED <<step, pressed>>
    BY <1>4 DEF Controller, Obey
  <2>4. faulty' \in BOOLEAN
    BY <1>4 DEF Controller
  <2>5. UNCHANGED <<unmasked, in_service, irq_routines, timerVars, mainVars,
                    handled, sent, early>>
    BY <1>4 DEF Controller
  <2>. QED
    BY <2>1, <2>2, <2>3, <2>4, <2>5 DEF timerVars, mainVars
<1>5. CASE Key
  <2>1. requested' \subseteq Line
    <3>1. requested' \in {requested, requested \cup {1}}
      BY <1>5, EdgeAdds DEF Key, SendKey
    <3>2. 1 \in Line
      BY DEF Line
    <3>. QED
      BY <3>1, <3>2
  <2>2. output' \in KeyByte /\ pressed' \in 0 .. MaxKeys
    BY <1>5, Ps2Assumption DEF Key, SendKey, KeyByte
  <2>3. sent' \in Seq(KeyByte) /\ early' \in BOOLEAN
    BY <1>5, <2>2 DEF Key
  <2>. QED
    BY <1>5, <2>1, <2>2, <2>3 DEF Key, SendKey, timerVars, mainVars
<1>6. CASE UNCHANGED vars
  BY <1>6 DEF vars, picVars, ps2Vars, timerVars, mainVars, histories
<1>. QED
  BY <1>1, <1>2, <1>3, <1>4, <1>5, <1>6 DEF Next, Interrupts

-----------------------------------------------------------------------------
(* The waits. *)

(* A tick takes one from what is left, and may wrap the count around. *)
LEMMA TickKeeps ==
  ASSUME TimeInv, Waiting, timer_handler
  PROVE  eticks' - timer_ticks' \in {ticks - elapsed', ticks - elapsed' + WordMod,
                                     ticks - elapsed' - WordMod}
<1>. DEFINE h == WordMod \div 2
<1>1. /\ h \in Nat \ {0} /\ WordMod = 2 * h /\ WordMod \in Nat \ {0}
      /\ ticks \in Nat /\ ticks < h /\ Slack < h /\ Slack \in Nat
  BY Constants
<1>2. /\ elapsed \in Nat /\ elapsed <= Slack + 1
      /\ timer_ticks \in 0 .. WordMod - 1 /\ eticks \in 0 .. WordMod - 1
      /\ eticks - timer_ticks \in {ticks - elapsed, ticks - elapsed + WordMod,
                                   ticks - elapsed - WordMod}
  BY <1>1 DEF TimeInv, TicksRequested, Word
<1>. HIDE DEF h
<1>3. timer_ticks' = IF timer_ticks = WordMod - 1 THEN 0 ELSE timer_ticks + 1
  <2>1. timer_ticks' = (timer_ticks + 1) % WordMod
    BY DEF timer_handler
  <2>2. CASE timer_ticks = WordMod - 1
    <3>. DEFINE sum == timer_ticks + 1
    <3>1. sum \in Int /\ sum \in WordMod .. 2 * WordMod - 1
      BY <1>1, <1>2, <2>2
    <3>. HIDE DEF sum
    <3>2. sum % WordMod = sum - WordMod
      BY <1>1, <3>1, Wrap
    <3>. USE DEF sum
    <3>. QED
      BY <1>1, <2>1, <2>2, <3>2
  <2>3. CASE timer_ticks # WordMod - 1
    <3>1. timer_ticks + 1 \in 0 .. WordMod - 1
      BY <1>1, <1>2, <2>3
    <3>2. (timer_ticks + 1) % WordMod = timer_ticks + 1
      BY <1>1, <3>1, Wrap
    <3>. QED
      BY <2>1, <2>3, <3>2
  <2>. QED
    BY <2>2, <2>3
<1>4. eticks' = eticks /\ elapsed' = elapsed + 1
  BY DEF timer_handler
<1>. QED
  BY <1>1, <1>2, <1>3, <1>4

(* A wait begins with all its ticks left. *)
LEMMA WaitBegins ==
  ASSUME TimeInv, wait
  PROVE  /\ eticks' \in Word /\ elapsed' = 0 /\ timer_ticks' = timer_ticks
         /\ eticks' - timer_ticks' \in {ticks, ticks - WordMod}
<1>1. /\ WordMod \in Nat \ {0} /\ ticks \in 0 .. WordMod - 1
  BY Constants
<1>2. timer_ticks \in 0 .. WordMod - 1
  BY DEF TimeInv, Word
<1>3. /\ eticks' = (timer_ticks + ticks) % WordMod
      /\ elapsed' = 0 /\ timer_ticks' = timer_ticks
  BY DEF wait
<1>4. CASE timer_ticks + ticks \in 0 .. WordMod - 1
  <2>1. (timer_ticks + ticks) % WordMod = timer_ticks + ticks
    BY <1>1, <1>4, Wrap
  <2>. QED
    BY <1>1, <1>2, <1>3, <1>4, <2>1 DEF Word
<1>5. CASE timer_ticks + ticks \in WordMod .. 2 * WordMod - 1
  <2>. DEFINE sum == timer_ticks + ticks
  <2>1. sum % WordMod = sum - WordMod
    <3>1. sum \in Int /\ sum \in WordMod .. 2 * WordMod - 1
      BY <1>1, <1>2, <1>5
    <3>. HIDE DEF sum
    <3>. QED
      BY <1>1, <3>1, Wrap
  <2>. QED
    BY <1>1, <1>2, <1>3, <1>5, <2>1 DEF Word
<1>. QED
  BY <1>1, <1>2, <1>4, <1>5

LEMMA TimeStep ==
  ASSUME TypeOK, PicInv, TimeInv, KeyInv, [Next]_vars
  PROVE  TimeInv'
<1>0. /\ ticks \in Nat /\ Slack \in Nat /\ MaxLag \in Nat
      /\ ticks <= Slack /\ MaxLag <= Slack /\ WordMod \in Nat
  <2>1. ticks \in Nat /\ MaxLag \in Nat /\ WordMod \in Nat
    BY Constants
  <2>. QED
    BY <2>1 DEF Slack
(* Before the main loop nobody waits. *)
<1>1. ASSUME UNCHANGED timerVars, 0 \in requested' => 0 \in requested,
             ~Waiting', pc' # "hlt", pc' # "halted"
      PROVE  TimeInv'
  <2>1. elapsed' + TicksRequested' <= Slack + 1
    BY <1>0, <1>1 DEF TimeInv, TicksRequested, timerVars
  <2>. QED
    BY <1>1, <2>1 DEF TimeInv, timerVars
(* An interrupt or a device that is not the timer changes nothing here. *)
<1>2. ASSUME UNCHANGED timerVars, 0 \in requested' <=> 0 \in requested,
             pc' = pc \/ (pc = "halted" /\ pc' = "test")
      PROVE  TimeInv'
  <2>1. TicksRequested' = TicksRequested
    BY <1>2 DEF TicksRequested
  <2>2. Waiting' = Waiting
    BY <1>2 DEF Waiting
  <2>. QED
    BY <1>2, <2>1, <2>2 DEF TimeInv, timerVars
<1>3. CASE Main
  <2>1. CASE Start \/ InitPic \/ InitTimer \/ Sti \/ InitPs2 \/ kb_init
    <3>1. UNCHANGED timerVars /\ ~Waiting' /\ pc' # "hlt" /\ pc' # "halted"
      BY <2>1 DEF Start, InitPic, InitTimer, Sti, InitPs2, kb_init, Goto, Waiting
    <3>2. 0 \in requested' => 0 \in requested
      BY <2>1 DEF Start, InitPic, pic_init, InitTimer, Sti, InitPs2, kb_init,
                  picVars
    <3>. QED
      BY <1>1, <3>1, <3>2
  <2>2. ASSUME Frame \/ Test \/ Hlt
        PROVE  requested = {} /\ requested' = {}
    <3>1. Served /\ UNCHANGED requested
      BY <2>2 DEF Frame, Test, Hlt, Goto, Served, Running, Waiting, picVars
    <3>. QED
      BY <1>3, <3>1, AtRest
  <2>3. CASE Frame
    <3>1. /\ eticks' \in Word /\ elapsed' = 0 /\ timer_ticks' = timer_ticks
          /\ eticks' - timer_ticks' \in {ticks, ticks - WordMod}
      BY <2>3, WaitBegins DEF Frame
    <3>2. pc' = "test" /\ TicksRequested' = 0
      BY <2>2, <2>3 DEF Frame, Goto, TicksRequested
    <3>. QED
      BY <1>0, <3>1, <3>2 DEF TimeInv, Waiting
  <2>4. CASE Test
    <3>1. MustWait => elapsed < ticks
      BY <2>4, WaitIsExact DEF WaitExact, Test, Goto, Waiting
    <3>2. /\ UNCHANGED timerVars /\ pc = "test" /\ TicksRequested' = 0
          /\ \/ MustWait /\ pc' = "hlt"
             \/ pc' = "frame"
      BY <2>2, <2>4 DEF Test, Goto, TicksRequested
    <3>3. CASE pc' = "frame"
      BY <1>1, <2>2, <2>4, <3>2, <3>3 DEF Waiting
    <3>4. CASE MustWait /\ pc' = "hlt"
      BY <1>0, <3>1, <3>2, <3>4 DEF TimeInv, Waiting, timerVars
    <3>. QED
      BY <3>2, <3>3, <3>4
  <2>5. CASE Hlt
    <3>1. /\ UNCHANGED timerVars /\ pc = "hlt" /\ pc' = "halted"
          /\ TicksRequested' = 0 /\ TicksRequested = 0
      BY <2>2, <2>5 DEF Hlt, Goto, TicksRequested
    <3>. QED
      BY <1>0, <3>1 DEF TimeInv, Waiting, timerVars
  <2>. QED
    BY <1>3, <2>1, <2>3, <2>4, <2>5 DEF Main
<1>4. ASSUME NEW l \in Line, Interrupt(l)
      PROVE  TimeInv'
  <2>1. l \in {0, 1} /\ l \in requested /\ requested' = requested \ {l}
    BY <1>4, Served1
  <2>2. pc' = IF pc = "halted" THEN "test" ELSE pc
    BY <1>4 DEF Interrupt
  <2>3. CASE l = 1
    <3>1. UNCHANGED timerVars
      BY <1>4, <2>3, Handler
    <3>. QED
      BY <1>2, <2>1, <2>2, <2>3, <3>1
  <2>4. CASE l = 0 /\ UNCHANGED timerVars
    <3>1. /\ TicksRequested = 1 /\ TicksRequested' = 0
          /\ pc' # "halted" /\ Waiting' = Waiting /\ (pc' = "hlt" => pc = "hlt")
      BY <2>1, <2>2, <2>4 DEF TicksRequested, Waiting
    <3>. QED
      BY <1>0, <2>4, <3>1 DEF TimeInv, timerVars
  <2>5. CASE l = 0 /\ timer_handler
    <3>1. /\ TicksRequested = 1 /\ TicksRequested' = 0
          /\ pc' # "halted" /\ Waiting' = Waiting /\ (pc' = "hlt" => pc = "hlt")
      BY <2>1, <2>2, <2>5 DEF TicksRequested, Waiting
    <3>2. timer_ticks' \in Word /\ elapsed' = elapsed + 1 /\ eticks' = eticks
      BY <2>5, Constants DEF timer_handler, TimeInv, Word
    <3>3. Waiting => eticks' - timer_ticks' \in
                       {ticks - elapsed', ticks - elapsed' + WordMod,
                        ticks - elapsed' - WordMod}
      BY <2>5, TickKeeps
    <3>. QED
      BY <1>0, <3>1, <3>2, <3>3 DEF TimeInv
  <2>. QED
    BY <1>4, <2>1, <2>3, <2>4, <2>5, Handler
<1>5. CASE Pulse
  <2>1. /\ UNCHANGED timerVars /\ pc' = pc /\ 0 \in requested'
        /\ TicksRequested = 0 /\ TicksRequested' = 1 /\ Waiting' = Waiting
        /\ elapsed < MaxLag \/ pc = "halted"
        /\ 0 \notin requested
    BY <1>5 DEF Pulse, mainVars, TicksRequested, Waiting
  <2>. QED
    BY <1>0, <2>1 DEF TimeInv, timerVars
<1>6. CASE Controller \/ Key
  <2>1. /\ UNCHANGED timerVars /\ pc' = pc
        /\ requested' \in {requested, requested \cup {1}}
    BY <1>6, EdgeAdds DEF Controller, Obey, Key, SendKey, mainVars
  <2>. QED
    BY <1>2, <2>1
<1>7. CASE UNCHANGED vars
  BY <1>2, <1>7 DEF vars, picVars, mainVars
<1>. QED
  BY <1>3, <1>4, <1>5, <1>6, <1>7 DEF Next, Interrupts

-----------------------------------------------------------------------------
(* The dialogue with the controller. *)

LEMMA NoneIsNoWord ==
  None \notin {"disable_first_port", "disable_second_port", "read_config",
               "write_config", "config", "self_test", "enable_first_port",
               "enable_scanning"}
<1>1. \A i \in 1 .. 12 : ps2_init[i][2] # None
  BY WrittenWords, Ps2Assumption
<1>2. /\ ps2_init[1][2] = "disable_first_port"
      /\ ps2_init[2][2] = "disable_second_port"
      /\ ps2_init[4][2] = "read_config" /\ ps2_init[6][2] = "write_config"
      /\ ps2_init[7][2] = "config" /\ ps2_init[8][2] = "self_test"
      /\ ps2_init[10][2] = "enable_first_port"
      /\ ps2_init[11][2] = "enable_scanning"
  BY Program
<1>. QED
  BY <1>1, <1>2

LEMMA WhatIsWritten ==
  ASSUME Write, step \in 1 .. 13
  PROVE  /\ input = None /\ step' = step + 1
         /\ UNCHANGED <<output, port_on, irq_on>>
         /\ \/ step = 1 /\ input' = "disable_first_port"
            \/ step = 2 /\ input' = "disable_second_port"
            \/ step = 4 /\ input' = "read_config"
            \/ step = 6 /\ input' = "write_config"
            \/ step = 7 /\ input' = "config"
            \/ step = 8 /\ input' = "self_test"
            \/ step = 10 /\ input' = "enable_first_port"
            \/ step = 11 /\ input' = "enable_scanning"
<1>1. /\ step \in 1 .. 12 /\ ps2_init[step][1] = "write"
      /\ input' = ps2_init[step][2]
  BY ProgramLength DEF Write, Do
<1>. QED
  BY <1>1, Program DEF Write

LEMMA WhatIsFlushed ==
  ASSUME Flush, step \in 1 .. 13
  PROVE  /\ step = 3 /\ UNCHANGED <<input, port_on, irq_on>>
         /\ \/ step' = 3
            \/ step' = 4 /\ output' = None
<1>1. step \in 1 .. 12 /\ ps2_init[step][1] = "flush"
  BY ProgramLength DEF Flush, Do
<1>2. step = 3
  BY <1>1, Program
<1>. QED
  BY <1>2 DEF Flush

LEMMA WhatIsRead ==
  ASSUME Read, step \in 1 .. 13
  PROVE  /\ step \in {5, 9, 12} /\ step' = step + 1
         /\ output # None /\ output' = None
         /\ UNCHANGED <<input, port_on, irq_on>>
         /\ TestFails => step = 9
<1>1. step \in 1 .. 12 /\ ps2_init[step][1] = "read"
  BY ProgramLength DEF Read, Do
<1>2. step \in {5, 9, 12} /\ (ps2_init[step][2] = "result" => step = 9)
  BY <1>1, Program
<1>. QED
  BY <1>2 DEF Read, TestFails

(* A step of ps2::init leads from one line of the dialogue to the next. *)
LEMMA DialogueGoesOn ==
  ASSUME Ps2Inv, Write \/ Flush \/ Read, pc = "ps2", UNCHANGED <<early, faulty>>
  PROVE  /\ step' \in 1 .. 13
         /\ Setup' /\ (~early' => Dialogue')
<1>1. step \in 1 .. 13 /\ ~Running
  BY DEF Ps2Inv, Running, Waiting
<1>2. CASE Write
  <2>1. /\ input = None /\ step' = step + 1
        /\ UNCHANGED <<output, port_on, irq_on>>
        /\ \/ step = 1 /\ input' = "disable_first_port"
           \/ step = 2 /\ input' = "disable_second_port"
           \/ step = 4 /\ input' = "read_config"
           \/ step = 6 /\ input' = "write_config"
           \/ step = 7 /\ input' = "config"
           \/ step = 8 /\ input' = "self_test"
           \/ step = 10 /\ input' = "enable_first_port"
           \/ step = 11 /\ input' = "enable_scanning"
    BY <1>1, <1>2, WhatIsWritten
  <2>2. Setup'
    BY <2>1, NoneIsNoWord DEF Ps2Inv, Setup
  <2>3. ASSUME ~early  PROVE Dialogue'
    BY <2>1, <2>3, NoneIsNoWord DEF Ps2Inv, Dialogue
  <2>. QED
    BY <2>1, <2>2, <2>3
<1>3. CASE Flush
  <2>1. /\ step = 3 /\ UNCHANGED <<input, port_on, irq_on>>
        /\ \/ step' = 3
           \/ step' = 4 /\ output' = None
    BY <1>1, <1>3, WhatIsFlushed
  <2>. QED
    BY <2>1 DEF Ps2Inv, Setup, Dialogue
<1>4. CASE Read
  <2>1. /\ step \in {5, 9, 12} /\ step' = step + 1
        /\ output # None /\ output' = None
        /\ UNCHANGED <<input, port_on, irq_on>>
    BY <1>1, <1>4, WhatIsRead
  <2>2. Setup'
    BY <2>1 DEF Setup
  <2>3. ASSUME ~early  PROVE Dialogue'
    <3>1. Dialogue
      BY <2>3 DEF Ps2Inv
    <3>2. CASE step = 5
      BY <2>1, <3>1, <3>2 DEF Dialogue
    <3>3. CASE step = 9
      BY <2>1, <3>1, <3>3 DEF Dialogue
    <3>4. CASE step = 12
      BY <2>1, <3>1, <3>4 DEF Dialogue
    <3>. QED
      BY <2>1, <3>2, <3>3, <3>4
  <2>. QED
    BY <2>1, <2>2, <2>3
<1>. QED
  BY <1>2, <1>3, <1>4

(* What the controller does with each byte written to it. *)
LEMMA WhatIsObeyed ==
  ASSUME Obey
  PROVE  /\ input # None /\ input' = None /\ UNCHANGED step
         /\ irq_on => irq_on'
         /\ input \notin {"config", "enable_first_port"} /\ ~port_on => ~port_on'
         /\ input = "disable_first_port" => ~port_on'
         /\ input = "config" => irq_on'
         /\ input \notin {"read_config", "self_test", "enable_scanning"}
              => output' = output
         /\ input = "read_config" => output' = <<"config", 0>>
         /\ input = "self_test" => output' \in {<<"pass", 0>>, <<"fail", 0>>}
         /\ input = "enable_scanning" => output' = <<"ack", 0>>
<1>1. \A a, x : x \in {a} \X {0} => x = <<a, 0>>
  OBVIOUS
<1>2. input = "read_config" => output' \in {"config"} \X {0}
  BY DEF Obey, Answers
<1>3. input = "self_test" => \/ output' \in {"pass"} \X {0}
                             \/ output' \in {"fail"} \X {0}
  BY DEF Obey, Answers
<1>4. input = "enable_scanning" => output' \in {"ack"} \X {0}
  BY DEF Obey, Answers
<1>5. input \notin {"read_config", "self_test", "enable_scanning"}
        => output' = output
  BY DEF Obey
<1>6. /\ input # None /\ input' = None /\ UNCHANGED step
      /\ irq_on => irq_on'
      /\ input = "config" => irq_on'
  BY DEF Obey
<1>7. /\ input \notin {"config", "enable_first_port"} /\ ~port_on => ~port_on'
      /\ input = "disable_first_port" => ~port_on'
  BY DEF Obey
<1>. QED
  BY <1>1, <1>2, <1>3, <1>4, <1>5, <1>6, <1>7

LEMMA DialogueAnswered ==
  ASSUME Ps2Inv, Controller
  PROVE  Setup' /\ (~early' => Dialogue')
<1>1. /\ Obey /\ early' = early /\ (faulty \/ output' = <<"fail", 0>> => faulty')
      /\ pc' = pc /\ step \in 1 .. 13
  BY DEF Controller, mainVars, Ps2Inv
<1>2. Running' = Running
  BY <1>1 DEF Running, Waiting
<1>3. Setup'
  BY <1>1, WhatIsObeyed DEF Ps2Inv, Setup
<1>4. ASSUME ~early  PROVE Dialogue'
  <2>1. Dialogue
    BY <1>4 DEF Ps2Inv
  <2>2. CASE step \in 1 .. 4
    BY <1>1, <2>1, <2>2, WhatIsObeyed DEF Dialogue
  <2>3. CASE step = 5
    BY <1>1, <2>1, <2>3, WhatIsObeyed DEF Dialogue
  <2>4. CASE step \in {6, 7}
    BY <1>1, <2>1, <2>4, WhatIsObeyed DEF Dialogue
  <2>5. CASE step = 8
    BY <1>1, <2>1, <2>5, WhatIsObeyed DEF Dialogue
  <2>6. CASE step = 9
    BY <1>1, <2>1, <2>6, WhatIsObeyed DEF Dialogue
  <2>7. CASE step \in {10, 11}
    BY <1>1, <2>1, <2>7, WhatIsObeyed DEF Dialogue
  <2>8. CASE step = 12
    BY <1>1, <2>1, <2>8, WhatIsObeyed DEF Dialogue
  <2>9. CASE step = 13
    BY <1>1, <2>1, <2>9, WhatIsObeyed DEF Dialogue
  <2>. QED
    BY <1>1, <2>2, <2>3, <2>4, <2>5, <2>6, <2>7, <2>8, <2>9
<1>. QED
  BY <1>1, <1>3, <1>4

LEMMA DialogueKept ==
  ASSUME Ps2Inv, UNCHANGED <<output, input, port_on, irq_on, step, early>>,
         faulty => faulty', Running => Running'
  PROVE  Setup' /\ (~early' => Dialogue')
<1>1. Setup'
  BY DEF Ps2Inv, Setup
<1>2. ASSUME ~early  PROVE Dialogue'
  <2>1. Dialogue
    BY <1>2 DEF Ps2Inv
  <2>. QED
    BY <2>1 DEF Dialogue
<1>. QED
  BY <1>1, <1>2

LEMMA Ps2Step ==
  ASSUME TypeOK, PicInv, Ps2Inv, KeyInv, [Next]_vars
  PROVE  Ps2Inv'
<1>0. step \in 1 .. 13
  BY DEF Ps2Inv
<1>1. CASE Start \/ InitPic \/ InitTimer \/ Sti \/ kb_init \/ Frame \/ Test \/ Hlt
  <2>1. UNCHANGED <<output, input, port_on, irq_on, step, early>>
    BY <1>1 DEF Start, InitPic, InitTimer, Sti, kb_init, Frame, Test, Hlt,
                ps2Vars, histories
  <2>2. (faulty => faulty') /\ (Running => Running')
    BY <1>1 DEF Start, InitPic, InitTimer, Sti, kb_init, Frame, Test, Hlt, Goto,
                histories, Running, Waiting
  <2>3. Setup' /\ (~early' => Dialogue')
    BY <2>1, <2>2, DialogueKept
  <2>4. /\ Starting' => Starting
        /\ pc' = "ps2" => Starting
        /\ pc' = "kb_init" \/ Running' => pc = "kb_init" \/ Running
    BY <1>1 DEF Start, InitPic, InitTimer, Sti, kb_init, Frame, Test, Hlt, Goto,
                Starting, Running, Waiting
  <2>. QED
    BY <1>0, <2>1, <2>3, <2>4 DEF Ps2Inv
<1>2. CASE InitPs2
  <2>1. /\ Write \/ Flush \/ Read
        /\ pc = "ps2" /\ UNCHANGED <<early, faulty>>
        /\ \/ pc' = "panic"
           \/ pc' = "ps2" /\ step' <= Len(ps2_init)
           \/ pc' = "kb_init" /\ step' > Len(ps2_init)
    BY <1>2 DEF InitPs2, Goto, histories
  <2>2. step' \in 1 .. 13 /\ Setup' /\ (~early' => Dialogue')
    BY <2>1, DialogueGoesOn
  <2>. QED
    BY <2>1, <2>2, ProgramLength DEF Ps2Inv, Starting, Running, Waiting
<1>3. ASSUME NEW l \in Line, Interrupt(l)
      PROVE  Ps2Inv'
  <2>1. pc' = IF pc = "halted" THEN "test" ELSE pc
    BY <1>3 DEF Interrupt
  <2>2. /\ Running' = Running /\ Starting' = Starting
        /\ (pc' = "ps2" <=> pc = "ps2") /\ (pc' = "kb_init" <=> pc = "kb_init")
    BY <2>1 DEF Running, Waiting, Starting
  <2>3. CASE UNCHANGED <<ps2Vars, histories>>
    <3>1. Setup' /\ (~early' => Dialogue')
      BY <2>2, <2>3, DialogueKept DEF ps2Vars, histories
    <3>. QED
      BY <1>0, <2>2, <2>3, <3>1 DEF Ps2Inv, ps2Vars
  <2>4. CASE Running /\ kb_handler
    <3>1. step = 13 /\ UNCHANGED <<input, irq_on, port_on, step, early>>
      BY <2>4 DEF kb_handler, Ps2Inv
    <3>2. Setup'
      BY <3>1 DEF Setup
    <3>3. ~early => Dialogue'
      BY <2>2, <2>4, <3>1 DEF Ps2Inv, Dialogue
    <3>. QED
      BY <2>2, <3>1, <3>2, <3>3 DEF Ps2Inv
  <2>. QED
    BY <1>3, <2>3, <2>4, Handler
<1>4. CASE Pulse
  <2>1. /\ UNCHANGED <<output, input, port_on, irq_on, step, early, faulty>>
        /\ pc' = pc
    BY <1>4 DEF Pulse, ps2Vars, mainVars, histories
  <2>2. Running' = Running /\ Starting' = Starting
    BY <2>1 DEF Running, Waiting, Starting
  <2>3. Setup' /\ (~early' => Dialogue')
    BY <2>1, <2>2, DialogueKept
  <2>. QED
    BY <1>0, <2>1, <2>2, <2>3 DEF Ps2Inv
<1>5. CASE Controller
  <2>1. pc' = pc /\ step' = step
    BY <1>5 DEF Controller, Obey, mainVars
  <2>2. Running' = Running /\ Starting' = Starting
    BY <2>1 DEF Running, Waiting, Starting
  <2>3. Setup' /\ (~early' => Dialogue')
    BY <1>5, DialogueAnswered
  <2>. QED
    BY <1>0, <2>1, <2>2, <2>3 DEF Ps2Inv
<1>6. CASE Key
  <2>1. /\ pc' = pc /\ UNCHANGED <<input, port_on, irq_on, step, faulty>>
        /\ ~early' => ~early /\ (~Flushed \/ 1 \in irq_routines)
    BY <1>6 DEF Key, SendKey, mainVars
  <2>2. Running' = Running /\ Starting' = Starting
    BY <2>1 DEF Running, Waiting, Starting
  <2>3. Setup'
    BY <2>1 DEF Ps2Inv, Setup
  <2>4. ASSUME ~early'  PROVE Dialogue'
    <3>1. ~early /\ (step <= 3 \/ Running)
      BY <1>0, <2>1, <2>4 DEF PicInv, Flushed
    <3>2. step <= 3 \/ (step = 13 /\ Running /\ irq_on /\ input = None)
      BY <3>1 DEF Ps2Inv, Dialogue
    <3>. QED
      BY <1>0, <2>1, <2>2, <3>2 DEF Dialogue
  <2>. QED
    BY <1>0, <2>1, <2>2, <2>3, <2>4 DEF Ps2Inv
<1>7. CASE UNCHANGED vars
  <2>1. /\ UNCHANGED <<output, input, port_on, irq_on, step, early, faulty>>
        /\ pc' = pc
    BY <1>7 DEF vars, ps2Vars, mainVars, histories
  <2>2. Running' = Running /\ Starting' = Starting
    BY <2>1 DEF Running, Waiting, Starting
  <2>3. Setup' /\ (~early' => Dialogue')
    BY <2>1, <2>2, DialogueKept
  <2>. QED
    BY <1>0, <2>1, <2>2, <2>3 DEF Ps2Inv
<1>. QED
  BY <1>1, <1>2, <1>3, <1>4, <1>5, <1>6, <1>7 DEF Next, Main, Interrupts

-----------------------------------------------------------------------------
(* The keys. *)

(* No step of the main thread touches the history of the keys, and a boot  *)
(* comes to the main loop with an empty output buffer and no interrupt     *)
(* pending, unless a key was too early.                                    *)
LEMMA KeysOfMain ==
  ASSUME TypeOK, PicInv, Ps2Inv, KeyInv, PanicJustified, Main
  PROVE  KeyInv'
<1>1. UNCHANGED <<handled, sent, early>>
  BY DEF Main, Start, InitPic, InitTimer, Sti, InitPs2, kb_init, Frame, Test,
         Hlt, histories
<1>2. CASE kb_init
  <2>1. /\ pc = "kb_init" /\ ~Running /\ Running'
        /\ UNCHANGED <<requested, output>>
    BY <1>2 DEF kb_init, Goto, Running, Waiting, ps2Vars
  <2>2. requested' = {}
    BY <2>1, AtRest DEF Served
  <2>3. handled = <<>> /\ sent = <<>>
    BY <2>1 DEF KeyInv
  <2>4. ~early => output = None
    BY <2>1 DEF Ps2Inv, Dialogue
  <2>5. <<>> \o <<>> = <<>>
    BY EmptySeq, ConcatEmptySeq
  <2>. QED
    BY <1>1, <2>1, <2>2, <2>3, <2>4, <2>5 DEF KeyInv, KeysInOrder
<1>3. CASE Start \/ InitPic \/ InitTimer \/ Sti \/ InitPs2
  <2>1. ~Running /\ ~Running'
    BY <1>3 DEF Start, InitPic, InitTimer, Sti, InitPs2, Goto, Running, Waiting
  <2>. QED
    BY <1>1, <2>1 DEF KeyInv, KeysInOrder
<1>4. CASE Frame \/ Test \/ Hlt
  <2>1. Running /\ Running' /\ UNCHANGED <<requested, output>>
    BY <1>4 DEF Frame, Test, Hlt, Goto, Running, Waiting, picVars, ps2Vars
  <2>. QED
    BY <1>1, <2>1 DEF KeyInv, KeysInOrder
<1>. QED
  BY <1>2, <1>3, <1>4 DEF Main

(* A byte handled goes from the buffer to the end of what was handled. *)
LEMMA KeyHandled ==
  ASSUME TypeOK, PicInv, KeyInv, NEW l \in Line, Interrupt(l)
  PROVE  KeyInv'
<1>1. requested' = requested \ {l}
  BY Served1
<1>2. Running' = Running
  BY DEF Interrupt, Running, Waiting
<1>3. CASE /\ UNCHANGED <<ps2Vars, histories>>
           /\ l = 0 \/ ~Running
  <2>1. UNCHANGED <<output, handled, sent, early>>
    BY <1>3 DEF ps2Vars, histories
  <2>2. Running /\ 1 \in requested => 1 \in requested'
    BY <1>1, <1>3
  <2>3. KeysInOrder'
    BY <1>2, <1>3, <2>1, <2>2 DEF KeyInv, KeysInOrder
  <2>. QED
    BY <1>1, <1>2, <2>1, <2>3 DEF KeyInv
<1>4. CASE l = 1 /\ Running /\ output # None /\ kb_handler
  <2>1. /\ handled' = Append(handled, output) /\ output' = None
        /\ UNCHANGED <<sent, early>>
    BY <1>4 DEF kb_handler
  <2>2. /\ output \in Answer \cup KeyByte
        /\ handled \in Seq(Answer \cup KeyByte)
    BY <1>4 DEF TypeOK
  <2>. HIDE DEF Answer, KeyByte
  <2>3. Append(handled, output) \o <<>> = handled \o <<output>>
    <3>1. /\ Append(handled, output) = handled \o <<output>>
          /\ Append(handled, output) \in Seq(Answer \cup KeyByte)
      BY <2>2, AppendIsConcat, AppendProperties
    <3>. QED
      BY <3>1, ConcatEmptySeq
  <2>4. KeysInOrder'
    BY <1>2, <1>4, <2>1, <2>3 DEF KeyInv, KeysInOrder
  <2>. QED
    BY <1>1, <1>2, <1>4, <2>1, <2>4 DEF KeyInv
<1>. QED
  BY <1>3, <1>4, Handler

(* A byte sent goes to the buffer, and asks for its interrupt. *)
LEMMA KeySent ==
  ASSUME TypeOK, PicInv, Ps2Inv, KeyInv, Key
  PROVE  KeyInv'
<1>1. /\ output = None /\ output' \in KeyByte /\ output' # None
      /\ pc' = pc /\ UNCHANGED <<handled, irq_on>> /\ Edge
  <2>1. output = None /\ pc' = pc /\ UNCHANGED <<handled, irq_on>> /\ Edge
    BY DEF Key, SendKey, mainVars
  <2>2. output' \in KeyByte
    BY Ps2Assumption DEF Key, SendKey, TypeOK, KeyByte
  <2>. QED
    BY <2>1, <2>2, Ps2Assumption
<1>2. Running' = Running
  BY <1>1 DEF Running, Waiting
<1>3. /\ 1 \in irq_routines <=> Running
      /\ ~Running => sent' = sent
      /\ Running => sent' = Append(sent, output')
      /\ ~early' => ~early
  BY DEF PicInv, Key
<1>4. ASSUME Running, ~early'
      PROVE  /\ handled' \o <<output'>> = sent'
             /\ 1 \in requested'
  <2>1. ~early /\ irq_on
    BY <1>3, <1>4 DEF Ps2Inv, Dialogue
  <2>2. 1 \in requested'
    BY <1>1, <2>1, EdgeAdds
  <2>3. handled \o <<>> = sent
    BY <1>1, <1>4, <2>1 DEF KeyInv, KeysInOrder
  <2>4. handled \o <<>> = handled
    BY ConcatEmptySeq DEF TypeOK
  <2>5. Append(sent, output') = sent \o <<output'>>
    BY <1>1, AppendIsConcat DEF TypeOK
  <2>. QED
    BY <1>1, <1>3, <1>4, <2>2, <2>3, <2>4, <2>5
<1>. QED
  BY <1>1, <1>2, <1>3, <1>4 DEF KeyInv, KeysInOrder

LEMMA KeyStep ==
  ASSUME TypeOK, PicInv, Ps2Inv, KeyInv, PanicJustified, [Next]_vars
  PROVE  KeyInv'
<1>1. CASE Pulse
  <2>1. /\ UNCHANGED <<output, handled, sent, early>> /\ pc' = pc
        /\ requested' = requested \cup {0}
    BY <1>1 DEF Pulse, ps2Vars, mainVars, histories
  <2>2. Running' = Running
    BY <2>1 DEF Running, Waiting
  <2>. QED
    BY <2>1, <2>2 DEF KeyInv, KeysInOrder
<1>2. CASE Controller
  <2>1. /\ UNCHANGED <<handled, sent, early>> /\ pc' = pc
        /\ output' = output \/ (output = None /\ output' # None)
        /\ input # None
    BY <1>2, Answered, Ps2Assumption DEF Controller, Obey, mainVars
  <2>2. Running' = Running
    BY <2>1 DEF Running, Waiting
  <2>3. Running => early
    BY <2>1 DEF Ps2Inv, Dialogue
  <2>4. 1 \in requested' => 1 \in requested \/ output' # None
    BY <1>2, EdgeAdds DEF Controller, Obey
  <2>. QED
    BY <2>1, <2>2, <2>3, <2>4 DEF KeyInv, KeysInOrder
<1>3. CASE UNCHANGED vars
  <2>1. /\ UNCHANGED <<output, handled, sent, early, requested>> /\ pc' = pc
    BY <1>3 DEF vars, picVars, ps2Vars, mainVars, histories
  <2>2. Running' = Running
    BY <2>1 DEF Running, Waiting
  <2>. QED
    BY <2>1, <2>2 DEF KeyInv, KeysInOrder
<1>. QED
  BY <1>1, <1>2, <1>3, KeysOfMain, KeyHandled, KeySent DEF Next, Interrupts

(* ps2::init gives up when the self-test did not pass, and without a key   *)
(* in the way that is a failure of the controller.                         *)
LEMMA PanicStep ==
  ASSUME Ps2Inv, PanicJustified, [Next]_vars
  PROVE  PanicJustified'
<1>1. (faulty => faulty') /\ (early => early')
  <2>1. CASE Main
    BY <2>1 DEF Main, Start, InitPic, InitTimer, Sti, InitPs2, kb_init, Frame,
                Test, Hlt, histories
  <2>2. CASE \E l \in Line : Interrupt(l)
    BY <2>2 DEF Interrupt, kb_handler, histories
  <2>3. CASE Pulse \/ UNCHANGED vars
    BY <2>3 DEF Pulse, vars, histories
  <2>4. CASE Controller
    BY <2>4 DEF Controller
  <2>5. CASE Key
    BY <2>5 DEF Key
  <2>. QED
    BY <2>1, <2>2, <2>3, <2>4, <2>5 DEF Next, Interrupts
<1>2. ASSUME pc' = "panic"
      PROVE  pc = "panic" \/ faulty' \/ early
  <2>1. CASE Start
    BY <1>2, <2>1 DEF Start, Goto
  <2>2. CASE InitPs2
    <3>1. TestFails /\ pc = "ps2"
      BY <1>2, <2>2 DEF InitPs2, Goto
    <3>2. step \in 1 .. 13
      BY DEF Ps2Inv
    <3>3. Do("read")
      BY <3>1 DEF TestFails
    <3>4. Read
      BY <2>2, <3>2, <3>3, Program, ProgramLength DEF InitPs2, Write, Flush, Do
    <3>5. step = 9 /\ output # None /\ output # <<"pass", 0>>
      BY <3>1, <3>2, <3>4, WhatIsRead DEF TestFails
    <3>. QED
      BY <1>1, <3>5 DEF Ps2Inv, Dialogue
  <2>3. CASE \E l \in Line : Interrupt(l)
    BY <1>2, <2>3 DEF Interrupt
  <2>4. CASE Pulse \/ Controller \/ Key \/ UNCHANGED vars
    BY <1>2, <2>4 DEF Pulse, Controller, Key, vars, mainVars
  <2>5. CASE InitPic \/ InitTimer \/ Sti \/ kb_init \/ Frame \/ Test \/ Hlt
    BY <1>2, <2>5 DEF InitPic, InitTimer, Sti, kb_init, Frame, Test, Hlt, Goto
  <2>. QED
    BY <2>1, <2>2, <2>3, <2>4, <2>5 DEF Next, Main, Interrupts
<1>. QED
  BY <1>1, <1>2 DEF PanicJustified

-----------------------------------------------------------------------------
(* The theorems. *)

LEMMA InitInv == Init => IInv
<1>. SUFFICES ASSUME Init  PROVE IInv
  OBVIOUS
<1>. USE DEF Init, PicInit, Ps2Init, TimerInit
<1>1. ~Running /\ ~Waiting
  BY DEF Running, Waiting
<1>2. TypeOK
  <2>1. 0 \in 0 .. WordMod - 1 /\ 0 \in 0 .. MaxKeys
    BY Constants, Ps2Assumption
  <2>2. output \in {None} \cup Answer \cup KeyByte
    BY DEF Answer
  <2>3. 1 \in 1 .. Len(ps2_init) + 1
    BY ProgramLength
  <2>4. <<>> \in Seq(Answer \cup KeyByte) /\ <<>> \in Seq(KeyByte)
    BY EmptySeq
  <2>. QED
    BY <2>1, <2>2, <2>3, <2>4 DEF TypeOK
<1>3. PicInv
  BY <1>1 DEF PicInv, Served
<1>4. TimeInv
  <2>1. Slack \in Nat /\ 0 \in Word
    BY Constants DEF Word
  <2>. QED
    BY <1>1, <2>1 DEF TimeInv, TicksRequested
<1>5. Ps2Inv
  BY <1>1 DEF Ps2Inv, Starting, Setup, Dialogue
<1>6. KeyInv /\ PanicJustified
  BY <1>1 DEF KeyInv, KeysInOrder, PanicJustified
<1>. QED
  BY <1>2, <1>3, <1>4, <1>5, <1>6 DEF IInv

(* The invariant that holds it all together. *)
LEMMA Invariance == Spec => []IInv
<1>1. IInv /\ [Next]_vars => IInv'
  BY TypeStep, PicStep, TimeStep, Ps2Step, KeyStep, PanicStep DEF IInv
<1>. QED
  BY InitInv, <1>1, PTL DEF Spec

(* The buffers and registers hold what they can hold, the history of the   *)
(* keys is of bytes.                                                       *)
THEOREM TypeCorrect == Spec => []TypeOK
<1>1. IInv => TypeOK
  BY DEF IInv
<1>. QED
  BY Invariance, <1>1, PTL

(* The wait of a frame, timer.cpp, goes on exactly while its ticks have    *)
(* not gone by, for every word size, length of a frame and lag.            *)
THEOREM WaitCorrect == Spec => []WaitExact
<1>1. IInv => WaitExact
  BY WaitIsExact DEF IInv
<1>. QED
  BY Invariance, <1>1, PTL

(* ps2::init and kmain give up only when a device has failed or a key was  *)
(* pressed in the middle of the dialogue with the controller.              *)
THEOREM PanicCorrect == Spec => []PanicJustified
<1>1. IInv => PanicJustified
  BY DEF IInv
<1>. QED
  BY Invariance, <1>1, PTL

(* The keyboard's bytes reach kb_handler once each and in order, unless    *)
(* one came too early, however many there are.                             *)
THEOREM KeysCorrect == Spec => []KeysInOrder
<1>1. IInv => KeysInOrder
  BY DEF IInv, KeyInv
<1>. QED
  BY Invariance, <1>1, PTL
=============================================================================
