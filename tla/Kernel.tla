------------------------------- MODULE Kernel -------------------------------
(***************************************************************************)
(* kmain of kernel/src/kernel/main.cpp: the boot and the main loop, with   *)
(* the interrupts of the timer and the keyboard between any two of its     *)
(* steps.  A handler runs behind an interrupt gate on the only processor,  *)
(* so it is one step, and the processor takes an interrupt before it goes  *)
(* on with the main thread.                                                *)
(***************************************************************************)
EXTENDS Ps2, Timer

VARIABLES
  pc,            (* Where the main thread is.                              *)
  IF_flag,       (* Does the processor take interrupts?                    *)
  handled,       (* History: the bytes that kb_handler read.               *)
  sent,          (* History: the bytes the keyboard sent since kb_init.    *)
  early,         (* History: was one sent after ps2::init had flushed the  *)
                 (* buffer and before kb_init?                             *)
  faulty         (* History: has a device failed?                          *)

mainVars == <<pc, IF_flag>>
histories == <<handled, sent, early, faulty>>
vars == <<picVars, ps2Vars, timerVars, mainVars, histories>>

Init ==
  /\ PicInit /\ Ps2Init /\ TimerInit
  /\ pc = "start" /\ IF_flag = FALSE
  /\ handled = <<>> /\ sent = <<>> /\ early = FALSE /\ faulty = FALSE

-----------------------------------------------------------------------------
(* Interrupts and devices. *)

(* Interrupt line 1: the byte is read and put into the ring (Keyboard).    *)
kb_handler ==
  /\ handled' = Append(handled, output)
  /\ output' = None
  /\ UNCHANGED <<input, port_on, irq_on, step, pressed, sent, early, faulty>>

(* An interrupt, which also wakes the processor from a halt. *)
Interrupt(l) ==
  /\ IF_flag /\ Deliverable(l)
  /\ irq_handle(l)
  /\ IF l = 0 /\ l \in irq_routines THEN timer_handler
                                    ELSE UNCHANGED timerVars
  /\ IF l = 1 /\ l \in irq_routines THEN kb_handler
                                    ELSE UNCHANGED <<ps2Vars, histories>>
  /\ pc' = IF pc = "halted" THEN "test" ELSE pc
  /\ UNCHANGED IF_flag

(* The timer chip, which never stops.  Its ticks are bounded only while    *)
(* the main thread is slow to look at the count.                           *)
Pulse ==
  /\ 0 \notin requested
  /\ elapsed < MaxLag \/ pc = "halted"
  /\ requested' = requested \cup {0}
  /\ UNCHANGED <<unmasked, in_service, irq_routines, ps2Vars, timerVars,
                 mainVars, histories>>

Controller ==
  /\ Obey
  /\ faulty' = (faulty \/ output' = <<"fail", 0>>)
  /\ UNCHANGED <<unmasked, in_service, irq_routines, timerVars, mainVars,
                 handled, sent, early>>

Key ==
  /\ SendKey
  /\ sent' = IF 1 \in irq_routines THEN Append(sent, output') ELSE sent
  /\ early' = (early \/ (Flushed /\ 1 \notin irq_routines))
  /\ UNCHANGED <<unmasked, in_service, irq_routines, timerVars, mainVars,
                 handled, faulty>>

-----------------------------------------------------------------------------
(* The main thread. *)

Goto(from, to) == pc = from /\ pc' = to

(* kmain's first lines, up to the interrupt table: it panics without the   *)
(* framebuffer or boot protocol it needs.                                  *)
Start ==
  /\ \/ Goto("start", "pic") /\ UNCHANGED faulty
     \/ Goto("start", "panic") /\ faulty' = TRUE
  /\ UNCHANGED <<picVars, ps2Vars, timerVars, IF_flag, handled, sent, early>>

InitPic ==
  /\ Goto("pic", "timer") /\ pic_init
  /\ UNCHANGED <<ps2Vars, timerVars, IF_flag, histories>>

(* Mutant: kb_init is called before ps2::init. *)
InitTimer_KeyboardToo ==
  /\ Goto("timer", "sti")
  /\ irq_routines' = irq_routines \cup {0, 1}
  /\ UNCHANGED <<unmasked, requested, in_service, ps2Vars, timerVars, IF_flag,
                 histories>>

InitTimer ==
  /\ Goto("timer", "sti")
  /\ irq_install_handler(0)
  /\ UNCHANGED <<unmasked, requested, in_service, ps2Vars, timerVars, IF_flag,
                 histories>>

Sti ==
  /\ Goto("sti", "ps2") /\ IF_flag' = TRUE
  /\ UNCHANGED <<picVars, ps2Vars, timerVars, histories>>

InitPs2 ==
  /\ Write \/ Flush \/ Read
  /\ \/ TestFails /\ Goto("ps2", "panic")
     \/ ~TestFails /\ step' <= Len(ps2_init) /\ Goto("ps2", "ps2")
     \/ ~TestFails /\ step' > Len(ps2_init) /\ Goto("ps2", "kb_init")
  /\ UNCHANGED <<picVars, timerVars, IF_flag, histories>>

kb_init ==
  /\ Goto("kb_init", "frame")
  /\ irq_install_handler(1)
  /\ UNCHANGED <<unmasked, requested, in_service, ps2Vars, timerVars, IF_flag,
                 histories>>

(* A frame: the keys in the ring, the game, the screen; then wait_ms.      *)
Frame ==
  /\ Goto("frame", "test") /\ wait
  /\ UNCHANGED <<picVars, ps2Vars, IF_flag, histories>>

Test ==
  /\ \/ MustWait /\ Goto("test", "hlt")
     \/ ~MustWait /\ Goto("test", "frame")
  /\ UNCHANGED <<picVars, ps2Vars, timerVars, IF_flag, histories>>

Hlt ==
  /\ Goto("hlt", "halted")
  /\ UNCHANGED <<picVars, ps2Vars, timerVars, IF_flag, histories>>

Main ==
  /\ ~\E l \in Line : IF_flag /\ Deliverable(l)
  /\ \/ Start \/ InitPic \/ InitTimer \/ Sti \/ InitPs2 \/ kb_init
     \/ Frame \/ Test \/ Hlt

Interrupts == \E l \in Line : Interrupt(l)

Next == Main \/ Interrupts \/ Pulse \/ Controller \/ Key

Spec == Init /\ [][Next]_vars

(* The processor runs, the timer chip ticks and the controller answers.    *)
(* The keyboard owes nobody a key.                                         *)
FairSpec ==
  /\ Spec
  /\ WF_vars(Main) /\ WF_vars(Interrupts)
  /\ WF_vars(Pulse) /\ WF_vars(Controller)

-----------------------------------------------------------------------------
Waiting == pc \in {"test", "hlt", "halted"}
Running == Waiting \/ pc = "frame"

TypeOK ==
  /\ unmasked \subseteq Line /\ requested \subseteq Line
  /\ in_service \subseteq Line /\ irq_routines \subseteq {0, 1}
  /\ output \in {None} \cup Answer \cup KeyByte
  /\ input \in {None} \cup Written
  /\ port_on \in BOOLEAN /\ irq_on \in BOOLEAN
  /\ step \in 1 .. Len(ps2_init) + 1 /\ pressed \in 0 .. MaxKeys
  /\ timer_ticks \in 0 .. WordMod - 1 /\ eticks \in 0 .. WordMod - 1
  /\ elapsed \in Nat
  /\ pc \in {"start", "pic", "timer", "sti", "ps2", "kb_init", "frame", "test",
             "hlt", "halted", "panic"}
  /\ IF_flag \in BOOLEAN /\ early \in BOOLEAN /\ faulty \in BOOLEAN
  /\ handled \in Seq(Answer \cup KeyByte) /\ sent \in Seq(KeyByte)

(* The test of wait tells whether its ticks have gone by, also when the    *)
(* 32 bits it looks at wrap around, and however many ticks came since.     *)
WaitExact == Waiting => (MustWait <=> elapsed < ticks)

(* Once kb_init has installed the handler, each byte of the keyboard is    *)
(* read by it once and in order, unless one was sent too early; what it    *)
(* has not read is in the output buffer, with its interrupt requested.     *)
KeysInOrder ==
  Running /\ ~early =>
    /\ handled \o (IF output = None THEN <<>> ELSE <<output>>) = sent
    /\ output # None => 1 \in requested

(* The kernel gives up only when a device fails or a key is pressed while  *)
(* the controller is being set up, which ps2::init takes for a failure.    *)
PanicJustified == pc = "panic" => faulty \/ early

(* The boot ends, in the main loop or a panic: no wait for the controller  *)
(* lasts for ever, though interrupts are on that nobody handles yet.       *)
BootEnds == <>(Running \/ pc = "panic")

(* A frame's wait ends, also when the tick it waits for comes between its  *)
(* test and the hlt instruction.                                           *)
FramesGoOn == (pc = "test") ~> (pc = "frame")

(* Every byte sent after a boot without an early key is handled. *)
KeysHandled ==
  \A n \in 1 .. MaxKeys : (Len(sent) >= n /\ ~early) ~> (Len(handled) >= n)

(* keyboard.hpp:63 says of kb_init: "Register interrupt on channel 1 for   *)
(* handling keypresses".  So from then on a byte of the keyboard has its   *)
(* interrupt.                                                              *)
KeysInterrupt == Running /\ output # None => 1 \in requested
=============================================================================
