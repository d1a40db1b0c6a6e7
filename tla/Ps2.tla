-------------------------------- MODULE Ps2 ---------------------------------
(***************************************************************************)
(* ps2::init of kernel/src/driver/ps2/ps2.cpp, and the keyboard controller *)
(* (external) that it talks to.  The waits for the controller poll its     *)
(* status: a step is taken when they are over.                             *)
(***************************************************************************)
EXTENDS Pic, Sequences

CONSTANTS
  None,          (* Nothing in a buffer.                                   *)
  MaxKeys        (* Bound: bytes of keys that the keyboard sends.          *)

(* What may be in the output buffer: an answer of the controller or of the *)
(* keyboard to the kernel, or a byte of a key, numbered as they are sent.  *)
Answer == {"config", "pass", "fail", "ack"} \X {0}
KeyByte == {"key"} \X (1 .. MaxKeys)

VARIABLES
  output,        (* The byte for the kernel to read, or None.              *)
  input,         (* The byte the kernel wrote last, or None.               *)
  port_on,       (* Is the keyboard's clock enabled?                       *)
  irq_on,        (* Does a byte in output raise line 1?                    *)
  step,          (* Where ps2::init is.                                    *)
  pressed        (* How many bytes of keys the keyboard has sent.          *)

ps2Vars == <<output, input, port_on, irq_on, step, pressed>>

(* Mutant: the flush of the output buffer is left out. *)
ps2_init_NoFlush ==
  << <<"write", "disable_first_port">>,
     <<"write", "disable_second_port">>,
     <<"write", "read_config">>,
     <<"read", "config">>,
     <<"write", "write_config">>,
     <<"write", "config">>,
     <<"write", "self_test">>,
     <<"read", "result">>,
     <<"write", "enable_first_port">>,
     <<"write", "enable_scanning">>,
     <<"read", "ack">> >>

(* Mutant: the keyboard's acknowledgement is left unread. *)
ps2_init_NoAck ==
  << <<"write", "disable_first_port">>,
     <<"write", "disable_second_port">>,
     <<"flush", "output">>,
     <<"write", "read_config">>,
     <<"read", "config">>,
     <<"write", "write_config">>,
     <<"write", "config">>,
     <<"write", "self_test">>,
     <<"read", "result">>,
     <<"write", "enable_first_port">>,
     <<"write", "enable_scanning">> >>

(* What ps2::init does, in its order.  The configuration it writes enables *)
(* the interrupt and the clock of the keyboard, whatever it has read.      *)
ps2_init ==
  << <<"write", "disable_first_port">>,
     <<"write", "disable_second_port">>,
     <<"flush", "output">>,
     <<"write", "read_config">>,
     <<"read", "config">>,
     <<"write", "write_config">>,
     <<"write", "config">>,
     <<"write", "self_test">>,
     <<"read", "result">>,
     <<"write", "enable_first_port">>,
     <<"write", "enable_scanning">>,
     <<"read", "ack">> >>

Flushed == step > 3

Written == {ps2_init[i][2] : i \in DOMAIN ps2_init}

ASSUME Ps2Assumption ==
  /\ MaxKeys \in Nat
  /\ None \notin Answer \cup KeyByte \cup Written

(* The boot loader and the firmware before it used the keyboard: its port  *)
(* may be on, and a byte may be left.                                      *)
Ps2Init ==
  /\ output \in {None, <<"ack", 0>>} /\ input = None
  /\ port_on \in BOOLEAN /\ irq_on \in BOOLEAN
  /\ step = 1 /\ pressed = 0

(* A byte that comes to be in output, with interrupts enabled, is an edge  *)
(* on line 1.                                                              *)
Edge ==
  requested' = IF ~(output # None /\ irq_on) /\ (output' # None /\ irq_on')
               THEN requested \cup {1} ELSE requested

-----------------------------------------------------------------------------
(* The steps of ps2::init. *)

Do(kind) == step <= Len(ps2_init) /\ ps2_init[step][1] = kind

Write ==
  /\ Do("write") /\ input = None
  /\ input' = ps2_init[step][2]
  /\ step' = step + 1
  /\ UNCHANGED <<output, port_on, irq_on, pressed>>

Flush ==
  /\ Do("flush")
  /\ \/ output # None /\ output' = None /\ UNCHANGED step
     \/ output = None /\ step' = step + 1 /\ UNCHANGED output
  /\ UNCHANGED <<input, port_on, irq_on, pressed>>

TestFails == Do("read") /\ ps2_init[step][2] = "result" /\ output # <<"pass", 0>>

Read ==
  /\ Do("read") /\ output # None
  /\ output' = None
  /\ step' = step + 1
  /\ UNCHANGED <<input, port_on, irq_on, pressed>>

-----------------------------------------------------------------------------
(* The controller and the keyboard. *)

Answers(S) == output = None /\ output' \in S \X {0}

(* The controller carries out the byte in its input buffer. *)
Obey ==
  /\ input # None /\ input' = None
  /\ CASE input = "read_config" -> Answers({"config"})
       [] input = "self_test" -> Answers({"pass", "fail"})
       [] input = "enable_scanning" -> Answers({"ack"})
       [] OTHER -> UNCHANGED output
  /\ port_on' = CASE input = "disable_first_port" -> FALSE
                  [] input \in {"config", "enable_first_port"} -> TRUE
                  [] OTHER -> port_on
  /\ irq_on' = (irq_on \/ input = "config")
  /\ Edge
  /\ UNCHANGED <<step, pressed>>

SendKey ==
  /\ port_on /\ output = None /\ pressed < MaxKeys
  /\ pressed' = pressed + 1 /\ output' = <<"key", pressed + 1>>
  /\ UNCHANGED <<input, port_on, irq_on, step>>
  /\ Edge
=============================================================================
