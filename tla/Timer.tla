------------------------------- MODULE Timer --------------------------------
(***************************************************************************)
(* kernel/src/driver/timer.cpp: the tick count and the waits of the main   *)
(* loop.  Of the 64-bit count, wait looks at the low 32 bits only, and     *)
(* those are modelled.                                                     *)
(***************************************************************************)
EXTENDS Integers

CONSTANTS
  WordMod,       (* The number of uint32_t values (2^32).                  *)
  FRAME_MS,      (* What kmain waits in a frame (10).                      *)
  MaxLag         (* Bound: ticks from the start of a wait to the next time *)
                 (* the main thread looks at the count.                    *)

(* The milliseconds of a tick at the 100 Hz that kmain asks for.           *)
TICK_MS == 10
ticks == FRAME_MS \div TICK_MS

ASSUME TimerAssumption ==
  /\ FRAME_MS \in Nat
  /\ MaxLag \in Nat
  /\ WordMod \in Nat \ {0} /\ WordMod % 2 = 0
  /\ MaxLag < WordMod \div 2
  /\ ticks < WordMod \div 2

VARIABLES
  timer_ticks,   (* The low word of the count.                             *)
  eticks,        (* wait's local: when to return.                          *)
  elapsed        (* History: the ticks since the wait began.               *)

timerVars == <<timer_ticks, eticks, elapsed>>

TimerInit ==
  /\ timer_ticks = 0 /\ eticks = 0 /\ elapsed = 0

(* What a uint32_t means as an int32_t. *)
Signed(u) == IF u < WordMod \div 2 THEN u ELSE u - WordMod

timer_handler ==
  /\ timer_ticks' = (timer_ticks + 1) % WordMod
  /\ elapsed' = elapsed + 1
  /\ UNCHANGED eticks

(* Mutant: the sum is kept in more than 32 bits. *)
wait_Wide ==
  /\ eticks' = timer_ticks + ticks
  /\ elapsed' = 0
  /\ UNCHANGED timer_ticks

wait ==
  /\ eticks' = (timer_ticks + ticks) % WordMod
  /\ elapsed' = 0
  /\ UNCHANGED timer_ticks

(* Mutant: the count is compared instead of the difference. *)
MustWait_Compare == eticks > timer_ticks

MustWait == Signed((eticks - timer_ticks) % WordMod) > 0
=============================================================================
