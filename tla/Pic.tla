-------------------------------- MODULE Pic --------------------------------
(***************************************************************************)
(* The two interrupt controllers (external) and what the kernel does with  *)
(* them: kernel/src/driver/pic.cpp, and the stubs of arch/x86_64/irq.asm   *)
(* that lead to its irq_handle.  Lines 0 .. 7 belong to the first, lines   *)
(* 8 .. 15 to the second, which reports to line 2 of the first.            *)
(***************************************************************************)
EXTENDS Integers

CASCADE_IRQ == 2
Line == 0 .. 15

VARIABLES
  unmasked,      (* The lines let through.                                 *)
  requested,     (* The lines with an edge that was not served yet.        *)
  in_service,    (* The lines served and not acknowledged.                 *)
  irq_routines   (* The lines with a handler.                              *)

picVars == <<unmasked, requested, in_service, irq_routines>>

(* The boot loader masks every line before it starts the kernel. *)
PicInit ==
  /\ unmasked = {} /\ requested = {} /\ in_service = {}
  /\ irq_routines = {}

FirstPic(S) == {l \in S : l < 8}

(* The line at the first controller through which line l is served. *)
Input(l) == IF l < 8 THEN l ELSE CASCADE_IRQ

(* A line is served unless it is masked or one that goes before it, or the *)
(* line itself, is in service.                                             *)
Deliverable(l) ==
  /\ l \in requested \cap unmasked /\ Input(l) \in unmasked
  /\ \A k \in FirstPic(in_service) : Input(l) < k
  /\ \A k \in in_service \ FirstPic(in_service) : l >= 8 => l < k
  /\ \A k \in requested \cap unmasked : k >= l

unmask_irq(S, l) == S \cup {l}

(* remap: the controllers are programmed anew and get back their masks,    *)
(* but for the timer's.                                                    *)
remap(S) == S \cup {0}

(* Mutant: the masks are written back as they were. *)
pic_init_KeyboardOnly ==
  /\ unmasked' = unmask_irq(unmasked, 1)
  /\ requested' = {} /\ in_service' = {}
  /\ UNCHANGED irq_routines

(* pic::init; programming the controllers makes them forget old edges.     *)
pic_init ==
  /\ unmasked' = unmask_irq(remap(unmasked), 1)
  /\ requested' = {} /\ in_service' = {}
  /\ UNCHANGED irq_routines

irq_install_handler(l) == irq_routines' = irq_routines \cup {l}

(* An end of interrupt, at the first controller, is for the line in        *)
(* service that goes first.                                                *)
EOI(S) == S \ {l \in FirstPic(S) : \A k \in FirstPic(S) : l <= k}

(* Mutant: the end of interrupt is sent only after a handler has run. *)
irq_handle_OnlyHandled(l) ==
  /\ requested' = requested \ {l}
  /\ in_service' = LET served == in_service \cup {l, Input(l)}
                   IN IF l \in irq_routines THEN EOI(served) ELSE served
  /\ UNCHANGED <<unmasked, irq_routines>>

(* irq_handle, without the handler it calls: the processor takes the line  *)
(* off, and the first controller gets its end of interrupt.                *)
irq_handle(l) ==
  /\ requested' = requested \ {l}
  /\ in_service' = EOI(in_service \cup {l, Input(l)})
  /\ UNCHANGED <<unmasked, irq_routines>>
=============================================================================
