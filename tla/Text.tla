-------------------------------- MODULE Text --------------------------------
(***************************************************************************)
(* Everything the kernel says: vformat's passes and blocks (lib/format.cpp)*)
(* as Logger::vlog (lib/log.cpp), serial::printf, Tetris::draw, panic      *)
(* (kernel/system.cpp) and fault_handler use them.  All of it is in        *)
(* kernel/src.  One thread runs, and a text of the main loop is not        *)
(* interrupted by another, since no interrupt handler makes one.           *)
(***************************************************************************)
EXTENDS Heap, Format

CONSTANTS
  FirstCap,      (* The size of vformat's first block (128).               *)
  FramebufferSizes,
  StackDepth,    (* How many panics one inside the other the stack holds.  *)
  Requests,      (* The texts asked for by each caller:                    *)
                 (* [format, args, text], the last being what should come  *)
                 (* of it, or None.                                        *)
  None

ASSUME TextAssumption ==
  /\ FirstCap \in Nat \ {0} /\ StackDepth \in Nat \ {0}
  /\ FramebufferSizes \subseteq Nat \ {0}
  /\ DOMAIN Requests = {"draw", "log", "panic", "fault"}
  /\ \A who \in DOMAIN Requests : \A r \in Requests[who] :
       DOMAIN r = {"format", "args", "text"} /\ r.format \in Seq(Char)
  /\ {"%", "s", "[", "]", " ", "^", "\n", "L", "O", "u", "t", "!"} \subseteq Char

VARIABLES
  pc,            (* What is being done.                                    *)
  caller,        (* For whom.                                              *)
  todo,          (* The texts that the caller has still to make.           *)
  request,       (* The format and the arguments it was called with.       *)
  body,          (* vlog's local.                                          *)
  buf, cap,      (* vformat's locals.                                      *)
  framebuffer_size,
  vga_buffer,    (* Is there a buffer to draw in?                          *)
  depth,         (* How many panics are on the stack.                      *)
  tries,         (* History: the blocks taken for a text.                  *)
  watched        (* History: where one of the blocks is, any one.          *)

drawVars == <<framebuffer_size, vga_buffer>>
callVars == <<caller, todo, request, body, depth>>
vars == <<heap_ptr, formatVars, pc, callVars, buf, cap, drawVars, tries,
          watched>>

(* The texts of a caller.  vlog makes its message, a line for the serial   *)
(* port and one for the screen; a fault is told in ten such (here, two).   *)
vlog == <<"body", "serial", "line">>
Texts ==
  [draw |-> <<"text">>, log |-> vlog, panic |-> <<"text">> \o vlog,
   fault |-> vlog \o vlog]

OutOfMemory ==
  [format |-> <<"O", "u", "t", "!">>, args |-> <<>>,
   text |-> <<"O", "u", "t", "!">>]

Init ==
  /\ HeapInit
  /\ format = <<>> /\ ap = <<>> /\ mode = "text" /\ width = 0 /\ flags = {}
  /\ out = <<>>
  /\ pc = "start" /\ caller = None /\ todo = <<>>
  /\ request = None /\ body = <<>> /\ depth = 0
  /\ buf = 0 /\ cap = 0
  /\ framebuffer_size = 0 /\ vga_buffer = FALSE
  /\ tries = 0 /\ watched = None

(* The format and the arguments of the text that is next.  panic logs its  *)
(* message as a format.                                                    *)
Job ==
  CASE Head(todo) = "serial" ->
         [format |-> <<"%", "s", "[", "%", "s", "]", " ", "%", "s", "^", "\n">>,
          args |-> <<<<"^">>, <<"L">>, body>>]
    [] Head(todo) = "line" ->
         [format |-> <<"[", "%", "s", "]", " ", "%", "s", "\n">>,
          args |-> <<<<"L">>, body>>]
    [] Head(todo) = "body" /\ caller = "panic" ->
         [format |-> body, args |-> <<>>]
    [] OTHER -> [format |-> request.format, args |-> request.args]

-----------------------------------------------------------------------------
Enter(who, r) ==
  /\ caller' = who /\ request' = r /\ todo' = Texts[who]
  /\ pc' = "malloc" /\ cap' = FirstCap /\ tries' = 0
  /\ depth' = IF who = "panic" THEN depth + 1 ELSE depth

(* kmain can only panic before there is a framebuffer.  A fault comes at   *)
(* any time and does not return.                                           *)
Call ==
  /\ \/ pc = "start" /\ \E r \in Requests["panic"] : Enter("panic", r)
     \/ pc = "idle" /\ \E who \in DOMAIN Texts \ {"fault"} :
                         \E r \in Requests[who] : Enter(who, r)
     \/ /\ pc \in {"idle", "malloc", "pass"} /\ caller # "fault"
        /\ \E r \in Requests["fault"] : Enter("fault", r)
  /\ UNCHANGED <<heap_ptr, formatVars, body, buf, drawVars, watched>>

fb_init ==
  /\ pc = "start"
  /\ framebuffer_size' \in FramebufferSizes
  /\ \/ /\ Fits(framebuffer_size') /\ malloc(framebuffer_size')
        /\ vga_buffer' = TRUE /\ pc' = "idle"
        /\ watched' \in {watched, [at |-> 0, size |-> framebuffer_size']}
        /\ UNCHANGED <<caller, request, todo, depth, cap, tries>>
     \/ /\ ~Fits(framebuffer_size')
        /\ Enter("panic", OutOfMemory)
        /\ UNCHANGED <<heap_ptr, vga_buffer, watched>>
  /\ UNCHANGED <<formatVars, body, buf>>

(* vformat takes a block and starts a pass. *)
TakeBlock ==
  /\ pc = "malloc" /\ Fits(cap)
  /\ malloc(cap) /\ buf' = align_up(heap_ptr)
  /\ Begin(Job.format, Job.args)
  /\ pc' = "pass" /\ tries' = tries + 1
  /\ watched' \in {watched, [at |-> buf', size |-> cap]}
  /\ UNCHANGED <<callVars, cap, drawVars>>

(* malloc panics when there is no room.  panic starts with a text, too, so *)
(* it comes here again, until the stack is used up.                        *)
Exhausted ==
  /\ pc = "malloc" /\ ~Fits(cap)
  /\ \/ depth < StackDepth /\ Enter("panic", OutOfMemory)
     \/ /\ depth = StackDepth /\ pc' = "crashed"
        /\ UNCHANGED <<caller, todo, request, depth, cap, tries>>
  /\ UNCHANGED <<heap_ptr, formatVars, body, buf, drawVars, watched>>

PassStep ==
  /\ pc = "pass" /\ Pass
  /\ UNCHANGED <<heap_ptr, pc, callVars, buf, cap, drawVars, tries, watched>>

(* Mutant: no room is made for the NUL. *)
Retry_NoNul ==
  /\ pc = "pass" /\ Passed /\ Len(out) >= cap
  /\ free /\ cap' = Len(out)
  /\ pc' = "malloc"
  /\ UNCHANGED <<formatVars, callVars, buf, drawVars, tries, watched>>

(* The text was longer than its block: one that is long enough is taken.   *)
Retry ==
  /\ pc = "pass" /\ Passed /\ Len(out) >= cap
  /\ free /\ cap' = Len(out) + 1
  /\ pc' = "malloc"
  /\ UNCHANGED <<formatVars, callVars, buf, drawVars, tries, watched>>

(* Drawing stores at the null pointer when fb_init had no room; nobody     *)
(* handles the fault, since the interrupt table is loaded later.           *)
DrawFaults == framebuffer_size > 0 /\ ~vga_buffer

Return ==
  /\ pc = "pass" /\ Passed /\ Len(out) < cap
  /\ IF Head(todo) = "line" /\ DrawFaults
     THEN pc' = "crashed" /\ UNCHANGED <<formatVars, callVars, tries>>
     ELSE /\ Begin(<<>>, <<>>)
          /\ todo' = Tail(todo) /\ tries' = 0
          /\ IF Tail(todo) = <<>>
             THEN /\ caller' = None /\ request' = None /\ body' = <<>>
                  /\ UNCHANGED depth
                  /\ pc' = IF caller \in {"panic", "fault"} THEN "halted"
                                                            ELSE "idle"
             ELSE /\ body' = IF Head(todo) \in {"text", "body"} THEN out ELSE body
                  /\ pc' = "malloc" /\ UNCHANGED <<caller, request, depth>>
  /\ free /\ cap' = FirstCap
  /\ UNCHANGED <<buf, drawVars, watched>>

Next ==
  Call \/ fb_init \/ TakeBlock \/ Exhausted \/ PassStep \/ Retry \/ Return

Spec == Init /\ [][Next]_vars

(* The thread runs; nobody has to call it. *)
Working == TakeBlock \/ Exhausted \/ PassStep \/ Retry \/ Return
FairSpec == Spec /\ WF_vars(Working)

-----------------------------------------------------------------------------
Expected ==
  CASE Head(todo) = "text" \/ (Head(todo) = "body" /\ caller # "panic") ->
         request.text
    [] Head(todo) = "serial" ->
         <<"^", "[", "L", "]", " ">> \o body \o <<"^", "\n">>
    [] Head(todo) = "line" -> <<"[", "L", "]", " ">> \o body \o <<"\n">>
    [] OTHER -> None

TypeOK ==
  /\ heap_ptr \in 0 .. heap_max /\ heap_ptr % Align = 0
  /\ pc \in {"start", "idle", "malloc", "pass", "halted", "crashed"}
  /\ caller \in {None} \cup DOMAIN Texts
  /\ request # None => DOMAIN request = DOMAIN OutOfMemory
  /\ buf \in 0 .. heap_max /\ cap \in Nat /\ tries \in Nat
  /\ depth \in 0 .. StackDepth
  /\ framebuffer_size \in {0} \cup FramebufferSizes
  /\ vga_buffer \in BOOLEAN
  /\ {format, out, body} \subseteq Seq(Char)
  /\ width \in Int /\ flags \subseteq {"PAD_RIGHT", "PAD_ZERO"}

(* A directive finds an argument of its kind.  The attribute "format       *)
(* (printf, ...)" of lib/format.hpp, lib/log.hpp and driver/serial.hpp has *)
(* the compiler check the callers; that panic logs a message without       *)
(* directives as a format, nobody checks.                                  *)
ArgumentsFit ==
  pc = "pass" =>
    /\ Sees({"%", "zeros"}, {"*"}) => ap # <<>> /\ Head(ap) \in Int
    /\ SeesConversion =>
         /\ ap # <<>>
         /\ Head(ap) \in IF Head(format) \in {"c", "s"}
                         THEN {NullText} \cup Seq(Char) ELSE Int

(* A finished text is what C's printf makes of the same format and         *)
(* arguments, whichever of the flags, widths and sizes that the formatter  *)
(* knows a directive has (it knows no +, # or precision); and what a log   *)
(* line says of its message is that message.  On the way, no directive     *)
(* misses its argument.                                                    *)
TextIsRight ==
  /\ ArgumentsFit
  /\ pc = "pass" /\ Passed /\ Expected # None => out = Expected

(* A pass, which does not know how large its block is, never writes into   *)
(* another block, even where it goes beyond its own: only a later pass     *)
(* will use what comes after.                                              *)
TextsApart ==
  pc = "pass" /\ watched # None /\ watched.at # buf =>
    \A i \in 0 .. Len(out) :
      buf + i \notin watched.at .. watched.at + watched.size - 1

(* The second block is large enough: a text never takes a third. *)
OneRetry == tries <= 2

(* Every pass comes to an end, also over a format with directives that do  *)
(* not exist, and over one that ends within a directive, whose NUL it      *)
(* steps over: then at the end of what lies behind.                        *)
PassEnds == (pc = "pass") ~> (pc # "pass")

(* system.cpp:43 ends panic with an endless loop around hlt, and mem.cpp:222*)
(* calls it when the heap is used up: whoever panics, halts.               *)
PanicHalts == (caller = "panic") ~> (pc = "halted")
=============================================================================
