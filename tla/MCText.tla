------------------------------- MODULE MCText -------------------------------
(* Instances of Text: one call for each directive, and some texts that are *)
(* made of other parts.                                                    *)
EXTENDS Text, Printf

MCBits == [int |-> 4, l |-> 6, h |-> 3, hh |-> 2]

MCChar ==
  {Lower[i] : i \in 1 .. 16} \cup {Upper[i] : i \in 1 .. 16}
    \cup {"%", "-", "*", " ", "=", "^", "[", "]", "(", ")", "!", "\n", "h", "k",
          "l", "n", "p", "s", "t", "u", "x", "y", "z", "L", "O", "X"}

Sizes == {<<>>, <<"h">>, <<"h", "h">>, <<"l">>, <<"l", "l">>, <<"z">>}

Numbers ==
  {d \in [left : BOOLEAN, zero : BOOLEAN, star : BOOLEAN, width : {0, 3},
          size : Sizes, conv : {"d", "u", "x", "X"}] :
     WellFormed(d) /\ (d.star => d.width = 3 /\ d.size = <<>>)
     /\ (d.size \in {<<"l">>, <<"z">>, <<"h">>} => d.width = 3)}
Strings ==
  {d \in [left : BOOLEAN, zero : {FALSE}, star : {FALSE}, width : {0, 10},
          size : {<<>>}, conv : {"c", "s"}] : WellFormed(d)}

Request(d, arg) ==
  [format |-> <<"=">> \o Spell(d), args |-> Arguments(d, arg),
   text |-> <<"=">> \o CText(d, arg)]

(* Texts that end within a directive. *)
OpenTexts ==
  {[format |-> <<"=", "%">> \o directive,
    args |-> IF directive = <<"*">> THEN <<3>> ELSE <<>>, text |-> None] :
     directive \in {<<"-">>, <<"0">>, <<"3">>, <<"*">>, <<"h">>, <<"h", "h">>,
                   <<"l">>, <<"l", "l">>, <<"z">>}}

(* Behind each text lies one that ends with its NUL. *)
MCBehind == <<"%", "%", "y">>

OddTexts ==
  {[format |-> <<"%", "%", "%", "k", "%", "l", "k", "%", "z", "k", "%">>,
    args |-> <<>>, text |-> None],
   [format |-> <<"%", "s", "%", "p">>, args |-> <<NullText, 12>>,
    text |-> <<"(", "n", "u", "l", "l", ")", "C">>]}

MCRequests ==
  [who \in {"draw", "log", "panic", "fault"} |->
     IF who = "draw"
     THEN {Request(d, arg) : d \in Numbers, arg \in {-3, 0, 8, 27}}
            \cup {Request(d, <<"y">>) : d \in Strings}
            \cup OpenTexts
     ELSE OddTexts]
=============================================================================
