------------------------------- MODULE Format -------------------------------
(***************************************************************************)
(* The formatter of kernel/src/lib/format.cpp.  A pass goes once through a *)
(* format text; each action is an arm of its loop.  A text is a sequence   *)
(* of characters and ends where its NUL is.  An argument is an integer, or *)
(* for %c and %s the text that it stands for.                              *)
(***************************************************************************)
EXTENDS Integers, Sequences

CONSTANTS
  Bits,          (* The width of the integers of each size: int, long,     *)
                 (* short, char.                                           *)
  Char,          (* The characters.                                        *)
  NullText,      (* The null pointer, as the argument of %s.               *)
  Behind         (* What lies in memory behind a format text, as far as a  *)
                 (* pass goes that misses the end of its text.             *)

VARIABLES
  format,        (* What is left of the format text.                       *)
  ap,            (* The arguments that are left.                           *)
  mode,          (* Where in a directive the pass is.                      *)
  width, flags,  (* Of the directive.                                      *)
  out            (* What has been written; its length is what the code     *)
                 (* counts in pc.                                          *)

formatVars == <<format, ap, mode, width, flags, out>>

Lower == <<"0", "1", "2", "3", "4", "5", "6", "7", "8", "9",
           "a", "b", "c", "d", "e", "f">>
Upper == SubSeq(Lower, 1, 10) \o <<"A", "B", "C", "D", "E", "F">>
DecimalDigit == {Lower[i] : i \in 1 .. 10}
NullName == <<"(", "n", "u", "l", "l", ")">>

ASSUME FormatAssumption ==
  /\ Bits \in [{"int", "l", "h", "hh"} -> Nat \ {0}]
  /\ {Lower, Upper, NullName, <<"%", "-", " ">>} \subseteq Seq(Char)
  /\ NullText \notin Seq(Char)
  /\ Behind \in Seq(Char)

DigitValue(c) == (CHOOSE i \in 1 .. 10 : Lower[i] = c) - 1

(* Mutant: the padding always goes to the left. *)
prints_Left(string, w, fl) ==
  [i \in 1 .. w - Len(string) |-> IF "PAD_ZERO" \in fl THEN "0" ELSE " "]
    \o string

(* A string in a field of at least w characters. *)
prints(string, w, fl) ==
  LET padding == [i \in 1 .. w - Len(string) |->
                    IF "PAD_ZERO" \in fl THEN "0" ELSE " "]
  IN IF "PAD_RIGHT" \in fl THEN string \o padding ELSE padding \o string

Digits(base, letters) ==
  LET d[n \in Nat] ==
        IF n = 0 THEN <<>>
        ELSE Append(d[n \div base], letters[(n % base) + 1])
  IN d

(* A number in a field.  The sign goes before a padding of zeros. *)
simple_outputi(i, base, w, fl, letters) ==
  LET digits == Digits(base, letters)[IF i < 0 THEN -i ELSE i]
  IN IF i = 0 THEN prints(<<"0">>, w, fl)
     ELSE IF i > 0 THEN prints(digits, w, fl)
     ELSE IF w # 0 /\ "PAD_ZERO" \in fl
          THEN <<"-">> \o prints(digits, w - 1, fl)
     ELSE prints(<<"-">> \o digits, w, fl)

(* What va_arg and the member of the union it is stored in make of a word. *)
Unsigned(size, word) == word % 2^Bits[size]
SignedValue(size, word) ==
  LET u == Unsigned(size, word)
  IN IF u < 2^(Bits[size] - 1) THEN u ELSE u - 2^Bits[size]

-----------------------------------------------------------------------------
Begin(f, args) ==
  /\ format' = f /\ ap' = args /\ out' = <<>>
  /\ mode' = "text" /\ width' = 0 /\ flags' = {}

Sees(modes, chars) ==
  mode \in modes /\ format # <<>> /\ Head(format) \in chars

Literal ==
  /\ mode = "text" /\ format # <<>> /\ Head(format) # "%"
  /\ out' = Append(out, Head(format)) /\ format' = Tail(format)
  /\ UNCHANGED <<ap, mode, width, flags>>

Percent ==
  /\ Sees({"text"}, {"%"})
  /\ mode' = "%" /\ width' = 0 /\ flags' = {} /\ format' = Tail(format)
  /\ UNCHANGED <<ap, out>>

PercentSign ==
  /\ Sees({"%"}, {"%"})
  /\ out' = Append(out, "%") /\ mode' = "text" /\ format' = Tail(format)
  /\ UNCHANGED <<ap, width, flags>>

(* A format text that ends after a percent sign ends the pass, as does one *)
(* that ends after z: there the code steps back.                           *)
LonePercent ==
  /\ mode \in {"%", "z"} /\ format = <<>>
  /\ mode' = "text"
  /\ UNCHANGED <<format, ap, width, flags, out>>

(* One that ends anywhere else within a directive does not: its NUL is     *)
(* skipped like any other character that is not known there, and the pass  *)
(* reads on.                                                               *)
ReadOn ==
  /\ mode \in {"zeros", "width", "int", "h", "hh", "l", "ll"} /\ format = <<>>
  /\ format' = Behind /\ mode' = "text"
  /\ UNCHANGED <<ap, width, flags, out>>

Minus ==
  /\ Sees({"%"}, {"-"})
  /\ flags' = {"PAD_RIGHT"} /\ mode' = "zeros" /\ format' = Tail(format)
  /\ UNCHANGED <<ap, width, out>>

Zero ==
  /\ Sees({"%", "zeros"}, {"0"})
  /\ flags' = flags \cup {"PAD_ZERO"} /\ mode' = "zeros"
  /\ format' = Tail(format)
  /\ UNCHANGED <<ap, width, out>>

Star ==
  /\ Sees({"%", "zeros"}, {"*"})
  /\ width' = Head(ap) /\ ap' = Tail(ap)
  /\ mode' = "int" /\ format' = Tail(format)
  /\ UNCHANGED <<flags, out>>

WidthDigit ==
  /\ \/ Sees({"%", "zeros"}, DecimalDigit \ {"0"})
     \/ Sees({"width"}, DecimalDigit)
  /\ width' = width * 10 + DigitValue(Head(format))
  /\ mode' = "width" /\ format' = Tail(format)
  /\ UNCHANGED <<ap, flags, out>>

(* The modes in which the switch on the conversion is reached. *)
AtConversion == {"%", "zeros", "width", "int"}

Size ==
  /\ \/ Sees(AtConversion, {"h", "l", "z"}) /\ mode' = Head(format)
     \/ Sees({"h"}, {"h"}) /\ mode' = "hh"
     \/ Sees({"l"}, {"l"}) /\ mode' = "ll"
  /\ format' = Tail(format)
  /\ UNCHANGED <<ap, width, flags, out>>

(* The size that a conversion has in a mode. *)
SizeOf(m, c) ==
  CASE m \in {"l", "ll", "z"} \/ c = "p" -> "l"
    [] m \in {"h", "hh"} -> m
    [] OTHER -> "int"

(* The text of a conversion. *)
Converted(m, c, arg, w, fl) ==
  LET number == Unsigned(SizeOf(m, c), arg)
  IN CASE c = "d" ->
            simple_outputi(SignedValue(SizeOf(m, c), arg), 10, w, fl, Lower)
       [] c = "u" -> simple_outputi(number, 10, w, fl, Lower)
       [] c = "x" -> simple_outputi(number, 16, w, fl, Lower)
       [] c \in {"X", "p"} -> simple_outputi(number, 16, w, fl, Upper)
       [] OTHER -> prints(IF arg = NullText THEN NullName ELSE arg, w, fl)

NumberConversion == {"d", "u", "x", "X"}
Conversion == NumberConversion \cup {"p", "c", "s"}

SeesConversion ==
  \/ Sees(AtConversion, Conversion)
  \/ Sees({"h", "hh", "l", "ll", "z"}, NumberConversion)

Convert ==
  /\ SeesConversion
  /\ out' = out \o Converted(mode, Head(format), Head(ap), width, flags)
  /\ ap' = Tail(ap) /\ mode' = "text" /\ format' = Tail(format)
  /\ UNCHANGED <<width, flags>>

(* The characters that have a meaning in a mode. *)
Known(m) ==
  CASE m = "%" -> {"%", "-", "*", "h", "l", "z"} \cup DecimalDigit \cup Conversion
    [] m = "zeros" -> {"*", "h", "l", "z"} \cup DecimalDigit \cup Conversion
    [] m = "width" -> {"h", "l", "z"} \cup DecimalDigit \cup Conversion
    [] m = "int" -> {"h", "l", "z"} \cup Conversion
    [] m \in {"h", "l"} -> {m} \cup NumberConversion
    [] OTHER -> NumberConversion

(* Mutant: the character is not skipped. *)
Unknown_Stays ==
  /\ mode # "text" /\ format # <<>> /\ Head(format) \notin Known(mode)
  /\ mode' = "int"
  /\ UNCHANGED <<format, ap, width, flags, out>>

(* Any other character ends the directive.  It is skipped, except after z, *)
(* where the code steps back and it stands for itself.                     *)
Unknown ==
  /\ mode # "text" /\ format # <<>> /\ Head(format) \notin Known(mode)
  /\ format' = IF mode = "z" THEN format ELSE Tail(format)
  /\ mode' = "text"
  /\ UNCHANGED <<ap, width, flags, out>>

Pass ==
  \/ Literal \/ Percent \/ PercentSign \/ LonePercent \/ Minus \/ Zero \/ Star
  \/ WidthDigit \/ Size \/ Convert \/ Unknown \/ ReadOn

Passed == mode = "text" /\ format = <<>>
=============================================================================
