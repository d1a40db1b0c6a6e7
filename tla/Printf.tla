------------------------------- MODULE Printf -------------------------------
(***************************************************************************)
(* What the C standard promises of the directives that the formatter knows:*)
(* the attribute "format (printf, ...)" of its callers (lib/format.hpp,    *)
(* lib/log.hpp) has the compiler check their formats against it.           *)
(***************************************************************************)
EXTENDS Format

(* A directive as a record.  Both flags at once, and zeros for text, the   *)
(* compiler warns about; a negative * is not promised by the code.         *)
WellFormed(d) == ~(d.left /\ d.zero) /\ (d.conv \in {"c", "s"} => ~d.zero)

(* The n-digit numeral of u, and the number of digits that it needs. *)
Length(u, base) == CHOOSE m \in 1 .. 40 :
  u < base^m /\ (m = 1 \/ u >= base^(m - 1))
Numeral(u, base, letters) ==
  LET m == Length(u, base)
  IN [k \in 1 .. m |-> letters[((u \div base^(m - k)) % base) + 1]]

Repeat(c, n) == [i \in 1 .. n |-> c]

Spell(d) ==
  <<"%">> \o (IF d.left THEN <<"-">> ELSE <<>>)
          \o (IF d.zero THEN <<"0">> ELSE <<>>)
          \o (IF d.star THEN <<"*">>
              ELSE IF d.width = 0 THEN <<>> ELSE Numeral(d.width, 10, Lower))
          \o d.size \o <<d.conv>>

Arguments(d, arg) == IF d.star THEN <<d.width, arg>> ELSE <<arg>>

SizeBits(size) ==
  Bits[CASE size = <<>> -> "int" [] size = <<"h">> -> "h"
         [] size = <<"h", "h">> -> "hh" [] OTHER -> "l"]

(* The value that an integer argument has in the type of the directive. *)
CValue(d, arg) ==
  CHOOSE v \in IF d.conv = "d"
               THEN -(2^(SizeBits(d.size) - 1)) .. 2^(SizeBits(d.size) - 1) - 1
               ELSE 0 .. 2^SizeBits(d.size) - 1 :
    (v - arg) % 2^SizeBits(d.size) = 0

CText(d, arg) ==
  LET textual == d.conv \in {"c", "s"}
      v == CValue(d, arg)
      sign == IF ~textual /\ v < 0 THEN <<"-">> ELSE <<>>
      main == IF textual THEN arg
              ELSE Numeral(IF v < 0 THEN -v ELSE v,
                           IF d.conv \in {"x", "X"} THEN 16 ELSE 10,
                           IF d.conv = "X" THEN Upper ELSE Lower)
      missing == d.width - Len(sign \o main)
  IN IF d.left THEN sign \o main \o Repeat(" ", missing)
     ELSE IF d.zero THEN sign \o Repeat("0", missing) \o main
     ELSE Repeat(" ", missing) \o sign \o main
=============================================================================
