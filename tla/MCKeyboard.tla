----------------------------- MODULE MCKeyboard -----------------------------
(* One key is enough: with the two prefixes and the zero byte there are    *)
(* four bytes to tell apart, and the queue does not look at them.  A ring  *)
(* of a few slots wraps around and fills up within MaxBytes bytes.         *)
EXTENDS Keyboard

CONSTANT k1

MCKey == {k1}
=============================================================================
