---------------------------- MODULE MCPlayfield -----------------------------
(* Two pieces on a board as wide as a box and little higher: one fills a   *)
(* row or sticks out far, the other leaves overhangs; both turn about      *)
(* uneven centres.                                                         *)
EXTENDS Screen

FromZero(s) == [i \in 0 .. Len(s) - 1 |-> s[i + 1]]

MCPieceDefs == FromZero(<<PIECE_DEFS[0], PIECE_DEFS[1]>>)

(* A screen of less than 480 lines, which holds the board only; one that   *)
(* holds all; one with padded lines of 3 bytes a pixel.                    *)
MCFramebuffers ==
  {[width |-> 640, height |-> 400, pitch |-> 2560, bytes |-> 4],
   [width |-> 1280, height |-> 1024, pitch |-> 5120, bytes |-> 4],
   [width |-> 1600, height |-> 900, pitch |-> 4864, bytes |-> 3]}
=============================================================================
