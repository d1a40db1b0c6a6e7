------------------------------ MODULE MCPacing ------------------------------
(* The code's constants scaled down: of the levels, the first three have   *)
(* their own speed, the fourth is held at the minimum, and the subtraction *)
(* underflows from the fifth on.                                           *)
EXTENDS Pacing

MCLineScores == <<1, 3, 5, 8>>
=============================================================================
