------------------------------- MODULE Pacing -------------------------------
(***************************************************************************)
(* The counters of kernel/src/game/tetris.cpp: the lines, level, score and *)
(* speed that Tetris::check_row updates, and the frame and seconds         *)
(* counters of Tetris::update.  The board is abstracted to what a piece    *)
(* that is dropped does to them: it takes out up to four full rows, and    *)
(* may end the game (module Playfield says when).                          *)
(***************************************************************************)
EXTENDS Integers, Sequences

CONSTANTS
  FRAMES_PER_SECOND,         (* 100 in the code.                           *)
  INITIAL_FRAMES_PER_DROP,   (* 100                                        *)
  MIN_FRAMES_PER_DROP,       (* 10                                         *)
  LINES_PER_LEVEL,           (* 10                                         *)
  FRAMES_PER_LEVEL,          (* 5: what a level takes off a drop.          *)
  line_scores,               (* <<100, 300, 500, 800>>                     *)
  WordMod,                   (* The number of uint32_t values (2^32).      *)
  MaxLines                   (* Bound: lines cleared in a game.            *)

ASSUME PacingAssumption ==
  /\ FRAMES_PER_SECOND \in Nat \ {0}
  /\ MIN_FRAMES_PER_DROP \in Nat \ {0}
  /\ INITIAL_FRAMES_PER_DROP \in Nat
  /\ INITIAL_FRAMES_PER_DROP > MIN_FRAMES_PER_DROP
  /\ LINES_PER_LEVEL \in Nat \ {0}
  /\ FRAMES_PER_LEVEL \in Nat \ {0}
  /\ FRAMES_PER_LEVEL < INITIAL_FRAMES_PER_DROP
  /\ line_scores \in Seq(Nat)
  /\ MaxLines \in Nat
  /\ WordMod \in Nat /\ WordMod > INITIAL_FRAMES_PER_DROP
  /\ WordMod > FRAMES_PER_SECOND
  /\ WordMod > FRAMES_PER_LEVEL * (MaxLines + 1)

(* Rows taken out at once are worth as much as one by one, or more. *)
ASSUME ScoreAssumption ==
  /\ Len(line_scores) >= 1
  /\ \A n \in 1 .. Len(line_scores) : line_scores[n] >= n * line_scores[1]

VARIABLES
  state,             (* The game state.                                    *)
  dealt,             (* Has a piece been dealt yet?                        *)
  full_lines, level, score,
  frames_per_drop,   (* Frames from one automatic drop to the next.        *)
  frame_counter,     (* Frames since the last automatic drop.              *)
  seconds_counter,   (* Frames since the last full second.                 *)
  time,              (* Seconds played.                                    *)
  played             (* History: frames played in this game, modulo the    *)
                     (* frames after which time overflows.                 *)

progress == <<full_lines, level, score, frames_per_drop>>
clock == <<seconds_counter, time, played>>
vars == <<state, dealt, progress, frame_counter, clock>>

GameState == {"start", "active", "paused", "game over"}

Word(n) == n % WordMod

Init ==
  /\ state = "start" /\ dealt = FALSE
  /\ full_lines = 0 /\ level = 1 /\ score = 0
  /\ frames_per_drop = INITIAL_FRAMES_PER_DROP
  /\ frame_counter = 0
  /\ seconds_counter = 0 /\ time = 0 /\ played = 0

-----------------------------------------------------------------------------
(* The end of check_row, n rows having been taken out. *)

(* The subtraction is unsigned. *)
SpeedAt(lvl) ==
  LET f == Word(INITIAL_FRAMES_PER_DROP - lvl * FRAMES_PER_LEVEL)
  IN IF f < MIN_FRAMES_PER_DROP THEN MIN_FRAMES_PER_DROP ELSE f

LevelAfter(lines) == (lines \div LINES_PER_LEVEL) + 1

(* Rows taken out at once are worth their score at the level they lead to. *)
check_row(n) ==
  LET new_level == LevelAfter(full_lines + n)
  IN /\ full_lines' = full_lines + n
     /\ \/ /\ new_level > level
           /\ level' = new_level
           /\ frames_per_drop' = SpeedAt(new_level)
        \/ /\ new_level <= level
           /\ UNCHANGED <<level, frames_per_drop>>
     /\ score' = Word(score + (IF n > 0 THEN line_scores[n] * level' ELSE 0))

(* drop_piece: full rows are taken out, and the game may be over. *)
drop_piece ==
  \E n \in 0 .. Len(line_scores) :
    /\ full_lines + n <= MaxLines
    /\ check_row(n)
    /\ state' \in {state, "game over"}

-----------------------------------------------------------------------------
(* A key drops the piece: the down keys in every state, the space key in   *)
(* an active game.  The frame counter goes on.                             *)

(* Mutant: a drop by key gives the next piece a full drop time. *)
KeyDrop_Resets ==
  /\ dealt
  /\ drop_piece
  /\ frame_counter' = 0
  /\ UNCHANGED <<dealt, clock>>

KeyDrop ==
  /\ dealt
  /\ drop_piece
  /\ UNCHANGED <<dealt, frame_counter, clock>>

StartGame ==
  /\ state = "start"
  /\ state' = "active" /\ dealt' = TRUE
  /\ UNCHANGED <<progress, frame_counter, clock>>

TogglePause ==
  /\ \/ state = "active" /\ state' = "paused"
     \/ state = "paused" /\ state' = "active"
  /\ UNCHANGED <<dealt, progress, frame_counter, clock>>

(* Mutant: the speed of the last game is kept. *)
restart_KeepSpeed ==
  /\ state' = "start" /\ dealt' = TRUE
  /\ full_lines' = 0 /\ level' = 1 /\ score' = 0
  /\ frame_counter' = 0 /\ seconds_counter' = 0 /\ time' = 0 /\ played' = 0
  /\ UNCHANGED frames_per_drop

(* Mutant: the score of the last game is kept. *)
restart_KeepScore ==
  /\ state' = "start" /\ dealt' = TRUE
  /\ full_lines' = 0 /\ level' = 1
  /\ frames_per_drop' = INITIAL_FRAMES_PER_DROP
  /\ frame_counter' = 0 /\ seconds_counter' = 0 /\ time' = 0 /\ played' = 0
  /\ UNCHANGED score

restart ==
  /\ state' = "start" /\ dealt' = TRUE
  /\ full_lines' = 0 /\ level' = 1 /\ score' = 0
  /\ frames_per_drop' = INITIAL_FRAMES_PER_DROP
  /\ frame_counter' = 0 /\ seconds_counter' = 0 /\ time' = 0 /\ played' = 0

-----------------------------------------------------------------------------
(* A frame of an active game: update(). *)

(* Mutant: only a counter that matches the drop time is due. *)
DropDue_Exact == frame_counter + 1 = frames_per_drop
DropDue == frame_counter + 1 >= frames_per_drop

(* move(0, 1), when it is due, moves the piece down or drops it. *)
Fall ==
  \/ ~DropDue /\ frame_counter' = Word(frame_counter + 1)
     /\ UNCHANGED <<progress, state>>
  \/ DropDue /\ frame_counter' = 0
     /\ (drop_piece \/ UNCHANGED <<progress, state>>)

(* Mutant: the frame that completes a second counts for the next one too.  *)
Tick_Extra ==
  \/ /\ seconds_counter + 1 < FRAMES_PER_SECOND
     /\ seconds_counter' = seconds_counter + 1 /\ UNCHANGED time
  \/ /\ seconds_counter + 1 >= FRAMES_PER_SECOND
     /\ seconds_counter' = 1 /\ time' = Word(time + 1)

Tick ==
  \/ /\ seconds_counter + 1 < FRAMES_PER_SECOND
     /\ seconds_counter' = seconds_counter + 1 /\ UNCHANGED time
  \/ /\ seconds_counter + 1 >= FRAMES_PER_SECOND
     /\ seconds_counter' = 0 /\ time' = Word(time + 1)

Frame ==
  /\ state = "active"
  /\ Fall /\ Tick
  /\ played' = (played + 1) % (WordMod * FRAMES_PER_SECOND)
  /\ UNCHANGED dealt

Next == KeyDrop \/ StartGame \/ TogglePause \/ restart \/ Frame

Spec == Init /\ [][Next]_vars

(* The main loop calls update() for ever: drawing ends, and the wait for   *)
(* the next tick ends with a timer interrupt.                              *)
FairSpec == Spec /\ WF_vars(Frame)

-----------------------------------------------------------------------------
TypeOK ==
  /\ state \in GameState /\ dealt \in BOOLEAN
  /\ full_lines \in 0 .. MaxLines /\ level \in Nat
  /\ score \in 0 .. WordMod - 1
  /\ frames_per_drop \in 0 .. WordMod - 1
  /\ frame_counter \in 0 .. WordMod - 1
  /\ seconds_counter \in 0 .. FRAMES_PER_SECOND - 1
  /\ time \in 0 .. WordMod - 1
  /\ played \in 0 .. WordMod * FRAMES_PER_SECOND - 1

(* The level is that of the lines, and the speed that of the level, in all *)
(* games: the lines cleared at once, before SPACE starts the game, in a    *)
(* pause or after its end, and a restart, leave no level or speed behind   *)
(* (check_row only ever raises the level).                                 *)
SpeedOfLines ==
  /\ level = LevelAfter(full_lines)
  /\ frames_per_drop = IF level = 1 THEN INITIAL_FRAMES_PER_DROP ELSE SpeedAt(level)

(* As long as the subtraction of check_row does not underflow, the speed   *)
(* stays between its limits.                                               *)
NoUnderflow == level * FRAMES_PER_LEVEL <= INITIAL_FRAMES_PER_DROP
SpeedLimits ==
  NoUnderflow =>
    frames_per_drop \in MIN_FRAMES_PER_DROP .. INITIAL_FRAMES_PER_DROP

(* No drop is more than a frame overdue.  A level that is reached by key   *)
(* between two frames may leave the counter at the new drop time or beyond *)
(* it; the very next frame then drops, and none leaves the counter there.  *)
NeverOverdue == [][Frame => frame_counter' < frames_per_drop']_vars

(* The clock shows the frames played since the restart, pauses left out,   *)
(* also when the uint32_t seconds overflow.                                *)
ClockExact == time * FRAMES_PER_SECOND + seconds_counter = played

(* The most that the lines of this game are worth at the level reached, if *)
(* each was one of n taken out at once, times n.                           *)
BestWorth(n) == line_scores[n] * full_lines * level

(* The score counts modulo WordMod.  No score of this game does so if even *)
(* the best one of its lines fits a word.                                  *)
ScoreFits == \A n \in 1 .. Len(line_scores) : BestWorth(n) < n * WordMod

(* The score is that of the lines of this game alone, each between the     *)
(* worth of a single line at level 1 and the best a line is worth in a     *)
(* drop at the level reached, until the game is so long that a score may   *)
(* not fit a uint32_t.                                                     *)
ScoreOfLines ==
  ScoreFits => /\ score >= line_scores[1] * full_lines
               /\ \E n \in 1 .. Len(line_scores) : n * score <= BestWorth(n)

(* While the game is active, automatic drops keep coming, whatever keys    *)
(* are pressed.                                                            *)
DropsKeepComing ==
  []<>(state # "active") \/ []<><<Frame /\ frame_counter' = 0>>_vars

(* tetris.cpp:18 calls 10 frames MIN_FRAMES_PER_DROP and tetris.cpp:16     *)
(* calls 100 INITIAL_FRAMES_PER_DROP, and check_row compares the speed     *)
(* with the minimum (tetris.cpp:287).  So a piece always falls within the  *)
(* initial number of frames.                                               *)
SpeedInRange ==
  frames_per_drop \in MIN_FRAMES_PER_DROP .. INITIAL_FRAMES_PER_DROP
=============================================================================
