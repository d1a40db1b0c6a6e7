------------------------------- MODULE Screen -------------------------------
(***************************************************************************)
(* What a frame paints, and where: Tetris::init and Tetris::draw of        *)
(* kernel/src/game/tetris.cpp, over kernel/src/driver/screen.cpp.  Nothing *)
(* interrupts the drawing, so the picture is a function of the game.  A    *)
(* rectangle stands for its pixels; a text, for the cells of its           *)
(* characters.  Coordinates pass through uint32_t and int32_t; they are     *)
(* written as the int32_t values they stand for.  Scales are in tenths;     *)
(* the rounding of a float is left out.                                    *)
(***************************************************************************)
EXTENDS Playfield

CONSTANTS
  Framebuffers,   (* The video modes: [width, height, pitch, bytes].       *)
  WordMod         (* The number of uint32_t values (2^32).                 *)

(* Any screen whose sides fit 15 bits, and lines with or without padding.  *)
ASSUME ScreenAssumption ==
  /\ \A fb \in Framebuffers :
       /\ fb.width \in Nat \ {0} /\ fb.width <= 32768
       /\ fb.height \in Nat \ {0} /\ fb.height <= 32768
       /\ fb.bytes \in {3, 4}
       /\ fb.pitch \in Nat /\ fb.pitch >= fb.width * fb.bytes
  /\ WordMod \in Nat /\ WordMod >= 1048576

(* The board has no more tiles than that of the code.                      *)
ASSUME LayoutAssumption == BOARD_WIDTH <= 10 /\ BOARD_HEIGHT <= 20

Rect(px, py, w, h) == [x |-> px, y |-> py, w |-> w, h |-> h]

Within(r, s) ==
  /\ s.x <= r.x /\ r.x + r.w <= s.x + s.w
  /\ s.y <= r.y /\ r.y + r.h <= s.y + s.h

Disjoint(r, s) ==
  \/ r.x + r.w <= s.x \/ s.x + s.w <= r.x
  \/ r.y + r.h <= s.y \/ s.y + s.h <= r.y

Word(n) == n % WordMod

(* The conversion of a uint32_t to an int32_t. *)
Int32(n) == IF 2 * Word(n) >= WordMod THEN Word(n) - WordMod ELSE Word(n)

Whole(fb) == Rect(0, 0, fb.width, fb.height)

-----------------------------------------------------------------------------
(* screen.cpp *)

(* The bytes of the back buffer: those of the pixels, padding not counted, *)
(* by way of a uint32_t number of bits.                                    *)
Size(fb) == Word(fb.width * fb.height * 8 * fb.bytes) \div 8

(* Where put_pixel stores, if it does. *)
Offset(fb, px, py) == fb.pitch * py + px * fb.bytes
put_pixel_stores(fb, px, py) == Offset(fb, px, py) + 4 <= Size(fb)

(* Mutant: characters are spaced as if they were 16 wide. *)
draw_Spaced(n, px, py, tenths) ==
  Rect(px, py, (n * 16 * tenths) \div 10, (8 * tenths) \div 10)

(* A text of n characters. *)
draw(n, px, py, tenths) ==
  Rect(px, py, (n * 8 * tenths) \div 10, (8 * tenths) \div 10)

(* The four strokes of an outline. *)
draw_rect_outline(r, stroke) ==
  {Rect(r.x, r.y, r.w, stroke),
   Rect(r.x, r.y + r.h - stroke, r.w, stroke),
   Rect(r.x, r.y + stroke, stroke, r.h - 2 * stroke),
   Rect(r.x + r.w - stroke, r.y + stroke, stroke, r.h - 2 * stroke)}

-----------------------------------------------------------------------------
(* Tetris::init: sizes grow with the height of the screen, but are not     *)
(* smaller than for one of 480 lines.                                      *)

UiHeight(fb) == IF fb.height < 480 THEN 480 ELSE fb.height
Scaled(fb, n) == (n * UiHeight(fb)) \div 480

init(fb) ==
  LET size == Scaled(fb, 15)
      border == Scaled(fb, 15)
      left == fb.width \div 2 - (size * BOARD_WIDTH) \div 2
  IN [mode |-> fb, screen |-> Whole(fb),
      block_size |-> size, border_width |-> border,
      line_height |-> Scaled(fb, 16),
      border_blocks |-> (border + size - 1) \div size,
      playfield_x |-> left,
      playfield_y |-> fb.height \div 2 - (size * BOARD_HEIGHT) \div 2,
      info_x |-> left + size * BOARD_WIDTH + border + Scaled(fb, 20)]

-----------------------------------------------------------------------------
(* Tetris::draw *)

(* What draw_tile paints: the tile, its highlights and shadow, its outline.*)
draw_tile(px, py, size) ==
  LET inset == size \div 8 + 1
      inner == size - 2 * inset
      third == size \div 3
  IN {Rect(px, py, size, size)} \cup
     (IF size < 3 THEN {} ELSE
      {Rect(px + inset, py + inset, inner, third),
       Rect(px + inset, py + inset + third, size \div 6, inner - third),
       Rect(px + inset, py + size - inset - third, inner, third),
       Rect(px, py, size, 1), Rect(px, py, 1, size),
       Rect(px, py + size - 1, size, 1), Rect(px + size - 1, py, 1, size)})

Tile(l, gx, gy) ==
  Rect(l.playfield_x + gx * l.block_size,
       l.playfield_y + gy * l.block_size, l.block_size, l.block_size)

(* The board with b blocks around it. *)
Bordered(l, b) ==
  Rect(l.playfield_x - b * l.block_size, l.playfield_y - b * l.block_size,
       (BOARD_WIDTH + 2 * b) * l.block_size,
       (BOARD_HEIGHT + 2 * b) * l.block_size)

(* The tiles around the board, side by side. *)
draw_border(l) ==
  draw_rect_outline(Bordered(l, l.border_blocks),
                    l.border_blocks * l.block_size)

(* Mutant: minos above the board are painted, too. *)
draw_piece_Above(l, minos, gx, gy) ==
  {Tile(l, gx + p[2], gy + p[1]) : p \in minos}

draw_piece(l, minos, gx, gy) ==
  {Tile(l, gx + p[2], gy + p[1]) : p \in {p \in minos : gy + p[1] >= 0}}

draw_board(l) ==
  {Tile(l, q[1], q[2]) : q \in {q \in Col \X Row : q[1] \in board[q[2]]}}

Title(l) ==
  draw(6, l.info_x, l.playfield_y - l.border_width - 40, 40)

(* The texts next to the board: the counters with up to 11 characters, the *)
(* keys; before the game there is but one.                                 *)
Info(l, started) ==
  LET line(k) == l.playfield_y + k * l.line_height
      keys == line(3) + (3 * l.line_height) \div 2
  IN IF ~started THEN {draw(22, l.info_x, line(0), 13)}
     ELSE {draw(23, l.info_x, line(0), 14), draw(18, l.info_x, line(1), 14),
           draw(18, l.info_x, line(2), 14), draw(17, l.info_x, line(3), 14),
           draw(12, l.info_x, keys, 14),
           draw(12, l.info_x, keys + l.line_height, 14)}

(* A title and a message of n and m characters in a box.  They are centred *)
(* in uint32_t.                                                            *)
draw_overlay(l, n, m) ==
  LET w == (l.block_size * BOARD_WIDTH * 3) \div 2
      h == (l.block_size * BOARD_HEIGHT) \div 3
      box == Rect(l.screen.w \div 2 - w \div 2, l.screen.h \div 2 - h \div 2, w, h)
      centred(k, tenths) ==
        Int32(box.x + Word(w - (k * 8 * tenths) \div 10) \div 2)
  IN {box, draw(n, centred(n, 20), box.y + 8, 20),
      draw(m, centred(m, 12), box.y + h \div 2, 12)}
     \cup draw_rect_outline(box, 4)

Overlay(l) ==
  CASE state = STATE_GAME_OVER -> draw_overlay(l, 10, 11)
    [] state = STATE_PAUSED -> draw_overlay(l, 6, 10)
    [] OTHER -> {}

Next_x == 14
Next_y == 8
Preview(l, i) == draw_piece(l, PieceDefs[i], Next_x, Next_y)

Cells(l) == draw_board(l) \cup draw_piece(l, held.minos, held.x, held.y)

Started == state # STATE_START

Frame(l) ==
  {Title(l)} \cup draw_border(l) \cup Info(l, Started) \cup
  (IF Started THEN Cells(l) \cup Preview(l, next_piece_index) \cup Overlay(l)
   ELSE {})

-----------------------------------------------------------------------------
Layouts == {init(fb) : fb \in Framebuffers}

(* The screens that hold the board with its border.  Padding may cost the  *)
(* back buffer its last lines.                                             *)
Playable(fb) ==
  LET size == Scaled(fb, 15)
  IN /\ fb.height >= 22 * size + 2 /\ fb.width >= 12 * size + 2
     /\ fb.pitch * (fb.height \div 2 + 11 * size + 1) <= Size(fb)

(* The screens that hold all of a frame: the title above the board, the    *)
(* counters and the next piece beside it, whatever they show, and in the   *)
(* box of an overlay its title.                                            *)
Roomy(fb) ==
  LET size == Scaled(fb, 15)
  IN /\ Playable(fb)
     /\ fb.height >= 22 * size + 80
     /\ fb.width >= 12 * size + 2 * Scaled(fb, 20) + 514
     /\ fb.width >= (36 - BOARD_WIDTH) * size + 2
     /\ 3 * size * BOARD_WIDTH >= 320

(* On the screen, and put_pixel drops no pixel of it, and puts none into   *)
(* the next line instead, which it does with a pixel to the right of the   *)
(* screen.                                                                 *)
Painted(l, r) ==
  /\ Within(r, l.screen)
  /\ put_pixel_stores(l.mode, r.x + r.w - 1, r.y + r.h - 1)

(* A screen that holds the board shows its border, the tiles in it and the *)
(* piece that falls, and one that holds a frame shows all of it, whatever  *)
(* the state of the game.                                                  *)
FrameOnScreen ==
  \A l \in Layouts :
    /\ Playable(l.mode) =>
         \A r \in draw_border(l) \cup (IF Started THEN Cells(l) ELSE {}) : Painted(l, r)
    /\ Roomy(l.mode) => \A r \in Frame(l) : Painted(l, r)

(* The bordered board, the texts and the next piece do not cover each      *)
(* other, in any state of the game.                                        *)
TextsApart ==
  \A l \in Layouts, started \in BOOLEAN, i \in Piece :
    LET bordered == Bordered(l, l.border_blocks)
        texts == {Title(l)} \cup Info(l, started)
        next == IF started THEN Preview(l, i) ELSE {}
    IN /\ \A r, t \in texts \cup {bordered} : r = t \/ Disjoint(r, t)
       /\ \A r \in next, t \in texts \cup {bordered} : Disjoint(r, t)

(* The ornaments of a tile stay inside it, and no width or height of them, *)
(* which are unsigned, comes out negative.                                 *)
OrnamentsInside ==
  \A l \in Layouts : \A r \in draw_tile(0, 0, l.block_size) :
    /\ r.w >= 0 /\ r.h >= 0
    /\ Within(r, Rect(0, 0, l.block_size, l.block_size))

(* The parts of a frame keep to their places: the tiles of the board and   *)
(* of the held piece, however far that sticks out at the top, are painted  *)
(* inside the border and nowhere else, ornaments included, and the texts   *)
(* beside it.                                                              *)
PartsApart ==
  /\ TextsApart /\ OrnamentsInside
  /\ \A l \in Layouts : \A r \in Cells(l) : Within(r, Bordered(l, 0))
=============================================================================
