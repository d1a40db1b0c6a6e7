# TetrOS in TLA+

TetrOS is a small x86-64 kernel whose only program is Tetris. Everything runs on one CPU: the main
thread of `kmain` and, between any two of its instructions once interrupts are on, the handlers of the
timer and the keyboard. This directory specifies the kernel in TLA+ from its first line to the picture
on the screen: the boot with its devices, the keyboard path, the game, the texts and the heap they
use up, and the block copies. The modules are checked with TLC on small instances, and their central
invariants are proved with TLAPS for every value of the constants. Paths below are relative to the
root of the repository; file names without a directory are in `kernel/src`.

## Inventory

| Component | State | Operations | Talks to | Hard part | What makes it correct | Modules |
|---|---|---|---|---|---|---|
| Boot and main loop, `kernel/main.cpp` | where it is, interrupt flag | the calls of `kmain` | all drivers | interrupts are on before their devices are ready | the boot ends; frames go on | `Kernel` |
| Interrupt dispatch, `driver/pic.cpp`, `arch/x86_64/irq.asm` | handler table, masks, lines in service | install, dispatch, end of interrupt, unmask | all drivers | an end of interrupt for the right line, with or without a handler | one interrupt served does not block the next | `Pic` |
| Timer, `driver/timer.cpp` | tick count | IRQ 0, `wait` | main loop | tick between test and `hlt`; 32-bit wrap | waits end, and not early | `Timer` |
| PS/2 controller, `driver/ps2/ps2.cpp` | the controller's buffers and configuration | `ps2::init` | IRQ 1 | waits without bound; a key in the place of an answer | the boot ends with a live keyboard | `Ps2` |
| Keyboard driver, `driver/ps2/keyboard.cpp` | ring of 64 scancodes; two prefix flags; listener | `kb_handler` (IRQ 1), `kb_process_queue`, register | PS/2 port, `Tetris::handle_key` | the interrupt comes between any two accesses; ring full; a prefix and its key in different frames | nothing lost, repeated, reordered or overwritten; each key with its own prefixes | `Keyboard`, `ScancodeFifo` |
| Piece bag, `game/tetris.cpp` `new_piece` | `bag_pieces`, `bag_size`, `next_piece_index` | refill, shuffle, deal; `restart` empties it | `rand()` | in-place shuffle at its bounds; restart at any time | arrangements only; no piece waits too long; the piece shown is dealt | `BagShuffle`, `PieceBag` |
| Pieces, board, keys, `game/tetris.cpp` | 20 x 10 tiles, the held piece with its `int8_t` place, `GameState` | ten keys, automatic drop, turn, lock, sweep, restart | bag | rounding of negative shifts, `int8_t`, rows that move while they are scanned, keys in every game state | piece inside and off the tiles; no full row, no gap, no tile lost; pieces keep coming | `Pieces`, `Board`, `RowSweep`, `Playfield` |
| Level, score, speed, clock, `check_row`, `update` | seven `uint32_t` counters | drop, frame, pause, restart | playfield | unsigned arithmetic; values recomputed only sometimes | speed follows lines; drops on time; clock exact | `Pacing` |
| Drawing, `game/tetris.cpp`, `driver/screen.cpp` | layout; back buffer | `Tetris::init`, `Tetris::draw`, rectangles, texts | playfield, formatter | rows above the board, places computed from the screen's size, unsigned arithmetic, a clip by offset only | all of a frame is on the screen; its parts keep apart | `Screen` |
| Heap, `memory/mem.cpp` | bump pointer in 16 MB | `malloc`, `free` (does nothing) | formatter, `panic` | used up by drawing; fails inside `panic` | a failed allocation halts the machine | `Heap` |
| Formatter, `lib/format.cpp` | place in the format, flags, width, text so far | one arm of the loop per character | heap | sign, width, padding, sizes of arguments; a pass does not know how large its block is | the text is C's; one retry; it ends | `Format`, `Printf` |
| Logging, panics and faults, `lib/log.cpp`, `kernel/system.cpp`, `arch/x86_64/isrs.cpp` | what is being said, for whom | `vlog`, `panic`, `fault_handler`, `serial::printf` | formatter, heap, screen | failing while a failure is told; nothing to draw on | blocks apart; whoever panics halts | `Text` |
| Copies and fills, `memory/mem.cpp` | none | `memcpy_fast`, `memmove_fast`, `memset_fast` | screen | overlap, alignment, odd lengths | same result as byte by byte | `BlockCopy` |
| Sound, paging, PCI walk, ACPI glue, GDT, Limine requests, CMOS clock, strings | tables or none | | | | | see "Not modelled" |

`PROJECT.json` lists the components with their files and status, and the hazards, each at its line with
the properties that would catch it.

## Modules

| Module | Models | State to code |
|---|---|---|
| `Pic` | `pic.cpp` and the two controllers behind it | `unmasked`, `requested`, `in_service` are the controllers' registers, `irq_routines` the lines with a handler |
| `Timer` | `timer.cpp` | `timer_ticks` is the low word of the count, `eticks` the local of `wait`; `elapsed` is a history |
| `Ps2` | `ps2::init` as a sequence of writes, reads and a flush, and the controller that answers | `output`, `input` are the controller's two buffers, `step` the place in `ps2::init` |
| `Kernel` | `kmain`, the interrupts between its steps; extends the three above | `pc`, `IF_flag`; `handled`, `sent`, `early`, `faulty` are histories |
| `ScancodeFifo` | what the scancode ring promises: a bounded queue that keeps its newest byte | |
| `Keyboard` | `keyboard.cpp`; implements `ScancodeFifo` | `kb_buf`, `kb_buf_head`, `kb_buf_tail`, `break_key`, `ext_key`, `g_listener` as in the code; `pc` and `sc` are where the main thread is and its local; `accepted`, `taken`, `events` are histories |
| `PieceBag` | what `new_piece` promises about the order of pieces | `bag` is `bag_pieces[0 .. bag_size-1]`, `piece_index` the piece dealt last |
| `BagShuffle` | `new_piece`, one loop iteration a step; implements `PieceBag` | `bag_pieces`, `bag_size`, `next_piece_index`, `i` as in the code |
| `Pieces` | `PIECE_DEFS`, `compute_rotated`, `div_round`, the shift in `rotate_piece` | minos are the set of non-zero cells of the box |
| `Board` | `collides`, the locking part of `drop_piece`, `check_row` in closed form | a board maps rows to the columns whose colour is not 0 |
| `RowSweep` | the loop of `check_row`, one iteration a step, against the closed form | `y`, `lines_cleared` as in the code |
| `Playfield` | `handle_key` (all keys), the drop in `update`, `restart` | `board`, `held`, `state`; uses `Board` and `PieceBag` |
| `Screen` | `Tetris::init` and `Tetris::draw`, and what they use of `screen.cpp`, over `Playfield` | a picture is the set of its rectangles, a function of the game's state and the video mode |
| `Pacing` | the rest of `check_row` and `update`: lines, level, score, speed, counters | variables as in the code; `played` is a history |
| `Heap` | `malloc`, `free` | `heap_ptr` counts from `heap_buf` |
| `Format` | one pass of `vformat`, an arm of its loop a step | `format`, `ap`, `mode`, `width`, `flags` as in the code; `out` is the text written |
| `Printf` | what the C standard promises of a directive, the reference for `Format` | |
| `Text` | all callers of the formatter, over `Heap` and `Format` | `caller`, `todo`: for whom a text is made and which follow; `buf`, `cap` as in `vformat`; `depth` counts panics on the stack |
| `BlockCopy` | `memcpy_fast`, `memmove_fast`, `memset_fast`, `memmove`, one iteration a step | `d`, `s`, `remaining` as in the code (backwards: `d_end`, `s_end`); each byte of `mem` first holds its own address |
| `MC*` | constants for TLC | |
| `KeyboardProof`, `BagProof`, `RowSweepProof`, `PlayfieldProof`, `PacingProof`, `BlockCopyProof`, `KernelProof`, `TextProof` | proofs; `PlayfieldProof` is about `Pieces`, `Board`, `Playfield` and `Screen`, `TextProof` about `Heap`, `Format` and `Text` | |

How big a step is. An IRQ handler runs behind an interrupt gate on the only CPU, so it is one step.
`kb_process_queue` shares volatile variables with it, so each of its accesses to them is a step; so is
each access of `ps2::init` to the controller, and the test and the `hlt` of `timer::wait`. The game runs
in the main loop alone and shares nothing with a handler, so there a step is a whole handler (a key, or
the automatic drop of a frame), with every call it makes: a drop locks the piece, sweeps the rows, deals
the next piece and decides about the end of the game in one action. The loops inside those handlers
that could go wrong by themselves, the shuffle and the row sweep, have modules where one iteration is a
step; so have the formatter and the block copies.

Data. A tile is empty or not: the colour is not needed by any property. A key byte is any byte that is
not a prefix. `rand() % (i + 1)` is any index. `int8_t` conversions are modelled by `ToInt8`, with the
number of values as a constant; unsigned 32-bit ones by `Word` or a remainder. A text is a sequence of
characters, since what a conversion writes is what `TextIsRight` is about.

How the modules fit together. `Kernel` says what reaches `kb_handler` and that frames follow each
other; `Keyboard` takes the handler and the queue from there; `Playfield` and `Pacing` are what a frame
does with the events; `Screen` is the picture of a state of `Playfield`; `Text` is what a frame, or a
failure, says. `Playfield` lets the automatic drop come at any moment of an active game, which includes
those at which `Pacing` says it comes; `Pacing` lets a drop clear up to four rows and end the game at
will, which includes what `Playfield` does.

## Runs

| Run | Instance | Shows |
|---|---|---|
| `kernel` | 8 values of the tick word, waits of a tick, 3 key bytes | The boot reaches the main loop or a panic with a reason, whatever keys and ticks come between its steps; no wait of a frame is for ever or too short, across the wrap; each byte of the keyboard is handled once and in order, unless one came before `kb_init` |
| `keyboard_dead` (violated) | the same | a key between `ps2::init` and `kb_init` leaves a byte without an interrupt |
| `keyboard` | ring of 3 slots, 6 bytes, one key and the prefixes `E0` and `F0` | The ring implements the queue in every interleaving of handler and reader; nothing held is overwritten; what comes out, with what is held, is what was accepted behind one zero byte; events carry exactly their prefixes; bytes do not stay behind except the newest |
| `keyboard_doc` (violated) | 3 bytes | `keyboard.hpp:58` promises that queued scancodes are forwarded; the newest never is until another follows |
| `bag` | 4 pieces | the shuffle loop implements the bag; at most two bags of waiting; the piece shown is the one dealt, unless the bag was empty |
| `row_sweep` | all 65536 boards of 4 x 4 | the loop computes the closed form and ends |
| `playfield` | the pieces I and J, board 4 x 5, screens of 640 x 400, 1280 x 1024 and 1600 x 900 (padded lines, 3 bytes a pixel) | the held piece stays inside and off the tiles; turns are exact inverses and never lift it; no full row and no gap; tiles are conserved; pieces keep coming; the picture of every frame, or its board on the smallest screen, is on the screen with its parts apart |
| `pacing` | constants scaled down, 9 lines, 60 word values | speed, level, score and clock agree with the lines and frames of the running game; each frame leaves the frame counter below the drop time, underflowed or not; score and seconds overflow |
| `pacing_speed` (violated) | the same, 25 word values | the speed underflows at the fifth level (the 21st in the code) |
| `text` | a heap of 56 bytes, first blocks of 8, integers of 2 to 6 bits | every directive with every flag, width and size that the formatter knows finds its argument and is formatted as C says; blocks in use never overlap; a second block is always large enough; every pass ends, one over a format that ends within a directive included |
| `panic` (violated) | the same | a panic for want of memory panics again, until the stack is gone |
| `block_copy` | words of 2 bytes, memory of 18 bytes, every destination, source and length | the fast copies and fills do what the byte-wise ones promise, overlap included, store words at aligned addresses only, and end |

Why the bounds are enough.

- `kernel`: a tick word of 8 values wraps many times; `MaxLag` lets three ticks come before the main
  thread looks at the count again, more than it waits for. Three key bytes reach each of the moments that matter: one
  before the flush, one during the set-up, one in the buffer while the next is sent. The run does not
  check for deadlock because a panic stops the machine.
- `keyboard`: a ring of three slots wraps around, fills up and is empty within six bytes, and the reader
  can be between any two of its accesses at each of these moments.
- `bag`: four pieces give every way two bags can meet.
- `row_sweep`: a sweep depends on which rows are full, empty or neither; 4 x 4 has every pattern of these.
- `playfield`: one piece fills a row of the board lying and sticks out far above it standing, the other
  leaves overhangs, and both turn about uneven centres. On a board as wide as a box, walls, floor, top
  and other pieces are all within a turn's reach. The `int8_t` range is scaled to 26 values, so that it ends
  where the assumption of `Board` says it may, and a piece that is not there yet (before the first
  deal) wraps around as in the code. Of the three screens the first has less than 480 lines, where sizes stop
  shrinking, and room for the board only; the third has padded lines. 2^30 word values, more than a
  byte count in bits of these screens, leave the centring of an overlay room to wrap.
- `pacing`: the first three levels have a speed of their own, the fourth is held at the minimum and the
  fifth underflows; the word is large enough for the scores of games up to seven lines, about which
  `ScoreOfLines` speaks, and small enough for the score of longer games and for the seconds to wrap.
- `text`: a text of more than seven characters needs a second block, and the heap is used up at every
  place of every caller. Two to six bits are enough for values that a size cuts off, and for
  its most negative one. A format ends after each flag, width and size that it can end after. Two sizes of framebuffer: one that leaves room for texts, and one for which there is none.
- `block_copy`: a chunk has 8 bytes; blocks of up to 18 bytes take every loop of the copies, with each
  alignment of destination and source against each other and each overlap in both directions.

`MaxBytes`, `MaxLines` and `MaxKeys` bound histories that only grow.

Fairness. `Kernel` assumes that the processor runs (`WF` of the main thread, and of interrupts while one is
due), that the timer chip ticks and that the keyboard controller carries out what it is told; keys need
not come. `Keyboard` assumes that the main thread keeps running (`WF_vars(Main)`): handlers are short
and always return. `Playfield` assumes that the automatic drop, which is always possible in an active
game, comes again and again, and `Pacing` derives that from the main loop calling `update` for ever
(`WF_vars(Frame)`), which `FramesGoOn` of `Kernel` justifies. `Text` assumes that a text that was begun is
worked on; nobody has to ask for one. `RowSweep` and `BlockCopy` assume only that a loop that can go on does.

## Findings

1. `kb_enqueue` writes the slot after the head, `kb_dequeue` reads the slot at the tail. So the first
   byte read is a zero never sent, and every key press is seen only when the next byte arrives (`keyboard_doc`).
2. From level 21 on, `INITIAL_FRAMES_PER_DROP - level * 5` underflows past the test for the minimum,
   and pieces stop falling by themselves (`pacing_speed`).
3. `kmain` enables interrupts before `kb_init` installs the handler of line 1. The interrupt of a key in
   between is acknowledged without its byte being read; the byte stays in the controller, which raises
   no other interrupt: the keyboard is dead until the next boot (`keyboard_dead`).
4. `malloc` panics when the heap is used up, `panic` formats its message, and the formatter calls
   `malloc`: the halt at the end of `panic` is never reached (`panic`). Nothing is ever given back, so
   `draw`, which formats four texts a frame, comes to this in the end.

Seen while modelling, and modelled as the code has it, without a run that shows it violated:
`next_piece_index` is 0 when a bag runs out, so the preview shows an I piece whatever comes next
(`ShownUnlessEmpty` says exactly when it can be trusted); the game ends when the new piece cannot move
down by one, although `game/tetris.cpp:246` says that it collides. Not modelled, but read: `serial::init`
marks a port that failed its self-test available all the same (`driver/serial.cpp:27`).

## Proofs

All theorems hold for every value of the constants that satisfies the named assumptions; TLC
evaluates those in the runs.

`KernelProof` (`TimerAssumption`: half a word holds the ticks of a wait and the lag; `Ps2Assumption`: the bytes
are told apart). The inductive invariant is `TypeOK`, `PicInv`, `TimeInv`, `Ps2Inv`, `KeyInv` and `PanicJustified`
together. `PicInv` says that nothing stays in service between steps and that an interrupt due is served before
the main thread goes on; that bounds in `TimeInv` how many ticks can come before the count is looked at,
and so the signed difference of `wait` is right across the wrap (`WaitExact`). `Ps2Inv` ties the place in
`ps2::init` to what the controller's two buffers can hold while no key was early: a read gets the
answer to its own command, so a failed self-test has a reason (`PanicJustified`). `KeyInv` says that from
`kb_init` on a byte in the buffer has its interrupt requested; `KeysInOrder` follows.

`KeyboardProof` (assumption: at least two slots, prefixes distinct and no keys). Typing, then
`DequeueInv`: while the reader is between its test and its move of the tail, the ring is not empty and
the byte read is the tail's. That is inductive because the handler only writes the slot after the
head, which is not one of those held when it is not the tail. `OneByteBehind` follows: an accepted
byte extends the held sequence at its end, and taking moves its head to the bytes taken. The same
facts map every step to a step of `ScancodeFifo` or a stutter. The wrap-around arithmetic is in lemmas
about `After` and `Pending`. `EventsMatchBytes` needs `DecodeInv`: the prefix flags that the decoder keeps between
two calls are exactly the prefixes taken since the last key, also while it is busy with a byte. The lemmas say what one byte more does
to the key positions and to the prefixes of a sequence: it changes nothing for the keys before it, and starts or ends a
run of prefixes at its end.

`BagProof` (assumption: at least one piece). `BagInv` is the inductive invariant: the array is an
arrangement from the fill on, and each piece has waited at most as long as its place in the bag
allows (`WaitInv`). It implies `DroughtBounded`, and with it each deal is a `Deal` of `PieceBag`, of the
piece that was shown unless the bag was refilled (`ShownUnlessEmpty`).

`PlayfieldProof` (assumptions: a box fits on the board, `int8_t` holds a place a
box and a half beyond the board, each piece has minos). The inductive invariant is `TypeOK`,
`HeldInside` and `NeverClimbs` together. `HeldInside` alone is not inductive: the collision test
says what it seems to say only while the box is near the board, since further up `int8_t` places wrap
around; and that a piece cannot be turned up and up rests on an identity about `rotate_piece`: with
`Lift` the (rounded) height of the minos' centre over the top of the box, twice the shift of a turn is
the difference of the lifts, for every set of minos. That is proved from sums over a turned
box and the symmetry of `div_round`. `OverlapOnlyAtSpawn` then follows, because every step either tests
the place it moves to or deals a new piece. `RotationExact` comes from the same identity: a turn and its
opposite shift by differences of lifts that cancel, `int8_t` conversions included.

That no gap and no full row is ever left (`NoGap`, `NoFullRow`) needs that pieces hang together, which the code
takes for granted (`CompactAssumption`, true of `PIECE_DEFS`: the rows of a piece that have a mino follow each other,
and so do its columns) and turns preserve. A locked piece cannot move down, so one of its minos stands on the floor or on a tile, and
a piece without an empty row in its middle then leaves none in the board. A lemma shows that the
closed form of `check_row` makes neither gaps nor full rows out of a board without gaps: `Landing` is
strictly monotone on the rows that stay, and fills the rows from the floor up.

`TilesConserved` rests on counting: `LockAdds` (a piece that lies upon nothing adds its minos inside the
board) and `SweepRemoves` (a sweep takes a board's width for each full row, because `Landing` maps the rows
that stay onto distinct ones), on finite sets of places throughout. `DropCounts` puts them together for a drop of any
distance, which `MoveDownDrops` and `HardDropDrops` tie to what the two keys do.

`PartsApart` holds for every screen (`ScreenAssumption`: sides of up to 15 bits, any padding of lines, 3 or 4 bytes a
pixel) and `FrameOnScreen` for those that it names, in both for boards not larger than the code's
(`LayoutAssumption`: ten columns and twenty rows; a wider board would run into the texts beside it). `Placed` says where the layout puts the board in terms of the block size, by the divisions of
`Tetris::init`; everything else is linear in the block size. A pixel on the screen is stored if the offset of the last line's fits the back
buffer, whose size is a `uint32_t` (`PixelStored`). The centring of an overlay in `uint32_t` comes to that of integers because the
box is wider than its texts, which is what `Roomy` asks for (`OverlayOnScreen`). The held piece needs `HeldInside` and
`NeverClimbs` once more: a part of it above the top is cut off by the code's own test, and nothing else of it is outside.

`RowSweepProof` (the board's sizes). The inductive invariant is `TypeOK`, `SweepInv` (the board is the first one
without the full rows looked at so far), `Seen` (what was looked at was not empty) and `Ended`. A sweep
that finds an empty row stops with everything above it empty, so the rows it has not looked at are not
full, and what it leaves is the closed form (`ClosedForm`), on which `PlayfieldProof` rests.

`PacingProof` (`PacingAssumption`: positive rates and limits in order, the first level's speed
does not underflow, words hold the constants). The inductive invariant is `TypeOK`, `SpeedOfLines`
and `ClockExact` together: that the speed is the one of the level bounds it while the
subtraction does not underflow (`SpeedLimits`), and makes it positive even when it does (`SpeedPositive`). So a frame that drops
leaves its counter, 0, below the drop time, whatever the new level; one that does not leaves it there because it is not
due (`NeverOverdue`). `ScoreOfLines` (`ScoreAssumption`: rows taken out at once are
worth as much as one by one, or more) bounds the score by products of the lines and the level; it is inductive with `SpeedOfLines`, which says that
the level never falls within a game. Its premise, that the best score of the game's lines fits a word (`ScoreFits`), holds
before a step when it holds after (`WorthGrows`), so no addition of a game that satisfies it has wrapped. With the code's constants
that is so for games of more than fourteen thousand lines.

`BlockCopyProof` (assumption: a word has at least one byte). `CopyInv` is the core: up to the pointer, in the
direction of the copy, the bytes are those of the source as it was; everywhere else memory is as it
was. The lemma `WriteProgress` shows that a block of any size takes the copy further: the bytes
still to be read are not among those written, because the direction is away from the overlap.
`ChunkProgress` applies it four times, in the order in which the words of a chunk are moved. For
`StoresAligned`, `AlignInv` says that the destination is a multiple of the word size from the alignment loop on.

`TextProof` (assumptions: sizes are positive, the heap is a multiple of the alignment, formats are sequences of characters,
the null pointer is no text, and what lies behind a format is a text). Its theorems take one hypothesis about the constants, `RequestsFit`: no pass of a
request's format misses an argument or finds one of another kind, and what a panic's message comes to, needs none when it
is taken as a format itself, as `panic` does. The first the compiler checks for each caller; the second nobody
checks, and without it C promises nothing. What the kernel makes of them is proved: that no pass
ever misses an argument (`ArgumentsAlwaysFit`) in second passes, the lines of a log and the panic that want of memory
makes. For that, `JobInv` says which of its caller's texts is under way, and that the message a panic is about to log needs no arguments;
the formats of `vlog` and of that panic are followed from their ends (`LineEnds`, `SerialEnds`, `OutOfMemoryEnds`), with any message.
`TextsRight` needs, besides, that the requests' texts are what their formats come to
(`RequestsSpelled`): then so are all the texts made of them, and a log's lines say the message as it is.
`TypeInv` adds to the types that only a panic or a fault has panics below it on the stack, so that
`depth` stays bounded. `ApartInv` says that blocks lie behind everything given away before (`BlockFits`), from which
`TextsApart` follows although a pass may write beyond its own block. `OneRetry` is about two passes: that
the second writes what the first did. `PassFollows` shows that a pass is a function (`After`) of where it is, `OneEnd` that a
job therefore comes to one end only, and `RetryInv` remembers in the second pass that the block is long enough for that end.
That texts are sequences of characters needs `Digits`, a recursive function: that a function with its equation exists is
proved first (`DigitsExistUpTo`, `DigitsUnique`, `DigitsEquation`), with an induction over sets of numbers
(`SetInduction`, from the well-foundedness of the library). The same induction shows that what it writes is the number's
numeral (`NumbersSpelled`), in every base; `FieldFilled` gives the width of a converted number.

Type invariants are proved rather than run, except those of `Kernel` and `Text`, which are both.

Only model-checked: liveness (`EventuallyTaken`, `PiecesKeepComing`, `DropsKeepComing`, `Terminates`,
`BootEnds`, `FramesGoOn`, `KeysHandled`, `PassEnds`), which these provers cannot reach, and of `TextIsRight` that single directives
come to what C's `printf` makes of them (`RequestsSpelled`), which the run compares with `Printf` directive by directive; `NumbersSpelled` and
`FieldFilled` are the parts of that which are proved for all numbers. That a hard drop is always possible in an active game (its
distance is bounded by the board) is seen in the runs.

## What the models leave out

- `Pic`: `irq_handle` has a branch for an APIC, which nothing turns on. `FramesGoOn` of `Kernel` is about waits and interrupts
  only: that drawing a frame may end in a panic for want of memory (finding 4) is in `Text`.
- Interrupts are on or off; their stubs save and restore every register (`irq.asm`), which is left out.
- The wait loops of `ps2.cpp` poll a status: a step is taken when the poll is over. If the controller never
  answers, they wait for ever; the fairness of `Controller` excludes that.
- `Screen`: `float` scales are exact tenths here. The rounding of `15 * ui_scale` can take a pixel off a
  block at a few heights beyond 2000 lines, which moves the layout but does not change how its parts lie. Nothing keeps the
  layout from running over the edge of a small screen. `FrameOnScreen` therefore speaks of the board on the screens that hold it
  (`Playable`: with the code's board, 182 by 332 pixels at least) and of a whole frame on those with room for it (`Roomy`: 734
  by 410); on one of 640 x 480 "Press [SPACE] to start" runs over the right edge into the next lines.
  What the code does on smaller ones is modelled, but no property is about it. When lines are padded, the
  back buffer, whose size does not count the padding, lacks the last lines of the screen. Two pixels of the text "[R]: Restart" may lie under the
  overlay of a pause: the overlay is meant to cover, and is not one of the parts that keep apart.
- `Text`: the lengths of the fixed parts of a log line are shortened; a negative `*` width, `%-0Nd` (the
  compiler warns) and the smallest 64-bit number are not among the inputs. What the formatter does not know (the flags `+`, `#`
  and space, a precision, the conversions `i` and `o`) ends a directive like any unknown character, and is not compared with C.
  A format that ends within a directive is read on behind its NUL as in the code: what lies there is the constant `Behind`,
  the same text for every format and with an end, while in the code it is whatever memory holds. An exhausted stack is the end of the run.
- `Heap` and `BlockCopy`: addresses count from an aligned `heap_buf`, and `hhdm_offset`, which `mem.cpp` adds to
  some of them, is 0: its initialiser is run-time code of the kind that `linker.ld` has no section for and nothing calls.

## Not modelled

- Sound: `beep()` is called by nothing, and without it `snd_tick` does nothing.
- Paging and the PCI walk: their calls in `kmain` are commented out.
- The ACPI glue: callbacks of a library that is not in the repository.
- The GDT, the interrupt table's entries and the Limine requests: tables written once.
- `timer::wait_for_tick`, `kb_unregister_listener`, `realloc`, uninstalling and masking of interrupts,
  a change of the log level: nothing asks for them.
- The CMOS clock only seeds `rand()`, whose value is any. Strings, mathematics and operators are small
  functions without state.
- Colours, glyphs, and the waits of the serial port, which give up after a fixed number of polls.
