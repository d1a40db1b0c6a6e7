----------------------------- MODULE BlockCopy ------------------------------
(***************************************************************************)
(* memcpy_fast, memmove_fast, memset_fast and memmove of                   *)
(* kernel/src/memory/mem.cpp.  One iteration of one of their loops is a    *)
(* step.  Every byte of the memory first holds its own address, so that    *)
(* one can tell where each byte came from.  hhdm_offset is 0 all the time: *)
(* the kernel runs no static constructors.                                 *)
(***************************************************************************)
EXTENDS Integers

CONSTANTS
  kWordSize,     (* Bytes of a word (8).                                   *)
  MemSize        (* Bound: bytes of the memory.                            *)

ASSUME BlockCopyAssumption ==
  /\ kWordSize \in Nat \ {0}
  /\ MemSize \in Nat

Addr == 0 .. MemSize - 1
kChunk == 4 * kWordSize      (* Fewer bytes than that are copied one by one. *)
Fill == MemSize              (* The byte that memset_fast is told to write.  *)

VARIABLES
  op, dst, src, n,   (* The function called, and its arguments.            *)
  mem,               (* The memory.                                        *)
  d, s,              (* Where it writes and reads next (backwards: before  *)
  remaining,         (* these), and how many bytes are left.               *)
  pc                 (* The loop it is in.                                 *)

args == <<op, dst, src, n>>
vars == <<args, mem, d, s, remaining, pc>>

Disjoint == dst + n <= src \/ src + n <= dst

(* memmove_fast leaves the case of a lower destination to memcpy_fast.     *)
Backwards == op \in {"memmove_fast", "memmove"} /\ dst >= src

(* The early returns, and the plain loops for short blocks. *)
FirstLoop ==
  CASE op = "memmove" -> "bytes"
    [] n = 0 \/ (op # "memset_fast" /\ dst = src) -> "done"
    [] n > 0 /\ n < kChunk -> "bytes"
    [] OTHER -> "align"

Init ==
  /\ op \in {"memcpy_fast", "memmove_fast", "memset_fast", "memmove"}
  /\ n \in 0 .. MemSize
  /\ dst \in 0 .. MemSize - n
  /\ src \in IF op = "memset_fast" THEN {dst} ELSE 0 .. MemSize - n
  /\ op = "memcpy_fast" => Disjoint \/ dst = src
  /\ mem = [a \in Addr |-> a]
  /\ d = (IF Backwards THEN dst + n ELSE dst)
  /\ s = (IF Backwards THEN src + n ELSE src)
  /\ remaining = n
  /\ pc = FirstLoop

(* k bytes at to are written at once, after those at from have been read.  *)
Write(m, to, from, k) ==
  [a \in Addr |->
     IF a \in to .. to + k - 1
     THEN IF op = "memset_fast" THEN Fill ELSE m[from + (a - to)]
     ELSE m[a]]

(* Mutant: the words of a chunk are moved in ascending order always. *)
WordOrder_Ascending == <<0, 1, 2, 3>>

(* The order of the four words of a chunk. *)
WordOrder == IF Backwards THEN <<3, 2, 1, 0>> ELSE <<0, 1, 2, 3>>

Chunk(m, to, from) ==
  LET Word(mm, i) ==
        Write(mm, to + WordOrder[i] * kWordSize,
                  from + WordOrder[i] * kWordSize, kWordSize)
  IN Word(Word(Word(Word(m, 1), 2), 3), 4)

Advance(k) ==
  /\ d' = IF Backwards THEN d - k ELSE d + k
  /\ s' = IF Backwards THEN s - k ELSE s + k
  /\ remaining' = remaining - k

(* The lowest of the next k bytes, when the pointer is at p. *)
Low(p, k) == IF Backwards THEN p - k ELSE p

Move(k) ==
  /\ mem' = IF k = kChunk THEN Chunk(mem, Low(d, k), Low(s, k))
                           ELSE Write(mem, Low(d, k), Low(s, k), k)
  /\ Advance(k)

(* The loop here goes on with blocks of k bytes while more holds. *)
Loop(here, more, k, after) ==
  /\ pc = here
  /\ \/ more /\ Move(k) /\ UNCHANGED pc
     \/ ~more /\ pc' = after /\ UNCHANGED <<mem, d, s, remaining>>
  /\ UNCHANGED args

(* Mutants: the source is aligned; the loop for the last bytes goes back   *)
(* to the one before instead of ending.                                    *)
Align_Source == Loop("align", remaining # 0 /\ s % kWordSize # 0, 1, "chunks")
Bytes_Again == Loop("bytes", remaining # 0, 1, "words")

Align == Loop("align", remaining # 0 /\ d % kWordSize # 0, 1, "chunks")
Chunks == Loop("chunks", remaining >= kChunk, kChunk, "words")
Words == Loop("words", remaining >= kWordSize, kWordSize, "bytes")
Bytes == Loop("bytes", remaining # 0, 1, "done")

Next == Align \/ Chunks \/ Words \/ Bytes

Spec == Init /\ [][Next]_vars

FairSpec == Spec /\ WF_vars(Next)

-----------------------------------------------------------------------------
TypeOK ==
  /\ mem \in [Addr -> 0 .. MemSize]
  /\ d \in 0 .. MemSize /\ s \in 0 .. MemSize
  /\ remaining \in 0 .. n
  /\ pc \in {"align", "chunks", "words", "bytes", "done"}

(* The byte that belongs at a of the destination. *)
Wanted(a) == IF op = "memset_fast" THEN Fill ELSE src + (a - dst)

(* The addresses already written. *)
Written == IF Backwards THEN d .. dst + n - 1 ELSE dst .. d - 1

(* At every moment exactly the bytes between the start and the pointer are *)
(* those of the source as it was before, also where the two overlap, and   *)
(* no byte outside the destination has changed.                            *)
CopyInv ==
  /\ \A a \in Addr : mem[a] = IF a \in Written THEN Wanted(a) ELSE a
  /\ d - s = dst - src
  /\ d = IF Backwards THEN dst + remaining ELSE dst + n - remaining

(* What memmove and memset promise, for every length, overlap and          *)
(* alignment.                                                              *)
Copied ==
  pc = "done" =>
    \A a \in Addr : mem[a] = IF a \in dst .. dst + n - 1 THEN Wanted(a) ELSE a

(* What the first loop is there for: words are only written to addresses   *)
(* that are multiples of their size.                                       *)
StoresAligned ==
  /\ pc = "chunks" /\ remaining >= kChunk => d % kWordSize = 0
  /\ pc = "words" /\ remaining >= kWordSize => d % kWordSize = 0

(* Every copy ends. *)
Terminates == <>(pc = "done")
=============================================================================
