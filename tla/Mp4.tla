-------------------------------- MODULE Mp4 --------------------------------
(***************************************************************************)
(* The box structure of MP4 files (engine/src/mp4.rs): the integrity gate  *)
(* and the repair of chunk offsets.  A file is a sequence of 32-bit words, *)
(* each below WordTop; sizes and positions count words, so a header takes  *)
(* two words, or four with a 64-bit size.                                  *)
(***************************************************************************)
EXTENDS Integers, Sequences

CONSTANTS WordTop,     \* 2^32
          Containers,  \* types of boxes that hold boxes, numbers of one word (36-38)
          Stco, Co64   \* those of the tables of chunk offsets

ASSUME Mp4Assumption ==
  /\ WordTop \in Nat \ {0}
  /\ Stco # Co64 /\ {Stco, Co64} \cap Containers = {}

NoHeader == [type |-> 0, header |-> 0, total |-> 0, valid |-> FALSE]

(* parse_header (51-67), at a position counted from zero. *)
HeaderAt(buf, off) ==
  IF off + 2 > Len(buf) THEN NoHeader
  ELSE LET h(head, total) == [type |-> buf[off + 2], header |-> head, total |-> total, valid |-> TRUE]
       IN  CASE buf[off + 1] = 0 -> h(2, Len(buf) - off)
             [] buf[off + 1] = 1 -> IF off + 4 > Len(buf) THEN NoHeader
                                    ELSE h(4, buf[off + 3] * WordTop + buf[off + 4])
             [] OTHER            -> h(2, buf[off + 1])

(* A turn of the loop of validate, and the boxes that it lists (70-114),   *)
(* the last one perhaps cut short.                                         *)
NoBoxes == [off |-> 0, boxes |-> <<>>]
NextBox(buf, walk) ==
  LET h == HeaderAt(buf, walk.off)
  IN  IF walk.off >= Len(buf) \/ ~h.valid \/ h.total = 0 THEN walk
      ELSE [off |-> walk.off + h.total,
            boxes |-> Append(walk.boxes, [type |-> h.type, offset |-> walk.off, size |-> h.total])]
Boxes(buf) ==
  LET walk[i \in 0..Len(buf)] == IF i = 0 THEN NoBoxes ELSE NextBox(buf, walk[i - 1])
  IN  walk[Len(buf)].boxes

\* Mutant: an entry that would leave its range wraps around
ShiftedWrapping(v, delta, top) == (v + delta) % top

(* The clamp of a 32-bit entry (163-166). *)
Shifted(v, delta, top) == IF v + delta < 0 THEN 0 ELSE IF v + delta >= top THEN top - 1 ELSE v + delta

(* A 64-bit entry is read and added to as signed (168-170): where the sum  *)
(* overflows a release build wraps to a negative number, which becomes     *)
(* zero, and a debug build panics.                                         *)
ShiftedWide(v, delta) ==
  LET top    == WordTop * WordTop
      signed == IF 2 * v >= top THEN v - top ELSE v
  IN  IF 2 * (signed + delta) \in 0..top - 1 THEN signed + delta ELSE 0

(* patch_table (151-174): the entries that are there, of one word or two.  *)
PatchTable(buf, content, boxEnd, width, delta) ==
  IF content + 2 > boxEnd THEN buf
  ELSE LET available == (boxEnd - content - 2) \div width
           n     == IF buf[content + 2] < available THEN buf[content + 2] ELSE available
           first == content + 3
           entry(k) == (k - first) \div width
           wide(k)  == LET at == first + 2 * entry(k)
                       IN  ShiftedWide(buf[at] * WordTop + buf[at + 1], delta)
       IN  [k \in DOMAIN buf |->
              IF k < first \/ k >= first + n * width THEN buf[k]
              ELSE IF width = 1 THEN Shifted(buf[k], delta, WordTop)
              ELSE IF (k - first) % 2 = 0 THEN wide(k) \div WordTop ELSE wide(k) % WordTop]

(* rewrite_chunk_offsets and patch_range (119-148): a box that claims more *)
(* than there is ends with what it is in.  patch[m] is a call on at most m *)
(* words; the calls it makes are on fewer.                                 *)
Calls == [buf : Seq(Nat), off : Nat, end : Nat]
PatchRange(patch, c, delta) ==
  LET h       == HeaderAt(SubSeq(c.buf, 1, c.end), c.off)
      boxEnd  == IF c.off + h.total < c.end THEN c.off + h.total ELSE c.end
      content == c.off + h.header
  IN  IF c.off >= c.end \/ ~h.valid \/ h.total = 0 THEN c.buf
      ELSE patch[[buf |-> CASE h.type = Stco -> PatchTable(c.buf, content, boxEnd, 1, delta)
                            [] h.type = Co64 -> PatchTable(c.buf, content, boxEnd, 2, delta)
                            [] h.type \in Containers ->
                                 patch[[buf |-> c.buf, off |-> content, end |-> boxEnd]]
                            [] OTHER -> c.buf,
                  off |-> boxEnd, end |-> c.end]]
RewriteChunkOffsets(buf, delta) ==
  LET patch[m \in 0..Len(buf)] ==
        [c \in Calls |-> IF m = 0 THEN c.buf ELSE PatchRange(patch[m - 1], c, delta)]
  IN  patch[Len(buf)][[buf |-> buf, off |-> 0, end |-> Len(buf)]]
=============================================================================
