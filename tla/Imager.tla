------------------------------- MODULE Imager -------------------------------
(***************************************************************************)
(* The disk imager (engine/src/imager.rs): a source is copied chunk by     *)
(* chunk into an image, and after each chunk a checkpoint file beside the  *)
(* image says how much is there, so that the next call resumes.  Nothing   *)
(* is synced, the image is never truncated, and the checkpoint says        *)
(* nothing of the source it is of.                                         *)
(***************************************************************************)
EXTENDS Integers, Sequences

CONSTANTS Blocks,       \* what a disk is made of
          Source,       \* the source, a sequence of blocks
          Zero,         \* what a hole in a file reads as
          Chunk,        \* blocks per read
          Limits,       \* the limits the tests pass, and Unlimited
          Unlimited,
          Images,       \* what may be at the destination beforehand
          NoMark, Torn, \* no checkpoint file, one that does not parse
          MaxTrouble    \* bound on kills, power cuts, failures and removals

\* where the reads of the source end
Total == Len(Source)
Contents == Seq(Blocks \cup {Zero})

ASSUME ImagerAssumption ==
  /\ Source \in Seq(Blocks) /\ Zero \notin Blocks
  /\ Chunk \in Nat \ {0}
  /\ Limits \subseteq Nat \cup {Unlimited} /\ Unlimited \notin Nat
  /\ Images \subseteq Contents
  /\ {NoMark, Torn} \cap Nat = {}
  /\ MaxTrouble \in Nat

VARIABLES
  image,      \* the destination file; <<>> when there is none
  mark,       \* the checkpoint file
  stated,     \* the length of the source that its metadata state
  imaging,    \* the call under way
  imaged,     \* what the last call returned
  before,     \* history: the destination when this image was begun
  begun,      \* history: where copying began
  reached,    \* history: how far this image has ever got
  disturbed,  \* history: a power cut or the user changed the image meanwhile
  trouble

history == <<before, begun, reached, disturbed>>
imagerVars == <<image, mark, stated, imaging, imaged, history, trouble>>

NotImaging == [pc |-> "idle", done |-> 0, limit |-> Unlimited]
NotImaged == [answer |-> "none", done |-> 0]

ImagerTypeOK ==
  /\ image \in Contents
  /\ mark \in Nat \cup {NoMark, Torn}
  /\ stated \in {0, Total}
  /\ imaging \in [pc : {"idle", "copy", "mark", "marking"}, done : 0..Total,
                  limit : Limits \cup {Unlimited}]
  /\ imaged \in [answer : {"none", "done", "failed"}, done : 0..Total]
  /\ before \in Contents
  /\ begun \in 0..Total
  /\ reached \in 0..Total
  /\ disturbed \in BOOLEAN
  /\ trouble \in 0..MaxTrouble

----------------------------------------------------------------------------
(* The progress a call resumes from: what the checkpoint says, of whatever *)
(* source it was left, unless the source is said to be shorter (29-38).    *)
Saved == IF mark \in 0..stated THEN mark ELSE 0

(* Whatever is at the destination, with no checkpoint or with one left by  *)
(* an image of this or another source that was never finished.  The length *)
(* of a disk, unlike a file's, is not in its metadata, which say 0.        *)
ImagerInit ==
  /\ image \in Images
  /\ mark \in {NoMark, Torn} \cup 0..Total + 1
  /\ stated \in {0, Total}
  /\ imaging = NotImaging
  /\ imaged = NotImaged
  /\ before = image
  /\ begun = Saved
  /\ reached = Saved
  /\ disturbed = FALSE
  /\ trouble = 0

(* seek and write_all; a write behind the end leaves a hole (46, 62).      *)
Overwrite(old, at, new) ==
  [i \in 1..(IF at + Len(new) > Len(old) THEN at + Len(new) ELSE Len(old)) |->
     IF i \in at + 1..at + Len(new) THEN new[i - at]
     ELSE IF i <= Len(old) THEN old[i] ELSE Zero]

(* The opening of the files (28-46). *)
StartImaging(lim) ==
  /\ imaging.pc = "idle"
  /\ imaging' = [pc |-> "copy", done |-> Saved, limit |-> lim]
  /\ imaged' = NotImaged
  /\ IF Saved > 0
     THEN UNCHANGED history
     ELSE before' = image /\ begun' = 0 /\ reached' = 0 /\ disturbed' = FALSE
  /\ UNCHANGED <<image, mark, stated, trouble>>

(* Blocks the next read asks for; a read may return fewer, at least one    *)
(* unless the source is at its end (50-61).                                *)
Limited == imaging.limit # Unlimited
AtEnd == imaging.done = Total \/ (Limited /\ imaging.done >= imaging.limit)
Readable ==
  {n \in 1..Chunk : imaging.done + n <= Total /\ (Limited => imaging.done + n <= imaging.limit)}

\* Mutant: progress counts the buffer, not what the read returned
CopyChunkWhole ==
  /\ imaging.pc = "copy"
  /\ ~AtEnd
  /\ \E n \in Readable :
       /\ image' = Overwrite(image, imaging.done,
                             SubSeq(Source, imaging.done + 1, imaging.done + n))
       /\ imaging' = [imaging EXCEPT !.pc = "mark",
                                     !.done = IF @ + Chunk > Total THEN Total ELSE @ + Chunk]
       /\ reached' = IF imaging'.done > reached THEN imaging'.done ELSE reached
  /\ UNCHANGED <<mark, stated, imaged, before, begun, disturbed, trouble>>

CopyChunk ==
  /\ imaging.pc = "copy"
  /\ ~AtEnd
  /\ \E n \in Readable :
       /\ image' = Overwrite(image, imaging.done,
                             SubSeq(Source, imaging.done + 1, imaging.done + n))
       /\ imaging' = [imaging EXCEPT !.pc = "mark", !.done = @ + n]
       /\ reached' = IF imaging.done + n > reached THEN imaging.done + n ELSE reached
  /\ UNCHANGED <<mark, stated, imaged, before, begun, disturbed, trouble>>

\* Mutant: checkpoints are left to the end of the call
TruncateNoMark ==
  /\ imaging.pc = "mark"
  /\ imaging' = [imaging EXCEPT !.pc = "copy"]
  /\ UNCHANGED <<image, mark, stated, imaged, history, trouble>>

(* fs::write truncates the checkpoint and then writes it (65).             *)
TruncateMark ==
  /\ imaging.pc = "mark"
  /\ mark' = Torn
  /\ imaging' = [imaging EXCEPT !.pc = "marking"]
  /\ UNCHANGED <<image, stated, imaged, history, trouble>>

WriteMark ==
  /\ imaging.pc = "marking"
  /\ mark' = imaging.done
  /\ imaging' = [imaging EXCEPT !.pc = "copy"]
  /\ UNCHANGED <<image, stated, imaged, history, trouble>>

(* The end of the source or of the limit; an image as long as the source   *)
(* is said to be loses its checkpoint, and a failure to remove it is       *)
(* ignored (71-75).                                                        *)
FinishImaging ==
  /\ imaging.pc = "copy"
  /\ AtEnd
  /\ \/ mark' = IF imaging.done >= stated THEN NoMark ELSE mark
     \/ mark' = mark
  /\ imaging' = NotImaging
  /\ imaged' = [answer |-> "done", done |-> imaging.done]
  /\ UNCHANGED <<image, stated, history, trouble>>

Trouble == trouble < MaxTrouble /\ trouble' = trouble + 1

(* A read, write or checkpoint that fails ends the call with its error;    *)
(* the end of the process ends it without a word.                          *)
ImagingFails ==
  /\ Trouble
  /\ imaging.pc # "idle"
  /\ imaging' = NotImaging
  /\ imaged' \in {NotImaged, [NotImaged EXCEPT !.answer = "failed"]}
  /\ UNCHANGED <<image, mark, stated, history>>

(* A power cut: neither file was synced, so each keeps what it keeps.      *)
ImagingPowerCut ==
  /\ Trouble
  /\ \E n \in 0..Len(image) : image' = SubSeq(image, 1, n)
  /\ mark' \in {mark, Torn, NoMark}
  /\ imaging' = NotImaging
  /\ imaged' = NotImaged
  /\ disturbed' = TRUE
  /\ UNCHANGED <<stated, before, begun, reached>>

(* The user removes the image and leaves its checkpoint. *)
RemoveImage ==
  /\ Trouble
  /\ imaging.pc = "idle"
  /\ image' = <<>>
  /\ imaged' = NotImaged
  /\ disturbed' = TRUE
  /\ UNCHANGED <<mark, stated, imaging, before, begun, reached>>

ImagerStep == CopyChunk \/ TruncateMark \/ WriteMark \/ FinishImaging

ImagerNext ==
  \/ \E lim \in Limits : StartImaging(lim)
  \/ CopyChunk \/ TruncateMark \/ WriteMark \/ FinishImaging
  \/ ImagingFails \/ ImagingPowerCut \/ RemoveImage

ImagerSpec == ImagerInit /\ [][ImagerNext]_imagerVars

----------------------------------------------------------------------------
(* However often imaging was killed, failed and was resumed, an image      *)
(* reported complete is the source from where its copying began, and       *)
(* outside of that the file it was written over, unless power was cut or   *)
(* the image was removed meanwhile (32-48, 71-75).  Copying began at the   *)
(* first byte, and then the image has the whole source, unless there was a *)
(* checkpoint at the destination before the first call, and it was         *)
(* believed.                                                               *)
Held(i) == IF i <= Len(before) THEN before[i] ELSE Zero
Longer == IF begun < Total /\ Len(before) < Total THEN Total ELSE Len(before)
ImageExact ==
  imaged.answer = "done" /\ imaged.done = Total /\ ~disturbed =>
    /\ Len(image) = Longer
    /\ \A i \in 1..Longer : image[i] = IF i \in begun + 1..Total THEN Source[i] ELSE Held(i)

(* "crash point = last chunk" (18): a call on a source whose length is     *)
(* known resumes with at most one chunk to copy again.  It restarts from   *)
(* zero, against lines 2 and 3, when the process ended while the           *)
(* checkpoint was being rewritten (65), and every time when the metadata   *)
(* say 0 (29, 36).                                                         *)
ResumesAtChunk ==
  stated = Total /\ mark # Torn /\ ~disturbed =>
    \/ mark = NoMark /\ reached = Total
    \/ reached - Saved <= Chunk
============================================================================
