-------------------------- MODULE Toolkit_proofs ----------------------------
(***************************************************************************)
(* Proofs about the tools a command hands its work to.                     *)
(*                                                                         *)
(* Imager: the image is always the file it was begun over, overwritten     *)
(* with the source from where copying began to where it has got; the       *)
(* checkpoint never claims more than that and is at most one chunk behind. *)
(*                                                                         *)
(* SidecarRpc: whatever the sidecar answers, however late, and whatever    *)
(* else it prints, no command is given another's answer.                   *)
(*                                                                         *)
(* EventIndex: the rows of the index, ordered and bounded by their signed  *)
(* column, replay to the workspace and to the files that a replay in       *)
(* memory finds.  The proofs are inductions over the rows (Folding).       *)
(*                                                                         *)
(* Formats: what each parser makes of a sample is what the sample was made *)
(* from - file records and their run lists, MP4 files, images to be carved *)
(* and partitioned disks.                                                  *)
(***************************************************************************)
EXTENDS Imager, SidecarRpc, EventIndex, Formats, Folding, SequenceTheorems, TLAPS

----------------------------------------------------------------------------
(* IMAGER                                                                  *)

(* The image is what it was begun over, overwritten as far as reached.     *)
Overlaid ==
  /\ Len(image) = IF begun < reached /\ Len(before) < reached THEN reached ELSE Len(before)
  /\ \A i \in 1..Len(image) : image[i] = IF i \in begun + 1..reached THEN Source[i] ELSE Held(i)

(* Neither the checkpoint nor the call is ahead of the image, ...          *)
NotAhead ==
  /\ begun <= reached
  /\ Saved <= reached /\ (Saved > 0 => begun <= Saved)
  /\ imaging.pc # "idle" => begun <= imaging.done /\ imaging.done <= reached
  /\ imaged.answer = "done" => imaged.done <= reached

(* ... and neither is more than a chunk behind it.                         *)
NotBehind ==
  /\ ResumesAtChunk
  /\ imaging.pc # "idle" /\ ~disturbed => reached - imaging.done <= Chunk
  /\ stated = Total /\ imaging.pc # "idle" /\ mark # Torn /\ ~disturbed => reached - Saved <= Chunk
  /\ stated = Total /\ imaging.pc = "copy" => imaging.done = Saved

ImagerInductive ==
  /\ ImagerTypeOK
  /\ ~disturbed => Overlaid /\ NotAhead
  /\ NotBehind

----------------------------------------------------------------------------
LEMMA SourceFacts == Total \in Nat /\ \A i \in 1..Total : Source[i] \in Blocks
BY ImagerAssumption, ElementOfSeq DEF Total

LEMMA SavedFacts == ASSUME ImagerTypeOK PROVE Saved \in 0..Total
BY SourceFacts DEF Saved, ImagerTypeOK

(* seek and write_all put the next blocks of the source into the image and *)
(* leave the rest of it; a gap reads as zeros.                             *)
LEMMA OverwriteSource ==
  ASSUME NEW old \in Contents, NEW d \in 0..Total, NEW n \in Nat, d + n <= Total
  PROVE  LET o == Overwrite(old, d, SubSeq(Source, d + 1, d + n))
         IN  /\ o \in Contents
             /\ Len(o) = IF d + n > Len(old) THEN d + n ELSE Len(old)
             /\ \A i \in 1..Len(o) : o[i] = IF i \in d + 1..d + n THEN Source[i]
                                            ELSE IF i <= Len(old) THEN old[i] ELSE Zero
<1> DEFINE new == SubSeq(Source, d + 1, d + n)
           m   == IF d + n > Len(old) THEN d + n ELSE Len(old)
           o   == Overwrite(old, d, new)
<1>1. Source \in Seq(Blocks) /\ Total \in Nat /\ Len(Source) = Total
  BY ImagerAssumption DEF Total
<1>2. Len(new) = n /\ \A i \in 1..n : new[i] = Source[d + i]
  BY <1>1
<1>3. Len(old) \in Nat /\ \A i \in 1..Len(old) : old[i] \in Blocks \cup {Zero}
  BY DEF Contents
<1>4. m \in Nat
  BY <1>3, <1>1
<1>5. o = [i \in 1..m |-> IF i \in d + 1..d + n THEN Source[i]
                          ELSE IF i <= Len(old) THEN old[i] ELSE Zero]
  <2>1. o = [i \in 1..m |-> IF i \in d + 1..d + n THEN new[i - d]
                            ELSE IF i <= Len(old) THEN old[i] ELSE Zero]
    <3>1. Len(new) = n
      BY <1>2
    <3>. HIDE DEF new
    <3>. QED BY <3>1 DEF Overwrite
  <2>2. ASSUME NEW i \in 1..m, i \in d + 1..d + n PROVE new[i - d] = Source[i]
    <3>1. i - d \in 1..n /\ d + (i - d) = i
      BY <2>2, <1>1, <1>4
    <3>. HIDE DEF new
    <3>. QED BY <3>1, <1>2
  <2>. HIDE DEF new, o, m
  <2>. QED BY <2>1, <2>2
<1>6. o \in [1..m -> Blocks \cup {Zero}]
  <2>1. \A i \in 1..m : (IF i \in d + 1..d + n THEN Source[i]
                         ELSE IF i <= Len(old) THEN old[i] ELSE Zero) \in Blocks \cup {Zero}
    BY <1>1, <1>3, <1>4, SourceFacts
  <2>. QED BY <1>5, <2>1
<1>7. o \in Seq(Blocks \cup {Zero}) /\ Len(o) = m
  BY <1>4, <1>6, IsASeq
<1>. QED
  BY <1>5, <1>7 DEF Contents

LEMMA ImagerInitHolds == ImagerInit => ImagerInductive
<1> SUFFICES ASSUME ImagerInit PROVE ImagerInductive
  OBVIOUS
<1>1. ImagerTypeOK
  <2>1. Total \in Nat /\ 0 \in 0..Total /\ 0 \in 0..MaxTrouble /\ image \in Contents
    BY SourceFacts, ImagerAssumption DEF ImagerInit
  <2>2. mark \in Nat \cup {NoMark, Torn}
    BY <2>1 DEF ImagerInit
  <2>3. imaging \in [pc : {"idle", "copy", "mark", "marking"}, done : 0..Total,
                     limit : Limits \cup {Unlimited}]
    BY <2>1 DEF ImagerInit, NotImaging
  <2>4. imaged \in [answer : {"none", "done", "failed"}, done : 0..Total]
    BY <2>1 DEF ImagerInit, NotImaged
  <2>5. Saved \in 0..Total
    BY <2>1 DEF ImagerInit, Saved
  <2>. QED
    BY <2>1, <2>2, <2>3, <2>4, <2>5 DEF ImagerInit, ImagerTypeOK
<1>2. Saved \in 0..Total /\ begun = Saved /\ reached = Saved /\ before = image /\ Total \in Nat
  BY <1>1, SavedFacts, SourceFacts DEF ImagerInit
<1>3. Len(image) \in Nat
  BY <1>1 DEF ImagerTypeOK, Contents
<1>4. Overlaid
  BY <1>2, <1>3 DEF Overlaid, Held
<1>5. NotAhead
  BY <1>2 DEF ImagerInit, NotAhead, NotImaging, NotImaged
<1>6. NotBehind
  BY <1>2, ImagerAssumption DEF ImagerInit, NotBehind, ResumesAtChunk, NotImaging
<1>. QED
  BY <1>1, <1>4, <1>5, <1>6 DEF ImagerInductive

----------------------------------------------------------------------------
(* Each action keeps the invariant. *)
LEMMA StartImagingKeeps ==
  ASSUME ImagerInductive, NEW lim \in Limits, StartImaging(lim) PROVE ImagerInductive'
<1>1. Saved \in 0..Total /\ Saved' = Saved /\ Len(image) \in Nat /\ Total \in Nat
  BY SavedFacts, SourceFacts DEF ImagerInductive, StartImaging, Saved, ImagerTypeOK, Contents
<1>2. ImagerTypeOK'
  <2>1. before' \in Contents /\ begun' \in 0..Total /\ reached' \in 0..Total
    BY <1>1 DEF ImagerInductive, ImagerTypeOK, StartImaging, history
  <2>2. disturbed' \in {disturbed, FALSE}
    BY DEF StartImaging, history
  <2>3. disturbed' \in BOOLEAN
    BY <2>2, Zenon DEF ImagerInductive, ImagerTypeOK
  <2>4. imaging' \in [pc : {"idle", "copy", "mark", "marking"}, done : 0..Total,
                      limit : Limits \cup {Unlimited}]
    BY <1>1 DEF StartImaging
  <2>5. imaged' \in [answer : {"none", "done", "failed"}, done : 0..Total]
    BY <1>1 DEF StartImaging, NotImaged
  <2>. QED
    BY <2>1, <2>3, <2>4, <2>5 DEF ImagerInductive, ImagerTypeOK, StartImaging
<1>3. ASSUME Saved > 0 PROVE (~disturbed => Overlaid /\ NotAhead)' /\ NotBehind'
  <2>1. mark \in Nat /\ mark # NoMark /\ mark # Torn /\ stated = Total
    BY <1>3, <1>1, ImagerAssumption DEF Saved, ImagerInductive, ImagerTypeOK
  <2>2. UNCHANGED <<before, begun, reached, disturbed, image, mark, stated>>
    BY <1>3 DEF StartImaging, history
  <2>3. (~disturbed => Overlaid /\ NotAhead)'
    <3>1. (~disturbed => Overlaid)'
      BY <2>2 DEF ImagerInductive, Overlaid, Held
    <3>2. (~disturbed => NotAhead)'
      BY <2>2, <1>1, <1>3 DEF StartImaging, ImagerInductive, NotAhead, NotImaged
    <3>. QED BY <3>1, <3>2
  <2>4. ~disturbed => reached - Saved <= Chunk
    BY <2>1 DEF ImagerInductive, NotBehind, ResumesAtChunk
  <2>. QED
    BY <2>2, <2>3, <2>4, <1>1 DEF StartImaging, ImagerInductive, NotBehind, ResumesAtChunk
<1>4. ASSUME Saved = 0 PROVE (~disturbed => Overlaid /\ NotAhead)' /\ NotBehind'
  <2>1. before' = image /\ begun' = 0 /\ reached' = 0 /\ disturbed' = FALSE /\ image' = image
        /\ imaging' = [pc |-> "copy", done |-> 0, limit |-> lim] /\ imaged' = NotImaged
    BY <1>4 DEF StartImaging
  <2>2. Overlaid'
    BY <2>1, <1>1 DEF Overlaid, Held
  <2>3. NotAhead' /\ NotBehind'
    BY <2>1, <1>1, <1>4, ImagerAssumption DEF NotAhead, NotBehind, ResumesAtChunk, NotImaged
  <2>. QED BY <2>2, <2>3
<1>. QED
  BY <1>1, <1>2, <1>3, <1>4 DEF ImagerInductive

LEMMA CopyChunkKeeps == ASSUME ImagerInductive, CopyChunk PROVE ImagerInductive'
<1>1. PICK n \in Readable :
        /\ image' = Overwrite(image, imaging.done, SubSeq(Source, imaging.done + 1, imaging.done + n))
        /\ imaging' = [imaging EXCEPT !.pc = "mark", !.done = @ + n]
        /\ reached' = IF imaging.done + n > reached THEN imaging.done + n ELSE reached
  BY DEF CopyChunk
<1> DEFINE d == imaging.done
<1>2. /\ imaging.pc = "copy"
      /\ UNCHANGED <<mark, stated, imaged, before, begun, disturbed, trouble>>
      /\ d \in 0..Total /\ reached \in 0..Total /\ begun \in 0..Total /\ Total \in Nat
      /\ image \in Contents /\ Len(image) \in Nat /\ before \in Contents /\ Len(before) \in Nat
  BY SourceFacts DEF CopyChunk, ImagerInductive, ImagerTypeOK, Contents
<1>3. n \in 1..Chunk /\ n \in Nat /\ d + n <= Total
  BY ImagerAssumption DEF Readable
<1>4. /\ image' \in Contents
      /\ Len(image') = IF d + n > Len(image) THEN d + n ELSE Len(image)
      /\ \A i \in 1..Len(image') : image'[i] = IF i \in d + 1..d + n THEN Source[i]
                                       ELSE IF i <= Len(image) THEN image[i] ELSE Zero
  BY <1>1, <1>2, <1>3, OverwriteSource
<1>5. imaging' = [pc |-> "mark", done |-> d + n, limit |-> imaging.limit]
  BY <1>1 DEF ImagerInductive, ImagerTypeOK
<1>6. reached' \in 0..Total /\ d + n \in 0..Total
  BY <1>1, <1>2, <1>3
<1>7. ImagerTypeOK'
  BY <1>2, <1>4, <1>5, <1>6 DEF ImagerInductive, ImagerTypeOK
<1>8. Saved \in 0..Total /\ Saved' = Saved /\ (stated = Total => d = Saved)
  BY <1>2, SavedFacts DEF ImagerInductive, NotBehind, Saved, Total
<1>9. (~disturbed => Overlaid /\ NotAhead)'
  <2> SUFFICES ASSUME ~disturbed PROVE Overlaid' /\ NotAhead'
    BY <1>2
  <2>1. Overlaid /\ NotAhead /\ begun <= d /\ d <= reached
    BY <1>2 DEF ImagerInductive, NotAhead
  <2>2. Len(image') = IF begun < reached' /\ Len(before) < reached' THEN reached' ELSE Len(before)
    BY <2>1, <1>1, <1>2, <1>3, <1>4 DEF Overlaid
  <2>3. ASSUME NEW i \in 1..Len(image')
        PROVE  image'[i] = IF i \in begun + 1..reached' THEN Source[i] ELSE Held(i)
    <3>1. i \in Nat /\ i >= 1 /\ (i > Len(image) => i <= d + n)
      BY <1>2, <1>3, <1>4
    <3>2. CASE i \in d + 1..d + n
      BY <3>2, <2>1, <1>1, <1>2, <1>3, <1>4
    <3>3. CASE i \notin d + 1..d + n /\ i <= Len(image)
      <4>1. image'[i] = image[i] /\ i \in 1..Len(image)
        BY <3>1, <3>3, <1>2, <1>4
      <4>2. (i \in begun + 1..reached') <=> (i \in begun + 1..reached)
        BY <3>1, <3>3, <2>1, <1>1, <1>2, <1>3
      <4>. QED BY <4>1, <4>2, <2>1 DEF Overlaid
    <3>4. CASE i \notin d + 1..d + n /\ i > Len(image)
      <4>1. image'[i] = Zero /\ i <= d
        BY <3>1, <3>4, <1>2, <1>3, <1>4
      <4>2. Len(before) = Len(image) /\ begun = reached
        BY <4>1, <3>4, <2>1, <1>2 DEF Overlaid
      <4>. QED BY <4>1, <4>2, <3>1, <3>4, <2>1, <1>2 DEF Held
    <3>. QED BY <3>1, <3>2, <3>3, <3>4, <1>2
  <2>4. Overlaid'
    BY <2>2, <2>3, <1>2 DEF Overlaid, Held
  <2>5. NotAhead'
    BY <2>1, <1>1, <1>2, <1>3, <1>5, <1>8, ImagerInductive DEF NotAhead, ImagerInductive, ImagerTypeOK
  <2>. QED BY <2>4, <2>5
<1>10. NotBehind'
  <2>1. ASSUME ~disturbed PROVE reached' - (d + n) <= Chunk
    BY <2>1, <1>1, <1>2, <1>3, ImagerAssumption DEF ImagerInductive, NotBehind
  <2>2. ASSUME stated = Total, ~disturbed, mark # Torn PROVE reached' - Saved <= Chunk
    BY <2>2, <1>1, <1>2, <1>3, <1>8, ImagerAssumption DEF ImagerInductive, NotBehind
  <2>. QED
    BY <2>1, <2>2, <1>2, <1>5, <1>8 DEF NotBehind, ResumesAtChunk
<1>. QED
  BY <1>7, <1>9, <1>10 DEF ImagerInductive

LEMMA TruncateMarkKeeps == ASSUME ImagerInductive, TruncateMark PROVE ImagerInductive'
<1>1. /\ mark' = Torn /\ imaging' = [imaging EXCEPT !.pc = "marking"] /\ imaging.pc = "mark"
      /\ UNCHANGED <<image, stated, imaged, history, trouble>>
  BY DEF TruncateMark
<1>2. Saved' = 0
  BY <1>1, SourceFacts, ImagerAssumption DEF Saved
<1>3. imaging' = [pc |-> "marking", done |-> imaging.done, limit |-> imaging.limit]
  BY <1>1 DEF ImagerInductive, ImagerTypeOK, history
<1>4. ImagerTypeOK'
  BY <1>1, <1>3 DEF ImagerInductive, ImagerTypeOK, history
<1>5. (~disturbed => Overlaid /\ NotAhead)'
  BY <1>1, <1>2, <1>3 DEF ImagerInductive, Overlaid, Held, NotAhead, history, ImagerTypeOK
<1>6. NotBehind'
  BY <1>1, <1>3 DEF ImagerInductive, NotBehind, ResumesAtChunk, history
<1>. QED BY <1>4, <1>5, <1>6 DEF ImagerInductive

LEMMA WriteMarkKeeps == ASSUME ImagerInductive, WriteMark PROVE ImagerInductive'
<1>1. /\ mark' = imaging.done /\ imaging' = [imaging EXCEPT !.pc = "copy"] /\ imaging.pc = "marking"
      /\ UNCHANGED <<image, stated, imaged, history, trouble>>
  BY DEF WriteMark
<1>2. imaging.done \in 0..Total
  BY DEF ImagerInductive, ImagerTypeOK, history
<1>3. Saved' \in {imaging.done, 0} /\ (stated = Total => Saved' = imaging.done)
  BY <1>1, <1>2 DEF Saved
<1>4. imaging' = [pc |-> "copy", done |-> imaging.done, limit |-> imaging.limit]
  BY <1>1 DEF ImagerInductive, ImagerTypeOK, history
<1>5. ImagerTypeOK'
  BY <1>1, <1>2, <1>4, SourceFacts DEF ImagerInductive, ImagerTypeOK, history
<1>6. (~disturbed => Overlaid /\ NotAhead)'
  <2>1. (~disturbed => Overlaid)'
    BY <1>1 DEF ImagerInductive, Overlaid, Held, history
  <2>2. imaging'.pc = "copy" /\ imaging'.done = imaging.done
    BY <1>4
  <2>3. UNCHANGED <<begun, reached, disturbed, imaged>>
    BY <1>1 DEF history
  <2>4. ~disturbed => begun <= imaging.done /\ imaging.done <= reached /\ begun <= reached
                      /\ (imaged.answer = "done" => imaged.done <= reached)
    BY <1>1 DEF ImagerInductive, NotAhead
  <2>5. reached \in Nat
    BY SourceFacts DEF ImagerInductive, ImagerTypeOK
  <2>6. (~disturbed => NotAhead)'
    BY <2>2, <2>3, <2>4, <2>5, <1>2, <1>3 DEF NotAhead
  <2>. QED BY <2>1, <2>6
<1>7. NotBehind'
  <2>1. ~disturbed => reached - imaging.done <= Chunk
    BY <1>1 DEF ImagerInductive, NotBehind
  <2>2. UNCHANGED <<reached, disturbed, stated>>
    BY <1>1 DEF history
  <2>3. imaging'.pc = "copy" /\ imaging'.done = imaging.done
    BY <1>4
  <2>. QED BY <2>1, <2>2, <2>3, <1>3 DEF NotBehind, ResumesAtChunk
<1>. QED BY <1>5, <1>6, <1>7 DEF ImagerInductive

LEMMA FinishImagingKeeps == ASSUME ImagerInductive, FinishImaging PROVE ImagerInductive'
<1>1. /\ imaging.pc = "copy" /\ imaging' = NotImaging
      /\ imaged' = [answer |-> "done", done |-> imaging.done]
      /\ mark' \in {mark, NoMark} /\ (mark' # mark => imaging.done >= stated)
      /\ UNCHANGED <<image, stated, history, trouble>>
  BY DEF FinishImaging
<1>2. imaging.done \in 0..Total /\ reached \in 0..Total /\ Total \in Nat
  BY SourceFacts DEF ImagerInductive, ImagerTypeOK, history
<1>3. ImagerTypeOK'
  BY <1>1, <1>2 DEF ImagerInductive, ImagerTypeOK, NotImaging, history
<1>4. Saved' \in {Saved, 0}
  BY <1>1, SourceFacts, ImagerAssumption DEF Saved, ImagerInductive, ImagerTypeOK
<1>5. Saved \in 0..Total
  BY SavedFacts DEF ImagerInductive
<1>6. (~disturbed => Overlaid /\ NotAhead)'
  BY <1>1, <1>2, <1>4, <1>5 DEF ImagerInductive, Overlaid, Held, NotAhead, history, NotImaging
<1>7. NotBehind'
  <2>1. CASE mark' = mark
    BY <2>1, <1>1 DEF ImagerInductive, NotBehind, ResumesAtChunk, NotImaging, Saved, history
  <2>2. CASE mark' # mark
    <3>1. mark' = NoMark /\ imaging.done >= stated
      BY <2>2, <1>1
    <3>2. stated = Total /\ ~disturbed => reached = Total
      BY <3>1, <1>1, <1>2 DEF ImagerInductive, NotAhead
    <3>. QED
      BY <3>1, <3>2, <1>1 DEF NotBehind, ResumesAtChunk, NotImaging, history
  <2>. QED BY <2>1, <2>2
<1>. QED BY <1>3, <1>6, <1>7 DEF ImagerInductive

LEMMA ImagingFailsKeeps == ASSUME ImagerInductive, ImagingFails PROVE ImagerInductive'
<1>1. /\ imaging' = NotImaging /\ imaged' \in {NotImaged, [NotImaged EXCEPT !.answer = "failed"]}
      /\ UNCHANGED <<image, mark, stated, history>>
      /\ trouble' = trouble + 1 /\ trouble < MaxTrouble
  BY DEF ImagingFails, Trouble
<1>2. imaged' = NotImaged \/ imaged' = [answer |-> "failed", done |-> 0]
  BY <1>1 DEF NotImaged
<1>3. ImagerTypeOK'
  BY <1>1, <1>2, SourceFacts, ImagerAssumption DEF ImagerInductive, ImagerTypeOK, NotImaging, NotImaged, history
<1>4. Saved' = Saved
  BY <1>1 DEF Saved
<1>5. (~disturbed => Overlaid /\ NotAhead)'
  BY <1>1, <1>2, <1>4 DEF ImagerInductive, Overlaid, Held, NotAhead, history, NotImaging, NotImaged
<1>6. NotBehind'
  BY <1>1, <1>4 DEF ImagerInductive, NotBehind, ResumesAtChunk, history, NotImaging
<1>. QED BY <1>3, <1>5, <1>6 DEF ImagerInductive

LEMMA DisturbanceKeeps ==
  ASSUME ImagerInductive, ImagingPowerCut \/ RemoveImage PROVE ImagerInductive'
<1>1. /\ disturbed' = TRUE /\ imaged' = NotImaged /\ imaging' \in {imaging, NotImaging}
      /\ imaging'.pc = "idle"
      /\ mark' \in {mark, Torn, NoMark}
      /\ UNCHANGED <<stated, before, begun, reached>>
      /\ trouble' = trouble + 1 /\ trouble < MaxTrouble
  <2>1. CASE ImagingPowerCut
    BY <2>1 DEF ImagingPowerCut, Trouble, NotImaging
  <2>2. CASE RemoveImage
    BY <2>2 DEF RemoveImage, Trouble
  <2>. QED BY <2>1, <2>2
<1>2. image' \in Contents
  <2>1. CASE ImagingPowerCut
    <3>1. image \in Contents
      BY DEF ImagerInductive, ImagerTypeOK, history
    <3>2. PICK n \in 0..Len(image) : image' = SubSeq(image, 1, n)
      BY <2>1 DEF ImagingPowerCut
    <3>. QED BY <3>1, <3>2 DEF Contents
  <2>2. CASE RemoveImage
    BY <2>2 DEF RemoveImage, Contents
  <2>. QED BY <2>1, <2>2
<1>3. ImagerTypeOK'
  BY <1>1, <1>2, SourceFacts, ImagerAssumption DEF ImagerInductive, ImagerTypeOK, NotImaging, NotImaged, history
<1>4. NotBehind'
  BY <1>1 DEF NotBehind, ResumesAtChunk, NotImaging
<1>. QED BY <1>1, <1>3, <1>4 DEF ImagerInductive

LEMMA ImagerStutterKeeps == ASSUME ImagerInductive, UNCHANGED imagerVars PROVE ImagerInductive'
BY DEF ImagerInductive, ImagerTypeOK, Overlaid, Held, NotAhead, NotBehind, ResumesAtChunk, Saved,
       imagerVars, history

----------------------------------------------------------------------------
(* The invariant of the imager: it is one of every behaviour.              *)
THEOREM ImagerInvariant == ImagerSpec => []ImagerInductive
<1>1. ImagerInit => ImagerInductive
  BY ImagerInitHolds
<1>2. ImagerInductive /\ [ImagerNext]_imagerVars => ImagerInductive'
  BY StartImagingKeeps, CopyChunkKeeps, TruncateMarkKeeps, WriteMarkKeeps, FinishImagingKeeps,
     ImagingFailsKeeps, DisturbanceKeeps, ImagerStutterKeeps DEF ImagerNext
<1>. QED BY <1>1, <1>2, PTL DEF ImagerSpec

(* For every source, chunk size, file and checkpoint at the destination    *)
(* and history of kills, failures and resumed calls, an image reported     *)
(* complete is the source from where its copying began, and the file it    *)
(* was written over elsewhere.                                             *)
THEOREM ImageIsExact == ImagerSpec => []ImageExact
<1>1. ImagerInductive => ImageExact
  <2> SUFFICES ASSUME ImagerInductive, imaged.answer = "done", imaged.done = Total, ~disturbed
               PROVE  /\ Len(image) = Longer
                      /\ \A i \in 1..Longer :
                           image[i] = IF i \in begun + 1..Total THEN Source[i] ELSE Held(i)
    BY DEF ImageExact
  <2>1. reached = Total
    BY SourceFacts DEF ImagerInductive, ImagerTypeOK, NotAhead
  <2>. QED BY <2>1 DEF ImagerInductive, Overlaid, Longer
<1>. QED BY <1>1, ImagerInvariant, PTL

(* For every source of known length and every chunk size, a call resumes   *)
(* within a chunk of how far the image had got, unless the checkpoint was  *)
(* torn.                                                                   *)
THEOREM ImagingResumes == ImagerSpec => []ResumesAtChunk
<1>1. ImagerInductive => ResumesAtChunk
  BY DEF ImagerInductive, NotBehind
<1>. QED BY <1>1, ImagerInvariant, PTL

----------------------------------------------------------------------------
(* SIDECARRPC                                                              *)

Calling(c) == stage[c] \in {"register", "write", "wait"}

(* The mutex: only the command that holds it is in a call, ...             *)
OneCall == \A c \in Callers : Calling(c) <=> holder = c

(* ... so the bound on calls counts the calls that are still to come.      *)
ToCome == IF \E c \in Callers : stage[c] = "register" THEN 1 ELSE 0
WithinBound == nextId + Len(queue) + ToCome <= MaxCalls

(* An identifier names one call, wherever it is written.                   *)
IdNamesCall ==
  /\ \A c \in Callers : callId[c] = asked[c]
  /\ \A c \in Callers : stage[c] \in {"write", "wait"} => callId[c] \in Ids
  /\ \A i \in 1..Len(requests) : requests[i].id = requests[i].asked
  /\ serving # <<>> => serving.id = serving.asked
  /\ \A i \in 1..Len(answers) :
       answers[i] \notin {Text, Binary} => answers[i].id = answers[i].asked

(* Nothing is left in the channel of a command that is not waiting.        *)
ChannelsFresh ==
  \A c \in Callers : received[c] # NoLine => stage[c] \in {"write", "wait"}

SidecarInductive ==
  /\ SidecarTypeOK
  /\ OneCall
  /\ WithinBound
  /\ IdNamesCall
  /\ ChannelsFresh
  /\ AnswerToOwnCall

----------------------------------------------------------------------------
LEMMA SidecarInitHolds == SidecarInit => SidecarInductive
<1> SUFFICES ASSUME SidecarInit PROVE SidecarInductive
  OBVIOUS
<1>1. SidecarTypeOK
  BY SidecarAssumption DEF SidecarInit, SidecarTypeOK
<1>2. OneCall
  BY SidecarAssumption DEF SidecarInit, OneCall, Calling
<1>3. WithinBound
  BY SidecarAssumption DEF SidecarInit, WithinBound, ToCome
<1>4. IdNamesCall /\ ChannelsFresh /\ AnswerToOwnCall
  BY DEF SidecarInit, IdNamesCall, ChannelsFresh, AnswerToOwnCall
<1>. QED
  BY <1>1, <1>2, <1>3, <1>4 DEF SidecarInductive

LEMMA AskKeeps ==
  ASSUME SidecarInductive, NEW c \in Callers, Ask(c) PROVE SidecarInductive'
<1> USE DEF SidecarInductive
<1>1. /\ queue \in Seq(Callers) /\ nextId \in Nat /\ Len(queue) \in Nat
      /\ Len(queue') = Len(queue) + 1
  BY DEF SidecarTypeOK, Ask
<1>2. stage'[c] = "queued" /\ stage[c] = "idle" /\ \A x \in Callers \ {c} : stage'[x] = stage[x]
  BY DEF SidecarTypeOK, Ask
<1>3. SidecarTypeOK'
  BY DEF SidecarTypeOK, Ask, child
<1>4. OneCall'
  BY <1>2 DEF OneCall, Calling, Ask
<1>5. WithinBound'
  <2>1. ToCome' = ToCome
    BY <1>2 DEF ToCome
  <2>2. ToCome = 1 => holder # NoCaller
    BY SidecarAssumption DEF ToCome, OneCall, Calling
  <2>3. ToCome \in {0, 1}
    BY DEF ToCome
  <2>4. nextId + Len(queue) + (IF holder = NoCaller THEN 0 ELSE 1) < MaxCalls /\ nextId' = nextId
    BY DEF Ask
  <2>. QED
    BY <1>1, <2>1, <2>2, <2>3, <2>4, SidecarAssumption DEF WithinBound
<1>6. IdNamesCall' /\ AnswerToOwnCall'
  BY <1>2 DEF IdNamesCall, AnswerToOwnCall, Ask, child
<1>7. ChannelsFresh'
  BY <1>2 DEF ChannelsFresh, Ask
<1>. QED BY <1>3, <1>4, <1>5, <1>6, <1>7

LEMMA AcquireKeeps ==
  ASSUME SidecarInductive, NEW c \in Callers, Acquire(c) PROVE SidecarInductive'
<1> USE DEF SidecarInductive
<1>1. /\ queue \in Seq(Callers) /\ nextId \in Nat /\ Len(queue) \in Nat
      /\ queue' \in Seq(Callers) /\ Len(queue') = Len(queue) - 1
  BY DEF SidecarTypeOK, Acquire
<1>2. stage'[c] = "register" /\ \A x \in Callers \ {c} : stage'[x] = stage[x]
  BY DEF SidecarTypeOK, Acquire
<1>3. \A x \in Callers : ~Calling(x)
  BY SidecarAssumption DEF OneCall, Acquire
<1>4. SidecarTypeOK'
  BY <1>1 DEF SidecarTypeOK, Acquire, child
<1>5. OneCall'
  BY <1>2, <1>3 DEF OneCall, Calling, Acquire
<1>6. WithinBound'
  <2>1. ToCome = 0 /\ ToCome' = 1
    BY <1>2, <1>3 DEF ToCome, Calling
  <2>. QED
    BY <1>1, <2>1, SidecarAssumption DEF WithinBound, Acquire
<1>7. IdNamesCall' /\ AnswerToOwnCall'
  BY <1>2 DEF IdNamesCall, AnswerToOwnCall, Acquire, child
<1>8. ChannelsFresh'
  BY <1>2, <1>3 DEF ChannelsFresh, Calling, Acquire
<1>. QED BY <1>4, <1>5, <1>6, <1>7, <1>8

LEMMA RegisterKeeps ==
  ASSUME SidecarInductive, NEW c \in Callers, Register(c) PROVE SidecarInductive'
<1> USE DEF SidecarInductive
<1>1. queue \in Seq(Callers) /\ nextId \in Nat /\ Len(queue) \in Nat /\ MaxCalls \in Nat
  BY SidecarAssumption DEF SidecarTypeOK
<1>2. stage'[c] = "write" /\ stage[c] = "register" /\ \A x \in Callers \ {c} : stage'[x] = stage[x]
  BY DEF SidecarTypeOK, Register
<1>3. holder = c /\ \A x \in Callers \ {c} : ~Calling(x)
  BY <1>2 DEF OneCall, Calling
<1>4. ToCome = 1 /\ ToCome' = 0
  BY <1>2, <1>3 DEF ToCome, Calling
<1>5. nextId' = nextId + 1 /\ nextId' \in Ids
  BY <1>1, <1>4 DEF Register, WithinBound, Ids
<1>6. SidecarTypeOK'
  BY <1>1, <1>5 DEF SidecarTypeOK, Register, child, Ids
<1>7. OneCall'
  BY <1>2 DEF OneCall, Calling, Register
<1>8. WithinBound'
  BY <1>1, <1>4, <1>5 DEF WithinBound, Register
<1>9. IdNamesCall'
  BY <1>2, <1>5 DEF SidecarTypeOK, IdNamesCall, Register, child
<1>10. received[c] = NoLine
  BY <1>2 DEF ChannelsFresh
<1>11. ChannelsFresh' /\ AnswerToOwnCall'
  BY <1>2, <1>10 DEF SidecarTypeOK, ChannelsFresh, AnswerToOwnCall, Register
<1>. QED BY <1>6, <1>7, <1>8, <1>9, <1>11

LEMMA ReturnKeeps ==
  ASSUME SidecarInductive, NEW c \in Callers, stage[c] \in {"write", "wait"},
         NEW h \in {"ok", "error", "timeout", "broken"}, Return(c, h)
  PROVE  SidecarInductive'
<1> USE DEF SidecarInductive
<1>1. stage'[c] = "idle" /\ \A x \in Callers \ {c} : stage'[x] = stage[x]
  BY DEF SidecarTypeOK, Return
<1>2. received'[c] = NoLine /\ \A x \in Callers \ {c} : received'[x] = received[x]
  BY DEF SidecarTypeOK, Return
<1>3. holder = c /\ \A x \in Callers \ {c} : ~Calling(x)
  BY DEF OneCall, Calling
<1>4. SidecarTypeOK'
  BY DEF SidecarTypeOK, Return, child
<1>5. OneCall'
  BY <1>1, <1>3, SidecarAssumption DEF OneCall, Calling, Return
<1>6. ToCome' = ToCome
  BY <1>1 DEF ToCome
<1>7. WithinBound'
  BY <1>6 DEF WithinBound, Return
<1>8. IdNamesCall'
  BY <1>1 DEF IdNamesCall, Return, child
<1>9. ChannelsFresh' /\ AnswerToOwnCall'
  BY <1>1, <1>2 DEF ChannelsFresh, AnswerToOwnCall, Return
<1>. QED BY <1>4, <1>5, <1>7, <1>8, <1>9

LEMMA WriteKeeps ==
  ASSUME SidecarInductive, NEW c \in Callers, Write(c) PROVE SidecarInductive'
<1> USE DEF SidecarInductive
<1> DEFINE r == [id |-> callId[c], asked |-> asked[c]]
<1>1. stage'[c] = "wait" /\ stage[c] = "write" /\ \A x \in Callers \ {c} : stage'[x] = stage[x]
  BY DEF SidecarTypeOK, Write
<1>2. /\ requests \in Seq(Request) /\ Len(requests) \in Nat
      /\ Len(requests') = Len(requests) + 1
      /\ \A i \in 1..Len(requests') : requests'[i] = IF i <= Len(requests) THEN requests[i] ELSE r
  BY DEF SidecarTypeOK, Write
<1>3. r \in Request /\ r.id = r.asked
  BY <1>1 DEF IdNamesCall, Request
<1>4. requests' \in Seq(Request)
  BY <1>2, <1>3 DEF Write
<1>5. SidecarTypeOK'
  BY <1>4 DEF SidecarTypeOK, Write
<1>6. OneCall'
  BY <1>1 DEF OneCall, Calling, Write
<1>7. ToCome' = ToCome
  BY <1>1 DEF ToCome
<1>8. WithinBound'
  BY <1>7 DEF WithinBound, Write
<1>9. IdNamesCall'
  <2>. HIDE DEF r
  <2>. QED BY <1>1, <1>2, <1>3 DEF IdNamesCall, Write
<1>10. ChannelsFresh' /\ AnswerToOwnCall'
  BY <1>1 DEF ChannelsFresh, AnswerToOwnCall, Write
<1>. QED BY <1>5, <1>6, <1>8, <1>9, <1>10

(* The end of a call: an answer, a closed pipe or no answer in time.       *)
LEMMA EndOfCallKeeps ==
  ASSUME SidecarInductive, NEW c \in Callers, WriteFails(c) \/ Hear(c) \/ TimeOut(c)
  PROVE  SidecarInductive'
<1>1. CASE WriteFails(c)
  BY <1>1, ReturnKeeps DEF WriteFails
<1>2. CASE TimeOut(c)
  BY <1>2, ReturnKeeps DEF TimeOut
<1>3. CASE Hear(c)
  <2>1. received[c] \in AnswerLine
    BY <1>3 DEF Hear, SidecarInductive, SidecarTypeOK
  <2>2. received[c].result \in {"ok", "error"}
    BY <2>1 DEF AnswerLine
  <2>. QED BY <1>3, <2>2, ReturnKeeps DEF Hear
<1>. QED BY <1>1, <1>2, <1>3

LEMMA RouteKeeps == ASSUME SidecarInductive, Route PROVE SidecarInductive'
<1> USE DEF SidecarInductive
<1> DEFINE a == Head(answers)
<1>1. /\ answers \in Seq(AnswerLine \cup {Text, Binary}) /\ answers # <<>> /\ Len(answers) \in Nat
      /\ Len(answers) >= 1 /\ a = answers[1]
      /\ answers' \in Seq(AnswerLine \cup {Text, Binary}) /\ Len(answers') = Len(answers) - 1
      /\ \A i \in 1..Len(answers') : answers'[i] = answers[i + 1]
  BY DEF SidecarTypeOK, Route
<1>2. UNCHANGED <<queue, holder, nextId, stage, callId, asked, heard, requests, serving, alive,
                  noise, reading>>
  BY DEF Route
<1>3. a \in AnswerLine \cup {Text, Binary}
  BY <1>1, ElementOfSeq
<1>4. OneCall' /\ WithinBound'
  BY <1>2 DEF OneCall, Calling, WithinBound, ToCome
<1>5. IdNamesCall'
  BY <1>1, <1>2 DEF IdNamesCall
<1>6. CASE a # Text /\ a.id \in pending
  <2>1. a \in AnswerLine /\ a.id = a.asked
    BY <1>1, <1>3, <1>6 DEF Route, IdNamesCall
  <2>2. pending' = pending \ {a.id}
        /\ received' = [c \in Callers |-> IF stage[c] \in {"write", "wait"} /\ callId[c] = a.id
                                          THEN a ELSE received[c]]
    BY <1>6 DEF Route
  <2>. HIDE DEF a
  <2>3. SidecarTypeOK'
    BY <1>1, <1>2, <2>1, <2>2 DEF SidecarTypeOK
  <2>4. ChannelsFresh' /\ AnswerToOwnCall'
    BY <1>2, <2>1, <2>2 DEF ChannelsFresh, AnswerToOwnCall, IdNamesCall
  <2>. QED BY <1>4, <1>5, <2>3, <2>4
<1>7. CASE ~(a # Text /\ a.id \in pending)
  <2>1. UNCHANGED <<pending, received>>
    BY <1>7 DEF Route
  <2>2. SidecarTypeOK'
    BY <1>1, <1>2, <2>1 DEF SidecarTypeOK
  <2>. QED BY <1>2, <1>4, <1>5, <2>1, <2>2 DEF ChannelsFresh, AnswerToOwnCall
<1>. QED BY <1>6, <1>7

LEMMA ServeKeeps == ASSUME SidecarInductive, Serve PROVE SidecarInductive'
<1> USE DEF SidecarInductive
<1>1. /\ requests \in Seq(Request) /\ requests # <<>> /\ Len(requests) >= 1
      /\ Len(requests) \in Nat /\ serving' = requests[1]
      /\ requests' \in Seq(Request) /\ Len(requests') = Len(requests) - 1
      /\ \A i \in 1..Len(requests') : requests'[i] = requests[i + 1]
  BY DEF SidecarTypeOK, Serve
<1>2. serving' \in Request
  BY <1>1, ElementOfSeq
<1>3. SidecarTypeOK'
  BY <1>1, <1>2 DEF SidecarTypeOK, Serve
<1>4. IdNamesCall'
  BY <1>1 DEF IdNamesCall, Serve
<1>. QED
  BY <1>3, <1>4 DEF Serve, OneCall, Calling, WithinBound, ToCome, ChannelsFresh, AnswerToOwnCall

LEMMA ReplyKeeps == ASSUME SidecarInductive, Reply PROVE SidecarInductive'
<1> USE DEF SidecarInductive
<1>1. PICK r \in {"ok", "error"} :
        answers' = Append(answers, [id |-> serving.id, asked |-> serving.asked, result |-> r])
  BY DEF Reply
<1> DEFINE a == [id |-> serving.id, asked |-> serving.asked, result |-> r]
<1>2. serving \in Request /\ serving.id = serving.asked
  BY DEF Reply, SidecarTypeOK, IdNamesCall
<1>3. a \in AnswerLine /\ a.id = a.asked
  BY <1>2 DEF Request, AnswerLine
<1>. HIDE DEF a
<1>4. /\ answers \in Seq(AnswerLine \cup {Text, Binary}) /\ Len(answers) \in Nat
      /\ answers' = Append(answers, a)
  BY <1>1 DEF SidecarTypeOK, a
<1>5. /\ answers' \in Seq(AnswerLine \cup {Text, Binary}) /\ Len(answers') = Len(answers) + 1
      /\ \A i \in 1..Len(answers') : answers'[i] = IF i <= Len(answers) THEN answers[i] ELSE a
  BY <1>3, <1>4
<1>6. SidecarTypeOK'
  BY <1>5 DEF SidecarTypeOK, Reply
<1>7. IdNamesCall'
  BY <1>3, <1>4, <1>5 DEF IdNamesCall, Reply
<1>. QED
  BY <1>6, <1>7 DEF Reply, OneCall, Calling, WithinBound, ToCome, ChannelsFresh, AnswerToOwnCall

LEMMA NoiseKeeps == ASSUME SidecarInductive, Noise PROVE SidecarInductive'
<1> USE DEF SidecarInductive
<1>1. PICK l \in {Text, Binary} : answers' = Append(answers, l)
  BY DEF Noise
<1>2. /\ answers \in Seq(AnswerLine \cup {Text, Binary}) /\ Len(answers) \in Nat
      /\ answers' \in Seq(AnswerLine \cup {Text, Binary}) /\ Len(answers') = Len(answers) + 1
      /\ \A i \in 1..Len(answers') : answers'[i] = IF i <= Len(answers) THEN answers[i] ELSE l
  BY <1>1 DEF SidecarTypeOK
<1>3. SidecarTypeOK'
  BY <1>2, SidecarAssumption DEF SidecarTypeOK, Noise
<1>4. IdNamesCall'
  BY <1>2 DEF IdNamesCall, Noise
<1>. QED
  BY <1>3, <1>4 DEF Noise, OneCall, Calling, WithinBound, ToCome, ChannelsFresh, AnswerToOwnCall

LEMMA EndsKeep ==
  ASSUME SidecarInductive, ReaderEnds \/ SidecarDies \/ UNCHANGED sidecarVars
  PROVE  SidecarInductive'
<1> USE DEF SidecarInductive
<1>1. /\ UNCHANGED <<queue, holder, nextId, pending, stage, callId, asked, received, heard, answers,
                     noise>>
      /\ UNCHANGED <<requests, serving>> \/ (requests' = <<>> /\ serving' = <<>>)
      /\ alive' \in {alive, FALSE} /\ reading' \in {reading, FALSE}
  BY DEF ReaderEnds, SidecarDies, sidecarVars, child
<1>2. alive' \in BOOLEAN /\ reading' \in BOOLEAN
  BY <1>1, Zenon DEF SidecarTypeOK
<1>3. requests' \in Seq(Request) /\ serving' \in Request \cup {<<>>}
  <2>1. CASE UNCHANGED <<requests, serving>>
    BY <2>1 DEF SidecarTypeOK
  <2>2. CASE requests' = <<>> /\ serving' = <<>>
    BY <2>2
  <2>. QED BY <1>1, <2>1, <2>2
<1>4. SidecarTypeOK'
  BY <1>1, <1>2, <1>3 DEF SidecarTypeOK
<1>5. IdNamesCall'
  BY <1>1 DEF IdNamesCall
<1>. QED
  BY <1>1, <1>4, <1>5 DEF OneCall, Calling, WithinBound, ToCome, ChannelsFresh, AnswerToOwnCall

----------------------------------------------------------------------------
(* The invariant of the protocol: it is one of every behaviour.            *)
THEOREM SidecarInvariant == SidecarSpec => []SidecarInductive
<1>1. SidecarInit => SidecarInductive
  BY SidecarInitHolds
<1>2. SidecarInductive /\ [SidecarNext]_sidecarVars => SidecarInductive'
  BY AskKeeps, AcquireKeeps, RegisterKeeps, WriteKeeps, EndOfCallKeeps, RouteKeeps, ServeKeeps,
     ReplyKeeps, NoiseKeeps, EndsKeep DEF SidecarNext, CallStep
<1>. QED BY <1>1, <1>2, PTL DEF SidecarSpec

(* For every number of commands, calls and stray lines, and every size of  *)
(* the pipe, a command is given the answer to its own request, however     *)
(* many calls have timed out before it.                                    *)
THEOREM AnswersReachTheirCall == SidecarSpec => []AnswerToOwnCall
<1>1. SidecarInductive => AnswerToOwnCall
  BY DEF SidecarInductive
<1>. QED BY <1>1, SidecarInvariant, PTL

----------------------------------------------------------------------------
(* EVENTINDEX                                                              *)

(* What Keep does to the empty sequence and to one that grows.             *)
LEMMA KeepSteps ==
  ASSUME NEW A
  PROVE  /\ Keep(<<>>, A) = <<>>
         /\ \A s \in Seq(Event) : Keep(s, A) \in Seq(Event)
         /\ \A s \in Seq(Event), e \in Event :
              Keep(Append(s, e), A) = IF e \in A THEN Append(Keep(s, A), e) ELSE Keep(s, A)
<1> DEFINE V == Seq(Event)
           Act(v, e) == IF e \in A THEN Append(v, e) ELSE v
           F == [p \in V \X Event |-> Act(p[1], p[2])]
<1>1. ASSUME NEW v \in V, NEW e \in Event PROVE Act(v, e) \in V
  OBVIOUS
<1> HIDE DEF Act
<1>2. <<>> \in V
  OBVIOUS
<1>3. F \in [V \X Event -> V]
  BY <1>1
<1>4. \A v \in V, e \in Event : F[v, e] = Act(v, e)
  OBVIOUS
<1> HIDE DEF F, V
<1>5. PICK R : IsFold(R, V, Event, F, <<>>) /\ Reached(R, V, Event, F, <<>>)
  <2>1. IsStep(F, V, Event)
    BY <1>3 DEF IsStep
  <2>. QED BY <1>2, <2>1, FoldOf
<1>6. ASSUME NEW s \in Seq(Event) PROVE Keep(s, A) = R[s]
  <2> DEFINE Solves(it) == it = [t \in SUBSET DOMAIN s |->
                IF t = {} THEN <<>> ELSE Act(it[t \ {Max(t)}], s[Max(t)])]
  <2>1. Keep(s, A) = (CHOOSE it : Solves(it))[DOMAIN s]
    BY DEF Keep, FoldLeft, MapThenFoldSet, Act
  <2>2. \E it : Solves(it)
    <3>1. PICK it : /\ it = [t \in SUBSET DOMAIN s |-> it[t]]
                    /\ it[{}] = <<>>
                    /\ \A t \in SUBSET DOMAIN s : t # {} =>
                         /\ it[t] = F[it[t \ {Max(t)}], s[Max(t)]]
                         /\ it[t \ {Max(t)}] \in V /\ s[Max(t)] \in Event
      BY <1>5, FoldSolution
    <3>2. ASSUME NEW t \in SUBSET DOMAIN s
          PROVE  it[t] = IF t = {} THEN <<>> ELSE Act(it[t \ {Max(t)}], s[Max(t)])
      BY <1>4, <3>1
    <3>. QED BY <3>1, <3>2
  <2>3. PICK c : Solves(c) /\ Keep(s, A) = c[DOMAIN s]
    BY <2>1, <2>2, Zenon
  <2>4. ASSUME NEW t \in SUBSET DOMAIN s, t # {}, c[t \ {Max(t)}] \in V
        PROVE  c[t] = F[c[t \ {Max(t)}], s[Max(t)]]
    <3>1. s[Max(t)] \in Event
      BY <1>5, <2>4, FoldSolution
    <3>2. c[t] = Act(c[t \ {Max(t)}], s[Max(t)])
      BY <2>3, <2>4
    <3>. QED BY <2>4, <3>1, <3>2, <1>4
  <2>5. c[{}] = <<>>
    BY <2>3
  <2>6. Value(R, V, F, <<>>, s)
    BY <1>5, FoldValue
  <2>. QED BY <2>3, <2>4, <2>5, <2>6 DEF Value
<1>7. <<>> \in Seq(Event) /\ \A s \in Seq(Event), e \in Event : Append(s, e) \in Seq(Event)
  OBVIOUS
<1>8. Keep(<<>>, A) = <<>>
  BY <1>5, <1>6, <1>7 DEF IsFold
<1>9. \A s \in Seq(Event) : R[s] \in V
  BY <1>5 DEF IsFold
<1>10. ASSUME NEW s \in Seq(Event), NEW e \in Event
       PROVE  Keep(Append(s, e), A) = IF e \in A THEN Append(Keep(s, A), e) ELSE Keep(s, A)
  <2>1. R[Append(s, e)] = F[R[s], e]
    BY <1>5 DEF IsFold
  <2>. QED BY <2>1, <1>4, <1>6, <1>7, <1>9 DEF Act
<1>. QED BY <1>6, <1>8, <1>9, <1>10 DEF V

(* What a sort does to them.                                               *)
LEMMA SortedSteps ==
  ASSUME NEW key
  PROVE  /\ SortedBy(key, <<>>) = <<>>
         /\ \A s \in Seq(Event) : SortedBy(key, s) \in Seq(Event)
         /\ \A s \in Seq(Event), e \in Event :
              SortedBy(key, Append(s, e)) = Insert(key, SortedBy(key, s), e)
<1> DEFINE V == Seq(Event)
           Act(v, e) == Insert(key, v, e)
           F == [p \in V \X Event |-> Act(p[1], p[2])]
<1>1. ASSUME NEW v \in V, NEW e \in Event PROVE Act(v, e) \in V
  <2>1. Keep(v, Until(key, e.ts)) \in Seq(Event) /\ Keep(v, After(key, e.ts)) \in Seq(Event)
    BY KeepSteps
  <2>2. <<e>> \in Seq(Event)
    OBVIOUS
  <2>. QED BY <2>1, <2>2 DEF Insert
<1> HIDE DEF Act
<1>2. <<>> \in V
  OBVIOUS
<1>3. F \in [V \X Event -> V]
  BY <1>1
<1>4. \A v \in V, e \in Event : F[v, e] = Act(v, e)
  OBVIOUS
<1> HIDE DEF F, V
<1>5. PICK R : IsFold(R, V, Event, F, <<>>) /\ Reached(R, V, Event, F, <<>>)
  <2>1. IsStep(F, V, Event)
    BY <1>3 DEF IsStep
  <2>. QED BY <1>2, <2>1, FoldOf
<1>6. ASSUME NEW s \in Seq(Event) PROVE SortedBy(key, s) = R[s]
  <2> DEFINE Solves(it) == it = [t \in SUBSET DOMAIN s |->
                IF t = {} THEN <<>> ELSE Act(it[t \ {Max(t)}], s[Max(t)])]
  <2>1. SortedBy(key, s) = (CHOOSE it : Solves(it))[DOMAIN s]
    BY DEF SortedBy, FoldLeft, MapThenFoldSet, Act
  <2>2. \E it : Solves(it)
    <3>1. PICK it : /\ it = [t \in SUBSET DOMAIN s |-> it[t]]
                    /\ it[{}] = <<>>
                    /\ \A t \in SUBSET DOMAIN s : t # {} =>
                         /\ it[t] = F[it[t \ {Max(t)}], s[Max(t)]]
                         /\ it[t \ {Max(t)}] \in V /\ s[Max(t)] \in Event
      BY <1>5, FoldSolution
    <3>2. ASSUME NEW t \in SUBSET DOMAIN s
          PROVE  it[t] = IF t = {} THEN <<>> ELSE Act(it[t \ {Max(t)}], s[Max(t)])
      BY <1>4, <3>1
    <3>. QED BY <3>1, <3>2
  <2>3. PICK c : Solves(c) /\ SortedBy(key, s) = c[DOMAIN s]
    BY <2>1, <2>2, Zenon
  <2>4. ASSUME NEW t \in SUBSET DOMAIN s, t # {}, c[t \ {Max(t)}] \in V
        PROVE  c[t] = F[c[t \ {Max(t)}], s[Max(t)]]
    <3>1. s[Max(t)] \in Event
      BY <1>5, <2>4, FoldSolution
    <3>2. c[t] = Act(c[t \ {Max(t)}], s[Max(t)])
      BY <2>3, <2>4
    <3>. QED BY <2>4, <3>1, <3>2, <1>4
  <2>5. c[{}] = <<>>
    BY <2>3
  <2>6. Value(R, V, F, <<>>, s)
    BY <1>5, FoldValue
  <2>. QED BY <2>3, <2>4, <2>5, <2>6 DEF Value
<1>7. <<>> \in Seq(Event) /\ \A s \in Seq(Event), e \in Event : Append(s, e) \in Seq(Event)
  OBVIOUS
<1>8. SortedBy(key, <<>>) = <<>>
  BY <1>5, <1>6, <1>7 DEF IsFold
<1>9. \A s \in Seq(Event) : R[s] \in V
  BY <1>5 DEF IsFold
<1>10. ASSUME NEW s \in Seq(Event), NEW e \in Event
       PROVE  SortedBy(key, Append(s, e)) = Insert(key, SortedBy(key, s), e)
  <2>1. R[Append(s, e)] = F[R[s], e]
    BY <1>5 DEF IsFold
  <2>. QED BY <2>1, <1>4, <1>6, <1>7, <1>9 DEF Act
<1>. QED BY <1>6, <1>8, <1>9, <1>10 DEF V

(* Words and their signed values are integers.                             *)
LEMMA WordTypes ==
  /\ \A t \in Word : t \in Nat /\ t <= Latest /\ SignedTime[t] \in Int /\ PlainTime[t] = t
  /\ \A t \in Word : Fits(t) => SignedTime[t] = t
  /\ Latest \in Int
  /\ \A e \in Event : e.ts \in Word
<1>1. 2^Width \in Int /\ 2^(Width - 1) \in Int
  BY EventIndexAssumption
<1>2. \A t \in Word : t \in Nat /\ t <= Latest
  BY <1>1 DEF Word, Latest
<1>3. \A t \in Word : SignedTime[t] \in Int /\ (Fits(t) => SignedTime[t] = t) /\ PlainTime[t] = t
  BY <1>1, <1>2 DEF SignedTime, AsSigned, Fits, PlainTime
<1>4. \A e \in Event : e.ts \in Word
  BY DEF Event
<1>. QED BY <1>1, <1>2, <1>3, <1>4 DEF Latest

(* Applied yields the state of a file or panics.                           *)
LEMMA AppliedType ==
  ASSUME NEW f \in FileState, NEW e \in Event
  PROVE  Applied(f, e) \in FileState \cup {Panic}
<1>1. CASE e.op.kind = "write"
  <2>1. e.op.content \in Seq(Letters)
    BY <1>1 DEF Event, Op
  <2>. QED BY <1>1, <2>1 DEF Applied, FileState, Event
<1>2. CASE e.op.kind = "delete"
  BY <1>2 DEF Applied, FileState, Event
<1>3. CASE e.op.kind = "patch"
  <2>1. e.op.offset \in Nat /\ e.op.delete \in Nat /\ e.op.insert \in Seq(Letters)
    BY <1>3, WordTypes DEF Event, Op
  <2>2. Patched(f.bytes, e.op) \in Seq(Letters) \cup {Panic}
    <3> DEFINE start == IF e.op.offset < Len(f.bytes) THEN e.op.offset ELSE Len(f.bytes)
    <3>1. f.bytes \in Seq(Letters) /\ Len(f.bytes) \in Nat /\ start \in 0..Len(f.bytes)
      BY <2>1 DEF FileState
    <3>2. SubSeq(f.bytes, 1, start) \in Seq(Letters)
      BY <3>1
    <3> HIDE DEF start
    <3>3. SubSeq(f.bytes, start + e.op.delete + 1, Len(f.bytes)) \in Seq(Letters)
      BY <2>1, <3>1
    <3>4. SubSeq(f.bytes, 1, start) \o e.op.insert
            \o SubSeq(f.bytes, start + e.op.delete + 1, Len(f.bytes)) \in Seq(Letters)
      BY <2>1, <3>2, <3>3
    <3>. QED BY <3>4 DEF Patched, start
  <2>3. e.ts \in Word /\ f.patches + 1 \in Nat
    BY DEF Event, FileState
  <2>. QED BY <1>3, <2>2, <2>3 DEF Applied, FileState
<1>. QED BY <1>1, <1>2, <1>3 DEF Event, Op

LEMMA NewFileType ==
  ASSUME NEW e \in Event
  PROVE  NewFile \in FileState /\ NewFile # Panic
<1>1. 0 \in Word
  <2>1. e.ts \in Word /\ 2^Width \in Int
    BY EventIndexAssumption, WordTypes
  <2>. QED BY <2>1 DEF Word
<1>2. NewFile \in FileState
  BY <1>1 DEF NewFile, FileState
<1>. QED BY <1>2, EventIndexAssumption

(* What a replay comes to: files, or a panic.                              *)
Workspaces == (UNION {[P -> FileState] : P \in SUBSET Paths}) \cup {Panic}

LEMMA WorkspaceType ==
  \A w : w \in Workspaces <=> w = Panic \/ \E P \in SUBSET Paths : w \in [P -> FileState]
<1> DEFINE Maps == {[P -> FileState] : P \in SUBSET Paths}
<1>1. \A w : w \in UNION Maps <=> \E S \in Maps : w \in S
  OBVIOUS
<1>2. \A w : (\E S \in Maps : w \in S) <=> \E P \in SUBSET Paths : w \in [P -> FileState]
  BY Zenon
<1>. QED BY <1>1, <1>2, Zenon DEF Workspaces

(* The events of one file, applied one after another.                      *)
Folded(events) ==
  FoldLeft(LAMBDA f, e : IF f = Panic THEN Panic ELSE Applied(f, e), NewFile, events)

(* What a replay does, event by event.                                     *)
LEMMA ReplaySteps ==
  /\ Replay(<<>>) = <<>>
  /\ \A s \in Seq(Event) : Replay(s) \in Workspaces
  /\ \A s \in Seq(Event), e \in Event :
       Replay(Append(s, e)) = Stepped(Replay(s), e)
<1> DEFINE V == Workspaces
           Act(v, e) == Stepped(v, e)
           F == [p \in V \X Event |-> Act(p[1], p[2])]
<1>1. ASSUME NEW v \in V, NEW e \in Event PROVE Act(v, e) \in V
  <2>1. SUFFICES ASSUME v # Panic PROVE Stepped(v, e) \in V
    BY WorkspaceType DEF Stepped
  <2>2. PICK P \in SUBSET Paths : v \in [P -> FileState]
    BY <2>1, WorkspaceType
  <2> DEFINE old == IF e.path \in DOMAIN v THEN v[e.path] ELSE NewFile
             new == Applied(old, e)
  <2>3. old \in FileState
    BY <2>2, NewFileType
  <2>4. new \in FileState \cup {Panic}
    BY <2>3, AppliedType
  <2>5. P \cup {e.path} \in SUBSET Paths
    BY DEF Event
  <2> HIDE DEF old, new
  <2>6. new # Panic =>
          [p \in DOMAIN v \cup {e.path} |-> IF p = e.path THEN new ELSE v[p]]
            \in [P \cup {e.path} -> FileState]
    BY <2>2, <2>4
  <2>7. Stepped(v, e) = IF v = Panic \/ new = Panic THEN Panic
          ELSE [p \in DOMAIN v \cup {e.path} |-> IF p = e.path THEN new ELSE v[p]]
    BY DEF Stepped, new, old
  <2>. QED BY <2>1, <2>5, <2>6, <2>7, WorkspaceType
<1> HIDE DEF Act
<1>2. <<>> \in V
  <2>1. <<>> \in [{} -> FileState]
    OBVIOUS
  <2>. QED BY <2>1, WorkspaceType
<1>3. F \in [V \X Event -> V]
  BY <1>1
<1>4. \A v \in V, e \in Event : F[v, e] = Act(v, e)
  OBVIOUS
<1> HIDE DEF F, V
<1>5. PICK R : IsFold(R, V, Event, F, <<>>) /\ Reached(R, V, Event, F, <<>>)
  <2>1. IsStep(F, V, Event)
    BY <1>3 DEF IsStep
  <2>. QED BY <1>2, <2>1, FoldOf
<1>6. ASSUME NEW s \in Seq(Event) PROVE Replay(s) = R[s]
  <2> DEFINE Solves(it) == it = [t \in SUBSET DOMAIN s |->
                IF t = {} THEN <<>> ELSE Act(it[t \ {Max(t)}], s[Max(t)])]
  <2>1. Replay(s) = (CHOOSE it : Solves(it))[DOMAIN s]
    BY DEF Replay, FoldLeft, MapThenFoldSet, Act
  <2>2. \E it : Solves(it)
    <3>1. PICK it : /\ it = [t \in SUBSET DOMAIN s |-> it[t]]
                    /\ it[{}] = <<>>
                    /\ \A t \in SUBSET DOMAIN s : t # {} =>
                         /\ it[t] = F[it[t \ {Max(t)}], s[Max(t)]]
                         /\ it[t \ {Max(t)}] \in V /\ s[Max(t)] \in Event
      BY <1>5, FoldSolution
    <3>2. ASSUME NEW t \in SUBSET DOMAIN s
          PROVE  it[t] = IF t = {} THEN <<>> ELSE Act(it[t \ {Max(t)}], s[Max(t)])
      BY <1>4, <3>1
    <3>. QED BY <3>1, <3>2
  <2>3. PICK c : Solves(c) /\ Replay(s) = c[DOMAIN s]
    BY <2>1, <2>2, Zenon
  <2>4. ASSUME NEW t \in SUBSET DOMAIN s, t # {}, c[t \ {Max(t)}] \in V
        PROVE  c[t] = F[c[t \ {Max(t)}], s[Max(t)]]
    <3>1. s[Max(t)] \in Event
      BY <1>5, <2>4, FoldSolution
    <3>2. c[t] = Act(c[t \ {Max(t)}], s[Max(t)])
      BY <2>3, <2>4
    <3>. QED BY <2>4, <3>1, <3>2, <1>4
  <2>5. c[{}] = <<>>
    BY <2>3
  <2>6. Value(R, V, F, <<>>, s)
    BY <1>5, FoldValue
  <2>. QED BY <2>3, <2>4, <2>5, <2>6 DEF Value
<1>7. <<>> \in Seq(Event) /\ \A s \in Seq(Event), e \in Event : Append(s, e) \in Seq(Event)
  OBVIOUS
<1>8. Replay(<<>>) = <<>>
  BY <1>5, <1>6, <1>7 DEF IsFold
<1>9. \A s \in Seq(Event) : R[s] \in V
  BY <1>5 DEF IsFold
<1>10. ASSUME NEW s \in Seq(Event), NEW e \in Event
       PROVE  Replay(Append(s, e)) = Stepped(Replay(s), e)
  <2>1. R[Append(s, e)] = F[R[s], e]
    BY <1>5 DEF IsFold
  <2>. QED BY <2>1, <1>4, <1>6, <1>7, <1>9 DEF Act
<1>. QED BY <1>6, <1>8, <1>9, <1>10 DEF V

(* What it does to one file.                                               *)
LEMMA FoldedSteps ==
  /\ Folded(<<>>) = NewFile
  /\ \A s \in Seq(Event) : Folded(s) \in FileState \cup {NewFile, Panic}
  /\ \A s \in Seq(Event), e \in Event :
       Folded(Append(s, e)) = IF Folded(s) = Panic THEN Panic ELSE Applied(Folded(s), e)
<1> DEFINE V == FileState \cup {NewFile, Panic}
           Act(v, e) == IF v = Panic THEN Panic ELSE Applied(v, e)
           F == [p \in V \X Event |-> Act(p[1], p[2])]
<1>1. ASSUME NEW v \in V, NEW e \in Event PROVE Act(v, e) \in V
  BY AppliedType, NewFileType
<1> HIDE DEF Act
<1>2. NewFile \in V
  OBVIOUS
<1>3. F \in [V \X Event -> V]
  BY <1>1
<1>4. \A v \in V, e \in Event : F[v, e] = Act(v, e)
  OBVIOUS
<1> HIDE DEF F, V
<1>5. PICK R : IsFold(R, V, Event, F, NewFile) /\ Reached(R, V, Event, F, NewFile)
  <2>1. IsStep(F, V, Event)
    BY <1>3 DEF IsStep
  <2>. QED BY <1>2, <2>1, FoldOf
<1>6. ASSUME NEW s \in Seq(Event) PROVE Folded(s) = R[s]
  <2> DEFINE Solves(it) == it = [t \in SUBSET DOMAIN s |->
                IF t = {} THEN NewFile ELSE Act(it[t \ {Max(t)}], s[Max(t)])]
  <2>1. Folded(s) = (CHOOSE it : Solves(it))[DOMAIN s]
    BY DEF Folded, FoldLeft, MapThenFoldSet, Act
  <2>2. \E it : Solves(it)
    <3>1. PICK it : /\ it = [t \in SUBSET DOMAIN s |-> it[t]]
                    /\ it[{}] = NewFile
                    /\ \A t \in SUBSET DOMAIN s : t # {} =>
                         /\ it[t] = F[it[t \ {Max(t)}], s[Max(t)]]
                         /\ it[t \ {Max(t)}] \in V /\ s[Max(t)] \in Event
      BY <1>5, FoldSolution
    <3>2. ASSUME NEW t \in SUBSET DOMAIN s
          PROVE  it[t] = IF t = {} THEN NewFile ELSE Act(it[t \ {Max(t)}], s[Max(t)])
      BY <1>4, <3>1
    <3>. QED BY <3>1, <3>2
  <2>3. PICK c : Solves(c) /\ Folded(s) = c[DOMAIN s]
    BY <2>1, <2>2, Zenon
  <2>4. ASSUME NEW t \in SUBSET DOMAIN s, t # {}, c[t \ {Max(t)}] \in V
        PROVE  c[t] = F[c[t \ {Max(t)}], s[Max(t)]]
    <3>1. s[Max(t)] \in Event
      BY <1>5, <2>4, FoldSolution
    <3>2. c[t] = Act(c[t \ {Max(t)}], s[Max(t)])
      BY <2>3, <2>4
    <3>. QED BY <2>4, <3>1, <3>2, <1>4
  <2>5. c[{}] = NewFile
    BY <2>3
  <2>6. Value(R, V, F, NewFile, s)
    BY <1>5, FoldValue
  <2>. QED BY <2>3, <2>4, <2>5, <2>6 DEF Value
<1>7. <<>> \in Seq(Event) /\ \A s \in Seq(Event), e \in Event : Append(s, e) \in Seq(Event)
  OBVIOUS
<1>8. Folded(<<>>) = NewFile
  BY <1>5, <1>6, <1>7 DEF IsFold
<1>9. \A s \in Seq(Event) : R[s] \in V
  BY <1>5 DEF IsFold
<1>10. ASSUME NEW s \in Seq(Event), NEW e \in Event
       PROVE  Folded(Append(s, e)) = IF Folded(s) = Panic THEN Panic ELSE Applied(Folded(s), e)
  <2>1. R[Append(s, e)] = F[R[s], e]
    BY <1>5 DEF IsFold
  <2>. QED BY <2>1, <1>4, <1>6, <1>7, <1>9 DEF Act
<1>. QED BY <1>6, <1>8, <1>9, <1>10 DEF V

----------------------------------------------------------------------------
(* Two facts about sequences.                                              *)
LEMMA AppendConcat ==
  ASSUME NEW x \in Seq(Event), NEW y \in Seq(Event), NEW e \in Event
  PROVE  Append(x \o y, e) = x \o Append(y, e)
OBVIOUS

LEMMA AppendType ==
  ASSUME NEW x \in Seq(Event), NEW e \in Event
  PROVE  Append(x, e) \in Seq(Event) /\ <<e>> = Append(<<>>, e) /\ <<>> \in Seq(Event)
OBVIOUS

LEMMA KeepAppend ==
  ASSUME NEW A, NEW x \in Seq(Event), NEW e \in Event
  PROVE  /\ Keep(x, A) \in Seq(Event)
         /\ e \in A => Keep(Append(x, e), A) = Append(Keep(x, A), e)
         /\ e \notin A => Keep(Append(x, e), A) = Keep(x, A)
BY KeepSteps

(* Keep of two sequences, one after the other.                             *)
LEMMA KeepConcat ==
  ASSUME NEW A, NEW x \in Seq(Event), NEW y \in Seq(Event)
  PROVE  Keep(x \o y, A) = Keep(x, A) \o Keep(y, A)
<1> DEFINE T == {z \in Seq(Event) : Keep(x \o z, A) = Keep(x, A) \o Keep(z, A)}
<1>1. <<>> \in T
  <2>1. Keep(x, A) \in Seq(Event) /\ Keep(<<>>, A) = <<>>
    BY KeepSteps
  <2>2. x \o <<>> = x /\ Keep(x, A) \o <<>> = Keep(x, A)
    BY <2>1
  <2>. QED BY <2>1, <2>2
<1>2. ASSUME NEW z \in Seq(Event), NEW e \in Event, z \in T PROVE Append(z, e) \in T
  <2>1. /\ Keep(x \o z, A) = Keep(x, A) \o Keep(z, A)
        /\ x \o z \in Seq(Event) /\ Append(z, e) \in Seq(Event)
        /\ x \o Append(z, e) = Append(x \o z, e)
    BY <1>2
  <2>2. Keep(x, A) \in Seq(Event) /\ Keep(z, A) \in Seq(Event)
    BY KeepSteps
  <2>3. Append(Keep(x, A) \o Keep(z, A), e) = Keep(x, A) \o Append(Keep(z, A), e)
    BY <2>2, AppendConcat
  <2>4. CASE e \in A
    <3>1. Keep(Append(x \o z, e), A) = Append(Keep(x \o z, A), e)
      BY <2>1, <2>4, KeepAppend
    <3>2. Keep(Append(z, e), A) = Append(Keep(z, A), e)
      BY <2>4, KeepAppend
    <3>. QED BY <2>1, <2>3, <3>1, <3>2
  <2>5. CASE e \notin A
    <3>1. Keep(Append(x \o z, e), A) = Keep(x \o z, A) /\ Keep(Append(z, e), A) = Keep(z, A)
      BY <2>1, <2>5, KeepAppend
    <3>. QED BY <2>1, <3>1
  <2>. QED BY <2>4, <2>5
<1> HIDE DEF T
<1>3. Seq(Event) \subseteq T
  BY <1>1, <1>2, SeqSetInduction
<1>. QED BY <1>3 DEF T

(* C has the events that A and B both have.                                *)
Meets(C, A, B) == \A e \in Event : e \in C <=> e \in A /\ e \in B

(* What was kept of what was kept; only the events count.                  *)
LEMMA KeepKeep ==
  ASSUME NEW A, NEW B, NEW C, NEW x \in Seq(Event), Meets(C, A, B)
  PROVE  Keep(Keep(x, A), B) = Keep(x, C)
<1> DEFINE T == {z \in Seq(Event) : Keep(Keep(z, A), B) = Keep(z, C)}
<1>0. \A e \in Event : e \in C <=> e \in A /\ e \in B
  BY DEF Meets
<1>1. <<>> \in T
  BY KeepSteps
<1>2. ASSUME NEW z \in Seq(Event), NEW e \in Event, z \in T PROVE Append(z, e) \in T
  <2>1. Keep(Keep(z, A), B) = Keep(z, C) /\ Keep(z, A) \in Seq(Event)
    BY <1>2, KeepSteps
  <2>2. Append(z, e) \in Seq(Event)
    BY AppendType
  <2>3. CASE e \in A /\ e \in B
    <3>1. Keep(Append(z, e), A) = Append(Keep(z, A), e)
      BY <2>3, KeepAppend
    <3>2. Keep(Append(Keep(z, A), e), B) = Append(Keep(Keep(z, A), B), e)
      BY <2>1, <2>3, KeepAppend
    <3>3. Keep(Append(z, e), C) = Append(Keep(z, C), e)
      BY <1>0, <2>3, KeepAppend
    <3>. QED BY <2>1, <2>2, <3>1, <3>2, <3>3
  <2>4. CASE e \in A /\ e \notin B
    <3>1. Keep(Append(z, e), A) = Append(Keep(z, A), e)
      BY <2>4, KeepAppend
    <3>2. Keep(Append(Keep(z, A), e), B) = Keep(Keep(z, A), B)
      BY <2>1, <2>4, KeepAppend
    <3>3. Keep(Append(z, e), C) = Keep(z, C)
      BY <1>0, <2>4, KeepAppend
    <3>. QED BY <2>1, <2>2, <3>1, <3>2, <3>3
  <2>5. CASE e \notin A
    <3>1. Keep(Append(z, e), A) = Keep(z, A) /\ Keep(Append(z, e), C) = Keep(z, C)
      BY <1>0, <2>5, KeepAppend
    <3>. QED BY <2>1, <2>2, <3>1
  <2>. QED BY <2>3, <2>4, <2>5
<1> HIDE DEF T
<1>3. Seq(Event) \subseteq T
  BY <1>1, <1>2, SeqSetInduction
<1>. QED BY <1>3 DEF T

(* Nothing is dropped when every event is wanted.                          *)
LEMMA KeepAll ==
  ASSUME NEW A, NEW x \in Seq(Event), \A n \in DOMAIN x : x[n] \in A
  PROVE  Keep(x, A) = x
<1> DEFINE T == {z \in Seq(Event) : (\A n \in DOMAIN z : z[n] \in A) => Keep(z, A) = z}
<1>1. <<>> \in T
  BY KeepSteps
<1>2. ASSUME NEW z \in Seq(Event), NEW e \in Event, z \in T PROVE Append(z, e) \in T
  <2>1. SUFFICES ASSUME \A n \in DOMAIN Append(z, e) : Append(z, e)[n] \in A
                 PROVE  Keep(Append(z, e), A) = Append(z, e)
    BY AppendType
  <2>2. /\ Len(z) + 1 \in DOMAIN Append(z, e) /\ Append(z, e)[Len(z) + 1] = e
        /\ \A n \in DOMAIN z : n \in DOMAIN Append(z, e) /\ Append(z, e)[n] = z[n]
    OBVIOUS
  <2>3. Keep(z, A) = z /\ e \in A
    BY <1>2, <2>1, <2>2
  <2>. QED BY <2>3, KeepAppend
<1> HIDE DEF T
<1>3. Seq(Event) \subseteq T
  BY <1>1, <1>2, SeqSetInduction
<1>. QED BY <1>3 DEF T

LEMMA KeepNone ==
  ASSUME NEW A, NEW x \in Seq(Event), \A e \in Event : e \notin A
  PROVE  Keep(x, A) = <<>>
<1> DEFINE T == {z \in Seq(Event) : Keep(z, A) = <<>>}
<1>1. <<>> \in T
  BY KeepSteps
<1>2. ASSUME NEW z \in Seq(Event), NEW e \in Event, z \in T PROVE Append(z, e) \in T
  <2>1. Append(z, e) \in Seq(Event) /\ Keep(z, A) = <<>>
    BY <1>2, AppendType
  <2>2. Keep(Append(z, e), A) = Keep(z, A)
    BY KeepAppend
  <2>. QED BY <2>1, <2>2
<1> HIDE DEF T
<1>3. Seq(Event) \subseteq T
  BY <1>1, <1>2, SeqSetInduction
<1>. QED BY <1>3 DEF T

----------------------------------------------------------------------------
(* Concatenation, the sequence of one event and its time, by name.         *)
Cat(x, y) == x \o y
One(e) == <<e>>
Moment(e) == e.ts

LEMMA CatType ==
  ASSUME NEW x \in Seq(Event), NEW y \in Seq(Event)
  PROVE  Cat(x, y) \in Seq(Event)
BY DEF Cat

LEMMA CatAssociates ==
  ASSUME NEW x \in Seq(Event), NEW y \in Seq(Event), NEW z \in Seq(Event)
  PROVE  Cat(Cat(x, y), z) = Cat(x, Cat(y, z))
BY DEF Cat

LEMMA CatEmpty ==
  ASSUME NEW x \in Seq(Event)
  PROVE  Cat(x, <<>>) = x /\ Cat(<<>>, x) = x
BY DEF Cat

LEMMA OneType ==
  ASSUME NEW e \in Event
  PROVE  One(e) \in Seq(Event) /\ Moment(e) \in Word
BY WordTypes DEF One, Moment

LEMMA KeepCat ==
  ASSUME NEW A, NEW x \in Seq(Event), NEW y \in Seq(Event)
  PROVE  Keep(Cat(x, y), A) = Cat(Keep(x, A), Keep(y, A))
BY KeepConcat DEF Cat

LEMMA KeepOne ==
  ASSUME NEW A, NEW e \in Event
  PROVE  Keep(One(e), A) = IF e \in A THEN One(e) ELSE <<>>
<1>1. <<e>> = Append(<<>>, e) /\ <<>> \in Seq(Event) /\ Keep(<<>>, A) = <<>>
  BY AppendType, KeepSteps
<1>2. CASE e \in A
  <2>1. Keep(Append(<<>>, e), A) = Append(Keep(<<>>, A), e)
    BY <1>1, <1>2, KeepAppend
  <2>. QED BY <1>1, <1>2, <2>1 DEF One
<1>3. CASE e \notin A
  <2>1. Keep(Append(<<>>, e), A) = Keep(<<>>, A)
    BY <1>1, <1>3, KeepAppend
  <2>. QED BY <1>1, <1>3, <2>1 DEF One
<1>. QED BY <1>2, <1>3

LEMMA InsertIs ==
  ASSUME NEW key, NEW x, NEW e
  PROVE  Insert(key, x, e) =
           Cat(Cat(Keep(x, Until(key, Moment(e))), One(e)), Keep(x, After(key, Moment(e))))
BY DEF Insert, Cat, One, Moment

----------------------------------------------------------------------------
(* A sequence is in order when at every moment it splits into what is not  *)
(* later and what is.                                                      *)
Splits(key, x) ==
  \A w \in Word : Cat(Keep(x, Until(key, w)), Keep(x, After(key, w))) = x

Key(key) == \A w \in Word : key[w] \in Int

(* What Keep takes of a split sequence.                                    *)
LEMMA KeepOfSplit ==
  ASSUME NEW key, NEW x \in Seq(Event), Splits(key, x), NEW w \in Word,
         NEW A, NEW B, NEW C, Meets(B, A, Until(key, w)), Meets(C, A, After(key, w))
  PROVE  Cat(Keep(x, B), Keep(x, C)) = Keep(x, A)
<1>1. Keep(x, Until(key, w)) \in Seq(Event) /\ Keep(x, After(key, w)) \in Seq(Event)
  BY KeepSteps
<1>2. Cat(Keep(x, Until(key, w)), Keep(x, After(key, w))) = x
  BY DEF Splits
<1>3. Keep(Cat(Keep(x, Until(key, w)), Keep(x, After(key, w))), A)
        = Cat(Keep(Keep(x, Until(key, w)), A), Keep(Keep(x, After(key, w)), A))
  BY <1>1, KeepCat
<1>4. Meets(B, Until(key, w), A) /\ Meets(C, After(key, w), A)
  BY DEF Meets
<1>5. Keep(Keep(x, Until(key, w)), A) = Keep(x, B) /\ Keep(Keep(x, After(key, w)), A) = Keep(x, C)
  BY <1>4, KeepKeep
<1>. QED BY <1>2, <1>3, <1>5

(* What Keep takes of an insertion.                                        *)
LEMMA KeepOfInsert ==
  ASSUME NEW key, NEW x \in Seq(Event), NEW e \in Event, NEW A, NEW B, NEW C,
         Meets(B, A, Until(key, Moment(e))), Meets(C, A, After(key, Moment(e)))
  PROVE  /\ e \in A => Keep(Insert(key, x, e), A) = Cat(Cat(Keep(x, B), One(e)), Keep(x, C))
         /\ e \notin A => Keep(Insert(key, x, e), A) = Cat(Keep(x, B), Keep(x, C))
<1>1. PICK early, late : /\ early = Keep(x, Until(key, Moment(e)))
                           /\ late = Keep(x, After(key, Moment(e)))
  OBVIOUS
<1>2. early \in Seq(Event) /\ late \in Seq(Event) /\ One(e) \in Seq(Event)
  BY <1>1, KeepAppend, OneType
<1>3. Keep(Cat(Cat(early, One(e)), late), A) = Cat(Keep(Cat(early, One(e)), A), Keep(late, A))
  BY <1>2, CatType, KeepCat
<1>4. Keep(Cat(early, One(e)), A) = Cat(Keep(early, A), Keep(One(e), A))
  BY <1>2, KeepCat
<1>5. Meets(B, Until(key, Moment(e)), A) /\ Meets(C, After(key, Moment(e)), A)
  BY DEF Meets
<1>6. Keep(early, A) = Keep(x, B) /\ Keep(late, A) = Keep(x, C)
  BY <1>1, <1>5, KeepKeep
<1>7. Cat(Keep(x, B), <<>>) = Keep(x, B)
  BY KeepAppend, CatEmpty
<1>8. Insert(key, x, e) = Cat(Cat(early, One(e)), late)
  BY <1>1, InsertIs
<1>. QED BY <1>3, <1>4, <1>6, <1>7, <1>8, KeepOne

(* An insertion into an order is an order.                                 *)
LEMMA InsertSplits ==
  ASSUME NEW key, Key(key), NEW x \in Seq(Event), Splits(key, x), NEW e \in Event
  PROVE  Insert(key, x, e) \in Seq(Event) /\ Splits(key, Insert(key, x, e))
<1>1. PICK U, L, new : /\ U = Until(key, Moment(e)) /\ L = After(key, Moment(e))
                       /\ new = Insert(key, x, e)
  OBVIOUS
<1>2. Keep(x, U) \in Seq(Event) /\ Keep(x, L) \in Seq(Event) /\ One(e) \in Seq(Event)
  BY KeepAppend, OneType
<1>3. new = Cat(Cat(Keep(x, U), One(e)), Keep(x, L))
  BY <1>1, InsertIs
<1>4. new \in Seq(Event)
  BY <1>2, <1>3, CatType
<1>5. Moment(e) \in Word /\ key[Moment(e)] \in Int
  BY OneType DEF Key
<1>6. ASSUME NEW w \in Word PROVE Cat(Keep(new, Until(key, w)), Keep(new, After(key, w))) = new
  <2>1. PICK UW, LW : UW = Until(key, w) /\ LW = After(key, w)
    OBVIOUS
  <2>2. key[w] \in Int /\ \A d \in Event : key[d.ts] \in Int
    BY WordTypes DEF Key
  <2>3. CASE key[Moment(e)] <= key[w]
    <3>1. PICK Mid : Mid = {d \in Event : d \in L /\ d \in UW}
      OBVIOUS
    <3>2. /\ Meets(U, UW, U) /\ Meets(Mid, UW, L)
          /\ Meets({}, LW, U) /\ Meets(LW, LW, L)
          /\ Meets(Mid, L, UW) /\ Meets(LW, L, LW)
          /\ e \in UW /\ e \notin LW
      BY <1>1, <1>5, <2>1, <2>2, <2>3, <3>1 DEF Until, After, Meets, Moment
    <3>3. Keep(new, UW) = Cat(Cat(Keep(x, U), One(e)), Keep(x, Mid))
      BY <1>1, <3>2, KeepOfInsert
    <3>4. Keep(new, LW) = Cat(Keep(x, {}), Keep(x, LW))
      BY <1>1, <3>2, KeepOfInsert
    <3>5. Keep(x, {}) = <<>> /\ Keep(x, Mid) \in Seq(Event) /\ Keep(x, LW) \in Seq(Event)
      BY KeepNone, KeepAppend
    <3>6. Cat(Keep(x, Mid), Keep(x, LW)) = Keep(x, L)
      BY <2>1, <3>2, KeepOfSplit
    <3>7. Keep(new, LW) = Keep(x, LW)
      BY <3>4, <3>5, CatEmpty
    <3>8. Cat(Cat(Cat(Keep(x, U), One(e)), Keep(x, Mid)), Keep(x, LW))
            = Cat(Cat(Keep(x, U), One(e)), Cat(Keep(x, Mid), Keep(x, LW)))
      BY <1>2, <3>5, CatType, CatAssociates
    <3>. QED BY <1>3, <2>1, <3>3, <3>6, <3>7, <3>8
  <2>4. CASE key[Moment(e)] > key[w]
    <3>1. PICK Mid : Mid = {d \in Event : d \in U /\ d \in LW}
      OBVIOUS
    <3>2. /\ Meets(UW, UW, U) /\ Meets({}, UW, L)
          /\ Meets(Mid, LW, U) /\ Meets(L, LW, L)
          /\ Meets(UW, U, UW) /\ Meets(Mid, U, LW)
          /\ e \in LW /\ e \notin UW
      BY <1>1, <1>5, <2>1, <2>2, <2>4, <3>1 DEF Until, After, Meets, Moment
    <3>3. Keep(new, LW) = Cat(Cat(Keep(x, Mid), One(e)), Keep(x, L))
      BY <1>1, <3>2, KeepOfInsert
    <3>4. Keep(new, UW) = Cat(Keep(x, UW), Keep(x, {}))
      BY <1>1, <3>2, KeepOfInsert
    <3>5. Keep(x, {}) = <<>> /\ Keep(x, Mid) \in Seq(Event) /\ Keep(x, UW) \in Seq(Event)
      BY KeepNone, KeepAppend
    <3>6. Cat(Keep(x, UW), Keep(x, Mid)) = Keep(x, U)
      BY <2>1, <3>2, KeepOfSplit
    <3>7. Keep(new, UW) = Keep(x, UW)
      BY <3>4, <3>5, CatEmpty
    <3>8. Cat(Cat(Keep(x, UW), Keep(x, Mid)), One(e)) = Cat(Keep(x, UW), Cat(Keep(x, Mid), One(e)))
      BY <1>2, <3>5, CatAssociates
    <3>9. Cat(Cat(Keep(x, UW), Cat(Keep(x, Mid), One(e))), Keep(x, L))
            = Cat(Keep(x, UW), Cat(Cat(Keep(x, Mid), One(e)), Keep(x, L)))
      BY <1>2, <3>5, CatType, CatAssociates
    <3>. QED BY <1>3, <2>1, <3>3, <3>6, <3>7, <3>8, <3>9
  <2>. QED BY <1>5, <2>2, <2>3, <2>4
<1>. QED BY <1>1, <1>4, <1>6 DEF Splits

LEMMA SortedAppend ==
  ASSUME NEW key, NEW s \in Seq(Event), NEW e \in Event
  PROVE  SortedBy(key, Append(s, e)) = Insert(key, SortedBy(key, s), e)
BY SortedSteps

LEMMA SortedSplits ==
  ASSUME NEW key, Key(key), NEW s \in Seq(Event)
  PROVE  SortedBy(key, s) \in Seq(Event) /\ Splits(key, SortedBy(key, s))
<1> DEFINE T == {z \in Seq(Event) : Splits(key, SortedBy(key, z))}
<1>1. <<>> \in T
  <2>1. SortedBy(key, <<>>) = <<>> /\ \A A : Keep(<<>>, A) = <<>>
    BY SortedSteps, KeepSteps
  <2>2. Cat(<<>>, <<>>) = <<>> /\ <<>> \in Seq(Event)
    BY DEF Cat
  <2>3. Splits(key, <<>>)
    BY <2>1, <2>2, Zenon DEF Splits
  <2>. QED BY <2>1, <2>2, <2>3
<1>2. ASSUME NEW z \in Seq(Event), NEW e \in Event, z \in T PROVE Append(z, e) \in T
  <2>1. SortedBy(key, z) \in Seq(Event) /\ SortedBy(key, Append(z, e)) = Insert(key, SortedBy(key, z), e)
    BY SortedSteps
  <2>2. Splits(key, SortedBy(key, Append(z, e)))
    BY <1>2, <2>1, InsertSplits
  <2>. QED BY <2>2, AppendType
<1> HIDE DEF T
<1>3. Seq(Event) \subseteq T
  BY <1>1, <1>2, SeqSetInduction
<1>4. s \in T
  BY <1>3
<1>5. SortedBy(key, s) \in Seq(Event)
  BY SortedSteps
<1>. QED BY <1>4, <1>5 DEF T

(* What is kept of a sorted log is the sort of what is kept.               *)
LEMMA KeepSorted ==
  ASSUME NEW key, Key(key), NEW s \in Seq(Event), NEW A
  PROVE  Keep(SortedBy(key, s), A) = SortedBy(key, Keep(s, A))
<1> DEFINE T == {z \in Seq(Event) : Keep(SortedBy(key, z), A) = SortedBy(key, Keep(z, A))}
<1>1. <<>> \in T
  BY SortedSteps, KeepSteps
<1>2. ASSUME NEW z \in Seq(Event), NEW e \in Event, z \in T PROVE Append(z, e) \in T
  <2>1. PICK x : x = SortedBy(key, z)
    OBVIOUS
  <2>2. x \in Seq(Event) /\ Splits(key, x)
    BY <2>1, SortedSplits
  <2>3. SortedBy(key, Append(z, e)) = Insert(key, x, e)
    BY <2>1, SortedSteps
  <2>4. Keep(x, A) = SortedBy(key, Keep(z, A))
    BY <1>2, <2>1
  <2>5. PICK B, C : /\ B = {d \in Event : d \in A /\ d \in Until(key, Moment(e))}
                    /\ C = {d \in Event : d \in A /\ d \in After(key, Moment(e))}
    OBVIOUS
  <2>6. Meets(B, A, Until(key, Moment(e))) /\ Meets(C, A, After(key, Moment(e)))
    BY <2>5 DEF Meets
  <2>7. /\ e \in A => Keep(Insert(key, x, e), A) = Cat(Cat(Keep(x, B), One(e)), Keep(x, C))
        /\ e \notin A => Keep(Insert(key, x, e), A) = Cat(Keep(x, B), Keep(x, C))
    BY <2>2, <2>6, KeepOfInsert
  <2>8. Moment(e) \in Word /\ Append(z, e) \in Seq(Event)
    BY OneType, AppendType
  <2>9. Keep(z, A) \in Seq(Event)
    BY KeepAppend
  <2>10. CASE e \in A
    <3>1. Keep(Append(z, e), A) = Append(Keep(z, A), e)
      BY <2>10, KeepAppend
    <3>2. SortedBy(key, Append(Keep(z, A), e)) = Insert(key, Keep(x, A), e)
      BY <2>4, <2>9, SortedAppend
    <3>3. /\ Keep(Keep(x, A), Until(key, Moment(e))) = Keep(x, B)
          /\ Keep(Keep(x, A), After(key, Moment(e))) = Keep(x, C)
      BY <2>2, <2>6, KeepKeep
    <3>4. Insert(key, Keep(x, A), e) = Cat(Cat(Keep(x, B), One(e)), Keep(x, C))
      BY <3>3, InsertIs
    <3>. QED BY <2>3, <2>7, <2>8, <2>10, <3>1, <3>2, <3>4
  <2>11. CASE e \notin A
    <3>1. Keep(Append(z, e), A) = Keep(z, A)
      BY <2>11, KeepAppend
    <3>2. Cat(Keep(x, B), Keep(x, C)) = Keep(x, A)
      BY <2>2, <2>6, <2>8, KeepOfSplit
    <3>. QED BY <2>3, <2>4, <2>7, <2>8, <2>11, <3>1, <3>2
  <2>. QED BY <2>10, <2>11
<1> HIDE DEF T
<1>3. Seq(Event) \subseteq T
  BY <1>1, <1>2, SeqSetInduction
<1>. QED BY <1>3 DEF T

----------------------------------------------------------------------------
Fit == {e \in Event : Fits(Moment(e))}

LEMMA KeyTypes == Key(PlainTime) /\ Key(SignedTime)
<1>1. \A w \in Word : PlainTime[w] \in Int /\ SignedTime[w] \in Int
  BY WordTypes
<1>. QED BY <1>1 DEF Key

(* The plain and the signed column order events alike whose times fit.     *)
LEMMA FitSame ==
  ASSUME NEW w \in Word, Fits(w)
  PROVE  \A e \in Event : e \in Fit =>
           /\ e \in Until(PlainTime, w) <=> e \in Until(SignedTime, w)
           /\ e \in After(PlainTime, w) <=> e \in After(SignedTime, w)
<1>1. PlainTime[w] = w /\ SignedTime[w] = w
  BY WordTypes
<1>2. ASSUME NEW e \in Event, e \in Fit PROVE PlainTime[e.ts] = e.ts /\ SignedTime[e.ts] = e.ts
  BY <1>2, WordTypes DEF Fit, Moment
<1>. QED BY <1>1, <1>2 DEF Until, After

LEMMA KeepFit ==
  ASSUME NEW y \in Seq(Event), Keep(y, Fit) = y, NEW w \in Word, Fits(w)
  PROVE  /\ Keep(y, Until(PlainTime, w)) = Keep(y, Until(SignedTime, w))
         /\ Keep(y, After(PlainTime, w)) = Keep(y, After(SignedTime, w))
<1>1. PICK M, N : /\ M = {e \in Event : e \in Fit /\ e \in Until(SignedTime, w)}
                  /\ N = {e \in Event : e \in Fit /\ e \in After(SignedTime, w)}
  OBVIOUS
<1>2. Meets(M, Fit, Until(SignedTime, w)) /\ Meets(N, Fit, After(SignedTime, w))
  BY <1>1 DEF Meets
<1>3. Meets(M, Fit, Until(PlainTime, w)) /\ Meets(N, Fit, After(PlainTime, w))
  BY <1>1, FitSame DEF Meets
<1>4. /\ Keep(Keep(y, Fit), Until(SignedTime, w)) = Keep(y, M)
      /\ Keep(Keep(y, Fit), After(SignedTime, w)) = Keep(y, N)
  BY <1>2, KeepKeep
<1>5. /\ Keep(Keep(y, Fit), Until(PlainTime, w)) = Keep(y, M)
      /\ Keep(Keep(y, Fit), After(PlainTime, w)) = Keep(y, N)
  BY <1>3, KeepKeep
<1>. QED BY <1>4, <1>5

LEMMA KeepFitAgain ==
  ASSUME NEW x \in Seq(Event)
  PROVE  Keep(Keep(x, Fit), Fit) = Keep(x, Fit)
<1>1. Meets(Fit, Fit, Fit)
  BY DEF Meets
<1>. QED BY <1>1, KeepKeep

LEMMA KeysAgree ==
  ASSUME NEW s \in Seq(Event), Keep(s, Fit) = s
  PROVE  SortedBy(PlainTime, s) = SortedBy(SignedTime, s)
<1> DEFINE T == {z \in Seq(Event) :
                   SortedBy(PlainTime, Keep(z, Fit)) = SortedBy(SignedTime, Keep(z, Fit))}
<1>1. <<>> \in T
  BY SortedSteps, KeepSteps
<1>2. ASSUME NEW z \in Seq(Event), NEW e \in Event, z \in T PROVE Append(z, e) \in T
  <2>1. PICK k, y : k = Keep(z, Fit) /\ y = SortedBy(PlainTime, k)
    OBVIOUS
  <2>2. k \in Seq(Event) /\ Append(z, e) \in Seq(Event) /\ y = SortedBy(SignedTime, k)
    BY <1>2, <2>1, KeepAppend, AppendType
  <2>3. y \in Seq(Event)
    BY <2>1, <2>2, SortedSteps
  <2>4. CASE e \in Fit
    <3>1. Keep(Append(z, e), Fit) = Append(k, e)
      BY <2>1, <2>4, KeepAppend
    <3>2. Keep(k, Fit) = k
      BY <2>1, KeepFitAgain
    <3>3. Keep(y, Fit) = y
      BY <2>1, <2>2, <3>2, KeyTypes, KeepSorted
    <3>4. Moment(e) \in Word /\ Fits(Moment(e))
      BY <2>4, OneType DEF Fit
    <3>5. /\ Keep(y, Until(PlainTime, Moment(e))) = Keep(y, Until(SignedTime, Moment(e)))
          /\ Keep(y, After(PlainTime, Moment(e))) = Keep(y, After(SignedTime, Moment(e)))
      BY <2>3, <3>3, <3>4, KeepFit
    <3>6. Insert(PlainTime, y, e) = Insert(SignedTime, y, e)
      BY <3>5, InsertIs
    <3>7. /\ SortedBy(PlainTime, Append(k, e)) = Insert(PlainTime, y, e)
          /\ SortedBy(SignedTime, Append(k, e)) = Insert(SignedTime, y, e)
      BY <2>1, <2>2, SortedAppend
    <3>. QED BY <2>2, <3>1, <3>6, <3>7
  <2>5. CASE e \notin Fit
    <3>1. Keep(Append(z, e), Fit) = Keep(z, Fit)
      BY <2>5, KeepAppend
    <3>. QED BY <1>2, <2>2, <3>1
  <2>. QED BY <2>4, <2>5
<1> HIDE DEF T
<1>3. Seq(Event) \subseteq T
  BY <1>1, <1>2, SeqSetInduction
<1>. QED BY <1>3 DEF T

(* The rows of a query are the events the replay in memory takes.          *)
LEMMA RowsAgree ==
  ASSUME NEW rows \in Seq(Event), Keep(rows, Fit) = rows, NEW t,
         (t \in Word /\ Fits(t)) \/ t = Latest
  PROVE  RowsAsOf(rows, t) = Keep(Ordered(rows), Until(PlainTime, t))
<1>1. SortedBy(PlainTime, rows) = SortedBy(SignedTime, rows) /\ SortedBy(PlainTime, rows) \in Seq(Event)
  BY KeysAgree, SortedSteps
<1>2. CASE t = Latest
  <2>1. Keep(rows, Event) = rows
    <3>1. \A n \in DOMAIN rows : rows[n] \in Event
      OBVIOUS
    <3>. QED BY <3>1, KeepAll
  <2>2. ASSUME NEW e \in Event PROVE e \in Until(PlainTime, t)
    <3>1. e.ts \in Word /\ e.ts \in Nat /\ e.ts <= Latest
      BY WordTypes
    <3>2. Latest \in Word
      <4>1. 2^Width \in Int
        BY EventIndexAssumption
      <4>. QED BY <3>1, <4>1 DEF Word, Latest
    <3>. QED BY <1>2, <3>1, <3>2, WordTypes DEF Until
  <2>3. PICK y : y = SortedBy(PlainTime, rows) /\ y \in Seq(Event)
    BY <1>1
  <2>4. \A n \in DOMAIN y : y[n] \in Until(PlainTime, t)
    BY <2>2, <2>3
  <2>5. Keep(y, Until(PlainTime, t)) = y
    BY <2>3, <2>4, KeepAll
  <2>. QED BY <1>1, <1>2, <2>1, <2>3, <2>5 DEF RowsAsOf, Bound, Ordered
<1>3. CASE t # Latest
  <2>1. t \in Word /\ Fits(t) /\ Bound(t) = Until(SignedTime, t)
    BY <1>3 DEF Bound
  <2>2. PICK k : k = Keep(rows, Until(SignedTime, t))
    OBVIOUS
  <2>3. k = Keep(rows, Until(PlainTime, t))
    BY <2>1, <2>2, KeepFit
  <2>4. k \in Seq(Event)
    BY <2>2, KeepSteps
  <2>5. Keep(k, Fit) = k
    <3>1. PICK M : M = {e \in Event : e \in Fit /\ e \in Until(SignedTime, t)}
      OBVIOUS
    <3>2. Meets(M, Fit, Until(SignedTime, t)) /\ Meets(M, M, Fit)
      BY <3>1 DEF Meets
    <3>3. Keep(Keep(rows, Fit), Until(SignedTime, t)) = Keep(rows, M)
      BY <3>2, KeepKeep
    <3>4. Keep(Keep(rows, M), Fit) = Keep(rows, M)
      BY <3>2, KeepKeep
    <3>. QED BY <2>2, <3>3, <3>4
  <2>6. SortedBy(PlainTime, k) = SortedBy(SignedTime, k)
    BY <2>4, <2>5, KeysAgree
  <2>7. Keep(SortedBy(PlainTime, rows), Until(PlainTime, t)) = SortedBy(PlainTime, k)
    BY <2>3, KeyTypes, KeepSorted
  <2>. QED BY <2>1, <2>2, <2>6, <2>7 DEF RowsAsOf, Ordered
<1>. QED BY <1>2, <1>3

(* One file of a replay is the fold of its own events.                     *)
LEMMA FileAgrees ==
  ASSUME NEW p \in Paths, NEW r \in Seq(Event), Replay(r) # Panic
  PROVE  Folded(Keep(r, OfFile(p))) = IF p \in DOMAIN Replay(r) THEN Replay(r)[p] ELSE NewFile
<1> DEFINE Entry(files) == IF p \in DOMAIN files THEN files[p] ELSE NewFile
           T == {z \in Seq(Event) :
                   Replay(z) # Panic => Folded(Keep(z, OfFile(p))) = Entry(Replay(z))}
<1>1. <<>> \in T
  <2>1. /\ Replay(<<>>) = <<>> /\ Keep(<<>>, OfFile(p)) = <<>> /\ Folded(<<>>) = NewFile
        /\ DOMAIN <<>> = {} /\ <<>> \in Seq(Event)
    BY ReplaySteps, KeepSteps, FoldedSteps
  <2>. QED BY <2>1
<1>2. ASSUME NEW z \in Seq(Event), NEW e \in Event, z \in T PROVE Append(z, e) \in T
  <2>1. SUFFICES ASSUME Replay(Append(z, e)) # Panic
                 PROVE  Folded(Keep(Append(z, e), OfFile(p))) = Entry(Replay(Append(z, e)))
    BY AppendType
  <2>2. PICK files : files = Replay(z)
    OBVIOUS
  <2>3. Replay(Append(z, e)) = Stepped(files, e) /\ files \in Workspaces
    BY <2>2, ReplaySteps
  <2>4. PICK new : new = Applied(IF e.path \in DOMAIN files THEN files[e.path] ELSE NewFile, e)
    OBVIOUS
  <2>5. /\ files # Panic /\ new # Panic
        /\ Replay(Append(z, e)) = [q \in DOMAIN files \cup {e.path} |-> IF q = e.path THEN new ELSE files[q]]
    BY <2>1, <2>3, <2>4 DEF Stepped
  <2>6. PICK k : k = Keep(z, OfFile(p)) /\ k \in Seq(Event)
    BY KeepAppend
  <2>7. Folded(k) = Entry(files)
    BY <1>2, <2>2, <2>5, <2>6
  <2>8. CASE e.path = p
    <3>1. Keep(Append(z, e), OfFile(p)) = Append(k, e)
      BY <2>6, <2>8, KeepAppend DEF OfFile
    <3>2. Entry(files) # Panic
      <4>1. PICK P \in SUBSET Paths : files \in [P -> FileState]
        BY <2>3, <2>5, WorkspaceType
      <4>2. p \in DOMAIN files => files[p] \in FileState
        BY <4>1
      <4>. QED BY <4>2, NewFileType, EventIndexAssumption
    <3>3. Folded(Append(k, e)) = IF Folded(k) = Panic THEN Panic ELSE Applied(Folded(k), e)
      BY <2>6, FoldedSteps
    <3>4. Folded(Append(k, e)) = new
      BY <2>4, <2>7, <2>8, <3>2, <3>3
    <3>5. Entry(Replay(Append(z, e))) = new
      BY <2>5, <2>8
    <3>. QED BY <3>1, <3>4, <3>5
  <2>9. CASE e.path # p
    <3>1. Keep(Append(z, e), OfFile(p)) = k
      BY <2>6, <2>9, KeepAppend DEF OfFile
    <3>2. Entry(Replay(Append(z, e))) = Entry(files)
      BY <2>5, <2>9
    <3>. QED BY <2>7, <3>1, <3>2
  <2>. QED BY <2>8, <2>9
<1> HIDE DEF T
<1>3. Seq(Event) \subseteq T
  BY <1>1, <1>2, SeqSetInduction
<1>. QED BY <1>3 DEF T

----------------------------------------------------------------------------
(* An import never has more left than the table takes.                     *)
IndexInv ==
  /\ IndexTypeOK
  /\ ingest.busy => Len(table) + Len(ingest.left) <= MaxRows

LEMMA IndexInvInductive ==
  /\ IndexInit => IndexInv
  /\ IndexInv /\ [IndexNext]_indexVars => IndexInv'
<1>1. ASSUME IndexInit PROVE IndexInv
  <2>1. table \in Seq(Event) /\ Len(table) = 0 /\ ~ingest.busy
    BY <1>1 DEF IndexInit, NotIngesting
  <2>2. ingest \in [busy : BOOLEAN, left : Seq(Event)]
    <3>1. <<>> \in Seq(Event)
      OBVIOUS
    <3>. QED BY <1>1, <3>1 DEF IndexInit, NotIngesting
  <2>3. MaxRows \in Nat /\ MaxHarm \in Nat
    BY EventIndexAssumption
  <2>4. /\ durable \in 0..Len(table) /\ Len(table) <= MaxRows /\ harm \in 0..MaxHarm
        /\ poisoned \in BOOLEAN /\ shown = "none"
    <3>1. durable = 0 /\ harm = 0 /\ poisoned = FALSE /\ shown = "none"
      BY <1>1 DEF IndexInit
    <3>2. durable \in 0..Len(table) /\ Len(table) <= MaxRows
      BY <2>1, <2>3, <3>1
    <3>3. harm \in 0..MaxHarm
      BY <2>3, <3>1
    <3>. QED BY <3>1, <3>2, <3>3
  <2>. QED BY <2>1, <2>2, <2>4 DEF IndexInv, IndexTypeOK
<1>2. ASSUME IndexInv, [IndexNext]_indexVars PROVE IndexInv'
  <2>1. table \in Seq(Event) /\ ingest \in [busy : BOOLEAN, left : Seq(Event)] /\ durable \in 0..Len(table)
    BY <1>2 DEF IndexInv, IndexTypeOK
  <2>2. ASSUME NEW log \in Logs, BeginIngest(log) PROVE IndexInv'
    <3>1. log \in Seq(Event)
      BY EventIndexAssumption
    <3>. QED BY <1>2, <2>2, <3>1 DEF IndexInv, IndexTypeOK, BeginIngest
  <2>3. CASE Push
    <3>1. ingest.left \in Seq(Event) /\ ingest.left # <<>>
      BY <2>1, <2>3 DEF Push
    <3>2. PICK first, rest : first = Head(ingest.left) /\ rest = Tail(ingest.left)
      OBVIOUS
    <3>3. first \in Event /\ rest \in Seq(Event) /\ Len(rest) = Len(ingest.left) - 1
      BY <3>1, <3>2
    <3>4. table' = Append(table, first) /\ table' \in Seq(Event) /\ Len(table') = Len(table) + 1
      BY <2>1, <2>3, <3>2, <3>3 DEF Push
    <3>5. ingest.busy /\ ingest'.left = rest /\ ingest' \in [busy : BOOLEAN, left : Seq(Event)]
      BY <2>1, <2>3, <3>2, <3>3 DEF Push
    <3>6. Len(table) + Len(ingest.left) <= MaxRows /\ Len(ingest.left) \in Nat /\ Len(ingest.left) > 0
      BY <1>2, <3>1, <3>5 DEF IndexInv
    <3>7. Len(table') <= MaxRows /\ Len(table') + Len(ingest'.left) <= MaxRows /\ durable' \in 0..Len(table')
      BY <2>1, <2>3, <3>3, <3>4, <3>5, <3>6, EventIndexAssumption DEF Push
    <3>8. poisoned' \in BOOLEAN /\ harm' \in 0..MaxHarm
          /\ shown' \in {"none", "ingested", "files", "failed", "panic", "poisoned"}
      BY <1>2, <2>3 DEF IndexInv, IndexTypeOK, Push
    <3>. QED BY <3>4, <3>5, <3>7, <3>8 DEF IndexInv, IndexTypeOK
  <2>4. CASE IngestDone
    BY <1>2, <2>4 DEF IndexInv, IndexTypeOK, IngestDone, NotIngesting
  <2>5. CASE PushFails
    BY <1>2, <2>5, EventIndexAssumption DEF IndexInv, IndexTypeOK, PushFails, NotIngesting
  <2>6. ASSUME NEW t \in Word, TimeTravel(t) PROVE IndexInv'
    BY <1>2, <2>6 DEF IndexInv, IndexTypeOK, TimeTravel
  <2>7. CASE Refuse
    BY <1>2, <2>7 DEF IndexInv, IndexTypeOK, Refuse
  <2>8. CASE Checkpoint
    BY <1>2, <2>8 DEF IndexInv, IndexTypeOK, Checkpoint
  <2>9. CASE Restart
    <3>1. PICK n \in durable..Len(table) : table' = SubSeq(table, 1, n)
      BY <2>9 DEF Restart
    <3>2. table' \in Seq(Event) /\ Len(table') = n /\ n <= Len(table) /\ durable <= n
      BY <2>1, <3>1
    <3>3. Len(table) <= MaxRows
      BY <1>2 DEF IndexInv, IndexTypeOK
    <3>4. durable' \in 0..Len(table') /\ Len(table') <= MaxRows
      BY <2>1, <2>9, <3>1, <3>2, <3>3, EventIndexAssumption DEF Restart
    <3>5. harm' \in 0..MaxHarm /\ poisoned' = FALSE /\ shown' = "none"
      BY <1>2, <2>9, EventIndexAssumption DEF IndexInv, IndexTypeOK, Restart
    <3>6. ~ingest'.busy /\ ingest' \in [busy : BOOLEAN, left : Seq(Event)]
      <4>1. <<>> \in Seq(Event)
        OBVIOUS
      <4>. QED BY <2>9, <4>1 DEF Restart, NotIngesting
    <3>. QED BY <3>2, <3>4, <3>5, <3>6 DEF IndexInv, IndexTypeOK
  <2>10. CASE UNCHANGED indexVars
    BY <1>2, <2>10 DEF IndexInv, IndexTypeOK, indexVars
  <2>. QED BY <1>2, <2>2, <2>3, <2>4, <2>5, <2>6, <2>7, <2>8, <2>9, <2>10 DEF IndexNext
<1>. QED BY <1>1, <1>2

(* The rows, what an import has left and the bounds stay what they are,    *)
(* through failed imports and power cuts.                                  *)
THEOREM IndexTypeCorrect == IndexSpec => []IndexTypeOK
<1>1. IndexInv => IndexTypeOK
  BY DEF IndexInv
<1>. QED BY <1>1, IndexInvInductive, PTL DEF IndexSpec

(* For every word width, log and history of imports, crashes and power     *)
(* cuts: the index answers as a replay in memory of the same rows does.    *)
THEOREM ReplayAgreesCorrect == IndexSpec => []ReplayAgrees
<1>1. IndexTypeOK => ReplayAgrees
  <2>1. SUFFICES ASSUME IndexTypeOK, \A n \in DOMAIN table : Fits(table[n].ts),
                        NEW t \in {u \in Word : Fits(u)} \cup {Latest}
                 PROVE  /\ ReconstructAsOf(table, t) = Reconstruct(table, t)
                        /\ ReconstructAsOf(table, t) # Panic =>
                             \A p \in Paths :
                               FileAsOf(table, p, t) = IF p \in DOMAIN ReconstructAsOf(table, t)
                                                THEN ReconstructAsOf(table, t)[p] ELSE NewFile
    BY DEF ReplayAgrees
  <2>2. table \in Seq(Event)
    BY <2>1 DEF IndexTypeOK
  <2>3. Keep(table, Fit) = table
    <3>1. \A n \in DOMAIN table : table[n] \in Fit
      BY <2>1, <2>2 DEF Fit, Moment
    <3>. QED BY <2>2, <3>1, KeepAll
  <2>4. (t \in Word /\ Fits(t)) \/ t = Latest
    BY <2>1
  <2>5. RowsAsOf(table, t) = Keep(Ordered(table), Until(PlainTime, t))
    BY <2>2, <2>3, <2>4, RowsAgree
  <2>6. RowsAsOf(table, t) \in Seq(Event)
    <3>1. Keep(table, Bound(t)) \in Seq(Event)
      BY <2>2, KeepSteps
    <3>. QED BY <3>1, SortedSteps DEF RowsAsOf
  <2>7. ASSUME NEW p \in Paths, ReconstructAsOf(table, t) # Panic
        PROVE  FileAsOf(table, p, t) = IF p \in DOMAIN ReconstructAsOf(table, t)
                                THEN ReconstructAsOf(table, t)[p] ELSE NewFile
    <3>1. FileAsOf(table, p, t) = Folded(Keep(RowsAsOf(table, t), OfFile(p)))
      BY DEF FileAsOf, Folded
    <3>. QED BY <2>6, <2>7, <3>1, FileAgrees DEF ReconstructAsOf
  <2>8. ReconstructAsOf(table, t) = Reconstruct(table, t)
    BY <2>5 DEF ReconstructAsOf, Reconstruct
  <2>. QED BY <2>7, <2>8
<1>. QED BY <1>1, IndexTypeCorrect, PTL

(* No import changes what the workspace was at an earlier moment.          *)
THEOREM PastStableCorrect == IndexSpec => PastStable
<1>1. ASSUME IndexTypeOK, [IndexNext]_indexVars, Grown, Fits(table'[Len(table')].ts),
             NEW t \in 0..table'[Len(table')].ts - 1
      PROVE  ReconstructAsOf(table', t) = ReconstructAsOf(table, t)
  <2>1. table \in Seq(Event)
    BY <1>1 DEF IndexTypeOK
  <2>2. Push
    <3>1. ASSUME Restart PROVE FALSE
      <4>1. PICK n \in durable..Len(table) : table' = SubSeq(table, 1, n)
        BY <3>1 DEF Restart
      <4>2. n \in 0..Len(table) /\ Len(table') = n
        BY <1>1, <2>1, <4>1 DEF IndexTypeOK
      <4>. QED BY <1>1, <2>1, <4>2 DEF Grown
    <3>2. table' # table
      BY <1>1, <2>1 DEF Grown
    <3>. QED BY <1>1, <3>1, <3>2
      DEF IndexNext, indexVars, BeginIngest, IngestDone, PushFails, TimeTravel, Refuse, Checkpoint
  <2>3. PICK e \in Event : table' = Append(table, e)
    <3>1. ingest.left \in Seq(Event) /\ ingest.left # <<>>
      BY <1>1, <2>2 DEF IndexTypeOK, Push
    <3>2. Head(ingest.left) \in Event
      BY <3>1
    <3>. QED BY <2>2, <3>2 DEF Push
  <2>4. table'[Len(table')] = e
    BY <2>1, <2>3
  <2>5. Fits(e.ts) /\ e.ts \in Word /\ e.ts \in Nat /\ e.ts <= Latest /\ Latest \in Int
    BY <1>1, <2>4, WordTypes
  <2>6. t \in Int /\ 0 <= t /\ t < e.ts
    BY <1>1, <2>4, <2>5
  <2>7. t \in Word /\ Fits(t) /\ t # Latest
    <3>1. 2^Width \in Int /\ 2^(Width - 1) \in Int
      BY EventIndexAssumption
    <3>. QED BY <2>5, <2>6, <3>1 DEF Word, Fits, Latest
  <2>8. SignedTime[t] = t /\ SignedTime[e.ts] = e.ts
    BY <2>5, <2>7, WordTypes
  <2>9. e \notin Bound(t)
    <3>1. Bound(t) = Until(SignedTime, t)
      BY <2>7 DEF Bound
    <3>2. ~(SignedTime[e.ts] <= SignedTime[t])
      BY <2>5, <2>6, <2>8
    <3>. QED BY <3>1, <3>2 DEF Until
  <2>10. Keep(Append(table, e), Bound(t)) = Keep(table, Bound(t))
    BY <2>1, <2>9, KeepAppend
  <2>. QED BY <2>3, <2>10 DEF ReconstructAsOf, RowsAsOf
<1>2. IndexTypeOK /\ [IndexNext]_indexVars =>
        [Grown /\ Fits(table'[Len(table')].ts) =>
           \A t \in 0..table'[Len(table')].ts - 1 :
             ReconstructAsOf(table', t) = ReconstructAsOf(table, t)]_indexVars
  BY <1>1
<1>. QED BY <1>2, IndexTypeCorrect, PTL DEF IndexSpec, PastStable

----------------------------------------------------------------------------
(* FORMATS                                                                 *)

(* Multiples of the size of a sector.                                      *)
LEMMA Product ==
  ASSUME NEW a \in Nat, NEW b \in Nat, NEW c \in Nat, a <= b
  PROVE  a * c \in Nat /\ a * c <= b * c
OBVIOUS

LEMMA SectorEnds ==
  ASSUME NEW c \in Nat, c > 0, NEW n \in Nat, NEW i \in 1..n
  PROVE  /\ i * c \in c..n * c /\ (i * c) % c = 0
         /\ (n * c) \div c = n
         /\ \A j \in 1..n : j * c = i * c => j = i
<1>1. i * c \in c..n * c
  BY Product
<1>2. (i * c) % c = 0
  OBVIOUS
<1>3. (n * c) \div c = n
  OBVIOUS
<1>4. \A j \in 1..n : j * c = i * c => j = i
  OBVIOUS
<1>. QED BY <1>1, <1>2, <1>3, <1>4

LEMMA EndsSectors ==
  ASSUME NEW c \in Nat, c > 0, NEW n \in Nat, NEW k \in 1..n * c
  PROVE  /\ k < c => k % c # 0
         /\ k % c = 0 => \E i \in 1..n : k = i * c
<1>1. k < c => k % c # 0
  OBVIOUS
<1>2. ASSUME k % c = 0 PROVE \E i \in 1..n : k = i * c
  <2>1. k \div c \in Int /\ k = (k \div c) * c
    BY <1>2
  <2>2. k \div c \in 1..n
    BY <2>1
  <2>. QED BY <2>1, <2>2
<1>. QED BY <1>1, <1>2

(* A record under repair.                                                  *)
Fixing(len) == [ok : BOOLEAN, cells : [1..len -> Nat]]

(* A record of n sectors of c cells with its update sequence in the first. *)
Geometry(rec, c, n) ==
  /\ rec.cells \in [1..n * c -> Nat]
  /\ rec.usa \in Nat /\ rec.usa + n + 1 < c

Original(rec, i) == rec.cells[rec.usa + 1 + i]

(* The cells of the update sequence end no sector.                         *)
LEMMA GeometryFacts ==
  ASSUME NEW rec, NEW c \in Nat, NEW n \in Nat, Geometry(rec, c, n), NEW i \in 1..n
  PROVE  /\ c > 0 /\ i * c \in 1..n * c
         /\ rec.usa + 1 \in 1..n * c /\ rec.usa + 1 + i \in 1..n * c
         /\ \A j \in 1..n : rec.usa + 1 # j * c /\ rec.usa + 1 + i # j * c
<1>1. c > 0 /\ rec.usa \in Nat /\ rec.usa + n + 1 < c
  BY DEF Geometry
<1>2. c <= n * c /\ n * c \in Nat
  BY SectorEnds, <1>1
<1>3. \A j \in 1..n : j * c \in c..n * c
  BY SectorEnds, <1>1
<1>. QED BY <1>1, <1>2, <1>3

(* What the repair of one sector makes of r.                               *)
Mended(rec, c, n, r, i, z) ==
  /\ z \in Fixing(n * c)
  /\ z.ok <=> r.ok /\ r.cells[i * c] = rec.cells[rec.usa + 1]
  /\ z.ok => z.cells = [r.cells EXCEPT ![i * c] = r.cells[rec.usa + 1 + i]]

LEMMA SectorMended ==
  ASSUME NEW rec, NEW c \in Nat, NEW n \in Nat, Geometry(rec, c, n),
         NEW r \in Fixing(n * c), NEW i \in 1..n
  PROVE  Mended(rec, c, n, r, i, FixSector(rec, c, r, i))
<1>1. i * c \in 1..n * c /\ rec.usa + 1 + i \in 1..n * c
  BY GeometryFacts
<1>2. CASE r.ok /\ r.cells[i * c] = rec.cells[rec.usa + 1]
  BY <1>1, <1>2 DEF Fixing, FixSector, Mended
<1>3. CASE ~(r.ok /\ r.cells[i * c] = rec.cells[rec.usa + 1])
  BY <1>3 DEF Fixing, FixSector, Mended
<1>. QED BY <1>2, <1>3

(* What the repair does, sector by sector.                                 *)
LEMMA FixSteps ==
  ASSUME NEW rec, NEW c \in Nat, NEW n \in Nat, Geometry(rec, c, n)
  PROVE  /\ FixSectors(rec, c, <<>>) = [ok |-> TRUE, cells |-> rec.cells]
         /\ \A s \in Seq(1..n) : FixSectors(rec, c, s) \in Fixing(n * c)
         /\ \A s \in Seq(1..n), e \in 1..n :
              FixSectors(rec, c, Append(s, e)) = FixSector(rec, c, FixSectors(rec, c, s), e)
<1> DEFINE V == Fixing(n * c)
           E == 1..n
           base == [ok |-> TRUE, cells |-> rec.cells]
           Act(v, e) == FixSector(rec, c, v, e)
           F == [q \in V \X E |-> Act(q[1], q[2])]
<1>1. ASSUME NEW v \in V, NEW e \in E PROVE Act(v, e) \in V
  BY SectorMended DEF Mended
<1> HIDE DEF Act
<1>2. base \in V
  BY DEF Geometry, Fixing
<1>3. F \in [V \X E -> V]
  BY <1>1
<1>4. \A v \in V, e \in E : F[v, e] = Act(v, e)
  OBVIOUS
<1> HIDE DEF F, V, E, base
<1>5. PICK R : IsFold(R, V, E, F, base) /\ Reached(R, V, E, F, base)
  <2>1. IsStep(F, V, E)
    BY <1>3 DEF IsStep
  <2>. QED BY <1>2, <2>1, FoldOf
<1>6. ASSUME NEW s \in Seq(E) PROVE FixSectors(rec, c, s) = R[s]
  <2> DEFINE Solves(it) == it = [t \in SUBSET DOMAIN s |->
                IF t = {} THEN base ELSE Act(it[t \ {Max(t)}], s[Max(t)])]
  <2>1. FixSectors(rec, c, s) = (CHOOSE it : Solves(it))[DOMAIN s]
    BY DEF FixSectors, FoldLeft, MapThenFoldSet, Act, base
  <2>2. \E it : Solves(it)
    <3>1. PICK it : /\ it = [t \in SUBSET DOMAIN s |-> it[t]]
                    /\ it[{}] = base
                    /\ \A t \in SUBSET DOMAIN s : t # {} =>
                         /\ it[t] = F[it[t \ {Max(t)}], s[Max(t)]]
                         /\ it[t \ {Max(t)}] \in V /\ s[Max(t)] \in E
      BY <1>5, FoldSolution
    <3>2. ASSUME NEW t \in SUBSET DOMAIN s
          PROVE  it[t] = IF t = {} THEN base ELSE Act(it[t \ {Max(t)}], s[Max(t)])
      BY <1>4, <3>1
    <3>. QED BY <3>1, <3>2
  <2>3. PICK w : Solves(w) /\ FixSectors(rec, c, s) = w[DOMAIN s]
    BY <2>1, <2>2, Zenon
  <2>4. ASSUME NEW t \in SUBSET DOMAIN s, t # {}, w[t \ {Max(t)}] \in V
        PROVE  w[t] = F[w[t \ {Max(t)}], s[Max(t)]]
    <3>1. s[Max(t)] \in E
      BY <1>5, <2>4, FoldSolution
    <3>2. w[t] = Act(w[t \ {Max(t)}], s[Max(t)])
      BY <2>3, <2>4
    <3>. QED BY <2>4, <3>1, <3>2, <1>4
  <2>5. w[{}] = base
    BY <2>3
  <2>6. Value(R, V, F, base, s)
    BY <1>5, FoldValue
  <2>. QED BY <2>3, <2>4, <2>5, <2>6 DEF Value
<1>7. <<>> \in Seq(E) /\ \A s \in Seq(E), e \in E : Append(s, e) \in Seq(E)
  OBVIOUS
<1>8. FixSectors(rec, c, <<>>) = base
  BY <1>5, <1>6, <1>7 DEF IsFold
<1>9. \A s \in Seq(E) : R[s] \in V
  BY <1>5 DEF IsFold
<1>10. ASSUME NEW s \in Seq(E), NEW e \in E
       PROVE  FixSectors(rec, c, Append(s, e)) = FixSector(rec, c, FixSectors(rec, c, s), e)
  <2>1. R[Append(s, e)] = F[R[s], e]
    BY <1>5 DEF IsFold
  <2>. QED BY <2>1, <1>4, <1>6, <1>7, <1>9 DEF Act
<1>. QED BY <1>6, <1>8, <1>9, <1>10 DEF V, E, base

(* A record of which the first m sectors are repaired.                     *)
Repaired(rec, c, n, m, r) ==
  /\ r \in Fixing(n * c)
  /\ r.ok <=> \A i \in 1..m : rec.cells[i * c] = rec.cells[rec.usa + 1]
  /\ r.ok => /\ \A i \in 1..m : r.cells[i * c] = Original(rec, i)
             /\ \A k \in 1..n * c : (\A i \in 1..m : k # i * c) => r.cells[k] = rec.cells[k]

Upto(m) == [i \in 1..m |-> i]

LEMMA RepairedNext ==
  ASSUME NEW rec, NEW c \in Nat, NEW n \in Nat, Geometry(rec, c, n), NEW m \in 0..n - 1,
         NEW r, Repaired(rec, c, n, m, r)
  PROVE  Repaired(rec, c, n, m + 1, FixSector(rec, c, r, m + 1))
<1> DEFINE j == m + 1
           z == FixSector(rec, c, r, j)
<1>1. j \in 1..n /\ 1..j = (1..m) \cup {j} /\ j \notin 1..m /\ 1..m \subseteq 1..n
  OBVIOUS
<1>2. r \in Fixing(n * c)
  BY DEF Repaired
<1>3. /\ z \in Fixing(n * c)
      /\ z.ok <=> r.ok /\ r.cells[j * c] = rec.cells[rec.usa + 1]
      /\ z.ok => z.cells = [r.cells EXCEPT ![j * c] = r.cells[rec.usa + 1 + j]]
  <2>1. j \in 1..n
    BY <1>1
  <2> HIDE DEF j
  <2>2. Mended(rec, c, n, r, j, z)
    BY <1>2, <2>1, SectorMended
  <2> HIDE DEF z
  <2>. QED BY <2>2 DEF Mended
<1> HIDE DEF z, j
<1>4. /\ j * c \in 1..n * c /\ rec.usa + 1 \in 1..n * c /\ rec.usa + 1 + j \in 1..n * c
      /\ \A i \in 1..n : rec.usa + 1 # i * c /\ rec.usa + 1 + j # i * c
      /\ c > 0
  BY <1>1, GeometryFacts
<1>5. \A i \in 1..m : j * c # i * c
  BY <1>1, <1>4, SectorEnds
<1>6. r.ok => /\ r.cells[j * c] = rec.cells[j * c]
              /\ r.cells[rec.usa + 1 + j] = Original(rec, j)
  BY <1>1, <1>4, <1>5 DEF Repaired, Original
<1>7. z.ok <=> \A i \in 1..j : rec.cells[i * c] = rec.cells[rec.usa + 1]
  BY <1>1, <1>3, <1>6 DEF Repaired
<1>8. ASSUME z.ok
      PROVE  /\ \A i \in 1..j : z.cells[i * c] = Original(rec, i)
             /\ \A k \in 1..n * c : (\A i \in 1..j : k # i * c) => z.cells[k] = rec.cells[k]
  <2>1. r.ok /\ z.cells = [r.cells EXCEPT ![j * c] = Original(rec, j)]
    BY <1>3, <1>6, <1>8
  <2>2. r.cells \in [1..n * c -> Nat]
    BY <1>2 DEF Fixing
  <2>3. \A i \in 1..m : i * c \in 1..n * c
    BY <1>1, GeometryFacts
  <2>4. \A k \in 1..n * c : z.cells[k] = IF k = j * c THEN Original(rec, j) ELSE r.cells[k]
    BY <2>1, <2>2
  <2>5. ASSUME NEW i \in 1..j PROVE z.cells[i * c] = Original(rec, i)
    <3>1. CASE i = j
      BY <3>1, <2>4, <1>4
    <3>2. CASE i \in 1..m
      BY <3>2, <1>5, <2>1, <2>3, <2>4 DEF Repaired
    <3>. QED BY <1>1, <3>1, <3>2
  <2>6. ASSUME NEW k \in 1..n * c, \A i \in 1..j : k # i * c PROVE z.cells[k] = rec.cells[k]
    BY <1>1, <2>1, <2>4, <2>6 DEF Repaired
  <2>. QED BY <2>5, <2>6
<1>. QED BY <1>3, <1>7, <1>8 DEF Repaired, z, j

LEMMA RepairedUpto ==
  ASSUME NEW rec, NEW c \in Nat, NEW n \in Nat, Geometry(rec, c, n)
  PROVE  Repaired(rec, c, n, n, FixSectors(rec, c, Upto(n)))
<1> DEFINE T == {m \in Nat : m <= n => Repaired(rec, c, n, m, FixSectors(rec, c, Upto(m)))}
<1>1. 0 \in T
  <2>1. Upto(0) = <<>> /\ 1..0 = {}
    BY DEF Upto
  <2>2. FixSectors(rec, c, Upto(0)) = [ok |-> TRUE, cells |-> rec.cells]
    BY <2>1, FixSteps
  <2>3. rec.cells \in [1..n * c -> Nat]
    BY DEF Geometry
  <2>4. Repaired(rec, c, n, 0, [ok |-> TRUE, cells |-> rec.cells])
    BY <2>1, <2>3 DEF Repaired, Fixing
  <2>. QED BY <2>2, <2>4
<1>2. ASSUME NEW m \in Nat, m \in T PROVE m + 1 \in T
  <2>1. SUFFICES ASSUME m + 1 <= n
                 PROVE  Repaired(rec, c, n, m + 1, FixSectors(rec, c, Upto(m + 1)))
    OBVIOUS
  <2>2. m \in 0..n - 1 /\ Repaired(rec, c, n, m, FixSectors(rec, c, Upto(m)))
    BY <1>2, <2>1
  <2>3. Upto(m) \in Seq(1..n) /\ m + 1 \in 1..n /\ Upto(m + 1) = Append(Upto(m), m + 1)
    BY <2>1 DEF Upto
  <2>4. FixSectors(rec, c, Upto(m + 1)) = FixSector(rec, c, FixSectors(rec, c, Upto(m)), m + 1)
    <3>1. PICK s, e : s = Upto(m) /\ e = m + 1
      OBVIOUS
    <3>2. \A t \in Seq(1..n), i \in 1..n :
            FixSectors(rec, c, Append(t, i)) = FixSector(rec, c, FixSectors(rec, c, t), i)
      BY FixSteps
    <3>3. FixSectors(rec, c, Append(s, e)) = FixSector(rec, c, FixSectors(rec, c, s), e)
      BY <2>3, <3>1, <3>2
    <3>. QED BY <2>3, <3>1, <3>3
  <2>. QED BY <2>2, <2>4, RepairedNext
<1>3. Nat \subseteq T
  <2> HIDE DEF T
  <2>. QED BY <1>1, <1>2, NatSetInduction
<1>4. n \in T
  BY <1>3
<1>. QED BY <1>4

(* What stands in a protected record.                                      *)
Holds(P, cells, usa, c, n, number) ==
  /\ P \in [1..n * c -> Nat]
  /\ P[usa + 1] = number
  /\ \A i \in 1..n : P[i * c] = number /\ P[usa + 1 + i] = cells[i * c]
  /\ \A k \in 1..n * c :
       (\A i \in 1..n : k # i * c) /\ k \notin usa + 1..usa + 1 + n => P[k] = cells[k]

LEMMA ProtectedHolds ==
  ASSUME NEW c \in Nat, NEW n \in Nat \ {0}, NEW cells \in [1..n * c -> Nat],
         NEW usa \in Nat, usa + n + 1 < c, NEW number \in Nat
  PROVE  Holds(Protected(cells, usa, c, number), cells, usa, c, n, number)
<1> DEFINE P == Protected(cells, usa, c, number)
<1>1. c > 0 /\ c <= n * c /\ n * c \in Nat
  BY SectorEnds
<1>2. DOMAIN cells = 1..n * c /\ Len(cells) = n * c /\ Len(cells) \div c = n
  <2>1. (n * c) \div c = n
    BY <1>1, SectorEnds
  <2>. QED BY <1>1, <2>1
<1>3. \A i \in 1..n : i * c \in 1..n * c /\ i * c >= c /\ (i * c) % c = 0
  BY <1>1, SectorEnds
<1>4. \A k \in 1..n * c : (k < c => k % c # 0) /\ (k % c = 0 => \E i \in 1..n : k = i * c)
  BY <1>1, EndsSectors
<1>5. ASSUME NEW k \in 1..n * c
      PROVE  P[k] = IF k = usa + 1 \/ k % c = 0 THEN number
                    ELSE IF k \in usa + 2..usa + 1 + n THEN cells[(k - usa - 1) * c] ELSE cells[k]
  BY <1>2 DEF Protected
<1>6. ASSUME NEW k \in 1..n * c PROVE P[k] \in Nat
  <2>1. CASE k \in usa + 2..usa + 1 + n
    <3>1. k - usa - 1 \in 1..n
      BY <2>1
    <3>. QED BY <1>3, <1>5, <3>1
  <2>2. CASE k \notin usa + 2..usa + 1 + n
    BY <1>5, <2>2
  <2>. QED BY <2>1, <2>2
<1>7. DOMAIN P = 1..n * c /\ P = [k \in 1..n * c |-> P[k]]
  BY <1>2 DEF Protected
<1> HIDE DEF P
<1>8. P \in [1..n * c -> Nat]
  BY <1>6, <1>7
<1>9. P[usa + 1] = number
  BY <1>1, <1>5
<1>10. ASSUME NEW i \in 1..n PROVE P[i * c] = number /\ P[usa + 1 + i] = cells[i * c]
  <2>1. P[i * c] = number
    BY <1>3, <1>5
  <2>2. usa + 1 + i \in 1..n * c /\ usa + 1 + i < c /\ usa + 1 + i # usa + 1
        /\ usa + 1 + i \in usa + 2..usa + 1 + n /\ usa + 1 + i - usa - 1 = i
    BY <1>1
  <2>3. P[usa + 1 + i] = cells[(usa + 1 + i - usa - 1) * c]
    BY <1>4, <1>5, <2>2
  <2>. QED BY <2>1, <2>2, <2>3
<1>11. ASSUME NEW k \in 1..n * c, \A i \in 1..n : k # i * c, k \notin usa + 1..usa + 1 + n
       PROVE  P[k] = cells[k]
  <2>1. k % c # 0 /\ k # usa + 1 /\ k \notin usa + 2..usa + 1 + n
    <3>1. k % c # 0
      BY <1>4, <1>11
    <3>2. k # usa + 1 /\ k \notin usa + 2..usa + 1 + n
      BY <1>11
    <3>. QED BY <3>1, <3>2
  <2>. QED BY <1>5, <2>1
<1>. QED BY <1>8, <1>9, <1>10, <1>11 DEF P, Holds

(* What was written is back, but for the update sequence.                  *)
Restored(rec, c, n, cells, r) ==
  /\ r.ok
  /\ \A k \in 1..n * c : k \notin rec.usa + 1..rec.usa + 1 + n => r.cells[k] = cells[k]

(* A record that was written whole, whichever write it is of.              *)
LEMMA WholeRecord ==
  ASSUME NEW rec, NEW c \in Nat, NEW n \in Nat \ {0}, NEW cells, NEW number, NEW r,
         Holds(rec.cells, cells, rec.usa, c, n, number), Repaired(rec, c, n, n, r)
  PROVE  Restored(rec, c, n, cells, r)
<1>1. \A i \in 1..n : rec.cells[i * c] = number
  BY DEF Holds
<1>2. rec.cells[rec.usa + 1] = number
  BY DEF Holds
<1>3. \A i \in 1..n : Original(rec, i) = cells[i * c]
  BY DEF Original, Holds
<1>4. \A k \in 1..n * c :
        (\A i \in 1..n : k # i * c) /\ k \notin rec.usa + 1..rec.usa + 1 + n =>
          rec.cells[k] = cells[k]
  BY DEF Holds
<1>5. r.ok
  BY <1>1, <1>2 DEF Repaired
<1>6. /\ \A i \in 1..n : r.cells[i * c] = Original(rec, i)
      /\ \A k \in 1..n * c : (\A i \in 1..n : k # i * c) => r.cells[k] = rec.cells[k]
  BY <1>5 DEF Repaired
<1>7. ASSUME NEW k \in 1..n * c, k \notin rec.usa + 1..rec.usa + 1 + n PROVE r.cells[k] = cells[k]
  <2>1. CASE \E i \in 1..n : k = i * c
    BY <2>1, <1>3, <1>6
  <2>2. CASE \A i \in 1..n : k # i * c
    BY <2>2, <1>4, <1>6, <1>7
  <2>. QED BY <2>1, <2>2
<1>. QED BY <1>5, <1>7 DEF Restored

(* What the repair r shows of a write that ended after torn sectors.       *)
Shown(rec, c, n, torn, written, r) ==
  /\ r.ok <=> torn \in {0, n}
  /\ DOMAIN r.cells = 1..n * c
  /\ r.ok => \A k \in 1..n * c :
       k \notin rec.usa + 1..rec.usa + 1 + n => r.cells[k] = written[k]

(* A record of two writes, the second up to some sector.                   *)
LEMMA TornRecord ==
  ASSUME NEW rec, NEW c \in Nat, NEW n \in Nat \ {0}, rec.usa \in Nat, rec.count = n + 1,
         rec.usa + n + 1 < c, NEW old, NEW new, NEW first, NEW second, first # second,
         NEW P, NEW Q, Holds(P, old, rec.usa, c, n, first), Holds(Q, new, rec.usa, c, n, second),
         NEW torn \in 0..n, rec.cells = TornAt(torn * c, Q, P), NEW written,
         written = IF torn = 0 THEN old ELSE new, NEW r, r = Fixup(rec, c)
  PROVE  Shown(rec, c, n, torn, written, r)
<1>1. c > 0 /\ n * c \in Nat /\ c <= n * c /\ (n * c) \div c = n
  BY SectorEnds
<1>2. P \in [1..n * c -> Nat] /\ Q \in [1..n * c -> Nat]
  BY DEF Holds
<1>3. Q[rec.usa + 1] = second /\ P[n * c] = first
  BY DEF Holds
<1>4. /\ rec.cells \in [1..n * c -> Nat]
      /\ \A k \in 1..n * c : rec.cells[k] = IF k <= torn * c THEN Q[k] ELSE P[k]
  BY <1>2 DEF TornAt
<1>5. r = FixSectors(rec, c, Upto(n))
  <2>1. Len(rec.cells) = n * c
    BY <1>1, <1>4
  <2>2. rec.usa + rec.count <= Len(rec.cells) /\ Len(rec.cells) \div c = n
    BY <1>1, <2>1
  <2>. QED BY <2>2 DEF Fixup, Upto
<1>6. Repaired(rec, c, n, n, r)
  <2>1. Geometry(rec, c, n)
    BY <1>4 DEF Geometry
  <2>. QED BY <1>5, <2>1, RepairedUpto
<1>7. DOMAIN r.cells = 1..n * c
  BY <1>6 DEF Repaired, Fixing
<1>8. CASE torn = 0
  <2>1. torn * c = 0
    BY <1>8
  <2>2. rec.cells = P
    BY <1>1, <1>2, <1>4, <2>1
  <2>3. Restored(rec, c, n, old, r)
    <3>1. Holds(rec.cells, old, rec.usa, c, n, first)
      BY <2>2
    <3>. QED BY <1>6, <3>1, WholeRecord
  <2>. QED BY <1>7, <1>8, <2>3 DEF Shown, Restored
<1>9. CASE torn = n
  <2>1. rec.cells = Q
    BY <1>1, <1>2, <1>4, <1>9
  <2>2. Restored(rec, c, n, new, r)
    <3>1. Holds(rec.cells, new, rec.usa, c, n, second)
      BY <2>1
    <3>. QED BY <1>6, <3>1, WholeRecord
  <2>. QED BY <1>7, <1>9, <2>2 DEF Shown, Restored
<1>10. CASE torn \in 1..n - 1
  <2>1. c <= torn * c /\ torn * c < n * c
    BY <1>1, <1>10
  <2>2. rec.cells[rec.usa + 1] = second
    <3>1. rec.usa + 1 \in 1..n * c /\ rec.usa + 1 <= torn * c
      BY <1>1, <2>1
    <3>. QED BY <1>3, <1>4, <3>1
  <2>3. rec.cells[n * c] = first
    BY <1>1, <1>3, <1>4, <2>1
  <2>4. ~r.ok
    BY <1>6, <2>2, <2>3 DEF Repaired
  <2>. QED BY <1>7, <1>10, <2>4 DEF Shown
<1>. QED BY <1>8, <1>9, <1>10

TearFound(s, r) ==
  /\ r.ok <=> s.torn \in {0, s.sectors}
  /\ r.ok => \A k \in DOMAIN r.cells :
       k \notin s.raw.usa + 1..s.raw.usa + s.raw.count => r.cells[k] = s.written[k]

LEMMA TearsShow ==
  ASSUME NEW s, RecordSample(s)
  PROVE  TearFound(s, Fixup(s.raw, s.sector))
<1>1. PICK rec, c, n, torn, first, second, old, new, written, r :
        /\ rec = s.raw /\ c = s.sector /\ n = s.sectors /\ torn = s.torn
        /\ old = s.old /\ new = s.new /\ written = s.written
        /\ first = s.numbers[1] /\ second = s.numbers[2] /\ r = Fixup(s.raw, s.sector)
  OBVIOUS
<1>2. /\ n \in Nat \ {0} /\ c \in Nat /\ rec.usa \in Nat /\ rec.count = n + 1
      /\ rec.usa + n + 1 < c
      /\ first \in Nat /\ second \in Nat /\ first # second
      /\ old \in [1..n * c -> Nat] /\ new \in [1..n * c -> Nat]
      /\ torn \in 0..n
      /\ written = IF torn = 0 THEN old ELSE new
  BY <1>1 DEF RecordSample
<1>3. PICK P, Q : P = Protected(old, rec.usa, c, first) /\ Q = Protected(new, rec.usa, c, second)
  OBVIOUS
<1>4. Holds(P, old, rec.usa, c, n, first) /\ Holds(Q, new, rec.usa, c, n, second)
  BY <1>2, <1>3, ProtectedHolds
<1>5. rec.cells = TornAt(torn * c, Q, P)
  BY <1>1, <1>3 DEF RecordSample
<1>6. r = Fixup(rec, c)
  BY <1>1
<1>7. Shown(rec, c, n, torn, written, r)
  BY <1>2, <1>4, <1>5, <1>6, TornRecord
<1>8. rec.usa + rec.count = rec.usa + 1 + n
  <2>1. rec.usa \in Nat /\ n \in Nat /\ rec.count = n + 1
    BY <1>2
  <2>. QED BY <2>1
<1>. QED BY <1>1, <1>7, <1>8 DEF TearFound, Shown

----------------------------------------------------------------------------
(* Numbers and run lists, as bytes.                                        *)

(* Powers of the base, and the bases themselves.                           *)
LEMMA Bases == Base \in Nat /\ Base > 3 /\ Nibble \in Nat /\ Nibble > 1 /\ WordBytes \in Nat
<1>1. \A n \in Nat : n > 1 => n * n \in Nat /\ n * n > 3
  OBVIOUS
<1>. QED BY <1>1, NtfsAssumption

LEMMA Powers ==
  /\ Power \in [Nat -> Nat]
  /\ Power[0] = 1
  /\ \A n \in Nat : Power[n + 1] = Base * Power[n] /\ Power[n] > 0
<1> DEFINE F == [q \in Nat \X Nat |-> Base * q[1]]
<1>1. \A b, p \in Nat : b > 0 /\ p > 0 => b * p \in Nat /\ b * p > 0
  OBVIOUS
<1>2. \A b, p \in Nat : b * p \in Nat
  OBVIOUS
<1>3. \A v, i \in Nat : F[v, i] = Base * v
  OBVIOUS
<1>4. IsStep(F, Nat, Nat)
  <2>1. \A q \in Nat \X Nat : Base * q[1] \in Nat
    BY <1>2, Bases
  <2>. QED BY <2>1 DEF IsStep
<1> HIDE DEF F
<1>5. PICK f : /\ f \in [Nat -> Nat] /\ f[0] = 1
               /\ \A i \in Nat \ {0} : f[i] = F[f[i - 1], i]
  <2>1. \E f : Recurs(f, Nat, F, 1, Nat)
    BY <1>4, RecursionNat
  <2>. QED BY <2>1 DEF Recurs
<1>6. \A i \in Nat \ {0} : f[i] = Base * f[i - 1]
  <2>1. \A i \in Nat \ {0} : i - 1 \in Nat
    OBVIOUS
  <2>. QED BY <1>3, <1>5, <2>1
<1>7. f = [i \in Nat |-> IF i = 0 THEN 1 ELSE Base * f[i - 1]]
  <2>1. f = [i \in Nat |-> f[i]]
    BY <1>5
  <2>. QED BY <1>5, <1>6, <2>1
<1>8. Power = [i \in Nat |-> IF i = 0 THEN 1 ELSE Base * Power[i - 1]]
  BY <1>7 DEF Power
<1>9. Power[0] = 1 /\ \A n \in Nat : Power[n + 1] = Base * Power[n]
  BY <1>8
<1>10. \A n \in Nat : Power[n] \in Nat /\ Power[n] > 0
  <2> DEFINE S == {n \in Nat : Power[n] \in Nat /\ Power[n] > 0}
  <2>1. 0 \in S
    BY <1>9
  <2>2. ASSUME NEW n \in Nat, n \in S PROVE n + 1 \in S
    BY <1>1, <1>9, <2>2, Bases
  <2> HIDE DEF S
  <2>3. Nat \subseteq S
    BY <2>1, <2>2, NatSetInduction
  <2>. QED BY <2>3 DEF S
<1>11. DOMAIN Power = Nat /\ Power = [i \in Nat |-> Power[i]]
  BY <1>8
<1>. QED BY <1>9, <1>10, <1>11

(* A quotient is known by its multiple.                                    *)
LEMMA QuotientIs ==
  ASSUME NEW v \in Nat, NEW m \in Nat, m > 0, NEW r \in Nat, r * m <= v, v < (r + 1) * m
  PROVE  v \div m = r
<1>1. v \div m \in Nat /\ (v \div m) * m <= v /\ v < (v \div m + 1) * m
  OBVIOUS
<1>2. PICK q \in Nat : q = v \div m
  BY <1>1
<1>3. q * m <= v /\ v < (q + 1) * m
  BY <1>1, <1>2
<1>4. ~(q < r)
  <2>1. SUFFICES ASSUME q + 1 <= r PROVE FALSE
    OBVIOUS
  <2>2. (q + 1) * m <= r * m
    BY <2>1, Product
  <2>. QED BY <1>3, <2>2
<1>5. ~(r < q)
  <2>1. SUFFICES ASSUME r + 1 <= q PROVE FALSE
    OBVIOUS
  <2>2. (r + 1) * m <= q * m
    BY <2>1, Product
  <2>. QED BY <1>3, <2>2
<1>. QED BY <1>2, <1>4, <1>5

(* Quotients by powers: one more digit divides what was left by the base.  *)
DigitTaken(v, p, b) ==
  (v - (v \div p) * p) + ((v \div p) % b) * p = v - (v \div (b * p)) * (b * p)

LEMMA DigitStep ==
  ASSUME NEW v \in Nat, NEW p \in Nat, p > 0, NEW b \in Nat, b > 0
  PROVE  DigitTaken(v, p, b)
<1>1. v \div p \in Nat /\ (v \div p) * p <= v /\ v < (v \div p + 1) * p
  OBVIOUS
<1>2. PICK q \in Nat : q = v \div p
  BY <1>1
<1>3. q * p <= v /\ v < (q + 1) * p
  BY <1>1, <1>2
<1>4. PICK r, d \in Nat : r = q \div b /\ d = q % b /\ q = r * b + d /\ d < b
  OBVIOUS
<1>5. (r * b) * p <= q * p /\ (q + 1) * p <= ((r + 1) * b) * p
  <2>1. r * b \in Nat /\ r * b <= q
    BY <1>4
  <2>2. (r + 1) * b \in Nat /\ q + 1 <= (r + 1) * b
    BY <1>4
  <2>. QED BY <2>1, <2>2, Product
<1>6. PICK m \in Nat : m = b * p /\ m > 0
  OBVIOUS
<1>7. r * m <= v /\ v < (r + 1) * m
  <2>1. (r * b) * p = r * m /\ ((r + 1) * b) * p = (r + 1) * m
    BY <1>6
  <2>. QED BY <1>3, <1>5, <2>1
<1>8. v \div m = r
  BY <1>6, <1>7, QuotientIs
<1>9. (v - q * p) + d * p = v - r * m
  <2>1. q * p = (r * b) * p + d * p
    BY <1>4
  <2>2. (r * b) * p = r * m
    BY <1>6
  <2>. QED BY <2>1, <2>2
<1>. QED BY <1>2, <1>4, <1>6, <1>8, <1>9 DEF DigitTaken

LEMMA DivMod ==
  ASSUME NEW d \in Int, NEW p \in Nat, p > 0
  PROVE  \E q \in Int, e \in 0..p - 1 : e = d % p /\ d = q * p + e
<1>1. d \div p \in Int
  OBVIOUS
<1>2. d % p \in 0..p - 1
  OBVIOUS
<1>3. d = p * (d \div p) + (d % p)
  OBVIOUS
<1>. QED BY <1>1, <1>2, <1>3

(* The digits of a number spell it.                                        *)
LEMMA DigitsSpell ==
  ASSUME NEW n \in Nat, NEW v \in Nat, v < Power[n], NEW bytes \in Seq(Nat), Len(bytes) = n,
         \A j \in 1..n : bytes[j] = ByteOf(v, j)
  PROVE  Number(bytes) = v
<1> DEFINE Rest(i) == (v \div Power[i]) * Power[i]
           f == [i \in 0..n |-> v - Rest(i)]
           Next(g, i) == g[i - 1] + bytes[i] * Power[i - 1]
           Solves(g) == g = [i \in 0..n |-> IF i = 0 THEN 0 ELSE Next(g, i)]
<1>1. Rest(0) = v
  <2>1. v \div 1 = v
    OBVIOUS
  <2>. QED BY <2>1, Powers
<1>2. ASSUME NEW i \in 1..n PROVE (v - Rest(i - 1)) + bytes[i] * Power[i - 1] = v - Rest(i)
  <2>1. PICK m \in Nat : m = i - 1 /\ i = m + 1
    OBVIOUS
  <2>2. PICK p \in Nat : p = Power[m] /\ p > 0 /\ Power[i] = Base * p
    BY <2>1, Powers
  <2>3. PICK b \in Nat : b = Base /\ b > 0
    BY Bases
  <2>4. bytes[i] = (v \div p) % b
    BY <2>1, <2>2, <2>3 DEF ByteOf
  <2>5. DigitTaken(v, p, b)
    BY <2>2, <2>3, DigitStep
  <2>. QED BY <2>1, <2>2, <2>3, <2>4, <2>5 DEF DigitTaken
<1>3. Rest(n) = 0
  <2>1. PICK p \in Nat : p = Power[n] /\ p > 0
    BY Powers
  <2>2. 0 * p <= v /\ v < (0 + 1) * p
    BY <2>1
  <2>3. v \div p = 0
    BY <2>1, <2>2, QuotientIs
  <2>. QED BY <2>1, <2>3
<1> HIDE DEF Rest
<1>4. f[0] = 0 /\ f[n] = v
  BY <1>1, <1>3
<1>5. \A i \in 1..n : f[i] = Next(f, i)
  <2>1. \A i \in 1..n : i \in 0..n /\ i - 1 \in 0..n
    OBVIOUS
  <2>. QED BY <1>2, <2>1
<1>6. Solves(f)
  <2>1. \A i \in 0..n : f[i] = IF i = 0 THEN 0 ELSE Next(f, i)
    <3>1. \A i \in 0..n : i = 0 \/ i \in 1..n
      OBVIOUS
    <3> HIDE DEF f
    <3>. QED BY <1>4, <1>5, <3>1
  <2>2. f = [i \in 0..n |-> f[i]]
    OBVIOUS
  <2> HIDE DEF f
  <2>. QED BY <2>1, <2>2
<1>7. PICK w : Solves(w) /\ Number(bytes) = w[n]
  <2>1. Number(bytes) = (CHOOSE g : Solves(g))[n]
    BY DEF Number
  <2> HIDE DEF Solves
  <2>. QED BY <1>6, <2>1, Zenon
<1> HIDE DEF f
<1>8. w[0] = 0 /\ \A i \in 1..n : w[i] = Next(w, i)
  <2>1. \A i \in 0..n : w[i] = IF i = 0 THEN 0 ELSE Next(w, i)
    BY <1>7
  <2>2. 0 \in 0..n /\ \A i \in 1..n : i \in 0..n /\ i # 0
    OBVIOUS
  <2>. QED BY <2>1, <2>2
<1>9. w[n] = f[n]
  BY <1>4, <1>5, <1>8, Agree
<1>. QED BY <1>4, <1>7, <1>9

(* So do those of its two's complement.                                    *)
LEMMA DigitsSigned ==
  ASSUME NEW n \in Nat, NEW d \in Int, 2 * d \in -Power[n]..Power[n] - 1,
         NEW bytes \in Seq(Nat), Len(bytes) = n,
         \A j \in 1..n : bytes[j] = ByteOf(d % Power[n], j)
  PROVE  Signed(bytes) = d
<1>1. PICK p \in Nat : p = Power[n] /\ p > 0
  BY Powers
<1>2. -p <= 2 * d /\ 2 * d < p
  BY <1>1
<1>3. d % p = IF d < 0 THEN d + p ELSE d
  <2>1. PICK q \in Int, e \in 0..p - 1 : e = d % p /\ d = q * p + e
    BY <1>1, DivMod
  <2>. e \in 0..p - 1 /\ q \in Int
    BY <2>1
  <2>2. CASE d < 0
    <3>1. ~(q >= 0)
      BY <1>1, <2>1, <2>2
    <3>2. ~(q <= -2)
      <4>1. SUFFICES ASSUME q <= -2 PROVE FALSE
        OBVIOUS
      <4>2. PICK r \in Nat : r = -q /\ 2 <= r
        BY <4>1
      <4>. PICK m \in Nat : m = r * p
        BY <1>1, <4>2, Product
      <4>3. 2 * p <= m
        BY <1>1, <4>2, Product
      <4>4. d = e - m
        <5>1. q = -r /\ d = q * p + e
          BY <2>1, <4>2
        <5>2. (-r) * p = -(r * p)
          OBVIOUS
        <5>. QED BY <5>1, <5>2
      <4>. QED BY <1>1, <1>2, <4>3, <4>4
    <3>3. q = -1
      BY <3>1, <3>2
    <3>. QED BY <2>1, <2>2, <3>3
  <2>3. CASE d >= 0
    <3>1. ~(q <= -1)
      <4>1. SUFFICES ASSUME q <= -1 PROVE FALSE
        OBVIOUS
      <4>2. PICK r \in Nat : r = -q /\ 1 <= r
        BY <4>1
      <4>. PICK m \in Nat : m = r * p
        BY <1>1, <4>2, Product
      <4>3. p <= m
        BY <1>1, <4>2, Product
      <4>4. d = e - m
        <5>1. q = -r /\ d = q * p + e
          BY <2>1, <4>2
        <5>2. (-r) * p = -(r * p)
          OBVIOUS
        <5>. QED BY <5>1, <5>2
      <4>. QED BY <1>1, <2>3, <4>3, <4>4
    <3>2. ~(q >= 1)
      <4>1. SUFFICES ASSUME q >= 1 PROVE FALSE
        OBVIOUS
      <4>. PICK m \in Nat : m = q * p
        BY <1>1, <4>1, Product
      <4>2. p <= m
        BY <1>1, <4>1, Product
      <4>3. d = m + e
        BY <2>1, <4>2
      <4>. QED BY <1>1, <1>2, <4>2, <4>3
    <3>3. q = 0
      BY <3>1, <3>2
    <3>. QED BY <2>1, <2>3, <3>3
  <2>. QED BY <2>2, <2>3
<1>4. PICK v \in Nat : v = d % p /\ v < p
  BY <1>1, <1>2, <1>3
<1>5. Number(bytes) = v
  BY <1>1, <1>4, DigitsSpell
<1>6. Signed(bytes) = IF 2 * v >= p THEN v - p ELSE v
  BY <1>1, <1>5 DEF Signed
<1>. QED BY <1>2, <1>3, <1>4, <1>6

LEMMA RunFields ==
  \A r \in DataRuns : /\ r.lcn = -1 \/ r.lcn \in Nat
                      /\ r.length \in Nat /\ r.length > 0
                      /\ r = [lcn |-> r.lcn, length |-> r.length]
BY DEF DataRuns

LEMMA RunOf ==
  ASSUME NEW runs \in Seq(DataRuns), NEW i \in 1..Len(runs)
  PROVE  runs[i] \in DataRuns /\ (runs[i].lcn = -1 \/ runs[i].lcn \in Nat)
<1>1. runs[i] \in DataRuns
  OBVIOUS
<1>. QED BY <1>1, RunFields

(* The run before the next one.                                            *)
LEMMA LcnGoesOn ==
  ASSUME NEW runs \in Seq(DataRuns), NEW i \in 1..Len(runs)
  PROVE  /\ LcnBefore(runs, i) \in Nat
         /\ LcnBefore(runs, i + 1) = IF runs[i].lcn = -1 THEN LcnBefore(runs, i) ELSE runs[i].lcn
<1> DEFINE There(k) == {j \in 1..k - 1 : runs[j].lcn # -1}
<1>1. There(i) \in SUBSET (1..i - 1) /\ i - 1 \in Nat
  OBVIOUS
<1>2. There(i + 1) = There(i) \cup {j \in {i} : runs[j].lcn # -1}
  OBVIOUS
<1>3. \A k : LcnBefore(runs, k) = IF There(k) = {} THEN 0 ELSE runs[Max(There(k))].lcn
  BY DEF LcnBefore
<1>4. \A j \in 1..Len(runs) : runs[j].lcn = -1 \/ runs[j].lcn \in Nat
  BY RunOf
<1>5. \A j \in There(i) : j \in 1..Len(runs) /\ runs[j].lcn # -1
  OBVIOUS
<1>6. runs[i].lcn # -1 => There(i + 1) \in SUBSET (1..(i - 1) + 1) /\ (i - 1) + 1 \in There(i + 1)
  OBVIOUS
<1> HIDE DEF There
<1>7. LcnBefore(runs, i) \in Nat
  <2>1. CASE There(i) = {}
    BY <1>3, <2>1
  <2>2. CASE There(i) # {}
    <3>1. Max(There(i)) \in There(i)
      BY <1>1, <2>2, MaxIndex
    <3>. QED BY <1>3, <1>4, <1>5, <2>2, <3>1
  <2>. QED BY <2>1, <2>2
<1>8. CASE runs[i].lcn = -1
  <2>1. There(i + 1) = There(i)
    BY <1>2, <1>8
  <2>. QED BY <1>3, <1>7, <1>8, <2>1
<1>9. CASE runs[i].lcn # -1
  <2>1. Max(There(i + 1)) = i /\ There(i + 1) # {}
    <3>1. PICK m \in Nat : m = i - 1 /\ m + 1 = i
      OBVIOUS
    <3>2. There(i + 1) \in SUBSET (1..m + 1) /\ m + 1 \in There(i + 1)
      BY <1>6, <1>9, <3>1
    <3>. QED BY <3>1, <3>2, MaxOfInterval
  <2>. QED BY <1>3, <1>7, <1>9, <2>1
<1>. QED BY <1>8, <1>9

LEMMA AppendedRun ==
  ASSUME NEW S, NEW s \in Seq(S), NEW i \in 1..Len(s)
  PROVE  Append(SubSeq(s, 1, i - 1), s[i]) = SubSeq(s, 1, i)
OBVIOUS

(* What has been read behind the first i runs.                             *)
ReadUpto(runs, cuts, i) ==
  [at |-> cuts[i + 1], lcn |-> LcnBefore(runs, i + 1), runs |-> SubSeq(runs, 1, i), more |-> TRUE]

LEMMA RunIsRead ==
  ASSUME NEW data, NEW runs, NEW cuts, EncodedRuns(data, runs, cuts), NEW i \in 1..Len(runs)
  PROVE  RunRead(data, ReadUpto(runs, cuts, i - 1)) = ReadUpto(runs, cuts, i)
<1>1. /\ data \in Seq(0..Base - 1) /\ runs \in Seq(DataRuns)
      /\ cuts \in Seq(Nat) /\ Len(cuts) = Len(runs) + 1
      /\ EncodedRun(data, cuts[i], cuts[i + 1], runs[i], LcnBefore(runs, i))
  <2>1. runs \in Seq(DataRuns)
    BY DEF EncodedRuns
  <2>2. i \in DOMAIN runs
    BY <2>1
  <2>. QED BY <2>1, <2>2 DEF EncodedRuns
<1>2. PICK at, end, run, from, h :
        /\ at = cuts[i] /\ end = cuts[i + 1] /\ run = runs[i] /\ from = LcnBefore(runs, i)
        /\ h = data[at + 1]
  OBVIOUS
<1>3. at \in Nat /\ end \in Nat /\ run \in DataRuns /\ from \in Nat
  <2>1. i \in 1..Len(cuts) /\ i + 1 \in 1..Len(cuts)
    BY <1>1
  <2>. QED BY <1>1, <1>2, <2>1, LcnGoesOn, RunOf
<1>4. \A k \in 1..Len(data) : data[k] \in Nat
  <2>1. \A b \in 0..Base - 1 : b \in Nat
    BY Bases
  <2>2. PICK S : S = 0..Base - 1
    OBVIOUS
  <2>3. data \in Seq(S)
    BY <1>1, <2>2
  <2>4. \A k \in 1..Len(data) : data[k] \in S
    BY <2>3
  <2>. QED BY <2>1, <2>2, <2>4
<1>5. PICK len, off : len = h % Nibble /\ off = h \div Nibble
  OBVIOUS
<1>6. /\ end = at + 1 + len + off /\ at < end /\ end <= Len(data)
      /\ len \in 1..WordBytes /\ run.length \in 1..Power[len] - 1
      /\ \A j \in 1..len : data[at + 1 + j] = ByteOf(run.length, j)
      /\ IF off = 0 THEN run.lcn = -1
         ELSE /\ off <= WordBytes /\ run.lcn \in Nat /\ 2 * run.lcn < WordEnd
              /\ 2 * (run.lcn - from) \in -Power[off]..Power[off] - 1
              /\ \A j \in 1..off :
                   data[at + 1 + len + j] = ByteOf((run.lcn - from) % Power[off], j)
  BY <1>1, <1>2, <1>5 DEF EncodedRun
<1>7. len \in Nat /\ len > 0 /\ len <= WordBytes /\ off \in Nat
  <2>1. h \in Nat
    <3>1. at + 1 \in 1..Len(data)
      BY <1>1, <1>3, <1>6
    <3>. QED BY <1>2, <1>4, <3>1
  <2>2. \A m \in Nat : m > 0 => h \div m \in Nat /\ h % m \in Nat
    BY <2>1
  <2>. QED BY <1>5, <1>6, <2>2, Bases
<1>8. PICK bytes, offset : /\ bytes = SubSeq(data, at + 2, at + 1 + len)
                           /\ offset = SubSeq(data, at + 2 + len, end)
  OBVIOUS
<1>9. /\ bytes \in Seq(Nat) /\ Len(bytes) = len
      /\ \A j \in 1..len : bytes[j] = data[at + 1 + j]
  <2>1. \A k \in at + 2..at + 1 + len : data[k] \in Nat
    BY <1>3, <1>4, <1>6, <1>7
  <2>2. (at + 1 + len) - (at + 2) + 1 = len /\ at + 2 <= at + 1 + len
    BY <1>3, <1>7
  <2>3. \A j \in 1..len : (at + 2) + j - 1 = at + 1 + j
    BY <1>3, <1>7
  <2>4. at + 2 \in Int /\ at + 1 + len \in Int
    BY <1>3, <1>7
  <2>. QED BY <1>8, <2>1, <2>2, <2>3, <2>4, SubSeqProperties
<1>10. Number(bytes) = run.length
  <2>1. run.length \in Nat /\ run.length < Power[len]
    <3>1. Power[len] \in Nat
      BY <1>7, Powers
    <3>. QED BY <1>6, <3>1
  <2>2. \A j \in 1..len : bytes[j] = ByteOf(run.length, j)
    BY <1>6, <1>9
  <2>. QED BY <1>7, <1>9, <2>1, <2>2, DigitsSpell
<1>11. ASSUME off # 0 PROVE Signed(offset) = run.lcn - from
  <2>1. \A k \in at + 2 + len..end : data[k] \in Nat
    BY <1>3, <1>4, <1>6, <1>7
  <2>2. end - (at + 2 + len) + 1 = off /\ at + 2 + len <= end
    BY <1>3, <1>6, <1>7, <1>11
  <2>3. \A j \in 1..off : (at + 2 + len) + j - 1 = at + 1 + len + j
    BY <1>3, <1>7
  <2>4. at + 2 + len \in Int /\ end \in Int
    BY <1>3, <1>7
  <2>5. /\ offset \in Seq(Nat) /\ Len(offset) = off
        /\ \A j \in 1..off : offset[j] = data[at + 1 + len + j]
    BY <1>8, <2>1, <2>2, <2>3, <2>4, SubSeqProperties
  <2>6. PICK d \in Int : d = run.lcn - from
    BY <1>3, RunFields
  <2>7. /\ 2 * d \in -Power[off]..Power[off] - 1
        /\ \A j \in 1..off : offset[j] = ByteOf(d % Power[off], j)
    BY <1>6, <1>11, <2>5, <2>6
  <2>. QED BY <1>7, <2>5, <2>6, <2>7, DigitsSigned
<1>12. PICK st : st = ReadUpto(runs, cuts, i - 1)
  OBVIOUS
<1>13. st.at = at /\ st.lcn = from /\ st.runs = SubSeq(runs, 1, i - 1) /\ st.more
  <2>1. (i - 1) + 1 = i
    OBVIOUS
  <2>. QED BY <1>2, <1>12, <2>1 DEF ReadUpto
<1>14. RunRead(data, st) =
         IF off = 0
         THEN [at |-> end, lcn |-> from,
               runs |-> Append(SubSeq(runs, 1, i - 1), [lcn |-> -1, length |-> run.length]),
                more |-> TRUE]
         ELSE [at |-> end, lcn |-> run.lcn,
               runs |-> Append(SubSeq(runs, 1, i - 1), [lcn |-> run.lcn, length |-> run.length]),
               more |-> TRUE]
  <2>1. /\ at # Len(data) /\ len # 0 /\ ~(len > WordBytes)
        /\ ~(off > WordBytes) /\ ~(end > Len(data))
    <3>1. Len(data) \in Nat
      BY <1>1
    <3>. QED BY <1>3, <1>6, <1>7, <3>1, Bases
  <2>2. run.length # 0
    BY <1>3, RunFields
  <2>3. off # 0 => LET lcn == from + Signed(offset)
                   IN  lcn = run.lcn /\ ~(lcn < 0) /\ ~(2 * lcn >= WordEnd)
    <3>1. SUFFICES ASSUME off # 0
                   PROVE  /\ from + Signed(offset) = run.lcn
                          /\ run.lcn \in Nat /\ ~(2 * run.lcn >= WordEnd)
      OBVIOUS
    <3>2. WordEnd \in Nat
      BY Bases, Powers DEF WordEnd
    <3>. QED BY <1>3, <1>6, <1>11, <3>1, <3>2
  <2>4. off > 0 <=> off # 0
    BY <1>7
  <2>5. data[st.at + 1] % Nibble = len /\ data[st.at + 1] \div Nibble = off
        /\ st.at + 1 + len + off = end
    BY <1>2, <1>5, <1>6, <1>13
  <2>6. Number(SubSeq(data, st.at + 2, st.at + 1 + len)) = run.length
    BY <1>8, <1>10, <1>13
  <2>7. off # 0 => st.lcn + Signed(SubSeq(data, st.at + 2 + len, end)) = run.lcn
    BY <1>8, <1>13, <2>3
  <2>. QED BY <1>13, <2>1, <2>2, <2>3, <2>4, <2>5, <2>6, <2>7 DEF RunRead
<1>15. Append(SubSeq(runs, 1, i - 1), run) = SubSeq(runs, 1, i)
  BY <1>1, <1>2, AppendedRun
<1>16. run = [lcn |-> run.lcn, length |-> run.length]
  BY <1>3, RunFields
<1>17. LcnBefore(runs, i + 1) = IF run.lcn = -1 THEN from ELSE run.lcn
  BY <1>1, <1>2, LcnGoesOn
<1>18. CASE off = 0
  BY <1>2, <1>6, <1>12, <1>14, <1>15, <1>16, <1>17, <1>18 DEF ReadUpto
<1>19. CASE off # 0
  <2>1. run.lcn # -1
    BY <1>6, <1>19
  <2>. QED BY <1>2, <1>12, <1>14, <1>15, <1>16, <1>17, <1>19, <2>1 DEF ReadUpto
<1>. QED BY <1>18, <1>19

(* Behind the last run the loop ends, and goes no further.                 *)
LEMMA NothingLeft ==
  ASSUME NEW data, NEW runs, NEW cuts, EncodedRuns(data, runs, cuts), NEW st,
         st = RunRead(data, ReadUpto(runs, cuts, Len(runs)))
  PROVE  st.runs = runs /\ RunRead(data, st) = st
<1>1. /\ data \in Seq(0..Base - 1) /\ runs \in Seq(DataRuns) /\ Len(runs) \in Nat
      /\ (cuts[Len(runs) + 1] = Len(data) \/ data[cuts[Len(runs) + 1] + 1] = 0)
  <2>1. runs \in Seq(DataRuns)
    BY DEF EncodedRuns
  <2>2. Len(runs) \in Nat
    BY <2>1
  <2>. QED BY <2>1, <2>2 DEF EncodedRuns
<1>2. PICK at, last : at = cuts[Len(runs) + 1] /\ last = ReadUpto(runs, cuts, Len(runs))
  OBVIOUS
<1>3. last.at = at /\ last.runs = runs /\ last.more
  <2>1. SubSeq(runs, 1, Len(runs)) = runs
    BY <1>1, SubSeqFull
  <2>. QED BY <1>2, <2>1 DEF ReadUpto
<1>4. CASE at = Len(data)
  <2>1. RunRead(data, last) = last
    BY <1>3, <1>4 DEF RunRead
  <2>. QED BY <1>2, <1>3, <2>1
<1>5. CASE at # Len(data)
  <2>1. data[last.at + 1] % Nibble = 0
    <3>1. \A m \in Nat : m > 0 => 0 % m = 0
      OBVIOUS
    <3>. QED BY <1>1, <1>2, <1>3, <1>5, <3>1, Bases
  <2>2. st = [at |-> last.at, lcn |-> last.lcn, runs |-> last.runs, more |-> FALSE]
    BY <1>2, <1>3, <1>5, <2>1 DEF RunRead
  <2>3. ~st.more /\ st.runs = runs
    BY <1>3, <2>2
  <2>. QED BY <2>3 DEF RunRead
<1>. QED BY <1>4, <1>5

(* A run list is read as it was written.                                   *)
THEOREM RunsAreRead ==
  ASSUME NEW data, NEW runs, NEW cuts, EncodedRuns(data, runs, cuts)
  PROVE  ParseRuns(data) = runs
<1>1. /\ data \in Seq(0..Base - 1) /\ runs \in Seq(DataRuns) /\ cuts \in Seq(Nat)
      /\ Len(cuts) = Len(runs) + 1 /\ cuts[1] = 0
  BY DEF EncodedRuns
<1>2. PICK n, size \in Nat : n = Len(runs) /\ size = Len(data)
  BY <1>1
<1>3. ASSUME NEW i \in 1..n PROVE cuts[i] < cuts[i + 1] /\ cuts[i + 1] <= size
  <2>1. i \in DOMAIN runs
    BY <1>1, <1>2
  <2>2. EncodedRun(data, cuts[i], cuts[i + 1], runs[i], LcnBefore(runs, i))
    BY <2>1 DEF EncodedRuns
  <2>. QED BY <1>2, <2>2 DEF EncodedRun
<1>4. n <= size
  <2> DEFINE S == {i \in Nat : i <= n => i <= cuts[i + 1]}
  <2>1. 0 \in S
    BY <1>1
  <2>2. ASSUME NEW i \in Nat, i \in S PROVE i + 1 \in S
    <3>1. SUFFICES ASSUME i + 1 <= n PROVE i + 1 <= cuts[(i + 1) + 1]
      OBVIOUS
    <3>2. i <= cuts[i + 1] /\ cuts[i + 1] < cuts[(i + 1) + 1]
      BY <1>3, <2>2, <3>1
    <3>3. i + 1 \in 1..Len(cuts) /\ (i + 1) + 1 \in 1..Len(cuts)
      BY <1>1, <1>2, <3>1
    <3>4. cuts[i + 1] \in Nat /\ cuts[(i + 1) + 1] \in Nat
      BY <1>1, <3>3
    <3>. QED BY <3>2, <3>4
  <2> HIDE DEF S
  <2>3. Nat \subseteq S
    BY <2>1, <2>2, NatSetInduction
  <2>4. n <= cuts[n + 1]
    BY <2>3 DEF S
  <2>5. CASE n = 0
    BY <2>5
  <2>6. CASE n > 0
    <3>1. cuts[n + 1] <= size /\ cuts[n + 1] \in Nat
      BY <1>1, <1>2, <1>3, <2>6
    <3>. QED BY <2>4, <3>1
  <2>. QED BY <2>5, <2>6
<1>5. PICK last : last = RunRead(data, ReadUpto(runs, cuts, n))
  OBVIOUS
<1>6. last.runs = runs /\ RunRead(data, last) = last
  BY <1>2, <1>5, NothingLeft
<1> DEFINE f == [i \in 0..size |-> IF i <= n THEN ReadUpto(runs, cuts, i) ELSE last]
           Solves(g) == g = [i \in 0..size |-> IF i = 0 THEN NoRuns ELSE RunRead(data, g[i - 1])]
<1>7. f[0] = NoRuns /\ f[size].runs = runs
  <2>1. ReadUpto(runs, cuts, 0) = NoRuns
    <3>1. 0 + 1 = 1 /\ 1..1 - 1 = {}
      OBVIOUS
    <3>2. LcnBefore(runs, 1) = 0
      BY <3>1 DEF LcnBefore
    <3>3. SubSeq(runs, 1, 0) = <<>>
      BY SubSeqEmpty
    <3>. QED BY <1>1, <3>1, <3>2, <3>3 DEF ReadUpto, NoRuns
  <2>2. f[0] = NoRuns
    BY <2>1
  <2>3. ReadUpto(runs, cuts, n).runs = runs
    <3>1. SubSeq(runs, 1, Len(runs)) = runs
      BY <1>1, SubSeqFull
    <3>. QED BY <1>2, <3>1 DEF ReadUpto
  <2>4. f[size] = ReadUpto(runs, cuts, n) \/ f[size] = last
    BY <1>4
  <2> HIDE DEF f
  <2>. QED BY <1>6, <2>2, <2>3, <2>4
<1>8. \A i \in 1..size : f[i] = RunRead(data, f[i - 1])
  <2>1. ASSUME NEW i \in 1..n
        PROVE  RunRead(data, ReadUpto(runs, cuts, i - 1)) = ReadUpto(runs, cuts, i)
    BY <1>2, RunIsRead
  <2>2. ASSUME NEW i \in 1..size PROVE f[i] = RunRead(data, f[i - 1])
    <3>1. i \in 0..size /\ i - 1 \in 0..size
      OBVIOUS
    <3>2. CASE i <= n
      <4>1. f[i] = ReadUpto(runs, cuts, i) /\ f[i - 1] = ReadUpto(runs, cuts, i - 1) /\ i \in 1..n
        BY <3>1, <3>2
      <4> HIDE DEF f
      <4>. QED BY <2>1, <4>1
    <3>3. CASE i = n + 1
      <4>1. f[i] = last /\ f[i - 1] = ReadUpto(runs, cuts, n)
        BY <3>1, <3>3
      <4> HIDE DEF f
      <4>. QED BY <1>5, <4>1
    <3>4. CASE i > n + 1
      <4>1. f[i] = last /\ f[i - 1] = last
        BY <3>1, <3>4
      <4> HIDE DEF f
      <4>. QED BY <1>6, <4>1
    <3>. QED BY <3>2, <3>3, <3>4
  <2>. QED BY <2>2
<1>9. f = [i \in 0..size |-> f[i]]
  OBVIOUS
<1> HIDE DEF f
<1>10. Solves(f)
  <2>1. \A i \in 0..size : f[i] = IF i = 0 THEN NoRuns ELSE RunRead(data, f[i - 1])
    <3>1. \A i \in 0..size : i = 0 \/ i \in 1..size
      OBVIOUS
    <3>. QED BY <1>7, <1>8, <3>1
  <2>. QED BY <1>9, <2>1
<1>11. PICK w : Solves(w) /\ ParseRuns(data) = w[size].runs
  <2>1. ParseRuns(data) = (CHOOSE g : Solves(g))[size].runs
    BY <1>2 DEF ParseRuns
  <2> HIDE DEF Solves
  <2>. QED BY <1>10, <2>1, Zenon
<1>12. w[0] = NoRuns /\ \A i \in 1..size : w[i] = RunRead(data, w[i - 1])
  <2>1. \A i \in 0..size : w[i] = IF i = 0 THEN NoRuns ELSE RunRead(data, w[i - 1])
    BY <1>11
  <2>2. 0 \in 0..size /\ \A i \in 1..size : i \in 0..size /\ i # 0
    OBVIOUS
  <2>. QED BY <2>1, <2>2
<1>13. w[size] = f[size]
  BY <1>7, <1>8, <1>12, Agree
<1>. QED BY <1>7, <1>11, <1>13

----------------------------------------------------------------------------
(* The first clusters of a file, run by run.                               *)
SumsOf(sum, runs) ==
  /\ sum \in [0..Len(runs) -> Nat]
  /\ sum[0] = 0
  /\ \A i \in 1..Len(runs) : sum[i] = sum[i - 1] + runs[i].length

LEMMA ClusterSums ==
  ASSUME NEW runs \in Seq(DataRuns)
  PROVE  SumsOf(Clusters(runs), runs)
<1>. PICK n \in Nat : n = Len(runs)
  OBVIOUS
<1> DEFINE F == [q \in Nat \X (1..n) |-> q[1] + runs[q[2]].length]
           Solves(g) == g = [i \in 0..n |-> IF i = 0 THEN 0 ELSE g[i - 1] + runs[i].length]
<1>1. \A i \in 1..n : runs[i].length \in Nat
  <2>1. \A i \in 1..n : runs[i] \in DataRuns
    OBVIOUS
  <2>. QED BY <2>1, RunFields
<1>2. F \in [Nat \X (1..n) -> Nat] /\ \A v \in Nat, i \in 1..n : F[v, i] = v + runs[i].length
  <2>1. \A q \in Nat \X (1..n) : q[1] + runs[q[2]].length \in Nat
    BY <1>1
  <2>2. F \in [Nat \X (1..n) -> Nat]
    BY <2>1
  <2>3. \A v \in Nat, i \in 1..n : F[v, i] = v + runs[i].length
    OBVIOUS
  <2>. QED BY <2>2, <2>3
<1> HIDE DEF F
<1>3. PICK f : /\ f \in [0..n -> Nat] /\ f[0] = 0
               /\ \A i \in (0..n) \ {0} : f[i] = F[f[i - 1], i]
  <2>1. IsStep(F, Nat, 1..n)
    BY <1>2 DEF IsStep
  <2>2. \E f : Recurs(f, Nat, F, 0, 0..n)
    BY <2>1, RecursionUpto
  <2>. QED BY <2>2 DEF Recurs
<1>4. ASSUME NEW i \in 1..n PROVE f[i] = f[i - 1] + runs[i].length
  <2>1. i - 1 \in 0..n /\ i \in (0..n) \ {0}
    OBVIOUS
  <2>2. f[i - 1] \in Nat
    BY <1>3, <2>1
  <2>. QED BY <1>2, <1>3, <2>1, <2>2
<1>5. Solves(f)
  <2>1. f = [i \in 0..n |-> f[i]]
    BY <1>3
  <2>2. \A i \in 0..n : f[i] = IF i = 0 THEN 0 ELSE f[i - 1] + runs[i].length
    <3>1. \A i \in 0..n : i = 0 \/ i \in 1..n
      OBVIOUS
    <3>. QED BY <1>3, <1>4, <3>1
  <2>. QED BY <2>1, <2>2
<1>6. PICK w : Solves(w) /\ Clusters(runs) = w
  <2>1. Clusters(runs) = CHOOSE g : Solves(g)
    BY DEF Clusters
  <2> HIDE DEF Solves
  <2>. QED BY <1>5, <2>1, Zenon
<1>7. w[0] = 0 /\ \A i \in 1..n : w[i] = w[i - 1] + runs[i].length
  <2>1. \A i \in 0..n : w[i] = IF i = 0 THEN 0 ELSE w[i - 1] + runs[i].length
    BY <1>6
  <2>2. 0 \in 0..n /\ \A i \in 1..n : i \in 0..n /\ i # 0
    OBVIOUS
  <2>. QED BY <2>1, <2>2
<1>8. ASSUME NEW m \in 0..n PROVE w[m] = f[m]
  <2>1. m \in Nat /\ \A i \in 1..m : i \in 1..n
    OBVIOUS
  <2>2. \A i \in 1..m : f[i - 1] = w[i - 1] => f[i] = w[i]
    BY <1>4, <1>7, <2>1
  <2>3. f[0] = w[0]
    BY <1>3, <1>7
  <2>. QED BY <2>1, <2>2, <2>3, Agree
<1>9. DOMAIN w = 0..n /\ w = [i \in 0..n |-> w[i]]
  BY <1>6
<1>10. w \in [0..n -> Nat]
  BY <1>3, <1>8, <1>9
<1>. QED BY <1>6, <1>7, <1>10 DEF SumsOf

LEMMA SumsGrow ==
  ASSUME NEW runs \in Seq(DataRuns), NEW sum, SumsOf(sum, runs),
         NEW i \in 0..Len(runs), NEW j \in 0..Len(runs), i <= j
  PROVE  sum[i] <= sum[j]
<1>. PICK n \in Nat : n = Len(runs)
  OBVIOUS
<1>1. sum \in [0..n -> Nat] /\ \A k \in 1..n : sum[k] = sum[k - 1] + runs[k].length
  BY DEF SumsOf
<1>2. \A k \in 1..n : runs[k].length \in Nat
  <2>1. \A k \in 1..n : runs[k] \in DataRuns
    OBVIOUS
  <2>. QED BY <2>1, RunFields
<1> DEFINE S == {m \in Nat : i + m <= n => sum[i] <= sum[i + m]}
<1>3. 0 \in S
  BY <1>1
<1>4. ASSUME NEW m \in Nat, m \in S PROVE m + 1 \in S
  <2>1. SUFFICES ASSUME i + (m + 1) <= n PROVE sum[i] <= sum[i + (m + 1)]
    OBVIOUS
  <2>2. PICK k \in 1..n : k = i + (m + 1) /\ k - 1 = i + m /\ k \in 0..n /\ k - 1 \in 0..n
    BY <2>1
  <2>3. sum[i] <= sum[k - 1]
    BY <1>4, <2>2
  <2>4. /\ sum[k] = sum[k - 1] + runs[k].length
        /\ sum[k - 1] \in Nat /\ sum[i] \in Nat /\ runs[k].length \in Nat
    BY <1>1, <1>2, <2>2
  <2>. QED BY <2>2, <2>3, <2>4
<1> HIDE DEF S
<1>5. Nat \subseteq S
  BY <1>3, <1>4, NatSetInduction
<1>6. PICK m \in Nat : j = i + m
  <2>1. j - i \in Nat /\ j = i + (j - i)
    OBVIOUS
  <2>. QED BY <2>1
<1>. QED BY <1>5, <1>6 DEF S

(* Where something is that lies between two multiples.                     *)
Placed(d, c, low, high) ==
  \E q \in low..high - 1, e \in 0..c - 1 : q = d \div c /\ e = d % c /\ d = q * c + e

LEMMA Within ==
  ASSUME NEW c \in Nat, c > 0, NEW low \in Nat, NEW high \in Nat, NEW d \in Nat,
         low * c <= d, d < high * c
  PROVE  Placed(d, c, low, high)
<1>1. PICK q \in Nat, e \in 0..c - 1 : q = d \div c /\ e = d % c /\ d = q * c + e
  <2>1. d \div c \in Nat /\ d % c \in 0..c - 1 /\ d = (d \div c) * c + (d % c)
    OBVIOUS
  <2>. QED BY <2>1
<1>. q \in Nat /\ e \in 0..c - 1
  BY <1>1
<1>2. PICK lc, hc, qc \in Nat : lc = low * c /\ hc = high * c /\ qc = q * c
  BY Product
<1>3. lc <= d /\ d < hc /\ d = qc + e
  BY <1>1, <1>2
<1>4. ~(q < low)
  <2>1. SUFFICES ASSUME q + 1 <= low PROVE FALSE
    OBVIOUS
  <2>2. (q + 1) * c <= low * c /\ (q + 1) * c = q * c + c
    BY <2>1, Product
  <2>3. qc + c <= lc
    BY <1>2, <2>2
  <2>. QED BY <1>2, <1>3, <2>3
<1>5. ~(high <= q)
  <2>1. SUFFICES ASSUME high <= q PROVE FALSE
    OBVIOUS
  <2>2. hc <= qc
    BY <1>2, <2>1, Product
  <2>. QED BY <1>2, <1>3, <2>2
<1>6. q \in low..high - 1
  BY <1>4, <1>5
<1>. QED BY <1>1, <1>6 DEF Placed

(* A file by its runs over an image.                                       *)
Extents(s) ==
  /\ s.image \in Seq(Nat) /\ s.cluster \in Nat \ {0} /\ s.size \in Nat /\ s.runs \in Seq(DataRuns)
  /\ \A i \in 1..Len(s.runs) : s.runs[i].length * s.cluster < WordEnd

LEMMA CellIs ==
  ASSUME NEW s, Extents(s), NEW c, c = s.cluster, NEW sum, sum = Clusters(s.runs),
         NEW i \in 1..Len(s.runs), NEW k \in Nat, sum[i - 1] * c < k, k <= sum[i] * c
  PROVE  CellOf(s, k) = IF s.runs[i].lcn = -1 THEN 0 ELSE s.runs[i].lcn * c + (k - sum[i - 1] * c)
<1>1. PICK runs : runs = s.runs /\ runs \in Seq(DataRuns)
  BY DEF Extents
<1>2. PICK n \in Nat : n = Len(runs)
  BY <1>1
<1>3. c \in Nat /\ c > 0
  BY DEF Extents
<1>4. SumsOf(sum, runs)
  BY <1>1, ClusterSums
<1>5. i \in 1..n /\ i - 1 \in 0..n /\ i \in 0..n /\ 1..n \subseteq 0..n
  BY <1>1, <1>2
<1>6. sum \in [0..n -> Nat]
  BY <1>2, <1>4 DEF SumsOf
<1>7. PICK low, high \in Nat : low = sum[i - 1] /\ high = sum[i]
  BY <1>5, <1>6
<1>8. low * c < k /\ k <= high * c
  BY <1>7
<1>9. PICK d \in Nat : d = k - 1 /\ low * c <= d /\ d < high * c
  <2>1. PICK lc, hc \in Nat : lc = low * c /\ hc = high * c
    BY <1>3, Product
  <2>2. k - 1 \in Nat /\ lc <= k - 1 /\ k - 1 < hc
    BY <1>8, <2>1
  <2>. QED BY <2>1, <2>2
<1>10. PICK q \in low..high - 1, e \in 0..c - 1 : q = d \div c /\ e = d % c /\ d = q * c + e
  <2>1. Placed(d, c, low, high)
    BY <1>3, <1>9, Within
  <2>. QED BY <2>1 DEF Placed
<1>11. q \in Nat /\ e \in Nat /\ low <= q /\ q < high
  <2>1. q \in low..high - 1 /\ e \in 0..c - 1
    BY <1>10
  <2>. QED BY <1>3, <2>1
<1>12. PICK S : S = {j \in 1..n : q < sum[j]}
  OBVIOUS
<1>13. Min(S) = i
  <2>1. i \in S
    BY <1>5, <1>7, <1>11, <1>12
  <2>2. \A j \in S : i <= j
    <3>1. SUFFICES ASSUME NEW j \in 1..n, j < i PROVE ~(q < sum[j])
      BY <1>5, <1>12
    <3>2. sum[j] <= sum[i - 1]
      <4>1. j \in 0..Len(runs) /\ i - 1 \in 0..Len(runs) /\ j <= i - 1
        BY <1>2, <1>5, <3>1
      <4>. QED BY <1>1, <1>4, <4>1, SumsGrow
    <3>3. sum[j] \in Nat
      BY <1>6
    <3>. QED BY <1>7, <1>11, <3>2, <3>3
  <2>3. \A j \in S : j \in Nat
    BY <1>12
  <2>4. \E x \in S : \A y \in S : x <= y
    BY <2>1, <2>2
  <2>5. PICK x : x = Min(S) /\ x \in S /\ \A y \in S : x <= y
    BY <2>4 DEF Min
  <2>. QED BY <2>1, <2>2, <2>3, <2>5
<1>14. DOMAIN runs = 1..n
  BY <1>1, <1>2
<1>15. CellOf(s, k) = IF runs[i].lcn = -1 THEN 0 ELSE (runs[i].lcn + q - low) * c + e + 1
  BY <1>1, <1>7, <1>9, <1>10, <1>12, <1>13, <1>14 DEF CellOf
<1>16. CASE runs[i].lcn = -1
  BY <1>1, <1>15, <1>16
<1>17. CASE runs[i].lcn # -1
  <2>1. PICK l \in Nat : l = runs[i].lcn
    BY <1>1, <1>2, <1>5, <1>17, RunOf
  <2>2. (l + q - low) * c + e + 1 = l * c + (k - low * c)
    <3>1. PICK qc, x, lc \in Nat : qc = q * c /\ x = l * c /\ lc = low * c
      BY <1>3, <1>11, Product
    <3>2. (l + q - low) * c = x + qc - lc
      <4>1. (l + q - low) * c = l * c + q * c - low * c
        BY <1>3, <1>11
      <4>. QED BY <3>1, <4>1
    <3>3. k - 1 = qc + e
      BY <1>9, <1>10, <3>1
    <3>4. qc \in Nat /\ x \in Nat /\ lc \in Nat /\ e \in Nat
      BY <1>11, <3>1
    <3>5. (x + qc - lc) + e + 1 = x + (k - lc)
      BY <3>3, <3>4
    <3>. QED BY <3>1, <3>2, <3>5
  <2>. QED BY <1>1, <1>7, <1>15, <1>17, <2>1, <2>2
<1>. QED BY <1>16, <1>17

(* Pieces of what is extracted, cell by cell.                              *)
LEMMA PieceOf ==
  ASSUME NEW source \in Seq(Nat), NEW first \in Nat, NEW want \in Nat, first + want <= Len(source)
  PROVE  /\ SubSeq(source, first + 1, first + want) = [j \in 1..want |-> source[first + j]]
         /\ SubSeq(source, first + 1, first + want) \in Seq(Nat)
<1>. PICK n \in Nat : n = Len(source)
  OBVIOUS
<1>1. \A i \in first + 1..first + want : source[i] \in Nat
  OBVIOUS
<1>2. PICK t : t = SubSeq(source, first + 1, first + want)
  OBVIOUS
<1>3. /\ t \in Seq(Nat) /\ Len(t) = want
      /\ \A i \in 1..want : t[i] = source[first + i]
  <2>1. /\ t \in Seq(Nat)
        /\ Len(t) = IF first + 1 <= first + want THEN first + want - (first + 1) + 1 ELSE 0
        /\ \A i \in 1..first + want - (first + 1) + 1 : t[i] = source[first + 1 + i - 1]
    BY <1>1, <1>2, SubSeqProperties
  <2>2. \A x, y \in Nat : x + y - (x + 1) + 1 = y /\ x + 1 + y - 1 = x + y
    OBVIOUS
  <2>3. t \in Seq(Nat) /\ Len(t) = want
    <3>1. first + want - (first + 1) + 1 = want /\ (want = 0 \/ first + 1 <= first + want)
      BY <2>2
    <3>2. first + 1 <= first + want \/ (want = 0 /\ ~(first + 1 <= first + want))
      OBVIOUS
    <3>. QED BY <2>1, <3>1, <3>2
  <2>4. ASSUME NEW i \in 1..want PROVE t[i] = source[first + i]
    <3>1. i \in 1..first + want - (first + 1) + 1 /\ first + 1 + i - 1 = first + i
      BY <2>2
    <3>. QED BY <2>1, <3>1
  <2>. QED BY <2>3, <2>4
<1>4. t = [i \in 1..want |-> t[i]]
  BY <1>3
<1>. QED BY <1>2, <1>3, <1>4

LEMMA ZerosOf ==
  ASSUME NEW want \in Nat
  PROVE  Zeros(want) \in Seq(Nat) /\ Zeros(want) = [j \in 1..want |-> 0]
BY DEF Zeros

LEMMA Joined ==
  ASSUME NEW a \in Nat, NEW b \in Nat, NEW s \in Seq(Nat), NEW t \in Seq(Nat), NEW g,
         s = [k \in 1..a |-> g[k]], t = [k \in 1..b |-> g[a + k]]
  PROVE  s \o t = [k \in 1..a + b |-> g[k]]
<1>1. Len(s) = a /\ Len(t) = b
  OBVIOUS
<1>2. PICK u : u = s \o t
  OBVIOUS
<1>3. /\ u \in Seq(Nat) /\ Len(u) = a + b
      /\ \A i \in 1..a + b : u[i] = IF i <= a THEN s[i] ELSE t[i - a]
  <2>1. /\ s \o t \in Seq(Nat)
        /\ Len(s \o t) = Len(s) + Len(t)
        /\ \A i \in 1..Len(s) + Len(t) :
             (s \o t)[i] = IF i <= Len(s) THEN s[i] ELSE t[i - Len(s)]
    BY ConcatProperties
  <2>. QED BY <1>1, <1>2, <2>1
<1>4. ASSUME NEW i \in 1..a + b PROVE u[i] = g[i]
  <2>1. CASE i <= a
    BY <1>3, <2>1
  <2>2. CASE i > a
    <3>1. i - a \in 1..b /\ a + (i - a) = i
      BY <2>2
    <3>2. t[i - a] = g[a + (i - a)]
      BY <3>1
    <3>. QED BY <1>3, <2>2, <3>1, <3>2
  <2>. QED BY <2>1, <2>2
<1>5. u = [i \in 1..a + b |-> u[i]]
  BY <1>3
<1>. QED BY <1>2, <1>4, <1>5

(* A reading of runs stays one.                                            *)
Extraction == [ok : BOOLEAN, out : Seq(Nat)]

LEMMA ReadRunTyped ==
  ASSUME NEW s, Extents(s), NEW i \in 1..Len(s.runs), NEW r \in Extraction
  PROVE  ReadRun(s.image, s.cluster, s.size, r, s.runs[i]) \in Extraction
<1>1. PICK source, c, size, run, out :
        source = s.image /\ c = s.cluster /\ size = s.size /\ run = s.runs[i] /\ out = r.out
  OBVIOUS
<1>2. source \in Seq(Nat) /\ c \in Nat /\ size \in Nat /\ out \in Seq(Nat) /\ Len(out) \in Nat
  <2>1. out \in Seq(Nat)
    BY <1>1 DEF Extraction
  <2>. QED BY <1>1, <2>1 DEF Extents
<1>3. (run.lcn = -1 \/ run.lcn \in Nat) /\ run.length \in Nat
  <2>1. run \in DataRuns
    BY <1>1, RunOf DEF Extents
  <2>. QED BY <2>1, RunFields
<1>4. CASE ~r.ok \/ Len(out) >= size
  BY <1>1, <1>4 DEF ReadRun
<1>5. CASE r.ok /\ ~(Len(out) >= size)
  <2> DEFINE want  == Smaller(run.length * c, size - Len(out))
             first == run.lcn * c
             piece == IF run.lcn = -1 THEN Zeros(want) ELSE SubSeq(source, first + 1, first + want)
             bad   == run.length * c >= WordEnd \/ (run.lcn # -1 /\ first + want > Len(source))
  <2>1. ReadRun(source, c, size, r, run) =
          IF bad THEN [ok |-> FALSE, out |-> out] ELSE [ok |-> TRUE, out |-> out \o piece]
    BY <1>1, <1>5 DEF ReadRun
  <2>2. want \in Nat
    <3>1. run.length * c \in Nat /\ size - Len(out) \in Nat
      BY <1>2, <1>3, <1>5, Product
    <3>. QED BY <3>1 DEF Smaller
  <2> HIDE DEF want
  <2>3. ~bad => piece \in Seq(Nat)
    <3>1. CASE run.lcn = -1
      BY <2>2, <3>1, ZerosOf
    <3>2. CASE run.lcn # -1
      <4>1. first \in Nat /\ Len(source) \in Nat
        BY <1>2, <1>3, <3>2, Product
      <4> HIDE DEF first
      <4>. QED BY <1>2, <2>2, <3>2, <4>1, PieceOf
    <3>. QED BY <3>1, <3>2
  <2> HIDE DEF piece, bad
  <2>4. ~bad => out \o piece \in Seq(Nat)
    BY <1>2, <2>3, ConcatProperties
  <2>. QED BY <1>1, <1>2, <2>1, <2>4 DEF Extraction
<1>. QED BY <1>4, <1>5

(* A file cell by cell: what belongs there, whether the image has it, and  *)
(* how far the first i runs go.                                            *)
CellValue(s, k) == IF CellOf(s, k) = 0 THEN 0 ELSE s.image[CellOf(s, k)]
InImage(s, m) == \A k \in 1..m : CellOf(s, k) <= Len(s.image)
Reach(s, i) == Smaller(s.size, Clusters(s.runs)[i] * s.cluster)

(* What has been extracted when i runs are read.                           *)
ExtractedBy(s, i, r) ==
  /\ r \in Extraction
  /\ r.ok <=> InImage(s, Reach(s, i))
  /\ r.ok => r.out = [k \in 1..Reach(s, i) |-> CellValue(s, k)]

LEMMA RunIsExtracted ==
  ASSUME NEW s, Extents(s), NEW i \in 1..Len(s.runs), NEW r, ExtractedBy(s, i - 1, r)
  PROVE  ExtractedBy(s, i, ReadRun(s.image, s.cluster, s.size, r, s.runs[i]))
<1>1. PICK source, c, size, runs, run, out, sum :
        /\ source = s.image /\ c = s.cluster /\ size = s.size /\ runs = s.runs /\ run = s.runs[i]
        /\ out = r.out /\ sum = Clusters(runs)
  OBVIOUS
<1>2. /\ source \in Seq(Nat) /\ c \in Nat /\ c > 0 /\ size \in Nat /\ runs \in Seq(DataRuns)
      /\ run.length * c < WordEnd /\ Len(source) \in Nat
  BY <1>1 DEF Extents
<1>3. (run.lcn = -1 \/ run.lcn \in Nat) /\ run.length \in Nat /\ run.length > 0
  <2>1. run \in DataRuns
    BY <1>1, RunOf DEF Extents
  <2>. QED BY <2>1, RunFields
<1>4. PICK a, b, e, w \in Nat :
        /\ a = sum[i - 1] * c /\ b = sum[i] * c /\ e = run.length * c
        /\ b = a + e /\ e > 0 /\ w = WordEnd
  <2>1. SumsOf(sum, runs)
    BY <1>1, <1>2, ClusterSums
  <2>2. i \in 1..Len(runs) /\ i \in 0..Len(runs) /\ i - 1 \in 0..Len(runs)
    BY <1>1
  <2>3. PICK x, y \in Nat : x = sum[i - 1] /\ y = sum[i] /\ y = x + run.length
    BY <1>1, <2>1, <2>2 DEF SumsOf
  <2>4. x * c \in Nat /\ y * c \in Nat /\ run.length * c \in Nat /\ y * c = x * c + run.length * c
    <3>1. PICK l \in Nat : l = run.length
      BY <1>3
    <3>2. x * c \in Nat /\ y * c \in Nat /\ l * c \in Nat
      <4>1. \A m, n \in Nat : m * n \in Nat
        OBVIOUS
      <4>. QED BY <1>2, <2>3, <3>1, <4>1
    <3>3. (x + l) * c = x * c + l * c
      BY <1>2
    <3>. QED BY <2>3, <3>1, <3>2, <3>3
  <2>5. run.length * c > 0
    BY <1>2, <1>3
  <2>6. WordEnd \in Nat
    BY Bases, Powers DEF WordEnd
  <2>. QED BY <2>3, <2>4, <2>5, <2>6
<1>5. PICK low, high \in Nat :
        /\ low = Reach(s, i - 1) /\ high = Reach(s, i)
        /\ low = Smaller(size, a) /\ high = Smaller(size, b)
  <2>1. Smaller(size, a) \in Nat /\ Smaller(size, b) \in Nat
    BY <1>2 DEF Smaller
  <2>. QED BY <1>1, <1>4, <2>1 DEF Reach
<1>6. /\ r \in Extraction /\ r.ok \in BOOLEAN /\ out \in Seq(Nat)
      /\ r.ok <=> InImage(s, low)
      /\ r.ok => out = [k \in 1..low |-> CellValue(s, k)]
  <2>1. r.ok \in BOOLEAN /\ out \in Seq(Nat) /\ r \in Extraction
    BY <1>1 DEF ExtractedBy, Extraction
  <2>. QED BY <1>1, <1>5, <2>1 DEF ExtractedBy
<1>7. low <= high
  <2>1. size \in Nat /\ a \in Nat /\ b \in Nat /\ a <= b
    <3>1. a \in Nat /\ b \in Nat /\ e \in Nat /\ b = a + e
      BY <1>4
    <3>. QED BY <1>2, <3>1
  <2>. QED BY <1>5, <2>1 DEF Smaller
<1>8. PICK next : next = ReadRun(source, c, size, r, run)
  OBVIOUS
<1>9. SUFFICES ExtractedBy(s, i, next)
  BY <1>1, <1>8
<1>10. next \in Extraction
  BY <1>1, <1>6, <1>8, ReadRunTyped
<1>11. SUFFICES /\ next.ok <=> InImage(s, high)
                /\ next.ok => next.out = [k \in 1..high |-> CellValue(s, k)]
  BY <1>5, <1>10 DEF ExtractedBy
<1>12. CASE ~r.ok
  <2>1. next = r
    BY <1>8, <1>12 DEF ReadRun
  <2>2. ~InImage(s, high)
    <3>1. \A k \in 1..low : k \in 1..high
      BY <1>7
    <3>. QED BY <1>6, <1>12, <3>1 DEF InImage
  <2>. QED BY <1>12, <2>1, <2>2
<1>13. CASE r.ok
  <2>1. Len(out) = low /\ low <= size
    BY <1>2, <1>4, <1>5, <1>6, <1>13 DEF Smaller
  <2>2. CASE low >= size
    <3>1. next = r
      BY <1>1, <1>8, <2>1, <2>2 DEF ReadRun
    <3>2. high = low
      BY <1>2, <1>4, <1>5, <2>1, <2>2 DEF Smaller
    <3>. QED BY <1>1, <1>6, <1>13, <3>1, <3>2
  <2>3. CASE low < size
    <3>1. low = a /\ size - low \in Nat
      BY <1>2, <1>4, <1>5, <2>3 DEF Smaller
    <3>2. PICK want \in Nat :
            /\ want = Smaller(e, size - low) /\ high = low + want
            /\ want > 0 /\ want <= e
      <4>1. PICK want \in Nat : want = Smaller(e, size - low)
        BY <1>4, <3>1 DEF Smaller
      <4>2. high = IF size < low + e THEN size ELSE low + e
        BY <1>4, <1>5, <3>1 DEF Smaller
      <4>3. want = IF e < size - low THEN e ELSE size - low
        BY <4>1 DEF Smaller
      <4>4. high = low + want /\ want > 0 /\ want <= e
        <5>1. size \in Nat /\ low \in Nat /\ e \in Nat /\ e > 0 /\ low < size
          BY <1>2, <1>4, <1>5, <2>3
        <5>. QED BY <4>2, <4>3, <5>1
      <4>. QED BY <4>1, <4>4
    <3> DEFINE first == run.lcn * c
               piece == IF run.lcn = -1 THEN Zeros(want)
                        ELSE SubSeq(source, first + 1, first + want)
    <3>3. next = IF run.lcn # -1 /\ first + want > Len(source)
                 THEN [ok |-> FALSE, out |-> out] ELSE [ok |-> TRUE, out |-> out \o piece]
      <4>1. ~(e >= WordEnd)
        BY <1>2, <1>4
      <4>2. want = Smaller(run.length * c, size - Len(r.out)) /\ ~(Len(r.out) >= size)
        BY <1>1, <1>2, <1>4, <2>1, <2>3, <3>2
      <4>. QED BY <1>1, <1>4, <1>8, <1>13, <4>1, <4>2 DEF ReadRun
    <3>4. ASSUME NEW k \in low + 1..high
          PROVE  CellOf(s, k) = IF run.lcn = -1 THEN 0 ELSE first + (k - low)
      <4>1. k \in Nat /\ sum[i - 1] * c < k /\ k <= sum[i] * c
        <5>1. k \in Nat /\ a < k /\ k <= b
          <6>1. /\ low \in Nat /\ high \in Nat
                /\ low = a /\ high = low + want /\ want <= e /\ b = a + e
            BY <1>4, <1>5, <3>1, <3>2
          <6>2. want \in Nat /\ e \in Nat /\ a \in Nat
            BY <1>4, <3>2
          <6>. QED BY <6>1, <6>2
        <5>. QED BY <1>4, <5>1
      <4>2. CellOf(s, k) = IF s.runs[i].lcn = -1 THEN 0
                           ELSE s.runs[i].lcn * c + (k - sum[i - 1] * c)
        BY <1>1, <4>1, CellIs
      <4>. QED BY <1>1, <1>4, <3>1, <4>2
    <3>5. PICK g : g = [k \in 1..high |-> CellValue(s, k)]
      OBVIOUS
    <3>6. out = [k \in 1..low |-> g[k]]
      <4>1. \A k \in 1..low : k \in 1..high
        BY <1>7
      <4>. QED BY <1>6, <1>13, <3>5, <4>1
    <3>7. \A k \in 1..low : CellOf(s, k) <= Len(source)
      BY <1>1, <1>6, <1>13 DEF InImage
    <3>8. \A j \in 1..want : /\ low + j \in low + 1..high /\ low + j \in 1..high
                              /\ (low + j) - low = j
      BY <3>2
    <3>9. \A k \in 1..high : k \in 1..low \/ k \in low + 1..high
      BY <1>7
    <3>10. CASE run.lcn = -1
      <4>1. \A k \in low + 1..high : CellOf(s, k) = 0
        BY <3>4, <3>10
      <4>2. InImage(s, high)
        BY <1>1, <1>2, <3>7, <3>9, <4>1 DEF InImage
      <4>3. piece \in Seq(Nat) /\ piece = [j \in 1..want |-> g[low + j]]
        <5>1. \A j \in 1..want : g[low + j] = 0
          BY <3>5, <3>8, <4>1 DEF CellValue
        <5>. QED BY <3>10, <5>1, ZerosOf
      <4>4. next.ok /\ next.out = out \o piece
        BY <3>3, <3>10
      <4> HIDE DEF piece
      <4>5. out \o piece = [k \in 1..low + want |-> g[k]]
        BY <1>6, <3>6, <4>3, Joined
      <4>. QED BY <3>2, <3>5, <4>2, <4>4, <4>5
    <3>11. CASE run.lcn # -1
      <4>1. PICK f \in Nat : f = first
        BY <1>2, <1>3, <3>11, Product
      <4>2. \A k \in low + 1..high : CellOf(s, k) = f + (k - low)
        BY <3>4, <3>11, <4>1
      <4>3. CASE f + want > Len(source)
        <5>1. ~next.ok
          BY <3>3, <3>11, <4>1, <4>3
        <5>2. high \in low + 1..high /\ high \in 1..high /\ high - low = want
          BY <3>2
        <5>3. ~(CellOf(s, high) <= Len(source))
          BY <1>2, <4>2, <4>3, <5>2
        <5>4. ~InImage(s, high)
          BY <1>1, <5>2, <5>3 DEF InImage
        <5>. QED BY <5>1, <5>4
      <4>4. CASE ~(f + want > Len(source))
        <5>1. next.ok /\ next.out = out \o piece
          BY <3>3, <4>1, <4>4
        <5>2. InImage(s, high)
          <6>1. \A k \in low + 1..high : CellOf(s, k) <= Len(source)
            BY <1>2, <3>2, <4>2, <4>4
          <6>. QED BY <1>1, <3>7, <3>9, <6>1 DEF InImage
        <5>3. piece \in Seq(Nat) /\ piece = [j \in 1..want |-> source[f + j]]
          <6>1. piece = SubSeq(source, f + 1, f + want)
            BY <3>11, <4>1
          <6>2. f + want <= Len(source)
            BY <1>2, <4>4
          <6> HIDE DEF piece
          <6>. QED BY <1>2, <6>1, <6>2, PieceOf
        <5>4. \A j \in 1..want : g[low + j] = source[f + j]
          <6>1. \A j \in 1..want : CellOf(s, low + j) = f + j /\ f + j # 0
            BY <3>8, <4>2
          <6>. QED BY <1>1, <3>5, <3>8, <6>1 DEF CellValue
        <5>5. piece \in Seq(Nat) /\ piece = [j \in 1..want |-> g[low + j]]
          BY <5>3, <5>4
        <5> HIDE DEF piece
        <5>6. out \o piece = [k \in 1..low + want |-> g[k]]
          BY <1>6, <3>6, <5>5, Joined
        <5>. QED BY <3>2, <3>5, <5>1, <5>2, <5>6
      <4>. QED BY <4>3, <4>4
    <3>. QED BY <3>10, <3>11
  <2>. QED BY <1>2, <2>2, <2>3
<1>. QED BY <1>6, <1>12, <1>13

(* The whole of a file is extracted, or nothing.                           *)
LEMMA RunsAreExtracted ==
  ASSUME NEW s, Extents(s), NEW total, total = Clusters(s.runs)[Len(s.runs)] * s.cluster
  PROVE  FromRuns(s.image, s.cluster, s.runs, s.size) =
           IF s.size <= total /\ InImage(s, s.size)
           THEN [k \in 1..s.size |-> CellValue(s, k)] ELSE NoContent
<1>1. PICK source, c, size, runs :
        source = s.image /\ c = s.cluster /\ size = s.size /\ runs = s.runs
  OBVIOUS
<1>2. c \in Nat /\ size \in Nat /\ runs \in Seq(DataRuns)
  BY <1>1 DEF Extents
<1>3. PICK n \in Nat : n = Len(runs)
  BY <1>2
<1> DEFINE Step(r, i) == ReadRun(source, c, size, r, runs[i])
           F == [q \in Extraction \X (1..n) |-> Step(q[1], q[2])]
           Nothing == [ok |-> TRUE, out |-> <<>>]
           Solves(g) == g = [i \in 0..n |-> IF i = 0 THEN Nothing ELSE Step(g[i - 1], i)]
<1>4. \A r \in Extraction, i \in 1..n : Step(r, i) \in Extraction
  BY <1>1, <1>3, ReadRunTyped
<1>5. Nothing \in Extraction
  BY DEF Extraction
<1>6. FromRuns(source, c, runs, size) =
        LET end == (CHOOSE g : Solves(g))[n]
        IN  IF end.ok /\ Len(end.out) = size THEN end.out ELSE NoContent
  BY <1>3 DEF FromRuns
<1> HIDE DEF Step
<1>7. IsStep(F, Extraction, 1..n) /\ \A r \in Extraction, i \in 1..n : F[r, i] = Step(r, i)
  <2>1. \A q \in Extraction \X (1..n) : Step(q[1], q[2]) \in Extraction
    BY <1>4
  <2>. QED BY <2>1 DEF IsStep
<1> HIDE DEF F, Nothing
<1>8. PICK f : /\ f \in [0..n -> Extraction] /\ f[0] = Nothing
               /\ \A i \in (0..n) \ {0} : f[i] = F[f[i - 1], i]
  <2>1. \E f : Recurs(f, Extraction, F, Nothing, 0..n)
    BY <1>5, <1>7, RecursionUpto
  <2>. QED BY <2>1 DEF Recurs
<1>9. ASSUME NEW i \in 1..n PROVE f[i] = Step(f[i - 1], i)
  <2>1. i - 1 \in 0..n /\ i \in (0..n) \ {0}
    OBVIOUS
  <2>2. f[i - 1] \in Extraction
    BY <1>8, <2>1
  <2>. QED BY <1>7, <1>8, <2>1, <2>2
<1>10. Solves(f)
  <2>1. f = [i \in 0..n |-> f[i]]
    BY <1>8
  <2>2. \A i \in 0..n : f[i] = IF i = 0 THEN Nothing ELSE Step(f[i - 1], i)
    <3>1. \A i \in 0..n : i = 0 \/ i \in 1..n
      OBVIOUS
    <3>. QED BY <1>8, <1>9, <3>1
  <2>. QED BY <2>1, <2>2
<1>11. PICK w : Solves(w) /\ w = CHOOSE g : Solves(g)
  <2> HIDE DEF Solves
  <2>. QED BY <1>10, Zenon
<1>12. w[0] = Nothing /\ \A i \in 1..n : w[i] = Step(w[i - 1], i)
  <2>1. \A i \in 0..n : w[i] = IF i = 0 THEN Nothing ELSE Step(w[i - 1], i)
    BY <1>11
  <2>2. 0 \in 0..n /\ \A i \in 1..n : i \in 0..n /\ i # 0
    OBVIOUS
  <2>. QED BY <2>1, <2>2
<1> DEFINE S == {i \in Nat : i <= n => ExtractedBy(s, i, w[i])}
<1>13. 0 \in S
  <2>1. SumsOf(Clusters(runs), runs)
    BY <1>2, ClusterSums
  <2>2. Clusters(runs)[0] = 0
    BY <2>1 DEF SumsOf
  <2>3. Reach(s, 0) = 0
    BY <1>1, <1>2, <2>2 DEF Reach, Smaller
  <2>4. InImage(s, 0) /\ [k \in 1..0 |-> CellValue(s, k)] = <<>>
    BY DEF InImage
  <2>5. ExtractedBy(s, 0, Nothing)
    BY <1>5, <2>3, <2>4 DEF ExtractedBy, Nothing
  <2>. QED BY <1>12, <2>5
<1>14. ASSUME NEW i \in Nat, i \in S PROVE i + 1 \in S
  <2>1. SUFFICES ASSUME i + 1 <= n PROVE ExtractedBy(s, i + 1, w[i + 1])
    OBVIOUS
  <2>2. PICK j \in 1..n : j = i + 1 /\ j - 1 = i
    BY <2>1
  <2>3. ExtractedBy(s, j - 1, w[j - 1])
    BY <1>14, <2>1, <2>2
  <2>4. w[j] = Step(w[j - 1], j)
    BY <1>12, <2>2
  <2>5. j \in 1..Len(s.runs)
    BY <1>1, <1>3, <2>2
  <2>6. ExtractedBy(s, j, ReadRun(s.image, s.cluster, s.size, w[j - 1], s.runs[j]))
    BY <2>3, <2>5, RunIsExtracted
  <2>. QED BY <1>1, <2>2, <2>4, <2>6 DEF Step
<1> HIDE DEF S, Solves
<1>15. Nat \subseteq S
  BY <1>13, <1>14, NatSetInduction
<1>16. PICK end : end = w[n] /\ ExtractedBy(s, n, end)
  BY <1>15 DEF S
<1>17. FromRuns(source, c, runs, size) =
          IF end.ok /\ Len(end.out) = size THEN end.out ELSE NoContent
  BY <1>6, <1>11, <1>16
<1>18. PICK t \in Nat : t = total
  <2>1. SumsOf(Clusters(runs), runs) /\ n \in 0..Len(runs)
    BY <1>2, <1>3, ClusterSums
  <2>2. PICK x \in Nat : x = Clusters(runs)[Len(runs)]
    BY <1>3, <2>1 DEF SumsOf
  <2>3. \A p, q \in Nat : p * q \in Nat
    OBVIOUS
  <2>. QED BY <1>1, <1>2, <2>2, <2>3
<1>19. Reach(s, n) = Smaller(size, t)
  BY <1>1, <1>3, <1>18 DEF Reach
<1>20. PICK m \in Nat : m = Smaller(size, t) /\ (size <= t => m = size)
                       /\ (~(size <= t) => m # size)
  BY <1>2, <1>18 DEF Smaller
<1>21. /\ end.ok <=> InImage(s, m)
       /\ end.ok => end.out = [k \in 1..m |-> CellValue(s, k)] /\ Len(end.out) = m
  <2>1. /\ end.ok <=> InImage(s, m)
        /\ end.ok => end.out = [k \in 1..m |-> CellValue(s, k)]
        /\ end.out \in Seq(Nat)
    BY <1>16, <1>19, <1>20 DEF ExtractedBy, Extraction
  <2>. QED BY <2>1
<1>22. CASE size <= t
  BY <1>1, <1>17, <1>18, <1>20, <1>21, <1>22
<1>23. CASE ~(size <= t)
  BY <1>1, <1>17, <1>18, <1>20, <1>21, <1>23
<1>. QED BY <1>22, <1>23

(* The record of a deleted file up to its end mark.                        *)
LEMMA OnlyOf ==
  ASSUME NEW x \in Nat, NEW S, S = {x}
  PROVE  Min(S) = x /\ Max(S) = x
BY DEF Min, Max

Described(s, rec) ==
  /\ rec.ok <=> s.torn \in {0, s.sectors}
  /\ rec.size = s.size
  /\ rec.resident = s.held
  /\ s.held => s.raw.attrs[Min(Data(s.raw, TRUE))].bytes = s.resident
  /\ ~s.held => rec.runs = s.runs

LEMMA RecordDescribed ==
  ASSUME NEW s, DeletedSample(s)
  PROVE  Described(s, ParseRecord(s.raw, s.sector))
<1>1. PICK raw, attrs, end, rec :
        raw = s.raw /\ attrs = raw.attrs /\ end = s.end /\ rec = ParseRecord(s.raw, s.sector)
  OBVIOUS
<1>2. /\ RecordSample(s) /\ s.held \in BOOLEAN
      /\ DOMAIN attrs = 1..Len(attrs) /\ Len(attrs) \in Nat
      /\ end \in DOMAIN attrs /\ attrs[end].type = "end"
      /\ \A i \in 1..end - 1 : attrs[i].type \notin {"end", "broken"}
      /\ s.name \in 1..end - 1 /\ attrs[s.name] = [type |-> "name", size |-> s.size]
      /\ \A i \in 1..s.name - 1 : attrs[i].type # "name"
      /\ s.data \in 1..end - 1 /\ attrs[s.data].resident = s.held
      /\ {i \in 1..end - 1 : attrs[i].type = "data" /\ ~attrs[i].named} = {s.data}
  BY <1>1 DEF DeletedSample
<1>3. PICK last \in Nat : last = end - 1 /\ end \in Nat
  BY <1>2
<1>4. Live(raw) = 1..last
  <2>1. ASSUME NEW i \in 1..last PROVE i \in Live(raw)
    <3>1. i \in DOMAIN attrs /\ \A j \in 1..i : j \in 1..end - 1
      BY <1>2, <1>3
    <3>. QED BY <1>1, <1>2, <3>1 DEF Live
  <2>2. ASSUME NEW i \in Live(raw) PROVE i \in 1..last
    <3>1. i \in 1..Len(attrs) /\ \A j \in 1..i : attrs[j].type # "end"
      BY <1>1, <1>2 DEF Live
    <3>2. ~(end <= i)
      BY <1>2, <1>3, <3>1
    <3>. QED BY <1>3, <3>1, <3>2
  <2>. QED BY <2>1, <2>2
<1>5. rec.size = s.size
  <2>1. s.name \in Names(raw)
    BY <1>1, <1>2, <1>3, <1>4 DEF Names
  <2>2. \A i \in Names(raw) : i \in Nat /\ s.name <= i
    <3>1. SUFFICES ASSUME NEW i \in Names(raw) PROVE i \in Nat /\ ~(i < s.name)
      BY <1>2
    <3>2. i \in 1..last /\ attrs[i].type = "name"
      BY <1>1, <1>4 DEF Names
    <3>. QED BY <1>2, <1>3, <3>2
  <2>3. PICK x : x = Min(Names(raw)) /\ x \in Names(raw) /\ \A y \in Names(raw) : x <= y
    <3>1. \E x \in Names(raw) : \A y \in Names(raw) : x <= y
      BY <2>1, <2>2
    <3>. QED BY <3>1 DEF Min
  <2>4. Min(Names(raw)) = s.name
    BY <2>1, <2>2, <2>3
  <2>5. rec.size = attrs[s.name].size
    BY <1>1, <2>1, <2>4 DEF ParseRecord
  <2>. QED BY <1>2, <2>5
<1>6. ASSUME NEW b \in BOOLEAN
      PROVE  Data(raw, b) = IF s.held = b THEN {s.data} ELSE {}
  <2>1. Data(raw, b) = {i \in {s.data} : attrs[i].resident = b}
    BY <1>1, <1>2, <1>3, <1>4 DEF Data
  <2>. QED BY <1>2, <2>1
<1>7. s.data \in Nat
  BY <1>2, <1>3
<1>8. rec.resident = s.held
  <2>1. rec.resident = (Data(raw, TRUE) # {})
    BY <1>1 DEF ParseRecord
  <2>2. Data(raw, TRUE) = IF s.held = TRUE THEN {s.data} ELSE {}
    BY <1>6
  <2>. QED BY <1>2, <2>1, <2>2
<1>9. ASSUME s.held PROVE attrs[Min(Data(raw, TRUE))].bytes = s.resident
  <2>1. Data(raw, TRUE) = {s.data}
    BY <1>2, <1>6, <1>9
  <2>2. Min(Data(raw, TRUE)) = s.data
    BY <1>7, <2>1, OnlyOf
  <2>. QED BY <1>1, <1>9, <2>2 DEF DeletedSample
<1>10. ASSUME ~s.held PROVE rec.runs = s.runs
  <2>1. Data(raw, FALSE) = {s.data}
    BY <1>2, <1>6, <1>10
  <2>2. Max(Data(raw, FALSE)) = s.data
    BY <1>7, <2>1, OnlyOf
  <2>3. rec.runs = ParseRuns(attrs[s.data].runs)
    BY <1>1, <2>1, <2>2 DEF ParseRecord
  <2>4. EncodedRuns(attrs[s.data].runs, s.runs, s.cuts)
    BY <1>1, <1>10 DEF DeletedSample
  <2>. QED BY <2>3, <2>4, RunsAreRead
<1>11. rec.ok <=> s.torn \in {0, s.sectors}
  <2>1. TearFound(s, Fixup(s.raw, s.sector))
    BY <1>2, TearsShow
  <2>2. rec.ok = Fixup(s.raw, s.sector).ok
    BY <1>1 DEF ParseRecord
  <2>. QED BY <2>1, <2>2 DEF TearFound
<1>. QED BY <1>1, <1>5, <1>8, <1>9, <1>10, <1>11 DEF Described

(* What extract_file_content makes of a deleted file.                      *)
LEMMA FileExtracted ==
  ASSUME NEW s, DeletedSample(s), NEW outcome,
         outcome = Extract(s.image, s.cluster, s.raw, s.sector)
  PROVE  LET total == Clusters(s.runs)[Len(s.runs)] * s.cluster
         IN  outcome = IF s.torn \notin {0, s.sectors} \/ s.size > MaxExtract THEN NoContent
                       ELSE IF s.held
                       THEN SubSeq(s.resident, 1, Smaller(s.size, Len(s.resident)))
                       ELSE IF s.runs # <<>> /\ s.size <= total /\ InImage(s, s.size)
                       THEN [k \in 1..s.size |-> CellValue(s, k)] ELSE NoContent
<1>1. PICK raw, rec, bytes :
        /\ raw = s.raw /\ rec = ParseRecord(raw, s.sector)
        /\ bytes = raw.attrs[Min(Data(raw, TRUE))].bytes
  OBVIOUS
<1>2. Described(s, rec)
  BY <1>1, RecordDescribed
<1>3. outcome = IF ~rec.ok \/ rec.size > MaxExtract THEN NoContent
                ELSE IF rec.resident THEN SubSeq(bytes, 1, Smaller(Len(bytes), rec.size))
                ELSE IF rec.runs # <<>> THEN FromRuns(s.image, s.cluster, rec.runs, rec.size)
                ELSE NoContent
  BY <1>1 DEF Extract
<1>4. s.held \in BOOLEAN /\ s.size \in Nat
  BY DEF DeletedSample
<1>5. ASSUME s.held
      PROVE  /\ bytes = s.resident
             /\ Smaller(Len(s.resident), s.size) = Smaller(s.size, Len(s.resident))
  <2>1. s.resident \in Seq(Nat)
    BY <1>5 DEF DeletedSample
  <2>2. PICK l \in Nat : l = Len(s.resident)
    BY <2>1
  <2>3. bytes = s.resident
    BY <1>1, <1>2, <1>5 DEF Described
  <2>4. \A m, n \in Nat : Smaller(m, n) = Smaller(n, m)
    BY DEF Smaller
  <2>5. Smaller(l, s.size) = Smaller(s.size, l)
    BY <1>4, <2>2, <2>4
  <2>. QED BY <2>2, <2>3, <2>5
<1>6. ASSUME ~s.held
      PROVE  rec.runs = s.runs /\ Extents(s)
  <2>1. EncodedRuns(s.raw.attrs[s.data].runs, s.runs, s.cuts)
        /\ \A i \in DOMAIN s.runs : s.runs[i].length * s.cluster < WordEnd
    BY <1>6 DEF DeletedSample
  <2>2. s.runs \in Seq(DataRuns)
    BY <2>1 DEF EncodedRuns
  <2>3. DOMAIN s.runs = 1..Len(s.runs)
    BY <2>2
  <2>4. Extents(s)
    BY <1>4, <2>1, <2>2, <2>3 DEF Extents, DeletedSample
  <2>. QED BY <1>2, <1>6, <2>4 DEF Described
<1>7. CASE s.held
  BY <1>2, <1>3, <1>5, <1>7 DEF Described
<1>8. CASE ~s.held
  <2>1. FromRuns(s.image, s.cluster, s.runs, s.size) =
          IF s.size <= Clusters(s.runs)[Len(s.runs)] * s.cluster /\ InImage(s, s.size)
          THEN [k \in 1..s.size |-> CellValue(s, k)] ELSE NoContent
    BY <1>6, <1>8, RunsAreExtracted
  <2>. QED BY <1>2, <1>3, <1>6, <1>8, <2>1 DEF Described
<1>. QED BY <1>4, <1>7, <1>8

----------------------------------------------------------------------------
(* Insertion into a sequence of numbers.                                   *)

(* The greatest element of a set of numbers up to n.                       *)
LEMMA MaxUpto ==
  ASSUME NEW n \in Nat, NEW t \in SUBSET (0..n), 0 \in t
  PROVE  Max(t) \in t /\ \A k \in t : k <= Max(t)
<1>1. \E m \in t : \A k \in t : m >= k
  <2>1. CASE t \ {0} = {}
    BY <2>1
  <2>2. CASE t \ {0} # {}
    <3>1. t \ {0} \in SUBSET (1..n)
      OBVIOUS
    <3>2. Max(t \ {0}) \in t \ {0} /\ \A k \in t \ {0} : k <= Max(t \ {0})
      BY <2>2, <3>1, MaxIndex
    <3>3. PICK m \in t \ {0} : \A k \in t \ {0} : k <= m
      BY <3>2
    <3>4. m \in t /\ m \in 0..n /\ \A k \in t : k \in 0..n
      BY <3>3
    <3>. QED BY <3>3, <3>4
  <2>. QED BY <2>1, <2>2
<1>2. Max(t) \in t /\ \A k \in t : Max(t) >= k
  BY <1>1 DEF Max
<1>. QED BY <1>2

(* A strictly increasing sequence, and what it has.                        *)
Ascending(s) == \A j, k \in DOMAIN s : j < k => s[j] < s[k]
Elements(s)  == {s[k] : k \in DOMAIN s}

(* An insertion of v behind the first n elements.                          *)
Places(s, v, n, longer) ==
  /\ longer \in Seq(Nat) /\ Len(longer) = Len(s) + 1 /\ n \in 0..Len(s)
  /\ \A k \in 1..n : longer[k] = s[k] /\ s[k] <= v
  /\ longer[n + 1] = v
  /\ \A k \in n + 1..Len(s) : longer[k + 1] = s[k]
  /\ \A k \in n + 1..Len(s) : ~(s[k] <= v)

LEMMA InsertedPlaces ==
  ASSUME NEW s \in Seq(Nat), NEW v \in Nat, Ascending(s)
  PROVE  \E n : Places(s, v, n, Inserted(s, v))
<1>1. PICK len \in Nat : len = Len(s) /\ DOMAIN s = 1..len
  OBVIOUS
<1>2. PICK t : t = {0} \cup {k \in DOMAIN s : s[k] <= v}
  OBVIOUS
<1>3. PICK n \in t : n = Max(t) /\ \A k \in t : k <= n
  <2>1. t \in SUBSET (0..len) /\ 0 \in t
    BY <1>1, <1>2
  <2>. QED BY <2>1, MaxUpto
<1>4. n \in 0..len
  BY <1>1, <1>2, <1>3
<1>5. PICK longer : longer = SubSeq(s, 1, n) \o <<v>> \o SubSeq(s, n + 1, Len(s))
  OBVIOUS
<1>6. Inserted(s, v) = longer
  BY <1>2, <1>3, <1>5 DEF Inserted
<1>7. /\ longer \in Seq(Nat) /\ Len(longer) = Len(s) + 1
      /\ \A k \in 1..n : longer[k] = s[k]
      /\ longer[n + 1] = v
      /\ \A k \in n + 1..Len(s) : longer[k + 1] = s[k]
  <2>0. /\ n \in Int /\ 1 \in Int /\ n + 1 \in Int /\ len \in Int /\ n <= len
        /\ \A k \in 1..n : s[k] \in Nat
        /\ \A k \in n + 1..len : s[k] \in Nat
    BY <1>1, <1>4
  <2>1. PICK u : u = SubSeq(s, 1, n)
    OBVIOUS
  <2>2. PICK w : w = SubSeq(s, n + 1, len)
    OBVIOUS
  <2>3. /\ u \in Seq(Nat) /\ Len(u) = IF 1 <= n THEN n - 1 + 1 ELSE 0
        /\ \A k \in 1..n - 1 + 1 : u[k] = s[1 + k - 1]
    BY <2>0, <2>1, SubSeqProperties
  <2>4. /\ w \in Seq(Nat) /\ Len(w) = IF n + 1 <= len THEN len - (n + 1) + 1 ELSE 0
        /\ \A k \in 1..len - (n + 1) + 1 : w[k] = s[n + 1 + k - 1]
    BY <2>0, <2>2, SubSeqProperties
  <2>5. Len(u) = n /\ \A k \in 1..n : u[k] = s[k]
    BY <1>4, <2>0, <2>3
  <2>6. Len(w) = len - n /\ \A k \in 1..len - n : w[k] = s[n + k]
    BY <1>4, <2>0, <2>4
  <2>7. PICK x : x = u \o <<v>>
    OBVIOUS
  <2>8. /\ x \in Seq(Nat) /\ Len(x) = Len(u) + 1
        /\ \A i \in 1..Len(u) + 1 : x[i] = IF i <= Len(u) THEN u[i] ELSE <<v>>[i - Len(u)]
    <3>1. <<v>> \in Seq(Nat) /\ Len(<<v>>) = 1
      OBVIOUS
    <3>. QED BY <2>3, <2>7, <3>1, ConcatProperties
  <2>9. Len(x) = n + 1 /\ x[n + 1] = v /\ \A k \in 1..n : x[k] = s[k]
    BY <1>4, <2>5, <2>8
  <2>10. longer = x \o w
    BY <1>1, <1>5, <2>1, <2>2, <2>7
  <2>11. /\ longer \in Seq(Nat) /\ Len(longer) = Len(x) + Len(w)
         /\ \A i \in 1..Len(x) + Len(w) :
              longer[i] = IF i <= Len(x) THEN x[i] ELSE w[i - Len(x)]
    BY <2>4, <2>8, <2>10, ConcatProperties
  <2>12. Len(longer) = len + 1 /\ \A i \in 1..n + 1 : longer[i] = x[i]
    BY <1>4, <2>6, <2>9, <2>11
  <2>13. ASSUME NEW k \in n + 1..len PROVE longer[k + 1] = s[k]
    <3>1. k - n \in 1..len - n /\ n + (k - n) = k /\ (k + 1) - (n + 1) = k - n
          /\ k + 1 \in 1..(n + 1) + (len - n) /\ ~(k + 1 <= n + 1)
      BY <1>4
    <3>2. longer[k + 1] = w[k - n]
      BY <2>6, <2>9, <2>11, <3>1
    <3>. QED BY <2>6, <3>1, <3>2
  <2>14. n + 1 \in 1..n + 1 /\ \A k \in 1..n : k \in 1..n + 1
    BY <1>4
  <2>. QED BY <1>1, <1>4, <2>9, <2>11, <2>12, <2>13, <2>14
<1>8. ASSUME NEW k \in n + 1..len PROVE ~(s[k] <= v)
  <2>1. k \in DOMAIN s /\ ~(k <= n)
    BY <1>1, <1>4
  <2>. QED BY <2>1, <1>2, <1>3
<1>9. ASSUME NEW k \in 1..n PROVE s[k] <= v
  <2>1. n \in DOMAIN s /\ s[n] <= v
    BY <1>1, <1>2, <1>3, <1>4
  <2>2. k \in DOMAIN s /\ (k < n \/ k = n)
    BY <1>1, <1>4
  <2>3. s[k] \in Nat /\ s[n] \in Nat /\ (k < n => s[k] < s[n])
    BY <2>1, <2>2 DEF Ascending
  <2>. QED BY <2>1, <2>2, <2>3
<1>10. Places(s, v, n, longer)
  BY <1>1, <1>4, <1>7, <1>8, <1>9 DEF Places
<1>. QED BY <1>6, <1>10

(* An insertion of what is not there keeps an ascending sequence one.      *)
LEMMA InsertedAscends ==
  ASSUME NEW s \in Seq(Nat), NEW v \in Nat, Ascending(s), v \notin Elements(s)
  PROVE  /\ Inserted(s, v) \in Seq(Nat) /\ Ascending(Inserted(s, v))
         /\ Elements(Inserted(s, v)) = Elements(s) \cup {v}
<1>1. PICK n, longer : longer = Inserted(s, v) /\ Places(s, v, n, longer)
  BY InsertedPlaces
<1>2. PICK len \in Nat : len = Len(s) /\ DOMAIN s = 1..len
  OBVIOUS
<1>3. DOMAIN longer = 1..len + 1 /\ n \in 0..len /\ longer \in Seq(Nat)
  BY <1>1, <1>2 DEF Places
<1>4. ASSUME NEW k \in 1..len + 1
      PROVE  \/ k <= n /\ k \in 1..n /\ k \in DOMAIN s /\ longer[k] = s[k] /\ s[k] < v
             \/ k = n + 1 /\ longer[k] = v
             \/ /\ k > n + 1 /\ k - 1 \in n + 1..len /\ k - 1 \in DOMAIN s
                /\ longer[k] = s[k - 1] /\ v < s[k - 1]
  <2>1. CASE k <= n
    <3>1. k \in 1..n /\ k \in DOMAIN s /\ s[k] \in Nat
      BY <1>2, <1>3, <2>1
    <3>2. longer[k] = s[k] /\ s[k] <= v /\ s[k] # v
      BY <1>1, <3>1 DEF Places, Elements
    <3>. QED BY <2>1, <3>1, <3>2
  <2>2. CASE k = n + 1
    BY <1>1, <2>2 DEF Places
  <2>3. CASE k > n + 1
    <3>1. k - 1 \in n + 1..len /\ k - 1 \in DOMAIN s /\ s[k - 1] \in Nat /\ (k - 1) + 1 = k
      BY <1>2, <1>3, <2>3
    <3>2. longer[k] = s[k - 1] /\ ~(s[k - 1] <= v)
      BY <1>1, <1>2, <3>1 DEF Places
    <3>. QED BY <2>3, <3>1, <3>2
  <2>. QED BY <1>3, <2>1, <2>2, <2>3
<1>5. ASSUME NEW j \in 1..len + 1, NEW k \in 1..len + 1, j < k PROVE longer[j] < longer[k]
  <2>1. \A i \in DOMAIN s : s[i] \in Nat
    OBVIOUS
  <2>2. CASE k <= n
    <3>1. j <= n
      BY <1>3, <1>5, <2>2
    <3>2. j \in DOMAIN s /\ k \in DOMAIN s /\ longer[j] = s[j] /\ longer[k] = s[k]
      BY <1>3, <1>4, <2>2, <3>1
    <3>. QED BY <1>5, <3>2 DEF Ascending
  <2>3. CASE k = n + 1
    <3>1. j <= n
      BY <1>3, <1>5, <2>3
    <3>. QED BY <1>3, <1>4, <2>3, <3>1
  <2>4. CASE k > n + 1
    <3>1. k - 1 \in DOMAIN s /\ longer[k] = s[k - 1] /\ v < s[k - 1]
      BY <1>3, <1>4, <2>4
    <3>2. CASE j <= n
      <4>1. j \in DOMAIN s /\ longer[j] = s[j] /\ j < k - 1
        BY <1>3, <1>4, <2>4, <3>2
      <4>. QED BY <3>1, <4>1 DEF Ascending
    <3>3. CASE j = n + 1
      BY <1>3, <1>4, <3>1, <3>3
    <3>4. CASE j > n + 1
      <4>1. j - 1 \in DOMAIN s /\ longer[j] = s[j - 1] /\ j - 1 < k - 1
        BY <1>3, <1>4, <1>5, <3>4
      <4>. QED BY <3>1, <4>1 DEF Ascending
    <3>. QED BY <1>3, <3>2, <3>3, <3>4
  <2>. QED BY <1>3, <2>2, <2>3, <2>4
<1>6. ASSUME NEW e PROVE e \in Elements(longer) <=> e \in Elements(s) \cup {v}
  <2>1. ASSUME e \in Elements(longer) PROVE e \in Elements(s) \cup {v}
    <3>1. PICK k \in 1..len + 1 : e = longer[k]
      BY <1>3, <2>1 DEF Elements
    <3>. QED BY <1>3, <1>4, <3>1 DEF Elements
  <2>2. v \in Elements(longer)
    <3>1. n + 1 \in 1..len + 1 /\ longer[n + 1] = v
      BY <1>1, <1>3 DEF Places
    <3>. QED BY <1>3, <3>1 DEF Elements
  <2>3. ASSUME NEW k \in DOMAIN s PROVE s[k] \in Elements(longer)
    <3>1. CASE k <= n
      <4>1. k \in 1..n /\ k \in 1..len + 1
        BY <1>2, <1>3, <3>1
      <4>2. longer[k] = s[k]
        BY <1>1, <4>1 DEF Places
      <4>. QED BY <1>3, <4>1, <4>2 DEF Elements
    <3>2. CASE k > n
      <4>1. k \in n + 1..Len(s) /\ k + 1 \in 1..len + 1
        BY <1>2, <1>3, <3>2
      <4>2. longer[k + 1] = s[k]
        BY <1>1, <4>1 DEF Places
      <4>. QED BY <1>3, <4>1, <4>2 DEF Elements
    <3>. QED BY <1>2, <1>3, <3>1, <3>2
  <2>. QED BY <2>1, <2>2, <2>3 DEF Elements
<1>7. Ascending(longer)
  BY <1>3, <1>5 DEF Ascending
<1>. QED BY <1>1, <1>3, <1>6, <1>7

(* Whatever is inserted, a sequence remains.                               *)
LEMMA InsertedTyped ==
  ASSUME NEW s \in Seq(Nat), NEW v \in Nat
  PROVE  Inserted(s, v) \in Seq(Nat)
<1>1. PICK len \in Nat : len = Len(s) /\ DOMAIN s = 1..len
  OBVIOUS
<1>2. PICK t : t = {0} \cup {k \in DOMAIN s : s[k] <= v}
  OBVIOUS
<1>3. PICK n \in t : n = Max(t)
  <2>1. t \in SUBSET (0..len) /\ 0 \in t
    BY <1>1, <1>2
  <2>. QED BY <2>1, MaxUpto
<1>4. n \in 0..len
  BY <1>1, <1>2, <1>3
<1>5. Inserted(s, v) = SubSeq(s, 1, n) \o <<v>> \o SubSeq(s, n + 1, Len(s))
  BY <1>2, <1>3 DEF Inserted
<1>. QED BY <1>1, <1>4, <1>5

(* The NTFS partitions among distinct ones are listed in order.            *)
LEMMA NtfsListed ==
  ASSUME NEW disk, NEW firsts, NEW n \in Nat, Len(firsts) = n, disk.boots \subseteq Nat,
         \A i \in 1..n, j \in 1..n :
           i # j /\ Begins(disk, firsts[i]) /\ Begins(disk, firsts[j]) => firsts[i] # firsts[j]
  PROVE  /\ NtfsAmong(disk, firsts) \in Seq(Nat) /\ Ascending(NtfsAmong(disk, firsts))
         /\ Elements(NtfsAmong(disk, firsts)) =
              {firsts[i] : i \in {k \in 1..n : Begins(disk, firsts[k])}}
<1> DEFINE Next(v, i) == IF Begins(disk, firsts[i]) THEN Inserted(v, firsts[i]) ELSE v
           F == [x \in Seq(Nat) \X (1..n) |-> Next(x[1], x[2])]
           Solves(g) == g = [i \in 0..n |-> IF i = 0 THEN <<>> ELSE Next(g[i - 1], i)]
           Some(m) == {firsts[i] : i \in {k \in 1..m : Begins(disk, firsts[k])}}
           Good(v, m) == v \in Seq(Nat) /\ Ascending(v) /\ Elements(v) = Some(m)
<1>1. ASSUME NEW v \in Seq(Nat), NEW i \in 1..n PROVE Next(v, i) \in Seq(Nat)
  BY InsertedTyped DEF Begins
<1>2. IsStep(F, Seq(Nat), 1..n) /\ <<>> \in Seq(Nat)
  <2> HIDE DEF Next
  <2>. QED BY <1>1 DEF IsStep
<1>3. \A v \in Seq(Nat), i \in 1..n : F[<<v, i>>] = Next(v, i)
  OBVIOUS
<1> HIDE DEF F
<1>4. PICK f : Recurs(f, Seq(Nat), F, <<>>, 0..n)
  BY <1>2, RecursionUpto
<1>5. /\ f \in [0..n -> Seq(Nat)] /\ f[0] = <<>>
      /\ \A i \in (0..n) \ {0} : f[i] = F[f[i - 1], i]
  BY <1>4 DEF Recurs
<1>6. Solves(f)
  <2>1. ASSUME NEW i \in 0..n PROVE f[i] = IF i = 0 THEN <<>> ELSE Next(f[i - 1], i)
    <3> HIDE DEF Next
    <3>1. CASE i = 0
      BY <1>5, <3>1
    <3>2. CASE i # 0
      <4>1. i \in (0..n) \ {0} /\ i - 1 \in 0..n /\ i \in 1..n
        BY <3>2
      <4>. QED BY <1>3, <1>5, <3>2, <4>1
    <3>. QED BY <3>1, <3>2
  <2>2. f = [i \in 0..n |-> f[i]]
    BY <1>5
  <2> HIDE DEF Next
  <2>. QED BY <2>1, <2>2
<1>7. PICK w : Solves(w) /\ NtfsAmong(disk, firsts) = w[n]
  <2>1. NtfsAmong(disk, firsts) = (CHOOSE g : Solves(g))[n]
    BY DEF NtfsAmong
  <2> HIDE DEF Solves
  <2>. QED BY <1>6, <2>1, Zenon
<1>8. w[0] = <<>> /\ \A i \in 1..n : w[i] = Next(w[i - 1], i)
  <2> HIDE DEF Next
  <2>1. \A i \in 0..n : w[i] = IF i = 0 THEN <<>> ELSE Next(w[i - 1], i)
    BY <1>7
  <2>2. 0 \in 0..n /\ \A i \in 1..n : i \in 0..n /\ i # 0
    OBVIOUS
  <2>. QED BY <2>1, <2>2
<1>9. Good(w[0], 0)
  <2>1. <<>> \in Seq(Nat) /\ Ascending(<<>>) /\ Elements(<<>>) = {} /\ Some(0) = {}
    BY DEF Ascending, Elements
  <2>. QED BY <1>8, <2>1
<1>10. ASSUME NEW m \in Nat, m + 1 <= n, Good(w[m], m) PROVE Good(w[m + 1], m + 1)
  <2>1. PICK v : v = w[m] /\ v \in Seq(Nat) /\ Ascending(v) /\ Elements(v) = Some(m)
    BY <1>10
  <2>2. m + 1 \in 1..n /\ (m + 1) - 1 = m
    BY <1>10
  <2>3. PICK e : e = firsts[m + 1]
    OBVIOUS
  <2>4. w[m + 1] = IF Begins(disk, e) THEN Inserted(v, e) ELSE v
    BY <1>8, <2>1, <2>2, <2>3
  <2>5. Some(m + 1) = IF Begins(disk, e) THEN Some(m) \cup {e} ELSE Some(m)
    <3>1. \A k : k \in 1..m + 1 <=> k \in 1..m \/ k = m + 1
      OBVIOUS
    <3>. QED BY <2>3, <3>1
  <2>6. CASE Begins(disk, e)
    <3>1. e \in Nat
      BY <2>6 DEF Begins
    <3>2. e \notin Some(m)
      <4> SUFFICES ASSUME NEW k \in 1..m, Begins(disk, firsts[k]), firsts[k] = e PROVE FALSE
        OBVIOUS
      <4>1. k \in 1..n /\ k # m + 1
        BY <2>2
      <4>. QED BY <2>2, <2>3, <2>6, <4>1
    <3> HIDE DEF Some
    <3>. QED BY <2>1, <2>4, <2>5, <2>6, <3>1, <3>2, InsertedAscends
  <2>7. CASE ~Begins(disk, e)
    BY <2>1, <2>4, <2>5, <2>7
  <2>. QED BY <2>6, <2>7
<1> HIDE DEF Good
<1>11. Good(w[n], n)
  <2> DEFINE S == {m \in Nat : m <= n => Good(w[m], m)}
  <2>1. 0 \in S
    BY <1>9
  <2>2. ASSUME NEW m \in Nat, m \in S PROVE m + 1 \in S
    BY <1>10, <2>2
  <2>3. Nat \subseteq S
    <3> HIDE DEF S
    <3>. QED BY <2>1, <2>2, NatSetInduction
  <2>. QED BY <2>3
<1>. QED BY <1>7, <1>11 DEF Good

(* What FindVolumes makes of a disk that was partitioned soundly.          *)
VolumesListed(s, outcome) == Elements(outcome) = s.volumes /\ Ascending(outcome)

LEMMA SoundDisk ==
  ASSUME NEW s, DiskSample(s)
  PROVE  VolumesListed(s, FindVolumes(s.disk))
<1> DEFINE disk == s.disk
           parts == s.parts
           used == {i \in DOMAIN parts : parts[i].used}
<1>1. disk.sectors \in Nat \ {0} /\ disk.boots \subseteq Nat
  BY DEF DiskSample
<1>2. CASE 0 \in disk.boots
  <2>1. FindVolumes(disk) = <<0>> /\ s.volumes = {0}
    BY <1>1, <1>2 DEF FindVolumes, DiskSample
  <2>2. Elements(<<0>>) = {0} /\ Ascending(<<0>>)
    BY DEF Elements, Ascending
  <2>. QED BY <2>1, <2>2 DEF VolumesListed
<1>3. CASE 0 \notin disk.boots
  <2>1. /\ disk.sectors > 1 /\ parts \in Seq(Partition) /\ Listed(disk, parts)
        /\ \A i \in used : parts[i].first <= parts[i].last
        /\ \A i, j \in used :
             i # j => parts[i].last < parts[j].first \/ parts[j].last < parts[i].first
        /\ s.volumes = {parts[i].first : i \in used} \cap disk.boots \cap 0..disk.sectors - 1
    BY <1>3 DEF DiskSample
  <2>2. PICK n \in Nat : n = Len(parts) /\ DOMAIN parts = 1..n
    BY <2>1
  <2>3. ASSUME NEW i \in 1..n
        PROVE  parts[i].used \in BOOLEAN /\ parts[i].first \in Nat /\ parts[i].last \in Nat
    <3>1. parts[i] \in Partition
      BY <2>1, <2>2
    <3>. QED BY <3>1 DEF Partition
  <2>4. PICK firsts : firsts = Partitions(disk)
    OBVIOUS
  <2>5. /\ firsts = [i \in 1..n |-> firsts[i]]
        /\ ~TableUsed(disk) \/ TableThere(disk)
        /\ \A i \in 1..n : firsts[i] = IF parts[i].used THEN parts[i].first ELSE Empty
    <3>1. CASE disk.gpt = NoTable
      <4>1. /\ ~TableUsed(disk) /\ disk.signed /\ DOMAIN disk.mbr = 1..n
            /\ \A i \in 1..n : InMbr(parts[i], disk.mbr[i])
        BY <2>1, <2>2, <3>1 DEF Listed, TableUsed
      <4>2. firsts = [i \in 1..n |-> IF disk.mbr[i].type # 0 /\ disk.mbr[i].count # 0
                                     THEN disk.mbr[i].first ELSE Empty]
        BY <2>4, <4>1 DEF Partitions, ParseMbr
      <4>3. ASSUME NEW i \in 1..n
            PROVE  firsts[i] = IF parts[i].used THEN parts[i].first ELSE Empty
        <5>1. CASE parts[i].used
          <6>1. /\ disk.mbr[i].type # 0 /\ disk.mbr[i].first = parts[i].first
                /\ disk.mbr[i].count = parts[i].last - parts[i].first + 1
            BY <4>1, <5>1 DEF InMbr
          <6>2. i \in used
            BY <2>2, <5>1
          <6>3. parts[i].first <= parts[i].last
            BY <2>1, <6>2
          <6>4. parts[i].last - parts[i].first + 1 # 0
            BY <2>3, <6>3
          <6>. QED BY <4>2, <5>1, <6>1, <6>4
        <5>2. CASE ~parts[i].used
          BY <4>1, <4>2, <5>2 DEF InMbr
        <5>. QED BY <5>1, <5>2
      <4>4. firsts = [i \in 1..n |-> firsts[i]]
        BY <4>2
      <4>. QED BY <4>1, <4>3, <4>4
    <3>2. CASE disk.gpt # NoTable
      <4>1. /\ TableUsed(disk) /\ TableThere(disk) /\ disk.gpt.entrySize >= MinEntry
            /\ DOMAIN disk.gpt.entries = 1..n
            /\ \A i \in 1..n : InGpt(parts[i], disk.gpt.entries[i])
        BY <2>1, <2>2, <3>2 DEF Listed
      <4>2. firsts = [i \in 1..n |->
                        IF disk.gpt.entries[i].used
                             /\ disk.gpt.entries[i].last >= disk.gpt.entries[i].first
                        THEN disk.gpt.entries[i].first ELSE Empty]
        BY <2>4, <4>1 DEF Partitions, ParseGpt
      <4>3. ASSUME NEW i \in 1..n
            PROVE  firsts[i] = IF parts[i].used THEN parts[i].first ELSE Empty
        <5>1. CASE parts[i].used
          <6>1. /\ disk.gpt.entries[i].used /\ disk.gpt.entries[i].first = parts[i].first
                /\ disk.gpt.entries[i].last = parts[i].last
            BY <4>1, <5>1 DEF InGpt
          <6>2. i \in used
            BY <2>2, <5>1
          <6>3. parts[i].last >= parts[i].first
            BY <2>1, <2>3, <6>2
          <6>. QED BY <4>2, <5>1, <6>1, <6>3
        <5>2. CASE ~parts[i].used
          BY <4>1, <4>2, <5>2 DEF InGpt
        <5>. QED BY <5>1, <5>2
      <4>4. firsts = [i \in 1..n |-> firsts[i]]
        BY <4>2
      <4>. QED BY <4>1, <4>3, <4>4
    <3>. QED BY <3>1, <3>2
  <2>6. Len(firsts) = n
    BY <2>2, <2>5
  <2>7. FindVolumes(disk) = NtfsAmong(disk, firsts)
    BY <1>1, <1>3, <2>1, <2>4, <2>5 DEF FindVolumes
  <2>8. ASSUME NEW i \in 1..n
        PROVE  Begins(disk, firsts[i]) <=>
                 i \in used /\ parts[i].first \in disk.boots \cap 0..disk.sectors - 1
    <3>1. CASE i \in used
      <4>1. firsts[i] = parts[i].first /\ parts[i].first \in Nat
        BY <2>3, <2>5, <3>1
      <4>. QED BY <1>1, <3>1, <4>1 DEF Begins
    <3>2. CASE i \notin used
      <4>1. firsts[i] = Empty
        BY <2>2, <2>5, <3>2
      <4>. QED BY <1>1, <3>2, <4>1 DEF Begins, Empty
    <3>. QED BY <3>1, <3>2
  <2>9. ASSUME NEW i \in 1..n, NEW j \in 1..n, i # j,
                Begins(disk, firsts[i]), Begins(disk, firsts[j])
         PROVE  firsts[i] # firsts[j]
    <3>1. i \in used /\ j \in used
      BY <2>8, <2>9
    <3>2. firsts[i] = parts[i].first /\ firsts[j] = parts[j].first
      BY <2>5, <3>1
    <3>3. /\ parts[i].last < parts[j].first \/ parts[j].last < parts[i].first
          /\ parts[i].first <= parts[i].last /\ parts[j].first <= parts[j].last
      BY <2>1, <2>9, <3>1
    <3>. QED BY <2>3, <3>2, <3>3
  <2>10. /\ Ascending(NtfsAmong(disk, firsts))
         /\ Elements(NtfsAmong(disk, firsts)) =
              {firsts[i] : i \in {k \in 1..n : Begins(disk, firsts[k])}}
    <3>1. PICK d : d = disk
      OBVIOUS
    <3>2. d.boots \subseteq Nat
      BY <1>1, <3>1
    <3>3. \A i \in 1..n, j \in 1..n :
            i # j /\ Begins(d, firsts[i]) /\ Begins(d, firsts[j]) => firsts[i] # firsts[j]
      BY <2>9, <3>1
    <3>4. /\ Ascending(NtfsAmong(d, firsts))
          /\ Elements(NtfsAmong(d, firsts)) =
               {firsts[i] : i \in {k \in 1..n : Begins(d, firsts[k])}}
      <4> HIDE <3>1
      <4>. QED BY <2>6, <3>2, <3>3, NtfsListed
    <3>. QED BY <3>1, <3>4
  <2>11. {firsts[i] : i \in {k \in 1..n : Begins(disk, firsts[k])}} = s.volumes
    <3>1. \A i \in used : i \in 1..n /\ firsts[i] = parts[i].first
      BY <2>2, <2>5
    <3> HIDE DEF used
    <3>. QED BY <2>1, <2>8, <3>1
  <2>. QED BY <2>7, <2>10, <2>11 DEF VolumesListed
<1>. QED BY <1>2, <1>3

----------------------------------------------------------------------------
(* CARVING                                                                 *)

(* What the assumption says of one signature.                              *)
Sigs == 1..Len(Signatures)
LEMMA SigFacts ==
  /\ Sigs = DOMAIN Signatures
  /\ \A i \in Sigs :
       /\ Signatures[i].magic \in Seq(Nat) /\ Len(Signatures[i].magic) \in 1..Overlap + 1
       /\ DOMAIN Signatures[i].magic = 1..Len(Signatures[i].magic)
       /\ Signatures[i].back \in Nat /\ Signatures[i].tail \in Nat
       /\ Signatures[i].footer \in Seq(Nat) /\ Len(Signatures[i].footer) <= Signatures[i].tail
  /\ Overlap \in Nat /\ MaxLength \in Nat /\ MinLength \in Nat
<1>1. Sigs = DOMAIN Signatures /\ Overlap \in Nat /\ MaxLength \in Nat /\ MinLength \in Nat
  BY CarverAssumption DEF Sigs
<1>2. ASSUME NEW i \in Sigs
      PROVE  /\ Signatures[i].magic \in Seq(Nat) /\ Len(Signatures[i].magic) \in 1..Overlap + 1
             /\ DOMAIN Signatures[i].magic = 1..Len(Signatures[i].magic)
             /\ Signatures[i].back \in Nat /\ Signatures[i].tail \in Nat
             /\ Signatures[i].footer \in Seq(Nat)
             /\ Len(Signatures[i].footer) <= Signatures[i].tail
  <2>1. Signatures[i] \in Signature
    BY CarverAssumption DEF Sigs
  <2>2. /\ Signatures[i].magic \in Seq(Nat) /\ Signatures[i].back \in Nat
        /\ Signatures[i].tail \in Nat /\ Signatures[i].footer \in Seq(Nat)
    BY <2>1 DEF Signature
  <2>3. /\ Len(Signatures[i].magic) \in 1..Overlap + 1
        /\ Len(Signatures[i].footer) <= Signatures[i].tail
    BY <1>1, CarverAssumption
  <2>. QED BY <2>2, <2>3
<1>. QED BY <1>1, <1>2

(* A signature that begins inside another one, or where it does, is it.    *)
LEMMA SigsApart ==
  ASSUME NEW s, NEW p \in Nat, NEW q \in Nat, NEW i \in Found(s, p), NEW j \in Found(s, q),
         p <= q, q < p + Len(Signatures[i].magic)
  PROVE  i = j /\ p = q
<1>1. /\ i \in Sigs /\ j \in Sigs
      /\ Occurs(Signatures[i].magic, s, p) /\ Occurs(Signatures[j].magic, s, q)
  BY SigFacts DEF Found
<1>2. PICK len \in Nat : /\ len = Len(Signatures[i].magic)
                         /\ DOMAIN Signatures[i].magic = 1..len
  BY <1>1, SigFacts
<1>3. PICK other \in Nat : /\ other = Len(Signatures[j].magic)
                           /\ DOMAIN Signatures[j].magic = 1..other
  BY <1>1, SigFacts
<1>4. PICK d \in Nat : d = q - p /\ d \in 0..len - 1 /\ q = p + d
  BY <1>2
<1>5. (i = j /\ d = 0) \/ Contradicts(i, j, d)
  BY <1>1, <1>2, <1>4, SigFacts, CarverAssumption
<1>6. ~Contradicts(i, j, d)
  <2> SUFFICES ASSUME NEW k \in 1..other, d + k \in 1..len,
                      Signatures[i].magic[d + k] # Signatures[j].magic[k]
               PROVE  FALSE
    BY <1>2, <1>3 DEF Contradicts
  <2>1. s[p + (d + k)] = Signatures[i].magic[d + k]
    BY <1>1, <1>2 DEF Occurs
  <2>2. s[q + k] = Signatures[j].magic[k]
    BY <1>1, <1>3 DEF Occurs
  <2>3. p + (d + k) = q + k
    BY <1>4
  <2>. QED BY <2>1, <2>2, <2>3
<1>. QED BY <1>4, <1>5, <1>6

(* At one position there is at most one signature, which is then the one   *)
(* that is taken.                                                          *)
LEMMA SigAt ==
  ASSUME NEW s, NEW at \in Nat, NEW i \in Found(s, at)
  PROVE  i \in Sigs /\ Found(s, at) = {i} /\ Min(Found(s, at)) = i
<1>1. i \in Sigs /\ Found(s, at) \subseteq Sigs
  BY SigFacts DEF Found
<1>2. ASSUME NEW j \in Found(s, at) PROVE j = i
  <2>1. PICK len : len = Len(Signatures[j].magic) /\ len \in 1..Overlap + 1
    BY <1>1, SigFacts
  <2>2. at < at + Len(Signatures[j].magic)
    BY <2>1, SigFacts
  <2>. QED BY <2>2, SigsApart
<1>3. Found(s, at) = {i}
  BY <1>2
<1>4. i \in Nat
  BY <1>1 DEF Sigs
<1>5. \A x : x \in {i} /\ (\A y \in {i} : x <= y) <=> x = i
  BY <1>4
<1>6. Min({i}) = i
  BY <1>5 DEF Min
<1>. QED BY <1>1, <1>3, <1>6

(* What begins in a chunk is found in the slice that is searched.          *)
Slice(s, start, chunk) == SubSeq(s, start + 1, ChunkEnd(s, start, chunk))
LEMMA SliceIs ==
  ASSUME NEW s \in Seq(Nat), NEW start \in Nat, NEW chunk \in Nat, start <= Len(s)
  PROVE  /\ Slice(s, start, chunk) \in Seq(Nat)
         /\ Len(Slice(s, start, chunk)) = ChunkEnd(s, start, chunk) - start
         /\ start <= ChunkEnd(s, start, chunk) /\ ChunkEnd(s, start, chunk) <= Len(s)
         /\ ChunkEnd(s, start, chunk) \in Nat
         /\ \A k \in 1..Len(Slice(s, start, chunk)) : Slice(s, start, chunk)[k] = s[start + k]
<1>1. PICK len \in Nat : len = Len(s) /\ \A k \in 1..len : s[k] \in Nat
  OBVIOUS
<1>2. PICK end \in Nat : end = ChunkEnd(s, start, chunk) /\ start <= end /\ end <= len
  BY <1>1, SigFacts DEF ChunkEnd
<1>3. \A k \in start + 1..end : s[k] \in Nat
  BY <1>1, <1>2
<1>4. PICK w : w = SubSeq(s, start + 1, end)
  OBVIOUS
<1>5. start + 1 \in Int /\ end \in Int
  OBVIOUS
<1>6. /\ w \in Seq(Nat) /\ Len(w) = IF start + 1 <= end THEN end - (start + 1) + 1 ELSE 0
      /\ \A k \in 1..end - (start + 1) + 1 : w[k] = s[start + 1 + k - 1]
  BY <1>3, <1>4, <1>5, SubSeqProperties
<1>7. Len(w) = end - start
  BY <1>2, <1>6
<1>8. ASSUME NEW k \in 1..end - start PROVE w[k] = s[start + k]
  <2>1. k \in 1..end - (start + 1) + 1 /\ start + 1 + k - 1 = start + k
    BY <1>2
  <2>. QED BY <1>6, <2>1
<1>. QED BY <1>1, <1>2, <1>4, <1>6, <1>7, <1>8 DEF Slice

LEMMA SliceFinds ==
  ASSUME NEW s \in Seq(Nat), NEW start \in Nat, NEW chunk \in Nat, start <= Len(s),
         NEW at \in Nat, at < chunk
  PROVE  Found(Slice(s, start, chunk), at) = Found(s, start + at)
<1>1. PICK len \in Nat : len = Len(s)
  OBVIOUS
<1>2. PICK w : w = Slice(s, start, chunk)
  OBVIOUS
<1>3. PICK end \in Nat : /\ end = ChunkEnd(s, start, chunk) /\ start <= end /\ end <= len
                         /\ Len(w) = end - start
                         /\ \A k \in 1..end - start : w[k] = s[start + k]
  <2>1. /\ Len(w) = ChunkEnd(s, start, chunk) - start
        /\ start <= ChunkEnd(s, start, chunk) /\ ChunkEnd(s, start, chunk) <= Len(s)
        /\ ChunkEnd(s, start, chunk) \in Nat
        /\ \A k \in 1..Len(w) : w[k] = s[start + k]
    BY <1>2, SliceIs
  <2>. QED BY <1>1, <2>1
<1>4. end = len \/ end = start + chunk + Overlap
  BY <1>1, <1>3 DEF ChunkEnd
<1>5. ASSUME NEW i \in Sigs
      PROVE  Occurs(Signatures[i].magic, w, at) <=> Occurs(Signatures[i].magic, s, start + at)
  <2>1. PICK m : m = Signatures[i].magic
    OBVIOUS
  <2>2. PICK n \in Nat : n = Len(m) /\ n <= Overlap + 1
    BY <2>1, SigFacts
  <2>3. at + n <= end - start <=> start + at + n <= len
    <3>1. PICK over \in Nat : over = Overlap
      BY SigFacts
    <3>2. n <= over + 1 /\ (end = len \/ end = start + chunk + over)
      BY <1>4, <2>2, <3>1
    <3> HIDE <3>1
    <3>. QED BY <1>3, <3>2
  <2>4. ASSUME at + n <= end - start, NEW k \in 1..n PROVE w[at + k] = s[start + at + k]
    <3>1. at + k \in 1..end - start /\ start + (at + k) = start + at + k
      BY <1>3, <2>4
    <3>. QED BY <1>3, <3>1
  <2>. QED BY <1>1, <1>3, <2>1, <2>2, <2>3, <2>4 DEF Occurs
<1>. QED BY <1>2, <1>5, SigFacts DEF Found

(* Hits that tell all that begins from lo up to hi, in order.              *)
HitSet == [offset : Nat, sig : Sigs]
Place(h) == h.offset + Signatures[h.sig].back
Tells(s, hits, lo, hi) ==
  /\ hits \in Seq(HitSet)
  /\ \A k \in DOMAIN hits : /\ lo <= Place(hits[k]) /\ Place(hits[k]) < hi
                            /\ hits[k].sig \in Found(s, Place(hits[k]))
  /\ \A j, k \in DOMAIN hits : j < k => Place(hits[j]) < Place(hits[k])
  /\ \A p \in lo..hi - 1 : \A i \in Found(s, p) :
       p >= Signatures[i].back => \E k \in DOMAIN hits : hits[k] = Hit(i, p)

LEMMA PlaceType == \A h \in HitSet : Place(h) \in Nat
<1> SUFFICES ASSUME NEW h \in HitSet PROVE Place(h) \in Nat
  OBVIOUS
<1>1. h.offset \in Nat /\ h.sig \in Sigs
  BY DEF HitSet
<1>2. Signatures[h.sig].back \in Nat
  BY <1>1, SigFacts
<1>. QED BY <1>1, <1>2 DEF Place

LEMMA HitPlaced ==
  ASSUME NEW i \in Sigs, NEW at \in Nat, at >= Signatures[i].back
  PROVE  Hit(i, at) \in HitSet /\ Place(Hit(i, at)) = at /\ Hit(i, at).sig = i
<1>1. PICK b \in Nat : b = Signatures[i].back
  BY SigFacts
<1>2. at - b \in Nat /\ (at - b) + b = at
  BY <1>1
<1>3. Hit(i, at).offset = at - b /\ Hit(i, at).sig = i
  BY <1>1 DEF Hit
<1>. QED BY <1>1, <1>2, <1>3 DEF Hit, HitSet, Place

(* What is told up to mid and from there makes what is told of both.       *)
LEMMA TellsOn ==
  ASSUME NEW s, NEW lo \in Nat, NEW mid \in Nat, NEW hi \in Nat, lo <= mid, mid <= hi,
         NEW front, Tells(s, front, lo, mid), NEW rear, Tells(s, rear, mid, hi)
  PROVE  Tells(s, front \o rear, lo, hi)
<1>1. front \in Seq(HitSet) /\ rear \in Seq(HitSet)
  BY DEF Tells
<1>2. PICK m \in Nat : m = Len(front) /\ DOMAIN front = 1..m
  BY <1>1
<1>3. PICK n \in Nat : n = Len(rear) /\ DOMAIN rear = 1..n
  BY <1>1
<1>4. PICK c : c = front \o rear
  OBVIOUS
<1>5. /\ c \in Seq(HitSet) /\ Len(c) = m + n
      /\ \A k \in 1..m + n : c[k] = IF k <= m THEN front[k] ELSE rear[k - m]
  BY <1>1, <1>2, <1>3, <1>4, ConcatProperties
<1>6. DOMAIN c = 1..m + n
  BY <1>5
<1>7. \A k \in 1..m : Place(front[k]) \in Nat
  BY <1>1, <1>2, PlaceType
<1>8. \A k \in 1..n : Place(rear[k]) \in Nat
  BY <1>1, <1>3, PlaceType
<1>9. ASSUME NEW k \in 1..m + n
      PROVE  \/ k <= m /\ k \in 1..m /\ c[k] = front[k]
             \/ k > m /\ k - m \in 1..n /\ c[k] = rear[k - m]
  BY <1>5
<1>10. ASSUME NEW k \in 1..m + n
       PROVE  /\ lo <= Place(c[k]) /\ Place(c[k]) < hi /\ c[k].sig \in Found(s, Place(c[k]))
  <2>1. CASE k <= m
    <3>1. k \in 1..m /\ c[k] = front[k]
      BY <1>9, <2>1
    <3>2. /\ lo <= Place(front[k]) /\ Place(front[k]) < mid
          /\ front[k].sig \in Found(s, Place(front[k]))
      BY <1>2, <3>1 DEF Tells
    <3>. QED BY <1>7, <3>1, <3>2
  <2>2. CASE k > m
    <3>1. PICK i \in 1..n : c[k] = rear[i]
      BY <1>9, <2>2
    <3>2. /\ mid <= Place(rear[i]) /\ Place(rear[i]) < hi
          /\ rear[i].sig \in Found(s, Place(rear[i]))
      BY <1>3 DEF Tells
    <3>. QED BY <1>8, <3>1, <3>2
  <2>. QED BY <2>1, <2>2
<1>11. ASSUME NEW j \in 1..m + n, NEW k \in 1..m + n, j < k PROVE Place(c[j]) < Place(c[k])
  <2>1. CASE k <= m
    <3>1. j \in 1..m /\ k \in 1..m /\ c[j] = front[j] /\ c[k] = front[k]
      BY <1>9, <1>11, <2>1
    <3>. QED BY <1>2, <1>11, <3>1 DEF Tells
  <2>2. CASE j <= m /\ k > m
    <3>1. j \in 1..m /\ c[j] = front[j]
      BY <1>9, <2>2
    <3>2. PICK i \in 1..n : c[k] = rear[i]
      BY <1>9, <2>2
    <3>3. Place(front[j]) < mid
      BY <1>2, <3>1 DEF Tells
    <3>4. mid <= Place(rear[i])
      BY <1>3 DEF Tells
    <3>. QED BY <1>7, <1>8, <3>1, <3>2, <3>3, <3>4
  <2>3. CASE j > m
    <3>1. /\ j - m \in 1..n /\ k - m \in 1..n /\ j - m < k - m
          /\ c[j] = rear[j - m] /\ c[k] = rear[k - m]
      BY <1>9, <1>11, <2>3
    <3>. QED BY <1>3, <3>1 DEF Tells
  <2>. QED BY <1>11, <2>1, <2>2, <2>3
<1>12. ASSUME NEW p \in lo..hi - 1, NEW i \in Found(s, p), p >= Signatures[i].back
       PROVE  \E k \in 1..m + n : c[k] = Hit(i, p)
  <2>1. CASE p < mid
    <3>1. p \in lo..mid - 1
      BY <2>1
    <3>2. PICK k \in 1..m : front[k] = Hit(i, p)
      BY <1>2, <1>12, <3>1 DEF Tells
    <3>3. k \in 1..m + n /\ c[k] = front[k]
      BY <1>5
    <3>. QED BY <3>2, <3>3
  <2>2. CASE p >= mid
    <3>1. p \in mid..hi - 1
      BY <2>2
    <3>2. PICK k \in 1..n : rear[k] = Hit(i, p)
      BY <1>3, <1>12, <3>1 DEF Tells
    <3>3. m + k \in 1..m + n /\ ~(m + k <= m) /\ (m + k) - m = k
      OBVIOUS
    <3>4. c[m + k] = rear[k]
      BY <1>5, <3>3
    <3>. QED BY <3>2, <3>3, <3>4
  <2>. QED BY <2>1, <2>2
<1>. QED BY <1>4, <1>5, <1>6, <1>10, <1>11, <1>12 DEF Tells

(* Where nothing begins there is nothing to tell; where one signature      *)
(* does, its hit.                                                          *)
LEMMA TellsNothing ==
  ASSUME NEW s, NEW lo \in Nat, NEW hi \in Nat,
         \A p \in lo..hi - 1 : \A i \in Found(s, p) : ~(p >= Signatures[i].back)
  PROVE  Tells(s, <<>>, lo, hi)
<1>1. <<>> \in Seq(HitSet) /\ DOMAIN <<>> = {}
  OBVIOUS
<1>. QED BY <1>1 DEF Tells

LEMMA TellsOne ==
  ASSUME NEW s, NEW at \in Nat, NEW i \in Found(s, at), at >= Signatures[i].back
  PROVE  Tells(s, <<Hit(i, at)>>, at, at + 1)
<1>1. i \in Sigs /\ Found(s, at) = {i}
  BY SigAt
<1>2. PICK h \in HitSet : h = Hit(i, at) /\ Place(h) = at /\ h.sig = i
  BY <1>1, HitPlaced
<1>3. <<h>> \in Seq(HitSet) /\ DOMAIN <<h>> = {1} /\ <<h>>[1] = h
  OBVIOUS
<1>4. \A p \in at..(at + 1) - 1 : p = at
  OBVIOUS
<1>. QED BY <1>1, <1>2, <1>3, <1>4 DEF Tells

(* A longer stretch behind which nothing is left.                          *)
LEMMA TellsFurther ==
  ASSUME NEW s, NEW lo \in Nat, NEW mid \in Nat, NEW hi \in Nat, lo <= mid, mid <= hi,
         NEW hits, Tells(s, hits, lo, mid),
         \A p \in mid..hi - 1 : \A i \in Found(s, p) : ~(p >= Signatures[i].back)
  PROVE  Tells(s, hits, lo, hi)
<1>1. Tells(s, <<>>, mid, hi)
  BY TellsNothing
<1>2. Tells(s, hits \o <<>>, lo, hi)
  BY <1>1, TellsOn
<1>3. hits \o <<>> = hits
  <2>1. hits \in Seq(HitSet)
    BY DEF Tells
  <2>. QED BY <2>1, ConcatEmptySeq
<1>. QED BY <1>2, <1>3

(* A chunk of which the first positions have been searched: what begins    *)
(* there has been told, and nothing begins before the next position that   *)
(* is looked at.                                                           *)
Span(chunk, at) == IF at < chunk THEN at ELSE chunk
Searched(s, start, chunk, state, at) ==
  /\ state.next \in Nat
  /\ \A q \in Nat : at <= q /\ q < state.next => Found(Slice(s, start, chunk), q) = {}
  /\ Tells(s, state.hits, start, start + Span(chunk, at))

LEMMA SearchOn ==
  ASSUME NEW s \in Seq(Nat), NEW start \in Nat, NEW chunk \in Nat, start <= Len(s),
         NEW at \in Nat, NEW state, Searched(s, start, chunk, state, at)
  PROVE  Searched(s, start, chunk, Search(Slice(s, start, chunk), start, chunk, state, at), at + 1)
<1>1. PICK w : w = Slice(s, start, chunk)
  OBVIOUS
<1>2. PICK next \in Nat : next = state.next /\ \A q \in Nat : at <= q /\ q < next => Found(w, q) = {}
  BY <1>1 DEF Searched
<1>3. PICK hits : hits = state.hits /\ Tells(s, hits, start, start + Span(chunk, at))
  BY DEF Searched
<1>4. hits \in Seq(HitSet)
  BY <1>3 DEF Tells
<1>5. PICK other : other = Search(w, start, chunk, state, at)
  OBVIOUS
<1>6. at < chunk => Found(s, start + at) = Found(w, at)
  BY <1>1, SliceFinds
<1>7. /\ Span(chunk, at) \in Nat /\ Span(chunk, at + 1) \in Nat
      /\ at < chunk => Span(chunk, at) = at /\ Span(chunk, at + 1) = at + 1
      /\ ~(at < chunk) => Span(chunk, at + 1) = Span(chunk, at)
  BY DEF Span
<1>8. CASE at < next \/ Found(w, at) = {}
  <2>1. other = state
    BY <1>2, <1>5, <1>8 DEF Search
  <2>2. Found(w, at) = {}
    BY <1>2, <1>8
  <2>3. \A q \in Nat : at + 1 <= q /\ q < next => Found(w, q) = {}
    BY <1>2
  <2>4. Tells(s, hits, start, start + Span(chunk, at + 1))
    <3>1. CASE at < chunk
      <4>1. Tells(s, hits, start, start + at)
        BY <1>3, <1>7, <3>1
      <4>2. \A p \in start + at..(start + at + 1) - 1 : p = start + at
        OBVIOUS
      <4>3. Found(s, start + at) = {}
        BY <1>6, <2>2, <3>1
      <4>4. start + at \in Nat /\ start + at + 1 \in Nat /\ start <= start + at
            /\ start + at <= start + at + 1
        OBVIOUS
      <4>5. \A p \in start + at..(start + at + 1) - 1 :
              \A i \in Found(s, p) : ~(p >= Signatures[i].back)
        BY <4>2, <4>3
      <4>6. Tells(s, hits, start, start + at + 1)
        BY <4>1, <4>4, <4>5, TellsFurther
      <4>7. start + Span(chunk, at + 1) = start + at + 1
        BY <1>7, <3>1
      <4>. QED BY <4>6, <4>7
    <3>2. CASE ~(at < chunk)
      BY <1>3, <1>7, <3>2
    <3>. QED BY <3>1, <3>2
  <2>. QED BY <1>1, <1>2, <1>3, <1>5, <2>1, <2>3, <2>4 DEF Searched
<1>9. CASE ~(at < next) /\ Found(w, at) # {}
  <2>1. PICK i \in Found(w, at) : i \in Sigs /\ Found(w, at) = {i} /\ Min(Found(w, at)) = i
    BY <1>9, SigAt
  <2>2. PICK len \in Nat : len = Len(Signatures[i].magic) /\ len > 0
    BY <2>1, SigFacts
  <2>3. PICK more : more = IF at < chunk /\ start + at >= Signatures[i].back
                           THEN Append(hits, Hit(i, start + at)) ELSE hits
    OBVIOUS
  <2>4. other = [next |-> at + len, hits |-> more]
    BY <1>2, <1>3, <1>5, <1>9, <2>1, <2>2, <2>3 DEF Search
  <2>5. ASSUME NEW q \in Nat, at + 1 <= q, q < at + len PROVE Found(w, q) = {}
    <3> SUFFICES ASSUME NEW j \in Found(w, q) PROVE FALSE
      OBVIOUS
    <3>1. at <= q /\ q < at + Len(Signatures[i].magic) /\ at # q
      BY <2>2, <2>5
    <3>. QED BY <2>1, <3>1, SigsApart
  <2>6. Tells(s, more, start, start + Span(chunk, at + 1))
    <3>1. CASE ~(at < chunk)
      BY <1>3, <1>7, <2>3, <3>1
    <3>2. CASE at < chunk
      <4>1. Tells(s, hits, start, start + at) /\ start + Span(chunk, at + 1) = start + at + 1
        BY <1>3, <1>7, <3>2
      <4>2. PICK p \in Nat : p = start + at /\ start <= p /\ p <= p + 1 /\ p + 1 \in Nat
        OBVIOUS
      <4>3. i \in Found(s, p) /\ Found(s, p) = {i}
        BY <1>6, <2>1, <3>2, <4>2
      <4>4. CASE p >= Signatures[i].back
        <5>1. Tells(s, <<Hit(i, p)>>, p, p + 1)
          BY <4>3, <4>4, TellsOne
        <5>2. Tells(s, hits \o <<Hit(i, p)>>, start, p + 1)
          BY <4>1, <4>2, <5>1, TellsOn
        <5>3. Hit(i, p) \in HitSet
          BY <2>1, <4>2, <4>4, HitPlaced
        <5>4. more = hits \o <<Hit(i, p)>>
          BY <1>4, <2>3, <3>2, <4>2, <4>4, <5>3
        <5>. QED BY <4>1, <4>2, <5>2, <5>4
      <4>5. CASE ~(p >= Signatures[i].back)
        <5>1. more = hits
          BY <2>3, <4>2, <4>5
        <5>2. \A q \in p..(p + 1) - 1 : q = p
          OBVIOUS
        <5>3. \A q \in p..(p + 1) - 1 : \A j \in Found(s, q) : ~(q >= Signatures[j].back)
          BY <4>3, <4>5, <5>2
        <5>4. Tells(s, hits, start, p + 1)
          BY <4>1, <4>2, <5>3, TellsFurther
        <5>. QED BY <4>1, <4>2, <5>1, <5>4
      <4>. QED BY <4>4, <4>5
    <3>. QED BY <3>1, <3>2
  <2>. QED BY <1>1, <1>5, <2>4, <2>5, <2>6 DEF Searched
<1>. QED BY <1>8, <1>9

(* The states of a search.                                                 *)
SearchStates == [next : Nat, hits : Seq(HitSet)]
LEMMA SearchTyped ==
  ASSUME NEW w, NEW start \in Nat, NEW chunk \in Nat, NEW at \in Nat, NEW state \in SearchStates
  PROVE  Search(w, start, chunk, state, at) \in SearchStates
<1>1. state.next \in Nat /\ state.hits \in Seq(HitSet)
  BY DEF SearchStates
<1>2. CASE at < state.next \/ Found(w, at) = {}
  BY <1>2 DEF Search
<1>3. CASE ~(at < state.next) /\ Found(w, at) # {}
  <2>1. PICK i \in Found(w, at) : i \in Sigs /\ Min(Found(w, at)) = i
    BY <1>3, SigAt
  <2>2. PICK len \in Nat : len = Len(Signatures[i].magic)
    BY <2>1, SigFacts
  <2>3. PICK more : more = IF at < chunk /\ start + at >= Signatures[i].back
                           THEN Append(state.hits, Hit(i, start + at)) ELSE state.hits
    OBVIOUS
  <2>4. more \in Seq(HitSet)
    <3>1. CASE start + at >= Signatures[i].back
      <4>1. Hit(i, start + at) \in HitSet
        BY <2>1, <3>1, HitPlaced
      <4>. QED BY <1>1, <2>3, <4>1
    <3>2. CASE ~(start + at >= Signatures[i].back)
      BY <1>1, <2>3, <3>2
    <3>. QED BY <3>1, <3>2
  <2>5. Search(w, start, chunk, state, at) = [next |-> at + len, hits |-> more]
    BY <1>3, <2>1, <2>2, <2>3 DEF Search
  <2>. QED BY <2>4, <2>5 DEF SearchStates
<1>. QED BY <1>2, <1>3

(* What is searched of a chunk tells all that begins in it.                *)
LEMMA ChunkTold ==
  ASSUME NEW s \in Seq(Nat), NEW start \in Nat, NEW chunk \in Nat, start <= Len(s)
  PROVE  Tells(s, ChunkHits(s, chunk, start), start, start + chunk)
<1>1. PICK w \in Seq(Nat) : w = Slice(s, start, chunk)
  BY SliceIs
<1>2. PICK n \in Nat : n = Len(w)
  OBVIOUS
<1> DEFINE Next(g, i) == Search(w, start, chunk, g[i - 1], i - 1)
           F == [x \in SearchStates \X (1..n) |-> Search(w, start, chunk, x[1], x[2] - 1)]
           Solves(g) == g = [i \in 0..n |-> IF i = 0 THEN NoHits ELSE Next(g, i)]
<1>3. ASSUME NEW v \in SearchStates, NEW i \in 1..n
      PROVE  Search(w, start, chunk, v, i - 1) \in SearchStates
  BY SearchTyped
<1>4. IsStep(F, SearchStates, 1..n)
  BY <1>3 DEF IsStep
<1>5. NoHits \in SearchStates
  BY DEF NoHits, SearchStates
<1>6. \A v \in SearchStates, i \in 1..n : F[<<v, i>>] = Search(w, start, chunk, v, i - 1)
  OBVIOUS
<1> HIDE DEF F
<1>7. PICK f : Recurs(f, SearchStates, F, NoHits, 0..n)
  BY <1>4, <1>5, RecursionUpto
<1>8. /\ f \in [0..n -> SearchStates] /\ f[0] = NoHits
      /\ \A i \in (0..n) \ {0} : f[i] = F[f[i - 1], i]
  BY <1>7 DEF Recurs
<1>9. Solves(f)
  <2>1. ASSUME NEW i \in 0..n PROVE f[i] = IF i = 0 THEN NoHits ELSE Next(f, i)
    <3>1. CASE i = 0
      BY <1>8, <3>1
    <3>2. CASE i # 0
      <4>1. i \in (0..n) \ {0} /\ i - 1 \in 0..n /\ i \in 1..n
        BY <3>2
      <4>. QED BY <1>6, <1>8, <3>2, <4>1
    <3>. QED BY <3>1, <3>2
  <2>2. f = [i \in 0..n |-> f[i]]
    BY <1>8
  <2> HIDE DEF Next
  <2>. QED BY <2>1, <2>2
<1>10. PICK g : Solves(g) /\ ChunkHits(s, chunk, start) = g[n].hits
  <2>1. ChunkHits(s, chunk, start) = (CHOOSE g : Solves(g))[n].hits
    BY <1>1, <1>2 DEF ChunkHits, Slice
  <2> HIDE DEF Solves
  <2>. QED BY <1>9, <2>1, Zenon
<1>11. g[0] = NoHits /\ \A i \in 1..n : g[i] = Next(g, i)
  <2>1. \A i \in 0..n : g[i] = IF i = 0 THEN NoHits ELSE Next(g, i)
    BY <1>10
  <2>2. 0 \in 0..n /\ \A i \in 1..n : i \in 0..n /\ i # 0
    OBVIOUS
  <2>. QED BY <2>1, <2>2
<1>12. Searched(s, start, chunk, g[0], 0)
  <2>1. Tells(s, <<>>, start, start)
    BY TellsNothing
  <2>2. start + Span(chunk, 0) = start
    BY DEF Span
  <2>. QED BY <1>11, <2>1, <2>2 DEF Searched, NoHits
<1>13. ASSUME NEW i \in Nat, i + 1 <= n, Searched(s, start, chunk, g[i], i)
       PROVE  Searched(s, start, chunk, g[i + 1], i + 1)
  <2>1. i + 1 \in 1..n /\ (i + 1) - 1 = i
    BY <1>13
  <2>2. g[i + 1] = Search(w, start, chunk, g[i], i)
    BY <1>11, <2>1
  <2>3. PICK state : state = g[i]
    OBVIOUS
  <2>. QED BY <1>1, <1>13, <2>2, <2>3, SearchOn
<1>14. Searched(s, start, chunk, g[n], n)
  <2> DEFINE S == {i \in Nat : i <= n => Searched(s, start, chunk, g[i], i)}
  <2>1. 0 \in S
    BY <1>12
  <2>2. ASSUME NEW i \in Nat, i \in S PROVE i + 1 \in S
    BY <1>13, <2>2
  <2>3. Nat \subseteq S
    <3> HIDE DEF S
    <3>. QED BY <2>1, <2>2, NatSetInduction
  <2>. QED BY <2>3
<1>15. Tells(s, g[n].hits, start, start + Span(chunk, n))
  BY <1>14 DEF Searched
<1>16. Span(chunk, n) \in Nat /\ Span(chunk, n) <= chunk
  BY DEF Span
<1>17. \A p \in start + Span(chunk, n)..(start + chunk) - 1 :
         \A i \in Found(s, p) : ~(p >= Signatures[i].back)
  <2> SUFFICES ASSUME NEW p \in start + Span(chunk, n)..(start + chunk) - 1, NEW i \in Found(s, p)
               PROVE  FALSE
    OBVIOUS
  <2>1. PICK at \in Nat : at = p - start /\ at < chunk /\ n <= at /\ start + at = p
    BY DEF Span
  <2>2. i \in Found(w, at) /\ i \in Sigs
    <3>1. Found(w, at) = Found(s, start + at)
      BY <1>1, <2>1, SliceFinds
    <3>. QED BY <2>1, <3>1, SigAt
  <2>3. at + Len(Signatures[i].magic) <= n
    BY <1>2, <2>2 DEF Found, Occurs
  <2>4. PICK len \in Nat : len = Len(Signatures[i].magic) /\ len > 0
    BY <2>2, SigFacts
  <2>. QED BY <2>1, <2>3, <2>4
<1>18. Tells(s, g[n].hits, start, start + chunk)
  <2>1. PICK hits : hits = g[n].hits
    OBVIOUS
  <2>2. PICK mid \in Nat : mid = start + Span(chunk, n) /\ start <= mid /\ mid <= start + chunk
    BY <1>16
  <2>3. start + chunk \in Nat
    OBVIOUS
  <2>. QED BY <1>15, <1>17, <2>1, <2>2, <2>3, TellsFurther
<1>. QED BY <1>10, <1>18

(* All chunks together tell all that begins in the image.                  *)
ChunksOf(s, chunk) == (Len(s) + chunk - 1) \div chunk
Gathered(s, chunk, n) ==
  LET hits[i \in 0..n] ==
        IF i = 0 THEN <<>> ELSE hits[i - 1] \o ChunkHits(s, chunk, (i - 1) * chunk)
  IN  hits[n]

LEMMA ChunksCover ==
  ASSUME NEW size \in Nat, NEW chunk \in Nat \ {0}
  PROVE  LET n == (size + chunk - 1) \div chunk
         IN  n \in Nat /\ size <= n * chunk /\ \A i \in 1..n : (i - 1) * chunk <= size
<1>1. PICK n : n = (size + chunk - 1) \div chunk
  OBVIOUS
<1>2. PICK v \in Nat : v = size + chunk - 1
  OBVIOUS
<1>3. n \in Nat /\ n * chunk <= v /\ v < n * chunk + chunk
  BY <1>1, <1>2
<1>4. PICK m \in Nat : m = n * chunk
  <2>1. \A a, b \in Nat : a * b \in Nat
    OBVIOUS
  <2>. QED BY <1>3, <2>1
<1>5. size <= m
  BY <1>2, <1>3, <1>4
<1>6. ASSUME NEW i \in 1..n PROVE (i - 1) * chunk <= size
  <2>1. (i - 1) * chunk + chunk = i * chunk
    OBVIOUS
  <2>2. i * chunk <= n * chunk
    BY <1>3
  <2>3. PICK k \in Int : k = (i - 1) * chunk
    OBVIOUS
  <2>4. k + chunk <= m
    BY <1>4, <2>1, <2>2, <2>3
  <2>5. m <= v
    BY <1>3, <1>4
  <2>. QED BY <1>2, <2>3, <2>4, <2>5
<1>. QED BY <1>1, <1>3, <1>4, <1>5, <1>6

LEMMA GatheredTells ==
  ASSUME NEW s \in Seq(Nat), NEW chunk \in Nat \ {0}, NEW n \in Nat,
         \A i \in 1..n : (i - 1) * chunk <= Len(s)
  PROVE  Tells(s, Gathered(s, chunk, n), 0, n * chunk)
<1> DEFINE Part(i) == ChunkHits(s, chunk, (i - 1) * chunk)
           F == [x \in Seq(HitSet) \X (1..n) |-> x[1] \o Part(x[2])]
           Solves(g) == g = [i \in 0..n |-> IF i = 0 THEN <<>> ELSE g[i - 1] \o Part(i)]
<1>1. \A i, j \in Nat : i * j \in Nat
  OBVIOUS
<1>2. ASSUME NEW i \in 1..n
      PROVE  Tells(s, Part(i), (i - 1) * chunk, i * chunk) /\ (i - 1) * chunk + chunk = i * chunk
  <2>1. PICK start \in Nat : start = (i - 1) * chunk
    BY <1>1
  <2>2. (i - 1) * chunk + chunk = i * chunk
    OBVIOUS
  <2>3. start <= Len(s)
    BY <2>1
  <2>4. Tells(s, ChunkHits(s, chunk, start), start, start + chunk)
    BY <2>3, ChunkTold
  <2>. QED BY <2>1, <2>2, <2>4
<1>3. \A i \in 1..n : Part(i) \in Seq(HitSet)
  BY <1>2 DEF Tells
<1> HIDE DEF Part
<1>4. IsStep(F, Seq(HitSet), 1..n) /\ <<>> \in Seq(HitSet)
  <2>1. \A v \in Seq(HitSet), i \in 1..n : v \o Part(i) \in Seq(HitSet)
    BY <1>3
  <2>. QED BY <2>1 DEF IsStep
<1>5. \A v \in Seq(HitSet), i \in 1..n : F[<<v, i>>] = v \o Part(i)
  OBVIOUS
<1> HIDE DEF F
<1>6. PICK f : Recurs(f, Seq(HitSet), F, <<>>, 0..n)
  BY <1>4, RecursionUpto
<1>7. /\ f \in [0..n -> Seq(HitSet)] /\ f[0] = <<>>
      /\ \A i \in (0..n) \ {0} : f[i] = F[f[i - 1], i]
  BY <1>6 DEF Recurs
<1>8. Solves(f)
  <2>1. ASSUME NEW i \in 0..n PROVE f[i] = IF i = 0 THEN <<>> ELSE f[i - 1] \o Part(i)
    <3>1. CASE i = 0
      BY <1>7, <3>1
    <3>2. CASE i # 0
      <4>1. i \in (0..n) \ {0} /\ i - 1 \in 0..n /\ i \in 1..n
        BY <3>2
      <4>. QED BY <1>5, <1>7, <3>2, <4>1
    <3>. QED BY <3>1, <3>2
  <2>2. f = [i \in 0..n |-> f[i]]
    BY <1>7
  <2>. QED BY <2>1, <2>2
<1>9. PICK g : Solves(g) /\ Gathered(s, chunk, n) = g[n]
  <2>1. Gathered(s, chunk, n) = (CHOOSE g : Solves(g))[n]
    BY DEF Gathered, Part
  <2> HIDE DEF Solves
  <2>. QED BY <1>8, <2>1, Zenon
<1>10. g[0] = <<>> /\ \A i \in 1..n : g[i] = g[i - 1] \o Part(i)
  <2>1. \A i \in 0..n : g[i] = IF i = 0 THEN <<>> ELSE g[i - 1] \o Part(i)
    BY <1>9
  <2>2. 0 \in 0..n /\ \A i \in 1..n : i \in 0..n /\ i # 0
    OBVIOUS
  <2>. QED BY <2>1, <2>2
<1> DEFINE S == {i \in Nat : i <= n => Tells(s, g[i], 0, i * chunk)}
<1>11. 0 \in S
  <2>1. Tells(s, <<>>, 0, 0) /\ 0 * chunk = 0
    BY TellsNothing
  <2>. QED BY <1>10, <2>1
<1>12. ASSUME NEW i \in Nat, i \in S PROVE i + 1 \in S
  <2> SUFFICES ASSUME i + 1 <= n PROVE Tells(s, g[i + 1], 0, (i + 1) * chunk)
    OBVIOUS
  <2>1. i + 1 \in 1..n /\ (i + 1) - 1 = i /\ i <= n
    OBVIOUS
  <2>2. PICK mid \in Nat : mid = i * chunk
    BY <1>1
  <2>3. PICK hi \in Nat : hi = (i + 1) * chunk
    BY <1>1
  <2>4. PICK front : front = g[i] /\ Tells(s, front, 0, mid)
    BY <1>12, <2>1, <2>2
  <2>5. PICK rear : rear = Part(i + 1) /\ Tells(s, rear, mid, hi) /\ mid + chunk = hi
    BY <1>2, <2>1, <2>2, <2>3
  <2>6. g[i + 1] = front \o rear
    BY <1>10, <2>1, <2>4, <2>5
  <2>7. 0 <= mid /\ mid <= hi
    BY <2>5
  <2>8. Tells(s, front \o rear, 0, hi)
    BY <2>4, <2>5, <2>7, TellsOn
  <2>. QED BY <2>3, <2>6, <2>8
<1>13. n \in S
  <2> HIDE DEF S
  <2>1. Nat \subseteq S
    BY <1>11, <1>12, NatSetInduction
  <2>. QED BY <2>1
<1>. QED BY <1>9, <1>13

LEMMA ImageTold ==
  ASSUME NEW s \in Seq(Nat), NEW chunk \in Nat \ {0}
  PROVE  Tells(s, Gathered(s, chunk, ChunksOf(s, chunk)), 0, Len(s))
<1>1. PICK n \in Nat : /\ n = ChunksOf(s, chunk) /\ Len(s) <= n * chunk
                       /\ \A i \in 1..n : (i - 1) * chunk <= Len(s)
  <2>1. Len(s) \in Nat
    OBVIOUS
  <2>. QED BY <2>1, ChunksCover DEF ChunksOf
<1>2. PICK hits : hits = Gathered(s, chunk, n) /\ Tells(s, hits, 0, n * chunk)
  BY <1>1, GatheredTells
<1>3. PICK hi \in Nat : hi = n * chunk /\ Len(s) <= hi
  <2>1. \A i, j \in Nat : i * j \in Nat
    OBVIOUS
  <2>. QED BY <1>1, <2>1
<1>4. Tells(s, hits, 0, hi)
  BY <1>2, <1>3
<1>5. ASSUME NEW k \in DOMAIN hits PROVE Place(hits[k]) < Len(s)
  <2>1. hits[k] \in HitSet /\ hits[k].sig \in Found(s, Place(hits[k]))
    BY <1>4 DEF Tells
  <2>2. PICK p \in Nat : p = Place(hits[k])
    BY <2>1, PlaceType
  <2>3. PICK i \in Found(s, p) : i \in Sigs
    BY <2>1, <2>2, SigAt
  <2>4. p + Len(Signatures[i].magic) <= Len(s)
    BY <2>3 DEF Found, Occurs
  <2>5. PICK len \in Nat : len = Len(Signatures[i].magic) /\ len > 0
    BY <2>3, SigFacts
  <2>. QED BY <2>2, <2>4, <2>5
<1>6. \A p \in 0..Len(s) - 1 : p \in 0..hi - 1
  BY <1>3
<1>. QED BY <1>1, <1>2, <1>4, <1>5, <1>6 DEF Tells

(* The first of some indices.                                              *)
LEMMA MinIndex ==
  ASSUME NEW n \in Nat, NEW t \in SUBSET (1..n), t # {}
  PROVE  Min(t) \in t /\ \A k \in t : Min(t) <= k
<1>1. t \in SUBSET Nat
  OBVIOUS
<1>2. PICK m \in t : \A k \in t : m <= k
  BY <1>1, NatLeast
<1>. QED BY <1>2 DEF Min

(* The offsets of some hits, each once and in order.                       *)
OffsetsOf(hits) ==
  LET offsets[i \in 0..Len(hits)] ==
        IF i = 0 THEN <<>> ELSE WithOffset(offsets[i - 1], hits[i].offset)
  IN  offsets[Len(hits)]

LEMMA WithOffsetIs ==
  ASSUME NEW s \in Seq(Nat), NEW v \in Nat
  PROVE  /\ WithOffset(s, v) \in Seq(Nat)
         /\ Ascending(s) => /\ Ascending(WithOffset(s, v))
                            /\ Elements(WithOffset(s, v)) = Elements(s) \cup {v}
<1>1. CASE v \in Elements(s)
  <2>1. WithOffset(s, v) = s /\ Elements(s) \cup {v} = Elements(s)
    BY <1>1 DEF WithOffset, Elements
  <2>. QED BY <2>1
<1>2. CASE v \notin Elements(s)
  <2>1. WithOffset(s, v) = Inserted(s, v)
    BY <1>2 DEF WithOffset, Elements
  <2>. QED BY <1>2, <2>1, InsertedTyped, InsertedAscends
<1>. QED BY <1>1, <1>2

LEMMA OffsetsAscend ==
  ASSUME NEW hits \in Seq(HitSet)
  PROVE  /\ OffsetsOf(hits) \in Seq(Nat) /\ Ascending(OffsetsOf(hits))
         /\ Elements(OffsetsOf(hits)) = {hits[k].offset : k \in DOMAIN hits}
<1>1. PICK n \in Nat : n = Len(hits) /\ DOMAIN hits = 1..n
  OBVIOUS
<1> DEFINE At(i) == hits[i].offset
           F == [x \in Seq(Nat) \X (1..n) |-> WithOffset(x[1], At(x[2]))]
           Solves(g) == g = [i \in 0..n |-> IF i = 0 THEN <<>> ELSE WithOffset(g[i - 1], At(i))]
           Some(m) == {At(k) : k \in 1..m}
           Good(v, m) == v \in Seq(Nat) /\ Ascending(v) /\ Elements(v) = Some(m)
<1>2. ASSUME NEW i \in 1..n PROVE At(i) \in Nat
  <2>1. hits[i] \in HitSet
    BY <1>1
  <2>. QED BY <2>1 DEF HitSet
<1>3. OffsetsOf(hits) = (CHOOSE g : Solves(g))[n] /\ Some(n) = {hits[k].offset : k \in DOMAIN hits}
  BY <1>1 DEF OffsetsOf
<1> HIDE DEF At
<1>4. IsStep(F, Seq(Nat), 1..n) /\ <<>> \in Seq(Nat)
  <2>1. \A v \in Seq(Nat), i \in 1..n : WithOffset(v, At(i)) \in Seq(Nat)
    BY <1>2, WithOffsetIs
  <2>. QED BY <2>1 DEF IsStep
<1>5. \A v \in Seq(Nat), i \in 1..n : F[<<v, i>>] = WithOffset(v, At(i))
  OBVIOUS
<1> HIDE DEF F
<1>6. PICK f : Recurs(f, Seq(Nat), F, <<>>, 0..n)
  BY <1>4, RecursionUpto
<1>7. /\ f \in [0..n -> Seq(Nat)] /\ f[0] = <<>>
      /\ \A i \in (0..n) \ {0} : f[i] = F[f[i - 1], i]
  BY <1>6 DEF Recurs
<1>8. Solves(f)
  <2>1. ASSUME NEW i \in 0..n PROVE f[i] = IF i = 0 THEN <<>> ELSE WithOffset(f[i - 1], At(i))
    <3>1. CASE i = 0
      BY <1>7, <3>1
    <3>2. CASE i # 0
      <4>1. i \in (0..n) \ {0} /\ i - 1 \in 0..n /\ i \in 1..n
        BY <3>2
      <4>. QED BY <1>5, <1>7, <3>2, <4>1
    <3>. QED BY <3>1, <3>2
  <2>2. f = [i \in 0..n |-> f[i]]
    BY <1>7
  <2>. QED BY <2>1, <2>2
<1>9. PICK g : Solves(g) /\ OffsetsOf(hits) = g[n]
  <2> HIDE DEF Solves
  <2>. QED BY <1>3, <1>8, Zenon
<1>10. g[0] = <<>> /\ \A i \in 1..n : g[i] = WithOffset(g[i - 1], At(i))
  <2>1. \A i \in 0..n : g[i] = IF i = 0 THEN <<>> ELSE WithOffset(g[i - 1], At(i))
    BY <1>9
  <2>2. 0 \in 0..n /\ \A i \in 1..n : i \in 0..n /\ i # 0
    OBVIOUS
  <2>. QED BY <2>1, <2>2
<1>11. Good(g[0], 0)
  <2>1. <<>> \in Seq(Nat) /\ Ascending(<<>>) /\ Elements(<<>>) = {} /\ Some(0) = {}
    BY DEF Ascending, Elements
  <2>. QED BY <1>10, <2>1
<1>12. ASSUME NEW i \in Nat, i + 1 <= n, Good(g[i], i) PROVE Good(g[i + 1], i + 1)
  <2>1. PICK v \in Seq(Nat) : v = g[i] /\ Ascending(v) /\ Elements(v) = Some(i)
    BY <1>12
  <2>2. i + 1 \in 1..n /\ (i + 1) - 1 = i
    BY <1>12
  <2>3. PICK e \in Nat : e = At(i + 1)
    BY <1>2, <2>2
  <2>4. g[i + 1] = WithOffset(v, e)
    BY <1>10, <2>1, <2>2, <2>3
  <2>5. Some(i + 1) = Some(i) \cup {e}
    <3>1. \A k : k \in 1..i + 1 <=> k \in 1..i \/ k = i + 1
      OBVIOUS
    <3>. QED BY <2>3, <3>1
  <2> HIDE DEF Some
  <2>. QED BY <2>1, <2>4, <2>5, WithOffsetIs
<1> HIDE DEF Good
<1>13. Good(g[n], n)
  <2> DEFINE S == {i \in Nat : i <= n => Good(g[i], i)}
  <2>1. 0 \in S
    BY <1>11
  <2>2. ASSUME NEW i \in Nat, i \in S PROVE i + 1 \in S
    BY <1>12, <2>2
  <2>3. Nat \subseteq S
    <3> HIDE DEF S
    <3>. QED BY <2>1, <2>2, NatSetInduction
  <2>. QED BY <2>3
<1>14. OffsetsOf(hits) \in Seq(Nat) /\ Ascending(OffsetsOf(hits)) /\ Elements(OffsetsOf(hits)) = Some(n)
  BY <1>9, <1>13 DEF Good
<1>. QED BY <1>3, <1>14

(* Of the hits with one offset the first is kept.                          *)
IsFirst(hits, m) ==
  m \in DOMAIN hits /\ \A j \in DOMAIN hits : hits[j].offset = hits[m].offset => m <= j
Deduped(hits, kept) ==
  /\ kept \in Seq(HitSet)
  /\ \A j, k \in DOMAIN kept : j < k => kept[j].offset < kept[k].offset
  /\ \A k \in DOMAIN kept : \E m : IsFirst(hits, m) /\ kept[k] = hits[m]
  /\ \A m : IsFirst(hits, m) => \E k \in DOMAIN kept : kept[k] = hits[m]

LEMMA HitsDeduped ==
  ASSUME NEW hits \in Seq(HitSet)
  PROVE  Deduped(hits, DedupHits(hits))
<1>1. PICK n \in Nat : n = Len(hits) /\ DOMAIN hits = 1..n
  OBVIOUS
<1>2. PICK sorted \in Seq(Nat) :
        /\ sorted = OffsetsOf(hits) /\ Ascending(sorted)
        /\ Elements(sorted) = {hits[k].offset : k \in DOMAIN hits}
  BY OffsetsAscend
<1>3. PICK kept : kept = DedupHits(hits)
  OBVIOUS
<1> DEFINE First(v) == Min({j \in DOMAIN hits : hits[j].offset = v})
<1>4. kept = [k \in DOMAIN sorted |-> hits[First(sorted[k])]]
  BY <1>2, <1>3 DEF DedupHits, OffsetsOf
<1>5. ASSUME NEW v \in Elements(sorted)
      PROVE  First(v) \in DOMAIN hits /\ hits[First(v)].offset = v /\ IsFirst(hits, First(v))
  <2>1. PICK t : t = {j \in DOMAIN hits : hits[j].offset = v}
    OBVIOUS
  <2>2. t \in SUBSET (1..n) /\ t # {}
    BY <1>1, <1>2, <2>1
  <2>3. Min(t) \in t /\ \A j \in t : Min(t) <= j
    BY <2>2, MinIndex
  <2>4. PICK m \in t : m = First(v) /\ \A j \in t : m <= j
    BY <2>1, <2>3
  <2>. QED BY <2>1, <2>4 DEF IsFirst
<1>6. PICK len \in Nat : len = Len(sorted) /\ DOMAIN sorted = 1..len
  OBVIOUS
<1> HIDE DEF First
<1>7. ASSUME NEW k \in 1..len
      PROVE  /\ sorted[k] \in Elements(sorted) /\ kept[k] = hits[First(sorted[k])]
             /\ kept[k] \in HitSet /\ kept[k].offset = sorted[k]
  <2>1. sorted[k] \in Elements(sorted)
    BY <1>6 DEF Elements
  <2>2. PICK m \in DOMAIN hits : m = First(sorted[k]) /\ hits[m].offset = sorted[k]
    BY <1>5, <2>1
  <2>3. hits[m] \in HitSet
    BY <1>1
  <2>. QED BY <1>4, <1>6, <2>1, <2>2, <2>3
<1>8. kept \in Seq(HitSet) /\ DOMAIN kept = 1..len
  <2>1. kept = [k \in 1..len |-> kept[k]]
    BY <1>4, <1>6
  <2>2. \A k \in 1..len : kept[k] \in HitSet
    BY <1>7
  <2>3. kept \in [1..len -> HitSet]
    BY <2>1, <2>2
  <2>. QED BY <2>3
<1>9. \A j, k \in DOMAIN kept : j < k => kept[j].offset < kept[k].offset
  BY <1>2, <1>6, <1>7, <1>8 DEF Ascending
<1>10. ASSUME NEW k \in DOMAIN kept PROVE \E m : IsFirst(hits, m) /\ kept[k] = hits[m]
  BY <1>5, <1>7, <1>8
<1>11. ASSUME NEW m, IsFirst(hits, m) PROVE \E k \in DOMAIN kept : kept[k] = hits[m]
  <2>1. m \in DOMAIN hits /\ hits[m].offset \in Elements(sorted)
    BY <1>2, <1>11 DEF IsFirst
  <2>2. PICK k \in 1..len : sorted[k] = hits[m].offset
    BY <1>6, <2>1 DEF Elements
  <2>3. PICK j \in DOMAIN hits : j = First(sorted[k]) /\ hits[j].offset = sorted[k] /\ IsFirst(hits, j)
    BY <1>5, <1>7, <2>2
  <2>4. j = m
    <3>1. j <= m /\ m <= j /\ j \in 1..n /\ m \in 1..n
      BY <1>1, <1>11, <2>1, <2>2, <2>3 DEF IsFirst
    <3>. QED BY <3>1
  <2>. QED BY <1>7, <1>8, <2>2, <2>3, <2>4
<1>. QED BY <1>3, <1>8, <1>9, <1>10, <1>11 DEF Deduped

(* Carving an image: what begins in it first, once and in order.           *)
LEMMA OffsetOf ==
  ASSUME NEW s, NEW h \in HitSet, h.sig \in Found(s, Place(h))
  PROVE  /\ h.sig \in DOMAIN Signatures /\ Occurs(Signatures[h.sig].magic, s, Place(h))
         /\ Place(h) - Signatures[h.sig].back = h.offset
         /\ Place(h) >= Signatures[h.sig].back
         /\ h.offset \in Nat /\ Place(h) \in Nat
<1>1. h.offset \in Nat /\ h.sig \in Sigs
  BY DEF HitSet
<1>2. PICK b \in Nat : b = Signatures[h.sig].back
  BY <1>1, SigFacts
<1>3. Place(h) = h.offset + b
  BY <1>2 DEF Place
<1>. QED BY <1>1, <1>2, <1>3 DEF Found

(* The signatures of an image whose files begin in it, and those of them   *)
(* of whose offsets no other is told before.                               *)
Beginnings(s) ==
  {f \in (0..Len(s)) \X DOMAIN Signatures :
     /\ Occurs(Signatures[f[2]].magic, s, f[1])
     /\ f[1] >= Signatures[f[2]].back}
Offset(f) == f[1] - Signatures[f[2]].back
Firsts(s) ==
  {f \in Beginnings(s) : \A g \in Beginnings(s) : Offset(g) = Offset(f) => f[1] <= g[1]}

(* A hit that is told is a beginning, and every beginning is told.         *)
LEMMA TellsBeginnings ==
  ASSUME NEW s \in Seq(Nat), NEW hits, Tells(s, hits, 0, Len(s))
  PROVE  /\ \A k \in DOMAIN hits :
              /\ <<Place(hits[k]), hits[k].sig>> \in Beginnings(s)
              /\ Offset(<<Place(hits[k]), hits[k].sig>>) = hits[k].offset
         /\ \A f \in Beginnings(s) : \E k \in DOMAIN hits :
              /\ Place(hits[k]) = f[1] /\ hits[k].sig = f[2] /\ hits[k].offset = Offset(f)
<1>1. ASSUME NEW k \in DOMAIN hits
      PROVE  /\ <<Place(hits[k]), hits[k].sig>> \in Beginnings(s)
             /\ Offset(<<Place(hits[k]), hits[k].sig>>) = hits[k].offset
  <2>1. PICK h \in HitSet : h = hits[k] /\ h.sig \in Found(s, Place(h)) /\ Place(h) < Len(s)
    BY DEF Tells
  <2>2. /\ h.sig \in DOMAIN Signatures /\ Occurs(Signatures[h.sig].magic, s, Place(h))
        /\ Place(h) - Signatures[h.sig].back = h.offset
        /\ Place(h) >= Signatures[h.sig].back
        /\ h.offset \in Nat /\ Place(h) \in Nat
    BY <2>1, OffsetOf
  <2>3. PICK f : f = <<Place(h), h.sig>> /\ f[1] = Place(h) /\ f[2] = h.sig
    <3>1. PICK p, i : p = Place(h) /\ i = h.sig
      OBVIOUS
    <3>2. <<p, i>>[1] = p /\ <<p, i>>[2] = i
      OBVIOUS
    <3>. QED BY <3>1, <3>2
  <2>4. f \in (0..Len(s)) \X DOMAIN Signatures
    BY <2>1, <2>2, <2>3
  <2>. QED BY <2>1, <2>2, <2>3, <2>4 DEF Beginnings, Offset
<1>2. ASSUME NEW f \in Beginnings(s)
      PROVE  \E k \in DOMAIN hits :
               Place(hits[k]) = f[1] /\ hits[k].sig = f[2] /\ hits[k].offset = Offset(f)
  <2>1. PICK p \in 0..Len(s), i \in DOMAIN Signatures :
          /\ p = f[1] /\ i = f[2] /\ Occurs(Signatures[i].magic, s, p) /\ p >= Signatures[i].back
    BY DEF Beginnings
  <2>2. i \in Sigs /\ i \in Found(s, p)
    BY <2>1, SigFacts DEF Found
  <2>3. PICK len \in Nat : len = Len(Signatures[i].magic) /\ len > 0
    BY <2>2, SigFacts
  <2>4. p + len <= Len(s)
    BY <2>1, <2>3 DEF Occurs
  <2>5. p \in 0..Len(s) - 1
    BY <2>1, <2>3, <2>4
  <2>6. PICK k \in DOMAIN hits : hits[k] = Hit(i, p)
    BY <2>1, <2>2, <2>5 DEF Tells
  <2>7. Place(Hit(i, p)) = p /\ Hit(i, p).sig = i
    BY <2>1, <2>2, HitPlaced
  <2>8. Hit(i, p).offset = Offset(f)
    BY <2>1 DEF Hit, Offset
  <2>. QED BY <2>1, <2>6, <2>7, <2>8
<1>. QED BY <1>1, <1>2

Told(s, kept) ==
  /\ kept \in Seq(HitSet)
  /\ {<<kept[k].offset, kept[k].sig>> : k \in DOMAIN kept} = {<<Offset(f), f[2]>> : f \in Firsts(s)}
  /\ \A j, k \in DOMAIN kept : j < k => kept[j].offset < kept[k].offset

LEMMA ImageCarved ==
  ASSUME NEW s \in Seq(Nat), NEW chunk \in Nat \ {0}
  PROVE  Told(s, CarveImage(s, chunk))
<1>1. PICK hits : /\ hits = Gathered(s, chunk, ChunksOf(s, chunk))
                  /\ Tells(s, hits, 0, Len(s))
  BY ImageTold
<1>2. PICK kept : kept = DedupHits(hits)
  OBVIOUS
<1>3. CarveImage(s, chunk) = kept
  BY <1>1, <1>2 DEF CarveImage, Gathered, ChunksOf
<1>4. hits \in Seq(HitSet) /\ Deduped(hits, kept)
  BY <1>1, <1>2, HitsDeduped DEF Tells
<1>5. PICK n \in Nat : n = Len(hits) /\ DOMAIN hits = 1..n
  BY <1>4
<1>6. ASSUME NEW j \in 1..n, NEW k \in 1..n, Place(hits[k]) <= Place(hits[j]) PROVE k <= j
  <2>1. hits[j] \in HitSet /\ hits[k] \in HitSet
    BY <1>4, <1>5
  <2>2. Place(hits[j]) \in Nat /\ Place(hits[k]) \in Nat
    BY <2>1, PlaceType
  <2>3. j < k => Place(hits[j]) < Place(hits[k])
    BY <1>1, <1>5 DEF Tells
  <2>. QED BY <1>6, <2>2, <2>3
<1>7. ASSUME NEW j \in 1..n, NEW k \in 1..n, k <= j PROVE Place(hits[k]) <= Place(hits[j])
  <2>1. hits[j] \in HitSet /\ hits[k] \in HitSet
    BY <1>4, <1>5
  <2>2. Place(hits[j]) \in Nat /\ Place(hits[k]) \in Nat
    BY <2>1, PlaceType
  <2>3. k < j => Place(hits[k]) < Place(hits[j])
    BY <1>1, <1>5 DEF Tells
  <2>. QED BY <1>7, <2>2, <2>3
<1>8. ASSUME NEW m \in 1..n, IsFirst(hits, m)
      PROVE  <<hits[m].offset, hits[m].sig>> \in {<<Offset(f), f[2]>> : f \in Firsts(s)}
  <2>1. PICK f : f = <<Place(hits[m]), hits[m].sig>>
    OBVIOUS
  <2>2. f \in Beginnings(s) /\ Offset(f) = hits[m].offset /\ f[1] = Place(hits[m]) /\ f[2] = hits[m].sig
    BY <1>1, <1>5, <2>1, TellsBeginnings
  <2>3. ASSUME NEW g \in Beginnings(s), Offset(g) = Offset(f) PROVE f[1] <= g[1]
    <3>1. PICK k \in 1..n : Place(hits[k]) = g[1] /\ hits[k].offset = Offset(g)
      BY <1>1, <1>5, TellsBeginnings
    <3>2. m <= k
      BY <1>5, <1>8, <2>2, <2>3, <3>1 DEF IsFirst
    <3>. QED BY <1>7, <2>2, <3>1, <3>2
  <2>. QED BY <2>2, <2>3 DEF Firsts
<1>9. ASSUME NEW f \in Firsts(s)
      PROVE  \E m \in 1..n : IsFirst(hits, m) /\ hits[m].offset = Offset(f) /\ hits[m].sig = f[2]
  <2>1. f \in Beginnings(s) /\ \A g \in Beginnings(s) : Offset(g) = Offset(f) => f[1] <= g[1]
    BY DEF Firsts
  <2>2. PICK m \in 1..n : /\ Place(hits[m]) = f[1] /\ hits[m].sig = f[2]
                          /\ hits[m].offset = Offset(f)
    <3>1. \A g \in Beginnings(s) : \E k \in DOMAIN hits :
            Place(hits[k]) = g[1] /\ hits[k].sig = g[2] /\ hits[k].offset = Offset(g)
      BY <1>1, TellsBeginnings
    <3>. QED BY <1>5, <2>1, <3>1
  <2>3. ASSUME NEW j \in 1..n, hits[j].offset = hits[m].offset PROVE m <= j
    <3>1. PICK g : g = <<Place(hits[j]), hits[j].sig>>
      OBVIOUS
    <3>2. g \in Beginnings(s) /\ Offset(g) = hits[j].offset /\ g[1] = Place(hits[j])
      BY <1>1, <1>5, <3>1, TellsBeginnings
    <3>3. Place(hits[m]) <= Place(hits[j])
      BY <2>1, <2>2, <2>3, <3>2
    <3>. QED BY <1>6, <3>3
  <2>. QED BY <1>5, <2>2, <2>3 DEF IsFirst
<1>10. {<<kept[k].offset, kept[k].sig>> : k \in DOMAIN kept} = {<<Offset(f), f[2]>> : f \in Firsts(s)}
  <2>1. ASSUME NEW k \in DOMAIN kept
        PROVE  <<kept[k].offset, kept[k].sig>> \in {<<Offset(f), f[2]>> : f \in Firsts(s)}
    <3>1. PICK m : IsFirst(hits, m) /\ kept[k] = hits[m]
      BY <1>4 DEF Deduped
    <3>2. m \in 1..n
      BY <1>5, <3>1 DEF IsFirst
    <3>. QED BY <1>8, <3>1, <3>2
  <2>2. ASSUME NEW f \in Firsts(s)
        PROVE  <<Offset(f), f[2]>> \in {<<kept[k].offset, kept[k].sig>> : k \in DOMAIN kept}
    <3>1. PICK m \in 1..n : IsFirst(hits, m) /\ hits[m].offset = Offset(f) /\ hits[m].sig = f[2]
      BY <1>9
    <3>2. PICK k \in DOMAIN kept : kept[k] = hits[m]
      BY <1>4, <3>1 DEF Deduped
    <3>. QED BY <3>1, <3>2
  <2>. QED BY <2>1, <2>2
<1>. QED BY <1>3, <1>4, <1>10 DEF Told, Deduped

(* A piece of a sequence, element by element.                              *)
LEMMA CutIs ==
  ASSUME NEW s \in Seq(Nat), NEW off \in Nat, NEW len \in Nat, off + len <= Len(s)
  PROVE  /\ SubSeq(s, off + 1, off + len) \in Seq(Nat)
         /\ Len(SubSeq(s, off + 1, off + len)) = len
         /\ \A k \in 1..len : SubSeq(s, off + 1, off + len)[k] = s[off + k]
<1>1. \A k \in off + 1..off + len : s[k] \in Nat
  OBVIOUS
<1>2. PICK w : w = SubSeq(s, off + 1, off + len)
  OBVIOUS
<1>3. off + 1 \in Int /\ off + len \in Int
  OBVIOUS
<1>4. /\ w \in Seq(Nat) /\ Len(w) = IF off + 1 <= off + len THEN (off + len) - (off + 1) + 1 ELSE 0
      /\ \A k \in 1..(off + len) - (off + 1) + 1 : w[k] = s[off + 1 + k - 1]
  BY <1>1, <1>2, <1>3, SubSeqProperties
<1>5. Len(w) = len
  BY <1>4
<1>6. ASSUME NEW k \in 1..len PROVE w[k] = s[off + k]
  <2>1. k \in 1..(off + len) - (off + 1) + 1 /\ off + 1 + k - 1 = off + k
    OBVIOUS
  <2>. QED BY <1>4, <2>1
<1>. QED BY <1>2, <1>4, <1>5, <1>6

(* What is extracted has the file of every hit that is long enough.        *)
LEMMA ExtractHas ==
  ASSUME NEW s, NEW hits \in Seq(HitSet), NEW at \in DOMAIN hits,
         hits[at].offset < Len(s), CarvedLength(s, hits[at]) >= MinLength
  PROVE  \E k \in DOMAIN ExtractCarved(s, hits) : ExtractCarved(s, hits)[k] = FileOf(s, hits[at])
<1>1. PICK n \in Nat : n = Len(hits) /\ DOMAIN hits = 1..n
  OBVIOUS
<1> DEFINE File(i) == FileOf(s, hits[i])
           Keeps(i) == hits[i].offset < Len(s) /\ CarvedLength(s, hits[i]) >= MinLength
           Next(v, i) == IF Keeps(i) THEN Append(v, File(i)) ELSE v
           Files == {File(i) : i \in 1..n}
           F == [x \in Seq(Files) \X (1..n) |-> Next(x[1], x[2])]
           Solves(g) == g = [i \in 0..n |-> IF i = 0 THEN <<>> ELSE WithFile(g[i - 1], s, hits[i])]
           Has(v) == \E k \in DOMAIN v : v[k] = File(at)
<1>2. ExtractCarved(s, hits) = (CHOOSE g : Solves(g))[n] /\ Keeps(at)
  BY <1>1 DEF ExtractCarved
<1>3. \A v, i : WithFile(v, s, hits[i]) = Next(v, i)
  BY DEF WithFile
<1>4. \A i \in 1..n : File(i) \in Files
  OBVIOUS
<1> HIDE DEF File, Keeps, Files
<1>5. \A v \in Seq(Files), i \in 1..n : Next(v, i) \in Seq(Files)
  BY <1>4
<1>6. IsStep(F, Seq(Files), 1..n) /\ <<>> \in Seq(Files)
  <2> HIDE DEF Next
  <2>. QED BY <1>5 DEF IsStep
<1>7. \A v \in Seq(Files), i \in 1..n : F[<<v, i>>] = Next(v, i)
  OBVIOUS
<1> HIDE DEF F
<1>8. PICK f : Recurs(f, Seq(Files), F, <<>>, 0..n)
  BY <1>6, RecursionUpto
<1>9. /\ f \in [0..n -> Seq(Files)] /\ f[0] = <<>>
      /\ \A i \in (0..n) \ {0} : f[i] = F[f[i - 1], i]
  BY <1>8 DEF Recurs
<1> HIDE DEF Next
<1>10. Solves(f)
  <2>1. ASSUME NEW i \in 0..n PROVE f[i] = IF i = 0 THEN <<>> ELSE WithFile(f[i - 1], s, hits[i])
    <3>1. CASE i = 0
      BY <1>9, <3>1
    <3>2. CASE i # 0
      <4>1. i \in (0..n) \ {0} /\ i - 1 \in 0..n /\ i \in 1..n
        BY <3>2
      <4>2. f[i - 1] \in Seq(Files) /\ f[i] = F[f[i - 1], i]
        BY <1>9, <4>1
      <4>3. f[i] = Next(f[i - 1], i)
        BY <1>7, <4>1, <4>2
      <4>4. WithFile(f[i - 1], s, hits[i]) = Next(f[i - 1], i)
        BY <1>3
      <4>. QED BY <3>2, <4>3, <4>4
    <3>. QED BY <3>1, <3>2
  <2>2. f = [i \in 0..n |-> f[i]]
    BY <1>9
  <2>. QED BY <2>1, <2>2
<1>11. PICK g : Solves(g) /\ ExtractCarved(s, hits) = g[n]
  <2> HIDE DEF Solves
  <2>. QED BY <1>2, <1>10, Zenon
<1>12. g[0] = <<>> /\ \A i \in 1..n : g[i] = Next(g[i - 1], i)
  <2>1. \A i \in 0..n : g[i] = IF i = 0 THEN <<>> ELSE Next(g[i - 1], i)
    BY <1>3, <1>11
  <2>2. 0 \in 0..n /\ \A i \in 1..n : i \in 0..n /\ i # 0
    OBVIOUS
  <2>. QED BY <2>1, <2>2
<1> DEFINE S == {i \in Nat : i <= n => g[i] \in Seq(Files) /\ (at <= i => Has(g[i]))}
<1>13. 0 \in S
  <2>1. at \in 1..n /\ ~(at <= 0)
    BY <1>1
  <2> HIDE DEF Has
  <2>. QED BY <1>6, <1>12, <2>1
<1>14. ASSUME NEW i \in Nat, i \in S PROVE i + 1 \in S
  <2> SUFFICES ASSUME i + 1 <= n
               PROVE  g[i + 1] \in Seq(Files) /\ (at <= i + 1 => Has(g[i + 1]))
    OBVIOUS
  <2>1. i + 1 \in 1..n /\ (i + 1) - 1 = i /\ i <= n
    OBVIOUS
  <2>2. PICK v \in Seq(Files) : v = g[i] /\ (at <= i => Has(v))
    BY <1>14, <2>1
  <2>3. PICK w : w = Next(v, i + 1) /\ w = g[i + 1]
    BY <1>12, <2>1, <2>2
  <2>4. w \in Seq(Files)
    BY <1>5, <2>1, <2>3
  <2>5. ASSUME at <= i + 1 PROVE Has(w)
    <3>1. PICK len \in Nat : len = Len(v) /\ DOMAIN v = 1..len
      OBVIOUS
    <3>2. CASE Keeps(i + 1)
      <4>1. PICK e \in Files : e = File(i + 1)
        BY <1>4, <2>1
      <4>2. w = Append(v, e)
        BY <2>3, <3>2, <4>1 DEF Next
      <4>3. /\ DOMAIN w = 1..len + 1 /\ w[len + 1] = e
            /\ \A k \in 1..len : w[k] = v[k]
        BY <3>1, <4>2
      <4>4. CASE at = i + 1
        BY <4>1, <4>3, <4>4
      <4>5. CASE at # i + 1
        <5>1. at <= i
          BY <1>1, <2>5, <4>5
        <5>2. PICK k \in 1..len : v[k] = File(at)
          BY <2>2, <3>1, <5>1
        <5>3. k \in 1..len + 1 /\ w[k] = v[k]
          BY <4>3
        <5>. QED BY <4>3, <5>2, <5>3
      <4>. QED BY <4>4, <4>5
    <3>3. CASE ~Keeps(i + 1)
      <4>1. w = v
        BY <2>3, <3>3 DEF Next
      <4>2. at # i + 1
        BY <1>2, <3>3
      <4>. QED BY <1>1, <2>2, <2>5, <4>1, <4>2
    <3>. QED BY <3>2, <3>3
  <2>. QED BY <2>3, <2>4, <2>5
<1>15. n \in S
  <2> HIDE DEF S
  <2>1. Nat \subseteq S
    BY <1>13, <1>14, NatSetInduction
  <2>. QED BY <2>1
<1>. QED BY <1>1, <1>11, <1>15 DEF File

(* A header that is there.                                                 *)
SaysSize(w, at, size) ==
  w[at + 1] = size \/ (w[at + 1] = 1 /\ size >= 4 /\ WideAt(w, at + 3) = size)
Heading(h, w, at, size) == h.valid /\ h.type = w[at + 2] /\ h.total = size
LEMMA BoxHeader ==
  ASSUME NEW w \in Seq(Nat), NEW at \in Nat, NEW size \in Nat, at + size <= Len(w), size >= 2,
         SaysSize(w, at, size), NEW h, h = HeaderAt(w, at)
  PROVE  Heading(h, w, at, size)
<1>1. PICK type : type = w[at + 2]
  OBVIOUS
<1>2. PICK wide : wide = w[at + 3] * WordTop + w[at + 4]
  OBVIOUS
<1>3. PICK first \in Nat : first = w[at + 1]
  <2>1. at + 1 \in 1..Len(w)
    OBVIOUS
  <2>. QED BY <2>1
<1>4. ~(at + 2 > Len(w)) /\ (size >= 4 => ~(at + 4 > Len(w)))
  OBVIOUS
<1>5. h = CASE first = 0 -> [type |-> type, header |-> 2, total |-> Len(w) - at, valid |-> TRUE]
            [] first = 1 -> IF at + 4 > Len(w) THEN NoHeader
                            ELSE [type |-> type, header |-> 4, total |-> wide, valid |-> TRUE]
            [] OTHER     -> [type |-> type, header |-> 2, total |-> first, valid |-> TRUE]
  BY <1>1, <1>2, <1>3, <1>4 DEF HeaderAt
<1>6. CASE first = size
  <2>1. h = [type |-> type, header |-> 2, total |-> first, valid |-> TRUE]
    BY <1>5, <1>6
  <2>. QED BY <1>1, <1>6, <2>1 DEF Heading
<1>7. CASE first = 1 /\ size >= 4 /\ WideAt(w, at + 3) = size
  <2>1. wide = size
    <3>1. (at + 3) + 1 = at + 4
      OBVIOUS
    <3>. QED BY <1>2, <1>7, <3>1 DEF WideAt
  <2>2. h = [type |-> type, header |-> 4, total |-> wide, valid |-> TRUE]
    BY <1>4, <1>5, <1>7
  <2>. QED BY <1>1, <2>1, <2>2 DEF Heading
<1>8. first = size \/ (first = 1 /\ size >= 4 /\ WideAt(w, at + 3) = size)
  BY <1>3 DEF SaysSize
<1>. QED BY <1>6, <1>7, <1>8

LEMMA HeaderTyped ==
  ASSUME NEW w \in Seq(Nat), NEW at \in Nat, NEW h, h = HeaderAt(w, at)
  PROVE  /\ h.type \in Nat /\ h.total \in Nat
         /\ h.valid => at + 2 <= Len(w) /\ h.type = w[at + 2]
<1>1. CASE at + 2 > Len(w)
  <2>1. h = [type |-> 0, header |-> 0, total |-> 0, valid |-> FALSE]
    BY <1>1 DEF HeaderAt, NoHeader
  <2>. QED BY <2>1
<1>2. CASE ~(at + 2 > Len(w))
  <2>1. PICK first, type \in Nat : first = w[at + 1] /\ type = w[at + 2]
    <3>1. at + 1 \in 1..Len(w) /\ at + 2 \in 1..Len(w)
      BY <1>2
    <3>. QED BY <3>1
  <2>2. PICK rest \in Nat : rest = Len(w) - at
    BY <1>2
  <2>3. PICK wide : wide = w[at + 3] * WordTop + w[at + 4]
    OBVIOUS
  <2>4. ~(at + 4 > Len(w)) => wide \in Nat
    <3> SUFFICES ASSUME ~(at + 4 > Len(w)) PROVE wide \in Nat
      OBVIOUS
    <3>1. PICK x, y, top \in Nat : x = w[at + 3] /\ y = w[at + 4] /\ top = WordTop
      <4>1. at + 3 \in 1..Len(w) /\ at + 4 \in 1..Len(w)
        OBVIOUS
      <4>. QED BY <4>1, Mp4Assumption
    <3>2. x * top + y \in Nat
      OBVIOUS
    <3>. QED BY <2>3, <3>1, <3>2
  <2>5. h = CASE first = 0 -> [type |-> type, header |-> 2, total |-> rest, valid |-> TRUE]
              [] first = 1 -> IF at + 4 > Len(w) THEN NoHeader
                              ELSE [type |-> type, header |-> 4, total |-> wide, valid |-> TRUE]
              [] OTHER     -> [type |-> type, header |-> 2, total |-> first, valid |-> TRUE]
    BY <1>2, <2>1, <2>2, <2>3 DEF HeaderAt
  <2>6. CASE first = 0
    BY <1>2, <2>1, <2>2, <2>5, <2>6
  <2>7. CASE first = 1 /\ at + 4 > Len(w)
    <3>1. h = [type |-> 0, header |-> 0, total |-> 0, valid |-> FALSE]
      BY <2>5, <2>7 DEF NoHeader
    <3>. QED BY <3>1
  <2>8. CASE first = 1 /\ ~(at + 4 > Len(w))
    BY <1>2, <2>1, <2>4, <2>5, <2>8
  <2>9. CASE first # 0 /\ first # 1
    BY <1>2, <2>1, <2>5, <2>9
  <2>. QED BY <2>6, <2>7, <2>8, <2>9
<1>. QED BY <1>1, <1>2

(* The walk of validate, turn by turn.                                     *)
BoxInfo == [type : Nat, offset : Nat, size : Nat]
Walks == [off : Nat, boxes : Seq(BoxInfo)]
LEMMA NextTyped ==
  ASSUME NEW w \in Seq(Nat), NEW walk \in Walks
  PROVE  NextBox(w, walk) \in Walks
<1>1. PICK off \in Nat, boxes \in Seq(BoxInfo) : walk.off = off /\ walk.boxes = boxes
  BY DEF Walks
<1>2. PICK h : h = HeaderAt(w, off)
  OBVIOUS
<1>3. PICK type, total \in Nat : h.type = type /\ h.total = total
  BY <1>2, HeaderTyped
<1>4. PICK box \in BoxInfo : box = [type |-> type, offset |-> off, size |-> total]
  BY DEF BoxInfo
<1>5. Append(boxes, box) \in Seq(BoxInfo) /\ off + total \in Nat
  OBVIOUS
<1>6. [off |-> off + total, boxes |-> Append(boxes, box)] \in Walks
  BY <1>5 DEF Walks
<1>. QED BY <1>1, <1>2, <1>3, <1>4, <1>6 DEF NextBox

LEMMA WalkIs ==
  ASSUME NEW w \in Seq(Nat), NEW n \in Nat, n = Len(w)
  PROVE  \E walk \in [0..n -> Walks] :
           /\ Boxes(w) = walk[n].boxes /\ walk[0] = NoBoxes
           /\ \A i \in 1..n : walk[i] = NextBox(w, walk[i - 1])
<1> DEFINE F == [x \in Walks \X (1..n) |-> NextBox(w, x[1])]
           Solves(g) == g = [i \in 0..n |-> IF i = 0 THEN NoBoxes ELSE NextBox(w, g[i - 1])]
<1>1. IsStep(F, Walks, 1..n)
  BY NextTyped DEF IsStep
<1>2. NoBoxes \in Walks
  BY DEF NoBoxes, Walks
<1>3. \A v \in Walks, i \in 1..n : F[<<v, i>>] = NextBox(w, v)
  OBVIOUS
<1> HIDE DEF F
<1>4. PICK f : Recurs(f, Walks, F, NoBoxes, 0..n)
  BY <1>1, <1>2, RecursionUpto
<1>5. /\ f \in [0..n -> Walks] /\ f[0] = NoBoxes
      /\ \A i \in (0..n) \ {0} : f[i] = F[f[i - 1], i]
  BY <1>4 DEF Recurs
<1>6. \A i \in 1..n : f[i] = NextBox(w, f[i - 1])
  <2> SUFFICES ASSUME NEW i \in 1..n PROVE f[i] = NextBox(w, f[i - 1])
    OBVIOUS
  <2>1. i \in (0..n) \ {0} /\ i - 1 \in 0..n
    OBVIOUS
  <2>. QED BY <1>3, <1>5, <2>1
<1>7. Solves(f)
  <2>1. ASSUME NEW i \in 0..n PROVE f[i] = IF i = 0 THEN NoBoxes ELSE NextBox(w, f[i - 1])
    <3>1. CASE i = 0
      BY <1>5, <3>1
    <3>2. CASE i # 0
      <4>1. i \in 1..n
        BY <3>2
      <4>. QED BY <1>6, <3>2, <4>1
    <3>. QED BY <3>1, <3>2
  <2>2. f = [i \in 0..n |-> f[i]]
    BY <1>5
  <2>. QED BY <2>1, <2>2
<1>8. PICK walk : Solves(walk) /\ Boxes(w) = walk[n].boxes
  <2>1. Boxes(w) = (CHOOSE g : Solves(g))[n].boxes
    BY DEF Boxes
  <2> HIDE DEF Solves
  <2>. QED BY <1>7, <2>1, Zenon
<1>9. walk[0] = NoBoxes /\ \A i \in 1..n : walk[i] = NextBox(w, walk[i - 1])
  <2>1. \A i \in 0..n : walk[i] = IF i = 0 THEN NoBoxes ELSE NextBox(w, walk[i - 1])
    BY <1>8
  <2>2. 0 \in 0..n /\ \A i \in 1..n : i \in 0..n /\ i # 0
    OBVIOUS
  <2>. QED BY <2>1, <2>2
<1>10. walk[n] = f[n] /\ walk = f
  <2>1. ASSUME NEW m \in 0..n PROVE walk[m] = f[m]
    <3>1. \A i \in 1..m : walk[i - 1] = f[i - 1] => walk[i] = f[i]
      BY <1>6, <1>9
    <3>2. m \in Nat
      OBVIOUS
    <3>3. walk[0] = f[0]
      BY <1>5, <1>9
    <3>. QED BY <3>1, <3>2, <3>3, Agree
  <2>2. walk = [m \in 0..n |-> walk[m]] /\ f = [m \in 0..n |-> f[m]]
    BY <1>5, <1>8
  <2>. QED BY <2>1, <2>2
<1>. QED BY <1>5, <1>8, <1>9, <1>10

(* Boxes that lie one behind the other, k of them, from cut to cut.        *)
Linked(w, cuts, k) ==
  \A i \in 1..k :
    /\ cuts[i] \in Nat /\ cuts[i + 1] \in Nat /\ cuts[i] < cuts[i + 1] /\ cuts[i] < Len(w)
    /\ HeaderAt(w, cuts[i]).valid /\ HeaderAt(w, cuts[i]).type = w[cuts[i] + 2]
    /\ HeaderAt(w, cuts[i]).total = cuts[i + 1] - cuts[i]
Lists(walk, w, cuts, i) ==
  /\ walk.off = cuts[i + 1] /\ Len(walk.boxes) = i
  /\ \A j \in 1..i : walk.boxes[j] = [type |-> w[cuts[j] + 2], offset |-> cuts[j],
                                      size |-> cuts[j + 1] - cuts[j]]

(* One turn lists the next of them.                                        *)
LEMMA ListsNext ==
  ASSUME NEW w \in Seq(Nat), NEW cuts, NEW k \in Nat, Linked(w, cuts, k), NEW i \in Nat, i < k,
         NEW walk \in Walks, Lists(walk, w, cuts, i)
  PROVE  Lists(NextBox(w, walk), w, cuts, i + 1)
<1>1. PICK off \in Nat, boxes \in Seq(BoxInfo) : walk.off = off /\ walk.boxes = boxes
  BY DEF Walks
<1>2. i + 1 \in 1..k /\ (i + 1) + 1 = i + 2
  OBVIOUS
<1>3. PICK next \in Nat : next = cuts[(i + 1) + 1]
  BY <1>2 DEF Linked
<1>4. off = cuts[i + 1] /\ off < next /\ off < Len(w)
  BY <1>1, <1>2, <1>3 DEF Linked, Lists
<1>5. PICK h : h = HeaderAt(w, off)
  OBVIOUS
<1>6. h.valid /\ h.type = w[off + 2] /\ h.total = next - off
  BY <1>2, <1>3, <1>4, <1>5 DEF Linked
<1>7. PICK box : box = [type |-> h.type, offset |-> off, size |-> h.total]
  OBVIOUS
<1>8. NextBox(w, walk) = [off |-> off + h.total, boxes |-> Append(boxes, box)]
  <2>1. ~(off >= Len(w) \/ ~h.valid \/ h.total = 0)
    BY <1>3, <1>4, <1>6
  <2>. QED BY <1>1, <1>5, <1>7, <2>1 DEF NextBox
<1>9. PICK all : all = Append(boxes, box)
  OBVIOUS
<1>10. Len(boxes) = i
  BY <1>1 DEF Lists
<1>11. Len(all) = i + 1 /\ all[i + 1] = box /\ \A j \in 1..i : all[j] = boxes[j]
  BY <1>9, <1>10
<1>12. off + h.total = next
  BY <1>3, <1>6
<1>13. ASSUME NEW j \in 1..i + 1
       PROVE  all[j] = [type |-> w[cuts[j] + 2], offset |-> cuts[j], size |-> cuts[j + 1] - cuts[j]]
  <2>1. CASE j = i + 1
    BY <1>3, <1>4, <1>6, <1>7, <1>11, <2>1
  <2>2. CASE j # i + 1
    <3>1. j \in 1..i
      BY <2>2
    <3>. QED BY <1>1, <1>11, <3>1 DEF Lists
  <2>. QED BY <2>1, <2>2
<1>14. PICK res : res = NextBox(w, walk)
  OBVIOUS
<1>15. res.off = next /\ res.boxes = all
  BY <1>8, <1>9, <1>12, <1>14
<1>. QED BY <1>3, <1>11, <1>13, <1>14, <1>15 DEF Lists

(* The first k boxes are those of a file of n words, and no other follows. *)
Belong(walk, k, n) ==
  /\ Len(walk.boxes) >= k
  /\ \A j \in 1..k : walk.boxes[j].type \in Mp4Types
  /\ walk.boxes[k].offset + walk.boxes[k].size = n
  /\ Len(walk.boxes) = k => walk.off = n
  /\ Len(walk.boxes) > k => walk.boxes[k + 1].type \notin Mp4Types

LEMMA BelongNext ==
  ASSUME NEW w \in Seq(Nat), NEW k \in Nat \ {0}, NEW n \in Nat,
         n + 2 <= Len(w) => w[n + 2] \notin Mp4Types,
         NEW walk \in Walks, Belong(walk, k, n)
  PROVE  Belong(NextBox(w, walk), k, n)
<1>1. PICK off \in Nat, boxes \in Seq(BoxInfo) : walk.off = off /\ walk.boxes = boxes
  BY DEF Walks
<1>2. PICK h : h = HeaderAt(w, off)
  OBVIOUS
<1>3. PICK len \in Nat : len = Len(boxes)
  OBVIOUS
<1>4. /\ len >= k /\ \A j \in 1..k : boxes[j].type \in Mp4Types
      /\ boxes[k].offset + boxes[k].size = n
      /\ len = k => off = n
      /\ len > k => boxes[k + 1].type \notin Mp4Types
  BY <1>1, <1>3 DEF Belong
<1>5. CASE off >= Len(w) \/ ~h.valid \/ h.total = 0
  <2>1. NextBox(w, walk) = walk
    BY <1>1, <1>2, <1>5 DEF NextBox
  <2>. QED BY <2>1
<1>6. CASE ~(off >= Len(w) \/ ~h.valid \/ h.total = 0)
  <2>1. PICK box : box = [type |-> h.type, offset |-> off, size |-> h.total]
    OBVIOUS
  <2>2. PICK all : all = Append(boxes, box)
    OBVIOUS
  <2>3. NextBox(w, walk) = [off |-> off + h.total, boxes |-> all]
    BY <1>1, <1>2, <1>6, <2>1, <2>2 DEF NextBox
  <2>4. Len(all) = len + 1 /\ all[len + 1] = box /\ \A j \in 1..len : all[j] = boxes[j]
    BY <1>3, <2>2
  <2>5. k \in 1..len /\ \A j \in 1..k : j \in 1..len
    BY <1>4
  <2>6. /\ \A j \in 1..k : all[j].type \in Mp4Types
        /\ all[k].offset + all[k].size = n
    BY <1>4, <2>4, <2>5
  <2>7. all[k + 1].type \notin Mp4Types
    <3>1. CASE len = k
      <4>1. off + 2 <= Len(w) /\ h.type = w[off + 2]
        BY <1>2, <1>6, HeaderTyped
      <4>2. all[k + 1] = box /\ box.type = h.type /\ off = n
        BY <1>4, <2>1, <2>4, <3>1
      <4>. QED BY <4>1, <4>2
    <3>2. CASE len # k
      <4>1. k + 1 \in 1..len /\ len > k
        BY <1>4, <3>2
      <4>. QED BY <1>4, <2>4, <4>1
    <3>. QED BY <3>1, <3>2
  <2>8. PICK res : res = NextBox(w, walk)
    OBVIOUS
  <2>9. res.boxes = all
    BY <2>3, <2>8
  <2>10. len + 1 >= k /\ ~(len + 1 = k)
    BY <1>4
  <2>. QED BY <2>4, <2>6, <2>7, <2>8, <2>9, <2>10 DEF Belong
<1>. QED BY <1>5, <1>6

(* The cuts of a file lie in it, and there are no more of them than words. *)
LEMMA CutsRise ==
  ASSUME NEW cuts \in Seq(Nat), NEW k \in Nat, Len(cuts) = k + 1, NEW n \in Nat, cuts[k + 1] = n,
         \A i \in 1..k : cuts[i] + 2 <= cuts[i + 1]
  PROVE  k <= n /\ \A i \in 1..k + 1 : cuts[i] \in Nat /\ cuts[i] <= n
<1>1. \A i \in 1..k + 1 : cuts[i] \in Nat
  OBVIOUS
<1> DEFINE Up == {i \in Nat : i <= k => i <= cuts[i + 1]}
           Down == {i \in Nat : i <= k => cuts[(k + 1) - i] <= n}
<1>2. \A i \in Nat : i \in Up
  <2>1. 0 \in Up
    <3>1. 0 + 1 \in 1..k + 1
      OBVIOUS
    <3>2. cuts[0 + 1] \in Nat
      BY <1>1, <3>1
    <3>. QED BY <3>2
  <2>2. ASSUME NEW i \in Nat, i \in Up PROVE i + 1 \in Up
    <3> SUFFICES ASSUME i + 1 <= k PROVE i + 1 <= cuts[(i + 1) + 1]
      OBVIOUS
    <3>1. i <= cuts[i + 1] /\ i + 1 \in 1..k /\ i + 1 \in 1..k + 1 /\ (i + 1) + 1 \in 1..k + 1
      BY <2>2
    <3>2. PICK x, y \in Nat : x = cuts[i + 1] /\ y = cuts[(i + 1) + 1]
      BY <1>1, <3>1
    <3>3. x + 2 <= y
      BY <3>1, <3>2
    <3>. QED BY <3>1, <3>2, <3>3
  <2> HIDE DEF Up
  <2>3. Nat \subseteq Up
    BY <2>1, <2>2, NatSetInduction
  <2>. QED BY <2>3
<1>3. \A i \in Nat : i \in Down
  <2>1. 0 \in Down
    <3>1. (k + 1) - 0 = k + 1
      OBVIOUS
    <3>. QED BY <3>1
  <2>2. ASSUME NEW i \in Nat, i \in Down PROVE i + 1 \in Down
    <3> SUFFICES ASSUME i + 1 <= k PROVE cuts[(k + 1) - (i + 1)] <= n
      OBVIOUS
    <3>1. PICK m \in 1..k : m = (k + 1) - (i + 1) /\ m + 1 = (k + 1) - i
      OBVIOUS
    <3>2. cuts[m + 1] <= n
      BY <2>2, <3>1
    <3>3. PICK x, y \in Nat : x = cuts[m] /\ y = cuts[m + 1]
      <4>1. m \in 1..k + 1 /\ m + 1 \in 1..k + 1
        OBVIOUS
      <4>. QED BY <1>1, <4>1
    <3>4. x + 2 <= y
      BY <3>3
    <3>5. x <= n
      BY <3>2, <3>3, <3>4
    <3>. QED BY <3>1, <3>3, <3>5
  <2> HIDE DEF Down
  <2>3. Nat \subseteq Down
    BY <2>1, <2>2, NatSetInduction
  <2>. QED BY <2>3
<1>4. k <= n
  <2>1. k \in Up
    BY <1>2
  <2>. QED BY <2>1
<1>5. ASSUME NEW i \in 1..k + 1 PROVE cuts[i] <= n
  <2>1. PICK d \in Nat : d = (k + 1) - i /\ d <= k /\ (k + 1) - d = i
    OBVIOUS
  <2>2. d \in Down
    BY <1>3
  <2>. QED BY <2>1, <2>2
<1>. QED BY <1>1, <1>4, <1>5

(* What begins with a sequence has its elements.                           *)
LEMMA Prefix ==
  ASSUME NEW w \in Seq(Nat), NEW bytes \in Seq(Nat), NEW n \in Nat, n = Len(bytes),
         Occurs(bytes, w, 0)
  PROVE  n <= Len(w) /\ \A j \in 1..n : w[j] = bytes[j]
<1>1. n <= Len(w)
  <2>1. 0 + n <= Len(w)
    BY DEF Occurs
  <2>. QED BY <2>1
<1>2. ASSUME NEW j \in 1..n PROVE w[j] = bytes[j]
  <2>1. w[0 + j] = bytes[j]
    BY DEF Occurs
  <2>2. 0 + j = j
    OBVIOUS
  <2>. QED BY <2>1, <2>2
<1>. QED BY <1>1, <1>2

(* A box of a whole file is one of whatever begins with the file.          *)
LEMMA BoxStays ==
  ASSUME NEW w \in Seq(Nat), NEW bytes \in Seq(Nat), NEW n \in Nat, n = Len(bytes),
         Occurs(bytes, w, 0),
         NEW at \in Nat, NEW size \in Nat, size >= 2, at + size <= n,
         SaysSize(bytes, at, size), NEW h, h = HeaderAt(w, at)
  PROVE  Heading(h, w, at, size) /\ w[at + 2] = bytes[at + 2]
<1>0. n <= Len(w) /\ \A j \in 1..n : w[j] = bytes[j]
  BY Prefix
<1>1. w[at + 1] = bytes[at + 1] /\ w[at + 2] = bytes[at + 2]
  <2>1. at + 1 \in 1..n /\ at + 2 \in 1..n
    OBVIOUS
  <2>. QED BY <1>0, <2>1
<1>2. size >= 4 => WideAt(w, at + 3) = WideAt(bytes, at + 3)
  <2> SUFFICES ASSUME size >= 4 PROVE WideAt(w, at + 3) = WideAt(bytes, at + 3)
    OBVIOUS
  <2>1. at + 3 \in 1..n /\ at + 4 \in 1..n /\ (at + 3) + 1 = at + 4
    OBVIOUS
  <2>2. w[at + 3] = bytes[at + 3] /\ w[at + 4] = bytes[at + 4]
    BY <1>0, <2>1
  <2>. QED BY <2>1, <2>2 DEF WideAt
<1>3. SaysSize(w, at, size)
  BY <1>1, <1>2 DEF SaysSize
<1>4. at + size <= Len(w)
  BY <1>0
<1>5. Heading(h, w, at, size)
  BY <1>3, <1>4, BoxHeader
<1>. QED BY <1>1, <1>5

(* The boxes of a whole file, in whatever begins with the file.            *)
Laid(w, cuts, k, n) ==
  /\ k <= n /\ cuts[1] = 0 /\ cuts[k + 1] = n /\ Linked(w, cuts, k)
  /\ \A i \in 1..k : w[cuts[i] + 2] \in Mp4Types /\ cuts[i] \in Nat /\ cuts[i + 1] \in Nat
LEMMA BoxesLinked ==
  ASSUME NEW w \in Seq(Nat), NEW bytes \in Seq(Nat), NEW n \in Nat, n = Len(bytes),
         Occurs(bytes, w, 0), NEW cuts \in Seq(Nat), Boxed(bytes, cuts),
         NEW k \in Nat \ {0}, Len(cuts) = k + 1
  PROVE  Laid(w, cuts, k, n)
<1>0. n <= Len(w)
  BY Prefix
<1>1. /\ cuts[1] = 0 /\ cuts[k + 1] = n
      /\ \A i \in 1..k :
           /\ cuts[i + 1] - cuts[i] >= 2 /\ bytes[cuts[i] + 2] \in Mp4Types
           /\ \/ bytes[cuts[i] + 1] = cuts[i + 1] - cuts[i]
              \/ /\ bytes[cuts[i] + 1] = 1 /\ cuts[i + 1] - cuts[i] >= 4
                 /\ WideAt(bytes, cuts[i] + 3) = cuts[i + 1] - cuts[i]
  <2>1. Len(cuts) - 1 = k
    OBVIOUS
  <2>. QED BY <2>1 DEF Boxed
<1>2. \A i \in 1..k : /\ i \in 1..k + 1 /\ i + 1 \in 1..k + 1
                      /\ cuts[i] \in Nat /\ cuts[i + 1] \in Nat
  OBVIOUS
<1>3. \A i \in 1..k : cuts[i] + 2 <= cuts[i + 1]
  <2> SUFFICES ASSUME NEW i \in 1..k PROVE cuts[i] + 2 <= cuts[i + 1]
    OBVIOUS
  <2>1. PICK x, y \in Nat : x = cuts[i] /\ y = cuts[i + 1]
    BY <1>2
  <2>2. y - x >= 2
    BY <1>1, <2>1
  <2>. QED BY <2>1, <2>2
<1>4. k <= n /\ \A i \in 1..k + 1 : cuts[i] \in Nat /\ cuts[i] <= n
  BY <1>1, <1>3, CutsRise
<1>5. ASSUME NEW i \in 1..k
      PROVE  /\ cuts[i] < cuts[i + 1] /\ cuts[i] < Len(w) /\ w[cuts[i] + 2] \in Mp4Types
             /\ HeaderAt(w, cuts[i]).valid /\ HeaderAt(w, cuts[i]).type = w[cuts[i] + 2]
             /\ HeaderAt(w, cuts[i]).total = cuts[i + 1] - cuts[i]
  <2>0. PICK at, to \in Nat : at = cuts[i] /\ to = cuts[i + 1]
    BY <1>2
  <2>1. at + 2 <= to /\ to <= n
    BY <1>2, <1>3, <1>4, <2>0
  <2>2. PICK size \in Nat : size = to - at /\ at + size = to /\ size >= 2
    <3>1. to - at \in Nat /\ at + (to - at) = to /\ to - at >= 2
      BY <2>1
    <3>. QED BY <3>1
  <2>3. size >= 2
    BY <2>2
  <2>4. bytes[at + 2] \in Mp4Types /\ SaysSize(bytes, at, size)
    BY <1>1, <2>0, <2>2 DEF SaysSize
  <2>5. at + size <= n /\ at < to /\ at < Len(w)
    BY <1>0, <2>1, <2>2
  <2>6. PICK h : h = HeaderAt(w, at)
    OBVIOUS
  <2>7. at + size <= n
    BY <2>5
  <2>8. SaysSize(bytes, at, size)
    BY <2>4
  <2>9. Heading(h, w, at, size) /\ w[at + 2] = bytes[at + 2]
    BY <2>6, <2>3, <2>7, <2>8, BoxStays
  <2>. QED BY <2>0, <2>2, <2>4, <2>5, <2>6, <2>9 DEF Heading
<1>. QED BY <1>1, <1>2, <1>4, <1>5 DEF Linked, Laid

(* An MP4 file ends with the last of its boxes, whatever is behind it.     *)
LEMMA FileWalked ==
  ASSUME NEW w \in Seq(Nat), NEW bytes \in Seq(Nat), NEW n \in Nat, n = Len(bytes),
         Occurs(bytes, w, 0), NEW cuts, Boxed(bytes, cuts), n + 2 <= Len(w) => w[n + 2] \notin Mp4Types
  PROVE  Mp4Length(w) = n
<1>1. cuts \in Seq(Nat) /\ \E k \in Nat \ {0} : Len(cuts) = k + 1
  <2>1. cuts \in Seq(Nat) /\ Len(cuts) > 1
    BY DEF Boxed
  <2>2. PICK len \in Nat : len = Len(cuts) /\ len > 1
    BY <2>1
  <2>3. len - 1 \in Nat \ {0} /\ len = (len - 1) + 1
    BY <2>2
  <2>. QED BY <2>1, <2>2, <2>3
<1>0. PICK k \in Nat \ {0} : Len(cuts) = k + 1
  BY <1>1
<1>2. /\ k <= n /\ cuts[1] = 0 /\ cuts[k + 1] = n /\ Linked(w, cuts, k)
      /\ \A i \in 1..k : /\ w[cuts[i] + 2] \in Mp4Types
                         /\ cuts[i] \in Nat /\ cuts[i + 1] \in Nat
  <2>1. Laid(w, cuts, k, n)
    BY <1>0, <1>1, BoxesLinked
  <2>. QED BY <2>1 DEF Laid
<1>3. PICK turns \in Nat : turns = Len(w) /\ k <= turns
  <2>1. n <= Len(w)
    BY Prefix
  <2>. QED BY <1>2, <2>1
<1>4. PICK walk \in [0..turns -> Walks] :
        /\ Boxes(w) = walk[turns].boxes /\ walk[0] = NoBoxes
        /\ \A i \in 1..turns : walk[i] = NextBox(w, walk[i - 1])
  BY <1>3, WalkIs
<1> DEFINE Near == {i \in Nat : i <= k => Lists(walk[i], w, cuts, i)}
           Far == {d \in Nat : k + d <= turns => Belong(walk[k + d], k, n)}
<1>5. k \in Near
  <2>1. 0 \in Near
    <3>1. walk[0].off = 0 /\ walk[0].boxes = <<>>
      BY <1>4 DEF NoBoxes
    <3>2. Lists(walk[0], w, cuts, 0)
      BY <1>2, <3>1 DEF Lists
    <3>. QED BY <3>2
  <2>2. ASSUME NEW i \in Nat, i \in Near PROVE i + 1 \in Near
    <3> SUFFICES ASSUME i + 1 <= k PROVE Lists(walk[i + 1], w, cuts, i + 1)
      OBVIOUS
    <3>1. i < k /\ i \in 0..turns /\ i + 1 \in 1..turns /\ (i + 1) - 1 = i /\ k \in Nat
      BY <1>2, <1>3
    <3>2. walk[i] \in Walks /\ walk[i + 1] = NextBox(w, walk[i])
      BY <1>4, <3>1
    <3>3. Lists(walk[i], w, cuts, i)
      BY <2>2, <3>1
    <3>4. Lists(NextBox(w, walk[i]), w, cuts, i + 1)
      BY <1>2, <3>1, <3>2, <3>3, ListsNext
    <3>. QED BY <3>2, <3>4
  <2> HIDE DEF Near
  <2>3. Nat \subseteq Near
    BY <2>1, <2>2, NatSetInduction
  <2>. QED BY <1>2, <2>3
<1>6. Belong(walk[k], k, n)
  <2>1. PICK boxes : boxes = walk[k].boxes
    OBVIOUS
  <2>2. /\ walk[k].off = n /\ Len(boxes) = k
        /\ \A j \in 1..k : boxes[j] = [type |-> w[cuts[j] + 2], offset |-> cuts[j],
                                       size |-> cuts[j + 1] - cuts[j]]
    BY <1>2, <1>5, <2>1 DEF Lists
  <2>3. ASSUME NEW j \in 1..k PROVE boxes[j].type \in Mp4Types
    <3>1. boxes[j] = [type |-> w[cuts[j] + 2], offset |-> cuts[j], size |-> cuts[j + 1] - cuts[j]]
      BY <2>2
    <3>2. boxes[j].type = w[cuts[j] + 2]
      BY <3>1
    <3>. QED BY <1>2, <3>2
  <2>4. k \in 1..k
    OBVIOUS
  <2>5. PICK at \in Nat : at = cuts[k]
    BY <1>2, <2>4
  <2>6. boxes[k].offset + boxes[k].size = n
    <3>1. boxes[k] = [type |-> w[at + 2], offset |-> at, size |-> n - at]
      BY <1>2, <2>2, <2>4, <2>5
    <3>2. boxes[k].offset = at /\ boxes[k].size = n - at /\ at + (n - at) = n
      BY <3>1
    <3>. QED BY <3>2
  <2>7. k >= k /\ ~(k > k)
    BY <1>2
  <2>. QED BY <2>1, <2>2, <2>3, <2>6, <2>7 DEF Belong
<1>7. turns - k \in Far
  <2>1. 0 \in Far
    <3>1. k + 0 = k
      BY <1>2
    <3>. QED BY <1>6, <3>1
  <2>2. ASSUME NEW d \in Nat, d \in Far PROVE d + 1 \in Far
    <3> SUFFICES ASSUME k + (d + 1) <= turns PROVE Belong(walk[k + (d + 1)], k, n)
      OBVIOUS
    <3>1. PICK m \in Nat : m = k + (d + 1) /\ m \in 1..turns /\ m - 1 = k + d /\ m - 1 \in 0..turns
      BY <1>2
    <3>2. walk[m - 1] \in Walks /\ walk[m] = NextBox(w, walk[m - 1])
      BY <1>4, <3>1
    <3>3. k + d <= turns
      BY <3>1
    <3>4. Belong(walk[m - 1], k, n)
      BY <2>2, <3>1, <3>3
    <3>5. Belong(NextBox(w, walk[m - 1]), k, n)
      BY <1>2, <3>2, <3>4, BelongNext
    <3>. QED BY <3>1, <3>2, <3>5
  <2> HIDE DEF Far
  <2>3. Nat \subseteq Far
    BY <2>1, <2>2, NatSetInduction
  <2>4. turns - k \in Nat
    BY <1>2, <1>3
  <2>. QED BY <2>3, <2>4
<1>8. Belong(walk[turns], k, n)
  <2>1. k + (turns - k) = turns
    BY <1>2
  <2>. QED BY <1>7, <2>1
<1>9. PICK boxes \in Seq(BoxInfo) : boxes = Boxes(w) /\ boxes = walk[turns].boxes
  <2>1. walk[turns] \in Walks
    BY <1>4
  <2>. QED BY <1>4, <2>1 DEF Walks
<1>10. PICK len \in Nat : len = Len(boxes) /\ DOMAIN boxes = 1..len
  OBVIOUS
<1>11. /\ len >= k /\ \A j \in 1..k : boxes[j].type \in Mp4Types
       /\ boxes[k].offset + boxes[k].size = n
       /\ len > k => boxes[k + 1].type \notin Mp4Types
  BY <1>8, <1>9, <1>10 DEF Belong
<1>12. PICK foreign : foreign = {i \in DOMAIN boxes : boxes[i].type \notin Mp4Types}
  OBVIOUS
<1>13. PICK last : last = IF foreign = {} THEN Len(boxes) ELSE Min(foreign) - 1
  OBVIOUS
<1>14. last = k
  <2>1. CASE len = k
    <3>1. foreign = {}
      BY <1>10, <1>11, <1>12, <2>1
    <3>. QED BY <1>10, <1>13, <2>1, <3>1
  <2>2. CASE len # k
    <3>1. k + 1 \in foreign
      BY <1>2, <1>10, <1>11, <1>12, <2>2
    <3>2. foreign \in SUBSET (1..len) /\ foreign # {}
      BY <1>10, <1>12, <3>1
    <3>3. PICK m : m = Min(foreign)
      OBVIOUS
    <3>4. m \in foreign /\ \A i \in foreign : m <= i
      BY <3>2, <3>3, MinIndex
    <3>5. m \in Nat /\ ~(m \in 1..k) /\ m <= k + 1 /\ m >= 1
      BY <1>11, <1>12, <3>1, <3>2, <3>4
    <3>6. m = k + 1
      BY <1>2, <3>5
    <3>7. last = m - 1
      BY <1>13, <3>2, <3>3
    <3>8. (k + 1) - 1 = k
      OBVIOUS
    <3>. QED BY <3>6, <3>7, <3>8
  <2>. QED BY <2>1, <2>2
<1>15. Mp4Length(w) =
         IF last = 0 \/ boxes[last].offset + boxes[last].size > Len(w) THEN 0
         ELSE boxes[last].offset + boxes[last].size
  BY <1>9, <1>12, <1>13 DEF Mp4Length
<1>16. ~(last = 0) /\ ~(n > Len(w))
  <2>1. n <= Len(w)
    BY Prefix
  <2>. QED BY <1>2, <1>14, <2>1
<1>. QED BY <1>11, <1>14, <1>15, <1>16

(* The footer of a whole file is the first in whatever begins with it.     *)
LEMMA FooterFound ==
  ASSUME NEW i \in DOMAIN Signatures, NEW bytes \in Seq(Nat), Footed(Signatures[i], bytes),
         NEW w \in Seq(Nat), Occurs(bytes, w, 0),
         NEW ends, ends = {at \in 0..Len(w) : /\ Signatures[i].footer # <<>>
                                              /\ Occurs(Signatures[i].footer, w, at)}
  PROVE  ends # {} /\ Min(ends) + Signatures[i].tail = Len(bytes)
<1>1. PICK foot \in Seq(Nat) : foot = Signatures[i].footer
  BY SigFacts
<1>2. PICK tail \in Nat : tail = Signatures[i].tail /\ Len(foot) <= tail
  BY <1>1, SigFacts
<1>3. PICK n, most \in Nat : n = Len(bytes) /\ most = Len(w)
  OBVIOUS
<1>4. /\ foot # <<>> /\ tail <= n /\ Occurs(foot, bytes, n - tail)
      /\ \A at \in 0..n - tail - 1 : ~Occurs(foot, bytes, at)
  BY <1>1, <1>2, <1>3 DEF Footed
<1>5. n <= most /\ \A k \in 1..n : w[k] = bytes[k]
  BY <1>3, Prefix
<1>6. PICK lf \in Nat : lf = Len(foot) /\ lf <= tail
  <2>1. Len(foot) <= tail
    BY <1>2
  <2>2. PICK lf \in Nat : lf = Len(foot)
    OBVIOUS
  <2>. QED BY <2>1, <2>2
<1>7. PICK e \in Nat : e = n - tail
  BY <1>4
<1>8. ASSUME NEW at \in Nat, at + lf <= n PROVE Occurs(foot, w, at) <=> Occurs(foot, bytes, at)
  <2>1. ASSUME NEW k \in 1..lf PROVE w[at + k] = bytes[at + k]
    <3>1. at + k \in 1..n
      BY <1>8
    <3>. QED BY <1>5, <3>1
  <2>2. at + lf <= most
    BY <1>5, <1>8
  <2>. QED BY <1>3, <1>6, <1>8, <2>1, <2>2 DEF Occurs
<1>9. e \in ends /\ \A at \in ends : e <= at /\ at \in Nat
  <2>1. e + lf <= n /\ e \in 0..most
    BY <1>4, <1>5, <1>6, <1>7
  <2>2. Occurs(foot, w, e)
    BY <1>4, <1>7, <1>8, <2>1
  <2>3. ASSUME NEW at \in 0..most, Occurs(foot, w, at), ~(e <= at) PROVE FALSE
    <3>1. at \in Nat /\ at + lf <= n /\ at \in 0..n - tail - 1
      BY <1>4, <1>6, <1>7, <2>3
    <3>2. Occurs(foot, bytes, at)
      BY <1>8, <2>3, <3>1
    <3>. QED BY <1>4, <3>1, <3>2
  <2>. QED BY <1>1, <1>3, <1>4, <2>1, <2>2, <2>3
<1>10. Min(ends) = e
  <2>1. \A x : x \in ends /\ (\A y \in ends : x <= y) <=> x = e
    <3>1. e \in ends /\ (\A y \in ends : e <= y) /\ \A y \in ends : y \in Nat
      BY <1>9
    <3>2. ASSUME NEW x \in ends, \A y \in ends : x <= y PROVE x = e
      <4>1. x \in Nat /\ e \in Nat /\ x <= e /\ e <= x
        BY <1>7, <3>1, <3>2
      <4>. QED BY <4>1
    <3>. QED BY <3>1, <3>2
  <2>. QED BY <2>1 DEF Min
<1>11. e + tail = n
  BY <1>4, <1>7
<1>. QED BY <1>2, <1>3, <1>9, <1>10, <1>11

(* A whole file is carved from its beginning to its end.                   *)
LEMMA WholeLength ==
  ASSUME NEW s \in Seq(Nat), NEW file, WholeFile(s, file),
         NEW hit, hit = [offset |-> file.offset, sig |-> file.sig]
  PROVE  CarvedLength(s, hit) = Len(file.bytes)
<1>1. PICK sig : sig = Signatures[file.sig]
  OBVIOUS
<1>2. PICK off \in Nat : off = file.offset
  BY DEF WholeFile
<1>3. PICK bytes \in Seq(Nat) : bytes = file.bytes
  BY DEF WholeFile
<1>4. PICK n, size \in Nat : n = Len(bytes) /\ size = Len(s)
  OBVIOUS
<1>5. /\ file.sig \in DOMAIN Signatures
      /\ n \in MinLength..MaxLength /\ Occurs(bytes, s, off)
      /\ IF sig.ext # "mp4" THEN Footed(sig, bytes)
         ELSE /\ Boxed(bytes, file.cuts)
              /\ off + n + 2 <= size => s[off + n + 2] \notin Mp4Types
  BY <1>1, <1>2, <1>3, <1>4 DEF WholeFile
<1>6. PICK max \in Nat : max = MaxLength /\ n <= max
  BY <1>5, SigFacts
<1>7. off + n <= size /\ \A k \in 1..n : s[off + k] = bytes[k]
  BY <1>4, <1>5 DEF Occurs
<1>8. hit.offset = off /\ hit.sig = file.sig
  BY <1>2
<1>9. PICK most \in Nat : /\ most = IF size - off < max THEN size - off ELSE max
                          /\ n <= most /\ off + most <= size
  <2>1. size - off \in Nat /\ n <= size - off
    BY <1>7
  <2>2. CASE size - off < max
    BY <2>1, <2>2
  <2>3. CASE ~(size - off < max)
    BY <1>6, <2>1, <2>3
  <2>. QED BY <2>2, <2>3
<1>10. PICK w \in Seq(Nat) : /\ w = SubSeq(s, off + 1, off + most) /\ Len(w) = most
                             /\ \A k \in 1..most : w[k] = s[off + k]
  <2>1. off + most <= Len(s)
    BY <1>4, <1>9
  <2>2. /\ SubSeq(s, off + 1, off + most) \in Seq(Nat)
        /\ Len(SubSeq(s, off + 1, off + most)) = most
        /\ \A k \in 1..most : SubSeq(s, off + 1, off + most)[k] = s[off + k]
    BY <2>1, CutIs
  <2>. QED BY <2>2
<1>11. Occurs(bytes, w, 0)
  <2>1. 0 + n <= most
    BY <1>9
  <2>2. ASSUME NEW k \in 1..n PROVE w[0 + k] = bytes[k]
    <3>1. k \in 1..most /\ 0 + k = k
      BY <1>9
    <3>. QED BY <1>7, <1>10, <3>1
  <2>. QED BY <1>4, <1>10, <2>1, <2>2 DEF Occurs
<1>12. PICK ends : ends = {at \in 0..most : sig.footer # <<>> /\ Occurs(sig.footer, w, at)}
  OBVIOUS
<1>13. CarvedLength(s, hit) =
         IF sig.ext = "mp4" THEN Mp4Length(w)
         ELSE LET length == IF ends = {} THEN sig.fallback ELSE Min(ends) + sig.tail
              IN  IF length < most THEN length ELSE most
  BY <1>1, <1>4, <1>6, <1>8, <1>9, <1>10, <1>12 DEF CarvedLength
<1>14. CASE sig.ext # "mp4"
  <2>1. ends = {at \in 0..Len(w) : /\ Signatures[file.sig].footer # <<>>
                                   /\ Occurs(Signatures[file.sig].footer, w, at)}
    BY <1>1, <1>10, <1>12
  <2>2. ends # {} /\ Min(ends) + sig.tail = n
    BY <1>1, <1>4, <1>5, <1>11, <1>14, <2>1, FooterFound
  <2>3. CarvedLength(s, hit) = IF n < most THEN n ELSE most
    BY <1>13, <1>14, <2>2
  <2>. QED BY <1>3, <1>4, <1>9, <2>3
<1>15. CASE sig.ext = "mp4"
  <2>1. Boxed(bytes, file.cuts)
    BY <1>5, <1>15
  <2>2. n + 2 <= Len(w) => w[n + 2] \notin Mp4Types
    <3> SUFFICES ASSUME n + 2 <= Len(w) PROVE w[n + 2] \notin Mp4Types
      OBVIOUS
    <3>1. n + 2 \in 1..most /\ off + (n + 2) = off + n + 2 /\ off + n + 2 <= size
      BY <1>9, <1>10
    <3>2. w[n + 2] = s[off + n + 2]
      BY <1>10, <3>1
    <3>. QED BY <1>5, <1>15, <3>1, <3>2
  <2>3. Mp4Length(w) = n
    BY <1>4, <1>11, <2>1, <2>2, FileWalked
  <2>. QED BY <1>3, <1>4, <1>13, <1>15, <2>3
<1>. QED BY <1>14, <1>15

(* A whole file is told of first at its offset, and extracted as it is.    *)
LEMMA WholeCarved ==
  ASSUME NEW s \in Seq(Nat), NEW file, WholeFile(s, file),
         NEW hit, hit = [offset |-> file.offset, sig |-> file.sig]
  PROVE  /\ hit.offset < Len(s) /\ CarvedLength(s, hit) >= MinLength
         /\ FileOf(s, hit).offset = file.offset /\ FileOf(s, hit).bytes = file.bytes
         /\ \E f \in Firsts(s) : f[2] = file.sig /\ Offset(f) = file.offset
<1>1. PICK sig : sig = Signatures[file.sig]
  OBVIOUS
<1>2. PICK off \in Nat : off = file.offset
  BY DEF WholeFile
<1>3. PICK bytes \in Seq(Nat) : bytes = file.bytes
  BY DEF WholeFile
<1>4. PICK n, size \in Nat : n = Len(bytes) /\ size = Len(s)
  OBVIOUS
<1>5. PICK b \in Nat : b = sig.back
  BY <1>1, SigFacts DEF WholeFile
<1>6. /\ file.sig \in DOMAIN Signatures
      /\ n \in MinLength..MaxLength /\ Occurs(bytes, s, off) /\ Occurs(sig.magic, bytes, b)
      /\ \A at \in off..off + b - 1 : \A i \in Found(s, at) : Hit(i, at).offset # off
  BY <1>1, <1>2, <1>3, <1>4, <1>5 DEF WholeFile
<1>7. off + n <= size /\ \A k \in 1..n : s[off + k] = bytes[k]
  BY <1>4, <1>6 DEF Occurs
<1>8. PICK magic \in Seq(Nat) : magic = sig.magic
  BY <1>1, <1>6, SigFacts
<1>9. PICK ml \in Nat : ml = Len(magic) /\ ml > 0
  <2>1. Len(sig.magic) \in 1..Overlap + 1 /\ Overlap \in Nat
    BY <1>1, <1>6, SigFacts
  <2>. QED BY <1>8, <2>1
<1>10. b + ml <= n /\ \A k \in 1..ml : bytes[b + k] = magic[k]
  <2>1. Occurs(magic, bytes, b)
    BY <1>6, <1>8
  <2>. QED BY <1>4, <1>9, <2>1 DEF Occurs
<1>11. PICK p \in Nat : p = off + b /\ p - b = off /\ p + ml <= size /\ p >= b /\ off < size
  <2>1. off + b \in Nat /\ (off + b) - b = off /\ (off + b) + ml <= size /\ off + b >= b
    BY <1>7, <1>10
  <2>2. off < size
    BY <1>7, <1>9, <1>10
  <2>. QED BY <2>1, <2>2
<1>12. Occurs(magic, s, p)
  <2>1. ASSUME NEW k \in 1..ml PROVE s[p + k] = magic[k]
    <3>1. b + k \in 1..n /\ off + (b + k) = p + k
      BY <1>10, <1>11
    <3>. QED BY <1>7, <1>10, <3>1
  <2>. QED BY <1>4, <1>9, <1>11, <2>1 DEF Occurs
<1>13. hit.offset = off /\ hit.sig = file.sig
  BY <1>2
<1>14. CarvedLength(s, hit) = n
  BY <1>3, <1>4, WholeLength
<1>15. SubSeq(s, off + 1, off + n) = bytes
  <2>1. PICK u \in Seq(Nat) : /\ u = SubSeq(s, off + 1, off + n) /\ Len(u) = n
                              /\ \A k \in 1..n : u[k] = s[off + k]
    <3>1. off + n <= Len(s)
      BY <1>4, <1>7
    <3>2. /\ SubSeq(s, off + 1, off + n) \in Seq(Nat)
          /\ Len(SubSeq(s, off + 1, off + n)) = n
          /\ \A k \in 1..n : SubSeq(s, off + 1, off + n)[k] = s[off + k]
      BY <3>1, CutIs
    <3>. QED BY <3>2
  <2>2. Len(u) = Len(bytes) /\ \A k \in 1..Len(u) : u[k] = bytes[k]
    BY <1>4, <1>7, <2>1
  <2>3. u = bytes
    BY <2>2, SeqEqual
  <2>. QED BY <2>1, <2>3
<1>16. FileOf(s, hit).offset = off /\ FileOf(s, hit).bytes = bytes
  BY <1>13, <1>14, <1>15 DEF FileOf
<1>17. n >= MinLength
  BY <1>6, SigFacts
<1>18. PICK f : f = <<p, file.sig>> /\ f[1] = p /\ f[2] = file.sig
  <2>1. PICK i : i = file.sig
    OBVIOUS
  <2>2. <<p, i>>[1] = p /\ <<p, i>>[2] = i
    OBVIOUS
  <2>. QED BY <2>1, <2>2
<1>19. f \in Beginnings(s) /\ Offset(f) = off
  <2>1. p \in 0..Len(s)
    BY <1>4, <1>11
  <2>2. f \in (0..Len(s)) \X DOMAIN Signatures
    BY <1>6, <1>18, <2>1
  <2>3. Occurs(Signatures[f[2]].magic, s, f[1]) /\ f[1] >= Signatures[f[2]].back
    BY <1>1, <1>5, <1>8, <1>11, <1>12, <1>18
  <2>4. Offset(f) = off
    BY <1>1, <1>5, <1>11, <1>18 DEF Offset
  <2>. QED BY <2>2, <2>3, <2>4 DEF Beginnings
<1>20. ASSUME NEW g \in Beginnings(s), Offset(g) = Offset(f) PROVE f[1] <= g[1]
  <2>1. PICK q \in 0..Len(s), i \in DOMAIN Signatures : q = g[1] /\ i = g[2]
    BY DEF Beginnings
  <2>2. PICK c \in Nat : c = Signatures[i].back
    BY SigFacts
  <2>3. q - c = off
    BY <1>19, <1>20, <2>1, <2>2 DEF Offset
  <2>4. i \in Found(s, q) /\ Hit(i, q).offset = off
    BY <1>20, <2>1, <2>2, <2>3 DEF Beginnings, Found, Hit
  <2>5. ~(q \in off..off + b - 1)
    BY <1>6, <2>4
  <2>6. q >= off /\ q \in Nat
    BY <2>1, <2>3
  <2>7. p <= q
    BY <1>11, <2>5, <2>6
  <2>. QED BY <1>18, <2>1, <2>7
<1>21. f \in Firsts(s)
  BY <1>19, <1>20 DEF Firsts
<1>. QED BY <1>2, <1>3, <1>4, <1>11, <1>13, <1>14, <1>16, <1>17, <1>18, <1>19, <1>21

(* All that carving makes of an image.                                     *)
Carved(s, whole, outcome) ==
  /\ {<<outcome.hits[k].offset, outcome.hits[k].sig>> : k \in DOMAIN outcome.hits} =
       {<<Offset(f), f[2]>> : f \in Firsts(s)}
  /\ \A j, k \in DOMAIN outcome.hits : j < k => outcome.hits[j].offset < outcome.hits[k].offset
  /\ \A f \in whole : \E k \in DOMAIN outcome.files :
       outcome.files[k].offset = f.offset /\ outcome.files[k].bytes = f.bytes

LEMMA CarvingIs ==
  ASSUME NEW s \in Seq(Nat), NEW chunk \in Nat \ {0}, NEW whole,
         \A f \in whole : WholeFile(s, f)
  PROVE  Carved(s, whole, [hits |-> CarveImage(s, chunk),
                           files |-> ExtractCarved(s, CarveImage(s, chunk))])
<1>1. PICK hits \in Seq(HitSet) : hits = CarveImage(s, chunk) /\ Told(s, hits)
  BY ImageCarved DEF Told
<1>2. PICK files : files = ExtractCarved(s, hits)
  OBVIOUS
<1>3. ASSUME NEW f \in whole
      PROVE  \E k \in DOMAIN files : files[k].offset = f.offset /\ files[k].bytes = f.bytes
  <2>1. PICK hit : hit = [offset |-> f.offset, sig |-> f.sig]
    OBVIOUS
  <2>2. /\ hit.offset < Len(s) /\ CarvedLength(s, hit) >= MinLength
        /\ FileOf(s, hit).offset = f.offset /\ FileOf(s, hit).bytes = f.bytes
        /\ \E g \in Firsts(s) : g[2] = f.sig /\ Offset(g) = f.offset
    BY <1>3, <2>1, WholeCarved
  <2>3. PICK off, sig : off = f.offset /\ sig = f.sig
    OBVIOUS
  <2>4. PICK g \in Firsts(s) : g[2] = sig /\ Offset(g) = off
    BY <2>2, <2>3
  <2>5. <<Offset(g), g[2]>> \in {<<hits[k].offset, hits[k].sig>> : k \in DOMAIN hits}
    BY <1>1, <2>4 DEF Told
  <2>6. <<off, sig>> \in {<<hits[k].offset, hits[k].sig>> : k \in DOMAIN hits}
    BY <2>4, <2>5
  <2>7. PICK at \in DOMAIN hits : hits[at].offset = off /\ hits[at].sig = sig
    BY <2>6
  <2>8. hits[at] = hit
    <3>1. hits[at] \in HitSet
      OBVIOUS
    <3>2. hits[at] = [offset |-> off, sig |-> sig]
      BY <2>7, <3>1 DEF HitSet
    <3>. QED BY <2>1, <2>3, <3>2
  <2>9. PICK k \in DOMAIN files : files[k] = FileOf(s, hits[at])
    BY <1>2, <2>2, <2>8, ExtractHas
  <2>. QED BY <2>2, <2>8, <2>9
<1>4. PICK outcome : outcome = [hits |-> hits, files |-> files]
  OBVIOUS
<1>5. outcome.hits = hits /\ outcome.files = files
  BY <1>4
<1>6. Carved(s, whole, outcome)
  BY <1>1, <1>3, <1>5 DEF Carved, Told
<1>. QED BY <1>1, <1>2, <1>4, <1>6

----------------------------------------------------------------------------
(* CHUNK OFFSETS                                                           *)

(* What is known of the words of a file.                                   *)
LEMMA FileWords ==
  ASSUME NEW s, Mp4Sample(s)
  PROVE  /\ s.file \in Seq(Nat) /\ Len(s.file) \in Nat /\ Len(s.whole) \in Nat
         /\ Len(s.file) <= Len(s.whole) /\ s.delta \in Int
         /\ \A k \in 1..Len(s.whole) : s.whole[k] \in 0..WordTop - 1 /\ s.shifted[k] \in 0..WordTop - 1
         /\ \A k \in 1..Len(s.file) : s.file[k] = s.whole[k]
<1>1. PICK whole : whole = s.whole
  OBVIOUS
<1>2. PICK shifted : shifted = s.shifted
  OBVIOUS
<1>3. PICK file : file = s.file
  OBVIOUS
<1>4. PICK top \in Nat : top = WordTop
  BY Mp4Assumption
<1>5. /\ s.delta \in Int /\ whole \in Seq(0..top - 1) /\ shifted \in Seq(0..top - 1)
      /\ Len(shifted) = Len(whole) 
      /\ \E n \in 0..Len(whole) : file = SubSeq(whole, 1, n)
  BY <1>1, <1>2, <1>3, <1>4 DEF Mp4Sample
<1>6. PICK size \in Nat : size = Len(whole)
  BY <1>5
<1>7. \A k \in 1..size : whole[k] \in 0..top - 1 /\ shifted[k] \in 0..top - 1
  BY <1>5, <1>6
<1>8. PICK n \in 0..size : file = SubSeq(whole, 1, n)
  BY <1>5, <1>6
<1>9. file = [k \in 1..n |-> whole[k]]
  BY <1>5, <1>6, <1>8
<1>10. file \in [1..n -> Nat] /\ n \in Nat
  BY <1>6, <1>7, <1>9
<1>11. file \in Seq(Nat) /\ Len(file) = n
  BY <1>9, <1>10
<1>. QED BY <1>1, <1>2, <1>3, <1>4, <1>5, <1>6, <1>7, <1>9, <1>11

(* A buffer that is repaired up to a position.                             *)
MendedAt(s, k, v) ==
  v = s.shifted[k] \/ (k = Len(s.file) /\ HalfEntry(s) /\ v = s.file[k])
Progress(s, buf, p) ==
  /\ buf \in Seq(Nat) /\ Len(buf) = Len(s.file)
  /\ \A k \in 1..Len(s.file) : IF k <= p THEN MendedAt(s, k, buf[k]) ELSE buf[k] = s.file[k]

(* What need not be changed is repaired.                                   *)
LEMMA ProgressOn ==
  ASSUME NEW s, Mp4Sample(s), NEW buf, NEW p \in Nat, NEW q \in Nat, p <= q, q <= Len(s.file),
         Progress(s, buf, p), Same(s, p + 1, q)
  PROVE  Progress(s, buf, q)
<1>1. ASSUME NEW k \in 1..Len(s.file), p < k, k <= q PROVE MendedAt(s, k, buf[k])
  <2>1. buf[k] = s.file[k] /\ s.file[k] = s.whole[k]
    BY <1>1, FileWords DEF Progress
  <2>2. k \in p + 1..q
    BY <1>1, FileWords
  <2>. QED BY <2>1, <2>2 DEF Same, MendedAt
<1>2. ASSUME NEW k \in 1..Len(s.file)
      PROVE  IF k <= q THEN MendedAt(s, k, buf[k]) ELSE buf[k] = s.file[k]
  <2>1. k \in Nat
    BY FileWords
  <2>2. CASE k <= p
    BY <1>2, <2>1, <2>2 DEF Progress
  <2>3. CASE ~(k <= p)
    BY <1>1, <1>2, <2>1, <2>3 DEF Progress
  <2>. QED BY <2>2, <2>3
<1>. QED BY <1>2 DEF Progress

(* A buffer that agrees with another but where it is repaired further.     *)
LEMMA ProgressMade ==
  ASSUME NEW s, Mp4Sample(s), NEW buf, NEW p \in Nat, NEW q \in Nat, p <= q, q <= Len(s.file),
         Progress(s, buf, p), NEW new \in [1..Len(s.file) -> Nat],
         \A k \in 1..p : new[k] = buf[k],
         \A k \in q + 1..Len(s.file) : new[k] = buf[k],
         \A k \in p + 1..q : MendedAt(s, k, new[k])
  PROVE  Progress(s, new, q)
<1>1. PICK n \in Nat : n = Len(s.file)
  BY FileWords
<1>2. new \in Seq(Nat) /\ Len(new) = n
  BY <1>1
<1>3. ASSUME NEW k \in 1..n
      PROVE  IF k <= q THEN MendedAt(s, k, new[k]) ELSE new[k] = s.file[k]
  <2>1. CASE k <= p
    <3>1. k \in 1..p /\ k <= q
      BY <2>1
    <3>. QED BY <1>1, <2>1, <3>1 DEF Progress
  <2>2. CASE ~(k <= p) /\ k <= q
    <3>1. k \in p + 1..q
      BY <2>2
    <3>. QED BY <2>2, <3>1
  <2>3. CASE ~(k <= q)
    <3>1. k \in q + 1..n /\ ~(k <= p)
      BY <2>3
    <3>. QED BY <1>1, <2>3, <3>1 DEF Progress
  <2>. QED BY <2>1, <2>2, <2>3
<1>. QED BY <1>1, <1>2, <1>3 DEF Progress

(* A box of a file and the words of it that are there.                     *)
Inside(s, b, stop) ==
  /\ b \in s.boxes /\ stop \in Nat /\ stop = Smaller(b.end, Len(s.file)) /\ b.content <= stop

LEMMA BoxFacts ==
  ASSUME NEW s, Mp4Sample(s), NEW b \in s.boxes
  PROVE  /\ b.at \in Nat /\ b.content \in Nat /\ b.end \in Nat /\ b.limit \in Nat /\ b.type \in Nat
         /\ b.at < b.content /\ b.content <= b.end /\ b.end <= b.limit /\ b.limit <= Len(s.whole)
         /\ SoundBox(s, b)
<1>1. b \in Mp4Box /\ SoundBox(s, b)
  BY DEF Mp4Sample
<1>. QED BY <1>1 DEF Mp4Box, SoundBox

LEMMA NarrowEntries ==
  ASSUME NEW s, NEW b, NEW content \in Nat, content = b.content, NEW end \in Nat, end = b.end,
         NEW claim \in Nat, claim = s.whole[content + 2]
  PROVE  \A k \in Nat : k \in Entries(s, b, 1) <=>
                          k >= content + 3 /\ k <= end /\ k < content + 3 + claim
<1> SUFFICES ASSUME NEW k \in Nat
             PROVE  k \in Entries(s, b, 1) <=>
                      k >= content + 3 /\ k <= end /\ k < content + 3 + claim
  OBVIOUS
<1>1. ASSUME k >= content + 3
      PROVE  (k - (content + 3)) % 1 = 0 /\ (k - (content + 3)) \div 1 = k - (content + 3)
  <2>1. PICK d \in Nat : d = k - (content + 3)
    BY <1>1
  <2>2. d % 1 = 0 /\ d \div 1 = d
    OBVIOUS
  <2>. QED BY <2>1, <2>2
<1>. QED BY <1>1 DEF Entries

(* The entries of one word.                                                *)
LEMMA NarrowPatched ==
  ASSUME NEW s, Mp4Sample(s), NEW b, NEW stop, Inside(s, b, stop), b.type = Stco,
         NEW buf, Progress(s, buf, b.content)
  PROVE  Progress(s, PatchTable(buf, b.content, stop, 1, s.delta), stop)
<1>1. PICK content \in Nat : content = b.content
  BY BoxFacts DEF Inside
<1>2. PICK end \in Nat : end = b.end /\ end <= Len(s.whole)
  BY BoxFacts, FileWords DEF Inside
<1>3. PICK n \in Nat : n = Len(s.file)
  BY FileWords
<1>4. stop \in Nat /\ stop <= end /\ stop <= n /\ content <= stop
  BY <1>1, <1>2, <1>3 DEF Inside, Smaller
<1>5. PICK top \in Nat \ {0} : top = WordTop
  BY Mp4Assumption
<1>6. PICK delta \in Int : delta = s.delta
  BY FileWords
<1>7. /\ buf \in Seq(Nat) /\ Len(buf) = n /\ DOMAIN buf = 1..n
      /\ \A k \in content + 1..n : buf[k] = s.whole[k]
  BY <1>1, <1>3, FileWords DEF Progress
<1>8. \A k \in content + 1..end :
        s.shifted[k] = IF k \in Entries(s, b, 1) THEN Clamped(s.whole[k] + delta, top)
                       ELSE s.whole[k]
  <2>1. b.type \notin Containers /\ SoundBox(s, b)
    BY BoxFacts, Mp4Assumption DEF Inside
  <2>2. NarrowTable(s, b)
    BY <2>1 DEF SoundBox
  <2>. QED BY <1>1, <1>2, <1>5, <1>6, <2>2 DEF NarrowTable
<1>9. CASE content + 2 > stop
  <2>1. ASSUME NEW k \in content + 1..stop PROVE s.shifted[k] = s.whole[k]
    <3>1. k \notin Entries(s, b, 1)
      BY <1>1, <1>9, <1>4 DEF Entries
    <3>2. k \in content + 1..end
      BY <1>4
    <3>. QED BY <1>8, <3>1, <3>2
  <2>2. Same(s, content + 1, stop)
    BY <2>1 DEF Same
  <2>3. Progress(s, buf, stop)
    BY <1>1, <1>3, <1>4, <2>2, ProgressOn
  <2>. QED BY <1>1, <1>9, <2>3 DEF PatchTable
<1>10. CASE ~(content + 2 > stop)
  <2>1. PICK claim \in Nat : claim = s.whole[content + 2] /\ claim = buf[content + 2]
    <3>1. content + 2 \in content + 1..n /\ content + 2 \in 1..n
      BY <1>4, <1>10
    <3>. QED BY <1>7, <3>1
  <2>0. PICK room \in Nat : room = stop - content - 2
    BY <1>4, <1>10
  <2>2. PICK count \in Nat : /\ count = IF claim < room THEN claim ELSE room
                             /\ count <= claim /\ count <= room
    <3>1. CASE claim < room
      BY <3>1
    <3>2. CASE ~(claim < room)
      BY <3>2
    <3>. QED BY <3>1, <3>2
  <2>3. PICK new : new = [k \in 1..n |-> IF k < content + 3 \/ k >= content + 3 + count
                                         THEN buf[k] ELSE Shifted(buf[k], delta, top)]
    OBVIOUS
  <2>4. PatchTable(buf, content, stop, 1, delta) = new
    <3>1. (stop - content - 2) \div 1 = room
      <4>1. room \div 1 = room
        OBVIOUS
      <4>. QED BY <2>0, <4>1
    <3>2. count * 1 = count
      OBVIOUS
    <3>. QED BY <1>5, <1>7, <1>10, <2>1, <2>2, <2>3, <3>1, <3>2 DEF PatchTable
  <2>5. new \in [1..n -> Nat]
    <3>1. ASSUME NEW k \in 1..n PROVE Shifted(buf[k], delta, top) \in Nat
      <4>1. buf[k] \in Nat
        BY <1>7
      <4>. QED BY <4>1 DEF Shifted
    <3>2. \A k \in 1..n : buf[k] \in Nat
      BY <1>7
    <3>3. \A k \in 1..n : new[k] \in Nat
      BY <2>3, <3>1, <3>2
    <3>4. DOMAIN new = 1..n /\ new = [k \in 1..n |-> new[k]]
      BY <2>3
    <3>. QED BY <3>3, <3>4
  <2>6. \A k \in 1..content : new[k] = buf[k]
    BY <1>4, <2>3
  <2>7. \A k \in stop + 1..n : new[k] = buf[k]
    BY <1>4, <2>0, <2>2, <2>3
  <2>8. ASSUME NEW k \in content + 1..stop PROVE new[k] = s.shifted[k]
    <3>1. k \in Nat /\ k \in 1..n /\ k \in content + 1..n /\ k \in content + 1..end
      BY <1>4
    <3>2. k \in Entries(s, b, 1) <=> k >= content + 3 /\ k <= end /\ k < content + 3 + claim
      BY <1>1, <1>2, <2>1, <3>1, NarrowEntries
    <3>3. PICK v \in Nat : v = buf[k] /\ v = s.whole[k]
      BY <1>7, <3>1
    <3>4. Shifted(v, delta, top) = Clamped(v + delta, top)
      BY DEF Shifted, Clamped
    <3>5. CASE k < content + 3 \/ k >= content + 3 + count
      <4>1. k \notin Entries(s, b, 1)
        <5>1. CASE k < content + 3
          BY <3>1, <3>2, <5>1
        <5>2. CASE k >= content + 3 + count
          <6>1. count = claim
            BY <1>4, <2>0, <2>2, <3>1, <5>2
          <6>. QED BY <3>1, <3>2, <5>2, <6>1
        <5>. QED BY <3>5, <5>1, <5>2
      <4>. QED BY <1>8, <2>3, <3>1, <3>3, <3>5, <4>1
    <3>6. CASE ~(k < content + 3 \/ k >= content + 3 + count)
      <4>1. k \in Entries(s, b, 1)
        BY <2>2, <3>1, <3>2, <3>6
      <4>. QED BY <1>8, <2>3, <3>1, <3>3, <3>4, <3>6, <4>1
    <3>. QED BY <3>5, <3>6
  <2>9. \A k \in content + 1..stop : MendedAt(s, k, new[k])
    BY <2>8 DEF MendedAt
  <2>10. Progress(s, new, stop)
    <3>1. Progress(s, buf, content) /\ content <= stop /\ stop <= Len(s.file)
      BY <1>1, <1>3, <1>4
    <3>2. /\ new \in [1..Len(s.file) -> Nat]
          /\ \A k \in stop + 1..Len(s.file) : new[k] = buf[k]
      BY <1>3, <2>5, <2>7
    <3>. QED BY <1>4, <2>6, <2>9, <3>1, <3>2, ProgressMade
  <2>. QED BY <1>1, <1>6, <2>4, <2>10
<1>. QED BY <1>9, <1>10

WideEntry(s, b, content, end, claim, k) ==
  k \in Entries(s, b, 2) <=>
    \E e \in Nat : k = content + 3 + 2 * e /\ e < claim /\ k + 1 <= end

LEMMA WideEntries ==
  ASSUME NEW s, NEW b, NEW content \in Nat, content = b.content, NEW end \in Nat, end = b.end,
         NEW claim \in Nat, claim = s.whole[content + 2]
  PROVE  \A k \in Nat : WideEntry(s, b, content, end, claim, k)
<1> SUFFICES ASSUME NEW k \in Nat
             PROVE  k \in Entries(s, b, 2) <=>
                      \E e \in Nat : k = content + 3 + 2 * e /\ e < claim /\ k + 1 <= end
  BY DEF WideEntry
<1>1. ASSUME k \in Entries(s, b, 2)
      PROVE  \E e \in Nat : k = content + 3 + 2 * e /\ e < claim /\ k + 1 <= end
  <2>1. /\ k >= content + 3 /\ k <= end + 1 - 2
        /\ (k - (content + 3)) % 2 = 0 /\ (k - (content + 3)) \div 2 < claim
    BY <1>1 DEF Entries
  <2>2. PICK d \in Nat : d = k - (content + 3)
    BY <2>1
  <2>3. PICK e \in Nat : e = d \div 2
    OBVIOUS
  <2>4. d = 2 * e /\ e < claim
    BY <2>1, <2>2, <2>3
  <2>5. k = content + 3 + 2 * e /\ e < claim /\ k + 1 <= end
    BY <2>1, <2>2, <2>4
  <2>. QED BY <2>5
<1>2. ASSUME NEW e \in Nat, k = content + 3 + 2 * e, e < claim, k + 1 <= end
      PROVE  k \in Entries(s, b, 2)
  <2>1. k - (content + 3) = 2 * e /\ k \in content + 3..end + 1 - 2
    BY <1>2
  <2>2. (2 * e) % 2 = 0 /\ (2 * e) \div 2 = e
    OBVIOUS
  <2>. QED BY <1>2, <2>1, <2>2 DEF Entries
<1>. QED BY <1>1, <1>2

Spells(top, high, low, v) == v = high * top + low

(* Two words are the quotient and the rest of the number they spell.       *)
LEMMA WordsOf ==
  ASSUME NEW top \in Nat \ {0}, NEW high \in Nat, NEW low \in 0..top - 1,
         NEW v, Spells(top, high, low, v)
  PROVE  v \in Nat /\ v \div top = high /\ v % top = low
<1>1. PICK m \in Nat : m = high * top
  OBVIOUS
<1>2. v \in Nat /\ high * top <= v /\ v < (high + 1) * top
  <2>1. (high + 1) * top = m + top
    BY <1>1
  <2>. QED BY <1>1, <2>1 DEF Spells
<1>3. v \div top = high
  BY <1>2, QuotientIs
<1>4. v = top * (v \div top) + (v % top)
  BY <1>2
<1>5. v % top \in 0..top - 1
  BY <1>2
<1>6. v % top = low
  <2>1. v = top * high + low /\ v = top * high + (v % top)
    BY <1>3, <1>4 DEF Spells
  <2>. QED BY <1>5, <2>1
<1>. QED BY <1>2, <1>3, <1>6

(* An entry of two words is shifted as the number it spells.               *)
LEMMA EntryShifted ==
  ASSUME NEW top \in Nat \ {0}, top = WordTop, NEW v \in Nat, NEW delta \in Int,
         2 * v < WordTop * WordTop, 2 * (v + delta) < WordTop * WordTop,
         NEW high \in Nat, NEW low \in 0..top - 1,
         Spells(top, high, low, Clamped(v + delta, WordTop * WordTop))
  PROVE  ShiftedWide(v, delta) \div top = high /\ ShiftedWide(v, delta) % top = low
<1>1. PICK range \in Nat : range = WordTop * WordTop
  OBVIOUS
<1>2. ShiftedWide(v, delta) = IF 2 * (v + delta) \in 0..range - 1 THEN v + delta ELSE 0
  BY <1>1 DEF ShiftedWide
<1>3. Clamped(v + delta, range) = IF v + delta < 0 THEN 0 ELSE v + delta
  BY <1>1 DEF Clamped
<1>4. ShiftedWide(v, delta) = high * top + low
  BY <1>1, <1>2, <1>3 DEF Spells
<1>5. PICK u : u = ShiftedWide(v, delta)
  OBVIOUS
<1>6. Spells(top, high, low, u)
  BY <1>4, <1>5 DEF Spells
<1>7. u \div top = high /\ u % top = low
  BY <1>6, WordsOf
<1>. QED BY <1>5, <1>7

(* The entries of two words.                                               *)
LEMMA WidePatched ==
  ASSUME NEW s, Mp4Sample(s), NEW b, NEW stop, Inside(s, b, stop), b.type = Co64,
         NEW buf, Progress(s, buf, b.content)
  PROVE  Progress(s, PatchTable(buf, b.content, stop, 2, s.delta), stop)
<1>1. PICK content \in Nat : content = b.content
  BY BoxFacts DEF Inside
<1>2. PICK end \in Nat : end = b.end /\ end <= Len(s.whole)
  BY BoxFacts, FileWords DEF Inside
<1>3. PICK n \in Nat : n = Len(s.file) /\ n <= Len(s.whole)
  BY FileWords
<1>4. stop \in Nat /\ stop <= end /\ stop <= n /\ content <= stop /\ (stop < end => stop = n)
  BY <1>1, <1>2, <1>3 DEF Inside, Smaller
<1>5. PICK top \in Nat \ {0} : top = WordTop
  BY Mp4Assumption
<1>6. PICK delta \in Int : delta = s.delta
  BY FileWords
<1>7. /\ buf \in Seq(Nat) /\ Len(buf) = n /\ DOMAIN buf = 1..n
      /\ \A k \in content + 1..n : buf[k] = s.whole[k] /\ buf[k] = s.file[k]
  BY <1>1, <1>3, FileWords DEF Progress
<1>8. /\ \A k \in Entries(s, b, 2) :
           /\ 2 * WideAt(s.whole, k) < WordTop * WordTop
           /\ 2 * (WideAt(s.whole, k) + delta) < WordTop * WordTop
           /\ WideAt(s.shifted, k) = Clamped(WideAt(s.whole, k) + delta, WordTop * WordTop)
      /\ \A k \in content + 1..end :
           k \in Entries(s, b, 2) \/ k - 1 \in Entries(s, b, 2) \/ s.shifted[k] = s.whole[k]
  <2>1. b.type \notin Containers /\ b.type # Stco /\ SoundBox(s, b)
    BY BoxFacts, Mp4Assumption DEF Inside
  <2>2. WideTable(s, b)
    BY <2>1 DEF SoundBox
  <2>. QED BY <1>1, <1>2, <1>6, <2>2 DEF WideTable
<1>9. CASE content + 2 > stop
  <2>1. ASSUME NEW k \in content + 1..stop PROVE s.shifted[k] = s.whole[k]
    <3>1. k \notin Entries(s, b, 2) /\ k - 1 \notin Entries(s, b, 2)
      BY <1>1, <1>9, <1>4 DEF Entries
    <3>2. k \in content + 1..end
      BY <1>4
    <3>. QED BY <1>8, <3>1, <3>2
  <2>2. Same(s, content + 1, stop)
    BY <2>1 DEF Same
  <2>3. Progress(s, buf, stop)
    BY <1>1, <1>3, <1>4, <2>2, ProgressOn
  <2>. QED BY <1>1, <1>9, <2>3 DEF PatchTable
<1>10. CASE ~(content + 2 > stop)
  <2>1. PICK claim \in Nat : claim = s.whole[content + 2] /\ claim = buf[content + 2]
    <3>1. content + 2 \in content + 1..n /\ content + 2 \in 1..n
      BY <1>4, <1>10
    <3>. QED BY <1>7, <3>1
  <2>2. PICK room \in Nat : /\ room = (stop - content - 2) \div 2
                            /\ 2 * room <= stop - content - 2 /\ stop - content - 3 <= 2 * room
    <3>1. PICK d \in Nat : d = stop - content - 2
      BY <1>4, <1>10
    <3>2. d \div 2 \in Nat /\ 2 * (d \div 2) <= d /\ d - 1 <= 2 * (d \div 2)
      OBVIOUS
    <3>3. d - 1 = stop - content - 3
      BY <1>4, <3>1
    <3>. QED BY <3>1, <3>2, <3>3
  <2>3. PICK count \in Nat : /\ count = IF claim < room THEN claim ELSE room
                             /\ count <= claim /\ count <= room
    <3>1. CASE claim < room
      BY <3>1
    <3>2. CASE ~(claim < room)
      BY <3>2
    <3>. QED BY <3>1, <3>2
  <2>4. PICK first \in Nat : first = content + 3
    OBVIOUS
  <2>5. first + 2 * count <= stop + 1
    BY <1>4, <2>2, <2>3, <2>4
  <2> DEFINE at(k) == content + 3 + 2 * ((k - (content + 3)) \div 2)
             value(k) == ShiftedWide(buf[at(k)] * WordTop + buf[at(k) + 1], delta)
             patched(k) == IF (k - (content + 3)) % 2 = 0 THEN value(k) \div WordTop
                           ELSE value(k) % WordTop
  <2>6. PICK new : new = [k \in 1..n |-> IF k < content + 3 \/ k >= content + 3 + count * 2
                                         THEN buf[k] ELSE patched(k)]
    OBVIOUS
  <2>7. PatchTable(buf, content, stop, 2, delta) = new
    <3>1. count = IF buf[content + 2] < (stop - content - 2) \div 2 THEN buf[content + 2]
                  ELSE (stop - content - 2) \div 2
      BY <2>1, <2>2, <2>3
    <3>. QED BY <1>7, <1>10, <2>6, <3>1 DEF PatchTable
  <2> HIDE DEF patched
  <2>14. \A k \in 1..n : new[k] = IF k < first \/ k >= first + 2 * count THEN buf[k] ELSE patched(k)
    <3>1. first + 2 * count = content + 3 + count * 2
      BY <2>4
    <3>. QED BY <2>4, <2>6, <3>1
  <2>15. DOMAIN new = 1..n /\ new = [k \in 1..n |-> new[k]]
    BY <2>6
  <2> USE DEF patched
  <2>8. ASSUME NEW k \in 1..n, ~(k < first), ~(k >= first + 2 * count)
        PROVE  patched(k) = s.shifted[k] /\ s.shifted[k] \in Nat
    <3>1. PICK d \in Nat : d = k - first /\ k = first + d
      BY <2>4, <2>8
    <3>2. PICK e \in Nat : e = d \div 2 /\ (d = 2 * e \/ d = 2 * e + 1)
      OBVIOUS
    <3>3. PICK p \in Nat : p = first + 2 * e /\ p = at(k)
      <4>1. k - (content + 3) = d
        BY <2>4, <3>1
      <4>. QED BY <2>4, <3>2, <4>1
    <3>4. e < count /\ p \in content + 1..n /\ p + 1 \in content + 1..n /\ p + 1 <= end
      BY <1>4, <2>4, <2>5, <2>8, <3>1, <3>2, <3>3
    <3>5. p \in Entries(s, b, 2)
      <4>1. p = content + 3 + 2 * e /\ e < claim
        BY <2>3, <2>4, <3>3, <3>4
      <4>2. WideEntry(s, b, content, end, claim, p)
        BY <1>1, <1>2, <2>1, WideEntries
      <4>. QED BY <3>2, <3>4, <4>1, <4>2 DEF WideEntry
    <3>6. PICK v \in Nat : v = WideAt(s.whole, p) /\ v = buf[p] * top + buf[p + 1]
      <4>1. PICK x, y \in Nat : x = buf[p] /\ y = buf[p + 1] /\ x = s.whole[p] /\ y = s.whole[p + 1]
        <5>1. p \in 1..n /\ p + 1 \in 1..n
          BY <3>4
        <5>. QED BY <1>7, <3>4, <5>1
      <4>2. x * top + y \in Nat
        OBVIOUS
      <4>. QED BY <1>5, <4>1, <4>2 DEF WideAt
    <3>7. PICK high, low \in 0..top - 1 : high = s.shifted[p] /\ low = s.shifted[p + 1]
      <4>1. p \in 1..Len(s.whole) /\ p + 1 \in 1..Len(s.whole)
        BY <1>2, <3>3, <3>4, FileWords
      <4>. QED BY <1>5, <4>1, FileWords
    <3>8. /\ 2 * v < WordTop * WordTop /\ 2 * (v + delta) < WordTop * WordTop
          /\ Spells(top, high, low, Clamped(v + delta, WordTop * WordTop))
      <4>1. WideAt(s.shifted, p) = high * top + low
        BY <1>5, <3>7 DEF WideAt
      <4>. QED BY <1>8, <3>5, <3>6, <4>1 DEF Spells
    <3>9. ShiftedWide(v, delta) \div top = high /\ ShiftedWide(v, delta) % top = low
      BY <1>5, <3>8, EntryShifted
    <3> HIDE DEF at
    <3>10. value(k) = ShiftedWide(v, delta)
      BY <1>5, <3>3, <3>6
    <3> HIDE DEF value
    <3>11. CASE d = 2 * e
      <4>1. (k - (content + 3)) % 2 = 0 /\ k = p
        <5>1. k - (content + 3) = 2 * e /\ (2 * e) % 2 = 0
          BY <2>4, <3>1, <3>11
        <5>. QED BY <3>1, <3>3, <3>11, <5>1
      <4>. QED BY <1>5, <3>7, <3>9, <3>10, <4>1
    <3>12. CASE d = 2 * e + 1
      <4>1. (k - (content + 3)) % 2 # 0 /\ k = p + 1
        <5>1. k - (content + 3) = 2 * e + 1 /\ (2 * e + 1) % 2 = 1
          BY <2>4, <3>1, <3>12
        <5>. QED BY <3>1, <3>3, <3>12, <5>1
      <4>. QED BY <1>5, <3>7, <3>9, <3>10, <4>1
    <3>. QED BY <3>2, <3>11, <3>12
  <2> HIDE DEF patched
  <2>9. new \in [1..n -> Nat]
    <3>1. ASSUME NEW k \in 1..n PROVE new[k] \in Nat
      BY <1>7, <2>8, <2>14
    <3>. QED BY <2>15, <3>1
  <2>10. \A k \in 1..content : new[k] = buf[k]
    BY <1>4, <2>4, <2>14
  <2>11. \A k \in stop + 1..n : new[k] = buf[k]
    BY <1>4, <2>5, <2>14
  <2>12. ASSUME NEW k \in content + 1..stop PROVE MendedAt(s, k, new[k])
    <3>1. k \in Nat /\ k - 1 \in Nat /\ k \in 1..n /\ k \in content + 1..n /\ k \in content + 1..end
      BY <1>4
    <3>0. WideEntry(s, b, content, end, claim, k) /\ WideEntry(s, b, content, end, claim, k - 1)
      BY <1>1, <1>2, <2>1, <3>1, WideEntries
    <3>2. /\ k \in Entries(s, b, 2) <=> \E e \in Nat : k = content + 3 + 2 * e /\ e < claim /\ k + 1 <= end
          /\ k - 1 \in Entries(s, b, 2) <=>
               \E e \in Nat : k - 1 = content + 3 + 2 * e /\ e < claim /\ (k - 1) + 1 <= end
      BY <3>0 DEF WideEntry
    <3>3. CASE ~(k < first \/ k >= first + 2 * count)
      BY <2>8, <2>14, <3>1, <3>3 DEF MendedAt
    <3>4. CASE k < first \/ k >= first + 2 * count
      <4>1. new[k] = s.whole[k] /\ new[k] = s.file[k]
        BY <1>7, <2>14, <3>1, <3>4
      <4>2. k - 1 \notin Entries(s, b, 2)
        <5> SUFFICES ASSUME NEW e \in Nat, k - 1 = content + 3 + 2 * e, e < claim PROVE FALSE
          BY <3>2
        <5>1. k = first + 2 * e + 1 /\ ~(k < first)
          BY <2>4, <3>1
        <5>2. count <= e
          BY <3>4, <5>1
        <5>3. count = room
          BY <2>3, <5>2
        <5>. QED BY <1>4, <2>2, <2>4, <5>1, <5>2, <5>3
      <4>3. CASE k \in Entries(s, b, 2)
        <5>1. PICK e \in Nat : k = content + 3 + 2 * e /\ e < claim /\ k + 1 <= end
          BY <3>2, <4>3
        <5>2. k = first + 2 * e /\ ~(k < first)
          BY <2>4, <5>1
        <5>3. count <= e
          BY <3>4, <5>2
        <5>4. count = room
          BY <2>3, <5>1, <5>3
        <5>5. k = stop
          BY <1>4, <2>2, <2>4, <3>1, <5>2, <5>3, <5>4
        <5>6. k = n
          BY <1>4, <5>1, <5>5
        <5>7. HalfEntry(s)
          BY <1>3, <4>3, <5>6 DEF HalfEntry, Inside
        <5>. QED BY <1>3, <4>1, <5>6, <5>7 DEF MendedAt
      <4>4. CASE k \notin Entries(s, b, 2)
        BY <1>8, <3>1, <4>1, <4>2, <4>4 DEF MendedAt
      <4>. QED BY <4>3, <4>4
    <3>. QED BY <3>3, <3>4
  <2>13. Progress(s, new, stop)
    <3>1. Progress(s, buf, content) /\ content <= stop /\ stop <= Len(s.file)
      BY <1>1, <1>3, <1>4
    <3>2. /\ new \in [1..Len(s.file) -> Nat]
          /\ \A k \in stop + 1..Len(s.file) : new[k] = buf[k]
      BY <1>3, <2>9, <2>11
    <3>. QED BY <1>4, <2>10, <2>12, <3>1, <3>2, ProgressMade
  <2>. QED BY <1>1, <1>6, <2>7, <2>13
<1>. QED BY <1>9, <1>10

(* What the header of a box says, read from a buffer that is repaired up   *)
(* to it and ends with what the box is in, or with the file.               *)
HeadRead(s, b, end, h) ==
  IF h.valid
  THEN /\ h.type = b.type /\ b.at + h.header = b.content /\ h.total \in Nat \ {0}
       /\ b.content <= end
       /\ Smaller(b.end, Len(s.file)) = IF b.at + h.total < end THEN b.at + h.total ELSE end
  ELSE end = Len(s.file) /\ end < b.content

LEMMA HeaderRead ==
  ASSUME NEW s, Mp4Sample(s), NEW b \in s.boxes, NEW end \in Nat,
         end = Smaller(b.limit, Len(s.file)), b.at < end, NEW buf, Progress(s, buf, b.at)
  PROVE  HeadRead(s, b, end, HeaderAt(SubSeq(buf, 1, end), b.at))
<1>1. PICK n \in Nat : n = Len(s.file)
  BY FileWords
<1>2. PICK at, content, stop, limit, type \in Nat :
        /\ at = b.at /\ content = b.content /\ stop = b.end /\ limit = b.limit /\ type = b.type
        /\ at < content /\ content <= stop /\ stop <= limit
  BY BoxFacts
<1>3. PICK top \in Nat \ {0} : top = WordTop
  BY Mp4Assumption
<1>4. PICK words : words = SubSeq(buf, 1, end)
  OBVIOUS
<1>5. end <= n /\ (end < limit => end = n) /\ end <= limit
  BY <1>1, <1>2 DEF Smaller
<1>6. words = [k \in 1..end |-> buf[k]] /\ Len(words) = end
  <2>1. buf \in Seq(Nat) /\ Len(buf) = n
    BY <1>1 DEF Progress
  <2>. QED BY <1>4, <1>5, <2>1
<1>7. \A k \in at + 1..end : words[k] = s.whole[k] /\ words[k] \in 0..top - 1
  <2> SUFFICES ASSUME NEW k \in at + 1..end PROVE words[k] = s.whole[k] /\ words[k] \in 0..top - 1
    OBVIOUS
  <2>1. k \in 1..n /\ k \in 1..end /\ ~(k <= at)
    BY <1>5
  <2>2. buf[k] = s.file[k]
    BY <1>1, <1>2, <2>1 DEF Progress
  <2>3. n <= Len(s.whole) /\ Len(s.whole) \in Nat /\ s.file[k] = s.whole[k]
    BY <1>1, <2>1, FileWords
  <2>4. k \in 1..Len(s.whole)
    BY <2>1, <2>3
  <2>. QED BY <1>3, <1>6, <2>1, <2>2, <2>3, <2>4, FileWords
<1>8. /\ s.whole[at + 2] = type
      /\ \/ s.whole[at + 1] = stop - at /\ content = at + 2
         \/ s.whole[at + 1] = 0 /\ content = at + 2 /\ stop = limit
         \/ s.whole[at + 1] = 1 /\ content = at + 4 /\ WideAt(s.whole, at + 3) = stop - at
  <2>1. Heads(s, b)
    BY BoxFacts DEF SoundBox
  <2>. QED BY <1>2, <2>1 DEF Heads
<1>9. content >= at + 2
  BY <1>8
<1>10. PICK h : h = HeaderAt(words, at)
  OBVIOUS
<1>11. SUFFICES HeadRead(s, b, end, h)
  BY <1>2, <1>4, <1>10
<1>12. CASE at + 2 > end
  <2>1. h = NoHeader
    BY <1>6, <1>10, <1>12 DEF HeaderAt
  <2>2. end = n /\ end < content
    BY <1>2, <1>5, <1>9, <1>12
  <2>. QED BY <1>1, <1>2, <2>1, <2>2 DEF HeadRead, NoHeader
<1>13. CASE ~(at + 2 > end)
  <2>1. PICK size \in Nat : size = words[at + 1] /\ size = s.whole[at + 1]
    <3>1. at + 1 \in at + 1..end
      BY <1>13
    <3>. QED BY <1>7, <3>1
  <2>2. words[at + 2] = type
    <3>1. at + 2 \in at + 1..end
      BY <1>13
    <3>. QED BY <1>7, <1>8, <3>1
  <2>3. ~(at + 2 > Len(words)) /\ words[at + 1] = size
    BY <1>6, <1>13, <2>1
  <2>8. PICK wide : wide = words[at + 3] * WordTop + words[at + 4]
    OBVIOUS
  <2>4. HeaderAt(words, at) =
          CASE size = 0 -> [type |-> type, header |-> 2, total |-> end - at, valid |-> TRUE]
            [] size = 1 -> IF at + 4 > end THEN NoHeader
                           ELSE [type |-> type, header |-> 4,
                                 total |-> wide, valid |-> TRUE]
            [] OTHER    -> [type |-> type, header |-> 2, total |-> size, valid |-> TRUE]
    BY <1>6, <2>2, <2>3, <2>8 DEF HeaderAt
  <2>5. CASE size = 0
    <3>1. h = [type |-> type, header |-> 2, total |-> end - at, valid |-> TRUE]
      BY <1>10, <2>4, <2>5
    <3>2. content = at + 2 /\ stop = limit
      BY <1>2, <1>8, <2>1, <2>5
    <3>3. end - at \in Nat \ {0} /\ content <= end
      BY <1>13, <3>2
    <3>4. Smaller(stop, n) = end
      BY <1>1, <1>2, <3>2
    <3>5. ~(at + (end - at) < end)
      OBVIOUS
    <3>. QED BY <1>1, <1>2, <3>1, <3>2, <3>3, <3>4, <3>5 DEF HeadRead
  <2>6. CASE size = 1
    <3>1. content = at + 4 /\ WideAt(s.whole, at + 3) = stop - at
      BY <1>2, <1>8, <2>1, <2>6
    <3>2. CASE at + 4 > end
      <4>1. h = NoHeader
        BY <1>10, <2>4, <2>6, <3>2
      <4>2. end = n /\ end < content
        BY <1>2, <1>5, <3>1, <3>2
      <4>. QED BY <1>1, <1>2, <4>1, <4>2 DEF HeadRead, NoHeader
    <3>3. CASE ~(at + 4 > end)
      <4>1. words[at + 3] = s.whole[at + 3] /\ words[at + 4] = s.whole[at + 4]
        <5>1. at + 3 \in at + 1..end /\ at + 4 \in at + 1..end
          BY <3>3
        <5>. QED BY <1>7, <5>1
      <4>2. wide = stop - at
        <5>1. (at + 3) + 1 = at + 4
          OBVIOUS
        <5>. QED BY <2>8, <3>1, <4>1, <5>1 DEF WideAt
      <4>3. h = [type |-> type, header |-> 4, total |-> stop - at, valid |-> TRUE]
        BY <1>10, <2>4, <2>6, <3>3, <4>2
      <4>4. stop - at \in Nat \ {0} /\ content <= end /\ at + (stop - at) = stop
        <5>1. content <= end
          BY <3>1, <3>3
        <5>2. at < stop
          BY <1>2
        <5>3. stop - at \in Nat \ {0} /\ at + (stop - at) = stop
          BY <5>2
        <5>. QED BY <5>1, <5>3
      <4>5. Smaller(stop, n) = IF stop < end THEN stop ELSE end
        BY <1>2, <1>5 DEF Smaller
      <4>. QED BY <1>1, <1>2, <3>1, <4>3, <4>4, <4>5 DEF HeadRead
    <3>. QED BY <3>2, <3>3
  <2>7. CASE size # 0 /\ size # 1
    <3>1. h = [type |-> type, header |-> 2, total |-> size, valid |-> TRUE]
      BY <1>10, <2>4, <2>7
    <3>2. content = at + 2 /\ size = stop - at /\ at + size = stop
      BY <1>2, <1>8, <2>1, <2>7
    <3>3. content <= end
      BY <1>13, <3>2
    <3>4. Smaller(stop, n) = IF stop < end THEN stop ELSE end
      BY <1>2, <1>5 DEF Smaller
    <3>. QED BY <1>1, <1>2, <2>7, <3>1, <3>2, <3>3, <3>4 DEF HeadRead
  <2>. QED BY <2>5, <2>6, <2>7
<1>. QED BY <1>12, <1>13

(* Where patch_range may be called: at the end of what it is to repair, or *)
(* at a box in it.                                                         *)
Starts(s, off, end) ==
  off = end \/ \E b \in s.boxes : b.at = off /\ end = Smaller(b.limit, Len(s.file))

LEMMA StartsAt ==
  ASSUME NEW s, Mp4Sample(s), NEW at \in Nat, NEW limit \in Nat, at <= limit, BoxAt(s, at, limit),
         NEW n \in Nat, n = Len(s.file)
  PROVE  Starts(s, Smaller(at, n), Smaller(limit, n))
<1>1. CASE at = limit
  BY <1>1 DEF Starts
<1>2. ASSUME NEW b \in s.boxes, b.at = at, b.limit = limit
      PROVE  Starts(s, Smaller(at, n), Smaller(limit, n))
  <2>1. CASE at <= n
    <3>1. Smaller(at, n) = at
      BY <2>1 DEF Smaller
    <3>. QED BY <1>2, <3>1 DEF Starts
  <2>2. CASE ~(at <= n)
    <3>1. Smaller(at, n) = n /\ Smaller(limit, n) = n
      BY <2>2 DEF Smaller
    <3>. QED BY <3>1 DEF Starts
  <2>. QED BY <2>1, <2>2
<1>. QED BY <1>1, <1>2 DEF BoxAt

(* A function that repairs what is no longer than m words.                 *)
Repairs(s, f, m) ==
  \A buf \in Seq(Nat) : \A off, end \in Nat :
    off <= end /\ end <= Len(s.file) /\ end <= off + m /\ Starts(s, off, end) /\ Progress(s, buf, off)
      => Progress(s, f[[buf |-> buf, off |-> off, end |-> end]], end)

(* One call repairs a word more than the calls it makes.                   *)
LEMMA CallRepairs ==
  ASSUME NEW s, Mp4Sample(s), NEW f, NEW m \in Nat, Repairs(s, f, m),
         NEW buf \in Seq(Nat), NEW off \in Nat, NEW end \in Nat,
         off <= end, end <= Len(s.file), end <= off + m + 1,
         Starts(s, off, end), Progress(s, buf, off)
  PROVE  Progress(s, PatchRange(f, [buf |-> buf, off |-> off, end |-> end], s.delta), end)
<1>1. PICK n \in Nat : n = Len(s.file)
  BY FileWords
<1>2. PICK delta : delta = s.delta
  OBVIOUS
<1>3. PICK h : h = HeaderAt(SubSeq(buf, 1, end), off)
  OBVIOUS
<1>4. PICK boxEnd : boxEnd = IF off + h.total < end THEN off + h.total ELSE end
  OBVIOUS
<1>5. PICK content : content = off + h.header
  OBVIOUS
<1>6. PICK c : c = [buf |-> buf, off |-> off, end |-> end]
  OBVIOUS
<1>7. c.buf = buf /\ c.off = off /\ c.end = end
  BY <1>6
<1>8. SUFFICES Progress(s, PatchRange(f, c, delta), end)
  BY <1>2, <1>6
<1>9. PICK inner : inner = CASE h.type = Stco -> PatchTable(buf, content, boxEnd, 1, delta)
                             [] h.type = Co64 -> PatchTable(buf, content, boxEnd, 2, delta)
                             [] h.type \in Containers ->
                                  f[[buf |-> buf, off |-> content, end |-> boxEnd]]
                             [] OTHER -> buf
  OBVIOUS
<1>10. PatchRange(f, c, delta) = IF off >= end \/ ~h.valid \/ h.total = 0 THEN buf
                                 ELSE f[[buf |-> inner, off |-> boxEnd, end |-> end]]
  BY <1>3, <1>4, <1>5, <1>7, <1>9 DEF PatchRange
<1>11. CASE off >= end
  <2>1. off = end
    BY <1>11
  <2>. QED BY <1>10, <1>11, <2>1
<1>12. CASE ~(off >= end)
  <2>1. PICK b \in s.boxes : b.at = off /\ end = Smaller(b.limit, n)
    BY <1>1, <1>12 DEF Starts
  <2>2. HeadRead(s, b, end, h)
    <3>1. b.at < end /\ end = Smaller(b.limit, Len(s.file)) /\ Progress(s, buf, b.at)
      BY <1>1, <1>12, <2>1
    <3>2. HeadRead(s, b, end, HeaderAt(SubSeq(buf, 1, end), b.at))
      BY <3>1, HeaderRead
    <3>. QED BY <1>3, <2>1, <3>2
  <2>3. PICK inside, stop, limit \in Nat :
          /\ inside = b.content /\ stop = b.end /\ limit = b.limit
          /\ off < inside /\ inside <= stop /\ stop <= limit
    BY <2>1, BoxFacts
  <2>4. /\ Same(s, off + 1, inside) /\ BoxAt(s, stop, limit)
        /\ IF b.type \in Containers THEN BoxAt(s, inside, stop)
           ELSE IF b.type = Stco THEN NarrowTable(s, b)
           ELSE IF b.type = Co64 THEN WideTable(s, b)
           ELSE Same(s, inside + 1, stop)
    <3>1. SoundBox(s, b)
      BY BoxFacts
    <3>. QED BY <2>1, <2>3, <3>1 DEF SoundBox
  <2>5. CASE ~h.valid
    <3>1. end = n /\ end < inside
      BY <1>1, <2>2, <2>3, <2>5 DEF HeadRead
    <3>2. Same(s, off + 1, end)
      BY <2>4, <3>1 DEF Same
    <3>3. Progress(s, buf, end)
      BY <3>2, ProgressOn
    <3>. QED BY <1>10, <2>5, <3>3
  <2>6. CASE h.valid
    <3>1. /\ h.type = b.type /\ content = inside /\ h.total \in Nat \ {0} /\ inside <= end
          /\ boxEnd = Smaller(stop, n)
      BY <1>1, <1>4, <1>5, <2>1, <2>2, <2>3, <2>6 DEF HeadRead
    <3>2. boxEnd \in Nat /\ off < boxEnd /\ inside <= boxEnd /\ boxEnd <= end /\ boxEnd <= n /\ boxEnd <= stop
      <4>1. PICK total \in Nat \ {0} : total = h.total
        BY <3>1
      <4>2. end <= n
        BY <1>1
      <4>3. boxEnd = IF off + total < end THEN off + total ELSE end
        BY <1>4, <4>1
      <4>4. boxEnd \in Nat /\ off < boxEnd /\ boxEnd <= end
        BY <1>12, <4>3
      <4>5. inside <= boxEnd /\ boxEnd <= n /\ boxEnd <= stop
        BY <2>3, <3>1, <4>2 DEF Smaller
      <4>. QED BY <4>4, <4>5
    <3>3. Inside(s, b, boxEnd)
      BY <1>1, <2>3, <3>1, <3>2 DEF Inside
    <3>4. Progress(s, buf, inside)
      <4>1. off <= inside /\ inside <= Len(s.file)
        BY <1>1, <2>3, <3>2
      <4>. QED BY <2>4, <4>1, ProgressOn
    <3>5. Progress(s, inner, boxEnd)
      <4>1. CASE b.type = Stco
        <5>1. inner = PatchTable(buf, b.content, boxEnd, 1, s.delta)
          BY <1>2, <1>9, <2>3, <3>1, <4>1, Mp4Assumption
        <5>2. Progress(s, buf, b.content)
          BY <2>3, <3>4
        <5>. QED BY <3>3, <4>1, <5>1, <5>2, NarrowPatched
      <4>2. CASE b.type = Co64
        <5>1. inner = PatchTable(buf, b.content, boxEnd, 2, s.delta)
          BY <1>2, <1>9, <2>3, <3>1, <4>2, Mp4Assumption
        <5>2. Progress(s, buf, b.content)
          BY <2>3, <3>4
        <5>. QED BY <3>3, <4>2, <5>1, <5>2, WidePatched
      <4>3. CASE b.type \in Containers
        <5>1. inner = f[[buf |-> buf, off |-> inside, end |-> boxEnd]]
          BY <1>9, <3>1, <4>3, Mp4Assumption
        <5>2. Starts(s, inside, boxEnd)
          <6>1. Starts(s, Smaller(inside, n), Smaller(stop, n))
            BY <1>1, <2>3, <2>4, <4>3, StartsAt
          <6>2. Smaller(inside, n) = inside
            BY <3>2 DEF Smaller
          <6>. QED BY <3>1, <6>1, <6>2
        <5>3. boxEnd <= inside + m
          BY <2>3, <3>2
        <5>. QED BY <1>1, <2>3, <3>2, <3>4, <5>1, <5>2, <5>3 DEF Repairs
      <4>4. CASE b.type \notin Containers /\ b.type # Stco /\ b.type # Co64
        <5>1. inner = buf
          BY <1>9, <3>1, <4>4
        <5>2. Same(s, inside + 1, boxEnd)
          BY <2>3, <2>4, <3>2, <4>4 DEF Same
        <5>3. inside <= boxEnd /\ boxEnd <= Len(s.file)
          BY <1>1, <3>2
        <5>. QED BY <2>3, <3>2, <3>4, <5>1, <5>2, <5>3, ProgressOn
      <4>. QED BY <4>1, <4>2, <4>3, <4>4
    <3>6. Starts(s, boxEnd, end)
      <4>1. Starts(s, Smaller(stop, n), Smaller(limit, n))
        BY <1>1, <2>3, <2>4, StartsAt
      <4>. QED BY <2>1, <2>3, <3>1, <4>1
    <3>7. inner \in Seq(Nat) /\ end <= boxEnd + m
      BY <3>2, <3>5 DEF Progress
    <3>8. Progress(s, f[[buf |-> inner, off |-> boxEnd, end |-> end]], end)
      BY <3>2, <3>5, <3>6, <3>7 DEF Repairs
    <3>9. ~(off >= end \/ ~h.valid \/ h.total = 0)
      BY <1>12, <2>6, <3>1
    <3>. QED BY <1>10, <3>8, <3>9
  <2>. QED BY <2>5, <2>6
<1>. QED BY <1>11, <1>12

(* The call of rewrite_chunk_offsets, on the whole buffer, repairs it.     *)
LEMMA FileRepaired ==
  ASSUME NEW s, Mp4Sample(s)
  PROVE  Progress(s, RewriteChunkOffsets(s.file, s.delta), Len(s.file))
<1>1. PICK n \in Nat : n = Len(s.file) /\ s.file \in Seq(Nat) /\ n <= Len(s.whole)
  BY FileWords
<1>2. PICK delta : delta = s.delta
  OBVIOUS
<1> DEFINE Turn(g, i) == [c \in Calls |-> IF i = 0 THEN c.buf ELSE PatchRange(g, c, delta)]
           Solves(g, k) == g = [i \in 0..k |-> Turn(g[i - 1], i)]
<1>3. \E g : Solves(g, 0)
  <2>1. PICK g : g = [i \in 0..0 |-> [c \in Calls |-> c.buf]]
    OBVIOUS
  <2>2. ASSUME NEW i \in 0..0 PROVE g[i] = Turn(g[i - 1], i)
    <3>1. i = 0 /\ g[i] = [c \in Calls |-> c.buf]
      BY <2>1
    <3>. QED BY <3>1
  <2>3. g = [i \in 0..0 |-> g[i]]
    BY <2>1
  <2> HIDE DEF Turn
  <2>. QED BY <2>2, <2>3
<1>4. ASSUME NEW k \in Nat, NEW f, Solves(f, k) PROVE \E g : Solves(g, k + 1)
  <2> HIDE DEF Turn
  <2>1. PICK g : g = [i \in 0..k + 1 |-> IF i = k + 1 THEN Turn(f[k], i) ELSE f[i]]
    OBVIOUS
  <2>2. ASSUME NEW i \in 0..k + 1 PROVE g[i] = Turn(g[i - 1], i)
    <3>1. CASE i = k + 1
      <4>1. k \in 0..k + 1 /\ k # k + 1 /\ i - 1 = k
        BY <3>1
      <4>2. g[k] = f[k] /\ g[i] = Turn(f[k], i)
        BY <2>1, <3>1, <4>1
      <4>. QED BY <4>1, <4>2
    <3>2. CASE i # k + 1 /\ i # 0
      <4>1. i \in 0..k /\ i - 1 \in 0..k + 1 /\ i - 1 # k + 1
        BY <3>2
      <4>2. f[i] = Turn(f[i - 1], i)
        BY <1>4, <4>1
      <4>. QED BY <2>1, <3>2, <4>1, <4>2
    <3>3. CASE i # k + 1 /\ i = 0
      <4>1. i \in 0..k /\ g[i] = f[i]
        BY <2>1, <3>3
      <4>2. f[i] = Turn(f[i - 1], i)
        BY <1>4, <4>1
      <4>3. Turn(f[i - 1], i) = Turn(g[i - 1], i)
        BY <3>3 DEF Turn
      <4>. QED BY <4>1, <4>2, <4>3
    <3>. QED BY <3>1, <3>2, <3>3
  <2>3. g = [i \in 0..k + 1 |-> g[i]]
    BY <2>1
  <2>. QED BY <2>2, <2>3
<1>5. \E g : Solves(g, n)
  <2> HIDE DEF Solves
  <2> DEFINE S == {k \in Nat : \E g : Solves(g, k)}
  <2>1. 0 \in S
    BY <1>3
  <2>2. ASSUME NEW k \in Nat, k \in S PROVE k + 1 \in S
    <3>1. PICK f : Solves(f, k)
      BY <2>2
    <3>2. \E g : Solves(g, k + 1)
      BY <1>4, <3>1
    <3>. QED BY <3>2
  <2>3. Nat \subseteq S
    <3> HIDE DEF S
    <3>. QED BY <2>1, <2>2, NatSetInduction
  <2>. QED BY <2>3
<1>6. PICK patch : /\ Solves(patch, n)
                   /\ RewriteChunkOffsets(s.file, delta) = patch[n][[buf |-> s.file, off |-> 0, end |-> n]]
  <2>1. RewriteChunkOffsets(s.file, delta) =
          (CHOOSE g : Solves(g, n))[n][[buf |-> s.file, off |-> 0, end |-> n]]
    BY <1>1 DEF RewriteChunkOffsets
  <2> HIDE DEF Solves
  <2>. QED BY <1>5, <2>1, Zenon
<1>7. \A i \in 0..n : patch[i] = Turn(patch[i - 1], i)
  <2> HIDE DEF Turn
  <2>. QED BY <1>6
<1>8. Repairs(s, patch[0], 0)
  <2> SUFFICES ASSUME NEW buf \in Seq(Nat), NEW off \in Nat, NEW end \in Nat,
                      off <= end, end <= off + 0, Progress(s, buf, off)
               PROVE  Progress(s, patch[0][[buf |-> buf, off |-> off, end |-> end]], end)
    BY DEF Repairs
  <2>1. off = end /\ [buf |-> buf, off |-> off, end |-> end] \in Calls
    BY DEF Calls
  <2>2. patch[0] = [c \in Calls |-> c.buf]
    BY <1>1, <1>7
  <2>3. patch[0][[buf |-> buf, off |-> off, end |-> end]] = buf
    BY <2>1, <2>2
  <2>. QED BY <2>1, <2>3
<1>9. ASSUME NEW i \in Nat, i + 1 <= n, Repairs(s, patch[i], i)
      PROVE  Repairs(s, patch[i + 1], i + 1)
  <2> SUFFICES ASSUME NEW buf \in Seq(Nat), NEW off \in Nat, NEW end \in Nat,
                      off <= end, end <= Len(s.file), end <= off + (i + 1),
                      Starts(s, off, end), Progress(s, buf, off)
               PROVE  Progress(s, patch[i + 1][[buf |-> buf, off |-> off, end |-> end]], end)
    BY DEF Repairs
  <2>1. PICK call \in Calls : call = [buf |-> buf, off |-> off, end |-> end]
    BY DEF Calls
  <2>2. patch[i + 1] = Turn(patch[i], i + 1)
    <3>1. i + 1 \in 0..n /\ (i + 1) - 1 = i
      BY <1>9
    <3> HIDE DEF Turn
    <3>. QED BY <1>7, <3>1
  <2>3. patch[i + 1][call] = PatchRange(patch[i], call, delta)
    BY <2>2
  <2>4. Progress(s, PatchRange(patch[i], [buf |-> buf, off |-> off, end |-> end], s.delta), end)
    <3>1. end <= off + i + 1
      OBVIOUS
    <3>2. PICK f : f = patch[i]
      OBVIOUS
    <3>. QED BY <1>9, <3>1, <3>2, CallRepairs
  <2>. QED BY <1>2, <2>1, <2>3, <2>4
<1>10. Repairs(s, patch[n], n)
  <2> HIDE DEF Solves, Turn
  <2> DEFINE S == {i \in Nat : i <= n => Repairs(s, patch[i], i)}
  <2>1. 0 \in S
    BY <1>8
  <2>2. ASSUME NEW i \in Nat, i \in S PROVE i + 1 \in S
    BY <1>9, <2>2
  <2>3. Nat \subseteq S
    <3> HIDE DEF S
    <3>. QED BY <2>1, <2>2, NatSetInduction
  <2>. QED BY <2>3
<1>11. Starts(s, 0, n)
  <2>1. PICK size \in Nat : size = Len(s.whole) /\ n <= size
    BY <1>1, FileWords
  <2>2. Starts(s, Smaller(0, n), Smaller(size, n))
    <3>1. BoxAt(s, 0, size)
      BY <2>1 DEF Mp4Sample
    <3>. QED BY <1>1, <3>1, StartsAt
  <2>3. Smaller(0, n) = 0 /\ Smaller(size, n) = n
    BY <2>1 DEF Smaller
  <2>. QED BY <2>2, <2>3
<1>12. Progress(s, s.file, 0)
  BY <1>1 DEF Progress
<1>13. Progress(s, patch[n][[buf |-> s.file, off |-> 0, end |-> n]], n)
  <2>1. 0 <= n /\ n <= Len(s.file) /\ n <= 0 + n
    BY <1>1
  <2>. QED BY <1>1, <1>10, <1>11, <1>12, <2>1 DEF Repairs
<1>. QED BY <1>1, <1>2, <1>6, <1>13

(* A buffer that is repaired to its end is the file, shifted.              *)
LEMMA RepairedIs ==
  ASSUME NEW s, Mp4Sample(s), NEW n \in Nat, n = Len(s.file), NEW buf, Progress(s, buf, n)
  PROVE  \/ buf = SubSeq(s.shifted, 1, n)
         \/ HalfEntry(s) /\ buf = Append(SubSeq(s.shifted, 1, n - 1), s.file[n])
<1>1. PICK top \in Nat \ {0} : top = WordTop
  BY Mp4Assumption
<1>2. PICK shifted : shifted = s.shifted
  OBVIOUS
<1>3. shifted \in Seq(0..top - 1) /\ n <= Len(shifted)
  <2>1. shifted \in Seq(0..top - 1) /\ Len(shifted) = Len(s.whole)
    BY <1>1, <1>2 DEF Mp4Sample
  <2>. QED BY <2>1, FileWords
<1>4. /\ buf \in Seq(Nat) /\ Len(buf) = n
      /\ \A k \in 1..n : buf[k] = shifted[k] \/ (k = n /\ HalfEntry(s) /\ buf[k] = s.file[n])
  <2>1. \A k \in 1..n : k <= n
    OBVIOUS
  <2>. QED BY <1>2, <2>1 DEF Progress, MendedAt
<1>5. CASE \A k \in 1..n : buf[k] = shifted[k]
  <2>1. buf = [k \in 1..n |-> shifted[k]]
    BY <1>4, <1>5
  <2>2. SubSeq(shifted, 1, n) = [k \in 1..n |-> shifted[k]]
    BY <1>3
  <2>. QED BY <1>2, <2>1, <2>2
<1>6. CASE ~\A k \in 1..n : buf[k] = shifted[k]
  <2>1. n \in 1..n /\ HalfEntry(s) /\ buf[n] = s.file[n]
    BY <1>4, <1>6
  <2>2. \A k \in 1..n - 1 : buf[k] = shifted[k]
    BY <1>4
  <2>0. n > 0
    BY <2>1
  <2>3. PICK m \in Nat : m = n - 1 /\ m + 1 = n
    BY <2>0
  <2>4. PICK front : front = SubSeq(shifted, 1, m)
    OBVIOUS
  <2>5. front = [k \in 1..m |-> shifted[k]] /\ front \in Seq(0..top - 1) /\ Len(front) = m
    BY <1>3, <2>3, <2>4
  <2>6. PICK last : last = s.file[n]
    OBVIOUS
  <2>7. Append(front, last) = [k \in 1..m + 1 |-> IF k = m + 1 THEN last ELSE front[k]]
    BY <2>5
  <2>8. buf = [k \in 1..m + 1 |-> IF k = m + 1 THEN last ELSE front[k]]
    <3>1. buf = [k \in 1..n |-> buf[k]]
      BY <1>4
    <3>2. \A k \in 1..n : buf[k] = IF k = m + 1 THEN last ELSE front[k]
      BY <2>1, <2>2, <2>3, <2>5, <2>6
    <3>. QED BY <2>3, <3>1, <3>2
  <2>. QED BY <1>2, <2>1, <2>3, <2>4, <2>6, <2>7, <2>8
<1>. QED BY <1>5, <1>6

(* Every file is repaired, up to the half of an entry with which it ends.  *)
LEMMA OffsetsAreShifted ==
  ASSUME NEW s, Mp4Sample(s), NEW n \in Nat, n = Len(s.file),
         NEW new, new = RewriteChunkOffsets(s.file, s.delta)
  PROVE  \/ new = SubSeq(s.shifted, 1, n)
         \/ HalfEntry(s) /\ new = Append(SubSeq(s.shifted, 1, n - 1), s.file[n])
<1>1. Progress(s, new, n)
  BY FileRepaired
<1>. QED BY <1>1, RepairedIs

----------------------------------------------------------------------------
FormatsInv ==
  /\ sample \in Samples
  /\ Read("record") => result = Fixup(sample.raw, sample.sector)
  /\ Read("deleted") => result = Extract(sample.image, sample.cluster, sample.raw, sample.sector)
  /\ Read("mp4") => result = RewriteChunkOffsets(sample.file, sample.delta)
  /\ Read("disk") => result = FindVolumes(sample.disk)
  /\ Read("image") =>
       result = [hits |-> CarveImage(sample.image, sample.chunk),
                 files |-> ExtractCarved(sample.image, CarveImage(sample.image, sample.chunk))]

LEMMA FormatsInvInductive == FormatsSpec => []FormatsInv
<1>1. FormatsInit => FormatsInv
  BY DEF FormatsInit, FormatsInv, Read
<1>2. FormatsInv /\ [FormatsNext]_formatVars => FormatsInv'
  BY DEF FormatsInv, FormatsNext, formatVars, Reading, Read, FixRecord, ExtractFile, PatchOffsets,
         CarveFiles, ListVolumes
<1>. QED BY <1>1, <1>2, PTL DEF FormatsSpec

(* Whatever the geometry of the records, whatever is written to them and   *)
(* wherever a write ends: a torn record is refused, a whole one accepted   *)
(* and restored.                                                           *)
THEOREM FixupFindsTearsCorrect == FormatsSpec => []FixupFindsTears
<1>1. FormatsInv => FixupFindsTears
  <2> SUFFICES ASSUME FormatsInv, Read("record") PROVE TearFound(sample, result)
    BY DEF FixupFindsTears, TearFound
  <2>1. RecordSample(sample)
    BY RecordsAssumption DEF FormatsInv, Read
  <2>. QED BY <2>1, TearsShow DEF FormatsInv
<1>. QED BY <1>1, FormatsInvInductive, PTL

(* Whatever the base, the width of a word and the size of a cluster,       *)
(* however a run list is encoded and wherever its runs lie: what is        *)
(* extracted of a deleted file is its content to the byte, or an error.    *)
THEOREM ExtractExactCorrect == FormatsSpec => []ExtractExact
<1>1. FormatsInv => ExtractExact
  <2> SUFFICES ASSUME FormatsInv, Read("deleted") PROVE ExtractExact
    BY DEF ExtractExact
  <2>1. PICK s : s = sample /\ DeletedSample(s)
    BY DeletedAssumption DEF FormatsInv, Read
  <2>2. PICK outcome : outcome = result /\ outcome = Extract(s.image, s.cluster, s.raw, s.sector)
    BY <2>1 DEF FormatsInv
  <2>3. PICK total : total = Clusters(s.runs)[Len(s.runs)] * s.cluster
    OBVIOUS
  <2>4. outcome = IF s.torn \notin {0, s.sectors} \/ s.size > MaxExtract THEN NoContent
                  ELSE IF s.held
                  THEN SubSeq(s.resident, 1, Smaller(s.size, Len(s.resident)))
                  ELSE IF s.runs # <<>> /\ s.size <= total /\ InImage(s, s.size)
                  THEN [k \in 1..s.size |-> CellValue(s, k)] ELSE NoContent
    BY <2>1, <2>2, <2>3, FileExtracted
  <2>. QED BY <2>1, <2>2, <2>3, <2>4 DEF ExtractExact, InImage, CellValue
<1>. QED BY <1>1, FormatsInvInductive, PTL

(* However many sectors a disk has and however its partitions are listed:  *)
(* its NTFS partitions are found, in order, and nothing else.              *)
THEOREM VolumesFoundCorrect == FormatsSpec => []VolumesFound
<1>1. FormatsInv => VolumesFound
  <2> SUFFICES ASSUME FormatsInv, Read("disk"), sample.sound PROVE VolumesListed(sample, result)
    BY DEF VolumesFound, VolumesListed, Elements, Ascending
  <2>1. DiskSample(sample)
    BY DisksAssumption DEF FormatsInv, Read
  <2>. QED BY <2>1, SoundDisk DEF FormatsInv
<1>. QED BY <1>1, FormatsInvInductive, PTL

(* Whatever the signatures, the bounds on a file, the image and the chunks *)
(* it is searched in: every signature is found once, save one whose file   *)
(* would begin where another does, and a whole file, with a footer or an   *)
(* MP4 file of any boxes, is carved to the byte.                           *)
THEOREM CarvedExactlyCorrect == FormatsSpec => []CarvedExactly
<1>1. FormatsInv => CarvedExactly
  <2> SUFFICES ASSUME FormatsInv, Read("image") PROVE CarvedExactly
    BY DEF CarvedExactly
  <2>1. PICK s : s = sample.image
    OBVIOUS
  <2>2. PICK chunk : chunk = sample.chunk
    OBVIOUS
  <2>3. PICK whole : whole = sample.whole
    OBVIOUS
  <2>4. ImageSample(sample)
    BY ImagesAssumption DEF FormatsInv, Read
  <2>5. s \in Seq(Nat) /\ chunk \in Nat \ {0} /\ \A f \in whole : WholeFile(s, f)
    BY <2>1, <2>2, <2>3, <2>4 DEF ImageSample
  <2>6. PICK outcome : outcome = result
    OBVIOUS
  <2>7. outcome = [hits |-> CarveImage(s, chunk), files |-> ExtractCarved(s, CarveImage(s, chunk))]
    BY <2>1, <2>2, <2>6 DEF FormatsInv
  <2>8. Carved(s, whole, outcome)
    BY <2>5, <2>7, CarvingIs
  <2>. QED BY <2>1, <2>3, <2>6, <2>8 DEF CarvedExactly, Carved, Firsts, Beginnings, Offset
<1>. QED BY <1>1, FormatsInvInductive, PTL

(* Whatever the words of a file, however its boxes nest and its headers    *)
(* give their sizes, whatever its tables claim and wherever the file is    *)
(* cut: its chunk offsets are shifted and nothing else is changed.         *)
THEOREM OffsetsShiftedCorrect == FormatsSpec => []OffsetsShifted
<1>1. FormatsInv => OffsetsShifted
  <2> SUFFICES ASSUME FormatsInv, Read("mp4") PROVE OffsetsShifted
    BY DEF OffsetsShifted
  <2>1. PICK s : s = sample /\ Mp4Sample(s)
    BY FilesAssumption DEF FormatsInv, Read
  <2>2. PICK new : new = result /\ new = RewriteChunkOffsets(s.file, s.delta)
    BY <2>1 DEF FormatsInv
  <2>3. PICK n \in Nat : n = Len(s.file)
    BY <2>1, FileWords
  <2>4. \/ new = SubSeq(s.shifted, 1, n)
        \/ HalfEntry(s) /\ new = Append(SubSeq(s.shifted, 1, n - 1), s.file[n])
    BY <2>1, <2>2, <2>3, OffsetsAreShifted
  <2>. QED BY <2>1, <2>2, <2>3, <2>4 DEF OffsetsShifted
<1>. QED BY <1>1, FormatsInvInductive, PTL
=============================================================================
