------------------------------- MODULE Carver -------------------------------
(***************************************************************************)
(* Signature carving of an image (engine/src/sectorforge.rs 79-255,        *)
(* 436-440).  The image is a sequence of words; it is searched chunk by    *)
(* chunk in parallel, each chunk with a few words of the next.             *)
(***************************************************************************)
EXTENDS Mp4, Sorting

CONSTANTS Signatures,  \* by priority: magic, ext, back, footer, tail, fallback
          Mp4Types,    \* the box types an MP4 file may begin with
          Overlap,     \* words searched beyond the end of a chunk (16 bytes)
          MaxLength,   \* 16 MiB
          MinLength    \* 16 bytes

Signature == [magic : Seq(Nat), ext : STRING, back : Nat, footer : Seq(Nat), tail : Nat, fallback : Nat]

(* The signature j, d words behind the beginning of i, contradicts it.     *)
Contradicts(i, j, d) ==
  \E k \in DOMAIN Signatures[j].magic :
    /\ d + k \in DOMAIN Signatures[i].magic
    /\ Signatures[i].magic[d + k] # Signatures[j].magic[k]

(* No signature is longer than the overlap, and none begins inside one     *)
(* (15-57).                                                                *)
ASSUME CarverAssumption ==
  /\ Overlap \in Nat /\ MaxLength \in Nat /\ MinLength \in Nat
  /\ Signatures \in Seq(Signature)
  /\ \A i \in DOMAIN Signatures :
       /\ Len(Signatures[i].magic) \in 1..Overlap + 1
       /\ Len(Signatures[i].footer) <= Signatures[i].tail
  /\ \A i, j \in DOMAIN Signatures : \A d \in 0..Len(Signatures[i].magic) - 1 :
       (i = j /\ d = 0) \/ Contradicts(i, j, d)

(* Whether a sequence occurs at a position counted from zero.              *)
Occurs(part, s, at) ==
  at + Len(part) <= Len(s) /\ \A k \in 1..Len(part) : s[at + k] = part[k]

Found(s, at) == {i \in DOMAIN Signatures : Occurs(Signatures[i].magic, s, at)}

(* An MP4 file begins before its magic (117-124).                          *)
Hit(i, at) == [offset |-> at - Signatures[i].back, sig |-> i]

(* One position of a chunk (113-132): leftmost matches that do not         *)
(* overlap, of several at one place the first signature, and those only    *)
(* that begin in the chunk.                                                *)
NoHits == [next |-> 0, hits |-> <<>>]
Search(slice, start, chunk, state, at) ==
  LET i == Min(Found(slice, at))
  IN  IF at < state.next \/ Found(slice, at) = {} THEN state
      ELSE [next |-> at + Len(Signatures[i].magic),
            hits |-> IF at < chunk /\ start + at >= Signatures[i].back
                     THEN Append(state.hits, Hit(i, start + at)) ELSE state.hits]

\* Mutant: a chunk ends where the next one begins
ChunkEndBare(image, start, chunk) ==
  IF start + chunk < Len(image) THEN start + chunk ELSE Len(image)

ChunkEnd(image, start, chunk) ==
  IF start + chunk + Overlap < Len(image) THEN start + chunk + Overlap ELSE Len(image)

ChunkHits(image, chunk, start) ==
  LET slice == SubSeq(image, start + 1, ChunkEnd(image, start, chunk))
      found[i \in 0..Len(slice)] ==
        IF i = 0 THEN NoHits ELSE Search(slice, start, chunk, found[i - 1], i - 1)
  IN  found[Len(slice)].hits

(* dedup_hits (436-440): by offset, and of one offset the first.           *)
WithOffset(sorted, v) ==
  IF \E k \in DOMAIN sorted : sorted[k] = v THEN sorted ELSE Inserted(sorted, v)
DedupHits(hits) ==
  LET offsets[i \in 0..Len(hits)] ==
        IF i = 0 THEN <<>> ELSE WithOffset(offsets[i - 1], hits[i].offset)
      sorted == offsets[Len(hits)]
  IN  [k \in DOMAIN sorted |-> hits[Min({j \in DOMAIN hits : hits[j].offset = sorted[k]})]]

(* carve_image: the hits of all chunks, in their order.                    *)
CarveImage(image, chunk) ==
  LET n == (Len(image) + chunk - 1) \div chunk
      hits[i \in 0..n] ==
        IF i = 0 THEN <<>> ELSE hits[i - 1] \o ChunkHits(image, chunk, (i - 1) * chunk)
  IN  DedupHits(hits[n])

\* Mutant: whatever looks like a box belongs to the file
Mp4LengthGreedy(slice) ==
  LET boxes == Boxes(slice)
      last  == Len(boxes)
  IN  IF last = 0 \/ boxes[last].offset + boxes[last].size > Len(slice) THEN 0
      ELSE boxes[last].offset + boxes[last].size

(* The length of a carved file (165-225): up to its footer, or of an MP4   *)
(* up to the last of the boxes that belong to it.                          *)
Mp4Length(slice) ==
  LET boxes   == Boxes(slice)
      foreign == {i \in DOMAIN boxes : boxes[i].type \notin Mp4Types}
      last    == IF foreign = {} THEN Len(boxes) ELSE Min(foreign) - 1
  IN  IF last = 0 \/ boxes[last].offset + boxes[last].size > Len(slice) THEN 0
      ELSE boxes[last].offset + boxes[last].size

CarvedLength(image, hit) ==
  LET most  == IF Len(image) - hit.offset < MaxLength THEN Len(image) - hit.offset ELSE MaxLength
      slice == SubSeq(image, hit.offset + 1, hit.offset + most)
      sig   == Signatures[hit.sig]
      ends  == {at \in 0..most : sig.footer # <<>> /\ Occurs(sig.footer, slice, at)}
      length == IF ends = {} THEN sig.fallback ELSE Min(ends) + sig.tail
  IN  IF sig.ext = "mp4" THEN Mp4Length(slice) ELSE IF length < most THEN length ELSE most

(* extract_carved_files (141-255). *)
FileOf(image, hit) ==
  [offset |-> hit.offset, ext |-> Signatures[hit.sig].ext,
   bytes |-> SubSeq(image, hit.offset + 1, hit.offset + CarvedLength(image, hit))]
WithFile(files, image, hit) ==
  IF hit.offset < Len(image) /\ CarvedLength(image, hit) >= MinLength
  THEN Append(files, FileOf(image, hit)) ELSE files
ExtractCarved(image, hits) ==
  LET files[i \in 0..Len(hits)] ==
        IF i = 0 THEN <<>> ELSE WithFile(files[i - 1], image, hits[i])
  IN  files[Len(hits)]
=============================================================================
