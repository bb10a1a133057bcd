------------------------------ MODULE Formats ------------------------------
(***************************************************************************)
(* The parsers of the engine at work on samples: file records, MP4 files,  *)
(* images to be carved and partitioned disks.  Each sample says what it    *)
(* was made from, and the properties compare what a parser makes of it     *)
(* with that.  A behaviour reads one sample.                               *)
(***************************************************************************)
EXTENDS Ntfs, Carver, Volumes

CONSTANTS Samples,    \* what there is to read
          Unread      \* no result yet

(* How a record gets to the disk: every sector ends with the number of the *)
(* write, and what belongs there is saved behind the number at the head of *)
(* the update sequence.                                                    *)
Protected(cells, usa, sector, number) ==
  [k \in DOMAIN cells |->
     IF k = usa + 1 \/ k % sector = 0 THEN number
     ELSE IF k \in usa + 2..usa + 1 + Len(cells) \div sector THEN cells[(k - usa - 1) * sector]
     ELSE cells[k]]

(* A write that ends early leaves its first sectors before the old ones.   *)
TornAt(n, new, old) == [k \in DOMAIN new |-> IF k <= n THEN new[k] ELSE old[k]]

(* A record of whole sectors of which the first holds the update sequence, *)
(* written once and then again, the second time up to some sector.         *)
RecordSample(s) ==
  /\ s.sectors \in Nat \ {0} /\ s.sector \in Nat
  /\ s.raw.usa \in Nat /\ s.raw.count = s.sectors + 1 /\ s.raw.usa + s.raw.count < s.sector
  /\ s.numbers \in Nat \X Nat /\ s.numbers[1] # s.numbers[2]
  /\ {s.old, s.new} \subseteq [1..s.sectors * s.sector -> Nat]
  /\ s.torn \in 0..s.sectors
  /\ s.raw.cells = TornAt(s.torn * s.sector, Protected(s.new, s.raw.usa, s.sector, s.numbers[2]),
                          Protected(s.old, s.raw.usa, s.sector, s.numbers[1]))
  /\ s.written = IF s.torn = 0 THEN s.old ELSE s.new

(* How NTFS writes a run list: for each run a byte with two widths, the    *)
(* length, and unless the run is sparse the distance from the run before   *)
(* it, in two's complement; then a zero, or nothing if that fills the      *)
(* attribute.  s.cuts says where in the bytes each run begins.             *)
ByteOf(v, j) == (v \div Power[j - 1]) % Base
LcnBefore(runs, i) ==
  LET there == {j \in 1..i - 1 : runs[j].lcn # -1}
  IN  IF there = {} THEN 0 ELSE runs[Max(there)].lcn
EncodedRun(data, at, end, run, before) ==
  LET len == data[at + 1] % Nibble
      off == data[at + 1] \div Nibble
  IN  /\ end = at + 1 + len + off /\ at < end /\ end <= Len(data)
      /\ len \in 1..WordBytes /\ run.length \in 1..Power[len] - 1
      /\ \A j \in 1..len : data[at + 1 + j] = ByteOf(run.length, j)
      /\ IF off = 0 THEN run.lcn = -1
         ELSE /\ off <= WordBytes /\ run.lcn \in Nat /\ 2 * run.lcn < WordEnd
              /\ 2 * (run.lcn - before) \in -Power[off]..Power[off] - 1
              /\ \A j \in 1..off :
                   data[at + 1 + len + j] = ByteOf((run.lcn - before) % Power[off], j)
DataRuns == [lcn : Nat \cup {-1}, length : Nat \ {0}]
EncodedRuns(data, runs, cuts) ==
  /\ data \in Seq(0..Base - 1) /\ runs \in Seq(DataRuns)
  /\ cuts \in Seq(Nat) /\ Len(cuts) = Len(runs) + 1 /\ cuts[1] = 0
  /\ \A i \in DOMAIN runs :
       EncodedRun(data, cuts[i], cuts[i + 1], runs[i], LcnBefore(runs, i))
  /\ LET end == cuts[Len(runs) + 1] IN end = Len(data) \/ data[end + 1] = 0

(* The record of a deleted file: its name, and its data in the record or   *)
(* in runs, each once before the end mark.  What follows the mark is left  *)
(* over from earlier records.                                              *)
DeletedSample(s) ==
  LET attrs == s.raw.attrs
      mine  == {i \in 1..s.end - 1 : attrs[i].type = "data" /\ ~attrs[i].named}
  IN  /\ RecordSample(s)
      /\ s.cluster \in Nat \ {0} /\ s.image \in Seq(Nat) /\ s.size \in Nat /\ s.held \in BOOLEAN
      /\ DOMAIN attrs = 1..Len(attrs) /\ Len(attrs) \in Nat
      /\ s.end \in DOMAIN attrs /\ attrs[s.end].type = "end"
      /\ \A i \in 1..s.end - 1 : attrs[i].type \notin {"end", "broken"}
      /\ s.name \in 1..s.end - 1 /\ attrs[s.name] = [type |-> "name", size |-> s.size]
      /\ \A i \in 1..s.name - 1 : attrs[i].type # "name"
      /\ s.data \in 1..s.end - 1 /\ mine = {s.data} /\ attrs[s.data].resident = s.held
      /\ IF s.held THEN attrs[s.data].bytes = s.resident /\ s.resident \in Seq(Nat)
         ELSE /\ EncodedRuns(attrs[s.data].runs, s.runs, s.cuts)
              /\ \A i \in DOMAIN s.runs : s.runs[i].length * s.cluster < WordEnd

(* An MP4 file as it was written, and as it would have been written delta  *)
(* words further on.  Boxes fill the file and the containers, one at the   *)
(* end of the other, each behind a header that says where it ends; the     *)
(* entries of its tables are shifted and all else is the same.  What is    *)
(* there of the file may be less.                                          *)
Mp4Box == [at : Nat, content : Nat, end : Nat, limit : Nat, type : Nat]
BoxAt(s, at, limit) == at = limit \/ \E b \in s.boxes : b.at = at /\ b.limit = limit
WideAt(words, k) == words[k] * WordTop + words[k + 1]
Heads(s, b) ==
  /\ s.whole[b.at + 2] = b.type
  /\ \/ s.whole[b.at + 1] = b.end - b.at /\ b.content = b.at + 2
     \/ s.whole[b.at + 1] = 0 /\ b.content = b.at + 2 /\ b.end = b.limit
     \/ s.whole[b.at + 1] = 1 /\ b.content = b.at + 4 /\ WideAt(s.whole, b.at + 3) = b.end - b.at
Entries(s, b, width) ==
  {k \in b.content + 3..b.end + 1 - width :
     /\ (k - (b.content + 3)) % width = 0
     /\ (k - (b.content + 3)) \div width < s.whole[b.content + 2]}
Clamped(v, top) == IF v < 0 THEN 0 ELSE IF v < top THEN v ELSE top - 1
Same(s, first, last) == \A k \in first..last : s.shifted[k] = s.whole[k]
NarrowTable(s, b) ==
  \A k \in b.content + 1..b.end :
    s.shifted[k] = IF k \in Entries(s, b, 1) THEN Clamped(s.whole[k] + s.delta, WordTop)
                   ELSE s.whole[k]
WideTable(s, b) ==
  /\ \A k \in Entries(s, b, 2) :
       /\ 2 * WideAt(s.whole, k) < WordTop * WordTop
       /\ 2 * (WideAt(s.whole, k) + s.delta) < WordTop * WordTop
       /\ WideAt(s.shifted, k) = Clamped(WideAt(s.whole, k) + s.delta, WordTop * WordTop)
  /\ \A k \in b.content + 1..b.end :
       k \in Entries(s, b, 2) \/ k - 1 \in Entries(s, b, 2) \/ s.shifted[k] = s.whole[k]
SoundBox(s, b) ==
  /\ b.at < b.content /\ b.content <= b.end /\ b.end <= b.limit /\ b.limit <= Len(s.whole)
  /\ Heads(s, b) /\ Same(s, b.at + 1, b.content)
  /\ BoxAt(s, b.end, b.limit)
  /\ IF b.type \in Containers THEN BoxAt(s, b.content, b.end)
     ELSE IF b.type = Stco THEN NarrowTable(s, b)
     ELSE IF b.type = Co64 THEN WideTable(s, b)
     ELSE Same(s, b.content + 1, b.end)
Mp4Sample(s) ==
  /\ s.delta \in Int /\ s.whole \in Seq(0..WordTop - 1) /\ s.shifted \in Seq(0..WordTop - 1)
  /\ Len(s.shifted) = Len(s.whole) /\ \E n \in 0..Len(s.whole) : s.file = SubSeq(s.whole, 1, n)
  /\ s.boxes \subseteq Mp4Box /\ \A b \in s.boxes : SoundBox(s, b)
  /\ BoxAt(s, 0, Len(s.whole))

(* An image with files that are whole.  A file has its signature at the    *)
(* beginning, or behind a size that is not taken for another.  It has the  *)
(* footer of its type at the end and none before it; or it is an MP4 file  *)
(* of boxes that say where they end, cuts, and no other box follows.       *)
Footed(sig, bytes) ==
  LET n == Len(bytes)
  IN  /\ sig.footer # <<>> /\ n >= sig.tail /\ Occurs(sig.footer, bytes, n - sig.tail)
      /\ \A at \in 0..n - sig.tail - 1 : ~Occurs(sig.footer, bytes, at)
Boxed(bytes, cuts) ==
  /\ cuts \in Seq(Nat) /\ Len(cuts) > 1 /\ cuts[1] = 0 /\ cuts[Len(cuts)] = Len(bytes)
  /\ \A i \in 1..Len(cuts) - 1 :
       LET at   == cuts[i]
           size == cuts[i + 1] - at
       IN  /\ size >= 2 /\ bytes[at + 2] \in Mp4Types
           /\ \/ bytes[at + 1] = size
              \/ bytes[at + 1] = 1 /\ size >= 4 /\ WideAt(bytes, at + 3) = size
WholeFile(image, file) ==
  LET sig == Signatures[file.sig]
      end == file.offset + Len(file.bytes)
  IN  /\ file.sig \in DOMAIN Signatures
      /\ file.bytes \in Seq(Nat) /\ Len(file.bytes) \in MinLength..MaxLength
      /\ file.offset \in Nat /\ Occurs(file.bytes, image, file.offset)
      /\ Occurs(sig.magic, file.bytes, sig.back)
      /\ \A at \in file.offset..file.offset + sig.back - 1 : \A i \in Found(image, at) :
           Hit(i, at).offset # file.offset
      /\ IF sig.ext # "mp4" THEN Footed(sig, file.bytes)
         ELSE /\ Boxed(file.bytes, file.cuts)
              /\ end + 2 <= Len(image) => image[end + 2] \notin Mp4Types
ImageSample(s) ==
  /\ s.image \in Seq(Nat) /\ s.chunk \in Nat \ {0}
  /\ \A file \in s.whole : WholeFile(s.image, file)

(* A disk that was partitioned soundly: it is one volume, or partitions    *)
(* that do not overlap are listed slot by slot, in the MBR, or in a GPT    *)
(* that lies on the disk.  volumes are those that are NTFS.                *)
Partition == [used : BOOLEAN, first : Nat, last : Nat]
InMbr(part, entry) ==
  IF part.used
  THEN entry.type # 0 /\ entry.first = part.first /\ entry.count = part.last - part.first + 1
  ELSE entry.type = 0 \/ entry.count = 0
InGpt(part, entry) ==
  entry.used = part.used /\ (part.used => entry.first = part.first /\ entry.last = part.last)
Listed(disk, parts) ==
  IF disk.gpt = NoTable
  THEN /\ disk.signed /\ DOMAIN disk.mbr = DOMAIN parts
       /\ \A i \in DOMAIN parts : InMbr(parts[i], disk.mbr[i])
  ELSE /\ TableUsed(disk) /\ TableThere(disk) /\ disk.gpt.entrySize >= MinEntry
       /\ DOMAIN disk.gpt.entries = DOMAIN parts
       /\ \A i \in DOMAIN parts : InGpt(parts[i], disk.gpt.entries[i])
DiskSample(s) ==
  LET used == {i \in DOMAIN s.parts : s.parts[i].used}
  IN  /\ s.disk.sectors \in Nat \ {0} /\ s.disk.boots \subseteq Nat
      /\ IF 0 \in s.disk.boots THEN s.volumes = {0}
         ELSE /\ s.disk.sectors > 1 /\ s.parts \in Seq(Partition)
              /\ \A i \in used : s.parts[i].first <= s.parts[i].last
              /\ \A i, j \in used :
                   i # j => s.parts[i].last < s.parts[j].first \/ s.parts[j].last < s.parts[i].first
              /\ Listed(s.disk, s.parts)
              /\ s.volumes = {s.parts[i].first : i \in used} \cap s.disk.boots \cap 0..s.disk.sectors - 1

ASSUME RecordsAssumption == \A s \in Samples : s.kind = "record" => RecordSample(s)
ASSUME DeletedAssumption == \A s \in Samples : s.kind = "deleted" => DeletedSample(s)
ASSUME FilesAssumption == \A s \in Samples : s.kind = "mp4" => Mp4Sample(s)
ASSUME ImagesAssumption == \A s \in Samples : s.kind = "image" => ImageSample(s)
ASSUME DisksAssumption == \A s \in Samples : s.kind = "disk" /\ s.sound => DiskSample(s)

VARIABLES sample, result

formatVars == <<sample, result>>

FormatsInit == sample \in Samples /\ result = Unread

Reading(kind) == result = Unread /\ sample.kind = kind /\ UNCHANGED sample

(* apply_fixup on a record of which a write may have been torn.            *)
FixRecord ==
  /\ Reading("record")
  /\ result' = Fixup(sample.raw, sample.sector)

(* extract_file_content of a deleted file. *)
ExtractFile ==
  /\ Reading("deleted")
  /\ result' = Extract(sample.image, sample.cluster, sample.raw, sample.sector)

(* rewrite_chunk_offsets of a carved MP4 file. *)
PatchOffsets ==
  /\ Reading("mp4")
  /\ result' = RewriteChunkOffsets(sample.file, sample.delta)

(* carve_image, then extract_carved_files on its hits. *)
CarveFiles ==
  /\ Reading("image")
  /\ result' = [hits |-> CarveImage(sample.image, sample.chunk),
                files |-> ExtractCarved(sample.image, CarveImage(sample.image, sample.chunk))]

ListVolumes ==
  /\ Reading("disk")
  /\ result' = FindVolumes(sample.disk)

FormatsNext == FixRecord \/ ExtractFile \/ PatchOffsets \/ CarveFiles \/ ListVolumes

FormatsSpec == FormatsInit /\ [][FormatsNext]_formatVars

Read(kind) == result # Unread /\ sample.kind = kind

----------------------------------------------------------------------------
(* A record is accepted exactly when all its sectors are of one write, and *)
(* is then what was written (ntfs.rs 98-123).                              *)
FixupFindsTears ==
  Read("record") =>
    /\ result.ok <=> sample.torn \in {0, sample.sectors}
    /\ result.ok =>
         \A k \in DOMAIN result.cells :
           k \notin sample.raw.usa + 1..sample.raw.usa + sample.raw.count =>
             result.cells[k] = sample.written[k]

(* The cells of a file by its runs, each found from its own position.      *)
Clusters(runs) ==
  LET sum[n \in 0..Len(runs)] == IF n = 0 THEN 0 ELSE sum[n - 1] + runs[n].length IN sum
CellOf(s, k) ==
  LET vcn == (k - 1) \div s.cluster
      n   == Min({i \in DOMAIN s.runs : vcn < Clusters(s.runs)[i]})
      lcn == s.runs[n].lcn + vcn - Clusters(s.runs)[n - 1]
  IN  IF s.runs[n].lcn = -1 THEN 0 ELSE lcn * s.cluster + ((k - 1) % s.cluster) + 1

(* What is recovered of a deleted file is exactly its content, to the size *)
(* its name gives, whatever the widths and signs of its encoded runs; a    *)
(* file of which a cluster lies outside the image, or whose runs are       *)
(* short, or whose record is torn, or that is too large, yields an error   *)
(* and never other bytes (ntfs.rs 129-175, ntfs_extract.rs 24-136).        *)
ExtractExact ==
  Read("deleted") =>
    LET total == Clusters(sample.runs)[Len(sample.runs)] * sample.cluster
        there == /\ sample.runs # <<>> /\ sample.size <= total
                 /\ \A k \in 1..sample.size : CellOf(sample, k) <= Len(sample.image)
    IN  IF sample.torn \notin {0, sample.sectors} \/ sample.size > MaxExtract
        THEN result = NoContent
        ELSE IF sample.held
        THEN result = SubSeq(sample.resident, 1, Smaller(sample.size, Len(sample.resident)))
        ELSE IF ~there THEN result = NoContent
        ELSE result = [k \in 1..sample.size |->
                         IF CellOf(sample, k) = 0 THEN 0 ELSE sample.image[CellOf(sample, k)]]

(* After the repair a file is the one that was written with its chunk      *)
(* offsets shifted, to the last word, however it was cut: no other word    *)
(* changes, and none of a truncated table is missed but the half of a wide *)
(* entry with which the file ends (mp4.rs 119-174).                        *)
HalfEntry(s) == \E b \in s.boxes : b.type = Co64 /\ Len(s.file) \in Entries(s, b, 2)
OffsetsShifted ==
  Read("mp4") =>
    LET n == Len(sample.file)
    IN  \/ result = SubSeq(sample.shifted, 1, n)
        \/ HalfEntry(sample) /\ result = Append(SubSeq(sample.shifted, 1, n - 1), sample.file[n])

(* Carving finds every signature of the image once, whatever the chunks    *)
(* it is searched in, except one whose file would begin where another does *)
(* or before the image; and a file that is whole is carved whole, up to    *)
(* its footer or to the last of its boxes, whatever is behind it           *)
(* (sectorforge.rs 96-137, 165-251, 436-440).                              *)
CarvedExactly ==
  Read("image") =>
    LET found  == {f \in (0..Len(sample.image)) \X DOMAIN Signatures :
                     /\ Occurs(Signatures[f[2]].magic, sample.image, f[1])
                     /\ f[1] >= Signatures[f[2]].back}
        offset(f) == f[1] - Signatures[f[2]].back
        first  == {f \in found : \A g \in found : offset(g) = offset(f) => f[1] <= g[1]}
    IN  /\ {<<result.hits[k].offset, result.hits[k].sig>> : k \in DOMAIN result.hits} =
             {<<offset(f), f[2]>> : f \in first}
        /\ \A j, k \in DOMAIN result.hits : j < k => result.hits[j].offset < result.hits[k].offset
        /\ \A f \in sample.whole :
             \E k \in DOMAIN result.files :
               result.files[k].offset = f.offset /\ result.files[k].bytes = f.bytes

(* On a disk that was partitioned soundly the volumes found are the NTFS   *)
(* partitions, in order, whichever table lists them and in whatever order  *)
(* (recovery.rs 368-408).                                                  *)
VolumesFound ==
  Read("disk") /\ sample.sound =>
    /\ {result[k] : k \in DOMAIN result} = sample.volumes
    /\ \A j, k \in DOMAIN result : j < k => result[j] < result[k]
============================================================================
