----------------------------- MODULE MCToolkit -----------------------------
(***************************************************************************)
(* The imager, the sidecar, the event index and the parsers share no state *)
(* with one another, so a behaviour of this instance drives one of them.   *)
(***************************************************************************)
EXTENDS Imager, SidecarRpc, EventIndex, Formats, TLC

CONSTANTS a, b, z,    \* blocks of a disk; z is a hole
          c1, c2,     \* callers
          p, q, x, y  \* telemetry: paths and letters

----------------------------------------------------------------------------
(* Imager: a source of five blocks, written to a new file, to a longer one *)
(* or to a shorter one.                                                    *)
MCBlocks == {a, b}
MCSource == <<a, b, b, a, b>>
MCLimits == {3, Unlimited}
MCImages == {<<>>, <<a, a, a, a, a, a, b>>, <<b, b>>}

MCCallers == {c1, c2}

(* Event index: a log out of order with a tie, one with a patch behind the *)
(* end and a time that does not fit into the column, and one of an editor  *)
(* that writes "delete the rest" as the largest length.                    *)
WriteOp(s)       == [kind |-> "write", content |-> s]
PatchOp(o, d, s) == [kind |-> "patch", offset |-> o, delete |-> d, insert |-> s]
DeleteOp         == [kind |-> "delete"]
At(t, f, o)      == [ts |-> t, path |-> f, op |-> o]

MCPaths   == {p, q}
MCLetters == {x, y}
MCLogs    == {
  <<At(2, p, PatchOp(1, 1, <<y>>)), At(1, p, WriteOp(<<x, x>>)), At(2, p, PatchOp(1, 0, <<x>>))>>,
  <<At(1, q, WriteOp(<<x>>)), At(5, q, DeleteOp), At(3, q, PatchOp(3, 2, <<y>>))>>,
  <<At(2, q, PatchOp(1, 7, <<>>))>>}

----------------------------------------------------------------------------
(* Records: three sectors of six cells, the first of which holds the       *)
(* update sequence at its second cell.  A torn write leaves the first      *)
(* sectors of the new version before those of the old one.                 *)
Version(n, trailers) == [k \in 1..18 |-> IF k % 6 = 0 THEN trailers[k \div 6] ELSE 10 * n + k]
Trailers == {<<1, 8, 7>>, <<7, 7, 1>>, <<8, 8, 8>>, <<7, 8, 1>>, <<1, 1, 1>>}

Record(n, old, new) ==
  [kind |-> "record", sectors |-> 3, sector |-> 6, torn |-> n, old |-> old, new |-> new,
   numbers |-> <<7, 8>>, written |-> IF n = 0 THEN old ELSE new,
   raw |-> [usa |-> 1, count |-> 4,
            cells |-> TornAt(6 * n, Protected(new, 1, 6, 8), Protected(old, 1, 6, 7))]]
RecordSamples ==
  {Record(n, Version(2, u), Version(1, t)) : n \in 0..3, t \in Trailers, u \in Trailers}

(* Deleted files: one or two runs over an image of eighteen clusters, some *)
(* far enough apart that an offset needs a second byte, encoded in as few  *)
(* bytes as they take, with or without the end mark and what follows it.   *)
Digit(v, n) == (v \div 16^n) % 16
EncodeLength(v) == IF v < 16 THEN <<v>> ELSE <<Digit(v, 0), Digit(v, 1)>>
EncodeOffset(d) == IF d \in -8..7 THEN <<d % 16>> ELSE <<Digit(d % 256, 0), Digit(d % 256, 1)>>
EncodeRun(r, last) ==
  LET len == EncodeLength(r.length)
      off == IF r.lcn = -1 THEN <<>> ELSE EncodeOffset(r.lcn - last)
  IN  <<Len(len) + 4 * Len(off)>> \o len \o off
EncodedAs(rs) == [n \in DOMAIN rs |-> EncodeRun(rs[n], LcnBefore(rs, n))]
EncodeRuns(rs) == FlattenSeq(EncodedAs(rs))
CutsOf(rs) == [n \in 1..Len(rs) + 1 |-> Len(FlattenSeq(SubSeq(EncodedAs(rs), 1, n - 1)))]

MCRuns == [lcn : {-1, 0, 3, 8, 11, 17}, length : {1, 2}]
MCRunLists ==
  {<<>>, <<[lcn |-> 9, length |-> 2], [lcn |-> -1, length |-> 1], [lcn |-> 1, length |-> 2]>>}
    \cup {<<r>> : r \in MCRuns} \cup {<<r, s>> : r \in MCRuns, s \in MCRuns}
NameAttr(size) == [type |-> "name", size |-> size]
RunsAttr(bytes, named) == [type |-> "data", named |-> named, resident |-> FALSE, runs |-> bytes]
HeldAttr(bytes) == [type |-> "data", named |-> FALSE, resident |-> TRUE, bytes |-> bytes]
EndAttr == [type |-> "end"]
Deleted(n, size, attrs, length, more) ==
  LET record == Record(n, Version(2, <<1, 1, 1>>), Version(1, <<1, 8, 7>>))
  IN  [kind |-> "deleted", cluster |-> 2, size |-> size, name |-> 1, end |-> Len(attrs) - 1,
       data |-> Len(attrs) - 2, image |-> [k \in 1..length |-> k],
       raw |-> [attrs |-> attrs] @@ record.raw] @@ more @@ record
DeletedSamples ==
  {Deleted(3, size,
           <<NameAttr(size), RunsAttr(<<5, 1, 1>>, TRUE),
             RunsAttr(EncodeRuns(rs) \o tail, FALSE), EndAttr, HeldAttr(<<9>>)>>, length,
           [held |-> FALSE, runs |-> rs, cuts |-> CutsOf(rs)]) :
     rs \in MCRunLists, size \in {0, 3, 5, 7}, tail \in {<<>>, <<0, 5, 1, 1>>}, length \in {20, 36}}
  \cup
  {Deleted(n, size, <<NameAttr(size), HeldAttr(held), EndAttr, NameAttr(1)>>, 4,
           [held |-> TRUE, resident |-> held, runs |-> <<>>]) :
     n \in 0..3, held \in {<<>>, <<5>>, <<5, 6, 7>>}, size \in {0, 2, 3}}

(* MP4 files of two boxes with chunk offsets below moov and below          *)
(* moov/trak, sizes of 64 bits or up to the end, a table that claims more  *)
(* entries than it has, cut anywhere.                                      *)
Ftyp == 26
Moov == 27
Mdat == 28
Trak == 31
Part(words) == [words |-> words, boxes |-> {}]
Moved(boxes, d) ==
  {[box EXCEPT !.at = @ + d, !.content = @ + d, !.end = @ + d,
               !.limit = IF @ = -1 THEN @ ELSE @ + d] : box \in boxes}
Closed(part) ==
  [part EXCEPT !.boxes =
     {[box EXCEPT !.limit = IF @ = -1 THEN Len(part.words) ELSE @] : box \in @}]
Beside(one, more) ==
  [words |-> one.words \o more.words,
   boxes |-> one.boxes \cup Moved(more.boxes, Len(one.words))]
Headed(head, body) ==
  LET whole == Closed(Beside(Part(head), body))
  IN  [whole EXCEPT !.boxes = @ \cup {[at |-> 0, content |-> Len(head), end |-> Len(whole.words),
                                       limit |-> -1, type |-> head[2]]}]
Box(type, body) == Headed(<<2 + Len(body.words), type>>, body)
Wide(v) == <<v \div WordTop, v % WordTop>>
Into(v, top) == Max({0, Min({v, top - 1})})
StcoBox(d, claim) ==
  Box(Stco, Part(<<0, claim, Into(3 + d, WordTop),
                   IF claim = 1 THEN 30 ELSE Into(30 + d, WordTop)>>))
Co64Box(d) == Box(Co64, Part(<<0, 2>> \o Wide(Into(5 + d, 512)) \o Wide(Into(31 + d, 512))))
MCBoxes(d) ==
  <<Box(Ftyp, Part(<<9>>)), Box(Moov, StcoBox(d, 2)), Box(Moov, Box(Trak, Co64Box(d))),
    Box(Moov, StcoBox(d, 9)), Box(Mdat, Part(<<3, Stco>>)),
    Headed(<<1, Mdat, 0, 6>>, Part(<<7, 7>>)), Headed(<<0, Mdat>>, Part(<<5, Stco>>)),
    Box(Moov, Beside(Box(Trak, StcoBox(d, 1)), Co64Box(d)))>>
Mp4Samples ==
  UNION {LET file(d) == Closed(Beside(MCBoxes(d)[i], MCBoxes(d)[j]))
         IN  {[kind |-> "mp4", delta |-> d, file |-> SubSeq(file(0).words, 1, cut),
               whole |-> file(0).words, boxes |-> file(0).boxes, shifted |-> file(d).words] :
                cut \in 0..Len(file(0).words), d \in {-4, 2}} :
         i \in 1..8 \ {7}, j \in 1..8}

(* Images of three fragments, searched in chunks of three words on.        *)
MCSignatures ==
  <<[magic |-> <<20, 21>>, ext |-> "jpg", back |-> 0, footer |-> <<22>>, tail |-> 1, fallback |-> 8],
    [magic |-> <<23>>, ext |-> "gz", back |-> 0, footer |-> <<>>, tail |-> 0, fallback |-> 4],
    [magic |-> <<Ftyp>>, ext |-> "mp4", back |-> 1, footer |-> <<>>, tail |-> 0, fallback |-> 0]>>
Jpeg == <<20, 21, 5, 22>>
Fragments == <<Jpeg, <<3, Ftyp, 9, 4, Mdat, 1, 2>>, <<3, Ftyp, 9, 1, Mdat, 0, 5, 8>>,
               <<20>>, <<23, Ftyp>>, <<Ftyp, 5>>, <<21, 22>>>>
WholeCuts == <<<<0, 4>>, <<0, 3, 7>>, <<0, 3, 8>>>>
WholeSigs == <<1, 3, 3>>
Picture(s) == FlattenSeq([n \in DOMAIN s |-> Fragments[s[n]]])
\* what follows an MP4 file is not taken for a box of it
Alone(s, m) ==
  LET rest == Picture(SubSeq(s, m + 1, Len(s)))
  IN  s[m] = 1 \/ Len(rest) < 2 \/ rest[2] \notin Mp4Types
ImageSamples ==
  {[kind |-> "image", image |-> Picture(s), chunk |-> c,
    whole |-> {[offset |-> Len(Picture(SubSeq(s, 1, n - 1))), sig |-> WholeSigs[s[n]],
                bytes |-> Fragments[s[n]], cuts |-> WholeCuts[s[n]]] :
                 n \in {m \in DOMAIN s : s[m] \in 1..3 /\ Alone(s, m)}}] :
     s \in {<<i, j, k>> : i \in 1..7, j \in 1..7, k \in 1..7}, c \in {3, 4, 5, 20}}

(* Disks of up to three partitions, of one sector or more, NTFS or not, in *)
(* an MBR or behind a protective one, or with none; some are cut short.    *)
MCParts == {[first |-> 3, last |-> 4], [first |-> 5, last |-> 5], [first |-> 6, last |-> 8]}
Orders(s) == {t \in [1..Cardinality(s) -> s] : \A i, j \in DOMAIN t : i # j => t[i] # t[j]}
Protective == <<[type |-> 238, first |-> 1, count |-> 8]>>
MbrOf(t) == [n \in DOMAIN t |->
               [type |-> 7, first |-> t[n].first, count |-> t[n].last - t[n].first + 1]]
GptOf(t) == <<[used |-> FALSE, first |-> 0, last |-> 0]>>
              \o [n \in DOMAIN t |-> [used |-> TRUE, first |-> t[n].first, last |-> t[n].last]]
Disk(n, mbr, gpt, boots) ==
  [sectors |-> n, signed |-> TRUE, mbr |-> mbr, gpt |-> gpt, boots |-> boots]
Gpt(t, size) == [at |-> 2, entrySize |-> size, entries |-> GptOf(t)]
Partitioned(disk, parts) ==
  [kind |-> "disk", sound |-> TRUE, disk |-> disk, parts |-> parts,
   volumes |-> {parts[k].first : k \in {i \in DOMAIN parts : parts[i].used}}
                 \cap disk.boots \cap 0..disk.sectors - 1]
DiskSamples ==
  UNION {
    {Partitioned(Disk(n, MbrOf(t), NoTable, boots), Tail(GptOf(t))),
     Partitioned(Disk(n, Protective, Gpt(t, 128), boots), GptOf(t)),
     [kind |-> "disk", sound |-> TRUE, volumes |-> {0},
      disk |-> Disk(n, MbrOf(t), Gpt(t, 64), boots \cup {0})]}
    \cup
    {[kind |-> "disk", sound |-> FALSE, disk |-> Disk(m, Protective, Gpt(t, size), boots)] :
       m \in {0, 1, 2}, size \in {64, 128, 512}} :
    n \in {6, 9}, t \in UNION {Orders(s) : s \in SUBSET MCParts}, boots \in SUBSET {3, 5, 6}}

MCSamples == RecordSamples \cup DeletedSamples \cup Mp4Samples \cup ImageSamples \cup DiskSamples
NoSample == [kind |-> "none"]

----------------------------------------------------------------------------
VARIABLE subject

Init ==
  /\ subject \in {"imager", "sidecar", "index", "format"}
  /\ IF subject = "imager" THEN ImagerInit
     ELSE image = <<>> /\ mark = NoMark /\ stated = 0 /\ imaging = NotImaging
          /\ imaged = NotImaged /\ before = <<>> /\ begun = 0 /\ reached = 0
          /\ disturbed = FALSE /\ trouble = 0
  /\ SidecarInit
  /\ IndexInit
  /\ IF subject = "format" THEN FormatsInit ELSE sample = NoSample /\ result = Unread

Next ==
  /\ UNCHANGED subject
  /\ \/ subject = "imager" /\ ImagerNext /\ UNCHANGED <<sidecarVars, indexVars, formatVars>>
     \/ subject = "sidecar" /\ SidecarNext /\ UNCHANGED <<imagerVars, indexVars, formatVars>>
     \/ subject = "index" /\ IndexNext /\ UNCHANGED <<imagerVars, sidecarVars, formatVars>>
     \/ subject = "format" /\ FormatsNext /\ UNCHANGED <<imagerVars, sidecarVars, indexVars>>

vars == <<subject, imagerVars, sidecarVars, indexVars, formatVars>>
Spec == Init /\ [][Next]_vars /\ SidecarFairness
============================================================================
