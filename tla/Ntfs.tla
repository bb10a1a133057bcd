-------------------------------- MODULE Ntfs --------------------------------
(***************************************************************************)
(* The NTFS structures a deleted file is recovered from (engine/src/ntfs   *)
(* .rs, engine/src/ntfs_extract.rs): records of the file table with their  *)
(* update sequence, the attributes of a record, data runs, and the content *)
(* the runs lead to.                                                       *)
(*                                                                         *)
(* A record is its cells of two bytes and, apart from those, the           *)
(* attributes they spell.  Encoded runs are sequences of bytes; a byte has *)
(* Base values, a nibble Nibble, and a 64-bit word WordBytes bytes.        *)
(***************************************************************************)
EXTENDS Integers, Sequences, SequencesExt

CONSTANTS Base, Nibble, WordBytes,
          MaxExtract,     \* 64 MiB, the largest file that is extracted in memory
          NoContent       \* a file that cannot be extracted

ASSUME NtfsAssumption ==
  /\ Nibble \in Nat /\ Nibble > 1 /\ Base = Nibble * Nibble
  /\ WordBytes \in 1..Nibble - 1

(* Powers of Base: a shift by n bytes is a multiplication.                 *)
Power[n \in Nat] == IF n = 0 THEN 1 ELSE Base * Power[n - 1]
WordEnd == Power[WordBytes]    \* 2^64

----------------------------------------------------------------------------
\* Mutant: only the first sector is compared with the sequence number
FixupFirstOnly(rec, sector) ==
  LET n == Len(rec.cells) \div sector
  IN  [ok |-> rec.count = n + 1 /\ rec.cells[sector] = rec.cells[rec.usa + 1],
       cells |-> [k \in DOMAIN rec.cells |->
                    IF k % sector = 0 THEN rec.cells[rec.usa + 1 + k \div sector] ELSE rec.cells[k]]]

(* apply_fixup (ntfs.rs 101-124): the last cell of every sector must be    *)
(* the update sequence number, and is replaced by the saved one.  A record *)
(* that fails stays as far as it was fixed.                                *)
FixSector(rec, sector, r, i) ==
  IF r.ok /\ r.cells[i * sector] = rec.cells[rec.usa + 1]
  THEN [ok |-> TRUE, cells |-> [r.cells EXCEPT ![i * sector] = r.cells[rec.usa + 1 + i]]]
  ELSE [ok |-> FALSE, cells |-> r.cells]
FixSectors(rec, sector, sectors) ==
  FoldLeft(LAMBDA r, i : FixSector(rec, sector, r, i),
           [ok |-> TRUE, cells |-> rec.cells], sectors)
Fixup(rec, sector) ==
  LET n == Len(rec.cells) \div sector
  IN  IF rec.count # n + 1 \/ rec.usa + rec.count > Len(rec.cells)
      THEN [ok |-> FALSE, cells |-> rec.cells]
      ELSE FixSectors(rec, sector, [i \in 1..n |-> i])

----------------------------------------------------------------------------
(* A little-endian number (ntfs.rs 141-149).                               *)
Number(bytes) ==
  LET v[i \in 0..Len(bytes)] == IF i = 0 THEN 0 ELSE v[i - 1] + bytes[i] * Power[i - 1]
  IN  v[Len(bytes)]

\* Mutant: an offset is taken as an unsigned number
SignedPlain(bytes) == Number(bytes)

(* A sign-extended number (150-156).                                       *)
Signed(bytes) ==
  IF 2 * Number(bytes) >= Power[Len(bytes)] THEN Number(bytes) - Power[Len(bytes)]
  ELSE Number(bytes)

(* parse_data_runs (129-175), one turn of its loop: an offset is relative  *)
(* to the last cluster run before it that was not sparse.                  *)
RunRead(data, st) ==
  LET len    == data[st.at + 1] % Nibble
      off    == data[st.at + 1] \div Nibble
      end    == st.at + 1 + len + off
      length == Number(SubSeq(data, st.at + 2, st.at + 1 + len))
      lcn    == st.lcn + Signed(SubSeq(data, st.at + 2 + len, end))
      run(c) == [lcn |-> c, length |-> length]
  IN  IF ~st.more \/ st.at = Len(data) THEN st
      ELSE IF \/ len = 0 \/ len > WordBytes \/ off > WordBytes \/ end > Len(data)
              \/ length = 0 \/ (off > 0 /\ (lcn < 0 \/ 2 * lcn >= WordEnd))
      THEN [at |-> st.at, lcn |-> st.lcn, runs |-> st.runs, more |-> FALSE]
      ELSE IF off = 0
      THEN [at |-> end, lcn |-> st.lcn, runs |-> Append(st.runs, run(-1)), more |-> TRUE]
      ELSE [at |-> end, lcn |-> lcn, runs |-> Append(st.runs, run(lcn)), more |-> TRUE]
NoRuns == [at |-> 0, lcn |-> 0, runs |-> <<>>, more |-> TRUE]
ParseRuns(data) ==
  LET st[i \in 0..Len(data)] == IF i = 0 THEN NoRuns ELSE RunRead(data, st[i - 1])
  IN  st[Len(data)].runs

(* parse_record (207-266): attributes up to the end mark or the first that *)
(* does not fit; of unnamed data the last non-resident one counts.         *)
Live(raw) == {i \in DOMAIN raw.attrs : \A j \in 1..i : raw.attrs[j].type \notin {"end", "broken"}}
Names(raw) == {i \in Live(raw) : raw.attrs[i].type = "name"}
Data(raw, resident) ==
  {i \in Live(raw) : /\ raw.attrs[i].type = "data" /\ ~raw.attrs[i].named
                     /\ raw.attrs[i].resident = resident}
ParseRecord(raw, sector) ==
  [ok |-> Fixup(raw, sector).ok,
   size |-> IF Names(raw) = {} THEN 0 ELSE raw.attrs[Min(Names(raw))].size,
   runs |-> IF Data(raw, FALSE) = {} THEN <<>>
           ELSE ParseRuns(raw.attrs[Max(Data(raw, FALSE))].runs),
   resident |-> Data(raw, TRUE) # {}]

----------------------------------------------------------------------------
Zeros(n) == [i \in 1..n |-> 0]
Smaller(a, b) == IF a < b THEN a ELSE b

(* extract_non_resident (ntfs_extract.rs 89-136): every run up to the size *)
(* of the file; a read past the end of the image, or runs that are short   *)
(* of the size, fail.                                                      *)
ReadRun(image, cluster, size, r, run) ==
  LET want  == Smaller(run.length * cluster, size - Len(r.out))
      first == run.lcn * cluster
  IN  IF ~r.ok \/ Len(r.out) >= size THEN r
      ELSE IF run.length * cluster >= WordEnd \/ (run.lcn # -1 /\ first + want > Len(image))
      THEN [ok |-> FALSE, out |-> r.out]
      ELSE [ok |-> TRUE, out |-> r.out \o IF run.lcn = -1 THEN Zeros(want)
                                          ELSE SubSeq(image, first + 1, first + want)]
FromRuns(image, cluster, runs, size) ==
  LET read[i \in 0..Len(runs)] == IF i = 0 THEN [ok |-> TRUE, out |-> <<>>]
                                  ELSE ReadRun(image, cluster, size, read[i - 1], runs[i])
      end == read[Len(runs)]
  IN  IF end.ok /\ Len(end.out) = size THEN end.out ELSE NoContent

(* extract_file_content (24-86): the size is that of the first name; data  *)
(* in the record itself comes first.                                       *)
Extract(image, cluster, raw, sector) ==
  LET rec   == ParseRecord(raw, sector)
      bytes == raw.attrs[Min(Data(raw, TRUE))].bytes
  IN  IF ~rec.ok \/ rec.size > MaxExtract THEN NoContent
      ELSE IF rec.resident THEN SubSeq(bytes, 1, Smaller(Len(bytes), rec.size))
      ELSE IF rec.runs # <<>> THEN FromRuns(image, cluster, rec.runs, rec.size)
      ELSE NoContent
=============================================================================
