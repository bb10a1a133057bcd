------------------------------ MODULE Volumes ------------------------------
(***************************************************************************)
(* Where the NTFS volumes of an image begin (engine/src/partition.rs and   *)
(* volumes(), engine/src/recovery.rs 368-408).  Positions are sectors of   *)
(* 512 bytes; `boots` are the sectors that parse as an NTFS boot sector.   *)
(* A table is the first sectors of its partitions, slot by slot.           *)
(***************************************************************************)
EXTENDS Sorting

CONSTANTS NoTable,     \* no GPT header
          MinEntry,    \* 128, the least size of a GPT entry
          MaxTable,    \* 16 MiB, the largest table that is read
          SectorBytes, \* 512
          Unreadable   \* the scan fails

Empty == -1            \* a slot without a partition

(* parse_mbr (54-79): its primary partitions. *)
ParseMbr(disk) ==
  [i \in DOMAIN disk.mbr |->
     IF disk.signed /\ disk.mbr[i].type # 0 /\ disk.mbr[i].count # 0 THEN disk.mbr[i].first
     ELSE Empty]

\* Mutant: an entry of one sector counts as empty
ParseGptLonger(gpt) ==
  [i \in DOMAIN gpt.entries |->
     IF gpt.entrySize >= MinEntry /\ gpt.entries[i].used /\ gpt.entries[i].last > gpt.entries[i].first
     THEN gpt.entries[i].first ELSE Empty]

(* parse_gpt (82-122). *)
ParseGpt(gpt) ==
  [i \in DOMAIN gpt.entries |->
     IF gpt.entrySize >= MinEntry /\ gpt.entries[i].used /\ gpt.entries[i].last >= gpt.entries[i].first
     THEN gpt.entries[i].first ELSE Empty]

(* The table behind a GPT header (379-392): too large a one is ignored in  *)
(* favour of the MBR, one that is not there fails the scan.                *)
TableBytes(gpt) == Len(gpt.entries) * gpt.entrySize
TableUsed(disk) == disk.gpt # NoTable /\ TableBytes(disk.gpt) <= MaxTable
TableThere(disk) ==
  disk.gpt.at * SectorBytes + TableBytes(disk.gpt) <= disk.sectors * SectorBytes
Partitions(disk) == IF TableUsed(disk) THEN ParseGpt(disk.gpt) ELSE ParseMbr(disk)

(* The partitions that can be read and begin with an NTFS boot sector, in  *)
(* order (394-406).                                                        *)
Begins(disk, first) == first < disk.sectors /\ first \in disk.boots
NtfsAmong(disk, firsts) ==
  LET found[i \in 0..Len(firsts)] ==
        IF i = 0 THEN <<>>
        ELSE IF Begins(disk, firsts[i]) THEN Inserted(found[i - 1], firsts[i]) ELSE found[i - 1]
  IN  found[Len(firsts)]

(* volumes: a volume without a partition table, or those of the table.     *)
FindVolumes(disk) ==
  IF disk.sectors = 0 THEN <<>>
  ELSE IF 0 \in disk.boots THEN <<0>>
  ELSE IF disk.sectors < 2 \/ (TableUsed(disk) /\ ~TableThere(disk)) THEN Unreadable
  ELSE NtfsAmong(disk, Partitions(disk))
=============================================================================
