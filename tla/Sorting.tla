------------------------------ MODULE Sorting ------------------------------
(***************************************************************************)
(* Sorting as the standard library does it, stably, by what it yields: one *)
(* number after another goes behind those that are not greater.            *)
(***************************************************************************)
EXTENDS Integers, Sequences, FiniteSetsExt

Inserted(sorted, v) ==
  LET n == Max({0} \cup {k \in DOMAIN sorted : sorted[k] <= v})
  IN  SubSeq(sorted, 1, n) \o <<v>> \o SubSeq(sorted, n + 1, Len(sorted))
=============================================================================
