----------------------------- MODULE MCDaimCore -----------------------------
(***************************************************************************)
(* DaimCore for TLC: two threads, one writable and one read-only table.    *)
(***************************************************************************)
EXTENDS DaimCore, TLC

CONSTANTS t1, t2, e1, e2

\* daim_table_read with entry = NULL, and with the prefix of one entry.
MCFilters == {Entries, {e1}}
=============================================================================
