------------------------------ MODULE TableOps ------------------------------
(***************************************************************************)
(* The tables of DAIM Core as data: which tables there are, what one entry  *)
(* is, and the searches daim_table_write and daim_table_read make in a     *)
(* table.  Shared by the abstract store (TableStore) and the library       *)
(* (DaimCore).                                                             *)
(***************************************************************************)
EXTENDS Naturals, Sequences

CONSTANTS
    Tables,     \* every table of enum daim_table
    Writable,   \* the tables daim_table_write accepts
    Entries,    \* entry buffers, told apart by their bytes
    Signals,    \* signal numbers
    Handlers,   \* callback functions
    NoHandler   \* the NULL callback

ASSUME StoreAssumption ==
    /\ Writable \subseteq Tables
    /\ NoHandler \notin Handlers

-----------------------------------------------------------------------------
\* i is the position of the first occurrence of e in s.
IsFirst(s, e, i) ==
    /\ i \in DOMAIN s
    /\ s[i] = e
    /\ \A j \in 1 .. (i - 1) : s[j] # e

\* i is the first position of s after `from' whose entry the filter admits.
IsNext(s, from, filter, i) ==
    /\ i \in DOMAIN s
    /\ from < i
    /\ s[i] \in filter
    /\ \A j \in (from + 1) .. (i - 1) : s[j] \notin filter

WithoutIndex(s, i) == SubSeq(s, 1, i - 1) \o SubSeq(s, i + 1, Len(s))

LowerOf(a, b) == IF a < b THEN a ELSE b

=============================================================================
