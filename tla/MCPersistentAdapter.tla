------------------------- MODULE MCPersistentAdapter -------------------------
(* Two threads beside the reader.  The switch sends three messages, so that *)
(* two requests can follow its Hello; a message's body fills the reader's   *)
(* buffer exactly or is longer.                                             *)
EXTENDS PersistentAdapter

Token(k, v) == [key |-> k, val |-> v]

\* A rule as install_flow writes it, with a key that the adapter does not know
\* and a priority beyond 16 bits, and an address that is none.
MCStrings == {
    <<Token("priority", 65636), Token("in_port", 1), Token("dl_dst", 2),
      Token("tp_dst", 80), Token("output", 3)>>,
    <<Token("in_port", 1), Token("dl_dst", Unreadable)>> }
=============================================================================
