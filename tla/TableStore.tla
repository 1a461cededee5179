----------------------------- MODULE TableStore -----------------------------
(***************************************************************************)
(* What DAIM Core promises about its tables: every operation of the API    *)
(* takes effect in one indivisible step, in some order.  The detailed      *)
(* specification of daim_core.c (module DaimCore) implements this one.     *)
(*                                                                         *)
(* The promise does not tie an operation to `up': the library looks at the *)
(* life cycle before it takes the lock, so a call that overlaps daim_quit  *)
(* may still take effect on a core that is down.                           *)
(***************************************************************************)
EXTENDS TableOps

VARIABLES
    up,         \* between daim_init and daim_quit
    generation, \* successful changes since the tables were last cleared
    items,      \* the entries of each table, in insertion order
    cursor,     \* how many entries of each table have been passed by readers
    handler     \* the callback of each signal

storeVars == <<up, generation, items, cursor, handler>>

\* Memory as it is before the first daim_init: no entry and no handler.
Empty ==
    /\ generation = 0
    /\ items = [tab \in Tables |-> <<>>]
    /\ cursor = [tab \in Tables |-> 0]
    /\ handler = [s \in Signals |-> NoHandler]

\* The step that zeroes it.
Clear ==
    /\ generation' = 0
    /\ items' = [tab \in Tables |-> <<>>]
    /\ cursor' = [tab \in Tables |-> 0]
    /\ handler' = [s \in Signals |-> NoHandler]

-----------------------------------------------------------------------------
Start ==
    /\ ~up
    /\ up' = TRUE
    /\ Clear

Quit ==
    /\ up' = FALSE
    /\ Clear

Add(tab, e) ==
    /\ items' = [items EXCEPT ![tab] = Append(@, e)]
    /\ generation' = generation + 1
    /\ UNCHANGED <<up, cursor, handler>>

\* One occurrence goes, the first; the readers' position is only pulled back
\* when it would lie beyond the end.
Delete(tab, e) ==
    \E i \in DOMAIN items[tab] :
        /\ IsFirst(items[tab], e, i)
        /\ items' = [items EXCEPT ![tab] = WithoutIndex(@, i)]
        /\ cursor' = [cursor EXCEPT ![tab] = LowerOf(@, Len(items[tab]) - 1)]
        /\ generation' = generation + 1
        /\ UNCHANGED <<up, handler>>

Read(tab, filter) ==
    \E i \in DOMAIN items[tab] :
        /\ IsNext(items[tab], cursor[tab], filter, i)
        /\ cursor' = [cursor EXCEPT ![tab] = i]
        /\ UNCHANGED <<up, generation, items, handler>>

Rewind(tab) ==
    /\ cursor' = [cursor EXCEPT ![tab] = 0]
    /\ UNCHANGED <<up, generation, items, handler>>

Register(s, h) ==
    /\ handler' = [handler EXCEPT ![s] = h]
    /\ UNCHANGED <<up, generation, items, cursor>>

-----------------------------------------------------------------------------
Init == up = FALSE /\ Empty

Next ==
    \/ Start
    \/ Quit
    \/ \E tab \in Writable, e \in Entries : Add(tab, e) \/ Delete(tab, e)
    \/ \E tab \in Tables, filter \in SUBSET Entries : Read(tab, filter)
    \/ \E tab \in Tables : Rewind(tab)
    \/ \E s \in Signals, h \in Handlers \cup {NoHandler} : Register(s, h)

Spec == Init /\ [][Next]_storeVars
=============================================================================
