--------------------------- MODULE DaimCoreProofs ---------------------------
(***************************************************************************)
(* Theorems about DaimCore: its invariants, and that it implements the     *)
(* atomic store of module TableStore, for any threads, tables, entries and *)
(* number of calls.                                                        *)
(***************************************************************************)
EXTENDS DaimCore, SequenceTheorems, TLAPS

-----------------------------------------------------------------------------
(* Removing one entry of a table, and the records that stand for calls.    *)

\* The memmove of a deletion leaves a sequence of the same kind, one shorter.
LEMMA WithoutIndexShortens ==
    ASSUME NEW S, NEW s \in Seq(S), NEW i \in 1 .. Len(s)
    PROVE  /\ WithoutIndex(s, i) \in Seq(S)
           /\ Len(WithoutIndex(s, i)) = Len(s) - 1
<1>1. SubSeq(s, 1, i - 1) \in Seq(S) /\ Len(SubSeq(s, 1, i - 1)) = i - 1
  BY SubSeqProperties
<1>2. SubSeq(s, i + 1, Len(s)) \in Seq(S) /\ Len(SubSeq(s, i + 1, Len(s))) = Len(s) - i
  BY SubSeqProperties
<1>3. /\ SubSeq(s, 1, i - 1) \o SubSeq(s, i + 1, Len(s)) \in Seq(S)
      /\ Len(SubSeq(s, 1, i - 1) \o SubSeq(s, i + 1, Len(s)))
           = Len(SubSeq(s, 1, i - 1)) + Len(SubSeq(s, i + 1, Len(s)))
  BY <1>1, <1>2, ConcatProperties, Zenon
<1>4. (i - 1) + (Len(s) - i) = Len(s) - 1
  BY LenProperties
<1>5. QED
  BY <1>1, <1>2, <1>3, <1>4 DEF WithoutIndex

\* What the fields of a call may hold, by its operation.
LEMMA CallFields ==
    ASSUME NEW c \in AllCalls
    PROVE  /\ c.op \in {"add", "del"} <=> c \in WriteCalls
           /\ c.op \in {"add", "del"} => c.tab \in Tables /\ c.entry \in Entries
           /\ c.op = "read" => c.tab \in Tables /\ c.filter \in Filters
           /\ c.op = "rewind" => c.tab \in Tables
           /\ c.op = "signal" => c.sig \in Signals /\ c.fn \in Handlers \cup {NoHandler}
           /\ c.op = "emit" => c.sig \in Signals
           /\ c.op \in {"init", "quit"} <=> c \notin CheckedCalls
  BY DEF AllCalls, CheckedCalls, LifecycleCalls, WriteCalls, ReadCalls, RewindCalls,
         SignalCalls, EmitCalls

\* A position a thread comes back with is one of the table it searched.
LEMMA FoundInTable ==
    ASSUME NEW c \in AllCalls, NEW i, Finds(c, i), TypeOK
    PROVE  /\ i \in Nat
           /\ c.op \in {"del", "read"} /\ i # 0 => i \in 1 .. Len(items[c.tab])
  BY CallFields DEF Finds, IsFirst, IsNext, TypeOK

-----------------------------------------------------------------------------
(* Type correctness.                                                       *)

\* Clearing the tables keeps their types.
LEMMA ClearTypes ==
    ASSUME Clear
    PROVE  /\ generation' \in Nat
           /\ items' \in [Tables -> Seq(Entries)]
           /\ cursor' \in [Tables -> Nat]
           /\ handler' \in [Signals -> Handlers \cup {NoHandler}]
  BY DEF Clear

\* The part of the type invariant that is about the tables.
StoreTypes ==
    /\ up \in BOOLEAN
    /\ generation \in Nat
    /\ items \in [Tables -> Seq(Entries)]
    /\ cursor \in [Tables -> Nat]
    /\ handler \in [Signals -> Handlers \cup {NoHandler}]

\* Whatever a call does to the tables, their types stay.
LEMMA EffectTypes ==
    ASSUME TypeOK, NEW c \in AllCalls, NEW i, Finds(c, i), Effect(c, i)
    PROVE  StoreTypes'
<1> USE DEF StoreTypes
<1>0. /\ StoreTypes
      /\ i \in Nat
  BY FoundInTable DEF TypeOK
<1>1. CASE UNCHANGED storeVars
  BY <1>0, <1>1 DEF storeVars
<1>2. CASE c.op = "init" /\ InitTables
  BY <1>2, ClearTypes DEF InitTables
<1>3. CASE c.op = "quit" /\ QuitTables
  BY <1>3, ClearTypes DEF QuitTables
<1>4. CASE c.op = "add" /\ AppendEntry(c)
  BY <1>0, <1>4, CallFields DEF AppendEntry
<1>5. CASE i # 0 /\ c.op = "del" /\ RemoveEntry(c, i)
  <2>1. c.tab \in Tables /\ i \in 1 .. Len(items[c.tab])
    BY <1>5, CallFields, FoundInTable
  <2>2. WithoutIndex(items[c.tab], i) \in Seq(Entries)
    BY <1>0, <2>1, WithoutIndexShortens
  <2>3. LowerOf(cursor[c.tab], Len(items[c.tab]) - 1) \in Nat
    BY <1>0, <2>1 DEF LowerOf
  <2>4. QED
    BY <1>0, <1>5, <2>1, <2>2, <2>3 DEF RemoveEntry
<1>6. CASE c.op = "read" /\ MoveCursor(c, i)
  BY <1>0, <1>6, CallFields DEF MoveCursor
<1>7. CASE c.op = "rewind" /\ MoveCursor(c, 0)
  BY <1>0, <1>7, CallFields DEF MoveCursor
<1>8. CASE c.op = "signal" /\ SetHandler(c)
  BY <1>0, <1>8, CallFields DEF SetHandler
<1>9. QED
  BY <1>1, <1>2, <1>3, <1>4, <1>5, <1>6, <1>7, <1>8, Zenon
     DEF Effect

\* The initial state has the types.
LEMMA InitTypes == Init => TypeOK
<1>1. NoCall \in AllCalls
  BY DEF NoCall, AllCalls, LifecycleCalls
<1>2. Init => StoreTypes
  <2>1. Init => up \in BOOLEAN
    BY Zenon DEF Init
  <2>2. Init => items \in [Tables -> Seq(Entries)] /\ cursor \in [Tables -> Nat]
    BY DEF Init, Empty
  <2>3. Init => generation \in Nat /\ handler \in [Signals -> Handlers \cup {NoHandler}]
    BY DEF Init, Empty
  <2>4. QED
    BY <2>1, <2>2, <2>3 DEF StoreTypes
<1>3. Init => pc \in [Threads -> Phases]
  BY DEF Init, Phases
<1>4. Init => call \in [Threads -> AllCalls] /\ at \in [Threads -> Nat]
  BY <1>1 DEF Init
<1>5. Init => calls \in 0 .. MaxCalls
  BY CoreAssumption DEF Init
<1>6. QED
  BY <1>2, <1>3, <1>4, <1>5 DEF Init, StoreTypes, TypeOK

\* Every step keeps the types.
LEMMA StepTypes == TypeOK /\ FoundStillThere /\ [Next]_vars => TypeOK'
<1> SUFFICES ASSUME TypeOK, FoundStillThere, [Next]_vars
             PROVE  TypeOK'
  OBVIOUS
<1> USE DEF TypeOK
<1>1. CASE UNCHANGED vars
  BY <1>1 DEF vars
<1>2. ASSUME NEW t \in Threads, NEW c \in AllCalls, Enter(t, c)
      PROVE  TypeOK'
  <2>1. pc' \in [Threads -> Phases] /\ call' \in [Threads -> AllCalls]
    BY <1>2 DEF Enter, Goto, Phases
  <2>2. calls' \in 0 .. MaxCalls
    BY <1>2, CoreAssumption DEF Enter
  <2>3. QED
    BY <1>2, <2>1, <2>2 DEF Enter, storeVars
<1>3. ASSUME NEW t \in Threads, Begin(t)
      PROVE  TypeOK'
  BY <1>2, <1>3 DEF Begin
<1>4. ASSUME NEW t \in Threads, BeginInit(t)
      PROVE  TypeOK'
  <2>1. [op |-> "init"] \in AllCalls
    BY DEF AllCalls, LifecycleCalls
  <2>2. calls' \in 0 .. MaxCalls
    BY <1>4, CoreAssumption DEF BeginInit
  <2>3. QED
    BY <1>4, <2>1, <2>2 DEF BeginInit, Goto, Phases, storeVars
<1>5. ASSUME NEW t \in Threads, CreateMutex(t)
      PROVE  TypeOK'
  BY <1>5 DEF CreateMutex, Goto, Phases, storeVars
<1>6. ASSUME NEW t \in Threads, SetReady(t)
      PROVE  TypeOK'
  BY <1>6 DEF SetReady, Goto, Phases, storeVars
<1>7. ASSUME NEW t \in Threads, Acquire(t)
      PROVE  TypeOK'
  BY <1>7 DEF Acquire, Goto, Phases, storeVars
<1>8. ASSUME NEW t \in Threads, Locate(t)
      PROVE  TypeOK'
  <2>1. PICK i \in Positions(call[t]) :
             Finds(call[t], i) /\ at' = [at EXCEPT ![t] = i]
    BY <1>8 DEF Locate
  <2>2. i \in Nat
    BY <1>8, <2>1, FoundInTable
  <2>3. QED
    BY <1>8, <2>1, <2>2 DEF Locate, Goto, Phases, storeVars
<1>9. ASSUME NEW t \in Threads, HandlerWrites(t)
      PROVE  TypeOK'
  BY <1>2, <1>9 DEF HandlerWrites, AllCalls, CheckedCalls
<1>10. ASSUME NEW t \in Threads, HandlerReturns(t)
       PROVE  TypeOK'
  BY <1>10 DEF HandlerReturns, Goto, Phases, storeVars
<1>11. ASSUME NEW t \in Threads, Commit(t)
       PROVE  TypeOK'
  <2>1. /\ call[t] \in AllCalls
        /\ Finds(call[t], at[t])
        /\ Effect(call[t], at[t])
    BY <1>11 DEF Commit, FoundStillThere
  <2>2. StoreTypes'
    BY <2>1, EffectTypes
  <2>3. pc' \in [Threads -> Phases] /\ overlapped' \in BOOLEAN
    BY <1>11 DEF Commit, Goto, AfterUnlock, Phases, NextOverlapped, OthersPastCheck
  <2>4. QED
    BY <1>11, <2>2, <2>3 DEF Commit, StoreTypes
<1>12. QED
  BY <1>1, <1>3, <1>4, <1>5, <1>6, <1>7, <1>8, <1>9, <1>10, <1>11 DEF Next, Step

-----------------------------------------------------------------------------
(* Mutual exclusion.                                                       *)

\* Why the mutex excludes: it is initialised by one thread, before anybody
\* can wait for it, and whoever is past Acquire finds it held.
Locking ==
    /\ MutualExclusion
    /\ \A t \in Threads : pc[t] \in {"locate", "commit"} => mutex = "held"
    /\ \A t \in Threads : pc[t] \in {"mutex_init", "set_ready"} => t \in Starters /\ ~lockReady
    /\ ~lockReady => \A t \in Threads : pc[t] \in {"idle", "mutex_init", "set_ready"}

\* Every step keeps it.
LEMMA StepLocking == TypeOK /\ Locking /\ [Next]_vars => Locking'
<1> SUFFICES ASSUME TypeOK, Locking, [Next]_vars
             PROVE  Locking'
  OBVIOUS
<1> USE DEF TypeOK, Locking, MutualExclusion
<1>1. CASE UNCHANGED vars
  BY <1>1 DEF vars
<1>2. ASSUME NEW t \in Threads, NEW c \in AllCalls, pc[t] \in {"idle", "handler"}, Enter(t, c)
      PROVE  Locking'
  BY <1>2 DEF Enter, Goto, Passes
<1>3. ASSUME NEW t \in Threads, Begin(t)
      PROVE  Locking'
  BY <1>2, <1>3 DEF Begin
<1>4. ASSUME NEW t \in Threads, BeginInit(t)
      PROVE  Locking'
  BY <1>4 DEF BeginInit, Goto
<1>5. ASSUME NEW t \in Threads, CreateMutex(t)
      PROVE  Locking'
  BY <1>5 DEF CreateMutex, Goto
<1>6. ASSUME NEW t \in Threads, SetReady(t)
      PROVE  Locking'
  BY <1>6, CoreAssumption DEF SetReady, Goto
<1>7. ASSUME NEW t \in Threads, Acquire(t)
      PROVE  Locking'
  BY <1>7 DEF Acquire, Goto
<1>8. ASSUME NEW t \in Threads, Locate(t)
      PROVE  Locking'
  BY <1>8 DEF Locate, Goto
<1>9. ASSUME NEW t \in Threads, HandlerWrites(t)
      PROVE  Locking'
  BY <1>2, <1>9 DEF HandlerWrites, AllCalls, CheckedCalls
<1>10. ASSUME NEW t \in Threads, HandlerReturns(t)
       PROVE  Locking'
  BY <1>10 DEF HandlerReturns, Goto
<1>11. ASSUME NEW t \in Threads, Commit(t)
       PROVE  Locking'
  BY <1>11 DEF Commit, Goto, AfterUnlock
<1>12. QED
  BY <1>1, <1>3, <1>4, <1>5, <1>6, <1>7, <1>8, <1>9, <1>10, <1>11 DEF Next, Step

-----------------------------------------------------------------------------
(* What a thread found under the lock stays true until it acts.            *)

\* Every step keeps it, because only the holder of the mutex changes tables.
LEMMA StepFound == TypeOK /\ Locking /\ FoundStillThere /\ [Next]_vars => FoundStillThere'
<1> SUFFICES ASSUME TypeOK, Locking, FoundStillThere, [Next]_vars,
                    NEW u \in Threads, pc'[u] = "commit"
             PROVE  Finds(call[u], at[u])'
  BY DEF FoundStillThere
<1> USE DEF TypeOK
<1>1. ASSUME UNCHANGED storeVars, call'[u] = call[u], at'[u] = at[u], pc[u] = "commit"
      PROVE  Finds(call[u], at[u])'
  <2>1. Finds(call[u], at[u])
    BY <1>1 DEF FoundStillThere
  <2>2. QED
    BY <1>1, <2>1 DEF Finds, storeVars
<1>2. CASE UNCHANGED vars
  BY <1>1, <1>2 DEF vars, storeVars
<1>3. ASSUME NEW t \in Threads, NEW c \in AllCalls, pc[t] \in {"idle", "handler"}, Enter(t, c)
      PROVE  Finds(call[u], at[u])'
  <2>1. t # u /\ pc[u] = "commit"
    BY <1>3 DEF Enter, Goto
  <2>2. QED
    BY <1>1, <1>3, <2>1 DEF Enter
<1>4. ASSUME NEW t \in Threads, Begin(t)
      PROVE  Finds(call[u], at[u])'
  BY <1>3, <1>4 DEF Begin
<1>5. ASSUME NEW t \in Threads, BeginInit(t)
      PROVE  Finds(call[u], at[u])'
  <2>1. t # u /\ pc[u] = "commit"
    BY <1>5 DEF BeginInit, Goto
  <2>2. QED
    BY <1>1, <1>5, <2>1 DEF BeginInit
<1>6. ASSUME NEW t \in Threads,
             CreateMutex(t) \/ SetReady(t) \/ Acquire(t) \/ HandlerReturns(t)
      PROVE  Finds(call[u], at[u])'
  <2>1. pc[u] = "commit"
    BY <1>6 DEF CreateMutex, SetReady, Acquire, HandlerReturns, Goto
  <2>2. QED
    BY <1>1, <1>6, <2>1 DEF CreateMutex, SetReady, Acquire, HandlerReturns
<1>7. ASSUME NEW t \in Threads, Locate(t)
      PROVE  Finds(call[u], at[u])'
  <2>1. CASE t = u
    <3>1. PICK i \in Positions(call[t]) :
               Finds(call[t], i) /\ at' = [at EXCEPT ![t] = i]
      BY <1>7 DEF Locate
    <3>2. at'[u] = i /\ call'[u] = call[t] /\ UNCHANGED storeVars
      BY <1>7, <2>1, <3>1 DEF Locate
    <3>3. QED
      BY <3>1, <3>2 DEF Finds, storeVars
  <2>2. CASE t # u
    BY <1>1, <1>7, <2>2 DEF Locate, Goto
  <2>3. QED
    BY <2>1, <2>2
<1>8. ASSUME NEW t \in Threads, HandlerWrites(t)
      PROVE  Finds(call[u], at[u])'
  BY <1>3, <1>8 DEF HandlerWrites, AllCalls, CheckedCalls
<1>9. ASSUME NEW t \in Threads, Commit(t)
      PROVE  FALSE
  BY <1>9 DEF Commit, Goto, AfterUnlock, Locking, MutualExclusion
<1>10. QED
  BY <1>2, <1>4, <1>5, <1>6, <1>7, <1>8, <1>9 DEF Next, Step

-----------------------------------------------------------------------------
(* Calls past their check.                                                 *)

\* A write that waits for the mutex, or holds it, is to a writable table; the
\* thread that makes the mutex is in daim_init.
PastCheck ==
    /\ \A t \in Threads : InCall(t) /\ call[t] \in WriteCalls => call[t].tab \in Writable
    /\ \A t \in Threads : pc[t] \in {"mutex_init", "set_ready"} => call[t].op = "init"

\* Every step keeps it.
LEMMA StepPastCheck == TypeOK /\ PastCheck /\ [Next]_vars => PastCheck'
<1> SUFFICES ASSUME TypeOK, PastCheck, [Next]_vars
             PROVE  PastCheck'
  OBVIOUS
<1> USE DEF TypeOK, PastCheck, InCall
<1>1. CASE UNCHANGED vars
  BY <1>1 DEF vars
<1>2. ASSUME NEW t \in Threads, NEW c \in AllCalls, Enter(t, c)
      PROVE  PastCheck'
  BY <1>2 DEF Enter, Goto, Passes
<1>3. ASSUME NEW t \in Threads, Begin(t) \/ HandlerWrites(t)
      PROVE  PastCheck'
  BY <1>2, <1>3 DEF Begin, HandlerWrites, AllCalls, CheckedCalls
<1>4. ASSUME NEW t \in Threads, SetReady(t)
      PROVE  PastCheck'
  <2>1. call[t] \notin WriteCalls
    BY <1>4, CallFields DEF SetReady
  <2>2. QED
    BY <1>4, <2>1 DEF SetReady, Goto
<1>5. ASSUME NEW t \in Threads, BeginInit(t) \/ CreateMutex(t) \/ HandlerReturns(t)
      PROVE  PastCheck'
  BY <1>5 DEF BeginInit, CreateMutex, HandlerReturns, Goto
<1>6. ASSUME NEW t \in Threads, Acquire(t) \/ Locate(t)
      PROVE  PastCheck'
  BY <1>6 DEF Acquire, Locate, Goto
<1>7. ASSUME NEW t \in Threads, Commit(t)
      PROVE  PastCheck'
  BY <1>7 DEF Commit, Goto, AfterUnlock
<1>8. QED
  BY <1>1, <1>3, <1>4, <1>5, <1>6, <1>7 DEF Next, Step

\* Steps other than a commit leave the tables alone.
LEMMA OnlyCommitsChangeTables ==
    ASSUME [Next]_vars, ~ \E t \in Threads : Commit(t)
    PROVE  UNCHANGED storeVars /\ overlapped' = overlapped
  BY DEF Next, Step, Begin, BeginInit, CreateMutex, SetReady, Acquire, Locate,
         HandlerWrites, HandlerReturns, Enter, vars, storeVars

-----------------------------------------------------------------------------
(* The bounds of tables, cursors and the generation.                       *)

\* Every step keeps the cursor within the table, the read-only tables empty
\* and the entries of a table no more than the generation.
LEMMA StepTables ==
    ASSUME TypeOK, FoundStillThere, PastCheck, CursorInTable, RowsWithinGeneration,
           [Next]_vars
    PROVE  CursorInTable' /\ RowsWithinGeneration'
<1> USE DEF CursorInTable, RowsWithinGeneration
<1>1. CASE UNCHANGED storeVars
  BY <1>1 DEF storeVars
<1>2. ASSUME Clear
      PROVE  CursorInTable' /\ RowsWithinGeneration'
  BY <1>2 DEF Clear
<1>3. ASSUME NEW t \in Threads, Commit(t)
      PROVE  CursorInTable' /\ RowsWithinGeneration'
  <2> DEFINE c == call[t]
             i == at[t]
  <2>1. /\ c \in AllCalls
        /\ Finds(c, i)
        /\ Effect(c, i)
        /\ c.op \in {"add", "del"} => c.tab \in Writable
    <3>1. c \in AllCalls /\ Finds(c, i) /\ Effect(c, i) /\ InCall(t)
      BY <1>3 DEF Commit, FoundStillThere, TypeOK, InCall
    <3>2. QED
      BY <3>1, CallFields DEF PastCheck
  <2>2. /\ generation \in Nat
        /\ items \in [Tables -> Seq(Entries)]
        /\ cursor \in [Tables -> Nat]
    BY DEF TypeOK
  <2> HIDE DEF c, i
  <2>3. CASE UNCHANGED storeVars
    BY <1>1, <2>3
  <2>4. CASE InitTables \/ QuitTables
    BY <1>2, <2>4 DEF InitTables, QuitTables
  <2>5. CASE c.op = "add" /\ AppendEntry(c)
    <3>1. c.tab \in Tables /\ c.tab \in Writable /\ c.entry \in Entries
      BY <2>1, <2>5, CallFields
    <3>2. Len(Append(items[c.tab], c.entry)) = Len(items[c.tab]) + 1
      BY <2>2, <3>1, AppendProperties
    <3>3. \A tab \in Tables : Len(items[tab]) \in Nat
      BY <2>2, LenProperties
    <3>4. ASSUME NEW tab \in Tables
          PROVE  /\ cursor'[tab] <= Len(items'[tab])
                 /\ Len(items'[tab]) <= generation'
                 /\ tab \notin Writable => items'[tab] = <<>>
      BY <2>2, <2>5, <3>1, <3>2, <3>3 DEF AppendEntry
    <3>5. QED
      BY <3>4
  <2>6. CASE i # 0 /\ c.op = "del" /\ RemoveEntry(c, i)
    <3>1. c.tab \in Tables /\ c.tab \in Writable /\ i \in 1 .. Len(items[c.tab])
      BY <2>1, <2>6, CallFields, FoundInTable
    <3>2. Len(WithoutIndex(items[c.tab], i)) = Len(items[c.tab]) - 1
      BY <2>2, <3>1, WithoutIndexShortens
    <3>3. \A tab \in Tables : Len(items[tab]) \in Nat
      BY <2>2, LenProperties
    <3>4. LowerOf(cursor[c.tab], Len(items[c.tab]) - 1) <= Len(items[c.tab]) - 1
      BY <2>2, <3>1, <3>3 DEF LowerOf
    <3>5. ASSUME NEW tab \in Tables
          PROVE  /\ cursor'[tab] <= Len(items'[tab])
                 /\ Len(items'[tab]) <= generation'
                 /\ tab \notin Writable => items'[tab] = <<>>
      <4>1. CASE tab = c.tab
        BY <2>2, <2>6, <3>1, <3>2, <3>3, <3>4, <4>1 DEF RemoveEntry
      <4>2. CASE tab # c.tab
        BY <2>2, <2>6, <3>1, <3>3, <4>2 DEF RemoveEntry
      <4>3. QED
        BY <4>1, <4>2
    <3>6. QED
      BY <3>5
  <2>7. CASE i # 0 /\ c.op = "read" /\ MoveCursor(c, i)
    <3>1. c.tab \in Tables /\ i \in 1 .. Len(items[c.tab])
      BY <2>1, <2>7, CallFields, FoundInTable
    <3>2. QED
      BY <2>2, <2>7, <3>1 DEF MoveCursor
  <2>8. CASE c.op = "rewind" /\ MoveCursor(c, 0)
    BY <2>1, <2>2, <2>8, CallFields, LenProperties DEF MoveCursor
  <2>9. CASE SetHandler(c)
    BY <2>9 DEF SetHandler
  <2>10. QED
    BY <2>1, <2>3, <2>4, <2>5, <2>6, <2>7, <2>8, <2>9, Zenon DEF Effect
<1>4. QED
  BY <1>1, <1>3, OnlyCommitsChangeTables

-----------------------------------------------------------------------------
(* daim_quit.                                                              *)

\* On a core that is down, and whose daim_quit no call overlapped, the tables
\* are clear and nobody is on the way to change them.
QuietDown ==
    ~up /\ ~overlapped =>
        /\ Empty
        /\ \A t \in Threads : InCall(t) => call[t] \notin CheckedCalls

\* Every step keeps it: a call can only pass its check while the core is up.
LEMMA StepQuietDown ==
    ASSUME TypeOK, PastCheck, QuietDown, [Next]_vars
    PROVE  QuietDown'
<1> USE DEF TypeOK
<1>1. ASSUME UNCHANGED storeVars, overlapped' = overlapped,
             \A t \in Threads : InCall(t)' =>
                \/ InCall(t) /\ call'[t] = call[t]
                \/ call'[t] \in CheckedCalls => up
      PROVE  QuietDown'
  BY <1>1 DEF QuietDown, Empty, storeVars
<1>2. CASE UNCHANGED vars
  BY <1>1, <1>2 DEF vars, storeVars, InCall
<1>3. ASSUME NEW t \in Threads, NEW c \in AllCalls, Enter(t, c)
      PROVE  QuietDown'
  BY <1>1, <1>3 DEF Enter, Goto, Passes, InCall
<1>4. ASSUME NEW t \in Threads, Begin(t) \/ HandlerWrites(t)
      PROVE  QuietDown'
  BY <1>3, <1>4 DEF Begin, HandlerWrites, AllCalls, CheckedCalls
<1>5. ASSUME NEW t \in Threads, BeginInit(t) \/ CreateMutex(t) \/ HandlerReturns(t)
      PROVE  QuietDown'
  BY <1>1, <1>5 DEF BeginInit, CreateMutex, HandlerReturns, Goto, InCall
<1>6. ASSUME NEW t \in Threads, SetReady(t)
      PROVE  QuietDown'
  <2>1. call[t] \notin CheckedCalls
    BY <1>6, CallFields DEF SetReady, PastCheck
  <2>2. QED
    BY <1>1, <1>6, <2>1 DEF SetReady, Goto, InCall
<1>7. ASSUME NEW t \in Threads, Acquire(t) \/ Locate(t)
      PROVE  QuietDown'
  BY <1>1, <1>7 DEF Acquire, Locate, Goto, InCall
<1>8. ASSUME NEW t \in Threads, Commit(t)
      PROVE  QuietDown'
  <2>1. /\ call[t] \in AllCalls
        /\ Effect(call[t], at[t])
        /\ InCall(t)
        /\ ~InCall(t)'
        /\ call' = call
        /\ \A u \in Threads \ {t} : pc'[u] = pc[u]
        /\ overlapped' = NextOverlapped(t)
    BY <1>8 DEF Commit, InCall, Goto, AfterUnlock
  <2>2. CASE at[t] # 0 /\ call[t].op = "quit"
    <3>1. overlapped' = OthersPastCheck(t)
      BY <2>1, <2>2 DEF NextOverlapped
    <3>2. Clear
      BY <2>1, <2>2 DEF Effect, QuitTables
    <3>3. Empty'
      BY <3>2 DEF Clear, Empty
    <3>4. ASSUME ~overlapped', NEW u \in Threads, InCall(u)'
          PROVE  call'[u] \notin CheckedCalls
      BY <2>1, <3>1, <3>4 DEF OthersPastCheck, InCall
    <3>5. QED
      BY <3>3, <3>4 DEF QuietDown
  <2>3. CASE at[t] # 0 /\ call[t].op = "init"
    BY <2>1, <2>3 DEF Effect, InitTables, QuietDown
  <2>4. CASE call[t].op \in {"init", "quit"} /\ at[t] = 0
    <3>1. UNCHANGED storeVars /\ overlapped' = overlapped
      BY <2>1, <2>4, Zenon DEF Effect, NextOverlapped
    <3>2. QED
      BY <1>1, <2>1, <3>1 DEF InCall
  <2>5. CASE call[t].op \notin {"init", "quit"}
    <3>1. call[t] \in CheckedCalls
      BY <2>1, <2>5, CallFields
    <3>2. up' = up /\ overlapped' = overlapped
      BY <2>1, <2>5 DEF Effect, NextOverlapped, storeVars, AppendEntry, RemoveEntry,
                        MoveCursor, SetHandler
    <3>3. QED
      BY <2>1, <3>1, <3>2 DEF QuietDown
  <2>6. QED
    BY <2>2, <2>3, <2>4, <2>5
<1>9. QED
  BY <1>2, <1>4, <1>5, <1>6, <1>7, <1>8 DEF Next, Step

-----------------------------------------------------------------------------
(* The inductive invariant and what follows from it.                       *)

IInv ==
    /\ TypeOK
    /\ Locking
    /\ FoundStillThere
    /\ PastCheck
    /\ CursorInTable
    /\ RowsWithinGeneration
    /\ QuietDown

\* The initial state has the inductive invariant.
LEMMA InitIInv == Init => IInv
<1> SUFFICES ASSUME Init
             PROVE  IInv
  OBVIOUS
<1>1. TypeOK
  BY InitTypes
<1>2. \A t \in Threads : pc[t] = "idle"
  BY DEF Init
<1>3. Locking /\ FoundStillThere /\ PastCheck
  BY <1>2 DEF Init, Locking, MutualExclusion, FoundStillThere, PastCheck, InCall
<1>4. Empty
  BY DEF Init
<1>5. CursorInTable /\ RowsWithinGeneration
  BY <1>4 DEF Empty, CursorInTable, RowsWithinGeneration
<1>6. QuietDown
  BY <1>2, <1>4 DEF QuietDown, InCall
<1>7. QED
  BY <1>1, <1>3, <1>5, <1>6 DEF IInv

\* Every step of every thread keeps it.
LEMMA StepIInv == IInv /\ [Next]_vars => IInv'
  BY StepTypes, StepLocking, StepFound, StepPastCheck, StepTables, StepQuietDown DEF IInv

\* So it holds in every reachable state.
LEMMA AlwaysIInv == Spec => []IInv
  BY InitIInv, StepIInv, PTL DEF Spec

\* Every variable keeps its type.
THEOREM TypeCorrect == Spec => []TypeOK
<1>1. IInv => TypeOK
  BY DEF IInv
<1>2. QED
  BY <1>1, AlwaysIInv, PTL

\* Threads exclude each other between lock and unlock, if only one of them
\* can be the first to call daim_init.
THEOREM LockExcludes == Spec => []MutualExclusion
<1>1. IInv => MutualExclusion
  BY DEF IInv, Locking
<1>2. QED
  BY <1>1, AlwaysIInv, PTL

\* A delete or a read acts on the entry it found.
THEOREM SearchStaysValid == Spec => []FoundStillThere
<1>1. IInv => FoundStillThere
  BY DEF IInv
<1>2. QED
  BY <1>1, AlwaysIInv, PTL

\* Cursors stay within tables, read-only tables stay empty, and no table has
\* more entries than the generation counts changes.
THEOREM TablesStayConsistent == Spec => []TablesConsistent
<1>1. IInv => TablesConsistent
  BY DEF IInv, TablesConsistent
<1>2. QED
  BY <1>1, AlwaysIInv, PTL

\* A daim_quit that no other call overlaps leaves nothing behind.
THEOREM QuietQuitLeavesNothing == Spec => []QuietQuitCleansUp
<1>1. IInv => QuietQuitCleansUp
  BY DEF IInv, QuietDown, QuietQuitCleansUp
<1>2. QED
  BY <1>1, AlwaysIInv, PTL

-----------------------------------------------------------------------------
(* The library implements the atomic store.                                *)

\* The commit of a call is one operation of the abstract store, or leaves it.
LEMMA CommitIsStoreStep ==
    ASSUME IInv, NEW t \in Threads, Commit(t)
    PROVE  Store!Next \/ UNCHANGED storeVars
<1> DEFINE c == call[t]
           i == at[t]
<1>1. /\ c \in AllCalls
      /\ Finds(c, i)
      /\ Effect(c, i)
      /\ c.op \in {"add", "del"} => c.tab \in Writable
  <2>1. c \in AllCalls /\ Finds(c, i) /\ Effect(c, i) /\ InCall(t)
    BY DEF Commit, IInv, FoundStillThere, TypeOK, InCall
  <2>2. QED
    BY <2>1, CallFields DEF IInv, PastCheck
<1> HIDE DEF c, i
<1>2. CASE i # 0 /\ c.op = "init" /\ InitTables
  <2>1. ~up
    BY <1>1, <1>2 DEF Finds
  <2>2. Store!Start
    BY <1>2, <2>1 DEF InitTables, Clear, Store!Start, Store!Clear
  <2>3. QED
    BY <2>2 DEF Store!Next
<1>3. CASE c.op = "quit" /\ QuitTables
  <2>1. Store!Quit
    BY <1>3 DEF QuitTables, Clear, Store!Quit, Store!Clear
  <2>2. QED
    BY <2>1 DEF Store!Next
<1>4. CASE c.op = "add" /\ AppendEntry(c)
  <2>1. c.tab \in Writable /\ c.entry \in Entries
    BY <1>1, <1>4, CallFields
  <2>2. Store!Add(c.tab, c.entry)
    BY <1>4 DEF AppendEntry, Store!Add
  <2>3. QED
    BY <2>1, <2>2 DEF Store!Next
<1>5. CASE i # 0 /\ c.op = "del" /\ RemoveEntry(c, i)
  <2>1. c.tab \in Writable /\ c.entry \in Entries
    BY <1>1, <1>5, CallFields
  <2>2. i \in DOMAIN items[c.tab] /\ IsFirst(items[c.tab], c.entry, i)
    BY <1>1, <1>5 DEF Finds, IsFirst
  <2>3. Store!Delete(c.tab, c.entry)
    BY <1>5, <2>2 DEF RemoveEntry, Store!Delete, Store!IsFirst, IsFirst,
                      Store!WithoutIndex, WithoutIndex, Store!LowerOf, LowerOf
  <2>4. QED
    BY <2>1, <2>3 DEF Store!Next
<1>6. CASE i # 0 /\ c.op = "read" /\ MoveCursor(c, i)
  <2>1. c.tab \in Tables /\ c.filter \in SUBSET Entries
    BY <1>1, <1>6, CallFields, CoreAssumption
  <2>2. i \in DOMAIN items[c.tab] /\ IsNext(items[c.tab], cursor[c.tab], c.filter, i)
    BY <1>1, <1>6 DEF Finds, IsNext
  <2>3. Store!Read(c.tab, c.filter)
    BY <1>6, <2>2 DEF MoveCursor, Store!Read, Store!IsNext, IsNext
  <2>4. QED
    BY <2>1, <2>3 DEF Store!Next
<1>7. CASE c.op = "rewind" /\ MoveCursor(c, 0)
  <2>1. c.tab \in Tables /\ Store!Rewind(c.tab)
    BY <1>1, <1>7, CallFields DEF MoveCursor, Store!Rewind
  <2>2. QED
    BY <2>1 DEF Store!Next
<1>8. CASE c.op = "signal" /\ SetHandler(c)
  <2>1. c.sig \in Signals /\ c.fn \in Handlers \cup {NoHandler}
    BY <1>1, <1>8, CallFields
  <2>2. Store!Register(c.sig, c.fn)
    BY <1>8 DEF SetHandler, Store!Register
  <2>3. QED
    BY <2>1, <2>2 DEF Store!Next
<1>9. QED
  BY <1>1, <1>2, <1>3, <1>4, <1>5, <1>6, <1>7, <1>8, Zenon DEF Effect

\* Every call of the library takes effect in one step of the abstract store,
\* between its check and its return.
THEOREM CoreImplementsStore == Spec => ImplementsStore
<1>1. Init => Store!Init
  BY DEF Init, Empty, Store!Init, Store!Empty
<1>2. IInv /\ [Next]_vars => [Store!Next]_(Store!storeVars)
  <2> SUFFICES ASSUME IInv, [Next]_vars
               PROVE  Store!Next \/ UNCHANGED storeVars
    BY DEF storeVars, Store!storeVars
  <2>1. CASE \E t \in Threads : Commit(t)
    BY <2>1, CommitIsStoreStep
  <2>2. CASE ~ \E t \in Threads : Commit(t)
    BY <2>2, OnlyCommitsChangeTables
  <2>3. QED
    BY <2>1, <2>2
<1>3. QED
  BY <1>1, <1>2, AlwaysIInv, PTL DEF Spec, ImplementsStore, Store!Spec
=============================================================================
