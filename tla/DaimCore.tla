------------------------------ MODULE DaimCore ------------------------------
(***************************************************************************)
(* The in-memory table store of DAIM Core, implementation/src/daim_core.c, *)
(* as several threads drive it.                                            *)
(*                                                                         *)
(* An API call goes through the same phases in every function of the file: *)
(*   - it reads lock_ready and initialised and checks its arguments WITHOUT *)
(*     the lock (Begin, BeginInit), and returns at once when that fails;   *)
(*   - it takes the mutex (Acquire);                                       *)
(*   - it reads the shared state (Locate): the first match of a delete or  *)
(*     a read, the handler of an emission, whether the core is already up; *)
(*   - it applies the change and unlocks (Commit).                         *)
(* `initialised' is not looked at again once the mutex is held.            *)
(* daim_core_emit calls the handler after the unlock (HandlerWrites,       *)
(* HandlerReturns); a handler may call daim_table_write itself.            *)
(***************************************************************************)
EXTENDS TableOps

CONSTANTS
    Threads,   \* threads that call the API
    Starters,  \* threads that may call daim_init before the mutex exists
    Filters,   \* what a daim_table_read asks for: the entries its prefix admits
    MaxCalls   \* bound: API calls in a behaviour, the handlers' own included

\* Two threads that both run the first daim_init may each initialise the
\* mutex; the callers (the constructor of the ctypes bridge, the C tests)
\* make that first call from one thread.
ASSUME CoreAssumption ==
    /\ Starters \subseteq Threads
    /\ \A t, u \in Starters : t = u
    /\ Filters \subseteq SUBSET Entries
    /\ MaxCalls \in Nat

VARIABLES
    up,         \* state.initialised
    generation, \* state.generation
    items,      \* the entries of each table (items and count of table_store)
    cursor,     \* the entry indicator of each table
    handler,    \* state.signals
    lockReady,  \* state.lock_ready
    mutex,      \* state.lock: "none" before pthread_mutex_init
    pc,         \* the phase each thread is in
    call,       \* the call each thread is making, or made last
    at,         \* what the thread found under the lock: a position, 0 if none
    calls,      \* calls made so far
    overlapped  \* history: the last daim_quit ran past another call's check

storeVars == <<up, generation, items, cursor, handler>>

vars == <<up, generation, items, cursor, handler,
          lockReady, mutex, pc, call, at, calls, overlapped>>

-----------------------------------------------------------------------------
LifecycleCalls == [op : {"init", "quit"}]
WriteCalls == [op : {"add", "del"}, tab : Tables, entry : Entries]
ReadCalls == [op : {"read"}, tab : Tables, filter : Filters]
RewindCalls == [op : {"rewind"}, tab : Tables]
SignalCalls == [op : {"signal"}, sig : Signals, fn : Handlers \cup {NoHandler}]
EmitCalls == [op : {"emit"}, sig : Signals]

\* The calls that look at `initialised' before they take the lock.
CheckedCalls ==
    WriteCalls \cup ReadCalls \cup RewindCalls \cup SignalCalls \cup EmitCalls

AllCalls == LifecycleCalls \cup CheckedCalls

Phases == {"idle", "mutex_init", "set_ready", "lock", "locate", "commit", "handler"}

TypeOK ==
    /\ up \in BOOLEAN
    /\ generation \in Nat
    /\ items \in [Tables -> Seq(Entries)]
    /\ cursor \in [Tables -> Nat]
    /\ handler \in [Signals -> Handlers \cup {NoHandler}]
    /\ lockReady \in BOOLEAN
    /\ mutex \in {"none", "free", "held"}
    /\ pc \in [Threads -> Phases]
    /\ call \in [Threads -> AllCalls]
    /\ at \in [Threads -> Nat]
    /\ calls \in 0 .. MaxCalls
    /\ overlapped \in BOOLEAN

\* All memory of the tables and handlers zeroed.
Empty ==
    /\ generation = 0
    /\ items = [tab \in Tables |-> <<>>]
    /\ cursor = [tab \in Tables |-> 0]
    /\ handler = [s \in Signals |-> NoHandler]

\* The step that zeroes it.
Clear ==
    /\ generation' = 0
    /\ items' = [tab \in Tables |-> <<>>]
    /\ cursor' = [tab \in Tables |-> 0]
    /\ handler' = [s \in Signals |-> NoHandler]

NoCall == [op |-> "quit"]   \* what `call' holds before a thread's first call

Init ==
    /\ up = FALSE
    /\ Empty
    /\ lockReady = FALSE
    /\ mutex = "none"
    /\ pc = [t \in Threads |-> "idle"]
    /\ call = [t \in Threads |-> NoCall]
    /\ at = [t \in Threads |-> 0]
    /\ calls = 0
    /\ overlapped = FALSE

-----------------------------------------------------------------------------
\* Entering and leaving a call.

\* The unlocked check at the head of each function.
Passes(c) ==
    /\ lockReady
    /\ c \in CheckedCalls => up
    /\ c \in WriteCalls => c.tab \in Writable

Goto(t, phase) == pc' = [pc EXCEPT ![t] = phase]

Enter(t, c) ==
    /\ calls < MaxCalls
    /\ calls' = calls + 1
    /\ call' = [call EXCEPT ![t] = c]
    /\ Goto(t, IF Passes(c) THEN "lock" ELSE "idle")
    /\ UNCHANGED <<lockReady, mutex, at, overlapped>>
    /\ UNCHANGED storeVars

Begin(t) ==
    /\ pc[t] = "idle"
    /\ \E c \in AllCalls :
        /\ c.op = "init" => lockReady
        /\ Enter(t, c)

\* Fault: daim_init without its test of lock_ready.
BeginInitAnyTime(t) ==
    /\ pc[t] = "idle"
    /\ t \in Starters
    /\ calls < MaxCalls
    /\ calls' = calls + 1
    /\ call' = [call EXCEPT ![t] = [op |-> "init"]]
    /\ Goto(t, "mutex_init")
    /\ UNCHANGED <<lockReady, mutex, at, overlapped>>
    /\ UNCHANGED storeVars

\* daim_init while there is no mutex yet.
BeginInit(t) ==
    /\ pc[t] = "idle"
    /\ ~lockReady
    /\ t \in Starters
    /\ calls < MaxCalls
    /\ calls' = calls + 1
    /\ call' = [call EXCEPT ![t] = [op |-> "init"]]
    /\ Goto(t, "mutex_init")
    /\ UNCHANGED <<lockReady, mutex, at, overlapped>>
    /\ UNCHANGED storeVars

\* pthread_mutex_init may fail, and then daim_init returns DAIM_CORE_ERROR.
CreateMutex(t) ==
    /\ pc[t] = "mutex_init"
    /\ \/ mutex' = "free" /\ Goto(t, "set_ready")
       \/ UNCHANGED mutex /\ Goto(t, "idle")
    /\ UNCHANGED <<lockReady, call, at, calls, overlapped>>
    /\ UNCHANGED storeVars

SetReady(t) ==
    /\ pc[t] = "set_ready"
    /\ lockReady' = TRUE
    /\ Goto(t, "lock")
    /\ UNCHANGED <<mutex, call, at, calls, overlapped>>
    /\ UNCHANGED storeVars

\* Fault: a function that forgets pthread_mutex_lock.
AcquireNothing(t) ==
    /\ pc[t] = "lock"
    /\ Goto(t, "locate")
    /\ UNCHANGED <<lockReady, mutex, call, at, calls, overlapped>>
    /\ UNCHANGED storeVars

Acquire(t) ==
    /\ pc[t] = "lock"
    /\ mutex = "free"
    /\ mutex' = "held"
    /\ Goto(t, "locate")
    /\ UNCHANGED <<lockReady, call, at, calls, overlapped>>
    /\ UNCHANGED storeVars

-----------------------------------------------------------------------------
\* Under the lock: first what is read ...

\* i may be what the call of the thread finds in the current state; 0 stands
\* for nothing to do: no match, no handler, core already up, no memory.
Finds(c, i) ==
    \/ /\ c.op = "init"
       /\ i = IF up THEN 0 ELSE 1
    \/ /\ c.op \in {"quit", "rewind", "signal"}
       /\ i = 1
    \/ /\ c.op = "add"       \* realloc or malloc may fail
       /\ i \in {0, 1}
    \/ /\ c.op = "del"
       /\ \/ IsFirst(items[c.tab], c.entry, i)
          \/ i = 0 /\ \A j \in DOMAIN items[c.tab] : items[c.tab][j] # c.entry
    \/ /\ c.op = "read"      \* the copy's malloc may fail
       /\ \/ IsNext(items[c.tab], cursor[c.tab], c.filter, i)
          \/ i = 0
    \/ /\ c.op = "emit"
       /\ i = IF handler[c.sig] = NoHandler THEN 0 ELSE 1

\* The positions a thread can come back with.
Positions(c) ==
    IF c.op \in {"del", "read"} THEN 0 .. Len(items[c.tab]) ELSE {0, 1}

Locate(t) ==
    /\ pc[t] = "locate"
    /\ \E i \in Positions(call[t]) :
        /\ Finds(call[t], i)
        /\ at' = [at EXCEPT ![t] = i]
    /\ Goto(t, "commit")
    /\ UNCHANGED <<lockReady, mutex, call, calls, overlapped>>
    /\ UNCHANGED storeVars

\* ... then what is written.  Each of these is one branch of Commit.

InitTables ==
    /\ up' = TRUE
    /\ Clear

\* Fault: daim_quit without its memset of the signals.
QuitKeepsHandlers ==
    /\ up' = FALSE
    /\ generation' = 0
    /\ items' = [tab \in Tables |-> <<>>]
    /\ cursor' = [tab \in Tables |-> 0]
    /\ UNCHANGED handler

QuitTables ==
    /\ up' = FALSE
    /\ Clear

AppendEntry(c) ==
    /\ items' = [items EXCEPT ![c.tab] = Append(@, c.entry)]
    /\ generation' = generation + 1
    /\ UNCHANGED <<up, cursor, handler>>

\* Fault: a DEL without the clamp of the cursor.
RemoveKeepsCursor(c, i) ==
    /\ items' = [items EXCEPT ![c.tab] = WithoutIndex(@, i)]
    /\ generation' = generation + 1
    /\ UNCHANGED <<up, cursor, handler>>

\* Fault: a DEL that steps the cursor back without a look at where it is.
RemoveStepsBack(c, i) ==
    /\ items' = [items EXCEPT ![c.tab] = WithoutIndex(@, i)]
    /\ cursor' = [cursor EXCEPT ![c.tab] = @ - 1]
    /\ generation' = generation + 1
    /\ UNCHANGED <<up, handler>>

RemoveEntry(c, i) ==
    /\ items' = [items EXCEPT ![c.tab] = WithoutIndex(@, i)]
    /\ cursor' = [cursor EXCEPT ![c.tab] = LowerOf(@, Len(items[c.tab]) - 1)]
    /\ generation' = generation + 1
    /\ UNCHANGED <<up, handler>>

\* Fault: a read that sets the cursor to i instead of i + 1 (from 0).
MoveCursorShort(c, i) ==
    /\ cursor' = [cursor EXCEPT ![c.tab] = IF i = 0 THEN 0 ELSE i - 1]
    /\ UNCHANGED <<up, generation, items, handler>>

MoveCursor(c, i) ==
    /\ cursor' = [cursor EXCEPT ![c.tab] = i]
    /\ UNCHANGED <<up, generation, items, handler>>

SetHandler(c) ==
    /\ handler' = [handler EXCEPT ![c.sig] = c.fn]
    /\ UNCHANGED <<up, generation, items, cursor>>

\* What the call does to the tables, given the position i it found.
Effect(c, i) ==
    \/ i = 0 /\ UNCHANGED storeVars
    \/ i # 0 /\ c.op = "init" /\ InitTables
    \/ i # 0 /\ c.op = "quit" /\ QuitTables
    \/ i # 0 /\ c.op = "add" /\ AppendEntry(c)
    \/ i # 0 /\ c.op = "del" /\ RemoveEntry(c, i)
    \/ i # 0 /\ c.op = "read" /\ MoveCursor(c, i)
    \/ i # 0 /\ c.op = "rewind" /\ MoveCursor(c, 0)
    \/ i # 0 /\ c.op = "signal" /\ SetHandler(c)
    \/ i # 0 /\ c.op = "emit" /\ UNCHANGED storeVars

InCall(t) == pc[t] \in {"lock", "locate", "commit"}

\* A thread other than t has passed its check and not yet taken effect.
OthersPastCheck(t) ==
    \E u \in Threads \ {t} : InCall(u) /\ call[u] \in CheckedCalls

NextOverlapped(t) ==
    IF at[t] # 0 /\ call[t].op = "quit" THEN OthersPastCheck(t)
    ELSE IF at[t] # 0 /\ call[t].op = "init" THEN FALSE
    ELSE overlapped

AfterUnlock(t) ==
    IF call[t].op = "emit" /\ at[t] # 0 THEN "handler" ELSE "idle"

\* Fault: an early return that skips pthread_mutex_unlock.
CommitNoUnlock(t) ==
    /\ pc[t] = "commit"
    /\ Effect(call[t], at[t])
    /\ mutex' = IF at[t] = 0 THEN mutex ELSE "free"
    /\ overlapped' = NextOverlapped(t)
    /\ Goto(t, AfterUnlock(t))
    /\ UNCHANGED <<lockReady, call, at, calls>>

Commit(t) ==
    /\ pc[t] = "commit"
    /\ Effect(call[t], at[t])
    /\ mutex' = "free"
    /\ overlapped' = NextOverlapped(t)
    /\ Goto(t, AfterUnlock(t))
    /\ UNCHANGED <<lockReady, call, at, calls>>

-----------------------------------------------------------------------------
\* The callback of an emission, running without the lock.

\* It may write a table, as the learning application's on_no_rule does; the
\* emission returns when that call does.
HandlerWrites(t) ==
    /\ pc[t] = "handler"
    /\ \E c \in WriteCalls : c.op = "add" /\ Enter(t, c)

HandlerReturns(t) ==
    /\ pc[t] = "handler"
    /\ Goto(t, "idle")
    /\ UNCHANGED <<lockReady, mutex, call, at, calls, overlapped>>
    /\ UNCHANGED storeVars

-----------------------------------------------------------------------------
\* A call under way takes its next step.
Step(t) ==
    \/ CreateMutex(t)
    \/ SetReady(t)
    \/ Acquire(t)
    \/ Locate(t)
    \/ Commit(t)
    \/ HandlerWrites(t)
    \/ HandlerReturns(t)

Next == \E t \in Threads : Begin(t) \/ BeginInit(t) \/ Step(t)

Spec == Init /\ [][Next]_vars

\* A thread inside the library is scheduled again; nobody has to make a call.
FairSpec == Spec /\ \A t \in Threads : WF_vars(Step(t))

-----------------------------------------------------------------------------
(* Properties                                                              *)

\* At most one thread is between pthread_mutex_lock and pthread_mutex_unlock:
\* the mutex is initialised once and released only by its holder.
MutualExclusion ==
    \A t, u \in Threads :
        pc[t] \in {"locate", "commit"} /\ pc[u] \in {"locate", "commit"} => t = u

\* What a thread found under the lock is still so when it acts on it: the
\* position daim_table_write is about to remove holds the first occurrence of
\* its entry, the position daim_table_read is about to copy is the next match.
FoundStillThere ==
    \A t \in Threads : pc[t] = "commit" => Finds(call[t], at[t])

\* The readers' entry indicator never lies beyond the end of its table, also
\* after deletions, and tables that cannot be written stay empty.
CursorInTable ==
    \A tab \in Tables :
        /\ cursor[tab] <= Len(items[tab])
        /\ tab \notin Writable => items[tab] = <<>>

\* A monitor that polls daim_core_generation may rely on it: a table holds at
\* most as many entries as the generation says changes were made, so
\* generation 0 means empty tables, across daim_quit and daim_init too.
RowsWithinGeneration ==
    \A tab \in Tables : Len(items[tab]) <= generation

\* What a reader and a monitor rely on together, whatever deletes, restarts
\* and failed additions came before.
TablesConsistent == CursorInTable /\ RowsWithinGeneration

\* daim_quit leaves no entry, no handler and generation 0 behind when no
\* other call had passed its check and was still to take the lock.
QuietQuitCleansUp ==
    ~up /\ ~overlapped => Empty

\* The same without the proviso: "cleans up all the resources associated with
\* a DAIM application" (daim_os_api.h).  A call that read `initialised' before
\* daim_quit takes effect after it.
QuitCleansUp ==
    ~up => Empty

\* Every call returns, the emission whose handler calls the library again
\* included: nobody waits for a mutex its own thread holds.
EveryCallReturns ==
    \A t \in Threads : pc[t] # "idle" ~> pc[t] = "idle"

Store == INSTANCE TableStore

\* Each API call takes effect in one step of the abstract store.
ImplementsStore == Store!Spec
=============================================================================
