--------------------------- MODULE RuntimeResolve ---------------------------
(***************************************************************************)
(* resolve_runtime and _compile (runtimes/host/runtime.py): the C runtime   *)
(* is compiled and its functions are looked up on first use, by whichever   *)
(* thread needs them first; both caches are filled under double-checked     *)
(* locking, one lock per runtime type and per cache.                        *)
(*                                                                          *)
(* Libraries and function tables are numbered per type in the order they    *)
(* are made; a cache holds a number, or 0 for None.                         *)
(***************************************************************************)
EXTENDS Naturals, FiniteSets

CONSTANTS
  Threads,
  Types,        \* RuntimeType: HOST and GPU
  NoThread,     \* the holder of a free lock
  Raised        \* the result of a call that ended with an exception

ASSUME ResolveAssumption ==
  NoThread \notin Threads /\ Raised \notin Nat

VARIABLES
  mayFail,        \* whether a tool or a symbol lookup may fail: constant
  pc, want,       \* where thread t is, and the runtime type it asked for
  ret,            \* ret[t]: result of the last call of t, 0 before it
  libs, entries,  \* _runtime_libs and _runtime_entries
  libsLock, entriesLock,   \* the thread holding each lock
  builds, tables  \* how many libraries were loaded and tables published

vars   == <<mayFail, pc, want, ret, libs, entries, libsLock, entriesLock, builds, tables>>
caches == <<libs, entries, builds, tables>>
locks  == <<libsLock, entriesLock>>

PCs == {"idle", "entry", "waitEntries", "recheckEntries", "compile", "waitLibs",
        "recheckLibs", "build", "lookup"}

Init ==
  /\ mayFail \in BOOLEAN
  /\ pc = [t \in Threads |-> "idle"]
  /\ want \in [Threads -> Types]
  /\ ret = [t \in Threads |-> 0]
  /\ libs = [r \in Types |-> 0] /\ entries = [r \in Types |-> 0]
  /\ libsLock = [r \in Types |-> NoThread] /\ entriesLock = [r \in Types |-> NoThread]
  /\ builds = [r \in Types |-> 0] /\ tables = [r \in Types |-> 0]

Goto(t, from, to) == pc[t] = from /\ pc' = [pc EXCEPT ![t] = to]

Return(t, from, value) ==
  /\ Goto(t, from, "idle")
  /\ ret' = [ret EXCEPT ![t] = value]

Release(lock, t) == [lock EXCEPT ![want[t]] = NoThread]

Call(t, r) ==
  /\ Goto(t, "idle", "entry")
  /\ want' = [want EXCEPT ![t] = r]
  /\ UNCHANGED <<mayFail, ret, caches, locks>>

\* The first check, without the lock.
EntriesHit(t) ==
  /\ entries[want[t]] # 0
  /\ Return(t, "entry", entries[want[t]])
  /\ UNCHANGED <<mayFail, want, caches, locks>>

EntriesMiss(t) ==
  /\ entries[want[t]] = 0
  /\ Goto(t, "entry", "waitEntries")
  /\ UNCHANGED <<mayFail, want, ret, caches, locks>>

LockEntries(t) ==
  /\ entriesLock[want[t]] = NoThread
  /\ Goto(t, "waitEntries", "recheckEntries")
  /\ entriesLock' = [entriesLock EXCEPT ![want[t]] = t]
  /\ UNCHANGED <<mayFail, want, ret, caches, libsLock>>

\* Mutant: the early return keeps the lock.
EntriesFilledLocked(t) ==
  /\ entries[want[t]] # 0
  /\ Return(t, "recheckEntries", entries[want[t]])
  /\ UNCHANGED <<mayFail, want, caches, locks>>

\* The second check: another thread filled the cache meanwhile ...
EntriesFilled(t) ==
  /\ entries[want[t]] # 0
  /\ Return(t, "recheckEntries", entries[want[t]])
  /\ entriesLock' = Release(entriesLock, t)
  /\ UNCHANGED <<mayFail, want, caches, libsLock>>

\* ... or this thread has to.
EntriesEmpty(t) ==
  /\ entries[want[t]] = 0
  /\ Goto(t, "recheckEntries", "compile")
  /\ UNCHANGED <<mayFail, want, ret, caches, locks>>

\* _compile, the first check.
LibHit(t) ==
  /\ libs[want[t]] # 0
  /\ Goto(t, "compile", "lookup")
  /\ UNCHANGED <<mayFail, want, ret, caches, locks>>

LibMiss(t) ==
  /\ libs[want[t]] = 0
  /\ Goto(t, "compile", "waitLibs")
  /\ UNCHANGED <<mayFail, want, ret, caches, locks>>

LockLibs(t) ==
  /\ libsLock[want[t]] = NoThread
  /\ Goto(t, "waitLibs", "recheckLibs")
  /\ libsLock' = [libsLock EXCEPT ![want[t]] = t]
  /\ UNCHANGED <<mayFail, want, ret, caches, entriesLock>>

\* _compile, the second check.  It never finds a library (LibStillMissing below):
\* the threads that compile for a type already exclude each other by its
\* entriesLock, so the branch that would return here is not modelled.
LibEmpty(t) ==
  /\ libs[want[t]] = 0
  /\ Goto(t, "recheckLibs", "build")
  /\ UNCHANGED <<mayFail, want, ret, caches, locks>>

\* Mutant: the loaded library is not kept.
BuiltUnkept(t) ==
  /\ Goto(t, "build", "lookup")
  /\ builds' = [builds EXCEPT ![want[t]] = @ + 1]
  /\ libsLock' = Release(libsLock, t)
  /\ UNCHANGED <<mayFail, want, ret, libs, entries, tables, entriesLock>>

\* _compile_runtime returned and the library is loaded.
Built(t) ==
  /\ Goto(t, "build", "lookup")
  /\ builds' = [builds EXCEPT ![want[t]] = @ + 1]
  /\ libs' = [libs EXCEPT ![want[t]] = builds[want[t]] + 1]
  /\ libsLock' = Release(libsLock, t)
  /\ UNCHANGED <<mayFail, want, ret, entries, tables, entriesLock>>

\* An assertion of _compile_runtime leaves both `with` blocks.
BuildFails(t) ==
  /\ mayFail
  /\ Return(t, "build", Raised)
  /\ libsLock' = Release(libsLock, t) /\ entriesLock' = Release(entriesLock, t)
  /\ UNCHANGED <<mayFail, want, caches>>

\* Mutant: the table is returned but not published.
LookedUnpublished(t) ==
  /\ Return(t, "lookup", tables[want[t]] + 1)
  /\ tables' = [tables EXCEPT ![want[t]] = @ + 1]
  /\ entriesLock' = Release(entriesLock, t)
  /\ UNCHANGED <<mayFail, want, libs, entries, builds, libsLock>>

\* All functions found: the table, a new dict, is published only when complete.
Looked(t) ==
  /\ Return(t, "lookup", tables[want[t]] + 1)
  /\ tables' = [tables EXCEPT ![want[t]] = @ + 1]
  /\ entries' = [entries EXCEPT ![want[t]] = tables[want[t]] + 1]
  /\ entriesLock' = Release(entriesLock, t)
  /\ UNCHANGED <<mayFail, want, libs, builds, libsLock>>

LookupFails(t) ==
  /\ mayFail
  /\ Return(t, "lookup", Raised)
  /\ entriesLock' = Release(entriesLock, t)
  /\ UNCHANGED <<mayFail, want, caches, libsLock>>

Step(t) ==
  \/ EntriesHit(t) \/ EntriesMiss(t) \/ LockEntries(t) \/ EntriesFilled(t)
  \/ EntriesEmpty(t) \/ LibHit(t) \/ LibMiss(t) \/ LockLibs(t) \/ LibEmpty(t)
  \/ Built(t) \/ BuildFails(t) \/ Looked(t) \/ LookupFails(t)

Next == \E t \in Threads : Step(t) \/ \E r \in Types : Call(t, r)

\* A thread inside a call keeps running; a lock left free is taken.
Spec == Init /\ [][Next]_vars /\ \A t \in Threads : WF_vars(Step(t))

-----------------------------------------------------------------------------
(* Properties. *)

TypeOK ==
  /\ mayFail \in BOOLEAN
  /\ pc \in [Threads -> PCs] /\ want \in [Threads -> Types]
  /\ ret \in [Threads -> Nat \cup {Raised}]
  /\ libs \in [Types -> Nat] /\ entries \in [Types -> Nat]
  /\ builds \in [Types -> Nat] /\ tables \in [Types -> Nat]
  /\ libsLock \in [Types -> Threads \cup {NoThread}]
  /\ entriesLock \in [Types -> Threads \cup {NoThread}]

HoldsEntries == {"recheckEntries", "compile", "waitLibs", "recheckLibs", "build", "lookup"}
HoldsLibs    == {"recheckLibs", "build"}

\* Each lock is held by the thread inside its `with` block and by no other: no
\* exception leaves a lock taken, and a failed build does not block the next one.
LocksFollowTheCode ==
  \A r \in Types, t \in Threads :
    /\ entriesLock[r] = t <=> want[t] = r /\ pc[t] \in HoldsEntries
    /\ libsLock[r] = t <=> want[t] = r /\ pc[t] \in HoldsLibs

\* The runtime of a type is never compiled by two threads at a time.
OneBuildAtATime ==
  \A s, t \in Threads :
    pc[s] = "build" /\ pc[t] = "build" /\ want[s] = want[t] => s = t

\* ... and never a second time once it is loaded.
BuiltOnce == \A r \in Types : builds[r] <= 1

\* All threads share one table of functions per type: once published it stays.
PublishedOnce ==
  [][\A r \in Types : entries[r] # 0 => entries'[r] = entries[r]]_vars

\* A call that returned a value returned the shared table.
ReturnsTheTable ==
  \A t \in Threads :
    pc[t] = "idle" /\ ret[t] \notin {0, Raised} => ret[t] = entries[want[t]]

\* The inductive invariant behind these: what the thread in the `with` block of a
\* type's entries lock knows of the two caches.
LibStillMissing ==
  \A t \in Threads : pc[t] \in {"waitLibs"} \cup HoldsLibs => libs[want[t]] = 0

EntriesStillEmpty ==
  \A t \in Threads : pc[t] \in HoldsEntries \ {"recheckEntries"} => entries[want[t]] = 0

LookupHasLib ==
  \A t \in Threads : pc[t] = "lookup" => libs[want[t]] # 0

CachesHoldTheOnlyOne ==
  \A r \in Types : /\ libs[r] = builds[r] /\ builds[r] <= 1
                   /\ entries[r] = tables[r] /\ tables[r] <= 1

IInv ==
  /\ TypeOK /\ LocksFollowTheCode
  /\ LibStillMissing /\ EntriesStillEmpty /\ LookupHasLib /\ CachesHoldTheOnlyOne
  /\ ReturnsTheTable

\* When the tools do not fail, every call returns, whatever the other threads do.
CallsReturn ==
  \A t \in Threads : ~ mayFail /\ pc[t] # "idle" ~> pc[t] = "idle"
=============================================================================
