------------------------ MODULE RuntimeResolveProofs ------------------------
(* Theorems about RuntimeResolve, for any set of threads and runtime types. *)
EXTENDS RuntimeResolve, TLAPS

LEMMA InitInv == Init => IInv
  BY ResolveAssumption
  DEF Init, IInv, TypeOK, LocksFollowTheCode, LibStillMissing, EntriesStillEmpty,
      LookupHasLib, CachesHoldTheOnlyOne, ReturnsTheTable,
      HoldsEntries, HoldsLibs, PCs

\* Two threads are never both inside the `with` of the same lock.
LEMMA Exclusion ==
  ASSUME LocksFollowTheCode, TypeOK, NEW s \in Threads, NEW t \in Threads,
         want[s] = want[t]
  PROVE  /\ pc[s] \in HoldsEntries /\ pc[t] \in HoldsEntries => s = t
         /\ pc[s] \in HoldsLibs /\ pc[t] \in HoldsLibs => s = t
  BY DEF LocksFollowTheCode, TypeOK

\* The invariant is preserved by every step of a thread.
LEMMA NextInv == IInv /\ [Next]_vars => IInv'
<1> SUFFICES ASSUME IInv, [Next]_vars PROVE IInv'
  OBVIOUS
<1> USE ResolveAssumption
    DEF IInv, TypeOK, LocksFollowTheCode, LibStillMissing, EntriesStillEmpty,
        LookupHasLib, CachesHoldTheOnlyOne, ReturnsTheTable,
        HoldsEntries, HoldsLibs, PCs, Goto, Return, Release, caches, locks
<1>1. ASSUME NEW t \in Threads, NEW r \in Types, Call(t, r) PROVE IInv'
  BY <1>1 DEF Call
<1>2. ASSUME NEW t \in Threads, EntriesHit(t) PROVE IInv'
  BY <1>2 DEF EntriesHit
<1>3. ASSUME NEW t \in Threads, EntriesMiss(t) PROVE IInv'
  BY <1>3 DEF EntriesMiss
<1>4. ASSUME NEW t \in Threads, LockEntries(t) PROVE IInv'
  BY <1>4 DEF LockEntries
<1>5. ASSUME NEW t \in Threads, EntriesFilled(t) PROVE IInv'
  BY <1>5 DEF EntriesFilled
<1>6. ASSUME NEW t \in Threads, EntriesEmpty(t) PROVE IInv'
  BY <1>6 DEF EntriesEmpty
<1>7. ASSUME NEW t \in Threads, LibHit(t) PROVE IInv'
  BY <1>7 DEF LibHit
<1>8. ASSUME NEW t \in Threads, LibMiss(t) PROVE IInv'
  BY <1>8 DEF LibMiss
<1>9. ASSUME NEW t \in Threads, LockLibs(t) PROVE IInv'
  BY <1>9 DEF LockLibs
<1>10. ASSUME NEW t \in Threads, LibEmpty(t) PROVE IInv'
  BY <1>10 DEF LibEmpty
<1>11. ASSUME NEW t \in Threads, Built(t) PROVE IInv'
  BY <1>11 DEF Built
<1>12. ASSUME NEW t \in Threads, BuildFails(t) PROVE IInv'
  BY <1>12 DEF BuildFails
<1>13. ASSUME NEW t \in Threads, Looked(t) PROVE IInv'
  BY <1>13 DEF Looked
<1>14. ASSUME NEW t \in Threads, LookupFails(t) PROVE IInv'
  BY <1>14 DEF LookupFails
<1>15. CASE UNCHANGED vars
  BY <1>15 DEF vars
<1> QED
  BY <1>1, <1>2, <1>3, <1>4, <1>5, <1>6, <1>7, <1>8, <1>9, <1>10, <1>11, <1>12,
     <1>13, <1>14, <1>15 DEF Next, Step

\* Every reachable state satisfies the inductive invariant.
THEOREM Invariant == Spec => []IInv
  BY InitInv, NextInv, PTL DEF Spec

\* Each lock is held exactly by the thread inside its `with` block.
THEOREM LocksAreHeldInTheirBlocks == Spec => []LocksFollowTheCode
  BY Invariant, PTL DEF IInv

\* No two threads compile the runtime of one type at the same time.
THEOREM BuildsExclude == Spec => []OneBuildAtATime
<1>1. IInv => OneBuildAtATime
  BY Exclusion DEF IInv, OneBuildAtATime, HoldsLibs
<1> QED
  BY <1>1, Invariant, PTL

\* The runtime of a type is compiled and loaded at most once.
THEOREM BuildsOnce == Spec => []BuiltOnce
<1>1. IInv => BuiltOnce
  BY DEF IInv, CachesHoldTheOnlyOne, BuiltOnce
<1> QED
  BY <1>1, Invariant, PTL

\* A call that returns hands out the one published table.
THEOREM CallsReturnTheTable == Spec => []ReturnsTheTable
  BY Invariant, PTL DEF IInv

\* A published table is never replaced.
THEOREM TablesStay == Spec => PublishedOnce
<1>1. IInv /\ [Next]_vars =>
        [\A r \in Types : entries[r] # 0 => entries'[r] = entries[r]]_vars
  <2> SUFFICES ASSUME IInv, Next, NEW r \in Types, entries[r] # 0
               PROVE  entries'[r] = entries[r]
    OBVIOUS
  <2>1. ASSUME NEW t \in Threads, Looked(t) PROVE entries'[r] = entries[r]
    <3>1. entries[want[t]] = 0
      BY <2>1 DEF Looked, Return, Goto, IInv, EntriesStillEmpty, HoldsEntries
    <3> QED
      BY <2>1, <3>1 DEF Looked, IInv, TypeOK
  <2>2. ASSUME NEW t \in Threads, Step(t), ~ Looked(t) PROVE entries' = entries
    BY <2>2 DEF Step, EntriesHit, EntriesMiss, LockEntries, EntriesFilled, EntriesEmpty,
       LibHit, LibMiss, LockLibs, LibEmpty, Built, BuildFails, LookupFails, caches
  <2>3. ASSUME NEW t \in Threads, NEW q \in Types, Call(t, q) PROVE entries' = entries
    BY <2>3 DEF Call, caches
  <2> QED
    BY <2>1, <2>2, <2>3 DEF Next
<1> QED
  BY <1>1, Invariant, PTL DEF Spec, PublishedOnce
=============================================================================
