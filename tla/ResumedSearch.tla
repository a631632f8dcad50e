---------------------------- MODULE ResumedSearch ----------------------------
(***************************************************************************)
(* Sessions of one seeded search on one output file: `loop-explore --search *)
(* random --output f`, run as often as it is interrupted, always with       *)
(* --resume or in any mode.  Each session measures the same samples in the  *)
(* same order, which Exploration guarantees whatever the workers do         *)
(* (RecordedInOrder), and hands each result to the CSVCallback of ResultLog.*)
(***************************************************************************)
EXTENDS Integers, Sequences, FiniteSets

CONSTANTS
  NResults,    \* samples of the search times its backends
  MaxLines     \* bound on the length of the file

ASSUME ResumedSearchAssumption == NResults \in Nat /\ MaxLines > NResults

Modes == {"write", "append", "resume"}

VARIABLES
  tears, cache, disk, session, seen, writing, acked,   \* those of ResultLog
  modes,     \* the modes the sessions are run in: constant
  next,      \* the result this session comes to next
  good,      \* history: results this session got without error
  failed     \* history: some evaluation of some session returned an error

Results == 1 .. NResults

Log == INSTANCE ResultLog WITH Keys <- Results

logvars == <<tears, cache, disk, session, seen, writing, acked>>
vars    == <<logvars, modes, next, good, failed>>

Init ==
  /\ Log!Init
  /\ modes \in {{"resume"}, Modes}
  /\ next = 1 /\ good = {} /\ failed = FALSE

\* The constructor of the callback, then the search from its first sample.
Start ==
  /\ \E mode \in modes : Log!Begin(mode)
  /\ next' = 1 /\ good' = {}
  /\ UNCHANGED <<modes, failed>>

\* Every sample is evaluated, also one the file already has a row for.
Evaluated ==
  /\ session # "closed" /\ writing = << >> /\ next <= NResults
  /\ next' = next + 1

\* An error is not recorded ...
EvaluateFails ==
  /\ Evaluated
  /\ failed' = TRUE
  /\ UNCHANGED <<logvars, modes, good>>

\* ... a good result is, unless the callback has seen its key.
EvaluateSkipped ==
  /\ Evaluated
  /\ Log!Skips(next)
  /\ good' = good \cup {next}
  /\ UNCHANGED <<logvars, modes, failed>>

EvaluateWritten ==
  /\ Evaluated
  /\ Log!WriteRow(next)
  /\ good' = good \cup {next}
  /\ UNCHANGED <<modes, failed>>

Sync == (Log!Synced \/ Log!SyncFails) /\ UNCHANGED <<modes, next, good, failed>>

\* All results are handed over.
Finish ==
  /\ next > NResults
  /\ Log!End
  /\ UNCHANGED <<modes, next, good, failed>>

Crash == Log!Crash /\ UNCHANGED <<modes, next, good, failed>>

Next ==
  \/ Start \/ EvaluateFails \/ EvaluateSkipped \/ EvaluateWritten
  \/ Sync \/ Finish \/ Crash

Spec == Init /\ [][Next]_vars

-----------------------------------------------------------------------------
(* Properties. *)

\* The file of an uninterrupted run without errors.
WholeFile == <<Log!Header>> \o [k \in Results |-> Log!Row(k)]

\* If every session resumes, no line is cut and no evaluation has failed, an interrupted
\* and resumed search leaves at any time a beginning of the very file an uninterrupted
\* one leaves.
ResumedFileIsThatOfOneRun ==
  (modes = {"resume"} /\ ~ failed /\ ~ tears) =>
    \E n \in 0 .. NResults + 1 : cache = SubSeq(WholeFile, 1, n)

\* With failures the order may differ, but where no line is cut a running session
\* has exactly one row for each result it got without error, whatever earlier
\* sessions lost, and no sample ever has two.
OneRowPerGoodResult ==
  tears \/
  /\ modes = {"resume"} => \A k \in Results : Cardinality(Log!Rows(k)) <= 1
  /\ session # "closed" => \A k \in good : Log!Rows(k) # {}

\* An interrupted search that is run again completes its file: in the order of one run
\* where nothing failed, and with no sample missing or twice where something did.
ResumedFileIsWhole == ResumedFileIsThatOfOneRun /\ OneRowPerGoodResult

\* A row that fsync secured is read by every later session; where lines are cut, its line
\* is never lost.
RecordedStaysRecorded == Log!RecordedStaysRecorded
=============================================================================
