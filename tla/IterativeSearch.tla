-------------------------- MODULE IterativeSearch --------------------------
(***************************************************************************)
(* Exploration.evaluate_iterative (search/explore.py) driving a             *)
(* RandomForestOptimizer (search/optimizers.py): suggest a batch, evaluate  *)
(* it with evaluate_all_parallel, observe the peaks, until the trials are   *)
(* spent.  The evaluation of a batch is one step here; Exploration details  *)
(* it.  Peaks are small integers: what matters is which sample they belong  *)
(* to and which is larger.                                                  *)
(***************************************************************************)
EXTENDS Integers, Sequences, FiniteSets, SequencesExt

CONSTANTS
  Samples,       \* the design space, as the strategy's filters leave it
  Fewest,        \* candidates sample_uniques finds at least, of batch_candidates
  Peaks,         \* peaks a measure may give, all positive
  Trials, BatchSize,      \* config.trials, config.batch
  ReqUpdateFirst, ReqUpdatePeriod,   \* the preset's values, 0 for null
  ResultCounts,  \* results a sample may get: its backends, 0 if nothing executes
  MayFail        \* whether evaluations may return an error code or raise

ASSUME IterativeSearchAssumption ==
  /\ Peaks \subseteq Nat \ {0} /\ IsFiniteSet(Samples)
  /\ Fewest \in 0 .. Cardinality(Samples)
  /\ Trials \in Nat /\ BatchSize \in Nat \ {0} /\ ResultCounts \subseteq Nat
  /\ ReqUpdateFirst \in Nat /\ ReqUpdatePeriod \in Nat
  /\ MayFail \in BOOLEAN

UpdateFirst  == IF ReqUpdateFirst = 0 THEN BatchSize ELSE ReqUpdateFirst
UpdatePeriod == IF ReqUpdatePeriod = 0 THEN BatchSize ELSE ReqUpdatePeriod

VARIABLES
  pc,          \* "suggest", "evaluate", "observe", "finished" or "raised"
  step,        \* of range(0, trials, batch)
  inX,         \* the batch being evaluated
  results,     \* its results, [x, code, peak], backend by backend for each x
  X, Y,        \* what the optimizer has observed
  bestX, bestY,
  fitted,      \* update_last: how many observations the forest was fit on
  perSample,   \* results per sample in this run: constant
  measured     \* history: every result the optimizer was given, <<x, peak>>

observed == <<X, Y, bestX, bestY, fitted, measured>>
batch    == <<step, inX, results, perSample>>
vars     == <<pc, batch, observed>>

None == "none"   \* best_x before any observation, the empty list

Init ==
  /\ pc = "suggest" /\ step = 0
  /\ inX = << >> /\ results = << >>
  /\ X = << >> /\ Y = << >>
  /\ bestX = None /\ bestY = 0
  /\ fitted = 0
  /\ perSample \in ResultCounts
  /\ measured = << >>

\* The exception leaves evaluate_iterative, whose finally closes the bars.
Abort == pc' = "raised"

Injective(s) == \A i, j \in DOMAIN s : s[i] = s[j] => i = j

Warm == Len(X) >= UpdateFirst

\* suggest() before the first fit draws with replacement from unique candidates;
\* after it, it takes the batch best-scored ones, all different.
Suggestions ==
  IF Warm THEN {s \in [1 .. BatchSize -> Samples] : Injective(s)}
          ELSE [1 .. BatchSize -> Samples]

\* [:size], the last batch may be shorter.
Size == IF BatchSize <= Trials - step THEN BatchSize ELSE Trials - step

\* Mutant: batches with an already observed sample are drawn again.
SuggestUnseen ==
  /\ pc = "suggest" /\ step < Trials
  /\ \E s \in Suggestions : inX' = SubSeq(s, 1, Size)
  /\ pc' = IF ToSet(inX') \cap ToSet(X) = {} THEN "evaluate" ELSE "suggest"
  /\ UNCHANGED <<step, results, perSample, observed>>

Suggest ==
  /\ pc = "suggest" /\ step < Trials
  /\ \E s \in Suggestions : inX' = SubSeq(s, 1, Size)
  /\ pc' = "evaluate"
  /\ UNCHANGED <<step, results, perSample, observed>>

\* No candidate for rng.choices, or fewer than argpartition is asked for.
SuggestRaises ==
  /\ pc = "suggest" /\ step < Trials
  /\ IF Warm THEN Fewest < BatchSize ELSE Fewest = 0
  /\ Abort
  /\ UNCHANGED <<batch, observed>>

Outcomes ==
  [code : {0}, peak : Peaks] \cup (IF MayFail THEN [code : {1}, peak : {0}] ELSE {})

\* evaluate_all_parallel: for each sample of the batch perSample results.
Evaluate ==
  /\ pc = "evaluate"
  /\ \E out \in [1 .. Len(inX) * perSample -> Outcomes] :
       results' = [i \in DOMAIN out |->
                     [x |-> inX[(i - 1) \div perSample + 1],
                      code |-> out[i].code, peak |-> out[i].peak]]
  /\ pc' = "observe"
  /\ UNCHANGED <<step, inX, perSample, observed>>

\* A sample fails to compile, or its evaluation raises.
EvaluateRaises ==
  /\ pc = "evaluate" /\ MayFail
  /\ Abort
  /\ UNCHANGED <<batch, observed>>

\* peak_time / time with the time 0 of a failed evaluation.
PeaksRaise ==
  /\ pc = "observe"
  /\ \E i \in DOMAIN results : results[i].code # 0
  /\ Abort
  /\ UNCHANGED <<batch, observed>>

peaks == [i \in DOMAIN results |-> results[i].peak]

\* The loop of observe() over the first n peaks leaves the first index whose peak
\* is the largest, if it beats bestY.
Improves(i, n) ==
  /\ peaks[i] > bestY
  /\ \A j \in 1 .. n : peaks[j] <= peaks[i]
  /\ \A j \in 1 .. i - 1 : peaks[j] < peaks[i]

\* Mutant: the best index is looked up among all the observed samples.
TrackBestInHistory(n) ==
  \/ \E i \in 1 .. n : Improves(i, n) /\ bestX' = (X \o inX)[i] /\ bestY' = peaks[i]
  \/ (\A i \in 1 .. n : ~ Improves(i, n)) /\ UNCHANGED <<bestX, bestY>>

TrackBest(n) ==
  \/ \E i \in 1 .. n : Improves(i, n) /\ bestX' = inX[i] /\ bestY' = peaks[i]
  \/ (\A i \in 1 .. n : ~ Improves(i, n)) /\ UNCHANGED <<bestX, bestY>>

\* x[i] is asked for with i past the end of the batch.
Overruns == \E i \in Len(inX) + 1 .. Len(peaks) : Improves(i, i)

\* observe(), given the results: extend X and y.
Extend ==
  /\ pc = "observe"
  /\ \A i \in DOMAIN results : results[i].code = 0
  /\ X' = X \o inX /\ Y' = Y \o peaks
  /\ measured' = measured \o [i \in DOMAIN results |-> <<results[i].x, results[i].peak>>]

\* update_n of observe() after n observations, and whether the forest is refit.
UpdateN(n) == UpdateFirst + ((n - UpdateFirst) \div UpdatePeriod) * UpdatePeriod
\* Mutant: refit when the number of observations falls on a period.
RefitsOnPeriod(n) == n >= UpdateFirst /\ (n - UpdateFirst) % UpdatePeriod = 0

Refits(n)  == n >= UpdateFirst /\ UpdateN(n) > fitted

Observe ==
  /\ Extend
  /\ ~ Overruns /\ TrackBest(Len(peaks))
  /\ fitted' = IF Refits(Len(X')) THEN UpdateN(Len(X')) ELSE fitted
  /\ Refits(Len(X')) => Len(Y') >= UpdateN(Len(X'))
  /\ step' = step + BatchSize /\ inX' = << >> /\ results' = << >>
  /\ pc' = "suggest"
  /\ UNCHANGED perSample

ObserveOverruns ==
  /\ Extend
  /\ Overruns /\ TrackBest(Len(inX))
  /\ Abort
  /\ UNCHANGED <<batch, fitted>>

\* fit() refuses samples without as many peaks.
FitRaises ==
  /\ Extend
  /\ ~ Overruns /\ TrackBest(Len(peaks))
  /\ Refits(Len(X')) /\ Len(Y') < UpdateN(Len(X'))
  /\ Abort
  /\ UNCHANGED <<batch, fitted>>

Finish ==
  /\ pc = "suggest" /\ step >= Trials
  /\ pc' = "finished"
  /\ UNCHANGED <<batch, observed>>

Stopped == pc \in {"finished", "raised"} /\ UNCHANGED vars

Search ==
  \/ Suggest \/ SuggestRaises \/ Evaluate \/ EvaluateRaises
  \/ PeaksRaise \/ Observe \/ ObserveOverruns \/ FitRaises \/ Finish

Next == Search \/ Stopped

\* Every call of the loop returns or raises.
Spec == Init /\ [][Next]_vars /\ WF_vars(Search)

-----------------------------------------------------------------------------
(* Properties. *)

\* The best schedule the optimizer reports was measured with that peak, and
\* nothing measured was better.
BestWasMeasured ==
  perSample = 1 /\ measured # << >> =>
    /\ <<bestX, bestY>> \in ToSet(measured)
    /\ \A i \in DOMAIN measured : measured[i][2] <= bestY

\* A prediction is only asked of a fitted forest, and of one that lacks fewer
\* than update_period of the observations, whatever the batch size.
ModelIsFresh ==
  pc = "suggest" /\ Warm =>
    /\ fitted >= UpdateFirst /\ fitted <= Len(X)
    /\ Len(X) - fitted < UpdatePeriod

\* The loop ends.
Termination == <>(pc \in {"finished", "raised"})
=============================================================================
