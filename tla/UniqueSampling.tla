--------------------------- MODULE UniqueSampling ---------------------------
(***************************************************************************)
(* sample_uniques (utils/algorithms.py): rounds of draws from a space of    *)
(* unknown size until num different samples are found or another one has    *)
(* become unlikely.  draw(n) returns any list of at most n samples: empty,  *)
(* shorter, with repetitions.                                               *)
(***************************************************************************)
EXTENDS Integers, Sequences, FiniteSets, SequencesExt

CONSTANTS
  Samples,     \* everything that can be drawn
  MaxNum,      \* bound: the samples a caller asks for
  MaxDraw,     \* bound: the samples one round comes back with
  PNum, PDen   \* prob = PNum / PDen, 1/1000 in the code

ASSUME SamplingAssumption ==
  /\ MaxNum \in Nat /\ MaxDraw \in Nat /\ PNum \in Nat \ {0} /\ PDen \in Nat /\ PNum < PDen

VARIABLES
  num, space,         \* the request, and what draw can return: constant
  stage,              \* "loop", "round" or "done"
  roundNum, samples, seen, once, twice, draws, requests,
  batch               \* what is left of round_samples

args     == <<num, space>>
counters == <<seen, once, twice>>
sampling == <<args, stage, roundNum, samples, counters, draws, requests, batch>>

Init ==
  /\ num \in 1 .. MaxNum /\ space \in SUBSET Samples
  /\ stage = "loop" /\ roundNum = num /\ samples = << >>
  /\ seen = {} /\ once = {} /\ twice = {}
  /\ draws = 0 /\ requests = 0 /\ batch = << >>

\* Mutant: the share of valid draws is left out.
NextIsUnseen == (Cardinality(once) + 1) * PDen > PNum * (draws + 1)

\* p_next > prob, where p_next = (once + 1) / (draws + 1) * max(1 / (requests + 1),
\* draws / requests): Good and Turing's estimate, smoothed, times the share of the
\* draws that were valid.
NextIsLikely ==
  LET n == (Cardinality(once) + 1) * PDen IN
  \/ n > PNum * (draws + 1) * (requests + 1)
  \/ n * draws > PNum * (draws + 1) * requests

\* Mutant: only draws that returned something are counted.
DrawUncounted(drawn) ==
  /\ stage = "loop" /\ Len(samples) < num /\ NextIsLikely
  /\ Len(drawn) <= roundNum
  /\ stage' = "round" /\ batch' = drawn
  /\ requests' = IF drawn = << >> THEN requests ELSE requests + roundNum
  /\ draws' = draws + Len(drawn)
  /\ UNCHANGED <<args, roundNum, samples, counters>>

Draw(drawn) ==
  /\ stage = "loop" /\ Len(samples) < num /\ NextIsLikely
  /\ Len(drawn) <= roundNum
  /\ stage' = "round" /\ batch' = drawn
  /\ requests' = requests + roundNum
  /\ draws' = draws + Len(drawn)
  /\ roundNum' = IF drawn = << >> THEN 2 * roundNum ELSE roundNum
  /\ UNCHANGED <<args, samples, counters>>

\* The samples of a round, one by one.
Take ==
  /\ stage = "round" /\ batch # << >>
  /\ batch' = Tail(batch)
  /\ UNCHANGED <<args, stage, roundNum, draws, requests>>

\* Mutant: the sample is not remembered.
TakeNewUnseen ==
  /\ Take
  /\ Head(batch) \notin seen
  /\ samples' = Append(samples, Head(batch))
  /\ once' = once \cup {Head(batch)}
  /\ UNCHANGED <<seen, twice>>

TakeNew ==
  /\ Take
  /\ Head(batch) \notin seen
  /\ samples' = Append(samples, Head(batch))
  /\ seen' = seen \cup {Head(batch)} /\ once' = once \cup {Head(batch)}
  /\ UNCHANGED twice

TakeAgain ==
  /\ Take
  /\ Head(batch) \in seen
  /\ once' = once \ {Head(batch)}
  /\ twice' = IF Head(batch) \in once THEN twice \cup {Head(batch)}
              ELSE twice \ {Head(batch)}
  /\ UNCHANGED <<samples, seen>>

EndRound ==
  /\ stage = "round" /\ batch = << >>
  /\ stage' = "loop"
  /\ UNCHANGED <<args, roundNum, samples, counters, draws, requests, batch>>

Return ==
  /\ stage = "loop" /\ ~ (Len(samples) < num /\ NextIsLikely)
  /\ stage' = "done"
  /\ samples' = SubSeq(samples, 1, IF Len(samples) < num THEN Len(samples) ELSE num)
  /\ UNCHANGED <<args, roundNum, counters, draws, requests, batch>>

Round == TakeNew \/ TakeAgain \/ EndRound \/ Return

Next == Round \/ \E drawn \in BoundedSeq(space, MaxDraw) : Draw(drawn)

Spec == Init /\ [][Next]_sampling /\ WF_sampling(Next)

-----------------------------------------------------------------------------
(* Properties. *)

TypeOK ==
  /\ num \in Nat \ {0} /\ space \subseteq Samples
  /\ stage \in {"loop", "round", "done"}
  /\ samples \in Seq(space) /\ batch \in Seq(space)
  /\ seen \subseteq space /\ once \subseteq seen /\ twice \subseteq seen
  /\ IsFiniteSet(seen)
  /\ draws \in Nat /\ requests \in Nat /\ roundNum \in Nat \ {0}

\* The result: different samples of the space, no more than were asked for.
UniqueSamples ==
  /\ IsInjective(samples) /\ Range(samples) \subseteq space
  /\ stage = "done" => Len(samples) <= num

\* What the estimate rests on: once are the samples drawn a single time, twice those
\* drawn two times, so the draws pay for them; its assertion once <= draws holds.
CountsAreDraws ==
  /\ once \cap twice = {}
  /\ draws >= Len(batch) + Cardinality(once) + 2 * Cardinality(twice)
                + 3 * Cardinality(seen \ (once \cup twice))

\* However sparse the space, doubling the rounds never asks for more than 2 / prob
\* draws per sample wanted.
RequestsAreBounded == PNum * requests <= 2 * num * PDen + num * PNum

\* What makes it inductive.
LoopKnows ==
  /\ roundNum <= requests + num
  /\ stage # "round" => batch = << >>
  /\ stage # "done" => Range(samples) = seen /\ Len(samples) = Cardinality(seen)
  /\ draws = 0 => seen = {} /\ batch = << >>
=============================================================================
