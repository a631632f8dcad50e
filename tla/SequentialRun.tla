--------------------------- MODULE SequentialRun ---------------------------
(***************************************************************************)
(* What CompileExecutePipeline.run promises its caller, whatever the number *)
(* of workers: it behaves as the loop                                      *)
(*    for payload in payloads: result.append(execute(compile(payload)))    *)
(* except that the exception it ends with may belong to any of the next    *)
(* Slack tasks, those of the execute batch being filled.                   *)
(***************************************************************************)
EXTENDS Naturals

CONSTANTS N, Slack

VARIABLES
  done,     \* results the consumer holds, those of tasks 1 .. done
  state,    \* "running", "returned" or "raised"
  cause     \* the task that raised, 0 if none

avars == <<done, state, cause>>

Init == done = 0 /\ state = "running" /\ cause = 0

Result ==
  /\ state = "running" /\ done < N
  /\ done' = done + 1
  /\ UNCHANGED <<state, cause>>

Return ==
  /\ state = "running" /\ done = N
  /\ state' = "returned"
  /\ UNCHANGED <<done, cause>>

Raise ==
  /\ state = "running"
  /\ \E t \in 1 .. N : /\ done < t /\ t <= done + Slack
                       /\ cause' = t
  /\ state' = "raised"
  /\ UNCHANGED done

Next == Result \/ Return \/ Raise

Spec == Init /\ [][Next]_avars /\ WF_avars(Next)
=============================================================================
