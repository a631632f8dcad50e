-------------------------- MODULE TtileMicrokernels --------------------------
(***************************************************************************)
(* The microkernels of Ttile (schedules/ttile/microkernel.py): the space of *)
(* unrolled tiles that suit the vector registers of a machine, and the      *)
(* file of their measured performances.  Measuring takes long: a run may    *)
(* be interrupted, and the next one counts the lines of the file to know    *)
(* where to go on.  A killed run loses the lines that were not flushed and  *)
(* may cut the last one.                                                    *)
(***************************************************************************)
EXTENDS TtileDescr

CONSTANTS
  VecRegs,      \* num_vect_reg of the machines
  VecSize,      \* elements of a vector
  UnrollMax,    \* unroll factors are below it (20 in the code)
  Perfs,        \* performances a measure may give, in percent of the peak
  Computations, \* "matmul", "conv"
  MaxRuns       \* bound: runs that measure

ASSUME MicrokernelAssumption ==
  /\ VecRegs \subseteq Nat \ {0} /\ VecSize \in Nat \ {0}
  /\ UnrollMax \in 1..10    \* bound: a factor has one digit (see Joined)
  /\ Perfs \subseteq Nat /\ MaxRuns \in Nat
  /\ Computations \subseteq {"matmul", "conv"}

-----------------------------------------------------------------------------
(* The space.  A microkernel gives each dimension its unroll factor. *)

VectorDim(comp) == IF comp = "conv" THEN "f" ELSE "j"
RepetitionDim(comp) == IF comp = "conv" THEN "c" ELSE "k"

\* The order the space is generated in, and that of the unrolled loops.
GenerationOrder(comp) ==
  IF comp = "conv" THEN <<"f", "x", "y", "c", "h", "w">> ELSE <<"i", "j", "k">>
UnrollOrderAll(comp) ==
  IF comp = "conv" THEN <<"f", "x", "y", "c", "w", "h">> ELSE <<"j", "i", "k">>

VolumeInplace(comp, m) ==
  IF comp = "conv" THEN m["x"] * m["y"] * m["f"] ELSE m["i"] * m["j"]
VolumeTotal(comp, m) ==
  VolumeInplace(comp, m) +
    (IF comp = "conv" THEN m["h"] * m["w"] * m["c"] * m["f"] ELSE m["k"] * m["j"])

Candidates(comp) ==
  LET unrolls == 1..(UnrollMax - 1)
      window == {1, 3, 5, 7}
  IN  IF comp = "conv"
      THEN [f : unrolls, x : unrolls, y : unrolls, c : unrolls, h : window, w : window]
      ELSE [i : unrolls, j : unrolls, k : {1}]

SuitsRegisters(comp, regs, m) ==
  /\ VolumeInplace(comp, m) <= regs
  /\ CeilDiv(45 * regs, 100) <= VolumeTotal(comp, m)
  /\ VolumeTotal(comp, m) <= (115 * regs) \div 100
  /\ (comp = "conv" /\ m["h"] > 1 /\ m["w"] > 1) => m["h"] = m["w"]

GeneratedBefore(comp, m1, m2) ==
  LET order == GenerationOrder(comp) IN
  \E n \in DOMAIN order :
    /\ m1[order[n]] < m2[order[n]]
    /\ \A h \in 1..(n - 1) : m1[order[h]] = m2[order[h]]

GenerateMicrokernels(comp, regs) ==
  LET suited == {m \in Candidates(comp) : SuitsRegisters(comp, regs, m)}
  IN  SortSeq(FoldSet(LAMBDA m, seq : Append(seq, m), <<>>, suited),
              LAMBDA m1, m2 : GeneratedBefore(comp, m1, m2))

\* to_ttile_scheme: the vector, then the unrolled loops in some order.
ToTtileScheme(comp, m, order) ==
  <<Atom("V", VectorDim(comp), VecSize)>>
    \o [n \in DOMAIN order |-> Atom("U", order[n], m[order[n]])]

\* What launch_microkernel_testing runs: the loops that do unroll, in a long
\* loop over the reduction.
TestedScheme(comp, m) ==
  ToTtileScheme(comp, m, SelectSeq(UnrollOrderAll(comp), LAMBDA d : m[d] > 1))
    \o <<Atom("T", RepetitionDim(comp), 512)>>

InNest(comp, scheme) == IF comp = "conv" THEN Renamed(scheme) ELSE scheme
CanBeTested(comp, m) ==
  TakenByDescript(comp, Describe(comp, InNest(comp, TestedScheme(comp, m)), VecSize))

\* The microkernels of each computation and machine, and whether each can be tested.
Spaces == [c \in Computations |-> [r \in VecRegs |-> GenerateMicrokernels(c, r)]]
Testable ==
  [c \in Computations |-> [r \in VecRegs |->
     {n \in DOMAIN Spaces[c][r] : CanBeTested(c, Spaces[c][r][n])}]]

-----------------------------------------------------------------------------
(* The file of performances. *)

VARIABLES
  comp, regs, \* the computation and the registers of the machine: constant
  file,       \* the lines below the header, before the present run
  announced,  \* num_mickern of the header, 0 where there is no file
  measuring,  \* the microkernel a run is at, 0 where none runs
  fresh,      \* the lines of the run, of which the first may be flushed
  runs,       \* runs so far
  known       \* what load_microkernel_info returned

dbVars == <<comp, regs, file, announced, measuring, fresh, runs, known>>

Space == Spaces[comp][regs]

\* The columns: a dimension each, in the order of the generation, and the measure.
Columns == Len(GenerationOrder(comp)) + 1

\* A line is the measure of one microkernel; a kill may cut it within any column.
Line(m, perf) == [kernel |-> m, perf |-> perf, columns |-> Columns, ended |-> TRUE]
CutLines(line) ==
  {[line EXCEPT !.columns = c, !.ended = FALSE, !.perf = digits] :
     c \in 1..Columns, digits \in {0, line.perf}}

\* A line that has no end is continued by the next one: the last of its columns and the
\* first of the other are one, the digits of both.  (Where that is not the first column there
\* will be too many, and the line is never read.)
Joined(old, line) ==
  LET first == GenerationOrder(comp)[1] IN
  [line EXCEPT !.columns = old.columns + @ - 1, !.kernel[first] = 10 * old.kernel[first] + @]
Written(lines, line) ==
  IF lines # <<>> /\ ~Last(lines).ended THEN Append(Front(lines), Joined(Last(lines), line))
  ELSE Append(lines, line)
FileWith(lines) == FoldLeft(Written, file, lines)

\* The lines are counted as they are; with nothing but a header the file is begun
\* again.
BeginMeasuring(resume) ==
  /\ measuring = 0 /\ runs < MaxRuns
  /\ LET start == IF resume THEN Len(file) ELSE 0 IN
     /\ measuring' = start + 1
     /\ file' = IF start = 0 THEN <<>> ELSE file
     /\ announced' = IF start = 0 THEN Len(Space) ELSE announced
  /\ runs' = runs + 1
  /\ UNCHANGED <<comp, regs, fresh, known>>

Measure(perf) ==
  /\ measuring \in Testable[comp][regs]
  /\ fresh' = Append(fresh, Line(Space[measuring], perf))
  /\ measuring' = measuring + 1
  /\ UNCHANGED <<comp, regs, file, announced, runs, known>>

Stop == measuring' = 0 /\ fresh' = <<>> /\ UNCHANGED <<comp, regs, announced, runs, known>>

\* The schedule is refused: the exception ends the run.
MeasureRefused ==
  /\ measuring \in DOMAIN Space \ Testable[comp][regs]
  /\ Stop /\ file' = FileWith(fresh)

\* All are measured, or the user interrupts: the file is closed.
EndMeasuring ==
  /\ measuring # 0
  /\ Stop /\ file' = FileWith(fresh)

\* Killed: the lines that were not flushed are lost, the last of the others may be cut.
Kill ==
  /\ measuring # 0
  /\ Stop
  /\ file' \in {FileWith(SubSeq(fresh, 1, n)) : n \in 0..Len(fresh)}
               \cup UNION {{FileWith(Append(SubSeq(fresh, 1, n - 1), cut)) :
                              cut \in CutLines(fresh[n])} : n \in DOMAIN fresh}

\* Mutant: the lines announced are not counted.
LoadableUncounted == announced # 0 /\ \A n \in DOMAIN file : file[n].columns = Columns

\* load_microkernel_info asserts that every line has its columns and that all
\* the announced lines are there.
Loadable ==
  /\ announced # 0
  /\ \A n \in DOMAIN file : file[n].columns = Columns
  /\ Len(file) = announced

Load ==
  /\ measuring = 0 /\ known = <<>>
  /\ Loadable
  /\ known' = [n \in DOMAIN file |-> [kernel |-> file[n].kernel, perf |-> file[n].perf]]
  /\ UNCHANGED <<comp, regs, file, announced, measuring, fresh, runs>>

DatabaseNext ==
  \/ \E resume \in BOOLEAN : BeginMeasuring(resume)
  \/ \E perf \in Perfs : Measure(perf)
  \/ MeasureRefused \/ EndMeasuring \/ Kill \/ Load
=============================================================================
