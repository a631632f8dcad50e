------------------------------- MODULE MCTtile -------------------------------
(* Two machines, a matrix product and a convolution of a few elements. *)
EXTENDS Ttile

McVecRegs == {4, 8}
McComputations == {"matmul", "conv"}
McPerfs == {90}

Matmul(i, j, k) == [i |-> i, j |-> j, k |-> k]
Conv(f, x, y, c, w, h) ==
  [n |-> 1, f |-> f, x |-> x, y |-> y, c |-> c, w |-> w, h |-> h, strx |-> 1, stry |-> 1]
Ask(c, prob_, lambda, partial, threads, reuse) ==
  [comp |-> c, prob |-> prob_, lambda |-> lambda, partial |-> partial,
   threads |-> threads, reuseMin |-> reuse]
McRequests ==
  {Ask("matmul", Matmul(4, 8, 4), "none", FALSE, 0, 2),
   Ask("matmul", Matmul(8, 4, 2), "i", FALSE, 0, 2),
   Ask("matmul", Matmul(4, 8, 3), "none", FALSE, 2, 3),
   Ask("matmul", Matmul(4, 8, 2), "none", FALSE, 3, 2),
   Ask("matmul", Matmul(6, 4, 2), "none", TRUE, 0, 2),
   Ask("matmul", Matmul(4, 4, 3), "none", FALSE, 0, 2),
   Ask("matmul", Matmul(4, 3, 2), "none", FALSE, 0, 2),
   Ask("conv", Conv(4, 3, 2, 2, 1, 3), "x", FALSE, 0, 2)}

Row(m, perf) == [kernel |-> m, perf |-> perf]
ConvKernel(f, x, y, c, w, h) == [f |-> f, x |-> x, y |-> y, c |-> c, w |-> w, h |-> h]
McShipped ==
  {[comp |-> "conv", rows |-> <<Row(ConvKernel(2, 1, 1, 1, 1, 3), 90),
                                Row(ConvKernel(2, 2, 1, 1, 1, 3), 100),
                                Row(ConvKernel(1, 3, 2, 1, 1, 1), 95),
                                Row(ConvKernel(1, 1, 1, 1, 1, 1), 20)>>],
   [comp |-> "matmul", rows |-> <<Row(Matmul(1, 2, 1), 100), Row(Matmul(2, 2, 1), 90),
                                  Row(Matmul(2, 1, 1), 86), Row(Matmul(3, 2, 1), 95),
                                  Row(Matmul(5, 2, 1), 85), Row(Matmul(1, 1, 1), 80)>>]}

McWrittenAtoms ==
  [matmul |-> {Atom("T", d, 2) : d \in {"i", "j", "k"}}
                \cup {Atom("Tpart", "k", 3)}
                \cup {Lambda("TL", "i", <<1, 2>>), Lambda("UL", "j", <<1, 2>>)}
                \cup {SeqAtom(d) : d \in {"i", "j"}},
   conv |-> {Atom("T", d, 2) : d \in {"h", "r", "f", "s"}}
              \cup {Lambda("TL", "h", <<1, 2>>), SeqAtom("h")}]
McBeginnings ==
  [matmul |-> {<<Atom("V", "j", 2)>>, <<Atom("V", "j", 2), Atom("U", "k", 2)>>},
   conv |-> {<<Atom("V", "f", 2)>>, <<Atom("V", "f", 2), Atom("U", "c", 2)>>}]
McStrides == {[strx |-> 1, stry |-> 1], [strx |-> 2, stry |-> 1]}
McCaches == {4, 8, 16, 24}
McWays == {1, 2, 3}
=============================================================================
