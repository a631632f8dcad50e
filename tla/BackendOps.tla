----------------------------- MODULE BackendOps ------------------------------
(***************************************************************************)
(* What the back ends generate for an operator: backends/mlir/MlirOps.py,   *)
(* backends/tvm/TVMOps.py and backends/jir/JIROps.py.  Each registers some  *)
(* operators, accepts some shapes and layouts of their inputs, names and    *)
(* sizes the loops, and reads the elements given by its own index           *)
(* expressions.  in is the sequence of input shapes, layouts that of the    *)
(* input layouts, << >> if a tensor has none.                               *)
(***************************************************************************)
EXTENDS Operators
LOCAL INSTANCE Integers
LOCAL INSTANCE Sequences
LOCAL INSTANCE FiniteSetsExt
LOCAL INSTANCE SequencesExt
LOCAL INSTANCE Functions

\* The names of the loops of operators of any rank.
Letters == <<"i", "j", "k", "l", "m", "n", "o", "p">>

MatmulAxes == <<"i", "j", "k">>
Conv2DAxes == <<"b", "h", "w", "f", "r", "s", "c">>

-----------------------------------------------------------------------------
(* MLIR *)

Natural(layout, rank) == layout = << >> \/ layout = [d \in 1 .. rank |-> d - 1]

MlirNames == {"matmul", "conv2d", "relu", "pad", "pad2d", "unpad"}

\* Layouts are for matmul; linalg wants operands of the rank of their maps.
MlirAccepts(op, in, layouts) ==
  /\ op.name \in MlirNames
  /\ op.name # "matmul" => \A n \in DOMAIN in : Natural(layouts[n], Len(in[n]))
  /\ CASE op.name = "matmul" -> Len(in[1]) = 2 /\ Len(in[2]) = 2
       [] op.name = "conv2d" -> Len(op.stride) = 2 /\ Len(in[1]) = 4
       [] op.name = "pad2d"  -> Len(in[1]) <= 4
       [] OTHER              -> TRUE

\* The shape a function's argument has in memory, and the element stored at an index.
StoredShape(shape, layout) ==
  IF layout = << >> THEN shape ELSE [d \in DOMAIN shape |-> shape[layout[d] + 1]]

StoredElement(index, layout) ==
  IF layout = << >> THEN index
  ELSE [a \in DOMAIN index |-> index[CHOOSE d \in DOMAIN layout : layout[d] + 1 = a]]

\* Mutant: matmul takes the layout of one operand for both.
MlirMatmulIndexesOneLayout(layouts, i, j, k) ==
  LET t == layouts[1] = <<1, 0>> IN
  <<IF t THEN <<k, i>> ELSE <<i, k>>, IF t THEN <<j, k>> ELSE <<k, j>>>>

\* matmul reads an operand transposed if it is laid out so.
MlirMatmulIndexes(layouts, i, j, k) ==
  <<IF layouts[1] = <<1, 0>> THEN <<k, i>> ELSE <<i, k>>,
    IF layouts[2] = <<1, 0>> THEN <<j, k>> ELSE <<k, j>>>>

MlirMatmulTerms(dims, layouts, o) ==
  LET at(k) == MlirMatmulIndexes(layouts, o[1], o[2], k) IN
  {<<<<1, StoredElement(at(k)[1], layouts[1])>>, <<2, StoredElement(at(k)[2], layouts[2])>>>> :
     k \in 0 .. dims[3] - 1}

MlirConv2DTerms(op, dims, o) ==
  {<<<<1, <<o[1], o[2] * op.stride[1] + r, o[3] * op.stride[2] + s, c>>>>,
     <<2, <<r, s, c, o[4]>>>>>> :
   r \in 0 .. dims[5] - 1, s \in 0 .. dims[6] - 1, c \in 0 .. dims[7] - 1}

\* The sizes before padding: every entry is taken off the output's.
MlirBeforePad(op, dims) == Minus(dims, Widths(op, dims))

\* On memrefs the output is filled and the input copied into a view at the offsets; on
\* tensors each element tests whether it is inside.
MlirPadTerms(op, dims, o) ==
  LET low == Before(op, Len(dims))  size == MlirBeforePad(op, dims) IN
  IF \A d \in DOMAIN dims : low[d] <= o[d] /\ o[d] < low[d] + size[d]
  THEN {<<<<1, Minus(o, low)>>>>} ELSE {<< >>}

\* unpad copies a view of the input.
MlirUnpadTerms(op, dims, o) == {<<<<1, Plus(o, Before(op, Len(dims)))>>>>}

\* relu runs over the collapsed operands.
MlirReluTerms(in, o) == LET n == Flat(o, in[1]) IN {<<<<1, Unflat(n, in[1])>>>>}

MlirTerms(op, in, layouts, o) ==
  LET dims == Dims(op, in).sizes IN
  CASE op.name = "matmul" -> MlirMatmulTerms(dims, layouts, o)
    [] op.name = "conv2d" -> MlirConv2DTerms(op, dims, o)
    [] op.name \in {"pad", "pad2d"} -> MlirPadTerms(op, dims, o)
    [] op.name = "unpad"  -> MlirUnpadTerms(op, dims, o)
    [] op.name = "relu"   -> MlirReluTerms(in, o)

MlirAxes(op, dims) ==
  CASE op.name = "matmul" -> MatmulAxes
    [] op.name = "conv2d" -> Conv2DAxes
    [] op.name = "pad2d"  -> SubSeq(<<"b", "h", "w", "c">>, 1, Len(dims))
    [] OTHER -> SubSeq(Letters, 1, Len(dims))

MlirDims(op, in) ==
  LET dims == Dims(op, in) IN Space(MlirAxes(op, dims.sizes), dims.sizes, dims.reductions)

-----------------------------------------------------------------------------
(* TVM *)

TvmNames == {"matmul", "relu", "conv2d", "pad", "pad2d", "unpad", "transpose"}

\* No layouts at all; a pad needs a condition; transpose looks its axes up from 0.
TvmAccepts(op, in, layouts) ==
  LET rank == Len(in[1]) IN
  /\ op.name \in TvmNames
  /\ \A n \in DOMAIN in : layouts[n] = << >>
  /\ CASE op.name = "conv2d"    -> Len(op.stride) = 2 /\ rank = 4
       [] op.name = "pad2d"     -> rank = 4 /\ op.padding.entries # << >>
       [] op.name = "pad"       -> op.padding.all \/ op.padding.entries # << >>
       [] op.name = "transpose" -> op.axes = << >> \/ Range(op.axes) = 0 .. rank - 1
       [] OTHER                 -> TRUE

\* matmul reshapes its operands to matrices first.
TvmMatmulTerms(in, dims, o) ==
  LET a == <<Head(in[1]), Mulall(Tail(in[1]))>>
      b == <<Mulall(SubSeq(in[2], 1, Len(in[2]) - 1)), Last(in[2])>>
      read(n, index, view) == <<n, Unflat(Flat(index, view), in[n])>>
  IN {<<read(1, <<o[1], k>>, a), read(2, <<k, o[2]>>, b)>> : k \in 0 .. dims[3] - 1}

TvmConv2DTerms(op, dims, o) ==
  {<<<<1, <<o[1], o[2] * op.stride[1] + w[1], o[3] * op.stride[2] + w[2], w[3]>>>>,
     <<2, w \o <<o[4]>>>>>> : w \in Indexes(SubSeq(dims, 5, 7))}

\* Each entry shifts the index and tests it: on its own for the test, together for the read.
TvmPadTerms(op, dims, o) ==
  LET size == Minus(dims, Widths(op, dims))
      inside(d, low) == 0 <= o[d] - low /\ o[d] - low < size[d]
  IN IF \A d \in DOMAIN dims :
          LET entries == EntriesOf(op, Len(dims), d)
          IN \A p \in DOMAIN entries : inside(d, entries[p][1])
     THEN {<<<<1, Minus(o, BeforeAll(op, Len(dims)))>>>>} ELSE {<< >>}

\* transpose computes one flat loop and takes its counter apart from the innermost axis
\* of the output; in_axes gives each input axis its place.
TvmTransposeTerms(op, in, o) ==
  LET out  == OutShape(op, in)
      rank == Len(in[1])
      axes == IF op.axes = << >> THEN [d \in 1 .. rank |-> rank - d] ELSE op.axes
      flat == Flat(o, out)
      index(d) == (flat \div Mulall(SubSeq(out, d + 1, rank))) % out[d]
  IN {<<<<1, [a \in 1 .. rank |-> index(CHOOSE d \in 1 .. rank : axes[d] = a - 1)]>>>>}

TvmUnpadTerms(op, dims, o) == {<<<<1, Plus(o, BeforeAll(op, Len(dims)))>>>>}

TvmReluTerms(o) == {<<<<1, o>>>>}

TvmTerms(op, in, o) ==
  LET dims == Dims(op, in).sizes IN
  CASE op.name = "matmul" -> TvmMatmulTerms(in, dims, o)
    [] op.name = "conv2d" -> TvmConv2DTerms(op, dims, o)
    [] op.name \in {"pad", "pad2d"} -> TvmPadTerms(op, dims, o)
    [] op.name = "unpad"  -> TvmUnpadTerms(op, dims, o)
    [] op.name = "transpose" -> TvmTransposeTerms(op, in, o)
    [] op.name = "relu"   -> TvmReluTerms(o)

\* relu keeps the rank of its input.
TvmDims(op, in) ==
  CASE op.name = "relu"  -> Space(SubSeq(Letters, 1, Len(in[1])), in[1], {})
    [] op.name = "pad2d" -> Space(<<"b", "h", "w", "c">>, Dims(op, in).sizes, {})
    [] op.name \in {"pad", "unpad"} ->
         Space(SubSeq(Letters, 1, Len(in[1])), Dims(op, in).sizes, {})
    [] OTHER -> Dims(op, in)

-----------------------------------------------------------------------------
(* JIR: one program for matmul, O += A * B over II, JJ, KK, on plain buffers. *)

\* No test of the layout: the elements are read in the order they are stored.
JirAccepts(op) == op.name = "matmul"

JirTerms(op, in, layouts, o) ==
  LET dims == Dims(op, in).sizes
      stored(n) == StoredShape(in[n], layouts[n])
      read(n, index, view) ==
        <<n, StoredElement(Unflat(Flat(index, view), stored(n)), layouts[n])>>
  IN {<<read(1, <<o[1], k>>, <<dims[1], dims[3]>>), read(2, <<k, o[2]>>, <<dims[3], dims[2]>>)>> :
        k \in 0 .. dims[3] - 1}

JirDims(op, in) == Space(MatmulAxes, Dims(op, in).sizes, {"k"})
=============================================================================
