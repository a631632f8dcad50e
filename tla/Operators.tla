------------------------------ MODULE Operators ------------------------------
(***************************************************************************)
(* The operators of graphs/xtc/operators.py on tensors of known shape.      *)
(*                                                                          *)
(* A call is what op_factory receives; Operator is the object its           *)
(* constructor leaves.  A padding argument is a sequence of items (an int   *)
(* <<n>> or a pair <<before, after>>) of one of the forms "int", "seq" and  *)
(* "dict", the items of a dict with their axes.  Indices start at 0, axes   *)
(* may be negative, as in the code.  A term is the sequence of elements,    *)
(* <<input, index>>, that are multiplied; << >> is the padding's constant.  *)
(***************************************************************************)
LOCAL INSTANCE Integers
LOCAL INSTANCE Sequences
LOCAL INSTANCE FiniteSets
LOCAL INSTANCE FiniteSetsExt
LOCAL INSTANCE SequencesExt
LOCAL INSTANCE Functions

Mulall(seq) == FoldLeft(LAMBDA x, y : x * y, 1, seq)

\* Python's position of an axis in a list of n.
Position(axis, n) == (IF axis < 0 THEN n + axis ELSE axis) + 1

Front3(shape) == SubSeq(shape, 1, Len(shape) - 3)

\* numpy's order of the elements of an array.
Indexes(shape) ==
  {o \in [DOMAIN shape -> 0 .. Max({0} \cup ToSet(shape))] : \A d \in DOMAIN shape : o[d] < shape[d]}

Flat(o, shape) == FoldLeftDomain(LAMBDA n, d : n * shape[d] + o[d], 0, shape)

Unflat(n, shape) ==
  [d \in DOMAIN shape |-> (n \div Mulall(SubSeq(shape, d + 1, Len(shape)))) % shape[d]]

-----------------------------------------------------------------------------
(* Constructors. *)

PairOf(item) == IF Len(item) = 1 THEN item \o item ELSE item

Entry(axis, item) == [axis |-> axis, pad |-> PairOf(item)]

\* Every axis is padded alike, or those of the entries are.
Uniform(pad) == [all |-> TRUE, pad |-> pad, entries |-> << >>]

PerAxis(entries) ==
  [all |-> FALSE, pad |-> << >>, entries |-> SelectSeq(entries, LAMBDA e : e.pad # <<0, 0>>)]

Ints(arg, n) == Len(arg.items) = n /\ \A p \in 1 .. n : Len(arg.items[p]) = 1

DictEntries(arg) == [p \in DOMAIN arg.items |-> Entry(arg.axes[p], arg.items[p])]

\* pad, unpad: one int or two pad every axis, a longer sequence the last axes.
PadArg(arg) ==
  CASE arg.form = "dict" -> PerAxis(DictEntries(arg))
    [] arg.form = "int" \/ Ints(arg, 2) -> Uniform(arg.items[1] \o Last(arg.items))
    [] OTHER -> PerAxis([p \in DOMAIN arg.items |->
                           Entry(-(Len(arg.items) - p + 1), arg.items[p])])

\* pad2d takes one item, two ints (before, after), two pairs or four ints for two axes.
Pad2DAccepts(arg) ==
  \/ arg.form = "int"
  \/ arg.form = "dict" /\ Len(arg.items) = 2
  \/ /\ arg.form = "seq"
     /\ \/ Len(arg.items) \in {1, 4}
        \/ Ints(arg, 2)
        \/ Len(arg.items) = 2 /\ \A p \in 1 .. 2 : Len(arg.items[p]) = 2

Pad2DArg(arg, axes) ==
  LET v == arg.items
      both(p, q) == PerAxis(<<Entry(axes[1], p), Entry(axes[2], q)>>)
  IN CASE arg.form = "dict" -> PerAxis(DictEntries(arg))
       [] Len(v) = 1        -> both(v[1], v[1])
       [] Ints(arg, 2)      -> both(v[1] \o v[2], v[1] \o v[2])
       [] Len(v) = 2        -> both(v[1], v[2])
       [] OTHER             -> both(v[1] \o v[2], v[3] \o v[4])

\* What the constructor of a call accepts.
Constructs(call) ==
  CASE call.name = "pad2d"   -> Pad2DAccepts(call.padding) /\ call.axes[1] # call.axes[2]
    [] call.name = "reshape" -> Cardinality({d \in DOMAIN call.shape : call.shape[d] = -1}) <= 1
    [] OTHER                 -> TRUE

Operator(call) ==
  CASE call.name \in {"pad", "unpad"} -> [name |-> call.name, padding |-> PadArg(call.padding)]
    [] call.name = "pad2d" ->
         [name |-> "pad2d", padding |-> Pad2DArg(call.padding, call.axes)]
    [] OTHER -> call

-----------------------------------------------------------------------------
(* Padding of a shape. *)

EntriesOf(op, rank, d) ==
  IF op.padding.all THEN <<op.padding.pad>>
  ELSE LET here == SelectSeq(op.padding.entries, LAMBDA e : Position(e.axis, rank) = d)
       IN [p \in DOMAIN here |-> here[p].pad]

\* All entries of an axis are added to its size, the last one is where it is padded.
Widths(op, shape) ==
  [d \in DOMAIN shape |->
     FoldLeft(LAMBDA n, pad : n + pad[1] + pad[2], 0, EntriesOf(op, Len(shape), d))]

Before(op, rank) ==
  [d \in 1 .. rank |-> LET e == EntriesOf(op, rank, d) IN IF e = << >> THEN 0 ELSE Last(e)[1]]

\* The same, the entries of an axis added up.
BeforeAll(op, rank) ==
  [d \in 1 .. rank |-> FoldLeft(LAMBDA n, pad : n + pad[1], 0, EntriesOf(op, rank, d))]

After(op, rank) ==
  [d \in 1 .. rank |-> LET e == EntriesOf(op, rank, d) IN IF e = << >> THEN 0 ELSE Last(e)[2]]

AxesInBounds(op, rank) ==
  \A p \in DOMAIN op.padding.entries :
    -rank <= op.padding.entries[p].axis /\ op.padding.entries[p].axis < rank

Plus(u, v)  == [d \in DOMAIN u |-> u[d] + v[d]]
Minus(u, v) == [d \in DOMAIN u |-> u[d] - v[d]]

-----------------------------------------------------------------------------
(* forward_types: whether the assertions hold, and the shape of the output. *)

MatmulK(shape)  == Mulall(Tail(shape))
MatmulBK(shape) == Mulall(SubSeq(shape, 1, Len(shape) - 1))

\* The last three sizes of an image: h, w and c.
Image(shape) == SubSeq(shape, Len(shape) - 2, Len(shape))

\* An int is the stride of both axes.
Stride(op) == PairOf(op.stride)

\* Mutant: a window that does not fit is counted.
ConvSizeUp(op, inp, weight) ==
  [d \in 1 .. 2 |-> (Image(inp)[d] - weight[d] + Stride(op)[d] - 1) \div Stride(op)[d] + 1]

ConvSize(op, inp, weight) ==
  [d \in 1 .. 2 |-> (Image(inp)[d] - weight[d]) \div Stride(op)[d] + 1]

TypesAccept(op, in) ==
  CASE op.name = "matmul" ->
         Len(in[1]) >= 2 /\ Len(in[2]) >= 2 /\ MatmulK(in[1]) = MatmulBK(in[2])
    [] op.name = "conv2d" ->
         Len(in[1]) >= 3 /\ Len(in[2]) = 4 /\ Last(in[1]) = in[2][3]
    [] op.name \in {"pad", "pad2d", "unpad"} ->
         Len(in[1]) >= 2 /\ AxesInBounds(op, Len(in[1]))
    [] op.name = "transpose" -> op.axes = << >> \/ Len(op.axes) = Len(in[1])
    [] OTHER -> TRUE

\* Where axis d of a transposed output comes from.
Source(op, rank) ==
  IF op.axes = << >> THEN [d \in 1 .. rank |-> rank + 1 - d]
  ELSE [d \in 1 .. rank |-> Position(op.axes[d], rank)]

MatmulShape(in) == <<Head(in[1]), Last(in[2])>>

Conv2DShape(op, in) == Front3(in[1]) \o ConvSize(op, in[1], in[2]) \o <<in[2][4]>>

PadShape(op, in)   == Plus(in[1], Widths(op, in[1]))
UnpadShape(op, in) == Minus(in[1], Widths(op, in[1]))

TransposeShape(op, in) == [d \in DOMAIN in[1] |-> in[1][Source(op, Len(in[1]))[d]]]

\* -1 stands for what is left; nothing else is compared with the input.
ReshapeShape(op, in) ==
  LET fixed == Mulall(SelectSeq(op.shape, LAMBDA n : n # -1)) IN
  [d \in DOMAIN op.shape |->
     IF op.shape[d] = -1 THEN Mulall(in[1]) \div fixed ELSE op.shape[d]]

OutShape(op, in) ==
  CASE op.name = "relu"      -> in[1]
    [] op.name = "matmul"    -> MatmulShape(in)
    [] op.name = "conv2d"    -> Conv2DShape(op, in)
    [] op.name \in {"pad", "pad2d"} -> PadShape(op, in)
    [] op.name = "unpad"     -> UnpadShape(op, in)
    [] op.name = "transpose" -> TransposeShape(op, in)
    [] op.name = "reshape"   -> ReshapeShape(op, in)

-----------------------------------------------------------------------------
(* forward: numpy's result; it raises where types and arrays disagree. *)

\* slice(before, size - after) of an axis.
SliceSize(size, before, after) ==
  LET bound(n) == IF n < 0 THEN Max({0, n + size}) ELSE Min({n, size})
  IN Max({0, bound(size - after) - bound(before)})

Forwards(op, in) ==
  LET out == OutShape(op, in)  rank == Len(in[1]) IN
  /\ \A d \in DOMAIN out : out[d] >= 0
  /\ CASE op.name \in {"pad", "pad2d"} ->
            out = Plus(in[1], Plus(Before(op, rank), After(op, rank)))
       [] op.name = "unpad" ->
            out = [d \in 1 .. rank |-> SliceSize(in[1][d], Before(op, rank)[d], After(op, rank)[d])]
       [] op.name = "reshape" -> Mulall(out) = Mulall(in[1])
       [] op.name = "transpose" -> Range(Source(op, rank)) = 1 .. rank
       [] OTHER -> TRUE

MatmulTerms(in, o) ==
  LET k == MatmulK(in[1])  j == Last(in[2]) IN
  {<<<<1, Unflat(o[1] * k + n, in[1])>>, <<2, Unflat(n * j + o[2], in[2])>>>> : n \in 0 .. k - 1}

\* The window of the input under the filter o[f], the leading axes as one batch.
ConvTerms(op, in, o) ==
  LET n == Len(in[1])  oh == o[n - 2]  ow == o[n - 1]
      at(w) == SubSeq(o, 1, n - 3) \o <<oh * Stride(op)[1] + w[1], ow * Stride(op)[2] + w[2], w[3]>>
  IN {<<<<1, at(w)>>, <<2, w \o <<o[n]>>>>>> : w \in Indexes(SubSeq(in[2], 1, 3))}

PadTerms(op, in, o) ==
  LET i == Minus(o, Before(op, Len(in[1]))) IN
  IF \A d \in DOMAIN i : 0 <= i[d] /\ i[d] < in[1][d] THEN {<<<<1, i>>>>} ELSE {<< >>}

TransposeTerms(op, in, o) ==
  LET from == Source(op, Len(in[1])) IN
  {<<<<1, [a \in DOMAIN in[1] |-> o[CHOOSE d \in DOMAIN from : from[d] = a]]>>>>}

UnpadTerms(op, in, o) == {<<<<1, Plus(o, Before(op, Len(in[1])))>>>>}

ReshapeTerms(op, in, o) == {<<<<1, Unflat(Flat(o, ReshapeShape(op, in)), in[1])>>>>}

\* The terms whose sum is element o of the output.
Terms(op, in, o) ==
  CASE op.name = "matmul"    -> MatmulTerms(in, o)
    [] op.name = "conv2d"    -> ConvTerms(op, in, o)
    [] op.name \in {"pad", "pad2d"} -> PadTerms(op, in, o)
    [] op.name = "unpad"     -> UnpadTerms(op, in, o)
    [] op.name = "transpose" -> TransposeTerms(op, in, o)
    [] op.name = "reshape"   -> ReshapeTerms(op, in, o)
    [] op.name = "relu"      -> {<<<<1, o>>>>}

-----------------------------------------------------------------------------
(* get_operation: the iteration space strategies and back ends are given. *)

Space(names, sizes, reductions) == [names |-> names, sizes |-> sizes, reductions |-> reductions]

MatmulDims(in) ==
  Space(<<"i", "j", "k">>, <<Head(in[1]), Last(in[2]), MatmulK(in[1])>>, {"k"})

\* Mutant: a batch of several images counts once.
Conv2DDimsOneBatch(op, in) ==
  Space(<<"b", "h", "w", "f", "r", "s", "c">>,
        <<1>> \o ConvSize(op, in[1], in[2]) \o <<in[2][4]>> \o SubSeq(in[2], 1, 3),
        {"r", "s", "c"})

Conv2DDims(op, in) ==
  Space(<<"b", "h", "w", "f", "r", "s", "c">>,
        <<Mulall(Front3(in[1]))>> \o ConvSize(op, in[1], in[2]) \o <<in[2][4]>>
          \o SubSeq(in[2], 1, 3),
        {"r", "s", "c"})

\* A pad's dimensions are d0, d1...
PadDims(op, in) == LET out == OutShape(op, in) IN Space([d \in DOMAIN out |-> d], out, {})

Dims(op, in) ==
  CASE op.name = "matmul" -> MatmulDims(in)
    [] op.name = "conv2d" -> Conv2DDims(op, in)
    [] op.name \in {"pad", "pad2d", "unpad"} -> PadDims(op, in)
    [] OTHER -> Space(<<"i">>, <<Mulall(in[1])>>, {})

\* The access maps: the input elements and the output element of a point p of the space.
\* Only those of matrices, of single images with a batch and of paddings are filled in.
HasMaps(op, in) ==
  CASE op.name = "matmul" -> Len(in[1]) = 2 /\ Len(in[2]) = 2
    [] op.name = "conv2d" -> Len(in[1]) = 4
    [] OTHER -> op.name \in {"pad", "pad2d", "unpad"}

InputsAt(op, in, p) ==
  CASE op.name = "matmul" -> <<<<1, <<p[1], p[3]>>>>, <<2, <<p[3], p[2]>>>>>>
    [] op.name = "conv2d" ->
         LET s == Stride(op) IN
         <<<<1, <<p[1], p[2] * s[1] + p[5], p[3] * s[2] + p[6], p[7]>>>>,
           <<2, <<p[5], p[6], p[7], p[4]>>>>>>
    [] op.name = "unpad" -> <<<<1, Plus(p, BeforeAll(op, Len(p)))>>>>
    [] OTHER             -> <<<<1, Minus(p, BeforeAll(op, Len(p)))>>>>

OutputAt(op, p) ==
  CASE op.name = "matmul" -> <<p[1], p[2]>>
    [] op.name = "conv2d" -> SubSeq(p, 1, 4)
    [] OTHER -> p
=============================================================================
