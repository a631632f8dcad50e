------------------------------- MODULE MCGraphBuilder ------------------------------
(* One thread that calls any operator on tensors of up to four axes, and two      *)
(* threads that share the expressions of the first.                               *)
EXTENDS GraphBuilder

Type(shape) == [shape |-> shape, layout |-> << >>]

Ints0(ns) == [p \in DOMAIN ns |-> <<ns[p]>>]

Arg(form, items) == [form |-> form, items |-> items, axes |-> << >>]

Dict(over, items) == [form |-> "dict", items |-> items, axes |-> over]

Padding(name, arg) == [name |-> name, padding |-> arg]

Pad2D(arg) == [name |-> "pad2d", padding |-> arg, axes |-> <<-3, -2>>]

Relu == [name |-> "relu", threshold |-> 0]

Matmul == [name |-> "matmul"]

Convs == {[name |-> "conv2d", stride |-> s] : s \in {<<1, 1>>, <<2, 1>>, <<2>>}}

Pads ==
  {Padding("pad", Arg("int", <<<<1>>>>)), Padding("pad", Arg("seq", Ints0(<<0, 1>>))),
   Padding("pad", Arg("seq", <<<<1>>, <<0, 2>>, <<0>>>>)),
   Padding("pad", Dict(<<1, -1>>, <<<<2, 0>>, <<1>>>>)),
   Pad2D(Arg("int", <<<<1>>>>)), Pad2D(Arg("seq", Ints0(<<1, 0>>))),
   Pad2D(Arg("seq", Ints0(<<1, 0, 0, 2>>))), Pad2D(Arg("seq", Ints0(<<1, 1, 0, 0>>))),
   Pad2D(Arg("seq", <<<<1, 0>>, <<1, 1>>>>))}

Unpads ==
  {Padding("unpad", Arg("seq", Ints0(<<1, 0>>))),
   Padding("unpad", Dict(<<0, -1>>, <<<<0, 1>>, <<1, 0>>>>))}

Moves ==
  {[name |-> "reshape", shape |-> <<-1>>], [name |-> "reshape", shape |-> <<2, -1>>],
   [name |-> "reshape", shape |-> <<3, 2, 2>>],
   [name |-> "transpose", axes |-> << >>], [name |-> "transpose", axes |-> <<1, 2, 0>>],
   [name |-> "transpose", axes |-> <<-1, 0>>]}

Shapes == {<<2, 3>>, <<3, 2>>, <<2, 2, 3>>, <<1, 3, 2, 2>>, <<2, 1, 2, 2>>}

Types == {Type(shape) : shape \in Shapes} \cup {[shape |-> <<3, 2>>, layout |-> <<1, 0>>]}

Program(types, calls, tensors, operators, depth, inside) ==
  [types |-> types, calls |-> calls, tensors |-> tensors, operators |-> operators,
   depth |-> depth, inside |-> inside]

Alone(one) == [t \in Threads |-> IF t = "a" THEN one ELSE Program({}, {}, 0, 0, 0, FALSE)]

\* Two threads on small matrices, each with expressions of the other.
Sharing ==
  [t \in Threads |-> IF t = "a" THEN Program({Type(<<2, 2>>)}, {Relu, Matmul}, 1, 2, 2, TRUE)
                     ELSE Program({}, {Relu}, 0, 2, 1, TRUE)]

\* One call of any kind, a pad before a convolution, and the two threads.
MCPrograms ==
  {Alone(Program(Types, {Relu, Matmul} \cup Convs \cup Pads \cup Unpads \cup Moves, 2, 1, 1, FALSE)),
   Alone(Program({Type(<<1, 3, 2, 2>>), Type(<<2, 1, 2, 2>>)},
                 {Pad2D(Arg("int", <<<<1>>>>))} \cup Convs, 2, 2, 1, FALSE)),
   Sharing}
=============================================================================
