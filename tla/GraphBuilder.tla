------------------------------- MODULE GraphBuilder --------------------------------
(***************************************************************************)
(* Building, typing and reloading graphs of operators (graphs/xtc): calls   *)
(* of op_factory append expressions to the open scopes of their thread;     *)
(* leaving a builder turns its scope into a graph of nodes and forwards the *)
(* types through it; a graph is written to a dictionary and built again     *)
(* from it.  The nodes are kept by expression in a map that all threads     *)
(* share.  The first scope of a thread never becomes a graph and is left    *)
(* out.                                                                     *)
(***************************************************************************)
EXTENDS BackendOps, Integers, Sequences, FiniteSets, FiniteSetsExt, SequencesExt, Functions

CONSTANTS
  Threads,
  Programs,     \* what may be called, by thread: records of the types, the calls and the
                \* bounds on the tensors, the operators and the builders open at a time,
                \* and whether tensors are made while one is open
  MaxLoads      \* bound: graphs loaded

VARIABLES
  program,      \* what this behaviour may call: constant
  exprs,        \* XTCExpr._idx_map, and whether the call had a name; expression n has the uid %n
  scopes,       \* XTCGraphScopes of each thread, innermost last
  nodes,        \* the XTCNode objects, _node_uid_map: their expression, whether they have its
                \* name, their types and, for the properties, the thread that makes them
  nodeOf,       \* XTCGraphScope._expr_nodes_map
  build,        \* the graph a thread is making out of a scope
  graphs,       \* the graphs made
  loads         \* what became of the graphs that were loaded

vars == <<program, exprs, scopes, nodes, nodeOf, build, graphs, loads>>

TensorExpr(type) == [call |-> [name |-> "tensor"], args |-> << >>, type |-> type, named |-> FALSE]

OpExpr(call, args, named) ==
  [call |-> call, args |-> args, type |-> [shape |-> << >>, layout |-> << >>], named |-> named]

IsTensor(e) == exprs[e].call.name = "tensor"

EmptyScope == [exprs |-> << >>, inputs |-> << >>, outputs |-> << >>, from |-> 0]

Idle == [todo |-> << >>, got |-> << >>, at |-> "look", scope |-> EmptyScope]

Init ==
  /\ program \in Programs
  /\ exprs = << >> /\ nodes = << >> /\ nodeOf = << >> /\ graphs = << >> /\ loads = << >>
  /\ scopes = [t \in Threads |-> << >>]
  /\ build = [t \in Threads |-> Idle]

Free(t) == build[t] = Idle

-----------------------------------------------------------------------------
(* op_factory: expressions are counted under a lock and appended to every scope. *)

Appended(t, es) ==
  scopes' = [scopes EXCEPT ![t] = [d \in DOMAIN @ |-> [@[d] EXCEPT !.exprs = @ \o es]]]

NewExpr(t, expr) ==
  /\ Free(t) /\ loads = << >>
  /\ exprs' = Append(exprs, expr)
  /\ Appended(t, <<Len(exprs) + 1>>)
  /\ UNCHANGED <<program, nodes, nodeOf, build, graphs, loads>>

Made(tensors) == Cardinality({e \in DOMAIN exprs : IsTensor(e) = tensors})

Tensor(t) ==
  /\ Made(TRUE) < program[t].tensors /\ (program[t].inside \/ scopes[t] = << >>)
  /\ \E type \in program[t].types : NewExpr(t, TensorExpr(type))

Arity(call) == IF call.name \in {"matmul", "conv2d"} THEN 2 ELSE 1

\* The arguments are any expressions, whoever made them.
Apply(t) ==
  /\ scopes[t] # << >> /\ Made(FALSE) < program[t].operators
  /\ \E call \in program[t].calls :
       /\ Constructs(call)
       /\ \E args \in [1 .. Arity(call) -> DOMAIN exprs] :
            NewExpr(t, OpExpr(call, args, TRUE))

Enter(t) ==
  /\ Free(t) /\ Len(scopes[t]) < program[t].depth /\ loads = << >>
  /\ graphs = << >> \/ scopes[t] # << >>
  /\ scopes' = [scopes EXCEPT ![t] = Append(@, EmptyScope)]
  /\ UNCHANGED <<program, exprs, nodes, nodeOf, build, graphs, loads>>

\* outputs(e) on the innermost scope; bound: once, of an expression that is used.
Outputs(t) ==
  /\ Free(t) /\ scopes[t] # << >> /\ loads = << >>
  /\ Last(scopes[t]).outputs = << >>
  /\ \E e \in ToSet(Last(scopes[t]).exprs) :
       /\ \E u \in ToSet(Last(scopes[t]).exprs) : e \in ToSet(exprs[u].args)
       /\ scopes' = [scopes EXCEPT ![t][Len(scopes[t])].outputs = <<e>>]
  /\ UNCHANGED <<program, exprs, nodes, nodeOf, build, graphs, loads>>

-----------------------------------------------------------------------------
(* XTCGraphScope: what a scope leaves to its graph. *)

Unique(seq) ==
  FoldLeft(LAMBDA s, e : IF e \in ToSet(s) THEN s ELSE Append(s, e), << >>, seq)

Uses(scope) == FlattenSeq([p \in DOMAIN scope.exprs |-> exprs[scope.exprs[p]].args])

\* Mutant: arguments that are defined in the scope are inputs too.
InferInputsAll(scope) == Unique(scope.inputs \o SetToSortSeq(ToSet(Uses(scope)), <))

\* Arguments not defined here, in the order of their numbers.
InferInputs(scope) ==
  Unique(scope.inputs \o SetToSortSeq(ToSet(Uses(scope)) \ ToSet(scope.exprs), <))

\* What is asked for, then what nothing in the scope uses.
InferOutputs(scope) ==
  Unique(scope.outputs \o SelectSeq(scope.exprs, LAMBDA e : e \notin ToSet(Uses(scope))))

Exit(t) ==
  /\ Free(t) /\ scopes[t] # << >> /\ Last(scopes[t]).exprs # << >>
  /\ LET scope == Last(scopes[t]) IN
       build' = [build EXCEPT ![t] =
         [todo |-> scope.exprs \o InferInputs(scope) \o InferOutputs(scope),
          got |-> << >>, at |-> "look", scope |-> scope]]
  /\ scopes' = [scopes EXCEPT ![t] = SubSeq(@, 1, Len(@) - 1)]
  /\ UNCHANGED <<program, exprs, nodes, nodeOf, graphs, loads>>

\* _node_from_expr: an expression without a node gets one.  The lock is made for the call,
\* that of another thread is a different one.
Lookup(t) ==
  LET b == build[t] IN
  /\ b.todo # << >> /\ b.at = "look"
  /\ build' = [build EXCEPT ![t] =
       IF Head(b.todo) \in DOMAIN nodeOf
       THEN [b EXCEPT !.todo = Tail(@), !.got = Append(@, nodeOf[Head(b.todo)])]
       ELSE [b EXCEPT !.at = "missing"]]
  /\ UNCHANGED <<program, exprs, scopes, nodes, nodeOf, graphs, loads>>

\* The node gets the name of the call only where the call is one of the scope's: an
\* inner graph that has it for input or output names it by its uid.
CreateNode(t) ==
  LET b == build[t] IN
  /\ b.at = "missing"
  /\ nodes' = Append(nodes,
       [expr |-> Head(b.todo), by |-> t,
        named |-> exprs[Head(b.todo)].named /\ Len(b.got) < Len(b.scope.exprs),
        typed |-> FALSE, in |-> << >>, out |-> << >>])
  /\ build' = [build EXCEPT ![t].at = "made"]
  /\ UNCHANGED <<program, exprs, scopes, nodeOf, graphs, loads>>

\* The new node goes into the map, over one that another thread has put there meanwhile; what
\* is returned is read from the map again.
AssignNode(t) ==
  LET b == build[t]  e == Head(b.todo) IN
  /\ b.at = "made"
  /\ nodeOf' = [x \in DOMAIN nodeOf \cup {e} |->
                  IF x = e THEN Max({n \in DOMAIN nodes : nodes[n].by = t}) ELSE nodeOf[x]]
  /\ build' = [build EXCEPT ![t].at = "look"]
  /\ UNCHANGED <<program, exprs, scopes, nodes, graphs, loads>>

-----------------------------------------------------------------------------
(* XTCGraphUtils and XTCGraph.forward_types. *)

\* XTCNode._get_node: the node last made for an expression.
Registered(e) == Max({n \in DOMAIN nodes : nodes[n].expr = e})

Preds(n) == Unique([p \in DOMAIN exprs[nodes[n].expr].args |->
                      Registered(exprs[nodes[n].expr].args[p])])

RECURSIVE ReverseWalk(_, _, _)
ReverseWalk(walk, n, all) ==
  IF n \in ToSet(walk) \/ n \notin all THEN walk
  ELSE Append(FoldLeft(LAMBDA w, p : ReverseWalk(w, p, all), walk, Preds(n)), n)

\* From the nodes that no node uses.
Topological(ns) ==
  LET used == UNION {ToSet(Preds(n)) : n \in ToSet(ns)}
      outputs == SelectSeq(ns, LAMBDA n : n \notin used)
  IN FoldLeft(LAMBDA walk, n : ReverseWalk(walk, n, ToSet(ns)), << >>, outputs)

\* One node after the other; the first that does not accept its inputs raises.
ForwardNode(state, n) ==
  LET e == nodes[n].expr
      known == \A p \in DOMAIN exprs[e].args : exprs[e].args[p] \in DOMAIN state.of
      in == [p \in DOMAIN exprs[e].args |-> state.of[exprs[e].args[p]]]
      typed(out) == [ok |-> TRUE, of |-> [x \in DOMAIN state.of \cup {e} |->
                                            IF x = e THEN out ELSE state.of[x]],
                     in |-> [x \in DOMAIN state.in \cup {n} |-> IF x = n THEN in ELSE state.in[x]]]
  IN IF ~state.ok THEN state
     ELSE IF IsTensor(e) THEN typed(exprs[e].type.shape)
     ELSE IF known /\ TypesAccept(Operator(exprs[e].call), in)
          THEN typed(OutShape(Operator(exprs[e].call), in))
     ELSE [state EXCEPT !.ok = FALSE]

ForwardTypes(ns, inputs) ==
  FoldLeft(ForwardNode,
           [ok |-> TRUE, of |-> [e \in ToSet(inputs) |-> exprs[e].type.shape], in |-> << >>],
           Topological(ns))

\* Types are forwarded if all inputs are tensors; if that raises the builder has no graph.
Finish(t) ==
  LET b == build[t]
      here == Len(b.scope.exprs)
      ns == SubSeq(b.got, 1, here)
      inputs == InferInputs(b.scope)
      tensors == \A e \in ToSet(inputs) : IsTensor(e)
      types == ForwardTypes(ns, inputs)
  IN
  /\ b # Idle /\ b.todo = << >>
  /\ build' = [build EXCEPT ![t] = Idle]
  /\ graphs' = Append(graphs,
       [nodes |-> ns, inputs |-> inputs, outputs |-> InferOutputs(b.scope),
        outNodes |-> SubSeq(b.got, here + Len(inputs) + 1, Len(b.got)),
        status |-> IF ~tensors THEN "untyped" ELSE IF types.ok THEN "typed" ELSE "raised",
        from |-> b.scope.from])
  /\ nodes' = IF ~tensors THEN nodes
              ELSE [n \in DOMAIN nodes |->
                      IF n \in DOMAIN types.in
                      THEN [nodes[n] EXCEPT !.typed = TRUE, !.in = types.in[n],
                                            !.out = types.of[nodes[n].expr]]
                      ELSE nodes[n]]
  /\ UNCHANGED <<program, exprs, scopes, nodeOf, loads>>

-----------------------------------------------------------------------------
(* to_dict and from_dict: a graph written and built again. *)

\* The attributes of an operator as the arguments of a call: lists become tuples, a
\* padding of single axes stays a dictionary; pad2d's axes are not kept.
PaddingAttr(padding) ==
  IF padding.all
  THEN [form |-> "seq", items |-> <<<<padding.pad[1]>>, <<padding.pad[2]>>>>, axes |-> << >>]
  ELSE [form |-> "dict", items |-> [p \in DOMAIN padding.entries |-> padding.entries[p].pad],
        axes |-> [p \in DOMAIN padding.entries |-> padding.entries[p].axis]]

Attributes(op) ==
  CASE op.name \in {"pad", "unpad"} -> [name |-> op.name, padding |-> PaddingAttr(op.padding)]
    [] op.name = "pad2d" ->
         [name |-> "pad2d", padding |-> PaddingAttr(op.padding), axes |-> <<-3, -2>>]
    [] OTHER -> op

Written(g) == [p \in DOMAIN g.nodes |-> nodes[g.nodes[p]].expr]

\* Inputs are read as tensors, nodes as operators; the uids are relative to the first input.
CanLoad(g) ==
  /\ g.inputs # << >>
  /\ \A e \in ToSet(g.inputs) : IsTensor(e)
  /\ \A e \in ToSet(Written(g)) :
       ~IsTensor(e) /\ Constructs(Attributes(Operator(exprs[e].call)))

\* Mutant: the arguments of a call are read from the last one.
LoadedExprsReversed(g) ==
  LET old == g.inputs \o Written(g)
      new(e) == Len(exprs) + CHOOSE p \in DOMAIN old : old[p] = e
  IN [p \in DOMAIN old |->
        IF p <= Len(g.inputs)
        THEN TensorExpr([shape |-> exprs[old[p]].type.shape, layout |-> << >>])
        ELSE OpExpr(Attributes(Operator(exprs[old[p]].call)),
                    Reverse([a \in DOMAIN exprs[old[p]].args |-> new(exprs[old[p]].args[a])]),
                    nodes[g.nodes[p - Len(g.inputs)]].named)]

\* The type of an input is written without its layout, a node without a name if it is its uid.
LoadedExprs(g) ==
  LET old == g.inputs \o Written(g)
      new(e) == Len(exprs) + CHOOSE p \in DOMAIN old : old[p] = e
  IN [p \in DOMAIN old |->
        IF p <= Len(g.inputs)
        THEN TensorExpr([shape |-> exprs[old[p]].type.shape, layout |-> << >>])
        ELSE OpExpr(Attributes(Operator(exprs[old[p]].call)),
                    [a \in DOMAIN exprs[old[p]].args |-> new(exprs[old[p]].args[a])],
                    nodes[g.nodes[p - Len(g.inputs)]].named)]

Load(t, n) ==
  LET g   == graphs[n]
      old == g.inputs \o Written(g)
      new(e) == Len(exprs) + CHOOSE p \in DOMAIN old : old[p] = e
      renumbered(es) == [p \in DOMAIN es |-> new(es[p])]
  IN
  /\ Len(loads) < MaxLoads /\ g.from = 0 /\ g.status # "raised"
  /\ \A u \in Threads : Free(u) /\ scopes[u] = << >>
  /\ loads' = Append(loads, [from |-> n, ok |-> CanLoad(g)])
  /\ IF CanLoad(g)
     THEN /\ exprs' = exprs \o LoadedExprs(g)
          /\ scopes' = [scopes EXCEPT ![t] =
               <<[exprs |-> renumbered(Written(g)), inputs |-> renumbered(g.inputs),
                  outputs |-> renumbered(g.outputs), from |-> n]>>]
     ELSE UNCHANGED <<exprs, scopes>>
  /\ UNCHANGED <<program, nodes, nodeOf, build, graphs>>

Next ==
  \E t \in Threads :
    \/ Tensor(t) \/ Apply(t) \/ Enter(t) \/ Outputs(t) \/ Exit(t)
    \/ Lookup(t) \/ CreateNode(t) \/ AssignNode(t) \/ Finish(t)
    \/ \E n \in DOMAIN graphs : Load(t, n)

Spec == Init /\ [][Next]_vars

-----------------------------------------------------------------------------
(* Properties. *)

Position1(seq, e) == CHOOSE p \in DOMAIN seq : seq[p] = e

\* Two nodes of one expression, which only two threads can make.
Doubled(e) ==
  \E m, n \in DOMAIN nodes :
    nodes[m].expr = e /\ nodes[n].expr = e /\ nodes[m].by # nodes[n].by

\* However scopes nest and threads build at the same time, a graph is whole: its walk
\* meets every node once and after those it uses, whatever is used is a node or an input
\* and not both.  No thread makes two nodes of an expression, and the outputs of a graph are
\* nodes of it, but where two threads have each made a node of one expression: the other
\* puts its own into the map between the lookups of the nodes and of the outputs, and the
\* graph has an output that is none of its nodes, against what is asserted when it is printed.
GraphIsWhole ==
  /\ \A m, n \in DOMAIN nodes :
       nodes[m].expr = nodes[n].expr /\ nodes[m].by = nodes[n].by => m = n
  /\ \A n \in DOMAIN graphs :
       LET g == graphs[n]  walk == Topological(g.nodes)  mine == Written(g) IN
       /\ Len(walk) = Len(g.nodes) /\ ToSet(walk) = ToSet(g.nodes) /\ IsInjective(mine)
       /\ [p \in DOMAIN g.outNodes |-> nodes[g.outNodes[p]].expr] = g.outputs
       /\ \A m \in ToSet(g.outNodes) : m \in ToSet(g.nodes) \/ Doubled(nodes[m].expr)
       /\ ToSet(g.inputs) \cap ToSet(mine) = {}
       /\ \A p \in DOMAIN walk :
            \A a \in ToSet(exprs[nodes[walk[p]].expr].args) :
              \/ a \in ToSet(g.inputs)
              \/ \E q \in 1 .. p - 1 : nodes[walk[q]].expr = a

\* A graph that loads is the graph that was written, but for the numbers of its expressions:
\* the same operators on the same arguments, the same inputs, outputs and names, and the same
\* shapes.  The inputs have the types they had without their layouts, which are not written;
\* nor are devices and constness, which the model leaves out.
LoadedIsTheSame ==
  \A n \in DOMAIN graphs :
    graphs[n].from # 0 =>
      LET new == graphs[n]  old == graphs[new.from]
          es(g) == g.inputs \o Written(g)
          places(g, list) == [p \in DOMAIN list |-> Position1(es(g), list[p])]
          plain(e) == [exprs[e].type EXCEPT !.layout = << >>]
          content(g) == [p \in DOMAIN g.nodes |->
            LET node == nodes[g.nodes[p]] IN
            [op |-> Operator(exprs[node.expr].call), args |-> places(g, exprs[node.expr].args),
             named |-> node.named, in |-> node.in, out |-> node.out]]
      IN /\ content(new) = content(old)
         /\ places(new, new.outputs) = places(old, old.outputs)
         /\ places(new, new.inputs) = places(old, old.inputs)
         /\ [p \in DOMAIN new.inputs |-> exprs[new.inputs[p]].type]
              = [p \in DOMAIN old.inputs |-> plain(old.inputs[p])]
         /\ new.status = old.status

\* The operator nodes whose types are forwarded and whose arrays numpy accepts; those of a
\* loaded graph are the same.
Evaluated ==
  {n \in DOMAIN nodes :
     /\ loads = << >>
     /\ nodes[n].typed /\ ~IsTensor(nodes[n].expr)
     /\ Forwards(Operator(exprs[nodes[n].expr].call), nodes[n].in)}

Op(n) == Operator(exprs[nodes[n].expr].call)

Layouts(n) ==
  [p \in DOMAIN exprs[nodes[n].expr].args |-> exprs[exprs[nodes[n].expr].args[p]].type.layout]

\* What a back end compiles for a node reads, for each element of the output, the elements
\* of the inputs that evaluating the graph reads, none outside of its input, whatever the
\* shapes, strides, paddings and layouts it accepts; JIR's buffers have no layout.
BackendsReadTheSame ==
  \A n \in Evaluated :
    LET op == Op(n)  in == nodes[n].in IN
    \A o \in Indexes(nodes[n].out) :
      LET terms == Terms(op, in, o) IN
      /\ \A term \in terms : \A r \in ToSet(term) : r[2] \in Indexes(in[r[1]])
      /\ MlirAccepts(op, in, Layouts(n)) => MlirTerms(op, in, Layouts(n), o) = terms
      /\ TvmAccepts(op, in, Layouts(n)) => TvmTerms(op, in, o) = terms
      /\ JirAccepts(op) /\ ToSet(Layouts(n)) = {<< >>} => JirTerms(op, in, Layouts(n), o) = terms

\* The dimensions strategies tile are the ones computed: those that are not reduced make up
\* the output, the reduced ones the terms of each element, and each back end's loops have
\* the same sizes.  Where access maps are filled in they name the terms.
DimsCoverTheOutput ==
  \A n \in Evaluated :
    LET op == Op(n)  in == nodes[n].in  dims == Dims(op, in)
        total(s, kept) == Mulall([d \in DOMAIN s.names |->
                            IF (s.names[d] \in s.reductions) = kept THEN s.sizes[d] ELSE 1])
        same(s) == \A kept \in BOOLEAN : total(s, kept) = total(dims, kept)
    IN /\ total(dims, FALSE) = Mulall(nodes[n].out)
       /\ \A o \in Indexes(nodes[n].out) : Cardinality(Terms(op, in, o)) = total(dims, TRUE)
       /\ MlirAccepts(op, in, Layouts(n)) => same(MlirDims(op, in))
       /\ TvmAccepts(op, in, Layouts(n)) => same(TvmDims(op, in))
       /\ JirAccepts(op) => same(JirDims(op, in))
       /\ HasMaps(op, in) =>
            \A p \in Indexes(dims.sizes) :
              LET terms == Terms(op, in, OutputAt(op, p)) IN
              InputsAt(op, in, p) \in terms \/ terms = {<< >>}

\* The same computation, whoever makes it: the same reads in the same loops.
BackendsComputeTheSame == BackendsReadTheSame /\ DimsCoverTheOutput
=============================================================================
