-------------------------- MODULE MCStrategySearch --------------------------
(* Strategies on small matmuls, and on an operator with one reduction between     *)
(* three parallel axes; vectors of 2.                                             *)
EXTENDS StrategySearch

Op(over, par, size) == [axes |-> over, par |-> par, size |-> size]

Matmul(i, j, k) == Op(<<"i", "j", "k">>, {"i", "j"}, [i |-> i, j |-> j, k |-> k])

Conv(h, f, c) == Op(<<"h", "f", "c">>, {"h", "f"}, [h |-> h, f |-> f, c |-> c])

Args(unroll, threads) ==
  [scheme |-> << >>, vec |-> 2, maxUnroll |-> unroll, threads |-> threads,
   vregs |-> 2, l1 |-> 6, l2 |-> 12]

Scheme(scheme, op, arguments) == Create("prt", op, [arguments EXCEPT !.scheme = scheme])

MCSamples == Seq(Nat)

MCStrategies ==
  {Create("tile_prp", Matmul(2, 1, 3), Args(4, 1)),
   Create("tile_prp", Matmul(1, 3, 2), Args(-1, 1)),
   Create("tile1d", Matmul(4, 6, 2), Args(4, 2)),
   Create("tile3d", Matmul(3, 9, 1), Args(0, 2)),
   Create("tile7dv", Matmul(4, 4, 2), Args(2, 1)),
   Create("tile7dvr", Matmul(4, 6, 4), Args(8, 1)),
   Create("tile8dvr", Matmul(2, 8, 4), Args(4, 1)),
   Create("tile9d", Matmul(2, 2, 2), Args(4, 1)),
   Create("tile10dv", Matmul(2, 4, 2), Args(4, 2)),
   Create("tile4d", Matmul(4, 6, 3), Args(4, 2)),
   Create("tile4dv", Matmul(2, 8, 3), Args(4, 1)),
   Create("tile_goto", Matmul(2, 4, 4), Args(4, 2)),
   Create("tile_goto_r", Matmul(4, 4, 2), [Args(4, 1) EXCEPT !.vregs = 5]),
   Scheme(<<"T", "R", "T">>, Conv(4, 2, 4), Args(4, 2)),
   Scheme(<<"R", "P", "P">>, Conv(4, 4, 2), [maxParallel |-> 1] @@ Args(4, 2)),
   Scheme(<<"R", "P">>, Conv(2, 4, 2), Args(4, 2))}
=============================================================================
