---------------------------- MODULE DescriptMlir ----------------------------
(* A specification that Descript accepts, compiled by the MLIR back end. *)
EXTENDS Descript, MlirNest

\* The nodes below m one reaches by always taking the first segment, m included.
FirstBranch(m) ==
  {n \in m .. Len(nest) : \A x \in m + 1 .. n : nest[x].parent = x - 1}

\* The tiles of axis a inside loop p of node m along its first branch.
TilesInside(m, p, a) ==
  UNION {{<<n, q>> : q \in {q \in DOMAIN nest[n].interchange :
                              /\ nest[n].interchange[q].kind = "tile"
                              /\ nest[n].interchange[q].axis = a
                              /\ n > m \/ q > p}} : n \in FirstBranch(m)}

\* The loop that is strip-mined at the place of each axis or tile loop steps over the
\* next tile of its axis, those of the first branch if the loop is around several;
\* a loop with no tile inside steps by 1.  The tiles of other branches do not leak.
StepsAreInnerTiles ==
  stage = "accepted" =>
    \A m \in DOMAIN nest : \A p \in DOMAIN nest[m].interchange :
      LET l     == nest[m].interchange[p]
          tiles == TilesInside(m, p, l.axis)
          First(t) == \A u \in tiles : t[1] < u[1] \/ (t[1] = u[1] /\ t[2] <= u[2])
      IN l.kind # "split" =>
           \/ tiles = {} /\ Steps(nest)[m][p] = 1
           \/ \E t \in tiles :
                /\ First(t)
                /\ Steps(nest)[m][p] = LoopSize(nest[t[1]], nest[t[1]].interchange[t[2]])

\* A segment ends where the next one starts: what is split off for it is its size.
ChunksAreSegments ==
  stage = "accepted" =>
    \A m \in DOMAIN nest :
      LET loops == LoopsToSplit(nest[m]) IN
      \A h \in 1 .. Len(loops) - 1 :
        ChunkSize(nest[m], h) = SegmentSize(nest[m], loops[h].axis, loops[h].n)
=============================================================================
