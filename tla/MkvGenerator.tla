------------------------------ MODULE MkvGenerator ------------------------------
(***************************************************************************)
(* The state the MKV generator keeps from frame to frame                   *)
(* (mkvgen/src/MkvGenerator.c): whether the header has been written and    *)
(* the time codes of the last cluster, which every following block is      *)
(* relative to.  A frame is [dts, pts, key, ...] in time codes; what its   *)
(* bytes look like is the subject of MkvLayout.                            *)
(***************************************************************************)
EXTENDS Integers

\* createMkvGenerator and mkvgenResetGenerator: no header yet, no cluster.
NewGenerator == [state |-> "start", pts |-> 0, dts |-> 0]
mkvgenResetGenerator(g) == [g EXCEPT !.state = "start", !.pts = 0, !.dts = 0]

mkvgenHasStreamStarted(g) == g.state # "start"

\* A cluster length of zero stands for key frame clustering.
mkvgenGetStreamState(g, f, clusterDuration) ==
    CASE g.state = "start" -> "stream"
      [] g.state # "start" /\ f.key /\ (clusterDuration = 0 \/ f.pts - g.pts >= clusterDuration) -> "cluster"
      [] OTHER -> "block"

\* Time never runs backwards past the start of the cluster.
mkvgenValidateFrame(g, f) == f.pts >= g.pts /\ f.dts >= g.dts

\* The generator after a frame, and what the caller gets: the kind of the frame,
\* its cluster, and its own time stamps (cluster plus relative time).  A block too
\* far from its cluster is refused.
mkvgenPackageFrame(g, f, clusterDuration, maxTimecode) ==
    LET kind == mkvgenGetStreamState(g, f, clusterDuration)
        base == IF kind = "block" THEN g ELSE [state |-> "block", pts |-> f.pts, dts |-> f.dts]
    IN [ok   |-> mkvgenValidateFrame(g, f) /\ f.pts - base.pts <= maxTimecode,
        gen  |-> base,
        info |-> [kind |-> kind, cluster |-> <<base.pts, base.dts>>, dts |-> f.dts, pts |-> f.pts]]

=============================================================================
