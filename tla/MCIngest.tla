-------------------------------- MODULE MCIngest --------------------------------
EXTENDS Ingest
AV == <<"video", "audio">>
AllMeta == {"oneShot", "persistent", "note", "both"}
Base == [order |-> "pass", types |-> <<"video">>, gap |-> 1, keys |-> {1}, offline |-> FALSE,
         metrics |-> FALSE, cluster |-> 0, meta |-> {}, timer |-> FALSE, resets |-> FALSE,
         trims |-> FALSE, maxTs |-> 5]
\* Two tracks: the merge by dts and by pts with the key frames in the first track; every
\* frame a key frame; the modes with EoFR; and the mode that does not merge.  One track:
\* metadata, with and without waiting for space, and clusters by duration.  The view is
\* emptied in three of them.
MCModes ==
    {[Base EXCEPT !.order = "dts", !.types = AV, !.gap = 2, !.metrics = TRUE, !.maxTs = 6],
     [Base EXCEPT !.order = "pts", !.types = AV, !.gap = 2, !.resets = TRUE, !.maxTs = 6],
     [Base EXCEPT !.order = "dtsEofr", !.types = AV, !.gap = 2, !.keys = {1, 2}, !.timer = TRUE, !.trims = TRUE],
     [Base EXCEPT !.order = "ptsEofr", !.types = <<"audio", "video">>, !.keys = {2}, !.gap = 2, !.metrics = TRUE],
     [Base EXCEPT !.order = "av", !.types = AV, !.gap = 2, !.trims = TRUE],
     [Base EXCEPT !.gap = 2, !.meta = AllMeta, !.timer = TRUE, !.trims = TRUE],
     [Base EXCEPT !.gap = 2, !.meta = AllMeta, !.offline = TRUE, !.metrics = TRUE],
     [Base EXCEPT !.cluster = 2, !.resets = TRUE]}
=============================================================================
