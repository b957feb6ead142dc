------------------------------- MODULE MkvLayout --------------------------------
(***************************************************************************)
(* What the MKV generator writes (mkvgen/src/MkvGenerator.c) and what the  *)
(* stream then does with it in a view item (client/src/Stream.c): the tags *)
(* are put between the header and the cluster, a header is put in front    *)
(* on a reconnect and taken off again later.  Bytes are counted, their     *)
(* values are not kept: an element is the length of its id and size        *)
(* fields (head), the size those declare and the bytes really written.     *)
(***************************************************************************)
EXTENDS Integers, Sequences, SequencesExt

CONSTANTS TrackLists,   \* what a stream may be created with
          CpdSizes,     \* sizes of codec private data, for every track
          FrameSizes,   \* sizes of frames after adaptation
          TagQueues,    \* metadata queues
          VersionSize   \* length of the version string

VARIABLES tracks,       \* trackInfoList
          started,      \* generatorState is beyond START
          item          \* a view item: its elements, data offset, size charged, header state
layoutVars == <<tracks, started, item>>

Element(id, head, size, bytes) == [id |-> id, head |-> head, size |-> size, bytes |-> bytes]
Masters == {"Info", "Tracks", "TrackEntry", "Tags", "Tag", "SimpleTag"}
Total(els) ==
    LET sum[k \in 0..Len(els)] == IF k = 0 THEN 0 ELSE sum[k - 1] + els[k].head + els[k].bytes IN sum[Len(els)]
UINT16(n) == n % 65536

\* mkvgenEbmlEncodeNumber: bytes taken by a size that is not fixed up later.
mkvgenEbmlEncodeNumber(n) ==
    CASE n < 128 - 1 -> 1
      [] n >= 128 - 1 /\ n < 16384 - 1 -> 2
      [] n >= 16384 - 1 /\ n < 2097152 - 1 -> 3
      [] OTHER -> 4
\* A size in the low seven bits of one byte.
OneByte(n) == n % 128

-----------------------------------------------------------------------------
(* The size pass *)

Video(t) == t.type = "video" /\ t.config            \* GENERATE_VIDEO_CONFIG
Audio(t) == t.type = "audio" /\ t.config            \* GENERATE_AUDIO_CONFIG
mkvgenGetMkvAudioBitsSize(t) == IF t.bitDepth THEN 18 + 4 ELSE 18
Sized(id, n) == IF n = 0 THEN 0 ELSE id + mkvgenEbmlEncodeNumber(n) + n

\* Mutant: the bytes of the size of the codec private data are forgotten.
MutTrackEntrySize(t) ==
    22 + (IF t.cpd = 0 THEN 0 ELSE 3 + t.cpd) + Sized(1, t.codecId) + Sized(2, t.name)
       + (IF Audio(t) THEN mkvgenGetMkvAudioBitsSize(t) ELSE IF Video(t) THEN 13 ELSE 0)

mkvgenGetTrackEntrySize(t) ==
    22 + Sized(2, t.cpd) + Sized(1, t.codecId) + Sized(2, t.name)
       + (IF Audio(t) THEN mkvgenGetMkvAudioBitsSize(t) ELSE IF Video(t) THEN 13 ELSE 0)
mkvgenGetMkvTrackHeaderSize == FoldLeft(LAMBDA n, t : n + mkvgenGetTrackEntrySize(t), 8, tracks)
\* Title, muxing and writing application, the latter two with the version.
SegmentInfoSize == 37 + (3 + 17) + 2 * (3 + 17 + VersionSize)
mkvgenGetMkvHeaderSize == 40 + 5 + SegmentInfoSize + mkvgenGetMkvTrackHeaderSize

ClusterOverhead == 18 + 13
mkvgenGetFrameOverhead(kind) ==
    CASE kind = "stream" -> ClusterOverhead + mkvgenGetMkvHeaderSize
      [] kind = "cluster" -> ClusterOverhead
      [] kind = "block" -> 13

-----------------------------------------------------------------------------
(* The bytes *)

mkvgenEbmlEncodeHeader == <<Element("EBML", 5, 35, 35)>>
mkvgenEbmlEncodeSegmentHeader == <<Element("Segment", 5, 0, 0)>>      \* of unknown size
mkvgenEbmlEncodeSegmentInfo ==
    <<Element("Info", 6, SegmentInfoSize - 6, 0), Element("UidAndScale", 0, 31, 31), Element("Title", 3, OneByte(17), 17),
      Element("MuxingApp", 3, OneByte(17 + VersionSize), 17 + VersionSize),
      Element("WritingApp", 3, OneByte(17 + VersionSize), 17 + VersionSize)>>

\* An element written only when it is not empty.
Written(id, idLen, n) == IF n = 0 THEN << >> ELSE <<Element(id, idLen + mkvgenEbmlEncodeNumber(n), n, n)>>

\* What follows the fixed part of a track entry; the audio element declares the bit depth.
TrackElements(t) ==
    Written("Name", 2, t.name) \o Written("CodecId", 1, t.codecId)
    \o (IF Video(t) THEN <<Element("Video", 5, 8, 8)>>
        ELSE IF Audio(t) THEN <<Element("Audio", 5, IF t.bitDepth THEN mkvgenGetMkvAudioBitsSize(t) - 5 ELSE 13,
                                        mkvgenGetMkvAudioBitsSize(t) - 5)>>
        ELSE << >>)
    \o (IF t.present THEN Written("CodecPrivate", 2, t.cpd) ELSE << >>)

\* The sizes declared are those of the bytes written; the caller moves on by the size computed.
mkvgenEbmlEncodeTrackInfo ==
    LET data(t) == 22 - 5 + Total(TrackElements(t))
        entries == FlattenSeq([i \in DOMAIN tracks |->
                       <<Element("TrackEntry", 5, data(tracks[i]), 0), Element("NumberIdType", 0, 17, 17)>> \o TrackElements(tracks[i])])
        els == <<Element("Tracks", 8, FoldLeft(LAMBDA n, t : n + data(t) + 5, 0, tracks), 0)>> \o entries
        gap == mkvgenGetMkvTrackHeaderSize - Total(els)
    IN IF gap = 0 THEN els ELSE Append(els, Element("Garbage", 0, gap, gap))

mkvgenEbmlEncodeClusterInfo == <<Element("Cluster", 5, 0, 0), Element("TimecodeAndPosition", 0, 13, 13)>>
mkvgenEbmlEncodeSimpleBlock(n) == <<Element("SimpleBlock", 9, n + 4, n + 4)>>

HeaderElements ==
    mkvgenEbmlEncodeHeader \o mkvgenEbmlEncodeSegmentHeader \o mkvgenEbmlEncodeSegmentInfo \o mkvgenEbmlEncodeTrackInfo
mkvgenPackageFrame(kind, n) ==
    (IF kind = "stream" THEN HeaderElements ELSE << >>)
    \o (IF kind = "block" THEN << >> ELSE mkvgenEbmlEncodeClusterInfo)
    \o mkvgenEbmlEncodeSimpleBlock(n)

\* The levels of a chain of tags: Tags, Tag and SimpleTag for a parent of its own, SimpleTag
\* for one that joins the Tag before it.
Levels(tag) == IF tag.parent = "TAGS" THEN <<"Tags", "Tag", "SimpleTag">> ELSE <<"SimpleTag">>
IdLength(l) == IF l = "Tags" THEN 4 ELSE 2
TagsChainSize(tag) ==
    FoldLeft(LAMBDA n, l : n + IdLength(l) + 8, 0, Levels(tag)) + 10 + 10 + tag.name + tag.value
\* Every level declares what follows its own size field.
mkvgenGenerateTagsChain(tag) ==
    LET ls == Levels(tag)
        before(i) == FoldLeft(LAMBDA n, l : n + IdLength(l) + 8, 0, SubSeq(ls, 1, i))
    IN [i \in DOMAIN ls |-> Element(ls[i], IdLength(ls[i]) + 8, TagsChainSize(tag) - before(i), 0)]
       \o <<Element("TagName", 10, tag.name, tag.name), Element("TagString", 10, tag.value, tag.value)>>

\* The sizes of the Tags and the Tag at position p grow by those of the simple tags behind.
mkvgenIncreaseTagsTagSize(els, p, n) ==
    IF p = 0 THEN els ELSE [els EXCEPT ![p].size = @ + n, ![p + 1].size = @ + n]
packageStreamMetadata(queue) ==
    LET all == FoldLeft(LAMBDA s, tag :
                   IF tag.parent = "TAGS"
                   THEN [els |-> mkvgenIncreaseTagsTagSize(s.els, s.at, s.simple) \o mkvgenGenerateTagsChain(tag),
                         at |-> Len(s.els) + 1, simple |-> 0]
                   ELSE [s EXCEPT !.els = @ \o mkvgenGenerateTagsChain(tag), !.simple = @ + TagsChainSize(tag)],
                   [els |-> << >>, at |-> 0, simple |-> 0], queue)
    IN mkvgenIncreaseTagsTagSize(all.els, all.at, all.simple)
MetadataSize(queue) == FoldLeft(LAMBDA n, tag : n + TagsChainSize(tag), 0, queue)

-----------------------------------------------------------------------------
(* The view item *)

\* The length of the header fits the data offset, and no private data were lost for want of memory.
HeaderSound == mkvgenGetMkvHeaderSize <= 65535 /\ \A i \in DOMAIN tracks : tracks[i].cpd # 0 => tracks[i].present
NoItem == [els |-> << >>, offset |-> 0, size |-> 0, header |-> "none", sound |-> TRUE]

LayoutInit == tracks \in TrackLists /\ started = FALSE /\ item = NoItem

\* What is before and behind an offset in bytes; an element cut in two is garbage.
Garbage(n) == <<Element("Garbage", 0, n, n)>>
Cut(els, n) ==
    LET at[k \in 0..Len(els)] ==      \* the elements that end at byte n at the latest
            IF k = 0 THEN [els |-> 0, bytes |-> 0]
            ELSE LET s == at[k - 1]
                     b == s.bytes + els[k].head + els[k].bytes
                 IN IF s.els = k - 1 /\ b <= n THEN [els |-> k, bytes |-> b] ELSE s
        end == at[Len(els)]
    IN IF end.bytes = n THEN <<SubSeq(els, 1, end.els), SubSeq(els, end.els + 1, Len(els))>>
       ELSE <<Garbage(n), Garbage(Total(els) - n)>>

\* putFrame: the frame is packaged, then moved to make room for the metadata behind the
\* header.  Only the first frame of a cluster carries metadata.
PutItem(n, key, queue) ==
    LET kind == IF ~started THEN "stream" ELSE IF key THEN "cluster" ELSE "block"
        els == mkvgenPackageFrame(kind, n)
        offset == UINT16(IF kind = "stream" THEN mkvgenGetFrameOverhead(kind) - ClusterOverhead ELSE 0)
        cut == Cut(els, offset)
    IN /\ kind = "block" => queue = << >>
       /\ item' = [els |-> cut[1] \o packageStreamMetadata(queue) \o cut[2],
                   offset |-> offset, size |-> mkvgenGetFrameOverhead(kind) + n + MetadataSize(queue),
                   header |-> IF kind = "stream" THEN "own" ELSE "none", sound |-> kind = "stream" => HeaderSound]
       /\ started' = TRUE
       /\ UNCHANGED tracks

\* putFrame of an end of fragment and packageNotSentMetadata: the metadata alone.
PutMetadata(queue) ==
    /\ started /\ queue # << >>
    /\ item' = [NoItem EXCEPT !.els = packageStreamMetadata(queue), !.size = MetadataSize(queue)]
    /\ UNCHANGED <<tracks, started>>

\* streamStartFixupOnReconnect: a new header in front of what the item holds.
streamStartFixupOnReconnect ==
    /\ item # NoItem /\ item.header = "none"
    /\ item' = [item EXCEPT !.els = HeaderElements \o @, !.size = @ + mkvgenGetMkvHeaderSize,
                            !.offset = UINT16(mkvgenGetMkvHeaderSize), !.header = "added", !.sound = @ /\ HeaderSound]
    /\ UNCHANGED <<tracks, started>>

\* resetCurrentViewItemStreamStart: the header that was added is taken off again.
resetCurrentViewItemStreamStart ==
    /\ item.header = "added"
    /\ item' = [item EXCEPT !.els = Cut(@, item.offset)[2], !.size = @ - item.offset, !.offset = 0, !.header = "none"]
    /\ UNCHANGED <<tracks, started>>

\* mkvgenSetCodecPrivateData of track i: the old data go; the new are adapted to n bytes and
\* tell the video or audio configuration, or are refused (nothing is left), or there is no
\* memory (the size stays without the data), or are refused when they are written (size and
\* buffer stay, the configuration too).
mkvgenSetCodecPrivateData(i, n) ==
    LET none == [tracks[i] EXCEPT !.cpd = 0, !.present = FALSE] IN
    /\ n \in CpdSizes[i]
    /\ \E t \in {none} \cup (IF n = 0 THEN {} ELSE
                  {[none EXCEPT !.cpd = n], [none EXCEPT !.cpd = n, !.present = TRUE]}
                  \cup {[none EXCEPT !.cpd = n, !.present = TRUE, !.config = c, !.bitDepth = c /\ tracks[i].type = "audio" /\ d]
                        : c, d \in BOOLEAN}) :
          tracks' = [tracks EXCEPT ![i] = t]
    /\ UNCHANGED <<started, item>>

mkvgenResetGenerator == started /\ started' = FALSE /\ UNCHANGED <<tracks, item>>

LayoutNext ==
    \/ \E n \in FrameSizes, key \in BOOLEAN, q \in TagQueues : PutItem(n, key, q)
    \/ \E q \in TagQueues : PutMetadata(q)
    \/ streamStartFixupOnReconnect \/ resetCurrentViewItemStreamStart
    \/ \E i \in DOMAIN tracks : \E n \in CpdSizes[i] : mkvgenSetCodecPrivateData(i, n)
    \/ mkvgenResetGenerator

-----------------------------------------------------------------------------
(* Properties *)

\* Reference: a reader of MKV that trusts the declared sizes.  It keeps what is left of the
\* elements it is in.
Closed(left) == SelectSeq(left, LAMBDA n : n # 0)
Reader(els) ==
    LET read[k \in 0..Len(els)] ==
            IF k = 0 THEN [ok |-> TRUE, left |-> << >>]
            ELSE LET s == read[k - 1]
                     e == els[k]
                     need == e.head + e.size
                     rest == IF s.left = << >> THEN << >> ELSE [s.left EXCEPT ![Len(s.left)] = @ - need]
                 IN [ok   |-> /\ s.ok /\ e.id # "Garbage"
                              /\ s.left # << >> => s.left[Len(s.left)] >= need
                              /\ e.id \in Masters \/ e.bytes = e.size,
                     left |-> Closed(IF e.id \in Masters THEN Append(rest, e.size) ELSE rest)]
    IN read[Len(els)]
Readable(els) == LET r == Reader(els) IN r.ok /\ r.left = << >>
Top(els) == SelectSeq(els, LAMBDA e : e.id \in {"EBML", "Segment", "Info", "Tracks", "Tags", "Cluster", "SimpleBlock"})

\* Whatever the order of format changes, frames, metadata, reconnects and rollbacks: an item
\* holds exactly the bytes the size pass charged for (mkvgenGetFrameOverhead), every element
\* declares the bytes it holds, the header is in front exactly when the item says so, and
\* behind the data offset the tags and the cluster begin.  Exempt are items whose header does
\* not fit the sixteen bits of the data offset and private data lost for want of memory.
LayoutAgrees ==
    item.sound =>
       /\ Total(item.els) = item.size
       /\ Readable(item.els)
       /\ LET top == Top(item.els)
              ids == [i \in DOMAIN top |-> top[i].id]
              front == <<"EBML", "Segment", "Info", "Tracks">>
          IN /\ item.header # "none" <=> ids # << >> /\ ids[1] = "EBML"
             /\ item.header # "none" => SubSeq(ids, 1, 4) = front
             /\ \A i \in DOMAIN ids : ids[i] \in {"EBML", "Segment", "Info", "Tracks"} => i <= 4
       /\ LET data == Cut(item.els, item.offset)[2] IN data # << >> => data[1].id \in {"Tags", "Cluster", "SimpleBlock"}
=============================================================================
