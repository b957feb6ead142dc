------------------------------- MODULE MCLibrary --------------------------------
(***************************************************************************)
(* The components that keep their state to themselves, one per behaviour:  *)
(* part says which of them moves.                                          *)
(***************************************************************************)
EXTENDS AckParser, Backoff, TrackConfig, LinkedLists, Tables, MkvLayout, Encodings, Setup,
        FileLogger, TraceProfiler, Allocators

CONSTANTS Parts,        \* components explored
          MaxClock      \* bound on the time the back-off runs

-----------------------------------------------------------------------------
(* Reference: sequence parameter sets as an encoder writes them (H.264     *)
(* 7.3.2.1.1, H.265 7.3.2.2), in every container, with the resolution they *)
(* stand for.                                                              *)

BitsOf(n, k) == [i \in 1..k |-> (n \div 2^(k - i)) % 2]
Golomb(v) == LET k == CHOOSE k \in 0..20 : 2^k <= v + 1 /\ v + 1 < 2^(k + 1) IN Zeros(k) \o BitsOf(v + 1, k + 1)
SignedGolomb(v) == Golomb(IF v > 0 THEN 2 * v - 1 ELSE -(2 * v))
\* The stop bit, then zeros up to a byte.
ToBytes(bits) ==
    LET b == bits \o <<1>> \o Zeros(7) IN
    [i \in 1..(Len(b) \div 8) |-> FoldLeft(LAMBDA v, j : 2 * v + b[8 * (i - 1) + j], 0, [j \in 1..8 |-> j])]

\* Emulation prevention: a 3 behind two zeros that a byte below 4 would follow.
Escape(s) ==
    FoldLeft(LAMBDA out, b : IF Len(out) > 1 /\ out[Len(out)] = 0 /\ out[Len(out) - 1] = 0 /\ b < 4 THEN out \o <<3, b>>
                             ELSE Append(out, b), << >>, s)

-----------------------------------------------------------------------------
(* H.264 *)

Sps264 == [profile : {66, 100, 244}, chroma : 0..3, order : 0..2, size : {<<0, 0>>, <<39, 29>>, <<119, 33>>}, mbsOnly : {0, 1},
           crop : {<< >>, <<1, 2, 3, 4>>}]
Means264(s) ==
    LET chroma == IF s.profile = 66 THEN 1 ELSE s.chroma
        unitX == IF chroma \in {1, 2} THEN 2 ELSE 1
        unitY == (IF chroma = 1 THEN 2 ELSE 1) * (2 - s.mbsOnly)
        crop == IF s.crop = << >> THEN Zeros(4) ELSE s.crop
    IN <<16 * (s.size[1] + 1) - unitX * (crop[1] + crop[2]), (2 - s.mbsOnly) * 16 * (s.size[2] + 1) - unitY * (crop[3] + crop[4])>>
Bits264(s) ==
    BitsOf(103, 8) \o BitsOf(s.profile, 8) \o BitsOf(31, 16) \o Golomb(0)
    \o (IF s.profile = 66 THEN << >>
        ELSE Golomb(s.chroma) \o (IF s.chroma = 3 THEN <<0>> ELSE << >>) \o Golomb(2) \o Golomb(0) \o <<0, 0>>)
    \o Golomb(4) \o Golomb(s.order)
    \o (CASE s.order = 0 -> Golomb(2)
          [] s.order = 1 -> <<0>> \o SignedGolomb(-3) \o SignedGolomb(2) \o Golomb(2) \o SignedGolomb(5) \o SignedGolomb(-1)
          [] OTHER -> << >>)
    \o Golomb(1) \o <<0>> \o Golomb(s.size[1]) \o Golomb(s.size[2]) \o <<s.mbsOnly>> \o (IF s.mbsOnly = 0 THEN <<1>> ELSE << >>) \o <<1>>
    \o (IF s.crop = << >> THEN <<0>> ELSE <<1>> \o FlattenSeq([i \in 1..4 |-> Golomb(s.crop[i])]))
    \o <<1>> \o BitsOf(45757, 16)          \* video usability information

Pps == <<104, 206, 60, 128>>
Contained264(sps) ==
    {<<TRUE,  <<0, 0, 0, 1>> \o sps \o <<0, 0, 1>> \o Pps>>, <<FALSE, <<0, 0, 1>> \o sps \o <<0, 0, 0, 1>> \o Pps>>,
     <<TRUE, <<0, 0, 1, 9, 16, 0, 0, 1>> \o sps \o <<0, 0, 1>> \o Pps>>,
     <<FALSE, <<1, 66, 0, 31, 255, 225, 0, Len(sps)>> \o sps \o <<1, 0, Len(Pps)>> \o Pps>>, <<FALSE, sps>>}

\* The code does not take emulation prevention out of an H.264 SPS, nor does it read scaling
\* lists as the standard writes them: neither is among the samples.
H264Samples ==
    UNION {LET sps == ToBytes(Bits264(s)) IN
           {[types |-> <<"video/h264", ",", "audio/aac">>, kind |-> "video", codecId |-> "V_MPEG4/ISO/AVC", adapt |-> c[1], cpd |-> c[2],
             says |-> Means264(s)] : c \in Contained264(sps)}
           : s \in {t \in Sps264 : /\ t.profile = 66 => t.chroma = 1
                                   /\ t.crop = << >> \/ t.size # <<0, 0>>
                                   /\ LET b == ToBytes(Bits264(t)) IN Escape(b) = b}}

-----------------------------------------------------------------------------
(* H.265 *)

Sps265 == [chroma : 0..3, size : {<<8, 8>>, <<640, 480>>, <<1920, 1088>>}, window : {<< >>, <<0, 1, 0, 2>>}, constraints : {0, 144}]
Means265(s) ==
    LET x == IF s.chroma \in {1, 2} THEN 2 ELSE 1
        y == IF s.chroma = 1 THEN 2 ELSE 1
    IN IF s.window = << >> THEN s.size
       ELSE <<s.size[1] - x * (s.window[1] + s.window[2]), s.size[2] - y * (s.window[3] + s.window[4])>>
\* Two bytes of the unit's header, no temporal sub-layers, the profile, and so on.
Bits265(s) ==
    <<0, 1, 0, 0, 0, 0, 1, 0>> \o BitsOf(1, 8) \o BitsOf(1, 8)
    \o BitsOf(1, 8) \o BitsOf(96, 8) \o Zeros(24) \o BitsOf(s.constraints, 8) \o Zeros(40) \o BitsOf(93, 8)
    \o Golomb(0) \o Golomb(s.chroma) \o (IF s.chroma = 3 THEN <<0>> ELSE << >>) \o Golomb(s.size[1]) \o Golomb(s.size[2])
    \o (IF s.window = << >> THEN <<0>> ELSE <<1>> \o FlattenSeq([i \in 1..4 |-> Golomb(s.window[i])]))
    \o Golomb(0) \o Golomb(2) \o Golomb(4) \o <<1>> \o Golomb(1) \o Golomb(0) \o Golomb(0)

Vps == <<64, 1, 12, 1, 255>>
Pps265 == <<68, 1, 193, 114>>
Array(type, u) == <<type, 0, 1, 0, Len(u)>> \o u
Hvcc(s) == <<1, 1, 96, 0, 0, 0, s.constraints, 0, 0, 0, 0, 0, 93, 240, 0, 252, 252 + s.chroma, 248, 250, 0, 0, 15, 3>>
Contained265(s, sps) ==
    {<<TRUE, <<0, 0, 0, 1>> \o Vps \o <<0, 0, 0, 1>> \o sps \o <<0, 0, 1>> \o Pps265>>,
     <<FALSE, <<0, 0, 1>> \o Vps \o <<0, 0, 1>> \o sps \o <<0, 0, 1>> \o Pps265>>,
     <<FALSE, Hvcc(s) \o Array(32, Vps) \o Array(33, sps) \o Array(34, Pps265)>>,
     <<FALSE, Array(160, Vps) \o Array(161, sps)>>}
H265Samples ==
    UNION {{[types |-> <<"audio/alaw", ",", "video/h265">>, kind |-> "video", codecId |-> "V_MPEGH/ISO/HEVC", adapt |-> c[1],
             cpd |-> c[2], says |-> Means265(s)] : c \in Contained265(s, Escape(ToBytes(Bits265(s))))}
           : s \in {t \in Sps265 : t.window = << >> \/ t.size # <<8, 8>>}}

-----------------------------------------------------------------------------
(* Audio and Motion JPEG *)

AudioSample(types, cpd, says) == [types |-> types, kind |-> "audio", codecId |-> "A", adapt |-> TRUE, cpd |-> cpd, says |-> says]
AacSamples ==
    UNION {{AudioSample(<<"video/h264", ",", "audio/aac">>, c, <<f, n, 0>>)
            : c \in mkvgenGenerateAacCpd(o, f, n)} : o \in {2, 5, 31}, f \in {96000, 44100, 7350}, n \in {1, 2, 7}}
PcmSamples ==
    UNION {{AudioSample(<<t>>, c, <<f, n, 0>>)
            : c \in mkvgenGeneratePcmCpd(p, f, n)} : t \in {"audio/alaw", "audio/mulaw"}, p \in WavFormats, f \in {8000, 192000}, n \in {1, 2}}
OtherSamples ==
    {AudioSample(<<"audio/aac", ",", "video/h265">>, <<20, 64>>, NoAudio),      \* eight channels: nothing is said
     AudioSample(<<",", "audio/alaw", ",">>, LittleEndian(6, 2) \o LittleEndian(2, 2) \o LittleEndian(16000, 4) \o Zeros(6) \o <<8, 0>>,
                 <<16000, 2, 8>>),
     [types |-> <<"video/x-matroska">>, kind |-> "video", codecId |-> "V_MS/VFW/FOURCC", adapt |-> FALSE,
      cpd |-> LittleEndian(40, 4) \o LittleEndian(1280, 4) \o LittleEndian(720, 4) \o Zeros(28), says |-> <<1280, 720>>]}

TrackSampleSet == H264Samples \cup H265Samples \cup AacSamples \cup PcmSamples \cup OtherSamples

-----------------------------------------------------------------------------
(* Configurations for Setup: one that is accepted, and what becomes of it  *)
(* when the fields change that the checks and the defaults look at         *)
(* together.                                                               *)

NoTags == [count |-> 0, list |-> << >>]
TagList(n, value) == [count |-> n, list |-> [i \in 1..n |-> [version |-> 0, name |-> MaxTagName, value |-> value]]]
TagVariants == {NoTags, TagList(1, 2), TagList(2, 7), TagList(1, MaxTagValue), TagList(1, MaxTagValue + 1), TagList(51, 0), [NoTags EXCEPT !.count = 1]}

Info == [version |-> 3, timeouts |-> [t \in DOMAIN DefaultTimeouts |-> 7], connection |-> 3, completion |-> 4, period |-> 0,
         intermittent |-> TRUE, logLevel |-> 8, metricPeriod |-> 0, retry |-> {}]
Device == [version |-> 1, name |-> TRUE, tags |-> NoTags, storage |-> [version |-> 0, size |-> TRUE, spillRatio |-> 50, root |-> TRUE],
           streamCount |-> 1, clientId |-> TRUE, info |-> Info, callbacksVersion |-> 0, callbacks |-> ServiceCalls \cup {"tagResource"}]
Two == [Device EXCEPT !.streamCount = 2]
MCDevices ==
    {Device, Two} \cup {[Device EXCEPT !.version = v, !.info.version = w, !.info.connection = c, !.info.completion = d] :
        v \in 0..1, w \in 0..4, c \in {0, 3, 12, InvalidTime}, d \in {0, 4, 12, InvalidTime}}
    \cup {[Device EXCEPT !.info.timeouts.stopStream = t, !.info.logLevel = l, !.info.retry = r, !.info.version = w] :
          t \in {0, 7, InvalidTime}, l \in {0, 8, 9}, r \in {{}, RetryFunctions, RetryFunctions \ {"free"}}, w \in {0, 3}}
    \cup {[Device EXCEPT !.callbacks = c, !.tags = t] : c \in {{}, ServiceCalls, ClientCallbacks}, t \in TagVariants}
    \cup {[Device EXCEPT !.version = 2], [Device EXCEPT !.streamCount = 0], [Device EXCEPT !.storage.spillRatio = 101], [Device EXCEPT !.clientId = FALSE]}

VideoTrack(id, cpd) == [id |-> id, kind |-> "video", cpd |-> cpd]
AudioTrack(id, cpd) == [id |-> id, kind |-> "audio", cpd |-> cpd]
Caps == [type |-> "REALTIME", contentTypeFits |-> TRUE, flags |-> {}, keyFrames |-> TRUE, fragment |-> 2, acks |-> TRUE, buffer |-> 40,
         replay |-> 10, staleness |-> 5, latency |-> 5, timecodeScale |-> 0, frameRate |-> 0, uuid |-> "none", tracks |-> <<VideoTrack(1, "plain")>>,
         order |-> "PASS_THROUGH", storePolicy |-> "DROP", viewPolicy |-> "DROP_UNTIL_FRAGMENT", allowCreation |-> FALSE]
Stream == [version |-> 3, name |-> 5, retention |-> 3600, tags |-> NoTags, caps |-> Caps]
\* Clients that get streams, and the streams that share a client.
Hosts(c) == c.asked = Info /\ c.tags = NoTags
Shared == {Stream, [Stream EXCEPT !.name = 0], [Stream EXCEPT !.name = 256, !.caps.tracks = <<AudioTrack(1, "none")>>]}
MCStreamInfos ==
    Shared \cup {[Stream EXCEPT !.version = v, !.caps.tracks = t] :
        v \in 0..4, t \in {<<VideoTrack(1, "plain"), AudioTrack(2, "plain")>>, <<AudioTrack(2, "none")>>, << >>, <<VideoTrack(1, "plain"), VideoTrack(1, "none")>>}}
    \cup {[Stream EXCEPT !.caps.type = t, !.retention = r, !.caps.acks = a, !.caps.buffer = b, !.caps.replay = p] :
          t \in {"OFFLINE", "NEAR_REALTIME"}, r \in {0, 3600}, a \in BOOLEAN, b \in {0, 40}, p \in {10, 50}}
    \cup {[Stream EXCEPT !.caps.keyFrames = k, !.caps.fragment = f, !.caps.frameRate = r, !.caps.buffer = b] :
          k \in BOOLEAN, f \in {0, 30}, r \in {0, 1}, b \in {10, 11}}
    \cup {[Stream EXCEPT !.caps.flags = f, !.caps.tracks = t, !.caps.uuid = u] : f \in AllFlags, u \in {"given", "zeros"},
          t \in {<<VideoTrack(1, "odd"), AudioTrack(2, "plain")>>, <<AudioTrack(2, "plain"), VideoTrack(1, "odd")>>, <<VideoTrack(0, "plain")>>}}
    \cup {[Stream EXCEPT !.tags = t, !.name = n] : t \in TagVariants, n \in {5, 257}} \cup {[Stream EXCEPT !.retention = 1]}

-----------------------------------------------------------------------------
VARIABLE part
diagVars == <<fileVars, loggerVars, traceVars, allocVars>>
partVars == <<ackVars, backoffVars, nalVars, listVars, tableVars, layoutVars, configVars, encodingVars, setupVars,
              diagVars>>
vars == <<part, partVars>>

Init ==
    /\ part \in Parts
    /\ AckInit /\ BackoffInit /\ NalInit /\ ListsInit /\ TablesInit /\ LayoutInit /\ SetupInit
    /\ FilesInit /\ LoggerInit /\ TraceInit /\ AllocInit
    \* A component that does not move starts in one state.
    /\ part = "backoff" \/ strategy.config = CHOOSE c \in Configs : validateExponentialBackoffConfig(c)
    /\ part = "layout" \/ tracks = CHOOSE t \in TrackLists : TRUE
    /\ IF part = "config" THEN ConfigInit ELSE sample = CHOOSE t \in AacSamples : TRUE
    /\ IF part = "encodings" THEN EncodingsInit ELSE datum = [kind |-> "bytes", v |-> << >>]

\* Chunks of two sessions that have mixed and an item that has gone wrong are not followed.
Next ==
    \/ /\ part = "ack" /\ "mixed" \notin spoilt /\ AckNext
       /\ UNCHANGED <<part, backoffVars, nalVars, listVars, tableVars, layoutVars, configVars, encodingVars, setupVars, diagVars>>
    \/ /\ part = "backoff" /\ clock < MaxClock /\ BackoffNext
       /\ UNCHANGED <<part, ackVars, nalVars, listVars, tableVars, layoutVars, configVars, encodingVars, setupVars, diagVars>>
    \/ /\ part = "nal" /\ NalNext
       /\ UNCHANGED <<part, ackVars, backoffVars, listVars, tableVars, layoutVars, configVars, encodingVars, setupVars, diagVars>>
    \/ /\ part \in {"double", "single"} /\ IF part = "double" THEN DoubleNext ELSE SingleNext
       /\ UNCHANGED <<part, ackVars, backoffVars, nalVars, tableVars, layoutVars, configVars, encodingVars, setupVars, diagVars>>
    \/ /\ part \in {"hash", "bits"} /\ IF part = "hash" THEN HashNext ELSE BitsNext
       /\ UNCHANGED <<part, ackVars, backoffVars, nalVars, listVars, layoutVars, configVars, encodingVars, setupVars, diagVars>>
    \/ /\ part = "layout" /\ item.sound /\ LayoutNext
       /\ UNCHANGED <<part, ackVars, backoffVars, nalVars, listVars, tableVars, configVars, encodingVars, setupVars, diagVars>>
    \/ /\ part = "setup" /\ SetupNext
       /\ client # NoClient => (Hosts(client) /\ (client.streamCount = 1 \/ \A i \in DOMAIN streams' : streams'[i].asked \in Shared))
       /\ UNCHANGED <<part, ackVars, backoffVars, nalVars, listVars, tableVars, layoutVars, configVars, encodingVars, diagVars>>
    \/ /\ part = "files" /\ FilesNext
       /\ UNCHANGED <<part, ackVars, backoffVars, nalVars, listVars, tableVars, layoutVars, configVars, encodingVars, setupVars, loggerVars, traceVars, allocVars>>
    \/ /\ part = "logger" /\ LoggerNext
       /\ UNCHANGED <<part, ackVars, backoffVars, nalVars, listVars, tableVars, layoutVars, configVars, encodingVars, setupVars, fileVars, traceVars, allocVars>>
    \/ /\ part = "trace" /\ TraceNext
       /\ UNCHANGED <<part, ackVars, backoffVars, nalVars, listVars, tableVars, layoutVars, configVars, encodingVars, setupVars, fileVars, loggerVars, allocVars>>
    \/ /\ part = "alloc" /\ AllocNext
       /\ UNCHANGED <<part, ackVars, backoffVars, nalVars, listVars, tableVars, layoutVars, configVars, encodingVars, setupVars, fileVars, loggerVars, traceVars>>
Spec == Init /\ [][Next]_vars

\* What the collections stand for.
Bits == 0..(BitCount - 1)
Contents == [l \in Lists |-> CASE part = "double" -> DoubleContents(l) [] part = "single" -> SingleContents(l) [] OTHER -> << >>]
Table == IF part = "hash" THEN Mapping ELSE << >>
C == INSTANCE Containers WITH
        Items <- Items \cup Values, seqs <- Contents, map <- Table, flags <- [i \in Bits |-> part = "bits" /\ bitFieldGet(i)]

\* What each operation, with its arguments, makes of the sequence.  Deleting the head or the
\* tail of an empty list, or what is behind the last node, does nothing.
DoubleKeeps ==
    /\ \A l \in Lists :
         /\ DeleteDoubleHead(l) => IF Contents[l] = << >> THEN UNCHANGED Contents ELSE C!RemoveItem(l, 1)
         /\ DeleteDoubleTail(l) => IF Contents[l] = << >> THEN UNCHANGED Contents ELSE C!RemoveItem(l, Len(Contents[l]))
         /\ ClearDouble(l) => C!Empty(l)
         /\ \A b \in Lists : AppendDouble(l, b) => C!Concat(l, b)
    /\ \A l \in Lists, x \in Items :
         /\ doubleListInsertItemHead(l, x) => C!InsertItem(l, 1, x)
         /\ doubleListInsertItemTail(l, x) => C!InsertItem(l, Len(Contents[l]) + 1, x)
    /\ \A l \in Lists : \A i \in DOMAIN Contents[l] :
         /\ doubleListDeleteNode(l, i) => C!RemoveItem(l, i)
         /\ \A x \in Items : /\ doubleListInsertItemBefore(l, i, x) => C!InsertItem(l, i, x)
                             /\ doubleListInsertItemAfter(l, i, x) => C!InsertItem(l, i + 1, x)
SingleKeeps ==
    /\ \A l \in Lists :
         /\ stackQueuePop(l) \/ stackQueueDequeue(l) => Contents[l] # << >> /\ C!RemoveItem(l, 1)
         /\ stackQueueClear(l) => C!Empty(l)
         /\ \A b \in Lists : AppendSingle(l, b) => C!Concat(l, b)
    /\ \A l \in Lists, x \in Items :
         /\ stackQueuePush(l, x) => C!InsertItem(l, 1, x)
         /\ stackQueueEnqueue(l, x) => C!InsertItem(l, Len(Contents[l]) + 1, x)
         /\ stackQueueRemoveItem(l, x) => \E i \in DOMAIN Contents[l] : Contents[l][i] = x /\ C!RemoveItem(l, i)
                                                                        /\ \A j \in 1..(i - 1) : Contents[l][j] # x
    \* An index counts from 0.
    /\ \A l \in Lists, i \in Places :
         /\ DeleteSingleNode(l, i) => C!RemoveItem(l, i)
         /\ DeleteNextSingle(l, i) => IF i = Len(Contents[l]) THEN UNCHANGED Contents ELSE C!RemoveItem(l, i + 1)
         /\ stackQueueRemoveAt(l, i) => C!RemoveItem(l, i + 1)
         /\ \A x \in Items : /\ stackQueueSetAt(l, i, x) => C!SetItem(l, i + 1, x)
                             /\ stackQueueEnqueueAfterIndex(l, i, x) => C!InsertItem(l, i + 2, x)
HashKeeps ==
    /\ \A k \in Keys :
         /\ hashTableRemove(k) => k \in DOMAIN Table /\ C!Delete(k)
         /\ \A x \in Values : /\ hashTablePut(k, x) => k \notin DOMAIN Table /\ C!Store(k, x)
                              /\ hashTableUpsert(k, x) => C!Store(k, x)
    /\ hashTableClear \/ hashTableFree => C!Forget
BitsKeep == \A v \in BOOLEAN : /\ bitFieldReset(v) => C!MarkAll(v)
                               /\ \A b \in Bits : bitFieldSet(b, v) => C!Mark(b, v)

\* The pointers of the linked lists, the buckets of the hash table and the bytes of the bit
\* field always stand for sequences, a function and a set of flags, and every operation
\* (doubleListInsertItemBefore, singleListDeleteNode, stackQueueRemoveItem, hashTableUpsert,
\* bitFieldSet and the others) does to those what its name and arguments say: that item at that
\* place, that node, that key, that bit, and nothing else.
CollectionsRefine ==
    /\ C!Spec
    /\ [][CASE part = "double" -> DoubleKeeps [] part = "single" -> SingleKeeps [] part = "hash" -> HashKeeps
            [] part = "bits" -> BitsKeep [] OTHER -> TRUE]_vars

-----------------------------------------------------------------------------
(* ACKs: keys in any order, nested values, white space, an error without its id, a key twice *)

Pair(k, v) == <<"'", k, "'", ":">> \o v
Quoted(w) == <<"'", w, "'">>
Text(a) == <<"{">> \o a \o <<"}">>
Fragment(type, t) == Pair("EventType", Quoted(type)) \o <<",">> \o Pair("FragmentTimecode", t)
Says(type, t, r) == [type |-> type, number |-> << >>, timecode |-> t, result |-> r]
Nested == Pair("Other", <<"{", "{", "}", "}">>)
Listed == Pair("Other", <<"[", "[", "]", "]">>)
Received1 == [text |-> Text(Fragment("RECEIVED", <<"1", "2">>)), says |-> <<Says("RECEIVED", <<"1", "2">>, OK)>>]
Idle0 == [text |-> Text(Pair("EventType", Quoted("IDLE"))), says |-> <<Says("IDLE", << >>, OK)>>]
Error2 == [text |-> Text(Fragment("ERROR", <<"2">>) \o <<",">> \o Pair("ErrorId", <<"4", " ">>)),
           says |-> <<Says("ERROR", <<"2">>, <<"4">>)>>]
Nest3 == [text |-> Text(Nested \o <<",">> \o Fragment("PERSISTED", <<"3">>)), says |-> <<Says("PERSISTED", <<"3">>, OK)>>]
List4 == [text |-> Text(Pair("EventType", Quoted("IDLE")) \o <<",">> \o Listed), says |-> <<Says("IDLE", << >>, OK)>>]
Twice == [text |-> Text(Fragment("RECEIVED", <<"5">>) \o <<",">> \o Pair("EventType", Quoted("RECEIVED"))), says |-> << >>]
NoId == [text |-> Text(Fragment("ERROR", <<"6">>)), says |-> << >>]
Both(s, t) == [text |-> s.text \o <<" ">> \o t.text, says |-> s.says \o t.says]
MCTexts == [h \in Handles |->
    IF h = "h1" THEN {Both(Received1, Error2), Both(Nest3, Idle0), Both(List4, Received1), Both(Twice, Idle0), Both(NoId, Idle0)}
    ELSE {Idle0}]

(* Retries without end and a few, every kind of jitter, one configuration out of bounds *)
Config(max, n, j) == [maxWait |-> max, factor |-> 1, timeToReset |-> 18, maxCount |-> n, jitter |-> j, jitterFactor |-> 1]
MCConfigs == {Config(5, Infinite, "FULL"), Config(4, 3, "FIXED"), Config(2, Infinite, "NONE"), Config(9, 2, "NONE")}

(* Zeros, ones, a start code, an SPS, a PPS, an IDR slice *)
MCPieces == {<<0>>, <<1>>, <<0, 0, 1>>, <<103, 9, 9, 9>>, <<104>>, <<101>>}

(* Three keys of one bucket *)
MCBucketOf == [k \in Keys |-> k % 2]

(* An audio track that gets its private data late; video with an audio track that has them *)
Track(type) == [type |-> type, cpd |-> 0, present |-> FALSE, name |-> 5, codecId |-> IF type = "video" THEN 15 ELSE 0,
                config |-> FALSE, bitDepth |-> FALSE]
MCTracks == {<<Track("audio")>>,
             <<Track("video"), [Track("audio") EXCEPT !.cpd = 18, !.present = TRUE, !.config = TRUE, !.bitDepth = TRUE]>>}
\* Around the largest size of one byte, and one too large for the data offset.
MCCpdSizes == <<{0, 126, 127, 70000}, {}>>
Tag(p, n, v) == [parent |-> p, name |-> n, value |-> v]
MCTagQueues == {<< >>, <<Tag("TAGS", 3, 0), Tag("SIMPLE", 7, 128), Tag("SIMPLE", 1, 0), Tag("TAGS", 9, 4)>>,
                <<Tag("TAGS", 9, 4), Tag("TAGS", 3, 0), Tag("SIMPLE", 2, 2)>>}

(* Bytes of every length modulo 3 and 4; signs, spaces, digits and letters; durations of any components *)
UpTo(S, n) == UNION {[1..k -> S] : k \in 0..n}
Components == <<<<"Y", 365 * 86400>>, <<"M", 31 * 86400>>, <<"W", 7 * 86400>>, <<"D", 86400>>, <<"H", 3600>>, <<"M", 60>>, <<"S", 1>>>>
Amounts == [none |-> << >>, two |-> <<"2">>, half |-> <<"1", ".", "5">>]
Halves == [none |-> 0, two |-> 4, half |-> 3]
DurationText(v) ==
    <<"P">> \o FlattenSeq([i \in 1..7 |-> (IF i = 5 /\ \E j \in 5..7 : v[j] # "none" THEN <<"T">> ELSE << >>)
                                        \o (IF v[i] = "none" THEN << >> ELSE Append(Amounts[v[i]], Components[i][1]))])
DurationOf(v) == FoldLeft(LAMBDA n, i : n + (Halves[v[i]] * Components[i][2] * Ticks) \div 2, 0, [i \in 1..7 |-> i])
MCDurations == {w \in [1..7 -> DOMAIN Amounts] : w[1] # "half" /\ \E i \in 1..7 : w[i] # "none"}
MCData == {[kind |-> "bytes", v |-> b] : b \in UpTo({0, 63, 255, 77}, 5)} \cup {[kind |-> "text", v |-> s] : s \in UpTo({45, 32, 48, 55, 97, 90}, 4)}
          \cup {[kind |-> "number", n |-> k] : k \in 0..255} \cup {[kind |-> "product", n |-> k] : k \in 0..63}
          \cup {[kind |-> "duration", text |-> DurationText(v), means |-> DurationOf(v)] : v \in MCDurations}

(* Files and directories with entries that cannot be removed or looked at, at two depths *)
Entry(kind, size, entries, stuck, to) == [kind |-> kind, size |-> size, entries |-> entries, stuck |-> stuck, to |-> to]
PlainFile(n) == Entry("file", n, << >>, FALSE, "none")
Leaves == {PlainFile(1), PlainFile(3), Entry("file", 2, << >>, TRUE, "none"), Entry("link", 2, << >>, FALSE, "file"),
           Entry("link", 0, << >>, FALSE, "nothing"), Entry("socket", 0, << >>, FALSE, "none")}
Directories == {Entry("dir", 0, l, FALSE, "none") : l \in UpTo(Leaves, 2)}
               \cup {Entry("dir", 0, <<PlainFile(1)>>, TRUE, "none"), Entry("dir", 0, <<Entry("dir", 0, <<PlainFile(3)>>, FALSE, "none")>>, FALSE, "none")}
MCTrees == {l \o <<d>> \o m : l \in UpTo(Leaves, 1), d \in Directories, m \in UpTo(Leaves, 1)}
MCBuffers == {<< >>, <<7>>, <<8, 9>>}
================================================================================
