--------------------------------- MODULE Setup ----------------------------------
(***************************************************************************)
(* What becomes of a configuration: the device and the client info with    *)
(* their versions, sentinels and callbacks, the stream info, its tags and  *)
(* tracks, the memory laid out for them, and the packager that is made     *)
(* from the stored copy and may be made again (InputValidator.c, Tags.c,   *)
(* createKinesisVideoClient, createStream, setNalAdaptationFlags).         *)
(* A string is its length, NULL the empty sequence or set.                 *)
(***************************************************************************)
EXTENDS Integers, Sequences, SequencesExt, FiniteSets

CONSTANTS Devices,          \* device infos with their callbacks, as applications give them
          StreamInfos,      \* stream infos
          Formats           \* codec private data set later

Success == "SUCCESS"
InvalidTime == 1000             \* INVALID_TIMESTAMP_VALUE, above every other time
RoundUp8(n) == 8 * ((n + 7) \div 8)

\* Limits and defaults; times in seconds.
MaxTagCount == 50
MaxTagName == 128
MaxTagValue == 1024
TagStruct == 24
TAG_FULL_LENGTH == TagStruct + MaxTagName + MaxTagValue + 2
PointerSize == 8
TrackInfoSize == 120
UuidLength == 16
DefaultConnection == 5
DefaultCompletion == 10
DefaultTimeouts == [createClient |-> 15, createStream |-> 30, stopStream |-> 120, offlineBuffer |-> 15]
MinViewBuffer == 20
MinViewItems == 10

RetryFunctions == {"create", "free", "execute", "count"}
ServiceCalls == {"createStream", "describeStream", "getStreamingEndpoint", "putStream", "getStreamingToken", "createDevice"}
SystemDefaults == {"getCurrentTime", "getRandomNumber", "createMutex", "lockMutex", "unlockMutex", "tryLockMutex", "freeMutex",
                   "createConditionVariable", "signalConditionVariable", "broadcastConditionVariable", "waitConditionVariable",
                   "freeConditionVariable"}
NoopDefaults == {"streamReady", "streamClosed", "clientReady", "streamDataAvailable", "clientShutdown", "streamShutdown"}
ClientCallbacks == ServiceCalls \cup SystemDefaults \cup NoopDefaults \cup {"tagResource"}

\* What applications give, of whatever version; a field that is only checked is whether it passes.
Tags == [count : Nat, list : Seq([version : Nat, name : Nat, value : Nat])]
ClientInfo == [version : Nat, timeouts : [DOMAIN DefaultTimeouts -> Nat], connection : Nat, completion : Nat, period : Nat,
               intermittent : BOOLEAN, logLevel : Nat, metricPeriod : Nat, retry : SUBSET RetryFunctions]
StorageInfo == [version : Nat, size : BOOLEAN, spillRatio : Nat, root : BOOLEAN]
DeviceInfo == [version : Nat, name : BOOLEAN, tags : Tags, storage : StorageInfo, streamCount : Nat, clientId : BOOLEAN,
               info : ClientInfo, callbacksVersion : Nat, callbacks : SUBSET ClientCallbacks]
TrackInfo == [id : Nat, kind : {"video", "audio"}, cpd : {"none", "plain", "odd"}]
StreamCaps == [type : {"REALTIME", "NEAR_REALTIME", "OFFLINE"}, contentTypeFits : BOOLEAN, flags : SUBSET {"ANNEXB", "AVCC", "ANNEXB_CPD"},
               keyFrames : BOOLEAN, fragment : Nat, acks : BOOLEAN, buffer : Nat, replay : Nat, staleness : Nat, latency : Nat,
               timecodeScale : Nat, frameRate : Nat, uuid : {"none", "given", "zeros"}, tracks : Seq(TrackInfo),
               order : {"PASS_THROUGH", "PTS_ONE_MS"}, storePolicy : {"OOM", "DROP"}, viewPolicy : {"DROP_TAIL_ITEM", "DROP_UNTIL_FRAGMENT"},
               allowCreation : BOOLEAN]
StreamInfo == [version : Nat, name : Nat, retention : Nat, tags : Tags, caps : StreamCaps]
ASSUME SetupAssumption == Devices \subseteq DeviceInfo /\ StreamInfos \subseteq StreamInfo

VARIABLES client,       \* the client's copy of its configuration, or NoClient
          streams       \* the streams in the order of their creation
setupVars == <<client, streams>>
NoClient == << >>

\* The status of the first check that does not hold.
Verdict(checks) == LET i == SelectInSeq(checks, LAMBDA c : ~c[1]) IN IF i = 0 THEN Success ELSE checks[i][2]

-----------------------------------------------------------------------------
(* Tags *)

validateTags(t) ==
    Verdict(<<<<t.count <= MaxTagCount, "MAX_TAG_COUNT">>, <<t.count = 0 \/ t.list # << >>, "TAGS_NULL">>>>
            \o FlattenSeq([i \in DOMAIN t.list |->
                 <<<<t.list[i].version <= 0, "INVALID_TAG_VERSION">>, <<t.list[i].name <= MaxTagName, "INVALID_TAG_NAME_LEN">>,
                   <<t.list[i].value <= MaxTagValue, "INVALID_TAG_VALUE_LEN">>>>]))
validateClientTags(t) == validateTags(t)

\* Without a destination: room for the longest tags.  Otherwise what they take, rounded up.
PackedSize(list) == FoldLeft(LAMBDA n, t : n + t.name + 1 + t.value + 1, TagStruct * Len(list), list)
packageTags(t, room, toBuffer) ==
    IF ~toBuffer \/ t.count = 0 THEN [status |-> Success, size |-> t.count * TAG_FULL_LENGTH]
    ELSE IF room < PackedSize(t.list) THEN [status |-> "NOT_ENOUGH_MEMORY", size |-> 0]
    ELSE [status |-> Success, size |-> RoundUp8(PackedSize(t.list))]

-----------------------------------------------------------------------------
(* The client *)

validateClientCallbacks(d) ==
    [status |-> Verdict(<<<<d.callbacksVersion <= 0, "INVALID_CALLBACKS_VERSION">>,
                          <<ServiceCalls \subseteq d.callbacks, "SERVICE_CALL_CALLBACKS_MISSING">>,
                          <<d.tags.count = 0 \/ "tagResource" \in d.callbacks, "SERVICE_CALL_CALLBACKS_MISSING">>>>),
     callbacks |-> d.callbacks \cup SystemDefaults \cup NoopDefaults]

validateClientInfo(c) == Verdict(<<<<c.version <= 3, "INVALID_CLIENT_INFO_VERSION">>>>)
validateDeviceInfo(d) ==
    Verdict(<<<<d.version <= 1, "INVALID_DEVICE_INFO_VERSION">>, <<d.streamCount <= 1000000, "MAX_STREAM_COUNT">>,
              <<d.streamCount > 0, "MIN_STREAM_COUNT">>, <<d.storage.version <= 0, "INVALID_STORAGE_INFO_VERSION">>,
              <<d.storage.size, "INVALID_STORAGE_SIZE">>, <<d.storage.spillRatio <= 100, "INVALID_SPILL_RATIO">>,
              <<d.storage.root, "INVALID_ROOT_DIRECTORY_LENGTH">>, <<d.name, "INVALID_DEVICE_NAME_LENGTH">>,
              <<validateClientTags(d.tags) = Success, validateClientTags(d.tags)>>,
              <<d.version # 1 \/ d.clientId, "INVALID_CLIENT_ID_STRING_LENGTH">>,
              <<d.version # 1 \/ validateClientInfo(d.info) = Success, "INVALID_CLIENT_INFO_VERSION">>>>)

\* Mutant: a completion timeout shorter than the connection timeout is kept.
MutServiceTimeouts(connection, completion) ==
    [connection |-> IF connection \in {0, InvalidTime} THEN DefaultConnection ELSE connection,
     completion |-> IF completion \in {0, InvalidTime} THEN DefaultCompletion ELSE completion]

\* Compared with each other before each is looked at for itself.
ServiceTimeouts(connection, completion) ==
    LET swapped == connection > completion
        first   == IF swapped THEN DefaultConnection ELSE connection
        second  == IF swapped THEN DefaultCompletion ELSE completion
    IN [connection |-> IF first \in {0, InvalidTime} THEN DefaultConnection ELSE first,
        completion |-> IF second \in {0, InvalidTime} THEN DefaultCompletion ELSE second]

\* A version 0 device info has no client info; fields of later versions keep their defaults.
fixupClientInfo(given, c) ==
    LET services == CASE ~given -> ServiceTimeouts(0, 0)
                      [] given /\ c.version >= 3 -> ServiceTimeouts(c.connection, c.completion)
                      [] OTHER -> ServiceTimeouts(DefaultConnection, DefaultCompletion)
        period == IF given /\ c.version >= 2 THEN c.period ELSE 0
        Timeout(name) == IF given /\ c.timeouts[name] \notin {0, InvalidTime} THEN c.timeouts[name] ELSE DefaultTimeouts[name]
    IN [timeouts |-> [name \in DOMAIN DefaultTimeouts |-> Timeout(name)],
        connection |-> services.connection, completion |-> services.completion,
        period |-> IF period = 0 THEN 5 ELSE period,
        intermittent |-> ~(given /\ c.version >= 2) \/ c.intermittent,
        logLevel |-> IF given /\ c.logLevel \in 1..8 THEN c.logLevel ELSE 4,
        metricPeriod |-> IF given /\ c.version >= 1 THEN c.metricPeriod ELSE 0,
        retry |-> IF given THEN c.retry ELSE {}]

fixupDeviceInfo(d) == [info |-> fixupClientInfo(d.version = 1, d.info), tags |-> d.tags, streamCount |-> d.streamCount]

\* The strategy of the application needs all of its functions; otherwise all are the library's.
configureClientWithRetryStrategy(info) ==
    [info EXCEPT !.retry = IF RetryFunctions \subseteq @ THEN [from |-> "application", has |-> @] ELSE [from |-> "library", has |-> RetryFunctions]]

\* The structure, the stream pointers, the tags.
createKinesisVideoClient(d) ==
    LET checked == validateClientCallbacks(d)
        tagsSize == packageTags(d.tags, 0, FALSE).size
        fixed == fixupDeviceInfo(d)
        packed == packageTags(d.tags, tagsSize, TRUE)
    IN /\ client = NoClient /\ validateDeviceInfo(d) = Success /\ checked.status = Success /\ packed.status = Success
       /\ client' = [info |-> configureClientWithRetryStrategy(fixed.info), callbacks |-> checked.callbacks, streamCount |-> d.streamCount,
                     tags |-> d.tags, asked |-> d.info, allocated |-> d.streamCount * PointerSize + tagsSize,
                     end |-> d.streamCount * PointerSize + PackedSize(d.tags.list)]
       /\ UNCHANGED streams
\* Refused: nothing is left of the client.
CreateClientFails(d) ==
    /\ client = NoClient /\ (validateDeviceInfo(d) # Success \/ validateClientCallbacks(d).status # Success)
    /\ UNCHANGED setupVars

-----------------------------------------------------------------------------
(* A stream *)

\* Written back into what the caller gave; the last checks come behind the first changes.
Adjusted(s) ==
    LET offline == s.caps.type = "OFFLINE" IN
    [s EXCEPT !.caps.timecodeScale = IF @ = 0 THEN 1 ELSE @,
              !.caps.replay = IF s.caps.buffer < @ THEN s.caps.buffer ELSE @,
              !.caps.frameRate = IF @ = 0 THEN 24 ELSE @,
              !.caps.staleness = IF offline THEN 0 ELSE @, !.caps.latency = IF offline THEN 0 ELSE @]
validateStreamInfo(s) ==
    LET tracks == s.caps.tracks IN
    Verdict(<<<<s.version <= 3, "INVALID_STREAM_INFO_VERSION">>, <<s.name <= 256, "INVALID_STREAM_NAME_LENGTH">>,
              <<s.retention = 0 \/ s.retention >= 3600, "INVALID_RETENTION_PERIOD">>,
              <<validateClientTags(s.tags) = Success, validateClientTags(s.tags)>>,
              <<s.tags.count = 0 \/ "tagResource" \in client.callbacks, "SERVICE_CALL_CALLBACKS_MISSING">>,
              <<tracks # << >>, "TRACK_INFO_MISSING">>, <<Len(tracks) <= 3, "MAX_TRACK_COUNT_EXCEEDED">>,
              <<\A i, j \in DOMAIN tracks : tracks[i].id = tracks[j].id => i = j, "DUPLICATE_TRACK_ID_FOUND">>,
              <<s.caps.type # "OFFLINE" \/ (s.retention # 0 /\ s.caps.acks), "OFFLINE_MODE_WITH_ZERO_RETENTION">>>>)

\* Fields an older version does not have get their defaults in the stream's copy.
fixupStreamInfo(s) ==
    LET both == [i \in DOMAIN s.caps.tracks |-> s.caps.tracks[i].kind] \in {<<"video", "audio">>, <<"audio", "video">>}
    IN [s EXCEPT !.version = 3,
                 !.caps.order = IF s.version > 0 THEN @ ELSE IF both THEN "PTS_ONE_MS" ELSE "PASS_THROUGH",
                 !.caps.storePolicy = IF s.version > 1 THEN @ ELSE "OOM",
                 !.caps.viewPolicy = IF s.version > 1 THEN @ ELSE "DROP_TAIL_ITEM",
                 !.caps.allowCreation = s.version <= 2 \/ @]

\* Frames in the buffer, or fragments; a fragment of length 0 has no defined outcome.
calculateViewItemCount(c) ==
    IF c.type = "NEAR_REALTIME" THEN c.buffer \div c.fragment ELSE c.frameRate * c.buffer

\* What the packager takes, and which private data of the tracks it cannot adapt.
PackagerAccepts(c) ==
    /\ c.keyFrames \/ c.fragment \in 1..30
    /\ ~({"ANNEXB", "AVCC"} \subseteq c.flags)
    /\ c.timecodeScale \in 1..1000 /\ c.contentTypeFits
    /\ \A i \in DOMAIN c.tracks : c.tracks[i].id # 0
CannotAdapt(c) == {i \in DOMAIN c.tracks : c.tracks[i].cpd = "odd" /\ c.tracks[i].kind = "video" /\ "ANNEXB_CPD" \in c.flags}

\* The private data of the tracks are adapted in turn, behind a check of the segment id.
createPackager(c) ==
    [ok |-> PackagerAccepts(c) /\ c.uuid # "zeros" /\ CannotAdapt(c) = {}, cpd |-> [i \in DOMAIN c.tracks |-> c.tracks[i].cpd]]

NamesTaken == {streams[i].name : i \in DOMAIN streams}
\* 0 stands for a name left out, which becomes a random one.
NameOf(s) == IF s.name = 0 THEN 1000 + Len(streams) ELSE s.name

\* Behind the object: room for the longest tags, the tracks and the segment id.
StreamRoom(s) == packageTags(s.tags, 0, FALSE).size + TrackInfoSize * Len(s.caps.tracks) + UuidLength
\* What is put there: the tags, the segment id behind them, then the tracks.
StreamEnd(s) == packageTags(s.tags, packageTags(s.tags, 0, FALSE).size, TRUE).size + UuidLength + TrackInfoSize * Len(s.caps.tracks)

StreamAccepted(s) ==
    /\ validateStreamInfo(s) = Success
    /\ Len(streams) < client.streamCount /\ NameOf(s) \notin NamesTaken
    /\ packageTags(s.tags, packageTags(s.tags, 0, FALSE).size, TRUE).status = Success

\* A buffer of length 0 is one of the least length; the replay keeps the bound it got before.
StoredInfo(s) == [fixupStreamInfo(Adjusted(s)) EXCEPT !.caps.buffer = IF @ <= 0 THEN MinViewBuffer ELSE @]

\* The view takes its policy, and the stream its leave to create, from what the caller gave.
CreateStream(s) ==
    LET stored == StoredInfo(s)
        packager == createPackager(stored.caps)
    IN /\ client # NoClient
       /\ streams' = IF StreamAccepted(s) /\ calculateViewItemCount(stored.caps) > MinViewItems /\ packager.ok
                     THEN Append(streams, [info |-> stored, asked |-> s, name |-> NameOf(s), allow |-> s.caps.allowCreation,
                                           viewPolicy |-> s.caps.viewPolicy, items |-> calculateViewItemCount(stored.caps),
                                           allocated |-> StreamRoom(s), end |-> StreamEnd(s),
                                           packager |-> [live |-> TRUE, flags |-> stored.caps.flags, cpd |-> packager.cpd]])
                     ELSE streams
       /\ UNCHANGED client

\* Not while streaming: only the packager learns of it.
streamFormatChanged(i, t, f) ==
    /\ streams[i].packager.live /\ t \in DOMAIN streams[i].info.caps.tracks
    /\ streams' = [streams EXCEPT ![i].packager.cpd[t] = f]
    /\ UNCHANGED client

\* The packager is freed first and made again from the stream's copy of the tracks.
setNalAdaptationFlags(i, flags) ==
    LET caps == [streams[i].info.caps EXCEPT !.flags = flags]
        p == createPackager(caps)
    IN /\ streams[i].packager.live
       /\ streams' = [streams EXCEPT ![i].info.caps = caps,
                                     ![i].packager = [live |-> p.ok, flags |-> flags, cpd |-> p.cpd]]
       /\ UNCHANGED client

SetupInit == client = NoClient /\ streams = << >>
AllFlags == {{}, {"ANNEXB", "ANNEXB_CPD"}, {"AVCC"}, {"ANNEXB", "AVCC"}}
SetupNext ==
    \/ \E d \in Devices : createKinesisVideoClient(d) \/ CreateClientFails(d)
    \/ \E s \in StreamInfos : CreateStream(s)
    \/ \E i \in DOMAIN streams :
         \/ \E t \in 1..2, f \in Formats : streamFormatChanged(i, t, f)
         \/ \E flags \in AllFlags : setNalAdaptationFlags(i, flags)

-----------------------------------------------------------------------------
(* Properties *)

\* Called by the library without a look whether they are there.
CalledUnchecked == ServiceCalls \cup SystemDefaults \cup NoopDefaults

ClientUsable ==
    /\ \A name \in DOMAIN DefaultTimeouts : client.info.timeouts[name] \in 1..(InvalidTime - 1)
    /\ client.info.connection \in 1..(InvalidTime - 1) /\ client.info.completion \in 1..(InvalidTime - 1)
    /\ client.info.connection <= client.info.completion \/ client.asked.connection = 0 \/ client.asked.completion = InvalidTime
    /\ client.info.period > 0 /\ client.info.logLevel \in 1..8
    /\ RetryFunctions \subseteq client.info.retry.has /\ CalledUnchecked \subseteq client.callbacks
    /\ client.end <= client.allocated
StreamUsable(s) ==
    LET caps == s.info.caps IN
    /\ caps.buffer > 0 /\ caps.replay <= caps.buffer /\ caps.timecodeScale > 0 /\ s.items > MinViewItems
    /\ s.info.tags.count > 0 => "tagResource" \in client.callbacks
    /\ caps.type = "OFFLINE" => s.info.retention > 0 /\ caps.acks /\ caps.staleness = 0 /\ caps.latency = 0
    /\ s.end <= s.allocated \/ \A i \in DOMAIN s.info.tags.list : s.info.tags.list[i].value = MaxTagValue
    /\ s.packager.live => s.packager.flags = caps.flags
    /\ s.asked.version = 3 => s.viewPolicy = caps.viewPolicy /\ s.allow = caps.allowCreation

\* Whatever an application of any version asks for, what is accepted can be worked with
\* (createKinesisVideoClient, createStream): every timeout is one, every function called is
\* there, an OFFLINE stream is persisted and not cut short, what is laid out behind an object
\* fits into its allocation, and no two streams have one name.  Three cases are left out that
\* the code gets wrong: one of the service call timeouts given and the other left to its
\* default, tags of the greatest length, and fields that an older stream info does not have.
SetupUsable ==
    /\ client # NoClient => ClientUsable /\ Len(streams) <= client.streamCount
    /\ \A i \in DOMAIN streams : StreamUsable(streams[i]) /\ \A j \in DOMAIN streams : streams[i].name = streams[j].name => i = j
=============================================================================
