------------------------------ MODULE TrackConfig -------------------------------
(***************************************************************************)
(* What a track says of itself (mkvgen/src/MkvGenerator.c): the content    *)
(* types of a stream, the codec private data as stored and the resolution  *)
(* or the audio configuration derived from them, and the private data that *)
(* are generated for AAC and PCM.                                          *)
(***************************************************************************)
EXTENDS SpsParser

CONSTANT Samples        \* tracks: content type, kind, private data, and what they say

VARIABLE sample
configVars == <<sample>>

-----------------------------------------------------------------------------
(* Content types: a string is a sequence of words and delimiters *)

ContentTypes == {"video/h264", "audio/aac", "audio/alaw", "audio/mulaw", "video/h265", "video/x-matroska", "audio/x-matroska"}

mkvgenGetContentTypeFromContentTypeTokenString(token) ==
    IF token = << >> THEN {} ELSE IF Len(token) = 1 /\ token[1] \in ContentTypes THEN {token[1]} ELSE {"unknown"}

mkvgenGetContentTypeFromContentTypeString(str) ==
    LET ends == {i \in 1..Len(str) : str[i] = ","} \cup {Len(str) + 1}
        Start(e) == CHOOSE s \in {d + 1 : d \in ends \cup {0}} : s <= e /\ \A d \in ends : d < s \/ d >= e
    IN UNION {mkvgenGetContentTypeFromContentTypeTokenString(SubSeq(str, Start(e), e - 1)) : e \in ends}

-----------------------------------------------------------------------------
(* Audio *)

Frequencies == <<96000, 88200, 64000, 48000, 44100, 32000, 24000, 22050, 16000, 12000, 11025, 8000, 7350>>
NoAudio == <<0, 0, 0>>      \* sampling frequency, channels, bit depth

\* 5 bits for the object type, 4 for the frequency's index, 4 for the channels, 3 unused.
getSamplingFreqAndChannelFromAacCpd(cpd) ==
    IF Len(cpd) < 2 THEN {}
    ELSE LET channels == (Half(cpd, 1) \div 8) % 16
             index    == (Half(cpd, 1) \div 128) % 16
         IN IF channels >= 8 \/ index >= Len(Frequencies) THEN {}
            ELSE {<<Frequencies[index + 1], channels, 0>>}

mkvgenGenerateAacCpd(objectType, frequency, channels) ==
    IF channels \notin 1..7 THEN {}
    ELSE {LET w == (objectType * 2048 + (i - 1) * 128 + channels * 8) % 65536 IN <<w \div 256, w % 256>>
          : i \in {SelectInSeq(Frequencies, LAMBDA f : f = frequency)} \ {0}}

LittleEndian(n, bytes) == [i \in 1..bytes |-> (n \div 256^(i - 1)) % 256]
FromLittleEndian(a, at, bytes) == FoldLeft(LAMBDA v, i : 256 * v + a[at + bytes - i], 0, [i \in 1..bytes |-> i])
WavFormats == {6, 7}            \* A-law, mu-law

getAudioConfigFromAmsAcmCpd(cpd) ==
    IF Len(cpd) < 16 THEN {}
    ELSE IF FromLittleEndian(cpd, 1, 2) \notin WavFormats THEN {}
    ELSE {<<FromLittleEndian(cpd, 5, 4), FromLittleEndian(cpd, 3, 2), FromLittleEndian(cpd, 15, 2)>>}

\* The bit depth and the extra data stay 0.
mkvgenGeneratePcmCpd(format, rate, channels) ==
    IF format \notin WavFormats \/ rate \notin 8000..192000 \/ channels \notin {1, 2} THEN {}
    ELSE {LittleEndian(format, 2) \o LittleEndian(channels, 2) \o LittleEndian(rate, 4)
            \o LittleEndian((channels * rate) \div 8, 4) \o LittleEndian(channels, 2) \o Zeros(4)}

-----------------------------------------------------------------------------
(* Codec private data *)

\* The first units, three at most and two at least, or none when a length leads outside.
FirstUnits(a) ==
    LET run[n \in 0..3] ==
            IF n = 0 THEN [units |-> << >>, at |-> 1, ok |-> TRUE]
            ELSE LET r == run[n - 1] IN
                 IF r.at > Len(a) \/ ~r.ok THEN r
                 ELSE IF r.at + 3 > Len(a) \/ r.at + 3 + Word(a, r.at) > Len(a) THEN [r EXCEPT !.ok = FALSE]
                 ELSE [r EXCEPT !.units = Append(@, SubSeq(a, r.at + 4, r.at + 3 + Word(a, r.at))),
                                !.at = @ + 4 + Word(a, r.at)]
    IN IF run[3].ok /\ Len(run[3].units) >= 2 THEN run[3].units ELSE << >>

\* HEVC_CPD_HEADER_OVERHEAD and HEVC_CPD_ENTRY_OVERHEAD per unit.
H265CpdSize(units) == 23 + FoldLeft(LAMBDA n, u : n + 5 + Len(u), 0, units)

\* 13 bytes that the SPS says, chroma format and bit depths among fixed ones.
HvccHeader(info, units) ==
    <<1>> \o info.general \o <<240, 0, 252, 252 + (info.chroma % 4), 248 + (info.depths[1] % 8), 248 + (info.depths[2] % 8), 0, 0, 15, units>>

\* Then an array of one unit each for VPS, SPS and PPS.  Two passes: the size, which does not
\* look into the SPS, then the bytes.
UnitsOfH265Cpd(cpd) == {u \in {FirstUnits(r.out) : r \in adaptFrameNalsFromAnnexBToAvcc(cpd)} : u # << >> /\ Len(cpd) >= 15}
adaptH265CpdNalsFromAnnexBToHvcc(cpd) ==
    {HvccHeader(p[2], Len(p[1])) \o FlattenSeq([i \in DOMAIN p[1] |-> <<31 + i, 0, 1, 0, Len(p[1][i])>> \o p[1][i]])
     : p \in UNION {{<<u, info>> : info \in parseH265Sps(u[2])} : u \in UnitsOfH265Cpd(cpd)}}

\* The size reserved in the first pass (none: refused), and what the second one writes.
Reserved(types, kind, adapt, cpd) ==
    IF kind = "video" /\ adapt /\ "video/h264" \in types THEN IF Len(cpd) < 11 THEN {} ELSE {H264CpdSize(cpd)}
    ELSE IF kind = "video" /\ adapt /\ "video/h265" \in types THEN {H265CpdSize(u) : u \in UnitsOfH265Cpd(cpd)}
    ELSE {Len(cpd)}
Stored(types, kind, adapt, cpd) ==
    IF kind = "video" /\ adapt /\ "video/h264" \in types THEN adaptH264CpdNalsFromAnnexBToAvcc(cpd)
    ELSE IF kind = "video" /\ adapt /\ "video/h265" \in types THEN adaptH265CpdNalsFromAnnexBToHvcc(cpd)
    ELSE IF kind = "video" /\ adapt THEN {}      \* allocated and not written
    ELSE {cpd}

\* From what is stored; private data that say nothing leave zeros and are not an error.
Known(found, none) == Head(SetToSeq(found) \o <<none>>)
VideoConfig(types, codecId, cpd) ==
    Known(CASE "video/h264" \in types -> getVideoWidthAndHeightFromH264Sps(cpd)
            [] "video/h264" \notin types /\ "video/h265" \in types -> getVideoWidthAndHeightFromH265Sps(cpd)
            [] types \cap {"video/h264", "video/h265"} = {} /\ "video/x-matroska" \in types /\ codecId = "V_MS/VFW/FOURCC" ->
                 getVideoWidthAndHeightFromBih(cpd)
            [] OTHER -> {},
          <<0, 0>>)
AudioConfig(types, cpd) ==
    Known(CASE "audio/aac" \in types -> getSamplingFreqAndChannelFromAacCpd(cpd)
            [] "audio/aac" \notin types /\ types \cap {"audio/alaw", "audio/mulaw"} # {} -> getAudioConfigFromAmsAcmCpd(cpd)
            [] OTHER -> {},
          NoAudio)

mkvgenAdaptCodecPrivateData(types, kind, codecId, adapt, cpd) ==
    IF cpd = << >> THEN {}
    ELSE {[cpd |-> w, reserved |-> n,
           says |-> IF kind = "video" THEN VideoConfig(types, codecId, w) ELSE AudioConfig(types, w)]
          : n \in Reserved(types, kind, adapt, cpd), w \in Stored(types, kind, adapt, cpd)}

\* Only a frame that comes in Annex-B changes its size.
getAdaptedFrameSize(f, adaptation) ==
    IF adaptation = "ANNEXB" THEN {r.size : r \in adaptFrameNalsFromAnnexBToAvcc(f)} ELSE {Len(f)}

ConfigInit == sample \in Samples

-----------------------------------------------------------------------------
(* Properties *)

\* What a track is, is recovered from its codec private data (mkvgenAdaptCodecPrivateData):
\* whichever container they come in (Annex-B, AVCC or HVCC, bare, a bitmap header, or what
\* mkvgenGenerateAacCpd and mkvgenGeneratePcmCpd have made), in a stream of several content
\* types and with adaptation or without, they are stored in the room that the size pass
\* reserved, and the width and height, or the frequency, channels and bit depth, written
\* into the track's header are the ones the encoder meant.
TrackConfigRecovered ==
    /\ \E types \in {mkvgenGetContentTypeFromContentTypeString(sample.types)} :
         \E out \in mkvgenAdaptCodecPrivateData(types, sample.kind, sample.codecId, sample.adapt, sample.cpd) :
            Len(out.cpd) <= out.reserved /\ out.says = sample.says
    /\ getAdaptedFrameSize(sample.cpd, "AVCC") = {Len(sample.cpd)}
=============================================================================
