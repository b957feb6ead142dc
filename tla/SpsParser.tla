------------------------------- MODULE SpsParser --------------------------------
(***************************************************************************)
(* The resolution of a video track from its codec private data             *)
(* (mkvgen/src/SpsParser.c), read bit by bit (utils/src/BitReader.c).      *)
(* A set that is empty stands for a call that fails.                       *)
(***************************************************************************)
EXTENDS NalAdapter

-----------------------------------------------------------------------------
(* BitReader.c: numbers stay below 2^31 *)

bitReaderReset(buffer) == [buffer |-> buffer, size |-> 8 * Len(buffer), at |-> 0, ok |-> TRUE, read |-> 0, got |-> << >>]
BitAt(r, i) == (r.buffer[i \div 8 + 1] \div 2^(7 - (i % 8))) % 2
BitsAt(r, at, n) == FoldLeft(LAMBDA v, i : 2 * v + BitAt(r, at + i - 1), 0, [i \in 1..n |-> i])
bitReaderReadBits(r, n) ==
    IF r.ok /\ r.at + n <= r.size THEN [r EXCEPT !.read = BitsAt(r, r.at, n), !.at = @ + n] ELSE [r EXCEPT !.ok = FALSE]
bitReaderReadBit(r) == bitReaderReadBits(r, 1)

\* As many bits behind the first one as there are zeros before it, 32 at most.
bitReaderReadExpGolomb(r) ==
    LET ones  == {i \in 0..31 : r.at + i < r.size /\ BitAt(r, r.at + i) = 1}
        zeros == IF ones = {} THEN 32 ELSE CHOOSE i \in ones : \A j \in ones : i <= j
        rest  == bitReaderReadBits([r EXCEPT !.at = @ + (IF zeros < 32 THEN zeros + 1 ELSE 32)], zeros)
    IN IF ~r.ok \/ (ones = {} /\ r.at + 32 > r.size) THEN [r EXCEPT !.ok = FALSE]
       ELSE IF rest.ok THEN [rest EXCEPT !.read = @ + 2^zeros - 1] ELSE rest
bitReaderReadExpGolombSe(r) ==
    LET s == bitReaderReadExpGolomb(r) IN
    [s EXCEPT !.read = IF @ % 2 = 1 THEN (@ + 1) \div 2 ELSE -(@ \div 2)]

\* Bits whose value is not looked at; more than 32 are read in portions.
SkipBits(r, n) == IF r.ok /\ r.at + n <= r.size THEN [r EXCEPT !.at = @ + n] ELSE [r EXCEPT !.ok = FALSE]
Times(n, f) == [i \in 1..n |-> f]

-----------------------------------------------------------------------------
(* What the two syntaxes have beside single fields *)

\* Eight lists; what one list ends with is where the next one begins.
ScalingLists(r) ==
    LET Entry(s, j) ==
            LET t == IF s.next = 0 THEN s.r ELSE bitReaderReadExpGolomb(s.r)
                n == IF s.next = 0 THEN 0 ELSE (s.last + t.read + 256) % 256
            IN [r |-> t, next |-> n, last |-> IF n = 0 THEN s.last ELSE n]
        List(s, i) ==
            LET present == bitReaderReadBit(s.r)
                t == [s EXCEPT !.r = present]
            IN IF ~present.ok \/ present.read = 0 THEN t ELSE FoldLeft(Entry, t, Times(IF i <= 6 THEN 16 ELSE 64, 0))
    IN FoldLeft(List, [r |-> r, next |-> 8, last |-> 8], [i \in 1..8 |-> i]).r

\* The offsets of a cycle of pictures.
Cycle(r) == FoldLeft(LAMBDA s, i : bitReaderReadExpGolombSe(s), r, Times(r.got["cycle"], 0))

\* The general part, 12 bytes, is kept; then two flags for each sub-layer and what they announce.
parseProfileTierLevel(r) ==
    LET layers == r.got["layers"]
        Flag(k) == BitAt(r, r.at + 96 + k)
        flags == SkipBits(r, 96 + (IF layers > 0 THEN 16 ELSE 0))
        Reserved(s) == [SkipBits(s, 44) EXCEPT !.ok = @ /\ \A i \in 0..43 : BitAt(s, s.at + i) = 0]
        Layer(s, i) ==
            IF ~s.ok THEN s
            ELSE SkipBits(IF Flag(2 * i - 2) = 1 THEN Reserved(SkipBits(s, 44)) ELSE s, IF Flag(2 * i - 1) = 1 THEN 8 ELSE 0)
    IN IF r.at + 96 > r.size THEN [r EXCEPT !.ok = FALSE]
       ELSE [FoldLeft(Layer, flags, [i \in 1..layers |-> i]) EXCEPT !.read = [i \in 1..12 |-> BitsAt(r, r.at + 8 * (i - 1), 8)]]

-----------------------------------------------------------------------------
(* A syntax is a list of fields.  A field is unsigned or signed Exp-Golomb,  *)
(* so many bits, or one of the above; it is there when an earlier field has  *)
(* one of the values is, and has its default otherwise.                      *)

UE == 0
SE == -1
LISTS == -2
CYCLE == -3
PROFILE == -4
If(on, is, name, f, default) == [on |-> on, is |-> is, name |-> name, f |-> f, default |-> default]
Field(name, f) == If("", {}, name, f, 0)

Decode(r, f) ==
    CASE f > 0 -> bitReaderReadBits(r, f)
      [] f = UE -> bitReaderReadExpGolomb(r)
      [] f = SE -> bitReaderReadExpGolombSe(r)
      [] f = LISTS -> ScalingLists(r)
      [] f = CYCLE -> Cycle(r)
      [] f = PROFILE -> parseProfileTierLevel(r)
ReadField(r, field) ==
    IF ~r.ok THEN r
    ELSE IF field.on # "" /\ r.got[field.on] \notin field.is THEN [r EXCEPT !.got = (field.name :> field.default) @@ @]
    ELSE LET s == Decode(r, field.f) IN [s EXCEPT !.got = (field.name :> s.read) @@ @]
Reads(buffer, syntax) == FoldLeft(ReadField, bitReaderReset(buffer), syntax)

-----------------------------------------------------------------------------
(* H.264 *)

Edges == <<"left", "right", "top", "bottom">>
ProfilesWithChroma == {44, 83, 86, 100, 110, 118, 122, 128, 138, 244}

SpsHead == <<Field("nal", 8), Field("profile", 8), Field("level", 16), Field("id", UE)>>
\* chroma_format_idc is 1 unless the profile says it.
ChromaFields ==
    <<If("profile", ProfilesWithChroma, "chroma", UE, 1), If("chroma", {3}, "planes", 1, 0)>>
    \o [i \in 1..4 |-> If("profile", ProfilesWithChroma, <<"luma", "depth", "bypass", "scaling">>[i], <<UE, UE, 1, 1>>[i], 0)]
    \o <<If("scaling", {1}, "lists", LISTS, 0)>>
OrderCountFields ==
    <<Field("frames", UE), Field("order", UE), If("order", {0}, "lsb", UE, 0)>>
    \o [i \in 1..5 |-> If("order", {1}, <<"delta", "offset", "field", "cycle", "offsets">>[i], <<1, SE, SE, UE, CYCLE>>[i], 0)]
\* The size in macro blocks, the flag frame_mbs_only and the cropping at the four edges.
SizeFields ==
    <<Field("refs", UE), Field("gaps", 1), Field("width", UE), Field("height", UE), Field("mbsOnly", 1),
      If("mbsOnly", {0}, "adaptive", 1, 0), Field("direct", 1), Field("cropping", 1)>>
    \o [i \in 1..4 |-> If("cropping", {1}, Edges[i], UE, 0)] \o <<Field("vui", 1)>>

\* Mutant: the cropping of an interlaced picture is counted in frame lines.
MutFrameSize(z) ==
    LET array == IF z.mbsOnly # 0 THEN 1 ELSE 2
        subX  == IF z.chroma \in {1, 2} THEN 2 ELSE 1
        subY  == IF z.chroma = 1 THEN 2 ELSE 1
        w == (z.width + 1) * 16 - (z.left + z.right) * subX
        h == (z.height + 1) * 16 * array - (z.top + z.bottom) * subY
    IN IF w \in 0..65535 /\ h \in 0..65535 THEN {<<w, h>>} ELSE {}

FrameSize(z) ==
    LET array == IF z.mbsOnly # 0 THEN 1 ELSE 2
        subX  == IF z.chroma \in {1, 2} THEN 2 ELSE 1
        subY  == IF z.chroma = 1 THEN 2 ELSE 1
        w == (z.width + 1) * 16 - (z.left + z.right) * subX
        h == (z.height + 1) * 16 * array - (z.top + z.bottom) * subY * array
    IN IF w \in 0..65535 /\ h \in 0..65535 THEN {<<w, h>>} ELSE {}

parseH264SpsGetResolution(sps) ==
    UNION {IF r.ok /\ H264Type(r.got["nal"], 7) THEN FrameSize(r.got) ELSE {}
           : r \in {Reads(sps, SpsHead \o ChromaFields \o OrderCountFields \o SizeFields)}}

AnnexB(cpd) == IsPrefix(<<0, 0, 0, 0, 1>>, cpd) \/ IsPrefix(<<0, 0, 0, 1>>, cpd) \/ IsPrefix(<<0, 0, 1>>, cpd)
Bytes(a, at, n) == SubSeq(a, at, at + n - 1)
Half(a, at) == a[at] * 256 + a[at + 1]
First(units, Test(_)) == {units[i] : i \in {SelectInSeq(units, Test)} \ {0}}

\* Annex-B, AVCC with one SPS, or the SPS itself.
getVideoWidthAndHeightFromH264Sps(cpd) ==
    LET units == CASE Len(cpd) < 8 -> {}
                   [] Len(cpd) >= 8 /\ AnnexB(cpd) ->
                        UNION {{Bytes(r.out, u.at, u.len) : u \in {w \in First(Walk(r.out), LAMBDA v : H264Type(v.header, 7)) : w.len <= Len(cpd)}}
                               : r \in adaptFrameNalsFromAnnexBToAvcc(cpd)}
                   [] Len(cpd) >= 8 /\ cpd[1] = 1 /\ cpd[5] = 255 /\ cpd[6] = 225 ->
                        IF Half(cpd, 7) > Len(cpd) THEN {} ELSE {Bytes(cpd, 9, Half(cpd, 7))}
                   [] OTHER -> {cpd}
    IN UNION {parseH264SpsGetResolution(sps) : sps \in units \ {<< >>}}

-----------------------------------------------------------------------------
(* H.265 *)

LowByte3 == {3 + 256 * k : k \in 0..255}       \* the chroma format is looked at in 8 bits
H265Fields ==
    <<Field("vps", 4), Field("layers", 3), Field("nesting", 1), Field("general", PROFILE), Field("id", UE), Field("chroma", UE),
      If("chroma", LowByte3, "planes", 1, 0), Field("width", UE), Field("height", UE), Field("windowed", 1)>>
    \o [i \in 1..4 |-> If("windowed", {1}, Edges[i], UE, 0)] \o <<Field("lumaDepth", UE), Field("chromaDepth", UE)>>

\* A build that handles trailing zeros (four are allowed) gives the reader the size of the SPS
\* with its emulation prevention bytes; what the adaptation has not written is as it was
\* allocated, for which all zeros and all ones stand.
Unwritten == {0, 255}
Extended(out, n) ==
    IF MaxZeros = 3 THEN {out} ELSE {out \o [i \in 1..(n - Len(out)) |-> b] : b \in Unwritten}

\* What follows the bit depths is read as well, and whether it can be read does not matter.
\* Chroma format and depths are kept in 8 bits, the size in 16.
parseH265Sps(sps) ==
    IF sps = << >> THEN {}
    ELSE {[general |-> r.got["general"], chroma |-> r.got["chroma"] % 256, width |-> r.got["width"] % 65536,
           height |-> r.got["height"] % 65536, windowed |-> r.got["windowed"], window |-> [i \in 1..4 |-> r.got[Edges[i]]],
           depths |-> <<r.got["lumaDepth"] % 256, r.got["chromaDepth"] % 256>>]
          : r \in {q \in {Reads(b, H265Fields) : b \in UNION {Extended(a.out, Len(sps)) : a \in Adapted(sps, TRUE)}} : q.ok}}

extractResolutionFromH265SpsInfo(info) ==
    LET subX == IF info.chroma \in {1, 2} THEN 2 ELSE 1
        subY == IF info.chroma = 1 THEN 2 ELSE 1
        x == IF info.windowed = 0 THEN 0 ELSE subX * (info.window[1] + info.window[2])
        y == IF info.windowed = 0 THEN 0 ELSE subY * (info.window[3] + info.window[4])
    IN IF info.windowed # 0 /\ info.chroma > 3 THEN {} ELSE {<<(info.width - x) % 65536, (info.height - y) % 65536>>}

parseH265SpsGetResolution(sps) == UNION {extractResolutionFromH265SpsInfo(info) : info \in parseH265Sps(sps)}

getH265SpsNalusFromAvccNalus(a) == First(Walk(a), LAMBDA u : u.header \div 2 = 33)

checkHevcFormatHeader(cpd) ==
    /\ Len(cpd) > 23 /\ cpd[1] = 1
    /\ cpd[14] \div 16 = 15 /\ cpd[16] \div 4 = 63 /\ cpd[17] \div 4 = 63 /\ cpd[18] \div 8 = 31 /\ cpd[19] \div 8 = 31

\* The arrays of NAL units up to the one of the SPS, which must be alone in it: the head of an
\* array says how many units follow, and a unit that is not looked for is passed over.
SpsInArrays(cpd, from) ==
    LET Fits(s) == Len(cpd) - s.at - 1 > 0 /\ Len(cpd) - s.at - 1 >= Half(cpd, s.at)
        Step(s) ==
            CASE ~s.ok \/ s.found \/ (s.units = 0 /\ Len(cpd) - s.at < 3) -> s
              [] s.units > 0 -> IF Fits(s) THEN [s EXCEPT !.at = @ + 2 + Half(cpd, s.at), !.units = @ - 1] ELSE [s EXCEPT !.ok = FALSE]
              [] s.units = 0 /\ cpd[s.at] % 64 = 33 -> [s EXCEPT !.at = @ + 3, !.found = TRUE, !.ok = Half(cpd, s.at + 1) = 1]
              [] OTHER -> [s EXCEPT !.at = @ + 3, !.units = Half(cpd, s.at + 1)]
        after[n \in 0..(Len(cpd) \div 2)] ==     \* a step takes two bytes at least
            IF n = 0 THEN [at |-> from, units |-> 0, ok |-> TRUE, found |-> FALSE] ELSE Step(after[n - 1])
    IN {Bytes(cpd, s.at + 2, Half(cpd, s.at)) : s \in {t \in {after[Len(cpd) \div 2]} : t.ok /\ t.found /\ Fits(t)}}

getVideoWidthAndHeightFromH265Sps(cpd) ==
    LET units == CASE Len(cpd) < 8 -> {}
                   [] Len(cpd) >= 8 /\ AnnexB(cpd) ->
                        UNION {{Bytes(r.out, u.at, u.len) : u \in getH265SpsNalusFromAvccNalus(r.out)} : r \in adaptFrameNalsFromAnnexBToAvcc(cpd)}
                   [] OTHER -> SpsInArrays(cpd, IF checkHevcFormatHeader(cpd) THEN 24 ELSE 1)
    IN UNION {parseH265SpsGetResolution(sps) : sps \in units}

\* The bitmap header of Motion JPEG is little-endian; 16 bits of each are kept.
getVideoWidthAndHeightFromBih(cpd) ==
    IF Len(cpd) < 40 THEN {} ELSE {<<cpd[5] + 256 * cpd[6], cpd[9] + 256 * cpd[10]>>}
=============================================================================
