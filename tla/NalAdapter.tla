------------------------------- MODULE NalAdapter -------------------------------
(***************************************************************************)
(* Frames and codec private data of H.264 and H.265 between their two      *)
(* formats (mkvgen/src/NalAdapter.c): Annex-B puts a start code 001 before *)
(* every NAL unit, AVCC the unit's length.                                 *)
(***************************************************************************)
EXTENDS Integers, Sequences, SequencesExt

CONSTANTS Pieces,       \* what the encoder puts together
          MaxPieces,    \* bound on the pieces of a frame
          MaxZeros      \* MAX_ANNEX_B_ZERO_COUNT

VARIABLES frame,        \* what the application hands over
          pieces        \* how many pieces it is made of
nalVars == <<frame, pieces>>

Zeros(n) == [i \in 1..n |-> 0]
BigEndian(n) == <<0, 0, 0, n>>
Word(s, i) == ((s[i] * 256 + s[i + 1]) * 256 + s[i + 2]) * 256 + s[i + 3]
PutWord(s, i, w) == [s EXCEPT ![i] = w[1], ![i + 1] = w[2], ![i + 2] = w[3], ![i + 3] = w[4]]
FixUp(s) == IF s.run = 0 THEN s.out ELSE PutWord(s.out, s.run, BigEndian(s.runSize))

\* Mutant: the zeros held back before an ordinary byte do not count for the NAL unit.
MutAdaptByte(s, b) ==
    CASE b = 0 -> [s EXCEPT !.zeros = @ + 1]
      [] b # 0 /\ b = 1 /\ s.zeros \in 2..MaxZeros ->
           [s EXCEPT !.out = FixUp(s) \o Zeros(4), !.run = Len(s.out) + 1, !.size = @ + 4, !.zeros = 0, !.runSize = 0]
      [] OTHER -> [s EXCEPT !.runSize = @ + 1, !.size = @ + s.zeros + 1, !.zeros = 0, !.out = @ \o Zeros(s.zeros) \o <<b>>]

\* One byte of the Annex-B frame.  Zeros are held back until it is known whether a start
\* code ends them; the length of the previous unit is written when the next one starts.
AdaptByte(s, b) ==
    CASE b = 0 -> [s EXCEPT !.zeros = @ + 1]
      [] b # 0 /\ s.zeros > MaxZeros -> [s EXCEPT !.bad = TRUE]
      [] b = 1 /\ s.zeros \in 2..MaxZeros ->
           [s EXCEPT !.out = FixUp(s) \o Zeros(4), !.run = Len(s.out) + 1, !.size = @ + 4, !.zeros = 0, !.runSize = 0]
      [] OTHER ->
           [s EXCEPT !.runSize = @ + s.zeros + 1, !.size = @ + s.zeros + 1, !.zeros = 0, !.out = @ \o Zeros(s.zeros) \o <<b>>]

\* The emulation prevention byte: the 3 is left out, and the run starts over (which the one
\* caller that asks for it, with a single unit, does not notice).
Prevents(f, i, zeros) == f[i] = 3 /\ zeros = 2 /\ i < Len(f) /\ f[i + 1] \in 0..3
DropPrevention(s) == [s EXCEPT !.size = @ + s.zeros, !.out = @ \o Zeros(s.zeros), !.zeros = 0, !.runSize = 0]

\* The bytes written (out) and the size that the pass without a buffer computes; the set is
\* empty when the frame is refused.
Adapted(f, removeEpb) ==
    LET after[i \in 0..Len(f)] ==        \* the first i bytes taken
            IF i = 0 THEN [zeros |-> 0, run |-> 0, runSize |-> 0, out |-> << >>, size |-> 0, bad |-> FALSE]
            ELSE LET s == after[i - 1] IN
                 IF s.bad THEN s
                 ELSE IF removeEpb /\ Prevents(f, i, s.zeros) THEN DropPrevention(s)
                 ELSE AdaptByte(s, f[i])
        s == after[Len(f)]
        last == [s EXCEPT !.runSize = @ + s.zeros, !.out = @ \o Zeros(s.zeros)]
    IN IF s.bad THEN {} ELSE {[out |-> FixUp(last), size |-> s.size + s.zeros]}
adaptFrameNalsFromAnnexBToAvcc(f) == Adapted(f, FALSE)

\* In place: every length becomes a start code of four bytes.
adaptFrameNalsFromAvccToAnnexB(a) ==
    LET run[n \in 1..(Len(a) + 1)] ==        \* n lengths replaced at most
            IF n = 1 THEN [s |-> a, at |-> 1, ok |-> Len(a) > 3]
            ELSE LET r == run[n - 1] IN
                 IF ~r.ok \/ r.at = Len(a) + 1 THEN r
                 ELSE IF r.at + 3 > Len(a) \/ r.at - 1 + Word(r.s, r.at) > Len(a) THEN [r EXCEPT !.ok = FALSE]
                 ELSE [s |-> PutWord(r.s, r.at, BigEndian(1)), at |-> r.at + 4 + Word(r.s, r.at), ok |-> TRUE]
        end == run[Len(a) + 1]
    IN IF end.ok /\ end.at = Len(a) + 1 THEN {end.s} ELSE {}

\* The units met walking over lengths as long as a byte follows the length.
Walk(a) ==
    LET run[n \in 0..Len(a)] ==
            IF n = 0 THEN [units |-> << >>, at |-> 1]
            ELSE LET r == run[n - 1] IN
                 IF r.at + 4 > Len(a) THEN r
                 ELSE [units |-> Append(r.units, [at |-> r.at + 4, len |-> Word(a, r.at), header |-> a[r.at + 4]]),
                       at |-> r.at + 4 + Word(a, r.at)]
    IN run[Len(a)].units

H264Type(h, t) == h \in 32..127 /\ h % 32 = t          \* SPS 7, PPS 8, IDR 5

FirstOf(units, t) == SelectInSeq(units, LAMBDA u : H264Type(u.header, t))
getH264SpsPpsNalusFromAvccNalus(a) == [sps |-> FirstOf(Walk(a), 7), pps |-> FirstOf(Walk(a), 8)]

\* AVCC_CPD_OVERHEAD; two start codes of three bytes go at least.
H264CpdSize(cpd) == 11 + Len(cpd) - 2 * 3

\* Version, profile, compatibility and level, two fixed bytes, then SPS and PPS with their
\* lengths.
adaptH264CpdNalsFromAnnexBToAvcc(cpd) ==
    {w \in {LET u == Walk(r.out)
                p == getH264SpsPpsNalusFromAvccNalus(r.out)
                Unit(i) == SubSeq(r.out, u[i].at, u[i].at + u[i].len - 1)
            IN IF p.sps = 0 \/ p.pps = 0 \/ r.size > H264CpdSize(cpd)
                  \/ u[p.sps].len + 8 > H264CpdSize(cpd) \/ u[p.sps].len + 8 > r.size
                  \/ u[p.sps].len + 9 + u[p.pps].len > H264CpdSize(cpd) \/ u[p.sps].len + 8 + u[p.pps].len > r.size
               THEN << >>
               ELSE <<1>> \o SubSeq(r.out, u[p.sps].at + 1, u[p.sps].at + 3) \o <<255, 225, 0, u[p.sps].len>> \o Unit(p.sps) \o <<1, 0, u[p.pps].len>> \o Unit(p.pps)
            : r \in adaptFrameNalsFromAnnexBToAvcc(cpd)} : w # << >> /\ Len(cpd) >= 11}

\* mkvgenExtractCpdFromAnnexBFrame: what comes before the first IDR slice of a key frame.
mkvgenExtractCpdFromAnnexBFrame(f) ==
    UNION {LET u == Walk(r.out)
               i == FirstOf(u, 5)
           IN IF r.size <= 8 \/ i = 0 \/ u[i].at = 5 THEN {}
              ELSE adaptFrameNalsFromAvccToAnnexB(SubSeq(r.out, 1, u[i].at - 5))
           : r \in adaptFrameNalsFromAnnexBToAvcc(f)}

NalInit == frame = << >> /\ pieces = 0
AddPiece(p) == pieces < MaxPieces /\ frame' = frame \o p /\ pieces' = pieces + 1
NalNext == \E p \in Pieces : AddPiece(p)

-----------------------------------------------------------------------------
(* Properties *)

\* Reference: a start code is the longest run of two or more zeros before a one; a unit
\* is what lies between two start codes.
Codes(f) == {e \in 3..Len(f) : f[e] = 1 /\ f[e - 1] = 0 /\ f[e - 2] = 0}
FirstZero(f, e) == CHOOSE z \in 1..e : (\A i \in z..(e - 1) : f[i] = 0) /\ (z = 1 \/ f[z - 1] # 0)
Units(f) ==
    LET ends == SetToSortSeq(Codes(f), <) IN
    [k \in 1..Len(ends) |-> SubSeq(f, ends[k] + 1, IF k = Len(ends) THEN Len(f) ELSE FirstZero(f, ends[k + 1]) - 1)]
StartsWithCode(f) == Codes(f) # {} /\ FirstZero(f, CHOOSE e \in Codes(f) : \A d \in Codes(f) : e <= d) = 1
Lengths(a) == [k \in DOMAIN a |-> BigEndian(Len(a[k])) \o a[k]]

\* No byte of a NAL unit is lost or invented (adaptFrameNalsFromAnnexBToAvcc): the frame
\* stored is the units with their lengths, as long as the size pass says, which the view
\* was charged for; turned back it has the same units.  What a key frame carries before its
\* first IDR slice is its private data, and the private data written for H.264 has its SPS and
\* PPS and never exceeds what was reserved (adaptH264CpdNalsFromAnnexBToAvcc).
NalsSurvive ==
    /\ \A r \in adaptFrameNalsFromAnnexBToAvcc(frame) :
         /\ Len(r.out) = r.size
         /\ StartsWithCode(frame) =>
              /\ r.out = FlattenSeq(Lengths(Units(frame)))
              /\ \A back \in adaptFrameNalsFromAvccToAnnexB(r.out) : Units(back) = Units(frame)
              /\ adaptFrameNalsFromAvccToAnnexB(r.out) # {}
    /\ \A cpd \in mkvgenExtractCpdFromAnnexBFrame(frame) : StartsWithCode(frame) =>
         LET u == Units(frame) IN
         \E n \in 1..Len(u) : /\ Units(cpd) = SubSeq(u, 1, n - 1)
                              /\ u[n] # << >> /\ H264Type(u[n][1], 5)
    /\ \A w \in adaptH264CpdNalsFromAnnexBToAvcc(frame) : Len(w) <= H264CpdSize(frame)
=============================================================================
