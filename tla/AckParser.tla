------------------------------- MODULE AckParser -------------------------------
(***************************************************************************)
(* The parser of fragment ACKs (client/src/AckParser.c).  The network      *)
(* hands it the text of the ACKs of a session in chunks cut anywhere; it   *)
(* works through a chunk symbol by symbol and keeps its state for the next.*)
(* The symbols are the significant characters, white space and whole words.*)
(***************************************************************************)
EXTENDS Integers, Sequences, FiniteSets

CONSTANTS Handles,      \* upload sessions that receive ACKs
          Texts         \* [Handles -> set of records: a text and the ACKs it says]

VARIABLES
    input,      \* [Handles -> what the service has yet to deliver]
    parser,     \* fragmentAckParser
    acks,       \* what streamFragmentAckEvent has been given
    sent,       \* history: what the service has sent, per session
    last,       \* history: the session of the last chunk
    spoilt      \* history: cuts the parser does not survive, see Chunk

ackVars == <<input, parser, acks, sent, last, spoilt>>

White == " "
Digits == {"1", "2", "3", "4", "5", "6", "7"}
ErrorIds == {<<"4">>}                            \* known service error codes
EventTypes == {"BUFFERING", "RECEIVED", "PERSISTED", "ERROR", "IDLE"}
KeyNames == {"EventType", "FragmentNumber", "FragmentTimecode", "ErrorId"}

\* SERVICE_CALL_RESULT_OK; a number is the sequence of its digits.
OK == <<"OK">>
NoAck == [type |-> "UNDEFINED", number |-> << >>, timecode |-> << >>, result |-> OK]

resetAckParserState ==
    [state |-> "START", handle |-> "none", key |-> "unknown", acc |-> << >>, seen |-> {}, ack |-> NoAck]

getFragmentAckKeyName(acc) == IF Len(acc) = 1 /\ acc[1] \in KeyNames THEN acc[1] ELSE "unknown"
getFragmentAckType(acc) == IF Len(acc) = 1 /\ acc[1] \in EventTypes THEN acc[1] ELSE "UNDEFINED"
getAckErrorTypeFromErrorId(id) == IF id \in ErrorIds THEN id ELSE <<"UNKNOWN_ACK_ERROR">>
IsNumber(acc) == acc # << >> /\ \A i \in DOMAIN acc : acc[i] \in Digits

\* Result of a symbol: the parser, the level of nesting, whether the ACK is complete
\* and whether the text is bad.
Go(p, l) == [p |-> p, level |-> l, complete |-> FALSE, bad |-> FALSE]
Bad(p, l) == [Go(p, l) EXCEPT !.bad = TRUE]
Complete(r) == [r EXCEPT !.complete = TRUE]

\* The value of the current key.  Every known key comes once; numbers are parsed.
processAckValue(p, l) ==
    LET done == [p EXCEPT !.seen = @ \cup {p.key}, !.acc = << >>, !.state = "VALUE_END"] IN
    IF p.key \in KeyNames /\ p.key \in p.seen THEN Bad(p, l)
    ELSE CASE p.key = "EventType" -> Go([done EXCEPT !.ack.type = getFragmentAckType(p.acc)], l)
           [] p.key = "FragmentNumber" -> Go([done EXCEPT !.ack.number = p.acc], l)
           [] p.key = "FragmentTimecode" ->
                IF IsNumber(p.acc) THEN Go([done EXCEPT !.ack.timecode = p.acc], l) ELSE Bad(p, l)
           [] p.key = "ErrorId" ->
                IF IsNumber(p.acc) THEN Go([done EXCEPT !.ack.result = getAckErrorTypeFromErrorId(p.acc)], l)
                ELSE Bad(p, l)
           [] OTHER -> Go(done, l)

validateParsedAck(p) ==
    p.ack.type # "UNDEFINED" /\ (p.ack.type = "ERROR" => p.ack.result # OK)

\* The nesting of a body that is skipped, and the end of it.
Skip(p, l, c, open, close) ==
    LET n == CASE c = open -> l + 1 [] c = close -> l - 1 [] OTHER -> l IN
    Go(IF n = 0 THEN [p EXCEPT !.state = "VALUE_END"] ELSE p, n)

Symbol(p, l, c) ==
    CASE p.state = "START" -> Go(IF c = "{" THEN [p EXCEPT !.state = "ACK_START"] ELSE p, l)
      [] p.state = "ACK_START" ->
           (CASE c = White -> Go(p, l)
              [] c = "'" -> Go([p EXCEPT !.state = "KEY_START"], l)
              [] OTHER -> Bad(p, l))
      [] p.state = "KEY_START" ->
           Go(IF c = "'" THEN [p EXCEPT !.key = getFragmentAckKeyName(p.acc), !.state = "DELIMITER", !.acc = << >>]
              ELSE [p EXCEPT !.acc = Append(@, c)], l)
      [] p.state = "DELIMITER" -> Go(IF c = ":" THEN [p EXCEPT !.state = "BODY_START"] ELSE p, l)
      [] p.state = "BODY_START" ->
           (CASE c = White -> Go(p, l)
              [] c = "{" -> Go([p EXCEPT !.state = "SKIP_BRACE"], 1)
              [] c = "[" -> Go([p EXCEPT !.state = "SKIP_BRACKET"], 1)
              [] c = "'" -> Go([p EXCEPT !.state = "TEXT"], l)
              [] c \in Digits -> Go([p EXCEPT !.acc = Append(@, c), !.state = "NUMERIC"], l)
              [] OTHER -> Bad(p, l))
      [] p.state = "TEXT" -> IF c = "'" THEN processAckValue(p, l) ELSE Go([p EXCEPT !.acc = Append(@, c)], l)
      [] p.state = "NUMERIC" ->
           (CASE c \in {White, ","} -> processAckValue(p, l)
              [] c = "}" -> Complete(processAckValue(p, l))
              [] c \in {"'", "{", "[", "]", ":"} -> Bad(p, l)
              [] OTHER -> Go([p EXCEPT !.acc = Append(@, c)], l))
      [] p.state = "SKIP_BRACE" -> Skip(p, l, c, "{", "}")
      [] p.state = "SKIP_BRACKET" -> Skip(p, l, c, "[", "]")
      [] p.state = "VALUE_END" ->
           (CASE c \in {White, ","} -> Go(p, l)
              [] c = "}" -> Complete(Go(p, l))
              [] c = "'" -> Go([p EXCEPT !.state = "KEY_START"], l)
              [] OTHER -> Bad(p, l))

\* Mutant: the parser starts afresh with every chunk.
MutFreshParser(p, h) == [resetAckParserState EXCEPT !.handle = h]

\* A chunk begins: an idle parser takes the session of the chunk.
BeginChunk(p, h) == IF p.handle = "none" THEN [p EXCEPT !.handle = h] ELSE p

\* The run of parseFragmentAck over a chunk: after i symbols, the parser, the level
\* (a local variable, zero when the chunk begins), and the ACKs given to the stream.  A
\* complete ACK is validated, given away and forgotten; the first bad symbol, or an ACK
\* that streamFragmentAckEvent refuses, ends the chunk and resets the parser.
Parse(p, h, chunk, refused) ==
    LET start == [p |-> BeginChunk(p, h), level |-> 0, out |-> << >>, bad |-> FALSE]
        run[i \in 0..Len(chunk)] ==
            IF i = 0 THEN start
            ELSE LET s == run[i - 1]
                     r == Symbol(s.p, s.level, chunk[i])
                     wrong == r.bad \/ (r.complete /\ ~validateParsedAck(r.p))
                 IN IF s.bad THEN s
                    ELSE IF wrong THEN [s EXCEPT !.p = resetAckParserState, !.bad = TRUE]
                    ELSE IF r.complete
                    THEN [s EXCEPT !.p = resetAckParserState, !.out = Append(@, <<s.p.handle, r.p.ack>>), !.bad = refused]
                    ELSE [s EXCEPT !.p = r.p, !.level = r.level]
    IN run

AckInit ==
    /\ input = [h \in Handles |-> << >>] /\ sent = [h \in Handles |-> << >>]
    /\ parser = resetAckParserState
    /\ acks = << >> /\ last = "none"
    /\ spoilt = {}

\* The service sends the ACKs of a session: their text and what they say.
Send(h, t) ==
    /\ sent[h] = << >>
    /\ input' = [input EXCEPT ![h] = t.text]
    /\ sent' = [sent EXCEPT ![h] = t.says]
    /\ UNCHANGED <<parser, acks, last, spoilt>>

\* kinesisVideoStreamParseFragmentAck with the next n symbols of a session; refused:
\* streamFragmentAckEvent fails and the rest of the chunk is lost.  What the
\* parser does not survive: a cut inside a nested body (the level is forgotten), a chunk
\* of another session while it is not reset, a bad symbol, and an ACK that is completed
\* behind another one in the same chunk (its session is forgotten).
Chunk(h, n, refused) ==
    /\ n \in 1..Len(input[h])
    /\ LET r == Parse(parser, h, SubSeq(input[h], 1, n), refused)[n] IN
       /\ refused => r.out # << >>
       /\ parser' = r.p
       /\ acks' = acks \o r.out
       /\ last' = h
       /\ input' = [input EXCEPT ![h] = SubSeq(@, n + 1, Len(@))]
       /\ spoilt' = spoilt
            \cup (IF r.p.state \in {"SKIP_BRACE", "SKIP_BRACKET"} THEN {"nested"} ELSE {})
            \cup (IF last # h /\ parser # resetAckParserState THEN {"mixed"} ELSE {})
            \cup (IF r.bad THEN {"bad"} ELSE {})
            \cup (IF Len(r.out) > 1 THEN {"second"} ELSE {})
    /\ UNCHANGED sent

AckNext ==
    \/ \E h \in Handles : \E t \in Texts[h] : Send(h, t)
    \/ \E h \in Handles : \E n \in 1..Len(input[h]), refused \in BOOLEAN : Chunk(h, n, refused)

-----------------------------------------------------------------------------
(* Properties *)

AcksOf(h) == LET own == SelectSeq(acks, LAMBDA a : a[1] = h) IN [i \in DOMAIN own |-> own[i][2]]

\* Wherever the text of the ACKs is cut (parseFragmentAck), a session gets its ACKs, whole
\* and in order; and also after a bad text it never gets one that it was not sent.  A cut
\* inside a nested body and chunks of two sessions that mix are exempt: there the parser
\* makes an ACK of the parts of two.
AcksArriveWhole ==
    \A h \in Handles :
        /\ spoilt = {} /\ input[h] = << >> => AcksOf(h) = sent[h]
        /\ spoilt \cap {"mixed", "nested"} = {} =>
             \A i \in DOMAIN AcksOf(h) : \E j \in DOMAIN sent[h] : AcksOf(h)[i] = sent[h][j]

\* A chunk may hold several ACKs (kinesisVideoStreamParseFragmentAck): all of them reach
\* the session the chunk is for.
ChunkMayHoldSeveralAcks ==
    \A h \in Handles : spoilt \subseteq {"second"} /\ input[h] = << >> => AcksOf(h) = sent[h]
=============================================================================
