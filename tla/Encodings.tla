------------------------------- MODULE Encodings --------------------------------
(***************************************************************************)
(* The conversions of the utilities: Base64 and hexadecimal text, numbers  *)
(* as text with their overflow, trimming and searching (String.c), ISO     *)
(* 8601 durations, byte order.  A character is its ASCII code; a set that  *)
(* is empty stands for a call that fails.  The width of a word, the hash   *)
(* of the search and the tick of a duration are parameters, so that their  *)
(* limits are met with small numbers.                                      *)
(***************************************************************************)
EXTENDS Integers, Sequences, SequencesExt

CONSTANTS Data,             \* what is converted
          WordBits,         \* bits of UINT64
          HashWord,         \* 2^32: what the hash of the search is reduced by
          HashPrime,        \* 16777619
          ByteValues,       \* 256: values of a byte
          Ticks,            \* HUNDRED_NANOS_IN_SECOND
          MaxDuration       \* MAX_UINT64, for durations

ASSUME EncodingWords == WordBits \in {2, 4, 6, 8, 64} /\ HashWord > 1 /\ ByteValues > 1

VARIABLE datum
encodingVars == <<datum>>
EncodingsInit == datum \in Data

-----------------------------------------------------------------------------
(* Base64.c *)

BASE64_ENCODE_ALPHA(v) ==
    CASE v <= 25 -> 65 + v [] v \in 26..51 -> 71 + v [] v \in 52..61 -> v - 4 [] v = 62 -> 43 [] v = 63 -> 47
BASE64_DECODE_ALPHA(c) ==
    CASE c \in 65..90 -> c - 65 [] c \in 97..122 -> c - 71 [] c \in 48..57 -> c + 4 [] c = 43 -> 62 [] c = 47 -> 63 [] OTHER -> 0
Base64Size(n) == (4 * (n + <<0, 2, 1>>[(n % 3) + 1])) \div 3 + 1

base64Encode(b) ==
    LET a(v) == BASE64_ENCODE_ALPHA(v)
        Triple(i) == <<a(b[i] \div 4), a((b[i] % 4) * 16 + b[i + 1] \div 16), a((b[i + 1] % 16) * 4 + b[i + 2] \div 64), a(b[i + 2] % 64)>>
        n == Len(b)
        full == FlattenSeq([k \in 1..(n \div 3) |-> Triple(3 * k - 2)])
        rest == CASE n % 3 = 2 -> <<a(b[n - 1] \div 4), a((b[n - 1] % 4) * 16 + b[n] \div 16), a((b[n] % 16) * 4), 61>>
                  [] n % 3 = 1 -> <<a(b[n] \div 4), a((b[n] % 4) * 16), 61, 61>>
                  [] OTHER -> << >>
    IN IF b = << >> THEN {} ELSE {full \o rest}

\* Two signs of padding at most are taken off; what is left says how much is missing.
Unpadded(s) ==
    LET one == IF Last(s) = 61 THEN Front(s) ELSE s IN IF Last(one) = 61 THEN Front(one) ELSE one
base64Decode(s) ==
    LET p == Unpadded(s)
        n == Len(p)
        d(i) == BASE64_DECODE_ALPHA(p[i])
        First(i)  == (d(i) * 4 + d(i + 1) \div 16) % 256
        Second(i) == (d(i + 1) * 16 + d(i + 2) \div 4) % 256
        Third(i)  == (d(i + 2) * 64 + d(i + 3)) % 256
        full == FlattenSeq([k \in 1..(n \div 4) |-> <<First(4 * k - 3), Second(4 * k - 3), Third(4 * k - 3)>>])
    IN IF Len(s) < 2 \/ n % 4 = 1 THEN {}
       ELSE {[size |-> (3 * n) \div 4,
              out |-> full \o (CASE n % 4 = 3 -> <<First(n - 2), Second(n - 2)>> [] n % 4 = 2 -> <<First(n - 1)>> [] OTHER -> << >>)]}

-----------------------------------------------------------------------------
(* Hex.c *)

HEX_ENCODE_ALPHA(v, upper) == IF v < 10 THEN 48 + v ELSE v + (IF upper THEN 55 ELSE 87)
HEX_DECODE_ALPHA(c) == CASE c \in 48..57 -> c - 48 [] c \in 65..70 -> c - 55 [] c \in 97..102 -> c - 87 [] OTHER -> 255
hexEncodeCase(b, upper) ==
    IF b = << >> THEN {}
    ELSE {FlattenSeq([i \in DOMAIN b |-> <<HEX_ENCODE_ALPHA(b[i] \div 16, upper), HEX_ENCODE_ALPHA(b[i] % 16, upper)>>])}
\* The last character of an odd number is ignored.
hexDecode(s) ==
    LET n == Len(s) \div 2
        d(i) == HEX_DECODE_ALPHA(s[i])
    IN IF n = 0 \/ \E i \in 1..(2 * n) : d(i) > 15 THEN {} ELSE {[i \in 1..n |-> d(2 * i - 1) * 16 + d(2 * i)]}

-----------------------------------------------------------------------------
(* String.c: numbers *)

Word64 == 2^WordBits
HalfWord == 2^(WordBits \div 2)
Signed(w) == IF w >= Word64 \div 2 THEN w - Word64 ELSE w

\* Mutant: the overflow of the product is not noticed when it wraps around in the low half.
MutMultiplyAdd(x, y, addend) ==
    LET cross == (x \div HalfWord) * (y % HalfWord) + (x % HalfWord) * (y \div HalfWord)
        result == (cross * HalfWord + (x % HalfWord) * (y % HalfWord)) % Word64
        sum == (result + addend) % Word64
    IN IF x = 0 \/ y = 0 THEN {addend}
       ELSE IF (x \div HalfWord # 0 /\ y \div HalfWord # 0) \/ cross >= HalfWord \/ sum < result THEN {}
       ELSE {sum}

\* In halves of a word; every wrap-around is an overflow.
unsignedSafeMultiplyAdd(x, y, addend) ==
    LET cross  == (x \div HalfWord) * (y % HalfWord) + (x % HalfWord) * (y \div HalfWord)
        high   == (cross * HalfWord) % Word64
        result == (high + (x % HalfWord) * (y % HalfWord)) % Word64
        sum    == (result + addend) % Word64
    IN IF x = 0 \/ y = 0 THEN {addend}
       ELSE IF (x \div HalfWord # 0 /\ y \div HalfWord # 0) \/ cross >= HalfWord \/ result < high \/ sum < result THEN {}
       ELSE {sum}

\* Remainders from the lowest digit on, then turned around.
ALPHA_NUM(v) == IF v < 10 THEN 48 + v ELSE 87 + v
ulltostr(value, size, base) ==
    LET Remainders[v \in Nat] == IF v = 0 THEN << >> ELSE <<ALPHA_NUM(v % base)>> \o Remainders[v \div base]
        out == IF value = 0 THEN <<48>> ELSE Reverse(Remainders[value])
    IN IF size < 2 \/ base \notin 2..36 \/ Len(out) > size - 1 THEN {} ELSE {out}

DigitOf(c) == CASE c \in 48..57 -> c - 48 [] c \in 97..122 -> c - 87 [] c \in 65..90 -> c - 55 [] OTHER -> 99

\* str is what lies before the end that the caller gives; a sign is taken off first.
strtoint(str, base) ==
    LET signed == str # << >> /\ str[1] \in {43, 45}
        digits == IF signed THEN Tail(str) ELSE str
        Digit(acc, c) == IF DigitOf(c) >= base THEN {} ELSE UNION {unsignedSafeMultiplyAdd(r, base, DigitOf(c)) : r \in acc}
        positive == ~(signed /\ str[1] = 45)
    IN IF base \notin 2..36 \/ digits = << >> THEN {}
       ELSE {[result |-> IF positive THEN r ELSE (Word64 - r) % Word64, positive |-> positive] : r \in FoldLeft(Digit, {0}, digits)}

strtoi64(str, base) ==
    {Signed(r.result) : r \in {q \in strtoint(str, base) : IF q.positive THEN Signed(q.result) >= 0 ELSE Signed(q.result) <= 0}}
strtoui64(str, base) == {r.result : r \in {q \in strtoint(str, base) : q.positive}}
strtoi32(str, base) == strtoi64(str, base) \cap (-(HalfWord \div 2)..(HalfWord \div 2 - 1))
strtoui32(str, base) == strtoui64(str, base) \cap 0..(HalfWord - 1)

-----------------------------------------------------------------------------
(* String.c: text; a length of 0 stands for the whole string *)

WhiteSpace == {32, 9, 10, 11, 12, 13}
Clipped(str, len) == IF len = 0 THEN str ELSE SubSeq(str, 1, len)

\* The first occurrence, 0 if there is none; here a length of 0 finds nothing.
strnchr(str, len, c) == IF len = 0 THEN 0 ELSE SelectInSeq(SubSeq(str, 1, IF len < Len(str) THEN len ELSE Len(str)), LAMBDA x : x = c)
ltrimstr(str, len) == LET i == SelectInSeq(Clipped(str, len), LAMBDA x : x \notin WhiteSpace) IN
                      IF i = 0 THEN Len(Clipped(str, len)) + 1 ELSE i
rtrimstr(str, len) == SelectLastInSeq(Clipped(str, len), LAMBDA x : x \notin WhiteSpace)      \* the last character kept
trimstrall(str, len) ==
    LET start == ltrimstr(str, len)
        rest  == SubSeq(str, start, Len(str))
        left  == IF len = 0 THEN 0 ELSE len - (start - 1)
    IN IF len # 0 /\ left = 0 THEN << >> ELSE SubSeq(rest, 1, rtrimstr(rest, left))
\* The copy is terminated only where the length says so: not behind an empty string of length 0.
tolowerupperstr(str, len, upper) ==
    LET s == Clipped(str, len)
        Turn(c) == IF upper /\ c \in 97..122 THEN c - 32 ELSE IF ~upper /\ c \in 65..90 THEN c + 32 ELSE c
    IN [out |-> [i \in DOMAIN s |-> Turn(s[i])], terminated |-> IF str = << >> THEN len > 0 ELSE len = 0 \/ len > Len(str) + 1]

\* The window's hash slides over the string; the characters decide when it is equal.
HashOf(s) == FoldLeft(LAMBDA h, c : (h * HashPrime + c) % HashWord, 0, s)
LargestPower(n) ==
    LET Step[i \in Nat] == IF i = 0 THEN [power |-> 1, square |-> HashPrime % HashWord, at |-> n]
                           ELSE LET s == Step[i - 1] IN
                                IF s.at <= 0 THEN s
                                ELSE [power |-> IF s.at % 2 # 0 THEN (s.power * s.square) % HashWord ELSE s.power,
                                      square |-> (s.square * s.square) % HashWord, at |-> s.at \div 2]
    IN Step[8].power
defaultStrnstr(haystack, needle, len) ==
    LET h == SubSeq(haystack, 1, IF len < Len(haystack) THEN len ELSE Len(haystack))
        m == Len(needle)
        Window[i \in Nat] == IF i = m THEN HashOf(SubSeq(h, 1, m))
                             ELSE ((Window[i - 1] - h[i - m] * LargestPower(m - 1)) * HashPrime + h[i]) % HashWord
        Same(i) == Window[i] = HashOf(needle) /\ SubSeq(h, i - m + 1, i) = needle
        found == {i \in m..Len(h) : Same(i)}
    IN IF m > Len(h) \/ found = {} THEN 0 ELSE (CHOOSE i \in found : \A j \in found : i <= j) - m + 1

-----------------------------------------------------------------------------
(* Duration.c *)

DURATION_STATES == <<"Y", "M", "W", "D", "H", "M", "S">>
Multiplier == [Y |-> 365 * 86400, W |-> 7 * 86400, D |-> 86400, H |-> 3600, S |-> 1]
MultiplierAt(i) == Ticks * (CASE i = 2 -> 31 * 86400 [] i = 6 -> 60 [] OTHER -> Multiplier[DURATION_STATES[i]])
DigitChars == <<"0", "1", "2", "3", "4", "5", "6", "7", "8", "9">>
getDigit(c) == SelectInSeq(DigitChars, LAMBDA d : d = c) - 1

\* A number up to the first character that belongs to none; acc stands for num / den.
parseDurationValue(p) ==
    LET Char(q, c) ==
            CASE q.done \/ q.bad -> q
              [] ~(q.done \/ q.bad) /\ c \in {".", ","} ->
                   IF ~q.digits \/ q.fraction THEN [q EXCEPT !.bad = TRUE] ELSE [q EXCEPT !.fraction = TRUE, !.digits = FALSE, !.used = @ + 1]
              [] ~(q.done \/ q.bad) /\ getDigit(c) >= 0 ->
                   IF q.fraction THEN [q EXCEPT !.num = @ * 10 + getDigit(c), !.den = @ * 10, !.digits = TRUE, !.used = @ + 1]
                   ELSE [q EXCEPT !.num = @ * 10 + getDigit(c), !.digits = TRUE, !.used = @ + 1,
                                  !.bad = q.num * 10 + getDigit(c) > MaxDuration]
              [] OTHER -> IF q.fraction /\ ~q.digits THEN [q EXCEPT !.bad = TRUE] ELSE [q EXCEPT !.done = TRUE]
        q == FoldLeft(Char, [num |-> 0, den |-> 1, digits |-> FALSE, fraction |-> FALSE, used |-> 0, done |-> FALSE, bad |-> FALSE], p.text)
    IN IF q.done /\ ~q.bad THEN {[p EXCEPT !.text = SubSeq(@, q.used + 1, Len(@)), !.num = q.num, !.den = q.den]} ELSE {}

\* The designator, searched from where the last one was found.
acceptState(p) ==
    LET at == {i \in p.state..7 : DURATION_STATES[i] = p.text[1]}
        i == CHOOSE i \in at : \A j \in at : i <= j
        temp == (p.num * MultiplierAt(i)) \div p.den
        sum == (p.value + temp) % (MaxDuration + 1)
    IN IF at = {} THEN {}
       ELSE IF temp > MaxDuration \/ sum < p.value \/ (p.num # 0 /\ temp = 0) THEN {}
       ELSE {[p EXCEPT !.text = Tail(@), !.state = i, !.value = sum]}

checkForTimeDesignator(p) ==
    IF p.text[1] # "T" THEN {p} ELSE IF p.seenTime THEN {} ELSE {[p EXCEPT !.text = Tail(@), !.state = 5, !.seenTime = TRUE]}

parseDuration(text) ==
    LET Component(p) == UNION {UNION {acceptState(r) : r \in parseDurationValue(q)} : q \in checkForTimeDesignator(p)}
        Parsed[n \in Nat] ==
            IF n = 0 THEN {[text |-> Tail(text), state |-> 1, seenTime |-> FALSE, value |-> 0, num |-> 0, den |-> 1]}
            ELSE UNION {IF p.text = << >> THEN {p} ELSE Component(p) : p \in Parsed[n - 1]}
    IN IF text = << >> \/ text[1] # "P" THEN {} ELSE {p.value : p \in Parsed[Len(text)]}

-----------------------------------------------------------------------------
(* Endianness.c: a number of so many bytes, on a host of either order *)

Pow(n) == ByteValues^n
putUnalignedIntLe(v, n) == [i \in 1..n |-> (v \div Pow(i - 1)) % ByteValues]
putUnalignedIntBe(v, n) == [i \in 1..n |-> (v \div Pow(n - i)) % ByteValues]
getUnalignedIntLe(b) == FoldLeft(LAMBDA v, i : v * ByteValues + b[Len(b) - i + 1], 0, [i \in DOMAIN b |-> i])
getUnalignedIntBe(b) == FoldLeft(LAMBDA v, x : v * ByteValues + x, 0, b)
Swap(v, n) == getUnalignedIntLe(putUnalignedIntBe(v, n))
\* The functions that initializeEndianness chooses for the host.
isBigEndian(host) == host = "big"
putUnalignedInt(host, v, n) == IF isBigEndian(host) THEN putUnalignedIntBe(v, n) ELSE putUnalignedIntLe(v, n)
getUnalignedInt(host, b) == IF isBigEndian(host) THEN getUnalignedIntBe(b) ELSE getUnalignedIntLe(b)
InMemory(host, v, n) == IF host = "big" THEN putUnalignedIntBe(v, n) ELSE putUnalignedIntLe(v, n)
putInt(host, v, n) == InMemory(host, IF isBigEndian(host) THEN v ELSE Swap(v, n), n)
getInt(host, v, n) == IF isBigEndian(host) THEN v ELSE Swap(v, n)

-----------------------------------------------------------------------------
(* Properties *)

\* Reference: what a text says as a number, not limited by any width.
DigitsOf(str) == IF str # << >> /\ str[1] \in {43, 45} THEN Tail(str) ELSE str
ReadsAsNumber(str, base) == DigitsOf(str) # << >> /\ \A i \in DOMAIN DigitsOf(str) : DigitOf(DigitsOf(str)[i]) < base
NumberOf(str, base) == FoldLeft(LAMBDA v, c : v * base + DigitOf(c), 0, DigitsOf(str)) * (IF str[1] = 45 THEN -1 ELSE 1)
Among(set) == IF set = {} THEN 0 ELSE CHOOSE i \in set : \A j \in set : i <= j

BytesConvert(b) ==
    /\ \A s \in base64Encode(b) : Len(s) + 1 = Base64Size(Len(b)) /\ base64Decode(s) = {[size |-> Len(b), out |-> b]}
    /\ \A upper \in BOOLEAN : \A s \in hexEncodeCase(b, upper) : hexDecode(s) = {b} /\ hexDecode(s \o <<48>>) = {b}
    /\ b # << >> => base64Encode(b) # {} /\ hexEncodeCase(b, TRUE) # {}
TextReads(s) ==
    /\ \A base \in {2, 10, 36} :
         LET v == NumberOf(s, base)
             In(low, high) == IF ReadsAsNumber(s, base) /\ v \in low..high THEN {v} ELSE {}
         IN /\ strtoi64(s, base) = In(-(Word64 \div 2), Word64 \div 2 - 1)
            /\ strtoui64(s, base) = IF s # << >> /\ s[1] = 45 THEN {} ELSE In(0, Word64 - 1)
            /\ strtoi32(s, base) = In(-(HalfWord \div 2), HalfWord \div 2 - 1)
            /\ strtoui32(s, base) = strtoui64(s, base) \cap 0..(HalfWord - 1)
    /\ \A len \in 0..Len(s) :
         LET t == trimstrall(s, len)
             kept == {i \in DOMAIN Clipped(s, len) : s[i] \notin WhiteSpace}
         IN /\ IF kept = {} THEN t = << >> ELSE t = SubSeq(s, Among(kept), CHOOSE i \in kept : \A j \in kept : i >= j)
            /\ \A needle \in {SubSeq(s, i, j) : i, j \in DOMAIN s} :
                 defaultStrnstr(s, needle, len) =
                     Among({i \in 1..(len - Len(needle) + 1) : SubSeq(s, i, i + Len(needle) - 1) = needle})
            /\ \A c \in {s[i] : i \in DOMAIN s} : strnchr(s, len, c) = Among({i \in 1..len : s[i] = c})
            /\ tolowerupperstr(tolowerupperstr(s, len, TRUE).out, 0, FALSE).out = tolowerupperstr(s, len, FALSE).out
NumberWrites(v) ==
    /\ v < Word64 => \A base \in {2, 10, 36} : UNION {strtoui64(s, base) : s \in ulltostr(v, WordBits + 1, base)} = {v}
    /\ \A n \in {2, 4, 8}, host \in {"big", "little"} :
         LET w == v % Pow(n) IN
         /\ putInt(host, w, n) = putUnalignedIntBe(w, n) /\ getInt(host, getInt(host, w, n), n) = w
         /\ getUnalignedInt(host, InMemory(host, w, n)) = w /\ putUnalignedInt(host, w, n) = InMemory(host, w, n)
         /\ getUnalignedIntBe(putUnalignedIntBe(w, n)) = w /\ getUnalignedIntLe(putUnalignedIntLe(w, n)) = w
ProductFits(x) ==
    \A y, a \in 0..(Word64 - 1) : unsignedSafeMultiplyAdd(x, y, a) = IF x * y + a < Word64 THEN {x * y + a} ELSE {}
DurationMeans(d) ==
    /\ parseDuration(d.text) = IF d.means <= MaxDuration THEN {d.means} ELSE {}
    /\ parseDuration(Front(d.text)) = {} /\ parseDuration(d.text \o <<"Q">>) = {}

\* No value is lost or invented in a conversion: Base64 and hexadecimal text decode to the
\* bytes they were made of (base64Encode, hexEncodeCase), a number survives as text and as
\* bytes on hosts of either order (ulltostr, putInt64), a text is a number exactly when that
\* fits (strtoi64, unsignedSafeMultiplyAdd), a search and a trim find what is there although
\* hashes collide (defaultStrnstr, trimstrall), and a duration has its length (parseDuration).
EncodingsExact ==
    CASE datum.kind = "bytes" -> BytesConvert(datum.v)
      [] datum.kind = "text" -> TextReads(datum.v)
      [] datum.kind = "number" -> NumberWrites(datum.n)
      [] datum.kind = "product" -> ProductFits(datum.n)
      [] datum.kind = "duration" -> DurationMeans(datum)
=============================================================================
