------------------------------- MODULE Lexer -------------------------------
(***************************************************************************)
(* The tokens of a schema or of JSON: Parser's Next, called by the parser  *)
(* until the end of the text or the first error, one action for each turn  *)
(* of its loops.  With it the conversions it needs, ToUTF8 and FromUTF8,   *)
(* and EscapeString, which writes the strings that Next reads.             *)
(*                                                                         *)
(* A text is a sequence of bytes; behind it is the zero that ends it.      *)
(***************************************************************************)
EXTENDS Integers, Sequences, SequencesExt

CONSTANTS
    Sources,        \* the texts the parser may be given
    Strings,        \* strings EscapeString may write for it
    Keywords,       \* the words Next knows, each with its token
    Bits,           \* of an int64_t
    allow_non_utf8  \* the option

VARIABLES
    written,        \* the string EscapeString wrote as the text, if it did
    source, cursor, \* the text, and the place in it of the next byte
    line,
    token, attribute, doc_comment,  \* what Next leaves
    seen_newline,
    quote,          \* the byte that ends the string Next is in, or 0
    high,           \* unicode_high_surrogate
    error

lexerVars == <<written, source, cursor, line, token, attribute, doc_comment, seen_newline, quote,
               high, error>>
inText == <<written, source, line, doc_comment, seen_newline>>

LexerAssumption ==
    /\ \A s \in Sources : \A i \in DOMAIN s : s[i] \in 1..255
    /\ Bits \in Nat /\ allow_non_utf8 \in BOOLEAN

Scanning == 0
Eof == 256
StringConstant == 257
IntegerConstant == 258
FloatConstant == 259
Identifier == 260

Newline == 10
Quote == 34
Minus == 45
Point == 46
Slash == 47
Star == 42
Underscore == 95
Backslash == 92
Blanks == {32, 13, 9}
Marks == {123, 125, 40, 41, 91, 93, 44, 58, 59, 61}     \* { } ( ) [ ] , : ; =
Digits == 48..57
Letters == 65..90 \cup 97..122
HexDigits == Digits \cup 65..70 \cup 97..102
WordStarts == Letters \cup {Underscore}
Exponents == {69, 101}
HexMarks == {88, 120}

-----------------------------------------------------------------------------
(* Numbers in the text.                                                    *)

HexValue(c) ==
    CASE c \in Digits -> c - 48
      [] c \in 65..70 -> c - 55
      [] c \in 97..102 -> c - 87
HexNumber(digits) == FoldLeft(LAMBDA sum, c : 16 * sum + HexValue(c), 0, digits)
HexDigit(n) == IF n < 10 THEN 48 + n ELSE 55 + n
IntToStringHex(n, xdigits) ==
    [k \in 1..xdigits |-> HexDigit((n \div 16^(xdigits - k)) % 16)]

\* strtoull stops at the largest number there is and negates what has a sign.
StringToUInt(negative, digits) ==
    LET n == HexNumber(digits)
    IN  CASE n >= 2^Bits -> 2^Bits - 1
          [] n < 2^Bits /\ negative -> (2^Bits - n) % 2^Bits
          [] OTHER -> n
Signed(n) == IF n >= 2^(Bits - 1) THEN n - 2^Bits ELSE n
Abs(n) == IF n < 0 THEN -n ELSE n
NumToString(n) ==
    LET size == CHOOSE k \in 1..9 : Abs(n) < 10^k /\ (k = 1 \/ Abs(n) >= 10^(k - 1))
    IN  (IF n < 0 THEN <<Minus>> ELSE <<>>)
        \o [k \in 1..size |-> 48 + ((Abs(n) \div 10^(size - k)) % 10)]

-----------------------------------------------------------------------------
(* UTF-8.                                                                  *)

\* Bits of a code in 1 to 6 bytes.
MaxBits(i) == IF i = 0 THEN 7 ELSE 6 + 5 * i
ToUTF8(ucc) ==
    LET i == CHOOSE k \in 0..4 : ucc < 2^MaxBits(k) /\ (k = 0 \/ ucc >= 2^MaxBits(k - 1))
    IN  <<((254 * 2^(MaxBits(i) - 6 * i)) % 256) + (ucc \div 64^i)>>
        \o [k \in 1..i |-> 128 + ((ucc \div 64^(i - k)) % 64)]

ByteAt(s, i) == IF i <= Len(s) THEN s[i] ELSE 0
LeadingOnes(c) ==
    CHOOSE n \in 0..6 : /\ c \div 2^(8 - n) = 2^n - 1
                        /\ n = 6 \/ (c \div 2^(7 - n)) % 2 = 0
Continues(c) == c \div 64 = 2

Corrupt == [ucc |-> -1, size |-> 1]

\* The code at place i of s and the bytes it takes.
FromUTF8(s, i) ==
    LET c     == ByteAt(s, i)
        n     == LeadingOnes(c)
        first == c % 2^(7 - n)
        ucc   == FoldLeft(LAMBDA sum, k : 64 * sum + (ByteAt(s, i + k) % 64), first,
                          [k \in 1..(n - 1) |-> k])
        shortest == <<0, 128, 2048, 65536>>
        longest  == <<0, 2047, 65535, 1114111>>
        accepted ==
            /\ ((c * 2^n) \div 128) % 2 = 0
            /\ n \in 2..4
            /\ \A k \in 1..(n - 1) : Continues(ByteAt(s, i + k))
            /\ ucc \notin 55296..57343
            /\ ucc \in shortest[n]..longest[n]
    IN  IF n = 0 THEN [ucc |-> c, size |-> 1]
        ELSE IF accepted THEN [ucc |-> ucc, size |-> n] ELSE Corrupt

ValidateUTF8(str) ==
    LET from[i \in 1..(Len(str) + 4)] ==
            i > Len(str) \/ (FromUTF8(str, i).ucc >= 0 /\ from[i + FromUTF8(str, i).size])
    IN  from[1]

-----------------------------------------------------------------------------
(* Escapes.                                                                *)

\* The letters behind a backslash and what they stand for; EscapeString
\* writes all but two of them.
Escapes == <<<<110, 10>>, <<116, 9>>, <<114, 13>>, <<98, 8>>, <<102, 12>>, <<34, 34>>,
             <<92, 92>>, <<39, 39>>, <<47, 47>>>>
Named(c)    == {k \in DOMAIN Escapes : Escapes[k][1] = c}
Unescape(c) == Escapes[CHOOSE k \in Named(c) : TRUE][2]
Written(c)  == {k \in 1..7 : Escapes[k][2] = c}

Unicode(n) == <<Backslash, 117>> \o IntToStringHex(n, 4)
Binary(n)  == <<Backslash, 120>> \o IntToStringHex(n, 2)

\* Mutant: a code beyond 65535 is not counted from there.
EscapeOneUnbased(s, i) ==
    LET ucc == FromUTF8(s, i).ucc
    IN  CASE s[i] \in 32..126 -> <<s[i]>>
          [] s[i] \notin 32..126 /\ ucc < 0 -> Binary(s[i])
          [] s[i] \notin 32..126 /\ ucc \in 0..65535 -> Unicode(ucc)
          [] OTHER -> Unicode(55296 + (ucc \div 1024)) \o Unicode(56320 + (ucc % 1024))

\* What stands for the code at place i of s.
EscapeOne(s, i) ==
    LET c == s[i]
        ucc == FromUTF8(s, i).ucc
        base == ucc - 65536
    IN  CASE Written(c) # {} -> <<Backslash, Escapes[CHOOSE k \in Written(c) : TRUE][1]>>
          [] Written(c) = {} /\ c \in 32..126 -> <<c>>
          [] Written(c) = {} /\ c \notin 32..126 ->
                CASE ucc < 0 -> Binary(c)
                  [] ucc \in 0..65535 -> Unicode(ucc)
                  [] OTHER -> Unicode(55296 + (base \div 1024)) \o Unicode(56320 + (base % 1024))

\* EscapeString: whether it can, and the text with its quotes.
EscapeString(s) ==
    LET Step(i) == IF s[i] \in 32..126 THEN 1 ELSE FromUTF8(s, i).size
        from[i \in 1..(Len(s) + 4)] ==
            IF i > Len(s) THEN <<Quote>> ELSE EscapeOne(s, i) \o from[i + Step(i)]
        readable[i \in 1..(Len(s) + 4)] ==
            i > Len(s) \/ (FromUTF8(s, i).ucc >= 0 /\ readable[i + Step(i)])
    IN  [done |-> allow_non_utf8 \/ readable[1], text |-> <<Quote>> \o from[1]]

-----------------------------------------------------------------------------
(* Next.                                                                   *)

At(i) == ByteAt(source, i)
\* The first place from i on that does not hold one of chars.
Behind(i, chars) == CHOOSE j \in i..(Len(source) + 1) :
    At(j) \notin chars /\ \A k \in i..(j - 1) : At(k) \in chars
Text(i, j) == SubSeq(source, i, j - 1)

Reading == token = Scanning /\ ~error
Between == Reading /\ quote = 0
Here    == At(cursor)

\* The parser wants another token.
CallNext ==
    /\ token \notin {Scanning, Eof} /\ ~error
    /\ token' = Scanning /\ attribute' = <<>> /\ doc_comment' = <<>> /\ seen_newline' = FALSE
    /\ UNCHANGED <<written, source, cursor, line, quote, high, error>>

Token(t, text, next) ==
    /\ token' = t /\ attribute' = text /\ cursor' = next
    /\ UNCHANGED <<inText, quote, high, error>>
Fail == error' = TRUE /\ UNCHANGED <<written, source, cursor, line, token, attribute, doc_comment,
                                     seen_newline, quote, high>>

EndOfFile == Between /\ Here = 0 /\ Token(Eof, attribute, cursor)

Blank ==
    /\ Between /\ Here \in Blanks
    /\ cursor' = cursor + 1
    /\ UNCHANGED <<inText, token, attribute, quote, high, error>>

NewLine ==
    /\ Between /\ Here = Newline
    /\ cursor' = cursor + 1 /\ line' = line + 1 /\ seen_newline' = TRUE
    /\ UNCHANGED <<written, source, token, attribute, doc_comment, quote, high, error>>

Mark ==
    /\ Between
    /\ \/ Here \in Marks
       \/ Here = Point /\ At(cursor + 1) \notin Digits
    /\ Token(Here, attribute, cursor + 1)
PointFirst == Between /\ Here = Point /\ At(cursor + 1) \in Digits /\ Fail

LineComment ==
    /\ Between /\ Here = Slash /\ At(cursor + 1) = Slash
    /\ LET start == cursor + 2
           end   == Behind(start, 1..255 \ {Newline, 13})
           documents == At(start) = Slash
       IN  IF documents /\ ~seen_newline
           THEN Fail
           ELSE /\ cursor' = end
                /\ doc_comment' = IF documents THEN Append(doc_comment, Text(start + 1, end))
                                  ELSE doc_comment
                /\ UNCHANGED <<written, source, line, seen_newline, token, attribute, quote, high, error>>

\* Mutant: newlines in the comment are not counted.
BlockCommentOfOneLine ==
    /\ Between /\ Here = Slash /\ At(cursor + 1) = Star
    /\ LET ends == {i \in (cursor + 2)..Len(source) : At(i) = Star /\ At(i + 1) = Slash}
       IN  IF ends = {} THEN Fail
           ELSE LET end == CHOOSE i \in ends : \A j \in ends : i <= j
                IN  /\ cursor' = end + 2
                    /\ UNCHANGED <<written, source, line, doc_comment, seen_newline, token, attribute,
                                   quote, high, error>>

BlockComment ==
    /\ Between /\ Here = Slash /\ At(cursor + 1) = Star
    /\ LET ends == {i \in (cursor + 2)..Len(source) : At(i) = Star /\ At(i + 1) = Slash}
       IN  IF ends = {} THEN Fail
           ELSE LET end == CHOOSE i \in ends : \A j \in ends : i <= j
                IN  /\ cursor' = end + 2
                    /\ line' = line + Len(SelectSeq(Text(cursor + 2, end), LAMBDA c : c = Newline))
                    /\ UNCHANGED <<written, source, doc_comment, seen_newline, token, attribute,
                                   quote, high, error>>

Word ==
    /\ Between /\ Here \in WordStarts
    /\ LET end  == Behind(cursor, WordStarts \cup Digits)
           word == Text(cursor, end)
           known == {k \in Keywords : k.word = word}
       IN  IF known = {} THEN Token(Identifier, word, end)
           ELSE LET k == CHOOSE k \in known : TRUE IN Token(k.token, k.attribute, end)

\* A hexadecimal constant, with its sign before it.
HexNumberAt(start) == At(start) = 48 /\ At(start + 1) \in HexMarks
HexConstant ==
    /\ Between
    /\ LET start == IF Here = Minus THEN cursor + 1 ELSE cursor
           end   == Behind(start + 2, HexDigits)
       IN  /\ HexNumberAt(start)
           /\ Token(IntegerConstant,
                    NumToString(Signed(StringToUInt(Here = Minus, Text(start + 2, end)))), end)

Constant ==
    /\ Between /\ Here \in Digits \cup {Minus}
    /\ ~HexNumberAt(IF Here = Minus THEN cursor + 1 ELSE cursor)
    /\ LET whole == Behind(cursor + 1, Digits)
           fraction == IF At(whole) = Point THEN Behind(whole + 1, Digits) ELSE whole
           signed   == IF At(fraction + 1) \in {Minus, 43} THEN fraction + 2 ELSE fraction + 1
           end == IF At(fraction) \in Exponents THEN Behind(signed, Digits) ELSE fraction
       IN  Token(IF end = whole THEN IntegerConstant ELSE FloatConstant, Text(cursor, end), end)

Illegal ==
    /\ Between /\ Here \notin {0, Newline, Quote, 39, Point, Minus} \cup Blanks \cup Marks
                             \cup WordStarts \cup Digits
    /\ ~(Here = Slash /\ At(cursor + 1) \in {Slash, Star})
    /\ Fail

-----------------------------------------------------------------------------
(* Inside of a string.                                                     *)

Inside == Reading /\ quote # 0
NoHigh == -1

OpenString ==
    /\ Between /\ Here \in {Quote, 39}
    /\ quote' = Here /\ high' = NoHigh /\ cursor' = cursor + 1
    /\ UNCHANGED <<inText, token, attribute, error>>

Add(bytes, next, surrogate) ==
    /\ attribute' = attribute \o bytes /\ cursor' = next /\ high' = surrogate
    /\ UNCHANGED <<inText, token, quote, error>>

CloseString ==
    /\ Inside /\ Here = quote
    /\ IF high # NoHigh \/ (~allow_non_utf8 /\ ~ValidateUTF8(attribute)) THEN Fail
       ELSE /\ token' = StringConstant /\ cursor' = cursor + 1 /\ quote' = 0
            /\ UNCHANGED <<inText, attribute, high, error>>

Printable ==
    /\ Inside /\ Here \notin {quote, Backslash} /\ Here >= 32
    /\ IF high # NoHigh THEN Fail ELSE Add(<<Here>>, cursor + 1, NoHigh)
IllegalInString == Inside /\ Here < 32 /\ Fail

Escaped == At(cursor + 1)
InEscape == Inside /\ Here = Backslash
IsHex(nibbles) == \A k \in 1..nibbles : At(cursor + 1 + k) \in HexDigits
ParseHexNum(nibbles) == HexNumber(Text(cursor + 2, cursor + 2 + nibbles))

SimpleEscape ==
    /\ InEscape /\ Named(Escaped) # {}
    /\ IF high # NoHigh THEN Fail ELSE Add(<<Unescape(Escaped)>>, cursor + 2, NoHigh)

BinaryEscape ==
    /\ InEscape /\ Escaped = 120
    /\ IF high # NoHigh \/ ~IsHex(2) THEN Fail
       ELSE Add(<<ParseHexNum(2)>>, cursor + 4, NoHigh)

UnicodeEscape ==
    /\ InEscape /\ Escaped = 117
    /\ LET val == ParseHexNum(4)
       IN  CASE ~IsHex(4) -> Fail
             [] IsHex(4) /\ val \in 55296..56319 ->
                    IF high # NoHigh THEN Fail ELSE Add(<<>>, cursor + 6, val)
             [] IsHex(4) /\ val \in 56320..57343 ->
                    IF high = NoHigh THEN Fail
                    ELSE Add(ToUTF8(65536 + ((high % 1024) * 1024) + (val % 1024)),
                             cursor + 6, NoHigh)
             [] OTHER ->
                    IF high # NoHigh THEN Fail ELSE Add(ToUTF8(val), cursor + 6, NoHigh)

UnknownEscape == InEscape /\ Escaped \notin {117, 120} /\ Named(Escaped) = {} /\ Fail

-----------------------------------------------------------------------------

Init ==
    /\ \/ source \in Sources /\ written = <<>> /\ error = FALSE
       \/ /\ written \in Strings
          /\ source = EscapeString(written).text /\ error = ~EscapeString(written).done
    /\ cursor = 1 /\ line = 1
    /\ token = Scanning /\ attribute = <<>> /\ doc_comment = <<>> /\ seen_newline = FALSE
    /\ quote = 0 /\ high = NoHigh

Next ==
    \/ CallNext
    \/ EndOfFile \/ Blank \/ NewLine \/ Mark \/ PointFirst
    \/ LineComment \/ BlockComment \/ Word \/ HexConstant \/ Constant \/ Illegal
    \/ OpenString \/ CloseString \/ Printable \/ IllegalInString
    \/ SimpleEscape \/ BinaryEscape \/ UnicodeEscape \/ UnknownEscape

Spec == Init /\ [][Next]_lexerVars

-----------------------------------------------------------------------------
(* What strings should be, by the tables of Unicode.                       *)

Tail1 == 128..191
WellFormedRows == {
    <<0..127>>, <<194..223, Tail1>>,
    <<{224}, 160..191, Tail1>>, <<225..236 \cup 238..239, Tail1, Tail1>>,
    <<{237}, 128..159, Tail1>>,
    <<{240}, 144..191, Tail1, Tail1>>, <<241..243, Tail1, Tail1, Tail1>>,
    <<{244}, 128..143, Tail1, Tail1>>}
RowsAt(s, i) == {r \in WellFormedRows : \A k \in DOMAIN r : ByteAt(s, i + k - 1) \in r[k]}
WellFormed(s) ==
    LET from[i \in 1..(Len(s) + 1)] ==
            \/ i = Len(s) + 1
            \/ \E r \in RowsAt(s, i) : i + Len(r) <= Len(s) + 1 /\ from[i + Len(r)]
    IN  from[1]

\* A string Next has accepted is UTF-8, however it was put together from
\* escapes and bytes.
StringsWellFormed ==
    token = StringConstant /\ ~allow_non_utf8 => WellFormed(attribute)

\* Strings of \u escapes alone are UTF-16: what is not is refused, and what
\* is says the same in UTF-8.
UnitsOf(body) == [k \in 1..(Len(body) \div 6) |-> HexNumber(SubSeq(body, 6 * k - 3, 6 * k))]
IsHigh(u) == u \in 55296..56319
IsLow(u) == u \in 56320..57343
Utf16(units) ==
    \A k \in DOMAIN units :
        /\ IsHigh(units[k]) => k < Len(units) /\ IsLow(units[k + 1])
        /\ IsLow(units[k]) => k > 1 /\ IsHigh(units[k - 1])
CodesOf(units) ==
    LET starts == SelectSeq([k \in DOMAIN units |-> k], LAMBDA k : ~IsLow(units[k]))
    IN  [j \in DOMAIN starts |->
            LET u == units[starts[j]]
            IN  IF IsHigh(u) THEN (u - 55296) * 1024 + (units[starts[j] + 1] - 56320) + 65536
                ELSE u]
Utf8(code) ==
    CASE code \in 0..127 -> <<code>>
      [] code \in 128..2047 -> <<192 + (code \div 64), 128 + (code % 64)>>
      [] code \in 2048..65535 ->
            <<224 + (code \div 4096), 128 + ((code \div 64) % 64), 128 + (code % 64)>>
      [] OTHER -> <<240 + (code \div 262144), 128 + ((code \div 4096) % 64),
                    128 + ((code \div 64) % 64), 128 + (code % 64)>>
JsonStrings ==
    LET units == UnitsOf(SubSeq(source, 2, Len(source) - 1))
    IN  /\ error => ~Utf16(units)
        /\ token = StringConstant =>
            /\ Utf16(units)
            /\ attribute = FlattenSeq([k \in DOMAIN CodesOf(units) |-> Utf8(CodesOf(units)[k])])

\* What EscapeString writes, Next reads back; unless other bytes are allowed it
\* refuses what is not UTF-8, and nothing else is refused by either.
EscapedReadBack ==
    written # <<>> =>
        /\ error <=> ~allow_non_utf8 /\ ~WellFormed(written)
        /\ token = StringConstant => attribute = written
        /\ token = Eof => cursor = Len(source) + 1

-----------------------------------------------------------------------------

\* Nothing is read behind the zero that ends the text.
InText == cursor \in 1..(Len(source) + 1)

\* Errors name the line they are in, whatever comments came before.
LinesCounted ==
    line = 1 + Len(SelectSeq(SubSeq(source, 1, cursor - 1), LAMBDA c : c = Newline))

=============================================================================
