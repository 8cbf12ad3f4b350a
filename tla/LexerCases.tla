----------------------------- MODULE LexerCases -----------------------------
(***************************************************************************)
(* Texts for Lexer, put together of a few pieces.                          *)
(***************************************************************************)
EXTENDS Integers, SequencesExt

LOCAL Newline == 10
LOCAL Quote == 34
LOCAL Minus == 45
LOCAL Point == 46
LOCAL Slash == 47
LOCAL Star == 42
LOCAL Backslash == 92

LOCAL UpTo(n, Pieces) == {FlattenSeq(s) : s \in UNION {[1..k -> Pieces] : k \in 0..n}}
LOCAL Quoted(Pieces) == {<<Quote>> \o s \o <<Quote>> : s \in Pieces}

LOCAL HexDigit(n) == IF n < 10 THEN 48 + n ELSE 55 + n
LOCAL Unicode(n) ==
    <<Backslash, 117>> \o [k \in 1..4 |-> HexDigit((n \div 16 ^ (4 - k)) % 16)]
LOCAL Binary(n) == <<Backslash, 120, HexDigit(n \div 16), HexDigit(n % 16)>>

\* true, int, and words that begin like them; 258 is an integer constant.
LexerKeywords == {[word |-> <<116, 49>>, token |-> 258, attribute |-> <<49>>],
                  [word |-> <<105>>, token |-> 281, attribute |-> <<105>>]}

\* Comments, blanks, words, numbers and marks.
LOCAL Pieces ==
    {<<Slash>>, <<Slash, Slash>>, <<Slash, Star>>, <<Star, Slash>>, <<Newline>>, <<32>>, <<105>>,
     <<49>>, <<Minus>>, <<Point>>, <<101>>, <<48, 120, 70>>, <<58>>, <<35>>}

\* Bytes and escapes, and surrogates in every order.
LOCAL Escaping ==
    {<<97>>, <<195>>, <<169>>, <<237>>, <<9>>, <<39>>, <<Backslash, 110>>, <<Backslash, 113>>,
     Binary(195), Binary(160), <<Backslash, 120, 70>>, Unicode(233),
     Unicode(55357), Unicode(56832), <<Backslash>>}
LOCAL Units == {Unicode(n) : n \in {97, 8364, 55357, 56832, 56319, 57343}}

LexerTexts == UpTo(3, Pieces) \cup Quoted(UpTo(2, Escaping))
              \cup {<<Quote>> \o s : s \in UpTo(2, Escaping)}
LexerUnits == Quoted(UpTo(3, Units))

\* Bytes of codes of each length, whole, cut, too long, too large, surrogates.
LOCAL Bytes ==
    {<<97>>, <<Quote>>, <<Backslash>>, <<9>>, <<127>>, <<195, 169>>, <<226, 130, 172>>,
     <<240, 159, 152, 128>>, <<195>>, <<169>>, <<226, 130>>, <<192, 128>>, <<237, 160, 128>>,
     <<244, 144, 128, 128>>, <<254>>, <<239, 191, 191>>, <<244, 143, 191, 191>>}
WrittenStrings == UpTo(2, Bytes) \ {<<>>}

=============================================================================
