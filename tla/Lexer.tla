------------------------------- MODULE Lexer -------------------------------
(***************************************************************************)
(* The query lexer of parser/lexer.go: the reader over the SQL text, scan  *)
(* and the startWith* functions it dispatches to, and Lex, which the       *)
(* parser calls once per token until it sees 0 (end) or invalid.           *)
(*                                                                         *)
(* A byte is a one-character string, or a name for a byte that is not      *)
(* printable: "NL" '\n', "SP" ' ', "BS" '\\', "SQ" '\'', "DQ" '"', "BQ" '`', *)
(* "NUL" 0 (what peek returns at the end), and the escape results "BSP",   *)
(* "SUB", "CR", "TAB".  Offsets are 0-based as in the code: the byte at     *)
(* offset o is s[o + 1].                                                   *)
(*                                                                         *)
(* ruleTable, isIdentChar, isIdentExtend and isUserVarChar are not in the  *)
(* sources.  The rule table is taken to call the startWith* function of    *)
(* its first byte ('/', '*', '@', '#', '.', '`', quotes, digits), to       *)
(* return a one-byte token for the other punctuation of Punct, and its     *)
(* root token invalid for any other byte; letters are identifier           *)
(* characters, digits too except first.  The keyword table of              *)
(* isTokenIdentifier has no word of the alphabet.  toInt keeps the value  *)
(* of an integer literal, at UintBits bits; the values of float, decimal   *)
(* and hex literals are not kept (strconv.ParseFloat takes every float     *)
(* the alphabet spells, and datum is not in the sources): only toHex can   *)
(* fail.                                                                   *)
(***************************************************************************)
EXTENDS Integers, Sequences, SequencesExt

CONSTANTS
    Letters,        \* identifier letters of the alphabet
    Punct,          \* bytes that are one-byte tokens of the rule table
    MaxTokens,      \* how many tokens the parser asks for
    UintBits        \* the width of strconv.ParseUint's result (64)

Digits == {"0", "1"}
IsSpace(c) == c \in {"SP", "NL"}
IsDigit(c) == c \in Digits
IsIdentExtend(c) == c \in Letters
IsIdentChar(c) == c \in Letters \cup Digits
IsUserVarChar(c) == c \in Letters \cup Digits \cup {"."}
IsOct(c) == c \in Digits
IsHex(c) == c \in Digits \cup ({"a", "b", "c", "d", "e", "f"} \cap Letters)

\* The byte tests the code passes to incAsLongAs, by name.
Holds(fn, c) ==
    CASE fn = "isSpace" -> IsSpace(c)
      [] fn = "isDigit" -> IsDigit(c)
      [] fn = "isIdentChar" -> IsIdentChar(c)
      [] fn = "isUserVarChar" -> IsUserVarChar(c)
      [] fn = "oct" -> IsOct(c)
      [] fn = "hex" -> IsHex(c)
      [] fn = "notNL" -> c # "NL"
      [] fn = "notStar" -> c # "*"

\* int(ch) as a token: 0 is the end token.
CharTok(c) == IF c = "NUL" THEN "EOF" ELSE c

-----------------------------------------------------------------------------
(* reader                                                                  *)

\* reset: Pos{Line: 1}.
StartPos == [off |-> 0, line |-> 1, col |-> 0]

Eof(s, r) == r.off >= Len(s)
Peek(s, r) == IF Eof(s, r) THEN "NUL" ELSE s[r.off + 1]

\* inc: a newline moves to the next line and resets the column before the
\* column is incremented.  Called at the end it indexes past the string.
Inc(s, r) ==
    LET nl == s[r.off + 1] = "NL"
    IN  [off |-> r.off + 1,
         line |-> IF nl THEN r.line + 1 ELSE r.line,
         col |-> IF nl THEN 1 ELSE r.col + 1]

RECURSIVE IncN(_, _, _)
IncN(s, r, n) == IF n = 0 THEN r ELSE IncN(s, Inc(s, r), n - 1)

\* readByte: peek, and inc unless at the end.
ReadByte(s, r) == IF Eof(s, r) THEN r ELSE Inc(s, r)

\* incAsLongAs: the position of the first byte that fails fn, or the end;
\* the byte it returns is Peek at that position.
RECURSIVE IncAsLongAs(_, _, _)
IncAsLongAs(s, r, fn) ==
    IF ~Holds(fn, Peek(s, r)) \/ Eof(s, r) THEN r ELSE IncAsLongAs(s, Inc(s, r), fn)

\* data(&from).
Data(s, from, r) == SubSeq(s, from.off + 1, r.off)

-----------------------------------------------------------------------------
(* scan                                                                    *)

\* A token, the item Lex stores in lval for it (an integer literal's value,
\* or NoItem where the value is not kept) and the lexer state after it: the
\* reader position, inBangComment, identifierDot and the number of errors
\* appended.
NoItem == -1
Tok(tok, pos, lit, L) == [tok |-> tok, pos |-> pos, lit |-> lit, L |-> L, item |-> NoItem]
At(L, r) == [L EXCEPT !.r = r]

\* Mutant: \% and \_ lose their backslash like other escapes.
HandleEscapeDropBackslash(b) ==
    CASE b = "n" -> << "NL" >>
      [] b = "0" -> << "NUL" >>
      [] b = "b" -> << "BSP" >>
      [] b = "Z" -> << "SUB" >>
      [] b = "r" -> << "CR" >>
      [] b = "t" -> << "TAB" >>
      [] OTHER -> << b >>

\* handleEscape(b): the bytes a backslash and b leave in the literal.
HandleEscape(b) ==
    CASE b = "n" -> << "NL" >>
      [] b = "0" -> << "NUL" >>
      [] b = "b" -> << "BSP" >>
      [] b = "Z" -> << "SUB" >>
      [] b = "r" -> << "CR" >>
      [] b = "t" -> << "TAB" >>
      [] b \in {"%", "_"} -> << "BS", b >>
      [] OTHER -> << b >>

\* The loop of scanString after the opening quote: a doubled quote is one
\* quote, a backslash escapes the next byte; the end of the text makes the
\* token invalid with an empty literal.
RECURSIVE StringLoop(_, _, _, _)
StringLoop(s, r, ending, buf) ==
    IF Eof(s, r) THEN [tok |-> "invalid", lit |-> << >>, r |-> r]
    ELSE LET ch0 == s[r.off + 1]
             r1 == Inc(s, r)
         IN  IF ch0 = ending
             THEN IF Peek(s, r1) # ending
                  THEN [tok |-> "stringLit", lit |-> buf, r |-> r1]
                  ELSE StringLoop(s, Inc(s, r1), ending, Append(buf, ch0))
             ELSE IF ch0 = "BS"
             THEN IF Eof(s, r1) THEN [tok |-> "invalid", lit |-> << >>, r |-> r1]
                  ELSE StringLoop(s, Inc(s, r1), ending, buf \o HandleEscape(Peek(s, r1)))
             ELSE StringLoop(s, r1, ending, Append(buf, ch0))

\* scanString (startString).
ScanString(s, L) ==
    LET x == StringLoop(s, ReadByte(s, L.r), Peek(s, L.r), << >>)
    IN  Tok(x.tok, L.r, x.lit, At(L, x.r))

\* scanQuotedIdent: a doubled backquote is one backquote.
RECURSIVE QuotedLoop(_, _, _)
QuotedLoop(s, r, buf) ==
    IF Eof(s, r) THEN [tok |-> "invalid", lit |-> << >>, r |-> r]
    ELSE LET ch == s[r.off + 1]
             r1 == Inc(s, r)
         IN  IF ch = "BQ" /\ Peek(s, r1) # "BQ"
             THEN [tok |-> "quotedIdentifier", lit |-> buf, r |-> r1]
             ELSE QuotedLoop(s, IF ch = "BQ" THEN Inc(s, r1) ELSE r1, Append(buf, ch))

ScanQuotedIdent(s, L) ==
    LET x == QuotedLoop(s, Inc(s, L.r), << >>)
    IN  Tok(x.tok, L.r, x.lit, At(L, x.r))

\* scanIdentifier.
ScanIdentifier(s, L) ==
    LET r == IncAsLongAs(s, L.r, "isIdentChar")
    IN  Tok("identifier", L.r, Data(s, L.r, r), At(L, r))

\* scanIdentifierOrString: a string, a quoted identifier, a user variable
\* name, or else the next byte as the token without consuming it.
ScanIdentifierOrString(s, L) ==
    LET ch1 == Peek(s, L.r)
    IN  CASE ch1 \in {"SQ", "DQ"} -> ScanString(s, L)
          [] ch1 = "BQ" -> ScanQuotedIdent(s, L)
          [] IsUserVarChar(ch1) ->
                LET r == IncAsLongAs(s, L.r, "isUserVarChar")
                IN  Tok("identifier", L.r, Data(s, L.r, r), At(L, r))
          [] OTHER -> Tok(CharTok(ch1), L.r, << >>, L)

\* startWithAt: @name is a user variable, @@name a system variable.  No
\* input of the alphabet begins with global., session. or local., so the
\* prefix loop never matches.
StartWithAt(s, L) ==
    LET pos == L.r
        x == ScanIdentifierOrString(s, At(L, Inc(s, pos)))
        y == ScanIdentifierOrString(s, At(x.L, Inc(s, x.L.r)))
    IN  CASE x.tok = "@" ->
                CASE y.tok \in {"stringLit", "quotedIdentifier"} ->
                        Tok("doubleAtIdentifier", pos, << "@", "@" >> \o y.lit, y.L)
                  [] y.tok = "identifier" ->
                        Tok("doubleAtIdentifier", pos, Data(s, pos, y.L.r), y.L)
                  [] OTHER -> Tok(y.tok, pos, y.lit, y.L)
          [] x.tok = "invalid" -> Tok("invalid", pos, x.lit, x.L)
          [] OTHER -> Tok("singleAtIdentifier", pos, x.lit, x.L)

\* scanVersionDigits(min, max): min to max digits, or none.
VersionDigits(s, r, min, max) ==
    LET n == CHOOSE n \in 0..max :
                 /\ \A i \in 0..n - 1 : r.off + i < Len(s) /\ IsDigit(s[r.off + i + 1])
                 /\ n < max => ~(r.off + n < Len(s) /\ IsDigit(s[r.off + n + 1]))
    IN  IF n < min THEN r ELSE IncN(s, r, n)

\* scanFloat(beg): D1 [. D2] [e [+-] D3] from beg; an exponent without
\* digits makes the whole run of identifier characters from beg an
\* identifier.
ScanFloat(s, L, beg) ==
    LET r1 == IncAsLongAs(s, beg, "isDigit")
        r2 == IF Peek(s, r1) = "." THEN IncAsLongAs(s, Inc(s, r1), "isDigit") ELSE r1
        r3 == Inc(s, r2)
        r4 == IF Peek(s, r3) \in {"-", "+"} THEN Inc(s, r3) ELSE r3
        exp == Peek(s, r2) \in {"e", "E"}
        digits == IsDigit(Peek(s, r4))
        end == CASE ~exp -> r2
                 [] digits -> IncAsLongAs(s, r4, "isDigit")
                 [] OTHER -> IncAsLongAs(s, beg, "isIdentChar")
        tok == CASE ~exp -> "decLit" [] digits -> "floatLit" [] OTHER -> "identifier"
    IN  Tok(tok, beg, Data(s, beg, end), At(L, end))

\* The tail of startWithNumber after the prefix: the digits, then a float,
\* an identifier (a run of digits followed by identifier characters) or
\* the number.
NumberTail(s, L, pos, tok, r) ==
    LET r1 == IncAsLongAs(s, r, "isDigit")
        ch0 == Peek(s, r1)
    IN  IF ch0 \in {".", "e", "E"} THEN ScanFloat(s, L, pos)
        ELSE IF ~Eof(s, r1) /\ IsIdentChar(ch0)
        THEN LET r2 == IncAsLongAs(s, r1, "isIdentChar")
             IN  Tok("identifier", pos, Data(s, pos, r2), At(L, r2))
        ELSE Tok(tok, pos, Data(s, pos, r1), At(L, r1))

\* startWithNumber: after an identifier and a dot a number is an
\* identifier; 0 starts an octal, hex (0x), decimal (0.) or 0B literal.
StartWithNumber(s, L) ==
    LET pos == L.r
        r1 == ReadByte(s, pos)
        ch1 == Peek(s, r1)
        p1 == Inc(s, r1)
        p2 == IncAsLongAs(s, p1, "hex")
        ident(r) == LET e == IncAsLongAs(s, r, "isIdentChar")
                    IN  Tok("identifier", pos, Data(s, pos, e), At(L, e))
    IN  IF L.identifierDot THEN ScanIdentifier(s, L)
        ELSE IF Peek(s, pos) # "0" THEN NumberTail(s, L, pos, "intLit", r1)
        ELSE CASE IsOct(ch1) -> NumberTail(s, L, pos, "intLit", IncAsLongAs(s, Inc(s, r1), "oct"))
               [] ch1 \in {"x", "X"} ->
                     IF p1 = p2 \/ IsDigit(Peek(s, p2)) THEN ident(p2)
                     ELSE NumberTail(s, L, pos, "hexLit", p2)
               [] ch1 = "." -> ScanFloat(s, L, pos)
               [] ch1 = "B" -> ident(r1)
               [] OTHER -> NumberTail(s, L, pos, "intLit", r1)

\* startWithDot: a dot, or a number such as .5 (which may not become an
\* identifier).
StartWithDot(s, L) ==
    LET pos == L.r
        r1 == Inc(s, pos)
        f == ScanFloat(s, At(L, r1), pos)
    IN  IF L.identifierDot \/ ~IsDigit(Peek(s, r1)) THEN Tok(".", pos, << "." >>, At(L, r1))
        ELSE IF f.tok = "identifier" THEN Tok("invalid", f.pos, f.lit, f.L)
        ELSE f

RECURSIVE Scan(_, _), CommentLoop(_, _, _, _, _)

\* startWithSharp: a # comment runs to the end of the line.
StartWithSharp(s, L) == Scan(s, At(L, IncAsLongAs(s, L.r, "notNL")))

\* The loop of startWithSlash inside a /* comment: drop everything up to
\* */ and scan on; without */ the error is appended and the zero token
\* (end) is returned at the comment's start.
CommentLoop(s, L, pos, r, currentCharIsStar) ==
    LET r1 == IF currentCharIsStar THEN r ELSE IncAsLongAs(s, r, "notStar")
        b == Peek(s, r1)
        r2 == ReadByte(s, r1)
    IN  IF ~currentCharIsStar /\ Peek(s, r1) # "*"
        THEN Tok("EOF", pos, << >>, [L EXCEPT !.r = r1, !.errs = @ + 1])
        ELSE CASE b = "/" -> Scan(s, At(L, r2))
               [] b = "*" -> CommentLoop(s, L, pos, r2, TRUE)
               [] OTHER -> CommentLoop(s, L, pos, r2, FALSE)

\* startWithSlash: /, the graph arrows /- and /->, a /*! block whose
\* content is scanned (its */ is skipped by startWithStar), or a comment.
StartWithSlash(s, L) ==
    LET pos == L.r
        r1 == Inc(s, pos)
        ch == Peek(s, r1)
        r2 == Inc(s, r1)
        b == Peek(s, r2)
        r3 == ReadByte(s, r2)
    IN  CASE ch \notin {"*", "-"} -> Tok("/", pos, << "/" >>, At(L, r1))
          [] ch = "-" /\ b = ">" -> Tok("reachOutgoingRight", pos, << >>, At(L, Inc(s, r2)))
          [] ch = "-" -> Tok("reachIncomingRight", pos, << >>, At(L, r2))
          [] b = "!" ->
                Scan(s, [L EXCEPT !.r = VersionDigits(s, r3, 5, 5), !.inBangComment = TRUE])
          [] OTHER -> CommentLoop(s, L, pos, r3, b = "*")

\* Mutant: a star returned without moving past it.
StartWithStarNoInc(s, L) ==
    IF L.inBangComment /\ Peek(s, Inc(s, L.r)) = "/"
    THEN Scan(s, [L EXCEPT !.r = Inc(s, Inc(s, L.r)), !.inBangComment = FALSE])
    ELSE Tok("*", L.r, << "*" >>, [L EXCEPT !.identifierDot = FALSE])

\* startWithStar: inside /*! a */ ends the block; otherwise a star.
StartWithStar(s, L) ==
    LET pos == L.r
        r1 == Inc(s, pos)
    IN  IF L.inBangComment /\ Peek(s, r1) = "/"
        THEN Scan(s, [L EXCEPT !.r = Inc(s, r1), !.inBangComment = FALSE])
        ELSE Tok("*", pos, << "*" >>, [L EXCEPT !.r = r1, !.identifierDot = FALSE])

\* scan: skip white space; at the end the zero token; an identifier; or
\* the rule table's function or token for the first byte.
Scan(s, L) ==
    LET r == IF IsSpace(Peek(s, L.r)) THEN IncAsLongAs(s, L.r, "isSpace") ELSE L.r
        ch0 == Peek(s, r)
        L1 == At(L, r)
    IN  CASE Eof(s, r) -> Tok("EOF", r, << >>, L1)
          [] IsIdentExtend(ch0) -> ScanIdentifier(s, L1)
          [] ch0 = "/" -> StartWithSlash(s, L1)
          [] ch0 = "*" -> StartWithStar(s, L1)
          [] ch0 = "@" -> StartWithAt(s, L1)
          [] ch0 = "#" -> StartWithSharp(s, L1)
          [] ch0 = "." -> StartWithDot(s, L1)
          [] ch0 = "BQ" -> ScanQuotedIdent(s, L1)
          [] ch0 \in {"SQ", "DQ"} -> ScanString(s, L1)
          [] IsDigit(ch0) -> StartWithNumber(s, L1)
          [] ch0 \in Punct -> Tok(ch0, r, << ch0 >>, At(L, Inc(s, r)))
          [] OTHER -> Tok("invalid", r, << >>, L1)

-----------------------------------------------------------------------------
(* Lex                                                                     *)

\* toHex: strings.TrimPrefix(lit, "0x") then hex.DecodeString, which wants
\* an even number of hex digits.
HexOK(lit) ==
    LET h == IF Len(lit) >= 2 /\ SubSeq(lit, 1, 2) = << "0", "x" >>
             THEN SubSeq(lit, 3, Len(lit)) ELSE lit
    IN  Len(h) % 2 = 0 /\ \A i \in DOMAIN h : IsHex(h[i])

\* ParseUint's loop over a run of the alphabet's digits: n * 10 + d.
RECURSIVE DecimalValue(_)
DecimalValue(lit) ==
    IF lit = << >> THEN 0
    ELSE 10 * DecimalValue(Front(lit)) + (IF Last(lit) = "1" THEN 1 ELSE 0)

\* AppendError: the error is appended to errs.
AppendError(L) == [L EXCEPT !.errs = @ + 1]

\* toInt: strconv.ParseUint(lit, 10, 64), the value of the literal (read as
\* decimal, an octal-looking one too); at or above 2^64 ParseUint fails
\* with ErrRange and the literal goes to toDecimal, whose
\* datum.ParseDecimal (not in the sources) takes any run of digits.
ToInt(x) ==
    IF DecimalValue(x.lit) < 2 ^ UintBits THEN [x EXCEPT !.item = DecimalValue(x.lit)]
    ELSE [x EXCEPT !.tok = "decLit"]

\* Lex: scan, then convert: an integer literal is parsed; a hex literal
\* that does not decode appends an error and is invalid; an identifier or
\* quoted identifier is an identifier and records whether a dot follows it.
Convert(s, x) ==
    CASE x.tok = "intLit" -> ToInt(x)
      [] x.tok = "hexLit" /\ ~HexOK(x.lit) ->
            [x EXCEPT !.tok = "invalid", !.L = AppendError(@)]
      [] x.tok \in {"identifier", "quotedIdentifier"} ->
            [x EXCEPT !.tok = "identifier", !.L.identifierDot = Peek(s, x.L.r) = "."]
      [] OTHER -> x

LexOp(s, L) == Convert(s, Scan(s, L))

-----------------------------------------------------------------------------
(* The parser's calls.                                                     *)

VARIABLES
    sql,    \* the text being lexed
    lx,     \* the Lexer
    toks    \* the tokens returned so far: [tok, off, end, lit, item]

lexVars == <<sql, lx, toks>>

\* NewLexer(sql): a zero Lexer, reset.
LexerInit(text) ==
    [r |-> StartPos, inBangComment |-> FALSE, identifierDot |-> FALSE, errs |-> 0]

\* reset(sql), as Parse calls it on the lexer of a pooled parser: the
\* reader, the errors and inBangComment start over, identifierDot is left
\* as the last text set it.
LexerReset(L) == [L EXCEPT !.r = StartPos, !.inBangComment = FALSE, !.errs = 0]

\* The parser stops at the end token or at invalid.
Done == toks # << >> /\ Last(toks).tok \in {"EOF", "invalid"}

\* One call of Lex by the parser.
Lex ==
    /\ ~Done
    /\ Len(toks) < MaxTokens
    /\ LET x == LexOp(sql, lx)
       IN  /\ lx' = x.L
           /\ toks' = Append(toks, [tok |-> x.tok, off |-> x.pos.off, end |-> x.L.r.off,
                                     lit |-> x.lit, item |-> x.item])
    /\ UNCHANGED sql

=============================================================================
