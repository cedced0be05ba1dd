----------------------------- MODULE QueryLexer -----------------------------
(***************************************************************************)
(* The lexer of the query language.  The state is a source text, one       *)
(* character longer with each step.                                        *)
(***************************************************************************)
EXTENDS Naturals, SequencesExt

CONSTANTS Letters, MaxLength, MaxTokens

Characters == Letters \cup {" ", "(", ")", "q", "\\", "!", "&", "|"}   \* q is the double quote

VARIABLE source

Init == source = << >>
Next == Len(source) < MaxLength /\ \E c \in Characters : source' = Append(source, c)
-----------------------------------------------------------------------------
Fails(code) == [ok |-> FALSE, code |-> code]
Token(kind, value, first, last) == [kind |-> kind, value |-> value, first |-> first, last |-> last]

At(s, i) == IF i \in DOMAIN s THEN s[i] ELSE "end"
Twice(s, i, c) == At(s, i) = c /\ At(s, i + 1) = c

(* A word ends before a space, a parenthesis, a quote, && or ||.           *)
Breaks(s, i) == At(s, i) \in {" ", "(", ")", "q", "end"} \/ Twice(s, i, "&") \/ Twice(s, i, "|")

WordEnd(s, i) == CHOOSE j \in i .. Len(s) + 1 : Breaks(s, j) /\ \A k \in i .. j - 1 : ~Breaks(s, k)

Keyword(word) ==
  CASE word = <<"O", "R">> -> "or"
    [] word \in {<<"&">>, <<"|">>} -> "unsupported"
    [] OTHER -> "word"

Word(s, i) ==
  LET j == WordEnd(s, i)
      word == SubSeq(s, i, j - 1)
  IN CASE Contains(word, "\\") -> Fails("invalid_escape")
       [] ~Contains(word, "\\") /\ Keyword(word) = "unsupported" -> Fails("unexpected_token")
       [] OTHER -> [ok |-> TRUE, token |-> Token(Keyword(word), word, i, j - 1)]

(* A phrase, from the character after its quote: a backslash escapes a     *)
(* quote or a backslash and nothing else.                                  *)
Escapable(c) == c \in {"q", "\\"}

RECURSIVE Phrase(_, _, _, _)
Phrase(s, start, i, value) ==
  CASE At(s, i) = "end" -> Fails("unterminated_quote")
    [] At(s, i) = "q" -> [ok |-> TRUE, token |-> Token("phrase", value, start, i)]
    [] At(s, i) = "\\" ->
         IF Escapable(At(s, i + 1)) THEN Phrase(s, start, i + 2, Append(value, At(s, i + 1)))
           ELSE Fails("invalid_escape")
    [] OTHER -> Phrase(s, start, i + 1, Append(value, At(s, i)))

Symbol(s, i) ==
  CASE Twice(s, i, "&") -> [ok |-> TRUE, token |-> Token("and", << >>, i, i + 1)]
    [] Twice(s, i, "|") -> [ok |-> TRUE, token |-> Token("or", << >>, i, i + 1)]
    [] At(s, i) = "(" -> [ok |-> TRUE, token |-> Token("open", << >>, i, i)]
    [] At(s, i) = ")" -> [ok |-> TRUE, token |-> Token("close", << >>, i, i)]
    [] At(s, i) = "!" -> [ok |-> TRUE, token |-> Token("not", << >>, i, i)]
    [] At(s, i) = "q" -> Phrase(s, i, i + 1, << >>)
    [] OTHER -> Word(s, i)

RECURSIVE LexFrom(_, _, _)
LexFrom(s, i, out) ==
  CASE At(s, i) = "end" -> [ok |-> TRUE, tokens |-> out]
    [] At(s, i) = " " -> LexFrom(s, i + 1, out)
    [] OTHER ->
         LET next == Symbol(s, i)
         IN IF ~next.ok THEN next
            ELSE IF Len(out) = MaxTokens THEN Fails("query_too_complex")
            ELSE LexFrom(s, next.token.last + 1, Append(out, next.token))

Lex(s) == LexFrom(s, 1, << >>)

(* How the search engine quotes a value it sends to Reddit.                *)
Escaped(value) ==
  FlattenSeq([i \in DOMAIN value |-> IF value[i] \in {"q", "\\"} THEN <<"\\", value[i]>> ELSE <<value[i]>>])
Quote(value) == <<"q">> \o Escaped(value) \o <<"q">>
-----------------------------------------------------------------------------
(***************************************************************************)
(* Properties.                                                             *)
(***************************************************************************)
(* A value that was quoted is read back as one phrase with that value,     *)
(* whatever quotes, backslashes and operators it holds.                    *)
QuotedValuesReturn ==
  LET result == Lex(Quote(source))
  IN result.ok /\ result.tokens =
       <<Token("phrase", source, 1, Len(Quote(source)))>>

(* What the parser of the language takes for granted of its tokens: they   *)
(* are in order and apart, what lies between them is space, and two words  *)
(* never touch.                                                            *)
TokensStandApart ==
  Lex(source).ok =>
    LET t == Lex(source).tokens
        covered == UNION {t[i].first .. t[i].last : i \in DOMAIN t}
    IN /\ \A i \in DOMAIN source \ covered : source[i] = " "
       /\ \A i \in DOMAIN t \ {1} :
            /\ t[i].first > t[i - 1].last
            /\ t[i].first = t[i - 1].last + 1 =>
                 ~(t[i - 1].kind = "word" /\ t[i].kind \in {"word", "not"})

(* What lex and quote promise the parser and the planner.                  *)
LexerIsFaithful == QuotedValuesReturn /\ TokensStandApart
=============================================================================
