---------------------------- MODULE IgnoreParser ----------------------------
(***************************************************************************)
(* Reading a .gitignore: the lexer (src/go-gitignore/lexer.go) and the     *)
(* parser on top of it (src/go-gitignore/parser.go), with its list of      *)
(* tokens put back, its recovery at the end of a line that cannot be       *)
(* parsed, and the error handler that may stop it.                         *)
(*                                                                         *)
(* A text is a sequence of runes: those the lexer tells apart, and Chars;  *)
(* "fault" stands for a read that fails once.  After the text comes the    *)
(* tail: the end of the file, or a reader that fails for ever.  A rune     *)
(* that is read and put back leaves the lexer where it was, so its state   *)
(* is the position of the next rune and where the line began.              *)
(***************************************************************************)
EXTENDS Integers, Sequences, FiniteSets, FiniteSetsExt, SequencesExt

CONSTANTS
  Texts,   \* the texts that may be read
  Chars    \* the runes that say nothing to the lexer

Runes == {"/", "*", "#", "!", "sp", "cr", "nl", "esc", "fault"} \cup Chars

\* No rune of a text is the sign for its end.
ASSUME ParserAssumption == Texts \subseteq Seq(Runes) /\ "eof" \notin Chars

VARIABLES
  text,     \* what is read
  tail,     \* what follows it: "eof" or "fault"
  pos,      \* the rune the lexer reads next
  line,     \* _line
  start,    \* where that line began: _column is pos - start + 1
  undone,   \* _undo, the tokens put back
  mode,     \* the parser function that asks for the next token
  tokens,   \* the tokens of the pattern in hand
  patterns, \* what Parse has collected
  errors    \* the positions the error handler was given

lexer == <<pos, line, start>>
vars == <<text, tail, lexer, undone, mode, tokens, patterns, errors>>

-----------------------------------------------------------------------------
(* The lexer                                                               *)

Rune(i) == IF i <= Len(text) THEN text[i] ELSE tail

\* A token ends before position i, or its reading fails and the lexer stands at
\* i.  Bound: the failures after the end of the text are counted once.
Good(i) == [ok |-> TRUE, next |-> i]
Bad(i) == [ok |-> FALSE, next |-> Min({i, Len(text) + 2})]

\* Broken variant: a read that fails is passed over.
UntilDeaf(i, stops) ==
  Good(Min({k \in i..Len(text) + 1 : Rune(k) \in stops \cup {"eof"} \/ k = Len(text) + 1}))

\* Everything from i to the first rune of stops.
Until(i, stops) ==
  LET j == Min({k \in i..Len(text) + 1 : Rune(k) \in stops \cup {"eof", "fault"}})
  IN IF Rune(j) = "fault" THEN Bad(j + 1) ELSE Good(j)

\* A pattern ends at white space, a separator, the end of the line or "**"; an
\* escape takes the next rune along, except at the end of the line.
Pattern[i \in 1..Len(text) + 2] ==
  CASE Rune(i) = "fault" -> Bad(i + 1)
    [] Rune(i) \in {"sp", "cr", "nl", "/", "eof"} -> Good(i)
    [] Rune(i) \in {"*", "esc"} /\ Rune(i + 1) = "fault" -> Bad(i + 2)
    [] Rune(i) = "*" /\ Rune(i + 1) = "*" -> Good(i)
    [] Rune(i) = "esc" /\ Rune(i + 1) \notin {"cr", "nl", "eof", "fault"} -> Pattern[i + 2]
    [] OTHER -> Pattern[i + 1]

\* A carriage return has to be followed by a newline.
Eol(i) ==
  IF Rune(i) = "nl" THEN Good(i + 1)
  ELSE IF Rune(i + 1) = "nl" THEN Good(i + 2)
  ELSE Bad(IF Rune(i + 1) = "fault" THEN i + 2 ELSE i + 1)

Beginning == pos = start

\* What the next rune announces.  A read that fails shows in the extent.
Type ==
  CASE Rune(pos) = "eof" -> "EOF"
    [] Rune(pos) \in {"cr", "nl"} -> "EOL"
    [] Rune(pos) = "sp" -> "WHITESPACE"
    [] Rune(pos) = "/" -> "SEPARATOR"
    [] Rune(pos) = "*" /\ Rune(pos + 1) = "*" -> "ANY"
    [] Rune(pos) = "#" /\ Beginning -> "COMMENT"
    [] Rune(pos) = "!" /\ Beginning -> "NEGATION"
    [] OTHER -> "PATTERN"

Extent ==
  CASE Type = "EOF" -> Good(pos)
    [] Type = "EOL" -> Eol(pos)
    [] Type = "WHITESPACE" -> Until(pos, Runes \ {"sp"})
    [] Type \in {"SEPARATOR", "NEGATION"} -> Good(pos + 1)
    [] Type = "ANY" -> Good(pos + 2)
    [] Type = "COMMENT" -> Until(pos, {"cr", "nl"})
    [] OTHER -> Pattern[pos]

Lexed == [type |-> Type, from |-> pos, to |-> Extent.next, line |-> line,
          column |-> pos - start + 1]

-----------------------------------------------------------------------------
(* The parser                                                              *)

\* next(): the token put back last comes first.
Failed == undone = <<>> /\ ~Extent.ok
Token == IF undone # <<>> THEN Last(undone) ELSE Lexed
Rest == IF undone # <<>> THEN Front(undone) ELSE <<>>
Advance ==
  IF undone # <<>> THEN UNCHANGED lexer
  ELSE /\ pos' = Extent.next
       /\ IF Type = "EOL" /\ Extent.ok
          THEN line' = line + 1 /\ start' = pos'
          ELSE UNCHANGED <<line, start>>

Taken == Advance /\ undone' = Rest
PutBack == Advance /\ undone' = Append(Rest, Token)

\* The handler is told of an error at a position: it stops the parser, or the
\* rest of the line is skipped.
Report(l, c) ==
  /\ errors' = errors \cup {[line |-> l, column |-> c]}
  /\ mode' \in {"skip", "refused"}
  /\ tokens' = <<>>
  /\ UNCHANGED patterns

\* Broken variant: the token stays consumed.
RejectConsumed == Taken /\ Report(Token.line, Token.column)

\* A token that may not stand here goes back, and its position is reported.
Reject == PutBack /\ Report(Token.line, Token.column)

\* A read failed: the position is the one the lexer has come to.
ReadError == Failed /\ Taken /\ Report(line, Extent.next - start + 1)

\* Another token for the pattern in hand, and who asks for the one after it.
Extend ==
  /\ Taken
  /\ tokens' = Append(tokens, Token)
  /\ mode' = CASE Token.type = "SEPARATOR" -> "separator"
               [] Token.type = "ANY" -> "any"
               [] Token.type \in {"WHITESPACE", "PATTERN"} -> "pattern"
  /\ UNCHANGED <<patterns, errors>>

\* path() drops white space at the end, negation() does not.
Trimmed ==
  IF tokens[1].type = "NEGATION" THEN tokens
  ELSE SubSeq(tokens, 1, Max({0} \cup {i \in DOMAIN tokens : tokens[i].type # "WHITESPACE"}))

\* NewPattern: no tokens make no pattern.
Emit ==
  /\ patterns' = IF Trimmed = <<>> THEN patterns
                 ELSE Append(patterns, [line |-> Head(Trimmed).line,
                                        column |-> Head(Trimmed).column,
                                        from |-> Head(Trimmed).from, to |-> Last(Trimmed).to,
                                        tokens |-> Trimmed])
  /\ tokens' = <<>>
  /\ mode' = "top"
  /\ UNCHANGED errors

LineEnd == {"EOL", "EOF"}

\* Next and build.
Top ==
  /\ mode = "top"
  /\ \/ ReadError
     \/ /\ ~Failed /\ Token.type \in {"EOF", "EOL", "COMMENT"}
        /\ Taken
        /\ mode' = IF Token.type = "EOF" THEN "done" ELSE "top"
        /\ UNCHANGED <<tokens, patterns, errors>>
     \/ /\ ~Failed /\ Token.type = "NEGATION"
        /\ Taken
        /\ tokens' = <<Token>>
        /\ mode' = "sequence"
        /\ UNCHANGED <<patterns, errors>>
     \/ ~Failed /\ Token.type \notin {"EOF", "EOL", "COMMENT", "NEGATION"} /\ Extend
  /\ UNCHANGED <<text, tail>>

\* negation and sequence: a "!" alone is no pattern.
AfterNegation ==
  /\ mode = "sequence"
  /\ \/ ReadError
     \/ ~Failed /\ Token.type \notin LineEnd /\ Extend
     \/ ~Failed /\ Token.type \in LineEnd /\ Reject
  /\ UNCHANGED <<text, tail>>

\* separator: everything may follow it.
AfterSeparator ==
  /\ mode = "separator"
  /\ \/ ReadError
     \/ ~Failed /\ Token.type \notin LineEnd /\ Extend
     \/ ~Failed /\ Token.type \in LineEnd /\ Taken /\ Emit
  /\ UNCHANGED <<text, tail>>

\* any: only a separator may follow "**", or white space to the end of the line.
AfterAny ==
  /\ mode = "any"
  /\ \/ ReadError
     \/ ~Failed /\ Token.type = "SEPARATOR" /\ Extend
     \/ /\ ~Failed /\ Token.type = "WHITESPACE"
        /\ Taken
        /\ mode' = "eol"
        /\ UNCHANGED <<tokens, patterns, errors>>
     \/ ~Failed /\ Token.type \in LineEnd /\ Taken /\ Emit
     \/ ~Failed /\ Token.type \notin LineEnd \cup {"SEPARATOR", "WHITESPACE"} /\ Reject
  /\ UNCHANGED <<text, tail>>

\* pattern: "**" may not follow it.
AfterPattern ==
  /\ mode = "pattern"
  /\ \/ ReadError
     \/ ~Failed /\ Token.type \in {"SEPARATOR", "WHITESPACE", "PATTERN"} /\ Extend
     \/ ~Failed /\ Token.type \in LineEnd /\ Taken /\ Emit
     \/ ~Failed /\ Token.type \notin LineEnd \cup {"SEPARATOR", "WHITESPACE", "PATTERN"} /\ Reject
  /\ UNCHANGED <<text, tail>>

\* Broken variant: any puts the end of the line back once more.
EolTwice ==
  /\ mode = "eol"
  /\ \/ ReadError
     \/ ~Failed /\ Token.type \in LineEnd /\ Advance /\ undone' = Rest \o <<Token, Token>> /\ Emit
     \/ ~Failed /\ Token.type \notin LineEnd /\ Reject
  /\ UNCHANGED <<text, tail>>

\* eol: the white space after "**" has to come to the end of the line.
LineEnds ==
  /\ mode = "eol"
  /\ \/ ReadError
     \/ ~Failed /\ Token.type \in LineEnd /\ PutBack /\ Emit
     \/ ~Failed /\ Token.type \notin LineEnd /\ Reject
  /\ UNCHANGED <<text, tail>>

\* Broken variant: only a newline ends the skipping.
SkippedAtNewline == Token.type = "EOL"

Skipped == Token.type \in LineEnd

\* skip, and the loop around it that goes on after an error.
Skip ==
  /\ mode = "skip"
  /\ \/ ReadError
     \/ /\ ~Failed
        /\ Taken
        /\ mode' = IF Skipped THEN "top" ELSE "skip"
        /\ UNCHANGED <<tokens, patterns, errors>>
  /\ UNCHANGED <<text, tail>>

\* Parse has returned.
Returned == mode \in {"done", "refused"} /\ UNCHANGED vars

Init ==
  /\ text \in Texts
  /\ tail \in {"eof", "fault"}
  /\ pos = 1 /\ line = 1 /\ start = 1
  /\ undone = <<>>
  /\ mode = "top"
  /\ tokens = <<>> /\ patterns = <<>> /\ errors = {}

Parse == Top \/ AfterNegation \/ AfterSeparator \/ AfterAny \/ AfterPattern \/ LineEnds \/ Skip

Next == Parse \/ Returned

Spec == Init /\ [][Next]_vars

\* The call runs on: nothing it waits for.
FairSpec == Spec /\ WF_vars(Parse)

-----------------------------------------------------------------------------
(* What a line holds, said of its runes and without tokens                 *)

Newlines == {i \in DOMAIN text : text[i] = "nl"}
LineStarts == {1} \cup {i + 1 : i \in Newlines}
LineNumber(s) == 1 + Cardinality({i \in Newlines : i < s})

\* The line from s reaches up to To(s), its content up to Stop(s).
To(s) == Min({i \in Newlines : i >= s} \cup {Len(text) + 1})
Stop(s) ==
  IF To(s) <= Len(text) /\ To(s) > s /\ text[To(s) - 1] = "cr" THEN To(s) - 1 ELSE To(s)
Content(s) == s..Stop(s) - 1

Negated(s) == s \in Content(s) /\ text[s] = "!"
Body(s) == IF Negated(s) THEN Content(s) \ {s} ELSE Content(s)

\* An escape that is not itself escaped takes the next rune of the line.
Escaped(s) ==
  LET escaped[i \in s..Stop(s)] == i > s /\ text[i - 1] = "esc" /\ ~escaped[i - 1]
  IN {i \in Body(s) : escaped[i]}
Plain(s, rune) == {i \in Body(s) \ Escaped(s) : text[i] = rune}

Spaces(s, i) == \A j \in Content(s) : j >= i => text[j] = "sp"
Doubles(s) == {i \in Plain(s, "*") : i + 1 \in Plain(s, "*")}

\* "**" has to be a whole component of the path.
Whole(s, i) ==
  /\ i - 1 \in Body(s) => i - 1 \in Plain(s, "/")
  /\ i + 2 \in Plain(s, "/") \/ Spaces(s, i + 2)

Unread(s) ==
  \/ \E i \in Content(s) : text[i] \in {"fault", "cr"}
  \/ tail = "fault" /\ To(s) = Len(text) + 1
Comment(s) == s \in Content(s) /\ text[s] = "#"
Malformed(s) ==
  \/ Unread(s)
  \/ /\ ~Comment(s)
     /\ \/ Negated(s) /\ Body(s) = {}
        \/ \E i \in Doubles(s) : ~Whole(s, i)

Silent(s) == Comment(s) \/ Spaces(s, s)

\* White space at the end is dropped, of a negated pattern only after "**".
Ends(s) ==
  IF Negated(s)
  THEN Min({Stop(s)} \cup {i + 2 : i \in {d \in Doubles(s) : Spaces(s, d + 2)}})
  ELSE 1 + Max(Content(s) \ Plain(s, "sp"))

Expected ==
  {[line |-> LineNumber(s), column |-> 1, from |-> s, to |-> Ends(s)] :
     s \in {t \in LineStarts : ~Malformed(t) /\ ~Silent(t)}}

Place(p) == [line |-> p.line, column |-> p.column, from |-> p.from, to |-> p.to]

-----------------------------------------------------------------------------
(* Properties                                                              *)

\* Every variable has its type, and at most one token is ever put back.
TypeOK ==
  /\ text \in Seq(Runes) /\ tail \in {"eof", "fault"}
  /\ pos \in 1..Len(text) + 2
  /\ line \in 1..Cardinality(LineStarts)
  /\ start \in LineStarts /\ start <= pos
  /\ Len(undone) <= 1
  /\ mode \in {"top", "sequence", "separator", "any", "pattern", "eol", "skip", "done", "refused"}
  /\ \A i \in DOMAIN tokens : tokens[i].type \in {"NEGATION", "SEPARATOR", "ANY", "WHITESPACE", "PATTERN"}
  /\ mode \in {"separator", "any", "pattern", "eol"} => tokens # <<>>

\* The patterns are what the lines hold one by one, in their order and with
\* their positions: the recovery from a bad line loses no good line and makes
\* none up, and a parser that was stopped has not passed over any.
PatternsFollowLines ==
  /\ \A i, j \in DOMAIN patterns : i < j => patterns[i].line < patterns[j].line
  /\ {Place(p) : p \in ToSet(patterns)} =
       {p \in Expected : mode = "done" \/ \E i \in DOMAIN patterns : p.line <= patterns[i].line}

\* The error handler hears of the lines that cannot be parsed and of no other,
\* and of all of them when the parser comes to the end.
BadLinesReported ==
  LET bad == {LineNumber(s) : s \in {t \in LineStarts : Malformed(t)}}
      reported == {e.line : e \in errors}
  IN /\ reported \subseteq bad
     /\ mode = "done" => reported = bad

\* The parser comes to its end when the reader does.
ParseEnds == tail = "eof" ~> mode \in {"done", "refused"}
=============================================================================
