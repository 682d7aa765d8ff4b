---------------------------- MODULE PatternMatch ----------------------------
(***************************************************************************)
(* What one pattern of a .gitignore matches: NewPattern and the three      *)
(* kinds of pattern of src/go-gitignore/pattern.go, and the fnmatch they   *)
(* call (src/vendor/github.com/danwakefield/fnmatch/fnmatch.go) with the   *)
(* one flag they use, FNM_PATHNAME.  No state: operators on words.  A word *)
(* is a sequence of runes, a path a word in which "/" separates the        *)
(* components; "esc" is the backslash.                                     *)
(***************************************************************************)
EXTENDS Integers, Sequences, SequencesExt

CONSTANT Code   \* the code points of the runes, which ranges compare and UTF-8 encodes

-----------------------------------------------------------------------------
(* fnmatch                                                                 *)

\* The rest of a class from position k: past the "]" that ends it, or failed.
AfterClass(p, k) ==
  LET skip[i \in k..Len(p) + 2] ==
        IF i > Len(p) THEN [ok |-> FALSE, next |-> i]
        ELSE CASE p[i] = "]" -> [ok |-> TRUE, next |-> i + 1]
               [] p[i] = "esc" /\ i < Len(p) -> skip[i + 2]
               [] OTHER -> skip[i + 1]
  IN skip[k]

\* Broken variant: a rune is taken off whenever there is one.
BytesLeftAny(p, k) == k <= Len(p)

\* len(*pattern) > 1, which counts bytes: more than one is left from position k.
BytesLeft(p, k) == k < Len(p) \/ (k = Len(p) /\ Code[p[k]] > 127)

\* rangematch: the class whose members begin at position i, asked about rune r.
\* The members are looked at up to the first that holds r.  It is fallen when a
\* rune of several bytes is the last of the pattern and a member of the class:
\* (*pattern)[0] is asked for behind it, and the program panics.
Class(p, i, r) ==
  LET negate == i <= Len(p) /\ p[i] \in {"^", "!"}
      unescaped(k) == IF p[k] = "esc" THEN k + 1 ELSE k
      ends(outcome, k) == [outcome |-> outcome, next |-> k]
      member[k \in i..Len(p) + 3] ==
        IF ~BytesLeft(p, k) \/ p[k] = "]" THEN ends("other", k)
        ELSE LET from == unescaped(k)
                 isRange == from + 1 < Len(p) /\ p[from + 1] = "-" /\ p[from + 2] # "]"
                 to == IF isRange THEN unescaped(from + 2) ELSE from
             IN IF (p[k] = "esc" /\ ~BytesLeft(p, from)) \/ to > Len(p) THEN ends("failed", from)
                ELSE IF from = Len(p) THEN ends("fallen", from)
                ELSE IF Code[p[from]] <= Code[r] /\ Code[r] <= Code[p[to]] THEN ends("member", to + 1)
                ELSE member[to + 1]
      found == member[IF negate THEN i + 1 ELSE i]
      after == AfterClass(p, found.next)
  IN [ok |-> /\ i <= Len(p) /\ after.ok
             /\ found.outcome = (IF negate THEN "other" ELSE "member"),
      fallen |-> found.outcome = "fallen",
      next |-> after.next]

\* Match of fnmatch.go: p from position i matches s from position j.
Fnmatch(p, s, pathname) ==
  LET separator(j) == pathname /\ s[j] = "/"
      separators(j) == {t \in j..Len(s) : separator(t)}
      match[at \in (1..Len(p) + 1) \X (1..Len(s) + 1)] ==
        LET i == at[1]
            j == at[2]
        IN IF i > Len(p) THEN j > Len(s)
           ELSE CASE p[i] = "?" -> j <= Len(s) /\ ~separator(j) /\ match[<<i + 1, j + 1>>]
             [] p[i] = "[" ->
                  /\ j <= Len(s) /\ ~separator(j)
                  /\ LET c == Class(p, i + 1, s[j]) IN c.ok /\ match[<<c.next, j + 1>>]
             [] p[i] = "*" ->
                  LET after == Min({k \in i..Len(p) + 1 : k > Len(p) \/ p[k] # "*"})
                  IN IF after > Len(p) THEN separators(j) = {}
                     ELSE IF pathname /\ p[after] = "/"
                     THEN separators(j) # {} /\ match[<<after + 1, Min(separators(j)) + 1>>]
                     ELSE \E t \in j..Len(s) :
                            (\A x \in separators(j) : t <= x) /\ match[<<after, t>>]
             [] p[i] = "esc" /\ i < Len(p) ->
                  j <= Len(s) /\ s[j] = p[i + 1] /\ match[<<i + 2, j + 1>>]
             [] OTHER -> j <= Len(s) /\ s[j] = p[i] /\ match[<<i + 1, j + 1>>]
  IN match[<<1, 1>>]

\* Match comes to a class of p that is fallen.  What precedes the class has to
\* match up to the rune it is asked about: a "?" in its place, unless the place is
\* escaped, takes any rune.  No way of matching p gets past such a class, so the
\* search has tried them all.
Falls(p, s, pathname) ==
  \E i \in DOMAIN p, j \in DOMAIN s :
    /\ p[i] = "[" /\ ~(pathname /\ s[j] = "/")
    /\ Fnmatch(Append(SubSeq(p, 1, i - 1), "?"), Append(SubSeq(s, 1, j - 1), "["), pathname)
    /\ Class(p, i + 1, s[j]).fallen

-----------------------------------------------------------------------------
(* Patterns                                                                *)

\* The runes of a list of tokens.
Words(tokens) == FlattenSeq([i \in DOMAIN tokens |-> tokens[i].word])
Types(tokens) == {tokens[i].type : i \in DOMAIN tokens}

\* compile: what the tokens hold decides the kind of pattern.
Kind(tokens) ==
  IF "ANY" \in Types(tokens) THEN "any"
  ELSE IF "SEPARATOR" \in Types(tokens) THEN "path"
  ELSE "name"

\* The tokens of a line: a negation, a separator at the beginning and one at the
\* end are taken off.
NewPattern(tokens) ==
  LET negated == tokens[1].type = "NEGATION"
      given == IF negated THEN Tail(tokens) ELSE tokens
      anchored == given[1].type = "SEPARATOR"
      body == IF anchored THEN Tail(given) ELSE given
      directory == body # <<>> /\ Last(body).type = "SEPARATOR"
      rest == IF directory THEN Front(body) ELSE body
  IN [negated |-> negated, anchored |-> anchored, directory |-> directory,
      kind |-> Kind(rest), tokens |-> rest, fnmatch |-> Words(rest)]

\* filepath.Split.
FileOf(path) == SubSeq(path, 1 + Max({0} \cup {i \in DOMAIN path : path[i] = "/"}), Len(path))

HasGlob(word) == \E i \in DOMAIN word : word[i] \in {"*", "?", "[", "esc"}

\* Broken variant: an anchored pattern is matched against the whole path.
NameMatchSpanning(p, path) ==
  LET target == IF p.anchored THEN path ELSE FileOf(path)
      literal == Tail(p.fnmatch)
  IN IF ~HasGlob(p.fnmatch) THEN target = p.fnmatch
     ELSE IF p.fnmatch[1] = "*" /\ ~HasGlob(literal) THEN IsSuffix(literal, target)
     ELSE Fnmatch(p.fnmatch, target, FALSE)

\* name.Match, with the two fast paths for a literal and for "*" and a literal.
NameMatch(p, path) ==
  LET target == IF p.anchored THEN path ELSE FileOf(path)
      literal == Tail(p.fnmatch)
  IN /\ p.anchored => "/" \notin ToSet(path)
     /\ IF ~HasGlob(p.fnmatch) THEN target = p.fnmatch
        ELSE IF p.fnmatch[1] = "*" /\ ~HasGlob(literal) THEN IsSuffix(literal, target)
        ELSE Fnmatch(p.fnmatch, target, FALSE)

PathMatch(p, path) == Fnmatch(p.fnmatch, path, TRUE)

\* Where the component of a path that begins at j ends (strings.Split).
Cut(path, j) == Min({k \in j..Len(path) : path[k] = "/"} \cup {Len(path) + 1})

\* any.Match: the tokens from i, other than separators, against the components of
\* the path from position j, where "**" stands for any number of them.
AnyMatch(p, path) ==
  LET match[at \in (1..Len(p.tokens) + 1) \X (1..Len(path) + 2)] ==
        LET i == at[1]
            j == at[2]
            some == j <= Len(path) + 1
            next == Cut(path, j) + 1
        IN IF i > Len(p.tokens) THEN ~some
           ELSE CASE p.tokens[i].type = "SEPARATOR" -> match[<<i + 1, j>>]
             [] p.tokens[i].type = "ANY" -> match[<<i + 1, j>>] \/ (some /\ match[<<i, next>>])
             [] OTHER ->
                  /\ some
                  /\ Fnmatch(p.tokens[i].word, SubSeq(path, j, next - 2), TRUE)
                  /\ match[<<i + 1, next>>]
  IN match[<<1, 1>>]

\* any.Match comes to a token with a fallen class: those before it match, with a
\* "*" for its own component, what of the path ends there.
AnyFalls(p, path) ==
  \E i \in DOMAIN p.tokens, j \in {1} \cup {k + 1 : k \in {x \in DOMAIN path : path[x] = "/"}} :
    LET component == SubSeq(path, j, Cut(path, j) - 1)
        before == SubSeq(p.tokens, 1, i - 1)
    IN /\ p.tokens[i].type \notin {"SEPARATOR", "ANY"}
       /\ AnyMatch([p EXCEPT !.tokens = Append(before, [p.tokens[i] EXCEPT !.word = <<"*">>])],
                   SubSeq(path, 1, Cut(path, j) - 1))
       /\ Falls(p.tokens[i].word, component, TRUE)

\* Match of the three kinds panics.
MatchPanics(p, path, isdir) ==
  /\ p.directory => isdir
  /\ CASE p.kind = "name" -> /\ p.anchored => "/" \notin ToSet(path)
                             /\ Falls(p.fnmatch, IF p.anchored THEN path ELSE FileOf(path), FALSE)
       [] p.kind = "path" -> Falls(p.fnmatch, path, TRUE)
       [] p.kind = "any" -> AnyFalls(p, path)

\* Match of the three kinds.
Matches(p, path, isdir) ==
  /\ p.directory => isdir
  /\ CASE p.kind = "name" -> NameMatch(p, path)
       [] p.kind = "path" -> PathMatch(p, path)
       [] p.kind = "any" -> AnyMatch(p, path)
=============================================================================
