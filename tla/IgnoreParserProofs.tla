------------------------- MODULE IgnoreParserProofs -------------------------
(***************************************************************************)
(* Theorems about IgnoreParser, for every text.                            *)
(***************************************************************************)
EXTENDS IgnoreParser, Induction, SequenceTheorems

-----------------------------------------------------------------------------
(* Least and greatest numbers                                              *)

LEMMA MinOf ==
  ASSUME NEW T, T \subseteq Nat, T # {}
  PROVE  Min(T) \in T /\ \A m \in T : Min(T) <= m
<1>1. \E n \in T : \A m \in T : n <= m
  BY LeastNatural
<1>. QED
  BY <1>1 DEF Min

LEMMA MinOfTwo ==
  ASSUME NEW i \in Nat, NEW k \in Nat
  PROVE  Min({i, k}) = IF i <= k THEN i ELSE k
<1>1. Min({i, k}) \in {i, k} /\ \A m \in {i, k} : Min({i, k}) <= m
  BY MinOf
<1>. QED
  BY <1>1

LEMMA MaxOf ==
  ASSUME NEW n \in Nat, NEW T, T \subseteq 0..n, T # {}
  PROVE  Max(T) \in T /\ \A m \in T : m <= Max(T)
<1>. DEFINE U == {n - m : m \in T}
<1>0. \A m \in T : n - m \in Nat
  OBVIOUS
<1>1. U \subseteq Nat /\ U # {}
  BY <1>0
<1>2. PICK u \in U : \A v \in U : u <= v
  BY <1>1, LeastNatural
<1>3. PICK x \in T : u = n - x
  BY <1>2
<1>4. \A m \in T : x >= m
  BY <1>2, <1>3
<1>. QED
  BY <1>4 DEF Max

-----------------------------------------------------------------------------
(* A recursive definition that goes up an interval has a solution          *)

Ascends(f, lo, hi, stop, val, inc) ==
  f = [j \in lo..hi |-> IF stop[j] THEN val[j] ELSE f[j + inc[j]]]

LEMMA DefinedUp ==
  ASSUME NEW lo, NEW hi, NEW stop, NEW val, NEW inc,
         \A j \in lo..hi : ~stop[j] => j + inc[j] \in lo..hi
  PROVE  \E f : Ascends(f, lo, hi, stop, val, inc)
<1>. DEFINE D == lo..hi
            Closed(X) == \A x \in X : ~stop[x] => x + inc[x] \in X
            From(j) == {x \in D : \A X \in SUBSET D : j \in X /\ Closed(X) => x \in X}
            Finds(j) == {x \in From(j) : stop[x]}
            f == [j \in D |-> val[CHOOSE x : x \in Finds(j)]]
<1>1. ASSUME NEW j \in D, stop[j] PROVE Finds(j) = {j}
  <2>1. {j} \in SUBSET D /\ Closed({j})
    BY <1>1
  <2>2. From(j) \subseteq {j}
    BY <2>1
  <2>. QED
    BY <1>1, <2>2
<1>2. ASSUME NEW j \in D, ~stop[j] PROVE Finds(j) = Finds(j + inc[j])
  <2>. DEFINE k == j + inc[j]
  <2>1. k \in D /\ \A x \in D : ~stop[x] => x + inc[x] \in D
    BY <1>2
  <2>. HIDE DEF k, D
  <2>2. From(k) \subseteq From(j)
    BY <1>2 DEF k
  <2>3. From(j) \subseteq {j} \cup From(k)
    <3>1. k \in From(k) /\ Closed(From(k))
      BY <2>1
    <3>2. Closed({j} \cup From(k))
      BY <3>1 DEF k
    <3>3. {j} \cup From(k) \in SUBSET D
      OBVIOUS
    <3>. QED
      BY <3>2, <3>3
  <2>. QED
    BY <1>2, <2>2, <2>3 DEF k
<1>. HIDE DEF Finds
<1>3. \A j \in D : f[j] = IF stop[j] THEN val[j] ELSE f[j + inc[j]]
  <2>. SUFFICES ASSUME NEW j \in D PROVE f[j] = IF stop[j] THEN val[j] ELSE f[j + inc[j]]
    OBVIOUS
  <2>1. f[j] = val[CHOOSE x : x \in Finds(j)]
    OBVIOUS
  <2>2. CASE stop[j]
    <3>1. (CHOOSE x : x \in Finds(j)) = j
      BY <1>1, <2>2
    <3>. HIDE DEF f, D
    <3>. QED
      BY <2>1, <2>2, <3>1
  <2>3. CASE ~stop[j]
    <3>1. j + inc[j] \in D /\ Finds(j) = Finds(j + inc[j])
      BY <1>2, <2>3
    <3>2. f[j + inc[j]] = val[CHOOSE x : x \in Finds(j + inc[j])]
      BY <3>1
    <3>. HIDE DEF f, D
    <3>. QED
      BY <2>1, <2>3, <3>1, <3>2
  <2>. QED
    BY <2>2, <2>3
<1>4. f = [j \in D |-> f[j]]
  OBVIOUS
<1>. HIDE DEF f
<1>5. Ascends(f, lo, hi, stop, val, inc)
  BY <1>3, <1>4 DEF Ascends
<1>. QED
  BY <1>5

-----------------------------------------------------------------------------
(* The lexer                                                               *)

ReadText == text \in Seq(Runes) /\ tail \in {"eof", "fault"}

NoNewline(i, j) == \A k \in i..(j - 1) : k \notin Newlines

\* What a token's reading from position i comes to, unless it ends the line.
Scans(e, i) ==
  /\ e.next \in Nat /\ i <= e.next /\ e.next <= Len(text) + 2
  /\ NoNewline(i, e.next)

LEMMA TextFacts ==
  ASSUME ReadText
  PROVE  /\ Len(text) \in Nat
         /\ Newlines \subseteq 1..Len(text)
         /\ \A i \in Nat : 1 <= i => (Rune(i) = "nl" <=> i \in Newlines)
         /\ \A i \in Nat : Len(text) < i => Rune(i) = tail
<1>1. Len(text) \in Nat /\ DOMAIN text = 1..Len(text)
  BY LenProperties DEF ReadText
<1>. QED
  BY <1>1 DEF ReadText, Newlines, Rune

LEMMA GoodFacts == \A i : Good(i).ok /\ Good(i).next = i
BY DEF Good

LEMMA BadFacts ==
  ASSUME ReadText, NEW i \in Nat
  PROVE  ~Bad(i).ok /\ Bad(i).next = IF i <= Len(text) + 2 THEN i ELSE Len(text) + 2
<1>1. Len(text) + 2 \in Nat
  BY TextFacts
<1>. QED
  BY <1>1, MinOfTwo DEF Bad

\* Reading on up to a rune that stops it, where a newline does.
LEMMA UntilScans ==
  ASSUME ReadText, NEW i \in Nat, 1 <= i, i <= Len(text) + 1, NEW stops, "nl" \in stops
  PROVE  /\ Scans(Until(i, stops), i)
         /\ Rune(i) \notin stops \cup {"eof", "fault"} => i < Until(i, stops).next
<1>. DEFINE T == {k \in i..Len(text) + 1 : Rune(k) \in stops \cup {"eof", "fault"}}
            j == Min(T)
<1>1. Len(text) \in Nat
  BY TextFacts
<1>2. Rune(Len(text) + 1) \in {"eof", "fault"}
  BY <1>1, TextFacts DEF ReadText
<1>3. T \subseteq Nat /\ Len(text) + 1 \in T
  BY <1>1, <1>2
<1>4. j \in T /\ \A m \in T : j <= m
  BY <1>3, MinOf
<1>. HIDE DEF j
<1>5. j \in Nat /\ i <= j /\ j <= Len(text) + 1
  BY <1>1, <1>4
<1>6. NoNewline(i, j)
  <2>. SUFFICES ASSUME NEW k \in i..(j - 1), k \in Newlines PROVE FALSE
    BY DEF NoNewline
  <2>1. k \in Nat /\ 1 <= k /\ Rune(k) = "nl"
    BY <1>5, TextFacts
  <2>2. k \in T
    BY <1>1, <1>5, <2>1
  <2>. QED
    BY <1>4, <1>5, <2>2
<1>7. Until(i, stops) = IF Rune(j) = "fault" THEN Bad(j + 1) ELSE Good(j)
  BY DEF Until, j
<1>8. CASE Rune(j) = "fault"
  <2>1. j \notin Newlines
    BY <1>5, <1>8, TextFacts
  <2>2. NoNewline(i, j + 1)
    BY <1>5, <1>6, <2>1 DEF NoNewline
  <2>3. ~Bad(j + 1).ok /\ Bad(j + 1).next = j + 1
    BY <1>1, <1>5, BadFacts
  <2>. QED
    BY <1>1, <1>5, <1>7, <1>8, <2>2, <2>3 DEF Scans
<1>9. CASE Rune(j) # "fault"
  BY <1>1, <1>4, <1>5, <1>6, <1>7, <1>9, GoodFacts DEF Scans
<1>. QED
  BY <1>8, <1>9

\* The end of a line: the rune after its newline, or a failure before it.
LEMMA EolEnds ==
  ASSUME ReadText, NEW i \in Nat, 1 <= i, i <= Len(text), Rune(i) \in {"cr", "nl"}
  PROVE  /\ Eol(i).next \in Nat /\ i < Eol(i).next /\ Eol(i).next <= Len(text) + 2
         /\ ~Eol(i).ok => NoNewline(i, Eol(i).next)
         /\ Eol(i).ok => /\ Eol(i).next - 1 \in Newlines
                         /\ NoNewline(i, Eol(i).next - 1)
<1>1. Len(text) \in Nat /\ i + 1 \in Nat /\ i + 2 \in Nat
  BY TextFacts
<1>2. CASE Rune(i) = "nl"
  <2>1. Eol(i) = Good(i + 1)
    BY <1>2 DEF Eol
  <2>2. i \in Newlines
    BY <1>2, TextFacts
  <2>. QED
    BY <1>1, <2>1, <2>2, GoodFacts DEF NoNewline
<1>3. CASE Rune(i) # "nl" /\ Rune(i + 1) = "nl"
  <2>1. Eol(i) = Good(i + 2)
    BY <1>3 DEF Eol
  <2>2. i \notin Newlines /\ i + 1 \in Newlines
    BY <1>1, <1>3, TextFacts
  <2>3. i + 1 <= Len(text)
    BY <1>1, <2>2, TextFacts
  <2>. QED
    BY <1>1, <2>1, <2>2, <2>3, GoodFacts DEF NoNewline
<1>4. CASE Rune(i) # "nl" /\ Rune(i + 1) # "nl"
  <2>1. Eol(i) = Bad(i + 2) \/ Eol(i) = Bad(i + 1)
    BY <1>4 DEF Eol
  <2>2. i \notin Newlines /\ i + 1 \notin Newlines
    BY <1>1, <1>4, TextFacts
  <2>. QED
    BY <1>1, <2>1, <2>2, BadFacts DEF NoNewline
<1>. QED
  BY <1>2, <1>3, <1>4

\* Where Pattern ends, and by how much it goes on where it does not.
Halts(i) ==
  \/ Rune(i) \in {"fault", "sp", "cr", "nl", "/", "eof"}
  \/ Rune(i) \in {"*", "esc"} /\ Rune(i + 1) = "fault"
  \/ Rune(i) = "*" /\ Rune(i + 1) = "*"
Halted(i) ==
  IF Rune(i) = "fault" THEN Bad(i + 1)
  ELSE IF Rune(i) \in {"*", "esc"} /\ Rune(i + 1) = "fault" THEN Bad(i + 2)
  ELSE Good(i)
Stride(i) == IF Rune(i) = "esc" /\ Rune(i + 1) \notin {"cr", "nl", "eof", "fault"} THEN 2 ELSE 1

LEMMA PatternGoesOn ==
  ASSUME ReadText, NEW i \in 1..Len(text) + 2, ~Halts(i)
  PROVE  /\ i <= Len(text) /\ i + Stride(i) \in 1..Len(text) + 2
         /\ NoNewline(i, i + Stride(i))
<1>1. Len(text) \in Nat /\ i \in Nat /\ i + 1 \in Nat
  BY TextFacts
<1>2. i <= Len(text) /\ i \notin Newlines
  BY <1>1, TextFacts DEF Halts, ReadText
<1>3. CASE Stride(i) = 2
  <2>1. Rune(i) = "esc" /\ Rune(i + 1) \notin {"cr", "nl", "eof", "fault"}
    BY <1>3 DEF Stride
  <2>2. i + 1 \notin Newlines
    BY <1>1, <2>1, TextFacts
  <2>. QED
    BY <1>1, <1>2, <1>3, <2>2 DEF NoNewline
<1>4. CASE Stride(i) = 1
  BY <1>1, <1>2, <1>4 DEF NoNewline
<1>. QED
  BY <1>3, <1>4 DEF Stride

LEMMA PatternUnfolds ==
  ASSUME ReadText
  PROVE  \A i \in 1..Len(text) + 2 :
           Pattern[i] = IF Halts(i) THEN Halted(i) ELSE Pattern[i + Stride(i)]
<1>. DEFINE D == 1..Len(text) + 2
            stop == [i \in D |-> Halts(i)]
            val == [i \in D |-> Halted(i)]
            inc == [i \in D |-> Stride(i)]
<1>1. \A i \in D : ~stop[i] => i + inc[i] \in D
  BY PatternGoesOn
<1>. HIDE DEF stop, val, inc
<1>2. PICK f : Ascends(f, 1, Len(text) + 2, stop, val, inc)
  BY <1>1, DefinedUp
<1>3. f = [i \in D |-> IF stop[i] THEN val[i] ELSE f[i + inc[i]]]
  BY <1>2 DEF Ascends
<1>4. \A i \in D : f[i] = IF Halts(i) THEN Halted(i) ELSE f[i + Stride(i)]
  BY <1>3 DEF stop, val, inc
<1>5. f = [i \in D |-> f[i]]
  BY <1>3
<1>. DEFINE Clauses(g, i) ==
              CASE Rune(i) = "fault" -> Bad(i + 1)
                [] Rune(i) \in {"sp", "cr", "nl", "/", "eof"} -> Good(i)
                [] Rune(i) \in {"*", "esc"} /\ Rune(i + 1) = "fault" -> Bad(i + 2)
                [] Rune(i) = "*" /\ Rune(i + 1) = "*" -> Good(i)
                [] Rune(i) = "esc" /\ Rune(i + 1) \notin {"cr", "nl", "eof", "fault"} -> g[i + 2]
                [] OTHER -> g[i + 1]
<1>6. \A g, i : Clauses(g, i) = IF Halts(i) THEN Halted(i) ELSE g[i + Stride(i)]
  BY DEF Halts, Halted, Stride
<1>. HIDE DEF Clauses
<1>7. f = [i \in D |-> Clauses(f, i)]
  <2>1. \A i \in D : f[i] = Clauses(f, i)
    BY <1>4, <1>6, SMTT(60)
  <2>. QED
    BY <1>5, <2>1
<1>8. Pattern = [i \in D |-> Clauses(Pattern, i)]
  BY <1>7 DEF Pattern, Clauses
<1>. QED
  BY <1>6, <1>8

LEMMA HaltedScans ==
  ASSUME ReadText, NEW i \in 1..Len(text) + 2, Halts(i)
  PROVE  Scans(Halted(i), i)
<1>1. Len(text) \in Nat /\ i \in Nat /\ i + 1 \in Nat /\ i + 2 \in Nat
  BY TextFacts
<1>2. CASE Rune(i) = "fault"
  <2>1. i \notin Newlines /\ Halted(i) = Bad(i + 1)
    BY <1>1, <1>2, TextFacts DEF Halted
  <2>2. ~Bad(i + 1).ok /\ Bad(i + 1).next = IF i + 1 <= Len(text) + 2 THEN i + 1 ELSE Len(text) + 2
    BY <1>1, BadFacts
  <2>. QED
    BY <1>1, <2>1, <2>2 DEF Scans, NoNewline
<1>3. CASE Rune(i) \in {"*", "esc"} /\ Rune(i + 1) = "fault"
  <2>1. i \notin Newlines /\ i + 1 \notin Newlines /\ Halted(i) = Bad(i + 2)
    BY <1>1, <1>3, TextFacts DEF Halted
  <2>2. ~Bad(i + 2).ok /\ Bad(i + 2).next = IF i + 2 <= Len(text) + 2 THEN i + 2 ELSE Len(text) + 2
    BY <1>1, BadFacts
  <2>. QED
    BY <1>1, <2>1, <2>2 DEF Scans, NoNewline
<1>4. CASE Rune(i) # "fault" /\ ~(Rune(i) \in {"*", "esc"} /\ Rune(i + 1) = "fault")
  BY <1>1, <1>4, GoodFacts DEF Halted, Scans, NoNewline
<1>. QED
  BY <1>2, <1>3, <1>4

\* Induction on the distance from the end of the text.
LEMMA PatternScans ==
  ASSUME ReadText
  PROVE  \A i \in 1..Len(text) + 2 : Scans(Pattern[i], i)
<1>. DEFINE n == Len(text) + 2
            X == {i \in 1..n : ~Scans(Pattern[i], i)}
            T == {n - i : i \in X}
<1>1. n \in Nat
  BY TextFacts
<1>2. SUFFICES ASSUME X # {} PROVE FALSE
  OBVIOUS
<1>3. T \subseteq Nat /\ T # {}
  <2>1. \A i \in X : n - i \in Nat
    BY <1>1
  <2>. QED
    BY <1>2, <2>1
<1>4. PICK i \in X : \A m \in T : n - i <= m
  BY <1>3, LeastNatural
<1>5. ~Halts(i)
  BY <1>4, HaltedScans, PatternUnfolds
<1>. DEFINE k == i + Stride(i)
<1>6. Pattern[i] = Pattern[k]
  BY <1>4, <1>5, PatternUnfolds
<1>7. k \in 1..n /\ NoNewline(i, k) /\ Stride(i) \in {1, 2}
  BY <1>4, <1>5, PatternGoesOn DEF Stride
<1>8. Scans(Pattern[k], k)
  <2>. SUFFICES ASSUME k \in X PROVE FALSE
    BY <1>7
  <2>1. n - k \in T
    OBVIOUS
  <2>2. n - i <= n - k
    BY <1>4, <2>1
  <2>. QED
    BY <1>1, <1>4, <1>7, <2>2
<1>. HIDE DEF k
<1>9. i <= k /\ i \in Nat /\ k \in Nat
  BY <1>1, <1>4, <1>7 DEF k
<1>10. NoNewline(i, Pattern[i].next)
  BY <1>6, <1>7, <1>8, <1>9 DEF Scans, NoNewline
<1>11. Scans(Pattern[i], i)
  BY <1>6, <1>8, <1>9, <1>10 DEF Scans
<1>. QED
  BY <1>4, <1>11

\* A pattern that does not begin where one ends takes a rune.
LEMMA PatternTakes ==
  ASSUME ReadText, NEW i \in 1..Len(text) + 2,
         Rune(i) \notin {"sp", "cr", "nl", "/", "eof"}, ~(Rune(i) = "*" /\ Rune(i + 1) = "*")
  PROVE  Pattern[i].ok => i < Pattern[i].next
<1>1. CASE Halts(i)
  <2>1. Pattern[i] = Bad(i + 1) \/ Pattern[i] = Bad(i + 2)
    BY <1>1, PatternUnfolds DEF Halts, Halted
  <2>2. ~Bad(i + 1).ok /\ ~Bad(i + 2).ok
    BY DEF Bad
  <2>. QED
    BY <2>1, <2>2
<1>2. CASE ~Halts(i)
  <2>1. Pattern[i] = Pattern[i + Stride(i)] /\ i + Stride(i) \in 1..Len(text) + 2
    BY <1>2, PatternUnfolds, PatternGoesOn
  <2>2. Stride(i) \in {1, 2}
    BY DEF Stride
  <2>3. i + Stride(i) <= Pattern[i].next /\ Pattern[i].next \in Nat
    BY <2>1, PatternScans DEF Scans
  <2>. QED
    BY <2>2, <2>3
<1>. QED
  BY <1>1, <1>2

\* Where the lexer stands: in the line that began at start, which line counts.
LexerInv ==
  /\ ReadText
  /\ pos \in Nat /\ pos <= Len(text) + 2
  /\ start \in LineStarts /\ start <= pos
  /\ NoNewline(start, pos)
  /\ line = Cardinality({s \in LineStarts : s <= start})

LEMMA LineStartsAre ==
  ASSUME ReadText
  PROVE  /\ LineStarts \subseteq 1..Len(text) + 1
         /\ IsFiniteSet(LineStarts)
<1>1. Len(text) \in Nat /\ Newlines \subseteq 1..Len(text)
  BY TextFacts
<1>2. LineStarts \subseteq 1..Len(text) + 1
  <2>1. 1 \in 1..Len(text) + 1
    BY <1>1
  <2>2. ASSUME NEW i \in Newlines PROVE i + 1 \in 1..Len(text) + 1
    <3>1. i \in 1..Len(text)
      BY <1>1
    <3>. QED
      BY <1>1, <3>1
  <2>. QED
    BY <2>1, <2>2 DEF LineStarts
<1>3. IsFiniteSet(1..Len(text) + 1)
  BY <1>1, FS_Interval
<1>. QED
  BY <1>2, <1>3, FS_Subset

\* What the next token takes: the newline if it ends the line, and no other.
LEMMA ExtentTakes ==
  ASSUME LexerInv
  PROVE  /\ Type \in {"EOF", "EOL", "WHITESPACE", "SEPARATOR", "ANY", "COMMENT", "NEGATION", "PATTERN"}
         /\ Extent.next \in Nat /\ pos <= Extent.next /\ Extent.next <= Len(text) + 2
         /\ Type # "EOF" /\ Extent.ok => pos < Extent.next
         /\ ~(Type = "EOL" /\ Extent.ok) => NoNewline(pos, Extent.next)
         /\ Type = "EOL" /\ Extent.ok => /\ Extent.next - 1 \in Newlines
                                         /\ NoNewline(pos, Extent.next - 1)
         /\ Type \in {"NEGATION", "COMMENT"} => pos = start
<1>1. /\ ReadText /\ Len(text) \in Nat /\ pos \in Nat /\ 1 <= pos /\ pos <= Len(text) + 2
  BY TextFacts, LineStartsAre DEF LexerInv
<1>2. ASSUME Rune(pos) \notin {"eof", "fault"} PROVE pos <= Len(text)
  BY <1>1, <1>2, TextFacts DEF ReadText
<1>3. CASE Rune(pos) = "eof"
  <2>1. Type = "EOF" /\ Extent = Good(pos)
    BY <1>3 DEF Type, Extent
  <2>. QED
    BY <1>1, <2>1, GoodFacts DEF NoNewline
<1>4. CASE Rune(pos) \in {"cr", "nl"}
  <2>1. Type = "EOL" /\ Extent = Eol(pos)
    BY <1>4 DEF Type, Extent
  <2>. QED
    BY <1>1, <1>2, <1>4, <2>1, EolEnds
<1>5. CASE Rune(pos) = "sp"
  <2>1. Type = "WHITESPACE" /\ Extent = Until(pos, Runes \ {"sp"})
    BY <1>5 DEF Type, Extent
  <2>2. "nl" \in Runes \ {"sp"} /\ Rune(pos) \notin (Runes \ {"sp"}) \cup {"eof", "fault"}
    BY <1>5 DEF Runes
  <2>3. Scans(Extent, pos) /\ pos < Extent.next
    BY <1>1, <1>2, <1>5, <2>1, <2>2, UntilScans
  <2>. QED
    BY <2>1, <2>3 DEF Scans
<1>6. CASE Rune(pos) = "/"
  <2>1. Type = "SEPARATOR" /\ Extent = Good(pos + 1)
    BY <1>6 DEF Type, Extent
  <2>2. pos <= Len(text) /\ pos \notin Newlines
    BY <1>1, <1>2, <1>6, TextFacts
  <2>. QED
    BY <1>1, <2>1, <2>2, GoodFacts DEF NoNewline
<1>7. CASE Rune(pos) = "*" /\ Rune(pos + 1) = "*"
  <2>1. Type = "ANY" /\ Extent = Good(pos + 2)
    BY <1>7 DEF Type, Extent
  <2>2. pos <= Len(text) /\ pos \notin Newlines /\ pos + 1 \notin Newlines
    BY <1>1, <1>2, <1>7, TextFacts
  <2>3. Extent.next = pos + 2
    BY <2>1, GoodFacts
  <2>. QED
    BY <1>1, <2>1, <2>2, <2>3 DEF NoNewline
<1>8. CASE Rune(pos) = "#" /\ Beginning
  <2>1. Type = "COMMENT" /\ Extent = Until(pos, {"cr", "nl"})
    BY <1>8 DEF Type, Extent
  <2>2. Scans(Extent, pos) /\ pos < Extent.next
    BY <1>1, <1>2, <1>8, <2>1, UntilScans
  <2>. QED
    BY <1>8, <2>1, <2>2 DEF Scans, Beginning
<1>9. CASE Rune(pos) = "!" /\ Beginning
  <2>1. Type = "NEGATION" /\ Extent = Good(pos + 1)
    BY <1>9 DEF Type, Extent
  <2>2. pos <= Len(text) /\ pos \notin Newlines
    BY <1>1, <1>2, <1>9, TextFacts
  <2>. QED
    BY <1>1, <1>9, <2>1, <2>2, GoodFacts DEF NoNewline, Beginning
<1>10. CASE /\ Rune(pos) \notin {"eof", "cr", "nl", "sp", "/"}
            /\ ~(Rune(pos) = "*" /\ Rune(pos + 1) = "*")
            /\ ~(Rune(pos) \in {"#", "!"} /\ Beginning)
  <2>1. Type = "PATTERN" /\ Extent = Pattern[pos]
    BY <1>10 DEF Type, Extent
  <2>2. Scans(Extent, pos) /\ (Extent.ok => pos < Extent.next)
    BY <1>1, <1>10, <2>1, PatternScans, PatternTakes
  <2>. QED
    BY <2>1, <2>2 DEF Scans
<1>. QED
  BY <1>3, <1>4, <1>5, <1>6, <1>7, <1>8, <1>9, <1>10

\* The end of a line is the beginning of the next: one line more begins there.
LEMMA NextLine ==
  ASSUME LexerInv, Type = "EOL", Extent.ok
  PROVE  /\ Extent.next \in LineStarts
         /\ Cardinality({s \in LineStarts : s <= Extent.next}) = line + 1
         /\ \A s \in LineStarts : s < Extent.next => s <= start
<1>. DEFINE A == {s \in LineStarts : s <= start}
            n == Extent.next
<1>1. /\ n \in Nat /\ pos <= n /\ pos < n
      /\ n - 1 \in Newlines /\ NoNewline(pos, n - 1)
  BY ExtentTakes
<1>2. /\ ReadText /\ pos \in Nat /\ start \in Nat /\ 1 <= start /\ start <= pos /\ NoNewline(start, pos)
      /\ line = Cardinality(A)
  BY TextFacts, LineStartsAre DEF LexerInv
<1>3. n \in LineStarts
  <2>1. (n - 1) + 1 = n
    BY <1>1
  <2>. HIDE DEF n
  <2>. QED
    BY <1>1, <2>1 DEF LineStarts
<1>4. ASSUME NEW s \in LineStarts, s <= n, ~(s <= start) PROVE s = n
  <2>1. s \in Nat /\ s # 1
    BY <1>2, <1>4, TextFacts, LineStartsAre
  <2>2. s - 1 \in Newlines /\ s - 1 \in Nat
    <3>1. PICK i \in Newlines : s = i + 1
      BY <1>4, <2>1 DEF LineStarts
    <3>. QED
      BY <1>2, <2>1, <3>1, TextFacts
  <2>3. s - 1 \notin start..(pos - 1) /\ s - 1 \notin pos..(n - 1 - 1)
    BY <1>1, <1>2, <2>2 DEF NoNewline
  <2>. QED
    BY <1>1, <1>2, <1>4, <2>1, <2>2, <2>3
<1>5. n \notin A
  BY <1>1, <1>2
<1>6. {s \in LineStarts : s <= n} = A \cup {n}
  <2>1. \A s \in A : s <= n
    BY <1>1, <1>2, LineStartsAre, TextFacts
  <2>. QED
    BY <1>1, <1>3, <1>4, <2>1
<1>7. IsFiniteSet(A)
  BY <1>2, LineStartsAre, FS_Subset
<1>8. Cardinality(A \cup {n}) = Cardinality(A) + 1
  BY <1>5, <1>7, FS_AddElement
<1>9. \A s \in LineStarts : s < n => s <= start
  BY <1>1, <1>2, <1>4, LineStartsAre
<1>. QED
  BY <1>2, <1>3, <1>6, <1>8, <1>9

LEMMA AdvanceStep ==
  ASSUME LexerInv, Advance, UNCHANGED <<text, tail>>
  PROVE  /\ LexerInv'
         /\ pos <= pos'
         /\ undone = <<>> /\ Type \notin {"EOF", "EOL"} /\ Extent.ok => start' < pos'
         /\ undone # <<>> => UNCHANGED <<pos, start>>
<1>1. /\ ReadText /\ pos \in Nat /\ start \in Nat /\ 1 <= start /\ start <= pos /\ NoNewline(start, pos)
      /\ pos <= Len(text) + 2 /\ start \in LineStarts
      /\ line = Cardinality({s \in LineStarts : s <= start})
  BY TextFacts, LineStartsAre DEF LexerInv
<1>2. text' = text /\ tail' = tail /\ LineStarts' = LineStarts /\ Newlines' = Newlines
  BY DEF LineStarts, Newlines
<1>3. CASE undone # <<>>
  <2>1. pos' = pos /\ line' = line /\ start' = start
    BY <1>3 DEF Advance, lexer
  <2>. QED
    BY <1>1, <1>2, <1>3, <2>1 DEF LexerInv, ReadText, NoNewline
<1>4. CASE undone = <<>> /\ Type = "EOL" /\ Extent.ok
  <2>1. pos' = Extent.next /\ line' = line + 1 /\ start' = Extent.next
    BY <1>4 DEF Advance
  <2>2. Extent.next \in Nat /\ pos <= Extent.next /\ Extent.next <= Len(text) + 2
    BY ExtentTakes
  <2>3. /\ Extent.next \in LineStarts
        /\ Cardinality({s \in LineStarts : s <= Extent.next}) = line + 1
    BY <1>4, NextLine
  <2>. HIDE DEF Extent
  <2>. DEFINE n == Extent.next
  <2>4. NoNewline(n, n)
    BY <2>2 DEF NoNewline
  <2>. HIDE DEF n
  <2>5. LexerInv'
    BY <1>1, <1>2, <2>1, <2>2, <2>3, <2>4 DEF LexerInv, ReadText, NoNewline, n
  <2>. QED
    BY <1>4, <2>1, <2>2, <2>5
<1>5. CASE undone = <<>> /\ ~(Type = "EOL" /\ Extent.ok)
  <2>1. pos' = Extent.next /\ line' = line /\ start' = start
    BY <1>5 DEF Advance
  <2>2. /\ Extent.next \in Nat /\ pos <= Extent.next /\ Extent.next <= Len(text) + 2
        /\ NoNewline(pos, Extent.next) /\ (Type # "EOF" /\ Extent.ok => pos < Extent.next)
    BY <1>5, ExtentTakes
  <2>. DEFINE n == Extent.next
  <2>3. NoNewline(start, n)
    BY <1>1, <2>2 DEF NoNewline
  <2>. HIDE DEF n
  <2>4. n \in Nat /\ n <= Len(text) + 2 /\ start <= n /\ pos' = n
    BY <1>1, <2>1, <2>2 DEF n
  <2>5. LexerInv'
    BY <1>1, <1>2, <2>1, <2>3, <2>4 DEF LexerInv, ReadText, NoNewline
  <2>. QED
    BY <1>1, <1>5, <2>1, <2>2, <2>5
<1>. QED
  BY <1>3, <1>4, <1>5

-----------------------------------------------------------------------------
(* The parser                                                              *)

PatternTypes == {"NEGATION", "SEPARATOR", "ANY", "WHITESPACE", "PATTERN"}
Lexeme == [type : PatternTypes \cup {"EOF", "EOL", "COMMENT"},
           from : Nat, to : Nat, line : Nat, column : Nat]
Part == {t \in Lexeme : t.type \in PatternTypes}
Built == [line : Nat, column : Nat, from : Nat, to : Nat, tokens : Seq(Part)]

Modes == {"top", "sequence", "separator", "any", "pattern", "eol", "skip", "done", "refused"}

\* A token is put back only when the rest of its line is skipped, or by eol the end
\* of the line; a pattern in hand has begun in the line the lexer is in.
ParserInv ==
  /\ LexerInv
  /\ mode \in Modes
  /\ undone \in Seq(Lexeme) /\ Len(undone) <= 1
  /\ undone # <<>> => mode \in {"skip", "refused"} \/ (mode = "top" /\ undone[1].type \in LineEnd)
  /\ mode \in {"sequence", "separator", "any", "pattern", "eol"} => start < pos
  /\ tokens \in Seq(Part)
  /\ mode \in {"separator", "any", "pattern", "eol"} => tokens # <<>>
  /\ patterns \in Seq(Built)

LEMMA LineIsNatural == LexerInv => line \in Nat
<1>. SUFFICES ASSUME LexerInv PROVE line \in Nat
  OBVIOUS
<1>1. IsFiniteSet({s \in LineStarts : s <= start})
  BY LineStartsAre, FS_Subset DEF LexerInv
<1>. QED
  BY <1>1, FS_CardinalityType DEF LexerInv

LEMMA LexedIs ==
  ASSUME LexerInv
  PROVE  Lexed \in Lexeme /\ Lexed.type = Type
<1>1. pos \in Nat /\ start \in Nat /\ start <= pos /\ line \in Nat
  BY TextFacts, LineStartsAre, LineIsNatural DEF LexerInv
<1>2. Type \in PatternTypes \cup {"EOF", "EOL", "COMMENT"} /\ Extent.next \in Nat
  BY ExtentTakes DEF PatternTypes
<1>3. pos - start + 1 \in Nat
  BY <1>1
<1>. QED
  BY <1>1, <1>2, <1>3 DEF Lexed, Lexeme

\* next() hands out the token put back, of which there is one, or a new one.
LEMMA TokenIs ==
  ASSUME ParserInv
  PROVE  /\ Token \in Lexeme /\ Rest = <<>>
         /\ undone = <<>> => Token.type = Type
         /\ undone # <<>> => Token.type = undone[1].type
         /\ Append(Rest, Token) \in Seq(Lexeme) /\ Len(Append(Rest, Token)) = 1
         /\ Append(Rest, Token)[1] = Token
<1>1. LexerInv /\ undone \in Seq(Lexeme) /\ Len(undone) <= 1
  BY DEF ParserInv
<1>2. CASE undone = <<>>
  BY <1>1, <1>2, LexedIs DEF Token, Rest
<1>3. CASE undone # <<>>
  <2>1. Len(undone) = 1
    <3>1. Len(undone) \in Nat \ {0}
      BY <1>1, <1>3, EmptySeq
    <3>. QED
      BY <1>1, <3>1
  <2>2. Token = undone[1] /\ undone[1] \in Lexeme
    BY <1>1, <1>3, <2>1, ElementOfSeq DEF Token, Last
  <2>3. Rest = <<>>
    BY <1>3, <2>1, SubSeqEmpty DEF Rest, Front
  <2>. QED
    BY <1>3, <2>2, <2>3
<1>4. Token \in Lexeme /\ Rest = <<>>
  BY <1>2, <1>3
<1>5. /\ Append(Rest, Token) \in Seq(Lexeme) /\ Len(Append(Rest, Token)) = 1
      /\ Append(Rest, Token)[1] = Token
  BY <1>4, EmptySeq, AppendProperties
<1>. QED
  BY <1>2, <1>3, <1>4, <1>5

\* The parts of an action of the parser.
LEMMA TakenStep ==
  ASSUME ParserInv, Taken, UNCHANGED <<text, tail>>
  PROVE  /\ LexerInv' /\ undone' = <<>>
         /\ undone = <<>> /\ Type \notin LineEnd /\ ~Failed => start' < pos'
<1>1. LexerInv /\ Advance /\ undone' = <<>>
  BY TokenIs DEF ParserInv, Taken
<1>2. LexerInv'
  BY <1>1, AdvanceStep
<1>3. undone = <<>> /\ Type \notin LineEnd /\ ~Failed => start' < pos'
  BY <1>1, AdvanceStep DEF Failed, LineEnd
<1>. QED
  BY <1>1, <1>2, <1>3

LEMMA PutBackStep ==
  ASSUME ParserInv, PutBack, UNCHANGED <<text, tail>>
  PROVE  /\ LexerInv'
         /\ undone' \in Seq(Lexeme) /\ Len(undone') = 1
         /\ undone'[1].type = Token.type
<1>1. LexerInv /\ Advance /\ undone' = Append(Rest, Token)
  BY DEF ParserInv, PutBack
<1>2. LexerInv'
  BY <1>1, AdvanceStep
<1>. QED
  BY <1>1, <1>2, TokenIs

LEMMA ReportStep ==
  ASSUME ParserInv, LexerInv', undone' \in Seq(Lexeme), Len(undone') <= 1,
         NEW l, NEW c, Report(l, c)
  PROVE  ParserInv'
<1>1. <<>> \in Seq(Part)
  BY EmptySeq
<1>. QED
  BY <1>1 DEF Report, ParserInv, Modes

LEMMA ReadErrorStep ==
  ASSUME ParserInv, ReadError, UNCHANGED <<text, tail>>
  PROVE  ParserInv'
<1>1. LexerInv' /\ undone' = <<>>
  BY TakenStep DEF ReadError
<1>2. undone' \in Seq(Lexeme) /\ Len(undone') <= 1
  BY <1>1, EmptySeq
<1>3. Report(line, Extent.next - start + 1)
  BY DEF ReadError
<1>. QED
  BY <1>1, <1>2, <1>3, ReportStep

LEMMA RejectStep ==
  ASSUME ParserInv, Reject, UNCHANGED <<text, tail>>
  PROVE  ParserInv'
<1>1. LexerInv' /\ undone' \in Seq(Lexeme) /\ Len(undone') <= 1
  <2>1. LexerInv' /\ undone' \in Seq(Lexeme) /\ Len(undone') = 1
    BY PutBackStep DEF Reject
  <2>. QED
    BY <2>1
<1>2. Report(Token.line, Token.column)
  BY DEF Reject
<1>. QED
  BY <1>1, <1>2, ReportStep

\* A pattern is extended by a token that has just been read.
LEMMA ExtendStep ==
  ASSUME ParserInv, Extend, ~Failed, undone = <<>>, UNCHANGED <<text, tail>>,
         Type \in {"SEPARATOR", "ANY", "WHITESPACE", "PATTERN"}
  PROVE  ParserInv'
<1>1. Taken /\ tokens' = Append(tokens, Token) /\ patterns' = patterns
  BY DEF Extend
<1>2. LexerInv' /\ undone' = <<>> /\ start' < pos'
  BY <1>1, TakenStep DEF LineEnd
<1>3. Token \in Part /\ Token.type = Type
  BY TokenIs DEF Part, PatternTypes
<1>4. tokens' \in Seq(Part) /\ tokens' # <<>>
  BY <1>1, <1>3, AppendProperties DEF ParserInv
<1>5. mode' \in {"separator", "any", "pattern"}
  BY <1>3 DEF Extend
<1>6. undone' \in Seq(Lexeme) /\ Len(undone') <= 1
  BY <1>2, EmptySeq
<1>. QED
  BY <1>1, <1>2, <1>4, <1>5, <1>6 DEF ParserInv, Modes

\* The pattern that is emitted is made of the tokens in hand.
LEMMA TrimmedIs ==
  ASSUME tokens \in Seq(Part), tokens # <<>>
  PROVE  Trimmed \in Seq(Part)
<1>. DEFINE T == {0} \cup {i \in DOMAIN tokens : tokens[i].type # "WHITESPACE"}
<1>1. Len(tokens) \in Nat /\ DOMAIN tokens = 1..Len(tokens)
  BY LenProperties
<1>2. T \subseteq 0..Len(tokens) /\ T # {}
  BY <1>1
<1>3. Max(T) \in 0..Len(tokens)
  BY <1>1, <1>2, MaxOf
<1>. HIDE DEF T
<1>4. \A i \in 1..Max(T) : tokens[i] \in Part
  BY <1>1, <1>3, ElementOfSeq
<1>5. SubSeq(tokens, 1, Max(T)) \in Seq(Part)
  BY <1>3, <1>4, SubSeqProperties
<1>. QED
  BY <1>5 DEF Trimmed, T

LEMMA EmitStep ==
  ASSUME ParserInv, Emit, tokens # <<>>, LexerInv',
         undone' \in Seq(Lexeme), Len(undone') <= 1,
         undone' # <<>> => undone'[1].type \in LineEnd
  PROVE  ParserInv'
<1>1. patterns' \in Seq(Built)
  <2>. DEFINE p == [line |-> Head(Trimmed).line, column |-> Head(Trimmed).column,
                    from |-> Head(Trimmed).from, to |-> Last(Trimmed).to, tokens |-> Trimmed]
  <2>1. Trimmed \in Seq(Part) /\ patterns \in Seq(Built)
    BY TrimmedIs DEF ParserInv
  <2>2. CASE Trimmed = <<>>
    BY <2>1, <2>2 DEF Emit
  <2>3. CASE Trimmed # <<>>
    <3>1. Head(Trimmed) \in Part
      BY <2>1, <2>3, HeadTailProperties
    <3>2. Len(Trimmed) \in Nat \ {0}
      BY <2>1, <2>3, EmptySeq
    <3>3. Last(Trimmed) \in Part
      BY <2>1, <3>2, ElementOfSeq DEF Last
    <3>. HIDE DEF Trimmed, Last
    <3>4. p \in Built
      BY <2>1, <3>1, <3>3 DEF Built, Part, Lexeme
    <3>5. patterns' = Append(patterns, p)
      BY <2>3 DEF Emit
    <3>. QED
      BY <2>1, <3>4, <3>5, AppendProperties
  <2>. QED
    BY <2>2, <2>3
<1>2. tokens' = <<>> /\ <<>> \in Seq(Part) /\ mode' = "top"
  BY EmptySeq DEF Emit
<1>. QED
  BY <1>1, <1>2 DEF ParserInv, Modes

LEMMA ParseStep == ParserInv /\ Parse => ParserInv'
<1>. SUFFICES ASSUME ParserInv, Parse PROVE ParserInv'
  OBVIOUS
<1>1. LexerInv /\ undone \in Seq(Lexeme) /\ Len(undone) <= 1 /\ <<>> \in Seq(Lexeme) /\ Len(<<>>) <= 1
  BY EmptySeq DEF ParserInv
<1>2. UNCHANGED <<text, tail>>
  BY DEF Parse, Top, AfterNegation, AfterSeparator, AfterAny, AfterPattern, LineEnds, Skip
<1>3. ASSUME ReadError PROVE ParserInv'
  BY <1>2, <1>3, ReadErrorStep
<1>4. ASSUME Reject PROVE ParserInv'
  BY <1>2, <1>4, RejectStep
<1>5. ASSUME Taken PROVE LexerInv' /\ undone' = <<>>
  BY <1>2, <1>5, TakenStep
\* In the midst of a pattern the token is a new one, and no comment or negation.
<1>6. ASSUME mode \in {"sequence", "separator", "any", "pattern", "eol"}
      PROVE  /\ undone = <<>> /\ Token.type = Type
             /\ Type \in {"SEPARATOR", "ANY", "WHITESPACE", "PATTERN"} \cup LineEnd
  <2>1. undone = <<>> /\ start < pos
    BY <1>6 DEF ParserInv
  <2>2. pos # start
    BY <1>1, <2>1, TextFacts, LineStartsAre DEF LexerInv
  <2>3. Type \notin {"NEGATION", "COMMENT"}
    BY <1>1, <2>2, ExtentTakes
  <2>. QED
    BY <1>1, <2>1, <2>3, TokenIs, ExtentTakes DEF LineEnd
<1>7. ASSUME mode \in {"sequence", "separator", "any", "pattern", "eol"},
             ~Failed, Extend, Token.type \notin LineEnd
      PROVE  ParserInv'
  BY <1>2, <1>6, <1>7, ExtendStep
<1>8. ASSUME mode \in {"separator", "any", "pattern", "eol"}, Taken, Emit
      PROVE  ParserInv'
  <2>1. tokens # <<>>
    BY <1>8 DEF ParserInv
  <2>. QED
    BY <1>1, <1>5, <1>8, <2>1, EmitStep
<1>9. CASE Top
  <2>1. CASE Token.type \in {"EOF", "EOL", "COMMENT"} /\ Taken /\
             mode' \in {"done", "top"} /\ UNCHANGED <<tokens, patterns, errors>>
    BY <1>1, <1>5, <2>1 DEF ParserInv, Modes
  <2>2. CASE /\ ~Failed /\ Token.type = "NEGATION" /\ Taken /\ mode = "top"
             /\ tokens' = <<Token>> /\ mode' = "sequence" /\ UNCHANGED <<patterns, errors>>
    <3>1. undone = <<>> /\ Type = "NEGATION"
      BY <2>2, TokenIs DEF ParserInv, LineEnd
    <3>2. LexerInv' /\ undone' = <<>> /\ start' < pos'
      BY <1>2, <2>2, <3>1, TakenStep DEF LineEnd
    <3>3. Token \in Part
      BY <2>2, TokenIs DEF Part, PatternTypes
    <3>4. tokens' \in Seq(Part)
      BY <2>2, <3>3
    <3>. QED
      BY <1>1, <2>2, <3>2, <3>4 DEF ParserInv, Modes
  <2>3. CASE /\ ~Failed /\ mode = "top" /\ Extend
             /\ Token.type \notin {"EOF", "EOL", "COMMENT", "NEGATION"}
    <3>1. undone = <<>> /\ Token.type = Type
      BY <2>3, TokenIs DEF ParserInv, LineEnd
    <3>2. Type \in {"SEPARATOR", "ANY", "WHITESPACE", "PATTERN"}
      BY <1>1, <2>3, <3>1, ExtentTakes
    <3>. QED
      BY <1>2, <2>3, <3>1, <3>2, ExtendStep
  <2>. QED
    BY <1>3, <1>9, <2>1, <2>2, <2>3 DEF Top
<1>10. CASE AfterNegation
  BY <1>3, <1>4, <1>7, <1>10 DEF AfterNegation
<1>11. CASE AfterSeparator
  BY <1>3, <1>4, <1>7, <1>8, <1>11 DEF AfterSeparator
<1>12. CASE AfterAny
  <2>1. CASE /\ mode = "any" /\ ~Failed /\ Token.type = "WHITESPACE" /\ Taken
             /\ mode' = "eol" /\ UNCHANGED <<tokens, patterns, errors>>
    <3>1. undone = <<>> /\ Type = "WHITESPACE" /\ tokens # <<>>
      BY <1>6, <2>1 DEF ParserInv
    <3>2. LexerInv' /\ undone' = <<>> /\ start' < pos'
      BY <1>2, <2>1, <3>1, TakenStep DEF LineEnd
    <3>. QED
      BY <1>1, <2>1, <3>1, <3>2 DEF ParserInv, Modes
  <2>2. CASE mode = "any" /\ ~Failed /\ Token.type = "SEPARATOR" /\ Extend
    BY <1>7, <2>2 DEF LineEnd
  <2>3. CASE mode = "any" /\ Taken /\ Emit
    BY <1>8, <2>3
  <2>. QED
    BY <1>3, <1>4, <1>12, <2>1, <2>2, <2>3 DEF AfterAny
<1>13. CASE AfterPattern
  <2>1. CASE /\ mode = "pattern" /\ ~Failed /\ Extend
             /\ Token.type \in {"SEPARATOR", "WHITESPACE", "PATTERN"}
    BY <1>7, <2>1 DEF LineEnd
  <2>2. CASE mode = "pattern" /\ Taken /\ Emit
    BY <1>8, <2>2
  <2>. QED
    BY <1>3, <1>4, <1>13, <2>1, <2>2 DEF AfterPattern
<1>14. CASE LineEnds
  <2>1. CASE mode = "eol" /\ Token.type \in LineEnd /\ PutBack /\ Emit
    <3>1. tokens # <<>>
      BY <2>1 DEF ParserInv
    <3>2. LexerInv' /\ undone' \in Seq(Lexeme) /\ Len(undone') = 1 /\ undone'[1].type \in LineEnd
      BY <1>2, <2>1, PutBackStep
    <3>3. Len(undone') <= 1
      BY <3>2
    <3>. QED
      BY <2>1, <3>1, <3>2, <3>3, EmitStep
  <2>. QED
    BY <1>3, <1>4, <1>14, <2>1 DEF LineEnds
<1>15. CASE Skip
  <2>1. CASE /\ mode = "skip" /\ Taken /\ mode' \in {"top", "skip"}
             /\ UNCHANGED <<tokens, patterns, errors>>
    BY <1>1, <1>5, <2>1 DEF ParserInv, Modes
  <2>. QED
    BY <1>3, <1>15, <2>1 DEF Skip
<1>. QED
  BY <1>9, <1>10, <1>11, <1>12, <1>13, <1>14, <1>15 DEF Parse

LEMMA ParserStutter == ParserInv /\ UNCHANGED vars => ParserInv'
BY DEF vars, lexer, ParserInv, LexerInv, ReadText, NoNewline, LineStarts, Newlines

LEMMA ParserInit == Init => ParserInv
<1>. SUFFICES ASSUME Init PROVE ParserInv
  OBVIOUS
<1>1. ReadText
  BY ParserAssumption DEF Init, ReadText
<1>2. {s \in LineStarts : s <= 1} = {1}
  BY <1>1, LineStartsAre, TextFacts DEF LineStarts
<1>3. Cardinality({1}) = 1
  BY FS_EmptySet, FS_AddElement
<1>4. LexerInv
  <2>1. pos = 1 /\ start = 1 /\ line = 1 /\ 1 \in LineStarts
    BY DEF Init, LineStarts
  <2>2. Len(text) \in Nat /\ NoNewline(1, 1)
    BY <1>1, TextFacts DEF NoNewline
  <2>3. Cardinality({s \in LineStarts : s <= start}) = 1
    BY <1>2, <1>3, <2>1
  <2>. QED
    BY <1>1, <2>1, <2>2, <2>3 DEF LexerInv
<1>. QED
  BY <1>4, EmptySeq DEF Init, ParserInv, Modes

\* What TypeOK says of the position and the line follows from where the lexer is.
LEMMA ParserTypes == ParserInv => TypeOK
<1>. SUFFICES ASSUME ParserInv PROVE TypeOK
  OBVIOUS
<1>1. LexerInv /\ ReadText /\ Len(text) \in Nat
  BY TextFacts DEF ParserInv, LexerInv
<1>. DEFINE A == {s \in LineStarts : s <= start}
<1>2. start \in LineStarts /\ start \in Nat /\ 1 <= start /\ start <= pos /\ pos \in Nat
      /\ pos <= Len(text) + 2 /\ line = Cardinality(A)
  BY <1>1, LineStartsAre DEF LexerInv
<1>3. A \in SUBSET LineStarts /\ A # {}
  BY <1>2
<1>4. /\ IsFiniteSet(LineStarts) /\ IsFiniteSet(A)
      /\ Cardinality(A) <= Cardinality(LineStarts)
  BY <1>1, <1>3, LineStartsAre, FS_Subset
<1>5. Cardinality(A) \in Nat /\ Cardinality(A) # 0 /\ Cardinality(LineStarts) \in Nat
  BY <1>3, <1>4, FS_CardinalityType, FS_EmptySet
<1>6. line \in 1..Cardinality(LineStarts)
  BY <1>2, <1>4, <1>5
<1>7. pos \in 1..Len(text) + 2
  BY <1>1, <1>2
<1>8. \A i \in DOMAIN tokens : tokens[i].type \in PatternTypes
  <2>1. DOMAIN tokens = 1..Len(tokens) /\ tokens \in Seq(Part)
    BY LenProperties DEF ParserInv
  <2>2. \A i \in DOMAIN tokens : tokens[i] \in Part
    BY <2>1, ElementOfSeq
  <2>. QED
    BY <2>2 DEF Part
<1>. QED
  BY <1>1, <1>2, <1>6, <1>7, <1>8 DEF TypeOK, ParserInv, ReadText, PatternTypes, Modes

\* Whatever is read, the lexer's line is that of the text it is in, and no token is
\* put back upon another: undo's list holds the one that next() hands out again.
THEOREM ParserTypeCorrect == Spec => []TypeOK
<1>1. ParserInv /\ [Next]_vars => ParserInv'
  BY ParseStep, ParserStutter DEF Next, Returned
<1>. QED
  BY <1>1, ParserInit, ParserTypes, PTL DEF Spec

-----------------------------------------------------------------------------
(* What the parser has read of a line                                      *)

Clean(i, j) == \A k \in i..(j - 1) : text[k] \notin {"fault", "cr", "nl"}

\* What Whole says of the runes before "**", and of those after it as far as they
\* have been read: nothing yet after any, white space in eol.
LeftWhole(i) == i - 1 \in Body(start) => i - 1 \in Plain(start, "/")
Pending(m, p, i) ==
  /\ LeftWhole(i)
  /\ \/ m = "any" /\ i = p - 2
     \/ m = "eol" /\ i + 2 < p /\ \A j \in i + 2..(p - 1) : text[j] = "sp"

Midway == {"sequence", "separator", "any", "pattern", "eol"}

\* The line from start up to p, when m is the function of the parser that asks for
\* what follows: nothing in it is wrong.
ReadTo(m, p) ==
  /\ p \in Nat /\ start <= p /\ p <= Len(text) + 1
  /\ Clean(start, p)
  /\ m = "top" <=> p = start
  /\ m = "sequence" <=> Rune(start) = "!" /\ p = start + 1
  /\ m # "top" => Rune(start) # "#"
  /\ p \in Escaped(start) => Rune(p) = "cr"
  /\ m = "separator" => p - 1 \in Plain(start, "/")
  /\ m = "pattern" => p - 1 \in Body(start) \ (Plain(start, "/") \cup Doubles(start))
  /\ m = "any" => p - 2 \in Doubles(start)
  /\ m = "eol" => Rune(p) # "sp" /\ \E i \in Doubles(start) : Pending(m, p, i)
  /\ \A i \in Doubles(start) : i + 1 < p => Pending(m, p, i) \/ Whole(start, i)

CommentTo(p) ==
  /\ p \in Nat /\ start < p /\ p <= Len(text) + 1
  /\ Clean(start, p)
  /\ Rune(start) = "#" /\ Rune(p) \in {"cr", "nl", "eof"}

BadLines == {LineNumber(s) : s \in {t \in LineStarts : Malformed(t)}}
Reported == {e.line : e \in errors}

\* The lines before the one the lexer is in have been reported if they are wrong.
Settled ==
  /\ line = LineNumber(start)
  /\ Reported \subseteq BadLines
  /\ \A t \in LineStarts : t < start /\ Malformed(t) => LineNumber(t) \in Reported

\* They are settled, the current one is as far as it has been read, and once it has
\* been reported the rest is skipped.
LinesInv ==
  /\ Settled
  /\ undone # <<>> => /\ undone[1].type = "EOL" => pos = start
                      /\ undone[1].type = "EOF" => Rune(pos) = "eof"
  /\ mode \in Midway => ReadTo(mode, pos)
  /\ mode = "top" => \/ pos = start
                     \/ CommentTo(pos)
                     \/ Rune(pos) = "eof" /\ (Malformed(start) => line \in Reported)
  /\ mode = "skip" => \/ Malformed(start) /\ line \in Reported
                      \/ undone # <<>> /\ undone[1].type = "EOL"
  /\ mode = "done" => BadLines \subseteq Reported

LEMMA LineFacts ==
  ASSUME ReadText, NEW s \in LineStarts
  PROVE  /\ s \in Nat /\ 1 <= s /\ s <= Len(text) + 1
         /\ To(s) \in Nat /\ s <= To(s) /\ To(s) <= Len(text) + 1
         /\ To(s) <= Len(text) => To(s) \in Newlines
         /\ \A i \in Newlines : s <= i => To(s) <= i
         /\ Stop(s) \in Nat /\ s <= Stop(s) /\ Stop(s) <= To(s) /\ To(s) <= Stop(s) + 1
<1>. DEFINE T == {i \in Newlines : i >= s} \cup {Len(text) + 1}
<1>1. Len(text) \in Nat /\ Newlines \subseteq 1..Len(text) /\ s \in 1..Len(text) + 1
  BY TextFacts, LineStartsAre
<1>2. T \subseteq Nat /\ T # {} /\ \A i \in T : s <= i
  <2>1. s \in Nat /\ s <= Len(text) + 1 /\ Len(text) + 1 \in Nat
    BY <1>1
  <2>2. Newlines \subseteq Nat
    BY <1>1
  <2>. QED
    BY <2>1, <2>2
<1>3. Min(T) \in T /\ \A m \in T : Min(T) <= m
  BY <1>2, MinOf
<1>4. To(s) = Min(T)
  BY DEF To
<1>5. /\ To(s) \in Nat /\ s <= To(s) /\ To(s) <= Len(text) + 1
      /\ To(s) <= Len(text) => To(s) \in Newlines
      /\ \A i \in Newlines : s <= i => To(s) <= i
  <2>. HIDE DEF T
  <2>1. To(s) \in T /\ \A m \in T : To(s) <= m
    BY <1>3, <1>4
  <2>. QED
    BY <1>1, <1>2, <2>1 DEF T
<1>. HIDE DEF T
<1>6. Stop(s) \in Nat /\ s <= Stop(s) /\ Stop(s) <= To(s) /\ To(s) <= Stop(s) + 1
  BY <1>1, <1>5 DEF Stop
<1>. QED
  BY <1>1, <1>5, <1>6

\* A line's content reaches as far as nothing in it is an end or a failure.
LEMMA CleanReaches ==
  ASSUME ReadText, NEW s \in LineStarts, NEW p \in Nat, s <= p, p <= Len(text) + 1, Clean(s, p)
  PROVE  p <= Stop(s) /\ p <= To(s)
<1>1. /\ s \in Nat /\ 1 <= s /\ To(s) \in Nat /\ s <= To(s) /\ To(s) <= Len(text) + 1
      /\ To(s) <= Len(text) => To(s) \in Newlines
      /\ Stop(s) \in Nat /\ Len(text) \in Nat
  BY LineFacts, TextFacts
<1>2. p <= To(s)
  <2>. SUFFICES ASSUME To(s) < p PROVE FALSE
    BY <1>1
  <2>1. To(s) \in s..(p - 1) /\ text[To(s)] = "nl"
    BY <1>1 DEF Newlines
  <2>. QED
    BY <2>1 DEF Clean
<1>3. CASE To(s) <= Len(text) /\ To(s) > s /\ text[To(s) - 1] = "cr"
  <2>1. Stop(s) = To(s) - 1
    BY <1>3 DEF Stop
  <2>2. p # To(s)
    <3>. SUFFICES ASSUME p = To(s) PROVE FALSE
      OBVIOUS
    <3>1. p - 1 \in s..(p - 1) /\ text[p - 1] = "cr"
      BY <1>1, <1>3
    <3>. QED
      BY <3>1 DEF Clean
  <2>. QED
    BY <1>1, <1>2, <2>1, <2>2
<1>4. CASE ~(To(s) <= Len(text) /\ To(s) > s /\ text[To(s) - 1] = "cr")
  BY <1>2, <1>4 DEF Stop
<1>. QED
  BY <1>2, <1>3, <1>4

\* What the rune after a clean part of a line says of the line.
LEMMA RuneAfter ==
  ASSUME ReadText, NEW s \in LineStarts, NEW p \in Nat, s <= p, p <= Len(text) + 1, Clean(s, p)
  PROVE  /\ p <= Len(text) /\ Rune(p) \notin {"cr", "nl"} => p \in Content(s)
         /\ Rune(p) = "fault" => Unread(s)
         /\ Rune(p) = "cr" /\ Rune(p + 1) # "nl" => Unread(s)
         /\ \/ Rune(p) \in {"nl", "eof"}
            \/ Rune(p) = "cr" /\ Rune(p + 1) = "nl"
            => Stop(s) = p /\ ~Unread(s)
<1>1. /\ s \in Nat /\ 1 <= s /\ To(s) \in Nat /\ s <= To(s) /\ To(s) <= Len(text) + 1
      /\ To(s) <= Len(text) => To(s) \in Newlines
      /\ \A i \in Newlines : s <= i => To(s) <= i
      /\ Stop(s) \in Nat /\ Stop(s) <= To(s) /\ To(s) <= Stop(s) + 1 /\ Len(text) \in Nat
  BY LineFacts, TextFacts
<1>2. p <= Stop(s) /\ p <= To(s)
  BY CleanReaches
<1>3. /\ Rune(p) = (IF p <= Len(text) THEN text[p] ELSE tail)
      /\ \A i \in Newlines : i \in Nat /\ i <= Len(text) /\ text[i] = "nl"
      /\ DOMAIN text = 1..Len(text)
      /\ p <= Len(text) => text[p] # "eof"
      /\ tail \in {"eof", "fault"}
  <2>1. p <= Len(text) => text[p] \in Runes
    BY <1>1, ElementOfSeq DEF ReadText
  <2>2. "eof" \notin Runes
    BY ParserAssumption DEF Runes
  <2>3. DOMAIN text = 1..Len(text)
    BY LenProperties DEF ReadText
  <2>. QED
    BY <1>1, <2>1, <2>2, <2>3, TextFacts DEF Rune, Newlines, ReadText
<1>4. p <= Len(text) /\ text[p] = "nl" => p \in Newlines
  BY <1>1, <1>3 DEF Newlines
<1>5. p <= Len(text) /\ Rune(p) # "nl" => p < To(s)
  <2>. SUFFICES ASSUME p <= Len(text), Rune(p) # "nl", p = To(s) PROVE FALSE
    BY <1>1, <1>2
  <2>. QED
    BY <1>1, <1>3
<1>6. ASSUME p <= Len(text), Rune(p) \notin {"cr", "nl"} PROVE p < Stop(s)
  <2>. SUFFICES ASSUME Stop(s) = p PROVE FALSE
    BY <1>1, <1>2
  <2>1. To(s) = p + 1
    BY <1>1, <1>5, <1>6
  <2>2. Stop(s) # To(s)
    BY <2>1
  <2>3. text[To(s) - 1] = "cr"
    BY <2>2 DEF Stop
  <2>. QED
    BY <1>3, <1>6, <2>1, <2>3
<1>7. p <= Len(text) /\ Rune(p) \notin {"cr", "nl"} => p \in Content(s)
  BY <1>1, <1>6 DEF Content
<1>8. ASSUME Rune(p) = "fault" PROVE Unread(s)
  <2>1. CASE p <= Len(text)
    BY <1>3, <1>7, <1>8, <2>1 DEF Unread
  <2>2. CASE p = Len(text) + 1
    <3>1. tail = "fault" /\ To(s) = Len(text) + 1
      BY <1>1, <1>2, <1>3, <1>8, <2>2
    <3>. QED
      BY <3>1 DEF Unread
  <2>. QED
    BY <1>1, <2>1, <2>2
<1>9. ASSUME Rune(p) = "cr", Rune(p + 1) # "nl" PROVE Unread(s)
  <2>1. p <= Len(text) /\ text[p] = "cr"
    BY <1>3, <1>9
  <2>2. p + 1 \notin Newlines
    BY <1>1, <1>9, TextFacts
  <2>3. To(s) # p + 1 \/ To(s) = Len(text) + 1
    BY <1>1, <2>2
  <2>4. p < Stop(s)
    <3>1. p < To(s)
      BY <1>5, <1>9, <2>1
    <3>2. CASE To(s) = Len(text) + 1
      <4>1. ~(To(s) <= Len(text))
        BY <1>1, <3>2
      <4>2. Stop(s) = To(s)
        BY <4>1 DEF Stop
      <4>. QED
        BY <1>1, <3>1, <4>2
    <3>3. CASE To(s) # p + 1
      BY <1>1, <3>1, <3>3
    <3>. QED
      BY <2>3, <3>2, <3>3
  <2>5. p \in Content(s)
    BY <1>1, <2>4 DEF Content
  <2>. QED
    BY <2>1, <2>5 DEF Unread
<1>10. ASSUME Rune(p) \in {"nl", "eof"} \/ (Rune(p) = "cr" /\ Rune(p + 1) = "nl")
       PROVE  Stop(s) = p /\ ~Unread(s)
  <2>1. ASSUME Stop(s) = p, To(s) <= Len(text) \/ tail = "eof" PROVE ~Unread(s)
    <3>1. Content(s) = s..(p - 1)
      BY <2>1 DEF Content
    <3>2. \A i \in Content(s) : text[i] \notin {"fault", "cr"}
      BY <3>1 DEF Clean
    <3>3. ~(tail = "fault" /\ To(s) = Len(text) + 1)
      BY <1>1, <2>1
    <3>. QED
      BY <3>2, <3>3 DEF Unread
  <2>2. ASSUME s < p PROVE text[p - 1] # "cr"
    <3>1. p - 1 \in s..(p - 1)
      BY <1>1, <2>2
    <3>. QED
      BY <3>1 DEF Clean
  <2>3. CASE Rune(p) = "nl"
    <3>1. p <= Len(text) /\ p \in Newlines
      BY <1>3, <1>4, <2>3
    <3>2. To(s) = p
      BY <1>1, <1>2, <3>1
    <3>3. Stop(s) = p
      BY <2>2, <3>2 DEF Stop
    <3>. QED
      BY <2>1, <3>1, <3>2, <3>3
  <2>4. CASE Rune(p) = "eof"
    <3>1. p = Len(text) + 1 /\ tail = "eof"
      BY <1>1, <1>3, <2>4
    <3>2. To(s) = p
      BY <1>1, <1>2, <3>1
    <3>3. Stop(s) = p
      BY <1>1, <1>2, <3>2
    <3>. QED
      BY <2>1, <3>1, <3>3
  <2>5. CASE Rune(p) = "cr" /\ Rune(p + 1) = "nl"
    <3>1. p <= Len(text) /\ text[p] = "cr"
      BY <1>3, <2>5
    <3>2. p + 1 \in Newlines /\ p + 1 <= Len(text)
      BY <1>1, <1>3, <2>5, TextFacts
    <3>3. To(s) = p + 1
      BY <1>1, <1>5, <2>5, <3>1, <3>2
    <3>4. To(s) - 1 = p /\ To(s) > s /\ To(s) <= Len(text)
      BY <1>1, <3>2, <3>3
    <3>5. Stop(s) = p
      BY <3>1, <3>4 DEF Stop
    <3>. QED
      BY <2>1, <3>4, <3>5
  <2>. QED
    BY <1>10, <2>3, <2>4, <2>5
<1>. QED
  BY <1>7, <1>8, <1>9, <1>10

LEMMA BodyFacts ==
  ASSUME ReadText, NEW s \in LineStarts
  PROVE  /\ Content(s) = s..(Stop(s) - 1) /\ Body(s) \subseteq Content(s)
         /\ Content(s) \subseteq 1..Len(text)
         /\ \A i \in Content(s) : i \in Body(s) <=> ~(i = s /\ text[s] = "!")
         /\ \A i \in Content(s) : text[i] = Rune(i) /\ Rune(i) # "eof" /\ Rune(i) # "nl"
<1>1. /\ s \in Nat /\ 1 <= s /\ Stop(s) \in Nat /\ s <= Stop(s) /\ Stop(s) <= To(s)
      /\ To(s) \in Nat /\ To(s) <= Len(text) + 1 /\ Len(text) \in Nat
      /\ \A i \in Newlines : s <= i => To(s) <= i
  BY LineFacts, TextFacts
<1>2. Content(s) = s..(Stop(s) - 1)
  BY DEF Content
<1>3. ASSUME NEW i \in Content(s)
      PROVE  /\ i \in Nat /\ 1 <= i /\ i <= Len(text) /\ s <= i
             /\ text[i] = Rune(i) /\ Rune(i) # "eof" /\ Rune(i) # "nl"
  <2>1. i \in Nat /\ s <= i /\ i < Stop(s) /\ 1 <= i /\ i <= Len(text) /\ i < To(s)
    BY <1>1, <1>2, <1>3
  <2>2. text[i] = Rune(i) /\ text[i] \in Runes
    BY <1>1, <2>1, ElementOfSeq DEF Rune, ReadText
  <2>3. text[i] # "eof"
    BY <2>2, ParserAssumption DEF Runes
  <2>4. i \notin Newlines
    BY <1>1, <2>1
  <2>5. Rune(i) # "nl"
    BY <2>1, <2>4, TextFacts
  <2>. QED
    BY <2>1, <2>2, <2>3, <2>5
<1>4. s \in Content(s) \/ Content(s) = {}
  BY <1>1, <1>2
<1>5. Body(s) \subseteq Content(s) /\ \A i \in Content(s) : i \in Body(s) <=> ~(i = s /\ text[s] = "!")
  BY <1>4 DEF Body, Negated
<1>6. Content(s) \subseteq 1..Len(text)
  BY <1>1, <1>3
<1>. QED
  BY <1>2, <1>3, <1>5, <1>6

\* A rune is escaped by an escape before it in the body that is not itself escaped:
\* the recursion of Escaped has a solution, by how many escapes there are in a row.
LEMMA EscapedIs ==
  ASSUME ReadText, NEW s \in LineStarts
  PROVE  /\ Escaped(s) \subseteq Body(s)
         /\ \A i \in Body(s) : i \in Escaped(s) <=>
              i - 1 \in Body(s) /\ text[i - 1] = "esc" /\ i - 1 \notin Escaped(s)
<1>. DEFINE D == s..Stop(s)
            Other(i) == {s - 1} \cup {k \in s..(i - 1) : text[k] # "esc"}
            M(i) == Max(Other(i))
            f == [i \in D |-> (i - 1 - M(i)) % 2 = 1]
            escaped == CHOOSE g : g = [i \in D |-> i > s /\ text[i - 1] = "esc" /\ ~g[i - 1]]
<1>1. /\ s \in Nat /\ 1 <= s /\ Stop(s) \in Nat /\ s <= Stop(s) /\ Content(s) = s..(Stop(s) - 1)
      /\ Body(s) \subseteq Content(s) /\ \A i \in Content(s) : i \in Body(s) <=> ~(i = s /\ text[s] = "!")
  BY LineFacts, BodyFacts
<1>2. ASSUME NEW i \in D
      PROVE  /\ Max(Other(i)) \in Other(i) /\ \A m \in Other(i) : m <= Max(Other(i))
  <2>1. s - 1 \in Nat /\ i \in Nat /\ s <= i
    BY <1>1
  <2>2. s - 1 \in 0..i /\ s - 1 \in Other(i)
    BY <1>1, <2>1
  <2>3. \A k \in s..(i - 1) : k \in 0..i
    BY <1>1, <2>1
  <2>4. Other(i) \subseteq 0..i /\ Other(i) # {}
    BY <2>2, <2>3
  <2>. HIDE DEF Other
  <2>. QED
    BY <2>1, <2>4, MaxOf
<1>3. ASSUME NEW i \in D, i > s, text[i - 1] = "esc"
      PROVE  Max(Other(i)) = Max(Other(i - 1))
  <2>1. i - 1 \in D /\ i \in Nat
    BY <1>1, <1>3
  <2>2. Other(i) = Other(i - 1)
    BY <1>1, <1>3, <2>1
  <2>. QED
    BY <2>2
<1>4. ASSUME NEW i \in D, i > s, text[i - 1] # "esc" PROVE Max(Other(i)) = i - 1
  <2>1. i - 1 \in Other(i)
    BY <1>1, <1>4
  <2>2. \A m \in Other(i) : m \in Int /\ m <= i - 1
    BY <1>1, <1>4
  <2>. HIDE DEF Other
  <2>. QED
    BY <1>1, <1>2, <2>1, <2>2
<1>5. ASSUME NEW i \in D, i = s PROVE Max(Other(i)) = s - 1
  <2>1. Other(i) = {s - 1}
    BY <1>1, <1>5
  <2>. HIDE DEF Other
  <2>. QED
    BY <1>2, <2>1
<1>6. \A i \in D : Max(Other(i)) \in Int
  <2>. SUFFICES ASSUME NEW i \in D PROVE Max(Other(i)) \in Int
    OBVIOUS
  <2>1. Max(Other(i)) \in Other(i)
    BY <1>2
  <2>2. Other(i) \subseteq Int
    BY <1>1
  <2>. HIDE DEF Other
  <2>. QED
    BY <2>1, <2>2
<1>. HIDE DEF Other
<1>7. ASSUME NEW i \in D PROVE f[i] = (i > s /\ text[i - 1] = "esc" /\ ~f[i - 1])
  <2>1. f[i] = ((i - 1 - M(i)) % 2 = 1) /\ i \in Int /\ M(i) \in Int
    BY <1>1, <1>6
  <2>2. CASE i > s /\ text[i - 1] = "esc"
    <3>1. i - 1 \in D /\ M(i) = M(i - 1)
      BY <1>1, <1>3, <2>2
    <3>. HIDE DEF M
    <3>2. f[i - 1] = ((i - 1 - 1 - M(i)) % 2 = 1)
      BY <3>1 DEF f
    <3>. HIDE DEF f, M
    <3>3. (i - 1 - M(i)) % 2 = 1 <=> ~((i - 1 - 1 - M(i)) % 2 = 1)
      BY <2>1
    <3>. QED
      BY <2>1, <2>2, <3>2, <3>3
  <2>3. CASE ~(i > s /\ text[i - 1] = "esc")
    <3>1. M(i) = i - 1
      BY <1>1, <1>4, <1>5, <2>3
    <3>. HIDE DEF f, M
    <3>2. i - 1 - M(i) = 0 /\ ~(0 % 2 = 1)
      BY <2>1, <3>1
    <3>3. f[i] = FALSE
      BY <2>1, <3>2
    <3>. QED
      BY <2>3, <3>3
  <2>. QED
    BY <2>2, <2>3
<1>8. f = [i \in D |-> f[i]]
  OBVIOUS
<1>. HIDE DEF f
<1>9. f = [i \in D |-> i > s /\ text[i - 1] = "esc" /\ ~f[i - 1]]
  BY <1>7, <1>8
<1>10. escaped = [i \in D |-> i > s /\ text[i - 1] = "esc" /\ ~escaped[i - 1]]
  BY <1>9
<1>11. Escaped(s) = {i \in Body(s) : escaped[i]}
  BY DEF Escaped
<1>. HIDE DEF escaped
<1>12. ASSUME NEW i \in Body(s)
       PROVE  i \in Escaped(s) <=> i - 1 \in Body(s) /\ text[i - 1] = "esc" /\ i - 1 \notin Escaped(s)
  <2>1. i \in D /\ i \in Nat /\ s <= i
    BY <1>1
  <2>2. escaped[i] = (i > s /\ text[i - 1] = "esc" /\ ~escaped[i - 1])
    BY <1>10, <2>1
  <2>3. i > s /\ text[i - 1] = "esc" => i - 1 \in Body(s)
    <3>. SUFFICES ASSUME i > s, text[i - 1] = "esc" PROVE i - 1 \in Body(s)
      OBVIOUS
    <3>1. i - 1 \in Content(s)
      BY <1>1, <2>1
    <3>2. ~(i - 1 = s /\ text[s] = "!")
      OBVIOUS
    <3>. QED
      BY <1>1, <3>1, <3>2
  <2>4. i - 1 \in Body(s) => i > s
    BY <1>1, <2>1
  <2>. QED
    BY <1>11, <2>1, <2>2, <2>3, <2>4
<1>. QED
  BY <1>11, <1>12

-----------------------------------------------------------------------------
(* What the tokens of a line hold                                          *)

LEMMA CleanOn ==
  ASSUME NEW i \in Nat, NEW j \in Nat, NEW k \in Nat, i <= j, j <= k, Clean(i, j), Clean(j, k)
  PROVE  Clean(i, k)
BY DEF Clean

\* Reading up to a rune of stops passes over none, and fails only at a failure.
LEMMA UntilReads ==
  ASSUME ReadText, NEW i \in Nat, 1 <= i, i <= Len(text) + 1, NEW stops
  PROVE  \E j \in Nat :
           /\ i <= j /\ j <= Len(text) + 1
           /\ \A k \in i..(j - 1) : Rune(k) \notin stops \cup {"eof", "fault"}
           /\ Until(i, stops).ok => /\ Until(i, stops).next = j
                                    /\ Rune(j) \in stops \cup {"eof"} /\ Rune(j) # "fault"
           /\ ~Until(i, stops).ok => Rune(j) = "fault"
<1>. DEFINE T == {k \in i..Len(text) + 1 : Rune(k) \in stops \cup {"eof", "fault"}}
            j == Min(T)
<1>1. Len(text) \in Nat
  BY TextFacts
<1>2. Rune(Len(text) + 1) \in {"eof", "fault"}
  BY <1>1, TextFacts DEF ReadText
<1>3. T \subseteq Nat /\ Len(text) + 1 \in T
  BY <1>1, <1>2
<1>4. j \in T /\ \A m \in T : j <= m
  BY <1>3, MinOf
<1>5. Until(i, stops) = IF Rune(j) = "fault" THEN Bad(j + 1) ELSE Good(j)
  BY DEF Until
<1>. HIDE DEF j
<1>6. j \in Nat /\ i <= j /\ j <= Len(text) + 1 /\ Rune(j) \in stops \cup {"eof", "fault"}
  BY <1>1, <1>4
<1>7. \A k \in i..(j - 1) : Rune(k) \notin stops \cup {"eof", "fault"}
  <2>. SUFFICES ASSUME NEW k \in i..(j - 1), Rune(k) \in stops \cup {"eof", "fault"} PROVE FALSE
    OBVIOUS
  <2>1. k \in T /\ k < j
    BY <1>1, <1>6
  <2>. QED
    BY <1>4, <1>6, <2>1
<1>8. ~Bad(j + 1).ok /\ Good(j).ok /\ Good(j).next = j
  BY GoodFacts DEF Bad
<1>9. /\ Until(i, stops).ok => /\ Until(i, stops).next = j
                               /\ Rune(j) \in stops \cup {"eof"} /\ Rune(j) # "fault"
      /\ ~Until(i, stops).ok => Rune(j) = "fault"
  BY <1>5, <1>6, <1>8
<1>. QED
  BY <1>6, <1>7, <1>9

\* A token of white space is all of it; a comment goes up to the end of its line.
LEMMA RunsRead ==
  ASSUME ReadText, NEW s \in LineStarts, NEW p \in Nat, s <= p, p <= Len(text) + 1, Clean(s, p),
         NEW stops, stops = Runes \ {"sp"} \/ stops = {"cr", "nl"}
  PROVE  LET e == Until(p, stops)
         IN /\ e.ok => /\ e.next \in Nat /\ p <= e.next /\ e.next <= Len(text) + 1
                       /\ Clean(s, e.next)
                       /\ Rune(e.next) \in stops \cup {"eof"} /\ Rune(e.next) # "fault"
                       /\ \A k \in p..(e.next - 1) : text[k] = Rune(k) /\ text[k] \in Runes \ stops
            /\ ~e.ok => Unread(s)
<1>. DEFINE e == Until(p, stops)
<1>1. Len(text) \in Nat /\ s \in Nat /\ 1 <= s /\ tail \in {"eof", "fault"}
  BY TextFacts, LineFacts DEF ReadText
<1>2. PICK j \in Nat :
        /\ p <= j /\ j <= Len(text) + 1
        /\ \A k \in p..(j - 1) : Rune(k) \notin stops \cup {"eof", "fault"}
        /\ e.ok => /\ e.next = j
                   /\ Rune(j) \in stops \cup {"eof"} /\ Rune(j) # "fault"
        /\ ~e.ok => Rune(j) = "fault"
  BY <1>1, UntilReads
<1>. HIDE DEF e
<1>3. \A k \in p..(j - 1) : text[k] = Rune(k) /\ text[k] \in Runes \ stops /\ text[k] # "fault"
  <2>. SUFFICES ASSUME NEW k \in p..(j - 1)
                PROVE  text[k] = Rune(k) /\ text[k] \in Runes \ stops /\ text[k] # "fault"
    OBVIOUS
  <2>1. k \in Nat /\ 1 <= k /\ k <= Len(text)
    BY <1>1, <1>2
  <2>2. text[k] = Rune(k) /\ text[k] \in Runes
    BY <2>1, ElementOfSeq DEF Rune, ReadText
  <2>. QED
    BY <1>2, <2>2
<1>4. {"cr", "nl"} \subseteq stops
  BY DEF Runes
<1>5. Clean(p, j)
  BY <1>3, <1>4 DEF Clean
<1>6. Clean(s, j)
  BY <1>1, <1>2, <1>5, CleanOn
<1>7. Rune(j) = "fault" => Unread(s)
  BY <1>1, <1>2, <1>6, RuneAfter
<1>. QED
  BY <1>2, <1>3, <1>6, <1>7 DEF e

\* Where a part of the body ends that is neither an end nor a failure.
Between(s, i) ==
  /\ i \in Nat /\ s <= i /\ i <= Len(text) + 1
  /\ Clean(s, i)
  /\ Rune(s) = "!" => s < i
  /\ i \in Escaped(s) => Rune(i) = "cr"

LEMMA BetweenFacts ==
  ASSUME ReadText, NEW s \in LineStarts, NEW i, Between(s, i)
  PROVE  /\ i <= Len(text) /\ Rune(i) \notin {"cr", "nl"} => i \in Body(s) /\ text[i] = Rune(i)
         /\ \A k \in s..(i - 1) : k \in Content(s)
         /\ s < i => i - 1 \in Content(s)
<1>1. /\ s \in Nat /\ 1 <= s /\ Stop(s) \in Nat /\ s <= Stop(s) /\ Content(s) = s..(Stop(s) - 1)
      /\ \A k \in Content(s) : k \in Body(s) <=> ~(k = s /\ text[s] = "!")
      /\ \A k \in Content(s) : text[k] = Rune(k)
  BY LineFacts, BodyFacts
<1>2. i \in Nat /\ s <= i /\ i <= Len(text) + 1 /\ Clean(s, i) /\ (Rune(s) = "!" => s < i)
  BY DEF Between
<1>3. i <= Stop(s)
  BY <1>2, CleanReaches
<1>4. \A k \in s..(i - 1) : k \in Content(s)
  BY <1>1, <1>2, <1>3
<1>5. ASSUME i <= Len(text), Rune(i) \notin {"cr", "nl"} PROVE i \in Body(s) /\ text[i] = Rune(i)
  <2>1. i \in Content(s)
    BY <1>2, <1>5, RuneAfter
  <2>. QED
    BY <1>1, <1>2, <2>1
<1>. QED
  BY <1>1, <1>2, <1>4, <1>5

\* The next rune of the body is escaped just when it follows an escape that is not.
LEMMA BetweenNext ==
  ASSUME ReadText, NEW s \in LineStarts, NEW i, Between(s, i),
         i <= Len(text), Rune(i) \notin {"cr", "nl", "fault"},
         Rune(i) = "esc" => Rune(i + 1) \in {"cr", "nl", "eof"}
  PROVE  Between(s, i + 1) /\ i \in Body(s) \ Escaped(s)
<1>1. /\ i \in Nat /\ s \in Nat /\ s <= i /\ i <= Len(text) + 1 /\ Clean(s, i)
      /\ Len(text) \in Nat /\ (i \in Escaped(s) => Rune(i) = "cr")
  BY LineFacts, TextFacts DEF Between
<1>2. i \in Body(s) /\ text[i] = Rune(i)
  BY BetweenFacts
<1>3. Clean(s, i + 1)
  BY <1>1, <1>2 DEF Clean
<1>4. i + 1 \in Escaped(s) => Rune(i + 1) = "cr"
  <2>. SUFFICES ASSUME i + 1 \in Escaped(s) PROVE Rune(i + 1) = "cr"
    OBVIOUS
  <2>. DEFINE j == i + 1
  <2>1. j \in Body(s)
    BY EscapedIs
  <2>2. j - 1 = i
    BY <1>1
  <2>. HIDE DEF j
  <2>3. text[j - 1] = "esc"
    BY <2>1, EscapedIs DEF j
  <2>4. Rune(i + 1) \notin {"nl", "eof"}
    BY <2>1, BodyFacts DEF j
  <2>. QED
    BY <1>2, <2>2, <2>3, <2>4
<1>. QED
  BY <1>1, <1>2, <1>3, <1>4 DEF Between

\* An escape takes the next rune along.
LEMMA BetweenEscape ==
  ASSUME ReadText, NEW s \in LineStarts, NEW i, Between(s, i),
         Rune(i) = "esc", Rune(i + 1) \notin {"cr", "nl", "eof", "fault"}, i <= Len(text)
  PROVE  Between(s, i + 2) /\ i \in Body(s) /\ text[i] = "esc" /\ i + 1 \in Escaped(s)
<1>1. /\ i \in Nat /\ s \in Nat /\ s <= i /\ i <= Len(text) + 1 /\ Clean(s, i)
      /\ Len(text) \in Nat /\ i \notin Escaped(s)
  BY LineFacts, TextFacts DEF Between
<1>. DEFINE j == i + 1
            k == i + 2
<1>2. i \in Body(s) /\ text[i] = "esc"
  BY BetweenFacts
<1>3. j <= Len(text) + 1 /\ j \in Nat /\ s <= j /\ s # j
  BY <1>1
<1>4. Clean(s, j)
  BY <1>1, <1>2 DEF Clean
<1>5. j <= Len(text)
  <2>. SUFFICES ASSUME j = Len(text) + 1 PROVE FALSE
    BY <1>1, <1>3
  <2>1. Rune(j) = tail
    BY <1>1, TextFacts
  <2>. QED
    BY <2>1 DEF ReadText
<1>6. j \in Content(s)
  BY <1>3, <1>4, <1>5, RuneAfter
<1>7. j \in Body(s) /\ text[j] = Rune(j)
  BY <1>3, <1>6, BodyFacts
<1>8. j - 1 = i /\ k - 1 = j /\ k \in Nat /\ s <= k /\ s < k /\ k <= Len(text) + 1
  BY <1>1, <1>5
<1>. HIDE DEF j, k
<1>9. j \in Escaped(s)
  BY <1>1, <1>2, <1>7, <1>8, EscapedIs
<1>10. k \notin Escaped(s)
  BY <1>8, <1>9, EscapedIs
<1>11. Clean(s, k)
  <2>. SUFFICES ASSUME NEW m \in s..(k - 1) PROVE text[m] \notin {"fault", "cr", "nl"}
    BY DEF Clean
  <2>1. m \in s..(j - 1) \/ m = j
    BY <1>1, <1>3, <1>8
  <2>. QED
    BY <1>4, <1>7, <2>1 DEF Clean, j
<1>12. Between(s, k)
  BY <1>8, <1>10, <1>11 DEF Between
<1>. QED
  BY <1>2, <1>9, <1>12 DEF j, k

\* A pattern's token holds no separator, no white space and no "**" that is not
\* escaped, and fails only where the line does.
PatternRunes(s, i, j) ==
  \A k \in i..(j - 1) : k \in Body(s) \ (Plain(s, "/") \cup Plain(s, "sp") \cup Doubles(s))

PatternReads(s, i) ==
  LET e == Pattern[i]
  IN /\ e.ok => i <= e.next /\ Between(s, e.next) /\ PatternRunes(s, i, e.next)
     /\ ~e.ok => Unread(s)

LEMMA PatternHalts ==
  ASSUME ReadText, NEW s \in LineStarts, NEW i, Between(s, i), Halts(i)
  PROVE  PatternReads(s, i)
<1>1. /\ i \in Nat /\ s \in Nat /\ 1 <= s /\ s <= i /\ i <= Len(text) + 1 /\ Clean(s, i)
      /\ Len(text) \in Nat /\ i \in 1..Len(text) + 2
  BY LineFacts, TextFacts DEF Between
<1>2. Pattern[i] = Halted(i)
  BY <1>1, PatternUnfolds
<1>3. \A k : ~Bad(k).ok /\ Good(k).ok /\ Good(k).next = k
  BY GoodFacts DEF Bad
<1>4. CASE Rune(i) = "fault"
  BY <1>1, <1>2, <1>3, <1>4, RuneAfter DEF Halted, PatternReads
<1>5. CASE Rune(i) \in {"*", "esc"} /\ Rune(i + 1) = "fault"
  <2>1. i <= Len(text)
    <3>. SUFFICES ASSUME i = Len(text) + 1 PROVE FALSE
      BY <1>1
    <3>1. Rune(i) = tail
      BY <1>1, TextFacts
    <3>. QED
      BY <1>5, <3>1 DEF ReadText
  <2>2. text[i] \in {"*", "esc"}
    BY <1>5, <2>1, BetweenFacts
  <2>3. Clean(s, i + 1) /\ i + 1 \in Nat /\ s <= i + 1 /\ i + 1 <= Len(text) + 1
    BY <1>1, <2>1, <2>2 DEF Clean
  <2>4. Unread(s)
    BY <1>5, <2>3, RuneAfter
  <2>. QED
    BY <1>2, <1>3, <1>5, <2>4 DEF Halted, PatternReads
<1>6. CASE Rune(i) # "fault" /\ ~(Rune(i) \in {"*", "esc"} /\ Rune(i + 1) = "fault")
  <2>1. Pattern[i] = Good(i)
    BY <1>2, <1>6 DEF Halted
  <2>. QED
    BY <1>1, <1>3, <2>1 DEF PatternReads, PatternRunes
<1>. QED
  BY <1>4, <1>5, <1>6

\* What it holds where it goes on.
LEMMA PatternStride ==
  ASSUME ReadText, NEW s \in LineStarts, NEW i, Between(s, i), ~Halts(i)
  PROVE  Between(s, i + Stride(i)) /\ PatternRunes(s, i, i + Stride(i))
<1>1. /\ i \in Nat /\ s \in Nat /\ 1 <= s /\ Len(text) \in Nat /\ i \in 1..Len(text) + 2
      /\ Rune(i) \notin {"fault", "sp", "cr", "nl", "/", "eof"}
      /\ ~(Rune(i) = "*" /\ Rune(i + 1) = "*")
      /\ ~(Rune(i) \in {"*", "esc"} /\ Rune(i + 1) = "fault")
  BY LineFacts, TextFacts DEF Between, Halts
<1>2. i <= Len(text)
  BY <1>1, PatternGoesOn
<1>3. i \in Body(s) /\ text[i] = Rune(i)
  BY <1>1, <1>2, BetweenFacts
<1>4. i \notin Plain(s, "/") \cup Plain(s, "sp") \cup Doubles(s)
  <2>1. i \notin Doubles(s)
    <3>. SUFFICES ASSUME i \in Doubles(s) PROVE FALSE
      OBVIOUS
    <3>1. text[i] = "*" /\ i + 1 \in Body(s) /\ text[i + 1] = "*"
      BY DEF Doubles, Plain
    <3>2. Rune(i + 1) = "*"
      BY <3>1, BodyFacts
    <3>. QED
      BY <1>1, <1>3, <3>1, <3>2
  <2>. QED
    BY <1>1, <1>3, <2>1 DEF Plain
<1>5. CASE Rune(i) = "esc" /\ Rune(i + 1) \notin {"cr", "nl", "eof", "fault"}
  <2>1. Stride(i) = 2
    BY <1>5 DEF Stride
  <2>2. Between(s, i + 2) /\ text[i] = "esc" /\ i + 1 \in Escaped(s)
    BY <1>2, <1>5, BetweenEscape
  <2>3. i + 1 \in Body(s) \ (Plain(s, "/") \cup Plain(s, "sp") \cup Doubles(s))
    BY <2>2, EscapedIs DEF Plain, Doubles
  <2>4. ASSUME NEW k \in i..(i + 2 - 1)
        PROVE  k \in Body(s) \ (Plain(s, "/") \cup Plain(s, "sp") \cup Doubles(s))
    <3>1. k = i \/ k = i + 1
      BY <1>1
    <3>. QED
      BY <1>3, <1>4, <2>3, <3>1
  <2>5. PatternRunes(s, i, i + 2)
    BY <1>1, <2>4 DEF PatternRunes
  <2>. QED
    BY <2>1, <2>2, <2>5
<1>6. CASE ~(Rune(i) = "esc" /\ Rune(i + 1) \notin {"cr", "nl", "eof", "fault"})
  <2>1. Stride(i) = 1
    BY <1>6 DEF Stride
  <2>2. Between(s, i + 1)
    BY <1>1, <1>2, <1>6, BetweenNext
  <2>3. ASSUME NEW k \in i..(i + 1 - 1)
        PROVE  k \in Body(s) \ (Plain(s, "/") \cup Plain(s, "sp") \cup Doubles(s))
    <3>1. k = i
      BY <1>1
    <3>. QED
      BY <1>3, <1>4, <3>1
  <2>4. PatternRunes(s, i, i + 1)
    BY <1>1, <2>3 DEF PatternRunes
  <2>. QED
    BY <2>1, <2>2, <2>4
<1>. QED
  BY <1>5, <1>6

\* By induction on the distance from the end of the text.
LEMMA PatternIsRead ==
  ASSUME ReadText, NEW s \in LineStarts
  PROVE  \A i : Between(s, i) => PatternReads(s, i)
<1>. DEFINE n == Len(text) + 2
            X == {i \in 1..n : Between(s, i) /\ ~PatternReads(s, i)}
            T == {n - i : i \in X}
<1>1. n \in Nat /\ \A i : Between(s, i) => i \in 1..n /\ i \in Nat
  BY LineFacts, TextFacts DEF Between
<1>2. SUFFICES ASSUME X # {} PROVE FALSE
  BY <1>1
<1>3. T \subseteq Nat /\ T # {}
  <2>1. \A i \in X : n - i \in Nat
    BY <1>1
  <2>. QED
    BY <1>2, <2>1
<1>4. PICK i \in X : \A m \in T : n - i <= m
  BY <1>3, LeastNatural
<1>5. ~Halts(i)
  BY <1>4, PatternHalts
<1>. DEFINE k == i + Stride(i)
<1>6. Pattern[i] = Pattern[k]
  BY <1>4, <1>5, PatternUnfolds
<1>7. k \in 1..n /\ Stride(i) \in {1, 2} /\ i \in Nat
  BY <1>4, <1>5, PatternGoesOn DEF Stride
<1>8. Between(s, k) /\ PatternRunes(s, i, k)
  BY <1>4, <1>5, PatternStride
<1>9. PatternReads(s, k)
  <2>. SUFFICES ASSUME k \in X PROVE FALSE
    BY <1>7, <1>8
  <2>1. n - k \in T
    OBVIOUS
  <2>2. n - i <= n - k
    BY <1>4, <2>1
  <2>. QED
    BY <1>1, <1>4, <1>7, <2>2
<1>10. k \in Nat /\ i <= k
  BY <1>7
<1>. HIDE DEF k
<1>11. PatternReads(s, i)
  <2>1. CASE ~Pattern[k].ok
    BY <1>6, <1>9, <2>1 DEF PatternReads
  <2>2. CASE Pattern[k].ok
    <3>. DEFINE m == Pattern[k].next
    <3>1. k <= m /\ Between(s, m) /\ PatternRunes(s, k, m)
      BY <1>9, <2>2 DEF PatternReads
    <3>2. m \in Nat
      BY <1>1, <3>1
    <3>. HIDE DEF m
    <3>3. i <= m /\ \A j \in i..(m - 1) : j \in i..(k - 1) \/ j \in k..(m - 1)
      BY <1>7, <1>10, <3>1, <3>2
    <3>4. PatternRunes(s, i, m)
      BY <1>8, <3>1, <3>3 DEF PatternRunes
    <3>. QED
      BY <1>6, <2>2, <3>1, <3>3, <3>4 DEF PatternReads, m
  <2>. QED
    BY <2>1, <2>2
<1>. QED
  BY <1>4, <1>11

-----------------------------------------------------------------------------
(* A token more of a line that is right so far                             *)

LEMMA TypeIs ==
  /\ Type = "EOF" => Rune(pos) = "eof" /\ Extent = Good(pos)
  /\ Type = "EOL" => Rune(pos) \in {"cr", "nl"} /\ Extent = Eol(pos)
  /\ Type = "WHITESPACE" => Rune(pos) = "sp" /\ Extent = Until(pos, Runes \ {"sp"})
  /\ Type = "SEPARATOR" => Rune(pos) = "/" /\ Extent = Good(pos + 1)
  /\ Type = "ANY" => Rune(pos) = "*" /\ Rune(pos + 1) = "*" /\ Extent = Good(pos + 2)
  /\ Type = "COMMENT" => pos = start /\ Rune(pos) = "#" /\ Extent = Until(pos, {"cr", "nl"})
  /\ Type = "NEGATION" => pos = start /\ Rune(pos) = "!" /\ Extent = Good(pos + 1)
  /\ Type = "PATTERN" => /\ Rune(pos) \notin {"eof", "cr", "nl", "sp", "/"} /\ Extent = Pattern[pos]
                         /\ ~(Rune(pos) = "*" /\ Rune(pos + 1) = "*")
                         /\ pos = start => Rune(pos) \notin {"#", "!"}
<1>1. CASE Rune(pos) \in {"eof", "cr", "nl", "sp", "/"}
  BY <1>1 DEF Type, Extent
<1>2. CASE Rune(pos) = "*"
  BY <1>2 DEF Type, Extent, Beginning
<1>3. CASE Rune(pos) \notin {"eof", "cr", "nl", "sp", "/", "*"}
  BY <1>3 DEF Type, Extent, Beginning
<1>. QED
  BY <1>1, <1>2, <1>3

\* Where the parser is within a line.
InLine(m) ==
  /\ m \in Midway \cup {"top"}
  /\ LexerInv /\ ReadTo(m, pos) /\ Between(start, pos)

LEMMA InLineIs ==
  ASSUME LexerInv, NEW m \in Midway \cup {"top"}, ReadTo(m, pos), m = "top" => Type \notin {"NEGATION", "COMMENT"},
         Type \notin LineEnd
  PROVE  /\ InLine(m)
         /\ Rune(start) # "#"
<1>1. m = "top" <=> pos = start
  BY DEF ReadTo
<1>2. start \in Nat /\ pos \in Nat /\ start <= pos
  BY LineFacts DEF LexerInv, ReadTo
<1>3. CASE m = "top"
  <2>1. Rune(start) \notin {"#", "!"}
    <3>1. pos = start
      BY <1>1, <1>3
    <3>. QED
      BY <1>3, <3>1 DEF Type, Beginning
  <2>. QED
    BY <2>1 DEF InLine, ReadTo, Between
<1>4. CASE m # "top"
  BY <1>1, <1>2, <1>4 DEF InLine, ReadTo, Between
<1>. QED
  BY <1>3, <1>4

LEMMA InLineFacts ==
  ASSUME NEW m, InLine(m)
  PROVE  /\ ReadText /\ start \in LineStarts /\ start \in Nat /\ pos \in Nat /\ start <= pos
         /\ pos <= Len(text) + 1 /\ Clean(start, pos) /\ Len(text) \in Nat
         /\ \A i \in Doubles(start) : i \in Nat /\ start <= i /\ text[i] = "*" /\ text[i + 1] = "*"
         /\ m # "any" => pos - 1 \notin Doubles(start)
<1>1. /\ ReadText /\ start \in LineStarts /\ start \in Nat /\ pos \in Nat /\ start <= pos
      /\ pos <= Len(text) + 1 /\ Clean(start, pos) /\ Len(text) \in Nat
  BY LineFacts, TextFacts DEF InLine, LexerInv, ReadTo
<1>2. Body(start) \subseteq Content(start) /\ Content(start) = start..(Stop(start) - 1)
      /\ Stop(start) \in Nat
  BY <1>1, LineFacts, BodyFacts
<1>3. ASSUME NEW i \in Doubles(start)
      PROVE  i \in Body(start) /\ i \in Nat /\ start <= i /\ text[i] = "*" /\ text[i + 1] = "*"
  <2>1. i \in Body(start) /\ text[i] = "*" /\ text[i + 1] = "*"
    BY DEF Doubles, Plain
  <2>. QED
    BY <1>1, <1>2, <2>1
<1>4. ASSUME m # "any", pos - 1 \in Doubles(start) PROVE FALSE
  <2>1. pos - 1 \in Body(start) /\ text[pos - 1] = "*" /\ start <= pos - 1
    BY <1>3, <1>4
  <2>2. m # "top" /\ m # "separator" /\ m # "pattern"
    BY <1>1, <1>4, <2>1 DEF InLine, ReadTo, Plain
  <2>3. m # "sequence"
    <3>. SUFFICES ASSUME m = "sequence" PROVE FALSE
      OBVIOUS
    <3>1. Rune(start) = "!" /\ pos = start + 1
      BY DEF InLine, ReadTo
    <3>2. pos - 1 = start
      BY <1>1, <3>1
    <3>. QED
      BY <1>1, <1>2, <2>1, <3>1, <3>2, BodyFacts
  <2>4. m # "eol"
    <3>. SUFFICES ASSUME m = "eol" PROVE FALSE
      OBVIOUS
    <3>1. PICK i \in Doubles(start) : Pending("eol", pos, i)
      BY DEF InLine, ReadTo
    <3>2. i + 2 < pos /\ \A j \in i + 2..(pos - 1) : text[j] = "sp"
      BY <3>1 DEF Pending
    <3>3. pos - 1 \in i + 2..(pos - 1)
      BY <1>1, <1>3, <3>2
    <3>. QED
      BY <2>1, <3>2, <3>3
  <2>. QED
    BY <1>4, <2>2, <2>3, <2>4 DEF InLine, Midway
<1>. QED
  BY <1>1, <1>3, <1>4

\* What is to be shown of a token more.
LEMMA ReadOn ==
  ASSUME NEW m, InLine(m), Rune(start) # "#", NEW q, Between(start, q), pos < q,
         NEW n \in {"separator", "any", "pattern", "eol"},
         n = "separator" => q - 1 \in Plain(start, "/"),
         n = "pattern" => q - 1 \in Body(start) \ (Plain(start, "/") \cup Doubles(start)),
         n = "any" => q - 2 \in Doubles(start),
         n = "eol" => Rune(q) # "sp" /\ \E i \in Doubles(start) : Pending(n, q, i),
         \A i \in Doubles(start) : i + 1 < q => Pending(n, q, i) \/ Whole(start, i)
  PROVE  ReadTo(n, q)
<1>1. start \in Nat /\ pos \in Nat /\ start <= pos
  BY InLineFacts
<1>2. q \in Nat /\ q <= Len(text) + 1 /\ Clean(start, q) /\ (q \in Escaped(start) => Rune(q) = "cr")
  BY DEF Between
<1>3. Rune(start) = "!" => q # start + 1
  BY <1>1, <1>2 DEF InLine, Between
<1>4. start < q /\ start <= q
  BY <1>1, <1>2
<1>5. /\ n = "top" <=> q = start
      /\ n = "sequence" <=> Rune(start) = "!" /\ q = start + 1
      /\ n # "top" => Rune(start) # "#"
  BY <1>1, <1>2, <1>3, <1>4
<1>6. /\ n = "separator" => q - 1 \in Plain(start, "/")
      /\ n = "pattern" => q - 1 \in Body(start) \ (Plain(start, "/") \cup Doubles(start))
      /\ n = "any" => q - 2 \in Doubles(start)
  OBVIOUS
<1>7. n = "eol" => Rune(q) # "sp" /\ \E i \in Doubles(start) : Pending(n, q, i)
  OBVIOUS
<1>8. \A i \in Doubles(start) : i + 1 < q => Pending(n, q, i) \/ Whole(start, i)
  OBVIOUS
<1>. QED
  BY <1>2, <1>4, <1>5, <1>6, <1>7, <1>8, Zenon DEF ReadTo

LEMMA SeparatorRead ==
  ASSUME NEW m, InLine(m), Rune(start) # "#", m # "eol", Type = "SEPARATOR"
  PROVE  ReadTo("separator", pos + 1)
<1>1. /\ ReadText /\ start \in LineStarts /\ start \in Nat /\ pos \in Nat /\ start <= pos
      /\ Len(text) \in Nat /\ Between(start, pos) /\ ReadTo(m, pos) /\ LexerInv
      /\ \A i \in Doubles(start) : i \in Nat /\ start <= i /\ text[i] = "*" /\ text[i + 1] = "*"
  BY InLineFacts DEF InLine
<1>2. Rune(pos) = "/" /\ pos <= Len(text)
  BY <1>1, TypeIs, TextFacts DEF ReadText
<1>3. Between(start, pos + 1) /\ pos \in Body(start) \ Escaped(start) /\ text[pos] = "/"
  BY <1>1, <1>2, BetweenNext, BetweenFacts
<1>4. pos \in Plain(start, "/")
  BY <1>3 DEF Plain
<1>5. ASSUME NEW i \in Doubles(start), i + 1 < pos + 1 PROVE Whole(start, i)
  <2>1. i + 1 # pos
    BY <1>1, <1>3
  <2>2. Pending(m, pos, i) \/ Whole(start, i)
    BY <1>1, <1>5, <2>1 DEF ReadTo
  <2>3. ASSUME Pending(m, pos, i) PROVE Whole(start, i)
    <3>1. LeftWhole(i) /\ i = pos - 2
      BY <2>3 DEF Pending
    <3>2. i + 2 = pos
      BY <1>1, <3>1
    <3>. QED
      BY <1>4, <3>1, <3>2 DEF Whole, LeftWhole
  <2>. QED
    BY <2>2, <2>3
<1>. DEFINE q == pos + 1
<1>6. pos < q /\ q - 1 = pos
  BY <1>1
<1>7. Between(start, q) /\ \A i \in Doubles(start) : i + 1 < q => Whole(start, i)
  BY <1>3, <1>5
<1>. HIDE DEF q
<1>8. ReadTo("separator", q)
  BY <1>4, <1>6, <1>7, ReadOn
<1>. QED
  BY <1>8 DEF q

LEMMA AnyRead ==
  ASSUME NEW m, InLine(m), Rune(start) # "#", m \notin {"any", "eol", "pattern"}, Type = "ANY"
  PROVE  ReadTo("any", pos + 2)
<1>1. /\ ReadText /\ start \in LineStarts /\ start \in Nat /\ pos \in Nat /\ start <= pos
      /\ Len(text) \in Nat /\ Between(start, pos) /\ ReadTo(m, pos) /\ LexerInv
      /\ \A i \in Doubles(start) : i \in Nat /\ start <= i /\ text[i] = "*" /\ text[i + 1] = "*"
      /\ pos - 1 \notin Doubles(start)
  BY InLineFacts DEF InLine
<1>2. Rune(pos) = "*" /\ Rune(pos + 1) = "*" /\ pos <= Len(text) /\ pos + 1 <= Len(text)
  BY <1>1, TypeIs, TextFacts DEF ReadText
<1>3. Between(start, pos + 1) /\ pos \in Body(start) \ Escaped(start) /\ text[pos] = "*"
  BY <1>1, <1>2, BetweenNext, BetweenFacts
<1>. DEFINE r == pos + 1
            q == pos + 2
<1>4. r \in Nat /\ r + 1 = q /\ pos < q /\ q - 2 = pos
  BY <1>1
<1>5. Between(start, r) /\ Rune(r) = "*" /\ r <= Len(text)
  BY <1>2, <1>3
<1>. HIDE DEF r
<1>6. Between(start, r + 1) /\ r \in Body(start) \ Escaped(start) /\ text[r] = "*"
  BY <1>1, <1>5, BetweenNext, BetweenFacts
<1>7. pos \in Doubles(start)
  BY <1>3, <1>6 DEF Doubles, Plain, r
<1>8. LeftWhole(pos)
  <2>. SUFFICES ASSUME pos - 1 \in Body(start) PROVE pos - 1 \in Plain(start, "/")
    BY DEF LeftWhole
  <2>1. /\ Body(start) \subseteq Content(start) /\ Content(start) = start..(Stop(start) - 1)
        /\ \A i \in Content(start) : text[i] = Rune(i) /\ (i \in Body(start) <=> ~(i = start /\ text[start] = "!"))
    BY <1>1, BodyFacts
  <2>2. start <= pos - 1
    BY <1>1, <2>1, LineFacts
  <2>3. m # "top"
    BY <1>1, <2>2 DEF ReadTo
  <2>4. m # "sequence"
    <3>. SUFFICES ASSUME m = "sequence" PROVE FALSE
      OBVIOUS
    <3>1. Rune(start) = "!" /\ pos - 1 = start
      BY <1>1 DEF ReadTo
    <3>. QED
      BY <2>1, <3>1
  <2>5. m = "separator"
    BY <2>3, <2>4 DEF InLine, Midway
  <2>. QED
    BY <1>1, <2>5 DEF ReadTo
<1>9. ASSUME NEW i \in Doubles(start), i + 1 < q PROVE Pending("any", q, i) \/ Whole(start, i)
  <2>1. CASE i = pos
    BY <1>4, <1>8, <2>1 DEF Pending
  <2>2. CASE i # pos
    <3>1. i # pos - 1 /\ i + 1 < pos
      BY <1>1, <1>4, <1>9, <2>2
    <3>2. Pending(m, pos, i) \/ Whole(start, i)
      BY <1>1, <3>1 DEF ReadTo
    <3>. QED
      BY <3>2 DEF Pending
  <2>. QED
    BY <2>1, <2>2
<1>. HIDE DEF q
<1>10. ReadTo("any", q)
  BY <1>4, <1>6, <1>7, <1>9, ReadOn
<1>. QED
  BY <1>10 DEF q

\* White space and patterns hold no separator and no "**" that counts.
LEMMA SpaceOrPatternRead ==
  ASSUME NEW m, InLine(m), Rune(start) # "#", m \notin {"any", "eol"},
         NEW q, Between(start, q), pos < q,
         \A k \in pos..(q - 1) : k \in Body(start) \ (Plain(start, "/") \cup Doubles(start))
  PROVE  ReadTo("pattern", q)
<1>1. /\ start \in Nat /\ pos \in Nat /\ start <= pos /\ ReadTo(m, pos) /\ q \in Nat
      /\ \A i \in Doubles(start) : i \in Nat /\ start <= i
      /\ pos - 1 \notin Doubles(start)
  BY InLineFacts DEF InLine, Between
<1>2. q - 1 \in Body(start) \ (Plain(start, "/") \cup Doubles(start))
  <2>1. q - 1 \in pos..(q - 1)
    BY <1>1
  <2>. QED
    BY <2>1
<1>3. ASSUME NEW i \in Doubles(start), i + 1 < q PROVE Whole(start, i)
  <2>1. i \notin pos..(q - 1)
    OBVIOUS
  <2>2. i + 1 < pos
    BY <1>1, <1>3, <2>1
  <2>3. Pending(m, pos, i) \/ Whole(start, i)
    BY <1>1, <2>2 DEF ReadTo
  <2>. QED
    BY <2>3 DEF Pending
<1>. QED
  BY <1>2, <1>3, ReadOn

LEMMA SpacesRead ==
  ASSUME NEW m, InLine(m), Type = "WHITESPACE", Extent.ok
  PROVE  /\ Between(start, Extent.next) /\ pos < Extent.next /\ Rune(Extent.next) # "sp"
         /\ \A k \in pos..(Extent.next - 1) : k \in Body(start) /\ text[k] = "sp"
<1>. DEFINE q == Extent.next
            stops == Runes \ {"sp"}
<1>1. /\ ReadText /\ start \in LineStarts /\ start \in Nat /\ pos \in Nat /\ start <= pos
      /\ pos <= Len(text) + 1 /\ Clean(start, pos) /\ LexerInv /\ (Rune(start) = "!" => start < pos)
  BY InLineFacts DEF InLine, Between
<1>2. Extent = Until(pos, stops)
  BY TypeIs
<1>3. /\ q \in Nat /\ pos <= q /\ q <= Len(text) + 1 /\ Clean(start, q)
      /\ Rune(q) \in stops \cup {"eof"}
      /\ \A k \in pos..(q - 1) : text[k] = Rune(k) /\ text[k] \in Runes \ stops
  BY <1>1, <1>2, RunsRead, ZenonT(60)
<1>4. pos < q
  BY <1>1, ExtentTakes
<1>. HIDE DEF q
<1>5. Rune(q) # "sp" /\ \A k \in pos..(q - 1) : text[k] = "sp"
  BY <1>3
<1>6. q \notin Escaped(start)
  <2>. SUFFICES ASSUME q \in Escaped(start) PROVE FALSE
    OBVIOUS
  <2>1. text[q - 1] = "esc"
    BY <1>1, EscapedIs
  <2>2. q - 1 \in pos..(q - 1)
    BY <1>1, <1>3, <1>4
  <2>. QED
    BY <1>5, <2>1, <2>2
<1>7. Between(start, q)
  BY <1>1, <1>3, <1>4, <1>6 DEF Between
<1>8. ASSUME NEW k \in pos..(q - 1) PROVE k \in Body(start)
  <2>1. k \in start..(q - 1)
    BY <1>1, <1>3
  <2>2. k \in Content(start)
    BY <1>1, <1>7, <2>1, BetweenFacts
  <2>3. ~(k = start /\ text[start] = "!")
    BY <1>5
  <2>. QED
    BY <1>1, <2>2, <2>3, BodyFacts
<1>. QED
  BY <1>4, <1>5, <1>7, <1>8 DEF q

\* Every token that may follow takes the parser on.
LEMMA TokenRead ==
  ASSUME NEW m, InLine(m), Rune(start) # "#", m # "eol", Extent.ok,
         m = "any" => Type = "SEPARATOR", m = "pattern" => Type # "ANY"
  PROVE  /\ Type = "SEPARATOR" => ReadTo("separator", Extent.next)
         /\ Type = "ANY" => ReadTo("any", Extent.next)
         /\ Type \in {"WHITESPACE", "PATTERN"} => ReadTo("pattern", Extent.next)
<1>1. CASE Type = "SEPARATOR"
  <2>1. Extent.next = pos + 1
    BY <1>1, TypeIs, GoodFacts
  <2>. QED
    BY <1>1, <2>1, SeparatorRead
<1>2. CASE Type = "ANY"
  <2>1. Extent.next = pos + 2 /\ m \notin {"any", "eol", "pattern"}
    BY <1>2, TypeIs, GoodFacts
  <2>. QED
    BY <1>2, <2>1, AnyRead
<1>3. CASE Type = "WHITESPACE"
  <2>. DEFINE q == Extent.next
  <2>1. /\ Between(start, q) /\ pos < q
        /\ \A k \in pos..(q - 1) : k \in Body(start) /\ text[k] = "sp"
    BY <1>3, SpacesRead
  <2>. HIDE DEF q
  <2>2. \A k \in pos..(q - 1) : k \in Body(start) \ (Plain(start, "/") \cup Doubles(start))
    BY <2>1 DEF Plain, Doubles
  <2>3. m \notin {"any", "eol"}
    BY <1>3
  <2>4. ReadTo("pattern", q)
    BY <2>1, <2>2, <2>3, SpaceOrPatternRead
  <2>. QED
    BY <1>3, <2>4 DEF q
<1>4. CASE Type = "PATTERN"
  <2>. DEFINE q == Extent.next
  <2>1. ReadText /\ start \in LineStarts /\ Between(start, pos) /\ LexerInv
    BY InLineFacts DEF InLine
  <2>2. Extent = Pattern[pos]
    BY <1>4, TypeIs
  <2>3. Between(start, q) /\ PatternRunes(start, pos, q)
    BY <2>1, <2>2, PatternIsRead DEF PatternReads
  <2>4. pos < q
    BY <1>4, <2>1, ExtentTakes
  <2>. HIDE DEF q
  <2>5. \A k \in pos..(q - 1) : k \in Body(start) \ (Plain(start, "/") \cup Doubles(start))
    BY <2>3 DEF PatternRunes
  <2>6. m \notin {"any", "eol"}
    BY <1>4
  <2>7. ReadTo("pattern", q)
    BY <2>3, <2>4, <2>5, <2>6, SpaceOrPatternRead
  <2>. QED
    BY <1>4, <2>7 DEF q
<1>. QED
  BY <1>1, <1>2, <1>3, <1>4

\* "**" and the white space after it.
LEMMA EolRead ==
  ASSUME InLine("any"), Rune(start) # "#", Type = "WHITESPACE", Extent.ok
  PROVE  ReadTo("eol", Extent.next)
<1>. DEFINE q == Extent.next
            d == pos - 2
<1>1. /\ start \in Nat /\ pos \in Nat /\ start <= pos /\ ReadTo("any", pos)
      /\ \A i \in Doubles(start) : i \in Nat /\ start <= i /\ text[i] = "*" /\ text[i + 1] = "*"
  BY InLineFacts DEF InLine
<1>2. /\ Between(start, q) /\ pos < q /\ Rune(q) # "sp"
      /\ \A k \in pos..(q - 1) : k \in Body(start) /\ text[k] = "sp"
  BY SpacesRead
<1>. HIDE DEF q
<1>3. d \in Doubles(start) /\ d + 2 = pos /\ q \in Nat
  BY <1>1, <1>2 DEF ReadTo, Between
<1>4. Pending("any", pos, d) \/ Whole(start, d)
  BY <1>1, <1>3 DEF ReadTo
<1>5. LeftWhole(d)
  BY <1>4 DEF Pending, Whole, LeftWhole
<1>6. Pending("eol", q, d)
  BY <1>1, <1>2, <1>3, <1>5 DEF Pending
<1>7. ASSUME NEW i \in Doubles(start), i + 1 < q PROVE Pending("eol", q, i) \/ Whole(start, i)
  <2>1. ASSUME i + 1 >= pos PROVE FALSE
    <3>1. i + 1 \in pos..(q - 1)
      BY <1>1, <1>3, <1>7, <2>1
    <3>. QED
      BY <1>1, <1>2, <3>1
  <2>2. i + 1 < pos
    BY <1>1, <2>1
  <2>3. Pending("any", pos, i) \/ Whole(start, i)
    BY <1>1, <2>2 DEF ReadTo
  <2>4. Pending("any", pos, i) => i = d
    BY DEF Pending
  <2>. QED
    BY <1>6, <2>3, <2>4
<1>8. ReadTo("eol", q)
  BY <1>2, <1>3, <1>6, <1>7, ReadOn
<1>. QED
  BY <1>8 DEF q

\* The beginning of a line.
LEMMA LineBegins ==
  ASSUME LexerInv, pos = start
  PROVE  ReadTo("top", pos) /\ (Type = "NEGATION" => ReadTo("sequence", pos + 1))
<1>1. /\ ReadText /\ start \in LineStarts /\ start \in Nat /\ 1 <= start /\ start <= Len(text) + 1
      /\ Len(text) \in Nat
  BY LineFacts, TextFacts DEF LexerInv
<1>2. /\ Body(start) \subseteq Content(start) /\ Content(start) = start..(Stop(start) - 1)
      /\ \A i \in Content(start) : i \in Body(start) <=> ~(i = start /\ text[start] = "!")
      /\ \A i \in Content(start) : text[i] = Rune(i)
      /\ Stop(start) \in Nat
  BY <1>1, BodyFacts, LineFacts
<1>3. Doubles(start) \subseteq Body(start) /\ Escaped(start) \subseteq Body(start)
  BY <1>1, EscapedIs DEF Doubles, Plain
<1>4. ASSUME NEW i \in Doubles(start) PROVE i \in Nat /\ start <= i
  <2>1. i \in start..(Stop(start) - 1)
    BY <1>2, <1>3, <1>4
  <2>. QED
    BY <1>1, <1>2, <2>1
<1>5. start \notin Escaped(start)
  <2>. SUFFICES ASSUME start \in Escaped(start) PROVE FALSE
    OBVIOUS
  <2>1. start - 1 \in Body(start)
    BY <1>1, EscapedIs
  <2>. QED
    BY <1>1, <1>2, <2>1
<1>6. Clean(start, start)
  BY <1>1 DEF Clean
<1>7. ReadTo("top", start)
  <2>1. \A i \in Doubles(start) : ~(i + 1 < start)
    BY <1>1, <1>4
  <2>2. start # start + 1 /\ start <= start
    BY <1>1
  <2>. QED
    BY <1>1, <1>5, <1>6, <2>1, <2>2 DEF ReadTo
<1>8. ASSUME Type = "NEGATION" PROVE ReadTo("sequence", start + 1)
  <2>1. Rune(start) = "!" /\ start <= Len(text)
    BY <1>1, <1>8, TypeIs, TextFacts DEF ReadText
  <2>2. start \in Content(start)
    BY <1>1, <1>6, <2>1, RuneAfter
  <2>3. text[start] = "!" /\ start \notin Body(start)
    BY <1>2, <2>1, <2>2
  <2>4. Clean(start, start + 1)
    BY <1>1, <2>3 DEF Clean
  <2>. DEFINE q == start + 1
  <2>5. q \in Nat /\ start < q /\ start <= q /\ q <= Len(text) + 1 /\ q - 1 = start /\ q # start
    BY <1>1, <2>1
  <2>6. \A i \in Doubles(start) : ~(i + 1 < q)
    BY <1>1, <1>3, <1>4, <2>3
  <2>7. Clean(start, q)
    BY <2>4
  <2>8. q = start + 1
    OBVIOUS
  <2>. HIDE DEF q
  <2>9. q \notin Escaped(start)
    BY <1>1, <1>3, <2>3, <2>5, EscapedIs
  <2>10. ReadTo("sequence", q)
    BY <2>1, <2>5, <2>6, <2>7, <2>8, <2>9 DEF ReadTo
  <2>. QED
    BY <2>10 DEF q
<1>. QED
  BY <1>7, <1>8

-----------------------------------------------------------------------------
(* Right and wrong lines                                                   *)

\* A token that cannot be read is in a line that cannot be.
LEMMA FailedRead ==
  ASSUME LexerInv, pos <= Len(text) + 1, Clean(start, pos), ~Extent.ok,
         Type = "PATTERN" => Between(start, pos)
  PROVE  Unread(start)
<1>1. /\ ReadText /\ start \in LineStarts /\ start \in Nat /\ 1 <= start /\ pos \in Nat /\ start <= pos
      /\ Len(text) \in Nat
  BY LineFacts, TextFacts DEF LexerInv
<1>2. Type \in {"EOL", "WHITESPACE", "COMMENT", "PATTERN"}
  <2>1. Type \notin {"EOF", "SEPARATOR", "ANY", "NEGATION"}
    BY TypeIs, GoodFacts
  <2>. QED
    BY <2>1, ExtentTakes
<1>3. CASE Type = "EOL"
  <2>1. Rune(pos) \in {"cr", "nl"} /\ Extent = Eol(pos)
    BY <1>3, TypeIs
  <2>2. Rune(pos) = "cr" /\ Rune(pos + 1) # "nl"
    BY <2>1, GoodFacts DEF Eol
  <2>. QED
    BY <1>1, <2>2, RuneAfter
<1>4. CASE Type \in {"WHITESPACE", "COMMENT"}
  <2>1. PICK stops \in {Runes \ {"sp"}, {"cr", "nl"}} : Extent = Until(pos, stops)
    BY <1>4, TypeIs
  <2>. QED
    BY <1>1, <2>1, RunsRead
<1>5. CASE Type = "PATTERN"
  <2>1. Extent = Pattern[pos]
    BY <1>5, TypeIs
  <2>. QED
    BY <1>1, <1>5, <2>1, PatternIsRead DEF PatternReads
<1>. QED
  BY <1>2, <1>3, <1>4, <1>5

\* The end of a line whose runes are clean.
LEMMA EndRead ==
  ASSUME LexerInv, pos <= Len(text) + 1, Clean(start, pos), Type \in LineEnd, Extent.ok
  PROVE  Stop(start) = pos /\ ~Unread(start)
<1>1. ReadText /\ start \in LineStarts /\ pos \in Nat /\ start <= pos
  BY LineFacts, TextFacts DEF LexerInv
<1>2. CASE Type = "EOF"
  BY <1>1, <1>2, TypeIs, RuneAfter
<1>3. CASE Type = "EOL"
  <2>1. Rune(pos) \in {"cr", "nl"} /\ Extent = Eol(pos)
    BY <1>3, TypeIs
  <2>2. Bad(pos + 2).ok = FALSE /\ Bad(pos + 1).ok = FALSE
    BY DEF Bad
  <2>3. Rune(pos) = "nl" \/ Rune(pos + 1) = "nl"
    BY <2>1, <2>2 DEF Eol
  <2>. QED
    BY <1>1, <2>1, <2>3, RuneAfter
<1>. QED
  BY <1>2, <1>3 DEF LineEnd

\* The line that is emitted as a pattern can be parsed.
LEMMA GoodLine ==
  ASSUME LexerInv, NEW m \in Midway, m # "sequence", ReadTo(m, pos), Type \in LineEnd, Extent.ok
  PROVE  ~Malformed(start)
<1>1. /\ ReadText /\ start \in LineStarts /\ start \in Nat /\ pos \in Nat /\ start <= pos
      /\ pos <= Len(text) + 1 /\ Clean(start, pos) /\ pos # start
  BY LineFacts DEF LexerInv, ReadTo, Midway
<1>2. Stop(start) = pos /\ ~Unread(start)
  BY <1>1, EndRead
<1>3. /\ Content(start) = start..(pos - 1) /\ Body(start) \subseteq Content(start)
      /\ \A i \in Content(start) : i \in Body(start) <=> ~(i = start /\ text[start] = "!")
      /\ \A i \in Content(start) : text[i] = Rune(i)
  BY <1>1, <1>2, BodyFacts
<1>4. ASSUME Negated(start), Body(start) = {} PROVE FALSE
  <2>1. Rune(start) = "!"
    BY <1>3, <1>4 DEF Negated
  <2>2. pos # start + 1
    BY <2>1 DEF ReadTo
  <2>3. start + 1 \in Content(start)
    BY <1>1, <1>3, <2>2
  <2>4. start + 1 # start
    BY <1>1
  <2>. QED
    BY <1>3, <1>4, <2>3, <2>4
<1>5. ASSUME NEW i \in Doubles(start) PROVE Whole(start, i)
  <2>1. i \in Nat /\ start <= i /\ i + 1 < pos
    <3>1. i \in Body(start) /\ i + 1 \in Body(start)
      BY DEF Doubles, Plain
    <3>. QED
      BY <1>1, <1>3, <3>1
  <2>2. Pending(m, pos, i) \/ Whole(start, i)
    BY <2>1 DEF ReadTo
  <2>3. ASSUME Pending(m, pos, i) PROVE Whole(start, i)
    <3>1. LeftWhole(i) /\ (i = pos - 2 \/ (i + 2 < pos /\ \A j \in i + 2..(pos - 1) : text[j] = "sp"))
      BY <2>3 DEF Pending
    <3>2. ASSUME NEW j \in Content(start), j >= i + 2 PROVE text[j] = "sp"
      <4>1. j \in i + 2..(pos - 1)
        BY <1>1, <1>3, <2>1, <3>2
      <4>2. i # pos - 2
        BY <1>1, <2>1, <4>1
      <4>. QED
        BY <3>1, <4>1, <4>2
    <3>3. Spaces(start, i + 2)
      BY <3>2 DEF Spaces
    <3>. QED
      BY <3>1, <3>3 DEF Whole, LeftWhole
  <2>. QED
    BY <2>2, <2>3
<1>. QED
  BY <1>2, <1>4, <1>5 DEF Malformed

\* A line with nothing in it can be, and so can a comment.
LEMMA EmptyLine ==
  ASSUME LexerInv, pos = start, Type \in LineEnd, Extent.ok
  PROVE  ~Malformed(start)
<1>1. ReadText /\ start \in LineStarts /\ start \in Nat /\ start <= Len(text) + 1
  BY LineFacts DEF LexerInv
<1>2. Clean(start, start)
  BY <1>1 DEF Clean
<1>3. Stop(start) = start /\ ~Unread(start)
  BY <1>1, <1>2, EndRead
<1>4. Content(start) = {}
  BY <1>1, <1>3 DEF Content
<1>5. ~Negated(start) /\ Doubles(start) = {}
  BY <1>4 DEF Negated, Doubles, Plain, Body
<1>. QED
  BY <1>3, <1>5 DEF Malformed

LEMMA CommentLine ==
  ASSUME LexerInv, CommentTo(pos), Type \in LineEnd, Extent.ok
  PROVE  ~Malformed(start)
<1>1. /\ ReadText /\ start \in LineStarts /\ start \in Nat /\ pos \in Nat /\ start < pos
      /\ pos <= Len(text) + 1 /\ Clean(start, pos) /\ Rune(start) = "#"
  BY LineFacts DEF LexerInv, CommentTo
<1>2. Stop(start) = pos /\ ~Unread(start)
  BY <1>1, EndRead
<1>3. start \in Content(start)
  BY <1>1, <1>2 DEF Content
<1>4. Comment(start)
  BY <1>1, <1>3, BodyFacts DEF Comment
<1>. QED
  BY <1>2, <1>4 DEF Malformed

\* A token that the parser refuses makes the line one that cannot be parsed.
LEMMA BadLine ==
  ASSUME LexerInv, NEW m \in Midway, ReadTo(m, pos),
         \/ m = "sequence" /\ Type \in LineEnd /\ Extent.ok
         \/ m = "any" /\ Type \notin LineEnd \cup {"SEPARATOR", "WHITESPACE"}
         \/ m = "pattern" /\ Type \notin LineEnd \cup {"SEPARATOR", "WHITESPACE", "PATTERN"}
         \/ m = "eol" /\ Type \notin LineEnd
  PROVE  Malformed(start)
<1>1. /\ ReadText /\ start \in LineStarts /\ start \in Nat /\ 1 <= start /\ pos \in Nat /\ start <= pos
      /\ pos <= Len(text) + 1 /\ Clean(start, pos) /\ pos # start /\ Len(text) \in Nat
      /\ Rune(start) # "#"
  BY LineFacts, TextFacts DEF LexerInv, ReadTo, Midway
<1>2. ~Comment(start)
  BY <1>1, BodyFacts DEF Comment
<1>3. Unread(start) => Malformed(start)
  BY DEF Malformed
<1>4. CASE m = "sequence"
  <2>1. Rune(start) = "!" /\ pos = start + 1
    BY <1>4 DEF ReadTo
  <2>2. Stop(start) = start + 1
    BY <1>1, <1>4, <2>1, EndRead DEF LineEnd
  <2>3. Content(start) = {start}
    BY <1>1, <2>2 DEF Content
  <2>4. Negated(start) /\ Body(start) = {}
    BY <1>1, <2>1, <2>3, BodyFacts DEF Negated, Body
  <2>. QED
    BY <1>2, <2>4 DEF Malformed
\* A rune of the body follows in which the line goes on.
<1>5. ASSUME m # "sequence", Type \notin LineEnd PROVE Rune(pos) = "fault" \/ pos \in Body(start)
  <2>1. Rune(pos) \notin {"eof", "cr", "nl"}
    BY <1>5 DEF Type, LineEnd
  <2>2. Rune(pos) = "fault" \/ pos <= Len(text)
    BY <1>1, <2>1, TextFacts DEF ReadText
  <2>3. pos <= Len(text) => pos \in Content(start)
    BY <1>1, <2>1, RuneAfter
  <2>. QED
    BY <1>1, <2>2, <2>3, BodyFacts
<1>6. Rune(pos) = "fault" => Malformed(start)
  BY <1>1, <1>3, RuneAfter
<1>7. ASSUME NEW i \in Doubles(start), ~Whole(start, i) PROVE Malformed(start)
  BY <1>2, <1>7 DEF Malformed
<1>8. CASE m = "any" /\ Type \notin LineEnd \cup {"SEPARATOR", "WHITESPACE"} /\ pos \in Body(start)
  <2>1. Rune(pos) \notin {"sp", "/"}
    BY <1>8 DEF Type, LineEnd
  <2>2. text[pos] = Rune(pos) /\ pos \in Content(start)
    BY <1>1, <1>8, BodyFacts
  <2>. DEFINE d == pos - 2
  <2>3. d \in Doubles(start) /\ d + 2 = pos
    BY <1>1, <1>8 DEF ReadTo
  <2>. HIDE DEF d
  <2>4. pos >= d + 2
    BY <1>1, <2>3
  <2>5. ~Whole(start, d)
    BY <2>1, <2>2, <2>3, <2>4 DEF Whole, Plain, Spaces
  <2>. QED
    BY <1>7, <2>3, <2>5
<1>9. CASE /\ m = "pattern" /\ Type \notin LineEnd \cup {"SEPARATOR", "WHITESPACE", "PATTERN"}
           /\ pos \in Body(start)
  <2>1. Type = "ANY"
    BY <1>1, <1>9, ExtentTakes DEF LineEnd
  <2>2. Between(start, pos)
    BY <1>1 DEF ReadTo, Between
  <2>3. Rune(pos) = "*" /\ Rune(pos + 1) = "*" /\ pos <= Len(text) /\ pos + 1 <= Len(text)
    BY <1>1, <2>1, TypeIs, TextFacts DEF ReadText
  <2>4. Between(start, pos + 1) /\ pos \in Body(start) \ Escaped(start) /\ text[pos] = "*"
    BY <1>1, <2>2, <2>3, BetweenNext, BetweenFacts
  <2>. DEFINE r == pos + 1
  <2>5. Between(start, r) /\ Rune(r) = "*" /\ r <= Len(text)
    BY <2>3, <2>4
  <2>. HIDE DEF r
  <2>6. r \in Body(start) \ Escaped(start) /\ text[r] = "*"
    BY <1>1, <2>5, BetweenNext, BetweenFacts
  <2>7. pos \in Doubles(start)
    BY <2>4, <2>6 DEF Doubles, Plain, r
  <2>8. ~Whole(start, pos)
    BY <1>9 DEF ReadTo, Whole
  <2>. QED
    BY <1>7, <2>7, <2>8
<1>10. CASE m = "eol" /\ Type \notin LineEnd /\ pos \in Body(start)
  <2>1. Rune(pos) # "sp"
    BY <1>10 DEF ReadTo
  <2>2. text[pos] # "sp" /\ pos \in Content(start)
    BY <1>1, <1>10, <2>1, BodyFacts
  <2>3. PICK i \in Doubles(start) : Pending("eol", pos, i)
    BY <1>10 DEF ReadTo
  <2>4. i + 2 < pos /\ \A j \in i + 2..(pos - 1) : text[j] = "sp"
    BY <2>3 DEF Pending
  <2>5. i \in Nat
    BY <1>1, BodyFacts DEF Doubles, Plain
  <2>6. text[i + 2] = "sp" /\ pos >= i + 2
    BY <1>1, <2>4, <2>5
  <2>7. ~Whole(start, i)
    BY <2>2, <2>6 DEF Whole, Plain, Spaces
  <2>. QED
    BY <1>7, <2>7
<1>. QED
  BY <1>4, <1>5, <1>6, <1>8, <1>9, <1>10 DEF LineEnd

-----------------------------------------------------------------------------
(* From line to line                                                       *)

\* What the lines hold stays as it is while they are read.
LEMMA ContentStays ==
  ASSUME UNCHANGED <<text, tail>>
  PROVE  /\ LineStarts' = LineStarts
         /\ \A i : Rune(i)' = Rune(i)
         /\ \A i, j : Clean(i, j)' <=> Clean(i, j)
         /\ \A s : /\ LineNumber(s)' = LineNumber(s)
                  /\ Stop(s)' = Stop(s) /\ Content(s)' = Content(s) /\ Body(s)' = Body(s)
                  /\ (Negated(s)' <=> Negated(s)) /\ (Comment(s)' <=> Comment(s))
                  /\ Escaped(s)' = Escaped(s) /\ Doubles(s)' = Doubles(s)
                  /\ (Malformed(s)' <=> Malformed(s))
         /\ \A s, r : Plain(s, r)' = Plain(s, r)
         /\ \A s, i : (Whole(s, i)' <=> Whole(s, i)) /\ (Spaces(s, i)' <=> Spaces(s, i))
<1>1. LineStarts' = LineStarts
  BY DEF LineStarts, Newlines
<1>2. \A i : Rune(i)' = Rune(i)
  BY DEF Rune
<1>3. \A i, j : Clean(i, j)' <=> Clean(i, j)
  BY DEF Clean
<1>4. \A s : LineNumber(s)' = LineNumber(s)
  BY DEF LineNumber, Newlines
<1>5. \A s : To(s)' = To(s) /\ Stop(s)' = Stop(s)
  BY DEF To, Stop, Newlines
<1>6. \A s : Content(s)' = Content(s)
  BY <1>5 DEF Content
<1>7. \A s : (Negated(s)' <=> Negated(s)) /\ Body(s)' = Body(s) /\ (Comment(s)' <=> Comment(s))
  BY <1>6 DEF Negated, Body, Comment
<1>8. \A s : Escaped(s)' = Escaped(s)
  BY DEF Escaped, Body, Content, Stop, To, Negated, Newlines
<1>9. \A s, r : Plain(s, r)' = Plain(s, r)
  BY <1>7, <1>8 DEF Plain
<1>10. \A s : Doubles(s)' = Doubles(s)
  BY <1>9 DEF Doubles
<1>11. \A s, i : (Whole(s, i)' <=> Whole(s, i)) /\ (Spaces(s, i)' <=> Spaces(s, i))
  BY <1>6, <1>7, <1>9 DEF Whole, Spaces
<1>12. \A s : Unread(s)' <=> Unread(s)
  BY <1>5, <1>6 DEF Unread
<1>13. \A s : Malformed(s)' <=> Malformed(s)
  BY <1>7, <1>10, <1>11, <1>12 DEF Malformed
<1>. QED
  BY <1>1, <1>2, <1>3, <1>4, <1>5, <1>6, <1>7, <1>8, <1>9, <1>10, <1>11, <1>13

LEMMA TextStays ==
  ASSUME UNCHANGED <<text, tail>>
  PROVE  /\ LineStarts' = LineStarts /\ BadLines' = BadLines
         /\ \A i : Rune(i)' = Rune(i)
         /\ \A s : LineNumber(s)' = LineNumber(s) /\ (Malformed(s)' <=> Malformed(s))
         /\ start' = start => \A m, p : (ReadTo(m, p) => ReadTo(m, p)') /\ (CommentTo(p) => CommentTo(p)')
<1>1. BadLines' = BadLines
  BY ContentStays DEF BadLines
<1>2. ASSUME start' = start, NEW m, NEW p
      PROVE  (ReadTo(m, p) => ReadTo(m, p)') /\ (CommentTo(p) => CommentTo(p)')
  <2>1. \A i : Pending(m, p, i)' <=> Pending(m, p, i)
    BY <1>2, ContentStays DEF Pending, LeftWhole
  <2>. QED
    BY <1>2, <2>1, ContentStays DEF ReadTo, CommentTo
<1>. QED
  BY <1>1, <1>2, ContentStays

LEMMA CommentRead ==
  ASSUME LexerInv, Type = "COMMENT", Extent.ok
  PROVE  CommentTo(Extent.next)
<1>1. /\ ReadText /\ start \in LineStarts /\ start \in Nat /\ 1 <= start /\ start <= Len(text) + 1
  BY LineFacts DEF LexerInv
<1>2. pos = start /\ Rune(start) = "#" /\ Extent = Until(start, {"cr", "nl"})
  BY TypeIs
<1>3. Clean(start, start)
  BY <1>1 DEF Clean
<1>. DEFINE q == Extent.next
<1>4. /\ q \in Nat /\ q <= Len(text) + 1 /\ Clean(start, q)
      /\ Rune(q) \in {"cr", "nl"} \cup {"eof"}
  BY <1>1, <1>2, <1>3, RunsRead
<1>5. start < q
  BY <1>2, ExtentTakes
<1>. HIDE DEF q
<1>6. CommentTo(q)
  BY <1>1, <1>2, <1>4, <1>5 DEF CommentTo
<1>. QED
  BY <1>6 DEF q

\* The line after a newline has the next number.
LEMMA NextNumber ==
  ASSUME LexerInv, line = LineNumber(start), Type = "EOL", Extent.ok
  PROVE  LineNumber(Extent.next) = line + 1
<1>. DEFINE n == Extent.next
            A == {i \in Newlines : i < start}
            B == {i \in Newlines : i < n}
<1>1. /\ n \in Nat /\ pos < n /\ n - 1 \in Newlines /\ NoNewline(pos, n - 1)
  BY ExtentTakes
<1>2. /\ ReadText /\ pos \in Nat /\ start \in Nat /\ start <= pos /\ NoNewline(start, pos)
      /\ Len(text) \in Nat /\ Newlines \subseteq 1..Len(text)
  BY TextFacts, LineFacts DEF LexerInv
<1>. HIDE DEF n
<1>3. n - 1 \notin A
  BY <1>1, <1>2
<1>4. ASSUME NEW i \in Newlines PROVE i < n <=> i < start \/ i = n - 1
  <2>1. i \in Nat /\ n - 1 \in Nat
    BY <1>1, <1>2
  <2>2. i \notin start..(pos - 1) /\ i \notin pos..((n - 1) - 1)
    BY <1>1, <1>2 DEF NoNewline
  <2>. QED
    BY <1>1, <1>2, <2>1, <2>2
<1>5. B = A \cup {n - 1}
  BY <1>1, <1>4
<1>6. IsFiniteSet(A)
  <2>1. IsFiniteSet(1..Len(text))
    BY <1>2, FS_Interval
  <2>2. A \subseteq 1..Len(text)
    BY <1>2
  <2>. QED
    BY <2>1, <2>2, FS_Subset
<1>7. Cardinality(A \cup {n - 1}) = Cardinality(A) + 1 /\ Cardinality(A) \in Nat
  BY <1>3, <1>6, FS_AddElement, FS_CardinalityType
<1>8. LineNumber(n) = 1 + Cardinality(B) /\ LineNumber(start) = 1 + Cardinality(A)
  BY DEF LineNumber
<1>. HIDE DEF A, B
<1>9. LineNumber(n) = line + 1
  BY <1>5, <1>7, <1>8
<1>. QED
  BY <1>9 DEF n

\* No line begins after the one in which the text ends.
LEMMA LastLine ==
  ASSUME LexerInv, Rune(pos) = "eof"
  PROVE  \A t \in LineStarts : t <= start
<1>1. /\ ReadText /\ pos \in Nat /\ start \in Nat /\ 1 <= start /\ start <= pos /\ NoNewline(start, pos)
      /\ Len(text) \in Nat /\ Newlines \subseteq 1..Len(text)
  BY TextFacts, LineFacts DEF LexerInv
<1>2. Len(text) < pos
  <2>. SUFFICES ASSUME pos <= Len(text) PROVE FALSE
    BY <1>1
  <2>1. text[pos] \in Runes /\ Rune(pos) = text[pos]
    BY <1>1, ElementOfSeq DEF ReadText, Rune
  <2>. QED
    BY <2>1, ParserAssumption DEF Runes
<1>. SUFFICES ASSUME NEW t \in LineStarts, start < t PROVE FALSE
  BY <1>1, LineStartsAre
<1>3. PICK i \in Newlines : t = i + 1
  BY <1>1 DEF LineStarts
<1>4. i \in start..(pos - 1)
  BY <1>1, <1>2, <1>3
<1>. QED
  BY <1>1, <1>4 DEF NoNewline

LEMMA SettledStep ==
  ASSUME LexerInv, Settled, Advance, UNCHANGED <<text, tail>>,
         Reported \subseteq Reported', Reported' \subseteq BadLines,
         undone = <<>> /\ Type = "EOL" /\ Extent.ok /\ Malformed(start) => line \in Reported'
  PROVE  /\ Settled'
         /\ undone # <<>> => UNCHANGED lexer
         /\ undone = <<>> => pos' = Extent.next
         /\ IF undone = <<>> /\ Type = "EOL" /\ Extent.ok THEN pos' = start' ELSE UNCHANGED <<start, line>>
<1>1. /\ LineStarts' = LineStarts /\ BadLines' = BadLines
      /\ \A s : LineNumber(s)' = LineNumber(s) /\ (Malformed(s)' <=> Malformed(s))
  BY TextStays
<1>2. /\ line = LineNumber(start)
      /\ \A t \in LineStarts : t < start /\ Malformed(t) => LineNumber(t) \in Reported
  BY DEF Settled
<1>3. start \in LineStarts /\ \A t \in LineStarts : t \in Nat
  BY LineFacts DEF LexerInv
<1>4. CASE undone = <<>> /\ Type = "EOL" /\ Extent.ok
  <2>. DEFINE n == Extent.next
  <2>1. pos' = n /\ start' = n /\ line' = line + 1
    BY <1>4 DEF Advance
  <2>2. LineNumber(n) = line + 1
    BY <1>2, <1>4, NextNumber
  <2>3. \A t \in LineStarts : t < n => t <= start
    BY <1>4, NextLine
  <2>. HIDE DEF n
  <2>4. ASSUME NEW t \in LineStarts, t < n, Malformed(t) PROVE LineNumber(t) \in Reported'
    <3>1. t < start \/ t = start
      BY <1>3, <2>3, <2>4
    <3>. QED
      BY <1>2, <1>4, <2>4, <3>1
  <2>5. Settled'
    <3>1. line' = LineNumber(start)'
      BY <1>1, <2>1, <2>2 DEF LineNumber, Newlines
    <3>2. \A t \in LineStarts : t < start' /\ Malformed(t) => LineNumber(t) \in Reported'
      BY <2>1, <2>4
    <3>. QED
      BY <1>1, <3>1, <3>2 DEF Settled
  <2>. QED
    BY <1>4, <2>1, <2>5 DEF n
<1>5. CASE ~(undone = <<>> /\ Type = "EOL" /\ Extent.ok)
  <2>1. start' = start /\ line' = line /\ (undone = <<>> => pos' = Extent.next) /\ (undone # <<>> => UNCHANGED lexer)
    BY <1>5 DEF Advance, lexer
  <2>2. LineNumber(start)' = LineNumber(start)
    BY <2>1 DEF LineNumber, Newlines
  <2>3. Settled'
    BY <1>1, <1>2, <2>1, <2>2 DEF Settled
  <2>. QED
    BY <1>5, <2>1, <2>3
<1>. QED
  BY <1>4, <1>5

\* The errors reported are in the current line, which is wrong.
LEMMA ReportsLine ==
  ASSUME LexerInv, Settled, Malformed(start), NEW c, Report(line, c)
  PROVE  /\ Reported \subseteq Reported' /\ Reported' \subseteq BadLines /\ line \in Reported'
         /\ mode' \in {"skip", "refused"}
<1>. DEFINE e == [line |-> line, column |-> c]
<1>1. errors' = errors \cup {e} /\ mode' \in {"skip", "refused"} /\ e.line = line
  BY DEF Report
<1>. HIDE DEF e
<1>2. Reported' = Reported \cup {line}
  BY <1>1 DEF Reported
<1>3. line \in BadLines
  BY DEF LexerInv, Settled, BadLines
<1>. QED
  BY <1>1, <1>2, <1>3 DEF Settled

LEMMA ErrorsStay ==
  ASSUME Settled, UNCHANGED errors
  PROVE  Reported' = Reported /\ Reported \subseteq Reported' /\ Reported' \subseteq BadLines
BY DEF Settled, Reported

LEMMA AllReported ==
  ASSUME LexerInv, Settled, Rune(pos) = "eof", Malformed(start) => line \in Reported
  PROVE  BadLines \subseteq Reported
<1>. SUFFICES ASSUME NEW t \in LineStarts, Malformed(t) PROVE LineNumber(t) \in Reported
  BY DEF BadLines
<1>1. t <= start /\ t \in Nat /\ start \in Nat
  BY LastLine, LineFacts DEF LexerInv
<1>2. t < start \/ t = start
  BY <1>1
<1>. QED
  BY <1>2 DEF Settled

\* In the midst of a line the token is a new one.
LEMMA NewToken ==
  ASSUME ParserInv, undone = <<>>
  PROVE  /\ Token = Lexed /\ Token.type = Type /\ Token.line = line /\ Rest = <<>>
         /\ ~Failed => Extent.ok
         /\ Taken => Advance /\ undone' = <<>>
         /\ PutBack => Advance /\ undone' = <<Token>>
<1>1. Token = Lexed /\ Rest = <<>> /\ Lexed.line = line
  BY TokenIs DEF Token, Lexed
<1>2. Token.type = Type
  BY TokenIs
<1>3. Append(Rest, Token) = <<Token>>
  BY <1>1
<1>. HIDE DEF Token, Lexed, Rest
<1>. QED
  BY <1>1, <1>2, <1>3 DEF Failed, Taken, PutBack

LEMMA ReadErrorLines ==
  ASSUME ParserInv, LinesInv, ReadError, UNCHANGED <<text, tail>>, Malformed(start)
  PROVE  LinesInv'
<1>1. LexerInv /\ Settled /\ undone = <<>> /\ ~Extent.ok /\ Report(line, Extent.next - start + 1)
  BY DEF ParserInv, LinesInv, ReadError, Failed
<1>2. Advance /\ undone' = <<>>
  BY <1>1, NewToken DEF ReadError
<1>3. /\ Reported \subseteq Reported' /\ Reported' \subseteq BadLines /\ line \in Reported'
      /\ mode' \in {"skip", "refused"}
  BY <1>1, ReportsLine
<1>4. Settled' /\ start' = start /\ line' = line
  BY <1>1, <1>2, <1>3, SettledStep
<1>5. Malformed(start)'
  BY <1>4, TextStays
<1>. QED
  BY <1>2, <1>3, <1>4, <1>5 DEF LinesInv, Midway

LEMMA RejectLines ==
  ASSUME ParserInv, LinesInv, undone = <<>>, ~Failed, Reject, UNCHANGED <<text, tail>>, Malformed(start)
  PROVE  LinesInv'
<1>1. LexerInv /\ Settled /\ Extent.ok /\ Token.type = Type /\ Token.line = line
      /\ Advance /\ undone' = <<Token>> /\ Report(Token.line, Token.column)
  BY NewToken DEF ParserInv, LinesInv, Reject
<1>2. /\ Reported \subseteq Reported' /\ Reported' \subseteq BadLines /\ line \in Reported'
      /\ mode' \in {"skip", "refused"}
  BY <1>1, ReportsLine
<1>3. /\ Settled' /\ pos' = Extent.next
      /\ IF Type = "EOL" THEN pos' = start' ELSE UNCHANGED <<start, line>>
  BY <1>1, <1>2, SettledStep
<1>4. undone'[1] = Token /\ undone' # <<>>
  BY <1>1
<1>. HIDE DEF Token
<1>5. CASE Type = "EOL"
  BY <1>1, <1>2, <1>3, <1>4, <1>5 DEF LinesInv, Midway
<1>6. CASE Type # "EOL"
  <2>1. start' = start /\ line' = line
    BY <1>3, <1>6
  <2>2. Malformed(start)'
    BY <2>1, TextStays
  <2>3. ASSUME Type = "EOF" PROVE Rune(pos)' = "eof"
    <3>1. Rune(pos) = "eof" /\ pos' = pos
      BY <1>3, <2>3, TypeIs, GoodFacts
    <3>. QED
      BY <3>1, TextStays
  <2>. QED
    BY <1>1, <1>2, <1>3, <1>4, <1>6, <2>1, <2>2, <2>3 DEF LinesInv, Midway
<1>. QED
  BY <1>5, <1>6

\* A token within the line takes the parser on, and is taken.
LEMMA WithinLine ==
  ASSUME ParserInv, LinesInv, undone = <<>>, ~Failed, Taken, UNCHANGED <<text, tail, errors>>,
         Type # "EOL",
         \/ mode' \in Midway /\ ReadTo(mode', Extent.next)
         \/ mode' = "top" /\ CommentTo(Extent.next)
         \/ mode' = "skip" /\ Malformed(start) /\ line \in Reported
  PROVE  LinesInv'
<1>1. LexerInv /\ Settled /\ Advance /\ undone' = <<>> /\ Reported' = Reported /\ Reported' \subseteq BadLines
  BY NewToken, ErrorsStay DEF ParserInv, LinesInv
<1>2. Settled' /\ pos' = Extent.next /\ start' = start /\ line' = line
  BY <1>1, SettledStep
<1>3. ASSUME NEW m, NEW p
      PROVE  (ReadTo(m, p) => ReadTo(m, p)') /\ (CommentTo(p) => CommentTo(p)')
  BY <1>2, TextStays
<1>. DEFINE q == Extent.next
<1>4. CASE mode' \in Midway /\ ReadTo(mode', q)
  <2>. DEFINE m == mode'
  <2>1. m \in Midway /\ ReadTo(m, q)
    BY <1>4
  <2>. QED
    BY <1>1, <1>2, <1>3, <2>1 DEF LinesInv, Midway
<1>5. CASE mode' = "top" /\ CommentTo(q)
  BY <1>1, <1>2, <1>3, <1>5 DEF LinesInv, Midway
<1>6. CASE mode' = "skip" /\ Malformed(start) /\ line \in Reported
  <2>1. Malformed(start)'
    BY <1>2, <1>6, TextStays
  <2>. QED
    BY <1>1, <1>2, <1>6, <2>1 DEF LinesInv, Midway
<1>. QED
  BY <1>4, <1>5, <1>6

\* The end of a line that is right or has been reported, taken or put back.
LEMMA LineEnded ==
  ASSUME ParserInv, LinesInv, undone = <<>>, ~Failed, Advance, UNCHANGED <<text, tail, errors>>,
         Type \in LineEnd, Malformed(start) => line \in Reported,
         mode' = IF mode = "top" /\ Type = "EOF" THEN "done" ELSE "top",
         undone' = <<>> \/ undone' = <<Token>>
  PROVE  LinesInv'
<1>1. /\ LexerInv /\ Settled /\ Extent.ok /\ Token.type = Type
      /\ Reported' = Reported /\ Reported \subseteq Reported' /\ Reported' \subseteq BadLines
  BY NewToken, ErrorsStay DEF ParserInv, LinesInv
<1>2. /\ Settled' /\ pos' = Extent.next
      /\ IF Type = "EOL" THEN pos' = start' ELSE UNCHANGED <<start, line>>
  BY <1>1, SettledStep
<1>3. undone' # <<>> => undone'[1].type = Type
  BY <1>1
<1>. HIDE DEF Token
<1>4. CASE Type = "EOL"
  BY <1>1, <1>2, <1>3, <1>4 DEF LinesInv, Midway
<1>5. CASE Type = "EOF"
  <2>1. Rune(pos) = "eof" /\ pos' = pos /\ start' = start /\ line' = line
    BY <1>2, <1>5, TypeIs, GoodFacts
  <2>2. Rune(pos)' = "eof" /\ (Malformed(start)' <=> Malformed(start)) /\ BadLines' = BadLines
    BY <2>1, TextStays
  <2>3. BadLines \subseteq Reported
    BY <1>1, <2>1, AllReported
  <2>. QED
    BY <1>1, <1>2, <1>3, <1>5, <2>1, <2>2, <2>3 DEF LinesInv, Midway
<1>. QED
  BY <1>4, <1>5 DEF LineEnd

\* Where Next asks for a token, an end of the line is that of a line without an error
\* or of one that has been reported.
LEMMA TopEnds ==
  ASSUME LexerInv, LinesInv, mode = "top", Type \in LineEnd, Extent.ok
  PROVE  Malformed(start) => line \in Reported
BY EmptyLine, CommentLine DEF LinesInv

\* The end of the line, or of the text, that was put back.
LEMMA UndoneTaken ==
  ASSUME ParserInv, LinesInv, undone # <<>>, Taken, UNCHANGED <<text, tail, errors>>,
         \/ mode = "top" /\ mode' = IF Token.type = "EOF" THEN "done" ELSE "top"
         \/ mode = "skip" /\ mode' = IF Token.type \in LineEnd THEN "top" ELSE "skip"
  PROVE  LinesInv'
<1>1. /\ LexerInv /\ Settled /\ Advance /\ undone' = <<>> /\ Token.type = undone[1].type
      /\ Reported' = Reported /\ Reported \subseteq Reported' /\ Reported' \subseteq BadLines
  BY TokenIs, ErrorsStay DEF ParserInv, LinesInv, Taken
<1>2. Settled' /\ pos' = pos /\ start' = start /\ line' = line
  BY <1>1, SettledStep DEF lexer
<1>3. /\ Rune(pos)' = Rune(pos) /\ (Malformed(start)' <=> Malformed(start)) /\ BadLines' = BadLines
  BY <1>2, TextStays
<1>4. mode = "top" => Token.type \in LineEnd
  BY <1>1 DEF ParserInv
<1>5. CASE Token.type = "EOL"
  <2>1. pos = start /\ mode' = "top"
    BY <1>1, <1>5 DEF LinesInv, LineEnd
  <2>. QED
    BY <1>1, <1>2, <2>1 DEF LinesInv, Midway
<1>6. CASE Token.type = "EOF"
  <2>1. Rune(pos) = "eof"
    BY <1>1, <1>6 DEF LinesInv
  <2>2. Type = "EOF" /\ Extent.ok
    BY <2>1, GoodFacts DEF Type, Extent
  <2>3. Malformed(start) => line \in Reported
    BY <1>1, <1>6, <2>2, TopEnds DEF LinesInv, LineEnd
  <2>4. BadLines \subseteq Reported
    BY <1>1, <2>1, <2>3, AllReported
  <2>. QED
    BY <1>1, <1>2, <1>3, <1>6, <2>1, <2>3, <2>4 DEF LinesInv, Midway
<1>7. CASE Token.type \notin LineEnd
  <2>1. mode' = "skip" /\ Malformed(start) /\ line \in Reported
    BY <1>1, <1>4, <1>7 DEF LinesInv, LineEnd
  <2>. QED
    BY <1>1, <1>2, <1>3, <2>1 DEF LinesInv, Midway
<1>. QED
  BY <1>5, <1>6, <1>7 DEF LineEnd

\* A line in which a token cannot be read is wrong, wherever in it the parser is.
LEMMA ReadErrorBad ==
  ASSUME ParserInv, LinesInv, ReadError,
         mode \in Midway \cup {"top", "skip"}
  PROVE  Malformed(start)
<1>1. LexerInv /\ undone = <<>> /\ ~Extent.ok /\ Type # "EOF"
  BY TypeIs, GoodFacts DEF ParserInv, ReadError, Failed
<1>2. Unread(start) => Malformed(start)
  BY DEF Malformed
<1>3. CASE mode = "skip"
  BY <1>1, <1>3 DEF LinesInv
<1>4. CASE mode \in Midway
  <2>1. ReadTo(mode, pos) /\ mode # "top" /\ pos <= Len(text) + 1 /\ Clean(start, pos)
    BY <1>4 DEF LinesInv, ReadTo, Midway
  <2>2. ASSUME Type = "PATTERN" PROVE Between(start, pos)
    BY <1>1, <1>4, <2>1, <2>2, InLineIs DEF InLine, LineEnd
  <2>. QED
    BY <1>1, <1>2, <2>1, <2>2, FailedRead
<1>5. CASE mode = "top" /\ pos = start
  <2>1. ReadTo("top", pos) /\ pos <= Len(text) + 1 /\ Clean(start, pos)
    BY <1>1, <1>5, LineBegins DEF ReadTo
  <2>2. ASSUME Type = "PATTERN" PROVE Between(start, pos)
    BY <1>1, <2>1, <2>2, InLineIs DEF InLine, LineEnd
  <2>. QED
    BY <1>1, <1>2, <2>1, <2>2, FailedRead
<1>6. CASE mode = "top" /\ CommentTo(pos)
  <2>1. pos <= Len(text) + 1 /\ Clean(start, pos) /\ Type # "PATTERN"
    BY <1>6, TypeIs DEF CommentTo
  <2>. QED
    BY <1>1, <1>2, <2>1, FailedRead
<1>7. CASE mode = "top" /\ Rune(pos) = "eof"
  BY <1>1, <1>7 DEF Type
<1>. QED
  BY <1>3, <1>4, <1>5, <1>6, <1>7 DEF LinesInv

\* A pattern goes on within its line.
LEMMA ExtendLines ==
  ASSUME ParserInv, LinesInv, undone = <<>>, ~Failed, Extend, UNCHANGED <<text, tail>>,
         NEW m \in Midway \cup {"top"}, ReadTo(m, pos), m # "eol",
         Type \in {"SEPARATOR", "ANY", "WHITESPACE", "PATTERN"},
         m = "any" => Type = "SEPARATOR", m = "pattern" => Type # "ANY"
  PROVE  LinesInv'
<1>1. LexerInv /\ Extent.ok /\ Token.type = Type /\ Taken /\ UNCHANGED errors
  BY NewToken DEF ParserInv, Extend
<1>2. InLine(m) /\ Rune(start) # "#"
  BY <1>1, InLineIs DEF LineEnd
<1>3. mode' = CASE Type = "SEPARATOR" -> "separator"
                [] Type = "ANY" -> "any"
                [] Type \in {"WHITESPACE", "PATTERN"} -> "pattern"
  BY <1>1 DEF Extend
<1>4. mode' \in Midway /\ ReadTo(mode', Extent.next)
  <2>. DEFINE q == Extent.next
  <2>1. /\ Type = "SEPARATOR" => ReadTo("separator", q)
        /\ Type = "ANY" => ReadTo("any", q)
        /\ Type \in {"WHITESPACE", "PATTERN"} => ReadTo("pattern", q)
    BY <1>1, <1>2, TokenRead
  <2>. HIDE DEF q
  <2>2. mode' \in Midway /\ ReadTo(mode', q)
    BY <1>3, <2>1 DEF Midway
  <2>. QED
    BY <2>2 DEF q
<1>. QED
  BY <1>1, <1>4, WithinLine

LEMMA LinesStep == ParserInv /\ LinesInv /\ Parse => LinesInv'
<1>. SUFFICES ASSUME ParserInv, LinesInv, Parse PROVE LinesInv'
  OBVIOUS
<1>1. LexerInv /\ UNCHANGED <<text, tail>>
  BY DEF ParserInv, Parse, Top, AfterNegation, AfterSeparator, AfterAny, AfterPattern, LineEnds, Skip
<1>2. ASSUME ReadError, mode \in Midway \cup {"top", "skip"} PROVE LinesInv'
  BY <1>1, <1>2, ReadErrorLines, ReadErrorBad
\* In the midst of a line the token is a new one, and no comment or negation.
<1>3. ASSUME mode \in Midway, ~Failed
      PROVE  /\ undone = <<>> /\ Token.type = Type /\ Extent.ok /\ ReadTo(mode, pos)
             /\ Type \in {"SEPARATOR", "ANY", "WHITESPACE", "PATTERN"} \cup LineEnd
  <2>1. undone = <<>> /\ start < pos /\ ReadTo(mode, pos)
    BY <1>3 DEF ParserInv, LinesInv, Midway
  <2>2. Type \notin {"NEGATION", "COMMENT"}
    <3>1. pos # start
      BY <1>1, <2>1, LineFacts DEF LexerInv
    <3>. QED
      BY <3>1, TypeIs
  <2>. QED
    BY <1>1, <1>3, <2>1, <2>2, NewToken, ExtentTakes DEF LineEnd
<1>4. ASSUME mode \in Midway, ~Failed, Extend, mode # "eol", Token.type \notin LineEnd,
             mode = "any" => Token.type = "SEPARATOR", mode = "pattern" => Token.type # "ANY"
      PROVE  LinesInv'
  <2>. DEFINE m == mode
  <2>1. m \in Midway \cup {"top"} /\ ReadTo(m, pos) /\ m # "eol"
    BY <1>3, <1>4
  <2>2. undone = <<>> /\ Type \in {"SEPARATOR", "ANY", "WHITESPACE", "PATTERN"} /\ Token.type = Type
    BY <1>3, <1>4
  <2>. QED
    BY <1>1, <1>4, <2>1, <2>2, ExtendLines
<1>5. ASSUME mode \in Midway \ {"sequence"}, ~Failed, Token.type \in LineEnd, Emit,
             Taken \/ PutBack
      PROVE  LinesInv'
  <2>1. undone = <<>> /\ Type \in LineEnd /\ Extent.ok /\ ReadTo(mode, pos)
    BY <1>3, <1>5
  <2>2. ~Malformed(start)
    BY <1>1, <1>5, <2>1, GoodLine
  <2>3. Advance /\ (undone' = <<>> \/ undone' = <<Token>>)
    BY <1>5, <2>1, NewToken
  <2>4. mode' = "top" /\ mode # "top" /\ UNCHANGED errors
    BY <1>5 DEF Emit, Midway
  <2>. QED
    BY <1>1, <1>5, <2>1, <2>2, <2>3, <2>4, LineEnded
<1>6. ASSUME mode \in Midway, ~Failed, Reject,
             \/ mode = "sequence" /\ Token.type \in LineEnd
             \/ mode = "any" /\ Token.type \notin LineEnd \cup {"SEPARATOR", "WHITESPACE"}
             \/ mode = "pattern" /\ Token.type \notin LineEnd \cup {"SEPARATOR", "WHITESPACE", "PATTERN"}
             \/ mode = "eol" /\ Token.type \notin LineEnd
      PROVE  LinesInv'
  <2>1. undone = <<>> /\ Token.type = Type /\ Extent.ok /\ ReadTo(mode, pos)
    BY <1>3, <1>6
  <2>2. Malformed(start)
    BY <1>1, <1>6, <2>1, BadLine
  <2>. QED
    BY <1>1, <1>6, <2>1, <2>2, RejectLines
<1>7. CASE Top
  <2>1. CASE mode = "top" /\ ReadError
    BY <1>2, <2>1
  <2>2. CASE mode = "top" /\ ~Failed /\ undone # <<>>
    <3>1. Token.type \in LineEnd
      BY <2>2, TokenIs DEF ParserInv
    <3>2. Taken /\ UNCHANGED errors /\ mode' = IF Token.type = "EOF" THEN "done" ELSE "top"
      BY <1>7, <2>2, <3>1 DEF Top, ReadError, LineEnd
    <3>. QED
      BY <1>1, <2>2, <3>2, UndoneTaken
  <2>3. CASE mode = "top" /\ ~Failed /\ undone = <<>>
    <3>1. Token.type = Type /\ Extent.ok
      BY <2>3, NewToken
    <3>2. CASE Type \in LineEnd
      <4>1. Taken /\ UNCHANGED errors /\ mode' = IF Type = "EOF" THEN "done" ELSE "top"
        BY <1>7, <2>3, <3>1, <3>2 DEF Top, ReadError, LineEnd
      <4>2. Advance /\ undone' = <<>>
        BY <2>3, <4>1, NewToken
      <4>3. Malformed(start) => line \in Reported
        BY <1>1, <2>3, <3>1, <3>2, TopEnds
      <4>. QED
        BY <1>1, <2>3, <3>2, <4>1, <4>2, <4>3, LineEnded
    <3>3. CASE Type = "COMMENT"
      <4>1. Taken /\ UNCHANGED errors /\ mode' = "top"
        BY <1>7, <2>3, <3>1, <3>3 DEF Top, ReadError
      <4>2. CommentTo(Extent.next)
        BY <1>1, <3>1, <3>3, CommentRead
      <4>. QED
        BY <1>1, <2>3, <3>3, <4>1, <4>2, WithinLine
    <3>4. CASE Type = "NEGATION"
      <4>1. Taken /\ UNCHANGED errors /\ mode' = "sequence"
        BY <1>7, <2>3, <3>1, <3>4 DEF Top, ReadError, Extend
      <4>2. pos = start /\ Extent.next = pos + 1
        BY <3>4, TypeIs, GoodFacts
      <4>3. ReadTo("sequence", Extent.next)
        BY <1>1, <3>4, <4>2, LineBegins
      <4>4. mode' \in Midway /\ ReadTo(mode', Extent.next)
        BY <4>1, <4>3 DEF Midway
      <4>. QED
        BY <1>1, <2>3, <3>4, <4>1, <4>4, WithinLine
    <3>5. CASE Type \notin LineEnd \cup {"COMMENT", "NEGATION"}
      <4>1. Extend /\ Type \in {"SEPARATOR", "ANY", "WHITESPACE", "PATTERN"}
        BY <1>1, <1>7, <2>3, <3>1, <3>5, ExtentTakes DEF Top, ReadError, LineEnd
      <4>2. pos = start
        <5>1. ~CommentTo(pos) /\ Rune(pos) # "eof"
          BY <3>5 DEF CommentTo, Type, LineEnd
        <5>. QED
          BY <2>3, <5>1 DEF LinesInv
      <4>3. ReadTo("top", pos)
        BY <1>1, <4>2, LineBegins
      <4>. QED
        BY <1>1, <2>3, <4>1, <4>3, ExtendLines
    <3>. QED
      BY <3>2, <3>3, <3>4, <3>5
  <2>. QED
    BY <1>7, <2>1, <2>2, <2>3 DEF Top, ReadError
<1>8. CASE AfterNegation
  BY <1>2, <1>4, <1>6, <1>8 DEF AfterNegation, Midway
<1>9. CASE AfterSeparator
  BY <1>2, <1>4, <1>5, <1>9 DEF AfterSeparator, Midway
<1>10. CASE AfterAny
  <2>1. CASE /\ mode = "any" /\ ~Failed /\ Token.type = "WHITESPACE" /\ Taken
             /\ mode' = "eol" /\ UNCHANGED errors
    <3>1. undone = <<>> /\ Type = "WHITESPACE" /\ Extent.ok /\ ReadTo("any", pos)
      BY <1>3, <2>1 DEF Midway
    <3>2. InLine("any") /\ Rune(start) # "#"
      BY <1>1, <3>1, InLineIs DEF Midway, LineEnd
    <3>3. ReadTo("eol", Extent.next)
      BY <3>1, <3>2, EolRead
    <3>4. mode' \in Midway /\ ReadTo(mode', Extent.next)
      BY <2>1, <3>3 DEF Midway
    <3>. QED
      BY <1>1, <2>1, <3>1, <3>4, WithinLine
  <2>2. CASE mode = "any" /\ ~Failed /\ Token.type = "SEPARATOR" /\ Extend
    BY <1>4, <2>2 DEF LineEnd, Midway
  <2>. QED
    BY <1>2, <1>5, <1>6, <1>10, <2>1, <2>2 DEF AfterAny, Midway
<1>11. CASE AfterPattern
  <2>1. CASE /\ mode = "pattern" /\ ~Failed /\ Extend
             /\ Token.type \in {"SEPARATOR", "WHITESPACE", "PATTERN"}
    BY <1>4, <2>1 DEF LineEnd, Midway
  <2>. QED
    BY <1>2, <1>5, <1>6, <1>11, <2>1 DEF AfterPattern, Midway
<1>12. CASE LineEnds
  BY <1>2, <1>5, <1>6, <1>12 DEF LineEnds, Midway
<1>13. CASE Skip
  <2>1. CASE mode = "skip" /\ ReadError
    BY <1>2, <2>1
  <2>2. CASE /\ mode = "skip" /\ ~Failed /\ Taken /\ UNCHANGED errors
             /\ mode' = IF Token.type \in LineEnd THEN "top" ELSE "skip"
    <3>1. CASE undone # <<>>
      BY <1>1, <2>2, <3>1, UndoneTaken
    <3>2. CASE undone = <<>>
      <4>1. Token.type = Type /\ Advance /\ undone' = <<>> /\ Malformed(start) /\ line \in Reported
        BY <2>2, <3>2, NewToken DEF LinesInv
      <4>2. CASE Type \in LineEnd
        BY <1>1, <2>2, <3>2, <4>1, <4>2, LineEnded
      <4>3. CASE Type \notin LineEnd
        BY <1>1, <2>2, <3>2, <4>1, <4>3, WithinLine DEF LineEnd
      <4>. QED
        BY <4>2, <4>3
    <3>. QED
      BY <3>1, <3>2
  <2>. QED
    BY <1>13, <2>1, <2>2 DEF Skip, Skipped
<1>. QED
  BY <1>7, <1>8, <1>9, <1>10, <1>11, <1>12, <1>13 DEF Parse

LEMMA LinesStutter == ParserInv /\ LinesInv /\ UNCHANGED vars => LinesInv'
<1>. SUFFICES ASSUME ParserInv, LinesInv, UNCHANGED vars PROVE LinesInv'
  OBVIOUS
<1>1. /\ UNCHANGED <<text, tail>> /\ pos' = pos /\ line' = line /\ start' = start
      /\ undone' = undone /\ mode' = mode /\ errors' = errors
  BY DEF vars, lexer
<1>2. /\ LineStarts' = LineStarts /\ BadLines' = BadLines /\ Rune(pos)' = Rune(pos)
      /\ \A s : LineNumber(s)' = LineNumber(s) /\ (Malformed(s)' <=> Malformed(s))
  BY <1>1, TextStays
<1>3. ASSUME NEW m, NEW p
      PROVE  (ReadTo(m, p) => ReadTo(m, p)') /\ (CommentTo(p) => CommentTo(p)')
  BY <1>1, TextStays
<1>4. Reported' = Reported
  BY <1>1 DEF Reported
<1>5. (ReadTo(mode, pos) => ReadTo(mode, pos)') /\ (CommentTo(pos) => CommentTo(pos)')
  BY <1>1, <1>3
<1>6. LineNumber(start)' = LineNumber(start) /\ (Malformed(start)' <=> Malformed(start))
  BY <1>1, <1>2
<1>7. Settled'
  BY <1>1, <1>2, <1>4, <1>6 DEF LinesInv, Settled
<1>. QED
  BY <1>1, <1>2, <1>4, <1>5, <1>6, <1>7 DEF LinesInv

LEMMA LinesInit == Init => LinesInv
<1>. SUFFICES ASSUME Init PROVE LinesInv
  OBVIOUS
<1>1. ReadText /\ pos = 1 /\ line = 1 /\ start = 1 /\ undone = <<>> /\ mode = "top" /\ errors = {}
  BY ParserAssumption DEF Init, ReadText
<1>2. {i \in Newlines : i < 1} = {}
  BY <1>1, TextFacts
<1>3. LineNumber(1) = 1
  BY <1>2, FS_EmptySet DEF LineNumber
<1>4. \A t \in LineStarts : ~(t < 1)
  BY <1>1, LineFacts
<1>5. Reported = {}
  BY <1>1 DEF Reported
<1>6. Settled
  BY <1>1, <1>3, <1>4, <1>5 DEF Settled
<1>. QED
  BY <1>1, <1>6 DEF LinesInv, Midway

LEMMA LinesReported == ParserInv /\ LinesInv => BadLinesReported
BY DEF LinesInv, Settled, BadLines, Reported, BadLinesReported

\* The error handler hears of the lines that do not parse and of no other, at the
\* number they have in the text, whatever order of tokens made them wrong: an error
\* ends only the line it is in, and no token put back carries it into the next.
THEOREM BadLinesCorrect == Spec => []BadLinesReported
<1>1. ParserInv /\ LinesInv /\ [Next]_vars => ParserInv' /\ LinesInv'
  BY ParseStep, ParserStutter, LinesStep, LinesStutter DEF Next, Returned
<1>2. Init => ParserInv /\ LinesInv
  BY ParserInit, LinesInit
<1>. QED
  BY <1>1, <1>2, LinesReported, PTL DEF Spec

-----------------------------------------------------------------------------
(* The pattern in hand                                                     *)

\* The tokens up to the k-th are those of the pattern, after them has come white
\* space only that no escape keeps.
Kept(ts, k, p) ==
  LET e == IF k = 0 THEN start ELSE ts[k].to
  IN /\ \A i \in k + 1..Len(ts) : ts[i].type = "WHITESPACE"
     /\ k > 0 => ts[k].type # "WHITESPACE" /\ e - 1 \in Content(start) \ Plain(start, "sp")
     /\ e \in Nat /\ start <= e /\ e <= p
     /\ \A j \in e..(p - 1) : j \in Plain(start, "sp")

\* A separator follows each "**" or nothing yet, and in eol white space.
Parted(ts, m, p) ==
  \A i \in Doubles(start) : i + 1 < p =>
    \/ i + 2 < p /\ text[i + 2] = "/"
    \/ m \in {"any", "eol"} /\ i + 2 = ts[Len(ts)].to

\* The tokens hold what has been read of the line up to p.
Gathered(ts, m, p) ==
  /\ Len(ts) > 0
  /\ ts[1].from = start /\ ts[1].column = 1 /\ ts[1].line = line
  /\ ts[1].type = "NEGATION" <=> Rune(start) = "!"
  /\ \E k \in 0..Len(ts) : Kept(ts, k, p)
  /\ m # "eol" => ts[Len(ts)].to = p
  /\ m = "eol" => /\ ts[Len(ts)].to < p /\ ts[Len(ts)].to - 2 \in Doubles(start)
                  /\ \A j \in ts[Len(ts)].to..(p - 1) : text[j] = "sp"
  /\ Parted(ts, m, p)

LEMMA SpacesPlain ==
  ASSUME NEW m, InLine(m), Type = "WHITESPACE", Extent.ok
  PROVE  \A k \in pos..(Extent.next - 1) : k \in Plain(start, "sp")
<1>. DEFINE q == Extent.next
<1>1. /\ Between(start, q) /\ \A k \in pos..(q - 1) : k \in Body(start) /\ text[k] = "sp"
  BY SpacesRead
<1>2. /\ ReadText /\ start \in LineStarts /\ start \in Nat /\ pos \in Nat /\ start <= pos
      /\ pos \in Escaped(start) => Rune(pos) = "cr"
  BY InLineFacts DEF InLine, Between
<1>. HIDE DEF q
<1>3. q \in Nat
  BY <1>1 DEF Between
<1>. SUFFICES ASSUME NEW k \in pos..(q - 1) PROVE k \in Plain(start, "sp")
  BY DEF q
<1>4. k \in Body(start) /\ text[k] = "sp"
  BY <1>1
<1>5. k \notin Escaped(start)
  <2>. SUFFICES ASSUME k \in Escaped(start) PROVE FALSE
    OBVIOUS
  <2>1. text[k - 1] = "esc"
    BY <1>2, <1>4, EscapedIs
  <2>2. CASE k = pos
    BY <1>2, <1>4, <2>2, BodyFacts
  <2>3. CASE k # pos
    <3>1. k - 1 \in pos..(q - 1)
      BY <1>2, <1>3, <2>3
    <3>. QED
      BY <1>1, <2>1, <3>1
  <2>. QED
    BY <2>2, <2>3
<1>. QED
  BY <1>4, <1>5 DEF Plain

\* Any other token ends with a rune that is no such white space.
LEMMA TokenEnds ==
  ASSUME NEW m, InLine(m), Extent.ok, Type \in {"SEPARATOR", "ANY", "PATTERN"}
  PROVE  Extent.next - 1 \in Content(start) \ Plain(start, "sp")
<1>1. /\ ReadText /\ start \in LineStarts /\ start \in Nat /\ pos \in Nat /\ start <= pos
      /\ Len(text) \in Nat /\ Between(start, pos) /\ LexerInv
      /\ Body(start) \subseteq Content(start)
  BY InLineFacts, BodyFacts DEF InLine
<1>2. CASE Type = "SEPARATOR"
  <2>1. Extent.next - 1 = pos /\ Rune(pos) = "/" /\ pos <= Len(text)
    BY <1>1, <1>2, TypeIs, GoodFacts, TextFacts DEF ReadText
  <2>2. pos \in Body(start) /\ text[pos] = "/"
    BY <1>1, <2>1, BetweenFacts
  <2>. QED
    BY <1>1, <2>1, <2>2 DEF Plain
<1>3. CASE Type = "ANY"
  <2>. DEFINE r == pos + 1
  <2>1. /\ Extent.next - 1 = r /\ Rune(pos) = "*" /\ Rune(r) = "*"
        /\ pos <= Len(text) /\ r <= Len(text)
    BY <1>1, <1>3, TypeIs, GoodFacts, TextFacts DEF ReadText
  <2>2. Between(start, r)
    BY <1>1, <2>1, BetweenNext
  <2>. HIDE DEF r
  <2>3. r \in Body(start) /\ text[r] = "*"
    BY <1>1, <2>1, <2>2, BetweenFacts
  <2>. QED
    BY <1>1, <2>1, <2>3 DEF Plain
<1>4. CASE Type = "PATTERN"
  <2>. DEFINE q == Extent.next
  <2>1. Extent = Pattern[pos] /\ pos < q
    BY <1>1, <1>4, TypeIs, ExtentTakes
  <2>2. Between(start, q) /\ PatternRunes(start, pos, q)
    BY <1>1, <2>1, PatternIsRead DEF PatternReads
  <2>. HIDE DEF q
  <2>3. q - 1 \in pos..(q - 1)
    BY <1>1, <2>1, <2>2 DEF Between
  <2>4. q - 1 \in Body(start) \ Plain(start, "sp")
    BY <2>2, <2>3 DEF PatternRunes
  <2>. QED
    BY <1>1, <2>4 DEF q
<1>. QED
  BY <1>2, <1>3, <1>4

\* A token more and each "**" is still parted from what follows it.
LEMMA PartedOn ==
  ASSUME NEW m, InLine(m), m # "eol", Extent.ok,
         NEW ts, m # "top" => Gathered(ts, m, pos),
         Type \in {"SEPARATOR", "ANY", "WHITESPACE", "PATTERN"},
         m = "any" => Type = "SEPARATOR", m = "pattern" => Type # "ANY",
         NEW i \in Doubles(start), i + 1 < Extent.next
  PROVE  \/ i + 2 < Extent.next /\ text[i + 2] = "/"
         \/ Type = "ANY" /\ i + 2 = Extent.next
<1>. DEFINE q == Extent.next
<1>1. /\ ReadText /\ start \in LineStarts /\ start \in Nat /\ pos \in Nat /\ start <= pos
      /\ Len(text) \in Nat /\ Between(start, pos) /\ LexerInv
      /\ i \in Nat /\ start <= i /\ text[i] = "*" /\ text[i + 1] = "*"
      /\ m # "any" => pos - 1 # i
      /\ q \in Nat /\ pos <= q
  BY InLineFacts, ExtentTakes DEF InLine
<1>2. ASSUME i + 1 < pos
      PROVE  \/ i + 2 < pos /\ text[i + 2] = "/"
             \/ m = "any" /\ i + 2 = pos
  <2>1. m # "top"
    BY <1>1, <1>2 DEF InLine, ReadTo
  <2>2. ts[Len(ts)].to = pos /\ Parted(ts, m, pos)
    BY <2>1 DEF Gathered
  <2>. QED
    BY <1>2, <2>2 DEF Parted
<1>3. CASE Type = "SEPARATOR"
  <2>1. q = pos + 1 /\ Rune(pos) = "/" /\ pos <= Len(text)
    BY <1>1, <1>3, TypeIs, GoodFacts, TextFacts DEF ReadText
  <2>2. text[pos] = "/"
    BY <1>1, <2>1, BetweenFacts
  <2>. HIDE DEF q
  <2>3. i + 1 # pos
    BY <1>1, <2>2
  <2>4. i + 1 < pos
    BY <1>1, <2>1, <2>3 DEF q
  <2>. QED
    BY <1>1, <1>2, <2>1, <2>2, <2>4 DEF q
<1>4. CASE Type = "ANY"
  <2>1. q = pos + 2 /\ m # "any"
    BY <1>4, TypeIs, GoodFacts
  <2>. HIDE DEF q
  <2>2. i + 1 < pos \/ i = pos
    BY <1>1, <2>1 DEF q
  <2>. QED
    BY <1>1, <1>2, <1>4, <2>1, <2>2 DEF q
<1>5. CASE Type \in {"WHITESPACE", "PATTERN"}
  <2>1. \A k \in pos..(q - 1) : k \notin Doubles(start)
    <3>1. CASE Type = "WHITESPACE"
      BY <3>1, SpacesPlain DEF Doubles, Plain
    <3>2. CASE Type = "PATTERN"
      <4>1. Extent = Pattern[pos]
        BY <3>2, TypeIs
      <4>2. PatternRunes(start, pos, q)
        BY <1>1, <4>1, PatternIsRead DEF PatternReads
      <4>. QED
        BY <4>2 DEF PatternRunes
    <3>. QED
      BY <1>5, <3>1, <3>2
  <2>2. m # "any" /\ i < q
    BY <1>1, <1>5
  <2>. HIDE DEF q
  <2>3. i \notin pos..(q - 1)
    BY <2>1
  <2>4. i + 1 < pos
    BY <1>1, <2>2, <2>3
  <2>. QED
    BY <1>1, <1>2, <2>2, <2>4 DEF q
<1>. QED
  BY <1>3, <1>4, <1>5

\* A token more in the hand of the parser.
LEMMA GatheredOn ==
  ASSUME ReadText, start \in LineStarts, pos \in Nat, start <= pos,
         NEW ts \in Seq(Part), NEW t \in Part, NEW q \in Nat, pos < q, t.to = q,
         \/ /\ ts = <<>> /\ pos = start
            /\ t.from = start /\ t.column = 1 /\ t.line = line
            /\ t.type = "NEGATION" <=> Rune(start) = "!"
         \/ \E m \in Midway \ {"eol"} : Gathered(ts, m, pos),
         IF t.type = "WHITESPACE" THEN \A j \in pos..(q - 1) : j \in Plain(start, "sp")
         ELSE q - 1 \in Content(start) \ Plain(start, "sp"),
         NEW n \in Midway \ {"eol"},
         Parted(Append(ts, t), n, q)
  PROVE  Gathered(Append(ts, t), n, q)
<1>. DEFINE us == Append(ts, t)
            l == Len(ts)
<1>1. /\ l \in Nat /\ Len(us) = l + 1 /\ us[l + 1] = t
      /\ \A i \in 1..l : us[i] = ts[i]
  BY AppendProperties, LenProperties
<1>2. start \in Nat /\ t.to = q
  BY LineFacts
<1>3. /\ us[1].from = start /\ us[1].column = 1 /\ us[1].line = line
      /\ us[1].type = "NEGATION" <=> Rune(start) = "!"
  <2>1. CASE ts = <<>> /\ pos = start
    <3>1. l = 0
      BY <2>1
    <3>2. us[1] = t
      BY <1>1, <3>1
    <3>3. ~(\E m \in Midway \ {"eol"} : Gathered(ts, m, pos))
      BY <2>1 DEF Gathered
    <3>. QED
      BY <3>2, <3>3
  <2>2. CASE \E m \in Midway \ {"eol"} : Gathered(ts, m, pos)
    <3>1. l > 0 /\ ts[1].from = start /\ ts[1].column = 1 /\ ts[1].line = line
          /\ (ts[1].type = "NEGATION" <=> Rune(start) = "!")
      BY <2>2 DEF Gathered
    <3>2. us[1] = ts[1]
      BY <1>1, <3>1
    <3>. QED
      BY <3>1, <3>2
  <2>. QED
    BY <2>1, <2>2
<1>4. \E k \in 0..l : Kept(ts, k, pos)
  <2>1. CASE ts = <<>> /\ pos = start
    <3>1. l = 0 /\ 0 \in 0..l
      BY <2>1
    <3>2. Kept(ts, 0, pos)
      BY <1>2, <2>1, <3>1 DEF Kept
    <3>. QED
      BY <3>1, <3>2
  <2>2. CASE \E m \in Midway \ {"eol"} : Gathered(ts, m, pos)
    BY <2>2 DEF Gathered
  <2>. QED
    BY <2>1, <2>2
<1>. HIDE DEF us, l
<1>5. \E k \in 0..(l + 1) : Kept(us, k, q)
  <2>1. CASE t.type = "WHITESPACE"
    <3>1. PICK k \in 0..l : Kept(ts, k, pos)
      BY <1>4
    <3>. DEFINE e == IF k = 0 THEN start ELSE ts[k].to
    <3>2. e = IF k = 0 THEN start ELSE us[k].to
      BY <1>1, <3>1
    <3>3. /\ \A i \in k + 1..l : ts[i].type = "WHITESPACE"
          /\ k > 0 => ts[k].type # "WHITESPACE" /\ e - 1 \in Content(start) \ Plain(start, "sp")
          /\ e \in Nat /\ start <= e /\ e <= pos
          /\ \A j \in e..(pos - 1) : j \in Plain(start, "sp")
      BY <3>1 DEF Kept, l
    <3>. HIDE DEF e
    <3>4. \A i \in k + 1..l + 1 : us[i].type = "WHITESPACE"
      BY <1>1, <2>1, <3>1, <3>3
    <3>5. k > 0 => us[k].type # "WHITESPACE"
      BY <1>1, <3>1, <3>3
    <3>6. \A j \in e..(q - 1) : j \in Plain(start, "sp")
      BY <2>1, <3>3
    <3>7. e \in Nat /\ start <= e /\ e <= q
      BY <3>3
    <3>8. Kept(us, k, q)
      BY <1>1, <3>2, <3>3, <3>4, <3>5, <3>6, <3>7 DEF Kept
    <3>9. k \in 0..(l + 1)
      BY <1>1, <3>1
    <3>. QED
      BY <3>8, <3>9
  <2>2. CASE t.type # "WHITESPACE"
    <3>. DEFINE k == l + 1
    <3>1. k > 0 /\ k # 0 /\ us[k] = t /\ Len(us) = k /\ k \in Nat /\ k \in 0..k
      BY <1>1
    <3>. HIDE DEF k
    <3>2. \A i \in k + 1..Len(us) : us[i].type = "WHITESPACE"
      BY <3>1
    <3>3. \A j \in q..(q - 1) : j \in Plain(start, "sp")
      OBVIOUS
    <3>4. start <= q
      BY <1>2
    <3>5. Kept(us, k, q)
      BY <1>2, <2>2, <3>1, <3>2, <3>3, <3>4 DEF Kept
    <3>. QED
      BY <3>1, <3>5 DEF k
  <2>. QED
    BY <2>1, <2>2
<1>6. us[Len(us)].to = q /\ Len(us) > 0
  BY <1>1, <1>2
<1>7. Parted(us, n, q) /\ n # "eol"
  BY DEF us
<1>8. Gathered(us, n, q)
  BY <1>1, <1>3, <1>5, <1>6, <1>7 DEF Gathered
<1>. QED
  BY <1>8 DEF us

\* The white space after "**" at the end is no token.
LEMMA GatheredEol ==
  ASSUME InLine("any"), Type = "WHITESPACE", Extent.ok,
         NEW ts, Len(ts) \in Nat, Gathered(ts, "any", pos)
  PROVE  Gathered(ts, "eol", Extent.next)
<1>. DEFINE q == Extent.next
            l == ts[Len(ts)].to
<1>1. /\ ReadText /\ start \in LineStarts /\ start \in Nat /\ pos \in Nat /\ start <= pos
      /\ \A i \in Doubles(start) : i \in Nat /\ start <= i /\ text[i] = "*" /\ text[i + 1] = "*"
      /\ pos - 2 \in Doubles(start)
  BY InLineFacts DEF InLine, ReadTo
<1>2. /\ Between(start, q) /\ pos < q
      /\ \A k \in pos..(q - 1) : text[k] = "sp" /\ k \in Plain(start, "sp")
  BY SpacesRead, SpacesPlain
<1>3. q \in Nat
  BY <1>2 DEF Between
<1>. HIDE DEF q
<1>4. /\ Len(ts) > 0 /\ l = pos
      /\ ts[1].from = start /\ ts[1].column = 1 /\ ts[1].line = line
      /\ ts[1].type = "NEGATION" <=> Rune(start) = "!"
      /\ Parted(ts, "any", pos)
  BY DEF Gathered
<1>5. PICK k \in 0..Len(ts) : Kept(ts, k, pos)
  BY DEF Gathered
<1>6. Kept(ts, k, q)
  <2>. DEFINE e == IF k = 0 THEN start ELSE ts[k].to
  <2>1. /\ \A i \in k + 1..Len(ts) : ts[i].type = "WHITESPACE"
        /\ k > 0 => ts[k].type # "WHITESPACE" /\ e - 1 \in Content(start) \ Plain(start, "sp")
        /\ e \in Nat /\ start <= e /\ e <= pos
        /\ \A j \in e..(pos - 1) : j \in Plain(start, "sp")
    BY <1>5 DEF Kept
  <2>. HIDE DEF e
  <2>2. \A j \in e..(q - 1) : j \in Plain(start, "sp")
    BY <1>1, <1>2, <1>3, <2>1
  <2>3. e <= q
    BY <1>1, <1>2, <1>3, <2>1
  <2>. QED
    BY <2>1, <2>2, <2>3 DEF Kept, e
<1>7. Parted(ts, "eol", q)
  <2>. SUFFICES ASSUME NEW i \in Doubles(start), i + 1 < q
                PROVE  (i + 2 < q /\ text[i + 2] = "/") \/ i + 2 = l
    BY DEF Parted
  <2>1. i \in Nat /\ text[i + 1] = "*"
    BY <1>1
  <2>2. i + 1 \notin pos..(q - 1)
    BY <1>2, <2>1
  <2>3. i + 1 < pos
    BY <1>1, <1>3, <2>1, <2>2
  <2>4. (i + 2 < pos /\ text[i + 2] = "/") \/ i + 2 = l
    BY <1>4, <2>3 DEF Parted
  <2>. QED
    BY <1>1, <1>2, <1>3, <2>1, <2>4
<1>8. /\ l < q /\ l - 2 \in Doubles(start) /\ \A j \in l..(q - 1) : text[j] = "sp"
  BY <1>1, <1>2, <1>4
<1>9. Gathered(ts, "eol", q)
  BY <1>4, <1>5, <1>6, <1>7, <1>8 DEF Gathered
<1>. QED
  BY <1>9 DEF q

LEMMA MaxIs ==
  ASSUME NEW T, T \subseteq Int, NEW x \in T, \A m \in T : m <= x
  PROVE  Max(T) = x
<1>1. Max(T) \in T /\ \A m \in T : m <= Max(T)
  <2>. DEFINE y == CHOOSE y \in T : \A m \in T : m <= y
  <2>1. y \in T /\ \A m \in T : m <= y
    OBVIOUS
  <2>2. Max(T) = CHOOSE z \in T : \A m \in T : z >= m
    BY DEF Max
  <2>. QED
    BY <2>2
<1>. DEFINE z == Max(T)
<1>2. z \in Int /\ x \in Int /\ z <= x /\ x <= z
  BY <1>1
<1>. HIDE DEF z
<1>3. z = x
  BY <1>2
<1>. QED
  BY <1>3 DEF z

LEMMA MinIs ==
  ASSUME NEW T, T \subseteq Nat, NEW x \in T, \A m \in T : x <= m
  PROVE  Min(T) = x
<1>. DEFINE z == Min(T)
<1>1. z \in Nat /\ x \in Nat /\ z <= x /\ x <= z
  BY MinOf
<1>. HIDE DEF z
<1>2. z = x
  BY <1>1
<1>. QED
  BY <1>2 DEF z

\* A line with a rune that is no white space, or that an escape keeps, holds a rune
\* that is none.
LEMMA NotSpaces ==
  ASSUME ReadText, NEW s \in LineStarts, NEW j \in Content(s) \ Plain(s, "sp")
  PROVE  ~Spaces(s, s)
<1>. SUFFICES ASSUME Spaces(s, s) PROVE FALSE
  OBVIOUS
<1>1. /\ s \in Nat /\ Content(s) = s..(Stop(s) - 1) /\ Body(s) \subseteq Content(s)
      /\ \A i \in Content(s) : i \in Body(s) <=> ~(i = s /\ text[s] = "!")
  BY LineFacts, BodyFacts
<1>2. \A i \in Content(s) : i >= s /\ text[i] = "sp"
  BY <1>1, LineFacts DEF Spaces
<1>3. j \in Body(s) /\ j \in Escaped(s)
  BY <1>1, <1>2 DEF Plain
<1>4. j - 1 \in Content(s) /\ text[j - 1] = "esc"
  BY <1>1, <1>3, EscapedIs
<1>. QED
  BY <1>2, <1>4

\* Where the line ends, the tokens that are left make its pattern.
LEMMA TrimmedHolds ==
  ASSUME LexerInv, tokens \in Seq(Part), NEW m \in Midway \ {"sequence"}, ReadTo(m, pos),
         Gathered(tokens, m, pos), Stop(start) = pos
  PROVE  /\ Trimmed = <<>> <=> Silent(start)
         /\ Trimmed # <<>> => /\ Head(Trimmed).line = line /\ Head(Trimmed).column = 1
                              /\ Head(Trimmed).from = start
                              /\ Last(Trimmed).to = Ends(start)
<1>. DEFINE n == Len(tokens)
<1>1. /\ ReadText /\ start \in LineStarts /\ start \in Nat /\ pos \in Nat /\ start < pos
      /\ Rune(start) # "#"
  <2>1. /\ ReadText /\ start \in LineStarts /\ start \in Nat /\ pos \in Nat /\ start <= pos
    BY LineFacts DEF LexerInv
  <2>. QED
    BY <2>1 DEF ReadTo, Midway
<1>2. /\ Content(start) = start..(pos - 1) /\ Body(start) \subseteq Content(start)
      /\ \A i \in Content(start) : text[i] = Rune(i)
  BY <1>1, BodyFacts
<1>3. start \in Content(start) /\ text[start] = Rune(start)
  BY <1>1, <1>2
<1>4. ~Comment(start) /\ (Negated(start) <=> Rune(start) = "!")
  BY <1>1, <1>3 DEF Comment, Negated
<1>5. /\ n \in Nat /\ n > 0 /\ DOMAIN tokens = 1..n
      /\ tokens[1].from = start /\ tokens[1].column = 1 /\ tokens[1].line = line
      /\ tokens[1].type = "NEGATION" <=> Rune(start) = "!"
      /\ Parted(tokens, m, pos)
  BY LenProperties DEF Gathered
<1>6. PICK k \in 0..n : Kept(tokens, k, pos)
  BY DEF Gathered
<1>. DEFINE e == IF k = 0 THEN start ELSE tokens[k].to
<1>7. /\ \A i \in k + 1..n : tokens[i].type = "WHITESPACE"
      /\ k > 0 => tokens[k].type # "WHITESPACE" /\ e - 1 \in Content(start) \ Plain(start, "sp")
      /\ e \in Nat /\ start <= e /\ e <= pos
      /\ \A j \in e..(pos - 1) : j \in Plain(start, "sp")
  BY <1>6 DEF Kept
<1>8. k = 0 <=> Silent(start)
  <2>1. ASSUME k = 0 PROVE Spaces(start, start)
    <3>1. \A j \in Content(start) : j \in Plain(start, "sp")
      BY <1>2, <1>7, <2>1
    <3>. QED
      BY <3>1 DEF Spaces, Plain
  <2>2. ASSUME k # 0 PROVE ~Spaces(start, start)
    <3>1. k > 0
      BY <1>5, <1>6, <2>2
    <3>. HIDE DEF e
    <3>. QED
      BY <1>1, <1>7, <3>1, NotSpaces
  <2>. QED
    BY <1>4, <2>1, <2>2 DEF Silent
<1>9. CASE tokens[1].type # "NEGATION"
  <2>. DEFINE T == {0} \cup {i \in DOMAIN tokens : tokens[i].type # "WHITESPACE"}
  <2>1. Max(T) = k
    <3>1. T \subseteq Int /\ k \in Int
      BY <1>5, <1>6
    <3>2. k \in T
      BY <1>5, <1>6, <1>7
    <3>3. ASSUME NEW i \in T PROVE i <= k
      <4>1. i \notin k + 1..n /\ i \in 0..n
        BY <1>5, <1>7
      <4>. QED
        BY <1>5, <1>6, <4>1
    <3>. HIDE DEF T
    <3>. QED
      BY <3>1, <3>2, <3>3, MaxIs
  <2>2. Trimmed = SubSeq(tokens, 1, k)
    BY <1>9, <2>1 DEF Trimmed
  <2>. DEFINE ts == SubSeq(tokens, 1, k)
  <2>3. Len(ts) = k /\ (k > 0 => ts[1] = tokens[1] /\ ts[k] = tokens[k])
    <3>1. \A i \in 1..k : tokens[i] \in Part
      BY <1>5, <1>6, ElementOfSeq
    <3>. QED
      BY <1>5, <1>6, <3>1, SubSeqProperties
  <2>4. CASE k = 0
    BY <1>8, <2>2, <2>4
  <2>5. CASE k # 0
    <3>1. k > 0
      BY <1>5, <1>6, <2>5
    <3>. HIDE DEF ts
    <3>2. ts # <<>> /\ Head(ts) = tokens[1] /\ Last(ts) = tokens[k]
      BY <2>3, <3>1 DEF Last
    <3>3. Ends(start) = e
      <4>. DEFINE C == Content(start) \ Plain(start, "sp")
                  c == e - 1
      <4>1. c \in C /\ C \subseteq Int /\ 1 + c = e
        BY <1>2, <1>7, <3>1
      <4>2. ASSUME NEW j \in C PROVE j <= c
        <5>1. j \notin e..(pos - 1) /\ j \in start..(pos - 1)
          BY <1>2, <1>7
        <5>. QED
          BY <1>1, <1>7, <5>1
      <4>. HIDE DEF C, c
      <4>3. Max(C) = c
        BY <4>1, <4>2, MaxIs
      <4>4. ~Negated(start)
        BY <1>4, <1>5, <1>9
      <4>. QED
        BY <4>1, <4>3, <4>4 DEF Ends, C
    <3>. QED
      BY <1>5, <1>8, <2>2, <2>5, <3>2, <3>3 DEF ts
  <2>. QED
    BY <2>4, <2>5
<1>10. CASE tokens[1].type = "NEGATION"
  <2>. DEFINE l == tokens[n].to
              T == {Stop(start)} \cup {i + 2 : i \in {d \in Doubles(start) : Spaces(start, d + 2)}}
  <2>1. k # 0
    <3>. SUFFICES ASSUME k = 0 PROVE FALSE
      OBVIOUS
    <3>1. 1 \in k + 1..n
      BY <1>5
    <3>. QED
      BY <1>7, <1>10, <3>1
  <2>2. Trimmed = tokens /\ tokens # <<>>
    BY <1>5, <1>10 DEF Trimmed
  <2>3. ASSUME NEW d \in Doubles(start), Spaces(start, d + 2)
        PROVE  d \in Nat /\ d + 2 = l
    <3>1. d \in Content(start) /\ d + 1 \in Content(start)
      BY <1>2 DEF Doubles, Plain
    <3>2. d \in Nat /\ start <= d /\ d + 1 < pos
      BY <1>1, <1>2, <3>1
    <3>3. ~(d + 2 < pos /\ text[d + 2] = "/")
      <4>. SUFFICES ASSUME d + 2 < pos, text[d + 2] = "/" PROVE FALSE
        OBVIOUS
      <4>1. d + 2 \in Content(start) /\ d + 2 >= d + 2
        BY <1>1, <1>2, <3>2
      <4>. QED
        BY <2>3, <4>1 DEF Spaces
    <3>. QED
      BY <1>5, <3>2, <3>3 DEF Parted
  <2>4. l \in T /\ l <= pos /\ l \in Nat
    <3>1. CASE m # "eol"
      BY <1>1, <3>1 DEF Gathered
    <3>2. CASE m = "eol"
      <4>1. /\ l < pos /\ l - 2 \in Doubles(start)
            /\ \A j \in l..(pos - 1) : text[j] = "sp"
        BY <3>2 DEF Gathered
      <4>. HIDE DEF l
      <4>2. l - 2 \in Nat
        BY <1>1, <1>2, <4>1 DEF Doubles, Plain
      <4>3. l \in Int
        <5>1. l = tokens[n].to /\ tokens[n] \in Part
          BY <1>5, ElementOfSeq DEF l
        <5>. QED
          BY <5>1 DEF Part, Lexeme
      <4>4. Spaces(start, l)
        BY <1>2, <1>1, <4>1, <4>3 DEF Spaces
      <4>. DEFINE d == l - 2
      <4>5. d + 2 = l /\ d \in Doubles(start)
        BY <4>1, <4>3
      <4>. HIDE DEF d
      <4>6. d \in {c \in Doubles(start) : Spaces(start, c + 2)}
        BY <4>4, <4>5
      <4>7. l \in T
        BY <4>5, <4>6
      <4>8. l <= pos /\ l \in Nat
        BY <1>1, <4>1, <4>2, <4>3
      <4>. QED
        BY <4>7, <4>8
    <3>. QED
      BY <3>1, <3>2
  <2>5. T \subseteq Nat /\ \A t \in T : l <= t
    <3>1. \A t \in T : t = pos \/ t = l
      BY <2>3
    <3>. HIDE DEF T, l
    <3>2. \A t \in T : t \in Nat /\ l <= t
      BY <1>1, <2>4, <3>1
    <3>. QED
      BY <3>2
  <2>. HIDE DEF T
  <2>6. Min(T) = l
    BY <2>4, <2>5, MinIs
  <2>7. Ends(start) = l
    BY <1>4, <1>5, <1>10, <2>6 DEF Ends, T
  <2>8. Head(tokens) = tokens[1] /\ Last(tokens) = tokens[n]
    BY <2>2 DEF Last
  <2>. QED
    BY <1>5, <1>8, <2>1, <2>2, <2>7, <2>8
<1>. QED
  BY <1>9, <1>10

-----------------------------------------------------------------------------
(* The patterns collected                                                  *)

Holds(s) == [line |-> LineNumber(s), column |-> 1, from |-> s, to |-> Ends(s)]
Fine == {t \in LineStarts : ~Malformed(t) /\ ~Silent(t)}
Made == {Place(patterns[i]) : i \in DOMAIN patterns}

\* The line before the end of the text has been read to it.
Ended == mode \in {"top", "done"} /\ Rune(pos) = "eof"
Due == {t \in Fine : t < start \/ (t = start /\ Ended)}

\* What has been collected are the patterns of the lines that have been read, and the
\* tokens in hand are those of the line that is being read.
PatternsInv ==
  /\ mode \in Midway => Gathered(tokens, mode, pos)
  /\ mode \notin Midway => tokens = <<>>
  /\ Made = {Holds(t) : t \in Due}
  /\ \A i, j \in DOMAIN patterns : i < j => patterns[i].line < patterns[j].line
  /\ mode = "done" => Rune(pos) = "eof"

LEMMA PatternsStay ==
  ASSUME UNCHANGED <<text, tail>>
  PROVE  /\ Fine' = Fine
         /\ \A s : Holds(s)' = Holds(s) /\ (Silent(s)' <=> Silent(s))
         /\ start' = start /\ line' = line => \A ts, m, p : Gathered(ts, m, p) => Gathered(ts, m, p)'
<1>1. \A s : Silent(s)' <=> Silent(s)
  BY ContentStays DEF Silent
<1>2. \A s : Ends(s)' = Ends(s)
  BY ContentStays DEF Ends
<1>3. Fine' = Fine
  BY <1>1, ContentStays DEF Fine
<1>4. \A s : Holds(s)' = Holds(s)
  BY <1>2, ContentStays DEF Holds
<1>5. ASSUME start' = start, line' = line, NEW ts, NEW m, NEW p
      PROVE  Gathered(ts, m, p) => Gathered(ts, m, p)'
  <2>1. \A k : Kept(ts, k, p)' <=> Kept(ts, k, p)
    BY <1>5, ContentStays DEF Kept
  <2>2. Parted(ts, m, p)' <=> Parted(ts, m, p)
    BY <1>5, ContentStays DEF Parted
  <2>. QED
    BY <1>5, <2>1, <2>2, ContentStays DEF Gathered
<1>. QED
  BY <1>1, <1>3, <1>4, <1>5

\* A line that begins at the end of the text holds nothing.
LEMMA EmptyIsSilent ==
  ASSUME ReadText, NEW s \in LineStarts, Rune(s) \in {"eof", "nl"} \/ (Rune(s) = "cr" /\ Rune(s + 1) = "nl")
  PROVE  Silent(s)
<1>1. s \in Nat /\ s <= Len(text) + 1 /\ Clean(s, s)
  BY LineFacts DEF Clean
<1>2. Stop(s) = s
  BY <1>1, RuneAfter
<1>3. Content(s) = {}
  BY <1>1, <1>2 DEF Content
<1>. QED
  BY <1>3 DEF Silent, Spaces

LEMMA CommentIsSilent ==
  ASSUME LexerInv, CommentTo(pos) \/ (Type = "COMMENT" /\ pos = start)
  PROVE  Silent(start)
<1>1. /\ ReadText /\ start \in LineStarts /\ start \in Nat /\ 1 <= start /\ start <= Len(text) + 1
      /\ Rune(start) = "#" /\ Len(text) \in Nat
  BY LineFacts, TextFacts, TypeIs DEF LexerInv, CommentTo
<1>2. start <= Len(text) /\ Clean(start, start)
  BY <1>1, TextFacts DEF ReadText, Clean
<1>3. start \in Content(start)
  BY <1>1, <1>2, RuneAfter
<1>4. Comment(start)
  BY <1>1, <1>3, BodyFacts DEF Comment
<1>. QED
  BY <1>4 DEF Silent

\* Later lines have higher numbers.
LEMMA NumbersRise ==
  ASSUME ReadText, NEW s \in LineStarts, NEW t \in LineStarts, s < t
  PROVE  LineNumber(s) < LineNumber(t)
<1>. DEFINE A == {i \in Newlines : i < s}
            B == {i \in Newlines : i < t}
<1>1. /\ s \in Nat /\ t \in Nat /\ 1 <= s /\ Len(text) \in Nat /\ Newlines \subseteq 1..Len(text)
  BY LineFacts, TextFacts
<1>2. IsFiniteSet(B)
  <2>1. IsFiniteSet(1..Len(text))
    BY <1>1, FS_Interval
  <2>2. B \subseteq 1..Len(text)
    BY <1>1
  <2>. QED
    BY <2>1, <2>2, FS_Subset
<1>3. A \subseteq B
  <2>. SUFFICES ASSUME NEW i \in Newlines, i < s PROVE i < t
    OBVIOUS
  <2>1. i \in Nat
    BY <1>1
  <2>. QED
    BY <1>1, <2>1
<1>4. PICK i \in Newlines : t = i + 1
  BY <1>1 DEF LineStarts
<1>5. i \in B /\ i \notin A
  BY <1>1, <1>4
<1>. HIDE DEF A, B
<1>6. Cardinality(A) \in Nat /\ Cardinality(B) \in Nat /\ Cardinality(A) <= Cardinality(B)
      /\ Cardinality(A) # Cardinality(B)
  BY <1>2, <1>3, <1>5, FS_Subset, FS_CardinalityType
<1>7. LineNumber(s) = 1 + Cardinality(A) /\ LineNumber(t) = 1 + Cardinality(B)
  BY DEF LineNumber, A, B
<1>. QED
  BY <1>6, <1>7

LEMMA DueStays ==
  ASSUME LexerInv, Advance, UNCHANGED <<text, tail>>,
         start \notin Fine \/ (start' = start /\ (Ended' <=> Ended))
  PROVE  Due' = Due
<1>1. Fine' = Fine
  BY PatternsStay
<1>2. \A t \in Fine : t \in LineStarts /\ t \in Nat /\ ~Silent(t)
  BY LineFacts DEF LexerInv, Fine
<1>3. ReadText /\ pos \in Nat /\ start \in Nat /\ start <= pos
  BY LineFacts DEF LexerInv
<1>4. CASE start' = start
  BY <1>1, <1>4 DEF Due
<1>5. CASE start' # start
  <2>. DEFINE n == Extent.next
  <2>1. undone = <<>> /\ Type = "EOL" /\ Extent.ok /\ start' = n /\ pos' = n
    BY <1>5 DEF Advance, lexer
  <2>2. n \in LineStarts /\ (\A t \in LineStarts : t < n => t <= start) /\ pos < n /\ n \in Nat
    BY <2>1, NextLine, ExtentTakes
  <2>. HIDE DEF n
  <2>3. Ended' => n \notin Fine
    <3>. SUFFICES ASSUME Ended' PROVE n \notin Fine
      OBVIOUS
    <3>1. Rune(n) = "eof"
      BY <2>1 DEF Ended, Rune
    <3>. QED
      BY <1>2, <1>3, <2>2, <3>1, EmptyIsSilent
  <2>4. start \notin Fine
    BY <1>5
  <2>5. ASSUME NEW t \in Fine
        PROVE  (t < n \/ (t = n /\ Ended')) <=> (t < start \/ (t = start /\ Ended))
    BY <1>2, <1>3, <2>2, <2>3, <2>4
  <2>. QED
    BY <1>1, <2>1, <2>5 DEF Due
<1>. QED
  BY <1>4, <1>5

\* Where a line ends, it is the last of those that have been read.
LEMMA DueOn ==
  ASSUME LexerInv, undone = <<>>, Type \in LineEnd, Extent.ok, Advance, UNCHANGED <<text, tail>>,
         mode' \in {"top", "done"}
  PROVE  Due' = {t \in Fine : t <= start}
<1>1. Fine' = Fine
  BY PatternsStay
<1>2. \A t \in Fine : t \in LineStarts /\ t \in Nat /\ ~Silent(t)
  BY LineFacts DEF LexerInv, Fine
<1>3. ReadText /\ pos \in Nat /\ start \in Nat /\ start <= pos
  BY LineFacts DEF LexerInv
<1>4. CASE Type = "EOF"
  <2>1. start' = start /\ pos' = pos /\ Rune(pos) = "eof"
    BY <1>4, TypeIs, GoodFacts DEF Advance
  <2>2. Ended'
    BY <2>1 DEF Ended, Rune
  <2>3. \A t \in Fine : (t < start \/ t = start) <=> t <= start
    BY <1>2, <1>3
  <2>. QED
    BY <1>1, <2>1, <2>2, <2>3 DEF Due
<1>5. CASE Type = "EOL"
  <2>. DEFINE n == Extent.next
  <2>1. start' = n /\ pos' = n
    BY <1>5 DEF Advance
  <2>2. n \in LineStarts /\ (\A t \in LineStarts : t < n => t <= start) /\ pos < n /\ n \in Nat
    BY <1>5, NextLine, ExtentTakes
  <2>. HIDE DEF n
  <2>3. Ended' => n \notin Fine
    <3>. SUFFICES ASSUME Ended' PROVE n \notin Fine
      OBVIOUS
    <3>1. Rune(n) = "eof"
      BY <2>1 DEF Ended, Rune
    <3>. QED
      BY <1>2, <1>3, <2>2, <3>1, EmptyIsSilent
  <2>4. ASSUME NEW t \in Fine
        PROVE  (t < n \/ (t = n /\ Ended')) <=> t <= start
    BY <1>2, <1>3, <2>2, <2>3
  <2>. QED
    BY <1>1, <2>1, <2>4 DEF Due
<1>. QED
  BY <1>4, <1>5 DEF LineEnd

LEMMA MadeStays ==
  ASSUME PatternsInv, UNCHANGED <<text, tail, patterns>>, Due' = Due
  PROVE  /\ Made' = {Holds(t) : t \in Due}'
         /\ (\A i, j \in DOMAIN patterns : i < j => patterns[i].line < patterns[j].line)'
<1>1. Made' = Made
  BY DEF Made, Place
<1>2. \A t : Holds(t)' = Holds(t)
  BY PatternsStay
<1>. QED
  BY <1>1, <1>2 DEF PatternsInv

\* A step that makes no pattern, in a line that holds none or before its end.
LEMMA NothingMade ==
  ASSUME ParserInv, PatternsInv, Advance, UNCHANGED <<text, tail, patterns>>,
         tokens' = <<>>, mode' \notin Midway, mode' = "done" => Rune(pos') = "eof",
         start \notin Fine \/ (start' = start /\ (Ended' <=> Ended))
  PROVE  PatternsInv'
<1>1. Due' = Due
  BY DueStays DEF ParserInv
<1>2. mode' = "done" => Rune(pos)' = "eof"
  BY DEF Rune
<1>. QED
  BY <1>1, <1>2, MadeStays DEF PatternsInv, Midway

\* A token more of the pattern in hand.
LEMMA WithinPattern ==
  ASSUME ParserInv, PatternsInv, undone = <<>>, ~Failed, Taken, UNCHANGED <<text, tail, patterns>>,
         Type \notin LineEnd, mode \in Midway \cup {"top"},
         mode' \in Midway, Gathered(tokens', mode', Extent.next)
  PROVE  PatternsInv'
<1>1. Advance /\ LexerInv
  BY NewToken DEF ParserInv
<1>2. pos' = Extent.next /\ start' = start /\ line' = line
  BY <1>1 DEF Advance, LineEnd
<1>3. ~Ended /\ ~Ended'
  <2>1. Rune(pos) # "eof"
    BY DEF Type, LineEnd
  <2>. QED
    BY <2>1 DEF Ended, Midway
<1>4. Due' = Due
  BY <1>1, <1>2, <1>3, DueStays
<1>5. Gathered(tokens, mode, pos)'
  <2>. DEFINE ts == tokens'
              m == mode'
              p == Extent.next
  <2>1. Gathered(ts, m, p)
    OBVIOUS
  <2>2. \A us, l, q : Gathered(us, l, q) => Gathered(us, l, q)'
    BY <1>2, PatternsStay
  <2>. HIDE DEF p
  <2>3. pos' = p
    BY <1>2 DEF p
  <2>. QED
    BY <2>1, <2>2, <2>3
<1>. QED
  BY <1>4, <1>5, MadeStays DEF PatternsInv, Midway

LEMMA LexedWhere ==
  ASSUME LexerInv
  PROVE  Lexed.from = pos /\ Lexed.to = Extent.next /\ Lexed.line = line /\ Lexed.column = pos - start + 1
<1>. DEFINE q == Extent.next
            c == pos - start + 1
            t == Type
<1>. HIDE DEF q, c, t
<1>1. Lexed = [type |-> t, from |-> pos, to |-> q, line |-> line, column |-> c]
  BY DEF Lexed, q, c, t
<1>2. Lexed.from = pos /\ Lexed.to = q /\ Lexed.line = line /\ Lexed.column = c
  BY <1>1
<1>. QED
  BY <1>2 DEF q, c

LEMMA ExtendPattern ==
  ASSUME ParserInv, LinesInv, PatternsInv, undone = <<>>, ~Failed, Extend, UNCHANGED <<text, tail>>,
         mode \in Midway \cup {"top"}, ReadTo(mode, pos), mode # "eol",
         Type \in {"SEPARATOR", "ANY", "WHITESPACE", "PATTERN"},
         mode = "any" => Type = "SEPARATOR", mode = "pattern" => Type # "ANY"
  PROVE  PatternsInv'
<1>. DEFINE q == Extent.next
            n == mode'
            m == mode
<1>1. LexerInv /\ Extent.ok /\ Token = Lexed /\ Token.type = Type /\ Taken /\ UNCHANGED patterns
      /\ tokens' = Append(tokens, Token) /\ tokens \in Seq(Part)
  BY NewToken DEF ParserInv, Extend
<1>2. InLine(m) /\ Rune(start) # "#"
  BY <1>1, InLineIs DEF LineEnd
<1>3. /\ ReadText /\ start \in LineStarts /\ start \in Nat /\ pos \in Nat /\ start <= pos
      /\ Between(start, pos)
  BY <1>2, InLineFacts DEF InLine
<1>4. q \in Nat /\ pos < q
  BY <1>1, ExtentTakes
<1>5. n = CASE Type = "SEPARATOR" -> "separator"
            [] Type = "ANY" -> "any"
            [] Type \in {"WHITESPACE", "PATTERN"} -> "pattern"
  BY <1>1 DEF Extend
<1>6. n \in Midway \ {"eol"} /\ (Type = "ANY" => n = "any")
  BY <1>5 DEF Midway
<1>. DEFINE t == Token
            ts == tokens
<1>7. /\ t \in Part /\ t.from = pos /\ t.to = q /\ t.line = line /\ t.column = pos - start + 1
      /\ t.type = Type
  <2>1. t \in Part
    BY <1>1, TokenIs DEF Part, PatternTypes
  <2>. QED
    BY <1>1, <2>1, LexedWhere
<1>8. \/ /\ ts = <<>> /\ pos = start
         /\ t.from = start /\ t.column = 1 /\ t.line = line
         /\ t.type = "NEGATION" <=> Rune(start) = "!"
      \/ \E l \in Midway \ {"eol"} : Gathered(ts, l, pos)
  <2>1. CASE m = "top"
    <3>1. pos = start /\ tokens = <<>>
      BY <1>2, <2>1 DEF ReadTo, PatternsInv, Midway
    <3>2. Rune(start) # "!"
      BY <1>3, <3>1 DEF Between
    <3>3. t.column = 1
      BY <1>3, <1>7, <3>1
    <3>. QED
      BY <1>7, <3>1, <3>2, <3>3
  <2>2. CASE m # "top"
    BY <2>2 DEF PatternsInv
  <2>. QED
    BY <2>1, <2>2
<1>9. IF t.type = "WHITESPACE" THEN \A j \in pos..(q - 1) : j \in Plain(start, "sp")
      ELSE q - 1 \in Content(start) \ Plain(start, "sp")
  BY <1>1, <1>2, <1>7, SpacesPlain, TokenEnds
<1>10. Parted(Append(ts, t), n, q)
  <2>. SUFFICES ASSUME NEW i \in Doubles(start), i + 1 < q
                PROVE  \/ i + 2 < q /\ text[i + 2] = "/"
                       \/ n \in {"any", "eol"} /\ i + 2 = Append(ts, t)[Len(Append(ts, t))].to
    BY DEF Parted
  <2>1. \/ i + 2 < q /\ text[i + 2] = "/"
        \/ Type = "ANY" /\ i + 2 = q
    <3>1. m # "top" => Gathered(ts, m, pos)
      BY DEF PatternsInv
    <3>2. m # "eol" /\ (m = "any" => Type = "SEPARATOR") /\ (m = "pattern" => Type # "ANY")
      OBVIOUS
    <3>. HIDE DEF m, ts
    <3>. QED
      BY <1>1, <1>2, <3>1, <3>2, PartedOn
  <2>2. Append(ts, t)[Len(Append(ts, t))] = t
    BY <1>1, <1>7, AppendProperties
  <2>. QED
    BY <1>6, <1>7, <2>1, <2>2
<1>. HIDE DEF q, n, t, ts
<1>11. ts \in Seq(Part)
  BY <1>1 DEF ts
<1>12. Gathered(Append(ts, t), n, q)
  BY <1>3, <1>4, <1>6, <1>7, <1>8, <1>9, <1>10, <1>11, GatheredOn
<1>13. mode' \in Midway /\ Gathered(tokens', mode', Extent.next)
  BY <1>1, <1>6, <1>12 DEF q, n, t, ts
<1>. QED
  BY <1>1, <1>13, WithinPattern DEF LineEnd

LEMMA NegationPattern ==
  ASSUME ParserInv, PatternsInv, undone = <<>>, ~Failed, Taken, UNCHANGED <<text, tail, patterns>>,
         mode = "top", Type = "NEGATION", tokens' = <<Token>>, mode' = "sequence"
  PROVE  PatternsInv'
<1>. DEFINE q == Extent.next
            t == Token
<1>1. LexerInv /\ Extent.ok /\ Token = Lexed /\ Token.type = Type
  BY NewToken DEF ParserInv
<1>2. /\ ReadText /\ start \in LineStarts /\ start \in Nat /\ 1 <= start /\ start <= Len(text) + 1
      /\ pos = start /\ Rune(start) = "!" /\ q = start + 1
  BY <1>1, LineFacts, TypeIs, GoodFacts DEF LexerInv
<1>3. /\ t \in Part /\ t.from = start /\ t.to = q /\ t.line = line /\ t.column = 1
      /\ t.type = "NEGATION"
  <2>1. t \in Part
    BY <1>1, TokenIs DEF Part, PatternTypes
  <2>2. Lexed.column = 1
    BY <1>1, <1>2, LexedWhere
  <2>. QED
    BY <1>1, <1>2, <2>1, <2>2, LexedWhere
<1>4. start \in Content(start) /\ start \notin Body(start)
  <2>1. start <= Len(text) /\ Clean(start, start)
    BY <1>2, TextFacts DEF ReadText, Clean
  <2>2. start \in Content(start)
    BY <1>2, <2>1, RuneAfter
  <2>. QED
    BY <1>2, <2>2, BodyFacts
<1>5. q - 1 \in Content(start) \ Plain(start, "sp")
  BY <1>2, <1>4 DEF Plain
<1>6. Parted(Append(<<>>, t), "sequence", q)
  <2>. SUFFICES ASSUME NEW i \in Doubles(start), i + 1 < q PROVE FALSE
    BY DEF Parted
  <2>1. i \in Body(start)
    BY DEF Doubles, Plain
  <2>2. i \in Nat /\ start <= i
    BY <1>2, <2>1, BodyFacts, LineFacts
  <2>. QED
    BY <1>2, <1>4, <2>1, <2>2
<1>. DEFINE ts == <<>>
            n == "sequence"
<1>. HIDE DEF q, t
<1>7. ts \in Seq(Part) /\ n \in Midway \ {"eol"} /\ q \in Nat /\ pos \in Nat /\ start <= pos /\ pos < q
  BY <1>2 DEF Midway
<1>8. /\ ts = <<>> /\ pos = start
      /\ t.from = start /\ t.column = 1 /\ t.line = line
      /\ t.type = "NEGATION" <=> Rune(start) = "!"
  BY <1>2, <1>3
<1>9. IF t.type = "WHITESPACE" THEN \A j \in pos..(q - 1) : j \in Plain(start, "sp")
      ELSE q - 1 \in Content(start) \ Plain(start, "sp")
  BY <1>3, <1>5
<1>10. Append(ts, t) = <<t>>
  OBVIOUS
<1>. HIDE DEF ts, n
<1>11. Parted(Append(ts, t), n, q)
  BY <1>6 DEF ts, n
<1>12. Gathered(Append(ts, t), n, q)
  BY <1>2, <1>3, <1>7, <1>8, <1>9, <1>11, GatheredOn
<1>13. mode' \in Midway /\ Gathered(tokens', mode', Extent.next)
  BY <1>10, <1>12 DEF q, t, n, Midway
<1>. QED
  BY <1>13, WithinPattern DEF LineEnd

LEMMA EolPattern ==
  ASSUME ParserInv, LinesInv, PatternsInv, undone = <<>>, ~Failed, Taken, UNCHANGED <<text, tail, tokens, patterns>>,
         mode = "any", Type = "WHITESPACE", mode' = "eol"
  PROVE  PatternsInv'
<1>1. LexerInv /\ Extent.ok /\ ReadTo("any", pos) /\ "any" \in Midway
  BY NewToken DEF ParserInv, LinesInv, Midway
<1>2. InLine("any")
  BY <1>1, InLineIs DEF LineEnd
<1>3. Len(tokens) \in Nat /\ Gathered(tokens, "any", pos)
  BY <1>1, LenProperties DEF ParserInv, PatternsInv
<1>4. Gathered(tokens, "eol", Extent.next)
  BY <1>1, <1>2, <1>3, GatheredEol
<1>5. mode' \in Midway /\ Gathered(tokens', mode', Extent.next)
  BY <1>4 DEF Midway
<1>. QED
  BY <1>1, <1>5, WithinPattern DEF LineEnd

LEMMA NumbersAre ==
  ASSUME ReadText, NEW s
  PROVE  LineNumber(s) \in Nat
<1>. DEFINE A == {i \in Newlines : i < s}
<1>1. Len(text) \in Nat /\ Newlines \subseteq 1..Len(text)
  BY TextFacts
<1>2. IsFiniteSet(A)
  <2>1. IsFiniteSet(1..Len(text))
    BY <1>1, FS_Interval
  <2>2. A \subseteq 1..Len(text)
    BY <1>1
  <2>. QED
    BY <2>1, <2>2, FS_Subset
<1>3. Cardinality(A) \in Nat
  BY <1>2, FS_CardinalityType
<1>4. LineNumber(s) = 1 + Cardinality(A)
  BY DEF LineNumber
<1>. HIDE DEF A
<1>. QED
  BY <1>3, <1>4

\* The pattern of a line is made at its end, after those of the lines before.
LEMMA EmitPattern ==
  ASSUME ParserInv, LinesInv, PatternsInv, undone = <<>>, Extent.ok, Advance, Emit,
         UNCHANGED <<text, tail>>, mode \in Midway \ {"sequence"}, Type \in LineEnd
  PROVE  PatternsInv'
<1>. DEFINE m == mode
<1>1. /\ LexerInv /\ ReadText /\ start \in LineStarts /\ start \in Nat
      /\ tokens \in Seq(Part) /\ ReadTo(m, pos) /\ line = LineNumber(start)
      /\ Gathered(tokens, m, pos)
  BY LineFacts DEF ParserInv, LinesInv, Settled, PatternsInv, LexerInv
<1>2. Stop(start) = pos
  <2>1. pos <= Len(text) + 1 /\ Clean(start, pos)
    BY <1>1 DEF ReadTo
  <2>. QED
    BY <1>1, <2>1, EndRead
<1>3. ~Malformed(start)
  BY <1>1, GoodLine
<1>4. /\ Trimmed = <<>> <=> Silent(start)
      /\ Trimmed # <<>> => /\ Head(Trimmed).line = line /\ Head(Trimmed).column = 1
                           /\ Head(Trimmed).from = start
                           /\ Last(Trimmed).to = Ends(start)
  BY <1>1, <1>2, TrimmedHolds
<1>5. start \in Fine <=> Trimmed # <<>>
  BY <1>1, <1>3, <1>4 DEF Fine
<1>6. mode' = "top" /\ tokens' = <<>>
  BY DEF Emit
<1>7. Due' = {t \in Fine : t <= start}
  BY <1>1, <1>6, DueOn
<1>8. Due = {t \in Fine : t < start}
  BY DEF Due, Ended, Midway
<1>9. \A t \in Fine : t \in LineStarts /\ t \in Nat
  BY <1>1, LineFacts DEF Fine
<1>10. CASE Trimmed = <<>>
  <2>1. patterns' = patterns
    BY <1>10 DEF Emit
  <2>2. Due' = Due
    <3>1. \A t \in Fine : t <= start <=> t < start
      BY <1>1, <1>5, <1>9, <1>10
    <3>. QED
      BY <1>7, <1>8, <3>1
  <2>. QED
    BY <1>6, <2>1, <2>2, MadeStays DEF PatternsInv, Midway
<1>11. CASE Trimmed # <<>>
  <2>. DEFINE p == [line |-> Head(Trimmed).line, column |-> Head(Trimmed).column,
                    from |-> Head(Trimmed).from, to |-> Last(Trimmed).to, tokens |-> Trimmed]
  <2>1. patterns' = Append(patterns, p)
    BY <1>11 DEF Emit
  <2>. HIDE DEF Trimmed, Last
  <2>2. p.line = line /\ p.column = 1 /\ p.from = start /\ p.to = Ends(start)
    BY <1>4, <1>11
  <2>. HIDE DEF p
  <2>3. Place(p) = Holds(start)
    BY <1>1, <2>2 DEF Place, Holds
  <2>. DEFINE l == Len(patterns)
  <2>4. /\ l \in Nat /\ DOMAIN patterns = 1..l /\ DOMAIN patterns' = 1..(l + 1)
        /\ patterns'[l + 1] = p /\ \A i \in 1..l : patterns'[i] = patterns[i]
    <3>1. patterns \in Seq(Built)
      BY DEF ParserInv
    <3>2. /\ l \in Nat /\ DOMAIN patterns = 1..l
      BY <3>1, LenProperties
    <3>. QED
      BY <2>1, <3>1, <3>2
  <2>. HIDE DEF l
  <2>5. Made' = Made \cup {Place(p)}
    <3>. DEFINE ps == patterns'
    <3>1. Made' = {Place(ps[i]) : i \in DOMAIN ps}
      BY DEF Made, Place
    <3>2. DOMAIN ps = (1..l) \cup {l + 1}
      BY <2>4
    <3>3. ps[l + 1] = p /\ \A i \in 1..l : ps[i] = patterns[i]
      BY <2>4
    <3>. HIDE DEF ps
    <3>4. \A x : x \in Made' <=> x \in Made \cup {Place(p)}
      BY <2>4, <3>1, <3>2, <3>3 DEF Made
    <3>. QED
      BY <3>4
  <2>6. Due' = Due \cup {start}
    <3>1. \A t \in Fine : t <= start <=> (t < start \/ t = start)
      BY <1>1, <1>9
    <3>. QED
      BY <1>5, <1>7, <1>8, <1>11, <3>1
  <2>7. Made' = {Holds(t) : t \in Due}'
    <3>1. \A t : Holds(t)' = Holds(t)
      BY PatternsStay
    <3>2. Made = {Holds(t) : t \in Due}
      BY DEF PatternsInv
    <3>. QED
      BY <2>3, <2>5, <2>6, <3>1, <3>2
  <2>8. ASSUME NEW i \in 1..l PROVE patterns[i].line < p.line
    <3>1. Place(patterns[i]) \in Made
      BY <2>4 DEF Made
    <3>2. PICK t \in Due : Place(patterns[i]) = Holds(t)
      BY <3>1 DEF PatternsInv
    <3>3. Place(patterns[i]).line = patterns[i].line /\ Holds(t).line = LineNumber(t)
      BY DEF Place, Holds
    <3>4. t \in LineStarts /\ t < start
      BY <1>8, <1>9
    <3>. QED
      BY <1>1, <2>2, <3>2, <3>3, <3>4, NumbersRise
  <2>9. (\A i, j \in DOMAIN patterns : i < j => patterns[i].line < patterns[j].line)'
    <3>1. \A i, j \in 1..l : i < j => patterns[i].line < patterns[j].line
      BY <2>4 DEF PatternsInv
    <3>. SUFFICES ASSUME NEW i \in 1..(l + 1), NEW j \in 1..(l + 1), i < j
                  PROVE  patterns'[i].line < patterns'[j].line
      BY <2>4
    <3>2. i \in 1..l
      BY <2>4
    <3>3. CASE j \in 1..l
      BY <2>4, <3>1, <3>2, <3>3
    <3>4. CASE j = l + 1
      BY <2>4, <2>8, <3>2, <3>4
    <3>. QED
      BY <2>4, <3>3, <3>4
  <2>. QED
    BY <1>6, <2>7, <2>9 DEF PatternsInv, Midway
<1>. QED
  BY <1>10, <1>11

LEMMA PatternsStep == ParserInv /\ LinesInv /\ PatternsInv /\ Parse => PatternsInv'
<1>. SUFFICES ASSUME ParserInv, LinesInv, PatternsInv, Parse PROVE PatternsInv'
  OBVIOUS
<1>1. LexerInv /\ UNCHANGED <<text, tail>>
  BY DEF ParserInv, Parse, Top, AfterNegation, AfterSeparator, AfterAny, AfterPattern, LineEnds, Skip
<1>2. Malformed(start) => start \notin Fine
  BY DEF Fine
<1>3. ASSUME ReadError, mode \in Midway \cup {"top", "skip"} PROVE PatternsInv'
  <2>1. start \notin Fine
    BY <1>2, <1>3, ReadErrorBad
  <2>2. Advance /\ tokens' = <<>> /\ mode' \in {"skip", "refused"} /\ UNCHANGED patterns
    BY <1>3 DEF ReadError, Taken, Report
  <2>. QED
    BY <1>1, <2>1, <2>2, NothingMade DEF Midway
\* In the midst of a line the token is a new one, and no comment or negation.
<1>4. ASSUME mode \in Midway, ~Failed
      PROVE  /\ undone = <<>> /\ Token.type = Type /\ Extent.ok /\ ReadTo(mode, pos)
             /\ Type \in {"SEPARATOR", "ANY", "WHITESPACE", "PATTERN"} \cup LineEnd
  <2>1. undone = <<>> /\ start < pos /\ ReadTo(mode, pos)
    BY <1>4 DEF ParserInv, LinesInv, Midway
  <2>2. Type \notin {"NEGATION", "COMMENT"}
    <3>1. pos # start
      BY <1>1, <2>1, LineFacts DEF LexerInv
    <3>. QED
      BY <3>1, TypeIs
  <2>. QED
    BY <1>1, <1>4, <2>1, <2>2, NewToken, ExtentTakes DEF LineEnd
<1>5. ASSUME mode \in Midway, ~Failed, Extend, mode # "eol", Token.type \notin LineEnd,
             mode = "any" => Token.type = "SEPARATOR", mode = "pattern" => Token.type # "ANY"
      PROVE  PatternsInv'
  BY <1>1, <1>4, <1>5, ExtendPattern
<1>6. ASSUME mode \in Midway \ {"sequence"}, ~Failed, Token.type \in LineEnd, Emit,
             Taken \/ PutBack
      PROVE  PatternsInv'
  <2>1. undone = <<>> /\ Type \in LineEnd /\ Extent.ok
    BY <1>4, <1>6
  <2>2. Advance
    BY <1>6, <2>1, NewToken
  <2>. QED
    BY <1>1, <1>6, <2>1, <2>2, EmitPattern
<1>7. ASSUME mode \in Midway, ~Failed, Reject,
             \/ mode = "sequence" /\ Token.type \in LineEnd
             \/ mode = "any" /\ Token.type \notin LineEnd \cup {"SEPARATOR", "WHITESPACE"}
             \/ mode = "pattern" /\ Token.type \notin LineEnd \cup {"SEPARATOR", "WHITESPACE", "PATTERN"}
             \/ mode = "eol" /\ Token.type \notin LineEnd
      PROVE  PatternsInv'
  <2>1. Token.type = Type /\ Extent.ok /\ ReadTo(mode, pos)
    BY <1>4, <1>7
  <2>2. Malformed(start)
    BY <1>1, <1>7, <2>1, BadLine
  <2>3. Advance /\ tokens' = <<>> /\ mode' \in {"skip", "refused"} /\ UNCHANGED patterns
    BY <1>7 DEF Reject, PutBack, Report
  <2>. QED
    BY <1>1, <1>2, <2>2, <2>3, NothingMade DEF Midway
<1>8. CASE Top
  <2>1. CASE mode = "top" /\ ReadError
    BY <1>3, <2>1
  <2>2. CASE mode = "top" /\ ~Failed /\ undone # <<>>
    <3>1. Token.type \in LineEnd /\ Token.type = undone[1].type
      BY <2>2, TokenIs DEF ParserInv
    <3>2. /\ Advance /\ UNCHANGED <<tokens, patterns>> /\ mode' = IF Token.type = "EOF" THEN "done" ELSE "top"
      BY <1>8, <2>2, <3>1 DEF Top, ReadError, LineEnd, Taken
    <3>3. pos' = pos /\ start' = start
      BY <2>2, <3>2 DEF Advance, lexer
    <3>4. mode' = "done" => Rune(pos) = "eof"
      BY <2>2, <3>1, <3>2 DEF LinesInv
    <3>5. Rune(pos)' = Rune(pos)
      BY <1>1, <3>3 DEF Rune
    <3>6. Ended' <=> Ended
      BY <2>2, <3>2, <3>5 DEF Ended
    <3>7. tokens' = <<>> /\ mode' \notin Midway
      BY <2>2, <3>2 DEF PatternsInv, Midway
    <3>. QED
      BY <1>1, <3>2, <3>3, <3>4, <3>6, <3>7, NothingMade
  <2>3. CASE mode = "top" /\ ~Failed /\ undone = <<>>
    <3>1. Token.type = Type /\ Extent.ok /\ tokens = <<>>
      BY <2>3, NewToken DEF PatternsInv, Midway
    <3>2. CASE Type = "EOF"
      <4>1. Taken /\ UNCHANGED <<tokens, patterns>> /\ mode' = "done"
        BY <1>8, <2>3, <3>1, <3>2 DEF Top, ReadError, LineEnd
      <4>2. Advance /\ pos' = pos /\ start' = start /\ Rune(pos) = "eof"
        BY <2>3, <3>2, <4>1, NewToken, TypeIs, GoodFacts DEF Advance
      <4>3. Rune(pos)' = Rune(pos)
        BY <1>1, <4>2 DEF Rune
      <4>4. Ended' <=> Ended
        BY <2>3, <4>1, <4>2, <4>3 DEF Ended
      <4>. QED
        BY <1>1, <3>1, <4>1, <4>2, <4>4, NothingMade DEF Midway
    <3>3. CASE Type = "EOL"
      <4>1. Taken /\ UNCHANGED <<tokens, patterns>> /\ mode' = "top"
        BY <1>8, <2>3, <3>1, <3>3 DEF Top, ReadError, LineEnd
      <4>2. Advance
        BY <4>1 DEF Taken
      <4>3. Silent(start)
        <5>1. CASE pos = start
          <6>1. /\ ReadText /\ start \in LineStarts /\ start \in Nat /\ Rune(start) \in {"cr", "nl"}
                /\ Eol(start).ok
            BY <1>1, <3>1, <3>3, <5>1, TypeIs, LineFacts DEF LexerInv
          <6>2. Rune(start) = "nl" \/ Rune(start + 1) = "nl"
            BY <6>1 DEF Eol, Bad
          <6>. QED
            BY <6>1, <6>2, EmptyIsSilent
        <5>2. CASE CommentTo(pos)
          BY <1>1, <5>2, CommentIsSilent
        <5>3. Rune(pos) # "eof"
          BY <3>3, TypeIs
        <5>. QED
          BY <2>3, <5>1, <5>2, <5>3 DEF LinesInv
      <4>4. start \notin Fine
        BY <4>3 DEF Fine
      <4>. QED
        BY <1>1, <3>1, <4>1, <4>2, <4>4, NothingMade DEF Midway
    <3>4. CASE Type = "COMMENT"
      <4>1. Taken /\ UNCHANGED <<tokens, patterns>> /\ mode' = "top"
        BY <1>8, <2>3, <3>1, <3>4 DEF Top, ReadError
      <4>2. Advance
        BY <4>1 DEF Taken
      <4>3. Silent(start)
        BY <1>1, <3>4, TypeIs, CommentIsSilent
      <4>4. start \notin Fine
        BY <4>3 DEF Fine
      <4>. QED
        BY <1>1, <3>1, <4>1, <4>2, <4>4, NothingMade DEF Midway
    <3>5. CASE Type = "NEGATION"
      <4>1. Taken /\ UNCHANGED patterns /\ tokens' = <<Token>> /\ mode' = "sequence"
        BY <1>8, <2>3, <3>1, <3>5 DEF Top, ReadError, Extend
      <4>. QED
        BY <1>1, <2>3, <3>5, <4>1, NegationPattern
    <3>6. CASE Type \notin LineEnd \cup {"COMMENT", "NEGATION"}
      <4>1. Extend /\ Type \in {"SEPARATOR", "ANY", "WHITESPACE", "PATTERN"}
        BY <1>1, <1>8, <2>3, <3>1, <3>6, ExtentTakes DEF Top, ReadError, LineEnd
      <4>2. pos = start
        <5>1. ~CommentTo(pos) /\ Rune(pos) # "eof"
          BY <3>6 DEF CommentTo, Type, LineEnd
        <5>. QED
          BY <2>3, <5>1 DEF LinesInv
      <4>3. ReadTo(mode, pos)
        BY <1>1, <2>3, <4>2, LineBegins
      <4>. QED
        BY <1>1, <2>3, <4>1, <4>3, ExtendPattern
    <3>. QED
      BY <3>2, <3>3, <3>4, <3>5, <3>6 DEF LineEnd
  <2>. QED
    BY <1>8, <2>1, <2>2, <2>3 DEF Top, ReadError
<1>9. CASE AfterNegation
  BY <1>3, <1>5, <1>7, <1>9 DEF AfterNegation, Midway
<1>10. CASE AfterSeparator
  BY <1>3, <1>5, <1>6, <1>10 DEF AfterSeparator, Midway
<1>11. CASE AfterAny
  <2>1. CASE /\ mode = "any" /\ ~Failed /\ Token.type = "WHITESPACE" /\ Taken
             /\ mode' = "eol" /\ UNCHANGED <<tokens, patterns>>
    <3>1. undone = <<>> /\ Type = "WHITESPACE"
      BY <1>4, <2>1 DEF Midway
    <3>. QED
      BY <1>1, <2>1, <3>1, EolPattern
  <2>2. CASE mode = "any" /\ ~Failed /\ Token.type = "SEPARATOR" /\ Extend
    BY <1>5, <2>2 DEF LineEnd, Midway
  <2>. QED
    BY <1>3, <1>6, <1>7, <1>11, <2>1, <2>2 DEF AfterAny, Midway
<1>12. CASE AfterPattern
  <2>1. CASE /\ mode = "pattern" /\ ~Failed /\ Extend
             /\ Token.type \in {"SEPARATOR", "WHITESPACE", "PATTERN"}
    BY <1>5, <2>1 DEF LineEnd, Midway
  <2>. QED
    BY <1>3, <1>6, <1>7, <1>12, <2>1 DEF AfterPattern, Midway
<1>13. CASE LineEnds
  BY <1>3, <1>6, <1>7, <1>13 DEF LineEnds, Midway
<1>14. CASE Skip
  <2>1. CASE mode = "skip" /\ ReadError
    BY <1>3, <2>1
  <2>2. CASE /\ mode = "skip" /\ ~Failed /\ Taken /\ UNCHANGED <<tokens, patterns>>
             /\ mode' = IF Token.type \in LineEnd THEN "top" ELSE "skip"
    <3>1. Advance /\ tokens' = <<>> /\ mode' \notin Midway /\ mode' # "done"
      BY <2>2 DEF Taken, PatternsInv, Midway
    <3>2. CASE Malformed(start)
      BY <1>1, <1>2, <2>2, <3>1, <3>2, NothingMade
    <3>3. CASE undone # <<>> /\ undone[1].type = "EOL"
      <4>1. pos = start /\ pos' = pos /\ start' = start
        BY <3>1, <3>3 DEF LinesInv, Advance, lexer
      <4>2. ~Ended
        BY <2>2 DEF Ended
      <4>3. Rune(pos)' = Rune(pos)
        BY <1>1, <4>1 DEF Rune
      <4>4. ASSUME Ended' PROVE start \notin Fine
        <5>1. ReadText /\ start \in LineStarts /\ Rune(start) = "eof"
          BY <1>1, <4>1, <4>3, <4>4 DEF Ended, LexerInv
        <5>2. Silent(start)
          BY <5>1, EmptyIsSilent
        <5>. QED
          BY <5>2 DEF Fine
      <4>. QED
        BY <1>1, <2>2, <3>1, <4>1, <4>2, <4>4, NothingMade
    <3>. QED
      BY <2>2, <3>2, <3>3 DEF LinesInv
  <2>. QED
    BY <1>14, <2>1, <2>2 DEF Skip, Skipped
<1>. QED
  BY <1>8, <1>9, <1>10, <1>11, <1>12, <1>13, <1>14 DEF Parse

LEMMA PatternsStutter == ParserInv /\ PatternsInv /\ UNCHANGED vars => PatternsInv'
<1>. SUFFICES ASSUME ParserInv, PatternsInv, UNCHANGED vars PROVE PatternsInv'
  OBVIOUS
<1>1. /\ UNCHANGED <<text, tail>> /\ pos' = pos /\ line' = line /\ start' = start
      /\ mode' = mode /\ tokens' = tokens /\ patterns' = patterns
  BY DEF vars, lexer
<1>2. Rune(pos)' = Rune(pos) /\ Fine' = Fine
  BY <1>1, PatternsStay DEF Rune
<1>3. Due' = Due
  BY <1>1, <1>2 DEF Due, Ended
<1>4. Gathered(tokens, mode, pos) => Gathered(tokens, mode, pos)'
  BY <1>1, PatternsStay
<1>. QED
  BY <1>1, <1>2, <1>3, <1>4, MadeStays DEF PatternsInv

LEMMA PatternsInit == Init => PatternsInv
<1>. SUFFICES ASSUME Init PROVE PatternsInv
  OBVIOUS
<1>1. /\ ReadText /\ pos = 1 /\ start = 1 /\ mode = "top" /\ tokens = <<>> /\ patterns = <<>>
  BY ParserAssumption DEF Init, ReadText
<1>2. 1 \in LineStarts /\ \A t \in LineStarts : ~(t < 1)
  BY <1>1, LineFacts DEF LineStarts
<1>3. Ended => 1 \notin Fine
  BY <1>1, <1>2, EmptyIsSilent DEF Ended, Fine
<1>4. Due = {}
  BY <1>1, <1>2, <1>3 DEF Due, Fine
<1>5. Made = {}
  BY <1>1 DEF Made
<1>. QED
  BY <1>1, <1>4, <1>5 DEF PatternsInv, Midway

LEMMA PatternsFollow == ParserInv /\ PatternsInv => PatternsFollowLines
<1>. SUFFICES ASSUME ParserInv, PatternsInv PROVE PatternsFollowLines
  OBVIOUS
<1>1. LexerInv /\ ReadText /\ start \in Nat
  BY LineFacts DEF ParserInv, LexerInv
<1>2. \A t \in Fine : t \in LineStarts /\ t \in Nat /\ LineNumber(t) \in Nat
  BY <1>1, LineFacts, NumbersAre DEF Fine
<1>3. {Place(p) : p \in ToSet(patterns)} = Made
  BY DEF Made, ToSet
<1>4. Expected = {Holds(t) : t \in Fine}
  BY DEF Expected, Holds, Fine
<1>5. \A t : Holds(t).line = LineNumber(t)
  BY DEF Holds
<1>6. \A p : Place(p).line = p.line
  BY DEF Place
<1>7. Made = {Holds(t) : t \in Due} /\ Due \subseteq Fine
  BY DEF PatternsInv, Due
<1>8. ASSUME NEW t \in Due
      PROVE  \E i \in DOMAIN patterns : patterns[i].line = LineNumber(t)
  <2>1. PICK i \in DOMAIN patterns : Place(patterns[i]) = Holds(t)
    BY <1>7 DEF Made
  <2>. QED
    BY <1>5, <1>6, <2>1
<1>9. ASSUME NEW i \in DOMAIN patterns
      PROVE  \E t \in Due : patterns[i].line = LineNumber(t)
  <2>1. Place(patterns[i]) \in Made
    BY DEF Made
  <2>2. PICK t \in Due : Place(patterns[i]) = Holds(t)
    BY <1>7, <2>1
  <2>. QED
    BY <1>5, <1>6, <2>2
<1>10. ASSUME NEW t \in Fine,
              mode = "done" \/ \E i \in DOMAIN patterns : LineNumber(t) <= patterns[i].line
       PROVE  t \in Due
  <2>1. CASE mode = "done"
    <3>1. Rune(pos) = "eof" /\ Ended
      BY <2>1 DEF PatternsInv, Ended
    <3>2. t <= start
      BY <1>1, <1>2, <3>1, LastLine
    <3>. QED
      BY <1>1, <1>2, <3>1, <3>2 DEF Due
  <2>2. CASE \E i \in DOMAIN patterns : LineNumber(t) <= patterns[i].line
    <3>1. PICK u \in Due : LineNumber(t) <= LineNumber(u)
      BY <1>9, <2>2
    <3>2. u \in Fine /\ u \in LineStarts /\ u \in Nat /\ LineNumber(u) \in Nat
      BY <1>2, <1>7
    <3>3. ~(u < t)
      BY <1>1, <1>2, <3>1, <3>2, NumbersRise
    <3>4. u <= start /\ t <= u
      BY <1>1, <1>2, <3>2, <3>3 DEF Due
    <3>. QED
      BY <1>1, <1>2, <3>2, <3>4 DEF Due
  <2>. QED
    BY <1>10, <2>1, <2>2
<1>11. Made = {p \in Expected : mode = "done" \/ \E i \in DOMAIN patterns : p.line <= patterns[i].line}
  <2>1. ASSUME NEW p \in Made
        PROVE  p \in Expected /\ \E i \in DOMAIN patterns : p.line <= patterns[i].line
    <3>1. PICK t \in Due : p = Holds(t)
      BY <1>7
    <3>2. PICK i \in DOMAIN patterns : patterns[i].line = LineNumber(t)
      BY <1>8
    <3>3. LineNumber(t) <= patterns[i].line
      BY <1>2, <1>7, <3>2
    <3>. QED
      BY <1>4, <1>5, <1>7, <3>1, <3>3
  <2>2. ASSUME NEW p \in Expected,
               mode = "done" \/ \E i \in DOMAIN patterns : p.line <= patterns[i].line
        PROVE  p \in Made
    <3>1. PICK t \in Fine : p = Holds(t)
      BY <1>4
    <3>2. p.line = LineNumber(t)
      BY <1>5, <3>1
    <3>3. t \in Due
      BY <1>10, <2>2, <3>2
    <3>. QED
      BY <1>7, <3>1, <3>3
  <2>. QED
    BY <2>1, <2>2
<1>. QED
  BY <1>3, <1>11 DEF PatternsFollowLines, PatternsInv

\* What is collected is the patterns of the lines that parse, each with its place, in
\* their order and with none left out between them: neither the recovery from a bad
\* line nor a token put back loses a pattern or makes one up.
THEOREM PatternsCorrect == Spec => []PatternsFollowLines
<1>1. /\ ParserInv /\ LinesInv /\ PatternsInv /\ [Next]_vars
      => ParserInv' /\ LinesInv' /\ PatternsInv'
  BY ParseStep, ParserStutter, LinesStep, LinesStutter, PatternsStep, PatternsStutter DEF Next, Returned
<1>2. Init => ParserInv /\ LinesInv /\ PatternsInv
  BY ParserInit, LinesInit, PatternsInit
<1>. QED
  BY <1>1, <1>2, PatternsFollow, PTL DEF Spec

-----------------------------------------------------------------------------
(* The tokens of a pattern                                                 *)

\* What a token says of the runes it stands for in the line from s.
Placed(s, t) ==
  /\ t.from \in Nat /\ t.to \in Nat /\ t.from < t.to /\ t.type \in PatternTypes
  /\ t.type = "NEGATION" <=> t.from = s /\ Negated(s)
  /\ t.type = "NEGATION" => t.to = s + 1
  /\ t.type # "NEGATION" => \A k \in t.from..(t.to - 1) : k \in Body(s)
  /\ t.type = "SEPARATOR" => t.to = t.from + 1 /\ t.from \in Plain(s, "/")
  /\ t.type = "ANY" => t.to = t.from + 2 /\ t.from \in Doubles(s)
  /\ t.type = "WHITESPACE" => \A k \in t.from..(t.to - 1) : k \in Plain(s, "sp")
  /\ t.type = "PATTERN" => PatternRunes(s, t.from, t.to)

\* The tokens stand side by side from the beginning of the line, no two patterns in a
\* row.
Laid(ts, s) ==
  /\ Len(ts) > 0 /\ ts[1].from = s
  /\ \A i \in 1..Len(ts) : Placed(s, ts[i])
  /\ \A i \in 1..(Len(ts) - 1) :
       ts[i + 1].from = ts[i].to /\ (ts[i].type = "PATTERN" => ts[i + 1].type # "PATTERN")

\* A pattern ends where another token begins.
Parts(ts, p) ==
  ts[Len(ts)].type = "PATTERN" =>
    Rune(p) \in {"sp", "cr", "nl", "/", "eof"} \/ (Rune(p) = "*" /\ Rune(p + 1) = "*")

\* A collected pattern holds the tokens of its line.
Collected(p) == p.from \in LineStarts /\ Laid(p.tokens, p.from) /\ p.tokens[Len(p.tokens)].to = p.to

TokensInv ==
  /\ mode \in Midway => Laid(tokens, start) /\ (mode # "eol" => Parts(tokens, pos))
  /\ \A i \in DOMAIN patterns : Collected(patterns[i])

LEMMA PatternParts ==
  ASSUME ReadText
  PROVE  \A i \in 1..Len(text) + 2 :
           LET q == Pattern[i].next
           IN Pattern[i].ok => Rune(q) \in {"sp", "cr", "nl", "/", "eof"} \/ (Rune(q) = "*" /\ Rune(q + 1) = "*")
<1>. DEFINE n == Len(text) + 2
            Stops(e) == e.ok => \/ Rune(e.next) \in {"sp", "cr", "nl", "/", "eof"}
                                \/ Rune(e.next) = "*" /\ Rune(e.next + 1) = "*"
            X == {i \in 1..n : ~Stops(Pattern[i])}
            T == {n - i : i \in X}
<1>1. n \in Nat
  BY TextFacts
<1>2. SUFFICES ASSUME X # {} PROVE FALSE
  OBVIOUS
<1>3. T \subseteq Nat /\ T # {}
  <2>1. \A i \in X : n - i \in Nat
    BY <1>1
  <2>. QED
    BY <1>2, <2>1
<1>4. PICK i \in X : \A m \in T : n - i <= m
  BY <1>3, LeastNatural
<1>5. ~Halts(i)
  <2>. SUFFICES ASSUME Halts(i) PROVE FALSE
    OBVIOUS
  <2>1. Pattern[i] = Halted(i)
    BY <1>4, PatternUnfolds
  <2>2. Stops(Halted(i))
    <3>1. CASE Rune(i) = "fault" \/ (Rune(i) \in {"*", "esc"} /\ Rune(i + 1) = "fault")
      BY <3>1 DEF Halted, Bad
    <3>2. CASE ~(Rune(i) = "fault" \/ (Rune(i) \in {"*", "esc"} /\ Rune(i + 1) = "fault"))
      <4>1. Halted(i).next = i
        BY <3>2, GoodFacts DEF Halted
      <4>. QED
        BY <3>2, <4>1 DEF Halts
    <3>. QED
      BY <3>1, <3>2
  <2>. QED
    BY <1>4, <2>1, <2>2
<1>. DEFINE k == i + Stride(i)
<1>6. Pattern[i] = Pattern[k]
  BY <1>4, <1>5, PatternUnfolds
<1>7. k \in 1..n /\ Stride(i) \in {1, 2}
  BY <1>4, <1>5, PatternGoesOn DEF Stride
<1>8. k \in X
  BY <1>4, <1>6, <1>7
<1>9. n - k \in T
  BY <1>8
<1>10. n - i <= n - k
  BY <1>4, <1>9
<1>. QED
  BY <1>1, <1>4, <1>7, <1>10

LEMMA TokensStay ==
  ASSUME UNCHANGED <<text, tail>>
  PROVE  /\ \A s, ts : Laid(ts, s) => Laid(ts, s)'
         /\ \A p, ts : Parts(ts, p) => Parts(ts, p)'
         /\ \A p : Collected(p) => Collected(p)'
<1>1. \A s, i, j : PatternRunes(s, i, j)' <=> PatternRunes(s, i, j)
  BY ContentStays DEF PatternRunes
<1>2. \A s, t : Placed(s, t)' <=> Placed(s, t)
  BY <1>1, ContentStays DEF Placed
<1>3. \A s, ts : Laid(ts, s)' <=> Laid(ts, s)
  BY <1>2 DEF Laid
<1>4. \A p, ts : Parts(ts, p)' <=> Parts(ts, p)
  BY ContentStays DEF Parts
<1>5. \A p : Collected(p)' <=> Collected(p)
  BY <1>3, ContentStays DEF Collected
<1>. QED
  BY <1>3, <1>4, <1>5

\* A token more.
LEMMA LaidOn ==
  ASSUME NEW s, NEW ts \in Seq(Part), NEW t \in Part, Placed(s, t),
         IF ts = <<>> THEN t.from = s
         ELSE Laid(ts, s) /\ t.from = ts[Len(ts)].to /\ (ts[Len(ts)].type = "PATTERN" => t.type # "PATTERN")
  PROVE  Laid(Append(ts, t), s)
<1>. DEFINE us == Append(ts, t)
            l == Len(ts)
<1>1. /\ l \in Nat /\ Len(us) = l + 1 /\ us[l + 1] = t
      /\ \A i \in 1..l : us[i] = ts[i]
  BY AppendProperties, LenProperties
<1>2. ts = <<>> <=> l = 0
  BY EmptySeq
<1>. HIDE DEF us
<1>3. us[1].from = s
  <2>1. CASE l = 0
    BY <1>1, <1>2, <2>1
  <2>2. CASE l # 0
    <3>1. us[1] = ts[1]
      BY <1>1, <2>2
    <3>. QED
      BY <1>2, <2>2, <3>1 DEF Laid
  <2>. QED
    BY <2>1, <2>2
<1>4. \A i \in 1..Len(us) : Placed(s, us[i])
  <2>1. \A i \in 1..l : Placed(s, us[i])
    <3>1. l # 0 => \A i \in 1..l : Placed(s, ts[i])
      BY <1>2 DEF Laid
    <3>. QED
      BY <1>1, <3>1
  <2>2. Placed(s, us[l + 1])
    BY <1>1
  <2>. QED
    BY <1>1, <2>1, <2>2
<1>5. ASSUME NEW i \in 1..(Len(us) - 1)
      PROVE  us[i + 1].from = us[i].to /\ (us[i].type = "PATTERN" => us[i + 1].type # "PATTERN")
  <2>1. i \in 1..l /\ l # 0 /\ us[i] = ts[i]
    BY <1>1
  <2>2. CASE i = l
    BY <1>1, <1>2, <2>1, <2>2
  <2>3. CASE i # l
    <3>1. i \in 1..(Len(ts) - 1) /\ i + 1 \in 1..l
      BY <1>1, <2>1, <2>3
    <3>2. us[i + 1] = ts[i + 1]
      BY <1>1, <3>1
    <3>. QED
      BY <1>2, <2>1, <3>1, <3>2 DEF Laid
  <2>. QED
    BY <2>2, <2>3
<1>. QED
  BY <1>1, <1>3, <1>4, <1>5 DEF Laid, us

\* The first of the tokens.
LEMMA LaidBegins ==
  ASSUME NEW s, NEW ts, Len(ts) \in Nat, Laid(ts, s), NEW n \in 1..Len(ts),
         NEW us, Len(us) = n, \A i \in 1..n : us[i] = ts[i]
  PROVE  Laid(us, s)
<1>1. \A i \in 1..(Len(us) - 1) : us[i] = ts[i] /\ us[i + 1] = ts[i + 1] /\ i \in 1..(Len(ts) - 1)
  OBVIOUS
<1>2. us[1] = ts[1]
  OBVIOUS
<1>3. \A i \in 1..Len(us) : us[i] = ts[i] /\ i \in 1..Len(ts)
  OBVIOUS
<1>. QED
  BY <1>1, <1>2, <1>3, SMTT(60) DEF Laid

LEMMA LexedPlaced ==
  ASSUME NEW m, InLine(m), Rune(start) # "#", m # "eol", Extent.ok,
         m = "any" => Type = "SEPARATOR", m = "pattern" => Type # "ANY",
         Type \in {"SEPARATOR", "ANY", "WHITESPACE", "PATTERN"},
         NEW t \in Part, t.from = pos, t.to = Extent.next, t.type = Type
  PROVE  Placed(start, t)
<1>. DEFINE q == Extent.next
<1>1. /\ ReadText /\ start \in LineStarts /\ start \in Nat /\ pos \in Nat /\ start <= pos
      /\ Len(text) \in Nat /\ Between(start, pos) /\ LexerInv
      /\ Body(start) \subseteq Content(start)
  BY InLineFacts, BodyFacts DEF InLine
<1>2. q \in Nat /\ pos < q
  BY <1>1, ExtentTakes
<1>3. ~(t.from = start /\ Negated(start)) /\ t.type # "NEGATION"
  <2>. SUFFICES ASSUME pos = start, Negated(start) PROVE FALSE
    OBVIOUS
  <2>1. start \in Content(start) /\ text[start] = "!"
    BY DEF Negated
  <2>2. Rune(start) = "!"
    BY <1>1, <2>1, BodyFacts
  <2>. QED
    BY <1>1, <2>2 DEF Between
<1>4. (ReadTo("separator", q) /\ q = pos + 1) \/ Type # "SEPARATOR"
  BY <1>1, TokenRead, TypeIs, GoodFacts
<1>5. (ReadTo("any", q) /\ q = pos + 2) \/ Type # "ANY"
  BY <1>1, TokenRead, TypeIs, GoodFacts
<1>6. Type = "SEPARATOR" => pos \in Plain(start, "/") /\ q = pos + 1
  <2>1. ASSUME Type = "SEPARATOR" PROVE q - 1 = pos /\ q - 1 \in Plain(start, "/")
    <3>1. ReadTo("separator", q) /\ q = pos + 1
      BY <1>4, <2>1
    <3>2. q - 1 \in Plain(start, "/")
      BY <3>1 DEF ReadTo
    <3>. HIDE DEF q
    <3>. QED
      BY <1>1, <3>1, <3>2
  <2>. HIDE DEF q
  <2>. QED
    BY <1>4, <2>1
<1>7. Type = "ANY" => pos \in Doubles(start) /\ q = pos + 2
  <2>1. ASSUME Type = "ANY" PROVE q - 2 = pos /\ q - 2 \in Doubles(start)
    <3>1. ReadTo("any", q) /\ q = pos + 2
      BY <1>5, <2>1
    <3>2. q - 2 \in Doubles(start)
      BY <3>1 DEF ReadTo
    <3>. HIDE DEF q
    <3>. QED
      BY <1>1, <3>1, <3>2
  <2>. HIDE DEF q
  <2>. QED
    BY <1>5, <2>1
<1>8. Type = "WHITESPACE" => \A k \in pos..(q - 1) : k \in Plain(start, "sp")
  BY SpacesPlain
<1>9. Type = "PATTERN" => PatternRunes(start, pos, q)
  <2>. SUFFICES ASSUME Type = "PATTERN" PROVE PatternRunes(start, pos, q)
    OBVIOUS
  <2>1. Extent = Pattern[pos]
    BY TypeIs
  <2>. QED
    BY <1>1, <2>1, PatternIsRead DEF PatternReads
<1>. HIDE DEF q
<1>10. \A k \in pos..(q - 1) : k \in Body(start)
  <2>. SUFFICES ASSUME NEW k \in pos..(q - 1) PROVE k \in Body(start)
    OBVIOUS
  <2>1. CASE Type = "SEPARATOR"
    <3>1. k = pos
      BY <1>1, <1>6, <2>1
    <3>. QED
      BY <1>6, <2>1, <3>1 DEF Plain
  <2>2. CASE Type = "ANY"
    <3>1. k = pos \/ k = pos + 1
      BY <1>1, <1>7, <2>2
    <3>. QED
      BY <1>7, <2>2, <3>1 DEF Doubles, Plain
  <2>3. CASE Type = "WHITESPACE"
    BY <1>8, <2>3 DEF Plain
  <2>4. CASE Type = "PATTERN"
    BY <1>9, <2>4 DEF PatternRunes
  <2>. QED
    BY <2>1, <2>2, <2>3, <2>4
<1>11. t.to = q
  BY DEF q
<1>12. t.type \in PatternTypes
  BY DEF PatternTypes
<1>. QED
  BY <1>1, <1>2, <1>3, <1>6, <1>7, <1>8, <1>9, <1>10, <1>11, <1>12 DEF Placed

LEMMA CollectedStay ==
  ASSUME UNCHANGED <<text, tail, patterns>>, \A i \in DOMAIN patterns : Collected(patterns[i])
  PROVE  (\A i \in DOMAIN patterns : Collected(patterns[i]))'
<1>1. \A p : Collected(p) => Collected(p)'
  BY TokensStay
<1>. QED
  BY <1>1

LEMMA ExtendTokens ==
  ASSUME ParserInv, LinesInv, PatternsInv, TokensInv, undone = <<>>, ~Failed, Extend, UNCHANGED <<text, tail>>,
         mode \in Midway \cup {"top"}, ReadTo(mode, pos), mode # "eol",
         Type \in {"SEPARATOR", "ANY", "WHITESPACE", "PATTERN"},
         mode = "any" => Type = "SEPARATOR", mode = "pattern" => Type # "ANY"
  PROVE  TokensInv'
<1>. DEFINE q == Extent.next
            t == Token
            ts == tokens
            us == tokens'
            m == mode
<1>1. LexerInv /\ Extent.ok /\ t = Lexed /\ t.type = Type /\ Taken /\ UNCHANGED patterns
      /\ us = Append(ts, t) /\ ts \in Seq(Part)
  BY NewToken DEF ParserInv, Extend
<1>2. InLine(m) /\ Rune(start) # "#"
  BY <1>1, InLineIs DEF LineEnd
<1>3. /\ ReadText /\ start \in LineStarts /\ start \in Nat /\ pos \in Nat /\ start <= pos
      /\ pos \in 1..Len(text) + 2
  <2>1. /\ ReadText /\ start \in LineStarts /\ start \in Nat /\ pos \in Nat /\ start <= pos
        /\ pos <= Len(text) + 1 /\ Len(text) \in Nat
    BY <1>2, InLineFacts
  <2>2. 1 <= start
    BY <2>1, LineFacts
  <2>. QED
    BY <2>1, <2>2
<1>4. t \in Part /\ t.from = pos /\ t.to = q /\ t.type = Type
  <2>1. t \in Part
    BY <1>1, TokenIs DEF Part, PatternTypes
  <2>. QED
    BY <1>1, <2>1, LexedWhere
<1>5. Placed(start, t)
  <2>1. m # "eol" /\ (m = "any" => Type = "SEPARATOR") /\ (m = "pattern" => Type # "ANY")
    OBVIOUS
  <2>. HIDE DEF m, t
  <2>. QED
    BY <1>1, <1>2, <1>4, <2>1, LexedPlaced
<1>6. IF ts = <<>> THEN t.from = start
      ELSE Laid(ts, start) /\ t.from = ts[Len(ts)].to /\ (ts[Len(ts)].type = "PATTERN" => t.type # "PATTERN")
  <2>1. CASE m = "top"
    <3>1. pos = start /\ ts = <<>>
      BY <1>2, <2>1 DEF ReadTo, PatternsInv, Midway
    <3>. QED
      BY <1>4, <3>1
  <2>2. CASE m # "top"
    <3>1. Laid(ts, start) /\ Parts(ts, pos) /\ Gathered(ts, m, pos)
      BY <2>2 DEF TokensInv, PatternsInv
    <3>2. ts # <<>> /\ ts[Len(ts)].to = pos
      BY <3>1 DEF Gathered
    <3>3. ts[Len(ts)].type = "PATTERN" => Type # "PATTERN"
      BY <3>1, TypeIs DEF Parts
    <3>. QED
      BY <1>4, <3>1, <3>2, <3>3
  <2>. QED
    BY <2>1, <2>2
<1>7. mode' \in Midway \ {"eol"}
  BY <1>1 DEF Extend, Midway
<1>. HIDE DEF t, ts
<1>8. Laid(Append(ts, t), start)
  BY <1>1, <1>4, <1>5, <1>6, LaidOn
<1>9. Parts(Append(ts, t), q)
  <2>1. Append(ts, t)[Len(Append(ts, t))] = t
    BY <1>1, <1>4, AppendProperties
  <2>2. Type = "PATTERN" => Rune(q) \in {"sp", "cr", "nl", "/", "eof"} \/ (Rune(q) = "*" /\ Rune(q + 1) = "*")
    <3>. SUFFICES ASSUME Type = "PATTERN"
                  PROVE Rune(q) \in {"sp", "cr", "nl", "/", "eof"} \/ (Rune(q) = "*" /\ Rune(q + 1) = "*")
      OBVIOUS
    <3>1. Extent = Pattern[pos]
      BY TypeIs
    <3>. QED
      BY <1>1, <1>3, <3>1, PatternParts
  <2>. QED
    BY <1>4, <2>1, <2>2 DEF Parts
<1>10. pos' = q /\ start' = start
  <2>1. Advance
    BY <1>1, NewToken
  <2>. QED
    BY <2>1 DEF Advance
<1>. HIDE DEF q
<1>11. Laid(tokens, start)' /\ Parts(tokens, pos)'
  <2>1. Laid(us, start) /\ Parts(us, q)
    BY <1>1, <1>8, <1>9
  <2>2. (\A s, vs : Laid(vs, s) => Laid(vs, s)') /\ (\A p, vs : Parts(vs, p) => Parts(vs, p)')
    BY TokensStay
  <2>. QED
    BY <1>10, <2>1, <2>2
<1>12. (\A i \in DOMAIN patterns : Collected(patterns[i]))'
  BY <1>1, CollectedStay DEF TokensInv
<1>. QED
  BY <1>7, <1>10, <1>11, <1>12 DEF TokensInv

LEMMA EmitTokens ==
  ASSUME ParserInv, LinesInv, PatternsInv, TokensInv, undone = <<>>, Emit, UNCHANGED <<text, tail>>,
         mode \in Midway
  PROVE  TokensInv'
<1>. DEFINE ts == Trimmed
            p == [line |-> Head(Trimmed).line, column |-> Head(Trimmed).column,
                  from |-> Head(Trimmed).from, to |-> Last(Trimmed).to, tokens |-> Trimmed]
<1>1. tokens \in Seq(Part) /\ patterns \in Seq(Built) /\ Laid(tokens, start) /\ start \in LineStarts
  BY DEF ParserInv, LexerInv, TokensInv
<1>2. tokens # <<>> /\ Len(tokens) \in Nat /\ DOMAIN tokens = 1..Len(tokens)
  BY <1>1, LenProperties DEF Laid
<1>3. mode' = "top"
  BY DEF Emit
<1>4. CASE ts = <<>>
  <2>1. patterns' = patterns
    BY <1>4 DEF Emit
  <2>2. (\A i \in DOMAIN patterns : Collected(patterns[i]))'
    BY <2>1, CollectedStay DEF TokensInv
  <2>. QED
    BY <1>3, <2>2 DEF TokensInv, Midway
<1>5. CASE ts # <<>>
  <2>1. patterns' = Append(patterns, p)
    BY <1>5 DEF Emit
  <2>2. ts \in Seq(Part) /\ Len(ts) \in Nat \ {0}
    BY <1>1, <1>2, <1>5, TrimmedIs, EmptySeq, LenProperties
  <2>3. Len(ts) <= Len(tokens) /\ \A i \in 1..Len(ts) : ts[i] = tokens[i]
    <3>1. CASE tokens[1].type = "NEGATION"
      <4>1. ts = tokens
        BY <3>1 DEF Trimmed
      <4>. QED
        BY <1>2, <4>1
    <3>2. CASE tokens[1].type # "NEGATION"
      <4>. DEFINE T == {0} \cup {i \in DOMAIN tokens : tokens[i].type # "WHITESPACE"}
      <4>1. T \subseteq 0..Len(tokens) /\ T # {}
        BY <1>2
      <4>2. Max(T) \in 0..Len(tokens)
        BY <1>2, <4>1, MaxOf
      <4>3. ts = SubSeq(tokens, 1, Max(T))
        BY <3>2 DEF Trimmed
      <4>. HIDE DEF T, ts
      <4>. DEFINE n == Max(T)
      <4>. HIDE DEF n
      <4>4. n \in 0..Len(tokens) /\ ts = SubSeq(tokens, 1, n)
        BY <4>2, <4>3 DEF n
      <4>. QED
        BY <1>1, <1>2, <4>4
    <3>. QED
      BY <3>1, <3>2
  <2>. HIDE DEF ts
  <2>4. Laid(ts, start)
    <3>. DEFINE n == Len(ts)
    <3>1. n \in 1..Len(tokens)
      BY <1>2, <2>2, <2>3
    <3>. QED
      BY <1>1, <1>2, <2>3, <3>1, LaidBegins
  <2>5. Collected(p)
    <3>1. p.from = Head(ts).from /\ p.to = Last(ts).to /\ p.tokens = ts
      <4>. HIDE DEF Last, Trimmed
      <4>. QED
        BY DEF ts
    <3>2. Head(ts) = ts[1]
      BY <2>2
    <3>3. Last(ts) = ts[Len(ts)]
      BY DEF Last
    <3>4. ts[1].from = start
      BY <2>4 DEF Laid
    <3>. HIDE DEF p
    <3>. QED
      BY <1>1, <2>4, <3>1, <3>2, <3>3, <3>4 DEF Collected
  <2>6. (\A i \in DOMAIN patterns : Collected(patterns[i]))'
    <3>1. \A z : Collected(z) => Collected(z)'
      BY TokensStay
    <3>. DEFINE l == Len(patterns)
    <3>2. /\ l \in Nat /\ DOMAIN patterns = 1..l /\ DOMAIN patterns' = 1..(l + 1)
          /\ patterns'[l + 1] = p /\ \A i \in 1..l : patterns'[i] = patterns[i]
      <4>. HIDE DEF p
      <4>1. l \in Nat /\ DOMAIN patterns = 1..l
        BY <1>1, LenProperties
      <4>. QED
        BY <1>1, <2>1, <4>1
    <3>. HIDE DEF p, l
    <3>3. \A i \in 1..(l + 1) : Collected(patterns'[i])
      <4>1. \A i \in 1..l : Collected(patterns[i])
        BY <3>2 DEF TokensInv
      <4>2. \A i \in 1..(l + 1) : i \in 1..l \/ i = l + 1
        BY <3>2
      <4>. QED
        BY <2>5, <3>2, <4>1, <4>2
    <3>. QED
      BY <3>1, <3>2, <3>3
  <2>. QED
    BY <1>3, <2>6 DEF TokensInv, Midway
<1>. QED
  BY <1>4, <1>5

LEMMA TokensStep == ParserInv /\ LinesInv /\ PatternsInv /\ TokensInv /\ Parse => TokensInv'
<1>. SUFFICES ASSUME ParserInv, LinesInv, PatternsInv, TokensInv, Parse PROVE TokensInv'
  OBVIOUS
<1>1. LexerInv /\ UNCHANGED <<text, tail>>
  BY DEF ParserInv, Parse, Top, AfterNegation, AfterSeparator, AfterAny, AfterPattern, LineEnds, Skip
<1>2. ASSUME UNCHANGED patterns, mode' \notin Midway PROVE TokensInv'
  BY <1>1, <1>2, CollectedStay DEF TokensInv
<1>3. ASSUME ReadError \/ Reject PROVE TokensInv'
  <2>1. mode' \in {"skip", "refused"} /\ UNCHANGED patterns
    BY <1>3 DEF ReadError, Reject, Report
  <2>. QED
    BY <1>2, <2>1 DEF Midway
\* In the midst of a line the token is a new one, and no comment or negation.
<1>4. ASSUME mode \in Midway, ~Failed
      PROVE  /\ undone = <<>> /\ Token.type = Type /\ ReadTo(mode, pos)
             /\ Type \in {"SEPARATOR", "ANY", "WHITESPACE", "PATTERN"} \cup LineEnd
  <2>1. undone = <<>> /\ start < pos /\ ReadTo(mode, pos)
    BY <1>4 DEF ParserInv, LinesInv, Midway
  <2>2. Type \notin {"NEGATION", "COMMENT"}
    <3>1. pos # start
      BY <1>1, <2>1, LineFacts DEF LexerInv
    <3>. QED
      BY <3>1, TypeIs
  <2>. QED
    BY <1>1, <1>4, <2>1, <2>2, NewToken, ExtentTakes DEF LineEnd
<1>5. ASSUME mode \in Midway, ~Failed, Extend, mode # "eol", Token.type \notin LineEnd,
             mode = "any" => Token.type = "SEPARATOR", mode = "pattern" => Token.type # "ANY"
      PROVE  TokensInv'
  BY <1>1, <1>4, <1>5, ExtendTokens
<1>6. ASSUME mode \in Midway, ~Failed, Emit PROVE TokensInv'
  BY <1>1, <1>4, <1>6, EmitTokens
<1>7. CASE Top
  <2>1. CASE mode = "top" /\ ~Failed /\ Token.type \in {"EOF", "EOL", "COMMENT"}
             /\ mode' \in {"top", "done"} /\ UNCHANGED patterns
    BY <1>2, <2>1 DEF Midway
  <2>2. CASE mode = "top" /\ ~Failed /\ Token.type = "NEGATION" /\ Taken
             /\ tokens' = <<Token>> /\ mode' = "sequence" /\ UNCHANGED patterns
    <3>. DEFINE t == Token
                ts == <<>>
    <3>1. undone = <<>>
      BY <2>2, TokenIs DEF ParserInv, LineEnd
    <3>2. t = Lexed /\ t.type = Type /\ Extent.ok
      BY <2>2, <3>1, NewToken
    <3>3. /\ ReadText /\ start \in LineStarts /\ start \in Nat /\ 1 <= start /\ start <= Len(text) + 1
          /\ pos = start /\ Rune(start) = "!" /\ Extent.next = start + 1
      BY <1>1, <2>2, <3>2, LineFacts, TypeIs, GoodFacts DEF LexerInv
    <3>4. t \in Part /\ t.from = start /\ t.to = start + 1 /\ t.type = "NEGATION"
      <4>1. t \in Part
        BY <2>2, <3>2, TokenIs DEF Part, PatternTypes
      <4>. QED
        BY <1>1, <2>2, <3>2, <3>3, <4>1, LexedWhere
    <3>5. Negated(start)
      <4>1. start <= Len(text) /\ Clean(start, start)
        BY <3>3, TextFacts DEF ReadText, Clean
      <4>2. start \in Content(start)
        BY <3>3, <4>1, RuneAfter
      <4>. QED
        BY <3>3, <4>2, BodyFacts DEF Negated
    <3>6. ts \in Seq(Part) /\ ts = <<>> /\ Append(ts, t) = <<t>>
      BY EmptySeq
    <3>. HIDE DEF t, ts
    <3>7. Placed(start, t)
      BY <3>3, <3>4, <3>5 DEF Placed, PatternTypes
    <3>8. Laid(<<t>>, start)
      BY <3>4, <3>6, <3>7, LaidOn
    <3>9. Parts(<<t>>, start + 1)
      BY <3>4 DEF Parts
    <3>10. pos' = start + 1 /\ start' = start
      <4>1. Advance
        BY <2>2, <3>1, NewToken
      <4>2. Type = "NEGATION"
        BY <3>2, <3>4
      <4>. QED
        BY <3>1, <3>3, <4>1, <4>2 DEF Advance
    <3>11. tokens' = <<t>>
      BY <2>2 DEF t
    <3>12. Laid(tokens, start)' /\ Parts(tokens, pos)'
      <4>1. (\A s, vs : Laid(vs, s) => Laid(vs, s)') /\ (\A p, vs : Parts(vs, p) => Parts(vs, p)')
        BY <1>1, TokensStay
      <4>. QED
        BY <3>8, <3>9, <3>10, <3>11, <4>1
    <3>13. (\A i \in DOMAIN patterns : Collected(patterns[i]))'
      BY <1>1, <2>2, CollectedStay DEF TokensInv
    <3>. QED
      BY <3>12, <3>13 DEF TokensInv
  <2>3. CASE mode = "top" /\ ~Failed /\ Token.type \notin {"EOF", "EOL", "COMMENT", "NEGATION"} /\ Extend
    <3>1. undone = <<>>
      BY <2>3, TokenIs DEF ParserInv, LineEnd
    <3>2. Token.type = Type /\ Type \in {"SEPARATOR", "ANY", "WHITESPACE", "PATTERN"}
      BY <1>1, <2>3, <3>1, NewToken, ExtentTakes
    <3>3. pos = start
      <4>1. ~CommentTo(pos) /\ Rune(pos) # "eof"
        BY <3>2, TypeIs DEF CommentTo, Type
      <4>. QED
        BY <2>3, <4>1 DEF LinesInv
    <3>4. ReadTo(mode, pos)
      BY <1>1, <2>3, <3>2, <3>3, LineBegins DEF LineEnd
    <3>. QED
      BY <1>1, <2>3, <3>1, <3>2, <3>4, ExtendTokens
  <2>. QED
    BY <1>3, <1>7, <2>1, <2>2, <2>3 DEF Top
<1>8. CASE AfterNegation
  BY <1>3, <1>5, <1>8 DEF AfterNegation, Midway
<1>9. CASE AfterSeparator
  BY <1>3, <1>5, <1>6, <1>9 DEF AfterSeparator, Midway
<1>10. CASE AfterAny
  <2>1. CASE /\ mode = "any" /\ ~Failed /\ Token.type = "WHITESPACE" /\ Taken
             /\ mode' = "eol" /\ UNCHANGED <<tokens, patterns>>
    <3>1. undone = <<>> /\ Type = "WHITESPACE" /\ Laid(tokens, start)
      BY <1>4, <2>1 DEF Midway, TokensInv
    <3>2. start' = start
      <4>1. Advance
        BY <2>1, <3>1, NewToken
      <4>. QED
        BY <3>1, <4>1 DEF Advance
    <3>3. Laid(tokens, start)'
      <4>1. \A s, vs : Laid(vs, s) => Laid(vs, s)'
        BY <1>1, TokensStay
      <4>. QED
        BY <2>1, <3>1, <3>2, <4>1
    <3>4. (\A i \in DOMAIN patterns : Collected(patterns[i]))'
      BY <1>1, <2>1, CollectedStay DEF TokensInv
    <3>. QED
      BY <2>1, <3>3, <3>4 DEF TokensInv
  <2>2. CASE mode = "any" /\ ~Failed /\ Token.type = "SEPARATOR" /\ Extend
    BY <1>5, <2>2 DEF LineEnd, Midway
  <2>. QED
    BY <1>3, <1>6, <1>10, <2>1, <2>2 DEF AfterAny, Midway
<1>11. CASE AfterPattern
  <2>1. CASE /\ mode = "pattern" /\ ~Failed /\ Extend
             /\ Token.type \in {"SEPARATOR", "WHITESPACE", "PATTERN"}
    BY <1>5, <2>1 DEF LineEnd, Midway
  <2>. QED
    BY <1>3, <1>6, <1>11, <2>1 DEF AfterPattern, Midway
<1>12. CASE LineEnds
  BY <1>3, <1>6, <1>12 DEF LineEnds, Midway
<1>13. CASE Skip
  <2>1. CASE ~Failed /\ UNCHANGED <<tokens, patterns>> /\ mode' \in {"top", "skip"}
    BY <1>2, <2>1 DEF Midway
  <2>. QED
    BY <1>3, <1>13, <2>1 DEF Skip
<1>. QED
  BY <1>7, <1>8, <1>9, <1>10, <1>11, <1>12, <1>13 DEF Parse

LEMMA TokensStutter == TokensInv /\ UNCHANGED vars => TokensInv'
<1>. SUFFICES ASSUME TokensInv, UNCHANGED vars PROVE TokensInv'
  OBVIOUS
<1>1. /\ UNCHANGED <<text, tail>> /\ pos' = pos /\ start' = start
      /\ mode' = mode /\ tokens' = tokens /\ patterns' = patterns
  BY DEF vars, lexer
<1>2. (\A i \in DOMAIN patterns : Collected(patterns[i]))'
  BY <1>1, CollectedStay DEF TokensInv
<1>3. (\A s, vs : Laid(vs, s) => Laid(vs, s)') /\ (\A p, vs : Parts(vs, p) => Parts(vs, p)')
  BY <1>1, TokensStay
<1>. QED
  BY <1>1, <1>2, <1>3 DEF TokensInv

LEMMA TokensInit == Init => TokensInv
  BY DEF Init, TokensInv, Midway

\* The tokens of every pattern that is collected lie side by side in its line, from its
\* beginning to the end the pattern names, each of the runes its type says: nothing is
\* lost between two calls of the lexer, or twice in a pattern after a token was put back.
THEOREM TokensCorrect == Spec => [](\A i \in DOMAIN patterns : Collected(patterns[i]))
<1>1. /\ ParserInv /\ LinesInv /\ PatternsInv /\ TokensInv /\ [Next]_vars
      => ParserInv' /\ LinesInv' /\ PatternsInv' /\ TokensInv'
  BY ParseStep, ParserStutter, LinesStep, LinesStutter, PatternsStep, PatternsStutter,
     TokensStep, TokensStutter DEF Next, Returned
<1>2. Init => ParserInv /\ LinesInv /\ PatternsInv /\ TokensInv
  BY ParserInit, LinesInit, PatternsInit, TokensInit
<1>3. TokensInv => \A i \in DOMAIN patterns : Collected(patterns[i])
  BY DEF TokensInv
<1>. QED
  BY <1>1, <1>2, <1>3, PTL DEF Spec
=============================================================================
