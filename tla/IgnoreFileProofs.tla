-------------------------- MODULE IgnoreFileProofs --------------------------
(***************************************************************************)
(* Theorems about IgnoreFile, for every text and every tree of directories.*)
(***************************************************************************)
EXTENDS IgnoreFile, IgnoreParserProofs

-----------------------------------------------------------------------------
(* Paths                                                                   *)

\* The root of the file system is among the directories: the shortest path in
\* Directories has no parent there but itself.
LEMMA TopIsThere == Directories # {} => <<>> \in Directories
<1>. SUFFICES ASSUME Directories # {}, <<>> \notin Directories PROVE FALSE
  OBVIOUS
<1>. DEFINE T == {Len(d) : d \in Directories}
<1>1. \A d \in Directories : d \in Path /\ Len(d) \in Nat \ {0} /\ Front(d) \in Directories
  BY FileAssumption, EmptySeq DEF Path
<1>2. T \subseteq Nat /\ T # {}
  BY <1>1
<1>3. PICK d \in Directories : \A m \in T : Len(d) <= m
  <2>1. \E n \in T : \A m \in T : n <= m
    BY <1>2, LeastNatural
  <2>. QED
    BY <2>1
<1>4. Len(Front(d)) = Len(d) - 1
  <2>1. \A i \in 1..(Len(d) - 1) : d[i] \in Component
    BY <1>1, ElementOfSeq DEF Path
  <2>2. Len(Front(d)) = IF 1 <= Len(d) - 1 THEN (Len(d) - 1) - 1 + 1 ELSE 0
    BY <1>1, <2>1, SubSeqProperties DEF Front
  <2>. QED
    BY <1>1, <2>2
<1>. QED
  BY <1>1, <1>3, <1>4

\* One path is a prefix of another when it is no longer and agrees with it.
LEMMA PrefixIs ==
  ASSUME NEW s \in Path, NEW t \in Path
  PROVE  IsPrefix(s, t) <=> Len(s) <= Len(t) /\ \A i \in 1..Len(s) : s[i] = t[i]
<1>. DEFINE C == Component
<1>1. Len(s) \in Nat /\ Len(t) \in Nat
  BY LenProperties DEF Path
<1>2. SUFFICES ASSUME Len(s) <= Len(t)
               PROVE  SubSeq(s, 1, Len(s)) = SubSeq(t, 1, Len(s)) <=> \A i \in 1..Len(s) : s[i] = t[i]
  BY DEF IsPrefix
<1>3. \A i \in 1..Len(s) : s[i] \in C /\ t[i] \in C
  BY <1>1, <1>2, ElementOfSeq DEF Path
<1>4. SubSeq(s, 1, Len(s)) = s
  BY SubSeqFull DEF Path
<1>5. /\ SubSeq(t, 1, Len(s)) \in Seq(C)
      /\ Len(SubSeq(t, 1, Len(s))) = IF 1 <= Len(s) THEN Len(s) - 1 + 1 ELSE 0
      /\ \A i \in 1..(Len(s) - 1 + 1) : SubSeq(t, 1, Len(s))[i] = t[1 + i - 1]
  BY <1>1, <1>3, SubSeqProperties
<1>. DEFINE u == SubSeq(t, 1, Len(s))
<1>. HIDE DEF u
<1>6. u \in Seq(C) /\ Len(u) = Len(s) /\ \A i \in 1..Len(s) : u[i] = t[i]
  BY <1>1, <1>5 DEF u
<1>7. s = u <=> \A i \in 1..Len(s) : s[i] = t[i]
  <2>1. ASSUME \A i \in 1..Len(s) : s[i] = t[i] PROVE s = u
    BY <1>6, <2>1, SeqEqual DEF Path
  <2>. QED
    BY <1>6, <2>1
<1>. QED
  BY <1>4, <1>7 DEF u

\* Prefixes one of the other are the same path.
LEMMA PrefixBothWays ==
  ASSUME NEW s \in Path, NEW t \in Path, IsPrefix(s, t), IsPrefix(t, s)
  PROVE  s = t
<1>1. Len(s) \in Nat /\ Len(t) \in Nat
  BY LenProperties DEF Path
<1>2. Len(s) = Len(t) /\ \A i \in 1..Len(s) : s[i] = t[i]
  BY <1>1, PrefixIs
<1>. QED
  BY <1>2, SeqEqual DEF Path

LEMMA PrefixOfItself == \A s \in Path : IsPrefix(s, s)
BY LenProperties, PrefixIs DEF Path

\* What is above t and not t is above or at the parent of t, which is above t.
LEMMA PrefixOfParent ==
  ASSUME NEW t \in Path, t # <<>>
  PROVE  /\ Front(t) \in Path /\ IsPrefix(Front(t), t)
         /\ \A s \in Path : IsPrefix(s, t) /\ s # t => IsPrefix(s, Front(t))
<1>. DEFINE C == Component
            n == Len(t) - 1
            f == Front(t)
<1>1. Len(t) \in Nat \ {0}
  BY EmptySeq DEF Path
<1>2. \A i \in 1..n : t[i] \in C
  BY <1>1, ElementOfSeq DEF Path
<1>3. /\ f \in Seq(C)
      /\ Len(f) = IF 1 <= n THEN n - 1 + 1 ELSE 0
      /\ \A i \in 1..(n - 1 + 1) : f[i] = t[1 + i - 1]
  BY <1>1, <1>2, SubSeqProperties DEF Front
<1>. HIDE DEF f
<1>4. f \in Path /\ Len(f) = n /\ \A i \in 1..n : f[i] = t[i]
  <2>1. f \in Path
    BY <1>3 DEF Path
  <2>2. n \in Nat
    BY <1>1
  <2>. HIDE DEF n
  <2>3. Len(f) = n
    BY <1>3, <2>2
  <2>4. \A i \in 1..n : f[i] = t[i]
    BY <1>3, <2>2
  <2>. QED
    BY <2>1, <2>3, <2>4
<1>5. IsPrefix(f, t)
  BY <1>1, <1>4, PrefixIs
<1>6. ASSUME NEW s \in Path, IsPrefix(s, t), s # t PROVE IsPrefix(s, f)
  <2>1. Len(s) \in Nat /\ Len(s) <= Len(t) /\ \A i \in 1..Len(s) : s[i] = t[i]
    BY <1>6, PrefixIs, LenProperties DEF Path
  <2>2. Len(s) # Len(t)
    BY <1>6, <2>1, SeqEqual DEF Path
  <2>3. Len(s) <= Len(f) /\ \A i \in 1..Len(s) : s[i] = f[i]
    BY <1>1, <1>4, <2>1, <2>2
  <2>. QED
    BY <1>4, <2>3, PrefixIs
<1>. QED
  BY <1>4, <1>5, <1>6 DEF f

\* What stands for no absolute path is none: its component is empty.
LEMMA NoneIsNoPath == None \notin Path
<1>. SUFFICES ASSUME None \in Path PROVE FALSE
  OBVIOUS
<1>1. None \in Seq(Component) /\ Len(None) = 1 /\ None[1] = <<>>
  BY DEF None, Path
<1>2. 1 \in 1..Len(None)
  BY <1>1
<1>3. None[1] \in Component
  <2>. DEFINE none == None
  <2>1. none \in Seq(Component) /\ 1 \in 1..Len(none)
    BY <1>1, <1>2
  <2>. HIDE DEF none
  <2>2. none[1] \in Component
    BY <2>1, ElementOfSeq
  <2>. QED
    BY <2>2 DEF none
<1>. QED
  BY <1>1, <1>3 DEF Component

LEMMA PrefixOfNothing == \A s \in Path : IsPrefix(s, <<>>) => s = <<>>
<1>. SUFFICES ASSUME NEW s \in Path, IsPrefix(s, <<>>) PROVE s = <<>>
  OBVIOUS
<1>1. <<>> \in Path /\ Len(<<>>) = 0
  BY EmptySeq DEF Path
<1>2. Len(s) \in Nat /\ Len(s) <= 0
  BY <1>1, PrefixIs, LenProperties DEF Path
<1>. QED
  BY <1>1, <1>2, EmptySeq DEF Path

LEMMA PrefixOfPrefix ==
  ASSUME NEW s \in Path, NEW t \in Path, NEW u \in Path, IsPrefix(s, t), IsPrefix(t, u)
  PROVE  IsPrefix(s, u)
<1>1. Len(s) \in Nat /\ Len(t) \in Nat /\ Len(u) \in Nat
  BY LenProperties DEF Path
<1>2. /\ Len(s) <= Len(t) /\ \A i \in 1..Len(s) : s[i] = t[i]
      /\ Len(t) <= Len(u) /\ \A i \in 1..Len(t) : t[i] = u[i]
  BY PrefixIs
<1>. QED
  BY <1>1, <1>2, PrefixIs

-----------------------------------------------------------------------------
(* The file and the questions: types                                       *)

Asking == {"stat", "lookup", "resolve", "store", "answered", "panicked"}

\* Nothing has been answered before there is an instance to ask.
FileInv ==
  /\ ParserInv
  /\ world \in Worlds
  /\ cwd \in Directories /\ origin \in Directories \cup {None} /\ dir \in Directories /\ base \in Directories
  /\ moves \in Nat /\ moves <= world.moves
  /\ calls \in Nat /\ calls <= world.calls
  /\ stage \in {"start", "find", "open", "failed", "read", "ready"} \cup Asking
  /\ root \in {world.given} \cup {Given(d) : d \in Directories}
  /\ answer \in Nat /\ answer <= Len(patterns)
  /\ stage \in {"start", "find", "open", "failed", "read"} => answer = 0
  /\ stage \in {"ready"} \cup Asking => mode = "done"
  /\ path \in {None} \cup Path
  /\ stage = "store" => path \in Path
  /\ DOMAIN known \subseteq world.questions
  /\ \A q \in DOMAIN known : known[q] \in Path
  /\ moved \subseteq world.questions
  /\ stage \in Asking => call.path \in world.questions

\* What filepath.Abs makes of the paths the model gives it.
LEMMA AbsIs ==
  ASSUME FileInv
  PROVE  /\ Abs(world.given) \in Directories
         /\ Abs(root) \in Directories
         /\ \A q \in world.questions : Abs(q) \in Path
<1>1. world \in Worlds /\ cwd \in Directories /\ Directories \subseteq Path
  BY FileAssumption DEF FileInv
<1>2. Abs(world.given) \in Directories
  BY <1>1, FileAssumption DEF Abs
<1>3. \A d : Abs(Given(d)) = d
  BY DEF Abs, Given
<1>4. Abs(root) \in Directories
  BY <1>2, <1>3 DEF FileInv
<1>5. ASSUME NEW q \in world.questions PROVE Abs(q) \in Path
  <2>1. q \in [absolute : BOOLEAN, parts : Path]
    BY <1>1, FileAssumption
  <2>2. q.parts \in Path /\ cwd \in Path
    BY <1>1, <2>1
  <2>3. cwd \o q.parts \in Path
    BY <2>2, ConcatProperties DEF Path
  <2>. QED
    BY <2>2, <2>3 DEF Abs
<1>. QED
  BY <1>2, <1>4, <1>5

\* An answer is one of the patterns there are.
LEMMA AbsoluteIs ==
  ASSUME ParserInv, NEW p, NEW isdir
  PROVE  Absolute(p, isdir) \in Nat /\ Absolute(p, isdir) <= Len(patterns)
<1>1. Len(patterns) \in Nat /\ DOMAIN patterns = 1..Len(patterns)
  BY LenProperties DEF ParserInv
<1>2. ASSUME NEW rel PROVE Relative(rel, isdir) \in Nat /\ Relative(rel, isdir) <= Len(patterns)
  <2>. DEFINE T == {0} \cup {i \in DOMAIN patterns : Matches(Compiled(patterns[i]), rel, isdir)}
  <2>1. T \subseteq 0..Len(patterns) /\ T # {}
    BY <1>1
  <2>. HIDE DEF T
  <2>2. Max(T) \in 0..Len(patterns)
    BY <1>1, <2>1, MaxOf
  <2>3. Relative(rel, isdir) = Max(T)
    BY DEF Relative, T
  <2>. QED
    BY <1>1, <2>2, <2>3
<1>. QED
  BY <1>1, <1>2 DEF Absolute

LEMMA FileInvInit == FileInit => FileInv
<1>. SUFFICES ASSUME FileInit PROVE FileInv
  OBVIOUS
<1>1. ParserInv /\ patterns = <<>>
  BY ParserInit DEF FileInit, Init
<1>2. world \in Worlds /\ world.cwd \in Directories /\ <<>> \in Directories
  BY TopIsThere, FileAssumption DEF FileInit
<1>3. Len(patterns) = 0 /\ world.moves \in Nat /\ world.calls \in Nat
  BY <1>1, <1>2, EmptySeq, FileAssumption
<1>4. DOMAIN known = {}
  BY DEF FileInit
<1>. QED
  BY <1>1, <1>2, <1>3, <1>4 DEF FileInit, FileInv, Asking

\* FindRepositoryRoot, NewFromFile and the changes of the working directory.
LEMMA OpeningStep ==
  ASSUME FileInv, CallFind \/ Find \/ Open \/ Chdir \/ Stopped
  PROVE  FileInv'
<1>1. UNCHANGED vars /\ ParserInv' /\ patterns' = patterns /\ mode' = mode /\ world' = world
  BY ParserStutter DEF CallFind, Find, Open, Chdir, Stopped, FileInv, environment, fileVars, vars
<1>2. CASE CallFind
  <2>1. Abs(world.given) \in Directories
    BY AbsIs
  <2>. QED
    BY <1>1, <1>2, <2>1 DEF FileInv, CallFind, Asking, environment, asking
<1>3. CASE Find
  <2>1. ~AtTop(dir) => Front(dir) \in Directories
    BY FileAssumption DEF FileInv, AtTop
  <2>. QED
    BY <1>1, <1>3, <2>1 DEF FileInv, Find, Asking, environment, asking
<1>4. CASE Open
  <2>1. Abs(root) \in Directories
    BY AbsIs
  <2>. QED
    BY <1>1, <1>4, <2>1 DEF FileInv, Open, Asking, environment, finding, asking
<1>5. CASE Chdir
  <2>1. /\ moves' = moves + 1 /\ moves < world.moves /\ world.moves \in Nat
        /\ UNCHANGED <<stage, origin, dir, root, base, call, calls, path, answer, known>>
    BY <1>5, FileAssumption DEF Chdir, FileInv, finding, asking
  <2>2. cwd' \in Directories
    BY <1>5 DEF Chdir
  <2>3. moved' \subseteq world.questions
    BY <1>5 DEF Chdir, FileInv, Asking
  <2>. QED
    BY <1>1, <2>1, <2>2, <2>3 DEF FileInv, Asking
<1>6. CASE Stopped
  BY <1>1, <1>6 DEF FileInv, Stopped, Asking, fileVars, environment, finding, asking
<1>. QED
  BY <1>2, <1>3, <1>4, <1>5, <1>6

LEMMA ReadStep ==
  ASSUME FileInv, Read
  PROVE  FileInv'
<1>1. ParserInv' /\ mode' # "refused"
  BY ParseStep DEF Read, FileInv
<1>2. Len(patterns') \in Nat
  BY <1>1, LenProperties DEF ParserInv
<1>. QED
  BY <1>1, <1>2 DEF Read, FileInv, Asking, environment, finding, asking

LEMMA AskingStep ==
  ASSUME FileInv, Ask \/ Stat \/ Lookup \/ Resolve \/ Store
  PROVE  FileInv'
<1>1. /\ UNCHANGED vars /\ ParserInv' /\ patterns' = patterns /\ mode' = mode /\ world' = world
      /\ UNCHANGED <<cwd, moves, moved, origin, dir, root, base>>
  BY ParserStutter DEF Ask, Stat, Lookup, Resolve, Store, FileInv, environment, finding, vars
<1>2. stage' \in Asking /\ mode = "done"
  BY DEF Ask, Stat, Lookup, Resolve, Store, Answered, Unanswered, Asking, FileInv
<1>3. \A p, isdir : Absolute(p, isdir) \in Nat /\ Absolute(p, isdir) <= Len(patterns)
  BY AbsoluteIs DEF FileInv
<1>4. \A q \in world.questions : Abs(q) \in Path
  BY AbsIs
<1>5. world.calls \in Nat
  BY FileAssumption DEF FileInv
<1>6. CASE Ask
  <2>1. PICK op \in {"match", "match_is_dir"}, p \in world.questions, isdir \in BOOLEAN :
          call' = [op |-> op, path |-> p, isdir |-> isdir]
          /\ stage' = IF op = "match" THEN "stat" ELSE "lookup"
    BY <1>6 DEF Ask
  <2>2. call'.path \in world.questions
    BY <2>1
  <2>3. calls' = calls + 1 /\ calls < world.calls /\ UNCHANGED <<path, answer, known>>
    BY <1>6 DEF Ask
  <2>4. stage' \notin {"store", "start", "find", "open", "failed", "read"}
    BY <2>1
  <2>. QED
    BY <1>1, <1>2, <1>5, <2>2, <2>3, <2>4 DEF FileInv, Asking
<1>7. CASE Stat \/ Lookup \/ Resolve \/ Store
  <2>1. stage \in Asking /\ call' = call /\ calls' = calls /\ call.path \in world.questions
    BY <1>7 DEF Stat, Lookup, Resolve, Store, Asking, FileInv
  <2>2. /\ DOMAIN known' \subseteq world.questions
        /\ \A q \in DOMAIN known' : known'[q] \in Path
    <3>1. CASE Stat \/ Lookup \/ Resolve
      BY <3>1 DEF Stat, Lookup, Resolve, FileInv
    <3>2. CASE Store
      <4>1. path \in Path
        BY <3>2 DEF Store, FileInv
      <4>2. known' = [q \in {call.path} \cup DOMAIN known |->
                        IF q = call.path THEN path ELSE known[q]]
        BY <3>2 DEF Store, Key
      <4>. QED
        BY <2>1, <4>1, <4>2 DEF FileInv
    <3>. QED
      BY <1>7, <3>1, <3>2
  <2>3. path' \in {None} \cup Path /\ (stage' = "store" => path' \in Path)
    BY <1>4, <1>7, <2>1 DEF Stat, Lookup, Resolve, Store, Answered, Unanswered, Key, FileInv
  <2>4. answer' \in Nat /\ answer' <= Len(patterns)
    BY <1>3, <1>7 DEF Stat, Lookup, Resolve, Store, Answered, Unanswered, FileInv, ParserInv
  <2>. QED
    BY <1>1, <1>2, <2>1, <2>2, <2>3, <2>4 DEF FileInv, Asking
<1>. QED
  BY <1>6, <1>7

LEMMA FileInvStep == FileInv /\ [FileNext]_fileVars => FileInv'
<1>. SUFFICES ASSUME FileInv, [FileNext]_fileVars PROVE FileInv'
  OBVIOUS
<1>1. CASE UNCHANGED fileVars
  <2>1. ParserInv' /\ patterns' = patterns /\ mode' = mode
    BY <1>1, ParserStutter DEF FileInv, fileVars, vars
  <2>. QED
    BY <1>1, <2>1 DEF FileInv, fileVars, environment, finding, asking, Asking
<1>. QED
  BY <1>1, OpeningStep, ReadStep, AskingStep DEF FileNext

\* From the text of the file to the answer, every variable keeps to its values: the
\* pattern an answer names is there, the instance is asked only after its file has
\* been read to the end, and the cache holds absolute paths of what was asked.
THEOREM FileTypeCorrect == FileSpec => []FileTypeOK
<1>1. FileInv => FileTypeOK
  <2>. SUFFICES ASSUME FileInv PROVE FileTypeOK
    OBVIOUS
  <2>1. world.moves \in Nat /\ world.calls \in Nat /\ Len(patterns) \in Nat
    BY FileAssumption, LenProperties DEF FileInv, ParserInv
  <2>2. moves \in 0..world.moves /\ calls \in 0..world.calls /\ answer \in 0..Len(patterns)
    BY <2>1 DEF FileInv
  <2>. QED
    BY <2>2 DEF FileInv, FileTypeOK, Asking
<1>. QED
  BY <1>1, FileInvInit, FileInvStep, PTL DEF FileSpec

-----------------------------------------------------------------------------
(* The path that is matched                                                *)

\* A path whose meaning the working directory has not changed since it was cached.
Fresh(q) == q.absolute \/ q \notin moved

\* What PathIsCurrent says of an answer holds of the cache behind it, and of the
\* path between the working directory's being asked and its being stored.
PathInv ==
  /\ FileInv
  /\ \A q \in DOMAIN known : Fresh(q) => known[q] = Abs(q)
  /\ stage = "store" /\ Fresh(call.path) => path = Abs(call.path)
  /\ stage = "stat" => call.op = "match"
  /\ stage = "answered" /\ path # None /\ call.op = "match_is_dir" =>
       call.path \in DOMAIN known /\ path = known[call.path]

LEMMA PathInvStep ==
  ASSUME PathInv, [FileNext]_fileVars
  PROVE  PathInv'
<1>1. FileInv'
  BY FileInvStep DEF PathInv
<1>2. CASE UNCHANGED fileVars
  BY <1>1, <1>2 DEF PathInv, Fresh, Abs, fileVars, environment, asking
<1>3. CASE CallFind \/ Find \/ Open \/ Read \/ Stopped
  <2>1. UNCHANGED <<cwd, moved, call, path, known>>
    BY <1>3 DEF CallFind, Find, Open, Read, Stopped, environment, asking, fileVars
  <2>2. CASE Stopped
    BY <1>2, <2>2 DEF Stopped
  <2>3. CASE CallFind \/ Find \/ Open \/ Read
    <3>1. stage' \in {"find", "open", "read", "ready", "failed"}
      BY <2>3 DEF CallFind, Find, Open, Read
    <3>. QED
      BY <1>1, <2>1, <3>1 DEF PathInv, Fresh, Abs
  <2>. QED
    BY <1>3, <2>2, <2>3
<1>4. CASE Ask
  <2>1. UNCHANGED <<cwd, moved, known>>
    BY <1>4 DEF Ask, environment
  <2>2. PICK op \in {"match", "match_is_dir"}, p \in world.questions, isdir \in BOOLEAN :
          call' = [op |-> op, path |-> p, isdir |-> isdir]
          /\ stage' = IF op = "match" THEN "stat" ELSE "lookup"
    BY <1>4 DEF Ask
  <2>3. stage' \in {"stat", "lookup"} /\ (stage' = "stat" => call'.op = "match")
    BY <2>2
  <2>. QED
    BY <1>1, <2>1, <2>3 DEF PathInv, Fresh, Abs
<1>5. CASE Stat \/ Lookup \/ Resolve
  <2>1. UNCHANGED <<cwd, moved, call, known>>
    BY <1>5 DEF Stat, Lookup, Resolve, environment
  <2>2. stage' # "stat"
    BY <1>5 DEF Stat, Lookup, Resolve, Answered, Unanswered
  <2>3. stage' = "store" => path' = Abs(call.path)
    BY <1>5 DEF Stat, Lookup, Resolve, Answered, Unanswered
  <2>4. ASSUME stage' = "answered", path' # None, call.op = "match_is_dir"
        PROVE  call.path \in DOMAIN known /\ path' = known[call.path]
    BY <1>5, <2>4 DEF Stat, Lookup, Resolve, Answered, Unanswered, Key, PathInv
  <2>. QED
    BY <1>1, <2>1, <2>2, <2>3, <2>4 DEF PathInv, Fresh, Abs
<1>6. CASE Store
  <2>1. /\ UNCHANGED <<cwd, moved, call>> /\ path' = path
        /\ stage = "store" /\ stage' \in {"answered", "panicked"}
    BY <1>6 DEF Store, Answered, environment
  <2>2. known' = [q \in {call.path} \cup DOMAIN known |->
                    IF q = call.path THEN path ELSE known[q]]
    BY <1>6 DEF Store, Key
  <2>3. \A q \in DOMAIN known' : Fresh(q) => known'[q] = Abs(q)
    BY <2>1, <2>2 DEF PathInv
  <2>4. call.path \in DOMAIN known' /\ path = known'[call.path]
    BY <2>2
  <2>. QED
    BY <1>1, <2>1, <2>3, <2>4 DEF PathInv, Fresh, Abs
\* Whatever the cache held or was about to hold is no longer fresh, if relative.
<1>7. CASE Chdir
  <2>1. UNCHANGED <<stage, call, path, known>>
    BY <1>7 DEF Chdir, asking
  <2>2. \A q : Fresh(q)' => Fresh(q) /\ (q \in DOMAIN known => q.absolute)
    BY <1>7 DEF Chdir, Fresh
  <2>3. stage = "store" /\ Fresh(call.path)' => call.path.absolute /\ Fresh(call.path)
    BY <1>7, <2>1 DEF Chdir, Fresh
  <2>4. \A q : q.absolute => Abs(q)' = Abs(q)
    BY DEF Abs
  <2>. QED
    BY <1>1, <2>1, <2>2, <2>3, <2>4 DEF PathInv, Abs, Fresh
<1>. QED
  BY <1>2, <1>3, <1>4, <1>5, <1>6, <1>7 DEF FileNext

\* MatchIsDir never answers about another path than the one it is asked about:
\* what the cache gives back for an absolute path, or for a relative one since
\* whose resolution the working directory has not been changed, is the path meant.
THEOREM PathCorrect == FileSpec => []PathIsCurrent
<1>1. FileInit => PathInv
  <2>. SUFFICES ASSUME FileInit PROVE PathInv
    OBVIOUS
  <2>1. DOMAIN known = {} /\ stage = "start"
    BY DEF FileInit
  <2>. QED
    BY <2>1, FileInvInit DEF PathInv
<1>2. PathInv => PathIsCurrent
  BY DEF PathInv, PathIsCurrent, Decided, Fresh
<1>. QED
  BY <1>1, <1>2, PathInvStep, PTL DEF FileSpec

-----------------------------------------------------------------------------
(* The root that is found                                                  *)

\* No marked directory above or at the origin has been passed.
RootInv ==
  /\ FileInv
  /\ stage = "start" => origin = None
  /\ stage = "find" =>
       /\ origin \in Path
       /\ IsPrefix(dir, origin)
       /\ \A d \in Directories : IsPrefix(d, origin) /\ Marked(d) => IsPrefix(d, dir)
  /\ RootIsNearest

LEMMA RootInvStep ==
  ASSUME RootInv, [FileNext]_fileVars
  PROVE  RootInv'
<1>1. FileInv' /\ FileInv /\ RootIsNearest
  BY FileInvStep DEF RootInv
<1>2. Directories \subseteq Path /\ dir \in Directories /\ dir \in Path
  BY <1>1, FileAssumption DEF FileInv
<1>3. CASE CallFind
  <2>1. CASE stage' = "find" /\ origin' = Abs(world.given) /\ dir' = origin'
    <3>1. origin' \in Path
      BY <1>1, <1>2, <2>1, AbsIs
    <3>. QED
      BY <1>1, <2>1, <3>1, PrefixOfItself DEF RootInv, RootIsNearest
  <2>2. CASE stage' = "open" /\ root' = world.given /\ origin' = origin
    <3>1. origin' = None /\ world' = world
      BY <1>3, <2>2 DEF CallFind, RootInv, environment
    <3>. QED
      BY <1>1, <2>2, <3>1 DEF RootInv, RootIsNearest
  <2>. QED
    BY <1>3, <2>1, <2>2 DEF CallFind
<1>4. CASE Find
  <2>1. UNCHANGED <<origin, world>> /\ stage = "find"
    BY <1>4 DEF Find, environment
  <2>2. /\ origin \in Path /\ origin # None
        /\ IsPrefix(dir, origin)
        /\ \A d \in Directories : IsPrefix(d, origin) /\ Marked(d) => IsPrefix(d, dir)
    BY <2>1, NoneIsNoPath DEF RootInv
  <2>. DEFINE searched == {d \in Directories : IsPrefix(d, origin) /\ Marked(d)}
  <2>3. CASE Marked(dir) /\ root' = Given(dir) /\ stage' = "open"
    <3>1. dir \in searched /\ \A e \in searched : IsPrefix(e, dir)
      BY <1>2, <2>2, <2>3
    <3>2. \A d \in searched : (\A e \in searched : IsPrefix(e, d)) => d = dir
      BY <1>2, <3>1, PrefixBothWays
    <3>. HIDE DEF searched
    <3>3. (CHOOSE d \in searched : \A e \in searched : IsPrefix(e, d)) = dir
      BY <3>1, <3>2
    <3>4. searched' = searched
      BY <2>1 DEF searched, Marked
    <3>5. RootIsNearest'
      BY <2>1, <2>2, <2>3, <3>1, <3>3, <3>4 DEF RootIsNearest, searched
    <3>. QED
      BY <1>1, <2>3, <3>5 DEF RootInv
  <2>4. CASE ~Marked(dir) /\ AtTop(dir) /\ root' = world.given /\ stage' = "open"
    <3>1. searched = {}
      BY <1>2, <2>2, <2>4, PrefixOfNothing DEF AtTop
    <3>2. RootIsNearest'
      BY <2>1, <2>4, <3>1 DEF RootIsNearest, Marked
    <3>. QED
      BY <1>1, <2>4, <3>2 DEF RootInv
  <2>5. CASE ~Marked(dir) /\ ~AtTop(dir) /\ dir' = Front(dir) /\ UNCHANGED <<root, stage>>
    <3>1. /\ Front(dir) \in Path /\ IsPrefix(Front(dir), dir)
          /\ \A s \in Path : IsPrefix(s, dir) /\ s # dir => IsPrefix(s, Front(dir))
      BY <1>2, <2>5, PrefixOfParent DEF AtTop
    <3>2. IsPrefix(Front(dir), origin)
      BY <1>2, <2>2, <3>1, PrefixOfPrefix
    <3>3. \A d \in Directories : IsPrefix(d, origin) /\ Marked(d) => IsPrefix(d, Front(dir))
      BY <1>2, <2>2, <2>5, <3>1
    <3>. QED
      BY <1>1, <2>1, <2>5, <3>2, <3>3 DEF RootInv, RootIsNearest, Marked
  <2>. QED
    BY <1>4, <2>3, <2>4, <2>5 DEF Find
<1>5. CASE UNCHANGED fileVars \/ Open \/ Read \/ Ask \/ Stat \/ Lookup \/ Resolve \/ Store \/ Chdir \/ Stopped
  <2>1. UNCHANGED <<world, origin, dir, root>>
    BY <1>5 DEF Open, Read, Ask, Stat, Lookup, Resolve, Store, Chdir, Stopped,
                environment, finding, fileVars
  <2>2. (stage' = "find" => stage = "find") /\ (stage' = "start" => stage = "start")
        /\ (stage' \in {"start", "find"} <=> stage \in {"start", "find"})
    BY <1>5 DEF Open, Read, Ask, Stat, Lookup, Resolve, Store, Chdir, Stopped,
                Answered, Unanswered, fileVars
  <2>. QED
    BY <1>1, <2>1, <2>2 DEF RootInv, RootIsNearest, Marked
<1>. QED
  BY <1>3, <1>4, <1>5 DEF FileNext

\* FindRepositoryRoot comes to the nearest directory with a mark from wherever it
\* begins, and only without any up to the root of the file system gives its
\* argument back; nothing that is done with the instance later changes it.
THEOREM RootCorrect == FileSpec => []RootIsNearest
<1>1. FileInit => RootInv
  BY FileInvInit DEF FileInit, RootInv, RootIsNearest
<1>2. RootInv => RootIsNearest
  BY DEF RootInv
<1>. QED
  BY <1>1, <1>2, RootInvStep, PTL DEF FileSpec

-----------------------------------------------------------------------------
(* Recursion that asks whether a last step can be reached                  *)

\* L holds the x in D from which one comes to a member of goal over steps of next.
ComeFrom(L, D, goal, next) ==
  \A x \in D : x \in L <=> x \in goal \/ \E y \in next[x] : y \in L

\* There are such places: the least set that is closed.
LEMMA Reaches ==
  ASSUME NEW D, NEW goal, NEW next
  PROVE  \E L : ComeFrom(L, D, goal, next)
<1>. DEFINE Closed(C) == D \cap goal \subseteq C /\ \A x \in D : (\E y \in next[x] : y \in C) => x \in C
            L == {x \in D : \A C \in SUBSET D : Closed(C) => x \in C}
<1>1. D \cap goal \subseteq L
  OBVIOUS
<1>2. ASSUME NEW x \in D, \E y \in next[x] : y \in L PROVE x \in L
  BY <1>2
<1>3. ASSUME NEW x \in L, x \notin goal, \A y \in next[x] : y \notin L PROVE FALSE
  <2>. DEFINE C == L \ {x}
  <2>1. D \cap goal \subseteq C
    BY <1>1, <1>3
  <2>2. ASSUME NEW z \in D, \E y \in next[z] : y \in C PROVE z \in C
    <3>1. z \in L
      BY <1>2, <2>2
    <3>2. z # x
      BY <1>3, <2>2
    <3>. QED
      BY <3>1, <3>2
  <2>3. C \in SUBSET D /\ Closed(C)
    BY <2>1, <2>2
  <2>. QED
    BY <1>3, <2>3
<1>. HIDE DEF Closed
<1>4. L \in SUBSET D
  OBVIOUS
<1>. HIDE DEF L
<1>5. \A x \in D : x \in L <=> x \in goal \/ \E y \in next[x] : y \in L
  BY <1>1, <1>2, <1>3, <1>4
<1>. QED
  BY <1>4, <1>5 DEF ComeFrom

-----------------------------------------------------------------------------
(* fnmatch                                                                 *)

\* The names of fnmatch's LET: where the stars at i end, and the separators that
\* count from j.
StarsEnd(p, i) == Min({k \in i..Len(p) + 1 : k > Len(p) \/ p[k] # "*"})
SeparatorsFrom(s, pathname, j) == {t \in j..Len(s) : pathname /\ s[t] = "/"}

\* The places fnmatch goes on from (i, j), and whether it is there; without "[".
Onward(p, s, pathname, i, j) ==
  LET after == StarsEnd(p, i)
      separators == SeparatorsFrom(s, pathname, j)
  IN IF i > Len(p) THEN {}
     ELSE IF p[i] = "*"
     THEN IF after > Len(p) THEN {}
          ELSE IF pathname /\ p[after] = "/"
          THEN IF separators # {} THEN {<<after + 1, Min(separators) + 1>>} ELSE {}
          ELSE {<<after, t>> : t \in {u \in j..Len(s) : \A x \in separators : u <= x}}
     ELSE IF j > Len(s) THEN {}
     ELSE IF p[i] = "?" THEN IF pathname /\ s[j] = "/" THEN {} ELSE {<<i + 1, j + 1>>}
     ELSE IF p[i] = "esc" /\ i < Len(p) THEN IF s[j] = p[i + 1] THEN {<<i + 2, j + 1>>} ELSE {}
     ELSE IF s[j] = p[i] THEN {<<i + 1, j + 1>>} ELSE {}

AtEnd(p, s, pathname, i, j) ==
  IF i > Len(p) THEN j > Len(s)
  ELSE p[i] = "*" /\ StarsEnd(p, i) > Len(p) /\ SeparatorsFrom(s, pathname, j) = {}

\* m is what fnmatch finds, from every place.
Finds(m, p, s, pathname) ==
  \A i \in 1..Len(p) + 1, j \in 1..Len(s) + 1 :
    m[<<i, j>>] <=> \/ AtEnd(p, s, pathname, i, j)
                    \/ \E y \in Onward(p, s, pathname, i, j) : m[y]

LEMMA StarsEndIs ==
  ASSUME NEW p, Len(p) \in Nat, NEW i \in 1..Len(p)
  PROVE  /\ StarsEnd(p, i) \in i..Len(p) + 1
         /\ p[i] = "*" => StarsEnd(p, i) > i
         /\ StarsEnd(p, i) <= Len(p) => p[StarsEnd(p, i)] # "*"
         /\ \A k \in i..(StarsEnd(p, i) - 1) : p[k] = "*"
<1>. DEFINE T == {k \in i..Len(p) + 1 : k > Len(p) \/ p[k] # "*"}
<1>1. T \subseteq Nat /\ T # {}
  <2>1. Len(p) + 1 \in T
    OBVIOUS
  <2>. QED
    BY <2>1
<1>2. Min(T) \in T /\ \A k \in T : Min(T) <= k
  BY <1>1, MinOf
<1>3. StarsEnd(p, i) = Min(T)
  BY DEF StarsEnd
<1>. DEFINE e == StarsEnd(p, i)
<1>4. e \in i..Len(p) + 1 /\ (e <= Len(p) => p[e] # "*") /\ \A k \in T : e <= k
  BY <1>2, <1>3
<1>5. \A k \in i..(e - 1) : k \in i..Len(p) + 1 /\ k \notin T
  BY <1>4
<1>. HIDE DEF e
<1>6. \A k \in i..(e - 1) : p[k] = "*"
  BY <1>5
<1>7. p[i] = "*" => e > i
  BY <1>4
<1>. QED
  BY <1>4, <1>6, <1>7 DEF e

LEMMA OnwardStays ==
  ASSUME NEW p, NEW s, Len(p) \in Nat, Len(s) \in Nat, NEW pathname \in BOOLEAN,
         NEW i \in 1..Len(p) + 1, NEW j \in 1..Len(s) + 1
  PROVE  Onward(p, s, pathname, i, j) \subseteq ((i + 1)..(Len(p) + 1)) \X (j..(Len(s) + 1))
<1>. DEFINE S == SeparatorsFrom(s, pathname, j)
<1>1. S # {} => Min(S) \in j..Len(s)
  <2>1. S \subseteq Nat /\ S \subseteq j..Len(s)
    BY DEF SeparatorsFrom
  <2>. HIDE DEF S
  <2>. QED
    BY <2>1, MinOf
<1>2. i <= Len(p) /\ p[i] = "*" => StarsEnd(p, i) \in (i + 1)..Len(p) + 1
  BY StarsEndIs
<1>. HIDE DEF S
<1>. DEFINE e == StarsEnd(p, i)
<1>3. CASE i > Len(p)
  BY <1>3 DEF Onward
<1>4. CASE i <= Len(p) /\ p[i] = "*"
  <2>. HIDE DEF e
  <2>1. e \in (i + 1)..Len(p) + 1
    BY <1>2, <1>4 DEF e
  <2>2. CASE e > Len(p)
    BY <1>4, <2>1, <2>2 DEF Onward, e
  <2>3. CASE e <= Len(p) /\ pathname /\ p[e] = "/"
    <3>1. Onward(p, s, pathname, i, j) = IF S # {} THEN {<<e + 1, Min(S) + 1>>} ELSE {}
      <4>1. CASE S # {}
        <5>1. SeparatorsFrom(s, pathname, j) # {} /\ ~(StarsEnd(p, i) > Len(p)) /\ p[StarsEnd(p, i)] = "/"
          <6>1. SeparatorsFrom(s, pathname, j) # {}
            BY <4>1 DEF S
          <6>2. ~(StarsEnd(p, i) > Len(p)) /\ p[StarsEnd(p, i)] = "/"
            BY <2>1, <2>3 DEF e
          <6>. QED
            BY <6>1, <6>2
        <5>2. Onward(p, s, pathname, i, j) = {<<StarsEnd(p, i) + 1, Min(SeparatorsFrom(s, pathname, j)) + 1>>}
          <6>1. ~(i > Len(p)) /\ p[i] = "*"
            BY <1>4
          <6>2. pathname /\ p[StarsEnd(p, i)] = "/"
            BY <2>3, <5>1
          <6>. QED
            BY <5>1, <6>1, <6>2, Zenon DEF Onward
        <5>. QED
          BY <4>1, <5>2 DEF e, S
      <4>2. CASE S = {}
        BY <1>4, <2>1, <2>3, <4>2 DEF Onward, e, S
      <4>. QED
        BY <4>1, <4>2
    <3>2. CASE S = {}
      BY <3>1, <3>2
    <3>3. CASE S # {}
      <4>1. Min(S) \in j..Len(s)
        BY <1>1, <3>3
      <4>2. <<e + 1, Min(S) + 1>> \in ((i + 1)..(Len(p) + 1)) \X (j..(Len(s) + 1))
        BY <2>1, <2>3, <4>1, SMTT(60)
      <4>. QED
        BY <3>1, <3>3, <4>2
    <3>. QED
      BY <3>2, <3>3
  <2>4. CASE e <= Len(p) /\ ~(pathname /\ p[e] = "/")
    <3>1. Onward(p, s, pathname, i, j) = {<<e, t>> : t \in {u \in j..Len(s) : \A x \in S : u <= x}}
      BY <1>4, <2>1, <2>4 DEF Onward, e, S
    <3>. QED
      BY <2>1, <3>1
  <2>. QED
    BY <2>1, <2>2, <2>3, <2>4
<1>5. CASE i <= Len(p) /\ p[i] # "*"
  <2>1. Onward(p, s, pathname, i, j) \subseteq
          {y \in {<<i + 1, j + 1>>, <<i + 2, j + 1>>} : j <= Len(s) /\ (y = <<i + 2, j + 1>> => i < Len(p))}
    BY <1>5, SMTT(60) DEF Onward
  <2>. QED
    BY <1>5, <2>1, SMTT(60)
<1>. QED
  BY <1>3, <1>4, <1>5

\* The recursion has the values it asks for, and Fnmatch is the one at the start.
LEMMA FnmatchUnfolds ==
  ASSUME NEW p, NEW s, Len(p) \in Nat, Len(s) \in Nat, NEW pathname \in BOOLEAN,
         \A i \in 1..Len(p) : p[i] # "["
  PROVE  \E m : Finds(m, p, s, pathname) /\ (Fnmatch(p, s, pathname) <=> m[<<1, 1>>])
<1>. DEFINE D == (1..Len(p) + 1) \X (1..Len(s) + 1)
            goal == {at \in D : AtEnd(p, s, pathname, at[1], at[2])}
            next == [at \in D |-> Onward(p, s, pathname, at[1], at[2])]
            separator(j) == pathname /\ s[j] = "/"
            separators(j) == {t \in j..Len(s) : separator(t)}
            Clauses(match, at) ==
              LET i == at[1]
                  j == at[2]
              IN IF i > Len(p) THEN j > Len(s)
                 ELSE CASE p[i] = "?" -> j <= Len(s) /\ ~separator(j) /\ match[<<i + 1, j + 1>>]
                   [] p[i] = "[" ->
                        /\ j <= Len(s) /\ ~separator(j)
                        /\ LET c == Class(p, i + 1, s[j]) IN c.ok /\ match[<<c.next, j + 1>>]
                   [] p[i] = "*" ->
                        LET after == Min({k \in i..Len(p) + 1 : k > Len(p) \/ p[k] # "*"})
                        IN IF after > Len(p) THEN separators(j) = {}
                           ELSE IF pathname /\ p[after] = "/"
                           THEN separators(j) # {} /\ match[<<after + 1, Min(separators(j)) + 1>>]
                           ELSE \E t \in j..Len(s) :
                                  (\A x \in separators(j) : t <= x) /\ match[<<after, t>>]
                   [] p[i] = "esc" /\ i < Len(p) ->
                        j <= Len(s) /\ s[j] = p[i + 1] /\ match[<<i + 2, j + 1>>]
                   [] OTHER -> j <= Len(s) /\ s[j] = p[i] /\ match[<<i + 1, j + 1>>]
            choice == CHOOSE match : match = [at \in D |-> Clauses(match, at)]
<1>1. PICK L : ComeFrom(L, D, goal, next)
  BY Reaches
<1>. DEFINE f == [at \in D |-> at \in L]
            Step(g, at) == \/ AtEnd(p, s, pathname, at[1], at[2])
                           \/ \E y \in Onward(p, s, pathname, at[1], at[2]) : g[y]
<1>2. ASSUME NEW g, NEW at \in D PROVE Clauses(g, at) <=> Step(g, at)
  <2>. DEFINE i == at[1]
              j == at[2]
  <2>1. i \in 1..Len(p) + 1 /\ j \in 1..Len(s) + 1
    OBVIOUS
  <2>2. i <= Len(p) => p[i] # "["
    BY <2>1
  <2>3. CASE i > Len(p)
    BY <2>3 DEF AtEnd, Onward
  <2>4. CASE i <= Len(p) /\ p[i] = "*"
    BY <2>1, <2>4 DEF AtEnd, Onward, StarsEnd, SeparatorsFrom
  <2>5. CASE i <= Len(p) /\ p[i] # "*"
    <3>. HIDE DEF i, j, Clauses, Step
    <3>1. CASE j > Len(s)
      BY <2>1, <2>2, <2>5, <3>1 DEF AtEnd, Onward, i, j, Clauses, Step
    <3>2. CASE j <= Len(s) /\ p[i] = "?"
      BY <2>1, <2>2, <2>5, <3>2, SMTT(60) DEF AtEnd, Onward, i, j, Clauses, Step
    <3>3. CASE j <= Len(s) /\ p[i] = "esc" /\ i < Len(p)
      BY <2>1, <2>2, <2>5, <3>3, SMTT(60) DEF AtEnd, Onward, i, j, Clauses, Step
    <3>4. CASE j <= Len(s) /\ p[i] # "?" /\ ~(p[i] = "esc" /\ i < Len(p))
      <4>1. Clauses(g, at) <=> j <= Len(s) /\ s[j] = p[i] /\ g[<<i + 1, j + 1>>]
        BY <2>1, <2>2, <2>5, <3>4, SMTT(60) DEF i, j, Clauses
      <4>2. Step(g, at) <=> j <= Len(s) /\ s[j] = p[i] /\ g[<<i + 1, j + 1>>]
        BY <2>1, <2>2, <2>5, <3>4, SMTT(60) DEF AtEnd, Onward, i, j, Step
      <4>. QED
        BY <4>1, <4>2
    <3>. QED
      BY <2>1, <3>1, <3>2, <3>3, <3>4
  <2>. HIDE DEF Clauses, Step
  <2>. QED
    BY <2>1, <2>3, <2>4, <2>5
<1>3. \A at \in D : f[at] = Clauses(f, at)
  <2>. SUFFICES ASSUME NEW at \in D PROVE f[at] <=> Clauses(f, at)
    <3>1. \A at \in D : f[at] \in BOOLEAN /\ Clauses(f, at) \in BOOLEAN
      <4>1. \A at \in D : f[at] \in BOOLEAN
        OBVIOUS
      <4>2. \A at \in D : Clauses(f, at) \in BOOLEAN
        <5>. HIDE DEF f
        <5>. SUFFICES ASSUME NEW at \in D PROVE Clauses(f, at) \in BOOLEAN
          OBVIOUS
        <5>. DEFINE i == at[1]
        <5>0. at[2] \in Nat
          OBVIOUS
        <5>. HIDE DEF D
        <5>1. CASE i > Len(p)
          <6>1. (at[2] > Len(s)) \in BOOLEAN
            BY <5>0
          <6>2. Clauses(f, at) = (at[2] > Len(s))
            BY <5>1, Zenon
          <6>. HIDE DEF Clauses
          <6>. QED
            BY <6>1, <6>2, Zenon
        <5>2. CASE ~(i > Len(p)) /\ p[i] = "?"
          BY <5>2
        <5>3. CASE ~(i > Len(p)) /\ p[i] = "["
          BY <5>3
        <5>4. CASE ~(i > Len(p)) /\ p[i] = "*"
          BY <5>4
        <5>5. CASE ~(i > Len(p)) /\ p[i] = "esc" /\ i < Len(p)
          BY <5>5
        <5>6. CASE ~(i > Len(p)) /\ p[i] \notin {"?", "[", "*"} /\ ~(p[i] = "esc" /\ i < Len(p))
          BY <5>6
        <5>. QED
          BY <5>1, <5>2, <5>3, <5>4, <5>5, <5>6
      <4>. QED
        BY <4>1, <4>2
    <3>. HIDE DEF f, Clauses, D
    <3>. QED
      BY <3>1
  <2>1. f[at] <=> at \in L
    OBVIOUS
  <2>2. at \in L <=> at \in goal \/ \E y \in next[at] : y \in L
    BY <1>1 DEF ComeFrom
  <2>3. at \in goal <=> AtEnd(p, s, pathname, at[1], at[2])
    OBVIOUS
  <2>4. next[at] = Onward(p, s, pathname, at[1], at[2])
    OBVIOUS
  <2>5. \A y \in next[at] : y \in L <=> f[y]
    <3>1. at[1] \in 1..Len(p) + 1 /\ at[2] \in 1..Len(s) + 1
      OBVIOUS
    <3>2. Onward(p, s, pathname, at[1], at[2]) \subseteq D
      BY <3>1, OnwardStays
    <3>. QED
      BY <2>4, <3>2
  <2>. HIDE DEF f, Clauses, D, goal, next
  <2>. QED
    BY <1>2, <2>1, <2>2, <2>3, <2>4, <2>5
<1>4. f = [at \in D |-> Clauses(f, at)]
  <2>1. f = [at \in D |-> f[at]]
    OBVIOUS
  <2>. HIDE DEF f, Clauses, D
  <2>. QED
    BY <1>3, <2>1
<1>5. choice = [at \in D |-> Clauses(choice, at)]
  <2>. HIDE DEF f, Clauses, D
  <2>. QED
    BY <1>4 DEF choice
<1>6. Fnmatch(p, s, pathname) = choice[<<1, 1>>]
  BY DEF Fnmatch
<1>7. \A i \in 1..Len(p) + 1, j \in 1..Len(s) + 1 :
        choice[<<i, j>>] <=> \/ AtEnd(p, s, pathname, i, j)
                             \/ \E y \in Onward(p, s, pathname, i, j) : choice[y]
  <2>. SUFFICES ASSUME NEW i \in 1..Len(p) + 1, NEW j \in 1..Len(s) + 1
                PROVE  choice[<<i, j>>] <=> \/ AtEnd(p, s, pathname, i, j)
                                            \/ \E y \in Onward(p, s, pathname, i, j) : choice[y]
    BY Zenon
  <2>. DEFINE at == <<i, j>>
  <2>1. at \in D /\ at[1] = i /\ at[2] = j
    OBVIOUS
  <2>. HIDE DEF Clauses, D, choice, at
  <2>2. choice[at] = Clauses(choice, at)
    BY <1>5, <2>1
  <2>3. Clauses(choice, at) <=> Step(choice, at)
    BY <1>2, <2>1
  <2>. QED
    BY <2>1, <2>2, <2>3, SMTT(60) DEF at
<1>. HIDE DEF choice
<1>. QED
  BY <1>6, <1>7 DEF Finds

-----------------------------------------------------------------------------
(* Globs                                                                   *)

LEMMA ElementIs ==
  ASSUME NEW glob, Len(glob) \in Nat, NEW i \in 1..Len(glob), glob[i] # "["
  PROVE  /\ glob[i] = "?" => Element(glob, i) = [runes |-> Runes \cup DOMAIN Code, next |-> i + 1]
         /\ glob[i] = "esc" /\ i < Len(glob) => Element(glob, i) = [runes |-> {glob[i + 1]}, next |-> i + 2]
         /\ glob[i] # "?" /\ ~(glob[i] = "esc" /\ i < Len(glob)) =>
              Element(glob, i) = [runes |-> {glob[i]}, next |-> i + 1]
         /\ Element(glob, i).next \in (i + 1)..Len(glob) + 1
<1>1. glob[i] = "?" => Element(glob, i) = [runes |-> Runes \cup DOMAIN Code, next |-> i + 1]
  BY DEF Element
<1>2. glob[i] = "esc" /\ i < Len(glob) => Element(glob, i) = [runes |-> {glob[i + 1]}, next |-> i + 2]
  BY DEF Element
<1>3. glob[i] # "?" /\ ~(glob[i] = "esc" /\ i < Len(glob)) =>
        Element(glob, i) = [runes |-> {glob[i]}, next |-> i + 1]
  BY DEF Element
<1>. QED
  BY <1>1, <1>2, <1>3

\* from is what Globs finds for every rest of the glob, as pairs.
GlobRests(L, glob, word) ==
  \A i \in 1..Len(glob) + 1, x \in 0..Len(word) :
    <<i, x>> \in L <=>
      IF i > Len(glob) THEN x = Len(word)
      ELSE IF glob[i] = "*" THEN \E y \in x..Len(word) : <<i + 1, y>> \in L
      ELSE /\ x < Len(word) /\ word[x + 1] \in Element(glob, i).runes
           /\ <<Element(glob, i).next, x + 1>> \in L

LEMMA GlobsUnfolds ==
  ASSUME NEW glob, NEW word, Len(glob) \in Nat, Len(word) \in Nat,
         \A i \in 1..Len(glob) : glob[i] # "["
  PROVE  \E L : GlobRests(L, glob, word) /\ (Globs(glob, word) <=> <<1, 0>> \in L)
<1>. DEFINE n == Len(word)
            next(i) == Element(glob, i).next
            runes(i) == Element(glob, i).runes
            D == (1..Len(glob) + 1) \X (0..n)
            goal == {at \in D : at[1] > Len(glob) /\ at[2] = n}
            onward(i, x) == IF i > Len(glob) THEN {}
                            ELSE IF glob[i] = "*" THEN {<<i + 1, y>> : y \in x..n}
                            ELSE IF x < n /\ word[x + 1] \in runes(i) THEN {<<next(i), x + 1>>} ELSE {}
            steps == [at \in D |-> onward(at[1], at[2])]
            Clauses(from, i) ==
              IF i > Len(glob) THEN {n}
              ELSE IF glob[i] = "*" THEN {x \in 0..n : \E y \in from[next(i)] : x <= y}
              ELSE {x \in 0..n - 1 : word[x + 1] \in runes(i) /\ x + 1 \in from[next(i)]}
            choice == CHOOSE from : from = [i \in 1..Len(glob) + 1 |-> Clauses(from, i)]
<1>0. ASSUME NEW i \in 1..Len(glob)
      PROVE  next(i) \in (i + 1)..Len(glob) + 1 /\ (glob[i] = "*" => next(i) = i + 1)
  <2>1. glob[i] # "["
    OBVIOUS
  <2>. QED
    BY <2>1, ElementIs
<1>1. PICK L : ComeFrom(L, D, goal, steps)
  BY Reaches
<1>. DEFINE f == [i \in 1..Len(glob) + 1 |-> {x \in 0..n : <<i, x>> \in L}]
<1>. HIDE DEF next, runes
<1>2. ASSUME NEW i \in 1..Len(glob) + 1, NEW x \in 0..n
      PROVE  <<i, x>> \in L <=> <<i, x>> \in goal \/ \E y \in onward(i, x) : y \in L
  BY <1>1, SMTT(60) DEF ComeFrom
<1>3. ASSUME NEW i \in 1..Len(glob) + 1 PROVE f[i] = Clauses(f, i)
  <2>1. \A x : x \in f[i] <=> x \in 0..n /\ <<i, x>> \in L
    OBVIOUS
  <2>2. CASE i > Len(glob)
    <3>1. \A x \in 0..n : <<i, x>> \in L <=> x = n
      BY <1>2, <2>2
    <3>2. \A x : x \in f[i] <=> x = n
      BY <2>1, <3>1
    <3>. HIDE DEF f
    <3>. QED
      BY <2>2, <3>2
  <2>3. CASE i <= Len(glob) /\ glob[i] = "*"
    <3>0. next(i) = i + 1
      BY <1>0, <2>3
    <3>1. \A x \in 0..n : <<i, x>> \in L <=> \E y \in x..n : <<i + 1, y>> \in L
      <4>. SUFFICES ASSUME NEW x \in 0..n PROVE <<i, x>> \in L <=> \E y \in x..n : <<i + 1, y>> \in L
        OBVIOUS
      <4>1. <<i, x>> \notin goal /\ onward(i, x) = {<<i + 1, y>> : y \in x..n}
        BY <2>3
      <4>2. <<i, x>> \in L <=> \E z \in {<<i + 1, y>> : y \in x..n} : z \in L
        BY <1>2, <4>1
      <4>. QED
        BY <4>2, Zenon
    <3>2. \A y : y \in f[i + 1] <=> y \in 0..n /\ <<i + 1, y>> \in L
      BY <2>3
    <3>. HIDE DEF f
    <3>3. ASSUME NEW x PROVE x \in f[i] <=> x \in 0..n /\ \E y \in f[next(i)] : x <= y
      <4>1. CASE x \in 0..n
        <5>1. x \in f[i] <=> \E y \in x..n : <<i + 1, y>> \in L
          BY <2>1, <3>1, <4>1
        <5>2. (\E y \in x..n : <<i + 1, y>> \in L) <=> \E y \in f[i + 1] : x <= y
          <6>. DEFINE T == f[i + 1]
          <6>1. \A y : y \in T <=> y \in 0..n /\ <<i + 1, y>> \in L
            BY <3>2
          <6>. HIDE DEF T
          <6>2. ASSUME NEW y \in x..n, <<i + 1, y>> \in L PROVE y \in T /\ x <= y
            BY <4>1, <6>1, <6>2
          <6>3. ASSUME NEW y \in T, x <= y PROVE y \in x..n /\ <<i + 1, y>> \in L
            BY <4>1, <6>1, <6>3
          <6>4. (\E y \in x..n : <<i + 1, y>> \in L) <=> \E y \in T : x <= y
            BY <6>2, <6>3, Zenon
          <6>. QED
            BY <6>4 DEF T
        <5>. QED
          BY <3>0, <4>1, <5>1, <5>2
      <4>. QED
        BY <2>1, <4>1
    <3>. DEFINE S == {x \in 0..n : \E y \in f[next(i)] : x <= y}
    <3>4. \A x : x \in f[i] <=> x \in S
      BY <3>3
    <3>5. Clauses(f, i) = S
      BY <2>3
    <3>. HIDE DEF S, Clauses
    <3>. QED
      BY <3>4, <3>5
  <2>4. CASE i <= Len(glob) /\ glob[i] # "*"
    <3>0. next(i) \in (i + 1)..Len(glob) + 1
      BY <1>0, <2>4
    <3>1. \A x \in 0..n : <<i, x>> \in L <=> x < n /\ word[x + 1] \in runes(i) /\ <<next(i), x + 1>> \in L
      BY <1>2, <2>4, SMTT(60)
    <3>2. \A y : y \in f[next(i)] <=> y \in 0..n /\ <<next(i), y>> \in L
      BY <3>0
    <3>. HIDE DEF f
    <3>3. ASSUME NEW x
          PROVE  x \in f[i] <=> x \in 0..n - 1 /\ word[x + 1] \in runes(i) /\ x + 1 \in f[next(i)]
      <4>1. CASE x \in 0..n
        <5>1. x \in f[i] <=> x < n /\ word[x + 1] \in runes(i) /\ <<next(i), x + 1>> \in L
          BY <2>1, <3>1, <4>1
        <5>2. x + 1 \in f[next(i)] <=> x + 1 \in 0..n /\ <<next(i), x + 1>> \in L
          BY <3>2
        <5>. QED
          BY <4>1, <5>1, <5>2
      <4>2. x \in 0..n - 1 => x \in 0..n
        OBVIOUS
      <4>. QED
        BY <2>1, <4>1, <4>2
    <3>. DEFINE S == {x \in 0..n - 1 : word[x + 1] \in runes(i) /\ x + 1 \in f[next(i)]}
    <3>4. \A x : x \in f[i] <=> x \in S
      BY <3>3
    <3>5. Clauses(f, i) = S
      BY <2>4
    <3>. HIDE DEF S, Clauses
    <3>. QED
      BY <3>4, <3>5
  <2>. HIDE DEF f, Clauses
  <2>. QED
    BY <2>2, <2>3, <2>4
<1>4. f = [i \in 1..Len(glob) + 1 |-> Clauses(f, i)]
  <2>1. f = [i \in 1..Len(glob) + 1 |-> f[i]]
    OBVIOUS
  <2>. HIDE DEF f, Clauses
  <2>. QED
    BY <1>3, <2>1
<1>5. choice = [i \in 1..Len(glob) + 1 |-> Clauses(choice, i)]
  <2>. HIDE DEF f, Clauses
  <2>. QED
    BY <1>4 DEF choice
<1>6. Globs(glob, word) <=> 0 \in choice[1]
  BY DEF Globs, next, runes
<1>. HIDE DEF choice
<1>7. \A i \in 1..Len(glob) + 1 : choice[i] = Clauses(choice, i)
  <2>. HIDE DEF Clauses
  <2>. QED
    BY <1>5
<1>8. \A i \in 1..Len(glob) + 1 : choice[i] \subseteq 0..n
  <2>. SUFFICES ASSUME NEW i \in 1..Len(glob) + 1 PROVE Clauses(choice, i) \subseteq 0..n
    BY <1>7
  <2>1. CASE i > Len(glob)
    BY <2>1
  <2>2. CASE i <= Len(glob) /\ glob[i] = "*"
    BY <2>2
  <2>3. CASE i <= Len(glob) /\ glob[i] # "*"
    BY <2>3
  <2>. QED
    BY <2>1, <2>2, <2>3
<1>. DEFINE R == {at \in D : at[2] \in choice[at[1]]}
<1>9. ASSUME NEW i \in 1..Len(glob) + 1, NEW x \in 0..n PROVE <<i, x>> \in R <=> x \in choice[i]
  OBVIOUS
<1>. HIDE DEF R
<1>10. GlobRests(R, glob, word)
  <2>. SUFFICES ASSUME NEW i \in 1..Len(glob) + 1, NEW x \in 0..Len(word)
       PROVE  <<i, x>> \in R <=>
                IF i > Len(glob) THEN x = Len(word)
                ELSE IF glob[i] = "*" THEN \E y \in x..Len(word) : <<i + 1, y>> \in R
                ELSE /\ x < Len(word) /\ word[x + 1] \in Element(glob, i).runes
                     /\ <<Element(glob, i).next, x + 1>> \in R
    BY DEF GlobRests
  <2>1. <<i, x>> \in R <=> x \in Clauses(choice, i)
    BY <1>7, <1>9
  <2>2. CASE i > Len(glob)
    BY <2>1, <2>2
  <2>3. CASE i <= Len(glob) /\ glob[i] = "*"
    <3>1. x \in Clauses(choice, i) <=> \E y \in choice[i + 1] : x <= y
      BY <1>0, <2>3
    <3>2. \A y \in 0..n : <<i + 1, y>> \in R <=> y \in choice[i + 1]
      BY <1>9, <2>3
    <3>3. choice[i + 1] \subseteq 0..n
      BY <1>8, <2>3
    <3>. HIDE DEF Clauses
    <3>4. (\E y \in choice[i + 1] : x <= y) <=> \E y \in x..n : <<i + 1, y>> \in R
      <4>. DEFINE T == choice[i + 1]
      <4>. HIDE DEF T
      <4>1. ASSUME NEW y \in x..n, <<i + 1, y>> \in R PROVE y \in T /\ x <= y
        BY <3>2, <4>1 DEF T
      <4>2. ASSUME NEW y \in T, x <= y PROVE y \in x..n /\ <<i + 1, y>> \in R
        <5>1. y \in 0..n
          BY <3>3 DEF T
        <5>. QED
          BY <3>2, <4>2, <5>1 DEF T
      <4>3. (\E y \in x..n : <<i + 1, y>> \in R) <=> \E y \in T : x <= y
        BY <4>1, <4>2, Zenon
      <4>. QED
        BY <4>3 DEF T
    <3>5. <<i, x>> \in R <=> \E y \in x..n : <<i + 1, y>> \in R
      BY <2>1, <3>1, <3>4, Zenon
    <3>6. ~(i > Len(glob))
      BY <1>0, <2>3
    <3>. QED
      BY <2>3, <3>5, <3>6, Zenon
  <2>4. CASE i <= Len(glob) /\ glob[i] # "*"
    <3>0. Clauses(choice, i) = {y \in 0..n - 1 : word[y + 1] \in runes(i) /\ y + 1 \in choice[next(i)]}
      BY <2>4
    <3>1. x \in Clauses(choice, i) <=> x < n /\ word[x + 1] \in runes(i) /\ x + 1 \in choice[next(i)]
      <4>. HIDE DEF Clauses, next, runes
      <4>1. x \in 0..n - 1 <=> x < n
        OBVIOUS
      <4>. QED
        BY <3>0, <4>1
    <3>2. next(i) \in 1..Len(glob) + 1
      BY <1>0, <2>4
    <3>3. x < n => (<<next(i), x + 1>> \in R <=> x + 1 \in choice[next(i)])
      BY <1>9, <3>2
    <3>. HIDE DEF Clauses
    <3>. QED
      BY <2>1, <2>4, <3>1, <3>3 DEF next, runes
  <2>. QED
    BY <2>2, <2>3, <2>4
<1>11. <<1, 0>> \in R <=> 0 \in choice[1]
  BY <1>9
<1>. QED
  BY <1>6, <1>10, <1>11

\* glob is p from a to b, up to a separator or the end of p, and word is s from e to
\* f, up to a separator or the end of s: aligned are places where fnmatch may stand
\* in glob, so that no escape takes along what follows it.
Facing(p, s, pathname, a, b, e, f, glob, word, aligned) ==
  /\ Len(p) \in Nat /\ Len(s) \in Nat /\ pathname \in BOOLEAN
  /\ a \in Nat /\ b \in Nat /\ e \in Nat /\ f \in Nat
  /\ 1 <= a /\ a <= b + 1 /\ b <= Len(p) /\ 1 <= e /\ e <= f + 1 /\ f <= Len(s)
  /\ Len(glob) = b + 1 - a /\ \A k \in 1..Len(glob) : glob[k] = p[a + k - 1] /\ glob[k] # "["
  /\ Len(word) = f + 1 - e
  /\ \A k \in 1..Len(word) : word[k] = s[e + k - 1] /\ word[k] # "/" /\ word[k] \in Runes \cup DOMAIN Code
  /\ b < Len(p) => p[b + 1] = "/"
  /\ f < Len(s) => s[f + 1] = "/"
  /\ b < Len(p) \/ f < Len(s) => pathname /\ \A k \in 1..Len(glob) : glob[k] # "/"
  /\ a \in aligned
  /\ \A i \in a..b : i \in aligned =>
       IF p[i] = "esc" THEN (i < b /\ i + 2 \in aligned) \/ i = Len(p) ELSE i + 1 \in aligned

\* What fnmatch comes to after both.
Beyond(m, p, s, b, f) ==
  IF b = Len(p) THEN f = Len(s) ELSE f < Len(s) /\ m[<<b + 2, f + 2>>]

\* The end of the glob.
LEMMA FacingEnd ==
  ASSUME NEW m, NEW p, NEW s, NEW pathname, NEW a, NEW b, NEW e, NEW f, NEW glob, NEW word, NEW aligned,
         Facing(p, s, pathname, a, b, e, f, glob, word, aligned), Finds(m, p, s, pathname),
         NEW j \in e..f + 1
  PROVE  m[<<b + 1, j>>] <=> j = f + 1 /\ Beyond(m, p, s, b, f)
<1>1. /\ Len(p) \in Nat /\ Len(s) \in Nat /\ b \in Nat /\ f \in Nat /\ e \in Nat
      /\ b <= Len(p) /\ f <= Len(s) /\ 1 <= e
      /\ b < Len(p) => p[b + 1] = "/"
      /\ f < Len(s) => s[f + 1] = "/"
  BY DEF Facing
<1>2. \A k \in e..f : s[k] # "/"
  <2>1. \A k \in e..f : k - e + 1 \in 1..Len(word) /\ e + (k - e + 1) - 1 = k
    BY <1>1 DEF Facing
  <2>2. \A k \in 1..Len(word) : word[k] = s[e + k - 1] /\ word[k] # "/"
    BY DEF Facing
  <2>. QED
    BY <2>1, <2>2
<1>3. b + 1 \in 1..Len(p) + 1 /\ j \in 1..Len(s) + 1
  BY <1>1
<1>4. m[<<b + 1, j>>] <=> \/ AtEnd(p, s, pathname, b + 1, j)
                          \/ \E y \in Onward(p, s, pathname, b + 1, j) : m[y]
  BY <1>3 DEF Finds
<1>5. CASE b = Len(p)
  <2>1. AtEnd(p, s, pathname, b + 1, j) <=> j > Len(s)
    BY <1>1, <1>5 DEF AtEnd
  <2>2. Onward(p, s, pathname, b + 1, j) = {}
    BY <1>1, <1>5 DEF Onward
  <2>. QED
    BY <1>1, <1>4, <1>5, <2>1, <2>2 DEF Beyond
<1>6. CASE b < Len(p)
  <2>1. ~AtEnd(p, s, pathname, b + 1, j)
    BY <1>1, <1>6 DEF AtEnd
  <2>2. Onward(p, s, pathname, b + 1, j) = IF j <= Len(s) /\ s[j] = "/" THEN {<<b + 2, j + 1>>} ELSE {}
    BY <1>1, <1>6 DEF Onward
  <2>3. j <= Len(s) /\ s[j] = "/" <=> j = f + 1 /\ f < Len(s)
    BY <1>1, <1>2
  <2>4. m[<<b + 1, j>>] <=> j <= Len(s) /\ s[j] = "/" /\ m[<<b + 2, j + 1>>]
    BY <1>4, <2>1, <2>2
  <2>5. j = f + 1 => j + 1 = f + 2
    BY <1>1
  <2>. QED
    BY <1>1, <1>6, <2>3, <2>4, <2>5, SMTT(60) DEF Beyond
<1>. QED
  BY <1>1, <1>5, <1>6

\* From place i on fnmatch finds in p and s what the glob and the word have there,
\* and what comes after both.
Agrees(m, L, beyond, a, e, f, i) ==
  \A j \in e..f + 1 : m[<<i, j>>] <=> beyond /\ <<i + 1 - a, j - e>> \in L

LEMMA FacingFacts ==
  ASSUME NEW p, NEW s, NEW pathname, NEW a, NEW b, NEW e, NEW f, NEW glob, NEW word, NEW aligned,
         Facing(p, s, pathname, a, b, e, f, glob, word, aligned), NEW i \in a..b, i \in aligned
  PROVE  /\ Len(p) \in Nat /\ Len(s) \in Nat /\ i \in 1..Len(p) /\ i + 1 - a \in 1..Len(glob)
         /\ a \in Nat /\ b \in Nat /\ e \in Nat /\ f \in Nat /\ 1 <= a /\ 1 <= e /\ e <= f + 1 /\ f <= Len(s)
         /\ b <= Len(p)
         /\ Len(glob) = b + 1 - a /\ Len(word) = f + 1 - e
         /\ glob[i + 1 - a] = p[i] /\ p[i] # "["
         /\ b < Len(p) \/ f < Len(s) => pathname /\ p[i] # "/"
         /\ i < b => glob[i + 2 - a] = p[i + 1] /\ p[i + 1] # "["
         /\ i < b /\ (b < Len(p) \/ f < Len(s)) => p[i + 1] # "/"
         /\ IF p[i] = "esc" THEN (i < b /\ i + 2 \in aligned) \/ (i = b /\ i = Len(p)) ELSE i + 1 \in aligned
         /\ \A j \in e..f : /\ word[j - e + 1] = s[j] /\ s[j] # "/" /\ s[j] \in Runes \cup DOMAIN Code
                            /\ j \in 1..Len(s)
         /\ f < Len(s) => s[f + 1] = "/"
<1>1. /\ Len(p) \in Nat /\ Len(s) \in Nat
      /\ a \in Nat /\ b \in Nat /\ e \in Nat /\ f \in Nat /\ 1 <= a /\ 1 <= e /\ e <= f + 1 /\ f <= Len(s)
      /\ b <= Len(p)
      /\ Len(glob) = b + 1 - a /\ Len(word) = f + 1 - e
      /\ f < Len(s) => s[f + 1] = "/"
  BY DEF Facing
<1>2. i \in 1..Len(p) /\ i + 1 - a \in 1..Len(glob)
  BY <1>1
<1>3. \A k \in 1..Len(glob) : glob[k] = p[a + k - 1] /\ glob[k] # "["
  BY DEF Facing
<1>4. b < Len(p) \/ f < Len(s) => pathname /\ \A k \in 1..Len(glob) : glob[k] # "/"
  BY DEF Facing
<1>5. glob[i + 1 - a] = p[i] /\ p[i] # "["
  <2>1. a + (i + 1 - a) - 1 = i
    BY <1>1
  <2>. QED
    BY <1>2, <1>3, <2>1
<1>6. i < b => i + 2 - a \in 1..Len(glob) /\ glob[i + 2 - a] = p[i + 1] /\ p[i + 1] # "["
  <2>1. a + (i + 2 - a) - 1 = i + 1 /\ (i < b => i + 2 - a \in 1..Len(glob))
    BY <1>1
  <2>. QED
    BY <1>3, <2>1
<1>7. b < Len(p) \/ f < Len(s) => pathname /\ p[i] # "/" /\ (i < b => p[i + 1] # "/")
  BY <1>2, <1>4, <1>5, <1>6
<1>8. IF p[i] = "esc" THEN (i < b /\ i + 2 \in aligned) \/ (i = b /\ i = Len(p)) ELSE i + 1 \in aligned
  <2>1. IF p[i] = "esc" THEN (i < b /\ i + 2 \in aligned) \/ i = Len(p) ELSE i + 1 \in aligned
    BY DEF Facing
  <2>. QED
    BY <1>1, <2>1
<1>9. \A k \in 1..Len(word) : word[k] = s[e + k - 1] /\ word[k] # "/" /\ word[k] \in Runes \cup DOMAIN Code
  BY DEF Facing
<1>10. \A j \in e..f : /\ word[j - e + 1] = s[j] /\ s[j] # "/" /\ s[j] \in Runes \cup DOMAIN Code
                       /\ j \in 1..Len(s)
  <2>. SUFFICES ASSUME NEW j \in e..f
                PROVE  /\ word[j - e + 1] = s[j] /\ s[j] # "/" /\ s[j] \in Runes \cup DOMAIN Code
                       /\ j \in 1..Len(s)
    OBVIOUS
  <2>1. j - e + 1 \in 1..Len(word) /\ e + (j - e + 1) - 1 = j /\ j \in 1..Len(s)
    BY <1>1
  <2>. QED
    BY <1>9, <2>1
<1>. QED
  BY <1>1, <1>2, <1>5, <1>6, <1>7, <1>8, <1>10

LEMMA AgreesAt ==
  ASSUME NEW m, NEW L, NEW beyond, NEW a, NEW e, NEW f, NEW i,
         Agrees(m, L, beyond, a, e, f, i), NEW j \in e..f + 1
  PROVE  m[<<i, j>>] <=> beyond /\ <<i + 1 - a, j - e>> \in L
BY DEF Agrees

\* A rune, "?" or an escape in the glob.
LEMMA FacingOne ==
  ASSUME NEW m, NEW L, NEW p, NEW s, NEW pathname, NEW a, NEW b, NEW e, NEW f,
         NEW glob, NEW word, NEW aligned, NEW beyond,
         Facing(p, s, pathname, a, b, e, f, glob, word, aligned), Finds(m, p, s, pathname),
         GlobRests(L, glob, word), NEW i \in a..b, i \in aligned, p[i] # "*",
         Agrees(m, L, beyond, a, e, f, IF p[i] = "esc" /\ i < b THEN i + 2 ELSE i + 1)
  PROVE  Agrees(m, L, beyond, a, e, f, i)
<1>. DEFINE k == i + 1 - a
<1>1. /\ Len(p) \in Nat /\ Len(s) \in Nat /\ i \in 1..Len(p) /\ k \in 1..Len(glob)
      /\ a \in Nat /\ b \in Nat /\ e \in Nat /\ f \in Nat /\ 1 <= a /\ 1 <= e /\ e <= f + 1 /\ f <= Len(s)
      /\ b <= Len(p)
      /\ Len(glob) = b + 1 - a /\ Len(word) = f + 1 - e
      /\ glob[k] = p[i] /\ p[i] # "["
  BY FacingFacts
<1>2. b < Len(p) \/ f < Len(s) => pathname /\ p[i] # "/"
  BY FacingFacts, SMTT(60)
<1>3. /\ i < b => glob[i + 2 - a] = p[i + 1] /\ p[i + 1] # "["
      /\ i < b /\ (b < Len(p) \/ f < Len(s)) => p[i + 1] # "/"
  BY FacingFacts
<1>4. IF p[i] = "esc" THEN (i < b /\ i + 2 \in aligned) \/ (i = b /\ i = Len(p)) ELSE i + 1 \in aligned
  BY FacingFacts, SMTT(60)
<1>5. /\ \A j \in e..f : /\ word[j - e + 1] = s[j] /\ s[j] # "/" /\ s[j] \in Runes \cup DOMAIN Code
                         /\ j \in 1..Len(s)
      /\ f < Len(s) => s[f + 1] = "/"
  BY FacingFacts
<1>. SUFFICES ASSUME NEW j \in e..f + 1
              PROVE  m[<<i, j>>] <=> beyond /\ <<k, j - e>> \in L
  BY DEF Agrees
<1>6. j \in 1..Len(s) + 1 /\ j - e \in 0..Len(word) /\ i \in 1..Len(p) + 1 /\ k \in 1..Len(glob) + 1
  BY <1>1, SMTT(60)
<1>0. /\ k = i + 1 - a /\ k \in Nat /\ Len(glob) \in Nat /\ k \in 1..Len(glob) /\ glob[k] = p[i] /\ glob[k] # "["
      /\ k < Len(glob) <=> i < b
  BY <1>1
<1>. HIDE DEF k
<1>7. m[<<i, j>>] <=> \E y \in Onward(p, s, pathname, i, j) : m[y]
  <2>1. ~AtEnd(p, s, pathname, i, j)
    BY <1>1, SMTT(60) DEF AtEnd
  <2>. QED
    BY <1>6, <2>1 DEF Finds
<1>8. <<k, j - e>> \in L <=> /\ j - e < Len(word) /\ word[j - e + 1] \in Element(glob, k).runes
                             /\ <<Element(glob, k).next, j - e + 1>> \in L
  <2>1. ~(k > Len(glob)) /\ glob[k] # "*"
    BY <1>0, <1>1
  <2>. QED
    BY <1>6, <2>1 DEF GlobRests
<1>9. j - e < Len(word) <=> j <= f
  BY <1>1, SMTT(60)
<1>10. CASE p[i] = "?"
  <2>1. Element(glob, k) = [runes |-> Runes \cup DOMAIN Code, next |-> k + 1]
    BY <1>0, <1>10, ElementIs
  <2>2. <<k, j - e>> \in L <=> j <= f /\ <<k + 1, j + 1 - e>> \in L
    <3>1. j <= f => word[j - e + 1] \in Runes \cup DOMAIN Code
      <4>1. j <= f => j \in e..f
        BY <1>1
      <4>. QED
        BY <1>5, <4>1
    <3>2. j - e + 1 = j + 1 - e
      BY <1>1
    <3>. QED
      BY <1>8, <1>9, <2>1, <3>1, <3>2
  <2>3. m[<<i, j>>] <=> j <= Len(s) /\ ~(pathname /\ s[j] = "/") /\ m[<<i + 1, j + 1>>]
    <3>1. ~(i > Len(p)) /\ p[i] # "*"
      BY <1>1
    <3>. QED
      BY <1>1, <1>7, <1>10, <3>1, SMTT(60) DEF Onward
  <2>4. j <= f => (m[<<i + 1, j + 1>>] <=> beyond /\ <<k + 1, j + 1 - e>> \in L)
    <3>1. Agrees(m, L, beyond, a, e, f, i + 1)
      BY <1>10
    <3>2. i + 1 + 1 - a = k + 1 /\ e \in Nat /\ f \in Nat
      BY <1>0, <1>1
    <3>. SUFFICES ASSUME j <= f PROVE m[<<i + 1, j + 1>>] <=> beyond /\ <<k + 1, j + 1 - e>> \in L
      OBVIOUS
    <3>3. j + 1 \in e..f + 1
      BY <1>1
    <3>4. m[<<i + 1, j + 1>>] <=> beyond /\ <<i + 1 + 1 - a, (j + 1) - e>> \in L
      BY <3>1, <3>3, AgreesAt
    <3>5. (j + 1) - e = j + 1 - e
      BY <1>1
    <3>. QED
      BY <3>2, <3>4, <3>5
  <2>5. j <= f => j \in e..f
    BY <1>1
  <2>6. CASE j <= f
    BY <1>5, <2>2, <2>3, <2>4, <2>5, <2>6
  <2>7. CASE j = f + 1
    <3>1. ~(j <= f) /\ (j <= Len(s) => f < Len(s) /\ s[j] = "/")
      BY <1>1, <1>5, <2>7
    <3>. QED
      BY <1>2, <2>2, <2>3, <3>1
  <2>. QED
    BY <1>1, <2>6, <2>7
<1>11. CASE p[i] = "esc" /\ i < b
  <2>1. Element(glob, k) = [runes |-> {glob[k + 1]}, next |-> k + 2]
    BY <1>0, <1>11, ElementIs, ZenonT(60)
  <2>2. <<k, j - e>> \in L <=> j <= f /\ s[j] = p[i + 1] /\ <<k + 2, j + 1 - e>> \in L
    <3>1. k + 1 = i + 2 - a /\ j - e + 1 = j + 1 - e
      BY <1>0, <1>1
    <3>2. glob[k + 1] = p[i + 1]
      BY <1>3, <1>11, <3>1
    <3>3. j <= f => word[j - e + 1] = s[j]
      BY <1>1, <1>5
    <3>. QED
      BY <1>8, <1>9, <2>1, <3>1, <3>2, <3>3
  <2>3. m[<<i, j>>] <=> j <= Len(s) /\ s[j] = p[i + 1] /\ m[<<i + 2, j + 1>>]
    <3>1. ~(i > Len(p)) /\ p[i] # "*"
      BY <1>1
    <3>. QED
      <4>1. Onward(p, s, pathname, i, j) =
              IF j <= Len(s) /\ s[j] = p[i + 1] THEN {<<i + 2, j + 1>>} ELSE {}
        BY <1>1, <1>11, <3>1, SMTT(60) DEF Onward
      <4>. QED
        BY <1>7, <4>1
  <2>4. j <= f => (m[<<i + 2, j + 1>>] <=> beyond /\ <<k + 2, j + 1 - e>> \in L)
    <3>1. Agrees(m, L, beyond, a, e, f, i + 2)
      BY <1>11
    <3>2. i + 2 + 1 - a = k + 2 /\ e \in Nat /\ f \in Nat
      BY <1>0, <1>1
    <3>. SUFFICES ASSUME j <= f PROVE m[<<i + 2, j + 1>>] <=> beyond /\ <<k + 2, j + 1 - e>> \in L
      OBVIOUS
    <3>3. j + 1 \in e..f + 1
      BY <1>1
    <3>4. m[<<i + 2, j + 1>>] <=> beyond /\ <<i + 2 + 1 - a, (j + 1) - e>> \in L
      BY <3>1, <3>3, AgreesAt
    <3>5. (j + 1) - e = j + 1 - e
      BY <1>1
    <3>. QED
      BY <3>2, <3>4, <3>5
  <2>5. j <= f => j \in e..f
    BY <1>1
  <2>6. CASE j <= f
    <3>1. j <= f /\ j <= Len(s)
      BY <1>1, <2>6
    <3>. QED
      BY <2>2, <2>3, <2>4, <3>1, Zenon
  <2>7. CASE j = f + 1
    <3>1. ~(j <= f) /\ (j <= Len(s) => f < Len(s) /\ s[j] = "/")
      BY <1>1, <1>5, <2>7
    <3>. QED
      BY <1>3, <1>11, <2>2, <2>3, <3>1
  <2>. QED
    BY <1>1, <2>6, <2>7
<1>12. CASE p[i] # "?" /\ ~(p[i] = "esc" /\ i < b)
  <2>0. ~(p[i] = "esc" /\ i < Len(p))
    BY <1>1, <1>4, <1>12
  <2>1. Element(glob, k) = [runes |-> {glob[k]}, next |-> k + 1]
    BY <1>0, <1>12, ElementIs
  <2>2. <<k, j - e>> \in L <=> j <= f /\ s[j] = p[i] /\ <<k + 1, j + 1 - e>> \in L
    <3>1. j - e + 1 = j + 1 - e
      BY <1>1
    <3>3. j <= f => word[j - e + 1] = s[j]
      BY <1>1, <1>5
    <3>. QED
      BY <1>0, <1>8, <1>9, <2>1, <3>1, <3>3, SMTT(60)
  <2>3. m[<<i, j>>] <=> j <= Len(s) /\ s[j] = p[i] /\ m[<<i + 1, j + 1>>]
    <3>1. ~(i > Len(p)) /\ p[i] # "*"
      BY <1>1
    <3>. QED
      BY <1>1, <1>7, <1>12, <3>1, <2>0, SMTT(60) DEF Onward
  <2>4. j <= f => (m[<<i + 1, j + 1>>] <=> beyond /\ <<k + 1, j + 1 - e>> \in L)
    <3>1. Agrees(m, L, beyond, a, e, f, i + 1)
      BY <1>12
    <3>2. i + 1 + 1 - a = k + 1 /\ e \in Nat /\ f \in Nat
      BY <1>0, <1>1
    <3>. SUFFICES ASSUME j <= f PROVE m[<<i + 1, j + 1>>] <=> beyond /\ <<k + 1, j + 1 - e>> \in L
      OBVIOUS
    <3>3. j + 1 \in e..f + 1
      BY <1>1
    <3>4. m[<<i + 1, j + 1>>] <=> beyond /\ <<i + 1 + 1 - a, (j + 1) - e>> \in L
      BY <3>1, <3>3, AgreesAt
    <3>5. (j + 1) - e = j + 1 - e
      BY <1>1
    <3>. QED
      BY <3>2, <3>4, <3>5
  <2>5. j <= f => j \in e..f
    BY <1>1
  <2>6. CASE j <= f
    <3>1. j <= f /\ j <= Len(s)
      BY <1>1, <2>6
    <3>. QED
      BY <2>2, <2>3, <2>4, <3>1, Zenon
  <2>7. CASE j = f + 1
    <3>1. ~(j <= f) /\ (j <= Len(s) => f < Len(s) /\ s[j] = "/")
      BY <1>1, <1>5, <2>7
    <3>. QED
      BY <1>2, <2>2, <2>3, <3>1
  <2>. QED
    BY <1>1, <2>6, <2>7
<1>. QED
  BY <1>10, <1>11, <1>12

LEMMA StarsEndStep ==
  ASSUME NEW p, Len(p) \in Nat, NEW i \in 1..Len(p), p[i] = "*"
  PROVE  StarsEnd(p, i) = IF i < Len(p) /\ p[i + 1] = "*" THEN StarsEnd(p, i + 1) ELSE i + 1
<1>. DEFINE x == StarsEnd(p, i)
            y == StarsEnd(p, i + 1)
<1>1. /\ x \in (i + 1)..Len(p) + 1 /\ (x <= Len(p) => p[x] # "*")
      /\ \A k \in i..(x - 1) : p[k] = "*"
  BY StarsEndIs
<1>2. i < Len(p) => /\ y \in (i + 1)..Len(p) + 1 /\ (y <= Len(p) => p[y] # "*")
                    /\ \A k \in (i + 1)..(y - 1) : p[k] = "*"
  <2>. SUFFICES ASSUME i < Len(p)
                PROVE  /\ y \in (i + 1)..Len(p) + 1 /\ (y <= Len(p) => p[y] # "*")
                       /\ \A k \in (i + 1)..(y - 1) : p[k] = "*"
    OBVIOUS
  <2>1. i + 1 \in 1..Len(p)
    OBVIOUS
  <2>. QED
    BY <2>1, StarsEndIs
<1>. HIDE DEF x, y
<1>3. CASE i < Len(p) /\ p[i + 1] = "*"
  <2>1. y # i + 1 /\ x # i + 1
    BY <1>1, <1>2, <1>3
  <2>2. ~(x < y)
    BY <1>1, <1>2, <1>3, <2>1
  <2>3. ~(y < x)
    BY <1>1, <1>2, <1>3, <2>1
  <2>4. x = y
    BY <1>1, <1>2, <1>3, <2>2, <2>3
  <2>. QED
    BY <1>3, <2>4 DEF x, y
<1>4. CASE ~(i < Len(p) /\ p[i + 1] = "*")
  <2>1. x = i + 1
    <3>1. CASE x > i + 1
      <4>1. i + 1 \in i..(x - 1) /\ i + 1 <= Len(p)
        BY <1>1, <3>1
      <4>2. p[i + 1] = "*"
        BY <1>1, <4>1
      <4>3. i < Len(p)
        BY <4>1
      <4>. QED
        BY <1>4, <4>2, <4>3
    <3>. QED
      BY <1>1, <3>1
  <2>. QED
    BY <1>4, <2>1 DEF x
<1>. QED
  BY <1>3, <1>4

\* Stars in the glob.
LEMMA FacingStar ==
  ASSUME NEW m, NEW L, NEW p, NEW s, NEW pathname, NEW a, NEW b, NEW e, NEW f,
         NEW glob, NEW word, NEW aligned,
         Facing(p, s, pathname, a, b, e, f, glob, word, aligned), Finds(m, p, s, pathname),
         GlobRests(L, glob, word), NEW i \in a..b, i \in aligned, p[i] = "*",
         Agrees(m, L, Beyond(m, p, s, b, f), a, e, f, i + 1)
  PROVE  Agrees(m, L, Beyond(m, p, s, b, f), a, e, f, i)
<1>. DEFINE k == i + 1 - a
            n == Len(word)
            beyond == Beyond(m, p, s, b, f)
            q == StarsEnd(p, i)
<1>1. /\ Len(p) \in Nat /\ Len(s) \in Nat /\ i \in 1..Len(p) /\ k \in 1..Len(glob)
      /\ a \in Nat /\ b \in Nat /\ e \in Nat /\ f \in Nat /\ 1 <= a /\ 1 <= e /\ e <= f + 1 /\ f <= Len(s)
      /\ b <= Len(p)
      /\ Len(glob) = b + 1 - a /\ n = f + 1 - e
      /\ glob[k] = p[i]
  BY FacingFacts, SMTT(60)
<1>2. b < Len(p) \/ f < Len(s) => pathname
  BY FacingFacts
<1>3. /\ i < b => glob[i + 2 - a] = p[i + 1] /\ p[i + 1] # "["
      /\ i < b /\ (b < Len(p) \/ f < Len(s)) => p[i + 1] # "/"
  BY FacingFacts
<1>4. pathname \in BOOLEAN /\ (b < Len(p) => p[b + 1] = "/")
  BY DEF Facing
<1>5. /\ \A j \in e..f : /\ word[j - e + 1] = s[j] /\ s[j] # "/" /\ s[j] \in Runes \cup DOMAIN Code
                         /\ j \in 1..Len(s)
      /\ f < Len(s) => s[f + 1] = "/"
  BY FacingFacts
<1>6. k + 1 = i + 2 - a /\ k + 1 = i + 1 + 1 - a /\ (i < b <=> k < Len(glob)) /\ k + 1 \in 1..Len(glob) + 1
  BY <1>1
<1>7. Len(glob) \in Nat /\ n \in Nat
  BY <1>1
<1>8. q = IF i < Len(p) /\ p[i + 1] = "*" THEN StarsEnd(p, i + 1) ELSE i + 1
  BY <1>1, StarsEndStep
<1>. SUFFICES ASSUME NEW j \in e..f + 1
              PROVE  m[<<i, j>>] <=> beyond /\ <<k, j - e>> \in L
  BY DEF Agrees
<1>. HIDE DEF k, q, beyond, n
<1>9. j \in 1..Len(s) + 1 /\ j - e \in 0..n /\ i \in 1..Len(p) + 1 /\ k \in 1..Len(glob) + 1
  BY <1>1
<1>10. m[<<i, j>>] <=> \/ AtEnd(p, s, pathname, i, j)
                       \/ \E y \in Onward(p, s, pathname, i, j) : m[y]
  BY <1>9 DEF Finds
<1>11. \A x \in 0..n : <<k, x>> \in L <=> \E y \in x..n : <<k + 1, y>> \in L
  <2>1. ~(k > Len(glob)) /\ glob[k] = "*"
    BY <1>1, <1>7
  <2>. QED
    BY <1>9, <2>1 DEF GlobRests, n
<1>12. \A t \in e..f + 1 : m[<<i + 1, t>>] <=> beyond /\ <<k + 1, t - e>> \in L
  <2>1. \A t \in e..f + 1 : m[<<i + 1, t>>] <=> beyond /\ <<i + 1 + 1 - a, t - e>> \in L
    BY DEF Agrees, beyond
  <2>. QED
    BY <1>6, <2>1
<1>. DEFINE S == SeparatorsFrom(s, pathname, j)
<1>13. /\ f = Len(s) => S = {}
       /\ f < Len(s) => S # {} /\ f + 1 \in S /\ Min(S) = f + 1 /\ \A t \in S : f + 1 <= t
  <2>1. \A t \in S : t \in j..Len(s) /\ s[t] = "/"
    BY DEF SeparatorsFrom
  <2>2. ASSUME NEW t \in S PROVE f + 1 <= t
    <3>1. t \in j..Len(s) /\ s[t] = "/"
      BY <2>1
    <3>2. t <= f => t \in e..f
      BY <1>1, <3>1
    <3>3. ~(t <= f)
      BY <1>5, <3>1, <3>2
    <3>. QED
      BY <1>1, <3>1, <3>3
  <2>3. f = Len(s) => S = {}
    BY <1>1, <2>1, <2>2
  <2>4. ASSUME f < Len(s) PROVE f + 1 \in S
    <3>1. pathname /\ s[f + 1] = "/" /\ f + 1 \in j..Len(s)
      BY <1>1, <1>2, <1>5, <2>4
    <3>. QED
      BY <3>1 DEF SeparatorsFrom
  <2>5. S \subseteq Nat
    BY <1>9, <2>1
  <2>. HIDE DEF S
  <2>6. ASSUME f < Len(s) PROVE Min(S) = f + 1
    <3>1. Min(S) \in S /\ \A t \in S : Min(S) <= t
      BY <2>4, <2>5, <2>6, MinOf
    <3>. QED
      <4>1. Min(S) \in Nat /\ f + 1 <= Min(S)
        BY <2>2, <2>5, <3>1
      <4>2. Min(S) <= f + 1
        BY <2>4, <2>6, <3>1
      <4>. QED
        BY <1>1, <4>1, <4>2
  <2>. QED
    BY <2>2, <2>3, <2>4, <2>6
<1>. HIDE DEF S
<1>14. CASE i < b /\ p[i + 1] = "*"
  <2>1. i + 1 \in 1..Len(p) + 1 /\ ~(i + 1 > Len(p)) /\ ~(i > Len(p)) /\ q = StarsEnd(p, i + 1) /\ p[i] = "*"
    BY <1>1, <1>8, <1>14
  <2>2. Onward(p, s, pathname, i, j) = Onward(p, s, pathname, i + 1, j)
    BY <1>14, <2>1 DEF Onward, q
  <2>3. AtEnd(p, s, pathname, i, j) <=> AtEnd(p, s, pathname, i + 1, j)
    BY <1>14, <2>1 DEF AtEnd, q
  <2>4. m[<<i + 1, j>>] <=> \/ AtEnd(p, s, pathname, i + 1, j)
                            \/ \E y \in Onward(p, s, pathname, i + 1, j) : m[y]
    BY <1>9, <2>1 DEF Finds
  <2>5. m[<<i, j>>] <=> m[<<i + 1, j>>]
    BY <1>10, <2>2, <2>3, <2>4, Zenon
  <2>6. \A x \in 0..n : <<k + 1, x>> \in L <=> \E y \in x..n : <<k + 1 + 1, y>> \in L
    <3>1. ~(k + 1 > Len(glob)) /\ glob[k + 1] = "*"
      BY <1>1, <1>3, <1>6, <1>7, <1>14
    <3>. QED
      BY <1>6, <3>1 DEF GlobRests, n
  <2>7. \A x \in 0..n : <<k, x>> \in L <=> <<k + 1, x>> \in L
    <3>. SUFFICES ASSUME NEW x \in 0..n PROVE <<k, x>> \in L <=> <<k + 1, x>> \in L
      OBVIOUS
    <3>1. ASSUME <<k + 1, x>> \in L PROVE <<k, x>> \in L
      <4>1. x \in x..n
        BY <1>7
      <4>. QED
        BY <1>11, <3>1, <4>1
    <3>2. ASSUME <<k, x>> \in L PROVE <<k + 1, x>> \in L
      <4>1. PICK y \in x..n : <<k + 1, y>> \in L
        BY <1>11, <3>2
      <4>2. y \in 0..n
        BY <1>7, <4>1
      <4>3. PICK z \in y..n : <<k + 1 + 1, z>> \in L
        BY <2>6, <4>1, <4>2
      <4>4. z \in x..n
        BY <1>7, <4>1, <4>3
      <4>. QED
        BY <2>6, <4>3, <4>4
    <3>. QED
      BY <3>1, <3>2
  <2>. QED
    BY <1>9, <1>12, <2>5, <2>7
<1>15. CASE i < b /\ p[i + 1] # "*"
  <2>1. q = i + 1 /\ ~(q > Len(p)) /\ ~(i > Len(p)) /\ k + 1 \in 1..Len(glob) /\ glob[k + 1] = p[i + 1]
    BY <1>1, <1>3, <1>6, <1>8, <1>15
  <2>2. ~AtEnd(p, s, pathname, i, j)
    BY <2>1 DEF AtEnd, q
  <2>3. \A y \in 0..n : <<k + 1, y>> \in L => y < n /\ word[y + 1] \in Element(glob, k + 1).runes
    <3>1. ~(k + 1 > Len(glob)) /\ glob[k + 1] # "*" /\ k + 1 \in 1..Len(glob) + 1
      BY <1>7, <1>15, <2>1
    <3>. QED
      BY <3>1 DEF GlobRests, n
  <2>4. CASE pathname /\ p[i + 1] = "/"
    <3>1. b = Len(p) /\ f = Len(s)
      BY <1>1, <1>3, <1>15, <2>4
    <3>2. Onward(p, s, pathname, i, j) = {}
      <4>1. S = {}
        BY <1>13, <3>1
      <4>2. p[i] = "*" /\ p[q] = "/" /\ pathname
        BY <2>1, <2>4
      <4>. QED
        BY <2>1, <4>1, <4>2, Zenon DEF Onward, q, S
    <3>3. Element(glob, k + 1) = [runes |-> {glob[k + 1]}, next |-> k + 1 + 1]
      <4>1. glob[k + 1] # "[" /\ glob[k + 1] # "?" /\ glob[k + 1] # "esc"
        BY <2>1, <2>4
      <4>. QED
        BY <1>7, <2>1, <4>1, ElementIs
    <3>4. ASSUME NEW y \in 0..n PROVE <<k + 1, y>> \notin L
      <4>1. y < n => y + e \in e..f /\ y + e - e + 1 = y + 1
        BY <1>1
      <4>2. y < n => word[y + 1] # "/"
        <5>1. ASSUME y < n PROVE word[y + e - e + 1] # "/"
          <6>1. y + e \in e..f
            BY <4>1, <5>1
          <6>. DEFINE z == y + e
          <6>2. z \in e..f
            BY <6>1
          <6>. HIDE DEF z
          <6>3. word[z - e + 1] # "/"
            BY <1>5, <6>2
          <6>. QED
            BY <1>1, <1>7, <6>3 DEF z
        <5>. QED
          BY <4>1, <5>1
      <4>. QED
        BY <2>1, <2>3, <2>4, <3>3, <4>2
    <3>5. <<k, j - e>> \notin L
      <4>1. \A y \in (j - e)..n : y \in 0..n
        BY <1>7, <1>9
      <4>. QED
        BY <1>9, <1>11, <3>4, <4>1
    <3>. QED
      BY <1>10, <2>2, <3>2, <3>5
  <2>5. CASE ~(pathname /\ p[i + 1] = "/")
    <3>1. Onward(p, s, pathname, i, j) = {<<i + 1, t>> : t \in {u \in j..Len(s) : \A x \in S : u <= x}}
      <4>1. p[i] = "*" /\ ~(pathname /\ p[q] = "/")
        BY <2>1, <2>5
      <4>2. Onward(p, s, pathname, i, j) = {<<q, t>> : t \in {u \in j..Len(s) : \A x \in S : u <= x}}
        BY <2>1, <4>1, Zenon DEF Onward, q, S
      <4>. QED
        BY <2>1, <4>2
    <3>2. m[<<i, j>>] <=> \E t \in {u \in j..Len(s) : \A x \in S : u <= x} : m[<<i + 1, t>>]
      BY <1>10, <2>2, <3>1, Zenon
    <3>3. \A t \in j..Len(s) : (\A x \in S : t <= x) <=> t <= f + 1
      <4>. SUFFICES ASSUME NEW t \in j..Len(s) PROVE (\A x \in S : t <= x) <=> t <= f + 1
        OBVIOUS
      <4>1. CASE f = Len(s)
        BY <1>9, <1>13, <4>1
      <4>2. CASE f < Len(s)
        <5>1. \A x \in S : x \in Int /\ f + 1 <= x
          BY <1>9, <1>13, <4>2, SMTT(60) DEF S, SeparatorsFrom
        <5>. QED
          BY <1>1, <1>9, <1>13, <4>2, <5>1, SMTT(60)
      <4>. QED
        BY <1>1, <4>1, <4>2
    <3>4. ASSUME m[<<i, j>>] PROVE beyond /\ <<k, j - e>> \in L
      <4>1. PICK t \in j..Len(s) : t <= f + 1 /\ m[<<i + 1, t>>]
        BY <3>2, <3>3, <3>4
      <4>2. t \in e..f + 1 /\ t - e \in (j - e)..n
        BY <1>1, <4>1
      <4>3. beyond /\ <<k + 1, t - e>> \in L
        BY <1>12, <4>1, <4>2
      <4>. QED
        BY <1>9, <1>11, <4>2, <4>3
    <3>5. ASSUME beyond, <<k, j - e>> \in L PROVE m[<<i, j>>]
      <4>1. PICK y \in (j - e)..n : <<k + 1, y>> \in L
        BY <1>9, <1>11, <3>5
      <4>2. y \in 0..n
        BY <1>7, <1>9
      <4>3. y < n
        BY <2>3, <4>1, <4>2
      <4>. DEFINE t == y + e
      <4>4. t \in e..f + 1 /\ t \in j..Len(s) /\ t <= f + 1 /\ t - e = y
        BY <1>1, <4>2, <4>3
      <4>. HIDE DEF t
      <4>5. m[<<i + 1, t>>]
        BY <1>12, <3>5, <4>1, <4>4
      <4>. QED
        BY <3>2, <3>3, <4>4, <4>5
    <3>. QED
      BY <3>4, <3>5
  <2>. QED
    BY <2>4, <2>5
<1>16. CASE i = b
  <2>0. q = i + 1
    BY <1>1, <1>4, <1>8, <1>16
  <2>1. <<k, j - e>> \in L
    <3>1. <<k + 1, n>> \in L
      <4>1. k + 1 > Len(glob) /\ n \in 0..n
        BY <1>1, <1>6, <1>7, <1>16
      <4>. QED
        BY <1>6, <4>1 DEF GlobRests, n
    <3>2. n \in (j - e)..n
      BY <1>7, <1>9
    <3>. QED
      BY <1>9, <1>11, <3>1, <3>2
  <2>2. CASE b = Len(p)
    <3>1. AtEnd(p, s, pathname, i, j) <=> S = {}
      <4>1. ~(i > Len(p)) /\ q > Len(p)
        BY <1>1, <1>16, <2>0, <2>2
      <4>. QED
        BY <4>1 DEF AtEnd, q, S
    <3>2. Onward(p, s, pathname, i, j) = {}
      <4>1. ~(i > Len(p)) /\ q > Len(p)
        BY <1>1, <1>16, <2>0, <2>2
      <4>. QED
        BY <4>1 DEF Onward, q
    <3>3. S = {} <=> f = Len(s)
      BY <1>1, <1>13
    <3>. QED
      BY <1>10, <2>1, <2>2, <3>1, <3>2, <3>3 DEF beyond, Beyond
  <2>3. CASE b < Len(p)
    <3>1. ~AtEnd(p, s, pathname, i, j)
      <4>1. ~(i > Len(p)) /\ ~(q > Len(p))
        BY <1>1, <1>16, <2>0, <2>3
      <4>. QED
        BY <4>1 DEF AtEnd, q
    <3>2. Onward(p, s, pathname, i, j) = IF S # {} THEN {<<q + 1, Min(S) + 1>>} ELSE {}
      <4>1. ~(i > Len(p)) /\ ~(q > Len(p)) /\ p[q] = "/" /\ pathname
        BY <1>1, <1>2, <1>4, <1>16, <2>0, <2>3
      <4>. QED
        BY <4>1, Zenon DEF Onward, q, S
    <3>3. (S # {} <=> f < Len(s)) /\ (f < Len(s) => Min(S) + 1 = f + 2)
      BY <1>1, <1>13
    <3>4. q + 1 = b + 2
      BY <1>1, <1>16, <2>0
    <3>5. m[<<i, j>>] <=> f < Len(s) /\ m[<<b + 2, f + 2>>]
      BY <1>10, <3>1, <3>2, <3>3, <3>4
    <3>6. beyond <=> f < Len(s) /\ m[<<b + 2, f + 2>>]
      BY <1>1, <2>3, SMTT(60) DEF beyond, Beyond
    <3>. QED
      BY <2>1, <3>5, <3>6
  <2>. QED
    BY <1>1, <2>2, <2>3
<1>. QED
  BY <1>1, <1>14, <1>15, <1>16, SMTT(60)

\* What fnmatch finds where a glob and a word begin.
LEMMA FacingMatches ==
  ASSUME NEW m, NEW p, NEW s, NEW pathname, NEW a, NEW b, NEW e, NEW f,
         NEW glob, NEW word, NEW aligned,
         Facing(p, s, pathname, a, b, e, f, glob, word, aligned), Finds(m, p, s, pathname)
  PROVE  m[<<a, e>>] <=> Beyond(m, p, s, b, f) /\ Globs(glob, word)
<1>. DEFINE beyond == Beyond(m, p, s, b, f)
<1>1. /\ Len(p) \in Nat /\ Len(s) \in Nat
      /\ a \in Nat /\ b \in Nat /\ e \in Nat /\ f \in Nat /\ 1 <= a /\ 1 <= e /\ a <= b + 1 /\ e <= f + 1
      /\ b <= Len(p) /\ f <= Len(s)
      /\ Len(glob) = b + 1 - a /\ Len(word) = f + 1 - e
      /\ a \in aligned
  BY DEF Facing
<1>2. \A k \in 1..Len(glob) : glob[k] # "["
  BY DEF Facing
<1>3. Len(glob) \in Nat /\ Len(word) \in Nat
  BY <1>1
<1>4. PICK L : GlobRests(L, glob, word) /\ (Globs(glob, word) <=> <<1, 0>> \in L)
  BY <1>2, <1>3, GlobsUnfolds
<1>5. Agrees(m, L, beyond, a, e, f, b + 1)
  <2>. SUFFICES ASSUME NEW j \in e..f + 1
                PROVE  m[<<b + 1, j>>] <=> beyond /\ <<b + 1 + 1 - a, j - e>> \in L
    BY DEF Agrees
  <2>1. m[<<b + 1, j>>] <=> j = f + 1 /\ beyond
    BY FacingEnd
  <2>. DEFINE k == b + 1 + 1 - a
              x == j - e
  <2>2. k \in 1..Len(glob) + 1 /\ k > Len(glob) /\ x \in 0..Len(word) /\ (x = Len(word) <=> j = f + 1)
    BY <1>1
  <2>. HIDE DEF k, x, beyond
  <2>3. <<k, x>> \in L <=> x = Len(word)
    BY <1>4, <2>2 DEF GlobRests
  <2>4. m[<<b + 1, j>>] <=> beyond /\ <<k, x>> \in L
    BY <2>1, <2>2, <2>3
  <2>. QED
    BY <2>4 DEF k, x
<1>. HIDE DEF beyond
<1>6. ASSUME NEW i \in a..b, i \in aligned,
             \A h \in (i + 1)..b : h \in aligned => Agrees(m, L, beyond, a, e, f, h)
      PROVE  Agrees(m, L, beyond, a, e, f, i)
  <2>1. IF p[i] = "esc" THEN (i < b /\ i + 2 \in aligned) \/ (i = b /\ i = Len(p)) ELSE i + 1 \in aligned
    BY <1>6, FacingFacts, SMTT(60)
  <2>. DEFINE h == IF p[i] = "esc" /\ i < b THEN i + 2 ELSE i + 1
  <2>2. h \in (i + 1)..b + 1 /\ (h <= b => h \in aligned)
    BY <1>1, <2>1, SMTT(60)
  <2>3. Agrees(m, L, beyond, a, e, f, h)
    <3>. HIDE DEF h
    <3>1. CASE h = b + 1
      BY <1>5, <3>1
    <3>2. CASE h <= b
      <4>1. h \in (i + 1)..b
        BY <1>1, <2>2, <3>2
      <4>. QED
        BY <1>6, <2>2, <3>2, <4>1
    <3>. QED
      BY <1>1, <2>2, <3>1, <3>2
  <2>4. CASE p[i] # "*"
    BY <1>4, <1>6, <2>3, <2>4, FacingOne
  <2>5. CASE p[i] = "*"
    <3>1. h = i + 1
      BY <2>5
    <3>2. Agrees(m, L, Beyond(m, p, s, b, f), a, e, f, i + 1)
      BY <2>3, <3>1 DEF beyond
    <3>. QED
      BY <1>4, <1>6, <2>5, <3>2, FacingStar DEF beyond
  <2>. QED
    BY <2>4, <2>5
<1>7. \A i \in a..b : i \in aligned => Agrees(m, L, beyond, a, e, f, i)
  <2>. SUFFICES ASSUME NEW i0 \in a..b, i0 \in aligned, ~Agrees(m, L, beyond, a, e, f, i0) PROVE FALSE
    OBVIOUS
  <2>. DEFINE T == {b - i : i \in {h \in a..b : h \in aligned /\ ~Agrees(m, L, beyond, a, e, f, h)}}
  <2>1. T \subseteq Nat /\ b - i0 \in T
    BY <1>1, SMTT(60)
  <2>2. PICK t \in T : \A u \in T : t <= u
    <3>. HIDE DEF T
    <3>1. T # {} /\ T \subseteq Nat
      BY <2>1
    <3>. QED
      BY <3>1, LeastNatural
  <2>3. PICK i \in a..b : t = b - i /\ i \in aligned /\ ~Agrees(m, L, beyond, a, e, f, i)
    BY <2>2
  <2>4. ASSUME NEW h \in (i + 1)..b, h \in aligned PROVE Agrees(m, L, beyond, a, e, f, h)
    <3>. SUFFICES ASSUME ~Agrees(m, L, beyond, a, e, f, h) PROVE FALSE
      OBVIOUS
    <3>1. h \in a..b
      BY <1>1
    <3>2. b - h \in T
      BY <2>4, <3>1
    <3>3. b - i <= b - h
      BY <2>2, <2>3, <3>2
    <3>. QED
      BY <1>1, <3>3
  <2>. QED
    BY <1>6, <2>3, <2>4
<1>8. Agrees(m, L, beyond, a, e, f, a)
  <2>1. CASE a <= b
    BY <1>1, <1>7, <2>1
  <2>2. CASE a = b + 1
    BY <1>5, <2>2
  <2>. QED
    BY <1>1, <2>1, <2>2
<1>9. m[<<a, e>>] <=> beyond /\ <<a + 1 - a, e - e>> \in L
  <2>1. e \in e..f + 1
    BY <1>1
  <2>. QED
    BY <1>8, <2>1, AgreesAt
<1>10. a + 1 - a = 1 /\ e - e = 0
  BY <1>1
<1>. QED
  BY <1>4, <1>9, <1>10 DEF beyond

\* fnmatch, however many runes its stars have to take in, matches a word without
\* separators exactly as the glob says of the word, with FNM_PATHNAME or without, for
\* every glob without brackets and every word.
THEOREM FnmatchIsGlob ==
  ASSUME NEW glob \in Seq(Runes \cup DOMAIN Code), NEW word \in Seq(Runes \cup DOMAIN Code),
         NEW pathname \in BOOLEAN,
         \A i \in 1..Len(glob) : glob[i] # "[", \A j \in 1..Len(word) : word[j] # "/"
  PROVE  Fnmatch(glob, word, pathname) <=> Globs(glob, word)
<1>1. Len(glob) \in Nat /\ Len(word) \in Nat
  BY LenProperties
<1>2. PICK m : Finds(m, glob, word, pathname) /\ (Fnmatch(glob, word, pathname) <=> m[<<1, 1>>])
  BY <1>1, FnmatchUnfolds
<1>3. Facing(glob, word, pathname, 1, Len(glob), 1, Len(word), glob, word, Nat)
  <2>1. \A j \in 1..Len(word) : word[j] \in Runes \cup DOMAIN Code
    BY ElementOfSeq
  <2>2. \A k \in 1..Len(glob) : glob[k] = glob[1 + k - 1] /\ glob[k] # "["
    BY <1>1
  <2>3. \A k \in 1..Len(word) : word[k] = word[1 + k - 1] /\ word[k] # "/" /\ word[k] \in Runes \cup DOMAIN Code
    BY <1>1, <2>1
  <2>4. \A i \in 1..Len(glob) : i \in Nat /\ i + 1 \in Nat /\ i + 2 \in Nat /\ (i < Len(glob) \/ i = Len(glob))
    BY <1>1
  <2>. QED
    BY <1>1, <2>2, <2>3, <2>4 DEF Facing
<1>4. Beyond(m, glob, word, Len(glob), Len(word))
  BY <1>1 DEF Beyond
<1>. QED
  BY <1>2, <1>3, <1>4, FacingMatches

-----------------------------------------------------------------------------
(* Sequences of sequences                                                  *)

\* h are the concatenations of the first of seqs.
Concats(h, seqs) ==
  /\ h[1] = seqs[1]
  /\ \A i \in 2..Len(seqs) : h[i] = h[i - 1] \o seqs[i]

LEMMA Upward ==
  ASSUME NEW lo \in Nat, NEW hi \in Nat, NEW S,
         \A i \in lo..hi : (\A h \in lo..(i - 1) : h \in S) => i \in S
  PROVE  \A i \in lo..hi : i \in S
<1>. DEFINE T == {i \in lo..hi : i \notin S}
<1>1. SUFFICES ASSUME T # {} PROVE FALSE
  OBVIOUS
<1>2. T \subseteq Nat
  OBVIOUS
<1>3. PICK i \in T : \A m \in T : i <= m
  BY <1>1, <1>2, LeastNatural
<1>4. ASSUME NEW h \in lo..(i - 1) PROVE h \in S
  BY <1>3
<1>. QED
  BY <1>3, <1>4

LEMMA Downward ==
  ASSUME NEW lo \in Nat, NEW hi \in Nat, NEW S,
         \A i \in lo..hi : (\A h \in (i + 1)..hi : h \in S) => i \in S
  PROVE  \A i \in lo..hi : i \in S
<1>. DEFINE T == {hi - i : i \in {h \in lo..hi : h \notin S}}
<1>1. SUFFICES ASSUME NEW j \in lo..hi, j \notin S PROVE FALSE
  OBVIOUS
<1>2. T \subseteq Nat /\ T # {}
  <2>1. hi - j \in T
    BY <1>1
  <2>. QED
    BY <2>1
<1>3. PICK t \in T : \A m \in T : t <= m
  <2>. HIDE DEF T
  <2>. QED
    BY <1>2, LeastNatural
<1>4. PICK i \in lo..hi : t = hi - i /\ i \notin S
  BY <1>3
<1>5. ASSUME NEW h \in (i + 1)..hi PROVE h \in S
  <2>. SUFFICES ASSUME h \notin S PROVE FALSE
    OBVIOUS
  <2>1. hi - h \in T
    BY <1>4
  <2>2. hi - i <= hi - h
    BY <1>3, <1>4, <2>1
  <2>. QED
    BY <1>4, <2>2
<1>. QED
  BY <1>4, <1>5

LEMMA ConcatsAreThere ==
  ASSUME NEW seqs, Len(seqs) \in Nat \ {0}
  PROVE  \E h : h = [i \in 1..Len(seqs) |-> h[i]] /\ Concats(h, seqs)
<1>. DEFINE n == Len(seqs)
            Built_(h, l) == /\ h = [i \in 1..l |-> h[i]] /\ h[1] = seqs[1]
                            /\ \A i \in 2..l : h[i] = h[i - 1] \o seqs[i]
            S == {l \in 1..n : \E h : Built_(h, l)}
<1>1. ASSUME NEW l \in 1..n, \A m \in 1..(l - 1) : m \in S PROVE l \in S
  <2>1. CASE l = 1
    <3>. DEFINE h == [i \in 1..l |-> seqs[1]]
    <3>1. Built_(h, l)
      BY <2>1
    <3>. QED
      BY <3>1
  <2>2. CASE l # 1
    <3>0. l - 1 \in 1..(l - 1)
      BY <2>2
    <3>1. l - 1 \in S
      BY <1>1, <3>0, Zenon
    <3>2. PICK g : Built_(g, l - 1)
      BY <3>1
    <3>. DEFINE h == [i \in 1..l |-> IF i = l THEN g[l - 1] \o seqs[l] ELSE g[i]]
    <3>3. h[1] = seqs[1]
      BY <2>2, <3>2
    <3>4. ASSUME NEW i \in 2..l PROVE h[i] = h[i - 1] \o seqs[i]
      <4>1. CASE i = l
        <5>1. l \in 1..l /\ l - 1 \in 1..l /\ l - 1 # l
          BY <2>2
        <5>2. h[l] = g[l - 1] \o seqs[l]
          BY <5>1, Zenon
        <5>3. h[l - 1] = g[l - 1]
          BY <5>1
        <5>. QED
          BY <4>1, <5>2, <5>3
      <4>2. CASE i # l
        <5>1. h[i] = g[i] /\ h[i - 1] = g[i - 1] /\ i \in 2..(l - 1)
          BY <4>2
        <5>. QED
          BY <3>2, <5>1, Zenon
      <4>. QED
        BY <4>1, <4>2
    <3>5. h = [i \in 1..l |-> h[i]]
      OBVIOUS
    <3>. HIDE DEF h
    <3>6. Built_(h, l)
      BY <3>3, <3>4, <3>5
    <3>. QED
      BY <3>6
  <2>. QED
    BY <2>1, <2>2
<1>. HIDE DEF S
<1>2. \A l \in 1..n : l \in S
  BY <1>1, Upward, 1 \in Nat, n \in Nat
<1>3. n \in S
  BY <1>2
<1>. QED
  BY <1>3 DEF S, Concats

LEMMA FlattenIs ==
  ASSUME NEW seqs, Len(seqs) \in Nat \ {0}, NEW h,
         h = [i \in 1..Len(seqs) |-> h[i]], Concats(h, seqs)
  PROVE  FlattenSeq(seqs) = h[Len(seqs)]
<1>. DEFINE n == Len(seqs)
            Clauses(f, i) == IF i = 1 THEN seqs[i] ELSE f[i - 1] \o seqs[i]
            flatten == CHOOSE f : f = [i \in 1..n |-> Clauses(f, i)]
<1>1. h = [i \in 1..n |-> Clauses(h, i)]
  <2>1. \A i \in 1..n : h[i] = Clauses(h, i)
    <3>1. \A i \in 1..n : i = 1 \/ i \in 2..n
      OBVIOUS
    <3>. QED
      BY <3>1 DEF Concats
  <2>. QED
    BY <2>1
<1>. HIDE DEF Clauses
<1>2. flatten = [i \in 1..n |-> Clauses(flatten, i)]
  BY <1>1
<1>. HIDE DEF flatten
<1>. DEFINE S == {i \in 1..n : flatten[i] = h[i]}
<1>3. ASSUME NEW i \in 1..n, \A m \in 1..(i - 1) : m \in S PROVE i \in S
  <2>1. flatten[i] = Clauses(flatten, i) /\ h[i] = Clauses(h, i)
    BY <1>1, <1>2
  <2>2. i # 1 => flatten[i - 1] = h[i - 1]
    <3>1. i # 1 => i - 1 \in 1..(i - 1)
      OBVIOUS
    <3>. QED
      BY <1>3, <3>1
  <2>. QED
    BY <2>1, <2>2 DEF Clauses
<1>. HIDE DEF S
<1>4. \A i \in 1..n : i \in S
  BY <1>3, Upward, 1 \in Nat, n \in Nat
<1>5. flatten[n] = h[n]
  BY <1>4 DEF S
<1>6. FlattenSeq(seqs) = flatten[n]
  BY DEF FlattenSeq, flatten, Clauses
<1>. QED
  BY <1>5, <1>6

\* J is the components of a path with "/" between them, st[x] where the x-th begins.
Joins(J, parts, st) ==
  /\ Len(J) \in Nat /\ Len(parts) \in Nat \ {0} /\ st[1] = 1 /\ st[Len(parts) + 1] = Len(J) + 2
  /\ \A x \in 1..Len(parts) + 1 : st[x] \in Nat /\ 1 <= st[x] /\ st[x] <= Len(J) + 2
  /\ \A x \in 1..Len(parts) :
       /\ Len(parts[x]) \in Nat \ {0} /\ st[x + 1] = st[x] + Len(parts[x]) + 1
       /\ \A k \in 1..Len(parts[x]) : /\ parts[x][k] \in Runes \cup DOMAIN Code /\ parts[x][k] # "/"
                                      /\ J[st[x] + k - 1] = parts[x][k]
       /\ x < Len(parts) => J[st[x + 1] - 1] = "/"

\* What stands where in the concatenations.
Grows(h, seqs, n, R) ==
  /\ \A i \in 1..n : h[i] \in Seq(R) /\ Len(h[i]) \in Nat
  /\ \A i \in 2..n : Len(h[i]) = Len(h[i - 1]) + Len(seqs[i])
  /\ \A i \in 1..n : \A l \in i..n :
       Len(h[i]) <= Len(h[l]) /\ \A k \in 1..Len(h[i]) : h[l][k] = h[i][k]
  /\ \A i \in 2..n : \A k \in 1..Len(seqs[i]) : h[i][Len(h[i - 1]) + k] = seqs[i][k]

LEMMA ConcatsGrow ==
  ASSUME NEW R, NEW seqs, Len(seqs) \in Nat \ {0}, \A i \in 1..Len(seqs) : seqs[i] \in Seq(R),
         NEW h, Concats(h, seqs)
  PROVE  Grows(h, seqs, Len(seqs), R)
<1>. DEFINE n == Len(seqs)
            S == {i \in 1..n : h[i] \in Seq(R)}
<1>0. n \in Nat /\ 1 \in Nat /\ n >= 1
  OBVIOUS
<1>1. ASSUME NEW i \in 1..n, \A m \in 1..(i - 1) : m \in S PROVE i \in S
  <2>1. CASE i = 1
    BY <2>1 DEF Concats
  <2>2. CASE i # 1
    <3>1. i \in 2..n /\ i - 1 \in 1..(i - 1)
      BY <2>2
    <3>2. i - 1 \in S
      BY <1>1, <3>1, Zenon
    <3>3. h[i - 1] \in Seq(R) /\ seqs[i] \in Seq(R) /\ h[i] = h[i - 1] \o seqs[i]
      BY <3>1, <3>2 DEF Concats
    <3>4. h[i] \in Seq(R)
      BY <3>3, ConcatProperties
    <3>. QED
      BY <3>4
  <2>. QED
    BY <2>1, <2>2
<1>. HIDE DEF S
<1>2. \A i \in 1..n : i \in S
  BY <1>0, <1>1, Upward
<1>3. \A i \in 1..n : h[i] \in Seq(R) /\ Len(h[i]) \in Nat
  BY <1>2, LenProperties DEF S
<1>4. ASSUME NEW i \in 2..n
      PROVE  /\ Len(h[i]) = Len(h[i - 1]) + Len(seqs[i])
             /\ \A k \in 1..Len(h[i - 1]) : h[i][k] = h[i - 1][k]
             /\ \A k \in 1..Len(seqs[i]) : h[i][Len(h[i - 1]) + k] = seqs[i][k]
             /\ Len(seqs[i]) \in Nat
  <2>1. i \in 1..n /\ i - 1 \in 1..n
    OBVIOUS
  <2>. DEFINE a == h[i - 1]
              b == seqs[i]
              c == h[i]
  <2>2. a \in Seq(R) /\ b \in Seq(R) /\ c = a \o b /\ Len(a) \in Nat
    BY <1>3, <2>1 DEF Concats
  <2>. HIDE DEF a, b, c
  <2>3. /\ Len(b) \in Nat /\ Len(c) = Len(a) + Len(b)
        /\ \A k \in 1..Len(a) + Len(b) : c[k] = IF k <= Len(a) THEN a[k] ELSE b[k - Len(a)]
    BY <2>2, ConcatProperties, LenProperties
  <2>4. \A k \in 1..Len(a) : c[k] = a[k]
    BY <2>2, <2>3
  <2>5. ASSUME NEW k \in 1..Len(b) PROVE c[Len(a) + k] = b[k]
    <3>1. Len(a) + k \in 1..Len(a) + Len(b) /\ ~(Len(a) + k <= Len(a)) /\ (Len(a) + k) - Len(a) = k
      BY <2>2, <2>3
    <3>. QED
      BY <2>3, <3>1
  <2>. QED
    BY <2>3, <2>4, <2>5 DEF a, b, c
<1>5. ASSUME NEW i \in 1..n, NEW l0 \in i..n
      PROVE  Len(h[i]) <= Len(h[l0]) /\ \A k \in 1..Len(h[i]) : h[l0][k] = h[i][k]
  <2>. DEFINE P == {l \in i..n : Len(h[i]) <= Len(h[l]) /\ \A k \in 1..Len(h[i]) : h[l][k] = h[i][k]}
  <2>1. ASSUME NEW l \in i..n, \A m \in i..(l - 1) : m \in P PROVE l \in P
    <3>1. CASE l = i
      BY <1>3, <3>1
    <3>2. CASE l # i
      <4>1. l - 1 \in i..(l - 1) /\ l \in 2..n /\ l \in 1..n /\ l - 1 \in 1..n
        BY <3>2
      <4>2. l - 1 \in P
        BY <2>1, <4>1, Zenon
      <4>. DEFINE a == h[l - 1]
                  c == h[l]
                  d == h[i]
      <4>3. /\ Len(c) = Len(a) + Len(seqs[l]) /\ Len(seqs[l]) \in Nat
            /\ \A k \in 1..Len(a) : c[k] = a[k]
        BY <1>4, <4>1
      <4>4. Len(d) <= Len(a) /\ \A k \in 1..Len(d) : a[k] = d[k]
        BY <4>2
      <4>5. Len(a) \in Nat /\ Len(c) \in Nat /\ Len(d) \in Nat
        BY <1>3, <4>1
      <4>. HIDE DEF a, c, d
      <4>6. Len(d) <= Len(c) /\ \A k \in 1..Len(d) : c[k] = d[k]
        BY <4>3, <4>4, <4>5, SMTT(60)
      <4>. QED
        BY <4>6 DEF c, d
    <3>. QED
      BY <3>1, <3>2
  <2>. HIDE DEF P
  <2>2. i \in Nat
    OBVIOUS
  <2>3. \A l \in i..n : l \in P
    BY <1>0, <2>1, <2>2, Upward
  <2>. QED
    BY <2>3 DEF P
<1>. QED
  BY <1>3, <1>4, <1>5 DEF Grows

LEMMA JoinedIs ==
  ASSUME NEW parts \in Path, parts # <<>>
  PROVE  Joined(parts) \in Seq(Runes \cup DOMAIN Code) /\ \E st : Joins(Joined(parts), parts, st)
<1>. DEFINE R == Runes \cup DOMAIN Code
            n == Len(parts)
            seqs == [i \in DOMAIN parts |-> IF i = 1 THEN parts[i] ELSE <<"/">> \o parts[i]]
            J == Joined(parts)
<1>1. n \in Nat \ {0} /\ DOMAIN parts = 1..n /\ Len(seqs) = n
  BY EmptySeq, LenProperties DEF Path
<1>2. ASSUME NEW x \in 1..n
      PROVE  /\ parts[x] \in Seq(R) /\ Len(parts[x]) \in Nat \ {0}
             /\ \A k \in 1..Len(parts[x]) : parts[x][k] \in R /\ parts[x][k] # "/"
  <2>1. parts[x] \in Component
    BY ElementOfSeq DEF Path
  <2>2. parts[x] \in Seq(R) /\ parts[x] # <<>> /\ \A k \in DOMAIN parts[x] : parts[x][k] # "/"
    BY <2>1 DEF Component
  <2>3. Len(parts[x]) \in Nat \ {0} /\ DOMAIN parts[x] = 1..Len(parts[x])
    BY <2>2, EmptySeq, LenProperties
  <2>. QED
    BY <2>2, <2>3, ElementOfSeq
<1>3. ASSUME NEW i \in 2..n
      PROVE  /\ seqs[i] \in Seq(R) /\ Len(seqs[i]) = Len(parts[i]) + 1 /\ seqs[i][1] = "/"
             /\ \A k \in 1..Len(parts[i]) : seqs[i][k + 1] = parts[i][k]
  <2>. DEFINE a == <<"/">>
              b == parts[i]
              c == seqs[i]
  <2>1. b \in Seq(R) /\ Len(b) \in Nat
    BY <1>2
  <2>2. c = a \o b
    BY <1>1
  <2>3. a \in Seq(R) /\ Len(a) = 1 /\ a[1] = "/"
    BY DEF Runes
  <2>. HIDE DEF a, b, c
  <2>. HIDE DEF R
  <2>30. /\ a \o b \in Seq(R) /\ Len(a \o b) = Len(a) + Len(b)
         /\ \A k \in 1..Len(a) + Len(b) : (a \o b)[k] = IF k <= Len(a) THEN a[k] ELSE b[k - Len(a)]
    BY <2>1, <2>3, ConcatProperties
  <2>4. /\ c \in Seq(R) /\ Len(c) = 1 + Len(b)
        /\ \A k \in 1..1 + Len(b) : c[k] = IF k <= 1 THEN a[k] ELSE b[k - 1]
    BY <2>2, <2>3, <2>30
  <2>5. c[1] = "/"
    BY <2>1, <2>3, <2>4
  <2>6. ASSUME NEW k \in 1..Len(b) PROVE c[k + 1] = b[k]
    <3>1. k + 1 \in 1..1 + Len(b) /\ ~(k + 1 <= 1) /\ (k + 1) - 1 = k
      BY <2>1
    <3>. QED
      BY <2>4, <3>1
  <2>. QED
    BY <2>1, <2>4, <2>5, <2>6 DEF b, c
<1>4. seqs[1] = parts[1]
  BY <1>1
<1>5. \A i \in 1..n : seqs[i] \in Seq(R)
  <2>1. \A i \in 1..n : i = 1 \/ i \in 2..n
    BY <1>1
  <2>. QED
    BY <1>1, <1>2, <1>3, <1>4, <2>1
<1>6. J = FlattenSeq(seqs)
  BY DEF Joined
<1>. HIDE DEF seqs, J, R
<1>7. PICK h : h = [i \in 1..n |-> h[i]] /\ Concats(h, seqs)
  BY <1>1, ConcatsAreThere
<1>8. J = h[n]
  BY <1>1, <1>6, <1>7, FlattenIs
<1>9. /\ \A i \in 1..n : h[i] \in Seq(R) /\ Len(h[i]) \in Nat
      /\ \A i \in 2..n : Len(h[i]) = Len(h[i - 1]) + Len(seqs[i])
      /\ \A i \in 1..n : \A l \in i..n :
           Len(h[i]) <= Len(h[l]) /\ \A k \in 1..Len(h[i]) : h[l][k] = h[i][k]
      /\ \A i \in 2..n : \A k \in 1..Len(seqs[i]) : h[i][Len(h[i - 1]) + k] = seqs[i][k]
  <2>1. Len(seqs) \in Nat \ {0} /\ \A i \in 1..Len(seqs) : seqs[i] \in Seq(R)
    BY <1>1, <1>5
  <2>2. Grows(h, seqs, Len(seqs), R)
    BY <1>7, <2>1, ConcatsGrow
  <2>3. Len(seqs) = n
    BY <1>1
  <2>. QED
    BY <2>2, <2>3, ZenonT(60) DEF Grows
<1>10. h[1] = parts[1]
  BY <1>4, <1>7 DEF Concats
<1>. DEFINE st == [x \in 1..n + 1 |-> IF x = 1 THEN 1 ELSE Len(h[x - 1]) + 2]
<1>11. st[1] = 1 /\ \A x \in 1..n : st[x + 1] = Len(h[x]) + 2
  <2>1. st[1] = 1
    BY <1>1
  <2>2. ASSUME NEW x \in 1..n PROVE st[x + 1] = Len(h[x]) + 2
    <3>1. x + 1 \in 1..n + 1 /\ x + 1 # 1 /\ (x + 1) - 1 = x
      BY <1>1
    <3>2. st[x + 1] = Len(h[(x + 1) - 1]) + 2
      BY <3>1
    <3>. QED
      BY <3>1, <3>2
  <2>. QED
    BY <2>1, <2>2
<1>. HIDE DEF st
<1>12. ASSUME NEW x \in 1..n
       PROVE  /\ st[x] \in Nat /\ 1 <= st[x] /\ st[x + 1] = st[x] + Len(parts[x]) + 1
              /\ st[x + 1] <= Len(J) + 2 /\ st[x + 1] \in Nat
              /\ \A k \in 1..Len(parts[x]) : J[st[x] + k - 1] = parts[x][k]
              /\ x < n => J[st[x + 1] - 1] = "/"
  <2>0. Len(parts[x]) \in Nat \ {0} /\ Len(h[x]) \in Nat /\ Len(J) \in Nat /\ n \in x..n
    BY <1>1, <1>2, <1>8, <1>9
  <2>1. Len(h[x]) <= Len(J) /\ \A k \in 1..Len(h[x]) : J[k] = h[x][k]
    BY <1>8, <1>9, <2>0
  <2>2. st[x + 1] = Len(h[x]) + 2
    BY <1>11
  <2>3. /\ st[x] \in Nat /\ 1 <= st[x] /\ st[x] + Len(parts[x]) - 1 = Len(h[x])
        /\ \A k \in 1..Len(parts[x]) : h[x][st[x] + k - 1] = parts[x][k]
    <3>1. CASE x = 1
      <4>1. st[x] = 1 /\ h[x] = parts[x] /\ \A k \in Nat : st[x] + k - 1 = k
        BY <1>10, <1>11, <3>1, SMTT(60)
      <4>. QED
        BY <2>0, <4>1
    <3>2. CASE x # 1
      <4>1. x \in 2..n /\ x - 1 \in 1..n /\ (x - 1) + 1 = x
        BY <3>2
      <4>. DEFINE y == x - 1
      <4>2. Len(h[x]) = Len(h[y]) + Len(seqs[x]) /\ Len(seqs[x]) = Len(parts[x]) + 1
        BY <1>3, <1>9, <4>1
      <4>3. st[x] = Len(h[y]) + 2 /\ Len(h[y]) \in Nat
        <5>1. st[y + 1] = Len(h[y]) + 2 /\ Len(h[y]) \in Nat
          BY <1>9, <1>11, <4>1
        <5>. QED
          BY <4>1, <5>1
      <4>30. \A k \in 1..Len(seqs[x]) : h[x][Len(h[y]) + k] = seqs[x][k]
        BY <1>9, <4>1
      <4>. HIDE DEF y
      <4>4. ASSUME NEW k \in 1..Len(parts[x]) PROVE h[x][st[x] + k - 1] = parts[x][k]
        <5>. DEFINE a == Len(h[y])
                    b == Len(parts[x])
                    c == st[x]
                    d == Len(seqs[x])
        <5>0. a \in Nat /\ b \in Nat /\ c = a + 2 /\ d = b + 1 /\ k \in 1..b
          BY <2>0, <4>2, <4>3
        <5>. HIDE DEF a, b, c, d
        <5>10. k + 1 \in 1..d /\ a + (k + 1) = c + k - 1
          BY <5>0
        <5>1. k + 1 \in 1..Len(seqs[x]) /\ Len(h[y]) + (k + 1) = st[x] + k - 1
          BY <5>10 DEF a, b, c, d
        <5>2. h[x][Len(h[y]) + (k + 1)] = seqs[x][k + 1]
          BY <4>30, <5>1
        <5>3. seqs[x][k + 1] = parts[x][k]
          BY <1>3, <4>1
        <5>. QED
          BY <5>1, <5>2, <5>3
      <4>5. st[x] \in Nat /\ 1 <= st[x] /\ st[x] + Len(parts[x]) - 1 = Len(h[x])
        <5>. DEFINE a == Len(h[y])
                    b == Len(parts[x])
                    c == st[x]
                    d == Len(seqs[x])
                    e == Len(h[x])
        <5>0. a \in Nat /\ b \in Nat /\ c = a + 2 /\ d = b + 1 /\ e = a + d
          BY <2>0, <4>2, <4>3
        <5>. HIDE DEF a, b, c, d, e
        <5>1. c \in Nat /\ 1 <= c /\ c + b - 1 = e
          BY <5>0
        <5>. QED
          BY <5>1 DEF b, c, e
      <4>. QED
        BY <4>4, <4>5
    <3>. QED
      BY <3>1, <3>2
  <2>4. ASSUME NEW k \in 1..Len(parts[x]) PROVE J[st[x] + k - 1] = parts[x][k]
    <3>. DEFINE z == st[x] + k - 1
    <3>1. z \in 1..Len(h[x])
      BY <2>0, <2>3, SMTT(60)
    <3>2. h[x][z] = parts[x][k]
      BY <2>3
    <3>. HIDE DEF z
    <3>3. J[z] = h[x][z]
      BY <2>1, <3>1
    <3>. QED
      BY <3>2, <3>3 DEF z
  <2>5. ASSUME x < n PROVE J[st[x + 1] - 1] = "/"
    <3>. DEFINE y == x + 1
    <3>1. y \in 2..n /\ y \in 1..n /\ y - 1 = x /\ n \in y..n
      BY <1>1, <2>5
    <3>2. Len(seqs[y]) = Len(parts[y]) + 1 /\ seqs[y][1] = "/" /\ Len(parts[y]) \in Nat
      BY <1>2, <1>3, <3>1
    <3>3. h[y][Len(h[y - 1]) + 1] = seqs[y][1] /\ Len(h[y]) = Len(h[y - 1]) + Len(seqs[y])
      <4>1. 1 \in 1..Len(seqs[y])
        BY <3>2
      <4>. QED
        BY <1>9, <3>1, <4>1
    <3>. DEFINE z == Len(h[x]) + 1
    <3>4. z \in 1..Len(h[y]) /\ h[y][z] = "/"
      <4>1. h[y - 1] = h[x]
        BY <3>1
      <4>. DEFINE a == Len(h[x])
                  b == Len(parts[y])
                  d == Len(seqs[y])
                  e == Len(h[y])
      <4>2. a \in Nat /\ b \in Nat /\ d = b + 1 /\ e = a + d
        BY <2>0, <3>2, <3>3, <4>1
      <4>. HIDE DEF a, b, d, e
      <4>3. a + 1 \in 1..e
        BY <4>2
      <4>. QED
        BY <3>2, <3>3, <4>1, <4>3 DEF a, e
    <3>. HIDE DEF y, z
    <3>5. J[z] = h[y][z]
      BY <1>8, <1>9, <3>1, <3>4
    <3>6. st[x + 1] - 1 = z
      BY <2>0, <2>2 DEF z
    <3>. QED
      BY <3>4, <3>5, <3>6
  <2>6. st[x + 1] = st[x] + Len(parts[x]) + 1 /\ st[x + 1] <= Len(J) + 2 /\ st[x + 1] \in Nat
    <3>. DEFINE a == Len(h[x])
                b == Len(parts[x])
                c == st[x]
                d == st[x + 1]
                e == Len(J)
    <3>1. a \in Nat /\ b \in Nat /\ c \in Nat /\ e \in Nat /\ d = a + 2 /\ c + b - 1 = a /\ a <= e
      BY <2>0, <2>1, <2>2, <2>3
    <3>. HIDE DEF a, b, c, d, e
    <3>2. d = c + b + 1 /\ d <= e + 2 /\ d \in Nat
      BY <3>1
    <3>. QED
      BY <3>2 DEF b, c, d, e
  <2>. QED
    BY <2>3, <2>4, <2>5, <2>6
<1>13. J \in Seq(R) /\ Len(J) \in Nat
  BY <1>1, <1>8, <1>9
<1>14. st[n + 1] = Len(J) + 2
  BY <1>1, <1>8, <1>11
<1>15. \A x \in 1..n + 1 : st[x] \in Nat /\ 1 <= st[x] /\ st[x] <= Len(J) + 2
  <2>. SUFFICES ASSUME NEW x \in 1..n + 1 PROVE st[x] \in Nat /\ 1 <= st[x] /\ st[x] <= Len(J) + 2
    OBVIOUS
  <2>1. CASE x = n + 1
    BY <1>13, <1>14, <2>1
  <2>2. CASE x # n + 1
    <3>1. x \in 1..n
      BY <1>1, <2>2
    <3>2. st[x] \in Nat /\ 1 <= st[x] /\ st[x + 1] = st[x] + Len(parts[x]) + 1
          /\ st[x + 1] <= Len(J) + 2 /\ Len(parts[x]) \in Nat
      BY <1>2, <1>12, <3>1
    <3>. QED
      BY <1>13, <3>2
  <2>. QED
    BY <2>1, <2>2
<1>16. Joins(J, parts, st)
  BY <1>1, <1>2, <1>11, <1>12, <1>13, <1>14, <1>15 DEF Joins, R
<1>. QED
  BY <1>13, <1>16 DEF J, R

\* Where the x-th component is in its path.
Sits(J, parts, st, x) ==
  /\ Len(J) \in Nat /\ Len(parts[x]) \in Nat \ {0} /\ st[x] \in Nat /\ 1 <= st[x]
  /\ st[x] + Len(parts[x]) <= Len(J) + 1
  /\ st[x + 1] = st[x] + Len(parts[x]) + 1 /\ st[x + 1] \in Nat
  /\ (x = Len(parts) <=> st[x] + Len(parts[x]) = Len(J) + 1)
  /\ x < Len(parts) => J[st[x] + Len(parts[x])] = "/"
  /\ \A k \in st[x]..(st[x] + Len(parts[x]) - 1) : J[k] # "/"
  /\ Cut(J, st[x]) = st[x + 1] - 1
  /\ SubSeq(J, st[x], st[x + 1] - 2) = parts[x]

LEMMA JoinsAt ==
  ASSUME NEW J \in Seq(Runes \cup DOMAIN Code), NEW parts, NEW st, Joins(J, parts, st),
         \A y \in 1..Len(parts) : parts[y] \in Seq(Runes \cup DOMAIN Code), NEW x \in 1..Len(parts)
  PROVE  Sits(J, parts, st, x)
<1>. DEFINE n == Len(parts)
            c == parts[x]
            l == Len(parts[x])
            a == st[x]
            b == st[x + 1]
            N == Len(J)
<1>0. n \in Nat \ {0} /\ x \in 1..n
  BY DEF Joins
<1>1. /\ N \in Nat /\ l \in Nat \ {0} /\ a \in Nat /\ 1 <= a /\ b = a + l + 1 /\ b <= N + 2
      /\ b \in Nat /\ (x < n => J[b - 1] = "/")
      /\ \A k \in 1..l : c[k] # "/" /\ J[a + k - 1] = c[k]
      /\ (x = n => b = N + 2)
  <2>1. x + 1 \in 1..n + 1 /\ x \in 1..n + 1
    BY <1>0
  <2>. QED
    BY <2>1 DEF Joins
<1>2. x < n => b < N + 2
  <2>. SUFFICES ASSUME x < n PROVE b < N + 2
    OBVIOUS
  <2>1. x + 1 \in 1..n
    BY <1>0
  <2>. DEFINE y == x + 1
  <2>2. st[y + 1] = st[y] + Len(parts[y]) + 1 /\ Len(parts[y]) \in Nat \ {0}
    BY <2>1 DEF Joins
  <2>3. y + 1 \in 1..n + 1
    BY <1>0, <2>1
  <2>4. st[y + 1] <= N + 2 /\ st[y + 1] \in Nat
    BY <2>3 DEF Joins
  <2>. DEFINE d == st[y + 1]
              e == Len(parts[y])
  <2>5. d = b + e + 1 /\ d <= N + 2 /\ e \in Nat \ {0}
    BY <2>2, <2>4
  <2>. HIDE DEF d, e, b, N
  <2>. QED
    BY <1>1, <2>5
<1>3. c \in Seq(Runes \cup DOMAIN Code)
  OBVIOUS
<1>. HIDE DEF c, l, a, b, N
<1>4. ASSUME NEW k \in a..(a + l - 1) PROVE J[k] # "/"
  <2>. DEFINE h == (k + 1) - a
  <2>1. h \in 1..l /\ a + h - 1 = k
    BY <1>1
  <2>. HIDE DEF h
  <2>2. J[a + h - 1] # "/"
    BY <1>1, <2>1
  <2>. QED
    BY <2>1, <2>2
<1>5. b - 1 = a + l
  BY <1>1
<1>6. Cut(J, a) = b - 1
  <2>. DEFINE T == {k \in a..N : J[k] = "/"} \cup {N + 1}
  <2>1. T \subseteq Nat
    BY <1>1
  <2>2. b - 1 \in T
    BY <1>0, <1>1
  <2>3. ASSUME NEW m \in T PROVE b - 1 <= m
    <3>1. CASE m = N + 1
      BY <1>1, <3>1
    <3>2. CASE m # N + 1
      <4>1. m \in a..N /\ J[m] = "/"
        BY <3>2
      <4>2. m \notin a..(a + l - 1)
        BY <1>4, <4>1
      <4>. QED
        BY <1>1, <4>1, <4>2
    <3>. QED
      BY <3>1, <3>2
  <2>. HIDE DEF T
  <2>4. Min(T) = b - 1
    BY <2>1, <2>2, <2>3, MinIs
  <2>5. Cut(J, a) = Min(T)
    BY DEF Cut, T, N
  <2>. QED
    BY <2>4, <2>5
<1>7. SubSeq(J, a, b - 2) = c
  <2>. DEFINE u == SubSeq(J, a, b - 2)
              z == b - 2
  <2>1. z \in Int /\ a \in Int /\ a <= z /\ z = a + l - 1 /\ z <= N /\ (z - a) + 1 = l
    BY <1>1
  <2>. HIDE DEF z
  <2>2. \A i \in a..z : J[i] \in Runes \cup DOMAIN Code
    <3>1. \A i \in a..z : i \in 1..N
      BY <1>1, <2>1
    <3>. QED
      BY <3>1, ElementOfSeq DEF N
  <2>3. /\ SubSeq(J, a, z) \in Seq(Runes \cup DOMAIN Code)
        /\ Len(SubSeq(J, a, z)) = IF a <= z THEN z - a + 1 ELSE 0
        /\ \A i \in 1..(z - a + 1) : SubSeq(J, a, z)[i] = J[a + i - 1]
    BY <2>1, <2>2, SubSeqProperties, SMTT(60)
  <2>4. u = SubSeq(J, a, z)
    BY DEF z
  <2>. HIDE DEF u
  <2>5. u \in Seq(Runes \cup DOMAIN Code) /\ Len(u) = Len(c) /\ \A i \in 1..Len(u) : u[i] = c[i]
    <3>1. z - a + 1 = l
      BY <1>1, <2>1
    <3>2. Len(u) = l /\ \A i \in 1..l : u[i] = J[a + i - 1]
      BY <2>1, <2>3, <2>4, <3>1
    <3>3. Len(c) = l
      BY DEF c, l
    <3>. QED
      BY <1>1, <2>3, <2>4, <3>2, <3>3
  <2>. QED
    BY <1>3, <2>5, SeqEqual DEF u
<1>8. (x = n <=> a + l = N + 1) /\ a + l <= N + 1
  BY <1>0, <1>1, <1>2
<1>9. x < n => J[a + l] = "/"
  BY <1>1, <1>5
<1>. QED
  BY <1>1, <1>4, <1>6, <1>7, <1>8, <1>9 DEF a, b, c, l, N, Sits

\* The last component, and the only one.
LEMMA FileOfJoined ==
  ASSUME NEW J \in Seq(Runes \cup DOMAIN Code), NEW parts, NEW st, Joins(J, parts, st),
         \A y \in 1..Len(parts) : parts[y] \in Seq(Runes \cup DOMAIN Code)
  PROVE  /\ FileOf(J) = parts[Len(parts)]
         /\ "/" \notin ToSet(J) <=> Len(parts) = 1
         /\ Len(parts) = 1 => J = parts[1]
<1>. DEFINE n == Len(parts)
            a == st[n]
            l == Len(parts[n])
            N == Len(J)
<1>1. n \in Nat \ {0} /\ n \in 1..n /\ DOMAIN J = 1..N /\ st[1] = 1
  BY LenProperties DEF Joins
<1>2. /\ N \in Nat /\ l \in Nat \ {0} /\ a \in Nat /\ 1 <= a /\ a + l = N + 1
      /\ \A k \in a..(a + l - 1) : J[k] # "/"
      /\ SubSeq(J, a, st[n + 1] - 2) = parts[n] /\ st[n + 1] = a + l + 1
  <2>1. Sits(J, parts, st, n)
    BY <1>1, JoinsAt
  <2>. QED
    BY <2>1 DEF Sits
<1>11. n = 1 \/ n > 1
  <2>1. n \in Nat \ {0}
    BY <1>1
  <2>. HIDE DEF n
  <2>. QED
    BY <2>1
<1>3. n > 1 => a > 1 /\ J[a - 1] = "/"
  <2>. SUFFICES ASSUME n > 1 PROVE a > 1 /\ J[a - 1] = "/"
    OBVIOUS
  <2>. DEFINE x == n - 1
  <2>1. x \in 1..n /\ x < n /\ x + 1 = n
    BY <1>1, SMTT(60)
  <2>2. st[x + 1] = st[x] + Len(parts[x]) + 1 /\ st[x] \in Nat /\ 1 <= st[x] /\ Len(parts[x]) \in Nat \ {0}
        /\ J[st[x] + Len(parts[x])] = "/"
    <3>1. Sits(J, parts, st, x)
      BY <2>1, JoinsAt
    <3>. QED
      BY <2>1, <3>1, Zenon DEF Sits
  <2>. DEFINE b == st[x]
              m == Len(parts[x])
  <2>3. a = b + m + 1 /\ b \in Nat /\ 1 <= b /\ m \in Nat \ {0} /\ J[b + m] = "/"
    BY <2>1, <2>2
  <2>. HIDE DEF b, m, a
  <2>4. a - 1 = b + m /\ a > 1
    BY <2>3
  <2>. QED
    BY <2>3, <2>4
<1>4. n = 1 => a = 1
  BY <1>1
<1>. HIDE DEF a, l, N
<1>5. ASSUME NEW k \in 1..N, a <= k PROVE J[k] # "/"
  BY <1>2, <1>5
<1>. DEFINE S == {i \in DOMAIN J : J[i] = "/"}
            T == {0} \cup S
<1>6. Max(T) = a - 1
  <2>1. T \subseteq Int
    BY <1>1
  <2>2. a - 1 \in T
    <3>1. CASE n = 1
      <4>1. a - 1 = 0
        BY <1>4, <3>1
      <4>. QED
        BY <4>1
    <3>2. CASE n # 1
      <4>1. n > 1
        BY <1>11, <3>2
      <4>2. J[a - 1] = "/" /\ a - 1 \in 1..N
        BY <1>2, <1>3, <4>1
      <4>. QED
        BY <1>1, <4>2
    <3>. QED
      BY <3>1, <3>2
  <2>3. \A m \in T : m <= a - 1
    <3>. SUFFICES ASSUME NEW m \in T, ~(m <= a - 1) PROVE FALSE
      OBVIOUS
    <3>1. m # 0
      BY <1>2
    <3>2. m \in 1..N /\ J[m] = "/"
      BY <1>1, <3>1
    <3>. QED
      BY <1>2, <1>5, <3>2
  <2>. HIDE DEF T
  <2>. QED
    BY <2>1, <2>2, <2>3, MaxIs
<1>7. FileOf(J) = SubSeq(J, 1 + Max(T), N)
  BY DEF FileOf, N
<1>. HIDE DEF T
<1>8. FileOf(J) = parts[n]
  <2>1. 1 + Max(T) = a /\ st[n + 1] - 2 = N
    BY <1>2, <1>6
  <2>. QED
    BY <1>2, <1>7, <2>1
<1>9. "/" \notin ToSet(J) <=> n = 1
  <2>1. "/" \in ToSet(J) <=> \E i \in 1..N : J[i] = "/"
    BY <1>1 DEF ToSet
  <2>2. CASE n = 1
    <3>1. \A i \in 1..N : J[i] # "/"
      BY <1>4, <1>5, <2>2
    <3>. QED
      BY <2>1, <2>2, <3>1
  <2>3. CASE n # 1
    <3>1. n > 1
      BY <1>11, <2>3
    <3>2. J[a - 1] = "/" /\ a - 1 \in 1..N
      BY <1>2, <1>3, <3>1
    <3>. QED
      BY <2>1, <2>3, <3>2
  <2>. QED
    BY <2>2, <2>3
<1>10. ASSUME n = 1 PROVE J = parts[1]
  <2>1. SubSeq(J, a, st[n + 1] - 2) = parts[n] /\ a = 1 /\ st[n + 1] - 2 = N
    BY <1>2, <1>4, <1>10
  <2>2. SubSeq(J, 1, N) = J
    BY SubSeqFull DEF N
  <2>. QED
    BY <1>10, <2>1, <2>2
<1>. QED
  BY <1>8, <1>9, <1>10

-----------------------------------------------------------------------------
(* The fast paths of a name                                                *)

\* From i on the glob is the rest of word after x.
Same(glob, word, i, x) ==
  /\ Len(word) - x = (Len(glob) + 1) - i
  /\ \A k \in i..Len(glob) : word[(x + 1) + (k - i)] = glob[k]

LEMMA LiteralRests ==
  ASSUME NEW glob, NEW word, Len(glob) \in Nat, Len(word) \in Nat, NEW L, GlobRests(L, glob, word),
         NEW i0 \in 1..Len(glob) + 1, \A k \in i0..Len(glob) : glob[k] \notin {"*", "?", "[", "esc"}
  PROVE  \A x \in 0..Len(word) : <<i0, x>> \in L <=> Same(glob, word, i0, x)
<1>. DEFINE n == Len(glob)
            N == Len(word)
            S == {i \in i0..n + 1 : \A x \in 0..N : <<i, x>> \in L <=> Same(glob, word, i, x)}
<1>0. n \in Nat /\ N \in Nat /\ i0 \in Nat /\ n + 1 \in Nat /\ i0 >= 1
  OBVIOUS
<1>1. ASSUME NEW i \in i0..n + 1, \A h \in (i + 1)..n + 1 : h \in S PROVE i \in S
  <2>. SUFFICES ASSUME NEW x \in 0..N PROVE <<i, x>> \in L <=> Same(glob, word, i, x)
    OBVIOUS
  <2>1. CASE i = n + 1
    <3>0. i \in 1..n + 1 /\ i > n
      BY <1>0, <2>1
    <3>1. <<i, x>> \in L <=> x = N
      BY <3>0 DEF GlobRests
    <3>2. Same(glob, word, i, x) <=> x = N
      <4>1. (n + 1) - i = 0 /\ i..n = {} /\ (N - x = 0 <=> x = N)
        BY <1>0, <2>1
      <4>. QED
        BY <4>1 DEF Same
    <3>. QED
      BY <3>1, <3>2
  <2>2. CASE i # n + 1
    <3>0. i \in 1..n /\ i \in 1..n + 1 /\ i \in i0..n /\ ~(i > n) /\ i + 1 \in (i + 1)..n + 1
      BY <1>0, <2>2
    <3>1. glob[i] # "*" /\ glob[i] # "?" /\ glob[i] # "[" /\ glob[i] # "esc"
      BY <3>0
    <3>2. Element(glob, i) = [runes |-> {glob[i]}, next |-> i + 1]
      BY <3>0, <3>1, ElementIs
    <3>3. Element(glob, i).runes = {glob[i]} /\ Element(glob, i).next = i + 1
      BY <3>2
    <3>4. <<i, x>> \in L <=> x < N /\ word[x + 1] = glob[i] /\ <<i + 1, x + 1>> \in L
      BY <3>0, <3>1, <3>3 DEF GlobRests
    <3>. DEFINE h == i + 1
                y == x + 1
    <3>5. h \in S
      <4>. HIDE DEF S
      <4>. QED
        BY <1>1, <3>0
    <3>6. x < N => (<<h, y>> \in L <=> Same(glob, word, h, y))
      <4>1. x < N => y \in 0..N
        BY <1>0
      <4>. QED
        BY <3>5, <4>1
    <3>7. Same(glob, word, i, x) <=> x < N /\ word[y] = glob[i] /\ Same(glob, word, h, y)
      <4>1. ASSUME Same(glob, word, i, x)
            PROVE  x < N /\ word[y] = glob[i] /\ Same(glob, word, h, y)
        <5>1. N - x = (n + 1) - i /\ \A k \in i..n : word[(x + 1) + (k - i)] = glob[k]
          BY <4>1 DEF Same
        <5>2. x < N /\ N - y = (n + 1) - h
          BY <1>0, <3>0, <5>1
        <5>3. word[y] = glob[i]
          <6>1. i \in i..n /\ (x + 1) + (i - i) = y
            BY <1>0, <3>0
          <6>2. word[(x + 1) + (i - i)] = glob[i]
            BY <5>1, <6>1
          <6>. QED
            BY <6>1, <6>2
        <5>4. ASSUME NEW k \in h..n PROVE word[(y + 1) + (k - h)] = glob[k]
          <6>1. k \in i..n /\ (y + 1) + (k - h) = (x + 1) + (k - i)
            BY <1>0, <3>0
          <6>2. word[(x + 1) + (k - i)] = glob[k]
            BY <5>1, <6>1
          <6>. QED
            BY <6>1, <6>2
        <5>. QED
          BY <5>2, <5>3, <5>4 DEF Same
      <4>2. ASSUME x < N, word[y] = glob[i], Same(glob, word, h, y)
            PROVE  Same(glob, word, i, x)
        <5>1. N - y = (n + 1) - h /\ \A k \in h..n : word[(y + 1) + (k - h)] = glob[k]
          BY <4>2 DEF Same
        <5>2. N - x = (n + 1) - i
          BY <1>0, <3>0, <5>1
        <5>3. ASSUME NEW k \in i..n PROVE word[(x + 1) + (k - i)] = glob[k]
          <6>1. CASE k = i
            <7>1. (x + 1) + (k - i) = y
              BY <1>0, <6>1
            <7>. QED
              BY <4>2, <6>1, <7>1
          <6>2. CASE k # i
            <7>1. k \in h..n /\ (y + 1) + (k - h) = (x + 1) + (k - i)
              BY <1>0, <3>0, <6>2
            <7>2. word[(y + 1) + (k - h)] = glob[k]
              BY <5>1, <7>1
            <7>. QED
              BY <7>1, <7>2
          <6>. QED
            BY <6>1, <6>2
        <5>. QED
          BY <5>2, <5>3 DEF Same
      <4>. QED
        BY <4>1, <4>2
    <3>. HIDE DEF S
    <3>. QED
      BY <3>4, <3>6, <3>7
  <2>. QED
    BY <2>1, <2>2
<1>. HIDE DEF S
<1>2. \A i \in i0..n + 1 : i \in S
  BY <1>0, <1>1, Downward
<1>3. i0 \in S
  BY <1>0, <1>2
<1>. QED
  BY <1>3 DEF S

LEMMA GlobsLiteral ==
  ASSUME NEW glob \in Seq(Runes \cup DOMAIN Code), NEW word \in Seq(Runes \cup DOMAIN Code), ~HasGlob(glob)
  PROVE  Globs(glob, word) <=> word = glob
<1>. DEFINE n == Len(glob)
            N == Len(word)
<1>1. n \in Nat /\ N \in Nat /\ DOMAIN glob = 1..n
  BY LenProperties
<1>2. \A k \in 1..n : glob[k] \notin {"*", "?", "[", "esc"}
  BY <1>1 DEF HasGlob
<1>3. PICK L : GlobRests(L, glob, word) /\ (Globs(glob, word) <=> <<1, 0>> \in L)
  <2>1. \A k \in 1..n : glob[k] # "["
    BY <1>2
  <2>. QED
    BY <1>1, <2>1, GlobsUnfolds
<1>4. <<1, 0>> \in L <=> Same(glob, word, 1, 0)
  <2>1. 1 \in 1..n + 1 /\ 0 \in 0..N
    BY <1>1
  <2>. QED
    BY <1>1, <1>2, <1>3, <2>1, LiteralRests
<1>5. Same(glob, word, 1, 0) <=> word = glob
  <2>1. N - 0 = N /\ (n + 1) - 1 = n /\ \A k \in 1..n : (0 + 1) + (k - 1) = k
    BY <1>1
  <2>2. Same(glob, word, 1, 0) <=> N = n /\ \A k \in 1..n : word[k] = glob[k]
    BY <2>1 DEF Same
  <2>3. N = n /\ (\A k \in 1..n : word[k] = glob[k]) => word = glob
    BY SeqEqual
  <2>. QED
    BY <2>2, <2>3
<1>. QED
  BY <1>3, <1>4, <1>5

LEMMA SuffixIs ==
  ASSUME NEW R, NEW s \in Seq(R), NEW t \in Seq(R)
  PROVE  IsSuffix(s, t) <=> Len(s) <= Len(t) /\ \A k \in 1..Len(s) : t[(Len(t) - Len(s)) + k] = s[k]
<1>. DEFINE n == Len(s)
            N == Len(t)
            a == Reverse(s)
            b == Reverse(t)
<1>1. n \in Nat /\ N \in Nat
  BY LenProperties
<1>2. /\ a \in Seq(R) /\ Len(a) = n /\ \A i \in 1..n : a[i] = s[(n - i) + 1]
  <2>1. \A i \in 1..n : s[(n - i) + 1] \in R
    <3>1. \A i \in 1..n : (n - i) + 1 \in 1..n
      BY <1>1
    <3>. QED
      BY <3>1, ElementOfSeq
  <2>2. a = [i \in 1..n |-> s[(n - i) + 1]]
    BY DEF Reverse
  <2>3. a \in [1..n -> R]
    BY <2>1, <2>2
  <2>. HIDE DEF a
  <2>4. a \in Seq(R)
    BY <1>1, <2>3, SeqDef
  <2>5. Len(a) = n
    BY <1>1, <2>3
  <2>. QED
    BY <2>2, <2>4, <2>5
<1>3. /\ b \in Seq(R) /\ Len(b) = N /\ \A i \in 1..N : b[i] = t[(N - i) + 1]
  <2>1. \A i \in 1..N : t[(N - i) + 1] \in R
    <3>1. \A i \in 1..N : (N - i) + 1 \in 1..N
      BY <1>1
    <3>. QED
      BY <3>1, ElementOfSeq
  <2>2. b = [i \in 1..N |-> t[(N - i) + 1]]
    BY DEF Reverse
  <2>3. b \in [1..N -> R]
    BY <2>1, <2>2
  <2>. HIDE DEF b
  <2>4. b \in Seq(R)
    BY <1>1, <2>3, SeqDef
  <2>5. Len(b) = N
    BY <1>1, <2>3
  <2>. QED
    BY <2>2, <2>4, <2>5
<1>4. IsSuffix(s, t) <=> IsPrefix(a, b)
  BY DEF IsSuffix
<1>. HIDE DEF a, b
<1>5. IsPrefix(a, b) <=> n <= N /\ SubSeq(a, 1, n) = SubSeq(b, 1, n)
  BY <1>2, <1>3 DEF IsPrefix
<1>6. ASSUME n <= N
      PROVE  SubSeq(a, 1, n) = SubSeq(b, 1, n) <=> \A i \in 1..n : a[i] = b[i]
  <2>1. SubSeq(a, 1, n) = a
    BY <1>2, SubSeqFull
  <2>. DEFINE u == SubSeq(b, 1, n)
  <2>2. \A i \in 1..n : b[i] \in R
    <3>1. \A i \in 1..n : i \in 1..Len(b)
      BY <1>1, <1>3, <1>6
    <3>. QED
      BY <1>3, <3>1, ElementOfSeq
  <2>3. u \in Seq(R) /\ Len(u) = n /\ \A i \in 1..n : u[i] = b[i]
    <3>1. /\ u \in Seq(R) /\ Len(u) = IF 1 <= n THEN n - 1 + 1 ELSE 0
          /\ \A i \in 1..(n - 1 + 1) : u[i] = b[1 + i - 1]
      BY <1>1, <2>2, SubSeqProperties
    <3>. HIDE DEF u
    <3>2. n - 1 + 1 = n /\ \A i \in 1..n : 1 + i - 1 = i
      BY <1>1
    <3>3. Len(u) = n
      BY <1>1, <3>1
    <3>4. \A i \in 1..n : u[i] = b[i]
      BY <1>1, <3>1, <3>2
    <3>. QED
      BY <3>1, <3>3, <3>4
  <2>. HIDE DEF u
  <2>4. (\A i \in 1..n : a[i] = u[i]) => a = u
    BY <1>2, <2>3, SeqEqual
  <2>5. a = u <=> \A i \in 1..n : a[i] = b[i]
    BY <2>3, <2>4
  <2>. QED
    BY <2>1, <2>5 DEF u
<1>7. ASSUME n <= N
      PROVE  (\A i \in 1..n : a[i] = b[i]) <=> \A k \in 1..n : t[(N - n) + k] = s[k]
  <2>1. ASSUME \A i \in 1..n : a[i] = b[i], NEW k \in 1..n PROVE t[(N - n) + k] = s[k]
    <3>. DEFINE i == (n - k) + 1
    <3>1. i \in 1..n /\ i \in 1..N /\ (n - i) + 1 = k /\ (N - i) + 1 = (N - n) + k
      BY <1>1, <1>7
    <3>. HIDE DEF i
    <3>2. a[i] = s[(n - i) + 1] /\ b[i] = t[(N - i) + 1] /\ a[i] = b[i]
      BY <1>2, <1>3, <2>1, <3>1
    <3>. QED
      BY <3>1, <3>2
  <2>2. ASSUME \A k \in 1..n : t[(N - n) + k] = s[k], NEW i \in 1..n PROVE a[i] = b[i]
    <3>. DEFINE k == (n - i) + 1
    <3>1. k \in 1..n /\ i \in 1..N /\ (n - i) + 1 = k /\ (N - i) + 1 = (N - n) + k
      BY <1>1, <1>7
    <3>. HIDE DEF k
    <3>2. a[i] = s[(n - i) + 1] /\ b[i] = t[(N - i) + 1] /\ t[(N - n) + k] = s[k]
      BY <1>2, <1>3, <2>2, <3>1
    <3>. QED
      BY <3>1, <3>2
  <2>. QED
    BY <2>1, <2>2
<1>. QED
  BY <1>4, <1>5, <1>6, <1>7

LEMMA GlobsStarred ==
  ASSUME NEW glob \in Seq(Runes \cup DOMAIN Code), NEW word \in Seq(Runes \cup DOMAIN Code),
         glob # <<>>, glob[1] = "*", ~HasGlob(Tail(glob))
  PROVE  Globs(glob, word) <=> IsSuffix(Tail(glob), word)
<1>. DEFINE n == Len(glob)
            N == Len(word)
            t == Tail(glob)
<1>1. n \in Nat \ {0} /\ N \in Nat
  BY EmptySeq, LenProperties
<1>2. t \in Seq(Runes \cup DOMAIN Code) /\ Len(t) = n - 1 /\ \A k \in 1..(n - 1) : t[k] = glob[k + 1]
  BY HeadTailProperties
<1>3. DOMAIN t = 1..(n - 1)
  BY <1>2, LenProperties
<1>. HIDE DEF t
<1>4. \A k \in 2..n : glob[k] \notin {"*", "?", "[", "esc"}
  <2>. SUFFICES ASSUME NEW k \in 2..n PROVE glob[k] \notin {"*", "?", "[", "esc"}
    OBVIOUS
  <2>. DEFINE j == k - 1
  <2>1. j \in 1..(n - 1) /\ j + 1 = k
    BY <1>1
  <2>. HIDE DEF j
  <2>2. t[j] \notin {"*", "?", "[", "esc"}
    BY <1>3, <2>1 DEF HasGlob, t
  <2>. QED
    BY <1>2, <2>1, <2>2
<1>5. PICK L : GlobRests(L, glob, word) /\ (Globs(glob, word) <=> <<1, 0>> \in L)
  <2>1. \A k \in 1..n : k = 1 \/ k \in 2..n
    BY <1>1
  <2>2. \A k \in 1..n : glob[k] # "["
    BY <1>4, <2>1
  <2>. QED
    BY <1>1, <2>2, GlobsUnfolds
<1>6. <<1, 0>> \in L <=> \E y \in 0..N : <<2, y>> \in L
  <2>1. 1 \in 1..n + 1 /\ 0 \in 0..N /\ ~(1 > n) /\ 1 + 1 = 2
    BY <1>1
  <2>. QED
    BY <1>5, <2>1 DEF GlobRests
<1>7. \A y \in 0..N : <<2, y>> \in L <=> Same(glob, word, 2, y)
  <2>1. 2 \in 1..n + 1
    BY <1>1
  <2>. QED
    BY <1>1, <1>4, <1>5, <2>1, LiteralRests
<1>8. IsSuffix(t, word) <=> n - 1 <= N /\ \A k \in 1..(n - 1) : word[(N - (n - 1)) + k] = t[k]
  <2>1. IsSuffix(t, word) <=> Len(t) <= Len(word)
                              /\ \A k \in 1..Len(t) : word[(Len(word) - Len(t)) + k] = t[k]
    BY <1>2, SuffixIs
  <2>2. Len(t) = n - 1
    BY <1>2
  <2>. QED
    BY <2>1, <2>2
<1>9. ASSUME NEW y \in 0..N, Same(glob, word, 2, y) PROVE IsSuffix(t, word)
  <2>1. N - y = (n + 1) - 2 /\ \A k \in 2..n : word[(y + 1) + (k - 2)] = glob[k]
    BY <1>9 DEF Same
  <2>2. n - 1 <= N /\ N - (n - 1) = y
    BY <1>1, <2>1
  <2>3. ASSUME NEW k \in 1..(n - 1) PROVE word[(N - (n - 1)) + k] = t[k]
    <3>. DEFINE j == k + 1
    <3>1. j \in 2..n /\ (y + 1) + (j - 2) = (N - (n - 1)) + k
      BY <1>1, <2>2
    <3>2. glob[j] = t[k]
      BY <1>2
    <3>. HIDE DEF j
    <3>. QED
      BY <2>1, <3>1, <3>2
  <2>. QED
    BY <1>8, <2>2, <2>3
<1>10. ASSUME IsSuffix(t, word) PROVE \E y \in 0..N : Same(glob, word, 2, y)
  <2>. DEFINE y == N - (n - 1)
  <2>1. n - 1 <= N /\ \A k \in 1..(n - 1) : word[y + k] = t[k]
    BY <1>8, <1>10
  <2>2. y \in 0..N /\ N - y = (n + 1) - 2
    BY <1>1, <2>1
  <2>. HIDE DEF y
  <2>3. ASSUME NEW k \in 2..n PROVE word[(y + 1) + (k - 2)] = glob[k]
    <3>. DEFINE j == k - 1
    <3>1. j \in 1..(n - 1) /\ y + j = (y + 1) + (k - 2) /\ j + 1 = k
      BY <1>1, <2>2
    <3>. HIDE DEF j
    <3>2. word[y + j] = t[j] /\ t[j] = glob[j + 1]
      BY <1>2, <2>1, <3>1
    <3>. QED
      BY <3>1, <3>2
  <2>4. Same(glob, word, 2, y)
    BY <2>2, <2>3 DEF Same
  <2>. QED
    BY <2>2, <2>4
<1>. QED
  BY <1>5, <1>6, <1>7, <1>9, <1>10 DEF t

-----------------------------------------------------------------------------
(* The tokens of a line                                                    *)

\* q are the tokens of the line from s that stand from lo to hi, after its negation.
Runs(q, s, lo, hi) ==
  /\ Len(q) \in Nat \ {0} /\ q[1].from = lo /\ q[Len(q)].to = hi + 1 /\ hi \in Int
  /\ \A i \in 1..Len(q) : Placed(s, q[i]) /\ q[i].type # "NEGATION"
  /\ \A i \in 1..(Len(q) - 1) :
       q[i + 1].from = q[i].to /\ (q[i].type = "PATTERN" => q[i + 1].type # "PATTERN")

\* Where a token of them is.
Within(q, s, lo, hi, i) ==
  /\ q[i].from \in Nat /\ q[i].to \in Nat /\ lo <= q[i].from /\ q[i].from < q[i].to /\ q[i].to <= hi + 1
  /\ i = Len(q) <=> q[i].to = hi + 1
  /\ i = 1 <=> q[i].from = lo
  /\ \A k \in q[i].from..(q[i].to - 1) : k \in Body(s) /\ k \in lo..hi

LEMMA RunsWithin ==
  ASSUME NEW q, NEW s, NEW lo, NEW hi, Runs(q, s, lo, hi)
  PROVE  /\ lo \in Nat /\ hi \in Nat /\ lo <= hi
         /\ \A i \in 1..Len(q) : Within(q, s, lo, hi, i)
<1>. DEFINE n == Len(q)
            A == {i \in 1..n : lo <= q[i].from /\ (i > 1 => lo < q[i].from)}
            Z == {i \in 1..n : q[i].to <= hi + 1 /\ (i < n => q[i].to < hi + 1)}
<1>0. n \in Nat \ {0} /\ n \in Nat /\ 1 \in Nat
  BY DEF Runs
<1>1. \A i \in 1..n : /\ q[i].from \in Nat /\ q[i].to \in Nat /\ q[i].from < q[i].to
                      /\ \A k \in q[i].from..(q[i].to - 1) : k \in Body(s)
  BY DEF Runs, Placed
<1>2. \A i \in 1..(n - 1) : q[i + 1].from = q[i].to
  BY DEF Runs
<1>3. q[1].from = lo /\ q[n].to = hi + 1 /\ hi \in Int
  BY DEF Runs
<1>. HIDE DEF n
<1>4. ASSUME NEW i \in 1..n, \A h \in 1..(i - 1) : h \in A PROVE i \in A
  <2>1. CASE i = 1
    BY <1>0, <1>1, <1>3, <2>1
  <2>2. CASE i # 1
    <3>. DEFINE h == i - 1
    <3>1. h \in 1..(i - 1) /\ h \in 1..(n - 1) /\ h \in 1..n /\ h + 1 = i
      BY <1>0, <2>2
    <3>2. h \in A
      BY <1>4, <3>1, Zenon
    <3>3. q[i].from = q[h].to
      BY <1>2, <3>1
    <3>. HIDE DEF h
    <3>4. lo <= q[h].from /\ lo \in Nat
      BY <1>0, <1>1, <1>3, <3>2
    <3>. QED
      BY <1>1, <3>1, <3>3, <3>4
  <2>. QED
    BY <2>1, <2>2
<1>5. ASSUME NEW i \in 1..n, \A h \in (i + 1)..n : h \in Z PROVE i \in Z
  <2>1. CASE i = n
    BY <1>0, <1>1, <1>3, <2>1
  <2>2. CASE i # n
    <3>. DEFINE h == i + 1
    <3>1. h \in (i + 1)..n /\ i \in 1..(n - 1) /\ h \in 1..n
      BY <1>0, <2>2
    <3>2. h \in Z
      BY <1>5, <3>1, Zenon
    <3>3. q[h].from = q[i].to
      BY <1>2, <3>1
    <3>. HIDE DEF h
    <3>4. q[h].to <= hi + 1 /\ hi \in Int
      BY <1>3, <3>2
    <3>. QED
      BY <1>1, <3>1, <3>3, <3>4
  <2>. QED
    BY <2>1, <2>2
<1>. HIDE DEF A, Z
<1>6. \A i \in 1..n : i \in A
  BY <1>0, <1>4, Upward
<1>7. \A i \in 1..n : i \in Z
  BY <1>0, <1>5, Downward
<1>8. ASSUME NEW i \in 1..n
      PROVE  /\ lo <= q[i].from /\ (i > 1 => lo < q[i].from)
             /\ q[i].to <= hi + 1 /\ (i < n => q[i].to < hi + 1)
  BY <1>6, <1>7 DEF A, Z
<1>9. lo \in Nat /\ hi \in Nat /\ lo <= hi
  <2>1. 1 \in 1..n /\ n \in 1..n
    BY <1>0
  <2>2. q[1].from < q[1].to /\ q[1].to <= hi + 1
    BY <1>1, <1>8, <2>1
  <2>. QED
    BY <1>1, <1>3, <2>1, <2>2
<1>10. ASSUME NEW i \in 1..n PROVE Within(q, s, lo, hi, i)
  <2>. DEFINE f == q[i].from
              t == q[i].to
  <2>1. f \in Nat /\ t \in Nat /\ f < t /\ lo <= f /\ t <= hi + 1
    BY <1>1, <1>8
  <2>2. i = n <=> t = hi + 1
    BY <1>0, <1>3, <1>8, <1>9, <2>1
  <2>3. i = 1 <=> f = lo
    BY <1>0, <1>3, <1>8, <1>9, <2>1
  <2>4. \A k \in f..(t - 1) : k \in Body(s)
    BY <1>1
  <2>. HIDE DEF f, t
  <2>5. \A k \in f..(t - 1) : k \in lo..hi
    BY <1>9, <2>1
  <2>. QED
    BY <1>9, <2>1, <2>2, <2>3, <2>4, <2>5 DEF Within, n, f, t
<1>. QED
  BY <1>9, <1>10 DEF n

\* Every rune from lo to hi is in one of the tokens, and so in the body.
LEMMA RunsCover ==
  ASSUME NEW q, NEW s, NEW lo, NEW hi, Runs(q, s, lo, hi), NEW k \in lo..hi
  PROVE  k \in Body(s) /\ \E i \in 1..Len(q) : k \in q[i].from..(q[i].to - 1)
<1>. DEFINE n == Len(q)
            T == {i \in 1..n : q[i].from <= k}
<1>0. n \in Nat \ {0} /\ lo \in Nat /\ hi \in Nat /\ k \in Nat /\ q[1].from = lo
  <2>1. lo \in Nat /\ hi \in Nat
    BY RunsWithin
  <2>2. n \in Nat \ {0} /\ q[1].from = lo
    BY DEF Runs
  <2>. QED
    BY <2>1, <2>2
<1>1. \A i \in 1..n : Within(q, s, lo, hi, i)
  BY RunsWithin
<1>2. \A i \in 1..(n - 1) : q[i + 1].from = q[i].to
  BY DEF Runs
<1>. HIDE DEF n
<1>3. T \subseteq 0..n /\ T # {}
  BY <1>0
<1>. DEFINE i == Max(T)
<1>4. i \in T /\ \A m \in T : m <= i
  BY <1>0, <1>3, MaxOf
<1>. HIDE DEF T, i
<1>5. i \in 1..n /\ q[i].from <= k
  BY <1>4 DEF T
<1>6. q[i].to \in Nat /\ q[i].from \in Nat
  BY <1>1, <1>5 DEF Within
<1>7. k < q[i].to
  <2>1. CASE i = n
    <3>1. q[i].to = hi + 1
      BY <1>1, <1>5, <2>1 DEF Within, n
    <3>. QED
      BY <1>0, <3>1
  <2>2. CASE i # n
    <3>. DEFINE h == i + 1
    <3>1. i \in 1..(n - 1) /\ h \in 1..n /\ ~(h <= i)
      BY <1>0, <1>5, <2>2
    <3>2. q[h].from = q[i].to
      BY <1>2, <3>1
    <3>. HIDE DEF h
    <3>3. h \notin T
      BY <1>4, <3>1
    <3>4. ~(q[h].from <= k)
      BY <3>1, <3>3 DEF T
    <3>. QED
      BY <1>0, <1>6, <3>2, <3>4
  <2>. QED
    BY <2>1, <2>2
<1>8. k \in q[i].from..(q[i].to - 1)
  BY <1>0, <1>5, <1>6, <1>7
<1>9. k \in Body(s)
  BY <1>1, <1>5, <1>8 DEF Within
<1>. QED
  BY <1>5, <1>8, <1>9 DEF n

\* A separator that counts is a token of its own, and "**" one or none.
LEMMA SeparatorIsToken ==
  ASSUME NEW s, NEW t, Placed(s, t), t.type # "NEGATION", NEW k \in t.from..(t.to - 1)
  PROVE  /\ k \in Plain(s, "/") => t.type = "SEPARATOR" /\ t.from = k
         /\ t.type = "SEPARATOR" => k = t.from /\ k \in Plain(s, "/")
         /\ k \in Doubles(s) => t.type = "ANY"
<1>1. t.from \in Nat /\ t.to \in Nat
  BY DEF Placed
<1>2. k \in Plain(s, "/") => text[k] = "/"
  BY DEF Plain
<1>3. k \in Doubles(s) => text[k] = "*" /\ k + 1 \in Plain(s, "*")
  BY DEF Doubles, Plain
<1>4. t.type \in {"SEPARATOR", "ANY", "WHITESPACE", "PATTERN"}
  BY DEF Placed, PatternTypes
<1>5. CASE t.type = "SEPARATOR"
  <2>1. t.to = t.from + 1 /\ t.from \in Plain(s, "/")
    BY <1>5 DEF Placed
  <2>2. k = t.from
    BY <1>1, <2>1
  <2>. QED
    BY <1>2, <1>3, <1>5, <2>1, <2>2
<1>6. CASE t.type = "ANY"
  <2>1. t.to = t.from + 2 /\ t.from \in Doubles(s)
    BY <1>6 DEF Placed
  <2>2. k = t.from \/ k = t.from + 1
    BY <1>1, <2>1
  <2>3. text[k] = "*"
    BY <2>1, <2>2 DEF Doubles, Plain
  <2>. QED
    BY <1>2, <1>6, <2>3
<1>7. CASE t.type = "WHITESPACE"
  <2>1. text[k] = "sp"
    BY <1>7 DEF Placed, Plain
  <2>. QED
    BY <1>2, <1>3, <1>7, <2>1
<1>8. CASE t.type = "PATTERN"
  BY <1>8 DEF Placed, PatternRunes
<1>. QED
  BY <1>4, <1>5, <1>6, <1>7, <1>8

-----------------------------------------------------------------------------
(* The words of a pattern's tokens                                         *)

LEMMA FunctionIsSeq ==
  ASSUME NEW S, NEW n \in Nat, NEW u \in [1..n -> S]
  PROVE  u \in Seq(S) /\ Len(u) = n /\ DOMAIN u = 1..n
OBVIOUS

\* u is q as NewPattern has it.
Lettered(u, q) == u = [i \in 1..Len(q) |-> [type |-> q[i].type, word |-> Word(q[i])]]

LetteredTokens == [type : PatternTypes, word : Seq(Runes \cup DOMAIN Code)]

LEMMA LetteredIs ==
  ASSUME NEW q, Len(q) \in Nat, NEW u, Lettered(u, q),
         \A i \in 1..Len(q) : q[i].type \in PatternTypes /\ Word(q[i]) \in Seq(Runes \cup DOMAIN Code)
  PROVE  /\ u \in Seq(LetteredTokens) /\ Len(u) = Len(q) /\ DOMAIN u = 1..Len(q)
         /\ \A i \in 1..Len(q) : u[i].type = q[i].type /\ u[i].word = Word(q[i])
<1>1. u \in [1..Len(q) -> LetteredTokens]
  BY DEF Lettered, LetteredTokens
<1>2. u \in Seq(LetteredTokens) /\ Len(u) = Len(q) /\ DOMAIN u = 1..Len(q)
  BY <1>1, FunctionIsSeq
<1>3. \A i \in 1..Len(q) : u[i] = [type |-> q[i].type, word |-> Word(q[i])]
  BY DEF Lettered
<1>. QED
  BY <1>2, <1>3

LEMMA RunsText ==
  ASSUME ReadText, NEW s \in LineStarts, NEW q, NEW lo, NEW hi, Runs(q, s, lo, hi)
  PROVE  /\ Len(text) \in Nat /\ 1 <= lo /\ hi <= Len(text)
         /\ \A i \in 1..Len(q) : q[i].type \in PatternTypes /\ Word(q[i]) \in Seq(Runes)
<1>1. lo \in Nat /\ hi \in Nat /\ lo <= hi
  BY RunsWithin
<1>2. Body(s) \subseteq 1..Len(text) /\ Len(text) \in Nat
  BY BodyFacts, TextFacts
<1>3. lo \in Body(s) /\ hi \in Body(s)
  <2>1. lo \in lo..hi /\ hi \in lo..hi
    BY <1>1
  <2>. QED
    BY <2>1, RunsCover
<1>4. ASSUME NEW i \in 1..Len(q) PROVE q[i].type \in PatternTypes /\ Word(q[i]) \in Seq(Runes)
  <2>1. Within(q, s, lo, hi, i)
    BY RunsWithin
  <2>2. q[i].from \in Int /\ q[i].to - 1 \in Int
    BY <2>1 DEF Within
  <2>3. \A k \in q[i].from..(q[i].to - 1) : text[k] \in Runes
    <3>1. \A k \in 1..Len(text) : text[k] \in Runes
      BY DEF ReadText
    <3>. QED
      BY <1>2, <2>1, <3>1 DEF Within
  <2>4. Word(q[i]) \in Seq(Runes)
    BY <2>2, <2>3, SubSeqProperties DEF Word
  <2>. QED
    BY <2>4 DEF Runs, Placed
<1>. QED
  BY <1>2, <1>3, <1>4

LEMMA WordsOfRuns ==
  ASSUME ReadText, NEW s \in LineStarts, NEW q, NEW lo, NEW hi, Runs(q, s, lo, hi), NEW u, Lettered(u, q)
  PROVE  Words(u) = SubSeq(text, lo, hi)
<1>. DEFINE n == Len(q)
            R == Runes
            words == [i \in 1..n |-> u[i].word]
            h == [i \in 1..n |-> SubSeq(text, lo, q[i].to - 1)]
<1>1. n \in Nat \ {0} /\ n \in Nat
  BY DEF Runs
<1>2. /\ text \in Seq(R) /\ Len(text) \in Nat /\ lo \in Nat /\ hi \in Nat
      /\ 1 <= lo /\ lo <= hi /\ hi <= Len(text)
  BY RunsText, RunsWithin DEF ReadText
<1>3. \A i \in 1..n : q[i].type \in PatternTypes /\ Word(q[i]) \in Seq(R)
  BY RunsText
<1>4. \A i \in 1..n : Word(q[i]) \in Seq(Runes \cup DOMAIN Code)
  BY <1>3, SeqMonotonic
<1>5. DOMAIN u = 1..n /\ \A i \in 1..n : u[i].word = Word(q[i])
  BY <1>1, <1>3, <1>4, LetteredIs
<1>6. \A i \in 1..n : words[i] = SubSeq(text, q[i].from, q[i].to - 1)
  BY <1>5 DEF Word
<1>7. Len(words) = n
  <2>1. words \in [1..n -> Seq(R)]
    BY <1>3, <1>5
  <2>. HIDE DEF words
  <2>. QED
    BY <1>1, <2>1, FunctionIsSeq
<1>8. Concats(h, words)
  <2>1. h[1] = words[1]
    <3>1. 1 \in 1..n /\ q[1].from = lo
      BY <1>1 DEF Runs
    <3>. QED
      BY <1>6, <3>1
  <2>2. ASSUME NEW i \in 2..n PROVE h[i] = h[i - 1] \o words[i]
    <3>. DEFINE l == i - 1
    <3>0. l \in 1..(n - 1) /\ l \in 1..n /\ i \in 1..n /\ l + 1 = i
      BY <1>1
    <3>. HIDE DEF l
    <3>1. q[i].from = q[l].to
      <4>1. q[l + 1].from = q[l].to
        BY <3>0 DEF Runs
      <4>. QED
        BY <3>0, <4>1
    <3>2. Within(q, s, lo, hi, i) /\ Within(q, s, lo, hi, l)
      BY <3>0, RunsWithin
    <3>. DEFINE k == q[l].to - 1
                t == q[i].to - 1
    <3>3. /\ q[l].to \in Nat /\ q[i].to \in Nat /\ q[l].from \in Nat /\ lo <= q[l].from
          /\ q[l].from < q[l].to /\ q[l].to < q[i].to /\ q[i].to <= hi + 1
      BY <3>1, <3>2 DEF Within
    <3>4. k \in (lo - 1)..Len(text) /\ t \in k..Len(text) /\ lo \in 1..Len(text) + 1 /\ k + 1 = q[l].to
      <4>. DEFINE a == q[l].to
                  b == q[i].to
                  c == q[l].from
                  N == Len(text)
      <4>1. /\ a \in Nat /\ b \in Nat /\ c \in Nat /\ lo <= c /\ c < a /\ a < b /\ b <= hi + 1
            /\ N \in Nat /\ lo \in Nat /\ hi \in Nat /\ 1 <= lo /\ lo <= hi /\ hi <= N
        BY <1>2, <3>3
      <4>. HIDE DEF a, b, c, N
      <4>2. a - 1 \in (lo - 1)..N /\ b - 1 \in (a - 1)..N /\ lo \in 1..N + 1 /\ (a - 1) + 1 = a
        BY <4>1
      <4>. QED
        BY <4>2 DEF a, b, N
    <3>5. h[i] = SubSeq(text, lo, t) /\ h[l] = SubSeq(text, lo, k)
      BY <3>0
    <3>6. words[i] = SubSeq(text, k + 1, t)
      BY <1>6, <3>0, <3>1, <3>4
    <3>. HIDE DEF h, words, k, t
    <3>7. SubSeq(text, lo, k) \o SubSeq(text, k + 1, t) = SubSeq(text, lo, t)
      BY <1>2, <3>4, ConcatAdjacentSubSeq
    <3>. QED
      BY <3>5, <3>6, <3>7 DEF l
  <2>. HIDE DEF h, words
  <2>. QED
    BY <1>7, <2>1, <2>2 DEF Concats
<1>9. h = [i \in 1..n |-> h[i]]
  OBVIOUS
<1>10. h[n] = SubSeq(text, lo, hi)
  <2>1. n \in 1..n /\ q[n].to = hi + 1 /\ (hi + 1) - 1 = hi
    BY <1>1, <1>2 DEF Runs
  <2>. QED
    BY <2>1
<1>11. Words(u) = FlattenSeq(words)
  BY <1>5 DEF Words
<1>. HIDE DEF h, words
<1>12. FlattenSeq(words) = h[Len(words)]
  BY <1>1, <1>7, <1>8, <1>9, FlattenIs
<1>. QED
  BY <1>7, <1>10, <1>11, <1>12

-----------------------------------------------------------------------------
(* A pattern and its line                                                  *)

\* NewPattern takes off the first g tokens, a separator after them and one at the end.
Strips(c, u, g, d, e) ==
  /\ g \in {0, 1} /\ d \in {g, g + 1} /\ e \in {Len(u) - 1, Len(u)} /\ d <= e
  /\ d = g + 1 <=> u[g + 1].type = "SEPARATOR"
  /\ e = Len(u) - 1 <=> d < Len(u) /\ u[Len(u)].type = "SEPARATOR"
  /\ c.negated <=> g = 1
  /\ c.anchored <=> d = g + 1
  /\ c.directory <=> e = Len(u) - 1
  /\ c.tokens = [i \in 1..(e - d) |-> u[i + d]]
  /\ c.kind = Kind(c.tokens) /\ c.fnmatch = Words(c.tokens)

LEMMA TailIs ==
  ASSUME NEW R, NEW u \in Seq(R), u # <<>>
  PROVE  /\ Tail(u) \in Seq(R) /\ Len(Tail(u)) = Len(u) - 1 /\ Len(u) \in Nat \ {0}
         /\ \A i \in 1..(Len(u) - 1) : Tail(u)[i] = u[i + 1]
<1>1. Len(u) \in Nat \ {0}
  BY EmptySeq
<1>2. Tail(u) \in Seq(R) /\ Len(Tail(u)) = Len(u) - 1 /\ \A i \in 1..Len(Tail(u)) : Tail(u)[i] = u[i + 1]
  BY HeadTailProperties
<1>. QED
  BY <1>1, <1>2

LEMMA FrontIs ==
  ASSUME NEW R, NEW u \in Seq(R), u # <<>>
  PROVE  /\ Front(u) \in Seq(R) /\ Len(Front(u)) = Len(u) - 1 /\ Last(u) = u[Len(u)]
         /\ \A i \in 1..(Len(u) - 1) : Front(u)[i] = u[i]
<1>. DEFINE n == Len(u) - 1
<1>1. Len(u) \in Nat \ {0} /\ n \in Nat
  BY EmptySeq
<1>2. \A i \in 1..n : u[i] \in R
  BY <1>1, ElementOfSeq
<1>. HIDE DEF n
<1>3. /\ SubSeq(u, 1, n) \in Seq(R)
      /\ Len(SubSeq(u, 1, n)) = IF 1 <= n THEN n - 1 + 1 ELSE 0
      /\ \A i \in 1..n - 1 + 1 : SubSeq(u, 1, n)[i] = u[1 + i - 1]
  BY <1>1, <1>2, SubSeqProperties
<1>4. Front(u) = SubSeq(u, 1, n)
  BY DEF Front, n
<1>5. Len(Front(u)) = n
  BY <1>1, <1>3, <1>4
<1>6. \A i \in 1..n : Front(u)[i] = u[i]
  BY <1>1, <1>3, <1>4
<1>. QED
  BY <1>3, <1>4, <1>5, <1>6 DEF Last, n

LEMMA NewPatternIs ==
  ASSUME NEW R, NEW u \in Seq(R), NEW g \in {0, 1}, Len(u) > g, g = 1 <=> u[1].type = "NEGATION"
  PROVE  \E d, e : Strips(NewPattern(u), u, g, d, e)
<1>. DEFINE n == Len(u)
            negated == u[1].type = "NEGATION"
            given == IF negated THEN Tail(u) ELSE u
            anchored == given[1].type = "SEPARATOR"
            body == IF anchored THEN Tail(given) ELSE given
            directory == body # <<>> /\ Last(body).type = "SEPARATOR"
            rest == IF directory THEN Front(body) ELSE body
            d == IF anchored THEN g + 1 ELSE g
            e == IF directory THEN n - 1 ELSE n
<1>1. n \in Nat /\ n > g /\ u # <<>>
  BY LenProperties, EmptySeq
<1>. HIDE DEF n
<1>2. given \in Seq(R) /\ Len(given) = n - g /\ \A i \in 1..(n - g) : given[i] = u[i + g]
  <2>1. CASE g = 1
    BY <1>1, <2>1, TailIs DEF n
  <2>2. CASE g = 0
    BY <1>1, <2>2 DEF n
  <2>. QED
    BY <2>1, <2>2
<1>3. given # <<>> /\ given[1] = u[g + 1]
  <2>1. 1 \in 1..(n - g) /\ 1 + g = g + 1
    BY <1>1
  <2>2. given[1] = u[1 + g]
    BY <1>2, <2>1
  <2>3. Len(given) # 0
    <3>1. n - g # 0
      BY <1>1
    <3>. HIDE DEF given
    <3>. QED
      BY <1>2, <3>1
  <2>. QED
    BY <2>1, <2>2, <2>3, EmptySeq
<1>. HIDE DEF given
<1>4. body \in Seq(R) /\ Len(body) = n - d /\ \A i \in 1..(n - d) : body[i] = u[i + d]
  <2>1. CASE anchored
    <3>1. /\ Tail(given) \in Seq(R) /\ Len(Tail(given)) = (n - g) - 1
          /\ \A i \in 1..((n - g) - 1) : Tail(given)[i] = given[i + 1]
      BY <1>2, <1>3, TailIs
    <3>2. ASSUME NEW i \in 1..(n - (g + 1)) PROVE Tail(given)[i] = u[i + (g + 1)]
      <4>1. i \in 1..((n - g) - 1) /\ i + 1 \in 1..(n - g) /\ (i + 1) + g = i + (g + 1)
        BY <1>1
      <4>2. Tail(given)[i] = given[i + 1]
        BY <3>1, <4>1
      <4>3. given[i + 1] = u[(i + 1) + g]
        BY <1>2, <4>1
      <4>. QED
        BY <4>1, <4>2, <4>3
    <3>3. (n - g) - 1 = n - (g + 1)
      BY <1>1
    <3>. HIDE DEF anchored
    <3>. QED
      BY <2>1, <3>1, <3>2, <3>3
  <2>2. CASE ~anchored
    BY <1>2, <2>2
  <2>. QED
    BY <2>1, <2>2
<1>5. d \in {g, g + 1} /\ d \in Nat /\ d <= n /\ (d = g + 1 <=> anchored)
  BY <1>1
<1>6. anchored <=> u[g + 1].type = "SEPARATOR"
  BY <1>3
<1>. HIDE DEF body, anchored, d
<1>7. body # <<>> <=> d < n
  <2>1. body # <<>> <=> Len(body) # 0
    BY <1>4, EmptySeq
  <2>. QED
    BY <1>1, <1>4, <1>5, <2>1
<1>8. directory <=> d < n /\ u[n].type = "SEPARATOR"
  <2>. SUFFICES ASSUME d < n PROVE Last(body) = u[n]
    BY <1>7
  <2>1. Last(body) = body[n - d]
    BY <1>4, <1>7, FrontIs
  <2>2. n - d \in 1..(n - d) /\ (n - d) + d = n
    BY <1>1, <1>5
  <2>3. body[n - d] = u[(n - d) + d]
    BY <1>4, <2>2
  <2>. QED
    BY <2>1, <2>2, <2>3
<1>9. e \in {n - 1, n} /\ d <= e /\ (e = n - 1 <=> directory)
  BY <1>1, <1>5, <1>8
<1>10. rest \in Seq(R) /\ Len(rest) = e - d /\ \A i \in 1..(e - d) : rest[i] = u[i + d]
  <2>1. CASE directory
    <3>0. body # <<>>
      BY <2>1
    <3>1. /\ Front(body) \in Seq(R) /\ Len(Front(body)) = (n - d) - 1
          /\ \A i \in 1..((n - d) - 1) : Front(body)[i] = body[i]
      BY <1>4, <3>0, FrontIs, SMTT(60)
    <3>2. ASSUME NEW i \in 1..((n - 1) - d) PROVE Front(body)[i] = u[i + d]
      <4>1. i \in 1..((n - d) - 1) /\ i \in 1..(n - d)
        BY <1>1, <1>5
      <4>. QED
        BY <1>4, <3>1, <4>1
    <3>3. (n - d) - 1 = (n - 1) - d
      BY <1>1, <1>5
    <3>. HIDE DEF directory
    <3>. QED
      BY <2>1, <3>1, <3>2, <3>3
  <2>2. CASE ~directory
    BY <1>4, <2>2
  <2>. QED
    BY <2>1, <2>2
<1>11. NewPattern(u) = [negated |-> negated, anchored |-> anchored, directory |-> directory,
                        kind |-> Kind(rest), tokens |-> rest, fnmatch |-> Words(rest)]
  BY DEF NewPattern, given, anchored, body
<1>. HIDE DEF directory, rest, e
<1>12. rest = [i \in 1..(e - d) |-> u[i + d]]
  <2>1. rest = [i \in 1..(e - d) |-> rest[i]]
    BY <1>10, LenProperties
  <2>. QED
    BY <1>10, <2>1
<1>13. g \in {0, 1} /\ (negated <=> g = 1)
  OBVIOUS
<1>. HIDE DEF negated
<1>14. Strips(NewPattern(u), u, g, d, e)
  <2>. DEFINE c == NewPattern(u)
  <2>1. /\ c.negated = negated /\ c.anchored = anchored /\ c.directory = directory
        /\ c.kind = Kind(rest) /\ c.tokens = rest /\ c.fnmatch = Words(rest)
    BY <1>11
  <2>. HIDE DEF c
  <2>2. c.negated <=> g = 1
    BY <1>13, <2>1
  <2>3. c.anchored <=> d = g + 1
    BY <1>5, <2>1
  <2>4. c.directory <=> e = n - 1
    BY <1>9, <2>1
  <2>5. c.tokens = [i \in 1..(e - d) |-> u[i + d]] /\ c.kind = Kind(c.tokens) /\ c.fnmatch = Words(c.tokens)
    BY <1>12, <2>1
  <2>6. e = n - 1 <=> d < n /\ u[n].type = "SEPARATOR"
    BY <1>8, <1>9
  <2>7. Strips(c, u, g, d, e)
    BY <1>5, <1>6, <1>9, <1>13, <2>2, <2>3, <2>4, <2>5, <2>6 DEF Strips, n
  <2>. QED
    BY <2>7 DEF c
<1>. QED
  BY <1>14

\* Where the expression of a line begins, and what is left of it without a separator
\* at the beginning and at the end.
Opens(s) == IF Negated(s) THEN s + 1 ELSE s
Low(s) == IF Opens(s) \in Plain(s, "/") THEN Opens(s) + 1 ELSE Opens(s)
High(s) == IF Ends(s) - 1 \in Plain(s, "/") THEN Ends(s) - 2 ELSE Ends(s) - 1

\* Nothing is left but a separator.
Lone(s) == Opens(s) = Ends(s) - 1 /\ Opens(s) \in Plain(s, "/")

Apart(s) == \A i \in Plain(s, "/") : i + 1 \notin Plain(s, "/")

\* c is the pattern of the line from s, q its tokens.
Reads(c, q, s) ==
  /\ Runs(q, s, Low(s), High(s)) /\ Lettered(c.tokens, q)
  /\ c.kind = Kind(c.tokens) /\ c.fnmatch = SubSeq(text, Low(s), High(s))

\* A negated pattern has something to negate.
LEMMA NegatedEnds ==
  ASSUME ReadText, NEW s \in LineStarts, ~Malformed(s), Negated(s)
  PROVE  Ends(s) > s + 1 /\ Ends(s) \in Nat
<1>. DEFINE T == {Stop(s)} \cup {i + 2 : i \in {d \in Doubles(s) : Spaces(s, d + 2)}}
<1>1. s \in Nat /\ Stop(s) \in Nat /\ Content(s) = s..(Stop(s) - 1) /\ Body(s) = Content(s) \ {s}
  BY LineFacts, BodyFacts DEF Body
<1>2. Body(s) # {}
  BY DEF Malformed, Comment, Negated
<1>3. Stop(s) > s + 1
  <2>1. PICK k : k \in Body(s)
    BY <1>2
  <2>2. k \in s..(Stop(s) - 1) /\ k # s
    BY <1>1, <2>1
  <2>. QED
    BY <1>1, <2>2
<1>4. \A d \in Doubles(s) : d \in Nat /\ d > s
  <2>1. Doubles(s) \subseteq Body(s)
    BY DEF Doubles, Plain
  <2>. QED
    BY <1>1, <2>1
<1>5. T \subseteq Nat /\ T # {} /\ \A m \in T : m > s + 1
  BY <1>1, <1>3, <1>4
<1>. HIDE DEF T
<1>6. Min(T) \in T
  BY <1>5, MinOf
<1>7. Ends(s) = Min(T)
  BY DEF Ends, T
<1>. QED
  BY <1>5, <1>6, <1>7

LEMMA PartIs ==
  ASSUME NEW ts \in Seq(Part)
  PROVE  /\ Len(ts) \in Nat /\ DOMAIN ts = 1..Len(ts)
         /\ \A i \in 1..Len(ts) : ts[i].type \in PatternTypes
BY LenProperties, ElementOfSeq DEF Part

\* The tokens after the negation.
LEMMA TokensOfLine ==
  ASSUME ReadText, NEW p, p.tokens \in Seq(Part), Collected(p), p.from \in Fine, p.to = Ends(p.from)
  PROVE  \E g \in {0, 1} :
           LET ts == p.tokens
               s == p.from
           IN /\ g = 1 <=> Negated(s)
              /\ g = 1 <=> ts[1].type = "NEGATION"
              /\ g < Len(ts)
              /\ Runs([i \in 1..(Len(ts) - g) |-> ts[i + g]], s, Opens(s), Ends(s) - 1)
<1>. DEFINE ts == p.tokens
            s == p.from
            n == Len(ts)
            g == IF Negated(s) THEN 1 ELSE 0
            q == [i \in 1..(n - g) |-> ts[i + g]]
<1>1. s \in LineStarts /\ ~Malformed(s) /\ Laid(ts, s) /\ ts[n].to = Ends(s)
  BY DEF Collected, Fine
<1>. HIDE DEF ts, s
<1>2. n \in Nat /\ n > 0
  <2>1. n \in Nat
    BY PartIs DEF ts
  <2>. QED
    BY <1>1, <2>1 DEF Laid
<1>3. ts[1].from = s /\ s \in Nat /\ ts[1].to \in Nat /\ ts[n].to \in Nat
  <2>1. 1 \in 1..n /\ n \in 1..n
    BY <1>2
  <2>2. s \in Nat
    BY <1>1, LineFacts
  <2>. QED
    BY <1>1, <2>1, <2>2 DEF Laid, Placed
<1>4. \A i \in 1..n : Placed(s, ts[i])
  BY <1>1 DEF Laid
<1>5. \A i \in 1..(n - 1) : ts[i + 1].from = ts[i].to /\ (ts[i].type = "PATTERN" => ts[i + 1].type # "PATTERN")
  BY <1>1 DEF Laid
<1>6. ts[1].type = "NEGATION" <=> Negated(s)
  <2>1. 1 \in 1..n
    BY <1>2
  <2>. QED
    BY <1>3, <1>4, <2>1 DEF Placed
<1>7. Negated(s) => ts[1].to = s + 1
  <2>1. 1 \in 1..n
    BY <1>2
  <2>. QED
    BY <1>4, <1>6, <2>1 DEF Placed
<1>. HIDE DEF n
<1>8. g < n
  <2>1. CASE Negated(s)
    <3>1. Ends(s) > s + 1 /\ Ends(s) \in Nat
      BY <1>1, <2>1, NegatedEnds
    <3>2. n # 1
      BY <1>1, <1>3, <1>7, <2>1, <3>1
    <3>. QED
      BY <1>2, <2>1, <3>2
  <2>2. CASE ~Negated(s)
    BY <1>2, <2>2
  <2>. QED
    BY <2>1, <2>2
<1>9. \A i \in 1..n : Negated(s) /\ i > 1 => ts[i].from # s
  <2>. DEFINE A == {i \in 1..n : i > 1 => s < ts[i].from}
  <2>1. \A i \in 1..n : ts[i].from \in Nat /\ ts[i].to \in Nat /\ ts[i].from < ts[i].to
    BY <1>4 DEF Placed
  <2>2. ASSUME NEW i \in 1..n, \A h \in 1..(i - 1) : h \in A PROVE i \in A
    <3>1. CASE i = 1
      BY <1>2, <3>1
    <3>2. CASE i # 1
      <4>. DEFINE h == i - 1
      <4>1. h \in 1..(i - 1) /\ h \in 1..(n - 1) /\ h \in 1..n /\ h + 1 = i
        BY <1>2, <3>2
      <4>2. h \in A
        BY <2>2, <4>1, Zenon
      <4>3. ts[i].from = ts[h].to
        BY <1>5, <4>1
      <4>. HIDE DEF h
      <4>4. s <= ts[h].from
        <5>1. h = 1 => ts[h].from = s
          BY <1>3
        <5>2. h # 1 => h > 1 /\ s < ts[h].from
          BY <4>1, <4>2
        <5>3. ts[h].from \in Nat
          BY <2>1, <4>1
        <5>. QED
          BY <1>3, <5>1, <5>2, <5>3
      <4>. QED
        BY <1>3, <2>1, <4>1, <4>3, <4>4
    <3>. QED
      BY <3>1, <3>2
  <2>. HIDE DEF A
  <2>3. \A i \in 1..n : i \in A
    BY <1>2, <2>2, Upward, 1 \in Nat
  <2>4. \A i \in 1..n : i > 1 => s < ts[i].from
    BY <2>3 DEF A
  <2>. QED
    BY <1>3, <2>1, <2>4
<1>10. \A i \in 1..n : i > g => ts[i].type # "NEGATION"
  <2>1. \A i \in 1..n : ts[i].type = "NEGATION" => ts[i].from = s /\ Negated(s)
    BY <1>4 DEF Placed
  <2>. QED
    BY <1>9, <2>1
<1>11. Len(q) = n - g
  <2>1. n - g \in Nat
    BY <1>2, <1>8
  <2>2. q \in [1..(n - g) -> {ts[i + g] : i \in 1..(n - g)}]
    OBVIOUS
  <2>. HIDE DEF q
  <2>. QED
    BY <2>1, <2>2, FunctionIsSeq
<1>12. g \in {0, 1} /\ (g = 1 <=> Negated(s)) /\ g \in Nat
  OBVIOUS
<1>13. q[1].from = Opens(s)
  <2>1. 1 \in 1..(n - g)
    BY <1>2, <1>8
  <2>2. CASE Negated(s)
    <3>1. q[1] = ts[2] /\ 1 \in 1..(n - 1)
      BY <2>1, <2>2
    <3>2. ts[1 + 1].from = ts[1].to
      BY <1>5, <3>1
    <3>. QED
      BY <1>7, <2>2, <3>1, <3>2 DEF Opens
  <2>3. CASE ~Negated(s)
    BY <1>3, <2>1, <2>3 DEF Opens
  <2>. QED
    BY <2>2, <2>3
<1>. HIDE DEF g
<1>14. q[n - g].to = Ends(s)
  <2>1. n - g \in 1..(n - g) /\ (n - g) + g = n
    BY <1>2, <1>8, <1>12
  <2>. QED
    BY <1>1, <2>1 DEF n
<1>15. ASSUME NEW i \in 1..(n - g) PROVE Placed(s, q[i]) /\ q[i].type # "NEGATION"
  <2>1. i + g \in 1..n /\ i + g > g
    BY <1>2, <1>8, <1>12
  <2>. QED
    BY <1>4, <1>10, <2>1
<1>16. ASSUME NEW i \in 1..((n - g) - 1)
       PROVE  q[i + 1].from = q[i].to /\ (q[i].type = "PATTERN" => q[i + 1].type # "PATTERN")
  <2>1. i + g \in 1..(n - 1) /\ (i + g) + 1 = (i + 1) + g /\ i \in 1..(n - g) /\ i + 1 \in 1..(n - g)
    BY <1>2, <1>8, <1>12
  <2>2. q[i] = ts[i + g] /\ q[i + 1] = ts[(i + 1) + g]
    BY <2>1
  <2>. QED
    BY <1>5, <2>1, <2>2
<1>17. Ends(s) - 1 \in Int /\ (Ends(s) - 1) + 1 = Ends(s) /\ n - g \in Nat \ {0}
  BY <1>1, <1>2, <1>3, <1>8, <1>12
<1>. HIDE DEF q
<1>18. Runs(q, s, Opens(s), Ends(s) - 1)
  BY <1>11, <1>13, <1>14, <1>15, <1>16, <1>17 DEF Runs
<1>. QED
  BY <1>6, <1>8, <1>12, <1>18 DEF q, n, ts, s

\* A separator at the beginning or at the end of a line is its first or last token.
LEMMA RunsEnds ==
  ASSUME NEW q, NEW s, NEW lo, NEW hi, Runs(q, s, lo, hi)
  PROVE  /\ q[1].type = "SEPARATOR" <=> lo \in Plain(s, "/")
         /\ q[1].type = "SEPARATOR" => q[1].to = lo + 1
         /\ q[Len(q)].type = "SEPARATOR" <=> hi \in Plain(s, "/")
         /\ q[Len(q)].type = "SEPARATOR" => q[Len(q)].from = hi
         /\ lo = hi /\ lo \in Plain(s, "/") <=> Len(q) = 1 /\ q[1].type = "SEPARATOR"
<1>. DEFINE n == Len(q)
<1>1. n \in Nat \ {0} /\ lo \in Nat /\ hi \in Nat /\ lo <= hi
  BY RunsWithin DEF Runs
<1>2. 1 \in 1..n /\ n \in 1..n
  BY <1>1
<1>3. Within(q, s, lo, hi, 1) /\ Within(q, s, lo, hi, n)
  BY <1>2, RunsWithin
<1>4. Placed(s, q[1]) /\ q[1].type # "NEGATION" /\ Placed(s, q[n]) /\ q[n].type # "NEGATION"
  BY <1>2 DEF Runs
<1>5. q[1].from = lo /\ q[1].to \in Nat /\ lo < q[1].to
  BY <1>3 DEF Within
<1>6. q[n].to = hi + 1 /\ q[n].from \in Nat /\ q[n].from < hi + 1
  BY <1>3 DEF Within, n
<1>7. lo \in q[1].from..(q[1].to - 1)
  BY <1>1, <1>5
<1>8. hi \in q[n].from..(q[n].to - 1)
  BY <1>1, <1>6
<1>9. q[1].type = "SEPARATOR" <=> lo \in Plain(s, "/")
  BY <1>4, <1>7, SeparatorIsToken
<1>10. q[n].type = "SEPARATOR" <=> hi \in Plain(s, "/")
  BY <1>4, <1>8, SeparatorIsToken
<1>11. q[n].type = "SEPARATOR" => q[n].from = hi
  BY <1>4, <1>8, SeparatorIsToken
<1>12. q[1].type = "SEPARATOR" => q[1].to = lo + 1
  BY <1>4, <1>5 DEF Placed
<1>13. q[1].type = "SEPARATOR" => (lo = hi <=> n = 1)
  <2>1. 1 = n <=> q[1].to = hi + 1
    BY <1>3 DEF Within, n
  <2>. QED
    BY <1>1, <1>12, <2>1
<1>. QED
  BY <1>9, <1>10, <1>11, <1>12, <1>13 DEF n

\* What is left of the tokens without those separators.
LEMMA RunsRest ==
  ASSUME NEW q, NEW s, NEW lo, NEW hi, Runs(q, s, lo, hi), Apart(s), ~(lo = hi /\ lo \in Plain(s, "/")),
         NEW f, f = IF lo \in Plain(s, "/") THEN 1 ELSE 0,
         NEW l, l = IF hi \in Plain(s, "/") THEN 1 ELSE 0
  PROVE  Runs([i \in 1..((Len(q) - l) - f) |-> q[i + f]], s, lo + f, hi - l)
<1>. DEFINE n == Len(q)
            m == (n - l) - f
            r == [i \in 1..m |-> q[i + f]]
<1>1. n \in Nat \ {0} /\ lo \in Nat /\ hi \in Nat /\ lo <= hi /\ f \in {0, 1} /\ l \in {0, 1}
  BY RunsWithin DEF Runs
<1>2. /\ q[1].type = "SEPARATOR" <=> f = 1
      /\ f = 1 => q[1].to = lo + 1
      /\ q[n].type = "SEPARATOR" <=> l = 1
      /\ l = 1 => q[n].from = hi
      /\ ~(n = 1 /\ f = 1)
  BY RunsEnds
<1>3. \A i \in 1..(n - 1) : q[i + 1].from = q[i].to /\ (q[i].type = "PATTERN" => q[i + 1].type # "PATTERN")
  BY DEF Runs
<1>4. \A i \in 1..n : Placed(s, q[i]) /\ q[i].type # "NEGATION"
  BY DEF Runs
<1>5. q[1].from = lo /\ q[n].to = hi + 1
  BY DEF Runs
<1>. HIDE DEF n
<1>6. m \in Nat \ {0}
  <2>1. SUFFICES ASSUME n = 2, f = 1, l = 1 PROVE FALSE
    BY <1>1, <1>2
  <2>2. q[2].from = q[1].to
    <3>1. 1 \in 1..(n - 1) /\ 1 + 1 = 2
      BY <2>1
    <3>. QED
      BY <1>3, <3>1
  <2>3. hi = lo + 1
    BY <1>2, <2>1, <2>2
  <2>. QED
    BY <1>1, <2>1, <2>3 DEF Apart
<1>7. Len(r) = m
  <2>1. r \in [1..m -> {q[i + f] : i \in 1..m}]
    OBVIOUS
  <2>. HIDE DEF r, m
  <2>. QED
    BY <1>6, <2>1, FunctionIsSeq
<1>8. r[1].from = lo + f
  <2>0. 1 \in 1..m
    BY <1>6
  <2>1. CASE f = 0
    BY <1>1, <1>5, <2>0, <2>1
  <2>2. CASE f = 1
    <3>1. r[1] = q[1 + 1] /\ 1 \in 1..(n - 1)
      BY <1>1, <1>6, <2>0, <2>2
    <3>. QED
      BY <1>2, <1>3, <2>2, <3>1
  <2>. QED
    BY <1>1, <2>1, <2>2
<1>9. r[m].to = (hi - l) + 1
  <2>0. m \in 1..m /\ m + f = n - l
    BY <1>1, <1>6
  <2>1. r[m] = q[n - l]
    BY <2>0
  <2>2. CASE l = 0
    BY <1>1, <1>5, <2>1, <2>2
  <2>3. CASE l = 1
    <3>. DEFINE k == n - 1
    <3>1. k \in 1..(n - 1) /\ k + 1 = n /\ r[m] = q[k]
      BY <1>1, <1>6, <2>0, <2>1, <2>3
    <3>. HIDE DEF k
    <3>2. q[n].from = q[k].to
      BY <1>3, <3>1
    <3>3. r[m].to = hi
      BY <1>2, <2>3, <3>1, <3>2
    <3>. QED
      BY <1>1, <2>3, <3>3
  <2>. QED
    BY <1>1, <2>2, <2>3
<1>10. ASSUME NEW i \in 1..m PROVE Placed(s, r[i]) /\ r[i].type # "NEGATION"
  <2>1. i + f \in 1..n
    BY <1>1, <1>6
  <2>. QED
    BY <1>4, <2>1
<1>11. ASSUME NEW i \in 1..(m - 1)
       PROVE  r[i + 1].from = r[i].to /\ (r[i].type = "PATTERN" => r[i + 1].type # "PATTERN")
  <2>1. i + f \in 1..(n - 1) /\ (i + f) + 1 = (i + 1) + f /\ i \in 1..m /\ i + 1 \in 1..m
    BY <1>1, <1>6
  <2>2. r[i] = q[i + f] /\ r[i + 1] = q[(i + 1) + f]
    BY <2>1
  <2>. QED
    BY <1>3, <2>1, <2>2
<1>12. hi - l \in Int
  BY <1>1
<1>. HIDE DEF r, m
<1>13. Runs(r, s, lo + f, hi - l)
  BY <1>6, <1>7, <1>8, <1>9, <1>10, <1>11, <1>12 DEF Runs
<1>. QED
  BY <1>13 DEF r, m, n

LEMMA PlacedWord ==
  ASSUME ReadText, NEW s \in LineStarts, NEW t, Placed(s, t)
  PROVE  Word(t) \in Seq(Runes \cup DOMAIN Code)
<1>1. t.from \in Nat /\ t.to \in Nat /\ Content(s) \subseteq 1..Len(text) /\ Body(s) \subseteq Content(s)
  BY BodyFacts DEF Placed
<1>2. \A k \in t.from..(t.to - 1) : k \in Content(s)
  <2>1. CASE t.type = "NEGATION"
    <3>1. t.from = s /\ Negated(s) /\ t.to = s + 1
      BY <2>1 DEF Placed
    <3>2. s \in Nat
      BY <1>1, <3>1
    <3>. HIDE DEF Placed
    <3>3. \A k \in s..((s + 1) - 1) : k = s
      BY <3>2
    <3>. QED
      BY <3>1, <3>3 DEF Negated
  <2>2. CASE t.type # "NEGATION"
    BY <1>1, <2>2 DEF Placed
  <2>. QED
    BY <2>1, <2>2
<1>3. \A k \in t.from..(t.to - 1) : text[k] \in Runes \cup DOMAIN Code
  <2>1. \A k \in 1..Len(text) : text[k] \in Runes
    BY DEF ReadText
  <2>. QED
    BY <1>1, <1>2, <2>1
<1>4. t.from \in Int /\ t.to - 1 \in Int
  BY <1>1
<1>. QED
  BY <1>3, <1>4, SubSeqProperties DEF Word

\* A pattern is that of its line: what it says of directories and of the base, and
\* unless nothing is left of it the tokens and the runes that are.
LEMMA PatternOfLine ==
  ASSUME ReadText, NEW p, p.tokens \in Seq(Part), Collected(p), p.from \in Fine, p.to = Ends(p.from),
         NEW s, s = p.from, Apart(s)
  PROVE  /\ Opens(s) \in Nat /\ Ends(s) \in Nat /\ Ends(s) - 1 \in Nat /\ Opens(s) <= Ends(s) - 1
         /\ \A k \in Opens(s)..(Ends(s) - 1) : k \in Body(s)
         /\ Compiled(p).directory <=> Ends(s) - 1 \in Plain(s, "/") /\ ~Lone(s)
         /\ Compiled(p).anchored <=> Opens(s) \in Plain(s, "/")
         /\ Lone(s) => Compiled(p).kind = "name" /\ Compiled(p).fnmatch = <<>>
         /\ ~Lone(s) => \E q : Reads(Compiled(p), q, s)
<1>. DEFINE ts == p.tokens
            n == Len(ts)
            u == [i \in DOMAIN ts |-> [type |-> ts[i].type, word |-> Word(ts[i])]]
            c == Compiled(p)
            a == Opens(s)
            z == Ends(s) - 1
<1>1. c = NewPattern(u)
  BY DEF Compiled
<1>2. s \in LineStarts /\ n \in Nat /\ DOMAIN ts = 1..n /\ \A i \in 1..n : Placed(s, ts[i])
  BY PartIs DEF Collected, Laid
<1>3. Lettered(u, ts)
  BY <1>2 DEF Lettered
<1>4. \A i \in 1..n : ts[i].type \in PatternTypes /\ Word(ts[i]) \in Seq(Runes \cup DOMAIN Code)
  BY <1>2, PartIs, PlacedWord
<1>. HIDE DEF c, u
<1>5. u \in Seq(LetteredTokens) /\ Len(u) = n /\ \A i \in 1..n : u[i].type = ts[i].type /\ u[i].word = Word(ts[i])
  BY <1>2, <1>3, <1>4, LetteredIs
<1>6. PICK g \in {0, 1} : /\ g = 1 <=> Negated(s)
                          /\ g = 1 <=> ts[1].type = "NEGATION"
                          /\ g < n
                          /\ Runs([i \in 1..(n - g) |-> ts[i + g]], s, a, z)
  BY TokensOfLine
<1>. DEFINE q == [i \in 1..(n - g) |-> ts[i + g]]
            m == n - g
<1>7. Runs(q, s, a, z)
  BY <1>6
<1>8. Len(q) = m /\ m \in Nat \ {0} /\ q[1] = ts[g + 1] /\ q[m] = ts[n]
  <2>1. m \in Nat \ {0} /\ 1 \in 1..m /\ m \in 1..m /\ 1 + g = g + 1 /\ m + g = n
    BY <1>2, <1>6
  <2>2. q \in [1..m -> {ts[i + g] : i \in 1..m}]
    OBVIOUS
  <2>3. q[1] = ts[g + 1] /\ q[m] = ts[n]
    BY <2>1
  <2>. HIDE DEF q, m
  <2>4. Len(q) = m
    BY <2>1, <2>2, FunctionIsSeq
  <2>. QED
    BY <2>1, <2>3, <2>4
<1>9. PICK d, e : Strips(c, u, g, d, e)
  <2>1. 1 \in 1..n
    BY <1>2, <1>6
  <2>2. g = 1 <=> u[1].type = "NEGATION"
    BY <1>5, <1>6, <2>1
  <2>. QED
    BY <1>1, <1>5, <1>6, <2>2, NewPatternIs
<1>10. a \in Nat /\ z \in Nat /\ a <= z /\ \A k \in a..z : k \in Body(s)
  <2>. HIDE DEF a, z, q
  <2>. QED
    BY <1>7, RunsWithin, RunsCover
<1>19. Ends(s) \in Nat
  <2>1. Ends(s) = p.to /\ p.tokens[Len(p.tokens)].to = p.to
    BY DEF Collected
  <2>2. n \in 1..n
    BY <1>2, <1>6
  <2>3. ts[n].to \in Nat
    BY <1>2, <2>2 DEF Placed
  <2>. QED
    BY <2>1, <2>3
<1>11. /\ q[1].type = "SEPARATOR" <=> a \in Plain(s, "/")
       /\ q[m].type = "SEPARATOR" <=> z \in Plain(s, "/")
       /\ Lone(s) <=> m = 1 /\ q[1].type = "SEPARATOR"
  <2>1. /\ q[1].type = "SEPARATOR" <=> a \in Plain(s, "/")
        /\ q[Len(q)].type = "SEPARATOR" <=> z \in Plain(s, "/")
        /\ a = z /\ a \in Plain(s, "/") <=> Len(q) = 1 /\ q[1].type = "SEPARATOR"
    <3>. HIDE DEF a, z, q
    <3>. QED
      BY <1>7, RunsEnds
  <2>. QED
    BY <1>8, <2>1 DEF Lone
<1>. HIDE DEF q
<1>12. u[g + 1].type = q[1].type /\ u[n].type = q[m].type
  <2>1. g + 1 \in 1..n /\ n \in 1..n
    BY <1>2, <1>6
  <2>. QED
    BY <1>5, <1>8, <2>1
<1>13. /\ d \in {g, g + 1} /\ e \in {n - 1, n} /\ d <= e
       /\ d = g + 1 <=> a \in Plain(s, "/")
       /\ e = n - 1 <=> d < n /\ z \in Plain(s, "/")
       /\ c.anchored <=> d = g + 1
       /\ c.directory <=> e = n - 1
       /\ c.tokens = [i \in 1..(e - d) |-> u[i + d]]
       /\ c.kind = Kind(c.tokens) /\ c.fnmatch = Words(c.tokens)
  BY <1>5, <1>9, <1>11, <1>12 DEF Strips
<1>14. d < n <=> ~Lone(s)
  <2>1. d < n <=> ~(m = 1 /\ d = g + 1)
    BY <1>2, <1>6, <1>13
  <2>. QED
    BY <1>11, <1>13, <2>1
<1>15. c.directory <=> z \in Plain(s, "/") /\ ~Lone(s)
  BY <1>13, <1>14
<1>16. ASSUME Lone(s) PROVE c.kind = "name" /\ c.fnmatch = <<>>
  <2>1. e - d < 1 /\ e - d \in Int
    BY <1>2, <1>6, <1>13, <1>14, <1>16
  <2>2. c.tokens = <<>>
    <3>1. 1..(e - d) = {}
      BY <2>1
    <3>. QED
      BY <1>13, <3>1
  <2>3. Types(<<>>) = {}
    BY DEF Types
  <2>4. Words(<<>>) = <<>>
    <3>1. [i \in DOMAIN <<>> |-> <<>>[i].word] = <<>>
      OBVIOUS
    <3>2. FlattenSeq(<<>>) = <<>>
      BY DEF FlattenSeq
    <3>. QED
      BY <3>1, <3>2 DEF Words
  <2>. QED
    BY <1>13, <2>2, <2>3, <2>4 DEF Kind
<1>17. ASSUME ~Lone(s) PROVE \E r : Reads(c, r, s)
  <2>. DEFINE f == d - g
              l == n - e
              r == [i \in 1..((Len(q) - l) - f) |-> q[i + f]]
  <2>1. f = (IF a \in Plain(s, "/") THEN 1 ELSE 0) /\ f \in {0, 1}
    BY <1>6, <1>13
  <2>2. l = (IF z \in Plain(s, "/") THEN 1 ELSE 0) /\ l \in {0, 1}
    BY <1>2, <1>13, <1>14, <1>17
  <2>3. Runs(r, s, a + f, z - l)
    <3>1. ~(a = z /\ a \in Plain(s, "/"))
      BY <1>17 DEF Lone
    <3>. HIDE DEF a, z, f, l
    <3>. QED
      BY <1>7, <2>1, <2>2, <3>1, RunsRest, ZenonT(60)
  <2>4. Low(s) = a + f /\ High(s) = z - l
    <3>1. Low(s) = a + f
      BY <1>10, <2>1 DEF Low
    <3>2. (Ends(s) - 1) - 1 = Ends(s) - 2 /\ (Ends(s) - 1) - 0 = Ends(s) - 1
      <4>. DEFINE y == Ends(s)
      <4>1. y - 1 \in Nat
        BY <1>10
      <4>2. y \in Int
        BY <1>19
      <4>. HIDE DEF y
      <4>3. (y - 1) - 1 = y - 2 /\ (y - 1) - 0 = y - 1
        BY <4>2
      <4>. QED
        BY <4>3 DEF y
    <3>3. High(s) = z - l
      BY <2>2, <3>2 DEF High
    <3>. QED
      BY <3>1, <3>3
  <2>0. n \in Nat /\ g \in Nat /\ d \in Int /\ e \in Int /\ Len(q) = n - g /\ d >= g /\ e <= n
    <3>1. n \in Nat /\ g \in Nat /\ Len(q) = n - g
      BY <1>2, <1>6, <1>8
    <3>. HIDE DEF n
    <3>2. d \in Int /\ e \in Int /\ d >= g /\ e <= n
      BY <1>13, <3>1
    <3>. QED
      BY <3>1, <3>2
  <2>5. (Len(q) - l) - f = e - d
    <3>. HIDE DEF n
    <3>1. ((n - g) - (n - e)) - (d - g) = e - d
      BY <2>0
    <3>. QED
      BY <2>0, <3>1
  <2>6. Lettered(c.tokens, r)
    <3>1. Len(r) = e - d
      <4>1. e - d \in Nat
        BY <1>2, <1>6, <1>13
      <4>2. r \in [1..(e - d) -> {q[i + f] : i \in 1..(e - d)}]
        BY <2>5
      <4>. HIDE DEF r
      <4>. QED
        BY <4>1, <4>2, FunctionIsSeq
    <3>2. ASSUME NEW i \in 1..(e - d)
          PROVE  u[i + d] = [type |-> r[i].type, word |-> Word(r[i])]
      <4>1. i + f \in 1..m /\ (i + f) + g = i + d /\ i + d \in 1..n
        <5>. HIDE DEF n
        <5>. QED
          BY <2>0
      <4>2. r[i] = q[i + f]
        BY <2>5
      <4>3. q[i + f] = ts[(i + f) + g]
        BY <4>1 DEF q
      <4>4. r[i] = ts[i + d]
        BY <4>1, <4>2, <4>3
      <4>5. u[i + d] = [type |-> ts[i + d].type, word |-> Word(ts[i + d])]
        BY <1>2, <4>1 DEF u
      <4>. QED
        BY <4>4, <4>5
    <3>. HIDE DEF r
    <3>3. [i \in 1..(e - d) |-> u[i + d]] = [i \in 1..(e - d) |-> [type |-> r[i].type, word |-> Word(r[i])]]
      BY <3>2
    <3>. QED
      BY <1>13, <3>1, <3>3 DEF Lettered
  <2>. HIDE DEF r, f, l
  <2>7. Words(c.tokens) = SubSeq(text, a + f, z - l)
    BY <1>2, <2>3, <2>6, WordsOfRuns
  <2>8. Reads(c, r, s)
    BY <1>13, <2>3, <2>4, <2>6, <2>7 DEF Reads
  <2>. QED
    BY <2>8
<1>18. c.anchored <=> a \in Plain(s, "/")
  BY <1>13
<1>. QED
  BY <1>10, <1>15, <1>16, <1>17, <1>18, <1>19 DEF c

-----------------------------------------------------------------------------
(* The rule of a line                                                      *)

\* Where the component of a line that i is in ends, in an expression up to hi.
CutAt(s, i, hi) == Min({k \in i..hi : k \in Plain(s, "/")} \cup {hi + 1})
ComponentAt(s, i, hi) == SubSeq(text, i, CutAt(s, i, hi) - 1)

\* from is what RuleMatches finds for every rest of the line, as pairs.
RuleRests(L, s, a, hi, parts) ==
  \A i \in a..hi + 2, x \in 0..Len(parts) :
    <<i, x>> \in L <=>
      IF i > hi THEN x = Len(parts)
      ELSE IF CutAt(s, i, hi) = i THEN <<CutAt(s, i, hi) + 1, x>> \in L
      ELSE IF ComponentAt(s, i, hi) = <<"*", "*">>
      THEN \E y \in x..Len(parts) : <<CutAt(s, i, hi) + 1, y>> \in L
      ELSE /\ x < Len(parts) /\ Globs(ComponentAt(s, i, hi), parts[x + 1])
           /\ <<CutAt(s, i, hi) + 1, x + 1>> \in L

LEMMA CutFacts ==
  ASSUME NEW s, NEW hi \in Nat, NEW i \in 0..hi
  PROVE  /\ CutAt(s, i, hi) \in i..hi + 1
         /\ CutAt(s, i, hi) # hi + 1 => CutAt(s, i, hi) \in Plain(s, "/") /\ CutAt(s, i, hi) <= hi
         /\ \A k \in i..(CutAt(s, i, hi) - 1) : k \notin Plain(s, "/")
<1>. DEFINE T == {k \in i..hi : k \in Plain(s, "/")} \cup {hi + 1}
            c == CutAt(s, i, hi)
<1>1. T \subseteq Nat /\ T # {} /\ T \subseteq i..hi + 1
  OBVIOUS
<1>2. \A k : k \in T <=> (k \in i..hi /\ k \in Plain(s, "/")) \/ k = hi + 1
  OBVIOUS
<1>3. c = Min(T)
  BY DEF CutAt
<1>. HIDE DEF T, c
<1>4. c \in T /\ \A m \in T : c <= m
  BY <1>1, <1>3, MinOf
<1>5. c \in i..hi + 1
  BY <1>1, <1>4
<1>6. c # hi + 1 => c \in Plain(s, "/") /\ c <= hi
  <2>1. c # hi + 1 => c \in i..hi /\ c \in Plain(s, "/")
    BY <1>2, <1>4
  <2>. QED
    BY <2>1
<1>7. ASSUME NEW k \in i..(c - 1), k \in Plain(s, "/") PROVE FALSE
  <2>1. k \in i..hi /\ ~(c <= k)
    BY <1>5
  <2>. QED
    BY <1>2, <1>4, <1>7, <2>1
<1>. QED
  BY <1>5, <1>6, <1>7 DEF c

\* Where a component begins: there is one, and no separator.
LEMMA HighIs ==
  ASSUME NEW s, NEW a, a = Opens(s), NEW z, z = Ends(s) - 1, Ends(s) \in Nat,
         a \in Nat, z \in Nat, a <= z, ~Lone(s), Apart(s)
  PROVE  /\ High(s) \in Nat /\ a <= High(s) /\ High(s) <= z /\ High(s) \notin Plain(s, "/")
         /\ z \in Plain(s, "/") <=> High(s) = z - 1
         /\ z \notin Plain(s, "/") <=> High(s) = z
         /\ Low(s) \in {a, a + 1} /\ Low(s) <= High(s) /\ Low(s) \notin Plain(s, "/")
         /\ a \in Plain(s, "/") <=> Low(s) = a + 1
<1>. DEFINE e == Ends(s)
            h == High(s)
            l == Low(s)
            P == Plain(s, "/")
<1>1. e \in Nat /\ z = e - 1
  OBVIOUS
<1>2. h = IF z \in P THEN e - 2 ELSE e - 1
  BY DEF High
<1>3. l = IF a \in P THEN a + 1 ELSE a
  BY DEF Low
<1>4. ~(a = z /\ a \in P)
  BY DEF Lone
<1>5. \A i \in P : i + 1 \notin P
  BY DEF Apart
<1>. HIDE DEF e, h, l, P
<1>6. h = IF z \in P THEN z - 1 ELSE z
  BY <1>1, <1>2
<1>7. CASE z \in P
  <2>1. h = z - 1 /\ a # z /\ h \in Nat /\ h + 1 = z /\ a <= h /\ h <= z
    BY <1>4, <1>6, <1>7
  <2>2. h \notin P
    BY <1>5, <1>7, <2>1
  <2>3. l \in {a, a + 1} /\ l <= h /\ l \notin P /\ (a \in P <=> l = a + 1)
    <3>1. CASE a \in P
      <4>1. l = a + 1 /\ a + 1 \notin P /\ a # h
        BY <1>3, <1>5, <2>2, <3>1
      <4>. QED
        BY <2>1, <3>1, <4>1
    <3>2. CASE a \notin P
      <4>1. l = a /\ a # a + 1
        BY <1>3, <3>2
      <4>. QED
        BY <2>1, <3>2, <4>1
    <3>. QED
      BY <3>1, <3>2
  <2>. QED
    BY <1>7, <2>1, <2>2, <2>3 DEF h, l, P
<1>8. CASE z \notin P
  <2>1. h = z /\ h # z - 1
    BY <1>6, <1>8
  <2>2. l \in {a, a + 1} /\ l <= z /\ l \notin P /\ (a \in P <=> l = a + 1)
    <3>1. CASE a \in P
      <4>1. l = a + 1 /\ a + 1 \notin P /\ a # z
        BY <1>3, <1>4, <1>5, <3>1
      <4>. QED
        BY <3>1, <4>1
    <3>2. CASE a \notin P
      <4>1. l = a /\ a # a + 1
        BY <1>3, <3>2
      <4>. QED
        BY <3>2, <4>1
    <3>. QED
      BY <3>1, <3>2
  <2>. QED
    BY <1>8, <2>1, <2>2 DEF h, l, P
<1>. QED
  BY <1>7, <1>8

\* The recursion of RuleMatches: what it finds for a line whose separators are S.
RestsFrom(a, hi, S, parts) ==
  LET from[i \in a..hi + 2] ==
        LET cut == Min({k \in S : i <= k} \cup {hi + 1})
            component == SubSeq(text, i, cut - 1)
            rest == from[cut + 1]
        IN IF i > hi THEN {Len(parts)}
           ELSE IF cut = i THEN rest
           ELSE IF component = <<"*", "*">> THEN {x \in 0..Len(parts) : \E y \in rest : x <= y}
           ELSE {x \in 0..Len(parts) - 1 : Globs(component, parts[x + 1]) /\ x + 1 \in rest}
  IN from[a]

\* It has a solution, and the pairs that RuleRests says.
LEMMA RestsUnfold ==
  ASSUME NEW s, NEW a \in Nat, NEW hi \in Nat, a <= hi, NEW parts, Len(parts) \in Nat,
         NEW S, \A k : k \in S <=> k \in a..hi /\ k \in Plain(s, "/")
  PROVE  \E L : /\ RuleRests(L, s, a, hi, parts)
                /\ \A x : x \in RestsFrom(a, hi, S, parts) <=> x \in 0..Len(parts) /\ <<a, x>> \in L
<1>. DEFINE n == Len(parts)
            cut(i) == CutAt(s, i, hi)
            next(i) == cut(i) + 1
            word(i) == ComponentAt(s, i, hi)
            D == (a..hi + 2) \X (0..n)
            goal == {at \in D : at[1] > hi /\ at[2] = n}
            onward(i, x) == IF i > hi THEN {}
                            ELSE IF cut(i) = i THEN {<<next(i), x>>}
                            ELSE IF word(i) = <<"*", "*">> THEN {<<next(i), y>> : y \in x..n}
                            ELSE IF x < n /\ Globs(word(i), parts[x + 1]) THEN {<<next(i), x + 1>>} ELSE {}
            steps == [at \in D |-> onward(at[1], at[2])]
            Clauses(from, i) ==
              IF i > hi THEN {n}
              ELSE IF cut(i) = i THEN from[next(i)]
              ELSE IF word(i) = <<"*", "*">> THEN {x \in 0..n : \E y \in from[next(i)] : x <= y}
              ELSE {x \in 0..n - 1 : Globs(word(i), parts[x + 1]) /\ x + 1 \in from[next(i)]}
            Turn(from, i) ==
              LET c == Min({k \in S : i <= k} \cup {hi + 1})
                  component == SubSeq(text, i, c - 1)
                  rest == from[c + 1]
              IN IF i > hi THEN {n}
                 ELSE IF c = i THEN rest
                 ELSE IF component = <<"*", "*">> THEN {x \in 0..n : \E y \in rest : x <= y}
                 ELSE {x \in 0..n - 1 : Globs(component, parts[x + 1]) /\ x + 1 \in rest}
            choice == CHOOSE from : from = [i \in a..hi + 2 |-> Turn(from, i)]
<1>0. ASSUME NEW i \in a..hi + 2, ~(i > hi)
      PROVE  /\ cut(i) \in i..hi + 1 /\ next(i) \in (i + 1)..hi + 2 /\ next(i) \in a..hi + 2
             /\ Min({k \in S : i <= k} \cup {hi + 1}) = cut(i)
  <2>1. i \in 0..hi
    BY <1>0
  <2>2. cut(i) \in i..hi + 1
    BY <2>1, CutFacts
  <2>3. {k \in S : i <= k} = {k \in i..hi : k \in Plain(s, "/")}
    <3>1. \A k : k \in {m \in S : i <= m} <=> k \in {m \in i..hi : m \in Plain(s, "/")}
      BY <2>1
    <3>. QED
      BY <3>1
  <2>4. Min({k \in S : i <= k} \cup {hi + 1}) = cut(i)
    BY <2>3 DEF CutAt
  <2>. HIDE DEF cut
  <2>5. next(i) \in (i + 1)..hi + 2 /\ next(i) \in a..hi + 2
    BY <2>1, <2>2
  <2>. QED
    BY <2>2, <2>4, <2>5
<1>a. \A from : \A i \in a..hi + 2 : Turn(from, i) = Clauses(from, i)
  <2>. SUFFICES ASSUME NEW from, NEW i \in a..hi + 2 PROVE Turn(from, i) = Clauses(from, i)
    OBVIOUS
  <2>1. CASE i > hi
    BY <2>1
  <2>2. CASE ~(i > hi)
    <3>1. Min({k \in S : i <= k} \cup {hi + 1}) = cut(i)
      BY <1>0, <2>2
    <3>2. word(i) = SubSeq(text, i, cut(i) - 1)
      BY DEF ComponentAt
    <3>. HIDE DEF cut, word
    <3>. QED
      BY <2>2, <3>1, <3>2
  <2>. QED
    BY <2>1, <2>2
<1>1. PICK L : ComeFrom(L, D, goal, steps)
  BY Reaches
<1>. DEFINE f == [i \in a..hi + 2 |-> {x \in 0..n : <<i, x>> \in L}]
<1>. HIDE DEF cut, word, next, Turn
<1>2. ASSUME NEW i \in a..hi + 2, NEW x \in 0..n
      PROVE  <<i, x>> \in L <=> <<i, x>> \in goal \/ \E y \in onward(i, x) : y \in L
  BY <1>1, SMTT(60) DEF ComeFrom
<1>. DEFINE Star(i) == ~(i > hi) /\ cut(i) # i /\ word(i) = <<"*", "*">>
            One(i) == ~(i > hi) /\ cut(i) # i /\ word(i) # <<"*", "*">>
            Pass(i) == ~(i > hi) /\ cut(i) = i
<1>3. ASSUME NEW i \in a..hi + 2 PROVE f[i] = Clauses(f, i)
  <2>1. \A x : x \in f[i] <=> x \in 0..n /\ <<i, x>> \in L
    OBVIOUS
  <2>2. CASE i > hi
    <3>1. \A x \in 0..n : <<i, x>> \in L <=> x = n
      BY <1>2, <2>2
    <3>2. \A x : x \in f[i] <=> x = n
      BY <2>1, <3>1
    <3>. HIDE DEF f
    <3>. QED
      BY <2>2, <3>2
  <2>3. CASE Star(i)
    <3>0. next(i) \in a..hi + 2
      BY <1>0, <2>3
    <3>1. \A x \in 0..n : <<i, x>> \in L <=> \E y \in x..n : <<next(i), y>> \in L
      <4>. SUFFICES ASSUME NEW x \in 0..n PROVE <<i, x>> \in L <=> \E y \in x..n : <<next(i), y>> \in L
        OBVIOUS
      <4>1. <<i, x>> \notin goal /\ onward(i, x) = {<<next(i), y>> : y \in x..n}
        BY <2>3
      <4>2. <<i, x>> \in L <=> \E z \in {<<next(i), y>> : y \in x..n} : z \in L
        BY <1>2, <4>1
      <4>. QED
        BY <4>2, Zenon
    <3>2. \A y : y \in f[next(i)] <=> y \in 0..n /\ <<next(i), y>> \in L
      BY <3>0
    <3>. HIDE DEF f
    <3>3. ASSUME NEW x PROVE x \in f[i] <=> x \in 0..n /\ \E y \in f[next(i)] : x <= y
      <4>1. CASE x \in 0..n
        <5>1. x \in f[i] <=> \E y \in x..n : <<next(i), y>> \in L
          BY <2>1, <3>1, <4>1
        <5>2. (\E y \in x..n : <<next(i), y>> \in L) <=> \E y \in f[next(i)] : x <= y
          <6>. DEFINE T == f[next(i)]
          <6>1. \A y : y \in T <=> y \in 0..n /\ <<next(i), y>> \in L
            BY <3>2
          <6>. HIDE DEF T
          <6>2. ASSUME NEW y \in x..n, <<next(i), y>> \in L PROVE y \in T /\ x <= y
            BY <4>1, <6>1, <6>2
          <6>3. ASSUME NEW y \in T, x <= y PROVE y \in x..n /\ <<next(i), y>> \in L
            BY <4>1, <6>1, <6>3
          <6>4. (\E y \in x..n : <<next(i), y>> \in L) <=> \E y \in T : x <= y
            BY <6>2, <6>3, Zenon
          <6>. QED
            BY <6>4 DEF T
        <5>. QED
          BY <4>1, <5>1, <5>2
      <4>. QED
        BY <2>1, <4>1
    <3>. DEFINE B == {x \in 0..n : \E y \in f[next(i)] : x <= y}
    <3>4. \A x : x \in f[i] <=> x \in B
      BY <3>3
    <3>5. Clauses(f, i) = B
      BY <2>3
    <3>. HIDE DEF B, Clauses
    <3>. QED
      BY <3>4, <3>5
  <2>4. CASE One(i)
    <3>0. next(i) \in a..hi + 2
      BY <1>0, <2>4
    <3>1. \A x \in 0..n : <<i, x>> \in L <=> x < n /\ Globs(word(i), parts[x + 1]) /\ <<next(i), x + 1>> \in L
      <4>. SUFFICES ASSUME NEW x \in 0..n
                    PROVE  <<i, x>> \in L <=> x < n /\ Globs(word(i), parts[x + 1]) /\ <<next(i), x + 1>> \in L
        OBVIOUS
      <4>1. <<i, x>> \notin goal
        BY <2>4
      <4>2. onward(i, x) = IF x < n /\ Globs(word(i), parts[x + 1]) THEN {<<next(i), x + 1>>} ELSE {}
        BY <2>4
      <4>. HIDE DEF goal, onward
      <4>3. <<i, x>> \in L <=> \E y \in onward(i, x) : y \in L
        BY <1>2, <4>1
      <4>. QED
        BY <4>2, <4>3
    <3>2. \A y : y \in f[next(i)] <=> y \in 0..n /\ <<next(i), y>> \in L
      BY <3>0
    <3>. HIDE DEF f
    <3>3. ASSUME NEW x
          PROVE  x \in f[i] <=> x \in 0..n - 1 /\ Globs(word(i), parts[x + 1]) /\ x + 1 \in f[next(i)]
      <4>1. CASE x \in 0..n
        <5>1. x \in f[i] <=> x < n /\ Globs(word(i), parts[x + 1]) /\ <<next(i), x + 1>> \in L
          BY <2>1, <3>1, <4>1
        <5>2. x + 1 \in f[next(i)] <=> x + 1 \in 0..n /\ <<next(i), x + 1>> \in L
          BY <3>2
        <5>. QED
          BY <4>1, <5>1, <5>2
      <4>2. x \in 0..n - 1 => x \in 0..n
        OBVIOUS
      <4>. QED
        BY <2>1, <4>1, <4>2
    <3>. DEFINE B == {x \in 0..n - 1 : Globs(word(i), parts[x + 1]) /\ x + 1 \in f[next(i)]}
    <3>4. \A x : x \in f[i] <=> x \in B
      BY <3>3
    <3>5. Clauses(f, i) = B
      BY <2>4
    <3>. HIDE DEF B, Clauses
    <3>. QED
      BY <3>4, <3>5
  <2>5. CASE Pass(i)
    <3>0. next(i) \in a..hi + 2
      BY <1>0, <2>5
    <3>1. \A x \in 0..n : <<i, x>> \in L <=> <<next(i), x>> \in L
      <4>. SUFFICES ASSUME NEW x \in 0..n PROVE <<i, x>> \in L <=> <<next(i), x>> \in L
        OBVIOUS
      <4>1. <<i, x>> \notin goal /\ onward(i, x) = {<<next(i), x>>}
        BY <2>5
      <4>. HIDE DEF goal, onward
      <4>. QED
        BY <1>2, <4>1
    <3>2. \A y : y \in f[next(i)] <=> y \in 0..n /\ <<next(i), y>> \in L
      BY <3>0
    <3>. HIDE DEF f
    <3>3. f[i] = f[next(i)]
      <4>1. \A x : x \in f[i] <=> x \in f[next(i)]
        BY <2>1, <3>1, <3>2
      <4>2. Clauses(f, i) = f[next(i)]
        BY <2>5
      <4>3. f[i] = {x \in 0..n : <<i, x>> \in L} /\ f[next(i)] = {x \in 0..n : <<next(i), x>> \in L}
        BY <3>0 DEF f
      <4>. QED
        BY <3>1, <4>3
    <3>4. Clauses(f, i) = f[next(i)]
      BY <2>5
    <3>. HIDE DEF Clauses
    <3>. QED
      BY <3>3, <3>4
  <2>. HIDE DEF f, Clauses
  <2>. QED
    BY <2>2, <2>3, <2>4, <2>5
<1>4. f = [i \in a..hi + 2 |-> Turn(f, i)]
  <2>1. f = [i \in a..hi + 2 |-> f[i]]
    OBVIOUS
  <2>. HIDE DEF f, Clauses
  <2>. QED
    BY <1>3, <1>a, <2>1
<1>5. choice = [i \in a..hi + 2 |-> Turn(choice, i)]
  <2>. HIDE DEF f, Clauses
  <2>. QED
    BY <1>4 DEF choice
<1>. HIDE DEF choice
<1>7. \A i \in a..hi + 2 : choice[i] = Clauses(choice, i)
  <2>. HIDE DEF Clauses
  <2>. QED
    BY <1>5, <1>a
<1>. HIDE DEF f
<1>8. \A i \in a..hi + 2 : choice[i] \subseteq 0..n
  <2>. DEFINE Z == {i \in a..hi + 2 : choice[i] \subseteq 0..n}
  <2>1. ASSUME NEW i \in a..hi + 2, \A h \in (i + 1)..hi + 2 : h \in Z PROVE i \in Z
    <3>1. CASE i > hi \/ Star(i) \/ One(i)
      <4>1. Clauses(choice, i) \subseteq 0..n
        BY <3>1
      <4>. QED
        BY <1>7, <4>1
    <3>2. CASE Pass(i)
      <4>1. next(i) \in (i + 1)..hi + 2
        BY <1>0, <3>2
      <4>2. next(i) \in Z
        <5>. HIDE DEF Z
        <5>. QED
          BY <2>1, <4>1
      <4>3. choice[i] = choice[next(i)]
        BY <1>7, <3>2
      <4>. QED
        BY <4>2, <4>3
    <3>. QED
      BY <3>1, <3>2
  <2>. HIDE DEF Z
  <2>2. hi + 2 \in Nat
    OBVIOUS
  <2>3. \A i \in a..hi + 2 : i \in Z
    BY <2>1, <2>2, Downward
  <2>. QED
    BY <2>3 DEF Z
<1>. DEFINE R == {at \in D : at[2] \in choice[at[1]]}
<1>9. ASSUME NEW i \in a..hi + 2, NEW x \in 0..n PROVE <<i, x>> \in R <=> x \in choice[i]
  OBVIOUS
<1>. HIDE DEF R
<1>10. RuleRests(R, s, a, hi, parts)
  <2>. SUFFICES ASSUME NEW i \in a..hi + 2, NEW x \in 0..n
       PROVE  <<i, x>> \in R <=>
                IF i > hi THEN x = n
                ELSE IF cut(i) = i THEN <<next(i), x>> \in R
                ELSE IF word(i) = <<"*", "*">> THEN \E y \in x..n : <<next(i), y>> \in R
                ELSE x < n /\ Globs(word(i), parts[x + 1]) /\ <<next(i), x + 1>> \in R
    BY DEF RuleRests, cut, next, word
  <2>1. <<i, x>> \in R <=> x \in Clauses(choice, i)
    BY <1>7, <1>9
  <2>2. CASE i > hi
    BY <2>1, <2>2
  <2>3. CASE Star(i)
    <3>0. next(i) \in a..hi + 2
      BY <1>0, <2>3
    <3>1. x \in Clauses(choice, i) <=> \E y \in choice[next(i)] : x <= y
      BY <2>3
    <3>2. \A y \in 0..n : <<next(i), y>> \in R <=> y \in choice[next(i)]
      BY <1>9, <3>0
    <3>3. choice[next(i)] \subseteq 0..n
      BY <1>8, <3>0
    <3>. HIDE DEF Clauses
    <3>4. (\E y \in choice[next(i)] : x <= y) <=> \E y \in x..n : <<next(i), y>> \in R
      <4>. DEFINE T == choice[next(i)]
      <4>. HIDE DEF T
      <4>1. ASSUME NEW y \in x..n, <<next(i), y>> \in R PROVE y \in T /\ x <= y
        BY <3>2, <4>1 DEF T
      <4>2. ASSUME NEW y \in T, x <= y PROVE y \in x..n /\ <<next(i), y>> \in R
        <5>1. y \in 0..n
          BY <3>3 DEF T
        <5>. QED
          BY <3>2, <4>2, <5>1 DEF T
      <4>3. (\E y \in x..n : <<next(i), y>> \in R) <=> \E y \in T : x <= y
        BY <4>1, <4>2, Zenon
      <4>. QED
        BY <4>3 DEF T
    <3>. QED
      BY <2>1, <2>3, <3>1, <3>4
  <2>4. CASE One(i)
    <3>1. x \in Clauses(choice, i) <=> x < n /\ Globs(word(i), parts[x + 1]) /\ x + 1 \in choice[next(i)]
      BY <2>4
    <3>2. next(i) \in a..hi + 2
      BY <1>0, <2>4
    <3>3. x < n => (<<next(i), x + 1>> \in R <=> x + 1 \in choice[next(i)])
      <4>1. x < n => x + 1 \in 0..n
        OBVIOUS
      <4>. QED
        BY <1>9, <3>2, <4>1
    <3>. HIDE DEF Clauses
    <3>. QED
      BY <2>1, <2>4, <3>1, <3>3
  <2>5. CASE Pass(i)
    <3>1. x \in Clauses(choice, i) <=> x \in choice[next(i)]
      BY <2>5
    <3>2. next(i) \in a..hi + 2
      BY <1>0, <2>5
    <3>. HIDE DEF Clauses
    <3>. QED
      BY <1>9, <2>1, <2>5, <3>1, <3>2
  <2>. QED
    BY <2>2, <2>3, <2>4, <2>5
<1>11. a \in a..hi + 2
  OBVIOUS
<1>12. \A x : x \in choice[a] <=> x \in 0..n /\ <<a, x>> \in R
  BY <1>8, <1>9, <1>11
<1>13. RestsFrom(a, hi, S, parts) = choice[a]
  BY DEF RestsFrom, choice, Turn
<1>. QED
  BY <1>10, <1>12, <1>13

\* The expression of a line, and what RuleMatches leaves of it.
Expression(s) == {i \in Body(s) : i < Ends(s)}
Inner(s) == Expression(s) \ (IF Max(Expression(s)) \in Plain(s, "/") THEN {Max(Expression(s))} ELSE {})

LEMMA ExpressionIs ==
  ASSUME ReadText, NEW s \in LineStarts, NEW a, a = Opens(s), NEW z, z = Ends(s) - 1, Ends(s) \in Nat,
         a \in Nat, z \in Nat, a <= z, \A k \in a..z : k \in Body(s)
  PROVE  Expression(s) = a..z /\ Max(Expression(s)) = z
<1>1. ASSUME NEW k \in Body(s) PROVE k \in Nat /\ a <= k
  <2>1. k \in s..(Stop(s) - 1) /\ s \in Nat /\ Stop(s) \in Nat
    BY <1>1, BodyFacts, LineFacts
  <2>2. Negated(s) => k # s
    BY <1>1 DEF Body
  <2>. QED
    BY <2>1, <2>2 DEF Opens
<1>2. \A k : k \in Expression(s) <=> k \in a..z
  <2>1. ASSUME NEW k \in Expression(s) PROVE k \in a..z
    <3>1. k \in Body(s) /\ k < Ends(s)
      BY DEF Expression
    <3>2. k \in Nat /\ a <= k
      BY <1>1, <3>1
    <3>. QED
      BY <3>1, <3>2
  <2>2. ASSUME NEW k \in a..z PROVE k \in Expression(s)
    BY DEF Expression
  <2>. QED
    BY <2>1, <2>2
<1>3. Expression(s) = a..z
  BY <1>2
<1>4. Max(a..z) = z
  <2>. DEFINE T == a..z
  <2>1. T \subseteq Int /\ z \in T /\ \A m \in T : m <= z
    OBVIOUS
  <2>. HIDE DEF T
  <2>2. Max(T) = z
    BY <2>1, MaxIs
  <2>. QED
    BY <2>2 DEF T
<1>. QED
  BY <1>3, <1>4

RuleReads(L, s, a, z, hi, parts, isdir) ==
  /\ RuleRests(L, s, a, hi, parts)
  /\ RuleMatches(s, parts, isdir) <=>
       /\ z \in Plain(s, "/") => isdir
       /\ \E x \in 0..Len(parts) : <<a, x>> \in L /\ ((\E k \in a..hi : k \in Plain(s, "/")) => x = 0)

\* What the rule of a line says of the components of a path.
LEMMA RuleUnfolds ==
  ASSUME ReadText, NEW s \in LineStarts, NEW a, a = Opens(s), NEW z, z = Ends(s) - 1, Ends(s) \in Nat,
         a \in Nat, z \in Nat, a <= z, \A k \in a..z : k \in Body(s), ~Lone(s), Apart(s),
         NEW parts, Len(parts) \in Nat, NEW isdir
  PROVE  \E L : RuleReads(L, s, a, z, High(s), parts, isdir)
<1>. DEFINE hi == High(s)
            S == Plain(s, "/") \cap Inner(s)
            n == Len(parts)
<1>1. Expression(s) = a..z /\ Max(Expression(s)) = z
  BY ExpressionIs
<1>2. /\ hi \in Nat /\ a <= hi /\ hi <= z /\ hi \notin Plain(s, "/")
      /\ z \in Plain(s, "/") <=> hi = z - 1
      /\ z \notin Plain(s, "/") <=> hi = z
  BY HighIs
<1>. HIDE DEF hi
<1>3. Inner(s) = a..hi
  <2>1. CASE z \in Plain(s, "/")
    <3>1. Inner(s) = (a..z) \ {z}
      BY <1>1, <2>1 DEF Inner
    <3>2. \A k : k \in (a..z) \ {z} <=> k \in a..hi
      BY <1>2, <2>1
    <3>. QED
      BY <3>1, <3>2
  <2>2. CASE z \notin Plain(s, "/")
    <3>1. Inner(s) = (a..z) \ {}
      BY <1>1, <2>2 DEF Inner
    <3>. QED
      BY <1>2, <2>2, <3>1
  <2>. QED
    BY <2>1, <2>2
<1>4. Min(Inner(s)) = a /\ Max(Inner(s)) = hi
  <2>. DEFINE T == Inner(s)
  <2>1. T \subseteq Nat /\ T \subseteq Int /\ a \in T /\ hi \in T /\ \A m \in T : a <= m /\ m <= hi
    BY <1>2, <1>3
  <2>. HIDE DEF T
  <2>2. Min(T) = a /\ Max(T) = hi
    BY <2>1, MinIs, MaxIs
  <2>. QED
    BY <2>2 DEF T
<1>5. Inner(s) \ Plain(s, "/") # {}
  BY <1>2, <1>3
<1>6. \A k : k \in S <=> k \in a..hi /\ k \in Plain(s, "/")
  BY <1>3
<1>7. S # {} <=> \E k \in a..hi : k \in Plain(s, "/")
  BY <1>6
<1>8. PICK L : /\ RuleRests(L, s, a, hi, parts)
               /\ \A x : x \in RestsFrom(a, hi, S, parts) <=> x \in 0..n /\ <<a, x>> \in L
  <2>. HIDE DEF S
  <2>. QED
    BY <1>2, <1>6, RestsUnfold, ZenonT(60)
<1>9. RuleMatches(s, parts, isdir) <=>
        /\ z \in Plain(s, "/") => isdir
        /\ Inner(s) \ Plain(s, "/") # {}
        /\ \E x \in RestsFrom(a, hi, S, parts) : S # {} => x = 0
  <2>1. RuleMatches(s, parts, isdir) <=>
          /\ Max(Expression(s)) \in Plain(s, "/") => isdir
          /\ Inner(s) \ Plain(s, "/") # {}
          /\ \E x \in RestsFrom(Min(Inner(s)), Max(Inner(s)), Plain(s, "/") \cap Inner(s), parts) :
               Plain(s, "/") \cap Inner(s) # {} => x = 0
    BY DEF RuleMatches, RestsFrom, Inner, Expression
  <2>. QED
    BY <1>1, <1>4, <2>1
<1>10. (\E x \in RestsFrom(a, hi, S, parts) : S # {} => x = 0)
       <=> \E x \in 0..n : <<a, x>> \in L /\ ((\E k \in a..hi : k \in Plain(s, "/")) => x = 0)
  <2>. HIDE DEF S
  <2>. QED
    BY <1>7, <1>8
<1>. QED
  BY <1>5, <1>8, <1>9, <1>10 DEF hi, RuleReads

LEMMA RestsEnd ==
  ASSUME NEW L, NEW s, NEW lo \in Nat, NEW hi \in Nat, lo <= hi, NEW parts, RuleRests(L, s, lo, hi, parts),
         NEW x \in 0..Len(parts)
  PROVE  /\ <<hi + 1, x>> \in L <=> x = Len(parts)
         /\ <<hi + 2, x>> \in L <=> x = Len(parts)
<1>1. hi + 1 \in lo..hi + 2 /\ hi + 2 \in lo..hi + 2 /\ hi + 1 > hi /\ hi + 2 > hi
  OBVIOUS
<1>. QED
  BY <1>1 DEF RuleRests

\* A separator is passed over.
LEMMA RestsPass ==
  ASSUME NEW L, NEW s, NEW lo \in Nat, NEW hi \in Nat, lo <= hi, NEW parts, RuleRests(L, s, lo, hi, parts),
         NEW k \in lo..hi, k \in Plain(s, "/"), NEW x \in 0..Len(parts)
  PROVE  <<k, x>> \in L <=> <<k + 1, x>> \in L
<1>1. k \in 0..hi /\ k \in lo..hi + 2 /\ ~(k > hi)
  OBVIOUS
<1>2. CutAt(s, k, hi) = k
  <2>1. /\ CutAt(s, k, hi) \in k..hi + 1
        /\ \A j \in k..(CutAt(s, k, hi) - 1) : j \notin Plain(s, "/")
    BY <1>1, CutFacts
  <2>. DEFINE c == CutAt(s, k, hi)
  <2>. HIDE DEF c
  <2>2. c \in k..hi + 1 /\ \A j \in k..(c - 1) : j \notin Plain(s, "/")
    BY <2>1 DEF c
  <2>3. c # k => k \in k..(c - 1)
    BY <2>2
  <2>4. c = k
    BY <2>2, <2>3
  <2>. QED
    BY <2>4 DEF c
<1>. QED
  BY <1>1, <1>2 DEF RuleRests

\* A component from i to before t, the one of the path that comes after x of them.
Over(L, i, t, parts, x) ==
  /\ SubSeq(text, i, t - 1) = <<"*", "*">> =>
       (<<i, x>> \in L <=> \E y \in x..Len(parts) : <<t, y>> \in L)
  /\ SubSeq(text, i, t - 1) # <<"*", "*">> =>
       (<<i, x>> \in L <=> /\ x < Len(parts) /\ Globs(SubSeq(text, i, t - 1), parts[x + 1])
                           /\ <<t, x + 1>> \in L)

\* It is, where a separator is or the end.
LEMMA RestsOver ==
  ASSUME NEW L, NEW s, NEW lo \in Nat, NEW hi \in Nat, lo <= hi, NEW parts, RuleRests(L, s, lo, hi, parts),
         Len(parts) \in Nat,
         NEW i \in lo..hi, NEW t \in (i + 1)..hi + 1, t = hi + 1 \/ t \in Plain(s, "/"),
         \A k \in i..(t - 1) : k \notin Plain(s, "/"), NEW x \in 0..Len(parts)
  PROVE  Over(L, i, t, parts, x)
<1>1. i \in 0..hi /\ i \in lo..hi + 2 /\ ~(i > hi)
  OBVIOUS
<1>2. CutAt(s, i, hi) = t
  <2>. DEFINE c == CutAt(s, i, hi)
  <2>1. /\ c \in i..hi + 1
        /\ c # hi + 1 => c \in Plain(s, "/") /\ c <= hi
        /\ \A j \in i..(c - 1) : j \notin Plain(s, "/")
    BY <1>1, CutFacts
  <2>. HIDE DEF c
  <2>2. ~(c < t)
    <3>1. c < t => c \in i..(t - 1) /\ c # hi + 1
      BY <2>1
    <3>. QED
      BY <2>1, <3>1
  <2>3. ~(t < c)
    <3>1. t < c => t \in i..(c - 1) /\ t # hi + 1
      BY <2>1
    <3>. QED
      BY <2>1, <3>1
  <2>4. c = t
    BY <2>1, <2>2, <2>3
  <2>. QED
    BY <2>4 DEF c
<1>3. \A y \in 0..Len(parts) : <<t, y>> \in L <=> <<t + 1, y>> \in L
  <2>1. CASE t = hi + 1
    <3>1. t + 1 = hi + 2
      BY <2>1
    <3>. QED
      BY <2>1, <3>1, RestsEnd
  <2>2. CASE t # hi + 1
    <3>1. t \in lo..hi /\ t \in Plain(s, "/")
      BY <2>2
    <3>. QED
      BY <3>1, RestsPass
  <2>. QED
    BY <2>1, <2>2
<1>4. ComponentAt(s, i, hi) = SubSeq(text, i, t - 1)
  BY <1>2 DEF ComponentAt
<1>5. CutAt(s, i, hi) # i
  BY <1>2
<1>6. ASSUME SubSeq(text, i, t - 1) = <<"*", "*">>
      PROVE  <<i, x>> \in L <=> \E y \in x..Len(parts) : <<t, y>> \in L
  <2>1. <<i, x>> \in L <=> \E y \in x..Len(parts) : <<t + 1, y>> \in L
    BY <1>1, <1>2, <1>4, <1>5, <1>6 DEF RuleRests
  <2>2. \A y \in x..Len(parts) : y \in 0..Len(parts)
    OBVIOUS
  <2>. QED
    BY <1>3, <2>1, <2>2
<1>7. ASSUME SubSeq(text, i, t - 1) # <<"*", "*">>
      PROVE  <<i, x>> \in L <=> /\ x < Len(parts) /\ Globs(SubSeq(text, i, t - 1), parts[x + 1])
                                /\ <<t, x + 1>> \in L
  <2>1. <<i, x>> \in L <=> /\ x < Len(parts) /\ Globs(SubSeq(text, i, t - 1), parts[x + 1])
                           /\ <<t + 1, x + 1>> \in L
    BY <1>1, <1>2, <1>4, <1>5, <1>7 DEF RuleRests
  <2>2. x < Len(parts) => x + 1 \in 0..Len(parts)
    OBVIOUS
  <2>. QED
    BY <1>3, <2>1, <2>2
<1>. QED
  BY <1>6, <1>7 DEF Over

\* "**" in the text is a double star, when nothing takes it for an escape.
LEMMA StarsAreDouble ==
  ASSUME ReadText, NEW s \in LineStarts, NEW i \in Body(s), i + 1 \in Body(s),
         i - 1 \in Body(s) => text[i - 1] # "esc", text[i] = "*", text[i + 1] = "*"
  PROVE  i \in Doubles(s)
<1>1. i \in Nat /\ i = (i + 1) - 1
  BY BodyFacts
<1>2. i \notin Escaped(s)
  BY EscapedIs
<1>3. i + 1 \notin Escaped(s)
  <2>1. i + 1 \in Escaped(s) => text[(i + 1) - 1] = "esc"
    BY EscapedIs
  <2>. QED
    BY <1>1, <2>1
<1>. QED
  BY <1>2, <1>3 DEF Doubles, Plain

-----------------------------------------------------------------------------
(* A name                                                                  *)

NoBracket == \A k \in 1..Len(text) : text[k] # "["

\* J is the path whose components are parts.
Spells(J, parts, st) ==
  /\ J \in Seq(Runes \cup DOMAIN Code) /\ Joins(J, parts, st)
  /\ \A y \in 1..Len(parts) : parts[y] \in Seq(Runes \cup DOMAIN Code)

LEMMA SpellsFacts ==
  ASSUME NEW J, NEW parts, NEW st, Spells(J, parts, st)
  PROVE  /\ Len(parts) \in Nat \ {0} /\ Len(J) \in Nat \ {0}
         /\ \A y \in 1..Len(parts) : /\ parts[y] \in Seq(Runes \cup DOMAIN Code) /\ parts[y] # <<>>
                                     /\ \A k \in 1..Len(parts[y]) : parts[y][k] # "/"
<1>1. Len(parts) \in Nat \ {0} /\ Len(J) \in Nat /\ st[1] = 1 /\ st[Len(parts) + 1] = Len(J) + 2
  BY DEF Spells, Joins
<1>2. ASSUME NEW y \in 1..Len(parts)
      PROVE  /\ parts[y] \in Seq(Runes \cup DOMAIN Code) /\ parts[y] # <<>>
             /\ \A k \in 1..Len(parts[y]) : parts[y][k] # "/"
  <2>1. Len(parts[y]) \in Nat \ {0}
    BY DEF Spells, Joins
  <2>. QED
    BY <2>1, EmptySeq DEF Spells, Joins
<1>3. Len(J) # 0
  <2>. DEFINE n == Len(parts)
              m == Len(parts[1])
              N == Len(J)
              b == st[2]
  <2>1. n \in Nat \ {0} /\ 1 \in 1..n
    BY <1>1
  <2>2. m \in Nat \ {0} /\ b = st[1] + m + 1
    <3>1. Len(parts[1]) \in Nat \ {0} /\ st[1 + 1] = st[1] + Len(parts[1]) + 1
      BY <2>1 DEF Spells, Joins
    <3>. QED
      BY <3>1
  <2>3. b <= N + 2 /\ N \in Nat
    <3>1. 1 + 1 \in 1..n + 1
      BY <2>1
    <3>2. st[1 + 1] <= Len(J) + 2
      BY <3>1 DEF Spells, Joins
    <3>. QED
      BY <1>1, <3>2
  <2>. HIDE DEF m, N, b, n
  <2>4. N # 0
    BY <1>1, <2>2, <2>3
  <2>. QED
    BY <2>4 DEF N
<1>. QED
  BY <1>1, <1>2, <1>3

\* The two fast paths find what fnmatch does.
LEMMA GlobName ==
  ASSUME NEW glob \in Seq(Runes \cup DOMAIN Code), glob # <<>>, \A k \in 1..Len(glob) : glob[k] # "[",
         NEW word \in Seq(Runes \cup DOMAIN Code), \A k \in 1..Len(word) : word[k] # "/"
  PROVE  (IF ~HasGlob(glob) THEN word = glob
          ELSE IF glob[1] = "*" /\ ~HasGlob(Tail(glob)) THEN IsSuffix(Tail(glob), word)
          ELSE Fnmatch(glob, word, FALSE)) <=> Globs(glob, word)
<1>1. CASE ~HasGlob(glob)
  BY <1>1, GlobsLiteral
<1>2. CASE HasGlob(glob) /\ glob[1] = "*" /\ ~HasGlob(Tail(glob))
  BY <1>2, GlobsStarred
<1>3. CASE HasGlob(glob) /\ ~(glob[1] = "*" /\ ~HasGlob(Tail(glob)))
  BY <1>3, FnmatchIsGlob
<1>. QED
  BY <1>1, <1>2, <1>3

LEMMA NameIs ==
  ASSUME NEW c, c.fnmatch \in Seq(Runes \cup DOMAIN Code), c.fnmatch # <<>>,
         \A k \in 1..Len(c.fnmatch) : c.fnmatch[k] # "[",
         NEW J, NEW parts, NEW st, Spells(J, parts, st)
  PROVE  NameMatch(c, J) <=> (c.anchored => Len(parts) = 1) /\ Globs(c.fnmatch, parts[Len(parts)])
<1>. DEFINE n == Len(parts)
            glob == c.fnmatch
            target == IF c.anchored THEN J ELSE FileOf(J)
            found == IF ~HasGlob(glob) THEN target = glob
                     ELSE IF glob[1] = "*" /\ ~HasGlob(Tail(glob)) THEN IsSuffix(Tail(glob), target)
                     ELSE Fnmatch(glob, target, FALSE)
<1>1. /\ FileOf(J) = parts[n]
      /\ "/" \notin ToSet(J) <=> n = 1
      /\ n = 1 => J = parts[1]
  BY FileOfJoined DEF Spells
<1>2. NameMatch(c, J) <=> (c.anchored => "/" \notin ToSet(J)) /\ found
  BY DEF NameMatch
<1>. HIDE DEF found
<1>3. SUFFICES ASSUME c.anchored => n = 1 PROVE found <=> Globs(glob, parts[n])
  BY <1>1, <1>2
<1>4. target = parts[n]
  BY <1>1, <1>3
<1>5. n \in 1..n
  BY SpellsFacts
<1>6. parts[n] \in Seq(Runes \cup DOMAIN Code) /\ \A k \in 1..Len(parts[n]) : parts[n][k] # "/"
  BY <1>5, SpellsFacts
<1>. HIDE DEF target
<1>7. (IF ~HasGlob(glob) THEN parts[n] = glob
          ELSE IF glob[1] = "*" /\ ~HasGlob(Tail(glob)) THEN IsSuffix(Tail(glob), parts[n])
          ELSE Fnmatch(glob, parts[n], FALSE)) <=> Globs(glob, parts[n])
  BY <1>6, GlobName
<1>. QED
  BY <1>4, <1>7 DEF found

\* A name without runes, "/" alone, matches nothing.
LEMMA LoneName ==
  ASSUME NEW c, c.fnmatch = <<>>, NEW J, NEW parts, NEW st, Spells(J, parts, st)
  PROVE  ~NameMatch(c, J)
<1>. DEFINE n == Len(parts)
<1>1. FileOf(J) = parts[n] /\ n \in 1..n
  BY FileOfJoined, SpellsFacts DEF Spells
<1>2. parts[n] # <<>>
  BY <1>1, SpellsFacts
<1>3. J # <<>>
  BY SpellsFacts, EmptySeq
<1>4. ~HasGlob(<<>>)
  BY DEF HasGlob
<1>. QED
  BY <1>1, <1>2, <1>3, <1>4 DEF NameMatch

-----------------------------------------------------------------------------
(* The expression of a line                                                *)

\* The expression of the line from s stands from a to z and is more than a separator.
Expressed(s, a, z) ==
  /\ a = Opens(s) /\ z = Ends(s) - 1 /\ Ends(s) \in Nat /\ a \in Nat /\ z \in Nat /\ a <= z
  /\ \A k \in a..z : k \in Body(s)
  /\ ~Lone(s) /\ Apart(s)

\* Its components stand from lo to hi.
Spans(s, a, lo, hi) ==
  /\ lo = Low(s) /\ hi = High(s) /\ a \in Nat /\ lo \in Nat /\ hi \in Nat /\ Len(text) \in Nat
  /\ 1 <= a /\ a <= lo /\ lo <= hi /\ hi <= Len(text) /\ lo \in {a, a + 1}
  /\ lo \notin Plain(s, "/") /\ hi \notin Plain(s, "/") /\ Apart(s)
  /\ a \in Plain(s, "/") <=> lo = a + 1
  /\ \A k \in lo..hi : k \in Body(s)
  /\ lo - 1 \in Body(s) => lo - 1 \in Plain(s, "/")

LEMMA SpansIs ==
  ASSUME ReadText, NEW s \in LineStarts, NEW a, NEW z, Expressed(s, a, z)
  PROVE  Spans(s, a, Low(s), High(s))
<1>. DEFINE lo == Low(s)
            hi == High(s)
<1>1. /\ a = Opens(s) /\ z = Ends(s) - 1 /\ Ends(s) \in Nat /\ a \in Nat /\ z \in Nat /\ a <= z
      /\ \A k \in a..z : k \in Body(s)
      /\ ~Lone(s) /\ Apart(s)
  BY DEF Expressed
<1>2. /\ hi \in Nat /\ a <= hi /\ hi <= z /\ hi \notin Plain(s, "/")
      /\ lo \in {a, a + 1} /\ lo <= hi /\ lo \notin Plain(s, "/")
      /\ a \in Plain(s, "/") <=> lo = a + 1
  BY <1>1, HighIs
<1>3. Len(text) \in Nat /\ \A k \in Body(s) : k \in Nat /\ 1 <= k /\ k <= Len(text) /\ a <= k
  <2>1. Len(text) \in Nat
    BY TextFacts
  <2>2. ASSUME NEW k \in Body(s) PROVE k \in Nat /\ 1 <= k /\ k <= Len(text) /\ a <= k
    <3>1. k \in s..(Stop(s) - 1) /\ k \in 1..Len(text) /\ s \in Nat /\ Stop(s) \in Nat
      BY BodyFacts, LineFacts
    <3>2. Negated(s) => k # s
      BY DEF Body
    <3>3. Opens(s) <= k
      BY <3>1, <3>2 DEF Opens
    <3>. QED
      BY <1>1, <2>1, <3>1, <3>3
  <2>. QED
    BY <2>1, <2>2
<1>. HIDE DEF lo, hi
<1>4. 1 <= a /\ hi <= Len(text) /\ lo \in Nat /\ a <= lo
  <2>1. a \in a..z /\ hi \in a..z
    BY <1>1, <1>2
  <2>. QED
    BY <1>1, <1>2, <1>3, <2>1
<1>5. \A k \in lo..hi : k \in Body(s)
  <2>1. \A k \in lo..hi : k \in a..z
    BY <1>1, <1>2, <1>4
  <2>. QED
    BY <1>1, <2>1
<1>6. lo - 1 \in Body(s) => lo - 1 \in Plain(s, "/")
  <2>1. CASE lo = a
    BY <1>1, <1>3, <2>1
  <2>2. CASE lo = a + 1
    BY <1>1, <1>2, <2>2
  <2>. QED
    BY <1>2, <2>1, <2>2
<1>. QED
  BY <1>1, <1>2, <1>3, <1>4, <1>5, <1>6 DEF Spans, lo, hi

RuleSays(L, s, a, z, lo, hi, parts, isdir) ==
  /\ RuleRests(L, s, lo, hi, parts)
  /\ RuleMatches(s, parts, isdir) <=>
       /\ z \in Plain(s, "/") => isdir
       /\ \E x \in 0..Len(parts) :
            <<lo, x>> \in L /\ (a \in Plain(s, "/") \/ (\E k \in lo..hi : k \in Plain(s, "/")) => x = 0)

\* What the rule says, of the components of the expression.
LEMMA RulesFrom ==
  ASSUME ReadText, NEW s \in LineStarts, NEW a, NEW z, Expressed(s, a, z),
         NEW lo, NEW hi, Spans(s, a, lo, hi), NEW parts, Len(parts) \in Nat, NEW isdir
  PROVE  \E L : RuleSays(L, s, a, z, lo, hi, parts, isdir)
<1>. DEFINE n == Len(parts)
            inner == \E k \in a..hi : k \in Plain(s, "/")
<1>1. /\ a = Opens(s) /\ z = Ends(s) - 1 /\ Ends(s) \in Nat /\ a \in Nat /\ z \in Nat /\ a <= z
      /\ \A k \in a..z : k \in Body(s)
      /\ ~Lone(s) /\ Apart(s)
  BY DEF Expressed
<1>2. /\ hi = High(s) /\ lo \in Nat /\ hi \in Nat /\ a <= lo /\ lo <= hi /\ lo \in {a, a + 1}
      /\ a \in Plain(s, "/") <=> lo = a + 1
  BY DEF Spans
<1>0. \E L : RuleReads(L, s, a, z, High(s), parts, isdir)
  BY <1>1, RuleUnfolds
<1>3. PICK L : /\ RuleRests(L, s, a, hi, parts)
               /\ RuleMatches(s, parts, isdir) <=>
                    /\ z \in Plain(s, "/") => isdir
                    /\ \E x \in 0..n : <<a, x>> \in L /\ (inner => x = 0)
  BY <1>0, <1>2 DEF RuleReads
<1>4. RuleRests(L, s, lo, hi, parts)
  <2>1. \A i \in lo..hi + 2 : i \in a..hi + 2
    BY <1>1, <1>2
  <2>. QED
    BY <1>3, <2>1 DEF RuleRests
<1>5. \A x \in 0..n : <<a, x>> \in L <=> <<lo, x>> \in L
  <2>1. CASE lo = a
    BY <2>1
  <2>2. CASE lo = a + 1
    <3>1. a \in a..hi /\ a \in Plain(s, "/")
      BY <1>1, <1>2, <2>2, SMTT(60)
    <3>. QED
      BY <1>1, <1>2, <1>3, <2>2, <3>1, RestsPass
  <2>. QED
    BY <1>2, <2>1, <2>2
<1>6. inner <=> a \in Plain(s, "/") \/ \E k \in lo..hi : k \in Plain(s, "/")
  <2>1. \A k : k \in a..hi => k = a \/ k \in lo..hi
    BY <1>1, <1>2
  <2>2. a \in a..hi /\ \A k \in lo..hi : k \in a..hi
    BY <1>1, <1>2
  <2>. QED
    BY <2>1, <2>2
<1>. HIDE DEF inner
<1>7. (\E x \in 0..n : <<a, x>> \in L /\ (inner => x = 0)) <=>
        \E x \in 0..n : /\ <<lo, x>> \in L
                        /\ a \in Plain(s, "/") \/ (\E k \in lo..hi : k \in Plain(s, "/")) => x = 0
  <2>. HIDE DEF n
  <2>. QED
    BY <1>5, <1>6
<1>. QED
  BY <1>3, <1>4, <1>7 DEF RuleSays

\* A component that is "**" is a double star.
LEMMA StarsAt ==
  ASSUME ReadText, NEW s \in LineStarts, NEW a, NEW lo, NEW hi, Spans(s, a, lo, hi),
         NEW i \in lo..hi, NEW t \in (i + 1)..hi + 1, i = lo \/ i - 1 \in Plain(s, "/"),
         SubSeq(text, i, t - 1) = <<"*", "*">>
  PROVE  t = i + 2 /\ i \in Doubles(s)
<1>1. lo \in Nat /\ hi \in Nat /\ 1 <= lo /\ hi <= Len(text) /\ \A k \in lo..hi : k \in Body(s)
  BY DEF Spans
<1>2. text \in Seq(Runes)
  BY DEF ReadText
<1>. DEFINE w == SubSeq(text, i, t - 1)
<1>10. w = <<"*", "*">>
  OBVIOUS
<1>3. i \in Nat /\ t \in Nat /\ 1 <= i /\ i <= hi /\ i <= t - 1 /\ t - 1 <= hi /\ t - 1 <= Len(text)
  <2>1. Len(text) \in Nat
    BY TextFacts
  <2>. QED
    BY <1>1, <2>1
<1>4. Len(w) = t - i /\ \A k \in 1..t - i : w[k] = text[i + k - 1]
  <2>. DEFINE u == t - 1
  <2>1. u \in Nat /\ i \in 1..Len(text) /\ u \in 1..Len(text) /\ u + 1 - i = t - i /\ Len(text) \in Nat
    BY <1>3, TextFacts
  <2>. HIDE DEF u
  <2>2. Len(SubSeq(text, i, u)) = u + 1 - i /\ \A k \in 1..(u + 1 - i) : SubSeq(text, i, u)[k] = text[i + k - 1]
    BY <1>2, <1>3, <2>1
  <2>. QED
    BY <2>1, <2>2 DEF u
<1>. HIDE DEF w
<1>5. Len(<<"*", "*">>) = 2 /\ <<"*", "*">>[1] = "*" /\ <<"*", "*">>[2] = "*"
  OBVIOUS
<1>6. t = i + 2
  BY <1>3, <1>4, <1>5, <1>10
<1>7. text[i] = "*" /\ text[i + 1] = "*"
  <2>1. 1 \in 1..t - i /\ 2 \in 1..t - i /\ i + 1 - 1 = i /\ i + 2 - 1 = i + 1
    BY <1>3, <1>6
  <2>2. w[1] = text[i + 1 - 1] /\ w[2] = text[i + 2 - 1]
    BY <1>4, <2>1
  <2>. QED
    BY <1>5, <1>10, <2>1, <2>2
<1>8. i \in Body(s) /\ i + 1 \in Body(s)
  <2>1. i + 1 \in lo..hi
    BY <1>1, <1>3, <1>6
  <2>. QED
    BY <1>1, <2>1
<1>9. i - 1 \in Body(s) => text[i - 1] # "esc"
  <2>1. i - 1 \in Body(s) => i - 1 \in Plain(s, "/")
    BY DEF Spans
  <2>. QED
    BY <2>1 DEF Plain
<1>. QED
  BY <1>6, <1>7, <1>8, <1>9, StarsAreDouble

LEMMA SliceIs ==
  ASSUME ReadText, NEW i \in Nat, NEW u \in Nat, 1 <= i, i <= u, u <= Len(text)
  PROVE  /\ SubSeq(text, i, u) \in Seq(Runes) /\ SubSeq(text, i, u) \in Seq(Runes \cup DOMAIN Code)
         /\ Len(SubSeq(text, i, u)) = u + 1 - i /\ SubSeq(text, i, u) # <<>>
         /\ \A k \in 1..(u + 1 - i) : SubSeq(text, i, u)[k] = text[i + k - 1]
         /\ NoBracket => \A k \in 1..Len(SubSeq(text, i, u)) : SubSeq(text, i, u)[k] # "["
<1>1. text \in Seq(Runes) /\ text \in Seq(Runes \cup DOMAIN Code) /\ Len(text) \in Nat
  <2>1. Runes \subseteq Runes \cup DOMAIN Code
    OBVIOUS
  <2>. QED
    BY <2>1, TextFacts DEF ReadText
<1>2. i \in 1..Len(text) /\ u \in 1..Len(text)
  BY <1>1
<1>3. \A k \in i..u : k \in 1..Len(text)
  BY <1>1
<1>. DEFINE w == SubSeq(text, i, u)
<1>4. /\ w \in Seq(Runes) /\ Len(w) = u + 1 - i
      /\ \A k \in 1..(u + 1 - i) : w[k] = text[i + k - 1]
  BY <1>1, <1>2, <1>3
<1>5. w \in Seq(Runes \cup DOMAIN Code)
  BY <1>1, <1>2, <1>3
<1>. HIDE DEF w
<1>6. w # <<>>
  <2>1. Len(<<>>) = 0
    OBVIOUS
  <2>. QED
    BY <1>4, <2>1
<1>7. ASSUME NoBracket, NEW k \in 1..Len(w) PROVE w[k] # "["
  <2>1. k \in 1..(u + 1 - i) /\ i + k - 1 \in 1..Len(text)
    BY <1>1, <1>2, <1>4
  <2>. QED
    BY <1>4, <1>7, <2>1 DEF NoBracket
<1>. QED
  BY <1>4, <1>5, <1>6, <1>7 DEF w

\* What the runes of a line say of its tokens.
LEMMA RunsTypes ==
  ASSUME NEW q, NEW s, NEW lo, NEW hi, Runs(q, s, lo, hi)
  PROVE  /\ (\E k \in lo..hi : k \in Plain(s, "/")) <=> \E i \in 1..Len(q) : q[i].type = "SEPARATOR"
         /\ (\E k \in lo..hi : k \in Doubles(s)) <=> \E i \in 1..Len(q) : q[i].type = "ANY"
<1>1. \A i \in 1..Len(q) : Within(q, s, lo, hi, i)
  BY RunsWithin
<1>2. \A i \in 1..Len(q) : Placed(s, q[i]) /\ q[i].type # "NEGATION"
  BY DEF Runs
<1>3. ASSUME NEW i \in 1..Len(q) PROVE q[i].from \in q[i].from..(q[i].to - 1) /\ q[i].from \in lo..hi
  <2>. DEFINE f == q[i].from
              t == q[i].to
  <2>1. f \in Nat /\ t \in Nat /\ f < t /\ \A k \in f..(t - 1) : k \in lo..hi
    BY <1>1 DEF Within
  <2>. HIDE DEF f, t
  <2>2. f \in f..(t - 1)
    BY <2>1
  <2>3. f \in lo..hi
    BY <2>1, <2>2
  <2>. QED
    BY <2>2, <2>3 DEF f, t
<1>4. ASSUME NEW k \in lo..hi
      PROVE  \E i \in 1..Len(q) : /\ k \in Plain(s, "/") => q[i].type = "SEPARATOR"
                                  /\ k \in Doubles(s) => q[i].type = "ANY"
  <2>1. PICK i \in 1..Len(q) : k \in q[i].from..(q[i].to - 1)
    BY RunsCover
  <2>. QED
    BY <1>2, <2>1, SeparatorIsToken
<1>5. ASSUME NEW i \in 1..Len(q), q[i].type = "SEPARATOR" PROVE \E k \in lo..hi : k \in Plain(s, "/")
  <2>1. q[i].from \in Plain(s, "/")
    BY <1>2, <1>5 DEF Placed
  <2>. QED
    BY <1>3, <2>1
<1>6. ASSUME NEW i \in 1..Len(q), q[i].type = "ANY" PROVE \E k \in lo..hi : k \in Doubles(s)
  <2>1. q[i].from \in Doubles(s)
    BY <1>2, <1>6 DEF Placed
  <2>. QED
    BY <1>3, <2>1
<1>. QED
  BY <1>4, <1>5, <1>6

LEMMA ReadsTokens ==
  ASSUME ReadText, NEW s \in LineStarts, NEW c, NEW q, Reads(c, q, s)
  PROVE  /\ Runs(q, s, Low(s), High(s)) /\ Len(c.tokens) = Len(q) /\ Len(q) \in Nat \ {0}
         /\ \A i \in 1..Len(q) : /\ c.tokens[i].type = q[i].type /\ c.tokens[i].word = Word(q[i])
                                 /\ q[i].type \in {"SEPARATOR", "ANY", "WHITESPACE", "PATTERN"}
         /\ c.kind \in {"name", "path", "any"}
         /\ c.kind = "any" <=> \E k \in Low(s)..High(s) : k \in Doubles(s)
         /\ c.kind = "name" => \A k \in Low(s)..High(s) : k \notin Plain(s, "/") /\ k \notin Doubles(s)
         /\ c.kind = "path" => /\ \E k \in Low(s)..High(s) : k \in Plain(s, "/")
                               /\ \A k \in Low(s)..High(s) : k \notin Doubles(s)
<1>. DEFINE u == c.tokens
            lo == Low(s)
            hi == High(s)
<1>1. Runs(q, s, lo, hi) /\ Lettered(u, q) /\ c.kind = Kind(u)
  BY DEF Reads
<1>2. Len(q) \in Nat \ {0} /\ \A i \in 1..Len(q) : q[i].type # "NEGATION"
  BY <1>1 DEF Runs
<1>3. \A i \in 1..Len(q) : q[i].type \in PatternTypes /\ Word(q[i]) \in Seq(Runes)
  BY <1>1, RunsText
<1>4. \A i \in 1..Len(q) : Word(q[i]) \in Seq(Runes \cup DOMAIN Code)
  <2>1. Runes \subseteq Runes \cup DOMAIN Code
    OBVIOUS
  <2>2. \A w : w \in Seq(Runes) => w \in Seq(Runes \cup DOMAIN Code)
    BY <2>1
  <2>. QED
    BY <1>3, <2>2
<1>. HIDE DEF u, lo, hi
<1>5. Len(u) = Len(q) /\ DOMAIN u = 1..Len(q) /\ \A i \in 1..Len(q) : u[i].type = q[i].type /\ u[i].word = Word(q[i])
  BY <1>1, <1>2, <1>3, <1>4, LetteredIs
<1>6. \A i \in 1..Len(q) : q[i].type \in {"SEPARATOR", "ANY", "WHITESPACE", "PATTERN"}
  BY <1>2, <1>3 DEF PatternTypes
<1>7. /\ "ANY" \in Types(u) <=> \E i \in 1..Len(q) : q[i].type = "ANY"
      /\ "SEPARATOR" \in Types(u) <=> \E i \in 1..Len(q) : q[i].type = "SEPARATOR"
  BY <1>5 DEF Types
<1>8. /\ "ANY" \in Types(u) <=> \E k \in lo..hi : k \in Doubles(s)
      /\ "SEPARATOR" \in Types(u) <=> \E k \in lo..hi : k \in Plain(s, "/")
  BY <1>1, <1>7, RunsTypes
<1>9. /\ c.kind \in {"name", "path", "any"}
      /\ c.kind = "any" <=> "ANY" \in Types(u)
      /\ c.kind = "name" => "ANY" \notin Types(u) /\ "SEPARATOR" \notin Types(u)
      /\ c.kind = "path" => "ANY" \notin Types(u) /\ "SEPARATOR" \in Types(u)
  <2>. DEFINE T == Types(u)
  <2>1. c.kind = IF "ANY" \in T THEN "any" ELSE IF "SEPARATOR" \in T THEN "path" ELSE "name"
    BY <1>1 DEF Kind
  <2>. HIDE DEF T
  <2>2. /\ c.kind \in {"name", "path", "any"}
        /\ c.kind = "any" <=> "ANY" \in T
        /\ c.kind = "name" => "ANY" \notin T /\ "SEPARATOR" \notin T
        /\ c.kind = "path" => "ANY" \notin T /\ "SEPARATOR" \in T
    BY <2>1
  <2>. QED
    BY <2>2 DEF T
<1>. QED
  BY <1>1, <1>2, <1>5, <1>6, <1>8, <1>9 DEF u, lo, hi

\* A line that is a name.
LEMMA NameLine ==
  ASSUME ReadText, NoBracket, NEW s \in LineStarts, NEW a, NEW lo, NEW hi, Spans(s, a, lo, hi),
         NEW c, NEW q, Reads(c, q, s), c.kind = "name", c.anchored <=> a \in Plain(s, "/"),
         NEW J, NEW parts, NEW st, Spells(J, parts, st), NEW L, RuleRests(L, s, lo, hi, parts)
  PROVE  NameMatch(c, J) <=>
           \E x \in 0..Len(parts) :
             <<lo, x>> \in L /\ (a \in Plain(s, "/") \/ (\E k \in lo..hi : k \in Plain(s, "/")) => x = 0)
<1>. DEFINE n == Len(parts)
            W == SubSeq(text, lo, hi)
            top == a \in Plain(s, "/")
<1>1. /\ lo = Low(s) /\ hi = High(s) /\ lo \in Nat /\ hi \in Nat /\ 1 <= lo /\ lo <= hi /\ hi <= Len(text)
      /\ \A k \in lo..hi : k \in Body(s)
  <2>1. a \in Nat /\ 1 <= a /\ a <= lo /\ lo \in Nat
    BY DEF Spans
  <2>2. 1 <= lo
    BY <2>1
  <2>. QED
    BY <2>2 DEF Spans
<1>2. \A k \in lo..hi : k \notin Plain(s, "/") /\ k \notin Doubles(s)
  BY <1>1, ReadsTokens
<1>3. n \in Nat \ {0}
  BY SpellsFacts
<1>4. c.fnmatch = W
  BY <1>1 DEF Reads
<1>5. /\ W \in Seq(Runes \cup DOMAIN Code) /\ W # <<>> /\ \A k \in 1..Len(W) : W[k] # "["
  BY <1>1, SliceIs
<1>. DEFINE t == hi + 1
<1>6. t = hi + 1 /\ t - 1 = hi /\ t \in (lo + 1)..hi + 1 /\ lo \in lo..hi
  BY <1>1
<1>. HIDE DEF t
<1>13. c.fnmatch \in Seq(Runes \cup DOMAIN Code) /\ c.fnmatch # <<>> /\ \A k \in 1..Len(c.fnmatch) : c.fnmatch[k] # "["
  BY <1>4, <1>5
<1>12. SubSeq(text, lo, t - 1) = W
  BY <1>6
<1>. HIDE DEF W
<1>7. W # <<"*", "*">>
  <2>1. ASSUME W = <<"*", "*">> PROVE lo \in Doubles(s)
    <3>1. SubSeq(text, lo, t - 1) = <<"*", "*">>
      BY <1>12, <2>1
    <3>. QED
      BY <1>6, <3>1, StarsAt
  <2>. QED
    BY <1>2, <1>6, <2>1
<1>8. ASSUME NEW x \in 0..n
      PROVE  <<lo, x>> \in L <=> x < n /\ Globs(W, parts[x + 1]) /\ x + 1 = n
  <2>1. <<lo, x>> \in L <=> x < n /\ Globs(W, parts[x + 1]) /\ <<t, x + 1>> \in L
    <3>1. \A k \in lo..(t - 1) : k \notin Plain(s, "/")
      BY <1>2, <1>6
    <3>2. t = hi + 1 \/ t \in Plain(s, "/")
      BY <1>6
    <3>3. SubSeq(text, lo, t - 1) # <<"*", "*">>
      BY <1>7, <1>12
    <3>4. n \in Nat /\ Len(parts) \in Nat
      BY <1>3
    <3>5. <<lo, x>> \in L <=> x < Len(parts) /\ Globs(SubSeq(text, lo, t - 1), parts[x + 1]) /\ <<t, x + 1>> \in L
      <4>1. Over(L, lo, t, parts, x)
        BY <1>1, <1>6, <3>1, <3>2, <3>4, RestsOver
      <4>. QED
        BY <3>3, <4>1 DEF Over
    <3>. QED
      BY <1>12, <3>5
  <2>2. x < n => (<<t, x + 1>> \in L <=> x + 1 = n)
    <3>1. x < n => x + 1 \in 0..n
      BY <1>3
    <3>. QED
      BY <1>1, <1>3, <1>6, <3>1, RestsEnd
  <2>. QED
    BY <2>1, <2>2
<1>9. NameMatch(c, J) <=> (top => n = 1) /\ Globs(W, parts[n])
  BY <1>4, <1>13, NameIs
<1>. HIDE DEF n, top
<1>10. (\E x \in 0..n : <<lo, x>> \in L /\ (top => x = 0)) <=> (top => n = 1) /\ Globs(W, parts[n])
  <2>1. ASSUME NEW x \in 0..n, <<lo, x>> \in L, top => x = 0 PROVE (top => n = 1) /\ Globs(W, parts[n])
    BY <1>3, <1>8, <2>1
  <2>2. ASSUME top => n = 1, Globs(W, parts[n]) PROVE \E x \in 0..n : <<lo, x>> \in L /\ (top => x = 0)
    <3>. DEFINE x == n - 1
    <3>1. x \in 0..n /\ x + 1 = n /\ x < n /\ (n = 1 => x = 0)
      BY <1>3
    <3>. HIDE DEF x
    <3>2. <<lo, x>> \in L
      BY <1>8, <2>2, <3>1
    <3>. QED
      BY <2>2, <3>1, <3>2
  <2>. QED
    BY <2>1, <2>2
<1>11. (\E x \in 0..n : <<lo, x>> \in L /\ (top \/ (\E k \in lo..hi : k \in Plain(s, "/")) => x = 0))
       <=> \E x \in 0..n : <<lo, x>> \in L /\ (top => x = 0)
  BY <1>2
<1>. QED
  BY <1>9, <1>10, <1>11 DEF n, top

-----------------------------------------------------------------------------
(* A path                                                                  *)

\* Where no escape of the line from s is looked at as a rune of its own, in the runes
\* from lo.
Aligned(s, lo) == {j \in Nat : j + lo - 1 \notin Escaped(s)}

LEMMA AlignedIs ==
  ASSUME ReadText, NEW s \in LineStarts, NEW a, NEW lo, NEW hi, Spans(s, a, lo, hi), NEW i \in lo..hi
  PROVE  /\ i = lo \/ i - 1 \in Plain(s, "/") => i \notin Escaped(s)
         /\ i \notin Escaped(s) /\ text[i] # "esc" => i + 1 \notin Escaped(s)
         /\ i \notin Escaped(s) /\ text[i] = "esc" /\ i + 1 \in Body(s) =>
              i + 1 \in Escaped(s) /\ i + 2 \notin Escaped(s)
<1>1. /\ i \in Body(s) /\ i \in Nat
      /\ lo - 1 \in Body(s) => lo - 1 \in Plain(s, "/")
  <2>1. lo \in Nat
    BY DEF Spans
  <2>. QED
    BY <2>1 DEF Spans
<1>. DEFINE j == i + 1
            l == i + 2
<1>2. j - 1 = i /\ l - 1 = j
  BY <1>1
<1>. HIDE DEF j, l
<1>3. /\ Escaped(s) \subseteq Body(s)
      /\ i \in Escaped(s) <=> i - 1 \in Body(s) /\ text[i - 1] = "esc" /\ i - 1 \notin Escaped(s)
      /\ j \in Body(s) => (j \in Escaped(s) <=> j - 1 \in Body(s) /\ text[j - 1] = "esc" /\ j - 1 \notin Escaped(s))
      /\ l \in Body(s) => (l \in Escaped(s) <=> l - 1 \in Body(s) /\ text[l - 1] = "esc" /\ l - 1 \notin Escaped(s))
  BY <1>1, EscapedIs
<1>4. i = lo \/ i - 1 \in Plain(s, "/") => i \notin Escaped(s)
  <2>1. i - 1 \in Plain(s, "/") => text[i - 1] # "esc"
    BY DEF Plain
  <2>2. i = lo => (i - 1 \in Body(s) => i - 1 \in Plain(s, "/"))
    BY <1>1
  <2>. QED
    BY <1>3, <2>1, <2>2
<1>5. i \notin Escaped(s) /\ text[i] # "esc" => j \notin Escaped(s)
  BY <1>2, <1>3
<1>6. i \notin Escaped(s) /\ text[i] = "esc" /\ j \in Body(s) => j \in Escaped(s) /\ l \notin Escaped(s)
  BY <1>1, <1>2, <1>3
<1>. QED
  BY <1>4, <1>5, <1>6 DEF j, l

\* A component of the line faces one of the path.
LEMMA FacesIs ==
  ASSUME ReadText, NoBracket, NEW s \in LineStarts, NEW a0, NEW lo, NEW hi, Spans(s, a0, lo, hi),
         NEW i \in lo..hi, NEW t \in (i + 1)..hi + 1, i = lo \/ i - 1 \in Plain(s, "/"),
         t = hi + 1 \/ t \in Plain(s, "/"), \A k \in i..(t - 1) : k \notin Plain(s, "/"),
         \A k \in Escaped(s) : text[k] # "/",
         NEW J, NEW parts, NEW st, Spells(J, parts, st), NEW x \in 1..Len(parts)
  PROVE  Facing(SubSeq(text, lo, hi), J, TRUE, (i - lo) + 1, t - lo, st[x], st[x] + Len(parts[x]) - 1,
                SubSeq(text, i, t - 1), parts[x], Aligned(s, lo))
<1>. DEFINE p == SubSeq(text, lo, hi)
            a == (i - lo) + 1
            b == t - lo
            e == st[x]
            l == Len(parts[x])
            f == e + l - 1
            glob == SubSeq(text, i, t - 1)
            word == parts[x]
            N == Len(J)
            P == Len(p)
            G == Len(glob)
<1>1. /\ lo \in Nat /\ hi \in Nat /\ 1 <= lo /\ lo <= hi /\ hi <= Len(text) /\ Len(text) \in Nat
      /\ \A k \in lo..hi : k \in Body(s)
  <2>1. a0 \in Nat /\ 1 <= a0 /\ a0 <= lo /\ lo \in Nat
    BY DEF Spans
  <2>2. 1 <= lo
    BY <2>1
  <2>. QED
    BY <2>2 DEF Spans
<1>2. i \in Nat /\ t \in Nat /\ t - 1 \in Nat /\ lo <= i /\ i <= hi /\ i <= t - 1 /\ t - 1 <= hi /\ 1 <= i /\ t - 1 <= Len(text)
  BY <1>1
<1>3. /\ P = (hi + 1) - lo /\ \A k \in 1..(hi + 1 - lo) : p[k] = text[lo + k - 1] /\ p[k] # "["
  <2>1. /\ P = hi + 1 - lo /\ \A k \in 1..(hi + 1 - lo) : p[k] = text[lo + k - 1]
        /\ \A k \in 1..P : p[k] # "["
    BY <1>1, SliceIs, SMTT(60)
  <2>. QED
    <3>. HIDE DEF p, P
    <3>. QED
      BY <1>1, <2>1
<1>4. /\ G = t - i /\ \A k \in 1..t - i : glob[k] = text[i + k - 1] /\ glob[k] # "["
  <2>. DEFINE u == t - 1
  <2>1. u \in Nat /\ i <= u /\ u <= Len(text) /\ u + 1 - i = t - i
    BY <1>1, <1>2
  <2>. HIDE DEF u
  <2>2. /\ Len(SubSeq(text, i, u)) = u + 1 - i
        /\ \A k \in 1..(u + 1 - i) : SubSeq(text, i, u)[k] = text[i + k - 1]
        /\ \A k \in 1..Len(SubSeq(text, i, u)) : SubSeq(text, i, u)[k] # "["
    BY <1>2, <2>1, SliceIs
  <2>. QED
    BY <2>1, <2>2 DEF u
<1>5. Sits(J, parts, st, x)
  BY JoinsAt DEF Spells
<1>6. /\ N \in Nat /\ l \in Nat \ {0} /\ e \in Nat /\ 1 <= e /\ e + l <= N + 1
      /\ e + l < N + 1 => J[e + l] = "/"
  <2>1. /\ N \in Nat /\ l \in Nat \ {0} /\ e \in Nat /\ 1 <= e /\ e + l <= N + 1
        /\ x = Len(parts) <=> e + l = N + 1
        /\ x < Len(parts) => J[e + l] = "/"
    BY <1>5 DEF Sits
  <2>2. Len(parts) \in Nat
    BY SpellsFacts
  <2>3. x # Len(parts) => x < Len(parts)
    BY <2>2
  <2>. HIDE DEF N, l, e
  <2>4. e + l < N + 1 => e + l # N + 1
    BY <2>1
  <2>. QED
    BY <2>1, <2>3, <2>4
<1>7. \A k \in 1..l : /\ word[k] = J[e + k - 1] /\ word[k] # "/" /\ word[k] \in Runes \cup DOMAIN Code
  BY DEF Spells, Joins
<1>. HIDE DEF p, glob, e, l, word, N, P, G
<1>8. /\ a \in Nat /\ b \in Nat /\ f \in Nat /\ 1 <= a /\ a <= b + 1 /\ b <= P /\ e <= f + 1 /\ f <= N /\ P \in Nat
      /\ G = b + 1 - a /\ l = f + 1 - e
  BY <1>1, <1>2, <1>3, <1>4, <1>6
<1>9. \A k \in 1..G : glob[k] = p[a + k - 1] /\ glob[k] # "["
  <2>. SUFFICES ASSUME NEW k \in 1..G PROVE glob[k] = p[a + k - 1] /\ glob[k] # "["
    OBVIOUS
  <2>1. k \in 1..t - i /\ a + k - 1 \in 1..(hi + 1 - lo) /\ lo + (a + k - 1) - 1 = i + k - 1
    BY <1>1, <1>2, <1>4
  <2>2. glob[k] = text[i + k - 1] /\ glob[k] # "["
    BY <1>4, <2>1
  <2>3. p[a + k - 1] = text[lo + (a + k - 1) - 1]
    BY <1>3, <2>1
  <2>. QED
    BY <2>1, <2>2, <2>3
<1>10. \A k \in 1..l : word[k] = J[e + k - 1] /\ word[k] # "/" /\ word[k] \in Runes \cup DOMAIN Code
  BY <1>7
<1>11. b < P => p[b + 1] = "/"
  <2>. SUFFICES ASSUME b < P PROVE p[b + 1] = "/"
    OBVIOUS
  <2>1. t # hi + 1 /\ b + 1 \in 1..(hi + 1 - lo) /\ lo + (b + 1) - 1 = t
    BY <1>1, <1>2, <1>3
  <2>2. text[t] = "/"
    BY <2>1 DEF Plain
  <2>3. p[b + 1] = text[lo + (b + 1) - 1]
    BY <1>3, <2>1
  <2>. QED
    BY <2>1, <2>2, <2>3
<1>12. f < N => J[f + 1] = "/"
  <2>1. f + 1 = e + l
    BY <1>6
  <2>2. f < N => e + l < N + 1
    BY <1>6
  <2>. QED
    BY <1>6, <2>1, <2>2
<1>13. \A k \in 1..G : glob[k] # "/"
  <2>. SUFFICES ASSUME NEW k \in 1..G PROVE glob[k] # "/"
    OBVIOUS
  <2>. DEFINE h == i + k - 1
  <2>1. k \in 1..t - i /\ h \in i..(t - 1) /\ h \in lo..hi
    BY <1>1, <1>2, <1>4
  <2>. HIDE DEF h
  <2>2. h \in Body(s) /\ h \notin Plain(s, "/")
    BY <1>1, <2>1
  <2>3. text[h] # "/"
    BY <2>2 DEF Plain
  <2>4. glob[k] = text[h]
    BY <1>4, <2>1 DEF h
  <2>. QED
    BY <2>3, <2>4
<1>14. a \in Aligned(s, lo)
  <2>1. a + lo - 1 = i
    BY <1>1, <1>2
  <2>2. i \notin Escaped(s)
    BY AlignedIs
  <2>. QED
    BY <1>8, <2>1, <2>2 DEF Aligned
<1>15. ASSUME NEW j \in a..b, j \in Aligned(s, lo)
       PROVE  IF p[j] = "esc" THEN (j < b /\ j + 2 \in Aligned(s, lo)) \/ j = P ELSE j + 1 \in Aligned(s, lo)
  <2>. DEFINE h == j + lo - 1
  <2>1. h \in Nat /\ h \in lo..hi /\ i <= h /\ h <= t - 1 /\ j \in Nat /\ j \in 1..(hi + 1 - lo) /\ lo + j - 1 = h
        /\ (j + 1) + lo - 1 = h + 1 /\ (j + 2) + lo - 1 = h + 2 /\ j + 1 \in Nat /\ j + 2 \in Nat
    BY <1>1, <1>2, <1>8
  <2>2. p[j] = text[h]
    BY <1>3, <2>1
  <2>3. h \notin Escaped(s)
    BY <1>15 DEF Aligned
  <2>4. /\ text[h] # "esc" => h + 1 \notin Escaped(s)
        /\ text[h] = "esc" /\ h + 1 \in Body(s) => h + 1 \in Escaped(s) /\ h + 2 \notin Escaped(s)
    <3>. HIDE DEF h
    <3>. QED
      BY <2>1, <2>3, AlignedIs
  <2>5. j < b \/ j = P \/ (h + 1 = t /\ t \in Plain(s, "/") /\ j # P)
    <3>1. ~(j < b) => h + 1 = t
      BY <1>1, <1>2, <1>8, <2>1
    <3>2. h + 1 = t /\ t = hi + 1 => j = P
      BY <1>1, <1>3, <2>1
    <3>. QED
      BY <3>1, <3>2
  <2>6. t \in Plain(s, "/") => t \in Body(s) /\ t \notin Escaped(s)
    BY DEF Plain
  <2>7. j # P => h + 1 \in Body(s)
    <3>1. j # P => h + 1 \in lo..hi
      BY <1>1, <1>3, <2>1
    <3>. QED
      BY <1>1, <3>1
  <2>8. CASE p[j] # "esc"
    <3>1. j + 1 \in Aligned(s, lo)
      BY <2>1, <2>2, <2>4, <2>8 DEF Aligned
    <3>. QED
      BY <2>8, <3>1
  <2>9. CASE p[j] = "esc" /\ j # P
    <3>1. h + 1 \in Escaped(s) /\ h + 2 \notin Escaped(s)
      BY <2>2, <2>4, <2>7, <2>9
    <3>2. j < b
      BY <2>5, <2>6, <2>9, <3>1
    <3>3. j + 2 \in Aligned(s, lo)
      BY <2>1, <3>1 DEF Aligned
    <3>. QED
      BY <2>9, <3>2, <3>3
  <2>10. CASE p[j] = "esc" /\ j = P
    BY <2>10
  <2>. QED
    BY <2>8, <2>9, <2>10
<1>16. Facing(p, J, TRUE, a, b, e, f, glob, word, Aligned(s, lo))
  <2>1. /\ Len(p) = P /\ Len(J) = N /\ Len(glob) = G /\ Len(word) = l
    BY DEF P, N, G, l, word
  <2>. HIDE DEF a, b, f
  <2>. QED
    BY <1>6, <1>8, <1>9, <1>10, <1>11, <1>12, <1>13, <1>14, <1>15, <2>1 DEF Facing
<1>. QED
  BY <1>16 DEF p, e, l, glob, word

\* Where a component begins.
Begins(s, lo, hi, i) == i \in lo..hi /\ i \notin Plain(s, "/") /\ (i = lo \/ i - 1 \in Plain(s, "/"))

\* The component from i ends before t, and the rule says that of it and what comes after x
\* components of the path.
EndsAt(L, s, lo, hi, parts, i, t, x) ==
  /\ t = hi + 1 \/ (t \in Plain(s, "/") /\ Begins(s, lo, hi, t + 1) /\ t \in lo..hi)
  /\ \A k \in i..(t - 1) : k \notin Plain(s, "/")
  /\ Over(L, i, t, parts, x)
  /\ SubSeq(text, i, t - 1) = <<"*", "*">> => t = i + 2 /\ i \in Doubles(s)

LEMMA ComponentIs ==
  ASSUME ReadText, NEW s \in LineStarts, NEW a0, NEW lo, NEW hi, Spans(s, a0, lo, hi),
         NEW parts, Len(parts) \in Nat, NEW L, RuleRests(L, s, lo, hi, parts),
         NEW i, Begins(s, lo, hi, i), NEW x \in 0..Len(parts)
  PROVE  \E t \in (i + 1)..hi + 1 : EndsAt(L, s, lo, hi, parts, i, t, x)
<1>1. /\ lo \in Nat /\ hi \in Nat /\ lo <= hi /\ hi \notin Plain(s, "/") /\ Apart(s)
  BY DEF Spans
<1>2. i \in lo..hi /\ i \notin Plain(s, "/") /\ (i = lo \/ i - 1 \in Plain(s, "/"))
  BY DEF Begins
<1>. DEFINE t == CutAt(s, i, hi)
<1>3. /\ t \in i..hi + 1
      /\ t # hi + 1 => t \in Plain(s, "/") /\ t <= hi
      /\ \A k \in i..(t - 1) : k \notin Plain(s, "/")
  <2>1. i \in 0..hi
    BY <1>1, <1>2
  <2>. QED
    BY <1>1, <1>2, <2>1, CutFacts
<1>. HIDE DEF t
<1>4. t # i
  <2>1. t = i => t # hi + 1
    BY <1>1, <1>2
  <2>. QED
    BY <1>2, <1>3, <2>1
<1>5. t \in (i + 1)..hi + 1
  BY <1>1, <1>2, <1>3, <1>4
<1>6. t = hi + 1 \/ (t \in Plain(s, "/") /\ Begins(s, lo, hi, t + 1) /\ t \in lo..hi)
  <2>. SUFFICES ASSUME t # hi + 1 PROVE t \in Plain(s, "/") /\ Begins(s, lo, hi, t + 1) /\ t \in lo..hi
    OBVIOUS
  <2>1. t \in Plain(s, "/") /\ t <= hi /\ t # hi
    BY <1>1, <1>3
  <2>2. t + 1 \notin Plain(s, "/")
    BY <1>1, <2>1 DEF Apart
  <2>3. t + 1 \in lo..hi /\ (t + 1) - 1 = t /\ t \in lo..hi
    BY <1>1, <1>2, <1>5, <2>1
  <2>. QED
    BY <2>1, <2>2, <2>3 DEF Begins
<1>7. Over(L, i, t, parts, x)
  <2>1. t = hi + 1 \/ t \in Plain(s, "/")
    BY <1>6
  <2>. QED
    BY <1>1, <1>2, <1>3, <1>5, <2>1, RestsOver
<1>8. SubSeq(text, i, t - 1) = <<"*", "*">> => t = i + 2 /\ i \in Doubles(s)
  BY <1>2, <1>5, StarsAt
<1>. QED
  BY <1>3, <1>5, <1>6, <1>7, <1>8 DEF EndsAt

\* What comes after them.
LEMMA BeyondIs ==
  ASSUME ReadText, NoBracket, NEW s \in LineStarts, NEW a0, NEW lo, NEW hi, Spans(s, a0, lo, hi),
         \A k \in lo..hi : k \notin Doubles(s),
         NEW J, NEW parts, NEW st, Spells(J, parts, st),
         NEW L, RuleRests(L, s, lo, hi, parts), NEW m,
         NEW y \in 1..Len(parts), NEW t \in lo..hi + 1,
         t = hi + 1 \/ (t \in Plain(s, "/") /\ Begins(s, lo, hi, t + 1) /\ t \in lo..hi),
         t # hi + 1 /\ y < Len(parts) => (m[<<(t - lo) + 2, st[y + 1]>>] <=> <<t + 1, y>> \in L)
  PROVE  Beyond(m, SubSeq(text, lo, hi), J, t - lo, st[y] + Len(parts[y]) - 1) <=> <<t, y>> \in L
<1>. DEFINE p == SubSeq(text, lo, hi)
            n == Len(parts)
            e == st[y]
            l == Len(parts[y])
            g == st[y + 1]
            f == e + l - 1
            N == Len(J)
            P == Len(p)
            b == t - lo
<1>1. /\ lo \in Nat /\ hi \in Nat /\ 1 <= lo /\ lo <= hi /\ hi <= Len(text) /\ Len(text) \in Nat
  <2>1. a0 \in Nat /\ 1 <= a0 /\ a0 <= lo /\ lo \in Nat
    BY DEF Spans
  <2>2. 1 <= lo
    BY <2>1
  <2>. QED
    BY <2>2 DEF Spans
<1>2. P = hi + 1 - lo
  BY <1>1, SliceIs
<1>3. n \in Nat \ {0} /\ y \in 0..n
  BY SpellsFacts
<1>4. /\ N \in Nat /\ l \in Nat \ {0} /\ e \in Nat /\ 1 <= e /\ e + l <= N + 1
      /\ g = e + l + 1 /\ (y = n <=> e + l = N + 1)
  <2>1. Sits(J, parts, st, y)
    BY JoinsAt DEF Spells
  <2>. QED
    BY <2>1 DEF Sits
<1>5. Len(p) = P /\ Len(J) = N
  OBVIOUS
<1>. HIDE DEF p, n, e, l, g, N, P
<1>6. /\ b = P <=> t = hi + 1
      /\ f = N <=> y = n
      /\ f < N <=> y < n
      /\ b + 2 = (t - lo) + 2 /\ f + 2 = g
  BY <1>1, <1>2, <1>3, <1>4
<1>. DEFINE Q == Beyond(m, p, J, b, f)
<1>7. Q <=> IF b = P THEN f = N ELSE f < N /\ m[<<b + 2, f + 2>>]
  BY <1>5 DEF Beyond
<1>. HIDE DEF Q, f
<1>8. CASE t = hi + 1
  <2>1. <<t, y>> \in L <=> y = n
    BY <1>1, <1>3, <1>8, RestsEnd DEF n
  <2>. QED
    BY <1>6, <1>7, <1>8, <2>1 DEF Q, p, f, e, l
<1>9. CASE t # hi + 1
  <2>1. Q <=> y < n /\ m[<<(t - lo) + 2, g>>]
    BY <1>6, <1>7, <1>9
  <2>2. <<t, y>> \in L <=> <<t + 1, y>> \in L
    BY <1>1, <1>3, <1>9, RestsPass DEF n
  <2>3. y < n \/ <<t + 1, y>> \notin L
    <3>1. PICK u \in (t + 1 + 1)..hi + 1 :
            /\ Over(L, t + 1, u, parts, y)
            /\ SubSeq(text, t + 1, u - 1) = <<"*", "*">> => t + 1 \in Doubles(s)
      BY <1>3, <1>9, ComponentIs, SMTT(60) DEF n, EndsAt
    <3>2. t + 1 \in lo..hi
      BY <1>9 DEF Begins
    <3>3. SubSeq(text, t + 1, u - 1) # <<"*", "*">>
      BY <3>1, <3>2
    <3>4. <<t + 1, y>> \in L => y < Len(parts)
      BY <3>1, <3>3 DEF Over
    <3>. QED
      BY <3>4 DEF n
  <2>4. y < n => (m[<<(t - lo) + 2, g>>] <=> <<t + 1, y>> \in L)
    BY <1>9 DEF n, g
  <2>. QED
    BY <2>1, <2>2, <2>3, <2>4 DEF Q, p, f, e, l
<1>. QED
  BY <1>8, <1>9

\* fnmatch and the rule agree at the beginning of a component.
PathAgrees(m, L, s, lo, hi, parts, st, i) ==
  Begins(s, lo, hi, i) =>
    \A x \in 0..(Len(parts) - 1) : m[<<(i - lo) + 1, st[x + 1]>>] <=> <<i, x>> \in L

LEMMA PathStep ==
  ASSUME ReadText, NoBracket, NEW s \in LineStarts, NEW a0, NEW lo, NEW hi, Spans(s, a0, lo, hi),
         \A k \in lo..hi : k \notin Doubles(s), \A k \in Escaped(s) : text[k] # "/",
         NEW J, NEW parts, NEW st, Spells(J, parts, st),
         NEW L, RuleRests(L, s, lo, hi, parts), NEW m, Finds(m, SubSeq(text, lo, hi), J, TRUE),
         NEW i \in lo..hi, \A h \in (i + 1)..hi : PathAgrees(m, L, s, lo, hi, parts, st, h)
  PROVE  PathAgrees(m, L, s, lo, hi, parts, st, i)
<1>. DEFINE n == Len(parts)
            p == SubSeq(text, lo, hi)
<1>1. lo \in Nat /\ hi \in Nat /\ lo <= hi /\ n \in Nat \ {0} /\ Len(parts) \in Nat
  BY SpellsFacts DEF Spans
<1>2. SUFFICES ASSUME Begins(s, lo, hi, i), NEW x \in 0..(n - 1)
               PROVE  m[<<(i - lo) + 1, st[x + 1]>>] <=> <<i, x>> \in L
  BY DEF PathAgrees
<1>. DEFINE y == x + 1
<1>3. x \in 0..n /\ y \in 1..n /\ x < n
  BY <1>1
<1>4. PICK t \in (i + 1)..hi + 1 :
        /\ t = hi + 1 \/ (t \in Plain(s, "/") /\ Begins(s, lo, hi, t + 1) /\ t \in lo..hi)
        /\ \A k \in i..(t - 1) : k \notin Plain(s, "/")
        /\ Over(L, i, t, parts, x)
        /\ SubSeq(text, i, t - 1) = <<"*", "*">> => t = i + 2 /\ i \in Doubles(s)
  <2>1. PICK t \in (i + 1)..hi + 1 : EndsAt(L, s, lo, hi, parts, i, t, x)
    BY <1>1, <1>2, <1>3, ComponentIs
  <2>. QED
    BY <2>1 DEF EndsAt
<1>. DEFINE W == SubSeq(text, i, t - 1)
<1>5. <<i, x>> \in L <=> Globs(W, parts[y]) /\ <<t, y>> \in L
  <2>1. W # <<"*", "*">>
    BY <1>4
  <2>. QED
    BY <1>3, <1>4, <2>1 DEF Over
<1>6. t # hi + 1 /\ y < n => (m[<<(t - lo) + 2, st[y + 1]>>] <=> <<t + 1, y>> \in L)
  <2>. SUFFICES ASSUME t # hi + 1, y < n PROVE m[<<(t - lo) + 2, st[y + 1]>>] <=> <<t + 1, y>> \in L
    OBVIOUS
  <2>. DEFINE h == t + 1
  <2>1. Begins(s, lo, hi, h) /\ h \in lo..hi
    BY <1>4 DEF Begins
  <2>2. h \in (i + 1)..hi /\ y \in 0..(n - 1) /\ (h - lo) + 1 = (t - lo) + 2
    BY <1>1, <1>3, <1>4, <2>1
  <2>. HIDE DEF h, y
  <2>3. m[<<(h - lo) + 1, st[y + 1]>>] <=> <<h, y>> \in L
    BY <2>1, <2>2 DEF PathAgrees
  <2>. QED
    BY <2>2, <2>3 DEF h
<1>. DEFINE b == t - lo
            f == st[y] + Len(parts[y]) - 1
<1>7. Beyond(m, p, J, b, f) <=> <<t, y>> \in L
  <2>1. t \in lo..hi + 1
    BY <1>1, <1>4
  <2>. HIDE DEF y
  <2>. QED
    BY <1>3, <1>4, <1>6, <2>1, BeyondIs
<1>8. Facing(p, J, TRUE, (i - lo) + 1, b, st[y], f, W, parts[y], Aligned(s, lo))
  <2>1. i = lo \/ i - 1 \in Plain(s, "/")
    BY <1>2 DEF Begins
  <2>2. t = hi + 1 \/ t \in Plain(s, "/")
    BY <1>4
  <2>. HIDE DEF y
  <2>. QED
    BY <1>3, <1>4, <2>1, <2>2, FacesIs
<1>9. m[<<(i - lo) + 1, st[y]>>] <=> Beyond(m, p, J, b, f) /\ Globs(W, parts[y])
  <2>. HIDE DEF y, b, f, W
  <2>. QED
    BY <1>8, FacingMatches
<1>. QED
  BY <1>5, <1>7, <1>9

\* A line that is a path.
LEMMA PathLine ==
  ASSUME ReadText, NoBracket, NEW s \in LineStarts, NEW a, NEW lo, NEW hi, Spans(s, a, lo, hi),
         \A k \in lo..hi : k \notin Doubles(s), \A k \in Escaped(s) : text[k] # "/",
         \E k \in lo..hi : k \in Plain(s, "/"),
         NEW c, c.fnmatch = SubSeq(text, lo, hi),
         NEW J, NEW parts, NEW st, Spells(J, parts, st), NEW L, RuleRests(L, s, lo, hi, parts)
  PROVE  PathMatch(c, J) <=>
           \E x \in 0..Len(parts) :
             <<lo, x>> \in L /\ (a \in Plain(s, "/") \/ (\E k \in lo..hi : k \in Plain(s, "/")) => x = 0)
<1>. DEFINE n == Len(parts)
            p == SubSeq(text, lo, hi)
<1>1. /\ lo \in Nat /\ hi \in Nat /\ lo <= hi /\ n \in Nat \ {0} /\ 1 <= lo /\ hi <= Len(text) /\ lo \notin Plain(s, "/")
  <2>1. a \in Nat /\ 1 <= a /\ a <= lo /\ lo \in Nat
    BY DEF Spans
  <2>2. 1 <= lo
    BY <2>1
  <2>. QED
    BY <2>2, SpellsFacts DEF Spans
<1>2. p \in Seq(Runes \cup DOMAIN Code) /\ \A k \in 1..Len(p) : p[k] # "["
  BY <1>1, SliceIs
<1>3. J \in Seq(Runes \cup DOMAIN Code) /\ st[1] = 1
  BY DEF Spells, Joins
<1>4. Len(p) \in Nat /\ Len(J) \in Nat
  BY <1>2, <1>3, LenProperties
<1>5. PICK m : Finds(m, p, J, TRUE) /\ (Fnmatch(p, J, TRUE) <=> m[<<1, 1>>])
  <2>. HIDE DEF p
  <2>. QED
    BY <1>2, <1>4, FnmatchUnfolds
<1>. DEFINE S == {i \in lo..hi : PathAgrees(m, L, s, lo, hi, parts, st, i)}
<1>6. ASSUME NEW i \in lo..hi, \A h \in (i + 1)..hi : h \in S PROVE i \in S
  BY <1>1, <1>5, <1>6, PathStep
<1>7. \A i \in lo..hi : i \in S
  <2>. HIDE DEF S
  <2>. QED
    BY <1>1, <1>6, Downward
<1>8. m[<<1, 1>>] <=> <<lo, 0>> \in L
  <2>1. lo \in S /\ Begins(s, lo, hi, lo) /\ 0 \in 0..(n - 1)
    BY <1>1, <1>7 DEF Begins
  <2>2. m[<<(lo - lo) + 1, st[0 + 1]>>] <=> <<lo, 0>> \in L
    BY <2>1 DEF PathAgrees
  <2>3. (lo - lo) + 1 = 1 /\ 0 + 1 = 1
    BY <1>1
  <2>. QED
    BY <1>3, <2>2, <2>3
<1>9. PathMatch(c, J) <=> <<lo, 0>> \in L
  BY <1>5, <1>8 DEF PathMatch
<1>10. 0 \in 0..n
  BY <1>1
<1>. QED
  BY <1>9, <1>10

-----------------------------------------------------------------------------
(* A pattern with a double star                                            *)

\* any.Match is at its end, or goes on from somewhere else.
AnyAtEnd(u, J, i, j) == i > Len(u) /\ ~(j <= Len(J) + 1)
AnyOnward(u, J, i, j) ==
  IF i > Len(u) THEN {}
  ELSE IF u[i].type = "SEPARATOR" THEN {<<i + 1, j>>}
  ELSE IF u[i].type = "ANY"
  THEN {<<i + 1, j>>} \cup (IF j <= Len(J) + 1 THEN {<<i, Cut(J, j) + 1>>} ELSE {})
  ELSE IF j <= Len(J) + 1 /\ Fnmatch(u[i].word, SubSeq(J, j, Cut(J, j) - 1), TRUE)
  THEN {<<i + 1, Cut(J, j) + 1>>}
  ELSE {}

AnyFinds(m, u, J) ==
  \A i \in 1..Len(u) + 1, j \in 1..Len(J) + 2 :
    m[<<i, j>>] <=> \/ AnyAtEnd(u, J, i, j)
                    \/ \E y \in AnyOnward(u, J, i, j) : m[y]

LEMMA CutStays ==
  ASSUME NEW J, Len(J) \in Nat, NEW j \in Nat, j <= Len(J) + 1
  PROVE  Cut(J, j) \in j..Len(J) + 1
<1>. DEFINE T == {k \in j..Len(J) : J[k] = "/"} \cup {Len(J) + 1}
<1>1. T \subseteq Nat /\ T # {} /\ T \subseteq j..Len(J) + 1
  OBVIOUS
<1>2. Cut(J, j) = Min(T)
  BY DEF Cut
<1>. HIDE DEF T
<1>. QED
  BY <1>1, <1>2, MinOf

LEMMA AnyStays ==
  ASSUME NEW u, NEW J, Len(u) \in Nat, Len(J) \in Nat, NEW i \in 1..Len(u) + 1, NEW j \in 1..Len(J) + 2
  PROVE  AnyOnward(u, J, i, j) \subseteq (1..Len(u) + 1) \X (1..Len(J) + 2)
<1>1. j <= Len(J) + 1 => Cut(J, j) + 1 \in 1..Len(J) + 2
  <2>. SUFFICES ASSUME j <= Len(J) + 1 PROVE Cut(J, j) + 1 \in 1..Len(J) + 2
    OBVIOUS
  <2>1. Cut(J, j) \in j..Len(J) + 1
    BY CutStays
  <2>. QED
    BY <2>1
<1>2. i <= Len(u) => i + 1 \in 1..Len(u) + 1
  OBVIOUS
<1>3. i <= Len(u) \/ i > Len(u)
  OBVIOUS
<1>. DEFINE O == AnyOnward(u, J, i, j)
            k == Cut(J, j) + 1
<1>4. O \subseteq {y \in {<<i + 1, j>>, <<i, k>>, <<i + 1, k>>} :
                     i <= Len(u) /\ (y \in {<<i, k>>, <<i + 1, k>>} => j <= Len(J) + 1 \/ y = <<i + 1, j>>)}
  <2>. HIDE DEF k
  <2>. QED
    BY <1>3 DEF AnyOnward, k
<1>. HIDE DEF O, k
<1>5. \A y \in O : y \in (1..Len(u) + 1) \X (1..Len(J) + 2)
  <2>. SUFFICES ASSUME NEW y \in O PROVE y \in (1..Len(u) + 1) \X (1..Len(J) + 2)
    OBVIOUS
  <2>1. i + 1 \in 1..Len(u) + 1
    BY <1>2, <1>4
  <2>2. y = <<i + 1, j>> \/ (j <= Len(J) + 1 /\ y \in {<<i, k>>, <<i + 1, k>>})
    BY <1>4
  <2>3. j <= Len(J) + 1 => k \in 1..Len(J) + 2
    BY <1>1 DEF k
  <2>. QED
    BY <2>1, <2>2, <2>3, SMTT(60)
<1>. QED
  BY <1>5 DEF O

LEMMA AnyUnfolds ==
  ASSUME NEW c, NEW J, Len(c.tokens) \in Nat, Len(J) \in Nat
  PROVE  \E m : AnyFinds(m, c.tokens, J) /\ (AnyMatch(c, J) <=> m[<<1, 1>>])
<1>. DEFINE u == c.tokens
            D == (1..Len(c.tokens) + 1) \X (1..Len(J) + 2)
            goal == {at \in D : AnyAtEnd(u, J, at[1], at[2])}
            next == [at \in D |-> AnyOnward(u, J, at[1], at[2])]
            Clauses(match, at) ==
              LET i == at[1]
                  j == at[2]
                  some == j <= Len(J) + 1
                  next_ == Cut(J, j) + 1
              IN IF i > Len(c.tokens) THEN ~some
                 ELSE CASE c.tokens[i].type = "SEPARATOR" -> match[<<i + 1, j>>]
                   [] c.tokens[i].type = "ANY" -> match[<<i + 1, j>>] \/ (some /\ match[<<i, next_>>])
                   [] OTHER ->
                        /\ some
                        /\ Fnmatch(c.tokens[i].word, SubSeq(J, j, next_ - 2), TRUE)
                        /\ match[<<i + 1, next_>>]
            choice == CHOOSE match : match = [at \in D |-> Clauses(match, at)]
<1>1. PICK L : ComeFrom(L, D, goal, next)
  BY Reaches
<1>. DEFINE f == [at \in D |-> at \in L]
            Step(g, at) == \/ AnyAtEnd(u, J, at[1], at[2])
                           \/ \E y \in AnyOnward(u, J, at[1], at[2]) : g[y]
<1>2. ASSUME NEW g, NEW at \in D PROVE Clauses(g, at) <=> Step(g, at)
  <2>. DEFINE i == at[1]
              j == at[2]
              cut == Cut(J, j)
  <2>1. i \in 1..Len(u) + 1 /\ j \in 1..Len(J) + 2
    OBVIOUS
  <2>2. j <= Len(J) + 1 => (cut + 1) - 2 = cut - 1
    <3>1. j <= Len(J) + 1 => cut \in Nat
      BY <2>1, CutStays
    <3>. HIDE DEF cut
    <3>. QED
      BY <3>1
  <2>3. CASE i > Len(u)
    BY <2>3 DEF AnyAtEnd, AnyOnward
  <2>4. CASE i <= Len(u)
    <3>0. ~(i > Len(u)) /\ ~AnyAtEnd(u, J, i, j)
      BY <2>1, <2>4 DEF AnyAtEnd
    <3>1. CASE u[i].type = "SEPARATOR"
      BY <3>0, <3>1 DEF AnyOnward
    <3>2. CASE u[i].type = "ANY" /\ j <= Len(J) + 1
      BY <3>0, <3>2 DEF AnyOnward
    <3>3. CASE u[i].type = "ANY" /\ ~(j <= Len(J) + 1)
      BY <3>0, <3>3 DEF AnyOnward
    <3>4. CASE u[i].type \notin {"SEPARATOR", "ANY"} /\ ~(j <= Len(J) + 1)
      BY <3>0, <3>4 DEF AnyOnward
    <3>5. CASE u[i].type \notin {"SEPARATOR", "ANY"} /\ j <= Len(J) + 1
      <4>1. SubSeq(J, j, (cut + 1) - 2) = SubSeq(J, j, cut - 1)
        <5>. HIDE DEF cut
        <5>1. (cut + 1) - 2 = cut - 1
          BY <2>2, <3>5
        <5>. QED
          BY <5>1
      <4>. DEFINE F == Fnmatch(u[i].word, SubSeq(J, j, cut - 1), TRUE)
      <4>2. Clauses(g, at) <=> F /\ g[<<i + 1, cut + 1>>]
        BY <3>0, <3>5, <4>1
      <4>3. AnyOnward(u, J, i, j) = IF F THEN {<<i + 1, cut + 1>>} ELSE {}
        BY <3>0, <3>5 DEF AnyOnward
      <4>4. Step(g, at) <=> F /\ g[<<i + 1, cut + 1>>]
        <5>. HIDE DEF F, cut
        <5>. QED
          BY <3>0, <4>3
      <4>. QED
        BY <4>2, <4>4
    <3>. HIDE DEF Clauses, Step
    <3>. QED
      BY <3>1, <3>2, <3>3, <3>4, <3>5
  <2>. HIDE DEF Clauses, Step
  <2>. QED
    BY <2>1, <2>3, <2>4
<1>3. \A at \in D : f[at] = Clauses(f, at)
  <2>. SUFFICES ASSUME NEW at \in D PROVE f[at] <=> Clauses(f, at)
    <3>1. \A at \in D : f[at] \in BOOLEAN
      <4>. HIDE DEF D, Clauses
      <4>1. \A x : (x \in L) \in BOOLEAN
        OBVIOUS
      <4>2. \A x \in D : f[x] = (x \in L)
        BY Zenon
      <4>. HIDE DEF f
      <4>. QED
        BY <4>1, <4>2, Zenon
    <3>2. \A at \in D : Clauses(f, at) \in BOOLEAN
      <4>. SUFFICES ASSUME NEW at \in D PROVE Clauses(f, at) \in BOOLEAN
        OBVIOUS
      <4>. DEFINE i == at[1]
                  j == at[2]
      <4>1. i \in 1..Len(u) + 1 /\ j \in 1..Len(J) + 2
        <5>. HIDE DEF f, Clauses
        <5>. QED
          OBVIOUS
      <4>2. i <= Len(u) => f[<<i + 1, j>>] \in BOOLEAN
        <5>1. i <= Len(u) => <<i + 1, j>> \in D
          BY <4>1
        <5>. QED
          BY <3>1, <5>1
      <4>. HIDE DEF f
      <4>3. CASE i > Len(u)
        BY <4>3
      <4>4. CASE i <= Len(u) /\ u[i].type = "SEPARATOR"
        <5>1. ~(i > Len(u))
          BY <4>1, <4>4
        <5>2. Clauses(f, at) = f[<<i + 1, j>>]
          BY <4>4, <5>1
        <5>. QED
          BY <4>2, <4>4, <5>2
      <4>5. CASE ~(i > Len(u)) /\ u[i].type = "ANY"
        BY <4>5
      <4>6. CASE ~(i > Len(u)) /\ u[i].type \notin {"SEPARATOR", "ANY"}
        BY <4>6
      <4>. HIDE DEF Clauses
      <4>. QED
        BY <4>1, <4>3, <4>4, <4>5, <4>6, SMTT(60)
    <3>. HIDE DEF f, Clauses, D
    <3>. QED
      BY <3>1, <3>2
  <2>1. f[at] <=> at \in L
    OBVIOUS
  <2>2. at \in L <=> at \in goal \/ \E y \in next[at] : y \in L
    BY <1>1 DEF ComeFrom
  <2>3. at \in goal <=> AnyAtEnd(u, J, at[1], at[2])
    OBVIOUS
  <2>4. next[at] = AnyOnward(u, J, at[1], at[2])
    OBVIOUS
  <2>5. \A y \in next[at] : y \in L <=> f[y]
    <3>1. at[1] \in 1..Len(u) + 1 /\ at[2] \in 1..Len(J) + 2
      OBVIOUS
    <3>2. AnyOnward(u, J, at[1], at[2]) \subseteq D
      BY <3>1, AnyStays
    <3>. QED
      BY <2>4, <3>2
  <2>. HIDE DEF f, Clauses, D, goal, next
  <2>. QED
    BY <1>2, <2>1, <2>2, <2>3, <2>4, <2>5
<1>4. f = [at \in D |-> Clauses(f, at)]
  <2>1. f = [at \in D |-> f[at]]
    OBVIOUS
  <2>. HIDE DEF f, Clauses, D
  <2>. QED
    BY <1>3, <2>1
<1>5. choice = [at \in D |-> Clauses(choice, at)]
  <2>. HIDE DEF f, Clauses, D
  <2>. QED
    BY <1>4 DEF choice
<1>6. AnyMatch(c, J) = choice[<<1, 1>>]
  BY DEF AnyMatch
<1>7. \A i \in 1..Len(u) + 1, j \in 1..Len(J) + 2 :
        choice[<<i, j>>] <=> \/ AnyAtEnd(u, J, i, j)
                             \/ \E y \in AnyOnward(u, J, i, j) : choice[y]
  <2>. SUFFICES ASSUME NEW i \in 1..Len(u) + 1, NEW j \in 1..Len(J) + 2
                PROVE  choice[<<i, j>>] <=> \/ AnyAtEnd(u, J, i, j)
                                            \/ \E y \in AnyOnward(u, J, i, j) : choice[y]
    OBVIOUS
  <2>. DEFINE at == <<i, j>>
  <2>1. at \in D /\ at[1] = i /\ at[2] = j
    OBVIOUS
  <2>. HIDE DEF Clauses, D, choice, at
  <2>2. choice[at] = Clauses(choice, at)
    BY <1>5, <2>1
  <2>3. Clauses(choice, at) <=> Step(choice, at)
    BY <1>2, <2>1
  <2>. QED
    BY <2>1, <2>2, <2>3, SMTT(60) DEF at
<1>. HIDE DEF choice
<1>. QED
  BY <1>6, <1>7 DEF AnyFinds

\* Separators stand between the other tokens.
Alternates(q) ==
  /\ \A i \in 1..Len(q) : q[i].type \in {"SEPARATOR", "ANY", "PATTERN"}
  /\ \A i \in 1..(Len(q) - 1) : q[i].type = "SEPARATOR" \/ q[i + 1].type = "SEPARATOR"

LEMMA AlternatesIs ==
  ASSUME ReadText, NEW s \in LineStarts, NEW a, NEW lo, NEW hi, Spans(s, a, lo, hi),
         NEW q, Runs(q, s, lo, hi), \A i \in Doubles(s) : Whole(s, i),
         \A k \in lo..hi : k \notin Plain(s, "sp")
  PROVE  Alternates(q)
<1>1. Len(q) \in Nat \ {0} /\ \A i \in 1..Len(q) : Within(q, s, lo, hi, i) /\ Placed(s, q[i]) /\ q[i].type # "NEGATION"
  BY RunsWithin DEF Runs
<1>2. ASSUME NEW i \in 1..Len(q)
      PROVE  /\ q[i].from \in q[i].from..(q[i].to - 1) /\ q[i].to - 1 \in q[i].from..(q[i].to - 1)
             /\ q[i].from \in lo..hi /\ q[i].from \in Body(s) /\ q[i].to - 1 \in Body(s)
             /\ q[i].to \in Nat
  <2>. DEFINE f == q[i].from
              t == q[i].to
  <2>1. f \in Nat /\ t \in Nat /\ f < t /\ \A k \in f..(t - 1) : k \in Body(s) /\ k \in lo..hi
    BY <1>1 DEF Within
  <2>. HIDE DEF f, t
  <2>2. f \in f..(t - 1) /\ t - 1 \in f..(t - 1)
    BY <2>1
  <2>3. f \in lo..hi /\ f \in Body(s) /\ t - 1 \in Body(s)
    BY <2>1, <2>2
  <2>. QED
    BY <2>1, <2>2, <2>3 DEF f, t
<1>3. ASSUME NEW i \in 1..Len(q) PROVE q[i].type \in {"SEPARATOR", "ANY", "PATTERN"}
  <2>1. q[i].type \in {"SEPARATOR", "ANY", "WHITESPACE", "PATTERN"}
    BY <1>1 DEF Placed, PatternTypes
  <2>2. q[i].type = "WHITESPACE" => q[i].from \in Plain(s, "sp")
    BY <1>1, <1>2 DEF Placed
  <2>. QED
    BY <1>2, <2>1, <2>2
<1>4. ASSUME NEW i \in 1..(Len(q) - 1), q[i].type # "SEPARATOR", q[i + 1].type # "SEPARATOR" PROVE FALSE
  <2>. DEFINE j == i + 1
              t == q[i].to
  <2>1. i \in 1..Len(q) /\ j \in 1..Len(q)
    BY <1>1
  <2>2. q[j].from = t /\ ~(q[i].type = "PATTERN" /\ q[j].type = "PATTERN")
    BY DEF Runs
  <2>3. t \in Nat /\ t \in lo..hi /\ t \in Body(s) /\ t - 1 \in Body(s)
    <3>. HIDE DEF j
    <3>. QED
      BY <1>2, <2>1, <2>2
  <2>4. t \notin Plain(s, "/") /\ t - 1 \notin Plain(s, "/")
    <3>. HIDE DEF j
    <3>1. t \in Plain(s, "/") => q[j].type = "SEPARATOR"
      BY <1>1, <1>2, <2>1, <2>2, SeparatorIsToken
    <3>2. t - 1 \in Plain(s, "/") => q[i].type = "SEPARATOR"
      BY <1>1, <1>2, <2>1, SeparatorIsToken
    <3>. QED
      BY <1>4, <3>1, <3>2 DEF j
  <2>5. q[j].type # "ANY"
    <3>1. q[j].type = "ANY" => t \in Doubles(s)
      <4>. HIDE DEF j
      <4>. QED
        BY <1>1, <2>1, <2>2 DEF Placed
    <3>. QED
      BY <2>3, <2>4, <3>1 DEF Whole
  <2>6. q[i].type # "ANY"
    <3>. SUFFICES ASSUME q[i].type = "ANY" PROVE FALSE
      OBVIOUS
    <3>. DEFINE f == q[i].from
    <3>1. f \in Nat /\ t = f + 2 /\ f \in Doubles(s)
      BY <1>1, <2>1 DEF Placed
    <3>2. Spaces(s, f + 2) /\ f + 1 \in Plain(s, "*")
      BY <2>4, <3>1 DEF Whole, Doubles
    <3>3. t \in Content(s)
      BY <2>3, BodyFacts
    <3>4. text[t] = "sp"
      BY <2>3, <3>1, <3>2, <3>3 DEF Spaces
    <3>5. t - 1 = f + 1
      BY <3>1
    <3>. HIDE DEF f, t
    <3>6. text[t - 1] # "esc"
      BY <3>2, <3>5 DEF Plain
    <3>7. t \notin Escaped(s)
      BY <2>3, <3>6, EscapedIs
    <3>8. t \in Plain(s, "sp")
      BY <2>3, <3>4, <3>7 DEF Plain
    <3>. QED
      BY <2>3, <3>8
  <2>7. q[i].type = "PATTERN" /\ q[j].type = "PATTERN"
    <3>1. q[j].type # "SEPARATOR"
      BY <1>4
    <3>. HIDE DEF j
    <3>. QED
      BY <1>3, <1>4, <2>1, <2>5, <2>6, <3>1
  <2>. QED
    BY <2>2, <2>7
<1>. QED
  BY <1>3, <1>4 DEF Alternates

\* Where the rest of the tokens begins.
Begin(q, hi, i) == IF i <= Len(q) THEN q[i].from ELSE hi + 1

\* Where a token among them is, and what component it is.
Stands(q, s, lo, hi, i) ==
  /\ q[i].from \in lo..hi /\ q[i].to \in (q[i].from + 1)..hi + 1
  /\ Begin(q, hi, i) = q[i].from /\ Begin(q, hi, i + 1) = q[i].to
  /\ q[i].type = "SEPARATOR" => q[i].from \in Plain(s, "/") /\ q[i].to = q[i].from + 1
  /\ q[i].type # "SEPARATOR" =>
       /\ q[i].to = hi + 1 \/ q[i].to \in Plain(s, "/")
       /\ \A k \in q[i].from..(q[i].to - 1) : k \notin Plain(s, "/")
       /\ q[i].type = "ANY" <=> Word(q[i]) = <<"*", "*">>

LEMMA TokenStands ==
  ASSUME ReadText, NEW s \in LineStarts, NEW a, NEW lo, NEW hi, Spans(s, a, lo, hi),
         NEW q, Runs(q, s, lo, hi), Alternates(q), NEW i \in 1..Len(q)
  PROVE  Stands(q, s, lo, hi, i)
<1>. DEFINE n == Len(q)
            f == q[i].from
            t == q[i].to
<1>1. /\ n \in Nat \ {0} /\ \A j \in 1..n : Within(q, s, lo, hi, j) /\ Placed(s, q[j]) /\ q[j].type # "NEGATION"
      /\ \A j \in 1..(n - 1) : q[j + 1].from = q[j].to
      /\ lo \in Nat /\ hi \in Nat
  BY RunsWithin DEF Runs
<1>2. /\ f \in Nat /\ t \in Nat /\ f < t /\ lo <= f /\ t <= hi + 1
      /\ i = n <=> t = hi + 1
      /\ i = 1 <=> f = lo
  BY <1>1 DEF Within
<1>3. Placed(s, q[i]) /\ q[i].type # "NEGATION"
  BY <1>1
<1>. HIDE DEF n, f, t
<1>4. f \in lo..hi /\ t \in (f + 1)..hi + 1 /\ f \in f..(t - 1)
  BY <1>1, <1>2
<1>5. Begin(q, hi, i) = f /\ Begin(q, hi, i + 1) = t
  <2>1. i <= n /\ i \in Nat
    BY <1>1 DEF n
  <2>2. CASE i = n
    <3>1. ~(i + 1 <= n)
      BY <2>1, <2>2
    <3>. QED
      BY <1>2, <2>1, <2>2, <3>1 DEF Begin, n, f
  <2>3. CASE i # n
    <3>1. i \in 1..(n - 1) /\ i + 1 <= n
      BY <1>1, <2>1, <2>3 DEF n
    <3>. QED
      BY <1>1, <2>1, <3>1 DEF Begin, n, f, t
  <2>. QED
    BY <2>2, <2>3
<1>6. q[i].type = "SEPARATOR" => f \in Plain(s, "/") /\ t = f + 1
  BY <1>3 DEF Placed, f, t
<1>7. ASSUME q[i].type # "SEPARATOR"
      PROVE  /\ t = hi + 1 \/ t \in Plain(s, "/")
             /\ \A k \in f..(t - 1) : k \notin Plain(s, "/")
             /\ q[i].type = "ANY" <=> Word(q[i]) = <<"*", "*">>
  <2>1. t = hi + 1 \/ t \in Plain(s, "/")
    <3>. SUFFICES ASSUME i # n PROVE t \in Plain(s, "/")
      BY <1>2
    <3>. DEFINE j == i + 1
    <3>1. i \in 1..(n - 1) /\ j \in 1..n
      BY <1>1 DEF n
    <3>2. q[j].type = "SEPARATOR" /\ q[j].from = t
      BY <1>1, <1>7, <3>1 DEF Alternates, n, t
    <3>. HIDE DEF j
    <3>. QED
      BY <1>1, <3>1, <3>2 DEF Placed
  <2>2. \A k \in f..(t - 1) : k \notin Plain(s, "/")
    BY <1>3, <1>7, SeparatorIsToken DEF f, t
  <2>3. f = lo \/ f - 1 \in Plain(s, "/")
    <3>. SUFFICES ASSUME i # 1 PROVE f - 1 \in Plain(s, "/")
      BY <1>2
    <3>. DEFINE j == i - 1
    <3>1. j \in 1..(n - 1) /\ j \in 1..n /\ j + 1 = i
      BY <1>1 DEF n
    <3>. HIDE DEF j
    <3>2. q[j].type = "SEPARATOR" /\ f = q[j].to
      BY <1>1, <1>7, <3>1 DEF Alternates, n, f
    <3>. DEFINE g == q[j].from
    <3>3. g \in Nat /\ q[j].to = g + 1 /\ g \in Plain(s, "/")
      BY <1>1, <3>1, <3>2 DEF Placed
    <3>. HIDE DEF g
    <3>4. f - 1 = g
      BY <3>2, <3>3
    <3>. QED
      BY <3>3, <3>4
  <2>4. Word(q[i]) = SubSeq(text, f, t - 1)
    BY DEF Word, f, t
  <2>5. ASSUME Word(q[i]) = <<"*", "*">> PROVE q[i].type = "ANY"
    <3>1. f \in Doubles(s)
      BY <1>4, <2>3, <2>4, <2>5, StarsAt
    <3>. QED
      BY <1>3, <1>4, <3>1, SeparatorIsToken DEF f, t
  <2>6. ASSUME q[i].type = "ANY" PROVE Word(q[i]) = <<"*", "*">>
    <3>. DEFINE w == SubSeq(text, f, f + 1)
    <3>1. t = f + 2 /\ f \in Doubles(s)
      BY <1>3, <2>6 DEF Placed, f, t
    <3>2. text[f] = "*" /\ text[f + 1] = "*"
      BY <3>1 DEF Doubles, Plain
    <3>3. t - 1 = f + 1 /\ f + 1 \in Nat /\ 1 <= f /\ f <= f + 1 /\ f + 1 <= Len(text)
      <4>1. a \in Nat /\ 1 <= a /\ a <= lo /\ hi <= Len(text) /\ Len(text) \in Nat
        BY DEF Spans
      <4>. QED
        BY <1>1, <1>2, <3>1, <4>1, SMTT(60)
    <3>4. w \in Seq(Runes) /\ Len(w) = f + 1 + 1 - f /\ \A k \in 1..(f + 1 + 1 - f) : w[k] = text[f + k - 1]
      BY <1>2, <3>3, SliceIs
    <3>. HIDE DEF w
    <3>5. Len(w) = 2 /\ w[1] = text[f + 1 - 1] /\ w[2] = text[f + 2 - 1]
      <4>1. f + 1 + 1 - f = 2 /\ 1 \in 1..2 /\ 2 \in 1..2
        BY <1>2
      <4>. QED
        BY <3>4, <4>1
    <3>6. f + 1 - 1 = f /\ f + 2 - 1 = f + 1
      BY <1>2
    <3>7. w[1] = "*" /\ w[2] = "*"
      BY <3>2, <3>5, <3>6
    <3>8. w = <<"*", "*">>
      <4>. DEFINE v == <<"*", "*">>
      <4>1. v \in Seq(Runes) /\ Len(v) = 2 /\ v[1] = "*" /\ v[2] = "*"
        BY DEF Runes
      <4>. HIDE DEF v
      <4>2. Len(w) = Len(v) /\ \A k \in 1..Len(w) : w[k] = v[k]
        <5>1. \A k \in 1..2 : k = 1 \/ k = 2
          OBVIOUS
        <5>. QED
          BY <3>5, <3>7, <4>1, <5>1
      <4>3. w = v
        BY <3>4, <4>1, <4>2, SeqEqual
      <4>. QED
        BY <4>3 DEF v
    <3>. QED
      BY <2>4, <3>3, <3>8 DEF w
  <2>. QED
    BY <2>1, <2>2, <2>5, <2>6
<1>. QED
  BY <1>4, <1>5, <1>6, <1>7 DEF f, t, Stands

\* The component of the path after x of them.
LEMMA ComponentOfPath ==
  ASSUME NEW J, NEW parts, NEW st, Spells(J, parts, st), NEW x \in 0..Len(parts)
  PROVE  /\ st[x + 1] \in 1..Len(J) + 2
         /\ st[x + 1] <= Len(J) + 1 <=> x < Len(parts)
         /\ x < Len(parts) => /\ Cut(J, st[x + 1]) + 1 = st[(x + 1) + 1]
                              /\ SubSeq(J, st[x + 1], Cut(J, st[x + 1]) - 1) = parts[x + 1]
<1>. DEFINE n == Len(parts)
            y == x + 1
            N == Len(J)
            j == st[y]
<1>1. /\ n \in Nat /\ N \in Nat /\ x \in 0..n /\ y \in 1..n + 1 /\ (x < n => y \in 1..n) /\ (~(x < n) => y = n + 1)
  BY SpellsFacts
<1>2. j \in Nat /\ 1 <= j /\ j <= N + 2 /\ st[n + 1] = N + 2
  <2>1. y \in 1..Len(parts) + 1
    BY <1>1
  <2>. HIDE DEF y
  <2>. QED
    BY <2>1 DEF Spells, Joins
<1>3. CASE x < n
  <2>1. Sits(J, parts, st, y)
    BY <1>1, <1>3, JoinsAt DEF Spells
  <2>. DEFINE g == st[y + 1]
              l == Len(parts[y])
              k == Cut(J, j)
  <2>2. g \in Nat /\ l \in Nat \ {0} /\ g = j + l + 1 /\ j + l <= N + 1 /\ k = g - 1 /\ SubSeq(J, j, g - 2) = parts[y]
    BY <2>1 DEF Sits
  <2>. HIDE DEF g, l, k, n, N, j
  <2>3. k + 1 = g /\ k - 1 = g - 2 /\ j <= N + 1 /\ j \in 1..N + 2
    BY <1>1, <1>2, <2>2
  <2>4. SubSeq(J, j, k - 1) = parts[y]
    BY <2>2, <2>3
  <2>. QED
    BY <1>3, <2>3, <2>4 DEF g, k, n, N, j
<1>4. CASE ~(x < n)
  <2>1. y = n + 1
    BY <1>1, <1>4
  <2>2. j = N + 2
    BY <1>2, <2>1
  <2>. HIDE DEF n, N, j
  <2>3. j \in 1..N + 2 /\ ~(j <= N + 1)
    BY <1>1, <2>2
  <2>. QED
    BY <1>4, <2>3 DEF n, N, j
<1>. QED
  BY <1>3, <1>4

\* What any.Match does with the token i and the component after x of them.
AnyTurn(m, q, parts, st, i, x) ==
  /\ q[i].type = "SEPARATOR" => (m[<<i, st[x + 1]>>] <=> m[<<i + 1, st[x + 1]>>])
  /\ q[i].type = "ANY" => (m[<<i, st[x + 1]>>] <=>
       m[<<i + 1, st[x + 1]>>] \/ (x < Len(parts) /\ m[<<i, st[(x + 1) + 1]>>]))
  /\ q[i].type = "PATTERN" => (m[<<i, st[x + 1]>>] <=>
       x < Len(parts) /\ Fnmatch(Word(q[i]), parts[x + 1], TRUE) /\ m[<<i + 1, st[(x + 1) + 1]>>])

LEMMA AnyTurns ==
  ASSUME NEW q, Len(q) \in Nat, NEW u, Len(u) = Len(q),
         \A h \in 1..Len(q) : u[h].type = q[h].type /\ u[h].word = Word(q[h]),
         NEW J, NEW parts, NEW st, Spells(J, parts, st), NEW m, AnyFinds(m, u, J),
         NEW x \in 0..Len(parts)
  PROVE  /\ m[<<Len(q) + 1, st[x + 1]>>] <=> x = Len(parts)
         /\ \A i \in 1..Len(q) : AnyTurn(m, q, parts, st, i, x)
<1>. DEFINE n == Len(parts)
            k == Len(q)
            N == Len(J)
            j == st[x + 1]
            g == st[(x + 1) + 1]
            c == Cut(J, j)
<1>1. /\ j \in 1..N + 2 /\ (j <= N + 1 <=> x < n) /\ n \in Nat /\ N \in Nat /\ k \in Nat
      /\ x < n => c + 1 = g /\ SubSeq(J, j, c - 1) = parts[x + 1]
  BY SpellsFacts, ComponentOfPath
<1>2. \A i \in 1..k + 1 : m[<<i, j>>] <=> AnyAtEnd(u, J, i, j) \/ \E y \in AnyOnward(u, J, i, j) : m[y]
  BY <1>1 DEF AnyFinds
<1>. HIDE DEF n, j, g, c
<1>3. m[<<k + 1, j>>] <=> x = n
  <2>1. k + 1 \in 1..k + 1 /\ k + 1 > Len(u)
    BY <1>1
  <2>2. AnyOnward(u, J, k + 1, j) = {}
    BY <2>1 DEF AnyOnward
  <2>3. AnyAtEnd(u, J, k + 1, j) <=> ~(x < n)
    BY <1>1, <2>1 DEF AnyAtEnd
  <2>4. ~(x < n) <=> x = n
    BY <1>1 DEF n
  <2>. QED
    BY <1>2, <2>1, <2>2, <2>3, <2>4
<1>4. ASSUME NEW i \in 1..k PROVE AnyTurn(m, q, parts, st, i, x)
  <2>1. i \in 1..k + 1 /\ ~(i > Len(u))
    BY <1>1
  <2>2. m[<<i, j>>] <=> \E y \in AnyOnward(u, J, i, j) : m[y]
    BY <1>2, <2>1 DEF AnyAtEnd
  <2>3. u[i].type = q[i].type /\ u[i].word = Word(q[i])
    OBVIOUS
  <2>4. ASSUME q[i].type = "SEPARATOR" PROVE m[<<i, j>>] <=> m[<<i + 1, j>>]
    <3>1. AnyOnward(u, J, i, j) = {<<i + 1, j>>}
      BY <2>1, <2>3, <2>4 DEF AnyOnward
    <3>. QED
      BY <2>2, <3>1
  <2>5. ASSUME q[i].type = "ANY" PROVE m[<<i, j>>] <=> m[<<i + 1, j>>] \/ (x < n /\ m[<<i, g>>])
    <3>1. AnyOnward(u, J, i, j) = {<<i + 1, j>>} \cup (IF x < n THEN {<<i, g>>} ELSE {})
      <4>1. AnyOnward(u, J, i, j) = {<<i + 1, j>>} \cup (IF j <= Len(J) + 1 THEN {<<i, c + 1>>} ELSE {})
        BY <2>1, <2>3, <2>5 DEF AnyOnward, c
      <4>. QED
        BY <1>1, <4>1
    <3>. QED
      BY <2>2, <3>1
  <2>6. ASSUME q[i].type = "PATTERN"
        PROVE  m[<<i, j>>] <=> x < n /\ Fnmatch(Word(q[i]), parts[x + 1], TRUE) /\ m[<<i + 1, g>>]
    <3>. DEFINE F(w) == Fnmatch(Word(q[i]), w, TRUE)
    <3>1. AnyOnward(u, J, i, j) = IF j <= Len(J) + 1 /\ F(SubSeq(J, j, c - 1)) THEN {<<i + 1, c + 1>>} ELSE {}
      BY <2>1, <2>3, <2>6 DEF AnyOnward, c
    <3>2. CASE x < n
      <4>1. SubSeq(J, j, c - 1) = parts[x + 1]
        BY <1>1, <3>2
      <4>2. AnyOnward(u, J, i, j) = IF j <= Len(J) + 1 /\ F(parts[x + 1]) THEN {<<i + 1, c + 1>>} ELSE {}
        BY <3>1, <4>1
      <4>. HIDE DEF F
      <4>3. m[<<i, j>>] <=> F(parts[x + 1]) /\ m[<<i + 1, g>>]
        BY <1>1, <2>2, <3>2, <4>2
      <4>. QED
        BY <3>2, <4>3 DEF F
    <3>3. CASE ~(x < n)
      <4>1. AnyOnward(u, J, i, j) = {}
        BY <1>1, <3>1, <3>3
      <4>. QED
        BY <2>2, <3>3, <4>1
    <3>. QED
      BY <3>2, <3>3
  <2>. QED
    BY <2>4, <2>5, <2>6 DEF AnyTurn, n, j, g
<1>. QED
  BY <1>3, <1>4 DEF n, j

\* any.Match and the rule agree at the beginning of a token.
AnyAgrees(m, L, q, hi, parts, st, i) ==
  \A x \in 0..Len(parts) : m[<<i, st[x + 1]>>] <=> <<Begin(q, hi, i), x>> \in L

LEMMA AnyStep ==
  ASSUME ReadText, NoBracket, NEW s \in LineStarts, NEW a, NEW lo, NEW hi, Spans(s, a, lo, hi),
         NEW q, Runs(q, s, lo, hi), Alternates(q),
         NEW J, NEW parts, NEW st, Spells(J, parts, st), NEW L, RuleRests(L, s, lo, hi, parts), NEW m,
         NEW i \in 1..Len(q), \A x \in 0..Len(parts) : AnyTurn(m, q, parts, st, i, x),
         AnyAgrees(m, L, q, hi, parts, st, i + 1)
  PROVE  AnyAgrees(m, L, q, hi, parts, st, i)
<1>. DEFINE n == Len(parts)
            f == q[i].from
            t == q[i].to
            A == {x \in 0..n : m[<<i, st[x + 1]>>] <=> <<f, x>> \in L}
<1>1. lo \in Nat /\ hi \in Nat /\ lo <= hi /\ n \in Nat \ {0} /\ 1 <= lo /\ hi <= Len(text)
  <2>1. a \in Nat /\ 1 <= a /\ a <= lo /\ lo \in Nat
    BY DEF Spans
  <2>2. 1 <= lo
    BY <2>1
  <2>. QED
    BY <2>2, SpellsFacts DEF Spans
<1>2. /\ f \in lo..hi /\ t \in (f + 1)..hi + 1 /\ Begin(q, hi, i) = f /\ Begin(q, hi, i + 1) = t
      /\ q[i].type = "SEPARATOR" => f \in Plain(s, "/") /\ t = f + 1
      /\ q[i].type # "SEPARATOR" =>
           /\ t = hi + 1 \/ t \in Plain(s, "/")
           /\ \A k \in f..(t - 1) : k \notin Plain(s, "/")
           /\ q[i].type = "ANY" <=> Word(q[i]) = <<"*", "*">>
  BY TokenStands DEF Stands
<1>3. \A x \in 0..n : m[<<i + 1, st[x + 1]>>] <=> <<t, x>> \in L
  BY <1>2 DEF AnyAgrees
<1>4. q[i].type \in {"SEPARATOR", "ANY", "PATTERN"}
  BY DEF Alternates
<1>5. Word(q[i]) = SubSeq(text, f, t - 1)
  BY DEF Word
<1>6. q[i].type # "SEPARATOR" => \A x \in 0..n : Over(L, f, t, parts, x)
  <2>. HIDE DEF f, t
  <2>. QED
    BY <1>1, <1>2, RestsOver
<1>. HIDE DEF f, t, n
<1>7. CASE q[i].type = "SEPARATOR"
  <2>1. ASSUME NEW x \in 0..n PROVE m[<<i, st[x + 1]>>] <=> <<f, x>> \in L
    <3>1. m[<<i, st[x + 1]>>] <=> m[<<i + 1, st[x + 1]>>]
      BY <1>7 DEF AnyTurn, n
    <3>2. <<f, x>> \in L <=> <<f + 1, x>> \in L
      BY <1>1, <1>2, <1>7, RestsPass DEF n
    <3>. QED
      BY <1>2, <1>3, <1>7, <3>1, <3>2
  <2>. QED
    BY <1>2, <2>1 DEF AnyAgrees, n
<1>8. CASE q[i].type = "PATTERN"
  <2>. DEFINE w == SubSeq(text, f, t - 1)
  <2>0. w \in Seq(Runes \cup DOMAIN Code) /\ \A k \in 1..Len(w) : w[k] # "["
    <3>. DEFINE g == t - 1
    <3>1. f \in Nat /\ g \in Nat /\ 1 <= f /\ f <= g /\ g <= Len(text)
      <4>1. Len(text) \in Nat
        BY TextFacts
      <4>. QED
        BY <1>1, <1>2, <4>1, SMTT(60)
    <3>. HIDE DEF g
    <3>2. /\ SubSeq(text, f, g) \in Seq(Runes \cup DOMAIN Code)
          /\ \A k \in 1..Len(SubSeq(text, f, g)) : SubSeq(text, f, g)[k] # "["
      BY <3>1, SliceIs
    <3>. QED
      BY <3>2 DEF g
  <2>. HIDE DEF w
  <2>1. ASSUME NEW x \in 0..n PROVE m[<<i, st[x + 1]>>] <=> <<f, x>> \in L
    <3>1. m[<<i, st[x + 1]>>] <=> x < n /\ Fnmatch(w, parts[x + 1], TRUE) /\ m[<<i + 1, st[(x + 1) + 1]>>]
      BY <1>5, <1>8 DEF AnyTurn, n, w
    <3>2. w # <<"*", "*">>
      BY <1>2, <1>5, <1>8 DEF w
    <3>3. <<f, x>> \in L <=> x < n /\ Globs(w, parts[x + 1]) /\ <<t, x + 1>> \in L
      BY <1>6, <1>8, <3>2 DEF Over, n, w
    <3>4. ASSUME x < n PROVE Fnmatch(w, parts[x + 1], TRUE) <=> Globs(w, parts[x + 1])
      <4>1. x + 1 \in 1..n
        BY <1>1, <3>4
      <4>. DEFINE v == parts[x + 1]
      <4>2. v \in Seq(Runes \cup DOMAIN Code) /\ \A k \in 1..Len(v) : v[k] # "/"
        BY <4>1, SpellsFacts DEF n
      <4>. HIDE DEF v
      <4>3. Fnmatch(w, v, TRUE) <=> Globs(w, v)
        BY <2>0, <4>2, FnmatchIsGlob
      <4>. QED
        BY <4>3 DEF v
    <3>5. x < n => (m[<<i + 1, st[(x + 1) + 1]>>] <=> <<t, x + 1>> \in L)
      <4>1. x < n => x + 1 \in 0..n
        BY <1>1
      <4>. QED
        BY <1>3, <4>1
    <3>. QED
      BY <3>1, <3>3, <3>4, <3>5
  <2>. QED
    BY <1>2, <2>1 DEF AnyAgrees, n
<1>9. CASE q[i].type = "ANY"
  <2>1. \A x \in 0..n : m[<<i, st[x + 1]>>] <=>
          m[<<i + 1, st[x + 1]>>] \/ (x < n /\ m[<<i, st[(x + 1) + 1]>>])
    BY <1>9 DEF AnyTurn, n
  <2>2. \A x \in 0..n : <<f, x>> \in L <=> \E y \in x..n : <<t, y>> \in L
    BY <1>2, <1>5, <1>6, <1>9 DEF Over, n
  <2>3. ASSUME NEW x \in 0..n, \A h \in (x + 1)..n : h \in A PROVE x \in A
    <3>1. m[<<i, st[x + 1]>>] <=> <<t, x>> \in L \/ (x < n /\ m[<<i, st[(x + 1) + 1]>>])
      BY <1>3, <2>1
    <3>2. x < n => (m[<<i, st[(x + 1) + 1]>>] <=> \E y \in (x + 1)..n : <<t, y>> \in L)
      <4>. SUFFICES ASSUME x < n PROVE m[<<i, st[(x + 1) + 1]>>] <=> \E y \in (x + 1)..n : <<t, y>> \in L
        OBVIOUS
      <4>. DEFINE h == x + 1
      <4>1. h \in (x + 1)..n /\ h \in 0..n
        BY <1>1
      <4>. HIDE DEF h
      <4>2. m[<<i, st[h + 1]>>] <=> <<f, h>> \in L
        BY <2>3, <4>1
      <4>3. <<f, h>> \in L <=> \E y \in h..n : <<t, y>> \in L
        BY <2>2, <4>1
      <4>. QED
        BY <4>2, <4>3 DEF h
    <3>3. (\E y \in x..n : <<t, y>> \in L) <=> <<t, x>> \in L \/ (x < n /\ \E y \in (x + 1)..n : <<t, y>> \in L)
      <4>1. \A y : y \in x..n <=> y = x \/ (x < n /\ y \in (x + 1)..n)
        BY <1>1
      <4>. QED
        BY <4>1
    <3>4. <<f, x>> \in L <=> <<t, x>> \in L \/ (x < n /\ \E y \in (x + 1)..n : <<t, y>> \in L)
      BY <2>2, <3>3
    <3>. QED
      BY <3>1, <3>2, <3>4
  <2>4. \A x \in 0..n : x \in A
    <3>. HIDE DEF A
    <3>. QED
      BY <1>1, <2>3, Downward
  <2>. QED
    BY <1>2, <2>4 DEF AnyAgrees, n
<1>. QED
  BY <1>4, <1>7, <1>8, <1>9

\* A line with a double star.
LEMMA AnyLine ==
  ASSUME ReadText, NoBracket, NEW s \in LineStarts, NEW a, NEW lo, NEW hi, Spans(s, a, lo, hi),
         NEW c, NEW q, Reads(c, q, s), c.kind = "any",
         \A i \in Doubles(s) : Whole(s, i), \A k \in lo..hi : k \notin Plain(s, "sp"),
         NEW J, NEW parts, NEW st, Spells(J, parts, st), NEW L, RuleRests(L, s, lo, hi, parts)
  PROVE  AnyMatch(c, J) <=>
           \E x \in 0..Len(parts) :
             <<lo, x>> \in L /\ (a \in Plain(s, "/") \/ (\E k \in lo..hi : k \in Plain(s, "/")) => x = 0)
<1>. DEFINE n == Len(parts)
            u == c.tokens
            len == Len(q)
            top == a \in Plain(s, "/") \/ (\E k \in lo..hi : k \in Plain(s, "/"))
<1>1. lo = Low(s) /\ hi = High(s) /\ lo \in Nat /\ hi \in Nat /\ lo <= hi /\ n \in Nat \ {0}
  BY SpellsFacts DEF Spans
<1>2. /\ Runs(q, s, lo, hi) /\ len \in Nat \ {0} /\ Len(u) = len
      /\ \A i \in 1..len : u[i].type = q[i].type /\ u[i].word = Word(q[i])
      /\ \E k \in lo..hi : k \in Doubles(s)
  BY <1>1, ReadsTokens
<1>3. Alternates(q)
  BY <1>2, AlternatesIs
<1>4. Len(J) \in Nat /\ st[1] = 1
  BY SpellsFacts DEF Spells, Joins
<1>5. PICK m : AnyFinds(m, u, J) /\ (AnyMatch(c, J) <=> m[<<1, 1>>])
  BY <1>2, <1>4, AnyUnfolds
<1>6. \A x \in 0..n : /\ m[<<len + 1, st[x + 1]>>] <=> x = n
                      /\ \A i \in 1..len : AnyTurn(m, q, parts, st, i, x)
  <2>. HIDE DEF u
  <2>. QED
    BY <1>2, <1>5, AnyTurns
<1>. DEFINE S == {i \in 1..len + 1 : AnyAgrees(m, L, q, hi, parts, st, i)}
<1>7. len + 1 \in S
  <2>1. Begin(q, hi, len + 1) = hi + 1
    BY <1>2 DEF Begin
  <2>2. \A x \in 0..n : <<hi + 1, x>> \in L <=> x = n
    BY <1>1, RestsEnd
  <2>. QED
    BY <1>2, <1>6, <2>1, <2>2 DEF AnyAgrees
<1>8. ASSUME NEW i \in 1..len + 1, \A h \in (i + 1)..len + 1 : h \in S PROVE i \in S
  <2>1. CASE i = len + 1
    BY <1>7, <2>1
  <2>2. CASE i # len + 1
    <3>1. i \in 1..len /\ i + 1 \in (i + 1)..len + 1
      BY <1>2, <2>2
    <3>2. AnyAgrees(m, L, q, hi, parts, st, i + 1)
      BY <1>8, <3>1
    <3>3. AnyAgrees(m, L, q, hi, parts, st, i)
      BY <1>2, <1>3, <1>6, <3>1, <3>2, AnyStep
    <3>. QED
      BY <3>3
  <2>. QED
    BY <2>1, <2>2
<1>9. \A i \in 1..len + 1 : i \in S
  <2>1. 1 \in Nat /\ len + 1 \in Nat
    BY <1>2
  <2>. HIDE DEF S
  <2>. QED
    BY <1>8, <2>1, Downward
<1>10. m[<<1, 1>>] <=> <<lo, 0>> \in L
  <2>1. 1 \in S /\ 0 \in 0..n /\ 0 + 1 = 1
    BY <1>1, <1>2, <1>9
  <2>2. Begin(q, hi, 1) = lo
    BY <1>2 DEF Begin, Runs
  <2>3. m[<<1, st[0 + 1]>>] <=> <<Begin(q, hi, 1), 0>> \in L
    BY <2>1 DEF AnyAgrees
  <2>. QED
    BY <1>4, <2>1, <2>2, <2>3
<1>11. ~top => \A x \in 0..n : <<lo, x>> \in L => <<lo, 0>> \in L
  <2>. SUFFICES ASSUME ~top, NEW x \in 0..n, <<lo, x>> \in L PROVE <<lo, 0>> \in L
    OBVIOUS
  <2>1. \A i \in 1..len : q[i].type # "SEPARATOR"
    BY <1>2, RunsTypes
  <2>2. len = 1
    <3>1. len # 1 => 1 \in 1..(len - 1) /\ 1 \in 1..len /\ 1 + 1 \in 1..len
      <4>. HIDE DEF len
      <4>. QED
        BY <1>2
    <3>. QED
      BY <1>3, <2>1, <3>1 DEF Alternates
  <2>3. q[1].type = "ANY" /\ 1 \in 1..len
    <3>1. \E i \in 1..len : q[i].type = "ANY"
      BY <1>2, RunsTypes
    <3>2. \A i \in 1..len : i = 1
      BY <2>2
    <3>. QED
      BY <2>2, <3>1, <3>2
  <2>4. Stands(q, s, lo, hi, 1)
    BY <1>2, <1>3, <2>3, TokenStands
  <2>. DEFINE f == q[1].from
              t == q[1].to
  <2>5. f = lo /\ t \in (f + 1)..hi + 1 /\ (t = hi + 1 \/ t \in Plain(s, "/")) /\ Word(q[1]) = <<"*", "*">>
        /\ f \in lo..hi /\ \A k \in f..(t - 1) : k \notin Plain(s, "/")
    BY <1>2, <2>3, <2>4 DEF Stands, Runs
  <2>6. SubSeq(text, f, t - 1) = <<"*", "*">>
    BY <2>5 DEF Word
  <2>. HIDE DEF f, t
  <2>7. \A y \in 0..n : Over(L, f, t, parts, y)
    BY <1>1, <2>5, RestsOver
  <2>8. \A y \in 0..n : <<f, y>> \in L <=> \E z \in y..n : <<t, z>> \in L
    BY <2>6, <2>7 DEF Over
  <2>9. \A z \in x..n : z \in 0..n
    BY <1>1
  <2>10. 0 \in 0..n
    BY <1>1
  <2>. QED
    BY <2>5, <2>8, <2>9, <2>10
<1>12. 0 \in 0..n
  BY <1>1
<1>. HIDE DEF top
<1>13. (\E x \in 0..n : <<lo, x>> \in L /\ (top => x = 0)) <=> <<lo, 0>> \in L
  BY <1>11, <1>12
<1>. QED
  BY <1>5, <1>10, <1>13 DEF top

-----------------------------------------------------------------------------
(* The pattern of a line and its rule                                      *)

\* A separator alone matches nothing, and no rule has it match.
LEMMA LoneRule ==
  ASSUME ReadText, NEW s \in LineStarts, NEW a, a = Opens(s), NEW z, z = Ends(s) - 1, Ends(s) \in Nat,
         a \in Nat, z \in Nat, a <= z, \A k \in a..z : k \in Body(s), Lone(s), NEW parts, NEW isdir
  PROVE  ~RuleMatches(s, parts, isdir)
<1>1. Expression(s) = a..z /\ Max(Expression(s)) = z
  BY ExpressionIs
<1>2. a = z /\ z \in Plain(s, "/")
  BY DEF Lone
<1>3. Inner(s) = {}
  BY <1>1, <1>2 DEF Inner
<1>4. RuleMatches(s, parts, isdir) => Inner(s) \ Plain(s, "/") # {}
  BY DEF RuleMatches, Inner, Expression
<1>. QED
  BY <1>3, <1>4

\* Whatever kind of pattern is made of a line, a name with its fast paths, a path for
\* fnmatch or a pattern with "**" that is matched token by token, it matches the paths
\* that the rule says of the runes of the line: for every line without brackets that
\* is not Torn and every path below the base.
THEOREM LineMatches ==
  ASSUME ReadText, NoBracket, NEW p, p.tokens \in Seq(Part), Collected(p), NEW s, s = p.from, s \in Fine,
         p.to = Ends(s), ~Torn(s), NEW parts \in Path, parts # <<>>, NEW isdir
  PROVE  Matches(Compiled(p), Joined(parts), isdir) <=> RuleMatches(s, parts, isdir)
<1>. DEFINE c == Compiled(p)
            J == Joined(parts)
            a == Opens(s)
            z == Ends(s) - 1
            lo == Low(s)
            hi == High(s)
<1>1. s \in LineStarts /\ ~Malformed(s) /\ ~Silent(s)
  BY DEF Fine
<1>2. Apart(s)
  BY DEF Torn, Apart
<1>3. /\ a \in Nat /\ Ends(s) \in Nat /\ z \in Nat /\ a <= z
      /\ \A k \in a..z : k \in Body(s)
      /\ c.directory <=> z \in Plain(s, "/") /\ ~Lone(s)
      /\ c.anchored <=> a \in Plain(s, "/")
      /\ Lone(s) => c.kind = "name" /\ c.fnmatch = <<>>
      /\ ~Lone(s) => \E q : Reads(c, q, s)
  BY <1>2, PatternOfLine
<1>4. PICK st : Spells(J, parts, st)
  <2>1. J \in Seq(Runes \cup DOMAIN Code) /\ \E st : Joins(J, parts, st)
    BY JoinedIs
  <2>2. \A y \in 1..Len(parts) : parts[y] \in Seq(Runes \cup DOMAIN Code)
    BY DEF Path, Component
  <2>. QED
    BY <2>1, <2>2 DEF Spells
<1>5. Len(parts) \in Nat
  BY <1>4, SpellsFacts
<1>. HIDE DEF c, J
<1>6. CASE Lone(s)
  <2>1. ~RuleMatches(s, parts, isdir)
    BY <1>1, <1>3, <1>6, LoneRule
  <2>2. ~NameMatch(c, J)
    BY <1>3, <1>4, <1>6, LoneName
  <2>3. ~Matches(c, J, isdir)
    BY <1>3, <1>6, <2>2 DEF Matches
  <2>. QED
    BY <2>1, <2>3 DEF c, J
<1>7. CASE ~Lone(s)
  <2>1. PICK q : Reads(c, q, s)
    BY <1>3, <1>7
  <2>2. Expressed(s, a, z)
    BY <1>2, <1>3, <1>7 DEF Expressed
  <2>3. Spans(s, a, lo, hi)
    <3>. HIDE DEF a, z
    <3>. QED
      BY <1>1, <2>2, SpansIs
  <2>4. PICK L : RuleSays(L, s, a, z, lo, hi, parts, isdir)
    <3>. HIDE DEF a, z, lo, hi
    <3>. QED
      BY <1>1, <1>5, <2>2, <2>3, RulesFrom
  <2>. DEFINE R == \E x \in 0..Len(parts) :
                     <<lo, x>> \in L /\ (a \in Plain(s, "/") \/ (\E k \in lo..hi : k \in Plain(s, "/")) => x = 0)
  <2>5. RuleRests(L, s, lo, hi, parts) /\ (RuleMatches(s, parts, isdir) <=> (z \in Plain(s, "/") => isdir) /\ R)
    <3>. HIDE DEF a, z, lo, hi
    <3>. QED
      BY <2>4 DEF RuleSays
  <2>6. /\ c.kind \in {"name", "path", "any"}
        /\ c.kind = "any" <=> \E k \in lo..hi : k \in Doubles(s)
        /\ c.kind = "path" => /\ \E k \in lo..hi : k \in Plain(s, "/")
                              /\ \A k \in lo..hi : k \notin Doubles(s)
    BY <1>1, <2>1, ReadsTokens
  <2>7. c.fnmatch = SubSeq(text, lo, hi)
    BY <2>1 DEF Reads
  <2>8. \A k \in lo..hi : k < Ends(s)
    <3>. DEFINE e == Ends(s)
    <3>1. hi \in Nat /\ hi <= z
      <4>1. Ends(s) \in Nat /\ a \in Nat /\ z \in Nat /\ a <= z
        BY <1>3
      <4>. QED
        BY <1>2, <1>7, <4>1, HighIs
    <3>2. e \in Nat /\ z = e - 1 /\ lo \in Nat
      BY <1>3, <2>3 DEF Spans
    <3>. HIDE DEF e, z, lo, hi
    <3>3. \A k \in lo..hi : k < e
      BY <3>1, <3>2
    <3>. QED
      BY <3>3 DEF e
  <2>. HIDE DEF a, z, lo, hi
  <2>9. CASE c.kind = "name"
    <3>1. NameMatch(c, J) <=> R
      BY <1>1, <1>3, <1>4, <2>1, <2>3, <2>5, <2>9, NameLine
    <3>2. Matches(c, J, isdir) <=> (c.directory => isdir) /\ NameMatch(c, J)
      BY <2>9 DEF Matches
    <3>. HIDE DEF R
    <3>. QED
      BY <1>3, <1>7, <2>5, <3>1, <3>2 DEF c, J
  <2>10. CASE c.kind = "path"
    <3>1. \A k \in Escaped(s) : text[k] # "/"
      BY <2>6, <2>10 DEF Torn
    <3>2. PathMatch(c, J) <=> R
      BY <1>1, <1>4, <2>3, <2>5, <2>6, <2>7, <2>10, <3>1, PathLine
    <3>3. Matches(c, J, isdir) <=> (c.directory => isdir) /\ PathMatch(c, J)
      BY <2>10 DEF Matches
    <3>. HIDE DEF R
    <3>. QED
      BY <1>3, <1>7, <2>5, <3>2, <3>3 DEF c, J
  <2>11. CASE c.kind = "any"
    <3>1. \A k \in lo..hi : k \notin Plain(s, "sp")
      BY <2>6, <2>8, <2>11 DEF Torn
    <3>2. \A i \in Doubles(s) : Whole(s, i)
      BY <1>1 DEF Malformed, Silent
    <3>3. AnyMatch(c, J) <=> R
      BY <1>1, <1>4, <2>1, <2>3, <2>5, <2>11, <3>1, <3>2, AnyLine
    <3>4. Matches(c, J, isdir) <=> (c.directory => isdir) /\ AnyMatch(c, J)
      BY <2>11 DEF Matches
    <3>. HIDE DEF R
    <3>. QED
      BY <1>3, <1>7, <2>5, <3>3, <3>4 DEF c, J
  <2>. QED
    BY <2>6, <2>9, <2>10, <2>11
<1>. QED
  BY <1>6, <1>7

-----------------------------------------------------------------------------
(* The answers                                                             *)

\* What is collected in the end is what the lines hold.
LEMMA CollectedIs ==
  ASSUME ParserInv, PatternsInv, mode = "done"
  PROVE  /\ Len(patterns) \in Nat /\ DOMAIN patterns = 1..Len(patterns)
         /\ \A i \in 1..Len(patterns) :
              /\ patterns[i].from \in Fine /\ patterns[i].to = Ends(patterns[i].from)
              /\ patterns[i].line \in Nat /\ patterns[i].tokens \in Seq(Part)
              /\ Place(patterns[i]) \in Expected
         /\ \A q \in Expected : \E i \in 1..Len(patterns) : q = Place(patterns[i])
         /\ \A i, j \in 1..Len(patterns) : i < j => patterns[i].line < patterns[j].line
<1>1. Len(patterns) \in Nat /\ DOMAIN patterns = 1..Len(patterns)
  BY LenProperties DEF ParserInv
<1>2. {Place(p) : p \in ToSet(patterns)} = {p \in Expected : mode = "done" \/ \E i \in DOMAIN patterns : p.line <= patterns[i].line}
      /\ \A i, j \in DOMAIN patterns : i < j => patterns[i].line < patterns[j].line
  BY PatternsFollow DEF PatternsFollowLines
<1>3. {Place(p) : p \in ToSet(patterns)} = Expected
  BY <1>2
<1>4. ToSet(patterns) = {patterns[i] : i \in 1..Len(patterns)}
  BY <1>1 DEF ToSet
<1>5. \A q : q \in Expected <=> \E i \in 1..Len(patterns) : q = Place(patterns[i])
  BY <1>3, <1>4
<1>6. ReadText
  BY DEF ParserInv, LexerInv
<1>7. ASSUME NEW i \in 1..Len(patterns)
      PROVE  /\ patterns[i].from \in Fine /\ patterns[i].to = Ends(patterns[i].from)
             /\ patterns[i].line \in Nat /\ patterns[i].tokens \in Seq(Part)
  <2>1. PICK t \in Fine : Place(patterns[i]) = Holds(t)
    BY <1>5 DEF Expected, Fine, Holds
  <2>2. Place(patterns[i]).from = t /\ Place(patterns[i]).to = Ends(t)
    BY <2>1 DEF Holds
  <2>3. Place(patterns[i]).line = LineNumber(t)
    BY <2>1 DEF Holds
  <2>4. patterns[i].from = t /\ patterns[i].to = Ends(t) /\ patterns[i].line = LineNumber(t)
    BY <2>2, <2>3 DEF Place
  <2>5. LineNumber(t) \in Nat
    BY <1>6, NumbersAre
  <2>6. patterns[i] \in Built
    BY ElementOfSeq DEF ParserInv
  <2>7. patterns[i].tokens \in Seq(Part)
    BY <2>6 DEF Built
  <2>. QED
    BY <2>4, <2>5, <2>7
<1>8. \A i \in 1..Len(patterns) : Place(patterns[i]) \in Expected
  BY <1>5
<1>9. \A q \in Expected : \E i \in 1..Len(patterns) : q = Place(patterns[i])
  BY <1>5
<1>. QED
  BY <1>1, <1>2, <1>7, <1>8, <1>9

\* A pattern matches what the line it was made of says.
LEMMA PatternMatches ==
  ASSUME ParserInv, PatternsInv, TokensInv, mode = "done", NoBracket,
         \A s \in LineStarts : ~Silent(s) => ~Torn(s),
         NEW parts \in Path, parts # <<>>, NEW isdir, NEW i \in 1..Len(patterns)
  PROVE  Matches(Compiled(patterns[i]), Joined(parts), isdir) <=> RuleMatches(patterns[i].from, parts, isdir)
<1>. DEFINE p == patterns[i]
            s == patterns[i].from
<1>1. ReadText
  BY DEF ParserInv, LexerInv
<1>2. s \in Fine /\ p.to = Ends(s) /\ p.tokens \in Seq(Part)
  BY CollectedIs
<1>3. Collected(p)
  <2>1. DOMAIN patterns = 1..Len(patterns)
    BY CollectedIs
  <2>. QED
    BY <2>1 DEF TokensInv
<1>4. ~Torn(s)
  BY <1>2 DEF Fine
<1>5. s = p.from
  OBVIOUS
<1>. HIDE DEF p, s
<1>6. Matches(Compiled(p), Joined(parts), isdir) <=> RuleMatches(s, parts, isdir)
  BY <1>1, <1>2, <1>3, <1>4, <1>5, LineMatches
<1>. QED
  BY <1>6 DEF p, s

\* The last pattern that matches is of the last line whose rule does.
LEMMA RulingIs ==
  ASSUME ParserInv, PatternsInv, TokensInv, mode = "done", NoBracket,
         \A s \in LineStarts : ~Silent(s) => ~Torn(s),
         NEW parts \in Path, parts # <<>>, NEW isdir, NEW r, r = Relative(Joined(parts), isdir)
  PROVE  Ruling(parts, isdir) = IF r = 0 THEN 0 ELSE patterns[r].line
<1>. DEFINE n == Len(patterns)
            T == {0} \cup {i \in DOMAIN patterns : Matches(Compiled(patterns[i]), Joined(parts), isdir)}
            U == {0} \cup {p.line : p \in {q \in Expected : RuleMatches(q.from, parts, isdir)}}
            x == IF r = 0 THEN 0 ELSE patterns[r].line
<1>1. /\ n \in Nat /\ DOMAIN patterns = 1..n
      /\ \A i \in 1..n : patterns[i].line \in Nat /\ Place(patterns[i]) \in Expected
      /\ \A q \in Expected : \E i \in 1..n : q = Place(patterns[i])
      /\ \A i, j \in 1..n : i < j => patterns[i].line < patterns[j].line
  BY CollectedIs
<1>2. \A i \in 1..n : Matches(Compiled(patterns[i]), Joined(parts), isdir)
                      <=> RuleMatches(patterns[i].from, parts, isdir)
  BY PatternMatches
<1>3. r \in T /\ \A m \in T : m <= r
  <2>1. T \subseteq 0..n /\ T # {}
    BY <1>1
  <2>2. r = Max(T)
    BY DEF Relative
  <2>. HIDE DEF T, n
  <2>. QED
    BY <1>1, <2>1, <2>2, MaxOf
<1>4. \A u : u \in U <=> u = 0 \/ \E i \in 1..n : RuleMatches(patterns[i].from, parts, isdir)
                                                 /\ u = patterns[i].line
  <2>1. \A i \in 1..n : /\ Place(patterns[i]).from = patterns[i].from
                        /\ Place(patterns[i]).line = patterns[i].line
    BY DEF Place
  <2>. QED
    BY <1>1, <2>1
<1>5. \A i : i \in T <=> i = 0 \/ (i \in 1..n /\ RuleMatches(patterns[i].from, parts, isdir))
  BY <1>1, <1>2
<1>6. Ruling(parts, isdir) = Max(U)
  BY DEF Ruling
<1>. HIDE DEF T, U, n
<1>7. U \subseteq Int
  BY <1>1, <1>4
<1>8. x \in U
  BY <1>3, <1>4, <1>5
<1>9. \A u \in U : u <= x
  <2>. SUFFICES ASSUME NEW u \in U PROVE u <= x
    OBVIOUS
  <2>1. CASE u = 0
    BY <1>1, <1>3, <1>5, <2>1
  <2>2. CASE u # 0
    <3>1. PICK i \in 1..n : RuleMatches(patterns[i].from, parts, isdir) /\ u = patterns[i].line
      BY <1>4, <2>2
    <3>2. i \in T /\ i <= r /\ r \in 1..n
      BY <1>1, <1>3, <1>5, <3>1, SMTT(60)
    <3>3. i < r => patterns[i].line < patterns[r].line
      BY <1>1, <3>2
    <3>4. patterns[i].line \in Nat /\ patterns[r].line \in Nat
      BY <1>1, <3>2
    <3>5. i = r \/ i < r
      BY <1>1, <3>2
    <3>6. x = patterns[r].line
      BY <1>1, <3>2
    <3>. QED
      BY <3>1, <3>3, <3>4, <3>5, <3>6
  <2>. QED
    BY <2>1, <2>2
<1>. HIDE DEF x
<1>10. Max(U) = x
  BY <1>7, <1>8, <1>9, MaxIs
<1>. QED
  BY <1>6, <1>10 DEF x

-----------------------------------------------------------------------------
(* From the file to the answer                                             *)

\* An answer is the one there is for the path and the question, which nothing
\* changes until the next.
AnswersInv ==
  /\ FileInv /\ LinesInv /\ PatternsInv /\ TokensInv
  /\ text \in Texts
  /\ Decided => answer = Absolute(path, call.isdir)

LEMMA AnswersInvInit == FileInit => AnswersInv
<1>. SUFFICES ASSUME FileInit PROVE AnswersInv
  OBVIOUS
<1>1. Init /\ stage = "start" /\ text \in Texts
  BY DEF FileInit, Init
<1>. QED
  BY <1>1, FileInvInit, LinesInit, PatternsInit, TokensInit DEF AnswersInv, Decided

LEMMA AnswersInvStep ==
  ASSUME AnswersInv, [FileNext]_fileVars
  PROVE  AnswersInv'
<1>1. FileInv' /\ FileInv /\ ParserInv /\ LinesInv /\ PatternsInv /\ TokensInv
  BY FileInvStep DEF AnswersInv, FileInv
<1>2. CASE Read
  <2>1. Parse /\ text' = text /\ stage' # "answered"
    BY <1>2 DEF Read, Parse, Top, AfterNegation, AfterSeparator, AfterAny, AfterPattern, LineEnds, Skip
  <2>. QED
    BY <1>1, <2>1, LinesStep, PatternsStep, TokensStep DEF AnswersInv, Decided
<1>3. ASSUME UNCHANGED vars PROVE LinesInv' /\ PatternsInv' /\ TokensInv' /\ text' \in Texts
  <2>1. text' = text
    BY <1>3 DEF vars
  <2>. QED
    BY <1>1, <1>3, <2>1, LinesStutter, PatternsStutter, TokensStutter DEF AnswersInv
<1>4. CASE UNCHANGED fileVars \/ CallFind \/ Find \/ Open \/ Ask \/ Resolve \/ Chdir \/ Stopped
  <2>1. UNCHANGED vars
    BY <1>4 DEF CallFind, Find, Open, Ask, Resolve, Chdir, Stopped, fileVars
  <2>2. CASE UNCHANGED fileVars \/ Chdir \/ Stopped
    <3>1. UNCHANGED <<stage, path, answer, call, base>>
      BY <2>2 DEF Chdir, Stopped, fileVars, asking, finding
    <3>2. Absolute(path, call.isdir)' = Absolute(path, call.isdir)
      BY <2>1, <3>1 DEF Absolute, Under, RelativeToBase, Relative, Compiled, Word, vars
    <3>. QED
      BY <1>1, <1>3, <2>1, <3>1, <3>2 DEF AnswersInv, Decided
  <2>3. CASE CallFind \/ Find \/ Open \/ Ask \/ Resolve
    <3>1. stage' # "answered" \/ path' = None
      BY <2>3 DEF CallFind, Find, Open, Ask, Resolve, Unanswered
    <3>. QED
      BY <1>1, <1>3, <2>1, <3>1 DEF AnswersInv, Decided
  <2>. QED
    BY <1>4, <2>2, <2>3
<1>5. CASE Stat \/ Lookup \/ Store
  <2>1. UNCHANGED vars /\ base' = base /\ call' = call
    BY <1>5 DEF Stat, Lookup, Store, finding
  <2>2. Decided' => answer' = Absolute(path', call.isdir)
    BY <1>5 DEF Stat, Lookup, Store, Answered, Unanswered, Decided
  <2>3. Absolute(path, call.isdir)' = Absolute(path', call.isdir)
    BY <2>1 DEF Absolute, Under, RelativeToBase, Relative, Compiled, Word, vars
  <2>. QED
    BY <1>1, <1>3, <2>1, <2>2, <2>3 DEF AnswersInv
<1>. QED
  BY <1>2, <1>4, <1>5 DEF FileNext

\* What is left of a path below the base.
LEMMA RestIs ==
  ASSUME NEW b \in Path, NEW p \in Path, IsPrefix(b, p), p # b
  PROVE  SubSeq(p, Len(b) + 1, Len(p)) \in Path /\ SubSeq(p, Len(b) + 1, Len(p)) # <<>>
<1>. DEFINE m == Len(b)
            n == Len(p)
            rest == SubSeq(p, m + 1, n)
<1>1. m \in Nat /\ n \in Nat
  BY LenProperties DEF Path
<1>2. m <= n /\ \A i \in 1..m : b[i] = p[i]
  BY PrefixIs
<1>3. m # n
  BY <1>2, SeqEqual DEF Path
<1>4. \A i \in (m + 1)..n : p[i] \in Component
  BY <1>1, ElementOfSeq DEF Path
<1>5. m + 1 \in Int /\ m + 1 <= n
  <2>. HIDE DEF m, n
  <2>. QED
    BY <1>1, <1>2, <1>3
<1>. HIDE DEF m, n
<1>6. rest \in Seq(Component) /\ Len(rest) = n - (m + 1) + 1
  BY <1>1, <1>4, <1>5, SubSeqProperties
<1>7. Len(rest) # 0
  BY <1>1, <1>5, <1>6
<1>8. rest \in Path /\ rest # <<>>
  BY <1>6, <1>7, EmptySeq DEF Path
<1>. QED
  BY <1>8 DEF m, n

LEMMA AnswersFollow == AnswersInv /\ NoBracket => AnswersFollowRules
<1>. SUFFICES ASSUME AnswersInv, NoBracket, Decided, path # base,
                     \A s \in LineStarts : ~Silent(s) => ~Torn(s)
              PROVE  RulingLine = IF answer = 0 THEN 0 ELSE patterns[answer].line
  BY DEF AnswersFollowRules
<1>1. /\ ParserInv /\ PatternsInv /\ TokensInv /\ mode = "done"
      /\ path \in Path /\ base \in Path
      /\ answer = Absolute(path, call.isdir)
  BY FileAssumption DEF AnswersInv, FileInv, Decided
<1>2. CASE ~Under(path)
  BY <1>1, <1>2 DEF RulingLine, Below, Absolute
<1>3. CASE Under(path)
  <2>. DEFINE parts == SubSeq(path, Len(base) + 1, Len(path))
              isdir == call.isdir
  <2>1. parts \in Path /\ parts # <<>>
    BY <1>1, <1>3, RestIs DEF Under
  <2>2. answer = Relative(Joined(parts), isdir)
    BY <1>1, <1>3 DEF Absolute, RelativeToBase
  <2>3. RulingLine = Ruling(parts, isdir)
    BY <1>3 DEF RulingLine, Below
  <2>. HIDE DEF parts, isdir
  <2>4. Ruling(parts, isdir) = IF answer = 0 THEN 0 ELSE patterns[answer].line
    BY <1>1, <2>1, <2>2, RulingIs
  <2>. QED
    BY <2>3, <2>4
<1>. QED
  BY <1>2, <1>3

\* Match and MatchIsDir answer by the last line whose rule matches the path below the
\* base, and by none for a path that is not below it: reading the file, telling the
\* kinds of pattern apart, the fast paths for a name, fnmatch for a path, the
\* backtracking over "**" and the choice of the last pattern say together what the
\* rules say of the runes of the lines, for every text without brackets.
THEOREM AnswersCorrect == FileSpec => [](NoBracket => AnswersFollowRules)
<1>1. AnswersInv => (NoBracket => AnswersFollowRules)
  BY AnswersFollow
<1>. QED
  BY <1>1, AnswersInvInit, AnswersInvStep, PTL DEF FileSpec
=============================================================================
