----------------------------- MODULE IgnoreFile -----------------------------
(***************************************************************************)
(* One ignore file in use (src/go-gitignore/gitignore.go): NewFromFile     *)
(* reads it with the parser, Match, MatchIsDir, Ignore and Include ask it  *)
(* about paths, and every path goes through the working directory of the   *)
(* process, which may change at any time, and MatchIsDir's through a cache *)
(* that lives as long as the process.  The directory of the file is found  *)
(* with FindRepositoryRoot (src/file.go).                                  *)
(*                                                                         *)
(* An absolute path is the sequence of its components; a path as a caller  *)
(* gives it is [absolute |-> BOOLEAN, parts |-> components].               *)
(***************************************************************************)
EXTENDS IgnoreParser, PatternMatch

CONSTANTS
  Directories, \* absolute paths of directories
  Worlds       \* [text, marks, cwd, given, questions, calls, moves]: the file, what
               \* the directories hold, the first working directory, the path
               \* FindRepositoryRoot is given and those that are asked about; and as
               \* bounds the number of questions and of changes of the directory

\* What a directory may hold for FindRepositoryRoot to look at.
Marks == {"git directory", "git file", "git other", "hg directory", "hg file"}

\* A component is not empty and holds no separator.
Component == {c \in Seq(Runes \cup DOMAIN Code) : c # <<>> /\ \A i \in DOMAIN c : c[i] # "/"}
Path == Seq(Component)

\* Directories has what the walk up to the root of the file system comes to, and
\* wherever the process is, the path FindRepositoryRoot is given leads into it.
ASSUME FileAssumption ==
  /\ \A w \in Worlds : /\ w.text \in Texts /\ w.cwd \in Directories
                       /\ w.marks \in [Directories -> SUBSET Marks]
                       /\ w.questions \subseteq [absolute : BOOLEAN, parts : Path]
                       /\ w.given.absolute => w.given.parts \in Directories
                       /\ ~w.given.absolute => \A d \in Directories : d \o w.given.parts \in Directories
                       /\ w.calls \in Nat /\ w.moves \in Nat
  /\ Directories \subseteq Path
  /\ \A d \in Directories : d # <<>> => Front(d) \in Directories

VARIABLES
  world,    \* the member of Worlds this is
  cwd,      \* the working directory
  moves,    \* changes of it
  stage,    \* where the caller is
  origin,   \* the absolute path FindRepositoryRoot began at, or None
  dir,      \* the directory its loop has come to
  root,     \* what it returned, a path as given
  base,     \* _base of the instance
  call,     \* the question: [op, path, isdir]
  calls,    \* questions asked
  path,     \* the absolute path that was matched, or None
  answer,   \* the pattern that matched, 0 for none
  known,    \* matchIsDirCache, from paths as given to absolute paths
  moved     \* paths in it since whose entry the working directory has changed

environment == <<world, cwd, moves, moved>>
finding == <<origin, dir, root>>
asking == <<call, calls, path, answer, known>>
fileVars == <<vars, environment, stage, finding, base, asking>>

\* No absolute path: no component of one is empty.
None == <<<<>>>>
Given(parts) == [absolute |-> TRUE, parts |-> parts]

-----------------------------------------------------------------------------

\* filepath.Abs
Abs(p) == IF p.absolute THEN p.parts ELSE cwd \o p.parts

\* checkForGitOrMercurial
Marked(d) == world.marks[d] \cap {"git directory", "git file", "hg directory"} # {}

\* FindRepositoryRoot begins at the absolute path of its argument, or gives the
\* argument back: the absolute path of a relative one cannot be had when the
\* working directory has been removed.
CallFind ==
  /\ stage = "start"
  /\ \/ /\ origin' = Abs(world.given) /\ dir' = Abs(world.given)
        /\ stage' = "find"
        /\ UNCHANGED root
     \/ /\ ~world.given.absolute
        /\ root' = world.given
        /\ stage' = "open"
        /\ UNCHANGED <<origin, dir>>
  /\ UNCHANGED <<vars, environment, base, asking>>

\* Broken variant: the file system's root directory is not looked at.
StopsAtTop(d) == d = <<>> \/ Front(d) = <<>>

AtTop(d) == d = <<>>

\* One turn of its loop.  With no mark up to the root of the file system the
\* argument comes back as it was given.
Find ==
  /\ stage = "find"
  /\ \/ /\ Marked(dir)
        /\ root' = Given(dir)
        /\ stage' = "open"
        /\ UNCHANGED dir
     \/ /\ ~Marked(dir) /\ AtTop(dir)
        /\ root' = world.given
        /\ stage' = "open"
        /\ UNCHANGED dir
     \/ /\ ~Marked(dir) /\ ~AtTop(dir)
        /\ dir' = Front(dir)
        /\ UNCHANGED <<root, stage>>
  /\ UNCHANGED <<vars, environment, origin, base, asking>>

\* Broken variant: an instance is returned although the file did not open.
OpenAnyway ==
  /\ stage = "open"
  /\ \/ base' = Abs(root) /\ stage' = "read"
     \/ base' = Abs(root) /\ stage' = "ready"
  /\ UNCHANGED <<vars, environment, finding, asking>>

\* NewFromFile: without an absolute path or a file that opens there is an error.
Open ==
  /\ stage = "open"
  /\ \/ base' = Abs(root) /\ stage' = "read"
     \/ UNCHANGED base /\ stage' = "failed"
  /\ UNCHANGED <<vars, environment, finding, asking>>

\* New: the parser runs, with a handler that always says to go on.
Read ==
  /\ stage = "read"
  /\ Parse /\ mode' # "refused"
  /\ stage' = IF mode' = "done" THEN "ready" ELSE "read"
  /\ UNCHANGED <<environment, finding, base, asking>>

Word(t) == SubSeq(text, t.from, t.to - 1)
Compiled(p) ==
  NewPattern([i \in DOMAIN p.tokens |-> [type |-> p.tokens[i].type, word |-> Word(p.tokens[i])]])

\* Relative: the last pattern that matches, 0 for none.
Relative(rel, isdir) ==
  Max({0} \cup {i \in DOMAIN patterns : Matches(Compiled(patterns[i]), rel, isdir)})

\* filepath.Rel and the test for "..": the base itself is ".".
Under(p) == IsPrefix(base, p)
Joined(parts) ==
  FlattenSeq([i \in DOMAIN parts |-> IF i = 1 THEN parts[i] ELSE <<"/">> \o parts[i]])
RelativeToBase(p) ==
  IF p = base THEN <<".">> ELSE Joined(SubSeq(p, Len(base) + 1, Len(p)))

Absolute(p, isdir) == IF Under(p) THEN Relative(RelativeToBase(p), isdir) ELSE 0

\* The patterns are tried from the last to the first that matches; one of those
\* before it panics in fnmatch.
Panics(p, isdir) ==
  /\ Under(p)
  /\ \E i \in DOMAIN patterns :
       /\ i > Absolute(p, isdir)
       /\ MatchPanics(Compiled(patterns[i]), RelativeToBase(p), isdir)

\* A panic is the end of the program: nothing in it recovers.
Answered(p, isdir) ==
  /\ path' = p
  /\ answer' = Absolute(p, isdir)
  /\ stage' = IF Panics(p, isdir) THEN "panicked" ELSE "answered"

\* The error handler is told, and there is no match.
Unanswered ==
  /\ path' = None
  /\ answer' = 0
  /\ stage' = "answered"

Ask ==
  /\ stage \in {"ready", "answered"}
  /\ calls < world.calls
  /\ calls' = calls + 1
  /\ \E op \in {"match", "match_is_dir"}, p \in world.questions, isdir \in BOOLEAN :
       /\ call' = [op |-> op, path |-> p, isdir |-> isdir]
       /\ stage' = IF op = "match" THEN "stat" ELSE "lookup"
  /\ UNCHANGED <<vars, environment, finding, base, path, answer, known>>

\* Match, and Ignore and Include by it: the file system says whether the path is
\* there and a directory; the absolute path cannot be had when the working
\* directory has been removed.
Stat ==
  /\ stage = "stat"
  /\ \/ Unanswered
     \/ Answered(Abs(call.path), call.isdir)
  /\ UNCHANGED <<vars, environment, finding, base, call, calls, known>>

\* Broken variant: "/" at the beginning is lost when the key is made.
KeyStripped(p) == [p EXCEPT !.absolute = FALSE]

\* The cache's key is the path as it was given.
Key(p) == p

\* MatchIsDir: Load from the cache.
Lookup ==
  /\ stage = "lookup"
  /\ IF Key(call.path) \in DOMAIN known
     THEN Answered(known[Key(call.path)], call.isdir)
     ELSE stage' = "resolve" /\ UNCHANGED <<path, answer>>
  /\ UNCHANGED <<vars, environment, finding, base, call, calls, known>>

Resolve ==
  /\ stage = "resolve"
  /\ \/ ~call.path.absolute /\ Unanswered
     \/ path' = Abs(call.path) /\ stage' = "store" /\ UNCHANGED answer
  /\ UNCHANGED <<vars, environment, finding, base, call, calls, known>>

\* Store in the cache, and the match.
Store ==
  /\ stage = "store"
  /\ known' = [q \in {Key(call.path)} \cup DOMAIN known |->
                IF q = Key(call.path) THEN path ELSE known[q]]
  /\ Answered(path, call.isdir)
  /\ UNCHANGED <<vars, environment, finding, base, call, calls>>

\* Somebody changes the working directory.  Reading a file takes no notice of it.
Chdir ==
  /\ stage # "read"
  /\ moves < world.moves
  /\ moves' = moves + 1
  /\ cwd' \in Directories \ {cwd}
  /\ moved' = moved \cup DOMAIN known \cup (IF stage = "store" THEN {call.path} ELSE {})
  /\ UNCHANGED <<vars, world, stage, finding, base, asking>>

\* Nobody asks any more, or there is no instance or no program to ask.
Stopped ==
  /\ stage \in {"failed", "panicked"} \/ (stage \in {"ready", "answered"} /\ calls = world.calls)
  /\ UNCHANGED fileVars

FileInit ==
  /\ world \in Worlds
  /\ Init /\ text = world.text /\ tail = "eof"
  /\ cwd = world.cwd /\ moves = 0 /\ moved = {}
  /\ stage = "start"
  /\ origin = None /\ dir = <<>> /\ root = world.given /\ base = <<>>
  /\ call = [op |-> "match", path |-> world.given, isdir |-> TRUE]
  /\ calls = 0
  /\ path = None /\ answer = 0
  /\ known = <<>>

FileNext ==
  \/ CallFind \/ Find \/ Open \/ Read
  \/ Ask \/ Stat \/ Lookup \/ Resolve \/ Store
  \/ Chdir \/ Stopped

FileSpec == FileInit /\ [][FileNext]_fileVars

-----------------------------------------------------------------------------
(* The rules of src/go-gitignore/README.md, said of the runes of a line and *)
(* of the components of a path, without tokens and without backtracking     *)

\* What a bracket holds between its ends.
Members(b) ==
  LET negated == b[1] \in {"!", "^"}
      within == IF negated THEN Tail(b) ELSE b
      dashes == {i \in 2..Len(within) - 1 : within[i] = "-"}
      members == UNION {{r \in DOMAIN Code :
                           IF i + 2 <= Len(within) /\ within[i + 1] = "-"
                           THEN Code[within[i]] <= Code[r] /\ Code[r] <= Code[within[i + 2]]
                           ELSE r = within[i]} : i \in DOMAIN within \ dashes}
  IN IF negated THEN DOMAIN Code \ members ELSE members

\* What a glob has at i: the runes it stands for, and where the next one is.
Element(glob, i) ==
  LET close == Min({k \in i + 2..Len(glob) : glob[k] = "]"} \cup {Len(glob) + 1})
  IN CASE glob[i] = "?" -> [runes |-> Runes \cup DOMAIN Code, next |-> i + 1]
       [] glob[i] = "esc" /\ i < Len(glob) -> [runes |-> {glob[i + 1]}, next |-> i + 2]
       [] glob[i] = "[" /\ close <= Len(glob) ->
            [runes |-> Members(SubSeq(glob, i + 1, close - 1)), next |-> close + 1]
       [] OTHER -> [runes |-> {glob[i]}, next |-> i + 1]

\* The glob is that of the word: from[i] are the lengths of the beginnings of word
\* after which the glob from i comes to its end.
Globs(glob, word) ==
  LET from[i \in 1..Len(glob) + 1] ==
        LET rest == from[Element(glob, i).next]
        IN IF i > Len(glob) THEN {Len(word)}
           ELSE IF glob[i] = "*" THEN {x \in 0..Len(word) : \E y \in rest : x <= y}
           ELSE {x \in 0..Len(word) - 1 : word[x + 1] \in Element(glob, i).runes /\ x + 1 \in rest}
  IN 0 \in from[1]

\* A line is a pattern for the components of a path: a separator at its end says
\* that it is about directories, any other one that it begins at the base, and "**"
\* stands for any number of components, at the end for none too.  from[i] are the
\* numbers of components after which the line from i comes to its end.
RuleMatches(s, parts, isdir) ==
  LET separators == Plain(s, "/")
      expression == {i \in Body(s) : i < Ends(s)}
      directory == Max(expression) \in separators
      inner == expression \ (IF directory THEN {Max(expression)} ELSE {})
      anchored == separators \cap inner # {}
      from[i \in Min(inner)..Max(inner) + 2] ==
        LET cut == Min({k \in separators \cap inner : i <= k} \cup {Max(inner) + 1})
            component == SubSeq(text, i, cut - 1)
            rest == from[cut + 1]
        IN IF i > Max(inner) THEN {Len(parts)}
           ELSE IF cut = i THEN rest
           ELSE IF component = <<"*", "*">> THEN {x \in 0..Len(parts) : \E y \in rest : x <= y}
           ELSE {x \in 0..Len(parts) - 1 : Globs(component, parts[x + 1]) /\ x + 1 \in rest}
  IN /\ directory => isdir
     /\ inner \ separators # {}
     /\ \E x \in from[Min(inner)] : anchored => x = 0

\* The line whose rule decides about the path, 0 for none.
Ruling(parts, isdir) ==
  Max({0} \cup {p.line : p \in {q \in Expected : RuleMatches(q.from, parts, isdir)}})

\* Lines that are matched as something else than they are: white space in a
\* component of a pattern with "**" makes components of its own; separators side by
\* side stay as they are; and an escaped separator beside a plain one matches a
\* separator of the path.
Torn(s) ==
  LET separators == Plain(s, "/")
  IN \/ Doubles(s) # {} /\ \E i \in Plain(s, "sp") : i < Ends(s)
     \/ \E i \in separators : i + 1 \in separators
     \/ separators # {} /\ \E i \in Escaped(s) : text[i] = "/"

-----------------------------------------------------------------------------
(* Properties                                                              *)

\* Every variable has its type; a base and its instance are there when a
\* question is asked.
FileTypeOK ==
  /\ {cwd, dir, base} \subseteq Directories /\ origin \in Directories \cup {None}
  /\ moves \in 0..world.moves
  /\ stage \in {"start", "find", "open", "failed", "read", "ready",
               "stat", "lookup", "resolve", "store", "answered", "panicked"}
  /\ root \in {world.given} \cup {Given(d) : d \in Directories}
  /\ calls \in 0..world.calls
  /\ answer \in 0..Len(patterns)
  /\ path \in {None} \cup Path
  /\ DOMAIN known \subseteq world.questions /\ moved \subseteq world.questions
  /\ stage \in {"stat", "lookup", "resolve", "store", "answered", "panicked"} => mode = "done"

Decided == stage = "answered" /\ path # None
Below == Decided /\ Under(path) /\ path # base

RulingLine ==
  IF Below THEN Ruling(SubSeq(path, Len(base) + 1, Len(path)), call.isdir) ELSE 0

\* From the text of the file to the answer about a path: the last line whose
\* rule matches the path below the base decides, and a path that is not under
\* the base is not matched, through lexer, parser, the three kinds of pattern
\* with their fast paths, and fnmatch.
AnswersFollowRules ==
  Decided /\ path # base /\ (\A s \in LineStarts : ~Silent(s) => ~Torn(s))
  => RulingLine = IF answer = 0 THEN 0 ELSE patterns[answer].line

\* A component of the line ends inside a bracket, with a rune of several bytes: no
\* "]" but escaped ones between the two.
Unclosed(s) ==
  \E open, last \in {i \in Body(s) : i < Ends(s)} :
    /\ open < last /\ text[open] = "["
    /\ Code[text[last]] > 127
    /\ last + 1 = Ends(s) \/ text[last + 1] \in {"/", "sp"}
    /\ \A i \in open..last : text[i] = "]" => text[i - 1] = "esc"

\* Match "will return its Match if successful", and nil "if an error occurs"
\* (gitignore.go:223-228): whatever is asked, the program panics inside of fnmatch
\* over no file but one with such a line, where rangematch takes the byte behind
\* the last rune.
PanicsOnlyUnclosed == stage = "panicked" => \E s \in LineStarts : ~Silent(s) /\ Unclosed(s)

\* MatchIsDir matches the path that is meant now: the cache never answers with
\* the absolute path of another one, and falls behind for a relative path only
\* by a change of the working directory after the path was first resolved.
PathIsCurrent ==
  Decided /\ call.op = "match_is_dir" /\ (call.path.absolute \/ call.path \notin moved)
  => path = Abs(call.path)

\* FindRepositoryRoot returns the nearest marked directory above or at the one
\* it began in, as an absolute path, and its argument when there is none or the
\* place to begin in is not known.
RootIsNearest ==
  LET searched == {d \in Directories : IsPrefix(d, origin) /\ Marked(d)}
  IN stage \notin {"start", "find"} =>
       IF origin = None \/ searched = {} THEN root = world.given
       ELSE root = Given(CHOOSE d \in searched : \A e \in searched : IsPrefix(e, d))
=============================================================================
