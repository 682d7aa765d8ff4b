# Verification of gocodewalker

TLA+ models of gocodewalker, the TLC runs that check them on small instances, and theorems proved with
TLAPS. Paths are relative to the repository; `file.go` is `src/file.go`, the go-gitignore files are under
`src/go-gitignore/`.

gocodewalker walks one or several directory trees in parallel and puts every file that no ignore rule and
no filter rejects on a channel. go-gitignore is the library it carries along for reading and matching
`.gitignore` files; it can also be used by itself to match paths against a whole repository.

## 1. Inventory

### The walk (`file.go`)

| Part | State | Operations |
| --- | --- | --- |
| `Start` | `isWalking`, the semaphore channel, an errgroup over the roots, the result channel `fileListQueue` | starts a goroutine per root, waits, closes the channel, resets `isWalking` |
| `walkDirectoryRecursive` | the activation: its directory handle, its copies of four ignore lists, the two loops, the `WaitGroup` of a root | semaphore, terminate check, open and read, ignore files, file loop, directory loop, deferred close and release |
| `Terminate`, `Walking`, `SetConcurrency`, `SetErrorHandler` | `terminateWalking`, `isWalking`, `semaphoreCount`, `errorsHandler` | called from any goroutine |
| ignore lists | slices handed down by value over shared arrays | append in every directory, match in order, last match wins |
| filter pipeline | one verdict and one reason per entry | a dozen stages for files, a dozen for directories, the hidden check, the binary check, `skipHandler` |
| names | none | `GetExtension`, `isSuffixDir`, `extractGitModuleFolders` |
| `FindRepositoryRoot` | the directory its loop has come to | up the path to the nearest directory with a `.git` or `.hg`, otherwise its argument as it was given |

An activation of depth 0 starts a goroutine for each subdirectory; an activation of depth 1 takes a slot
of the semaphore; deeper ones are plain recursive calls. The consumer is the caller's own goroutine and
meets the walk only through the channel, `Terminate`, `Walking` and the two callbacks.

Hard here: a channel that several goroutines send on and one closes; a WaitGroup, a semaphore and a full
channel that can wait on one another; some twenty early returns, each with handles, slots and counts to give
back; an error handler that may continue, refuse, or call `Terminate`; a flag that is read once per
directory; slices whose arrays are shared between goroutines.

The roots given to `NewParallelFileWalker` may overlap or repeat (`src/README.md:62` walks `.` and a directory
below it, `file_test.go:205` the same directory twice). Nothing in the code tells their walks apart: a file is
then sent once for each root that reaches it, with the depth and the rules it has below that root.

Correct means: no send on the closed channel, nothing runs after the close, no slot and no handle is lost, no
more directories are open at once than slots and depth allow, a file once for each root that reaches it, files
before the subdirectories of their directory, all the files that are due when nothing went wrong, no new
directory after `Terminate`, a result with a cause, and a `Start` that returns; each activation matches with the
rules of its ancestors and its own; an entry is disposed of by the last stage that spoke about it.

### go-gitignore

| Part | State | Operations |
| --- | --- | --- |
| lexer (`lexer.go`) | unread runes, line, column | `Next`, with peeks and reads that may fail |
| parser (`parser.go`) | list of tokens put back, the error handler | `Parse`, `Next`, one function per kind of token, `skip` |
| patterns (`pattern.go`, fnmatch) | none | `NewPattern`, `Match` of three kinds of pattern |
| cache (`cache.go`) | a map and its lock | `Get`, `Set` |
| ignore file (`gitignore.go`) | patterns, base; the path cache of the process | `New...`, `NewWithCache`, `Match`, `Ignore`, `Include`, `Absolute`, `Relative`, `MatchIsDir` |
| repository (`repository.go`, `exclude.go`) | base, cache, exclude file | `NewRepository...`, `Match`, `Absolute`, recursive `Relative` |

The repository loads each `.gitignore` through the cache with `NewWithCache`, which reads it with the
parser over the lexer; the patterns the parser makes are asked by `Relative`, from the last to the first. The
walk does not use the repository: it reads the files itself, keeps lists of instances and asks them with
`MatchIsDir`.

Hard here: a cache whose map is made outside its lock, and goroutines that miss together; recovery after
a bad line, where one token put back too few or too many loses a neighbouring line; a reader that fails in
the middle of a token; three kinds of pattern with fast paths beside fnmatch that have to agree on one set of
rules; a path cache that outlives the working directory its entries were made in; a recursion over the
prefixes of a path with a loop up the hierarchy inside it, whose parents come with a separator at the end.

Correct means: a file that has been answered for is not read again; the patterns are those of the good
lines, one by one, and the bad lines are reported; the answer about a path is that of the last line whose
rule matches; the path that is matched is the one that is meant now; a path is decided by its topmost ignored
prefix, otherwise by the nearest file that has a match; every call ends.

## 2. Modules

| Module | Models | State and actions |
| --- | --- | --- |
| `FileWalker` | `Start`, `walkDirectoryRecursive`, errgroup, semaphore, `Terminate`, `SetConcurrency`, the error handler, the channel and its consumer | `pc[d]` is the place in the activation of directory `d`, where `Dir` has a directory once for each root that reaches it; `open` holds the directories and the files whose handle is open; one action for each stretch between two points where another goroutine can be noticed |
| `WalkContract` | what a caller may rely on | the log of the channel, closed, clean, walking |
| `IgnoreStack` | one ignore list as a Go slice | `slice[d]` is a header, `heap` the arrays, `AppendRule` is `append` with the growth of the runtime |
| `FilterPipeline` | the stages of both loops | the entry in hand, the stage that comes next, verdict and reason |
| `IgnoreParser` | lexer and parser | the position in the text, the token put back, `mode` = the parser function that asks for the next token |
| `PatternMatch` | `NewPattern`, name, path and "any" patterns, fnmatch | no state: operators on words, which are sequences of runes |
| `IgnoreFile` | an ignore file in use: `FindRepositoryRoot`, `NewFromFile`, `Match`, `MatchIsDir` | extends `IgnoreParser` and `PatternMatch`; `stage` is where the caller is, `known` the path cache, `cwd` the working directory, which `Chdir` changes |
| `GitIgnoreCache` | `NewWithCache` over `cache` | a client per goroutine; the unlocked test and making of the map are steps of their own |
| `RepositoryMatch` | `NewRepository` with `exclude`, `repository.Match` and `Relative` | the prefix being decided, the directory whose file is consulted |
| `MC...` | trees, texts and settings for TLC | |
| `FileWalkerProofs` | theorems about `FileWalker` and that it implements `WalkContract` | |
| `IgnoreStackProofs`, `FilterPipelineProofs`, `GitIgnoreCacheProofs`, `RepositoryProofs`, `IgnoreParserProofs`, `IgnoreFileProofs` | theorems about the module of that name (`RepositoryProofs`: `RepositoryMatch`) | |
| `Induction` | that a set of natural numbers has a least element, on which the proofs do their inductions | |

`FileWalker` implements `WalkContract` by the mapping log = `sent`, shut = `closed`, clean = `Clean`, walking =
`isWalking`. Its `Dir` and `File` have what several roots reach once for each of them, so an activation belongs
to one root (`Origin`), and `Place` says which members of `File` are the same file on disk; a root that is given
twice is two members with the same places. `IgnoreFile` composes `IgnoreParser` and `PatternMatch`: its `Read`
is the parser's `Parse`, and it compiles the tokens the parser has left. The other modules stand by themselves
and meet in data:

* `FileWalker` takes the filter pipeline as the set `Ignored`; an activation that runs without one of its
  ignore files (`lenient`) may decide either way. `FilterPipeline` and `IgnoreStack` look inside.
* `FilterPipeline` takes what a stage finds as a free choice, and keeps what the stage does with it. The bytes
  the binary check looks at are there; the handle it opens, which is deferred to the end of the directory's
  activation, is in `FileWalker` (`Probe`, `HandlesClosed`).
* `RepositoryMatch` takes what a file says of a path as data; `IgnoreFile` shows how that comes from the text
  of the file, `GitIgnoreCache` how often it is read when goroutines share a cache.

The places where the code can fail are choices of an action: `FaultyDir` and `FaultyEntry` (open, read, ignore
files, close, hidden check, binary probe), `HandlerAnswers` (what the error handler does), `Missing`,
`CallFails` and `CallFind` (`filepath.Abs`), a world's `broken` files and what it has for a `$GIT_DIR`, the rune
`fault` with the tail of a text, the alternatives of `Open`, `Stat` and `Resolve`.

Abstracted: in the walk, which pattern, regex or name list matches which name; words of tokens (ranges of the
text); offsets; logging and texts of errors; a Windows volume and its separator. A rune that is read and put
back leaves the lexer where it was, so a peek is a look at the next rune. Texts hold no NUL rune (see section
6). A walker is started once.

## 3. Runs

Every `pass` run finishes without error; every `violation` run checks one statement of the documentation
that the code does not keep, and is described with the findings below.

| Run | Configuration | What it shows |
| --- | --- | --- |
| `walk` | a root, three directories of depth 1 over **one** slot, one nested call, one ignored directory, a channel of capacity 1, the binary check on, faults in two directories and two entries, all three kinds of handler, `SetConcurrency` with 0 and 2, `Terminate` at any time, `MaxDepth` 3 | `TypeOK`, `SlotsAccounted`, `QuiescentAtClose`, `FilesBeforeSubdirs`, `WalkingCoversWalk`, `NoHandleLeft`, `HandlesBounded`, `NoPanic`, `CompleteWalk`, `NoVisitAfterTerminate`; `NeverStuck` (as long as the channel has room, somebody can step) and `NoStepBack` (every step takes somebody on and nobody back), the two halves of why `Start` returns |
| `two_roots` | a root with two levels below it and, as the second root, its subdirectory once more, over one slot; `MaxDepth` 2, which cuts the lower directory off below the first root and not below the second; the same handlers and faults, under fairness | `ResultJustified`, `OncePerRoot`, `ImplementsContract`, `StartTerminates` |
| `git_stack` | six directories in two levels; two rules in the root and in one subtree, one elsewhere | `RulesInherited`: the lists `gitignores` and `ignores` are right in every interleaving |
| `filters` | two files, one as long as the probe's buffer, and a directory; every combination of the five stages that decide both ways, and the binary check with failing opens and reads | `LastOneWins`, `NoBinarySent`, and that a reason stands exactly while the verdict is to skip (`TypeOK`) |
| `shared_cache` | three goroutines with two calls each, one loadable file and one that is not; one goroutine makes the map | `LoadedBeforeIsCached`, `OneLoadPerClient` |
| `repository` | a file three levels down, every combination of opinions of three `.gitignore` files and the exclude file about every prefix, one file that may be unreadable; and all that may be found in the place of `$GIT_DIR`, for `.gitignore` and another name | `MatchFollowsRules`, `NoReadBelowIgnored`, `CallsEnd` |
| `parser` | every line of up to four runes out of the ten kinds the lexer tells apart, alone or before a second line that holds a pattern; the text ends, or the reader fails for ever after it; the handler may stop at any error | `PatternsFollowLines`, `BadLinesReported`, `ParseEnds` |
| `ignore_file` | `Lines`: every line of up to four of the pieces `a`, `b`, `*`, `**`, `/`, forty longer ones (classes, a rune of two bytes, escapes, white space, comments, negations) nine files of several lines, and twelve lines that end or might seem to end in a bracket, each asked about 22 paths as file and as directory. `Moves`: two files over three directories with and without marks, two starts, four paths given absolutely or not, two questions and one change of the working directory at any time | `AnswersFollowRules`, `PanicsOnlyUnclosed`, `PathIsCurrent`, `RootIsNearest` |
| `walk_errors`, `custom_stack`, `cold_cache`, `excluded_parent` | the smallest tree, lists, callers and opinions that show it | the findings below |

Why these bounds are enough to be interesting. `walk`: with one slot and three claimants the semaphore is
contended and goroutines see `Terminate` only when they get the slot; a channel of one makes every send
block; the nested call under a goroutine is where an error travels up through `call`. `MaxDepth` 3 is not
reached by the directories of depth 2, so a cut one level too early is seen; in `two_roots` `MaxDepth` 2 is
reached, so a cut one level too late would send a file that `WalkContract` does not expect. With one slot and
two levels `HandlesBounded` allows two directories below the root, and a third goroutine would be one too many.
`two_roots` has what one root cannot have: a second error, a root that ends while the other runs, and a file
that comes twice. `git_stack`: the spare cell of an
array of four is reached, and two siblings use it in turn. `filters`: `MaxFindings` = 2 bounds how many
stages other than those that decide both ways speak about one entry; a wrong overruling needs two. The
probe looks at two bytes and the file `f` has its null byte at the second. `shared_cache`: two calls of a
client are needed for a call after an answer, three clients for a miss together while one answers.
`parser`: four runes hold `!**` with white space after it, `a/**`, `***`, an escaped rune before `**`, a
carriage return in the middle, and a fault in each of those; the second line is what a wrong recovery
would lose. `ignore_file`: four pieces make every kind of pattern with its separators and its `**` at the
beginning, in the middle and at the end; the paths have up to three components, one more than the patterns
name; two questions and one change of directory are what it takes to put an entry into the path cache, make
it old, and be answered from it. `SharedCache.cfg` uses symmetry over the two goroutines that wait for the
map; no liveness is checked there. Failures after the end of a text are counted once (`Bad`), because the
column they would go on counting distinguishes nothing.

### The reference of `ignore_file`

`AnswersFollowRules` compares the answer with rules that know no tokens and no kinds of pattern: a line is cut
at its unescaped separators into components (`RuleMatches`), and a component is a glob that is read rune by
rune (`Element`, `Globs`). For every place in a line or in a glob the rule says after how many components of the
path, or runes of the word, the rest of it comes to its end: sets that are computed from right to left, where
the code goes from left to right, tries, and goes back, and where it has fast paths beside fnmatch. They are
the rules of `src/go-gitignore/README.md`, with these exceptions: `**` at the end of a rule also stands for no
component, the base itself is not asked about, and lines that are matched as something else than they are
(`Torn`) are left out (section 6). Two sentences of that README are about more than the one path that
`Match` is asked about, and the rules leave them out as the code does: that a file cannot be re-included when a
parent directory of it is excluded (line 62), and that `foo/` also matches the paths underneath `foo` (line 64).
They hold of whoever asks about the directories on the way first and does not enter an ignored one: of
`RepositoryMatch` for what the `.gitignore` files ignore, and of the walk. In the inputs no bracket
has `]` as its first member or a separator inside, and no path holds a `[`. Some of them panic
(`[é`, section 6); the rules are about the questions that are answered, and `PanicsOnlyUnclosed` says which
lines the others come from.

### Fairness

`LiveSpec` of `FileWalker`: weak fairness of every activation, of closing and returning, and of the
consumer. The Go scheduler runs every goroutine that can run. A send on a channel and the send on the
semaphore are served in turn by the runtime; with finitely many activations each takes its slot once, so
weak fairness suffices. That the consumer reads on is what `src/README.md` asks of a caller. Nobody has to
call `Start` or `Terminate`. `RepositoryMatch` and `IgnoreParser` are sequential: the fairness says only
that a call runs on. `ParseEnds` is stated for a reader that ends.

### Findings shown by a run

* `walk_errors`: the result of a goroutine of depth 1 is dropped (`file.go:856`), so `Start` returns nil
  after an error that was refused below a root.
* `custom_stack`: with three rules in the root, goroutines append to `customIgnores` (`file.go:518`) in
  the same spare cell of the root's array, and one matches with the other's rule in place of its own.
  `gitignores` and `ignores` are safe only because a directory adds at most two rules to them.
* `cold_cache`: `Set` tests and makes the map outside the lock (`cache.go:38`); a second goroutine drops
  the map that already holds the first one's file.
* `excluded_parent`: in the recursion the exclude file is asked about `build/` where the `.gitignore` files are
  asked about `build` (`repository.go:264`): the pattern `build` of `info/exclude` ignores the directory but not
  what is in it. In the run the exclude file has an opinion about that directory and no other path, and the
  answer about the file below is none. `MatchFollowsRules` in the run `repository` states what the code does
  instead.

## 4. Proofs

All proofs are checked by TLAPS to the last leaf, for every tree, set of roots, configuration, handler, text and
number of goroutines that the named assumptions allow. Every property a passing run checks as an invariant is
proved, `AnswersFollowRules` for texts without brackets, but for `PanicsOnlyUnclosed`, which is about brackets;
so are the action properties `NoVisitAfterTerminate`, `NoStepBack` and `LastOneWins` and the refinement
`ImplementsContract`. For most of them the property is not inductive as it stands, and the module named below
adds what a state has to remember for it.

**`FileWalkerProofs`.** `TypeCorrect` needs no more than the assumptions of the module. The rest is proved
from `HiddenCheckTotal`: the hidden check of a directory directly below a root never fails. Outside Windows
`IsHidden` looks at the name only (`hidden.go`); on Windows it can fail, and then what is proved is not true
(section 6). The invariant `IInv` adds:

* `StackInv`: how activations nest. A goroutine of depth 1 runs only while its root is in the directory loop,
  a deeper activation only while its caller is in the call, and a caller has one call at a time. Without it a
  root might seem to finish under a running activation two levels below.
* `CountInv`: the WaitGroups count exactly the live goroutines of depth 1. With `StackInv`, and the depth of
  the tree being well-founded (`LeastOf`), an empty WaitGroup means that nothing below the root runs, which
  gives `QuiescentAtClose` and `NoPanic`.
* `SlotsAccounted` and `HandleInv`: who holds a slot or a handle, by program counter.
* `SentInv`: what has been sent is off its activation's list, and its directory is past its files.
* `ErrorInv`, `CompleteInv`: as long as nothing has gone wrong, what is due is on a list, sent, or begun.

From `IInv` follow `SlotsCorrect`, `QuiescenceCorrect`, `NoPanicCorrect`, `WalkingCorrect`, `HandlesCorrect`,
`OncePerRootCorrect`, `OrderCorrect`, `CompleteCorrect` and the action property `TerminateCorrect`.
`OncePerRootCorrect` needs `SentInv` and
`PlaceAssumption`, that one root comes to a place on disk by one way only (the walk does not follow links):
the roots themselves may be anything.

`HandlesBoundedCorrect` counts the open directories level by level. A directory is open only while its activation
is between `OpenDir` and `Unwind`. At depth 1 those hold a slot (`SlotsAccounted`). At any greater depth the
caller of an open directory is open itself, one level up, and waits in this very call, so two open
directories have different callers (`CallerIsOpen`): no level has more of them than the level above
(`OpenAtBounded`), and no level is deeper than `MaxDepth` or the tree (`Levels`).

`ResultCorrect` uses `ReportInv`: a goroutine's and the errgroup's error have a cause. `ContractCorrect` is
the refinement: each step of `FileWalker` is a step of `WalkContract` or leaves its variables alone; `IInv`
gives that an appended file is new and, at the close, that a clean walk has sent everything.

That `Start` returns is liveness and stays with TLC; the two safety facts it rests on are proved.
`NeverStuckCorrect`: suppose no activation can step, the channel has room and a root r is not done. No
activation is in `"call"` (`CallMoves`): the callee of the deepest caller (`DeepestOf`, `CallInv`) takes no
slot, has started no goroutine and calls nobody, so it could step. So r waits, by `CountInv`, for a goroutine
of depth 1 in its WaitGroup; that one has no goroutines of its own, so it can only be waiting for a slot
(`Waiting`), and every slot is taken. By `SlotsAccounted` whoever holds one is a goroutine of depth 1 past
acquiring it, in no call and without goroutines: it can step, a contradiction. `NoStepBackCorrect`: action
by action, an activation gets to a later stage or shortens a list. `NoStepBack` does not say that a step is taken,
`NeverStuck` does not say that steps run out; together they do, on a finite tree.

**`IgnoreStackProofs`.** `InheritedCorrect` is proved under `RootAdds`, at most two rules in a root:
`gitignores` gets those of `.gitignore` and of `.git/info/exclude`, `ignores` that of `.ignore`; `customIgnores`
has no such bound, and the run `custom_stack` refutes it with three. `StackInv` says why two is the limit: an
array named for a rule is there only once that rule has been read (`Fresh`), so a grown array is a new one; a
root's array has no room (`RootIsFull`), so an array that two goroutines share has none (`SharedIsFull`) and an
append in one of them moves to a new array, while within a goroutine the activations are one chain of calls in
which the deeper one has the longer list (`OneChain`), so what the append overwrites no caller reads.

**`FilterPipelineProofs`.** `HandInv`: the stages still to come have not spoken, and the verdict so far is
that of the last one that has; it gives the action property in `LastCorrect`. `BinaryInv` connects the verdict
of the binary check with the bytes it looked at, which the entry's later stages do not change; it gives
`BinaryCorrect`. `FilterTypeCorrect` comes with them.

**`GitIgnoreCacheProofs`.** `CacheTypeCorrect`; `CachedCorrect` and `LoadsBounded` for `SingleFirst` (one
goroutine makes the map) and `CacheGiven` (the caller hands in a cache). `KeptInv` says that an answered file
is in the map, and that nobody else is about to make a map. `LoadsInv` charges every load of a file to a
different goroutine (`Spent`): one that has loaded it will find it answered at its next call. Without
`SingleFirst` the run `cold_cache` refutes `CachedCorrect`.

**`RepositoryProofs`.** `RepInv`: of the prefixes above the one in hand none is ignored (`Open`), the
directories the loop has passed have nothing to say of it (`Silent`), and when the exclude file is asked no
`.gitignore` has (`AllSilent`). With the lemmas about `Above` (a chain, nearest first) the decision about a
prefix is what `MatchFollowsRules` says, and a `.gitignore` that is read lies below no ignored prefix:
`MatchCorrect`, `ReadsCorrect`, `RepositoryTypeCorrect`.

**`IgnoreParserProofs`**, for every text over the runes of the model, under `ParserAssumption` (no rune of a
text is the sign for its end).

* `ParserTypeCorrect`, from `LexerInv` (the lexer is in the line that began at `start`, and `line` counts the
  line starts up to it) and `ParserInv` (a token is put back only when the rest of its line is skipped, or by
  `eol` the end of the line). So one token is all that `undo`'s list ever holds.
* `BadLinesCorrect`, from `LinesInv`. `ReadTo(m, p)` says what is known of the runes up to `p` when the parser
  function `m` asks for the next token: nothing in them is wrong, and every `**` is parted from what is before
  it, and, as far as it has been read, from what is after. With it each way the parser can leave a line is the
  right verdict about the line: `GoodLine`, `EmptyLine`, `CommentLine` and `BadLine`. `Settled` says that the
  lines before are reported exactly if they are wrong.
* `PatternsCorrect`, from `PatternsInv`. `Gathered` says what the tokens in hand stand for: they begin where
  the line does, up to the last one that is no white space they are what the pattern will be (`Kept`), and
  each `**` among them is parted (`Parted`). So what is emitted at the end of a line has the place `Expected`
  says (`TrimmedHolds`), and the patterns are those of the good lines up to here (`Due`), in the order of
  their numbers (`NumbersRise`).

* `TokensCorrect`, from `TokensInv`: the tokens of every pattern lie side by side in its line (`Laid`), each of
  them of the runes its type says (`Placed`), and no two words stand side by side, because a word ends only
  where something else begins (`PatternParts`). It is what the proof about the answers knows of a pattern.

**`IgnoreFileProofs`**, under `FileAssumption` (the directories are closed under going up). `FileTypeCorrect`
from `FileInv`, which includes `ParserInv` and adds that nobody is answered before the file has been read to
the end. `PathCorrect` from `PathInv`: what `PathIsCurrent` says of an answer holds already of the cache, and
of the path between `os.Getwd` and the store. `RootCorrect` from `RootInv`: no marked directory at or above
the origin has been passed.

`AnswersCorrect` is the theorem that goes through everything from the text of the file to the answer: in every
state in which the text has no bracket (`NoBracket`), `AnswersFollowRules` holds. Its argument, in the order of
the module:

1. *Recursion as a set of places.* fnmatch, `any.match` and the rules are recursive functions on pairs of
   places, which go on with the rest of both. Each is shown to be the set of the pairs from which the end can
   be reached (`ComeFrom`, `FnmatchUnfolds`, `AnyUnfolds`, `GlobsUnfolds`, `RuleUnfolds`): a solution of its
   equations is built without recursion, as a least closed set.
2. *`FnmatchIsGlob`*: fnmatch matches a word exactly as the glob says, on a least pair of places where they
   would differ. The difficulty is that fnmatch may stand only where no escape takes a rune along and that it
   runs over several stars at once, and the rule goes one rune at a time.
3. *A pattern and its line.* From `TokensCorrect`: what `NewPattern` takes off in front and at the end are
   the negation and the separators the rule takes off, the words of the rest are the runes of the line between
   them, and the kind is "any" exactly if the line has a `**`, "path" if it has a separator in the middle
   (`PatternOfLine`, `ReadsTokens`).
4. *The three kinds.* `NameLine`: the fast paths for a literal and for a suffix find what fnmatch would.
   `PathLine`: fnmatch over the whole path with `FNM_PATHNAME`, where a star stops at a separator, matches
   component by component. `AnyLine`: the tokens stand alternately for a component and a separator
   (`Alternates`), so the recursion of `any.match` over tokens takes the steps the rule takes over components.
5. *`LineMatches`*: whatever the kind, the pattern of a line that is not `Torn` matches exactly the paths its
   rule says.
6. *`RulingIs`*: by `PatternsInv` the patterns are those of the good lines, and line numbers rise with them; so
   the last pattern that matches is that of the last line whose rule does. `AnswersInv` carries the
   answer to the state in which it is looked at.

`NoBracket` is there because the code and the rules differ inside of brackets: fnmatch ends a class at a `]` in
first place, the lexer cuts one at a separator or at white space, and a bracket that is never closed matches
nothing or, after a rune of several bytes, panics. For which brackets they agree is model-checked on those of
the run `ignore_file`.

**`Induction`** holds `LeastNatural`: a set of natural numbers has a least element. Every induction in these
modules is done with it, on a least counterexample or on a least depth. In the same way the recursive
functions of the models are shown to have the values their equations say (`ChainUnfolds`, `AboveUnfolds`,
`PatternUnfolds`, `DefinedUp`, `DefinedDown`): a solution is built without recursion, as a least closed set or
the end of a chain, and the definition is a choice among the solutions.

Only model-checked: liveness (`StartTerminates`, `CallsEnd`, `ParseEnds`), which is out of reach of these
provers; `PanicsOnlyUnclosed`, and `AnswersFollowRules` for texts with brackets. The hypotheses
`HiddenCheckTotal`, `RootAdds`, `SingleFirst`, `CacheGiven` and `NoBracket` are stated in the theorems; each is
what the code does outside the case named beside it. Some leaves name the prover and the time it may take, where
the default is close.

## 5. Not modelled

* `GetExtension`, `isSuffixDir`, `extractGitModuleFolders`: functions on strings without state. What they
  find is the free choice of `FilterPipeline`'s stages.
* The path cache under several goroutines: `sync.Map` makes each `Load` and `Store` one step, and two
  goroutines store the same value unless the working directory changes between them, which `Chdir` between
  `Resolve` and `Store` shows for one.
* `Ignore` and `Include` of a file: they read the sign of what `Match` returns. The flags of fnmatch that
  `pattern.go` does not use.
* A second `Start` on a walker: no caller in the repository does it. It would close a closed channel, and
  a terminated walker stays terminated.
* The programs under `src/cmd`: callers; `FileWalker`'s consumer stands for them.

## 6. Divergences met on the way that no violation run shows

* `file.go:242`: `Start` sizes the semaphore with the package variable; what `SetConcurrency` stores is
  never read, although its doc says that it "controls the number of goroutines". In the model: `sem` may
  hold more than `concurrency`.
* `file.go:690`: the binary check searches its whole buffer for a zero, also the part that was not read, so
  a text shorter than the buffer counts as binary; `src/README.md:137` speaks of a null byte in the file.
  `NoBinarySent` therefore says "fills the buffer".
* `gitignore.go:253`: the path cache is never told of a change of the working directory; a walk of `.` in
  one directory and then in another matches the second one's relative paths against the first.
  `PathIsCurrent` excepts exactly these.
* `pattern.go:263`: `any` drops the separators and takes every other token for a component, but the lexer
  cuts a component at white space: `a b/**` needs three components `a`, ` `, `b`. Such a line matches
  nothing it should (`Torn`).
* `parser.go:272` says that consecutive separators are "interpreted as a single separator"; a path pattern
  with `//` in it goes to fnmatch as it is and matches no path (also `Torn`).
* `pattern.go:249`: an escaped separator is part of a word for the lexer, but fnmatch takes the escape off, so
  that in a pattern with another separator `\/` matches a separator of the path: `a/b\/c` matches `a/b/c`
  although it has two components (also `Torn`).
* `pattern.go:302`: `a/**` also matches `a` itself; the README of go-gitignore says "everything inside".
* `gitignore.go:281`: the base directory itself is asked about as `.`, which `*` matches.
* `fnmatch.go:175`: `rangematch` takes a rune off the pattern when more than one *byte* of it is left
  (`fnmatch.go:163`) and then looks at the byte behind the rune. When a component ends inside a bracket with a
  rune of several bytes, as `[é` does, there is none, and the program panics on the first path that comes to the
  bracket, although the doc of `Match` (`gitignore.go:223`) knows only a match and nil. The run `ignore_file`
  reaches this (stage `"panicked"`), in each of the three kinds of pattern.
* `fnmatch.go:163`: a `]` at the beginning of a class ends it, so that `[]a]` is an empty class and never
  matches. `fnmatch.go:117`: a bracket that is never closed matches nothing (or panics, as above); the reference
  takes it for itself. A separator inside of brackets ends the word for the lexer.
* `file.go:830`: the one return of the directory loop that goes past `wg.Wait`. When the hidden check of a
  directory below a root fails (Windows) and the handler refuses, the root returns while its goroutines
  run, and one may send on the closed channel. In the model: `NoPanic` fails when `FaultyEntry` holds a
  directory of depth 1.
* `file.go:702`: `Terminate` does not free a goroutine that is blocked in a send, so a consumer that stops
  reading after `Terminate` keeps `Start` from returning.
* `file.go:602` and `file.go:807`: `IncludeFilenameRegex` and `IncludeDirectoryRegex` come after the lists
  `ExcludeFilename` and `ExcludeDirectory` and overrule them, although the comment before each list says
  that exclude "takes precedence".
  `file.go:648`: `ExcludeListExtensions` says "keep" of what the hidden check has ignored.
* `file.go`: the walk reads `.git/info/exclude` after `.gitignore`, so that it overrules the root's
  `.gitignore`; in `repository.go` the exclude file comes last.
* `gitignore.go:155`: the opened ignore file is never closed.
* `file.go:673`: the handles of the binary check are closed by deferred calls in a loop, so a directory keeps
  one open for each of its files until its subdirectories have been walked. `HandlesBounded` bounds the
  directories, not these: what one directory may hold is the number of its files.
* `repository.go:15`: `Ignore` and `Include` of a repository are the embedded ignore's, which has no
  patterns: always false. When the path is missing they call its handler, which is nil.
* `repository.go:148`: a nil cache is kept, where the doc says that a default one is used.
  `repository.go:238`: what the error handler answers to a file that cannot be read is ignored, where the
  doc says that matching stops.
* `parser.go:76` and `parser.go:108`: with a reader that fails for ever (a directory named `.gitignore`
  can be opened but not read) and a handler that answers true, `Parse` does not return.
  `gitignore.go:120` says that `NewWithErrors` returns nil for a file that cannot be read.
* `parser.go:163`: white space at the end of a negated pattern is kept, of any other pattern dropped. The
  reference of `IgnoreParser` (`Ends`) says what the code does.
* `rune.go:7`: the NUL rune is the lexer's sign for the end of the file, so a NUL inside a text ends a
  comment or the parse.

## 7. Plan

Done: the walk with its contract, the ignore lists, the filter pipeline, the cache, the repository with its
constructor, the parser, the patterns, the ignore file with its path cache, `FindRepositoryRoot`; and the proofs
of all of it that section 4 lists.

What is left:

1. `AnswersCorrect` for texts with brackets: that `rangematch` finds the members the rule says for a class
   without `]`, an escape or a separator inside, and from there the same argument; `PanicsOnlyUnclosed` with it.
2. `RepositoryMatch` over `GitIgnoreCache`: goroutines that match in one repository, as an implementation
   of a repository that answers from a fixed table.
3. `NoPanicCorrect` without `HiddenCheckTotal`, for handlers that never refuse below a root.
