----------------------------- MODULE FileWalker -----------------------------
(***************************************************************************)
(* The concurrent directory walk of gocodewalker (src/file.go): Start, one *)
(* activation of walkDirectoryRecursive per directory and root, the        *)
(* counting semaphore that bounds the goroutines of depth 1, the WaitGroup *)
(* of each root, the errgroup over the roots, the terminate flag, the      *)
(* error handler, and the buffered channel the results are sent on.        *)
(*                                                                         *)
(* The file tree is data: Parent, Depth and Home give its shape, Ignored   *)
(* is the set of entries the filter pipeline rejects.  The roots may       *)
(* overlap, and one may be given twice: what several of them reach is in   *)
(* Dir and File once for each of them, with its own activation, depth and  *)
(* rules.  Place says which members of File are the same file on disk.     *)
(***************************************************************************)
EXTENDS Integers, Sequences, FiniteSets

CONSTANTS
  Dir,             \* directories, once for each root that reaches them, roots included
  File,            \* entries that are not directories, once for each root likewise
  Parent,          \* [Dir -> Dir], the directory that holds d; a root is its own
  Depth,           \* [Dir -> Nat], the argument "iteration" of d's activation
  Home,            \* [File -> Dir], the directory that holds f
  Origin,          \* [Dir -> Dir], the root from which d is reached
  Place,           \* [File -> paths], where f is on disk
  Ignored,         \* entries the filter pipeline skips when all rules are loaded
  MaxDepth,        \* FileWalker.MaxDepth, -1 for no limit
  SemaphoreCount,  \* the package variable semaphoreCount, 8 in the source
  ConcurrencyArgs, \* arguments SetConcurrency is called with before Start
  QueueCap,        \* capacity of the channel given to NewFileWalker
  FaultyDir,       \* directories whose open, read, ignore files or close may fail
  IgnoreBinaryFiles, \* FileWalker.IgnoreBinaryFiles: every file is opened and probed
  FaultyEntry,     \* entries whose hidden check or binary probe may fail
  HandlerAnswers   \* what the installed errorsHandler may do, see Answers

(***************************************************************************)
(* errorsHandler returns true ("continue"), returns false ("stop"), or     *)
(* calls Terminate and returns false ("terminate"): the three handlers of  *)
(* README.md.                                                              *)
(***************************************************************************)
Answers == {"continue", "stop", "terminate"}

ASSUME TreeAssumption ==
  /\ IsFiniteSet(Dir)
  /\ Dir \cap File = {}
  /\ Depth \in [Dir -> Nat]
  /\ Parent \in [Dir -> Dir]
  /\ Home \in [File -> Dir]
  /\ \A d \in Dir : Depth[d] > 0 => Depth[d] = Depth[Parent[d]] + 1
  /\ \A d \in Dir : Origin[d] = IF Depth[d] = 0 THEN d ELSE Origin[Parent[d]]

\* Links are not followed, so one root comes to a place by one way only.
ASSUME PlaceAssumption ==
  \A f, g \in File : Place[f] = Place[g] /\ Origin[Home[f]] = Origin[Home[g]] => f = g

ASSUME ConfigAssumption ==
  /\ MaxDepth \in Nat \cup {-1}
  /\ SemaphoreCount \in Nat \ {0}
  /\ ConcurrencyArgs \subseteq Int
  /\ QueueCap \in Nat \ {0}
  /\ IgnoreBinaryFiles \in BOOLEAN
  /\ HandlerAnswers \subseteq Answers

VARIABLES
  \* the activations of walkDirectoryRecursive
  pc,               \* [Dir -> PC], where each activation is
  ret,              \* [Dir -> Error], what it returned
  files,            \* [Dir -> SUBSET File], what the file loop of d has left
  dirs,             \* [Dir -> SUBSET Dir], what the directory loop of d has left
  open,             \* directories and probed files whose handle is open
  lenient,          \* activations that run without some ignore file
  sem,              \* activations holding a slot of countingSemaphore
  wg,               \* goroutines added to their root's WaitGroup and not done
  \* Start
  phase,            \* where Start is
  isWalking,        \* FileWalker.isWalking
  groupErr,         \* the error errgroup.Group has recorded
  result,           \* the error Start has returned
  concurrency,      \* FileWalker.semaphoreCount
  \* the channel fileListQueue
  sent,             \* every file sent so far, in order
  taken,            \* how many of them the consumer has received
  closed,           \* the channel has been closed
  panicked,         \* a send hit the closed channel and the process is gone
  \* termination and errors
  terminateWalking, \* FileWalker.terminateWalking
  answers           \* what errorsHandler has answered so far

entries == <<files, dirs>>
walkVars  == <<pc, ret, entries, open, lenient, sem, wg>>
startVars == <<phase, isWalking, groupErr, result, concurrency>>
queueVars == <<sent, taken, closed, panicked>>
errorVars == <<terminateWalking, answers>>
vars == <<walkVars, startVars, queueVars, errorVars>>

-----------------------------------------------------------------------------
(* The tree and the configuration                                          *)

Root == {d \in Dir : Depth[d] = 0}
FilesOf(d) == {f \in File : Home[f] = d}
SubdirsOf(d) == {c \in Dir : Depth[c] > 0 /\ Parent[c] = d}

\* Broken variant: MaxDepth is compared one level too early.
CutEarly(d) == MaxDepth # -1 /\ Depth[d] + 1 >= MaxDepth

\* The recursion is cut at MaxDepth before anything else is done.
Cut(d) == MaxDepth # -1 /\ Depth[d] >= MaxDepth

PC == {"idle", "globals", "enter", "acquire", "check", "open", "ignores",
       "files", "dirs", "call", "unwind", "exit", "done"}

\* nil, ErrTerminateWalk, or an error of a file system call.
Error == {"nil", "ErrTerminateWalk", "io"}

Phase == {"idle", "walking", "closed", "returned"}

-----------------------------------------------------------------------------
(* Building blocks of the actions                                          *)

\* The process is alive and d is at label.
At(d, label) == ~panicked /\ pc[d] = label

Goto(d, label) == pc' = [pc EXCEPT ![d] = label]

\* "return e": the deferred calls of d run next.
Return(d, e) == /\ ret' = [ret EXCEPT ![d] = e]
                /\ Goto(d, "unwind")

\* One call of errorsHandler, which may call Terminate.
HandleError(a) ==
  /\ a \in HandlerAnswers
  /\ answers' = answers \cup {a}
  /\ terminateWalking' = (terminateWalking \/ a = "terminate")

\* An activation that runs without some ignore file may decide either way;
\* with all of them it follows Ignored.
Verdicts(d, e) == {ignore \in BOOLEAN : d \in lenient \/ (ignore <=> e \in Ignored)}

\* After a failed check the handler told to continue.  A hidden check that
\* failed reads as "not hidden", a binary probe that failed as "binary".
VerdictsAfterFault(d, e) ==
  {ignore \in BOOLEAN : e \in File \/ ~ignore \/ ignore \in Verdicts(d, e)}

\* fileListQueue <- f: blocks while the buffer is full, panics when closed.
Send(f) ==
  IF closed
  THEN panicked' = TRUE /\ UNCHANGED <<sent, taken, closed>>
  ELSE /\ Len(sent) - taken < QueueCap
       /\ sent' = Append(sent, f)
       /\ UNCHANGED <<taken, closed, panicked>>

-----------------------------------------------------------------------------
(* walkDirectoryRecursive                                                  *)

\* The goroutine of a root first reads the CustomIgnoreFiles.
BuildGlobalIgnores(d) ==
  /\ At(d, "globals")
  /\ \/ /\ Goto(d, "enter")
        /\ UNCHANGED <<ret, lenient, errorVars>>
     \/ /\ d \in FaultyDir
        /\ \E a \in HandlerAnswers :
             /\ HandleError(a)
             /\ IF a = "continue"
                THEN /\ lenient' = lenient \cup {d}
                     /\ Goto(d, "enter")
                     /\ UNCHANGED ret
                ELSE Return(d, "io") /\ UNCHANGED lenient
  /\ UNCHANGED <<entries, open, sem, wg, startVars, queueVars>>

\* Broken variant: every activation below a root takes a slot.
NeedsSlotBelow(d) == Depth[d] >= 1

\* Broken variant: the goroutines are not bounded.
NeedsSlotNever(d) == FALSE

\* Only the goroutines started by a root take a slot.
NeedsSlot(d) == Depth[d] = 1

Enter(d) ==
  /\ At(d, "enter")
  /\ IF Cut(d)
     THEN Return(d, "nil")
     ELSE Goto(d, IF NeedsSlot(d) THEN "acquire" ELSE "check") /\ UNCHANGED ret
  /\ UNCHANGED <<entries, open, lenient, sem, wg, startVars, queueVars, errorVars>>

\* f.countingSemaphore <- true, only for the goroutines of depth 1.
Acquire(d) ==
  /\ At(d, "acquire")
  /\ Cardinality(sem) < SemaphoreCount
  /\ sem' = sem \cup {d}
  /\ Goto(d, "check")
  /\ UNCHANGED <<ret, entries, open, lenient, wg, startVars, queueVars, errorVars>>

\* Broken variant: the flag is not looked at.
CheckNothing(d) ==
  /\ At(d, "check")
  /\ Goto(d, "open")
  /\ UNCHANGED <<ret, entries, open, lenient, sem, wg, startVars, queueVars, errorVars>>

\* The one place where an activation looks at terminateWalking.
CheckTerminate(d) ==
  /\ At(d, "check")
  /\ IF terminateWalking
     THEN Return(d, "ErrTerminateWalk")
     ELSE Goto(d, "open") /\ UNCHANGED ret
  /\ UNCHANGED <<entries, open, lenient, sem, wg, startVars, queueVars, errorVars>>

\* osOpen and ReadDir.  When the open fails there is no handle to close.
OpenDir(d) ==
  /\ At(d, "open")
  /\ \/ /\ open' = open \cup {d}
        /\ files' = [files EXCEPT ![d] = FilesOf(d)]
        /\ dirs' = [dirs EXCEPT ![d] = SubdirsOf(d)]
        /\ Goto(d, "ignores")
        /\ UNCHANGED <<ret, errorVars>>
     \/ /\ d \in FaultyDir
        /\ open' \in {open, open \cup {d}}
        /\ \E a \in HandlerAnswers :
             /\ HandleError(a)
             /\ Return(d, IF a = "continue" THEN "nil" ELSE "io")
        /\ UNCHANGED entries
  /\ UNCHANGED <<lenient, sem, wg, startVars, queueVars>>

\* .gitignore, .ignore, .gitmodules, custom ignore files, .git/info/exclude.
LoadIgnores(d) ==
  /\ At(d, "ignores")
  /\ \/ /\ Goto(d, "files")
        /\ UNCHANGED <<ret, lenient, errorVars>>
     \/ /\ d \in FaultyDir
        /\ \E a \in HandlerAnswers :
             /\ HandleError(a)
             /\ IF a = "continue"
                THEN /\ lenient' = lenient \cup {d}
                     /\ Goto(d, "files")
                     /\ UNCHANGED ret
                ELSE Return(d, "io") /\ UNCHANGED lenient
  /\ UNCHANGED <<entries, open, sem, wg, startVars, queueVars>>

\* The file opened by the binary check; it stays open until its activation ends.
Probe(f) == open' = IF IgnoreBinaryFiles THEN open \cup {f} ELSE open

\* After an error there is a handle or not: a hidden check or an open that failed
\* leaves none, a failed read does.
ProbeAfterFault(f) == open' \in {open, IF IgnoreBinaryFiles THEN open \cup {f} ELSE open}

\* Broken variant: the entry stays on the list.
DisposeKeeps(d, f, ignore) ==
  /\ UNCHANGED files
  /\ IF ignore THEN UNCHANGED queueVars ELSE Send(f)

\* The end of one turn of the file loop: skipped, or sent.
Dispose(d, f, ignore) ==
  /\ files' = [files EXCEPT ![d] = @ \ {f}]
  /\ IF ignore THEN UNCHANGED queueVars ELSE Send(f)

\* One turn of the loop over the files of d.
VisitFile(d) ==
  /\ At(d, "files")
  /\ \E f \in files[d] :
       \/ /\ \E ignore \in Verdicts(d, f) : Dispose(d, f, ignore)
          /\ Probe(f)
          /\ UNCHANGED <<pc, ret, errorVars>>
       \/ /\ f \in FaultyEntry
          /\ ProbeAfterFault(f)
          /\ \E a \in HandlerAnswers :
               /\ HandleError(a)
               /\ IF a = "continue"
                  THEN /\ \E ignore \in VerdictsAfterFault(d, f) : Dispose(d, f, ignore)
                       /\ UNCHANGED <<pc, ret>>
                  ELSE Return(d, "io") /\ UNCHANGED <<files, queueVars>>
  /\ UNCHANGED <<dirs, lenient, sem, wg, startVars>>

FilesDone(d) ==
  /\ At(d, "files")
  /\ files[d] = {}
  /\ Goto(d, "dirs")
  /\ UNCHANGED <<ret, entries, open, lenient, sem, wg, startVars, queueVars, errorVars>>

\* Broken variant: wg.Add is missing.
NotAdded(c) == wg' = wg

Added(c) == wg' = wg \cup {c}

\* Skip c, or start its activation: a goroutine below a root, a call elsewhere.
Descend(d, c, ignore) ==
  /\ dirs' = [dirs EXCEPT ![d] = @ \ {c}]
  /\ IF ignore
     THEN UNCHANGED <<pc, lenient, wg>>
     ELSE /\ lenient' = IF d \in lenient THEN lenient \cup {c} ELSE lenient
          /\ IF Depth[d] = 0
             THEN /\ Added(c)
                  /\ Goto(c, "enter")
             ELSE /\ pc' = [pc EXCEPT ![c] = "enter", ![d] = "call"]
                  /\ UNCHANGED wg

\* Broken variant: goroutines start while files are still being sent.
VisitDirEarly(d) ==
  /\ At(d, "files") \/ At(d, "dirs")
  /\ \E c \in dirs[d] : \E ignore \in Verdicts(d, c) : Descend(d, c, ignore)
  /\ UNCHANGED <<ret, files, open, sem, startVars, queueVars, errorVars>>

\* One turn of the loop over the subdirectories of d.  A refused hidden check
\* returns at once, past wg.Wait.
VisitDir(d) ==
  /\ At(d, "dirs")
  /\ \E c \in dirs[d] :
       \/ /\ \E ignore \in Verdicts(d, c) : Descend(d, c, ignore)
          /\ UNCHANGED <<ret, errorVars>>
       \/ /\ c \in FaultyEntry
          /\ \E a \in HandlerAnswers :
               /\ HandleError(a)
               /\ IF a = "continue"
                  THEN /\ \E ignore \in VerdictsAfterFault(d, c) : Descend(d, c, ignore)
                       /\ UNCHANGED ret
                  ELSE Return(d, "io") /\ UNCHANGED <<dirs, lenient, wg>>
  /\ UNCHANGED <<files, open, sem, startVars, queueVars>>

\* Broken variant: a root returns without waiting.
WaitForNobody(d) ==
  /\ At(d, "dirs")
  /\ dirs[d] = {}
  /\ Return(d, "nil")
  /\ UNCHANGED <<entries, open, lenient, sem, wg, startVars, queueVars, errorVars>>

\* wg.Wait: only a root has goroutines to wait for.
WaitChildren(d) ==
  /\ At(d, "dirs")
  /\ dirs[d] = {}
  /\ \A c \in wg : Parent[c] # d
  /\ Return(d, "nil")
  /\ UNCHANGED <<entries, open, lenient, sem, wg, startVars, queueVars, errorVars>>

\* Broken variant: the slot is not given back.
SlotLeaked(d) == sem' = sem

SlotReleased(d) == sem' = sem \ {d}

\* Broken variant: the handles are only closed after a normal return.
HandlesLeaked(d) == open' = IF ret[d] = "nil" THEN open \ ({d} \cup FilesOf(d)) ELSE open

HandlesClosed(d) == open' = open \ ({d} \cup FilesOf(d))

\* The deferred calls: Close of the probed files and of the directory, whose
\* error only goes to the handler, and then the release of the semaphore slot.
Unwind(d) ==
  /\ At(d, "unwind")
  /\ HandlesClosed(d)
  /\ SlotReleased(d)
  /\ Goto(d, "exit")
  /\ \/ UNCHANGED errorVars
     \/ /\ d \in FaultyDir \cap open
        /\ \E a \in HandlerAnswers : HandleError(a)
  /\ UNCHANGED <<ret, entries, lenient, wg, startVars, queueVars>>

\* Broken variant: a later root's result replaces an earlier error.
LastError(e) == e

\* errgroup.Group records the first error that is not nil.
FirstError(e) == IF groupErr = "nil" THEN e ELSE groupErr

\* Back in the caller: errgroup takes the error of a root, the
\* goroutine of depth 1 drops its error, a deeper call hands it to its caller.
Exit(d) ==
  /\ At(d, "exit")
  /\ CASE Depth[d] = 0 ->
            /\ groupErr' = FirstError(ret[d])
            /\ Goto(d, "done")
            /\ UNCHANGED <<ret, wg>>
       [] Depth[d] = 1 ->
            /\ wg' = wg \ {d}
            /\ Goto(d, "done")
            /\ UNCHANGED <<ret, groupErr>>
       [] OTHER ->
            /\ pc' = [pc EXCEPT ![d] = "done",
                        ![Parent[d]] = IF ret[d] = "nil" THEN "dirs" ELSE "unwind"]
            /\ ret' = IF ret[d] = "nil" THEN ret ELSE [ret EXCEPT ![Parent[d]] = ret[d]]
            /\ UNCHANGED <<wg, groupErr>>
  /\ UNCHANGED <<entries, open, lenient, sem, phase, isWalking, result, concurrency,
                 queueVars, errorVars>>

-----------------------------------------------------------------------------
(* Start, and the callers of the walker                                    *)

\* Broken variant: any argument is stored.
SetConcurrencyAny(i) ==
  /\ phase = "idle"
  /\ concurrency' = i
  /\ UNCHANGED <<walkVars, phase, isWalking, groupErr, result, queueVars, errorVars>>

\* Stores the argument when it is at least 1.  Called before the walk: the
\* source makes the semaphore once, at Start.
SetConcurrency(i) ==
  /\ phase = "idle"
  /\ i >= 1
  /\ concurrency' = i
  /\ UNCHANGED <<walkVars, phase, isWalking, groupErr, result, queueVars, errorVars>>

\* Sets isWalking, makes the semaphore of SemaphoreCount slots and starts the
\* goroutine of every root.
Start ==
  /\ phase = "idle"
  /\ phase' = "walking"
  /\ isWalking' = TRUE
  /\ pc' = [d \in Dir |-> IF d \in Root THEN "globals" ELSE "idle"]
  /\ UNCHANGED <<ret, entries, open, lenient, sem, wg, groupErr, result, concurrency,
                 queueVars, errorVars>>

\* Broken variant: closes when the first root is done.
CloseAfterFirstRoot ==
  /\ phase = "walking"
  /\ \E r \in Root : pc[r] = "done"
  /\ phase' = "closed"
  /\ closed' = TRUE
  /\ UNCHANGED <<walkVars, isWalking, groupErr, result, concurrency,
                 sent, taken, panicked, errorVars>>

\* Broken variant: isWalking is reset before the channel is closed.
StopBeforeClose ==
  /\ phase = "walking"
  /\ \A r \in Root : pc[r] = "done"
  /\ phase' = "closed"
  /\ isWalking' = FALSE
  /\ UNCHANGED <<walkVars, groupErr, result, concurrency, queueVars, errorVars>>

\* eg.Wait returns once every root is done; then the channel is closed.
CloseQueue ==
  /\ phase = "walking"
  /\ \A r \in Root : pc[r] = "done"
  /\ phase' = "closed"
  /\ closed' = TRUE
  /\ UNCHANGED <<walkVars, isWalking, groupErr, result, concurrency,
                 sent, taken, panicked, errorVars>>

StartReturns ==
  /\ ~panicked
  /\ phase = "closed"
  /\ phase' = "returned"
  /\ isWalking' = FALSE
  /\ result' = groupErr
  /\ UNCHANGED <<walkVars, groupErr, concurrency, queueVars, errorVars>>

\* Terminate may be called by anyone at any time, also before Start.
Terminate ==
  /\ ~panicked
  /\ ~terminateWalking
  /\ terminateWalking' = TRUE
  /\ UNCHANGED <<walkVars, startVars, queueVars, answers>>

\* One turn of the consumer's "for f := range fileListQueue".
Receive ==
  /\ ~panicked
  /\ taken < Len(sent)
  /\ taken' = taken + 1
  /\ UNCHANGED <<walkVars, startVars, sent, closed, panicked, errorVars>>

\* Start has returned and the channel is drained, or the process is gone.
Halted ==
  /\ panicked \/ (phase = "returned" /\ taken = Len(sent))
  /\ UNCHANGED vars

-----------------------------------------------------------------------------
Init ==
  /\ pc = [d \in Dir |-> "idle"]
  /\ ret = [d \in Dir |-> "nil"]
  /\ files = [d \in Dir |-> {}]
  /\ dirs = [d \in Dir |-> {}]
  /\ open = {}
  /\ lenient = {}
  /\ sem = {}
  /\ wg = {}
  /\ phase = "idle"
  /\ isWalking = FALSE
  /\ groupErr = "nil"
  /\ result = "nil"
  /\ concurrency = SemaphoreCount
  /\ sent = <<>>
  /\ taken = 0
  /\ closed = FALSE
  /\ panicked = FALSE
  /\ terminateWalking = FALSE
  /\ answers = {}

Walk(d) ==
  \/ BuildGlobalIgnores(d)
  \/ Enter(d)
  \/ Acquire(d)
  \/ CheckTerminate(d)
  \/ OpenDir(d)
  \/ LoadIgnores(d)
  \/ VisitFile(d)
  \/ FilesDone(d)
  \/ VisitDir(d)
  \/ WaitChildren(d)
  \/ Unwind(d)
  \/ Exit(d)

Next ==
  \/ \E d \in Dir : Walk(d)
  \/ \E i \in ConcurrencyArgs : SetConcurrency(i)
  \/ Start
  \/ CloseQueue
  \/ StartReturns
  \/ Terminate
  \/ Receive
  \/ Halted

Spec == Init /\ [][Next]_vars

(***************************************************************************)
(* The Go scheduler runs every goroutine that can run.  Nobody has to call *)
(* Start or Terminate.  The consumer reads until the channel closes, as in *)
(* README.md: a send into a full channel nobody reads blocks for ever.     *)
(***************************************************************************)
LiveSpec == /\ Spec
            /\ \A d \in Dir : WF_vars(Walk(d))
            /\ WF_vars(CloseQueue)
            /\ WF_vars(StartReturns)
            /\ WF_vars(Receive)

-----------------------------------------------------------------------------
(* Properties                                                              *)

SentFiles == {sent[i] : i \in 1..Len(sent)}

WalkTypes ==
  /\ pc \in [Dir -> PC]
  /\ ret \in [Dir -> Error]
  /\ files \in [Dir -> SUBSET File]
  /\ dirs \in [Dir -> SUBSET Dir]
  /\ open \subseteq Dir \cup File
  /\ lenient \subseteq Dir
  /\ sem \subseteq Dir
  /\ wg \subseteq Dir

StartTypes ==
  /\ phase \in Phase
  /\ isWalking \in BOOLEAN
  /\ groupErr \in Error
  /\ result \in Error
  /\ concurrency \in Nat \ {0}

QueueTypes ==
  /\ sent \in Seq(File)
  /\ taken \in 0..Len(sent)
  /\ closed \in BOOLEAN
  /\ panicked \in BOOLEAN

ErrorTypes ==
  /\ terminateWalking \in BOOLEAN
  /\ answers \subseteq Answers

\* Every variable has its type: the concurrency setting is at least 1 whatever
\* SetConcurrency is given, the consumer is never ahead of the producers.
TypeOK == WalkTypes /\ StartTypes /\ QueueTypes /\ ErrorTypes

\* The directories the doc of MaxDepth promises to visit.
Within(d) == MaxDepth = -1 \/ Depth[d] < MaxDepth

\* Between the Acquire and the release of its slot.
InSection(d) == /\ Depth[d] = 1
                /\ pc[d] \in {"check", "open", "ignores", "files", "dirs", "call", "unwind"}
                /\ Within(d)

\* The semaphore never holds more than its slots, and its slots are held by
\* exactly the depth-1 activations between acquire and release: no early
\* return of walkDirectoryRecursive leaks a slot or gives one back twice.
SlotsAccounted ==
  /\ Cardinality(sem) <= SemaphoreCount
  /\ sem = {d \in Dir : InSection(d)}

Live(d) == pc[d] \notin {"idle", "done"}

\* The root's goroutines are exactly what its WaitGroup counts, and none of
\* them is alive once the channel is closed: nobody is left who could send.
QuiescentAtClose ==
  /\ wg = {d \in Dir : Depth[d] = 1 /\ Live(d)}
  /\ closed => \A d \in Dir : ~Live(d)

\* The consumer sees a file at most once from each root.  Where the roots overlap
\* it does see it again, as often as there are roots above it: the same place
\* twice in the channel comes from two roots.
OncePerRoot ==
  \A i, j \in 1..Len(sent) :
    Place[sent[i]] = Place[sent[j]] /\ Origin[Home[sent[i]]] = Origin[Home[sent[j]]] => i = j

\* "Process files first": when an activation below d has begun, every file of
\* d that is sent at all has been sent, so in the channel the files of a
\* directory come, for each root, before everything from the directories below it.
FilesBeforeSubdirs ==
  \A i, j \in 1..Len(sent) :
    Depth[Home[sent[i]]] > 0 /\ Parent[Home[sent[i]]] = Home[sent[j]] => j < i

\* Walking() may only turn false when the channel is closed and nothing runs.
WalkingCoversWalk ==
  phase # "idle" /\ ~isWalking => closed /\ \A d \in Dir : ~Live(d)

\* Every handle is closed by the time Start returns, on every path: those of the
\* directories and those the binary check has opened in their file loops.
NoHandleLeft == phase = "returned" => open = {}

\* The depths below the roots that the walk may come to.
Levels == {Depth[d] : d \in {e \in Dir : Depth[e] > 0 /\ Within(e)}}

\* Handles stay open over the whole recursion, but the slots bound the goroutines
\* and a goroutine is in one directory of each depth at a time: the directories
\* that are open at once are no more than the roots and, for each slot, the
\* levels, however wide the tree is.  A probed file is open only together with
\* its directory.
HandlesBounded ==
  /\ Cardinality(open \cap Dir) <= Cardinality(Root) + SemaphoreCount * Cardinality(Levels)
  /\ \A f \in open \cap File : Home[f] \in open

\* No goroutine sends on the closed channel, which would kill the process.
NoPanic == ~panicked

(***************************************************************************)
(* Reachable: the least set of directories that holds the roots and the    *)
(* subdirectories that are not ignored of every member above MaxDepth.     *)
(* A complete walk delivers the files of these that are not ignored.       *)
(***************************************************************************)
Closed(S) == /\ Root \subseteq S
             /\ \A d \in S : Within(d) => SubdirsOf(d) \ Ignored \subseteq S
Reachable == {d \in Dir : \A S \in SUBSET Dir : Closed(S) => d \in S}
Expected == {f \in File : f \notin Ignored /\ Home[f] \in Reachable /\ Within(Home[f])}

\* Nothing has failed and no activation has seen the terminate flag.
Clean == answers = {} /\ \A d \in Dir : ret[d] # "ErrTerminateWalk"

\* A walk that met no error and no termination sends the expected files, for
\* each root those it reaches, and no others, and has sent all of them when it
\* closes the channel.
CompleteWalk == Clean => /\ SentFiles \subseteq Expected
                         /\ closed => SentFiles = Expected

\* Start reports what a root returned: ErrTerminateWalk only after Terminate,
\* an I/O error only after the handler refused one, and nil only when every
\* root returned nil.
ResultJustified ==
  phase = "returned" =>
    /\ result = "ErrTerminateWalk" => terminateWalking
    /\ result = "io" => answers \cap {"stop", "terminate"} # {}
    /\ result = "nil" => \A r \in Root : ret[r] = "nil"

\* Has not passed its check; has opened its directory.
Unchecked == {"globals", "enter", "acquire", "check"}
Visiting == {"open", "ignores", "files", "dirs"}

ObeysTerminate ==
  \A d \in Dir : terminateWalking /\ pc[d] \in Unchecked => pc'[d] \notin Visiting

\* Once Terminate has been called, an activation that has not passed its check
\* never opens its directory: a goroutine that was still waiting for a slot
\* when Terminate came finds the flag set when it gets one.
NoVisitAfterTerminate == [][ObeysTerminate]_vars

\* d has a step to take that waits for nobody: not for a slot, nor for room in
\* the channel, nor for the goroutines of its WaitGroup, nor for its callee.
Unblocked(d) ==
  \/ pc[d] \in {"globals", "enter", "check", "open", "ignores", "unwind", "exit"}
  \/ pc[d] = "acquire" /\ Cardinality(sem) < SemaphoreCount
  \/ pc[d] = "files" /\ (files[d] = {} \/ Len(sent) - taken < QueueCap)
  \/ pc[d] = "dirs" /\ (dirs[d] # {} \/ \A c \in wg : Parent[c] # d)

\* The activations never block each other.  A root waits for its goroutines, a
\* caller for its call, a goroutine of depth 1 for a slot that another holds:
\* as long as the channel has room, somebody in that chain can step, or every
\* root is done and Start goes on.  Only the consumer can hold the walk up.
NeverStuck ==
  phase = "walking" /\ Len(sent) - taken < QueueCap =>
    (\E d \in Dir : Unblocked(d)) \/ (\A r \in Root : pc[r] = "done")

\* How far an activation is.  The directory loop goes from "dirs" to "call" and
\* back, one subdirectory shorter every time.
Stage(label) ==
  CASE label = "idle" -> 0    [] label = "globals" -> 1 [] label = "enter" -> 2
    [] label = "acquire" -> 3 [] label = "check" -> 4   [] label = "open" -> 5
    [] label = "ignores" -> 6 [] label = "files" -> 7   [] label \in {"dirs", "call"} -> 8
    [] label = "unwind" -> 9  [] label = "exit" -> 10   [] label = "done" -> 11

\* d gets to a later stage, or shortens a list of its loop, or is called back.
MovesOn(d) ==
  \/ Stage(pc[d]) < Stage(pc'[d])
  \/ /\ Stage(pc'[d]) = Stage(pc[d])
     /\ files'[d] \subseteq files[d]
     /\ dirs'[d] \subseteq dirs[d]
     /\ \/ files'[d] # files[d]
        \/ dirs'[d] # dirs[d]
        \/ pc[d] = "call" /\ pc'[d] = "dirs"

Rests(d) == pc'[d] = pc[d] /\ files'[d] = files[d] /\ dirs'[d] = dirs[d]

StartMovesOn == \/ phase = "walking" /\ phase' = "closed"
                \/ phase = "closed" /\ phase' = "returned"

\* Nobody goes round in circles: no step takes an activation back or fills a
\* list up again, and every step takes an activation, Start, the consumer or
\* the terminate flag one step on.  A finite tree is walked in finitely many
\* steps; with NeverStuck, that is why Start returns.
NoStepBack ==
  [][phase # "idle" =>
       /\ \A d \in Dir : MovesOn(d) \/ Rests(d)
       /\ \/ \E d \in Dir : MovesOn(d)
          \/ StartMovesOn
          \/ taken' = taken + 1
          \/ terminateWalking' # terminateWalking]_vars

\* With a consumer that reads on, Start returns, whatever fails and whoever
\* calls Terminate: no order of semaphore, WaitGroups and channel blocks it.
StartTerminates == phase = "walking" ~> phase = "returned"

(***************************************************************************)
(* What the source documents and the code does not do.                     *)
(***************************************************************************)

\* Start "returns usual ioutil errors if there is a file issue and a
\* ErrTerminateWalk if terminate is called while walking": when an activation
\* has returned either, Start does not return nil.
ErrorsReported ==
  phase = "returned" /\ (\E d \in Dir : ret[d] # "nil") => result # "nil"

\* Under a consumer's eyes the walk is a WalkContract.
Contract == INSTANCE WalkContract
  WITH log <- sent, shut <- closed, clean <- Clean, walking <- isWalking

ImplementsContract == Contract!Spec
=============================================================================
