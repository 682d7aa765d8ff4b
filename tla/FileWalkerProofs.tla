-------------------------- MODULE FileWalkerProofs --------------------------
(***************************************************************************)
(* Theorems about FileWalker, for every tree, every configuration and      *)
(* every error handler.  The inductive invariant is IInv.                  *)
(***************************************************************************)
EXTENDS FileWalker, FiniteSetTheorems, WellFoundedInduction, TLAPS

(***************************************************************************)
(* The hidden check of a subdirectory of a root does not fail.  Outside    *)
(* Windows IsHidden looks at the name only and never fails; on Windows a   *)
(* refused failure there returns past wg.Wait, and a goroutine of the root *)
(* may then send on the closed channel.                                    *)
(***************************************************************************)
HiddenCheckTotal == \A c \in Dir : Depth[c] = 1 => c \notin FaultyEntry

-----------------------------------------------------------------------------
(* The inductive invariant                                                 *)

Begun(d) == pc[d] # "idle"

BeforeDirs == {"idle", "globals", "enter", "acquire", "check", "open", "ignores", "files"}
InDirs == {"dirs", "call"}
Leaving == {"unwind", "exit", "done"}

\* Where Start is, and what that says of the roots and of the channel.
PhaseInv ==
  /\ phase = "idle" => \A d \in Dir : ~Begun(d)
  /\ phase # "idle" => \A d \in Root : Begun(d)
  /\ closed <=> phase \in {"closed", "returned"}
  /\ closed => \A d \in Root : pc[d] = "done"
  /\ isWalking <=> phase \in {"walking", "closed"}
  /\ ~panicked

\* How the activations are nested: a goroutine of depth 1 runs only while its
\* root is in its directory loop or waits, a deeper one only while its caller
\* is in the call, and a caller has one call at a time.
StackAt(d) ==
  /\ pc[d] = "globals" => Depth[d] = 0
  /\ pc[d] = "acquire" => Depth[d] = 1
  /\ pc[d] = "call" => Depth[d] > 0
  /\ Depth[d] = 1 /\ Live(d) => pc[Parent[d]] = "dirs"
  /\ Depth[d] > 1 /\ Live(d) => pc[Parent[d]] = "call"
  /\ Depth[d] > 0 /\ Begun(d) => pc[Parent[d]] \notin BeforeDirs
  /\ pc[d] \in {"acquire", "check", "open", "ignores", "files", "dirs", "call"}
       => Within(d)
  /\ files[d] \subseteq FilesOf(d)
  /\ dirs[d] \subseteq {c \in SubdirsOf(d) : ~Begun(c)}

OneCall == \A d, e \in Dir : Depth[d] > 1 /\ Depth[e] > 1 /\ Parent[d] = Parent[e]
                             /\ Live(d) /\ Live(e) => d = e

StackInv == OneCall /\ \A d \in Dir : StackAt(d)

\* The WaitGroups count the goroutines of depth 1; SlotsAccounted is the other
\* half of the counting.
CountInv == wg = {d \in Dir : Depth[d] = 1 /\ Live(d)}

\* The handles that are open: a directory's from its opening until its activation
\* unwinds, those of its files only together with it.
HandleAt(d) ==
  /\ pc[d] \in {"ignores", "files", "dirs", "call"} => d \in open
  /\ d \in open => pc[d] \in {"ignores", "files", "dirs", "call", "unwind"} /\ Within(d)

HandleInv ==
  /\ \A d \in Dir : HandleAt(d)
  /\ \A f \in open \cap File : Home[f] \in open

\* No member of File is sent twice.
SentOnce == \A i, j \in 1..Len(sent) : sent[i] = sent[j] => i = j

\* What has been sent comes from directories whose files have been looked at.
Late == {"files", "dirs", "call", "unwind", "exit", "done"}

SentInv ==
  /\ SentOnce
  /\ FilesBeforeSubdirs
  /\ \A f \in SentFiles : /\ pc[Home[f]] \in Late
                          /\ pc[Home[f]] = "files" => f \notin files[Home[f]]
                          /\ Within(Home[f])

\* A missing ignore file or an I/O error implies that the handler was asked,
\* and nobody carries an error before it returns.
ErrorInv ==
  /\ \A d \in Dir : pc[d] \notin Leaving => ret[d] = "nil"
  /\ lenient # {} => answers # {}
  /\ \A d \in Dir : ret[d] = "io" => answers # {}

\* As long as nothing has gone wrong, nothing that is due gets lost: it is on
\* a list of its activation, or it has been sent or begun.
CompleteAt(d) ==
  /\ Begun(d) => d \in Reachable
  /\ pc[d] = "ignores" => FilesOf(d) \subseteq files[d]
  /\ pc[d] \in {"ignores", "files"} => SubdirsOf(d) \subseteq dirs[d]
  /\ pc[d] = "files" => FilesOf(d) \ Ignored \subseteq files[d] \cup SentFiles
  /\ pc[d] \in InDirs =>
       /\ FilesOf(d) \ Ignored \subseteq SentFiles
       /\ \A c \in SubdirsOf(d) \ Ignored : c \in dirs[d] \/ Begun(c)
  /\ pc[d] \in Leaving /\ Within(d) =>
       /\ FilesOf(d) \ Ignored \subseteq SentFiles
       /\ \A c \in SubdirsOf(d) \ Ignored : Begun(c)

CompleteInv ==
  Clean => /\ SentFiles \cap Ignored = {}
           /\ \A d \in Dir : CompleteAt(d)

SafeInv == TypeOK /\ PhaseInv /\ StackInv /\ CountInv /\ SlotsAccounted /\ HandleInv
IInv == SafeInv /\ SentInv /\ ErrorInv /\ CompleteInv

-----------------------------------------------------------------------------
(* Types                                                                   *)

LEMMA TypeInit == Init => TypeOK
<1>. SUFFICES ASSUME Init PROVE TypeOK
  OBVIOUS
<1>1. WalkTypes
  BY DEF Init, WalkTypes, PC, Error
<1>2. StartTypes
  BY ConfigAssumption DEF Init, StartTypes, Phase, Error
<1>3. QueueTypes
  <2>1. sent \in Seq(File) /\ taken \in 0..Len(sent)
    BY DEF Init
  <2>. QED
    BY <2>1 DEF Init, QueueTypes
<1>4. ErrorTypes
  BY DEF Init, ErrorTypes
<1>. QED
  BY <1>1, <1>2, <1>3, <1>4 DEF TypeOK

\* What a call of the error handler does to the two variables it may change.
LEMMA HandlerFacts ==
  ASSUME TypeOK, NEW a, HandleError(a)
  PROVE  /\ ErrorTypes'
         /\ a \in answers'
         /\ answers \subseteq answers'
BY ConfigAssumption DEF HandleError, TypeOK, ErrorTypes

\* A group of variables that does not change keeps its types.
LEMMA StartTypesKept == StartTypes /\ UNCHANGED startVars => StartTypes'
BY DEF StartTypes, startVars

LEMMA QueueTypesKept == QueueTypes /\ UNCHANGED queueVars => QueueTypes'
BY DEF QueueTypes, queueVars

LEMMA ErrorTypesKept == ErrorTypes /\ UNCHANGED errorVars => ErrorTypes'
BY DEF ErrorTypes, errorVars

LEMMA WalkTypesKept == WalkTypes /\ UNCHANGED walkVars => WalkTypes'
BY DEF WalkTypes, walkVars, entries

\* The end of one turn of the file loop keeps the channel's types.
LEMMA DisposeTypes ==
  ASSUME WalkTypes, QueueTypes, NEW d \in Dir, NEW f \in files[d], NEW ignore,
         Dispose(d, f, ignore)
  PROVE  QueueTypes'
<1>1. f \in File
  BY DEF WalkTypes
<1>2. CASE ignore
  BY <1>2, QueueTypesKept DEF Dispose
<1>3. CASE ~ignore /\ closed
  BY <1>3 DEF Dispose, Send, QueueTypes
<1>4. CASE ~ignore /\ ~closed
  BY <1>1, <1>4 DEF Dispose, Send, QueueTypes
<1>. QED
  BY <1>2, <1>3, <1>4

\* The actions of an activation keep the types of its own variables.
LEMMA WalkTypesStep ==
  ASSUME WalkTypes, NEW d \in Dir, Walk(d)
  PROVE  WalkTypes'
<1>. USE TreeAssumption DEF WalkTypes, At, Goto, Return, entries, PC, Error
<1>1. CASE BuildGlobalIgnores(d)
  <2>1. PICK l \in {"enter", "unwind"}, e \in Error :
          /\ pc' = [pc EXCEPT ![d] = l]
          /\ ret' \in {ret, [ret EXCEPT ![d] = e]}
          /\ lenient' \in {lenient, lenient \cup {d}}
    BY <1>1 DEF BuildGlobalIgnores
  <2>. QED
    BY <1>1, <2>1 DEF BuildGlobalIgnores
<1>2. CASE Enter(d)
  BY <1>2 DEF Enter
<1>3. CASE Acquire(d)
  BY <1>3 DEF Acquire
<1>4. CASE CheckTerminate(d)
  BY <1>4 DEF CheckTerminate
<1>5. CASE OpenDir(d)
  <2>1. PICK l \in {"ignores", "unwind"}, e \in Error :
          /\ pc' = [pc EXCEPT ![d] = l]
          /\ ret' \in {ret, [ret EXCEPT ![d] = e]}
          /\ open' \in {open, open \cup {d}}
    BY <1>5 DEF OpenDir
  <2>2. files' \in [Dir -> SUBSET File] /\ dirs' \in [Dir -> SUBSET Dir]
    <3>1. FilesOf(d) \subseteq File /\ SubdirsOf(d) \subseteq Dir
      BY DEF FilesOf, SubdirsOf
    <3>2. \/ /\ files' = [files EXCEPT ![d] = FilesOf(d)]
             /\ dirs' = [dirs EXCEPT ![d] = SubdirsOf(d)]
          \/ UNCHANGED <<files, dirs>>
      BY <1>5 DEF OpenDir
    <3>. QED
      BY <3>1, <3>2
  <2>. QED
    BY <1>5, <2>1, <2>2 DEF OpenDir
<1>6. CASE LoadIgnores(d)
  BY <1>6 DEF LoadIgnores
<1>7. CASE VisitFile(d)
  <2>1. PICK f \in files[d] : open' \in {open, open \cup {f}}
    BY <1>7 DEF VisitFile, Probe, ProbeAfterFault
  <2>2. open' \subseteq Dir \cup File
    BY <2>1
  <2>. QED
    BY <1>7, <2>2 DEF VisitFile, Dispose
<1>8. CASE FilesDone(d)
  BY <1>8 DEF FilesDone
<1>9. CASE VisitDir(d)
  BY <1>9 DEF VisitDir, Descend, Added
<1>10. CASE WaitChildren(d)
  BY <1>10 DEF WaitChildren
<1>11. CASE Unwind(d)
  BY <1>11 DEF Unwind, HandlesClosed, SlotReleased
<1>12. CASE Exit(d)
  BY <1>12 DEF Exit
<1>. QED
  BY <1>1, <1>2, <1>3, <1>4, <1>5, <1>6, <1>7, <1>8, <1>9, <1>10, <1>11, <1>12
  DEF Walk


\* The actions of an activation keep the types of the shared variables.
LEMMA SharedTypesStep ==
  ASSUME TypeOK, NEW d \in Dir, Walk(d)
  PROVE  StartTypes' /\ QueueTypes' /\ ErrorTypes'
<1>. USE StartTypesKept, QueueTypesKept, ErrorTypesKept DEF TypeOK
<1>1. CASE BuildGlobalIgnores(d)
  BY <1>1, HandlerFacts DEF BuildGlobalIgnores
<1>2. CASE Enter(d)
  BY <1>2 DEF Enter
<1>3. CASE Acquire(d)
  BY <1>3 DEF Acquire
<1>4. CASE CheckTerminate(d)
  BY <1>4 DEF CheckTerminate
<1>5. CASE OpenDir(d)
  BY <1>5, HandlerFacts DEF OpenDir
<1>6. CASE LoadIgnores(d)
  BY <1>6, HandlerFacts DEF LoadIgnores
<1>7. CASE VisitFile(d)
  BY <1>7, DisposeTypes, HandlerFacts DEF VisitFile
<1>8. CASE FilesDone(d)
  BY <1>8 DEF FilesDone
<1>9. CASE VisitDir(d)
  BY <1>9, HandlerFacts DEF VisitDir
<1>10. CASE WaitChildren(d)
  BY <1>10 DEF WaitChildren
<1>11. CASE Unwind(d)
  BY <1>11, HandlerFacts DEF Unwind
<1>12. CASE Exit(d)
  <2>1. StartTypes'
    BY <1>12 DEF Exit, StartTypes, WalkTypes, FirstError, Error
  <2>. QED
    BY <1>12, <2>1 DEF Exit
<1>. QED
  BY <1>1, <1>2, <1>3, <1>4, <1>5, <1>6, <1>7, <1>8, <1>9, <1>10, <1>11, <1>12
  DEF Walk

\* One step of the type invariant.
LEMMA TypeStep == TypeOK /\ [Next]_vars => TypeOK'
<1>. SUFFICES ASSUME TypeOK, [Next]_vars PROVE TypeOK'
  OBVIOUS
<1>. USE StartTypesKept, QueueTypesKept, ErrorTypesKept, WalkTypesKept DEF TypeOK
<1>1. ASSUME NEW d \in Dir, Walk(d) PROVE TypeOK'
  BY <1>1, WalkTypesStep, SharedTypesStep
<1>2. ASSUME NEW i \in ConcurrencyArgs, SetConcurrency(i) PROVE TypeOK'
  <2>1. StartTypes'
    BY <1>2, ConfigAssumption DEF SetConcurrency, StartTypes
  <2>. QED
    BY <1>2, <2>1 DEF SetConcurrency
<1>3. CASE Start
  <2>1. StartTypes' /\ WalkTypes'
    BY <1>3 DEF Start, StartTypes, WalkTypes, entries, Phase, PC
  <2>. QED
    BY <1>3, <2>1 DEF Start
<1>4. CASE CloseQueue
  <2>1. StartTypes' /\ QueueTypes'
    BY <1>4 DEF CloseQueue, StartTypes, QueueTypes, Phase
  <2>. QED
    BY <1>4, <2>1 DEF CloseQueue
<1>5. CASE StartReturns
  <2>1. StartTypes'
    BY <1>5 DEF StartReturns, StartTypes, Phase
  <2>. QED
    BY <1>5, <2>1 DEF StartReturns
<1>6. CASE Terminate
  <2>1. ErrorTypes' /\ QueueTypes'
    BY <1>6 DEF Terminate, ErrorTypes, QueueTypes, queueVars
  <2>. QED
    BY <1>6, <2>1 DEF Terminate
<1>7. CASE Receive
  <2>1. QueueTypes'
    BY <1>7 DEF Receive, QueueTypes
  <2>. QED
    BY <1>7, <2>1 DEF Receive
<1>8. CASE UNCHANGED vars
  BY <1>8 DEF vars
<1>. QED
  BY <1>1, <1>2, <1>3, <1>4, <1>5, <1>6, <1>7, <1>8 DEF Next, Halted

\* Every variable of the walker keeps its type in every reachable state.
THEOREM TypeCorrect == Spec => []TypeOK
BY TypeInit, TypeStep, PTL DEF Spec

-----------------------------------------------------------------------------
(* The nesting of the activations                                          *)

LEMMA DepthFacts ==
  ASSUME NEW d \in Dir
  PROVE  /\ Depth[d] \in Nat
         /\ Depth[d] = 0 \/ Depth[d] = 1 \/ Depth[d] > 1
         /\ Depth[d] > 0 => /\ Parent[d] \in Dir
                          /\ Depth[Parent[d]] \in Nat
                          /\ Depth[d] = Depth[Parent[d]] + 1
BY TreeAssumption

LEMMA LeastOf ==
  ASSUME NEW T, T \subseteq Nat, T # {}
  PROVE  \E m \in T : \A n \in T : m <= n
<1>. DEFINE R == OpToRel(<, Nat)
<1>1. IsWellFoundedOn(R, Nat)
  BY NatLessThanWellFounded
<1>2. \A m, n \in Nat : m < n => <<m, n>> \in R
  BY DEF OpToRel
<1>. HIDE DEF R
<1>3. PICK m \in T : \A n \in T : ~(<<n, m>> \in R)
  BY <1>1, WFMin
<1>4. ASSUME NEW n \in T PROVE m <= n
  <2>1. m \in Nat /\ n \in Nat
    OBVIOUS
  <2>2. ~(n < m)
    BY <1>2, <1>3, <2>1
  <2>. QED
    BY <2>1, <2>2
<1>. QED
  BY <1>4

\* When every root is done no activation is alive: of the live ones, one has
\* the least depth, and its caller would have to be alive as well.
LEMMA Quiescent ==
  ASSUME StackInv, \A d \in Root : pc[d] = "done"
  PROVE  \A d \in Dir : ~Live(d)
<1>. DEFINE D == {Depth[d] : d \in {e \in Dir : Live(e)}}
<1>1. SUFFICES ASSUME NEW c \in Dir, Live(c) PROVE FALSE
  OBVIOUS
<1>2. D \subseteq Nat /\ D # {}
  BY <1>1, TreeAssumption
<1>3. PICK m \in D : \A n \in D : m <= n
  <2>. HIDE DEF D
  <2>. QED
    BY <1>2, LeastOf
<1>4. PICK d \in Dir : Live(d) /\ Depth[d] = m
  BY <1>3
<1>5. Depth[d] # 0
  BY <1>4 DEF Root, Live
<1>6. /\ Parent[d] \in Dir
      /\ Depth[Parent[d]] \in Nat
      /\ Depth[d] = Depth[Parent[d]] + 1
  BY <1>5, TreeAssumption
<1>7. Depth[d] # 1
  <2>1. ASSUME Depth[d] = 1 PROVE FALSE
    <3>1. pc[Parent[d]] = "dirs"
      BY <1>4, <2>1 DEF StackInv, StackAt
    <3>2. pc[Parent[d]] = "done"
      BY <1>6, <2>1 DEF Root
    <3>. QED
      BY <3>1, <3>2
  <2>. QED
    BY <2>1
<1>8. pc[Parent[d]] = "call"
  BY <1>4, <1>5, <1>6, <1>7 DEF StackInv, StackAt
<1>9. Depth[Parent[d]] \in D
  BY <1>6, <1>8 DEF Live
<1>10. m <= Depth[Parent[d]]
  <2>. HIDE DEF D
  <2>. QED
    BY <1>3, <1>9
<1>. QED
  BY <1>4, <1>6, <1>10

LEMMA StackKept == StackInv /\ UNCHANGED <<pc, files, dirs>> => StackInv'
BY DEF StackInv, StackAt, OneCall, Live, Begun

\* A live activation that moves on, with no other one under it, leaves the
\* nesting as it is.
LEMMA StackMove ==
  ASSUME WalkTypes, StackInv, NEW d \in Dir, NEW l \in PC,
         pc[d] \notin {"idle", "call", "done"},
         pc[d] = "dirs" => \A c \in SubdirsOf(d) : ~Live(c),
         pc' = [pc EXCEPT ![d] = l],
         files' \in [Dir -> SUBSET File], dirs' \in [Dir -> SUBSET Dir],
         \A e \in Dir : files'[e] \subseteq FilesOf(e),
         \A e \in Dir : dirs'[e] \subseteq dirs[e] \cup (IF e = d /\ pc[d] = "open" THEN SubdirsOf(d) ELSE {}),
         l \notin {"idle", "globals", "call"},
         l \in BeforeDirs => pc[d] \in BeforeDirs,
         l = "acquire" => Depth[d] = 1,
         l \in {"acquire", "check", "open", "ignores", "files", "dirs"} => Within(d)
  PROVE  StackInv'
<1>. USE TreeAssumption DEF WalkTypes
<1>1. \A e \in Dir : Live(e)' => Live(e)
  BY DEF StackInv, Live, PC
<1>2. \A e \in Dir : Begun(e)' <=> Begun(e)
  BY DEF StackInv, Begun, PC
<1>3. OneCall'
  BY <1>1 DEF StackInv, OneCall
<1>4. ASSUME NEW e \in Dir PROVE StackAt(e)'
  <2>1. StackAt(e)
    BY DEF StackInv
  <2>2. Live(e)' => Live(e)
    BY <1>1
  <2>3. Begun(e)' => Begun(e)
    BY <1>2
  <2>4. dirs'[e] \subseteq {c \in SubdirsOf(e) : ~Begun(c)'}
    <3>1. CASE e = d /\ pc[d] = "open"
      <4>1. \A c \in SubdirsOf(d) : ~Begun(c)
        BY <3>1 DEF StackInv, StackAt, SubdirsOf, BeforeDirs
      <4>. QED
        BY <1>2, <2>1, <3>1, <4>1 DEF StackAt, SubdirsOf
    <3>2. CASE ~(e = d /\ pc[d] = "open")
      BY <1>2, <2>1, <3>2 DEF StackAt, SubdirsOf
    <3>. QED
      BY <3>1, <3>2
  <2>5. /\ pc'[e] = "globals" => Depth[e] = 0
        /\ pc'[e] = "acquire" => Depth[e] = 1
        /\ pc'[e] = "call" => Depth[e] > 0
        /\ pc'[e] \in {"acquire", "check", "open", "ignores", "files", "dirs", "call"}
             => Within(e)
    BY <2>1 DEF StackAt
  <2>6. ASSUME Depth[e] > 0, Live(e)' PROVE pc'[Parent[e]] = pc[Parent[e]]
    <3>1. Depth[e] = 1 \/ Depth[e] > 1
      BY <2>6, DepthFacts
    <3>2. pc[Parent[e]] \in {"dirs", "call"}
      BY <2>1, <2>2, <2>6, <3>1 DEF StackAt
    <3>3. Parent[e] # d
      BY <2>2, <2>6, <3>2 DEF SubdirsOf
    <3>. QED
      BY <3>3
  <2>7. Depth[e] > 0 /\ Begun(e)' => pc'[Parent[e]] \notin BeforeDirs
    BY <2>1, <2>3 DEF StackAt
  <2>. QED
    BY <2>1, <2>2, <2>4, <2>5, <2>6, <2>7 DEF StackAt, Within
<1>. QED
  BY <1>3, <1>4 DEF StackInv

\* A goroutine or a call begins in c, which d has just taken off its list.
LEMMA StackDescend ==
  ASSUME WalkTypes, StackInv, NEW d \in Dir, NEW c \in dirs[d], NEW ignore,
         pc[d] = "dirs", Descend(d, c, ignore), UNCHANGED files
  PROVE  StackInv'
<1>. USE DEF WalkTypes
<1>1. /\ c \in Dir /\ c # d /\ pc[c] = "idle" /\ Depth[c] > 0 /\ Parent[c] = d
      /\ c \in SubdirsOf(d)
  BY DEF StackInv, StackAt, SubdirsOf, Begun
<1>2. \A e \in SubdirsOf(d) : Depth[e] > 1 => ~Live(e)
  BY DEF StackInv, StackAt, SubdirsOf
<1>3. dirs' \in [Dir -> SUBSET Dir] /\ \A e \in Dir : dirs'[e] \subseteq dirs[e]
  BY DEF Descend
<1>4. c \notin dirs'[d]
  BY DEF Descend
<1>5. CASE UNCHANGED pc
  BY <1>3, <1>5 DEF StackInv, StackAt, OneCall, Live, Begun
<1>6. CASE pc' # pc
  <2>1. /\ pc' \in [Dir -> PC]
        /\ pc'[c] = "enter"
        /\ pc'[d] = IF Depth[d] = 0 THEN "dirs" ELSE "call"
        /\ \A e \in Dir \ {c, d} : pc'[e] = pc[e]
    BY <1>1, <1>6 DEF Descend, Goto, PC
  <2>2. OneCall'
    <3>1. SUFFICES ASSUME NEW x \in Dir, NEW y \in Dir, x # y, Parent[x] = Parent[y],
                          Depth[x] > 1, Depth[y] > 1, Live(x)', Live(y)'
                   PROVE  FALSE
      BY DEF OneCall
    <3>2. \A e \in Dir \ {c} : Live(e)' => Live(e)
      BY <2>1 DEF Live
    <3>3. CASE x = c
      BY <1>1, <1>2, <3>1, <3>2, <3>3, DepthFacts DEF SubdirsOf
    <3>4. CASE y = c
      BY <1>1, <1>2, <3>1, <3>2, <3>4, DepthFacts DEF SubdirsOf
    <3>5. CASE x # c /\ y # c
      BY <3>1, <3>2, <3>5 DEF StackInv, OneCall
    <3>. QED
      BY <3>3, <3>4, <3>5
  <2>3. ASSUME NEW e \in Dir PROVE StackAt(e)'
    <3>1. StackAt(e)
      BY DEF StackInv
    <3>2. dirs'[e] \subseteq {x \in SubdirsOf(e) : ~Begun(x)'}
      <4>1. ASSUME NEW x \in dirs'[e] PROVE x \in SubdirsOf(e) /\ pc'[x] = "idle"
        <5>1. x \in SubdirsOf(e) /\ pc[x] = "idle" /\ x \in Dir
          BY <1>3, <3>1, <4>1 DEF StackAt, Begun
        <5>2. x # c
          BY <1>1, <1>4, <4>1, <5>1 DEF SubdirsOf
        <5>. QED
          BY <2>1, <5>1, <5>2
      <4>. QED
        BY <4>1, <1>3 DEF Begun
    <3>3. CASE e = c
      <4>1. Depth[d] = 0 <=> Depth[c] = 1
        BY <1>1, DepthFacts
      <4>. QED
        BY <1>1, <2>1, <3>1, <3>2, <3>3, <4>1, DepthFacts DEF StackAt, BeforeDirs, Within
    <3>4. CASE e = d
      <4>1. Depth[d] > 0 => Parent[d] # d /\ Parent[d] # c
        BY <1>1, DepthFacts
      <4>. QED
        BY <1>1, <2>1, <3>1, <3>2, <3>4, <4>1, DepthFacts DEF StackAt, Live, Begun, Within
    <3>5. CASE e \notin {c, d}
      <4>1. Depth[e] > 0 => Parent[e] \in Dir
        BY DepthFacts
      <4>2. Depth[e] > 0 /\ Begun(e) => Parent[e] # c
        BY <1>1, <3>1 DEF StackAt, BeforeDirs
      <4>3. Depth[e] > 1 /\ Live(e) => Parent[e] # d
        BY <3>1 DEF StackAt
      <4>4. Depth[e] = 1 /\ Live(e) /\ Parent[e] = d => Depth[d] = 0
        BY DepthFacts
      <4>5. pc'[e] = pc[e] /\ (Live(e)' <=> Live(e)) /\ (Begun(e)' <=> Begun(e))
        BY <2>1, <3>5 DEF Live, Begun
      <4>6. Live(e) => Begun(e)
        BY DEF Live, Begun
      <4>7. Depth[e] = 1 /\ Live(e) => pc'[Parent[e]] = "dirs"
        BY <2>1, <3>1, <4>1, <4>2, <4>4, <4>6 DEF StackAt
      <4>8. Depth[e] > 1 /\ Live(e) => pc'[Parent[e]] = "call"
        BY <2>1, <3>1, <4>1, <4>2, <4>3, <4>6, DepthFacts DEF StackAt
      <4>9. Depth[e] > 0 /\ Begun(e) => pc'[Parent[e]] \notin BeforeDirs
        BY <2>1, <3>1, <4>1, <4>2 DEF StackAt, BeforeDirs
      <4>. QED
        BY <3>1, <3>2, <4>5, <4>7, <4>8, <4>9 DEF StackAt, Within
    <3>. QED
      BY <3>3, <3>4, <3>5
  <2>. QED
    BY <2>2, <2>3 DEF StackInv
<1>. QED
  BY <1>5, <1>6

\* An activation that returns hands control back to its caller.
LEMMA StackExit ==
  ASSUME WalkTypes, StackInv, NEW d \in Dir, Exit(d)
  PROVE  StackInv'
<1>. USE DEF WalkTypes
<1>1. pc[d] = "exit" /\ UNCHANGED <<files, dirs>>
  BY DEF Exit, At, entries
<1>2. CASE Depth[d] = 0 \/ Depth[d] = 1
  <2>1. pc' = [pc EXCEPT ![d] = "done"]
    BY <1>2 DEF Exit, Goto
  <2>2. "done" \in PC \ (BeforeDirs \cup {"acquire", "idle", "globals", "call"})
    BY DEF PC, BeforeDirs
  <2>3. \A e \in Dir : files'[e] \subseteq FilesOf(e) /\ dirs'[e] \subseteq dirs[e]
    BY <1>1 DEF StackInv, StackAt
  <2>. QED
    BY <1>1, <2>1, <2>2, <2>3, StackMove
<1>3. CASE Depth[d] > 1
  <2>. DEFINE p == Parent[d]
  <2>1. p \in Dir /\ pc[p] = "call" /\ p # d
    BY <1>1, <1>3, DepthFacts DEF StackInv, StackAt, Live
  <2>2. /\ pc' \in [Dir -> PC]
        /\ pc'[d] = "done"
        /\ pc'[p] \in {"dirs", "unwind"}
        /\ \A e \in Dir \ {d, p} : pc'[e] = pc[e]
    BY <1>3, <2>1 DEF Exit, PC
  <2>3. \A e \in Dir : Live(e)' => Live(e) /\ e # d
    BY <1>1, <2>1, <2>2 DEF Live
  <2>4. \A e \in Dir : Begun(e)' <=> Begun(e)
    BY <1>1, <2>1, <2>2 DEF Begun
  <2>5. ASSUME NEW e \in Dir, Depth[e] > 0, Live(e)' PROVE pc'[Parent[e]] = pc[Parent[e]]
    <3>1. Live(e) /\ e # d
      BY <2>3, <2>5
    <3>2. Depth[e] = 1 \/ Depth[e] > 1
      BY <2>5, DepthFacts
    <3>3. pc[Parent[e]] \in {"dirs", "call"}
      BY <2>5, <3>1, <3>2 DEF StackInv, StackAt
    <3>4. Parent[e] # d
      BY <1>1, <3>3
    <3>5. Depth[e] = 1 => Parent[e] # p
      BY <1>3, <2>1, DepthFacts DEF StackInv, StackAt
    <3>6. Depth[e] > 1 => Parent[e] # p
      BY <1>1, <1>3, <3>1 DEF StackInv, OneCall, Live
    <3>7. Parent[e] \in Dir
      BY <2>5, DepthFacts
    <3>. QED
      BY <2>2, <3>2, <3>4, <3>5, <3>6, <3>7
  <2>6. ASSUME NEW e \in Dir PROVE StackAt(e)'
    <3>1. StackAt(e)
      BY DEF StackInv
    <3>2. Depth[e] > 0 /\ Begun(e)' => pc'[Parent[e]] \notin BeforeDirs
      BY <1>1, <2>2, <2>4, <3>1, DepthFacts DEF StackAt, BeforeDirs
    <3>3. dirs'[e] \subseteq {c \in SubdirsOf(e) : ~Begun(c)'}
      BY <1>1, <2>4, <3>1 DEF StackAt, SubdirsOf
    <3>4. /\ pc'[e] = "globals" => Depth[e] = 0
          /\ pc'[e] = "acquire" => Depth[e] = 1
          /\ pc'[e] = "call" => Depth[e] > 0
          /\ pc'[e] \in {"acquire", "check", "open", "ignores", "files", "dirs", "call"}
               => Within(e)
      BY <2>1, <2>2, <3>1 DEF StackAt
    <3>5. /\ Depth[e] = 1 /\ Live(e)' => pc'[Parent[e]] = "dirs"
          /\ Depth[e] > 1 /\ Live(e)' => pc'[Parent[e]] = "call"
      BY <2>3, <2>5, <3>1, DepthFacts DEF StackAt
    <3>6. files'[e] \subseteq FilesOf(e)
      BY <1>1, <3>1 DEF StackAt
    <3>. QED
      BY <3>2, <3>3, <3>4, <3>5, <3>6 DEF StackAt, Within
  <2>7. OneCall'
    BY <2>3 DEF StackInv, OneCall
  <2>. QED
    BY <2>6, <2>7 DEF StackInv
<1>. QED
  BY <1>2, <1>3, DepthFacts

LEMMA VerdictsBoolean ==
  ASSUME NEW d, NEW e
  PROVE  Verdicts(d, e) \subseteq BOOLEAN /\ VerdictsAfterFault(d, e) \subseteq BOOLEAN
BY DEF Verdicts, VerdictsAfterFault

\* A turn of the directory loop disposes of an entry or returns.
LEMMA VisitDirCases ==
  ASSUME NEW d, VisitDir(d)
  PROVE  \/ \E c \in dirs[d], ignore \in BOOLEAN : Descend(d, c, ignore)
         \/ /\ \E c \in dirs[d] : c \in FaultyEntry
            /\ Return(d, "io")
            /\ UNCHANGED dirs
<1>1. PICK c \in dirs[d] :
         \/ \E ignore \in Verdicts(d, c) : Descend(d, c, ignore)
         \/ /\ c \in FaultyEntry
            /\ \/ \E ignore \in VerdictsAfterFault(d, c) : Descend(d, c, ignore)
               \/ Return(d, "io") /\ UNCHANGED dirs
  BY DEF VisitDir
<1>. QED
  BY <1>1, VerdictsBoolean

\* Every step of an activation keeps the nesting.
LEMMA StackStep ==
  ASSUME HiddenCheckTotal, WalkTypes, WalkTypes', StackInv, CountInv,
         NEW d \in Dir, Walk(d)
  PROVE  StackInv'
<1>. DEFINE Ahead(l) == pc' = [pc EXCEPT ![d] = l]
<1>. USE DEF At, Goto, Return, entries
<1>0. StackAt(d) /\ \A e \in Dir : files[e] \subseteq FilesOf(e) /\ FilesOf(e) \subseteq File
  BY DEF StackInv, StackAt, FilesOf
<1>1. ASSUME NEW l \in {"enter", "acquire", "check", "files", "dirs", "unwind", "exit"},
             Ahead(l), UNCHANGED <<files, dirs>>,
             pc[d] \in {"globals", "enter", "acquire", "check", "open", "ignores", "files", "unwind"},
             l \in BeforeDirs => pc[d] \in BeforeDirs,
             l = "acquire" => Depth[d] = 1,
             l \in {"acquire", "check", "files", "dirs"} => Within(d)
      PROVE  StackInv'
  <2>1. l \in PC \ {"idle", "globals", "call"}
    BY DEF PC
  <2>. QED
    BY <1>0, <1>1, <2>1, StackMove DEF WalkTypes
<1>2. CASE BuildGlobalIgnores(d)
  BY <1>1, <1>2 DEF BuildGlobalIgnores, BeforeDirs
<1>3. CASE Enter(d)
  <2>1. ~Cut(d) => Within(d)
    BY DepthFacts, ConfigAssumption DEF Cut, Within
  <2>. QED
    BY <1>1, <1>3, <2>1 DEF Enter, NeedsSlot, BeforeDirs
<1>4. CASE Acquire(d)
  BY <1>0, <1>1, <1>4 DEF Acquire, BeforeDirs, StackAt
<1>5. CASE CheckTerminate(d)
  <2>1. ASSUME Ahead("open") PROVE StackInv'
    <3>1. "open" \in PC
      BY DEF PC
    <3>. QED
      BY <1>0, <1>5, <2>1, <3>1, StackMove DEF CheckTerminate, BeforeDirs, WalkTypes, StackAt
  <2>. QED
    BY <1>1, <1>5, <2>1 DEF CheckTerminate, BeforeDirs
<1>6. CASE OpenDir(d)
  <2>1. CASE Ahead("unwind") /\ UNCHANGED entries
    BY <1>1, <1>6, <2>1 DEF OpenDir, BeforeDirs
  <2>2. CASE /\ files' = [files EXCEPT ![d] = FilesOf(d)]
             /\ dirs' = [dirs EXCEPT ![d] = SubdirsOf(d)]
             /\ Ahead("ignores")
    <3>1. /\ "ignores" \in PC
          /\ pc[d] = "open"
      BY <1>6 DEF OpenDir, PC
    <3>2. \A e \in Dir : /\ files'[e] \subseteq FilesOf(e)
                         /\ dirs'[e] \subseteq dirs[e] \cup (IF e = d THEN SubdirsOf(d) ELSE {})
      BY <1>0, <2>2 DEF WalkTypes
    <3>3. Within(d)
      BY <1>0, <3>1 DEF StackAt
    <3>. QED
      BY <2>2, <3>1, <3>2, <3>3, StackMove DEF WalkTypes, BeforeDirs
  <2>. QED
    BY <1>6, <2>1, <2>2 DEF OpenDir
<1>7. CASE LoadIgnores(d)
  BY <1>0, <1>1, <1>7 DEF LoadIgnores, BeforeDirs, StackAt
<1>8. CASE VisitFile(d)
  <2>1. CASE Ahead("unwind") /\ UNCHANGED files
    BY <1>1, <1>8, <2>1 DEF VisitFile, BeforeDirs
  <2>2. CASE UNCHANGED pc
    <3>1. \A e \in Dir : files'[e] \subseteq files[e]
      BY <1>8 DEF VisitFile, Dispose, WalkTypes
    <3>. QED
      BY <1>8, <2>2, <3>1 DEF VisitFile, StackInv, StackAt, OneCall, Live, Begun
  <2>. QED
    BY <1>8, <2>1, <2>2 DEF VisitFile
<1>9. CASE FilesDone(d)
  BY <1>0, <1>1, <1>9 DEF FilesDone, BeforeDirs, StackAt
<1>10. CASE VisitDir(d)
  <2>1. CASE \E c \in dirs[d], ignore \in BOOLEAN : Descend(d, c, ignore)
    BY <1>10, <2>1, StackDescend DEF VisitDir
  <2>2. CASE /\ \E c \in dirs[d] : c \in FaultyEntry
             /\ Ahead("unwind")
             /\ UNCHANGED dirs
    <3>1. /\ Depth[d] # 0
          /\ pc[d] = "dirs"
      BY <1>0, <1>10, <2>2, DepthFacts DEF VisitDir, HiddenCheckTotal, StackAt, SubdirsOf
    <3>2. \A c \in SubdirsOf(d) : ~Live(c)
      BY <3>1, DepthFacts DEF StackInv, StackAt, SubdirsOf
    <3>3. "unwind" \in PC \ (BeforeDirs \cup {"done"})
      BY DEF PC, BeforeDirs
    <3>. QED
      BY <1>0, <1>10, <2>2, <3>1, <3>2, <3>3, StackMove DEF VisitDir, WalkTypes
  <2>. QED
    BY <1>10, <2>1, <2>2, VisitDirCases DEF Return, Goto
<1>11. CASE WaitChildren(d)
  <2>1. /\ pc[d] = "dirs"
        /\ Ahead("unwind")
        /\ UNCHANGED <<files, dirs>>
    BY <1>11 DEF WaitChildren
  <2>2. \A c \in SubdirsOf(d) : ~Live(c)
    BY <1>11, <2>1, DepthFacts DEF CountInv, WaitChildren, StackInv, StackAt, SubdirsOf
  <2>3. "unwind" \in PC \ (BeforeDirs \cup {"done"})
    BY DEF PC, BeforeDirs
  <2>. QED
    BY <1>0, <2>1, <2>2, <2>3, StackMove DEF WalkTypes
<1>12. CASE Unwind(d)
  BY <1>1, <1>12 DEF Unwind, BeforeDirs
<1>13. CASE Exit(d)
  BY <1>13, StackExit
<1>. QED
  BY <1>2, <1>3, <1>4, <1>5, <1>6, <1>7, <1>8, <1>9, <1>10, <1>11, <1>12, <1>13
  DEF Walk

-----------------------------------------------------------------------------
(* The WaitGroups and the semaphore                                        *)

LEMMA CountKept == CountInv /\ UNCHANGED <<pc, wg>> => CountInv'
BY DEF CountInv, Live

\* An activation that stays alive leaves the count as it is.
LEMMA CountMove ==
  ASSUME WalkTypes, CountInv, NEW d \in Dir, NEW l \in PC \ {"idle", "done"},
         pc[d] \notin {"idle", "done"}, pc' = [pc EXCEPT ![d] = l], UNCHANGED wg
  PROVE  CountInv'
<1>1. \A e \in Dir : Live(e)' <=> Live(e)
  BY DEF WalkTypes, Live
<1>. QED
  BY <1>1 DEF CountInv

\* wg.Add comes with the goroutine, wg.Done with its end.
LEMMA CountStep ==
  ASSUME WalkTypes, StackInv, CountInv, NEW d \in Dir, Walk(d)
  PROVE  CountInv'
<1>. DEFINE Ahead(l) == pc' = [pc EXCEPT ![d] = l]
<1>. USE DEF At, Goto, Return, entries
<1>1. ASSUME NEW l \in {"enter", "acquire", "check", "open", "ignores", "files", "dirs",
                        "unwind", "exit"},
             Ahead(l), UNCHANGED wg, pc[d] \notin {"idle", "done"}
      PROVE  CountInv'
  <2>1. l \in PC \ {"idle", "done"}
    BY DEF PC
  <2>. QED
    BY <1>1, <2>1, CountMove
<1>2. CASE BuildGlobalIgnores(d)
  BY <1>1, <1>2 DEF BuildGlobalIgnores
<1>3. CASE Enter(d)
  BY <1>1, <1>3 DEF Enter
<1>4. CASE Acquire(d)
  BY <1>1, <1>4 DEF Acquire
<1>5. CASE CheckTerminate(d)
  BY <1>1, <1>5 DEF CheckTerminate
<1>6. CASE OpenDir(d)
  BY <1>1, <1>6 DEF OpenDir
<1>7. CASE LoadIgnores(d)
  BY <1>1, <1>7 DEF LoadIgnores
<1>8. CASE VisitFile(d)
  BY <1>1, <1>8, CountKept DEF VisitFile
<1>9. CASE FilesDone(d)
  BY <1>1, <1>9 DEF FilesDone
<1>10. CASE VisitDir(d)
  <2>1. pc[d] = "dirs"
    BY <1>10 DEF VisitDir
  <2>2. ASSUME NEW c \in dirs[d], NEW ignore, Descend(d, c, ignore) PROVE CountInv'
    <3>1. c \in Dir /\ pc[c] = "idle" /\ Depth[c] > 0 /\ Depth[c] = Depth[d] + 1 /\ c # d
      BY <2>1, DepthFacts DEF StackInv, StackAt, SubdirsOf, Begun
    <3>2. CASE UNCHANGED <<pc, wg>>
      BY <3>2, CountKept
    <3>3. CASE Depth[d] = 0 /\ pc' = [pc EXCEPT ![c] = "enter"] /\ wg' = wg \cup {c}
      <4>1. \A e \in Dir : Live(e)' <=> Live(e) \/ e = c
        BY <3>1, <3>3 DEF WalkTypes, Live
      <4>. QED
        BY <3>1, <3>3, <4>1 DEF CountInv
    <3>4. CASE Depth[d] # 0 /\ pc' = [pc EXCEPT ![c] = "enter", ![d] = "call"] /\ wg' = wg
      <4>1. \A e \in Dir : Live(e)' <=> Live(e) \/ e = c
        BY <2>1, <3>1, <3>4 DEF WalkTypes, Live
      <4>2. Depth[c] # 1
        BY <3>1, <3>4, DepthFacts
      <4>. QED
        BY <3>4, <4>1, <4>2 DEF CountInv
    <3>. QED
      BY <2>2, <3>2, <3>3, <3>4 DEF Descend, Added
  <2>3. CASE Ahead("unwind") /\ UNCHANGED wg
    BY <1>1, <2>1, <2>3
  <2>. QED
    BY <1>10, <2>2, <2>3, VisitDirCases DEF VisitDir
<1>11. CASE WaitChildren(d)
  BY <1>1, <1>11 DEF WaitChildren
<1>12. CASE Unwind(d)
  BY <1>1, <1>12 DEF Unwind
<1>13. CASE Exit(d)
  <2>1. pc[d] = "exit"
    BY <1>13 DEF Exit
  <2>2. CASE Depth[d] = 0
    <3>1. \A e \in Dir : e # d => (Live(e)' <=> Live(e))
      BY <1>13, <2>2 DEF Exit, WalkTypes, Live
    <3>. QED
      BY <1>13, <2>2, <3>1 DEF Exit, CountInv
  <2>3. CASE Depth[d] = 1
    <3>1. \A e \in Dir : Live(e)' <=> Live(e) /\ e # d
      BY <1>13, <2>1, <2>3 DEF Exit, WalkTypes, Live
    <3>. QED
      BY <1>13, <2>3, <3>1 DEF Exit, CountInv
  <2>4. CASE Depth[d] > 1
    <3>1. Parent[d] \in Dir /\ pc[Parent[d]] = "call" /\ Parent[d] # d
      BY <2>1, <2>4, DepthFacts DEF StackInv, StackAt, Live
    <3>2. \A e \in Dir : e # d => (Live(e)' <=> Live(e))
      BY <1>13, <2>4, <3>1 DEF Exit, WalkTypes, Live
    <3>. QED
      BY <1>13, <2>4, <3>2 DEF Exit, CountInv
  <2>. QED
    BY <2>2, <2>3, <2>4, DepthFacts
<1>. QED
  BY <1>2, <1>3, <1>4, <1>5, <1>6, <1>7, <1>8, <1>9, <1>10, <1>11, <1>12, <1>13
  DEF Walk

LEMMA SlotsKept == SlotsAccounted /\ UNCHANGED <<pc, sem>> => SlotsAccounted'
BY DEF SlotsAccounted, InSection, Within

\* A step that takes nobody into the section or out of it.
LEMMA SlotsSame ==
  ASSUME SlotsAccounted, \A e \in Dir : InSection(e)' <=> InSection(e), UNCHANGED sem
  PROVE  SlotsAccounted'
BY DEF SlotsAccounted

Section == {"check", "open", "ignores", "files", "dirs", "call", "unwind"}

\* An activation takes its slot before it does anything and gives it back as
\* the last thing, however it returns.
LEMMA SlotsStep ==
  ASSUME WalkTypes, StackInv, SlotsAccounted, NEW d \in Dir, Walk(d)
  PROVE  SlotsAccounted'
<1>. DEFINE Ahead(l) == pc' = [pc EXCEPT ![d] = l]
<1>. USE DEF At, Goto, Return, entries, WalkTypes
<1>0. StackAt(d)
  BY DEF StackInv
<1>1. ASSUME NEW l \in PC, Ahead(l), UNCHANGED sem,
             Depth[d] = 1 /\ Within(d) => (pc[d] \in Section <=> l \in Section)
      PROVE  SlotsAccounted'
  <2>1. \A e \in Dir : InSection(e)' <=> InSection(e)
    BY <1>1 DEF InSection, Section, Within
  <2>. QED
    BY <1>1, <2>1, SlotsSame
<1>2. CASE BuildGlobalIgnores(d)
  BY <1>0, <1>1, <1>2 DEF BuildGlobalIgnores, StackAt, PC
<1>3. CASE Enter(d)
  <2>1. Within(d) => ~Cut(d)
    BY DepthFacts, ConfigAssumption DEF Cut, Within
  <2>. QED
    BY <1>1, <1>3, <2>1 DEF Enter, NeedsSlot, Section, PC
<1>4. CASE Acquire(d)
  <2>1. /\ IsFiniteSet(sem)
        /\ Cardinality(sem) \in Nat
        /\ Cardinality(sem) < SemaphoreCount
    BY <1>4, TreeAssumption, FS_Subset, FS_CardinalityType DEF Acquire
  <2>2. Cardinality(sem') <= SemaphoreCount
    <3>1. Cardinality(sem \cup {d}) \in {Cardinality(sem), Cardinality(sem) + 1}
      BY <2>1, FS_AddElement
    <3>2. SemaphoreCount \in Nat
      BY ConfigAssumption
    <3>3. sem' = sem \cup {d}
      BY <1>4 DEF Acquire
    <3>. QED
      BY <2>1, <3>1, <3>2, <3>3
  <2>3. Depth[d] = 1 /\ Within(d)
    BY <1>0, <1>4 DEF Acquire, StackAt
  <2>4. \A e \in Dir : InSection(e)' <=> InSection(e) \/ e = d
    BY <1>4, <2>3 DEF Acquire, InSection, Within
  <2>. QED
    BY <1>4, <2>2, <2>4 DEF Acquire, SlotsAccounted
<1>5. CASE CheckTerminate(d)
  BY <1>1, <1>5 DEF CheckTerminate, Section, PC
<1>6. CASE OpenDir(d)
  BY <1>1, <1>6 DEF OpenDir, Section, PC
<1>7. CASE LoadIgnores(d)
  BY <1>1, <1>7 DEF LoadIgnores, Section, PC
<1>8. CASE VisitFile(d)
  BY <1>1, <1>8, SlotsKept DEF VisitFile, Section, PC
<1>9. CASE FilesDone(d)
  BY <1>1, <1>9 DEF FilesDone, Section, PC
<1>10. CASE VisitDir(d)
  <2>1. pc[d] = "dirs" /\ UNCHANGED sem
    BY <1>10 DEF VisitDir
  <2>2. ASSUME NEW c \in dirs[d], NEW ignore, Descend(d, c, ignore) PROVE SlotsAccounted'
    <3>1. c \in Dir /\ pc[c] = "idle" /\ c # d
      BY <2>1 DEF StackInv, StackAt, SubdirsOf, Begun
    <3>2. \A e \in Dir : InSection(e)' <=> InSection(e)
      BY <2>1, <2>2, <3>1 DEF Descend, InSection, Within
    <3>. QED
      BY <2>1, <3>2, SlotsSame
  <2>3. CASE Ahead("unwind")
    BY <1>1, <2>1, <2>3 DEF Section, PC
  <2>. QED
    BY <2>2, <2>3, <1>10, VisitDirCases
<1>11. CASE WaitChildren(d)
  BY <1>1, <1>11 DEF WaitChildren, Section, PC
<1>12. CASE Unwind(d)
  <2>1. /\ IsFiniteSet(sem)
        /\ Cardinality(sem \ {d}) <= Cardinality(sem)
        /\ Cardinality(sem) \in Nat
        /\ Cardinality(sem \ {d}) \in Nat
    BY TreeAssumption, FS_Subset, FS_CardinalityType
  <2>2. sem' = sem \ {d} /\ Ahead("exit")
    BY <1>12 DEF Unwind, SlotReleased
  <2>3. \A e \in Dir : InSection(e)' <=> InSection(e) /\ e # d
    BY <2>2 DEF InSection, Within
  <2>4. Cardinality(sem') <= SemaphoreCount
    BY <2>1, <2>2, ConfigAssumption DEF SlotsAccounted
  <2>. QED
    BY <2>2, <2>3, <2>4 DEF SlotsAccounted
<1>13. CASE Exit(d)
  <2>1. pc[d] = "exit" /\ UNCHANGED sem
    BY <1>13 DEF Exit
  <2>2. CASE Ahead("done")
    BY <1>1, <2>1, <2>2 DEF Section, PC
  <2>3. CASE Depth[d] > 1
    <3>1. Parent[d] \in Dir /\ pc[Parent[d]] = "call" /\ Parent[d] # d
      BY <2>1, <2>3, DepthFacts DEF StackInv, StackAt, Live
    <3>2. \A e \in Dir : InSection(e)' <=> InSection(e)
      BY <1>13, <2>1, <2>3, <3>1 DEF Exit, InSection, Within
    <3>. QED
      BY <2>1, <3>2, SlotsSame
  <2>. QED
    BY <1>13, <2>2, <2>3, DepthFacts DEF Exit
<1>. QED
  BY <1>2, <1>3, <1>4, <1>5, <1>6, <1>7, <1>8, <1>9, <1>10, <1>11, <1>12, <1>13
  DEF Walk

-----------------------------------------------------------------------------
(* The handles                                                             *)

\* A step that opens and closes nothing, and takes those who hold a handle to
\* where they hold one.
LEMMA HandleKept ==
  ASSUME HandleInv, UNCHANGED open,
         \A e \in Dir : \/ pc'[e] = pc[e]
                        \/ e \notin open /\ pc'[e] \notin {"ignores", "files", "dirs", "call"}
                        \/ e \in open /\ pc'[e] \in {"ignores", "files", "dirs", "call", "unwind"}
  PROVE  HandleInv'
BY DEF HandleInv, HandleAt, Within

\* A directory's handle is opened by an activation that will unwind, and closed
\* there with those of its files.
LEMMA HandleStep ==
  ASSUME WalkTypes, StackInv, HandleInv, NEW d \in Dir, Walk(d)
  PROVE  HandleInv'
<1>. USE DEF At, Goto, Return
<1>0. pc \in [Dir -> PC] /\ files \in [Dir -> SUBSET File] /\ \A e \in Dir : HandleAt(e)
  BY DEF WalkTypes, HandleInv
<1>a. \A f \in File : Home[f] \in Dir /\ f \notin Dir
  BY TreeAssumption
<1>b. ASSUME UNCHANGED open, d \notin open, NEW l, pc' = [pc EXCEPT ![d] = l],
             l \notin {"ignores", "files", "dirs", "call"}
      PROVE  HandleInv'
  BY <1>0, <1>b, HandleKept
<1>c. ASSUME UNCHANGED open, d \in open,
             NEW l \in {"ignores", "files", "dirs", "call", "unwind"}, pc' = [pc EXCEPT ![d] = l]
      PROVE  HandleInv'
  BY <1>0, <1>c, HandleKept
<1>1. CASE BuildGlobalIgnores(d)
  BY <1>0, <1>1, <1>b DEF BuildGlobalIgnores, HandleAt
<1>2. CASE Enter(d)
  BY <1>0, <1>2, <1>b DEF Enter, HandleAt
<1>3. CASE Acquire(d)
  BY <1>0, <1>3, <1>b DEF Acquire, HandleAt
<1>4. CASE CheckTerminate(d)
  BY <1>0, <1>4, <1>b DEF CheckTerminate, HandleAt
<1>5. CASE OpenDir(d)
  <2>1. \/ pc' = [pc EXCEPT ![d] = "ignores"] /\ open' = open \cup {d}
        \/ pc' = [pc EXCEPT ![d] = "unwind"] /\ open' \in {open, open \cup {d}}
    BY <1>5 DEF OpenDir
  <2>. QED
    BY <1>0, <1>5, <1>a, <2>1 DEF OpenDir, HandleInv, HandleAt, StackInv, StackAt, Within
<1>6. CASE LoadIgnores(d)
  BY <1>0, <1>6, <1>c DEF LoadIgnores, HandleAt
<1>7. CASE VisitFile(d)
  <2>1. PICK f \in files[d] : open' \in {open, open \cup {f}}
    BY <1>7 DEF VisitFile, Probe, ProbeAfterFault
  <2>2. pc[d] = "files" /\ (UNCHANGED pc \/ pc' = [pc EXCEPT ![d] = "unwind"])
    BY <1>7 DEF VisitFile
  <2>3. f \in File /\ Home[f] = d /\ d \in open
    BY <1>0, <2>1, <2>2 DEF StackInv, StackAt, FilesOf, HandleAt
  <2>4. \A e \in Dir : HandleAt(e)'
    BY <1>0, <1>a, <2>1, <2>2, <2>3 DEF HandleAt, Within
  <2>. QED
    BY <2>1, <2>3, <2>4 DEF HandleInv
<1>8. CASE FilesDone(d)
  BY <1>0, <1>8, <1>c DEF FilesDone, HandleAt
<1>9. CASE VisitDir(d)
  <2>1. pc[d] = "dirs" /\ UNCHANGED open /\ d \in open
    BY <1>0, <1>9 DEF VisitDir, HandleAt
  <2>2. ASSUME NEW c \in dirs[d], NEW ignore, Descend(d, c, ignore) PROVE HandleInv'
    <3>1. c \in Dir /\ pc[c] = "idle" /\ c # d
      BY <2>1 DEF StackInv, StackAt, SubdirsOf, Begun, WalkTypes
    <3>2. c \notin open
      BY <1>0, <3>1 DEF HandleAt
    <3>3. \A e \in Dir : \/ pc'[e] = pc[e]
                         \/ e = c /\ pc'[e] = "enter"
                         \/ e = d /\ pc'[e] = "call"
      BY <1>0, <2>2, <3>1 DEF Descend
    <3>. QED
      BY <2>1, <3>2, <3>3, HandleKept
  <2>3. CASE pc' = [pc EXCEPT ![d] = "unwind"]
    BY <2>1, <2>3, <1>c
  <2>. QED
    BY <2>2, <2>3, <1>9, VisitDirCases
<1>10. CASE WaitChildren(d)
  BY <1>0, <1>10, <1>c DEF WaitChildren, HandleAt
<1>11. CASE Unwind(d)
  <2>1. pc' = [pc EXCEPT ![d] = "exit"] /\ open' = open \ ({d} \cup FilesOf(d))
    BY <1>11 DEF Unwind, HandlesClosed
  <2>2. \A e \in Dir : e \in open' <=> e \in open /\ e # d
    BY <1>a, <2>1 DEF FilesOf
  <2>3. \A e \in Dir : HandleAt(e)'
    BY <1>0, <2>1, <2>2 DEF HandleAt, Within
  <2>4. ASSUME NEW f \in open' \cap File PROVE Home[f] \in open'
    BY <1>a, <2>1, <2>2, <2>4 DEF HandleInv, FilesOf
  <2>. QED
    BY <2>3, <2>4 DEF HandleInv
<1>12. CASE Exit(d)
  <2>1. pc[d] = "exit" /\ UNCHANGED open /\ d \notin open
    BY <1>0, <1>12 DEF Exit, HandleAt
  <2>2. CASE pc' = [pc EXCEPT ![d] = "done"]
    BY <2>1, <2>2, <1>b
  <2>3. CASE Depth[d] > 1
    <3>1. /\ Parent[d] \in Dir /\ pc[Parent[d]] = "call" /\ Parent[d] # d
          /\ Parent[d] \in open
      BY <1>0, <2>1, <2>3, DepthFacts DEF StackInv, StackAt, Live, HandleAt
    <3>2. \A e \in Dir : \/ pc'[e] = pc[e]
                         \/ e = d /\ pc'[e] = "done"
                         \/ e = Parent[d] /\ pc'[e] \in {"dirs", "unwind"}
      BY <1>0, <1>12, <2>3, <3>1, DepthFacts DEF Exit
    <3>. QED
      BY <2>1, <3>1, <3>2, HandleKept
  <2>. QED
    BY <1>12, <2>2, <2>3, DepthFacts DEF Exit
<1>. QED
  BY <1>1, <1>2, <1>3, <1>4, <1>5, <1>6, <1>7, <1>8, <1>9, <1>10, <1>11, <1>12
  DEF Walk

-----------------------------------------------------------------------------
(* Start and the channel                                                   *)

\* Activations only begin: none goes back to "idle".
LEMMA BegunStays ==
  ASSUME WalkTypes, NEW d \in Dir, Walk(d)
  PROVE  /\ Live(d)
         /\ \A e \in Dir : Begun(e) => Begun(e)'
<1>. USE DEF At, Goto, Return, WalkTypes, Begun, Live
<1>1. CASE BuildGlobalIgnores(d)
  BY <1>1 DEF BuildGlobalIgnores
<1>2. CASE Enter(d)
  BY <1>2 DEF Enter
<1>3. CASE Acquire(d)
  BY <1>3 DEF Acquire
<1>4. CASE CheckTerminate(d)
  BY <1>4 DEF CheckTerminate
<1>5. CASE OpenDir(d)
  BY <1>5 DEF OpenDir
<1>6. CASE LoadIgnores(d)
  BY <1>6 DEF LoadIgnores
<1>7. CASE VisitFile(d)
  BY <1>7 DEF VisitFile
<1>8. CASE FilesDone(d)
  BY <1>8 DEF FilesDone
<1>9. CASE VisitDir(d)
  <2>1. pc[d] = "dirs"
    BY <1>9 DEF VisitDir
  <2>2. ASSUME NEW c \in dirs[d], NEW ignore, Descend(d, c, ignore)
        PROVE  \A e \in Dir : Begun(e) => Begun(e)'
    BY <2>1, <2>2 DEF Descend
  <2>. QED
    BY <2>1, <2>2, <1>9, VisitDirCases
<1>10. CASE WaitChildren(d)
  BY <1>10 DEF WaitChildren
<1>11. CASE Unwind(d)
  BY <1>11 DEF Unwind
<1>12. CASE Exit(d)
  BY <1>12 DEF Exit
<1>. QED
  BY <1>1, <1>2, <1>3, <1>4, <1>5, <1>6, <1>7, <1>8, <1>9, <1>10, <1>11, <1>12
  DEF Walk

\* While an activation is alive the channel is open, and a step of its own
\* does not close it.
LEMMA PhaseStep ==
  ASSUME WalkTypes, StartTypes, StackInv, PhaseInv, NEW d \in Dir, Walk(d)
  PROVE  /\ PhaseInv'
         /\ ~closed
<1>1. Live(d)
  BY BegunStays
<1>2. ~closed
  BY <1>1, Quiescent DEF PhaseInv
<1>3. phase = "walking"
  BY <1>1, <1>2 DEF PhaseInv, Live, Begun, StartTypes, Phase
<1>4. UNCHANGED <<phase, isWalking>>
  BY DEF Walk, BuildGlobalIgnores, Enter, Acquire, CheckTerminate, OpenDir, LoadIgnores,
         VisitFile, FilesDone, VisitDir, WaitChildren, Unwind, Exit, startVars
<1>5. UNCHANGED <<closed, panicked>>
  <2>1. CASE VisitFile(d)
    BY <1>2, <2>1 DEF VisitFile, Dispose, Send, queueVars
  <2>2. CASE ~VisitFile(d)
    BY <2>2
    DEF Walk, BuildGlobalIgnores, Enter, Acquire, CheckTerminate, OpenDir, LoadIgnores,
        FilesDone, VisitDir, WaitChildren, Unwind, Exit, queueVars
  <2>. QED
    BY <2>1, <2>2
<1>6. \A r \in Root : Begun(r)'
  BY <1>3, BegunStays DEF PhaseInv, Root
<1>. QED
  BY <1>2, <1>3, <1>4, <1>5, <1>6 DEF PhaseInv, Root

-----------------------------------------------------------------------------
(* Safety                                                                  *)

LEMMA SafeInit == Init => SafeInv
<1>. SUFFICES ASSUME Init PROVE SafeInv
  OBVIOUS
<1>1. PhaseInv
  BY DEF Init, PhaseInv, Root, Begun
<1>2. StackInv
  BY DEF Init, StackInv, OneCall, StackAt, Live, Begun
<1>3. CountInv /\ HandleInv
  BY DEF Init, CountInv, HandleInv, HandleAt, Live
<1>4. SlotsAccounted
  BY FS_EmptySet, ConfigAssumption DEF Init, SlotsAccounted, InSection
<1>. QED
  BY TypeInit, <1>1, <1>2, <1>3, <1>4 DEF SafeInv

LEMMA SafeStep == HiddenCheckTotal /\ SafeInv /\ [Next]_vars => SafeInv'
<1>. SUFFICES ASSUME HiddenCheckTotal, SafeInv, [Next]_vars PROVE SafeInv'
  OBVIOUS
<1>0. TypeOK'
  BY TypeStep DEF SafeInv
<1>. USE <1>0 DEF SafeInv
<1>1. ASSUME NEW d \in Dir, Walk(d) PROVE SafeInv'
  <2>1. WalkTypes /\ WalkTypes' /\ StartTypes
    BY DEF TypeOK
  <2>. QED
    BY <1>1, <2>1, PhaseStep, StackStep, CountStep, SlotsStep, HandleStep
<1>2. CASE UNCHANGED walkVars /\ PhaseInv'
  <2>1. HandleInv'
    BY <1>2, HandleKept DEF walkVars
  <2>. QED
    BY <1>2, <2>1, StackKept, CountKept, SlotsKept DEF walkVars, entries
<1>3. ASSUME NEW i \in ConcurrencyArgs, SetConcurrency(i) PROVE SafeInv'
  <2>1. PhaseInv'
    BY <1>3 DEF SetConcurrency, PhaseInv, walkVars, queueVars, Begun
  <2>. QED
    BY <1>2, <1>3, <2>1 DEF SetConcurrency
<1>4. CASE Start
  <2>1. \A d \in Dir : ~Begun(d) /\ pc'[d] = IF d \in Root THEN "globals" ELSE "idle"
    BY <1>4 DEF Start, PhaseInv
  <2>2. PhaseInv'
    BY <1>4, <2>1 DEF Start, PhaseInv, queueVars, Root, Begun
  <2>3. StackInv'
    <3>1. \A d \in Dir : Live(d)' => Depth[d] = 0
      BY <2>1 DEF Root, Live
    <3>2. OneCall'
      BY <3>1, DepthFacts DEF OneCall
    <3>3. ASSUME NEW d \in Dir PROVE StackAt(d)'
      <4>1. /\ files'[d] \subseteq FilesOf(d)
            /\ dirs'[d] \subseteq {c \in SubdirsOf(d) : ~Begun(c)'}
        BY <1>4, <2>1, DepthFacts DEF Start, entries, StackInv, StackAt, Root, Begun, SubdirsOf
      <4>2. Depth[d] > 0 => ~Begun(d)' /\ ~Live(d)'
        BY <2>1, <3>1, DepthFacts DEF Root, Begun
      <4>3. pc'[d] \in {"idle", "globals"} /\ (pc'[d] = "globals" => Depth[d] = 0)
        BY <2>1 DEF Root
      <4>. QED
        BY <4>1, <4>2, <4>3, DepthFacts DEF StackAt
    <3>. QED
      BY <3>2, <3>3 DEF StackInv
  <2>4. CountInv'
    BY <1>4, <2>1, DepthFacts DEF Start, CountInv, Root, Live, Begun
  <2>5. SlotsAccounted'
    BY <1>4, <2>1, DepthFacts, SlotsSame DEF Start, Root, InSection, Begun, Within
  <2>6. HandleInv'
    BY <1>4, <2>1 DEF Start, HandleInv, HandleAt, Begun, Within
  <2>. QED
    BY <2>2, <2>3, <2>4, <2>5, <2>6
<1>5. CASE CloseQueue
  <2>1. PhaseInv'
    BY <1>5 DEF CloseQueue, PhaseInv, walkVars, Begun
  <2>. QED
    BY <1>2, <1>5, <2>1 DEF CloseQueue
<1>6. CASE StartReturns
  <2>1. PhaseInv'
    BY <1>6 DEF StartReturns, PhaseInv, walkVars, queueVars, Begun
  <2>. QED
    BY <1>2, <1>6, <2>1 DEF StartReturns
<1>7. CASE Terminate
  <2>1. PhaseInv'
    BY <1>7 DEF Terminate, PhaseInv, walkVars, startVars, queueVars, Begun
  <2>. QED
    BY <1>2, <1>7, <2>1 DEF Terminate
<1>8. CASE Receive
  <2>1. PhaseInv'
    BY <1>8 DEF Receive, PhaseInv, walkVars, startVars, Begun
  <2>. QED
    BY <1>2, <1>8, <2>1 DEF Receive
<1>9. CASE UNCHANGED vars
  <2>1. PhaseInv'
    BY <1>9 DEF vars, PhaseInv, walkVars, startVars, queueVars, Begun
  <2>. QED
    BY <1>2, <1>9, <2>1 DEF vars
<1>. QED
  BY <1>1, <1>3, <1>4, <1>5, <1>6, <1>7, <1>8, <1>9 DEF Next, Halted

LEMMA SafeAlways == HiddenCheckTotal /\ Spec => []SafeInv
<1>. SUFFICES ASSUME HiddenCheckTotal PROVE Spec => []SafeInv
  OBVIOUS
<1>1. SafeInv /\ [Next]_vars => SafeInv'
  BY SafeStep
<1>. QED
  BY SafeInit, <1>1, PTL DEF Spec

\* No activation holds a slot it should not hold or lacks one it needs, and
\* there are never more of them than the semaphore has slots.
THEOREM SlotsCorrect == HiddenCheckTotal /\ Spec => []SlotsAccounted
<1>1. SafeInv => SlotsAccounted
  BY DEF SafeInv
<1>. QED
  BY <1>1, SafeAlways, PTL

\* The WaitGroups count exactly the live goroutines, and when the channel is
\* closed no activation is left that could send on it.
THEOREM QuiescenceCorrect == HiddenCheckTotal /\ Spec => []QuiescentAtClose
<1>1. SafeInv => QuiescentAtClose
  BY Quiescent DEF SafeInv, CountInv, PhaseInv, QuiescentAtClose
<1>. QED
  BY <1>1, SafeAlways, PTL

\* No goroutine ever sends on the closed channel.
THEOREM NoPanicCorrect == HiddenCheckTotal /\ Spec => []NoPanic
<1>1. SafeInv => NoPanic
  BY DEF SafeInv, PhaseInv, NoPanic
<1>. QED
  BY <1>1, SafeAlways, PTL

\* Walking() only turns false after the channel is closed and nobody runs.
THEOREM WalkingCorrect == HiddenCheckTotal /\ Spec => []WalkingCoversWalk
<1>1. SafeInv => WalkingCoversWalk
  BY Quiescent DEF SafeInv, TypeOK, StartTypes, Phase, PhaseInv, WalkingCoversWalk
<1>. QED
  BY <1>1, SafeAlways, PTL

\* Every handle is closed when Start returns, of directories and of probed files.
THEOREM HandlesCorrect == HiddenCheckTotal /\ Spec => []NoHandleLeft
<1>1. SafeInv => NoHandleLeft
  <2>1. SUFFICES ASSUME SafeInv, phase = "returned", NEW h \in open PROVE FALSE
    BY DEF NoHandleLeft
  <2>2. \A e \in Dir : ~Live(e)
    BY <2>1, Quiescent DEF SafeInv, PhaseInv
  <2>3. \A e \in Dir : e \notin open
    BY <2>1, <2>2 DEF SafeInv, HandleInv, HandleAt, Live
  <2>4. h \in Dir \cup File
    BY <2>1 DEF SafeInv, TypeOK, WalkTypes
  <2>. QED
    BY <2>1, <2>3, <2>4, TreeAssumption DEF SafeInv, HandleInv
<1>. QED
  BY <1>1, SafeAlways, PTL

-----------------------------------------------------------------------------
(* What is sent, and in what order                                         *)

LEMMA SentKept == SentInv /\ UNCHANGED <<pc, files, sent>> => SentInv'
BY DEF SentInv, SentFiles, SentOnce, FilesBeforeSubdirs, Within

LEMMA SentAppend ==
  ASSUME sent \in Seq(File), NEW f \in File, sent' = Append(sent, f)
  PROVE  /\ SentFiles' = SentFiles \cup {f}
         /\ Len(sent') = Len(sent) + 1
         /\ sent'[Len(sent) + 1] = f
         /\ \A i \in 1..Len(sent) : sent'[i] = sent[i]
BY DEF SentFiles

\* An activation that has come to its files never goes back behind them.
LEMMA LateStays ==
  ASSUME WalkTypes, StackInv, NEW d \in Dir, Walk(d), NEW e \in Dir, pc[e] \in Late
  PROVE  /\ pc'[e] \in Late
         /\ pc'[e] = "files" => pc[e] = "files"
<1>. USE DEF At, Goto, Return, WalkTypes, Late
<1>1. CASE BuildGlobalIgnores(d)
  BY <1>1 DEF BuildGlobalIgnores
<1>2. CASE Enter(d)
  BY <1>2 DEF Enter
<1>3. CASE Acquire(d)
  BY <1>3 DEF Acquire
<1>4. CASE CheckTerminate(d)
  BY <1>4 DEF CheckTerminate
<1>5. CASE OpenDir(d)
  BY <1>5 DEF OpenDir
<1>6. CASE LoadIgnores(d)
  BY <1>6 DEF LoadIgnores
<1>7. CASE VisitFile(d)
  BY <1>7 DEF VisitFile
<1>8. CASE FilesDone(d)
  BY <1>8 DEF FilesDone
<1>9. CASE VisitDir(d)
  <2>1. pc[d] = "dirs"
    BY <1>9 DEF VisitDir
  <2>2. ASSUME NEW c \in dirs[d], NEW ignore, Descend(d, c, ignore)
        PROVE  pc'[e] \in Late /\ (pc'[e] = "files" => pc[e] = "files")
    <3>1. c # e
      BY DEF StackInv, StackAt, Begun
    <3>. QED
      BY <2>1, <2>2, <3>1 DEF Descend
  <2>. QED
    BY <2>1, <2>2, <1>9, VisitDirCases
<1>10. CASE WaitChildren(d)
  BY <1>10 DEF WaitChildren
<1>11. CASE Unwind(d)
  BY <1>11 DEF Unwind
<1>12. CASE Exit(d)
  BY <1>12 DEF Exit
<1>. QED
  BY <1>1, <1>2, <1>3, <1>4, <1>5, <1>6, <1>7, <1>8, <1>9, <1>10, <1>11, <1>12
  DEF Walk

\* A turn of the file loop disposes of a file or returns.
LEMMA VisitFileCases ==
  ASSUME NEW d, VisitFile(d)
  PROVE  \/ /\ \E f \in files[d], ignore \in BOOLEAN : Dispose(d, f, ignore)
            /\ UNCHANGED pc
         \/ Return(d, "io") /\ UNCHANGED <<files, queueVars>>
<1>1. PICK f \in files[d] :
         \/ \E ignore \in Verdicts(d, f) : Dispose(d, f, ignore) /\ UNCHANGED pc
         \/ \E ignore \in VerdictsAfterFault(d, f) : Dispose(d, f, ignore) /\ UNCHANGED pc
         \/ Return(d, "io") /\ UNCHANGED <<files, queueVars>>
  BY DEF VisitFile
<1>. QED
  BY <1>1, VerdictsBoolean

\* A file is sent once, from its directory's loop, before the loop over the
\* subdirectories begins.
LEMMA SentStep ==
  ASSUME TypeOK, StackInv, SentInv, ~closed, NEW d \in Dir, Walk(d)
  PROVE  SentInv'
<1>. USE DEF At
<1>0. WalkTypes /\ sent \in Seq(File) /\ files \in [Dir -> SUBSET File] /\ pc \in [Dir -> PC]
  BY DEF TypeOK, WalkTypes, QueueTypes
<1>a. \A f \in SentFiles : f \in File /\ Home[f] \in Dir
  BY <1>0, TreeAssumption DEF SentFiles
<1>b. \A f \in SentFiles : /\ pc[Home[f]] \in Late
                           /\ pc[Home[f]] = "files" => f \notin files[Home[f]]
                           /\ Within(Home[f])
  BY DEF SentInv
<1>1. ASSUME UNCHANGED sent,
             \A e \in Dir : pc[e] \in Late => files'[e] \subseteq files[e]
      PROVE  SentInv'
  <2>1. SentFiles' = SentFiles /\ SentOnce' /\ FilesBeforeSubdirs'
    BY <1>1 DEF SentFiles, SentInv, SentOnce, FilesBeforeSubdirs
  <2>2. ASSUME NEW f \in SentFiles
        PROVE  /\ pc'[Home[f]] \in Late
               /\ pc'[Home[f]] = "files" => f \notin files'[Home[f]]
    BY <1>0, <1>1, <1>a, <1>b, LateStays
  <2>. QED
    BY <1>b, <2>1, <2>2 DEF SentInv, Within
<1>2. CASE OpenDir(d)
  <2>1. \A e \in Dir : pc[e] \in Late => files'[e] \subseteq files[e]
    BY <1>0, <1>2 DEF OpenDir, Late, entries
  <2>. QED
    BY <1>1, <1>2, <2>1 DEF OpenDir, queueVars
<1>3. CASE VisitFile(d)
  <2>1. CASE UNCHANGED <<files, queueVars>>
    BY <1>1, <2>1 DEF queueVars
  <2>2. ASSUME NEW f \in files[d], NEW ignore, Dispose(d, f, ignore), UNCHANGED pc
        PROVE  SentInv'
    <3>1. CASE UNCHANGED sent
      BY <1>1, <2>2, <3>1 DEF Dispose
    <3>2. CASE sent' = Append(sent, f)
      <4>1. /\ f \in File /\ Home[f] = d /\ pc[d] = "files" /\ Within(d)
            /\ f \notin SentFiles
        <5>1. pc[d] = "files" /\ StackAt(d)
          BY <1>3 DEF VisitFile, StackInv
        <5>2. f \in File /\ Home[f] = d /\ Within(d)
          BY <1>0, <5>1 DEF StackAt, FilesOf
        <5>. QED
          BY <1>b, <5>1, <5>2
      <4>2. /\ files'[d] = files[d] \ {f}
            /\ \A e \in Dir : files'[e] \subseteq files[e]
        BY <1>0, <2>2 DEF Dispose
      <4>3. SentOnce'
        <5>1. \A i \in 1..Len(sent) : sent[i] # f
          BY <4>1 DEF SentFiles
        <5>2. Len(sent) \in Nat
          BY <1>0
        <5>3. \A i \in 1..Len(sent') : i \in 1..Len(sent) \/ i = Len(sent) + 1
          BY <1>0, <3>2, <4>1, <5>2, SentAppend
        <5>. QED
          BY <1>0, <3>2, <4>1, <5>1, <5>3, SentAppend DEF SentInv, SentOnce
      <4>4. \A i \in 1..Len(sent) :
              ~(Depth[Home[sent[i]]] > 0 /\ Parent[Home[sent[i]]] = d)
        <5>1. SUFFICES ASSUME NEW i \in 1..Len(sent), Depth[Home[sent[i]]] > 0,
                              Parent[Home[sent[i]]] = d
                       PROVE  FALSE
          OBVIOUS
        <5>2. sent[i] \in SentFiles
          BY DEF SentFiles
        <5>3. Begun(Home[sent[i]])
          BY <1>b, <5>2 DEF Late, Begun
        <5>4. Home[sent[i]] \in Dir
          BY <1>a, <5>2
        <5>5. pc[Parent[Home[sent[i]]]] \notin BeforeDirs
          BY <5>1, <5>3, <5>4 DEF StackInv, StackAt
        <5>. QED
          BY <4>1, <5>1, <5>5 DEF BeforeDirs
      <4>5. FilesBeforeSubdirs'
        <5>1. Len(sent) \in Nat
          BY <1>0
        <5>2. \A i \in 1..Len(sent') : i \in 1..Len(sent) \/ i = Len(sent) + 1
          BY <1>0, <3>2, <4>1, <5>1, SentAppend
        <5>3. SUFFICES ASSUME NEW i \in 1..Len(sent'), NEW j \in 1..Len(sent'),
                              Depth[Home[sent'[i]]] > 0,
                              Parent[Home[sent'[i]]] = Home[sent'[j]]
                       PROVE  j < i
          BY DEF FilesBeforeSubdirs
        <5>4. CASE i = Len(sent) + 1 /\ j = Len(sent) + 1
          <6>1. Depth[d] > 0 /\ Parent[d] = d
            BY <1>0, <3>2, <4>1, <5>3, <5>4, SentAppend
          <6>. QED
            BY <6>1, DepthFacts
        <5>5. CASE i = Len(sent) + 1 /\ j \in 1..Len(sent)
          BY <5>1, <5>5
        <5>6. CASE i \in 1..Len(sent) /\ j = Len(sent) + 1
          BY <1>0, <3>2, <4>1, <4>4, <5>3, <5>6, SentAppend
        <5>7. CASE i \in 1..Len(sent) /\ j \in 1..Len(sent)
          BY <1>0, <3>2, <4>1, <5>3, <5>7, SentAppend DEF SentInv, FilesBeforeSubdirs
        <5>. QED
          BY <5>2, <5>4, <5>5, <5>6, <5>7
      <4>6. ASSUME NEW g \in SentFiles'
            PROVE  /\ pc'[Home[g]] \in Late
                   /\ pc'[Home[g]] = "files" => g \notin files'[Home[g]]
                   /\ Within(Home[g])
        <5>1. g \in SentFiles \/ g = f
          BY <1>0, <3>2, <4>1, SentAppend
        <5>2. CASE g = f
          BY <2>2, <4>1, <4>2, <5>2 DEF Late
        <5>3. CASE g \in SentFiles
          BY <1>a, <1>b, <2>2, <4>2, <5>3
        <5>. QED
          BY <5>1, <5>2, <5>3
      <4>. QED
        BY <4>3, <4>5, <4>6 DEF SentInv, Within
    <3>. QED
      BY <2>2, <3>1, <3>2 DEF Dispose, Send, queueVars
  <2>. QED
    BY <1>3, <2>1, <2>2, VisitFileCases
<1>4. CASE ~OpenDir(d) /\ ~VisitFile(d)
  BY <1>1, <1>4
  DEF Walk, BuildGlobalIgnores, Enter, Acquire, CheckTerminate, LoadIgnores, FilesDone,
      VisitDir, WaitChildren, Unwind, Exit, entries, queueVars
<1>. QED
  BY <1>2, <1>3, <1>4

-----------------------------------------------------------------------------
(* Nothing due is lost                                                     *)

LEMMA ErrorKept == ErrorInv /\ UNCHANGED <<pc, lenient, ret, answers>> => ErrorInv'
BY DEF ErrorInv

\* The handler's answers are kept, and a failure leaves one behind.
LEMMA ErrorStep ==
  ASSUME TypeOK, StackInv, ErrorInv, NEW d \in Dir, Walk(d)
  PROVE  /\ ErrorInv'
         /\ answers \subseteq answers'
<1>. USE HandlerFacts DEF At, Goto, Return, errorVars
<1>0. ret \in [Dir -> Error] /\ pc \in [Dir -> PC]
  BY DEF TypeOK, WalkTypes
<1>1. answers \subseteq answers'
  BY DEF Walk, BuildGlobalIgnores, Enter, Acquire, CheckTerminate, OpenDir, LoadIgnores,
         VisitFile, FilesDone, VisitDir, WaitChildren, Unwind, Exit
<1>2. lenient' # {} => answers' # {}
  BY <1>1
  DEF ErrorInv, Walk, BuildGlobalIgnores, Enter, Acquire, CheckTerminate, OpenDir,
      LoadIgnores, VisitFile, FilesDone, VisitDir, Descend, WaitChildren, Unwind, Exit
<1>3. ASSUME NEW l \in PC, NEW e \in Error, pc[d] \notin Leaving,
             pc' = [pc EXCEPT ![d] = l],
             ret' = [ret EXCEPT ![d] = e],
             l \notin Leaving => e = "nil",
             e = "io" => answers' # {}
      PROVE  ErrorInv'
  BY <1>0, <1>1, <1>2, <1>3 DEF ErrorInv
<1>4. ASSUME NEW l \in PC, pc' = [pc EXCEPT ![d] = l], UNCHANGED ret,
             l \notin Leaving => pc[d] \notin Leaving
      PROVE  ErrorInv'
  BY <1>0, <1>1, <1>2, <1>4 DEF ErrorInv
<1>5. "unwind" \in PC /\ "exit" \in PC /\ "done" \in PC /\ Error = {"nil", "io", "ErrTerminateWalk"}
  BY DEF PC, Error
<1>. USE <1>5
<1>6. CASE BuildGlobalIgnores(d)
  BY <1>3, <1>4, <1>6 DEF BuildGlobalIgnores, Leaving, PC
<1>7. CASE Enter(d)
  BY <1>3, <1>4, <1>7 DEF Enter, Leaving, PC
<1>8. CASE Acquire(d)
  BY <1>4, <1>8 DEF Acquire, Leaving, PC
<1>9. CASE CheckTerminate(d)
  BY <1>3, <1>4, <1>9 DEF CheckTerminate, Leaving, PC
<1>10. CASE OpenDir(d)
  <2>1. CASE UNCHANGED ret /\ Goto(d, "ignores")
    BY <1>4, <1>10, <2>1 DEF OpenDir, Leaving, PC
  <2>2. ASSUME NEW e \in {"nil", "io"}, Return(d, e), answers' # {} PROVE ErrorInv'
    BY <1>3, <1>10, <2>2 DEF OpenDir, Leaving
  <2>. QED
    BY <1>10, <2>1, <2>2 DEF OpenDir
<1>11. CASE LoadIgnores(d)
  BY <1>3, <1>4, <1>11 DEF LoadIgnores, Leaving, PC
<1>12. CASE VisitFile(d)
  <2>1. CASE UNCHANGED <<pc, ret>>
    BY <1>1, <1>2, <2>1 DEF ErrorInv
  <2>2. CASE Return(d, "io") /\ answers' # {}
    BY <1>3, <1>12, <2>2 DEF VisitFile, Leaving
  <2>. QED
    BY <1>12, <2>1, <2>2 DEF VisitFile
<1>13. CASE FilesDone(d)
  BY <1>4, <1>13 DEF FilesDone, Leaving, PC
<1>14. CASE VisitDir(d)
  <2>1. pc[d] = "dirs"
    BY <1>14 DEF VisitDir
  <2>2. ASSUME NEW c \in dirs[d], NEW ignore, Descend(d, c, ignore), UNCHANGED ret
        PROVE  ErrorInv'
    <3>1. c \in Dir /\ pc[c] = "idle"
      BY DEF StackInv, StackAt, SubdirsOf, Begun
    <3>2. \A e \in Dir : pc'[e] \notin Leaving => pc[e] \notin Leaving
      BY <1>0, <2>1, <2>2, <3>1 DEF Descend, Leaving
    <3>. QED
      BY <1>1, <1>2, <2>2, <3>2 DEF ErrorInv
  <2>3. CASE Return(d, "io") /\ answers' # {}
    <3>1. "unwind" \in Leaving /\ pc[d] \notin Leaving /\ "io" \in Error
      BY <2>1 DEF Leaving
    <3>. QED
      BY <1>1, <1>3, <2>3, <3>1
  <2>. QED
    BY <1>14, <2>2, <2>3 DEF VisitDir
<1>15. CASE WaitChildren(d)
  BY <1>3, <1>15 DEF WaitChildren, Leaving
<1>16. CASE Unwind(d)
  BY <1>4, <1>16 DEF Unwind, Leaving
<1>17. CASE Exit(d)
  <2>1. pc[d] = "exit" /\ UNCHANGED answers
    BY <1>17 DEF Exit
  <2>2. CASE pc' = [pc EXCEPT ![d] = "done"] /\ UNCHANGED ret
    <3>1. "done" \in Leaving
      BY DEF Leaving
    <3>. QED
      BY <1>1, <1>4, <2>2, <3>1
  <2>3. CASE Depth[d] > 1
    <3>1. Parent[d] \in Dir /\ pc[Parent[d]] = "call" /\ Parent[d] # d
      BY <2>1, <2>3, DepthFacts DEF StackInv, StackAt, Live
    <3>2. ret[Parent[d]] = "nil" /\ (ret[d] = "io" => answers # {})
      BY <3>1 DEF ErrorInv, Leaving
    <3>3. CASE ret[d] = "nil"
      BY <1>0, <1>1, <1>2, <1>17, <2>1, <2>3, <3>1, <3>2, <3>3 DEF Exit, ErrorInv, Leaving
    <3>4. CASE ret[d] # "nil"
      BY <1>0, <1>1, <1>2, <1>17, <2>1, <2>3, <3>1, <3>2, <3>4 DEF Exit, ErrorInv, Leaving
    <3>. QED
      BY <3>3, <3>4
  <2>. QED
    BY <1>17, <2>2, <2>3, DepthFacts DEF Exit
<1>. QED
  BY <1>1, <1>6, <1>7, <1>8, <1>9, <1>10, <1>11, <1>12, <1>13, <1>14, <1>15, <1>16, <1>17
  DEF Walk

\* What has gone wrong is not forgotten: a clean state has a clean past.
LEMMA CleanBefore ==
  ASSUME TypeOK, StackInv, ErrorInv, NEW d \in Dir, Walk(d), Clean'
  PROVE  Clean /\ answers' = {} /\ \A e \in Dir : ret[e] = "nil"
<1>1. answers' = {} /\ answers = {} /\ ret \in [Dir -> Error]
  BY ErrorStep DEF Clean, TypeOK, WalkTypes
<1>2. \A e \in Dir : ret[e] # "io"
  BY <1>1 DEF ErrorInv
<1>3. ASSUME NEW e \in Dir, ret[e] = "ErrTerminateWalk" PROVE FALSE
  <2>1. pc[e] \in Leaving
    BY <1>3 DEF ErrorInv
  <2>2. ret'[e] = ret[e]
    <3>1. ret' = ret \/ (pc[d] \notin Leaving /\ \E x \in Error : ret' = [ret EXCEPT ![d] = x])
                     \/ (Exit(d) /\ Depth[d] > 1)
      BY DepthFacts
      DEF Walk, BuildGlobalIgnores, Enter, Acquire, CheckTerminate, OpenDir, LoadIgnores,
          VisitFile, FilesDone, VisitDir, WaitChildren, Unwind, Exit, Return, At, Leaving, Error
    <3>2. CASE Exit(d) /\ Depth[d] > 1
      <4>1. pc[d] = "exit" /\ pc[Parent[d]] = "call"
        BY <3>2, DepthFacts DEF Exit, At, StackInv, StackAt, Live
      <4>. QED
        BY <1>1, <2>1, <3>2, <4>1 DEF Exit, Leaving
    <3>. QED
      BY <1>1, <2>1, <3>1, <3>2
  <2>. QED
    BY <1>3, <2>2 DEF Clean
<1>. QED
  BY <1>1, <1>2, <1>3 DEF Clean, Error

\* What holds of an activation that does not move stays true of it.
LEMMA CompleteOther ==
  ASSUME NEW e \in Dir, CompleteAt(e), SentFiles \subseteq SentFiles',
         \A x \in Dir : Begun(x) => Begun(x)',
         pc'[e] = pc[e], files'[e] = files[e], dirs'[e] = dirs[e]
  PROVE  CompleteAt(e)'
BY DEF CompleteAt, Within, Reachable, Closed, Root, SubdirsOf, FilesOf, Begun

\* The subdirectories of a reachable directory that are not ignored are reachable.
LEMMA ReachableBelow ==
  ASSUME NEW d \in Reachable, Within(d), NEW c \in SubdirsOf(d) \ Ignored
  PROVE  c \in Reachable
BY DEF Reachable, Closed, SubdirsOf

LEMMA SentGrows ==
  ASSUME QueueTypes, NEW d \in Dir, Walk(d)
  PROVE  SentFiles \subseteq SentFiles'
<1>1. UNCHANGED sent \/ \E f : sent' = Append(sent, f)
  BY DEF Walk, BuildGlobalIgnores, Enter, Acquire, CheckTerminate, OpenDir, LoadIgnores,
         VisitFile, Dispose, Send, FilesDone, VisitDir, WaitChildren, Unwind, Exit, queueVars
<1>2. CASE UNCHANGED sent
  BY <1>2 DEF SentFiles
<1>3. ASSUME NEW f, sent' = Append(sent, f) PROVE SentFiles \subseteq SentFiles'
  BY <1>3 DEF SentFiles, QueueTypes
<1>. QED
  BY <1>1, <1>2, <1>3

LEMMA CompleteStep ==
  ASSUME TypeOK, StackInv, CountInv, ErrorInv, CompleteInv, ~closed, NEW d \in Dir, Walk(d)
  PROVE  CompleteInv'
<1>. SUFFICES ASSUME Clean' PROVE /\ SentFiles' \cap Ignored = {}
                                 /\ \A e \in Dir : CompleteAt(e)'
  BY DEF CompleteInv
<1>0. /\ Clean /\ answers' = {} /\ answers = {} /\ lenient = {}
      /\ \A e \in Dir : ret[e] = "nil" /\ ret'[e] # "ErrTerminateWalk"
  BY CleanBefore DEF ErrorInv, Clean
<1>1. WalkTypes /\ QueueTypes /\ SentFiles \cap Ignored = {} /\ \A e \in Dir : CompleteAt(e)
  BY <1>0 DEF TypeOK, CompleteInv
<1>2. SentFiles \subseteq SentFiles' /\ \A e \in Dir : Begun(e) => Begun(e)'
  BY <1>1, SentGrows, BegunStays
<1>3. StackAt(d) /\ CompleteAt(d) /\ pc \in [Dir -> PC]
  BY <1>1 DEF StackInv, WalkTypes
<1>. USE DEF At, Goto, Return, entries
<1>4. ASSUME NEW l \in PC, pc' = [pc EXCEPT ![d] = l], UNCHANGED <<files, dirs, sent>>,
             CompleteAt(d)'
      PROVE  SentFiles' \cap Ignored = {} /\ \A e \in Dir : CompleteAt(e)'
  <2>1. SentFiles' \cap Ignored = {}
    BY <1>1, <1>4 DEF SentFiles
  <2>2. ASSUME NEW e \in Dir, e # d PROVE CompleteAt(e)'
    BY <1>1, <1>2, <1>3, <1>4, <2>2, CompleteOther
  <2>. QED
    BY <1>4, <2>1, <2>2
\* Labels of which CompleteAt says nothing beyond reachability.
<1>5. ASSUME NEW l \in {"enter", "acquire", "check", "open"}, pc[d] # "idle",
             pc' = [pc EXCEPT ![d] = l], UNCHANGED <<files, dirs, sent>>
      PROVE  SentFiles' \cap Ignored = {} /\ \A e \in Dir : CompleteAt(e)'
  <2>1. CompleteAt(d)'
    BY <1>3, <1>5 DEF CompleteAt, Begun, InDirs, Leaving
  <2>. QED
    BY <1>4, <1>5, <2>1 DEF PC
<1>6. CASE BuildGlobalIgnores(d)
  BY <1>0, <1>5, <1>6, HandlerFacts DEF BuildGlobalIgnores, queueVars
<1>7. CASE Enter(d)
  <2>1. CASE Cut(d)
    <3>1. ~Within(d)
      BY <2>1, ConfigAssumption, DepthFacts DEF Cut, Within
    <3>2. pc' = [pc EXCEPT ![d] = "unwind"] /\ pc[d] = "enter"
      BY <1>7, <2>1 DEF Enter
    <3>3. CompleteAt(d)'
      BY <1>3, <3>1, <3>2 DEF CompleteAt, Begun, InDirs, Leaving, Within
    <3>. QED
      BY <1>4, <1>7, <3>2, <3>3 DEF Enter, PC, queueVars
  <2>2. CASE ~Cut(d)
    BY <1>5, <1>7, <2>2 DEF Enter, queueVars
  <2>. QED
    BY <2>1, <2>2
<1>8. CASE Acquire(d)
  BY <1>5, <1>8 DEF Acquire, queueVars
<1>9. CASE CheckTerminate(d)
  <2>1. pc[d] = "check" /\ pc' = [pc EXCEPT ![d] = "open"]
    BY <1>0, <1>1, <1>9 DEF CheckTerminate, WalkTypes
  <2>. QED
    BY <1>5, <1>9, <2>1 DEF CheckTerminate, queueVars
<1>10. CASE OpenDir(d)
  <2>1. /\ pc[d] = "open" /\ pc' = [pc EXCEPT ![d] = "ignores"]
        /\ files' = [files EXCEPT ![d] = FilesOf(d)]
        /\ dirs' = [dirs EXCEPT ![d] = SubdirsOf(d)]
        /\ UNCHANGED sent
    BY <1>0, <1>10, HandlerFacts DEF OpenDir, queueVars
  <2>2. CompleteAt(d)'
    BY <1>1, <1>3, <2>1 DEF CompleteAt, WalkTypes, Begun, InDirs, Leaving, FilesOf, SubdirsOf
  <2>3. ASSUME NEW e \in Dir, e # d PROVE CompleteAt(e)'
    BY <1>1, <1>2, <1>3, <2>1, <2>3, CompleteOther DEF WalkTypes
  <2>. QED
    BY <1>1, <2>1, <2>2, <2>3 DEF SentFiles
<1>11. CASE LoadIgnores(d)
  <2>1. pc[d] = "ignores" /\ pc' = [pc EXCEPT ![d] = "files"] /\ UNCHANGED <<files, dirs, sent>>
    BY <1>0, <1>11, HandlerFacts DEF LoadIgnores, queueVars
  <2>2. CompleteAt(d)'
    BY <1>2, <1>3, <2>1 DEF CompleteAt, Begun, InDirs, Leaving, FilesOf, SubdirsOf
  <2>. QED
    BY <1>4, <2>1, <2>2 DEF PC
<1>12. CASE VisitFile(d)
  <2>0. PICK f \in files[d] :
          \E ignore \in Verdicts(d, f) : Dispose(d, f, ignore) /\ UNCHANGED pc
    BY <1>0, <1>12, HandlerFacts DEF VisitFile
  <2>1. PICK ignore \in Verdicts(d, f) : Dispose(d, f, ignore) /\ UNCHANGED pc
    BY <2>0
  <2>2. ignore \in BOOLEAN /\ (ignore <=> f \in Ignored) /\ f \in File
    BY <1>0, <1>1 DEF Verdicts, WalkTypes
  <2>3. SentFiles' = IF f \in Ignored THEN SentFiles ELSE SentFiles \cup {f}
    <3>1. CASE f \in Ignored
      BY <2>1, <2>2, <3>1 DEF Dispose, queueVars, SentFiles
    <3>2. CASE f \notin Ignored
      BY <1>1, <2>1, <2>2, <3>2, SentAppend DEF Dispose, Send, QueueTypes
    <3>. QED
      BY <3>1, <3>2
  <2>4. files' = [files EXCEPT ![d] = files[d] \ {f}] /\ UNCHANGED dirs /\ pc[d] = "files"
    BY <1>12, <2>1 DEF VisitFile, Dispose
  <2>5. CompleteAt(d)'
    BY <1>1, <1>2, <1>3, <2>1, <2>3, <2>4
    DEF CompleteAt, WalkTypes, Begun, InDirs, Leaving, FilesOf, SubdirsOf
  <2>6. ASSUME NEW e \in Dir, e # d PROVE CompleteAt(e)'
    BY <1>1, <1>2, <2>1, <2>4, <2>6, CompleteOther DEF WalkTypes
  <2>. QED
    BY <1>1, <2>3, <2>5, <2>6
<1>13. CASE FilesDone(d)
  <2>1. /\ pc[d] = "files" /\ pc' = [pc EXCEPT ![d] = "dirs"] /\ UNCHANGED <<files, dirs, sent>>
        /\ files[d] = {}
    BY <1>13 DEF FilesDone, queueVars
  <2>2. CompleteAt(d)'
    BY <1>2, <1>3, <2>1 DEF CompleteAt, Begun, InDirs, Leaving, FilesOf, SubdirsOf
  <2>. QED
    BY <1>4, <2>1, <2>2 DEF PC
<1>14. CASE VisitDir(d)
  <2>0. PICK c \in dirs[d] : \E ignore \in Verdicts(d, c) : Descend(d, c, ignore)
    BY <1>0, <1>14, HandlerFacts DEF VisitDir
  <2>1. PICK ignore \in Verdicts(d, c) : Descend(d, c, ignore)
    BY <2>0
  <2>2. /\ ignore \in BOOLEAN /\ (ignore <=> c \in Ignored)
        /\ c \in SubdirsOf(d) /\ c \in Dir /\ c # d /\ pc[c] = "idle" /\ pc[d] = "dirs"
        /\ UNCHANGED <<files, sent>> /\ Within(d)
    BY <1>0, <1>3, <1>14, DepthFacts
    DEF Verdicts, VisitDir, StackAt, SubdirsOf, Begun, queueVars
  <2>3. SentFiles' = SentFiles
    BY <2>2 DEF SentFiles
  <2>4. dirs' = [dirs EXCEPT ![d] = dirs[d] \ {c}]
    BY <2>1 DEF Descend
  <2>5. CASE c \in Ignored
    <3>1. UNCHANGED pc
      BY <2>1, <2>2, <2>5 DEF Descend
    <3>2. CompleteAt(d)'
      BY <1>1, <1>2, <1>3, <2>2, <2>3, <2>4, <2>5, <3>1
      DEF CompleteAt, WalkTypes, Begun, InDirs, Leaving, FilesOf, SubdirsOf
    <3>3. ASSUME NEW e \in Dir, e # d PROVE CompleteAt(e)'
      BY <1>1, <1>2, <2>2, <2>4, <3>1, <3>3, CompleteOther DEF WalkTypes
    <3>. QED
      BY <1>1, <2>3, <3>2, <3>3
  <2>6. CASE c \notin Ignored
    <3>1. /\ pc' \in [Dir -> PC] /\ pc'[c] = "enter" /\ pc'[d] \in {"dirs", "call"}
          /\ \A e \in Dir \ {c, d} : pc'[e] = pc[e]
      BY <1>3, <2>1, <2>2, <2>6 DEF Descend, PC
    <3>2. CompleteAt(d)'
      BY <1>1, <1>2, <1>3, <2>2, <2>3, <2>4, <3>1
      DEF CompleteAt, WalkTypes, Begun, InDirs, Leaving, FilesOf, SubdirsOf
    <3>3. CompleteAt(c)'
      <4>1. c \in Reachable
        BY <1>3, <2>2, <2>6, ReachableBelow DEF CompleteAt, Begun
      <4>. QED
        BY <3>1, <4>1 DEF CompleteAt, InDirs, Leaving
    <3>4. ASSUME NEW e \in Dir, e \notin {c, d} PROVE CompleteAt(e)'
      BY <1>1, <1>2, <2>2, <2>4, <3>1, <3>4, CompleteOther DEF WalkTypes
    <3>. QED
      BY <1>1, <2>3, <3>2, <3>3, <3>4
  <2>. QED
    BY <2>5, <2>6
<1>15. CASE WaitChildren(d)
  <2>1. /\ pc[d] = "dirs" /\ dirs[d] = {}
        /\ pc' = [pc EXCEPT ![d] = "unwind"] /\ UNCHANGED <<files, dirs, sent>>
    BY <1>15 DEF WaitChildren, queueVars
  <2>2. CompleteAt(d)'
    BY <1>2, <1>3, <2>1 DEF CompleteAt, Begun, InDirs, Leaving, FilesOf, SubdirsOf
  <2>. QED
    BY <1>4, <2>1, <2>2 DEF PC
<1>16. CASE Unwind(d)
  <2>1. pc[d] = "unwind" /\ pc' = [pc EXCEPT ![d] = "exit"] /\ UNCHANGED <<files, dirs, sent>>
    BY <1>16 DEF Unwind, queueVars
  <2>2. CompleteAt(d)'
    BY <1>2, <1>3, <2>1 DEF CompleteAt, Begun, InDirs, Leaving, FilesOf, SubdirsOf, Within
  <2>. QED
    BY <1>4, <2>1, <2>2 DEF PC
<1>17. CASE Exit(d)
  <2>1. pc[d] = "exit" /\ UNCHANGED <<files, dirs, sent>>
    BY <1>17 DEF Exit, queueVars
  <2>2. SentFiles' = SentFiles
    BY <2>1 DEF SentFiles
  <2>3. ASSUME pc'[d] = "done" PROVE CompleteAt(d)'
    BY <1>2, <1>3, <2>1, <2>2, <2>3
    DEF CompleteAt, Begun, InDirs, Leaving, FilesOf, SubdirsOf, Within
  <2>4. CASE pc' = [pc EXCEPT ![d] = "done"]
    BY <1>3, <1>4, <2>1, <2>3, <2>4 DEF PC
  <2>5. CASE Depth[d] > 1
    <3>. DEFINE p == Parent[d]
    <3>1. p \in Dir /\ pc[p] = "call" /\ p # d
      BY <1>1, <2>1, <2>5, DepthFacts DEF StackInv, StackAt, Live
    <3>2. /\ pc'[d] = "done" /\ pc'[p] = "dirs"
          /\ \A e \in Dir \ {d, p} : pc'[e] = pc[e]
      BY <1>0, <1>3, <1>17, <2>5, <3>1 DEF Exit
    <3>3. CompleteAt(p)'
      BY <1>1, <1>2, <2>1, <2>2, <3>1, <3>2
      DEF CompleteAt, Begun, InDirs, Leaving, FilesOf, SubdirsOf
    <3>4. ASSUME NEW e \in Dir, e \notin {d, p} PROVE CompleteAt(e)'
      BY <1>1, <1>2, <2>1, <3>2, <3>4, CompleteOther
    <3>. QED
      BY <1>1, <2>2, <2>3, <3>2, <3>3, <3>4
  <2>. QED
    BY <1>17, <2>4, <2>5, DepthFacts DEF Exit
<1>. QED
  BY <1>6, <1>7, <1>8, <1>9, <1>10, <1>11, <1>12, <1>13, <1>14, <1>15, <1>16, <1>17
  DEF Walk

-----------------------------------------------------------------------------
(* The whole inductive invariant                                           *)

LEMMA CompleteKept ==
  CompleteInv /\ UNCHANGED <<pc, ret, files, dirs, sent, answers>> => CompleteInv'
BY DEF CompleteInv, CompleteAt, Clean, SentFiles, Begun, Within

LEMMA FullInit == Init => IInv
<1>. SUFFICES ASSUME Init PROVE IInv
  OBVIOUS
<1>1. SentInv
  BY DEF Init, SentInv, SentOnce, FilesBeforeSubdirs, SentFiles
<1>2. ErrorInv
  BY DEF Init, ErrorInv
<1>3. CompleteInv
  BY DEF Init, CompleteInv, CompleteAt, SentFiles, Begun, InDirs, Leaving
<1>. QED
  BY SafeInit, <1>1, <1>2, <1>3 DEF IInv

LEMMA FullStep == HiddenCheckTotal /\ IInv /\ [Next]_vars => IInv'
<1>. SUFFICES ASSUME HiddenCheckTotal, IInv, [Next]_vars PROVE IInv'
  OBVIOUS
<1>0. SafeInv /\ SafeInv' /\ SentInv /\ ErrorInv /\ CompleteInv
  BY SafeStep DEF IInv
<1>1. ASSUME NEW d \in Dir, Walk(d) PROVE IInv'
  <2>1. TypeOK /\ WalkTypes /\ StartTypes /\ StackInv /\ CountInv /\ PhaseInv
    BY <1>0 DEF SafeInv, TypeOK
  <2>2. ~closed
    BY <1>1, <2>1, PhaseStep
  <2>. QED
    BY <1>0, <1>1, <2>1, <2>2, SentStep, ErrorStep, CompleteStep DEF IInv
<1>2. CASE UNCHANGED <<pc, ret, files, dirs, lenient, sent, answers>>
  BY <1>0, <1>2, SentKept, ErrorKept, CompleteKept DEF IInv
<1>3. CASE Start
  <2>1. \A d \in Dir : ~Begun(d) /\ pc'[d] = IF d \in Root THEN "globals" ELSE "idle"
    BY <1>0, <1>3 DEF Start, SafeInv, PhaseInv
  <2>2. UNCHANGED <<ret, files, dirs, lenient, sent, answers>> /\ SentFiles' = SentFiles
    BY <1>3 DEF Start, entries, queueVars, errorVars, SentFiles
  <2>3. SentFiles = {}
    <3>1. \A f \in SentFiles : Home[f] \in Dir
      BY <1>0, TreeAssumption DEF SafeInv, TypeOK, QueueTypes, SentFiles
    <3>2. \A f \in SentFiles : pc[Home[f]] # "idle"
      BY <1>0 DEF SentInv, Late
    <3>. QED
      BY <2>1, <3>1, <3>2 DEF Begun
  <2>4. SentInv'
    BY <1>0, <2>2, <2>3 DEF SentInv, SentOnce, FilesBeforeSubdirs
  <2>5. ErrorInv'
    BY <1>0, <2>1, <2>2 DEF ErrorInv, Begun, Leaving
  <2>6. ASSUME NEW d \in Dir PROVE CompleteAt(d)'
    <3>1. d \in Root => d \in Reachable
      BY DEF Reachable, Closed
    <3>2. pc'[d] \in {"idle", "globals"} /\ (pc'[d] = "globals" => d \in Root)
      BY <2>1
    <3>. QED
      BY <3>1, <3>2 DEF CompleteAt, Begun, InDirs, Leaving
  <2>7. CompleteInv'
    BY <2>2, <2>3, <2>6 DEF CompleteInv
  <2>. QED
    BY <1>0, <2>4, <2>5, <2>7 DEF IInv
<1>4. CASE \/ \E i \in ConcurrencyArgs : SetConcurrency(i)
           \/ CloseQueue
           \/ StartReturns
           \/ Terminate
           \/ Receive
           \/ UNCHANGED vars
  BY <1>2, <1>4
  DEF SetConcurrency, CloseQueue, StartReturns, Terminate, Receive, vars, walkVars, entries,
      queueVars, errorVars
<1>. QED
  BY <1>1, <1>3, <1>4 DEF Next, Halted

LEMMA FullAlways == HiddenCheckTotal /\ Spec => []IInv
<1>. SUFFICES ASSUME HiddenCheckTotal PROVE Spec => []IInv
  OBVIOUS
<1>1. IInv /\ [Next]_vars => IInv'
  BY FullStep
<1>. QED
  BY FullInit, <1>1, PTL DEF Spec

\* The consumer sees a file at most once from each root, for every way in which
\* the roots may overlap.
THEOREM OncePerRootCorrect == HiddenCheckTotal /\ Spec => []OncePerRoot
<1>1. IInv => OncePerRoot
  <2>1. SUFFICES ASSUME IInv, NEW i \in 1..Len(sent), NEW j \in 1..Len(sent),
                        Place[sent[i]] = Place[sent[j]],
                        Origin[Home[sent[i]]] = Origin[Home[sent[j]]]
                 PROVE  i = j
    BY DEF OncePerRoot
  <2>2. sent[i] \in File /\ sent[j] \in File
    BY <2>1 DEF IInv, SafeInv, TypeOK, QueueTypes
  <2>3. sent[i] = sent[j]
    BY <2>1, <2>2, PlaceAssumption
  <2>. QED
    BY <2>1, <2>3 DEF IInv, SentInv, SentOnce
<1>. QED
  BY <1>1, FullAlways, PTL

\* The files of a directory precede in the channel everything from below it.
THEOREM OrderCorrect == HiddenCheckTotal /\ Spec => []FilesBeforeSubdirs
<1>1. IInv => FilesBeforeSubdirs
  BY DEF IInv, SentInv
<1>. QED
  BY <1>1, FullAlways, PTL

LEMMA IInvComplete == IInv => CompleteWalk
<1>1. SUFFICES ASSUME IInv, Clean
               PROVE  /\ SentFiles \subseteq Expected
                      /\ closed => SentFiles = Expected
  BY DEF CompleteWalk
<1>2. /\ SentFiles \cap Ignored = {}
      /\ \A d \in Dir : CompleteAt(d)
  BY <1>1 DEF IInv, CompleteInv
<1>3. SentFiles \subseteq Expected
  <2>1. SUFFICES ASSUME NEW f \in SentFiles PROVE f \in Expected
    OBVIOUS
  <2>2. f \in File /\ Home[f] \in Dir
    BY <1>1, TreeAssumption DEF IInv, SafeInv, TypeOK, QueueTypes, SentFiles
  <2>3. Begun(Home[f]) /\ Within(Home[f])
    BY <1>1 DEF IInv, SentInv, Late, Begun
  <2>. QED
    BY <1>2, <2>2, <2>3 DEF Expected, CompleteAt
<1>4. ASSUME closed PROVE Expected \subseteq SentFiles
  <2>. DEFINE S == {d \in Dir : Begun(d)}
  <2>1. \A d \in Dir : ~Live(d)
    BY <1>1, <1>4, Quiescent DEF IInv, SafeInv, PhaseInv
  <2>2. \A d \in S : pc[d] \in Leaving
    BY <2>1 DEF Live, Begun, Leaving
  <2>3. Root \subseteq S
    BY <1>1, <1>4 DEF IInv, SafeInv, PhaseInv, Root
  <2>4. Closed(S)
    BY <1>2, <2>2, <2>3 DEF Closed, CompleteAt, SubdirsOf
  <2>5. Reachable \subseteq S
    BY <2>4 DEF Reachable
  <2>6. SUFFICES ASSUME NEW f \in Expected PROVE f \in SentFiles
    OBVIOUS
  <2>7. f \in FilesOf(Home[f]) \ Ignored /\ Home[f] \in S /\ Within(Home[f])
    BY <2>5 DEF Expected, FilesOf
  <2>. QED
    BY <1>2, <2>2, <2>7 DEF CompleteAt
<1>. QED
  BY <1>3, <1>4

\* A walk without errors and without termination sends exactly the files that
\* are due: none that is ignored, none out of reach, and all the others before
\* the channel is closed.
THEOREM CompleteCorrect == HiddenCheckTotal /\ Spec => []CompleteWalk
BY IInvComplete, FullAlways, PTL

\* Once the flag is set nobody who has not passed the check opens a directory.
THEOREM TerminateCorrect == HiddenCheckTotal /\ Spec => NoVisitAfterTerminate
<1>1. ASSUME SafeInv, [Next]_vars PROVE ObeysTerminate
  <2>1. SUFFICES ASSUME NEW d \in Dir, terminateWalking, pc[d] \in Unchecked
                 PROVE  pc'[d] \notin Visiting
    BY DEF ObeysTerminate
  <2>2. pc \in [Dir -> PC] /\ StackInv
    BY <1>1 DEF SafeInv, TypeOK, WalkTypes
  <2>3. ASSUME NEW e \in Dir, Walk(e) PROVE pc'[d] \notin Visiting
    <3>1. CASE VisitDir(e)
      BY <2>1, <2>2, <3>1, VisitDirCases
      DEF VisitDir, Descend, At, Goto, Return, Unchecked, Visiting
    <3>2. CASE Exit(e)
      <4>1. Depth[e] > 1 => pc[Parent[e]] = "call"
        BY <2>2, <3>2, DepthFacts DEF Exit, At, StackInv, StackAt, Live
      <4>. QED
        BY <2>1, <2>2, <3>2, <4>1, DepthFacts DEF Exit, At, Goto, Unchecked, Visiting
    <3>3. CASE ~VisitDir(e) /\ ~Exit(e)
      BY <2>1, <2>2, <2>3, <3>3
      DEF Walk, BuildGlobalIgnores, Enter, Acquire, CheckTerminate, OpenDir, LoadIgnores,
          VisitFile, FilesDone, WaitChildren, Unwind, At, Goto, Return, Unchecked, Visiting
    <3>. QED
      BY <3>1, <3>2, <3>3
  <2>4. CASE Start
    BY <2>2, <2>4 DEF Start, Visiting
  <2>5. CASE UNCHANGED pc
    BY <2>1, <2>5 DEF Unchecked, Visiting
  <2>. QED
    BY <1>1, <2>3, <2>4, <2>5
    DEF Next, Halted, SetConcurrency, CloseQueue, StartReturns, Terminate, Receive, walkVars,
        vars
<1>2. SafeInv /\ [Next]_vars => [ObeysTerminate]_vars
  BY <1>1
<1>. QED
  BY <1>2, SafeAlways, PTL DEF NoVisitAfterTerminate, Spec

-----------------------------------------------------------------------------
(***************************************************************************)
(* Every error on its way to Start has a cause, and the errgroup forgets   *)
(* none: the strengthening of ResultJustified that is inductive.           *)
(***************************************************************************)
Refused == answers \cap {"stop", "terminate"} # {}

Caused(e) == /\ e = "ErrTerminateWalk" => terminateWalking
             /\ e = "io" => Refused

ReportInv ==
  /\ \A d \in Dir : Caused(ret[d])
  /\ Caused(groupErr)
  /\ groupErr = "nil" => \A r \in Root : pc[r] = "done" => ret[r] = "nil"
  /\ phase = "returned" => result = groupErr

\* What a step of an activation does to the errors on their way.
LEMMA ReportCases ==
  ASSUME TypeOK, NEW d \in Dir, Walk(d)
  PROVE  /\ terminateWalking => terminateWalking'
         /\ answers \subseteq answers'
         /\ \/ UNCHANGED <<ret, groupErr>>
            \/ /\ \E e \in Error : ret' = [ret EXCEPT ![d] = e] /\ Caused(e)'
               /\ pc'[d] # "done" /\ pc[d] # "done"
               /\ UNCHANGED groupErr
            \/ Exit(d)
<1>. USE DEF TypeOK, WalkTypes, At, Goto, Return, entries, errorVars, startVars, PC
<1>. DEFINE Passes == \E e \in Error : ret' = [ret EXCEPT ![d] = e] /\ Caused(e)'
<1>0. ASSUME NEW a \in HandlerAnswers, HandleError(a)
      PROVE  /\ terminateWalking => terminateWalking'
             /\ answers \subseteq answers'
             /\ a # "continue" => Caused("io")'
  BY <1>0, ConfigAssumption DEF HandleError, Caused, Refused, Answers
<1>1. CASE BuildGlobalIgnores(d)
  BY <1>0, <1>1 DEF BuildGlobalIgnores, Error, Caused
<1>2. CASE Enter(d)
  BY <1>2 DEF Enter, Error, Caused
<1>3. CASE Acquire(d)
  BY <1>3 DEF Acquire
<1>4. CASE CheckTerminate(d)
  BY <1>4 DEF CheckTerminate, Error, Caused
<1>5. CASE OpenDir(d)
  BY <1>0, <1>5 DEF OpenDir, Error, Caused
<1>6. CASE LoadIgnores(d)
  BY <1>0, <1>6 DEF LoadIgnores, Error, Caused
<1>7. CASE VisitFile(d)
  BY <1>0, <1>7 DEF VisitFile, Error, Caused
<1>8. CASE FilesDone(d)
  BY <1>8 DEF FilesDone
<1>9. CASE VisitDir(d)
  BY <1>0, <1>9 DEF VisitDir, Error, Caused
<1>10. CASE WaitChildren(d)
  BY <1>10 DEF WaitChildren, Error, Caused
<1>11. CASE Unwind(d)
  BY <1>0, <1>11 DEF Unwind
<1>12. CASE Exit(d)
  BY <1>12 DEF Exit
<1>. QED
  BY <1>1, <1>2, <1>3, <1>4, <1>5, <1>6, <1>7, <1>8, <1>9, <1>10, <1>11, <1>12 DEF Walk

\* Only Exit makes an activation done, and Start only begins.
LEMMA DoneByExit ==
  ASSUME TypeOK, NEW d \in Dir, Walk(d), ~Exit(d), NEW r \in Dir, pc'[r] = "done"
  PROVE  pc[r] = "done"
BY VisitDirCases
DEF Walk, BuildGlobalIgnores, Enter, Acquire, CheckTerminate, OpenDir, LoadIgnores, VisitFile,
    FilesDone, VisitDir, Descend, WaitChildren, Unwind, TypeOK, WalkTypes, At, Goto, Return

LEMMA CausedStays ==
  ASSUME NEW e, Caused(e), terminateWalking => terminateWalking', answers \subseteq answers'
  PROVE  Caused(e)'
BY DEF Caused, Refused

LEMMA ReportWalk ==
  ASSUME TypeOK, ReportInv, phase # "returned", NEW d \in Dir, Walk(d)
  PROVE  ReportInv'
<1>0. ret \in [Dir -> Error] /\ pc \in [Dir -> PC] /\ phase' = phase
  BY DEF TypeOK, WalkTypes, Walk, BuildGlobalIgnores, Enter, Acquire, CheckTerminate, OpenDir,
         LoadIgnores, VisitFile, FilesDone, VisitDir, WaitChildren, Unwind, Exit, startVars
<1>1. \A e \in Error : Caused(e) => Caused(e)'
  BY ReportCases, CausedStays
<1>2. \A r \in Root : r \in Dir /\ Depth[r] = 0
  BY DEF Root
<1>3. CASE UNCHANGED <<ret, groupErr>> /\ ~Exit(d)
  BY <1>0, <1>1, <1>2, <1>3, DoneByExit DEF ReportInv, TypeOK, StartTypes
<1>4. CASE /\ \E e \in Error : ret' = [ret EXCEPT ![d] = e] /\ Caused(e)'
           /\ pc'[d] # "done" /\ pc[d] # "done"
           /\ UNCHANGED groupErr
           /\ ~Exit(d)
  BY <1>0, <1>1, <1>2, <1>4, DoneByExit DEF ReportInv, TypeOK, StartTypes
<1>5. CASE Exit(d)
  <2>1. CASE Depth[d] = 0
    <3>1. groupErr' = FirstError(ret[d]) /\ ret' = ret /\ pc' = [pc EXCEPT ![d] = "done"]
      BY <1>5, <2>1 DEF Exit, Goto
    <3>2. groupErr' \in {ret[d], groupErr} /\ (groupErr' = "nil" => groupErr = "nil" /\ ret[d] = "nil")
      BY <3>1 DEF FirstError
    <3>. QED
      BY <1>0, <1>1, <1>2, <3>1, <3>2 DEF ReportInv, TypeOK, StartTypes
  <2>2. CASE Depth[d] = 1
    <3>1. ret' = ret /\ groupErr' = groupErr /\ pc' = [pc EXCEPT ![d] = "done"]
      BY <1>5, <2>2 DEF Exit, Goto
    <3>. QED
      BY <1>0, <1>1, <1>2, <2>2, <3>1 DEF ReportInv, TypeOK, StartTypes
  <2>3. CASE Depth[d] > 1
    <3>1. /\ groupErr' = groupErr
          /\ pc' = [pc EXCEPT ![d] = "done",
                      ![Parent[d]] = IF ret[d] = "nil" THEN "dirs" ELSE "unwind"]
          /\ ret' = IF ret[d] = "nil" THEN ret ELSE [ret EXCEPT ![Parent[d]] = ret[d]]
      BY <1>5, <2>3 DEF Exit
    <3>2. Parent[d] \in Dir /\ Depth[Parent[d]] > 0
      BY <2>3, DepthFacts
    <3>. QED
      BY <1>0, <1>1, <1>2, <2>3, <3>1, <3>2 DEF ReportInv, TypeOK, StartTypes
  <2>. QED
    BY <2>1, <2>2, <2>3, DepthFacts
<1>. QED
  BY <1>3, <1>4, <1>5, ReportCases

LEMMA ReportInit == Init => ReportInv
BY DEF Init, ReportInv, Caused, Root

LEMMA ReportStep == SafeInv /\ ReportInv /\ [Next]_vars => ReportInv'
<1>. SUFFICES ASSUME SafeInv, ReportInv, [Next]_vars PROVE ReportInv'
  OBVIOUS
<1>0. TypeOK /\ PhaseInv /\ StackInv /\ WalkTypes /\ StartTypes
  BY DEF SafeInv, TypeOK
<1>1. ASSUME NEW d \in Dir, Walk(d) PROVE ReportInv'
  <2>1. phase # "returned"
    BY <1>0, <1>1, PhaseStep DEF PhaseInv
  <2>. QED
    BY <1>0, <1>1, <2>1, ReportWalk
<1>2. CASE Start
  BY <1>0, <1>2 DEF Start, ReportInv, Caused, Refused, errorVars, PhaseInv, Begun, Root
<1>3. CASE StartReturns
  BY <1>3 DEF StartReturns, ReportInv, Caused, Refused, errorVars, walkVars
<1>4. CASE CloseQueue
  BY <1>4 DEF CloseQueue, ReportInv, Caused, Refused, errorVars, walkVars
<1>5. CASE Terminate
  BY <1>5 DEF Terminate, ReportInv, Caused, Refused, walkVars, startVars
<1>6. CASE \E i \in ConcurrencyArgs : SetConcurrency(i)
  BY <1>6 DEF SetConcurrency, ReportInv, Caused, Refused, errorVars, walkVars
<1>7. CASE Receive \/ Halted \/ UNCHANGED vars
  BY <1>7 DEF Receive, Halted, vars, ReportInv, Caused, Refused, errorVars, walkVars, startVars
<1>. QED
  BY <1>1, <1>2, <1>3, <1>4, <1>5, <1>6, <1>7 DEF Next

LEMMA ReportAlways == HiddenCheckTotal /\ Spec => [](SafeInv /\ ReportInv)
<1>. SUFFICES ASSUME HiddenCheckTotal PROVE Spec => [](SafeInv /\ ReportInv)
  OBVIOUS
<1>1. SafeInv /\ [Next]_vars => SafeInv'
  BY SafeStep
<1>. QED
  BY <1>1, SafeInit, ReportInit, ReportStep, PTL DEF Spec

\* Start returns ErrTerminateWalk only after Terminate, an I/O error only after
\* the handler refused one, and nil only when every root returned nil.
THEOREM ResultCorrect == HiddenCheckTotal /\ Spec => []ResultJustified
<1>1. SafeInv /\ ReportInv => ResultJustified
  BY DEF SafeInv, PhaseInv, ReportInv, Caused, Refused, ResultJustified
<1>. QED
  BY <1>1, ReportAlways, PTL

-----------------------------------------------------------------------------
(* The refinement                                                          *)

\* A step of an activation puts at most one file on the channel.
LEMMA SentCases ==
  ASSUME TypeOK, ~closed, NEW d \in Dir, Walk(d)
  PROVE  /\ UNCHANGED <<closed, isWalking>>
         /\ UNCHANGED sent \/ \E f \in File : sent' = Append(sent, f)
<1>1. CASE VisitFile(d)
  <2>1. files[d] \subseteq File
    BY DEF TypeOK, WalkTypes
  <2>. QED
    BY <1>1, <2>1, VisitFileCases DEF VisitFile, Dispose, Send, queueVars, startVars
<1>2. CASE ~VisitFile(d)
  BY <1>2
  DEF Walk, BuildGlobalIgnores, Enter, Acquire, CheckTerminate, OpenDir, LoadIgnores, FilesDone,
      VisitDir, WaitChildren, Unwind, Exit, startVars, queueVars
<1>. QED
  BY <1>1, <1>2

LEMMA LoggedIsSent == Contract!Logged = SentFiles
BY DEF Contract!Logged, SentFiles

\* A file appended to a list without duplicates is not on it.
LEMMA AppendedIsNew ==
  ASSUME sent \in Seq(File), NEW f \in File, sent' = Append(sent, f), SentOnce'
  PROVE  f \notin SentFiles
<1>1. SUFFICES ASSUME NEW i \in 1..Len(sent), sent[i] = f PROVE FALSE
  BY DEF SentFiles
<1>2. /\ Len(sent') = Len(sent) + 1
      /\ sent'[Len(sent) + 1] = f
      /\ sent'[i] = sent[i]
  BY SentAppend
<1>3. Len(sent) \in Nat
  OBVIOUS
<1>. QED
  BY <1>1, <1>2, <1>3 DEF SentOnce

LEMMA IInvCompleteNext == IInv' => CompleteWalk'
BY IInvComplete, PTL

\* A step of an activation publishes a file or, at worst, goes wrong.
LEMMA ContractWalk ==
  ASSUME IInv, IInv', NEW d \in Dir, Walk(d)
  PROVE  Contract!Next
<1>1. TypeOK /\ StackInv /\ ErrorInv /\ PhaseInv /\ WalkTypes /\ StartTypes
  BY DEF IInv, SafeInv, TypeOK
<1>2. ~closed /\ isWalking
  <2>1. Live(d) /\ ~closed
    BY <1>1, BegunStays, PhaseStep
  <2>. QED
    BY <1>1, <2>1 DEF PhaseInv, Live, Begun, StartTypes, Phase
<1>3. Clean' \in BOOLEAN /\ (Clean' => Clean)
  BY <1>1, CleanBefore DEF Clean
<1>4. CASE UNCHANGED sent
  BY <1>1, <1>2, <1>3, <1>4, SentCases DEF Contract!Next, Contract!GoWrong, Contract!Degrades
<1>5. ASSUME NEW f \in File, sent' = Append(sent, f)
      PROVE  Contract!Next
  <2>1. sent \in Seq(File) /\ SentOnce' /\ CompleteWalk'
    BY IInvCompleteNext DEF IInv, SentInv, TypeOK, QueueTypes, SafeInv
  <2>2. f \notin SentFiles /\ f \in SentFiles'
    BY <1>5, <2>1, AppendedIsNew, SentAppend
  <2>3. Clean' => f \in Expected
    BY <2>1, <2>2 DEF CompleteWalk, Expected, Reachable, Closed, Root, SubdirsOf, Within
  <2>. QED
    BY <1>1, <1>2, <1>3, <1>5, <2>2, <2>3, SentCases, LoggedIsSent
    DEF Contract!Next, Contract!Publish, Contract!Degrades
<1>. QED
  BY <1>1, <1>2, <1>4, <1>5, SentCases

LEMMA ContractStep ==
  ASSUME IInv, IInv', [Next]_vars
  PROVE  [Contract!Next]_(Contract!contractVars)
<1>0. PhaseInv /\ CompleteWalk /\ CompleteWalk'
  BY IInvComplete, IInvCompleteNext DEF IInv, SafeInv
<1>1. ASSUME NEW d \in Dir, Walk(d) PROVE Contract!Next
  BY <1>1, ContractWalk
<1>2. CASE Start
  BY <1>0, <1>2
  DEF Start, PhaseInv, Contract!Next, Contract!Begin, Clean, queueVars, errorVars
<1>3. CASE CloseQueue
  BY <1>0, <1>3, LoggedIsSent
  DEF CloseQueue, PhaseInv, CompleteWalk, Contract!Next, Contract!Shut, Clean, walkVars,
      errorVars, SentFiles, Expected, Reachable, Closed, Root, SubdirsOf, Within
<1>4. CASE StartReturns
  BY <1>0, <1>4
  DEF StartReturns, PhaseInv, Contract!Next, Contract!End, Clean, walkVars, queueVars, errorVars
<1>5. CASE Terminate \/ Receive \/ Halted \/ UNCHANGED vars
           \/ \E i \in ConcurrencyArgs : SetConcurrency(i)
  BY <1>5
  DEF Terminate, Receive, Halted, SetConcurrency, vars, walkVars, startVars, queueVars,
      errorVars, Clean, Contract!contractVars
<1>. QED
  BY <1>1, <1>2, <1>3, <1>4, <1>5 DEF Next

\* The concurrent walk, seen through its channel and Walking(), is the abstract
\* one: each file once for each root, an expected one while nothing has failed, all of
\* them before the only close, and Walking() turns false after that.
THEOREM ContractCorrect == HiddenCheckTotal /\ Spec => ImplementsContract
<1>1. Init => Contract!Init
  BY DEF Init, Contract!Init, Clean
<1>2. IInv /\ IInv' /\ [Next]_vars => [Contract!Next]_(Contract!contractVars)
  BY ContractStep
<1>. QED
  BY <1>1, <1>2, FullAlways, PTL DEF Spec, ImplementsContract, Contract!Spec

-----------------------------------------------------------------------------
(* The chain of the waiting activations                                    *)

\* Whoever waits for a call has one that is alive.
CallInv ==
  \A d \in Dir : pc[d] = "call" =>
    \E c \in Dir : Depth[c] > 1 /\ Parent[c] = d /\ Live(c)

\* Dir is finite, so some member of a set of directories is deepest.
LEMMA DeepestOf ==
  ASSUME NEW S, S \subseteq Dir, S # {}
  PROVE  \E d \in S : \A e \in S : Depth[e] <= Depth[d]
<1>. DEFINE Up(d) == {e \in S : Depth[d] <= Depth[e]}
            F == {Up(d) : d \in S}
            R == StrictSubsetOrdering(Dir)
<1>1. F \subseteq FiniteSubsetsOf(Dir)
  <2>. SUFFICES ASSUME NEW d \in S PROVE Up(d) \in FiniteSubsetsOf(Dir)
    OBVIOUS
  <2>1. IsFiniteSet(Up(d))
    BY FS_Subset, TreeAssumption
  <2>. QED
    BY <2>1 DEF FiniteSubsetsOf
<1>2. F # {}
  OBVIOUS
<1>3. \E x \in F : \A y \in F : ~ (<<y, x>> \in R)
  <2>1. IsWellFoundedOn(R, FiniteSubsetsOf(Dir))
    BY FS_StrictSubsetOrderingWellFounded
  <2>. HIDE DEF F, R
  <2>. QED
    BY <1>1, <1>2, <2>1, WFMin
<1>4. PICK d \in S : \A y \in F : ~ (<<y, Up(d)>> \in R)
  BY <1>3
<1>5. ASSUME NEW e \in S, ~(Depth[e] <= Depth[d]) PROVE FALSE
  <2>1. /\ Depth[e] \in Nat
        /\ Depth[d] \in Nat
    BY DepthFacts
  <2>2. <<Up(e), Up(d)>> \in (SUBSET Dir) \X (SUBSET Dir)
    OBVIOUS
  <2>3. d \in Up(d) /\ d \notin Up(e)
    BY <1>5, <2>1
  <2>4. ASSUME NEW g \in Up(e) PROVE g \in Up(d)
    <3>1. Depth[g] \in Nat
      BY DepthFacts
    <3>. QED
      BY <1>5, <2>1, <2>4, <3>1
  <2>5. <<Up(e), Up(d)>> \in R
    BY <2>2, <2>3, <2>4 DEF StrictSubsetOrdering
  <2>. QED
    BY <1>4, <2>5
<1>. QED
  BY <1>5

\* While there is room in the channel an activation that is alive and cannot
\* step waits for a slot, for its goroutines or for its callee.
LEMMA Waiting ==
  ASSUME WalkTypes, Len(sent) - taken < QueueCap, NEW d \in Dir, Live(d), ~Unblocked(d)
  PROVE  \/ pc[d] = "acquire" /\ ~(Cardinality(sem) < SemaphoreCount)
         \/ pc[d] = "dirs" /\ \E c \in wg : Parent[c] = d
         \/ pc[d] = "call"
BY DEF WalkTypes, PC, Live, Unblocked

\* A call is never the end of the chain: the deepest one has a callee, which
\* takes no slot, has no goroutines and makes no call.
LEMMA CallMoves ==
  ASSUME WalkTypes, StackInv, CountInv, CallInv, Len(sent) - taken < QueueCap,
         NEW d \in Dir, pc[d] = "call"
  PROVE  \E e \in Dir : Unblocked(e)
<1>. DEFINE S == {e \in Dir : pc[e] = "call"}
<1>1. PICK g \in S : \A e \in S : Depth[e] <= Depth[g]
  <2>1. S \subseteq Dir /\ S # {}
    OBVIOUS
  <2>. HIDE DEF S
  <2>. QED
    BY <2>1, DeepestOf
<1>2. PICK c \in Dir : Depth[c] > 1 /\ Parent[c] = g /\ Live(c)
  BY DEF CallInv
<1>3. pc[c] # "call"
  <2>1. Depth[c] = Depth[g] + 1 /\ Depth[g] \in Nat
    BY <1>2, DepthFacts
  <2>. QED
    BY <1>1, <2>1
<1>4. pc[c] # "acquire"
  BY <1>2, DepthFacts DEF StackInv, StackAt
<1>5. \A e \in wg : Parent[e] # c
  BY <1>2, DepthFacts DEF CountInv
<1>. QED
  BY <1>2, <1>3, <1>4, <1>5, Waiting

LEMMA SomebodyMoves ==
  ASSUME TypeOK, PhaseInv, StackInv, CountInv, SlotsAccounted, CallInv
  PROVE  NeverStuck
<1>1. SUFFICES ASSUME phase = "walking", Len(sent) - taken < QueueCap,
                      \A d \in Dir : ~Unblocked(d),
                      NEW r \in Root, pc[r] # "done"
               PROVE  FALSE
  BY DEF NeverStuck
<1>. USE <1>1 DEF TypeOK
<1>2. \A d \in Dir : pc[d] # "call"
  BY CallMoves
<1>3. r \in Dir /\ Depth[r] = 0 /\ Live(r)
  BY DEF Root, PhaseInv, Begun, Live
<1>4. PICK c \in wg : Parent[c] = r
  <2>1. pc[r] # "acquire"
    BY <1>3 DEF StackInv, StackAt
  <2>. QED
    BY <1>2, <1>3, <2>1, Waiting
<1>5. c \in Dir /\ Depth[c] = 1 /\ Live(c)
  BY DEF CountInv
<1>6. \A e \in wg : Parent[e] # c
  BY <1>5, DepthFacts DEF CountInv
<1>7. ~(Cardinality(sem) < SemaphoreCount)
  BY <1>2, <1>5, <1>6, Waiting
<1>8. PICK s \in sem : s \in Dir
  <2>1. Cardinality({}) < SemaphoreCount
    <3>1. Cardinality({}) = 0
      BY FS_EmptySet
    <3>. QED
      BY <3>1, ConfigAssumption
  <2>2. sem # {}
    BY <1>7, <2>1
  <2>. QED
    BY <2>2 DEF WalkTypes
<1>9. Depth[s] = 1 /\ Live(s) /\ pc[s] # "acquire"
  BY <1>8 DEF SlotsAccounted, InSection, Live
<1>10. \A e \in wg : Parent[e] # s
  BY <1>8, <1>9, DepthFacts DEF CountInv
<1>. QED
  BY <1>2, <1>8, <1>9, <1>10, Waiting

LEMMA CallWalk ==
  ASSUME WalkTypes, StackInv, CallInv, NEW d \in Dir, Walk(d)
  PROVE  CallInv'
<1>. SUFFICES ASSUME NEW e \in Dir, pc'[e] = "call"
              PROVE  \E c \in Dir : Depth[c] > 1 /\ Parent[c] = e /\ Live(c)'
  BY DEF CallInv
<1>1. CASE VisitDir(d) /\ pc[e] # "call"
  <2>1. PICK c \in dirs[d], ignore \in BOOLEAN : Descend(d, c, ignore)
    BY <1>1, VisitDirCases DEF WalkTypes, VisitDir, Return, Goto
  <2>2. c \in Dir /\ c # d /\ Parent[c] = d /\ Depth[c] > 0
    BY <1>1, <2>1 DEF WalkTypes, StackInv, StackAt, SubdirsOf, Begun, VisitDir, At
  <2>3. e = d /\ Depth[d] # 0 /\ pc'[c] = "enter"
    BY <1>1, <2>1, <2>2 DEF WalkTypes, Descend, Goto
  <2>4. Depth[c] > 1
    BY <2>2, <2>3, DepthFacts
  <2>. QED
    BY <2>2, <2>3, <2>4 DEF Live
<1>2. CASE ~VisitDir(d) /\ pc[e] # "call"
  BY <1>2
  DEF Walk, BuildGlobalIgnores, Enter, Acquire, CheckTerminate, OpenDir, LoadIgnores,
      VisitFile, FilesDone, WaitChildren, Unwind, Exit, At, Goto, Return, WalkTypes
<1>3. CASE pc[e] = "call"
  <2>1. PICK c \in Dir : Depth[c] > 1 /\ Parent[c] = e /\ Live(c)
    BY <1>3 DEF CallInv
  <2>2. CASE VisitDir(d)
    BY <2>1, <2>2, VisitDirCases DEF VisitDir, At, Descend, Goto, Return, Live, WalkTypes
  <2>3. CASE Exit(d)
    BY <2>1, <2>3, DepthFacts DEF Exit, At, Goto, Live, WalkTypes
  <2>4. CASE ~VisitDir(d) /\ ~Exit(d)
    BY <2>1, <2>4
    DEF Walk, BuildGlobalIgnores, Enter, Acquire, CheckTerminate, OpenDir, LoadIgnores,
        VisitFile, FilesDone, WaitChildren, Unwind, At, Goto, Return, Live, WalkTypes
  <2>. QED
    BY <2>1, <2>2, <2>3, <2>4
<1>. QED
  BY <1>1, <1>2, <1>3

LEMMA CallStep == SafeInv /\ CallInv /\ [Next]_vars => CallInv'
<1>. SUFFICES ASSUME SafeInv, CallInv, [Next]_vars PROVE CallInv'
  OBVIOUS
<1>1. ASSUME NEW d \in Dir, Walk(d) PROVE CallInv'
  BY <1>1, CallWalk DEF SafeInv, TypeOK
<1>2. CASE Start
  BY <1>2 DEF Start, CallInv
<1>3. CASE UNCHANGED pc
  BY <1>3 DEF CallInv, Live
<1>. QED
  BY <1>1, <1>2, <1>3
  DEF Next, Halted, SetConcurrency, CloseQueue, StartReturns, Terminate, Receive, walkVars,
      vars

\* As long as the channel has room some activation can step, or every root is
\* done: for every tree and every number of slots, no chain of roots, callers
\* and goroutines waits for itself.
THEOREM NeverStuckCorrect == HiddenCheckTotal /\ Spec => []NeverStuck
<1>. SUFFICES ASSUME HiddenCheckTotal PROVE Spec => []NeverStuck
  OBVIOUS
<1>1. Init => CallInv
  BY DEF Init, CallInv
<1>2. SafeInv /\ [Next]_vars => SafeInv'
  BY SafeStep
<1>3. SafeInv /\ CallInv => NeverStuck
  BY SomebodyMoves DEF SafeInv
<1>. QED
  BY SafeInit, <1>1, <1>2, <1>3, CallStep, PTL DEF Spec

-----------------------------------------------------------------------------
(* Nobody goes back                                                        *)

Later(d) == Stage(pc[d]) < Stage(pc'[d])

\* A step to a later label takes d on, whatever becomes of its lists.
LEMMA LaterMoves ==
  ASSUME NEW d, Later(d)
  PROVE  MovesOn(d)
BY DEF Later, MovesOn

LEMMA StageFacts ==
  /\ Stage("idle") = 0 /\ Stage("globals") = 1 /\ Stage("enter") = 2
  /\ Stage("acquire") = 3 /\ Stage("check") = 4 /\ Stage("open") = 5
  /\ Stage("ignores") = 6 /\ Stage("files") = 7
  /\ Stage("dirs") = 8 /\ Stage("call") = 8
  /\ Stage("unwind") = 9 /\ Stage("exit") = 10 /\ Stage("done") = 11
BY DEF Stage

\* What a step of d does to the activations: d moves on and the others rest,
\* except that a descent also begins c, and an exit also calls the caller back.
LEMMA WalkMovesOn ==
  ASSUME WalkTypes, StackInv, NEW d \in Dir, Walk(d)
  PROVE  /\ \A e \in Dir : MovesOn(e) \/ Rests(e)
         /\ \E e \in Dir : MovesOn(e)
<1>. USE DEF At, Goto, Return, entries, WalkTypes
<1>1. ASSUME NEW l, pc' = [pc EXCEPT ![d] = l], Stage(pc[d]) < Stage(l),
             \A e \in Dir \ {d} : files'[e] = files[e] /\ dirs'[e] = dirs[e]
      PROVE  (\A e \in Dir : MovesOn(e) \/ Rests(e)) /\ (\E e \in Dir : MovesOn(e))
  <2>1. MovesOn(d)
    BY <1>1, LaterMoves DEF Later
  <2>2. \A e \in Dir \ {d} : Rests(e)
    BY <1>1 DEF Rests
  <2>. QED
    BY <2>1, <2>2
<1>0. ASSUME NEW l, pc' = [pc EXCEPT ![d] = l], Stage(pc[d]) < Stage(l),
              files' = files, dirs' = dirs
       PROVE  (\A e \in Dir : MovesOn(e) \/ Rests(e)) /\ (\E e \in Dir : MovesOn(e))
  BY <1>1, <1>0
<1>2. CASE BuildGlobalIgnores(d)
  BY <1>1, <1>2, StageFacts DEF BuildGlobalIgnores
<1>3. CASE Enter(d)
  BY <1>1, <1>3, StageFacts DEF Enter
<1>4. CASE Acquire(d)
  <2>1. Stage(pc[d]) < Stage("check")
    <3>1. pc[d] = "acquire"
      BY <1>4 DEF Acquire
    <3>. QED
      BY <3>1, StageFacts
  <2>2. pc' = [pc EXCEPT ![d] = "check"] /\ files' = files /\ dirs' = dirs
    BY <1>4 DEF Acquire
  <2>. QED
    BY <1>0, <2>1, <2>2
<1>5. CASE CheckTerminate(d)
  BY <1>1, <1>5, StageFacts DEF CheckTerminate
<1>6. CASE OpenDir(d)
  BY <1>1, <1>6, StageFacts DEF OpenDir
<1>7. CASE LoadIgnores(d)
  BY <1>1, <1>7, StageFacts DEF LoadIgnores
<1>8. CASE VisitFile(d)
  <2>1. CASE pc' = [pc EXCEPT ![d] = "unwind"] /\ UNCHANGED files
    <3>1. pc[d] = "files" /\ files' = files /\ dirs' = dirs
      BY <1>8, <2>1 DEF VisitFile
    <3>2. Stage(pc[d]) < Stage("unwind")
      BY <3>1, StageFacts
    <3>. QED
      BY <1>0, <2>1, <3>1, <3>2
  <2>2. CASE \E f \in files[d] : /\ files' = [files EXCEPT ![d] = @ \ {f}]
                                 /\ UNCHANGED pc
    <3>1. PICK f \in files[d] : files' = [files EXCEPT ![d] = @ \ {f}] /\ UNCHANGED pc
      BY <2>2
    <3>2. UNCHANGED dirs
      BY <1>8 DEF VisitFile
    <3>3. \A e \in Dir \ {d} : Rests(e)
      BY <3>1, <3>2 DEF Rests
    <3>4. files'[d] = files[d] \ {f}
      BY <3>1
    <3>5. MovesOn(d)
      BY <3>1, <3>2, <3>4 DEF MovesOn
    <3>. QED
      BY <3>3, <3>5
  <2>. QED
    BY <1>8, <2>1, <2>2 DEF VisitFile, Dispose
<1>9. CASE FilesDone(d)
  <2>1. Stage(pc[d]) < Stage("dirs")
    <3>1. pc[d] = "files"
      BY <1>9 DEF FilesDone
    <3>. QED
      BY <3>1, StageFacts
  <2>2. pc' = [pc EXCEPT ![d] = "dirs"] /\ files' = files /\ dirs' = dirs
    BY <1>9 DEF FilesDone
  <2>. QED
    BY <1>0, <2>1, <2>2
<1>10. CASE VisitDir(d)
  <2>0. pc[d] = "dirs" /\ UNCHANGED files
    BY <1>10 DEF VisitDir
  <2>1. CASE pc' = [pc EXCEPT ![d] = "unwind"] /\ UNCHANGED dirs
    <3>1. Stage(pc[d]) < Stage("unwind")
      BY <2>0, StageFacts
    <3>. QED
      BY <1>0, <2>0, <2>1, <3>1
  <2>2. ASSUME NEW c \in dirs[d], NEW ignore \in BOOLEAN, Descend(d, c, ignore)
        PROVE  (\A e \in Dir : MovesOn(e) \/ Rests(e)) /\ (\E e \in Dir : MovesOn(e))
    <3>1. c \in Dir /\ c # d /\ pc[c] = "idle"
      BY <2>0 DEF StackInv, StackAt, SubdirsOf, Begun
    <3>2. dirs' = [dirs EXCEPT ![d] = @ \ {c}]
      BY <2>2 DEF Descend
    <3>3. \A e \in Dir \ {d, c} : Rests(e)
      BY <2>0, <2>2, <3>2 DEF Descend, Rests
    <3>4. MovesOn(c) \/ Rests(c)
      <4>1. pc'[c] = "enter" \/ UNCHANGED pc
        BY <2>2, <3>1 DEF Descend
      <4>2. CASE UNCHANGED pc
        BY <2>0, <3>1, <3>2, <4>2 DEF Rests
      <4>3. CASE pc'[c] = "enter"
        BY <3>1, <4>3, LaterMoves, StageFacts DEF Later
      <4>. QED
        BY <4>1, <4>2, <4>3
    <3>5. MovesOn(d)
      <4>1. pc'[d] \in {"dirs", "call"}
        BY <2>0, <2>2, <3>1 DEF Descend
      <4>2. Stage(pc'[d]) = Stage(pc[d])
        BY <2>0, <4>1, StageFacts
      <4>3. dirs'[d] = dirs[d] \ {c}
        BY <3>2
      <4>. QED
        BY <2>0, <4>2, <4>3 DEF MovesOn
    <3>. QED
      BY <3>3, <3>4, <3>5
  <2>. QED
    BY <1>10, <2>1, <2>2, VisitDirCases
<1>11. CASE WaitChildren(d)
  <2>1. Stage(pc[d]) < Stage("unwind")
    <3>1. pc[d] = "dirs"
      BY <1>11 DEF WaitChildren
    <3>. QED
      BY <3>1, StageFacts
  <2>2. pc' = [pc EXCEPT ![d] = "unwind"] /\ files' = files /\ dirs' = dirs
    BY <1>11 DEF WaitChildren
  <2>. QED
    BY <1>0, <2>1, <2>2
<1>12. CASE Unwind(d)
  <2>1. Stage(pc[d]) < Stage("exit")
    <3>1. pc[d] = "unwind"
      BY <1>12 DEF Unwind
    <3>. QED
      BY <3>1, StageFacts
  <2>2. pc' = [pc EXCEPT ![d] = "exit"] /\ files' = files /\ dirs' = dirs
    BY <1>12 DEF Unwind
  <2>. QED
    BY <1>0, <2>1, <2>2
<1>13. CASE Exit(d)
  <2>1. CASE pc' = [pc EXCEPT ![d] = "done"]
    <3>1. pc[d] = "exit" /\ files' = files /\ dirs' = dirs
      BY <1>13 DEF Exit
    <3>2. Stage(pc[d]) < Stage("done")
      BY <3>1, StageFacts
    <3>. QED
      BY <1>0, <2>1, <3>1, <3>2
  <2>2. CASE Depth[d] > 1
    <3>. DEFINE p == Parent[d]
    <3>1. p \in Dir /\ p # d /\ pc[p] = "call"
      BY <1>13, <2>2, DepthFacts DEF Exit, StackInv, StackAt, Live
    <3>2. /\ pc'[d] = "done" /\ pc[d] = "exit"
          /\ pc'[p] \in {"dirs", "unwind"}
          /\ \A e \in Dir \ {d, p} : pc'[e] = pc[e]
          /\ UNCHANGED <<files, dirs>>
      BY <1>13, <2>2, <3>1 DEF Exit
    <3>3. \A e \in Dir \ {d, p} : Rests(e)
      BY <3>2 DEF Rests
    <3>4. MovesOn(d)
      BY <3>2, LaterMoves, StageFacts DEF Later
    <3>5. MovesOn(p)
      <4>1. CASE pc'[p] = "unwind"
        BY <3>1, <4>1, LaterMoves, StageFacts DEF Later
      <4>2. CASE pc'[p] = "dirs"
        BY <3>1, <3>2, <4>2, StageFacts DEF MovesOn
      <4>. QED
        BY <3>2, <4>1, <4>2
    <3>. QED
      BY <3>3, <3>4, <3>5
  <2>. QED
    BY <1>13, <2>1, <2>2, DepthFacts DEF Exit
<1>. QED
  BY <1>2, <1>3, <1>4, <1>5, <1>6, <1>7, <1>8, <1>9, <1>10, <1>11, <1>12, <1>13
  DEF Walk

\* No step takes an activation back, and every step takes somebody on: with
\* NeverStuckCorrect, the safety half of "Start returns".
THEOREM NoStepBackCorrect == HiddenCheckTotal /\ Spec => NoStepBack
<1>. DEFINE Everybody == \A d \in Dir : MovesOn(d) \/ Rests(d)
            Somebody == \/ \E d \in Dir : MovesOn(d)
                        \/ StartMovesOn
                        \/ taken' = taken + 1
                        \/ terminateWalking' # terminateWalking
            Step == phase # "idle" => Everybody /\ Somebody
<1>1. ASSUME SafeInv, [Next]_vars PROVE [Step]_vars
  <2>1. SUFFICES ASSUME phase # "idle", vars' # vars PROVE Everybody /\ Somebody
    OBVIOUS
  <2>2. WalkTypes /\ StackInv /\ terminateWalking \in BOOLEAN
    BY <1>1 DEF SafeInv, TypeOK, ErrorTypes
  <2>3. ASSUME NEW d \in Dir, Walk(d) PROVE Everybody /\ Somebody
    BY <2>2, <2>3, WalkMovesOn
  <2>4. UNCHANGED walkVars => Everybody
    BY DEF walkVars, entries, Rests
  <2>5. CASE CloseQueue
    BY <2>4, <2>5 DEF CloseQueue, StartMovesOn
  <2>6. CASE StartReturns
    BY <2>4, <2>6 DEF StartReturns, StartMovesOn
  <2>7. CASE Terminate
    BY <2>4, <2>7 DEF Terminate
  <2>8. CASE Receive
    BY <2>4, <2>8 DEF Receive
  <2>. QED
    BY <1>1, <2>1, <2>3, <2>5, <2>6, <2>7, <2>8 DEF Next, Halted, SetConcurrency, Start
<1>2. SafeInv /\ [Next]_vars => [Step]_vars
  BY <1>1
<1>. QED
  BY <1>2, SafeAlways, PTL DEF NoStepBack, Spec

-----------------------------------------------------------------------------
(* How many directories are open at once                                   *)

OpenDirs == open \cap Dir
OpenAt(k) == {d \in OpenDirs : Depth[d] = k}
OpenUpto(n) == {d \in OpenDirs : Depth[d] <= n}
LevelsUpto(n) == {k \in Levels : k <= n}

LEMMA FiniteSets ==
  /\ IsFiniteSet(OpenDirs) /\ IsFiniteSet(Root) /\ IsFiniteSet(Levels)
  /\ \A k : IsFiniteSet(OpenAt(k)) /\ IsFiniteSet(OpenUpto(k)) /\ IsFiniteSet(LevelsUpto(k))
  /\ Levels \subseteq Nat
<1>1. \A S \in SUBSET Dir : IsFiniteSet(S)
  BY FS_Subset, TreeAssumption
<1>2. IsFiniteSet(Levels)
  <2>. DEFINE S == {e \in Dir : Depth[e] > 0 /\ Within(e)}
              F == [d \in S |-> Depth[d]]
  <2>1. F \in Surjection(S, Levels)
    BY DEF Surjection, Levels
  <2>2. IsFiniteSet(S)
    BY <1>1
  <2>. HIDE DEF S, F
  <2>. QED
    BY <2>1, <2>2, FS_Surjection
<1>3. \A k : LevelsUpto(k) \in SUBSET Levels
  BY DEF LevelsUpto
<1>4. \A k : IsFiniteSet(LevelsUpto(k))
  BY <1>2, <1>3, FS_Subset
<1>5. Levels \subseteq Nat
  BY TreeAssumption DEF Levels
<1>. QED
  BY <1>1, <1>2, <1>4, <1>5 DEF OpenDirs, OpenAt, OpenUpto, Root

\* An open directory below depth 1 is called from an open one, a different one for each.
LEMMA CallerIsOpen ==
  ASSUME StackInv, HandleInv, NEW k \in Nat, k > 0
  PROVE  Cardinality(OpenAt(k + 1)) <= Cardinality(OpenAt(k))
<1>. DEFINE S == OpenAt(k + 1)
            T == OpenAt(k)
            F == [d \in S |-> Parent[d]]
<1>1. ASSUME NEW d \in S
      PROVE  d \in Dir /\ Depth[d] > 1 /\ Live(d) /\ Parent[d] \in T
  <2>1. d \in Dir /\ d \in open /\ Depth[d] = k + 1 /\ Depth[d] > 1
    BY DEF OpenAt, OpenDirs
  <2>2. Live(d)
    BY <2>1 DEF HandleInv, HandleAt, Live
  <2>3. Parent[d] \in Dir /\ Depth[Parent[d]] = k
    BY <2>1, DepthFacts
  <2>4. Parent[d] \in open
    BY <2>1, <2>2, <2>3 DEF StackInv, StackAt, HandleInv, HandleAt
  <2>. QED
    BY <2>1, <2>2, <2>3, <2>4 DEF OpenAt, OpenDirs
<1>2. F \in [S -> T]
  BY <1>1
<1>3. ASSUME NEW d \in S, NEW e \in S, F[d] = F[e] PROVE d = e
  <2>1. Parent[d] = Parent[e]
    BY <1>3
  <2>. QED
    BY <1>1, <2>1 DEF StackInv, OneCall
<1>4. F \in Injection(S, T)
  <2>. HIDE DEF F, S, T
  <2>. QED
    BY <1>2, <1>3 DEF Injection, IsInjective
<1>. QED
  BY <1>4, FiniteSets, FS_Injection

\* At each depth below the roots no more directories are open than there are
\* slots: of the depths where there are more, one would be the least.
LEMMA OpenAtBounded ==
  ASSUME SafeInv, NEW k \in Nat, k > 0
  PROVE  Cardinality(OpenAt(k)) <= SemaphoreCount
<1>. DEFINE D == {n \in Nat : n > 0 /\ ~(Cardinality(OpenAt(n)) <= SemaphoreCount)}
<1>1. SUFFICES ASSUME D # {} PROVE FALSE
  OBVIOUS
<1>2. PICK m \in D : \A n \in D : m <= n
  <2>1. D \subseteq Nat
    OBVIOUS
  <2>. HIDE DEF D
  <2>. QED
    BY <1>1, <2>1, LeastOf
<1>3. m \in Nat /\ m > 0 /\ ~(Cardinality(OpenAt(m)) <= SemaphoreCount)
  BY <1>2
<1>4. /\ \A n \in Nat : Cardinality(OpenAt(n)) \in Nat
      /\ SemaphoreCount \in Nat
  BY FiniteSets, FS_CardinalityType, ConfigAssumption
<1>5. CASE m = 1
  <2>1. OpenAt(1) \subseteq sem
    BY DEF OpenAt, OpenDirs, SafeInv, HandleInv, HandleAt, SlotsAccounted, InSection
  <2>2. IsFiniteSet(sem) /\ Cardinality(sem) \in Nat /\ Cardinality(sem) <= SemaphoreCount
    BY FS_Subset, FS_CardinalityType, TreeAssumption DEF SafeInv, SlotsAccounted, TypeOK, WalkTypes
  <2>3. Cardinality(OpenAt(1)) <= Cardinality(sem)
    BY <2>1, <2>2, FS_Subset
  <2>. QED
    BY <1>3, <1>4, <1>5, <2>2, <2>3
<1>6. CASE m # 1
  <2>1. m - 1 \in Nat /\ m - 1 > 0 /\ (m - 1) + 1 = m
    BY <1>3, <1>6
  <2>2. Cardinality(OpenAt(m)) <= Cardinality(OpenAt(m - 1))
    BY <2>1, CallerIsOpen DEF SafeInv
  <2>3. ~(Cardinality(OpenAt(m - 1)) <= SemaphoreCount)
    BY <1>3, <1>4, <2>1, <2>2
  <2>4. m - 1 \in D
    BY <2>1, <2>3
  <2>. HIDE DEF D
  <2>5. m <= m - 1
    BY <1>2, <2>4
  <2>. QED
    BY <1>3, <2>5
<1>. QED
  BY <1>5, <1>6

\* Level by level down the tree.
LEMMA OpenUptoBounded ==
  ASSUME SafeInv, NEW k \in Nat
  PROVE  Cardinality(OpenUpto(k)) <= Cardinality(Root) + SemaphoreCount * Cardinality(LevelsUpto(k))
<1>. DEFINE Fits(n) == Cardinality(OpenUpto(n))
                       <= Cardinality(Root) + SemaphoreCount * Cardinality(LevelsUpto(n))
            D == {n \in Nat : ~Fits(n)}
<1>1. SUFFICES ASSUME D # {} PROVE FALSE
  OBVIOUS
<1>2. PICK m \in D : \A n \in D : m <= n
  <2>1. D \subseteq Nat
    OBVIOUS
  <2>. HIDE DEF D
  <2>. QED
    BY <1>1, <2>1, LeastOf
<1>3. m \in Nat /\ ~Fits(m)
  BY <1>2
<1>4. /\ \A n : /\ Cardinality(OpenAt(n)) \in Nat
                /\ Cardinality(OpenUpto(n)) \in Nat
                /\ Cardinality(LevelsUpto(n)) \in Nat
      /\ Cardinality(Root) \in Nat /\ SemaphoreCount \in Nat
  BY FiniteSets, FS_CardinalityType, ConfigAssumption
<1>5. CASE m = 0
  <2>1. OpenUpto(0) \subseteq Root
    BY DepthFacts DEF OpenUpto, OpenDirs, Root
  <2>2. Cardinality(OpenUpto(0)) <= Cardinality(Root)
    BY <2>1, FiniteSets, FS_Subset
  <2>3. SemaphoreCount * Cardinality(LevelsUpto(0)) >= 0
    BY <1>4
  <2>4. SemaphoreCount * Cardinality(LevelsUpto(0)) \in Nat
    BY <1>4
  <2>. QED
    BY <1>3, <1>4, <1>5, <2>2, <2>4
<1>6. CASE m # 0
  <2>. DEFINE p == m - 1
  <2>0. Levels \subseteq Nat
    BY FiniteSets
  <2>1. p \in Nat /\ m = p + 1 /\ m > 0
    BY <1>3, <1>6
  <2>2. Fits(p)
    <3>1. p \notin D
      <4>. HIDE DEF D
      <4>. QED
        BY <1>2, <1>3, <2>1
    <3>. QED
      BY <2>1, <3>1
  <2>. HIDE DEF p
  <2>3. OpenUpto(m) = OpenUpto(p) \cup OpenAt(m)
    BY <2>1, DepthFacts DEF OpenUpto, OpenAt, OpenDirs
  <2>4. OpenUpto(p) \cap OpenAt(m) = {}
    BY <2>1, DepthFacts DEF OpenUpto, OpenAt, OpenDirs
  <2>5. Cardinality(OpenUpto(m)) = Cardinality(OpenUpto(p)) + Cardinality(OpenAt(m))
    <3>1. Cardinality(OpenUpto(p) \cap OpenAt(m)) = 0
      BY <2>4, FS_EmptySet
    <3>2. Cardinality(OpenUpto(p) \cup OpenAt(m))
          = Cardinality(OpenUpto(p)) + Cardinality(OpenAt(m)) - Cardinality(OpenUpto(p) \cap OpenAt(m))
      <4>1. IsFiniteSet(OpenUpto(p)) /\ IsFiniteSet(OpenAt(m))
        BY FiniteSets
      <4>. QED
        BY <4>1, FS_Union
    <3>3. Cardinality(OpenUpto(p)) \in Nat /\ Cardinality(OpenAt(m)) \in Nat
      BY <1>4
    <3>. QED
      BY <2>3, <3>1, <3>2, <3>3
  <2>6. CASE OpenAt(m) = {}
    <3>1. Cardinality(OpenUpto(m)) = Cardinality(OpenUpto(p))
      BY <2>3, <2>6
    <3>2. LevelsUpto(p) \subseteq LevelsUpto(m)
      <4>1. \A j \in Nat : j <= p => j <= m
        BY <2>1
      <4>. QED
        BY <2>0, <4>1 DEF LevelsUpto
    <3>3. Cardinality(LevelsUpto(p)) <= Cardinality(LevelsUpto(m))
      BY <3>2, FiniteSets, FS_Subset
    <3>4. SemaphoreCount * Cardinality(LevelsUpto(p)) <= SemaphoreCount * Cardinality(LevelsUpto(m))
      BY <1>4, <3>3
    <3>5. /\ SemaphoreCount * Cardinality(LevelsUpto(p)) \in Nat
          /\ SemaphoreCount * Cardinality(LevelsUpto(m)) \in Nat
      BY <1>4
    <3>. QED
      BY <1>3, <1>4, <2>2, <3>1, <3>4, <3>5
  <2>7. CASE OpenAt(m) # {}
    <3>1. m \in Levels
      <4>1. PICK d \in Dir : d \in open /\ Depth[d] = m
        BY <2>7 DEF OpenAt, OpenDirs
      <4>. QED
        BY <2>1, <4>1 DEF Levels, SafeInv, HandleInv, HandleAt
    <3>2. LevelsUpto(m) = LevelsUpto(p) \cup {m} /\ m \notin LevelsUpto(p)
      <4>1. \A j \in Nat : j <= m <=> (j <= p \/ j = m)
        BY <2>1
      <4>2. ~(m <= p)
        BY <2>1
      <4>. QED
        BY <2>0, <3>1, <4>1, <4>2 DEF LevelsUpto
    <3>3. Cardinality(LevelsUpto(m)) = Cardinality(LevelsUpto(p)) + 1
      BY <3>2, FiniteSets, FS_AddElement
    <3>4. Cardinality(OpenAt(m)) <= SemaphoreCount
      BY <2>1, <1>3, OpenAtBounded
    <3>5. SemaphoreCount * Cardinality(LevelsUpto(m))
          = SemaphoreCount * Cardinality(LevelsUpto(p)) + SemaphoreCount
      BY <1>4, <3>3
    <3>6. SemaphoreCount * Cardinality(LevelsUpto(p)) \in Nat
      BY <1>4
    <3>. QED
      BY <1>3, <1>4, <2>2, <2>5, <3>4, <3>5, <3>6
  <2>. QED
    BY <2>6, <2>7
<1>. QED
  BY <1>5, <1>6

\* The directories that are open at once are bounded by the roots, the slots and
\* the levels of the tree, not by its width, and a probed file is open only
\* together with its directory.
THEOREM HandlesBoundedCorrect == HiddenCheckTotal /\ Spec => []HandlesBounded
<1>1. ASSUME SafeInv PROVE HandlesBounded
  <2>1. ASSUME OpenDirs = {}
        PROVE  Cardinality(OpenDirs) <= Cardinality(Root) + SemaphoreCount * Cardinality(Levels)
    <3>1. /\ Cardinality(Root) \in Nat /\ SemaphoreCount \in Nat /\ Cardinality(Levels) \in Nat
          /\ Cardinality(OpenDirs) = 0
      BY <2>1, FiniteSets, FS_CardinalityType, FS_EmptySet, ConfigAssumption
    <3>2. SemaphoreCount * Cardinality(Levels) \in Nat
      BY <3>1
    <3>. QED
      BY <3>1, <3>2
  <2>2. ASSUME OpenDirs # {}
        PROVE  Cardinality(OpenDirs) <= Cardinality(Root) + SemaphoreCount * Cardinality(Levels)
    <3>1. PICK d \in OpenDirs : \A e \in OpenDirs : Depth[e] <= Depth[d]
      BY <2>2, DeepestOf DEF OpenDirs
    <3>2. Depth[d] \in Nat
      BY <3>1, DepthFacts DEF OpenDirs
    <3>3. OpenDirs = OpenUpto(Depth[d])
      BY <3>1 DEF OpenUpto
    <3>4. Cardinality(OpenDirs)
            <= Cardinality(Root) + SemaphoreCount * Cardinality(LevelsUpto(Depth[d]))
      BY <1>1, <3>2, <3>3, OpenUptoBounded
    <3>5. LevelsUpto(Depth[d]) \in SUBSET Levels
      BY DEF LevelsUpto
    <3>6. Cardinality(LevelsUpto(Depth[d])) <= Cardinality(Levels)
      BY <3>5, FiniteSets, FS_Subset
    <3>7. /\ Cardinality(Root) \in Nat /\ SemaphoreCount \in Nat /\ Cardinality(Levels) \in Nat
          /\ Cardinality(LevelsUpto(Depth[d])) \in Nat /\ Cardinality(OpenDirs) \in Nat
      BY FiniteSets, FS_CardinalityType, ConfigAssumption
    <3>8. /\ SemaphoreCount * Cardinality(LevelsUpto(Depth[d])) <= SemaphoreCount * Cardinality(Levels)
          /\ SemaphoreCount * Cardinality(LevelsUpto(Depth[d])) \in Nat
          /\ SemaphoreCount * Cardinality(Levels) \in Nat
      BY <3>6, <3>7
    <3>. QED
      BY <3>4, <3>7, <3>8
  <2>. QED
    BY <1>1, <2>1, <2>2 DEF HandlesBounded, OpenDirs, SafeInv, HandleInv
<1>. QED
  BY <1>1, SafeAlways, PTL
=============================================================================
