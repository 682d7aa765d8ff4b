--------------------------- MODULE FilterPipeline ---------------------------
(***************************************************************************)
(* The two loops of walkDirectoryRecursive over the entries of a directory *)
(* (src/file.go 523-850): each entry goes through the stages of the filter *)
(* in order, each stage may overrule what the earlier ones said, and at    *)
(* the end the entry is skipped with a reason, or sent or descended into.  *)
(* FileWalker abstracts all of this to the set Ignored.                    *)
(*                                                                         *)
(* What a stage finds (a pattern matches, a name is on a list) is data and *)
(* chosen freely; what it does with the verdict is the code's.             *)
(***************************************************************************)
EXTENDS Integers, Sequences, FiniteSets

CONSTANTS
  File,         \* the files of the directory
  Subdir,       \* its subdirectories
  Configs,      \* sets of stages that may be switched on, one is chosen
  MaxFindings,  \* bound: other stages than those of Decides that speak up
  Size,         \* [File -> Nat], bytes in the file
  Nul,          \* [File -> Nat], position of its first null byte, 0 if it has none
  ProbeBytes,   \* FileWalker.IgnoreBinaryFileBytes
  Faulty        \* entries whose hidden check or binary probe may fail

ASSUME FilterAssumption ==
  /\ File \cap Subdir = {}
  /\ Size \in [File -> Nat]
  /\ Nul \in [File -> Nat]
  /\ \A f \in File : Nul[f] <= Size[f]
  /\ ProbeBytes \in Nat
  /\ MaxFindings \in Nat

Entry == File \cup Subdir

(***************************************************************************)
(* The stages in the order of the code, named like the SkipReason they     *)
(* give.  Two gitignores stand for a list: a directory's and its parent's. *)
(***************************************************************************)
IgnoreLists == <<"global_ignore", "parent_gitignore", "gitignore", "ignore_file",
                 "custom_ignore">>

FileStages ==
  IgnoreLists \o
  <<"include_filename", "exclude_filename", "include_filename_regex",
    "exclude_filename_regex", "hidden", "allow_list_extension", "exclude_list_extension",
    "location_exclude_pattern", "binary">>

DirStages ==
  IgnoreLists \o
  <<"module_ignore", "include_directory", "exclude_directory", "include_directory_regex",
    "exclude_directory_regex", "hidden", "location_exclude_pattern">>

Stages(e) == IF e \in File THEN FileStages ELSE DirStages
StageNames == {FileStages[i] : i \in DOMAIN FileStages} \cup {DirStages[i] : i \in DOMAIN DirStages}

\* Stages that decide both ways: they say "ignore" or "keep" of every entry
\* when they are switched on, an ignore file only of the entries it matches.
Decides == {"include_filename", "include_filename_regex", "include_directory",
            "include_directory_regex", "exclude_list_extension"}
Matches == {IgnoreLists[i] : i \in DOMAIN IgnoreLists} \cup {"module_ignore"}
Checks == {"hidden", "binary"}

\* What a stage can find about an entry.
Findings(stage) ==
  CASE stage \in Matches -> {"silent", "ignore", "keep"}
    [] stage \in Decides -> {"ignore", "keep"}
    [] OTHER -> {"silent", "ignore"}

VARIABLES
  config,   \* the stages that are switched on
  left,     \* entries the loops have not come to
  entry,    \* the entry in hand, or Nobody
  at,       \* the stage that comes next for it
  ignore,   \* shouldIgnore
  reason,   \* skipReason
  found,    \* [StageNames -> what it found about the entry in hand]
  outcome,  \* [Entry -> "waiting", "passed" or the reason skipHandler was given]
  status    \* "running", "returned" or "refused"

vars == <<config, left, entry, at, ignore, reason, found, outcome, status>>

Nobody == "nobody"
Silent == [s \in StageNames |-> "silent"]
Said == {s \in StageNames : found[s] # "silent"}

\* skipReason while nothing says to ignore the entry.
NoReason == ""

\* The SkipReason of a stage.
Reason(stage) == IF stage = "parent_gitignore" THEN "gitignore" ELSE stage

-----------------------------------------------------------------------------
(* One entry                                                               *)

\* Files first, then directories.
Take ==
  /\ status = "running"
  /\ entry = Nobody
  /\ \E e \in left :
       /\ e \in Subdir => left \cap File = {}
       /\ entry' = e
       /\ left' = left \ {e}
  /\ at' = 1
  /\ ignore' = FALSE
  /\ reason' = NoReason
  /\ found' = Silent
  /\ UNCHANGED <<config, outcome, status>>

InHand == status = "running" /\ entry # Nobody /\ at <= Len(Stages(entry))
Stage == Stages(entry)[at]

\* Broken variant: an entry that is ignored stays ignored.
OverruleOnce(finding) ==
  /\ found' = [found EXCEPT ![Stage] = finding]
  /\ CASE finding = "ignore" -> ignore' = TRUE /\ reason' = Reason(Stage)
       [] OTHER -> UNCHANGED <<ignore, reason>>

\* Broken variant: the reason is not reset.
OverruleStale(finding) ==
  /\ found' = [found EXCEPT ![Stage] = finding]
  /\ CASE finding = "ignore" -> ignore' = TRUE /\ reason' = Reason(Stage)
       [] finding = "keep" -> ignore' = FALSE /\ UNCHANGED reason
       [] OTHER -> UNCHANGED <<ignore, reason>>

\* A stage notes what it finds, and overrules the verdict unless it is silent.
Overrule(finding) ==
  /\ found' = [found EXCEPT ![Stage] = finding]
  /\ CASE finding = "ignore" -> ignore' = TRUE /\ reason' = Reason(Stage)
       [] finding = "keep" -> ignore' = FALSE /\ reason' = NoReason
       [] OTHER -> UNCHANGED <<ignore, reason>>

\* Switched off: nothing is looked at.
Pass ==
  /\ InHand
  /\ Stage \notin config
  /\ at' = at + 1
  /\ UNCHANGED <<config, left, entry, ignore, reason, found, outcome, status>>

\* An ignore list, a name list, a regex, an extension list or a location.
Judge ==
  /\ InHand
  /\ Stage \in config \ Checks
  /\ \E finding \in Findings(Stage) :
       /\ finding = "silent" \/ Stage \in Decides \/ Cardinality(Said \ Decides) < MaxFindings
       /\ Overrule(finding)
  /\ at' = at + 1
  /\ UNCHANGED <<config, left, entry, outcome, status>>

\* "return err": the entries that are left are not looked at.
Return == status' = "refused"

\* IsHiddenDirEntry.  When it fails and the handler continues, s is false.
CheckHidden ==
  /\ InHand
  /\ Stage = "hidden" /\ Stage \in config
  /\ \/ /\ \E finding \in Findings(Stage) : Overrule(finding)
        /\ at' = at + 1
        /\ UNCHANGED status
     \/ /\ entry \in Faulty
        /\ \/ at' = at + 1 /\ UNCHANGED status
           \/ Return /\ UNCHANGED at
        /\ UNCHANGED <<ignore, reason, found>>
  /\ UNCHANGED <<config, left, entry, outcome>>

\* Broken variant: the last byte of the buffer is not looked at.
ZeroSeenShort(size, nul) == \E i \in 1..(ProbeBytes - 1) : i > size \/ i = nul

\* The buffer is made of ProbeBytes zeros, as many bytes as the file has are
\* read into its front, and all of it is searched for a zero.
ZeroSeen(size, nul) == \E i \in 1..ProbeBytes : i > size \/ i = nul

\* os.Open, io.ReadFull and the search.  A failed open leaves no handle, reads
\* nothing and asks the handler again for the failed read.  The handles are in
\* FileWalker (Probe).
ProbeBinary ==
  /\ InHand
  /\ Stage = "binary" /\ Stage \in config
  /\ \/ /\ Overrule(IF ZeroSeen(Size[entry], Nul[entry]) THEN "ignore" ELSE "silent")
        /\ at' = at + 1
        /\ UNCHANGED status
     \/ /\ entry \in Faulty
        /\ \/ /\ Overrule(IF ZeroSeen(0, 0) THEN "ignore" ELSE "silent")
              /\ at' = at + 1
              /\ UNCHANGED status
           \/ Return /\ UNCHANGED <<at, ignore, reason, found>>
  /\ UNCHANGED <<config, left, entry, outcome>>

\* skipHandler is called, or the file sent and the directory descended into.
Dispose == outcome' = [outcome EXCEPT ![entry] = IF ignore THEN reason ELSE "passed"]

Settle ==
  /\ status = "running"
  /\ entry # Nobody
  /\ at > Len(Stages(entry))
  /\ Dispose
  /\ entry' = Nobody
  /\ at' = 0
  /\ ignore' = FALSE
  /\ reason' = NoReason
  /\ found' = Silent
  /\ UNCHANGED <<config, left, status>>

\* Both loops are done.
Finish ==
  /\ status = "running"
  /\ entry = Nobody
  /\ left = {}
  /\ status' = "returned"
  /\ UNCHANGED <<config, left, entry, at, ignore, reason, found, outcome>>

Stopped == status # "running" /\ UNCHANGED vars

Init ==
  /\ config \in Configs
  /\ left = Entry
  /\ entry = Nobody
  /\ at = 0
  /\ ignore = FALSE
  /\ reason = NoReason
  /\ found = Silent
  /\ outcome = [e \in Entry |-> "waiting"]
  /\ status = "running"

Next == Take \/ Pass \/ Judge \/ CheckHidden \/ ProbeBinary \/ Settle \/ Finish \/ Stopped

Spec == Init /\ [][Next]_vars

-----------------------------------------------------------------------------
(* Properties                                                              *)

Reasons == {Reason(s) : s \in StageNames}

\* Every variable has its type, and a skip reason stands exactly while the
\* verdict is to ignore: skipHandler never gets an empty or a stale one.
TypeOK ==
  /\ config \in Configs
  /\ left \subseteq Entry
  /\ entry \in Entry \cup {Nobody}
  /\ at \in 0..(Len(FileStages) + 1)
  /\ ignore \in BOOLEAN
  /\ reason \in Reasons \cup {NoReason}
  /\ ignore <=> reason # NoReason
  /\ found \in [StageNames -> {"silent", "ignore", "keep"}]
  /\ outcome \in [Entry -> Reasons \cup {"waiting", "passed"}]
  /\ status \in {"running", "returned", "refused"}

\* What the stages' findings come to by the rule of the pipeline: "the last one
\* wins".  An entry no stage speaks about passes.
Speakers(e) == {i \in DOMAIN Stages(e) : found[Stages(e)[i]] # "silent"}
Verdict(e) ==
  IF Speakers(e) = {} THEN "passed"
  ELSE LET last == CHOOSE i \in Speakers(e) : \A j \in Speakers(e) : j <= i
       IN  IF found[Stages(e)[last]] = "keep" THEN "passed" ELSE Reason(Stages(e)[last])

\* An entry is disposed of once, by the last stage that had something to say,
\* and a skipped one with that stage's reason.
LastOneWins ==
  [][\A e \in Entry : outcome'[e] # outcome[e]
                      => outcome[e] = "waiting" /\ outcome'[e] = Verdict(e)]_vars

\* With the binary check on, a file with a null byte among the bytes looked at
\* is not sent, also when it could not be opened or read; and a file that was
\* read and fills the buffer counts as binary only for such a byte.
NoBinarySent ==
  \A f \in File :
    /\ "binary" \in config /\ outcome[f] = "passed" => Nul[f] \notin 1..ProbeBytes
    /\ f \notin Faulty /\ Size[f] >= ProbeBytes /\ outcome[f] = "binary"
         => Nul[f] \in 1..ProbeBytes
=============================================================================
