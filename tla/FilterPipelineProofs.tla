------------------------ MODULE FilterPipelineProofs ------------------------
(***************************************************************************)
(* Theorems about FilterPipeline, for every directory, every set of        *)
(* switched on stages and whatever the stages find.                        *)
(***************************************************************************)
EXTENDS FilterPipeline, TLAPS

-----------------------------------------------------------------------------
(* The stages                                                              *)

LEMMA FileStagesAre ==
  /\ FileStages[1] = "global_ignore" /\ FileStages[2] = "parent_gitignore"
  /\ FileStages[3] = "gitignore" /\ FileStages[4] = "ignore_file"
  /\ FileStages[5] = "custom_ignore" /\ FileStages[6] = "include_filename"
  /\ FileStages[7] = "exclude_filename" /\ FileStages[8] = "include_filename_regex"
  /\ FileStages[9] = "exclude_filename_regex" /\ FileStages[10] = "hidden"
  /\ FileStages[11] = "allow_list_extension" /\ FileStages[12] = "exclude_list_extension"
  /\ FileStages[13] = "location_exclude_pattern" /\ FileStages[14] = "binary"
BY DEF FileStages, IgnoreLists

LEMMA StagesLength ==
  /\ Len(FileStages) = 14 /\ DOMAIN FileStages = 1..14
  /\ Len(DirStages) = 12 /\ DOMAIN DirStages = 1..12
BY DEF FileStages, DirStages, IgnoreLists

LEMMA DirStagesAre ==
  /\ DirStages[1] = "global_ignore" /\ DirStages[2] = "parent_gitignore"
  /\ DirStages[3] = "gitignore" /\ DirStages[4] = "ignore_file"
  /\ DirStages[5] = "custom_ignore" /\ DirStages[6] = "module_ignore"
  /\ DirStages[7] = "include_directory" /\ DirStages[8] = "exclude_directory"
  /\ DirStages[9] = "include_directory_regex" /\ DirStages[10] = "exclude_directory_regex"
  /\ DirStages[11] = "hidden" /\ DirStages[12] = "location_exclude_pattern"
BY DEF DirStages, IgnoreLists

\* Facts about every stage are checked stage by stage.
LEMMA FileStagesApart ==
  ASSUME NEW i \in {1, 2, 3, 4, 5, 6, 7, 8, 9, 10, 11, 12, 13, 14},
         NEW j \in {1, 2, 3, 4, 5, 6, 7, 8, 9, 10, 11, 12, 13, 14},
         FileStages[i] = FileStages[j]
  PROVE  i = j
BY FileStagesAre

LEMMA FileStagesNamed ==
  ASSUME NEW i \in {1, 2, 3, 4, 5, 6, 7, 8, 9, 10, 11, 12, 13, 14}
  PROVE  FileStages[i] \notin {"", "waiting", "passed"}
BY FileStagesAre

LEMMA DirStagesApart ==
  ASSUME NEW i \in {1, 2, 3, 4, 5, 6, 7, 8, 9, 10, 11, 12},
         NEW j \in {1, 2, 3, 4, 5, 6, 7, 8, 9, 10, 11, 12},
         DirStages[i] = DirStages[j]
  PROVE  i = j
BY DirStagesAre

LEMMA DirStagesNamed ==
  ASSUME NEW i \in {1, 2, 3, 4, 5, 6, 7, 8, 9, 10, 11, 12}
  PROVE  DirStages[i] \notin {"", "waiting", "passed", "binary"}
BY DirStagesAre

LEMMA Positions ==
  /\ \A i \in 1..14 : i \in {1, 2, 3, 4, 5, 6, 7, 8, 9, 10, 11, 12, 13, 14}
  /\ \A i \in 1..12 : i \in {1, 2, 3, 4, 5, 6, 7, 8, 9, 10, 11, 12}
OBVIOUS

\* An entry meets every one of its stages once; the binary check is the last
\* one of a file and none of a directory's.
LEMMA StageFacts ==
  ASSUME NEW e \in Entry
  PROVE  /\ DOMAIN Stages(e) = 1..Len(Stages(e))
         /\ Len(Stages(e)) \in Nat /\ 12 <= Len(Stages(e)) /\ Len(Stages(e)) <= 14
         /\ \A i \in 1..Len(Stages(e)) : Stages(e)[i] \in StageNames
         /\ \A i, j \in 1..Len(Stages(e)) : Stages(e)[i] = Stages(e)[j] => i = j
         /\ \A i \in 1..Len(Stages(e)) :
              Stages(e)[i] = "binary" <=> e \in File /\ i = Len(Stages(e))
<1>1. CASE e \in File
  <2>1. Stages(e) = FileStages
    BY <1>1 DEF Stages
  <2>2. \A i \in 1..14 : FileStages[i] \in StageNames
    BY StagesLength DEF StageNames
  <2>3. \A i, j \in 1..14 : FileStages[i] = FileStages[j] => i = j
    BY Positions, FileStagesApart
  <2>4. FileStages[14] = "binary" /\ 14 \in 1..14
    BY FileStagesAre
  <2>5. \A i \in 1..14 : FileStages[i] = "binary" <=> i = 14
    BY <2>3, <2>4
  <2>6. DOMAIN FileStages = 1..14 /\ Len(FileStages) = 14
    BY StagesLength
  <2>. QED
    BY <1>1, <2>1, <2>2, <2>3, <2>4, <2>5, <2>6
<1>2. CASE e \in Subdir
  <2>1. Stages(e) = DirStages /\ e \notin File
    BY <1>2, FilterAssumption DEF Stages
  <2>2. \A i \in 1..12 : DirStages[i] \in StageNames
    BY StagesLength DEF StageNames
  <2>3. \A i, j \in 1..12 : DirStages[i] = DirStages[j] => i = j
    BY Positions, DirStagesApart
  <2>4. \A i \in 1..12 : DirStages[i] # "binary"
    BY Positions, DirStagesNamed
  <2>5. DOMAIN DirStages = 1..12 /\ Len(DirStages) = 12
    BY StagesLength
  <2>. QED
    BY <2>1, <2>2, <2>3, <2>4, <2>5
<1>. QED
  BY <1>1, <1>2 DEF Entry

\* A skip reason is never empty and never taken for another outcome, and only
\* the binary check gives its own.
LEMMA ReasonFacts ==
  ASSUME NEW s \in StageNames
  PROVE  /\ Reason(s) \in Reasons
         /\ Reason(s) \notin {NoReason, "waiting", "passed"}
         /\ Reason(s) = "binary" => s = "binary"
<1>1. s \notin {"", "waiting", "passed"}
  <2>1. \A i \in 1..14 : FileStages[i] \notin {"", "waiting", "passed"}
    BY Positions, FileStagesNamed
  <2>2. \A i \in 1..12 : DirStages[i] \notin {"", "waiting", "passed"}
    BY Positions, DirStagesNamed
  <2>3. DOMAIN FileStages = 1..14 /\ DOMAIN DirStages = 1..12
    BY StagesLength
  <2>. QED
    BY <2>1, <2>2, <2>3 DEF StageNames
<1>. QED
  BY <1>1 DEF Reason, Reasons, NoReason

LEMMA NoReasonFacts == NoReason \notin {"binary", "waiting", "passed"}
BY DEF NoReason

-----------------------------------------------------------------------------
(* The inductive invariant                                                 *)

\* The stages that come next have not spoken about the entry in hand, and the
\* verdict so far is what the last of the others said; no entry is disposed of
\* before it was in hand.
HandInv ==
  /\ \A e \in left : outcome[e] = "waiting"
  /\ entry # Nobody =>
       /\ at \in 1..(Len(Stages(entry)) + 1)
       /\ entry \notin left
       /\ outcome[entry] = "waiting"
       /\ \A i \in at..Len(Stages(entry)) : found[Stages(entry)[i]] = "silent"
       /\ Verdict(entry) = IF ignore THEN reason ELSE "passed"

\* A file that has come past the binary check has no null byte in the bytes
\* looked at or is ignored, and for one that was read and fills the buffer the
\* check has a null byte to show.
BinaryInv ==
  entry \in File =>
    /\ "binary" \in config /\ at > Len(Stages(entry)) /\ ~ignore
         => Nul[entry] \notin 1..ProbeBytes
    /\ entry \notin Faulty /\ Size[entry] >= ProbeBytes /\ reason = "binary"
         => Nul[entry] \in 1..ProbeBytes

FilterInv == TypeOK /\ HandInv /\ BinaryInv /\ NoBinarySent

\* What it takes to know the last speaker.
LEMMA LastOf ==
  ASSUME NEW S, S \subseteq Int, NEW i \in S, \A j \in S : j <= i
  PROVE  (CHOOSE k \in S : \A j \in S : j <= k) = i
<1>. DEFINE k == CHOOSE k \in S : \A j \in S : j <= k
<1>1. k \in S /\ \A j \in S : j <= k
  OBVIOUS
<1>. HIDE DEF k
<1>2. k <= i /\ i <= k /\ i \in Int /\ k \in Int
  BY <1>1
<1>3. k = i
  BY <1>2
<1>. QED
  BY <1>3 DEF k

\* The stage at hand, once it has spoken, is the last one that spoke, and the
\* verdict is its word; a silent one leaves everything as it was.
LEMMA OverruleStep ==
  ASSUME TypeOK, HandInv, InHand, NEW e \in Entry, e = entry,
         NEW finding \in {"silent", "ignore", "keep"}, Overrule(finding)
  PROVE  /\ found' \in [StageNames -> {"silent", "ignore", "keep"}]
         /\ ignore' \in BOOLEAN /\ reason' \in Reasons \cup {NoReason}
         /\ ignore' <=> reason' # NoReason
         /\ \A i \in (at + 1)..Len(Stages(e)) : found'[Stages(e)[i]] = "silent"
         /\ Verdict(e)' = IF ignore' THEN reason' ELSE "passed"
         /\ finding = "ignore" => ignore' = TRUE /\ reason' = Reason(Stage)
         /\ finding = "keep" => ignore' = FALSE /\ reason' = NoReason
         /\ finding = "silent" => ignore' = ignore /\ reason' = reason
<1>1. /\ at \in 1..Len(Stages(e)) /\ Stage = Stages(e)[at] /\ Stage \in StageNames
      /\ DOMAIN Stages(e) = 1..Len(Stages(e)) /\ Len(Stages(e)) \in Nat
      /\ \A i \in 1..Len(Stages(e)) : Stages(e)[i] \in StageNames
      /\ \A i, j \in 1..Len(Stages(e)) : Stages(e)[i] = Stages(e)[j] => i = j
      /\ \A i \in at..Len(Stages(e)) : found[Stages(e)[i]] = "silent"
  BY StageFacts DEF HandInv, InHand, Stage
<1>2. found' = [found EXCEPT ![Stage] = finding]
  BY DEF Overrule
<1>3. found' \in [StageNames -> {"silent", "ignore", "keep"}] /\ found'[Stage] = finding
  BY <1>1, <1>2 DEF TypeOK
<1>4. \A i \in 1..Len(Stages(e)) : i # at => found'[Stages(e)[i]] = found[Stages(e)[i]]
  BY <1>1, <1>2 DEF TypeOK
<1>5. \A i \in (at + 1)..Len(Stages(e)) : found'[Stages(e)[i]] = "silent"
  <2>. SUFFICES ASSUME NEW i \in (at + 1)..Len(Stages(e)) PROVE found'[Stages(e)[i]] = "silent"
    OBVIOUS
  <2>1. i \in 1..Len(Stages(e)) /\ i # at /\ i \in at..Len(Stages(e))
    BY <1>1
  <2>. QED
    BY <1>1, <1>4, <2>1
<1>6. CASE finding = "silent"
  <2>0. found[Stage] = "silent"
    <3>1. at \in at..Len(Stages(e))
      BY <1>1
    <3>. QED
      BY <1>1, <3>1
  <2>1. found' = found
    BY <2>0, <1>2, <1>6 DEF TypeOK
  <2>2. ignore' = ignore /\ reason' = reason
    BY <1>6 DEF Overrule
  <2>3. Verdict(e)' = Verdict(e)
    BY <2>1 DEF Verdict, Speakers
  <2>4. Verdict(e) = IF ignore THEN reason ELSE "passed"
    BY DEF HandInv, InHand
  <2>. QED
    BY <1>3, <1>5, <1>6, <2>2, <2>3, <2>4 DEF TypeOK
<1>7. CASE finding # "silent"
  <2>. DEFINE S == {i \in DOMAIN Stages(e) : found'[Stages(e)[i]] # "silent"}
  <2>1. at \in S /\ S \subseteq Int /\ \A j \in S : j <= at
    <3>1. at \in S /\ S \subseteq Int
      BY <1>1, <1>3, <1>7
    <3>2. ASSUME NEW j \in S, ~(j <= at) PROVE FALSE
      <4>1. j \in (at + 1)..Len(Stages(e))
        BY <1>1, <3>2
      <4>. QED
        BY <1>5, <4>1
    <3>. QED
      BY <3>1, <3>2
  <2>2. (CHOOSE k \in S : \A j \in S : j <= k) = at
    BY <2>1, LastOf
  <2>3. Speakers(e)' = S
    BY DEF Speakers
  <2>4. Verdict(e)' = IF finding = "keep" THEN "passed" ELSE Reason(Stage)
    <3>. DEFINE last == CHOOSE k \in S : \A j \in S : j <= k
    <3>. HIDE DEF S
    <3>1. Verdict(e)' = IF S = {} THEN "passed"
                        ELSE IF found'[Stages(e)[last]] = "keep" THEN "passed"
                        ELSE Reason(Stages(e)[last])
      BY <2>3 DEF Verdict
    <3>2. S # {} /\ last = at
      BY <2>1, <2>2
    <3>. HIDE DEF last
    <3>. QED
      BY <1>1, <1>3, <3>1, <3>2
  <2>5. Reason(Stage) \in Reasons /\ Reason(Stage) # NoReason
    BY <1>1, ReasonFacts
  <2>6. CASE finding = "ignore"
    BY <1>3, <1>5, <2>4, <2>5, <2>6 DEF Overrule
  <2>7. CASE finding = "keep"
    BY <1>3, <1>5, <2>4, <2>7 DEF Overrule
  <2>. QED
    BY <1>7, <2>6, <2>7
<1>. QED
  BY <1>6, <1>7

\* What is known of the entry in hand and its stage.
LEMMA InHandFacts ==
  ASSUME TypeOK, HandInv, InHand
  PROVE  /\ entry \in Entry /\ at \in 1..Len(Stages(entry))
         /\ Len(Stages(entry)) \in Nat /\ 12 <= Len(Stages(entry)) /\ Len(Stages(entry)) <= 14
         /\ Stage \in StageNames /\ found[Stage] = "silent"
         /\ Stage = "binary" <=> entry \in File /\ at = Len(Stages(entry))
         /\ entry \notin left /\ outcome[entry] = "waiting" /\ status = "running"
<1>1. entry \in Entry /\ entry # Nobody /\ Stage = Stages(entry)[at]
  BY DEF InHand, TypeOK, Stage
<1>2. /\ at \in 1..Len(Stages(entry)) /\ at \in at..Len(Stages(entry))
      /\ Len(Stages(entry)) \in Nat /\ 12 <= Len(Stages(entry)) /\ Len(Stages(entry)) <= 14
  <2>1. at \in 1..(Len(Stages(entry)) + 1) /\ at <= Len(Stages(entry))
    BY <1>1 DEF HandInv, InHand
  <2>2. Len(Stages(entry)) \in Nat /\ 12 <= Len(Stages(entry)) /\ Len(Stages(entry)) <= 14
    BY <1>1, StageFacts
  <2>. QED
    BY <2>1, <2>2
<1>3. Stage \in StageNames /\ (Stage = "binary" <=> entry \in File /\ at = Len(Stages(entry)))
  BY <1>1, <1>2, StageFacts
<1>4. found[Stage] = "silent" /\ entry \notin left /\ outcome[entry] = "waiting"
  BY <1>1, <1>2 DEF HandInv
<1>. QED
  BY <1>1, <1>2, <1>3, <1>4 DEF InHand

\* A stage that is not looked at is as good as one that is silent.
LEMMA SilentOverrule ==
  ASSUME TypeOK, HandInv, InHand, UNCHANGED <<ignore, reason, found>>
  PROVE  Overrule("silent")
<1>1. found[Stage] = "silent"
  BY InHandFacts
<1>2. found' = [found EXCEPT ![Stage] = "silent"]
  BY <1>1 DEF TypeOK
<1>. QED
  BY <1>2 DEF Overrule

\* Going on to the next stage keeps the invariant, if the binary check finds
\* what it has to find.
LEMMA AdvanceStep ==
  ASSUME FilterInv, InHand, NEW finding \in {"silent", "ignore", "keep"}, Overrule(finding),
         at' = at + 1, UNCHANGED <<config, left, entry, outcome, status>>,
         Stage = "binary" /\ "binary" \in config /\ finding # "ignore"
           => Nul[entry] \notin 1..ProbeBytes,
         Stage = "binary" /\ finding = "ignore" /\ entry \notin Faulty /\ Size[entry] >= ProbeBytes
           => Nul[entry] \in 1..ProbeBytes
  PROVE  FilterInv'
<1>0. TypeOK /\ HandInv /\ BinaryInv /\ NoBinarySent
  BY DEF FilterInv
<1>1. /\ entry \in Entry /\ at \in 1..Len(Stages(entry))
      /\ Len(Stages(entry)) \in Nat /\ 12 <= Len(Stages(entry)) /\ Len(Stages(entry)) <= 14
      /\ Stage \in StageNames
      /\ Stage = "binary" <=> entry \in File /\ at = Len(Stages(entry))
      /\ entry \notin left /\ outcome[entry] = "waiting" /\ status = "running"
  BY <1>0, InHandFacts
<1>2. PICK e \in Entry : e = entry
  BY <1>1
<1>3. /\ found' \in [StageNames -> {"silent", "ignore", "keep"}]
      /\ ignore' \in BOOLEAN /\ reason' \in Reasons \cup {NoReason}
      /\ ignore' <=> reason' # NoReason
      /\ \A i \in (at + 1)..Len(Stages(e)) : found'[Stages(e)[i]] = "silent"
      /\ Verdict(e)' = IF ignore' THEN reason' ELSE "passed"
      /\ finding = "ignore" => ignore' = TRUE /\ reason' = Reason(Stage)
      /\ finding = "keep" => ignore' = FALSE /\ reason' = NoReason
      /\ finding = "silent" => ignore' = ignore /\ reason' = reason
  BY <1>0, <1>2, OverruleStep
<1>4. TypeOK'
  <2>0. at \in Nat /\ at <= 14
    BY <1>1
  <2>1. at' \in 0..(Len(FileStages) + 1)
    BY <2>0, StagesLength
  <2>. QED
    BY <1>0, <1>3, <2>1 DEF TypeOK
<1>5. HandInv'
  <2>1. Verdict(entry)' = Verdict(e)'
    BY <1>2
  <2>2. at' \in 1..(Len(Stages(entry)) + 1)
    BY <1>1
  <2>. QED
    BY <1>0, <1>1, <1>2, <1>3, <2>1, <2>2 DEF HandInv
<1>6. BinaryInv'
  <2>1. ASSUME entry \in File, "binary" \in config, at' > Len(Stages(entry)), ~ignore'
        PROVE  Nul[entry] \notin 1..ProbeBytes
    <3>1. at = Len(Stages(entry))
      BY <1>1, <2>1
    <3>. QED
      BY <1>1, <1>3, <2>1, <3>1
  <2>2. ASSUME entry \in File, entry \notin Faulty, Size[entry] >= ProbeBytes, reason' = "binary"
        PROVE  Nul[entry] \in 1..ProbeBytes
    <3>1. CASE finding = "ignore"
      BY <1>1, <1>3, <2>2, <3>1, ReasonFacts
    <3>2. CASE finding # "ignore"
      BY <1>0, <1>3, <2>2, <3>2, NoReasonFacts DEF BinaryInv
    <3>. QED
      BY <3>1, <3>2
  <2>. QED
    BY <2>1, <2>2 DEF BinaryInv
<1>7. NoBinarySent'
  BY <1>0, <1>1 DEF NoBinarySent
<1>. QED
  BY <1>4, <1>5, <1>6, <1>7 DEF FilterInv

\* Returning with an error keeps it.
LEMMA ReturnStep ==
  ASSUME FilterInv, Return, UNCHANGED <<config, left, entry, at, ignore, reason, found, outcome>>
  PROVE  FilterInv'
<1>1. Verdict(entry)' = Verdict(entry)
  BY DEF Verdict, Speakers
<1>2. TypeOK' /\ BinaryInv' /\ NoBinarySent'
  BY DEF FilterInv, Return, TypeOK, BinaryInv, NoBinarySent
<1>3. HandInv'
  BY <1>1 DEF FilterInv, HandInv
<1>. QED
  BY <1>2, <1>3 DEF FilterInv

-----------------------------------------------------------------------------

\* A loop takes up its next entry.
LEMMA TakeStep == FilterInv /\ Take => FilterInv'
<1>. SUFFICES ASSUME FilterInv, Take PROVE FilterInv'
  OBVIOUS
<1>0. TypeOK /\ HandInv /\ BinaryInv /\ NoBinarySent
  BY DEF FilterInv
<1>1. PICK e \in left : entry' = e /\ left' = left \ {e}
  BY DEF Take
<1>2. /\ e \in Entry /\ outcome[e] = "waiting" /\ status = "running" /\ at' = 1
      /\ ignore' = FALSE /\ reason' = NoReason /\ found' = Silent
      /\ UNCHANGED <<config, outcome, status>>
  BY <1>0 DEF Take, TypeOK, HandInv
<1>3. /\ Len(Stages(e)) \in Nat /\ 12 <= Len(Stages(e)) /\ Len(Stages(e)) <= 14
      /\ DOMAIN Stages(e) = 1..Len(Stages(e))
      /\ \A i \in 1..Len(Stages(e)) : Stages(e)[i] \in StageNames
  BY <1>2, StageFacts
<1>4. \A i \in 1..Len(Stages(e)) : found'[Stages(e)[i]] = "silent"
  BY <1>2, <1>3 DEF Silent
<1>5. Verdict(e)' = "passed"
  <2>1. Speakers(e)' = {}
    BY <1>3, <1>4 DEF Speakers
  <2>. QED
    BY <2>1 DEF Verdict
<1>6. TypeOK'
  <2>1. found' \in [StageNames -> {"silent", "ignore", "keep"}]
    BY <1>2 DEF Silent
  <2>2. at' \in 0..(Len(FileStages) + 1)
    BY <1>2, StagesLength
  <2>. QED
    BY <1>0, <1>1, <1>2, <2>1, <2>2 DEF TypeOK
<1>7. HandInv'
  <2>1. Verdict(entry)' = Verdict(e)'
    BY <1>1
  <2>2. at' \in 1..(Len(Stages(e)) + 1)
    BY <1>2, <1>3
  <2>. QED
    BY <1>0, <1>1, <1>2, <1>4, <1>5, <2>1, <2>2 DEF HandInv
<1>8. BinaryInv'
  <2>1. ~(at' > Len(Stages(e)))
    BY <1>2, <1>3
  <2>. QED
    BY <1>1, <1>2, <2>1, NoReasonFacts DEF BinaryInv
<1>9. NoBinarySent'
  BY <1>0, <1>1, <1>2 DEF NoBinarySent
<1>. QED
  BY <1>6, <1>7, <1>8, <1>9 DEF FilterInv

LEMMA HiddenStep == FilterInv /\ CheckHidden => FilterInv'
<1>. SUFFICES ASSUME FilterInv, CheckHidden PROVE FilterInv'
  OBVIOUS
<1>1. InHand /\ Stage = "hidden" /\ Stage # "binary" /\ UNCHANGED <<config, left, entry, outcome>>
  BY DEF CheckHidden
<1>2. Findings(Stage) \subseteq {"silent", "ignore", "keep"}
  BY DEF Findings
<1>3. CASE (\E finding \in Findings(Stage) : Overrule(finding)) /\ at' = at + 1 /\ UNCHANGED status
  BY <1>1, <1>2, <1>3, AdvanceStep
<1>4. CASE at' = at + 1 /\ UNCHANGED status /\ UNCHANGED <<ignore, reason, found>>
  <2>1. Overrule("silent")
    BY <1>1, <1>4, SilentOverrule DEF FilterInv
  <2>. QED
    BY <1>1, <1>4, <2>1, AdvanceStep
<1>5. CASE Return /\ UNCHANGED at /\ UNCHANGED <<ignore, reason, found>>
  BY <1>1, <1>5, ReturnStep
<1>. QED
  BY <1>3, <1>4, <1>5 DEF CheckHidden

\* The search of the buffer finds a null byte of the file, or the zeros behind
\* the end of one that does not fill it.
LEMMA ZeroSeenFacts ==
  ASSUME NEW f \in File
  PROVE  /\ ~ZeroSeen(Size[f], Nul[f]) => Nul[f] \notin 1..ProbeBytes
         /\ ~ZeroSeen(0, 0) => Nul[f] \notin 1..ProbeBytes
         /\ Size[f] >= ProbeBytes /\ ZeroSeen(Size[f], Nul[f]) => Nul[f] \in 1..ProbeBytes
<1>1. Size[f] \in Nat /\ Nul[f] \in Nat /\ ProbeBytes \in Nat
  BY FilterAssumption
<1>2. ~ZeroSeen(Size[f], Nul[f]) => Nul[f] \notin 1..ProbeBytes
  BY <1>1 DEF ZeroSeen
<1>3. ~ZeroSeen(0, 0) => Nul[f] \notin 1..ProbeBytes
  BY <1>1 DEF ZeroSeen
<1>4. Size[f] >= ProbeBytes /\ ZeroSeen(Size[f], Nul[f]) => Nul[f] \in 1..ProbeBytes
  BY <1>1 DEF ZeroSeen
<1>. QED
  BY <1>2, <1>3, <1>4

LEMMA ProbeStep == FilterInv /\ ProbeBinary => FilterInv'
<1>. SUFFICES ASSUME FilterInv, ProbeBinary PROVE FilterInv'
  OBVIOUS
<1>1. InHand /\ Stage = "binary" /\ UNCHANGED <<config, left, entry, outcome>>
  BY DEF ProbeBinary
<1>2. entry \in File
  BY <1>1, InHandFacts DEF FilterInv
<1>3. CASE /\ at' = at + 1 /\ UNCHANGED status
           /\ Overrule(IF ZeroSeen(Size[entry], Nul[entry]) THEN "ignore" ELSE "silent")
  <2>. DEFINE finding == IF ZeroSeen(Size[entry], Nul[entry]) THEN "ignore" ELSE "silent"
  <2>1. finding \in {"silent", "ignore", "keep"} /\ Overrule(finding)
    BY <1>3
  <2>2. /\ finding # "ignore" => Nul[entry] \notin 1..ProbeBytes
        /\ finding = "ignore" /\ Size[entry] >= ProbeBytes => Nul[entry] \in 1..ProbeBytes
    BY <1>2, ZeroSeenFacts
  <2>. HIDE DEF finding
  <2>. QED
    BY <1>1, <1>3, <2>1, <2>2, AdvanceStep
<1>4. CASE /\ entry \in Faulty /\ at' = at + 1
           /\ UNCHANGED status /\ Overrule(IF ZeroSeen(0, 0) THEN "ignore" ELSE "silent")
  <2>. DEFINE finding == IF ZeroSeen(0, 0) THEN "ignore" ELSE "silent"
  <2>1. finding \in {"silent", "ignore", "keep"} /\ Overrule(finding)
    BY <1>4
  <2>2. finding # "ignore" => Nul[entry] \notin 1..ProbeBytes
    BY <1>2, ZeroSeenFacts
  <2>. HIDE DEF finding
  <2>. QED
    BY <1>1, <1>4, <2>1, <2>2, AdvanceStep
<1>5. CASE Return /\ UNCHANGED <<at, ignore, reason, found>>
  BY <1>1, <1>5, ReturnStep
<1>. QED
  BY <1>3, <1>4, <1>5 DEF ProbeBinary

\* The entry in hand is disposed of: a file that is sent has passed the binary
\* check, and one given that reason has a null byte to show.
LEMMA SettleStep == FilterInv /\ Settle => FilterInv'
<1>. SUFFICES ASSUME FilterInv, Settle PROVE FilterInv'
  OBVIOUS
<1>0. TypeOK /\ HandInv /\ BinaryInv /\ NoBinarySent
  BY DEF FilterInv
<1>1. /\ status = "running" /\ entry \in Entry /\ entry # Nobody /\ at > Len(Stages(entry))
      /\ outcome' = [outcome EXCEPT ![entry] = IF ignore THEN reason ELSE "passed"]
      /\ entry' = Nobody /\ at' = 0 /\ ignore' = FALSE /\ reason' = NoReason /\ found' = Silent
      /\ UNCHANGED <<config, left, status>>
  BY <1>0 DEF Settle, Dispose, TypeOK
<1>2. TypeOK'
  <2>1. found' \in [StageNames -> {"silent", "ignore", "keep"}]
    BY <1>1 DEF Silent
  <2>2. at' \in 0..(Len(FileStages) + 1)
    BY <1>1, StagesLength
  <2>3. outcome' \in [Entry -> Reasons \cup {"waiting", "passed"}]
    BY <1>0, <1>1 DEF TypeOK
  <2>. QED
    BY <1>0, <1>1, <2>1, <2>2, <2>3 DEF TypeOK
<1>3. HandInv'
  BY <1>0, <1>1 DEF HandInv, TypeOK
<1>4. BinaryInv'
  <2>1. ASSUME entry' \in File
        PROVE  Len(Stages(entry')) \in Nat /\ 12 <= Len(Stages(entry')) /\ Len(Stages(entry')) <= 14
    BY <2>1, StageFacts DEF Entry
  <2>. QED
    BY <1>1, <2>1, NoReasonFacts DEF BinaryInv
<1>5. NoBinarySent'
  <2>. SUFFICES ASSUME NEW f \in File
                PROVE  /\ "binary" \in config /\ outcome'[f] = "passed" => Nul[f] \notin 1..ProbeBytes
                       /\ f \notin Faulty /\ Size[f] >= ProbeBytes /\ outcome'[f] = "binary"
                            => Nul[f] \in 1..ProbeBytes
    BY <1>1 DEF NoBinarySent
  <2>1. CASE f = entry
    <3>1. outcome'[f] = IF ignore THEN reason ELSE "passed"
      BY <1>0, <1>1, <2>1 DEF TypeOK
    <3>2. ignore => reason # "passed"
      BY <1>0, ReasonFacts DEF TypeOK, Reasons
    <3>. QED
      BY <1>0, <1>1, <2>1, <3>1, <3>2 DEF BinaryInv
  <2>2. CASE f # entry
    BY <1>0, <1>1, <2>2 DEF TypeOK, NoBinarySent, Entry
  <2>. QED
    BY <2>1, <2>2
<1>. QED
  BY <1>2, <1>3, <1>4, <1>5 DEF FilterInv

LEMMA JudgeStep == FilterInv /\ (Pass \/ Judge) => FilterInv'
<1>. SUFFICES ASSUME FilterInv, Pass \/ Judge PROVE FilterInv'
  OBVIOUS
<1>1. CASE Pass
  <2>1. InHand /\ Stage \notin config /\ at' = at + 1
        /\ UNCHANGED <<config, left, entry, ignore, reason, found, outcome, status>>
    BY <1>1 DEF Pass
  <2>2. Overrule("silent")
    BY <2>1, SilentOverrule DEF FilterInv
  <2>. QED
    BY <2>1, <2>2, AdvanceStep
<1>2. CASE Judge
  <2>1. /\ InHand /\ Stage # "binary" /\ at' = at + 1
        /\ UNCHANGED <<config, left, entry, outcome, status>>
    BY <1>2 DEF Judge, Checks
  <2>2. PICK finding \in Findings(Stage) : Overrule(finding)
    BY <1>2 DEF Judge
  <2>3. finding \in {"silent", "ignore", "keep"}
    BY DEF Findings
  <2>. QED
    BY <2>1, <2>2, <2>3, AdvanceStep
<1>. QED
  BY <1>1, <1>2

LEMMA FilterInit == Init => FilterInv
<1>. SUFFICES ASSUME Init PROVE FilterInv
  OBVIOUS
<1>1. TypeOK
  <2>1. found \in [StageNames -> {"silent", "ignore", "keep"}]
    BY DEF Init, Silent
  <2>2. at \in 0..(Len(FileStages) + 1)
    BY StagesLength DEF Init
  <2>. QED
    BY <2>1, <2>2 DEF Init, TypeOK
<1>2. HandInv
  BY DEF Init, HandInv
<1>3. BinaryInv
  <2>1. entry \in File => Len(Stages(entry)) \in Nat
    BY StageFacts DEF Entry
  <2>. QED
    BY <2>1, NoReasonFacts DEF Init, BinaryInv
<1>4. NoBinarySent
  BY DEF Init, NoBinarySent, Entry
<1>. QED
  BY <1>1, <1>2, <1>3, <1>4 DEF FilterInv

LEMMA FilterStep == FilterInv /\ [Next]_vars => FilterInv'
<1>. SUFFICES ASSUME FilterInv, [Next]_vars PROVE FilterInv'
  OBVIOUS
<1>1. CASE Finish
  <2>1. Verdict(entry)' = Verdict(entry)
    BY <1>1 DEF Finish, Verdict, Speakers
  <2>2. HandInv'
    BY <1>1, <2>1 DEF Finish, FilterInv, HandInv
  <2>. QED
    BY <1>1, <2>2 DEF Finish, FilterInv, TypeOK, BinaryInv, NoBinarySent
<1>2. CASE UNCHANGED vars
  <2>1. Verdict(entry)' = Verdict(entry)
    BY <1>2 DEF vars, Verdict, Speakers
  <2>2. HandInv'
    BY <1>2, <2>1 DEF vars, FilterInv, HandInv
  <2>. QED
    BY <1>2, <2>2 DEF vars, FilterInv, TypeOK, BinaryInv, NoBinarySent
<1>. QED
  BY <1>1, <1>2, TakeStep, JudgeStep, HiddenStep, ProbeStep, SettleStep DEF Next, Stopped

LEMMA FilterCorrect == Spec => []FilterInv
BY FilterInit, FilterStep, PTL DEF Spec

-----------------------------------------------------------------------------

\* The types of the pipeline's state; a skip reason stands exactly while the
\* verdict is to ignore, so skipHandler never gets an empty or a stale one.
THEOREM FilterTypeCorrect == Spec => []TypeOK
<1>1. FilterInv => TypeOK
  BY DEF FilterInv
<1>. QED
  BY <1>1, FilterCorrect, PTL

\* The binary check lets no file through that has a null byte among the bytes
\* it looks at, and stops none that fills the buffer without one.
THEOREM BinaryCorrect == Spec => []NoBinarySent
<1>1. FilterInv => NoBinarySent
  BY DEF FilterInv
<1>. QED
  BY <1>1, FilterCorrect, PTL

\* An entry is disposed of once, and as the last of its stages that spoke has
\* it: nothing a stage says is lost or heard twice, in any order of the others.
THEOREM LastCorrect == Spec => LastOneWins
<1>. DEFINE Fate == \A e \in Entry : outcome'[e] # outcome[e]
                      => outcome[e] = "waiting" /\ outcome'[e] = Verdict(e)
<1>1. FilterInv /\ [Next]_vars => [Fate]_vars
  <2>. SUFFICES ASSUME FilterInv, [Next]_vars PROVE Fate
    OBVIOUS
  <2>1. CASE Settle
    <3>1. entry \in Entry /\ outcome[entry] = "waiting"
          /\ Verdict(entry) = IF ignore THEN reason ELSE "passed"
      BY <2>1 DEF Settle, FilterInv, TypeOK, HandInv
    <3>2. outcome' = [outcome EXCEPT ![entry] = Verdict(entry)]
      BY <2>1, <3>1 DEF Settle, Dispose
    <3>. QED
      BY <3>1, <3>2 DEF FilterInv, TypeOK
  <2>2. CASE UNCHANGED outcome
    BY <2>2
  <2>. QED
    BY <2>1, <2>2
    DEF Next, Take, Pass, Judge, CheckHidden, ProbeBinary, Finish, Stopped, vars
<1>. QED
  BY <1>1, FilterCorrect, PTL DEF Spec, LastOneWins
=============================================================================
