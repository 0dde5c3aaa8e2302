--------------------------- MODULE ArchiveProofs ----------------------------
(***************************************************************************)
(* Proofs about the programs that read BSA archives, Extractor and         *)
(* GameData: for any folders, archives and paths, any selection and        *)
(* existing files, and any number of calls.                                *)
(***************************************************************************)
EXTENDS Extractor, GameData, SequenceFacts, FiniteSetTheorems

(***************************************************************************)
(* Extractor                                                               *)
(***************************************************************************)

-----------------------------------------------------------------------------
(* Contents                                                                *)

\* An entry is like no other content, and like no other entry.
LEMMA EntryFacts ==
  ASSUME NEW a, NEW k
  PROVE  /\ Entry(a, k) \notin {Absent, Old, Other, Partial}
         /\ \A b, j : Entry(a, k) = Entry(b, j) => a = b /\ k = j
BY DEF Entry, Absent, Old, Other, Partial

LEMMA OthersDiffer == Absent # Old /\ Absent # Other /\ Old # Other
BY DEF Absent, Old, Other

LEMMA ContentsFacts ==
  ASSUME NEW a \in 1..Len(archives), NEW k \in 1..Len(archives[a])
  PROVE  Entry(a, k) \in Contents
BY DEF Contents

\* The current archive and its entries.
LEMMA TargetFacts ==
  ASSUME TypeOK, PartlyDone, Unpacking
  PROVE  /\ archive \in 1..Len(archives) /\ Targets = archives[archive] /\ Targets \in Seq(EntryPaths)
         /\ Len(Targets) \in Nat /\ Len(archives) \in Nat
         /\ \A k \in 1..Len(Targets) : Targets[k] \in EntryPaths
         /\ completed < Len(Targets) =>
              /\ completed + 1 \in 1..Len(Targets) /\ Target = Targets[completed + 1] /\ Target \in EntryPaths
              /\ Entry(archive, completed + 1) \in Contents
<1>1. /\ archives \in Seq(Seq(EntryPaths)) /\ archive \in 0..Len(archives) /\ Len(archives) \in Nat
      /\ archive > 0 /\ completed \in 0..Len(Targets)
  BY DEF TypeOK, PartlyDone
<1>2. archive \in 1..Len(archives)
  BY <1>1
<1>3. Targets = archives[archive] /\ Targets \in Seq(EntryPaths)
  BY <1>1, <1>2 DEF Targets
<1>4. Len(Targets) \in Nat /\ \A k \in 1..Len(Targets) : Targets[k] \in EntryPaths
  BY <1>3
<1>5. completed < Len(Targets) => completed + 1 \in 1..Len(Targets)
  BY <1>1, <1>4
<1>6. QED
  BY <1>1, <1>2, <1>3, <1>4, <1>5, ContentsFacts DEF Target

\* Steps that leave the files and the selection alone.
LEMMA SameFiles ==
  ASSUME UNCHANGED <<content, archives>>
  PROVE  /\ WholePlanFirst => WholePlanFirst'
         /\ Contents' = Contents
         /\ \A a, last : Unpacked(a, last)' <=> Unpacked(a, last)
         /\ archive' = archive => Targets' = Targets
         /\ OwnEntries /\ archive' = archive => OwnEntries'
<1>1. WholePlanFirst => WholePlanFirst'
  BY DEF WholePlanFirst
<1>2. Contents' = Contents
  BY DEF Contents
<1>3. \A a, last : Unpacked(a, last)' <=> Unpacked(a, last)
  BY DEF Unpacked
<1>4. archive' = archive => Targets' = Targets
  BY DEF Targets
<1>5. OwnEntries /\ archive' = archive => OwnEntries'
  BY DEF OwnEntries
<1>6. QED
  BY <1>1, <1>2, <1>3, <1>4, <1>5

LEMMA SameUnpacked ==
  ASSUME UNCHANGED <<content, archives>>, archive \in Int, archive' \in Int, archive <= archive',
         Finished' = Finished, Finished \in Int, FinishedUnpacked
  PROVE  FinishedUnpacked'
<1>1. ASSUME NEW a \in 1..Finished, NEW k \in 1..Len(archives[a])
      PROVE  \E b \in a..archive' : \E j \in 1..Len(archives[b]) :
               /\ archives[b][j] = archives[a][k]
               /\ content[archives[a][k]] = Entry(b, j)
  <2>1. a..archive \subseteq a..archive'
    OBVIOUS
  <2>2. Unpacked(a, archive)
    BY DEF FinishedUnpacked
  <2>3. QED
    BY <2>1, <2>2 DEF Unpacked
<1>2. ASSUME NEW a \in 1..Finished, NEW k \in 1..Len(archives'[a])
      PROVE  \E b \in a..archive' : \E j \in 1..Len(archives'[b]) :
               /\ archives'[b][j] = archives'[a][k]
               /\ content'[archives'[a][k]] = Entry(b, j)
  BY <1>1
<1>3. \A a \in 1..Finished' : Unpacked(a, archive)'
  BY <1>2 DEF Unpacked
<1>4. QED
  BY <1>3 DEF FinishedUnpacked

\* A step that ends nothing says nothing new about the exit code.
LEMMA NotEnded ==
  ASSUME exit' = NoExit
  PROVE  ExitCodeIsRight'
BY ExtractorAssumption DEF ExitCodeIsRight

-----------------------------------------------------------------------------
(* The invariant is kept by every step                                     *)

LEMMA ExtractorInitOK == ExtractorInit => ExtractorInv
<1> SUFFICES ASSUME ExtractorInit PROVE ExtractorInv
  OBVIOUS
<1>1. /\ archive = 0 /\ completed = 0 /\ litter = 0 /\ failures = 0 /\ unpacked = 0
      /\ outcome = "none" /\ exit = NoExit /\ token = FALSE /\ overwrite \in BOOLEAN
      /\ phase \in {"selecting", "next"}
  BY DEF ExtractorInit
<1>2. /\ archives \in Seq(Seq(EntryPaths)) /\ Len(archives) \in Nat
      /\ phase = "selecting" => archives = <<>>
      /\ phase = "next" => archives # <<>>
  <2>1. <<>> \in Seq(Seq(EntryPaths))
    OBVIOUS
  <2>2. CASE phase = "selecting" /\ archives = <<>>
    <3>1. Len(archives) = 0
      BY <2>2
    <3>2. QED
      BY <2>1, <2>2, <3>1
  <2>3. CASE phase = "next" /\ archives \in {s \in Selections : Len(s) = 1}
    <3>1. archives \in Seq(Seq(EntryPaths)) /\ Len(archives) = 1 /\ archives # <<>>
      BY <2>3, ExtractorAssumption
    <3>2. QED
      BY <2>3, <3>1
  <2>4. QED
    BY <2>2, <2>3 DEF ExtractorInit
<1>3. PICK old \in Existing : content = [p \in EntryPaths |-> IF p \in old THEN Old ELSE Absent]
  BY DEF ExtractorInit
<1>4. \A p \in EntryPaths : content[p] \in {Absent, Old, Other} /\ content[p] \in Contents
  BY <1>3 DEF Contents
<1>5. content \in [EntryPaths -> Contents]
  BY <1>3 DEF Contents
<1>6. TypeOK
  <2>1. archive \in 0..Len(archives)
    BY <1>1, <1>2
  <2>2. /\ token \in BOOLEAN /\ outcome \in {"none", "failed", "cancelled"}
        /\ exit \in {NoExit, 0, 1, 2, 130}
        /\ completed \in Nat /\ litter \in Nat /\ failures \in Nat /\ unpacked \in Nat
    BY <1>1
  <2>3. QED
    BY <1>1, <1>2, <1>5, <2>1, <2>2 DEF TypeOK
<1>7. OwnEntries /\ PartlyDone /\ WholePlanFirst
  <2>1. OwnEntries
    BY <1>4 DEF OwnEntries
  <2>2. PartlyDone
    BY <1>1 DEF PartlyDone, Unpacking
  <2>3. WholePlanFirst
    BY <1>4, EntryFacts DEF WholePlanFirst
  <2>4. QED
    BY <2>1, <2>2, <2>3
<1>8. CountsAreRight /\ ExitCodeIsRight
  <2>1. CountsAreRight
    BY <1>1, <1>2, ExtractorAssumption DEF CountsAreRight, Running, Finished, FinishedUnpacked
  <2>2. ExitCodeIsRight
    BY <1>1, ExtractorAssumption DEF ExitCodeIsRight
  <2>3. QED
    BY <2>1, <2>2
<1>9. QED
  BY <1>6, <1>7, <1>8 DEF ExtractorInv

LEMMA SelectArchivesKeeps ==
  ASSUME ExtractorInv, SelectArchives
  PROVE  ExtractorInv'
<1>1. /\ phase = "selecting" /\ archive = 0 /\ archives = <<>> /\ exit = NoExit
      /\ UNCHANGED <<content, overwrite, token, archive, completed, temporary, outcome, litter,
                     failures, unpacked>>
  BY DEF cancelling, SelectArchives, progress, counts, ExtractorInv, CountsAreRight
<1>2. /\ content \in [EntryPaths -> Contents] /\ overwrite \in BOOLEAN /\ token \in BOOLEAN
      /\ completed \in Nat /\ litter \in Nat /\ failures \in Nat /\ unpacked \in Nat
      /\ outcome \in {"none", "failed", "cancelled"}
      /\ failures + unpacked = 0 /\ (litter > 0 => failures > 0)
  BY <1>1 DEF ExtractorInv, TypeOK, CountsAreRight, Running, Finished
<1>3. \A p \in EntryPaths : content[p] \in {Absent, Old, Other}
  BY <1>1 DEF ExtractorInv, OwnEntries
<1>4. /\ archives' \in Seq(Seq(EntryPaths)) /\ Len(archives') \in Nat
      /\ phase' \in {"next", "ended"}
      /\ phase' = "next" => archives' # <<>> /\ exit' = NoExit
      /\ phase' = "ended" => exit' \in {1, 2, 130} /\ (exit' = 130 => token)
  <2>1. archives \in Seq(Seq(EntryPaths))
    BY DEF ExtractorInv, TypeOK
  <2>2. archives' \in Seq(Seq(EntryPaths))
    BY <2>1, ExtractorAssumption DEF SelectArchives
  <2>3. phase' = "next" => archives' # <<>> /\ exit' = NoExit
    BY <1>1, ExtractorAssumption DEF SelectArchives, End
  <2>4. QED
    BY <2>2, <2>3 DEF SelectArchives, End
<1>5. TypeOK'
  <2>1. \A p \in EntryPaths : content'[p] \in Contents'
    BY <1>1, <1>3 DEF Contents
  <2>2. content' \in [EntryPaths -> Contents']
    BY <1>1, <1>2, <2>1
  <2>3. archive' \in 0..Len(archives')
    BY <1>1, <1>4
  <2>4. QED
    BY <1>1, <1>2, <1>4, <2>2, <2>3 DEF TypeOK
<1>6. OwnEntries' /\ PartlyDone' /\ WholePlanFirst'
  <2>1. OwnEntries'
    BY <1>1, <1>3 DEF OwnEntries
  <2>2. PartlyDone'
    BY <1>4 DEF PartlyDone, Unpacking
  <2>3. WholePlanFirst'
    BY <1>1, <1>3, EntryFacts DEF WholePlanFirst
  <2>4. QED
    BY <2>1, <2>2, <2>3
<1>7. CountsAreRight'
  BY <1>1, <1>2, <1>4, ExtractorAssumption DEF CountsAreRight, Running, Finished, FinishedUnpacked
<1>8. ExitCodeIsRight'
  BY <1>1, <1>4, ExtractorAssumption DEF ExitCodeIsRight
<1>9. QED
  BY <1>5, <1>6, <1>7, <1>8 DEF ExtractorInv

LEMMA StartArchiveKeeps ==
  ASSUME ExtractorInv, StartArchive
  PROVE  ExtractorInv'
<1>1. /\ phase = "next" /\ exit = NoExit /\ archives # <<>>
      /\ UNCHANGED <<content, overwrite, token, archives, temporary, outcome, litter, failures, unpacked>>
  BY DEF cancelling, StartArchive, counts, ExtractorInv, CountsAreRight
<1>2. /\ archives \in Seq(Seq(EntryPaths)) /\ Len(archives) \in Nat /\ Len(archives) > 0
      /\ archive \in 0..Len(archives) /\ completed \in Nat
      /\ failures \in Nat /\ unpacked \in Nat /\ litter \in Nat
      /\ Finished = archive
      /\ failures + unpacked = archive
      /\ litter > 0 => failures > 0
      /\ failures = 0 => FinishedUnpacked
  BY <1>1 DEF ExtractorInv, TypeOK, CountsAreRight, Running, Finished
<1>3. WholePlanFirst' /\ Contents' = Contents
  BY <1>1, SameFiles DEF ExtractorInv
<1>4. CASE archive = Len(archives) /\ End(IF failures = 0 THEN 0 ELSE 1) /\ UNCHANGED progress
  <2>1. /\ phase' = "ended" /\ exit' = (IF failures = 0 THEN 0 ELSE 1)
        /\ archive' = archive /\ completed' = completed
    BY <1>4 DEF End, progress
  <2>2. TypeOK'
    BY <1>1, <1>2, <1>3, <2>1 DEF ExtractorInv, TypeOK
  <2>3. OwnEntries' /\ PartlyDone'
    BY <1>1, <2>1, SameFiles DEF ExtractorInv, PartlyDone, Unpacking
  <2>4. CountsAreRight'
    BY <2>1, ExtractorAssumption DEF CountsAreRight, Running
  <2>5. ExitCodeIsRight'
    <3>1. CASE failures = 0
      <4>1. exit' = 0 /\ litter = 0 /\ unpacked = Len(archives)
        BY <1>2, <1>4, <2>1, <3>1
      <4>2. \A a \in 1..Len(archives) : \A k \in 1..Len(archives[a]) :
              \E b \in a..Len(archives) : \E j \in 1..Len(archives[b]) :
                /\ archives[b][j] = archives[a][k]
                /\ content[archives[a][k]] = Entry(b, j)
        <5>1. \A a \in 1..Len(archives) : Unpacked(a, Len(archives))
          BY <1>2, <1>4, <3>1 DEF FinishedUnpacked
        <5>2. QED
          BY <5>1 DEF Unpacked
      <4>3. \A a \in 1..Len(archives') : \A k \in 1..Len(archives'[a]) :
              \E b \in a..Len(archives') : \E j \in 1..Len(archives'[b]) :
                /\ archives'[b][j] = archives'[a][k]
                /\ content'[archives'[a][k]] = Entry(b, j)
        <5>1. content' = content /\ archives' = archives
          BY <1>1
        <5>2. QED
          BY <4>2, <5>1
      <4>4. exit' = 0 /\ litter' = 0 /\ unpacked' = Len(archives')
        BY <1>1, <4>1
      <4>5. exit' # 1 /\ exit' # 2 /\ exit' # 130
        BY <4>4
      <4>6. QED
        BY <4>3, <4>4, <4>5, Zenon DEF ExitCodeIsRight
    <3>2. CASE failures # 0
      <4>1. exit' = 1 /\ failures > 0 /\ failures + unpacked = Len(archives)
        BY <1>2, <1>4, <2>1, <3>2
      <4>2. QED
        BY <1>1, <4>1 DEF ExitCodeIsRight
    <3>3. QED
      BY <3>1, <3>2
  <2>6. QED
    BY <1>3, <2>2, <2>3, <2>4, <2>5 DEF ExtractorInv
<1>5. CASE archive < Len(archives) /\ token /\ End(130) /\ UNCHANGED progress
  <2>1. /\ phase' = "ended" /\ exit' = 130
        /\ archive' = archive /\ completed' = completed
    BY <1>5 DEF End, progress
  <2>2. TypeOK'
    BY <1>1, <1>2, <1>3, <2>1 DEF ExtractorInv, TypeOK
  <2>3. OwnEntries' /\ PartlyDone'
    BY <1>1, <2>1, SameFiles DEF ExtractorInv, PartlyDone, Unpacking
  <2>4. CountsAreRight' /\ ExitCodeIsRight'
    BY <1>1, <1>5, <2>1, ExtractorAssumption DEF CountsAreRight, Running, ExitCodeIsRight
  <2>5. QED
    BY <1>3, <2>2, <2>3, <2>4 DEF ExtractorInv
<1>6. CASE archive < Len(archives) /\ phase' = "beginning" /\ UNCHANGED exit /\ UNCHANGED progress
  <2>1. archive' = archive /\ completed' = completed /\ Finished' = Finished
    BY <1>1, <1>6 DEF Finished, progress
  <2>2. TypeOK'
    BY <1>1, <1>2, <1>3, <1>6, <2>1 DEF ExtractorInv, TypeOK
  <2>3. OwnEntries' /\ PartlyDone'
    BY <1>1, <1>6, <2>1, SameFiles DEF ExtractorInv, PartlyDone, Unpacking
  <2>4. CountsAreRight'
    <3>1. failures' = 0 => FinishedUnpacked'
      BY <1>1, <1>2, <2>1, SameUnpacked
    <3>2. QED
      BY <1>1, <1>2, <1>6, <2>1, <3>1, ExtractorAssumption DEF CountsAreRight, Running
  <2>5. ExitCodeIsRight'
    BY <1>1, <1>6, NotEnded
  <2>6. QED
    BY <1>3, <2>2, <2>3, <2>4, <2>5 DEF ExtractorInv
<1>7. QED
  BY <1>4, <1>5, <1>6 DEF StartArchive, progress

LEMMA BeginArchiveKeeps ==
  ASSUME ExtractorInv, BeginArchive
  PROVE  ExtractorInv'
<1>1. /\ phase = "beginning" /\ exit = NoExit /\ archives # <<>> /\ archive < Len(archives)
      /\ UNCHANGED <<content, overwrite, token, archives, temporary, outcome, litter, failures, unpacked,
                     exit>>
      /\ archive' = archive + 1 /\ completed' = 0 /\ phase' = "planning"
  BY DEF BeginArchive, CountLate, counts, ExtractorInv, CountsAreRight
<1>2. /\ archives \in Seq(Seq(EntryPaths)) /\ Len(archives) \in Nat
      /\ archive \in 0..Len(archives) /\ completed \in Nat
      /\ failures \in Nat /\ unpacked \in Nat /\ litter \in Nat
      /\ Finished = archive
      /\ failures + unpacked = archive
      /\ litter > 0 => failures > 0
      /\ failures = 0 => FinishedUnpacked
  BY <1>1 DEF ExtractorInv, TypeOK, CountsAreRight, Running, Finished
<1>3. WholePlanFirst' /\ Contents' = Contents
  BY <1>1, SameFiles DEF ExtractorInv
<1>4. /\ archive' \in 0..Len(archives) /\ Finished' = archive
      /\ archive \in Int /\ archive' \in Int /\ archive <= archive' /\ archive' > 0
  BY <1>1, <1>2 DEF Finished
<1>5. TypeOK'
  BY <1>1, <1>2, <1>3, <1>4 DEF ExtractorInv, TypeOK
<1>6. OwnEntries'
  <2>1. 1..archive \subseteq 1..archive'
    BY <1>1, <1>2
  <2>2. QED
    BY <1>1, <2>1 DEF ExtractorInv, OwnEntries
<1>7. PartlyDone'
  BY <1>1 DEF PartlyDone, Unpacking
<1>8. CountsAreRight'
  <2>1. failures' = 0 => FinishedUnpacked'
    BY <1>1, <1>2, <1>4, SameUnpacked
  <2>2. QED
    BY <1>1, <1>2, <1>4, <2>1, ExtractorAssumption DEF CountsAreRight, Running
<1>9. ExitCodeIsRight'
  BY <1>1, NotEnded
<1>10. QED
  BY <1>3, <1>5, <1>6, <1>7, <1>8, <1>9 DEF ExtractorInv

\* What is known while an archive is being unpacked.
LEMMA AtWork ==
  ASSUME ExtractorInv, Running, phase \notin {"selecting", "next", "beginning"}
  PROVE  /\ archives \in Seq(Seq(EntryPaths)) /\ archives # <<>> /\ Len(archives) \in Nat
         /\ archive \in 1..Len(archives) /\ completed \in Nat
         /\ failures \in Nat /\ unpacked \in Nat /\ litter \in Nat
         /\ exit = NoExit
         /\ Finished = archive - 1
         /\ failures + unpacked = archive - 1
         /\ litter > 0 => failures > 0
         /\ failures = 0 => FinishedUnpacked
<1>1. /\ archives \in Seq(Seq(EntryPaths)) /\ Len(archives) \in Nat
      /\ archive \in 0..Len(archives) /\ completed \in Nat
      /\ failures \in Nat /\ unpacked \in Nat /\ litter \in Nat
      /\ phase \in {"planning", "entry", "copying", "copied", "moving", "finally"}
  BY DEF ExtractorInv, TypeOK, Running
<1>2. archive > 0
  BY <1>1 DEF ExtractorInv, CountsAreRight, PartlyDone, Unpacking
<1>3. archive \in 1..Len(archives) /\ archives # <<>>
  BY <1>1, <1>2
<1>4. Finished = archive - 1
  BY DEF Finished
<1>5. QED
  BY <1>1, <1>3, <1>4 DEF ExtractorInv, CountsAreRight, Running

\* The cancellation ends the program.
LEMMA CancelledKeeps ==
  ASSUME ExtractorInv, Running, phase \notin {"selecting", "next", "beginning"}, token,
         UNCHANGED <<content, overwrite, token, archives, archive, completed, outcome, unpacked>>,
         litter' \in Nat, Throw("cancelled")
  PROVE  ExtractorInv'
<1>1. WholePlanFirst' /\ Contents' = Contents /\ OwnEntries'
  BY SameFiles DEF ExtractorInv
<1>2. failures' = failures /\ phase' = "ended" /\ exit' = 130
  BY DEF Throw, End
<1>3. TypeOK'
  BY <1>1, <1>2 DEF ExtractorInv, TypeOK
<1>4. PartlyDone' /\ CountsAreRight' /\ ExitCodeIsRight'
  BY <1>2, ExtractorAssumption
     DEF PartlyDone, Unpacking, CountsAreRight, Running, ExitCodeIsRight
<1>5. QED
  BY <1>1, <1>3, <1>4 DEF ExtractorInv

\* The archive fails, and the next one is taken.
LEMMA FailedKeeps ==
  ASSUME ExtractorInv, Running, phase \notin {"selecting", "next", "beginning"},
         UNCHANGED <<content, overwrite, token, archives, archive, completed, outcome, unpacked>>,
         litter' \in Nat, Throw("failed")
  PROVE  ExtractorInv'
<1>1. WholePlanFirst' /\ Contents' = Contents /\ OwnEntries'
  BY SameFiles DEF ExtractorInv
<1>2. /\ archives # <<>> /\ archive \in 1..Len(archives) /\ Len(archives) \in Nat
      /\ failures \in Nat /\ unpacked \in Nat /\ exit = NoExit
      /\ failures + unpacked = archive - 1
  BY AtWork
<1>3. failures' = failures + 1 /\ phase' = "next" /\ exit' = exit
  BY DEF Throw
<1>4. /\ failures' \in Nat /\ failures' > 0 /\ failures' # 0
      /\ failures' + unpacked' = archive' /\ Finished' = archive'
  BY <1>2, <1>3 DEF Finished
<1>5. TypeOK'
  BY <1>1, <1>2, <1>3, <1>4 DEF ExtractorInv, TypeOK
<1>6. PartlyDone'
  BY <1>3 DEF PartlyDone, Unpacking
<1>7. CountsAreRight'
  BY <1>2, <1>3, <1>4 DEF CountsAreRight
<1>8. ExitCodeIsRight'
  BY <1>2, <1>3, NotEnded
<1>9. QED
  BY <1>1, <1>5, <1>6, <1>7, <1>8 DEF ExtractorInv

\* The work on an archive goes on, and no file is touched.
LEMMA GoesOn ==
  ASSUME ExtractorInv, Running, phase \notin {"selecting", "next", "beginning"}, Unpacking',
         UNCHANGED <<content, overwrite, token, archives, archive, litter, failures, unpacked, exit>>,
         completed' \in Nat, outcome' \in {"none", "failed", "cancelled"}, PartlyDone'
  PROVE  ExtractorInv'
<1>1. WholePlanFirst' /\ Contents' = Contents /\ OwnEntries'
  BY SameFiles DEF ExtractorInv
<1>2. /\ archive \in 1..Len(archives) /\ Len(archives) \in Nat
      /\ failures + unpacked = archive - 1 /\ exit = NoExit
      /\ Finished = archive - 1
      /\ litter > 0 => failures > 0
      /\ failures = 0 => FinishedUnpacked
  BY AtWork
<1>3. phase' \in {"entry", "copying", "copied", "moving", "finally"}
  BY DEF Unpacking
<1>4. TypeOK'
  BY <1>1, <1>3 DEF ExtractorInv, TypeOK
<1>5. CountsAreRight'
  <2>1. Finished' = Finished /\ Finished \in Int /\ archive \in Int /\ archive' \in Int /\ archive <= archive'
    BY <1>2, <1>3 DEF Finished
  <2>2. failures' = 0 => FinishedUnpacked'
    BY <1>2, <2>1, SameUnpacked
  <2>3. QED
    BY <1>2, <1>3, <2>1, <2>2 DEF CountsAreRight
<1>6. ExitCodeIsRight'
  BY <1>2, NotEnded
<1>7. QED
  BY <1>1, <1>4, <1>5, <1>6 DEF ExtractorInv

LEMMA PlanKeeps ==
  ASSUME ExtractorInv, Plan
  PROVE  ExtractorInv'
<1>1. /\ phase = "planning" /\ Running /\ phase \notin {"selecting", "next", "beginning"}
      /\ UNCHANGED <<content, overwrite, token, archives, archive, completed, temporary, outcome, litter>>
  BY DEF cancelling, Plan, Running, progress
<1>2. /\ completed = 0 /\ litter' \in Nat /\ outcome \in {"none", "failed", "cancelled"}
  BY <1>1 DEF ExtractorInv, CountsAreRight, TypeOK
<1>3. CASE PlanIsValid /\ phase' = "entry" /\ UNCHANGED <<counts, exit>>
  <2>1. archive \in 1..Len(archives) /\ archives \in Seq(Seq(EntryPaths))
    BY <1>1, AtWork
  <2>2. Len(Targets) \in Nat /\ Targets' = Targets /\ archive > 0
    BY <1>1, <2>1 DEF Targets
  <2>3. PartlyDone'
    BY <1>1, <1>2, <1>3, <2>2 DEF PartlyDone, PlanIsValid
  <2>4. QED
    BY <1>1, <1>2, <1>3, <2>3, GoesOn DEF Unpacking, counts
<1>4. CASE token /\ Throw("cancelled") /\ UNCHANGED unpacked
  BY <1>1, <1>2, <1>4, CancelledKeeps
<1>5. CASE Throw("failed") /\ UNCHANGED unpacked
  BY <1>1, <1>2, <1>5, FailedKeeps
<1>6. QED
  BY <1>3, <1>4, <1>5 DEF Plan

LEMMA BeginEntryKeeps ==
  ASSUME ExtractorInv, BeginEntry
  PROVE  ExtractorInv'
<1>1. /\ phase = "entry" /\ Running /\ phase \notin {"selecting", "next", "beginning"} /\ Unpacking
      /\ UNCHANGED <<content, overwrite, token, archives, archive, completed, outcome, litter>>
  BY DEF cancelling, BeginEntry, Running, progress, Unpacking
<1>2. /\ litter' \in Nat /\ completed \in Nat /\ outcome \in {"none", "failed", "cancelled"}
      /\ TypeOK /\ PartlyDone
  BY <1>1 DEF ExtractorInv, TypeOK
<1>3. /\ archives \in Seq(Seq(EntryPaths)) /\ archives # <<>> /\ Len(archives) \in Nat
      /\ archive \in 1..Len(archives)
      /\ failures \in Nat /\ unpacked \in Nat /\ litter \in Nat /\ exit = NoExit
      /\ Finished = archive - 1 /\ failures + unpacked = archive - 1
      /\ litter > 0 => failures > 0
      /\ failures = 0 => FinishedUnpacked
  BY <1>1, AtWork
<1>4. Targets = archives[archive] /\ Len(Targets) \in Nat /\ Targets' = Targets
  BY <1>1, <1>2, TargetFacts, SameFiles
<1>5. CASE /\ completed = Len(Targets)
           /\ unpacked' = unpacked + 1 /\ phase' = "next" /\ UNCHANGED <<temporary, failures, exit>>
  <2>1. WholePlanFirst' /\ Contents' = Contents /\ OwnEntries'
    BY <1>1, SameFiles DEF ExtractorInv
  <2>2. /\ unpacked' \in Nat /\ failures' + unpacked' = archive' /\ Finished' = archive
        /\ archive' = archive
    BY <1>1, <1>3, <1>5 DEF Finished
  <2>3. TypeOK'
    BY <1>1, <1>2, <1>3, <1>5, <2>1, <2>2 DEF TypeOK
  <2>4. ASSUME failures = 0, NEW a \in 1..archive, NEW k \in 1..Len(archives[a])
        PROVE  \E b \in a..archive : \E j \in 1..Len(archives[b]) :
                 /\ archives[b][j] = archives[a][k]
                 /\ content[archives[a][k]] = Entry(b, j)
    <3>1. CASE a = archive
      <4>1. content[archives[a][k]] = Entry(archive, k)
        BY <1>1, <1>2, <1>4, <1>5, <3>1 DEF PartlyDone, InPlace
      <4>2. archive \in a..archive /\ k \in 1..Len(archives[archive])
        BY <1>3, <3>1
      <4>3. QED
        BY <3>1, <4>1, <4>2
    <3>2. CASE a # archive
      <4>1. a \in 1..(archive - 1)
        BY <1>3, <3>2
      <4>2. Unpacked(a, archive)
        BY <1>3, <2>4, <4>1 DEF FinishedUnpacked
      <4>3. QED
        BY <4>2 DEF Unpacked
    <3>3. QED
      BY <3>1, <3>2
  <2>5. failures' = 0 => FinishedUnpacked'
    <3>1. ASSUME failures' = 0, NEW a \in 1..Finished'
          PROVE  Unpacked(a, archive)'
      <4>1. failures = 0 /\ a \in 1..archive
        BY <1>5, <2>2, <3>1
      <4>2. Unpacked(a, archive)
        BY <2>4, <4>1 DEF Unpacked
      <4>3. QED
        BY <1>1, <4>2 DEF Unpacked
    <3>2. QED
      BY <2>2, <3>1 DEF FinishedUnpacked
  <2>6. CountsAreRight'
    BY <1>1, <1>3, <1>5, <2>2, <2>5 DEF CountsAreRight
  <2>7. PartlyDone' /\ ExitCodeIsRight'
    BY <1>3, <1>5, NotEnded DEF PartlyDone, Unpacking
  <2>8. QED
    BY <2>1, <2>3, <2>6, <2>7 DEF ExtractorInv
<1>6. CASE token /\ Throw("cancelled") /\ UNCHANGED <<temporary, unpacked>>
  BY <1>1, <1>2, <1>6, CancelledKeeps
<1>7. CASE Throw("failed") /\ UNCHANGED <<temporary, unpacked>>
  BY <1>1, <1>2, <1>7, FailedKeeps
<1>8. CASE /\ completed < Len(Targets) /\ phase' = "copying"
           /\ UNCHANGED <<failures, exit, unpacked>>
  <2>1. PartlyDone'
    BY <1>1, <1>2, <1>4, <1>8 DEF PartlyDone, InPlace
  <2>2. Unpacking'
    BY <1>8 DEF Unpacking
  <2>3. QED
    BY <1>1, <1>2, <1>8, <2>1, <2>2, GoesOn
<1>9. QED
  BY <1>5, <1>6, <1>7, <1>8 DEF BeginEntry

LEMMA CopiedKeeps ==
  ASSUME ExtractorInv, Copied
  PROVE  ExtractorInv'
<1>1. /\ phase = "copying" /\ Running /\ phase \notin {"selecting", "next", "beginning"} /\ Unpacking
      /\ UNCHANGED <<content, overwrite, token, archives, archive, completed, litter,
                     failures, unpacked, exit>>
  BY DEF cancelling, Copied, Running, progress, counts, Unpacking
<1>2. completed \in Nat /\ outcome \in {"none", "failed", "cancelled"} /\ TypeOK /\ PartlyDone
  BY <1>1 DEF ExtractorInv, TypeOK
<1>3. Len(Targets) \in Nat /\ Targets' = Targets
  BY <1>1, <1>2, TargetFacts, SameFiles
<1>4. \/ phase' = "copied" /\ temporary' = Entry(archive, completed + 1) /\ outcome' = outcome
      \/ phase' = "finally" /\ outcome' = "failed"
      \/ phase' = "finally" /\ outcome' = "cancelled" /\ token
  BY DEF Copied, Finally
<1>5. PartlyDone'
  BY <1>1, <1>2, <1>3, <1>4 DEF PartlyDone, InPlace
<1>6. Unpacking' /\ outcome' \in {"none", "failed", "cancelled"}
  BY <1>2, <1>4 DEF Unpacking
<1>7. QED
  BY <1>1, <1>2, <1>5, <1>6, GoesOn

LEMMA LastCheckKeeps ==
  ASSUME ExtractorInv, LastCheck
  PROVE  ExtractorInv'
<1>1. /\ phase = "copied" /\ Running /\ phase \notin {"selecting", "next", "beginning"} /\ Unpacking
      /\ UNCHANGED <<content, overwrite, token, archives, archive, completed, temporary, litter,
                     failures, unpacked, exit>>
  BY DEF LastCheck, Running, cancelling, progress, counts, Unpacking
<1>2. completed \in Nat /\ outcome \in {"none", "failed", "cancelled"} /\ TypeOK /\ PartlyDone
  BY <1>1 DEF ExtractorInv, TypeOK
<1>3. Len(Targets) \in Nat /\ Targets' = Targets
  BY <1>1, <1>2, TargetFacts, SameFiles
<1>4. \/ phase' = "moving" /\ outcome' = outcome
      \/ phase' = "finally" /\ outcome' = "cancelled" /\ token
  BY DEF LastCheck, Finally
<1>5. PartlyDone'
  BY <1>1, <1>2, <1>3, <1>4 DEF PartlyDone, InPlace
<1>6. Unpacking' /\ outcome' \in {"none", "failed", "cancelled"}
  BY <1>2, <1>4 DEF Unpacking
<1>7. QED
  BY <1>1, <1>2, <1>5, <1>6, GoesOn

\* What a move leaves on the paths: the entry on its target, the others as they were.
LEMMA MoveKeeps ==
  ASSUME ExtractorInv, Move
  PROVE  ExtractorInv'
<1>1. /\ phase = "moving" /\ Running /\ phase \notin {"selecting", "next", "beginning"} /\ Unpacking
      /\ UNCHANGED <<overwrite, token, archives, archive, completed, litter, failures, unpacked, exit>>
      /\ phase' = "finally" /\ Unpacking'
  BY DEF Move, CountLate, cancelling, Running, progress, counts, Unpacking, Finally
<1>2. completed \in Nat /\ outcome \in {"none", "failed", "cancelled"} /\ TypeOK /\ PartlyDone
  BY <1>1 DEF ExtractorInv, TypeOK
<1>3. /\ archives \in Seq(Seq(EntryPaths)) /\ Len(archives) \in Nat /\ archive \in 1..Len(archives)
      /\ exit = NoExit /\ failures + unpacked = archive - 1 /\ Finished = archive - 1
      /\ litter > 0 => failures > 0
      /\ failures = 0 => FinishedUnpacked
  BY <1>1, AtWork
<1>4. /\ completed < Len(Targets) /\ IsInjective(Targets)
      /\ temporary = Entry(archive, completed + 1)
      /\ \A k \in 1..Len(Targets) : Targets[k] \notin Unsafe
      /\ \A k \in 1..completed : InPlace(k)
  BY <1>1, <1>2 DEF PartlyDone
<1>5. /\ Targets = archives[archive] /\ Len(Targets) \in Nat /\ Targets \in Seq(EntryPaths)
      /\ completed + 1 \in 1..Len(Targets) /\ Target = Targets[completed + 1] /\ Target \in EntryPaths
      /\ Entry(archive, completed + 1) \in Contents
  BY <1>1, <1>2, <1>4, TargetFacts
<1>6. Targets' = Targets /\ Contents' = Contents
  BY <1>1 DEF Targets, Contents
<1>7. CASE outcome' = "failed" /\ UNCHANGED <<content, temporary>>
  <2>1. PartlyDone'
    BY <1>1, <1>2, <1>6, <1>7 DEF PartlyDone, InPlace
  <2>2. outcome' \in {"none", "failed", "cancelled"}
    BY <1>7
  <2>3. QED
    BY <1>1, <1>2, <1>7, <2>1, <2>2, GoesOn
<1>8. CASE content' = [content EXCEPT ![Target] = temporary] /\ outcome' = "none"
  <2>1. /\ content \in [EntryPaths -> Contents]
        /\ content' = [content EXCEPT ![Target] = Entry(archive, completed + 1)]
    BY <1>2, <1>4, <1>8 DEF TypeOK
  <2>2. /\ content' \in [EntryPaths -> Contents]
        /\ content'[Target] = Entry(archive, completed + 1)
        /\ \A p \in EntryPaths : p # Target => content'[p] = content[p]
    BY <1>5, <2>1
  <2>3. TypeOK'
    BY <1>1, <1>2, <1>6, <1>8, <2>2 DEF TypeOK
  <2>4. OwnEntries'
    <3>1. ASSUME NEW p \in EntryPaths, content'[p] \notin {Absent, Old, Other}
          PROVE  \E a \in 1..archive : \E k \in 1..Len(archives[a]) :
                   archives[a][k] = p /\ content'[p] = Entry(a, k)
      <4>1. CASE p = Target
        <5>1. /\ archive \in 1..archive /\ completed + 1 \in 1..Len(archives[archive])
              /\ archives[archive][completed + 1] = p /\ content'[p] = Entry(archive, completed + 1)
          BY <1>3, <1>5, <2>2, <4>1
        <5>2. QED
          BY <5>1
      <4>2. CASE p # Target
        BY <2>2, <3>1, <4>2 DEF ExtractorInv, OwnEntries
      <4>3. QED
        BY <4>1, <4>2
    <3>2. QED
      BY <1>1, <3>1 DEF OwnEntries
  <2>5. PartlyDone'
    <3>1. ASSUME NEW k \in 1..completed
          PROVE  content'[Targets[k]] = Entry(archive, k)
      <4>1. /\ k \in 1..Len(Targets) /\ k # completed + 1 /\ DOMAIN Targets = 1..Len(Targets)
            /\ Targets[k] \in EntryPaths
        BY <1>2, <1>4, <1>5
      <4>2. Targets[k] # Target
        BY <1>4, <1>5, <4>1 DEF IsInjective
      <4>3. content[Targets[k]] = Entry(archive, k)
        BY <1>4 DEF InPlace
      <4>4. QED
        BY <2>2, <4>1, <4>2, <4>3
    <3>2. content'[Targets[completed + 1]] = Entry(archive, completed + 1)
      BY <1>5, <2>2
    <3>3. QED
      BY <1>1, <1>2, <1>4, <1>6, <1>8, <3>1, <3>2 DEF PartlyDone, InPlace
  <2>6. WholePlanFirst'
    <3>1. ASSUME NEW p \in EntryPaths, NEW a \in 1..Len(archives), NEW k \in 1..Len(archives[a]),
                 content'[p] = Entry(a, k)
          PROVE  IsInjective(archives[a]) /\ \A j \in 1..Len(archives[a]) : archives[a][j] \notin Unsafe
      <4>1. CASE p = Target
        <5>1. a = archive
          BY <2>2, <3>1, <4>1, EntryFacts
        <5>2. QED
          BY <1>4, <1>5, <5>1
      <4>2. CASE p # Target
        BY <2>2, <3>1, <4>2 DEF ExtractorInv, WholePlanFirst
      <4>3. QED
        BY <4>1, <4>2
    <3>2. QED
      BY <1>1, <3>1 DEF WholePlanFirst
  <2>7. Finished' = archive - 1
    BY <1>1 DEF Finished
  <2>8. failures' = 0 => FinishedUnpacked'
    <3>1. ASSUME failures = 0, NEW a \in 1..(archive - 1), NEW k \in 1..Len(archives[a])
          PROVE  \E b \in a..archive : \E j \in 1..Len(archives[b]) :
                   /\ archives[b][j] = archives[a][k]
                   /\ content'[archives[a][k]] = Entry(b, j)
      <4>1. CASE archives[a][k] = Target
        <5>1. archive \in a..archive /\ completed + 1 \in 1..Len(archives[archive])
          BY <1>3, <1>5
        <5>2. QED
          BY <1>5, <2>2, <4>1, <5>1
      <4>2. CASE archives[a][k] # Target
        <5>1. Unpacked(a, archive)
          BY <1>3, <3>1 DEF FinishedUnpacked
        <5>2. a \in 1..Len(archives) /\ archives[a] \in Seq(EntryPaths)
          BY <1>3
        <5>3. archives[a][k] \in EntryPaths
          BY <5>2
        <5>4. content'[archives[a][k]] = content[archives[a][k]]
          BY <2>2, <4>2, <5>3
        <5>5. PICK b \in a..archive : \E j \in 1..Len(archives[b]) :
                archives[b][j] = archives[a][k] /\ content[archives[a][k]] = Entry(b, j)
          BY <5>1 DEF Unpacked
        <5>6. QED
          BY <5>4, <5>5
      <4>3. QED
        BY <4>1, <4>2
    <3>2. ASSUME failures' = 0, NEW a \in 1..Finished'
          PROVE  Unpacked(a, archive)'
      <4>1. failures = 0 /\ a \in 1..(archive - 1)
        BY <1>1, <2>7, <3>2
      <4>2. QED
        BY <1>1, <3>1, <4>1 DEF Unpacked
    <3>3. QED
      BY <3>2 DEF FinishedUnpacked
  <2>9. CountsAreRight'
    BY <1>1, <1>3, <2>7, <2>8 DEF CountsAreRight
  <2>10. ExitCodeIsRight'
    BY <1>1, <1>3, NotEnded
  <2>11. QED
    BY <2>3, <2>4, <2>5, <2>6, <2>9, <2>10 DEF ExtractorInv
<1>9. \/ outcome' = "failed" /\ UNCHANGED <<content, temporary>>
      \/ content' = [content EXCEPT ![Target] = temporary] /\ outcome' = "none"
  BY DEF Move, Finally
<1>10. QED
  BY <1>7, <1>8, <1>9

LEMMA CleanupKeeps ==
  ASSUME ExtractorInv, Cleanup
  PROVE  ExtractorInv'
<1>1. /\ phase = "finally" /\ Running /\ phase \notin {"selecting", "next", "beginning"} /\ Unpacking
      /\ UNCHANGED <<content, overwrite, token, archives, archive, outcome, unpacked>>
  BY DEF cancelling, Cleanup, Running, Unpacking
<1>2. /\ completed \in Nat /\ outcome \in {"none", "failed", "cancelled"} /\ litter \in Nat
      /\ TypeOK /\ PartlyDone
  BY <1>1 DEF ExtractorInv, TypeOK
<1>3. CASE outcome = "none" /\ completed' = completed + 1 /\ phase' = "entry"
           /\ UNCHANGED <<litter, failures, exit>>
  <2>1. Len(Targets) \in Nat /\ Targets' = Targets
    BY <1>1, <1>2, TargetFacts, SameFiles
  <2>2. /\ completed < Len(Targets) /\ InPlace(completed + 1)
        /\ \A k \in 1..completed : InPlace(k)
    BY <1>1, <1>2, <1>3 DEF PartlyDone
  <2>3. completed' \in 0..Len(Targets) /\ \A k \in 1..completed' : InPlace(k)
    BY <1>2, <1>3, <2>1, <2>2
  <2>4. PartlyDone'
    BY <1>1, <1>2, <1>3, <2>1, <2>3 DEF PartlyDone, InPlace
  <2>5. Unpacking' /\ completed' \in Nat
    BY <1>2, <1>3 DEF Unpacking
  <2>6. QED
    BY <1>1, <1>2, <1>3, <2>4, <2>5, GoesOn
<1>4. CASE outcome # "none" /\ Throw(outcome) /\ UNCHANGED <<litter, completed>>
  <2>1. CASE outcome = "failed"
    BY <1>1, <1>2, <1>4, <2>1, FailedKeeps
  <2>2. CASE outcome = "cancelled"
    <3>1. token
      BY <1>1, <1>2, <2>2 DEF PartlyDone
    <3>2. QED
      BY <1>1, <1>2, <1>4, <2>2, <3>1, CancelledKeeps
  <2>3. QED
    BY <1>2, <1>4, <2>1, <2>2
<1>5. CASE litter' = litter + 1 /\ Throw("failed") /\ UNCHANGED completed
  BY <1>1, <1>2, <1>5, FailedKeeps
<1>6. QED
  BY <1>3, <1>4, <1>5 DEF Cleanup

LEMMA CancelKeeps ==
  ASSUME ExtractorInv, Cancel
  PROVE  ExtractorInv'
<1>1. /\ token' = TRUE
      /\ UNCHANGED <<content, overwrite, phase, archives, archive, completed, temporary, outcome,
                     litter, failures, unpacked, exit>>
  BY DEF Cancel, progress, counts
<1>2. WholePlanFirst' /\ Contents' = Contents /\ OwnEntries' /\ Targets' = Targets
  BY <1>1, SameFiles DEF ExtractorInv
<1>3. TypeOK'
  BY <1>1, <1>2 DEF ExtractorInv, TypeOK
<1>4. PartlyDone'
  BY <1>1, <1>2 DEF ExtractorInv, PartlyDone, Unpacking, InPlace
<1>5. CountsAreRight'
  <2>1. Finished' = Finished /\ FinishedUnpacked' = FinishedUnpacked
    BY <1>1 DEF Finished, FinishedUnpacked, Unpacked
  <2>2. QED
    BY <1>1, <2>1 DEF ExtractorInv, CountsAreRight, Running
<1>6. ExitCodeIsRight'
  BY <1>1 DEF ExtractorInv, ExitCodeIsRight
<1>7. QED
  BY <1>2, <1>3, <1>4, <1>5, <1>6 DEF ExtractorInv

LEMMA CrashKeeps ==
  ASSUME ExtractorInv, Crash
  PROVE  ExtractorInv'
<1>1. /\ Running /\ phase' = "crashed"
      /\ UNCHANGED <<content, overwrite, token, archives, archive, completed, outcome,
                     failures, unpacked, exit>>
      /\ litter' = litter \/ litter' = litter + 1
  BY DEF cancelling, Crash, progress, counts
<1>2. WholePlanFirst' /\ Contents' = Contents /\ OwnEntries'
  BY <1>1, SameFiles DEF ExtractorInv
<1>3. TypeOK'
  BY <1>1, <1>2 DEF ExtractorInv, TypeOK
<1>4. exit = NoExit
  BY <1>1 DEF ExtractorInv, CountsAreRight, Running
<1>5. PartlyDone' /\ CountsAreRight' /\ ExitCodeIsRight'
  BY <1>1, <1>4, NotEnded DEF PartlyDone, Unpacking, CountsAreRight, Running
<1>6. QED
  BY <1>2, <1>3, <1>5 DEF ExtractorInv

\* A file appears where there was none: no entry is on its path.
LEMMA AppearKeeps ==
  ASSUME ExtractorInv, NEW path \in EntryPaths, Appear(path)
  PROVE  ExtractorInv'
<1>1. /\ Running /\ content[path] = Absent /\ content' = [content EXCEPT ![path] = Other]
      /\ UNCHANGED <<overwrite, token, phase, archives, archive, completed, temporary, outcome,
                     litter, failures, unpacked, exit>>
  BY DEF cancelling, Appear, Exists, progress, counts
<1>2. Contents' = Contents /\ Targets' = Targets
  BY <1>1 DEF Contents, Targets
<1>3. /\ content \in [EntryPaths -> Contents] /\ content' \in [EntryPaths -> Contents]
      /\ content'[path] = Other
      /\ \A p \in EntryPaths : p # path => content'[p] = content[p]
  BY <1>1 DEF ExtractorInv, TypeOK, Contents
<1>4. \A p \in EntryPaths : \A a, k : content[p] = Entry(a, k) => content'[p] = Entry(a, k)
  BY <1>1, <1>3, EntryFacts
<1>5. \A p \in EntryPaths : \A a, k : content'[p] = Entry(a, k) => content[p] = Entry(a, k)
  BY <1>1, <1>3, EntryFacts
<1>6. TypeOK'
  BY <1>1, <1>2, <1>3 DEF ExtractorInv, TypeOK
<1>7. OwnEntries'
  BY <1>1, <1>3 DEF ExtractorInv, OwnEntries
<1>8. PartlyDone'
  <2>1. SUFFICES ASSUME Unpacking PROVE PartlyDone'
    BY <1>1 DEF PartlyDone, Unpacking
  <2>2. /\ \A k \in 1..Len(Targets) : Targets[k] \in EntryPaths
        /\ Len(Targets) \in Nat /\ completed \in 0..Len(Targets)
    BY <2>1, TargetFacts DEF ExtractorInv, PartlyDone
  <2>3. \A k \in 1..Len(Targets) : InPlace(k) => InPlace(k)'
    BY <1>1, <1>2, <1>4, <2>2 DEF InPlace
  <2>4. \A k \in 1..completed : InPlace(k)'
    BY <2>1, <2>2, <2>3 DEF ExtractorInv, PartlyDone
  <2>5. ASSUME phase = "finally", outcome = "none"
        PROVE  InPlace(completed + 1)'
    <3>1. completed < Len(Targets) /\ InPlace(completed + 1)
      BY <2>1, <2>5 DEF ExtractorInv, PartlyDone
    <3>2. completed + 1 \in 1..Len(Targets)
      BY <2>2, <3>1
    <3>3. QED
      BY <1>1, <1>2, <2>3, <3>1, <3>2 DEF InPlace
  <2>6. QED
    BY <1>1, <1>2, <2>1, <2>4, <2>5 DEF ExtractorInv, PartlyDone, InPlace
<1>9. WholePlanFirst'
  BY <1>1, <1>5 DEF ExtractorInv, WholePlanFirst
<1>10. CountsAreRight'
  <2>1. archives \in Seq(Seq(EntryPaths)) /\ archive \in 0..Len(archives) /\ Len(archives) \in Nat
    BY DEF ExtractorInv, TypeOK
  <2>2. Finished' = Finished /\ (Finished = archive \/ Finished = archive - 1)
    BY <1>1 DEF Finished
  <2>3. ASSUME FinishedUnpacked, NEW a \in 1..Finished, NEW k \in 1..Len(archives[a])
        PROVE  \E b \in a..archive : \E j \in 1..Len(archives[b]) :
                 /\ archives[b][j] = archives[a][k]
                 /\ content'[archives[a][k]] = Entry(b, j)
    <3>1. a \in 1..Len(archives) /\ archives[a] \in Seq(EntryPaths)
      BY <2>1, <2>2
    <3>2. archives[a][k] \in EntryPaths
      BY <3>1
    <3>3. PICK b \in a..archive : \E j \in 1..Len(archives[b]) :
            archives[b][j] = archives[a][k] /\ content[archives[a][k]] = Entry(b, j)
      BY <2>3 DEF FinishedUnpacked, Unpacked
    <3>4. QED
      BY <1>4, <3>2, <3>3
  <2>4. FinishedUnpacked => FinishedUnpacked'
    <3>1. ASSUME FinishedUnpacked, NEW a \in 1..Finished'
          PROVE  Unpacked(a, archive)'
      <4>1. a \in 1..Finished /\ archives' = archives /\ archive' = archive
        BY <1>1, <2>2, <3>1
      <4>2. \A k \in 1..Len(archives[a]) : \E b \in a..archive : \E j \in 1..Len(archives[b]) :
              /\ archives[b][j] = archives[a][k]
              /\ content'[archives[a][k]] = Entry(b, j)
        BY <2>3, <3>1, <4>1
      <4>3. QED
        BY <4>1, <4>2 DEF Unpacked
    <3>2. QED
      BY <3>1 DEF FinishedUnpacked
  <2>5. QED
    BY <1>1, <2>2, <2>4 DEF ExtractorInv, CountsAreRight, Running
<1>11. ExitCodeIsRight'
  <2>1. exit = NoExit
    BY <1>1 DEF ExtractorInv, CountsAreRight, Running
  <2>2. QED
    BY <1>1, <2>1, NotEnded
<1>12. QED
  BY <1>6, <1>7, <1>8, <1>9, <1>10, <1>11 DEF ExtractorInv

LEMMA StutterKeeps ==
  ASSUME ExtractorInv, UNCHANGED extractor
  PROVE  ExtractorInv'
<1>1. UNCHANGED <<content, overwrite, token, phase, archives, archive, completed, temporary, outcome,
                  litter, failures, unpacked, exit>>
  BY DEF cancelling, extractor, progress, counts
<1>2. WholePlanFirst' /\ Contents' = Contents /\ OwnEntries' /\ Targets' = Targets
  BY <1>1, SameFiles DEF ExtractorInv
<1>3. TypeOK' /\ PartlyDone'
  BY <1>1, <1>2 DEF ExtractorInv, TypeOK, PartlyDone, Unpacking, InPlace
<1>4. CountsAreRight'
  <2>1. Finished' = Finished /\ FinishedUnpacked' = FinishedUnpacked
    BY <1>1 DEF Finished, FinishedUnpacked, Unpacked
  <2>2. QED
    BY <1>1, <2>1 DEF ExtractorInv, CountsAreRight, Running
<1>5. ExitCodeIsRight'
  <2>1. ExitCodeIsRight' = ExitCodeIsRight
    BY <1>1 DEF ExitCodeIsRight
  <2>2. QED
    BY <2>1 DEF ExtractorInv
<1>6. QED
  BY <1>2, <1>3, <1>4, <1>5 DEF ExtractorInv

LEMMA ExtractorKeeps == ExtractorInv /\ [ExtractorNext]_extractor => ExtractorInv'
<1> SUFFICES ASSUME ExtractorInv, [ExtractorNext]_extractor PROVE ExtractorInv'
  OBVIOUS
<1>1. CASE SelectArchives
  BY <1>1, SelectArchivesKeeps
<1>2. CASE StartArchive
  BY <1>2, StartArchiveKeeps
<1>3. CASE BeginArchive
  BY <1>3, BeginArchiveKeeps
<1>4. CASE Plan
  BY <1>4, PlanKeeps
<1>5. CASE BeginEntry
  BY <1>5, BeginEntryKeeps
<1>6. CASE Copied
  BY <1>6, CopiedKeeps
<1>7. CASE LastCheck
  BY <1>7, LastCheckKeeps
<1>8. CASE Move
  BY <1>8, MoveKeeps
<1>9. CASE Cleanup
  BY <1>9, CleanupKeeps
<1>10. CASE Cancel
  BY <1>10, CancelKeeps
<1>11. CASE Crash
  BY <1>11, CrashKeeps
<1>12. ASSUME NEW path \in EntryPaths, Appear(path)
       PROVE  ExtractorInv'
  BY <1>12, AppearKeeps
<1>13. CASE UNCHANGED extractor
  BY <1>13, StutterKeeps
<1>14. QED
  BY <1>1, <1>2, <1>3, <1>4, <1>5, <1>6, <1>7, <1>8, <1>9, <1>10, <1>11, <1>12, <1>13
     DEF ExtractorNext, Program

-----------------------------------------------------------------------------
(* Theorems                                                                *)

\* The inductive invariant: the types; whose content is on each path; what was done of
\* the archive being unpacked; what was counted; and the two properties below.
THEOREM ExtractorInvariant == ExtractorSpec => []ExtractorInv
BY ExtractorInitOK, ExtractorKeeps, PTL DEF ExtractorSpec

\* ArchiveExtractor.cs:15, "Validate the whole plan before writing anything": whatever
\* archives are unpacked, and whatever fails, is cancelled or appears meanwhile, no entry
\* is written of an archive with a refused path or with two entries on one path.
THEOREM PlanIsFirst == ExtractorSpec => []WholePlanFirst
<1>1. ExtractorInv => WholePlanFirst
  BY DEF ExtractorInv
<1>2. QED
  BY <1>1, ExtractorInvariant, PTL

\* README.md:172-173: the exit code tells what was done, 0 in particular only when every
\* path of every archive holds an entry and no temporary file is left.
THEOREM ExitCodes == ExtractorSpec => []ExitCodeIsRight
<1>1. ExtractorInv => ExitCodeIsRight
  BY DEF ExtractorInv
<1>2. QED
  BY <1>1, ExtractorInvariant, PTL

\* README.md:167-168, "failed/cancelled entries leave existing files intact": every
\* change of a path is either a file that another program makes where there was none, or
\* the complete entry meant for that path, over an existing file only with --overwrite.
THEOREM ExistingStayIntact == ExtractorSpec => ExistingIntact
<1> DEFINE Intact ==
      \A p \in EntryPaths : content'[p] # content[p] =>
        \/ content'[p] = Other /\ ~ Exists(p)
        \/ /\ Exists(p) => overwrite
           /\ \E a \in 1..Len(archives) : \E k \in 1..Len(archives[a]) :
                archives[a][k] = p /\ content'[p] = Entry(a, k)
<1>1. ExtractorInv /\ [ExtractorNext]_extractor => [Intact]_extractor
  <2> SUFFICES ASSUME ExtractorInv, [ExtractorNext]_extractor PROVE Intact
    OBVIOUS
  <2>1. CASE UNCHANGED content
    BY <2>1
  <2>2. CASE Move /\ content' # content
    <3>1. /\ phase = "moving" /\ Unpacking /\ TypeOK /\ PartlyDone
          /\ overwrite \/ ~ Exists(Target)
          /\ content' = [content EXCEPT ![Target] = temporary]
      BY <2>2 DEF Move, Unpacking, ExtractorInv
    <3>2. completed < Len(Targets) /\ temporary = Entry(archive, completed + 1)
      BY <3>1 DEF PartlyDone
    <3>3. /\ archive \in 1..Len(archives) /\ Targets = archives[archive]
          /\ completed + 1 \in 1..Len(archives[archive])
          /\ Target = archives[archive][completed + 1] /\ Target \in EntryPaths
      BY <3>1, <3>2, TargetFacts
    <3>4. /\ content'[Target] = Entry(archive, completed + 1)
          /\ \A p \in EntryPaths : p # Target => content'[p] = content[p]
      BY <3>1, <3>2, <3>3 DEF TypeOK
    <3>5. QED
      BY <3>1, <3>3, <3>4
  <2>3. ASSUME NEW path \in EntryPaths, Appear(path)
        PROVE  Intact
    <3>1. content \in [EntryPaths -> Contents] /\ ~ Exists(path) /\ content' = [content EXCEPT ![path] = Other]
      BY <2>3 DEF Appear, ExtractorInv, TypeOK
    <3>2. content'[path] = Other /\ \A p \in EntryPaths : p # path => content'[p] = content[p]
      BY <3>1
    <3>3. QED
      BY <3>1, <3>2
  <2>4. QED
    BY <2>1, <2>2, <2>3
       DEF ExtractorNext, Program, SelectArchives, StartArchive, BeginArchive, Plan, BeginEntry,
           Copied, LastCheck, Cleanup, Cancel, Crash, extractor
<1>2. QED
  BY <1>1, ExtractorInvariant, PTL DEF ExtractorSpec, ExistingIntact

\* README.md:173, "Ctrl+C cancels the active command": whenever the request comes, at most
\* one more archive is begun or entry completed, and only if its cancellation check had
\* passed and its call or move was still to come; with a check of the code left out it is
\* not so.  The invariant says that what has passed its check is still to be done.
THEOREM StopsOnCancel == ExtractorSpec => []CancelStops
<1>1. ExtractorInit => LateInv
  BY DEF ExtractorInit, LateInv, CancelStops
<1>2. LateInv /\ [ExtractorNext]_extractor => LateInv'
  <2> SUFFICES ASSUME LateInv, [ExtractorNext]_extractor PROVE LateInv'
    OBVIOUS
  <2>1. ASSUME UNCHANGED cancelling, phase' \notin {"beginning", "moving"}
        PROVE  LateInv'
    BY <2>1 DEF LateInv, CancelStops, cancelling
  <2>2. CASE SelectArchives
    BY <2>1, <2>2 DEF SelectArchives, End
  <2>3. CASE StartArchive
    <3>1. ASSUME ~ token, UNCHANGED cancelling
          PROVE  LateInv'
      BY <3>1 DEF LateInv, CancelStops, cancelling
    <3>2. QED
      BY <2>1, <2>3, <3>1 DEF StartArchive, End
  <2>4. CASE BeginArchive
    BY <2>4 DEF BeginArchive, CountLate, LateInv, CancelStops
  <2>5. CASE Plan
    BY <2>1, <2>5 DEF Plan, Throw, End
  <2>6. CASE BeginEntry
    BY <2>1, <2>6 DEF BeginEntry, Throw, End
  <2>7. CASE Copied
    BY <2>1, <2>7 DEF Copied, Finally
  <2>8. CASE LastCheck
    <3>1. ASSUME ~ token, UNCHANGED cancelling
          PROVE  LateInv'
      BY <3>1 DEF LateInv, CancelStops, cancelling
    <3>2. QED
      BY <2>1, <2>8, <3>1 DEF LastCheck, Finally
  <2>9. CASE Move
    BY <2>9 DEF Move, Finally, CountLate, cancelling, LateInv, CancelStops
  <2>10. CASE Cleanup
    BY <2>1, <2>10 DEF Cleanup, Throw, End
  <2>11. CASE Cancel
    BY <2>11 DEF Cancel, LateInv, CancelStops
  <2>12. CASE Crash
    BY <2>1, <2>12 DEF Crash
  <2>13. CASE UNCHANGED <<cancelling, phase>>
    BY <2>13 DEF LateInv, CancelStops, cancelling
  <2>14. QED
    BY <2>2, <2>3, <2>4, <2>5, <2>6, <2>7, <2>8, <2>9, <2>10, <2>11, <2>12, <2>13
       DEF ExtractorNext, Program, Appear, extractor
<1>3. LateInv => CancelStops
  BY DEF LateInv
<1>4. QED
  BY <1>1, <1>2, <1>3, PTL DEF ExtractorSpec

(***************************************************************************)
(* GameData                                                                *)
(***************************************************************************)

-----------------------------------------------------------------------------
(* What a step changes                                                     *)

\* A step of one call changes that call only.
LEMMA OneCall ==
  ASSUME TasksOK, NEW c \in Calls, NEW t, Become(c, t)
  PROVE  /\ task' = [d \in Calls |-> task'[d]]
         /\ task'[c] = t
         /\ \A d \in Calls \ {c} : task'[d] = task[d]
BY DEF TasksOK, Become

\* What depends on the folder only.
LEMMA SameFolder ==
  ASSUME rootHandle' = rootHandle
  PROVE  /\ \A p : ResolveFile(p)' = ResolveFile(p)
         /\ Archives' = Archives
         /\ \A n : FileNamed(n)' = FileNamed(n)
         /\ \A n : PathsOf(n)' = PathsOf(n)
<1>1. \A p : ResolveFile(p)' = ResolveFile(p)
  BY DEF ResolveFile
<1>2. Archives' = Archives
  BY DEF Archives, ListFiles
<1>3. \A n : FileNamed(n)' = FileNamed(n)
  BY DEF FileNamed
<1>4. \A n : PathsOf(n)' = PathsOf(n)
  BY <1>3 DEF PathsOf
<1>5. QED
  BY <1>1, <1>2, <1>3, <1>4

\* Which calls are inside, and what that means for the others.
LEMMA Alone ==
  ASSUME ServiceInv, NEW c \in Calls, holder \in {c, NoOne} \/ Inside(c)
  PROVE  \A d \in Calls \ {c} : ~ Inside(d)
BY GameDataAssumption DEF ServiceInv, GateOK

LEMMA InsideStates ==
  ASSUME NEW t, JobOK(t), t.at \in PickStates \cup ResolveStates \/ t.stream # None
  PROVE  /\ t.at \notin {"free", "done", "waiting", "module"} /\ t.kind # "initialize"
BY DEF JobOK, PickStates, ResolveStates, ReadStates

-----------------------------------------------------------------------------
(* Assembling the invariant                                                *)

\* What the invariant asks of a call that is past the gate.
PastGate(t) == t.at \notin {"free", "done", "waiting"} /\ t.kind # "initialize"

\* A step of a call that is alone past the gate, or that leaves nobody there.
LEMMA Assemble ==
  ASSUME ServiceInv, NEW c \in Calls, NEW t, Become(c, t),
         \A d \in Calls \ {c} : ~ Inside(d),
         t = Free \/ t.at = "done" \/ JobOK(t),
         StateOK', IndexOK',
         DOMAIN openFiles' = IF t.at \in ReadStates THEN {t.stream} ELSE {},
         PastGate(t) =>
           /\ holder' = c
           /\ t.at # "module" => module' = "ready"
           /\ t.at \notin {"module", "picking"} => rootName' # None,
         t.at = "listing" => indexed' = {} /\ errors' = {},
         \A left : t.at \in {"indexing", "reading"} /\ left = t.left => PlanOK(left)',
         t.at = "reading" =>
           t.left # <<>> /\ openFiles'[t.stream] = FileIn(rootHandle', <<Head(t.left)>>) /\ openFiles'[t.stream] # None,
         t.at = "readingLoose" => openFiles'[t.stream] = FileIn(rootHandle', t.path) /\ openFiles'[t.stream] # None,
         t.at \in {"archived", "readingArchive"} => FileIn(rootHandle', t.path) = None,
         t.at = "readingArchive" =>
           /\ t.path \in DOMAIN files'
           /\ openFiles'[t.stream] = FileIn(rootHandle', <<files'[t.path].archive>>) /\ openFiles'[t.stream] # None
  PROVE  ServiceInv'
<1>1. /\ task' = [d \in Calls |-> task'[d]]
      /\ task'[c] = t
      /\ \A d \in Calls \ {c} : task'[d] = task[d]
  BY OneCall DEF ServiceInv
<1>2. TasksOK'
  BY <1>1 DEF ServiceInv, TasksOK
<1>3. \A d \in Calls \ {c} : task[d].at \in PickStates \cup ResolveStates => FALSE
  <2>1. ASSUME NEW d \in Calls \ {c}, task[d].at \in PickStates \cup ResolveStates
        PROVE  FALSE
    <3>1. task[d].at \notin {"free", "done", "waiting", "module"}
      BY <2>1 DEF PickStates, ResolveStates
    <3>2. JobOK(task[d])
      BY <3>1 DEF ServiceInv, TasksOK, Free
    <3>3. Inside(d)
      BY <2>1, <3>1, <3>2, InsideStates DEF Inside
    <3>4. QED
      BY <3>3
  <2>2. QED
    BY <2>1
<1>4. GateOK'
  <2>1. \A d \in Calls \ {c} : ~ Inside(d)'
    BY <1>1 DEF Inside
  <2>2. Inside(c)' <=> PastGate(t)
    BY <1>1 DEF Inside, PastGate
  <2>3. QED
    BY <1>1, <2>1, <2>2 DEF GateOK
<1>5. OpenWhileRead'
  <2>1. ReadStates \subseteq PickStates \cup ResolveStates
    BY DEF ReadStates, PickStates, ResolveStates
  <2>2. \A d \in Calls \ {c} : task'[d].at \notin ReadStates
    BY <1>1, <1>3, <2>1
  <2>3. {d \in Calls : task'[d].at \in ReadStates} = IF t.at \in ReadStates THEN {c} ELSE {}
    BY <1>1, <2>2
  <2>4. QED
    BY <1>1, <2>3 DEF OpenWhileRead, ReadStates
<1>6. PicksOK'
  <2>1. \A d \in Calls \ {c} : task'[d].at \notin {"listing", "indexing", "reading"}
    BY <1>1, <1>3 DEF PickStates
  <2>2. task'[c].at = "listing" => indexed' = {} /\ errors' = {}
    BY <1>1
  <2>3. task'[c].at \in {"indexing", "reading"} => PlanOK(task[c].left)'
    BY <1>1 DEF PlanOK
  <2>4. task'[c].at = "reading" => task'[c].left # <<>> /\ FileOf(c)' = ResolveFile(<<Head(task[c].left)>>)' /\ FileOf(c)' # None
    BY <1>1 DEF FileOf, ResolveFile
  <2>5. QED
    BY <2>1, <2>2, <2>3, <2>4 DEF PicksOK
<1>7. ResolvesOK'
  <2>1. \A d \in Calls \ {c} : task'[d].at \notin {"readingLoose", "archived", "readingArchive"}
    BY <1>1, <1>3 DEF ResolveStates
  <2>2. task'[c].at = "readingLoose" => FileOf(c)' = ResolveFile(task[c].path)' /\ FileOf(c)' # None
    BY <1>1 DEF FileOf, ResolveFile
  <2>3. task'[c].at \in {"archived", "readingArchive"} => ResolveFile(task[c].path)' = None
    BY <1>1 DEF ResolveFile
  <2>4. task'[c].at = "readingArchive" =>
          /\ task'[c].path \in DOMAIN files'
          /\ FileOf(c)' = ResolveFile(<<files[task[c].path].archive>>)' /\ FileOf(c)' # None
    BY <1>1 DEF FileOf, ResolveFile
  <2>5. QED
    BY <2>1, <2>2, <2>3, <2>4 DEF ResolvesOK
<1>8. QED
  BY <1>2, <1>4, <1>5, <1>6, <1>7 DEF ServiceInv

\* What a step that leaves the folder, the index and the files alone keeps.
LEMMA SameIndex ==
  ASSUME ServiceInv, UNCHANGED <<rootName, indexed, errors, files, rootHandle>>
  PROVE  /\ IndexOK'
         /\ \A left : PlanOK(left) =>
              /\ indexed' \cup errors' \cup Range(left) = Archives'
              /\ indexed' \cap errors' = {} /\ (indexed' \cup errors') \cap Range(left) = {}
              /\ IsInjective(left)
              /\ \A i, j \in DOMAIN left : i < j => RankOf[left[i]] <= RankOf[left[j]]
              /\ \A n \in indexed', m \in Range(left) : RankOf[n] <= RankOf[m]
<1>1. /\ Archives' = Archives /\ (\A n : FileNamed(n)' = FileNamed(n)) /\ \A n : PathsOf(n)' = PathsOf(n)
  BY SameFolder
<1>2. IndexIsOfRoot => IndexIsOfRoot'
  BY <1>1 DEF IndexIsOfRoot
<1>3. RecordsKept => RecordsKept'
  BY <1>1 DEF RecordsKept, Entries
<1>4. IndexOK'
  BY <1>2, <1>3 DEF ServiceInv, IndexOK
<1>5. QED
  BY <1>1, <1>4 DEF PlanOK

\* A step of a call that is not past the gate, before or after it.
LEMMA OutsideStep ==
  ASSUME ServiceInv, NEW c \in Calls, NEW t, Become(c, t),
         ~ Inside(c), ~ PastGate(t), t = Free \/ t.at = "done" \/ JobOK(t),
         supported' \in {None, hasPicker},
         UNCHANGED <<holder, rootName, indexed, errors, files, module, dataRoot>>
  PROVE  ServiceInv'
<1>1. /\ task' = [d \in Calls |-> task'[d]]
      /\ task'[c] = t
      /\ \A d \in Calls \ {c} : task'[d] = task[d]
  BY OneCall DEF ServiceInv
<1>2. TasksOK'
  BY <1>1 DEF ServiceInv, TasksOK
<1>3. /\ task[c].at \notin PickStates \cup ResolveStates
      /\ task'[c].at \notin PickStates \cup ResolveStates
  <2>1. ASSUME NEW u, u.at \in PickStates \cup ResolveStates, u = Free \/ u.at = "done" \/ JobOK(u)
        PROVE  PastGate(u)
    <3>1. u.at \notin {"free", "done", "waiting", "module"}
      BY <2>1 DEF PickStates, ResolveStates
    <3>2. JobOK(u)
      BY <2>1, <3>1 DEF Free
    <3>3. QED
      BY <2>1, <3>1, <3>2, InsideStates DEF PastGate
  <2>2. ~ PastGate(task[c])
    BY DEF PastGate, Inside
  <2>3. QED
    BY <1>1, <2>1, <2>2 DEF ServiceInv, TasksOK
<1>4. GateOK'
  <2>1. \A d \in Calls \ {c} : Inside(d)' <=> Inside(d)
    BY <1>1 DEF Inside
  <2>2. ~ Inside(c)'
    BY <1>1 DEF Inside, PastGate
  <2>3. QED
    BY <1>1, <2>1, <2>2 DEF ServiceInv, GateOK
<1>5. OpenWhileRead'
  <2>1. ReadStates \subseteq PickStates \cup ResolveStates
    BY DEF ReadStates, PickStates, ResolveStates
  <2>2. {d \in Calls : task'[d].at \in ReadStates} = {d \in Calls : task[d].at \in ReadStates}
    BY <1>1, <1>3, <2>1
  <2>3. c \notin {d \in Calls : task[d].at \in ReadStates}
    BY <1>3, <2>1
  <2>4. QED
    BY <1>1, <2>2, <2>3 DEF ServiceInv, OpenWhileRead, ReadStates, dataRoot
<1>6. UNCHANGED <<rootHandle, openFiles, nextFileId, hasPicker>>
  BY DEF dataRoot
<1>7. /\ IndexOK'
  BY <1>6, SameIndex
<1>8. \A d \in Calls \ {c} : FileOf(d)' = FileOf(d)
  BY <1>1, <1>6 DEF FileOf
<1>9. PicksOK'
  <2>1. task'[c].at \notin {"listing", "indexing", "reading"}
    BY <1>3 DEF PickStates
  <2>2. ASSUME NEW d \in Calls \ {c}, task[d].at \in {"indexing", "reading"}
        PROVE  PlanOK(task[d].left)'
    <3>1. PlanOK(task[d].left)
      BY <2>2 DEF ServiceInv, PicksOK
    <3>2. QED
      BY <1>1, <1>6, <3>1, SameFolder DEF PlanOK
  <2>3. QED
    BY <1>1, <1>6, <1>8, <2>1, <2>2 DEF ServiceInv, PicksOK, ResolveFile
<1>10. ResolvesOK'
  <2>1. task'[c].at \notin {"readingLoose", "archived", "readingArchive"}
    BY <1>3 DEF ResolveStates
  <2>2. QED
    BY <1>1, <1>6, <1>8, <2>1 DEF ServiceInv, ResolvesOK, ResolveFile
<1>11. StateOK'
  BY <1>6, SameFolder DEF ServiceInv, StateOK
<1>12. QED
  BY <1>2, <1>4, <1>5, <1>7, <1>9, <1>10, <1>11 DEF ServiceInv

\* The import begins or ends.
LEMMA ModuleStep ==
  ASSUME ServiceInv, module = "ready" => module' = "ready",
         UNCHANGED <<holder, rootName, indexed, errors, files, supported, dataRoot, task>>
  PROVE  ServiceInv'
<1>1. UNCHANGED <<rootHandle, openFiles, nextFileId, hasPicker>>
  BY DEF dataRoot
<1>2. TasksOK' /\ OpenWhileRead' /\ IndexOK' /\ StateOK'
  BY <1>1, SameFolder, SameIndex DEF ServiceInv, TasksOK, OpenWhileRead, StateOK
<1>3. GateOK'
  BY DEF ServiceInv, GateOK, Inside
<1>4. PicksOK'
  <2>1. ASSUME NEW d \in Calls, task[d].at \in {"indexing", "reading"}
        PROVE  PlanOK(task[d].left)'
    <3>1. PlanOK(task[d].left)
      BY <2>1 DEF ServiceInv, PicksOK
    <3>2. QED
      BY <1>1, <3>1, SameFolder DEF PlanOK
  <2>2. QED
    BY <1>1, <2>1 DEF ServiceInv, PicksOK, ResolveFile, FileOf
<1>5. ResolvesOK'
  BY <1>1 DEF ServiceInv, ResolvesOK, ResolveFile, FileOf
<1>6. QED
  BY <1>2, <1>3, <1>4, <1>5 DEF ServiceInv

-----------------------------------------------------------------------------
(* The call past the gate                                                  *)

\* The call past the gate is alone there, and what is open is what it reads.
LEMMA InsideFacts ==
  ASSUME ServiceInv, NEW c \in Calls, Inside(c)
  PROVE  /\ JobOK(task[c]) /\ holder = c
         /\ \A d \in Calls \ {c} : ~ Inside(d)
         /\ DOMAIN openFiles = IF task[c].at \in ReadStates THEN {task[c].stream} ELSE {}
<1>1. JobOK(task[c])
  BY DEF ServiceInv, TasksOK, Inside, Free
<1>2. holder = c /\ \A d \in Calls \ {c} : ~ Inside(d)
  BY Alone DEF ServiceInv, GateOK
<1>3. \A d \in Calls \ {c} : task[d].at \notin ReadStates
  <2>1. ASSUME NEW d \in Calls \ {c}, task[d].at \in ReadStates
        PROVE  FALSE
    <3>1. task[d].at \notin {"free", "done", "waiting", "module"} /\ task[d].at \in PickStates \cup ResolveStates
      BY <2>1 DEF ReadStates, PickStates, ResolveStates
    <3>2. JobOK(task[d])
      BY <3>1 DEF ServiceInv, TasksOK, Free
    <3>3. QED
      BY <1>2, <3>1, <3>2, InsideStates DEF Inside
  <2>2. QED
    BY <2>1
<1>4. {d \in Calls : task[d].at \in ReadStates} = IF task[c].at \in ReadStates THEN {c} ELSE {}
  BY <1>3
<1>5. QED
  BY <1>1, <1>2, <1>4 DEF ServiceInv, OpenWhileRead, ReadStates

\* Nobody is past a gate that is free.
LEMMA NobodyInside ==
  ASSUME ServiceInv, holder = NoOne \/ \E c \in Calls : holder = c /\ ~ Inside(c)
  PROVE  /\ \A d \in Calls : ~ Inside(d)
         /\ DOMAIN openFiles = {}
<1>1. \A d \in Calls : ~ Inside(d)
  BY GameDataAssumption DEF ServiceInv, GateOK
<1>2. \A d \in Calls : task[d].at \notin ReadStates
  <2>1. ASSUME NEW d \in Calls, task[d].at \in ReadStates
        PROVE  FALSE
    <3>1. task[d].at \notin {"free", "done", "waiting", "module"} /\ task[d].at \in PickStates \cup ResolveStates
      BY <2>1 DEF ReadStates, PickStates, ResolveStates
    <3>2. JobOK(task[d])
      BY <3>1 DEF ServiceInv, TasksOK, Free
    <3>3. QED
      BY <1>1, <3>1, <3>2, InsideStates DEF Inside
  <2>2. QED
    BY <2>1
<1>3. {d \in Calls : task[d].at \in ReadStates} = {}
  BY <1>2
<1>4. QED
  BY <1>1, <1>3 DEF ServiceInv, OpenWhileRead, ReadStates

\* Each state of a call, told by where it stands.
LEMMA AtInside ==
  ASSUME ServiceInv, NEW c \in Calls, task[c].at \in PickStates \cup ResolveStates
  PROVE  Inside(c)
<1>1. task[c].at \notin {"free", "done", "waiting", "module"}
  BY DEF PickStates, ResolveStates
<1>2. JobOK(task[c])
  BY <1>1 DEF ServiceInv, TasksOK, Free
<1>3. QED
  BY <1>1, <1>2, InsideStates DEF Inside

\* What is left open is closed.
LEMMA DisposedFacts ==
  ASSUME ServiceInv, NEW c \in Calls, Inside(c), Disposed(c)
  PROVE  DOMAIN openFiles' = {} /\ UNCHANGED <<hasPicker, rootHandle, nextFileId>>
<1>1. JobOK(task[c])
  BY InsideFacts
<1>2. DOMAIN openFiles = IF task[c].at \in ReadStates THEN {task[c].stream} ELSE {}
  BY InsideFacts
<1>3. task[c].stream # None <=> task[c].at \in ReadStates
  BY <1>1 DEF JobOK
<1>4. CASE task[c].stream = None
  BY <1>2, <1>3, <1>4 DEF Disposed, dataRoot
<1>5. CASE task[c].stream # None
  <2>1. CloseFile(task[c].stream)
    BY <1>5 DEF Disposed
  <2>2. DOMAIN openFiles' = DOMAIN openFiles \ {task[c].stream}
    BY <2>1 DEF CloseFile
  <2>3. QED
    BY <1>2, <1>3, <1>5, <2>1, <2>2 DEF CloseFile
<1>6. QED
  BY <1>4, <1>5

LEMMA ReturnKeeps ==
  ASSUME ServiceInv, NEW c \in Calls, Inside(c), NEW result, Return(c, result)
  PROVE  ServiceInv'
<1> DEFINE t == Result(c, result)
<1>1. t.at = "done" /\ t.at \notin ReadStates
  BY DEF Result, ReadStates
<1>2. Become(c, t) /\ UNCHANGED <<rootName, indexed, errors, files, module, supported>>
  BY DEF Return, service
<1>3. DOMAIN openFiles' = {} /\ UNCHANGED <<hasPicker, rootHandle, nextFileId>>
  BY DisposedFacts DEF Return
<1>4. IndexOK'
  BY <1>2, <1>3, SameIndex
<1>5. StateOK'
  BY <1>2, <1>3, SameFolder DEF ServiceInv, StateOK
<1>6. \A d \in Calls \ {c} : ~ Inside(d)
  BY InsideFacts
<1> HIDE DEF t
<1>7. ~ PastGate(t)
  BY <1>1 DEF PastGate
<1>8. QED
  BY <1>1, <1>2, <1>3, <1>4, <1>5, <1>6, <1>7, Assemble

-----------------------------------------------------------------------------
(* Finding a file                                                          *)

\* The entry that a scan stops at is one of that name, in whatever case.
LEMMA ChildFacts ==
  ASSUME NEW folder \in DOMAIN Listing, NEW name, NEW kind, GetChild(folder, name, kind) # None
  PROVE  \E i \in DOMAIN Listing[folder] :
           /\ LowerOf[Listing[folder][i].name] = name /\ Listing[folder][i].kind = kind
           /\ GetChild(folder, name, kind) = Listing[folder][i].item
<1> DEFINE places == IF Exact(folder, name, kind) # {} THEN Exact(folder, name, kind)
                     ELSE Children(folder, name, kind)
<1>1. Listing[folder] \in Seq(ToSet(Listing[folder]))
  BY DataRootAssumption
<1>2. DOMAIN Listing[folder] \subseteq Nat
  BY <1>1
<1>3. places \subseteq Children(folder, name, kind)
  BY DEF Exact
<1>4. places \in SUBSET Nat
  BY <1>2, <1>3 DEF Children
<1>5. places # {}
  BY DEF GetChild, FirstOf
<1>6. GetChild(folder, name, kind) = Listing[folder][Min(places)].item
  BY <1>5 DEF GetChild, FirstOf
<1> HIDE DEF places
<1>7. Min(places) \in Children(folder, name, kind)
  BY <1>3, <1>4, <1>5, MinFacts
<1>8. QED
  BY <1>6, <1>7 DEF Children

\* The walk begins at the root and takes one segment after the other.
LEMMA FoldersFacts ==
  ASSUME NEW root, NEW segments, Len(segments) \in Nat
  PROVE  LET folder == FoldersOn(root, segments) IN
         /\ folder[0] = root
         /\ \A i \in 1..Len(segments) :
              folder[i] = IF folder[i - 1] = None \/ segments[i] = Blank THEN folder[i - 1]
                          ELSE GetChild(folder[i - 1], segments[i], "directory")
<1> DEFINE After(folder, i) ==
             IF folder = None \/ segments[i] = Blank THEN folder ELSE GetChild(folder, segments[i], "directory")
           Walk(folder, n) == folder = [i \in 0..n |-> IF i = 0 THEN root ELSE After(folder[i - 1], i)]
           Bad == {n \in Nat : ~ \E folder : Walk(folder, n)}
<1>a. ASSUME NEW n \in Nat, NEW walk, Walk(walk, n)
      PROVE  \E folder : Walk(folder, n + 1)
  <2> DEFINE folder == [i \in 0..(n + 1) |-> IF i = n + 1 THEN After(walk[n], n + 1) ELSE walk[i]]
  <2>1. \A i \in 0..n : walk[i] = IF i = 0 THEN root ELSE After(walk[i - 1], i)
    BY <1>a
  <2>2. /\ n + 1 \in Nat /\ n + 1 # 0 /\ (n + 1) - 1 = n /\ n # n + 1
        /\ n \in 0..(n + 1) /\ n + 1 \in 0..(n + 1)
        /\ \A i \in 0..(n + 1) : i \in 0..n \/ i = n + 1
        /\ \A i \in 0..n : i \in 0..(n + 1) /\ i # n + 1 /\ (i # 0 => i - 1 \in 0..n)
    OBVIOUS
  <2> HIDE DEF After
  <2>3. folder[n + 1] = After(walk[n], n + 1) /\ \A i \in 0..n : folder[i] = walk[i]
    BY <2>2
  <2>4. folder = [i \in 0..(n + 1) |-> folder[i]]
    OBVIOUS
  <2> HIDE DEF folder
  <2>5. \A i \in 0..n : folder[i] = IF i = 0 THEN root ELSE After(folder[i - 1], i)
    BY <2>1, <2>2, <2>3
  <2>6. folder[n + 1] = After(folder[(n + 1) - 1], n + 1)
    <3>1. n \in 0..n
      BY <1>a
    <3>2. folder[n] = walk[n]
      BY <2>3, <3>1
    <3>3. QED
      BY <2>2, <2>3, <3>2
  <2>7. \A i \in 0..(n + 1) : folder[i] = IF i = 0 THEN root ELSE After(folder[i - 1], i)
    BY <2>2, <2>5, <2>6
  <2>8. Walk(folder, n + 1)
    BY <2>4, <2>7
  <2>9. QED
    BY <2>8
<1>1. Bad = {}
  <2>1. SUFFICES ASSUME Bad # {} PROVE FALSE
    OBVIOUS
  <2>2. PICK n \in Bad : \A m \in Bad : n <= m
    <3>1. Bad \in SUBSET Nat
      OBVIOUS
    <3> HIDE DEF Bad
    <3>2. QED
      BY <2>1, <3>1, MinFacts
  <2>3. n \in Nat /\ ~ \E folder : Walk(folder, n)
    OBVIOUS
  <2>4. n # 0
    <3> DEFINE walk == [i \in 0..0 |-> root]
    <3>1. walk = [i \in 0..0 |-> IF i = 0 THEN root ELSE After(walk[i - 1], i)]
      <4> HIDE DEF After
      <4>1. \A i \in 0..0 : root = IF i = 0 THEN root ELSE After(walk[i - 1], i)
        OBVIOUS
      <4>2. QED
        BY <4>1, Zenon
    <3>2. Walk(walk, 0)
      BY <3>1
    <3> HIDE DEF walk, Walk
    <3>3. QED
      BY <2>3, <3>2
  <2>5. n - 1 \in Nat /\ n - 1 \notin Bad /\ (n - 1) + 1 = n
    <3>1. n - 1 \in Nat /\ ~ (n <= n - 1) /\ (n - 1) + 1 = n
      <4> HIDE DEF Bad, Walk
      <4>1. QED
        BY <2>3, <2>4
    <3> HIDE DEF Bad
    <3>2. QED
      BY <2>2, <3>1
  <2>6. PICK walk : Walk(walk, n - 1)
    BY <2>5
  <2> HIDE DEF Walk, Bad
  <2>7. QED
    BY <1>a, <2>3, <2>5, <2>6
<1>2. \E folder : Walk(folder, Len(segments))
  BY <1>1
<1>3. Walk(FoldersOn(root, segments), Len(segments))
  BY <1>2 DEF FoldersOn
<1> HIDE DEF After
<1>4. DOMAIN FoldersOn(root, segments) = 0..Len(segments)
  BY <1>3
<1>5. \A i \in 0..Len(segments) :
        FoldersOn(root, segments)[i] = IF i = 0 THEN root ELSE After(FoldersOn(root, segments)[i - 1], i)
  BY <1>3
<1>6. FoldersOn(root, segments)[0] = root
  BY <1>5
<1>7. \A i \in 1..Len(segments) : FoldersOn(root, segments)[i] = After(FoldersOn(root, segments)[i - 1], i)
  BY <1>5
<1>8. QED
  BY <1>6, <1>7 DEF After

\* A path of one segment.
LEMMA OneSegment ==
  ASSUME NEW n
  PROVE  NormalizeDataPath(<<n>>) = <<LowerOf[n]>>
<1>1. ASSUME NEW a, NEW x
      PROVE  Without(<<a>>, x) = <<a>>
  <2> DEFINE places == {i \in DOMAIN <<a>> : <<a>>[i] # x \/ i = Len(<<a>>)}
  <2>1. places = {1}
    OBVIOUS
  <2>2. Min(places) = 1
    <3>1. places \in SUBSET Nat /\ places # {}
      BY <2>1
    <3> HIDE DEF places
    <3>2. QED
      BY <2>1, <3>1, MinFacts
  <2>3. SubSeq(<<a>>, 1, Len(<<a>>)) = <<a>>
    <3>1. <<a>> \in Seq({a}) /\ Len(<<a>>) = 1
      OBVIOUS
    <3> DEFINE s == <<a>>
    <3> HIDE DEF s
    <3>2. s \in Seq({a}) /\ Len(s) = 1
      BY <3>1 DEF s
    <3>3. SubSeq(s, 1, Len(s)) = s
      BY <3>2
    <3>4. QED
      BY <3>3 DEF s
  <2>4. Without(<<a>>, x) = SubSeq(<<a>>, Min(places), Len(<<a>>))
    BY DEF Without
  <2> HIDE DEF places
  <2>5. QED
    BY <2>2, <2>3, <2>4
<1>2. [i \in DOMAIN <<n>> |-> LowerOf[<<n>>[i]]] = <<LowerOf[n]>>
  OBVIOUS
<1>3. QED
  BY <1>1, <1>2 DEF NormalizeDataPath

\* An archive is found again by its name.
LEMMA ArchiveFile ==
  ASSUME ArchivesDiffer, NEW n \in Archives, rootHandle \in Roots \cup {None}, ResolveFile(<<n>>) # None
  PROVE  /\ ResolveFile(<<n>>) = FileNamed(n)
         /\ \E i \in DOMAIN Listing[rootHandle] :
              /\ Listing[rootHandle][i].name = n /\ Listing[rootHandle][i].kind = "file"
              /\ Listing[rootHandle][i].item = FileNamed(n)
<1> DEFINE list == Listing[rootHandle]
           segments == <<LowerOf[n]>>
           named == {i \in DOMAIN segments : segments[i] # Blank}
<1>1. rootHandle # None /\ rootHandle \in Roots /\ rootHandle \in DOMAIN Listing
  BY DataRootAssumption DEF Archives, ListFiles
<1>2. PICK j \in DOMAIN list : list[j].name = n /\ list[j].kind = "file"
  BY <1>1 DEF Archives, ListFiles, ToSet
<1>3. n \in DOMAIN RankOf
  BY DEF Archives
<1>4. NormalizeDataPath(<<n>>) = segments
  BY OneSegment
<1>5. named = {1}
  <2>1. named # {}
    BY <1>4 DEF ResolveFile, FileIn
  <2>2. DOMAIN segments = {1}
    OBVIOUS
  <2> HIDE DEF segments
  <2>3. QED
    BY <2>1, <2>2
<1>6. Max(named) = 1
  <2> HIDE DEF named
  <2>1. \A x \in {1} : (\A y \in {1} : x >= y) <=> x = 1
    OBVIOUS
  <2>2. QED
    BY <1>5, <2>1 DEF Max
<1>7. FoldersOn(rootHandle, segments)[0] = rootHandle
  BY FoldersFacts
<1>8. ResolveFile(<<n>>) = GetChild(rootHandle, LowerOf[n], "file")
  <2>1. segments[1] = LowerOf[n]
    OBVIOUS
  <2> HIDE DEF segments
  <2>2. ResolveFile(<<n>>) = GetChild(FoldersOn(rootHandle, segments)[Max(named) - 1], segments[Max(named)], "file")
    BY <1>4 DEF ResolveFile, FileIn
  <2> HIDE DEF named
  <2>3. QED
    BY <1>6, <1>7, <2>1, <2>2
<1>9. PICK i \in DOMAIN list :
        /\ LowerOf[list[i].name] = LowerOf[n] /\ list[i].kind = "file"
        /\ ResolveFile(<<n>>) = list[i].item
  BY <1>1, <1>8, ChildFacts
<1>10. i = j
  BY <1>1, <1>2, <1>3, <1>9 DEF ArchivesDiffer
<1>11. FileNamed(n) = list[j].item
  <2>1. list[j] \in ToSet(list)
    BY DEF ToSet
  <2>2. \A e \in ToSet(list) : e.name = n => e = list[j]
    BY <1>1, <1>2, DataRootAssumption DEF ToSet
  <2>3. QED
    BY <1>2, <2>1, <2>2 DEF FileNamed
<1>12. QED
  BY <1>2, <1>9, <1>10, <1>11

-----------------------------------------------------------------------------
(* The invariant is kept by every step                                     *)

LEMMA NewCallFacts ==
  ASSUME NEW at \in {"waiting", "module"}, NEW kind \in {"initialize", "pick", "resolve"},
         NEW path \in Paths \cup {None},
         kind = "initialize" => at = "module",
         kind = "resolve" => path \in Paths
  PROVE  JobOK(NewCall(at, kind, path)) /\ NewCall(at, kind, path).at = at
         /\ NewCall(at, kind, path).kind = kind
<1>1. <<>> \in Seq(DOMAIN RankOf)
  OBVIOUS
<1>2. NewCall(at, kind, path) \in Job
  BY <1>1 DEF NewCall, Job
<1>3. QED
  BY <1>2 DEF NewCall, JobOK, PickStates, ResolveStates, ReadStates

LEMMA CallKeeps ==
  ASSUME ServiceInv, NEW c \in Calls, NEW kind \in {"pick", "resolve"}, NEW path \in Paths \cup {None},
         kind = "resolve" => path \in Paths, Call(c, kind, path)
  PROVE  ServiceInv'
<1>1. task[c] = Free /\ ~ Inside(c)
  BY DEF Call, Inside, Free
<1>2. UNCHANGED <<rootName, indexed, errors, files, module, supported>> /\ UNCHANGED dataRoot
      /\ UNCHANGED <<hasPicker, rootHandle, openFiles, nextFileId>>
  BY DEF Call, service, dataRoot
<1>3. CASE Take(c) /\ Become(c, NewCall("module", kind, path))
  <2> DEFINE t == NewCall("module", kind, path)
  <2>1. JobOK(t) /\ t.at = "module" /\ Become(c, t)
    BY <1>3, NewCallFacts
  <2> HIDE DEF t
  <2>2. (\A d \in Calls : ~ Inside(d)) /\ DOMAIN openFiles = {} /\ holder' = c
    BY <1>3, NobodyInside DEF Take
  <2>3. IndexOK' /\ StateOK'
    BY <1>2, SameFolder, SameIndex DEF ServiceInv, StateOK
  <2>4. t.at \notin ReadStates
    BY <2>1 DEF ReadStates
  <2>5. QED
    BY <1>2, <2>1, <2>2, <2>3, <2>4, Assemble
<1>4. CASE Join(c) /\ Become(c, NewCall("waiting", kind, path))
  <2> DEFINE t == NewCall("waiting", kind, path)
  <2>1. JobOK(t) /\ t.at = "waiting" /\ Become(c, t)
    BY <1>4, NewCallFacts
  <2> HIDE DEF t
  <2>2. ~ PastGate(t) /\ holder' = holder
    BY <1>4, <2>1 DEF PastGate, Join
  <2>3. supported' \in {None, hasPicker}
    BY <1>2 DEF ServiceInv, StateOK
  <2>4. QED
    BY <1>1, <1>2, <2>1, <2>2, <2>3, OutsideStep
<1>5. QED
  BY <1>3, <1>4 DEF Call

LEMMA CallInitializeKeeps ==
  ASSUME ServiceInv, NEW c \in Calls, CallInitialize(c)
  PROVE  ServiceInv'
<1> DEFINE t == NewCall("module", "initialize", None)
<1>1. JobOK(t) /\ t.kind = "initialize"
  BY NewCallFacts
<1>2. Become(c, t) /\ ~ Inside(c)
  BY DEF CallInitialize, Inside, Free
<1>3. UNCHANGED <<holder, rootName, indexed, errors, files, module, dataRoot, supported>>
  BY DEF CallInitialize, service, gate
<1> HIDE DEF t
<1>4. QED
  BY <1>1, <1>2, <1>3, OutsideStep DEF PastGate, ServiceInv, StateOK

LEMMA RefuseKeeps ==
  ASSUME ServiceInv, NEW c \in Calls, Refuse(c)
  PROVE  ServiceInv'
<1> DEFINE t == [at |-> "done", kind |-> "resolve", path |-> None, result |-> None]
<1>1. t.at = "done"
  OBVIOUS
<1>2. Become(c, t) /\ ~ Inside(c)
  BY DEF Refuse, Inside, Free
<1>3. UNCHANGED <<holder, rootName, indexed, errors, files, module, dataRoot, supported>>
  BY DEF Refuse, service, gate
<1> HIDE DEF t
<1>4. QED
  BY <1>1, <1>2, <1>3, OutsideStep DEF PastGate, ServiceInv, StateOK

LEMMA LeaveKeeps ==
  ASSUME ServiceInv, NEW c \in Calls, Leave(c)
  PROVE  ServiceInv'
<1>1. Become(c, Free) /\ ~ Inside(c) /\ ~ PastGate(Free)
  BY DEF Leave, Inside, Free, PastGate
<1>2. UNCHANGED <<holder, rootName, indexed, errors, files, module, dataRoot, supported>>
  BY DEF Leave, service, gate
<1>3. QED
  BY <1>1, <1>2, OutsideStep DEF ServiceInv, StateOK

LEMMA InitializedKeeps ==
  ASSUME ServiceInv, NEW c \in Calls, Initialized(c)
  PROVE  ServiceInv'
<1>1. ~ Inside(c)
  BY DEF Initialized, Inside
<1>2. UNCHANGED <<holder, rootName, indexed, errors, files, module, dataRoot>>
  BY DEF Initialized, gate
<1>3. supported' \in {None, hasPicker}
  BY DEF Initialized, ServiceInv, StateOK
<1>4. PICK result : Become(c, Result(c, result))
  BY DEF Initialized
<1> DEFINE t == Result(c, result)
<1>5. t.at = "done"
  BY DEF Result
<1> HIDE DEF t
<1>6. QED
  BY <1>1, <1>2, <1>3, <1>4, <1>5, OutsideStep DEF PastGate, t

\* A call waits for the gate, or for the module.
LEMMA ResumeKeeps ==
  ASSUME ServiceInv, NEW c \in Calls, Resume(c)
  PROVE  ServiceInv'
<1> DEFINE t == [task[c] EXCEPT !.at = "module"]
<1>1. holder = c /\ task[c].at = "waiting" /\ ~ Inside(c) /\ Become(c, t)
  BY DEF Resume, Holds, Go, Inside
<1>2. JobOK(task[c])
  BY <1>1 DEF ServiceInv, TasksOK, Free
<1>3. JobOK(t) /\ t.at = "module"
  BY <1>1, <1>2 DEF JobOK, Job, PickStates, ResolveStates, ReadStates
<1> HIDE DEF t
<1>4. UNCHANGED <<holder, rootName, indexed, errors, files, module, supported>>
      /\ UNCHANGED <<hasPicker, rootHandle, openFiles, nextFileId>>
  BY DEF Resume, service, dataRoot, gate
<1>5. (\A d \in Calls : ~ Inside(d)) /\ DOMAIN openFiles = {}
  BY <1>1, NobodyInside
<1>6. IndexOK' /\ StateOK'
  BY <1>4, SameFolder, SameIndex DEF ServiceInv, StateOK
<1>7. t.at \notin ReadStates
  BY <1>3 DEF ReadStates
<1>8. QED
  BY <1>1, <1>3, <1>4, <1>5, <1>6, <1>7, Assemble

LEMMA ProceedKeeps ==
  ASSUME ServiceInv, NEW c \in Calls, Proceed(c)
  PROVE  ServiceInv'
<1>1. PICK at \in {"picking", "loose"} :
        /\ Become(c, [task[c] EXCEPT !.at = at])
        /\ at = "picking" => task[c].kind = "pick"
        /\ at = "loose" => task[c].kind = "resolve" /\ rootName # None
  BY DEF Proceed, Go
<1> DEFINE t == [task[c] EXCEPT !.at = at]
<1>2. task[c].at = "module" /\ module = "ready" /\ Inside(c)
  BY DEF Proceed, Inside
<1>3. JobOK(task[c]) /\ holder = c /\ (\A d \in Calls \ {c} : ~ Inside(d))
  BY <1>2, InsideFacts
<1>4. JobOK(t) /\ t.at = at
  BY <1>1, <1>2, <1>3 DEF JobOK, Job, PickStates, ResolveStates, ReadStates
<1> HIDE DEF t
<1>5. UNCHANGED <<holder, rootName, indexed, errors, files, module, supported>>
      /\ UNCHANGED <<hasPicker, rootHandle, openFiles, nextFileId>>
  BY DEF Proceed, service, dataRoot, gate
<1>6. DOMAIN openFiles' = {}
  BY <1>2, <1>5, InsideFacts DEF ReadStates
<1>7. IndexOK' /\ StateOK'
  BY <1>5, SameFolder, SameIndex DEF ServiceInv, StateOK
<1>8. t.at \notin ReadStates
  BY <1>4 DEF ReadStates
<1>9. Become(c, t)
  BY <1>1 DEF t
<1>10. QED
  BY <1>1, <1>2, <1>3, <1>4, <1>5, <1>6, <1>7, <1>8, <1>9, Assemble

\* The archives of a folder are finitely many.
LEMMA ArchivesFinite ==
  ASSUME ServiceInv
  PROVE  Archives \subseteq DOMAIN RankOf /\ Cardinality(Archives) \in Nat
<1>1. CASE rootHandle = None
  <2>1. Archives = {}
    BY <1>1 DEF Archives, ListFiles
  <2>2. QED
    BY <2>1, FS_EmptySet
<1>2. CASE rootHandle # None
  <2> DEFINE list == Listing[rootHandle]
             Names == {list[i].name : i \in 1..Len(list)}
             f == [i \in 1..Len(list) |-> list[i].name]
  <2>1. rootHandle \in DOMAIN Listing
    BY <1>2, DataRootAssumption DEF ServiceInv, StateOK
  <2>2. list \in Seq(ToSet(list))
    BY <2>1, DataRootAssumption
  <2>3. Len(list) \in Nat /\ DOMAIN list = 1..Len(list)
    BY <2>2
  <2>4. Archives \subseteq Names
    BY <1>2, <2>3 DEF Archives, ListFiles, ToSet
  <2>5. f \in Surjection(1..Len(list), Names)
    BY DEF Surjection
  <2>6. IsFiniteSet(1..Len(list))
    BY <2>3, FS_Interval
  <2> HIDE DEF f, list, Names
  <2>7. IsFiniteSet(Names)
    BY <2>5, <2>6, FS_Surjection
  <2>8. IsFiniteSet(Archives)
    BY <2>4, <2>7, FS_Subset
  <2>9. QED
    BY <2>8, FS_CardinalityType DEF Archives
<1>3. QED
  BY <1>1, <1>2

LEMMA ListedKeeps ==
  ASSUME ServiceInv, NEW c \in Calls, Listed(c)
  PROVE  ServiceInv'
<1>1. PICK s \in Ordered(Archives) : Become(c, [task[c] EXCEPT !.at = "indexing", !.left = s])
  BY DEF Listed
<1> DEFINE t == [task[c] EXCEPT !.at = "indexing", !.left = s]
<1>2. task[c].at = "listing" /\ Inside(c)
  BY AtInside DEF Listed, Holds, PickStates
<1>3. JobOK(task[c]) /\ holder = c /\ (\A d \in Calls \ {c} : ~ Inside(d))
  BY <1>2, InsideFacts
<1>4. /\ s \in [1..Cardinality(Archives) -> Archives] /\ Range(s) = Archives /\ IsInjective(s)
      /\ \A i, j \in DOMAIN s : i < j => RankOf[s[i]] <= RankOf[s[j]]
  BY DEF Ordered, Bijection, Injection, Surjection, Range
<1>5. s \in Seq(DOMAIN RankOf)
  BY <1>4, ArchivesFinite
<1>6. JobOK(t) /\ t.at = "indexing" /\ t.left = s
  BY <1>2, <1>3, <1>5 DEF JobOK, Job, PickStates, ResolveStates, ReadStates
<1>7. PlanOK(s)
  BY <1>2, <1>4 DEF ServiceInv, PicksOK, PlanOK
<1> HIDE DEF t
<1>8. UNCHANGED <<holder, rootName, indexed, errors, files, module, supported>>
      /\ UNCHANGED <<hasPicker, rootHandle, openFiles, nextFileId>>
  BY DEF Listed, service, dataRoot, gate
<1>9. DOMAIN openFiles' = {}
  BY <1>2, <1>8, InsideFacts DEF ReadStates
<1>10. IndexOK' /\ StateOK'
  BY <1>8, SameFolder, SameIndex DEF ServiceInv, StateOK
<1>11. t.at \notin ReadStates
  BY <1>6 DEF ReadStates
<1>12. Become(c, t)
  BY <1>1 DEF t
<1>13. \A left : left = t.left => PlanOK(left)'
  BY <1>6, <1>7, <1>8, SameFolder DEF PlanOK
<1>14. module = "ready" /\ rootName # None
  BY <1>2 DEF ServiceInv, GateOK, Inside
<1>15. QED
  BY <1>3, <1>6, <1>8, <1>9, <1>10, <1>11, <1>12, <1>13, <1>14, Assemble

LEMMA PickedKeeps ==
  ASSUME ServiceInv, NEW c \in Calls, NEW root \in Roots, Picked(c, root)
  PROVE  ServiceInv'
<1> DEFINE t == [task[c] EXCEPT !.at = "listing"]
<1>1. task[c].at = "picking" /\ Inside(c) /\ Become(c, t)
  BY AtInside DEF Picked, Holds, PickStates, Go
<1>2. JobOK(task[c]) /\ holder = c /\ (\A d \in Calls \ {c} : ~ Inside(d))
  BY <1>1, InsideFacts
<1>3. JobOK(t) /\ t.at = "listing"
  BY <1>1, <1>2 DEF JobOK, Job, PickStates, ResolveStates, ReadStates
<1> HIDE DEF t
<1>4. /\ rootName' = root /\ rootHandle' = root /\ root # None
      /\ indexed' = {} /\ errors' = {} /\ files' = <<>> /\ module' = module /\ supported' = supported
      /\ UNCHANGED <<holder, hasPicker, openFiles, nextFileId>>
  BY GameDataAssumption DEF Picked, PickDataRoot, gate
<1>5. DOMAIN openFiles' = {}
  BY <1>1, <1>4, InsideFacts DEF ReadStates
<1>6. IndexOK'
  BY <1>4 DEF IndexOK, IndexIsOfRoot, RecordsKept
<1>7. StateOK'
  BY <1>4 DEF ServiceInv, StateOK
<1>8. module = "ready"
  BY <1>1 DEF ServiceInv, GateOK, Inside
<1>9. t.at \notin ReadStates
  BY <1>3 DEF ReadStates
<1>10. QED
  BY <1>1, <1>2, <1>3, <1>4, <1>5, <1>6, <1>7, <1>8, <1>9, Assemble

\* The file that a call opens is the only one that is open.
LEMMA OpenedFacts ==
  ASSUME ServiceInv, NEW c \in Calls, Inside(c), task[c].at \notin ReadStates, NEW file, OpenFile(file)
  PROVE  /\ DOMAIN openFiles' = {nextFileId} /\ openFiles'[nextFileId] = file
         /\ nextFileId \in Nat /\ nextFileId' \in Nat /\ nextFileId # None
         /\ UNCHANGED <<hasPicker, rootHandle>>
<1>1. DOMAIN openFiles = {}
  BY InsideFacts
<1>2. nextFileId \in Nat
  BY DEF ServiceInv, StateOK
<1>3. QED
  BY <1>1, <1>2, GameDataAssumption DEF OpenFile

LEMMA OpenArchiveKeeps ==
  ASSUME ServiceInv, NEW c \in Calls, OpenArchive(c)
  PROVE  ServiceInv'
<1> DEFINE file == ResolveFile(<<Head(task[c].left)>>)
           t == [task[c] EXCEPT !.at = "reading", !.stream = nextFileId]
<1>1. task[c].at = "indexing" /\ task[c].left # <<>> /\ Inside(c) /\ task[c].at \notin ReadStates
  BY AtInside DEF OpenArchive, Holds, PickStates, ReadStates
<1>2. file # None /\ OpenFile(file) /\ Become(c, t)
  BY DEF OpenArchive, Open
<1>3. /\ DOMAIN openFiles' = {nextFileId} /\ openFiles'[nextFileId] = file
      /\ nextFileId \in Nat /\ nextFileId' \in Nat /\ nextFileId # None
      /\ UNCHANGED <<hasPicker, rootHandle>>
  BY <1>1, <1>2, OpenedFacts
<1>4. JobOK(task[c]) /\ holder = c /\ (\A d \in Calls \ {c} : ~ Inside(d))
  BY <1>1, InsideFacts
<1>5. task[c].kind = "pick"
  BY <1>1, <1>4 DEF JobOK, PickStates
<1>6. "reading" \in ReadStates /\ "reading" \notin ResolveStates
  BY DEF ReadStates, ResolveStates
<1>7. JobOK(t) /\ t.at = "reading" /\ t.stream = nextFileId /\ t.left = task[c].left
  BY <1>1, <1>3, <1>4, <1>5 DEF JobOK, Job, PickStates, ResolveStates, ReadStates
<1> HIDE DEF t
<1>8. UNCHANGED <<holder, rootName, indexed, errors, files, module, supported>>
  BY DEF OpenArchive, service, gate
<1>9. IndexOK' /\ StateOK'
  BY <1>3, <1>8, SameFolder, SameIndex DEF ServiceInv, StateOK
<1>10. module = "ready" /\ rootName # None
  BY <1>1 DEF ServiceInv, GateOK, Inside
<1>11. ASSUME NEW left, left = t.left
       PROVE  PlanOK(left)'
  <2>1. PlanOK(left)
    BY <1>1, <1>7, <1>11 DEF ServiceInv, PicksOK
  <2>2. QED
    BY <1>3, <1>8, <2>1, SameFolder DEF PlanOK
<1>12. openFiles'[t.stream] = FileIn(rootHandle', <<Head(t.left)>>) /\ openFiles'[t.stream] # None
  BY <1>2, <1>3, <1>7 DEF ResolveFile
<1>13. t.left # <<>>
  BY <1>1, <1>7
<1> HIDE DEF file
<1>14. QED
  BY <1>2, <1>3, <1>4, <1>6, <1>7, <1>8, <1>9, <1>10, <1>11, <1>12, <1>13, Assemble

LEMMA GoArchivedFacts ==
  ASSUME NEW u, JobOK(u), u.at = "loose"
  PROVE  LET t == [u EXCEPT !.at = "archived"] IN
         JobOK(t) /\ t.at = "archived" /\ t.path = u.path
BY DEF JobOK, Job, PickStates, ResolveStates, ReadStates

LEMMA OpenLooseKeeps ==
  ASSUME ServiceInv, NEW c \in Calls, OpenLoose(c)
  PROVE  ServiceInv'
<1>1. task[c].at = "loose" /\ Inside(c) /\ task[c].at \notin ReadStates
  BY AtInside DEF OpenLoose, Holds, ResolveStates, ReadStates
<1>2. JobOK(task[c]) /\ holder = c /\ (\A d \in Calls \ {c} : ~ Inside(d)) /\ DOMAIN openFiles = {}
  BY <1>1, InsideFacts
<1>3. UNCHANGED <<holder, rootName, indexed, errors, files, module, supported>>
  BY DEF OpenLoose, service, gate
<1>4. module = "ready" /\ rootName # None
  BY <1>1 DEF ServiceInv, GateOK, Inside
<1>5. CASE Open(c, task[c].path, "readingLoose")
  <2> DEFINE file == ResolveFile(task[c].path)
             t == [task[c] EXCEPT !.at = "readingLoose", !.stream = nextFileId]
  <2>1. file # None /\ OpenFile(file) /\ Become(c, t)
    BY <1>5 DEF Open
  <2>2. /\ DOMAIN openFiles' = {nextFileId} /\ openFiles'[nextFileId] = file
        /\ nextFileId \in Nat /\ nextFileId' \in Nat /\ nextFileId # None
        /\ UNCHANGED <<hasPicker, rootHandle>>
    BY <1>1, <2>1, OpenedFacts
  <2>3. task[c].kind = "resolve"
    BY <1>1, <1>2 DEF JobOK, ResolveStates
  <2>4. "readingLoose" \in ReadStates /\ "readingLoose" \notin PickStates
    BY DEF ReadStates, PickStates
  <2>5. JobOK(t) /\ t.at = "readingLoose" /\ t.stream = nextFileId /\ t.path = task[c].path
    BY <1>1, <1>2, <2>2, <2>3 DEF JobOK, Job, PickStates, ResolveStates, ReadStates
  <2>6. IndexOK' /\ StateOK'
    BY <1>3, <2>2, SameFolder, SameIndex DEF ServiceInv, StateOK
  <2> HIDE DEF t
  <2>7. openFiles'[t.stream] = FileIn(rootHandle', t.path) /\ openFiles'[t.stream] # None
    BY <2>1, <2>2, <2>5 DEF ResolveFile
  <2> HIDE DEF file
  <2>8. QED
    BY <1>2, <1>3, <1>4, <2>1, <2>2, <2>4, <2>5, <2>6, <2>7, Assemble
<1>6. CASE ResolveFile(task[c].path) = None /\ Go(c, "archived") /\ UNCHANGED dataRoot
  <2> DEFINE t == [task[c] EXCEPT !.at = "archived"]
  <2>1. Become(c, t) /\ UNCHANGED <<hasPicker, rootHandle, openFiles, nextFileId>>
    BY <1>6 DEF Go, dataRoot
  <2>2. JobOK(t) /\ t.at = "archived" /\ t.path = task[c].path
    BY <1>1, <1>2, GoArchivedFacts
  <2> HIDE DEF t
  <2>3. IndexOK' /\ StateOK'
    BY <1>3, <2>1, SameFolder, SameIndex DEF ServiceInv, StateOK
  <2>4. FileIn(rootHandle', t.path) = None
    BY <1>6, <2>1, <2>2 DEF ResolveFile
  <2>5. t.at \notin ReadStates
    BY <2>2 DEF ReadStates
  <2>6. QED
    BY <1>2, <1>3, <1>4, <2>1, <2>2, <2>3, <2>4, <2>5, Assemble
<1>7. QED
  BY <1>5, <1>6 DEF OpenLoose

LEMMA LookUpKeeps ==
  ASSUME ServiceInv, NEW c \in Calls, LookUp(c)
  PROVE  ServiceInv'
<1> DEFINE file == ResolveFile(<<files[task[c].path].archive>>)
           t == [task[c] EXCEPT !.at = "readingArchive", !.stream = nextFileId]
<1>1. task[c].at = "archived" /\ Inside(c) /\ task[c].at \notin ReadStates /\ task[c].path \in DOMAIN files
  BY AtInside DEF LookUp, Holds, ResolveStates, ReadStates
<1>2. file # None /\ OpenFile(file) /\ Become(c, t)
  BY DEF LookUp, Open
<1>3. /\ DOMAIN openFiles' = {nextFileId} /\ openFiles'[nextFileId] = file
      /\ nextFileId \in Nat /\ nextFileId' \in Nat /\ nextFileId # None
      /\ UNCHANGED <<hasPicker, rootHandle>>
  BY <1>1, <1>2, OpenedFacts
<1>4. JobOK(task[c]) /\ holder = c /\ (\A d \in Calls \ {c} : ~ Inside(d))
  BY <1>1, InsideFacts
<1>5. task[c].kind = "resolve"
  BY <1>1, <1>4 DEF JobOK, ResolveStates
<1>6. "readingArchive" \in ReadStates /\ "readingArchive" \notin PickStates
  BY DEF ReadStates, PickStates
<1>7. JobOK(t) /\ t.at = "readingArchive" /\ t.stream = nextFileId /\ t.path = task[c].path
  BY <1>1, <1>3, <1>4, <1>5 DEF JobOK, Job, PickStates, ResolveStates, ReadStates
<1> HIDE DEF t
<1>8. UNCHANGED <<holder, rootName, indexed, errors, files, module, supported>>
  BY DEF LookUp, service, gate
<1>9. IndexOK' /\ StateOK'
  BY <1>3, <1>8, SameFolder, SameIndex DEF ServiceInv, StateOK
<1>10. module = "ready" /\ rootName # None
  BY <1>1 DEF ServiceInv, GateOK, Inside
<1>11. openFiles'[t.stream] = FileIn(rootHandle', <<files'[t.path].archive>>) /\ openFiles'[t.stream] # None
  BY <1>2, <1>3, <1>7, <1>8 DEF ResolveFile
<1>12. FileIn(rootHandle', t.path) = None
  BY <1>1, <1>3, <1>7 DEF ServiceInv, ResolvesOK, ResolveFile
<1>13. t.path \in DOMAIN files'
  BY <1>1, <1>7, <1>8
<1> HIDE DEF file
<1>14. QED
  BY <1>2, <1>3, <1>4, <1>6, <1>7, <1>8, <1>9, <1>10, <1>11, <1>12, <1>13, Assemble

\* The first archive in line, and those behind it.
LEMMA HeadFacts ==
  ASSUME NEW left \in Seq(DOMAIN RankOf), left # <<>>, IsInjective(left),
         \A i, j \in DOMAIN left : i < j => RankOf[left[i]] <= RankOf[left[j]]
  PROVE  /\ Tail(left) \in Seq(DOMAIN RankOf) /\ Head(left) \in DOMAIN RankOf
         /\ Range(left) = {Head(left)} \cup Range(Tail(left)) /\ Head(left) \notin Range(Tail(left))
         /\ IsInjective(Tail(left))
         /\ \A i, j \in DOMAIN Tail(left) : i < j => RankOf[Tail(left)[i]] <= RankOf[Tail(left)[j]]
         /\ \A m \in Range(Tail(left)) : RankOf[Head(left)] <= RankOf[m]
<1> DEFINE n == Len(left)
           rest == Tail(left)
<1>1. /\ rest \in Seq(DOMAIN RankOf) /\ Len(rest) = n - 1
      /\ \A j \in 1..(n - 1) : rest[j] = left[j + 1]
      /\ Head(left) = left[1] /\ Head(left) \in DOMAIN RankOf /\ n \in Nat \ {0}
  BY TailFacts
<1> HIDE DEF rest
<1>2. DOMAIN left = 1..n /\ DOMAIN rest = 1..(n - 1)
  BY <1>1
<1> HIDE DEF n
<1>3. \A j \in 1..(n - 1) : j + 1 \in 1..n /\ j + 1 # 1 /\ 1 < j + 1
  BY <1>1
<1>4. \A j \in 1..n : j = 1 \/ (j - 1 \in 1..(n - 1) /\ (j - 1) + 1 = j)
  BY <1>1
<1>5. 1 \in 1..n
  BY <1>1
<1>6. Range(left) = {Head(left)} \cup Range(rest)
  <2>1. \A x \in Range(left) : x \in {Head(left)} \cup Range(rest)
    <3>1. ASSUME NEW j \in 1..n
          PROVE  left[j] \in {Head(left)} \cup Range(rest)
      <4>1. CASE j = 1
        BY <1>1, <4>1
      <4>2. CASE j - 1 \in 1..(n - 1) /\ (j - 1) + 1 = j
        <5>1. rest[j - 1] = left[j]
          BY <1>1, <4>2
        <5>2. QED
          BY <1>2, <4>2, <5>1 DEF Range
      <4>3. QED
        BY <1>4, <4>1, <4>2
    <3>2. QED
      BY <1>2, <3>1 DEF Range
  <2>2. \A x \in Range(rest) : x \in Range(left)
    BY <1>1, <1>2, <1>3 DEF Range
  <2>3. Head(left) \in Range(left)
    BY <1>1, <1>2, <1>5 DEF Range
  <2>4. QED
    BY <2>1, <2>2, <2>3
<1>7. Head(left) \notin Range(rest)
  <2>1. ASSUME NEW j \in 1..(n - 1), rest[j] = Head(left)
        PROVE  FALSE
    <3>1. left[j + 1] = left[1] /\ j + 1 \in 1..n /\ j + 1 # 1
      BY <1>1, <1>3, <2>1
    <3>2. QED
      BY <1>2, <1>5, <3>1 DEF IsInjective
  <2>2. QED
    BY <1>2, <2>1 DEF Range
<1>8. IsInjective(rest)
  <2>1. ASSUME NEW i \in 1..(n - 1), NEW j \in 1..(n - 1), rest[i] = rest[j]
        PROVE  i = j
    <3>1. left[i + 1] = left[j + 1] /\ i + 1 \in 1..n /\ j + 1 \in 1..n
      BY <1>1, <1>3, <2>1
    <3>2. i + 1 = j + 1
      BY <1>2, <3>1 DEF IsInjective
    <3>3. QED
      BY <3>2
  <2>2. QED
    BY <1>2, <2>1 DEF IsInjective
<1>9. ASSUME NEW i \in 1..(n - 1), NEW j \in 1..(n - 1), i < j
      PROVE  RankOf[rest[i]] <= RankOf[rest[j]]
  <2>1. i + 1 < j + 1 /\ i + 1 \in 1..n /\ j + 1 \in 1..n
    BY <1>3, <1>9
  <2>2. RankOf[left[i + 1]] <= RankOf[left[j + 1]]
    BY <1>2, <2>1
  <2>3. rest[i] = left[i + 1] /\ rest[j] = left[j + 1]
    BY <1>1
  <2>4. QED
    BY <2>2, <2>3
<1>10. \A m \in Range(rest) : RankOf[Head(left)] <= RankOf[m]
  <2>1. ASSUME NEW j \in 1..(n - 1)
        PROVE  RankOf[Head(left)] <= RankOf[rest[j]]
    <3>1. j + 1 \in 1..n /\ 1 < j + 1
      BY <1>3
    <3>2. RankOf[left[1]] <= RankOf[left[j + 1]]
      BY <1>2, <1>5, <3>1
    <3>3. rest[j] = left[j + 1] /\ Head(left) = left[1]
      BY <1>1
    <3>4. QED
      BY <3>2, <3>3
  <2>2. QED
    BY <1>2, <2>1 DEF Range
<1>11. QED
  BY <1>1, <1>2, <1>6, <1>7, <1>8, <1>9, <1>10 DEF rest

\* The plan goes on without the archive that is done, which was indexed or refused.
LEMMA NextArchiveKeeps ==
  ASSUME ServiceInv, NEW c \in Calls, Inside(c), task[c].at \in {"indexing", "reading"},
         task[c].left # <<>>, NextArchive(c),
         \/ indexed' = indexed \cup {Head(task[c].left)} /\ errors' = errors
         \/ errors' = errors \cup {Head(task[c].left)} /\ indexed' = indexed,
         UNCHANGED <<holder, rootName, module, supported>>,
         rootHandle' = rootHandle => IndexOK'
  PROVE  ServiceInv'
<1> DEFINE left == task[c].left
           h == Head(left)
           t == [task[c] EXCEPT !.at = "indexing", !.left = Tail(@), !.stream = None]
<1>1. JobOK(task[c]) /\ holder = c /\ (\A d \in Calls \ {c} : ~ Inside(d))
  BY InsideFacts
<1>2. left \in Seq(DOMAIN RankOf)
  BY <1>1 DEF JobOK, Job
<1>3. PlanOK(left)
  BY DEF ServiceInv, PicksOK
<1>4. /\ Tail(left) \in Seq(DOMAIN RankOf) /\ h \in DOMAIN RankOf
      /\ Range(left) = {h} \cup Range(Tail(left)) /\ h \notin Range(Tail(left))
      /\ IsInjective(Tail(left))
      /\ \A i, j \in DOMAIN Tail(left) : i < j => RankOf[Tail(left)[i]] <= RankOf[Tail(left)[j]]
      /\ \A m \in Range(Tail(left)) : RankOf[h] <= RankOf[m]
  <2>1. \A i, j \in DOMAIN left : i < j => RankOf[left[i]] <= RankOf[left[j]]
    BY <1>3 DEF PlanOK
  <2>2. IsInjective(left)
    BY <1>3 DEF PlanOK
  <2>3. QED
    BY <1>2, <2>1, <2>2, HeadFacts
<1>5. JobOK(t) /\ t.at = "indexing" /\ t.left = Tail(left)
  <2>1. t \in Job
    BY <1>1, <1>4 DEF JobOK, Job, PickStates
  <2>2. QED
    BY <1>1, <2>1 DEF JobOK, Job, PickStates, ResolveStates, ReadStates
<1>6. Become(c, t) /\ Disposed(c)
  BY DEF NextArchive
<1> HIDE DEF t
<1>7. DOMAIN openFiles' = {} /\ UNCHANGED <<hasPicker, rootHandle, nextFileId>>
  BY <1>6, DisposedFacts
<1>8. t.at \notin ReadStates
  BY <1>5 DEF ReadStates
<1>9. indexed \cup errors \cup {h} \cup Range(Tail(left)) = Archives
  BY <1>3, <1>4 DEF PlanOK
<1>10. Archives' = Archives
  BY <1>7, SameFolder
<1> DEFINE rest == Tail(left)
<1>11. ASSUME NEW r, r = rest
       PROVE  PlanOK(r)'
  <2>1. /\ indexed \cap errors = {} /\ h \notin indexed \cup errors
        /\ (indexed \cup errors) \cap Range(rest) = {}
    BY <1>3, <1>4 DEF PlanOK
  <2>2. \A n \in indexed : \A m \in Range(rest) : RankOf[n] <= RankOf[m]
    BY <1>3, <1>4 DEF PlanOK
  <2> HIDE DEF rest, h
  <2>3. indexed' \cup errors' \cup Range(r) = Archives'
    BY <1>9, <1>10, <1>11 DEF rest, h
  <2>4. indexed' \cap errors' = {} /\ (indexed' \cup errors') \cap Range(r) = {}
    BY <1>4, <1>11, <2>1 DEF rest, h
  <2>5. IsInjective(r) /\ \A i, j \in DOMAIN r : i < j => RankOf[r[i]] <= RankOf[r[j]]
    BY <1>4, <1>11 DEF rest
  <2>6. \A n \in indexed', m \in Range(r) : RankOf[n] <= RankOf[m]
    BY <1>4, <1>11, <2>2 DEF rest, h
  <2>7. QED
    BY <2>3, <2>4, <2>5, <2>6 DEF PlanOK
<1>12. \A r : r = t.left => PlanOK(r)'
  BY <1>5, <1>11 DEF rest
<1>13. StateOK'
  BY <1>7, <1>9, <1>10 DEF ServiceInv, StateOK
<1>14. module = "ready" /\ rootName # None
  BY DEF ServiceInv, GateOK, Inside
<1>15. QED
  BY <1>1, <1>5, <1>6, <1>7, <1>8, <1>12, <1>13, <1>14, Assemble

LEMMA UnusableKeeps ==
  ASSUME ServiceInv, NEW c \in Calls, Unusable(c)
  PROVE  ServiceInv'
<1>1. task[c].at \in {"indexing", "reading"} /\ task[c].left # <<>> /\ Inside(c)
  BY AtInside DEF Unusable, Holds, PickStates, ServiceInv, PicksOK
<1>2. NextArchive(c) /\ errors' = errors \cup {Head(task[c].left)}
      /\ UNCHANGED <<holder, rootName, indexed, files, module, supported>>
  BY DEF Unusable, gate
<1>3. ASSUME rootHandle' = rootHandle
      PROVE  IndexOK'
  <2>1. /\ Archives' = Archives /\ (\A n : FileNamed(n)' = FileNamed(n)) /\ \A n : PathsOf(n)' = PathsOf(n)
    BY <1>3, SameFolder
  <2>2. IndexIsOfRoot => IndexIsOfRoot'
    BY <1>2, <1>3, <2>1 DEF IndexIsOfRoot
  <2>3. RecordsKept => RecordsKept'
    BY <1>2, <2>1 DEF RecordsKept, Entries
  <2>4. QED
    BY <2>2, <2>3 DEF ServiceInv, IndexOK
<1>4. QED
  BY <1>1, <1>2, <1>3, NextArchiveKeeps

\* The archive that was read counts: it comes after those before it.
LEMMA ReadArchiveKeeps ==
  ASSUME ServiceInv, NEW c \in Calls, ReadArchive(c)
  PROVE  ServiceInv'
<1> DEFINE left == task[c].left
           h == Head(left)
           file == FileOf(c)
<1>1. task[c].at = "reading" /\ left # <<>> /\ Inside(c)
  BY AtInside DEF ReadArchive, Holds, PickStates, ServiceInv, PicksOK
<1>2. NextArchive(c) /\ indexed' = indexed \cup {h} /\ files' = Indexed(h, file)
      /\ UNCHANGED <<holder, rootName, errors, module, supported>>
  BY DEF ReadArchive, gate
<1>3. left \in Seq(DOMAIN RankOf) /\ h \in Range(left) /\ h \in DOMAIN RankOf
  <2>1. left \in Seq(DOMAIN RankOf)
    BY <1>1, InsideFacts DEF JobOK, Job
  <2>2. h = left[1] /\ Len(left) \in Nat \ {0} /\ h \in DOMAIN RankOf
    BY <1>1, <2>1, TailFacts
  <2>3. 1 \in DOMAIN left
    BY <2>1, <2>2
  <2>4. QED
    BY <2>1, <2>2, <2>3 DEF Range
<1>4. PlanOK(left) /\ file = ResolveFile(<<h>>) /\ file # None
  BY <1>1 DEF ServiceInv, PicksOK
<1>5. /\ h \in Archives /\ h \notin indexed
      /\ \A n \in indexed : RankOf[n] <= RankOf[h]
      /\ indexed \subseteq DOMAIN RankOf
  <2>1. h \in Archives /\ h \notin indexed
    BY <1>3, <1>4 DEF PlanOK
  <2>2. \A n \in indexed : RankOf[n] <= RankOf[h]
    BY <1>3, <1>4 DEF PlanOK
  <2>3. indexed \subseteq DOMAIN RankOf
    BY ArchivesFinite DEF ServiceInv, StateOK
  <2>4. QED
    BY <2>1, <2>2, <2>3
<1>6. RankOf[h] \in Nat /\ \A n \in indexed : RankOf[n] \in Nat
  BY <1>3, <1>5, GameDataAssumption
<1>7. ASSUME rootHandle' = rootHandle
      PROVE  IndexOK'
  <2>1. SUFFICES ASSUME ArchivesDiffer PROVE IndexIsOfRoot' /\ RecordsKept'
    BY DEF IndexOK
  <2>2. IndexIsOfRoot /\ RecordsKept
    BY <2>1 DEF ServiceInv, IndexOK
  <2>3. file = FileNamed(h)
    BY <1>4, <1>5, <2>1, ArchiveFile DEF ServiceInv, StateOK
  <2>4. (\A n : FileNamed(n)' = FileNamed(n)) /\ (\A n : PathsOf(n)' = PathsOf(n))
    BY <1>7, SameFolder
  <2> DEFINE paths == PathsOf(h)
  <2>5. /\ DOMAIN files' = paths \cup DOMAIN files
        /\ \A p \in paths : files'[p] = [archive |-> h, record |-> Entries[file][p]]
        /\ \A p \in DOMAIN files \ paths : files'[p] = files[p]
    BY <1>2, <2>3 DEF Indexed, PathsOf
  <2> HIDE DEF paths, h, file
  <2>6. DOMAIN files' = UNION {PathsOf(n)' : n \in indexed'}
    <3>1. DOMAIN files = UNION {PathsOf(n) : n \in indexed}
      BY <2>2 DEF IndexIsOfRoot
    <3>2. \A p : p \in DOMAIN files <=> \E n \in indexed : p \in PathsOf(n)
      BY <3>1
    <3>3. ASSUME NEW p
          PROVE  p \in DOMAIN files' <=> \E n \in indexed' : p \in PathsOf(n)'
      <4>1. p \in DOMAIN files' <=> p \in PathsOf(h) \/ \E n \in indexed : p \in PathsOf(n)
        BY <2>5, <3>2 DEF paths
      <4>2. QED
        BY <1>2, <2>4, <4>1
    <3>4. \A p : p \in UNION {PathsOf(n)' : n \in indexed'} <=> \E n \in indexed' : p \in PathsOf(n)'
      OBVIOUS
    <3>5. QED
      BY <3>3, <3>4
  <2>7. ASSUME NEW p \in DOMAIN files', NEW n \in indexed', p \in PathsOf(n)'
        PROVE  RankOf[n] <= RankOf[files'[p].archive]
    <3>1. n = h \/ n \in indexed
      BY <1>2
    <3>2. CASE p \in paths
      <4>1. files'[p].archive = h
        BY <2>5, <3>2
      <4>2. RankOf[h] <= RankOf[h]
        BY <1>6
      <4>3. QED
        BY <1>5, <3>1, <4>1, <4>2
    <3>3. CASE p \notin paths
      <4>1. n \in indexed /\ p \in PathsOf(n) /\ p \in DOMAIN files /\ files'[p] = files[p]
        BY <2>4, <2>5, <2>7, <3>1, <3>3 DEF paths
      <4>2. QED
        BY <2>2, <4>1 DEF IndexIsOfRoot
    <3>4. QED
      BY <3>2, <3>3
  <2>8. ASSUME NEW p \in DOMAIN files'
        PROVE  /\ files'[p].archive \in indexed'
               /\ p \in DOMAIN Entries[FileNamed(files'[p].archive)]
               /\ files'[p].record = Entries[FileNamed(files'[p].archive)][p]
    <3>1. CASE p \in paths
      <4>1. files'[p].archive = h /\ files'[p].record = Entries[file][p]
        BY <2>5, <3>1
      <4>2. QED
        BY <1>2, <2>3, <3>1, <4>1 DEF paths, PathsOf
    <3>2. CASE p \notin paths
      <4>1. p \in DOMAIN files /\ files'[p] = files[p]
        BY <2>5, <3>2
      <4>2. QED
        BY <1>2, <2>2, <4>1 DEF RecordsKept, PathsOf
    <3>3. QED
      BY <3>1, <3>2
  <2>9. IndexIsOfRoot'
    <3>1. rootName' = rootHandle'
      BY <1>2, <1>7 DEF ServiceInv, StateOK
    <3>2. QED
      BY <2>6, <2>7, <3>1 DEF IndexIsOfRoot
  <2>10. RecordsKept'
    <3>1. rootHandle' = rootHandle
      BY <1>7
    <3>2. ASSUME NEW p \in DOMAIN files', NEW n, n = files'[p].archive
          PROVE  n \in indexed' /\ p \in PathsOf(n)' /\ files'[p].record = Entries[FileNamed(n)'][p]
      BY <2>4, <2>8, <3>2 DEF PathsOf
    <3>3. QED
      BY <3>2 DEF RecordsKept, Entries
  <2>11. QED
    BY <2>9, <2>10
<1>8. QED
  BY <1>1, <1>2, <1>7, NextArchiveKeeps

\* The steps that end a call.
Ends(c) ==
  \/ Hopeless(c) \/ NotPicked(c) \/ NotListed(c) \/ AllIndexed(c) \/ IndexingThrows(c)
  \/ ResolveThrows(c) \/ NotFound(c) \/ ReadLoose(c) \/ ReadEntry(c)

LEMMA EndsFacts ==
  ASSUME ServiceInv, NEW c \in Calls, Ends(c)
  PROVE  Inside(c) /\ \E result : Return(c, result)
<1>1. CASE Hopeless(c)
  BY <1>1 DEF Hopeless, Inside
<1>2. CASE NotPicked(c) \/ NotListed(c) \/ AllIndexed(c) \/ IndexingThrows(c)
  <2>1. task[c].at \in PickStates
    BY <1>2 DEF NotPicked, NotListed, AllIndexed, IndexingThrows, Holds, PickStates
  <2>2. QED
    BY <1>2, <2>1, AtInside DEF NotPicked, NotListed, AllIndexed, IndexingThrows
<1>3. CASE ResolveThrows(c) \/ NotFound(c) \/ ReadLoose(c) \/ ReadEntry(c)
  <2>1. task[c].at \in ResolveStates
    BY <1>3 DEF ResolveThrows, NotFound, ReadLoose, ReadEntry, Holds, ResolveStates
  <2>2. \E result : Return(c, result)
    BY <1>3 DEF ResolveThrows, NotFound, ReadLoose, ReadEntry
  <2>3. QED
    BY <2>1, <2>2, AtInside
<1>4. QED
  BY <1>1, <1>2, <1>3 DEF Ends

LEMMA EndsKeeps ==
  ASSUME ServiceInv, NEW c \in Calls, Ends(c)
  PROVE  ServiceInv'
<1>1. Inside(c) /\ \E result : Return(c, result)
  BY EndsFacts
<1>2. QED
  BY <1>1, ReturnKeeps

\* What a step of the service is.
LEMMA StepCases ==
  ASSUME ServiceInv, Next
  PROVE  \/ \E c \in Calls :
              \/ \E kind \in {"pick", "resolve"}, path \in Paths \cup {None} :
                   Call(c, kind, path) /\ (kind = "pick" => path = None) /\ (kind = "resolve" => path \in Paths)
              \/ CallInitialize(c) \/ Refuse(c) \/ Leave(c) \/ Resume(c) \/ Initialized(c) \/ Proceed(c)
              \/ (\E root \in Roots : Picked(c, root)) \/ Listed(c) \/ OpenArchive(c) \/ ReadArchive(c) \/ Unusable(c)
              \/ OpenLoose(c) \/ LookUp(c) \/ StartImport(c) \/ Ends(c)
         \/ \E ok \in BOOLEAN : Imported(ok)
<1>1. ASSUME NEW c \in Calls, Start(c)
      PROVE  \/ \E kind \in {"pick", "resolve"}, path \in Paths \cup {None} :
                  Call(c, kind, path) /\ (kind = "pick" => path = None) /\ (kind = "resolve" => path \in Paths)
             \/ CallInitialize(c) \/ Refuse(c)
  <2>1. CASE Call(c, "pick", None)
    BY <2>1
  <2>2. CASE \E path \in Paths : Call(c, "resolve", path)
    BY <2>2
  <2>3. QED
    BY <1>1, <2>1, <2>2 DEF Start
<1>2. QED
  BY <1>1 DEF Next, Step, Answer, Ends

LEMMA InitHolds == Init => ServiceInv
<1> SUFFICES ASSUME Init PROVE ServiceInv
  OBVIOUS
<1>1. /\ holder = NoOne /\ rootHandle = None /\ openFiles = <<>> /\ nextFileId = 1
      /\ rootName = None /\ indexed = {} /\ errors = {} /\ files = <<>> /\ supported = None
      /\ task = [c \in Calls |-> Free]
  BY DEF Init, GateInit, DataRootInit
<1>2. \A c \in Calls : task[c].at = "free" /\ task[c] = Free
  BY <1>1 DEF Free
<1>3. TasksOK /\ GateOK /\ PicksOK /\ ResolvesOK
  BY <1>1, <1>2 DEF TasksOK, GateOK, Inside, PicksOK, ResolvesOK
<1>4. OpenWhileRead
  BY <1>1, <1>2 DEF OpenWhileRead
<1>5. IndexOK /\ StateOK
  BY <1>1 DEF IndexOK, IndexIsOfRoot, RecordsKept, StateOK
<1>6. QED
  BY <1>3, <1>4, <1>5 DEF ServiceInv

LEMMA NextKeeps == ServiceInv /\ [Next]_vars => ServiceInv'
<1> SUFFICES ASSUME ServiceInv, [Next]_vars PROVE ServiceInv'
  OBVIOUS
<1>1. CASE UNCHANGED vars
  <2>1. UNCHANGED <<holder, rootName, indexed, errors, files, supported, dataRoot, task>> /\ module' = module
    BY <1>1 DEF vars, service, gate
  <2>2. QED
    BY <2>1, ModuleStep
<1>2. ASSUME NEW ok \in BOOLEAN, Imported(ok)
      PROVE  ServiceInv'
  <2>1. UNCHANGED <<holder, rootName, indexed, errors, files, supported, dataRoot, task>> /\ module # "ready"
    BY <1>2 DEF Imported, gate
  <2>2. QED
    BY <2>1, ModuleStep
<1>3. ASSUME NEW c \in Calls, StartImport(c)
      PROVE  ServiceInv'
  <2>1. UNCHANGED <<holder, rootName, indexed, errors, files, supported, dataRoot, task>> /\ module # "ready"
    BY <1>3 DEF StartImport, gate
  <2>2. QED
    BY <2>1, ModuleStep
<1>4. ASSUME Next
      PROVE  ServiceInv'
  <2>1. CASE \E ok \in BOOLEAN : Imported(ok)
    BY <1>2, <2>1
  <2>2. ASSUME NEW c \in Calls, NEW kind \in {"pick", "resolve"}, NEW path \in Paths \cup {None},
               Call(c, kind, path), kind = "resolve" => path \in Paths
        PROVE  ServiceInv'
    BY <2>2, CallKeeps
  <2>3. QED
    BY <1>3, <1>4, <2>1, <2>2, StepCases, CallInitializeKeeps, RefuseKeeps, LeaveKeeps, ResumeKeeps,
       InitializedKeeps, ProceedKeeps, PickedKeeps, ListedKeeps, OpenArchiveKeeps, ReadArchiveKeeps,
       UnusableKeeps, OpenLooseKeeps, LookUpKeeps, EndsKeeps
<1>5. QED
  BY <1>1, <1>4

-----------------------------------------------------------------------------
(* The theorems                                                            *)

\* GameDataService and dataRoot.ts: one call at a time is past the gate, what it keeps
\* is what it needs, and the index is that of the folder.
THEOREM ServiceInvariant == Spec => []ServiceInv
<1>1. QED
  BY InitHolds, NextKeeps, PTL DEF Spec

\* SeekablePullFromJSDataStream: a file of the browser is open while a call reads it, and
\* then only.
THEOREM FilesOpenWhileRead == Spec => []OpenWhileRead
<1>1. ServiceInv => OpenWhileRead
  BY DEF ServiceInv
<1>2. QED
  BY <1>1, ServiceInvariant, PTL

\* README.md:255: the index is that of the folder picked last, and the last archive in
\* filename order counts, if the names of the archives differ in more than case.
THEOREM IndexOfRoot ==
  ASSUME ArchivesDiffer
  PROVE  Spec => []IndexIsOfRoot
<1>1. ServiceInv => IndexIsOfRoot
  BY DEF ServiceInv, IndexOK
<1>2. QED
  BY <1>1, ServiceInvariant, PTL

\* A pick that ends while it indexes is through with its archives, or was ended by one.
LEMMA PickEnds ==
  ASSUME ServiceInv, Next, NEW c \in Calls, task[c].at \in {"indexing", "reading"}, task'[c].at = "done"
  PROVE  IF task'[c].result = TRUE
         THEN Archives = indexed \cup errors /\ indexed \cap errors = {}
         ELSE Archived[FileOf(c)].outcome = "Argument"
<1>1. ASSUME NEW t, Become(c, t)
      PROVE  task'[c] = t
  BY <1>1, OneCall DEF ServiceInv
<1>2. \A d \in Calls \ {c} : \A t : ~ Become(d, t)
  BY OneCall DEF ServiceInv
<1>3. ~ UNCHANGED task
  OBVIOUS
<1>4. PICK d \in Calls :
        \/ \E kind \in {"pick", "resolve"}, path \in Paths \cup {None} : Call(d, kind, path)
        \/ CallInitialize(d) \/ Refuse(d) \/ Leave(d) \/ Resume(d) \/ Initialized(d) \/ Proceed(d)
        \/ (\E root \in Roots : Picked(d, root)) \/ Listed(d) \/ OpenArchive(d) \/ ReadArchive(d) \/ Unusable(d)
        \/ OpenLoose(d) \/ LookUp(d) \/ Ends(d)
  <2>1. ~ \E ok \in BOOLEAN : Imported(ok)
    BY <1>3 DEF Imported
  <2>2. \A d \in Calls : ~ StartImport(d)
    BY <1>3 DEF StartImport
  <2>3. QED
    BY <2>1, <2>2, StepCases
<1>5. d = c
  BY <1>2, <1>4 DEF Call, CallInitialize, Refuse, Leave, Resume, Initialized, Proceed, Picked, Listed, OpenArchive,
     ReadArchive, Unusable, OpenLoose, LookUp, Ends, Hopeless, NotPicked, NotListed, AllIndexed, IndexingThrows,
     ResolveThrows, NotFound, ReadLoose, ReadEntry, Go, Open, NextArchive, Return
<1>6. Ends(c)
  <2>1. ~ Unusable(c) /\ ~ ReadArchive(c) /\ ~ OpenArchive(c)
    <3>1. JobOK(task[c])
      BY InsideFacts, AtInside DEF PickStates
    <3>2. ASSUME NextArchive(c)
          PROVE  FALSE
      BY <1>1, <3>1, <3>2 DEF NextArchive, JobOK, Job
    <3>3. ASSUME NEW path, Open(c, path, "reading")
          PROVE  FALSE
      BY <1>1, <3>1, <3>3 DEF Open, JobOK, Job
    <3>4. QED
      BY <3>2, <3>3 DEF Unusable, ReadArchive, OpenArchive
  <2>2. task[c] # Free
    BY DEF Free
  <2>3. ~ CallInitialize(c) /\ ~ Refuse(c) /\ \A kind, path : ~ Call(c, kind, path)
    BY <2>2 DEF Call, CallInitialize, Refuse
  <2>4. ~ Leave(c) /\ ~ Resume(c) /\ ~ Initialized(c) /\ ~ Proceed(c)
    BY DEF Leave, Resume, Initialized, Proceed, Holds
  <2>5. ~ Listed(c) /\ ~ OpenLoose(c) /\ ~ LookUp(c) /\ \A root \in Roots : ~ Picked(c, root)
    BY DEF Picked, Listed, OpenLoose, LookUp, Holds
  <2>6. QED
    BY <1>4, <1>5, <2>1, <2>3, <2>4, <2>5
<1>7. AllIndexed(c) \/ IndexingThrows(c)
  BY <1>6 DEF Ends, Hopeless, NotPicked, NotListed, ResolveThrows, NotFound, ReadLoose, ReadEntry, Holds
<1>8. CASE AllIndexed(c)
  <2>1. task[c].left = <<>> /\ Return(c, TRUE)
    BY <1>8 DEF AllIndexed
  <2>2. task'[c].result = TRUE
    BY <1>1, <2>1 DEF Return, Result
  <2>3. PlanOK(task[c].left)
    BY DEF ServiceInv, PicksOK
  <2>4. Range(task[c].left) = {}
    BY <2>1 DEF Range
  <2>5. QED
    BY <2>2, <2>3, <2>4 DEF PlanOK
<1>9. CASE IndexingThrows(c)
  <2>1. Archived[FileOf(c)].outcome = "Argument" /\ Return(c, Failed)
    BY <1>9 DEF IndexingThrows
  <2>2. task'[c].result = Failed
    BY <1>1, <2>1 DEF Return, Result
  <2>3. QED
    BY <2>1, <2>2, GameDataAssumption
<1>10. QED
  BY <1>7, <1>8, <1>9

\* README.md:258: the archives of a folder are indexed or listed, all of them, when a pick
\* goes through, and only an archive with two equal hashes ends one that does not.
THEOREM OthersStayAvailable == Spec => OthersRemain
<1>1. ServiceInv /\ [Next]_vars =>
        [\A c \in Calls :
           task[c].at \in {"indexing", "reading"} /\ task'[c].at = "done" =>
             IF task'[c].result = TRUE
             THEN Archives = indexed \cup errors /\ indexed \cap errors = {}
             ELSE Archived[FileOf(c)].outcome = "Argument"]_vars
  BY PickEnds
<1>2. QED
  BY <1>1, ServiceInvariant, PTL DEF Spec, OthersRemain

-----------------------------------------------------------------------------
(* The folders down a path, against every folder that is there             *)

\* What a set has at 0 and keeps from one number to the next, it has up to n.
LEMMA StepByStep ==
  ASSUME NEW n \in Nat, NEW S, 0 \in S, \A i \in 1..n : i - 1 \in S => i \in S
  PROVE  0..n \subseteq S
<1> DEFINE Bad == 0..n \ S
<1>1. SUFFICES ASSUME Bad # {} PROVE FALSE
  OBVIOUS
<1>2. PICK m \in Bad : \A i \in Bad : m <= i
  <2>1. Bad \in SUBSET Nat
    OBVIOUS
  <2> HIDE DEF Bad
  <2>2. QED
    BY <1>1, <2>1, MinFacts
<1>3. m \in 1..n
  OBVIOUS
<1>4. m - 1 \in 0..n /\ ~ (m <= m - 1)
  BY <1>3
<1>5. m - 1 \in S
  BY <1>2, <1>4
<1>6. QED
  BY <1>3, <1>5

\* A scan finds something if there is something of that name, in whatever case.
LEMMA ChildIsWithin ==
  ASSUME NEW folder \in DOMAIN Listing, NEW name, NEW kind
  PROVE  IF Within(folder, name, kind) = {} THEN GetChild(folder, name, kind) = None
         ELSE GetChild(folder, name, kind) # None /\ GetChild(folder, name, kind) \in Within(folder, name, kind)
<1> DEFINE list == Listing[folder]
           found == GetChild(folder, name, kind)
<1>1. \A i \in DOMAIN list : list[i] \in ToSet(list) /\ list[i].item # None
  BY DataRootAssumption DEF ToSet
<1>2. CASE Children(folder, name, kind) = {}
  <2>1. found = None
    BY <1>2 DEF GetChild, FirstOf, Exact
  <2>2. Within(folder, name, kind) = {}
    BY <1>2 DEF Within, Children, ToSet
  <2>3. QED
    BY <2>1, <2>2
<1>3. CASE Children(folder, name, kind) # {}
  <2> DEFINE places == IF Exact(folder, name, kind) # {} THEN Exact(folder, name, kind)
                       ELSE Children(folder, name, kind)
  <2>1. places # {} /\ places \subseteq Children(folder, name, kind)
    BY <1>3 DEF Exact
  <2>2. found = list[Min(places)].item
    BY <2>1 DEF GetChild, FirstOf
  <2>3. list \in Seq(ToSet(list))
    BY DataRootAssumption
  <2>4. places \in SUBSET Nat
    BY <2>1, <2>3 DEF Children
  <2> HIDE DEF places
  <2>5. Min(places) \in Children(folder, name, kind)
    BY <2>1, <2>4, MinFacts
  <2>6. found # None
    BY <1>1, <2>2, <2>5 DEF Children
  <2>7. PICK i \in DOMAIN list : found = list[i].item /\ LowerOf[list[i].name] = name /\ list[i].kind = kind
    BY <2>2, <2>5 DEF Children
  <2>8. found \in Within(folder, name, kind)
    BY <1>1, <2>7 DEF Within
  <2>9. QED
    BY <2>6, <2>8
<1>4. QED
  BY <1>2, <1>3

\* Within a folder are files and folders.
LEMMA WithinFolders ==
  ASSUME NEW folder \in DOMAIN Listing, NEW name
  PROVE  Within(folder, name, "directory") \subseteq DOMAIN Listing
BY DataRootAssumption DEF Within

\* The routes to a folder.
IsRoute(route, root, path, n) ==
  /\ route \in [0..n -> DOMAIN Listing]
  /\ route[0] = root
  /\ \A i \in 1..n : route[i] \in Within(route[i - 1], path[i], "directory")

LEMMA FoldersAtFacts ==
  ASSUME NEW root, NEW path, NEW n \in Nat
  PROVE  /\ \A g : g \in FoldersAt(root, path, n) <=> \E route : IsRoute(route, root, path, n) /\ g = route[n]
         /\ FoldersAt(root, path, n) \subseteq DOMAIN Listing
<1>1. \A g : g \in FoldersAt(root, path, n) <=> \E route : IsRoute(route, root, path, n) /\ g = route[n]
  BY DEF FoldersAt, IsRoute
<1>2. \A route : IsRoute(route, root, path, n) => route[n] \in DOMAIN Listing
  BY DEF IsRoute
<1>3. QED
  BY <1>1, <1>2

LEMMA FoldersAtRoot ==
  ASSUME NEW root \in DOMAIN Listing, NEW path
  PROVE  FoldersAt(root, path, 0) = {root}
<1>1. IsRoute([i \in 0..0 |-> root], root, path, 0) /\ [i \in 0..0 |-> root][0] = root
  BY DEF IsRoute
<1>2. \A route : IsRoute(route, root, path, 0) => route[0] = root
  BY DEF IsRoute
<1>3. \A g : g \in FoldersAt(root, path, 0) <=> g = root
  BY <1>1, <1>2, FoldersAtFacts
<1>4. QED
  BY <1>3

LEMMA FoldersAtNext ==
  ASSUME NEW root, NEW path, NEW n \in Nat, n # 0
  PROVE  \A g : g \in FoldersAt(root, path, n) <=>
           \E f \in FoldersAt(root, path, n - 1) : g \in Within(f, path[n], "directory")
<1>1. n - 1 \in Nat /\ n - 1 \in 0..n /\ n \in 0..n /\ n \in 1..n
  OBVIOUS
<1>2. ASSUME NEW g \in FoldersAt(root, path, n)
      PROVE  \E f \in FoldersAt(root, path, n - 1) : g \in Within(f, path[n], "directory")
  <2>1. PICK route : IsRoute(route, root, path, n) /\ g = route[n]
    BY <1>2, FoldersAtFacts
  <2> DEFINE front == [i \in 0..(n - 1) |-> route[i]]
  <2>2. IsRoute(front, root, path, n - 1)
    <3>1. \A i \in 0..(n - 1) : i \in 0..n
      OBVIOUS
    <3>2. \A i \in 1..(n - 1) : i \in 1..n /\ i \in 0..(n - 1) /\ i - 1 \in 0..(n - 1)
      OBVIOUS
    <3>3. 0 \in 0..(n - 1)
      BY <1>1
    <3>4. front \in [0..(n - 1) -> DOMAIN Listing]
      BY <2>1, <3>1 DEF IsRoute
    <3>5. \A i \in 1..(n - 1) : front[i] = route[i] /\ front[i - 1] = route[i - 1]
      BY <3>2
    <3>6. front[0] = route[0]
      BY <3>3
    <3> HIDE DEF front
    <3>7. QED
      BY <2>1, <3>2, <3>4, <3>5, <3>6 DEF IsRoute
  <2>3. front[n - 1] = route[n - 1]
    BY <1>1
  <2> HIDE DEF front
  <2>4. route[n - 1] \in FoldersAt(root, path, n - 1)
    BY <1>1, <2>2, <2>3, FoldersAtFacts
  <2>5. route[n] \in Within(route[n - 1], path[n], "directory")
    BY <1>1, <2>1 DEF IsRoute
  <2>6. QED
    BY <2>1, <2>4, <2>5
<1>3. ASSUME NEW f \in FoldersAt(root, path, n - 1), NEW g \in Within(f, path[n], "directory")
      PROVE  g \in FoldersAt(root, path, n)
  <2>1. PICK route : IsRoute(route, root, path, n - 1) /\ f = route[n - 1]
    BY <1>1, <1>3, FoldersAtFacts
  <2>2. f \in DOMAIN Listing /\ g \in DOMAIN Listing
    BY <1>1, <1>3, FoldersAtFacts, WithinFolders
  <2> DEFINE longer == [i \in 0..n |-> IF i = n THEN g ELSE route[i]]
  <2>3. \A i \in 0..n : i = n \/ i \in 0..(n - 1)
    OBVIOUS
  <2>4. \A i \in 1..n : i \in 0..n /\ i - 1 \in 0..n /\ i - 1 # n /\ (i = n \/ i \in 1..(n - 1))
    OBVIOUS
  <2>5. longer \in [0..n -> DOMAIN Listing]
    BY <2>1, <2>2, <2>3 DEF IsRoute
  <2>6. \A i \in 1..n : longer[i - 1] = route[i - 1] /\ longer[i] = IF i = n THEN g ELSE route[i]
    BY <2>4
  <2>7. longer[0] = route[0] /\ longer[n] = g
    BY <1>1
  <2> HIDE DEF longer
  <2>8. \A i \in 1..n : longer[i] \in Within(longer[i - 1], path[i], "directory")
    BY <1>3, <2>1, <2>4, <2>6 DEF IsRoute
  <2>9. IsRoute(longer, root, path, n)
    BY <2>1, <2>5, <2>7, <2>8 DEF IsRoute
  <2>10. QED
    BY <2>7, <2>9, FoldersAtFacts
<1>4. QED
  BY <1>2, <1>3

\* What is left of a path.
LEMMA WithoutFacts ==
  ASSUME NEW S, NEW s \in Seq(S), s # <<>>, NEW x
  PROVE  LET r == Without(s, x) IN
         /\ r \in Seq(S) /\ r # <<>>
         /\ \A j \in 1..Len(r) : \E i \in 1..Len(s) : r[j] = s[i]
         /\ r[1] # x \/ Len(r) = 1
         /\ s[1] # x \/ Len(s) = 1 => r = s
         /\ (\E i \in 1..Len(s) : s[i] # x) => r[1] # x
<1> DEFINE n == Len(s)
           places == {i \in 1..n : s[i] # x \/ i = n}
           m == Min(places)
           r == SubSeq(s, m, n)
<1>1. n \in Nat \ {0} /\ DOMAIN s = 1..n /\ \A i \in 1..n : s[i] \in S
  BY EmptySeq
<1>2. m \in places /\ \A i \in places : m <= i
  <2>1. places \in SUBSET Nat /\ n \in places
    BY <1>1
  <2> HIDE DEF places
  <2>2. QED
    BY <2>1, MinFacts
<1>3. Without(s, x) = r
  BY <1>1, Zenon DEF Without
<1>4. m \in 1..n /\ (s[m] # x \/ m = n) /\ \A i \in 1..n : s[i] # x \/ i = n => m <= i
  BY <1>2
<1> HIDE DEF m, n
<1>5. /\ r \in Seq(S)
      /\ Len(r) = n - m + 1
      /\ \A i \in 1..(n - m + 1) : r[i] = s[m + i - 1]
  <2>1. m \in Int /\ n \in Int /\ m <= n /\ \A i \in m..n : s[i] \in S
    BY <1>1, <1>4
  <2>2. QED
    BY <2>1, SubSeqProperties
<1> HIDE DEF r
<1>6. Len(r) \in Nat \ {0} /\ 1 \in 1..(n - m + 1) /\ \A j \in 1..(n - m + 1) : m + j - 1 \in 1..n
  BY <1>1, <1>4, <1>5
<1>7. r[1] = s[m]
  BY <1>4, <1>5, <1>6
<1>8. r # <<>>
  BY <1>6
<1>9. \A j \in 1..Len(r) : \E i \in 1..n : r[j] = s[i]
  BY <1>5, <1>6
<1>10. r[1] # x \/ Len(r) = 1
  BY <1>1, <1>4, <1>5, <1>7
<1>11. ASSUME s[1] # x \/ n = 1
       PROVE  r = s
  <2>1. m = 1
    BY <1>1, <1>4, <1>11
  <2>2. Len(r) = Len(s) /\ \A i \in 1..n : r[i] = s[i]
    BY <1>1, <1>5, <2>1 DEF n
  <2>3. QED
    BY <1>5, <2>2, SeqEqual DEF n
<1>12. ASSUME NEW i \in 1..n, s[i] # x
       PROVE  r[1] # x
  BY <1>1, <1>4, <1>7, <1>12
<1>13. QED
  BY <1>3, <1>5, <1>8, <1>9, <1>10, <1>11, <1>12 DEF n

\* A path that is not refused is in its normal form, and has neither empty segments nor
\* any that lead elsewhere.
LEMMA PathFacts ==
  ASSUME NEW path \in Paths
  PROVE  /\ path # <<>> /\ Len(path) \in Nat \ {0} /\ DOMAIN path = 1..Len(path)
         /\ NormalizeDataPath(path) = path
         /\ \A i \in 1..Len(path) : path[i] # Blank /\ path[i] \notin Outside
<1>1. PICK r \in Requests : NormalizePath(r) = path /\ path # None
  BY DEF Paths
<1>2. r \in Seq(DOMAIN LowerOf) /\ r # <<>>
  BY GameDataAssumption
<1> DEFINE lower == [i \in DOMAIN r |-> LowerOf[r[i]]]
           S == {LowerOf[x] : x \in DOMAIN LowerOf}
           trimmed == Without(lower, Blank)
<1>3. lower \in Seq(S) /\ lower # <<>>
  <2>1. Len(r) \in Nat \ {0} /\ DOMAIN r = 1..Len(r) /\ \A i \in 1..Len(r) : r[i] \in DOMAIN LowerOf
    BY <1>2, EmptySeq
  <2>2. lower \in [1..Len(r) -> S]
    BY <2>1
  <2>3. DOMAIN lower # {}
    BY <2>1
  <2>4. DOMAIN <<>> = {}
    OBVIOUS
  <2> HIDE DEF lower, S
  <2>5. lower \in Seq(S)
    BY <2>1, <2>2
  <2>6. QED
    BY <2>3, <2>4, <2>5
<1>4. \A x \in S : LowerOf[x] = x
  BY DataRootAssumption
<1> HIDE DEF S, lower
<1> HIDE DEF trimmed
<1>5. trimmed \in Seq(S) /\ trimmed # <<>>
  <2>1. trimmed = Without(lower, Blank)
    BY DEF trimmed
  <2>2. \A x : \A s \in Seq(S) : s # <<>> => Without(s, x) \in Seq(S) /\ Without(s, x) # <<>>
    BY WithoutFacts
  <2>3. QED
    BY <1>3, <2>1, <2>2
<1> DEFINE p == Without(trimmed, "data")
<1>6. p \in Seq(S) /\ p # <<>> /\ (p[1] # "data" \/ Len(p) = 1)
  BY <1>5, WithoutFacts
<1>7. NormalizeDataPath(r) = p
  BY DEF NormalizeDataPath, lower, trimmed
<1> HIDE DEF p
<1>8. p = path /\ \A i \in DOMAIN p : p[i] \notin Outside \cup {Blank}
  BY <1>1, <1>7 DEF NormalizePath
<1>9. Len(p) \in Nat \ {0} /\ DOMAIN p = 1..Len(p) /\ \A i \in 1..Len(p) : p[i] \in S
  BY <1>6, EmptySeq
<1>10. [i \in DOMAIN p |-> LowerOf[p[i]]] = p
  <2>1. \A i \in DOMAIN p : LowerOf[p[i]] = p[i]
    BY <1>4, <1>9
  <2>2. p = [i \in DOMAIN p |-> p[i]]
    BY <1>6
  <2>3. QED
    BY <2>1, <2>2
<1>11. p[1] # Blank /\ p[1] \notin Outside
  <2>1. 1 \in DOMAIN p
    BY <1>9
  <2>2. QED
    BY <1>8, <2>1
<1>12. Without(p, Blank) = p
  BY <1>6, <1>11, WithoutFacts
<1>13. Without(p, "data") = p
  BY <1>6, WithoutFacts
<1>14. NormalizeDataPath(p) = p
  BY <1>10, <1>12, <1>13 DEF NormalizeDataPath
<1>15. QED
  BY <1>6, <1>8, <1>9, <1>14

\* The file at a path that is not refused: the walk takes every segment but the last.
LEMMA ResolveFacts ==
  ASSUME NEW path \in Paths, NEW root
  PROVE  LET last == FoldersOn(root, path)[Len(path) - 1] IN
         FileIn(root, path) = IF last = None THEN None ELSE GetChild(last, path[Len(path)], "file")
<1> DEFINE named == {i \in DOMAIN path : path[i] # Blank}
           n == Len(path)
<1>1. /\ n \in Nat \ {0} /\ DOMAIN path = 1..n /\ NormalizeDataPath(path) = path
      /\ \A i \in 1..n : path[i] # Blank /\ path[i] \notin Outside
  BY PathFacts
<1>2. named = 1..n
  BY <1>1
<1> HIDE DEF named, n
<1>3. Max(named) = n
  <2>1. n \in 1..n /\ \A y \in 1..n : n >= y
    BY <1>1
  <2>2. \A x \in 1..n : (\A y \in 1..n : x >= y) => x = n
    BY <1>1
  <2>3. QED
    BY <1>2, <2>1, <2>2 DEF Max
<1>4. named # {}
  BY <1>1, <1>2
<1>5. ~ \E i \in DOMAIN path : path[i] \in Outside
  BY <1>1
<1>6. FileIn(root, path) =
        IF named = {} \/ (\E i \in DOMAIN path : path[i] \in Outside) \/ FoldersOn(root, path)[Max(named) - 1] = None
        THEN None ELSE GetChild(FoldersOn(root, path)[Max(named) - 1], path[Max(named)], "file")
  BY <1>1, Zenon DEF FileIn, named
<1>7. QED
  BY <1>3, <1>4, <1>5, <1>6 DEF n

\* The walk is at a folder of that path, or nowhere; if the path has no twins it is
\* nowhere only if there is no such folder.
LEMMA WalkFacts ==
  ASSUME NEW path \in Paths, NEW root \in DOMAIN Listing, NEW n \in 0..(Len(path) - 1)
  PROVE  LET at == FoldersOn(root, path)[n] IN
         /\ at = None \/ at \in FoldersAt(root, path, n)
         /\ ~ Twins(root, path) => \A g \in FoldersAt(root, path, n) : at = g
<1> DEFINE walk == FoldersOn(root, path)
           m == Len(path) - 1
<1>1. /\ m \in Nat /\ n \in 0..m /\ \A i \in 1..m : i \in 1..Len(path)
      /\ \A i \in 1..Len(path) : path[i] # Blank
  BY PathFacts
<1>2. /\ walk[0] = root
      /\ \A i \in 1..m : walk[i] = IF walk[i - 1] = None THEN None ELSE GetChild(walk[i - 1], path[i], "directory")
  <2>1. Len(path) \in Nat
    BY PathFacts
  <2>2. /\ walk[0] = root
        /\ \A i \in 1..Len(path) : walk[i] = IF walk[i - 1] = None \/ path[i] = Blank THEN walk[i - 1]
                                             ELSE GetChild(walk[i - 1], path[i], "directory")
    BY <2>1, FoldersFacts
  <2> HIDE DEF walk
  <2>3. QED
    BY <1>1, <2>2
<1> HIDE DEF walk, m
<1> DEFINE Right == {i \in 0..m : walk[i] = None \/ walk[i] \in FoldersAt(root, path, i)}
           Whole == {i \in 0..m : \A g \in FoldersAt(root, path, i) : walk[i] = g}
<1>3. 0..m \subseteq Right
  <2>1. 0 \in Right
    BY <1>1, <1>2, FoldersAtRoot
  <2>2. ASSUME NEW i \in 1..m, i - 1 \in Right
        PROVE  i \in Right
    <3>1. i \in Nat /\ i # 0 /\ i \in 0..m /\ i - 1 \in Nat
      BY <1>1
    <3>2. CASE walk[i - 1] = None
      BY <1>2, <3>1, <3>2
    <3>3. CASE walk[i - 1] \in FoldersAt(root, path, i - 1)
      <4>1. walk[i - 1] \in DOMAIN Listing
        BY <3>1, <3>3, FoldersAtFacts
      <4>2. walk[i] = GetChild(walk[i - 1], path[i], "directory")
        BY <1>2, <4>1, DataRootAssumption
      <4>3. walk[i] = None \/ walk[i] \in Within(walk[i - 1], path[i], "directory")
        BY <4>1, <4>2, ChildIsWithin
      <4>4. walk[i] \in Within(walk[i - 1], path[i], "directory") => walk[i] \in FoldersAt(root, path, i)
        BY <3>1, <3>3, FoldersAtNext
      <4>5. QED
        BY <3>1, <4>3, <4>4
    <3>4. QED
      BY <2>2, <3>2, <3>3
  <2> HIDE DEF Right
  <2>3. QED
    BY <1>1, <2>1, <2>2, StepByStep
<1>4. ASSUME ~ Twins(root, path)
      PROVE  0..m \subseteq Whole
  <2>1. 0 \in Whole
    BY <1>1, <1>2, FoldersAtRoot
  <2>2. ASSUME NEW i \in 1..m, i - 1 \in Whole
        PROVE  i \in Whole
    <3>1. i \in Nat /\ i # 0 /\ i \in 0..m /\ i - 1 \in Nat
      BY <1>1
    <3>2. ASSUME NEW g \in FoldersAt(root, path, i)
          PROVE  walk[i] = g
      <4>1. PICK f \in FoldersAt(root, path, i - 1) : g \in Within(f, path[i], "directory")
        BY <3>1, <3>2, FoldersAtNext
      <4>2. walk[i - 1] = f /\ f \in DOMAIN Listing
        BY <2>2, <3>1, <4>1, FoldersAtFacts
      <4>3. walk[i] = GetChild(f, path[i], "directory")
        BY <1>2, <4>2, DataRootAssumption
      <4>4. walk[i] \in Within(f, path[i], "directory")
        BY <4>1, <4>2, <4>3, ChildIsWithin
      <4>5. walk[i] \in FoldersAt(root, path, i)
        BY <3>1, <4>1, <4>4, FoldersAtNext
      <4>6. QED
        BY <1>4, <3>1, <4>5 DEF Twins, m
    <3>3. QED
      BY <3>1, <3>2
  <2> HIDE DEF Whole
  <2>3. QED
    BY <1>1, <2>1, <2>2, StepByStep
<1>5. walk[n] = None \/ walk[n] \in FoldersAt(root, path, n)
  BY <1>1, <1>3
<1>6. ~ Twins(root, path) => \A g \in FoldersAt(root, path, n) : walk[n] = g
  BY <1>1, <1>4
<1>7. QED
  BY <1>5, <1>6 DEF walk

\* resolveFile finds a file that was asked for; without twins it finds one if there is one.
LEMMA LooseFacts ==
  ASSUME NEW path \in Paths, NEW root \in DOMAIN Listing
  PROVE  /\ FileIn(root, path) # None => FileIn(root, path) \in FilesAt(root, path)
         /\ FileIn(root, path) = None => FilesAt(root, path) = {} \/ Twins(root, path)
<1> DEFINE n == Len(path)
           last == FoldersOn(root, path)[n - 1]
<1>1. n \in Nat \ {0} /\ n - 1 \in 0..(n - 1) /\ n - 1 \in Nat
  BY PathFacts
<1>2. FileIn(root, path) = IF last = None THEN None ELSE GetChild(last, path[n], "file")
  BY ResolveFacts
<1>3. /\ last = None \/ last \in FoldersAt(root, path, n - 1)
      /\ ~ Twins(root, path) => \A g \in FoldersAt(root, path, n - 1) : last = g
  BY <1>1, WalkFacts
<1> HIDE DEF last
<1>4. Last(path) = path[n]
  BY DEF Last
<1>5. \A file : file \in FilesAt(root, path) <=>
        \E folder \in FoldersAt(root, path, n - 1) : file \in Within(folder, path[n], "file")
  BY <1>4 DEF FilesAt
<1>6. FoldersAt(root, path, n - 1) \subseteq DOMAIN Listing
  BY <1>1, FoldersAtFacts
<1>7. ASSUME FileIn(root, path) # None
      PROVE  FileIn(root, path) \in FilesAt(root, path)
  <2>1. last # None /\ last \in FoldersAt(root, path, n - 1) /\ last \in DOMAIN Listing
    BY <1>2, <1>3, <1>6, <1>7
  <2>2. FileIn(root, path) \in Within(last, path[n], "file")
    BY <1>2, <1>7, <2>1, ChildIsWithin
  <2>3. QED
    BY <1>5, <2>1, <2>2
<1>8. ASSUME FileIn(root, path) = None, ~ Twins(root, path), NEW file \in FilesAt(root, path)
      PROVE  FALSE
  <2>1. PICK folder \in FoldersAt(root, path, n - 1) : file \in Within(folder, path[n], "file")
    BY <1>5, <1>8
  <2>2. last = folder /\ last \in DOMAIN Listing /\ last # None
    BY <1>3, <1>6, <1>8, <2>1, DataRootAssumption
  <2>3. GetChild(last, path[n], "file") # None
    BY <2>1, <2>2, ChildIsWithin
  <2>4. QED
    BY <1>2, <1>8, <2>2, <2>3
<1>9. QED
  BY <1>7, <1>8

-----------------------------------------------------------------------------
(* What a resolve may end with                                             *)

LEMMA AnswersFacts ==
  ASSUME NEW root \in Roots, NEW path \in Paths
  PROVE  /\ Failed \in AnswersOf(root, path)
         /\ FileIn(root, path) # None => LooseBytes(FileIn(root, path)) \in AnswersOf(root, path)
         /\ FileIn(root, path) = None =>
              None \in AnswersOf(root, path) /\ PackedAt(root, path) \subseteq AnswersOf(root, path)
<1> DEFINE loose == {LooseBytes(file) : file \in FilesAt(root, path)}
<1>1. root # None /\ root \in DOMAIN Listing
  BY GameDataAssumption, DataRootAssumption
<1>2. AnswersOf(root, path) =
        IF loose # {} /\ ~ Twins(root, path) THEN loose \cup {Failed}
        ELSE loose \cup PackedAt(root, path) \cup {None, Failed}
  BY <1>1 DEF AnswersOf
<1>3. FileIn(root, path) # None => LooseBytes(FileIn(root, path)) \in loose
  BY <1>1, LooseFacts
<1>4. FileIn(root, path) = None => loose = {} \/ Twins(root, path)
  BY <1>1, LooseFacts
<1> HIDE DEF loose
<1>5. QED
  BY <1>2, <1>3, <1>4

LEMMA PackedFacts ==
  ASSUME ServiceInv, ArchivesDiffer, ArchivesReadRight, NEW path \in DOMAIN files, rootHandle # None,
         ResolveFile(<<files[path].archive>>) # None
  PROVE  ArchivedBytes(ResolveFile(<<files[path].archive>>), files[path].record) \in PackedAt(rootHandle, path)
<1> DEFINE n == files[path].archive
           file == FileNamed(n)
           r == files[path].record
           inFolder == {e.item : e \in {e \in ToSet(Listing[rootHandle]) : e.name \in DOMAIN RankOf}}
           Whole(a, b) == [from |-> "archive", file |-> a, record |-> b,
             payload |-> [from |-> b.at, to |-> b.offset + b.size, expanded |-> Expanded(Content[a], b)]]
<1>1. n \in Archives /\ path \in DOMAIN Entries[file] /\ r = Entries[file][path]
  BY DEF ServiceInv, IndexOK, RecordsKept, StateOK, PathsOf
<1>2. rootHandle \in Roots
  BY DEF ServiceInv, StateOK
<1>3. ResolveFile(<<n>>) = file
  BY <1>1, <1>2, ArchiveFile
<1>4. PICK i \in DOMAIN Listing[rootHandle] :
        /\ Listing[rootHandle][i].name = n /\ Listing[rootHandle][i].kind = "file"
        /\ Listing[rootHandle][i].item = file
  BY <1>1, <1>2, ArchiveFile
<1>5. n \in DOMAIN RankOf
  BY <1>1 DEF Archives
<1> HIDE DEF n, file, r
<1>6. file \in DOMAIN Content /\ file \in inFolder
  <2>1. Listing[rootHandle][i] \in ToSet(Listing[rootHandle])
    BY <1>4 DEF ToSet
  <2>2. file \in DOMAIN Content
    BY <1>2, <1>4, <1>5, <2>1, GameDataAssumption
  <2>3. QED
    BY <1>4, <1>5, <2>1, <2>2
<1>7. r \in RecordsOf(file) /\ r.is = path /\ r.at = r.offset + Skipped(Content[file], r)
  BY <1>1, <1>6 DEF ArchivesReadRight
<1>8. ArchivedBytes(file, r) = Whole(file, r)
  BY <1>7 DEF ArchivedBytes, Payload
<1>9. PackedAt(rootHandle, path) = UNION {{Whole(a, b) : b \in {b \in RecordsOf(a) : b.is = path}} : a \in inFolder}
  BY DEF PackedAt
<1> HIDE DEF Whole, inFolder
<1>10. Whole(file, r) \in {Whole(file, b) : b \in {b \in RecordsOf(file) : b.is = path}}
  BY <1>7
<1>11. QED
  BY <1>3, <1>6, <1>8, <1>9, <1>10 DEF n, r

-----------------------------------------------------------------------------
(* The calls as their callers see them                                     *)

LEMMA OtherCalls ==
  ASSUME TasksOK, NEW c \in Calls, NEW t, Become(c, t)
  PROVE  \A d \in Calls \ {c} : CallOf(d)' = CallOf(d)
BY OneCall DEF CallOf

\* A call that is under way.
LEMMA UnderWay ==
  ASSUME NEW c, task[c].at \notin {"free", "done"}
  PROVE  /\ CallOf(c).kind = task[c].kind /\ CallOf(c).path = task[c].path
         /\ CallOf(c).at = IF task[c].at \in {"listing", "indexing", "reading"} THEN "picked" ELSE "asked"
         /\ CallOf(c) = [at |-> CallOf(c).at, kind |-> CallOf(c).kind, path |-> CallOf(c).path]
BY DEF CallOf

LEMMA AbstractBecome ==
  ASSUME NEW c \in Calls, NEW t, CallOf(c)' = t, \A d \in Calls \ {c} : CallOf(d)' = CallOf(d)
  PROVE  Assets!Become(c, t)
BY DEF Assets!Become

LEMMA AbstractIs ==
  ASSUME NEW c \in Calls, NEW at, NEW kind
  PROVE  Assets!Is(c, at, kind) <=> CallOf(c).at = at /\ CallOf(c).kind = kind
BY DEF Assets!Is

LEMMA AbstractDone ==
  ASSUME NEW c \in Calls, NEW r,
         CallOf(c)' = [at |-> "done", kind |-> CallOf(c).kind, path |-> CallOf(c).path, result |-> r],
         \A d \in Calls \ {c} : CallOf(d)' = CallOf(d)
  PROVE  Assets!Done(c, r)
BY DEF Assets!Done, Assets!Become

LEMMA AbstractStutter ==
  ASSUME \A d \in Calls : CallOf(d)' = CallOf(d), UNCHANGED <<hasPicker, rootName>>,
         (IF module \in {"ready", "failed"} THEN module ELSE "unknown")' =
           IF module \in {"ready", "failed"} THEN module ELSE "unknown"
  PROVE  UNCHANGED Assets!assets
BY DEF Assets!assets

\* While a call is past the gate and its folder is not being indexed, none is.
LEMMA NotIndexing ==
  ASSUME ServiceInv, NEW c \in Calls, Inside(c), task[c].at \notin {"listing", "indexing", "reading"}
  PROVE  ~ Assets!Indexing
<1>1. ASSUME NEW d \in Calls, CallOf(d).at = "picked"
      PROVE  FALSE
  <2>1. task[d].at \in {"listing", "indexing", "reading"}
    BY <1>1 DEF CallOf
  <2>2. Inside(d)
    BY <2>1, AtInside DEF PickStates
  <2>3. QED
    BY <2>1, <2>2, InsideFacts
<1>2. QED
  BY <1>1 DEF Assets!Indexing

\* A call that returns is done, with its result.
LEMMA ReturnDone ==
  ASSUME ServiceInv, NEW c \in Calls, Inside(c), NEW r, Return(c, r)
  PROVE  Assets!Done(c, r) /\ UNCHANGED <<hasPicker, module, rootName>>
<1>1. UNCHANGED <<hasPicker, module, rootName>> /\ Become(c, Result(c, r))
  BY DisposedFacts DEF Return, service
<1>2. CallOf(c)' = [at |-> "done", kind |-> task[c].kind, path |-> task[c].path, result |-> r]
  BY <1>1, OneCall DEF ServiceInv, CallOf, Result
<1>3. CallOf(c).kind = task[c].kind /\ CallOf(c).path = task[c].path
  BY UnderWay DEF Inside
<1>4. \A d \in Calls \ {c} : CallOf(d)' = CallOf(d)
  BY <1>1, OtherCalls DEF ServiceInv
<1>5. QED
  BY <1>1, <1>2, <1>3, <1>4, AbstractDone

-----------------------------------------------------------------------------
(* Every step is one of AssetSource                                        *)

LEMMA AskSteps ==
  ASSUME ServiceInv, NEW c \in Calls, NEW kind \in {"initialize", "pick", "resolve"},
         NEW path \in Paths \cup {None},
         Call(c, kind, path) \/ (CallInitialize(c) /\ kind = "initialize" /\ path = None)
  PROVE  Assets!Ask(c, kind, path)
<1>1. PICK at \in {"waiting", "module"} : Become(c, NewCall(at, kind, path))
  BY DEF Call, CallInitialize
<1>2. task[c] = Free /\ UNCHANGED <<hasPicker, module, rootName>>
  BY DEF Call, CallInitialize, service, dataRoot
<1>3. CallOf(c)' = [at |-> "asked", kind |-> kind, path |-> path]
  BY <1>1, OneCall DEF ServiceInv, CallOf, NewCall
<1>4. \A d \in Calls \ {c} : CallOf(d)' = CallOf(d)
  BY <1>1, OtherCalls DEF ServiceInv
<1>5. CallOf(c) = [at |-> "free"]
  BY <1>2 DEF CallOf, Free
<1>6. Assets!Become(c, Assets!Asked(kind, path))
  BY <1>3, <1>4, AbstractBecome DEF Assets!Asked
<1>7. [d \in Calls |-> CallOf(d)][c] = Assets!NoCall
  BY <1>5 DEF Assets!NoCall
<1>8. QED
  BY <1>2, <1>6, <1>7 DEF Assets!Ask

LEMMA RefuseStep ==
  ASSUME ServiceInv, NEW c \in Calls, Refuse(c)
  PROVE  Assets!Refuse(c)
<1>1. Become(c, [at |-> "done", kind |-> "resolve", path |-> None, result |-> None])
  BY DEF Refuse
<1>2. task[c] = Free /\ UNCHANGED <<hasPicker, module, rootName>>
  BY DEF Refuse, service, dataRoot
<1>3. CallOf(c)' = [at |-> "done", kind |-> "resolve", path |-> None, result |-> None]
  BY <1>1, OneCall DEF ServiceInv, CallOf
<1>4. \A d \in Calls \ {c} : CallOf(d)' = CallOf(d)
  BY <1>1, OtherCalls DEF ServiceInv
<1>5. CallOf(c) = [at |-> "free"]
  BY <1>2 DEF CallOf, Free
<1>6. Assets!Become(c, [at |-> "done", kind |-> "resolve", path |-> None, result |-> None])
  BY <1>3, <1>4, AbstractBecome
<1>7. [d \in Calls |-> CallOf(d)][c] = Assets!NoCall
  BY <1>5 DEF Assets!NoCall
<1>8. QED
  BY <1>2, <1>6, <1>7 DEF Assets!Refuse

LEMMA LeaveStep ==
  ASSUME ServiceInv, NEW c \in Calls, Leave(c)
  PROVE  Assets!Leave(c)
<1>1. Become(c, Free) /\ task[c].at = "done" /\ UNCHANGED <<hasPicker, module, rootName>>
  BY DEF Leave, service, dataRoot
<1>2. CallOf(c)' = [at |-> "free"]
  BY <1>1, OneCall DEF ServiceInv, CallOf, Free
<1>3. \A d \in Calls \ {c} : CallOf(d)' = CallOf(d)
  BY <1>1, OtherCalls DEF ServiceInv
<1>4. CallOf(c).at = "done"
  BY <1>1 DEF CallOf
<1>5. Assets!Become(c, Assets!NoCall)
  BY <1>2, <1>3, AbstractBecome DEF Assets!NoCall
<1>6. [d \in Calls |-> CallOf(d)][c].at = "done"
  BY <1>4
<1>7. QED
  BY <1>1, <1>5, <1>6 DEF Assets!Leave

\* The steps that no caller sees.
Inner(c) ==
  \/ Resume(c) \/ Proceed(c) \/ Listed(c) \/ OpenArchive(c) \/ ReadArchive(c) \/ Unusable(c)
  \/ OpenLoose(c) \/ LookUp(c) \/ StartImport(c)

LEMMA InnerSteps ==
  ASSUME ServiceInv, NEW c \in Calls, Inner(c)
  PROVE  UNCHANGED Assets!assets
<1>1. CASE StartImport(c)
  <2>1. /\ UNCHANGED <<hasPicker, rootName>> /\ task' = task
        /\ module = "none" /\ module' = "importing"
    BY <1>1 DEF StartImport, dataRoot
  <2>2. \A d \in Calls : CallOf(d)' = CallOf(d)
    BY <2>1 DEF CallOf
  <2>3. QED
    BY <2>1, <2>2, AbstractStutter
<1>2. CASE ~ StartImport(c)
  <2>1. task[c].at \notin {"free", "done"}
    BY <1>2 DEF Inner, Resume, Proceed, Listed, OpenArchive, ReadArchive, Unusable, OpenLoose, LookUp, Holds
  <2>2. JobOK(task[c])
    BY <2>1 DEF ServiceInv, TasksOK, Free
  <2>3. PICK t : /\ Become(c, t) /\ t.kind = task[c].kind /\ t.path = task[c].path
                 /\ t.at \notin {"free", "done"}
                 /\ t.at \in {"listing", "indexing", "reading"} <=> task[c].at \in {"listing", "indexing", "reading"}
    <3>1. CASE Resume(c) \/ Proceed(c)
      BY <2>2, <3>1 DEF Resume, Proceed, Go, Holds, JobOK, Job
    <3>2. CASE Listed(c)
      <4>1. PICK s : Become(c, [task[c] EXCEPT !.at = "indexing", !.left = s]) /\ task[c].at = "listing"
        BY <3>2 DEF Listed, Holds
      <4> DEFINE t == [task[c] EXCEPT !.at = "indexing", !.left = s]
      <4>2. t.kind = task[c].kind /\ t.path = task[c].path /\ t.at = "indexing"
        BY <2>2 DEF JobOK, Job
      <4>3. QED
        BY <4>1, <4>2
    <3>3. CASE OpenArchive(c)
      <4> DEFINE t == [task[c] EXCEPT !.at = "reading", !.stream = nextFileId]
      <4>1. Become(c, t) /\ task[c].at = "indexing"
        BY <3>3 DEF OpenArchive, Open, Holds
      <4>2. t.kind = task[c].kind /\ t.path = task[c].path /\ t.at = "reading"
        BY <2>2 DEF JobOK, Job
      <4>3. QED
        BY <4>1, <4>2
    <3>4. CASE LookUp(c)
      <4> DEFINE t == [task[c] EXCEPT !.at = "readingArchive", !.stream = nextFileId]
      <4>1. Become(c, t) /\ task[c].at = "archived"
        BY <3>4 DEF LookUp, Open, Holds
      <4>2. t.kind = task[c].kind /\ t.path = task[c].path /\ t.at = "readingArchive"
        BY <2>2 DEF JobOK, Job
      <4>3. QED
        BY <4>1, <4>2
    <3>5. CASE OpenLoose(c)
      <4>1. task[c].at = "loose"
        BY <3>5 DEF OpenLoose, Holds
      <4>2. CASE Become(c, [task[c] EXCEPT !.at = "readingLoose", !.stream = nextFileId])
        <5> DEFINE t == [task[c] EXCEPT !.at = "readingLoose", !.stream = nextFileId]
        <5>1. t.kind = task[c].kind /\ t.path = task[c].path /\ t.at = "readingLoose"
          BY <2>2 DEF JobOK, Job
        <5>2. QED
          BY <4>1, <4>2, <5>1
      <4>3. CASE Become(c, [task[c] EXCEPT !.at = "archived"])
        BY <2>2, <4>1, <4>3 DEF JobOK, Job
      <4>4. QED
        BY <3>5, <4>2, <4>3 DEF OpenLoose, Open, Go
    <3>6. CASE ReadArchive(c) \/ Unusable(c)
      <4> DEFINE t == [task[c] EXCEPT !.at = "indexing", !.left = Tail(@), !.stream = None]
      <4>1. Become(c, t) /\ task[c].at \in {"indexing", "reading"}
        BY <3>6 DEF ReadArchive, Unusable, NextArchive, Holds
      <4>2. t.kind = task[c].kind /\ t.path = task[c].path /\ t.at = "indexing"
        BY <2>2 DEF JobOK, Job
      <4>3. QED
        BY <4>1, <4>2
    <3>7. QED
      BY <1>2, <3>1, <3>2, <3>3, <3>4, <3>5, <3>6 DEF Inner
  <2>4. CallOf(c)' = CallOf(c)
    BY <2>1, <2>3, OneCall DEF ServiceInv, CallOf
  <2>5. \A d \in Calls : CallOf(d)' = CallOf(d)
    BY <2>3, <2>4, OtherCalls DEF ServiceInv
  <2>6. module' = module /\ rootName' = rootName
    BY <1>2 DEF Inner, Resume, Proceed, Listed, OpenArchive, ReadArchive, Unusable, OpenLoose, LookUp, service
  <2>7. hasPicker' = hasPicker
    <3>1. CASE Resume(c) \/ Proceed(c) \/ Listed(c)
      BY <3>1 DEF Resume, Proceed, Listed, dataRoot
    <3>2. CASE OpenArchive(c) \/ LookUp(c) \/ OpenLoose(c)
      BY <3>2 DEF OpenArchive, LookUp, OpenLoose, Open, OpenFile, dataRoot
    <3>3. CASE ReadArchive(c) \/ Unusable(c)
      BY <3>3 DEF ReadArchive, Unusable, NextArchive, Disposed, CloseFile, dataRoot
    <3>4. QED
      BY <1>2, <3>1, <3>2, <3>3 DEF Inner
  <2>8. QED
    BY <2>5, <2>6, <2>7, AbstractStutter
<1>3. QED
  BY <1>1, <1>2

LEMMA ImportedStep ==
  ASSUME NEW ok \in BOOLEAN, Imported(ok)
  PROVE  Assets!Loaded(ok)
<1>1. /\ UNCHANGED <<hasPicker, rootName>> /\ task' = task
      /\ module = "importing" /\ module' = IF ok THEN "ready" ELSE "failed"
  BY DEF Imported, dataRoot
<1>2. \A d \in Calls : CallOf(d)' = CallOf(d)
  BY <1>1 DEF CallOf
<1>3. [d \in Calls |-> CallOf(d)]' = [d \in Calls |-> CallOf(d)]
  BY <1>2
<1>4. QED
  BY <1>1, <1>3 DEF Assets!Loaded

LEMMA InitializedStep ==
  ASSUME ServiceInv, NEW c \in Calls, Initialized(c)
  PROVE  Assets!Initialized(c)
<1>1. /\ task[c].at = "module" /\ task[c].kind = "initialize"
      /\ UNCHANGED <<hasPicker, module, rootName>>
  BY DEF Initialized, dataRoot
<1>2. module \in {"ready", "failed"} /\ Become(c, Result(c, IF module = "ready" THEN hasPicker ELSE Failed))
  BY DEF Initialized, ServiceInv, StateOK
<1>3. CallOf(c).at = "asked" /\ CallOf(c).kind = "initialize" /\ CallOf(c).path = task[c].path
  BY <1>1 DEF CallOf
<1>4. CallOf(c)' = [at |-> "done", kind |-> task[c].kind, path |-> task[c].path,
                    result |-> IF module = "ready" THEN hasPicker ELSE Failed]
  BY <1>2, OneCall DEF ServiceInv, CallOf, Result
<1>5. \A d \in Calls \ {c} : CallOf(d)' = CallOf(d)
  BY <1>2, OtherCalls DEF ServiceInv
<1>6. Assets!Done(c, IF module = "ready" THEN hasPicker ELSE Failed)
  BY <1>1, <1>3, <1>4, <1>5, AbstractDone
<1>7. Assets!Is(c, "asked", "initialize")
  BY <1>3, AbstractIs
<1>8. QED
  BY <1>1, <1>2, <1>6, <1>7 DEF Assets!Initialized

LEMMA PickedStep ==
  ASSUME ServiceInv, NEW c \in Calls, NEW root \in Roots, Picked(c, root)
  PROVE  Assets!PickFolder(c)
<1>1. /\ task[c].at = "picking" /\ Inside(c) /\ Become(c, [task[c] EXCEPT !.at = "listing"])
      /\ rootName' = root /\ module' = module /\ hasPicker' = hasPicker
  BY AtInside DEF Picked, PickDataRoot, Holds, PickStates, Go
<1>2. hasPicker /\ module = "ready"
  <2>1. root # None => hasPicker
    BY DEF Picked, PickDataRoot
  <2>2. module = "ready"
    BY <1>1 DEF ServiceInv, GateOK
  <2>3. QED
    BY <2>1, <2>2, GameDataAssumption
<1>3. JobOK(task[c]) /\ task[c].kind = "pick"
  BY <1>1, InsideFacts DEF JobOK, PickStates
<1>4. CallOf(c) = [at |-> "asked", kind |-> "pick", path |-> task[c].path]
  BY <1>1, <1>3 DEF CallOf
<1>5. CallOf(c)' = [at |-> "picked", kind |-> "pick", path |-> task[c].path]
  BY <1>1, <1>3, OneCall DEF ServiceInv, CallOf, JobOK, Job
<1>6. \A d \in Calls \ {c} : CallOf(d)' = CallOf(d)
  BY <1>1, OtherCalls DEF ServiceInv
<1>7. Assets!Become(c, [[d \in Calls |-> CallOf(d)][c] EXCEPT !.at = "picked"])
  <2>1. [CallOf(c) EXCEPT !.at = "picked"] = [at |-> "picked", kind |-> "pick", path |-> task[c].path]
    BY <1>4
  <2>2. [d \in Calls |-> CallOf(d)][c] = CallOf(c)
    OBVIOUS
  <2>3. Assets!Become(c, [CallOf(c) EXCEPT !.at = "picked"])
    BY <1>5, <1>6, <2>1, AbstractBecome
  <2>4. QED
    BY <2>2, <2>3
<1>8. ~ Assets!Indexing
  BY <1>1, NotIndexing
<1>9. Assets!Is(c, "asked", "pick")
  BY <1>4, AbstractIs
<1>10. QED
  BY <1>1, <1>2, <1>7, <1>8, <1>9 DEF Assets!PickFolder

LEMMA FolderIndexedStep ==
  ASSUME ServiceInv, NEW c \in Calls, NotListed(c) \/ AllIndexed(c) \/ IndexingThrows(c)
  PROVE  Assets!FolderIndexed(c)
<1>1. /\ task[c].at \in {"listing", "indexing", "reading"}
      /\ \E result \in {TRUE, Failed} : Return(c, result)
  BY DEF NotListed, AllIndexed, IndexingThrows, Holds
<1>2. Inside(c)
  BY <1>1, AtInside DEF PickStates
<1>3. PICK result \in {TRUE, Failed} : Assets!Done(c, result) /\ UNCHANGED <<hasPicker, module, rootName>>
  BY <1>1, <1>2, ReturnDone
<1>4. [d \in Calls |-> CallOf(d)][c].at = "picked"
  BY <1>1 DEF CallOf
<1>5. QED
  BY <1>3, <1>4 DEF Assets!FolderIndexed

LEMMA PickNothingStep ==
  ASSUME ServiceInv, NEW c \in Calls, NotPicked(c) \/ (Hopeless(c) /\ task[c].kind # "resolve")
  PROVE  Assets!PickNothing(c)
<1>1. /\ task[c].at \in {"picking", "module"} /\ Inside(c)
      /\ module \in {"ready", "failed"}
      /\ Return(c, IF module = "ready" THEN FALSE ELSE Failed)
  <2>1. CASE NotPicked(c)
    <3>1. task[c].at = "picking" /\ Inside(c)
      BY <2>1, AtInside DEF NotPicked, Holds, PickStates
    <3>2. module = "ready"
      BY <3>1 DEF ServiceInv, GateOK
    <3>3. QED
      BY <2>1, <3>1, <3>2 DEF NotPicked
  <2>2. CASE Hopeless(c) /\ task[c].kind # "resolve"
    BY <2>2 DEF Hopeless, Inside
  <2>3. QED
    BY <2>1, <2>2
<1>2. task[c].kind = "pick"
  <2>1. JobOK(task[c])
    BY <1>1, InsideFacts
  <2>2. CASE NotPicked(c)
    BY <1>1, <2>1, <2>2 DEF NotPicked, Holds, JobOK, PickStates
  <2>3. CASE Hopeless(c) /\ task[c].kind # "resolve"
    BY <2>1, <2>3 DEF Hopeless, JobOK, Job
  <2>4. QED
    BY <2>2, <2>3
<1>3. Assets!Is(c, "asked", "pick")
  <2>1. CallOf(c).at = "asked" /\ CallOf(c).kind = "pick"
    BY <1>1, <1>2 DEF CallOf
  <2>2. QED
    BY <2>1, AbstractIs
<1>4. Assets!Done(c, IF module = "ready" THEN FALSE ELSE Failed) /\ UNCHANGED <<hasPicker, module, rootName>>
  BY <1>1, ReturnDone
<1>5. QED
  BY <1>1, <1>3, <1>4 DEF Assets!PickNothing

\* A resolve that ends with one of the answers.
LEMMA AnsweredStep ==
  ASSUME ServiceInv, NEW c \in Calls, Inside(c), task[c].kind = "resolve",
         NEW result \in AnswersOf(rootName, task[c].path), Return(c, result)
  PROVE  Assets!Resolved(c)
<1>1. JobOK(task[c]) /\ task[c].at \notin {"free", "done"}
  BY InsideFacts DEF Inside
<1>2. task[c].at \notin {"listing", "indexing", "reading"}
  BY <1>1 DEF JobOK, PickStates
<1>3. ~ Assets!Indexing
  BY <1>2, NotIndexing
<1>4. CallOf(c).at = "asked" /\ CallOf(c).kind = "resolve" /\ CallOf(c).path = task[c].path
  BY <1>1, <1>2 DEF CallOf
<1>5. Assets!Is(c, "asked", "resolve")
  BY <1>4, AbstractIs
<1>6. Assets!Done(c, result) /\ UNCHANGED <<hasPicker, module, rootName>>
  BY ReturnDone
<1>7. [d \in Calls |-> CallOf(d)][c].path = task[c].path
  BY <1>4
<1>8. result \in AnswersOf(rootName, [d \in Calls |-> CallOf(d)][c].path)
  BY <1>7
<1>9. QED
  BY <1>3, <1>5, <1>6, <1>8 DEF Assets!Resolved

LEMMA ResolvedStep ==
  ASSUME ServiceInv, ArchivesDiffer, ArchivesReadRight, NEW c \in Calls, Ends(c), task[c].kind = "resolve"
  PROVE  Assets!Resolved(c)
<1>1. Inside(c) /\ JobOK(task[c])
  BY EndsFacts, InsideFacts
<1>2. task[c].path \in Paths /\ task[c].at \notin PickStates
  BY <1>1 DEF JobOK
<1>3. rootName = rootHandle /\ rootName \in Roots \cup {None}
  BY DEF ServiceInv, StateOK
<1>4. rootName # None =>
        /\ rootName \in Roots /\ Failed \in AnswersOf(rootName, task[c].path)
        /\ ResolveFile(task[c].path) # None =>
             LooseBytes(ResolveFile(task[c].path)) \in AnswersOf(rootName, task[c].path)
        /\ ResolveFile(task[c].path) = None =>
             /\ None \in AnswersOf(rootName, task[c].path)
             /\ PackedAt(rootName, task[c].path) \subseteq AnswersOf(rootName, task[c].path)
  BY <1>2, <1>3, AnswersFacts DEF ResolveFile
<1>5. task[c].at \in ResolveStates => rootName # None
  BY <1>1 DEF ServiceInv, GateOK, ResolveStates
<1>6. CASE Hopeless(c)
  <2>1. CASE rootName = None
    <3>1. Return(c, None)
      BY <1>6, <2>1 DEF Hopeless
    <3>2. None \in AnswersOf(rootName, task[c].path)
      BY <2>1 DEF AnswersOf
    <3>3. QED
      BY <1>1, <3>1, <3>2, AnsweredStep
  <2>2. CASE rootName # None
    BY <1>1, <1>4, <1>6, <2>2, AnsweredStep DEF Hopeless
  <2>3. QED
    BY <2>1, <2>2
<1>7. CASE ResolveThrows(c)
  <2>1. rootName # None /\ Return(c, Failed)
    BY <1>5, <1>7 DEF ResolveThrows, Holds, ResolveStates
  <2>2. QED
    BY <1>1, <1>4, <2>1, AnsweredStep
<1>8. CASE NotFound(c)
  <2>1. task[c].at = "archived" /\ rootName # None /\ Return(c, None)
    BY <1>5, <1>8 DEF NotFound, Holds, ResolveStates
  <2>2. ResolveFile(task[c].path) = None
    BY <2>1 DEF ServiceInv, ResolvesOK
  <2>3. QED
    BY <1>1, <1>4, <2>1, <2>2, AnsweredStep
<1>9. CASE ReadLoose(c)
  <2>1. task[c].at = "readingLoose" /\ rootName # None /\ Return(c, LooseBytes(FileOf(c)))
    BY <1>5, <1>9 DEF ReadLoose, Holds, ResolveStates
  <2>2. FileOf(c) = ResolveFile(task[c].path) /\ FileOf(c) # None
    BY <2>1 DEF ServiceInv, ResolvesOK
  <2>3. LooseBytes(FileOf(c)) \in AnswersOf(rootName, task[c].path)
    BY <1>4, <2>1, <2>2
  <2>4. QED
    BY <1>1, <2>1, <2>3, AnsweredStep
<1>10. CASE ReadEntry(c)
  <2>1. /\ task[c].at = "readingArchive" /\ rootName # None
        /\ Return(c, ArchivedBytes(FileOf(c), files[task[c].path].record))
    BY <1>5, <1>10 DEF ReadEntry, Holds, ResolveStates
  <2>2. /\ ResolveFile(task[c].path) = None /\ task[c].path \in DOMAIN files
        /\ FileOf(c) = ResolveFile(<<files[task[c].path].archive>>) /\ FileOf(c) # None
    BY <2>1 DEF ServiceInv, ResolvesOK
  <2>3. ArchivedBytes(FileOf(c), files[task[c].path].record) \in PackedAt(rootName, task[c].path)
    BY <1>3, <2>1, <2>2, PackedFacts
  <2>4. QED
    BY <1>1, <1>4, <2>1, <2>2, <2>3, AnsweredStep
<1>11. QED
  <2>1. ~ (NotPicked(c) \/ NotListed(c) \/ AllIndexed(c) \/ IndexingThrows(c))
    BY <1>2 DEF NotPicked, NotListed, AllIndexed, IndexingThrows, Holds, PickStates
  <2>2. QED
    BY <1>6, <1>7, <1>8, <1>9, <1>10, <2>1 DEF Ends

LEMMA EndsStep ==
  ASSUME ServiceInv, ArchivesDiffer, ArchivesReadRight, NEW c \in Calls, Ends(c)
  PROVE  Assets!PickNothing(c) \/ Assets!FolderIndexed(c) \/ Assets!Resolved(c)
<1>1. CASE task[c].kind = "resolve"
  BY <1>1, ResolvedStep
<1>2. CASE task[c].kind # "resolve"
  <2>1. JobOK(task[c])
    BY EndsFacts, InsideFacts
  <2>2. task[c].at \notin ResolveStates
    BY <1>2, <2>1 DEF JobOK
  <2>3. ~ (ResolveThrows(c) \/ NotFound(c) \/ ReadLoose(c) \/ ReadEntry(c))
    BY <2>2 DEF ResolveThrows, NotFound, ReadLoose, ReadEntry, Holds, ResolveStates
  <2>4. QED
    BY <1>2, <2>3, PickNothingStep, FolderIndexedStep DEF Ends
<1>3. QED
  BY <1>1, <1>2

LEMMA AssetsInit == Init => Assets!AssetInit
<1> SUFFICES ASSUME Init PROVE Assets!AssetInit
  OBVIOUS
<1>1. hasPicker \in BOOLEAN /\ module = "none" /\ rootName = None /\ task = [c \in Calls |-> Free]
  BY DEF Init, DataRootInit
<1>2. \A c \in Calls : CallOf(c) = [at |-> "free"]
  BY <1>1 DEF CallOf, Free
<1>3. QED
  BY <1>1, <1>2 DEF Assets!AssetInit, Assets!NoCall

LEMMA AssetsNext ==
  ASSUME ArchivesDiffer, ArchivesReadRight, ServiceInv, [Next]_vars
  PROVE  [Assets!AssetNext]_(Assets!assets)
<1>1. CASE UNCHANGED vars
  <2>1. UNCHANGED <<hasPicker, rootName, module, task>>
    BY <1>1 DEF vars, service, dataRoot
  <2>2. \A d \in Calls : CallOf(d)' = CallOf(d)
    BY <2>1 DEF CallOf
  <2>3. QED
    BY <2>1, <2>2, AbstractStutter
<1>2. ASSUME NEW ok \in BOOLEAN, Imported(ok)
      PROVE  Assets!AssetNext
  BY <1>2, ImportedStep DEF Assets!AssetNext
<1>3. ASSUME NEW c \in Calls, NEW kind \in {"pick", "resolve"}, NEW path \in Paths \cup {None},
             Call(c, kind, path), kind = "pick" => path = None, kind = "resolve" => path \in Paths
      PROVE  Assets!AskAnything(c)
  <2>1. Assets!Ask(c, kind, path)
    BY <1>3, AskSteps
  <2>2. QED
    BY <1>3, <2>1 DEF Assets!AskAnything
<1>4. ASSUME NEW c \in Calls, CallInitialize(c)
      PROVE  Assets!AskAnything(c)
  <2>1. Assets!Ask(c, "initialize", None)
    BY <1>4, AskSteps
  <2>2. QED
    BY <2>1 DEF Assets!AskAnything
<1>5. ASSUME NEW c \in Calls, Refuse(c)
      PROVE  Assets!AskAnything(c)
  BY <1>5, RefuseStep DEF Assets!AskAnything
<1>6. ASSUME NEW c \in Calls, Initialized(c) \/ (\E root \in Roots : Picked(c, root)) \/ Ends(c)
      PROVE  Assets!AnswerCall(c)
  BY <1>6, InitializedStep, PickedStep, EndsStep DEF Assets!AnswerCall
<1>7. ASSUME NEW c \in Calls, Leave(c)
      PROVE  Assets!Leave(c)
  BY <1>7, LeaveStep
<1>8. ASSUME NEW c \in Calls, Inner(c)
      PROVE  UNCHANGED Assets!assets
  BY <1>8, InnerSteps
<1>9. CASE Next
  BY <1>2, <1>3, <1>4, <1>5, <1>6, <1>7, <1>8, <1>9, StepCases DEF Inner, Assets!AssetNext
<1>10. QED
  BY <1>1, <1>9

\* GameDataService implements AssetSource: a pick takes effect at one moment and a resolve
\* ends with the file that was asked for, of the folder of that moment.  The names of a
\* folder's archives differ in more than case, and ReadBsaArchive finds in a file what was
\* packed there.
THEOREM AssetsImplemented ==
  ASSUME ArchivesDiffer, ArchivesReadRight
  PROVE  Spec => ImplementsAssets
<1>1. Init => Assets!AssetInit
  BY AssetsInit
<1>2. ServiceInv /\ [Next]_vars => [Assets!AssetNext]_(Assets!assets)
  BY AssetsNext
<1>3. QED
  BY <1>1, <1>2, ServiceInvariant, PTL DEF Spec, ImplementsAssets, Assets!AssetSpec
=============================================================================
