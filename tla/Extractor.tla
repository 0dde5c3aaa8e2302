------------------------------ MODULE Extractor ------------------------------
(***************************************************************************)
(* BsaParser.Cli: ExtractionApplication.RunAsync unpacks a list of         *)
(* archives, ArchiveExtractor.ExtractAsync one of them.  Every entry is    *)
(* written to a temporary file that is then moved over its target.         *)
(* Ctrl+C, an I/O error, another program that creates a file, and a crash  *)
(* may come at any step.                                                   *)
(***************************************************************************)
EXTENDS Integers, Sequences, SequencesExt

CONSTANTS
  Selections, \* the archives that may be selected, each the sequence of its entries' paths
  EntryPaths, \* the paths of entries under the output directory
  Unsafe,     \* those that GetDestination or CheckExistingPath refuses
  Existing,   \* the sets of paths that may exist at the start
  NoExit      \* the exit code of a program that has not ended

ASSUME ExtractorAssumption ==
  /\ Selections \subseteq Seq(Seq(EntryPaths)) \ {<<>>}
  /\ Unsafe \subseteq EntryPaths
  /\ Existing \subseteq SUBSET EntryPaths
  /\ NoExit \notin {0, 1, 2, 130}

VARIABLES
  content,    \* what every path holds
  overwrite,  \* --overwrite
  token,      \* CancellationToken: cancellation was requested
  phase,      \* where the program is
  archives,   \* the selected archives
  archive,    \* the archive being unpacked
  completed,  \* entries of it that were moved to their targets
  temporary,  \* the content of the entry's temporary file
  outcome,    \* the exception the finally block runs under
  litter,     \* temporary files left behind
  failures,   \* archives that failed
  unpacked,   \* archives that succeeded
  exit,       \* the exit code
  requested,  \* history: the phase in which cancellation was requested
  late        \* history: the archives begun and the entries completed after that

progress == <<archive, completed>>
counts == <<failures, unpacked>>
cancelling == <<token, requested, late>>
extractor == <<content, overwrite, cancelling, phase, archives, progress, temporary, outcome, litter, counts, exit>>

Absent == <<"absent">>
Old == <<"old">>
Other == <<"other">>
Partial == <<"partial">>
Entry(a, k) == <<"entry", a, k>>

Targets == archives[archive]
Target == Targets[completed + 1]

Exists(path) == content[path] # Absent

-----------------------------------------------------------------------------
(* UnpackDirectoryAsync and RunAsync                                       *)

End(code) == phase' = "ended" /\ exit' = code

\* Which archives of the directory: all, the named ones or the ones the user picks.
SelectArchives ==
  /\ phase = "selecting"
  /\ \/ phase' = "next" /\ archives' \in Selections /\ UNCHANGED exit
     \/ End(1) /\ UNCHANGED archives     \* no archive, not one of that name, or an I/O error
     \/ End(2) /\ UNCHANGED archives     \* nothing selected, and nobody to ask
     \/ token /\ End(130) /\ UNCHANGED archives
  /\ UNCHANGED <<content, overwrite, cancelling, progress, temporary, outcome, litter, counts>>

\* `foreach`: the summary, the cancellation, or on to the next archive.
StartArchive ==
  /\ phase = "next"
  /\ \/ /\ archive = Len(archives)
        /\ End(IF failures = 0 THEN 0 ELSE 1)
     \/ /\ archive < Len(archives)
        /\ token
        /\ End(130)
     \/ /\ archive < Len(archives)
        /\ ~ token
        /\ phase' = "beginning"
        /\ UNCHANGED exit
  /\ UNCHANGED <<content, overwrite, cancelling, archives, progress, temporary, outcome, litter, counts>>

\* What is begun or completed although the request has come.
CountLate ==
  /\ late' = IF token THEN late + 1 ELSE late
  /\ UNCHANGED <<token, requested>>

\* The call of ExtractAsync.
BeginArchive ==
  /\ phase = "beginning"
  /\ archive' = archive + 1
  /\ completed' = 0
  /\ phase' = "planning"
  /\ CountLate
  /\ UNCHANGED <<content, overwrite, archives, temporary, outcome, litter, counts, exit>>

\* Mutant of Throw: a failed archive is not counted.
ThrowUncounted(kind) ==
  \/ kind = "cancelled" /\ End(130) /\ UNCHANGED failures
  \/ kind = "failed" /\ phase' = "next" /\ UNCHANGED <<failures, exit>>

\* ExtractAsync throws: an expected exception fails this archive and the loop
\* goes on, a cancellation ends the program.
Throw(kind) ==
  \/ /\ kind = "cancelled"
     /\ End(130)
     /\ UNCHANGED failures
  \/ /\ kind = "failed"
     /\ failures' = failures + 1
     /\ phase' = "next"
     /\ UNCHANGED exit

-----------------------------------------------------------------------------
(* ExtractAsync                                                            *)

\* Mutant of PlanIsValid: only the first entry is checked.
FirstIsValid ==
  Targets[1] \notin Unsafe /\ (overwrite \/ ~ Exists(Targets[1]))

\* The reader reads the archive and the whole plan is validated.
PlanIsValid ==
  /\ \A k \in 1..Len(Targets) : Targets[k] \notin Unsafe
  /\ IsInjective(Targets)
  /\ overwrite \/ \A k \in 1..Len(Targets) : ~ Exists(Targets[k])

Plan ==
  /\ phase = "planning"
  /\ \/ /\ PlanIsValid /\ ~ token
        /\ phase' = "entry"
        /\ UNCHANGED <<counts, exit>>
     \/ /\ token
        /\ Throw("cancelled")
        /\ UNCHANGED unpacked
     \/ /\ Throw("failed")      \* invalid, or the archive cannot be read
        /\ UNCHANGED unpacked
  /\ UNCHANGED <<content, overwrite, cancelling, archives, progress, temporary, outcome, litter>>

\* The head of the loop over the entries, up to the creation of the temporary
\* file; CheckExistingPath, CreateDirectory or the creation may fail.
BeginEntry ==
  /\ phase = "entry"
  /\ \/ /\ completed = Len(Targets)
        /\ unpacked' = unpacked + 1
        /\ phase' = "next"
        /\ UNCHANGED <<temporary, failures, exit>>
     \/ /\ completed < Len(Targets)
        /\ \/ token /\ Throw("cancelled") /\ UNCHANGED temporary
           \/ ~ token /\ Throw("failed") /\ UNCHANGED temporary
           \/ /\ ~ token
              /\ temporary' = Partial
              /\ phase' = "copying"
              /\ UNCHANGED <<failures, exit>>
        /\ UNCHANGED unpacked
  /\ UNCHANGED <<content, overwrite, cancelling, archives, progress, outcome, litter>>

Finally(kind) == phase' = "finally" /\ outcome' = kind

\* CopyBsaFileToAsync ends.
Copied ==
  /\ phase = "copying"
  /\ \/ /\ temporary' = Entry(archive, completed + 1)
        /\ phase' = "copied"
        /\ UNCHANGED outcome
     \/ /\ Finally("failed")
        /\ UNCHANGED temporary
     \/ /\ token
        /\ Finally("cancelled")
        /\ UNCHANGED temporary
  /\ UNCHANGED <<content, overwrite, cancelling, archives, progress, litter, counts, exit>>

\* Mutant of LastCheck: there is none.
LastCheckPasses ==
  /\ phase = "copied"
  /\ phase' = "moving"
  /\ UNCHANGED <<content, overwrite, cancelling, archives, progress, temporary, outcome, litter, counts, exit>>

\* The last cancellation check of an entry.
LastCheck ==
  /\ phase = "copied"
  /\ \/ token /\ Finally("cancelled")
     \/ ~ token /\ phase' = "moving" /\ UNCHANGED outcome
  /\ UNCHANGED <<content, overwrite, cancelling, archives, progress, temporary, litter, counts, exit>>

\* Mutant of Move: it replaces whatever is there.
MoveOver ==
  /\ phase = "moving"
  /\ content' = [content EXCEPT ![Target] = temporary]
  /\ temporary' = Absent
  /\ CountLate
  /\ Finally("none")
  /\ UNCHANGED <<overwrite, archives, progress, litter, counts, exit>>

\* File.Move, which nothing cancels any more.
Move ==
  /\ phase = "moving"
  /\ \/ /\ Finally("failed")    \* the target exists, or any other I/O error
        /\ UNCHANGED <<content, temporary, cancelling>>
     \/ /\ overwrite \/ ~ Exists(Target)
        /\ content' = [content EXCEPT ![Target] = temporary]
        /\ temporary' = Absent
        /\ CountLate
        /\ Finally("none")
  /\ UNCHANGED <<overwrite, archives, progress, litter, counts, exit>>

\* Mutant of Cleanup: the next entry is never reached.
CleanupRepeats ==
  /\ phase = "finally" /\ outcome = "none"
  /\ phase' = "entry"
  /\ UNCHANGED <<content, overwrite, cancelling, archives, progress, temporary, outcome, litter, counts, exit>>

\* The finally block: deleting the temporary file may fail, and that exception
\* then replaces the one under way.
Cleanup ==
  /\ phase = "finally"
  /\ temporary' = Absent
  /\ \/ /\ outcome = "none"
        /\ completed' = completed + 1
        /\ phase' = "entry"
        /\ UNCHANGED <<litter, failures, exit>>
     \/ /\ outcome # "none"
        /\ Throw(outcome)
        /\ UNCHANGED <<litter, completed>>
     \/ /\ outcome # "none"
        /\ litter' = litter + 1
        /\ Throw("failed")
        /\ UNCHANGED completed
  /\ UNCHANGED <<content, overwrite, cancelling, archives, archive, outcome, unpacked>>

-----------------------------------------------------------------------------
(* The surroundings                                                        *)

Running == phase \notin {"ended", "crashed"}

Cancel ==
  /\ Running /\ ~ token
  /\ token' = TRUE
  /\ requested' = phase
  /\ UNCHANGED <<content, overwrite, late, phase, archives, progress, temporary, outcome, litter, counts, exit>>

\* Another program creates a file.
Appear(path) ==
  /\ Running /\ ~ Exists(path)
  /\ content' = [content EXCEPT ![path] = Other]
  /\ UNCHANGED <<overwrite, cancelling, phase, archives, progress, temporary, outcome, litter, counts, exit>>

\* The process dies; its temporary file stays.
Crash ==
  /\ Running
  /\ phase' = "crashed"
  /\ litter' = IF temporary = Absent THEN litter ELSE litter + 1
  /\ temporary' = Absent
  /\ UNCHANGED <<content, overwrite, cancelling, archives, progress, outcome, counts, exit>>

ExtractorInit ==
  /\ \E old \in Existing : content = [p \in EntryPaths |-> IF p \in old THEN Old ELSE Absent]
  /\ overwrite \in BOOLEAN
  /\ token = FALSE
  /\ \/ phase = "selecting" /\ archives = <<>>
     \/ phase = "next" /\ archives \in {s \in Selections : Len(s) = 1}
  /\ archive = 0 /\ completed = 0
  /\ temporary = Absent
  /\ outcome = "none"
  /\ litter = 0
  /\ failures = 0 /\ unpacked = 0
  /\ exit = NoExit
  /\ requested = "never" /\ late = 0

Program ==
  SelectArchives \/ StartArchive \/ BeginArchive \/ Plan \/ BeginEntry \/ Copied \/ LastCheck
    \/ Move \/ Cleanup

ExtractorNext == Program \/ Cancel \/ Crash \/ \E path \in EntryPaths : Appear(path)

ExtractorSpec == ExtractorInit /\ [][ExtractorNext]_extractor

\* The program runs, and its reads and writes complete, until it crashes.
FairExtractorSpec == ExtractorSpec /\ WF_extractor(Program)

-----------------------------------------------------------------------------
(* Properties                                                              *)

\* Every path is absent, as it was found or as another program made it, or it is a
\* complete entry of a selected archive.
Contents ==
  {Absent, Old, Other} \cup
    UNION {{Entry(a, k) : k \in 1..Len(archives[a])} : a \in 1..Len(archives)}

TypeOK ==
  /\ content \in [EntryPaths -> Contents]
  /\ overwrite \in BOOLEAN /\ token \in BOOLEAN
  /\ phase \in {"selecting", "next", "beginning", "planning", "entry", "copying", "copied",
                "moving", "finally", "ended", "crashed"}
  /\ archives \in Seq(Seq(EntryPaths))
  /\ archive \in 0..Len(archives)
  /\ completed \in Nat /\ litter \in Nat /\ failures \in Nat /\ unpacked \in Nat
  /\ outcome \in {"none", "failed", "cancelled"}
  /\ exit \in {NoExit, 0, 1, 2, 130}

\* README.md:167-168, "failed/cancelled entries leave existing files intact":
\* without --overwrite no existing file is ever replaced, also when it appears
\* after the plan was checked; with it, only by an entry.  And what a path gets
\* is the complete entry that is meant for it, or what somebody else puts there.
ExistingIntact ==
  [][\A p \in EntryPaths : content'[p] # content[p] =>
       \/ content'[p] = Other /\ ~ Exists(p)
       \/ /\ Exists(p) => overwrite
          /\ \E a \in 1..Len(archives) : \E k \in 1..Len(archives[a]) :
               archives[a][k] = p /\ content'[p] = Entry(a, k)]_extractor

\* ArchiveExtractor.cs:15, "Validate the whole plan before writing anything": no
\* entry is written of an archive with a refused path or two entries on one path.
WholePlanFirst ==
  \A p \in EntryPaths : \A a \in 1..Len(archives) : \A k \in 1..Len(archives[a]) :
    content[p] = Entry(a, k) =>
      IsInjective(archives[a]) /\ \A j \in 1..Len(archives[a]) : archives[a][j] \notin Unsafe

\* README.md:172-173: the exit code tells what was done.  0: every archive was
\* unpacked, each path holds an entry of the last archive that has it, and no
\* temporary file is left; 1: every archive was tried and some failed, or none was
\* selected; 2: nothing was selected; 130: it was cancelled.
ExitCodeIsRight ==
  /\ exit = 0 =>
       /\ litter = 0 /\ unpacked = Len(archives)
       /\ \A a \in 1..Len(archives) : \A k \in 1..Len(archives[a]) :
            \E b \in a..Len(archives) : \E j \in 1..Len(archives[b]) :
              /\ archives[b][j] = archives[a][k]
              /\ content[archives[a][k]] = Entry(b, j)
  /\ exit = 1 /\ archive > 0 => failures > 0 /\ failures + unpacked = Len(archives)
  /\ exit = 2 => archive = 0
  /\ exit = 130 => token

\* The strengthening that makes these inductive.  What is on a path that nobody
\* else put there is the complete entry meant for it, of an archive that was begun:
\* nothing partial appears under its final name.
OwnEntries ==
  \A p \in EntryPaths : content[p] \notin {Absent, Old, Other} =>
    \E a \in 1..archive : \E k \in 1..Len(archives[a]) :
      archives[a][k] = p /\ content[p] = Entry(a, k)

\* The archive being unpacked: its plan is valid, the entries before the current
\* one are in place, and so is the current one after its move.
Unpacking == phase \in {"entry", "copying", "copied", "moving", "finally"}

InPlace(k) == content[Targets[k]] = Entry(archive, k)

PartlyDone ==
  Unpacking =>
    /\ archive > 0
    /\ IsInjective(Targets) /\ \A k \in 1..Len(Targets) : Targets[k] \notin Unsafe
    /\ completed \in 0..Len(Targets)
    /\ \A k \in 1..completed : InPlace(k)
    /\ phase # "entry" => completed < Len(Targets)
    /\ phase \in {"copied", "moving"} => temporary = Entry(archive, completed + 1)
    /\ phase = "finally" /\ outcome = "none" => InPlace(completed + 1)
    /\ phase = "finally" /\ outcome = "cancelled" => token

\* Each path of archive a holds an entry of it, or of a later one up to `last`.
Unpacked(a, last) ==
  \A k \in 1..Len(archives[a]) :
    \E b \in a..last : \E j \in 1..Len(archives[b]) :
      /\ archives[b][j] = archives[a][k]
      /\ content[archives[a][k]] = Entry(b, j)

\* The archives that were finished are counted, and unpacked if none failed.
Finished == IF phase \in {"selecting", "next", "beginning"} THEN archive ELSE archive - 1

FinishedUnpacked == \A a \in 1..Finished : Unpacked(a, archive)

CountsAreRight ==
  /\ phase = "selecting" => archive = 0 /\ archives = <<>>
  /\ phase = "planning" => archive > 0 /\ completed = 0
  /\ phase \in {"next", "beginning"} => archives # <<>>
  /\ phase = "beginning" => archive < Len(archives)
  /\ exit # NoExit <=> phase = "ended"
  /\ Running =>
       /\ failures + unpacked = Finished
       /\ litter > 0 => failures > 0
       /\ failures = 0 => FinishedUnpacked

ExtractorInv ==
  /\ TypeOK
  /\ OwnEntries
  /\ PartlyDone
  /\ CountsAreRight
  /\ WholePlanFirst
  /\ ExitCodeIsRight

\* README.md:173, "Ctrl+C cancels the active command": whenever the request comes, no
\* other archive is begun and no other entry is completed, except the one whose
\* cancellation check has just passed (ExtractionApplication.cs:62,
\* ArchiveExtractor.cs:54): that one is, and nothing after it.
CancelStops ==
  late = 0 \/ (late = 1 /\ requested \in {"beginning", "moving"})

\* The strengthening that makes it inductive: what has passed its check when the
\* request comes is still to be done.
LateInv ==
  /\ CancelStops
  /\ ~ token => late = 0
  /\ token /\ phase \in {"beginning", "moving"} => late = 0 /\ requested = phase

\* The program ends, or crashes; Ctrl+C does not make it hang.
ProgramEnds == <>(phase \in {"ended", "crashed"})
=============================================================================
