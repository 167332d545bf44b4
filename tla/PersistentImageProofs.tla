------------------------ MODULE PersistentImageProofs ------------------------
(***************************************************************************)
(* Proofs about PersistentImage, for every set of contents and any number    *)
(* of temporary names, bad files and failed operations.                      *)
(***************************************************************************)
EXTENDS PersistentImage, TLAPS

\* A publication past the creation of its temporary file, and past its sync.
Writing == {"write", "old", "move", "install", "undo", "cleanup"}
Synced == {"old", "move", "install", "undo"}

\* Where a publication is, and what its locals and its files then are.
Progress ==
    /\ pc \in Writing => mine \in Temporary
    /\ pc \in Synced => temporaries[mine] = File(working, TRUE)
    /\ pc = "move" => primary.there /\ ~opening
    /\ pc = "undo" => ~primary.there /\ ~opening
    /\ moved => ~opening
    /\ pc \in {"closed", "idle"} => ~opening
    /\ pc = "install" => ~primary.there

\* Which contents the two files can have, intact or not.
Contents ==
    /\ primary.there => primary.payload = saved
    /\ backup.there => backup.payload \in {saved, previous}
    /\ saved # Nothing => primary.there \/ backup.there
    /\ opening => backup.there \/ ~primary.there
    /\ opening /\ backup.there => backup.payload = working
    /\ pc # "closed" /\ ~opening /\ ~primary.there /\ backup.there
          => backup.payload = saved

\* While nothing has gone bad the files are whole and an image that is being
\* opened from its recovery copy has no primary.
Whole ==
    faults = 0 =>
        /\ primary.there => primary.intact
        /\ backup.there => backup.intact
        /\ opening => ~primary.there
        /\ ~primary.there /\ backup.there => backup.payload = saved
        /\ ~primary.there /\ ~backup.there => saved = Nothing

\* What is not dirty is saved.
Clean ==
    /\ CleanMeansSaved
    /\ pc \notin {"closed", "idle"} /\ ~opening => dirty

IInv == TypeOK /\ Progress /\ Contents /\ Whole /\ Clean

USE DEF fileVars, historyVars, budgetVars, publishVars, vars

\* The three parts of TypeOK, proved separately.
FilesTyped ==
    /\ primary \in FileState /\ backup \in FileState
    /\ temporaries \in [Temporary -> FileState]

RestTyped ==
    /\ working \in Payload /\ dirty \in BOOLEAN
    /\ pc \in {"closed", "idle", "temporary", "write", "old", "move", "install",
               "undo", "cleanup"}
    /\ opening \in BOOLEAN /\ moved \in BOOLEAN
    /\ saved \in Payload \cup {Nothing} /\ previous \in Payload \cup {Nothing}
    /\ imported \in BOOLEAN

CountersTyped ==
    /\ mine \in Temporary \cup {0}
    /\ faults \in 0 .. MaxFaults /\ errors \in 0 .. MaxErrors

\* What the constructors of a file's state build.
LEMMA FileTypes ==
    /\ Absent \in FileState
    /\ \A p \in Payload, ok \in BOOLEAN : File(p, ok) \in FileState
    /\ \A f \in FileState : f.payload \in Payload
BY PersistentImageAssumption DEF Absent, File, FileState

\* The fields of the files that the constructors build.
LEMMA FileFields ==
    /\ ~Absent.there
    /\ \A p, ok : /\ File(p, ok).there /\ File(p, ok).payload = p
                  /\ File(p, ok).intact = ok
BY DEF Absent, File

\* Both files are there, or not, as they were, and hold the same contents.
FilesAlike ==
    /\ primary'.there <=> primary.there
    /\ backup'.there <=> backup.there
    /\ primary'.payload = primary.payload
    /\ backup'.payload = backup.payload

\* Only the verdict on a file changes when it goes bad.
LEMMA GoesBadKeeps == GoesBad => FilesAlike
<1>1. ASSUME Decodes(primary), primary' = File(primary.payload, FALSE), backup' = backup
      PROVE  FilesAlike
  BY <1>1, FileFields, Zenon DEF FilesAlike, Decodes
<1>2. ASSUME Decodes(backup), backup' = File(backup.payload, FALSE), primary' = primary
      PROVE  FilesAlike
  BY <1>2, FileFields DEF FilesAlike, Decodes
<1>. QED
  BY <1>1, <1>2, Zenon DEF GoesBad

\* The file that Install puts in place is the one that was synchronised.
LEMMA InstallWrites ==
    IInv /\ Install => primary'.there /\ primary'.intact /\ primary'.payload = working
<1> SUFFICES ASSUME IInv, Install
             PROVE  primary'.there /\ primary'.intact /\ primary'.payload = working
  OBVIOUS
<1>1. primary' = File(working, TRUE)
  BY DEF IInv, Progress, Synced, Install
<1>. QED
  BY <1>1, FileFields, Zenon

\* The initial state: no file, no image.
LEMMA InitHolds == Init => IInv
<1> SUFFICES ASSUME Init PROVE IInv
  OBVIOUS
<1>1. FilesTyped
  BY FileTypes DEF Init, FilesTyped
<1>2. RestTyped
  BY PersistentImageAssumption, Zenon DEF Init, RestTyped
<1>3. CountersTyped
  BY PersistentImageAssumption DEF Init, CountersTyped
<1>4. Progress /\ Contents /\ Whole /\ Clean
  BY FileFields DEF Init, Progress, Contents, Whole, Clean, CleanMeansSaved, Writing, Synced
<1>. QED
  BY <1>1, <1>2, <1>3, <1>4 DEF IInv, TypeOK, FilesTyped, RestTyped, CountersTyped

\* Every step keeps the types of the files.
LEMMA FilesTypedStep == IInv /\ [Next]_vars => FilesTyped'
<1> SUFFICES ASSUME IInv, [Next]_vars PROVE FilesTyped'
  OBVIOUS
<1> USE FileTypes DEF IInv, TypeOK, FilesTyped, Progress, Writing, Synced
<1>1. CASE OpenPrimary
  BY <1>1 DEF OpenPrimary, Load
<1>2. CASE OpenBackup
  BY <1>2 DEF OpenBackup, Load
<1>3. CASE OpenNew
  BY <1>3 DEF OpenNew, Load
<1>4. CASE \E n \in Temporary : CreateTemporary(n)
  BY <1>4, Zenon DEF CreateTemporary
<1>5. CASE WriteTemporary
  BY <1>5, Zenon DEF WriteTemporary
<1>6. CASE RemoveOld
  BY <1>6 DEF RemoveOld
<1>7. CASE MovePrimary
  BY <1>7 DEF MovePrimary
<1>8. CASE Install
  BY <1>8, Zenon DEF Install
<1>9. CASE FailCreate
  BY <1>9 DEF FailCreate, Abandon
<1>10. CASE FailStep
  BY <1>10 DEF FailStep
<1>11. CASE Undo
  BY <1>11 DEF Undo
<1>12. CASE Cleanup
  BY <1>12 DEF Cleanup, Abandon
<1>13. CASE \E p \in Payload : Write(p)
  BY <1>13 DEF Write
<1>14. CASE \E p \in Payload, d \in BOOLEAN : CommitPreparedRestore(p, d)
  BY <1>14 DEF CommitPreparedRestore
<1>15. CASE Save
  BY <1>15 DEF Save
<1>16. CASE Crash
  BY <1>16 DEF Crash
<1>17. CASE GoesBad
  BY <1>17, Zenon DEF GoesBad
<1>18. CASE UNCHANGED vars
  BY <1>18
<1>. QED
  BY <1>1, <1>2, <1>3, <1>4, <1>5, <1>6, <1>7, <1>8, <1>9,
     <1>10, <1>11, <1>12, <1>13, <1>14, <1>15, <1>16, <1>17, <1>18
     DEF Next, Publish

\* Every step keeps the types of the other variables.
LEMMA RestTypedStep == IInv /\ [Next]_vars => RestTyped'
<1> SUFFICES ASSUME IInv, [Next]_vars PROVE RestTyped'
  OBVIOUS
<1> USE FileTypes, PersistentImageAssumption DEF IInv, TypeOK, RestTyped
<1>1. CASE OpenPrimary
  BY <1>1, Zenon DEF OpenPrimary, Load
<1>2. CASE OpenBackup
  BY <1>2, Zenon DEF OpenBackup, Load
<1>3. CASE OpenNew
  BY <1>3, Zenon DEF OpenNew, Load
<1>4. CASE \E n \in Temporary : CreateTemporary(n)
  BY <1>4, Zenon DEF CreateTemporary
<1>5. CASE WriteTemporary
  BY <1>5 DEF WriteTemporary
<1>6. CASE RemoveOld
  BY <1>6 DEF RemoveOld
<1>7. CASE MovePrimary
  BY <1>7 DEF MovePrimary
<1>8. CASE Install
  BY <1>8, Zenon DEF Install
<1>9. CASE FailCreate
  BY <1>9, Zenon DEF FailCreate, Abandon
<1>10. CASE FailStep
  BY <1>10 DEF FailStep
<1>11. CASE Undo
  BY <1>11 DEF Undo
<1>12. CASE Cleanup
  BY <1>12, Zenon DEF Cleanup, Abandon
<1>13. CASE \E p \in Payload : Write(p)
  BY <1>13 DEF Write
<1>14. CASE \E p \in Payload, d \in BOOLEAN : CommitPreparedRestore(p, d)
  BY <1>14 DEF CommitPreparedRestore
<1>15. CASE Save
  BY <1>15, Zenon DEF Save
<1>16. CASE Crash
  BY <1>16, Zenon DEF Crash
<1>17. CASE GoesBad
  BY <1>17 DEF GoesBad
<1>18. CASE UNCHANGED vars
  BY <1>18
<1>. QED
  BY <1>1, <1>2, <1>3, <1>4, <1>5, <1>6, <1>7, <1>8, <1>9,
     <1>10, <1>11, <1>12, <1>13, <1>14, <1>15, <1>16, <1>17, <1>18
     DEF Next, Publish

\* Every step keeps the counters within their limits.
LEMMA CountersTypedStep == IInv /\ [Next]_vars => CountersTyped'
<1> SUFFICES ASSUME IInv, [Next]_vars PROVE CountersTyped'
  OBVIOUS
<1> USE PersistentImageAssumption DEF IInv, TypeOK, CountersTyped, Temporary
<1>1. CASE OpenPrimary
  BY <1>1 DEF OpenPrimary, Load
<1>2. CASE OpenBackup
  BY <1>2 DEF OpenBackup, Load
<1>3. CASE OpenNew
  BY <1>3 DEF OpenNew, Load
<1>4. CASE \E n \in Temporary : CreateTemporary(n)
  BY <1>4 DEF CreateTemporary
<1>5. CASE WriteTemporary
  BY <1>5 DEF WriteTemporary
<1>6. CASE RemoveOld
  BY <1>6 DEF RemoveOld
<1>7. CASE MovePrimary
  BY <1>7 DEF MovePrimary
<1>8. CASE Install
  BY <1>8 DEF Install
<1>9. CASE FailCreate
  BY <1>9 DEF FailCreate, Abandon
<1>10. CASE FailStep
  BY <1>10 DEF FailStep
<1>11. CASE Undo
  BY <1>11 DEF Undo
<1>12. CASE Cleanup
  BY <1>12 DEF Cleanup, Abandon
<1>13. CASE \E p \in Payload : Write(p)
  BY <1>13 DEF Write
<1>14. CASE \E p \in Payload, d \in BOOLEAN : CommitPreparedRestore(p, d)
  BY <1>14 DEF CommitPreparedRestore
<1>15. CASE Save
  BY <1>15 DEF Save
<1>16. CASE Crash
  BY <1>16 DEF Crash
<1>17. CASE GoesBad
  BY <1>17 DEF GoesBad
<1>18. CASE UNCHANGED vars
  BY <1>18
<1>. QED
  BY <1>1, <1>2, <1>3, <1>4, <1>5, <1>6, <1>7, <1>8, <1>9,
     <1>10, <1>11, <1>12, <1>13, <1>14, <1>15, <1>16, <1>17, <1>18, SMTT(30)
     DEF Next, Publish

\* Every step keeps the locals of a publication and its temporary file in order.
LEMMA ProgressStep == IInv /\ [Next]_vars => Progress'
<1> SUFFICES ASSUME IInv, [Next]_vars PROVE Progress'
  OBVIOUS
<1> USE FileFields DEF IInv, TypeOK, Progress, Writing, Synced
<1>1. CASE OpenPrimary
  BY <1>1 DEF OpenPrimary, Load
<1>2. CASE OpenBackup
  BY <1>2 DEF OpenBackup, Load
<1>3. CASE OpenNew
  BY <1>3 DEF OpenNew, Load
<1>4. CASE \E n \in Temporary : CreateTemporary(n)
  BY <1>4 DEF CreateTemporary
<1>5. CASE WriteTemporary
  BY <1>5 DEF WriteTemporary
<1>6. CASE RemoveOld
  BY <1>6 DEF RemoveOld
<1>7. CASE MovePrimary
  BY <1>7 DEF MovePrimary
<1>8. CASE Install
  BY <1>8 DEF Install
<1>9. CASE FailCreate
  BY <1>9 DEF FailCreate, Abandon
<1>10. CASE FailStep
  BY <1>10, Zenon DEF FailStep
<1>11. CASE Undo
  BY <1>11 DEF Undo
<1>12. CASE Cleanup
  BY <1>12 DEF Cleanup, Abandon
<1>13. CASE \E p \in Payload : Write(p)
  BY <1>13 DEF Write
<1>14. CASE \E p \in Payload, d \in BOOLEAN : CommitPreparedRestore(p, d)
  BY <1>14 DEF CommitPreparedRestore
<1>15. CASE Save
  BY <1>15 DEF Save
<1>16. CASE Crash
  BY <1>16 DEF Crash
<1>17. CASE GoesBad
  <2>1. FilesAlike
    BY <1>17, GoesBadKeeps DEF FilesTyped
  <2>. QED
    BY <1>17, <2>1, Zenon DEF GoesBad, FilesAlike
<1>18. CASE UNCHANGED vars
  BY <1>18
<1>. QED
  BY <1>1, <1>2, <1>3, <1>4, <1>5, <1>6, <1>7, <1>8, <1>9,
     <1>10, <1>11, <1>12, <1>13, <1>14, <1>15, <1>16, <1>17, <1>18, Zenon
     DEF Next, Publish

\* Every step keeps the last content, or the one before it, in each file.
LEMMA ContentsStep == IInv /\ [Next]_vars => Contents'
<1> SUFFICES ASSUME IInv, [Next]_vars PROVE Contents'
  OBVIOUS
<1> USE FileFields DEF IInv, TypeOK, Progress, Contents, Decodes, Writing, Synced
<1>1. CASE OpenPrimary
  BY <1>1 DEF OpenPrimary, Load
<1>2. CASE OpenBackup
  BY <1>2, Zenon DEF OpenBackup, Load
<1>3. CASE OpenNew
  BY <1>3 DEF OpenNew, Load
<1>4. CASE \E n \in Temporary : CreateTemporary(n)
  BY <1>4 DEF CreateTemporary
<1>5. CASE WriteTemporary
  BY <1>5 DEF WriteTemporary
<1>6. CASE RemoveOld
  BY <1>6 DEF RemoveOld
<1>7. CASE MovePrimary
  BY <1>7 DEF MovePrimary
<1>8. CASE Install
  <2>1. primary'.there /\ primary'.intact /\ primary'.payload = working
    BY <1>8, InstallWrites
  <2>. QED
    BY <1>8, <2>1, Zenon DEF Install
<1>9. CASE FailCreate
  BY <1>9 DEF FailCreate, Abandon
<1>10. CASE FailStep
  BY <1>10 DEF FailStep
<1>11. CASE Undo
  BY <1>11 DEF Undo
<1>12. CASE Cleanup
  BY <1>12 DEF Cleanup, Abandon
<1>13. CASE \E p \in Payload : Write(p)
  BY <1>13 DEF Write
<1>14. CASE \E p \in Payload, d \in BOOLEAN : CommitPreparedRestore(p, d)
  BY <1>14 DEF CommitPreparedRestore
<1>15. CASE Save
  BY <1>15 DEF Save
<1>16. CASE Crash
  BY <1>16 DEF Crash
<1>17. CASE GoesBad
  <2>1. FilesAlike
    BY <1>17, GoesBadKeeps DEF FilesTyped
  <2>. QED
    BY <1>17, <2>1 DEF GoesBad, FilesAlike
<1>18. CASE UNCHANGED vars
  BY <1>18
<1>. QED
  BY <1>1, <1>2, <1>3, <1>4, <1>5, <1>6, <1>7, <1>8, <1>9,
     <1>10, <1>11, <1>12, <1>13, <1>14, <1>15, <1>16, <1>17, <1>18, Zenon
     DEF Next, Publish

\* Every step that spoils nothing keeps the last content to be loaded.
LEMMA WholeStep == IInv /\ [Next]_vars => Whole'
<1> SUFFICES ASSUME IInv, [Next]_vars PROVE Whole'
  OBVIOUS
<1> USE FileFields, PersistentImageAssumption DEF IInv, TypeOK, Progress, Contents, Whole, Decodes, Writing, Synced
<1>1. CASE OpenPrimary
  BY <1>1 DEF OpenPrimary, Load
<1>2. CASE OpenBackup
  BY <1>2 DEF OpenBackup, Load
<1>3. CASE OpenNew
  BY <1>3 DEF OpenNew, Load
<1>4. CASE \E n \in Temporary : CreateTemporary(n)
  BY <1>4, SMTT(30) DEF CreateTemporary
<1>5. CASE WriteTemporary
  BY <1>5, SMTT(30) DEF WriteTemporary
<1>6. CASE RemoveOld
  BY <1>6 DEF RemoveOld
<1>7. CASE MovePrimary
  BY <1>7 DEF MovePrimary
<1>8. CASE Install
  <2>1. primary'.there /\ primary'.intact /\ primary'.payload = working
    BY <1>8, InstallWrites
  <2>. QED
    BY <1>8, <2>1, SMTT(30) DEF Install
<1>9. CASE FailCreate
  BY <1>9 DEF FailCreate, Abandon
<1>10. CASE FailStep
  BY <1>10 DEF FailStep
<1>11. CASE Undo
  BY <1>11 DEF Undo
<1>12. CASE Cleanup
  BY <1>12 DEF Cleanup, Abandon
<1>13. CASE \E p \in Payload : Write(p)
  BY <1>13 DEF Write
<1>14. CASE \E p \in Payload, d \in BOOLEAN : CommitPreparedRestore(p, d)
  BY <1>14 DEF CommitPreparedRestore
<1>15. CASE Save
  BY <1>15 DEF Save
<1>16. CASE Crash
  BY <1>16, SMTT(30) DEF Crash
<1>17. CASE GoesBad
  <2>1. FilesAlike
    BY <1>17, GoesBadKeeps, SMTT(30) DEF FilesTyped
  <2>. QED
    BY <1>17, <2>1 DEF GoesBad, FilesAlike
<1>18. CASE UNCHANGED vars
  BY <1>18
<1>. QED
  BY <1>1, <1>2, <1>3, <1>4, <1>5, <1>6, <1>7, <1>8, <1>9,
     <1>10, <1>11, <1>12, <1>13, <1>14, <1>15, <1>16, <1>17, <1>18, Zenon
     DEF Next, Publish

\* Every step keeps the dirty flag honest.
LEMMA CleanStep == IInv /\ [Next]_vars => Clean'
<1> SUFFICES ASSUME IInv, [Next]_vars PROVE Clean'
  OBVIOUS
<1> USE FileFields DEF IInv, TypeOK, Progress, Contents, Clean, CleanMeansSaved, Decodes, Writing, Synced
<1>1. CASE OpenPrimary
  BY <1>1 DEF OpenPrimary, Load
<1>2. CASE OpenBackup
  BY <1>2, Zenon DEF OpenBackup, Load
<1>3. CASE OpenNew
  BY <1>3, Zenon DEF OpenNew, Load
<1>4. CASE \E n \in Temporary : CreateTemporary(n)
  BY <1>4 DEF CreateTemporary
<1>5. CASE WriteTemporary
  BY <1>5 DEF WriteTemporary
<1>6. CASE RemoveOld
  BY <1>6 DEF RemoveOld
<1>7. CASE MovePrimary
  BY <1>7 DEF MovePrimary
<1>8. CASE Install
  BY <1>8 DEF Install
<1>9. CASE FailCreate
  BY <1>9 DEF FailCreate, Abandon
<1>10. CASE FailStep
  BY <1>10 DEF FailStep
<1>11. CASE Undo
  BY <1>11 DEF Undo
<1>12. CASE Cleanup
  BY <1>12 DEF Cleanup, Abandon
<1>13. CASE \E p \in Payload : Write(p)
  BY <1>13 DEF Write
<1>14. CASE \E p \in Payload, d \in BOOLEAN : CommitPreparedRestore(p, d)
  BY <1>14 DEF CommitPreparedRestore
<1>15. CASE Save
  BY <1>15 DEF Save
<1>16. CASE Crash
  BY <1>16 DEF Crash
<1>17. CASE GoesBad
  BY <1>17 DEF GoesBad
<1>18. CASE UNCHANGED vars
  BY <1>18
<1>. QED
  BY <1>1, <1>2, <1>3, <1>4, <1>5, <1>6, <1>7, <1>8, <1>9,
     <1>10, <1>11, <1>12, <1>13, <1>14, <1>15, <1>16, <1>17, <1>18
     DEF Next, Publish

\* Together they are the inductive invariant.
THEOREM Inductive == Spec => []IInv
<1>1. IInv /\ [Next]_vars => IInv'
  BY FilesTypedStep, RestTypedStep, CountersTypedStep, ProgressStep, ContentsStep,
     WholeStep, CleanStep
     DEF IInv, TypeOK, FilesTyped, RestTyped, CountersTyped
<1>. QED
  BY InitHolds, <1>1, PTL DEF Spec

\* For all contents and limits: with no file gone bad, whatever crashes and errors
\* happen in publish() and load(), the next open() finds the content last published.
THEOREM SaveSurvives == Spec => [](TypeOK /\ LastSaveSurvives)
<1>1. IInv => TypeOK /\ LastSaveSurvives
  BY DEF IInv, Contents, Whole, LastSaveSurvives, Recoverable, Decodes
<1>. QED
  BY Inductive, <1>1, PTL

\* For all contents and limits: an image that is clean has been published.
THEOREM CleanIsSaved == Spec => []CleanMeansSaved
<1>1. IInv => CleanMeansSaved
  BY DEF IInv, Clean
<1>. QED
  BY Inductive, <1>1, PTL

\* For all contents and limits, also with bad files: open() never starts over.
THEOREM NeverStartsOver == Spec => NoSilentReset
<1>1. IInv /\ [Next]_vars
        => [pc = "closed" /\ pc' # "closed" /\ saved # Nothing
              => working' \in {saved, previous}]_vars
  <2> SUFFICES ASSUME IInv, Next, pc = "closed", pc' # "closed", saved # Nothing
               PROVE  working' \in {saved, previous}
    BY SMTT(30)
  <2>1. OpenPrimary \/ OpenBackup \/ OpenNew
    BY DEF Next, Publish, CreateTemporary, WriteTemporary, RemoveOld, MovePrimary,
           Install, FailCreate, FailStep, Undo, Cleanup, Write, CommitPreparedRestore,
           Save, Crash, GoesBad
  <2>. QED
    BY <2>1 DEF OpenPrimary, OpenBackup, OpenNew, Load, IInv, Contents, Decodes
<1>. QED
  BY Inductive, <1>1, PTL DEF Spec, NoSilentReset

=============================================================================
