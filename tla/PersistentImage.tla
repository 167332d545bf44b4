--------------------------- MODULE PersistentImage ---------------------------
(***************************************************************************)
(* katana::runtime::PersistentImage: the working copy of a flash or VMU      *)
(* image, kept in a primary file, the `.recovery` file beside it, and the     *)
(* temporary files of publications in progress.  A step is one operation on   *)
(* the file system, and between any two of them the process may die, an       *)
(* operation may fail, or a stored file may go bad.                           *)
(*                                                                         *)
(* The file system is external: renaming and removing are atomic and keep    *)
(* their order across a crash, and what a file holds is certain only once it  *)
(* is synchronised.  Of a container's header only its verdict is kept: it is  *)
(* intact or not.  A source file that has changed makes open() and save()     *)
(* throw before they change anything, which is not a step, and so do a path    *)
(* that is a link and a container for another kind of image.                  *)
(***************************************************************************)
EXTENDS Naturals

CONSTANTS
    Payload,         \* the contents of an image
    Source,          \* the one a new working copy starts from
    MaxTemporaries,  \* attempts of temporary_path()
    MaxFaults,       \* files that go bad, and transient errors in reading one
    MaxErrors        \* file-system operations that fail

ASSUME PersistentImageAssumption ==
    /\ Source \in Payload
    /\ MaxTemporaries \in Nat /\ MaxFaults \in Nat /\ MaxErrors \in Nat

VARIABLES
    primary,      \* the file at config_.working_path, Absent if there is none
    backup,       \* the file at recovery_path_
    temporaries,  \* the files at working_path.tmp-<n>
    working,      \* working_
    dirty,        \* dirty_
    pc,           \* where the process is; "closed" while no image is open
    opening,      \* does publish() run inside load()?
    moved,        \* moved_primary
    mine,         \* the temporary file publish() writes, 0 for none
    saved,        \* history: the content last published,
    previous,     \*   the one published before it,
    imported,     \*   has a handoff replaced working_ since?
    faults, errors

fileVars == <<primary, backup, temporaries>>
historyVars == <<saved, previous, imported>>
budgetVars == <<faults, errors>>
vars == <<fileVars, working, dirty, pc, opening, moved, mine, historyVars, budgetVars>>

Temporary == 1 .. MaxTemporaries
Absent == [there |-> FALSE, intact |-> FALSE, payload |-> Source]
File(p, ok) == [there |-> TRUE, intact |-> ok, payload |-> p]
FileState == [there : BOOLEAN, intact : BOOLEAN, payload : Payload]
Nothing == "nothing"

Init ==
    /\ primary = Absent /\ backup = Absent
    /\ temporaries = [n \in Temporary |-> Absent]
    /\ working = Source /\ dirty = FALSE
    /\ pc = "closed" /\ opening = FALSE /\ moved = FALSE /\ mine = 0
    /\ saved = Nothing /\ previous = Nothing /\ imported = FALSE
    /\ faults = 0 /\ errors = 0

\* decode_container(): signature, contract, sizes and both hashes hold.
Decodes(f) == f.there /\ f.intact

-----------------------------------------------------------------------------
(* open(): load() decides which copy to believe.                            *)

Load(p, label) ==
    /\ working' = p /\ dirty' = FALSE /\ imported' = FALSE
    /\ pc' = label /\ opening' = (label # "idle")
    /\ moved' = FALSE /\ mine' = 0
    /\ UNCHANGED <<fileVars, saved, previous, errors>>

OpenPrimary ==
    /\ pc = "closed"
    /\ Decodes(primary)
    /\ Load(primary.payload, "idle")
    /\ UNCHANGED faults

\* The primary is missing or unreadable, for whatever reason, once or for good.
OpenBackup ==
    /\ pc = "closed"
    /\ \/ ~Decodes(primary) /\ UNCHANGED faults
       \/ Decodes(primary) /\ faults < MaxFaults /\ faults' = faults + 1
    /\ Decodes(backup)
    /\ Load(backup.payload, "temporary")

ForgetsBackup ==
    /\ pc = "closed"
    /\ ~primary.there
    /\ \E p \in Payload : Load(p, "temporary")
    /\ UNCHANGED faults
\* From the source, or from the initial working copy of an image without one.
OpenNew ==
    /\ pc = "closed"
    /\ ~primary.there /\ ~backup.there
    /\ \E p \in Payload : Load(p, "temporary")
    /\ UNCHANGED faults

-----------------------------------------------------------------------------
(* publish(): temporary file, synchronisation, old copy, new copy.           *)

publishVars == <<working, opening, saved, previous, imported>>

\* temporary_path() takes the first free name; the file is created.
CreateTemporary(n) ==
    /\ pc = "temporary"
    /\ ~temporaries[n].there
    /\ \A k \in Temporary : k < n => temporaries[k].there
    /\ temporaries' = [temporaries EXCEPT ![n] = File(working, FALSE)]
    /\ mine' = n /\ moved' = FALSE
    /\ pc' = "write"
    /\ UNCHANGED <<primary, backup, dirty, publishVars, budgetVars>>

SkipsSync ==
    /\ pc = "write"
    /\ pc' = "old"
    /\ UNCHANGED <<fileVars, dirty, moved, mine, publishVars, budgetVars>>
\* durable_write(): written, flushed and synchronised.
WriteTemporary ==
    /\ pc = "write"
    /\ temporaries' = [temporaries EXCEPT ![mine] = File(working, TRUE)]
    /\ pc' = "old"
    /\ UNCHANGED <<primary, backup, dirty, moved, mine, publishVars, budgetVars>>

\* save() makes room for the primary; load() removes a primary it rejected.
RemoveOld ==
    /\ pc = "old"
    /\ IF opening
          THEN primary' = Absent /\ UNCHANGED backup /\ pc' = "install"
          ELSE /\ backup' = IF primary.there THEN Absent ELSE backup
               /\ UNCHANGED primary
               /\ pc' = IF primary.there THEN "move" ELSE "install"
    /\ UNCHANGED <<temporaries, dirty, moved, mine, publishVars, budgetVars>>

MovePrimary ==
    /\ pc = "move"
    /\ backup' = primary /\ primary' = Absent
    /\ moved' = TRUE
    /\ pc' = "install"
    /\ UNCHANGED <<temporaries, dirty, mine, publishVars, budgetVars>>

\* The new primary is in place; save() has nothing left to write.
Install ==
    /\ pc = "install"
    /\ primary' = temporaries[mine]
    /\ temporaries' = [temporaries EXCEPT ![mine] = Absent]
    /\ dirty' = FALSE
    /\ saved' = working /\ previous' = saved
    /\ imported' = FALSE
    /\ opening' = FALSE /\ moved' = FALSE /\ mine' = 0
    /\ pc' = "idle"
    /\ UNCHANGED <<backup, working, budgetVars>>

-----------------------------------------------------------------------------
(* A file-system operation of publish() fails.                              *)

\* The exception leaves save(), or load() and with it the image.
Abandon ==
    /\ pc' = IF opening THEN "closed" ELSE "idle"
    /\ opening' = FALSE /\ moved' = FALSE /\ mine' = 0
    /\ working' = IF opening THEN Source ELSE working
    /\ UNCHANGED historyVars

\* The parent directory, the temporary file, or no free name for it.
FailCreate ==
    /\ pc = "temporary"
    /\ \/ errors < MaxErrors /\ errors' = errors + 1
       \/ (\A n \in Temporary : temporaries[n].there) /\ UNCHANGED errors
    /\ Abandon
    /\ UNCHANGED <<fileVars, dirty, faults>>

FailStep ==
    /\ pc \in {"write", "old", "move", "install"}
    /\ errors < MaxErrors /\ errors' = errors + 1
    /\ pc' = IF pc = "install" /\ moved /\ ~primary.there THEN "undo" ELSE "cleanup"
    /\ UNCHANGED <<fileVars, dirty, moved, mine, publishVars, faults>>

\* The old primary goes back to its place, if that rename succeeds.
Undo ==
    /\ pc = "undo"
    /\ \/ primary' = backup /\ backup' = Absent /\ UNCHANGED errors
       \/ errors < MaxErrors /\ errors' = errors + 1 /\ UNCHANGED <<primary, backup>>
    /\ pc' = "cleanup"
    /\ UNCHANGED <<temporaries, dirty, moved, mine, publishVars, faults>>

\* An error in removing the temporary file is ignored.
Cleanup ==
    /\ pc = "cleanup"
    /\ \/ temporaries' = [temporaries EXCEPT ![mine] = Absent] /\ UNCHANGED errors
       \/ errors < MaxErrors /\ errors' = errors + 1 /\ UNCHANGED temporaries
    /\ Abandon
    /\ UNCHANGED <<primary, backup, dirty, faults>>

Publish ==
    \/ \E n \in Temporary : CreateTemporary(n)
    \/ WriteTemporary \/ RemoveOld \/ MovePrimary \/ Install
    \/ FailCreate \/ FailStep \/ Undo \/ Cleanup

-----------------------------------------------------------------------------
(* An open image, and its environment.                                      *)

\* write() and write_byte(); writing what is there already changes nothing.
Write(p) ==
    /\ pc = "idle"
    /\ p # working
    /\ working' = p /\ dirty' = TRUE
    /\ UNCHANGED <<fileVars, pc, opening, moved, mine, historyVars, budgetVars>>

SaveForgetsEarly ==
    /\ pc = "idle"
    /\ dirty
    /\ dirty' = FALSE
    /\ pc' = "temporary" /\ opening' = FALSE
    /\ UNCHANGED <<fileVars, working, moved, mine, historyVars, budgetVars>>
\* save() of an image that has changed.
Save ==
    /\ pc = "idle"
    /\ dirty
    /\ pc' = "temporary" /\ opening' = FALSE
    /\ UNCHANGED <<fileVars, working, dirty, moved, mine, historyVars, budgetVars>>

\* commit_prepared_working_copy_restore() of a DiagnosticLossless handoff, which
\* brings its own dirty flag; a product handoff leaves the image alone.
CommitPreparedRestore(p, d) ==
    /\ pc = "idle"
    /\ working' = p /\ dirty' = d
    /\ imported' = TRUE
    /\ UNCHANGED <<fileVars, pc, opening, moved, mine, saved, previous, budgetVars>>

\* The process ends, between any two steps, and takes working_ with it.
Crash ==
    /\ pc # "closed"
    /\ pc' = "closed"
    /\ working' = Source /\ dirty' = FALSE /\ imported' = FALSE
    /\ opening' = FALSE /\ moved' = FALSE /\ mine' = 0
    /\ UNCHANGED <<fileVars, saved, previous, budgetVars>>

\* A stored file goes bad.
GoesBad ==
    /\ faults < MaxFaults /\ faults' = faults + 1
    /\ \/ Decodes(primary) /\ primary' = File(primary.payload, FALSE) /\ UNCHANGED backup
       \/ Decodes(backup) /\ backup' = File(backup.payload, FALSE) /\ UNCHANGED primary
    /\ UNCHANGED <<temporaries, working, dirty, pc, opening, moved, mine, historyVars,
                   errors>>

-----------------------------------------------------------------------------
Next ==
    \/ OpenPrimary \/ OpenBackup \/ OpenNew
    \/ Publish
    \/ \E p \in Payload : Write(p)
    \/ \E p \in Payload, d \in BOOLEAN : CommitPreparedRestore(p, d)
    \/ Save \/ Crash \/ GoesBad

Spec == Init /\ [][Next]_vars

-----------------------------------------------------------------------------
(* Properties.                                                              *)

\* Every variable stays in its type.
TypeOK ==
    /\ primary \in FileState /\ backup \in FileState
    /\ temporaries \in [Temporary -> FileState]
    /\ working \in Payload /\ dirty \in BOOLEAN
    /\ pc \in {"closed", "idle", "temporary", "write", "old", "move", "install",
               "undo", "cleanup"}
    /\ opening \in BOOLEAN /\ moved \in BOOLEAN
    /\ mine \in Temporary \cup {0}
    /\ saved \in Payload \cup {Nothing} /\ previous \in Payload \cup {Nothing}
    /\ imported \in BOOLEAN
    /\ faults \in 0 .. MaxFaults /\ errors \in 0 .. MaxErrors

\* What the next open() would give: the primary, else the recovery copy.
Recoverable ==
    CASE Decodes(primary) -> primary.payload
      [] ~Decodes(primary) /\ Decodes(backup) -> backup.payload
      [] OTHER -> Nothing

\* While no stored file goes bad, a crash or a failed operation at any point of a
\* publication leaves exactly the content last published to be loaded: never an
\* older one, a torn one or none.
LastSaveSurvives == faults = 0 => Recoverable = saved

\* "Sind beide Kopien ungueltig, bricht das Oeffnen sichtbar ab": once anything
\* was published, no combination of crashes, failed operations and bad files
\* makes open() start over from the source or accept a torn file; it gives the
\* last or the last but one content, or it throws.
NoSilentReset ==
    [][pc = "closed" /\ pc' # "closed" /\ saved # Nothing
          => working' \in {saved, previous}]_vars

\* An image that calls itself clean has been published as it is, so that the
\* shutdown that skips save() loses nothing; a save that failed stays dirty.
\* (A handoff brings its own flag and publishes nothing.)
CleanMeansSaved == pc = "idle" /\ ~dirty /\ ~imported => working = saved

=============================================================================
