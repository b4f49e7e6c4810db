---------------------------- MODULE CalibreImport ----------------------------
(* xs-migrate copies Calibre libraries into a server's database and storage,
   entry by entry and run after run (xs-migrate/src/import/pipeline.rs,
   calibre/reader.rs), while the server may delete what has been imported.

   An entry is what read_all_entries makes of its rows. One run at a time; a file
   that is copied has a new name, here of the run, the entry and the format, or 0
   for the cover and its thumbnail. *)
EXTENDS Integers, FiniteSets, SequencesExt

CONSTANTS Libraries,             \* source -> sequence of entries
          MaxRuns, MaxTroubles   \* bounds: runs, failing calls and crashes

ASSUME CalibreImportAssumption == MaxRuns \in Nat /\ MaxTroubles \in Nat

\* The number of a book is its key in Calibre's database.
ASSUME LibrariesAssumption ==
    \A s \in DOMAIN Libraries :
        /\ Libraries[s] \in Seq(Range(Libraries[s]))
        /\ \A i, j \in DOMAIN Libraries[s] : Libraries[s][i].id = Libraries[s][j].id => i = j

VARIABLES imported,   \* books of the target that come from an entry
          names,      \* series, authors and tags of the target
          stored,     \* files in the target's storage
          migration,  \* the run under way
          runs, troubles

importVars == <<imported, names, stored, migration, runs, troubles>>

Stopped == [phase |-> "stopped"]
ImportInit == /\ imported = {} /\ names = {} /\ stored = {}
              /\ migration = Stopped /\ runs = 0 /\ troubles = 0

Trouble == troubles < MaxTroubles /\ troubles' = troubles + 1
NoTrouble == UNCHANGED troubles

\* CalibreReader::open, read_all_entries
StartRun(source, dry) ==
    /\ migration.phase = "stopped" /\ runs < MaxRuns
    /\ runs' = runs + 1
    /\ migration' = [phase |-> "next", source |-> source, dry |-> dry, left |-> Libraries[source],
                     total |-> Len(Libraries[source]), imported |-> 0, skipped |-> 0, failures |-> {},
                     copied |-> {}, removed |-> {}]
    /\ UNCHANGED <<imported, names, stored, troubles>>

Entry == Head(migration.left)
Rest == [migration EXCEPT !.phase = "next", !.left = Tail(@), !.copied = {}]
Skipped == [Rest EXCEPT !.skipped = @ + 1]
Imported == [Rest EXCEPT !.imported = @ + 1]
\* Mutant: an entry whose files are not copied is left out of the report.
Unreported == Rest
Failed == [Rest EXCEPT !.failures = @ \cup {Entry.id}]

\* is_duplicate_calibre_id: whatever library the book is from
IsDuplicate(e) == \E b \in imported : <<"calibre_id", e.id>> \in b.identifiers

\* collect_existing_formats
Available(e) == {i \in DOMAIN e.formats : e.formats[i].exists}

Look ==
    /\ migration.phase = "next" /\ migration.left # << >>
    /\ \/ /\ NoTrouble
          /\ migration' = IF IsDuplicate(Entry) \/ Available(Entry) = {} THEN Skipped
                          ELSE IF migration.dry THEN Imported
                          ELSE [migration EXCEPT !.phase = "copying"]
       \/ Trouble /\ migration' = Stopped   \* the error ends the run
    /\ UNCHANGED <<imported, names, stored, runs>>

\* copy_formats, in their order; a copy that fails fails the entry.
FileOf(e, i) == <<runs, e.id, i>>
CopyFormat ==
    /\ migration.phase = "copying"
    /\ \E i \in Available(Entry) :
         /\ FileOf(Entry, i) \notin migration.copied
         /\ \A j \in Available(Entry) : j < i => FileOf(Entry, j) \in migration.copied
         /\ \/ /\ NoTrouble
               /\ stored' = stored \cup {FileOf(Entry, i)}
               /\ migration' = [migration EXCEPT !.copied = @ \cup {FileOf(Entry, i)}]
            \/ Trouble /\ migration' = Failed /\ UNCHANGED stored
    /\ UNCHANGED <<imported, names, runs>>

\* copy_cover_if_present: a cover that is no image fails the entry.
CopyCover ==
    /\ migration.phase = "copying"
    /\ \A i \in Available(Entry) : FileOf(Entry, i) \in migration.copied
    /\ \/ /\ NoTrouble /\ Entry.cover # "broken"
          /\ stored' = IF Entry.cover = "there" THEN stored \cup {FileOf(Entry, 0)} ELSE stored
          /\ migration' = [migration EXCEPT !.phase = "inserting",
                                            !.copied = IF Entry.cover = "there" THEN @ \cup {FileOf(Entry, 0)} ELSE @]
       \/ /\ (IF Entry.cover = "broken" THEN NoTrouble ELSE Trouble)
          /\ migration' = Failed /\ UNCHANGED stored
    /\ UNCHANGED <<imported, names, runs>>

\* The first identifier of each type, and the entry's number
SourceTypes(e) == {e.identifiers[i] : i \in DOMAIN e.identifiers}
Identifiers(e) == {<<t, 0>> : t \in SourceTypes(e)} \cup {<<"calibre_id", e.id>>}

\* What the tables admit: an author, a tag and a format once for a book, and a
\* type of identifier, the entry's number included
Admitted(e) == /\ IsInjective(e.authors) /\ IsInjective(e.tags)
               /\ \A i, j \in Available(e) : i # j => e.formats[i].name # e.formats[j].name
               /\ "calibre_id" \notin SourceTypes(e)

\* The transaction of import_single_entry
InsertEntry ==
    /\ migration.phase = "inserting"
    /\ \/ /\ NoTrouble /\ Admitted(Entry)
          /\ imported' = imported \cup {[source |-> migration.source, id |-> Entry.id, run |-> runs,
                                         identifiers |-> Identifiers(Entry), files |-> migration.copied]}
          /\ names' = names \cup ToSet(Entry.authors) \cup ToSet(Entry.tags) \cup Entry.series
          /\ migration' = Imported
       \/ /\ (IF Admitted(Entry) THEN Trouble ELSE NoTrouble)
          /\ migration' = Failed /\ UNCHANGED <<imported, names>>
    /\ UNCHANGED <<stored, runs>>

\* The summary is printed, the report written and the exit status set.
FinishRun ==
    /\ migration.phase = "next" /\ migration.left = << >>
    /\ migration' = [migration EXCEPT !.phase = "reported"]
    /\ UNCHANGED <<imported, names, stored, runs, troubles>>

Exit == migration.phase = "reported" /\ migration' = Stopped
        /\ UNCHANGED <<imported, names, stored, runs, troubles>>

\* A transaction that is under way is undone, files stay.
CrashRun == /\ migration.phase \notin {"stopped", "reported"} /\ Trouble
            /\ migration' = Stopped
            /\ UNCHANGED <<imported, names, stored, runs>>

\* The server deletes a book: its row, and then the files of its formats.
DeleteImported(b) ==
    /\ imported' = imported \ {b}
    /\ stored' = stored \ {f \in b.files : f[3] # 0}
    /\ migration' = IF migration.phase = "stopped" THEN migration
                    ELSE [migration EXCEPT !.removed = @ \cup {b.id}]
    /\ Trouble
    /\ UNCHANGED <<names, runs>>

ImportNext ==
    \/ \E source \in DOMAIN Libraries, dry \in BOOLEAN : StartRun(source, dry)
    \/ Look \/ CopyFormat \/ CopyCover \/ InsertEntry \/ FinishRun \/ Exit \/ CrashRun
    \/ \E b \in imported : DeleteImported(b)

ImportSpec == ImportInit /\ [][ImportNext]_importVars

-----------------------------------------------------------------------------
(* Properties *)

\* Through failures, crashes and further runs, no entry is imported twice and no
\* book is without a file or has one that is not stored; a run's counts add up, and
\* after one without failures every entry of the library that has files is there,
\* unless the server has deleted it since or a book of another library has its number.
ImportsAddUp ==
    /\ \A b, c \in imported : <<b.source, b.id>> = <<c.source, c.id>> => b = c
    /\ \A b \in imported : b.files # {} /\ b.files \subseteq stored
    /\ migration.phase # "stopped" =>
         migration.imported + migration.skipped + Cardinality(migration.failures) + Len(migration.left) = migration.total
    /\ migration.phase = "reported" /\ ~migration.dry /\ migration.failures = {} =>
         \A e \in ToSet(Libraries[migration.source]) :
            \/ Available(e) = {} \/ e.id \in migration.removed
            \/ \E b \in imported : b.id = e.id
=============================================================================
