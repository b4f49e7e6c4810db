--------------------------- MODULE LibraryReaders ---------------------------
(* What readers do with a book: positions, notes, read and archived flags,
   downloads, chunks, custom values. Handlers of src/backend/src/api/books.rs
   and the queries they call. Reads that follow each other and of which only
   the last one's result is kept are one step.                              *)
EXTENDS LibraryCalls

CONSTANTS Positions,   \* percentages a client sends, out of bounds included
          Columns,     \* custom columns that may be made: id -> [type, multiple]
          CustomValues \* what a client sends for one: [json, is]

ASSUME PositionsAssumption == Positions \subseteq Int

-----------------------------------------------------------------------------
(* upsert_reading_progress *)

Clamp(pct) == Min({Max({pct, 0}), 100})

\* Mutant: the format is not asked to be the book's.
ResolveAnyFormat(c, u, b, f, pct) ==
    /\ GetBook(db, u, b)
    /\ Begin(c, [op |-> "progress", at |-> "upsert", user |-> u, book |-> b, format |-> f, pct |-> Clamp(pct)])
    /\ Reads

\* load_book_or_not_found, resolve_progress_format_id
ResolveFormat(c, u, b, f, pct) ==
    /\ GetBook(db, u, b) /\ f \in FilesOf(db, b)
    /\ Begin(c, [op |-> "progress", at |-> "upsert", user |-> u, book |-> b, format |-> f, pct |-> Clamp(pct)])
    /\ Reads

\* The upsert; the book and the format must be there (foreign keys)
SaveProgress(c) ==
    /\ At(c, "progress", "upsert")
    /\ LET r == call[c]
       IN  db' = IF Has(db.book, r.book) /\ Has(db.format, r.format)
                 THEN [db EXCEPT !.progress = Put(@, <<r.user, r.book>>, [format |-> r.format, pct |-> r.pct])]
                 ELSE db
    /\ Answer(c)
    /\ Idle

-----------------------------------------------------------------------------
(* Notes *)

\* create_annotation: the check, then the INSERT
CheckNoteBook(c, u, b) ==
    /\ GetBook(db, u, b)
    /\ Begin(c, [op |-> "note", at |-> "create", user |-> u, book |-> b])
    /\ Reads

CreateNote(c) ==
    /\ At(c, "note", "create")
    /\ db' = IF Has(db.book, call[c].book)
             THEN [db EXCEPT !.note = Put(@, c, [user |-> call[c].user, book |-> call[c].book, text |-> "first"])]
             ELSE db
    /\ Answer(c)
    /\ Idle

\* patch_annotation and delete_annotation: the note is of this book and user
FindOwnNote(c, u, n, what) ==
    /\ Has(db.note, n) /\ db.note[n].user = u
    /\ GetBook(db, u, db.note[n].book)
    /\ Begin(c, [op |-> "note", at |-> what, user |-> u, note |-> n])
    /\ Reads

\* UPDATE ... WHERE id = ? AND user_id = ?
UpdateNote(c) ==
    /\ At(c, "note", "update")
    /\ LET n == call[c].note
       IN  db' = IF Has(db.note, n) THEN [db EXCEPT !.note[n].text = "second"] ELSE db
    /\ Answer(c)
    /\ Idle

DeleteNote(c) ==
    /\ At(c, "note", "delete")
    /\ db' = [db EXCEPT !.note = Drop(@, {call[c].note})]
    /\ Answer(c)
    /\ Idle

-----------------------------------------------------------------------------
(* set_read and set_archived: the flag that is not set is the one that was read *)

StateOf(u, b) == IF Has(db.state, <<u, b>>) THEN db.state[<<u, b>>] ELSE [read |-> FALSE, archived |-> FALSE]

ReadState(c, u, b, flag, value) ==
    /\ GetBook(db, u, b)
    /\ Begin(c, [op |-> "state", at |-> "upsert", user |-> u, book |-> b,
                 state |-> [StateOf(u, b) EXCEPT ![flag] = value]])
    /\ Reads

UpsertState(c) ==
    /\ At(c, "state", "upsert")
    /\ LET r == call[c]
       IN  db' = IF Has(db.book, r.book) THEN [db EXCEPT !.state = Put(@, <<r.user, r.book>>, r.state)] ELSE db
    /\ Answer(c)
    /\ Idle

-----------------------------------------------------------------------------
(* Files and chunks *)

\* stream_book_format: the row of the format; its file is read later
FindFile(c, u, b, f) ==
    /\ "download" \in Can[u] /\ GetBook(db, u, b) /\ f \in FilesOf(db, b)
    /\ Begin(c, [op |-> "download", at |-> "serve", user |-> u, book |-> b, file |-> f])
    /\ Reads

\* serve_storage_file; then download_format looks the format up once more and
\* spawns the insertion into the history
ServeFile(c) ==
    /\ At(c, "download", "serve")
    /\ IF call[c].file \in files /\ FindFormat(db, call[c].book, Name(call[c].file)) # {}
       THEN Spawn({HistoryTask(c, call[c].user, call[c].book)})
       ELSE UNCHANGED tasks
    /\ Answer(c)
    /\ UNCHANGED <<db, files, index, faults, crashes>>

\* get_chunks: a book without chunks gets them first
CountChunks(c, u, b) ==
    /\ "download" \in Can[u] /\ GetBook(db, u, b) /\ b \notin db.chunked
    /\ Begin(c, [op |-> "chunks", at |-> "generate", book |-> b])
    /\ Reads

GenerateChunks(c) ==
    /\ At(c, "chunks", "generate")
    /\ db' = IF FilesOf(db, call[c].book) \cap files # {} THEN [db EXCEPT !.chunked = @ \cup {call[c].book}] ELSE db
    /\ Answer(c)
    /\ Idle

-----------------------------------------------------------------------------
(* Custom columns *)

\* create_custom_column; the name is taken when the column is there (UNIQUE)
CreateColumn(c, u, col) ==
    /\ u \in Admins /\ ~Has(db.columns, col)
    /\ db' = [db EXCEPT !.columns = Put(@, col, Columns[col])]
    /\ BeginAndEnd(c)
    /\ Idle

\* delete_custom_column; its values cascade
DeleteColumn(c, u, col) ==
    /\ u \in Admins /\ Has(db.columns, col)
    /\ db' = [db EXCEPT !.columns = Drop(@, {col}), !.custom = Drop(@, KeysWith(@, 2, col))]
    /\ BeginAndEnd(c)
    /\ Idle

\* patch_book_custom_values: the check, then one transaction
CheckCustomBook(c, u, b, values) ==
    /\ "edit" \in Can[u] /\ GetBook(db, u, b)
    /\ Begin(c, [op |-> "custom", at |-> "upsert", book |-> b, values |-> values])
    /\ Reads

SetCustomValues(c) ==
    /\ At(c, "custom", "upsert")
    /\ LET r == call[c]
       IN  db' = IF /\ Has(db.book, r.book) /\ DOMAIN r.values \subseteq DOMAIN db.columns
                    /\ \A col \in DOMAIN r.values : Parsed(db.columns[col], r.values[col]) # {}
                 THEN UpsertCustom(db, r.book, r.values) ELSE db
    /\ Answer(c)
    /\ Idle

ReaderRequest(c) ==
    \/ \E u \in Users, b \in DOMAIN db.book :
          \/ \E f \in DOMAIN db.format, pct \in Positions : ResolveFormat(c, u, b, f, pct)
          \/ CheckNoteBook(c, u, b)
          \/ \E flag \in {"read", "archived"}, value \in BOOLEAN : ReadState(c, u, b, flag, value)
          \/ \E f \in FilesOf(db, b) : FindFile(c, u, b, f)
          \/ CountChunks(c, u, b)
          \/ \E col \in DOMAIN Columns, v \in CustomValues : CheckCustomBook(c, u, b, [x \in {col} |-> v])
    \/ \E u \in Users, n \in DOMAIN db.note, what \in {"update", "delete"} : FindOwnNote(c, u, n, what)
    \/ \E u \in Users, col \in DOMAIN Columns : CreateColumn(c, u, col) \/ DeleteColumn(c, u, col)

ReaderStep(c) ==
    \/ SaveProgress(c) \/ CreateNote(c) \/ UpdateNote(c) \/ DeleteNote(c) \/ UpsertState(c)
    \/ ServeFile(c) \/ GenerateChunks(c) \/ SetCustomValues(c)
=============================================================================
