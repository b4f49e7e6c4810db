---------------------------- MODULE LibraryBooks ----------------------------
(* Uploading, editing, merging and deleting books: the handlers of
   src/backend/src/api/books.rs and of src/backend/src/api/books_admin.rs,
   each query or transaction and each call of the storage a step.           *)
EXTENDS LibraryReaders

CONSTANTS FormatsUploaded,   \* formats of uploaded files
          Titles,            \* titles a request may give a book
          IdentSets,         \* sets of identifiers <<type, value>> a request may give
          Patches,           \* fields a PATCH may name
          BulkChanges        \* what a bulk edit may ask for

\* A file of a book (books/...) is none of its cover's variants (covers/...).
ASSUME FilesAssumption ==
    /\ FormatsUploaded \cap Range(CoverFiles) = {}
    /\ \A f \in DOMAIN InitDb.format : f = <<f[1], f[2]>> /\ Name(f) \notin Range(CoverFiles)

\* The authors a request names are a list.
ASSUME PatchesAssumption == \A p \in Patches : Has(p, "authors") => p.authors \in Seq(Range(p.authors))

-----------------------------------------------------------------------------
(* upload_book: file, then rows, then the cover's files, then the tasks *)

\* Permission, the file's own metadata and has_duplicate_isbn
CheckUpload(c, u, name, title, idents, withCover) ==
    /\ "upload" \in Can[u]
    /\ ~DuplicateIsbn(db, idents, NoValue)
    /\ Begin(c, [op |-> "upload", at |-> "put", user |-> u, book |-> NewBook[c], file |-> <<NewBook[c], name>>,
                 title |-> title, idents |-> idents, cover |-> withCover, stored |-> 0])
    /\ Reads

StoreUpload(c) ==
    /\ At(c, "upload", "put")
    /\ files' = files \cup {call[c].file}
    /\ Goto(c, "insert")
    /\ UNCHANGED <<db, index, tasks, faults, crashes>>

\* insert_uploaded_book_impl up to its commit
InsertUpload(c) ==
    /\ At(c, "upload", "insert")
    /\ \/ /\ LET r == call[c]
                 row == [title |-> r.title, sort |-> r.title, rating |-> NoValue, lib |-> Library[r.user],
                         cover |-> FALSE, authors |-> <<"Unknown Author">>, publisher |-> NoValue]
             IN  db' = InsertBook(db, r.book, Name(r.file), row, r.idents)
          /\ Goto(c, "read")
          /\ UNCHANGED faults
       \/ Fault /\ Goto(c, "unput") /\ UNCHANGED db
    /\ UNCHANGED <<files, index, tasks, crashes>>

\* ... and its get_book_by_id after the commit, whose failure is an error of
\* the insertion to the handler
ReadUpload(c) ==
    /\ At(c, "upload", "read")
    /\ \/ /\ Goto(c, IF ~Has(db.book, call[c].book) THEN "unput" ELSE IF call[c].cover THEN "cover" ELSE "finish")
          /\ UNCHANGED faults
       \/ Fault /\ Goto(c, "unput")
    /\ UNCHANGED <<db, files, index, tasks, crashes>>

\* The clean-up after an error of the insertion (its own result is ignored)
RemoveUpload(c) ==
    /\ At(c, "upload", "unput")
    /\ \/ files' = files \ {call[c].file} /\ UNCHANGED faults
       \/ Fault /\ UNCHANGED files
    /\ Answer(c)
    /\ UNCHANGED <<db, index, tasks, crashes>>

\* One of the cover's variants; an error leaves the files as they are
StoreCover(c) ==
    /\ At(c, "upload", "cover")
    /\ LET i == call[c].stored + 1
       IN  /\ files' = files \cup {<<call[c].book, CoverFiles[i]>>}
           /\ call' = [call EXCEPT ![c].stored = i, ![c].at = IF i = Len(CoverFiles) THEN "setcover" ELSE @]
    /\ UNCHANGED <<db, index, tasks, faults, crashes>>

\* set_book_cover_path; an UPDATE of a book that is gone is no error
SetCoverPath(d, b) == IF Has(d.book, b) THEN [d EXCEPT !.book[b].cover = TRUE] ELSE d

SetCover(c, op, next) ==
    /\ At(c, op, "setcover")
    /\ \/ db' = SetCoverPath(db, call[c].book) /\ Goto(c, next) /\ UNCHANGED faults
       \/ Fault /\ Goto(c, "uncover") /\ UNCHANGED db
    /\ UNCHANGED <<files, index, tasks, crashes>>

\* delete_storage_paths on all variants
RemoveCover(c, op) ==
    /\ At(c, op, "uncover")
    /\ files' = files \ CoversOf(call[c].book)
    /\ Answer(c)
    /\ UNCHANGED <<db, index, tasks, faults, crashes>>

\* The book is read again, when it got a cover, and indexed
FinishUpload(c) ==
    /\ At(c, "upload", "finish")
    /\ LET r == call[c]
           title == IF r.cover /\ GetBook(db, r.user, r.book) THEN db.book[r.book].title ELSE r.title
       IN  Spawn({IndexTask(c, r.book, title), ChunkTask(c, r.book)})
    /\ Answer(c)
    /\ UNCHANGED <<db, files, index, faults, crashes>>

UploadStep(c) ==
    \/ StoreUpload(c) \/ InsertUpload(c) \/ ReadUpload(c) \/ RemoveUpload(c)
    \/ StoreCover(c) \/ SetCover(c, "upload", "finish") \/ RemoveCover(c, "upload") \/ FinishUpload(c)

-----------------------------------------------------------------------------
(* patch_book *)

IdentsOf(d, b) == {<<k[2], d.ident[k]>> : k \in KeysWith(d.ident, 1, b)}

\* What patch_book_with_audit reads before its transaction
ReadForPatch(c, u, b, patch, idents) ==
    /\ "edit" \in Can[u] /\ GetBook(db, u, b)
    /\ idents # NoValue => ~DuplicateIsbn(db, idents, b)
    /\ Begin(c, [op |-> "patch", at |-> "write", user |-> u, book |-> b, patch |-> patch, idents |-> idents,
                 old |-> db.book[b], oldIdents |-> IdentsOf(db, b)])
    /\ Reads

\* Its transaction
WritePatch(c) ==
    /\ At(c, "patch", "write")
    /\ LET r == call[c]
       IN  IF PatchFails(db, r.book, r.old, r.oldIdents, r.patch, r.idents)
           THEN UNCHANGED db /\ Answer(c)
           ELSE db' = PatchBook(db, r.book, r.old, r.oldIdents, r.patch, r.idents) /\ Goto(c, "finish")
    /\ Idle

\* The book is read once more, and indexed if it is still there
FinishPatch(c) ==
    /\ At(c, "patch", "finish")
    /\ IF GetBook(db, call[c].user, call[c].book)
       THEN Spawn({IndexTask(c, call[c].book, db.book[call[c].book].title)})
       ELSE UNCHANGED tasks
    /\ Answer(c)
    /\ UNCHANGED <<db, files, index, faults, crashes>>

\* bulk_edit_books: one transaction, nothing is indexed
BulkEdit(c, u, books, change) ==
    /\ u \in Admins /\ books # {}
    /\ db' = BulkUpdate(db, books, change)
    /\ BeginAndEnd(c)
    /\ Idle

EditStep(c) ==
    \/ WritePatch(c) \/ FinishPatch(c)

-----------------------------------------------------------------------------
(* apply_book_metadata: five writes of their own, then perhaps a cover *)

ReadForMetadata(c, u, b, title, isbn, withCover) ==
    /\ "edit" \in Can[u] /\ GetBook(db, u, b)
    /\ Begin(c, [op |-> "metadata", at |-> "write", user |-> u, book |-> b, title |-> title, cover |-> withCover,
                 idents |-> <<<<"source", title>>, <<"isbn_13", isbn>>>>, old |-> db.book[b], stored |-> 0])
    /\ Reads

\* patch_book_with_audit with the title only; a book that is gone is not found
WriteMetadata(c) ==
    /\ At(c, "metadata", "write")
    /\ LET r == call[c]
       IN  /\ db' = PatchBook(db, r.book, r.old, {}, [title |-> r.title], NoValue)
           /\ IF Has(db.book, r.book) THEN Goto(c, "authors") ELSE Answer(c)
    /\ Idle

\* replace_book_authors and update_book_publisher
WriteAuthors(c) ==
    /\ At(c, "metadata", "authors")
    /\ IF Has(db.book, call[c].book)
       THEN db' = ReplaceAuthors(db, call[c].book, <<"Provider">>) /\ Goto(c, "publisher")
       ELSE UNCHANGED db /\ Answer(c)
    /\ Idle

WritePublisher(c) ==
    /\ At(c, "metadata", "publisher")
    /\ db' = IF Has(db.book, call[c].book) THEN [db EXCEPT !.book[call[c].book].publisher = "Provider"] ELSE db
    /\ Goto(c, "idents")
    /\ Idle

\* upsert_book_identifier, one after the other
WriteIdent(c) ==
    /\ At(c, "metadata", "idents")
    /\ LET r == call[c]
           i == Head(r.idents)
       IN  IF Has(db.book, r.book)
           THEN /\ db' = UpsertIdent(db, r.book, i[1], i[2])
                /\ call' = [call EXCEPT ![c].idents = Tail(@),
                                        ![c].at = IF Len(r.idents) > 1 THEN @ ELSE IF r.cover THEN "newcover" ELSE "reread"]
           ELSE UNCHANGED db /\ Answer(c)
    /\ Idle

\* download_and_store_cover: an error removes all variants, also those of the
\* cover the book had; the handler only logs it
StoreNewCover(c) ==
    /\ At(c, "metadata", "newcover")
    /\ LET i == call[c].stored + 1
       IN  \/ /\ files' = files \cup {<<call[c].book, CoverFiles[i]>>}
              /\ call' = [call EXCEPT ![c].stored = i, ![c].at = IF i = Len(CoverFiles) THEN "setcover" ELSE @]
              /\ UNCHANGED faults
           \/ Fault /\ Goto(c, "uncover") /\ UNCHANGED files
    /\ UNCHANGED <<db, index, tasks, crashes>>

\* load_book_or_not_found for the answer; the search index is not told
FinishMetadata(c) ==
    /\ At(c, "metadata", "reread")
    /\ Answer(c)
    /\ Reads

MetadataStep(c) ==
    \/ WriteMetadata(c) \/ WriteAuthors(c) \/ WritePublisher(c) \/ WriteIdent(c)
    \/ StoreNewCover(c) \/ SetCover(c, "metadata", "reread") \/ RemoveCover(c, "metadata") \/ FinishMetadata(c)

-----------------------------------------------------------------------------
(* delete_book: rows, then files; the cover's files are never deleted *)

CheckDelete(c, u, b) ==
    /\ u \in Admins /\ Has(db.book, b)
    /\ Begin(c, [op |-> "delete", at |-> "paths", book |-> b, paths |-> {}])
    /\ Reads

\* delete_book_and_collect_paths reads the paths before its transaction
ReadPaths(c) ==
    /\ At(c, "delete", "paths")
    /\ call' = [call EXCEPT ![c].paths = FilesOf(db, call[c].book), ![c].at = "delete"]
    /\ Reads

\* Mutant: the files are deleted whether or not there was a row.
DeleteRowsOrNot(c) ==
    /\ At(c, "delete", "delete")
    /\ LET b == call[c].book
       IN  /\ db' = IF Has(db.book, b) THEN DeleteBookRow(db, b) ELSE db
           /\ Spawn({RemovalTask(c, b)}) /\ Goto(c, "remove")
    /\ UNCHANGED <<files, index, faults, crashes>>

DeleteRows(c) ==
    /\ At(c, "delete", "delete")
    /\ LET b == call[c].book
       IN  IF Has(db.book, b)
           THEN db' = DeleteBookRow(db, b) /\ Spawn({RemovalTask(c, b)}) /\ Goto(c, "remove")
           ELSE UNCHANGED <<db, tasks>> /\ Answer(c)
    /\ UNCHANGED <<files, index, faults, crashes>>

\* The first error ends the loop
RemoveFile(c) ==
    /\ At(c, "delete", "remove")
    /\ \E f \in call[c].paths :
          \/ files' = files \ {f} /\ call' = [call EXCEPT ![c].paths = @ \ {f}] /\ UNCHANGED faults
          \/ Fault /\ Answer(c) /\ UNCHANGED files
    /\ UNCHANGED <<db, index, tasks, crashes>>

FinishDelete(c) ==
    /\ At(c, "delete", "remove") /\ call[c].paths = {}
    /\ Answer(c)
    /\ Reads

DeleteStep(c) ==
    \/ ReadPaths(c) \/ DeleteRows(c) \/ RemoveFile(c) \/ FinishDelete(c)

-----------------------------------------------------------------------------
(* merge_book: the duplicate q into the primary p *)

CheckMerge(c, u, p, q) ==
    /\ u \in Admins /\ p # q /\ Has(db.book, p) /\ Has(db.book, q)
    /\ Begin(c, [op |-> "merge", at |-> "write", book |-> p, duplicate |-> q])
    /\ Reads

WriteMerge(c) ==
    /\ At(c, "merge", "write")
    /\ LET r == call[c]
       IN  IF Has(db.book, r.book) /\ Has(db.book, r.duplicate)
           THEN db' = MergeBooks(db, r.book, r.duplicate) /\ Goto(c, "finish")
           ELSE UNCHANGED db /\ Answer(c)
    /\ Idle

\* Mutant: primary and duplicate swapped.
FinishMergeSwapped(c) ==
    /\ At(c, "merge", "finish")
    /\ Spawn({RemovalTask(c, call[c].book)})
    /\ Answer(c)
    /\ UNCHANGED <<db, files, index, faults, crashes>>

FinishMerge(c) ==
    /\ At(c, "merge", "finish")
    /\ LET r == call[c]
       IN  Spawn((IF Has(db.book, r.book) THEN {IndexTask(c, r.book, db.book[r.book].title)} ELSE {})
                 \cup {RemovalTask(c, r.duplicate)})
    /\ Answer(c)
    /\ UNCHANGED <<db, files, index, faults, crashes>>

(* merge_exec: source s into target t *)

ReadForMerge(c, u, s, t, strategy, force) ==
    LET conflicts == FormatNames(db, s) \cap FormatNames(db, t)
    IN  /\ u \in Admins /\ s # t /\ Has(db.book, s) /\ Has(db.book, t)
        /\ conflicts = {} \/ force
        /\ Begin(c, [op |-> "exec", at |-> "snapshot", source |-> s, book |-> t, strategy |-> strategy,
                     saw |-> [formats |-> FormatNames(db, s), conflicts |-> conflicts]])
        /\ Reads

ProgressOn(d, b) == [u \in ReadersOf(d, b) |-> d.progress[<<u, b>>]]

\* The positions of both books, before the transaction. The code reads the
\* source's and then the target's; the two SELECTs are one step here.
SnapshotProgress(c) ==
    /\ At(c, "exec", "snapshot")
    /\ LET r == call[c]
       IN  call' = [call EXCEPT ![c].at = "write",
                                ![c].saw = [formats |-> @.formats, conflicts |-> @.conflicts,
                                            source |-> ProgressOn(db, r.source), target |-> ProgressOn(db, r.book)]]
    /\ Reads

\* The transaction; the search index is not told
WriteExec(c) ==
    /\ At(c, "exec", "write")
    /\ LET r == call[c]
       IN  IF MergeExecAborts(db, r.source, r.book, r.strategy, r.saw)
           THEN UNCHANGED db
           ELSE \E any \in FilesOf(ReplaceFormats(db, r.source, r.book, r.saw), r.book) :
                   db' = MergeExec(db, r.source, r.book, r.strategy, r.saw, any)
    /\ Answer(c)
    /\ Idle

MergeStep(c) ==
    \/ WriteMerge(c) \/ FinishMerge(c) \/ SnapshotProgress(c) \/ WriteExec(c)

BookRequest(c) ==
    \/ \E u \in Users, name \in FormatsUploaded, title \in Titles, idents \in IdentSets, withCover \in BOOLEAN :
          CheckUpload(c, u, name, title, idents, withCover)
    \/ \E u \in Users, b \in DOMAIN db.book, patch \in Patches, idents \in IdentSets \cup {NoValue} :
          ReadForPatch(c, u, b, patch, idents)
    \/ \E u \in Users, change \in BulkChanges : BulkEdit(c, u, DOMAIN db.book, change)
    \/ \E u \in Users, b \in DOMAIN db.book, title \in Titles, i \in UNION IdentSets, withCover \in BOOLEAN :
          ReadForMetadata(c, u, b, title, i[2], withCover)
    \/ \E u \in Users, b \in DOMAIN db.book : CheckDelete(c, u, b)
    \/ \E u \in Users, p, q \in DOMAIN db.book : CheckMerge(c, u, p, q)
    \/ \E u \in Users, s, t \in DOMAIN db.book, strategy \in {"keep_target", "keep_source", "merge_max"}, force \in BOOLEAN :
          ReadForMerge(c, u, s, t, strategy, force)

BookStep(c) == UploadStep(c) \/ EditStep(c) \/ MetadataStep(c) \/ DeleteStep(c) \/ MergeStep(c)
=============================================================================
