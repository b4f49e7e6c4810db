------------------------------- MODULE Library -------------------------------
(* The library under requests that overlap: readers, editors and
   administrators, with the files in the storage, the search backend that is
   told by spawned tasks, failures of single calls and crashes.              *)
EXTENDS LibraryLists

Request == \E c \in Calls : Free(c) /\ (ReaderRequest(c) \/ BookRequest(c) \/ ListRequest(c))

CallStep == \E c \in Calls : InFlight(c) /\ (ReaderStep(c) \/ BookStep(c) \/ ListStep(c) \/ StatementFails(c))

\* All requests of a behaviour are over: nothing more is asked of the model
Rest == (\A c \in Calls : call[c] = Over) /\ tasks = {} /\ UNCHANGED vars

Next == Request \/ CallStep \/ TaskStep \/ Crash \/ Rest

Spec == Init /\ [][Next]_vars
-----------------------------------------------------------------------------
\* Every row refers to rows that are there (the foreign keys), a file is of a
\* book the library has or had, and bounds are kept. Violated if a merge, a
\* deletion or a late write of a handler left a row behind.
TypeOK ==
    /\ Schema(db) /\ References(db)
    /\ \A f \in DOMAIN db.format : f[1] \in {g[1] : g \in DOMAIN InitDb.format} \cup {NewBook[c] : c \in Calls}
    /\ faults \in 0..MaxFaults /\ crashes \in 0..MaxCrashes

\* However uploads and merges overlap, a book has one file of a format: what
\* UNIQUE (book_id, format) says and find_format_file relies on. Both merges
\* choose the formats they move from what they read of two books.
OneFilePerFormat == OneFile(db)

\* A reading position is on a format of the very book it is for. No key of the
\* schema says so: merges move formats and positions in statements of their own,
\* and upsert_reading_progress checks the format before it writes.
ProgressIsOfItsBook == OfItsBook(db)

\* A file goes only after its row: delete_book and the merges never take away
\* the file of a format that is there. (An upload that commits and
\* cannot read its row back does, with the file it has itself stored.)
FilesOutliveRows ==
    [][\A f \in files \ files' : f \in DOMAIN db'.format => \E c \in Calls : RemoveUpload(c)]_vars

Furthest(d, u, books) == Max({0} \cup {d.progress[k].pct : k \in {p \in DOMAIN d.progress : p[1] = u /\ p[2] \in books}})

\* merge_books loses no reader of either book and keeps the further of the two
\* positions, also of readers who save theirs while it runs.
MergeKeepsReaders ==
    [][\A c \in Calls : WriteMerge(c) /\ db' # db =>
          LET both == {call[c].book, call[c].duplicate}
          IN  \A u \in Users : /\ Furthest(db', u, {call[c].book}) = Furthest(db, u, both)
                               /\ u \in ReadersOf(db, call[c].book) \cup ReadersOf(db, call[c].duplicate)
                                    => u \in ReadersOf(db', call[c].book)]_vars

Confirmed(d) == {k \in DOMAIN d.tag : d.tag[k]}

\* A tag that somebody confirmed stays confirmed on its book, through merges of
\* books and of tags (then as the tag, or on the book, it was merged into) and
\* whatever the model suggests meanwhile, until somebody rejects or overwrites
\* it or deletes the tag or the book.
ConfirmedTagsSurvive ==
    [][\A k \in Confirmed(db) \ Confirmed(db') :
          \/ /\ ~Has(db'.book, k[1])
             /\ \A c \in Calls : WriteMerge(c) /\ call[c].duplicate = k[1] => <<call[c].book, k[2]>> \in Confirmed(db')
          \/ /\ ~Has(db'.tagname, k[2])
             /\ \A c \in Calls, u \in Admins, t \in DOMAIN db.tagname :
                   MergeTag(c, u, k[2], t) => <<k[1], t>> \in Confirmed(db')
          \/ \E c \in Calls : ConfirmTags(c) /\ k[2] \in call[c].reject
          \/ \E c \in Calls, u \in Admins, change \in BulkChanges : BulkEdit(c, u, DOMAIN db.book, change)]_vars

\* An import that says it is complete has counted every row of the history, as
\* matched or as not matched: no failure between two rows ends as complete.
ImportAddsUp ==
    \A i \in DOMAIN db.imports :
        LET log == db.imports[i]
        IN  /\ log.matched + log.unmatched <= Len(ImportRows)
            /\ log.status = "complete" => log.matched + log.unmatched = Len(ImportRows)

Quiet == tasks = {} /\ \A c \in Calls : ~InFlight(c)

\* When nothing failed and nothing is under way any more, the search backend
\* knows every book, uploads and merges that overlapped included.
BooksAreFound == Quiet /\ faults = 0 /\ crashes = 0 => DOMAIN db.book \subseteq DOMAIN index
-----------------------------------------------------------------------------
(* What a comment of the code says and the code does not do *)

\* merge_exec: "We capture both sides now so the merge logic can apply the
\* correct per-user strategy even after conflicting target formats have been
\* dropped": who had a position on either book has one on the target.
ExecKeepsReaders ==
    [][\A c \in Calls : WriteExec(c) /\ db' # db =>
          ReadersOf(db, call[c].book) \cup ReadersOf(db, call[c].source) \subseteq ReadersOf(db', call[c].book)]_vars
=============================================================================
