---------------------------- MODULE LibraryMerge ----------------------------
(* The two transactions that merge one book into another: merge_books of
   src/backend/src/db/queries/books.rs and the one inside merge_exec of
   src/backend/src/api/books_admin.rs.                                      *)
EXTENDS LibraryTables

MoveFormats(d, files, b) ==
    [d EXCEPT !.format = [f \in DOMAIN @ |-> IF f \in files THEN b ELSE @[f]]]

\* INSERT OR IGNORE INTO shelf_books ... SELECT, then DELETE
Reshelve(d, from, to) ==
    [d EXCEPT !.shelved = LET old == KeysWith(@, 2, from)
                              new == {<<k[1], to>> : k \in old} \ DOMAIN @
                          IN  [k \in new |-> @[<<k[1], from>>]] ++ Drop(@, old)]

-----------------------------------------------------------------------------
(* merge_books: everything of the duplicate q goes to the primary p *)

\* Mutant: positions stay on the format they were on.
SameFormat(d, p, file) == file

\* The format of p that stands for a format of q: the one of its name
MappedFormat(d, p, file) ==
    LET same == FindFormat(d, p, Name(file)) IN IF same = {} THEN file ELSE CHOOSE f \in same : TRUE

MergeIdents(d, p, q) ==
    LET types(b) == {k[2] : k \in KeysWith(d.ident, 1, b)}
    IN  [d EXCEPT !.ident = [k \in {<<p, t>> : t \in types(q) \ types(p)} |-> @[<<q, k[2]>>]]
                            ++ Drop(@, KeysWith(@, 1, q))]

MergeAuthors(d, p, q) ==
    [d EXCEPT !.book[p].authors =
        LET more == d.book[q].authors
        IN  @ \o AtPlaces(more, {i \in DOMAIN more : more[i] \notin Range(@)})]

\* Mutant: INSERT OR IGNORE, as for shelves.
MergeTagsPlainly(d, p, q) ==
    LET tags == {k[2] : k \in KeysWith(d.tag, 1, q)}
    IN  [d EXCEPT !.tag = @ ++ [k \in {<<p, t>> : t \in tags} |-> @[<<q, k[2]>>]]]

\* The tags of both; confirmed if either was
MergeTags(d, p, q) ==
    LET confirmed(t) == \E b \in {p, q} : Has(d.tag, <<b, t>>) /\ d.tag[<<b, t>>]
        tags == {k[2] : k \in KeysWith(d.tag, 1, q)}
    IN  [d EXCEPT !.tag = [k \in {<<p, t>> : t \in tags} |-> confirmed(k[2])]
                          ++ Drop(@, KeysWith(@, 1, q))]

\* The further of the two positions of each reader, the duplicate's when they
\* are equal, on a format that p has after its formats were moved
MergeProgress(d, p, q) ==
    LET moved(u) == LET row == d.progress[<<u, q>>] IN [row EXCEPT !.format = MappedFormat(d, p, @)]
        keeps(u) == /\ Has(d.progress, <<u, p>>)
                    /\ ~(d.progress[<<u, q>>].pct >= d.progress[<<u, p>>].pct)
        set == {u \in ReadersOf(d, q) : ~keeps(u)}
    IN  [d EXCEPT !.progress = [k \in {<<u, p>> : u \in set} |-> moved(k[1])]
                               ++ Drop(@, KeysWith(@, 2, q))]

MergeStates(d, p, q) ==
    LET of(u, b) == IF Has(d.state, <<u, b>>) THEN d.state[<<u, b>>] ELSE [read |-> FALSE, archived |-> FALSE]
        users == {k[1] : k \in KeysWith(d.state, 2, q)}
    IN  [d EXCEPT !.state = [k \in {<<u, p>> : u \in users} |->
                                [read |-> of(k[1], p).read \/ of(k[1], q).read,
                                 archived |-> of(k[1], p).archived \/ of(k[1], q).archived]]
                            ++ Drop(@, KeysWith(@, 2, q))]

\* The whole transaction; what is left of q goes with its row
MergeBooks(d, p, q) ==
    LET formats == MoveFormats(d, {f \in FilesOf(d, q) : Name(f) \notin FormatNames(d, p)}, p)
        links == MergeTags(MergeAuthors(MergeIdents(formats, p, q), p, q), p, q)
        readers == MergeStates(Reshelve(MergeProgress(links, p, q), q, p), p, q)
    IN  DeleteBookRow(readers, q)

-----------------------------------------------------------------------------
(* merge_exec: source s into target t. saw is what the handler read before its
   transaction: names of the source's formats and those of them the target has
   too, and the progress of both books.                                     *)

\* Steps 1 and 2: all formats seen are moved; the conflicting ones (there are
\* some only with force) replace the target's, whose readers' progress cascades.
ReplaceFormats(d, s, t, saw) ==
    LET e == DeleteFormats(d, {f \in FilesOf(d, t) : Name(f) \in saw.conflicts})
    IN  MoveFormats(e, {f \in FilesOf(e, s) : Name(f) \in saw.formats}, t)

\* Step 3
ReparentNotes(d, s, t) ==
    [d EXCEPT !.note = [n \in DOMAIN @ |-> IF @[n].book = s THEN [@[n] EXCEPT !.book = t] ELSE @[n]]]

\* Step 5: the row the strategy gives to a reader of the source; any is the
\* format of the target that SELECT ... LIMIT 1 gives.
StrategyRow(strategy, saw, u, any) ==
    LET source == saw.source[u]
        target == Has(saw.target, u)
    IN  CASE strategy = "keep_target" -> [format |-> any,
                                          pct |-> IF target THEN saw.target[u].pct ELSE source.pct]
          [] strategy = "keep_source" -> source
          [] strategy = "merge_max" -> [source EXCEPT !.pct = IF target THEN Max({@, saw.target[u].pct}) ELSE @]

\* Mutant: without UNIQUE (book_id, format).
MergeExecCommits(d, s, t, strategy, saw) ==
    ~Has(d.book, s) \/ ~Has(d.book, t)

\* A statement of the transaction fails, or it is rolled back: a book is gone
\* (every book has a format, so that a row would refer to it), the target has
\* got a format of that name, the format to be read is gone, or a plain INSERT
\* meets a position that was saved since.
MergeExecAborts(d, s, t, strategy, saw) ==
    \/ ~Has(d.book, s) \/ ~Has(d.book, t)
    \/ \E f \in FilesOf(d, s), g \in FilesOf(d, t) :
          Name(f) = Name(g) /\ Name(f) \in saw.formats \ saw.conflicts
    \/ LET e == ReplaceFormats(d, s, t, saw)
       IN  \E u \in DOMAIN saw.source :
             IF strategy = "keep_target" THEN ~Has(saw.target, u) /\ Has(e.progress, <<u, t>>)
             ELSE ~Has(e.format, saw.source[u].format)

\* The whole transaction when it commits
MergeExec(d, s, t, strategy, saw, any) ==
    LET e == Reshelve(ReparentNotes(ReplaceFormats(d, s, t, saw), s, t), s, t)
        rows == [k \in {<<u, t>> : u \in DOMAIN saw.source} |-> StrategyRow(strategy, saw, k[1], any)]
    IN  DeleteBookRow([e EXCEPT !.progress = rows ++ @], s)
=============================================================================
