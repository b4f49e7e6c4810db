--------------------------- MODULE LibraryTables ---------------------------
(* The tables of the library and the queries on them, as operators from a
   database to a value or to the next database. A database is a record of
   tables, a table a function from the key of a row to the row; a transaction
   is one operator, for SQLite runs one writer at a time. Modelled from
   src/backend/src/db/queries and the migrations (keys, ON DELETE CASCADE).

     book      book  -> [title, sort, rating, lib, cover, authors, publisher]
     format    file  -> book, where a file <<b, name>> is the one uploaded for
                        book b (its row keeps the file when it moves)
     progress  <<user, book>> -> [format, pct]
     state     <<user, book>> -> [read, archived]
     note      note  -> [user, book]
     tag       <<book, tag>> -> confirmed
     ident     <<book, type>> -> value
     custom    <<book, column>> -> [as, is]
     columns   column -> [type, multiple]
     tagname   tag   -> <<word, spelling>>
     restricted <<user, tag>> -> "allow" or "block"
     shelf     shelf -> [user, name, public]
     shelved   <<shelf, book>> -> display_order
     collection collection -> [owner, public]
     collected set of <<collection, book>>
     authors   the authors there are, profile their profiles
     imports   the logs of imported reading histories
     chunked   the books with chunks                                       *)
EXTENDS Naturals, SequencesExt, Tables

CONSTANTS Users,      \* those who use the library
          Admins,     \* the users with the role "admin"
          Library,    \* Library[u]: default_library_id
          NoValue     \* NULL

ASSUME AdminsAreUsers == Admins \subseteq Users

Name(file) == file[2]

\* decode_custom_value goes by the column's type alone.
Decoded(column, stored) == IF stored.as = column.type THEN stored.is ELSE NoValue

\* The columns of the tables, ...
Schema(d) ==
    /\ DOMAIN d = {"book", "format", "progress", "state", "note", "tag", "ident", "columns", "custom", "tagname",
                   "restricted", "shelf", "shelved", "collection", "collected", "chunked", "history", "authors",
                   "profile", "imports"}
    /\ \A b \in DOMAIN d.book : DOMAIN d.book[b] = {"title", "sort", "rating", "lib", "cover", "authors", "publisher"}
    /\ \A k \in DOMAIN d.progress : DOMAIN d.progress[k] = {"format", "pct"}
    /\ \A n \in DOMAIN d.note : DOMAIN d.note[n] = {"user", "book", "text"}
    /\ \A i \in DOMAIN d.imports : DOMAIN d.imports[i] = {"status", "matched", "unmatched"}

\* ... and their foreign keys and CHECKs: every row refers to rows that are there.
\* A value in a column of one type is one that is read as it was written.
References(d) ==
    /\ \A f \in DOMAIN d.format : Has(d.book, d.format[f])
    /\ DOMAIN d.progress \cup DOMAIN d.state \subseteq Users \X (DOMAIN d.book)
    /\ \A k \in DOMAIN d.progress : d.progress[k].pct \in 0..100
    /\ \A n \in DOMAIN d.note : d.note[n].user \in Users /\ Has(d.book, d.note[n].book)
    /\ DOMAIN d.tag \subseteq (DOMAIN d.book) \X (DOMAIN d.tagname)
    /\ \A k \in DOMAIN d.ident : Has(d.book, k[1])
    /\ DOMAIN d.custom \subseteq (DOMAIN d.book) \X (DOMAIN d.columns)
    /\ \A k \in DOMAIN d.custom : d.columns[k[2]].multiple \/ Decoded(d.columns[k[2]], d.custom[k]) = d.custom[k].is
    /\ DOMAIN d.restricted \subseteq Users \X (DOMAIN d.tagname)
    /\ DOMAIN d.shelved \subseteq (DOMAIN d.shelf) \X (DOMAIN d.book)
    /\ d.collected \subseteq (DOMAIN d.collection) \X (DOMAIN d.book)
    /\ \A b \in DOMAIN d.book : d.book[b].authors \in Seq(d.authors)
    /\ DOMAIN d.profile \subseteq d.authors
    /\ \A i \in DOMAIN d.imports : d.imports[i].status \in {"pending", "running", "complete", "failed"}
    /\ d.chunked \subseteq DOMAIN d.book

\* UNIQUE (book_id, format)
OneFile(d) == \A f, g \in DOMAIN d.format : Name(f) = Name(g) /\ d.format[f] = d.format[g] => f = g

\* No key of the schema says so: a position is on a format of the book it is for.
OfItsBook(d) ==
    \A k \in DOMAIN d.progress : LET f == d.progress[k].format IN Has(d.format, f) /\ d.format[f] = k[2]

-----------------------------------------------------------------------------
(* Rows *)

FilesOf(d, b) == {f \in DOMAIN d.format : d.format[f] = b}
FormatNames(d, b) == {Name(f) : f \in FilesOf(d, b)}
ReadersOf(d, b) == {k[1] : k \in {p \in DOMAIN d.progress : p[2] = b}}

\* DELETE FROM formats, with reading_progress.format_id ON DELETE CASCADE
DeleteFormats(d, files) ==
    [d EXCEPT !.format = Drop(@, files),
              !.progress = Drop(@, {k \in DOMAIN @ : @[k].format \in files})]

\* DELETE FROM books with everything that cascades
DeleteBookRow(d, b) ==
    LET e == DeleteFormats(d, FilesOf(d, b))
    IN  [e EXCEPT !.book = Drop(@, {b}),
                  !.progress = Drop(@, KeysWith(@, 2, b)),
                  !.state = Drop(@, KeysWith(@, 2, b)),
                  !.note = Drop(@, {n \in DOMAIN @ : @[n].book = b}),
                  !.tag = Drop(@, KeysWith(@, 1, b)),
                  !.ident = Drop(@, KeysWith(@, 1, b)),
                  !.custom = Drop(@, KeysWith(@, 1, b)),
                  !.shelved = Drop(@, KeysWith(@, 2, b)),
                  !.collected = {k \in @ : k[2] # b},
                  !.chunked = @ \ {b}]

-----------------------------------------------------------------------------
(* Reading *)

\* The library a user's requests are limited to; admins have no limit.
Accessible(d, u, b) == u \in Admins \/ d.book[b].lib = Library[u]

\* get_book_by_id with the library of the user
GetBook(d, u, b) == Has(d.book, b) /\ Accessible(d, u, b)

\* find_format_file: a book has at most one file of a name
FindFormat(d, b, name) == {f \in FilesOf(d, b) : Name(f) = name}

\* find_book_cover_path
CoverPath(d, b) == Has(d.book, b) /\ d.book[b].cover

\* The types whose values are compared, and those whose values count as candidates
Compared == {"isbn", "isbn10", "isbn13"}
Candidates == Compared \cup {"isbn_10", "isbn_13"}

\* has_duplicate_isbn, with the book to leave out or NoValue
DuplicateIsbn(d, idents, exclude) ==
    \E i \in idents : /\ i[1] \in Candidates
                      /\ \E k \in DOMAIN d.ident : /\ k[2] \in Compared
                                                   /\ k[1] # exclude
                                                   /\ d.ident[k] = i[2]

\* list_in_progress_books
InProgress(d, u) ==
    {b \in DOMAIN d.book : /\ GetBook(d, u, b)
                           /\ Has(d.progress, <<u, b>>)
                           /\ d.progress[<<u, b>>].pct \in 1..99}

\* find_book_ids_by_title_and_author_like: at most two of the books that match
LikeMatches(d, title, author) ==
    LET all == {b \in DOMAIN d.book : /\ title \in {d.book[b].title, d.book[b].sort}
                                      /\ author \in Range(d.book[b].authors)}
    IN  {S \in SUBSET all : Cardinality(S) = Min({2, Cardinality(all)})}

-----------------------------------------------------------------------------
(* Writing *)

\* The items of a sequence that are at some of its places, in their order
AtPlaces(seq, places) ==
    [n \in 1..Cardinality(places) |-> seq[CHOOSE i \in places : Cardinality({j \in places : j <= i}) = n]]

\* dedupe_non_empty
Dedupe(seq) == AtPlaces(seq, {i \in DOMAIN seq : seq[i] # NoValue /\ \A j \in 1..(i - 1) : seq[j] # seq[i]})

\* The transaction of insert_uploaded_book: the book, its authors, its format
\* and the first identifier of each type.
InsertBook(d, b, name, row, idents) ==
    [d EXCEPT !.book = Put(@, b, row),
              !.authors = @ \cup Range(row.authors),
              !.format = Put(@, <<b, name>>, b),
              !.ident = [k \in {<<b, i[1]>> : i \in idents} |->
                            (CHOOSE i \in idents : i[1] = k[2])[2]] ++ @]

\* The row patch_book_with_audit writes: every field, as it was read or as
\* patched; the sort title follows a title it was equal to.
PatchedRow(old, patch) ==
    LET title == IF Has(patch, "title") THEN patch.title ELSE old.title
        sort == IF Has(patch, "sort") THEN patch.sort
                ELSE IF title # old.title /\ old.sort = old.title THEN title ELSE old.sort
        rating == IF Has(patch, "rating") THEN patch.rating ELSE old.rating
    IN  [title |-> title, sort |-> sort, rating |-> rating]

\* The fields that differ: one audit row each
ChangedFields(old, new) == {f \in DOMAIN new : new[f] # old[f]}

\* What patch_book_with_audit replaces beside the row, from what it read before
PatchedAuthors(old, patch) == IF Has(patch, "authors") THEN Dedupe(patch.authors) ELSE old.authors
ReplacesIdents(oldIdents, idents) == idents # NoValue /\ idents # oldIdents

\* Links need the book and the authors (foreign keys): the transaction fails
PatchFails(d, b, old, oldIdents, patch, idents) ==
    \/ PatchedAuthors(old, patch) # old.authors /\ ~(Has(d.book, b) /\ Range(PatchedAuthors(old, patch)) \subseteq d.authors)
    \/ ReplacesIdents(oldIdents, idents) /\ ~Has(d.book, b)

\* The transaction of patch_book_with_audit when it commits. Nothing is written
\* when nothing differs from what was read or when the book is gone.
PatchBook(d, b, old, oldIdents, patch, idents) ==
    LET new == PatchedRow(old, patch)
        authors == PatchedAuthors(old, patch)
        replaces == ReplacesIdents(oldIdents, idents)
    IN  IF ~Has(d.book, b) \/ (ChangedFields(old, new) = {} /\ authors = old.authors /\ ~replaces) THEN d
        ELSE [d EXCEPT !.book[b].title = new.title,
                       !.book[b].sort = new.sort,
                       !.book[b].rating = new.rating,
                       !.book[b].authors = IF authors # old.authors THEN authors ELSE @,
                       !.ident = IF replaces THEN [k \in {<<b, i[1]>> : i \in idents} |->
                                                      (CHOOSE i \in idents : i[1] = k[2])[2]]
                                                  ++ Drop(@, KeysWith(@, 1, b))
                                 ELSE @]

\* apply_bulk_tags on each of the books: tags that are set this way are
\* confirmed, but a link that is there keeps its flag
BulkTags(d, books, mode, tags) ==
    LET own == {k \in DOMAIN d.tag : k[1] \in books}
        kept == CASE mode = "overwrite" -> {}
                  [] mode = "append" -> own
                  [] mode = "remove" -> {k \in own : k[2] \notin tags}
        new == IF mode = "remove" THEN {} ELSE (books \X tags) \ kept
    IN  [d EXCEPT !.tag = [k \in new |-> TRUE] ++ Drop(@, own \ kept),
                  !.tagname = @ ++ [k \in {x[2] : x \in new} |-> <<k, "manual">>]]

\* The transaction of bulk_update_books: rating, publisher and tags as far as
\* given, in a loop over the books, of which those that are missing are left out
BulkUpdate(d, books, change) ==
    LET found == books \cap DOMAIN d.book
        e == [d EXCEPT !.book = [b \in found |->
                 [d.book[b] EXCEPT !.rating = IF Has(change, "rating") THEN change.rating ELSE @,
                                   !.publisher = IF Has(change, "publisher") THEN change.publisher ELSE @]] ++ @]
    IN  IF Has(change, "tags") THEN BulkTags(e, found, change.mode, change.tags) ELSE e

\* replace_book_authors: no book, no link (foreign key)
ReplaceAuthors(d, b, names) ==
    LET new == IF names = <<>> THEN <<"Unknown Author">> ELSE Dedupe(names)
    IN  [d EXCEPT !.book[b].authors = new, !.authors = @ \cup Range(new)]

\* upsert_book_identifier
UpsertIdent(d, b, type, value) == [d EXCEPT !.ident = Put(@, <<b, type>>, value)]

\* The kinds of content a type is parsed from, and the JSON types besides strings
Content == [integer |-> {"one"}, float |-> {"one", "half"}, bool |-> {"one", "yes"}, text |-> {"one", "half", "yes", "word"}]
Native == [integer |-> {"number"}, float |-> {"number"}, bool |-> {"bool", "number"}, text |-> {}]

\* parse_custom_value_input: what a JSON value becomes in a column: {} when it
\* is refused, {NoValue} when the row is deleted
Parsed(column, v) ==
    CASE v.json = "null" \/ (v.is = "blank" /\ v.json \in IF column.multiple THEN {"string", "list"} ELSE {"string"}) -> {NoValue}
      [] column.multiple /\ v.json \in {"string", "list"} -> {[as |-> "text", is |-> v.is]}
      [] ~column.multiple /\ v.is \in Content[column.type] /\ v.json \in Native[column.type] \cup {"string"} ->
            {[as |-> column.type, is |-> v.is]}
      [] OTHER -> {}

\* upsert_book_custom_values, when all columns are there and no value is refused
UpsertCustom(d, b, values) ==
    [d EXCEPT !.custom = LET parsed == [c \in DOMAIN values |-> CHOOSE x \in Parsed(d.columns[c], values[c]) : TRUE]
                             set == {c \in DOMAIN values : parsed[c] # NoValue}
                         IN  [k \in {<<b, c>> : c \in set} |-> parsed[k[2]]]
                             ++ Drop(@, {<<b, c>> : c \in DOMAIN values})]
=============================================================================
