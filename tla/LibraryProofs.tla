---------------------------- MODULE LibraryProofs ----------------------------
(* Proofs about the library: the constraints of its tables however requests
   overlap, files that outlive their rows, books that the search backend gets
   to know, imports that add up, confirmed tags that stay, and merges that keep
   every reader's furthest position.                                         *)
EXTENDS Library, DataLemmas

-----------------------------------------------------------------------------
(* What every statement leaves true of the tables.                           *)

Sound(d) == Schema(d) /\ References(d) /\ OneFile(d)

DbOK(d) == Sound(d) /\ OfItsBook(d)

\* What every statement but the insertion of an upload does to books and their
\* files: none is new, and a file leaves a book only when that book's row is gone.
Steady(d, e) ==
    /\ DOMAIN e.book \subseteq DOMAIN d.book
    /\ DOMAIN e.format \subseteq DOMAIN d.format
    /\ \A f \in DOMAIN e.format : e.format[f] = d.format[f] \/ ~Has(e.book, d.format[f])

\* A statement keeps the tables in order; the logs of imports have statements
\* of their own.
Keeps(d, e) == DbOK(e) /\ Steady(d, e) /\ e.imports = d.imports

\* What is chosen from a sequence by places are items of it.
LEMMA ItemsAtPlaces ==
    ASSUME NEW S, NEW seq \in Seq(S), NEW P \in SUBSET DOMAIN seq
    PROVE  AtPlaces(seq, P) \in Seq({seq[i] : i \in P})
  <1>1. PICK m \in Nat : DOMAIN seq = 1..m
    OBVIOUS
  <1>2. Ranked(P) /\ Cardinality(P) \in Nat
    BY <1>1, Ranks
  <1> DEFINE place(n) == CHOOSE i \in P : Cardinality({j \in P : j <= i}) = n
  <1>3. \A n \in 1..Cardinality(P) : place(n) \in P
    BY <1>2 DEF Ranked
  <1> HIDE DEF place
  <1>4. AtPlaces(seq, P) = [n \in 1..Cardinality(P) |-> seq[place(n)]]
    BY DEF AtPlaces, place
  <1> QED BY <1>2, <1>3, <1>4

-----------------------------------------------------------------------------
(* Statements on one table.                                                   *)

\* Positions, states, notes, chunks and the history of downloads
LEMMA ProgressKeeps ==
    ASSUME NEW d, DbOK(d), NEW u \in Users, NEW b \in DOMAIN d.book, NEW f \in DOMAIN d.format, d.format[f] = b, NEW p \in 0..100
    PROVE  Keeps(d, [d EXCEPT !.progress = Put(@, <<u, b>>, [format |-> f, pct |-> p])])
  BY DEF DbOK, Sound, Schema, References, OneFile, OfItsBook, Keeps, Steady, Has, Put

LEMMA StateKeeps ==
    ASSUME NEW d, DbOK(d), NEW u \in Users, NEW b \in DOMAIN d.book, NEW state
    PROVE  Keeps(d, [d EXCEPT !.state = Put(@, <<u, b>>, state)])
  BY DEF DbOK, Sound, Schema, References, OneFile, OfItsBook, Keeps, Steady, Has, Put

LEMMA NoteKeeps ==
    ASSUME NEW d, DbOK(d), NEW n, NEW u \in Users, NEW b \in DOMAIN d.book, NEW text
    PROVE  Keeps(d, [d EXCEPT !.note = Put(@, n, [user |-> u, book |-> b, text |-> text])])
  BY DEF DbOK, Sound, Schema, References, OneFile, OfItsBook, Keeps, Steady, Has, Put

LEMMA NoteTextKeeps ==
    ASSUME NEW d, DbOK(d), NEW n \in DOMAIN d.note, NEW text
    PROVE  Keeps(d, [d EXCEPT !.note[n].text = text])
  BY DEF DbOK, Sound, Schema, References, OneFile, OfItsBook, Keeps, Steady, Has

LEMMA DropNoteKeeps ==
    ASSUME NEW d, DbOK(d), NEW n
    PROVE  Keeps(d, [d EXCEPT !.note = Drop(@, {n})])
  BY DEF DbOK, Sound, Schema, References, OneFile, OfItsBook, Keeps, Steady, Has, Drop, Restrict

LEMMA ChunksKeep ==
    ASSUME NEW d, DbOK(d), NEW b \in DOMAIN d.book
    PROVE  Keeps(d, [d EXCEPT !.chunked = @ \cup {b}])
  BY DEF DbOK, Sound, Schema, References, OneFile, OfItsBook, Keeps, Steady, Has

LEMMA HistoryKeeps ==
    ASSUME NEW d, DbOK(d), NEW rows
    PROVE  Keeps(d, [d EXCEPT !.history = @ \cup rows])
  BY DEF DbOK, Sound, Schema, References, OneFile, OfItsBook, Keeps, Steady, Has

\* Custom columns and their values
LEMMA AddColumnKeeps ==
    ASSUME NEW d, DbOK(d), NEW k, ~Has(d.columns, k), NEW column
    PROVE  Keeps(d, [d EXCEPT !.columns = Put(@, k, column)])
  BY DEF DbOK, Sound, Schema, References, OneFile, OfItsBook, Keeps, Steady, Has, Put

LEMMA DropColumnKeeps ==
    ASSUME NEW d, DbOK(d), NEW k
    PROVE  Keeps(d, [d EXCEPT !.columns = Drop(@, {k}), !.custom = Drop(@, KeysWith(@, 2, k))])
  BY DEF DbOK, Sound, Schema, References, OneFile, OfItsBook, Keeps, Steady, Has, Drop, Restrict, KeysWith

\* Fields of a book
LEMMA CoverKeeps ==
    ASSUME NEW d, DbOK(d), NEW b \in DOMAIN d.book, NEW v
    PROVE  Keeps(d, [d EXCEPT !.book[b].cover = v])
  BY DEF DbOK, Sound, Schema, References, OneFile, OfItsBook, Keeps, Steady, Has

LEMMA PublisherKeeps ==
    ASSUME NEW d, DbOK(d), NEW b \in DOMAIN d.book, NEW v
    PROVE  Keeps(d, [d EXCEPT !.book[b].publisher = v])
  BY DEF DbOK, Sound, Schema, References, OneFile, OfItsBook, Keeps, Steady, Has

LEMMA RatingKeeps ==
    ASSUME NEW d, DbOK(d), NEW b \in DOMAIN d.book, NEW v
    PROVE  Keeps(d, [d EXCEPT !.book[b].rating = v])
  BY DEF DbOK, Sound, Schema, References, OneFile, OfItsBook, Keeps, Steady, Has

LEMMA IdentKeeps ==
    ASSUME NEW d, DbOK(d), NEW b \in DOMAIN d.book, NEW type, NEW value
    PROVE  Keeps(d, UpsertIdent(d, b, type, value))
  BY DEF DbOK, Sound, Schema, References, OneFile, OfItsBook, Keeps, Steady, Has, UpsertIdent, Put

\* Shelves
LEMMA ShelfKeeps ==
    ASSUME NEW d, DbOK(d), NEW k, NEW u, NEW name, NEW public
    PROVE  Keeps(d, InsertShelf(d, k, u, name, public))
  BY DEF DbOK, Sound, Schema, References, OneFile, OfItsBook, Keeps, Steady, Has, InsertShelf, Put

LEMMA DropShelfKeeps ==
    ASSUME NEW d, DbOK(d), NEW k
    PROVE  Keeps(d, [d EXCEPT !.shelf = Drop(@, {k}), !.shelved = Drop(@, KeysWith(@, 1, k))])
  BY DEF DbOK, Sound, Schema, References, OneFile, OfItsBook, Keeps, Steady, Has, Drop, Restrict, KeysWith

LEMMA ShelfNameKeeps ==
    ASSUME NEW d, DbOK(d), NEW k \in DOMAIN d.shelf, NEW name
    PROVE  Keeps(d, [d EXCEPT !.shelf[k].name = name])
  BY DEF DbOK, Sound, Schema, References, OneFile, OfItsBook, Keeps, Steady, Has

LEMMA ShelfFlagKeeps ==
    ASSUME NEW d, DbOK(d), NEW k \in DOMAIN d.shelf, NEW public
    PROVE  Keeps(d, [d EXCEPT !.shelf[k].public = public])
  BY DEF DbOK, Sound, Schema, References, OneFile, OfItsBook, Keeps, Steady, Has

LEMMA ShelvedKeeps ==
    ASSUME NEW d, DbOK(d), NEW k, NEW b, NEW order
    PROVE  Keeps(d, InsertOnShelf(d, k, b, order))
  BY DEF DbOK, Sound, Schema, References, OneFile, OfItsBook, Keeps, Steady, Has, InsertOnShelf, Put

LEMMA DropShelvedKeeps ==
    ASSUME NEW d, DbOK(d), NEW keys
    PROVE  Keeps(d, [d EXCEPT !.shelved = Drop(@, keys)])
  BY DEF DbOK, Sound, Schema, References, OneFile, OfItsBook, Keeps, Steady, Has, Drop, Restrict

LEMMA OrderKeeps ==
    ASSUME NEW d, DbOK(d), NEW moved, moved \subseteq DOMAIN d.shelved, NEW order, DOMAIN order = moved
    PROVE  Keeps(d, [d EXCEPT !.shelved = order ++ @])
  BY DEF DbOK, Sound, Schema, References, OneFile, OfItsBook, Keeps, Steady, Has, ++

\* Collections
LEMMA CollectionKeeps ==
    ASSUME NEW d, DbOK(d), NEW k, NEW row
    PROVE  Keeps(d, [d EXCEPT !.collection = Put(@, k, row)])
  BY DEF DbOK, Sound, Schema, References, OneFile, OfItsBook, Keeps, Steady, Has, Put

LEMMA CollectionFlagKeeps ==
    ASSUME NEW d, DbOK(d), NEW k \in DOMAIN d.collection, NEW public
    PROVE  Keeps(d, [d EXCEPT !.collection[k].public = public])
  BY DEF DbOK, Sound, Schema, References, OneFile, OfItsBook, Keeps, Steady, Has

LEMMA DropCollectionKeeps ==
    ASSUME NEW d, DbOK(d), NEW l
    PROVE  Keeps(d, [d EXCEPT !.collection = Drop(@, {l}), !.collected = {k \in @ : k[1] # l}])
  BY DEF DbOK, Sound, Schema, References, OneFile, OfItsBook, Keeps, Steady, Has, Drop, Restrict

LEMMA CollectedKeeps ==
    ASSUME NEW d, DbOK(d), NEW l \in DOMAIN d.collection, NEW b \in DOMAIN d.book
    PROVE  Keeps(d, [d EXCEPT !.collected = @ \cup {<<l, b>>}])
  BY DEF DbOK, Sound, Schema, References, OneFile, OfItsBook, Keeps, Steady, Has

LEMMA DropCollectedKeeps ==
    ASSUME NEW d, DbOK(d), NEW keys
    PROVE  Keeps(d, [d EXCEPT !.collected = @ \ keys])
  BY DEF DbOK, Sound, Schema, References, OneFile, OfItsBook, Keeps, Steady, Has

\* Tags
LEMMA TagNameKeeps ==
    ASSUME NEW d, DbOK(d), NEW t \in DOMAIN d.tagname, NEW name
    PROVE  Keeps(d, [d EXCEPT !.tagname[t] = name])
  BY DEF DbOK, Sound, Schema, References, OneFile, OfItsBook, Keeps, Steady, Has

LEMMA DropTagKeeps ==
    ASSUME NEW d, DbOK(d), NEW t
    PROVE  Keeps(d, DropTag(d, t))
  BY DEF DbOK, Sound, Schema, References, OneFile, OfItsBook, Keeps, Steady, Has, DropTag, Drop, Restrict, KeysWith

LEMMA RestrictKeeps ==
    ASSUME NEW d, DbOK(d), NEW u \in Users, NEW t \in DOMAIN d.tagname, NEW mode
    PROVE  Keeps(d, [d EXCEPT !.restricted = Put(@, <<u, t>>, mode)])
  BY DEF DbOK, Sound, Schema, References, OneFile, OfItsBook, Keeps, Steady, Has, Put

LEMMA UnrestrictKeeps ==
    ASSUME NEW d, DbOK(d), NEW keys
    PROVE  Keeps(d, [d EXCEPT !.restricted = Drop(@, keys)])
  BY DEF DbOK, Sound, Schema, References, OneFile, OfItsBook, Keeps, Steady, Has, Drop, Restrict

LEMMA SuggestKeeps ==
    ASSUME NEW d, DbOK(d), NEW b \in DOMAIN d.book, NEW tags
    PROVE  Keeps(d, [d EXCEPT !.tagname = @ ++ [t \in tags |-> <<t, "llm">>], !.tag = @ ++ [k \in {<<b, t>> : t \in tags} |-> FALSE]])
  BY DEF DbOK, Sound, Schema, References, OneFile, OfItsBook, Keeps, Steady, Has, ++

LEMMA ConfirmKeeps ==
    ASSUME NEW d, DbOK(d), NEW named, named \subseteq DOMAIN d.tag, NEW gone
    PROVE  Keeps(d, [d EXCEPT !.tag = Drop([k \in named |-> TRUE] ++ @, gone)])
  BY DEF DbOK, Sound, Schema, References, OneFile, OfItsBook, Keeps, Steady, Has, ++, Drop, Restrict

\* Authors
LEMMA ProfileKeeps ==
    ASSUME NEW d, DbOK(d), NEW a \in d.authors, NEW profile
    PROVE  Keeps(d, [d EXCEPT !.profile = Put(@, a, profile)])
  BY DEF DbOK, Sound, Schema, References, OneFile, OfItsBook, Keeps, Steady, Has, Put
-----------------------------------------------------------------------------
(* The authors of a book.                                                    *)

LEMMA DedupeItems == ASSUME NEW S, NEW seq \in Seq(S) PROVE Dedupe(seq) \in Seq({seq[i] : i \in DOMAIN seq})
  <1> DEFINE P == {i \in DOMAIN seq : seq[i] # NoValue /\ \A j \in 1..(i - 1) : seq[j] # seq[i]}
  <1>1. P \in SUBSET DOMAIN seq
    OBVIOUS
  <1> HIDE DEF P
  <1>2. AtPlaces(seq, P) \in Seq({seq[i] : i \in P})
    BY <1>1, ItemsAtPlaces
  <1>3. {seq[i] : i \in P} \subseteq {seq[i] : i \in DOMAIN seq}
    BY <1>1
  <1> QED BY <1>2, <1>3 DEF Dedupe, P

\* New authors of a book are authors there are, or become so.
LEMMA AuthorsKeep ==
    ASSUME NEW d, DbOK(d), NEW b \in DOMAIN d.book, NEW new, NEW all, new \in Seq(all), d.authors \subseteq all
    PROVE  Keeps(d, [d EXCEPT !.book[b].authors = new, !.authors = all])
  <1> DEFINE e == [d EXCEPT !.book[b].authors = new, !.authors = all]
  <1>1. \A x \in DOMAIN e.book : e.book[x].authors \in Seq(all)
    <2>1. \A x \in DOMAIN d.book : d.book[x].authors \in Seq(d.authors)
      BY DEF DbOK, Sound, References
    <2>2. Seq(d.authors) \subseteq Seq(all)
      OBVIOUS
    <2> QED BY <2>1, <2>2 DEF DbOK, Sound, Schema
  <1> QED BY <1>1 DEF DbOK, Sound, Schema, References, OneFile, OfItsBook, Keeps, Steady, Has

LEMMA ReplaceAuthorsKeeps ==
    ASSUME NEW d, DbOK(d), NEW b \in DOMAIN d.book, NEW S, NEW names \in Seq(S)
    PROVE  Keeps(d, ReplaceAuthors(d, b, names))
  <1> DEFINE new == IF names = <<>> THEN <<"Unknown Author">> ELSE Dedupe(names)
             all == d.authors \cup Range(new)
  <1>1. PICK T : new \in Seq(T)
    <2>1. CASE names = <<>>
      <3>1. new \in Seq({"Unknown Author"})
        BY <2>1
      <3> QED BY <3>1
    <2>2. CASE names # <<>>
      <3>1. new \in Seq({names[i] : i \in DOMAIN names})
        BY <2>2, DedupeItems
      <3> QED BY <3>1
    <2> QED BY <2>1, <2>2
  <1> HIDE DEF new
  <1>2. \A i \in DOMAIN new : new[i] \in Range(new)
    BY DEF Range
  <1>3. new \in Seq(all)
    BY <1>1, <1>2
  <1>4. Keeps(d, [d EXCEPT !.book[b].authors = new, !.authors = all])
    BY <1>3, AuthorsKeep
  <1> QED BY <1>4 DEF ReplaceAuthors, new

\* The transaction that merges one author into another
LEMMA MergeAuthorKeeps ==
    ASSUME NEW d, DbOK(d), NEW s \in d.authors, NEW t \in d.authors, s # t
    PROVE  Keeps(d, [d EXCEPT !.book = [b \in DOMAIN @ |-> [d.book[b] EXCEPT !.authors = Replaced(@, s, t)]],
                              !.profile = Drop(@, {s}), !.authors = @ \ {s}])
  <1> DEFINE e == [d EXCEPT !.book = [b \in DOMAIN @ |-> [d.book[b] EXCEPT !.authors = Replaced(@, s, t)]],
                            !.profile = Drop(@, {s}), !.authors = @ \ {s}]
             others == d.authors \ {s}
  <1>1. ASSUME NEW seq \in Seq(d.authors)
        PROVE  Replaced(seq, s, t) \in Seq(others)
    <2> DEFINE P == {i \in DOMAIN seq : seq[i] # s}
    <2>1. P \in SUBSET DOMAIN seq /\ \A i \in P : seq[i] \in others
      OBVIOUS
    <2>2. AtPlaces(seq, P) \in Seq(others)
      <3> HIDE DEF P
      <3>1. AtPlaces(seq, P) \in Seq({seq[i] : i \in P})
        BY <2>1, ItemsAtPlaces
      <3>2. {seq[i] : i \in P} \subseteq others
        BY <2>1
      <3> QED BY <3>1, <3>2
    <2>3. [i \in DOMAIN seq |-> IF seq[i] = s THEN t ELSE seq[i]] \in Seq(others)
      OBVIOUS
    <2> QED BY <2>2, <2>3 DEF Replaced
  <1>2. \A b \in DOMAIN d.book : d.book[b].authors \in Seq(d.authors)
    BY DEF DbOK, Sound, References
  <1>3. /\ DOMAIN e.book = DOMAIN d.book
        /\ \A b \in DOMAIN d.book : e.book[b] = [d.book[b] EXCEPT !.authors = Replaced(@, s, t)]
    BY DEF DbOK, Sound, Schema
  <1>4. \A b \in DOMAIN d.book : /\ e.book[b].authors \in Seq(others)
                                 /\ DOMAIN e.book[b] = DOMAIN d.book[b]
    BY <1>1, <1>2, <1>3 DEF DbOK, Sound, Schema
  <1> QED BY <1>3, <1>4 DEF DbOK, Sound, Schema, References, OneFile, OfItsBook, Keeps, Steady, Has, Drop, Restrict

-----------------------------------------------------------------------------
(* Transactions on books.                                                    *)

\* The transaction of an upload puts a book with one file that is new.
Inserted(d, e, b, name) ==
    /\ DbOK(e) /\ e.imports = d.imports
    /\ DOMAIN e.book = DOMAIN d.book \cup {b}
    /\ DOMAIN e.format = DOMAIN d.format \cup {<<b, name>>}
    /\ \A f \in DOMAIN d.format : e.format[f] = d.format[f]

LEMMA InsertBookKeeps ==
    ASSUME NEW d, DbOK(d), NEW b, NEW name, NEW row, NEW idents,
           b \notin DOMAIN d.book, \A f \in DOMAIN d.format : f[1] # b,
           DOMAIN row = {"title", "sort", "rating", "lib", "cover", "authors", "publisher"},
           row.authors \in Seq(Range(row.authors)),
           NEW e, e = InsertBook(d, b, name, row, idents)
    PROVE  Inserted(d, e, b, name)
  <1> DEFINE new == [k \in {<<b, i[1]>> : i \in idents} |-> (CHOOSE i \in idents : i[1] = k[2])[2]]
  <1>1. /\ DOMAIN e = DOMAIN d
        /\ e.book = Put(d.book, b, row) /\ e.format = Put(d.format, <<b, name>>, b) /\ e.ident = new ++ d.ident
        /\ e.authors = d.authors \cup Range(row.authors)
        /\ e.progress = d.progress /\ e.state = d.state /\ e.note = d.note /\ e.tag = d.tag /\ e.columns = d.columns
        /\ e.custom = d.custom /\ e.tagname = d.tagname /\ e.restricted = d.restricted /\ e.shelf = d.shelf
        /\ e.shelved = d.shelved /\ e.collection = d.collection /\ e.collected = d.collected
        /\ e.chunked = d.chunked /\ e.profile = d.profile /\ e.imports = d.imports
    BY DEF InsertBook, DbOK, Sound, Schema
  <1>2. DOMAIN e.ident = {<<b, i[1]>> : i \in idents} \cup DOMAIN d.ident
    BY <1>1 DEF ++
  <1>2a. \A k \in DOMAIN e.ident : k[1] = b \/ k \in DOMAIN d.ident
    BY <1>2
  <1> HIDE DEF new
  <1>3. /\ DOMAIN e.book = DOMAIN d.book \cup {b} /\ e.book[b] = row
        /\ \A x \in DOMAIN d.book : e.book[x] = d.book[x]
        /\ DOMAIN e.format = DOMAIN d.format \cup {<<b, name>>} /\ e.format[<<b, name>>] = b
        /\ \A f \in DOMAIN d.format : e.format[f] = d.format[f]
    BY <1>1 DEF Put
  <1>4. \A x \in DOMAIN e.book : e.book[x].authors \in Seq(e.authors)
    <2>1. \A x \in DOMAIN d.book : d.book[x].authors \in Seq(d.authors)
      BY DEF DbOK, Sound, References
    <2>2. Seq(d.authors) \subseteq Seq(e.authors) /\ Seq(Range(row.authors)) \subseteq Seq(e.authors)
      BY <1>1
    <2> QED BY <1>3, <2>1, <2>2
  <1>5. Schema(e)
    BY <1>1, <1>3 DEF DbOK, Sound, Schema
  <1>6. References(e)
    <2>1. /\ \A f \in DOMAIN e.format : Has(e.book, e.format[f])
          /\ \A n \in DOMAIN e.note : e.note[n].user \in Users /\ Has(e.book, e.note[n].book)
          /\ \A k \in DOMAIN e.ident : Has(e.book, k[1])
      BY <1>1, <1>2, <1>3, <1>2a DEF DbOK, Sound, References, Has
    <2>2. /\ DOMAIN e.progress \cup DOMAIN e.state \subseteq Users \X (DOMAIN e.book)
          /\ DOMAIN e.tag \subseteq (DOMAIN e.book) \X (DOMAIN e.tagname)
          /\ DOMAIN e.custom \subseteq (DOMAIN e.book) \X (DOMAIN e.columns)
          /\ DOMAIN e.shelved \subseteq (DOMAIN e.shelf) \X (DOMAIN e.book)
          /\ e.collected \subseteq (DOMAIN e.collection) \X (DOMAIN e.book)
          /\ e.chunked \subseteq DOMAIN e.book
          /\ DOMAIN e.profile \subseteq e.authors
      BY <1>1, <1>3 DEF DbOK, Sound, References
    <2>3. /\ \A k \in DOMAIN e.progress : e.progress[k].pct \in 0..100
          /\ \A k \in DOMAIN e.custom : e.columns[k[2]].multiple \/ Decoded(e.columns[k[2]], e.custom[k]) = e.custom[k].is
          /\ DOMAIN e.restricted \subseteq Users \X (DOMAIN e.tagname)
          /\ \A i \in DOMAIN e.imports : e.imports[i].status \in {"pending", "running", "complete", "failed"}
      BY <1>1 DEF DbOK, Sound, References
    <2> QED BY <1>4, <2>1, <2>2, <2>3, Zenon DEF References
  <1>7. OneFile(e)
    <2>1. \A f \in DOMAIN d.format : d.format[f] # b
      BY DEF DbOK, Sound, References, Has
    <2> QED BY <1>3, <2>1 DEF DbOK, Sound, OneFile
  <1>8. OfItsBook(e)
    BY <1>1, <1>3 DEF DbOK, Sound, Schema, OfItsBook, Has
  <1> QED BY <1>1, <1>3, <1>5, <1>6, <1>7, <1>8 DEF DbOK, Sound, Schema, Inserted

LEMMA DeleteFormatsKeeps ==
    ASSUME NEW d, DbOK(d), NEW F
    PROVE  Keeps(d, DeleteFormats(d, F))
  BY DEF DbOK, Sound, Schema, References, OneFile, OfItsBook, Keeps, Steady, Has, DeleteFormats, Drop, Restrict

\* Everything that refers to a book or to its files goes with it. Before that,
\* positions on other books may still be on its files, which a merge leaves so.
LEMMA DeleteBookRows ==
    ASSUME NEW d, Sound(d), NEW b,
           \A k \in DOMAIN d.progress : k[2] # b =>
               LET f == d.progress[k].format IN Has(d.format, f) /\ d.format[f] \in {k[2], b}
    PROVE  Keeps(d, DeleteBookRow(d, b)) /\ ~Has(DeleteBookRow(d, b).book, b) /\ ~\E f \in FilesOf(d, b) : Has(DeleteBookRow(d, b).format, f)
  <1> DEFINE e == DeleteBookRow(d, b)
  <1>1. /\ DOMAIN e = DOMAIN d
        /\ DOMAIN e.book = DOMAIN d.book \ {b} /\ \A x \in DOMAIN e.book : e.book[x] = d.book[x]
        /\ DOMAIN e.format = {f \in DOMAIN d.format : d.format[f] # b} /\ \A f \in DOMAIN e.format : e.format[f] = d.format[f]
    <2> DEFINE g == DeleteFormats(d, FilesOf(d, b))
    <2>1. DOMAIN g = DOMAIN d /\ g.book = d.book /\ g.format = Drop(d.format, FilesOf(d, b))
      BY DEF DeleteFormats, Sound, Schema
    <2>2. DOMAIN e = DOMAIN g /\ e.book = Drop(g.book, {b}) /\ e.format = g.format
      BY <2>1 DEF DeleteBookRow, Sound, Schema
    <2> HIDE DEF e, g
    <2> QED BY <2>1, <2>2 DEF FilesOf, Drop, Restrict
  <1>2. /\ DOMAIN e.progress = {k \in DOMAIN d.progress : k[2] # b /\ d.progress[k].format \notin FilesOf(d, b)}
        /\ \A k \in DOMAIN e.progress : e.progress[k] = d.progress[k]
    <2> DEFINE f == DeleteFormats(d, FilesOf(d, b))
    <2>1. /\ DOMAIN f.progress = {k \in DOMAIN d.progress : d.progress[k].format \notin FilesOf(d, b)}
          /\ \A k \in DOMAIN f.progress : f.progress[k] = d.progress[k]
          /\ DOMAIN f = DOMAIN d
      BY DEF DeleteFormats, Drop, Restrict, Sound, Schema
    <2>2. e.progress = Drop(f.progress, KeysWith(f.progress, 2, b))
      BY <2>1 DEF DeleteBookRow, Sound, Schema
    <2> HIDE DEF e, f
    <2> QED BY <2>1, <2>2 DEF Drop, Restrict, KeysWith
  <1>3. /\ DOMAIN e.state = {k \in DOMAIN d.state : k[2] # b}
        /\ DOMAIN e.note = {n \in DOMAIN d.note : d.note[n].book # b} /\ \A n \in DOMAIN e.note : e.note[n] = d.note[n]
        /\ DOMAIN e.tag = {k \in DOMAIN d.tag : k[1] # b}
        /\ DOMAIN e.ident = {k \in DOMAIN d.ident : k[1] # b}
        /\ DOMAIN e.custom = {k \in DOMAIN d.custom : k[1] # b} /\ \A k \in DOMAIN e.custom : e.custom[k] = d.custom[k]
    BY DEF DeleteBookRow, DeleteFormats, Drop, Restrict, KeysWith, Sound, Schema
  <1>4. /\ DOMAIN e.shelved = {k \in DOMAIN d.shelved : k[2] # b}
        /\ e.collected = {k \in d.collected : k[2] # b}
        /\ e.chunked = d.chunked \ {b}
        /\ e.columns = d.columns /\ e.tagname = d.tagname /\ e.restricted = d.restricted /\ e.shelf = d.shelf
        /\ e.collection = d.collection /\ e.authors = d.authors /\ e.profile = d.profile /\ e.imports = d.imports
    BY DEF DeleteBookRow, DeleteFormats, Drop, Restrict, KeysWith, Sound, Schema
  <1> HIDE DEF e
  <1>5. Schema(e)
    BY <1>1, <1>2, <1>3, <1>4 DEF Sound, Schema
  <1>6. References(e)
    <2>1. /\ DOMAIN e.progress \cup DOMAIN e.state \subseteq Users \X (DOMAIN e.book)
          /\ DOMAIN e.tag \subseteq (DOMAIN e.book) \X (DOMAIN e.tagname)
          /\ DOMAIN e.custom \subseteq (DOMAIN e.book) \X (DOMAIN e.columns)
          /\ DOMAIN e.shelved \subseteq (DOMAIN e.shelf) \X (DOMAIN e.book)
          /\ e.collected \subseteq (DOMAIN e.collection) \X (DOMAIN e.book)
      BY <1>1, <1>2, <1>3, <1>4 DEF Sound, References
    <2>2. /\ \A g \in DOMAIN e.format : Has(e.book, e.format[g])
          /\ \A k \in DOMAIN e.progress : e.progress[k].pct \in 0..100
          /\ \A n \in DOMAIN e.note : e.note[n].user \in Users /\ Has(e.book, e.note[n].book)
          /\ \A k \in DOMAIN e.ident : Has(e.book, k[1])
          /\ \A x \in DOMAIN e.book : e.book[x].authors \in Seq(e.authors)
          /\ e.chunked \subseteq DOMAIN e.book
      BY <1>1, <1>2, <1>3, <1>4 DEF Sound, References, Has
    <2>3. \A k \in DOMAIN e.custom : e.columns[k[2]].multiple \/ Decoded(e.columns[k[2]], e.custom[k]) = e.custom[k].is
      BY <1>3, <1>4 DEF Sound, References
    <2> QED BY <1>4, <2>1, <2>2, <2>3 DEF Sound, References
  <1>7. OneFile(e)
    BY <1>1 DEF Sound, OneFile
  <1>8. OfItsBook(e)
    BY <1>1, <1>2 DEF OfItsBook, Has, FilesOf
  <1> QED BY <1>1, <1>4, <1>5, <1>6, <1>7, <1>8 DEF DbOK, Sound, Keeps, Steady, Has, FilesOf, e

LEMMA DeleteBookKeeps ==
    ASSUME NEW d, DbOK(d), NEW b
    PROVE  Keeps(d, DeleteBookRow(d, b)) /\ ~Has(DeleteBookRow(d, b).book, b) /\ ~\E f \in FilesOf(d, b) : Has(DeleteBookRow(d, b).format, f)
  BY DeleteBookRows DEF DbOK, Sound, OfItsBook

LEMMA MergedTagsKeep ==
    ASSUME NEW d, DbOK(d), NEW s, NEW t \in DOMAIN d.tagname, s # t
    PROVE  Keeps(d, MergedTags(d, s, t))
  <1> DEFINE books == {k[1] : k \in KeysWith(d.tag, 2, s)}
             confirmed(b) == d.tag[<<b, s>>] \/ (Has(d.tag, <<b, t>>) /\ d.tag[<<b, t>>])
             new == [k \in {<<b, t>> : b \in books} |-> confirmed(k[1])]
             e == [d EXCEPT !.tag = new ++ @]
  <1>1. DOMAIN new = {<<b, t>> : b \in books} /\ books \subseteq DOMAIN d.book
    BY DEF KeysWith, DbOK, Sound, References
  <1> HIDE DEF new, books
  <1>2. Keeps(d, e)
    BY <1>1 DEF DbOK, Sound, Schema, References, OneFile, OfItsBook, Keeps, Steady, Has, ++
  <1> HIDE DEF e
  <1>3. Keeps(e, DropTag(e, s))
    BY <1>2, DropTagKeeps DEF Keeps
  <1>4. DropTag(e, s) = MergedTags(d, s, t)
    BY DEF MergedTags, e, new, books
  <1> QED BY <1>2, <1>3, <1>4 DEF Keeps, Steady, Has

LEMMA CustomKeeps ==
    ASSUME NEW d, DbOK(d), NEW b \in DOMAIN d.book, NEW values, DOMAIN values \subseteq DOMAIN d.columns,
           \A c \in DOMAIN values : Parsed(d.columns[c], values[c]) # {}
    PROVE  Keeps(d, UpsertCustom(d, b, values))
  <1> DEFINE parsed == [c \in DOMAIN values |-> CHOOSE x \in Parsed(d.columns[c], values[c]) : TRUE]
             set == {c \in DOMAIN values : parsed[c] # NoValue}
             new == [k \in {<<b, c>> : c \in set} |-> parsed[k[2]]]
             rows == new ++ Drop(d.custom, {<<b, c>> : c \in DOMAIN values})
             e == [d EXCEPT !.custom = rows]
  <1>1. ASSUME NEW c \in set
        PROVE  /\ parsed[c] \in Parsed(d.columns[c], values[c]) /\ parsed[c] # NoValue
               /\ d.columns[c].multiple \/ Decoded(d.columns[c], parsed[c]) = parsed[c].is
    <2>1. parsed[c] \in Parsed(d.columns[c], values[c]) /\ parsed[c] # NoValue
      OBVIOUS
    <2> HIDE DEF parsed
    <2> QED BY <2>1 DEF Parsed, Decoded
  <1> HIDE DEF parsed
  <1>2. DOMAIN rows \subseteq {<<b, c>> : c \in set} \cup DOMAIN d.custom
    BY DEF ++, Drop, Restrict
  <1>3. ASSUME NEW k \in DOMAIN rows
        PROVE  d.columns[k[2]].multiple \/ Decoded(d.columns[k[2]], rows[k]) = rows[k].is
    <2>1. CASE k \in DOMAIN new
      BY <1>1, <2>1 DEF ++
    <2>2. CASE k \notin DOMAIN new
      <3>1. k \in DOMAIN d.custom /\ rows[k] = d.custom[k]
        BY <2>2 DEF ++, Drop, Restrict
      <3> HIDE DEF rows
      <3> QED BY <3>1 DEF DbOK, Sound, References
    <2> QED BY <2>1, <2>2
  <1>4. set \subseteq DOMAIN d.columns
    OBVIOUS
  <1> HIDE DEF rows, set, new
  <1>5. Keeps(d, e)
    BY <1>2, <1>3, <1>4 DEF DbOK, Sound, Schema, References, OneFile, OfItsBook, Keeps, Steady, Has
  <1> QED BY <1>5 DEF UpsertCustom, e, rows, new, set, parsed

\* The edit of one book: authors that are written are there.
LEMMA PatchKeeps ==
    ASSUME NEW d, DbOK(d), NEW b, NEW old, NEW oldIdents, NEW patch, NEW idents,
           PatchedAuthors(old, patch) # old.authors => PatchedAuthors(old, patch) \in Seq(d.authors)
    PROVE  Keeps(d, PatchBook(d, b, old, oldIdents, patch, idents))
  <1> DEFINE new == PatchedRow(old, patch)
             authors == PatchedAuthors(old, patch)
             rows == [k \in {<<b, i[1]>> : i \in idents} |-> (CHOOSE i \in idents : i[1] = k[2])[2]]
             e == [d EXCEPT !.book[b].title = new.title,
                            !.book[b].sort = new.sort,
                            !.book[b].rating = new.rating,
                            !.book[b].authors = IF authors # old.authors THEN authors ELSE @,
                            !.ident = IF ReplacesIdents(oldIdents, idents) THEN rows ++ Drop(@, KeysWith(@, 1, b)) ELSE @]
  <1>1. PatchBook(d, b, old, oldIdents, patch, idents) \in {d, e} /\ (~Has(d.book, b) => PatchBook(d, b, old, oldIdents, patch, idents) = d)
    BY DEF PatchBook
  <1>2. Keeps(d, d)
    BY DEF Keeps, Steady
  <1>3. ASSUME Has(d.book, b)
        PROVE  Keeps(d, e)
    <2>1. \A k \in DOMAIN e.ident : k[1] = b \/ k \in DOMAIN d.ident
      BY DEF ++, Drop, Restrict, DbOK, Sound, Schema
    <2>2. /\ DOMAIN e = DOMAIN d /\ DOMAIN e.book = DOMAIN d.book
          /\ \A x \in DOMAIN d.book : /\ DOMAIN e.book[x] = DOMAIN d.book[x]
                                      /\ e.book[x].authors \in {d.book[x].authors, authors}
                                      /\ e.book[x].authors # d.book[x].authors => authors # old.authors
      BY <1>3 DEF DbOK, Sound, Schema, Has
    <2>3. /\ e.format = d.format
          /\ e.progress = d.progress /\ e.state = d.state /\ e.note = d.note /\ e.tag = d.tag /\ e.columns = d.columns
          /\ e.custom = d.custom /\ e.tagname = d.tagname /\ e.restricted = d.restricted /\ e.shelf = d.shelf
          /\ e.shelved = d.shelved /\ e.collection = d.collection /\ e.collected = d.collected
          /\ e.chunked = d.chunked /\ e.profile = d.profile /\ e.imports = d.imports /\ e.authors = d.authors
      BY DEF DbOK, Sound, Schema
    <2> HIDE DEF e, authors
    <2>4. \A x \in DOMAIN e.book : e.book[x].authors \in Seq(e.authors)
      BY <2>2, <2>3 DEF DbOK, Sound, References, authors
    <2> QED BY <1>3, <2>1, <2>2, <2>3, <2>4 DEF DbOK, Sound, Schema, References, OneFile, OfItsBook, Keeps, Steady, Has
  <1> QED BY <1>1, <1>2, <1>3

\* Edits of many books
LEMMA BulkTagsKeep ==
    ASSUME NEW d, DbOK(d), NEW books, books \subseteq DOMAIN d.book, NEW mode, NEW tags
    PROVE  Keeps(d, BulkTags(d, books, mode, tags))
  <1> DEFINE own == {k \in DOMAIN d.tag : k[1] \in books}
             kept == CASE mode = "overwrite" -> {}
                       [] mode = "append" -> own
                       [] mode = "remove" -> {k \in own : k[2] \notin tags}
             new == IF mode = "remove" THEN {} ELSE (books \X tags) \ kept
             links == [k \in new |-> TRUE] ++ Drop(d.tag, own \ kept)
             names == [k \in {x[2] : x \in new} |-> <<k, "manual">>]
             e == [d EXCEPT !.tag = links, !.tagname = @ ++ names]
  <1>1. DOMAIN links \subseteq new \cup DOMAIN d.tag
    BY DEF ++, Drop, Restrict
  <1>2. new \subseteq books \X {x[2] : x \in new}
    OBVIOUS
  <1>3. DOMAIN names = {x[2] : x \in new}
    OBVIOUS
  <1> HIDE DEF links, new, names
  <1>4. Keeps(d, e)
    BY <1>1, <1>2, <1>3 DEF DbOK, Sound, Schema, References, OneFile, OfItsBook, Keeps, Steady, Has, ++
  <1> QED BY <1>4 DEF BulkTags, links, new, names

LEMMA BulkUpdateKeeps ==
    ASSUME NEW d, DbOK(d), NEW books, NEW change
    PROVE  Keeps(d, BulkUpdate(d, books, change))
  <1> DEFINE found == books \cap DOMAIN d.book
             rows == [b \in found |->
                         [d.book[b] EXCEPT !.rating = IF Has(change, "rating") THEN change.rating ELSE @,
                                           !.publisher = IF Has(change, "publisher") THEN change.publisher ELSE @]] ++ d.book
             e == [d EXCEPT !.book = rows]
  <1>1. /\ DOMAIN rows = DOMAIN d.book
        /\ \A b \in DOMAIN d.book : DOMAIN rows[b] = DOMAIN d.book[b] /\ rows[b].authors = d.book[b].authors
    BY DEF ++, DbOK, Sound, Schema
  <1> HIDE DEF rows
  <1>2. Keeps(d, e) /\ DOMAIN e.book = DOMAIN d.book
    BY <1>1, ZenonT(60) DEF DbOK, Sound, Schema, References, OneFile, OfItsBook, Keeps, Steady, Has
  <1>3. found \subseteq DOMAIN e.book
    BY <1>2
  <1>4. BulkUpdate(d, books, change) \in {e, BulkTags(e, found, change.mode, change.tags)}
    BY DEF BulkUpdate, rows
  <1> HIDE DEF e, found
  <1>5. Keeps(e, BulkTags(e, found, change.mode, change.tags))
    BY <1>2, <1>3, BulkTagsKeep DEF Keeps
  <1> QED BY <1>2, <1>4, <1>5 DEF Keeps, Steady, Has

-----------------------------------------------------------------------------
(* The merges. Between their statements positions are on files of another
   book, so that only the rest of what the tables promise holds.             *)

\* What moves neither books, files nor positions
Beside(d, e) ==
    /\ Sound(e) /\ DOMAIN e.book = DOMAIN d.book /\ e.format = d.format /\ e.progress = d.progress /\ e.imports = d.imports

LEMMA MoveFormatsMoves ==
    ASSUME NEW d, Sound(d), NEW b \in DOMAIN d.book, NEW F, F \subseteq DOMAIN d.format,
           \A f \in F, g \in DOMAIN d.format : Name(f) = Name(g) /\ (g \in F \/ d.format[g] = b) => f = g
    PROVE  LET e == MoveFormats(d, F, b)
           IN  /\ Sound(e) /\ DOMAIN e.book = DOMAIN d.book /\ e.progress = d.progress /\ e.imports = d.imports
               /\ e.format = [f \in DOMAIN d.format |-> IF f \in F THEN b ELSE d.format[f]]
  BY DEF MoveFormats, Sound, Schema, References, OneFile, Has

LEMMA MergeIdentsKeeps ==
    ASSUME NEW d, Sound(d), NEW p \in DOMAIN d.book, NEW q
    PROVE  Beside(d, MergeIdents(d, p, q))
  <1> DEFINE types(b) == {k[2] : k \in KeysWith(d.ident, 1, b)}
             new == [k \in {<<p, t>> : t \in types(q) \ types(p)} |-> d.ident[<<q, k[2]>>]]
             rows == new ++ Drop(d.ident, KeysWith(d.ident, 1, q))
             e == [d EXCEPT !.ident = rows]
  <1>1. \A k \in DOMAIN rows : k[1] = p \/ k \in DOMAIN d.ident
    BY DEF ++, Drop, Restrict
  <1> HIDE DEF rows
  <1>2. Beside(d, e)
    BY <1>1 DEF Beside, Sound, Schema, References, OneFile, Has
  <1> QED BY <1>2 DEF MergeIdents, rows

LEMMA MergeAuthorsKeeps ==
    ASSUME NEW d, Sound(d), NEW p \in DOMAIN d.book, NEW q \in DOMAIN d.book
    PROVE  Beside(d, MergeAuthors(d, p, q))
  <1> DEFINE old == d.book[p].authors
             more == d.book[q].authors
             P == {i \in DOMAIN more : more[i] \notin Range(old)}
             new == old \o AtPlaces(more, P)
             e == [d EXCEPT !.book[p].authors = new]
  <1>1. old \in Seq(d.authors) /\ more \in Seq(d.authors)
    BY DEF Sound, References
  <1>2. new \in Seq(d.authors)
    <2>1. P \in SUBSET DOMAIN more
      OBVIOUS
    <2> HIDE DEF P, old, more
    <2>2. AtPlaces(more, P) \in Seq({more[i] : i \in P})
      BY <1>1, <2>1, ItemsAtPlaces
    <2>3. {more[i] : i \in P} \subseteq d.authors
      BY <1>1, <2>1
    <2>4. AtPlaces(more, P) \in Seq(d.authors)
      BY <2>2, <2>3
    <2> QED BY <1>1, <2>4
  <1> HIDE DEF new
  <1>3. Beside(d, e)
    BY <1>2 DEF Beside, Sound, Schema, References, OneFile, Has
  <1> QED BY <1>3 DEF MergeAuthors, new, old, more, P

LEMMA MergeTagsKeeps ==
    ASSUME NEW d, Sound(d), NEW p \in DOMAIN d.book, NEW q
    PROVE  Beside(d, MergeTags(d, p, q))
  <1> DEFINE confirmed(t) == \E b \in {p, q} : Has(d.tag, <<b, t>>) /\ d.tag[<<b, t>>]
             tags == {k[2] : k \in KeysWith(d.tag, 1, q)}
             rows == [k \in {<<p, t>> : t \in tags} |-> confirmed(k[2])] ++ Drop(d.tag, KeysWith(d.tag, 1, q))
             e == [d EXCEPT !.tag = rows]
  <1>1. DOMAIN rows \subseteq {<<p, t>> : t \in tags} \cup DOMAIN d.tag
    BY DEF ++, Drop, Restrict
  <1>2. tags \subseteq DOMAIN d.tagname
    BY DEF KeysWith, Sound, References
  <1>3. DOMAIN rows \subseteq (DOMAIN d.book) \X (DOMAIN d.tagname)
    <2> HIDE DEF rows, tags
    <2> QED BY <1>1, <1>2 DEF Sound, References
  <1> HIDE DEF rows
  <1>4. Beside(d, e)
    BY <1>3 DEF Beside, Sound, Schema, References, OneFile, Has
  <1> QED BY <1>4 DEF MergeTags, rows

LEMMA MergeStatesKeeps ==
    ASSUME NEW d, Sound(d), NEW p \in DOMAIN d.book, NEW q
    PROVE  Beside(d, MergeStates(d, p, q))
  <1> DEFINE of(u, b) == IF Has(d.state, <<u, b>>) THEN d.state[<<u, b>>] ELSE [read |-> FALSE, archived |-> FALSE]
             users == {k[1] : k \in KeysWith(d.state, 2, q)}
             rows == [k \in {<<u, p>> : u \in users} |->
                         [read |-> of(k[1], p).read \/ of(k[1], q).read,
                          archived |-> of(k[1], p).archived \/ of(k[1], q).archived]]
                     ++ Drop(d.state, KeysWith(d.state, 2, q))
             e == [d EXCEPT !.state = rows]
  <1>1. DOMAIN rows \subseteq {<<u, p>> : u \in users} \cup DOMAIN d.state
    BY DEF ++, Drop, Restrict
  <1>2. users \subseteq Users
    BY DEF KeysWith, Sound, References
  <1>3. DOMAIN rows \subseteq Users \X (DOMAIN d.book)
    <2> HIDE DEF rows, users
    <2> QED BY <1>1, <1>2 DEF Sound, References
  <1> HIDE DEF rows
  <1>4. Beside(d, e)
    BY <1>3 DEF Beside, Sound, Schema, References, OneFile, Has
  <1> QED BY <1>4 DEF MergeStates, rows

LEMMA ReshelveKeeps ==
    ASSUME NEW d, Sound(d), NEW from, NEW to \in DOMAIN d.book
    PROVE  Beside(d, Reshelve(d, from, to))
  <1> DEFINE old == KeysWith(d.shelved, 2, from)
             new == {<<k[1], to>> : k \in old} \ DOMAIN d.shelved
             rows == [k \in new |-> d.shelved[<<k[1], from>>]] ++ Drop(d.shelved, old)
             e == [d EXCEPT !.shelved = rows]
  <1>1. DOMAIN rows \subseteq new \cup DOMAIN d.shelved
    BY DEF ++, Drop, Restrict
  <1>2. \A k \in old : k[1] \in DOMAIN d.shelf
    BY DEF KeysWith, Sound, References
  <1>3. DOMAIN rows \subseteq (DOMAIN d.shelf) \X (DOMAIN d.book)
    <2>1. new \subseteq (DOMAIN d.shelf) \X (DOMAIN d.book)
      BY <1>2
    <2> HIDE DEF rows, new, old
    <2> QED BY <1>1, <2>1 DEF Sound, References
  <1> HIDE DEF rows
  <1>4. Beside(d, e)
    BY <1>3 DEF Beside, Sound, Schema, References, OneFile, Has
  <1> QED BY <1>4 DEF Reshelve, rows

LEMMA ReparentNotesKeeps ==
    ASSUME NEW d, Sound(d), NEW s, NEW t \in DOMAIN d.book
    PROVE  Beside(d, ReparentNotes(d, s, t))
  BY DEF ReparentNotes, Beside, Sound, Schema, References, OneFile, Has

\* A position goes to the file of the primary that has the name of the one it
\* was on: then every position is on a file of its book again.
Remains(d, p, q, k) ==
    LET f == d.progress[k].format
    IN  IF k[2] = q THEN \E g \in DOMAIN d.format : d.format[g] = p /\ Name(g) = Name(f)
        ELSE Has(d.format, f) /\ d.format[f] = k[2]

\* The position of each reader on p in e is the further of those on p and q in d.
Further(d, e, p, q) ==
    \A u : LET had == {<<u, p>>, <<u, q>>} \cap DOMAIN d.progress
           IN  /\ had # {} <=> <<u, p>> \in DOMAIN e.progress
               /\ had # {} => \E k \in had : /\ e.progress[<<u, p>>].pct = d.progress[k].pct
                                             /\ \A j \in had : d.progress[j].pct <= d.progress[k].pct

LEMMA MergeProgressMoves ==
    ASSUME NEW d, Sound(d), NEW p \in DOMAIN d.book, NEW q, p # q, \A k \in DOMAIN d.progress : Remains(d, p, q, k)
    PROVE  LET e == MergeProgress(d, p, q)
           IN  /\ Sound(e) /\ DOMAIN e.book = DOMAIN d.book /\ e.format = d.format /\ e.imports = d.imports
               /\ OfItsBook(e) /\ Further(d, e, p, q)
  <1> DEFINE Ahead(u) == d.progress[<<u, q>>].pct >= d.progress[<<u, p>>].pct
             set == {u \in ReadersOf(d, q) : ~(Has(d.progress, <<u, p>>) /\ ~Ahead(u))}
             new == [k \in {<<u, p>> : u \in set} |->
                        LET row == d.progress[<<k[1], q>>] IN [row EXCEPT !.format = MappedFormat(d, p, @)]]
             rows == new ++ Drop(d.progress, KeysWith(d.progress, 2, q))
             e == [d EXCEPT !.progress = rows]
  <1>1. ASSUME NEW u \in set
        PROVE  u \in Users /\ <<u, q>> \in DOMAIN d.progress
    <2>1. PICK k \in DOMAIN d.progress : k[2] = q /\ u = k[1]
      BY DEF ReadersOf
    <2>2. k \in Users \X (DOMAIN d.book)
      BY DEF Sound, References
    <2> QED BY <2>1, <2>2
  <1>2. ASSUME NEW k \in DOMAIN d.progress, k[2] = q
        PROVE  LET f == MappedFormat(d, p, d.progress[k].format) IN f \in DOMAIN d.format /\ d.format[f] = p
    <2> DEFINE file == d.progress[k].format
               same == FindFormat(d, p, Name(file))
    <2>1. same # {}
      BY <1>2 DEF FindFormat, FilesOf, Has, Remains
    <2>2. MappedFormat(d, p, file) \in same
      BY <2>1 DEF MappedFormat
    <2> QED BY <2>2 DEF FindFormat, FilesOf
  <1>3. ASSUME NEW k \in DOMAIN new
        PROVE  /\ k \in Users \X (DOMAIN d.book) /\ k[2] = p
               /\ DOMAIN new[k] = {"format", "pct"} /\ new[k].pct \in 0..100
               /\ Has(d.format, new[k].format) /\ d.format[new[k].format] = p
    <2>1. PICK u \in set : k = <<u, p>>
      OBVIOUS
    <2> DEFINE row == d.progress[<<u, q>>]
    <2>2. new[k] = [row EXCEPT !.format = MappedFormat(d, p, @)]
      BY <2>1
    <2>3. <<u, q>> \in DOMAIN d.progress /\ u \in Users
      BY <1>1
    <2>4. DOMAIN row = {"format", "pct"} /\ row.pct \in 0..100
      BY <2>3 DEF Sound, Schema, References
    <2>5. LET f == MappedFormat(d, p, row.format) IN f \in DOMAIN d.format /\ d.format[f] = p
      BY <1>2, <2>3
    <2> HIDE DEF new, set
    <2> QED BY <2>1, <2>2, <2>3, <2>4, <2>5 DEF Has
  <1>a. \A u \in set : <<u, p>> \in DOMAIN new /\ new[<<u, p>>].pct = d.progress[<<u, q>>].pct
    <2>1. ASSUME NEW u \in set
          PROVE  <<u, p>> \in DOMAIN new /\ new[<<u, p>>] = [d.progress[<<u, q>>] EXCEPT !.format = MappedFormat(d, p, @)]
      OBVIOUS
    <2> HIDE DEF new, set
    <2>2. \A u \in set : DOMAIN d.progress[<<u, q>>] = {"format", "pct"}
      BY <1>1 DEF Sound, Schema
    <2> QED BY <2>1, <2>2
  <1>b. ASSUME NEW u
        PROVE  u \in set <=> <<u, q>> \in DOMAIN d.progress /\ (<<u, p>> \in DOMAIN d.progress => Ahead(u))
    <2>1. <<u, q>> \in DOMAIN d.progress => u \in ReadersOf(d, q)
      BY DEF ReadersOf
    <2>2. u \in ReadersOf(d, q) => <<u, q>> \in DOMAIN d.progress
      <3>1. \A k \in DOMAIN d.progress : k[2] = q => k = <<k[1], q>>
        BY DEF Sound, References
      <3> QED BY <3>1 DEF ReadersOf
    <2> HIDE DEF Ahead
    <2> QED BY <2>1, <2>2 DEF Has
  <1>c. \A u : <<u, p>> \in DOMAIN new => u \in set
    OBVIOUS
  <1> HIDE DEF set, new
  <1>4. /\ DOMAIN rows = DOMAIN new \cup {k \in DOMAIN d.progress : k[2] # q}
        /\ \A k \in DOMAIN rows : \/ k \in DOMAIN new /\ rows[k] = new[k]
                                  \/ k \in DOMAIN d.progress /\ k[2] # q /\ k \notin DOMAIN new /\ rows[k] = d.progress[k]
    BY DEF ++, Drop, Restrict, KeysWith
  <1> HIDE DEF rows
  <1>5. \A k \in DOMAIN d.progress : /\ k \in Users \X (DOMAIN d.book)
                                     /\ DOMAIN d.progress[k] = {"format", "pct"} /\ d.progress[k].pct \in 0..100
    BY DEF Sound, Schema, References
  <1>6. \A k \in DOMAIN rows : /\ k \in Users \X (DOMAIN d.book)
                               /\ DOMAIN rows[k] = {"format", "pct"} /\ rows[k].pct \in 0..100
    BY <1>3, <1>4, <1>5
  <1>7. \A k \in DOMAIN rows : Has(d.format, rows[k].format) /\ d.format[rows[k].format] = k[2]
    BY <1>3, <1>4 DEF Remains
  <1>8. /\ Sound(e) /\ DOMAIN e.book = DOMAIN d.book /\ e.format = d.format /\ e.imports = d.imports
        /\ e.progress = rows
    BY <1>6 DEF Sound, Schema, References, OneFile, Has
  <1>9. OfItsBook(e)
    BY <1>7, <1>8 DEF OfItsBook
  <1>10. ASSUME NEW u
         PROVE  LET had == {<<u, p>>, <<u, q>>} \cap DOMAIN d.progress
                IN  /\ had # {} <=> <<u, p>> \in DOMAIN rows
                    /\ had # {} => \E k \in had : /\ rows[<<u, p>>].pct = d.progress[k].pct
                                                  /\ \A j \in had : d.progress[j].pct <= d.progress[k].pct
    <2> DEFINE a == <<u, p>>
               b == <<u, q>>
               had == {a, b} \cap DOMAIN d.progress
    <2>0. a # b /\ a[2] = p /\ a[2] # q /\ (a \in DOMAIN d.progress => d.progress[a].pct \in 0..100)
          /\ (b \in DOMAIN d.progress => d.progress[b].pct \in 0..100)
      BY <1>5
    <2>1. CASE u \in set
      <3>1. b \in DOMAIN d.progress /\ (a \in DOMAIN d.progress => d.progress[b].pct >= d.progress[a].pct)
        BY <1>b, <2>1
      <3>2. a \in DOMAIN rows /\ rows[a].pct = d.progress[b].pct
        BY <1>4, <1>a, <2>1
      <3> HIDE DEF a, b
      <3>3. \A j \in had : d.progress[j].pct <= d.progress[b].pct
        BY <2>0, <3>1
      <3> QED BY <3>1, <3>2, <3>3 DEF a, b
    <2>2. CASE u \notin set
      <3>1. a \notin DOMAIN new
        BY <1>c, <2>2
      <3>2. a \in DOMAIN rows <=> a \in DOMAIN d.progress
        BY <1>4, <2>0, <3>1
      <3>3. a \in DOMAIN rows => rows[a] = d.progress[a]
        BY <1>4, <3>1
      <3>4. b \in DOMAIN d.progress => a \in DOMAIN d.progress /\ d.progress[b].pct <= d.progress[a].pct
        <4>1. b \in DOMAIN d.progress => a \in DOMAIN d.progress /\ ~(d.progress[b].pct >= d.progress[a].pct)
          BY <1>b, <2>2
        <4>2. \A x, y \in 0..100 : ~(x >= y) => x <= y
          OBVIOUS
        <4> HIDE DEF a, b
        <4> QED BY <2>0, <4>1, <4>2, Zenon
      <3> HIDE DEF a, b
      <3>5. \A j \in had : a \in had /\ d.progress[j].pct <= d.progress[a].pct
        BY <2>0, <3>4
      <3> QED BY <3>2, <3>3, <3>5 DEF a, b
    <2> QED BY <2>1, <2>2
  <1>11. Further(d, e, p, q)
    BY <1>8, <1>10 DEF Further
  <1> QED BY <1>8, <1>9, <1>11 DEF MergeProgress, rows, new, set

\* What is left for the deletion of the duplicate, after everything was moved
LEMMA EverythingMoves ==
    ASSUME NEW d, DbOK(d), NEW p \in DOMAIN d.book, NEW q \in DOMAIN d.book, p # q
    PROVE  \E moved : /\ MergeBooks(d, p, q) = DeleteBookRow(moved, q)
                      /\ DbOK(moved) /\ DOMAIN moved.book = DOMAIN d.book /\ moved.imports = d.imports
                      /\ DOMAIN moved.format = DOMAIN d.format
                      /\ \A f \in DOMAIN d.format : moved.format[f] = d.format[f] \/ d.format[f] = q
                      /\ Further(d, moved, p, q)
  <1> DEFINE F == {f \in FilesOf(d, q) : Name(f) \notin FormatNames(d, p)}
             formats == MoveFormats(d, F, p)
             idents == MergeIdents(formats, p, q)
             authors == MergeAuthors(idents, p, q)
             links == MergeTags(authors, p, q)
             progress == MergeProgress(links, p, q)
             shelved == Reshelve(progress, q, p)
             readers == MergeStates(shelved, p, q)
  <1>1. /\ Sound(formats) /\ DOMAIN formats.book = DOMAIN d.book /\ formats.progress = d.progress
        /\ formats.imports = d.imports
        /\ formats.format = [f \in DOMAIN d.format |-> IF f \in F THEN p ELSE d.format[f]]
    <2>1. \A f \in F, g \in DOMAIN d.format : Name(f) = Name(g) /\ (g \in F \/ d.format[g] = p) => f = g
      BY DEF FilesOf, FormatNames, DbOK, Sound, OneFile
    <2>2. F \subseteq DOMAIN d.format
      BY DEF FilesOf
    <2> HIDE DEF F
    <2> QED BY <2>1, <2>2, MoveFormatsMoves DEF DbOK
  <1> HIDE DEF formats
  <1>2. Beside(formats, idents)
    BY <1>1, MergeIdentsKeeps
  <1> HIDE DEF idents
  <1>3. Beside(idents, authors)
    BY <1>1, <1>2, MergeAuthorsKeeps DEF Beside
  <1> HIDE DEF authors
  <1>4. Beside(authors, links)
    BY <1>1, <1>2, <1>3, MergeTagsKeeps DEF Beside
  <1> HIDE DEF links
  <1>5. /\ Sound(links) /\ DOMAIN links.book = DOMAIN d.book /\ links.progress = d.progress
        /\ links.imports = d.imports
        /\ links.format = [f \in DOMAIN d.format |-> IF f \in F THEN p ELSE d.format[f]]
    BY <1>1, <1>2, <1>3, <1>4 DEF Beside
  <1>6. /\ Sound(progress) /\ DOMAIN progress.book = DOMAIN d.book /\ progress.format = links.format
        /\ progress.imports = d.imports /\ OfItsBook(progress) /\ Further(links, progress, p, q)
    <2>1. ASSUME NEW k \in DOMAIN links.progress
          PROVE  Remains(links, p, q, k)
      <3> DEFINE f == d.progress[k].format
      <3>1. f \in DOMAIN d.format /\ d.format[f] = k[2] /\ links.progress[k].format = f
        BY <1>5 DEF DbOK, OfItsBook, Has
      <3>2. CASE k[2] # q
        BY <1>5, <3>1, <3>2 DEF Remains, Has, FilesOf
      <3>3. CASE k[2] = q /\ f \in F
        BY <1>5, <3>1, <3>3 DEF Remains
      <3>4. CASE k[2] = q /\ f \notin F
        <4>1. PICK g \in DOMAIN d.format : d.format[g] = p /\ Name(g) = Name(f)
          BY <3>1, <3>4 DEF FormatNames, FilesOf
        <4>2. links.format[g] = p /\ g \in DOMAIN links.format
          BY <1>5, <4>1
        <4> QED BY <3>1, <3>4, <4>1, <4>2 DEF Remains
      <3> QED BY <3>2, <3>3, <3>4
    <2>2. p \in DOMAIN links.book
      BY <1>5
    <2> QED BY <1>5, <2>1, <2>2, MergeProgressMoves
  <1> HIDE DEF progress
  <1>7. Beside(progress, shelved)
    BY <1>6, ReshelveKeeps
  <1> HIDE DEF shelved
  <1>8. Beside(shelved, readers)
    BY <1>6, <1>7, MergeStatesKeeps DEF Beside
  <1> HIDE DEF readers
  <1>9. DbOK(readers) /\ DOMAIN readers.book = DOMAIN d.book /\ readers.format = links.format /\ readers.imports = d.imports
    BY <1>6, <1>7, <1>8 DEF Beside, DbOK, OfItsBook
  <1>10. MergeBooks(d, p, q) = DeleteBookRow(readers, q)
    BY DEF MergeBooks, readers, shelved, progress, links, authors, idents, formats
  <1>11. \A f \in DOMAIN d.format : links.format[f] = d.format[f] \/ d.format[f] = q
    BY <1>5 DEF FilesOf
  <1>12. Further(d, readers, p, q)
    BY <1>5, <1>6, <1>7, <1>8 DEF Beside, Further
  <1> QED BY <1>5, <1>9, <1>10, <1>11, <1>12

LEMMA MergeBooksKeeps ==
    ASSUME NEW d, DbOK(d), NEW p \in DOMAIN d.book, NEW q \in DOMAIN d.book, p # q
    PROVE  Keeps(d, MergeBooks(d, p, q)) /\ ~Has(MergeBooks(d, p, q).book, q)
  <1>1. PICK moved : /\ MergeBooks(d, p, q) = DeleteBookRow(moved, q)
                     /\ DbOK(moved) /\ DOMAIN moved.book = DOMAIN d.book /\ moved.imports = d.imports
                     /\ DOMAIN moved.format = DOMAIN d.format
                     /\ \A f \in DOMAIN d.format : moved.format[f] = d.format[f] \/ d.format[f] = q
    BY EverythingMoves
  <1>2. Keeps(moved, DeleteBookRow(moved, q)) /\ ~Has(DeleteBookRow(moved, q).book, q)
    BY <1>1, DeleteBookKeeps
  <1> QED BY <1>1, <1>2 DEF Keeps, Steady, Has

\* A format that was a book's is the book's, as long as both are there.
Tied(d, b, f) == Has(d.book, b) /\ Has(d.format, f) => d.format[f] = b

\* What merge_exec has read of the positions, before its transaction
Seen(d, s, saw) ==
    /\ DOMAIN saw.source \subseteq Users
    /\ \A u \in DOMAIN saw.source : LET row == saw.source[u]
                                    IN  /\ DOMAIN row = {"format", "pct"} /\ row.pct \in 0..100
                                        /\ Tied(d, s, row.format)
    /\ \A u \in DOMAIN saw.target : saw.target[u].pct \in 0..100

LEMMA StrategyRows ==
    ASSUME NEW d, NEW s, NEW saw, Seen(d, s, saw), NEW u \in DOMAIN saw.source, NEW any,
           NEW strategy \in {"keep_target", "keep_source", "merge_max"}
    PROVE  LET row == StrategyRow(strategy, saw, u, any)
           IN  /\ DOMAIN row = {"format", "pct"} /\ row.pct \in 0..100
               /\ row.format = IF strategy = "keep_target" THEN any ELSE saw.source[u].format
  <1>1. DOMAIN saw.source[u] = {"format", "pct"} /\ saw.source[u].pct \in 0..100
    BY DEF Seen
  <1>2. Has(saw.target, u) => saw.target[u].pct \in 0..100
    BY DEF Seen, Has
  <1>3. CASE strategy = "keep_target"
    BY <1>1, <1>2, <1>3 DEF StrategyRow
  <1>4. CASE strategy = "keep_source"
    BY <1>1, <1>4 DEF StrategyRow
  <1>5. CASE strategy = "merge_max"
    <2>1. ASSUME NEW x \in 0..100, NEW y \in 0..100
          PROVE  Max({x, y}) \in 0..100
      <3>1. \E z \in {x, y} : \A w \in {x, y} : z >= w
        BY x >= y \/ y >= x
      <3>2. Max({x, y}) \in {x, y}
        BY <3>1, Zenon DEF Max
      <3> QED BY <3>2
    <2> DEFINE pct == IF Has(saw.target, u) THEN Max({saw.source[u].pct, saw.target[u].pct}) ELSE saw.source[u].pct
    <2>2. pct \in 0..100
      BY <1>1, <1>2, <2>1, ZenonT(30)
    <2> HIDE DEF pct
    <2>3. StrategyRow(strategy, saw, u, any) = [saw.source[u] EXCEPT !.pct = pct]
      BY <1>5 DEF StrategyRow, pct
    <2> QED BY <1>1, <1>5, <2>2, <2>3
  <1> QED BY <1>3, <1>4, <1>5

\* The transaction of merge_exec: what it would write wrongly it refuses.
LEMMA MergeExecKeeps ==
    ASSUME NEW d, DbOK(d), NEW s, NEW t, s # t, NEW saw, Seen(d, s, saw),
           NEW strategy \in {"keep_target", "keep_source", "merge_max"},
           ~MergeExecAborts(d, s, t, strategy, saw), NEW any \in FilesOf(ReplaceFormats(d, s, t, saw), t)
    PROVE  Keeps(d, MergeExec(d, s, t, strategy, saw, any))
  <1> DEFINE conflicts == {f \in FilesOf(d, t) : Name(f) \in saw.conflicts}
             e == DeleteFormats(d, conflicts)
             F == {f \in FilesOf(e, s) : Name(f) \in saw.formats}
             formats == MoveFormats(e, F, t)
             notes == ReparentNotes(formats, s, t)
             shelved == Reshelve(notes, s, t)
             rows == [k \in {<<u, t>> : u \in DOMAIN saw.source} |-> StrategyRow(strategy, saw, k[1], any)]
             x == [shelved EXCEPT !.progress = rows ++ @]
  <1>1. s \in DOMAIN d.book /\ t \in DOMAIN d.book
    BY DEF MergeExecAborts, Has
  <1>2. /\ Keeps(d, e) /\ DOMAIN e.book = DOMAIN d.book
        /\ DOMAIN e.format = DOMAIN d.format \ conflicts /\ \A f \in DOMAIN e.format : e.format[f] = d.format[f]
    <2>1. Keeps(d, e)
      BY DeleteFormatsKeeps
    <2>2. /\ DOMAIN e.book = DOMAIN d.book
          /\ DOMAIN e.format = DOMAIN d.format \ conflicts /\ \A f \in DOMAIN e.format : e.format[f] = d.format[f]
      BY DEF DeleteFormats, Drop, Restrict, DbOK, Sound, Schema
    <2> QED BY <2>1, <2>2
  <1>3. DbOK(e) /\ e.imports = d.imports
    BY <1>2 DEF Keeps
  <1>4. F \subseteq DOMAIN e.format /\ \A f \in F : e.format[f] = s
    BY DEF FilesOf
  <1>5. \A f \in F, g \in DOMAIN e.format : Name(f) = Name(g) /\ (g \in F \/ e.format[g] = t) => f = g
    <2>1. SUFFICES ASSUME NEW f \in F, NEW g \in DOMAIN e.format, Name(f) = Name(g), g \in F \/ e.format[g] = t
                   PROVE  f = g
      OBVIOUS
    <2>2. CASE g \in F
      BY <1>3, <1>4, <2>1, <2>2 DEF DbOK, Sound, OneFile
    <2>3. CASE e.format[g] = t
      <3>1. f \in FilesOf(d, s) /\ g \in FilesOf(d, t) /\ g \notin conflicts /\ Name(f) \in saw.formats
        BY <1>2, <1>4, <2>3 DEF FilesOf
      <3>2. Name(f) \notin saw.formats \ saw.conflicts
        BY <2>1, <3>1 DEF MergeExecAborts
      <3> QED BY <2>1, <3>1, <3>2
    <2> QED BY <2>1, <2>2, <2>3
  <1>6. formats = ReplaceFormats(d, s, t, saw)
    BY DEF ReplaceFormats
  <1> HIDE DEF e, F, conflicts
  <1>7. /\ Sound(formats) /\ DOMAIN formats.book = DOMAIN d.book /\ formats.progress = e.progress
        /\ formats.imports = d.imports
        /\ formats.format = [f \in DOMAIN e.format |-> IF f \in F THEN t ELSE e.format[f]]
    BY <1>1, <1>2, <1>3, <1>4, <1>5, MoveFormatsMoves DEF DbOK
  <1> HIDE DEF formats
  <1>8. Beside(formats, notes)
    BY <1>1, <1>7, ReparentNotesKeeps
  <1> HIDE DEF notes
  <1>9. Beside(notes, shelved)
    BY <1>1, <1>7, <1>8, ReshelveKeeps DEF Beside
  <1> HIDE DEF shelved
  <1>10. /\ Sound(shelved) /\ DOMAIN shelved.book = DOMAIN d.book /\ shelved.progress = e.progress
         /\ shelved.imports = d.imports
         /\ shelved.format = [f \in DOMAIN e.format |-> IF f \in F THEN t ELSE e.format[f]]
    BY <1>7, <1>8, <1>9 DEF Beside
  <1>11. ASSUME NEW k \in DOMAIN rows
         PROVE  /\ k \in Users \X (DOMAIN d.book) /\ k[2] = t
                /\ DOMAIN rows[k] = {"format", "pct"} /\ rows[k].pct \in 0..100
                /\ Has(shelved.format, rows[k].format) /\ shelved.format[rows[k].format] \in {t, s}
    <2>1. PICK u \in DOMAIN saw.source : k = <<u, t>>
      OBVIOUS
    <2>2. rows[k] = StrategyRow(strategy, saw, u, any)
      BY <2>1
    <2> HIDE DEF rows
    <2>3. /\ DOMAIN rows[k] = {"format", "pct"} /\ rows[k].pct \in 0..100
          /\ rows[k].format = IF strategy = "keep_target" THEN any ELSE saw.source[u].format
      BY <2>2, StrategyRows
    <2>4. CASE strategy = "keep_target"
      <3>1. any \in FilesOf(formats, t)
        BY <1>6
      <3>2. any \in DOMAIN shelved.format /\ shelved.format[any] = t
        BY <1>7, <1>10, <3>1 DEF FilesOf
      <3> QED BY <1>1, <2>1, <2>3, <2>4, <3>2 DEF Seen, Has
    <2>5. CASE strategy # "keep_target"
      <3> DEFINE f == saw.source[u].format
      <3>1. f \in DOMAIN formats.format
        BY <1>6, <2>5 DEF MergeExecAborts, Has
      <3>2. f \in DOMAIN e.format /\ e.format[f] = d.format[f] /\ f \in DOMAIN d.format
        BY <1>2, <1>7, <3>1
      <3>3. d.format[f] = s
        BY <1>1, <3>2 DEF Seen, Tied, Has
      <3>4. shelved.format[f] \in {t, s} /\ f \in DOMAIN shelved.format
        BY <1>10, <3>2, <3>3
      <3> QED BY <1>1, <2>1, <2>3, <2>5, <3>4 DEF Seen, Has
    <2> QED BY <2>4, <2>5
  <1>12. \A k \in DOMAIN e.progress :
            /\ k \in Users \X (DOMAIN d.book)
            /\ DOMAIN e.progress[k] = {"format", "pct"} /\ e.progress[k].pct \in 0..100
            /\ LET f == e.progress[k].format IN Has(e.format, f) /\ e.format[f] = k[2]
    BY <1>2, <1>3 DEF DbOK, Sound, Schema, References, OfItsBook
  <1> HIDE DEF rows
  <1>13. /\ DOMAIN (rows ++ e.progress) = DOMAIN rows \cup DOMAIN e.progress
         /\ \A k \in DOMAIN (rows ++ e.progress) : \/ k \in DOMAIN rows /\ (rows ++ e.progress)[k] = rows[k]
                                                   \/ k \in DOMAIN e.progress /\ (rows ++ e.progress)[k] = e.progress[k]
    BY DEF ++
  <1>14. /\ Sound(x) /\ DOMAIN x.book = DOMAIN d.book /\ x.format = shelved.format /\ x.imports = d.imports
         /\ x.progress = rows ++ e.progress
    <2> DEFINE all == rows ++ e.progress
    <2>1. \A k \in DOMAIN all : /\ k \in Users \X (DOMAIN d.book)
                                /\ DOMAIN all[k] = {"format", "pct"} /\ all[k].pct \in 0..100
      BY <1>11, <1>12, <1>13
    <2> HIDE DEF all
    <2>2. x = [shelved EXCEPT !.progress = all]
      BY <1>10 DEF all
    <2> HIDE DEF x
    <2>3. /\ x.progress = all /\ DOMAIN x = DOMAIN shelved
          /\ x.book = shelved.book /\ x.format = shelved.format /\ x.state = shelved.state /\ x.note = shelved.note
          /\ x.tag = shelved.tag /\ x.tagname = shelved.tagname /\ x.ident = shelved.ident /\ x.custom = shelved.custom
          /\ x.columns = shelved.columns /\ x.restricted = shelved.restricted /\ x.shelved = shelved.shelved
          /\ x.shelf = shelved.shelf /\ x.collected = shelved.collected /\ x.collection = shelved.collection
          /\ x.authors = shelved.authors /\ x.profile = shelved.profile /\ x.imports = shelved.imports
          /\ x.chunked = shelved.chunked
      BY <1>10, <2>2 DEF Sound, Schema
    <2>4. Schema(x)
      BY <1>10, <2>1, <2>3 DEF Sound, Schema
    <2>5. References(x)
      <3>1. References(shelved) /\ DOMAIN shelved.book = DOMAIN d.book
        BY <1>10 DEF Sound
      <3>2. DOMAIN x.progress \cup DOMAIN x.state \subseteq Users \X (DOMAIN x.book)
        BY <2>1, <2>3, <3>1 DEF References
      <3>3. \A k \in DOMAIN x.progress : x.progress[k].pct \in 0..100
        BY <2>1, <2>3
      <3> QED BY <2>3, <3>1, <3>2, <3>3, SMTT(30) DEF References
    <2>6. OneFile(x) /\ DOMAIN x.book = DOMAIN d.book /\ x.format = shelved.format /\ x.imports = d.imports
      BY <1>10, <2>3 DEF Sound, Schema, OneFile
    <2> QED BY <2>3, <2>4, <2>5, <2>6 DEF all, Sound
  <1>15. ASSUME NEW k \in DOMAIN x.progress, k[2] # s
         PROVE  LET f == x.progress[k].format IN Has(x.format, f) /\ x.format[f] \in {k[2], s}
    <2> DEFINE f == x.progress[k].format
    <2>1. CASE k \in DOMAIN rows /\ x.progress[k] = rows[k]
      BY <1>11, <1>14, <2>1
    <2>2. CASE k \in DOMAIN e.progress /\ x.progress[k] = e.progress[k]
      <3>1. f \in DOMAIN e.format /\ e.format[f] = k[2]
        BY <1>12, <2>2 DEF Has
      <3>2. f \in DOMAIN shelved.format /\ shelved.format[f] \in {t, e.format[f]}
        BY <1>10, <3>1
      <3>3. f \in F => e.format[f] = s
        BY <1>4
      <3>4. f \notin F => shelved.format[f] = e.format[f]
        BY <1>10, <3>1
      <3> QED BY <1>14, <1>15, <3>1, <3>2, <3>3, <3>4 DEF Has
    <2> QED BY <1>13, <1>14, <2>1, <2>2
  <1> HIDE DEF x
  <1>16. Keeps(x, DeleteBookRow(x, s)) /\ ~Has(DeleteBookRow(x, s).book, s)
    BY <1>14, <1>15, DeleteBookRows
  <1>17. MergeExec(d, s, t, strategy, saw, any) = DeleteBookRow(x, s)
    BY <1>6 DEF MergeExec, x, rows, shelved, notes
  <1>18. DOMAIN x.format \subseteq DOMAIN d.format /\ \A f \in DOMAIN x.format : x.format[f] = d.format[f] \/ d.format[f] = s
    BY <1>2, <1>4, <1>10, <1>14
  <1> QED BY <1>14, <1>16, <1>17, <1>18 DEF Keeps, Steady, Has

-----------------------------------------------------------------------------
(* The requests under way, and the ids that are not in use yet.              *)

\* Calls that may still insert a book
Waits(r) == r = New \/ (r.op = "upload" /\ r.at \in {"put", "insert"})
Unborn == {NewBook[c] : c \in {e \in Calls : Waits(call[e])}}

\* What a request was asked, ...
Shape(c, r) ==
    /\ {"op", "at"} \subseteq DOMAIN r /\ r.op \notin {"new", "over"}
    /\ r.op \in {"progress", "state", "import"} => r.user \in Users
    /\ r.op = "note" /\ r.at = "create" => r.user \in Users
    /\ r.op = "progress" => r.pct \in 0..100
    /\ r.op = "upload" => r.book = NewBook[c] /\ \E name \in FormatsUploaded : r.file = <<NewBook[c], name>>
    /\ r.op = "patch" => r.patch \in Patches
    /\ r.op = "delete" => "paths" \in DOMAIN r
    /\ r.op = "merge" => r.book # r.duplicate
    /\ r.op = "exec" => /\ r.source # r.book /\ "saw" \in DOMAIN r
                        /\ r.strategy \in {"keep_target", "keep_source", "merge_max"}

\* ... and what it may rely on of what it has read: a format that was a book's
\* is that book's as long as both are there. U are the ids not in use yet.
Bound(d, U, r) ==
    /\ r.op = "progress" => Tied(d, r.book, r.format) /\ r.book \notin U /\ r.format[1] \notin U
    /\ r.op = "delete" => /\ r.book \notin U
                          /\ \A f \in r.paths : f[1] \notin U
                          /\ r.at = "delete" => \A f \in r.paths : Tied(d, r.book, f)
                          /\ r.at = "remove" => \A f \in r.paths : ~Has(d.format, f)
    /\ r.op = "merge" /\ r.at = "finish" => r.duplicate \notin U /\ ~Has(d.book, r.duplicate)
    /\ r.op = "exec" => /\ r.source \notin U
                        /\ r.at = "write" => /\ Seen(d, r.source, r.saw)
                                             /\ \A u \in DOMAIN r.saw.source : r.saw.source[u].format[1] \notin U

CallsOK ==
    /\ DOMAIN call = Calls
    /\ \A c \in Calls : InFlight(c) => Shape(c, call[c]) /\ Bound(db, Unborn, call[c])

\* A file is of a book there was or that was uploaded, and no cover.
FileOK(f) ==
    /\ f = <<f[1], f[2]>>
    /\ f[1] \in {g[1] : g \in DOMAIN InitDb.format} \cup {NewBook[c] : c \in Calls}
    /\ Name(f) \notin Range(CoverFiles)

Inv ==
    /\ CallsOK
    /\ DbOK(db)
    /\ \A f \in DOMAIN db.format : FileOK(f) /\ f[1] \notin Unborn
    /\ \A b \in DOMAIN db.book : b \notin Unborn
    /\ \A t \in tasks : t.kind = "removal" => t.book \notin Unborn /\ ~Has(db.book, t.book)
    /\ faults \in 0..MaxFaults /\ crashes \in 0..MaxCrashes

-----------------------------------------------------------------------------
(* Steps, by what they do to the requests and to the books.                  *)

Others(c) == DOMAIN call' = Calls /\ \A e \in Calls \ {c} : call'[e] = call[e]

\* Books and files of d that are new in e are of the ids in U; a file leaves a
\* book only when the book is gone.
Evolves(d, e, U) ==
    /\ \A b \in DOMAIN e.book : Has(d.book, b) \/ b \in U
    /\ \A f \in DOMAIN e.format : \/ Has(d.format, f) /\ (e.format[f] = d.format[f] \/ ~Has(e.book, d.format[f]))
                                  \/ f[1] \in U /\ FileOK(f)

\* What a step of the call c does; Born is NewBook[c] if it inserts its book.
Moves(c, Born) ==
    /\ Others(c)
    /\ call'[c] = Over \/ (Shape(c, call'[c]) /\ Bound(db', Unborn, call'[c]))
    /\ Waits(call'[c]) => Waits(call[c])
    /\ Born # {} => Born = {NewBook[c]} /\ Waits(call[c]) /\ ~Waits(call'[c])
    /\ DbOK(db') /\ Evolves(db, db', Born)
    /\ \A t \in tasks' \ tasks : t.kind = "removal" => t.book \notin Unborn /\ ~Has(db'.book, t.book)
    /\ faults' \in faults..MaxFaults /\ crashes' = crashes

LEMMA BoundStays ==
    ASSUME NEW d, NEW e, NEW U, NEW Born, NEW r, Born \subseteq U, Evolves(d, e, Born), Bound(d, U, r)
    PROVE  Bound(e, U, r)
  <1>1. ASSUME NEW b, NEW f, Tied(d, b, f), b \notin U, f[1] \notin U
        PROVE  Tied(e, b, f)
    BY <1>1 DEF Tied, Evolves, Has
  <1>2. r.op = "progress" => Tied(e, r.book, r.format)
    BY <1>1 DEF Bound
  <1>3. r.op = "delete" /\ r.at = "delete" => \A f \in r.paths : Tied(e, r.book, f)
    BY <1>1 DEF Bound
  <1>4. r.op = "delete" /\ r.at = "remove" => \A f \in r.paths : ~Has(e.format, f)
    BY DEF Bound, Evolves, Has
  <1>5. r.op = "merge" /\ r.at = "finish" => ~Has(e.book, r.duplicate)
    BY DEF Bound, Evolves, Has
  <1>6. r.op = "exec" /\ r.at = "write" => Seen(e, r.source, r.saw)
    BY <1>1 DEF Bound, Seen
  <1> QED BY <1>2, <1>3, <1>4, <1>5, <1>6 DEF Bound

LEMMA BoundToFewer ==
    ASSUME NEW d, NEW U, NEW V, V \subseteq U, NEW r, Bound(d, U, r)
    PROVE  Bound(d, V, r)
  BY DEF Bound

\* Fewer and fewer ids are not in use.
LEMMA UnbornShrinks ==
    ASSUME NEW c \in Calls, NEW Born, Moves(c, Born)
    PROVE  /\ Unborn' \subseteq Unborn /\ Born \subseteq Unborn
           /\ \A b \in Born : b \notin Unborn'
  <1>1. \A e \in Calls : Waits(call'[e]) => Waits(call[e])
    BY DEF Moves, Others
  <1>2. Unborn' = {NewBook[e] : e \in {x \in Calls : Waits(call'[x])}}
    BY DEF Unborn, Waits, New
  <1>3. Unborn' \subseteq Unborn
    BY <1>1, <1>2 DEF Unborn
  <1>4. Born # {} => NewBook[c] \notin Unborn'
    BY <1>2, NewBooksAssumption DEF Moves
  <1>5. Born # {} => NewBook[c] \in Unborn
    BY DEF Moves, Unborn
  <1> QED BY <1>3, <1>4, <1>5 DEF Moves

LEMMA MovesKeepInv ==
    ASSUME Inv, NEW c \in Calls, NEW Born, Moves(c, Born)
    PROVE  Inv'
  <1>1. /\ Unborn' \subseteq Unborn /\ Born \subseteq Unborn
        /\ \A b \in Born : b \notin Unborn'
    BY UnbornShrinks
  <1>2. PICK V : V = Unborn'
    OBVIOUS
  <1>3. ASSUME NEW e \in Calls, InFlight(e)'
        PROVE  Shape(e, call'[e]) /\ Bound(db', V, call'[e])
    <2>1. CASE e = c
      <3>1. call'[c] # Over
        BY <1>3, <2>1 DEF InFlight, New, Over
      <3> QED BY <1>1, <1>2, <2>1, <3>1, BoundToFewer DEF Moves
    <2>2. CASE e # c
      <3>1. call'[e] = call[e] /\ InFlight(e)
        BY <1>3, <2>2 DEF Moves, Others, InFlight, New, Over
      <3>2. Shape(e, call[e]) /\ Bound(db, Unborn, call[e])
        BY <3>1 DEF Inv, CallsOK
      <3>3. Bound(db', Unborn, call[e])
        BY <1>1, <3>2, BoundStays DEF Moves
      <3> QED BY <1>1, <1>2, <3>1, <3>2, <3>3, BoundToFewer
    <2> QED BY <2>1, <2>2
  <1>4. CallsOK'
    BY <1>2, <1>3 DEF CallsOK, Moves, Others
  <1>5. \A f \in DOMAIN db'.format : FileOK(f) /\ f[1] \notin V
    BY <1>1, <1>2 DEF Inv, Moves, Evolves, Has
  <1>6. \A b \in DOMAIN db'.book : b \notin V
    BY <1>1, <1>2 DEF Inv, Moves, Evolves, Has
  <1>7. \A t \in tasks' : t.kind = "removal" => t.book \notin V /\ ~Has(db'.book, t.book)
    BY <1>1, <1>2 DEF Inv, Moves, Evolves, Has
  <1> QED BY <1>2, <1>4, <1>5, <1>6, <1>7 DEF Inv, Moves, DbOK, FileOK

\* A step takes no file away whose row is there.
Spares == \A f \in files \ files' : ~Has(db'.format, f)

\* The steps of all requests but uploads and imports
Plain(c) ==
    /\ Moves(c, {})
    /\ call[c].op \notin {"upload", "import"} /\ call'[c].op \notin {"upload", "import", "new"}
    /\ index' = index /\ tasks \subseteq tasks' /\ db'.imports = db.imports /\ Spares

\* No file of a book is a cover or a photo.
LEMMA FilesAreNoPictures ==
    ASSUME Inv, NEW f \in DOMAIN db.format
    PROVE  /\ \A b : f \notin CoversOf(b)
           /\ \A a : f \notin PhotosOf(a)
  <1>1. f = <<f[1], f[2]>> /\ f[2] \notin Range(CoverFiles)
    BY DEF Inv, FileOK, Name
  <1>2. \A b : f \notin CoversOf(b)
    BY <1>1 DEF CoversOf, Range
  <1>3. \A a : f \notin PhotosOf(a)
    <2>1. \A a, x : Len(<<"author", a, x>>) = 3 /\ Len(<<f[1], f[2]>>) = 2
      OBVIOUS
    <2> QED BY <1>1, <2>1 DEF PhotosOf
  <1> QED BY <1>2, <1>3

LEMMA ReadsKeep == ASSUME NEW d, DbOK(d) PROVE Keeps(d, d)
  BY DEF Keeps, Steady, Has

LEMMA KeepsEvolves ==
    ASSUME NEW d, NEW e, Keeps(d, e)
    PROVE  Evolves(d, e, {}) /\ DbOK(e) /\ e.imports = d.imports
  BY DEF Keeps, Steady, Evolves, Has

LEMMA BeginIsPlain ==
    ASSUME Inv, NEW c \in Calls, NEW r, Begin(c, r), Keeps(db, db'), Idle,
           r = Over \/ (Shape(c, r) /\ Bound(db', Unborn, r)), r.op \notin {"upload", "import", "new"}
    PROVE  Plain(c)
  <1>1. call[c] = New /\ call'[c] = r /\ Others(c)
    BY DEF Begin, Free, Others, Inv, CallsOK
  <1>2. call[c].op = "new" /\ Waits(call[c])
    BY <1>1 DEF New, Waits
  <1> QED BY <1>1, <1>2, KeepsEvolves DEF Plain, Moves, Idle, Inv, Spares

\* Over what a request was asked a step does not go.
LEMMA StepIsPlain ==
    ASSUME Inv, NEW c \in Calls, InFlight(c), call[c].op \notin {"upload", "import"}, Keeps(db, db'), Others(c),
           call'[c] = Over \/ (/\ call'[c].op = call[c].op /\ Shape(c, call'[c]) /\ Bound(db', Unborn, call'[c])),
           Spares, index' = index, tasks \subseteq tasks',
           \A t \in tasks' \ tasks : t.kind = "removal" => t.book \notin Unborn /\ ~Has(db'.book, t.book),
           faults' \in faults..MaxFaults, crashes' = crashes
    PROVE  Plain(c)
  <1>1. Shape(c, call[c])
    BY DEF Inv, CallsOK
  <1>2. call'[c].op \notin {"upload", "import", "new"} /\ ~Waits(call'[c])
    BY <1>1 DEF Shape, Over, New, Waits
  <1> QED BY <1>2, KeepsEvolves DEF Plain, Moves

LEMMA AnswerIsPlain ==
    ASSUME Inv, NEW c \in Calls, InFlight(c), call[c].op \notin {"upload", "import"}, Keeps(db, db'), Answer(c),
           Spares, index' = index, tasks \subseteq tasks', \A t \in tasks' \ tasks : t.kind # "removal",
           faults' \in faults..MaxFaults, crashes' = crashes
    PROVE  Plain(c)
  <1>1. Others(c) /\ call'[c] = Over
    BY DEF Answer, Others, Inv, CallsOK
  <1> QED BY <1>1, StepIsPlain

\* A request that goes on without relying on what it has read
LEMMA GotoIsPlain ==
    ASSUME Inv, NEW c \in Calls, InFlight(c), call[c].op \notin {"upload", "import", "note", "progress", "delete", "merge", "exec"},
           Keeps(db, db'), NEW stage, Goto(c, stage), Spares, index' = index, tasks' = tasks, faults' \in faults..MaxFaults, crashes' = crashes
    PROVE  Plain(c)
  <1>1. Others(c) /\ call'[c] = [call[c] EXCEPT !.at = stage]
    BY DEF Goto, Others, Inv, CallsOK
  <1>2. Shape(c, call[c])
    BY DEF Inv, CallsOK
  <1>3. Shape(c, call'[c]) /\ Bound(db', Unborn, call'[c]) /\ call'[c].op = call[c].op
    BY <1>1, <1>2 DEF Shape, Bound
  <1> QED BY <1>1, <1>3, StepIsPlain

-----------------------------------------------------------------------------
(* The requests of readers.                                                  *)

LEMMA ClampBounds == ASSUME NEW pct \in Int PROVE Clamp(pct) \in 0..100
  <1>1. ASSUME NEW x \in Int, NEW y \in Int
        PROVE  /\ Max({x, y}) \in {x, y} /\ Max({x, y}) >= y
               /\ Min({x, y}) \in {x, y} /\ Min({x, y}) <= y
    <2>1. \E z \in {x, y} : \A w \in {x, y} : z >= w
      BY x >= y \/ y >= x
    <2>2. \E z \in {x, y} : \A w \in {x, y} : z <= w
      BY x >= y \/ y >= x
    <2> QED BY <2>1, <2>2 DEF Max, Min
  <1> DEFINE x == Max({pct, 0})
  <1>2. x \in {pct, 0} /\ x >= 0 /\ x \in Int /\ 100 \in Int
    BY <1>1
  <1> HIDE DEF x
  <1>3. Min({x, 100}) \in {x, 100} /\ Min({x, 100}) <= 100
    BY <1>1, <1>2
  <1> QED BY <1>2, <1>3 DEF Clamp, x

LEMMA ReaderRequestIsPlain ==
    ASSUME Inv, NEW c \in Calls, ReaderRequest(c)
    PROVE  Plain(c)
  <1> USE DEF Shape, Bound
  <1>0. DbOK(db) /\ Keeps(db, db)
    BY ReadsKeep DEF Inv
  <1>1. ASSUME NEW u \in Users, NEW b \in DOMAIN db.book, NEW f \in DOMAIN db.format, NEW pct \in Positions,
               ResolveFormat(c, u, b, f, pct)
        PROVE  Plain(c)
    <2> DEFINE r == [op |-> "progress", at |-> "upsert", user |-> u, book |-> b, format |-> f, pct |-> Clamp(pct)]
    <2>1. Begin(c, r) /\ Idle /\ db' = db /\ db.format[f] = b
      BY <1>1 DEF ResolveFormat, Reads, FilesOf
    <2>2. Shape(c, r)
      BY ClampBounds, PositionsAssumption
    <2>3. Bound(db', Unborn, r)
      BY <2>1 DEF Tied, Inv
    <2> HIDE DEF Shape, Bound
    <2> QED BY <1>0, <2>1, <2>2, <2>3, BeginIsPlain
  <1>2. ASSUME NEW u \in Users, NEW b \in DOMAIN db.book, CheckNoteBook(c, u, b)
        PROVE  Plain(c)
    BY <1>0, <1>2, BeginIsPlain DEF CheckNoteBook, Reads
  <1>3. ASSUME NEW u \in Users, NEW b \in DOMAIN db.book, NEW flag, NEW value, ReadState(c, u, b, flag, value)
        PROVE  Plain(c)
    BY <1>0, <1>3, BeginIsPlain DEF ReadState, Reads
  <1>4. ASSUME NEW u \in Users, NEW b \in DOMAIN db.book, NEW f, FindFile(c, u, b, f)
        PROVE  Plain(c)
    BY <1>0, <1>4, BeginIsPlain DEF FindFile, Reads
  <1>5. ASSUME NEW u \in Users, NEW b \in DOMAIN db.book, CountChunks(c, u, b)
        PROVE  Plain(c)
    BY <1>0, <1>5, BeginIsPlain DEF CountChunks, Reads
  <1>6. ASSUME NEW u \in Users, NEW b \in DOMAIN db.book, NEW values, CheckCustomBook(c, u, b, values)
        PROVE  Plain(c)
    BY <1>0, <1>6, BeginIsPlain DEF CheckCustomBook, Reads
  <1>7. ASSUME NEW u \in Users, NEW n, NEW what \in {"update", "delete"}, FindOwnNote(c, u, n, what)
        PROVE  Plain(c)
    BY <1>0, <1>7, BeginIsPlain DEF FindOwnNote, Reads
  <1>8. ASSUME NEW u \in Users, NEW col, CreateColumn(c, u, col)
        PROVE  Plain(c)
    BY <1>0, <1>8, BeginIsPlain, AddColumnKeeps DEF CreateColumn, BeginAndEnd, Over
  <1>9. ASSUME NEW u \in Users, NEW col, DeleteColumn(c, u, col)
        PROVE  Plain(c)
    BY <1>0, <1>9, BeginIsPlain, DropColumnKeeps DEF DeleteColumn, BeginAndEnd, Over
  <1> QED BY <1>1, <1>2, <1>3, <1>4, <1>5, <1>6, <1>7, <1>8, <1>9 DEF ReaderRequest

LEMMA ReaderStepIsPlain ==
    ASSUME Inv, NEW c \in Calls, InFlight(c), ReaderStep(c)
    PROVE  Plain(c)
  <1>0. DbOK(db) /\ Keeps(db, db) /\ Shape(c, call[c]) /\ Bound(db, Unborn, call[c]) /\ faults \in 0..MaxFaults
    BY ReadsKeep DEF Inv, CallsOK
  <1>1. CASE SaveProgress(c)
    <2> DEFINE r == call[c]
    <2>1. At(c, "progress", "upsert") /\ Answer(c) /\ Idle
      BY <1>1 DEF SaveProgress
    <2>2. r.user \in Users /\ r.pct \in 0..100 /\ Tied(db, r.book, r.format)
      BY <1>0, <2>1, SMTT(40) DEF At, Shape, Bound
    <2>3. Keeps(db, db')
      BY <1>0, <1>1, <2>2, ProgressKeeps DEF SaveProgress, Tied, Has
    <2> QED BY <1>0, <2>1, <2>3, AnswerIsPlain DEF At, Idle, Spares
  <1>2. CASE CreateNote(c)
    <2>1. At(c, "note", "create") /\ Answer(c) /\ Idle /\ call[c].user \in Users
      BY <1>0, <1>2 DEF CreateNote, At, Shape
    <2>2. Keeps(db, db')
      BY <1>0, <1>2, <2>1, NoteKeeps DEF CreateNote, Has
    <2> QED BY <1>0, <2>1, <2>2, AnswerIsPlain DEF At, Idle, Spares
  <1>3. CASE UpdateNote(c)
    <2>1. Keeps(db, db')
      BY <1>0, <1>3, NoteTextKeeps DEF UpdateNote, Has
    <2> QED BY <1>0, <1>3, <2>1, AnswerIsPlain DEF UpdateNote, At, Idle, Spares
  <1>4. CASE DeleteNote(c)
    <2>1. Keeps(db, db')
      BY <1>0, <1>4, DropNoteKeeps DEF DeleteNote
    <2> QED BY <1>0, <1>4, <2>1, AnswerIsPlain DEF DeleteNote, At, Idle, Spares
  <1>5. CASE UpsertState(c)
    <2>1. At(c, "state", "upsert") /\ call[c].user \in Users
      BY <1>0, <1>5 DEF UpsertState, At, Shape
    <2>2. Keeps(db, db')
      BY <1>0, <1>5, <2>1, StateKeeps DEF UpsertState, Has
    <2> QED BY <1>0, <1>5, <2>2, AnswerIsPlain DEF UpsertState, At, Idle, Spares
  <1>6. CASE ServeFile(c)
    <2>1. \A t \in tasks' \ tasks : t.kind # "removal"
      BY <1>6 DEF ServeFile, Spawn, HistoryTask
    <2> QED BY <1>0, <1>6, <2>1, AnswerIsPlain DEF ServeFile, At, Spawn, Spares
  <1>7. CASE GenerateChunks(c)
    <2>1. FilesOf(db, call[c].book) \cap files # {} => call[c].book \in DOMAIN db.book
      BY <1>0 DEF FilesOf, DbOK, Sound, References, Has
    <2>2. Keeps(db, db')
      BY <1>0, <1>7, <2>1, ChunksKeep DEF GenerateChunks
    <2> QED BY <1>0, <1>7, <2>2, AnswerIsPlain DEF GenerateChunks, At, Idle, Spares
  <1>8. CASE SetCustomValues(c)
    <2>1. Keeps(db, db')
      BY <1>0, <1>8, CustomKeeps DEF SetCustomValues, Has
    <2> QED BY <1>0, <1>8, <2>1, AnswerIsPlain DEF SetCustomValues, At, Idle, Spares
  <1> QED BY <1>1, <1>2, <1>3, <1>4, <1>5, <1>6, <1>7, <1>8 DEF ReaderStep

-----------------------------------------------------------------------------
(* The requests for books, but for uploads.                                  *)

LEMMA BookRequestIsPlain ==
    ASSUME Inv, NEW c \in Calls, BookRequest(c),
           ~\E u \in Users, name \in FormatsUploaded, title \in Titles, idents \in IdentSets, withCover \in BOOLEAN :
               CheckUpload(c, u, name, title, idents, withCover)
    PROVE  Plain(c)
  <1> USE DEF Shape, Bound
  <1>0. DbOK(db) /\ Keeps(db, db)
    BY ReadsKeep DEF Inv
  <1>1. ASSUME NEW u \in Users, NEW b \in DOMAIN db.book, NEW patch \in Patches, NEW idents, ReadForPatch(c, u, b, patch, idents)
        PROVE  Plain(c)
    BY <1>0, <1>1, BeginIsPlain DEF ReadForPatch, Reads
  <1>2. ASSUME NEW u \in Users, NEW change, NEW books, BulkEdit(c, u, books, change)
        PROVE  Plain(c)
    BY <1>0, <1>2, BeginIsPlain, BulkUpdateKeeps DEF BulkEdit, BeginAndEnd, Over
  <1>3. ASSUME NEW u \in Users, NEW b \in DOMAIN db.book, NEW title, NEW isbn, NEW withCover,
               ReadForMetadata(c, u, b, title, isbn, withCover)
        PROVE  Plain(c)
    BY <1>0, <1>3, BeginIsPlain DEF ReadForMetadata, Reads
  <1>4. ASSUME NEW u \in Users, NEW b \in DOMAIN db.book, CheckDelete(c, u, b)
        PROVE  Plain(c)
    BY <1>0, <1>4, BeginIsPlain DEF CheckDelete, Reads, Inv
  <1>5. ASSUME NEW u \in Users, NEW p \in DOMAIN db.book, NEW q \in DOMAIN db.book, CheckMerge(c, u, p, q)
        PROVE  Plain(c)
    BY <1>0, <1>5, BeginIsPlain DEF CheckMerge, Reads
  <1>6. ASSUME NEW u \in Users, NEW s \in DOMAIN db.book, NEW t \in DOMAIN db.book,
               NEW strategy \in {"keep_target", "keep_source", "merge_max"}, NEW force \in BOOLEAN,
               ReadForMerge(c, u, s, t, strategy, force)
        PROVE  Plain(c)
    BY <1>0, <1>6, BeginIsPlain DEF ReadForMerge, Reads, Inv
  <1> QED BY <1>1, <1>2, <1>3, <1>4, <1>5, <1>6 DEF BookRequest

LEMMA EditStepIsPlain ==
    ASSUME Inv, NEW c \in Calls, InFlight(c), EditStep(c)
    PROVE  Plain(c)
  <1>0. DbOK(db) /\ Keeps(db, db) /\ Shape(c, call[c]) /\ faults \in 0..MaxFaults
    BY ReadsKeep DEF Inv, CallsOK
  <1>1. CASE WritePatch(c)
    <2> DEFINE r == call[c]
               authors == PatchedAuthors(r.old, r.patch)
    <2>1. At(c, "patch", "write") /\ Idle /\ r.patch \in Patches
      BY <1>0, <1>1 DEF WritePatch, At, Shape
    <2>2. CASE PatchFails(db, r.book, r.old, r.oldIdents, r.patch, r.idents)
      BY <1>0, <1>1, <2>1, <2>2, AnswerIsPlain DEF WritePatch, At, Idle, Spares
    <2>3. CASE ~PatchFails(db, r.book, r.old, r.oldIdents, r.patch, r.idents)
      <3>1. ASSUME authors # r.old.authors
            PROVE  authors \in Seq(db.authors)
        <4>1. Has(r.patch, "authors") /\ authors = Dedupe(r.patch.authors)
          BY <3>1 DEF PatchedAuthors
        <4>2. r.patch.authors \in Seq(Range(r.patch.authors))
          BY <2>1, <4>1, PatchesAssumption
        <4>3. \E S : authors \in Seq(S)
          BY <4>1, <4>2, DedupeItems
        <4>4. Range(authors) \subseteq db.authors
          BY <2>3, <3>1 DEF PatchFails
        <4>5. \A i \in DOMAIN authors : authors[i] \in db.authors
          BY <4>4 DEF Range
        <4> HIDE DEF authors
        <4> QED BY <4>3, <4>5
      <3>2. Keeps(db, db') /\ Goto(c, "finish")
        BY <1>0, <1>1, <2>3, <3>1, PatchKeeps DEF WritePatch
      <3> QED BY <1>0, <2>1, <3>2, GotoIsPlain DEF At, Idle, Spares
    <2> QED BY <2>2, <2>3
  <1>2. CASE FinishPatch(c)
    <2>1. /\ tasks \subseteq tasks' /\ \A t \in tasks' \ tasks : t.kind # "removal"
      BY <1>2 DEF FinishPatch, Spawn, IndexTask
    <2> QED BY <1>0, <1>2, <2>1, AnswerIsPlain DEF FinishPatch, At, Spares
  <1> QED BY <1>1, <1>2 DEF EditStep

LEMMA MetadataStepIsPlain ==
    ASSUME Inv, NEW c \in Calls, InFlight(c), MetadataStep(c)
    PROVE  Plain(c)
  <1> DEFINE r == call[c]
  <1>0. DbOK(db) /\ Keeps(db, db) /\ Shape(c, r) /\ faults \in 0..MaxFaults
    BY ReadsKeep DEF Inv, CallsOK
  <1>1. CASE WriteMetadata(c)
    <2>1. PatchedAuthors(r.old, [title |-> r.title]) = r.old.authors
      BY DEF PatchedAuthors, Has
    <2>2. Keeps(db, db')
      BY <1>0, <1>1, <2>1, PatchKeeps DEF WriteMetadata
    <2> QED BY <1>0, <1>1, <2>2, GotoIsPlain, AnswerIsPlain DEF WriteMetadata, At, Idle, Spares
  <1>2. CASE WriteAuthors(c)
    <2>1. <<"Provider">> \in Seq({"Provider"})
      OBVIOUS
    <2>2. Keeps(db, db')
      BY <1>0, <1>2, <2>1, ReplaceAuthorsKeeps DEF WriteAuthors, Has
    <2> QED BY <1>0, <1>2, <2>2, GotoIsPlain, AnswerIsPlain DEF WriteAuthors, At, Idle, Spares
  <1>3. CASE WritePublisher(c)
    <2>1. Keeps(db, db')
      BY <1>0, <1>3, PublisherKeeps DEF WritePublisher, Has
    <2> QED BY <1>0, <1>3, <2>1, GotoIsPlain DEF WritePublisher, At, Idle, Spares
  <1>4. CASE WriteIdent(c)
    <2>1. Keeps(db, db')
      BY <1>0, <1>4, IdentKeeps DEF WriteIdent, Has
    <2>2. At(c, "metadata", "idents") /\ Idle
      BY <1>4 DEF WriteIdent
    <2>3. CASE Has(db.book, r.book)
      <3> DEFINE stage == IF Len(r.idents) > 1 THEN r.at ELSE IF r.cover THEN "newcover" ELSE "reread"
                 s == [r EXCEPT !.idents = Tail(@), !.at = stage]
      <3>1. Others(c) /\ call'[c] = s
        BY <1>4, <2>3 DEF WriteIdent, Others, Inv, CallsOK
      <3> HIDE DEF stage
      <3>2. s.op = "metadata" /\ {"op", "at"} \subseteq DOMAIN s
        BY <1>0, <2>2 DEF Shape, At
      <3>3. Shape(c, s) /\ Bound(db', Unborn, s)
        BY <3>2 DEF Shape, Bound
      <3> HIDE DEF s
      <3> QED BY <1>0, <2>1, <2>2, <3>1, <3>2, <3>3, StepIsPlain DEF At, Idle, Spares
    <2>4. CASE ~Has(db.book, r.book)
      BY <1>0, <1>4, <2>1, <2>2, <2>4, AnswerIsPlain DEF WriteIdent, At, Idle, Spares
    <2> QED BY <2>3, <2>4
  <1>5. CASE StoreNewCover(c)
    <2>1. At(c, "metadata", "newcover") /\ files \subseteq files' /\ db' = db /\ index' = index /\ tasks' = tasks /\ crashes' = crashes
      BY <1>5 DEF StoreNewCover
    <2>2. faults' \in faults..MaxFaults
      BY <1>0, <1>5, BoundsAssumption DEF StoreNewCover, Fault
    <2>3. CASE Goto(c, "uncover")
      BY <1>0, <2>1, <2>2, <2>3, GotoIsPlain DEF At, Spares
    <2>4. CASE ~Goto(c, "uncover")
      <3> DEFINE i == r.stored + 1
                 stage == IF i = Len(CoverFiles) THEN "setcover" ELSE r.at
                 s == [r EXCEPT !.stored = i, !.at = stage]
      <3>1. Others(c) /\ call'[c] = s
        BY <1>5, <2>4 DEF StoreNewCover, Others, Inv, CallsOK
      <3> HIDE DEF stage
      <3>2. s.op = "metadata" /\ {"op", "at"} \subseteq DOMAIN s
        BY <1>0, <2>1 DEF Shape, At
      <3>3. Shape(c, s) /\ Bound(db', Unborn, s)
        BY <3>2 DEF Shape, Bound
      <3> HIDE DEF s
      <3> QED BY <1>0, <2>1, <2>2, <3>1, <3>2, <3>3, StepIsPlain DEF At, Spares
    <2> QED BY <2>3, <2>4
  <1>6. CASE SetCover(c, "metadata", "reread")
    <2>1. Keeps(db, db')
      BY <1>0, <1>6, CoverKeeps DEF SetCover, SetCoverPath, Has
    <2>2. faults' \in faults..MaxFaults
      BY <1>0, <1>6, BoundsAssumption DEF SetCover, Fault
    <2> QED BY <1>0, <1>6, <2>1, <2>2, GotoIsPlain DEF SetCover, At, Spares
  <1>7. CASE RemoveCover(c, "metadata")
    BY <1>0, <1>7, AnswerIsPlain, FilesAreNoPictures DEF RemoveCover, At, Spares, Has
  <1>8. CASE FinishMetadata(c)
    BY <1>0, <1>8, AnswerIsPlain DEF FinishMetadata, At, Reads, Idle, Spares
  <1> QED BY <1>1, <1>2, <1>3, <1>4, <1>5, <1>6, <1>7, <1>8 DEF MetadataStep

LEMMA DeleteStepIsPlain ==
    ASSUME Inv, NEW c \in Calls, InFlight(c), DeleteStep(c)
    PROVE  Plain(c)
  <1> DEFINE r == call[c]
  <1>0. DbOK(db) /\ Keeps(db, db) /\ Shape(c, r) /\ Bound(db, Unborn, r) /\ faults \in 0..MaxFaults
    BY ReadsKeep DEF Inv, CallsOK
  <1>1. CASE ReadPaths(c)
    <2> DEFINE s == [r EXCEPT !.paths = FilesOf(db, r.book), !.at = "delete"]
    <2>1. At(c, "delete", "paths") /\ db' = db /\ Idle /\ Others(c) /\ call'[c] = s
      BY <1>1 DEF ReadPaths, Reads, Others, Inv, CallsOK
    <2>2. /\ s.op = "delete" /\ s.at = "delete" /\ {"op", "at", "paths"} \subseteq DOMAIN s
          /\ s.book = r.book /\ s.paths = FilesOf(db, r.book)
      BY <1>0, <2>1 DEF Shape, At
    <2> HIDE DEF s
    <2>3. Shape(c, s)
      BY <2>2 DEF Shape
    <2>4. Bound(db, Unborn, s)
      BY <1>0, <2>1, <2>2 DEF Bound, At, FilesOf, Tied, Inv
    <2> QED BY <1>0, <2>1, <2>2, <2>3, <2>4, StepIsPlain DEF At, Idle, Spares
  <1>2. CASE DeleteRows(c)
    <2>1. At(c, "delete", "delete") /\ files' = files /\ index' = index /\ faults' = faults /\ crashes' = crashes
      BY <1>2 DEF DeleteRows
    <2>2. CASE ~Has(db.book, r.book)
      BY <1>0, <1>2, <2>1, <2>2, AnswerIsPlain DEF DeleteRows, At, Spares
    <2>3. CASE Has(db.book, r.book)
      <3> DEFINE s == [r EXCEPT !.at = "remove"]
      <3>1. /\ db' = DeleteBookRow(db, r.book) /\ tasks' = tasks \cup {RemovalTask(c, r.book)}
            /\ Others(c) /\ call'[c] = s
        BY <1>2, <2>3 DEF DeleteRows, Spawn, Goto, Others, Inv, CallsOK
      <3>2. Keeps(db, db') /\ ~Has(db'.book, r.book)
        BY <1>0, <3>1, DeleteBookKeeps
      <3>3. /\ s.op = "delete" /\ s.at = "remove" /\ {"op", "at", "paths"} \subseteq DOMAIN s
            /\ s.book = r.book /\ s.paths = r.paths
        BY <1>0, <2>1 DEF Shape, At
      <3> HIDE DEF s
      <3>4. \A f \in r.paths : ~Has(db'.format, f)
        <4>1. SUFFICES ASSUME NEW f \in r.paths, Has(db'.format, f) PROVE FALSE
          OBVIOUS
        <4>2. Has(db.format, f) /\ db.format[f] = r.book
          BY <1>0, <2>1, <2>3, <3>2, <4>1 DEF Bound, At, Tied, Keeps, Steady, Has
        <4> QED BY <1>0, <3>1, <4>1, <4>2, DeleteBookKeeps DEF FilesOf, Has
      <3>5. Shape(c, s) /\ Bound(db', Unborn, s)
        BY <1>0, <2>1, <3>3, <3>4 DEF Shape, Bound, At
      <3>6. \A t \in tasks' \ tasks : t.kind = "removal" => t.book \notin Unborn /\ ~Has(db'.book, t.book)
        BY <1>0, <2>1, <3>1, <3>2 DEF RemovalTask, Bound, At
      <3> QED BY <1>0, <2>1, <3>1, <3>2, <3>3, <3>5, <3>6, StepIsPlain DEF At, Spares
    <2> QED BY <2>2, <2>3
  <1>3. CASE RemoveFile(c)
    <2>1. At(c, "delete", "remove") /\ db' = db /\ index' = index /\ tasks' = tasks /\ crashes' = crashes
      BY <1>3 DEF RemoveFile
    <2>2. faults' \in faults..MaxFaults
      BY <1>0, <1>3, BoundsAssumption DEF RemoveFile, Fault
    <2>2a. Spares
      BY <1>0, <1>3, <2>1 DEF RemoveFile, Bound, At, Spares
    <2>3. PICK f \in r.paths : Answer(c) \/ call' = [call EXCEPT ![c].paths = @ \ {f}]
      BY <1>3 DEF RemoveFile
    <2>4. CASE Answer(c)
      BY <1>0, <2>1, <2>2, <2>2a, <2>4, AnswerIsPlain DEF At
    <2>5. CASE call' = [call EXCEPT ![c].paths = @ \ {f}]
      <3> DEFINE s == [r EXCEPT !.paths = @ \ {f}]
      <3>1. Others(c) /\ call'[c] = s
        BY <2>5 DEF Others, Inv, CallsOK
      <3>2. /\ s.op = "delete" /\ s.at = "remove" /\ {"op", "at", "paths"} \subseteq DOMAIN s
            /\ s.book = r.book /\ s.paths = r.paths \ {f}
        BY <1>0, <2>1 DEF Shape, At
      <3> HIDE DEF s
      <3>3. Shape(c, s) /\ Bound(db', Unborn, s)
        BY <1>0, <2>1, <3>2 DEF Shape, Bound, At
      <3> QED BY <1>0, <2>1, <2>2, <2>2a, <3>1, <3>2, <3>3, StepIsPlain DEF At
    <2> QED BY <2>3, <2>4, <2>5
  <1>4. CASE FinishDelete(c)
    BY <1>0, <1>4, AnswerIsPlain DEF FinishDelete, At, Reads, Idle, Spares
  <1> QED BY <1>1, <1>2, <1>3, <1>4 DEF DeleteStep

LEMMA MergeStepIsPlain ==
    ASSUME Inv, NEW c \in Calls, InFlight(c), MergeStep(c)
    PROVE  Plain(c)
  <1> DEFINE r == call[c]
  <1>0. DbOK(db) /\ Keeps(db, db) /\ Shape(c, r) /\ Bound(db, Unborn, r) /\ faults \in 0..MaxFaults
    BY ReadsKeep DEF Inv, CallsOK
  <1>1. CASE WriteMerge(c)
    <2>1. At(c, "merge", "write") /\ Idle /\ r.book # r.duplicate
      BY <1>0, <1>1 DEF WriteMerge, At, Shape
    <2>2. CASE ~(Has(db.book, r.book) /\ Has(db.book, r.duplicate))
      BY <1>0, <1>1, <2>1, <2>2, AnswerIsPlain DEF WriteMerge, At, Idle, Spares
    <2>3. CASE Has(db.book, r.book) /\ Has(db.book, r.duplicate)
      <3> DEFINE s == [r EXCEPT !.at = "finish"]
      <3>1. /\ db' = MergeBooks(db, r.book, r.duplicate) /\ Others(c) /\ call'[c] = s
        BY <1>1, <2>3 DEF WriteMerge, Goto, Others, Inv, CallsOK
      <3>2. Keeps(db, db') /\ ~Has(db'.book, r.duplicate)
        BY <1>0, <2>1, <2>3, <3>1, MergeBooksKeeps DEF Has
      <3>3. s.op = "merge" /\ s.at = "finish" /\ {"op", "at"} \subseteq DOMAIN s /\ s.book = r.book /\ s.duplicate = r.duplicate
        BY <1>0, <2>1 DEF Shape, At
      <3>4. r.duplicate \notin Unborn
        BY <2>3 DEF Inv, Has
      <3> HIDE DEF s
      <3>5. Shape(c, s) /\ Bound(db', Unborn, s)
        BY <2>1, <3>2, <3>3, <3>4 DEF Shape, Bound
      <3> QED BY <1>0, <2>1, <3>1, <3>2, <3>3, <3>5, StepIsPlain DEF At, Idle, Spares
    <2> QED BY <2>2, <2>3
  <1>2. CASE FinishMerge(c)
    <2>1. At(c, "merge", "finish") /\ db' = db /\ files' = files /\ index' = index /\ faults' = faults /\ crashes' = crashes /\ Answer(c)
      BY <1>2 DEF FinishMerge
    <2>2. /\ tasks \subseteq tasks'
          /\ \A t \in tasks' \ tasks : t.kind = "removal" => t.book = r.duplicate
      BY <1>2 DEF FinishMerge, Spawn, IndexTask, RemovalTask
    <2>3. r.duplicate \notin Unborn /\ ~Has(db.book, r.duplicate)
      BY <1>0, <2>1 DEF Bound, At
    <2>4. Others(c) /\ call'[c] = Over
      BY <2>1 DEF Answer, Others, Inv, CallsOK
    <2> QED BY <1>0, <2>1, <2>2, <2>3, <2>4, StepIsPlain DEF At, Spares
  <1>3. CASE SnapshotProgress(c)
    <2> DEFINE saw == [formats |-> r.saw.formats, conflicts |-> r.saw.conflicts,
                       source |-> ProgressOn(db, r.source), target |-> ProgressOn(db, r.book)]
               s == [r EXCEPT !.at = "write", !.saw = saw]
    <2>1. At(c, "exec", "snapshot") /\ db' = db /\ Idle /\ Others(c) /\ call'[c] = s
      BY <1>3 DEF SnapshotProgress, Reads, Others, Inv, CallsOK
    <2>2. /\ s.op = "exec" /\ s.at = "write" /\ {"op", "at", "saw"} \subseteq DOMAIN s
          /\ s.source = r.source /\ s.book = r.book /\ s.strategy = r.strategy /\ s.saw = saw
      BY <1>0, <2>1 DEF Shape, At
    <2> HIDE DEF s
    <2>3. ASSUME NEW b, NEW u \in DOMAIN ProgressOn(db, b)
          PROVE  LET row == ProgressOn(db, b)[u]
                 IN  /\ u \in Users /\ DOMAIN row = {"format", "pct"} /\ row.pct \in 0..100
                     /\ Has(db.format, row.format) /\ db.format[row.format] = b
      <3>1. u \in ReadersOf(db, b) /\ ProgressOn(db, b)[u] = db.progress[<<u, b>>]
        BY <2>3 DEF ProgressOn
      <3>2. PICK k \in DOMAIN db.progress : k[2] = b /\ k[1] = u
        BY <3>1 DEF ReadersOf
      <3>3. k = <<u, b>> /\ u \in Users
        BY <1>0, <3>2 DEF DbOK, Sound, References
      <3> QED BY <1>0, <3>1, <3>2, <3>3 DEF DbOK, Sound, Schema, References, OfItsBook
    <2>4. Seen(db, r.source, saw)
      BY <2>3 DEF Seen, Tied
    <2>5. \A u \in DOMAIN saw.source : saw.source[u].format[1] \notin Unborn
      BY <2>3 DEF Inv, Has
    <2> HIDE DEF saw
    <2>6. Shape(c, s)
      BY <1>0, <2>1, <2>2 DEF Shape, At
    <2>7. Bound(db, Unborn, s)
      BY <1>0, <2>1, <2>2, <2>4, <2>5 DEF Bound, At
    <2> QED BY <1>0, <2>1, <2>2, <2>6, <2>7, StepIsPlain DEF At, Idle, Spares
  <1>4. CASE WriteExec(c)
    <2>1. At(c, "exec", "write") /\ Idle /\ Answer(c)
      BY <1>4 DEF WriteExec
    <2>2. /\ r.source # r.book /\ r.strategy \in {"keep_target", "keep_source", "merge_max"}
          /\ Seen(db, r.source, r.saw)
      BY <1>0, <2>1 DEF At, Shape, Bound
    <2>3. Keeps(db, db')
      <3>1. CASE MergeExecAborts(db, r.source, r.book, r.strategy, r.saw)
        BY <1>0, <1>4, <3>1 DEF WriteExec
      <3>2. CASE ~MergeExecAborts(db, r.source, r.book, r.strategy, r.saw)
        <4>1. PICK any \in FilesOf(ReplaceFormats(db, r.source, r.book, r.saw), r.book) :
                  db' = MergeExec(db, r.source, r.book, r.strategy, r.saw, any)
          BY <1>4, <3>2 DEF WriteExec
        <4> QED BY <1>0, <2>2, <3>2, <4>1, MergeExecKeeps
      <3> QED BY <3>1, <3>2
    <2> QED BY <1>0, <2>1, <2>3, AnswerIsPlain DEF At, Idle, Spares
  <1> QED BY <1>1, <1>2, <1>3, <1>4 DEF MergeStep

-----------------------------------------------------------------------------
(* The requests for shelves, collections, tags and authors.                  *)

LEMMA ListRequestIsPlain ==
    ASSUME Inv, NEW c \in Calls, ListRequest(c), ~\E u \in Users : StartImport(c, u)
    PROVE  Plain(c)
  <1>0. DbOK(db) /\ Keeps(db, db)
    BY ReadsKeep DEF Inv
  \* A request that changes rows is over, another goes on to a stage of its own.
  <1>a. ASSUME BeginAndEnd(c), Keeps(db, db'), Idle
        PROVE  Plain(c)
    BY <1>a, BeginIsPlain DEF BeginAndEnd, Over
  <1>b. ASSUME NEW r, Begin(c, r), Keeps(db, db'), Idle, {"op", "at"} \subseteq DOMAIN r,
               r.op \in {"shelf", "collection", "tag", "author"}
        PROVE  Plain(c)
    <2>1. Shape(c, r) /\ Bound(db', Unborn, r) /\ r.op \notin {"upload", "import", "new"}
      BY <1>b DEF Shape, Bound
    <2> QED BY <1>b, <2>1, BeginIsPlain
  <1>1. ASSUME NEW u, NEW name, NEW public, CreateShelf(c, u, name, public)
        PROVE  Plain(c)
    BY <1>0, <1>1, <1>a, ShelfKeeps DEF CreateShelf
  <1>2. ASSUME NEW u, NEW s, DeleteShelf(c, u, s)
        PROVE  Plain(c)
    BY <1>0, <1>2, <1>a, DropShelfKeeps DEF DeleteShelf
  <1>3. ASSUME NEW u, NEW s, NEW name, NEW public, RenameShelf(c, u, s, name, public)
        PROVE  Plain(c)
    BY <1>0, <1>3, <1>b, ShelfNameKeeps DEF RenameShelf, OwnShelf, Has
  <1>4. ASSUME NEW u, NEW s, NEW b, ReadShelfOrder(c, u, s, b) \/ RemoveFromShelf(c, u, s, b)
        PROVE  Plain(c)
    <2>1. CASE ReadShelfOrder(c, u, s, b)
      BY <1>0, <2>1, <1>b DEF ReadShelfOrder, Reads
    <2>2. CASE RemoveFromShelf(c, u, s, b)
      BY <1>0, <2>2, <1>a, DropShelvedKeeps DEF RemoveFromShelf
    <2> QED BY <1>4, <2>1, <2>2
  <1>5. ASSUME NEW u, NEW s, NEW order, CheckOrder(c, u, s, order)
        PROVE  Plain(c)
    BY <1>0, <1>5, <1>b DEF CheckOrder, Reads
  <1>6. ASSUME NEW u, NEW public, CreateCollection(c, u, public)
        PROVE  Plain(c)
    BY <1>0, <1>6, <1>a, CollectionKeeps DEF CreateCollection
  <1>7. ASSUME NEW u, NEW l, NEW public, UpdateCollection(c, u, l, public)
        PROVE  Plain(c)
    BY <1>0, <1>7, <1>a, CollectionFlagKeeps DEF UpdateCollection, MayChange, Has
  <1>8. ASSUME NEW u, NEW l, DeleteCollection(c, u, l)
        PROVE  Plain(c)
    BY <1>0, <1>8, <1>a, DropCollectionKeeps DEF DeleteCollection
  <1>9. ASSUME NEW u, NEW l, NEW books, CheckCollected(c, u, l, books)
        PROVE  Plain(c)
    BY <1>0, <1>9, <1>b DEF CheckCollected, Reads
  <1>10. ASSUME NEW u, NEW l, NEW b, RemoveCollected(c, u, l, b)
        PROVE  Plain(c)
    BY <1>0, <1>10, <1>a, DropCollectedKeeps DEF RemoveCollected
  <1>11. ASSUME NEW u, NEW t, NEW name, CheckRename(c, u, t, name)
        PROVE  Plain(c)
    BY <1>0, <1>11, <1>b DEF CheckRename, Reads
  <1>12. ASSUME NEW u, NEW t, DeleteTag(c, u, t)
        PROVE  Plain(c)
    BY <1>0, <1>12, <1>a, DropTagKeeps DEF DeleteTag
  <1>13. ASSUME NEW u, NEW s, NEW t, MergeTag(c, u, s, t)
        PROVE  Plain(c)
    BY <1>0, <1>13, <1>a, MergedTagsKeep DEF MergeTag, Has
  <1>14. ASSUME NEW u, NEW who \in Users, NEW t, NEW mode, RestrictTag(c, u, who, t, mode)
        PROVE  Plain(c)
    <2>1. Keeps(db, db')
      BY <1>0, <1>14, RestrictKeeps, UnrestrictKeeps DEF RestrictTag, Has
    <2> QED BY <1>14, <2>1, <1>a DEF RestrictTag
  <1>15. ASSUME NEW u, NEW b, NEW tags, AskForTags(c, u, b, tags)
        PROVE  Plain(c)
    BY <1>0, <1>15, <1>b DEF AskForTags, Reads
  <1>16. ASSUME NEW u, NEW b, NEW confirm, NEW reject, CheckConfirm(c, u, b, confirm, reject)
        PROVE  Plain(c)
    BY <1>0, <1>16, <1>b DEF CheckConfirm, Reads
  <1>17. ASSUME NEW u, NEW a, NEW field, ReadProfile(c, u, a, field)
        PROVE  Plain(c)
    BY <1>0, <1>17, <1>b DEF ReadProfile, Reads
  <1>18. ASSUME NEW u, NEW a, CheckPhoto(c, u, a)
        PROVE  Plain(c)
    BY <1>0, <1>18, <1>b DEF CheckPhoto, Reads
  <1>19. ASSUME NEW u, NEW s, NEW t, MergeAuthor(c, u, s, t)
        PROVE  Plain(c)
    BY <1>0, <1>19, <1>a, MergeAuthorKeeps DEF MergeAuthor
  <1> QED BY <1>1, <1>2, <1>3, <1>4, <1>5, <1>6, <1>7, <1>8, <1>9, <1>10, <1>11, <1>12, <1>13, <1>14, <1>15, <1>16, <1>17,
             <1>18, <1>19 DEF ListRequest

LEMMA ListStepIsPlain ==
    ASSUME Inv, NEW c \in Calls, InFlight(c), ListStep(c), ~ImportStep(c)
    PROVE  Plain(c)
  <1> DEFINE r == call[c]
  <1>0. DbOK(db) /\ Keeps(db, db) /\ Shape(c, r) /\ faults \in 0..MaxFaults
    BY ReadsKeep DEF Inv, CallsOK
  <1>a. ASSUME Answer(c), Keeps(db, db'), Idle, r.op \in {"shelf", "collection", "tag", "author"}
        PROVE  Plain(c)
    BY <1>0, <1>a, AnswerIsPlain DEF Idle, Spares
  \* A step that only changes what the request has still to do
  <1>b. ASSUME NEW s, call' = [call EXCEPT ![c] = s], s.op = r.op, {"op", "at"} \subseteq DOMAIN s, Keeps(db, db'),
               r.op \in {"collection", "author"}, Spares, index' = index, tasks' = tasks, faults' \in faults..MaxFaults, crashes' = crashes
        PROVE  Plain(c)
    <2>1. Others(c) /\ call'[c] = s
      BY <1>b DEF Others, Inv, CallsOK
    <2>2. Shape(c, s) /\ Bound(db', Unborn, s)
      BY <1>b DEF Shape, Bound
    <2> QED BY <1>b, <2>1, <2>2, StepIsPlain
  <1>1. CASE PublishShelf(c)
    <2>1. Keeps(db, db')
      BY <1>0, <1>1, ShelfFlagKeeps DEF PublishShelf, Has
    <2> QED BY <1>1, <2>1, <1>a DEF PublishShelf, At
  <1>2. CASE AddToShelf(c)
    BY <1>0, <1>2, <1>a, ShelvedKeeps DEF AddToShelf, At
  <1>3. CASE WriteOrder(c)
    <2> DEFINE place(b) == (CHOOSE i \in DOMAIN r.order : r.order[i] = b) - 1
               moved == {k \in KeysWith(db.shelved, 1, r.shelf) : k[2] \in Range(r.order)}
               order == [k \in moved |-> place(k[2])]
    <2>1. moved \subseteq DOMAIN db.shelved /\ DOMAIN order = moved
      BY DEF KeysWith
    <2>2. db' = [db EXCEPT !.shelved = order ++ @]
      BY <1>3 DEF WriteOrder
    <2> HIDE DEF order, moved
    <2>3. Keeps(db, db')
      BY <1>0, <2>1, <2>2, OrderKeeps
    <2> QED BY <1>3, <2>3, <1>a DEF WriteOrder, At
  <1>4. CASE CollectBook(c)
    <2>1. PICK b \in r.books :
              \/ db' = db /\ Answer(c)
              \/ /\ MayChange(db, r.user, r.collection) => Has(db.book, b)
                 /\ db' = IF MayChange(db, r.user, r.collection)
                          THEN [db EXCEPT !.collected = @ \cup {<<r.collection, b>>}] ELSE db
                 /\ Answer(c) \/ call' = [call EXCEPT ![c].books = @ \ {b}]
      BY <1>4 DEF CollectBook
    <2>2. Keeps(db, db')
      BY <1>0, <2>1, CollectedKeeps DEF MayChange, Has
    <2>3. At(c, "collection", "add") /\ Idle
      BY <1>4 DEF CollectBook
    <2>4. CASE Answer(c)
      BY <2>2, <2>3, <2>4, <1>a DEF At
    <2>5. CASE call' = [call EXCEPT ![c].books = @ \ {b}]
      <3> DEFINE s == [r EXCEPT !.books = @ \ {b}]
      <3>1. s.op = "collection" /\ {"op", "at"} \subseteq DOMAIN s
        BY <1>0, <2>3 DEF At, Shape
      <3>2. call' = [call EXCEPT ![c] = s]
        BY <2>5
      <3> HIDE DEF s
      <3>3. Spares /\ index' = index /\ tasks' = tasks /\ faults' \in faults..MaxFaults /\ crashes' = crashes
        BY <1>0, <2>3 DEF Idle, Spares
      <3>4. r.op = "collection"
        BY <2>3 DEF At
      <3> QED BY <2>2, <3>1, <3>2, <3>3, <3>4, <1>b
    <2> QED BY <2>1, <2>4, <2>5
  <1>5. CASE WriteRename(c)
    <2>1. Keeps(db, db')
      BY <1>0, <1>5, TagNameKeeps DEF WriteRename, Has
    <2> QED BY <1>5, <2>1, <1>a DEF WriteRename, At
  <1>6. CASE InsertSuggestions(c)
    <2>1. Keeps(db, db')
      BY <1>0, <1>6, SuggestKeeps DEF InsertSuggestions, Has
    <2> QED BY <1>6, <2>1, <1>a DEF InsertSuggestions, At
  <1>7. CASE ConfirmTags(c)
    <2> DEFINE named(tags) == {k \in KeysWith(db.tag, 1, r.book) : k[2] \in tags}
    <2>1. named(r.confirm) \subseteq DOMAIN db.tag
      BY DEF KeysWith
    <2>2. db' = [db EXCEPT !.tag = Drop([k \in named(r.confirm) |-> TRUE] ++ @, named(r.reject))]
      BY <1>7 DEF ConfirmTags
    <2> HIDE DEF named
    <2>3. Keeps(db, db')
      BY <1>0, <2>1, <2>2, ConfirmKeeps
    <2> QED BY <1>7, <2>3, <1>a DEF ConfirmTags, At
  <1>8. CASE WriteProfile(c)
    <2>1. Keeps(db, db')
      BY <1>0, <1>8, ProfileKeeps DEF WriteProfile
    <2> QED BY <1>8, <2>1, <1>a DEF WriteProfile, At
  <1>9. CASE StorePhoto(c)
    <2> DEFINE i == r.stored + 1
               stage == IF i = Len(PhotoFiles) THEN "setphoto" ELSE r.at
               s == [r EXCEPT !.stored = i, !.at = stage]
               t == [r EXCEPT !.at = "unphoto"]
    <2>1. /\ At(c, "author", "photo") /\ db' = db /\ index' = index /\ tasks' = tasks /\ crashes' = crashes
          /\ files \subseteq files' /\ faults' \in faults..MaxFaults
      BY <1>0, <1>9, BoundsAssumption DEF StorePhoto, Fault
    <2>2. Answer(c) \/ call' = [call EXCEPT ![c] = s] \/ call' = [call EXCEPT ![c] = t]
      BY <1>9 DEF StorePhoto, Goto
    <2> HIDE DEF stage
    <2>3. s.op = "author" /\ {"op", "at"} \subseteq DOMAIN s /\ t.op = "author" /\ {"op", "at"} \subseteq DOMAIN t
      BY <1>0, <2>1 DEF At, Shape
    <2> HIDE DEF s, t
    <2>4. CASE Answer(c)
      BY <1>0, <2>1, <2>4, AnswerIsPlain DEF At, Spares
    <2> QED BY <1>0, <2>1, <2>2, <2>3, <2>4, <1>b DEF At, Spares
  <1>10. CASE SetPhoto(c)
    <2>1. /\ At(c, "author", "setphoto") /\ files' = files /\ index' = index /\ tasks' = tasks /\ crashes' = crashes
          /\ faults' \in faults..MaxFaults
      BY <1>0, <1>10, BoundsAssumption DEF SetPhoto, Fault
    <2>2. Keeps(db, db') /\ (Answer(c) \/ Goto(c, "unphoto"))
      BY <1>0, <1>10, ProfileKeeps DEF SetPhoto
    <2> QED BY <1>0, <2>1, <2>2, AnswerIsPlain, GotoIsPlain DEF At, Spares
  <1>11. CASE RemovePhotos(c)
    BY <1>0, <1>11, AnswerIsPlain, FilesAreNoPictures DEF RemovePhotos, At, Spares, Has
  <1> QED BY <1>1, <1>2, <1>3, <1>4, <1>5, <1>6, <1>7, <1>8, <1>9, <1>10, <1>11 DEF ListStep

-----------------------------------------------------------------------------
(* Uploads.                                                                  *)

LEMMA UploadGoes ==
    ASSUME Inv, NEW c \in Calls, InFlight(c), call[c].op = "upload", NEW Born, DbOK(db'), Evolves(db, db', Born), Others(c),
           \/ call'[c] = Over
           \/ call'[c].op = "upload" /\ {"op", "at"} \subseteq DOMAIN call'[c] /\ call'[c].book = call[c].book /\ call'[c].file = call[c].file,
           Waits(call'[c]) => Waits(call[c]), Born # {} => Born = {NewBook[c]} /\ Waits(call[c]) /\ ~Waits(call'[c]),
           \A t \in tasks' \ tasks : t.kind # "removal", faults' \in faults..MaxFaults, crashes' = crashes
    PROVE  Moves(c, Born)
  <1>1. Shape(c, call[c])
    BY DEF Inv, CallsOK
  <1>2. call'[c] = Over \/ (Shape(c, call'[c]) /\ Bound(db', Unborn, call'[c]))
    BY <1>1 DEF Shape, Bound
  <1> QED BY <1>2 DEF Moves

LEMMA UploadStepMoves ==
    ASSUME Inv, NEW c \in Calls, InFlight(c), UploadStep(c)
    PROVE  \E Born : Moves(c, Born)
  <1> DEFINE r == call[c]
  <1>0. DbOK(db) /\ Evolves(db, db, {}) /\ Shape(c, r) /\ faults \in 0..MaxFaults
    BY ReadsKeep, KeepsEvolves DEF Inv, CallsOK
  \* A step that leaves the tables alone, or changes a row, and answers or goes on
  <1>a. ASSUME r.op = "upload", r.at # "put", r.at # "insert", Keeps(db, db'), \A t \in tasks' \ tasks : t.kind # "removal",
               faults' \in faults..MaxFaults, crashes' = crashes, NEW s, call' = [call EXCEPT ![c] = s],
               s = Over \/ (s.op = "upload" /\ {"op", "at"} \subseteq DOMAIN s /\ s.book = r.book /\ s.file = r.file /\ s.at # "put" /\ s.at # "insert")
        PROVE  Moves(c, {})
    <2>1. Others(c) /\ call'[c] = s
      BY <1>a DEF Others, Inv, CallsOK
    <2>2. ~Waits(s)
      BY <1>a DEF Waits, New, Over
    <2> QED BY <1>a, <2>1, <2>2, KeepsEvolves, UploadGoes
  <1>1. CASE StoreUpload(c)
    <2> DEFINE s == [r EXCEPT !.at = "insert"]
    <2>1. r.op = "upload" /\ r.at = "put" /\ db' = db /\ tasks' = tasks /\ faults' = faults /\ crashes' = crashes
      BY <1>1 DEF StoreUpload, At
    <2>2. Others(c) /\ call'[c] = s
      BY <1>1 DEF StoreUpload, Goto, Others, Inv, CallsOK
    <2>3. Waits(r)
      BY <2>1 DEF Waits
    <2>4. s.op = "upload" /\ {"op", "at"} \subseteq DOMAIN s /\ s.book = r.book /\ s.file = r.file
      BY <1>0, <2>1 DEF Shape
    <2> HIDE DEF s
    <2> QED BY <1>0, <2>1, <2>2, <2>3, <2>4, UploadGoes
  <1>2. CASE InsertUpload(c)
    <2>1. r.op = "upload" /\ r.at = "insert" /\ tasks' = tasks /\ crashes' = crashes /\ Waits(r)
      BY <1>2 DEF InsertUpload, At, Waits
    <2>2. CASE Fault /\ Goto(c, "unput") /\ db' = db
      <3> DEFINE s == [r EXCEPT !.at = "unput"]
      <3>1. Others(c) /\ call'[c] = s
        BY <2>2 DEF Goto, Others, Inv, CallsOK
      <3>2. s.op = "upload" /\ {"op", "at"} \subseteq DOMAIN s /\ s.book = r.book /\ s.file = r.file
        BY <1>0, <2>1 DEF Shape
      <3>3. faults' \in faults..MaxFaults
        BY <1>0, <2>2, BoundsAssumption DEF Fault
      <3> HIDE DEF s
      <3> QED BY <1>0, <2>1, <2>2, <3>1, <3>2, <3>3, UploadGoes
    <2>3. CASE ~(Fault /\ Goto(c, "unput") /\ db' = db)
      <3> DEFINE row == [title |-> r.title, sort |-> r.title, rating |-> NoValue, lib |-> Library[r.user],
                         cover |-> FALSE, authors |-> <<"Unknown Author">>, publisher |-> NoValue]
                 s == [r EXCEPT !.at = "read"]
      <3>1. /\ db' = InsertBook(db, r.book, Name(r.file), row, r.idents) /\ faults' = faults
            /\ Others(c) /\ call'[c] = s
        BY <1>2, <2>3 DEF InsertUpload, Goto, Others, Inv, CallsOK
      <3>2. s.op = "upload" /\ {"op", "at"} \subseteq DOMAIN s /\ s.book = r.book /\ s.file = r.file /\ s.at = "read"
        BY <1>0, <2>1 DEF Shape
      <3> HIDE DEF s
      <3>3. PICK name \in FormatsUploaded : r.book = NewBook[c] /\ r.file = <<NewBook[c], name>>
        BY <1>0, <2>1 DEF Shape
      <3>4. NewBook[c] \in Unborn
        BY <2>1 DEF Unborn
      <3>5. r.book \notin DOMAIN db.book /\ \A f \in DOMAIN db.format : f[1] # r.book
        BY <3>3, <3>4 DEF Inv
      <3>6. /\ DOMAIN row = {"title", "sort", "rating", "lib", "cover", "authors", "publisher"}
            /\ row.authors \in Seq(Range(row.authors))
        <4>1. ASSUME NEW S, NEW seq \in Seq(S) PROVE seq \in Seq(Range(seq))
          <5>1. \A i \in DOMAIN seq : seq[i] \in Range(seq)
            BY DEF Range
          <5> QED BY <5>1
        <4>2. <<"Unknown Author">> \in Seq({"Unknown Author"})
          OBVIOUS
        <4>3. row.authors = <<"Unknown Author">>
          OBVIOUS
        <4>4. DOMAIN row = {"title", "sort", "rating", "lib", "cover", "authors", "publisher"}
          OBVIOUS
        <4> HIDE DEF row
        <4> QED BY <4>1, <4>2, <4>3, <4>4
      <3> HIDE DEF row
      <3>6a. Name(r.file) = name
        BY <3>3 DEF Name
      <3>7. /\ DbOK(db') /\ DOMAIN db'.book = DOMAIN db.book \cup {r.book}
            /\ DOMAIN db'.format = DOMAIN db.format \cup {<<r.book, name>>}
            /\ \A f \in DOMAIN db.format : db'.format[f] = db.format[f]
        <4>1. DbOK(db) /\ db' = InsertBook(db, r.book, name, row, r.idents)
          BY <1>0, <3>1, <3>6a
        <4>2. Inserted(db, db', r.book, name)
          BY <3>5, <3>6, <4>1, InsertBookKeeps
        <4> QED BY <4>2 DEF Inserted
      <3>8. FileOK(<<r.book, name>>)
        BY <3>3, FilesAssumption DEF FileOK, Name
      <3>9. Evolves(db, db', {NewBook[c]})
        BY <3>3, <3>7, <3>8 DEF Evolves, Has
      <3>10. ~Waits(s)
        BY <3>2 DEF Waits, New
      <3>11. Moves(c, {NewBook[c]})
        BY <1>0, <2>1, <3>1, <3>2, <3>7, <3>9, <3>10, UploadGoes
      <3> QED BY <3>11
    <2> QED BY <2>2, <2>3
  <1>3. CASE ReadUpload(c)
    <2>1. /\ r.op = "upload" /\ r.at = "read" /\ db' = db /\ tasks' = tasks /\ crashes' = crashes
          /\ faults' \in faults..MaxFaults
      BY <1>0, <1>3, BoundsAssumption DEF ReadUpload, At, Fault
    <2>2. PICK stage \in {"unput", "cover", "finish"} : call' = [call EXCEPT ![c] = [r EXCEPT !.at = stage]]
      BY <1>3 DEF ReadUpload, Goto
    <2> DEFINE s == [r EXCEPT !.at = stage]
    <2>3. s.op = "upload" /\ {"op", "at"} \subseteq DOMAIN s /\ s.book = r.book /\ s.file = r.file /\ s.at = stage
      BY <1>0, <2>1 DEF Shape
    <2> HIDE DEF s
    <2>4. Moves(c, {})
      BY <1>0, <1>a, <2>1, <2>2, <2>3, ReadsKeep DEF s
    <2> QED BY <2>4
  <1>4. CASE RemoveUpload(c)
    <2>1. /\ r.op = "upload" /\ r.at = "unput" /\ db' = db /\ tasks' = tasks /\ crashes' = crashes
          /\ faults' \in faults..MaxFaults /\ call' = [call EXCEPT ![c] = Over]
      BY <1>0, <1>4, BoundsAssumption DEF RemoveUpload, At, Fault, Answer
    <2>2. Moves(c, {})
      BY <1>0, <1>a, <2>1, ReadsKeep
    <2> QED BY <2>2
  <1>5. CASE StoreCover(c)
    <2> DEFINE i == r.stored + 1
               stage == IF i = Len(CoverFiles) THEN "setcover" ELSE r.at
               s == [r EXCEPT !.stored = i, !.at = stage]
    <2>1. /\ r.op = "upload" /\ r.at = "cover" /\ db' = db /\ tasks' = tasks /\ crashes' = crashes /\ faults' = faults
      BY <1>5 DEF StoreCover, At
    <2>1a. call' = [call EXCEPT ![c] = s]
      BY <1>5 DEF StoreCover
    <2>1b. faults' \in faults..MaxFaults
      BY <1>0, <2>1
    <2>2. stage \in {"setcover", "cover"}
      BY <2>1
    <2> HIDE DEF stage
    <2>3. s.op = "upload" /\ {"op", "at"} \subseteq DOMAIN s /\ s.book = r.book /\ s.file = r.file /\ s.at = stage
      BY <1>0, <2>1 DEF Shape
    <2> HIDE DEF s
    <2>4. Moves(c, {})
      BY <1>0, <1>a, <2>1, <2>1a, <2>1b, <2>2, <2>3, ReadsKeep
    <2> QED BY <2>4
  <1>6. CASE SetCover(c, "upload", "finish")
    <2>1. /\ r.op = "upload" /\ r.at = "setcover" /\ tasks' = tasks /\ crashes' = crashes
          /\ faults' \in faults..MaxFaults
      BY <1>0, <1>6, BoundsAssumption DEF SetCover, At, Fault
    <2>2. PICK stage \in {"uncover", "finish"} : call' = [call EXCEPT ![c] = [r EXCEPT !.at = stage]]
      BY <1>6 DEF SetCover, Goto
    <2> DEFINE s == [r EXCEPT !.at = stage]
    <2>3. s.op = "upload" /\ {"op", "at"} \subseteq DOMAIN s /\ s.book = r.book /\ s.file = r.file /\ s.at = stage
      BY <1>0, <2>1 DEF Shape
    <2> HIDE DEF s
    <2>4. Keeps(db, db')
      BY <1>0, <1>6, CoverKeeps, ReadsKeep DEF SetCover, SetCoverPath, Has
    <2>5. Moves(c, {})
      BY <1>0, <1>a, <2>1, <2>2, <2>3, <2>4 DEF s
    <2> QED BY <2>5
  <1>7. CASE RemoveCover(c, "upload")
    <2>1. /\ r.op = "upload" /\ r.at = "uncover" /\ db' = db /\ tasks' = tasks /\ crashes' = crashes
          /\ faults' \in faults..MaxFaults /\ call' = [call EXCEPT ![c] = Over]
      BY <1>0, <1>7 DEF RemoveCover, At, Answer
    <2>2. Moves(c, {})
      BY <1>0, <1>a, <2>1, ReadsKeep
    <2> QED BY <2>2
  <1>8. CASE FinishUpload(c)
    <2>1. /\ r.op = "upload" /\ r.at = "finish" /\ db' = db /\ crashes' = crashes
          /\ faults' \in faults..MaxFaults /\ call' = [call EXCEPT ![c] = Over] /\ \A t \in tasks' \ tasks : t.kind # "removal"
      BY <1>0, <1>8 DEF FinishUpload, At, Answer, Spawn, IndexTask, ChunkTask
    <2>2. Moves(c, {})
      BY <1>0, <1>a, <2>1, ReadsKeep
    <2> QED BY <2>2
  <1> QED BY <1>1, <1>2, <1>3, <1>4, <1>5, <1>6, <1>7, <1>8 DEF UploadStep

-----------------------------------------------------------------------------
(* Imports.                                                                  *)

\* Statements on the logs of imports
LEMMA LogKeeps ==
    ASSUME NEW d, DbOK(d), NEW c, NEW status \in {"pending", "running", "complete", "failed"}, NEW matched, NEW unmatched
    PROVE  /\ DbOK(UpdateLog(d, c, status, matched, unmatched))
           /\ Evolves(d, UpdateLog(d, c, status, matched, unmatched), {})
  BY DEF DbOK, Sound, Schema, References, OneFile, OfItsBook, Evolves, Has, UpdateLog

LEMMA NewLogKeeps ==
    ASSUME NEW d, DbOK(d), NEW c, NEW status \in {"pending", "running", "complete", "failed"}, NEW matched, NEW unmatched,
           NEW e, e = [d EXCEPT !.imports = Put(@, c, [status |-> status, matched |-> matched, unmatched |-> unmatched])]
    PROVE  DbOK(e) /\ Evolves(d, e, {})
  BY DEF DbOK, Sound, Schema, References, OneFile, OfItsBook, Evolves, Has, Put

LEMMA StartImportMoves ==
    ASSUME Inv, NEW c \in Calls, NEW u \in Users, StartImport(c, u)
    PROVE  Moves(c, {})
  <1> DEFINE r == call'[c]
  <1>1. /\ call[c] = New /\ Others(c) /\ r.op = "import" /\ r.user = u /\ {"op", "at"} \subseteq DOMAIN r
        /\ tasks' = tasks /\ crashes' = crashes /\ faults' \in faults..MaxFaults
    BY DEF StartImport, Begin, Free, Others, Idle, Inv, CallsOK
  <1>2. DbOK(db') /\ Evolves(db, db', {})
    BY NewLogKeeps DEF StartImport, Inv
  <1> HIDE DEF r
  <1>3. Shape(c, r) /\ Bound(db', Unborn, r) /\ Waits(call[c])
    BY <1>1 DEF Shape, Bound, Waits
  <1> QED BY <1>1, <1>2, <1>3 DEF Moves, r

LEMMA ImportStepMoves ==
    ASSUME Inv, NEW c \in Calls, InFlight(c), ImportStep(c)
    PROVE  Moves(c, {}) /\ call[c].op = "import" /\ (call'[c] = Over \/ call'[c].op = "import")
  <1> DEFINE r == call[c]
  <1>0. DbOK(db) /\ Evolves(db, db, {}) /\ Shape(c, r) /\ faults \in 0..MaxFaults
    BY ReadsKeep, KeepsEvolves DEF Inv, CallsOK
  <1>a. ASSUME r.op = "import", DbOK(db'), Evolves(db, db', {}), tasks' = tasks, faults' \in faults..MaxFaults, crashes' = crashes,
               NEW s, call' = [call EXCEPT ![c] = s], s = Over \/ (s.op = "import" /\ s.user = r.user /\ {"op", "at"} \subseteq DOMAIN s)
        PROVE  Moves(c, {}) /\ r.op = "import" /\ (call'[c] = Over \/ call'[c].op = "import")
    <2>1. Others(c) /\ call'[c] = s
      BY <1>a DEF Others, Inv, CallsOK
    <2>2. s = Over \/ (Shape(c, s) /\ Bound(db', Unborn, s))
      BY <1>0, <1>a DEF Shape, Bound
    <2>3. ~Waits(s)
      BY <1>a DEF Waits, New, Over
    <2> QED BY <1>a, <2>1, <2>2, <2>3 DEF Moves
  <1>b. ASSUME r.op = "import", DbOK(db'), Evolves(db, db', {}), tasks' = tasks, faults' \in faults..MaxFaults, crashes' = crashes,
               Answer(c) \/ \E stage : Goto(c, stage)
        PROVE  Moves(c, {}) /\ r.op = "import" /\ (call'[c] = Over \/ call'[c].op = "import")
    <2>1. CASE Answer(c)
      BY <1>a, <1>b, <2>1 DEF Answer
    <2>2. CASE \E stage : Goto(c, stage)
      <3>1. PICK stage : call' = [call EXCEPT ![c] = [r EXCEPT !.at = stage]]
        BY <2>2 DEF Goto
      <3> DEFINE s == [r EXCEPT !.at = stage]
      <3>2. s.op = "import" /\ s.user = r.user /\ {"op", "at"} \subseteq DOMAIN s
        BY <1>0, <1>b DEF Shape
      <3> HIDE DEF s
      <3> QED BY <1>a, <1>b, <3>1, <3>2 DEF s
    <2> QED BY <1>b, <2>1, <2>2
  <1>c. Idle => tasks' = tasks /\ crashes' = crashes /\ faults' \in faults..MaxFaults
    BY <1>0 DEF Idle
  <1>1. CASE ImportRunning(c)
    BY <1>0, <1>1, <1>b, <1>c, LogKeeps DEF ImportRunning, At
  <1>2. CASE MatchRow(c)
    <2>1. r.op = "import" /\ Idle /\ db' = db
      BY <1>2, ZenonT(60) DEF MatchRow, At, Reads
    <2> DEFINE row == Head(r.rows)
    <2>2. PICK found :
              IF Cardinality(found) = 1
              THEN call' = [call EXCEPT ![c].book = CHOOSE b \in found : TRUE, ![c].shelves = row.shelves,
                                        ![c].at = IF row.read THEN "readstate" ELSE "rate"]
              ELSE call' = [call EXCEPT ![c].at = "log", ![c].unmatched = @ + 1]
      BY <1>2 DEF MatchRow
    <2> DEFINE b == CHOOSE b \in found : TRUE
               shelves == row.shelves
               stage == IF row.read THEN "readstate" ELSE "rate"
    <2> DEFINE s == [r EXCEPT !.book = b, !.shelves = shelves, !.at = stage]
               t == [r EXCEPT !.at = "log", !.unmatched = @ + 1]
    <2>3. /\ s.op = "import" /\ s.user = r.user /\ {"op", "at"} \subseteq DOMAIN s
          /\ t.op = "import" /\ t.user = r.user /\ {"op", "at"} \subseteq DOMAIN t
      BY <1>0, <2>1 DEF Shape
    <2>4. call' = [call EXCEPT ![c] = s] \/ call' = [call EXCEPT ![c] = t]
      BY <2>2
    <2> HIDE DEF s, t
    <2> QED BY <1>0, <1>a, <1>c, <2>1, <2>3, <2>4
  <1>3. CASE ReadRowState(c)
    <2> DEFINE s == [r EXCEPT !.at = "writestate", !.state = [StateOf(r.user, r.book) EXCEPT !.read = TRUE]]
    <2>1. r.op = "import" /\ Idle /\ db' = db /\ call' = [call EXCEPT ![c] = s]
      BY <1>3 DEF ReadRowState, At, Reads
    <2>2. s.op = "import" /\ s.user = r.user /\ {"op", "at"} \subseteq DOMAIN s
      BY <1>0, <2>1 DEF Shape
    <2> HIDE DEF s
    <2> QED BY <1>0, <1>a, <1>c, <2>1, <2>2
  <1>4. CASE WriteRowState(c)
    <2>1. r.op = "import" /\ Idle /\ r.user \in Users
      BY <1>0, <1>4 DEF WriteRowState, At, Shape
    <2>2. Keeps(db, db')
      BY <1>0, <1>4, <2>1, StateKeeps, ReadsKeep DEF WriteRowState, Has
    <2>3. \E stage : Goto(c, stage)
      BY <1>4 DEF WriteRowState
    <2> QED BY <1>b, <1>c, <2>1, <2>2, <2>3, KeepsEvolves
  <1>5. CASE RateRow(c)
    <2>1. r.op = "import" /\ Idle
      BY <1>5 DEF RateRow, At
    <2>2. Keeps(db, db')
      BY <1>0, <1>5, RatingKeeps, ReadsKeep DEF RateRow, Has
    <2>3. \E stage : Goto(c, stage)
      BY <1>5 DEF RateRow
    <2> QED BY <1>b, <1>c, <2>1, <2>2, <2>3, KeepsEvolves
  <1>6. CASE FindShelf(c)
    <2>1. r.op = "import" /\ Idle /\ db' = db
      BY <1>6 DEF FindShelf, At, Reads
    <2>2. PICK id : \/ call' = [call EXCEPT ![c] = [r EXCEPT !.at = "log", !.matched = @ + 1]]
                    \/ call' = [call EXCEPT ![c] = [r EXCEPT !.at = "newshelf"]]
                    \/ call' = [call EXCEPT ![c] = [r EXCEPT !.at = "order", !.shelf = id]]
      BY <1>6 DEF FindShelf
    <2> DEFINE s == [r EXCEPT !.at = "log", !.matched = @ + 1]
               t == [r EXCEPT !.at = "newshelf"]
               v == [r EXCEPT !.at = "order", !.shelf = id]
    <2>3. /\ s.op = "import" /\ s.user = r.user /\ {"op", "at"} \subseteq DOMAIN s
          /\ t.op = "import" /\ t.user = r.user /\ {"op", "at"} \subseteq DOMAIN t
          /\ v.op = "import" /\ v.user = r.user /\ {"op", "at"} \subseteq DOMAIN v
      BY <1>0, <2>1 DEF Shape
    <2>4. call' = [call EXCEPT ![c] = s] \/ call' = [call EXCEPT ![c] = t] \/ call' = [call EXCEPT ![c] = v]
      BY <2>2
    <2> HIDE DEF s, t, v
    <2> QED BY <1>0, <1>a, <1>c, <2>1, <2>3, <2>4
  <1>7. CASE NewShelf(c)
    <2>1. r.op = "import" /\ Idle
      BY <1>7 DEF NewShelf, At
    <2>2. PICK id :
              IF NameTaken(db, r.user, Head(r.shelves), NoValue)
              THEN db' = db /\ Goto(c, "failed")
              ELSE /\ db' = InsertShelf(db, id, r.user, Head(r.shelves), FALSE)
                   /\ call' = [call EXCEPT ![c].at = "order", ![c].shelf = id]
      BY <1>7, ZenonT(60) DEF NewShelf
    <2> DEFINE s == [r EXCEPT !.at = "order", !.shelf = id]
    <2>3. Goto(c, "failed") \/ call' = [call EXCEPT ![c] = s]
      BY <2>2
    <2>4. s.op = "import" /\ s.user = r.user /\ {"op", "at"} \subseteq DOMAIN s
      BY <1>0, <2>1 DEF Shape
    <2> HIDE DEF s
    <2>5. Keeps(db, db')
      <3>1. DbOK(db)
        BY <1>0
      <3>2. CASE db' = db
        BY <3>1, <3>2, ReadsKeep
      <3>3. CASE db' = InsertShelf(db, id, r.user, Head(r.shelves), FALSE)
        <4> HIDE DEF r
        <4> QED BY <3>1, <3>3, ShelfKeeps
      <3> QED BY <2>2, <3>2, <3>3
    <2> QED BY <1>a, <1>b, <1>c, <2>1, <2>3, <2>4, <2>5, KeepsEvolves
  <1>8. CASE ReadRowOrder(c)
    <2> DEFINE s == [r EXCEPT !.at = "shelve", !.order = NextOrder(db, r.shelf)]
    <2>1. r.op = "import" /\ Idle /\ db' = db /\ call' = [call EXCEPT ![c] = s]
      BY <1>8 DEF ReadRowOrder, At, Reads
    <2>2. s.op = "import" /\ s.user = r.user /\ {"op", "at"} \subseteq DOMAIN s
      BY <1>0, <2>1 DEF Shape
    <2> HIDE DEF s
    <2> QED BY <1>0, <1>a, <1>c, <2>1, <2>2
  <1>9. CASE ShelveRow(c)
    <2> DEFINE s == [r EXCEPT !.at = "shelf", !.shelves = Tail(@)]
               t == [r EXCEPT !.at = "failed"]
    <2>1. r.op = "import" /\ Idle
      BY <1>9 DEF ShelveRow, At
    <2>2. call' = [call EXCEPT ![c] = s] \/ call' = [call EXCEPT ![c] = t]
      BY <1>9 DEF ShelveRow
    <2>3. /\ s.op = "import" /\ s.user = r.user /\ {"op", "at"} \subseteq DOMAIN s
          /\ t.op = "import" /\ t.user = r.user /\ {"op", "at"} \subseteq DOMAIN t
      BY <1>0, <2>1 DEF Shape
    <2> HIDE DEF s, t
    <2>4. Keeps(db, db')
      BY <1>0, <1>9, ShelvedKeeps DEF ShelveRow
    <2> QED BY <1>a, <1>c, <2>1, <2>2, <2>3, <2>4, KeepsEvolves
  <1>10. CASE LogRow(c)
    <2> DEFINE s == [r EXCEPT !.rows = Tail(@), !.at = AfterRow(Tail(r.rows))]
    <2>1. r.op = "import" /\ Idle /\ call' = [call EXCEPT ![c] = s]
      BY <1>10 DEF LogRow, At
    <2>2. s.op = "import" /\ s.user = r.user /\ {"op", "at"} \subseteq DOMAIN s
      BY <1>0, <2>1 DEF Shape
    <2> HIDE DEF s
    <2>3. DbOK(db') /\ Evolves(db, db', {})
      BY <1>0, <1>10, LogKeeps DEF LogRow
    <2> QED BY <1>a, <1>c, <2>1, <2>2, <2>3
  <1>11. CASE CompleteImport(c)
    BY <1>0, <1>11, <1>b, <1>c, LogKeeps DEF CompleteImport, At
  <1>12. CASE FailImport(c)
    BY <1>0, <1>12, <1>b, <1>c, LogKeeps DEF FailImport, At
  <1>13. CASE ImportStatementFails(c)
    <2>1. faults' \in faults..MaxFaults
      BY <1>0, <1>13, BoundsAssumption DEF ImportStatementFails, Fault
    <2> QED BY <1>0, <1>13, <1>b, <2>1 DEF ImportStatementFails
  <1> QED BY <1>1, <1>2, <1>3, <1>4, <1>5, <1>6, <1>7, <1>8, <1>9, <1>10, <1>11, <1>12, <1>13 DEF ImportStep

-----------------------------------------------------------------------------
(* The invariant.                                                            *)

LEMMA CheckUploadMoves ==
    ASSUME Inv, NEW c \in Calls, NEW u, NEW name \in FormatsUploaded, NEW title, NEW idents, NEW withCover,
           CheckUpload(c, u, name, title, idents, withCover)
    PROVE  Moves(c, {})
  <1> DEFINE r == call'[c]
  <1>1. /\ call[c] = New /\ Others(c) /\ r.op = "upload" /\ {"op", "at"} \subseteq DOMAIN r
        /\ r.book = NewBook[c] /\ r.file = <<NewBook[c], name>>
        /\ db' = db /\ tasks' = tasks /\ crashes' = crashes /\ faults' \in faults..MaxFaults
    BY DEF CheckUpload, Begin, Free, Others, Reads, Idle, Inv, CallsOK
  <1>2. DbOK(db) /\ Evolves(db, db, {})
    BY ReadsKeep, KeepsEvolves DEF Inv
  <1> HIDE DEF r
  <1>3. Shape(c, r) /\ Bound(db', Unborn, r) /\ Waits(call[c])
    BY <1>1 DEF Shape, Bound, Waits
  <1> QED BY <1>1, <1>2, <1>3 DEF Moves, r

LEMMA StatementFailsMoves ==
    ASSUME Inv, NEW c \in Calls, StatementFails(c)
    PROVE  Moves(c, {})
  <1>1. /\ Others(c) /\ call'[c] = Over /\ db' = db /\ tasks' = tasks /\ crashes' = crashes
        /\ faults' \in faults..MaxFaults
    BY BoundsAssumption DEF StatementFails, Answer, Others, Fault, Inv, CallsOK
  <1>2. DbOK(db) /\ Evolves(db, db, {})
    BY ReadsKeep, KeepsEvolves DEF Inv
  <1>3. ~Waits(Over)
    BY DEF Waits, New, Over
  <1> QED BY <1>1, <1>2, <1>3 DEF Moves

LEMMA RequestMoves ==
    ASSUME Inv, NEW c \in Calls, ReaderRequest(c) \/ BookRequest(c) \/ ListRequest(c)
    PROVE  \E Born : Moves(c, Born)
  <1>1. CASE ReaderRequest(c)
    BY <1>1, ReaderRequestIsPlain DEF Plain
  <1>2. CASE BookRequest(c)
    BY <1>2, BookRequestIsPlain, CheckUploadMoves DEF Plain
  <1>3. CASE ListRequest(c)
    BY <1>3, ListRequestIsPlain, StartImportMoves DEF Plain
  <1> QED BY <1>1, <1>2, <1>3

LEMMA CallStepMoves ==
    ASSUME Inv, NEW c \in Calls, InFlight(c), ReaderStep(c) \/ BookStep(c) \/ ListStep(c) \/ StatementFails(c)
    PROVE  \E Born : Moves(c, Born)
  <1>1. CASE ReaderStep(c)
    BY <1>1, ReaderStepIsPlain DEF Plain
  <1>2. CASE BookStep(c)
    BY <1>2, UploadStepMoves, EditStepIsPlain, MetadataStepIsPlain, DeleteStepIsPlain, MergeStepIsPlain DEF BookStep, Plain
  <1>3. CASE ListStep(c)
    BY <1>3, ListStepIsPlain, ImportStepMoves DEF Plain
  <1>4. CASE StatementFails(c)
    BY <1>4, StatementFailsMoves
  <1> QED BY <1>1, <1>2, <1>3, <1>4

\* A task changes no request, and of the tables chunks and downloads.
LEMMA TaskStepKeeps ==
    ASSUME Inv, TaskStep
    PROVE  /\ Keeps(db, db') /\ call' = call /\ files' = files /\ crashes' = crashes
           /\ faults' \in faults..MaxFaults /\ tasks' \subseteq tasks
  <1>0. DbOK(db) /\ Keeps(db, db) /\ faults \in 0..MaxFaults
    BY ReadsKeep DEF Inv
  <1>1. PICK t \in tasks : RunIndexTask(t) \/ RunRemovalTask(t) \/ RunChunkTask(t) \/ RunHistoryTask(t)
    BY DEF TaskStep
  <1>2. CASE RunIndexTask(t)
    BY <1>0, <1>2, BoundsAssumption DEF RunIndexTask, Fault
  <1>3. CASE RunRemovalTask(t)
    BY <1>0, <1>3, BoundsAssumption DEF RunRemovalTask, Fault
  <1>4. CASE RunChunkTask(t)
    <2>1. FilesOf(db, t.book) \cap files # {} => t.book \in DOMAIN db.book
      BY <1>0 DEF FilesOf, DbOK, Sound, References, Has
    <2>2. Keeps(db, db')
      BY <1>0, <1>4, <2>1, ChunksKeep DEF RunChunkTask
    <2> QED BY <1>0, <1>4, <2>2 DEF RunChunkTask
  <1>5. CASE RunHistoryTask(t)
    BY <1>0, <1>5, HistoryKeeps DEF RunHistoryTask
  <1> QED BY <1>1, <1>2, <1>3, <1>4, <1>5

LEMMA TaskStepKeepsInv ==
    ASSUME Inv, TaskStep
    PROVE  Inv'
  <1>1. /\ DbOK(db') /\ Evolves(db, db', {}) /\ call' = call /\ crashes' = crashes
        /\ faults' \in faults..MaxFaults /\ tasks' \subseteq tasks
    BY TaskStepKeeps, KeepsEvolves
  <1>2. PICK V : V = Unborn
    OBVIOUS
  <1>3. Unborn' = V
    BY <1>1, <1>2 DEF Unborn, Waits, New
  <1>4. ASSUME NEW c \in Calls, InFlight(c)'
        PROVE  Shape(c, call[c]) /\ Bound(db', V, call[c])
    <2>1. InFlight(c)
      BY <1>1, <1>4 DEF InFlight, New, Over
    <2>2. Shape(c, call[c]) /\ Bound(db, V, call[c])
      BY <1>2, <2>1 DEF Inv, CallsOK
    <2> QED BY <1>1, <2>2, BoundStays
  <1>5. CallsOK'
    BY <1>1, <1>3, <1>4 DEF CallsOK, Inv
  <1>6. \A f \in DOMAIN db'.format : FileOK(f) /\ f[1] \notin V
    BY <1>1, <1>2 DEF Inv, Evolves, Has
  <1>7. \A b \in DOMAIN db'.book : b \notin V
    BY <1>1, <1>2 DEF Inv, Evolves, Has
  <1>8. \A t \in tasks' : t.kind = "removal" => t.book \notin V /\ ~Has(db'.book, t.book)
    BY <1>1, <1>2 DEF Inv, Evolves, Has
  <1> QED BY <1>1, <1>3, <1>5, <1>6, <1>7, <1>8 DEF Inv, DbOK, FileOK

LEMMA CrashKeepsInv ==
    ASSUME Inv, Crash
    PROVE  Inv'
  <1>1. /\ db' = db /\ faults' = faults /\ tasks' = {} /\ crashes' = crashes + 1 /\ crashes < MaxCrashes
        /\ call' = [c \in Calls |-> IF InFlight(c) THEN Over ELSE call[c]]
    BY DEF Crash
  <1>2. \A c \in Calls : ~InFlight(c)' /\ (Waits(call'[c]) => Waits(call[c]))
    BY <1>1 DEF InFlight, Waits, New, Over
  <1>3. Unborn' = {NewBook[e] : e \in {x \in Calls : Waits(call'[x])}}
    BY DEF Unborn, Waits, New
  <1>4. PICK V : V = Unborn' /\ V \subseteq Unborn
    BY <1>2, <1>3 DEF Unborn
  <1>5. CallsOK'
    BY <1>1, <1>2 DEF CallsOK
  <1>6. crashes' \in 0..MaxCrashes
    BY <1>1, BoundsAssumption DEF Inv
  <1> QED BY <1>1, <1>4, <1>5, <1>6 DEF Inv, DbOK, FileOK

LEMMA InitInv == Init => Inv
  <1> SUFFICES ASSUME Init PROVE Inv
    OBVIOUS
  <1>1. /\ db = InitDb /\ tasks = {} /\ faults = 0 /\ crashes = 0
        /\ DOMAIN call = Calls /\ \A c \in Calls : call[c] = New
    BY DEF Init
  <1>2. CallsOK
    BY <1>1 DEF CallsOK, InFlight
  <1>3. DbOK(db)
    BY <1>1, LibraryDbAssumption DEF DbOK, Sound
  <1>4. \A f \in DOMAIN db.format : FileOK(f) /\ f[1] \notin Unborn
    BY <1>1, FilesAssumption, NewBooksAssumption DEF FileOK, Unborn
  <1>5. \A b \in DOMAIN db.book : b \notin Unborn
    BY <1>1, NewBooksAssumption DEF Unborn
  <1> QED BY <1>1, <1>2, <1>3, <1>4, <1>5, BoundsAssumption DEF Inv

LEMMA InvStep == Inv /\ [Next]_vars => Inv'
  <1> SUFFICES ASSUME Inv, [Next]_vars PROVE Inv'
    OBVIOUS
  <1>1. CASE Request
    BY <1>1, RequestMoves, MovesKeepInv DEF Request
  <1>2. CASE CallStep
    BY <1>2, CallStepMoves, MovesKeepInv DEF CallStep
  <1>3. CASE TaskStep
    BY <1>3, TaskStepKeepsInv
  <1>4. CASE Crash
    BY <1>4, CrashKeepsInv
  <1>5. CASE Rest \/ vars' = vars
    <2>1. vars' = vars
      BY <1>5 DEF Rest
    <2>2. UNCHANGED <<db, files, index, tasks, call, faults, crashes>>
      BY <2>1 DEF vars
    <2> QED BY <2>2 DEF Inv, CallsOK, InFlight, Unborn, FileOK
  <1> QED BY <1>1, <1>2, <1>3, <1>4, <1>5 DEF Next

LEMMA Invariance == Spec => []Inv
  <1> QED BY InitInv, InvStep, PTL DEF Spec

\* Whatever requests overlap, whatever fails and whenever the process ends,
\* every row refers to rows that are there: no merge, deletion or late write
\* of a handler leaves one behind.
THEOREM TypeCorrect == Spec => []TypeOK
  <1>1. Inv => TypeOK
    BY DEF Inv, DbOK, Sound, FileOK, TypeOK
  <1> QED BY <1>1, Invariance, PTL

\* A book has one file of a format, of however many books they were merged.
THEOREM OneFileCorrect == Spec => []OneFilePerFormat
  <1>1. Inv => OneFilePerFormat
    BY DEF Inv, DbOK, Sound, OneFilePerFormat
  <1> QED BY <1>1, Invariance, PTL

\* A reading position is on a format of the book it is for, also when the book
\* was merged between the handler's check and its write.
THEOREM ProgressCorrect == Spec => []ProgressIsOfItsBook
  <1>1. Inv => ProgressIsOfItsBook
    BY DEF Inv, DbOK, ProgressIsOfItsBook
  <1> QED BY <1>1, Invariance, PTL

-----------------------------------------------------------------------------
(* Files.                                                                    *)

LEMMA UploadStepSpares ==
    ASSUME Inv, NEW c \in Calls, UploadStep(c), ~RemoveUpload(c)
    PROVE  Spares
  <1>1. CASE RemoveCover(c, "upload")
    BY <1>1, FilesAreNoPictures DEF RemoveCover, Spares, Has
  <1>2. CASE StoreUpload(c) \/ StoreCover(c)
    BY <1>2 DEF StoreUpload, StoreCover, Spares
  <1>3. CASE InsertUpload(c) \/ ReadUpload(c) \/ SetCover(c, "upload", "finish") \/ FinishUpload(c)
    BY <1>3 DEF InsertUpload, ReadUpload, SetCover, FinishUpload, Spares
  <1> QED BY <1>1, <1>2, <1>3 DEF UploadStep

\* A step takes away no file whose row is there, but the clean-up of an upload
\* that takes the one it has stored itself.
LEMMA StepSpares ==
    ASSUME Inv, [Next]_vars
    PROVE  Spares \/ \E c \in Calls : RemoveUpload(c)
  <1>1. CASE Request
    <2>1. PICK c \in Calls : ReaderRequest(c) \/ BookRequest(c) \/ ListRequest(c)
      BY <1>1 DEF Request
    <2>2. CASE \E u, name, title, idents, withCover : CheckUpload(c, u, name, title, idents, withCover)
      BY <2>2 DEF CheckUpload, Reads, Idle, Spares
    <2>3. CASE \E u : StartImport(c, u)
      BY <2>3 DEF StartImport, Idle, Spares
    <2>4. CASE /\ ~\E u, name, title, idents, withCover : CheckUpload(c, u, name, title, idents, withCover)
               /\ ~\E u : StartImport(c, u)
      BY <2>1, <2>4, ReaderRequestIsPlain, BookRequestIsPlain, ListRequestIsPlain DEF Plain
    <2> QED BY <2>2, <2>3, <2>4
  <1>2. CASE CallStep
    <2>1. PICK c \in Calls : InFlight(c) /\ (ReaderStep(c) \/ BookStep(c) \/ ListStep(c) \/ StatementFails(c))
      BY <1>2 DEF CallStep
    <2>2. CASE ReaderStep(c)
      BY <2>1, <2>2, ReaderStepIsPlain DEF Plain
    <2>3. CASE BookStep(c)
      BY <2>1, <2>3, UploadStepSpares, EditStepIsPlain, MetadataStepIsPlain, DeleteStepIsPlain, MergeStepIsPlain DEF BookStep, Plain
    <2>4. CASE ListStep(c) /\ ~ImportStep(c)
      BY <2>1, <2>4, ListStepIsPlain DEF Plain
    <2>5. CASE ImportStep(c)
      <3>1. files' = files
        BY <2>5, Zenon DEF ImportStep, ImportRunning, MatchRow, ReadRowState, WriteRowState, RateRow, FindShelf, NewShelf, ReadRowOrder,
                    ShelveRow, LogRow, CompleteImport, FailImport, ImportStatementFails, Idle, Reads
      <3> QED BY <3>1, Zenon DEF Spares
    <2>6. CASE StatementFails(c)
      BY <2>6 DEF StatementFails, Spares
    <2> QED BY <2>1, <2>2, <2>3, <2>4, <2>5, <2>6
  <1>3. CASE TaskStep
    BY <1>3, TaskStepKeeps DEF Spares
  <1>4. CASE Crash
    BY <1>4 DEF Crash, Spares
  <1>5. CASE Rest \/ vars' = vars
    BY <1>5 DEF Rest, vars, Spares
  <1> QED BY <1>1, <1>2, <1>3, <1>4, <1>5 DEF Next

\* A file goes only after its row: no deletion, no merge and no clean-up takes
\* away the file of a format that is there.
THEOREM FilesCorrect == Spec => FilesOutliveRows
  <1>1. Inv /\ [Next]_vars => [\A f \in files \ files' : f \in DOMAIN db'.format => \E c \in Calls : RemoveUpload(c)]_vars
    BY StepSpares DEF Spares, Has
  <1> QED BY <1>1, Invariance, PTL DEF Spec, FilesOutliveRows

-----------------------------------------------------------------------------
(* The search backend.                                                       *)

\* An upload that is going to have its book indexed
Publishes(c, b) == call[c].op = "upload" /\ call[c].book = b /\ call[c].at \in {"read", "cover", "setcover", "finish"}

\* A book is known to the search backend, or a task or an upload will tell it.
Reached(b) ==
    \/ Has(index, b)
    \/ \E t \in tasks : t.kind = "index" /\ t.book = b
    \/ \E c \in Calls : Publishes(c, b)

Found == faults = 0 /\ crashes = 0 => \A b \in DOMAIN db.book : Reached(b)

LEMMA FoundStays ==
    ASSUME Inv, Found, NEW c \in Calls, Others(c), faults' \in faults..MaxFaults, crashes' = crashes,
           index' = index, tasks \subseteq tasks',
           \A b \in DOMAIN db'.book : Has(db.book, b) \/ Publishes(c, b)',
           \A b \in DOMAIN db'.book : faults' = 0 /\ Publishes(c, b) => Reached(b)'
    PROVE  Found'
  <1>1. SUFFICES ASSUME faults' = 0, crashes' = 0, NEW b \in DOMAIN db'.book PROVE Reached(b)'
    BY DEF Found
  <1>2. CASE Publishes(c, b)' \/ Publishes(c, b)
    BY <1>1, <1>2 DEF Reached
  <1>3. CASE ~Publishes(c, b)' /\ ~Publishes(c, b)
    <2>1. Has(db.book, b) /\ faults = 0 /\ crashes = 0
      BY <1>1, <1>3 DEF Inv
    <2>2. Reached(b)
      BY <2>1 DEF Found, Has
    <2>3. CASE Has(index, b) \/ \E t \in tasks : t.kind = "index" /\ t.book = b
      BY <2>3 DEF Reached, Has
    <2>4. CASE \E e \in Calls : Publishes(e, b)
      <3>1. PICK e \in Calls : Publishes(e, b) /\ e # c
        BY <1>3, <2>4
      <3>2. Publishes(e, b)'
        BY <3>1 DEF Others, Publishes
      <3> QED BY <3>2 DEF Reached
    <2> QED BY <2>2, <2>3, <2>4 DEF Reached
  <1> QED BY <1>2, <1>3

LEMMA PlainStepFinds ==
    ASSUME Inv, Found, NEW c \in Calls, Moves(c, {}), call[c].op # "upload", index' = index, tasks \subseteq tasks'
    PROVE  Found'
  BY FoundStays DEF Moves, Evolves, Publishes

\* A step that may have failed, and then has nothing to show
LEMMA FailureFinds ==
    ASSUME Inv, faults' = faults + 1 \/ crashes' = crashes + 1
    PROVE  Found'
  BY DEF Inv, Found

LEMMA UploadStepFinds ==
    ASSUME Inv, Found, NEW c \in Calls, InFlight(c), UploadStep(c)
    PROVE  Found'
  <1> DEFINE r == call[c]
  <1>0. DbOK(db) /\ Shape(c, r) /\ faults \in 0..MaxFaults /\ DOMAIN call = Calls
    BY DEF Inv, CallsOK
  <1>1. SUFFICES ASSUME ~Fault PROVE Found'
    BY FailureFinds DEF Fault
  \* A step at which the upload goes on or ends
  <1>a. ASSUME NEW s, call' = [call EXCEPT ![c] = s], faults' = faults, crashes' = crashes, index' = index, tasks \subseteq tasks',
               \A b \in DOMAIN db'.book : Has(db.book, b) \/ Publishes(c, b)',
               \A b \in DOMAIN db'.book : Publishes(c, b) => Reached(b)'
        PROVE  Found'
    <2>1. Others(c) /\ faults' \in faults..MaxFaults
      BY <1>0, <1>a DEF Others
    <2> QED BY <1>a, <2>1, FoundStays
  <1>2. CASE StoreUpload(c)
    <2>1. r.op = "upload" /\ r.at = "put" /\ db' = db
      BY <1>2 DEF StoreUpload, At
    <2>2. \A b : ~Publishes(c, b)
      BY <2>1 DEF Publishes
    <2> QED BY <1>2, <2>1, <2>2, <1>a DEF StoreUpload, Goto, Has
  <1>3. CASE InsertUpload(c)
    <2> DEFINE s == [r EXCEPT !.at = "read"]
    <2>1. r.op = "upload" /\ r.at = "insert" /\ index' = index /\ tasks' = tasks /\ crashes' = crashes
      BY <1>3 DEF InsertUpload, At
    <2>2. PICK row : db' = InsertBook(db, r.book, Name(r.file), row, r.idents) /\ faults' = faults /\ call' = [call EXCEPT ![c] = s]
      BY <1>1, <1>3 DEF InsertUpload, Goto
    <2>3. s.op = "upload" /\ s.at = "read" /\ s.book = r.book
      BY <1>0, <2>1 DEF Shape
    <2> HIDE DEF s
    <2>4. DOMAIN db'.book = DOMAIN db.book \cup {r.book}
      BY <1>0, <2>2 DEF InsertBook, Put, DbOK, Sound, Schema
    <2>5. call'[c] = s
      BY <1>0, <2>2
    <2>6. \A b : b = r.book => Publishes(c, b)'
      BY <2>3, <2>5 DEF Publishes
    <2>7. \A b : ~Publishes(c, b)
      BY <2>1 DEF Publishes
    <2>8. \A b \in DOMAIN db'.book : Has(db.book, b) \/ Publishes(c, b)'
      BY <2>4, <2>6 DEF Has
    <2> QED BY <1>a, <2>1, <2>2, <2>7, <2>8
  <1>4. CASE ReadUpload(c)
    <2>1. r.op = "upload" /\ r.at = "read" /\ db' = db /\ index' = index /\ tasks' = tasks /\ crashes' = crashes /\ faults' = faults
      BY <1>1, <1>4 DEF ReadUpload, At
    <2>2. PICK stage : /\ call' = [call EXCEPT ![c] = [r EXCEPT !.at = stage]]
                       /\ Has(db.book, r.book) => stage \in {"cover", "finish"}
      BY <1>1, <1>4 DEF ReadUpload, Goto
    <2> DEFINE s == [r EXCEPT !.at = stage]
    <2>3. s.op = "upload" /\ s.at = stage /\ s.book = r.book /\ call'[c] = s
      BY <1>0, <2>1, <2>2 DEF Shape
    <2> HIDE DEF s
    <2>4. \A b \in DOMAIN db'.book : Publishes(c, b) => Reached(b)'
      BY <2>1, <2>2, <2>3 DEF Publishes, Reached, Has
    <2> QED BY <1>a, <2>1, <2>2, <2>4 DEF Has
  <1>5. CASE RemoveUpload(c)
    <2>1. r.op = "upload" /\ r.at = "unput"
      BY <1>5 DEF RemoveUpload, At
    <2>2. \A b : ~Publishes(c, b)
      BY <2>1 DEF Publishes
    <2> QED BY <1>1, <1>5, <2>2, <1>a DEF RemoveUpload, Answer, Has
  <1>6. CASE StoreCover(c)
    <2> DEFINE i == r.stored + 1
               stage == IF i = Len(CoverFiles) THEN "setcover" ELSE r.at
               s == [r EXCEPT !.stored = i, !.at = stage]
    <2>1. r.op = "upload" /\ r.at = "cover" /\ db' = db /\ index' = index /\ tasks' = tasks /\ crashes' = crashes /\ faults' = faults
      BY <1>6 DEF StoreCover, At
    <2>2. call' = [call EXCEPT ![c] = s]
      BY <1>6 DEF StoreCover
    <2>3. stage \in {"setcover", "cover"}
      BY <2>1
    <2> HIDE DEF stage
    <2>4. s.op = "upload" /\ s.at = stage /\ s.book = r.book
      BY <1>0, <2>1 DEF Shape
    <2> HIDE DEF s
    <2>5. call'[c] = s
      BY <1>0, <2>2
    <2>6. \A b \in DOMAIN db'.book : Publishes(c, b) => Reached(b)'
      BY <2>3, <2>4, <2>5 DEF Publishes, Reached
    <2> QED BY <1>a, <2>1, <2>2, <2>6 DEF Has
  <1>7. CASE SetCover(c, "upload", "finish")
    <2>1. r.op = "upload" /\ r.at = "setcover" /\ index' = index /\ tasks' = tasks /\ crashes' = crashes /\ faults' = faults
      BY <1>1, <1>7 DEF SetCover, At
    <2> DEFINE s == [r EXCEPT !.at = "finish"]
    <2>2. call' = [call EXCEPT ![c] = s]
      BY <1>1, <1>7 DEF SetCover, Goto
    <2>3. s.op = "upload" /\ s.at = "finish" /\ s.book = r.book
      BY <1>0, <2>1 DEF Shape
    <2> HIDE DEF s
    <2>4. call'[c] = s
      BY <1>0, <2>2
    <2>5. \A b \in DOMAIN db'.book : Publishes(c, b) => Reached(b)'
      BY <2>3, <2>4 DEF Publishes, Reached
    <2>6. \A b \in DOMAIN db'.book : Has(db.book, b)
      <3>1. Keeps(db, db')
        BY <1>0, <1>7, CoverKeeps, ReadsKeep DEF SetCover, SetCoverPath, Has
      <3> QED BY <3>1 DEF Keeps, Steady, Has
    <2> QED BY <1>a, <2>1, <2>2, <2>5, <2>6
  <1>8. CASE RemoveCover(c, "upload")
    <2>1. r.op = "upload" /\ r.at = "uncover"
      BY <1>8 DEF RemoveCover, At
    <2>2. \A b : ~Publishes(c, b)
      BY <2>1 DEF Publishes
    <2> QED BY <1>8, <2>2, <1>a DEF RemoveCover, Answer, Has
  <1>9. CASE FinishUpload(c)
    <2>1. r.op = "upload" /\ db' = db /\ index' = index /\ crashes' = crashes /\ faults' = faults /\ call' = [call EXCEPT ![c] = Over]
      BY <1>9 DEF FinishUpload, At, Answer
    <2>2. PICK title : tasks' = tasks \cup {IndexTask(c, r.book, title), ChunkTask(c, r.book)}
      BY <1>9 DEF FinishUpload, Spawn
    <2>3. \A b : Publishes(c, b) => Reached(b)'
      <3>1. IndexTask(c, r.book, title) \in tasks'
        BY <2>2
      <3>2. IndexTask(c, r.book, title).kind = "index" /\ IndexTask(c, r.book, title).book = r.book
        BY DEF IndexTask
      <3> QED BY <3>1, <3>2 DEF Publishes, Reached
    <2> QED BY <1>a, <2>1, <2>2, <2>3 DEF Has
  <1> QED BY <1>2, <1>3, <1>4, <1>5, <1>6, <1>7, <1>8, <1>9 DEF UploadStep

LEMMA TaskStepFinds ==
    ASSUME Inv, Found, TaskStep
    PROVE  Found'
  <1>0. faults \in 0..MaxFaults
    BY DEF Inv
  <1>1. SUFFICES ASSUME ~Fault PROVE Found'
    BY FailureFinds DEF Fault
  <1>2. PICK t \in tasks : RunIndexTask(t) \/ RunRemovalTask(t) \/ RunChunkTask(t) \/ RunHistoryTask(t)
    BY DEF TaskStep
  <1>3. /\ tasks' = tasks \ {t} /\ call' = call /\ faults' = faults /\ crashes' = crashes
        /\ \A b \in DOMAIN db'.book : Has(db.book, b)
    BY <1>1, <1>2, TaskStepKeeps DEF RunIndexTask, RunRemovalTask, RunChunkTask, RunHistoryTask, Keeps, Steady, Has
  <1>4. \A b \in DOMAIN db'.book :
            /\ Has(index, b) => Has(index', b)
            /\ t.kind = "index" /\ t.book = b => Has(index', b)
    <2>1. CASE RunIndexTask(t)
      BY <1>1, <2>1 DEF RunIndexTask, Put, Has
    <2>2. CASE RunRemovalTask(t)
      <3>1. t.kind = "removal" /\ index' = Drop(index, {t.book})
        BY <1>1, <2>2 DEF RunRemovalTask
      <3>2. \A b \in DOMAIN db'.book : b # t.book
        BY <1>3, <3>1 DEF Inv
      <3> QED BY <3>1, <3>2 DEF Drop, Restrict, Has
    <2>3. CASE RunChunkTask(t) \/ RunHistoryTask(t)
      BY <2>3 DEF RunChunkTask, RunHistoryTask
    <2> QED BY <1>2, <2>1, <2>2, <2>3
  <1>5. SUFFICES ASSUME faults = 0, crashes = 0, NEW b \in DOMAIN db'.book PROVE Reached(b)'
    BY <1>3 DEF Found
  <1>6. Reached(b)
    BY <1>3, <1>5 DEF Found, Has
  <1>7. CASE Has(index, b) \/ \E x \in tasks : x.kind = "index" /\ x.book = b
    BY <1>3, <1>4, <1>7 DEF Reached
  <1>8. CASE \E c \in Calls : Publishes(c, b)
    BY <1>3, <1>8 DEF Reached, Publishes
  <1> QED BY <1>6, <1>7, <1>8 DEF Reached

LEMMA StepFinds ==
    ASSUME Inv, Found, [Next]_vars
    PROVE  Found'
  <1>1. CASE Request
    <2>1. PICK c \in Calls : Free(c) /\ (ReaderRequest(c) \/ BookRequest(c) \/ ListRequest(c))
      BY <1>1 DEF Request
    <2>2. call[c].op # "upload"
      BY <2>1 DEF Free, New
    <2>3. CASE \E u \in Users, name \in FormatsUploaded, title \in Titles, idents \in IdentSets, withCover \in BOOLEAN :
                   CheckUpload(c, u, name, title, idents, withCover)
      <3>1. Moves(c, {})
        BY <2>3, CheckUploadMoves
      <3>2. index' = index /\ tasks' = tasks
        BY <2>3 DEF CheckUpload, Reads, Idle
      <3> QED BY <2>2, <3>1, <3>2, PlainStepFinds
    <2>4. CASE \E u \in Users : StartImport(c, u)
      <3>1. Moves(c, {})
        BY <2>4, StartImportMoves
      <3>2. index' = index /\ tasks' = tasks
        BY <2>4 DEF StartImport, Idle
      <3> QED BY <2>2, <3>1, <3>2, PlainStepFinds
    <2>5. CASE Plain(c)
      BY <2>2, <2>5, PlainStepFinds DEF Plain
    <2> QED BY <2>1, <2>3, <2>4, <2>5, ReaderRequestIsPlain, BookRequestIsPlain, ListRequestIsPlain
  <1>2. CASE CallStep
    <2>1. PICK c \in Calls : InFlight(c) /\ (ReaderStep(c) \/ BookStep(c) \/ ListStep(c) \/ StatementFails(c))
      BY <1>2 DEF CallStep
    <2>2. CASE UploadStep(c)
      BY <2>1, <2>2, UploadStepFinds
    <2>3. CASE Plain(c)
      BY <2>3, PlainStepFinds DEF Plain
    <2>4. CASE ImportStep(c)
      <3>1. Moves(c, {}) /\ call[c].op = "import"
        BY <2>1, <2>4, ImportStepMoves, Zenon
      <3>2. index' = index /\ tasks' = tasks
        BY <2>4, Zenon DEF ImportStep, ImportRunning, MatchRow, ReadRowState, WriteRowState, RateRow, FindShelf, NewShelf, ReadRowOrder,
                    ShelveRow, LogRow, CompleteImport, FailImport, ImportStatementFails, Idle, Reads
      <3> QED BY <3>1, <3>2, PlainStepFinds
    <2>5. CASE StatementFails(c)
      BY <2>5, FailureFinds DEF StatementFails, Fault
    <2> QED BY <2>1, <2>2, <2>3, <2>4, <2>5, ReaderStepIsPlain, EditStepIsPlain, MetadataStepIsPlain, DeleteStepIsPlain,
               MergeStepIsPlain, ListStepIsPlain DEF BookStep
  <1>3. CASE TaskStep
    BY <1>3, TaskStepFinds
  <1>4. CASE Crash
    BY <1>4, FailureFinds DEF Crash
  <1>5. CASE Rest \/ vars' = vars
    <2>1. vars' = vars
      BY <1>5 DEF Rest
    <2>2. UNCHANGED <<db, files, index, tasks, call, faults, crashes>>
      BY <2>1 DEF vars
    <2> QED BY <2>2 DEF Found, Reached, Publishes
  <1> QED BY <1>1, <1>2, <1>3, <1>4, <1>5 DEF Next

\* When nothing failed and nothing is under way, the search backend knows every
\* book: uploads, merges and removals that overlapped included.
THEOREM BooksFound == Spec => []BooksAreFound
  <1>1. Init => Found
    BY DEF Init, Found, Reached, Has
  <1>2. Inv /\ Found /\ [Next]_vars => Found'
    BY StepFinds
  <1>3. Found => BooksAreFound
    <2> SUFFICES ASSUME Found, Quiet, faults = 0, crashes = 0, NEW b \in DOMAIN db.book
                 PROVE  b \in DOMAIN index
      BY DEF BooksAreFound
    <2>1. Reached(b)
      BY DEF Found
    <2>2. \A c \in Calls : ~Publishes(c, b)
      BY DEF Quiet, InFlight, Publishes, New, Over
    <2> QED BY <2>1, <2>2 DEF Reached, Quiet, Has
  <1> QED BY <1>1, <1>2, <1>3, Invariance, PTL DEF Spec

-----------------------------------------------------------------------------
(* What imports have counted.                                                *)

LogOK(log) ==
    /\ log.matched \in Nat /\ log.unmatched \in Nat
    /\ log.matched + log.unmatched <= Len(ImportRows)
    /\ log.status = "complete" => log.matched + log.unmatched = Len(ImportRows)

\* The rows that are left, and those that an import has counted, are all rows;
\* the row it is about to log it has counted and has still.
Counts(d, c, r) ==
    /\ DOMAIN r = {"op", "at", "user", "rows", "shelves", "book", "state", "shelf", "order", "matched", "unmatched"}
    /\ Has(d.imports, c) /\ DOMAIN d.imports[c] = {"status", "matched", "unmatched"}
    /\ r.rows \in Seq(Range(ImportRows)) /\ r.matched \in Nat /\ r.unmatched \in Nat
    /\ r.at # "failed" => Len(r.rows) + r.matched + r.unmatched = Len(ImportRows) + (IF r.at = "log" THEN 1 ELSE 0)
    /\ r.at = "start" => r.matched = 0 /\ r.unmatched = 0
    /\ r.at \notin {"start", "complete", "failed"} => r.rows # <<>>
    /\ r.at = "complete" => r.rows = <<>> /\ d.imports[c].matched = r.matched /\ d.imports[c].unmatched = r.unmatched

ImportsOK ==
    /\ \A i \in DOMAIN db.imports : LogOK(db.imports[i])
    /\ \A c \in Calls : call[c].op = "import" => Counts(db, c, call[c])

\* A step of any other request
LEMMA OthersKeepImports ==
    ASSUME ImportsOK, NEW c \in Calls, Others(c), call'[c].op # "import", db'.imports = db.imports
    PROVE  ImportsOK'
  BY DEF ImportsOK, Others, Counts, LogOK, Has

LEMMA UploadStepKeepsImports ==
    ASSUME Inv, ImportsOK, NEW c \in Calls, InFlight(c), UploadStep(c)
    PROVE  ImportsOK'
  <1>0. DOMAIN call = Calls /\ "op" \in DOMAIN call[c]
    BY DEF Inv, CallsOK, Shape
  <1>1. Others(c) /\ (call'[c] = Over \/ call'[c].op = "upload")
    <2>1. CASE StoreUpload(c) \/ InsertUpload(c) \/ ReadUpload(c) \/ SetCover(c, "upload", "finish")
      <3>1. call[c].op = "upload" /\ \E stage : Goto(c, stage)
        BY <2>1 DEF StoreUpload, InsertUpload, ReadUpload, SetCover, At
      <3> QED BY <1>0, <3>1 DEF Goto, Others
    <2>2. CASE RemoveUpload(c) \/ RemoveCover(c, "upload") \/ FinishUpload(c)
      BY <1>0, <2>2 DEF RemoveUpload, RemoveCover, FinishUpload, Answer, Others
    <2>3. CASE StoreCover(c)
      BY <1>0, <2>3 DEF StoreCover, At, Others
    <2> QED BY <2>1, <2>2, <2>3 DEF UploadStep
  <1>2. db'.imports = db.imports
    BY DEF UploadStep, StoreUpload, InsertUpload, InsertBook, ReadUpload, RemoveUpload, StoreCover, SetCover, SetCoverPath,
           RemoveCover, FinishUpload, Inv, DbOK, Sound, Schema
  <1> QED BY <1>1, <1>2, OthersKeepImports DEF Over

LEMMA StartImportCounts ==
    ASSUME Inv, ImportsOK, NEW c \in Calls, NEW u, StartImport(c, u)
    PROVE  ImportsOK'
  <1> DEFINE r == call'[c]
             log == [status |-> "pending", matched |-> 0, unmatched |-> 0]
  <1>1. /\ Others(c) /\ db'.imports = Put(db.imports, c, log)
        /\ r = [op |-> "import", at |-> "start", user |-> u, rows |-> ImportRows, shelves |-> <<>>,
                book |-> NoValue, state |-> NoValue, shelf |-> NoValue, order |-> 0, matched |-> 0, unmatched |-> 0]
    BY DEF StartImport, Begin, Others, Inv, CallsOK, DbOK, Sound, Schema
  <1>2. Counts(db', c, r)
    BY <1>1, ImportsAssumption DEF Counts, Put, Has
  <1>3. LogOK(log)
    BY ImportsAssumption DEF LogOK
  <1>4. \A i \in DOMAIN db'.imports : LogOK(db'.imports[i])
    BY <1>1, <1>3 DEF ImportsOK, Put
  <1>5. ASSUME NEW e \in Calls, e # c, call[e].op = "import"
        PROVE  Counts(db', e, call[e])
    BY <1>1, <1>5 DEF ImportsOK, Counts, Put, Has
  <1> HIDE DEF r
  <1>6. \A e \in Calls : call'[e].op = "import" => Counts(db', e, call'[e])
    BY <1>1, <1>2, <1>5 DEF Others, r
  <1> QED BY <1>4, <1>6 DEF ImportsOK, Counts, LogOK, Has

\* A step within a row, or one that gives the import up, leaves the counts.
LEMMA ImportRowCounts ==
    ASSUME Inv, ImportsOK, NEW c \in Calls, db'.imports = db.imports, NEW s, call' = [call EXCEPT ![c] = s],
           s = Over \/ Counts(db, c, s)
    PROVE  ImportsOK'
  <1>1. Others(c) /\ call'[c] = s
    BY DEF Others, Inv, CallsOK
  <1>2. Over.op # "import"
    BY DEF Over
  <1> QED BY <1>1, <1>2 DEF ImportsOK, Others, Counts, LogOK, Has

\* A step that writes the log
LEMMA ImportLogCounts ==
    ASSUME Inv, ImportsOK, NEW c \in Calls, NEW status, NEW matched, NEW unmatched, db' = UpdateLog(db, c, status, matched, unmatched),
           Has(db.imports, c), LogOK([status |-> status, matched |-> matched, unmatched |-> unmatched]),
           NEW s, call' = [call EXCEPT ![c] = s], s = Over \/ Counts(db', c, s)
    PROVE  ImportsOK'
  <1> DEFINE log == [status |-> status, matched |-> matched, unmatched |-> unmatched]
  <1>1. Others(c) /\ call'[c] = s /\ db'.imports = [db.imports EXCEPT ![c] = log]
    BY DEF Others, Inv, CallsOK, UpdateLog, DbOK, Sound, Schema
  <1>2. Over.op # "import"
    BY DEF Over
  <1>3. \A i \in DOMAIN db'.imports : LogOK(db'.imports[i])
    BY <1>1 DEF ImportsOK, Has
  <1>4. ASSUME NEW e \in Calls, e # c, call[e].op = "import"
        PROVE  Counts(db', e, call[e])
    BY <1>1, <1>4 DEF ImportsOK, Counts, Has
  <1> HIDE DEF log
  <1> QED BY <1>1, <1>2, <1>3, <1>4 DEF ImportsOK, Others, Counts, LogOK, Has

\* Counting one more row on one side of a sum.
LEMMA OneMore ==
    ASSUME NEW a \in Nat, NEW b \in Nat, NEW k \in Nat, NEW n \in Nat, a + b + k = n
    PROVE  a + (b + 1) + k = n + 1
OBVIOUS

LEMMA ImportStepCounts ==
    ASSUME Inv, ImportsOK, NEW c \in Calls, InFlight(c), ImportStep(c)
    PROVE  ImportsOK'
  <1> DEFINE r == call[c]
  <1>0. /\ r.op = "import" /\ Counts(db, c, r) /\ DOMAIN db.imports[c] = {"status", "matched", "unmatched"}
        /\ LogOK(db.imports[c]) /\ Has(db.imports, c)
    <2>1. r.op = "import"
      BY ImportStepMoves
    <2> QED BY <2>1 DEF ImportsOK, Counts, Has
  \* A step of which the log is not told, to another stage of the row or to failure
  <1>a. ASSUME db'.imports = db.imports, NEW stage, Goto(c, stage),
               stage = "failed" \/ ({r.at, stage} \cap {"start", "log", "complete", "failed"} = {})
        PROVE  ImportsOK'
    <2> DEFINE s == [r EXCEPT !.at = stage]
    <2>1. Counts(db, c, s)
      BY <1>0, <1>a DEF Counts
    <2>2. call' = [call EXCEPT ![c] = s]
      BY <1>a DEF Goto
    <2> HIDE DEF s
    <2> QED BY <1>a, <2>1, <2>2, ImportRowCounts
  <1>1. CASE ImportRunning(c)
    <2> DEFINE s == [r EXCEPT !.at = AfterRow(r.rows)]
    <2>1. r.at = "start" /\ db' = UpdateLog(db, c, "running", 0, 0) /\ call' = [call EXCEPT ![c] = s]
      BY <1>1 DEF ImportRunning, At, Goto
    <2>2. LogOK([status |-> "running", matched |-> 0, unmatched |-> 0])
      BY ImportsAssumption DEF LogOK
    <2>3. /\ db'.imports[c].matched = 0 /\ db'.imports[c].unmatched = 0
          /\ DOMAIN db'.imports[c] = {"status", "matched", "unmatched"} /\ Has(db'.imports, c)
      BY <1>0, <2>1 DEF UpdateLog, Has, Inv, DbOK, Sound, Schema
    <2>4. Counts(db', c, s)
      BY <1>0, <2>1, <2>3 DEF Counts, AfterRow
    <2> HIDE DEF s
    <2> QED BY <1>0, <2>1, <2>2, <2>4, ImportLogCounts
  <1>2. CASE MatchRow(c)
    <2> DEFINE row == Head(r.rows)
    <2>1. r.at = "match" /\ db' = db
      BY <1>2, ZenonT(60) DEF MatchRow, At, Reads
    <2>2. PICK found :
              IF Cardinality(found) = 1
              THEN call' = [call EXCEPT ![c].book = CHOOSE b \in found : TRUE, ![c].shelves = row.shelves,
                                        ![c].at = IF row.read THEN "readstate" ELSE "rate"]
              ELSE call' = [call EXCEPT ![c].at = "log", ![c].unmatched = @ + 1]
      BY <1>2 DEF MatchRow
    <2> DEFINE b == CHOOSE b \in found : TRUE
               shelves == row.shelves
               stage == IF row.read THEN "readstate" ELSE "rate"
               s == [r EXCEPT !.book = b, !.shelves = shelves, !.at = stage]
               t == [r EXCEPT !.at = "log", !.unmatched = @ + 1]
    <2>3. call' = [call EXCEPT ![c] = s] \/ call' = [call EXCEPT ![c] = t]
      BY <2>2
    <2>4. stage \in {"readstate", "rate"}
      OBVIOUS
    <2> HIDE DEF b, shelves, stage
    <2>5. Counts(db, c, s)
      BY <1>0, <2>1, <2>4 DEF Counts
    <2>6. Counts(db, c, t)
      BY <1>0, <2>1 DEF Counts
    <2> HIDE DEF s, t
    <2> QED BY <2>1, <2>3, <2>5, <2>6, ImportRowCounts
  <1>3. CASE ReadRowState(c)
    <2> DEFINE state == [StateOf(r.user, r.book) EXCEPT !.read = TRUE]
               s == [r EXCEPT !.at = "writestate", !.state = state]
    <2>1. r.at = "readstate" /\ db' = db /\ call' = [call EXCEPT ![c] = s]
      BY <1>3 DEF ReadRowState, At, Reads
    <2> HIDE DEF state
    <2>2. Counts(db, c, s)
      BY <1>0, <2>1 DEF Counts
    <2> HIDE DEF s
    <2> QED BY <2>1, <2>2, ImportRowCounts
  <1>4. CASE WriteRowState(c)
    <2>1. r.at = "writestate" /\ db'.imports = db.imports
      BY <1>4 DEF WriteRowState, At, Inv, DbOK, Sound, Schema
    <2>2. Goto(c, "failed") \/ Goto(c, "rate")
      BY <1>4 DEF WriteRowState
    <2> QED BY <1>a, <2>1, <2>2
  <1>5. CASE RateRow(c)
    <2>1. r.at = "rate" /\ db'.imports = db.imports
      BY <1>5 DEF RateRow, At, Inv, DbOK, Sound, Schema
    <2>2. Goto(c, "failed") \/ Goto(c, "shelf")
      BY <1>5 DEF RateRow
    <2> QED BY <1>a, <2>1, <2>2
  <1>6. CASE FindShelf(c)
    <2>1. r.at = "shelf" /\ db' = db
      BY <1>6 DEF FindShelf, At, Reads
    <2>2. PICK id : \/ call' = [call EXCEPT ![c] = [r EXCEPT !.at = "log", !.matched = @ + 1]]
                    \/ call' = [call EXCEPT ![c] = [r EXCEPT !.at = "newshelf"]]
                    \/ call' = [call EXCEPT ![c] = [r EXCEPT !.at = "order", !.shelf = id]]
      BY <1>6 DEF FindShelf
    <2> DEFINE s == [r EXCEPT !.at = "log", !.matched = @ + 1]
               t == [r EXCEPT !.at = "newshelf"]
               v == [r EXCEPT !.at = "order", !.shelf = id]
    <2>3. call' = [call EXCEPT ![c] = s] \/ call' = [call EXCEPT ![c] = t] \/ call' = [call EXCEPT ![c] = v]
      BY <2>2
    <2>4. Counts(db, c, s)
      <3>1. r.matched \in Nat /\ r.unmatched \in Nat /\ r.rows \in Seq(Range(ImportRows)) /\ r.rows # <<>>
            /\ Len(r.rows) + r.matched + r.unmatched = Len(ImportRows) /\ Len(r.rows) \in Nat /\ Len(ImportRows) \in Nat
        BY <1>0, <2>1, ImportsAssumption DEF Counts
      <3>2. Len(r.rows) + (r.matched + 1) + r.unmatched = Len(ImportRows) + 1
        <4> DEFINE left == Len(r.rows)
                   met == r.matched
                   missed == r.unmatched
                   all == Len(ImportRows)
        <4>1. left \in Nat /\ met \in Nat /\ missed \in Nat /\ all \in Nat /\ left + met + missed = all
          BY <3>1
        <4> HIDE DEF left, met, missed, all
        <4>2. left + (met + 1) + missed = all + 1
          BY <4>1, OneMore
        <4> QED BY <4>2 DEF left, met, missed, all
      <3>3. /\ DOMAIN s = DOMAIN r /\ s.at = "log" /\ s.matched = r.matched + 1 /\ s.unmatched = r.unmatched /\ s.rows = r.rows
        BY <1>0 DEF Counts
      <3> HIDE DEF s, r
      <3> QED BY <1>0, <3>1, <3>2, <3>3 DEF Counts
    <2>5. Counts(db, c, t)
      BY <1>0, <2>1 DEF Counts
    <2>6. Counts(db, c, v)
      BY <1>0, <2>1 DEF Counts
    <2> HIDE DEF s, t, v
    <2> QED BY <2>1, <2>3, <2>4, <2>5, <2>6, ImportRowCounts
  <1>7. CASE NewShelf(c)
    <2>1. r.at = "newshelf"
      BY <1>7 DEF NewShelf, At
    <2>2. PICK id :
              IF NameTaken(db, r.user, Head(r.shelves), NoValue)
              THEN db' = db /\ Goto(c, "failed")
              ELSE /\ db' = InsertShelf(db, id, r.user, Head(r.shelves), FALSE)
                   /\ call' = [call EXCEPT ![c].at = "order", ![c].shelf = id]
      BY <1>7, ZenonT(60) DEF NewShelf
    <2>3. db'.imports = db.imports
      BY <2>2 DEF InsertShelf, Inv, DbOK, Sound, Schema
    <2> DEFINE s == [r EXCEPT !.at = "order", !.shelf = id]
    <2>4. Goto(c, "failed") \/ call' = [call EXCEPT ![c] = s]
      BY <2>2
    <2>5. Counts(db, c, s)
      BY <1>0, <2>1 DEF Counts
    <2> HIDE DEF s
    <2> QED BY <1>a, <2>3, <2>4, <2>5, ImportRowCounts
  <1>8. CASE ReadRowOrder(c)
    <2> DEFINE order == NextOrder(db, r.shelf)
               s == [r EXCEPT !.at = "shelve", !.order = order]
    <2>1. r.at = "order" /\ db' = db /\ call' = [call EXCEPT ![c] = s]
      BY <1>8 DEF ReadRowOrder, At, Reads
    <2> HIDE DEF order
    <2>2. Counts(db, c, s)
      BY <1>0, <2>1 DEF Counts
    <2> HIDE DEF s
    <2> QED BY <2>1, <2>2, ImportRowCounts
  <1>9. CASE ShelveRow(c)
    <2> DEFINE left == Tail(r.shelves)
               s == [r EXCEPT !.at = "shelf", !.shelves = left]
    <2>1. r.at = "shelve" /\ db'.imports = db.imports
      BY <1>9 DEF ShelveRow, At, InsertOnShelf, Inv, DbOK, Sound, Schema
    <2>2. call' = [call EXCEPT ![c] = s] \/ Goto(c, "failed")
      BY <1>9 DEF ShelveRow, Goto
    <2> HIDE DEF left
    <2>3. Counts(db, c, s)
      BY <1>0, <2>1 DEF Counts
    <2> HIDE DEF s
    <2> QED BY <1>a, <2>1, <2>2, <2>3, ImportRowCounts
  <1>10. CASE LogRow(c)
    <2> DEFINE left == Tail(r.rows)
               s == [r EXCEPT !.rows = left, !.at = AfterRow(left)]
    <2>1. r.at = "log" /\ db' = UpdateLog(db, c, "running", r.matched, r.unmatched) /\ call' = [call EXCEPT ![c] = s]
      BY <1>10 DEF LogRow, At
    <2>2. left \in Seq(Range(ImportRows)) /\ Len(left) = Len(r.rows) - 1 /\ Len(r.rows) \in Nat /\ Len(r.rows) >= 1
      BY <1>0, <2>1 DEF Counts
    <2>3. LogOK([status |-> "running", matched |-> r.matched, unmatched |-> r.unmatched])
      BY <1>0, <2>1, <2>2, ImportsAssumption DEF Counts, LogOK
    <2>4. /\ db'.imports[c].matched = r.matched /\ db'.imports[c].unmatched = r.unmatched
          /\ DOMAIN db'.imports[c] = {"status", "matched", "unmatched"} /\ Has(db'.imports, c)
      BY <1>0, <2>1 DEF UpdateLog, Has, Inv, DbOK, Sound, Schema
    <2> HIDE DEF left
    <2>5. Counts(db', c, s)
      BY <1>0, <2>1, <2>2, <2>4 DEF Counts, AfterRow
    <2> HIDE DEF s
    <2> QED BY <1>0, <2>1, <2>3, <2>5, ImportLogCounts
  <1>11. CASE CompleteImport(c)
    <2> DEFINE matched == db.imports[c].matched
               unmatched == db.imports[c].unmatched
    <2>1. r.at = "complete" /\ db' = UpdateLog(db, c, "complete", matched, unmatched) /\ call' = [call EXCEPT ![c] = Over]
      BY <1>11 DEF CompleteImport, At, Answer
    <2>2. LogOK([status |-> "complete", matched |-> matched, unmatched |-> unmatched])
      BY <1>0, <2>1 DEF Counts, LogOK
    <2> HIDE DEF matched, unmatched
    <2> QED BY <1>0, <2>1, <2>2, ImportLogCounts
  <1>12. CASE FailImport(c)
    <2> DEFINE matched == db.imports[c].matched
               unmatched == db.imports[c].unmatched
    <2>1. db' = UpdateLog(db, c, "failed", matched, unmatched) /\ call' = [call EXCEPT ![c] = Over]
      BY <1>12 DEF FailImport, Answer
    <2>2. LogOK([status |-> "failed", matched |-> matched, unmatched |-> unmatched])
      BY <1>0 DEF LogOK
    <2> HIDE DEF matched, unmatched
    <2> QED BY <1>0, <2>1, <2>2, ImportLogCounts
  <1>13. CASE ImportStatementFails(c)
    BY <1>13, <1>a DEF ImportStatementFails
  <1> QED BY <1>1, <1>2, <1>3, <1>4, <1>5, <1>6, <1>7, <1>8, <1>9, <1>10, <1>11, <1>12, <1>13 DEF ImportStep

LEMMA StepCounts ==
    ASSUME Inv, ImportsOK, [Next]_vars
    PROVE  ImportsOK'
  <1>a. ASSUME NEW c \in Calls, Plain(c)
        PROVE  ImportsOK'
    BY <1>a, OthersKeepImports DEF Plain, Moves
  <1>b. ASSUME db'.imports = db.imports, \A c \in Calls : call'[c] = call[c] \/ call'[c] = Over
        PROVE  ImportsOK'
    BY <1>b DEF ImportsOK, Counts, LogOK, Has, Over
  <1>1. CASE Request
    <2>1. PICK c \in Calls : Free(c) /\ (ReaderRequest(c) \/ BookRequest(c) \/ ListRequest(c))
      BY <1>1 DEF Request
    <2>2. CASE \E u \in Users, name \in FormatsUploaded, title \in Titles, idents \in IdentSets, withCover \in BOOLEAN :
                   CheckUpload(c, u, name, title, idents, withCover)
      <3>1. Others(c) /\ call'[c].op # "import" /\ db' = db
        BY <2>2 DEF CheckUpload, Begin, Reads, Others, Inv, CallsOK
      <3> QED BY <3>1, OthersKeepImports
    <2>3. CASE \E u \in Users : StartImport(c, u)
      BY <2>3, StartImportCounts
    <2> QED BY <2>1, <2>2, <2>3, <1>a, ReaderRequestIsPlain, BookRequestIsPlain, ListRequestIsPlain
  <1>2. CASE CallStep
    <2>1. PICK c \in Calls : InFlight(c) /\ (ReaderStep(c) \/ BookStep(c) \/ ListStep(c) \/ StatementFails(c))
      BY <1>2 DEF CallStep
    <2>2. CASE UploadStep(c)
      BY <2>1, <2>2, UploadStepKeepsImports
    <2>3. CASE ImportStep(c)
      BY <2>1, <2>3, ImportStepCounts
    <2>4. CASE StatementFails(c)
      <3>1. db' = db /\ \A e \in Calls : call'[e] = call[e] \/ call'[e] = Over
        BY <2>4 DEF StatementFails, Answer, Inv, CallsOK
      <3> QED BY <3>1, <1>b
    <2> QED BY <2>1, <2>2, <2>3, <2>4, <1>a, ReaderStepIsPlain, EditStepIsPlain, MetadataStepIsPlain, DeleteStepIsPlain,
               MergeStepIsPlain, ListStepIsPlain DEF BookStep
  <1>3. CASE TaskStep
    BY <1>3, <1>b, TaskStepKeeps DEF Keeps
  <1>4. CASE Crash
    BY <1>4, <1>b DEF Crash
  <1>5. CASE Rest \/ vars' = vars
    BY <1>5, <1>b DEF Rest, vars
  <1> QED BY <1>1, <1>2, <1>3, <1>4, <1>5 DEF Next

\* An import that says it is complete has counted every row of the history,
\* whatever failed in between and whatever other requests did to its books.
THEOREM ImportsCorrect == Spec => []ImportAddsUp
  <1>1. Init => ImportsOK
    BY ImportsAssumption DEF Init, ImportsOK, New
  <1>2. Inv /\ ImportsOK /\ [Next]_vars => ImportsOK'
    BY StepCounts
  <1>3. ImportsOK => ImportAddsUp
    BY DEF ImportsOK, LogOK, ImportAddsUp
  <1> QED BY <1>1, <1>2, <1>3, Invariance, PTL DEF Spec

-----------------------------------------------------------------------------
(* Confirmed tags.                                                           *)

\* A confirmed tag stays, as long as the book and the tag do.
TagsStay(d, e) ==
    \A k \in Confirmed(d) : k \in Confirmed(e) \/ ~Has(e.book, k[1]) \/ ~Has(e.tagname, k[2])

LEMMA SameTagsStay == ASSUME NEW d, NEW e, e.tag = d.tag PROVE TagsStay(d, e)
  BY DEF TagsStay, Confirmed

\* A deletion takes the tags of its book and no other.
LEMMA DeleteBookTags ==
    ASSUME NEW x, Schema(x), NEW d, DOMAIN d = DOMAIN x, NEW b
    PROVE  LET e == DeleteBookRow(d, b)
           IN  /\ \A k \in Confirmed(d) : k[1] # b => k \in Confirmed(e)
               /\ ~Has(e.book, b)
  <1> DEFINE f == DeleteFormats(d, FilesOf(d, b))
             e == DeleteBookRow(d, b)
  <1>1. DOMAIN f = DOMAIN d /\ f.tag = d.tag /\ f.book = d.book
    BY DEF DeleteFormats, Schema
  <1>2. e.tag = Drop(f.tag, KeysWith(f.tag, 1, b)) /\ e.book = Drop(f.book, {b})
    BY <1>1 DEF DeleteBookRow, Schema
  <1>3. DOMAIN e.tag = {k \in DOMAIN d.tag : k[1] # b} /\ \A k \in DOMAIN e.tag : e.tag[k] = d.tag[k]
    BY <1>1, <1>2 DEF Drop, Restrict, KeysWith
  <1>4. ~Has(e.book, b)
    BY <1>1, <1>2 DEF Drop, Restrict, Has
  <1> HIDE DEF e, f
  <1> QED BY <1>3, <1>4 DEF Confirmed, e

\* The merge of two books gives the tags of the duplicate to the primary: what
\* was confirmed on either is confirmed.
LEMMA MergeTagsConfirms ==
    ASSUME NEW d, "tag" \in DOMAIN d, NEW p, NEW q, p # q
    PROVE  LET e == MergeTags(d, p, q)
           IN  \A k \in Confirmed(d) : k = <<k[1], k[2]>> =>
                   (IF k[1] = q THEN <<p, k[2]>> ELSE k) \in Confirmed(e)
  <1> DEFINE confirmed(t) == \E b \in {p, q} : Has(d.tag, <<b, t>>) /\ d.tag[<<b, t>>]
             tags == {k[2] : k \in KeysWith(d.tag, 1, q)}
             new == [k \in {<<p, t>> : t \in tags} |-> confirmed(k[2])]
             rest == Drop(d.tag, KeysWith(d.tag, 1, q))
             rows == new ++ rest
             e == [d EXCEPT !.tag = rows]
  <1>1. e.tag = rows
    OBVIOUS
  <1>2. \A t \in tags : confirmed(t) => <<p, t>> \in Confirmed(e)
    <2>1. \A t \in tags : <<p, t>> \in DOMAIN new /\ new[<<p, t>>] = confirmed(t)
      OBVIOUS
    <2>2. \A k \in DOMAIN new : k \in DOMAIN rows /\ rows[k] = new[k]
      BY DEF ++
    <2> HIDE DEF new, rows, confirmed, tags
    <2> QED BY <1>1, <2>1, <2>2 DEF Confirmed
  <1>3. \A k \in DOMAIN d.tag : k[1] = q => k[2] \in tags
    BY DEF KeysWith
  <1>4. \A k \in DOMAIN d.tag : k[1] # q /\ ~(k[1] = p /\ k[2] \in tags) => k \in DOMAIN rows /\ rows[k] = d.tag[k]
    <2>1. \A k \in DOMAIN new : k[1] = p /\ k[2] \in tags
      OBVIOUS
    <2>2. \A k \in DOMAIN d.tag : k[1] # q => k \in DOMAIN rest /\ rest[k] = d.tag[k]
      BY DEF Drop, Restrict, KeysWith
    <2> HIDE DEF new, rest, tags
    <2> QED BY <2>1, <2>2 DEF ++
  <1>5. ASSUME NEW k \in Confirmed(d), k = <<k[1], k[2]>>
        PROVE  (IF k[1] = q THEN <<p, k[2]>> ELSE k) \in Confirmed(e)
    <2>1. k \in DOMAIN d.tag /\ d.tag[k]
      BY DEF Confirmed
    <2>2. CASE k[1] = q
      <3>1. k[2] \in tags /\ confirmed(k[2])
        BY <1>3, <1>5, <2>1, <2>2 DEF Has
      <3> HIDE DEF e, tags, confirmed
      <3> QED BY <1>2, <2>2, <3>1
    <2>3. CASE k[1] = p /\ k[2] \in tags
      <3>1. confirmed(k[2])
        BY <1>5, <2>1, <2>3 DEF Has
      <3> HIDE DEF e, tags, confirmed
      <3> QED BY <1>2, <1>5, <2>3, <3>1
    <2>4. CASE k[1] # q /\ ~(k[1] = p /\ k[2] \in tags)
      <3> HIDE DEF tags, rows, e
      <3>1. k \in DOMAIN e.tag /\ e.tag[k] = d.tag[k]
        BY <1>1, <1>4, <2>1, <2>4
      <3> QED BY <2>1, <2>4, <3>1 DEF Confirmed
    <2> QED BY <2>2, <2>3, <2>4
  <1> HIDE DEF e
  <1>6. MergeTags(d, p, q) = e
    BY DEF MergeTags, e
  <1> QED BY <1>5, <1>6

\* What merge_books leaves of confirmed tags
LEMMA MergeBooksTags ==
    ASSUME NEW d, DbOK(d), NEW p, NEW q, p # q
    PROVE  LET e == MergeBooks(d, p, q)
           IN  /\ \A k \in Confirmed(d) : (IF k[1] = q THEN <<p, k[2]>> ELSE k) \in Confirmed(e)
               /\ ~Has(e.book, q)
  <1> DEFINE formats == MoveFormats(d, {f \in FilesOf(d, q) : Name(f) \notin FormatNames(d, p)}, p)
             idents == MergeIdents(formats, p, q)
             authors == MergeAuthors(idents, p, q)
             links == MergeTags(authors, p, q)
             progress == MergeProgress(links, p, q)
             shelved == Reshelve(progress, q, p)
             readers == MergeStates(shelved, p, q)
             e == MergeBooks(d, p, q)
  <1>0. Schema(d)
    BY DEF DbOK, Sound
  <1>1. DOMAIN formats = DOMAIN d /\ formats.tag = d.tag
    BY <1>0 DEF MoveFormats, Schema
  <1> HIDE DEF formats
  <1>2. DOMAIN idents = DOMAIN d /\ idents.tag = d.tag
    BY <1>0, <1>1 DEF MergeIdents, Schema
  <1> HIDE DEF idents
  <1>3. DOMAIN authors = DOMAIN d /\ authors.tag = d.tag
    BY <1>0, <1>2 DEF MergeAuthors, Schema
  <1> HIDE DEF authors
  <1>4. DOMAIN links = DOMAIN d
    BY <1>3 DEF MergeTags
  <1>5. \A k \in Confirmed(d) : (IF k[1] = q THEN <<p, k[2]>> ELSE k) \in Confirmed(links)
    <2>1. "tag" \in DOMAIN authors /\ Confirmed(authors) = Confirmed(d)
      BY <1>0, <1>3 DEF Schema, Confirmed
    <2>2. \A k \in Confirmed(authors) : k = <<k[1], k[2]>> => (IF k[1] = q THEN <<p, k[2]>> ELSE k) \in Confirmed(links)
      BY <2>1, MergeTagsConfirms
    <2>3. \A k \in Confirmed(d) : k = <<k[1], k[2]>>
      BY DEF Confirmed, DbOK, Sound, References
    <2> HIDE DEF links
    <2> QED BY <2>1, <2>2, <2>3
  <1> HIDE DEF links
  <1>6. DOMAIN progress = DOMAIN d /\ progress.tag = links.tag
    BY <1>0, <1>4 DEF MergeProgress, Schema
  <1> HIDE DEF progress
  <1>7. DOMAIN shelved = DOMAIN d /\ shelved.tag = links.tag
    BY <1>0, <1>6 DEF Reshelve, Schema
  <1> HIDE DEF shelved
  <1>8. DOMAIN readers = DOMAIN d /\ readers.tag = links.tag
    BY <1>0, <1>7 DEF MergeStates, Schema
  <1>9. e = DeleteBookRow(readers, q)
    BY DEF MergeBooks, readers, shelved, progress, links, authors, idents, formats
  <1> HIDE DEF readers, e
  <1>10. (\A k \in Confirmed(readers) : k[1] # q => k \in Confirmed(e)) /\ ~Has(e.book, q)
    BY <1>0, <1>8, <1>9, DeleteBookTags
  <1>11. Confirmed(readers) = Confirmed(links)
    BY <1>8 DEF Confirmed
  <1>12. ASSUME NEW k \in Confirmed(d)
         PROVE  (IF k[1] = q THEN <<p, k[2]>> ELSE k) \in Confirmed(e)
    <2>1. CASE k[1] = q
      <3>1. <<p, k[2]>>[1] # q
        OBVIOUS
      <3> QED BY <1>5, <1>10, <1>11, <2>1, <3>1
    <2>2. CASE k[1] # q
      BY <1>5, <1>10, <1>11, <2>2
    <2> QED BY <2>1, <2>2
  <1> QED BY <1>10, <1>12 DEF e

LEMMA MergeExecTags ==
    ASSUME NEW d, DbOK(d), NEW s, NEW t, NEW strategy, NEW saw, NEW any
    PROVE  TagsStay(d, MergeExec(d, s, t, strategy, saw, any))
  <1> DEFINE e == ReplaceFormats(d, s, t, saw)
             notes == ReparentNotes(e, s, t)
             shelved == Reshelve(notes, s, t)
             rows == [k \in {<<u, t>> : u \in DOMAIN saw.source} |-> StrategyRow(strategy, saw, k[1], any)]
             x == [shelved EXCEPT !.progress = rows ++ @]
             m == MergeExec(d, s, t, strategy, saw, any)
  <1>0. Schema(d)
    BY DEF DbOK, Sound
  <1>1. DOMAIN e = DOMAIN d /\ e.tag = d.tag
    BY <1>0 DEF ReplaceFormats, DeleteFormats, MoveFormats, Schema
  <1> HIDE DEF e
  <1>2. DOMAIN notes = DOMAIN d /\ notes.tag = d.tag
    BY <1>0, <1>1 DEF ReparentNotes, Schema
  <1> HIDE DEF notes
  <1>3. DOMAIN shelved = DOMAIN d /\ shelved.tag = d.tag
    BY <1>0, <1>2 DEF Reshelve, Schema
  <1> HIDE DEF shelved, rows
  <1>4. DOMAIN x = DOMAIN d /\ x.tag = d.tag
    BY <1>0, <1>3 DEF Schema
  <1>5. m = DeleteBookRow(x, s)
    BY DEF MergeExec, rows, shelved, notes, e
  <1> HIDE DEF x, m
  <1>6. (\A k \in Confirmed(x) : k[1] # s => k \in Confirmed(m)) /\ ~Has(m.book, s)
    BY <1>0, <1>4, <1>5, DeleteBookTags
  <1>7. TagsStay(d, m)
    BY <1>4, <1>6 DEF Confirmed, TagsStay
  <1> QED BY <1>7 DEF m

\* Merging a tag into another confirms the other wherever it was confirmed.
LEMMA MergedTagsTags ==
    ASSUME NEW d, DbOK(d), NEW s, NEW t, s # t
    PROVE  LET e == MergedTags(d, s, t)
           IN  /\ \A k \in Confirmed(d) : (IF k[2] = s THEN <<k[1], t>> ELSE k) \in Confirmed(e)
               /\ ~Has(e.tagname, s)
  <1> DEFINE books == {k[1] : k \in KeysWith(d.tag, 2, s)}
             confirmed(b) == d.tag[<<b, s>>] \/ (Has(d.tag, <<b, t>>) /\ d.tag[<<b, t>>])
             new == [k \in {<<b, t>> : b \in books} |-> confirmed(k[1])]
             rows == new ++ d.tag
             x == [d EXCEPT !.tag = rows]
             e == MergedTags(d, s, t)
  <1>0. Schema(d) /\ \A k \in DOMAIN d.tag : k = <<k[1], k[2]>>
    BY DEF DbOK, Sound, References
  <1>1. e = DropTag(x, s)
    BY DEF MergedTags
  <1>2. \A k \in DOMAIN new : k[2] = t /\ k[1] \in books /\ k = <<k[1], t>> /\ new[k] = confirmed(k[1])
    OBVIOUS
  <1>3. \A b \in books : <<b, t>> \in DOMAIN new
    OBVIOUS
  <1>4. \A k \in DOMAIN d.tag : k[2] = s => k[1] \in books
    BY DEF KeysWith
  <1> HIDE DEF new, books, e
  <1>5. /\ DOMAIN rows = DOMAIN new \cup DOMAIN d.tag
        /\ \A k \in DOMAIN rows : rows[k] = IF k \in DOMAIN new THEN new[k] ELSE d.tag[k]
    BY DEF ++
  <1>6. x.tag = rows /\ x.tagname = d.tagname /\ DOMAIN x = DOMAIN d
    BY <1>0 DEF Schema
  <1> HIDE DEF rows, x
  <1>7. e.tag = Drop(rows, KeysWith(rows, 2, s)) /\ e.tagname = Drop(d.tagname, {s})
    BY <1>0, <1>1, <1>6 DEF DropTag, Schema
  <1>8. /\ \A k \in DOMAIN rows : k[2] # s => k \in DOMAIN e.tag /\ e.tag[k] = rows[k]
        /\ ~Has(e.tagname, s)
    BY <1>7 DEF Drop, Restrict, KeysWith, Has
  <1>9. ASSUME NEW k \in Confirmed(d)
        PROVE  (IF k[2] = s THEN <<k[1], t>> ELSE k) \in Confirmed(e)
    <2>1. k \in DOMAIN d.tag /\ d.tag[k] /\ k = <<k[1], k[2]>>
      BY <1>0 DEF Confirmed
    <2>2. CASE k[2] = s
      <3>1. k[1] \in books /\ confirmed(k[1])
        BY <1>4, <2>1, <2>2
      <3>2. <<k[1], t>> \in DOMAIN new /\ <<k[1], t>>[2] = t /\ <<k[1], t>>[1] = k[1]
        BY <1>3, <3>1
      <3>3. <<k[1], t>> \in DOMAIN e.tag /\ e.tag[<<k[1], t>>] = new[<<k[1], t>>]
        BY <1>5, <1>8, <3>2
      <3>4. new[<<k[1], t>>] = confirmed(k[1])
        BY <1>2, <3>2
      <3> HIDE DEF confirmed
      <3> QED BY <2>2, <3>1, <3>3, <3>4 DEF Confirmed
    <2>3. CASE k[2] # s /\ k \in DOMAIN new
      <3>1. confirmed(k[1])
        BY <1>2, <2>1, <2>3 DEF Has
      <3>2. k \in DOMAIN e.tag /\ e.tag[k] = confirmed(k[1])
        BY <1>2, <1>5, <1>8, <2>3
      <3> HIDE DEF confirmed
      <3> QED BY <2>3, <3>1, <3>2 DEF Confirmed
    <2>4. CASE k[2] # s /\ k \notin DOMAIN new
      <3>1. k \in DOMAIN e.tag /\ e.tag[k] = d.tag[k]
        BY <1>5, <1>8, <2>1, <2>4
      <3> QED BY <2>1, <2>4, <3>1 DEF Confirmed
    <2> QED BY <2>2, <2>3, <2>4
  <1> QED BY <1>8, <1>9 DEF e

\* What requests do to tags when they are made
LEMMA RequestTags ==
    ASSUME Inv, NEW c \in Calls, ReaderRequest(c) \/ BookRequest(c) \/ ListRequest(c)
    PROVE  \/ TagsStay(db, db')
           \/ \E u \in Admins, change \in BulkChanges : BulkEdit(c, u, DOMAIN db.book, change)
  <1>0. DbOK(db) /\ Schema(db)
    BY DEF Inv, DbOK, Sound
  <1>1. CASE ReaderRequest(c)
    <2>1. db'.tag = db.tag
      BY <1>0, <1>1 DEF ReaderRequest, ResolveFormat, CheckNoteBook, ReadState, FindFile, CountChunks, CheckCustomBook,
                        FindOwnNote, CreateColumn, DeleteColumn, Reads, Schema
    <2> QED BY <2>1, SameTagsStay
  <1>2. CASE BookRequest(c)
    <2>1. CASE \E u \in Users, change \in BulkChanges : BulkEdit(c, u, DOMAIN db.book, change)
      BY <2>1 DEF BulkEdit
    <2>2. CASE ~\E u \in Users, change \in BulkChanges : BulkEdit(c, u, DOMAIN db.book, change)
      <3>1. db' = db
        BY <1>2, <2>2 DEF BookRequest, CheckUpload, ReadForPatch, ReadForMetadata, CheckDelete, CheckMerge, ReadForMerge, Reads
      <3> QED BY <3>1, SameTagsStay
    <2> QED BY <2>1, <2>2
  <1>3. CASE ListRequest(c)
    <2>1. CASE \E u \in Users, t \in DOMAIN db.tagname : DeleteTag(c, u, t)
      <3>1. PICK t : db' = DropTag(db, t)
        BY <2>1 DEF DeleteTag
      <3>2. db'.tagname = Drop(db.tagname, {t}) /\ db'.tag = Drop(db.tag, KeysWith(db.tag, 2, t))
        BY <1>0, <3>1 DEF DropTag, Schema
      <3> QED BY <3>2 DEF Drop, Restrict, KeysWith, TagsStay, Confirmed, Has
    <2>2. CASE \E u \in Users, s, t \in DOMAIN db.tagname : MergeTag(c, u, s, t)
      <3>1. PICK s, t : s # t /\ db' = MergedTags(db, s, t)
        BY <2>2 DEF MergeTag
      <3> QED BY <1>0, <3>1, MergedTagsTags DEF TagsStay
    <2>3. CASE \/ \E u, name, public : CreateShelf(c, u, name, public)
               \/ \E u, s : DeleteShelf(c, u, s)
               \/ \E u, s, name, public : RenameShelf(c, u, s, name, public)
               \/ \E u, s, b : ReadShelfOrder(c, u, s, b) \/ RemoveFromShelf(c, u, s, b)
               \/ \E u, s, order : CheckOrder(c, u, s, order)
      <3>1. db'.tag = db.tag
        BY <1>0, <2>3 DEF CreateShelf, InsertShelf, DeleteShelf, RenameShelf, ReadShelfOrder, RemoveFromShelf, CheckOrder, Reads, Schema
      <3> QED BY <3>1, SameTagsStay
    <2>4. CASE \/ \E u, public : CreateCollection(c, u, public)
               \/ \E u, l, public : UpdateCollection(c, u, l, public)
               \/ \E u, l : DeleteCollection(c, u, l)
               \/ \E u, l, books : CheckCollected(c, u, l, books)
               \/ \E u, l, b : RemoveCollected(c, u, l, b)
      <3>1. db'.tag = db.tag
        BY <1>0, <2>4 DEF CreateCollection, UpdateCollection, DeleteCollection, CheckCollected, RemoveCollected, Reads, Schema
      <3> QED BY <3>1, SameTagsStay
    <2>5. CASE \/ \E u, t, name : CheckRename(c, u, t, name)
               \/ \E u, who, t, mode : RestrictTag(c, u, who, t, mode)
               \/ \E u, b, tags : AskForTags(c, u, b, tags)
               \/ \E u, b, confirm, reject : CheckConfirm(c, u, b, confirm, reject)
      <3>1. db'.tag = db.tag
        BY <1>0, <2>5 DEF CheckRename, RestrictTag, AskForTags, CheckConfirm, Reads, Schema
      <3> QED BY <3>1, SameTagsStay
    <2>6. CASE \/ \E u, a, field : ReadProfile(c, u, a, field)
               \/ \E u, a : CheckPhoto(c, u, a)
               \/ \E u, a, o : MergeAuthor(c, u, a, o)
               \/ \E u : StartImport(c, u)
      <3>1. db'.tag = db.tag
        BY <1>0, <2>6 DEF ReadProfile, CheckPhoto, MergeAuthor, StartImport, Reads, Schema
      <3> QED BY <3>1, SameTagsStay
    <2> QED BY <1>3, <2>1, <2>2, <2>3, <2>4, <2>5, <2>6 DEF ListRequest
  <1> QED BY <1>1, <1>2, <1>3

LEMMA StepTags ==
    ASSUME Inv, NEW c \in Calls, InFlight(c), ReaderStep(c) \/ BookStep(c) \/ ListStep(c) \/ StatementFails(c), ~ConfirmTags(c)
    PROVE  TagsStay(db, db')
  <1>0. DbOK(db) /\ Schema(db) /\ Shape(c, call[c])
    BY DEF Inv, DbOK, Sound, CallsOK
  <1>a. ASSUME db'.tag = db.tag
        PROVE  TagsStay(db, db')
    BY <1>a, SameTagsStay
  <1>1. CASE ReaderStep(c)
    <2>1. db'.tag = db.tag
      BY <1>0, <1>1 DEF ReaderStep, SaveProgress, CreateNote, UpdateNote, DeleteNote, UpsertState, ServeFile, GenerateChunks,
                        SetCustomValues, UpsertCustom, Schema
    <2> QED BY <1>a, <2>1, Zenon
  <1>2. CASE UploadStep(c)
    <2>1. db'.tag = db.tag
      BY <1>0, <1>2 DEF UploadStep, StoreUpload, InsertUpload, InsertBook, ReadUpload, RemoveUpload, StoreCover, SetCover, SetCoverPath,
                        RemoveCover, FinishUpload, Schema
    <2> QED BY <1>a, <2>1
  <1>3. CASE EditStep(c)
    <2>1. db'.tag = db.tag
      BY <1>0, <1>3 DEF EditStep, WritePatch, PatchBook, FinishPatch, Schema
    <2> QED BY <1>a, <2>1
  <1>4. CASE MetadataStep(c)
    <2>1. db'.tag = db.tag
      BY <1>0, <1>4 DEF MetadataStep, WriteMetadata, PatchBook, WriteAuthors, ReplaceAuthors, WritePublisher, WriteIdent, UpsertIdent,
                        StoreNewCover, SetCover, SetCoverPath, RemoveCover, FinishMetadata, Reads, Schema
    <2> QED BY <1>a, <2>1
  <1>5. CASE DeleteStep(c)
    <2>1. CASE DeleteRows(c)
      BY <1>0, <1>a, <2>1, DeleteBookTags DEF DeleteRows, TagsStay
    <2>2. CASE ReadPaths(c) \/ RemoveFile(c) \/ FinishDelete(c)
      BY <1>a, <2>2 DEF ReadPaths, RemoveFile, FinishDelete, Reads
    <2> QED BY <1>5, <2>1, <2>2 DEF DeleteStep
  <1>6. CASE MergeStep(c)
    <2>1. CASE WriteMerge(c)
      <3>1. call[c].book # call[c].duplicate
        BY <1>0, <2>1 DEF WriteMerge, At, Shape
      <3> QED BY <1>0, <1>a, <2>1, <3>1, MergeBooksTags DEF WriteMerge, TagsStay
    <2>2. CASE WriteExec(c)
      BY <1>0, <1>a, <2>2, MergeExecTags DEF WriteExec
    <2>3. CASE FinishMerge(c) \/ SnapshotProgress(c)
      BY <1>a, <2>3 DEF FinishMerge, SnapshotProgress, Reads
    <2> QED BY <1>6, <2>1, <2>2, <2>3 DEF MergeStep
  <1>7. CASE ListStep(c) /\ ~ImportStep(c)
    <2>1. CASE InsertSuggestions(c)
      <3>1. \A k \in DOMAIN db.tag : k \in DOMAIN db'.tag /\ db'.tag[k] = db.tag[k]
        BY <1>0, <2>1 DEF InsertSuggestions, ++, Schema
      <3> QED BY <3>1 DEF TagsStay, Confirmed
    <2>2. CASE PublishShelf(c) \/ AddToShelf(c) \/ WriteOrder(c) \/ CollectBook(c) \/ WriteRename(c)
      <3>1. db'.tag = db.tag
        BY <1>0, <2>2 DEF PublishShelf, AddToShelf, InsertOnShelf, WriteOrder, CollectBook, WriteRename, Schema
      <3> QED BY <1>a, <3>1
    <2>3. CASE WriteProfile(c) \/ StorePhoto(c) \/ SetPhoto(c) \/ RemovePhotos(c)
      <3>1. db'.tag = db.tag
        BY <1>0, <2>3 DEF WriteProfile, StorePhoto, SetPhoto, RemovePhotos, Schema
      <3> QED BY <1>a, <3>1
    <2> QED BY <1>7, <2>1, <2>2, <2>3 DEF ListStep
  <1>8. CASE ImportStep(c)
    <2>1. CASE ImportRunning(c) \/ LogRow(c) \/ CompleteImport(c) \/ FailImport(c)
      <3>1. db'.tag = db.tag
        BY <1>0, <2>1, SMTT(40) DEF ImportRunning, LogRow, CompleteImport, FailImport, UpdateLog, Schema
      <3> QED BY <1>a, <3>1, Zenon
    <2>2. CASE MatchRow(c) \/ ReadRowState(c) \/ FindShelf(c) \/ ReadRowOrder(c) \/ ImportStatementFails(c)
      BY <1>a, <2>2 DEF MatchRow, ReadRowState, FindShelf, ReadRowOrder, ImportStatementFails, Reads
    <2>3. CASE WriteRowState(c) \/ RateRow(c)
      BY <1>0, <1>a, <2>3 DEF WriteRowState, RateRow, Schema
    <2>4. CASE NewShelf(c) \/ ShelveRow(c)
      BY <1>0, <1>a, <2>4 DEF NewShelf, InsertShelf, ShelveRow, InsertOnShelf, Schema
    <2> QED BY <1>8, <2>1, <2>2, <2>3, <2>4 DEF ImportStep
  <1>9. CASE StatementFails(c)
    BY <1>a, <1>9 DEF StatementFails
  <1> QED BY <1>1, <1>2, <1>3, <1>4, <1>5, <1>6, <1>7, <1>8, <1>9 DEF BookStep

LEMMA StepsKeepTags ==
    ASSUME Inv, [Next]_vars
    PROVE  \/ TagsStay(db, db')
           \/ \E c \in Calls : ConfirmTags(c)
           \/ \E c \in Calls, u \in Admins, change \in BulkChanges : BulkEdit(c, u, DOMAIN db.book, change)
  <1>1. CASE Request
    BY <1>1, RequestTags DEF Request
  <1>2. CASE CallStep
    BY <1>2, StepTags DEF CallStep
  <1>3. CASE TaskStep
    <2>1. PICK t \in tasks : RunIndexTask(t) \/ RunRemovalTask(t) \/ RunChunkTask(t) \/ RunHistoryTask(t)
      BY <1>3 DEF TaskStep
    <2>2. db'.tag = db.tag
      BY <2>1 DEF RunIndexTask, RunRemovalTask, RunChunkTask, RunHistoryTask, Inv, DbOK, Sound, Schema
    <2> QED BY <2>2, SameTagsStay
  <1>4. CASE Crash \/ Rest \/ vars' = vars
    <2>1. db' = db
      BY <1>4 DEF Crash, Rest, vars
    <2> QED BY <2>1, SameTagsStay
  <1> QED BY <1>1, <1>2, <1>3, <1>4 DEF Next

\* A confirmed tag is lost only to who rejects or overwrites it or deletes the
\* tag or the book; a merge, of books or of tags, hands it on.
THEOREM TagsCorrect == Spec => ConfirmedTagsSurvive
  <1> DEFINE Handed(k) ==
        \/ /\ ~Has(db'.book, k[1])
           /\ \A c \in Calls : WriteMerge(c) /\ call[c].duplicate = k[1] => <<call[c].book, k[2]>> \in Confirmed(db')
        \/ /\ ~Has(db'.tagname, k[2])
           /\ \A c \in Calls, u \in Admins, t \in DOMAIN db.tagname :
                 MergeTag(c, u, k[2], t) => <<k[1], t>> \in Confirmed(db')
        \/ \E c \in Calls : ConfirmTags(c) /\ k[2] \in call[c].reject
        \/ \E c \in Calls, u \in Admins, change \in BulkChanges : BulkEdit(c, u, DOMAIN db.book, change)
  <1>1. ASSUME Inv, [Next]_vars, NEW k \in Confirmed(db) \ Confirmed(db')
        PROVE  Handed(k)
    <2>0. DbOK(db) /\ Schema(db)
      BY <1>1 DEF Inv, DbOK, Sound
    <2>1. CASE \E c \in Calls : ConfirmTags(c)
      <3>1. PICK c \in Calls : ConfirmTags(c)
        BY <2>1
      <3> DEFINE own == KeysWith(db.tag, 1, call[c].book)
                 named(tags) == {x \in own : x[2] \in tags}
                 new == [x \in named(call[c].confirm) |-> TRUE]
                 rows == new ++ db.tag
      <3>2. db'.tag = Drop(rows, named(call[c].reject))
        BY <2>0, <3>1 DEF ConfirmTags, Schema
      <3>3. \A x \in DOMAIN db.tag : x \in DOMAIN rows /\ (db.tag[x] => rows[x])
        <4>1. \A x \in DOMAIN new : new[x] = TRUE
          OBVIOUS
        <4> HIDE DEF new
        <4>2. \A x \in DOMAIN db.tag : x \in DOMAIN rows /\ rows[x] = IF x \in DOMAIN new THEN new[x] ELSE db.tag[x]
          BY DEF ++
        <4> HIDE DEF rows
        <4> QED BY <4>1, <4>2
      <3>4. k \in DOMAIN db.tag /\ db.tag[k] /\ (k \notin DOMAIN db'.tag \/ ~db'.tag[k])
        BY <1>1 DEF Confirmed
      <3> HIDE DEF rows
      <3>5. k \in named(call[c].reject)
        BY <3>2, <3>3, <3>4 DEF Drop, Restrict
      <3> QED BY <3>1, <3>5
    <2>2. CASE \E c \in Calls, u \in Admins, change \in BulkChanges : BulkEdit(c, u, DOMAIN db.book, change)
      BY <2>2
    <2>3. CASE TagsStay(db, db')
      <3>1. ~Has(db'.book, k[1]) \/ ~Has(db'.tagname, k[2])
        BY <1>1, <2>3 DEF TagsStay
      <3>2. ASSUME NEW c \in Calls, WriteMerge(c), call[c].duplicate = k[1]
            PROVE  <<call[c].book, k[2]>> \in Confirmed(db')
        <4>1. call[c].book # call[c].duplicate
          BY <1>1, <3>2 DEF WriteMerge, At, Inv, CallsOK, Shape
        <4>2. db' # db
          BY <1>1
        <4> QED BY <1>1, <2>0, <3>2, <4>1, <4>2, MergeBooksTags DEF WriteMerge
      <3>3. ASSUME NEW c \in Calls, NEW u \in Admins, NEW t \in DOMAIN db.tagname, MergeTag(c, u, k[2], t)
            PROVE  <<k[1], t>> \in Confirmed(db')
        BY <1>1, <2>0, <3>3, MergedTagsTags DEF MergeTag
      <3> QED BY <3>1, <3>2, <3>3
    <2> QED BY <1>1, <2>1, <2>2, <2>3, StepsKeepTags
  <1>2. Inv /\ [Next]_vars => [\A k \in Confirmed(db) \ Confirmed(db') : Handed(k)]_vars
    BY <1>1
  <1> QED BY <1>2, Invariance, PTL DEF Spec, ConfirmedTagsSurvive

-----------------------------------------------------------------------------
(* The positions of a merge.                                                 *)

LEMMA DeleteBookPositions ==
    ASSUME NEW d, DbOK(d), NEW p, NEW q, p # q, NEW u
    PROVE  LET e == DeleteBookRow(d, q)
               k == <<u, p>>
           IN  /\ k \in DOMAIN d.progress <=> k \in DOMAIN e.progress
               /\ k \in DOMAIN d.progress => e.progress[k] = d.progress[k]
  <1> DEFINE f == DeleteFormats(d, FilesOf(d, q))
             e == DeleteBookRow(d, q)
             k == <<u, p>>
  <1>1. /\ DOMAIN f = DOMAIN d
        /\ f.progress = Drop(d.progress, {x \in DOMAIN d.progress : d.progress[x].format \in FilesOf(d, q)})
    BY DEF DeleteFormats, DbOK, Sound, Schema
  <1> HIDE DEF f
  <1>2. e.progress = Drop(f.progress, KeysWith(f.progress, 2, q))
    BY <1>1 DEF DeleteBookRow, DbOK, Sound, Schema, f
  <1> HIDE DEF e
  <1>3. k \in DOMAIN d.progress => d.progress[k].format \notin FilesOf(d, q)
    BY DEF DbOK, OfItsBook, FilesOf
  <1>4. k \in DOMAIN f.progress <=> k \in DOMAIN d.progress
    BY <1>1, <1>3 DEF Drop, Restrict
  <1>5. k \in DOMAIN f.progress => f.progress[k] = d.progress[k]
    BY <1>1 DEF Drop, Restrict
  <1>6. k \in DOMAIN e.progress <=> k \in DOMAIN f.progress
    BY <1>2 DEF Drop, Restrict, KeysWith
  <1>7. k \in DOMAIN e.progress => e.progress[k] = f.progress[k]
    BY <1>2 DEF Drop, Restrict
  <1> QED BY <1>4, <1>5, <1>6, <1>7 DEF e

LEMMA MergeBooksFurther ==
    ASSUME NEW d, DbOK(d), NEW p \in DOMAIN d.book, NEW q \in DOMAIN d.book, p # q
    PROVE  Further(d, MergeBooks(d, p, q), p, q)
  <1>1. PICK moved : MergeBooks(d, p, q) = DeleteBookRow(moved, q) /\ DbOK(moved) /\ Further(d, moved, p, q)
    BY EverythingMoves
  <1>2. \A u : LET k == <<u, p>>
                   e == DeleteBookRow(moved, q)
               IN  /\ k \in DOMAIN moved.progress <=> k \in DOMAIN e.progress
                   /\ k \in DOMAIN moved.progress => e.progress[k] = moved.progress[k]
    BY <1>1, DeleteBookPositions
  <1> QED BY <1>1, <1>2 DEF Further

\* No position of u on a book of B is further than m, and one is at m.
FurthestAt(d, u, B, m) ==
    /\ m \in 0..100
    /\ \A k \in DOMAIN d.progress : k[1] = u /\ k[2] \in B => d.progress[k].pct \in 0..m
    /\ m = 0 \/ \E k \in DOMAIN d.progress : k[1] = u /\ k[2] \in B /\ d.progress[k].pct = m

LEMMA FurthestIs ==
    ASSUME NEW d, NEW u, NEW B, NEW m, FurthestAt(d, u, B, m)
    PROVE  Furthest(d, u, B) = m
  <1> DEFINE S == {0} \cup {d.progress[k].pct : k \in {p \in DOMAIN d.progress : p[1] = u /\ p[2] \in B}}
  <1>1. m \in 0..100 /\ m \in S /\ \A x \in S : x \in 0..m
    BY DEF FurthestAt
  <1> HIDE DEF S
  <1>2. \A x \in S : (\A y \in S : x >= y) => x = m
    BY <1>1
  <1>3. \A y \in S : m >= y
    BY <1>1
  <1>4. Max(S) = m
    BY <1>1, <1>2, <1>3 DEF Max
  <1> QED BY <1>4 DEF Furthest, S

LEMMA FurtherReads ==
    ASSUME NEW d, Sound(d), NEW e, Sound(e), NEW p, NEW q, Further(d, e, p, q), NEW u
    PROVE  /\ Furthest(e, u, {p}) = Furthest(d, u, {p, q})
           /\ u \in ReadersOf(d, p) \cup ReadersOf(d, q) => u \in ReadersOf(e, p)
  <1> DEFINE a == <<u, p>>
             b == <<u, q>>
             had == {a, b} \cap DOMAIN d.progress
  <1>1. ASSUME NEW x, Sound(x), NEW k \in DOMAIN x.progress
        PROVE  k = <<k[1], k[2]>> /\ x.progress[k].pct \in 0..100
    BY <1>1 DEF Sound, Schema, References
  <1>2. /\ had # {} <=> a \in DOMAIN e.progress
        /\ had # {} => \E k \in had : /\ e.progress[a].pct = d.progress[k].pct
                                      /\ \A j \in had : d.progress[j].pct <= d.progress[k].pct
    BY DEF Further
  <1>3. \A k \in DOMAIN d.progress : k[1] = u /\ k[2] \in {p, q} => k \in had
    BY <1>1
  <1>4. \A k \in DOMAIN e.progress : k[1] = u /\ k[2] \in {p} => k = a
    BY <1>1
  <1>5. a[1] = u /\ a[2] = p /\ b[1] = u /\ b[2] = q
    OBVIOUS
  <1>6. CASE had = {}
    <2>1. Furthest(d, u, {p, q}) = 0
      <3>1. FurthestAt(d, u, {p, q}, 0)
        BY <1>3, <1>6 DEF FurthestAt
      <3> QED BY <3>1, FurthestIs
    <2>2. Furthest(e, u, {p}) = 0
      <3>1. FurthestAt(e, u, {p}, 0)
        BY <1>2, <1>4, <1>6 DEF FurthestAt
      <3> QED BY <3>1, FurthestIs
    <2>3. u \notin ReadersOf(d, p) \cup ReadersOf(d, q)
      BY <1>3, <1>6 DEF ReadersOf
    <2> QED BY <2>1, <2>2, <2>3
  <1>7. CASE had # {}
    <2>1. PICK k \in had : /\ e.progress[a].pct = d.progress[k].pct
                           /\ \A j \in had : d.progress[j].pct <= d.progress[k].pct
      BY <1>2, <1>7
    <2> DEFINE m == d.progress[k].pct
    <2>2. m \in 0..100 /\ k \in DOMAIN d.progress /\ k[1] = u /\ k[2] \in {p, q}
      BY <1>1, <1>5
    <2>3. a \in DOMAIN e.progress /\ e.progress[a].pct = m
      BY <1>2, <1>7, <2>1
    <2>4. ASSUME NEW j \in had
          PROVE  d.progress[j].pct \in 0..m
      <3>1. j \in DOMAIN d.progress
        OBVIOUS
      <3>2. d.progress[j].pct \in 0..100 /\ d.progress[j].pct <= m
        BY <1>1, <2>1, <3>1
      <3> HIDE DEF m
      <3> QED BY <2>2, <3>2
    <2>a. d.progress[k].pct = m
      OBVIOUS
    <2> HIDE DEF m, had, a
    <2>b. \A j \in DOMAIN d.progress : j[1] = u /\ j[2] \in {p, q} => d.progress[j].pct \in 0..m
      BY <1>3, <2>4
    <2>5. FurthestAt(d, u, {p, q}, m)
      BY <2>2, <2>a, <2>b DEF FurthestAt
    <2>6. \A j \in DOMAIN e.progress : j[1] = u /\ j[2] \in {p} => e.progress[j].pct \in 0..m
      BY <1>4, <2>2, <2>3
    <2>c. a[1] = u /\ a[2] \in {p}
      BY DEF a
    <2>7. FurthestAt(e, u, {p}, m)
      BY <2>2, <2>3, <2>6, <2>c DEF FurthestAt
    <2>8. u \in ReadersOf(e, p)
      BY <1>5, <2>3 DEF ReadersOf
    <2> QED BY <2>5, <2>7, <2>8, FurthestIs
  <1> QED BY <1>6, <1>7

\* A merge of books loses no reader of either and keeps the further position.
THEOREM ReadersCorrect == Spec => MergeKeepsReaders
  <1>1. ASSUME Inv, [Next]_vars, NEW c \in Calls, WriteMerge(c), db' # db, NEW u \in Users
        PROVE  LET both == {call[c].book, call[c].duplicate}
               IN  /\ Furthest(db', u, {call[c].book}) = Furthest(db, u, both)
                   /\ u \in ReadersOf(db, call[c].book) \cup ReadersOf(db, call[c].duplicate)
                        => u \in ReadersOf(db', call[c].book)
    <2>1. call[c].book # call[c].duplicate
      BY <1>1 DEF WriteMerge, At, Inv, CallsOK, Shape
    <2>2. /\ Has(db.book, call[c].book) /\ Has(db.book, call[c].duplicate)
          /\ db' = MergeBooks(db, call[c].book, call[c].duplicate)
      BY <1>1 DEF WriteMerge
    <2>3. DbOK(db) /\ DbOK(db')
      BY <1>1, <2>1, <2>2, MergeBooksKeeps DEF Inv, Keeps, Has
    <2>4. Further(db, db', call[c].book, call[c].duplicate)
      BY <2>1, <2>2, <2>3, MergeBooksFurther DEF Has
    <2> QED BY <2>3, <2>4, FurtherReads DEF DbOK
  <1>2. Inv /\ [Next]_vars =>
          [\A c \in Calls : WriteMerge(c) /\ db' # db =>
              LET both == {call[c].book, call[c].duplicate}
              IN  \A u \in Users : /\ Furthest(db', u, {call[c].book}) = Furthest(db, u, both)
                                   /\ u \in ReadersOf(db, call[c].book) \cup ReadersOf(db, call[c].duplicate)
                                        => u \in ReadersOf(db', call[c].book)]_vars
    BY <1>1
  <1> QED BY <1>2, Invariance, PTL DEF Spec, MergeKeepsReaders
=============================================================================
