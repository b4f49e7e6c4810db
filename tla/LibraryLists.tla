---------------------------- MODULE LibraryLists ----------------------------
(* Shelves, collections, tags, authors and the import of a reading history:
   src/backend/src/api/shelves.rs, collections.rs, authors.rs, users.rs, the
   tags of admin/mod.rs and llm.rs, and the queries they call.              *)
EXTENDS LibraryBooks

CONSTANTS ShelfNames,    \* names a shelf may be given
          TagNames,      \* names a tag may be given: <<word, spelling>>
          ImportRows     \* rows of an uploaded reading history, in their order

\* A history is a list of rows, and none has been imported before.
ASSUME ImportsAssumption == ImportRows \in Seq(Range(ImportRows)) /\ DOMAIN InitDb.imports = {}

-----------------------------------------------------------------------------
(* Shelves. A shelf created by call c has the id c. *)

OwnShelf(u, s) == Has(db.shelf, s) /\ db.shelf[s].user = u

NameTaken(d, u, name, but) == \E s \in DOMAIN d.shelf \ {but} : d.shelf[s].user = u /\ d.shelf[s].name = name

InsertShelf(d, s, u, name, public) == [d EXCEPT !.shelf = Put(@, s, [user |-> u, name |-> name, public |-> public])]

CreateShelf(c, u, name, public) ==
    /\ ~NameTaken(db, u, name, NoValue)
    /\ db' = InsertShelf(db, c, u, name, public)
    /\ BeginAndEnd(c)
    /\ Idle

\* ensure_owner, then a DELETE of the same shelf and user; its books cascade
DeleteShelf(c, u, s) ==
    /\ OwnShelf(u, s)
    /\ db' = [db EXCEPT !.shelf = Drop(@, {s}), !.shelved = Drop(@, KeysWith(@, 1, s))]
    /\ BeginAndEnd(c)
    /\ Idle

\* patch_shelf: one UPDATE for the name and one for the flag
RenameShelf(c, u, s, name, public) ==
    /\ OwnShelf(u, s) /\ ~NameTaken(db, u, name, s)
    /\ db' = [db EXCEPT !.shelf[s].name = name]
    /\ Begin(c, [op |-> "shelf", at |-> "publish", shelf |-> s, public |-> public])
    /\ Idle

PublishShelf(c) ==
    /\ At(c, "shelf", "publish")
    /\ db' = IF Has(db.shelf, call[c].shelf) THEN [db EXCEPT !.shelf[call[c].shelf].public = call[c].public] ELSE db
    /\ Answer(c)
    /\ Idle

\* The books of a shelf in their order (books are added in the order of their
\* positions, unless two were added at once)
OnShelf(d, s) == {k[2] : k \in KeysWith(d.shelved, 1, s)}

NextOrder(d, s) == Max({-1} \cup {d.shelved[k] : k \in KeysWith(d.shelved, 1, s)}) + 1

\* ensure_owner, load_book_or_not_found and SELECT MAX(display_order) + 1
ReadShelfOrder(c, u, s, b) ==
    /\ OwnShelf(u, s) /\ GetBook(db, u, b)
    /\ Begin(c, [op |-> "shelf", at |-> "add", shelf |-> s, book |-> b, order |-> NextOrder(db, s)])
    /\ Reads

\* Mutant: without the foreign keys.
InsertOnAnyShelf(d, s, b, order) ==
    IF ~Has(d.shelved, <<s, b>>) THEN [d EXCEPT !.shelved = Put(@, <<s, b>>, order)] ELSE d

\* INSERT OR IGNORE; shelf and book must be there (foreign keys)
InsertOnShelf(d, s, b, order) ==
    IF Has(d.shelf, s) /\ Has(d.book, b) /\ ~Has(d.shelved, <<s, b>>)
    THEN [d EXCEPT !.shelved = Put(@, <<s, b>>, order)] ELSE d

AddToShelf(c) ==
    /\ At(c, "shelf", "add")
    /\ db' = InsertOnShelf(db, call[c].shelf, call[c].book, call[c].order)
    /\ Answer(c)
    /\ Idle

RemoveFromShelf(c, u, s, b) ==
    /\ OwnShelf(u, s) /\ Has(db.shelved, <<s, b>>)
    /\ db' = [db EXCEPT !.shelved = Drop(@, {<<s, b>>})]
    /\ BeginAndEnd(c)
    /\ Idle

\* put_shelf_order: the request names exactly the books that are there now
CheckOrder(c, u, s, order) ==
    /\ OwnShelf(u, s) /\ OnShelf(db, s) # {}
    /\ Range(order) = OnShelf(db, s) /\ Len(order) = Cardinality(OnShelf(db, s))
    /\ Begin(c, [op |-> "shelf", at |-> "reorder", shelf |-> s, order |-> order])
    /\ Reads

\* reorder_shelf_books: one transaction, books that have gone are left out
WriteOrder(c) ==
    /\ At(c, "shelf", "reorder")
    /\ LET place(b) == (CHOOSE i \in DOMAIN call[c].order : call[c].order[i] = b) - 1
           moved == {k \in KeysWith(db.shelved, 1, call[c].shelf) : k[2] \in Range(call[c].order)}
       IN  db' = [db EXCEPT !.shelved = [k \in moved |-> place(k[2])] ++ @]
    /\ Answer(c)
    /\ Idle

-----------------------------------------------------------------------------
(* Collections: a public one may be changed by everyone *)

MayChange(d, u, l) == Has(d.collection, l) /\ (d.collection[l].owner = u \/ d.collection[l].public)

CreateCollection(c, u, public) ==
    /\ db' = [db EXCEPT !.collection = Put(@, c, [owner |-> u, public |-> public])]
    /\ BeginAndEnd(c)
    /\ Idle

UpdateCollection(c, u, l, public) ==
    /\ MayChange(db, u, l)
    /\ db' = [db EXCEPT !.collection[l].public = public]
    /\ BeginAndEnd(c)
    /\ Idle

DeleteCollection(c, u, l) ==
    /\ MayChange(db, u, l)
    /\ db' = [db EXCEPT !.collection = Drop(@, {l}), !.collected = {k \in @ : k[1] # l}]
    /\ BeginAndEnd(c)
    /\ Idle

\* add_books_to_collection: all books are looked up, then inserted one by one
CheckCollected(c, u, l, books) ==
    /\ books # {} /\ \A b \in books : GetBook(db, u, b)
    /\ Begin(c, [op |-> "collection", at |-> "add", user |-> u, collection |-> l, books |-> books])
    /\ Reads

CollectBook(c) ==
    /\ At(c, "collection", "add")
    /\ LET r == call[c]
       IN  \E b \in r.books :
              IF MayChange(db, r.user, r.collection) /\ ~Has(db.book, b)
              THEN UNCHANGED db /\ Answer(c)
              ELSE /\ db' = IF MayChange(db, r.user, r.collection)
                            THEN [db EXCEPT !.collected = @ \cup {<<r.collection, b>>}] ELSE db
                   /\ IF r.books = {b} THEN Answer(c) ELSE call' = [call EXCEPT ![c].books = @ \ {b}]
    /\ Idle

RemoveCollected(c, u, l, b) ==
    /\ MayChange(db, u, l) /\ <<l, b>> \in db.collected
    /\ db' = [db EXCEPT !.collected = @ \ {<<l, b>>}]
    /\ BeginAndEnd(c)
    /\ Idle

-----------------------------------------------------------------------------
(* Tags *)

\* rename_tag: no other tag has the word, in whatever spelling
CheckRename(c, u, t, name) ==
    /\ u \in Admins /\ \A o \in DOMAIN db.tagname \ {t} : db.tagname[o][1] # name[1]
    /\ Begin(c, [op |-> "tag", at |-> "rename", tag |-> t, name |-> name])
    /\ Reads

\* The UPDATE; a name is taken by its spelling (UNIQUE)
WriteRename(c) ==
    /\ At(c, "tag", "rename")
    /\ LET r == call[c]
       IN  db' = IF Has(db.tagname, r.tag) /\ \A o \in DOMAIN db.tagname \ {r.tag} : db.tagname[o] # r.name
                 THEN [db EXCEPT !.tagname[r.tag] = r.name] ELSE db
    /\ Answer(c)
    /\ Idle

\* The row of a tag with its links and restrictions (ON DELETE CASCADE)
DropTag(d, t) ==
    [d EXCEPT !.tagname = Drop(@, {t}), !.tag = Drop(@, KeysWith(@, 2, t)),
              !.restricted = Drop(@, KeysWith(@, 2, t))]

DeleteTag(c, u, t) ==
    /\ u \in Admins /\ Has(db.tagname, t)
    /\ db' = DropTag(db, t)
    /\ BeginAndEnd(c)
    /\ Idle

\* merge_tags: links of the source become the target's; confirmed if either was
MergedTags(d, s, t) ==
    LET books == {k[1] : k \in KeysWith(d.tag, 2, s)}
        confirmed(b) == d.tag[<<b, s>>] \/ (Has(d.tag, <<b, t>>) /\ d.tag[<<b, t>>])
    IN  DropTag([d EXCEPT !.tag = [k \in {<<b, t>> : b \in books} |-> confirmed(k[1])] ++ @], s)

MergeTag(c, u, s, t) ==
    /\ u \in Admins /\ s # t /\ Has(db.tagname, s) /\ Has(db.tagname, t)
    /\ db' = MergedTags(db, s, t)
    /\ BeginAndEnd(c)
    /\ Idle

\* set_user_tag_restriction and delete_user_tag_restriction
RestrictTag(c, u, who, t, mode) ==
    /\ u \in Admins /\ Has(db.tagname, t)
    /\ mode = NoValue => Has(db.restricted, <<who, t>>)
    /\ db' = [db EXCEPT !.restricted = IF mode = NoValue THEN Drop(@, {<<who, t>>}) ELSE Put(@, <<who, t>>, mode)]
    /\ BeginAndEnd(c)
    /\ Idle

\* classify_book: the model is asked, its tags are inserted in one transaction
AskForTags(c, u, b, tags) ==
    /\ "edit" \in Can[u] /\ GetBook(db, u, b)
    /\ Begin(c, [op |-> "tag", at |-> "suggest", book |-> b, tags |-> tags])
    /\ Reads

\* insert_tag_suggestions: INSERT OR IGNORE, a link that is there stays as it is
InsertSuggestions(c) ==
    /\ At(c, "tag", "suggest")
    /\ LET r == call[c]
       IN  db' = IF ~Has(db.book, r.book) THEN db
                 ELSE [db EXCEPT !.tagname = @ ++ [t \in r.tags |-> <<t, "llm">>],
                                 !.tag = @ ++ [k \in {<<r.book, t>> : t \in r.tags} |-> FALSE]]
    /\ Answer(c)
    /\ Idle

\* confirm_tags and confirm_all_tags: the check, then one transaction
CheckConfirm(c, u, b, confirm, reject) ==
    /\ "edit" \in Can[u] /\ GetBook(db, u, b)
    /\ Begin(c, [op |-> "tag", at |-> "confirm", book |-> b, confirm |-> confirm, reject |-> reject])
    /\ Reads

ConfirmTags(c) ==
    /\ At(c, "tag", "confirm")
    /\ LET own == KeysWith(db.tag, 1, call[c].book)
           named(tags) == {k \in own : k[2] \in tags}
       IN  db' = [db EXCEPT !.tag = Drop([k \in named(call[c].confirm) |-> TRUE] ++ @, named(call[c].reject))]
    /\ Answer(c)
    /\ Idle

-----------------------------------------------------------------------------
(* Authors *)

NoProfile == [bio |-> NoValue, born |-> NoValue, photo |-> FALSE]

ProfileOf(d, a) == IF Has(d.profile, a) THEN d.profile[a] ELSE NoProfile

\* patch_author: upsert_author_profile reads the row, and writes all of it but
\* the photo of a row that is there
ReadProfile(c, u, a, field) ==
    /\ "edit" \in Can[u] /\ a \in db.authors
    /\ Begin(c, [op |-> "author", at |-> "profile", author |-> a,
                 profile |-> [ProfileOf(db, a) EXCEPT ![field] = "patched"]])
    /\ Reads

WriteProfile(c) ==
    /\ At(c, "author", "profile")
    /\ LET r == call[c]
       IN  db' = IF r.author \notin db.authors THEN db
                 ELSE [db EXCEPT !.profile =
                        Put(@, r.author, IF Has(@, r.author) THEN [r.profile EXCEPT !.photo = db.profile[r.author].photo]
                                         ELSE r.profile)]
    /\ Answer(c)
    /\ Idle

\* The authors of a book, with the author s merged into t
Replaced(seq, s, t) ==
    IF t \in Range(seq) THEN AtPlaces(seq, {i \in DOMAIN seq : seq[i] # s})
    ELSE [i \in DOMAIN seq |-> IF seq[i] = s THEN t ELSE seq[i]]

\* merge_author: one transaction
MergeAuthor(c, u, s, t) ==
    /\ u \in Admins /\ s # t /\ {s, t} \subseteq db.authors
    /\ db' = [db EXCEPT !.book = [b \in DOMAIN @ |-> [db.book[b] EXCEPT !.authors = Replaced(@, s, t)]],
                        !.profile = Drop(@, {s}), !.authors = @ \ {s}]
    /\ BeginAndEnd(c)
    /\ Idle

\* upload_author_photo: the variants, then the path
CheckPhoto(c, u, a) ==
    /\ "edit" \in Can[u] /\ a \in db.authors
    /\ Begin(c, [op |-> "author", at |-> "photo", author |-> a, stored |-> 0])
    /\ Reads

\* Without its first variant the upload ends; after it an error removes all
StorePhoto(c) ==
    /\ At(c, "author", "photo")
    /\ LET i == call[c].stored + 1
       IN  \/ /\ files' = files \cup {<<"author", call[c].author, PhotoFiles[i]>>}
              /\ call' = [call EXCEPT ![c].stored = i, ![c].at = IF i = Len(PhotoFiles) THEN "setphoto" ELSE @]
              /\ UNCHANGED faults
           \/ /\ Fault
              /\ IF i = 1 THEN Answer(c) ELSE Goto(c, "unphoto")
              /\ UNCHANGED files
    /\ UNCHANGED <<db, index, tasks, crashes>>

\* set_author_photo_path, an upsert for an author that is there
SetPhoto(c) ==
    /\ At(c, "author", "setphoto")
    /\ LET a == call[c].author
       IN  \/ /\ a \in db.authors
              /\ db' = [db EXCEPT !.profile = Put(@, a, [ProfileOf(db, a) EXCEPT !.photo = TRUE])]
              /\ Answer(c)
              /\ UNCHANGED faults
           \/ a \notin db.authors /\ Goto(c, "unphoto") /\ UNCHANGED <<db, faults>>
           \/ Fault /\ Goto(c, "unphoto") /\ UNCHANGED db
    /\ UNCHANGED <<files, index, tasks, crashes>>

RemovePhotos(c) ==
    /\ At(c, "author", "unphoto")
    /\ files' = files \ PhotosOf(call[c].author)
    /\ Answer(c)
    /\ UNCHANGED <<db, index, tasks, faults, crashes>>

-----------------------------------------------------------------------------
(* import_goodreads and import_storygraph. The call is the spawned task; the
   request itself ends with create_import_log.                              *)

StartImport(c, u) ==
    /\ db' = [db EXCEPT !.imports = Put(@, c, [status |-> "pending", matched |-> 0, unmatched |-> 0])]
    /\ Begin(c, [op |-> "import", at |-> "start", user |-> u, rows |-> ImportRows, shelves |-> <<>>,
                 book |-> NoValue, state |-> NoValue, shelf |-> NoValue, order |-> 0,
                 matched |-> 0, unmatched |-> 0])
    /\ Idle

\* update_import_log; the counts are the task's own
UpdateLog(d, c, status, matched, unmatched) ==
    [d EXCEPT !.imports[c] = [status |-> status, matched |-> matched, unmatched |-> unmatched]]

AfterRow(rows) == IF rows = <<>> THEN "complete" ELSE "match"

ImportRunning(c) ==
    /\ At(c, "import", "start")
    /\ db' = UpdateLog(db, c, "running", 0, 0)
    /\ Goto(c, AfterRow(call[c].rows))
    /\ Idle

\* find_book_ids_by_title_and_author_like must find one book, in any library
MatchRow(c) ==
    /\ At(c, "import", "match")
    /\ LET row == Head(call[c].rows)
       IN  \E found \in LikeMatches(db, row.title, row.author) :
              IF Cardinality(found) = 1
              THEN call' = [call EXCEPT ![c].book = CHOOSE b \in found : TRUE, ![c].shelves = row.shelves,
                                        ![c].at = IF row.read THEN "readstate" ELSE "rate"]
              ELSE call' = [call EXCEPT ![c].at = "log", ![c].unmatched = @ + 1]
    /\ Reads

\* set_read_at: the state is read, then written
ReadRowState(c) ==
    /\ At(c, "import", "readstate")
    /\ call' = [call EXCEPT ![c].at = "writestate", ![c].state = [StateOf(call[c].user, call[c].book) EXCEPT !.read = TRUE]]
    /\ Reads

\* A book that is gone makes the statement, and the whole import, fail
WriteRowState(c) ==
    /\ At(c, "import", "writestate")
    /\ LET r == call[c]
       IN  IF Has(db.book, r.book)
           THEN db' = [db EXCEPT !.state = Put(@, <<r.user, r.book>>, r.state)] /\ Goto(c, "rate")
           ELSE UNCHANGED db /\ Goto(c, "failed")
    /\ Idle

\* Stars times two, of at most 10 (CHECK)
RateRow(c) ==
    /\ At(c, "import", "rate")
    /\ LET stars == Head(call[c].rows).stars
           b == call[c].book
       IN  IF stars > 5 /\ Has(db.book, b)
           THEN UNCHANGED db /\ Goto(c, "failed")
           ELSE /\ db' = IF stars > 0 /\ Has(db.book, b) THEN [db EXCEPT !.book[b].rating = 2 * stars] ELSE db
                /\ Goto(c, "shelf")
    /\ Idle

\* get_or_create_shelf_id looks the shelf up
FindShelf(c) ==
    /\ At(c, "import", "shelf")
    /\ LET r == call[c]
           own(name) == {s \in DOMAIN db.shelf : db.shelf[s].user = r.user /\ db.shelf[s].name = name}
       IN  call' = IF r.shelves = <<>> THEN [call EXCEPT ![c].at = "log", ![c].matched = @ + 1]
                   ELSE IF own(Head(r.shelves)) = {} THEN [call EXCEPT ![c].at = "newshelf"]
                   ELSE [call EXCEPT ![c].at = "order", ![c].shelf = CHOOSE s \in own(Head(r.shelves)) : TRUE]
    /\ Reads

\* ... or creates it; one that was created since is an error
NewShelf(c) ==
    /\ At(c, "import", "newshelf")
    /\ LET r == call[c]
           id == 1000 * c + 10 * Len(r.rows) + Len(r.shelves)
       IN  IF NameTaken(db, r.user, Head(r.shelves), NoValue)
           THEN UNCHANGED db /\ Goto(c, "failed")
           ELSE /\ db' = InsertShelf(db, id, r.user, Head(r.shelves), FALSE)
                /\ call' = [call EXCEPT ![c].at = "order", ![c].shelf = id]
    /\ Idle

ReadRowOrder(c) ==
    /\ At(c, "import", "order")
    /\ call' = [call EXCEPT ![c].at = "shelve", ![c].order = NextOrder(db, call[c].shelf)]
    /\ Reads

ShelveRow(c) ==
    /\ At(c, "import", "shelve")
    /\ LET r == call[c]
       IN  /\ db' = InsertOnShelf(db, r.shelf, r.book, r.order)
           /\ call' = IF Has(db.shelf, r.shelf) /\ Has(db.book, r.book)
                      THEN [call EXCEPT ![c].at = "shelf", ![c].shelves = Tail(@)]
                      ELSE [call EXCEPT ![c].at = "failed"]
    /\ Idle

LogRow(c) ==
    /\ At(c, "import", "log")
    /\ db' = UpdateLog(db, c, "running", call[c].matched, call[c].unmatched)
    /\ call' = [call EXCEPT ![c].rows = Tail(@), ![c].at = AfterRow(Tail(call[c].rows))]
    /\ Idle

\* The log is read and written back as complete; then import.completed
CompleteImport(c) ==
    /\ At(c, "import", "complete")
    /\ db' = UpdateLog(db, c, "complete", db.imports[c].matched, db.imports[c].unmatched)
    /\ Answer(c)
    /\ Idle

\* An error anywhere: the log keeps its counts; the result is ignored
FailImport(c) ==
    /\ At(c, "import", "failed")
    /\ db' = UpdateLog(db, c, "failed", db.imports[c].matched, db.imports[c].unmatched)
    /\ Answer(c)
    /\ Idle

\* Mutant: a failed row is skipped.
ImportSkipsRow(c) ==
    /\ InFlight(c) /\ call[c].op = "import" /\ call[c].at \notin {"start", "failed", "log"}
    /\ Fault
    /\ Goto(c, IF call[c].rows = <<>> THEN "failed" ELSE "log")
    /\ UNCHANGED <<db, files, index, tasks, crashes>>

ImportStatementFails(c) ==
    /\ InFlight(c) /\ call[c].op = "import" /\ call[c].at # "failed"
    /\ Fault
    /\ Goto(c, "failed")
    /\ UNCHANGED <<db, files, index, tasks, crashes>>

ImportStep(c) ==
    \/ ImportRunning(c) \/ MatchRow(c) \/ ReadRowState(c) \/ WriteRowState(c) \/ RateRow(c) \/ FindShelf(c) \/ NewShelf(c)
    \/ ReadRowOrder(c) \/ ShelveRow(c) \/ LogRow(c) \/ CompleteImport(c) \/ FailImport(c) \/ ImportStatementFails(c)

-----------------------------------------------------------------------------
ListRequest(c) ==
    \/ \E u \in Users, name \in ShelfNames, public \in BOOLEAN : CreateShelf(c, u, name, public)
    \/ \E u \in Users, s \in DOMAIN db.shelf :
          \/ DeleteShelf(c, u, s)
          \/ \E name \in ShelfNames, public \in BOOLEAN : RenameShelf(c, u, s, name, public)
          \/ \E b \in DOMAIN db.book : ReadShelfOrder(c, u, s, b) \/ RemoveFromShelf(c, u, s, b)
          \/ \E order \in SetToSeqs(OnShelf(db, s)) : CheckOrder(c, u, s, order)
    \/ \E u \in Users, public \in BOOLEAN : CreateCollection(c, u, public)
    \/ \E u \in Users, l \in DOMAIN db.collection :
          \/ \E public \in BOOLEAN : UpdateCollection(c, u, l, public)
          \/ DeleteCollection(c, u, l)
          \/ \E books \in SUBSET DOMAIN db.book : CheckCollected(c, u, l, books)
          \/ \E b \in DOMAIN db.book : RemoveCollected(c, u, l, b)
    \/ \E u \in Users, t \in DOMAIN db.tagname :
          \/ \E name \in TagNames : CheckRename(c, u, t, name)
          \/ DeleteTag(c, u, t)
          \/ \E o \in DOMAIN db.tagname : MergeTag(c, u, t, o)
          \/ \E who \in Users, mode \in {"allow", "block", NoValue} : RestrictTag(c, u, who, t, mode)
    \/ \E u \in Users, b \in DOMAIN db.book :
          \/ AskForTags(c, u, b, {n[1] : n \in TagNames})
          \/ \E t, o \in DOMAIN db.tagname : t # o /\ CheckConfirm(c, u, b, {t}, {o})
    \/ \E u \in Users, a \in db.authors :
          \/ \E field \in {"bio", "born"} : ReadProfile(c, u, a, field)
          \/ CheckPhoto(c, u, a)
          \/ \E o \in db.authors : MergeAuthor(c, u, a, o)
    \/ \E u \in Users : StartImport(c, u)

ListStep(c) ==
    \/ PublishShelf(c) \/ AddToShelf(c) \/ WriteOrder(c) \/ CollectBook(c) \/ WriteRename(c)
    \/ InsertSuggestions(c) \/ ConfirmTags(c) \/ WriteProfile(c) \/ StorePhoto(c) \/ SetPhoto(c) \/ RemovePhotos(c)
    \/ ImportStep(c)
=============================================================================
