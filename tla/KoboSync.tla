------------------------------ MODULE KoboSync ------------------------------
(* The handlers of the Kobo API (src/backend/src/api/kobo.rs): the sync of the
   library, reading states, and tags, which are the user's shelves. Handlers
   that only read (metadata, images, the profile, the store's mock answers) are
   left out. *)
EXTENDS KoboCalls

CONSTANTS TagNames, TagItems   \* names of tags, and the lists of books sent with them

ASSUME TagItemsAssumption == TagItems \subseteq Seq(Books)

-----------------------------------------------------------------------------
(* library_sync *)

LibrarySync(c) ==
    \E u \in MayDownload, hw \in Kobos :
        /\ Recognised(u, hw)
        /\ Known(c, "sync", u, hw, "count") \/ Unknown(c, "sync", u, hw)

\* list_kobo_books_since: WHERE of both queries
ChangedSince(d, lib, since) ==
    {b \in DOMAIN d.book : d.book[b].lib = lib /\ (since = None \/ d.book[b].mod > since)}

\* ORDER BY last_modified, id: each book has its place after those that come before it.
Earlier(d, a, b) == d.book[a].mod < d.book[b].mod \/ (d.book[a].mod = d.book[b].mod /\ a < b)
InOrder(d, set) ==
    [n \in 1..Cardinality(set) |-> CHOOSE b \in set : Cardinality({a \in set : Earlier(d, a, b)}) = n - 1]

UpTo(seq, n) == IF n < Len(seq) THEN n ELSE Len(seq)

\* Mutant: the offset of the page after.
LatePage(seq, page) == SubSeq(seq, page * PageSize + 1, UpTo(seq, (page + 1) * PageSize))

\* LIMIT page_size OFFSET (page - 1) * page_size
PageOf(seq, page) == SubSeq(seq, (page - 1) * PageSize + 1, UpTo(seq, page * PageSize))

PageNumber(c) == IF "page" \in DOMAIN call[c] THEN call[c].page ELSE 1
Collected(c) == IF "got" \in DOMAIN call[c] THEN call[c].got ELSE << >>

CountBooks(c) ==
    /\ At(c, "count")
    /\ Step(c, [at |-> "page", page |-> PageNumber(c), got |-> Collected(c),
                total |-> Cardinality(ChangedSince(db, call[c].lib, call[c].since))])
    /\ Reads

\* The rows of a page joined with formats, authors, tags and identifiers, gathered
\* into one book each; only its formats tell books apart here.
Gathered(d, books) == [b \in ToSet(books) |-> [fmt |-> d.book[b].fmt, mod |-> d.book[b].mod]]

\* build_sync_entry: a book in no format of a Kobo is left out.
Entries(gathered) == [b \in {x \in DOMAIN gathered : Supported(gathered[x])} |-> gathered[b].mod]

ReadPage(c) ==
    LET books == PageOf(InOrder(db, ChangedSince(db, call[c].lib, call[c].since)), call[c].page)
        last  == Len(books) < PageSize \/ call[c].page * PageSize >= call[c].total
    IN  /\ At(c, "page")
        /\ Step(c, [got |-> Entries(Gathered(db, books)) ++ call[c].got, page |-> call[c].page + 1,
                    at |-> IF last THEN "collections" ELSE "count"])
        /\ Reads

\* collect_collection_changes, whose result no property looks at, and the time
\* of the new token
ReadCollections(c) ==
    /\ At(c, "collections") /\ now < MaxNow
    /\ now' = now + 1
    /\ Step(c, [at |-> "store", token |-> now'])
    /\ UNCHANGED <<db, changes, home, calm, edit, held, givenUp>>

\* update_device_sync_token, by the row's id
StoreToken(c) ==
    /\ At(c, "store")
    /\ db' = IF Has(db.device, call[c].row) THEN [db EXCEPT !.device[call[c].row].token = call[c].token] ELSE db
    /\ IF call[c].waits THEN Step(c, [at |-> "answer"]) ELSE Answer(c)
    /\ UNCHANGED calm /\ Rest

\* The Kobo takes the books of the answer.
Receive(c) ==
    /\ At(c, "answer")
    /\ held' = [held EXCEPT ![call[c].hw] = call[c].got ++ @]
    /\ Answer(c)
    /\ UNCHANGED <<db, changes, home, now, edit, calm, givenUp>>

\* remove_book: the library is left as it is.
RemoveBook(hw, b) ==
    /\ Has(held[hw], b) /\ held[hw][b] # Removed
    /\ ~\E c \in Calls : Waited(c) /\ call[c].hw = hw
    /\ held' = [held EXCEPT ![hw][b] = Removed]
    /\ changes < MaxChanges /\ changes' = changes + 1
    /\ UNCHANGED <<db, home, now, edit, call, calm, givenUp>>

-----------------------------------------------------------------------------
(* update_reading_state *)

UpdateReadingState(c) ==
    \E u \in MayDownload, hw \in Kobos :
        /\ Recognised(u, hw)
        /\ Known(c, "state", u, hw, "book") \/ Unknown(c, "state", u, hw)

\* get_book_by_id and supported_format_for_book: an EPUB before a PDF
FindFormat(c, b) ==
    /\ At(c, "book")
    /\ IF Has(db.book, b) /\ db.book[b].lib = call[c].lib /\ Supported(db.book[b])
       THEN Step(c, [at |-> "state", book |-> b,
                     fmt |-> IF "EPUB" \in db.book[b].fmt THEN "EPUB" ELSE "PDF"])
       ELSE Answer(c)
    /\ Reads

\* upsert_reading_state: the row and the book must still be there.
UpsertReadingState(c) ==
    /\ At(c, "state")
    /\ IF Has(db.device, call[c].row) /\ Has(db.book, call[c].book)
       THEN /\ db' = [db EXCEPT !.reading = @ \cup {<<call[c].row, call[c].book>>}]
            /\ Step(c, [at |-> "progress"])
       ELSE UNCHANGED db /\ Answer(c)
    /\ UNCHANGED calm /\ Rest

\* Mutant: the format need not be there.
InsertAnyProgress(d, u, b, f) ==
    IF Has(d.progress, <<u, b>>) THEN d ELSE [d EXCEPT !.progress = Put(@, <<u, b>>, f)]

\* sync_progress: a row that exists keeps its format; a new one needs the format.
SyncProgress(d, u, b, f) ==
    IF Has(d.progress, <<u, b>>) \/ ~Has(d.book, b) THEN d
    ELSE IF f \in d.book[b].fmt THEN [d EXCEPT !.progress = Put(@, <<u, b>>, f)] ELSE d

SaveProgress(c) ==
    /\ At(c, "progress")
    /\ db' = SyncProgress(db, call[c].user, call[c].book, call[c].fmt)
    /\ Answer(c)
    /\ UNCHANGED calm /\ Rest

-----------------------------------------------------------------------------
(* Tags *)

TagRequest(u, hw, op, s, items) == [Request(op, u, hw, op) EXCEPT !.row = s] ++ [items |-> items]

\* UNIQUE (user_id, name)
NameTaken(shelves, u, name) == \E s \in shelves : db.shelf[s].owner = u /\ db.shelf[s].name = name

\* create_shelf
CreateKoboTag(c) ==
    \E u \in Users, hw \in Kobos, name \in TagNames, items \in TagItems :
        /\ Recognised(u, hw)
        /\ ~ NameTaken(DOMAIN db.shelf, u, name)
        /\ Begin(c, TagRequest(u, hw, "additem", c, items))
        /\ db' = [db EXCEPT !.shelf = Put(@, c, [owner |-> u, name |-> name])]
        /\ UNCHANGED calm /\ Rest

\* Mutant: any shelf will do.
AnyTag(u, s) == Has(db.shelf, s)

\* get_shelf, and that it is the user's
OwnTag(u, s) == Has(db.shelf, s) /\ db.shelf[s].owner = u

AskTag(c, op) ==
    \E u \in Users, hw \in Kobos, s \in DOMAIN db.shelf, items \in TagItems :
        /\ Recognised(u, hw) /\ OwnTag(u, s)
        /\ Begin(c, TagRequest(u, hw, op, s, items))
        /\ Reads

DeleteTag(c) ==
    /\ At(c, "deletetag")
    /\ LET gone == {s \in {call[c].row} : OwnTag(call[c].user, s)}
       IN  db' = [db EXCEPT !.shelf = Drop(@, gone), !.on = {k \in @ : k[1] \notin gone}]
    /\ Answer(c) /\ UNCHANGED calm /\ Rest

\* A name the user has on another shelf fails.
RenameTag(c, name) ==
    /\ At(c, "renametag")
    /\ LET s == call[c].row
       IN  db' = IF Has(db.shelf, s) /\ ~NameTaken(DOMAIN db.shelf \ {s}, db.shelf[s].owner, name)
                 THEN [db EXCEPT !.shelf[s].name = name] ELSE db
    /\ Answer(c) /\ UNCHANGED calm /\ Rest

\* The items one by one; one that is not a book, or whose statement fails, is
\* passed over.
NextItem(c) == IF call[c].items = << >> THEN Answer(c) ELSE Step(c, [items |-> Tail(call[c].items)])

AddItem(c) ==
    /\ At(c, "additem") /\ NextItem(c)
    /\ db' = IF call[c].items # << >> /\ Has(db.book, Head(call[c].items)) /\ Has(db.shelf, call[c].row)
             THEN [db EXCEPT !.on = @ \cup {<<call[c].row, Head(call[c].items)>>}] ELSE db
    /\ UNCHANGED calm /\ Rest

RemoveItem(c) ==
    /\ At(c, "removeitem") /\ NextItem(c)
    /\ db' = IF call[c].items # << >> /\ Has(db.book, Head(call[c].items))
             THEN [db EXCEPT !.on = @ \ {<<call[c].row, Head(call[c].items)>>}] ELSE db
    /\ UNCHANGED calm /\ Rest

-----------------------------------------------------------------------------
SyncStep(c) == LibrarySync(c) \/ CountBooks(c) \/ ReadPage(c) \/ ReadCollections(c) \/ StoreToken(c) \/ Receive(c)
StateStep(c) == \/ UpdateReadingState(c) \/ UpsertReadingState(c) \/ SaveProgress(c)
                \/ \E b \in Books : FindFormat(c, b)
TagStep(c) == \/ CreateKoboTag(c) \/ DeleteTag(c) \/ AddItem(c) \/ RemoveItem(c)
              \/ \E op \in {"deletetag", "renametag", "additem", "removeitem"} : AskTag(c, op)
              \/ \E name \in TagNames : RenameTag(c, name)
DeviceStep(c) == Initialization(c) \/ Register(c) \/ Reread(c) \/ GiveUp(c)
LibraryChanges == \/ \E b \in Books : StartEdit(b) \/ MigrateBook(b) \/ DeleteBook(b) \/ MoveFormat(b) \/ \E f \in KoboFormats : DeleteFormat(b, f)
                  \/ \E e \in edit : CommitEdit(e)
                  \/ \E r \in DOMAIN db.device : DeleteKoboDevice(r)
                  \/ \E u \in Users : SetDefaultLibrary(u)

Next == \/ \E c \in Calls : SyncStep(c) \/ StateStep(c) \/ TagStep(c) \/ DeviceStep(c)
        \/ LibraryChanges
        \/ \E hw \in Kobos, b \in Books : RemoveBook(hw, b)

Spec == Init /\ [][Next]_vars

-----------------------------------------------------------------------------
(* Properties *)

\* The constraints of the tables (References) hold through every interleaving of
\* a Kobo's requests with deletions of what they have looked at: the row they
\* work for, the book and its format, the shelf.
TypeOK ==
    /\ now \in 0..MaxNow /\ edit \subseteq [book : Books, at : 1..MaxNow, new : BOOLEAN]
    /\ Columns(db) /\ References(db) /\ home \in [Users -> Libraries]

\* What a token promises: every book of the owner's library, in a format of a
\* Kobo and not changed since, is on the Kobo as it is now (or was removed
\* there by its reader), once the answer has arrived.
Promised(hw, r) ==
    LET row == db.device[r] IN
    row.token # None /\ (\A c \in Calls : SyncOf(c, hw) => call[c].at # "answer")
    => \A b \in DOMAIN CopiesUpTo(db, row) : Has(held[hw], b) /\ held[hw][b] \in {db.book[b].mod, Removed}

\* A Kobo whose syncs were not disturbed has what its token promises, whatever
\* else overlaps: other users' requests, registrations, removed rows, reading
\* states. What disturbs them: a book changed, brought or deleted while a sync
\* reads its pages; a change committed after a token was taken that had read the
\* clock before; a book of xs-migrate as old as a token or older; a format moved
\* in by a merge; another default library of the user; an answer given up; a row
\* claimed by another user while a sync works for it.
NothingMissed == \A hw \in Kobos : calm[hw] => \A r \in RowsOf(db, hw) : Promised(hw, r)

\* A shelf's name and books are changed only by a request of its owner for this
\* shelf, and by what happens to the books, whatever is deleted and made anew
\* between the look at the shelf and the statement.
Content(d, s) == IF Has(d.shelf, s) THEN <<d.shelf[s].name, {k[2] : k \in {x \in d.on : x[1] = s}} \cap DOMAIN d.book>> ELSE << >>
OnlyOwnShelves ==
    [][\A s \in DOMAIN db.shelf :
          \/ Content(db', s) = Content(db, s)
          \/ DOMAIN db'.book # DOMAIN db.book
          \/ \E c \in Calls : /\ InFlight(c) /\ call'[c] # call[c] /\ call[c].row = s
                              /\ call[c].user = db.shelf[s].owner]_vars
=============================================================================
