------------------------------ MODULE KoboCalls ------------------------------
(* What a Kobo synchronises with, and the steps every request of a Kobo has
   (src/backend/src/middleware/kobo.rs, db/queries/kobo.rs).

     book      book -> [lib, mod, fmt]: its library, last_modified and formats
     device    row of kobo_devices -> [hw, owner, token]
     reading   kobo_reading_state: <<row, book>>
     progress  reading_progress: <<user, book>> -> format
     shelf     shelf -> [owner, name]
     on        shelf_books: <<shelf, book>>
     gone      books that were deleted; an id is not used again

   A Kobo (its X-Kobo-DeviceId is "hw") makes one request at a time and, when it
   has given up waiting, drops the answer; the server finishes the request all
   the same. What a Kobo holds is a function from books to the last_modified of
   the copy, or Removed. Positions and percentages are left out, and so are the
   reader's times: the code stores them as they come and never compares them.

   "calm" is history: FALSE once something has happened to a Kobo that its syncs
   are known not to survive (Disturbed, Missed, GiveUp, TakenOver, CalmFrom and
   MoveFormat say what), until it is read everything anew. Books that xs-migrate
   brings have a stamp of the past; one of the future is left out. *)
EXTENDS Integers, FiniteSets, SequencesExt, Tables

CONSTANTS Calls,        \* requests of a behaviour, 1..n in the order they begin
          InitDbs,      \* databases a behaviour may start with
          Users, Kobos,
          Books,        \* every book there may ever be
          Libraries,
          InitHome,     \* default_library_id of the users at the start
          MergedInto,   \* books that merges move formats into
          NewLibrary,   \* the library of an upload
          MayDownload,  \* users whose role can download
          PageSize,     \* KOBO_PAGE_SIZE
          None, Removed,
          MaxNow,       \* bound: readings of the clock
          MaxGivenUp,   \* bound: requests a Kobo gives up
          MaxChanges    \* bound: changes that are not of a Kobo's request, and removals

ASSUME KoboCallsAssumption == Calls = 1..Cardinality(Calls)
ASSUME KoboBoundsAssumption ==
    PageSize \in Nat \ {0} /\ MaxNow \in Nat /\ MaxNow >= 3 /\ MaxGivenUp \in Nat /\ MaxChanges \in Nat
ASSUME BooksAssumption == Books \subseteq Int /\ None \notin Int   \* ids, numbers in their order
ASSUME UsersAssumption == MayDownload \subseteq Users /\ InitHome \in [Users -> Libraries]

\* The columns of the tables, ...
Columns(d) ==
    /\ DOMAIN d = {"book", "device", "reading", "progress", "shelf", "on", "gone"}
    /\ \A b \in DOMAIN d.book : DOMAIN d.book[b] = {"lib", "mod", "fmt"}
    /\ \A r \in DOMAIN d.device : DOMAIN d.device[r] = {"hw", "owner", "token"}
    /\ \A s \in DOMAIN d.shelf : DOMAIN d.shelf[s] = {"owner", "name"}

\* ... and their constraints: a Kobo has one row; reading states are of rows and
\* books that exist, progress is in a format of its book, a shelf has books that
\* exist, and the shelves of a user differ in name.
References(d) ==
    /\ \A q, r \in DOMAIN d.device : d.device[q].hw = d.device[r].hw => q = r
    /\ \A r \in DOMAIN d.device : d.device[r].owner \in Users /\ d.device[r].token \in {None} \cup 0..MaxNow
    /\ \A k \in d.reading : Has(d.device, k[1]) /\ Has(d.book, k[2])
    /\ \A k \in DOMAIN d.progress : Has(d.book, k[2]) /\ d.progress[k] \in d.book[k[2]].fmt
    /\ \A k \in d.on : Has(d.shelf, k[1]) /\ Has(d.book, k[2])
    /\ \A s, t \in DOMAIN d.shelf : d.shelf[s].owner = d.shelf[t].owner /\ d.shelf[s].name = d.shelf[t].name => s = t

\* No time in a database is in the future.
StampedUpTo(d, n) ==
    /\ \A b \in DOMAIN d.book : d.book[b].mod \in 0..n
    /\ \A r \in DOMAIN d.device : d.device[r].token \in {None} \cup 0..n

\* What a behaviour starts with satisfies them, and its rows have no number a
\* request will use.
ASSUME KoboDbsAssumption ==
    \A d \in InitDbs : /\ Columns(d) /\ References(d) /\ StampedUpTo(d, 3)
                       /\ Calls \cap (DOMAIN d.shelf \cup DOMAIN d.device) = {}
                       /\ DOMAIN d.book \subseteq Books /\ IsFiniteSet(DOMAIN d.book)

VARIABLES db, changes,
          home,     \* home[u]: default_library_id
          now,      \* the last reading of the clock; no two readings are alike
          edit,     \* changes of books that have read the clock and not committed
          call, held, calm, givenUp

vars == <<db, changes, home, now, edit, call, held, calm, givenUp>>

New == [op |-> "new"]
Over == [op |-> "over"]

KoboFormats == {"EPUB", "PDF"}
Supported(book) == book.fmt \cap KoboFormats # {}

\* What a Kobo has that has synchronised up to its token
CopiesUpTo(d, row) ==
    LET sent == {b \in DOMAIN d.book : /\ d.book[b].lib = home[row.owner] /\ Supported(d.book[b])
                                       /\ row.token # None /\ d.book[b].mod <= row.token}
    IN  [b \in sent |-> d.book[b].mod]

RowsOf(d, hw) == {r \in DOMAIN d.device : d.device[r].hw = hw}

Init == /\ db \in InitDbs
        /\ now = 3 /\ edit = {} /\ home = InitHome
        /\ call = [c \in Calls |-> New]
        /\ held = [hw \in Kobos |-> IF RowsOf(db, hw) = {} THEN << >>
                                    ELSE CopiesUpTo(db, db.device[CHOOSE r \in RowsOf(db, hw) : TRUE])]
        /\ calm = [hw \in Kobos |-> TRUE]
        /\ givenUp = 0 /\ changes = 0

-----------------------------------------------------------------------------
(* Requests *)

InFlight(c) == call[c] \notin {New, Over}
At(c, stage) == InFlight(c) /\ call[c].at = stage
Waited(c) == InFlight(c) /\ call[c].waits
SyncOf(c, hw) == InFlight(c) /\ call[c].op = "sync" /\ call[c].hw = hw

\* kobo_auth: the token's user with the default library of now, and the Kobo's
\* row when it has one, which must be the user's
Recognised(u, hw) == \A r \in RowsOf(db, hw) : db.device[r].owner = u

Request(op, u, hw, stage) ==
    [op |-> op, user |-> u, lib |-> home[u], hw |-> hw, at |-> stage, waits |-> TRUE, row |-> None, since |-> None]

Begin(c, request) ==
    /\ call[c] = New /\ \A e \in Calls : e < c => call[e] # New
    /\ ~\E e \in Calls : Waited(e) /\ call[e].hw = request.hw
    /\ call' = [call EXCEPT ![c] = request]

Answer(c) == call' = [call EXCEPT ![c] = Over]
Step(c, change) == call' = [call EXCEPT ![c] = change ++ @]
Rest == UNCHANGED <<changes, home, now, edit, held, givenUp>>
Reads == UNCHANGED <<db, calm>> /\ Rest

-----------------------------------------------------------------------------
(* ensure_device: a Kobo without a row is registered and read back. *)

\* A sync of everything makes good what was missed before, if the library it
\* looks at is still the user's; one for a row that is another user's by now
\* misses that user's books.
CalmFrom(c, op, u, hw, row) ==
    IF op # "sync" THEN calm
    ELSE IF row.owner # u THEN [calm EXCEPT ![hw] = FALSE]
    ELSE IF (call[c] = New \/ (call[c].waits /\ call[c].lib = home[u])) /\ row.token = None /\ ~\E e \in Calls \ {c} : SyncOf(e, hw)
    THEN [calm EXCEPT ![hw] = TRUE] ELSE calm

Known(c, op, u, hw, stage) ==
    \E r \in RowsOf(db, hw) :
        /\ Begin(c, [Request(op, u, hw, stage) EXCEPT !.row = r, !.since = db.device[r].token])
        /\ calm' = CalmFrom(c, op, u, hw, db.device[r])
        /\ UNCHANGED db /\ Rest

Unknown(c, op, u, hw) ==
    /\ RowsOf(db, hw) = {}
    /\ Begin(c, Request(op, u, hw, "register"))
    /\ Reads

\* upsert_device
UpsertDevice(d, c, u, hw) ==
    IF RowsOf(d, hw) = {} THEN [d EXCEPT !.device = Put(@, c, [hw |-> hw, owner |-> u, token |-> None])]
    ELSE [d EXCEPT !.device = [r \in DOMAIN @ |->
            IF @[r].hw # hw \/ @[r].owner = u THEN @[r] ELSE [@[r] EXCEPT !.owner = u, !.token = None]]]

\* The row of a sync that is under way becomes another user's.
TakenOver(u, hw) == \E r \in RowsOf(db, hw) : db.device[r].owner # u /\ \E e \in Calls : SyncOf(e, hw) /\ call[e].row = r

Register(c) ==
    /\ At(c, "register")
    /\ db' = UpsertDevice(db, c, call[c].user, call[c].hw)
    /\ Step(c, [at |-> "reread"])
    /\ calm' = [calm EXCEPT ![call[c].hw] = @ /\ ~TakenOver(call[c].user, call[c].hw)]
    /\ Rest

\* The stage after ensure_device
Stage(op) == IF op = "sync" THEN "count" ELSE "book"

\* The row is whoever's it is by now; without one the request fails.
Reread(c) ==
    /\ At(c, "reread")
    /\ IF RowsOf(db, call[c].hw) = {} \/ call[c].op = "initialization"
       THEN Answer(c) /\ UNCHANGED calm
       ELSE \E r \in RowsOf(db, call[c].hw) :
              /\ Step(c, [at |-> Stage(call[c].op), row |-> r, since |-> db.device[r].token])
              /\ calm' = CalmFrom(c, call[c].op, call[c].user, call[c].hw, db.device[r])
    /\ UNCHANGED db /\ Rest

Initialization(c) == \E u \in Users, hw \in Kobos : Unknown(c, "initialization", u, hw)

\* The Kobo drops the answer; of a sync it has lost what the answer carries.
GiveUp(c) ==
    /\ Waited(c) /\ givenUp < MaxGivenUp
    /\ givenUp' = givenUp + 1
    /\ IF call[c].at = "answer" THEN Answer(c) ELSE Step(c, [waits |-> FALSE])
    /\ calm' = IF call[c].op = "sync" THEN [calm EXCEPT ![call[c].hw] = FALSE] ELSE calm
    /\ UNCHANGED <<db, changes, home, now, edit, held>>

-----------------------------------------------------------------------------
(* Changes of the library, by requests that are not a Kobo's *)

\* A sync that has read a page and not yet the time of its token
Reading(c) == InFlight(c) /\ call[c].op = "sync" /\ call[c].at \in {"count", "page", "collections"}
                          /\ (call[c].at = "count" => "page" \in DOMAIN call[c] /\ call[c].page > 1)

\* A change stamped "at" moves books between the pages of a sync that is being
\* read, and is older than a token taken since "at".
Disturbed(hw, at) ==
    \/ \E c \in Calls : SyncOf(c, hw) /\ (Reading(c) \/ (call[c].at \in {"store", "answer"} /\ call[c].token > at))
    \/ \E r \in RowsOf(db, hw) : db.device[r].token # None /\ db.device[r].token > at

CalmAfter(at) == calm' = [hw \in Kobos |-> calm[hw] /\ ~Disturbed(hw, at)]

Change == changes < MaxChanges /\ changes' = changes + 1 /\ UNCHANGED <<call, held, givenUp>>
Elsewhere == Change /\ UNCHANGED home

\* An upload, a patch or a bulk edit reads the clock and writes the book later.
StartEdit(b) ==
    /\ edit = {} /\ now < MaxNow /\ b \notin db.gone
    /\ now' = now + 1
    /\ edit' = {[book |-> b, at |-> now', new |-> ~Has(db.book, b)]}
    /\ UNCHANGED <<db, calm>> /\ Elsewhere

\* A patch of a book that is gone by now fails.
CommitEdit(e) ==
    /\ edit' = edit \ {e}
    /\ db' = IF e.new THEN [db EXCEPT !.book = Put(@, e.book, [lib |-> NewLibrary, mod |-> e.at, fmt |-> {"EPUB"}])]
             ELSE IF Has(db.book, e.book) THEN [db EXCEPT !.book[e.book].mod = e.at]
             ELSE db
    /\ CalmAfter(e.at)
    /\ UNCHANGED <<changes, home, now, call, held, givenUp>>

\* xs-migrate inserts a book with the last_modified it has in Calibre, which may
\* be older than a token, or the same.
MigrateBook(b) ==
    /\ ~Has(db.book, b) /\ b \notin db.gone /\ \A e \in edit : e.book # b
    /\ \E at \in 0..now, lib \in Libraries :
          /\ db' = [db EXCEPT !.book = Put(@, b, [lib |-> lib, mod |-> at, fmt |-> {"EPUB"}])]
          /\ CalmAfter(at - 1)
    /\ UNCHANGED <<now, edit>> /\ Elsewhere

\* A book is deleted with the rows that cascade.
DeleteBook(b) ==
    /\ Has(db.book, b)
    /\ db' = [db EXCEPT !.book = Drop(@, {b}), !.gone = @ \cup {b}, !.reading = {k \in @ : k[2] # b},
                        !.progress = Drop(@, KeysWith(@, 2, b)), !.on = {k \in @ : k[2] # b}]
    /\ CalmAfter(now)
    /\ UNCHANGED <<now, edit>> /\ Elsewhere

\* A merge moves a format into a book and leaves its last_modified.
MoveFormat(b) ==
    /\ b \in MergedInto /\ Has(db.book, b) /\ ~Supported(db.book[b])
    /\ db' = [db EXCEPT !.book[b].fmt = @ \cup {"EPUB"}]
    /\ calm' = [hw \in Kobos |-> FALSE]
    /\ UNCHANGED <<now, edit>> /\ Elsewhere

\* A format is deleted, and the progress in it.
DeleteFormat(b, f) ==
    /\ Has(db.book, b) /\ f \in db.book[b].fmt
    /\ db' = [db EXCEPT !.book[b].fmt = @ \ {f},
                        !.progress = Drop(@, {k \in DOMAIN @ : k[2] = b /\ @[k] = f})]
    /\ UNCHANGED <<now, edit, calm>> /\ Elsewhere

\* What the syncs of a user's Kobo have brought is not the library it asks for
\* next.
Missed(u, hw) ==
    \/ \E c \in Calls : SyncOf(c, hw) /\ call[c].user = u
    \/ \E r \in RowsOf(db, hw) : db.device[r].owner = u /\ db.device[r].token # None

\* update_default_library: the tokens stay as they are.
SetDefaultLibrary(u) ==
    /\ \E lib \in Libraries : home' = [home EXCEPT ![u] = lib]
    /\ home' # home
    /\ calm' = [hw \in Kobos |-> calm[hw] /\ ~Missed(u, hw)]
    /\ UNCHANGED <<db, now, edit>> /\ Change

\* delete_kobo_device
DeleteKoboDevice(r) ==
    /\ Has(db.device, r)
    /\ db' = [db EXCEPT !.device = Drop(@, {r}), !.reading = {k \in @ : k[1] # r}]
    /\ UNCHANGED <<now, edit, calm>> /\ Elsewhere
=============================================================================
