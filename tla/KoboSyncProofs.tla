--------------------------- MODULE KoboSyncProofs ---------------------------
(* Proofs about the Kobo API: the constraints of its tables, that shelves are
   changed by their owners only, and that a Kobo whose syncs were not disturbed
   has what its token promises.                                              *)
EXTENDS KoboSync, FiniteSetTheorems, SequenceTheorems, TLAPS

-----------------------------------------------------------------------------
(* The requests under way.                                                   *)

TagStages == {"deletetag", "renametag", "additem", "removeitem"}

\* What is known of a request at every stage, ...
RequestOK(r) ==
    /\ {"op", "user", "lib", "hw", "at", "waits", "row", "since"} \subseteq DOMAIN r
    /\ r.op \notin {"new", "over"} /\ r.user \in Users
    \* ... from the time of the token on, ...
    /\ r.at \in {"store", "answer"} => "token" \in DOMAIN r /\ r.token \in 0..MaxNow
    \* ... and while it works on a shelf.
    /\ r.at \in TagStages => "items" \in DOMAIN r /\ r.items \in Seq(Books)

CallsOK == DOMAIN call = Calls /\ \A c \in Calls : InFlight(c) => RequestOK(call[c])

\* A request with the fields of all requests is neither new nor over.
LEMMA RequestsAreInFlight == ASSUME NEW r, RequestOK(r) PROVE r \notin {New, Over}
  BY DEF RequestOK, New, Over

\* A request that is begun, goes on or is answered
Others(c) == DOMAIN call' = Calls /\ \A e \in Calls \ {c} : call'[e] = call[e]

Starts(c) ==
    /\ call[c] = New /\ Others(c) /\ RequestOK(call'[c])

Goes(c) ==
    /\ InFlight(c) /\ Others(c)
    /\ \/ call'[c] = Over
       \/ /\ RequestOK(call'[c]) /\ call'[c].user = call[c].user
          /\ call'[c].at \in TagStages => call[c].at = call'[c].at /\ call[c].row = call'[c].row

LEMMA BeginStarts ==
    ASSUME CallsOK, NEW c \in Calls, NEW r, Begin(c, r), RequestOK(r)
    PROVE  Starts(c) /\ call'[c] = r
  BY DEF CallsOK, Begin, Starts, Others

LEMMA AnswerGoes ==
    ASSUME CallsOK, NEW c \in Calls, InFlight(c), Answer(c)
    PROVE  Goes(c) /\ call'[c] = Over
  BY DEF CallsOK, Answer, Goes, Others

\* Fields laid over a row: those given are as given, the others as they were.
LEMMA Overlay ==
    ASSUME NEW f, NEW g
    PROVE  /\ DOMAIN (f ++ g) = DOMAIN f \cup DOMAIN g
           /\ \A x \in DOMAIN f : (f ++ g)[x] = f[x]
           /\ \A x \in DOMAIN g \ DOMAIN f : (f ++ g)[x] = g[x]
  BY DEF ++

\* A step that changes no more than where a request stands, and what it has read
LEMMA StepGoes ==
    ASSUME CallsOK, NEW c \in Calls, InFlight(c), NEW change, Step(c, change),
           DOMAIN change \cap {"op", "user"} = {},
           "at" \in DOMAIN change => change.at \notin TagStages,
           "at" \notin DOMAIN change => "row" \notin DOMAIN change,
           "items" \in DOMAIN change => change.items \in Seq(Books),
           "at" \in DOMAIN change /\ change.at \in {"store", "answer"} =>
                \/ "token" \in DOMAIN change /\ change.token \in 0..MaxNow
                \/ "token" \notin DOMAIN change /\ call[c].at = "store",
           "at" \notin DOMAIN change => "token" \notin DOMAIN change
    PROVE  Goes(c) /\ call'[c] = change ++ call[c]
  <1> DEFINE r == call[c]
             s == change ++ call[c]
  <1>1. call'[c] = s /\ Others(c)
    BY DEF CallsOK, Step, Others
  <1>2. RequestOK(r)
    BY DEF CallsOK
  <1>3. /\ DOMAIN s = DOMAIN change \cup DOMAIN r
        /\ \A x \in DOMAIN change : s[x] = change[x]
        /\ \A x \in DOMAIN r \ DOMAIN change : s[x] = r[x]
    BY Overlay
  <1>4. s.op = r.op /\ s.user = r.user
    BY <1>2, <1>3 DEF RequestOK
  <1>5. s.at \in TagStages => /\ r.at = s.at /\ r.row = s.row /\ "items" \in DOMAIN s
                              /\ s.items \in Seq(Books)
    BY <1>2, <1>3 DEF RequestOK
  <1>6. s.at \in {"store", "answer"} => "token" \in DOMAIN s /\ s.token \in 0..MaxNow
    BY <1>2, <1>3 DEF RequestOK
  <1>7. RequestOK(s)
    BY <1>2, <1>3, <1>4, <1>5, <1>6 DEF RequestOK
  <1> HIDE DEF r, s
  <1> QED BY <1>1, <1>4, <1>5, <1>7 DEF Goes, r, s

\* The requests that are begun without a shelf, ...
LEMMA DeviceRequestsStart ==
    ASSUME CallsOK, NEW c \in Calls,
           LibrarySync(c) \/ UpdateReadingState(c) \/ Initialization(c)
    PROVE  Starts(c) /\ call'[c].at \notin TagStages
  <1>1. ASSUME NEW op \in {"sync", "state", "initialization"}, NEW u \in Users, NEW hw \in Kobos,
               NEW stage \in {"count", "book"}, Known(c, op, u, hw, stage) \/ Unknown(c, op, u, hw)
        PROVE  Starts(c) /\ call'[c].at \notin TagStages
    <2>1. PICK r : RequestOK(r) /\ r.at \notin TagStages /\ Begin(c, r)
      <3>1. CASE Known(c, op, u, hw, stage)
        BY <1>1, <3>1 DEF Known, Request, RequestOK, TagStages
      <3>2. CASE Unknown(c, op, u, hw)
        BY <1>1, <3>2 DEF Unknown, Request, RequestOK, TagStages
      <3> QED BY <1>1, <3>1, <3>2
    <2> QED BY <2>1, BeginStarts
  <1> QED BY <1>1, UsersAssumption DEF LibrarySync, UpdateReadingState, Initialization

\* ... and those for a shelf.
LEMMA TagRequestOK ==
    ASSUME NEW u \in Users, NEW hw, NEW op \in TagStages, NEW s, NEW items \in TagItems
    PROVE  LET r == TagRequest(u, hw, op, s, items)
           IN  RequestOK(r) /\ r.row = s /\ r.user = u /\ r.at = op
  <1> DEFINE q == [Request(op, u, hw, op) EXCEPT !.row = s]
             r == q ++ [items |-> items]
  <1>1. /\ DOMAIN q = {"op", "user", "lib", "hw", "at", "waits", "row", "since"}
        /\ q.op = op /\ q.user = u /\ q.at = op /\ q.row = s
    BY DEF Request
  <1> HIDE DEF q
  <1>2. DOMAIN r = DOMAIN q \cup {"items"} /\ r.items = items /\ \A x \in DOMAIN q : r[x] = q[x]
    <2>1. "items" \notin DOMAIN q
      BY <1>1
    <2>2. DOMAIN [items |-> items] = {"items"} /\ [items |-> items]["items"] = items
      OBVIOUS
    <2> QED BY <2>1, <2>2 DEF ++
  <1>3. items \in Seq(Books)
    BY TagItemsAssumption
  <1> HIDE DEF r
  <1>4. RequestOK(r) /\ r.row = s /\ r.user = u /\ r.at = op
    BY <1>1, <1>2, <1>3 DEF RequestOK, TagStages
  <1> QED BY <1>4 DEF TagRequest, q, r

\* What create_kobo_tag writes
ShelfIsMade(s, u, name) ==
    /\ ~NameTaken(DOMAIN db.shelf, u, name)
    /\ db' = [db EXCEPT !.shelf = Put(@, s, [owner |-> u, name |-> name])]

LEMMA TagRequestsStart ==
    ASSUME CallsOK, NEW c \in Calls
    PROVE  /\ CreateKoboTag(c) =>
                 /\ Starts(c) /\ call'[c].row = c
                 /\ \E name \in TagNames : ShelfIsMade(c, call'[c].user, name)
           /\ \A op \in TagStages :
                 AskTag(c, op) => /\ Starts(c) /\ db' = db /\ Has(db.shelf, call'[c].row)
                                  /\ db.shelf[call'[c].row].owner = call'[c].user
  <1>1. ASSUME CreateKoboTag(c)
        PROVE  /\ Starts(c) /\ call'[c].row = c
               /\ \E name \in TagNames : ShelfIsMade(c, call'[c].user, name)
    <2>1. PICK u \in Users, hw \in Kobos, name \in TagNames, items \in TagItems :
                 Begin(c, TagRequest(u, hw, "additem", c, items)) /\ ShelfIsMade(c, u, name)
      BY <1>1 DEF CreateKoboTag, ShelfIsMade
    <2> QED BY <2>1, BeginStarts, TagRequestOK DEF TagStages
  <1>2. ASSUME NEW op \in TagStages, AskTag(c, op)
        PROVE  /\ Starts(c) /\ db' = db /\ Has(db.shelf, call'[c].row)
               /\ db.shelf[call'[c].row].owner = call'[c].user
    BY <1>2, BeginStarts, TagRequestOK DEF AskTag, OwnTag, Reads
  <1> QED BY <1>1, <1>2

\* The steps of a request that is under way
GoesOn(c) ==
    \/ CountBooks(c) \/ ReadPage(c) \/ ReadCollections(c) \/ StoreToken(c) \/ Receive(c)
    \/ UpsertReadingState(c) \/ SaveProgress(c) \/ \E b \in Books : FindFormat(c, b)
    \/ DeleteTag(c) \/ AddItem(c) \/ RemoveItem(c) \/ \E name \in TagNames : RenameTag(c, name)
    \/ Register(c) \/ Reread(c) \/ GiveUp(c)

LEMMA StepsGo == ASSUME TypeOK, CallsOK, NEW c \in Calls, GoesOn(c) PROVE Goes(c)
  <1> USE DEF At, TagStages
  <1>1. ASSUME CountBooks(c) \/ ReadPage(c)
        PROVE  Goes(c)
    BY <1>1, StepGoes DEF CountBooks, ReadPage
  <1>2. ASSUME ReadCollections(c)
        PROVE  Goes(c)
    <2>1. now' \in 0..MaxNow
      BY <1>2, KoboBoundsAssumption DEF ReadCollections, TypeOK
    <2> QED BY <1>2, <2>1, StepGoes DEF ReadCollections
  <1>3. ASSUME StoreToken(c)
        PROVE  Goes(c)
    BY <1>3, StepGoes, AnswerGoes DEF StoreToken
  <1>4. ASSUME Receive(c) \/ SaveProgress(c) \/ DeleteTag(c) \/ \E name \in TagNames : RenameTag(c, name)
        PROVE  Goes(c)
    BY <1>4, AnswerGoes DEF Receive, SaveProgress, DeleteTag, RenameTag
  <1>5. ASSUME UpsertReadingState(c)
        PROVE  Goes(c)
    BY <1>5, StepGoes, AnswerGoes DEF UpsertReadingState
  <1>6. ASSUME NEW b \in Books, FindFormat(c, b)
        PROVE  Goes(c)
    BY <1>6, StepGoes, AnswerGoes DEF FindFormat
  <1>7. ASSUME AddItem(c) \/ RemoveItem(c)
        PROVE  Goes(c)
    <2>1. InFlight(c) /\ call[c].items \in Seq(Books) /\ NextItem(c)
      BY <1>7 DEF AddItem, RemoveItem, CallsOK, RequestOK
    <2>2. CASE call[c].items # << >>
      BY <2>1, <2>2, StepGoes, SMTT(40) DEF NextItem
    <2> QED BY <2>1, <2>2, AnswerGoes DEF NextItem
  <1>8. ASSUME Register(c)
        PROVE  Goes(c)
    BY <1>8, StepGoes DEF Register
  <1>9. ASSUME Reread(c)
        PROVE  Goes(c)
    BY <1>9, StepGoes, AnswerGoes DEF Reread, Stage
  <1>10. ASSUME GiveUp(c)
        PROVE  Goes(c)
    BY <1>10, StepGoes, AnswerGoes DEF GiveUp, Waited
  <1> QED BY <1>1, <1>2, <1>3, <1>4, <1>5, <1>6, <1>7, <1>8, <1>9, <1>10 DEF GoesOn

\* Every step begins a request, goes on with one, or leaves them alone.
NoRequest ==
    \/ LibraryChanges
    \/ \E hw \in Kobos, b \in Books : RemoveBook(hw, b)
    \/ UNCHANGED vars

LEMMA StepOfRequests ==
    ASSUME [Next]_vars
    PROVE  \/ \E c \in Calls : \/ LibrarySync(c) \/ UpdateReadingState(c) \/ Initialization(c)
                               \/ CreateKoboTag(c) \/ \E op \in TagStages : AskTag(c, op)
                               \/ GoesOn(c)
           \/ NoRequest
  BY DEF Next, SyncStep, StateStep, TagStep, DeviceStep, GoesOn, NoRequest, TagStages

LEMMA CallsStep == ASSUME TypeOK, CallsOK, [Next]_vars PROVE CallsOK'
  <1>1. ASSUME NEW c \in Calls, Starts(c) \/ Goes(c)
        PROVE  CallsOK'
    BY <1>1 DEF CallsOK, Starts, Goes, Others, InFlight
  <1>2. CASE NoRequest
    BY <1>2 DEF NoRequest, LibraryChanges, StartEdit, MigrateBook, SetDefaultLibrary, DeleteBook, MoveFormat, DeleteFormat, CommitEdit, DeleteKoboDevice,
       Elsewhere, Change, RemoveBook, vars, CallsOK, InFlight
  <1> QED BY <1>1, <1>2, StepOfRequests, DeviceRequestsStart, TagRequestsStart, StepsGo

-----------------------------------------------------------------------------
(* The constraints of the tables, one statement after the other.             *)

DbOK(d) == Columns(d) /\ References(d)

\* The statements of a Kobo's requests
LEMMA UpsertDeviceKeeps ==
    ASSUME NEW d, DbOK(d), NEW c, NEW u \in Users, NEW hw
    PROVE  DbOK(UpsertDevice(d, c, u, hw))
  <1> DEFINE e == UpsertDevice(d, c, u, hw)
  <1>1. CASE RowsOf(d, hw) = {}
    <2>1. e = [d EXCEPT !.device = Put(@, c, [hw |-> hw, owner |-> u, token |-> None])]
      BY <1>1 DEF UpsertDevice
    <2>2. \A r \in DOMAIN d.device : d.device[r].hw # hw
      BY <1>1 DEF RowsOf
    <2> QED BY <2>1, <2>2 DEF DbOK, Columns, References, Put, Has
  <1>2. CASE RowsOf(d, hw) # {}
    <2> DEFINE rows == [r \in DOMAIN d.device |->
                          IF d.device[r].hw # hw \/ d.device[r].owner = u THEN d.device[r]
                          ELSE [d.device[r] EXCEPT !.owner = u, !.token = None]]
    <2>1. e = [d EXCEPT !.device = rows]
      BY <1>2 DEF UpsertDevice
    <2> HIDE DEF rows
    <2>2. /\ DOMAIN e = DOMAIN d /\ e.device = rows
          /\ e.book = d.book /\ e.reading = d.reading /\ e.progress = d.progress /\ e.shelf = d.shelf /\ e.on = d.on
      BY <2>1 DEF DbOK, Columns
    <2> HIDE DEF e
    <2>3. DOMAIN rows = DOMAIN d.device /\ \A r \in DOMAIN d.device :
                /\ DOMAIN rows[r] = {"hw", "owner", "token"} /\ rows[r].hw = d.device[r].hw
                /\ rows[r].owner \in Users /\ rows[r].token \in {None} \cup 0..MaxNow
      <3>1. DOMAIN rows = DOMAIN d.device
        BY DEF rows
      <3>2. ASSUME NEW r \in DOMAIN d.device
            PROVE  /\ DOMAIN rows[r] = {"hw", "owner", "token"} /\ rows[r].hw = d.device[r].hw
                   /\ rows[r].owner \in Users /\ rows[r].token \in {None} \cup 0..MaxNow
        <4>1. DOMAIN d.device[r] = {"hw", "owner", "token"} /\ d.device[r].owner \in Users
              /\ d.device[r].token \in {None} \cup 0..MaxNow
          BY DEF DbOK, Columns, References
        <4>2. CASE d.device[r].hw # hw \/ d.device[r].owner = u
          BY <4>1, <4>2 DEF rows
        <4>3. CASE ~(d.device[r].hw # hw \/ d.device[r].owner = u)
          <5>1. rows[r] = [d.device[r] EXCEPT !.owner = u, !.token = None]
            BY <4>3 DEF rows
          <5> QED BY <4>1, <5>1
        <4> QED BY <4>2, <4>3
      <3> QED BY <3>1, <3>2
    <2>4. Columns(e)
      BY <2>2, <2>3 DEF DbOK, Columns
    <2>5. References(e)
      BY <2>2, <2>3 DEF DbOK, References, Has
    <2>6. DbOK(e)
      BY <2>4, <2>5 DEF DbOK
    <2> QED BY <2>6 DEF e
  <1> QED BY <1>1, <1>2

LEMMA StoreTokenKeeps ==
    ASSUME NEW d, DbOK(d), NEW r \in DOMAIN d.device, NEW t \in 0..MaxNow
    PROVE  DbOK([d EXCEPT !.device[r].token = t])
  BY DEF DbOK, Columns, References, Has

LEMMA ReadingStateKeeps ==
    ASSUME NEW d, DbOK(d), NEW r \in DOMAIN d.device, NEW b \in DOMAIN d.book
    PROVE  DbOK([d EXCEPT !.reading = @ \cup {<<r, b>>}])
  BY DEF DbOK, Columns, References, Has

LEMMA SyncProgressKeeps ==
    ASSUME NEW d, DbOK(d), NEW u, NEW b, NEW f
    PROVE  DbOK(SyncProgress(d, u, b, f))
  BY DEF DbOK, Columns, References, Has, SyncProgress, Put

\* Shelves
LEMMA ShelfIsMadeKeeps ==
    ASSUME DbOK(db), NEW s, s \notin DOMAIN db.shelf, NEW u, NEW name, ShelfIsMade(s, u, name)
    PROVE  DbOK(db')
  BY DEF DbOK, Columns, References, Has, ShelfIsMade, NameTaken, Put

LEMMA DeleteShelfKeeps ==
    ASSUME NEW d, DbOK(d), NEW S
    PROVE  DbOK([d EXCEPT !.shelf = Drop(@, S), !.on = {k \in @ : k[1] \notin S}])
  BY DEF DbOK, Columns, References, Has, Drop, Restrict

LEMMA RenameShelfKeeps ==
    ASSUME DbOK(db), NEW s \in DOMAIN db.shelf, NEW name,
           ~NameTaken(DOMAIN db.shelf \ {s}, db.shelf[s].owner, name)
    PROVE  DbOK([db EXCEPT !.shelf[s].name = name])
  BY DEF DbOK, Columns, References, Has, NameTaken

LEMMA ShelvedKeeps ==
    ASSUME NEW d, DbOK(d), NEW S,
           \A k \in S : k \in d.on \/ (Has(d.shelf, k[1]) /\ Has(d.book, k[2]))
    PROVE  DbOK([d EXCEPT !.on = S])
  BY DEF DbOK, Columns, References

\* Books and devices
LEMMA NewBookKeeps ==
    ASSUME NEW d, DbOK(d), NEW b, ~Has(d.book, b), NEW row, DOMAIN row = {"lib", "mod", "fmt"}
    PROVE  DbOK([d EXCEPT !.book = Put(@, b, row)])
  BY DEF DbOK, Columns, References, Has, Put

LEMMA StampKeeps ==
    ASSUME NEW d, DbOK(d), NEW b \in DOMAIN d.book, NEW at
    PROVE  DbOK([d EXCEPT !.book[b].mod = at])
  BY DEF DbOK, Columns, References, Has

LEMMA DeleteBookKeeps ==
    ASSUME NEW b, DbOK(db), DeleteBook(b)
    PROVE  DbOK(db')
  BY DEF DbOK, Columns, References, Has, DeleteBook, Drop, Restrict, KeysWith

LEMMA MoveFormatKeeps ==
    ASSUME NEW d, DbOK(d), NEW b \in DOMAIN d.book
    PROVE  DbOK([d EXCEPT !.book[b].fmt = @ \cup {"EPUB"}])
  BY DEF DbOK, Columns, References, Has

LEMMA DeleteFormatKeeps ==
    ASSUME NEW b, NEW f, DbOK(db), DeleteFormat(b, f)
    PROVE  DbOK(db')
  BY DEF DbOK, Columns, References, Has, DeleteFormat, Drop, Restrict

LEMMA DeleteDeviceKeeps ==
    ASSUME NEW r, DbOK(db), DeleteKoboDevice(r)
    PROVE  DbOK(db')
  BY DEF DbOK, Columns, References, Has, DeleteKoboDevice, Drop, Restrict

\* At most one change of a book is under way, and what is to come is not there.
EditOK ==
    /\ \A e, f \in edit : e = f
    /\ \A e \in edit : e.new => ~Has(db.book, e.book)

\* The numbers of requests to come are of no shelf; a request for a shelf has a
\* shelf of its user, or one that is gone for good.
TagsOK ==
    \A c \in Calls :
        /\ call[c] = New => c \notin DOMAIN db.shelf
        /\ InFlight(c) /\ call[c].at \in TagStages =>
              /\ Has(db.shelf, call[c].row) => db.shelf[call[c].row].owner = call[c].user
              /\ call[c].row \in Calls => call[call[c].row] # New

Inv == TypeOK /\ CallsOK /\ EditOK /\ TagsOK

LEMMA DbStep == ASSUME Inv, [Next]_vars PROVE DbOK(db')
  <1> USE DEF Inv
  <1>0. DbOK(db)
    BY DEF TypeOK, DbOK
  <1>1. ASSUME db' = db
        PROVE  DbOK(db')
    BY <1>0, <1>1
  <1>2. ASSUME NEW c \in Calls, InFlight(c)
        PROVE  RequestOK(call[c])
    BY <1>2 DEF CallsOK
  <1>3. ASSUME NEW c \in Calls, GoesOn(c)
        PROVE  DbOK(db')
    <2>1. InFlight(c)
      BY <1>3 DEF GoesOn, CountBooks, ReadPage, ReadCollections, StoreToken, Receive, UpsertReadingState, SaveProgress,
         FindFormat, DeleteTag, AddItem, RemoveItem, RenameTag, Register, Reread, GiveUp, At, Waited
    <2>2. RequestOK(call[c])
      BY <1>2, <2>1
    <2>3. CASE CountBooks(c) \/ ReadPage(c) \/ ReadCollections(c) \/ Receive(c) \/ (\E b \in Books : FindFormat(c, b))
               \/ Reread(c) \/ GiveUp(c)
      BY <1>1, <2>3 DEF CountBooks, ReadPage, ReadCollections, Receive, FindFormat, Reread, GiveUp, Reads
    <2>4. CASE StoreToken(c)
      BY <1>0, <2>2, <2>4, StoreTokenKeeps DEF StoreToken, Has, RequestOK, At
    <2>5. CASE UpsertReadingState(c)
      BY <1>0, <2>5, ReadingStateKeeps DEF UpsertReadingState, Has
    <2>6. CASE SaveProgress(c)
      BY <1>0, <2>6, SyncProgressKeeps DEF SaveProgress
    <2>7. CASE Register(c)
      BY <1>0, <2>2, <2>7, UpsertDeviceKeeps DEF Register, RequestOK
    <2>8. CASE DeleteTag(c)
      BY <1>0, <2>8, DeleteShelfKeeps DEF DeleteTag
    <2>9. ASSUME NEW name \in TagNames, RenameTag(c, name)
          PROVE  DbOK(db')
      BY <1>0, <2>9, RenameShelfKeeps DEF RenameTag, Has
    <2>10. CASE AddItem(c) \/ RemoveItem(c)
      <3>1. PICK S : /\ db' = db \/ db' = [db EXCEPT !.on = S]
                     /\ \A k \in S : k \in db.on \/ (Has(db.shelf, k[1]) /\ Has(db.book, k[2]))
        BY <2>10 DEF AddItem, RemoveItem
      <3> QED BY <1>0, <1>1, <3>1, ShelvedKeeps
    <2> QED BY <1>3, <2>3, <2>4, <2>5, <2>6, <2>7, <2>8, <2>9, <2>10, SMTT(40) DEF GoesOn
  <1>4. ASSUME NEW c \in Calls, LibrarySync(c) \/ UpdateReadingState(c) \/ Initialization(c)
        PROVE  DbOK(db')
    BY <1>1, <1>4 DEF LibrarySync, UpdateReadingState, Initialization, Known, Unknown, Reads
  <1>5. ASSUME NEW c \in Calls, CreateKoboTag(c)
        PROVE  DbOK(db')
    <2>1. c \notin DOMAIN db.shelf
      BY <1>5 DEF TagsOK, CreateKoboTag, Begin
    <2> QED BY <1>0, <1>5, <2>1, TagRequestsStart, ShelfIsMadeKeeps
  <1>6. ASSUME NEW c \in Calls, NEW op \in TagStages, AskTag(c, op)
        PROVE  DbOK(db')
    BY <1>1, <1>6 DEF AskTag, Reads
  <1>7. CASE NoRequest
    <2>1. ASSUME NEW b \in Books, StartEdit(b) \/ MoveFormat(b)
          PROVE  DbOK(db')
      BY <1>0, <1>1, <2>1, MoveFormatKeeps DEF StartEdit, MoveFormat, Has
    <2>2. ASSUME NEW b \in Books, DeleteBook(b) \/ \E f \in KoboFormats : DeleteFormat(b, f)
          PROVE  DbOK(db')
      BY <1>0, <2>2, DeleteBookKeeps, DeleteFormatKeeps
    <2>3. ASSUME NEW e \in edit, CommitEdit(e)
          PROVE  DbOK(db')
      <3>1. e.new => ~Has(db.book, e.book)
        BY <2>3 DEF EditOK
      <3> QED BY <1>0, <1>1, <2>3, <3>1, NewBookKeeps, StampKeeps DEF CommitEdit, Has
    <2>6. ASSUME NEW b \in Books, MigrateBook(b)
          PROVE  DbOK(db')
      BY <1>0, <2>6, NewBookKeeps DEF MigrateBook
    <2>4. ASSUME NEW r \in DOMAIN db.device, DeleteKoboDevice(r)
          PROVE  DbOK(db')
      BY <1>0, <2>4, DeleteDeviceKeeps
    <2>5. CASE UNCHANGED vars \/ (\E hw \in Kobos, b \in Books : RemoveBook(hw, b))
               \/ \E u \in Users : SetDefaultLibrary(u)
      BY <1>1, <2>5 DEF vars, RemoveBook, SetDefaultLibrary
    <2> QED BY <1>7, <2>1, <2>2, <2>3, <2>4, <2>5, <2>6 DEF NoRequest, LibraryChanges
  <1> QED BY <1>3, <1>4, <1>5, <1>6, <1>7, StepOfRequests

-----------------------------------------------------------------------------
(* The clock and the changes of books; shelves and the requests for them.    *)

\* Requests add no book and begin no change.
LEMMA RequestsLeaveBooks ==
    ASSUME Inv, NEW c \in Calls,
           \/ LibrarySync(c) \/ UpdateReadingState(c) \/ Initialization(c) \/ GoesOn(c)
           \/ CreateKoboTag(c) \/ \E op \in TagStages : AskTag(c, op)
    PROVE  edit' = edit /\ db'.book = db.book /\ now' \in 0..MaxNow /\ home' = home
  <1>1. DOMAIN db = {"book", "device", "reading", "progress", "shelf", "on", "gone"} /\ now \in 0..MaxNow
    BY DEF Inv, TypeOK, Columns
  <1>2. CASE LibrarySync(c) \/ UpdateReadingState(c) \/ Initialization(c) \/ CreateKoboTag(c)
             \/ \E op \in TagStages : AskTag(c, op)
    BY <1>1, <1>2, ZenonT(60) DEF LibrarySync, UpdateReadingState, Initialization, Known, Unknown, Reads, Rest, CreateKoboTag, AskTag
  <1>3. CASE ReadCollections(c)
    BY <1>1, <1>3, KoboBoundsAssumption DEF ReadCollections
  <1>4. CASE StoreToken(c) \/ UpsertReadingState(c) \/ SaveProgress(c) \/ DeleteTag(c) \/ AddItem(c) \/ RemoveItem(c)
             \/ (\E name \in TagNames : RenameTag(c, name)) \/ Register(c)
    BY <1>1, <1>4, Zenon DEF StoreToken, UpsertReadingState, SaveProgress, SyncProgress, DeleteTag, AddItem, RemoveItem,
       RenameTag, Register, UpsertDevice, Rest
  <1>5. CASE CountBooks(c) \/ ReadPage(c) \/ Receive(c) \/ (\E b \in Books : FindFormat(c, b)) \/ Reread(c) \/ GiveUp(c)
    BY <1>1, <1>5 DEF CountBooks, ReadPage, Receive, FindFormat, Reread, GiveUp, Reads, Rest
  <1> QED BY <1>2, <1>3, <1>4, <1>5 DEF GoesOn

LEMMA EditStep ==
    ASSUME Inv, [Next]_vars
    PROVE  /\ EditOK' /\ now' \in 0..MaxNow
           /\ edit' \subseteq [book : Books, at : 1..MaxNow, new : BOOLEAN]
           /\ home' \in [Users -> Libraries]
  <1>1. /\ home \in [Users -> Libraries] /\ DOMAIN db = {"book", "device", "reading", "progress", "shelf", "on", "gone"} /\ now \in 0..MaxNow
        /\ edit \subseteq [book : Books, at : 1..MaxNow, new : BOOLEAN] /\ EditOK
    BY DEF Inv, TypeOK, Columns
  <1>2. ASSUME NEW c \in Calls,
               \/ LibrarySync(c) \/ UpdateReadingState(c) \/ Initialization(c) \/ GoesOn(c)
               \/ CreateKoboTag(c) \/ \E op \in TagStages : AskTag(c, op)
        PROVE  /\ EditOK' /\ now' \in 0..MaxNow /\ home' \in [Users -> Libraries]
               /\ edit' \subseteq [book : Books, at : 1..MaxNow, new : BOOLEAN]
    BY <1>1, <1>2, RequestsLeaveBooks DEF EditOK, Has
  <1>3. ASSUME NEW b \in Books, StartEdit(b)
        PROVE  /\ EditOK' /\ now' \in 0..MaxNow /\ home' \in [Users -> Libraries]
               /\ edit' \subseteq [book : Books, at : 1..MaxNow, new : BOOLEAN]
    <2> DEFINE e == [book |-> b, at |-> now', new |-> ~Has(db.book, b)]
    <2>1. now' \in 1..MaxNow /\ now' \in 0..MaxNow
      BY <1>1, <1>3, KoboBoundsAssumption DEF StartEdit
    <2>4. home' = home
      BY <1>3 DEF StartEdit, Elsewhere
    <2>2. e \in [book : Books, at : 1..MaxNow, new : BOOLEAN] /\ e.book = b /\ (e.new <=> ~Has(db.book, b))
      BY <2>1
    <2>3. edit' = {e} /\ db' = db
      BY <1>3 DEF StartEdit
    <2> HIDE DEF e
    <2> QED BY <1>1, <2>1, <2>2, <2>3, <2>4 DEF EditOK
  <1>4. ASSUME NEW e \in edit, CommitEdit(e)
        PROVE  /\ EditOK' /\ now' \in 0..MaxNow /\ home' \in [Users -> Libraries]
               /\ edit' \subseteq [book : Books, at : 1..MaxNow, new : BOOLEAN]
    BY <1>1, <1>4 DEF CommitEdit, EditOK
  <1>5. ASSUME NEW b \in Books, DeleteBook(b) \/ MoveFormat(b) \/ \E f \in KoboFormats : DeleteFormat(b, f)
        PROVE  now' = now /\ edit' = edit /\ home' = home /\ DOMAIN db'.book \subseteq DOMAIN db.book
    <2>1. CASE DeleteBook(b)
      <3>1. db'.book = Drop(db.book, {b}) /\ now' = now /\ edit' = edit /\ home' = home
        BY <1>1, <2>1 DEF DeleteBook, Elsewhere
      <3> QED BY <3>1 DEF Drop, Restrict
    <2>2. CASE MoveFormat(b)
      BY <1>1, <2>2 DEF MoveFormat, Elsewhere
    <2>3. ASSUME NEW f \in KoboFormats, DeleteFormat(b, f)
          PROVE  now' = now /\ edit' = edit /\ home' = home /\ DOMAIN db'.book \subseteq DOMAIN db.book
      BY <1>1, <2>3 DEF DeleteFormat, Elsewhere
    <2> QED BY <1>5, <2>1, <2>2, <2>3
  <1>6. CASE UNCHANGED vars \/ (\E hw \in Kobos, b \in Books : RemoveBook(hw, b))
             \/ \E r \in DOMAIN db.device : DeleteKoboDevice(r)
    BY <1>1, <1>6 DEF vars, RemoveBook, DeleteKoboDevice, Elsewhere, EditOK, Has
  <1>7. ASSUME NEW b \in Books, MigrateBook(b)
        PROVE  /\ EditOK' /\ now' \in 0..MaxNow /\ home' \in [Users -> Libraries]
               /\ edit' \subseteq [book : Books, at : 1..MaxNow, new : BOOLEAN]
    <2>1. PICK row : db' = [db EXCEPT !.book = Put(@, b, row)]
      BY <1>7 DEF MigrateBook
    <2>2. now' = now /\ edit' = edit /\ home' = home /\ \A e \in edit : e.book # b
      BY <1>7 DEF MigrateBook, Elsewhere
    <2>3. DOMAIN db'.book = DOMAIN db.book \cup {b}
      BY <1>1, <2>1 DEF Put
    <2> QED BY <1>1, <2>2, <2>3 DEF EditOK, Has
  <1>8. ASSUME NEW u \in Users, SetDefaultLibrary(u)
        PROVE  /\ EditOK' /\ now' \in 0..MaxNow /\ home' \in [Users -> Libraries]
               /\ edit' \subseteq [book : Books, at : 1..MaxNow, new : BOOLEAN]
    BY <1>1, <1>8 DEF SetDefaultLibrary, EditOK, Has
  <1> QED BY <1>1, <1>2, <1>3, <1>4, <1>5, <1>6, <1>7, <1>8, StepOfRequests DEF NoRequest, LibraryChanges, EditOK, Has

\* What a step does to the shelves: a request of a tag makes one, deletes one or
\* renames one; nothing else touches them.
ShelfStep ==
    \/ db'.shelf = db.shelf
    \/ \E c \in Calls, u \in Users, name \in TagNames :
          /\ c \notin DOMAIN db.shelf /\ Starts(c) /\ call'[c].row = c /\ call'[c].user = u /\ ShelfIsMade(c, u, name)
    \/ \E c \in Calls : DeleteTag(c) \/ \E name \in TagNames : RenameTag(c, name)

LEMMA StepOfShelves == ASSUME Inv, [Next]_vars PROVE ShelfStep
  <1>1. DOMAIN db = {"book", "device", "reading", "progress", "shelf", "on", "gone"}
    BY DEF Inv, TypeOK, Columns
  <1>2. ASSUME NEW c \in Calls, CreateKoboTag(c)
        PROVE  ShelfStep
    <2>1. c \notin DOMAIN db.shelf
      BY <1>2 DEF Inv, TagsOK, CreateKoboTag, Begin
    <2>2. Starts(c) /\ call'[c].row = c /\ \E name \in TagNames : ShelfIsMade(c, call'[c].user, name)
      BY <1>2, TagRequestsStart DEF Inv
    <2>3. call'[c].user \in Users
      BY <2>2 DEF Starts, RequestOK
    <2> QED BY <2>1, <2>2, <2>3 DEF ShelfStep
  <1>3. ASSUME NEW c \in Calls, GoesOn(c), ~DeleteTag(c), ~\E name \in TagNames : RenameTag(c, name)
        PROVE  db'.shelf = db.shelf
    <2>1. CASE StoreToken(c) \/ UpsertReadingState(c) \/ SaveProgress(c) \/ AddItem(c) \/ RemoveItem(c) \/ Register(c)
      BY <1>1, <2>1 DEF StoreToken, UpsertReadingState, SaveProgress, SyncProgress, AddItem, RemoveItem, Register, UpsertDevice
    <2>2. CASE \/ CountBooks(c) \/ ReadPage(c) \/ ReadCollections(c) \/ Receive(c) \/ Reread(c) \/ GiveUp(c)
               \/ \E b \in Books : FindFormat(c, b)
      BY <2>2 DEF CountBooks, ReadPage, ReadCollections, Receive, FindFormat, Reread, GiveUp, Reads
    <2> QED BY <1>3, <2>1, <2>2, SMTT(40) DEF GoesOn
  <1>4. ASSUME NEW c \in Calls, LibrarySync(c) \/ UpdateReadingState(c) \/ Initialization(c)
                                \/ \E op \in TagStages : AskTag(c, op)
        PROVE  db'.shelf = db.shelf
    BY <1>4 DEF LibrarySync, UpdateReadingState, Initialization, Known, Unknown, AskTag, Reads
  <1>5. CASE NoRequest
    BY <1>1, <1>5, ZenonT(60) DEF NoRequest, LibraryChanges, StartEdit, MigrateBook, SetDefaultLibrary, CommitEdit, DeleteBook, MoveFormat, DeleteFormat, DeleteKoboDevice,
       RemoveBook, vars, ShelfStep
  <1> QED BY <1>2, <1>3, <1>4, <1>5, StepOfRequests DEF ShelfStep

\* A request, once begun, is never new again, and keeps its user and its shelf.
RequestsKeepTheirShelf ==
    \A c \in Calls :
        /\ call[c] # New => call'[c] # New
        /\ InFlight(c) /\ InFlight(c)' /\ call'[c].at \in TagStages =>
              call[c].at = call'[c].at /\ call'[c].row = call[c].row /\ call'[c].user = call[c].user

LEMMA ShelvesAreKept == ASSUME Inv, [Next]_vars PROVE RequestsKeepTheirShelf
  <1> USE DEF Inv
  <1>1. ASSUME NEW c \in Calls, Starts(c) \/ Goes(c)
        PROVE  RequestsKeepTheirShelf
    BY <1>1, RequestsAreInFlight DEF Starts, Goes, Others, RequestsKeepTheirShelf, InFlight, New, Over
  <1>2. CASE NoRequest
    BY <1>2 DEF NoRequest, LibraryChanges, StartEdit, MigrateBook, SetDefaultLibrary, DeleteBook, MoveFormat, DeleteFormat, CommitEdit, DeleteKoboDevice,
       Elsewhere, Change, RemoveBook, vars, RequestsKeepTheirShelf
  <1> QED BY <1>1, <1>2, StepOfRequests, DeviceRequestsStart, TagRequestsStart, StepsGo

\* A shelf that was there before a step has its owner after it, and only a
\* request that begins makes a shelf.
LEMMA OwnersStay ==
    ASSUME Inv, [Next]_vars, NEW s
    PROVE  /\ s \in DOMAIN db.shelf /\ s \in DOMAIN db'.shelf => db'.shelf[s].owner = db.shelf[s].owner
           /\ s \in DOMAIN db'.shelf /\ s \notin DOMAIN db.shelf =>
                 s \in Calls /\ Starts(s) /\ call'[s].row = s /\ db'.shelf[s].owner = call'[s].user
  <1>1. Columns(db) /\ ShelfStep
    BY StepOfShelves DEF Inv, TypeOK
  <1>2. ASSUME NEW c \in Calls, NEW u \in Users, NEW name \in TagNames,
               c \notin DOMAIN db.shelf, Starts(c), call'[c].row = c, call'[c].user = u, ShelfIsMade(c, u, name)
        PROVE  /\ s \in DOMAIN db.shelf /\ s \in DOMAIN db'.shelf => db'.shelf[s].owner = db.shelf[s].owner
               /\ s \in DOMAIN db'.shelf /\ s \notin DOMAIN db.shelf =>
                     s \in Calls /\ Starts(s) /\ call'[s].row = s /\ db'.shelf[s].owner = call'[s].user
    <2>1. db'.shelf = Put(db.shelf, c, [owner |-> u, name |-> name])
      BY <1>1, <1>2 DEF ShelfIsMade, Columns
    <2> QED BY <1>2, <2>1 DEF Put
  <1>3. ASSUME NEW c \in Calls, DeleteTag(c)
        PROVE  \E S : db'.shelf = Drop(db.shelf, S)
    BY <1>1, <1>3 DEF DeleteTag, Columns
  <1>4a. ASSUME NEW S, db'.shelf = Drop(db.shelf, S)
         PROVE  /\ DOMAIN db'.shelf \subseteq DOMAIN db.shelf
                /\ s \in DOMAIN db'.shelf => db'.shelf[s] = db.shelf[s]
    BY <1>4a DEF Drop, Restrict
  <1>4. ASSUME NEW c \in Calls, NEW name \in TagNames, RenameTag(c, name)
        PROVE  /\ DOMAIN db'.shelf = DOMAIN db.shelf
               /\ s \in DOMAIN db.shelf => db'.shelf[s].owner = db.shelf[s].owner
    BY <1>1, <1>4 DEF RenameTag, Columns
  <1> QED BY <1>1, <1>2, <1>3, <1>4a, <1>4 DEF ShelfStep

LEMMA TagsStep == ASSUME Inv, [Next]_vars PROVE TagsOK'
  <1> USE DEF Inv
  <1>1. RequestsKeepTheirShelf /\ CallsOK'
    BY ShelvesAreKept, CallsStep
  <1>2. ASSUME NEW c \in Calls, call'[c] = New
        PROVE  c \notin DOMAIN db'.shelf
    <2>1. call[c] = New /\ c \notin DOMAIN db.shelf
      BY <1>1, <1>2 DEF RequestsKeepTheirShelf, TagsOK
    <2> QED BY <1>2, <2>1, OwnersStay, RequestsAreInFlight DEF Starts
  <1>3. ASSUME NEW c \in Calls, InFlight(c)', call'[c].at \in TagStages
        PROVE  /\ Has(db.shelf, call[c].row)' => (db.shelf[call[c].row].owner = call[c].user)'
               /\ call'[c].row \in Calls => call'[call'[c].row] # New
    <2> DEFINE s == call'[c].row
    <2>1. CASE InFlight(c)
      <3>1. /\ Has(db.shelf, s) => db.shelf[s].owner = call'[c].user
            /\ s \in Calls => call[s] # New
        BY <1>1, <1>3, <2>1 DEF RequestsKeepTheirShelf, TagsOK
      <3>2. s \in DOMAIN db'.shelf => s \in DOMAIN db.shelf
        BY <3>1, OwnersStay DEF Starts
      <3> QED BY <1>1, <3>1, <3>2, OwnersStay DEF Has, RequestsKeepTheirShelf
    <2>2. CASE ~InFlight(c)
      <3>1. call'[c] # call[c] /\ ~Goes(c)
        BY <1>3, <2>2 DEF InFlight, New, Over, Goes
      <3>2. \A e \in Calls : Starts(e) \/ Goes(e) => e = c
        BY <3>1 DEF Starts, Goes, Others
      <3>3. ~NoRequest
        BY <3>1 DEF NoRequest, LibraryChanges, StartEdit, MigrateBook, SetDefaultLibrary, DeleteBook, MoveFormat, DeleteFormat, CommitEdit, DeleteKoboDevice,
           Elsewhere, Change, RemoveBook, vars
      <3>4. CreateKoboTag(c) \/ \E op \in TagStages : AskTag(c, op)
        BY <1>3, <3>1, <3>2, <3>3, StepOfRequests, DeviceRequestsStart, TagRequestsStart, StepsGo
      <3>5. CASE CreateKoboTag(c)
        <4>1. Starts(c) /\ s = c /\ \E name \in TagNames : ShelfIsMade(c, call'[c].user, name)
          BY <3>5, TagRequestsStart
        <4>2. c \notin DOMAIN db.shelf
          BY <4>1 DEF Starts, TagsOK
        <4> QED BY <4>1, <4>2, <1>3, OwnersStay, RequestsAreInFlight DEF Starts, Has
      <3>6. ASSUME NEW op \in TagStages, AskTag(c, op)
            PROVE  /\ Has(db'.shelf, s) => db'.shelf[s].owner = call'[c].user
                   /\ s \in Calls => call'[s] # New
        <4>1. Starts(c) /\ db' = db /\ Has(db.shelf, s) /\ db.shelf[s].owner = call'[c].user
          BY <3>6, TagRequestsStart
        <4>2. s \in Calls => call[s] # New
          BY <4>1 DEF TagsOK, Has
        <4> QED BY <1>1, <4>1, <4>2 DEF RequestsKeepTheirShelf
      <3> QED BY <3>4, <3>5, <3>6 DEF Has
    <2> QED BY <2>1, <2>2
  <1> QED BY <1>2, <1>3 DEF TagsOK

LEMMA InitOK == Init => Inv
  BY KoboDbsAssumption, KoboBoundsAssumption, UsersAssumption DEF Init, Inv, TypeOK, CallsOK, EditOK, TagsOK, InFlight

LEMMA InvStep == Inv /\ [Next]_vars => Inv'
  <1> SUFFICES ASSUME Inv, [Next]_vars PROVE Inv'
    OBVIOUS
  <1>1. TypeOK'
    BY DbStep, EditStep DEF TypeOK, DbOK
  <1> QED BY <1>1, CallsStep, EditStep, TagsStep DEF Inv

\* The constraints of the tables hold in every state (TypeOK), whatever is
\* deleted between the statements of a request.
THEOREM TypeCorrect == Spec => []TypeOK
  <1>1. Inv => TypeOK
    BY DEF Inv
  <1> QED BY <1>1, InitOK, InvStep, PTL DEF Spec

-----------------------------------------------------------------------------
(* Shelves are changed by their owners only.                                 *)

\* The content of a shelf is its name and its rows of shelf_books.
LEMMA SameContent ==
    ASSUME NEW d, NEW e, NEW s, DOMAIN d.book = DOMAIN e.book,
           Has(d.shelf, s) <=> Has(e.shelf, s), Has(d.shelf, s) => d.shelf[s].name = e.shelf[s].name,
           \A k : k[1] = s => (k \in d.on <=> k \in e.on)
    PROVE  Content(d, s) = Content(e, s)
  <1>1. {x \in d.on : x[1] = s} = {x \in e.on : x[1] = s}
    OBVIOUS
  <1> QED BY <1>1 DEF Content

\* A request in flight that ends with the step is one that changes.
ByOwner(c, s) == InFlight(c) /\ call'[c] # call[c] /\ call[c].row = s /\ call[c].user = db.shelf[s].owner

LEMMA TagsChangeTheirShelf ==
    ASSUME Inv, NEW c \in Calls, NEW s \in DOMAIN db.shelf,
           DeleteTag(c) \/ AddItem(c) \/ RemoveItem(c) \/ \E name \in TagNames : RenameTag(c, name)
    PROVE  Content(db', s) = Content(db, s) \/ ByOwner(c, s)
  <1>1. Columns(db) /\ InFlight(c) /\ call[c].at \in TagStages /\ RequestOK(call[c]) /\ DOMAIN call = Calls
    BY DEF Inv, TypeOK, CallsOK, DeleteTag, AddItem, RemoveItem, RenameTag, At, TagStages
  <1>2. CASE call[c].row # s
    <2>1. DOMAIN db.book = DOMAIN db'.book
      BY <1>1 DEF DeleteTag, AddItem, RemoveItem, RenameTag, Columns
    <2>2. CASE DeleteTag(c)
      <3>1. PICK S : /\ s \notin S /\ db'.shelf = Drop(db.shelf, S)
                     /\ db'.on = {k \in db.on : k[1] \notin S}
        BY <1>1, <1>2, <2>2 DEF DeleteTag, Columns
      <3> QED BY <2>1, <3>1, SameContent DEF Drop, Restrict, Has
    <2>3. CASE AddItem(c) \/ RemoveItem(c)
      <3>1. db'.shelf = db.shelf /\ \A k : k[1] = s => (k \in db.on <=> k \in db'.on)
        BY <1>1, <1>2, <2>3 DEF AddItem, RemoveItem, Columns
      <3> QED BY <2>1, <3>1, SameContent
    <2>4. ASSUME NEW name \in TagNames, RenameTag(c, name)
          PROVE  Content(db', s) = Content(db, s)
      <3>1. db'.on = db.on /\ DOMAIN db'.shelf = DOMAIN db.shelf /\ db'.shelf[s] = db.shelf[s]
        BY <1>1, <1>2, <2>4 DEF RenameTag, Columns
      <3> QED BY <2>1, <3>1, SameContent DEF Has
    <2> QED BY <2>2, <2>3, <2>4
  <1>3. CASE call[c].row = s
    <2>1. call[c].user = db.shelf[s].owner
      BY <1>1, <1>3 DEF Inv, TagsOK, Has
    <2>2. CASE DeleteTag(c) \/ \E name \in TagNames : RenameTag(c, name)
      <3>1. call'[c] = Over
        BY <1>1, <2>2 DEF DeleteTag, RenameTag, Answer
      <3> QED BY <1>1, <1>3, <2>1, <3>1 DEF ByOwner, InFlight
    <2>3. CASE AddItem(c) \/ RemoveItem(c)
      <3>1. NextItem(c) /\ (call[c].items = << >> => db' = db)
        BY <1>1, <2>3 DEF AddItem, RemoveItem
      <3>2. CASE call[c].items = << >>
        <4>1. db' = db
          BY <3>1, <3>2
        <4> QED BY <4>1
      <3>3. CASE call[c].items # << >>
        <4>1. call[c].items \in Seq(Books)
          BY <1>1 DEF RequestOK
        <4>2. Len(Tail(call[c].items)) # Len(call[c].items)
          BY <3>3, <4>1
        <4>3. call'[c] = [items |-> Tail(call[c].items)] ++ call[c]
          BY <1>1, <3>1, <3>3 DEF NextItem, Step
        <4>4. call'[c].items = Tail(call[c].items)
          BY <4>3 DEF ++
        <4> QED BY <1>1, <1>3, <2>1, <4>2, <4>4 DEF ByOwner
      <3> QED BY <3>2, <3>3
    <2> QED BY <2>2, <2>3
  <1> QED BY <1>2, <1>3

LEMMA OthersLeaveShelves ==
    ASSUME Inv, [Next]_vars, NEW s \in DOMAIN db.shelf,
           ~\E c \in Calls : DeleteTag(c) \/ AddItem(c) \/ RemoveItem(c) \/ \E name \in TagNames : RenameTag(c, name)
    PROVE  Content(db', s) = Content(db, s) \/ DOMAIN db'.book # DOMAIN db.book
  <1>1. Columns(db)
    BY DEF Inv, TypeOK
  <1>2. ASSUME db' = db
        PROVE  Content(db', s) = Content(db, s)
    BY <1>2
  <1>3. ASSUME db'.shelf = db.shelf, db'.on = db.on, DOMAIN db'.book = DOMAIN db.book
        PROVE  Content(db', s) = Content(db, s)
    BY <1>3, SameContent
  <1>4. ASSUME NEW c \in Calls, GoesOn(c)
        PROVE  Content(db', s) = Content(db, s)
    <2>1. CASE StoreToken(c) \/ UpsertReadingState(c) \/ SaveProgress(c) \/ Register(c)
      BY <1>1, <1>3, <2>1 DEF StoreToken, UpsertReadingState, SaveProgress, SyncProgress, Register, UpsertDevice, Columns
    <2>2. CASE \/ CountBooks(c) \/ ReadPage(c) \/ ReadCollections(c) \/ Receive(c) \/ Reread(c) \/ GiveUp(c)
               \/ \E b \in Books : FindFormat(c, b)
      BY <1>2, <2>2 DEF CountBooks, ReadPage, ReadCollections, Receive, FindFormat, Reread, GiveUp, Reads
    <2> QED BY <1>4, <2>1, <2>2, SMTT(40) DEF GoesOn
  <1>5. ASSUME NEW c \in Calls, LibrarySync(c) \/ UpdateReadingState(c) \/ Initialization(c)
                                \/ \E op \in TagStages : AskTag(c, op)
        PROVE  Content(db', s) = Content(db, s)
    BY <1>2, <1>5 DEF LibrarySync, UpdateReadingState, Initialization, Known, Unknown, AskTag, Reads
  <1>6. ASSUME NEW c \in Calls, CreateKoboTag(c)
        PROVE  Content(db', s) = Content(db, s)
    <2>1. c # s
      BY <1>6 DEF Inv, TagsOK, CreateKoboTag, Begin
    <2>2. PICK row : db'.shelf = Put(db.shelf, c, row)
      BY <1>1, <1>6 DEF CreateKoboTag, Columns
    <2>3. db'.on = db.on /\ DOMAIN db'.book = DOMAIN db.book
      BY <1>1, <1>6 DEF CreateKoboTag, Columns
    <2>4. s \in DOMAIN db'.shelf /\ db'.shelf[s] = db.shelf[s]
      BY <2>1, <2>2 DEF Put
    <2> QED BY <2>3, <2>4, SameContent DEF Has
  <1>7. CASE NoRequest
    <2>1. ASSUME NEW b \in Books, DeleteBook(b)
          PROVE  DOMAIN db'.book # DOMAIN db.book
      <3>1. db'.book = Drop(db.book, {b}) /\ b \in DOMAIN db.book
        BY <1>1, <2>1 DEF DeleteBook, Columns, Has
      <3> QED BY <3>1 DEF Drop, Restrict
    <2>2. ASSUME NEW b \in Books, StartEdit(b) \/ MoveFormat(b) \/ \E f \in KoboFormats : DeleteFormat(b, f)
          PROVE  Content(db', s) = Content(db, s)
      <3>1. CASE StartEdit(b)
        BY <1>2, <3>1 DEF StartEdit
      <3>2. CASE MoveFormat(b)
        BY <1>1, <1>3, <3>2 DEF MoveFormat, Columns
      <3>3. ASSUME NEW f \in KoboFormats, DeleteFormat(b, f)
            PROVE  Content(db', s) = Content(db, s)
        BY <1>1, <1>3, <3>3 DEF DeleteFormat, Columns
      <3> QED BY <2>2, <3>1, <3>2, <3>3
    <2>3. ASSUME NEW e \in edit, CommitEdit(e)
          PROVE  Content(db', s) = Content(db, s) \/ DOMAIN db'.book # DOMAIN db.book
      BY <1>1, <1>3, <2>3 DEF CommitEdit, Columns
    <2>4. CASE UNCHANGED vars \/ (\E hw \in Kobos, b \in Books : RemoveBook(hw, b))
               \/ \E r \in DOMAIN db.device : DeleteKoboDevice(r)
      BY <1>1, <1>3, <2>4 DEF vars, RemoveBook, DeleteKoboDevice, Columns
    <2>5. ASSUME NEW b \in Books, MigrateBook(b)
          PROVE  DOMAIN db'.book # DOMAIN db.book
      <3>1. PICK row : db' = [db EXCEPT !.book = Put(@, b, row)]
        BY <2>5 DEF MigrateBook
      <3>2. DOMAIN db'.book = DOMAIN db.book \cup {b} /\ b \notin DOMAIN db.book
        BY <1>1, <2>5, <3>1 DEF MigrateBook, Columns, Put, Has
      <3> QED BY <3>2
    <2>6. CASE \E u \in Users : SetDefaultLibrary(u)
      BY <1>2, <2>6 DEF SetDefaultLibrary
    <2> QED BY <1>7, <2>1, <2>2, <2>3, <2>4, <2>5, <2>6 DEF NoRequest, LibraryChanges
  <1> QED BY <1>4, <1>5, <1>6, <1>7, StepOfRequests

\* The look at the shelf and the statement are two steps, between which shelves
\* are deleted and made anew; still only a request of its owner changes a shelf.
THEOREM OnlyOwnShelvesCorrect == Spec => OnlyOwnShelves
  <1>1. ASSUME Inv, [Next]_vars, NEW s \in DOMAIN db.shelf
        PROVE  \/ Content(db', s) = Content(db, s)
               \/ DOMAIN db'.book # DOMAIN db.book
               \/ \E c \in Calls : ByOwner(c, s)
    BY <1>1, TagsChangeTheirShelf, OthersLeaveShelves
  <1>2. Inv /\ [Next]_vars => [\A s \in DOMAIN db.shelf :
                                  \/ Content(db', s) = Content(db, s)
                                  \/ DOMAIN db'.book # DOMAIN db.book
                                  \/ \E c \in Calls : /\ InFlight(c) /\ call'[c] # call[c] /\ call[c].row = s
                                                      /\ call[c].user = db.shelf[s].owner]_vars
    BY <1>1 DEF ByOwner
  <1> QED BY <1>2, InitOK, InvStep, PTL DEF Spec, OnlyOwnShelves

-----------------------------------------------------------------------------
(* The order of the books. A place is the number of those before it, so places
   differ and each book has one.                                             *)

Below(R, S, b) == {a \in S : <<a, b>> \in R}
LEMMA Places ==
    ASSUME NEW S, IsFiniteSet(S), NEW R,
           \A a \in S : <<a, a>> \notin R,
           \A a, b, c \in S : <<a, b>> \in R /\ <<b, c>> \in R => <<a, c>> \in R
    PROVE  /\ \A b \in S : Cardinality(Below(R, S, b)) \in 0..Cardinality(S) - 1
           /\ \A a, b \in S : <<a, b>> \in R => Cardinality(Below(R, S, a)) < Cardinality(Below(R, S, b))
  <1>1. ASSUME NEW T, IsFiniteSet(T), NEW Q \in SUBSET T, NEW x \in T, x \notin Q
        PROVE  Cardinality(Q) \in Nat /\ Cardinality(T) \in Nat /\ Cardinality(Q) < Cardinality(T)
    <2>1. IsFiniteSet(Q) /\ Cardinality(Q) <= Cardinality(T) /\ (Cardinality(Q) = Cardinality(T) => Q = T)
      BY <1>1, FS_Subset
    <2>2. Cardinality(Q) \in Nat /\ Cardinality(T) \in Nat
      BY <1>1, <2>1, FS_CardinalityType
    <2> QED BY <1>1, <2>1, <2>2
  <1>2. ASSUME NEW b \in S
        PROVE  Cardinality(Below(R, S, b)) \in 0..Cardinality(S) - 1
    <2>1. Below(R, S, b) \in SUBSET S /\ b \notin Below(R, S, b)
      BY DEF Below
    <2> QED BY <1>1, <2>1
  <1>3. ASSUME NEW a \in S, NEW b \in S, <<a, b>> \in R
        PROVE  Cardinality(Below(R, S, a)) < Cardinality(Below(R, S, b))
    <2>1. Below(R, S, a) \in SUBSET Below(R, S, b) /\ a \in Below(R, S, b) /\ a \notin Below(R, S, a)
      BY <1>3 DEF Below
    <2>2. IsFiniteSet(Below(R, S, b))
      BY FS_Subset DEF Below
    <2> QED BY <1>1, <2>1, <2>2
  <1> QED BY <1>2, <1>3

\* Books that can be put in order, and that each have a place there
Orderly(d, S) == IsFiniteSet(S) /\ S \subseteq Int /\ \A b \in S : d.book[b].mod \in Int
HasPlaces(d, S) == Cardinality(S) \in Nat /\ \A b \in S : \E i \in 1..Cardinality(S) : InOrder(d, S)[i] = b

LEMMA BooksAreInOrder == ASSUME NEW d, NEW S, Orderly(d, S) PROVE HasPlaces(d, S)
  <1>0. IsFiniteSet(S) /\ S \subseteq Int /\ \A b \in S : d.book[b].mod \in Int
    BY DEF Orderly
  <1> DEFINE R == {x \in S \X S : Earlier(d, x[1], x[2])}
             rank(b) == Cardinality({a \in S : Earlier(d, a, b)})
  <1>1. \A b \in S : Below(R, S, b) = {a \in S : Earlier(d, a, b)}
    BY DEF Below
  <1>2. /\ \A a, b \in S : <<a, b>> \in R <=> Earlier(d, a, b)
        /\ \A a \in S : ~Earlier(d, a, a)
        /\ \A a, b, c \in S : Earlier(d, a, b) /\ Earlier(d, b, c) => Earlier(d, a, c)
        /\ \A a, b \in S : a = b \/ Earlier(d, a, b) \/ Earlier(d, b, a)
    <2>1. \A a, b \in S : <<a, b>> \in R <=> Earlier(d, a, b)
      OBVIOUS
    <2>2. \A a \in S : d.book[a].mod \in Int /\ a \in Int
      BY <1>0
    <2>3. \A a \in S : ~Earlier(d, a, a)
      BY <2>2 DEF Earlier
    <2>4. ASSUME NEW a \in S, NEW b \in S, NEW c \in S, Earlier(d, a, b), Earlier(d, b, c)
          PROVE  Earlier(d, a, c)
      BY <2>2, <2>4 DEF Earlier
    <2>5. ASSUME NEW a \in S, NEW b \in S
          PROVE  a = b \/ Earlier(d, a, b) \/ Earlier(d, b, a)
      BY <2>2 DEF Earlier
    <2> HIDE DEF R
    <2> QED BY <2>1, <2>3, <2>4, <2>5
  <1> HIDE DEF R
  <1>3. /\ \A b \in S : Cardinality(Below(R, S, b)) \in 0..Cardinality(S) - 1
        /\ \A a, b \in S : <<a, b>> \in R => Cardinality(Below(R, S, a)) < Cardinality(Below(R, S, b))
    BY <1>0, <1>2, Places
  <1>4. /\ \A b \in S : rank(b) \in 0..Cardinality(S) - 1
        /\ \A a, b \in S : a # b => rank(a) # rank(b)
    <2>1. \A b \in S : rank(b) = Cardinality(Below(R, S, b))
      BY <1>1
    <2>2. ASSUME NEW a \in S, NEW b \in S, <<a, b>> \in R
          PROVE  rank(a) # rank(b)
      BY <1>3, <2>1, <2>2
    <2>3. \A a, b \in S : a # b => <<a, b>> \in R \/ <<b, a>> \in R
      BY <1>2
    <2> HIDE DEF rank
    <2> QED BY <1>3, <2>1, <2>2, <2>3
  <1>5. Cardinality(S) \in Nat
    BY <1>0, FS_CardinalityType
  <1>6. ASSUME NEW b \in S
        PROVE  \E i \in 1..Cardinality(S) : InOrder(d, S)[i] = b
    <2> DEFINE i == rank(b) + 1
    <2>1. i \in 1..Cardinality(S) /\ rank(b) = i - 1
      BY <1>4, <1>5
    <2> HIDE DEF i
    <2>2. InOrder(d, S)[i] = CHOOSE a \in S : rank(a) = i - 1
      BY <2>1 DEF InOrder
    <2> HIDE DEF rank
    <2>3. (CHOOSE a \in S : rank(a) = i - 1) = b
      BY <1>4, <2>1
    <2> QED BY <2>1, <2>2, <2>3
  <1> QED BY <1>5, <1>6 DEF HasPlaces

LEMMA SameOrder ==
    ASSUME NEW d, NEW e, NEW S, \A b \in S : d.book[b].mod = e.book[b].mod
    PROVE  InOrder(d, S) = InOrder(e, S)
  <1>1. \A a, b \in S : Earlier(d, a, b) <=> Earlier(e, a, b)
    BY DEF Earlier
  <1>2. \A b \in S : {a \in S : Earlier(d, a, b)} = {a \in S : Earlier(e, a, b)}
    BY <1>1
  <1> DEFINE at(m, n) == CHOOSE b \in S : Cardinality({a \in S : Earlier(m, a, b)}) = n - 1
  <1>3. ASSUME NEW n
        PROVE  at(d, n) = at(e, n)
    BY <1>2
  <1>4. InOrder(d, S) = [n \in 1..Cardinality(S) |-> at(d, n)] /\ InOrder(e, S) = [n \in 1..Cardinality(S) |-> at(e, n)]
    BY DEF InOrder
  <1> HIDE DEF at
  <1> QED BY <1>3, <1>4

-----------------------------------------------------------------------------
(* What is known of the syncs. SyncInv is inductive with Inv: a calm Kobo has
   one sync at most, it has the Kobo's row if any, it has got what is due on the
   pages read, and the row's token promises what the Kobo holds.             *)

SyncStages == {"count", "page", "collections", "store", "answer"}
TimeStages == {"store", "answer"}

\* What a sync has besides, at every stage, when the clock is at n
SyncFields(r, n) ==
    /\ r.waits \in BOOLEAN
    /\ r.op = "sync" => r.at \in SyncStages \cup {"register", "reread"}
    /\ r.op = "sync" /\ r.at \notin SyncStages => {"page", "got"} \cap DOMAIN r = {}
    /\ r.at \in SyncStages =>
         /\ r.op = "sync" /\ r.since \in {None} \cup 0..n
         /\ "page" \in DOMAIN r <=> "got" \in DOMAIN r
         /\ "page" \in DOMAIN r => r.page \in Nat \ {0} /\ (r.at = "count" => r.page > 1)
         /\ r.at # "count" => "page" \in DOMAIN r
         /\ r.at = "page" => "total" \in DOMAIN r
    /\ r.at \in TimeStages => /\ "token" \in DOMAIN r /\ r.token \in 0..n
                              /\ r.since # None => r.since < r.token

SyncsOK == \A c \in Calls : InFlight(c) => SyncFields(call[c], now)

\* A Kobo waits for one answer at a time.
OneWaits == \A c, e \in Calls : Waited(c) /\ Waited(e) /\ call[c].hw = call[e].hw => c = e

\* A sync that has its row
Serving(c) == InFlight(c) /\ call[c].at \in SyncStages

\* The number of a request that may still register is of no row and was of none,
\* and a sync's row is of its Kobo.
RowsOK ==
    /\ \A c \in Calls : call[c] = New \/ At(c, "register") =>
          /\ c \notin DOMAIN db.device
          /\ \A e \in Calls : Serving(e) => call[e].row # c
    /\ \A c \in Calls : Serving(c) /\ Has(db.device, call[c].row) => db.device[call[c].row].hw = call[c].hw

\* Books are ordered by number and time, and all times are past.
BooksOK(d, n) == DOMAIN d.book \subseteq Int /\ IsFiniteSet(DOMAIN d.book) /\ StampedUpTo(d, n)
ClockOK ==
    /\ DOMAIN calm = Kobos /\ DOMAIN held = Kobos /\ \A hw \in Kobos : calm[hw] \in BOOLEAN
    /\ BooksOK(db, now) /\ \A e \in edit : e.at <= now

\* The time of a change that is under way is of no token.
TimesDiffer ==
    \A e \in edit :
        /\ \A r \in DOMAIN db.device : db.device[r].token # e.at
        /\ \A c \in Calls : Serving(c) => /\ call[c].since # e.at
                                          /\ call[c].at \in TimeStages => call[c].token # e.at

\* What a sync has got is as it is, or is changed later than its token.
Page(r) == IF "page" \in DOMAIN r THEN r.page ELSE 1
Got(r) == IF "got" \in DOMAIN r THEN r.got ELSE << >>
GotIsTrue(d, r) ==
    \A b \in DOMAIN Got(r) : Has(d.book, b) =>
        \/ Got(r)[b] = d.book[b].mod
        \/ r.at \in TimeStages /\ d.book[b].mod > r.token

\* The books it should have got by now
Asked(d, r) == ChangedSince(d, r.lib, r.since)
Due(d, r) ==
    IF r.at \in {"count", "page"}
    THEN {b \in Asked(d, r) : \E i \in 1..Cardinality(Asked(d, r)) :
                                  i <= (Page(r) - 1) * PageSize /\ InOrder(d, Asked(d, r))[i] = b}
    ELSE IF r.at = "collections" THEN Asked(d, r)
    ELSE {b \in Asked(d, r) : d.book[b].mod <= r.token}
GotIsDue(d, r) ==
    /\ \A b \in Due(d, r) : Supported(d.book[b]) => b \in DOMAIN Got(r)
    /\ r.at = "page" => r.total = Cardinality(Asked(d, r))

\* A Kobo that holds h has the books of a library up to a time.
HoldsUpTo(d, h, lib, t) ==
    \A b \in DOMAIN d.book : d.book[b].lib = lib /\ Supported(d.book[b]) /\ d.book[b].mod <= t =>
        Has(h, b) /\ h[b] \in {d.book[b].mod, Removed}

\* The row that a sync works for, if it is still there
RowIsIts(d, h, r) ==
    /\ d.device[r.row].owner = r.user
    /\ d.device[r.row].token = IF r.at = "answer" THEN r.token ELSE r.since
    /\ r.since # None => HoldsUpTo(d, h, r.lib, r.since)

SyncGoesWell(d, h, r) ==
    /\ GotIsTrue(d, r) /\ GotIsDue(d, r)
    /\ \A q \in RowsOf(d, r.hw) : IF q = r.row THEN RowIsIts(d, h, r) ELSE d.device[q].token = None

\* What a calm Kobo can rely on
Answering(hw) == \E c \in Calls : SyncOf(c, hw) /\ call[c].at = "answer"
Reliable(hw) ==
    /\ \A c \in Calls : SyncOf(c, hw) =>
          /\ call[c].waits /\ call[c].lib = home[call[c].user]
          /\ call[c].at \in SyncStages => SyncGoesWell(db, held[hw], call[c])
    /\ \A r \in RowsOf(db, hw) :
          db.device[r].token # None /\ ~Answering(hw)
          => HoldsUpTo(db, held[hw], home[db.device[r].owner], db.device[r].token)

SyncInv ==
    /\ SyncsOK /\ OneWaits /\ RowsOK /\ ClockOK /\ TimesDiffer
    /\ \A hw \in Kobos : calm[hw] => Reliable(hw)

-----------------------------------------------------------------------------
(* What a step leaves alone.                                                 *)

\* A sync and the books decide what is due, whatever else the database holds.
LEMMA SameBooks ==
    ASSUME NEW d, NEW e, d.book = e.book
    PROVE  /\ \A r : Asked(e, r) = Asked(d, r) /\ Due(e, r) = Due(d, r)
           /\ \A r : GotIsTrue(e, r) = GotIsTrue(d, r) /\ GotIsDue(e, r) = GotIsDue(d, r)
           /\ \A h, lib, t : HoldsUpTo(e, h, lib, t) = HoldsUpTo(d, h, lib, t)
  <1>1. ASSUME NEW r
        PROVE  Asked(e, r) = Asked(d, r)
    BY DEF Asked, ChangedSince
  <1>2. \A S : InOrder(e, S) = InOrder(d, S)
    BY SameOrder
  <1>3. ASSUME NEW r
        PROVE  Due(e, r) = Due(d, r)
    <2>1. Asked(e, r) = Asked(d, r) /\ InOrder(e, Asked(d, r)) = InOrder(d, Asked(d, r))
      BY <1>1, <1>2
    <2> QED BY <2>1, Zenon DEF Due
  <1>4. ASSUME NEW r
        PROVE  GotIsTrue(e, r) = GotIsTrue(d, r) /\ GotIsDue(e, r) = GotIsDue(d, r)
    <2>1. GotIsTrue(e, r) = GotIsTrue(d, r)
      BY DEF GotIsTrue
    <2>2. GotIsDue(e, r) = GotIsDue(d, r)
      BY <1>1, <1>3 DEF GotIsDue
    <2> QED BY <2>1, <2>2
  <1>5. ASSUME NEW h, NEW lib, NEW t
        PROVE  HoldsUpTo(e, h, lib, t) = HoldsUpTo(d, h, lib, t)
    BY DEF HoldsUpTo
  <1> QED BY <1>1, <1>3, <1>4, <1>5

SameRows(hw) == \A r \in RowsOf(db', hw) : r \in RowsOf(db, hw) /\ db'.device[r] = db.device[r]

\* A Kobo relies on its rows, its books and its syncs, and on a sync only once it
\* has its row.
LEMMA Reliance ==
    ASSUME NEW hw \in Kobos, Reliable(hw), db'.book = db.book, SameRows(hw), held'[hw] = held[hw], home' = home,
           \A c \in Calls : SyncOf(c, hw)' /\ call'[c] # call[c] =>
              call'[c].waits /\ call'[c].lib = home[call'[c].user] /\ call'[c].at \notin SyncStages,
           \A c \in Calls : SyncOf(c, hw) /\ call'[c] # call[c] => call[c].at # "answer"
    PROVE  Reliable(hw)'
  <1>1. ASSUME NEW c \in Calls, SyncOf(c, hw)'
        PROVE  /\ call'[c].waits /\ call'[c].lib = home'[call'[c].user]
               /\ call'[c].at \in SyncStages => SyncGoesWell(db', held'[hw], call'[c])
    <2>1. CASE call'[c] = call[c]
      <3>1. call[c].waits /\ call[c].lib = home[call[c].user] /\ (call[c].at \in SyncStages => SyncGoesWell(db, held[hw], call[c])) /\ call[c].hw = hw
        BY <1>1, <2>1 DEF Reliable, SyncOf, InFlight
      <3>2. SyncGoesWell(db, held[hw], call[c]) => SyncGoesWell(db', held'[hw], call[c])
        <4>1. ASSUME SyncGoesWell(db, held[hw], call[c])
              PROVE  SyncGoesWell(db', held'[hw], call[c])
          <5>1. GotIsTrue(db', call[c]) /\ GotIsDue(db', call[c])
            BY <4>1, SameBooks DEF SyncGoesWell
          <5>2. ASSUME NEW q \in RowsOf(db', hw)
                PROVE  IF q = call[c].row THEN RowIsIts(db', held'[hw], call[c]) ELSE db'.device[q].token = None
            BY <3>1, <4>1, SameBooks DEF SyncGoesWell, SameRows, RowIsIts
          <5> QED BY <3>1, <5>1, <5>2 DEF SyncGoesWell
        <4> QED BY <4>1
      <3> QED BY <2>1, <3>1, <3>2
    <2>2. CASE call'[c] # call[c]
      BY <1>1, <2>2
    <2> QED BY <2>1, <2>2
  <1>2. Answering(hw) => Answering(hw)'
    BY DEF Answering, SyncOf, InFlight
  <1>3. ASSUME NEW r \in RowsOf(db', hw), db'.device[r].token # None, ~Answering(hw)'
        PROVE  HoldsUpTo(db', held'[hw], home'[db'.device[r].owner], db'.device[r].token)
    BY <1>2, <1>3, SameBooks DEF SameRows, Reliable
  <1> QED BY <1>1, <1>3 DEF Reliable

\* With the books, the rows and the times as they were
Untouched ==
    /\ db'.book = db.book /\ db'.device = db.device /\ calm' = calm /\ held' = held
    /\ now' = now /\ edit' = edit /\ home' = home

\* A step of a request that has no row, or is not a sync
Aside(c) ==
    /\ Others(c) /\ ~Serving(c)
    /\ \/ call'[c] = Over
       \/ /\ call'[c] # New /\ SyncFields(call'[c], now) /\ call'[c].at \notin SyncStages
          /\ call'[c].op = "sync" => call'[c].waits /\ call'[c].lib = home[call'[c].user]
          /\ call'[c].at = "register" => call[c] = New \/ At(c, "register")
          /\ call'[c].waits => \/ Waited(c) /\ call'[c].hw = call[c].hw
                               \/ ~\E e \in Calls : Waited(e) /\ call[e].hw = call'[c].hw

LEMMA AsideKeeps ==
    ASSUME Inv, SyncInv, NEW c \in Calls, Untouched, Aside(c)
    PROVE  SyncInv'
  <1>1. \A e \in Calls : e # c => call'[e] = call[e]
    BY DEF Aside, Others
  <1>2. SyncsOK'
    BY <1>1 DEF SyncInv, SyncsOK, Untouched, Aside, InFlight
  <1>3. OneWaits'
    BY <1>1 DEF SyncInv, OneWaits, Aside, Waited, InFlight
  <1>4. \A e \in Calls : Serving(e)' => e # c /\ Serving(e) /\ call'[e] = call[e]
    BY <1>1 DEF Aside, Serving, InFlight
  <1>5. RowsOK'
    BY <1>1, <1>4, RequestsAreInFlight DEF SyncInv, RowsOK, Untouched, Aside, At, InFlight, New, Over
  <1>6. ClockOK' /\ TimesDiffer'
    BY <1>4 DEF SyncInv, ClockOK, BooksOK, StampedUpTo, TimesDiffer, Untouched
  <1>7. ASSUME NEW hw \in Kobos, calm'[hw]
        PROVE  Reliable(hw)'
    <2>1. Reliable(hw) /\ SameRows(hw)
      BY <1>7 DEF SyncInv, Untouched, SameRows, RowsOf
    <2>2. \A e \in Calls : SyncOf(e, hw)' /\ call'[e] # call[e] =>
              call'[e].waits /\ call'[e].lib = home[call'[e].user] /\ call'[e].at \notin SyncStages
      BY <1>1 DEF Aside, SyncOf, InFlight
    <2>3. \A e \in Calls : SyncOf(e, hw) /\ call'[e] # call[e] => call[e].at # "answer"
      BY <1>1 DEF Aside, SyncOf, Serving, SyncStages
    <2> QED BY <2>1, <2>2, <2>3, Reliance DEF Untouched
  <1> QED BY <1>2, <1>3, <1>5, <1>6, <1>7 DEF SyncInv

\* What Step writes
LEMMA StepIs ==
    ASSUME CallsOK, NEW c \in Calls, InFlight(c), NEW change, Step(c, change)
    PROVE  /\ Others(c) /\ DOMAIN call'[c] = DOMAIN change \cup DOMAIN call[c]
           /\ \A x \in DOMAIN change : call'[c][x] = change[x]
           /\ \A x \in DOMAIN call[c] \ DOMAIN change : call'[c][x] = call[c][x]
  <1>1. call'[c] = change ++ call[c] /\ Others(c)
    BY DEF CallsOK, Step, Others
  <1>2. /\ DOMAIN (change ++ call[c]) = DOMAIN change \cup DOMAIN call[c]
        /\ \A x \in DOMAIN change : (change ++ call[c])[x] = change[x]
        /\ \A x \in DOMAIN call[c] \ DOMAIN change : (change ++ call[c])[x] = call[c][x]
    BY Overlay
  <1> QED BY <1>1, <1>2, Zenon

LEMMA EndIs == ASSUME CallsOK, NEW c \in Calls, Answer(c) PROVE Others(c) /\ call'[c] = Over
  BY DEF CallsOK, Answer, Others

\* Reading states and shelves
LEMMA OthersAside ==
    ASSUME Inv, SyncInv, NEW c \in Calls,
           \/ UpsertReadingState(c) \/ SaveProgress(c) \/ (\E b \in Books : FindFormat(c, b))
           \/ DeleteTag(c) \/ AddItem(c) \/ RemoveItem(c) \/ \E name \in TagNames : RenameTag(c, name)
    PROVE  Untouched /\ Aside(c)
  <1>1. InFlight(c) /\ call[c].at \notin SyncStages \cup {"register", "reread"}
    BY DEF UpsertReadingState, SaveProgress, FindFormat, DeleteTag, AddItem, RemoveItem, RenameTag, At, SyncStages
  <1>2. CallsOK /\ RequestOK(call[c]) /\ SyncFields(call[c], now) /\ call[c].op # "sync" /\ ~Serving(c) /\ call[c] # New
    BY <1>1 DEF Inv, CallsOK, SyncInv, SyncsOK, SyncFields, Serving, InFlight
  <1>3. Columns(db)
    BY DEF Inv, TypeOK
  <1>4. Untouched
    <2>1. edit' = edit /\ db'.book = db.book
      BY RequestsLeaveBooks DEF GoesOn
    <2>2. now' = now /\ held' = held /\ calm' = calm /\ home' = home
      BY ZenonT(60) DEF UpsertReadingState, SaveProgress, FindFormat, DeleteTag, AddItem, RemoveItem, RenameTag, Reads, Rest
    <2>3. CASE UpsertReadingState(c) \/ SaveProgress(c) \/ \E b \in Books : FindFormat(c, b)
      <3>1. db'.device = db.device
        BY <1>3, <2>3 DEF UpsertReadingState, SaveProgress, SyncProgress, FindFormat, Reads, Columns
      <3> QED BY <2>1, <2>2, <3>1 DEF Untouched
    <2>4. CASE DeleteTag(c) \/ AddItem(c) \/ RemoveItem(c) \/ \E name \in TagNames : RenameTag(c, name)
      <3>1. db'.device = db.device
        BY <1>3, <2>4 DEF DeleteTag, AddItem, RemoveItem, RenameTag, Columns
      <3> QED BY <2>1, <2>2, <3>1 DEF Untouched
    <2> QED BY <2>3, <2>4
  <1>5. \/ Answer(c)
        \/ \E change : /\ Step(c, change) /\ DOMAIN change \cap {"op", "waits", "hw"} = {}
                       /\ "at" \in DOMAIN change => change.at \notin SyncStages \cup {"register"}
    <2>1. CASE SaveProgress(c) \/ DeleteTag(c) \/ \E name \in TagNames : RenameTag(c, name)
      BY <2>1 DEF SaveProgress, DeleteTag, RenameTag
    <2>2. CASE AddItem(c) \/ RemoveItem(c)
      <3>1. NextItem(c)
        BY <2>2 DEF AddItem, RemoveItem
      <3>2. ASSUME Step(c, [items |-> Tail(call[c].items)])
            PROVE  \E change : /\ Step(c, change) /\ DOMAIN change \cap {"op", "waits", "hw"} = {}
                               /\ "at" \in DOMAIN change => change.at \notin SyncStages \cup {"register"}
        <4> WITNESS [items |-> Tail(call[c].items)]
        <4> QED BY <3>2
      <3> QED BY <3>1, <3>2 DEF NextItem
    <2>3. CASE UpsertReadingState(c)
      <3>1. ASSUME Step(c, [at |-> "progress"])
            PROVE  \E change : /\ Step(c, change) /\ DOMAIN change \cap {"op", "waits", "hw"} = {}
                               /\ "at" \in DOMAIN change => change.at \notin SyncStages \cup {"register"}
        <4> WITNESS [at |-> "progress"]
        <4> QED BY <3>1 DEF SyncStages
      <3> QED BY <2>3, <3>1 DEF UpsertReadingState
    <2>4. ASSUME NEW b \in Books, FindFormat(c, b)
          PROVE  \/ Answer(c)
                 \/ \E change : /\ Step(c, change) /\ DOMAIN change \cap {"op", "waits", "hw"} = {}
                                /\ "at" \in DOMAIN change => change.at \notin SyncStages \cup {"register"}
      <3> DEFINE f == [at |-> "state", book |-> b, fmt |-> IF "EPUB" \in db.book[b].fmt THEN "EPUB" ELSE "PDF"]
      <3>1. ASSUME Step(c, f)
            PROVE  \E change : /\ Step(c, change) /\ DOMAIN change \cap {"op", "waits", "hw"} = {}
                               /\ "at" \in DOMAIN change => change.at \notin SyncStages \cup {"register"}
        <4>1. DOMAIN f \cap {"op", "waits", "hw"} = {} /\ f.at \notin SyncStages \cup {"register"}
          BY DEF SyncStages
        <4> HIDE DEF f
        <4> WITNESS f
        <4> QED BY <3>1, <4>1
      <3> QED BY <2>4, <3>1 DEF FindFormat
    <2> QED BY <2>1, <2>2, <2>3, <2>4
  <1>6. CASE Answer(c)
    BY <1>2, <1>4, <1>6, EndIs DEF Aside
  <1>7. ASSUME NEW change, Step(c, change), DOMAIN change \cap {"op", "waits", "hw"} = {},
               "at" \in DOMAIN change => change.at \notin SyncStages \cup {"register"}
        PROVE  Aside(c)
    <2>1. /\ Others(c) /\ call'[c].op = call[c].op /\ call'[c].waits = call[c].waits /\ call'[c].hw = call[c].hw
          /\ call'[c].at \notin SyncStages \cup {"register"} /\ "op" \in DOMAIN call'[c]
      BY <1>1, <1>2, <1>7, StepIs DEF RequestOK
    <2>2. call'[c] # New
      BY <1>2, <2>1 DEF RequestOK, New
    <2> QED BY <1>1, <1>2, <2>1, <2>2 DEF Aside, SyncFields, Waited, TimeStages, SyncStages
  <1> QED BY <1>4, <1>5, <1>6, <1>7

\* A request that begins without a row, or is not a sync
LEMMA BeginsAside ==
    ASSUME SyncInv, NEW c \in Calls, NEW r, Begin(c, r), CallsOK, RequestOK(r),
           r.at \notin SyncStages, r.waits = TRUE,
           r.op = "sync" => r.at = "register" /\ r.lib = home[r.user] /\ {"page", "got"} \cap DOMAIN r = {}
    PROVE  Aside(c)
  <1>1. call[c] = New /\ Others(c) /\ call'[c] = r /\ ~\E e \in Calls : Waited(e) /\ call[e].hw = r.hw
    BY DEF Begin, CallsOK, Others
  <1>2. r # New
    BY RequestsAreInFlight
  <1>3. SyncFields(r, now)
    BY DEF SyncFields, TimeStages, SyncStages
  <1> QED BY <1>1, <1>2, <1>3 DEF Aside, Serving, InFlight

LEMMA BeginningsAside ==
    ASSUME Inv, SyncInv, NEW c \in Calls,
           \/ UpdateReadingState(c) \/ Initialization(c) \/ CreateKoboTag(c) \/ \E op \in TagStages : AskTag(c, op)
           \/ \E u \in MayDownload, hw \in Kobos : Unknown(c, "sync", u, hw)
    PROVE  Untouched /\ Aside(c)
  <1>1. CallsOK /\ Columns(db)
    BY DEF Inv, TypeOK
  <1>2. ASSUME NEW u \in Users, NEW hw, NEW op \in {"sync", "state", "initialization"}, Unknown(c, op, u, hw)
        PROVE  Untouched /\ Aside(c)
    <2>1. RequestOK(Request(op, u, hw, "register"))
      BY <1>2 DEF Request, RequestOK, TagStages
    <2>2. Aside(c)
      BY <1>1, <1>2, <2>1, BeginsAside DEF Unknown, Request, SyncStages
    <2> QED BY <1>2, <2>2 DEF Unknown, Reads, Rest, Untouched
  <1>3. ASSUME NEW u \in Users, NEW hw, Known(c, "state", u, hw, "book")
        PROVE  Untouched /\ Aside(c)
    <2>1. PICK r \in RowsOf(db, hw) : Begin(c, [Request("state", u, hw, "book") EXCEPT !.row = r, !.since = db.device[r].token])
      BY <1>3 DEF Known
    <2> DEFINE q == [Request("state", u, hw, "book") EXCEPT !.row = r, !.since = db.device[r].token]
    <2>2. RequestOK(q) /\ q.at = "book" /\ q.waits = TRUE /\ q.op = "state"
      BY DEF Request, RequestOK, TagStages
    <2> HIDE DEF q
    <2>3. Aside(c)
      BY <1>1, <2>1, <2>2, BeginsAside DEF SyncStages, q
    <2> QED BY <1>3, <2>3 DEF Known, CalmFrom, Rest, Untouched
  <1>4. ASSUME NEW u \in Users, NEW hw, NEW op \in TagStages, NEW s, NEW items \in TagItems,
               Begin(c, TagRequest(u, hw, op, s, items))
        PROVE  Aside(c)
    <2> DEFINE r == TagRequest(u, hw, op, s, items)
    <2>1. RequestOK(r) /\ r.at = op
      BY TagRequestOK
    <2>2. r.waits = TRUE /\ r.op = op
      <3> DEFINE f == [Request(op, u, hw, op) EXCEPT !.row = s]
      <3>1. f.waits = TRUE /\ f.op = op /\ {"waits", "op"} \subseteq DOMAIN f
        BY DEF Request
      <3> HIDE DEF f
      <3>2. DOMAIN [items |-> items] = {"items"}
        OBVIOUS
      <3>3. (f ++ [items |-> items]).waits = f.waits /\ (f ++ [items |-> items]).op = f.op
        BY <3>1, <3>2 DEF ++
      <3> QED BY <3>1, <3>3 DEF TagRequest, f
    <2> HIDE DEF r
    <2> QED BY <1>1, <1>4, <2>1, <2>2, BeginsAside DEF SyncStages, TagStages, r
  <1>5. CASE CreateKoboTag(c)
    <2>1. PICK u \in Users, hw \in Kobos, name \in TagNames, items \in TagItems :
              /\ Begin(c, TagRequest(u, hw, "additem", c, items))
              /\ db' = [db EXCEPT !.shelf = Put(@, c, [owner |-> u, name |-> name])]
              /\ UNCHANGED calm /\ Rest
      BY <1>5 DEF CreateKoboTag
    <2>2. Aside(c)
      BY <1>4, <2>1 DEF TagStages
    <2> QED BY <1>1, <2>1, <2>2 DEF Rest, Untouched, Columns
  <1>6. ASSUME NEW op \in TagStages, AskTag(c, op)
        PROVE  Untouched /\ Aside(c)
    BY <1>4, <1>6 DEF AskTag, Reads, Rest, Untouched
  <1>7. ASSUME NEW u \in MayDownload
        PROVE  u \in Users
    BY UsersAssumption
  <1>8. CASE UpdateReadingState(c)
    <2>1. PICK u \in MayDownload, hw \in Kobos : Known(c, "state", u, hw, "book") \/ Unknown(c, "state", u, hw)
      BY <1>8 DEF UpdateReadingState
    <2> QED BY <1>2, <1>3, <1>7, <2>1
  <1>9. CASE Initialization(c)
    BY <1>2, <1>9 DEF Initialization
  <1>10. CASE \E u \in MayDownload, hw \in Kobos : Unknown(c, "sync", u, hw)
    BY <1>2, <1>7, <1>10
  <1> QED BY <1>5, <1>6, <1>8, <1>9, <1>10

\* Requests other than syncs that read their row or are given up
LEMMA NoSyncAside ==
    ASSUME Inv, SyncInv, NEW c \in Calls, call[c].op # "sync", Reread(c) \/ GiveUp(c)
    PROVE  Untouched /\ Aside(c)
  <1>1. CallsOK /\ InFlight(c) /\ RequestOK(call[c]) /\ SyncFields(call[c], now)
    BY DEF Inv, CallsOK, SyncInv, SyncsOK, Reread, GiveUp, At, Waited
  <1>2. ~Serving(c) /\ call[c] # New /\ call[c].at \notin SyncStages
    BY <1>1 DEF SyncFields, Serving, InFlight
  <1>3. Untouched
    BY DEF Reread, GiveUp, CalmFrom, Rest, Untouched
  <1>4. CASE Answer(c)
    BY <1>1, <1>2, <1>3, <1>4, EndIs DEF Aside
  <1>5. ASSUME NEW change, Step(c, change), DOMAIN change \cap {"op", "hw"} = {},
               "waits" \in DOMAIN change => change.waits = FALSE,
               "at" \in DOMAIN change => change.at \notin SyncStages \cup {"register"}
        PROVE  Aside(c)
    <2>1. /\ Others(c) /\ call'[c].op = call[c].op /\ call'[c].hw = call[c].hw /\ "op" \in DOMAIN call'[c]
          /\ call'[c].waits \in BOOLEAN /\ (call'[c].waits => call[c].waits)
          /\ call'[c].at \notin SyncStages /\ (call'[c].at = "register" => call[c].at = "register")
      <3>1. /\ Others(c) /\ DOMAIN call'[c] = DOMAIN change \cup DOMAIN call[c]
            /\ \A x \in DOMAIN change : call'[c][x] = change[x]
            /\ \A x \in DOMAIN call[c] \ DOMAIN change : call'[c][x] = call[c][x]
        BY <1>1, <1>5, StepIs
      <3>2. {"op", "hw", "at", "waits"} \subseteq DOMAIN call[c] /\ call[c].waits \in BOOLEAN
        BY <1>1 DEF RequestOK, SyncFields
      <3> QED BY <1>2, <1>5, <3>1, <3>2
    <2>2. call'[c] # New
      BY <1>1, <2>1 DEF RequestOK, New
    <2> QED BY <1>1, <1>2, <2>1, <2>2 DEF Aside, SyncFields, Waited, TimeStages, SyncStages, At
  <1>6. ASSUME Reread(c), ~Answer(c)
        PROVE  Aside(c)
    <2>1. PICK r : Step(c, [at |-> Stage(call[c].op), row |-> r, since |-> db.device[r].token])
      BY <1>6 DEF Reread
    <2> DEFINE f == [at |-> Stage(call[c].op), row |-> r, since |-> db.device[r].token]
    <2>2. DOMAIN f \cap {"op", "hw", "waits"} = {} /\ f.at \notin SyncStages \cup {"register"}
      BY DEF Stage, SyncStages
    <2> HIDE DEF f
    <2> QED BY <1>5, <2>1, <2>2 DEF f
  <1>7. ASSUME GiveUp(c), ~Answer(c)
        PROVE  Aside(c)
    <2> DEFINE f == [waits |-> FALSE]
    <2>1. Step(c, f) /\ DOMAIN f = {"waits"} /\ f.waits = FALSE
      BY <1>7 DEF GiveUp
    <2> HIDE DEF f
    <2> QED BY <1>5, <2>1
  <1> QED BY <1>3, <1>4, <1>6, <1>7

-----------------------------------------------------------------------------
(* The changes of the library.                                               *)

\* They leave the requests.
LEMMA RequestsStay ==
    ASSUME Inv, SyncInv, call' = call, now' \in Int, now <= now',
           \A r \in DOMAIN db'.device : r \in DOMAIN db.device /\ db'.device[r] = db.device[r]
    PROVE  SyncsOK' /\ OneWaits' /\ RowsOK'
  <1>1. now \in Int
    BY DEF Inv, TypeOK
  <1>2. \A r : SyncFields(r, now) => SyncFields(r, now')
    BY <1>1 DEF SyncFields
  <1>3. SyncsOK'
    BY <1>2 DEF SyncInv, SyncsOK, InFlight
  <1>4. OneWaits' /\ RowsOK'
    BY DEF SyncInv, OneWaits, RowsOK, Waited, At, Serving, InFlight, Has
  <1> QED BY <1>3, <1>4

LEMMA StampsStay ==
    ASSUME BooksOK(db, now), now \in Int, now' \in Int, now <= now', DOMAIN db'.book \subseteq DOMAIN db.book,
           \A b \in DOMAIN db'.book : db'.book[b].mod = db.book[b].mod,
           \A r \in DOMAIN db'.device : r \in DOMAIN db.device /\ db'.device[r] = db.device[r]
    PROVE  BooksOK(db', now')
  <1>1. IsFiniteSet(DOMAIN db'.book)
    BY FS_Subset DEF BooksOK
  <1> QED BY <1>1 DEF BooksOK, StampedUpTo

\* Books of which every one is as it was or is changed later than all that the
\* Kobo and its syncs have seen, and no sync is between two pages.
LEMMA LaterBooks ==
    ASSUME SyncInv, BooksOK(db', now'), NEW hw \in Kobos, calm[hw], call' = call, db'.device = db.device, held' = held, home' = home, NEW at \in Int,
           ~\E c \in Calls : SyncOf(c, hw) /\ Reading(c),
           \A b \in DOMAIN db'.book :
              \/ b \in DOMAIN db.book /\ db'.book[b] = db.book[b]
              \/ /\ db'.book[b].mod = at
                 /\ \A r \in RowsOf(db, hw) : db.device[r].token # None => db.device[r].token < at
                 /\ \A c \in Calls : SyncOf(c, hw) /\ call[c].at \in TimeStages => call[c].token < at
    PROVE  Reliable(hw)'
  <1>1. Reliable(hw) /\ SyncsOK /\ BooksOK(db, now)
    BY DEF SyncInv, ClockOK
  <1>2. RowsOf(db', hw) = RowsOf(db, hw)
    BY DEF RowsOf
  <1>3. ASSUME NEW lib, NEW r \in RowsOf(db, hw), db.device[r].token # None, NEW t \in Int, t <= db.device[r].token,
               HoldsUpTo(db, held[hw], lib, t)
        PROVE  HoldsUpTo(db', held[hw], lib, t)
    <2>1. db.device[r].token \in Int
      BY <1>1, <1>3 DEF BooksOK, StampedUpTo, RowsOf
    <2> QED BY <1>3, <2>1 DEF HoldsUpTo
  <1>4. ASSUME NEW c \in Calls, SyncOf(c, hw), call[c].at \in SyncStages
        PROVE  SyncGoesWell(db', held[hw], call[c])
    <2> DEFINE r == call[c]
    <2>1. SyncGoesWell(db, held[hw], r) /\ SyncFields(r, now) /\ r.hw = hw /\ ~Reading(c)
      BY <1>1, <1>4 DEF Reliable, SyncsOK, SyncOf
    <2>2. (r.at = "count" /\ "page" \notin DOMAIN r) \/ r.at \in TimeStages
      BY <1>4, <2>1 DEF Reading, SyncOf, SyncFields, SyncStages, TimeStages
    <2>3. ASSUME r.at = "count", "page" \notin DOMAIN r
          PROVE  GotIsTrue(db', r) /\ GotIsDue(db', r)
      <3>1. Page(r) = 1 /\ Got(r) = << >> /\ DOMAIN Got(r) = {}
        BY <2>1, <2>3 DEF Page, Got, SyncFields, SyncStages
      <3>2. (Page(r) - 1) * PageSize = 0
        BY <3>1, KoboBoundsAssumption
      <3>3. Due(db', r) = {}
        <4>1. \A b \in Due(db', r) : \E i \in 1..Cardinality(Asked(db', r)) : i <= (Page(r) - 1) * PageSize
          BY <2>3 DEF Due
        <4> QED BY <3>2, <4>1
      <3> QED BY <2>3, <3>1, <3>3 DEF GotIsTrue, GotIsDue
    <2>4. ASSUME r.at \in TimeStages
          PROVE  GotIsTrue(db', r) /\ GotIsDue(db', r)
      <3>1. r.token \in Int /\ \A b \in DOMAIN db'.book : db'.book[b].mod <= r.token =>
                b \in DOMAIN db.book /\ db'.book[b] = db.book[b]
        BY <1>4, <2>1, <2>4 DEF SyncFields
      <3>2. GotIsTrue(db, r) /\ GotIsDue(db, r)
        BY <2>1 DEF SyncGoesWell
      <3>3. \A b \in DOMAIN db'.book : db'.book[b].mod \in Int
        BY DEF BooksOK, StampedUpTo
      <3>4. GotIsTrue(db', r)
        BY <1>4, <2>4, <3>1, <3>2, <3>3 DEF GotIsTrue, Has
      <3>5. Due(db', r) = {b \in Asked(db', r) : db'.book[b].mod <= r.token}
            /\ Due(db, r) = {b \in Asked(db, r) : db.book[b].mod <= r.token}
        BY <2>4 DEF Due, TimeStages
      <3>6. \A b \in Due(db', r) : b \in Due(db, r) /\ db'.book[b] = db.book[b]
        BY <3>1, <3>5 DEF Asked, ChangedSince
      <3> QED BY <2>4, <3>2, <3>4, <3>6 DEF GotIsDue, TimeStages
    <2>5. GotIsTrue(db', r) /\ GotIsDue(db', r)
      BY <2>2, <2>3, <2>4
    <2>6. ASSUME NEW q \in RowsOf(db', hw), q = r.row
          PROVE  RowIsIts(db', held[hw], r)
      <3>1. RowIsIts(db, held[hw], r) /\ q \in RowsOf(db, hw)
        BY <1>2, <2>1, <2>6 DEF SyncGoesWell
      <3>2. CASE r.since = None
        BY <3>1, <3>2 DEF RowIsIts
      <3>3. CASE r.since # None
        <4>1. r.since \in Int /\ db.device[q].token # None /\ r.since <= db.device[q].token
          BY <1>4, <2>1, <2>6, <3>1, <3>3, BooksAssumption DEF RowIsIts, SyncFields, TimeStages
        <4> QED BY <1>3, <2>6, <3>1, <4>1 DEF RowIsIts
      <3> QED BY <3>2, <3>3
    <2>7. \A q \in RowsOf(db', hw) : q # r.row => db'.device[q].token = None
      BY <1>2, <2>1 DEF SyncGoesWell
    <2> QED BY <2>1, <2>5, <2>6, <2>7 DEF SyncGoesWell
  <1>5. ASSUME NEW r \in RowsOf(db', hw), db'.device[r].token # None, ~Answering(hw)'
        PROVE  HoldsUpTo(db', held[hw], home'[db'.device[r].owner], db'.device[r].token)
    <2>1. ~Answering(hw)
      BY <1>5 DEF Answering, SyncOf, InFlight
    <2>2. HoldsUpTo(db, held[hw], home[db.device[r].owner], db.device[r].token)
      BY <1>1, <1>2, <1>5, <2>1 DEF Reliable
    <2>3. db.device[r].token \in Int /\ r \in RowsOf(db, hw)
      BY <1>1, <1>2, <1>5 DEF BooksOK, StampedUpTo, RowsOf
    <2> QED BY <1>3, <1>5, <2>2, <2>3
  <1> QED BY <1>1, <1>4, <1>5 DEF Reliable, SyncOf, InFlight

LEMMA RemoveBookKeeps ==
    ASSUME Inv, SyncInv, NEW hw \in Kobos, NEW b \in Books, RemoveBook(hw, b)
    PROVE  SyncInv'
  <1>1. /\ db' = db /\ now' = now /\ edit' = edit /\ call' = call /\ calm' = calm /\ home' = home
        /\ held' = [held EXCEPT ![hw][b] = Removed] /\ DOMAIN held = Kobos /\ Has(held[hw], b)
        /\ ~\E c \in Calls : Waited(c) /\ call[c].hw = hw
    BY DEF RemoveBook, SyncInv, ClockOK
  <1>2. SyncsOK' /\ OneWaits' /\ RowsOK' /\ ClockOK' /\ TimesDiffer'
    <2>1. now \in Int
      BY DEF Inv, TypeOK
    <2>2. SyncsOK' /\ OneWaits' /\ RowsOK'
      BY <1>1, <2>1, RequestsStay
    <2>3. ClockOK' /\ TimesDiffer'
      BY <1>1 DEF SyncInv, ClockOK, BooksOK, StampedUpTo, TimesDiffer, Serving, InFlight
    <2> QED BY <2>2, <2>3
  <1>3. ASSUME NEW k \in Kobos, calm'[k], k # hw
        PROVE  Reliable(k)'
    BY <1>1, <1>3, Reliance DEF SyncInv, SameRows, RowsOf, SyncOf, InFlight
  <1>4. ASSUME calm'[hw]
        PROVE  Reliable(hw)'
    <2>1. Reliable(hw)
      BY <1>1, <1>4 DEF SyncInv
    <2>2. ~\E c \in Calls : SyncOf(c, hw)
      BY <1>1, <2>1 DEF Reliable, Waited, SyncOf
    <2>3. \A x \in DOMAIN held[hw] : x \in DOMAIN held'[hw] /\ held'[hw][x] \in {held[hw][x], Removed}
      BY <1>1
    <2>4. \A lib, t : HoldsUpTo(db, held[hw], lib, t) => HoldsUpTo(db, held'[hw], lib, t)
      BY <2>3 DEF HoldsUpTo, Has
    <2> QED BY <1>1, <2>1, <2>2, <2>4 DEF Reliable, Answering, SyncOf, InFlight
  <1> QED BY <1>2, <1>3, <1>4 DEF SyncInv

LEMMA StartEditKeeps ==
    ASSUME Inv, SyncInv, NEW b \in Books, StartEdit(b)
    PROVE  SyncInv'
  <1>1. /\ db' = db /\ call' = call /\ calm' = calm /\ home' = home /\ held' = held /\ now' = now + 1 /\ now \in Int
        /\ \A e \in edit' : e.at = now'
    BY DEF StartEdit, Elsewhere, Change, Inv, TypeOK
  <1>2. SyncsOK' /\ OneWaits' /\ RowsOK'
    BY <1>1, RequestsStay
  <1>3. ClockOK'
    BY <1>1, StampsStay DEF SyncInv, ClockOK
  <1>4. \A r \in DOMAIN db.device : db.device[r].token # now + 1
    BY <1>1, BooksAssumption DEF SyncInv, ClockOK, BooksOK, StampedUpTo
  <1>5. ASSUME NEW c \in Calls, Serving(c)
        PROVE  call[c].since # now + 1 /\ (call[c].at \in TimeStages => call[c].token # now + 1)
    <2>1. SyncFields(call[c], now)
      BY <1>5 DEF SyncInv, SyncsOK, Serving
    <2> QED BY <1>1, <1>5, <2>1, BooksAssumption DEF SyncFields, Serving
  <1>6. TimesDiffer'
    BY <1>1, <1>4, <1>5 DEF TimesDiffer, Serving, InFlight
  <1>7. ASSUME NEW hw \in Kobos, calm'[hw]
        PROVE  Reliable(hw)'
    BY <1>1, <1>7, Reliance DEF SyncInv, SameRows, RowsOf, SyncOf, InFlight
  <1> QED BY <1>2, <1>3, <1>6, <1>7 DEF SyncInv

LEMMA CommitEditKeeps ==
    ASSUME Inv, SyncInv, NEW e \in edit, CommitEdit(e)
    PROVE  SyncInv'
  <1>1. /\ Columns(db) /\ now \in Int /\ e.at \in Int /\ e.at <= now /\ e.at > 0 /\ e.book \in Int
        /\ call' = call /\ home' = home /\ held' = held /\ now' = now /\ edit' \subseteq edit
        /\ DOMAIN calm = Kobos /\ DOMAIN held = Kobos
        /\ calm' = [hw \in Kobos |-> calm[hw] /\ ~Disturbed(hw, e.at)]
    BY BooksAssumption DEF CommitEdit, CalmAfter, Inv, TypeOK, SyncInv, ClockOK
  <1>2. /\ db'.device = db.device
        /\ db'.book = db.book \/ \E row : row.mod = e.at /\ db'.book = Put(db.book, e.book, row)
    <2>1. CASE e.new
      <3>1. db' = [db EXCEPT !.book = Put(@, e.book, [lib |-> NewLibrary, mod |-> e.at, fmt |-> {"EPUB"}])]
        BY <2>1 DEF CommitEdit
      <3> QED BY <1>1, <3>1 DEF Columns
    <2>2. CASE ~e.new /\ Has(db.book, e.book)
      <3>1. db'.device = db.device /\ db'.book = [db.book EXCEPT ![e.book].mod = e.at] /\ DOMAIN db.book[e.book] = {"lib", "mod", "fmt"}
        BY <1>1, <2>2 DEF CommitEdit, Columns, Has
      <3> DEFINE row == [db.book[e.book] EXCEPT !.mod = e.at]
      <3>2. row.mod = e.at
        BY <3>1
      <3>3. db'.book = Put(db.book, e.book, row)
        BY <2>2, <3>1 DEF Put, Has
      <3> HIDE DEF row
      <3> QED BY <3>1, <3>2, <3>3
    <2>3. CASE ~e.new /\ ~Has(db.book, e.book)
      BY <2>3 DEF CommitEdit
    <2> QED BY <2>1, <2>2, <2>3
  <1>3. \A b \in DOMAIN db'.book : \/ b \in DOMAIN db.book /\ db'.book[b] = db.book[b]
                                   \/ b = e.book /\ db'.book[b].mod = e.at
    BY <1>2 DEF Put
  <1>4. SyncsOK' /\ OneWaits' /\ RowsOK'
    BY <1>1, <1>2, RequestsStay
  <1>5. BooksOK(db, now) /\ \A f \in edit : f.at <= now
    BY DEF SyncInv, ClockOK
  <1>6. BooksOK(db', now')
    <2>1. DOMAIN db'.book = DOMAIN db.book \/ DOMAIN db'.book = DOMAIN db.book \cup {e.book}
      BY <1>2 DEF Put
    <2>2. IsFiniteSet(DOMAIN db'.book)
      BY <1>5, <2>1, FS_AddElement DEF BooksOK
    <2>3. DOMAIN db'.book \subseteq Int
      BY <1>1, <1>5, <2>1 DEF BooksOK
    <2>4. StampedUpTo(db', now')
      BY <1>1, <1>2, <1>3, <1>5 DEF BooksOK, StampedUpTo
    <2> QED BY <2>2, <2>3, <2>4 DEF BooksOK
  <1>7. ClockOK'
    BY <1>1, <1>5, <1>6 DEF ClockOK
  <1>8. TimesDiffer'
    BY <1>1, <1>2 DEF SyncInv, TimesDiffer, Serving, InFlight
  <1>9. ASSUME NEW hw \in Kobos, calm'[hw]
        PROVE  Reliable(hw)'
    <2>1. calm[hw] /\ ~Disturbed(hw, e.at)
      BY <1>1, <1>9
    <2>2. ~\E c \in Calls : SyncOf(c, hw) /\ Reading(c)
      BY <2>1 DEF Disturbed
    <2>3. ASSUME NEW r \in RowsOf(db, hw), db.device[r].token # None
          PROVE  db.device[r].token < e.at
      <3>1. ~(db.device[r].token > e.at) /\ db.device[r].token # e.at
        BY <2>1, <2>3 DEF Disturbed, SyncInv, TimesDiffer, RowsOf
      <3> QED BY <1>1, <1>5, <2>3, <3>1 DEF BooksOK, StampedUpTo, RowsOf
    <2>4. ASSUME NEW c \in Calls, SyncOf(c, hw), call[c].at \in TimeStages
          PROVE  call[c].token < e.at
      <3>1. ~(call[c].token > e.at) /\ SyncFields(call[c], now)
        BY <2>1, <2>4 DEF Disturbed, SyncInv, SyncsOK, SyncOf, TimeStages
      <3>2. call[c].token # e.at
        BY <2>4 DEF SyncInv, TimesDiffer, Serving, SyncOf, TimeStages, SyncStages
      <3> QED BY <1>1, <2>4, <3>1, <3>2 DEF SyncFields
    <2> QED BY <1>1, <1>2, <1>3, <1>6, <2>1, <2>2, <2>3, <2>4, LaterBooks
  <1> QED BY <1>4, <1>7, <1>8, <1>9 DEF SyncInv

\* A book of the past disturbs the Kobos whose token is as old or younger.
LEMMA MigrateBookKeeps ==
    ASSUME Inv, SyncInv, NEW b \in Books, MigrateBook(b)
    PROVE  SyncInv'
  <1>1. /\ Columns(db) /\ now \in Int /\ call' = call /\ home' = home /\ held' = held /\ now' = now /\ edit' = edit
        /\ DOMAIN calm = Kobos /\ DOMAIN held = Kobos /\ b \in Int
    BY BooksAssumption DEF MigrateBook, Elsewhere, Change, Inv, TypeOK, SyncInv, ClockOK
  <1>2. PICK at \in 0..now, lib \in Libraries :
            /\ db' = [db EXCEPT !.book = Put(@, b, [lib |-> lib, mod |-> at, fmt |-> {"EPUB"}])]
            /\ calm' = [hw \in Kobos |-> calm[hw] /\ ~Disturbed(hw, at - 1)]
    BY DEF MigrateBook, CalmAfter
  <1>3. /\ db'.device = db.device /\ DOMAIN db'.book = DOMAIN db.book \cup {b}
        /\ \A x \in DOMAIN db'.book : \/ x \in DOMAIN db.book /\ db'.book[x] = db.book[x]
                                      \/ x = b /\ db'.book[x].mod = at
    BY <1>1, <1>2 DEF Columns, Put
  <1>4. SyncsOK' /\ OneWaits' /\ RowsOK'
    BY <1>1, <1>3, RequestsStay
  <1>5. BooksOK(db', now') /\ \A f \in edit : f.at <= now
    <2>1. BooksOK(db, now) /\ \A f \in edit : f.at <= now
      BY DEF SyncInv, ClockOK
    <2>2. IsFiniteSet(DOMAIN db.book \cup {b})
      BY <2>1, FS_AddElement DEF BooksOK
    <2>3. \A x \in DOMAIN db'.book : db'.book[x].mod \in 0..now
      BY <1>3, <2>1 DEF BooksOK, StampedUpTo
    <2> QED BY <1>1, <1>3, <2>1, <2>2, <2>3 DEF BooksOK, StampedUpTo
  <1>6. ClockOK' /\ TimesDiffer'
    BY <1>1, <1>2, <1>3, <1>5 DEF SyncInv, ClockOK, TimesDiffer, Serving, InFlight
  <1>7. ASSUME NEW hw \in Kobos, calm'[hw]
        PROVE  Reliable(hw)'
    <2>1. calm[hw] /\ ~Disturbed(hw, at - 1)
      BY <1>1, <1>2, <1>7
    <2>2. at \in Int /\ ~\E c \in Calls : SyncOf(c, hw) /\ Reading(c)
      BY <2>1 DEF Disturbed
    <2>3. \A r \in RowsOf(db, hw) : db.device[r].token # None => db.device[r].token < at
      <3>1. \A r \in RowsOf(db, hw) : db.device[r].token \in {None} \cup 0..now
        BY DEF SyncInv, ClockOK, BooksOK, StampedUpTo, RowsOf
      <3> QED BY <1>1, <2>1, <3>1 DEF Disturbed
    <2>4. ASSUME NEW c \in Calls, SyncOf(c, hw), call[c].at \in TimeStages
          PROVE  call[c].token < at
      <3>1. SyncFields(call[c], now) /\ ~(call[c].token > at - 1)
        BY <2>1, <2>4 DEF Disturbed, TimeStages, SyncOf, SyncInv, SyncsOK
      <3>2. call[c].token \in 0..now
        BY <2>4, <3>1 DEF SyncFields
      <3> QED BY <1>1, <3>1, <3>2
    <2> QED BY <1>1, <1>3, <1>5, <2>1, <2>2, <2>3, <2>4, LaterBooks
  <1> QED BY <1>4, <1>6, <1>7 DEF SyncInv

\* Another default library disturbs the user's Kobos that have synchronised or
\* are about to.
LEMMA SetDefaultLibraryKeeps ==
    ASSUME Inv, SyncInv, NEW u \in Users, SetDefaultLibrary(u)
    PROVE  SyncInv'
  <1>1. /\ now \in Int /\ db' = db /\ call' = call /\ held' = held /\ now' = now /\ edit' = edit
        /\ DOMAIN calm = Kobos /\ DOMAIN held = Kobos
        /\ calm' = [hw \in Kobos |-> calm[hw] /\ ~Missed(u, hw)]
        /\ \A v \in Users \ {u} : home'[v] = home[v]
    BY DEF SetDefaultLibrary, Change, Inv, TypeOK, SyncInv, ClockOK
  <1>2. SyncsOK' /\ OneWaits' /\ RowsOK'
    BY <1>1, RequestsStay
  <1>3. ClockOK' /\ TimesDiffer'
    BY <1>1 DEF SyncInv, ClockOK, BooksOK, StampedUpTo, TimesDiffer, Serving, InFlight
  <1>4. ASSUME NEW hw \in Kobos, calm'[hw]
        PROVE  Reliable(hw)'
    <2>1. Reliable(hw) /\ ~Missed(u, hw)
      BY <1>1, <1>4 DEF SyncInv
    <2>2. \A c \in Calls : SyncOf(c, hw) => home'[call[c].user] = home[call[c].user]
      BY <1>1, <2>1 DEF Missed, SyncOf, Inv, CallsOK, RequestOK
    <2>3. \A r \in RowsOf(db, hw) : db.device[r].token # None => home'[db.device[r].owner] = home[db.device[r].owner]
      BY <1>1, <2>1 DEF Missed, RowsOf, Inv, TypeOK, References
    <2> QED BY <1>1, <2>1, <2>2, <2>3 DEF Reliable, Answering, SyncOf, InFlight
  <1> QED BY <1>2, <1>3, <1>4 DEF SyncInv

LEMMA DeleteBookKeepsSyncs ==
    ASSUME Inv, SyncInv, NEW b \in Books, DeleteBook(b)
    PROVE  SyncInv'
  <1>1. /\ Columns(db) /\ now \in Int /\ call' = call /\ home' = home /\ held' = held /\ now' = now /\ edit' = edit
        /\ DOMAIN calm = Kobos /\ DOMAIN held = Kobos
        /\ calm' = [hw \in Kobos |-> calm[hw] /\ ~Disturbed(hw, now)]
    BY DEF DeleteBook, Elsewhere, Change, CalmAfter, Inv, TypeOK, SyncInv, ClockOK
  <1>2. db'.device = db.device /\ db'.book = Drop(db.book, {b})
    BY <1>1 DEF DeleteBook, Columns
  <1>3. \A x \in DOMAIN db'.book : x \in DOMAIN db.book /\ db'.book[x] = db.book[x]
    BY <1>2 DEF Drop, Restrict
  <1>4. SyncsOK' /\ OneWaits' /\ RowsOK'
    BY <1>1, <1>2, RequestsStay
  <1>5. BooksOK(db', now') /\ \A f \in edit : f.at <= now
    <2>1. BooksOK(db, now) /\ \A f \in edit : f.at <= now
      BY DEF SyncInv, ClockOK
    <2>2. /\ now \in Int /\ now' = now
          /\ \A x \in DOMAIN db'.book : x \in DOMAIN db.book /\ db'.book[x].mod = db.book[x].mod
          /\ \A r \in DOMAIN db'.device : r \in DOMAIN db.device /\ db'.device[r] = db.device[r]
      BY <1>1, <1>2, <1>3
    <2>3. BooksOK(db', now')
      BY <2>1, <2>2, StampsStay
    <2> QED BY <2>1, <2>3
  <1>6. ClockOK' /\ TimesDiffer'
    BY <1>1, <1>2, <1>5 DEF SyncInv, ClockOK, TimesDiffer, Serving, InFlight
  <1>7. ASSUME NEW hw \in Kobos, calm'[hw]
        PROVE  Reliable(hw)'
    <2>1. calm[hw] /\ ~\E c \in Calls : SyncOf(c, hw) /\ Reading(c)
      BY <1>1, <1>7 DEF Disturbed
    <2> QED BY <1>1, <1>2, <1>3, <1>5, <2>1, LaterBooks
  <1> QED BY <1>4, <1>6, <1>7 DEF SyncInv

LEMMA MoveFormatKeepsSyncs ==
    ASSUME Inv, SyncInv, NEW b \in Books, MoveFormat(b)
    PROVE  SyncInv'
  <1>1. /\ Columns(db) /\ now \in Int /\ call' = call /\ home' = home /\ held' = held /\ now' = now /\ edit' = edit
        /\ DOMAIN held = Kobos /\ calm' = [hw \in Kobos |-> FALSE]
    BY DEF MoveFormat, Elsewhere, Change, Inv, TypeOK, SyncInv, ClockOK
  <1>2. /\ db'.device = db.device /\ DOMAIN db'.book = DOMAIN db.book
        /\ \A x \in DOMAIN db.book : db'.book[x].mod = db.book[x].mod
    BY <1>1 DEF MoveFormat, Columns
  <1>3. SyncsOK' /\ OneWaits' /\ RowsOK'
    BY <1>1, <1>2, RequestsStay
  <1>4. BooksOK(db', now') /\ \A f \in edit : f.at <= now
    <2>1. BooksOK(db, now) /\ \A g \in edit : g.at <= now
      BY DEF SyncInv, ClockOK
    <2>2. BooksOK(db', now')
      BY <1>1, <1>2, <2>1, StampsStay
    <2> QED BY <2>1, <2>2
  <1>5. ClockOK' /\ TimesDiffer'
    BY <1>1, <1>2, <1>4 DEF SyncInv, ClockOK, TimesDiffer, Serving, InFlight
  <1> QED BY <1>1, <1>3, <1>5 DEF SyncInv

LEMMA DeleteFormatKeepsSyncs ==
    ASSUME Inv, SyncInv, NEW b \in Books, NEW f \in KoboFormats, DeleteFormat(b, f)
    PROVE  SyncInv'
  <1>1. /\ Columns(db) /\ now \in Int /\ call' = call /\ home' = home /\ held' = held /\ now' = now /\ edit' = edit /\ calm' = calm
    BY DEF DeleteFormat, Elsewhere, Change, Inv, TypeOK
  <1>2. /\ db'.device = db.device /\ DOMAIN db'.book = DOMAIN db.book
        /\ \A x \in DOMAIN db.book : /\ db'.book[x].mod = db.book[x].mod /\ db'.book[x].lib = db.book[x].lib
                                     /\ Supported(db'.book[x]) => Supported(db.book[x])
    BY <1>1 DEF DeleteFormat, Columns, Supported
  <1>3. SyncsOK' /\ OneWaits' /\ RowsOK'
    BY <1>1, <1>2, RequestsStay
  <1>4. BooksOK(db', now') /\ \A g \in edit : g.at <= now
    <2>1. BooksOK(db, now) /\ \A g \in edit : g.at <= now
      BY DEF SyncInv, ClockOK
    <2>2. BooksOK(db', now')
      BY <1>1, <1>2, <2>1, StampsStay
    <2> QED BY <2>1, <2>2
  <1>5. ClockOK' /\ TimesDiffer'
    BY <1>1, <1>2, <1>4 DEF SyncInv, ClockOK, TimesDiffer, Serving, InFlight
  <1>6. ASSUME NEW h, NEW lib, NEW t, HoldsUpTo(db, h, lib, t)
        PROVE  HoldsUpTo(db', h, lib, t)
    BY <1>2, <1>6 DEF HoldsUpTo
  <1>7. ASSUME NEW h, NEW r, SyncGoesWell(db, h, r)
        PROVE  SyncGoesWell(db', h, r)
    <2>1. Asked(db', r) = Asked(db, r)
      BY <1>2 DEF Asked, ChangedSince
    <2>2. InOrder(db', Asked(db, r)) = InOrder(db, Asked(db, r))
      BY <1>2, SameOrder DEF Asked, ChangedSince
    <2>3. Due(db', r) = Due(db, r)
      <3>1. \A x \in Asked(db, r) : db'.book[x].mod = db.book[x].mod
        BY <1>2 DEF Asked, ChangedSince
      <3> QED BY <2>1, <2>2, <3>1 DEF Due
    <2>4. \A x \in Due(db, r) : x \in DOMAIN db.book
      BY DEF Due, Asked, ChangedSince
    <2>5. GotIsTrue(db', r) /\ GotIsDue(db', r)
      BY <1>2, <1>7, <2>1, <2>3, <2>4 DEF SyncGoesWell, GotIsTrue, GotIsDue, Has
    <2> QED BY <1>2, <1>6, <1>7, <2>5 DEF SyncGoesWell, RowIsIts, RowsOf
  <1>8. ASSUME NEW hw \in Kobos, calm'[hw]
        PROVE  Reliable(hw)'
    <2>1. Reliable(hw) /\ RowsOf(db', hw) = RowsOf(db, hw)
      BY <1>1, <1>2, <1>8 DEF SyncInv, RowsOf
    <2>2. \A r \in RowsOf(db', hw) : db'.device[r].token # None /\ ~Answering(hw)'
              => HoldsUpTo(db', held'[hw], home'[db'.device[r].owner], db'.device[r].token)
      BY <1>1, <1>2, <1>6, <2>1 DEF Reliable, Answering, SyncOf, InFlight
    <2>3. \A c \in Calls : SyncOf(c, hw)' =>
              /\ call'[c].waits /\ call'[c].lib = home'[call'[c].user]
              /\ call'[c].at \in SyncStages => SyncGoesWell(db', held'[hw], call'[c])
      BY <1>1, <1>7, <2>1 DEF Reliable, SyncOf, InFlight
    <2> QED BY <2>2, <2>3 DEF Reliable
  <1> QED BY <1>3, <1>5, <1>8 DEF SyncInv

LEMMA DeleteDeviceKeepsSyncs ==
    ASSUME Inv, SyncInv, NEW r \in DOMAIN db.device, DeleteKoboDevice(r)
    PROVE  SyncInv'
  <1>1. /\ Columns(db) /\ now \in Int /\ call' = call /\ home' = home /\ held' = held /\ now' = now /\ edit' = edit /\ calm' = calm
    BY DEF DeleteKoboDevice, Elsewhere, Change, Inv, TypeOK
  <1>2. db'.book = db.book /\ db'.device = Drop(db.device, {r})
    BY <1>1 DEF DeleteKoboDevice, Columns
  <1>3. \A q \in DOMAIN db'.device : q \in DOMAIN db.device /\ db'.device[q] = db.device[q]
    BY <1>2 DEF Drop, Restrict
  <1>4. SyncsOK' /\ OneWaits' /\ RowsOK'
    BY <1>1, <1>3, RequestsStay
  <1>5. BooksOK(db', now') /\ \A g \in edit : g.at <= now
    <2>1. BooksOK(db, now) /\ \A g \in edit : g.at <= now
      BY DEF SyncInv, ClockOK
    <2>2. BooksOK(db', now')
      BY <1>1, <1>2, <1>3, <2>1, StampsStay
    <2> QED BY <2>1, <2>2
  <1>6. ClockOK' /\ TimesDiffer'
    BY <1>1, <1>3, <1>5 DEF SyncInv, ClockOK, TimesDiffer, Serving, InFlight
  <1>7. ASSUME NEW hw \in Kobos, calm'[hw]
        PROVE  Reliable(hw)'
    <2>1. Reliable(hw) /\ SameRows(hw)
      BY <1>1, <1>3, <1>7 DEF SyncInv, SameRows, RowsOf
    <2> QED BY <1>1, <1>2, <2>1, Reliance DEF SyncOf, InFlight
  <1> QED BY <1>4, <1>6, <1>7 DEF SyncInv

LEMMA ChangesKeep ==
    ASSUME Inv, SyncInv, NoRequest
    PROVE  SyncInv'
  <1>1. CASE UNCHANGED vars
    <2>1. now \in Int
      BY DEF Inv, TypeOK
    <2>2. SyncsOK' /\ OneWaits' /\ RowsOK'
      BY <1>1, <2>1, RequestsStay DEF vars
    <2>3. ClockOK' /\ TimesDiffer'
      BY <1>1 DEF vars, SyncInv, ClockOK, BooksOK, StampedUpTo, TimesDiffer, Serving, InFlight
    <2>4. ASSUME NEW hw \in Kobos, calm'[hw]
          PROVE  Reliable(hw)'
      BY <1>1, <2>4, Reliance DEF vars, SyncInv, SameRows, RowsOf, SyncOf, InFlight
    <2> QED BY <2>2, <2>3, <2>4 DEF SyncInv
  <1> QED BY <1>1, RemoveBookKeeps, StartEditKeeps, CommitEditKeeps, MigrateBookKeeps, SetDefaultLibraryKeeps, DeleteBookKeepsSyncs, MoveFormatKeepsSyncs, DeleteFormatKeepsSyncs,
          DeleteDeviceKeepsSyncs DEF NoRequest, LibraryChanges

-----------------------------------------------------------------------------
(* The steps of syncs, and registrations.                                    *)

\* The times on rows and in syncs
Times ==
    {None} \cup {db.device[r].token : r \in DOMAIN db.device}
    \cup {call[e].since : e \in {x \in Calls : Serving(x)}}
    \cup {call[e].token : e \in {x \in Calls : Serving(x) /\ call[x].at \in TimeStages}}

LEMMA TimesArePast ==
    ASSUME Inv, SyncInv, NEW t \in Times
    PROVE  t \in {None} \cup 0..now /\ \A e \in edit : t # e.at
  <1>1. \A e \in edit : e.at \in Int
    BY DEF Inv, TypeOK
  <1>2. CASE t = None
    BY <1>1, <1>2, BooksAssumption
  <1>3. ASSUME NEW r \in DOMAIN db.device, t = db.device[r].token
        PROVE  t \in {None} \cup 0..now /\ \A e \in edit : t # e.at
    BY <1>3 DEF SyncInv, ClockOK, BooksOK, StampedUpTo, TimesDiffer
  <1>4. ASSUME NEW e \in Calls, Serving(e)
        PROVE  /\ call[e].since \in {None} \cup 0..now /\ \A f \in edit : call[e].since # f.at
               /\ call[e].at \in TimeStages => call[e].token \in 0..now /\ \A f \in edit : call[e].token # f.at
    <2>1. SyncFields(call[e], now)
      BY <1>4 DEF SyncInv, SyncsOK, Serving
    <2> QED BY <1>4, <2>1 DEF SyncFields, SyncInv, TimesDiffer, Serving
  <1>5. ASSUME NEW e \in Calls, Serving(e), t = call[e].since \/ (call[e].at \in TimeStages /\ t = call[e].token)
        PROVE  t \in {None} \cup 0..now /\ \A f \in edit : t # f.at
    BY <1>4, <1>5
  <1> QED BY <1>2, <1>3, <1>5 DEF Times

\* What a request of a Kobo leaves to the others: the books and the changes under
\* way, the rows of other Kobos, and the numbers of the rows.
LeavesOthers(c, hw) ==
    /\ Others(c) /\ db'.book = db.book /\ edit' = edit /\ home' = home /\ now' \in Int /\ now <= now'
    /\ DOMAIN calm' = Kobos /\ DOMAIN held' = Kobos /\ \A k \in Kobos : calm'[k] \in BOOLEAN
    /\ InFlight(c) => call[c].hw = hw
    /\ \A k \in Kobos \ {hw} : calm'[k] = calm[k] /\ held'[k] = held[k] /\ SameRows(k)
    /\ \A r \in DOMAIN db'.device :
          /\ db'.device[r].token \in Times
          /\ \/ r \in DOMAIN db.device /\ db'.device[r].hw = db.device[r].hw
             \/ r = c /\ At(c, "register") /\ call'[c] # New /\ ~At(c, "register")'

\* A request of a Kobo, after the step
GoesWith(c, hw) ==
    /\ call'[c] # New /\ SyncFields(call'[c], now') /\ call'[c].hw = hw
    /\ call'[c].at = "register" => At(c, "register")
    /\ call'[c].waits => Waited(c) \/ ~\E e \in Calls : Waited(e) /\ call[e].hw = hw
    /\ call'[c].at \in SyncStages =>
         /\ call'[c].since \in Times
         /\ \/ Serving(c) /\ call'[c].row = call[c].row
            \/ call'[c].row \in DOMAIN db.device /\ db.device[call'[c].row].hw = hw
         /\ call'[c].at \in TimeStages => call'[c].token \in Times \/ (call'[c].token = now' /\ now' > now)

LEMMA MovesKeep ==
    ASSUME Inv, SyncInv, NEW c \in Calls, NEW hw, LeavesOthers(c, hw),
           call'[c] = Over \/ GoesWith(c, hw),
           hw \in Kobos /\ calm'[hw] => Reliable(hw)'
    PROVE  SyncInv'
  <1>1. /\ \A e \in Calls : e # c => call'[e] = call[e]
        /\ now \in Int /\ now' \in Int /\ now <= now'
    BY DEF LeavesOthers, Others, Inv, TypeOK
  <1>2. SyncsOK'
    <2>1. \A r : SyncFields(r, now) => SyncFields(r, now')
      BY <1>1 DEF SyncFields
    <2> QED BY <1>1, <2>1 DEF SyncInv, SyncsOK, InFlight, GoesWith
  <1>3. OneWaits'
    BY <1>1 DEF SyncInv, OneWaits, Waited, InFlight, LeavesOthers, GoesWith
  <1>4. ASSUME NEW e \in Calls, Serving(e)'
        PROVE  /\ \/ Serving(e) /\ call'[e].row = call[e].row
                  \/ call'[e].row \in DOMAIN db.device /\ db.device[call'[e].row].hw = call'[e].hw
               /\ Serving(e) => call'[e].hw = call[e].hw
               /\ call'[e].since \in Times
               /\ call'[e].at \in TimeStages => call'[e].token \in Times \/ (call'[e].token = now' /\ now' > now)
    <2>1. CASE e # c
      BY <1>1, <1>4, <2>1 DEF Serving, InFlight, Times
    <2>2. CASE e = c
      BY <1>4, <2>2 DEF Serving, InFlight, GoesWith, LeavesOthers
    <2> QED BY <2>1, <2>2
  <1>5. RowsOK'
    <2>1. ASSUME NEW e \in Calls, call'[e] = New \/ At(e, "register")'
          PROVE  (call[e] = New \/ At(e, "register")) /\ (e = c => At(c, "register") /\ At(c, "register")')
      BY <1>1, <2>1 DEF At, InFlight, GoesWith, New, Over
    <2>2. ASSUME NEW e \in Calls, call'[e] = New \/ At(e, "register")'
          PROVE  e \notin DOMAIN db'.device /\ \A f \in Calls : Serving(f)' => call'[f].row # e
      <3>1. e \notin DOMAIN db.device /\ \A f \in Calls : Serving(f) => call[f].row # e
        BY <2>1, <2>2 DEF SyncInv, RowsOK
      <3>2. e \notin DOMAIN db'.device
        BY <2>1, <2>2, <3>1 DEF LeavesOthers
      <3> QED BY <1>4, <3>1, <3>2
    <2>3. ASSUME NEW e \in Calls, Serving(e)', Has(db'.device, call'[e].row)
          PROVE  db'.device[call'[e].row].hw = call'[e].hw
      <3> DEFINE r == call'[e].row
      <3>1. CASE r \in DOMAIN db.device /\ db'.device[r].hw = db.device[r].hw
        BY <1>4, <2>3, <3>1 DEF SyncInv, RowsOK, Has
      <3>2. CASE r = c /\ At(c, "register")
        <4>1. c \notin DOMAIN db.device /\ \A f \in Calls : Serving(f) => call[f].row # c
          BY <3>2 DEF SyncInv, RowsOK
        <4> QED BY <1>4, <2>3, <3>2, <4>1
      <3> QED BY <2>3, <3>1, <3>2 DEF LeavesOthers, Has
    <2> QED BY <2>2, <2>3 DEF RowsOK
  <1>6. \A t \in Times : t \in {None} \cup 0..now /\ \A e \in edit : t # e.at
    BY TimesArePast
  <1>7. ClockOK'
    <2>1. BooksOK(db, now) /\ \A e \in edit : e.at <= now
      BY DEF SyncInv, ClockOK
    <2>2. \A t \in {None} \cup 0..now : t \in {None} \cup 0..now'
      BY <1>1
    <2>3. \A r \in DOMAIN db'.device : db'.device[r].token \in {None} \cup 0..now'
      BY <1>6, <2>2 DEF LeavesOthers
    <2>4. \A b \in DOMAIN db'.book : db'.book[b].mod \in 0..now'
      BY <1>1, <2>1 DEF BooksOK, StampedUpTo, LeavesOthers
    <2>5. BooksOK(db', now')
      BY <2>1, <2>3, <2>4 DEF BooksOK, StampedUpTo, LeavesOthers
    <2>6. \A e \in edit' : e.at <= now'
      BY <1>1, <2>1 DEF LeavesOthers, Inv, TypeOK
    <2> QED BY <2>5, <2>6 DEF ClockOK, LeavesOthers
  <1>8. \A e \in edit : e.at <= now /\ e.at \in Int
    BY DEF SyncInv, ClockOK, Inv, TypeOK
  <1>9. TimesDiffer'
    <2>1. ASSUME NEW e \in edit', NEW r \in DOMAIN db'.device
          PROVE  db'.device[r].token # e.at
      BY <1>6 DEF LeavesOthers
    <2>2. ASSUME NEW e \in edit', NEW f \in Calls, Serving(f)'
          PROVE  call'[f].since # e.at /\ (call'[f].at \in TimeStages => call'[f].token # e.at)
      <3>1. e \in edit
        BY DEF LeavesOthers
      <3> QED BY <1>1, <1>4, <1>6, <1>8, <2>2, <3>1
    <2> QED BY <2>1, <2>2 DEF TimesDiffer
  <1>10. ASSUME NEW k \in Kobos, calm'[k], k # hw
         PROVE  Reliable(k)'
    <2>1. Reliable(k) /\ SameRows(k) /\ held'[k] = held[k] /\ db'.book = db.book /\ home' = home
      BY <1>10 DEF SyncInv, LeavesOthers
    <2>2. ~SyncOf(c, k) /\ ~SyncOf(c, k)'
      BY <1>10 DEF SyncOf, InFlight, LeavesOthers, GoesWith
    <2> QED BY <1>1, <1>10, <2>1, <2>2, Reliance DEF SyncOf, InFlight
  <1> QED BY <1>2, <1>3, <1>5, <1>7, <1>9, <1>10 DEF SyncInv

\* The only sync of a calm Kobo
LEMMA OneSync ==
    ASSUME SyncInv, NEW hw \in Kobos, calm[hw], NEW c \in Calls, NEW e \in Calls, SyncOf(c, hw), SyncOf(e, hw)
    PROVE  c = e
  BY DEF SyncInv, Reliable, OneWaits, Waited, SyncOf

\* A sync that has read its row, and nothing yet, can be relied on if it is the
\* only one, for the row of its user, and the Kobo has what the row's token says.
LEMMA SyncGetsRow ==
    ASSUME Inv, SyncInv, NEW c \in Calls, NEW hw \in Kobos, LeavesOthers(c, hw), db' = db, held'[hw] = held[hw],
           NEW r \in RowsOf(db, hw), db.device[r].token # None => calm[hw], call[c].at # "answer" \/ ~InFlight(c),
           SyncOf(c, hw)', call'[c].at = "count", {"page", "got"} \cap DOMAIN call'[c] = {}, call'[c].waits,
           call'[c].row = r, call'[c].since = db.device[r].token, call'[c].user = db.device[r].owner, call'[c].lib = home[db.device[r].owner],
           ~\E e \in Calls \ {c} : SyncOf(e, hw)
    PROVE  Reliable(hw)'
  <1> DEFINE s == call'[c]
  <1>1. \A e \in Calls : e # c => call'[e] = call[e] /\ ~SyncOf(e, hw) /\ ~SyncOf(e, hw)'
    BY DEF LeavesOthers, Others, SyncOf, InFlight
  <1>2. RowsOf(db, hw) = {r}
    BY DEF Inv, TypeOK, References, RowsOf
  <1>3. ~Answering(hw)
    BY <1>1 DEF Answering, SyncOf
  <1>4. db.device[r].token # None => HoldsUpTo(db, held[hw], home[db.device[r].owner], db.device[r].token)
    BY <1>3 DEF SyncInv, Reliable
  <1>5. GotIsTrue(db, s) /\ GotIsDue(db, s)
    <2>1. Page(s) = 1 /\ Got(s) = << >> /\ DOMAIN Got(s) = {} /\ (Page(s) - 1) * PageSize = 0
      BY KoboBoundsAssumption DEF Page, Got
    <2>2. Due(db, s) = {}
      <3>1. \A b \in Due(db, s) : \E i \in 1..Cardinality(Asked(db, s)) : i <= (Page(s) - 1) * PageSize
        BY DEF Due
      <3> QED BY <2>1, <3>1
    <2> QED BY <2>1, <2>2 DEF GotIsTrue, GotIsDue
  <1>6. RowIsIts(db, held[hw], s)
    BY <1>4 DEF RowIsIts
  <1>7. SyncGoesWell(db', held'[hw], s)
    BY <1>2, <1>5, <1>6 DEF SyncGoesWell, SyncOf
  <1>8. \A q \in RowsOf(db', hw) : db'.device[q].token # None =>
            HoldsUpTo(db', held'[hw], home'[db'.device[q].owner], db'.device[q].token)
    BY <1>2, <1>4 DEF LeavesOthers
  <1>9. home' = home
    BY DEF LeavesOthers
  <1> QED BY <1>1, <1>7, <1>8, <1>9 DEF Reliable

\* Why a Kobo is calm when a sync has got its row
LEMMA CalmSync ==
    ASSUME SyncInv, NEW c \in Calls, NEW hw \in Kobos, NEW u, NEW row, calm' = CalmFrom(c, "sync", u, hw, row), calm'[hw],
           \/ call[c] = New /\ ~\E e \in Calls : Waited(e) /\ call[e].hw = hw
           \/ SyncOf(c, hw) /\ call[c].user = u
    PROVE  /\ row.owner = u
           /\ row.token # None => calm[hw]
           /\ ~\E e \in Calls \ {c} : SyncOf(e, hw)
           /\ SyncOf(c, hw) => call[c].waits /\ call[c].lib = home[u]
  <1>1. DOMAIN calm = Kobos
    BY DEF SyncInv, ClockOK
  <1>2. CASE calm[hw]
    <2>1. \A e \in Calls : SyncOf(e, hw) => Waited(e) /\ call[e].hw = hw /\ call[e].lib = home[call[e].user]
      BY <1>2 DEF SyncInv, Reliable, SyncOf, Waited
    <2>2. \A e \in Calls : SyncOf(e, hw) => e = c
      BY <2>1 DEF SyncInv, OneWaits
    <2> QED BY <1>1, <1>2, <2>1, <2>2 DEF CalmFrom, Waited, SyncOf, InFlight
  <1>3. CASE ~calm[hw]
    <2>1. /\ row.owner = u /\ row.token = None /\ ~\E e \in Calls \ {c} : SyncOf(e, hw)
          /\ call[c] = New \/ (call[c].waits /\ call[c].lib = home[u])
      BY <1>1, <1>3 DEF CalmFrom
    <2> QED BY <2>1 DEF SyncOf, InFlight
  <1> QED BY <1>2, <1>3

\* What CalmFrom leaves of calm
LEMMA CalmFromIs ==
    ASSUME SyncInv, NEW c, NEW u, NEW hw, NEW row, NEW op, calm' = CalmFrom(c, op, u, hw, row)
    PROVE  /\ DOMAIN calm' = Kobos /\ \A k \in Kobos : calm'[k] \in BOOLEAN
           /\ \A k \in Kobos \ {hw} : calm'[k] = calm[k]
  BY DEF SyncInv, ClockOK, CalmFrom

\* With its rows as they are, a step leaves to the others what it must.
LEMMA LeavesRows ==
    ASSUME Inv, SyncInv, NEW c \in Calls, NEW hw, Others(c), db'.book = db.book, db'.device = db.device,
           held' = held, edit' = edit, home' = home, now' \in Int, now <= now', InFlight(c) => call[c].hw = hw,
           DOMAIN calm' = Kobos, \A k \in Kobos : calm'[k] \in BOOLEAN, \A k \in Kobos \ {hw} : calm'[k] = calm[k]
    PROVE  LeavesOthers(c, hw)
  <1>1. DOMAIN held' = Kobos
    BY DEF SyncInv, ClockOK
  <1> QED BY <1>1 DEF LeavesOthers, SameRows, RowsOf, Times

LEMMA KnownKeeps ==
    ASSUME Inv, SyncInv, NEW c \in Calls, NEW u \in Users, NEW hw \in Kobos, Recognised(u, hw), Known(c, "sync", u, hw, "count")
    PROVE  SyncInv'
  <1>1. PICK r \in RowsOf(db, hw) :
            /\ Begin(c, [Request("sync", u, hw, "count") EXCEPT !.row = r, !.since = db.device[r].token])
            /\ calm' = CalmFrom(c, "sync", u, hw, db.device[r])
            /\ UNCHANGED db /\ Rest
    BY DEF Known
  <1> DEFINE s == [Request("sync", u, hw, "count") EXCEPT !.row = r, !.since = db.device[r].token]
  <1>2. /\ s.op = "sync" /\ s.user = u /\ s.hw = hw /\ s.at = "count" /\ s.waits = TRUE /\ s.row = r /\ s.lib = home[u]
        /\ s.since = db.device[r].token /\ DOMAIN s = {"op", "user", "lib", "hw", "at", "waits", "row", "since"}
    BY DEF Request
  <1> HIDE DEF s
  <1>3. call[c] = New /\ call'[c] = s /\ Others(c) /\ ~\E e \in Calls : Waited(e) /\ call[e].hw = hw
    <2>1. Begin(c, s)
      BY <1>1 DEF s
    <2> QED BY <1>2, <2>1 DEF Begin, Inv, CallsOK, Others
  <1>4. RequestOK(s)
    BY <1>2 DEF RequestOK, TagStages
  <1>5. s \notin {New, Over}
    BY <1>4, RequestsAreInFlight
  <1>6. now \in Int /\ now' = now /\ edit' = edit /\ held' = held /\ db' = db /\ home' = home
    BY <1>1 DEF Rest, Inv, TypeOK
  <1>7. LeavesOthers(c, hw)
    BY <1>1, <1>3, <1>6, CalmFromIs, LeavesRows DEF InFlight
  <1>8. r \in DOMAIN db.device /\ db.device[r].hw = hw /\ db.device[r].owner = u
        /\ db.device[r].token \in {None} \cup 0..now /\ db.device[r].token \in Times
    BY DEF RowsOf, Recognised, SyncInv, ClockOK, BooksOK, StampedUpTo, Times
  <1>9. GoesWith(c, hw)
    <2>1. SyncFields(s, now)
      BY <1>2, <1>8 DEF SyncFields, SyncStages, TimeStages
    <2> QED BY <1>2, <1>3, <1>5, <1>6, <1>8, <2>1 DEF GoesWith, TimeStages
  <1>10. ASSUME calm'[hw]
         PROVE  Reliable(hw)'
    <2>1. /\ db.device[r].token # None => calm[hw]
          /\ ~\E e \in Calls \ {c} : SyncOf(e, hw)
      BY <1>1, <1>3, <1>10, CalmSync
    <2>2. SyncOf(c, hw)'
      BY <1>2, <1>3, <1>5 DEF SyncOf, InFlight
    <2> QED BY <1>2, <1>3, <1>6, <1>7, <1>8, <2>1, <2>2, SyncGetsRow DEF InFlight
  <1> QED BY <1>7, <1>9, <1>10, MovesKeep

LEMMA RereadKeeps ==
    ASSUME Inv, SyncInv, NEW c \in Calls, NEW hw, NEW u, hw = call[c].hw, u = call[c].user, call[c].op = "sync", Reread(c)
    PROVE  SyncInv'
  <1>1. /\ CallsOK /\ InFlight(c) /\ call[c].at = "reread" /\ RequestOK(call[c]) /\ SyncFields(call[c], now)
        /\ db' = db /\ Rest /\ home' = home /\ now \in Int
    BY DEF Inv, CallsOK, TypeOK, SyncInv, SyncsOK, Reread, At, Rest
  <1>2. CASE Answer(c) /\ calm' = calm
    <2>1. Others(c) /\ call'[c] = Over
      BY <1>1, <1>2, EndIs
    <2>2. LeavesOthers(c, hw)
      BY <1>1, <1>2, <2>1, LeavesRows DEF Rest, SyncInv, ClockOK
    <2>3. ASSUME hw \in Kobos, calm'[hw]
          PROVE  Reliable(hw)'
      <3>1. Reliable(hw) /\ SameRows(hw) /\ held' = held
        BY <1>1, <1>2, <2>3 DEF SyncInv, SameRows, Rest
      <3>2. \A e \in Calls : /\ SyncOf(e, hw)' => call'[e] = call[e]
                             /\ SyncOf(e, hw) /\ call'[e] # call[e] => call[e].at # "answer"
        BY <1>1, <2>1 DEF Others, SyncOf, InFlight
      <3> QED BY <1>1, <2>3, <3>1, <3>2, Reliance
    <2> QED BY <2>1, <2>2, <2>3, MovesKeep
  <1>3. ASSUME NEW r \in RowsOf(db, hw), Step(c, [at |-> "count", row |-> r, since |-> db.device[r].token]),
               calm' = CalmFrom(c, "sync", u, hw, db.device[r])
        PROVE  SyncInv'
    <2> DEFINE f == [at |-> "count", row |-> r, since |-> db.device[r].token]
               s == call'[c]
    <2>1. DOMAIN f = {"at", "row", "since"} /\ f.at = "count" /\ f.row = r /\ f.since = db.device[r].token /\ Step(c, f)
      BY <1>3
    <2> HIDE DEF f
    <2>2. /\ Others(c) /\ DOMAIN s = DOMAIN call[c] \cup {"at", "row", "since"}
          /\ s.at = "count" /\ s.row = r /\ s.since = db.device[r].token
          /\ \A x \in DOMAIN call[c] \ {"at", "row", "since"} : s[x] = call[c][x]
      BY <1>1, <2>1, StepIs
    <2>3. /\ s.op = "sync" /\ s.user = u /\ s.hw = hw /\ s.waits = call[c].waits /\ s.lib = call[c].lib /\ {"page", "got"} \cap DOMAIN s = {}
          /\ "op" \in DOMAIN s /\ call[c].waits \in BOOLEAN
      BY <1>1, <2>2 DEF RequestOK, SyncFields, SyncStages
    <2>4. s \notin {New, Over}
      BY <2>3 DEF New, Over
    <2>5. r \in DOMAIN db.device /\ db.device[r].hw = hw
          /\ db.device[r].token \in {None} \cup 0..now /\ db.device[r].token \in Times
      BY DEF RowsOf, SyncInv, ClockOK, BooksOK, StampedUpTo, Times
    <2> HIDE DEF s
    <2>6. LeavesOthers(c, hw)
      BY <1>1, <1>3, <2>2, CalmFromIs, LeavesRows DEF Rest
    <2>7. GoesWith(c, hw)
      <3>1. SyncFields(s, now)
        BY <2>2, <2>3, <2>5 DEF SyncFields, SyncStages, TimeStages
      <3>2. now' = now
        BY <1>1 DEF Rest
      <3> QED BY <1>1, <2>2, <2>3, <2>4, <2>5, <3>1, <3>2 DEF GoesWith, TimeStages, Waited, s
    <2>8. ASSUME hw \in Kobos, calm'[hw]
          PROVE  Reliable(hw)'
      <3>1. SyncOf(c, hw) /\ SyncOf(c, hw)'
        BY <1>1, <2>3, <2>4 DEF SyncOf, InFlight, s
      <3>2. /\ db.device[r].owner = u /\ call[c].waits /\ call[c].lib = home[u]
            /\ db.device[r].token # None => calm[hw]
            /\ ~\E e \in Calls \ {c} : SyncOf(e, hw)
        BY <1>3, <2>8, <3>1, CalmSync
      <3> QED BY <1>1, <2>2, <2>3, <2>6, <2>8, <3>1, <3>2, SyncGetsRow DEF Rest, s
    <2> QED BY <2>6, <2>7, <2>8, MovesKeep
  <1> QED BY <1>2, <1>3 DEF Reread, Stage

\* What upsert_device writes: a row for a Kobo that has none, or the row of the
\* Kobo made the user's, whose token goes when it was another's.
LEMMA UpsertDeviceIs ==
    ASSUME Inv, NEW c, NEW u, NEW hw, db' = UpsertDevice(db, c, u, hw)
    PROVE  /\ db'.book = db.book
           /\ RowsOf(db, hw) = {} => db'.device = Put(db.device, c, [hw |-> hw, owner |-> u, token |-> None])
           /\ RowsOf(db, hw) # {} =>
                 /\ DOMAIN db'.device = DOMAIN db.device
                 /\ \A r \in DOMAIN db.device :
                       IF db.device[r].hw # hw \/ db.device[r].owner = u THEN db'.device[r] = db.device[r]
                       ELSE db'.device[r].hw = hw /\ db'.device[r].token = None
  <1>1. Columns(db)
    BY DEF Inv, TypeOK
  <1>2. CASE RowsOf(db, hw) = {}
    BY <1>1, <1>2 DEF UpsertDevice, Columns
  <1>3. CASE RowsOf(db, hw) # {}
    <2> DEFINE rows == [r \in DOMAIN db.device |->
                          IF db.device[r].hw # hw \/ db.device[r].owner = u THEN db.device[r]
                          ELSE [db.device[r] EXCEPT !.owner = u, !.token = None]]
    <2>1. db' = [db EXCEPT !.device = rows]
      BY <1>3 DEF UpsertDevice
    <2>2. /\ DOMAIN rows = DOMAIN db.device
          /\ \A r \in DOMAIN db.device :
                IF db.device[r].hw # hw \/ db.device[r].owner = u THEN rows[r] = db.device[r]
                ELSE rows[r].hw = hw /\ rows[r].token = None
      BY <1>1 DEF Columns
    <2> HIDE DEF rows
    <2>3. db'.device = rows /\ db'.book = db.book
      BY <1>1, <2>1 DEF Columns
    <2> QED BY <1>3, <2>2, <2>3
  <1> QED BY <1>2, <1>3

LEMMA RegisterKeeps ==
    ASSUME Inv, SyncInv, NEW c \in Calls, NEW hw, NEW u, hw = call[c].hw, u = call[c].user, Register(c)
    PROVE  SyncInv'
  <1>1. /\ CallsOK /\ At(c, "register") /\ RequestOK(call[c]) /\ SyncFields(call[c], now)
        /\ db' = UpsertDevice(db, c, u, hw) /\ calm' = [calm EXCEPT ![hw] = @ /\ ~TakenOver(u, hw)]
        /\ now' = now /\ now \in Int /\ edit' = edit /\ held' = held /\ home' = home
    BY DEF Inv, CallsOK, TypeOK, SyncInv, SyncsOK, Register, At, Rest
  <1> DEFINE f == [at |-> "reread"]
             s == call'[c]
  <1>2. /\ Others(c) /\ DOMAIN s = DOMAIN call[c] \cup {"at"} /\ s.at = "reread"
        /\ \A x \in DOMAIN call[c] \ {"at"} : s[x] = call[c][x]
    <2>1. DOMAIN f = {"at"} /\ f.at = "reread" /\ Step(c, f)
      BY DEF Register
    <2> HIDE DEF f
    <2> QED BY <1>1, <2>1, StepIs DEF At
  <1> HIDE DEF s
  <1>3. /\ s.op = call[c].op /\ s.hw = hw /\ s.user = u /\ s.lib = call[c].lib /\ s.waits = call[c].waits /\ "op" \in DOMAIN s
        /\ s.op = "sync" => {"page", "got"} \cap DOMAIN s = {}
    BY <1>1, <1>2 DEF RequestOK, SyncFields, SyncStages, At
  <1>4. s \notin {New, Over}
    BY <1>1, <1>3 DEF New, Over, RequestOK
  <1>5. c \notin DOMAIN db.device /\ \A e \in Calls : Serving(e) => call[e].row # c
    BY <1>1 DEF SyncInv, RowsOK
  <1>6. /\ db'.book = db.book
        /\ RowsOf(db, hw) = {} => db'.device = Put(db.device, c, [hw |-> hw, owner |-> u, token |-> None])
        /\ RowsOf(db, hw) # {} =>
              /\ DOMAIN db'.device = DOMAIN db.device
              /\ \A r \in DOMAIN db.device :
                    IF db.device[r].hw # hw \/ db.device[r].owner = u THEN db'.device[r] = db.device[r]
                    ELSE db'.device[r].hw = hw /\ db'.device[r].token = None
    <2>1. db' = UpsertDevice(db, c, u, hw)
      BY <1>1
    <2> QED BY <2>1, UpsertDeviceIs
  <1>7. ASSUME NEW r \in DOMAIN db'.device
        PROVE  \/ r \in DOMAIN db.device /\ db'.device[r] = db.device[r]
               \/ r \in DOMAIN db.device /\ db.device[r].hw = hw /\ db.device[r].owner # u
                  /\ db'.device[r].hw = hw /\ db'.device[r].token = None
               \/ r = c /\ db'.device[r].hw = hw /\ db'.device[r].token = None
    <2>1. CASE RowsOf(db, hw) = {}
      <3>1. db'.device = Put(db.device, c, [hw |-> hw, owner |-> u, token |-> None])
        BY <1>6, <2>1
      <3> QED BY <1>7, <3>1 DEF Put
    <2>2. CASE RowsOf(db, hw) # {}
      BY <1>6, <1>7, <2>2
    <2> QED BY <2>1, <2>2
  <1>8. LeavesOthers(c, hw)
    <2>1. DOMAIN calm' = Kobos /\ DOMAIN held' = Kobos /\ (\A k \in Kobos : calm'[k] \in BOOLEAN)
          /\ \A k \in Kobos \ {hw} : calm'[k] = calm[k]
      BY <1>1 DEF SyncInv, ClockOK
    <2>2. \A k \in Kobos \ {hw} : SameRows(k)
      BY <1>7 DEF SameRows, RowsOf
    <2>3. ASSUME NEW r \in DOMAIN db'.device
          PROVE  /\ db'.device[r].token \in Times
                 /\ \/ r \in DOMAIN db.device /\ db'.device[r].hw = db.device[r].hw
                    \/ r = c /\ At(c, "register") /\ call'[c] # New /\ ~At(c, "register")'
      BY <1>1, <1>2, <1>4, <1>7 DEF Times, At, s
    <2> QED BY <1>1, <1>2, <1>6, <2>1, <2>2, <2>3 DEF LeavesOthers
  <1>9. GoesWith(c, hw)
    <2>1. SyncFields(s, now)
      BY <1>1, <1>2, <1>3 DEF SyncFields, SyncStages, TimeStages
    <2> QED BY <1>1, <1>2, <1>3, <1>4, <2>1 DEF GoesWith, SyncStages, Waited, At, s
  <1>10. ASSUME hw \in Kobos, calm'[hw]
         PROVE  Reliable(hw)'
    <2>1. calm[hw] /\ ~TakenOver(u, hw) /\ Reliable(hw)
      BY <1>1, <1>10 DEF SyncInv, ClockOK
    <2>2. ASSUME NEW e \in Calls, SyncOf(e, hw)'
          PROVE  /\ SyncOf(e, hw) /\ call'[e].waits /\ call'[e].lib = home[call'[e].user]
                 /\ call'[e].at \in SyncStages => call'[e] = call[e]
      <3>1. CASE e = c
        BY <1>1, <1>2, <1>3, <2>1, <2>2, <3>1 DEF SyncOf, InFlight, Reliable, SyncStages, At, s
      <3>2. CASE e # c
        <4>1. call'[e] = call[e]
          BY <1>2, <3>2 DEF Others
        <4> QED BY <2>1, <2>2, <4>1 DEF SyncOf, InFlight, Reliable
      <3> QED BY <3>1, <3>2
    <2>3. ASSUME NEW e \in Calls, SyncOf(e, hw), call[e].at \in SyncStages, SyncGoesWell(db, held[hw], call[e])
          PROVE  SyncGoesWell(db', held[hw], call[e])
      <3>1. GotIsTrue(db', call[e]) /\ GotIsDue(db', call[e])
        BY <1>6, <2>3, SameBooks DEF SyncGoesWell
      <3>2. ASSUME NEW q \in RowsOf(db', hw)
            PROVE  IF q = call[e].row THEN RowIsIts(db', held[hw], call[e]) ELSE db'.device[q].token = None
        <4>1. call[e].row # c
          BY <1>5, <2>3 DEF Serving, SyncOf
        <4>2. ASSUME q \in DOMAIN db.device, db'.device[q] = db.device[q]
              PROVE  IF q = call[e].row THEN RowIsIts(db', held[hw], call[e]) ELSE db'.device[q].token = None
          <5>1. q \in RowsOf(db, hw)
            BY <3>2, <4>2 DEF RowsOf
          <5> QED BY <1>6, <2>3, <4>2, <5>1, SameBooks DEF SyncGoesWell, RowIsIts, SyncOf
        <4>3. ASSUME q \in DOMAIN db.device, db.device[q].hw = hw, db.device[q].owner # u, db'.device[q].token = None
              PROVE  IF q = call[e].row THEN RowIsIts(db', held[hw], call[e]) ELSE db'.device[q].token = None
          BY <2>1, <2>3, <4>3 DEF TakenOver, RowsOf
        <4> QED BY <1>7, <3>2, <4>1, <4>2, <4>3 DEF RowsOf
      <3> QED BY <2>3, <3>1, <3>2 DEF SyncGoesWell, SyncOf
    <2>4. Answering(hw) => Answering(hw)'
      <3>1. \A e \in Calls : SyncOf(e, hw) /\ call[e].at = "answer" => call'[e] = call[e]
        BY <1>1, <1>2 DEF Others, At
      <3> QED BY <3>1 DEF Answering, SyncOf, InFlight
    <2>5. ASSUME NEW r \in RowsOf(db', hw), db'.device[r].token # None, ~Answering(hw)'
          PROVE  HoldsUpTo(db', held[hw], home'[db'.device[r].owner], db'.device[r].token)
      <3>1. r \in RowsOf(db, hw) /\ db'.device[r] = db.device[r]
        BY <1>7, <2>5 DEF RowsOf
      <3> QED BY <1>1, <1>6, <2>1, <2>4, <2>5, <3>1, SameBooks DEF Reliable
    <2>6. ASSUME NEW e \in Calls, SyncOf(e, hw)'
          PROVE  call'[e].waits /\ call'[e].lib = home[call'[e].user] /\ (call'[e].at \in SyncStages => SyncGoesWell(db', held'[hw], call'[e]))
      BY <1>1, <2>1, <2>2, <2>3, <2>6 DEF Reliable
    <2> QED BY <1>1, <2>5, <2>6 DEF Reliable
  <1> QED BY <1>8, <1>9, <1>10, MovesKeep

\* A sync that is given up is one its Kobo cannot rely on.
LEMMA GiveUpKeeps ==
    ASSUME Inv, SyncInv, NEW c \in Calls, NEW hw, hw = call[c].hw, call[c].op = "sync", GiveUp(c)
    PROVE  SyncInv'
  <1>1. /\ CallsOK /\ InFlight(c) /\ RequestOK(call[c]) /\ SyncFields(call[c], now)
        /\ db' = db /\ calm' = [calm EXCEPT ![hw] = FALSE]
        /\ now' = now /\ now \in Int /\ edit' = edit /\ held' = held /\ home' = home
    BY DEF Inv, CallsOK, TypeOK, SyncInv, SyncsOK, GiveUp, Waited
  <1>2. Others(c) => LeavesOthers(c, hw) /\ (hw \in Kobos => ~calm'[hw])
    <2>1. DOMAIN calm' = Kobos /\ (\A k \in Kobos : calm'[k] \in BOOLEAN) /\ \A k \in Kobos \ {hw} : calm'[k] = calm[k]
      BY <1>1 DEF SyncInv, ClockOK
    <2>2. hw \in Kobos => ~calm'[hw]
      BY <1>1 DEF SyncInv, ClockOK
    <2>3. db'.book = db.book /\ db'.device = db.device /\ now' \in Int /\ now <= now'
      BY <1>1
    <2>4. ASSUME Others(c)
          PROVE  LeavesOthers(c, hw)
      BY <1>1, <2>1, <2>3, <2>4, LeavesRows
    <2> QED BY <2>2, <2>4
  <1>3. CASE Answer(c)
    BY <1>1, <1>2, <1>3, EndIs, MovesKeep
  <1>4. CASE Step(c, [waits |-> FALSE]) /\ call[c].at # "answer"
    <2> DEFINE f == [waits |-> FALSE]
               s == call'[c]
    <2>1. DOMAIN f = {"waits"} /\ f.waits = FALSE /\ Step(c, f)
      BY <1>4
    <2> HIDE DEF f
    <2>2. /\ Others(c) /\ DOMAIN s = DOMAIN call[c] \cup {"waits"} /\ s.waits = FALSE
          /\ \A x \in DOMAIN call[c] \ {"waits"} : s[x] = call[c][x]
      BY <1>1, <2>1, StepIs
    <2> HIDE DEF s
    <2>3. s.op = "sync" /\ s.hw = hw /\ s.at = call[c].at /\ s.row = call[c].row /\ s.since = call[c].since /\ "op" \in DOMAIN s
      BY <1>1, <2>2 DEF RequestOK
    <2>4. s \notin {New, Over}
      BY <2>3 DEF New, Over
    <2>5. DOMAIN s = DOMAIN call[c]
      BY <1>1, <2>2 DEF RequestOK
    <2>6. \A x \in {"page", "got", "total", "token"} : x \in DOMAIN s => s[x] = call[c][x]
      BY <2>2, <2>5
    <2>7. SyncFields(s, now)
      BY <1>1, <2>2, <2>3, <2>5, <2>6 DEF SyncFields, TimeStages, SyncStages
    <2>8. LeavesOthers(c, hw) /\ (hw \in Kobos => ~calm'[hw])
      BY <1>2, <2>2
    <2>9. ASSUME s.at \in SyncStages
          PROVE  /\ s.since \in Times /\ Serving(c)
                 /\ s.at \in TimeStages => s.token \in Times
      <3>1. Serving(c)
        BY <1>1, <2>3, <2>9 DEF Serving
      <3>2. s.at \in TimeStages => s.token = call[c].token
        BY <2>3, <2>5, <2>6, <2>7 DEF SyncFields
      <3> QED BY <2>3, <3>1, <3>2 DEF Times
    <2>10. GoesWith(c, hw)
      BY <1>1, <2>2, <2>3, <2>4, <2>7, <2>9 DEF GoesWith, At, s
    <2> QED BY <2>8, <2>10, MovesKeep
  <1> QED BY <1>3, <1>4 DEF GiveUp

\* The fields of a sync that has its row
LEMMA ServingIs ==
    ASSUME Inv, SyncInv, NEW c \in Calls, Serving(c)
    PROVE  /\ CallsOK /\ InFlight(c) /\ RequestOK(call[c]) /\ SyncFields(call[c], now) /\ call[c].op = "sync"
           /\ now \in Int /\ call[c].at \in SyncStages /\ call[c].waits \in BOOLEAN
  BY DEF Inv, CallsOK, TypeOK, SyncInv, SyncsOK, Serving, SyncFields

\* A sync reads on; what counts is that it has got what it should have by then.
Advances(c, hw) ==
    /\ Serving(c) /\ Others(c) /\ hw = call[c].hw /\ call[c].at # "answer"
    /\ db' = db /\ held' = held /\ calm' = calm /\ edit' = edit /\ home' = home /\ now' \in Int /\ now <= now'
    /\ call'[c] \notin {New, Over} /\ SyncFields(call'[c], now') /\ call'[c].at \in SyncStages \ {"answer"}
    /\ call'[c].op = "sync" /\ call'[c].hw = hw /\ call'[c].waits = call[c].waits
    /\ call'[c].user = call[c].user /\ call'[c].lib = call[c].lib /\ call'[c].row = call[c].row /\ call'[c].since = call[c].since
    /\ call'[c].at \in TimeStages => call'[c].token = now' /\ now' > now

LEMMA AdvancesKeep ==
    ASSUME Inv, SyncInv, NEW c \in Calls, NEW hw, Advances(c, hw),
           hw \in Kobos /\ GotIsTrue(db, call[c]) /\ GotIsDue(db, call[c]) => GotIsTrue(db, call'[c]) /\ GotIsDue(db, call'[c])
    PROVE  SyncInv'
  <1>1. LeavesOthers(c, hw)
    BY LeavesRows DEF Advances, SyncInv, ClockOK
  <1>2. call[c].since \in Times
    BY DEF Advances, Times
  <1>3. GoesWith(c, hw)
    <2>1. call[c].waits => Waited(c)
      BY DEF Advances, Serving, Waited
    <2> QED BY <1>2, <2>1, ServingIs DEF Advances, GoesWith, SyncStages
  <1>4. ASSUME hw \in Kobos, calm'[hw]
        PROVE  Reliable(hw)'
    <2>1. calm[hw] /\ Reliable(hw) /\ SyncOf(c, hw) /\ call[c].at \in SyncStages
      BY <1>4, ServingIs DEF SyncInv, Advances, SyncOf
    <2>2. call[c].waits /\ call[c].lib = home[call[c].user] /\ SyncGoesWell(db, held[hw], call[c])
      BY <2>1 DEF Reliable
    <2>3. SyncGoesWell(db', held'[hw], call'[c])
      <3>1. GotIsTrue(db', call'[c]) /\ GotIsDue(db', call'[c])
        BY <1>4, <2>2 DEF SyncGoesWell, Advances
      <3>2. ASSUME NEW q \in RowsOf(db', call'[c].hw)
            PROVE  IF q = call'[c].row THEN RowIsIts(db', held'[hw], call'[c]) ELSE db'.device[q].token = None
        BY <2>2 DEF SyncGoesWell, RowIsIts, Advances
      <3> QED BY <3>1, <3>2 DEF SyncGoesWell
    <2>4. \A e \in Calls : SyncOf(e, hw)' => e = c
      <3>1. \A e \in Calls : e # c => call'[e] = call[e]
        BY DEF Advances, Others
      <3> QED BY <1>4, <2>1, <3>1, OneSync DEF SyncOf, InFlight
    <2>5. ~Answering(hw)
      BY <1>4, <2>1, OneSync DEF Answering, Advances
    <2> QED BY <2>1, <2>2, <2>3, <2>4, <2>5 DEF Reliable, Advances
  <1> QED BY <1>1, <1>3, <1>4, MovesKeep

LEMMA CountBooksKeeps ==
    ASSUME Inv, SyncInv, NEW c \in Calls, NEW hw, hw = call[c].hw, CountBooks(c)
    PROVE  SyncInv'
  <1> DEFINE r == call[c]
             s == call'[c]
             f == [at |-> "page", page |-> PageNumber(c), got |-> Collected(c),
                   total |-> Cardinality(ChangedSince(db, call[c].lib, call[c].since))]
  <1>1. Serving(c) /\ r.at = "count"
    BY DEF CountBooks, At, Serving, SyncStages
  <1>2. /\ CallsOK /\ InFlight(c) /\ RequestOK(r) /\ SyncFields(r, now) /\ r.op = "sync" /\ now \in Int
    BY <1>1, ServingIs
  <1>3. /\ DOMAIN f = {"at", "page", "got", "total"} /\ Step(c, f)
        /\ f.at = "page" /\ f.page = Page(r) /\ f.got = Got(r) /\ f.total = Cardinality(Asked(db, r))
    BY DEF CountBooks, PageNumber, Collected, Page, Got, Asked
  <1> HIDE DEF f
  <1>4. /\ Others(c) /\ DOMAIN s = DOMAIN r \cup {"at", "page", "got", "total"}
        /\ s.at = "page" /\ s.page = Page(r) /\ s.got = Got(r) /\ s.total = Cardinality(Asked(db, r))
        /\ \A x \in DOMAIN r \ {"at", "page", "got", "total"} : s[x] = r[x]
    BY <1>2, <1>3, StepIs
  <1> HIDE DEF s
  <1>5. /\ s.op = "sync" /\ s.hw = hw /\ s.waits = r.waits /\ s.user = r.user /\ s.lib = r.lib /\ s.row = r.row /\ s.since = r.since
        /\ "op" \in DOMAIN s
    BY <1>2, <1>4 DEF RequestOK
  <1>6. s \notin {New, Over}
    BY <1>5 DEF New, Over
  <1>7. SyncFields(s, now)
    BY <1>1, <1>2, <1>4, <1>5 DEF SyncFields, SyncStages, TimeStages, Page
  <1>8. Advances(c, hw)
    BY <1>1, <1>2, <1>4, <1>5, <1>6, <1>7 DEF Advances, CountBooks, Reads, Rest, SyncStages, TimeStages, s
  <1>9. Page(s) = Page(r) /\ Got(s) = Got(r) /\ Asked(db, s) = Asked(db, r)
    BY <1>4, <1>5 DEF Page, Got, Asked
  <1>10. Due(db, s) = Due(db, r)
    BY <1>1, <1>4, <1>9 DEF Due
  <1>11. GotIsTrue(db, r) /\ GotIsDue(db, r) => GotIsTrue(db, s) /\ GotIsDue(db, s)
    BY <1>1, <1>4, <1>9, <1>10 DEF GotIsTrue, GotIsDue, TimeStages
  <1> QED BY <1>8, <1>11, AdvancesKeep DEF s

LEMMA ReadCollectionsKeeps ==
    ASSUME Inv, SyncInv, NEW c \in Calls, NEW hw, hw = call[c].hw, ReadCollections(c)
    PROVE  SyncInv'
  <1> DEFINE r == call[c]
             s == call'[c]
             f == [at |-> "store", token |-> now']
  <1>1. Serving(c) /\ r.at = "collections" /\ now' = now + 1
    BY DEF ReadCollections, At, Serving, SyncStages
  <1>2. /\ CallsOK /\ InFlight(c) /\ RequestOK(r) /\ SyncFields(r, now) /\ r.op = "sync" /\ now \in Int
    BY <1>1, ServingIs
  <1>3. DOMAIN f = {"at", "token"} /\ Step(c, f) /\ f.at = "store" /\ f.token = now'
    BY DEF ReadCollections
  <1>4. /\ Others(c) /\ DOMAIN s = DOMAIN r \cup {"at", "token"} /\ s.at = "store" /\ s.token = now'
        /\ \A x \in DOMAIN r \ {"at", "token"} : s[x] = r[x]
    <2>1. PICK g : g = f
      OBVIOUS
    <2> HIDE DEF f
    <2> QED BY <1>2, <1>3, <2>1, StepIs
  <1> HIDE DEF s, f
  <1>5. /\ s.op = "sync" /\ s.hw = hw /\ s.waits = r.waits /\ s.user = r.user /\ s.lib = r.lib /\ s.row = r.row /\ s.since = r.since
        /\ "op" \in DOMAIN s /\ "page" \in DOMAIN r /\ "got" \in DOMAIN r
    BY <1>1, <1>2, <1>4 DEF RequestOK, SyncFields, SyncStages
  <1>6. s \notin {New, Over}
    BY <1>5 DEF New, Over
  <1>7. /\ DOMAIN s \cap {"page", "got"} = {"page", "got"} /\ s.page = r.page /\ s.got = r.got
    BY <1>4, <1>5
  <1>8. now >= 0
    BY DEF Inv, TypeOK
  <1>9. SyncFields(s, now')
    BY <1>1, <1>2, <1>4, <1>5, <1>7, <1>8 DEF SyncFields, SyncStages, TimeStages
  <1>10. Advances(c, hw)
    BY <1>1, <1>2, <1>4, <1>5, <1>6, <1>9 DEF Advances, ReadCollections, SyncStages, TimeStages, s
  <1>11. Got(s) = Got(r) /\ Asked(db, s) = Asked(db, r)
    BY <1>5, <1>7 DEF Got, Asked
  <1>12. \A b \in Due(db, s) : b \in Due(db, r)
    BY <1>1, <1>4, <1>11 DEF Due
  <1>13. GotIsTrue(db, r) /\ GotIsDue(db, r) => GotIsTrue(db, s) /\ GotIsDue(db, s)
    BY <1>1, <1>4, <1>11, <1>12 DEF GotIsTrue, GotIsDue, TimeStages
  <1> QED BY <1>10, <1>13, AdvancesKeep DEF s

LEMMA StoreTokenKeepsSyncs ==
    ASSUME Inv, SyncInv, NEW c \in Calls, NEW hw, hw = call[c].hw, StoreToken(c)
    PROVE  SyncInv'
  <1> DEFINE r == call[c]
             s == call'[c]
             f == [at |-> "answer"]
  <1>1. Serving(c) /\ r.at = "store" /\ Columns(db)
    BY DEF StoreToken, At, Serving, SyncStages, Inv, TypeOK
  <1>2. /\ CallsOK /\ InFlight(c) /\ RequestOK(r) /\ SyncFields(r, now) /\ r.op = "sync" /\ now \in Int /\ r.waits \in BOOLEAN
    BY <1>1, ServingIs
  <1>3. /\ now' = now /\ edit' = edit /\ home' = home /\ held' = held /\ calm' = calm
        /\ db'.book = db.book /\ DOMAIN db'.device = DOMAIN db.device
        /\ \A q \in DOMAIN db.device :
              IF q = r.row THEN /\ db'.device[q].hw = db.device[q].hw /\ db'.device[q].owner = db.device[q].owner
                                /\ db'.device[q].token = r.token
              ELSE db'.device[q] = db.device[q]
    BY <1>1 DEF StoreToken, Rest, Columns, Has
  <1>4. \A q \in DOMAIN db.device : q = r.row => db.device[q].hw = hw
    BY <1>1 DEF SyncInv, RowsOK, Has
  <1>5. Others(c) => LeavesOthers(c, hw)
    <2>1. DOMAIN calm' = Kobos /\ DOMAIN held' = Kobos /\ \A k \in Kobos : calm'[k] \in BOOLEAN
      BY <1>3 DEF SyncInv, ClockOK
    <2>2. \A k \in Kobos \ {hw} : SameRows(k)
      BY <1>3, <1>4 DEF SameRows, RowsOf
    <2>3. r.token \in Times
      BY <1>1 DEF Times, TimeStages
    <2>4. \A q \in DOMAIN db'.device : q \in DOMAIN db.device /\ db'.device[q].hw = db.device[q].hw /\ db'.device[q].token \in Times
      BY <1>3, <2>3 DEF Times
    <2> QED BY <1>2, <1>3, <2>1, <2>2, <2>4 DEF LeavesOthers
  <1>6. CASE ~r.waits
    <2>1. Others(c) /\ call'[c] = Over
      BY <1>2, <1>6, EndIs DEF StoreToken
    <2>2. hw \in Kobos => ~calm'[hw]
      BY <1>2, <1>3, <1>6 DEF SyncInv, ClockOK, Reliable, SyncOf
    <2> QED BY <1>5, <2>1, <2>2, MovesKeep
  <1>7. CASE r.waits
    <2>1. DOMAIN f = {"at"} /\ Step(c, f) /\ f.at = "answer"
      BY <1>7 DEF StoreToken
    <2> HIDE DEF f
    <2>2. /\ Others(c) /\ DOMAIN s = DOMAIN r \cup {"at"} /\ s.at = "answer"
          /\ \A x \in DOMAIN r \ {"at"} : s[x] = r[x]
      BY <1>2, <2>1, StepIs
    <2> HIDE DEF s
    <2>3. /\ s.op = "sync" /\ s.hw = hw /\ s.waits = r.waits /\ s.user = r.user /\ s.lib = r.lib /\ s.row = r.row /\ s.since = r.since
          /\ DOMAIN s = DOMAIN r /\ {"op", "page", "got", "token"} \subseteq DOMAIN r
          /\ s.page = r.page /\ s.got = r.got /\ s.token = r.token
      BY <1>1, <1>2, <2>2 DEF RequestOK, SyncFields, SyncStages, TimeStages
    <2>4. s \notin {New, Over}
      BY <2>3 DEF New, Over
    <2>5. SyncFields(s, now)
      BY <1>1, <1>2, <2>2, <2>3 DEF SyncFields, SyncStages, TimeStages
    <2>6. GoesWith(c, hw)
      <3>1. s.since \in Times /\ s.token \in Times
        BY <1>1, <2>3 DEF Times, TimeStages
      <3> QED BY <1>1, <1>2, <1>3, <2>2, <2>3, <2>4, <2>5, <3>1 DEF GoesWith, Waited, s
    <2>7. ASSUME hw \in Kobos, calm'[hw]
          PROVE  Reliable(hw)'
      <3>1. Reliable(hw) /\ SyncOf(c, hw) /\ calm[hw] /\ SyncOf(c, hw)'
        BY <1>2, <1>3, <2>3, <2>4, <2>7 DEF SyncInv, SyncOf, InFlight, s
      <3>2. SyncGoesWell(db, held[hw], r) /\ r.lib = home[r.user]
        BY <1>1, <3>1 DEF Reliable, SyncStages
      <3>3. Got(s) = Got(r) /\ Asked(db, s) = Asked(db, r) /\ Due(db, s) = Due(db, r)
        BY <1>1, <2>2, <2>3 DEF Got, Asked, Due
      <3>4. GotIsTrue(db', s) /\ GotIsDue(db', s)
        <4>1. GotIsTrue(db, s) /\ GotIsDue(db, s)
          BY <1>1, <2>2, <2>3, <3>2, <3>3 DEF SyncGoesWell, GotIsTrue, GotIsDue, TimeStages
        <4> QED BY <1>3, <4>1, SameBooks
      <3>5. ASSUME NEW q \in RowsOf(db', s.hw)
            PROVE  IF q = s.row THEN RowIsIts(db', held'[hw], s) ELSE db'.device[q].token = None
        <4>1. q \in RowsOf(db, hw) /\ q \in DOMAIN db.device
          BY <1>3, <2>3, <3>5 DEF RowsOf
        <4>2. CASE q # s.row
          BY <1>3, <2>3, <3>2, <4>1, <4>2 DEF SyncGoesWell
        <4>3. CASE q = s.row
          <5>1. RowIsIts(db, held[hw], r)
            BY <2>3, <3>2, <4>1, <4>3 DEF SyncGoesWell
          <5> QED BY <1>3, <2>2, <2>3, <4>1, <4>3, <5>1, SameBooks DEF RowIsIts
        <4> QED BY <4>2, <4>3
      <3>6. SyncGoesWell(db', held'[hw], s)
        BY <3>4, <3>5 DEF SyncGoesWell
      <3>7. \A e \in Calls : SyncOf(e, hw)' => e = c
        <4>1. \A e \in Calls : e # c => call'[e] = call[e]
          BY <2>2 DEF Others
        <4> QED BY <2>7, <3>1, <4>1, OneSync DEF SyncOf, InFlight
      <3>8. Answering(hw)'
        BY <2>2, <3>1 DEF Answering, s
      <3>9. s.waits /\ s.lib = home'[s.user]
        BY <1>3, <1>7, <2>3, <3>2
      <3> QED BY <3>6, <3>7, <3>8, <3>9 DEF Reliable, s
    <2> QED BY <1>5, <2>2, <2>6, <2>7, MovesKeep
  <1> QED BY <1>2, <1>6, <1>7

\* With the answer a Kobo has all that its token promises: what the sync did not
\* get is not due, and so was there since the sync before.
LEMMA ReceiveKeeps ==
    ASSUME Inv, SyncInv, NEW c \in Calls, NEW hw, hw = call[c].hw, Receive(c)
    PROVE  SyncInv'
  <1> DEFINE r == call[c]
  <1>1. Serving(c) /\ r.at = "answer"
    BY DEF Receive, At, Serving, SyncStages
  <1>2. /\ CallsOK /\ InFlight(c) /\ RequestOK(r) /\ SyncFields(r, now) /\ r.op = "sync" /\ now \in Int
    BY <1>1, ServingIs
  <1>3. Others(c) /\ call'[c] = Over
    BY <1>2, EndIs DEF Receive
  <1>4. /\ db' = db /\ now' = now /\ home' = home /\ edit' = edit /\ calm' = calm
        /\ held' = [held EXCEPT ![hw] = r.got ++ @] /\ DOMAIN held = Kobos
    BY DEF Receive, SyncInv, ClockOK
  <1>5. LeavesOthers(c, hw)
    <2>1. /\ DOMAIN calm' = Kobos /\ DOMAIN held' = Kobos /\ \A k \in Kobos : calm'[k] \in BOOLEAN
          /\ \A k \in Kobos \ {hw} : held'[k] = held[k] /\ SameRows(k)
      BY <1>4 DEF SyncInv, ClockOK, SameRows
    <2>2. \A q \in DOMAIN db'.device : q \in DOMAIN db.device /\ db'.device[q].hw = db.device[q].hw /\ db'.device[q].token \in Times
      BY <1>4 DEF Times
    <2> QED BY <1>2, <1>3, <1>4, <2>1, <2>2 DEF LeavesOthers
  <1>6. ASSUME hw \in Kobos, calm'[hw]
        PROVE  Reliable(hw)'
    <2>1. Reliable(hw) /\ SyncOf(c, hw) /\ calm[hw]
      BY <1>2, <1>4, <1>6 DEF SyncInv, SyncOf
    <2>2. SyncGoesWell(db, held[hw], r) /\ r.lib = home[r.user]
      BY <1>1, <2>1 DEF Reliable, SyncStages
    <2>3. \A e \in Calls : ~SyncOf(e, hw)'
      <3>1. \A e \in Calls : e # c => call'[e] = call[e]
        BY <1>3 DEF Others
      <3> QED BY <1>3, <1>6, <2>1, <3>1, OneSync DEF SyncOf, InFlight
    <2>4. held'[hw] = r.got ++ held[hw] /\ Got(r) = r.got
      BY <1>1, <1>2, <1>4, <1>6 DEF Got, SyncFields, SyncStages
    <2>5. /\ \A b \in DOMAIN Got(r) : Has(held'[hw], b) /\ held'[hw][b] = Got(r)[b]
          /\ \A b : Has(held[hw], b) /\ b \notin DOMAIN Got(r) => Has(held'[hw], b) /\ held'[hw][b] = held[hw][b]
      <3>1. /\ DOMAIN (r.got ++ held[hw]) = DOMAIN r.got \cup DOMAIN held[hw]
            /\ \A x \in DOMAIN r.got : (r.got ++ held[hw])[x] = r.got[x]
            /\ \A x \in DOMAIN held[hw] \ DOMAIN r.got : (r.got ++ held[hw])[x] = held[hw][x]
        BY DEF ++
      <3> QED BY <2>4, <3>1 DEF Has
    <2>6. ASSUME NEW q \in RowsOf(db, hw), db.device[q].token # None
          PROVE  HoldsUpTo(db, held'[hw], home[db.device[q].owner], db.device[q].token)
      <3>1. q = r.row /\ RowIsIts(db, held[hw], r)
        BY <2>2, <2>6 DEF SyncGoesWell
      <3>2. db.device[q].owner = r.user /\ db.device[q].token = r.token
        BY <1>1, <3>1 DEF RowIsIts
      <3>3. r.token \in Int /\ r.since \in {None} \cup Int
        BY <1>1, <1>2 DEF SyncFields, SyncStages, TimeStages
      <3>4. ASSUME NEW b \in DOMAIN db.book, db.book[b].lib = r.lib, Supported(db.book[b]), db.book[b].mod <= r.token
            PROVE  Has(held'[hw], b) /\ held'[hw][b] \in {db.book[b].mod, Removed}
        <4>1. db.book[b].mod \in Int
          BY DEF SyncInv, ClockOK, BooksOK, StampedUpTo
        <4>2. CASE b \in DOMAIN Got(r)
          <5>1. Got(r)[b] = db.book[b].mod
            BY <2>2, <3>3, <3>4, <4>1, <4>2 DEF SyncGoesWell, GotIsTrue, Has
          <5> QED BY <2>5, <4>2, <5>1
        <4>3. CASE b \notin DOMAIN Got(r)
          <5>1. b \notin Due(db, r)
            BY <2>2, <3>4, <4>3 DEF SyncGoesWell, GotIsDue
          <5>2. b \notin Asked(db, r)
            BY <1>1, <3>4, <5>1 DEF Due
          <5>3. r.since # None /\ db.book[b].mod <= r.since
            BY <3>3, <3>4, <4>1, <5>2 DEF Asked, ChangedSince
          <5>4. Has(held[hw], b) /\ held[hw][b] \in {db.book[b].mod, Removed}
            BY <3>1, <3>4, <5>3 DEF RowIsIts, HoldsUpTo
          <5> QED BY <2>5, <4>3, <5>4
        <4> QED BY <4>2, <4>3
      <3> QED BY <2>2, <3>2, <3>4 DEF HoldsUpTo
    <2> QED BY <1>4, <2>3, <2>6 DEF Reliable
  <1> QED BY <1>3, <1>5, <1>6, MovesKeep

\* The books of a page are those at its places, and a page that is not full is
\* the last.
LEMMA PageOfIs ==
    ASSUME NEW s, NEW N \in Nat, s \in [1..N -> Range(s)], NEW p \in Nat \ {0}
    PROVE  /\ ToSet(PageOf(s, p)) = {s[j] : j \in {i \in 1..N : (p - 1) * PageSize < i /\ i <= p * PageSize}}
           /\ Len(PageOf(s, p)) < PageSize => N <= p * PageSize
  <1> DEFINE m == (p - 1) * PageSize + 1
             n == UpTo(s, p * PageSize)
             t == PageOf(s, p)
  <1>1. PageSize \in Nat \ {0} /\ (p - 1) * PageSize \in Nat /\ p * PageSize = (p - 1) * PageSize + PageSize
    BY KoboBoundsAssumption
  <1>2. PICK lo \in Nat, hi \in Nat : lo = (p - 1) * PageSize /\ hi = p * PageSize /\ hi = lo + PageSize
    BY <1>1
  <1>3. s \in Seq(Range(s)) /\ Len(s) = N /\ DOMAIN s = 1..N
    BY SeqDef, LenProperties
  <1>4. n = IF hi < N THEN hi ELSE N
    BY <1>2, <1>3 DEF UpTo
  <1>5. m = lo + 1 /\ m \in Int /\ n \in Int /\ n <= N
    BY <1>2, <1>4
  <1> HIDE DEF m, n
  <1>6. \A i \in m..n : s[i] \in Range(s)
    <2>1. \A i \in m..n : i \in 1..N
      BY <1>5
    <2> QED BY <1>3, <2>1 DEF Range
  <1>7. /\ SubSeq(s, m, n) \in Seq(Range(s))
        /\ Len(SubSeq(s, m, n)) = IF m <= n THEN n - m + 1 ELSE 0
        /\ \A i \in 1..n - m + 1 : SubSeq(s, m, n)[i] = s[m + i - 1]
    BY <1>5, <1>6, SubSeqProperties
  <1>8. t = SubSeq(s, m, n)
    BY DEF PageOf, m, n
  <1> HIDE DEF t
  <1>9. DOMAIN t = 1..n - m + 1 /\ \A i \in 1..n - m + 1 : t[i] = s[m + i - 1]
    <2>1. DOMAIN t = 1..Len(t)
      BY <1>7, <1>8, LenProperties
    <2> QED BY <1>5, <1>7, <1>8, <2>1
  <1>10. ToSet(t) = {s[j] : j \in m..n}
    <2>1. ASSUME NEW x \in ToSet(t)
          PROVE  x \in {s[j] : j \in m..n}
      <3>1. PICK i \in 1..n - m + 1 : x = s[m + i - 1]
        BY <1>9, <2>1 DEF ToSet
      <3>2. m + i - 1 \in m..n
        BY <1>5
      <3> QED BY <3>1, <3>2
    <2>2. ASSUME NEW j \in m..n
          PROVE  s[j] \in ToSet(t)
      <3>1. j - m + 1 \in 1..n - m + 1 /\ m + (j - m + 1) - 1 = j
        BY <1>5
      <3>2. t[j - m + 1] = s[j]
        BY <1>9, <3>1
      <3> QED BY <1>9, <3>1, <3>2 DEF ToSet
    <2> QED BY <2>1, <2>2
  <1>11. m..n = {i \in 1..N : (p - 1) * PageSize < i /\ i <= p * PageSize}
    <2>1. m..n = {i \in 1..N : lo < i /\ i <= hi}
      BY <1>4, <1>5
    <2> QED BY <1>2, <2>1
  <1>12. Len(t) < PageSize => N <= hi
    BY <1>1, <1>2, <1>4, <1>5, <1>7, <1>8
  <1> QED BY <1>2, <1>10, <1>11, <1>12 DEF t

LEMMA InOrderIsFunction ==
    ASSUME NEW d, NEW S
    PROVE  InOrder(d, S) \in [1..Cardinality(S) -> Range(InOrder(d, S))]
  <1> DEFINE at(n) == CHOOSE b \in S : Cardinality({a \in S : Earlier(d, a, b)}) = n - 1
             s == [n \in 1..Cardinality(S) |-> at(n)]
  <1>1. InOrder(d, S) = s
    BY DEF InOrder
  <1> HIDE DEF at
  <1>2. s \in [1..Cardinality(S) -> Range(s)]
    BY DEF Range
  <1> QED BY <1>1, <1>2

LEMMA ReadPageKeeps ==
    ASSUME Inv, SyncInv, NEW c \in Calls, NEW hw, hw = call[c].hw, ReadPage(c)
    PROVE  SyncInv'
  <1> DEFINE r == call[c]
             s == call'[c]
  <1>1. Serving(c) /\ r.at = "page"
    BY DEF ReadPage, At, Serving, SyncStages
  <1>2. /\ CallsOK /\ InFlight(c) /\ RequestOK(r) /\ SyncFields(r, now) /\ r.op = "sync" /\ now \in Int
    BY <1>1, ServingIs
  <1>3. {"page", "got", "total"} \subseteq DOMAIN r /\ r.page \in Nat \ {0} /\ Page(r) = r.page /\ Got(r) = r.got
    BY <1>1, <1>2 DEF SyncFields, SyncStages, Page, Got
  <1> DEFINE seq == InOrder(db, Asked(db, r))
             books == PageOf(seq, r.page)
             last == Len(books) < PageSize \/ r.page * PageSize >= r.total
             entries == Entries(Gathered(db, books))
             N == Cardinality(Asked(db, r))
             f == [got |-> entries ++ r.got, page |-> r.page + 1, at |-> IF last THEN "collections" ELSE "count"]
  <1>4. DOMAIN f = {"got", "page", "at"} /\ Step(c, f)
    BY DEF ReadPage, Asked
  <1>5. f.got = entries ++ r.got /\ f.page = r.page + 1 /\ f.at = IF last THEN "collections" ELSE "count"
    OBVIOUS
  <1> HIDE DEF f, entries, books, seq, last
  <1>6. /\ Others(c) /\ DOMAIN s = DOMAIN r \cup {"got", "page", "at"}
        /\ s.got = entries ++ r.got /\ s.page = r.page + 1 /\ s.at = IF last THEN "collections" ELSE "count"
        /\ \A x \in DOMAIN r \ {"got", "page", "at"} : s[x] = r[x]
    BY <1>2, <1>4, <1>5, StepIs
  <1> HIDE DEF s, N
  <1>7. /\ s.op = "sync" /\ s.hw = hw /\ s.waits = r.waits /\ s.user = r.user /\ s.lib = r.lib /\ s.row = r.row /\ s.since = r.since
        /\ "op" \in DOMAIN s
    BY <1>2, <1>6 DEF RequestOK
  <1>8. s \notin {New, Over}
    BY <1>7 DEF New, Over
  <1>9. SyncFields(s, now)
    BY <1>1, <1>2, <1>3, <1>6, <1>7 DEF SyncFields, SyncStages, TimeStages
  <1>10. Advances(c, hw)
    BY <1>1, <1>2, <1>6, <1>7, <1>8, <1>9 DEF Advances, ReadPage, Reads, Rest, SyncStages, TimeStages, s
  <1>11. /\ N \in Nat /\ \A b \in Asked(db, r) : \E i \in 1..N : seq[i] = b
         /\ seq \in [1..N -> Range(seq)]
    <2>1. BooksOK(db, now)
      BY DEF SyncInv, ClockOK
    <2>2. Asked(db, r) \subseteq DOMAIN db.book
      BY DEF Asked, ChangedSince
    <2>3. IsFiniteSet(Asked(db, r)) /\ Asked(db, r) \subseteq Int /\ \A b \in Asked(db, r) : db.book[b].mod \in Int
      BY <2>1, <2>2, FS_Subset DEF BooksOK, StampedUpTo
    <2>4. N \in Nat /\ \A b \in Asked(db, r) : \E i \in 1..N : seq[i] = b
      <3>1. HasPlaces(db, Asked(db, r))
        BY <2>3, BooksAreInOrder DEF Orderly
      <3> QED BY <3>1 DEF HasPlaces, seq, N
    <2>5. seq \in [1..N -> Range(seq)]
      BY InOrderIsFunction DEF seq, N
    <2> QED BY <2>4, <2>5
  <1>12. /\ ToSet(books) = {seq[j] : j \in {i \in 1..N : (r.page - 1) * PageSize < i /\ i <= r.page * PageSize}}
         /\ Len(books) < PageSize => N <= r.page * PageSize
    BY <1>3, <1>11, PageOfIs DEF books
  <1>13. /\ \A b \in DOMAIN entries : entries[b] = db.book[b].mod
         /\ \A b \in ToSet(books) : Supported(db.book[b]) => b \in DOMAIN entries
    <2>1. DOMAIN Gathered(db, books) = ToSet(books)
          /\ \A b \in ToSet(books) : Gathered(db, books)[b] = [fmt |-> db.book[b].fmt, mod |-> db.book[b].mod]
      BY DEF Gathered
    <2>2. \A b \in ToSet(books) : Gathered(db, books)[b].fmt = db.book[b].fmt /\ Gathered(db, books)[b].mod = db.book[b].mod
      BY <2>1
    <2> QED BY <2>1, <2>2 DEF Entries, Supported, entries
  <1>14. /\ DOMAIN s.got = DOMAIN entries \cup DOMAIN r.got /\ Got(s) = s.got
         /\ \A b \in DOMAIN entries : s.got[b] = entries[b]
         /\ \A b \in DOMAIN r.got \ DOMAIN entries : s.got[b] = r.got[b]
    <2>1. Got(s) = s.got
      BY <1>6 DEF Got
    <2> QED BY <1>6, <2>1 DEF ++
  <1>15. Asked(db, s) = Asked(db, r)
    BY <1>7 DEF Asked
  <1>16. ASSUME GotIsTrue(db, r)
         PROVE  GotIsTrue(db, s)
    BY <1>1, <1>3, <1>13, <1>14, <1>16 DEF GotIsTrue, TimeStages
  <1>17. ASSUME GotIsDue(db, r)
         PROVE  GotIsDue(db, s)
    <2>1. r.total = N /\ \A b \in Due(db, r) : Supported(db.book[b]) => b \in DOMAIN r.got
      BY <1>1, <1>3, <1>17 DEF GotIsDue, N
    <2>2. ASSUME NEW b \in Due(db, s)
          PROVE  b \in Asked(db, r) /\ \E i \in 1..N : i <= r.page * PageSize /\ seq[i] = b
      <3>1. CASE last
        <4>1. Due(db, s) = Asked(db, r)
          BY <1>6, <1>15, <3>1 DEF Due
        <4>2. r.page * PageSize \in Int
          BY <1>3, KoboBoundsAssumption
        <4>3. N <= r.page * PageSize
          BY <1>11, <1>12, <2>1, <3>1, <4>2 DEF last
        <4> QED BY <1>11, <2>2, <4>1, <4>2, <4>3
      <3>2. CASE ~last
        <4>1. Page(s) - 1 = r.page
          BY <1>3, <1>6 DEF Page
        <4> QED BY <1>6, <1>15, <2>2, <3>2, <4>1 DEF Due, seq, N
      <3> QED BY <3>1, <3>2
    <2>3. ASSUME NEW b \in Due(db, s), Supported(db.book[b])
          PROVE  b \in DOMAIN Got(s)
      <3>1. PICK i \in 1..N : i <= r.page * PageSize /\ seq[i] = b
        BY <2>2, <2>3
      <3>2. (r.page - 1) * PageSize \in Int /\ i \in Int
        BY <1>3, KoboBoundsAssumption
      <3>3. CASE i <= (r.page - 1) * PageSize
        <4>1. b \in Due(db, r)
          BY <1>1, <1>3, <2>2, <2>3, <3>1, <3>3 DEF Due, seq, N
        <4> QED BY <1>14, <2>1, <2>3, <4>1
      <3>4. CASE (r.page - 1) * PageSize < i
        <4>1. b \in ToSet(books)
          BY <1>12, <3>1, <3>4
        <4> QED BY <1>13, <1>14, <2>3, <4>1
      <3> QED BY <3>2, <3>3, <3>4
    <2> QED BY <1>6, <2>3 DEF GotIsDue
  <1> QED BY <1>10, <1>16, <1>17, AdvancesKeep DEF s

-----------------------------------------------------------------------------
(* Tokens promise no book the Kobo has not got.                              *)

LEMMA SyncInit == Init => SyncInv
  <1> SUFFICES ASSUME Init PROVE SyncInv
    OBVIOUS
  <1>1. /\ db \in InitDbs /\ now = 3 /\ edit = {} /\ \A c \in Calls : call[c] = New /\ ~InFlight(c)
        /\ DOMAIN calm = Kobos /\ DOMAIN held = Kobos /\ \A hw \in Kobos : calm[hw] \in BOOLEAN
        /\ \A hw \in Kobos : RowsOf(db, hw) # {} => held[hw] = CopiesUpTo(db, db.device[CHOOSE r \in RowsOf(db, hw) : TRUE])
    BY DEF Init, InFlight
  <1>2. /\ References(db) /\ StampedUpTo(db, 3) /\ Calls \cap DOMAIN db.device = {}
        /\ DOMAIN db.book \subseteq Int /\ IsFiniteSet(DOMAIN db.book)
    <2>1. /\ References(db) /\ StampedUpTo(db, 3) /\ Calls \cap (DOMAIN db.shelf \cup DOMAIN db.device) = {}
          /\ DOMAIN db.book \subseteq Books /\ IsFiniteSet(DOMAIN db.book)
      BY <1>1, KoboDbsAssumption
    <2> QED BY <2>1, BooksAssumption
  <1>3. SyncsOK /\ OneWaits /\ RowsOK
    BY <1>1, <1>2 DEF SyncsOK, OneWaits, RowsOK, Waited, At, Serving
  <1>4. ClockOK /\ TimesDiffer
    BY <1>1, <1>2 DEF ClockOK, BooksOK, TimesDiffer
  <1>5. ASSUME NEW hw \in Kobos
        PROVE  Reliable(hw)
    <2>1. ASSUME NEW r \in RowsOf(db, hw), db.device[r].token # None
          PROVE  HoldsUpTo(db, held[hw], home[db.device[r].owner], db.device[r].token)
      <3>1. RowsOf(db, hw) = {r}
        BY <1>2 DEF References, RowsOf
      <3>2. held[hw] = CopiesUpTo(db, db.device[r])
        BY <1>1, <3>1
      <3> QED BY <2>1, <3>2 DEF CopiesUpTo, HoldsUpTo, Has
    <2> QED BY <1>1, <2>1 DEF Reliable, SyncOf
  <1> QED BY <1>3, <1>4, <1>5 DEF SyncInv

LEMMA SyncsStep ==
    ASSUME Inv, SyncInv, NEW c \in Calls, GoesOn(c)
    PROVE  SyncInv'
  <1>1. PICK hw, u : hw = call[c].hw /\ u = call[c].user
    OBVIOUS
  <1>2. CASE CountBooks(c) \/ ReadPage(c) \/ ReadCollections(c) \/ StoreToken(c) \/ Receive(c) \/ Register(c)
    BY <1>1, <1>2, CountBooksKeeps, ReadPageKeeps, ReadCollectionsKeeps, StoreTokenKeepsSyncs, ReceiveKeeps, RegisterKeeps
  <1>3. CASE \/ UpsertReadingState(c) \/ SaveProgress(c) \/ (\E b \in Books : FindFormat(c, b))
             \/ DeleteTag(c) \/ AddItem(c) \/ RemoveItem(c) \/ \E name \in TagNames : RenameTag(c, name)
    <2>1. Untouched /\ Aside(c)
      BY <1>3, OthersAside
    <2> QED BY <2>1, AsideKeeps
  <1>4. CASE Reread(c) \/ GiveUp(c)
    <2>1. CASE call[c].op = "sync"
      BY <1>1, <1>4, <2>1, RereadKeeps, GiveUpKeeps
    <2>2. CASE call[c].op # "sync"
      <3>1. Untouched /\ Aside(c)
        BY <1>4, <2>2, NoSyncAside
      <3> QED BY <3>1, AsideKeeps
    <2> QED BY <2>1, <2>2
  <1> QED BY <1>2, <1>3, <1>4 DEF GoesOn

LEMMA SyncInvStep == ASSUME Inv, SyncInv, [Next]_vars PROVE SyncInv'
  <1>1. ASSUME NEW c \in Calls, LibrarySync(c)
        PROVE  SyncInv'
    <2>1. PICK u \in MayDownload, hw \in Kobos : /\ Recognised(u, hw)
                                                 /\ Known(c, "sync", u, hw, "count") \/ Unknown(c, "sync", u, hw)
      BY <1>1 DEF LibrarySync
    <2>2. u \in Users
      BY UsersAssumption
    <2>3. CASE Known(c, "sync", u, hw, "count")
      BY <2>1, <2>2, <2>3, KnownKeeps
    <2>4. CASE Unknown(c, "sync", u, hw)
      <3>1. Untouched /\ Aside(c)
        BY <2>4, BeginningsAside
      <3> QED BY <3>1, AsideKeeps
    <2> QED BY <2>1, <2>3, <2>4
  <1>2. ASSUME NEW c \in Calls, UpdateReadingState(c) \/ Initialization(c) \/ CreateKoboTag(c) \/ \E op \in TagStages : AskTag(c, op)
        PROVE  SyncInv'
    <2>1. Untouched /\ Aside(c)
      BY <1>2, BeginningsAside
    <2> QED BY <2>1, AsideKeeps
  <1> QED BY <1>1, <1>2, StepOfRequests, SyncsStep, ChangesKeep

LEMMA SyncsAreReliable == SyncInv => NothingMissed
  <1> SUFFICES ASSUME SyncInv, NEW hw \in Kobos, calm[hw], NEW r \in RowsOf(db, hw), db.device[r].token # None,
                      \A c \in Calls : SyncOf(c, hw) => call[c].at # "answer",
                      NEW b \in DOMAIN CopiesUpTo(db, db.device[r])
               PROVE  Has(held[hw], b) /\ held[hw][b] \in {db.book[b].mod, Removed}
    BY DEF NothingMissed, Promised
  <1>1. HoldsUpTo(db, held[hw], home[db.device[r].owner], db.device[r].token)
    BY DEF SyncInv, Reliable, Answering
  <1>2. /\ b \in DOMAIN db.book /\ db.book[b].lib = home[db.device[r].owner] /\ Supported(db.book[b])
        /\ db.book[b].mod <= db.device[r].token
    BY DEF CopiesUpTo
  <1> QED BY <1>1, <1>2 DEF HoldsUpTo

\* A Kobo whose syncs were not disturbed has what its token promises
\* (NothingMissed): pages, tokens and answers are pieced together from steps
\* between which rows are removed, made anew and taken over.
THEOREM NothingMissedCorrect == Spec => []NothingMissed
  <1>1. Init => Inv /\ SyncInv
    BY InitOK, SyncInit
  <1>2. Inv /\ SyncInv /\ [Next]_vars => Inv' /\ SyncInv'
    BY InvStep, SyncInvStep
  <1>3. SyncInv => NothingMissed
    BY SyncsAreReliable
  <1> QED BY <1>1, <1>2, <1>3, PTL DEF Spec
=============================================================================
