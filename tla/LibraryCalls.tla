---------------------------- MODULE LibraryCalls ----------------------------
(* What the handlers of the library share: the database, the files, the search
   index, the tasks they spawn, and the requests that are under way.

   A request runs as one call. It is begun by its first action, with what it
   was asked and what its first queries returned, waits at a stage (the name of
   what it does next) and is over when it has answered. A request that is
   refused by its first queries changes nothing and is not begun.            *)
EXTENDS LibraryMerge

CONSTANTS Calls,        \* requests of a behaviour, 1..n in the order they begin
          InitDb,       \* the library at the beginning
          NewBook,      \* NewBook[c]: the fresh id of a book uploaded by call c
          Can,          \* Can[u]: the capabilities of the role of a user
          CoverFiles,   \* names of the cover's variants, in the order they are stored
          PhotoFiles,   \* names of the variants of an author's photo, likewise
          MaxFaults,    \* failed database or storage calls
          MaxCrashes    \* crashes of the process

ASSUME CallsAssumption == Calls = 1..Cardinality(Calls)
ASSUME BoundsAssumption == MaxFaults \in Nat /\ MaxCrashes \in Nat

\* The library at the beginning is one the tables admit, ...
ASSUME LibraryDbAssumption == Schema(InitDb) /\ References(InitDb) /\ OneFile(InitDb) /\ OfItsBook(InitDb)

\* ... and the ids of new books (UUIDs) are in no use.
ASSUME NewBooksAssumption ==
    /\ \A c \in Calls : NewBook[c] \notin DOMAIN InitDb.book \cup {f[1] : f \in DOMAIN InitDb.format}
    /\ \A c, e \in Calls : c # e => NewBook[c] # NewBook[e]

VARIABLES db,        \* the tables
          files,     \* the files in the storage: <<book, format>>, <<book, variant>>
                     \* and <<"author", author, variant>>
          index,     \* the search backend's documents: book -> title
          tasks,     \* spawned tasks that have not run
          call,      \* the requests
          faults, crashes

vars == <<db, files, index, tasks, call, faults, crashes>>

New == [op |-> "new"]
Over == [op |-> "over"]

CoversOf(b) == {<<b, CoverFiles[i]>> : i \in DOMAIN CoverFiles}
PhotosOf(a) == {<<"author", a, PhotoFiles[i]>> : i \in DOMAIN PhotoFiles}

Init == /\ db = InitDb
        /\ files = DOMAIN InitDb.format \cup UNION {CoversOf(b) : b \in {x \in DOMAIN InitDb.book : InitDb.book[x].cover}}
                    \cup UNION {PhotosOf(a) : a \in {x \in DOMAIN InitDb.profile : InitDb.profile[x].photo}}
        /\ index = [b \in DOMAIN InitDb.book |-> InitDb.book[b].title]
        /\ tasks = {}
        /\ call = [c \in Calls |-> New]
        /\ faults = 0 /\ crashes = 0

-----------------------------------------------------------------------------
(* Steps of a call *)

\* The next request to begin
Free(c) == call[c] = New /\ \A e \in Calls : e < c => call[e] # New

Begin(c, request) ==
    /\ Free(c)
    /\ call' = [call EXCEPT ![c] = request]

\* A request of one statement begins and ends in one step
BeginAndEnd(c) == Begin(c, Over)

InFlight(c) == call[c] \notin {New, Over}

At(c, op, stage) == InFlight(c) /\ call[c].op = op /\ call[c].at = stage

Goto(c, stage) == call' = [call EXCEPT ![c].at = stage]

Answer(c) == call' = [call EXCEPT ![c] = Over]

Fault == faults < MaxFaults /\ faults' = faults + 1

Spawn(set) == tasks' = tasks \cup set

Idle == UNCHANGED <<files, index, tasks, faults, crashes>>

\* A call that only reads before its next stage
Reads == UNCHANGED db /\ Idle

-----------------------------------------------------------------------------
(* Failures *)

\* Stages whose failure has consequences of its own, with the modules below
Guarded == {"insert", "read", "setcover", "newcover", "remove", "unput", "uncover", "photo", "setphoto", "unphoto"}

\* A statement fails: its transaction is rolled back and the handler answers
\* with an error (AppError::Internal).
StatementFails(c) ==
    /\ InFlight(c) /\ call[c].at \notin Guarded /\ call[c].op # "import"
    /\ Fault
    /\ Answer(c)
    /\ UNCHANGED <<db, files, index, tasks, crashes>>

\* The process ends: requests and tasks are gone, database, files and the
\* search backend stay.
Crash ==
    /\ crashes < MaxCrashes
    /\ \E c \in Calls : InFlight(c)
    /\ crashes' = crashes + 1
    /\ call' = [c \in Calls |-> IF InFlight(c) THEN Over ELSE call[c]]
    /\ tasks' = {}
    /\ UNCHANGED <<db, files, index, faults>>

-----------------------------------------------------------------------------
(* Spawned tasks, in whatever order the runtime runs them. The rows that an
   upload adds to llm_jobs and webhook_deliveries are EnqueueSemanticIndex of LlmJobs and
   Enqueue of WebhookDelivery.                                               *)

\* queue_book_index: the document is the book as the handler had it
IndexTask(c, b, title) == [kind |-> "index", call |-> c, book |-> b, title |-> title]

\* queue_book_removal
RemovalTask(c, b) == [kind |-> "removal", call |-> c, book |-> b]

\* queue_book_chunk_generation
ChunkTask(c, b) == [kind |-> "chunks", call |-> c, book |-> b]

\* The insertion into download_history that download_format spawns
HistoryTask(c, u, b) == [kind |-> "history", call |-> c, user |-> u, book |-> b]

RunIndexTask(t) ==
    /\ t.kind = "index"
    /\ \/ index' = Put(index, t.book, t.title) /\ UNCHANGED faults
       \/ Fault /\ UNCHANGED index
    /\ tasks' = tasks \ {t}
    /\ UNCHANGED <<db, files, call, crashes>>

RunRemovalTask(t) ==
    /\ t.kind = "removal"
    /\ \/ index' = Drop(index, {t.book}) /\ UNCHANGED faults
       \/ Fault /\ UNCHANGED index
    /\ tasks' = tasks \ {t}
    /\ UNCHANGED <<db, files, call, crashes>>

\* generate_and_store_book_chunks: needs a format and its file, and replaces
\* the chunks in one transaction, which a book that is gone makes fail
RunChunkTask(t) ==
    /\ t.kind = "chunks"
    /\ db' = IF FilesOf(db, t.book) \cap files # {} THEN [db EXCEPT !.chunked = @ \cup {t.book}] ELSE db
    /\ tasks' = tasks \ {t}
    /\ UNCHANGED <<files, index, call, faults, crashes>>

\* insert_download_history: no foreign key on the book
RunHistoryTask(t) ==
    /\ t.kind = "history"
    /\ db' = [db EXCEPT !.history = @ \cup {<<t.user, t.book>>}]
    /\ tasks' = tasks \ {t}
    /\ UNCHANGED <<files, index, call, faults, crashes>>

TaskStep == \E t \in tasks : RunIndexTask(t) \/ RunRemovalTask(t) \/ RunChunkTask(t) \/ RunHistoryTask(t)
=============================================================================
