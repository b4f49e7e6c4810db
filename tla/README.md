# xcalibre-server: a TLA+ verification project

xcalibre-server is a self-hosted e-book library: a Rust backend (axum, SQLite through sqlx), a web app, a mobile app
and two small tools. What is hard to get right, and hard to test, is what runs beside the requests (a job queue, a
scheduler, webhook deliveries), requests of several statements and files that overlap (uploads, merges, sessions, Kobo
synchronisation), and a few algorithms at their boundaries. This project models those parts in TLA+, checks small
instances with TLC, and proves safety properties of the job queue, the webhooks, the scheduled tasks, the library, the
accounts, the Kobo synchronisation and four algorithms with TLAPS for every value of the constants.

Paths below are relative to the repository; `backend/` stands for `src/backend/src/`.

## 1. Inventory

One process runs everything: `backend/lib.rs` resets the job queue, spawns the job runner (only when `llm.enabled`),
spawns the scheduler, and serves HTTP. All lasting state is one SQLite database behind a pool of connections, plus
files in a storage directory or bucket and the documents of a search backend. The handlers, the runner and the scheduler
share no memory but the pool, the Prometheus gauges, a cover cache and a few flags, so they interact through rows. SQLite makes each
statement and each transaction atomic; a handler of several of them can be interrupted between any two by any other.

| part | state | operations | interacts with | what is hard | what makes it correct | model |
|---|---|---|---|---|---|---|
| **LLM job queue** `backend/llm/job_runner.rs`, `backend/db/queries/llm.rs` | `llm_jobs` rows, semaphore, handles of the running tasks | enqueue (four kinds), claim, work, mark, cancel in two ways, reset at start | uploads, scheduler, administrators, deleted books, webhooks | statements of many actors, failed calls, crashes, a barrier per iteration | one active row per book and type; permits come back; finished stays finished; one event per job; every job ends | `LlmJobs`, `JobBoard` |
| **Job gauges** `backend/metrics.rs` | two counters in memory | adjusted at each UPDATE, set anew by the scheduler | queue, scheduler | forgotten and double counts, a restart | come back to the table | `LlmJobGauges` |
| **Webhooks** `backend/webhooks.rs`, `backend/db/queries/webhooks.rs` | `webhooks`, `webhook_deliveries` | enqueue for every subscriber, deliver a batch, retry, give up | all that emits events; receivers | a POST whose answer is late or lost, rows read before and written after it, full batches | status agrees with the answers heard; bounded POSTs; every delivery ends | `WebhookDelivery` |
| **Scheduled tasks** `backend/scheduler.rs`, `backend/db/queries/scheduled_tasks.rs` | `scheduled_tasks` | a pass over the due rows; create, update, delete | job queue, administrators | a row read before and written after its job is enqueued | one job for a due time; a failing task stops no other | `ScheduledTasks` |
| **Cron expressions** `backend/scheduler.rs` | none | 5 fields to the 6 of the cron crate, days renumbered | scheduled tasks | 7, ranges, steps | runs on the days that are meant | `CronFields` |
| **Books, uploads, merges** `backend/api/books.rs`, `books_admin.rs`, `backend/db/queries/books.rs`, `book_insert.rs` | books, formats, identifiers, covers, custom values; files; index documents | upload, replace, edit, edit many, apply metadata, merge (two handlers), delete, download | storage, readers, search backend | files put, renamed and deleted in steps of their own; reads before a transaction; failures half way | a book has one file of a format; no row without its file; merges lose no reader | `LibraryBooks`, `LibraryMerge` |
| **Readers' data** `backend/api/books.rs` | positions, read and archived flags, annotations | upsert, delete | merges, Kobo | a position saved while its format moves or goes | a position is on a format of its book | `LibraryReaders` |
| **Lists** `backend/api/shelves.rs`, `collections.rs`, `authors.rs`, `users.rs`, `llm.rs`, `admin/mod.rs` | shelves, collections, tags, restrictions, authors, imports | edit, reorder, rename, merge, suggest, confirm, import a history | books | merges against confirmations, an import row by row | a confirmed tag stays; an import adds up | `LibraryLists` |
| **Sessions and users** `backend/api/auth.rs`, `magic_link.rs`, `backend/db/queries/auth.rs`, `totp.rs`, `oauth.rs` | users, refresh tokens, pending factors, backup codes, links, identities, API tokens, domains, libraries | register, login (password, directory, second factor, identity, link, proxy), refresh, logout, administration | clients that retry | look, then write | one-time credentials work once; locks have their failures | `Accounts` and its parts |
| **Kobo sync** `backend/api/kobo.rs`, `backend/middleware/kobo.rs`, `backend/db/queries/kobo.rs` | device, sync token, reading states | register, sync, reading state, tags | book edits, other devices and users | pages while rows move, lost answers, two clocks | what the token promises is on the device | `KoboCalls`, `KoboSync` |
| **Listings, OPDS, full-text search** `backend/api/opds.rs`, `opds_enhancements.rs`, `search.rs`, `backend/db/queries/opds.rs` | none | feeds and pages with links, counts and filters | edits between two pages | two foldings of names, ties in an order, links | a walk sees all that is listed, once | `Catalogue` |
| **Chunking** `backend/ingest/chunker.rs` | chunks of a chapter | window over paragraphs; line by line | search, job queue | overlaps, boundaries, lines no rule takes | the chunks are the text | `Chunker` |
| **Migration tool** `src/xs-migrate/` | books and files in the target | copy a Calibre library | server deleting books | failures and crashes half way, further runs | once each, with its files | `CalibreImport` |
| Storage (local, S3, Google Drive) | files | put, get, rename, delete | uploads, merge | partial failure of a remote service | what was put is got | a set in `Library*` |
| Semantic and chunk search, memory chunks, graph | embeddings | index, rank | uploads, job queue | distances of two engines | ranks are fused right | - |
| LLM features `backend/llm/` | none | ask a model, parse | job queue | timeouts, odd answers | bounded time | a call in `LlmJobs` |
| Text extraction, metadata providers, updater, watch folder, health, docs, server frame | none or caches | read | - | little | - | - |
| Mobile app `src/apps/mobile/src/lib/` | local books, watermark, downloads | sync, save progress, download | backend | its own clock, cancelled downloads | the local copy catches up | - |
| Web app, shared client, MCP server | session in memory | requests, refresh and retry | backend | refreshes at the same time | signed in stays signed in | - |

`PROJECT.json` lists the same parts with their files, and the hazards of this code at their lines.

## 2. Plan

Done so far, in this order:

1. `LlmJobs` (core), the abstract `JobBoard` it implements, `LlmJobGauges` on top of it, `LlmJobsProofs`.
2. `WebhookDelivery` and `WebhookDeliveryProofs`.
3. `ScheduledTasks` and `ScheduledTasksProofs`, `CronFields`.
4. The library: merges with everything that may overlap them (`Library` and its parts).
5. `Accounts` and its parts; `KoboSync` on `KoboCalls`.
6. `Chunker`, `Catalogue`, `CalibreImport`, put side by side with `CronFields` in `Algorithms`.
   Proofs since: `BoardImplemented` and `OneWorkerCorrect` in `LlmJobsProofs`, then `KoboSyncProofs`, `AccountsProofs`, `LibraryProofs` on `DataLemmas`,
   `AlgorithmsProofs` (`RunsAsMeantCorrect`, `ImportsAddUpCorrect`), `NothingMissedCorrect` in `KoboSyncProofs`, and
   `WalksSeeAllCorrect` and `TextKeptCorrect` in `AlgorithmsProofs`, for which `Orders` and more of `DataLemmas` were written and the
   loops of the chunker became steps. Every safety property that the passing runs check is now a theorem.

Left:

7. The mobile app's watermark and downloads; the fusion of ranks of semantic search.

No composition of `ScheduledTasks` with `LlmJobs` is planned: the scheduler calls the enqueue functions as any other
caller does, and `LlmJobs` lets every caller act at any time. Likewise the events that the job runner enqueues are
counted in `LlmJobs` (`emitted`), and their delivery is `WebhookDelivery`, whose senders act at any time. What an upload adds to
`llm_jobs` and `webhook_deliveries` is an action of these two modules and left out of the library.

## 3. Modules

Every SQL statement is an action, every POST and every wait of the runner is a step of its own; between two steps any
other actor may act and the process may crash. A failed database call (`Fault`) is possible wherever the code has an
error path with a consequence. Rows are numbered in the order of `created_at`, so `ORDER BY created_at` is the order
of the numbers, and a number is never used again, as UUIDs are not. Text, time stamps and whatever is only
displayed are left out.

**LlmJobs** models the table `llm_jobs` and everybody who writes it.
`EnqueueSemanticIndex`, `EnqueueBackup`, `EnqueueClassify` and `RegenInsert` end in `InsertUnlessActive`, the
`INSERT ... WHERE NOT EXISTS` of the code. An organize job takes two steps in the code and here (`AskOrganize`,
`InsertOrganize`). A backup row is also inserted by a SELECT and an INSERT, but its one caller is the
scheduler, so that the two are one step. `RegenStart` to `RegenEnd` are `admin_cover_regenerate`, which switches foreign
keys off and on again with two statements on whichever connections of the pool are free: `fkOff` counts the connections left
without enforcement, and decides what `MayRefer` and `DeleteBook` may do. (The function's comment speaks of cover
regeneration jobs; the code inserts `classify` rows, and the model has what the code does. One such request is modelled
at a time.) `Withdraw` is `cancel_job`, which checks in its UPDATE;
`CancelCheck` and `CancelWrite` are `admin_task_cancel`, which does not. The runner is `Tick`, `Claim` (one per
permit), `NothingToClaim`, `ClaimFails`, `Join`: an iteration claims while it gets permits and then awaits all its
handles; a failing claim drops them and leaves the tasks detached. A task goes through `LoadBook`, `Work`, `Sweep`
(the `UPDATE` of `index_book` over all running rows of the book), `MarkCompleted` or `MarkFailed`, `EmitCompleted`, an
organize task through `SelectBooks` and one `EnqueueClassify` per book. `Crash` keeps the table only;
`Restart` is `reset_orphaned_semantic_jobs`, which resets the running rows of every type.

**JobBoard** is what a queue promises, in four actions: a job is put up unless its exclusive key is taken, started
oldest first, ended for good, or returned when all work is lost; and a waiting job does not wait for ever. `LlmJobs`
maps its statuses to the phases of a board and (type, book) to keys, exclusive for the types that belong to a book.

**LlmJobGauges** extends `LlmJobs` with the two gauges, adjusted where the code adjusts them and nowhere else, and with
the refresh that counts the rows in two statements and then sets both.

**WebhookDelivery** models `enqueue_event` (`FindSubscribers`, then one `InsertDelivery` each, given up at the first
failure) and `deliver_pending` (`ReadBatch`, `Post`, `MarkDelivered` or `MarkRetry` or `MarkFailed`, `MarkHook` for the
UPDATE of the webhook). `seen` is the copy of `attempts` the batch was read with, from which the code computes the
limit; the row has its own, which the UPDATE increments. `posts` counts the POSTs a receiver got and `accepted` says
whether it answered one of them with a 2xx and whether that was heard: `send()` has a timeout of 10 seconds, and a 2xx that comes later or is lost on the way is an error to it and a
reason to try again, so that a delivery may be accepted and POSTed again, or accepted three times and failed, with no failed call of the database. A test
delivery writes no row, and the size check at delivery repeats the one at `enqueue_event`; both are left out.

**ScheduledTasks** models a row's expression as the set of times it names. `ReadDue` copies the due rows into `read`;
`Dispatch` and `MarkRan` (or `NoRunLeft`, when the expression names no later time and the handler returns an error
before it marks) are the two halves of `run_scheduled_task`. Administrators may change, switch or delete a row between any two
steps. `dispatched` counts the jobs enqueued for the next run a row has now.

**Tables** has a database table as a function from keys to rows. **LibraryTables** has the tables of the library and every query on them
that is used more than once, with the cascades of the schema; **LibraryMerge** the two transactions that merge books (`MergeBooks` for
`merge_books`, which keeps the further position of a reader, and the transaction inside `merge_exec`, with its strategies for positions).
**LibraryCalls** has what all handlers share: a request is begun by its first action with what its first queries returned, waits at a stage named for
what it does next, and is over when it has answered; a request that its first queries refuse changes nothing and is not begun. Every
statement or transaction that writes and every call of the storage is an action. `StatementFails` is a failure at any stage; `Guarded` names the
stages whose failure has consequences of its own, and there it is a disjunct of the action (an `InsertUpload` that fails, for instance, goes on with `RemoveUpload`, which deletes the file).
`Crash` ends all requests and spawned tasks, which are actions (`RunIndexTask`, ...) in any order. **LibraryReaders**, **LibraryBooks** and
**LibraryLists** hold the handlers, **Library** the specification and its properties. A file is the pair of the book it was uploaded for and its format:
its row moves in a merge, the file does not change.

**AccountsCalls** has the tables of the accounts and the same convention for requests; **AccountsLogin** the ways to a session, **AccountsManage** what users and
administrators change, **Accounts** the specification. A password, a code and a token are values that are equal or not. What expires is live and then expired
(`TimePasses`). A crash is the failure of a statement of every request under way, for nothing of an account is in memory.
`from` is history: which pending factor, backup code or link a session was got for.

**KoboCalls** has the devices, the request's common steps (`ensure_device`), a Kobo that makes one request at a time and may give up waiting while the server
goes on, and the changes of books by others: `StartEdit` reads the clock, `CommitEdit` commits, which may be later. No two readings of the clock are alike.
`MigrateBook` is `xs-migrate`, which inserts a book into the library it is run for with the `last_modified` that Calibre has: any reading of the clock of the past, also one that a token has.
`SetDefaultLibrary` is `update_default_library`; a request keeps the library it was begun with (`lib`).
**KoboSync** has the sync (`CountBooks`, `ReadPage`, ..., `StoreToken`, `Receive`), the reading states and the tags. `calm` is history:
it becomes FALSE at one of the things the sync is known not to survive (see the observations below: `Disturbed`, for books changed, brought or deleted, `MoveFormat`, `Missed`, for another default library, `GiveUp`, `TakenOver`, and a sync for a row that is
another user's by then, in `CalmFrom`) and TRUE again when everything is read anew. Stamps of the future, which only a wrong clock or a wrong library of Calibre can bring, are left out.

**CronFields** is `normalize_day_of_week_field` and the days the cron crate, an external library, makes of its result,
next to the days POSIX means.

**Chunker** cuts a chapter of lines into chunks: `ChunkHeading`, `ChunkProcedure`, `ChunkRecipe` and `ChunkParagraph` are the branches of the line loop of `chunk_structured`; `ChunkNarrative` and `ChunkParagraph` give a text to `split_text_into_chunks`,
whose loops go paragraph by paragraph (`SkipBlank`, `AddParagraph`, `EmitCurrent`, `EndText`; `upto` is the text's last line, `current` the chunk to come) and, in a paragraph that is too long, window by window (`AddWindow`, `start`).
A word is the pair of its line and its place, so that a property can say what became of each.

**Catalogue** has every feed and listing, shelves, the history of downloads and the administrators' lists of authors and tags, with its filter, order, count, page and links, and a reader who opens one or follows an entry or a next link, while books change. A page is
answered by a count, a read of the page, and, in OPDS, a read of each book of it; a search fetches summaries instead. `SqlLower` and `RustLower` are the two foldings of names. **Orders** has what `ORDER BY` does: rows in their order, and those of some rows that are in a set.

**CalibreImport** is a run of `xs-migrate`: an entry is looked up, its formats and its cover are copied, and one transaction inserts it; any call may fail, a crash may end the
run, further runs follow, and the server may delete what was imported.

**Algorithms** puts these four, which share no state, side by side: one is chosen, the others rest.

`MC*` modules hold only the constants of the instances.

## 4. Runs

| run | checks | shows |
|---|---|---|
| `llm_jobs` | `TypeOK`, `RunningHasTask`, `OneActivePerBook`, `EventOnce`, `FinishedStaysFinished` | Every request there is, with a failed call and a crash, one job at a time. |
| `llm_live` | `PermitsConserved`, `NoDetachedTask`, `OneWorkerPerBook`, `EveryJobEnds`, `ImplementsFairBoard`, `GaugesConverge` | Uploads and withdrawals with the gauges, two jobs at a time, a failed call and a crash, under fairness. |
| `llm_two_organize` | `OneActiveOrganize`, violated | Two callers of `enqueue_organize_job` both find no active row and both insert. |
| `llm_cancel_final` | `CancelSparesFinal`, violated | Between check and UPDATE of `admin_task_cancel` `cancel_job` ends the pending job as failed, and it is cancelled all the same; the answer is 200. |
| `webhooks` | `TypeOK`, `BatchIsCurrent`, `StatusIsHonest`, `PostsAreCounted`, `FinalIsFinal`, `NoPostOnceHeard`, `EveryDeliveryEnds` | Two deliveries behind a batch of one; a webhook created, switched, deleted; answers that are late or lost; a failed call and a crash. |
| `tasks` | `TypeOK`, `OneJobPerRun`, `DueIsRun` | Two tasks, two expressions of which one runs out, administrators, a failed call and a crash. |
| `tasks_unmarked` | `ExecutionIsMarked`, violated | An expression with a year: after its last time the job is enqueued again every minute. |
| `library` | `TypeOK`, `OneFilePerFormat`, `ProgressIsOfItsBook`, `ImportAddsUp`, `BooksAreFound`, `FilesOutliveRows`, `MergeKeepsReaders`, `ConfirmedTagsSurvive` | Any two overlapping requests of an administrator and a reader, statement by statement, with the tasks they spawn, a failed call and a crash. |
| `merge_exec` | `ExecKeepsReaders`, violated | With `force`, a reader of the target alone loses the position on a format that is replaced. |
| `accounts` | `TypeOK`, `SpentOnce`, `LocksHaveFailures`, `OneSetOfCodes` | Any two overlapping requests on an empty and on an inhabited server, with and without a directory, with a failed statement. |
| `kobo` | `TypeOK`, `NothingMissed`, `OnlyOwnShelves` | Two requests of a Kobo or of two users on it, page by page, while books change, come from Calibre, default libraries change, and one answer is given up. |
| `algorithms` | `RunsAsMeant`, `TextKept`, `WalksSeeAll`, `ImportsAddUp` | Day-of-week fields, chapters cut into chunks, walks through listings and feeds, imports of two Calibre libraries. |

**Bounds.** In the job queue `MaxJobs = 2` lets one row block, follow or outlive the other, which is all that the properties relate: each speaks
of one row, or of two. In `llm_live` `MaxConcurrent = 2` lets both run at once (the program has 3), and with one
book they always meet; `llm_jobs` has one permit and every request instead, which together with two permits would exceed what is practical (the properties of `llm_jobs` are proved for any number of permits). One failed call and one crash in the same behaviour, at any step, give each of the error paths and
each pair of them that mixes both kinds; the theorems below need no such bound. `PoolSize = 1` means that a
connection without foreign keys is every connection; the theorems hold for pools of any size. `BatchLimit = 1` (in the program 50)
makes the oldest delivery stand before the other; three attempts are the program's own. In `tasks` the clock has four
values, so that a row becomes due, is marked and becomes due again; `MaxCount = 4` is more than the three
dispatches that a failure and a crash can excuse.

In `library` two requests overlap, for the hazards listed are of two actors; three books let a merge's two and a bystander meet. The initial database has what merges must tell apart: a format both books
have and one only one has, readers of either book and of both, a confirmed and a suggested tag, a shelf with both, a blocked tag. `merge_exec` needs one request. In `accounts` `MaxAttempts = 2` makes
a lock reachable by two failures, one of which the initial database may hold. In `kobo` pages of one book (100 in the program) make every sync of the two books one of several pages; `MaxNow = 6` leaves three readings of the
clock after the initial state, enough for an edit during a sync and a sync after it; one change (of a book, of a default library or of a row) and one answer given up; the two users have different home libraries, so that a row taken over is for other books. In `algorithms` two items show
every interaction there is between items of a cron field, which are treated one by one; chapters have up to five lines, more than the three that make a procedure, of up to four words with windows of three, so that a paragraph of several lines has several
windows; three books are listed on pages of one or two, with one edit during a walk; three runs of the migration with two failures or crashes.

Deadlock is checked everywhere but in `accounts`, `kobo` and `algorithms`, where all requests of a behaviour may be over (or a text cut, a field full) and nothing is left to happen. In `library` that state is an
explicit step (`Rest`), so that a request that hangs would be found.

**Fairness.** `llm_live` assumes weak fairness of the runner's steps (tokio polls the task, its interval ticks), of
each task's steps (every request to a model has a timeout: `backend/llm/chat.rs:81`, `backend/llm/embeddings.rs:31`),
of the restart (`restart: unless-stopped`, `src/docker/docker-compose.production.yml:4`) and of the refresh, which the scheduler does
after each tick. No fairness is assumed of callers, administrators, failures or crashes. `webhooks` assumes it of `deliver_pending` (a
POST times out after 10 seconds), of the passing of time and of the restart; `tasks` of the scheduler's pass and of the
restart. Weak fairness is enough everywhere: each step waited for stays enabled until it is taken. `EveryJobEnds` says "unless
a database call failed": when `mark_job_failed` itself fails, the code ignores it and the row stays running until the next start.
The other runs check safety and need none.

**What the properties excuse.** Some hold only with an exception, which the formula names: `RunsAsMeant` leaves out ranges that end with 7, `NothingMissed` speaks of Kobos that are calm, `StatusIsHonest` and `NoPostOnceHeard` of answers that were heard, `TextKept` names the lines that are dropped and leaves the length of heading chunks open,
`WalksSeeAll` leaves out walks whose pages changed under them and tags and languages the two foldings treat differently, `FilesOutliveRows` leaves out `RemoveUpload`, `ImportsAddUp` books whose number another library has. Each exception
is behaviour of the code, listed below.

### What the runs found

Four disagreements between code and text have a run (`findings` in `PROJECT.json`): two active organize rows,
a job that is final by then and is cancelled, a run-out expression that is enqueued for ever, and readers who lose their position in a forced merge. Met while modelling, without a run of their own:

Jobs, webhooks, tasks:
- the gauge of running jobs is negative after a start with running rows, until the refresh (`job_runner.rs:55,67`);
- a job cancelled while it runs is marked completed or failed by its own task (`queries/llm.rs:295`);
- an organize task classifies a book again that was classified after its selection (`job_runner.rs:12,272`);
- `enqueue_event` stops at a webhook deleted since its SELECT, and the active subscribers after it get nothing, against
  "for each active subscriber" (`webhooks.rs:8,151`);
- a receiver that accepts a delivery after the timeout of 10 seconds, or whose answer is lost, gets it again, up to three times, and the row then says failed (`webhooks.rs:57`, `:324`);
- an expression changed during a pass gets its next run from the old one (`scheduler.rs:218`);
- a day range that ends with 7 is refused or misread: `0-7` becomes `1-1` and runs on Sundays only (`scheduler.rs:11,17,176`).

Library:
- an upload whose rows are committed but cannot be read back deletes the file it stored (`book_insert.rs:128`, against `:25`);
- deleting a book leaves its cover files; a merged author's photo stays; a cover whose replacement fails half way loses the files it had while the row keeps `has_cover`;
- `delete_book` reads the paths before its transaction, so a file that a merge moves in between stays;
- two uploads with one ISBN both pass `has_duplicate_isbn`, which also does not see the types `isbn_10` and `isbn_13` that applied metadata writes;
- `set_read` and `set_archived` that overlap lose each other's flag; so do two patches of a book, and two of a profile;
- `apply-metadata`, bulk edits and `merge_exec` do not update the search index; an index task that runs after a removal leaves a ghost;
- `merge_books` drops the duplicate's annotations, custom values and collections, `merge_exec` its tags, identifiers, authors and states; its strategy `max` keeps the source's location with the target's percentage;
- a position saved between the snapshot of `merge_exec` (`books_admin.rs:201`) and its transaction is overwritten; its renaming expects `{storage}/{book_id}.{fmt}`, which no upload writes;
- a custom column that takes several values and is not of text stores its list as text, which `decode_custom_value` does not read: the value is gone when read back (`queries/books.rs:2526`, `:2490`);
- merging or deleting a tag cascades to its restrictions, so that a blocked book becomes visible;
- `rename_tag` asks for other names without case, the key is with case;
- a Goodreads rating out of range fails the whole import; a crash leaves an import "running"; of two imports that create one shelf the second fails.

Accounts:
- two first registrations may both create an administrator (`auth.rs:211`); the first user of an empty server who comes by directory, identity or proxy is no administrator, and registration is then closed;
- two requests with one refresh token both get successors (`auth.rs:703`), a failure after the revocation loses the session, and a refresh that overlaps a logout survives it;
- `mark_failed_login` counts concurrent failures once, and refused directory passwords not at all;
- a second setup that overlaps a confirmation enables a secret nobody confirmed (against `totp.rs:28-30`); disabling that overlaps it enables a factor without a secret;
- an inactive user that is created is active between two statements; the demand for a new password is stored and asked nowhere;
- an OAuth callback that fails between user and account leaves a user whose next callback fails; two callbacks that link one identity re-point it;
- `update_user` may take the role of the last administrator.

Kobo:
- a sync takes its token after it has read the pages (`kobo.rs:473`, against `:458-459`), so that a change in between is missed, as is one that read the clock before and commits after;
- pages by OFFSET skip books that move to the end (`queries/kobo.rs:336`); a lost answer loses its changes (`kobo.rs:475`); formats moved by a merge do not touch `last_modified`; a deleted book is never reported;
- a sync that began for a Kobo's old user writes its token, by the row's id alone, into the row that another user has claimed meanwhile, and whose token was just reset (`queries/kobo.rs:173`, against `:15-16`); the new user's next sync then leaves out what is older;
- a book that `xs-migrate` brings has Calibre's `last_modified` (`src/xs-migrate/src/import/pipeline.rs:195`): a Kobo whose token is younger is never sent it, unless the book is edited;
- a user whose default library is changed keeps the token of the old one (`queries/auth.rs:328`): of the new library only what changes later is sent;
- a late Kobo overwrites newer progress (`kobo.rs:808`).

Listings, search, chunks, migration:
- the next link of a feed of read or unread books carries no token, and the feed ends at 100; `/opds/new` and `/opds/search` link to a second page that is the first again; the entries of `/opds/discover` lead nowhere;
- names are folded by Rust in one place and by SQLite in another: a tag or a language with a non-ASCII capital lists no books though its entry counts some (`queries/books.rs:1946`, `:1960`);
- `GET /search` counts the hits of all libraries and shows those of the caller's own, so a page may be short or empty (`search.rs:248`); so may a page of a shelf (`queries/shelves.rs:218`);
- the history of downloads counts rows of deleted books, which its pages leave out (`queries/download_history.rs:55`);
- the query of `search_chunks_semantic` (`book_chunks.rs:216-260`) has a placeholder where SQLite takes none; its error is swallowed and chunk search is by words only;
- the search index keeps the old name of an author or a tag that is renamed (`0002_fts.sql`);
- after an empty line the chunker drops a heading, a short run of numbered lines and a recipe's title, against "every heading" (`chunker.rs:12-14`); chunk numbers begin anew in each chapter, against "assigned globally" (`chunker.rs:186`); a heading of any length is one chunk, whatever `target_size` is;
- entries of a second Calibre library with numbers of the first are skipped as duplicates; files copied for an entry that fails stay.

## 5. Proofs

`LlmJobsProofs`, `WebhookDeliveryProofs`, `ScheduledTasksProofs`, `LibraryProofs`, `AccountsProofs`, `KoboSyncProofs` and `AlgorithmsProofs` prove, for every value of
the constants, all that the passing runs check of safety. What they assume of the constants are the assumptions the modules declare, and TLC evaluates them in the runs:

- sizes and bounds are natural numbers (`SizesAssumption`, `BoundsAssumption`, `AttemptsAssumption`, `KoboBoundsAssumption`), positions are integers (`PositionsAssumption`, clamped by the code);
- the inputs are of the form a parsed request has: `NoBookAssumption` (NULL is no book), `RequestsAssumption`, `CronsAssumption` (an expression names a set of times),
  `ProfilesAssumption`, `ChangesAssumption`, `PatchesAssumption`, `TagItemsAssumption`, `ImportsAssumption`;
- requests are numbered (`CallsAssumption` and its like), and the rows they insert have new numbers (`NewBooksAssumption`), as UUIDs are new;
- the initial database obeys the schema (`LibraryDbAssumption`, `AccountDbsAssumption`, `KoboDbsAssumption`: here also that its stamps are of the past and its books are finitely many), the entries of a Calibre library have
  different numbers (`LibrariesAssumption`: they are keys there), ids of books are ordered and NULL is none of them (`BooksAssumption`),
  names are ordered and their foldings are names (`NamesAssumption`), books have names that are not empty, tags that there are, and a time and a rating (`KindsAssumption`), a shelf has a book once (`ListsAssumption`), a line has a number of words, and none if
  and only if it is blank (`AlphabetsAssumption`), administrators and downloaders are users, and no format of a book is
  called as a cover is (`FilesAssumption`).

**LlmJobs.** `TypeCorrect` is inductive as it stands, because `RowsOK` ties the rows that are there to `inserted`: an insertion
writes a row that was absent. `OneActiveCorrect` and `FinishedCorrect` need only what a step can do to the rows: `StepOfRows` shows
that every step is a `RowStep` (insert unless active, return running rows to pending, or move statuses without
reviving any), and both properties follow from that alone. `RunningHasTaskCorrect`, `NoDetachedTaskCorrect` and `EventOnceCorrect` need
the strengthening `TaskInv`, which ties tasks, rows and events together: the row of a task has been claimed and is not pending,
a job with a task has no event yet, a task about to emit has a row that was marked completed (or cancelled or deleted since), and a process that is down has no tasks. `CallersAreOutside` disposes of all callers at once by showing that they touch no task.
`PermitsCorrect` counts live tasks with the library's facts on cardinalities.
`BoardImplemented` is the refinement without its fairness: every step of `LlmJobs` is a step of `JobBoard` or leaves the board as it is. What takes an argument is that an insertion finds
its key free, that the claim is of the oldest waiting row, and that a board's jobs are returned only when no process runs them. `OneWorkerCorrect` assumes that nobody cancels running jobs or deletes books
(as `llm_live`, whose requests are uploads and withdrawals): `admin_task_cancel` marks a running row cancelled, after which the guard of the insertion sees no active row while the task still works. `WorkersRun` says that a task at work has a running row; with `OneActivePerBook` this leaves
one task a book.

**WebhookDelivery.** `BatchIsCurrent` is what makes the rest work: only the scheduler marks a delivery, so the
copy it read stays current (inductive together with `TypeOK` and `BatchInserted`: rows of the batch were inserted). Types in
turn depend on it, because `attempts` stays below its limit only if the limit computed from the copy is that of the row. `FinalIsFinalCorrect` follows in one step. For `StatusHonest`, `PostsCounted`
and `NoPostOnceHeardCorrect` each row has a `Faithful` invariant: its status agrees with the answers that were heard, unless a crash or a failed call lost one, and its POSTs are bounded by its attempts, the failures so far,
and one for a POST that is under way.

**ScheduledTasks.** `TypeCorrect` is inductive as it stands. `OneJobCorrect` rests on `CountInv`, which adds two facts about the pass:
`ReadIsKnown` says that the copy of a row `run_scheduled_task` works from is the row's, unless the row was changed or deleted after `ReadDue`, and
`CountsExcused` that the jobs enqueued for a row's next run exceed one only by the failures and crashes so far, by one more between `Dispatch` and `MarkRan`,
or without bound when the expression names no later time (the finding of `tasks_unmarked`).

**Library.** `Inv` says that the tables obey the schema and every position is on a file of its book (`DbOK`), that each request under way holds what its stage needs
(`CallsOK`: `Shape` is what it was asked, `Bound` what it has read and may still rely on), and that books to come (`Unborn`) have left no trace yet. `ProgressIsOfItsBook` is not inductive by itself because requests read a
format, wait, and write a position on it: `Tied` records what remains true of a format that was a book's while anything else happens, and it remains true because every query is `Steady`, that is, it takes a file away
from a book only together with the book. So the proof has three layers: what each query of `LibraryTables` and `LibraryMerge` does to the tables (`Keeps`), what each
step of a request does (`Plain` for those that insert no book and count no import, `Moves` for all), and then the theorems. The two merges rest on `MergeBooksKeeps` and `MergeExecKeeps`: a merge may leave positions on the
duplicate's files in between, and only the deletion at its end makes the tables right again. `FilesCorrect` shows
that every step spares the files with a row (`Spares`). `BooksFound` needs `Found`, which is about states in which requests are under way: a book is indexed, or a task or an upload is going to have it indexed. `ImportsCorrect` needs `Counts`: rows left, matched
and unmatched add up at every stage of an import. `TagsCorrect` follows the confirmed tags through every statement and `ReadersCorrect` the positions through the statements of `merge_books` (`Further`).

**Accounts.** `DbOK` holds the constraints and `LocksHaveFailures` and `OneSetOfCodes`; each statement keeps it, whatever the request read before. `SpentOnce` compares pairs of sessions, and is inductive only with `Claims`: what a
session was got for is spent and stays so (`Spent`: a pending factor is deleted, a code or a link is marked, and none of their numbers comes back), and a request that got hold of a link holds something that is of no session and of no other request.

**KoboSync.** `TypeCorrect` needs `CallsOK` (what a request under way has read), `EditOK` (one edit at a time, of a book that is not there yet if it is new). `OnlyOwnShelves` is about
requests that looked up a shelf and change it later: `TagsOK` says that the shelf is still that user's or gone for good, because its number is not used again.

`NothingMissed` speaks of rows, tokens and what a Kobo holds, which are related only through the requests under way: it is inductive with `SyncInv` (and `Inv`). Of every state that says which stages read what (`SyncsOK`), that a
Kobo waits for one request (`OneWaits`), that a row was made by a request that is over (`RowsOK`), that nothing is stamped later than the clock (`ClockOK`) and no two books alike (`TimesDiffer`). Of each calm Kobo it says `Reliable`: what its sync has got is as
it is in the tables (`GotIsTrue`), all that is due on the pages read so far has been got (`GotIsDue`), the row and the token the sync began with are still the row's (`RowIsIts`), the library it reads is still its user's, and what a stored token promises is on the Kobo (`HoldsUpTo`).
A page by OFFSET is right because the place of a book is the number of books before it, so that every place has one book (`BooksAreInOrder`, `PageOfIs`). Every step either leaves a Kobo not calm or keeps all this, and `MovesKeep` disposes of the
requests of other Kobos and of other kinds. The proof found an excuse that the instance with one library for all users had hidden: a row that is taken over while a sync of its old owner runs (`TakenOver`); the instance has two libraries since.

**Algorithms.** `RunsAsMeantCorrect` is about fields of any number of items: a field is accepted and runs item by item, and for one item the days are compared case by case (`StarRunsAsMeant`, `SpanRunsAsMeant`). `ImportsAddUp` needs `ImportInv`: a run skips what
the target has by number, so the numbers of what is imported are unique, from whatever library; each entry that a run has passed is in one of its counts (`EntryPast`, `EntryTallied`); and the files copied so far are those of the entry under way, whose book is not there yet.

`WalksSeeAllCorrect` first shows that a listing is a sequence without repetitions: `Comes`, the order of the query with its tie-breaks, is a strict total order of the books (`ComesInOrder`), whose places are numbers of predecessors (`ListingOK`). Its invariant `ListingInv` speaks of the
listing as it is now, as long as the walk is steady: what the reader has seen is a subsequence of the part that is passed and has all of it that was listed throughout (`Seen`); what is left of the page comes next (`ComingNext`); if the page has no next link, everything listed throughout
is on it or before (`EndsLast`); and until the first edit the entry's count is that of the listing (`ClaimHolds`, with `EntryCounts`, which compares the query behind an entry with the query behind its feed through the two foldings). An edit keeps this because a steady walk is one
whose start of the listing is the same before and after (`SameStart`). The attempt to prove it showed that languages need the excuse that tags have; the instance has such a language since.

`TextKeptCorrect` rests on `ChunkInv`. A chunk is a passage, a nonempty sequence of words in their order (`WordsOfPassage`, `PartOf`, `JoinedPassage`); each follows the one before it, and the chunk to come follows the last (`Continues`), because what is repeated is the end of that
(`TailsFollow`, `MoreFollows`) or nothing (`LaterFollows`). Between two windows the last chunk is the window before, which ends `Overlap` words after `start` (`WindowOK`), so that windows overlap as agreed and reach the end of the paragraph. And each line that was read has all
its words in a chunk or in the chunk to come, or is one of the lines that are dropped and has none there (`LinesKept`, carried over each step by `KeptOn`). The attempt to prove it showed that headings have no bound on their length; the instance has a long one since.

**DataLemmas** has what the provers do not know about numbers and orders: induction in the form of sets (`NatSetInduction`), the least of some numbers (`LeastOne`), and that every rank in a finite set of numbers is somebody's (`Ranks`), which the lists of authors that
merges and edits put together need (`ItemsAtPlaces`). From these it has that a finite set with a strict order is listed by `InOrder`, everybody once and in that order (`InOrderLists`), and that `Kept` is the subsequence of what is in a set (`KeptLists`), on which listings, pages and the words of a chapter rest.

**Model-checked only.** Liveness, which needs fairness and ENABLED and is beyond the provers: `EveryJobEnds`, `EveryDeliveryEnds`, `DueIsRun`, that the gauges converge (`GaugesConverge`), and the fairness of the board in `ImplementsFairBoard`, whose steps are proved in `BoardImplemented`.

## 6. Not modelled

`PROJECT.json` names the reason for each part. In short: semantic search, memory chunks and the graph are distances and ranks of two engines; LLM features are
calls that succeed or fail; extraction, conversion and metadata providers are parsing and I/O; the mobile app's copy depends on its own clock and is read back by no code; web app, clients and the MCP
server present what the backend answers; updater, watch folder and the server frame have no state of their own.

Foreign keys are enforced on a connection unless `admin_cover_regenerate` left it without (`api/admin/mod.rs:787`). `LlmJobs` has such connections; the library, the accounts and the Kobo modules do not, so their type invariants,
and what rests on them, hold as long as no administrator's request has done that.

Of the modelled parts, left out are: the contents of embeddings, tags, prompts and texts; hashing and signatures, taken as sound; two cover regenerations at the same time; several server processes on one
database, which `job_runner.rs:19` excludes; clients of S3 and Google Drive behind the four calls of the storage; the cover cache of the OPDS feeds, which is never invalidated; conversion and sending by e-mail; and a panic in a
task, which the code does not provoke and which would leave a running row until the next start.
