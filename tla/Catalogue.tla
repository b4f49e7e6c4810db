------------------------------ MODULE Catalogue ------------------------------
(* A reader goes through a listing of books or an OPDS feed page by page while
   books change (src/backend/src/api/opds.rs, opds_enhancements.rs, list_books of
   db/queries/books.rs, db/queries/opds.rs), a shelf or the history of downloads, or
   searches (api/search.rs, search/fts5.rs); an administrator goes through authors and tags.

   The catalogue is what the queries see of each book. A page is answered by a
   count, a read of the page and, in OPDS, a read of every book of it. Names are
   values with the foldings SQL and the server put on them, trimmed when they are
   written and when they are asked for. Books are found
   by their titles' words only; authors, series and tags without books stay.
   Covers, downloads, statistics and the wording of entries are left out. *)
EXTENDS Integers, FiniteSets, SequencesExt, Orders

CONSTANTS Books,                             \* ids, numbers in their order
          Kinds,                             \* what may be known of a book
          Tags, Shelves,                     \* Shelves: name -> [public, books]
          Downloads,                         \* the books a reader has downloaded, in their order
          Blocked, Allowed,                  \* user -> tags: user_tag_restrictions
          Lists,                             \* what callers of GET /books ask for
          Rank, SqlLower, RustLower, Initial,   \* of names
          Searches,                          \* what callers of GET /search ask for
          PageMax, PageDefault, SearchDefault,   \* 100, 30 and 24
          Sizes,                             \* bound: page sizes asked for
          MaxEdits                           \* bound: changes during a walk

ASSUME CatalogueAssumption ==
    /\ Books \subseteq Nat /\ Sizes \subseteq Int /\ MaxEdits \in Nat
    /\ PageMax \in Nat \ {0} /\ PageDefault \in 1..PageMax /\ SearchDefault \in 1..PageMax

Nobody == ""         \* an option that is not given

\* No two names have one place in their order, and foldings make names of names.
Names == DOMAIN Rank
ASSUME NamesAssumption ==
    /\ IsFiniteSet(Names) /\ Nobody \in Names /\ Tags \cup DOMAIN Shelves \subseteq Names
    /\ Rank \in [Names -> 1..Cardinality(Names)] /\ \A m, n \in Names : Rank[m] = Rank[n] => m = n
    /\ {SqlLower, RustLower} \subseteq [Names -> Names] /\ SqlLower[Nobody] = Nobody

\* The columns of books: a book has the tags there are, and no name is empty.
ASSUME KindsAssumption ==
    \A k \in Kinds :
        /\ {k.title, k.series, k.language, k.publisher} \cup k.authors \cup k.formats \subseteq Names
        /\ k.tags \subseteq Tags /\ Nobody \notin k.authors \cup k.tags \cup k.formats
        /\ k.created \in Int /\ k.rating \in 0..10

\* A book is on a shelf once.
ASSUME ListsAssumption ==
    /\ Downloads \in Seq(Books)
    /\ \A s \in DOMAIN Shelves : /\ Shelves[s].books \in Seq(Books)
                                 /\ \A i, j \in DOMAIN Shelves[s].books :
                                        Shelves[s].books[i] = Shelves[s].books[j] => i = j

VARIABLES catalog,   \* book -> kind
          walk       \* the reader's

catalogueVars == <<catalog, walk>>

Idle == [phase |-> "idle"]
CatalogueInit == catalog = << >> /\ walk = Idle

-----------------------------------------------------------------------------
(* list_books *)

NoParams == [q |-> Nobody, author |-> Nobody, series |-> Nobody, tags |-> {}, language |-> Nobody,
             format |-> Nobody, publisher |-> Nobody, bucket |-> 0, user |-> Nobody, archived |-> FALSE,
             read |-> BOOLEAN, library |-> Nobody, sort |-> "title", order |-> Nobody]

\* user_tag_restrictions: a blocked tag wins, and a list of allowed ones is exhaustive.
Permitted(user, k) == /\ k.tags \cap Blocked[user] = {}
                      /\ Allowed[user] = {} \/ k.tags \cap Allowed[user] # {}

\* apply_list_filters. SQL folds the row, the server what it was asked for,
\* except a publisher, which SQL folds as well.
Matches(p, k) ==
    /\ p.q \in {Nobody, k.title}
    /\ p.author = Nobody \/ p.author \in k.authors
    /\ p.series \in {Nobody, k.series}
    /\ p.tags = {} \/ \E t \in k.tags : SqlLower[t] \in {RustLower[s] : s \in p.tags}
    /\ p.language = Nobody \/ SqlLower[k.language] = RustLower[p.language]
    /\ p.format = Nobody \/ p.format \in k.formats
    /\ p.publisher = Nobody \/ SqlLower[k.publisher] = SqlLower[p.publisher]
    /\ p.bucket \in 1..5 => k.rating \in (p.bucket - 1) * 2 + 1..p.bucket * 2
    /\ p.user # Nobody => /\ p.archived \/ p.user \notin k.archived
                          /\ (p.user \in k.read) \in p.read
                          /\ Permitted(p.user, k)
    /\ p.library \in {Nobody, k.library}

\* normalize_sort, normalize_order
SortKey(p, c, b) == CASE p.sort = "author" -> IF c[b].authors = {} THEN 0 ELSE Min({Rank[a] : a \in c[b].authors})
                      [] p.sort = "added"  -> c[b].created
                      [] p.sort = "rating" -> c[b].rating
                      [] OTHER             -> Rank[c[b].title]
Descending(p) == p.order = "desc" \/ (p.order # "asc" /\ p.sort \in {"added", "rating"})

Comes(p, c, b, d) == LET x == SortKey(p, c, b)
                         y == SortKey(p, c, d)
                     IN IF x = y THEN b < d ELSE IF Descending(p) THEN y < x ELSE x < y

\* Some of the books, in this order
Listed(p, c, some) ==
    LET found == {b \in DOMAIN c : Matches(p, c[b]) /\ b \in some}
    IN InOrder([b \in found |-> {d \in found : Comes(p, c, d, b)}])

-----------------------------------------------------------------------------
(* Navigation feeds: keys and how many books each has *)

\* The lists of the administration
Managed == {"admin/authors", "admin/tags"}

\* What a book is counted under
Under(path, k) ==
    CASE path \in {"authors", "authors/letter", "admin/authors"} -> k.authors
      [] path \in {"series", "series/letter"}         -> {k.series} \ {Nobody}
      [] path = "publishers"                          -> {SqlLower[k.publisher]} \ {Nobody}
      [] path = "languages"                           -> {SqlLower[k.language]} \ {Nobody}
      [] path = "ratings"                             -> IF k.rating = 0 THEN {} ELSE {(k.rating + 1) \div 2}
      [] path \in {"category", "category/letter", "admin/tags"} -> k.tags
      [] path = "formats"                             -> k.formats
      [] OTHER                                        -> {}

CountUnder(path, c, key) == Cardinality({b \in DOMAIN c : key \in Under(path, c[b])})

\* list_admin_authors: authors and tags are listed without books too.
Authors == UNION {k.authors : k \in Kinds}
Keys(path, c) ==
    CASE path \in {"category", "category/letter", "admin/tags"} -> Tags
      [] path = "admin/authors"                   -> Authors
      [] path \in {"shelf", "discover"}           -> {s \in DOMAIN Shelves : Shelves[s].public}
      [] OTHER                                    -> UNION {Under(path, c[b]) : b \in DOMAIN c}

\* A publisher's entry is the first spelling of those that fold to it.
Shown(path, c, key) ==
    IF path # "publishers" THEN key
    ELSE LET spelled == {c[b].publisher : b \in {d \in DOMAIN c : key \in Under(path, c[d])}}
         IN CHOOSE n \in spelled : \A o \in spelled : Rank[n] <= Rank[o]

\* list_tags_with_counts: ORDER BY book_count DESC, name
ByCount(c, tag) == Rank[tag] - CountUnder("admin/tags", c, tag) * Cardinality(DOMAIN Rank)

KeyRank(path, c, key) == CASE path = "ratings"    -> key
                           [] path = "admin/tags" -> ByCount(c, key)
                           [] OTHER               -> Rank[key]

\* A letter in OPDS, or what administrators look for, folded by SQL on both sides
Chosen(f, key) == \/ f.letter = Nobody
                  \/ f.path \notin Managed /\ f.letter = Initial[key]
                  \/ f.path \in Managed /\ SqlLower[f.letter] = SqlLower[key]

EntriesOf(f, c) ==
    LET keys == {k \in Keys(f.path, c) : Chosen(f, k)}
        sorted == InOrder([k \in keys |-> {l \in keys : KeyRank(f.path, c, l) < KeyRank(f.path, c, k)}])
    IN [i \in 1..Len(sorted) |-> [key |-> Shown(f.path, c, sorted[i]),
                                  count |-> CountUnder(f.path, c, sorted[i])]]

-----------------------------------------------------------------------------
(* Feeds *)

BookFeed(path, params) == [kind |-> "books", path |-> path, params |-> params]
EntryFeed(path, letter) == [kind |-> "entries", path |-> path, letter |-> letter]
ShelfFeed(name) == [kind |-> "shelf", path |-> "shelf/id", name |-> name]

AuthorBooks(a)    == BookFeed("authors/id", [NoParams EXCEPT !.author = a])
SeriesBooks(s)    == BookFeed("series/id", [NoParams EXCEPT !.series = s])
PublisherBooks(p) == BookFeed("publishers/id", [NoParams EXCEPT !.publisher = p])
LanguageBooks(l)  == BookFeed("languages/id", [NoParams EXCEPT !.language = l])
RatingBooks(r)    == BookFeed("ratings/id", [NoParams EXCEPT !.bucket = r])
CategoryBooks(t)  == BookFeed("category/id", [NoParams EXCEPT !.tags = {t}])
FormatBooks(f)    == BookFeed("formats/id", [NoParams EXCEPT !.format = f])
AllBooks          == BookFeed("catalog", NoParams)
SearchBooks(q)    == BookFeed("search", [NoParams EXCEPT !.q = q])
SearchPath(q)     == BookFeed("search/query", [NoParams EXCEPT !.q = q])
NewBooks          == BookFeed("new", [NoParams EXCEPT !.sort = "added", !.order = "desc"])
ReadBooks(u)      == BookFeed("readbooks", [NoParams EXCEPT !.user = u, !.read = {TRUE}])
UnreadBooks(u)    == BookFeed("unreadbooks", [NoParams EXCEPT !.user = u, !.read = {FALSE}])
ListBooks(p)      == BookFeed("list", p)

\* GET /search: filters, the books of a collection, and the caller's library
FullText(s) == [kind |-> "hits", path |-> "fulltext", params |-> s.params, among |-> s.among, library |-> s.library]

\* GET /shelves/:id/books, limited like a search, and the history of downloads
ShelfBooks(name, library) == [kind |-> "shelved", path |-> "shelf/books", name |-> name, library |-> library]
History == [kind |-> "history", path |-> "downloads"]

\* What an entry of a navigation feed links to
FeedOf(path, key) ==
    CASE path \in {"authors", "authors/letter"}   -> AuthorBooks(key)
      [] path \in {"series", "series/letter"}     -> SeriesBooks(key)
      [] path = "publishers"                      -> PublisherBooks(key)
      [] path = "languages"                       -> LanguageBooks(key)
      [] path = "ratings"                         -> RatingBooks(key)
      [] path \in {"category", "category/letter"} -> CategoryBooks(key)
      [] path = "formats"                         -> FormatBooks(key)
      [] OTHER                                    -> ShelfFeed(key)

Titles == {k.title : k \in Kinds}
Letters == {Initial[n] : n \in DOMAIN Initial}
Feeds == {AllBooks, NewBooks} \cup {SearchBooks(q) : q \in Titles} \cup {SearchPath(q) : q \in Titles}
         \cup {ReadBooks(u) : u \in DOMAIN Blocked} \cup {UnreadBooks(u) : u \in DOMAIN Blocked}
         \cup {ListBooks(p) : p \in Lists} \cup {FullText(s) : s \in Searches} \cup {ShelfFeed(s) : s \in DOMAIN Shelves}
         \cup {ShelfBooks(s, k.library) : s \in DOMAIN Shelves, k \in Kinds} \cup {History}
         \cup {EntryFeed("admin/tags", q) : q \in Tags \cup {Nobody}} \cup {EntryFeed("admin/authors", Nobody)}
         \cup {EntryFeed(path, Nobody) : path \in {"authors", "series", "publishers", "languages", "ratings",
                                                   "category", "formats", "shelf", "discover"}}
         \cup {EntryFeed(path, l) : path \in {"authors/letter", "series/letter", "category/letter"}, l \in Letters}

Listing(f, c) == CASE f.kind = "books"   -> Listed(f.params, c, DOMAIN c)
                   [] f.kind = "hits"    -> Listed(f.params, c, f.among)
                   [] f.kind \in {"shelf", "shelved"} -> Kept(Shelves[f.name].books, DOMAIN c)
                   [] f.kind = "history" -> Kept([i \in DOMAIN Downloads |-> <<i, Downloads[i]>>],
                                                 (DOMAIN Downloads) \X (DOMAIN c))
                   [] f.kind = "entries" -> EntriesOf(f, c)

\* What the count of a feed counts: downloads of books that are gone, too
Counted(f, c) == IF f.kind = "history" THEN Len(Downloads) ELSE Len(Listing(f, c))

\* The hits of a search and the books of a shelf are of all libraries, the
\* summaries of the caller's only.
Limited(f) == f.kind \in {"hits", "shelved"}
Summarised(f, c, b) == b \in DOMAIN c /\ c[b].library = f.library
Offered(f, c) == IF Limited(f) THEN {b \in ToSet(Listing(f, c)) : Summarised(f, c, b)} ELSE ToSet(Listing(f, c))

\* Feeds that take a page number
Unpaged == {"new", "search/query", "readbooks", "unreadbooks", "category", "category/letter", "formats", "shelf",
            "discover", "authors/letter", "series/letter"}
Paged(f) == f.path \notin Unpaged

Between(n, low, high) == IF n < low THEN low ELSE IF n > high THEN high ELSE n

\* What a handler makes of the size asked for
HandlerSize(f, asked) ==
    CASE f.path \in {"list", "fulltext"}                            -> asked
      [] f.path \in {"new", "search/query"}                         -> PageDefault
      [] f.path \in {"readbooks", "unreadbooks"}                    -> 2 * PageMax
      [] f.path \in {"category/id", "formats/id"} \/ f.kind = "shelf" -> Between(asked, 1, 2 * PageMax)
      [] OTHER                                                      -> Between(asked, 1, PageMax)

\* clamp_page_size of list_books, and of search_books
ListSize(n) == IF n < 1 THEN PageDefault ELSE IF n > PageMax THEN PageMax ELSE n
\* A feed of entries that takes no page has them all, at most one for a name.
PageSize(f, asked) == CASE f.kind = "books"                  -> ListSize(HandlerSize(f, asked))
                        [] f.kind = "hits" /\ asked = 0      -> SearchDefault
                        [] f.kind = "hits"                   -> Between(asked, 1, PageMax)
                        [] f.kind = "entries" /\ ~Paged(f)   -> Cardinality(DOMAIN Rank)
                        [] OTHER                             -> HandlerSize(f, asked)

\* Mutant: the links go by the size the handler has asked list_books for.
HandlerLinks(f, asked) == HandlerSize(f, asked)

\* build_book_feed: the links go by the size list_books has used.
LinkSize(f, asked) == PageSize(f, asked)

-----------------------------------------------------------------------------
(* The reader *)

Walk(f, asked, claimed) ==
    [phase |-> "asking", feed |-> f, asked |-> asked, page |-> 1, total |-> 0, items |-> << >>, seen |-> << >>,
     more |-> TRUE, edits |-> 0,
     listed |-> Offered(f, catalog),   \* what has been listed from the start of the walk
     steady |-> TRUE,                         \* the pages read so far have not changed
     claimed |-> claimed]                     \* what the entry that led here has counted, or -1

\* Shelves that are not public, stars that do not exist and searches with a
\* negative size are refused.
Found(f, asked) == /\ f.kind = "shelf" => Shelves[f.name].public
                   /\ f.path = "ratings/id" => f.params.bucket \in 1..5
                   /\ f.kind = "hits" => asked >= 0

Open ==
    /\ walk.phase = "idle"
    /\ \E f \in Feeds, asked \in Sizes : Found(f, asked) /\ walk' = Walk(f, asked, -1)
    /\ UNCHANGED catalog

\* The entries of "discover" lead to a route that does not exist, those of the
\* administration to no list of books.
Follow ==
    /\ walk.phase = "done" /\ walk.feed.kind = "entries"
    /\ walk.feed.path \notin Managed \cup {"discover"}
    /\ \E i \in DOMAIN walk.seen, asked \in Sizes :
         walk' = Walk(FeedOf(walk.feed.path, walk.seen[i].key), asked,
                      IF walk.edits = 0 /\ walk.feed.path # "shelf" THEN walk.seen[i].count ELSE -1)
    /\ UNCHANGED catalog

\* The statement that counts; languages, ratings, shelves and feeds of one page have none.
CountsFirst(f) == \/ f.kind \in {"books", "hits", "shelved", "history"}
                  \/ f.path \in {"authors", "series", "publishers"} \cup Managed
CountListed ==
    /\ walk.phase = "asking" /\ CountsFirst(walk.feed)
    /\ walk' = [walk EXCEPT !.phase = "reading", !.total = Counted(walk.feed, catalog)]
    /\ UNCHANGED catalog

Slice(s, page, size) == SubSeq(s, (page - 1) * size + 1, IF page * size < Len(s) THEN page * size ELSE Len(s))

\* The statement that reads the page. OPDS then reads its books one by one.
ReadPage ==
    /\ walk.phase \in {"asking", "reading"}
    /\ walk.phase = "reading" <=> CountsFirst(walk.feed)
    /\ LET f == walk.feed
           all == Listing(f, catalog)
           items == Slice(all, walk.page, PageSize(f, walk.asked))
           fetched == f.path # "list" /\ f.kind \notin {"entries", "history"}
       IN walk' = [walk EXCEPT !.phase = "fetching",
                               !.total = IF CountsFirst(f) THEN @ ELSE IF f.kind = "shelf" THEN Len(items) ELSE Len(all),
                               !.items = IF fetched THEN items ELSE << >>,
                               !.seen = IF fetched THEN @ ELSE @ \o items]
    /\ UNCHANGED catalog

\* list_book_summaries_by_ids, of the whole page in one statement
Summarise ==
    /\ walk.phase = "fetching" /\ Limited(walk.feed) /\ walk.items # << >>
    /\ walk' = [walk EXCEPT !.items = << >>,
                            !.seen = @ \o Kept(walk.items, {b \in DOMAIN catalog : Summarised(walk.feed, catalog, b)})]
    /\ UNCHANGED catalog

\* get_book_by_id: a book that is gone by now has no entry.
FetchBook ==
    /\ walk.phase = "fetching" /\ ~Limited(walk.feed) /\ walk.items # << >>
    /\ walk' = [walk EXCEPT !.items = Tail(@),
                            !.seen = IF Head(walk.items) \in DOMAIN catalog THEN Append(@, Head(walk.items)) ELSE @]
    /\ UNCHANGED catalog

\* push_pagination_links. A shelf has no links: its reader asks until a page is
\* empty. The links of a feed without pages lead nowhere.
HasNext == IF walk.feed.kind = "shelf" THEN walk.total > 0
           ELSE walk.page * LinkSize(walk.feed, walk.asked) < walk.total

Answer ==
    /\ walk.phase = "fetching" /\ walk.items = << >>
    /\ walk' = IF HasNext /\ Paged(walk.feed) THEN [walk EXCEPT !.phase = "asking", !.page = @ + 1]
               ELSE [walk EXCEPT !.phase = "done", !.more = HasNext]
    /\ UNCHANGED catalog

-----------------------------------------------------------------------------
(* Books are added, edited and deleted. *)

\* How much of the listing the reader has got, or is getting
Held == (IF walk.phase = "asking" THEN walk.page - 1 ELSE walk.page)
            * PageSize(walk.feed, walk.asked)
Start(s, n) == SubSeq(s, 1, IF n < Len(s) THEN n ELSE Len(s))

MayEdit == walk.phase # "idle" => walk.edits < MaxEdits
Becomes(c) ==
    /\ catalog' = c
    /\ \/ walk.phase = "idle" /\ UNCHANGED walk
       \/ /\ walk.phase # "idle"
          /\ LET before == Listing(walk.feed, catalog)
                 after  == Listing(walk.feed, c)
             IN walk' = [walk EXCEPT !.edits = @ + 1, !.claimed = -1,
                                     !.listed = @ \cap Offered(walk.feed, c),
                                     !.steady = @ /\ Start(before, Held) = Start(after, Held)]

ChangeBook(b, k) == Becomes([d \in DOMAIN catalog \cup {b} |-> IF d = b THEN k ELSE catalog[d]])
RemoveBook(b) == Becomes([d \in DOMAIN catalog \ {b} |-> catalog[d]])

CatalogueNext ==
    \/ Open \/ Follow
    \/ CountListed \/ ReadPage \/ Summarise \/ FetchBook \/ Answer
    \/ MayEdit /\ \E b \in Books, k \in Kinds : ChangeBook(b, k)
    \/ MayEdit /\ \E b \in DOMAIN catalog : RemoveBook(b)

CatalogueSpec == CatalogueInit /\ [][CatalogueNext]_catalogueVars

-----------------------------------------------------------------------------
(* Properties *)

\* Where the entry and the feed behind it go by the same folding: no other tag
\* differs in case only, and tag and language have no capitals that SQL does not fold.
SameFolding(f) ==
    /\ \A t \in f.params.tags : \A s \in Tags : SqlLower[s] = RustLower[t] <=> s = t
    /\ f.params.language # Nobody => RustLower[f.params.language] = f.params.language

\* A walk whose pages have not changed under it repeats nothing and keeps the
\* order; at its end it has seen all that was listed from its beginning, and, when
\* nothing at all has changed, as many books as the entry it started from counts.
WalksSeeAll ==
    walk.phase # "idle" /\ walk.steady =>
    /\ \A i, j \in 1..Len(walk.seen) : i # j => walk.seen[i] # walk.seen[j]
    /\ \A i, j \in 1..Len(walk.seen) : i < j /\ walk.feed.kind \in {"books", "hits"} =>
         {walk.seen[i], walk.seen[j]} \subseteq DOMAIN catalog
         /\ Comes(walk.feed.params, catalog, walk.seen[i], walk.seen[j])
    /\ walk.phase = "done" /\ ~walk.more =>
         /\ walk.listed \subseteq ToSet(walk.seen)
         /\ walk.claimed # -1 /\ SameFolding(walk.feed) => Len(walk.seen) = walk.claimed
=============================================================================
