-------------------------- MODULE AlgorithmsProofs ---------------------------
(* Proofs about the algorithms: day-of-week fields of any number of items run on
   the days they mean, chapters of any length are cut into chunks that keep their
   text, a reader who pages through a listing or follows a feed sees all that was
   listed throughout, and imports of Calibre libraries of any length add up,
   through any number of runs, failures and deletions.                       *)
EXTENDS Algorithms, DataLemmas

-----------------------------------------------------------------------------
(* Day-of-week fields                                                        *)

LEMMA StarRunsAsMeant ==
    ASSUME NEW s \in Steps
    PROVE  {d - 1 : d \in Every(1, 7, s)} = Every(0, 6, s)
  <1>1. ASSUME NEW d \in 1..7
        PROVE  d - 1 \in 0..6 /\ d - 1 = (d - 1) - 0
    OBVIOUS
  <1>2. ASSUME NEW d \in Every(0, 6, s)
        PROVE  d \in {x - 1 : x \in Every(1, 7, s)}
    <2>1. d \in 0..6 /\ (d - 0) % s = 0
      BY DEF Every
    <2>2. d + 1 \in 1..7 /\ (d + 1) - 1 = d /\ d - 0 = d
      BY <2>1
    <2>3. d + 1 \in Every(1, 7, s)
      BY <2>1, <2>2 DEF Every
    <2> QED BY <2>2, <2>3
  <1>3. ASSUME NEW d \in Every(1, 7, s)
        PROVE  d - 1 \in Every(0, 6, s)
    BY <1>1 DEF Every
  <1> QED BY <1>2, <1>3

LEMMA SpanRunsAsMeant ==
    ASSUME NEW a \in 0..6, NEW b \in 0..6, a <= b, NEW s \in Steps
    PROVE  {d - 1 : d \in Every(a + 1, b + 1, s)} = {d % 7 : d \in Every(a, b, s)}
  <1>1. ASSUME NEW d \in Every(a, b, s)
        PROVE  d % 7 = d /\ d + 1 \in Every(a + 1, b + 1, s) /\ (d + 1) - 1 = d
    <2>1. d \in a..b /\ (d - a) % s = 0 /\ d \in 0..6
      BY DEF Every
    <2>2. (d + 1) - (a + 1) = d - a /\ d + 1 \in (a + 1)..(b + 1) /\ (d + 1) - 1 = d
      BY <2>1
    <2>3. d % 7 = d
      BY <2>1
    <2> QED BY <2>1, <2>2, <2>3 DEF Every
  <1>2. ASSUME NEW d \in Every(a + 1, b + 1, s)
        PROVE  d - 1 \in Every(a, b, s)
    <2>1. d \in (a + 1)..(b + 1) /\ (d - (a + 1)) % s = 0
      BY DEF Every
    <2>2. d - 1 \in a..b /\ (d - 1) - a = d - (a + 1)
      BY <2>1
    <2> QED BY <2>1, <2>2 DEF Every
  <1> QED BY <1>1, <1>2

\* An item that is no range to Sunday is accepted, and runs on the days it means.
LEMMA ItemRunsAsMeant ==
    ASSUME NEW i \in Items, ~ToSunday(i)
    PROVE  /\ ~Refused(NormalizeItem(i))
           /\ {d - 1 : d \in CrateDays(NormalizeItem(i))} = Meant(i)
  <1>1. CASE \E s \in Steps : i = Star(s)
    <2>1. PICK s \in Steps : i = Star(s)
      BY <1>1
    <2> QED BY <2>1, StarRunsAsMeant DEF Star, NormalizeItem, Refused, CrateDays, Meant
  <1>2. CASE \E d \in PosixDays : i = Day(d)
    <2>1. PICK d \in PosixDays : i = Day(d)
      BY <1>2
    <2>2. /\ NormalizeItem(i) = [kind |-> "day", from |-> Renumber(d), to |-> Renumber(d), step |-> 1]
          /\ i.kind = "day" /\ i.from = d /\ i.to = d /\ i.step = 1
      BY <2>1 DEF Day, NormalizeItem
    <2>3. CASE d = 7
      <3>1. Every(1, 1, 1) = {1} /\ Every(7, 7, 1) = {7}
        BY DEF Every
      <3>2. {x - 1 : x \in Every(1, 1, 1)} = {0} /\ {x % 7 : x \in Every(7, 7, 1)} = {0}
        BY <3>1
      <3> QED BY <2>2, <2>3, <3>2 DEF Renumber, Refused, CrateDays, Meant
    <2>4. CASE d # 7
      <3>1. d \in 0..6 /\ Renumber(d) = d + 1 /\ 1 \in Steps
        BY <2>4 DEF PosixDays, Renumber, Steps
      <3>2. d <= d /\ ~(d + 1 > d + 1)
        BY <3>1
      <3>3. {x - 1 : x \in Every(d + 1, d + 1, 1)} = {x % 7 : x \in Every(d, d, 1)}
        BY <3>1, <3>2, SpanRunsAsMeant, Zenon
      <3>4. /\ CrateDays(NormalizeItem(i)) = Every(d + 1, d + 1, 1)
            /\ Meant(i) = {x % 7 : x \in Every(d, d, 1)}
        BY <2>2, <3>1 DEF CrateDays, Meant
      <3>5. ~Refused(NormalizeItem(i))
        <4>1. NormalizeItem(i).from = d + 1 /\ NormalizeItem(i).to = d + 1
          BY <2>2, <3>1
        <4> QED BY <3>2, <4>1 DEF Refused
      <3> QED BY <3>3, <3>4, <3>5
    <2> QED BY <2>3, <2>4
  <1>3. CASE \E a, b \in PosixDays, s \in Steps : a <= b /\ i = Span(a, b, s)
    <2>1. PICK a \in PosixDays, b \in PosixDays, s \in Steps : a <= b /\ i = Span(a, b, s)
      BY <1>3
    <2>2. i.kind = "range" /\ i.from = a /\ i.to = b /\ i.step = s
      BY <2>1 DEF Span
    <2>3. a \in 0..6 /\ b \in 0..6 /\ Renumber(a) = a + 1 /\ Renumber(b) = b + 1
      BY <2>1, <2>2 DEF ToSunday, PosixDays, Renumber
    <2>4. NormalizeItem(i) = [kind |-> "range", from |-> a + 1, to |-> b + 1, step |-> s]
      BY <2>1, <2>3 DEF Span, NormalizeItem
    <2>5. {d - 1 : d \in Every(a + 1, b + 1, s)} = {d % 7 : d \in Every(a, b, s)}
      BY <2>1, <2>3, SpanRunsAsMeant
    <2>6. ~(a + 1 > b + 1)
      BY <2>1, <2>3
    <2> QED BY <2>2, <2>4, <2>5, <2>6 DEF Refused, CrateDays, Meant
  <1> QED BY <1>1, <1>2, <1>3 DEF Items

\* A field without a range to Sunday runs on the days it means (RunsAsMeant),
\* however many items normalize_day_of_week_field has to renumber.
THEOREM RunsAsMeantCorrect == AlgorithmsSpec => []RunsAsMeant
  <1> DEFINE Inv == field \subseteq Items
  <1>1. AlgorithmsInit => Inv
    BY DEF AlgorithmsInit, CronInit
  <1>2. Inv /\ [AlgorithmsNext]_<<field, chunkVars, catalogueVars, importVars>> => Inv'
    BY DEF AlgorithmsNext, CronNext, Write
  <1>3. Inv => RunsAsMeant
    BY ItemRunsAsMeant DEF RunsAsMeant, Accepted, RunsOn
  <1> QED BY <1>1, <1>2, <1>3, PTL DEF AlgorithmsSpec

-----------------------------------------------------------------------------
(* Imports of Calibre libraries                                              *)

Fields == {"phase", "source", "dry", "left", "total", "imported", "skipped", "failures", "copied", "removed"}

\* What is left of a library is its end, after the entries that are past.
Whole(m) == Libraries[m.source]
Past(m) == Len(Whole(m)) - Len(m.left)
Placed(m) ==
    /\ m.source \in DOMAIN Libraries /\ m.total = Len(Whole(m))
    /\ m.left \in Seq(Range(Whole(m))) /\ Past(m) \in Nat
    /\ \A i \in 1..Len(m.left) : m.left[i] = Whole(m)[Past(m) + i]

\* The counts add up, and only entries that are past have failed.
Tallied(m) ==
    /\ m.imported \in Nat /\ m.skipped \in Nat /\ IsFiniteSet(m.failures)
    /\ m.imported + m.skipped + Cardinality(m.failures) + Len(m.left) = m.total
    /\ m.failures \subseteq {Whole(m)[i].id : i \in 1..Past(m)}

\* What has become of an entry that is past
Served(e, m, books) ==
    \/ Available(e) = {}
    \/ e.id \in m.failures \/ e.id \in m.removed
    \/ \E b \in books : b.id = e.id

\* What holds of the entry that is being copied: nobody else brings its number.
Copying(m, books, files) ==
    /\ m.left # << >> /\ ~m.dry /\ Available(Head(m.left)) # {}
    /\ m.copied \subseteq files /\ \A f \in m.copied : f[2] = Head(m.left).id
    /\ \A b \in books : b.id # Head(m.left).id
    /\ m.phase = "inserting" => m.copied # {}

RunOK(m, books, files) ==
    /\ DOMAIN m = Fields /\ m.phase \in {"next", "copying", "inserting", "reported"}
    /\ Placed(m) /\ Tallied(m)
    /\ ~m.dry => \A i \in 1..Past(m) : Served(Whole(m)[i], m, books)
    /\ m.phase = "next" => m.copied = {}
    /\ m.phase \in {"copying", "inserting"} => Copying(m, books, files)
    /\ m.phase = "reported" => m.left = << >>

\* Books have files of their own, and one number each, of whatever library.
BooksOK(books, files) ==
    /\ \A b \in books : /\ b.files # {} /\ b.files \subseteq files /\ \A f \in b.files : f[2] = b.id
                        /\ \A n : <<"calibre_id", n>> \in b.identifiers <=> n = b.id
    /\ \A b, c \in books : b.id = c.id => b = c

ImportInv == BooksOK(imported, stored) /\ (migration = Stopped \/ RunOK(migration, imported, stored))

LEMMA EntryPast ==
    ASSUME NEW m, Placed(m), m.left # << >>,
           NEW n, n.source = m.source, n.total = m.total, n.left = Tail(m.left)
    PROVE  /\ Placed(n) /\ Past(n) = Past(m) + 1 /\ Whole(n) = Whole(m) /\ Len(m.left) = Len(n.left) + 1
           /\ Past(n) \in DOMAIN Whole(m) /\ Head(m.left) = Whole(m)[Past(n)] /\ Len(n.left) \in Nat
  <1> DEFINE S == Range(Whole(m))
  <1>1. m.left \in Seq(S) /\ Len(m.left) \in Nat \ {0} /\ Whole(m) \in Seq(S) /\ Len(Whole(m)) \in Nat
    BY LibrariesAssumption DEF Placed, Whole
  <1> HIDE DEF S
  <1>2. /\ Tail(m.left) \in Seq(S) /\ Len(Tail(m.left)) = Len(m.left) - 1
        /\ \A i \in 1..Len(Tail(m.left)) : Tail(m.left)[i] = m.left[i + 1]
    BY <1>1
  <1>3. Whole(n) = Whole(m)
    BY DEF Whole
  <1>4. Past(n) = Past(m) + 1 /\ Past(m) \in Nat /\ Past(n) \in 1..Len(Whole(m)) /\ Len(n.left) \in Nat
    <2> DEFINE k == Len(Whole(m))
               l == Len(m.left)
    <2>1. k \in Nat /\ l \in Nat \ {0} /\ k - l \in Nat /\ Len(n.left) = l - 1
      BY <1>1, <1>2 DEF Placed, Past
    <2>2. Past(m) = k - l /\ Past(n) = k - (l - 1)
      BY <1>3, <2>1 DEF Past
    <2> HIDE DEF k, l
    <2>3. k - (l - 1) = (k - l) + 1 /\ k - (l - 1) \in 1..k /\ l - 1 \in Nat
      BY <2>1
    <2> QED BY <2>1, <2>2, <2>3 DEF k
  <1>5. Head(m.left) = m.left[1] /\ m.left[1] = Whole(m)[Past(m) + 1]
    BY <1>1 DEF Placed
  <1>6. ASSUME NEW i \in 1..Len(n.left)
        PROVE  n.left[i] = Whole(m)[Past(n) + i]
    <2>1. i + 1 \in 1..Len(m.left) /\ Past(m) + (i + 1) = Past(n) + i
      <3> DEFINE k == Past(m)
                 l == Len(m.left)
      <3>1. k \in Nat /\ l \in Nat /\ i \in 1..(l - 1) /\ Past(n) = k + 1
        BY <1>1, <1>2, <1>4
      <3> HIDE DEF k, l
      <3>2. i + 1 \in 1..l /\ k + (i + 1) = (k + 1) + i
        BY <3>1
      <3> QED BY <3>1, <3>2 DEF k, l
    <2>2. m.left[i + 1] = Whole(m)[Past(m) + (i + 1)]
      BY <2>1 DEF Placed
    <2> QED BY <1>2, <2>1, <2>2
  <1>7. Placed(n)
    BY <1>2, <1>3, <1>4, <1>6 DEF Placed, S
  <1> QED BY <1>1, <1>2, <1>3, <1>4, <1>5, <1>7

\* An entry that is past was counted as imported, as skipped or as failed.
Tally(m, n, e) ==
    \/ n.imported = m.imported + 1 /\ n.skipped = m.skipped /\ n.failures = m.failures
    \/ n.imported = m.imported /\ n.skipped = m.skipped + 1 /\ n.failures = m.failures
    \/ n.imported = m.imported /\ n.skipped = m.skipped /\ n.failures = m.failures \cup {e.id}

LEMMA EntryTallied ==
    ASSUME NEW m, Placed(m), Tallied(m), m.left # << >>,
           NEW n, n.source = m.source, n.total = m.total, n.left = Tail(m.left), Tally(m, n, Head(m.left))
    PROVE  Tallied(n)
  <1> DEFINE e == Head(m.left)
             all == Whole(m)
             c == Cardinality(m.failures)
  <1>1. /\ Past(n) = Past(m) + 1 /\ Whole(n) = all /\ Len(m.left) = Len(n.left) + 1 /\ Len(n.left) \in Nat
        /\ Past(n) \in DOMAIN all /\ e = all[Past(n)] /\ Past(m) \in Nat
    BY EntryPast DEF Placed
  <1>2. c \in Nat /\ IsFiniteSet(m.failures)
    BY FS_CardinalityType DEF Tallied
  <1>3. e.id \notin m.failures
    <2>1. ASSUME NEW i \in 1..Past(m), all[i].id = e.id
          PROVE  FALSE
      <3>1. DOMAIN all = 1..Len(all) /\ Len(all) \in Nat
        BY LibrariesAssumption DEF Placed, Whole
      <3>2. i \in DOMAIN all
        BY <1>1, <3>1
      <3>3. i = Past(n)
        BY <1>1, <2>1, <3>2, LibrariesAssumption DEF Placed, Whole
      <3> QED BY <1>1, <3>3
    <2> QED BY <2>1 DEF Tallied
  <1>4. IsFiniteSet(m.failures \cup {e.id}) /\ Cardinality(m.failures \cup {e.id}) = c + 1
    BY <1>2, <1>3, FS_AddElement
  <1>5. m.failures \cup {e.id} \subseteq {all[i].id : i \in 1..Past(n)}
    BY <1>1 DEF Tallied
  <1>6. m.imported \in Nat /\ m.skipped \in Nat /\ m.imported + m.skipped + c + Len(m.left) = m.total
    BY DEF Tallied
  <1>7. ASSUME NEW x \in Nat, NEW y \in Nat, NEW z \in Nat, NEW l \in Nat, NEW t, x + y + z + (l + 1) = t
        PROVE  (x + 1) + y + z + l = t /\ x + (y + 1) + z + l = t /\ x + y + (z + 1) + l = t
    BY <1>7
  <1>8. /\ m.imported + 1 + m.skipped + c + Len(n.left) = n.total
        /\ m.imported + (m.skipped + 1) + c + Len(n.left) = n.total
        /\ m.imported + m.skipped + (c + 1) + Len(n.left) = n.total
    <2> DEFINE x == m.imported
               y == m.skipped
               l == Len(n.left)
               t == n.total
    <2>1. x \in Nat /\ y \in Nat /\ c \in Nat /\ l \in Nat /\ x + y + c + (l + 1) = t
      BY <1>1, <1>2, <1>6
    <2> HIDE DEF c, x, y, l, t
    <2>2. (x + 1) + y + c + l = t /\ x + (y + 1) + c + l = t /\ x + y + (c + 1) + l = t
      BY <1>7, <2>1
    <2> QED BY <2>2 DEF x, y, l, t
  <1> HIDE DEF e, all
  <1>9. CASE n.imported = m.imported + 1 /\ n.skipped = m.skipped /\ n.failures = m.failures
    <2>1. m.imported + 1 \in Nat
      BY <1>6
    <2> QED BY <1>1, <1>2, <1>5, <1>6, <1>8, <1>9, <2>1 DEF Tallied
  <1>10. CASE n.imported = m.imported /\ n.skipped = m.skipped + 1 /\ n.failures = m.failures
    <2>1. m.skipped + 1 \in Nat
      BY <1>6
    <2> QED BY <1>1, <1>2, <1>5, <1>6, <1>8, <1>10, <2>1 DEF Tallied
  <1>11. CASE n.imported = m.imported /\ n.skipped = m.skipped /\ n.failures = m.failures \cup {e.id}
    BY <1>1, <1>2, <1>4, <1>5, <1>6, <1>8, <1>11 DEF Tallied
  <1> QED BY <1>9, <1>10, <1>11 DEF Tally, e

\* The run goes on with the next entry.
LEMMA NextEntry ==
    ASSUME NEW m, NEW books, NEW files, RunOK(m, books, files), m.left # << >>,
           NEW n, DOMAIN n = Fields, n.phase = "next", n.source = m.source, n.dry = m.dry, n.total = m.total,
           n.left = Tail(m.left), n.copied = {}, n.removed = m.removed, Tally(m, n, Head(m.left)),
           NEW more, books \subseteq more, ~n.dry => Served(Head(m.left), n, more), NEW kept
    PROVE  RunOK(n, more, kept)
  <1>1. Placed(m) /\ Tallied(m)
    BY DEF RunOK
  <1>2. Placed(n) /\ Tallied(n)
    BY <1>1, EntryPast, EntryTallied
  <1>3. Past(n) = Past(m) + 1 /\ Whole(n) = Whole(m) /\ Head(m.left) = Whole(m)[Past(n)] /\ Past(m) \in Nat
    BY <1>1, EntryPast DEF Placed
  <1>4. m.failures \subseteq n.failures
    BY DEF Tally
  <1>5. ASSUME ~n.dry, NEW i \in 1..Past(n)
        PROVE  Served(Whole(n)[i], n, more)
    <2>1. CASE i = Past(n)
      BY <1>3, <1>5, <2>1
    <2>2. CASE i \in 1..Past(m)
      <3>1. Served(Whole(m)[i], m, books)
        BY <1>5, <2>2 DEF RunOK
      <3> QED BY <1>3, <1>4, <3>1 DEF Served
    <2> QED BY <1>3, <2>1, <2>2
  <1> QED BY <1>2, <1>5 DEF RunOK

\* The run stays with its entry.
LEMMA SameEntry ==
    ASSUME NEW m, Placed(m), Tallied(m), NEW n, n.source = m.source, n.total = m.total, n.left = m.left,
           n.imported = m.imported, n.skipped = m.skipped, n.failures = m.failures
    PROVE  Placed(n) /\ Tallied(n) /\ Past(n) = Past(m) /\ Whole(n) = Whole(m)
  BY DEF Placed, Tallied, Past, Whole

LEMMA StartRunOK ==
    ASSUME ImportInv, NEW source \in DOMAIN Libraries, NEW dry \in BOOLEAN, StartRun(source, dry)
    PROVE  ImportInv'
  <1> DEFINE n == migration'
  <1>1. /\ DOMAIN n = Fields /\ n.phase = "next" /\ n.source = source /\ n.dry = dry /\ n.left = Libraries[source]
        /\ n.total = Len(Libraries[source]) /\ n.imported = 0 /\ n.skipped = 0 /\ n.failures = {}
        /\ n.copied = {} /\ n.removed = {} /\ imported' = imported /\ stored' = stored
    BY DEF StartRun, Fields
  <1> HIDE DEF n
  <1>2. Libraries[source] \in Seq(Range(Libraries[source])) /\ Len(Libraries[source]) \in Nat
    BY LibrariesAssumption
  <1>3. Whole(n) = Libraries[source] /\ Past(n) = 0
    BY <1>1, <1>2 DEF Whole, Past
  <1>4. Placed(n)
    BY <1>1, <1>2, <1>3 DEF Placed
  <1>5. Tallied(n)
    BY <1>1, <1>2, FS_EmptySet DEF Tallied
  <1>6. RunOK(n, imported, stored)
    BY <1>1, <1>3, <1>4, <1>5 DEF RunOK
  <1> QED BY <1>1, <1>6 DEF ImportInv, n

LEMMA LookOK == ASSUME ImportInv, Look PROVE ImportInv'
  <1> DEFINE m == migration
             n == migration'
  <1>1. RunOK(m, imported, stored) /\ m.phase = "next" /\ m.left # << >> /\ imported' = imported /\ stored' = stored
        /\ DOMAIN m = Fields /\ m.copied = {}
    BY DEF Look, ImportInv, Stopped, RunOK
  <1>2. \A b \in imported : <<"calibre_id", Entry.id>> \in b.identifiers <=> b.id = Entry.id
    BY DEF ImportInv, BooksOK
  <1>3. CASE n = Stopped
    BY <1>1, <1>3 DEF ImportInv
  <1>4. CASE n = Skipped /\ (IsDuplicate(Entry) \/ Available(Entry) = {})
    <2>1. /\ DOMAIN n = Fields /\ n.phase = "next" /\ n.source = m.source /\ n.dry = m.dry /\ n.total = m.total
          /\ n.left = Tail(m.left) /\ n.copied = {} /\ n.removed = m.removed /\ n.imported = m.imported
          /\ n.skipped = m.skipped + 1 /\ n.failures = m.failures
      BY <1>1, <1>4 DEF Skipped, Rest, Fields
    <2>2. Tally(m, n, Head(m.left))
      BY <2>1 DEF Tally
    <2>3. Served(Head(m.left), n, imported)
      BY <1>2, <1>4 DEF Served, IsDuplicate, Entry
    <2> HIDE DEF m, n
    <2>4. RunOK(n, imported, stored)
      BY <1>1, <2>1, <2>2, <2>3, NextEntry
    <2> QED BY <1>1, <2>4 DEF ImportInv, n
  <1>5. CASE n = Imported /\ m.dry
    <2>1. /\ DOMAIN n = Fields /\ n.phase = "next" /\ n.source = m.source /\ n.dry = m.dry /\ n.total = m.total
          /\ n.left = Tail(m.left) /\ n.copied = {} /\ n.removed = m.removed /\ n.imported = m.imported + 1
          /\ n.skipped = m.skipped /\ n.failures = m.failures
      BY <1>1, <1>5 DEF Imported, Rest, Fields
    <2>2. Tally(m, n, Head(m.left))
      BY <2>1 DEF Tally
    <2>3. n.dry
      BY <1>5, <2>1
    <2> HIDE DEF m, n
    <2>4. RunOK(n, imported, stored)
      BY <1>1, <2>1, <2>2, <2>3, NextEntry
    <2> QED BY <1>1, <2>4 DEF ImportInv, n
  <1>6. CASE n = [m EXCEPT !.phase = "copying"] /\ ~m.dry /\ ~IsDuplicate(Entry) /\ Available(Entry) # {}
    <2>1. /\ DOMAIN n = Fields /\ n.phase = "copying" /\ n.source = m.source /\ n.dry = m.dry /\ n.total = m.total
          /\ n.left = m.left /\ n.copied = {} /\ n.removed = m.removed /\ n.imported = m.imported
          /\ n.skipped = m.skipped /\ n.failures = m.failures
      BY <1>1, <1>6 DEF Fields
    <2>2. Copying(n, imported, stored)
      BY <1>1, <1>2, <1>6, <2>1 DEF Copying, IsDuplicate, Entry
    <2>3. Placed(n) /\ Tallied(n) /\ Past(n) = Past(m) /\ Whole(n) = Whole(m)
      BY <1>1, <2>1, SameEntry DEF RunOK
    <2>4. RunOK(n, imported, stored)
      BY <1>1, <2>1, <2>2, <2>3 DEF RunOK, Served
    <2> QED BY <1>1, <2>4 DEF ImportInv
  <1> QED BY <1>3, <1>4, <1>5, <1>6 DEF Look

\* A copy that failed: the entry is recorded, and the run goes on.
LEMMA FailedOK ==
    ASSUME ImportInv, migration.phase \in {"copying", "inserting"}, migration' = Failed, imported' = imported,
           stored' = stored
    PROVE  ImportInv'
  <1> DEFINE m == migration
             n == migration'
  <1>1. RunOK(m, imported, stored) /\ m.left # << >> /\ DOMAIN m = Fields
    BY DEF ImportInv, Stopped, RunOK, Copying
  <1>2. /\ DOMAIN n = Fields /\ n.phase = "next" /\ n.source = m.source /\ n.dry = m.dry /\ n.total = m.total
        /\ n.left = Tail(m.left) /\ n.copied = {} /\ n.removed = m.removed /\ n.imported = m.imported
        /\ n.skipped = m.skipped /\ n.failures = m.failures \cup {Head(m.left).id}
    BY <1>1 DEF Failed, Rest, Fields, Entry
  <1>3. Tally(m, n, Head(m.left)) /\ Served(Head(m.left), n, imported)
    BY <1>2 DEF Tally, Served
  <1> HIDE DEF m, n
  <1>4. RunOK(n, imported, stored)
    BY <1>1, <1>2, <1>3, NextEntry
  <1> QED BY <1>4 DEF ImportInv, n

\* A file of the entry is copied.
LEMMA CopyOK ==
    ASSUME ImportInv, migration.phase = "copying", NEW phase \in {"copying", "inserting"}, NEW F, \A f \in F : f[2] = Entry.id,
           migration' = [migration EXCEPT !.phase = phase, !.copied = @ \cup F], stored' = stored \cup F,
           phase = "inserting" => migration.copied \cup F # {}, imported' = imported
    PROVE  ImportInv'
  <1> DEFINE m == migration
             n == migration'
  <1>1. RunOK(m, imported, stored) /\ DOMAIN m = Fields /\ Copying(m, imported, stored)
    BY DEF ImportInv, Stopped, RunOK
  <1>2. /\ DOMAIN n = Fields /\ n.phase = phase /\ n.source = m.source /\ n.dry = m.dry /\ n.total = m.total
        /\ n.left = m.left /\ n.copied = m.copied \cup F /\ n.removed = m.removed /\ n.imported = m.imported
        /\ n.skipped = m.skipped /\ n.failures = m.failures
    BY <1>1 DEF Fields
  <1>3. Copying(n, imported, stored')
    BY <1>1, <1>2 DEF Copying, Entry
  <1> HIDE DEF m, n
  <1>4. Placed(n) /\ Tallied(n) /\ Past(n) = Past(m) /\ Whole(n) = Whole(m)
    BY <1>1, <1>2, SameEntry DEF RunOK
  <1>5. RunOK(n, imported, stored')
    BY <1>1, <1>2, <1>3, <1>4 DEF RunOK, Served
  <1>6. BooksOK(imported, stored')
    BY DEF ImportInv, BooksOK
  <1> QED BY <1>5, <1>6 DEF ImportInv, n

LEMMA CopyFormatOK == ASSUME ImportInv, CopyFormat PROVE ImportInv'
  <1>1. PICK i \in Available(Entry) :
            \/ stored' = stored \cup {FileOf(Entry, i)} /\ migration' = [migration EXCEPT !.copied = @ \cup {FileOf(Entry, i)}]
            \/ migration' = Failed /\ UNCHANGED stored
    BY DEF CopyFormat
  <1>2. migration.phase = "copying" /\ imported' = imported
    BY DEF CopyFormat
  <1>3. CASE stored' = stored \cup {FileOf(Entry, i)} /\ migration' = [migration EXCEPT !.copied = @ \cup {FileOf(Entry, i)}]
    <2>1. DOMAIN migration = Fields
      BY <1>2 DEF ImportInv, Stopped, RunOK
    <2> DEFINE F == {FileOf(Entry, i)}
    <2>2. migration' = [migration EXCEPT !.phase = "copying", !.copied = @ \cup F] /\ stored' = stored \cup F
      BY <1>2, <1>3, <2>1 DEF Fields
    <2>3. \A f \in F : f[2] = Entry.id
      BY DEF FileOf
    <2> HIDE DEF F
    <2> QED BY <1>2, <2>2, <2>3, CopyOK
  <1>4. CASE migration' = Failed /\ UNCHANGED stored
    BY <1>2, <1>4, FailedOK
  <1> QED BY <1>1, <1>3, <1>4

LEMMA CopyCoverOK == ASSUME ImportInv, CopyCover PROVE ImportInv'
  <1>1. migration.phase = "copying" /\ imported' = imported
    BY DEF CopyCover
  <1>2. migration.copied # {} /\ DOMAIN migration = Fields
    BY <1>1 DEF CopyCover, ImportInv, RunOK, Copying, Entry, Stopped
  <1>3. CASE migration' = Failed /\ UNCHANGED stored
    BY <1>1, <1>3, FailedOK
  <1>4. CASE ~(migration' = Failed /\ UNCHANGED stored)
    <2> DEFINE F == IF Entry.cover = "there" THEN {FileOf(Entry, 0)} ELSE {}
    <2>1. stored' = stored \cup F /\ migration' = [migration EXCEPT !.phase = "inserting", !.copied = @ \cup F]
      BY <1>2, <1>4 DEF CopyCover, Fields
    <2>2. \A f \in F : f[2] = Entry.id
      BY DEF FileOf
    <2> HIDE DEF F
    <2> QED BY <1>1, <1>2, <2>1, <2>2, CopyOK
  <1> QED BY <1>3, <1>4

LEMMA InsertEntryOK == ASSUME ImportInv, InsertEntry PROVE ImportInv'
  <1> DEFINE m == migration
             n == migration'
             b == [source |-> m.source, id |-> Entry.id, run |-> runs, identifiers |-> Identifiers(Entry), files |-> m.copied]
  <1>1. RunOK(m, imported, stored) /\ m.phase = "inserting" /\ stored' = stored /\ DOMAIN m = Fields
        /\ Copying(m, imported, stored)
    BY DEF InsertEntry, ImportInv, Stopped, RunOK
  <1>2. CASE n = Failed /\ imported' = imported
    BY <1>1, <1>2, FailedOK
  <1>3. CASE n = Imported /\ imported' = imported \cup {b} /\ Admitted(Entry)
    <2>1. /\ DOMAIN n = Fields /\ n.phase = "next" /\ n.source = m.source /\ n.dry = m.dry /\ n.total = m.total
          /\ n.left = Tail(m.left) /\ n.copied = {} /\ n.removed = m.removed /\ n.imported = m.imported + 1
          /\ n.skipped = m.skipped /\ n.failures = m.failures
      BY <1>1, <1>3 DEF Imported, Rest, Fields
    <2>2. b.id = Entry.id /\ b.files = m.copied /\ b.identifiers = Identifiers(Entry)
      OBVIOUS
    <2>3. \A x : <<"calibre_id", x>> \in Identifiers(Entry) <=> x = Entry.id
      BY <1>3 DEF Admitted, Identifiers
    <2> HIDE DEF b
    <2>4. BooksOK(imported', stored)
      <3>1. \A c \in imported : c.id # Entry.id
        BY <1>1 DEF Copying, Entry
      <3>2. b.files # {} /\ b.files \subseteq stored /\ \A f \in b.files : f[2] = b.id
        BY <1>1, <2>2 DEF Copying, Entry
      <3> QED BY <1>3, <2>2, <2>3, <3>1, <3>2 DEF ImportInv, BooksOK
    <2>5. Tally(m, n, Head(m.left))
      BY <2>1 DEF Tally
    <2>6. Served(Head(m.left), n, imported')
      BY <1>3, <2>2 DEF Served, Entry
    <2>7. m.left # << >> /\ imported \subseteq imported'
      BY <1>1, <1>3 DEF Copying
    <2> HIDE DEF m, n
    <2>8. RunOK(n, imported', stored)
      BY <1>1, <2>1, <2>5, <2>6, <2>7, NextEntry
    <2> QED BY <1>1, <2>4, <2>8 DEF ImportInv, n
  <1> QED BY <1>2, <1>3 DEF InsertEntry

LEMMA FinishRunOK == ASSUME ImportInv, FinishRun PROVE ImportInv'
  <1> DEFINE m == migration
             n == migration'
  <1>1. RunOK(m, imported, stored) /\ imported' = imported /\ stored' = stored /\ DOMAIN m = Fields /\ m.left = << >>
    BY DEF FinishRun, ImportInv, Stopped, RunOK
  <1>2. /\ DOMAIN n = Fields /\ n.phase = "reported" /\ n.source = m.source /\ n.dry = m.dry /\ n.total = m.total
        /\ n.left = m.left /\ n.copied = m.copied /\ n.removed = m.removed /\ n.imported = m.imported
        /\ n.skipped = m.skipped /\ n.failures = m.failures
    BY <1>1 DEF FinishRun, Fields
  <1> HIDE DEF m, n
  <1>3. Placed(n) /\ Tallied(n) /\ Past(n) = Past(m) /\ Whole(n) = Whole(m)
    BY <1>1, <1>2, SameEntry DEF RunOK
  <1>4. RunOK(n, imported, stored)
    BY <1>1, <1>2, <1>3 DEF RunOK, Served
  <1> QED BY <1>1, <1>4 DEF ImportInv, n

\* The server deletes a book: the run knows, and its files are of no other book.
LEMMA DeleteImportedOK == ASSUME ImportInv, NEW b \in imported, DeleteImported(b) PROVE ImportInv'
  <1> DEFINE m == migration
             n == migration'
  <1>1. /\ imported' = imported \ {b} /\ stored' = stored \ {f \in b.files : f[3] # 0}
        /\ n = IF m.phase = "stopped" THEN m ELSE [m EXCEPT !.removed = @ \cup {b.id}]
    BY DEF DeleteImported
  <1>2. \A f \in stored : f[2] # b.id => f \in stored'
    BY <1>1 DEF ImportInv, BooksOK
  <1>3. BooksOK(imported', stored')
    BY <1>1, <1>2 DEF ImportInv, BooksOK
  <1>4. CASE m = Stopped
    BY <1>1, <1>3, <1>4 DEF ImportInv, Stopped
  <1>5. CASE m # Stopped
    <2>1. RunOK(m, imported, stored) /\ m.phase # "stopped" /\ DOMAIN m = Fields
      BY <1>5 DEF ImportInv, RunOK
    <2>2. /\ DOMAIN n = Fields /\ n.phase = m.phase /\ n.source = m.source /\ n.dry = m.dry /\ n.total = m.total
          /\ n.left = m.left /\ n.copied = m.copied /\ n.removed = m.removed \cup {b.id} /\ n.imported = m.imported
          /\ n.skipped = m.skipped /\ n.failures = m.failures
      BY <1>1, <2>1 DEF Fields
    <2> HIDE DEF m, n
    <2>3. Placed(n) /\ Tallied(n) /\ Past(n) = Past(m) /\ Whole(n) = Whole(m)
      BY <2>1, <2>2, SameEntry DEF RunOK
    <2>4. \A e : Served(e, m, imported) => Served(e, n, imported')
      BY <1>1, <2>2 DEF Served
    <2>5. Copying(m, imported, stored) => Copying(n, imported', stored')
      BY <1>1, <1>2, <2>2 DEF Copying
    <2>6. RunOK(n, imported', stored')
      BY <2>1, <2>2, <2>3, <2>4, <2>5 DEF RunOK
    <2> QED BY <1>3, <2>6 DEF ImportInv, n
  <1> QED BY <1>4, <1>5

LEMMA ImportInvStep == ImportInv /\ [ImportNext]_importVars => ImportInv'
  <1>1. ASSUME ImportInv, Exit \/ CrashRun
        PROVE  ImportInv'
    BY <1>1 DEF Exit, CrashRun, ImportInv
  <1>2. ASSUME ImportInv, UNCHANGED importVars
        PROVE  ImportInv'
    BY <1>2 DEF ImportInv, importVars
  <1> QED BY <1>1, <1>2, StartRunOK, LookOK, CopyFormatOK, CopyCoverOK, InsertEntryOK, FinishRunOK, DeleteImportedOK
          DEF ImportNext

\* Imports of Calibre libraries add up (ImportsAddUp): through any number of
\* runs, failures, crashes and deletions, entries are imported once, books have
\* their files, and a run that reports no failure has left out nothing.
THEOREM ImportsAddUpCorrect == AlgorithmsSpec => []ImportsAddUp
  <1>1. AlgorithmsInit => ImportInv
    BY DEF AlgorithmsInit, ImportInit, ImportInv, BooksOK
  <1>2. ImportInv /\ [AlgorithmsNext]_<<field, chunkVars, catalogueVars, importVars>> => ImportInv'
    BY ImportInvStep DEF AlgorithmsNext
  <1>3. ASSUME ImportInv
        PROVE  ImportsAddUp
    <2> DEFINE m == migration
    <2>1. m.phase # "stopped" => RunOK(m, imported, stored)
      BY <1>3 DEF ImportInv, Stopped
    <2>2. m.phase # "stopped" => m.imported + m.skipped + Cardinality(m.failures) + Len(m.left) = m.total
      BY <2>1 DEF RunOK, Tallied
    <2>3. ASSUME m.phase = "reported", ~m.dry, m.failures = {}, NEW e \in ToSet(Libraries[m.source])
          PROVE  Available(e) = {} \/ e.id \in m.removed \/ \E b \in imported : b.id = e.id
      <3>1. RunOK(m, imported, stored) /\ m.left = << >>
        BY <2>1, <2>3 DEF RunOK
      <3>2. Libraries[m.source] \in Seq(Range(Libraries[m.source]))
        BY <3>1, LibrariesAssumption DEF RunOK, Placed
      <3>3. Past(m) = Len(Libraries[m.source]) /\ Whole(m) = Libraries[m.source]
        BY <3>1, <3>2 DEF Past, Whole
      <3>4. PICK i \in 1..Past(m) : e = Whole(m)[i]
        BY <2>3, <3>2, <3>3 DEF ToSet
      <3> QED BY <2>3, <3>1, <3>4 DEF RunOK, Served
    <2> QED BY <1>3, <2>2, <2>3 DEF ImportsAddUp, ImportInv, BooksOK
  <1> QED BY <1>1, <1>2, <1>3, PTL DEF AlgorithmsSpec

-----------------------------------------------------------------------------
(* Pages of listings and feeds                                               *)

CatalogOK(c) == IsFiniteSet(DOMAIN c) /\ DOMAIN c \subseteq Books /\ \A b \in DOMAIN c : c[b] \in Kinds

LEMMA RankOK ==
    /\ \A n \in Names : Rank[n] \in Int /\ Rank[n] \in 1..Cardinality(Names)
    /\ \A n \in Names : SqlLower[n] \in Names /\ RustLower[n] \in Names
    /\ Cardinality(Names) \in Nat \ {0}
    /\ \A m, n \in Names : Rank[m] = Rank[n] => m = n
  <1>1. Cardinality(Names) \in Nat
    BY NamesAssumption, FS_CardinalityType
  <1>2. Rank \in [Names -> 1..Cardinality(Names)] /\ Nobody \in Names
    BY NamesAssumption
  <1>3. \A n \in Names : Rank[n] \in 1..Cardinality(Names)
    BY <1>2
  <1> QED BY <1>1, <1>2, <1>3, NamesAssumption

\* The earliest of some names
LEMMA FirstName ==
    ASSUME NEW S \in SUBSET Names, S # {}
    PROVE  \E n \in S : \A o \in S : Rank[n] <= Rank[o]
  <1> DEFINE R == {Rank[n] : n \in S}
  <1>1. R \in SUBSET Nat /\ R # {}
    BY RankOK
  <1>2. PICK x \in R : \A y \in R : x <= y
    BY <1>1, LeastOne
  <1> QED BY <1>2

LEMMA SortKeyInt ==
    ASSUME NEW p, NEW c, NEW b, c[b] \in Kinds
    PROVE  SortKey(p, c, b) \in Int
  <1> DEFINE k == c[b]
             R == {Rank[a] : a \in k.authors}
  <1>1. k.created \in Int /\ k.rating \in Int /\ k.title \in Names /\ k.authors \subseteq Names
    BY KindsAssumption
  <1>2. Rank[k.title] \in Int
    BY <1>1, RankOK
  <1>3. ASSUME k.authors # {}
        PROVE  Min(R) \in Int
    <2>1. PICK a \in k.authors : \A o \in k.authors : Rank[a] <= Rank[o]
      BY <1>1, <1>3, FirstName
    <2>2. Rank[a] \in R /\ \A y \in R : Rank[a] <= y
      BY <2>1
    <2>3. Min(R) \in R
      BY <2>2 DEF Min
    <2>4. R \subseteq Int
      BY <1>1, RankOK
    <2> QED BY <2>3, <2>4
  <1> QED BY <1>1, <1>2, <1>3 DEF SortKey

\* Books come in one order, by the key asked for and then by their ids.
LEMMA ComesInOrder ==
    ASSUME NEW p, NEW c, CatalogOK(c), NEW b \in DOMAIN c, NEW d \in DOMAIN c, NEW e \in DOMAIN c
    PROVE  /\ ~Comes(p, c, b, b)
           /\ b # d => Comes(p, c, b, d) \/ Comes(p, c, d, b)
           /\ Comes(p, c, b, d) /\ Comes(p, c, d, e) => Comes(p, c, b, e)
  <1> DEFINE key == [u \in DOMAIN c |-> SortKey(p, c, u)]
  <1>1. \A u \in DOMAIN c : key[u] \in Int /\ u \in Int
    <2>1. \A u \in DOMAIN c : key[u] \in Int
      BY SortKeyInt DEF CatalogOK
    <2>2. \A u \in DOMAIN c : u \in Books
      BY DEF CatalogOK
    <2>3. \A u \in Books : u \in Int
      BY CatalogueAssumption
    <2> QED BY <2>1, <2>2, <2>3
  <1>2. ASSUME NEW u \in DOMAIN c, NEW v \in DOMAIN c
        PROVE  Comes(p, c, u, v) <=> IF key[u] = key[v] THEN u < v
                                     ELSE IF Descending(p) THEN key[v] < key[u] ELSE key[u] < key[v]
    BY DEF Comes
  <1> HIDE DEF key
  <1>3. CASE Descending(p)
    <2>1. \A u, v \in DOMAIN c : Comes(p, c, u, v) <=> key[v] < key[u] \/ (key[u] = key[v] /\ u < v)
      BY <1>1, <1>2, <1>3
    <2> QED BY <1>1, <2>1
  <1>4. CASE ~Descending(p)
    <2>1. \A u, v \in DOMAIN c : Comes(p, c, u, v) <=> key[u] < key[v] \/ (key[u] = key[v] /\ u < v)
      BY <1>1, <1>2, <1>4
    <2> QED BY <1>1, <2>1
  <1> QED BY <1>3, <1>4

\* A listing of books has the books that match, each once, in their order.
LEMMA ListedInOrder ==
    ASSUME NEW p, NEW c, CatalogOK(c), NEW some
    PROVE  /\ Enumerates(Listed(p, c, some), {b \in DOMAIN c : Matches(p, c[b]) /\ b \in some})
           /\ \A i, j \in 1..Len(Listed(p, c, some)) : i < j => Comes(p, c, Listed(p, c, some)[i], Listed(p, c, some)[j])
  <1> DEFINE found  == {b \in DOMAIN c : Matches(p, c[b]) /\ b \in some}
             before == [b \in found |-> {d \in found : Comes(p, c, d, b)}]
             all    == Listed(p, c, some)
  <1>1. DOMAIN before = found /\ \A b \in found : before[b] = {d \in found : Comes(p, c, d, b)}
    OBVIOUS
  <1>2. IsFiniteSet(found) /\ found \subseteq DOMAIN c
    BY FS_Subset DEF CatalogOK
  <1>3. all = InOrder(before)
    BY DEF Listed
  <1> HIDE DEF found, before, all
  <1>4. Orderly(before)
    <2>1. ASSUME NEW b \in found
          PROVE  before[b] \subseteq found /\ b \notin before[b]
      BY <1>1, <1>2, <2>1, ComesInOrder
    <2>2. ASSUME NEW b \in found, NEW d \in found
          PROVE  /\ b # d => b \in before[d] \/ d \in before[b]
                 /\ b \in before[d] => before[b] \subseteq before[d]
      <3>1. b # d => Comes(p, c, b, d) \/ Comes(p, c, d, b)
        BY <1>2, ComesInOrder
      <3>2. ASSUME Comes(p, c, b, d), NEW e \in found, Comes(p, c, e, b)
            PROVE  Comes(p, c, e, d)
        BY <1>2, <3>2, ComesInOrder
      <3> QED BY <1>1, <3>1, <3>2
    <2> QED BY <1>1, <1>2, <2>1, <2>2 DEF Orderly
  <1>5. Enumerates(all, found) /\ \A i, j \in 1..Len(all) : i < j => all[i] \in before[all[j]]
    BY <1>1, <1>3, <1>4, InOrderLists
  <1>6. \A i \in 1..Len(all) : all[i] \in found
    <2>1. all \in Seq(found)
      BY <1>5 DEF Enumerates
    <2> QED BY <2>1, ElementOfSeq
  <1> QED BY <1>1, <1>5, <1>6 DEF found, all

\* What a book is counted under has a place of its own: a name, or a number of stars.
LEMMA UnderNames ==
    ASSUME NEW path, NEW k \in Kinds
    PROVE  IF path = "ratings" THEN Under(path, k) \subseteq 1..5 ELSE Under(path, k) \subseteq Names
  <1>1. /\ k.authors \subseteq Names /\ k.series \in Names /\ k.publisher \in Names /\ k.language \in Names
        /\ k.tags \subseteq Names /\ k.formats \subseteq Names
    BY KindsAssumption, NamesAssumption
  <1>2. SqlLower[k.publisher] \in Names /\ SqlLower[k.language] \in Names
    BY <1>1, RankOK
  <1>3. k.rating # 0 => (k.rating + 1) \div 2 \in 1..5
    BY KindsAssumption
  <1> QED BY <1>1, <1>2, <1>3 DEF Under

LEMMA KeysOK ==
    ASSUME NEW path, NEW c, CatalogOK(c)
    PROVE  IF path = "ratings" THEN Keys(path, c) \subseteq 1..5 ELSE Keys(path, c) \subseteq Names
  <1>1. IF path = "ratings" THEN UNION {Under(path, c[b]) : b \in DOMAIN c} \subseteq 1..5
                            ELSE UNION {Under(path, c[b]) : b \in DOMAIN c} \subseteq Names
    BY UnderNames DEF CatalogOK
  <1>2. Tags \subseteq Names /\ DOMAIN Shelves \subseteq Names
    BY NamesAssumption
  <1>3. Authors \subseteq Names
    BY KindsAssumption DEF Authors
  <1> QED BY <1>1, <1>2, <1>3 DEF Keys

LEMMA CountNat == ASSUME NEW path, NEW c, CatalogOK(c), NEW key PROVE CountUnder(path, c, key) \in Nat
  <1>1. IsFiniteSet({b \in DOMAIN c : key \in Under(path, c[b])})
    BY FS_Subset DEF CatalogOK
  <1> QED BY <1>1, FS_CardinalityType DEF CountUnder

\* Keys are listed in one order.
LEMMA KeyRankOwn ==
    ASSUME NEW path, NEW c, CatalogOK(c), NEW k \in Keys(path, c), NEW l \in Keys(path, c)
    PROVE  KeyRank(path, c, k) \in Int /\ (KeyRank(path, c, k) = KeyRank(path, c, l) => k = l)
  <1>1. CASE path = "ratings"
    BY <1>1, KeysOK DEF KeyRank
  <1>2. CASE path = "admin/tags"
    <2> DEFINE n == Cardinality(Names)
               x == CountUnder(path, c, k)
               y == CountUnder(path, c, l)
    <2>1. n \in Nat /\ x \in Nat /\ y \in Nat /\ k \in Names /\ l \in Names
      BY <1>2, KeysOK, RankOK, CountNat
    <2>2. Rank[k] \in 1..n /\ Rank[l] \in 1..n
      BY <2>1, RankOK
    <2>3. KeyRank(path, c, k) = Rank[k] - x * n /\ KeyRank(path, c, l) = Rank[l] - y * n
      BY <1>2 DEF KeyRank, ByCount, Names
    <2> HIDE DEF n, x, y
    <2>4. ASSUME NEW i \in Nat, NEW j \in Nat, i < j
          PROVE  \A a, b \in 1..n : a - i * n # b - j * n
      <3>1. j * n = i * n + (j - i) * n /\ (j - i) * n >= n /\ i * n \in Int /\ j * n \in Int /\ (j - i) * n \in Int
        <4>1. j - i \in Nat /\ j - i >= 1
          BY <2>4
        <4>2. ASSUME NEW d \in Nat, d >= 1
              PROVE  d * n >= n /\ d * n \in Int
          BY <2>1, <4>2
        <4> QED BY <2>1, <4>1, <4>2
      <3> QED BY <2>1, <3>1
    <2>5. Rank[k] - x * n = Rank[l] - y * n => x = y
      BY <2>1, <2>2, <2>4
    <2>6. x * n \in Int /\ y * n \in Int
      BY <2>1
    <2>7. x = y => x * n = y * n
      OBVIOUS
    <2>8. Rank[k] - x * n = Rank[l] - y * n => Rank[k] = Rank[l]
      BY <2>2, <2>5, <2>6, <2>7
    <2> QED BY <2>1, <2>2, <2>3, <2>6, <2>8, RankOK
  <1>3. CASE path \notin {"ratings", "admin/tags"}
    <2>1. k \in Names /\ l \in Names
      BY <1>3, KeysOK
    <2>2. KeyRank(path, c, k) = Rank[k] /\ KeyRank(path, c, l) = Rank[l]
      BY <1>3 DEF KeyRank
    <2> QED BY <2>1, <2>2, RankOK
  <1> QED BY <1>1, <1>2, <1>3

\* What a publisher's entry shows folds to what it is listed under.
LEMMA ShownFolds ==
    ASSUME NEW c, CatalogOK(c), NEW key \in Keys("publishers", c)
    PROVE  /\ Shown("publishers", c, key) \in Names /\ SqlLower[Shown("publishers", c, key)] = key
           /\ Shown("publishers", c, key) # Nobody
  <1> DEFINE from == {d \in DOMAIN c : key \in Under("publishers", c[d])}
             spelled == {c[b].publisher : b \in from}
  <1>1. from # {}
    BY DEF Keys
  <1>2. \A b \in from : c[b].publisher \in Names /\ SqlLower[c[b].publisher] = key /\ key # Nobody
    BY KindsAssumption DEF CatalogOK, Under
  <1>3. spelled \in SUBSET Names /\ spelled # {} /\ \A n \in spelled : SqlLower[n] = key /\ key # Nobody
    BY <1>1, <1>2
  <1>4. Shown("publishers", c, key) = CHOOSE n \in spelled : \A o \in spelled : Rank[n] <= Rank[o]
    BY DEF Shown
  <1> HIDE DEF spelled
  <1>5. Shown("publishers", c, key) \in spelled
    BY <1>3, <1>4, FirstName
  <1> QED BY <1>3, <1>5, NamesAssumption

LEMMA ShownOwn ==
    ASSUME NEW path, NEW c, CatalogOK(c), NEW k \in Keys(path, c), NEW l \in Keys(path, c),
           Shown(path, c, k) = Shown(path, c, l)
    PROVE  k = l
  <1>1. CASE path = "publishers"
    <2>1. k \in Keys("publishers", c) /\ l \in Keys("publishers", c)
      BY <1>1
    <2> QED BY <1>1, <2>1, ShownFolds
  <1>2. CASE path # "publishers"
    BY <1>2 DEF Shown
  <1> QED BY <1>1, <1>2

\* A sequence that repeats nothing
Plain(s) == s \in Seq(Range(s)) /\ \A i, j \in 1..Len(s) : i # j => s[i] # s[j]

LEMMA EntriesPlain ==
    ASSUME NEW f, NEW c, CatalogOK(c)
    PROVE  /\ Plain(EntriesOf(f, c))
           /\ \A i \in 1..Len(EntriesOf(f, c)) :
                \E key \in Keys(f.path, c) : EntriesOf(f, c)[i] = [key |-> Shown(f.path, c, key), count |-> CountUnder(f.path, c, key)]
  <1> DEFINE keys   == {k \in Keys(f.path, c) : Chosen(f, k)}
             before == [k \in keys |-> {l \in keys : KeyRank(f.path, c, l) < KeyRank(f.path, c, k)}]
             sorted == InOrder(before)
             entry(key) == [key |-> Shown(f.path, c, key), count |-> CountUnder(f.path, c, key)]
             all    == EntriesOf(f, c)
  <1>1. DOMAIN before = keys /\ \A k \in keys : before[k] = {l \in keys : KeyRank(f.path, c, l) < KeyRank(f.path, c, k)}
    OBVIOUS
  <1>2. IsFiniteSet(keys) /\ keys \subseteq Keys(f.path, c)
    <2>1. \A n \in Nat : IsFiniteSet(1..n)
      BY FS_Interval
    <2>2. keys \subseteq 1..5 \/ keys \subseteq Names
      BY KeysOK
    <2>3. keys \subseteq 1..5 => IsFiniteSet(keys)
      <3>1. IsFiniteSet(1..5)
        BY <2>1, Zenon
      <3> QED BY <3>1, FS_Subset
    <2>4. keys \subseteq Names => IsFiniteSet(keys)
      BY FS_Subset, NamesAssumption
    <2> QED BY <2>2, <2>3, <2>4
  <1>3. all = [i \in 1..Len(sorted) |-> entry(sorted[i])]
    BY DEF EntriesOf
  <1> HIDE DEF keys, before
  <1>4. Orderly(before)
    <2> DEFINE rank == [k \in keys |-> KeyRank(f.path, c, k)]
    <2>1. \A k, l \in keys : rank[k] \in Int /\ (rank[k] = rank[l] => k = l)
      BY <1>2, KeyRankOwn
    <2>2. \A k \in keys : before[k] = {l \in keys : rank[l] < rank[k]}
      BY <1>1
    <2> HIDE DEF rank
    <2> QED BY <1>1, <1>2, <2>1, <2>2 DEF Orderly
  <1>5. Enumerates(sorted, keys)
    BY <1>1, <1>4, InOrderLists
  <1> HIDE DEF sorted, all
  <1>6. /\ Len(sorted) \in Nat /\ \A i \in 1..Len(sorted) : sorted[i] \in Keys(f.path, c)
        /\ \A i, j \in 1..Len(sorted) : i # j => sorted[i] # sorted[j]
    <2>1. sorted \in Seq(keys)
      BY <1>5 DEF Enumerates
    <2> QED BY <1>2, <1>5, <2>1, ElementOfSeq, LenProperties DEF Enumerates
  <1>7. DOMAIN all = 1..Len(sorted) /\ \A i \in 1..Len(sorted) : all[i] = entry(sorted[i])
    BY <1>3
  <1>8. all \in Seq(Range(all)) /\ Len(all) = Len(sorted)
    <2>1. all \in [1..Len(sorted) -> Range(all)]
      BY <1>3, <1>7 DEF Range
    <2>2. all \in Seq(Range(all))
      BY <1>6, <2>1, SeqDef
    <2> QED BY <1>6, <1>7, <2>2, LenProperties
  <1>9. ASSUME NEW i \in 1..Len(all), NEW j \in 1..Len(all), i # j
        PROVE  all[i] # all[j]
    <2>1. Shown(f.path, c, sorted[i]) # Shown(f.path, c, sorted[j])
      BY <1>6, <1>8, <1>9, ShownOwn
    <2>2. all[i].key = Shown(f.path, c, sorted[i]) /\ all[j].key = Shown(f.path, c, sorted[j])
      BY <1>7, <1>8
    <2> QED BY <2>1, <2>2
  <1> QED BY <1>6, <1>7, <1>8, <1>9 DEF Plain, all

-----------------------------------------------------------------------------

EntryPaths == Managed \cup {"authors", "series", "publishers", "languages", "ratings", "category", "formats",
                            "shelf", "discover", "authors/letter", "series/letter", "category/letter"}

\* The feeds there are: only listings of books take the size as it is asked.
FeedOK(f) ==
    /\ f.kind \in {"books", "hits", "shelf", "shelved", "history", "entries"}
    /\ f.kind \in {"shelf", "shelved"} => f.name \in DOMAIN Shelves
    /\ f.kind = "entries" => f.path \in EntryPaths
    /\ f.path \in {"list", "fulltext"} => f.kind \in {"books", "hits"}

LEMMA KeptPlain == ASSUME NEW s, Plain(s), NEW T PROVE Plain(Kept(s, T)) /\ \A i \in 1..Len(Kept(s, T)) : Kept(s, T)[i] \in T
  <1> DEFINE K == Kept(s, T)
             place == PlacesOf(s, T)
  <1>0. IsKept(K, place, s, T)
    BY KeptLists DEF Plain
  <1> HIDE DEF K, place
  <1>1. K \in Seq(Range(s) \cap T)
    BY <1>0 DEF IsKept
  <1>2. /\ place \in [1..Len(K) -> 1..Len(s)]
        /\ \A n \in 1..Len(K) : K[n] = s[place[n]]
        /\ \A i, j \in 1..Len(K) : i < j => place[i] < place[j]
    BY <1>0 DEF IsKept
  <1>3. K \in Seq(Range(K)) /\ \A i \in 1..Len(K) : K[i] \in T
    BY <1>1, SeqOfRange, ElementOfSeq
  <1>4. ASSUME NEW i \in 1..Len(K), NEW j \in 1..Len(K), i # j
        PROVE  K[i] # K[j]
    <2>1. place[i] \in 1..Len(s) /\ place[j] \in 1..Len(s) /\ Len(s) \in Nat /\ Len(K) \in Nat
      BY <1>1, <1>2, LenProperties DEF Plain
    <2>2. place[i] # place[j]
      BY <1>2, <1>4, <2>1
    <2> QED BY <1>2, <2>1, <2>2 DEF Plain
  <1> QED BY <1>3, <1>4 DEF Plain, K

LEMMA EnumeratesPlain == ASSUME NEW s, NEW S, Enumerates(s, S) PROVE Plain(s) /\ \A i \in 1..Len(s) : s[i] \in S
  BY SeqOfRange, ElementOfSeq DEF Enumerates, Plain

\* Every listing repeats nothing; books come in the order asked for, and books
\* that are gone are in none.
LEMMA ListingOK ==
    ASSUME NEW f, FeedOK(f), NEW c, CatalogOK(c)
    PROVE  /\ Plain(Listing(f, c))
           /\ f.kind \in {"books", "hits", "shelf", "shelved"} => \A i \in 1..Len(Listing(f, c)) : Listing(f, c)[i] \in DOMAIN c
           /\ f.kind \in {"books", "hits"} => \A i, j \in 1..Len(Listing(f, c)) : i < j =>
                                                  Comes(f.params, c, Listing(f, c)[i], Listing(f, c)[j])
  <1>1. CASE f.kind \in {"books", "hits"}
    <2>1. PICK some : Listing(f, c) = Listed(f.params, c, some)
      BY <1>1 DEF Listing
    <2>2. /\ Enumerates(Listing(f, c), {b \in DOMAIN c : Matches(f.params, c[b]) /\ b \in some})
          /\ \A i, j \in 1..Len(Listing(f, c)) : i < j => Comes(f.params, c, Listing(f, c)[i], Listing(f, c)[j])
      BY <2>1, ListedInOrder
    <2> DEFINE found == {b \in DOMAIN c : Matches(f.params, c[b]) /\ b \in some}
    <2>3. found \subseteq DOMAIN c
      OBVIOUS
    <2> HIDE DEF found
    <2>4. Plain(Listing(f, c)) /\ \A i \in 1..Len(Listing(f, c)) : Listing(f, c)[i] \in found
      BY <2>2, EnumeratesPlain DEF found
    <2> QED BY <1>1, <2>2, <2>3, <2>4
  <1>2. CASE f.kind \in {"shelf", "shelved"}
    <2> DEFINE s == Shelves[f.name].books
    <2>1. s \in Seq(Books) /\ \A i, j \in DOMAIN s : s[i] = s[j] => i = j
      BY <1>2, ListsAssumption DEF FeedOK
    <2>2. Plain(s)
      BY <2>1, SeqOfRange, LenProperties DEF Plain
    <2>3. Listing(f, c) = Kept(s, DOMAIN c)
      BY <1>2 DEF Listing
    <2> HIDE DEF s
    <2> QED BY <1>2, <2>2, <2>3, KeptPlain
  <1>3. CASE f.kind = "history"
    <2> DEFINE s == [i \in DOMAIN Downloads |-> <<i, Downloads[i]>>]
    <2>1. DOMAIN Downloads = 1..Len(Downloads) /\ Len(Downloads) \in Nat
      BY ListsAssumption, LenProperties
    <2>2. s \in [1..Len(Downloads) -> Range(s)]
      BY <2>1 DEF Range
    <2>3. s \in Seq(Range(s))
      BY <2>1, <2>2, SeqDef
    <2>4. Plain(s)
      BY <2>3 DEF Plain
    <2>5. Listing(f, c) = Kept(s, (DOMAIN Downloads) \X (DOMAIN c))
      BY <1>3 DEF Listing
    <2> HIDE DEF s
    <2> QED BY <1>3, <2>4, <2>5, KeptPlain
  <1>4. CASE f.kind = "entries"
    <2>1. Listing(f, c) = EntriesOf(f, c)
      BY <1>4 DEF Listing
    <2> QED BY <1>4, <2>1, EntriesPlain
  <1> QED BY <1>1, <1>2, <1>3, <1>4 DEF FeedOK

\* A book counts for an entry when it matches what the entry leads to.
LEMMA EntryMatches ==
    ASSUME NEW path \in EntryPaths \ (Managed \cup {"discover", "shelf"}), NEW c, CatalogOK(c), NEW key \in Keys(path, c),
           SameFolding(FeedOf(path, Shown(path, c, key)))
    PROVE  LET f == FeedOf(path, Shown(path, c, key)) IN
           /\ f.kind = "books"
           /\ \A b \in DOMAIN c : key \in Under(path, c[b]) <=> Matches(f.params, c[b])
  <1> DEFINE f == FeedOf(path, Shown(path, c, key))
             shown == Shown(path, c, key)
  <1>0. \A b \in DOMAIN c : LET k == c[b] IN
            k \in Kinds /\ Nobody \notin k.authors \cup k.tags \cup k.formats /\ k.tags \subseteq Tags /\ k.rating \in 0..10
    BY KindsAssumption DEF CatalogOK
  <1>1. CASE path \in {"authors", "authors/letter"}
    <2>1. f = AuthorBooks(key) /\ \A k : Under(path, k) = k.authors
      BY <1>1 DEF FeedOf, Shown, Under
    <2>2. key # Nobody
      BY <1>0, <1>1, <2>1 DEF Keys
    <2> QED BY <2>1, <2>2 DEF AuthorBooks, BookFeed, NoParams, Matches
  <1>2. CASE path \in {"series", "series/letter"}
    <2>1. f = SeriesBooks(key) /\ \A k : Under(path, k) = {k.series} \ {Nobody}
      BY <1>2 DEF FeedOf, Shown, Under
    <2>2. key # Nobody
      BY <1>2, <2>1 DEF Keys
    <2> QED BY <2>1, <2>2 DEF SeriesBooks, BookFeed, NoParams, Matches
  <1>3. CASE path = "publishers"
    <2>1. f = PublisherBooks(shown) /\ \A k : Under(path, k) = {SqlLower[k.publisher]} \ {Nobody}
      BY <1>3 DEF FeedOf, Under
    <2>2. shown # Nobody /\ SqlLower[shown] = key
      BY <1>3, ShownFolds
    <2>3. key # Nobody
      BY <1>3, <2>1 DEF Keys
    <2> HIDE DEF shown
    <2> QED BY <2>1, <2>2, <2>3 DEF PublisherBooks, BookFeed, NoParams, Matches
  <1>4. CASE path = "languages"
    <2>1. f = LanguageBooks(key) /\ \A k : Under(path, k) = {SqlLower[k.language]} \ {Nobody}
      BY <1>4 DEF FeedOf, Shown, Under
    <2>2. key # Nobody
      BY <1>4, <2>1 DEF Keys
    <2>3. RustLower[key] = key
      BY <2>1, <2>2 DEF SameFolding, LanguageBooks, BookFeed, NoParams
    <2> QED BY <2>1, <2>2, <2>3 DEF LanguageBooks, BookFeed, NoParams, Matches
  <1>5. CASE path = "ratings"
    <2>1. f = RatingBooks(key) /\ \A k : Under(path, k) = IF k.rating = 0 THEN {} ELSE {(k.rating + 1) \div 2}
      BY <1>5 DEF FeedOf, Shown, Under
    <2>2. key \in 1..5
      BY <1>5, KeysOK
    <2>3. ASSUME NEW r \in 0..10
          PROVE  (r # 0 /\ key = (r + 1) \div 2) <=> r \in (key - 1) * 2 + 1..key * 2
      BY <2>2
    <2>4. f.params = [NoParams EXCEPT !.bucket = key] /\ f.kind = "books"
      BY <2>1 DEF RatingBooks, BookFeed
    <2>5. ASSUME NEW b \in DOMAIN c
          PROVE  Matches(f.params, c[b]) <=> c[b].rating \in (key - 1) * 2 + 1..key * 2
      BY <2>2, <2>4 DEF NoParams, Matches
    <2> QED BY <1>0, <2>1, <2>3, <2>4, <2>5
  <1>6. CASE path \in {"category", "category/letter"}
    <2>1. f = CategoryBooks(key) /\ \A k : Under(path, k) = k.tags
      BY <1>6 DEF FeedOf, Shown, Under
    <2>2. \A t \in Tags : SqlLower[t] = RustLower[key] <=> t = key
      BY <2>1 DEF SameFolding, CategoryBooks, BookFeed, NoParams
    <2>3. f.params = [NoParams EXCEPT !.tags = {key}] /\ f.kind = "books"
      BY <2>1 DEF CategoryBooks, BookFeed
    <2>4. ASSUME NEW b \in DOMAIN c
          PROVE  Matches(f.params, c[b]) <=> \E t \in c[b].tags : SqlLower[t] \in {RustLower[s] : s \in {key}}
      BY <2>3 DEF NoParams, Matches
    <2> QED BY <1>0, <2>1, <2>2, <2>3, <2>4
  <1>7. CASE path = "formats"
    <2>1. f = FormatBooks(key) /\ \A k : Under(path, k) = k.formats
      BY <1>7 DEF FeedOf, Shown, Under
    <2>2. key # Nobody
      BY <1>0, <1>7, <2>1 DEF Keys
    <2> QED BY <2>1, <2>2 DEF FormatBooks, BookFeed, NoParams, Matches
  <1> QED BY <1>1, <1>2, <1>3, <1>4, <1>5, <1>6, <1>7 DEF EntryPaths

\* What an entry counts is what the feed behind it lists.
LEMMA EntryCounts ==
    ASSUME NEW path \in EntryPaths \ (Managed \cup {"discover", "shelf"}), NEW c, CatalogOK(c), NEW key \in Keys(path, c),
           SameFolding(FeedOf(path, Shown(path, c, key)))
    PROVE  CountUnder(path, c, key) = Len(Listing(FeedOf(path, Shown(path, c, key)), c))
  <1> DEFINE f == FeedOf(path, Shown(path, c, key))
             found == {b \in DOMAIN c : Matches(f.params, c[b]) /\ b \in DOMAIN c}
  <1>1. f.kind = "books" /\ \A b \in DOMAIN c : key \in Under(path, c[b]) <=> Matches(f.params, c[b])
    BY EntryMatches
  <1>2. Listing(f, c) = Listed(f.params, c, DOMAIN c)
    BY <1>1 DEF Listing
  <1>3. Len(Listing(f, c)) = Cardinality(found)
    <2>1. Enumerates(Listed(f.params, c, DOMAIN c), found)
      BY ListedInOrder, Zenon
    <2> HIDE DEF found, f
    <2> QED BY <1>2, <2>1 DEF Enumerates
  <1>4. {b \in DOMAIN c : key \in Under(path, c[b])} = found
    BY <1>1
  <1> QED BY <1>3, <1>4 DEF CountUnder

-----------------------------------------------------------------------------
(* A walk through pages                                                      *)

WalkFields == {"phase", "feed", "asked", "page", "total", "items", "seen", "more", "edits", "listed", "steady", "claimed"}

Until(all, n) == IF n < Len(all) THEN n ELSE Len(all)
Size(w) == PageSize(w.feed, w.asked)

\* How much of the listing has been read, and how much of that the reader has gone through
Got(w) == (IF w.phase \in {"asking", "reading"} THEN w.page - 1 ELSE w.page) * Size(w)
Passed(w, all) == Until(all, Got(w)) - Len(w.items)
Ends(w) == IF w.feed.kind = "shelf" THEN ~(w.total > 0) ELSE ~(w.page * LinkSize(w.feed, w.asked) < w.total)

\* A sequence is from a part of the listing and in its order.
InStep(s, all, low, high) ==
    /\ \A i \in 1..Len(s) : \E a \in low + 1..high : s[i] = all[a]
    /\ \A i, j \in 1..Len(s) : i < j => \E a, b \in low + 1..high : a < b /\ s[i] = all[a] /\ s[j] = all[b]

\* Of the part of the listing that is passed, the reader has seen some in their
\* order, and all that has been listed throughout.
Seen(w, all) ==
    /\ Passed(w, all) \in Nat /\ InStep(w.seen, all, 0, Passed(w, all))
    /\ \A a \in 1..Passed(w, all) : all[a] \in w.listed => \E i \in 1..Len(w.seen) : w.seen[i] = all[a]

\* What is left of the page comes next.
ComingNext(w, all) == \A k \in 1..Len(w.items) : w.items[k] = all[Passed(w, all) + k]

\* The page that ends the walk is the last one of what has been listed throughout.
EndsLast(w, all) ==
    w.phase # "asking" /\ Ends(w) => \A x \in w.listed : \E a \in 1..Until(all, w.page * Size(w)) : all[a] = x

\* What an entry has counted is what is listed, and of a listing of books none is left out.
ClaimHolds(w, all) ==
    w.claimed # -1 => /\ w.feed.kind = "books" /\ Len(w.seen) = Passed(w, all)
                      /\ w.phase # "asking" => w.total = Len(all)
                      /\ SameFolding(w.feed) => w.claimed = Len(all)

Going(w, all) == Seen(w, all) /\ ComingNext(w, all) /\ EndsLast(w, all) /\ ClaimHolds(w, all)

WalkType(w) ==
    /\ DOMAIN w = WalkFields /\ w.phase \in {"asking", "reading", "fetching", "done"}
    /\ FeedOK(w.feed) /\ w.asked \in Int /\ w.page \in Nat \ {0} /\ w.total \in Nat
    /\ w.edits \in Nat /\ w.steady \in BOOLEAN /\ (w.edits = 0 => w.steady)
    /\ w.seen \in Seq(Range(w.seen)) /\ w.items \in Seq(Range(w.items))
    /\ w.phase # "fetching" => w.items = << >>
    /\ w.feed.kind \in {"entries", "history"} => w.items = << >>
    /\ w.feed.kind = "entries" /\ w.feed.path = "shelf" => \A i \in 1..Len(w.seen) : w.seen[i].key \in DOMAIN Shelves
    /\ w.phase = "done" => w.more = ~Ends(w)

WalkOK(w, c) == WalkType(w) /\ w.listed \subseteq Offered(w.feed, c) /\ (w.steady => Going(w, Listing(w.feed, c)))

ListingInv == CatalogOK(catalog) /\ (walk = Idle \/ WalkOK(walk, catalog))

LEMMA SizeOK == ASSUME NEW f, FeedOK(f), NEW asked \in Int PROVE PageSize(f, asked) \in Nat \ {0}
  <1>1. /\ PageMax \in Nat \ {0} /\ PageDefault \in Nat \ {0} /\ PageDefault <= PageMax
        /\ SearchDefault \in Nat \ {0} /\ Cardinality(Names) \in Nat \ {0} /\ 2 * PageMax \in Nat \ {0}
    BY CatalogueAssumption, RankOK
  <1>2. ASSUME NEW n \in Int, NEW m \in Nat \ {0}
        PROVE  Between(n, 1, m) \in Nat \ {0}
    BY DEF Between
  <1>3. HandlerSize(f, asked) \in Int
    BY <1>1, <1>2 DEF HandlerSize
  <1>4. ASSUME NEW n \in Int
        PROVE  ListSize(n) \in Nat \ {0}
    BY <1>1 DEF ListSize
  <1>5. f.kind \notin {"books", "hits"} => HandlerSize(f, asked) \in Nat \ {0}
    BY <1>1, <1>2 DEF HandlerSize, FeedOK
  <1> QED BY <1>1, <1>2, <1>3, <1>4, <1>5 DEF PageSize, Names

LEMMA JoinInStep ==
    ASSUME NEW S, NEW s \in Seq(S), NEW t \in Seq(S), NEW all, NEW low \in Int, NEW mid \in Int, NEW high \in Int,
           low <= mid, mid <= high, InStep(s, all, low, mid), InStep(t, all, mid, high)
    PROVE  InStep(s \o t, all, low, high)
  <1> DEFINE u == s \o t
             m == Len(s)
             n == Len(t)
  <1>1. m \in Nat /\ n \in Nat /\ Len(u) = m + n /\ \A i \in 1..m + n : u[i] = IF i <= m THEN s[i] ELSE t[i - m]
    OBVIOUS
  <1> HIDE DEF u, m, n
  <1>2. ASSUME NEW i \in 1..m + n
        PROVE  IF i <= m THEN i \in 1..m /\ u[i] = s[i] ELSE i - m \in 1..n /\ u[i] = t[i - m]
    BY <1>1
  <1>3. ASSUME NEW i \in 1..m
        PROVE  \E a \in low + 1..mid : s[i] = all[a]
    BY DEF InStep, m
  <1>4. ASSUME NEW i \in 1..n
        PROVE  \E a \in mid + 1..high : t[i] = all[a]
    BY DEF InStep, n
  <1>5. ASSUME NEW i \in 1..m + n
        PROVE  \E a \in low + 1..high : u[i] = all[a]
    <2>1. CASE i <= m
      BY <1>2, <1>3, <2>1
    <2>2. CASE ~(i <= m)
      BY <1>2, <1>4, <2>2
    <2> QED BY <2>1, <2>2
  <1>6. ASSUME NEW i \in 1..m + n, NEW j \in 1..m + n, i < j
        PROVE  \E a, b \in low + 1..high : a < b /\ u[i] = all[a] /\ u[j] = all[b]
    <2>1. CASE j <= m
      <3>1. i \in 1..m /\ j \in 1..m /\ u[i] = s[i] /\ u[j] = s[j]
        BY <1>1, <1>2, <1>6, <2>1
      <3>2. PICK a \in low + 1..mid, b \in low + 1..mid : a < b /\ s[i] = all[a] /\ s[j] = all[b]
        BY <1>6, <3>1 DEF InStep, m
      <3> QED BY <3>1, <3>2
    <2>2. CASE i <= m /\ ~(j <= m)
      <3>1. PICK a \in low + 1..mid : u[i] = all[a]
        BY <1>2, <1>3, <2>2
      <3>2. PICK b \in mid + 1..high : u[j] = all[b]
        BY <1>2, <1>4, <2>2
      <3> QED BY <3>1, <3>2
    <2>3. CASE ~(i <= m)
      <3>1. i - m \in 1..n /\ j - m \in 1..n /\ i - m < j - m /\ u[i] = t[i - m] /\ u[j] = t[j - m]
        BY <1>1, <1>2, <1>6, <2>3
      <3>2. PICK a \in mid + 1..high, b \in mid + 1..high : a < b /\ t[i - m] = all[a] /\ t[j - m] = all[b]
        BY <3>1 DEF InStep, n
      <3> QED BY <3>1, <3>2
    <2> QED BY <1>1, <1>6, <2>1, <2>2, <2>3
  <1>7. InStep(u, all, low, high)
    BY <1>1, <1>5, <1>6 DEF InStep
  <1> QED BY <1>7 DEF u

\* A page is in step with the listing, and so is what is kept of it.
LEMMA PageInStep ==
    ASSUME NEW S, NEW s \in Seq(S), NEW all, NEW low \in Int, \A k \in 1..Len(s) : s[k] = all[low + k]
    PROVE  InStep(s, all, low, low + Len(s))
  <1> DEFINE n == Len(s)
  <1>1. n \in Nat
    BY LenProperties
  <1> HIDE DEF n
  <1>2. \A k \in 1..n : s[k] = all[low + k] /\ low + k \in low + 1..low + n
    BY <1>1 DEF n
  <1>3. \A i, j \in 1..n : i < j => low + i < low + j
    BY <1>1
  <1>4. InStep(s, all, low, low + n)
    BY <1>2, <1>3 DEF InStep, n
  <1> QED BY <1>4 DEF n

LEMMA KeptInStep ==
    ASSUME NEW s, s \in Seq(Range(s)), NEW T, NEW all, NEW low \in Int, \A k \in 1..Len(s) : s[k] = all[low + k]
    PROVE  InStep(Kept(s, T), all, low, low + Len(s))
  <1> DEFINE K == Kept(s, T)
             n == Len(s)
             place == PlacesOf(s, T)
  <1>0. IsKept(K, place, s, T)
    BY KeptLists
  <1>1. n \in Nat
    BY LenProperties
  <1> HIDE DEF K, n, place
  <1>2. /\ K \in Seq(Range(s) \cap T) /\ place \in [1..Len(K) -> 1..n]
        /\ \A i \in 1..Len(K) : K[i] = s[place[i]]
        /\ \A i, j \in 1..Len(K) : i < j => place[i] < place[j]
    BY <1>0 DEF IsKept, n
  <1>3. \A i \in 1..Len(K) : place[i] \in 1..n /\ low + place[i] \in low + 1..low + n /\ K[i] = all[low + place[i]]
    <2>1. \A k \in 1..n : s[k] = all[low + k] /\ low + k \in low + 1..low + n
      BY <1>1 DEF n
    <2> QED BY <1>2, <2>1
  <1>4. \A i, j \in 1..Len(K) : i < j => low + place[i] < low + place[j]
    <2>1. \A a, b \in 1..n : a < b => low + a < low + b
      BY <1>1
    <2> QED BY <1>2, <1>3, <2>1
  <1>5. InStep(K, all, low, low + n)
    BY <1>3, <1>4 DEF InStep
  <1> QED BY <1>5 DEF K, n

LEMMA PlainLen == ASSUME NEW s, Plain(s) PROVE Len(s) \in Nat /\ DOMAIN s = 1..Len(s) /\ \A i \in 1..Len(s) : s[i] \in Range(s)
  BY LenProperties, ElementOfSeq DEF Plain

\* What is offered is in the listing.
LEMMA OfferedListed ==
    ASSUME NEW f, NEW c, Plain(Listing(f, c)), NEW x \in Offered(f, c)
    PROVE  \E a \in 1..Len(Listing(f, c)) : Listing(f, c)[a] = x
  <1>1. x \in ToSet(Listing(f, c))
    BY DEF Offered
  <1> QED BY <1>1, PlainLen DEF ToSet

LEMMA Joined ==
    ASSUME NEW s, s \in Seq(Range(s)), NEW t, t \in Seq(Range(t))
    PROVE  /\ s \o t \in Seq(Range(s \o t)) /\ Len(s \o t) = Len(s) + Len(t) /\ Len(s) \in Nat /\ Len(t) \in Nat
           /\ \A i \in 1..Len(s) + Len(t) : (s \o t)[i] = IF i <= Len(s) THEN s[i] ELSE t[i - Len(s)]
  <1> DEFINE S == Range(s) \cup Range(t)
  <1>1. s \in Seq(S) /\ t \in Seq(S)
    BY SeqMonotonic
  <1> HIDE DEF S
  <1>2. s \o t \in Seq(S)
    BY <1>1, ConcatProperties
  <1> QED BY <1>1, <1>2, ConcatProperties, LenProperties, SeqOfRange

LEMMA KeptRange ==
    ASSUME NEW s, s \in Seq(Range(s)), NEW T
    PROVE  /\ Kept(s, T) \in Seq(Range(Kept(s, T))) /\ Len(Kept(s, T)) <= Len(s)
           /\ \A i \in 1..Len(s) : s[i] \in T => \E n \in 1..Len(Kept(s, T)) : Kept(s, T)[n] = s[i]
  <1> DEFINE K == Kept(s, T)
             place == PlacesOf(s, T)
  <1>1. IsKept(K, place, s, T)
    BY KeptLists
  <1> HIDE DEF K, place
  <1> QED BY <1>1, SeqOfRange DEF IsKept, K

\* The reader sees more of the listing.
LEMMA SeenMore ==
    ASSUME NEW w, NEW v, NEW all, Seen(w, all), NEW t,
           w.seen \in Seq(Range(w.seen)), t \in Seq(Range(t)), v.seen = w.seen \o t, v.listed = w.listed,
           Passed(v, all) \in Nat, Passed(w, all) <= Passed(v, all), InStep(t, all, Passed(w, all), Passed(v, all)),
           \A a \in Passed(w, all) + 1..Passed(v, all) : all[a] \in w.listed => \E i \in 1..Len(t) : t[i] = all[a]
    PROVE  Seen(v, all)
  <1> DEFINE S == Range(w.seen) \cup Range(t)
             low == Passed(w, all)
             high == Passed(v, all)
  <1>1. w.seen \in Seq(S) /\ t \in Seq(S)
    BY SeqMonotonic
  <1>2. InStep(v.seen, all, 0, high)
    BY <1>1, JoinInStep DEF Seen
  <1>3. low \in Nat /\ high \in Nat /\ low <= high
    BY DEF Seen
  <1>4. /\ Len(w.seen) \in Nat /\ Len(t) \in Nat /\ Len(v.seen) = Len(w.seen) + Len(t)
        /\ \A i \in 1..Len(w.seen) + Len(t) : v.seen[i] = IF i <= Len(w.seen) THEN w.seen[i] ELSE t[i - Len(w.seen)]
    BY <1>1, ConcatProperties, LenProperties
  <1> HIDE DEF low, high
  <1>5. ASSUME NEW a \in 1..high, all[a] \in v.listed
        PROVE  \E i \in 1..Len(v.seen) : v.seen[i] = all[a]
    <2>1. CASE a <= low
      <3>1. PICK i \in 1..Len(w.seen) : w.seen[i] = all[a]
        BY <1>3, <1>5, <2>1 DEF Seen, low
      <3> QED BY <1>4, <3>1
    <2>2. CASE ~(a <= low)
      <3>1. a \in low + 1..high
        BY <1>3, <2>2
      <3>2. PICK i \in 1..Len(t) : t[i] = all[a]
        BY <1>5, <3>1 DEF low, high
      <3>3. Len(w.seen) + i \in 1..Len(w.seen) + Len(t) /\ ~(Len(w.seen) + i <= Len(w.seen)) /\ (Len(w.seen) + i) - Len(w.seen) = i
        BY <1>4
      <3> QED BY <1>4, <3>2, <3>3
    <2> QED BY <2>1, <2>2
  <1> QED BY <1>2, <1>3, <1>5 DEF Seen, high

\* A page is what comes between two multiples of its size.
LEMMA SliceOK ==
    ASSUME NEW all, Plain(all), NEW page \in Nat \ {0}, NEW size \in Nat \ {0}
    PROVE  LET items == Slice(all, page, size)
               low   == Until(all, (page - 1) * size)
               high  == Until(all, page * size)
           IN /\ items \in Seq(Range(items)) /\ low \in Nat /\ high \in Nat /\ high <= Len(all)
              /\ Len(items) = high - low
              /\ \A k \in 1..Len(items) : items[k] = all[low + k]
  <1> DEFINE items == Slice(all, page, size)
             m == (page - 1) * size
             n == page * size
             l == Len(all)
             high == Until(all, n)
             low == Until(all, m)
  <1>1. m \in Nat /\ n = m + size /\ n \in Nat /\ l \in Nat /\ m < n
    <2>1. page - 1 \in Nat
      OBVIOUS
    <2>2. m \in Nat /\ n \in Nat
      BY <2>1
    <2>3. n = m + size
      BY <2>1
    <2> QED BY <2>2, <2>3, PlainLen
  <1>2. items = SubSeq(all, m + 1, high)
    BY DEF Slice, Until
  <1>3. high = (IF n < l THEN n ELSE l) /\ low = (IF m < l THEN m ELSE l)
    BY DEF Until
  <1> HIDE DEF items, m, n, l, high, low
  <1>4. high \in Nat /\ low \in Nat /\ high <= l /\ low <= high /\ (low < high => low = m)
    BY <1>1, <1>3
  <1>5. CASE low < high
    <2>1. m + 1 \in Int /\ high \in Int /\ m + 1 <= high /\ low = m /\ high - (m + 1) + 1 = high - low
      BY <1>1, <1>4, <1>5
    <2>2. \A i \in m + 1..high : all[i] \in Range(all)
      BY <1>1, <1>4, PlainLen DEF l
    <2>3. /\ items \in Seq(Range(all)) /\ Len(items) = high - (m + 1) + 1
          /\ \A k \in 1..high - (m + 1) + 1 : items[k] = all[m + 1 + k - 1]
      BY <1>2, <2>1, <2>2, SubSeqProperties
    <2>4. \A k \in 1..high - (m + 1) + 1 : m + 1 + k - 1 = m + k
      BY <1>1, <1>4
    <2>5. items \in Seq(Range(items))
      BY <2>3, SeqOfRange
    <2> QED BY <1>4, <2>1, <2>3, <2>4, <2>5 DEF items, low, high, m, n, l
  <1>6. CASE ~(low < high)
    <2>1. high = low /\ m + 1 \in Int /\ high \in Int /\ high < m + 1
      BY <1>1, <1>3, <1>4, <1>6
    <2>2. items = << >>
      BY <1>2, <2>1, SubSeqEmpty
    <2>3. items \in Seq(Range(items)) /\ Len(items) = 0
      BY <2>2, EmptySeq
    <2>4. high - low = 0
      BY <1>4, <2>1
    <2> QED BY <1>4, <2>3, <2>4 DEF items, low, high, m, n, l
  <1> QED BY <1>4, <1>5, <1>6

\* What has been read, and what of it has been passed
LEMMA PassedIn ==
    ASSUME NEW w, WalkType(w), NEW all, Plain(all)
    PROVE  /\ Got(w) \in Nat /\ Until(all, Got(w)) \in Nat /\ Until(all, Got(w)) <= Len(all) /\ Len(w.items) \in Nat
           /\ Passed(w, all) \in Int /\ Passed(w, all) <= Len(all)
  <1>1. Size(w) \in Nat /\ w.page \in Nat /\ w.page - 1 \in Nat
    <2>1. FeedOK(w.feed) /\ w.asked \in Int /\ w.page \in Nat \ {0}
      BY DEF WalkType
    <2>2. Size(w) \in Nat
      BY <2>1, SizeOK DEF Size
    <2> QED BY <2>1, <2>2
  <1>2. \A m, n \in Nat : m * n \in Nat
    OBVIOUS
  <1>3. Got(w) \in Nat
    BY <1>1, <1>2 DEF Got
  <1>4. Len(all) \in Nat /\ Len(w.items) \in Nat
    BY PlainLen, LenProperties DEF WalkType
  <1>5. Until(all, Got(w)) \in Nat /\ Until(all, Got(w)) <= Len(all)
    BY <1>3, <1>4 DEF Until
  <1> QED BY <1>3, <1>4, <1>5 DEF Passed

\* A walk starts at the first page.
LEMMA StartWalk ==
    ASSUME CatalogOK(catalog), NEW f, FeedOK(f), NEW asked \in Int, NEW claimed,
           claimed # -1 => f.kind = "books" /\ (SameFolding(f) => claimed = Len(Listing(f, catalog)))
    PROVE  WalkOK(Walk(f, asked, claimed), catalog)
  <1> DEFINE w == Walk(f, asked, claimed)
             all == Listing(f, catalog)
  <1>1. /\ DOMAIN w = WalkFields /\ w.phase = "asking" /\ w.feed = f /\ w.asked = asked /\ w.page = 1 /\ w.total = 0
        /\ w.items = << >> /\ w.seen = << >> /\ w.edits = 0 /\ w.steady = TRUE /\ w.claimed = claimed
        /\ w.listed = Offered(f, catalog)
    BY DEF Walk, WalkFields
  <1> HIDE DEF w
  <1>2. << >> \in Seq(Range(<< >>)) /\ Len(<< >>) = 0
    BY EmptySeq
  <1>3. WalkType(w)
    <2>1. w.seen \in Seq(Range(w.seen)) /\ w.items \in Seq(Range(w.items)) /\ Len(w.seen) = 0
      BY <1>1, <1>2
    <2>2. \A i \in 1..Len(w.seen) : w.seen[i].key \in DOMAIN Shelves
      BY <2>1
    <2>3. w.phase # "done" /\ w.phase # "fetching" /\ w.page \in Nat \ {0} /\ w.total \in Nat /\ w.edits \in Nat
      BY <1>1
    <2>4. w.steady \in BOOLEAN /\ w.steady /\ FeedOK(w.feed) /\ w.asked \in Int /\ w.phase = "asking"
      BY <1>1
    <2> QED BY <1>1, <2>1, <2>2, <2>3, <2>4 DEF WalkType
  <1>4. Len(all) \in Nat /\ Size(w) \in Nat
    BY <1>1, ListingOK, PlainLen, SizeOK DEF Size
  <1>5. Got(w) = 0
    BY <1>1, <1>4 DEF Got
  <1>6. Until(all, 0) = 0
    BY <1>4 DEF Until
  <1>7. Passed(w, all) = 0
    BY <1>1, <1>2, <1>5, <1>6 DEF Passed
  <1>8. Seen(w, all) /\ ComingNext(w, all) /\ EndsLast(w, all) /\ ClaimHolds(w, all)
    BY <1>1, <1>2, <1>7 DEF Seen, InStep, ComingNext, EndsLast, ClaimHolds
  <1>9. Going(w, all)
    BY <1>8 DEF Going
  <1> QED BY <1>1, <1>3, <1>9 DEF WalkOK, w

LEMMA FeedsOK == \A f \in Feeds : FeedOK(f)
  <1>1. \A path : \A p : path \notin {"fulltext"} => FeedOK(BookFeed(path, p))
    BY DEF FeedOK, BookFeed
  <1>2. \A path \in EntryPaths : \A l : FeedOK(EntryFeed(path, l))
    BY DEF FeedOK, EntryFeed, EntryPaths, Managed
  <1>3. \A s \in DOMAIN Shelves : \A l : FeedOK(ShelfFeed(s)) /\ FeedOK(ShelfBooks(s, l))
    BY DEF FeedOK, ShelfFeed, ShelfBooks
  <1>4. FeedOK(History) /\ \A s : FeedOK(FullText(s))
    BY DEF FeedOK, History, FullText
  <1>5. /\ FeedOK(AllBooks) /\ FeedOK(NewBooks)
        /\ \A q : FeedOK(SearchBooks(q)) /\ FeedOK(SearchPath(q)) /\ FeedOK(ReadBooks(q)) /\ FeedOK(UnreadBooks(q))
                  /\ FeedOK(ListBooks(q))
    BY <1>1 DEF AllBooks, NewBooks, SearchBooks, SearchPath, ReadBooks, UnreadBooks, ListBooks
  <1>6. /\ \A l : FeedOK(EntryFeed("admin/tags", l)) /\ FeedOK(EntryFeed("admin/authors", l))
        /\ \A path \in {"authors", "series", "publishers", "languages", "ratings", "category", "formats", "shelf", "discover",
                        "authors/letter", "series/letter", "category/letter"} : \A l : FeedOK(EntryFeed(path, l))
    BY <1>2 DEF EntryPaths, Managed
  <1> QED BY <1>3, <1>4, <1>5, <1>6 DEF Feeds

LEMMA FeedOfOK ==
    ASSUME NEW path \in EntryPaths \ (Managed \cup {"discover"}), NEW key, path = "shelf" => key \in DOMAIN Shelves
    PROVE  FeedOK(FeedOf(path, key))
  <1>1. \A p : FeedOK(BookFeed("authors/id", p)) /\ FeedOK(BookFeed("series/id", p)) /\ FeedOK(BookFeed("publishers/id", p))
              /\ FeedOK(BookFeed("languages/id", p)) /\ FeedOK(BookFeed("ratings/id", p))
              /\ FeedOK(BookFeed("category/id", p)) /\ FeedOK(BookFeed("formats/id", p))
    BY DEF FeedOK, BookFeed
  <1>2. key \in DOMAIN Shelves => FeedOK(ShelfFeed(key))
    BY DEF FeedOK, ShelfFeed
  <1> QED BY <1>1, <1>2 DEF FeedOf, EntryPaths, Managed, AuthorBooks, SeriesBooks, PublisherBooks, LanguageBooks,
                            RatingBooks, CategoryBooks, FormatBooks

LEMMA OpenOK == ASSUME ListingInv, Open PROVE ListingInv'
  <1>1. PICK f \in Feeds, asked \in Sizes : walk' = Walk(f, asked, -1)
    BY DEF Open
  <1>2. FeedOK(f) /\ asked \in Int /\ catalog' = catalog /\ CatalogOK(catalog)
    BY FeedsOK, CatalogueAssumption DEF Open, ListingInv
  <1>3. WalkOK(Walk(f, asked, -1), catalog)
    BY <1>2, StartWalk
  <1> QED BY <1>1, <1>2, <1>3 DEF ListingInv

\* What leads on from an entry has what the entry counts, as long as nothing has changed.
LEMMA FollowOK == ASSUME ListingInv, Follow PROVE ListingInv'
  <1> DEFINE w == walk
             path == w.feed.path
             all == Listing(w.feed, catalog)
  <1>1. PICK i \in DOMAIN w.seen, asked \in Sizes :
            walk' = Walk(FeedOf(path, w.seen[i].key), asked, IF w.edits = 0 /\ path # "shelf" THEN w.seen[i].count ELSE -1)
    BY DEF Follow
  <1> DEFINE f == FeedOf(path, w.seen[i].key)
             claimed == IF w.edits = 0 /\ path # "shelf" THEN w.seen[i].count ELSE -1
  <1>2. CatalogOK(catalog) /\ catalog' = catalog /\ w.feed.kind = "entries" /\ path \notin Managed \cup {"discover"}
    BY DEF ListingInv, Follow
  <1>3. WalkType(w) /\ (w.steady => Going(w, all))
    BY DEF ListingInv, WalkOK, Follow, Idle
  <1>4. path \in EntryPaths /\ asked \in Int
    BY <1>2, <1>3, CatalogueAssumption DEF WalkType, FeedOK
  <1>5. i \in 1..Len(w.seen) /\ w.seen[i] \in Range(w.seen)
    BY <1>3, LenProperties, ElementOfSeq DEF WalkType
  <1>6. FeedOK(f)
    BY <1>2, <1>3, <1>4, <1>5, FeedOfOK DEF WalkType
  <1>7. ASSUME claimed # -1
        PROVE  f.kind = "books" /\ (SameFolding(f) => claimed = Len(Listing(f, catalog)))
    <2>1. w.steady /\ claimed = w.seen[i].count /\ path # "shelf"
      BY <1>3, <1>7 DEF WalkType
    <2>2. PICK a \in 1..Passed(w, all) : w.seen[i] = all[a]
      BY <1>3, <1>5, <2>1 DEF Going, Seen, InStep
    <2>3. a \in 1..Len(all)
      <3>1. Plain(all)
        BY <1>2, <1>3, ListingOK DEF WalkType
      <3> HIDE DEF all
      <3>2. Passed(w, all) \in Int /\ Passed(w, all) <= Len(all) /\ Len(all) \in Nat
        BY <1>3, <3>1, PassedIn, PlainLen
      <3> QED BY <2>2, <3>2
    <2>4. PICK key \in Keys(path, catalog) : all[a] = [key |-> Shown(path, catalog, key), count |-> CountUnder(path, catalog, key)]
      BY <1>2, <2>3, EntriesPlain DEF Listing
    <2>5. w.seen[i].key = Shown(path, catalog, key) /\ claimed = CountUnder(path, catalog, key)
      BY <2>1, <2>2, <2>4
    <2>6. path \in EntryPaths \ (Managed \cup {"discover", "shelf"})
      BY <1>2, <1>4, <2>1
    <2> HIDE DEF claimed
    <2>7. f.kind = "books"
      BY <2>6 DEF FeedOf, EntryPaths, Managed, AuthorBooks, SeriesBooks, PublisherBooks, LanguageBooks,
                  RatingBooks, CategoryBooks, FormatBooks, BookFeed
    <2> QED BY <1>2, <2>5, <2>6, <2>7, EntryCounts
  <1> HIDE DEF f, claimed
  <1>8. WalkOK(Walk(f, asked, claimed), catalog)
    BY <1>2, <1>4, <1>6, <1>7, StartWalk
  <1> QED BY <1>1, <1>2, <1>8 DEF ListingInv, f, claimed

LEMMA WalkingOK ==
    ASSUME ListingInv, walk.phase # "idle"
    PROVE  /\ CatalogOK(catalog) /\ WalkType(walk) /\ walk.listed \subseteq Offered(walk.feed, catalog)
           /\ walk.steady => Going(walk, Listing(walk.feed, catalog))
           /\ Plain(Listing(walk.feed, catalog)) /\ Size(walk) \in Nat \ {0}
           /\ walk.page * Size(walk) \in Nat /\ (walk.page - 1) * Size(walk) \in Nat
           /\ DOMAIN walk = WalkFields
  <1>1. CatalogOK(catalog) /\ WalkOK(walk, catalog)
    BY DEF ListingInv, Idle
  <1>2. FeedOK(walk.feed) /\ walk.asked \in Int /\ walk.page \in Nat /\ walk.page - 1 \in Nat
    BY <1>1 DEF WalkOK, WalkType
  <1>3. Plain(Listing(walk.feed, catalog)) /\ Size(walk) \in Nat \ {0}
    BY <1>1, <1>2, ListingOK, SizeOK DEF Size
  <1>4. \A m, n \in Nat : m * n \in Nat
    OBVIOUS
  <1> QED BY <1>1, <1>2, <1>3, <1>4 DEF WalkOK, WalkType

\* After as many pages as there are, all that is listed has been on one.
LEMMA AllRead ==
    ASSUME NEW w, NEW c, Plain(Listing(w.feed, c)), w.listed \subseteq Offered(w.feed, c), w.page * Size(w) \in Nat,
           Len(Listing(w.feed, c)) <= w.page * Size(w)
    PROVE  EndsLast(w, Listing(w.feed, c))
  <1> DEFINE all == Listing(w.feed, c)
  <1>1. Until(all, w.page * Size(w)) = Len(all)
    BY PlainLen DEF Until
  <1>2. \A x \in w.listed : \E a \in 1..Len(all) : all[a] = x
    BY OfferedListed
  <1> HIDE DEF all
  <1>3. EndsLast(w, all)
    BY <1>1, <1>2 DEF EndsLast
  <1> QED BY <1>3 DEF all

\* A count that is not reached yet: of downloads, no fewer than are listed.
LEMMA CountedOK ==
    ASSUME NEW f, NEW c, Plain(Listing(f, c))
    PROVE  Counted(f, c) \in Nat /\ Len(Listing(f, c)) <= Counted(f, c) /\ (f.kind # "history" => Counted(f, c) = Len(Listing(f, c)))
  <1>1. Len(Listing(f, c)) \in Nat /\ Len(Downloads) \in Nat
    BY PlainLen, ListsAssumption, LenProperties
  <1>2. CASE f.kind = "history"
    <2> DEFINE s == [i \in DOMAIN Downloads |-> <<i, Downloads[i]>>]
    <2>1. DOMAIN Downloads = 1..Len(Downloads)
      BY ListsAssumption, LenProperties
    <2>2. s \in [1..Len(Downloads) -> Range(s)]
      BY <2>1 DEF Range
    <2>3. s \in Seq(Range(s))
      BY <1>1, <2>2, SeqDef
    <2>4. Len(s) = Len(Downloads)
      BY <1>1, <2>1, <2>3, LenProperties
    <2>5. Listing(f, c) = Kept(s, (DOMAIN Downloads) \X (DOMAIN c))
      BY <1>2 DEF Listing
    <2> HIDE DEF s
    <2> QED BY <1>1, <1>2, <2>3, <2>4, <2>5, KeptRange DEF Counted
  <1>3. CASE f.kind # "history"
    BY <1>1, <1>3 DEF Counted
  <1> QED BY <1>2, <1>3

LEMMA CountListedOK == ASSUME ListingInv, CountListed PROVE ListingInv'
  <1> DEFINE w == walk
             v == walk'
             all == Listing(w.feed, catalog)
  <1>1. w.phase = "asking" /\ catalog' = catalog /\ v = [w EXCEPT !.phase = "reading", !.total = Counted(w.feed, catalog)]
    BY DEF CountListed
  <1>2. /\ CatalogOK(catalog) /\ WalkType(w) /\ w.listed \subseteq Offered(w.feed, catalog) /\ (w.steady => Going(w, all))
        /\ Plain(all) /\ w.page * Size(w) \in Nat /\ DOMAIN w = WalkFields
    BY <1>1, WalkingOK
  <1>3. /\ DOMAIN v = WalkFields /\ v.phase = "reading" /\ v.feed = w.feed /\ v.asked = w.asked /\ v.page = w.page
        /\ v.total = Counted(w.feed, catalog) /\ v.items = w.items /\ v.seen = w.seen /\ v.more = w.more
        /\ v.edits = w.edits /\ v.listed = w.listed /\ v.steady = w.steady /\ v.claimed = w.claimed
    BY <1>1, <1>2 DEF WalkFields
  <1> HIDE DEF v, w
  <1>4. Counted(w.feed, catalog) \in Nat /\ Len(all) <= v.total /\ (w.feed.kind # "history" => v.total = Len(all)) /\ Len(all) \in Nat
    BY <1>2, <1>3, CountedOK, PlainLen
  <1>5. WalkType(v)
    BY <1>1, <1>2, <1>3, <1>4 DEF WalkType
  <1>6. ASSUME w.steady
        PROVE  Going(v, all)
    <2>1. Size(v) = Size(w)
      BY <1>3 DEF Size
    <2>2. Passed(v, all) = Passed(w, all)
      BY <1>1, <1>3, <2>1 DEF Passed, Got
    <2>3. Going(w, all)
      BY <1>2, <1>6
    <2> HIDE DEF all
    <2>4. Seen(v, all) /\ ComingNext(v, all)
      BY <1>3, <2>2, <2>3 DEF Going, Seen, ComingNext
    <2>5. ClaimHolds(v, all)
      BY <1>3, <1>4, <2>2, <2>3 DEF Going, ClaimHolds
    <2>6. EndsLast(v, all)
      <3>1. CASE Len(all) <= v.page * Size(v)
        BY <1>2, <1>3, <2>1, <3>1, AllRead DEF all
      <3>2. CASE ~(Len(all) <= v.page * Size(v))
        <4>1. ~Ends(v)
          BY <1>2, <1>3, <1>4, <2>1, <3>2 DEF Ends, LinkSize, Size
        <4> QED BY <4>1 DEF EndsLast
      <3> QED BY <3>1, <3>2
    <2> QED BY <2>4, <2>5, <2>6 DEF Going
  <1> QED BY <1>1, <1>2, <1>3, <1>5, <1>6 DEF ListingInv, WalkOK, v

LEMMA ReadPageOK == ASSUME ListingInv, ReadPage PROVE ListingInv'
  <1> DEFINE w == walk
             v == walk'
             f == w.feed
             all == Listing(f, catalog)
             items == Slice(all, w.page, Size(w))
             fetched == f.path # "list" /\ f.kind \notin {"entries", "history"}
             low == Until(all, (w.page - 1) * Size(w))
             high == Until(all, w.page * Size(w))
  <1>1. /\ w.phase \in {"asking", "reading"} /\ catalog' = catalog /\ (w.phase = "reading" <=> CountsFirst(f))
        /\ v = [w EXCEPT !.phase = "fetching",
                         !.total = IF CountsFirst(f) THEN @ ELSE IF f.kind = "shelf" THEN Len(items) ELSE Len(all),
                         !.items = IF fetched THEN items ELSE << >>,
                         !.seen = IF fetched THEN @ ELSE @ \o items]
    BY DEF ReadPage, Size
  <1>2. /\ CatalogOK(catalog) /\ WalkType(w) /\ w.listed \subseteq Offered(f, catalog) /\ (w.steady => Going(w, all))
        /\ Plain(all) /\ w.page * Size(w) \in Nat /\ (w.page - 1) * Size(w) \in Nat /\ Size(w) \in Nat \ {0} /\ DOMAIN w = WalkFields
    BY <1>1, WalkingOK
  <1>3. /\ DOMAIN v = WalkFields /\ v.phase = "fetching" /\ v.feed = f /\ v.asked = w.asked /\ v.page = w.page
        /\ v.total = (IF CountsFirst(f) THEN w.total ELSE IF f.kind = "shelf" THEN Len(items) ELSE Len(all))
        /\ v.items = (IF fetched THEN items ELSE << >>) /\ v.seen = (IF fetched THEN w.seen ELSE w.seen \o items)
        /\ v.more = w.more /\ v.edits = w.edits /\ v.listed = w.listed /\ v.steady = w.steady /\ v.claimed = w.claimed
    BY <1>1, <1>2 DEF WalkFields
  <1>4. /\ items \in Seq(Range(items)) /\ low \in Nat /\ high \in Nat /\ high <= Len(all) /\ Len(items) = high - low
        /\ \A k \in 1..Len(items) : items[k] = all[low + k]
    <2>1. w.page \in Nat \ {0} /\ Plain(all) /\ Size(w) \in Nat \ {0}
      BY <1>2 DEF WalkType
    <2>2. \A page, size \in Nat \ {0} :
            /\ Slice(all, page, size) \in Seq(Range(Slice(all, page, size)))
            /\ Until(all, (page - 1) * size) \in Nat /\ Until(all, page * size) \in Nat /\ Until(all, page * size) <= Len(all)
            /\ Len(Slice(all, page, size)) = Until(all, page * size) - Until(all, (page - 1) * size)
            /\ \A k \in 1..Len(Slice(all, page, size)) : Slice(all, page, size)[k] = all[Until(all, (page - 1) * size) + k]
      <3> HIDE DEF all
      <3> QED BY <2>1, SliceOK
    <2> HIDE DEF all, w
    <2> QED BY <2>1, <2>2, Zenon
  <1>5. w.items = << >> /\ Len(w.items) = 0 /\ w.seen \in Seq(Range(w.seen)) /\ Len(all) \in Nat /\ Len(<< >>) = 0
        /\ Len(items) \in Nat
    BY <1>1, <1>2, <1>4, EmptySeq, PlainLen, LenProperties DEF WalkType
  <1>6. Size(v) = Size(w) /\ Got(v) = w.page * Size(w) /\ Got(w) = (w.page - 1) * Size(w)
    BY <1>1, <1>3 DEF Size, Got
  <1>7. Passed(w, all) = low /\ Passed(v, all) = high - Len(v.items)
    BY <1>4, <1>5, <1>6 DEF Passed
  <1> HIDE DEF v, w, all, items, fetched, low, high
  <1>8. low <= high
    BY <1>4, <1>5
  <1>9. v.seen \in Seq(Range(v.seen)) /\ v.items \in Seq(Range(v.items)) /\ v.total \in Nat
    <2>1. w.seen \o items \in Seq(Range(w.seen \o items))
      BY <1>4, <1>5, Joined
    <2>2. << >> \in Seq(Range(<< >>))
      BY EmptySeq
    <2>3. w.total \in Nat
      BY <1>2 DEF WalkType
    <2> QED BY <1>3, <1>4, <1>5, <2>1, <2>2, <2>3
  <1>10. WalkType(v)
    <2>1. f.kind \in {"entries", "history"} => v.items = << >>
      BY <1>3 DEF fetched
    <2>2. ASSUME f.kind = "entries", f.path = "shelf", NEW i \in 1..Len(v.seen)
          PROVE  v.seen[i].key \in DOMAIN Shelves
      <3>1. v.seen = w.seen \o items
        BY <1>3, <2>2 DEF fetched
      <3>2. CASE i \in 1..Len(w.seen)
        <4>1. v.seen[i] = w.seen[i]
          BY <1>4, <1>5, <3>1, <3>2
        <4> QED BY <1>2, <2>2, <3>2, <4>1 DEF WalkType, f
      <3>3. CASE i \notin 1..Len(w.seen)
        <4>1. i - Len(w.seen) \in 1..Len(items) /\ v.seen[i] = items[i - Len(w.seen)]
          BY <1>4, <1>5, <2>2, <3>1, <3>3
        <4>2. PICK a \in 1..Len(all) : v.seen[i] = all[a]
          <5>1. low + (i - Len(w.seen)) \in 1..Len(all)
            BY <1>4, <1>5, <4>1
          <5> QED BY <1>4, <4>1, <5>1
        <4>3. PICK key \in Keys("shelf", catalog) : all[a] = [key |-> Shown("shelf", catalog, key), count |-> CountUnder("shelf", catalog, key)]
          BY <1>2, <2>2, EntriesPlain DEF all, Listing
        <4> QED BY <4>2, <4>3 DEF Shown, Keys
      <3> QED BY <3>2, <3>3
    <2>3. FeedOK(v.feed) /\ v.asked \in Int /\ v.page \in Nat \ {0} /\ v.edits \in Nat /\ v.steady \in BOOLEAN /\ (v.edits = 0 => v.steady)
      BY <1>2, <1>3 DEF WalkType, f
    <2> QED BY <1>3, <1>9, <2>1, <2>2, <2>3 DEF WalkType
  <1>11. ASSUME w.steady
         PROVE  Going(v, all)
    <2>1. Seen(w, all) /\ EndsLast(w, all) /\ ClaimHolds(w, all)
      BY <1>2, <1>11 DEF Going
    <2>2. EndsLast(v, all)
      <3>1. CASE CountsFirst(f)
        BY <1>1, <1>3, <1>6, <2>1, <3>1 DEF EndsLast, Ends, LinkSize, Size, f
      <3>2. CASE ~CountsFirst(f) /\ (f.kind = "shelf" => Len(items) = 0)
        <4>1. CASE Len(all) <= v.page * Size(v)
          BY <1>2, <1>3, <1>6, <4>1, AllRead DEF all, f
        <4>2. CASE ~(Len(all) <= v.page * Size(v)) /\ f.kind # "shelf"
          BY <1>2, <1>3, <1>5, <1>6, <3>2, <4>2 DEF EndsLast, Ends, LinkSize, Size
        <4>3. CASE f.kind = "shelf"
          <5>1. high = low
            BY <1>4, <3>2, <4>3
          <5>2. (w.page - 1) * Size(w) + Size(w) = w.page * Size(w)
            <6>1. w.page \in Nat
              BY <1>2 DEF WalkType
            <6> QED BY <1>2, <6>1
          <5>3. Len(all) <= w.page * Size(w)
            BY <1>2, <1>5, <5>1, <5>2 DEF low, high, Until
          <5> QED BY <1>2, <1>3, <1>6, <5>3, AllRead DEF all, f
        <4> QED BY <4>1, <4>2, <4>3
      <3>3. CASE ~CountsFirst(f) /\ f.kind = "shelf" /\ Len(items) # 0
        BY <1>3, <1>5, <3>3 DEF EndsLast, Ends
      <3> QED BY <3>1, <3>2, <3>3
    <2>3. CASE fetched
      <3>1. v.items = items /\ v.seen = w.seen /\ Passed(v, all) = low
        <4>1. v.items = items /\ v.seen = w.seen
          BY <1>3, <2>3
        <4> QED BY <1>4, <1>7, <4>1
      <3>2. Seen(v, all) /\ ComingNext(v, all)
        BY <1>3, <1>4, <1>7, <2>1, <3>1 DEF Seen, ComingNext
      <3>3. ClaimHolds(v, all)
        <4>1. ASSUME w.claimed # -1, f.kind = "books"
              PROVE  v.total = Len(all)
          BY <1>1, <1>3, <2>1, <4>1 DEF ClaimHolds, CountsFirst
        <4> QED BY <1>3, <1>7, <2>1, <3>1, <4>1 DEF ClaimHolds, f
      <3> QED BY <2>2, <3>2, <3>3 DEF Going
    <2>4. CASE ~fetched
      <3>1. v.items = << >> /\ v.seen = w.seen \o items /\ Passed(v, all) = high
        <4>1. v.items = << >> /\ v.seen = w.seen \o items
          BY <1>3, <2>4
        <4> QED BY <1>4, <1>5, <1>7, <4>1
      <3>2. InStep(items, all, low, high)
        <4>1. low + Len(items) = high
          BY <1>4
        <4>2. items \in Seq(Range(items)) /\ low \in Int /\ \A k \in 1..Len(items) : items[k] = all[low + k]
          BY <1>4
        <4>3. InStep(items, all, low, low + Len(items))
          BY <4>2, PageInStep, Zenon
        <4> QED BY <4>1, <4>3
      <3>3. ASSUME NEW a \in low + 1..high
            PROVE  \E i \in 1..Len(items) : items[i] = all[a]
        <4>1. a - low \in 1..Len(items) /\ low + (a - low) = a
          BY <1>4
        <4> QED BY <1>4, <4>1
      <3>4. Seen(v, all)
        BY <1>3, <1>4, <1>5, <1>7, <1>8, <2>1, <3>1, <3>2, <3>3, SeenMore
      <3>5. ComingNext(v, all)
        BY <1>5, <3>1 DEF ComingNext
      <3>6. ClaimHolds(v, all)
        <4>1. ASSUME w.claimed # -1, f.kind = "books"
              PROVE  v.total = Len(all)
          BY <1>1, <1>3, <2>1, <4>1 DEF ClaimHolds, CountsFirst
        <4>2. Len(v.seen) = Len(w.seen) + Len(items)
          <5>1. Len(w.seen \o items) = Len(w.seen) + Len(items)
            BY <1>4, <1>5, Joined
          <5> QED BY <3>1, <5>1
        <4>3. Len(w.seen) = low => Len(v.seen) = high
          BY <1>4, <4>2
        <4> QED BY <1>3, <1>7, <2>1, <3>1, <4>1, <4>3 DEF ClaimHolds, f
      <3> QED BY <2>2, <3>4, <3>5, <3>6 DEF Going
    <2> QED BY <2>3, <2>4
  <1> QED BY <1>1, <1>2, <1>3, <1>10, <1>11 DEF ListingInv, WalkOK, v, all

\* The reader goes on with a page: it sees t, and is left with rest.
LEMMA PageGoesOn ==
    ASSUME ListingInv, walk.phase = "fetching", walk.feed.kind \notin {"entries", "history"}, catalog' = catalog,
           NEW rest, rest \in Seq(Range(rest)), NEW t, t \in Seq(Range(t)),
           walk' = [walk EXCEPT !.items = rest, !.seen = @ \o t],
           walk.steady =>
               LET all  == Listing(walk.feed, catalog)
                   low  == Passed(walk, all)
                   high == Until(all, Got(walk)) - Len(rest)
               IN /\ low <= high /\ InStep(t, all, low, high)
                  /\ \A a \in low + 1..high : all[a] \in walk.listed => \E i \in 1..Len(t) : t[i] = all[a]
                  /\ \A k \in 1..Len(rest) : rest[k] = all[high + k]
                  /\ walk.feed.kind = "books" => Len(t) = high - low
    PROVE  ListingInv'
  <1> DEFINE w == walk
             v == walk'
             all == Listing(w.feed, catalog)
             low == Passed(w, all)
             high == Passed(v, all)
  <1>1. /\ CatalogOK(catalog) /\ WalkType(w) /\ w.listed \subseteq Offered(w.feed, catalog) /\ (w.steady => Going(w, all))
        /\ Plain(all) /\ DOMAIN w = WalkFields
    BY WalkingOK
  <1>2. /\ DOMAIN v = WalkFields /\ v.phase = "fetching" /\ v.feed = w.feed /\ v.asked = w.asked /\ v.page = w.page
        /\ v.total = w.total /\ v.items = rest /\ v.seen = w.seen \o t /\ v.more = w.more
        /\ v.edits = w.edits /\ v.listed = w.listed /\ v.steady = w.steady /\ v.claimed = w.claimed
    BY <1>1 DEF WalkFields
  <1>3. Got(v) = Got(w) /\ Size(v) = Size(w)
    BY <1>2 DEF Got, Size
  <1>4. high = Until(all, Got(w)) - Len(rest)
    BY <1>2, <1>3 DEF Passed
  <1>5. w.steady => /\ low <= high /\ InStep(t, all, low, high)
                    /\ \A a \in low + 1..high : all[a] \in w.listed => \E i \in 1..Len(t) : t[i] = all[a]
                    /\ \A k \in 1..Len(rest) : rest[k] = all[high + k]
                    /\ w.feed.kind = "books" => Len(t) = high - low
    BY <1>4
  <1>6. w.phase = "fetching" /\ w.feed.kind \notin {"entries", "history"}
    OBVIOUS
  <1> HIDE DEF w, v, all, low, high
  <1>7. w.seen \in Seq(Range(w.seen)) /\ Len(w.seen) \in Nat /\ Len(t) \in Nat /\ Len(rest) \in Nat
    BY <1>1, LenProperties DEF WalkType
  <1>8. v.seen \in Seq(Range(v.seen)) /\ Len(v.seen) = Len(w.seen) + Len(t)
    <2>1. w.seen \o t \in Seq(Range(w.seen \o t)) /\ Len(w.seen \o t) = Len(w.seen) + Len(t)
      BY <1>7, Joined
    <2> QED BY <1>2, <2>1
  <1>9. WalkType(v)
    BY <1>1, <1>2, <1>6, <1>8 DEF WalkType
  <1>10. ASSUME w.steady
         PROVE  Going(v, all)
    <2>1. Seen(w, all) /\ EndsLast(w, all) /\ ClaimHolds(w, all) /\ low \in Nat
      BY <1>1, <1>10 DEF Going, Seen, low
    <2>2. high \in Nat
      <3>1. Until(all, Got(w)) \in Nat
        BY <1>1, PassedIn
      <3> QED BY <1>4, <1>5, <1>7, <1>10, <2>1, <3>1
    <2>3. Seen(v, all)
      BY <1>2, <1>5, <1>7, <1>10, <2>1, <2>2, SeenMore DEF low, high
    <2>4. ComingNext(v, all)
      BY <1>2, <1>5, <1>10 DEF ComingNext, high
    <2>5. EndsLast(v, all)
      BY <1>2, <1>3, <1>6, <2>1 DEF EndsLast, Ends, LinkSize, Size
    <2>6. ClaimHolds(v, all)
      <3>1. w.claimed # -1 => w.feed.kind = "books" /\ Len(w.seen) = low
        BY <2>1 DEF ClaimHolds, low
      <3>2. w.claimed # -1 => Len(v.seen) = high
        BY <1>5, <1>7, <1>8, <1>10, <2>1, <2>2, <3>1
      <3> QED BY <1>2, <1>6, <2>1, <3>2 DEF ClaimHolds, high
    <2> QED BY <2>3, <2>4, <2>5, <2>6 DEF Going
  <1> QED BY <1>1, <1>2, <1>9, <1>10 DEF ListingInv, WalkOK, v, all

LEMMA SummariseOK == ASSUME ListingInv, Summarise PROVE ListingInv'
  <1> DEFINE w == walk
             f == w.feed
             all == Listing(f, catalog)
             T == {b \in DOMAIN catalog : Summarised(f, catalog, b)}
             t == Kept(w.items, T)
             low == Passed(w, all)
             high == Until(all, Got(w)) - Len(<< >>)
  <1>1. w.phase = "fetching" /\ Limited(f) /\ catalog' = catalog /\ walk' = [w EXCEPT !.items = << >>, !.seen = @ \o t]
    BY DEF Summarise
  <1>2. /\ CatalogOK(catalog) /\ WalkType(w) /\ w.listed \subseteq Offered(f, catalog) /\ (w.steady => Going(w, all)) /\ Plain(all)
    BY <1>1, WalkingOK
  <1>3. w.items \in Seq(Range(w.items)) /\ << >> \in Seq(Range(<< >>)) /\ Len(<< >>) = 0 /\ f.kind \in {"hits", "shelved"}
    BY <1>1, <1>2, EmptySeq DEF WalkType, Limited
  <1> HIDE DEF w, all, f, T, low, high
  <1>4. t \in Seq(Range(t)) /\ \A i \in 1..Len(w.items) : w.items[i] \in T => \E n \in 1..Len(t) : t[n] = w.items[i]
    <2> DEFINE s == w.items
    <2>1. s \in Seq(Range(s))
      BY <1>3
    <2> HIDE DEF s
    <2> QED BY <2>1, KeptRange DEF s
  <1>5. ASSUME w.steady
        PROVE  /\ low <= high /\ InStep(t, all, low, high)
               /\ \A a \in low + 1..high : all[a] \in w.listed => \E i \in 1..Len(t) : t[i] = all[a]
    <2>1. low \in Nat /\ \A k \in 1..Len(w.items) : w.items[k] = all[low + k]
      BY <1>2, <1>5 DEF Going, Seen, ComingNext, low
    <2>2. Until(all, Got(w)) \in Nat /\ Until(all, Got(w)) <= Len(all) /\ Len(w.items) \in Nat /\ Len(all) \in Nat
      BY <1>2, PassedIn, PlainLen
    <2>3. high = low + Len(w.items) /\ high <= Len(all) /\ low <= high
      BY <1>3, <2>1, <2>2 DEF low, high, Passed
    <2>4. InStep(t, all, low, low + Len(w.items))
      <3> DEFINE s == w.items
      <3>1. s \in Seq(Range(s)) /\ low \in Int /\ \A k \in 1..Len(s) : s[k] = all[low + k]
        BY <1>3, <2>1
      <3> HIDE DEF s
      <3> QED BY <3>1, KeptInStep, Zenon DEF s
    <2>5. ASSUME NEW a \in low + 1..high, all[a] \in w.listed
          PROVE  \E i \in 1..Len(t) : t[i] = all[a]
      <3>1. a - low \in 1..Len(w.items) /\ low + (a - low) = a
        BY <2>1, <2>2, <2>3
      <3>2. w.items[a - low] = all[a]
        BY <2>1, <3>1
      <3>3. all[a] \in T
        BY <1>1, <1>2, <2>5 DEF Offered, T, Summarised
      <3>4. \E n \in 1..Len(t) : t[n] = w.items[a - low]
        BY <1>4, <3>1, <3>2, <3>3
      <3> QED BY <3>2, <3>4
    <2> QED BY <2>3, <2>4, <2>5
  <1> HIDE DEF t
  <1>6. \A k \in 1..Len(<< >>) : << >>[k] = all[high + k]
    BY <1>3
  <1> QED BY <1>1, <1>3, <1>4, <1>5, <1>6, PageGoesOn DEF w, all, f, low, high

LEMMA FetchBookOK == ASSUME ListingInv, FetchBook PROVE ListingInv'
  <1> DEFINE w == walk
             f == w.feed
             all == Listing(f, catalog)
             rest == Tail(w.items)
             b == Head(w.items)
             t == IF b \in DOMAIN catalog THEN <<b>> ELSE << >>
             low == Passed(w, all)
             high == Until(all, Got(w)) - Len(rest)
  <1>1. /\ w.phase = "fetching" /\ ~Limited(f) /\ w.items # << >> /\ catalog' = catalog
        /\ walk' = [w EXCEPT !.items = rest, !.seen = IF b \in DOMAIN catalog THEN Append(@, b) ELSE @]
    BY DEF FetchBook
  <1>2. /\ CatalogOK(catalog) /\ WalkType(w) /\ (w.steady => Going(w, all)) /\ Plain(all) /\ DOMAIN w = WalkFields
    BY <1>1, WalkingOK
  <1>3. f.kind \in {"books", "shelf"} /\ w.items \in Seq(Range(w.items)) /\ w.seen \in Seq(Range(w.seen))
    BY <1>1, <1>2 DEF WalkType, FeedOK, Limited
  <1>4. /\ rest \in Seq(Range(rest)) /\ Len(rest) = Len(w.items) - 1 /\ Len(w.items) \in Nat \ {0} /\ b = w.items[1]
        /\ \A k \in 1..Len(rest) : rest[k] = w.items[k + 1]
    <2>1. Tail(w.items) \in Seq(Range(w.items)) /\ Len(w.items) \in Nat \ {0}
      BY <1>1, <1>3, HeadTailProperties, EmptySeq
    <2> QED BY <1>1, <1>3, <2>1, HeadTailProperties, SeqOfRange
  <1>5. t \in Seq(Range(t)) /\ (IF b \in DOMAIN catalog THEN Append(w.seen, b) ELSE w.seen) = w.seen \o t
    <2>1. w.seen \in Seq(Range(w.seen) \cup {b})
      BY <1>3, SeqMonotonic
    <2>2. Append(w.seen, b) = w.seen \o <<b>> /\ w.seen \o << >> = w.seen
      BY <2>1, AppendIsConcat, ConcatEmptySeq
    <2>3. <<b>> \in Seq({b}) /\ << >> \in Seq({b})
      OBVIOUS
    <2> QED BY <2>2, <2>3, SeqOfRange
  <1>6. walk' = [w EXCEPT !.items = rest, !.seen = @ \o t]
    BY <1>1, <1>2, <1>5 DEF WalkFields
  <1> HIDE DEF w, all, f, rest, b, low, high
  <1>7. ASSUME w.steady
        PROVE  /\ low <= high /\ InStep(t, all, low, high)
               /\ \A a \in low + 1..high : all[a] \in w.listed => \E i \in 1..Len(t) : t[i] = all[a]
               /\ \A k \in 1..Len(rest) : rest[k] = all[high + k]
               /\ Len(t) = high - low
    <2>1. low \in Nat /\ \A k \in 1..Len(w.items) : w.items[k] = all[low + k]
      BY <1>2, <1>7 DEF Going, Seen, ComingNext, low
    <2>2. Until(all, Got(w)) \in Nat /\ Until(all, Got(w)) <= Len(all) /\ Len(all) \in Nat
      BY <1>2, PassedIn, PlainLen
    <2>3. high = low + 1 /\ high <= Len(all)
      BY <1>4, <2>1, <2>2 DEF low, high, Passed
    <2>4. b = all[high]
      BY <1>4, <2>1, <2>3
    <2>5. b \in DOMAIN catalog
      <3>1. FeedOK(f) /\ high \in 1..Len(all)
        BY <1>2, <2>1, <2>2, <2>3 DEF WalkType, f
      <3> QED BY <1>2, <1>3, <2>4, <3>1, ListingOK DEF all
    <2>6. t = <<b>> /\ Len(t) = 1 /\ t[1] = b
      BY <2>5
    <2> HIDE DEF t
    <2>7. InStep(t, all, low, high)
      BY <2>1, <2>3, <2>4, <2>6 DEF InStep
    <2>8. \A a \in low + 1..high : t[1] = all[a]
      BY <2>1, <2>3, <2>4, <2>6
    <2>9. ASSUME NEW k \in 1..Len(rest)
          PROVE  rest[k] = all[high + k]
      <3>1. k + 1 \in 1..Len(w.items) /\ low + (k + 1) = high + k
        BY <1>4, <2>1, <2>3
      <3> QED BY <1>4, <2>1, <3>1
    <2> QED BY <2>1, <2>3, <2>6, <2>7, <2>8, <2>9
  <1> HIDE DEF t
  <1> QED BY <1>1, <1>3, <1>4, <1>5, <1>6, <1>7, PageGoesOn DEF w, all, f, low, high

LEMMA AnswerOK == ASSUME ListingInv, Answer PROVE ListingInv'
  <1> DEFINE w == walk
             v == walk'
             all == Listing(w.feed, catalog)
             next == HasNext /\ Paged(w.feed)
  <1>1. /\ w.phase = "fetching" /\ w.items = << >> /\ catalog' = catalog
        /\ v = IF next THEN [w EXCEPT !.phase = "asking", !.page = @ + 1] ELSE [w EXCEPT !.phase = "done", !.more = HasNext]
    BY DEF Answer
  <1>2. /\ CatalogOK(catalog) /\ WalkType(w) /\ w.listed \subseteq Offered(w.feed, catalog) /\ (w.steady => Going(w, all))
        /\ Plain(all) /\ DOMAIN w = WalkFields
    BY <1>1, WalkingOK
  <1>3. /\ DOMAIN v = WalkFields /\ v.feed = w.feed /\ v.asked = w.asked
        /\ v.total = w.total /\ v.items = w.items /\ v.seen = w.seen
        /\ v.edits = w.edits /\ v.listed = w.listed /\ v.steady = w.steady /\ v.claimed = w.claimed
        /\ \/ v.phase = "asking" /\ v.page = w.page + 1
           \/ v.phase = "done" /\ v.page = w.page /\ v.more = HasNext
    BY <1>1, <1>2 DEF WalkFields
  <1>4. HasNext = ~Ends(w)
    BY DEF HasNext, Ends
  <1> HIDE DEF w, v, all
  <1>5. w.page \in Nat \ {0} /\ (w.page + 1) - 1 = w.page /\ w.page + 1 \in Nat \ {0}
    BY <1>2 DEF WalkType
  <1>6. Size(v) = Size(w) /\ (v.phase = "done" => Ends(v) = Ends(w)) /\ Got(v) = Got(w)
    <2>1. Size(v) = Size(w)
      BY <1>3 DEF Size
    <2>2. v.phase = "done" => Ends(v) = Ends(w)
      BY <1>3 DEF Ends
    <2>3. Got(v) = Got(w)
      BY <1>1, <1>3, <1>5, <2>1 DEF Got
    <2> QED BY <2>1, <2>2, <2>3
  <1>7. WalkType(v)
    <2>1. v.phase \in {"asking", "done"} /\ v.page \in Nat \ {0}
      BY <1>3, <1>5
    <2>2. v.phase = "done" => v.more = ~Ends(v)
      BY <1>3, <1>4, <1>6
    <2> QED BY <1>1, <1>2, <1>3, <2>1, <2>2 DEF WalkType
  <1>8. ASSUME w.steady
        PROVE  Going(v, all)
    <2>1. Seen(w, all) /\ ComingNext(w, all) /\ EndsLast(w, all) /\ ClaimHolds(w, all)
      BY <1>2, <1>8 DEF Going
    <2>2. Passed(v, all) = Passed(w, all)
      BY <1>3, <1>6 DEF Passed
    <2>3. Seen(v, all) /\ ComingNext(v, all)
      BY <1>3, <2>1, <2>2 DEF Seen, ComingNext
    <2>4. EndsLast(v, all)
      BY <1>1, <1>3, <1>6, <2>1 DEF EndsLast
    <2>5. ClaimHolds(v, all)
      BY <1>1, <1>3, <2>1, <2>2 DEF ClaimHolds
    <2> QED BY <2>3, <2>4, <2>5 DEF Going
  <1> QED BY <1>1, <1>2, <1>3, <1>7, <1>8 DEF ListingInv, WalkOK, v, all

-----------------------------------------------------------------------------

\* What begins alike is alike as far as that.
LEMMA SameStart ==
    ASSUME NEW s, Plain(s), NEW t, Plain(t), NEW n \in Nat, Start(s, n) = Start(t, n), NEW m \in Nat, m <= n
    PROVE  Until(s, m) = Until(t, m) /\ \A a \in 1..Until(s, m) : s[a] = t[a]
  <1>1. Len(s) \in Nat /\ Len(t) \in Nat
    BY PlainLen
  <1>2. \A u : Start(u, n) = SubSeq(u, 1, Until(u, n))
    BY DEF Start, Until
  <1>3. ASSUME NEW u, Plain(u)
        PROVE  /\ Until(u, n) \in Nat /\ Len(Start(u, n)) = Until(u, n)
               /\ \A a \in 1..Until(u, n) : Start(u, n)[a] = u[a]
    <2> DEFINE k == Until(u, n)
    <2>1. k \in Nat /\ k <= Len(u) /\ Len(u) \in Nat
      BY <1>3, PlainLen DEF Until
    <2> HIDE DEF k
    <2>2. \A i \in 1..k : u[i] \in Range(u)
      BY <1>3, <2>1, PlainLen
    <2>3. /\ Len(SubSeq(u, 1, k)) = IF 1 <= k THEN k - 1 + 1 ELSE 0
          /\ \A i \in 1..k - 1 + 1 : SubSeq(u, 1, k)[i] = u[1 + i - 1]
      BY <2>1, <2>2, SubSeqProperties
    <2>4. (IF 1 <= k THEN k - 1 + 1 ELSE 0) = k /\ k - 1 + 1 = k /\ \A i \in 1..k : 1 + i - 1 = i
      BY <2>1
    <2> QED BY <1>2, <2>1, <2>3, <2>4 DEF k
  <1>4. Until(s, n) = Until(t, n) /\ \A a \in 1..Until(s, n) : s[a] = t[a]
    <2>1. /\ Until(s, n) \in Nat /\ Len(Start(s, n)) = Until(s, n)
          /\ \A a \in 1..Until(s, n) : Start(s, n)[a] = s[a]
      BY <1>3
    <2>2. /\ Until(t, n) \in Nat /\ Len(Start(t, n)) = Until(t, n)
          /\ \A a \in 1..Until(t, n) : Start(t, n)[a] = t[a]
      BY <1>3
    <2> QED BY <2>1, <2>2
  <1>5. Until(s, m) = Until(t, m) /\ Until(s, m) <= Until(s, n)
    BY <1>1, <1>4 DEF Until
  <1>6. Until(s, m) \in Nat /\ Until(s, n) \in Nat
    BY <1>1 DEF Until
  <1> QED BY <1>4, <1>5, <1>6

\* A change of the catalogue: a walk stays steady when what has been read of its
\* listing has not changed.
LEMMA BecomesOK == ASSUME ListingInv, NEW c, CatalogOK(c), Becomes(c) PROVE ListingInv'
  <1> DEFINE w == walk
             v == walk'
             f == w.feed
             old == Listing(f, catalog)
             new == Listing(f, c)
             held == Held
  <1>1. catalog' = c
    BY DEF Becomes
  <1>2. CASE w.phase = "idle"
    <2>1. walk' = walk
      BY <1>2 DEF Becomes
    <2>2. walk = Idle
      BY <1>2 DEF ListingInv, WalkOK, WalkType
    <2> QED BY <1>1, <2>1, <2>2 DEF ListingInv
  <1>3. CASE w.phase # "idle"
    <2>1. v = [w EXCEPT !.edits = @ + 1, !.claimed = -1, !.listed = @ \cap Offered(f, c),
                        !.steady = @ /\ Start(old, held) = Start(new, held)]
      BY <1>3 DEF Becomes
    <2>2. /\ WalkType(w) /\ (w.steady => Going(w, old)) /\ Plain(old) /\ DOMAIN w = WalkFields
          /\ w.page * Size(w) \in Nat /\ (w.page - 1) * Size(w) \in Nat /\ Size(w) \in Nat
      BY <1>3, WalkingOK
    <2>3. /\ DOMAIN v = WalkFields /\ v.phase = w.phase /\ v.feed = f /\ v.asked = w.asked /\ v.page = w.page
          /\ v.total = w.total /\ v.items = w.items /\ v.seen = w.seen /\ v.more = w.more
          /\ v.edits = w.edits + 1 /\ v.listed = w.listed \cap Offered(f, c) /\ v.claimed = -1
          /\ v.steady = (w.steady /\ Start(old, held) = Start(new, held))
      BY <2>1, <2>2 DEF WalkFields
    <2>4. held = IF w.phase = "asking" THEN (w.page - 1) * Size(w) ELSE w.page * Size(w)
      BY DEF Held, Size
    <2> HIDE DEF w, v, f, old, new, held
    <2>5. Plain(new)
      BY <2>2, ListingOK DEF WalkType, f, new
    <2>6. Size(v) = Size(w) /\ Ends(v) = Ends(w) /\ Got(v) = Got(w)
      BY <2>3 DEF Size, Ends, Got, f
    <2>7. WalkType(v)
      <3>1. w.edits \in Nat /\ w.steady \in BOOLEAN
        BY <2>2 DEF WalkType
      <3>2. v.edits \in Nat /\ v.edits # 0
        BY <2>3, <3>1
      <3>3. v.steady \in BOOLEAN
        BY <2>3, <3>1
      <3> QED BY <2>2, <2>3, <2>6, <3>2, <3>3 DEF WalkType, f
    <2>8. ASSUME v.steady
          PROVE  Going(v, new)
      <3>1. Going(w, old) /\ Start(old, held) = Start(new, held)
        BY <2>2, <2>3, <2>8
      <3>2. held \in Nat /\ Got(w) <= held /\ Got(w) \in Nat /\ (w.phase # "asking" => held = w.page * Size(w))
        <4>1. (w.page - 1) * Size(w) <= w.page * Size(w)
          <5>1. w.page \in Nat
            BY <2>2 DEF WalkType
          <5>2. (w.page - 1) * Size(w) + Size(w) = w.page * Size(w)
            BY <2>2, <5>1
          <5> QED BY <2>2, <5>2
        <4> QED BY <2>2, <2>4, <4>1 DEF Got
      <3>3. Until(old, Got(w)) = Until(new, Got(w)) /\ \A a \in 1..Until(old, Got(w)) : old[a] = new[a]
        BY <2>2, <2>5, <3>1, <3>2, SameStart
      <3>4. Until(old, held) = Until(new, held) /\ \A a \in 1..Until(old, held) : old[a] = new[a]
        BY <2>2, <2>5, <3>1, <3>2, SameStart
      <3>5. Passed(v, new) = Passed(w, old) /\ Passed(w, old) \in Nat /\ Passed(w, old) = Until(old, Got(w)) - Len(w.items)
        BY <2>3, <2>6, <3>1, <3>3 DEF Passed, Going, Seen
      <3>6. Len(w.items) \in Nat /\ Until(old, Got(w)) \in Nat
        BY <2>2, PassedIn
      <3> DEFINE p == Passed(w, old)
      <3>7. \A a \in 1..p : old[a] = new[a]
        BY <3>3, <3>5, <3>6
      <3> HIDE DEF p
      <3>8. InStep(w.seen, old, 0, p) /\ p \in Nat
        BY <3>1 DEF Going, Seen, p
      <3>9. InStep(w.seen, new, 0, p)
        BY <3>7, <3>8 DEF InStep
      <3>10. Seen(v, new)
        BY <2>3, <3>1, <3>5, <3>7, <3>8, <3>9 DEF Going, Seen, p
      <3>11. ComingNext(v, new)
        <4>1. ASSUME NEW k \in 1..Len(w.items)
              PROVE  w.items[k] = new[p + k]
          <5>1. p + k \in 1..Until(old, Got(w))
            BY <3>5, <3>6 DEF p
          <5> QED BY <3>1, <3>3, <5>1 DEF Going, ComingNext, p
        <4> QED BY <2>3, <3>5, <4>1 DEF ComingNext, p
      <3>12. EndsLast(v, new)
        BY <2>3, <2>6, <3>1, <3>2, <3>4 DEF EndsLast, Going
      <3>13. ClaimHolds(v, new)
        BY <2>3 DEF ClaimHolds
      <3> QED BY <3>10, <3>11, <3>12, <3>13 DEF Going
    <2>9. v.listed \subseteq Offered(v.feed, c)
      BY <2>3
    <2>10. WalkOK(v, c)
      BY <2>3, <2>7, <2>8, <2>9 DEF WalkOK, new, f
    <2> QED BY <1>1, <2>10 DEF ListingInv, v
  <1> QED BY <1>2, <1>3

LEMMA ListingInvStep == ListingInv /\ [CatalogueNext]_catalogueVars => ListingInv'
  <1>1. ASSUME ListingInv, NEW b \in Books, NEW k \in Kinds, ChangeBook(b, k)
        PROVE  ListingInv'
    <2> DEFINE c == [d \in DOMAIN catalog \cup {b} |-> IF d = b THEN k ELSE catalog[d]]
    <2>1. CatalogOK(c)
      <3>1. IsFiniteSet(DOMAIN catalog \cup {b})
        BY <1>1, FS_AddElement DEF ListingInv, CatalogOK
      <3> QED BY <1>1, <3>1 DEF ListingInv, CatalogOK
    <2>2. Becomes(c)
      BY <1>1 DEF ChangeBook
    <2> HIDE DEF c
    <2> QED BY <1>1, <2>1, <2>2, BecomesOK
  <1>2. ASSUME ListingInv, NEW b \in DOMAIN catalog, RemoveBook(b)
        PROVE  ListingInv'
    <2> DEFINE c == [d \in DOMAIN catalog \ {b} |-> catalog[d]]
    <2>1. CatalogOK(c)
      <3>1. IsFiniteSet(DOMAIN catalog \ {b})
        BY <1>2, FS_Subset DEF ListingInv, CatalogOK
      <3> QED BY <1>2, <3>1 DEF ListingInv, CatalogOK
    <2>2. Becomes(c)
      BY <1>2 DEF RemoveBook
    <2> HIDE DEF c
    <2> QED BY <1>2, <2>1, <2>2, BecomesOK
  <1>3. ASSUME ListingInv, UNCHANGED catalogueVars
        PROVE  ListingInv'
    BY <1>3 DEF ListingInv, catalogueVars
  <1> QED BY <1>1, <1>2, <1>3, OpenOK, FollowOK, CountListedOK, ReadPageOK, SummariseOK, FetchBookOK, AnswerOK
          DEF CatalogueNext

\* A walk through the pages of a listing or a feed, of any catalogue, any size of
\* page and with any changes between its statements, sees what WalksSeeAll says.
THEOREM WalksSeeAllCorrect == AlgorithmsSpec => []WalksSeeAll
  <1>1. AlgorithmsInit => ListingInv
    <2>1. DOMAIN << >> = {} /\ IsFiniteSet({})
      BY FS_EmptySet
    <2> QED BY <2>1 DEF AlgorithmsInit, CatalogueInit, ListingInv, CatalogOK
  <1>2. ListingInv /\ [AlgorithmsNext]_<<field, chunkVars, catalogueVars, importVars>> => ListingInv'
    BY ListingInvStep DEF AlgorithmsNext
  <1>3. ASSUME ListingInv
        PROVE  WalksSeeAll
    <2> DEFINE w == walk
               f == w.feed
               all == Listing(f, catalog)
    <2>1. SUFFICES ASSUME w.phase # "idle", w.steady
                   PROVE  /\ \A i, j \in 1..Len(w.seen) : i # j => w.seen[i] # w.seen[j]
                          /\ \A i, j \in 1..Len(w.seen) : i < j /\ f.kind \in {"books", "hits"} =>
                               {w.seen[i], w.seen[j]} \subseteq DOMAIN catalog /\ Comes(f.params, catalog, w.seen[i], w.seen[j])
                          /\ w.phase = "done" /\ ~w.more =>
                               /\ w.listed \subseteq ToSet(w.seen)
                               /\ w.claimed # -1 /\ SameFolding(f) => Len(w.seen) = w.claimed
      BY DEF WalksSeeAll
    <2>2. /\ CatalogOK(catalog) /\ WalkType(w) /\ Going(w, all) /\ Plain(all) /\ FeedOK(f)
      BY <1>3, <2>1, WalkingOK DEF WalkType
    <2> DEFINE p == Passed(w, all)
    <2>3. f.kind \in {"books", "hits"} => /\ \A i \in 1..Len(all) : all[i] \in DOMAIN catalog
                                          /\ \A i, j \in 1..Len(all) : i < j => Comes(f.params, catalog, all[i], all[j])
      BY <2>2, ListingOK
    <2> HIDE DEF w, f, all
    <2>4. p \in Nat /\ p <= Len(all) /\ Len(all) \in Nat /\ InStep(w.seen, all, 0, p)
      BY <2>2, PassedIn, PlainLen DEF Going, Seen
    <2>5. ASSUME NEW i \in 1..Len(w.seen), NEW j \in 1..Len(w.seen), i < j
          PROVE  /\ w.seen[i] # w.seen[j]
                 /\ f.kind \in {"books", "hits"} => {w.seen[i], w.seen[j]} \subseteq DOMAIN catalog
                                                    /\ Comes(f.params, catalog, w.seen[i], w.seen[j])
      <3>1. PICK a \in 1..p, b \in 1..p : a < b /\ w.seen[i] = all[a] /\ w.seen[j] = all[b]
        BY <2>4, <2>5 DEF InStep
      <3>2. a \in 1..Len(all) /\ b \in 1..Len(all) /\ a # b
        BY <2>4, <3>1
      <3> QED BY <2>2, <2>3, <3>1, <3>2 DEF Plain
    <2>6. Len(w.seen) \in Nat /\ DOMAIN w.seen = 1..Len(w.seen)
      BY <2>2, LenProperties DEF WalkType
    <2>7. \A i, j \in 1..Len(w.seen) : i # j => w.seen[i] # w.seen[j]
      <3>1. \A i, j \in 1..Len(w.seen) : i # j => i < j \/ j < i
        BY <2>6
      <3> QED BY <2>5, <3>1
    <2>8. ASSUME w.phase = "done", ~w.more
          PROVE  /\ w.listed \subseteq ToSet(w.seen)
                 /\ w.claimed # -1 /\ SameFolding(f) => Len(w.seen) = w.claimed
      <3>1. Ends(w) /\ w.items = << >> /\ Got(w) = w.page * Size(w)
        BY <2>2, <2>8 DEF WalkType, Got
      <3>2. p = Until(all, w.page * Size(w))
        <4>1. Len(w.items) = 0 /\ Until(all, Got(w)) \in Nat
          BY <2>2, <3>1, EmptySeq, PassedIn
        <4> QED BY <3>1, <4>1 DEF Passed
      <3>3. ASSUME NEW x \in w.listed
            PROVE  x \in ToSet(w.seen)
        <4>1. PICK a \in 1..p : all[a] = x
          BY <2>2, <2>8, <3>1, <3>2 DEF Going, EndsLast
        <4>2. PICK i \in 1..Len(w.seen) : w.seen[i] = x
          BY <2>2, <4>1 DEF Going, Seen
        <4> QED BY <2>6, <4>2 DEF ToSet
      <3>4. ASSUME w.claimed # -1, SameFolding(f)
            PROVE  Len(w.seen) = w.claimed
        <4>1. f.kind = "books" /\ Len(w.seen) = p /\ w.total = Len(all) /\ w.claimed = Len(all)
          BY <2>2, <2>8, <3>4 DEF Going, ClaimHolds, f
        <4>2. ~(w.page * Size(w) < Len(all))
          BY <3>1, <4>1 DEF Ends, LinkSize, Size, f
        <4>3. p = Len(all)
          BY <3>2, <4>2 DEF Until
        <4> QED BY <4>1, <4>3
      <3> QED BY <3>3, <3>4
    <2> QED BY <2>5, <2>7, <2>8 DEF w, f
  <1> QED BY <1>1, <1>2, <1>3, PTL DEF AlgorithmsSpec

-----------------------------------------------------------------------------
(* Chapters cut into chunks                                                  *)

LinesOK ==
    /\ lines \in Seq(Range(lines))
    /\ \A i \in 1..Len(lines) : lines[i].length \in Nat /\ (lines[i].length = 0 <=> lines[i].kind = "blank")

\* Where the splitting of a text is
PlaceOK ==
    /\ cursor \in Nat \ {0} /\ upto \in 0..Len(lines) /\ start \in Nat
    /\ upto = 0 => current = << >> /\ start = 0
    /\ upto # 0 => cursor <= upto + 1 /\ (domain = "narrative" => upto = Len(lines))
    /\ domain = NoDomain => cursor = 1 /\ upto = 0 /\ chunks = << >>

\* Words in their order, of lines before the n-th
Passage(s) == /\ s \in Seq(Nat \X Nat) /\ s # << >>
              /\ \A i, j \in 1..Len(s) : i < j => Before(s[i], s[j])
EndsBefore(s, n) == \A i \in 1..Len(s) : s[i][1] < n

Sized(c) ==
    /\ c.type = "text" => Len(c.words) <= TargetSize + Overlap \/ HasHeading(c)
    /\ c.type = "procedure" => ~IsStep(Last(c.words)[1] + 1)

ChunksOK ==
    /\ chunks \in Seq(Range(chunks))
    /\ \A n \in 1..Len(chunks) : Passage(chunks[n].words) /\ Sized(chunks[n])
    /\ \A n \in 1..Len(chunks) - 1 : Follows(chunks[n].words, chunks[n + 1].words)

\* What a chunk to come may begin with
Continues(s) == chunks # << >> => Follows(chunks[Len(chunks)].words, s)

CurrentOK ==
    /\ current \in Seq(Nat \X Nat)
    /\ current # << >> => /\ Passage(current) /\ EndsBefore(current, cursor) /\ Continues(current)
                          /\ Len(current) <= TargetSize + Overlap /\ start = 0

\* Between two windows of a paragraph
WindowOK ==
    start # 0 =>
    /\ AtParagraph /\ IsLong /\ chunks # << >>
    /\ start >= WindowStep /\ start + Overlap < Len(Paragraph)
    /\ chunks[Len(chunks)].words = SubSeq(Paragraph, start + Overlap - TargetSize + 1, start + Overlap)
    /\ \A k \in 1..start + Overlap : Paragraph[k] \in InChunks

\* What has been read is in a chunk or will be.
InHand == InChunks \cup ToSet(current)
ReadSoFar == \A w \in InChunks : w[1] < cursor \/ (start # 0 /\ w \in ToSet(Paragraph))
Dropped(i) == Breaks(i) /\ ((i > 1 /\ IsBlank(i - 1)) \/ (IsStep(i) /\ ~ProcedureAt(i)))
LinesKept == \A i \in 1..Len(lines) : i < cursor =>
                Words(i) \subseteq InHand \/ (Dropped(i) /\ Words(i) \cap InHand = {})

ChunkInv == LinesOK /\ PlaceOK /\ ChunksOK /\ CurrentOK /\ WindowOK /\ ReadSoFar /\ LinesKept

Pairs == Nat \X Nat

LEMMA PairsOrdered ==
    /\ \A v \in Pairs : ~Before(v, v)
    /\ \A v, w \in Pairs : v # w => Before(v, w) \/ Before(w, v)
    /\ \A u, v, w \in Pairs : Before(u, v) /\ Before(v, w) => Before(u, w)
    /\ \A v, w \in Pairs : Before(v, w) => ~Before(w, v)
  <1>1. \A v \in Pairs : v[1] \in Nat /\ v[2] \in Nat /\ v = <<v[1], v[2]>>
    BY DEF Pairs
  <1>2. \A v, w \in Pairs : v[1] = w[1] /\ v[2] = w[2] => v = w
    BY <1>1
  <1> QED BY <1>1, <1>2 DEF Before

LEMMA WordsIn ==
    ASSUME LinesOK, NEW i \in 1..Len(lines)
    PROVE  /\ Words(i) \subseteq Pairs /\ IsFiniteSet(Words(i))
           /\ \A w \in Words(i) : w[1] = i
           /\ ~IsBlank(i) => Words(i) # {} /\ \E w \in Words(i) : w[2] = 1
           /\ IsBlank(i) => Words(i) = {}
  <1>1. Len(lines) \in Nat /\ i \in Nat /\ lines[i].length \in Nat /\ (lines[i].length = 0 <=> lines[i].kind = "blank")
    BY LenProperties DEF LinesOK
  <1>2. IsFiniteSet({i}) /\ IsFiniteSet(1..lines[i].length)
    <2>1. IsFiniteSet({i})
      BY FS_Singleton
    <2>2. lines[i].length \in Int /\ 1 \in Int
      BY <1>1
    <2>3. IsFiniteSet(1..lines[i].length)
      BY <2>2, FS_Interval
    <2> QED BY <2>1, <2>3
  <1>3. IsFiniteSet(Words(i))
    BY <1>2, FS_Product DEF Words
  <1>4. Words(i) \subseteq Pairs /\ \A w \in Words(i) : w[1] = i
    BY <1>1 DEF Words, Pairs
  <1>5. ASSUME ~IsBlank(i)
        PROVE  \E w \in Words(i) : w[2] = 1
    <2>1. 1 \in 1..lines[i].length
      BY <1>1, <1>5 DEF IsBlank, LinesOf
    <2>2. <<i, 1>> \in Words(i)
      BY <2>1 DEF Words
    <2> QED BY <2>2
  <1>6. ASSUME IsBlank(i)
        PROVE  Words(i) = {}
    <2>1. 1..lines[i].length = {}
      BY <1>1, <1>6 DEF IsBlank, LinesOf
    <2> QED BY <2>1 DEF Words
  <1> QED BY <1>3, <1>4, <1>5, <1>6

\* Words of some lines
WordsFrom(from, to) == UNION {Words(i) : i \in from..to}

LEMMA WordsOfOK ==
    ASSUME LinesOK, NEW from \in 1..Len(lines), NEW to \in from..Len(lines)
    PROVE  /\ WordsOf(from, to) \in Seq(Pairs)
           /\ ToSet(WordsOf(from, to)) = WordsFrom(from, to)
           /\ \A i, j \in 1..Len(WordsOf(from, to)) : i < j => Before(WordsOf(from, to)[i], WordsOf(from, to)[j])
           /\ \A i \in 1..Len(WordsOf(from, to)) : WordsOf(from, to)[i][1] \in from..to
  <1> DEFINE W == WordsFrom(from, to)
             before == [w \in W |-> {v \in W : Before(v, w)}]
             s == WordsOf(from, to)
  <1>1. Len(lines) \in Nat /\ from..to \subseteq 1..Len(lines) /\ from \in Nat /\ to \in Nat
    BY LenProperties DEF LinesOK
  <1>2. W \subseteq Pairs /\ \A w \in W : w[1] \in from..to
    BY <1>1, WordsIn DEF WordsFrom
  <1>3. IsFiniteSet(W)
    <2> DEFINE T == {Words(i) : i \in 1..Len(lines)}
               f == [i \in 1..Len(lines) |-> Words(i)]
    <2>1. f \in Surjection(1..Len(lines), T)
      BY DEF Surjection
    <2>2. \A X \in T : IsFiniteSet(X)
      BY WordsIn
    <2>3. W \subseteq UNION T
      BY <1>1 DEF WordsFrom
    <2> HIDE DEF f, T
    <2>4. IsFiniteSet(T)
      BY <1>1, <2>1, FS_NatSurjection DEF ExistsSurjection
    <2>5. IsFiniteSet(UNION T)
      BY <2>2, <2>4, FS_UNION
    <2> QED BY <2>3, <2>5, FS_Subset
  <1>4. s = InOrder(before)
    BY DEF WordsOf, WordsFrom
  <1>5. DOMAIN before = W /\ \A w \in W : before[w] = {v \in W : Before(v, w)}
    OBVIOUS
  <1> HIDE DEF W, before, s
  <1>6. Orderly(before)
    BY <1>2, <1>3, <1>5, PairsOrdered DEF Orderly
  <1>7. Enumerates(s, W) /\ \A i, j \in 1..Len(s) : i < j => s[i] \in before[s[j]]
    BY <1>4, <1>5, <1>6, InOrderLists
  <1>8. s \in Seq(W) /\ s \in Seq(Pairs) /\ DOMAIN s = 1..Len(s) /\ \A i \in 1..Len(s) : s[i] \in W
    <2>1. s \in Seq(W)
      BY <1>7 DEF Enumerates
    <2> QED BY <1>2, <2>1, SeqMonotonic, LenProperties, ElementOfSeq
  <1>9. ToSet(s) = W
    BY <1>7, <1>8 DEF ToSet, Enumerates
  <1> QED BY <1>2, <1>5, <1>7, <1>8, <1>9 DEF s, W

\* The words of lines of which one is not blank are a passage.
LEMMA WordsOfPassage ==
    ASSUME LinesOK, NEW from \in 1..Len(lines), NEW to \in from..Len(lines), ~IsBlank(from)
    PROVE  Passage(WordsOf(from, to)) /\ Len(WordsOf(from, to)) \in Nat \ {0}
  <1> DEFINE s == WordsOf(from, to)
  <1>1. Words(from) # {}
    BY WordsIn
  <1>2. WordsFrom(from, to) # {}
    <2>1. from \in from..to
      BY LenProperties DEF LinesOK
    <2> QED BY <1>1, <2>1 DEF WordsFrom
  <1>3. s # << >>
    <2>1. ToSet(<< >>) = {}
      BY DEF ToSet
    <2> QED BY <1>2, <2>1, WordsOfOK
  <1> QED BY <1>3, WordsOfOK, EmptySeq DEF Passage, Pairs

\* Where the lines end that go on from one
LEMMA UpToOK ==
    ASSUME Len(lines) \in Nat, NEW i \in 1..Len(lines), NEW stop
    PROVE  /\ UpTo(i, stop) \in i..Len(lines)
           /\ \A k \in i + 1..UpTo(i, stop) : k \notin stop
           /\ UpTo(i, stop) = Len(lines) \/ UpTo(i, stop) + 1 \in stop
  <1> DEFINE S == {j \in i..Len(lines) : j = Len(lines) \/ j + 1 \in stop}
  <1>1. S \in SUBSET Nat /\ Len(lines) \in S
    OBVIOUS
  <1>2. PICK j \in S : \A k \in S : j <= k
    BY <1>1, LeastOne
  <1>3. ASSUME NEW k \in i + 1..j
        PROVE  k \notin stop
    <2>1. k - 1 \in i..Len(lines) /\ k - 1 < j /\ (k - 1) + 1 = k
      OBVIOUS
    <2>2. k - 1 \notin S
      BY <1>2, <2>1
    <2> QED BY <2>1, <2>2
  <1>4. j \in i..Len(lines) /\ (j = Len(lines) \/ j + 1 \in stop)
    OBVIOUS
  <1> HIDE DEF S
  <1>5. \E l \in i..Len(lines) : (\A k \in i + 1..l : k \notin stop) /\ (l = Len(lines) \/ l + 1 \in stop)
    BY <1>3, <1>4
  <1> QED BY <1>5 DEF UpTo

\* The first line from one on that is not blank, or the place after the last
LEMMA NextLine ==
    ASSUME Len(lines) \in Nat, NEW i \in 1..Len(lines)
    PROVE  \E j \in i..Len(lines) + 1 : ~IsBlank(j) /\ \A k \in i..j - 1 : IsBlank(k)
  <1> DEFINE S == {j \in i..Len(lines) + 1 : ~IsBlank(j)}
  <1>1. ~IsBlank(Len(lines) + 1)
    BY DEF IsBlank, LinesOf
  <1>2. S \in SUBSET Nat /\ Len(lines) + 1 \in S
    BY <1>1
  <1>3. PICK j \in S : \A k \in S : j <= k
    BY <1>2, LeastOne
  <1>4. \A k \in i..j - 1 : k \in i..Len(lines) + 1 /\ ~(j <= k)
    OBVIOUS
  <1> QED BY <1>3, <1>4

LEMMA OverlapOK == /\ Overlap \in Nat /\ TargetSize \in Nat \ {0} /\ Overlap < TargetSize
                   /\ WindowStep = TargetSize - Overlap /\ WindowStep \in Nat \ {0}
  BY ChunkerAssumption DEF Overlap, WindowStep

LEMMA PassageIs ==
    ASSUME NEW s, Passage(s)
    PROVE  /\ s \in Seq(Pairs) /\ Len(s) \in Nat \ {0} /\ DOMAIN s = 1..Len(s)
           /\ \A i \in 1..Len(s) : s[i] \in Pairs /\ s[i][1] \in Nat
           /\ Last(s) = s[Len(s)] /\ Len(s) \in 1..Len(s)
  <1>1. s \in Seq(Pairs) /\ s # << >>
    BY DEF Passage, Pairs
  <1>2. Len(s) \in Nat \ {0} /\ DOMAIN s = 1..Len(s)
    BY <1>1, EmptySeq, LenProperties
  <1>3. \A i \in 1..Len(s) : s[i] \in Pairs
    BY <1>1, ElementOfSeq
  <1> QED BY <1>1, <1>2, <1>3 DEF Last, Pairs

LEMMA EmptyPart == ASSUME NEW s, NEW m \in Int, NEW n \in Int, m > n PROVE SubSeq(s, m, n) = << >>
  BY SubSeqEmpty

\* A passage of later lines follows, with nothing repeated.
LEMMA LaterFollows ==
    ASSUME NEW c, Passage(c), NEW d, Passage(d), NEW n \in Nat,
           EndsBefore(c, n), \A i \in 1..Len(d) : d[i][1] >= n
    PROVE  Follows(c, d)
  <1>1. /\ Len(c) \in Nat \ {0} /\ Len(d) \in Nat \ {0} /\ Last(c) = c[Len(c)]
        /\ c[Len(c)][1] \in Nat /\ d[1][1] \in Nat
    BY PassageIs
  <1>2. c[Len(c)][1] < n /\ d[1][1] >= n
    BY <1>1 DEF EndsBefore
  <1>3. Before(Last(c), d[0 + 1])
    BY <1>1, <1>2 DEF Before
  <1>4. SubSeq(d, 1, 0) = SubSeq(c, Len(c) - 0 + 1, Len(c))
    <2>1. Len(c) - 0 + 1 \in Int /\ Len(c) \in Int /\ Len(c) - 0 + 1 > Len(c)
      BY <1>1
    <2>2. SubSeq(d, 1, 0) = << >>
      BY EmptyPart
    <2>3. SubSeq(c, Len(c) - 0 + 1, Len(c)) = << >>
      BY <2>1, EmptyPart
    <2> QED BY <2>2, <2>3
  <1>5. 0 \in 0..Overlap /\ 0 <= Len(c) /\ 0 < Len(d)
    BY <1>1, OverlapOK
  <1> QED BY <1>3, <1>4, <1>5 DEF Follows

\* What is added at its end does not change that a passage follows.
LEMMA MoreFollows ==
    ASSUME NEW c, NEW d, Passage(d), NEW p, Passage(p), Follows(c, d)
    PROVE  Follows(c, d \o p)
  <1>1. PICK o \in 0..Overlap : /\ o <= Len(c) /\ o < Len(d)
                                /\ SubSeq(d, 1, o) = SubSeq(c, Len(c) - o + 1, Len(c))
                                /\ Before(Last(c), d[o + 1])
    BY DEF Follows
  <1>2. o \in Nat /\ Len(d) \in Nat /\ Len(p) \in Nat /\ d \in Seq(Pairs) /\ p \in Seq(Pairs)
    BY PassageIs, OverlapOK
  <1>3. Len(d \o p) = Len(d) + Len(p) /\ \A i \in 1..Len(d) : (d \o p)[i] = d[i]
    BY <1>2, ConcatProperties
  <1>4. SubSeq(d \o p, 1, o) = SubSeq(d, 1, o)
    <2>1. /\ \A i \in 1..o : i \in 1..Len(d) /\ d[i] \in Pairs /\ (d \o p)[i] = d[i] /\ 1 + i - 1 = i
          /\ o \in Int /\ 1 \in Int /\ o - 1 + 1 = o
      BY <1>1, <1>2, <1>3, ElementOfSeq
    <2>2. /\ SubSeq(d, 1, o) \in Seq(Pairs) /\ Len(SubSeq(d, 1, o)) = o
          /\ \A i \in 1..o : SubSeq(d, 1, o)[i] = d[i]
      BY <2>1, <1>2, SubSeqProperties
    <2>3. /\ SubSeq(d \o p, 1, o) \in Seq(Pairs) /\ Len(SubSeq(d \o p, 1, o)) = o
          /\ \A i \in 1..o : SubSeq(d \o p, 1, o)[i] = (d \o p)[i]
      BY <2>1, <1>2, SubSeqProperties
    <2> QED BY <2>1, <2>2, <2>3, SeqEqual
  <1>5. (d \o p)[o + 1] = d[o + 1] /\ o < Len(d \o p)
    BY <1>1, <1>2, <1>3
  <1> QED BY <1>1, <1>4, <1>5 DEF Follows

\* A passage and one of later lines
LEMMA JoinedPassage ==
    ASSUME NEW s, s \in Seq(Pairs), \A i, j \in 1..Len(s) : i < j => Before(s[i], s[j]),
           NEW p, Passage(p), NEW n \in Nat, EndsBefore(s, n), \A i \in 1..Len(p) : p[i][1] >= n
    PROVE  /\ Passage(s \o p) /\ Len(s \o p) = Len(s) + Len(p) /\ Len(s) \in Nat
           /\ \A i \in 1..Len(s) : (s \o p)[i] = s[i]
           /\ \A i \in 1..Len(p) : (s \o p)[Len(s) + i] = p[i]
           /\ ToSet(s \o p) = ToSet(s) \cup ToSet(p)
  <1>1. /\ p \in Seq(Pairs) /\ Len(p) \in Nat \ {0} /\ DOMAIN p = 1..Len(p)
        /\ \A i \in 1..Len(p) : p[i] \in Pairs /\ p[i][1] \in Nat
    BY PassageIs
  <1>2. Len(s) \in Nat /\ DOMAIN s = 1..Len(s) /\ \A i \in 1..Len(s) : s[i] \in Pairs /\ s[i][1] \in Nat
    BY LenProperties, ElementOfSeq DEF Pairs
  <1>3. /\ s \o p \in Seq(Pairs) /\ Len(s \o p) = Len(s) + Len(p)
        /\ \A i \in 1..Len(s) + Len(p) : (s \o p)[i] = IF i <= Len(s) THEN s[i] ELSE p[i - Len(s)]
    BY <1>1, ConcatProperties
  <1>4. DOMAIN (s \o p) = 1..Len(s) + Len(p)
    BY <1>3, LenProperties
  <1>5. \A i \in 1..Len(s) : (s \o p)[i] = s[i]
    BY <1>1, <1>2, <1>3
  <1>6. ASSUME NEW i \in 1..Len(p)
        PROVE  (s \o p)[Len(s) + i] = p[i] /\ Len(s) + i \in 1..Len(s) + Len(p)
    <2>1. Len(s) + i \in 1..Len(s) + Len(p) /\ ~(Len(s) + i <= Len(s)) /\ (Len(s) + i) - Len(s) = i
      BY <1>1, <1>2
    <2> QED BY <1>3, <2>1
  <1>7. ASSUME NEW i \in 1..Len(s) + Len(p), NEW j \in 1..Len(s) + Len(p), i < j
        PROVE  Before((s \o p)[i], (s \o p)[j])
    <2>1. CASE j <= Len(s)
      <3>1. i \in 1..Len(s) /\ j \in 1..Len(s)
        BY <1>1, <1>2, <1>7, <2>1
      <3> QED BY <1>5, <1>7, <3>1
    <2>2. CASE ~(i <= Len(s))
      <3>1. i - Len(s) \in 1..Len(p) /\ j - Len(s) \in 1..Len(p) /\ i - Len(s) < j - Len(s) /\ ~(j <= Len(s))
        BY <1>1, <1>2, <1>7, <2>2
      <3>2. Before(p[i - Len(s)], p[j - Len(s)])
        BY <3>1 DEF Passage
      <3> QED BY <1>3, <2>2, <3>1, <3>2
    <2>3. CASE i <= Len(s) /\ ~(j <= Len(s))
      <3>1. i \in 1..Len(s) /\ j - Len(s) \in 1..Len(p)
        BY <1>1, <1>2, <1>7, <2>3
      <3>2. s[i][1] < n /\ p[j - Len(s)][1] >= n /\ s[i][1] \in Nat /\ p[j - Len(s)][1] \in Nat
        BY <1>1, <1>2, <3>1 DEF EndsBefore
      <3>3. Before(s[i], p[j - Len(s)])
        BY <3>2 DEF Before
      <3> QED BY <1>3, <2>3, <3>3
    <2> QED BY <2>1, <2>2, <2>3
  <1>8. s \o p # << >>
    <2>1. Len(s \o p) # 0
      BY <1>1, <1>2, <1>3
    <2> QED BY <2>1, EmptySeq
  <1>9. ToSet(s \o p) = ToSet(s) \cup ToSet(p)
    <2>1. \A i \in 1..Len(s) + Len(p) : i \in 1..Len(s) \/ i - Len(s) \in 1..Len(p)
      BY <1>1, <1>2
    <2>2. ASSUME NEW i \in 1..Len(s) + Len(p)
          PROVE  (s \o p)[i] \in ToSet(s) \cup ToSet(p)
      <3>1. CASE i <= Len(s)
        BY <1>2, <1>3, <2>2, <3>1 DEF ToSet
      <3>2. CASE ~(i <= Len(s))
        <4>1. i - Len(s) \in DOMAIN p
          BY <1>1, <1>2, <3>2
        <4> QED BY <1>3, <3>2, <4>1 DEF ToSet
      <3> QED BY <3>1, <3>2
    <2>3. ASSUME NEW i \in 1..Len(s)
          PROVE  s[i] \in ToSet(s \o p)
      <3>1. i \in DOMAIN (s \o p)
        BY <1>1, <1>2, <1>4
      <3> QED BY <1>5, <3>1 DEF ToSet
    <2>4. ASSUME NEW i \in 1..Len(p)
          PROVE  p[i] \in ToSet(s \o p)
      <3>1. Len(s) + i \in DOMAIN (s \o p)
        BY <1>4, <1>6
      <3> QED BY <1>6, <3>1 DEF ToSet
    <2>5. ToSet(s \o p) \subseteq ToSet(s) \cup ToSet(p)
      BY <1>4, <2>2 DEF ToSet
    <2>6. ToSet(s) \subseteq ToSet(s \o p)
      BY <1>2, <2>3 DEF ToSet
    <2>7. ToSet(p) \subseteq ToSet(s \o p)
      BY <1>1, <2>4 DEF ToSet
    <2> QED BY <2>5, <2>6, <2>7
  <1>10. s \o p \in Seq(Nat \X Nat)
    BY <1>3 DEF Pairs
  <1>11. \A i, j \in 1..Len(s \o p) : i < j => Before((s \o p)[i], (s \o p)[j])
    BY <1>3, <1>7
  <1> QED BY <1>2, <1>3, <1>5, <1>6, <1>8, <1>9, <1>10, <1>11 DEF Passage

\* A part of a passage
LEMMA PartOf ==
    ASSUME NEW s, Passage(s), NEW m \in Int, NEW n \in Int, m >= 1, m <= n + 1, n <= Len(s)
    PROVE  /\ SubSeq(s, m, n) \in Seq(Pairs)
           /\ Len(SubSeq(s, m, n)) = n - m + 1
           /\ \A i \in 1..n - m + 1 : SubSeq(s, m, n)[i] = s[m + i - 1]
           /\ \A i, j \in 1..Len(SubSeq(s, m, n)) : i < j => Before(SubSeq(s, m, n)[i], SubSeq(s, m, n)[j])
           /\ \A w : w \in ToSet(SubSeq(s, m, n)) <=> \E k \in m..n : w = s[k]
           /\ m <= n => Passage(SubSeq(s, m, n))
  <1> DEFINE t == SubSeq(s, m, n)
  <1>1. Len(s) \in Nat /\ \A i \in m..n : i \in 1..Len(s) /\ s[i] \in Pairs
    BY PassageIs
  <1>2. t \in Seq(Pairs) /\ Len(t) = n - m + 1 /\ \A i \in 1..n - m + 1 : t[i] = s[m + i - 1]
    <2>1. /\ t \in Seq(Pairs) /\ Len(t) = (IF m <= n THEN n - m + 1 ELSE 0)
          /\ \A i \in 1..n - m + 1 : t[i] = s[m + i - 1]
      BY <1>1, SubSeqProperties
    <2>2. (IF m <= n THEN n - m + 1 ELSE 0) = n - m + 1
      OBVIOUS
    <2> QED BY <2>1, <2>2
  <1> HIDE DEF t
  <1>3. DOMAIN t = 1..Len(t) /\ Len(t) \in Nat
    BY <1>2, LenProperties
  <1>4. \A i \in 1..Len(t) : i \in 1..n - m + 1 /\ m + i - 1 \in m..n /\ t[i] = s[m + i - 1]
    BY <1>2
  <1>5. ASSUME NEW i \in 1..Len(t), NEW j \in 1..Len(t), i < j
        PROVE  Before(t[i], t[j])
    <2>1. m + i - 1 \in 1..Len(s) /\ m + j - 1 \in 1..Len(s) /\ m + i - 1 < m + j - 1
      BY <1>1, <1>4, <1>5
    <2>2. Before(s[m + i - 1], s[m + j - 1])
      BY <2>1 DEF Passage
    <2> QED BY <1>4, <2>2
  <1>6. ASSUME NEW k \in m..n
        PROVE  s[k] \in ToSet(t)
    <2>1. k - m + 1 \in 1..n - m + 1 /\ m + (k - m + 1) - 1 = k /\ k - m + 1 \in DOMAIN t
      BY <1>2, <1>3
    <2>2. t[k - m + 1] = s[k]
      BY <1>2, <2>1
    <2> QED BY <2>1, <2>2 DEF ToSet
  <1>7. \A w : w \in ToSet(t) <=> \E k \in m..n : w = s[k]
    BY <1>3, <1>4, <1>6 DEF ToSet
  <1>8. ASSUME m <= n
        PROVE  Passage(t)
    <2>1. Len(t) # 0
      BY <1>2, <1>8
    <2>2. t # << >>
      BY <2>1, EmptySeq
    <2> QED BY <1>2, <1>5, <2>2 DEF Passage, Pairs
  <1> QED BY <1>2, <1>5, <1>7, <1>8 DEF t

\* Its first words, and its last
LEMMA StartOf ==
    ASSUME NEW s, Passage(s), NEW o \in Nat, o <= Len(s)
    PROVE  /\ SubSeq(s, 1, o) \in Seq(Pairs) /\ Len(SubSeq(s, 1, o)) = o
           /\ \A i \in 1..o : SubSeq(s, 1, o)[i] = s[i]
  <1>1. o \in Int /\ 1 \in Int /\ 1 >= 1 /\ 1 <= o + 1 /\ o - 1 + 1 = o /\ \A i \in 1..o : 1 + i - 1 = i
    OBVIOUS
  <1>2. SubSeq(s, 1, o) \in Seq(Pairs)
    BY <1>1, PartOf
  <1>3. Len(SubSeq(s, 1, o)) = o
    BY <1>1, PartOf
  <1>4. \A i \in 1..o : SubSeq(s, 1, o)[i] = s[i]
    BY <1>1, PartOf
  <1> QED BY <1>2, <1>3, <1>4

LEMMA EndOf ==
    ASSUME NEW s, Passage(s), NEW o \in Nat, o <= Len(s)
    PROVE  LET t == SubSeq(s, Len(s) - o + 1, Len(s)) IN
           /\ t \in Seq(Pairs) /\ Len(t) = o
           /\ \A i \in 1..o : Len(s) - o + i \in 1..Len(s) /\ t[i] = s[Len(s) - o + i]
           /\ \A i, j \in 1..Len(t) : i < j => Before(t[i], t[j])
           /\ ToSet(t) \subseteq ToSet(s)
  <1> DEFINE m == Len(s) - o + 1
  <1>1. Len(s) \in Nat /\ DOMAIN s = 1..Len(s)
    BY PassageIs
  <1>2. /\ m \in Int /\ Len(s) \in Int /\ m >= 1 /\ m <= Len(s) + 1 /\ Len(s) <= Len(s) /\ Len(s) - m + 1 = o
        /\ \A i \in 1..o : m + i - 1 = Len(s) - o + i /\ Len(s) - o + i \in 1..Len(s)
        /\ \A k \in m..Len(s) : k \in DOMAIN s
    BY <1>1
  <1> DEFINE t == SubSeq(s, m, Len(s))
  <1> HIDE DEF m
  <1>3. /\ t \in Seq(Pairs) /\ Len(t) = Len(s) - m + 1
        /\ \A i \in 1..Len(s) - m + 1 : t[i] = s[m + i - 1]
        /\ \A i, j \in 1..Len(t) : i < j => Before(t[i], t[j])
        /\ \A w : w \in ToSet(t) <=> \E k \in m..Len(s) : w = s[k]
    <2>1. t \in Seq(Pairs)
      BY <1>2, PartOf
    <2>2. Len(t) = Len(s) - m + 1
      BY <1>2, PartOf
    <2>3. \A i \in 1..Len(s) - m + 1 : t[i] = s[m + i - 1]
      BY <1>2, PartOf
    <2>4. \A i, j \in 1..Len(t) : i < j => Before(t[i], t[j])
      BY <1>2, PartOf
    <2>5. \A w : w \in ToSet(t) <=> \E k \in m..Len(s) : w = s[k]
      BY <1>2, PartOf
    <2> QED BY <2>1, <2>2, <2>3, <2>4, <2>5
  <1>4. ToSet(t) \subseteq ToSet(s)
    BY <1>2, <1>3 DEF ToSet
  <1> HIDE DEF t
  <1>5. /\ t \in Seq(Pairs) /\ Len(t) = o
        /\ \A i \in 1..o : Len(s) - o + i \in 1..Len(s) /\ t[i] = s[Len(s) - o + i]
        /\ \A i, j \in 1..Len(t) : i < j => Before(t[i], t[j])
        /\ ToSet(t) \subseteq ToSet(s)
    BY <1>2, <1>3, <1>4
  <1> QED BY <1>5 DEF t, m

\* A chunk that begins with the end of the one before and goes on with later lines
LEMMA TailsFollow ==
    ASSUME NEW w, Passage(w), NEW p, Passage(p), NEW n \in Nat, EndsBefore(w, n), \A i \in 1..Len(p) : p[i][1] >= n
    PROVE  /\ Passage(Tails(w) \o p) /\ Follows(w, Tails(w) \o p)
           /\ Len(Tails(w) \o p) <= Overlap + Len(p)
           /\ ToSet(Tails(w) \o p) \subseteq ToSet(w) \cup ToSet(p) /\ ToSet(p) \subseteq ToSet(Tails(w) \o p)
  <1> DEFINE o == IF Len(w) <= Overlap THEN Len(w) ELSE Overlap
             t == Tails(w)
  <1>1. /\ Len(w) \in Nat \ {0} /\ Len(p) \in Nat \ {0} /\ o \in 0..Overlap /\ o <= Len(w) /\ Overlap \in Nat
        /\ w \in Seq(Pairs) /\ DOMAIN w = 1..Len(w) /\ \A i \in 1..Len(w) : w[i] \in Pairs /\ w[i][1] \in Nat
    BY PassageIs, OverlapOK
  <1>2. /\ t \in Seq(Pairs) /\ Len(t) = o
        /\ \A i \in 1..o : t[i] = w[Len(w) - o + i] /\ Len(w) - o + i \in 1..Len(w)
        /\ \A i, j \in 1..Len(t) : i < j => Before(t[i], t[j])
        /\ ToSet(t) \subseteq ToSet(w)
    <2>1. CASE Len(w) <= Overlap
      BY <1>1, <2>1 DEF Tails, Passage
    <2>2. CASE ~(Len(w) <= Overlap)
      <3>1. t = SubSeq(w, Len(w) - o + 1, Len(w)) /\ o \in Nat
        BY <1>1, <2>2 DEF Tails
      <3> HIDE DEF o, t
      <3> QED BY <1>1, <3>1, EndOf
    <2> QED BY <2>1, <2>2
  <1> HIDE DEF t, o
  <1>3. EndsBefore(t, n)
    BY <1>2 DEF EndsBefore
  <1>4. /\ Passage(t \o p) /\ Len(t \o p) = o + Len(p) /\ ToSet(t \o p) = ToSet(t) \cup ToSet(p)
        /\ \A i \in 1..o : (t \o p)[i] = t[i]
        /\ \A i \in 1..Len(p) : (t \o p)[o + i] = p[i]
    <2>1. t \in Seq(Pairs) /\ Len(t) = o /\ \A i, j \in 1..Len(t) : i < j => Before(t[i], t[j])
      BY <1>2
    <2>2. /\ Passage(t \o p) /\ Len(t \o p) = Len(t) + Len(p) /\ ToSet(t \o p) = ToSet(t) \cup ToSet(p)
          /\ \A i \in 1..Len(t) : (t \o p)[i] = t[i]
          /\ \A i \in 1..Len(p) : (t \o p)[Len(t) + i] = p[i]
      BY <1>3, <2>1, JoinedPassage
    <2> QED BY <2>1, <2>2
  <1>5. SubSeq(t \o p, 1, o) = SubSeq(w, Len(w) - o + 1, Len(w))
    <2>1. o \in Nat /\ o <= Len(t \o p)
      BY <1>1, <1>4
    <2> DEFINE x == SubSeq(t \o p, 1, o)
               y == SubSeq(w, Len(w) - o + 1, Len(w))
    <2>2. x \in Seq(Pairs) /\ Len(x) = o /\ \A i \in 1..o : x[i] = (t \o p)[i]
      BY <1>4, <2>1, StartOf
    <2>3. y \in Seq(Pairs) /\ Len(y) = o /\ \A i \in 1..o : y[i] = w[Len(w) - o + i]
      BY <1>1, <2>1, EndOf
    <2> HIDE DEF x, y
    <2>4. \A i \in 1..Len(x) : x[i] = y[i]
      BY <1>2, <1>4, <2>2, <2>3
    <2>5. x = y
      BY <2>2, <2>3, <2>4, SeqEqual
    <2> QED BY <2>5 DEF x, y
  <1>6. Before(Last(w), (t \o p)[o + 1])
    <2>1. 1 \in 1..Len(p) /\ (t \o p)[o + 1] = p[1] /\ Len(w) \in 1..Len(w)
      BY <1>1, <1>4
    <2>2. w[Len(w)][1] < n /\ p[1][1] >= n /\ w[Len(w)][1] \in Nat /\ p[1][1] \in Nat
      BY <1>1, <2>1, PassageIs DEF EndsBefore
    <2> QED BY <2>1, <2>2 DEF Before, Last
  <1>7. o < Len(t \o p) /\ Len(t \o p) <= Overlap + Len(p)
    BY <1>1, <1>4
  <1>8. Follows(w, t \o p)
    BY <1>1, <1>5, <1>6, <1>7 DEF Follows
  <1> QED BY <1>2, <1>4, <1>7, <1>8 DEF t

LEMMA SameLines ==
    ASSUME UNCHANGED <<domain, lines>>
    PROVE  /\ LinesOK' = LinesOK
           /\ \A i : IsBlank(i)' = IsBlank(i) /\ Words(i)' = Words(i) /\ Dropped(i)' = Dropped(i)
           /\ \A c : Sized(c)' = Sized(c)
  BY DEF LinesOK, IsBlank, Words, Dropped, Sized, IsStep, IsHeading, IsRecipe, LinesOf, Breaks, Technical, ProcedureAt,
         RecipeAt, HasHeading

LEMMA SameParagraph ==
    ASSUME UNCHANGED <<domain, lines, cursor, upto>>
    PROVE  AtParagraph' = AtParagraph /\ Paragraph' = Paragraph /\ IsLong' = IsLong
  BY DEF AtParagraph, Paragraph, IsLong, ParagraphEnd, UpTo, WordsOf, Words, IsBlank, LinesOf

\* A chunk is added.
LEMMA ChunkAdded ==
    ASSUME ChunksOK, NEW c, Passage(c.words), Sized(c), Continues(c.words),
           chunks' = Append(chunks, c), UNCHANGED <<domain, lines>>
    PROVE  /\ ChunksOK' /\ chunks' # << >> /\ chunks'[Len(chunks')] = c
           /\ InChunks' = InChunks \cup ToSet(c.words)
  <1> DEFINE N == Len(chunks)
  <1>1. chunks \in Seq(Range(chunks)) /\ N \in Nat
    BY LenProperties DEF ChunksOK
  <1>2. chunks \in Seq(Range(chunks) \cup {c}) /\ c \in Range(chunks) \cup {c}
    BY <1>1, SeqMonotonic
  <1>3. /\ chunks' \in Seq(Range(chunks) \cup {c}) /\ chunks' # << >> /\ Len(chunks') = N + 1
        /\ \A n \in 1..N : chunks'[n] = chunks[n]
        /\ chunks'[N + 1] = c
    BY <1>2, AppendProperties
  <1>4. chunks' \in Seq(Range(chunks'))
    BY <1>3, SeqOfRange
  <1>5. \A n \in 1..N + 1 : n \in 1..N \/ n = N + 1
    BY <1>1
  <1>6. ASSUME NEW n \in 1..Len(chunks')
        PROVE  Passage(chunks[n].words)' /\ Sized(chunks[n])'
    <2>1. Passage(chunks'[n].words) /\ Sized(chunks'[n])
      BY <1>3, <1>5 DEF ChunksOK
    <2> QED BY <2>1 DEF Sized, HasHeading, IsHeading, IsStep, LinesOf, Passage
  <1>7. ASSUME NEW n \in 1..Len(chunks') - 1
        PROVE  Follows(chunks'[n].words, chunks'[n + 1].words)
    <2>1. n \in 1..N /\ (n \in 1..N - 1 \/ n = N)
      BY <1>1, <1>3
    <2>2. CASE n \in 1..N - 1
      <3>1. n + 1 \in 1..N
        BY <1>1, <2>2
      <3> QED BY <1>3, <2>1, <2>2, <3>1 DEF ChunksOK
    <2>3. CASE n = N
      <3>1. chunks # << >>
        BY <2>1, <2>3, EmptySeq
      <3> QED BY <1>3, <2>1, <2>3, <3>1 DEF Continues
    <2> QED BY <2>1, <2>2, <2>3
  <1>8. InChunks' = InChunks \cup ToSet(c.words)
    <2>1. InChunks' = UNION {ToSet(chunks'[n].words) : n \in 1..N + 1}
      BY <1>3 DEF InChunks
    <2>2. N + 1 \in 1..N + 1 /\ 1..N \subseteq 1..N + 1
      BY <1>1
    <2>3. ASSUME NEW w
          PROVE  w \in InChunks' <=> w \in InChunks \cup ToSet(c.words)
      <3>1. ASSUME w \in InChunks'
            PROVE  w \in InChunks \cup ToSet(c.words)
        <4>1. PICK n \in 1..N + 1 : w \in ToSet(chunks'[n].words)
          BY <2>1, <3>1
        <4> QED BY <1>3, <1>5, <4>1 DEF InChunks
      <3>2. ASSUME w \in InChunks
            PROVE  w \in InChunks'
        <4>1. PICK n \in 1..N : w \in ToSet(chunks[n].words)
          BY <3>2 DEF InChunks
        <4> QED BY <1>3, <2>1, <2>2, <4>1
      <3>3. ASSUME w \in ToSet(c.words)
            PROVE  w \in InChunks'
        BY <1>3, <2>1, <2>2, <3>3
      <3> QED BY <3>1, <3>2, <3>3
    <2> QED BY <2>3
  <1>9. chunks'[Len(chunks')] = c
    BY <1>3
  <1> QED BY <1>3, <1>4, <1>6, <1>7, <1>8, <1>9 DEF ChunksOK, Passage, Follows, Overlap

LEMMA ChunksSame ==
    ASSUME ChunksOK, UNCHANGED <<domain, lines, chunks>>
    PROVE  ChunksOK' /\ InChunks' = InChunks /\ \A s : Continues(s)' = Continues(s)
  BY SameLines DEF ChunksOK, InChunks, Continues, Passage, Follows, Overlap

\* Words of lines to come are got, of each line all or none.
LEMMA KeptOn ==
    ASSUME LinesOK, LinesKept, cursor \in Nat, cursor' \in Nat, UNCHANGED <<domain, lines>>,
           NEW new, \A w \in new : w[1] \in Nat /\ w[1] >= cursor, InHand' = InHand \cup new,
           \A i \in 1..Len(lines) : cursor <= i /\ i < cursor' =>
               Words(i) \subseteq InHand' \/ (Dropped(i) /\ Words(i) \cap InHand' = {})
    PROVE  LinesKept'
  <1>1. SUFFICES ASSUME NEW i \in 1..Len(lines), i < cursor'
                 PROVE  Words(i) \subseteq InHand' \/ (Dropped(i) /\ Words(i) \cap InHand' = {})
    BY SameLines DEF LinesKept
  <1>2. i \in Nat /\ \A w \in Words(i) : w[1] = i
    BY WordsIn, LenProperties DEF LinesOK
  <1>3. CASE cursor <= i
    BY <1>1, <1>3
  <1>4. CASE ~(cursor <= i)
    <2>1. i < cursor
      BY <1>2, <1>4
    <2>2. Words(i) \cap new = {}
      BY <1>2, <2>1
    <2>3. Words(i) \subseteq InHand \/ (Dropped(i) /\ Words(i) \cap InHand = {})
      BY <2>1 DEF LinesKept
    <2> QED BY <2>2, <2>3
  <1> QED BY <1>3, <1>4

\* What is at the cursor when a text is split
LEMMA ParagraphOK ==
    ASSUME LinesOK, PlaceOK, AtParagraph
    PROVE  /\ cursor \in 1..Len(lines) /\ ~IsBlank(cursor) /\ Len(lines) \in Nat /\ upto # 0
           /\ ParagraphEnd \in cursor..upto /\ ParagraphEnd \in cursor..Len(lines) /\ ParagraphEnd + 1 \in Nat \ {0}
           /\ Passage(Paragraph) /\ Len(Paragraph) \in Nat \ {0}
           /\ ToSet(Paragraph) = WordsFrom(cursor, ParagraphEnd)
           /\ \A i \in 1..Len(Paragraph) : Paragraph[i][1] \in cursor..ParagraphEnd
           /\ \A w \in ToSet(Paragraph) : w[1] \in cursor..ParagraphEnd
  <1>1. Len(lines) \in Nat /\ upto \in 0..Len(lines) /\ cursor \in Nat \ {0} /\ cursor <= upto /\ ~IsBlank(cursor)
    BY LenProperties DEF LinesOK, PlaceOK, AtParagraph
  <1>2. cursor \in 1..Len(lines) /\ upto # 0
    BY <1>1
  <1>3. ParagraphEnd \in cursor..upto
    <2>1. CASE domain = "narrative"
      BY <1>1, <1>2, <2>1, UpToOK DEF ParagraphEnd, PlaceOK
    <2>2. CASE domain # "narrative"
      BY <1>1, <2>2 DEF ParagraphEnd
    <2> QED BY <2>1, <2>2
  <1>4. ParagraphEnd \in cursor..Len(lines) /\ ParagraphEnd + 1 \in Nat \ {0}
    BY <1>1, <1>3
  <1>5. /\ Passage(Paragraph) /\ Len(Paragraph) \in Nat \ {0}
        /\ ToSet(Paragraph) = WordsFrom(cursor, ParagraphEnd)
        /\ \A i \in 1..Len(Paragraph) : Paragraph[i][1] \in cursor..ParagraphEnd
    BY <1>1, <1>2, <1>4, WordsOfPassage, WordsOfOK DEF Paragraph
  <1>6. \A w \in ToSet(Paragraph) : w[1] \in cursor..ParagraphEnd
    BY <1>5, PassageIs DEF ToSet
  <1> QED BY <1>1, <1>2, <1>3, <1>4, <1>5, <1>6

\* Without windows, what is in the chunks is of lines that have been read.
LEMMA ReadBefore ==
    ASSUME ChunksOK, ReadSoFar, start = 0, NEW n \in 1..Len(chunks)
    PROVE  EndsBefore(chunks[n].words, cursor)
  <1>1. Passage(chunks[n].words)
    BY DEF ChunksOK
  <1>2. ASSUME NEW i \in 1..Len(chunks[n].words)
        PROVE  chunks[n].words[i][1] < cursor
    <2>1. chunks[n].words[i] \in InChunks
      BY <1>1, PassageIs DEF InChunks, ToSet
    <2> QED BY <2>1 DEF ReadSoFar
  <1> QED BY <1>2 DEF EndsBefore

\* Between texts and paragraphs, whatever is of later lines may come next.
LEMMA LaterContinues ==
    ASSUME ChunksOK, ReadSoFar, start = 0, cursor \in Nat,
           NEW d, Passage(d), \A i \in 1..Len(d) : d[i][1] >= cursor
    PROVE  Continues(d)
  <1>1. SUFFICES ASSUME chunks # << >>
                 PROVE  Follows(chunks[Len(chunks)].words, d)
    BY DEF Continues
  <1>2. Len(chunks) \in 1..Len(chunks)
    BY <1>1, EmptySeq DEF ChunksOK
  <1>3. Passage(chunks[Len(chunks)].words)
    BY <1>2 DEF ChunksOK
  <1> QED BY <1>2, <1>3, ReadBefore, LaterFollows

LEMMA Bounds ==
    ASSUME ChunkInv
    PROVE  Len(lines) \in Nat /\ cursor \in Nat \ {0} /\ upto \in 0..Len(lines) /\ start \in Nat
  BY LenProperties DEF ChunkInv, LinesOK, PlaceOK

LEMMA ChunkInitOK == ChunkInit => ChunkInv
  <1> SUFFICES ASSUME ChunkInit PROVE ChunkInv
    OBVIOUS
  <1>1. /\ domain = NoDomain /\ lines = << >> /\ cursor = 1 /\ stack = << >>
        /\ upto = 0 /\ current = << >> /\ start = 0 /\ chunks = << >>
    BY DEF ChunkInit
  <1>2. Len(lines) = 0 /\ Len(chunks) = 0 /\ \A S : << >> \in Seq(S)
    BY <1>1, EmptySeq
  <1>3. LinesOK /\ PlaceOK
    BY <1>1, <1>2 DEF LinesOK, PlaceOK
  <1>4. ChunksOK /\ InChunks = {}
    BY <1>1, <1>2 DEF ChunksOK, InChunks
  <1>5. CurrentOK /\ WindowOK /\ ReadSoFar /\ LinesKept
    BY <1>1, <1>2, <1>4 DEF CurrentOK, WindowOK, ReadSoFar, LinesKept
  <1> QED BY <1>3, <1>4, <1>5 DEF ChunkInv

LEMMA ExtractOK == ASSUME ChunkInv, NEW d \in DOMAIN Alphabets, Extract(d) PROVE ChunkInv'
  <1>1. /\ domain = NoDomain /\ domain' = d /\ d # NoDomain
        /\ UNCHANGED <<cursor, stack, upto, current, start, chunks>>
        /\ cursor = 1 /\ upto = 0 /\ chunks = << >> /\ current = << >> /\ start = 0
    BY AlphabetsAssumption DEF Extract, ChunkInv, PlaceOK
  <1>2. PICK n \in 1..MaxLines : lines' \in [1..n -> Alphabets[d]]
    BY DEF Extract
  <1>3. n \in Nat /\ lines' \in Seq(Alphabets[d])
    BY <1>2, ChunkerAssumption, SeqDef
  <1>4. Len(lines') \in Nat /\ lines' \in Seq(Range(lines')) /\ \A i \in 1..Len(lines') : lines'[i] \in Alphabets[d]
    BY <1>3, SeqOfRange, LenProperties, ElementOfSeq
  <1>5. LinesOK'
    BY <1>4, AlphabetsAssumption DEF LinesOK
  <1>6. Len(chunks) = 0 /\ \A S : << >> \in Seq(S)
    BY <1>1, EmptySeq
  <1>7. PlaceOK' /\ CurrentOK' /\ WindowOK'
    BY <1>1, <1>4, <1>6 DEF PlaceOK, CurrentOK, WindowOK
  <1>8. ChunksOK' /\ InChunks' = {}
    BY <1>1, <1>6 DEF ChunksOK, InChunks
  <1>9. ReadSoFar' /\ LinesKept'
    BY <1>1, <1>4, <1>8 DEF ReadSoFar, LinesKept
  <1> QED BY <1>5, <1>7, <1>8, <1>9 DEF ChunkInv

\* Nothing is read, or lines that are blank or dropped.
LEMMA LinesPassed ==
    ASSUME ChunkInv, UNCHANGED <<domain, lines, current, start, chunks>>, start = 0, PlaceOK',
           cursor' \in Nat, cursor' >= cursor,
           \A i \in 1..Len(lines) : cursor <= i /\ i < cursor' =>
               IsBlank(i) \/ (Dropped(i) /\ Words(i) \cap InHand = {})
    PROVE  ChunkInv'
  <1>1. cursor \in Nat /\ LinesOK /\ ChunksOK
    BY Bounds DEF ChunkInv
  <1>2. LinesOK' /\ ChunksOK' /\ InChunks' = InChunks /\ InHand' = InHand /\ \A s : Continues(s)' = Continues(s)
    BY <1>1, SameLines, ChunksSame DEF InHand
  <1>3. CurrentOK'
    <2>1. SUFFICES ASSUME current # << >>
                   PROVE  EndsBefore(current, cursor')
      BY <1>2 DEF ChunkInv, CurrentOK, Passage, EndsBefore, Overlap
    <2>2. Passage(current) /\ EndsBefore(current, cursor)
      BY <2>1 DEF ChunkInv, CurrentOK
    <2> QED BY <1>1, <2>2, PassageIs DEF EndsBefore
  <1>4. WindowOK'
    BY DEF WindowOK
  <1>5. ReadSoFar'
    <2>1. ASSUME NEW w \in InChunks
          PROVE  w[1] < cursor'
      <3>1. PICK n \in 1..Len(chunks) : w \in ToSet(chunks[n].words)
        BY DEF InChunks
      <3>2. Passage(chunks[n].words)
        BY <1>1 DEF ChunksOK
      <3>3. w[1] \in Nat
        BY <3>1, <3>2, PassageIs DEF ToSet
      <3>4. w[1] < cursor
        BY DEF ChunkInv, ReadSoFar
      <3> QED BY <1>1, <3>3, <3>4
    <2> QED BY <1>2, <2>1 DEF ReadSoFar
  <1>6. LinesKept'
    <2>1. \A i \in 1..Len(lines) : IsBlank(i) => Words(i) = {}
      BY <1>1, WordsIn
    <2>2. \A i \in 1..Len(lines) : cursor <= i /\ i < cursor' =>
               Words(i) \subseteq InHand' \/ (Dropped(i) /\ Words(i) \cap InHand' = {})
      BY <1>2, <2>1
    <2>3. InHand' = InHand \cup {}
      BY <1>2
    <2> QED BY <1>1, <2>2, <2>3, KeptOn DEF ChunkInv
  <1> QED BY <1>2, <1>3, <1>4, <1>5, <1>6 DEF ChunkInv

LEMMA NarrativeOK == ASSUME ChunkInv, ChunkNarrative PROVE ChunkInv'
  <1>1. Len(lines) \in Nat /\ cursor \in Nat \ {0} /\ PlaceOK /\ start \in Nat
    BY Bounds DEF ChunkInv
  <1>2. /\ domain # NoDomain /\ upto = 0 /\ cursor <= Len(lines) /\ upto' = Len(lines)
        /\ UNCHANGED <<domain, lines, cursor, stack, current, start, chunks>>
    BY DEF ChunkNarrative, Reading
  <1>3. start = 0
    BY <1>1, <1>2 DEF PlaceOK
  <1>4. PlaceOK'
    BY <1>1, <1>2 DEF PlaceOK
  <1>5. \A i \in 1..Len(lines) : ~(cursor <= i /\ i < cursor')
    BY <1>1, <1>2
  <1> QED BY <1>1, <1>2, <1>3, <1>4, <1>5, LinesPassed

\* All words of some lines become a chunk.
LEMMA LinesChunked ==
    ASSUME ChunkInv, Reading, ~IsBlank(cursor), NEW last \in cursor..Len(lines),
           NEW c, c.words = WordsOf(cursor, last), Sized(c), chunks' = Append(chunks, c), cursor' = last + 1,
           UNCHANGED <<domain, lines, upto, current, start>>
    PROVE  ChunkInv'
  <1>1. /\ Len(lines) \in Nat /\ cursor \in 1..Len(lines) /\ cursor \in Nat \ {0} /\ last \in Nat /\ upto = 0
        /\ LinesOK /\ ChunksOK /\ ReadSoFar /\ domain # NoDomain
    BY Bounds DEF ChunkInv, Reading
  <1>2. start = 0 /\ current = << >>
    BY <1>1 DEF ChunkInv, PlaceOK
  <1>3. Passage(c.words)
    BY <1>1, WordsOfPassage
  <1>4. \A i \in 1..Len(c.words) : c.words[i][1] \in cursor..last
    BY <1>1, WordsOfOK
  <1>5. Continues(c.words)
    <2>1. \A i \in 1..Len(c.words) : c.words[i][1] >= cursor
      BY <1>1, <1>4
    <2> QED BY <1>1, <1>2, <1>3, <2>1, LaterContinues
  <1>6. ChunksOK' /\ chunks' # << >> /\ InChunks' = InChunks \cup ToSet(c.words)
    BY <1>1, <1>3, <1>5, ChunkAdded
  <1>7. ToSet(c.words) = WordsFrom(cursor, last) /\ \A w \in ToSet(c.words) : w[1] \in cursor..last
    <2>1. ToSet(c.words) = WordsFrom(cursor, last)
      BY <1>1, WordsOfOK
    <2> QED BY <1>3, <1>4, <2>1, PassageIs DEF ToSet
  <1>8. LinesOK'
    BY <1>1, SameLines
  <1>9. PlaceOK' /\ CurrentOK' /\ WindowOK'
    <2>1. \A S : << >> \in Seq(S)
      BY EmptySeq
    <2> QED BY <1>1, <1>2, <2>1 DEF PlaceOK, CurrentOK, WindowOK
  <1>10. ReadSoFar'
    <2>1. ASSUME NEW w \in InChunks
          PROVE  w[1] < cursor'
      <3>1. PICK n \in 1..Len(chunks) : w \in ToSet(chunks[n].words)
        BY DEF InChunks
      <3>2. w[1] \in Nat
        BY <1>1, <3>1, PassageIs DEF ChunksOK, ToSet
      <3> QED BY <1>1, <1>2, <3>2 DEF ReadSoFar
    <2>2. \A w \in ToSet(c.words) : w[1] < cursor'
      BY <1>1, <1>7
    <2> QED BY <1>6, <2>1, <2>2 DEF ReadSoFar
  <1>11. LinesKept'
    <2>1. ToSet(current) = {} /\ InHand = InChunks /\ InHand' = InHand \cup ToSet(c.words)
      <3>1. ToSet(current) = {} /\ ToSet(current') = {}
        BY <1>2 DEF ToSet
      <3> QED BY <1>6, <3>1 DEF InHand
    <2>2. \A w \in ToSet(c.words) : w[1] \in Nat /\ w[1] >= cursor
      BY <1>1, <1>7
    <2>3. \A i \in 1..Len(lines) : cursor <= i /\ i < cursor' => Words(i) \subseteq InHand'
      <3>1. \A i \in cursor..last : Words(i) \subseteq WordsFrom(cursor, last)
        BY DEF WordsFrom
      <3>2. \A i \in 1..Len(lines) : cursor <= i /\ i < cursor' => i \in cursor..last
        BY <1>1
      <3> QED BY <1>7, <2>1, <3>1, <3>2
    <2>4. LinesKept /\ cursor \in Nat /\ cursor' \in Nat
      BY <1>1 DEF ChunkInv
    <2> QED BY <1>1, <2>1, <2>2, <2>3, <2>4, KeptOn
  <1> QED BY <1>6, <1>8, <1>9, <1>10, <1>11 DEF ChunkInv

LEMMA KindsApart == \A i : ~(IsStep(i) /\ IsBlank(i)) /\ ~(IsHeading(i) /\ IsBlank(i)) /\ ~(IsRecipe(i) /\ IsBlank(i))
                           /\ ~(IsHeading(i) /\ IsStep(i))
  BY DEF IsStep, IsBlank, IsHeading, IsRecipe, LinesOf

LEMMA HeadingOK == ASSUME ChunkInv, ChunkHeading PROVE ChunkInv'
  <1> DEFINE c == Chunk("text", WordsOf(cursor, cursor), stack')
  <1>1. /\ Reading /\ domain # "narrative" /\ IsHeading(cursor) /\ chunks' = Append(chunks, c)
        /\ cursor' = cursor + 1 /\ UNCHANGED <<domain, lines, upto, current, start>>
    BY DEF ChunkHeading
  <1>2. ~IsBlank(cursor) /\ cursor \in 1..Len(lines) /\ cursor \in cursor..Len(lines) /\ LinesOK
    BY <1>1, KindsApart, Bounds DEF Reading, ChunkInv
  <1>3. c.words = WordsOf(cursor, cursor) /\ c.type = "text"
    BY DEF Chunk
  <1> HIDE DEF c
  <1>4. Passage(c.words) /\ \A i \in 1..Len(c.words) : c.words[i][1] \in cursor..cursor
    BY <1>2, <1>3, WordsOfPassage, WordsOfOK
  <1>5. c.words[1][1] = cursor
    <2>1. 1 \in 1..Len(c.words)
      BY <1>4, PassageIs
    <2> QED BY <1>2, <1>4, <2>1
  <1>6. Sized(c)
    BY <1>1, <1>3, <1>5 DEF Sized, HasHeading
  <1> QED BY <1>1, <1>2, <1>3, <1>6, LinesChunked

LEMMA ProcedureOK == ASSUME ChunkInv, ChunkProcedure PROVE ChunkInv'
  <1> DEFINE stop == (1..Len(lines)) \ LinesOf("step")
             last == UpTo(cursor, stop)
             c == Chunk("procedure", WordsOf(cursor, last), stack)
  <1>1. /\ Reading /\ ProcedureAt(cursor) /\ chunks' = Append(chunks, c)
        /\ cursor' = last + 1 /\ UNCHANGED <<domain, lines, upto, current, start>>
    BY DEF ChunkProcedure
  <1>2. Len(lines) \in Nat /\ cursor \in Nat /\ LinesOK /\ cursor \in 1..Len(lines)
    BY <1>1, Bounds DEF ChunkInv, Reading
  <1>3. IsStep(cursor) /\ ~IsBlank(cursor)
    <2>1. cursor \in cursor..cursor + 2
      BY <1>2
    <2> QED BY <1>1, <2>1, KindsApart DEF ProcedureAt
  <1>4. c.words = WordsOf(cursor, last) /\ c.type = "procedure"
    BY DEF Chunk
  <1> HIDE DEF c, stop
  <1>5. /\ last \in cursor..Len(lines) /\ \A k \in cursor + 1..last : k \notin stop
        /\ last = Len(lines) \/ last + 1 \in stop
    BY <1>2, UpToOK
  <1> HIDE DEF last
  <1>6. IsStep(last) /\ ~IsStep(last + 1)
    <2>1. last = cursor \/ last \in cursor + 1..last
      BY <1>2, <1>5
    <2>2. IsStep(last)
      BY <1>2, <1>3, <1>5, <2>1 DEF IsStep, stop
    <2>3. ~IsStep(last + 1)
      BY <1>2, <1>5 DEF IsStep, stop, LinesOf
    <2> QED BY <2>2, <2>3
  <1>7. Passage(c.words) /\ ToSet(c.words) = WordsFrom(cursor, last) /\ \A i \in 1..Len(c.words) : c.words[i][1] \in cursor..last
    BY <1>2, <1>3, <1>4, <1>5, WordsOfPassage, WordsOfOK
  <1>8. Last(c.words)[1] = last
    <2>1. last \in 1..Len(lines) /\ last \in Nat /\ last \in cursor..last
      BY <1>2, <1>5
    <2>2. PICK w \in Words(last) : w[1] = last
      BY <1>2, <1>6, <2>1, WordsIn, KindsApart
    <2>3. w \in ToSet(c.words)
      BY <1>7, <2>1 DEF WordsFrom
    <2>4. /\ Len(c.words) \in 1..Len(c.words) /\ DOMAIN c.words = 1..Len(c.words) /\ Last(c.words) = c.words[Len(c.words)]
          /\ Len(c.words) \in Nat /\ c.words[Len(c.words)][1] \in Nat
      BY <1>7, PassageIs
    <2>5. PICK i \in 1..Len(c.words) : c.words[i] = w
      BY <2>3, <2>4 DEF ToSet
    <2>6. c.words[Len(c.words)][1] >= last
      <3>1. CASE i = Len(c.words)
        BY <2>1, <2>2, <2>5, <3>1
      <3>2. CASE i < Len(c.words)
        <4>1. Before(w, c.words[Len(c.words)])
          BY <1>7, <2>4, <2>5, <3>2 DEF Passage
        <4> QED BY <2>1, <2>2, <2>4, <4>1 DEF Before
      <3> QED BY <2>4, <3>1, <3>2
    <2> QED BY <1>7, <2>1, <2>4, <2>6
  <1>9. Sized(c)
    BY <1>4, <1>6, <1>8 DEF Sized
  <1> QED BY <1>1, <1>2, <1>3, <1>4, <1>5, <1>9, LinesChunked

LEMMA RecipeOK == ASSUME ChunkInv, ChunkRecipe PROVE ChunkInv'
  <1> DEFINE last == UpTo(cursor, LinesOf("heading"))
             c == Chunk("example", WordsOf(cursor, last), stack)
  <1>1. /\ Reading /\ RecipeAt(cursor) /\ chunks' = Append(chunks, c)
        /\ cursor' = last + 1 /\ UNCHANGED <<domain, lines, upto, current, start>>
    BY DEF ChunkRecipe
  <1>2. Len(lines) \in Nat /\ cursor \in Nat /\ cursor \in 1..Len(lines) /\ ~IsBlank(cursor)
    BY <1>1, Bounds, KindsApart DEF Reading, RecipeAt
  <1>3. c.words = WordsOf(cursor, last) /\ c.type = "example"
    BY DEF Chunk
  <1>4. last \in cursor..Len(lines)
    BY <1>2, UpToOK
  <1> HIDE DEF c, last
  <1>5. Sized(c)
    BY <1>3 DEF Sized
  <1> QED BY <1>1, <1>2, <1>3, <1>4, <1>5, LinesChunked

LEMMA ParagraphFound == ASSUME ChunkInv, ChunkParagraph PROVE ChunkInv'
  <1> DEFINE first == CHOOSE i \in cursor..Len(lines) + 1 : ~IsBlank(i) /\ \A k \in cursor..i - 1 : IsBlank(k)
             last  == UpTo(first, LinesOf("blank") \cup LinesOf("heading"))
             none  == first > Len(lines) \/ Breaks(first)
  <1>1. /\ Reading /\ domain # "narrative" /\ ~IsHeading(cursor) /\ ~ProcedureAt(cursor) /\ ~RecipeAt(cursor)
        /\ IF none THEN cursor' = first + 1 /\ UNCHANGED upto ELSE cursor' = first /\ upto' = last
        /\ UNCHANGED <<domain, lines, stack, current, start, chunks>>
    BY DEF ChunkParagraph
  <1>2. /\ Len(lines) \in Nat /\ cursor \in 1..Len(lines) /\ cursor \in Nat \ {0} /\ upto = 0 /\ domain # NoDomain
        /\ PlaceOK /\ LinesOK /\ start = 0 /\ current = << >>
    BY <1>1, Bounds DEF Reading, ChunkInv, PlaceOK
  <1>3. first \in cursor..Len(lines) + 1 /\ ~IsBlank(first) /\ \A k \in cursor..first - 1 : IsBlank(k)
    BY <1>2, NextLine
  <1>4. ~none => last \in first..Len(lines)
    <2> SUFFICES ASSUME ~none PROVE last \in first..Len(lines)
      OBVIOUS
    <2> HIDE DEF first
    <2>1. first \in 1..Len(lines)
      BY <1>2, <1>3
    <2> QED BY <1>2, <2>1, UpToOK
  <1> HIDE DEF first, last
  <1>5. PlaceOK' /\ cursor' \in Nat /\ cursor' >= cursor
    <2>1. CASE none
      BY <1>1, <1>2, <1>3, <2>1 DEF PlaceOK
    <2>2. CASE ~none
      BY <1>1, <1>2, <1>3, <1>4, <2>2 DEF PlaceOK
    <2> QED BY <2>1, <2>2
  <1>6. ASSUME NEW i \in 1..Len(lines), cursor <= i, i < cursor'
        PROVE  IsBlank(i) \/ (Dropped(i) /\ Words(i) \cap InHand = {})
    <2>1. CASE i \in cursor..first - 1
      BY <1>3, <2>1
    <2>2. CASE i \notin cursor..first - 1
      <3>1. i = first /\ none
        BY <1>1, <1>2, <1>3, <1>6, <2>2
      <3>2. Breaks(first)
        BY <1>2, <1>6, <3>1
      <3>3. Dropped(first)
        <4>1. CASE first = cursor
          <5>1. IsStep(first)
            BY <1>1, <3>2, <4>1 DEF Breaks
          <5> QED BY <1>1, <3>2, <4>1, <5>1 DEF Dropped
        <4>2. CASE first # cursor
          <5>1. first - 1 \in cursor..first - 1 /\ first > 1
            BY <1>2, <1>3, <4>2
          <5> QED BY <1>3, <3>2, <5>1 DEF Dropped
        <4> QED BY <4>1, <4>2
      <3>4. Words(first) \cap InHand = {}
        <4>1. \A w \in Words(first) : w[1] = first
          BY <1>2, <1>6, <3>1, WordsIn
        <4>2. ASSUME NEW w \in InHand
              PROVE  w[1] < cursor
          <5>1. w \in InChunks
            BY <1>2 DEF InHand, ToSet
          <5> QED BY <1>2, <5>1 DEF ChunkInv, ReadSoFar
        <4>3. ~(first < cursor)
          BY <1>2, <1>3
        <4> QED BY <4>1, <4>2, <4>3
      <3> QED BY <3>1, <3>3, <3>4
    <2> QED BY <2>1, <2>2
  <1>7. UNCHANGED <<domain, lines, current, start, chunks>>
    BY <1>1
  <1> QED BY <1>2, <1>5, <1>6, <1>7, LinesPassed

LEMMA SkipBlankOK == ASSUME ChunkInv, SkipBlank PROVE ChunkInv'
  <1>1. /\ cursor <= upto /\ IsBlank(cursor) /\ cursor' = cursor + 1
        /\ UNCHANGED <<domain, lines, stack, upto, current, start, chunks>>
    BY DEF SkipBlank
  <1>2. Len(lines) \in Nat /\ cursor \in Nat \ {0} /\ upto \in 0..Len(lines) /\ PlaceOK
    BY Bounds DEF ChunkInv
  <1>3. start = 0
    BY <1>1 DEF ChunkInv, WindowOK, AtParagraph
  <1>4. PlaceOK' /\ cursor' \in Nat /\ cursor' >= cursor
    BY <1>1, <1>2 DEF PlaceOK
  <1>5. \A i \in 1..Len(lines) : cursor <= i /\ i < cursor' => i = cursor
    BY <1>1, <1>2
  <1> QED BY <1>1, <1>3, <1>4, <1>5, LinesPassed

LEMMA EndTextOK == ASSUME ChunkInv, EndText PROVE ChunkInv'
  <1>1. /\ upto # 0 /\ cursor > upto /\ current = << >> /\ upto' = 0
        /\ UNCHANGED <<domain, lines, cursor, stack, current, start, chunks>>
    BY DEF EndText
  <1>2. Len(lines) \in Nat /\ cursor \in Nat \ {0} /\ upto \in 0..Len(lines) /\ PlaceOK
    BY Bounds DEF ChunkInv
  <1>3. start = 0
    BY <1>1, <1>2 DEF ChunkInv, WindowOK, AtParagraph
  <1>4. PlaceOK' /\ cursor' \in Nat /\ cursor' >= cursor
    BY <1>1, <1>2, <1>3 DEF PlaceOK
  <1>5. \A i \in 1..Len(lines) : ~(cursor <= i /\ i < cursor')
    BY <1>1, <1>2
  <1> QED BY <1>1, <1>3, <1>4, <1>5, LinesPassed

\* What is in the chunks between windows
LEMMA ReadWords ==
    ASSUME ChunksOK, ReadSoFar, start = 0, NEW w \in InChunks
    PROVE  w[1] \in Nat /\ w[1] < cursor
  <1>1. PICK n \in 1..Len(chunks) : w \in ToSet(chunks[n].words)
    BY DEF InChunks
  <1>2. w[1] \in Nat
    BY <1>1, PassageIs DEF ChunksOK, ToSet
  <1> QED BY <1>2 DEF ReadSoFar

LEMMA EmitOK == ASSUME ChunkInv, EmitCurrent PROVE ChunkInv'
  <1> DEFINE c == Chunk("text", current, stack)
  <1>1. /\ upto # 0 /\ current # << >> /\ chunks' = Append(chunks, c) /\ current' = << >>
        /\ UNCHANGED <<domain, lines, cursor, stack, upto, start>>
    BY DEF EmitCurrent
  <1>2. /\ LinesOK /\ PlaceOK /\ ChunksOK /\ ReadSoFar /\ LinesKept /\ Len(lines) \in Nat /\ cursor \in Nat \ {0}
        /\ Passage(current) /\ EndsBefore(current, cursor) /\ Continues(current)
        /\ Len(current) <= TargetSize + Overlap /\ start = 0
    BY <1>1, Bounds DEF ChunkInv, CurrentOK
  <1>3. c.words = current /\ c.type = "text"
    BY DEF Chunk
  <1> HIDE DEF c
  <1>4. Sized(c)
    BY <1>2, <1>3 DEF Sized
  <1>5. ChunksOK' /\ InChunks' = InChunks \cup ToSet(current)
    BY <1>1, <1>2, <1>3, <1>4, ChunkAdded
  <1>6. LinesOK'
    BY <1>1, <1>2, SameLines
  <1>7. PlaceOK' /\ CurrentOK' /\ WindowOK'
    <2>1. \A S : << >> \in Seq(S)
      BY EmptySeq
    <2>2. domain # NoDomain
      BY <1>1, <1>2 DEF PlaceOK
    <2> QED BY <1>1, <1>2, <2>1, <2>2 DEF PlaceOK, CurrentOK, WindowOK
  <1>8. ReadSoFar'
    <2>1. \A w \in ToSet(current) : w[1] < cursor
      BY <1>2, PassageIs DEF EndsBefore, ToSet
    <2>2. \A w \in InChunks : w[1] < cursor
      BY <1>2, ReadWords
    <2> QED BY <1>1, <1>5, <2>1, <2>2 DEF ReadSoFar
  <1>9. LinesKept'
    <2>1. ToSet(current') = {}
      BY <1>1 DEF ToSet
    <2>2. InHand' = InHand \cup {}
      BY <1>5, <2>1 DEF InHand
    <2>3. cursor \in Nat /\ cursor' \in Nat /\ \A i \in 1..Len(lines) : ~(cursor <= i /\ i < cursor')
      BY <1>1, <1>2
    <2>4. \A w \in {} : w[1] \in Nat /\ w[1] >= cursor
      OBVIOUS
    <2>5. \A i \in 1..Len(lines) : cursor <= i /\ i < cursor' =>
            Words(i) \subseteq InHand' \/ (Dropped(i) /\ Words(i) \cap InHand' = {})
      BY <2>3
    <2>6. UNCHANGED <<domain, lines>>
      BY <1>1
    <2> QED BY <1>2, <2>2, <2>3, <2>4, <2>5, <2>6, KeptOn
  <1> QED BY <1>5, <1>6, <1>7, <1>8, <1>9 DEF ChunkInv

\* A paragraph goes into the chunk to come, whatever that is now.
LEMMA ParagraphTaken ==
    ASSUME ChunkInv, AtParagraph, start = 0, cursor' = ParagraphEnd + 1, UNCHANGED <<domain, lines, upto, start>>,
           ChunksOK', InHand' = InHand \cup ToSet(Paragraph), InChunks' \subseteq InChunks \cup ToSet(current),
           Passage(current'), ToSet(current') \subseteq ToSet(current) \cup ToSet(Paragraph), Continues(current)',
           Len(current') <= TargetSize + Overlap
    PROVE  ChunkInv'
  <1>1. /\ LinesOK /\ PlaceOK /\ ChunksOK /\ ReadSoFar /\ LinesKept /\ CurrentOK /\ Len(lines) \in Nat
        /\ cursor \in Nat \ {0} /\ upto \in 0..Len(lines)
    BY Bounds DEF ChunkInv
  <1>2. /\ cursor \in 1..Len(lines) /\ upto # 0 /\ ParagraphEnd \in cursor..upto /\ cursor' \in Nat \ {0}
        /\ ToSet(Paragraph) = WordsFrom(cursor, ParagraphEnd)
        /\ \A w \in ToSet(Paragraph) : w[1] \in cursor..ParagraphEnd
    BY <1>1, ParagraphOK
  <1>3. LinesOK'
    BY <1>1, SameLines
  <1>4. PlaceOK'
    BY <1>1, <1>2 DEF PlaceOK
  <1>5. \A w \in InChunks : w[1] \in Nat /\ w[1] < cursor
    BY <1>1, ReadWords
  <1>6. \A w \in ToSet(current) : w[1] \in Nat /\ w[1] < cursor
    <2>1. CASE current = << >>
      BY <2>1 DEF ToSet
    <2>2. CASE current # << >>
      <3>1. Passage(current) /\ EndsBefore(current, cursor)
        BY <1>1, <2>2 DEF CurrentOK
      <3> QED BY <3>1, PassageIs DEF EndsBefore, ToSet
    <2> QED BY <2>1, <2>2
  <1>7. /\ \A w : w[1] \in Nat /\ w[1] < cursor => w[1] < cursor'
        /\ \A w : w[1] \in cursor..ParagraphEnd => w[1] < cursor' /\ w[1] \in Nat /\ w[1] >= cursor
    BY <1>1, <1>2
  <1>8. EndsBefore(current', cursor')
    <2>1. \A w \in ToSet(current') : w[1] < cursor'
      BY <1>2, <1>6, <1>7
    <2> QED BY <2>1, PassageIs DEF EndsBefore, ToSet
  <1>9. CurrentOK'
    <2>1. Passage(current)'
      BY DEF Passage
    <2>2. EndsBefore(current, cursor)' /\ Continues(current)' /\ (Len(current) <= TargetSize + Overlap)' /\ (start = 0)'
      BY <1>8 DEF EndsBefore, Overlap
    <2>3. (current \in Seq(Nat \X Nat))'
      BY DEF Passage
    <2> QED BY <2>1, <2>2, <2>3 DEF CurrentOK
  <1>10. WindowOK'
    BY DEF WindowOK
  <1>11. ReadSoFar'
    <2>1. \A w \in InChunks' : w[1] < cursor'
      BY <1>5, <1>6, <1>7
    <2> QED BY <2>1 DEF ReadSoFar
  <1>12. LinesKept'
    <2>1. \A w \in ToSet(Paragraph) : w[1] \in Nat /\ w[1] >= cursor
      BY <1>2, <1>7
    <2>2. \A i \in 1..Len(lines) : cursor <= i /\ i < cursor' => Words(i) \subseteq InHand'
      <3>1. \A i \in cursor..ParagraphEnd : Words(i) \subseteq WordsFrom(cursor, ParagraphEnd)
        BY DEF WordsFrom
      <3>2. \A i \in 1..Len(lines) : cursor <= i /\ i < cursor' => i \in cursor..ParagraphEnd
        BY <1>1, <1>2
      <3> QED BY <1>2, <3>1, <3>2
    <2> QED BY <1>1, <1>2, <2>1, <2>2, KeptOn
  <1> QED BY <1>3, <1>4, <1>9, <1>10, <1>11, <1>12 DEF ChunkInv

LEMMA AddParagraphOK == ASSUME ChunkInv, AddParagraph PROVE ChunkInv'
  <1> DEFINE P == Paragraph
             full == current # << >> /\ Len(current) + Len(P) > TargetSize
             c == Chunk("text", current, stack)
  <1>1. /\ AtParagraph /\ ~IsLong /\ cursor' = ParagraphEnd + 1
        /\ chunks' = IF full THEN Append(chunks, c) ELSE chunks
        /\ current' = (IF full THEN Tails(current) ELSE current) \o P
        /\ UNCHANGED <<domain, lines, stack, upto, start>>
    BY DEF AddParagraph
  <1>2. /\ LinesOK /\ PlaceOK /\ ChunksOK /\ ReadSoFar /\ CurrentOK /\ WindowOK /\ cursor \in Nat \ {0}
        /\ TargetSize \in Nat /\ Overlap \in Nat
    BY Bounds, OverlapOK DEF ChunkInv
  <1>3. start = 0
    BY <1>1, <1>2 DEF WindowOK
  <1>4. /\ Passage(P) /\ P \in Seq(Pairs) /\ Len(P) \in Nat \ {0} /\ Len(P) <= TargetSize
        /\ \A i \in 1..Len(P) : P[i][1] >= cursor
    <2>1. Passage(P) /\ Len(P) \in Nat \ {0} /\ \A i \in 1..Len(P) : P[i][1] \in cursor..ParagraphEnd
      BY <1>1, <1>2, ParagraphOK
    <2> QED BY <1>1, <1>2, <2>1, PassageIs DEF IsLong
  <1> HIDE DEF P, c
  <1>5. CASE current = << >>
    <2>1. chunks' = chunks /\ current' = P
      BY <1>1, <1>4, <1>5, ConcatEmptySeq
    <2>2. ChunksOK' /\ InChunks' = InChunks /\ \A s : Continues(s)' = Continues(s)
      BY <1>1, <1>2, <2>1, ChunksSame
    <2>3. ToSet(current) = {}
      BY <1>5 DEF ToSet
    <2>4. InHand' = InHand \cup ToSet(P)
      BY <2>1, <2>2, <2>3 DEF InHand
    <2>5. Continues(P)
      BY <1>2, <1>3, <1>4, LaterContinues
    <2>6. Continues(current)'
      BY <2>1, <2>5 DEF Continues, Follows, Overlap
    <2>7. Len(current') <= TargetSize + Overlap
      BY <1>2, <1>4, <2>1
    <2> QED BY <1>1, <1>3, <1>4, <2>1, <2>2, <2>3, <2>4, <2>6, <2>7, ParagraphTaken DEF P
  <1>6. CASE current # << >> /\ ~full
    <2>1. /\ chunks' = chunks /\ current' = current \o P /\ Len(current) + Len(P) <= TargetSize
          /\ Passage(current) /\ EndsBefore(current, cursor) /\ Continues(current)
      <3>1. Passage(current) /\ EndsBefore(current, cursor) /\ Continues(current)
        BY <1>2, <1>6 DEF CurrentOK
      <3>2. Len(current) \in Nat
        BY <3>1, PassageIs
      <3>3. Len(current) + Len(P) <= TargetSize
        BY <1>2, <1>4, <1>6, <3>2
      <3> QED BY <1>1, <1>6, <3>1, <3>3
    <2>2. ChunksOK' /\ InChunks' = InChunks
      BY <1>1, <1>2, <2>1, ChunksSame
    <2>3. /\ Passage(current \o P) /\ Len(current \o P) = Len(current) + Len(P)
          /\ ToSet(current \o P) = ToSet(current) \cup ToSet(P)
      <3>1. current \in Seq(Pairs) /\ \A i, j \in 1..Len(current) : i < j => Before(current[i], current[j])
        BY <2>1 DEF Passage, Pairs
      <3> QED BY <1>2, <1>4, <2>1, <3>1, JoinedPassage
    <2>4. InHand' = InHand \cup ToSet(P)
      BY <2>1, <2>2, <2>3 DEF InHand
    <2>5. chunks # << >> => Follows(chunks[Len(chunks)].words, current \o P)
      BY <1>4, <2>1, MoreFollows DEF Continues
    <2>6. Continues(current)'
      BY <2>1, <2>5 DEF Continues, Follows, Overlap
    <2>7. Len(current') <= TargetSize + Overlap
      BY <1>2, <1>4, <2>1, <2>3, PassageIs
    <2> QED BY <1>1, <1>3, <2>1, <2>2, <2>3, <2>4, <2>6, <2>7, ParagraphTaken DEF P
  <1>7. CASE full
    <2> DEFINE t == Tails(current) \o P
    <2>1. /\ chunks' = Append(chunks, c) /\ current' = t
          /\ Passage(current) /\ EndsBefore(current, cursor) /\ Continues(current) /\ Len(current) <= TargetSize + Overlap
      BY <1>1, <1>2, <1>7 DEF CurrentOK
    <2>2. c.words = current /\ Sized(c)
      BY <2>1 DEF c, Chunk, Sized
    <2>3. ChunksOK' /\ chunks' # << >> /\ chunks'[Len(chunks')] = c /\ InChunks' = InChunks \cup ToSet(current)
      BY <1>1, <1>2, <2>1, <2>2, ChunkAdded
    <2>4. /\ Passage(t) /\ Follows(current, t) /\ Len(t) <= Overlap + Len(P)
          /\ ToSet(t) \subseteq ToSet(current) \cup ToSet(P) /\ ToSet(P) \subseteq ToSet(t)
      BY <1>2, <1>4, <2>1, TailsFollow
    <2> HIDE DEF t
    <2>5. InHand' = InHand \cup ToSet(P)
      BY <2>1, <2>3, <2>4 DEF InHand
    <2>6. Continues(current)'
      BY <2>1, <2>2, <2>3, <2>4 DEF Continues, Follows, Overlap
    <2>7. Len(current') <= TargetSize + Overlap
      BY <1>2, <1>4, <2>1, <2>4, PassageIs
    <2> QED BY <1>1, <1>3, <2>1, <2>3, <2>4, <2>5, <2>6, <2>7, ParagraphTaken DEF P
  <1> QED BY <1>5, <1>6, <1>7

LEMMA AddWindowOK == ASSUME ChunkInv, AddWindow PROVE ChunkInv'
  <1> DEFINE P == Paragraph
             n == Len(Paragraph)
             end == IF start + TargetSize < n THEN start + TargetSize ELSE n
             c == Chunk("text", SubSeq(P, start + 1, end), stack)
  <1>1. /\ AtParagraph /\ IsLong /\ current = << >> /\ chunks' = Append(chunks, c)
        /\ IF end = n THEN cursor' = ParagraphEnd + 1 /\ start' = 0
           ELSE start' = start + WindowStep /\ UNCHANGED cursor
        /\ UNCHANGED <<domain, lines, stack, upto, current>>
    BY DEF AddWindow
  <1>2. /\ LinesOK /\ PlaceOK /\ ChunksOK /\ ReadSoFar /\ LinesKept /\ WindowOK /\ cursor \in Nat \ {0} /\ start \in Nat
        /\ TargetSize \in Nat \ {0} /\ Overlap \in Nat /\ Overlap < TargetSize /\ Len(lines) \in Nat
        /\ WindowStep = TargetSize - Overlap /\ WindowStep \in Nat \ {0} /\ upto \in 0..Len(lines)
    BY Bounds, OverlapOK DEF ChunkInv
  <1>3. /\ Passage(P) /\ n \in Nat \ {0} /\ n > TargetSize /\ n = Len(P) /\ cursor \in 1..Len(lines)
        /\ \A i \in 1..n : P[i][1] \in cursor..ParagraphEnd
        /\ ToSet(P) = WordsFrom(cursor, ParagraphEnd) /\ \A w \in ToSet(P) : w[1] \in cursor..ParagraphEnd
        /\ ParagraphEnd \in cursor..upto /\ upto # 0 /\ ParagraphEnd + 1 \in Nat \ {0}
    BY <1>1, <1>2, ParagraphOK DEF IsLong
  <1>4. DOMAIN P = 1..n /\ \A i \in 1..n : P[i] \in Pairs
    BY <1>3, PassageIs
  <1>5. /\ start # 0 => /\ start >= WindowStep /\ start + Overlap < n /\ chunks # << >>
                        /\ chunks[Len(chunks)].words = SubSeq(P, start + Overlap - TargetSize + 1, start + Overlap)
                        /\ \A k \in 1..start + Overlap : P[k] \in InChunks
    BY <1>2 DEF WindowOK
  <1> HIDE DEF P, n
  <1>6. /\ end \in Nat /\ end <= n /\ start + Overlap < end /\ start + 1 <= end /\ start + 1 >= 1 /\ start + 1 <= end + 1
        /\ start + 1 \in Int /\ end \in Int /\ end - (start + 1) + 1 = end - start /\ end - start <= TargetSize
        /\ end # n => end = start + TargetSize /\ start + TargetSize < n
    BY <1>2, <1>3, <1>5
  <1> HIDE DEF end
  <1> DEFINE d == SubSeq(P, start + 1, end)
  <1>7. /\ d \in Seq(Pairs) /\ Passage(d)
    BY <1>3, <1>6, PartOf
  <1>8. Len(d) = end - start
    BY <1>3, <1>6, PartOf
  <1>9. \A i \in 1..end - start : d[i] = P[start + i]
    <2>1. \A i \in 1..end - (start + 1) + 1 : d[i] = P[(start + 1) + i - 1]
      BY <1>3, <1>6, PartOf
    <2>2. \A i \in 1..end - start : (start + 1) + i - 1 = start + i
      BY <1>2, <1>6
    <2> QED BY <1>6, <2>1, <2>2
  <1>10. \A w : w \in ToSet(d) <=> \E k \in start + 1..end : w = P[k]
    BY <1>3, <1>6, PartOf
  <1>11. c.words = d /\ c.type = "text"
    BY DEF Chunk
  <1> HIDE DEF c, d
  <1>12. Sized(c)
    BY <1>2, <1>6, <1>8, <1>11 DEF Sized
  <1>13. Continues(d)
    <2>1. CASE start = 0
      <3>1. \A i \in 1..Len(d) : d[i][1] >= cursor
        BY <1>2, <1>3, <1>6, <1>8, <1>9, <2>1
      <3> QED BY <1>2, <1>7, <2>1, <3>1, LaterContinues
    <2>2. CASE start # 0
      <3> DEFINE m == start + Overlap - TargetSize + 1
                 e == start + Overlap
                 b == SubSeq(P, m, e)
      <3>1. /\ m \in Int /\ e \in Int /\ m >= 1 /\ m <= e + 1 /\ e <= n /\ e - m + 1 = TargetSize
            /\ \A i \in 1..TargetSize : m + i - 1 = start + Overlap - TargetSize + i /\ m <= e
        BY <1>2, <1>3, <1>5, <2>2
      <3> HIDE DEF m, e
      <3>2. Passage(b) /\ Len(b) = TargetSize
        <4>1. m <= e
          BY <1>2, <3>1
        <4>2. Passage(b)
          BY <1>3, <3>1, <4>1, PartOf
        <4>3. Len(b) = e - m + 1
          BY <1>3, <3>1, PartOf
        <4> QED BY <3>1, <4>2, <4>3
      <3>3. \A i \in 1..TargetSize : b[i] = P[start + Overlap - TargetSize + i]
        <4>1. \A i \in 1..e - m + 1 : b[i] = P[m + i - 1]
          BY <1>3, <3>1, PartOf
        <4> QED BY <3>1, <4>1
      <3>4. chunks # << >> /\ chunks[Len(chunks)].words = b
        BY <1>5, <2>2 DEF b, m, e
      <3> HIDE DEF b
      <3>5. SubSeq(d, 1, Overlap) = SubSeq(b, Len(b) - Overlap + 1, Len(b))
        <4> DEFINE x == SubSeq(d, 1, Overlap)
                   y == SubSeq(b, Len(b) - Overlap + 1, Len(b))
        <4>1. Overlap <= Len(d) /\ Overlap <= Len(b)
          BY <1>2, <1>6, <1>8, <3>2
        <4>2. x \in Seq(Pairs) /\ Len(x) = Overlap /\ \A i \in 1..Overlap : x[i] = d[i]
          BY <1>2, <1>7, <4>1, StartOf
        <4>3. y \in Seq(Pairs) /\ Len(y) = Overlap /\ \A i \in 1..Overlap : y[i] = b[Len(b) - Overlap + i]
          BY <1>2, <3>2, <4>1, EndOf
        <4> HIDE DEF x, y
        <4>4. ASSUME NEW i \in 1..Overlap
              PROVE  x[i] = y[i]
          <5>1. i \in 1..end - start /\ TargetSize - Overlap + i \in 1..TargetSize
                /\ start + Overlap - TargetSize + (TargetSize - Overlap + i) = start + i
            BY <1>2, <1>6
          <5>2. d[i] = P[start + i]
            BY <1>9, <5>1
          <5>3. b[TargetSize - Overlap + i] = P[start + i]
            BY <3>3, <5>1
          <5> QED BY <3>2, <4>2, <4>3, <5>2, <5>3
        <4>5. x = y
          BY <4>2, <4>3, <4>4, SeqEqual
        <4> QED BY <4>5 DEF x, y
      <3>6. Before(Last(b), d[Overlap + 1])
        <4>1. /\ TargetSize \in 1..TargetSize /\ Overlap + 1 \in 1..end - start
              /\ start + Overlap - TargetSize + TargetSize = start + Overlap /\ start + (Overlap + 1) = start + Overlap + 1
              /\ start + Overlap \in 1..n /\ start + Overlap + 1 \in 1..n /\ start + Overlap < start + Overlap + 1
          BY <1>2, <1>3, <1>5, <1>6, <2>2
        <4>2. Last(b) = P[start + Overlap] /\ d[Overlap + 1] = P[start + Overlap + 1]
          BY <1>9, <3>2, <3>3, <4>1 DEF Last
        <4>3. Before(P[start + Overlap], P[start + Overlap + 1])
          BY <1>3, <4>1 DEF Passage
        <4> QED BY <4>2, <4>3
      <3>7. Overlap \in 0..Overlap /\ Overlap <= Len(b) /\ Overlap < Len(d)
        BY <1>2, <1>6, <1>8, <3>2
      <3>8. Follows(b, d)
        BY <3>5, <3>6, <3>7 DEF Follows
      <3> QED BY <3>4, <3>8 DEF Continues
    <2> QED BY <2>1, <2>2
  <1>14. ChunksOK' /\ chunks' # << >> /\ chunks'[Len(chunks')] = c /\ InChunks' = InChunks \cup ToSet(d)
    BY <1>1, <1>2, <1>7, <1>11, <1>12, <1>13, ChunkAdded
  <1>15. LinesOK'
    BY <1>1, <1>2, SameLines
  <1>16. \A k \in 1..end : P[k] \in InChunks'
    <2>1. ASSUME NEW k \in 1..end
          PROVE  P[k] \in InChunks'
      <3>1. CASE k \in start + 1..end
        BY <1>10, <1>14, <3>1
      <3>2. CASE k \notin start + 1..end
        <4>1. start # 0 /\ k \in 1..start + Overlap
          BY <1>2, <1>6, <3>2
        <4> QED BY <1>5, <1>14, <4>1
      <3> QED BY <3>1, <3>2
    <2> QED BY <2>1
  <1>17. ToSet(d) \subseteq ToSet(P)
    <2>1. \A k \in start + 1..end : k \in 1..n
      BY <1>2, <1>3, <1>6
    <2>2. ToSet(P) = {P[k] : k \in 1..n}
      BY <1>4 DEF ToSet
    <2> QED BY <1>10, <2>1, <2>2
  <1>18. ToSet(current) = {} /\ ToSet(current') = {} /\ InHand = InChunks /\ InHand' = InHand \cup ToSet(d)
    <2>1. ToSet(current) = {} /\ ToSet(current') = {}
      BY <1>1 DEF ToSet
    <2> QED BY <1>14, <2>1 DEF InHand
  <1>19. CurrentOK'
    <2>1. \A S : << >> \in Seq(S)
      BY EmptySeq
    <2> QED BY <1>1, <2>1 DEF CurrentOK
  <1>20. \A w \in InChunks : w[1] < cursor \/ w \in ToSet(P)
    BY <1>2 DEF ReadSoFar, P
  <1>21. CASE end # n
    <2>1. start' = start + WindowStep /\ cursor' = cursor /\ UNCHANGED <<domain, lines, cursor, upto>>
          /\ start' \in Nat \ {0} /\ start' >= WindowStep /\ start' + Overlap = end
          /\ start' + Overlap - TargetSize + 1 = start + 1
      BY <1>1, <1>2, <1>6, <1>21
    <2>2. PlaceOK'
      BY <1>1, <1>2, <1>3, <2>1 DEF PlaceOK
    <2>3. AtParagraph' = AtParagraph /\ Paragraph' = Paragraph /\ IsLong' = IsLong
      BY <2>1, SameParagraph
    <2>4. WindowOK'
      <3>1. end < n
        BY <1>3, <1>6, <1>21
      <3>2. chunks'[Len(chunks')].words = SubSeq(P, start' + Overlap - TargetSize + 1, start' + Overlap)
        BY <1>11, <1>14, <2>1 DEF d
      <3> QED BY <1>1, <1>14, <1>16, <2>1, <2>3, <3>1, <3>2 DEF WindowOK, P, n, Overlap, WindowStep
    <2>5. ReadSoFar'
      BY <1>14, <1>17, <1>20, <2>1, <2>3 DEF ReadSoFar, P
    <2>6. LinesKept'
      <3>1. \A w \in ToSet(d) : w[1] \in Nat /\ w[1] >= cursor
        BY <1>2, <1>3, <1>17
      <3>2. cursor \in Nat /\ cursor' \in Nat /\ \A i \in 1..Len(lines) : ~(cursor <= i /\ i < cursor')
        BY <1>2, <2>1
      <3> QED BY <1>1, <1>2, <1>18, <3>1, <3>2, KeptOn
    <2> QED BY <1>14, <1>15, <1>19, <2>2, <2>4, <2>5, <2>6 DEF ChunkInv
  <1>22. CASE end = n
    <2>1. start' = 0 /\ cursor' = ParagraphEnd + 1 /\ cursor' \in Nat \ {0}
      BY <1>1, <1>3, <1>22
    <2>2. PlaceOK'
      BY <1>1, <1>2, <1>3, <2>1 DEF PlaceOK
    <2>3. WindowOK'
      BY <2>1 DEF WindowOK
    <2>4. \A w \in ToSet(P) : w[1] \in Nat /\ w[1] >= cursor /\ w[1] < cursor'
      BY <1>2, <1>3, <2>1
    <2>5. ReadSoFar'
      <3>1. ASSUME NEW w \in InChunks
            PROVE  w[1] < cursor'
        <4>1. CASE w \in ToSet(P)
          BY <2>4, <4>1
        <4>2. CASE w \notin ToSet(P)
          <5>1. PICK k \in 1..Len(chunks) : w \in ToSet(chunks[k].words)
            BY DEF InChunks
          <5>2. w[1] \in Nat
            BY <1>2, <5>1, PassageIs DEF ChunksOK, ToSet
          <5>3. w[1] < cursor
            BY <1>20, <4>2
          <5> QED BY <1>2, <1>3, <2>1, <5>2, <5>3
        <4> QED BY <4>1, <4>2
      <3> QED BY <1>14, <1>17, <2>4, <3>1 DEF ReadSoFar
    <2>6. LinesKept'
      <3>1. ToSet(P) \subseteq InHand'
        BY <1>4, <1>14, <1>16, <1>18, <1>22 DEF ToSet
      <3>2. \A i \in 1..Len(lines) : cursor <= i /\ i < cursor' => Words(i) \subseteq InHand'
        <4>1. \A i \in cursor..ParagraphEnd : Words(i) \subseteq WordsFrom(cursor, ParagraphEnd)
          BY DEF WordsFrom
        <4>2. \A i \in 1..Len(lines) : cursor <= i /\ i < cursor' => i \in cursor..ParagraphEnd
          BY <1>2, <1>3, <2>1
        <4> QED BY <1>3, <3>1, <4>1, <4>2
      <3>3. cursor \in Nat /\ cursor' \in Nat /\ \A w \in ToSet(d) : w[1] \in Nat /\ w[1] >= cursor
        BY <1>2, <1>17, <2>1, <2>4
      <3> QED BY <1>1, <1>2, <1>18, <3>2, <3>3, KeptOn
    <2> QED BY <1>14, <1>15, <1>19, <2>2, <2>3, <2>5, <2>6 DEF ChunkInv
  <1> QED BY <1>21, <1>22

LEMMA ChunkInvStep == ChunkInv /\ [ChunkNext]_chunkVars => ChunkInv'
  <1> SUFFICES ASSUME ChunkInv, [ChunkNext]_chunkVars PROVE ChunkInv'
    OBVIOUS
  <1>1. CASE \E d \in DOMAIN Alphabets : Extract(d)
    BY <1>1, ExtractOK
  <1>2. CASE ChunkNarrative
    BY <1>2, NarrativeOK
  <1>3. CASE ChunkHeading
    BY <1>3, HeadingOK
  <1>4. CASE ChunkProcedure
    BY <1>4, ProcedureOK
  <1>5. CASE ChunkRecipe
    BY <1>5, RecipeOK
  <1>6. CASE ChunkParagraph
    BY <1>6, ParagraphFound
  <1>7. CASE SkipBlank
    BY <1>7, SkipBlankOK
  <1>8. CASE EmitCurrent
    BY <1>8, EmitOK
  <1>9. CASE AddParagraph
    BY <1>9, AddParagraphOK
  <1>10. CASE AddWindow
    BY <1>10, AddWindowOK
  <1>11. CASE EndText
    BY <1>11, EndTextOK
  <1>12. CASE UNCHANGED chunkVars
    <2>1. UNCHANGED <<domain, lines, cursor, stack, upto, current, start, chunks>>
      BY <1>12 DEF chunkVars
    <2>2. Len(lines) \in Nat /\ cursor \in Nat \ {0}
      BY Bounds
    <2>3. UNCHANGED <<domain, lines>> /\ UNCHANGED <<domain, lines, cursor, upto>> /\ UNCHANGED <<domain, lines, chunks>>
      BY <2>1
    <2>4. LinesOK' = LinesOK
      BY <2>3, SameLines
    <2>5. PlaceOK'
      BY <2>1 DEF ChunkInv, PlaceOK
    <2>6. ChunksOK' /\ InChunks' = InChunks /\ \A s : Continues(s)' = Continues(s)
      BY <2>3, ChunksSame DEF ChunkInv
    <2>7. AtParagraph' = AtParagraph /\ Paragraph' = Paragraph /\ IsLong' = IsLong
      BY <2>3, SameParagraph
    <2>8. Continues(current)' = Continues(current)
      BY <2>1 DEF Continues, Follows, Overlap
    <2>9. CurrentOK'
      BY <2>1, <2>8 DEF ChunkInv, CurrentOK, EndsBefore, Passage, Overlap
    <2>10. WindowOK'
      BY <2>1, <2>6, <2>7 DEF ChunkInv, WindowOK, Overlap, WindowStep
    <2>11. ReadSoFar'
      BY <2>1, <2>6, <2>7 DEF ChunkInv, ReadSoFar
    <2>12. InHand' = InHand /\ \A i : Words(i)' = Words(i) /\ Dropped(i)' = Dropped(i)
      BY <2>1, <2>3, <2>6, SameLines DEF InHand
    <2>13. LinesKept'
      BY <2>1, <2>12 DEF ChunkInv, LinesKept
    <2> QED BY <2>4, <2>5, <2>6, <2>9, <2>10, <2>11, <2>13 DEF ChunkInv
  <1> QED BY <1>1, <1>2, <1>3, <1>4, <1>5, <1>6, <1>7, <1>8, <1>9, <1>10, <1>11, <1>12 DEF ChunkNext

LEMMA TextIsKept == ASSUME ChunkInv PROVE TextKept
  <1>1. LinesOK /\ PlaceOK /\ ChunksOK /\ LinesKept /\ Len(lines) \in Nat
    BY Bounds DEF ChunkInv
  <1>2. ASSUME NEW n \in 1..Len(chunks)
        PROVE  /\ \A k \in 1..Len(chunks[n].words) - 1 : Before(chunks[n].words[k], chunks[n].words[k + 1])
               /\ chunks[n].type = "text" => Len(chunks[n].words) <= TargetSize + Overlap \/ HasHeading(chunks[n])
               /\ chunks[n].type = "procedure" => ~IsStep(Last(chunks[n].words)[1] + 1)
    <2>1. Passage(chunks[n].words) /\ Sized(chunks[n])
      BY <1>1 DEF ChunksOK
    <2>2. Len(chunks[n].words) \in Nat
      BY <2>1, PassageIs
    <2>3. ASSUME NEW k \in 1..Len(chunks[n].words) - 1
          PROVE  Before(chunks[n].words[k], chunks[n].words[k + 1])
      <3>1. k \in 1..Len(chunks[n].words) /\ k + 1 \in 1..Len(chunks[n].words) /\ k < k + 1
        BY <2>2
      <3> QED BY <2>1, <3>1 DEF Passage
    <2> QED BY <2>1, <2>3 DEF Sized
  <1>3. ASSUME Chunked, NEW i \in 1..Len(lines)
        PROVE  Words(i) \subseteq InChunks \/ (Words(i) \cap InChunks = {} /\ Dropped(i))
    <2>1. upto = 0 /\ cursor > Len(lines) /\ current = << >>
      BY <1>1, <1>3 DEF Chunked, PlaceOK
    <2>2. ToSet(current) = {}
      BY <2>1 DEF ToSet
    <2>3. i < cursor
      BY <1>1, <2>1 DEF PlaceOK
    <2> QED BY <1>1, <2>2, <2>3 DEF LinesKept, InHand
  <1> QED BY <1>1, <1>2, <1>3 DEF TextKept, ChunksOK, Dropped

\* Chapters of any length, in any domain, for any size and overlap: the chunks are the
\* text in its order, with the agreed overlap at most, and no line is left out but some
\* headings, numbered lines and titles of recipes that chunk_structured passes over.
THEOREM TextKeptCorrect == AlgorithmsSpec => []TextKept
  <1>1. AlgorithmsInit => ChunkInv
    BY ChunkInitOK DEF AlgorithmsInit
  <1>2. ChunkInv /\ [AlgorithmsNext]_<<field, chunkVars, catalogueVars, importVars>> => ChunkInv'
    <2> SUFFICES ASSUME ChunkInv, [AlgorithmsNext]_<<field, chunkVars, catalogueVars, importVars>> PROVE ChunkInv'
      OBVIOUS
    <2>1. ChunkNext \/ UNCHANGED chunkVars
      BY DEF AlgorithmsNext
    <2> QED BY <2>1, ChunkInvStep
  <1>3. ChunkInv => TextKept
    BY TextIsKept
  <1> QED BY <1>1, <1>2, <1>3, PTL DEF AlgorithmsSpec
=============================================================================
