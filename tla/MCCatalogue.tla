----------------------------- MODULE MCCatalogue -----------------------------
(* Three kinds of books with equal titles, tags and publishers in two spellings, and
   a tag and a language with a capital that SQL does not fold. *)
EXTENDS Catalogue

Like(title, created, authors, series, tags, language, publisher, formats, rating, library) ==
    [title |-> title, created |-> created, authors |-> authors, series |-> series, tags |-> tags,
     language |-> language, publisher |-> publisher, formats |-> formats, rating |-> rating,
     library |-> library, archived |-> {}, read |-> {}]

MCKinds == {
    [Like("dune", 1, {"anna"}, "saga", {"sf"}, "en", "Ace", {"EPUB"}, 7, "l1") EXCEPT !.read = {"ann"}],
    [Like("emma", 2, {"anna", "bob"}, "", {"SF", "old"}, "fr", "ace", {"EPUB", "PDF"}, 8, "l1")
        EXCEPT !.archived = {"ann"}],
    Like("dune", 2, {}, "saga", {"Été"}, "ÉN", "", {}, 0, "l2")}

MCTags == {"sf", "SF", "old", "Été"}
MCShelves == [open |-> [public |-> TRUE, books |-> <<3, 1, 2>>], own |-> [public |-> FALSE, books |-> <<1>>]]
MCDownloads == <<2, 1, 2>>
MCBlocked == [ann |-> {}, bea |-> {"SF"}]
MCAllowed == [ann |-> {}, bea |-> {"sf", "old"}]
MCLists == {
    [NoParams EXCEPT !.user = "ann", !.library = "l1"],
    [NoParams EXCEPT !.user = "ann", !.archived = TRUE, !.sort = "rating", !.tags = {"sf"}],
    [NoParams EXCEPT !.user = "bea", !.sort = "author", !.order = "desc"]}
MCSearches == {
    [params |-> [NoParams EXCEPT !.q = "dune"], among |-> 1..3, library |-> "l1"],
    [params |-> [NoParams EXCEPT !.q = "dune", !.format = "EPUB"], among |-> {1, 3}, library |-> "l1"]}

Ordered == <<"", "anna", "bob", "saga", "Ace", "ace", "SF", "sf", "old", "Été", "été", "ÉN", "én", "en", "fr",
             "EPUB", "PDF", "dune", "emma", "open", "own">>
MCNames == ToSet(Ordered)
Fold(n, folded) == IF n \in DOMAIN folded THEN folded[n] ELSE n
MCRank == [n \in MCNames |-> CHOOSE i \in 1..Len(Ordered) : Ordered[i] = n]
MCSqlLower == [n \in MCNames |-> CASE n = "Ace" -> "ace" [] n = "SF" -> "sf" [] OTHER -> n]
MCRustLower == [n \in MCNames |-> CASE n = "Ace" -> "ace" [] n = "SF" -> "sf" [] n = "Été" -> "été" [] n = "ÉN" -> "én" [] OTHER -> n]
MCInitial == [n \in MCNames |-> CASE n \in {"SF", "sf", "saga"} -> "s" [] n \in {"anna"} -> "a" [] OTHER -> "b"]
=============================================================================
