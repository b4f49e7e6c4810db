----------------------------- MODULE MCKoboSync -----------------------------
(* A library of two books and one of another library, and a book that comes
   later or is there in no format of a Kobo; no Kobo yet, or one that has
   synchronised. *)
EXTENDS KoboSync

MCCalls == 1..2
MCBooks == 1..4
MCInitHome == [u \in Users |-> IF u = "u1" THEN "L" ELSE "M"]
MCTagItems == {<<4, 2>>}
Book(lib, mod, fmt) == [lib |-> lib, mod |-> mod, fmt |-> fmt]
Fresh ==
    [book |-> (1 :> Book("L", 1, {"EPUB", "PDF"})) @@ (2 :> Book("L", 2, {"PDF"})) @@ (3 :> Book("M", 1, {"EPUB"})),
     device |-> << >>, reading |-> {}, progress |-> << >>,
     shelf |-> (10 :> [owner |-> "u1", name |-> "tag"]), on |-> {<<10, 2>>}, gone |-> {}]
Synced ==
    [Fresh EXCEPT
       !.book[1].mod = 3, !.book = Put(@, 4, Book("L", 1, {"MOBI"})),
       !.device = (0 :> [hw |-> "k1", owner |-> "u1", token |-> 2]),
       !.reading = {<<0, 2>>}, !.progress = (<<"u1", 2>> :> "PDF")]
MCInitDbs == {Fresh, Synced}
=============================================================================
