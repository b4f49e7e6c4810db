------------------------------ MODULE MCLibrary ------------------------------
(* An admin (who reads, too) and a reader; three books: the first has two formats, a
   cover and positions of both users, the second shares a format with it and has the
   reader's note and position, the third has a format of its own.                       *)
EXTENDS Library

MCCalls == 1..2
MCOneCall == {1}
MCUsers == {"admin", "reader"}
MCAdmins == {"admin"}
MCLib == [u \in MCUsers |-> "main"]
MCNewBook == [c \in MCCalls |-> 10 + c]
MCCan == [admin |-> {"upload", "edit", "download"}, reader |-> {"download"}]
MCCover == <<"jpg", "webp">>
MCPositions == {-10, 40, 120}
MCColumns == [column |-> [type |-> "integer", multiple |-> FALSE], list |-> [type |-> "text", multiple |-> TRUE]]
MCCustomValues == {[json |-> "string", is |-> "one"], [json |-> "number", is |-> "half"], [json |-> "null", is |-> "blank"]}
MCFormats == {"EPUB"}
MCTitles == {"new title"}
MCIdents == {{<<"isbn", "9780">>}}
MCPatches == {[title |-> "patched"], [rating |-> 5], [authors |-> <<"three", "one", "three">>]}
MCBulk == {[rating |-> 8, publisher |-> "bulk"], [tags |-> {"t1"}, mode |-> "overwrite"], [tags |-> {"t2"}, mode |-> "remove"]}
Row(title, cover) == [title |-> title, sort |-> title, rating |-> NoValue, lib |-> "main", cover |-> cover,
                      authors |-> <<title>>, publisher |-> NoValue]
MCInitDb ==
    [book |-> <<Row("one", TRUE), Row("two", FALSE), Row("three", FALSE)>>,
     format |-> (<<1, "EPUB">> :> 1) @@ (<<1, "PDF">> :> 1) @@ (<<2, "EPUB">> :> 2) @@ (<<3, "MOBI">> :> 3),
     progress |-> (<<"admin", 1>> :> [format |-> <<1, "EPUB">>, pct |-> 50])
                  @@ (<<"reader", 1>> :> [format |-> <<1, "PDF">>, pct |-> 30])
                  @@ (<<"reader", 2>> :> [format |-> <<2, "EPUB">>, pct |-> 70]),
     state |-> (<<"reader", 2>> :> [read |-> TRUE, archived |-> FALSE]),
     note |-> (0 :> [user |-> "reader", book |-> 2, text |-> "first"]),
     tag |-> (<<1, "t1">> :> FALSE) @@ (<<2, "t1">> :> TRUE) @@ (<<2, "t2">> :> FALSE),
     ident |-> (<<2, "isbn">> :> "9781"),
     columns |-> [column |-> MCColumns["column"]],
     custom |-> (<<1, "column">> :> [as |-> "integer", is |-> "one"]),
     tagname |-> [t1 |-> <<"t1", "manual">>, t2 |-> <<"t2", "manual">>],
     restricted |-> (<<"reader", "t1">> :> "block"),
     shelf |-> (0 :> [user |-> "reader", name |-> "shelf", public |-> FALSE]),
     shelved |-> (<<0, 1>> :> 0) @@ (<<0, 2>> :> 1),
     collection |-> (0 :> [owner |-> "admin", public |-> TRUE]),
     collected |-> {<<0, 2>>}, chunked |-> {1}, history |-> {},
     authors |-> {"one", "two", "three"}, profile |-> ("one" :> [bio |-> "bio", born |-> NoValue, photo |-> TRUE]),
     imports |-> << >>]
MCShelfNames == {"shelf", "other"}
MCTagNames == {<<"t1", "lower">>, <<"t3", "lower">>}
MCPhotos == <<"jpg", "webp">>
MCRows == << [title |-> "one", author |-> "one", read |-> TRUE, stars |-> 4, shelves |-> <<"shelf", "new">>],
             [title |-> "none", author |-> "one", read |-> FALSE, stars |-> 0, shelves |-> <<>>] >>
=============================================================================
