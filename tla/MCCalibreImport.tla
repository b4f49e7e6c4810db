-------------------------- MODULE MCCalibreImport ---------------------------
(* Two libraries that number their books alike: an entry without a file, one with
   a broken cover, and one that brings a calibre_id of its own. *)
EXTENDS CalibreImport

File(name, exists) == [name |-> name, exists |-> exists]
Book(id, formats, cover, authors, identifiers) ==
    [id |-> id, formats |-> formats, cover |-> cover, authors |-> authors, tags |-> <<"sf">>, series |-> {},
     identifiers |-> identifiers]

MCLibraries ==
    [home |-> <<Book(1, <<File("EPUB", TRUE)>>, "none", <<"anna">>, << >>),
                Book(2, <<File("EPUB", FALSE)>>, "none", <<"anna">>, << >>),
                Book(3, <<File("EPUB", TRUE), File("PDF", TRUE)>>, "there", <<"anna", "bob">>, <<"isbn", "isbn">>)>>,
     work |-> <<Book(1, <<File("PDF", TRUE)>>, "broken", <<"cleo">>, << >>),
                Book(4, <<File("PDF", TRUE)>>, "none", <<"cleo">>, <<"calibre_id">>)>>]
=============================================================================
