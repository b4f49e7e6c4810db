----------------------------- MODULE MCChunker -----------------------------
(* Chapters of up to MaxLines lines; a paragraph may be of one word, fill a chunk, or
   be too long for one, as may a heading. *)
EXTENDS Chunker

L(kind, level, length) == [kind |-> kind, level |-> level, length |-> length]
Prose == {L("blank", 0, 0), L("text", 0, 1), L("text", 0, 2), L("text", 0, 4)}
Headings == {L("heading", 1, 1), L("heading", 2, 5)}
MCAlphabets ==
    [technical |-> {L("blank", 0, 0), L("step", 0, 1), L("text", 0, 2)} \cup Headings,
     culinary |-> {L("blank", 0, 0), L("title", 0, 1), L("intro", 0, 1), L("text", 0, 2), L("heading", 1, 1)},
     academic |-> Prose \cup {L("heading", 1, 1)},
     narrative |-> Prose]
=============================================================================
