------------------------------ MODULE Chunker ------------------------------
(* A chapter is cut into chunks (src/backend/src/ingest/chunker.rs): prose by a
   sliding window over its paragraphs, other domains line by line, with headings,
   numbered steps and recipes.

   A line is a kind, for a heading its level, and how many words it has; a word is
   the pair of its line and its place there, so that no two are alike. What makes a
   line a heading, a step or a recipe's title is taken as given. Types of chunks other
   than "procedure" and "example", and pages that are images, are left out. *)
EXTENDS Integers, FiniteSets, SequencesExt, Orders

CONSTANTS TargetSize, WantedOverlap,   \* ChunkConfig
          Alphabets,                   \* domain -> what its lines may be
          MaxLines                     \* bound: lines of a chapter

ASSUME ChunkerAssumption == TargetSize \in Nat \ {0} /\ WantedOverlap \in Nat /\ MaxLines \in Nat

NoDomain == "none"

\* A line without words is blank, and no other is.
ASSUME AlphabetsAssumption ==
    /\ NoDomain \notin DOMAIN Alphabets
    /\ \A d \in DOMAIN Alphabets : \A l \in Alphabets[d] : l.length \in Nat /\ (l.length = 0 <=> l.kind = "blank")

VARIABLES domain,    \* NoDomain until a chapter is there
          lines,
          cursor,    \* the next line
          stack,     \* the headings it is under
          upto,      \* the last line of the text that is split, 0 when none is
          current,   \* the words of its chunk to come
          start,     \* how much of a long paragraph the windows have left behind
          chunks

chunkVars == <<domain, lines, cursor, stack, upto, current, start, chunks>>

ChunkInit == /\ domain = NoDomain /\ lines = << >> /\ cursor = 1 /\ stack = << >>
             /\ upto = 0 /\ current = << >> /\ start = 0 /\ chunks = << >>

\* chunk_chapters: the overlap is less than the size.
Overlap == IF WantedOverlap < TargetSize THEN WantedOverlap ELSE TargetSize - 1

LinesOf(kind) == {i \in 1..Len(lines) : lines[i].kind = kind}
IsStep(i) == i \in LinesOf("step")
IsHeading(i) == i \in LinesOf("heading")
IsBlank(i) == i \in LinesOf("blank")
IsRecipe(i) == i \in LinesOf("title") /\ i + 1 \in LinesOf("intro")
Technical == domain \in {"technical", "electronics"}

\* From line i on, to the end or to a line in stop
UpTo(i, stop) == CHOOSE j \in i..Len(lines) : /\ \A k \in i + 1..j : k \notin stop
                                              /\ j = Len(lines) \/ j + 1 \in stop

Words(i) == {i} \X (1..lines[i].length)
Before(v, w) == v[1] < w[1] \/ (v[1] = w[1] /\ v[2] < w[2])
WordsOf(from, to) == LET words == UNION {Words(i) : i \in from..to}
                     IN InOrder([w \in words |-> {v \in words : Before(v, w)}])

Chunk(type, words, path) == [type |-> type, words |-> words, path |-> path]

-----------------------------------------------------------------------------
\* A chapter's text, in a book of some domain
Extract(d) ==
    /\ domain = NoDomain
    /\ domain' = d
    /\ \E n \in 1..MaxLines : lines' \in [1..n -> Alphabets[d]]
    /\ UNCHANGED <<cursor, stack, upto, current, start, chunks>>

Reading == domain # NoDomain /\ upto = 0 /\ cursor <= Len(lines)

\* chunk_narrative: all is one text.
ChunkNarrative ==
    /\ Reading /\ domain = "narrative"
    /\ upto' = Len(lines)
    /\ UNCHANGED <<domain, lines, cursor, stack, current, start, chunks>>

\* chunk_structured: a heading takes the place of those of its level and below.
ApplyHeading(s, i) == Append(IF Len(s) > lines[i].level - 1 THEN SubSeq(s, 1, lines[i].level - 1) ELSE s, i)

ChunkHeading ==
    /\ Reading /\ domain # "narrative" /\ IsHeading(cursor)
    /\ stack' = ApplyHeading(stack, cursor)
    /\ chunks' = Append(chunks, Chunk("text", WordsOf(cursor, cursor), stack'))
    /\ cursor' = cursor + 1
    /\ UNCHANGED <<domain, lines, upto, current, start>>

\* parse_procedure_block: at least three numbered lines, up to the last
ProcedureAt(i) == Technical /\ \A j \in i..i + 2 : IsStep(j)

ChunkProcedure ==
    LET last == UpTo(cursor, (1..Len(lines)) \ LinesOf("step")) IN
    /\ Reading /\ ProcedureAt(cursor)
    /\ chunks' = Append(chunks, Chunk("procedure", WordsOf(cursor, last), stack))
    /\ cursor' = last + 1
    /\ UNCHANGED <<domain, lines, stack, upto, current, start>>

\* A recipe reaches to the next heading.
RecipeAt(i) == domain = "culinary" /\ IsRecipe(i)

ChunkRecipe ==
    LET last == UpTo(cursor, LinesOf("heading")) IN
    /\ Reading /\ RecipeAt(cursor)
    /\ chunks' = Append(chunks, Chunk("example", WordsOf(cursor, last), stack))
    /\ cursor' = last + 1
    /\ UNCHANGED <<domain, lines, stack, upto, current, start>>

\* What no paragraph begins with
Breaks(i) == IsHeading(i) \/ (Technical /\ IsStep(i)) \/ RecipeAt(i)

\* Blank lines are passed over. When the line after them begins no paragraph,
\* there is no text, and the cursor goes on one line more.
ChunkParagraph ==
    LET first == CHOOSE i \in cursor..Len(lines) + 1 : ~IsBlank(i) /\ \A k \in cursor..i - 1 : IsBlank(k) IN
    /\ Reading /\ domain # "narrative"
    /\ ~IsHeading(cursor) /\ ~ProcedureAt(cursor) /\ ~RecipeAt(cursor)
    /\ IF first > Len(lines) \/ Breaks(first)
       THEN cursor' = first + 1 /\ UNCHANGED upto
       ELSE cursor' = first /\ upto' = UpTo(first, LinesOf("blank") \cup LinesOf("heading"))
    /\ UNCHANGED <<domain, lines, stack, current, start, chunks>>

-----------------------------------------------------------------------------
(* split_text_into_chunks: its paragraphs are what empty lines leave of a narrative,
   of another text its lines, which are joined by empty ones. *)

ParagraphEnd == IF domain = "narrative" THEN UpTo(cursor, LinesOf("blank")) ELSE cursor
Paragraph == WordsOf(cursor, ParagraphEnd)
AtParagraph == cursor <= upto /\ ~IsBlank(cursor)
IsLong == Len(Paragraph) > TargetSize

SkipBlank ==
    /\ cursor <= upto /\ IsBlank(cursor)
    /\ cursor' = cursor + 1
    /\ UNCHANGED <<domain, lines, stack, upto, current, start, chunks>>

\* emit_current_chunk, before a long paragraph and at the end
EmitCurrent ==
    /\ upto # 0 /\ current # << >>
    /\ cursor > upto \/ (AtParagraph /\ IsLong)
    /\ chunks' = Append(chunks, Chunk("text", current, stack)) /\ current' = << >>
    /\ UNCHANGED <<domain, lines, cursor, stack, upto, start>>

\* tail_words
Tails(w) == IF Len(w) <= Overlap THEN w ELSE SubSeq(w, Len(w) - Overlap + 1, Len(w))

\* A paragraph that is too much for its chunk begins another, after the end of that.
AddParagraph ==
    LET full == current # << >> /\ Len(current) + Len(Paragraph) > TargetSize IN
    /\ AtParagraph /\ ~IsLong
    /\ chunks' = IF full THEN Append(chunks, Chunk("text", current, stack)) ELSE chunks
    /\ current' = (IF full THEN Tails(current) ELSE current) \o Paragraph
    /\ cursor' = ParagraphEnd + 1
    /\ UNCHANGED <<domain, lines, stack, upto, start>>

\* Mutant: a window begins where the one before has ended, and one word on.
Apart == TargetSize + 1

\* The windows of a paragraph that is too long, "step" words apart
WindowStep == TargetSize - Overlap
AddWindow ==
    LET end == IF start + TargetSize < Len(Paragraph) THEN start + TargetSize ELSE Len(Paragraph) IN
    /\ AtParagraph /\ IsLong /\ current = << >>
    /\ chunks' = Append(chunks, Chunk("text", SubSeq(Paragraph, start + 1, end), stack))
    /\ IF end = Len(Paragraph) THEN cursor' = ParagraphEnd + 1 /\ start' = 0
       ELSE start' = start + WindowStep /\ UNCHANGED cursor
    /\ UNCHANGED <<domain, lines, stack, upto, current>>

EndText ==
    /\ upto # 0 /\ cursor > upto /\ current = << >>
    /\ upto' = 0
    /\ UNCHANGED <<domain, lines, cursor, stack, current, start, chunks>>

ChunkNext == \/ \E d \in DOMAIN Alphabets : Extract(d)
             \/ ChunkNarrative \/ ChunkHeading \/ ChunkProcedure \/ ChunkRecipe \/ ChunkParagraph
             \/ SkipBlank \/ EmitCurrent \/ AddParagraph \/ AddWindow \/ EndText

ChunkSpec == ChunkInit /\ [][ChunkNext]_chunkVars

-----------------------------------------------------------------------------
(* Properties *)

Chunked == domain # NoDomain /\ upto = 0 /\ cursor > Len(lines)
InChunks == UNION {ToSet(chunks[n].words) : n \in 1..Len(chunks)}

\* d goes on after c, with at most Overlap words of c's end repeated.
Follows(c, d) ==
    \E o \in 0..Overlap :
        /\ o <= Len(c) /\ o < Len(d)
        /\ SubSeq(d, 1, o) = SubSeq(c, Len(c) - o + 1, Len(c))
        /\ Before(Last(c), d[o + 1])

\* A heading is a chunk of its own, of whatever length.
HasHeading(c) == domain # "narrative" /\ IsHeading(c.words[1][1])

\* The chunks are the text in its order, each with at most the agreed overlap and,
\* but for headings, of at most the size and the overlap, and a procedure ends with
\* its last step. No line is cut short; left out are only headings, numbered lines
\* and recipes' titles right after an empty line, and numbered lines where fewer than
\* three are left to read.
TextKept ==
    /\ \A n \in 1..Len(chunks) - 1 : Follows(chunks[n].words, chunks[n + 1].words)
    /\ \A n \in 1..Len(chunks) :
         /\ \A k \in 1..Len(chunks[n].words) - 1 : Before(chunks[n].words[k], chunks[n].words[k + 1])
         /\ chunks[n].type = "text" => Len(chunks[n].words) <= TargetSize + Overlap \/ HasHeading(chunks[n])
         /\ chunks[n].type = "procedure" => ~IsStep(Last(chunks[n].words)[1] + 1)
    /\ Chunked => \A i \in 1..Len(lines) :
         \/ Words(i) \subseteq InChunks
         \/ /\ Words(i) \cap InChunks = {}
            /\ Breaks(i)
            /\ \/ i > 1 /\ IsBlank(i - 1)
               \/ IsStep(i) /\ ~ProcedureAt(i)
=============================================================================
