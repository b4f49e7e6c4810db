----------------------------- MODULE Algorithms ------------------------------
(* Four parts of the program that share no state, for one run: the rewriting of
   cron expressions, the cutting of chapters into chunks, the pages of listings
   and feeds, and the import of Calibre libraries. One of them works, the others
   are at rest. *)
EXTENDS CronFields, Chunker, Catalogue, CalibreImport

AlgorithmsInit == CronInit /\ ChunkInit /\ CatalogueInit /\ ImportInit

AlgorithmsNext ==
    \/ /\ ChunkInit /\ CatalogueInit /\ ImportInit
       /\ CronNext /\ UNCHANGED <<chunkVars, catalogueVars, importVars>>
    \/ /\ CronInit /\ CatalogueInit /\ ImportInit
       /\ ChunkNext /\ UNCHANGED <<field, catalogueVars, importVars>>
    \/ /\ CronInit /\ ChunkInit /\ ImportInit
       /\ CatalogueNext /\ UNCHANGED <<field, chunkVars, importVars>>
    \/ /\ CronInit /\ ChunkInit /\ CatalogueInit
       /\ ImportNext /\ UNCHANGED <<field, chunkVars, catalogueVars>>

AlgorithmsSpec == AlgorithmsInit /\ [][AlgorithmsNext]_<<field, chunkVars, catalogueVars, importVars>>
=============================================================================
