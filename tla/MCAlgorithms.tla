---------------------------- MODULE MCAlgorithms -----------------------------
EXTENDS Algorithms, MCChunker, MCCatalogue, MCCalibreImport
=============================================================================
