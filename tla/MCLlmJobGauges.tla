--------------------------- MODULE MCLlmJobGauges ---------------------------
(* Small instances of LlmJobGauges for TLC.                                *)
EXTENDS LlmJobGauges

\* Uploads and re-indexing against DELETE /admin/jobs/:id.
Uploads == {"semantic_index", "withdraw"}
OneCaller == {"scheduler"}
=============================================================================
