----------------------------- MODULE MCLlmJobs -----------------------------
(* Small instances of LlmJobs for TLC: the workloads of the runs.          *)
EXTENDS LlmJobs

UploadsAndCancels == {"semantic_index", "cancel", "withdraw"}
OrganizeOnly == {"organize"}
OneCaller == {"scheduler"}
TwoCallers == {"scheduler", "api"}
=============================================================================
