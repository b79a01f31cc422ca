-------------------------- MODULE MCBackendWorker --------------------------
(* Instances of BackendWorker for TLC. *)
EXTENDS BackendWorker
============================================================================
