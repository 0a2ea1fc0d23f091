----------------------------- MODULE MCA2ATask -----------------------------
(* Two task ids, two requests, sends that race and repeat. *)
EXTENDS A2ATask
=============================================================================
