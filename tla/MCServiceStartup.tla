-------------------------- MODULE MCServiceStartup --------------------------
(* The services as their containers start them. *)
EXTENDS ServiceStartup

Containers == [s \in Services |-> IF s = "worker" THEN "python" ELSE "uvicorn"]
=============================================================================
