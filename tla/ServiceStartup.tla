--------------------------- MODULE ServiceStartup ---------------------------
(***************************************************************************)
(* How a service comes up: the module is imported and its routes included; *)
(* the first ASGI event freezes the application's middleware (Starlette    *)
(* builds its stack); under uvicorn that event is the lifespan, which runs *)
(* on_startup and with it init_observability, while a TestClient used      *)
(* without `with` sends none and goes straight to the first request. The   *)
(* worker's container runs the pipeline loop and no HTTP application.      *)
(*                                                                         *)
(* Code: services/*/main.py, shared/observability/, the Dockerfiles.       *)
(***************************************************************************)
EXTENDS Naturals

CONSTANTS
  Services,
  Launcher  \* "uvicorn", "TestClient" or "python" for each service

Settled == {"serving", "looping", "exited"}

VARIABLES
  pc,           \* where each process is
  frozen,       \* services whose middleware stack is built
  traced,       \* services with a tracer provider (`_configured`)
  middlewares,  \* number of middlewares each application has
  paths         \* what each application routes

vars == <<pc, frozen, traced, middlewares, paths>>

Goto(s, step) == pc' = [pc EXCEPT ![s] = step]

(* Starlette.__call__ on the first event of the process.                   *)
FirstEvent(s) ==
  /\ pc[s] = "imported"
  /\ \/ Launcher[s] = "uvicorn" /\ Goto(s, "setup_tracing") /\ frozen' = frozen \cup {s}
     \/ Launcher[s] = "TestClient" /\ Goto(s, "serving") /\ frozen' = frozen \cup {s}
     \/ Launcher[s] = "python" /\ Goto(s, "looping") /\ UNCHANGED frozen
  /\ UNCHANGED <<traced, middlewares, paths>>

SetupTracing(s) ==
  /\ pc[s] = "setup_tracing"
  /\ Goto(s, "instrument")
  /\ traced' = traced \cup {s}
  /\ UNCHANGED <<frozen, middlewares, paths>>

(* add_middleware raises RuntimeError once the stack is built; the startup *)
(* has failed then, and uvicorn exits.                                     *)
AddMiddleware(s, next) ==
  /\ IF s \in frozen
       THEN Goto(s, "exited") /\ UNCHANGED middlewares
       ELSE Goto(s, next) /\ middlewares' = [middlewares EXCEPT ![s] = @ + 1]
  /\ UNCHANGED <<frozen, traced, paths>>

InstrumentApp(s) == pc[s] = "instrument" /\ AddMiddleware(s, "setup_metrics")

SetupMetrics(s) == pc[s] = "setup_metrics" /\ AddMiddleware(s, "mount_metrics")

MountMetrics(s) ==
  /\ pc[s] = "mount_metrics"
  /\ Goto(s, "serving")
  /\ paths' = [paths EXCEPT ![s] = @ \cup {"/metrics"}]
  /\ UNCHANGED <<frozen, traced, middlewares>>

Init ==
  /\ pc = [s \in Services |-> "imported"]
  /\ frozen = {}
  /\ traced = {}
  /\ middlewares = [s \in Services |-> 0]
  /\ paths = [s \in Services |-> {"/health"}]

Start(s) ==
  FirstEvent(s) \/ SetupTracing(s) \/ InstrumentApp(s) \/ SetupMetrics(s) \/ MountMetrics(s)

AllSettled == (\A s \in Services : pc[s] \in Settled) /\ UNCHANGED vars

Next == (\E s \in Services : Start(s)) \/ AllSettled

Spec == Init /\ [][Next]_vars

(* What a client gets from a service.                                      *)
Answer(s, path) ==
  IF pc[s] # "serving" THEN "none" ELSE IF path \in paths[s] THEN "200" ELSE "404"

(* The runbook: "Services will expose `/health` and `/metrics` on their    *)
(* respective ports." The startup handler adds middleware to a running     *)
(* application, which Starlette refuses.                                   *)
ServicesExposeMetrics ==
  \A s \in Services :
    pc[s] \in Settled =>
      \A path \in {"/health", "/metrics"} : Answer(s, path) = "200"
=============================================================================
