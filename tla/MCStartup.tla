----------------------------- MODULE MCStartup -----------------------------
(* Instance of Startup for TLC.                                            *)
EXTENDS Startup

CONSTANTS p1, p2

\* Two processes on the same storage, and every other kind beside them.
MCConfigs ==
    {c \in [Procs -> Endpoints] :
        \/ c[p1] = c[p2]
        \/ c[p1] = "nats" /\ c[p2] = "jetstream"
        \/ c[p1] = "postgres" /\ c[p2] = "jetstream"}
=============================================================================
