---- MODULE MCGuardianRun ----
(* A scalable workload with CPUSaturation alerts and a database that is    *)
(* only monitored; one tool of each kind and a verdict of each kind.       *)
EXTENDS GuardianRun, TLC

CONSTANTS i1, i2, c1

MCPolicy == i1 :> "AUTOSCALE" @@ i2 :> "MONITOR_ONLY"
====
