---- MODULE MCEdgeServices ----
(* Two notification pods, the most the autoscaler allows, one client on a  *)
(* transaction and another that only listens.                              *)
EXTENDS EdgeServices
====
