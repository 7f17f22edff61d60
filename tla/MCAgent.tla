------------------------------ MODULE MCAgent ------------------------------
(* The Agent worker with three clients as model values. *)
EXTENDS Agent

CONSTANTS c1, c2, c3

MCClients == {c1, c2, c3}

====
