---------------------------- MODULE MCEventStream ----------------------------
(* Two connections, one after the other, without filters at the bus; of the  *)
(* two modules that publish, both ask the endpoint for one.                  *)
EXTENDS EventStream

CONSTANTS p1, p2, visual, network

MCEvent == {[module |-> m, type |-> "T", severity |-> "INFO"] : m \in {visual, network}}
MCFilter == [c \in {1, 2} |-> [module |-> Any, type |-> Any, severity |-> Any]]
MCQuery == [c \in {1, 2} |-> [modules |-> {visual}, types |-> {}]]
=============================================================================
