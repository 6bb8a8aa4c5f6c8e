------------------------------ MODULE MCNetwork ------------------------------
(* Every packet is like one of a burst. *)
EXTENDS Network

MCSizes == {64}
MCPorts == {80}
=============================================================================
