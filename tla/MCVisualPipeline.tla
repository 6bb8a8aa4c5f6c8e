-------------------------- MODULE MCVisualPipeline --------------------------
(* Objects two units wide on a line: neighbours overlap by a third, which is *)
(* enough for a match, and others not at all. The zone is the default one,  *)
(* and begins where the second object stands.                               *)
EXTENDS VisualPipeline

BoxAt(x) == <<x, 0, x + 2, 2>>
MCFrame == {<<>>} \union {<<BoxAt(x)>> : x \in 0 .. 2}
                  \union {<<BoxAt(0), BoxAt(2)>>, <<BoxAt(2), BoxAt(1)>>}
MCRegion == [z \in Zone |-> DefaultRegion(8, 4)]
=============================================================================
