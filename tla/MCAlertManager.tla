--------------------------- MODULE MCAlertManager ---------------------------
(* The threads of two modules.                                              *)
EXTENDS AlertManager

CONSTANTS t1, t2, visual, network

OneThreadEach == [t \in {t1, t2} |-> IF t = t1 THEN visual ELSE network]
MCEvent == {[type |-> "SPEED_ANOMALY", object |-> "7", severity |-> "WARNING"],
            [type |-> "SPEED_ANOMALY", object |-> "7", severity |-> "CRITICAL"],
            [type |-> "SPEED_ANOMALY", object |-> "", severity |-> "WARNING"]}
=============================================================================
