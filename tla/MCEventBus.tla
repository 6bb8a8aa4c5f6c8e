----------------------------- MODULE MCEventBus -----------------------------
(* Two publishing threads, a subscriber that filters as AlertManager does,  *)
(* and one that asks for the events of one module as a WebSocket may.       *)
EXTENDS EventBus

CONSTANTS alerts, socket

MCSubscription == {alerts, socket}
MCFilter == [s \in MCSubscription |->
               IF s = alerts
               THEN [module |-> "any", type |-> "any", severity |-> "WARNING"]
               ELSE [module |-> "visual", type |-> "any", severity |-> "any"]]
MCEvent == {[module |-> "visual", type |-> "ZONE_ENTRY", severity |-> "INFO"],
            [module |-> "visual", type |-> "SPEED_ANOMALY", severity |-> "CRITICAL"]}
=============================================================================
