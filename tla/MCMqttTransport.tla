-------------------------- MODULE MCMqttTransport --------------------------
(***************************************************************************)
(* Small instances of MqttTransport: two commands of different priority    *)
(* for one device, and background commands for others.                     *)
(***************************************************************************)
EXTENDS MqttTransport

CONSTANTS d1, d2, d3

C(d, p) == [device |-> d, priority |-> p]

Calls == {"refresh1", "override1", "refresh2", "override3"}

Commands == [op \in Calls |->
                CASE op = "refresh1" -> C(d1, "background")
                  [] op = "override1" -> C(d1, "interactive")
                  [] op = "refresh2" -> C(d2, "background")
                  [] OTHER -> C(d3, "interactive")]
=============================================================================
