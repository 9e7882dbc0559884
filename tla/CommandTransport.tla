-------------------------- MODULE CommandTransport --------------------------
(***************************************************************************)
(* What a command transport promises to whoever hands it commands: at most *)
(* one command per device is on the wire without an outcome, a command is  *)
(* put on the wire at most once, and a command is reported unsent only if  *)
(* it never was on the wire.                                               *)
(*                                                                         *)
(* DeviceOperations relies on these promises; MqttTransport keeps them.    *)
(***************************************************************************)
EXTENDS Naturals

CONSTANTS Ops, DeviceOf(_)

VARIABLES
    wire,           \* how often each command was handed to the broker client
    outcome         \* what the caller was told, "none" until then

transportVars == <<wire, outcome>>

Outcomes == {"answered", "unknown", "unsent"}

TransportInit ==
    /\ wire = [op \in Ops |-> 0]
    /\ outcome = [op \in Ops |-> "none"]

Outstanding(op) == wire[op] > 0 /\ outcome[op] = "none"

Send(op) ==
    /\ outcome[op] = "none"
    /\ wire[op] = 0
    /\ \A other \in Ops : DeviceOf(other) = DeviceOf(op) => ~Outstanding(other)
    /\ wire' = [wire EXCEPT ![op] = 1]
    /\ UNCHANGED outcome

\* Several commands can be turned away at once, when a connection is lost.
Refuse(ops) ==
    /\ \A op \in ops : outcome[op] = "none" /\ wire[op] = 0
    /\ outcome' = [op \in Ops |-> IF op \in ops THEN "unsent" ELSE outcome[op]]
    /\ UNCHANGED wire

Report(op) ==
    /\ Outstanding(op)
    /\ \E told \in {"answered", "unknown"} :
           outcome' = [outcome EXCEPT ![op] = told]
    /\ UNCHANGED wire

TransportNext ==
    \/ \E op \in Ops : Send(op) \/ Report(op)
    \/ \E ops \in SUBSET Ops : Refuse(ops)

TransportSpec == TransportInit /\ [][TransportNext]_transportVars
=============================================================================
