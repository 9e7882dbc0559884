---------------------------- MODULE MCController ----------------------------
(***************************************************************************)
(* Model checking the process as its pages and its service manager see it: *)
(* the event stream with the page that follows it, and the start, the       *)
(* transport events and the shutdown that the runtime goes through.  As in  *)
(* MCDelivery the two machines share no variable, and one of them moves.    *)
(***************************************************************************)
EXTENDS StateCoordinator, RuntimeLifecycle

VARIABLE part       \* the machine that moves

controllerVars == <<part, vars, lifecycleVars>>

ControllerInit == Init /\ LifecycleInit /\ part \in {"pages", "process"}

ControllerNext ==
    /\ UNCHANGED part
    /\ \/ part = "pages" /\ Next /\ UNCHANGED lifecycleVars
       \/ part = "process" /\ LifecycleNext /\ UNCHANGED vars

Pages(Step) == part = "pages" /\ Step
Process(Step) == part = "process" /\ Step

\* The fairness of the two specifications.
ControllerSpec ==
    /\ ControllerInit /\ [][ControllerNext]_controllerVars
    /\ WF_serverVars(Pages(BeginPass)) /\ WF_serverVars(Pages(MirrorRow))
    /\ WF_serverVars(Pages(Broadcast)) /\ WF_serverVars(Pages(Prune))
    /\ WF_serverVars(Pages(ReadReplay)) /\ WF_serverVars(Pages(OpenReplay))
    /\ WF_serverVars(Pages(Drain)) /\ WF_serverVars(Pages(Heartbeat))
    /\ WF_vars(Pages(FetchRead)) /\ WF_vars(Pages(FetchAnswered))
    /\ WF_vars(Pages(FetchRefused)) /\ WF_vars(Pages(StreamOpens))
    /\ WF_vars(Pages(Deliver)) /\ WF_vars(Pages(StreamEnds))
    /\ WF_vars(Pages(Restart))
    /\ WF_lifecycleVars(Process(Teardown))
    /\ WF_lifecycleVars(Process(StartScheduling))
    /\ WF_lifecycleVars(Process(EndMirror))
    /\ \A i \in TaskSlots : WF_lifecycleVars(Process(TaskStep(i)))

(* EventuallyCurrent of the page, in the behaviours in which the page moves: *)
(* whatever was lost, cut or restarted, it catches up with the database, or *)
(* says that it failed and offers to retry.                                 *)
PagesCatchUp == part = "pages" => EventuallyCurrent
=============================================================================
