---------------------------- MODULE MCScheduler ----------------------------
(* Instances of the scheduler for TLC: the workloads of the runs.          *)
EXTENDS SchedulerProperties

CONSTANTS Keeps, NumCtxs, Cpu   \* what the clients of a run choose from

OptionsFor(models) == [model : models, keep : Keeps, numCtx : NumCtxs, cpu : Cpu]

(* Every request may ask for anything.                                     *)
AnyModel == [q \in Requests |-> OptionsFor(Models)]

(* Every request asks for a model of its own.                              *)
ModelOf == CHOOSE f \in [Requests -> Models] : \A q, s \in Requests : q # s => f[q] # f[s]
OwnModel == [q \in Requests |-> OptionsFor({ModelOf[q]})]

KeepShort == {Default, 0, 1}
=============================================================================
