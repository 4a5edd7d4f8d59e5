---------------------------- MODULE MCScheduler ----------------------------
(* Instances of Scheduler.                                                 *)
EXTENDS Scheduler, TLC

CONSTANTS once, daily

\* A one-time and a repeating task.
TwoTasks == {once, daily}
TwoPeriods == (once :> 0) @@ (daily :> 2)
=============================================================================
