---------------------------- MODULE MCScheduler ----------------------------
(***************************************************************************)
(* Small instances of Scheduler.                                           *)
(***************************************************************************)
EXTENDS Scheduler, TLC

ScheduleSymmetry == Permutations(Schedules)
=============================================================================
