------------------------------ MODULE MCEvents ------------------------------
(* The two ways in which work that one job makes reaches another: the wakes *)
(* of the Item Bus and the pipeline tick.  Two wakes, so that one fires     *)
(* while another one runs the job, and one run of another trigger; a chain  *)
(* of three jobs, checked in an order that is not that of the chain.  The   *)
(* two have no variable in common: TLC explores the one or the other.       *)
EXTENDS BusWake, PipelineTick

CONSTANTS w1, w2, other, produce, review, publish

MCWakes == {w1, w2}
MCOthers == {other}
MCJobs == <<review, produce, publish>>
MCNextOf == [j \in {review, produce, publish} |->
               IF j = produce THEN review ELSE publish]

VARIABLE part  \* "wake" or "tick"

MCVars == <<wakeVars, unharmed, tickVars, calm, part>>

MCInit ==
  /\ WakeInit /\ TickInit
  /\ \/ part = "tick"
     \/ part = "wake" /\ work = {}

MCNext ==
  \/ part = "wake" /\ WakeNext /\ UNCHANGED <<tickVars, calm, part>>
  \/ part = "tick" /\ TickNext /\ UNCHANGED <<wakeVars, unharmed, part>>

MCSpec == MCInit /\ [][MCNext]_MCVars /\ WakeFairness /\ TickFairness
=============================================================================
