------------------------------ MODULE MCScheduler ------------------------------
(****************************************************************************)
(* The scheduler for TLC, under two clients: the machine of SchedulerDrain, *)
(* with one peripheral whose deadlines are absolute and one that is frozen  *)
(* while its clock is off, and a caller of EventScheduler's methods that    *)
(* makes any calls in any order, past deadlines and the sentinel index      *)
(* included, with no machine around the scheduler.                          *)
(****************************************************************************)
EXTENDS SchedulerDrain

CONSTANTS CallerCycle,     \* bound: last cycle and deadline of the lone caller
          CallerEvents     \* bound: wakes it has accepted

VARIABLE client

CallerInit ==
  /\ DrainInit
  /\ alarm = [i \in Slots |-> NoAlarm]

CallerNext ==
  /\ Next
  /\ now' <= CallerCycle
  /\ next_event_id' <= CallerEvents
  /\ \A e \in heap' : e.deadline <= CallerCycle
  /\ UNCHANGED <<machineVars, historyVars>>

MCInit ==
  \/ client = "machine" /\ DrainInit
  \/ client = "caller" /\ CallerInit

MCNext ==
  /\ UNCHANGED client
  /\ \/ client = "machine" /\ DrainNext
     \/ client = "caller" /\ CallerNext

MCSpec == MCInit /\ [][MCNext]_<<allVars, client>>
===============================================================================
