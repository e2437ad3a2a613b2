------------------------- MODULE PersistentThreads --------------------------
(***************************************************************************)
(* What the thread library promises: tasks that survive a crash.  A task   *)
(* is a number of steps.  While it runs, its progress may be saved; a      *)
(* crash takes every task back to what was saved, and no further; a task   *)
(* is reported finished only when the saved progress is the whole task.    *)
(***************************************************************************)
EXTENDS Naturals

CONSTANTS CrThreads, Steps

VARIABLES active, progress, saved

ptvars == <<active, progress, saved>>

Start(t) ==
  /\ t \notin active
  /\ active' = active \cup {t}
  /\ UNCHANGED <<progress, saved>>

Work(t) ==
  /\ t \in active /\ progress[t] < Steps
  /\ progress' = [progress EXCEPT ![t] = @ + 1]
  /\ UNCHANGED <<active, saved>>

Save(t) ==
  /\ t \in active
  /\ saved' = [saved EXCEPT ![t] = progress[t]]
  /\ UNCHANGED <<active, progress>>

Finish(t) ==
  /\ t \in active /\ saved[t] = Steps
  /\ active' = active \ {t}
  /\ UNCHANGED <<progress, saved>>

Crash ==
  /\ progress' = saved
  /\ active' = {}
  /\ UNCHANGED saved

Init ==
  /\ active = {}
  /\ progress = [t \in CrThreads |-> 0]
  /\ saved = [t \in CrThreads |-> 0]

Next ==
  \/ \E t \in CrThreads : Start(t) \/ Work(t) \/ Save(t) \/ Finish(t)
  \/ Crash

Spec == Init /\ [][Next]_ptvars
=============================================================================
