----------------------------- MODULE AtLeastOnce -----------------------------
(***************************************************************************)
(* What the queue of apps/sample-fastapi promises for each job, without    *)
(* lists, leases or processes: a submitted job is delivered, and every     *)
(* delivery that is not acknowledged is given back, until the retries are  *)
(* used up and the job is buried.  A job leaves the system only by being   *)
(* acknowledged or by an operator's reset.                                 *)
(***************************************************************************)
EXTENDS Naturals

CONSTANTS Jobs, MaxRetries

VARIABLES
  phase,   \* where each job is
  tries,   \* failed deliveries of each job that is in the system
  acked    \* jobs acknowledged so far

vars == <<phase, tries, acked>>

Phases == {"new", "waiting", "running", "dead", "gone"}

TypeOK ==
  /\ phase \in [Jobs -> Phases]
  /\ tries \in [Jobs -> 0..(MaxRetries + 1)]
  /\ acked \subseteq Jobs

Init ==
  /\ phase = [j \in Jobs |-> "new"]
  /\ tries = [j \in Jobs |-> 0]
  /\ acked = {}

Submit(batch) ==
  /\ \A j \in batch : phase[j] = "new"
  /\ phase' = [j \in Jobs |-> IF j \in batch THEN "waiting" ELSE phase[j]]
  /\ UNCHANGED <<tries, acked>>

Deliver(j) ==
  /\ phase[j] = "waiting"
  /\ phase' = [phase EXCEPT ![j] = "running"]
  /\ UNCHANGED <<tries, acked>>

Depart(j) ==
  /\ phase[j] = "running"
  /\ phase' = [phase EXCEPT ![j] = "gone"]
  /\ tries' = [tries EXCEPT ![j] = 0]

\* A delivery is acknowledged.  When it is the current one the job departs; an
\* earlier delivery, overtaken by a retry, only records the fact.
Acknowledge(j) ==
  /\ phase[j] # "new"
  /\ acked' = acked \cup {j}
  /\ Depart(j) \/ UNCHANGED <<phase, tries>>

\* A redelivery of a job somebody has acknowledged is dropped.
Discard(j) ==
  /\ j \in acked
  /\ Depart(j)
  /\ UNCHANGED acked

GiveBack(j) ==
  /\ phase[j] = "running"
  /\ tries[j] < MaxRetries
  /\ phase' = [phase EXCEPT ![j] = "waiting"]
  /\ tries' = [tries EXCEPT ![j] = @ + 1]
  /\ UNCHANGED acked

Bury(j) ==
  /\ phase[j] = "running"
  /\ tries[j] = MaxRetries
  /\ phase' = [phase EXCEPT ![j] = "dead"]
  /\ tries' = [tries EXCEPT ![j] = @ + 1]
  /\ UNCHANGED acked

Reset ==
  /\ phase' = [j \in Jobs |-> IF phase[j] = "new" THEN "new" ELSE "gone"]
  /\ tries' = [j \in Jobs |-> 0]
  /\ UNCHANGED acked

Next ==
  \/ \E batch \in SUBSET Jobs : Submit(batch)
  \/ \E j \in Jobs : \/ Deliver(j) \/ Acknowledge(j) \/ Discard(j)
                     \/ GiveBack(j) \/ Bury(j)
  \/ Reset

Spec == Init /\ [][Next]_vars

=============================================================================
