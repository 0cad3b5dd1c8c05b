------------------------- MODULE JobQueueRefinement -------------------------
(***************************************************************************)
(* JobQueue implements AtLeastOnce.  A job's phase is the list that holds  *)
(* its copy, its tries the attempts counter of that copy.                  *)
(***************************************************************************)
EXTENDS JobQueue

Copies(j) == {r \in Elements(pending) \cup Processing \cup Dead : r.id = j}

phase == [j \in Jobs |->
  IF \E r \in Processing : r.id = j THEN "running"
  ELSE IF \E r \in Dead : r.id = j THEN "dead"
  ELSE IF \E r \in Elements(pending) : r.id = j THEN "waiting"
  ELSE IF j \in accepted THEN "gone" ELSE "new"]

tries == [j \in Jobs |->
  IF Copies(j) = {} THEN 0 ELSE (CHOOSE r \in Copies(j) : TRUE).attempts]

Promise == INSTANCE AtLeastOnce WITH
  Jobs <- Jobs, MaxRetries <- MaxRetries, phase <- phase, tries <- tries, acked <- acked

\* Whatever the processes do and wherever they fail, each job's life is one of
\* those AtLeastOnce allows: no loss, no return from the dead letters or from
\* a reset, and exactly MaxRetries redeliveries before a job is buried.
ImplementsAtLeastOnce == Promise!Spec

=============================================================================
