--------------------------- MODULE MCWaitingRoom ---------------------------
(***************************************************************************)
(* Two users whose pages poll one after the other.  Beyond that a          *)
(* behaviour has at most MaxEvents errors, pod failures and reloads of the *)
(* second user's page that overlap its poll; once the page has reloaded    *)
(* nobody leaves or stops polling.                                         *)
(***************************************************************************)
EXTENDS WaitingRoom, TLC

CONSTANTS t1, t2, poll1, poll2, reload2, p1

PollAndReload == (poll1 :> t1) @@ (poll2 :> t2) @@ (reload2 :> t2)

VARIABLE reloads

\* Nobody has left or, outside, stopped polling.
Steady == gone = {} /\ \A t \in Tokens \ active : beat[t] # "stale"

Reload ==
  /\ events + reloads < MaxEvents
  /\ Steady
  /\ Arrive(reload2)
  /\ reloads' = reloads + 1

\* A reload that is still to come begins by Reload alone.
Waits(p) == p = reload2 /\ pc[p] = "idle"

MCInit == Init /\ reloads = 0

MCNext ==
  \/ Reload
  \/ /\ Next
     /\ events' + reloads <= MaxEvents
     /\ Waits(reload2) => Waits(reload2)'
     /\ reloads > 0 =>
          /\ gone' = {}
          /\ \A t \in Tokens \ active : beat'[t] = "stale" => beat[t] = "stale"
     /\ UNCHANGED reloads

MCSpec == MCInit /\ [][MCNext]_<<vars, reloads>> /\ Fairness
=============================================================================
