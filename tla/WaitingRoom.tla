---------------------------- MODULE WaitingRoom ----------------------------
(***************************************************************************)
(* The waiting room of app-test/frontend/frontend.py: HTTP requests that   *)
(* run check_waiting_status() and one heartbeat thread per pod, over keys  *)
(* they share in Redis.  No command of theirs is grouped in a transaction, *)
(* so every command is a step of its own.                                  *)
(*                                                                         *)
(* The waiting line is a sorted set whose scores are time stamps: a ZADD   *)
(* puts its token, new or not, at the tail (the pods' clocks are taken to  *)
(* agree, and no ZADD to overtake one with a later time).  Only the order  *)
(* of the scores is kept: who is ahead of whom.                            *)
(***************************************************************************)
EXTENDS Integers, FiniteSets

CONSTANTS
  Tokens,       \* waiting_token cookies, one per user
  Requests,     \* of the users' pages: polls, reloads and clicks, in several tabs
  TokenOf,      \* the user behind each request
  Threads,      \* of gunicorn in all pods
  Pods,         \* frontend pods
  SlotsPerPod,  \* SLOTS_PER_POD
  Unsteady,     \* users who may stop polling, for 30 seconds or for good
  MaxEvents     \* bound on Redis errors and pod failures, for model checking

ASSUME RoomAssumption ==
  /\ TokenOf \in [Requests -> Tokens]
  /\ SlotsPerPod \in Nat \ {0}
  /\ Threads \in Nat
  /\ Unsteady \subseteq Tokens
  /\ MaxEvents \in Nat
  /\ IsFiniteSet(Tokens) /\ IsFiniteSet(Requests) /\ IsFiniteSet(Pods) /\ Pods # {}

VARIABLES
  active,    \* tokens with an active:<token> key
  counted,   \* active-users-set, what SCARD counts
  ahead,     \* bank-frontend-waiting-queue: of each member, those with a lower score
  beat,      \* waiting-heartbeat-set: no member, within 30 s, older
  alive,     \* pods with a frontend-pods-alive:<pod> key
  pc,        \* next command of each request
  free,      \* capacity, then free seats, as the request computed them
  crossed,   \* history: requests during which another one of the same user did
             \* the ZADD or the SETEX of its token
  step,      \* next command of each pod's heartbeat thread
  left,      \* members its sweep has still to look at
  found,     \* expired or stale members its sweep is about to remove
  gone,      \* users who have left for good
  events

roomVars    == <<active, counted, ahead, beat, alive>>
requestVars == <<pc, free, crossed>>
sweepVars   == <<step, left, found>>
vars == <<roomVars, requestVars, sweepVars, gone, events>>

Waiting == DOMAIN ahead
Rank(t) == Cardinality(ahead[t])
MaxCapacity == Cardinality(Pods) * SlotsPerPod

\* The line is a strict total order of its members.
LineOK ==
  /\ Waiting \subseteq Tokens
  /\ ahead \in [Waiting -> SUBSET Waiting]
  /\ \A t, u \in Waiting : (t \in ahead[u]) <=> (t # u /\ u \notin ahead[t])
  /\ \A t \in Waiting : \A u \in ahead[t] : ahead[u] \subseteq ahead[t]

TypeOK ==
  /\ active \subseteq Tokens
  /\ counted \subseteq Tokens
  /\ LineOK
  /\ beat \in [Tokens -> {"none", "fresh", "stale"}]
  /\ alive \subseteq Pods
  /\ pc \in [Requests -> {"idle", "expire", "scan", "scard", "zrank", "zcard", "rise",
                          "unbeat", "setex", "sadd", "enqueue", "beat"}]
  /\ free \in [Requests -> -Cardinality(Tokens)..MaxCapacity]
  /\ crossed \subseteq Requests
  /\ step \in [Pods -> {"alive", "smembers", "exists", "srem", "stale", "zrem", "unbeat"}]
  /\ left \in [Pods -> SUBSET Tokens]
  /\ found \in [Pods -> SUBSET Tokens]
  /\ gone \subseteq Unsteady
  /\ events \in 0..MaxEvents

Init ==
  /\ active = {}
  /\ counted = {}
  /\ ahead = [t \in {} |-> {}]
  /\ beat = [t \in Tokens |-> "none"]
  /\ alive = {}
  /\ pc = [p \in Requests |-> "idle"]
  /\ free = [p \in Requests |-> 0]
  /\ crossed = {}
  /\ step = [c \in Pods |-> "alive"]
  /\ left = [c \in Pods |-> {}]
  /\ found = [c \in Pods |-> {}]
  /\ gone = {}
  /\ events = 0

-----------------------------------------------------------------------------
(* check_waiting_status() *)

\* Requests under way, each with a thread of its own.
Busy == {p \in Requests : pc[p] # "idle"}

Goto(p, label) ==
  /\ pc' = [pc EXCEPT ![p] = label]
  /\ UNCHANGED <<free, crossed, sweepVars, gone, events>>

\* The page in line polls every 2.5 seconds and reloads every 5, and waits for no
\* answer: requests of one user overlap, and this one changes what the others
\* have read.
Cross(p, label) ==
  /\ pc' = [pc EXCEPT ![p] = label]
  /\ crossed' = crossed \cup {q \in Busy \ {p} : TokenOf[q] = TokenOf[p]}
  /\ UNCHANGED <<free, sweepVars, gone, events>>

Return(p) ==
  /\ pc' = [pc EXCEPT ![p] = "idle"]
  /\ crossed' = crossed \ {p}
  /\ UNCHANGED <<free, sweepVars, gone, events>>

\* The number of free seats is not looked at again.
Decide(p, label) ==
  /\ pc' = [pc EXCEPT ![p] = label]
  /\ free' = [free EXCEPT ![p] = 0]
  /\ UNCHANGED <<crossed, sweepVars, gone, events>>

\* ZREM of some tokens, ZADD of one.
Zrem(S) == ahead' = [u \in Waiting \ S |-> ahead[u] \ S]

Zadd(t) ==
  ahead' = [u \in Waiting \cup {t} |-> IF u = t THEN Waiting \ {t} ELSE ahead[u] \ {t}]

\* EXISTS active:<token>.
Arrive(p) ==
  /\ pc[p] = "idle"
  /\ Cardinality(Busy) < Threads
  /\ TokenOf[p] \notin gone
  /\ Goto(p, IF TokenOf[p] \in active THEN "expire" ELSE "scan")
  /\ UNCHANGED roomVars

\* EXPIRE: lets the user pass; it revives no key that expired in between.
Extend(p) ==
  /\ pc[p] = "expire"
  /\ Return(p)
  /\ UNCHANGED roomVars

\* Mutant of ScanPods: a pod is added instead of assuming at least one.
ScanPodsPlusOne(p) ==
  /\ pc[p] = "scan"
  /\ \E seen \in SUBSET alive :
       free' = [free EXCEPT ![p] = (Cardinality(seen) + 1) * SlotsPerPod]
  /\ pc' = [pc EXCEPT ![p] = "scard"]
  /\ UNCHANGED <<roomVars, crossed, sweepVars, gone, events>>

\* One SCAN call from cursor 0, whose next cursor is dropped: it looks at about
\* twenty buckets of the key space and may see any of the pods' keys.
ScanPods(p) ==
  /\ pc[p] = "scan"
  /\ \E seen \in SUBSET alive :
       free' = [free EXCEPT ![p] =
                  (IF seen = {} THEN 1 ELSE Cardinality(seen)) * SlotsPerPod]
  /\ pc' = [pc EXCEPT ![p] = "scard"]
  /\ UNCHANGED <<roomVars, crossed, sweepVars, gone, events>>

\* Mutant of CountActive: the users inside are not subtracted.
CountNobody(p) ==
  /\ pc[p] = "scard"
  /\ pc' = [pc EXCEPT ![p] = "zrank"]
  /\ UNCHANGED <<roomVars, free, crossed, sweepVars, gone, events>>

CountActive(p) ==
  /\ pc[p] = "scard"
  /\ free' = [free EXCEPT ![p] = @ - Cardinality(counted)]
  /\ pc' = [pc EXCEPT ![p] = "zrank"]
  /\ UNCHANGED <<roomVars, crossed, sweepVars, gone, events>>

\* Mutant of FindPlace: the rank is compared with <= instead of <.
FindPlaceTooFar(p) ==
  /\ pc[p] = "zrank"
  /\ IF TokenOf[p] \in Waiting
       THEN Decide(p, IF Rank(TokenOf[p]) <= free[p] THEN "rise" ELSE "beat")
       ELSE Decide(p, IF free[p] > 0 THEN "zcard" ELSE "enqueue")
  /\ UNCHANGED roomVars

\* ZRANK of the token decides between the four outcomes.
FindPlace(p) ==
  /\ pc[p] = "zrank"
  /\ IF TokenOf[p] \in Waiting
       THEN Decide(p, IF Rank(TokenOf[p]) < free[p] THEN "rise" ELSE "beat")
       ELSE Decide(p, IF free[p] > 0 THEN "zcard" ELSE "enqueue")
  /\ UNCHANGED roomVars

\* A newcomer enters at once only past an empty line.
LookAtLine(p) ==
  /\ pc[p] = "zcard"
  /\ Goto(p, IF Waiting = {} THEN "setex" ELSE "enqueue")
  /\ UNCHANGED roomVars

\* Mutant of LeaveLine: the token is not removed from the line.
StayInLine(p) ==
  /\ pc[p] = "rise"
  /\ Goto(p, "unbeat")
  /\ UNCHANGED roomVars

LeaveLine(p) ==
  /\ pc[p] = "rise"
  /\ Zrem({TokenOf[p]})
  /\ Goto(p, "unbeat")
  /\ UNCHANGED <<active, counted, beat, alive>>

DropBeat(p) ==
  /\ pc[p] = "unbeat"
  /\ beat' = [beat EXCEPT ![TokenOf[p]] = "none"]
  /\ Goto(p, "setex")
  /\ UNCHANGED <<active, counted, ahead, alive>>

Activate(p) ==
  /\ pc[p] = "setex"
  /\ active' = active \cup {TokenOf[p]}
  /\ Cross(p, "sadd")
  /\ UNCHANGED <<counted, ahead, beat, alive>>

CountIn(p) ==
  /\ pc[p] = "sadd"
  /\ counted' = counted \cup {TokenOf[p]}
  /\ Return(p)
  /\ UNCHANGED <<active, ahead, beat, alive>>

Enqueue(p) ==
  /\ pc[p] = "enqueue"
  /\ Zadd(TokenOf[p])
  /\ Cross(p, "beat")
  /\ UNCHANGED <<active, counted, beat, alive>>

\* ZADD of the heartbeat, of a user still waiting or just enqueued.
Beat(p) ==
  /\ pc[p] = "beat"
  /\ beat' = [beat EXCEPT ![TokenOf[p]] = "fresh"]
  /\ Return(p)
  /\ UNCHANGED <<active, counted, ahead, alive>>

\* A Redis error, or the pod's death: the user is told to come back later.
Fail(p) ==
  /\ events < MaxEvents
  /\ events' = events + 1
  /\ pc[p] # "idle"
  /\ pc' = [pc EXCEPT ![p] = "idle"]
  /\ free' = [free EXCEPT ![p] = 0]
  /\ crossed' = crossed \ {p}
  /\ UNCHANGED <<roomVars, sweepVars, gone>>

-----------------------------------------------------------------------------
(* _pod_heartbeat() *)

SweepTo(c, label) ==
  /\ step' = [step EXCEPT ![c] = label]
  /\ UNCHANGED <<requestVars, gone, events>>

RegisterPod(c) ==
  /\ step[c] = "alive"
  /\ alive' = alive \cup {c}
  /\ SweepTo(c, "smembers")
  /\ UNCHANGED <<active, counted, ahead, beat, left, found>>

ListCounted(c) ==
  /\ step[c] = "smembers"
  /\ left' = [left EXCEPT ![c] = counted]
  /\ SweepTo(c, IF counted = {} THEN "stale" ELSE "exists")
  /\ UNCHANGED <<roomVars, found>>

\* EXISTS of one member after the other.
LookAtMember(c) ==
  /\ step[c] = "exists"
  /\ \E t \in left[c] :
       /\ left' = [left EXCEPT ![c] = @ \ {t}]
       /\ found' = [found EXCEPT ![c] = IF t \in active THEN @ ELSE @ \cup {t}]
       /\ SweepTo(c, IF left[c] # {t} THEN "exists"
                     ELSE IF found'[c] = {} THEN "stale" ELSE "srem")
  /\ UNCHANGED roomVars

\* Mutant of Uncount: the expired members stay in the set.
UncountNone(c) ==
  /\ step[c] = "srem"
  /\ found' = [found EXCEPT ![c] = {}]
  /\ SweepTo(c, "stale")
  /\ UNCHANGED <<roomVars, left>>

Uncount(c) ==
  /\ step[c] = "srem"
  /\ counted' = counted \ found[c]
  /\ found' = [found EXCEPT ![c] = {}]
  /\ SweepTo(c, "stale")
  /\ UNCHANGED <<active, ahead, beat, alive, left>>

\* ZRANGEBYSCORE of the heartbeats older than thirty seconds.
ListStale(c) ==
  /\ step[c] = "stale"
  /\ found' = [found EXCEPT ![c] = {t \in Tokens : beat[t] = "stale"}]
  /\ SweepTo(c, IF found'[c] = {} THEN "alive" ELSE "zrem")
  /\ UNCHANGED <<roomVars, left>>

DropFromLine(c) ==
  /\ step[c] = "zrem"
  /\ Zrem(found[c])
  /\ SweepTo(c, "unbeat")
  /\ UNCHANGED <<active, counted, beat, alive, left, found>>

DropBeats(c) ==
  /\ step[c] = "unbeat"
  /\ beat' = [t \in Tokens |-> IF t \in found[c] THEN "none" ELSE beat[t]]
  /\ found' = [found EXCEPT ![c] = {}]
  /\ SweepTo(c, "alive")
  /\ UNCHANGED <<active, counted, ahead, alive, left>>

\* A Redis error ends the sweep, or the pod is replaced; the loop starts over.
SweepFails(c) ==
  /\ events < MaxEvents
  /\ events' = events + 1
  /\ step[c] # "alive"
  /\ step' = [step EXCEPT ![c] = "alive"]
  /\ left' = [left EXCEPT ![c] = {}]
  /\ found' = [found EXCEPT ![c] = {}]
  /\ UNCHANGED <<roomVars, requestVars, gone>>

-----------------------------------------------------------------------------
(* Time and users *)

Quiet == UNCHANGED <<requestVars, sweepVars, gone>>

\* The 60 second TTL of a user who has stopped clicking.
SessionExpires(t) ==
  /\ t \in active
  /\ active' = active \ {t}
  /\ Quiet
  /\ UNCHANGED <<counted, ahead, beat, alive, events>>

\* Thirty seconds without a poll from the line: the page polls every 2.5 seconds,
\* but the polls of a user inside set no heartbeat.
BeatLapses(t) ==
  /\ t \in Unsteady \cup active
  /\ beat[t] = "fresh"
  /\ beat' = [beat EXCEPT ![t] = "stale"]
  /\ Quiet
  /\ UNCHANGED <<active, counted, ahead, alive, events>>

\* The 30 second TTL of a pod that did not register in time.
PodKeyExpires(c) ==
  /\ events < MaxEvents
  /\ events' = events + 1
  /\ c \in alive
  /\ alive' = alive \ {c}
  /\ Quiet
  /\ UNCHANGED <<active, counted, ahead, beat>>

Leave(t) ==
  /\ t \in Unsteady \ gone
  /\ gone' = gone \cup {t}
  /\ UNCHANGED <<roomVars, requestVars, sweepVars, events>>

RequestStep(p) ==
  \/ Arrive(p) \/ Extend(p) \/ ScanPods(p) \/ CountActive(p) \/ FindPlace(p)
  \/ LookAtLine(p) \/ LeaveLine(p) \/ DropBeat(p) \/ Activate(p) \/ CountIn(p)
  \/ Enqueue(p) \/ Beat(p)

SweepStep(c) ==
  \/ RegisterPod(c) \/ ListCounted(c) \/ LookAtMember(c) \/ Uncount(c)
  \/ ListStale(c) \/ DropFromLine(c) \/ DropBeats(c)

Next ==
  \/ \E p \in Requests : RequestStep(p) \/ Fail(p)
  \/ \E c \in Pods : SweepStep(c) \/ SweepFails(c) \/ PodKeyExpires(c)
  \/ \E t \in Tokens : SessionExpires(t) \/ BeatLapses(t) \/ Leave(t)

Spec == Init /\ [][Next]_vars

\* Requests under way complete, and open pages poll when a thread is free; the
\* heartbeat threads loop; people who got in finish at some time, and silence is
\* noticed after 30 seconds.
Fairness ==
  /\ \A p \in Requests : WF_vars(p \in Busy /\ RequestStep(p))
  /\ \A t \in Tokens : WF_vars(\E p \in Requests : TokenOf[p] = t /\ Arrive(p))
  /\ \A c \in Pods : WF_vars(SweepStep(c))
  /\ \A t \in Tokens : WF_vars(SessionExpires(t))
  /\ \A t \in Unsteady : WF_vars(t \in gone /\ BeatLapses(t))

-----------------------------------------------------------------------------
(* What holds *)

\* Requests that have read a count below the capacity and may act on it.
Permitted ==
  {p \in Requests : \/ pc[p] \in {"zcard", "rise", "unbeat", "setex", "sadd"}
                    \/ pc[p] = "zrank" /\ free[p] > 0}

\* Checking and admitting are separate commands, so the capacity can be
\* exceeded; but never by more than the threads beside the one that admits,
\* whatever fails and however pods come and go: the counted set does not drift
\* upwards.  It says nothing of users inside who are not counted.
OvershootBounded ==
  Cardinality(counted) + Cardinality(Permitted)
    <= MaxCapacity + Threads - 1

\* A user gets inside while in line, or into the line while inside, only by a
\* request that another request of the same user has crossed: sweeps, sessions
\* that end, failures and other users never cause it.
SeatOrPlace ==
  [][\A t \in (active' \cap Waiting') \ (active \cap Waiting) :
       \E p \in crossed : TokenOf[p] = t /\ pc'[p] # pc[p]]_vars

\* A user leaves the line as one of the first, unless another request of the
\* same user has put the token back at the tail: otherwise the place a request
\* has read is never worse when the request acts on it.
AdmittedFromTheFront ==
  [][\A p \in Requests \ crossed :
       (pc[p] = "rise" /\ pc'[p] = "unbeat" /\ TokenOf[p] \in Waiting)
         => Rank(TokenOf[p]) < MaxCapacity]_vars

\* A place in line whose user has gone and that no sweep looks for any more.
Ghost(t) == t \in gone /\ t \in Waiting /\ beat[t] = "none"

\* A user who waits and keeps polling gets in, whatever fails and whoever gives
\* up, unless one of those who gave up is at some time a ghost (GhostsAreSwept).
EveryPollerEnters ==
  \A t \in Tokens \ Unsteady :
    (t \in Waiting) ~> (t \in active \/ \E u \in Tokens : Ghost(u))

-----------------------------------------------------------------------------
(* What a comment says *)

\* Tokens without a heartbeat for thirty seconds are cleaned out of the line.
GhostsAreSwept == \A t \in Tokens : (t \in gone /\ t \in Waiting) ~> (t \notin Waiting)
=============================================================================
