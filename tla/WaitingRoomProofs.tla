------------------------- MODULE WaitingRoomProofs -------------------------
(***************************************************************************)
(* The waiting room lets in too many users by at most the number of        *)
(* threads beside the one that admits, and only requests of one and the    *)
(* same user that overlap can cost a user the place or leave it behind.    *)
(***************************************************************************)
EXTENDS WaitingRoom, FiniteSetTheorems, TLAPS

Labels == {"idle", "expire", "scan", "scard", "zrank", "zcard", "rise",
           "unbeat", "setex", "sadd", "enqueue", "beat"}

\* The capacity a request computes from the pods it saw is a natural number
\* not above the capacity of all pods.
LEMMA CapacityOfSeen ==
  ASSUME NEW seen \in SUBSET Pods
  PROVE  /\ MaxCapacity \in Nat /\ MaxCapacity >= 1
         /\ (IF seen = {} THEN 1 ELSE Cardinality(seen)) * SlotsPerPod \in 0..MaxCapacity
<1> DEFINE k == IF seen = {} THEN 1 ELSE Cardinality(seen)
<1>1. /\ Cardinality(Pods) \in Nat /\ Cardinality(Pods) # 0
      /\ Cardinality(seen) \in Nat /\ Cardinality(seen) <= Cardinality(Pods)
  BY FS_CardinalityType, FS_Subset, FS_EmptySet, RoomAssumption
<1>2. k \in Nat /\ k <= Cardinality(Pods)
  BY <1>1
<1>3. SlotsPerPod \in Nat /\ SlotsPerPod >= 1
  BY RoomAssumption
<1>4. \A x, y, z \in Nat : x <= y => x * z <= y * z
  BY Z3
<1>5. k * SlotsPerPod \in Nat /\ k * SlotsPerPod <= Cardinality(Pods) * SlotsPerPod
  BY <1>1, <1>2, <1>3, <1>4
<1>6. Cardinality(Pods) * SlotsPerPod \in Nat
  BY <1>1, <1>3
<1>7. 1 * SlotsPerPod <= Cardinality(Pods) * SlotsPerPod
  <2>1. 1 <= Cardinality(Pods)
    BY <1>1
  <2> QED BY <2>1, <1>1, <1>3, <1>4
<1> QED BY <1>3, <1>5, <1>6, <1>7 DEF MaxCapacity


-----------------------------------------------------------------------------
(* Types *)

\* ZREM takes its tokens out of the line and leaves the others in their order.
LEMMA ZremKeepsLine ==
  ASSUME LineOK, NEW S, Zrem(S)
  PROVE  /\ LineOK'
         /\ Waiting' = Waiting \ S
         /\ \A u \in Waiting' : ahead'[u] = ahead[u] \ S
<1>1. Waiting' = Waiting \ S
  BY DEF Zrem, Waiting
<1>2. \A u \in Waiting \ S : ahead'[u] = ahead[u] \ S
  BY DEF Zrem
<1>3. ahead' \in [Waiting \ S -> SUBSET (Waiting \ S)]
  BY DEF Zrem, LineOK
<1>4. \A t, u \in Waiting \ S : (t \in ahead'[u]) <=> (t # u /\ u \notin ahead'[t])
  BY <1>2 DEF LineOK
<1>5. \A t \in Waiting \ S : \A u \in ahead'[t] : ahead'[u] \subseteq ahead'[t]
  BY <1>2, <1>3 DEF LineOK
<1> QED BY <1>1, <1>2, <1>3, <1>4, <1>5 DEF LineOK

\* ZADD puts its token behind all others and leaves those in their order.
LEMMA ZaddKeepsLine ==
  ASSUME LineOK, NEW t \in Tokens, Zadd(t)
  PROVE  /\ LineOK'
         /\ Waiting' = Waiting \cup {t}
         /\ \A u \in Waiting \ {t} : ahead'[u] = ahead[u] \ {t}
<1>1. Waiting' = Waiting \cup {t}
  BY DEF Zadd, Waiting
<1>2. /\ ahead'[t] = Waiting \ {t}
      /\ \A u \in Waiting \ {t} : ahead'[u] = ahead[u] \ {t}
  BY DEF Zadd
<1>3. ahead' \in [Waiting \cup {t} -> SUBSET (Waiting \cup {t})]
  BY DEF Zadd, LineOK
<1>4. \A x, y \in Waiting \cup {t} : (x \in ahead'[y]) <=> (x # y /\ y \notin ahead'[x])
  <2> TAKE x, y \in Waiting \cup {t}
  <2>1. CASE x = t /\ y = t
    BY <2>1, <1>2
  <2>2. CASE x = t /\ y # t
    BY <2>2, <1>2
  <2>3. CASE x # t /\ y = t
    BY <2>3, <1>2
  <2>4. CASE x # t /\ y # t
    BY <2>4, <1>2 DEF LineOK
  <2> QED BY <2>1, <2>2, <2>3, <2>4
<1>5. \A x \in Waiting \cup {t} : \A y \in ahead'[x] : ahead'[y] \subseteq ahead'[x]
  <2> SUFFICES ASSUME NEW x \in Waiting \cup {t}, NEW y \in ahead'[x]
               PROVE  ahead'[y] \subseteq ahead'[x]
    OBVIOUS
  <2>1. y \in Waiting \ {t}
    BY <1>2 DEF LineOK
  <2> QED BY <2>1, <1>2 DEF LineOK
<1> QED BY <1>1, <1>2, <1>3, <1>4, <1>5 DEF LineOK

\* The parts of TypeOK, and what a request knows of the capacity: without it the
\* subtraction of SCARD has no lower bound.
RoomTypes ==
  /\ active \subseteq Tokens
  /\ counted \subseteq Tokens
  /\ LineOK
  /\ beat \in [Tokens -> {"none", "fresh", "stale"}]
  /\ alive \subseteq Pods

RequestTypes ==
  /\ pc \in [Requests -> Labels]
  /\ free \in [Requests -> -Cardinality(Tokens)..MaxCapacity]
  /\ \A p \in Requests : pc[p] = "scard" => free[p] >= 0
  /\ crossed \subseteq Requests

SweepTypes ==
  /\ step \in [Pods -> {"alive", "smembers", "exists", "srem", "stale", "zrem", "unbeat"}]
  /\ left \in [Pods -> SUBSET Tokens]
  /\ found \in [Pods -> SUBSET Tokens]

RestTypes ==
  /\ gone \subseteq Unsteady
  /\ events \in 0..MaxEvents

TypeInv == RoomTypes /\ RequestTypes /\ SweepTypes /\ RestTypes

LEMMA TypesOfLine == LineOK /\ ahead' = ahead => LineOK'
BY DEF LineOK, Waiting

LEMMA TypeInit == Init => TypeInv
<1> SUFFICES ASSUME Init PROVE TypeInv
  OBVIOUS
<1>1. Waiting = {} /\ ahead \in [{} -> SUBSET {}]
  BY DEF Init, Waiting
<1>2. LineOK
  BY <1>1 DEF LineOK
<1>3. MaxCapacity \in Nat /\ Cardinality(Tokens) \in Nat
  BY CapacityOfSeen, FS_CardinalityType, RoomAssumption
<1>4. 0 \in -Cardinality(Tokens)..MaxCapacity
  BY <1>3
<1>5. RequestTypes
  BY <1>4 DEF Init, RequestTypes, Labels
<1> QED BY <1>2, <1>5, RoomAssumption DEF Init, TypeInv, RoomTypes, SweepTypes, RestTypes

\* A request touches the room as follows.
LEMMA RequestKeepsRoomTypes ==
  ASSUME TypeInv, NEW p \in Requests, RequestStep(p) \/ Fail(p)
  PROVE  RoomTypes'
<1>1. TokenOf[p] \in Tokens
  BY RoomAssumption
<1>2. CASE LeaveLine(p)
  BY <1>2, ZremKeepsLine DEF LeaveLine, TypeInv, RoomTypes
<1>3. CASE Enqueue(p)
  BY <1>1, <1>3, ZaddKeepsLine DEF Enqueue, TypeInv, RoomTypes
<1>4. CASE DropBeat(p) \/ Beat(p) \/ Activate(p) \/ CountIn(p)
  BY <1>1, <1>4, TypesOfLine DEF DropBeat, Beat, Activate, CountIn, TypeInv, RoomTypes
<1>5. CASE UNCHANGED roomVars
  BY <1>5, TypesOfLine DEF roomVars, TypeInv, RoomTypes
<1> QED BY <1>2, <1>3, <1>4, <1>5 DEF RequestStep, Arrive, Extend, ScanPods, CountActive,
           FindPlace, LookAtLine, Fail

\* What a request computes stays within the capacity.
LEMMA RequestKeepsRequestTypes ==
  ASSUME TypeInv, NEW p \in Requests, RequestStep(p) \/ Fail(p)
  PROVE  RequestTypes'
<1>1. /\ MaxCapacity \in Nat /\ MaxCapacity' = MaxCapacity
      /\ Cardinality(Tokens) \in Nat
  BY CapacityOfSeen, FS_CardinalityType, RoomAssumption DEF MaxCapacity
<1>2. 0 \in -Cardinality(Tokens)..MaxCapacity
  BY <1>1
<1>3. crossed' \subseteq Requests
  BY DEF RequestStep, Arrive, Extend, ScanPods, CountActive, FindPlace, LookAtLine, LeaveLine,
         DropBeat, Activate, CountIn, Enqueue, Beat, Fail, Goto, Cross, Return, Decide, Busy,
         TypeInv, RequestTypes
<1>4. CASE ScanPods(p)
  <2>1. PICK seen \in SUBSET alive :
          free' = [free EXCEPT ![p] =
                     (IF seen = {} THEN 1 ELSE Cardinality(seen)) * SlotsPerPod]
    BY <1>4 DEF ScanPods
  <2>2. seen \in SUBSET Pods
    BY DEF TypeInv, RoomTypes
  <2>3. free'[p] \in 0..MaxCapacity /\ free' = [free EXCEPT ![p] = free'[p]]
    BY <2>1, <2>2, CapacityOfSeen DEF TypeInv, RequestTypes
  <2>4. free'[p] \in -Cardinality(Tokens)..MaxCapacity /\ free'[p] >= 0
    BY <2>3, <1>1
  <2>5. free' \in [Requests -> -Cardinality(Tokens)..MaxCapacity]
    BY <2>3, <2>4 DEF TypeInv, RequestTypes
  <2>6. pc' = [pc EXCEPT ![p] = "scard"]
    BY <1>4 DEF ScanPods
  <2> QED BY <1>1, <1>3, <2>3, <2>4, <2>5, <2>6 DEF TypeInv, RequestTypes, Labels
<1>5. CASE CountActive(p)
  <2>1. /\ pc[p] = "scard" /\ pc' = [pc EXCEPT ![p] = "zrank"]
        /\ free' = [free EXCEPT ![p] = free[p] - Cardinality(counted)]
    BY <1>5 DEF CountActive
  <2>2. Cardinality(counted) \in Nat /\ Cardinality(counted) <= Cardinality(Tokens)
    BY FS_Subset, FS_CardinalityType, RoomAssumption DEF TypeInv, RoomTypes
  <2>3. free[p] \in 0..MaxCapacity
    BY <1>1, <2>1 DEF TypeInv, RequestTypes
  <2>4. free[p] - Cardinality(counted) \in -Cardinality(Tokens)..MaxCapacity
    BY <1>1, <2>2, <2>3
  <2> QED BY <1>1, <1>3, <2>1, <2>4 DEF TypeInv, RequestTypes, Labels
<1>6. CASE /\ free' \in {free, [free EXCEPT ![p] = 0]}
           /\ \E l \in Labels \ {"scard"} : pc' = [pc EXCEPT ![p] = l]
  BY <1>1, <1>2, <1>3, <1>6 DEF TypeInv, RequestTypes
<1>7. ScanPods(p) \/ CountActive(p) \/
      /\ free' \in {free, [free EXCEPT ![p] = 0]}
      /\ \E l \in Labels \ {"scard"} : pc' = [pc EXCEPT ![p] = l]
  BY DEF RequestStep, Arrive, Extend, FindPlace, LookAtLine, LeaveLine, DropBeat,
         Activate, CountIn, Enqueue, Beat, Fail, Goto, Cross, Return, Decide, Labels
<1> QED BY <1>4, <1>5, <1>6, <1>7

LEMMA RequestKeepsOtherTypes ==
  ASSUME TypeInv, NEW p \in Requests, RequestStep(p) \/ Fail(p)
  PROVE  SweepTypes' /\ RestTypes'
<1>1. UNCHANGED <<sweepVars, gone>> /\ events' \in 0..MaxEvents
  BY RoomAssumption DEF RequestStep, Arrive, Extend, ScanPods, CountActive, FindPlace, LookAtLine,
         LeaveLine, DropBeat, Activate, CountIn, Enqueue, Beat, Fail, Goto, Cross, Return, Decide,
         TypeInv, RestTypes, sweepVars
<1> QED BY <1>1 DEF sweepVars, TypeInv, SweepTypes, RestTypes

\* The commands of a heartbeat thread and the expiry of its key.
LEMMA PodKeepsTypes ==
  ASSUME TypeInv, NEW c \in Pods, SweepStep(c) \/ SweepFails(c) \/ PodKeyExpires(c)
  PROVE  TypeInv'
<1>1. UNCHANGED <<requestVars, gone>> /\ events' \in 0..MaxEvents
  BY RoomAssumption DEF SweepStep, SweepTo, RegisterPod, ListCounted, LookAtMember, Uncount, ListStale,
         DropFromLine, DropBeats, SweepFails, PodKeyExpires, Quiet, TypeInv, RestTypes
<1>2. RequestTypes' /\ RestTypes'
  BY <1>1 DEF requestVars, TypeInv, RequestTypes, RestTypes, MaxCapacity
<1>3. RoomTypes'
  <2>1. CASE DropFromLine(c)
    BY <2>1, ZremKeepsLine DEF DropFromLine, TypeInv, RoomTypes
  <2>2. CASE RegisterPod(c) \/ Uncount(c) \/ DropBeats(c) \/ PodKeyExpires(c)
    BY <2>2, TypesOfLine DEF RegisterPod, Uncount, DropBeats, PodKeyExpires, TypeInv, RoomTypes
  <2>3. CASE UNCHANGED roomVars
    BY <2>3, TypesOfLine DEF roomVars, TypeInv, RoomTypes
  <2> QED BY <2>1, <2>2, <2>3 DEF SweepStep, ListCounted, LookAtMember, ListStale, SweepFails
<1>4. SweepTypes'
  <2>1. CASE LookAtMember(c)
    <3>1. PICK t \in left[c] :
            /\ left' = [left EXCEPT ![c] = @ \ {t}]
            /\ found' = [found EXCEPT ![c] = IF t \in active THEN @ ELSE @ \cup {t}]
            /\ SweepTo(c, IF left[c] # {t} THEN "exists"
                          ELSE IF found'[c] = {} THEN "stale" ELSE "srem")
      BY <2>1 DEF LookAtMember
    <3>2. left[c] \in SUBSET Tokens /\ found[c] \in SUBSET Tokens
      BY DEF TypeInv, SweepTypes
    <3> QED BY <3>1, <3>2 DEF SweepTo, TypeInv, SweepTypes
  <2>2. CASE ListCounted(c) \/ ListStale(c)
    BY <2>2 DEF ListCounted, ListStale, SweepTo, TypeInv, RoomTypes, SweepTypes
  <2>3. CASE RegisterPod(c) \/ Uncount(c) \/ DropFromLine(c) \/ DropBeats(c)
    BY <2>3 DEF RegisterPod, Uncount, DropFromLine, DropBeats, SweepTo, TypeInv, SweepTypes
  <2>4. CASE SweepFails(c) \/ PodKeyExpires(c)
    BY <2>4 DEF SweepFails, PodKeyExpires, Quiet, sweepVars, TypeInv, SweepTypes
  <2> QED BY <2>1, <2>2, <2>3, <2>4 DEF SweepStep
<1> QED BY <1>2, <1>3, <1>4 DEF TypeInv

LEMMA UserKeepsTypes ==
  ASSUME TypeInv, NEW t \in Tokens, SessionExpires(t) \/ BeatLapses(t) \/ Leave(t)
  PROVE  TypeInv'
<1>1. RoomTypes' /\ RestTypes'
  BY TypesOfLine DEF SessionExpires, BeatLapses, Leave, Quiet, roomVars, TypeInv, RoomTypes, RestTypes
<1>2. UNCHANGED <<requestVars, sweepVars>>
  BY DEF SessionExpires, BeatLapses, Leave, Quiet
<1> QED BY <1>1, <1>2 DEF requestVars, sweepVars, TypeInv, RequestTypes, SweepTypes, MaxCapacity

LEMMA TypeStep == TypeInv /\ [Next]_vars => TypeInv'
<1> SUFFICES ASSUME TypeInv, [Next]_vars PROVE TypeInv'
  OBVIOUS
<1>1. ASSUME NEW p \in Requests, RequestStep(p) \/ Fail(p) PROVE TypeInv'
  BY <1>1, RequestKeepsRoomTypes, RequestKeepsRequestTypes, RequestKeepsOtherTypes DEF TypeInv
<1>2. CASE UNCHANGED vars
  BY <1>2, TypesOfLine DEF vars, roomVars, requestVars, sweepVars, TypeInv, RoomTypes,
     RequestTypes, SweepTypes, RestTypes, MaxCapacity
<1> QED BY <1>1, <1>2, PodKeepsTypes, UserKeepsTypes DEF Next

\* Whatever a request reads, it computes a number of free seats between minus
\* all users and the capacity of all pods, and ZADD and ZREM keep the waiting
\* line a strict total order of its members.
THEOREM Typed == Spec => []TypeOK
<1>1. TypeInv => TypeOK
  BY DEF TypeInv, RoomTypes, RequestTypes, SweepTypes, RestTypes, TypeOK, Labels
<1> QED BY <1>1, TypeInit, TypeStep, PTL DEF Spec

-----------------------------------------------------------------------------
(* The bound on the counted users *)

\* What a request knows of the capacity, and the bound itself.
SeatInv ==
  /\ counted \subseteq Tokens
  /\ alive \subseteq Pods
  /\ pc \in [Requests -> Labels]
  /\ free \in [Requests -> Int]
  /\ \A p \in Requests : pc[p] = "scard" => free[p] <= MaxCapacity
  /\ OvershootBounded

\* The sets the bound speaks of are finite and no larger than their universe.
LEMMA Sizes ==
  ASSUME NEW S \in SUBSET Tokens, NEW R \in SUBSET Requests
  PROVE  /\ IsFiniteSet(S) /\ Cardinality(S) \in Nat
         /\ IsFiniteSet(R) /\ Cardinality(R) \in Nat
BY FS_Subset, FS_CardinalityType, RoomAssumption

\* A step that counts nobody in and permits no new request keeps the bound.
LEMMA NoNewSeat ==
  ASSUME SeatInv, counted' \subseteq counted, Permitted' \subseteq Permitted
  PROVE  OvershootBounded'
<1>1. /\ counted \in SUBSET Tokens /\ counted' \in SUBSET Tokens
      /\ Permitted \in SUBSET Requests /\ Permitted' \in SUBSET Requests
  BY DEF SeatInv, Permitted
<1>2. /\ Cardinality(counted) \in Nat /\ IsFiniteSet(counted)
      /\ Cardinality(counted') \in Nat
      /\ Cardinality(Permitted) \in Nat /\ IsFiniteSet(Permitted)
      /\ Cardinality(Permitted') \in Nat
  BY <1>1, Sizes
<1>3. /\ Cardinality(counted') <= Cardinality(counted)
      /\ Cardinality(Permitted') <= Cardinality(Permitted)
  BY <1>2, FS_Subset
<1>4. MaxCapacity \in Nat /\ Threads \in Nat
  BY CapacityOfSeen, RoomAssumption
<1> QED BY <1>2, <1>3, <1>4 DEF OvershootBounded, SeatInv, MaxCapacity

\* A request whose next command cannot lead it to a seat is not permitted.
LEMMA OnlyPermitted ==
  ASSUME SeatInv, pc' \in [Requests -> Labels], NEW p \in Requests,
         \A q \in Requests \ {p} : pc'[q] = pc[q] /\ free'[q] = free[q],
         p \in Permitted' => p \in Permitted
  PROVE  Permitted' \subseteq Permitted
BY DEF Permitted

LEMMA SeatInit == Init => SeatInv
<1> SUFFICES ASSUME Init PROVE SeatInv
  OBVIOUS
<1>1. counted = {} /\ Permitted = {}
  BY DEF Init, Permitted
<1>2. Cardinality(counted) = 0 /\ Cardinality(Permitted) = 0
  BY <1>1, FS_EmptySet
<1>3. MaxCapacity \in Nat /\ MaxCapacity >= 1
  BY CapacityOfSeen
<1>4. Threads \in Nat
  BY RoomAssumption
<1>5. OvershootBounded
  BY <1>2, <1>3, <1>4 DEF OvershootBounded, MaxCapacity
<1> QED BY <1>5 DEF Init, SeatInv, Labels

\* The step that decides: after SCARD a request is permitted only if it found
\* fewer users counted than the capacity allows.
LEMMA CountActiveKeepsSeats ==
  ASSUME SeatInv, Cardinality(Busy) <= Threads, NEW p \in Requests, CountActive(p)
  PROVE  SeatInv'
<1>1. /\ pc[p] = "scard" /\ free[p] <= MaxCapacity /\ free[p] \in Int
      /\ counted' = counted /\ alive' = alive
      /\ pc' = [pc EXCEPT ![p] = "zrank"]
      /\ free' = [free EXCEPT ![p] = @ - Cardinality(counted)]
  BY DEF CountActive, SeatInv, roomVars
<1>2. /\ Cardinality(counted) \in Nat
      /\ Cardinality(Permitted') \in Nat
      /\ Cardinality(Permitted') <= Threads
  <2>1. counted \in SUBSET Tokens /\ Permitted' \in SUBSET Requests /\ Busy \in SUBSET Requests
    BY DEF SeatInv, Permitted, Busy
  <2>2. Permitted' \subseteq Busy
    BY <1>1 DEF SeatInv, Permitted, Busy
  <2>3. /\ Cardinality(counted) \in Nat /\ Cardinality(Permitted') \in Nat
        /\ IsFiniteSet(Busy) /\ Cardinality(Busy) \in Nat
    BY <2>1, Sizes
  <2>4. Cardinality(Permitted') <= Cardinality(Busy)
    BY <2>2, <2>3, FS_Subset
  <2> QED BY <2>3, <2>4, RoomAssumption
<1>3. MaxCapacity \in Nat /\ Threads \in Nat
  BY CapacityOfSeen, RoomAssumption
<1>4. pc' \in [Requests -> Labels] /\ free' \in [Requests -> Int]
  BY <1>1, <1>2 DEF SeatInv, Labels
<1>5. OvershootBounded'
  <2>1. CASE free'[p] > 0
    <3>1. Cardinality(counted) <= MaxCapacity - 1
      BY <2>1, <1>1, <1>2, <1>3 DEF SeatInv
    <3> QED BY <3>1, <1>1, <1>2, <1>3 DEF OvershootBounded, MaxCapacity
  <2>2. CASE ~(free'[p] > 0)
    <3>1. p \notin Permitted'
      BY <2>2, <1>1 DEF Permitted, SeatInv
    <3>2. Permitted' \subseteq Permitted
      BY <3>1, <1>1, <1>4, OnlyPermitted DEF SeatInv
    <3> QED BY <3>2, <1>1, NoNewSeat
  <2> QED BY <2>1, <2>2
<1>6. \A q \in Requests : pc'[q] = "scard" => free'[q] <= MaxCapacity
  BY <1>1 DEF SeatInv
<1> QED BY <1>1, <1>4, <1>5, <1>6 DEF SeatInv, MaxCapacity

\* SADD gives the seat the request was permitted to take: one more user is
\* counted, one request less is permitted.
LEMMA CountInKeepsSeats ==
  ASSUME SeatInv, NEW p \in Requests, CountIn(p)
  PROVE  SeatInv'
<1>1. /\ pc[p] = "sadd" /\ alive' = alive
      /\ counted' = counted \cup {TokenOf[p]}
      /\ pc' = [pc EXCEPT ![p] = "idle"]
      /\ free' = free
  BY DEF CountIn, Return
<1>2. TokenOf[p] \in Tokens /\ counted \in SUBSET Tokens /\ Permitted \in SUBSET Requests
  BY RoomAssumption DEF SeatInv, Permitted
<1>3. p \in Permitted /\ Permitted' \subseteq Permitted \ {p}
  BY <1>1 DEF Permitted, SeatInv
<1>4. /\ IsFiniteSet(counted) /\ Cardinality(counted) \in Nat
      /\ IsFiniteSet(Permitted) /\ Cardinality(Permitted) \in Nat
  BY <1>2, Sizes
<1>5. Cardinality(counted') \in Nat /\ Cardinality(counted') <= Cardinality(counted) + 1
  <2> DEFINE t == TokenOf[p]
  <2>1. Cardinality(counted \cup {t}) = IF t \in counted THEN Cardinality(counted)
                                        ELSE Cardinality(counted) + 1
    BY <1>4, FS_AddElement
  <2> QED BY <2>1, <1>1, <1>4
<1>6. Cardinality(Permitted \ {p}) = Cardinality(Permitted) - 1 /\ IsFiniteSet(Permitted \ {p})
  BY <1>3, <1>4, FS_RemoveElement
<1>7. Cardinality(Permitted') <= Cardinality(Permitted) - 1 /\ Cardinality(Permitted') \in Nat
  BY <1>3, <1>6, FS_Subset, FS_CardinalityType
<1>8. MaxCapacity \in Nat /\ Threads \in Nat
  BY CapacityOfSeen, RoomAssumption
<1>9. OvershootBounded'
  BY <1>4, <1>5, <1>7, <1>8 DEF OvershootBounded, MaxCapacity, SeatInv
<1> QED BY <1>1, <1>2, <1>9 DEF SeatInv, Labels, MaxCapacity

\* The other commands of a request count nobody in.
LEMMA RequestKeepsSeats ==
  ASSUME SeatInv, TypeInv, Cardinality(Busy) <= Threads,
         NEW p \in Requests, RequestStep(p) \/ Fail(p)
  PROVE  SeatInv'
<1> DEFINE Passive == Arrive(p) \/ Extend(p) \/ ScanPods(p) \/ FindPlace(p)
                      \/ LookAtLine(p) \/ LeaveLine(p) \/ DropBeat(p) \/ Activate(p)
                      \/ Enqueue(p) \/ Beat(p) \/ Fail(p)
<1>1. CASE CountActive(p)
  BY <1>1, CountActiveKeepsSeats
<1>2. CASE CountIn(p)
  BY <1>2, CountInKeepsSeats
<1>3. CASE ScanPods(p)
  <2>1. PICK seen \in SUBSET alive :
          free' = [free EXCEPT ![p] =
                     (IF seen = {} THEN 1 ELSE Cardinality(seen)) * SlotsPerPod]
    BY <1>3 DEF ScanPods
  <2>2. /\ pc[p] = "scan" /\ pc' = [pc EXCEPT ![p] = "scard"]
        /\ counted' = counted /\ alive' = alive
    BY <1>3 DEF ScanPods, roomVars
  <2>3. seen \in SUBSET Pods
    BY DEF SeatInv
  <2>4. free'[p] \in 0..MaxCapacity /\ MaxCapacity \in Nat
    BY <2>1, <2>3, CapacityOfSeen DEF SeatInv
  <2>5. pc' \in [Requests -> Labels] /\ free' \in [Requests -> Int]
    BY <2>1, <2>2, <2>4 DEF SeatInv, Labels
  <2>6. Permitted' \subseteq Permitted
    BY <2>1, <2>2, <2>5, OnlyPermitted DEF Permitted, SeatInv
  <2>7. OvershootBounded'
    BY <2>2, <2>6, NoNewSeat
  <2>8. \A q \in Requests : pc'[q] = "scard" => free'[q] <= MaxCapacity
    BY <2>1, <2>2, <2>4 DEF SeatInv
  <2>9. alive' \subseteq Pods /\ counted' \subseteq Tokens /\ MaxCapacity' = MaxCapacity
    BY <2>2 DEF SeatInv, MaxCapacity
  <2> QED BY <2>5, <2>7, <2>8, <2>9 DEF SeatInv
<1>4. CASE Passive /\ ~ScanPods(p)
  <2>1. /\ pc' \in [Requests -> Labels] /\ free' \in [Requests -> Int]
        /\ counted' = counted /\ alive' = alive
        /\ \A q \in Requests \ {p} : pc'[q] = pc[q] /\ free'[q] = free[q]
        /\ pc'[p] # "scard"
        /\ p \in Permitted' => p \in Permitted
    <3>1. CASE FindPlace(p)
      <4>1. TokenOf[p] \in Waiting => Rank(TokenOf[p]) \in Nat
        BY FS_Subset, FS_CardinalityType, RoomAssumption DEF Rank, TypeInv, RoomTypes, LineOK
      <4>2. /\ pc[p] = "zrank" /\ free' = [free EXCEPT ![p] = 0]
            /\ counted' = counted /\ alive' = alive
            /\ \/ /\ pc' = [pc EXCEPT ![p] = "rise"]
                  /\ TokenOf[p] \in Waiting /\ Rank(TokenOf[p]) < free[p]
               \/ pc' = [pc EXCEPT ![p] = "zcard"] /\ free[p] > 0
               \/ pc' = [pc EXCEPT ![p] = "beat"]
               \/ pc' = [pc EXCEPT ![p] = "enqueue"]
        BY <3>1 DEF FindPlace, Decide, roomVars
      <4>3. /\ pc' \in [Requests -> Labels] /\ free' \in [Requests -> Int]
            /\ pc'[p] # "scard"
            /\ \A q \in Requests \ {p} : pc'[q] = pc[q] /\ free'[q] = free[q]
        BY <4>2 DEF SeatInv, Labels
      <4>4. pc'[p] \in {"rise", "zcard"} => p \in Permitted
        BY <4>1, <4>2 DEF SeatInv, Permitted
      <4>5. p \in Permitted' => pc'[p] \in {"rise", "zcard"}
        BY <4>2 DEF SeatInv, Permitted
      <4> QED BY <4>2, <4>3, <4>4, <4>5
    <3>2. CASE Arrive(p)
      <4>1. /\ free' = free /\ counted' = counted /\ alive' = alive
            /\ \/ pc' = [pc EXCEPT ![p] = "expire"]
               \/ pc' = [pc EXCEPT ![p] = "scan"]
        BY <3>2 DEF roomVars, Goto, Arrive
      <4>2. /\ pc' \in [Requests -> Labels] /\ free' \in [Requests -> Int]
            /\ pc'[p] \in {"expire", "scan"}
            /\ \A q \in Requests \ {p} : pc'[q] = pc[q] /\ free'[q] = free[q]
        BY <4>1 DEF SeatInv, Labels
      <4>3. p \notin Permitted'
        BY <4>2 DEF Permitted
      <4> QED BY <4>1, <4>2, <4>3
    <3>4. CASE LookAtLine(p)
      <4>1. /\ free' = free /\ counted' = counted /\ alive' = alive
            /\ pc[p] = "zcard"
            /\ \/ pc' = [pc EXCEPT ![p] = "setex"]
               \/ pc' = [pc EXCEPT ![p] = "enqueue"]
        BY <3>4 DEF roomVars, Goto, LookAtLine
      <4>2. /\ pc' \in [Requests -> Labels] /\ free' \in [Requests -> Int]
            /\ pc'[p] \in {"setex", "enqueue"}
            /\ \A q \in Requests \ {p} : pc'[q] = pc[q] /\ free'[q] = free[q]
        BY <4>1 DEF SeatInv, Labels
      <4>3. p \in Permitted
        BY <4>1 DEF SeatInv, Permitted
      <4> QED BY <4>1, <4>2, <4>3
    <3>5. CASE Extend(p) \/ Fail(p)
      BY <3>5 DEF SeatInv, Labels, Permitted, roomVars, Return, Extend, Fail
    <3>3. CASE LeaveLine(p) \/ DropBeat(p) \/ Activate(p) \/ Enqueue(p) \/ Beat(p)
      BY <3>3 DEF SeatInv, Labels, Permitted, Goto, Cross, Return, Decide, LeaveLine, DropBeat,
         Activate, Enqueue, Beat
    <3> QED BY <1>4, <3>1, <3>2, <3>3, <3>4, <3>5
  <2>2. OvershootBounded'
    BY <2>1, OnlyPermitted, NoNewSeat
  <2>3. \A q \in Requests : pc'[q] = "scard" => free'[q] <= MaxCapacity
    BY <2>1 DEF SeatInv
  <2> QED BY <2>1, <2>2, <2>3 DEF SeatInv, MaxCapacity
<1> QED BY <1>1, <1>2, <1>3, <1>4 DEF RequestStep

\* Sweeps, time and users never add to the set that is counted.
LEMMA OthersKeepSeats ==
  ASSUME SeatInv,
         \/ \E c \in Pods : SweepStep(c) \/ SweepFails(c) \/ PodKeyExpires(c)
         \/ \E t \in Tokens : SessionExpires(t) \/ BeatLapses(t) \/ Leave(t)
         \/ UNCHANGED vars
  PROVE  SeatInv'
<1>1. /\ pc' = pc /\ free' = free /\ counted' \subseteq counted /\ alive' \subseteq Pods
  BY DEF SeatInv, vars, roomVars, requestVars, Quiet, SweepStep, SweepTo, RegisterPod,
         ListCounted, LookAtMember, Uncount, ListStale, DropFromLine, DropBeats,
         SweepFails, PodKeyExpires, SessionExpires, BeatLapses, Leave
<1>2. Permitted' = Permitted
  BY <1>1 DEF Permitted
<1>3. OvershootBounded'
  BY <1>1, <1>2, NoNewSeat
<1> QED BY <1>1, <1>3 DEF SeatInv, MaxCapacity

\* No request begins without a thread.
LEMMA ThreadsSuffice ==
  ASSUME TypeInv, Cardinality(Busy) <= Threads, [Next]_vars
  PROVE  Cardinality(Busy') <= Threads
<1>1. Busy \in SUBSET Requests /\ Busy' \in SUBSET Requests
  BY DEF Busy
<1>2. /\ IsFiniteSet(Busy) /\ Cardinality(Busy) \in Nat /\ Cardinality(Busy') \in Nat
      /\ Threads \in Nat
  BY <1>1, Sizes, RoomAssumption
<1>3. ASSUME Busy' \subseteq Busy PROVE Cardinality(Busy') <= Threads
  <2>1. Cardinality(Busy') <= Cardinality(Busy)
    BY <1>2, <1>3, FS_Subset
  <2> QED BY <1>2, <2>1
<1>4. ASSUME NEW p \in Requests, Arrive(p) PROVE Cardinality(Busy') <= Threads
  <2>1. pc[p] = "idle" /\ Cardinality(Busy) < Threads
    BY <1>4 DEF Arrive
  <2>2. Busy' \subseteq Busy \cup {p} /\ p \notin Busy
    BY <1>4, <2>1 DEF Arrive, Goto, Busy, TypeInv, RequestTypes
  <2>3. /\ IsFiniteSet(Busy \cup {p})
        /\ Cardinality(Busy \cup {p}) = Cardinality(Busy) + 1
    BY <1>2, <2>2, FS_AddElement
  <2>4. Cardinality(Busy') <= Cardinality(Busy \cup {p})
    BY <2>2, <2>3, FS_Subset
  <2> QED BY <1>2, <2>1, <2>3, <2>4
<1>5. ASSUME NEW p \in Requests, (RequestStep(p) /\ ~Arrive(p)) \/ Fail(p)
      PROVE  Busy' \subseteq Busy
  <2>1. pc[p] # "idle" /\ \A q \in Requests \ {p} : pc'[q] = pc[q]
    BY <1>5 DEF RequestStep, Extend, ScanPods, CountActive, FindPlace, LookAtLine, LeaveLine,
       DropBeat, Activate, CountIn, Enqueue, Beat, Fail, Goto, Cross, Return, Decide,
       TypeInv, RequestTypes
  <2> QED BY <2>1 DEF Busy
<1>6. CASE ~ \E p \in Requests : RequestStep(p) \/ Fail(p)
  <2>1. pc' = pc
    BY <1>6 DEF Next, vars, requestVars, Quiet, SweepStep, SweepTo, RegisterPod,
       ListCounted, LookAtMember, Uncount, ListStale, DropFromLine, DropBeats,
       SweepFails, PodKeyExpires, SessionExpires, BeatLapses, Leave
  <2>2. Busy' \subseteq Busy
    BY <2>1 DEF Busy
  <2> QED BY <2>2, <1>3
<1> QED BY <1>3, <1>4, <1>5, <1>6

\* However requests interleave, whatever fails and however pods come and go,
\* check_waiting_status() never lets the counted users exceed the capacity of
\* all pods by more than the threads beside the one that admits.
THEOREM OvershootLimited == Spec => []OvershootBounded
<1> DEFINE Served == Cardinality(Busy) <= Threads
<1>1. TypeInv /\ Served /\ SeatInv /\ [Next]_vars => SeatInv'
  BY RequestKeepsSeats, OthersKeepSeats DEF Next
<1>2. SeatInv => OvershootBounded
  BY DEF SeatInv
<1>3. Init => Served
  <2>1. Init => Busy = {}
    BY DEF Init, Busy
  <2> QED BY <2>1, FS_EmptySet, RoomAssumption
<1>4. TypeInv /\ Served /\ [Next]_vars => Served'
  BY ThreadsSuffice
<1> QED BY <1>1, <1>2, <1>3, <1>4, TypeInit, TypeStep, SeatInit, PTL DEF Spec

-----------------------------------------------------------------------------
(* A request that no other one of its user has crossed acts on what is still *)
(* so: nobody else puts its token into the line or lets it in.               *)

\* A request on its way to admit or enqueue its user found no session, and none
\* has appeared; after the ZREM of its token the token stays out of the line; and
\* the rank it has read, below the capacity, is no worse now.
TurnOK(p) ==
  p \notin crossed =>
    /\ pc[p] \in {"scan", "scard", "zrank", "zcard", "rise", "unbeat", "setex", "enqueue"}
         => TokenOf[p] \notin active
    /\ pc[p] \in {"unbeat", "setex"} => TokenOf[p] \notin Waiting
    /\ pc[p] = "rise" /\ TokenOf[p] \in Waiting => Rank(TokenOf[p]) < MaxCapacity

TurnInv == \A p \in Requests : TurnOK(p)

LEMMA TurnInit == Init => TurnInv
BY DEF Init, TurnInv, TurnOK

\* The rank of a token gets no worse as long as nobody new is ahead of it.
LEMMA RankNoWorse ==
  ASSUME TypeInv, NEW t \in Tokens, t \in Waiting, ahead'[t] \subseteq ahead[t],
         Rank(t) < MaxCapacity
  PROVE  Rank(t)' < MaxCapacity'
<1>1. MaxCapacity \in Nat /\ MaxCapacity' = MaxCapacity
  BY CapacityOfSeen DEF MaxCapacity
<1>2. ahead[t] \in SUBSET Tokens
  BY DEF TypeInv, RoomTypes, LineOK
<1>3. /\ IsFiniteSet(ahead[t]) /\ Cardinality(ahead[t]) \in Nat
      /\ Cardinality(ahead'[t]) \in Nat
      /\ Cardinality(ahead'[t]) <= Cardinality(ahead[t])
  BY <1>2, FS_Subset, FS_CardinalityType, RoomAssumption
<1> QED BY <1>1, <1>3 DEF Rank

\* What other steps may do to a request that has not moved: they take tokens out,
\* or the request is crossed.
LEMMA TurnOfOther ==
  ASSUME TypeInv, NEW q \in Requests, TurnOK(q), pc'[q] = pc[q],
         \/ q \in crossed'
         \/ /\ q \notin crossed
            /\ TokenOf[q] \in active' => TokenOf[q] \in active
            /\ TokenOf[q] \in Waiting' =>
                 TokenOf[q] \in Waiting /\ ahead'[TokenOf[q]] \subseteq ahead[TokenOf[q]]
  PROVE  TurnOK(q)'
<1>1. CASE q \in crossed'
  BY <1>1 DEF TurnOK
<1>2. CASE q \notin crossed'
  <2>1. TokenOf[q] \in Tokens
    BY RoomAssumption
  <2>2. ASSUME pc[q] = "rise", TokenOf[q] \in Waiting' PROVE Rank(TokenOf[q])' < MaxCapacity'
    <3>1. TokenOf[q] \in Waiting /\ ahead'[TokenOf[q]] \subseteq ahead[TokenOf[q]]
      BY <1>2, <2>2
    <3>2. Rank(TokenOf[q]) < MaxCapacity
      BY <1>2, <2>2, <3>1 DEF TurnOK
    <3> QED BY <2>1, <3>1, <3>2, RankNoWorse
  <2> QED BY <1>2, <2>2 DEF TurnOK
<1> QED BY <1>1, <1>2

\* One request's step and the line, the sessions and the other requests.
LEMMA StepForOthers ==
  ASSUME TypeInv, NEW p \in Requests, RequestStep(p) \/ Fail(p),
         NEW q \in Requests \ {p}, pc[q] # "idle"
  PROVE  /\ pc'[q] = pc[q]
         /\ \/ q \in crossed'
            \/ /\ q \notin crossed
               /\ TokenOf[q] \in active' => TokenOf[q] \in active
               /\ TokenOf[q] \in Waiting' =>
                    TokenOf[q] \in Waiting /\ ahead'[TokenOf[q]] \subseteq ahead[TokenOf[q]]
<1>1. pc \in [Requests -> Labels] /\ TokenOf[q] \in Tokens /\ TokenOf[p] \in Tokens
  BY RoomAssumption DEF TypeInv, RequestTypes
<1>2. pc'[q] = pc[q]
  BY <1>1 DEF RequestStep, Arrive, Extend, ScanPods, CountActive, FindPlace, LookAtLine, LeaveLine,
     DropBeat, Activate, CountIn, Enqueue, Beat, Fail, Goto, Cross, Return, Decide
<1>3. CASE Activate(p)
  <2>1. /\ active' = active \cup {TokenOf[p]} /\ ahead' = ahead
        /\ crossed' = crossed \cup {r \in Busy \ {p} : TokenOf[r] = TokenOf[p]}
    BY <1>3 DEF Activate, Cross
  <2> QED BY <1>2, <2>1 DEF Busy, Waiting
<1>4. CASE Enqueue(p)
  <2>1. /\ Zadd(TokenOf[p]) /\ active' = active
        /\ crossed' = crossed \cup {r \in Busy \ {p} : TokenOf[r] = TokenOf[p]}
    BY <1>4 DEF Enqueue, Cross
  <2>2. /\ Waiting' = Waiting \cup {TokenOf[p]}
        /\ \A u \in Waiting \ {TokenOf[p]} : ahead'[u] = ahead[u] \ {TokenOf[p]}
    BY <1>1, <2>1, ZaddKeepsLine DEF TypeInv, RoomTypes
  <2> QED BY <1>2, <2>1, <2>2 DEF Busy
<1>5. CASE LeaveLine(p)
  <2>1. /\ Zrem({TokenOf[p]}) /\ active' = active /\ crossed' = crossed
    BY <1>5 DEF LeaveLine, Goto
  <2>2. /\ Waiting' = Waiting \ {TokenOf[p]}
        /\ \A u \in Waiting' : ahead'[u] = ahead[u] \ {TokenOf[p]}
    BY <2>1, ZremKeepsLine DEF TypeInv, RoomTypes
  <2> QED BY <1>2, <2>1, <2>2
<1>6. CASE active' = active /\ ahead' = ahead /\ crossed' \in {crossed, crossed \ {p}}
  BY <1>2, <1>6 DEF Waiting
<1>7. CASE Arrive(p) \/ Extend(p) \/ ScanPods(p) \/ CountActive(p) \/ FindPlace(p) \/ LookAtLine(p)
           \/ DropBeat(p) \/ CountIn(p) \/ Beat(p) \/ Fail(p)
  <2>1. active' = active /\ ahead' = ahead /\ crossed' \in {crossed, crossed \ {p}}
    BY <1>7 DEF Arrive, Extend, ScanPods, CountActive, FindPlace, LookAtLine, DropBeat, CountIn,
       Beat, Fail, Goto, Return, Decide, roomVars
  <2> QED BY <1>6, <2>1
<1> QED BY <1>3, <1>4, <1>5, <1>7 DEF RequestStep

\* What a request finds out itself: no session, its place, an empty line, and
\* that its ZREM has taken the token out.
LEMMA TurnOfOwn ==
  ASSUME TypeInv, NEW p \in Requests, TurnOK(p), RequestStep(p) \/ Fail(p)
  PROVE  TurnOK(p)'
<1>1. /\ pc \in [Requests -> Labels] /\ MaxCapacity \in Nat /\ MaxCapacity' = MaxCapacity
      /\ TokenOf[p] \in Tokens
  BY CapacityOfSeen, RoomAssumption DEF TypeInv, RequestTypes, MaxCapacity
<1>2. CASE FindPlace(p)
  <2>1. /\ pc[p] = "zrank" /\ crossed' = crossed /\ active' = active /\ ahead' = ahead
        /\ pc'[p] \in {"rise", "beat", "zcard", "enqueue"}
        /\ pc'[p] = "rise" => TokenOf[p] \in Waiting /\ Rank(TokenOf[p]) < free[p]
    BY <1>1, <1>2 DEF FindPlace, Decide, roomVars
  <2>2. free[p] \in Int /\ free[p] <= MaxCapacity
    <3>1. Cardinality(Tokens) \in Nat
      BY FS_CardinalityType, RoomAssumption
    <3> QED BY <1>1, <3>1 DEF TypeInv, RequestTypes
  <2>3. TokenOf[p] \in Waiting => Rank(TokenOf[p]) \in Nat
    BY FS_Subset, FS_CardinalityType, RoomAssumption DEF Rank, TypeInv, RoomTypes, LineOK
  <2>4. pc'[p] = "rise" => Rank(TokenOf[p])' < MaxCapacity'
    BY <1>1, <2>1, <2>2, <2>3 DEF Rank
  <2> QED BY <2>1, <2>4 DEF TurnOK, Waiting
<1>3. CASE LeaveLine(p)
  <2>1. /\ pc[p] = "rise" /\ pc'[p] = "unbeat" /\ crossed' = crossed /\ active' = active
        /\ Waiting' = Waiting \ {TokenOf[p]}
    BY <1>1, <1>3, ZremKeepsLine DEF LeaveLine, Goto, TypeInv, RoomTypes
  <2> QED BY <2>1 DEF TurnOK
<1>4. CASE LookAtLine(p)
  <2>1. /\ pc[p] = "zcard" /\ crossed' = crossed /\ active' = active /\ ahead' = ahead
        /\ pc'[p] \in {"setex", "enqueue"} /\ (pc'[p] = "setex" => Waiting = {})
    BY <1>1, <1>4 DEF LookAtLine, Goto, roomVars
  <2> QED BY <2>1 DEF TurnOK, Waiting
<1>5. CASE Arrive(p)
  <2>1. /\ crossed' = crossed /\ active' = active /\ ahead' = ahead
        /\ pc'[p] \in {"expire", "scan"} /\ (pc'[p] = "scan" => TokenOf[p] \notin active)
    BY <1>1, <1>5 DEF Arrive, Goto, roomVars
  <2> QED BY <2>1 DEF TurnOK
<1>6. CASE ScanPods(p) \/ CountActive(p) \/ DropBeat(p)
  <2>1. /\ crossed' = crossed /\ active' = active /\ ahead' = ahead
        /\ \/ pc[p] = "scan" /\ pc'[p] = "scard"
           \/ pc[p] = "scard" /\ pc'[p] = "zrank"
           \/ pc[p] = "unbeat" /\ pc'[p] = "setex"
    BY <1>1, <1>6 DEF ScanPods, CountActive, DropBeat, Goto, roomVars
  <2> QED BY <2>1 DEF TurnOK, Waiting
<1>7. CASE Extend(p) \/ Activate(p) \/ CountIn(p) \/ Enqueue(p) \/ Beat(p) \/ Fail(p)
  <2>1. pc'[p] \in {"idle", "sadd", "beat"}
    BY <1>1, <1>7 DEF Extend, Activate, CountIn, Enqueue, Beat, Fail, Return, Cross
  <2> QED BY <2>1 DEF TurnOK
<1> QED BY <1>2, <1>3, <1>4, <1>5, <1>6, <1>7 DEF RequestStep

\* Sweeps and time only take tokens out.
LEMMA OthersOnlyTakeOut ==
  ASSUME TypeInv,
         \/ \E c \in Pods : SweepStep(c) \/ SweepFails(c) \/ PodKeyExpires(c)
         \/ \E t \in Tokens : SessionExpires(t) \/ BeatLapses(t) \/ Leave(t)
         \/ UNCHANGED vars
  PROVE  /\ pc' = pc /\ crossed' = crossed
         /\ active' \subseteq active /\ Waiting' \subseteq Waiting
         /\ \A t \in Waiting' : ahead'[t] \subseteq ahead[t]
<1>1. ASSUME NEW c \in Pods, DropFromLine(c)
      PROVE  /\ Waiting' \subseteq Waiting
             /\ \A t \in Waiting' : ahead'[t] \subseteq ahead[t]
  BY <1>1, ZremKeepsLine DEF DropFromLine, TypeInv, RoomTypes
<1>2. (\E c \in Pods : DropFromLine(c)) \/ ahead' = ahead
  BY DEF vars, roomVars, Quiet, SweepStep, RegisterPod,
         ListCounted, LookAtMember, Uncount, ListStale, DropBeats,
         SweepFails, PodKeyExpires, SessionExpires, BeatLapses, Leave
<1>3. pc' = pc /\ crossed' = crossed /\ active' \subseteq active
  BY DEF vars, roomVars, requestVars, Quiet, SweepStep, SweepTo, RegisterPod,
         ListCounted, LookAtMember, Uncount, ListStale, DropFromLine, DropBeats,
         SweepFails, PodKeyExpires, SessionExpires, BeatLapses, Leave
<1> QED BY <1>1, <1>2, <1>3 DEF Waiting

LEMMA TurnStep == TypeInv /\ TurnInv /\ [Next]_vars => TurnInv'
<1> SUFFICES ASSUME TypeInv, TurnInv, [Next]_vars, NEW q \in Requests PROVE TurnOK(q)'
  BY DEF TurnInv
<1>1. TurnOK(q)
  BY DEF TurnInv
<1>2. ASSUME NEW p \in Requests, RequestStep(p) \/ Fail(p) PROVE TurnOK(q)'
  <2>1. CASE q = p
    BY <1>1, <1>2, <2>1, TurnOfOwn
  <2>2. CASE q # p /\ pc[q] # "idle"
    BY <1>1, <1>2, <2>2, StepForOthers, TurnOfOther
  <2>3. CASE q # p /\ pc[q] = "idle"
    <3>1. pc'[q] = "idle"
      BY <1>2, <2>3 DEF RequestStep, Arrive, Extend, ScanPods, CountActive, FindPlace, LookAtLine,
         LeaveLine, DropBeat, Activate, CountIn, Enqueue, Beat, Fail, Goto, Cross, Return, Decide,
         TypeInv, RequestTypes
    <3> QED BY <3>1 DEF TurnOK
  <2> QED BY <2>1, <2>2, <2>3
<1>3. CASE ~ \E p \in Requests : RequestStep(p) \/ Fail(p)
  <2>1. /\ pc' = pc /\ crossed' = crossed
        /\ active' \subseteq active /\ Waiting' \subseteq Waiting
        /\ \A t \in Waiting' : ahead'[t] \subseteq ahead[t]
    BY <1>3, OthersOnlyTakeOut DEF Next
  <2>2. CASE q \in crossed
    BY <2>1, <2>2 DEF TurnOK
  <2>3. CASE q \notin crossed
    BY <1>1, <2>1, <2>3, TurnOfOther
  <2> QED BY <2>2, <2>3
<1> QED BY <1>2, <1>3

\* Only a request that another one of the same user has crossed leaves the user
\* both inside and in line: no failure between two commands does, no session that
\* ends, no sweep and no other user, for any number of tabs and threads.
THEOREM InsideOrInLine == Spec => SeatOrPlace
<1>1. ASSUME TypeInv, TurnInv, [Next]_vars,
             NEW t \in Tokens, t \in active' \cap Waiting', t \notin active \cap Waiting
      PROVE  \E p \in crossed : TokenOf[p] = t /\ pc'[p] # pc[p]
  <2>1. PICK p \in Requests : RequestStep(p) \/ Fail(p)
    BY <1>1, OthersOnlyTakeOut DEF Next
  <2>2. pc \in [Requests -> Labels] /\ TokenOf[p] \in Tokens
    BY <1>1, RoomAssumption DEF TypeInv, RequestTypes
  <2>3. CASE Activate(p)
    <3>1. /\ pc[p] = "setex" /\ pc'[p] = "sadd" /\ ahead' = ahead
          /\ active' = active \cup {TokenOf[p]}
      BY <2>2, <2>3 DEF Activate, Cross
    <3>2. TokenOf[p] = t /\ t \in Waiting
      BY <1>1, <3>1 DEF Waiting
    <3> QED BY <1>1, <3>1, <3>2 DEF TurnInv, TurnOK
  <2>4. CASE Enqueue(p)
    <3>1. /\ pc[p] = "enqueue" /\ pc'[p] = "beat" /\ active' = active
          /\ Waiting' = Waiting \cup {TokenOf[p]}
      BY <1>1, <2>2, <2>4, ZaddKeepsLine DEF Enqueue, Cross, TypeInv, RoomTypes
    <3>2. TokenOf[p] = t /\ t \in active
      BY <1>1, <3>1
    <3> QED BY <1>1, <3>1, <3>2 DEF TurnInv, TurnOK
  <2>5. CASE ~Activate(p) /\ ~Enqueue(p)
    <3>1. CASE LeaveLine(p)
      <4>1. active' = active /\ Waiting' = Waiting \ {TokenOf[p]}
        BY <1>1, <3>1, ZremKeepsLine DEF LeaveLine, TypeInv, RoomTypes
      <4> QED BY <1>1, <4>1
    <3>2. CASE ~LeaveLine(p)
      <4>1. active' = active /\ ahead' = ahead
        BY <2>1, <2>5, <3>2 DEF RequestStep, Arrive, Extend, ScanPods, CountActive, FindPlace,
           LookAtLine, DropBeat, CountIn, Beat, Fail, roomVars
      <4> QED BY <1>1, <4>1 DEF Waiting
    <3> QED BY <3>1, <3>2
  <2> QED BY <2>3, <2>4, <2>5
<1>2. TypeInv /\ TypeInv' /\ TurnInv /\ [Next]_vars =>
        \A t \in (active' \cap Waiting') \ (active \cap Waiting) :
          \E p \in crossed : TokenOf[p] = t /\ pc'[p] # pc[p]
  BY <1>1 DEF TypeInv, RoomTypes
<1> QED BY <1>2, TypeInit, TypeStep, TurnInit, TurnStep, PTL DEF Spec, SeatOrPlace

\* A ZREM that admits a user takes a token among the first of the line, as many
\* as there are seats in all pods, unless another request of the same user has
\* put the token back meanwhile: what ZRANK read is still a bound when the ZREM
\* happens, however other users come, leave, fail and are swept in between.
THEOREM OnlyTheFrontIsAdmitted == Spec => AdmittedFromTheFront
<1>1. TurnInv => \A p \in Requests \ crossed :
        (pc[p] = "rise" /\ pc'[p] = "unbeat" /\ TokenOf[p] \in Waiting)
          => Rank(TokenOf[p]) < MaxCapacity
  BY DEF TurnInv, TurnOK
<1> QED BY <1>1, TypeInit, TypeStep, TurnInit, TurnStep, PTL DEF Spec, AdmittedFromTheFront
=============================================================================
