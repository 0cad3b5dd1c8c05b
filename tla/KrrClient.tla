------------------------------ MODULE KrrClient ------------------------------
(***************************************************************************)
(* KrrClient of finops/app/clients.py: scans of a namespace's history by   *)
(* the krr command, remembered in _krr_cache for TTL.                      *)
(*                                                                         *)
(* A scan reads the history up to the moment it begins; its result is      *)
(* abstracted to that moment.  Requests are coroutines: others run while   *)
(* one awaits its scan.                                                    *)
(***************************************************************************)
EXTENDS Integers

CONSTANTS
  Askers,   \* analyses that may be in progress together
  Keys,     \* pairs of a namespace and a history duration in hours
  TTL,      \* KRR_CACHE_TTL_SECONDS and the 120 seconds a scan may take,
  Timeout,  \* in units of MaxTime
  MaxTime,  \* bound on the clock, for model checking
  Nothing   \* no entry, no answer

ASSUME KrrAssumption ==
  /\ TTL \in Nat /\ Timeout \in Nat /\ MaxTime \in Nat
  /\ Timeout < TTL

VARIABLES
  now,       \* time.monotonic()
  cache,     \* _krr_cache: the scan of an entry, by its begin, and cached_at
  scanning,  \* key and begin of each request's scan, Nothing if it has none
  answer     \* what each request was last given, and when

krrVars == <<now, cache, scanning, answer>>

Times == 0..MaxTime
Scans == [key : Keys, began : Times]
Entries == [scan : Times, stamp : Times]
Given == [key : Keys, scan : Times, at : Times]

KrrTypeOK ==
  /\ now \in Times
  /\ cache \in [Keys -> Entries \cup {Nothing}]
  /\ scanning \in [Askers -> Scans \cup {Nothing}]
  /\ answer \in [Askers -> Given \cup {Nothing}]

KrrInit ==
  /\ now = 0
  /\ cache = [k \in Keys |-> Nothing]
  /\ scanning = [r \in Askers |-> Nothing]
  /\ answer = [r \in Askers |-> Nothing]

Valid(k) == cache[k] # Nothing /\ now - cache[k].stamp < TTL
Give(r, k, scan) == answer' = [answer EXCEPT ![r] = [key |-> k, scan |-> scan, at |-> now]]

\* A request is served from the cache or starts krr; two that miss both start it.
AskKrr(r, k) ==
  /\ scanning[r] = Nothing
  /\ \/ Valid(k) /\ Give(r, k, cache[k].scan) /\ UNCHANGED scanning
     \/ ~Valid(k) /\ scanning' = [scanning EXCEPT ![r] = [key |-> k, began |-> now]]
        /\ answer' = [answer EXCEPT ![r] = Nothing]
  /\ UNCHANGED <<now, cache>>

\* Mutant of Stamp: an entry's age counts from the end of its scan.
StampEnd(r) == now

\* The entry carries the time at which its request arrived.
Stamp(r) == scanning[r].began

\* The result replaces whatever other requests have stored meanwhile.
ScanEnds(r) ==
  /\ scanning[r] # Nothing
  /\ cache' = [cache EXCEPT ![scanning[r].key] =
                  [scan |-> scanning[r].began, stamp |-> Stamp(r)]]
  /\ Give(r, scanning[r].key, scanning[r].began)
  /\ scanning' = [scanning EXCEPT ![r] = Nothing]
  /\ UNCHANGED now

\* krr is missing, fails, times out and is killed, or prints no JSON.
ScanFails(r) ==
  /\ scanning[r] # Nothing
  /\ scanning' = [scanning EXCEPT ![r] = Nothing]
  /\ UNCHANGED <<now, cache, answer>>

\* wait_for() gives no scan more than Timeout.
Tick ==
  /\ now < MaxTime
  /\ \A r \in Askers : scanning[r] # Nothing => now < scanning[r].began + Timeout
  /\ now' = now + 1
  /\ UNCHANGED <<cache, scanning, answer>>

KrrNext ==
  \/ \E r \in Askers : \/ \E k \in Keys : AskKrr(r, k)
                         \/ ScanEnds(r) \/ ScanFails(r)
  \/ Tick

KrrSpec == KrrInit /\ [][KrrNext]_krrVars

-----------------------------------------------------------------------------
\* Whichever scan was stored last, an answer rests on a scan that began less
\* than TTL before it was given.
AnswersAreFresh ==
  \A r \in Askers : answer[r] # Nothing => answer[r].at - answer[r].scan < TTL
=============================================================================
