------------------------------- MODULE Ledger -------------------------------
(***************************************************************************)
(* One account of the ledger: addTransaction() of the ledger writer's pods *)
(* against the cached balance of the balance reader, whose background      *)
(* thread polls the TRANSACTIONS table.                                    *)
(*                                                                         *)
(* The database numbers a row when it is inserted and shows it when its    *)
(* transaction commits.  Only the poll thread changes a cached balance,    *)
(* and only a miss loads one, so get, add and put are one step.            *)
(* The rows that were there before the calls stand for one row whose id is *)
(* Older.  The limit of 1000000 cached accounts is not reached.            *)
(***************************************************************************)
EXTENDS Integers, FiniteSetsExt

CONSTANTS
  Calls,       \* calls of addTransaction() that move money of the account
  WriterPods,  \* of the ledger writer
  Uuids,
  MaxAmount,
  Opening,  \* the balance by the rows before
  Uncached  \* no balance, no id

ASSUME LedgerAssumption == MaxAmount \in Nat /\ Opening \in Nat /\ Uncached \notin Int

VARIABLES
  transfer,      \* what each call asks for
  writer,        \* how far each call has come
  rowId,         \* TRANSACTION_ID of its row
  lastId,        \* the sequence of the table
  rows,          \* calls whose rows have been committed
  seen,          \* each pod's cache of request ids
  cached,        \* balance of the account in the reader's cache
  loading,       \* rows the load in progress, or the last one, has summed up
  loads,         \* a load is in progress
  latest,        \* latestTransactionId
  polled,        \* rows the poll has still to process
  acknowledged,  \* history: calls answered 201 when each one began, ids not yet forgotten
  drifted,       \* history: the cached balance has gone wrong
  raced          \* history: a payment was checked while another was under way

ledgerVars == <<transfer, writer, rowId, lastId, rows, seen, cached, loading, loads, latest, polled,
                acknowledged, drifted, raced>>
writerVars == <<transfer, writer, rowId, lastId, rows, seen, acknowledged, raced>>
readerVars == <<cached, loading, loads, latest, polled>>

Transfers == [uuid : Uuids, pod : WriterPods, debit : BOOLEAN, amount : 1..MaxAmount]

\* "201" means answered and remembered, "forgotten" answered and forgotten.
Stages == {"new", "unique", "funded", "inserted", "committed", "201", "forgotten", "failed"}

\* The highest id when the calls begin.
Older == 1

LedgerTypeOK ==
  /\ transfer \in [Calls -> Transfers]
  /\ writer \in [Calls -> Stages]
  /\ rowId \in [Calls -> Nat] /\ lastId \in Nat
  /\ rows \subseteq Calls /\ polled \subseteq rows
  /\ seen \in [WriterPods -> SUBSET Uuids]
  /\ cached \in Int \cup {Uncached}
  /\ loading \subseteq rows /\ loads \in BOOLEAN
  /\ latest \in Nat
  /\ acknowledged \in [Calls -> SUBSET Calls]
  /\ drifted \in BOOLEAN /\ raced \in BOOLEAN

LedgerInit ==
  /\ transfer \in [Calls -> Transfers]
  /\ writer = [c \in Calls |-> "new"]
  /\ rowId = [c \in Calls |-> 0] /\ lastId = Older
  /\ rows = {}
  /\ seen = [p \in WriterPods |-> {}]
  /\ cached = Uncached /\ loading = {} /\ loads = FALSE
  /\ latest = Older /\ polled = {}
  /\ acknowledged = [c \in Calls |-> {}]
  /\ drifted = FALSE /\ raced = FALSE

Effect(c) == IF transfer[c].debit THEN -transfer[c].amount ELSE transfer[c].amount
Balance(some) == Opening + MapThenSumSet(Effect, some)
CallIs(c, what) == writer' = [writer EXCEPT ![c] = what]

-----------------------------------------------------------------------------
(* LedgerWriterController *)

\* Mutant of IsNew: the ids a pod has accepted are forgotten.
IsNewAlways(c) == TRUE

IsNew(c) == transfer[c].uuid \notin seen[transfer[c].pod]

\* A duplicate or a transaction that is not valid is a bad request.
CheckRequest(c) ==
  /\ writer[c] = "new"
  /\ \/ CallIs(c, "failed")
     \/ IsNew(c) /\ CallIs(c, "unique")
  /\ acknowledged' = [acknowledged EXCEPT ![c] = {d \in Calls : writer[d] = "201"}]
  /\ UNCHANGED <<transfer, rowId, lastId, rows, seen, raced, drifted, readerVars>>

\* Mutant of Covers: the amount is not compared.
CoversAny(c) == TRUE

Covers(c) == cached >= transfer[c].amount

\* A payment under way is one that was found covered and has not reached the
\* cached balance.
UnderWay(d) ==
  /\ transfer[d].debit
  /\ \/ writer[d] \in {"funded", "inserted"}
     \/ d \in rows /\ (rowId[d] > latest \/ d \in polled)

\* A deposit comes from elsewhere; a payment asks the balance reader.
CheckBalance(c) ==
  /\ writer[c] = "unique"
  /\ IF transfer[c].debit
       THEN /\ cached # Uncached
            /\ CallIs(c, IF Covers(c) THEN "funded" ELSE "failed")
            /\ raced' = (raced \/ \E d \in Calls \ {c} : UnderWay(d))
       ELSE CallIs(c, "funded") /\ UNCHANGED raced
  /\ UNCHANGED <<transfer, rowId, lastId, rows, seen, acknowledged, drifted, readerVars>>

\* The balance reader cannot be reached, or the insertion fails.
CallFails(c) ==
  /\ writer[c] \in {"unique", "funded", "inserted"}
  /\ CallIs(c, "failed")
  /\ UNCHANGED <<transfer, rowId, lastId, rows, seen, acknowledged, raced, drifted, readerVars>>

\* transactionRepository.save(): the row gets its id,
InsertRow(c) ==
  /\ writer[c] = "funded"
  /\ lastId' = lastId + 1
  /\ rowId' = [rowId EXCEPT ![c] = lastId + 1]
  /\ CallIs(c, "inserted")
  /\ UNCHANGED <<transfer, rows, seen, acknowledged, raced, drifted, readerVars>>

\* What the poll thread will not look for again.
Horizon == Max({latest} \cup {rowId[d] : d \in polled})

\* and becomes visible, perhaps after one with a higher id was polled.  The
\* acknowledgement may be lost.
CommitRow(c) ==
  /\ writer[c] = "inserted"
  /\ rows' = rows \cup {c}
  /\ drifted' = (drifted \/ ((cached # Uncached \/ loads) /\ rowId[c] < Horizon))
  /\ \/ CallIs(c, "committed")
     \/ CallIs(c, "failed")
  /\ UNCHANGED <<transfer, rowId, lastId, seen, acknowledged, raced, readerVars>>

Acknowledge(c) ==
  /\ writer[c] = "committed"
  /\ seen' = [seen EXCEPT ![transfer[c].pod] = @ \cup {transfer[c].uuid}]
  /\ CallIs(c, "201")
  /\ UNCHANGED <<transfer, rowId, lastId, rows, acknowledged, raced, drifted, readerVars>>

\* An hour after it was last written, or with the pod, a request id is gone.
Forget(p, u) ==
  /\ u \in seen[p]
  /\ seen' = [seen EXCEPT ![p] = @ \ {u}]
  /\ writer' = [c \in Calls |-> IF writer[c] = "201" /\ transfer[c].pod = p /\ transfer[c].uuid = u
                                 THEN "forgotten" ELSE writer[c]]
  /\ UNCHANGED <<transfer, rowId, lastId, rows, acknowledged, raced, drifted, readerVars>>

-----------------------------------------------------------------------------
(* BalanceCache and LedgerReader *)

\* cache.get() of an absent account sums up the rows,
BeginLoad ==
  /\ cached = Uncached /\ ~loads
  /\ loads' = TRUE /\ loading' = rows
  /\ UNCHANGED <<writerVars, cached, latest, polled, drifted>>

\* and stores the sum, or fails.
EndLoad ==
  /\ loads
  /\ loads' = FALSE
  /\ \/ cached' = Balance(loading)
     \/ UNCHANGED cached
  /\ UNCHANGED <<writerVars, loading, latest, polled, drifted>>

\* pollTransactions(): the rows above the latest id.
Poll ==
  /\ polled = {}
  /\ \E c \in rows : rowId[c] > latest
  /\ polled' = {c \in rows : rowId[c] > latest}
  /\ UNCHANGED <<writerVars, cached, loading, loads, latest, drifted>>

\* Mutant of Applied: the amount is added, whoever pays.
AppliedAsCredit(balance, c) == balance + transfer[c].amount

Applied(balance, c) == balance + Effect(c)

\* The callback changes a balance that is cached: it counts a row twice that the
\* load has seen, and misses one that an unfinished load has not.
Process ==
  \E c \in polled :
    /\ latest >= Older
    /\ \A d \in polled : rowId[c] <= rowId[d]
    /\ polled' = polled \ {c}
    /\ latest' = IF polled = {c} THEN rowId[c] ELSE latest
    /\ cached' = IF cached = Uncached THEN Uncached ELSE Applied(cached, c)
    /\ drifted' = (drifted \/ (cached # Uncached /\ c \in loading)
                            \/ (loads /\ c \notin loading))
    /\ UNCHANGED <<writerVars, loading, loads>>

\* A new process starts with an empty cache, from the highest id, or, when it
\* cannot ask for that, from below them all:
ReaderRestarts ==
  /\ cached' = Uncached /\ loads' = FALSE /\ loading' = {}
  /\ polled' = {}
  /\ latest' \in {0, Max({Older} \cup {rowId[c] : c \in rows})}
  /\ UNCHANGED <<writerVars, drifted>>

\* the older rows are polled again before the others, and counted twice in a
\* balance that has been loaded.
ProcessOlder ==
  /\ latest < Older
  /\ latest' = Older
  /\ cached' = IF cached = Uncached THEN Uncached ELSE cached + Opening
  /\ drifted' = (drifted \/ cached # Uncached)
  /\ UNCHANGED <<writerVars, loading, loads, polled>>

CallStep(c) ==
  \/ CheckRequest(c) \/ CheckBalance(c) \/ CallFails(c)
  \/ InsertRow(c) \/ CommitRow(c) \/ Acknowledge(c)

LedgerNext ==
  \/ \E c \in Calls : CallStep(c)
  \/ \E p \in WriterPods, u \in Uuids : Forget(p, u)
  \/ BeginLoad \/ EndLoad \/ Poll \/ Process \/ ReaderRestarts \/ ProcessOlder

LedgerSpec == LedgerInit /\ [][LedgerNext]_ledgerVars

-----------------------------------------------------------------------------
\* A request id that a pod has acknowledged is not booked again by a call to that
\* pod that begins before it is forgotten, however calls overlap, fail and lose
\* their answers.  Calls that overlap, that come after a lost answer, after the
\* hour, or to another pod, are booked again.
AcknowledgedOnce ==
  \A c \in rows : \A d \in acknowledged[c] :
    transfer[c].pod = transfer[d].pod => transfer[c].uuid # transfer[d].uuid

\* When the poll thread has processed every row, the cached balance is that of
\* the table, except after one of three coincidences: a load saw a row that was
\* polled later, a row was polled during a load that had not seen it, or a row
\* committed after one with a higher id was polled.
ExactWhenCaughtUp ==
  cached # Uncached /\ ~drifted /\ polled = {} /\ (\A c \in rows : rowId[c] <= latest)
    => cached = Balance(rows)

\* The account is overdrawn only if a payment was checked before an earlier one
\* had reached the cached balance, or the cached balance had drifted.
OverdrawnOnlyByRace == ~raced /\ ~drifted => Balance(rows) >= 0
=============================================================================
