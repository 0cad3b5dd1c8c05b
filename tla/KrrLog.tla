------------------------------- MODULE KrrLog -------------------------------
(***************************************************************************)
(* KrrDbClient of finops/app/clients.py: each analysis stores a row in     *)
(* krr_logs, and the first one of a process adds the columns the table may *)
(* lack, in the same transaction.                                          *)
(*                                                                         *)
(* PostgreSQL rolls DDL back with its transaction; a statement waits for   *)
(* the lock of an ALTER TABLE that has not been committed.  Processes are  *)
(* the pods of the analysis service, old and new ones during a rollout;    *)
(* each stores one row at a time.                                          *)
(***************************************************************************)
EXTENDS Integers

CONSTANTS
  Processes,
  MaxRows,    \* bounds for model checking: rows stored,
  MaxTrouble  \* and statements, commits and processes that fail

ASSUME LogAssumption == MaxRows \in Nat /\ MaxTrouble \in Nat

VARIABLES
  migrated,  \* the table has the columns, as committed
  ensured,   \* _schema_ensured of each process
  tx,        \* each process's transaction
  stored,    \* rows in the table
  reported,  \* history: calls of save_log() that returned True
  spoiled,   \* history: processes whose ALTER was rolled back
  trouble

logVars == <<migrated, ensured, tx, stored, reported, spoiled, trouble>>

LogTypeOK ==
  /\ migrated \in BOOLEAN
  /\ ensured \in [Processes -> BOOLEAN]
  /\ tx \in [Processes -> {"none", "begun", "plain", "altered", "insertedPlain", "insertedAltered"}]
  /\ stored \in Nat /\ reported \in Nat
  /\ spoiled \subseteq Processes
  /\ trouble \in 0..MaxTrouble

LogInit ==
  /\ migrated \in BOOLEAN
  /\ ensured = [p \in Processes |-> FALSE]
  /\ tx = [p \in Processes |-> "none"]
  /\ stored = 0 /\ reported = 0
  /\ spoiled = {}
  /\ trouble = 0

Trouble == trouble < MaxTrouble /\ trouble' = trouble + 1
Locked(p) == \E q \in Processes \ {p} : tx[q] \in {"altered", "insertedAltered"}
Altering(p) == tx[p] \in {"altered", "insertedAltered"}
Goes(p, to) == tx' = [tx EXCEPT ![p] = to]
RollBack(p) == Goes(p, "none") /\ spoiled' = IF Altering(p) THEN spoiled \cup {p} ELSE spoiled

Connect(p) ==
  /\ tx[p] = "none"
  /\ stored + trouble < MaxRows
  /\ Goes(p, "begun")
  /\ UNCHANGED <<migrated, ensured, stored, reported, spoiled, trouble>>

\* Mutant of EnsureSchema: the columns another process is adding are taken for
\* granted.
EnsureSchemaOnce(p) ==
  /\ tx[p] = "begun"
  /\ ensured' = [ensured EXCEPT ![p] = TRUE]
  /\ IF ensured[p] \/ Locked(p) THEN Goes(p, "plain") ELSE Goes(p, "altered")
  /\ UNCHANGED <<migrated, stored, reported, spoiled, trouble>>

\* _ensure_schema(): the flag is set as soon as the ALTER has been executed.
EnsureSchema(p) ==
  /\ tx[p] = "begun"
  /\ IF ensured[p] THEN Goes(p, "plain") /\ UNCHANGED ensured
     ELSE /\ \A q \in Processes \ {p} : tx[q] \in {"none", "begun", "plain"}
          /\ Goes(p, "altered")
          /\ ensured' = [ensured EXCEPT ![p] = TRUE]
  /\ UNCHANGED <<migrated, stored, reported, spoiled, trouble>>

\* The INSERT names all columns: without them it fails.
InsertLog(p) ==
  /\ ~Locked(p)
  /\ \/ tx[p] = "altered" /\ Goes(p, "insertedAltered") /\ UNCHANGED spoiled
     \/ tx[p] = "plain" /\ IF migrated THEN Goes(p, "insertedPlain") /\ UNCHANGED spoiled
                           ELSE RollBack(p)
  /\ UNCHANGED <<migrated, ensured, stored, reported, trouble>>

\* conn.commit(): True only once the server has answered; the answer may be lost.
CommitLog(p) ==
  /\ tx[p] \in {"insertedPlain", "insertedAltered"}
  /\ stored' = stored + 1
  /\ migrated' = (migrated \/ tx[p] = "insertedAltered")
  /\ Goes(p, "none")
  /\ \/ reported' = reported + 1 /\ UNCHANGED trouble
     \/ Trouble /\ UNCHANGED reported
  /\ UNCHANGED <<ensured, spoiled>>

\* A statement or the commit fails, or a value does not fit its column: False.
SaveFails(p) ==
  /\ tx[p] # "none"
  /\ Trouble
  /\ RollBack(p)
  /\ UNCHANGED <<migrated, ensured, stored, reported>>

\* A new process has ensured nothing.
ProcessRestarts(p) ==
  /\ Trouble
  /\ Goes(p, "none")
  /\ ensured' = [ensured EXCEPT ![p] = FALSE]
  /\ spoiled' = spoiled \ {p}
  /\ UNCHANGED <<migrated, stored, reported>>

LogNext ==
  \E p \in Processes : \/ Connect(p) \/ EnsureSchema(p) \/ InsertLog(p) \/ CommitLog(p)
                  \/ SaveFails(p) \/ ProcessRestarts(p)

LogSpec == LogInit /\ [][LogNext]_logVars

-----------------------------------------------------------------------------
\* save_log() returns True only for a row that is in the table, whichever
\* statement, commit or process failed.
ReportedIsStored == reported <= stored

\* Only a process whose own ALTER was rolled back can go on without the columns:
\* for every other one the flag means that they are there, or that its open
\* transaction is adding them.
EnsuredOrSpoiled ==
  \A p \in Processes : ensured[p] => migrated \/ Altering(p) \/ p \in spoiled
=============================================================================
