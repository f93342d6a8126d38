--------------------------- MODULE PostgresStore ----------------------------
(* PostgresResourceStore: one statement per operation, except for a batch of *)
(* scope mappings, which is inserted row by row in a transaction.  Inserting *)
(* a scope that another open transaction has inserted waits for the end of   *)
(* that transaction; the server breaks a circle of waiting transactions by   *)
(* aborting one.  The connection of a call can be lost at any time, whether  *)
(* the server breaks it, the pool gives up waiting or the caller hangs up;   *)
(* what is with the server by then may still be executed.                    *)
EXTENDS Policy

CONSTANTS
  Calls,           \* calls of the store
  Operations,      \* what they ask for
  MaxConnections   \* of the pool

VARIABLES
  entries,         \* table resource_mappings, by primary key
  scope_mappings,  \* table scope_mappings, by primary key
  op, reply,       \* of a call: what it asks for, what it returns
  session,         \* where the call's session on the server is
  inserted,        \* rows of its batch the session has inserted
  result           \* what the server has answered

tables == <<entries, scope_mappings>>
pgvars == <<tables, op, reply, session, inserted, result>>

Results == {"Ok", "Conflict", "NotFound"}

ASSUME PgAssumption ==
  /\ MaxConnections \in Nat \ {0}
  /\ None \notin Operations
  /\ \A o \in Operations :
       \/ o.name \in {"save_mapping", "update_mapping"} /\ o.key \in Keys /\ o.mapping \in ResourceMapping
       \/ o.name = "remove_mapping" /\ o.key \in Keys
       \/ o.name = "remove_mappings_for" /\ o.client \in Clients
       \/ o.name = "save_scope_mappings" /\ o.batch \in Seq(ScopeMapping)
       \/ o.name = "update_scope_mapping" /\ o.row \in ScopeMapping
       \/ o.name = "remove_scope_mapping" /\ o.scope \in Scopes

(* The variables range over their types. *)
PgTypeOK ==
  /\ entries \in [Keys -> ResourceMapping \cup {None}]
  /\ scope_mappings \in [Scopes -> ClaimMap \cup {None}]
  /\ op \in [Calls -> Operations \cup {None}]
  /\ reply \in [Calls -> Results \cup {"none", "DatabaseError"}]
  /\ session \in [Calls -> {"none", "waiting", "statement", "open", "commit", "aborting", "done"}]
  /\ inserted \in [Calls -> Nat]
  /\ result \in [Calls -> Results \cup {"none"}]

PgInit ==
  /\ entries = [key \in Keys |-> None]
  /\ scope_mappings = [s \in Scopes |-> None]
  /\ op = [c \in Calls |-> None]
  /\ reply = [c \in Calls |-> "none"]
  /\ session = [c \in Calls |-> "none"]
  /\ inserted = [c \in Calls |-> 0]
  /\ result = [c \in Calls |-> "none"]

-----------------------------------------------------------------------------
(* The pool. *)
Issue(c, o) ==
  /\ op[c] = None
  /\ op' = [op EXCEPT ![c] = o]
  /\ session' = [session EXCEPT ![c] = "waiting"]
  /\ UNCHANGED <<tables, reply, inserted, result>>

(* A session that is rolled back has given its connection back: the pool has *)
(* it one step earlier than with sqlx, which returns it after the ROLLBACK.  *)
Connected == {c \in Calls : session[c] \in {"statement", "open", "commit"} /\ reply[c] = "none"}

PoolFree == Cardinality(Connected) < MaxConnections

IsBatch(c) == op[c].name = "save_scope_mappings"

Acquire(c) ==
  /\ session[c] = "waiting"
  /\ PoolFree
  /\ session' = [session EXCEPT ![c] = IF IsBatch(c) THEN "open" ELSE "statement"]
  /\ UNCHANGED <<tables, op, reply, inserted, result>>

-----------------------------------------------------------------------------
(* The operations that are one statement: a unique violation is a Conflict,  *)
(* an update that affects no row is a NotFound.                              *)
SetMapping(key, m) ==
  entries' = [entries EXCEPT ![key] = m] /\ UNCHANGED scope_mappings

SetScope(s, claims) ==
  scope_mappings' = [scope_mappings EXCEPT ![s] = claims] /\ UNCHANGED entries

save_mapping(o, res) ==
  /\ o.name = "save_mapping"
  /\ IF entries[o.key] # None
     THEN res = "Conflict" /\ UNCHANGED tables
     ELSE res = "Ok" /\ SetMapping(o.key, o.mapping)

update_mapping(o, res) ==
  /\ o.name = "update_mapping"
  /\ IF entries[o.key] = None
     THEN res = "NotFound" /\ UNCHANGED tables
     ELSE res = "Ok" /\ SetMapping(o.key, o.mapping)

remove_mapping(o, res) ==
  /\ o.name = "remove_mapping"
  /\ res = "Ok" /\ SetMapping(o.key, None)

remove_mappings_for(o, res) ==
  /\ o.name = "remove_mappings_for"
  /\ res = "Ok"
  /\ entries' = [key \in Keys |-> IF key[1] = o.client THEN None ELSE entries[key]]
  /\ UNCHANGED scope_mappings

\* Mutant: the row is stored as the claims.
update_whole_row(o, res) ==
  /\ o.name = "update_scope_mapping"
  /\ res = "Ok" /\ SetScope(o.row.scope, o.row)

update_scope_mapping(o, res) ==
  /\ o.name = "update_scope_mapping"
  /\ IF scope_mappings[o.row.scope] = None
     THEN res = "NotFound" /\ UNCHANGED tables
     ELSE res = "Ok" /\ SetScope(o.row.scope, o.row.claims)

remove_scope_mapping(o, res) ==
  /\ o.name = "remove_scope_mapping"
  /\ res = "Ok" /\ SetScope(o.scope, None)

Execute(c) ==
  /\ session[c] = "statement"
  /\ \E res \in Results :
       /\ \/ save_mapping(op[c], res) \/ update_mapping(op[c], res)
          \/ remove_mapping(op[c], res) \/ remove_mappings_for(op[c], res)
          \/ update_scope_mapping(op[c], res) \/ remove_scope_mapping(op[c], res)
       /\ result' = [result EXCEPT ![c] = res]
  /\ session' = [session EXCEPT ![c] = "done"]
  /\ UNCHANGED <<op, reply, inserted>>

-----------------------------------------------------------------------------
(* save_scope_mappings. *)
Holds(c, s) ==
  /\ session[c] \in {"open", "commit", "aborting"}
  /\ \E i \in 1 .. inserted[c] : op[c].batch[i].scope = s

Inserting(c) == session[c] = "open" /\ inserted[c] < Len(op[c].batch)

NextScope(c) == op[c].batch[inserted[c] + 1].scope

Waits(c, d) == Inserting(c) /\ d # c /\ Holds(d, NextScope(c))

\* Mutant: each INSERT is executed on the pool and not on the transaction.
CanInsertThroughPool(c) == Inserting(c) /\ PoolFree /\ ~\E d \in Calls : Waits(c, d)

CanInsert(c) == Inserting(c) /\ ~\E d \in Calls : Waits(c, d)

\* Mutant: at a conflict, the rows inserted so far are committed.
InsertUntilConflict(c) ==
  /\ CanInsert(c)
  /\ IF scope_mappings[NextScope(c)] # None \/ Holds(c, NextScope(c))
     THEN session' = [session EXCEPT ![c] = "commit"] /\ UNCHANGED inserted
     ELSE inserted' = [inserted EXCEPT ![c] = @ + 1] /\ UNCHANGED session
  /\ UNCHANGED <<tables, op, reply, result>>

\* Mutant: two transactions can insert the same scope, as without a primary key.
InsertWithoutKey(c) ==
  /\ Inserting(c)
  /\ IF scope_mappings[NextScope(c)] # None \/ Holds(c, NextScope(c))
     THEN /\ result' = [result EXCEPT ![c] = "Conflict"]
          /\ session' = [session EXCEPT ![c] = "aborting"]
          /\ UNCHANGED inserted
     ELSE /\ inserted' = [inserted EXCEPT ![c] = @ + 1]
          /\ UNCHANGED <<result, session>>
  /\ UNCHANGED <<tables, op, reply>>

(* One INSERT.  After a unique violation the loop returns early, and the     *)
(* transaction is dropped; it keeps its rows until it is rolled back.        *)
Insert(c) ==
  /\ CanInsert(c)
  /\ IF scope_mappings[NextScope(c)] # None \/ Holds(c, NextScope(c))
     THEN /\ result' = [result EXCEPT ![c] = "Conflict"]
          /\ session' = [session EXCEPT ![c] = "aborting"]
          /\ UNCHANGED inserted
     ELSE /\ inserted' = [inserted EXCEPT ![c] = @ + 1]
          /\ UNCHANGED <<result, session>>
  /\ UNCHANGED <<tables, op, reply>>

SendCommit(c) ==
  /\ session[c] = "open"
  /\ inserted[c] = Len(op[c].batch)
  /\ session' = [session EXCEPT ![c] = "commit"]
  /\ UNCHANGED <<tables, op, reply, inserted, result>>

WithBatch(c) ==
  [s \in Scopes |-> IF Holds(c, s)
                    THEN op[c].batch[CHOOSE i \in 1 .. inserted[c] : op[c].batch[i].scope = s].claims
                    ELSE scope_mappings[s]]

Commit(c) ==
  /\ session[c] = "commit"
  /\ scope_mappings' = WithBatch(c)
  /\ result' = [result EXCEPT ![c] = "Ok"]
  /\ session' = [session EXCEPT ![c] = "done"]
  /\ inserted' = [inserted EXCEPT ![c] = 0]
  /\ UNCHANGED <<entries, op, reply>>

\* Mutant: a transaction that failed is left open.
KeepOpen(c) ==
  /\ session[c] = "aborting"
  /\ UNCHANGED pgvars

\* Mutant: the rows were inserted outside of the transaction.
RollbackKeepsRows(c) ==
  /\ session[c] = "aborting"
  /\ scope_mappings' = WithBatch(c)
  /\ session' = [session EXCEPT ![c] = "done"]
  /\ inserted' = [inserted EXCEPT ![c] = 0]
  /\ UNCHANGED <<entries, op, reply, result>>

Rollback(c) ==
  /\ session[c] = "aborting"
  /\ session' = [session EXCEPT ![c] = "done"]
  /\ inserted' = [inserted EXCEPT ![c] = 0]
  /\ UNCHANGED <<tables, op, reply, result>>

(* The server aborts a transaction of a circle. *)
InCircle(c) ==
  \E D \in SUBSET Calls :
    /\ c \in D
    /\ \A x \in D : (\E y \in D : Waits(x, y)) /\ (\E y \in D : Waits(y, x))

BreakDeadlock(c) ==
  /\ InCircle(c)
  /\ session' = [session EXCEPT ![c] = "aborting"]
  /\ reply' = [reply EXCEPT ![c] = "DatabaseError"]
  /\ UNCHANGED <<tables, op, inserted, result>>

-----------------------------------------------------------------------------
Answer(c) ==
  /\ reply[c] = "none"
  /\ result[c] # "none"
  /\ reply' = [reply EXCEPT ![c] = result[c]]
  /\ UNCHANGED <<tables, op, session, inserted, result>>

\* Mutant: a batch whose connection is lost starts over on another one.
LoseAndResend(c) ==
  /\ session[c] = "open"
  /\ session' = [session EXCEPT ![c] = "waiting"]
  /\ inserted' = [inserted EXCEPT ![c] = 0]
  /\ UNCHANGED <<tables, op, reply, result>>

(* The call ends in an error.  A transaction that was not sent its COMMIT is *)
(* rolled back, a statement that was sent runs on.                           *)
Lose(c) ==
  /\ op[c] # None
  /\ reply[c] = "none"
  /\ reply' = [reply EXCEPT ![c] = "DatabaseError"]
  /\ session' = [session EXCEPT ![c] = IF @ = "open" THEN "aborting"
                                       ELSE IF @ = "waiting" THEN "done" ELSE @]
  /\ UNCHANGED <<tables, op, inserted, result>>

(* A statement or COMMIT whose call was lost never reached the server. *)
NeverArrives(c) ==
  /\ session[c] \in {"statement", "commit"}
  /\ reply[c] # "none"
  /\ session' = [session EXCEPT ![c] = "done"]
  /\ inserted' = [inserted EXCEPT ![c] = 0]
  /\ UNCHANGED <<tables, op, reply, result>>

-----------------------------------------------------------------------------
Progress(c) ==
  \/ Acquire(c) \/ Execute(c) \/ Insert(c) \/ SendCommit(c) \/ Commit(c)
  \/ Rollback(c) \/ BreakDeadlock(c) \/ Answer(c)

PgNext ==
  \E c \in Calls :
    \/ \E o \in Operations : Issue(c, o)
    \/ Acquire(c) \/ Execute(c) \/ Insert(c) \/ SendCommit(c) \/ Commit(c)
    \/ Rollback(c) \/ BreakDeadlock(c) \/ Answer(c)
    \/ Lose(c) \/ NeverArrives(c)

PgSpec == PgInit /\ [][PgNext]_pgvars

(* The pool hands out free connections, the server goes on with every        *)
(* session that can go on and looks for deadlocks; nothing has to be lost.   *)
PgFairSpec ==
  PgSpec /\ \A c \in Calls : WF_pgvars(Progress(c))

-----------------------------------------------------------------------------
(* A scope that an unfinished transaction has inserted is its own: no other  *)
(* session holds it, and it is in no committed row, so that the commit of a  *)
(* batch overwrites nothing (save_scope_mappings).                           *)
HeldOnce ==
  \A c, d \in Calls, s \in Scopes :
    Holds(c, s) => scope_mappings[s] = None /\ (d # c => ~Holds(d, s))

WrittenBy(c, row) ==
  /\ result[c] = "Ok"
  /\ \/ op[c].name = "update_scope_mapping" /\ op[c].row = row
     \/ IsBatch(c) /\ \E i \in DOMAIN op[c].batch : op[c].batch[i] = row

(* Every row of the tables stands there as a call that the server answered   *)
(* with Ok asked for it: nothing is left of a batch that was rolled back or  *)
(* of a call that was refused, and no row gets the claims of another one.    *)
RowsAccounted ==
  /\ \A key \in Keys : entries[key] # None =>
       \E c \in Calls : /\ result[c] = "Ok"
                        /\ op[c].name \in {"save_mapping", "update_mapping"}
                        /\ op[c].key = key /\ op[c].mapping = entries[key]
  /\ \A s \in Scopes : scope_mappings[s] # None =>
       \E c \in Calls : WrittenBy(c, [scope |-> s, claims |-> scope_mappings[s]])

(* The transaction behaves as the one-step operations that the memory store  *)
(* offers: a batch is there at once or not at all, a Conflict is answered    *)
(* only while a scope of the batch is taken or repeats in it, and an error   *)
(* leaves whole operations behind.                                           *)
Atomic == INSTANCE AtomicStore WITH performed <- result

ActsAtomically == Atomic!ASpec

(* The guards of Progress(c). *)
CanProceed(c) ==
  \/ session[c] = "waiting" /\ PoolFree
  \/ session[c] \in {"statement", "commit", "aborting"}
  \/ CanInsert(c)
  \/ session[c] = "open" /\ inserted[c] = Len(op[c].batch)
  \/ InCircle(c)
  \/ reply[c] = "none" /\ result[c] # "none"

Unfinished(c) == op[c] # None /\ (reply[c] = "none" \/ session[c] # "done")

(* Waiting for a connection and waiting for the rows of other batches never  *)
(* bring the store to a halt: as long as a call has not returned or its      *)
(* session has not ended, some session can go on by itself, without a        *)
(* connection being lost (save_scope_mappings holds its connection while it  *)
(* waits, and needs no second one).                                          *)
NeverStuck ==
  (\E c \in Calls : Unfinished(c)) => \E d \in Calls : CanProceed(d)

\* The steps that a session and its call have before them at most.
StepsLeft(c) ==
  IF session[c] = "waiting" THEN IF IsBatch(c) THEN Len(op[c].batch) + 3 ELSE 2
  ELSE IF session[c] = "open" THEN Len(op[c].batch) - inserted[c] + 2
  ELSE IF session[c] \in {"statement", "commit", "aborting"} THEN 1 ELSE 0

Work(c) == StepsLeft(c) + (IF op[c] # None /\ reply[c] = "none" THEN 1 ELSE 0)

(* No step is taken back or tried again: each one but the arrival of a call  *)
(* brings one call closer to its end, by a bound that the length of its      *)
(* batch fixes, and sets no other call back, whatever waits, deadlocks,      *)
(* conflicts and lost connections there are (PostgresResourceStore never     *)
(* retries).                                                                 *)
WorkShrinks ==
  [][\E c \in Calls :
       \/ \E o \in Operations : Issue(c, o)
       \/ /\ Work(c)' < Work(c)
          /\ \A d \in Calls \ {c} : Work(d)' = Work(d)]_pgvars

(* Every call returns, transactions that wait for one another included.      *)
EveryCallReturns ==
  \A c \in Calls : (op[c] # None) ~> (reply[c] # "none")
=============================================================================
