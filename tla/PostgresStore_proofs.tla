------------------------ MODULE PostgresStore_proofs ------------------------
(* Proofs about the Postgres store, for any number of calls, any operations  *)
(* and any size of the pool and of the batches.                              *)
EXTENDS PostgresStore, FiniteSetTheorems, WellFoundedInduction, TLAPS

Open(c) == session[c] \in {"open", "commit", "aborting"}

(* What the stages of a session know. *)
Stage(c) ==
  /\ op[c] = None <=> session[c] = "none"
  /\ session[c] = "statement" => ~IsBatch(c)
  /\ session[c] \in {"none", "waiting", "open"} => reply[c] = "none"
  /\ session[c] \in {"none", "waiting", "statement", "open", "commit"} => result[c] = "none"
  /\ session[c] \in {"none", "waiting", "statement", "done"} => inserted[c] = 0
  /\ Open(c) => IsBatch(c) /\ inserted[c] <= Len(op[c].batch)
  /\ session[c] = "commit" => inserted[c] = Len(op[c].batch)

(* The rows that a session has inserted have different scopes. *)
Distinct(c) ==
  Open(c) => \A i, j \in 1 .. inserted[c] :
               op[c].batch[i].scope = op[c].batch[j].scope => i = j

StageInv == \A c \in Calls : Stage(c)
DistinctInv == \A c \in Calls : Distinct(c)

LEMMA BatchRows ==
  ASSUME NEW o \in Operations, o.name = "save_scope_mappings"
  PROVE  /\ o.batch \in Seq(ScopeMapping) /\ Len(o.batch) \in Nat
         /\ DOMAIN o.batch = 1 .. Len(o.batch)
         /\ \A i \in 1 .. Len(o.batch) : o.batch[i].scope \in Scopes /\ o.batch[i].claims \in ClaimMap
<1>1. o.batch \in Seq(ScopeMapping)
  BY PgAssumption
<1>2. \A i \in 1 .. Len(o.batch) : o.batch[i] \in ScopeMapping
  BY <1>1
<1>3. \A i \in 1 .. Len(o.batch) : o.batch[i].scope \in Scopes /\ o.batch[i].claims \in ClaimMap
  BY <1>2 DEF ScopeMapping
<1>4. Len(o.batch) \in Nat /\ DOMAIN o.batch = 1 .. Len(o.batch)
  BY <1>1
<1> QED
  BY <1>1, <1>3, <1>4

(* A call that is being served has an operation. *)
LEMMA OpOf ==
  ASSUME PgTypeOK, StageInv, NEW c \in Calls, session[c] # "none"
  PROVE  op[c] \in Operations
  BY DEF PgTypeOK, StageInv, Stage

-----------------------------------------------------------------------------
LEMMA PgTypeInit == PgInit => PgTypeOK
  BY DEF PgInit, PgTypeOK

LEMMA ExecuteType ==
  ASSUME PgTypeOK, NEW o \in Operations, NEW res \in Results,
         \/ save_mapping(o, res) \/ update_mapping(o, res)
         \/ remove_mapping(o, res) \/ remove_mappings_for(o, res)
         \/ update_scope_mapping(o, res) \/ remove_scope_mapping(o, res)
  PROVE  /\ entries' \in [Keys -> ResourceMapping \cup {None}]
         /\ scope_mappings' \in [Scopes -> ClaimMap \cup {None}]
<1> USE DEF PgTypeOK
<1>1. CASE save_mapping(o, res)
  BY PgAssumption, <1>1 DEF save_mapping, SetMapping, tables
<1>2. CASE update_mapping(o, res)
  BY PgAssumption, <1>2 DEF update_mapping, SetMapping, tables
<1>3. CASE remove_mapping(o, res)
  BY PgAssumption, <1>3 DEF remove_mapping, SetMapping
<1>4. CASE remove_mappings_for(o, res)
  BY <1>4 DEF remove_mappings_for
<1>5. CASE update_scope_mapping(o, res)
  <2>1. o.row.scope \in Scopes /\ o.row.claims \in ClaimMap
    BY PgAssumption, <1>5 DEF update_scope_mapping, ScopeMapping
  <2> QED
    BY <1>5, <2>1 DEF update_scope_mapping, SetScope, tables
<1>6. CASE remove_scope_mapping(o, res)
  BY PgAssumption, <1>6 DEF remove_scope_mapping, SetScope
<1> QED
  BY <1>1, <1>2, <1>3, <1>4, <1>5, <1>6

LEMMA PgTypeStep == PgTypeOK /\ StageInv /\ [PgNext]_pgvars => PgTypeOK'
<1> SUFFICES ASSUME PgTypeOK, StageInv, [PgNext]_pgvars PROVE PgTypeOK'
  OBVIOUS
<1>1. CASE UNCHANGED pgvars
  BY <1>1 DEF pgvars, tables, PgTypeOK
<1>2. ASSUME NEW c \in Calls, NEW o \in Operations, Issue(c, o) PROVE PgTypeOK'
  BY <1>2 DEF Issue, tables, PgTypeOK
<1>3. ASSUME NEW c \in Calls, Acquire(c) PROVE PgTypeOK'
  BY <1>3 DEF Acquire, tables, PgTypeOK
<1>4. ASSUME NEW c \in Calls, Execute(c) PROVE PgTypeOK'
  <2>1. op[c] \in Operations
    BY <1>4, OpOf DEF Execute
  <2>2. /\ entries' \in [Keys -> ResourceMapping \cup {None}]
        /\ scope_mappings' \in [Scopes -> ClaimMap \cup {None}]
    BY <1>4, <2>1, ExecuteType DEF Execute
  <2> QED
    BY <1>4, <2>2 DEF Execute, PgTypeOK
<1>5. ASSUME NEW c \in Calls, Insert(c) PROVE PgTypeOK'
  BY <1>5 DEF Insert, tables, PgTypeOK, Results
<1>6. ASSUME NEW c \in Calls, SendCommit(c) PROVE PgTypeOK'
  BY <1>6 DEF SendCommit, tables, PgTypeOK
<1>7. ASSUME NEW c \in Calls, Commit(c) PROVE PgTypeOK'
  <2>1. op[c] \in Operations /\ IsBatch(c) /\ inserted[c] = Len(op[c].batch)
    BY <1>7, OpOf DEF Commit, StageInv, Stage, Open
  <2>2. \A i \in 1 .. inserted[c] : op[c].batch[i].claims \in ClaimMap
    BY <2>1, BatchRows DEF IsBatch
  <2>3. ASSUME NEW s \in Scopes, Holds(c, s)
        PROVE  op[c].batch[CHOOSE i \in 1 .. inserted[c] : op[c].batch[i].scope = s].claims \in ClaimMap
    BY <2>2, <2>3 DEF Holds
  <2>4. scope_mappings' \in [Scopes -> ClaimMap \cup {None}]
    BY <1>7, <2>3 DEF Commit, WithBatch, PgTypeOK
  <2> QED
    BY <1>7, <2>4 DEF Commit, PgTypeOK, Results
<1>8. ASSUME NEW c \in Calls, Rollback(c) PROVE PgTypeOK'
  BY <1>8 DEF Rollback, tables, PgTypeOK
<1>9. ASSUME NEW c \in Calls, BreakDeadlock(c) PROVE PgTypeOK'
  BY <1>9 DEF BreakDeadlock, tables, PgTypeOK
<1>10. ASSUME NEW c \in Calls, Answer(c) PROVE PgTypeOK'
  BY <1>10 DEF Answer, tables, PgTypeOK
<1>11. ASSUME NEW c \in Calls, Lose(c) PROVE PgTypeOK'
  BY <1>11 DEF Lose, tables, PgTypeOK
<1>12. ASSUME NEW c \in Calls, NeverArrives(c) PROVE PgTypeOK'
  BY <1>12 DEF NeverArrives, tables, PgTypeOK
<1> QED
  BY <1>1, <1>2, <1>3, <1>4, <1>5, <1>6, <1>7, <1>8, <1>9, <1>10, <1>11, <1>12 DEF PgNext

-----------------------------------------------------------------------------
(* A step of a call leaves the other calls alone. *)
SameCall(d) ==
  /\ session'[d] = session[d] /\ op'[d] = op[d] /\ inserted'[d] = inserted[d]
  /\ reply'[d] = reply[d] /\ result'[d] = result[d]

CallStep(c) ==
  \/ \E o \in Operations : Issue(c, o)
  \/ Acquire(c) \/ Execute(c) \/ Insert(c) \/ SendCommit(c) \/ Commit(c)
  \/ Rollback(c) \/ BreakDeadlock(c) \/ Answer(c)
  \/ Lose(c) \/ NeverArrives(c)

LEMMA OthersSame ==
  ASSUME PgTypeOK, NEW c \in Calls, CallStep(c), NEW d \in Calls, d # c
  PROVE  SameCall(d)
<1> USE DEF PgTypeOK, SameCall
<1>1. ASSUME NEW o \in Operations, Issue(c, o) PROVE SameCall(d)
  BY <1>1 DEF Issue
<1>2. CASE Acquire(c)
  BY <1>2 DEF Acquire
<1>3. CASE Execute(c)
  BY <1>3 DEF Execute
<1>4. CASE Insert(c)
  BY <1>4 DEF Insert
<1>5. CASE SendCommit(c) \/ Rollback(c)
  BY <1>5 DEF SendCommit, Rollback
<1>6. CASE Commit(c)
  BY <1>6 DEF Commit
<1>7. CASE BreakDeadlock(c) \/ Answer(c)
  BY <1>7 DEF BreakDeadlock, Answer
<1>8. CASE Lose(c) \/ NeverArrives(c)
  BY <1>8 DEF Lose, NeverArrives
<1> QED
  BY <1>1, <1>2, <1>3, <1>4, <1>5, <1>6, <1>7, <1>8 DEF CallStep

LEMMA DeadlockedOpen ==
  ASSUME NEW c \in Calls, BreakDeadlock(c)
  PROVE  session[c] = "open"
  BY DEF BreakDeadlock, InCircle, Waits, Inserting

LEMMA StageInit == PgInit => StageInv
  BY PgAssumption DEF PgInit, StageInv, Stage, Open

LEMMA OwnStage ==
  ASSUME PgTypeOK, StageInv, NEW c \in Calls, CallStep(c)
  PROVE  Stage(c)'
<1> USE DEF PgTypeOK, Stage, Open, IsBatch
<1>0. Stage(c)
  BY DEF StageInv
<1>a. op[c] # None => op[c] \in Operations
  OBVIOUS
<1>b. op[c] # None /\ IsBatch(c) => Len(op[c].batch) \in Nat
  BY <1>a, BatchRows
<1>1. ASSUME NEW o \in Operations, Issue(c, o) PROVE Stage(c)'
  BY <1>0, <1>1, PgAssumption DEF Issue
<1>2. CASE Acquire(c)
  BY <1>0, <1>b, <1>2 DEF Acquire
<1>3. CASE Execute(c)
  BY <1>0, <1>3 DEF Execute
<1>4. CASE Insert(c)
  BY <1>0, <1>b, <1>4 DEF Insert, CanInsert, Inserting
<1>5. CASE SendCommit(c)
  BY <1>0, <1>b, <1>5 DEF SendCommit
<1>6. CASE Commit(c)
  BY <1>0, <1>6 DEF Commit
<1>7. CASE Rollback(c)
  BY <1>0, <1>7 DEF Rollback
<1>8. CASE BreakDeadlock(c)
  BY <1>0, <1>8, DeadlockedOpen DEF BreakDeadlock
<1>9. CASE Answer(c)
  BY <1>0, <1>9 DEF Answer
<1>10. CASE Lose(c)
  BY <1>0, <1>10 DEF Lose
<1>11. CASE NeverArrives(c)
  BY <1>0, <1>11 DEF NeverArrives
<1> QED
  BY <1>1, <1>2, <1>3, <1>4, <1>5, <1>6, <1>7, <1>8, <1>9, <1>10, <1>11 DEF CallStep

LEMMA OwnDistinct ==
  ASSUME PgTypeOK, StageInv, DistinctInv, NEW c \in Calls, CallStep(c)
  PROVE  Distinct(c)'
<1> USE DEF PgTypeOK, Open
<1>0. Stage(c) /\ Distinct(c)
  BY DEF StageInv, DistinctInv
<1>1. ASSUME NEW o \in Operations, Issue(c, o) PROVE Distinct(c)'
  BY <1>1 DEF Issue, Distinct
<1>2. CASE Acquire(c)
  <2>1. inserted'[c] = 0
    BY <1>0, <1>2 DEF Acquire, Stage
  <2> QED
    BY <2>1 DEF Distinct
<1>3. CASE Execute(c)
  BY <1>3 DEF Execute, Distinct
<1>4. CASE Insert(c)
  <2>1. CASE inserted'[c] = inserted[c]
    BY <1>0, <1>4, <2>1 DEF Insert, CanInsert, Inserting, Distinct
  <2>2. CASE inserted'[c] # inserted[c]
    <3>1. /\ ~Holds(c, NextScope(c)) /\ session[c] = "open"
          /\ inserted'[c] = inserted[c] + 1 /\ op' = op
      BY <1>4, <2>2 DEF Insert, CanInsert, Inserting
    <3>2. \A i \in 1 .. inserted[c] : op[c].batch[i].scope # op[c].batch[inserted[c] + 1].scope
      BY <3>1 DEF Holds, NextScope
    <3>3. SUFFICES ASSUME NEW i \in 1 .. inserted[c] + 1, NEW j \in 1 .. inserted[c] + 1,
                          op[c].batch[i].scope = op[c].batch[j].scope
                   PROVE  i = j
      BY <3>1 DEF Distinct
    <3>4. inserted[c] \in Nat
      OBVIOUS
    <3>5. CASE i \in 1 .. inserted[c] /\ j \in 1 .. inserted[c]
      BY <1>0, <3>1, <3>3, <3>5 DEF Distinct
    <3>6. CASE i = inserted[c] + 1 \/ j = inserted[c] + 1
      BY <3>2, <3>3, <3>4, <3>6
    <3> QED
      BY <3>4, <3>5, <3>6
  <2> QED
    BY <2>1, <2>2
<1>5. CASE SendCommit(c)
  BY <1>0, <1>5 DEF SendCommit, Distinct
<1>6. CASE Commit(c)
  BY <1>6 DEF Commit, Distinct
<1>7. CASE Rollback(c)
  BY <1>7 DEF Rollback, Distinct
<1>8. CASE BreakDeadlock(c)
  BY <1>0, <1>8, DeadlockedOpen DEF BreakDeadlock, Distinct
<1>9. CASE Answer(c)
  BY <1>0, <1>9 DEF Answer, Distinct
<1>10. CASE Lose(c)
  BY <1>0, <1>10 DEF Lose, Distinct
<1>11. CASE NeverArrives(c)
  BY <1>11 DEF NeverArrives, Distinct
<1> QED
  BY <1>1, <1>2, <1>3, <1>4, <1>5, <1>6, <1>7, <1>8, <1>9, <1>10, <1>11 DEF CallStep

LEMMA StageStep == PgTypeOK /\ StageInv /\ [PgNext]_pgvars => StageInv'
<1> SUFFICES ASSUME PgTypeOK, StageInv, [PgNext]_pgvars, NEW d \in Calls PROVE Stage(d)'
  BY DEF StageInv
<1>0. Stage(d)
  BY DEF StageInv
<1>1. CASE UNCHANGED pgvars
  BY <1>0, <1>1 DEF pgvars, tables, Stage, Open, IsBatch
<1>2. ASSUME NEW c \in Calls, CallStep(c) PROVE Stage(d)'
  <2>1. CASE d = c
    BY <1>2, <2>1, OwnStage
  <2>2. CASE d # c
    <3>1. SameCall(d)
      BY <1>2, <2>2, OthersSame
    <3> QED
      BY <1>0, <3>1 DEF SameCall, Stage, Open, IsBatch
  <2> QED
    BY <2>1, <2>2
<1> QED
  BY <1>1, <1>2 DEF PgNext, CallStep

LEMMA DistinctStep == PgTypeOK /\ StageInv /\ DistinctInv /\ [PgNext]_pgvars => DistinctInv'
<1> SUFFICES ASSUME PgTypeOK, StageInv, DistinctInv, [PgNext]_pgvars, NEW d \in Calls
             PROVE  Distinct(d)'
  BY DEF DistinctInv
<1>0. Distinct(d)
  BY DEF DistinctInv
<1>1. CASE UNCHANGED pgvars
  BY <1>0, <1>1 DEF pgvars, tables, Distinct, Open
<1>2. ASSUME NEW c \in Calls, CallStep(c) PROVE Distinct(d)'
  <2>1. CASE d = c
    BY <1>2, <2>1, OwnDistinct
  <2>2. CASE d # c
    <3>1. SameCall(d)
      BY <1>2, <2>2, OthersSame
    <3> QED
      BY <1>0, <3>1 DEF SameCall, Distinct, Open
  <2> QED
    BY <2>1, <2>2
<1> QED
  BY <1>1, <1>2 DEF PgNext, CallStep

-----------------------------------------------------------------------------
(* Who holds what changes only for the call that takes the step. *)
LEMMA OthersHold ==
  ASSUME NEW d, NEW s, SameCall(d)
  PROVE  Holds(d, s)' <=> Holds(d, s)
  BY DEF SameCall, Holds

(* A step after which no call holds more than before, and no row was added.  *)
LEMMA NothingHeldAnew ==
  ASSUME HeldOnce,
         \A c \in Calls, s \in Scopes : Holds(c, s)' => Holds(c, s),
         \A s \in Scopes : scope_mappings[s] = None => scope_mappings'[s] = None
  PROVE  HeldOnce'
  BY DEF HeldOnce

LEMMA StatementAddsNoScope ==
  ASSUME PgTypeOK, StageInv, NEW c \in Calls, Execute(c), NEW s \in Scopes, scope_mappings[s] = None
  PROVE  scope_mappings'[s] = None
<1>1. PICK res \in Results :
        \/ save_mapping(op[c], res) \/ update_mapping(op[c], res)
        \/ remove_mapping(op[c], res) \/ remove_mappings_for(op[c], res)
        \/ update_scope_mapping(op[c], res) \/ remove_scope_mapping(op[c], res)
  BY DEF Execute
<1>2. CASE \/ save_mapping(op[c], res) \/ update_mapping(op[c], res)
           \/ remove_mapping(op[c], res) \/ remove_mappings_for(op[c], res)
  BY <1>2 DEF save_mapping, update_mapping, remove_mapping, remove_mappings_for, SetMapping, tables
<1>3. CASE update_scope_mapping(op[c], res)
  BY <1>3 DEF update_scope_mapping, SetScope, tables, PgTypeOK
<1>4. CASE remove_scope_mapping(op[c], res)
  BY <1>4 DEF remove_scope_mapping, SetScope, PgTypeOK
<1> QED
  BY <1>1, <1>2, <1>3, <1>4

LEMMA HeldInit == PgInit => HeldOnce
  BY DEF PgInit, HeldOnce, Holds

LEMMA HeldStep == PgTypeOK /\ StageInv /\ HeldOnce /\ [PgNext]_pgvars => HeldOnce'
<1> SUFFICES ASSUME PgTypeOK, StageInv, HeldOnce, [PgNext]_pgvars PROVE HeldOnce'
  OBVIOUS
<1>1. CASE UNCHANGED pgvars
  BY <1>1 DEF pgvars, tables, HeldOnce, Holds
<1>2. ASSUME NEW c \in Calls, CallStep(c) PROVE HeldOnce'
  <2>0. Stage(c)
    BY DEF StageInv
  <2>a. \A d \in Calls, s \in Scopes : d # c => (Holds(d, s)' <=> Holds(d, s))
    BY <1>2, OthersSame, OthersHold
  <2>1. ASSUME \A s \in Scopes : Holds(c, s)' => Holds(c, s),
               \A s \in Scopes : scope_mappings[s] = None => scope_mappings'[s] = None
        PROVE  HeldOnce'
    <3>1. \A d \in Calls, s \in Scopes : Holds(d, s)' => Holds(d, s)
      BY <2>a, <2>1
    <3> QED
      BY <2>1, <3>1, NothingHeldAnew
  <2> USE DEF PgTypeOK
  <2>2. ASSUME NEW o \in Operations, Issue(c, o) PROVE HeldOnce'
    BY <2>1, <2>2 DEF Issue, tables, Holds
  <2>3. CASE Acquire(c)
    <3>1. inserted'[c] = 0 /\ scope_mappings' = scope_mappings
      BY <2>0, <2>3 DEF Acquire, Stage, tables
    <3>2. \A s \in Scopes : ~Holds(c, s)'
      BY <3>1 DEF Holds
    <3> QED
      BY <2>1, <3>1, <3>2
  <2>4. CASE Execute(c)
    <3>1. \A s \in Scopes : ~Holds(c, s)'
      BY <2>4 DEF Execute, Holds
    <3> QED
      BY <2>1, <2>4, <3>1, StatementAddsNoScope
  <2>5. CASE Insert(c)
    <3>1. scope_mappings' = scope_mappings /\ op' = op /\ session[c] = "open"
      BY <2>5 DEF Insert, CanInsert, tables, Inserting
    <3>2. CASE inserted' = inserted
      BY <2>1, <3>1, <3>2 DEF Holds
    <3>3. CASE inserted' # inserted
      <4>1. /\ inserted'[c] = inserted[c] + 1 /\ session' = session
            /\ scope_mappings[NextScope(c)] = None
            /\ \A d \in Calls : d # c => ~Holds(d, NextScope(c))
        BY <2>5, <3>3 DEF Insert, CanInsert, Waits
      <4>2. ASSUME NEW s \in Scopes PROVE Holds(c, s)' => Holds(c, s) \/ s = NextScope(c)
        <5>1. SUFFICES ASSUME NEW i \in 1 .. inserted[c] + 1, op[c].batch[i].scope = s
                       PROVE  Holds(c, s) \/ s = NextScope(c)
          BY <3>1, <4>1 DEF Holds
        <5>2. i \in 1 .. inserted[c] \/ i = inserted[c] + 1
          OBVIOUS
        <5> QED
          BY <3>1, <5>1, <5>2 DEF Holds, NextScope
      <4>3. SUFFICES ASSUME NEW x \in Calls, NEW y \in Calls, NEW s \in Scopes, Holds(x, s)'
                     PROVE  scope_mappings[s] = None /\ (y # x => ~Holds(y, s)')
        BY <3>1 DEF HeldOnce
      <4>4. CASE x = c
        BY <2>a, <4>1, <4>2, <4>3, <4>4 DEF HeldOnce
      <4>5. CASE x # c
        <5>1. Holds(x, s) /\ s # NextScope(c)
          BY <2>a, <4>1, <4>3, <4>5
        <5>2. scope_mappings[s] = None /\ (y # x => ~Holds(y, s))
          BY <5>1 DEF HeldOnce
        <5> QED
          BY <2>a, <4>2, <5>1, <5>2
      <4> QED
        BY <4>4, <4>5
    <3> QED
      BY <3>2, <3>3
  <2>6. CASE SendCommit(c)
    BY <2>1, <2>6 DEF SendCommit, tables, Holds
  <2>7. CASE Commit(c)
    <3>1. \A s \in Scopes : ~Holds(c, s)'
      BY <2>7 DEF Commit, Holds
    <3>2. SUFFICES ASSUME NEW x \in Calls, NEW y \in Calls, NEW s \in Scopes, Holds(x, s)'
                   PROVE  scope_mappings'[s] = None /\ (y # x => ~Holds(y, s)')
      BY DEF HeldOnce
    <3>3. x # c /\ Holds(x, s)
      BY <2>a, <3>1, <3>2
    <3>4. scope_mappings[s] = None /\ ~Holds(c, s) /\ (y # x => ~Holds(y, s))
      BY <3>3 DEF HeldOnce
    <3>5. scope_mappings'[s] = scope_mappings[s]
      BY <2>7, <3>4 DEF Commit, WithBatch
    <3> QED
      BY <2>a, <3>1, <3>4, <3>5
  <2>8. CASE Rollback(c)
    BY <2>1, <2>8 DEF Rollback, tables, Holds
  <2>9. CASE BreakDeadlock(c)
    BY <2>1, <2>9, DeadlockedOpen DEF BreakDeadlock, tables, Holds
  <2>10. CASE Answer(c)
    BY <2>1, <2>10 DEF Answer, tables, Holds
  <2>11. CASE Lose(c)
    BY <2>1, <2>11 DEF Lose, tables, Holds
  <2>12. CASE NeverArrives(c)
    BY <2>1, <2>12 DEF NeverArrives, tables, Holds
  <2> QED
    BY <1>2, <2>2, <2>3, <2>4, <2>5, <2>6, <2>7, <2>8, <2>9, <2>10, <2>11, <2>12 DEF CallStep
<1> QED
  BY <1>1, <1>2 DEF PgNext, CallStep

-----------------------------------------------------------------------------
(* The steps that the callers see as an operation taking effect.  A          *)
(* statement is the operation of the same name.                              *)
LEMMA ExecutePerforms ==
  ASSUME PgTypeOK, StageInv, NEW c \in Calls, Execute(c)
  PROVE  Atomic!Perform(c)
<1>1. op[c] # None /\ result[c] = "none" /\ UNCHANGED <<op, reply>>
  BY DEF Execute, StageInv, Stage
<1>2. PICK res \in Results :
        /\ \/ save_mapping(op[c], res) \/ update_mapping(op[c], res)
           \/ remove_mapping(op[c], res) \/ remove_mappings_for(op[c], res)
           \/ update_scope_mapping(op[c], res) \/ remove_scope_mapping(op[c], res)
        /\ result' = [result EXCEPT ![c] = res]
  BY DEF Execute
<1> USE DEF Atomic!Apply, Atomic!Refuse, Atomic!store, tables
<1>3. Atomic!Apply(op[c], res)
  <2>1. CASE save_mapping(op[c], res)
    BY <2>1 DEF save_mapping, SetMapping, Atomic!save_mapping
  <2>2. CASE update_mapping(op[c], res)
    BY <2>2 DEF update_mapping, SetMapping, Atomic!update_mapping
  <2>3. CASE remove_mapping(op[c], res)
    BY <2>3 DEF remove_mapping, SetMapping, Atomic!remove_mapping
  <2>4. CASE remove_mappings_for(op[c], res)
    BY <2>4 DEF remove_mappings_for, Atomic!remove_mappings_for, Keys, Atomic!Keys
  <2>5. CASE update_scope_mapping(op[c], res)
    BY <2>5 DEF update_scope_mapping, SetScope, Atomic!update_scope_mapping
  <2>6. CASE remove_scope_mapping(op[c], res)
    BY <2>6 DEF remove_scope_mapping, SetScope, Atomic!remove_scope_mapping
  <2> QED
    BY <1>2, <2>1, <2>2, <2>3, <2>4, <2>5, <2>6
<1> QED
  BY <1>1, <1>2, <1>3 DEF Atomic!Perform, Results

(* An INSERT that fails is the Conflict of the whole batch. *)
LEMMA ConflictPerforms ==
  ASSUME PgTypeOK, StageInv, NEW c \in Calls, Insert(c), result' # result
  PROVE  Atomic!Perform(c)
<1> DEFINE batch == op[c].batch
           n == inserted[c] + 1
<1>1. /\ session[c] = "open" /\ inserted[c] < Len(batch)
      /\ UNCHANGED <<tables, op, reply>>
      /\ result' = [result EXCEPT ![c] = "Conflict"]
      /\ scope_mappings[NextScope(c)] # None \/ Holds(c, NextScope(c))
  BY DEF Insert, CanInsert, Inserting
<1>2. /\ op[c] # None /\ op[c] \in Operations /\ op[c].name = "save_scope_mappings"
      /\ result[c] = "none" /\ inserted[c] \in Nat
  BY <1>1 DEF PgTypeOK, StageInv, Stage, Open, IsBatch
<1>3. DOMAIN batch = 1 .. Len(batch) /\ Len(batch) \in Nat
  BY <1>2, BatchRows
<1>4. n \in DOMAIN batch /\ \A i \in 1 .. inserted[c] : i \in DOMAIN batch /\ i # n
  <2> HIDE DEF batch
  <2>1. inserted[c] \in Nat /\ Len(batch) \in Nat /\ inserted[c] < Len(batch)
    BY <1>1, <1>2, <1>3
  <2>2. n \in 1 .. Len(batch) /\ \A i \in 1 .. inserted[c] : i \in 1 .. Len(batch) /\ i # n
    BY <2>1
  <2> QED
    BY <1>3, <2>2
<1>5. Atomic!BatchConflict(batch)
  <2>1. CASE scope_mappings[batch[n].scope] # None
    BY <1>4, <2>1 DEF Atomic!BatchConflict
  <2>2. CASE \E i \in 1 .. inserted[c] : batch[i].scope = batch[n].scope
    BY <1>4, <2>2 DEF Atomic!BatchConflict
  <2> QED
    BY <1>1, <2>1, <2>2 DEF Holds, NextScope
<1>6. Atomic!save_scope_mappings(batch, "Conflict")
  BY <1>1, <1>5 DEF Atomic!save_scope_mappings, Atomic!Refuse, Atomic!store, tables
<1> QED
  BY <1>1, <1>2, <1>6 DEF Atomic!Perform, Atomic!Apply

(* A COMMIT is the batch taking effect as a whole: HeldOnce and Distinct say *)
(* that there is no conflict at that moment.                                 *)
LEMMA CommitPerforms ==
  ASSUME PgTypeOK, StageInv, DistinctInv, HeldOnce, NEW c \in Calls, Commit(c)
  PROVE  Atomic!Perform(c)
<1> DEFINE batch == op[c].batch
<1>1. /\ session[c] = "commit" /\ UNCHANGED <<entries, op, reply>>
      /\ result' = [result EXCEPT ![c] = "Ok"]
  BY DEF Commit
<1>2. /\ op[c] # None /\ op[c] \in Operations /\ op[c].name = "save_scope_mappings"
      /\ result[c] = "none" /\ inserted[c] = Len(batch)
  BY <1>1 DEF PgTypeOK, StageInv, Stage, Open, IsBatch
<1>3. DOMAIN batch = 1 .. inserted[c] /\ \A i \in DOMAIN batch : batch[i].scope \in Scopes
  BY <1>2, BatchRows
<1>4. \A s \in Scopes : Holds(c, s) <=> Atomic!InBatch(batch, s)
  BY <1>1, <1>3 DEF Holds, Atomic!InBatch
<1>5. ~Atomic!BatchConflict(batch)
  <2>1. \A i \in DOMAIN batch : scope_mappings[batch[i].scope] = None
    BY <1>1, <1>3 DEF HeldOnce, Holds
  <2>2. \A i, j \in DOMAIN batch : batch[i].scope = batch[j].scope => i = j
    BY <1>1, <1>3 DEF DistinctInv, Distinct, Open
  <2> QED
    BY <2>1, <2>2 DEF Atomic!BatchConflict
<1>6. scope_mappings' = [s \in Scopes |-> IF Atomic!InBatch(batch, s) THEN Atomic!ClaimsOf(batch, s)
                                          ELSE scope_mappings[s]]
  <2> DEFINE row(s) == batch[CHOOSE i \in 1 .. inserted[c] : batch[i].scope = s].claims
  <2>1. scope_mappings' = [s \in Scopes |-> IF Holds(c, s) THEN row(s) ELSE scope_mappings[s]]
    BY Zenon DEF Commit, WithBatch
  <2>2. \A s : row(s) = Atomic!ClaimsOf(batch, s)
    BY <1>3, Zenon DEF Atomic!ClaimsOf
  <2> HIDE DEF row
  <2>3. \A s \in Scopes : (IF Holds(c, s) THEN row(s) ELSE scope_mappings[s])
                          = IF Atomic!InBatch(batch, s) THEN Atomic!ClaimsOf(batch, s)
                            ELSE scope_mappings[s]
    BY <1>4, <2>2, Zenon
  <2> QED
    BY <2>1, <2>3, Zenon
<1>7. Atomic!save_scope_mappings(batch, "Ok")
  BY <1>1, <1>5, <1>6 DEF Atomic!save_scope_mappings
<1> QED
  BY <1>1, <1>2, <1>7 DEF Atomic!Perform, Atomic!Apply

LEMMA AtomicInit == PgInit => Atomic!AInit
  BY DEF PgInit, Atomic!AInit, Atomic!StoreInit, Keys, Atomic!Keys

LEMMA AtomicStep ==
  PgTypeOK /\ StageInv /\ DistinctInv /\ HeldOnce /\ [PgNext]_pgvars => [Atomic!ANext]_(Atomic!avars)
<1> SUFFICES ASSUME PgTypeOK, StageInv, DistinctInv, HeldOnce, [PgNext]_pgvars
             PROVE  [Atomic!ANext]_(Atomic!avars)
  OBVIOUS
<1>a. ASSUME UNCHANGED <<tables, op, result, reply>> PROVE UNCHANGED Atomic!avars
  BY <1>a DEF tables, Atomic!avars, Atomic!store
<1>1. CASE UNCHANGED pgvars
  BY <1>a, <1>1 DEF pgvars
<1>2. ASSUME NEW c \in Calls, CallStep(c) PROVE [Atomic!ANext]_(Atomic!avars)
  <2>0. Stage(c)
    BY DEF StageInv
  <2>1. ASSUME NEW o \in Operations, Issue(c, o) PROVE Atomic!Issue(c, o)
    BY <2>1 DEF Issue, Atomic!Issue, Atomic!store, tables
  <2>2. CASE Acquire(c)
    BY <1>a, <2>2 DEF Acquire
  <2>3. CASE Execute(c)
    BY <2>3, ExecutePerforms DEF Atomic!ANext
  <2>4. CASE Insert(c)
    <3>1. CASE result' = result
      BY <1>a, <2>4, <3>1 DEF Insert
    <3>2. CASE result' # result
      BY <2>4, <3>2, ConflictPerforms DEF Atomic!ANext
    <3> QED
      BY <3>1, <3>2
  <2>5. CASE SendCommit(c) \/ Rollback(c) \/ NeverArrives(c)
    BY <1>a, <2>5 DEF SendCommit, Rollback, NeverArrives
  <2>6. CASE Commit(c)
    BY <2>6, CommitPerforms DEF Atomic!ANext
  <2>7. CASE BreakDeadlock(c)
    <3>1. op[c] # None /\ reply[c] = "none"
      BY <2>0, <2>7, DeadlockedOpen DEF Stage
    <3>2. Atomic!Return(c)
      BY <2>7, <3>1 DEF BreakDeadlock, Atomic!Return, Atomic!store, tables
    <3> QED
      BY <3>2 DEF Atomic!ANext
  <2>8. CASE Answer(c)
    <3>1. op[c] # None
      BY <2>0, <2>8 DEF Stage, Answer
    <3>2. Atomic!Return(c)
      BY <2>8, <3>1 DEF Answer, Atomic!Return, Atomic!store, tables
    <3> QED
      BY <3>2 DEF Atomic!ANext
  <2>9. CASE Lose(c)
    <3>1. Atomic!Return(c)
      BY <2>9 DEF Lose, Atomic!Return, Atomic!store, tables
    <3> QED
      BY <3>1 DEF Atomic!ANext
  <2> QED
    BY <1>2, <2>1, <2>2, <2>3, <2>4, <2>5, <2>6, <2>7, <2>8, <2>9 DEF CallStep, Atomic!ANext
<1> QED
  BY <1>1, <1>2 DEF PgNext, CallStep

-----------------------------------------------------------------------------
(* Progress. *)

(* In a finite set whose members all point to members, some go round in a    *)
(* circle: every member of a smallest such subset is also pointed to, since  *)
(* the subset would do without it otherwise.                                 *)
LEMMA Circle ==
  ASSUME NEW U, IsFiniteSet(U), U # {}, NEW R,
         \A x \in U : \E y \in U : <<x, y>> \in R
  PROVE  \E D \in SUBSET U :
           /\ D # {}
           /\ \A x \in D : (\E y \in D : <<x, y>> \in R) /\ (\E y \in D : <<y, x>> \in R)
<1> DEFINE F == FiniteSubsetsOf(U)
           S == StrictSubsetOrdering(U)
           Closed == {T \in F : T # {} /\ \A x \in T : \E y \in T : <<x, y>> \in R}
<1>1. U \in Closed
  BY DEF FiniteSubsetsOf
<1>2. PICK D \in Closed : \A V \in Closed : <<V, D>> \notin S
  <2>1. IsWellFoundedOn(S, F)
    BY FS_StrictSubsetOrderingWellFounded
  <2>2. Closed \subseteq F /\ Closed # {}
    BY <1>1
  <2> HIDE DEF S, F, Closed
  <2> QED
    BY <2>1, <2>2, WFMin
<1>3. D \in SUBSET U /\ IsFiniteSet(D) /\ D # {} /\ \A x \in D : \E y \in D : <<x, y>> \in R
  BY DEF FiniteSubsetsOf
<1>4. ASSUME NEW x \in D, \A y \in D : <<y, x>> \notin R
      PROVE  FALSE
  <2> DEFINE V == D \ {x}
  <2>1. ASSUME NEW y \in D PROVE \E z \in V : <<y, z>> \in R
    BY <1>3, <1>4
  <2>2. V \in SUBSET U /\ IsFiniteSet(V) /\ V # {}
    BY <1>3, <2>1, FS_Subset
  <2>3. V \in Closed
    BY <2>1, <2>2 DEF FiniteSubsetsOf
  <2>4. <<V, D>> \in S
    BY <1>3 DEF StrictSubsetOrdering
  <2> QED
    BY <1>2, <2>3, <2>4
<1> QED
  BY <1>3, <1>4

(* The calls that have arrived are finitely many, whatever Calls is. *)
Arrived == {c \in Calls : op[c] # None}

(* A session that ends has an answer, or nobody waits for one. *)
Ended(c) == session[c] \in {"aborting", "done"} => reply[c] # "none" \/ result[c] # "none"

EndedInv == \A c \in Calls : Ended(c)

LEMMA ArrivedInit == PgInit => IsFiniteSet(Arrived)
<1>1. PgInit => Arrived = {}
  BY DEF PgInit, Arrived
<1> QED
  BY <1>1, FS_EmptySet

LEMMA ArrivedStep == PgTypeOK /\ IsFiniteSet(Arrived) /\ [PgNext]_pgvars => IsFiniteSet(Arrived')
<1> SUFFICES ASSUME PgTypeOK, IsFiniteSet(Arrived), [PgNext]_pgvars PROVE IsFiniteSet(Arrived')
  OBVIOUS
<1>1. CASE UNCHANGED op
  BY <1>1 DEF Arrived
<1>2. ASSUME NEW c \in Calls, NEW o \in Operations, Issue(c, o) PROVE IsFiniteSet(Arrived')
  <2>1. Arrived' = Arrived \cup {c}
    BY <1>2, PgAssumption DEF Issue, Arrived, PgTypeOK
  <2> QED
    BY <2>1, FS_AddElement
<1>3. UNCHANGED op \/ \E c \in Calls, o \in Operations : Issue(c, o)
  BY Zenon DEF PgNext, pgvars, tables, Acquire, Execute, Insert, SendCommit, Commit, Rollback,
         BreakDeadlock, Answer, Lose, NeverArrives
<1> QED
  BY <1>1, <1>2, <1>3

LEMMA OwnEnded ==
  ASSUME PgTypeOK, StageInv, EndedInv, NEW c \in Calls, CallStep(c)
  PROVE  Ended(c)'
<1> USE DEF PgTypeOK, Ended, Results
<1>0. Stage(c) /\ Ended(c)
  BY DEF StageInv, EndedInv
<1>1. ASSUME NEW o \in Operations, Issue(c, o) PROVE Ended(c)'
  BY <1>1 DEF Issue
<1>2. CASE Acquire(c) \/ SendCommit(c)
  BY <1>2 DEF Acquire, SendCommit
<1>3. CASE Execute(c)
  BY <1>3 DEF Execute
<1>4. CASE Insert(c)
  BY <1>4 DEF Insert, CanInsert, Inserting
<1>5. CASE Commit(c)
  BY <1>5 DEF Commit
<1>6. CASE Rollback(c)
  BY <1>0, <1>6 DEF Rollback
<1>7. CASE BreakDeadlock(c) \/ Lose(c)
  BY <1>7 DEF BreakDeadlock, Lose
<1>8. CASE Answer(c)
  BY <1>8 DEF Answer
<1>9. CASE NeverArrives(c)
  BY <1>9 DEF NeverArrives
<1> QED
  BY <1>1, <1>2, <1>3, <1>4, <1>5, <1>6, <1>7, <1>8, <1>9 DEF CallStep

LEMMA EndedStep == PgTypeOK /\ StageInv /\ EndedInv /\ [PgNext]_pgvars => EndedInv'
<1> SUFFICES ASSUME PgTypeOK, StageInv, EndedInv, [PgNext]_pgvars, NEW d \in Calls PROVE Ended(d)'
  BY DEF EndedInv
<1>0. Ended(d)
  BY DEF EndedInv
<1>1. CASE UNCHANGED pgvars
  BY <1>0, <1>1 DEF pgvars, tables, Ended
<1>2. ASSUME NEW c \in Calls, CallStep(c) PROVE Ended(d)'
  <2>1. CASE d = c
    BY <1>2, <2>1, OwnEnded
  <2>2. CASE d # c
    BY <1>0, <1>2, <2>2, OthersSame DEF SameCall, Ended
  <2> QED
    BY <2>1, <2>2
<1> QED
  BY <1>1, <1>2 DEF PgNext, CallStep

-----------------------------------------------------------------------------
(* Where rows come from. *)

(* What the server has answered a call with Ok stands: the call is over for  *)
(* the server, and its operation does not change.                            *)
LEMMA OkStands ==
  ASSUME PgTypeOK, StageInv, NEW c \in Calls, CallStep(c), NEW d \in Calls, result[d] = "Ok"
  PROVE  op'[d] = op[d] /\ result'[d] = "Ok"
<1>1. CASE d # c
  BY <1>1, OthersSame DEF SameCall
<1>2. CASE d = c
  <2>1. session[c] \in {"aborting", "done"} /\ op[c] # None
    BY <1>2 DEF StageInv, Stage, PgTypeOK
  <2>2. CASE Rollback(c) \/ Answer(c) \/ Lose(c)
    BY <1>2, <2>2 DEF Rollback, Answer, Lose
  <2>3. CASE BreakDeadlock(c)
    BY <2>1, <2>3, DeadlockedOpen
  <2> QED
    BY <2>1, <2>2, <2>3 DEF CallStep, Issue, Acquire, Execute, Insert, CanInsert, Inserting,
       SendCommit, Commit, NeverArrives
<1> QED
  BY <1>1, <1>2

MappingBy(c, key, m) ==
  /\ result[c] = "Ok" /\ op[c].name \in {"save_mapping", "update_mapping"}
  /\ op[c].key = key /\ op[c].mapping = m

(* A step writes a mapping only as its call asks for it ... *)
LEMMA MappingWritten ==
  ASSUME PgTypeOK, StageInv, NEW c \in Calls, CallStep(c),
         NEW key \in Keys, entries'[key] # None, entries'[key] # entries[key]
  PROVE  MappingBy(c, key, entries[key])'
<1>1. Execute(c)
  BY DEF CallStep, tables, Issue, Acquire, Insert, SendCommit, Commit, Rollback, BreakDeadlock,
     Answer, Lose, NeverArrives
<1>2. UNCHANGED op
  BY <1>1 DEF Execute
<1>3. PICK res \in Results :
        /\ \/ save_mapping(op[c], res) \/ update_mapping(op[c], res)
           \/ remove_mapping(op[c], res) \/ remove_mappings_for(op[c], res)
           \/ update_scope_mapping(op[c], res) \/ remove_scope_mapping(op[c], res)
        /\ result' = [result EXCEPT ![c] = res]
  BY <1>1 DEF Execute
<1>4. result'[c] = res
  BY <1>3 DEF PgTypeOK
<1>5. CASE save_mapping(op[c], res)
  <2>1. res = "Ok" /\ op[c].name = "save_mapping" /\ entries' = [entries EXCEPT ![op[c].key] = op[c].mapping]
    BY <1>5 DEF save_mapping, SetMapping, tables
  <2>2. key = op[c].key /\ entries'[key] = op[c].mapping
    BY <2>1 DEF PgTypeOK
  <2> QED
    BY <1>2, <1>4, <2>1, <2>2 DEF MappingBy
<1>6. CASE update_mapping(op[c], res)
  <2>1. res = "Ok" /\ op[c].name = "update_mapping" /\ entries' = [entries EXCEPT ![op[c].key] = op[c].mapping]
    BY <1>6 DEF update_mapping, SetMapping, tables
  <2>2. key = op[c].key /\ entries'[key] = op[c].mapping
    BY <2>1 DEF PgTypeOK
  <2> QED
    BY <1>2, <1>4, <2>1, <2>2 DEF MappingBy
<1>7. CASE remove_mapping(op[c], res)
  BY <1>7 DEF remove_mapping, SetMapping, PgTypeOK
<1>8. CASE remove_mappings_for(op[c], res)
  BY <1>8 DEF remove_mappings_for, PgTypeOK
<1>9. CASE update_scope_mapping(op[c], res) \/ remove_scope_mapping(op[c], res)
  BY <1>9 DEF update_scope_mapping, remove_scope_mapping, SetScope, tables
<1> QED
  BY <1>3, <1>5, <1>6, <1>7, <1>8, <1>9

(* ... and a scope mapping too, be it alone or in a batch. *)
LEMMA ScopeWritten ==
  ASSUME PgTypeOK, StageInv, NEW c \in Calls, CallStep(c),
         NEW s \in Scopes, scope_mappings'[s] # None, scope_mappings'[s] # scope_mappings[s]
  PROVE  WrittenBy(c, [scope |-> s, claims |-> scope_mappings[s]])'
<1> DEFINE row == [scope |-> s, claims |-> scope_mappings'[s]]
<1>1. Execute(c) \/ Commit(c)
  BY DEF CallStep, tables, Issue, Acquire, Insert, SendCommit, Rollback, BreakDeadlock,
     Answer, Lose, NeverArrives
<1>2. UNCHANGED op /\ op[c] \in Operations
  BY <1>1, OpOf DEF Execute, Commit
<1>3. CASE Execute(c)
  <2>1. PICK res \in Results :
          /\ \/ save_mapping(op[c], res) \/ update_mapping(op[c], res)
             \/ remove_mapping(op[c], res) \/ remove_mappings_for(op[c], res)
             \/ update_scope_mapping(op[c], res) \/ remove_scope_mapping(op[c], res)
          /\ result' = [result EXCEPT ![c] = res]
    BY <1>3 DEF Execute
  <2>2. result'[c] = res
    BY <2>1 DEF PgTypeOK
  <2>3. CASE update_scope_mapping(op[c], res)
    <3>1. /\ res = "Ok" /\ op[c].name = "update_scope_mapping"
          /\ scope_mappings' = [scope_mappings EXCEPT ![op[c].row.scope] = op[c].row.claims]
      BY <2>3 DEF update_scope_mapping, SetScope, tables
    <3>2. op[c].row \in ScopeMapping
      BY <1>2, <3>1, PgAssumption
    <3>3. s = op[c].row.scope /\ scope_mappings'[s] = op[c].row.claims
      BY <3>1 DEF PgTypeOK
    <3>4. op[c].row = row
      BY <3>2, <3>3 DEF ScopeMapping
    <3> QED
      BY <1>2, <2>2, <3>1, <3>4 DEF WrittenBy
  <2>4. CASE remove_scope_mapping(op[c], res)
    BY <2>4 DEF remove_scope_mapping, SetScope, PgTypeOK
  <2>5. CASE save_mapping(op[c], res) \/ update_mapping(op[c], res)
    BY <2>5 DEF save_mapping, update_mapping, SetMapping, tables
  <2>6. CASE remove_mapping(op[c], res) \/ remove_mappings_for(op[c], res)
    BY <2>6 DEF remove_mapping, remove_mappings_for, SetMapping
  <2> QED
    BY <2>1, <2>3, <2>4, <2>5, <2>6
<1>4. CASE Commit(c)
  <2> DEFINE n == CHOOSE i \in 1 .. inserted[c] : op[c].batch[i].scope = s
  <2>1. Holds(c, s) /\ scope_mappings'[s] = op[c].batch[n].claims
    BY <1>4 DEF Commit, WithBatch
  <2>2. n \in 1 .. inserted[c] /\ op[c].batch[n].scope = s
    BY <2>1 DEF Holds
  <2> HIDE DEF n
  <2>3. IsBatch(c) /\ inserted[c] = Len(op[c].batch) /\ result'[c] = "Ok"
    BY <1>4 DEF Commit, StageInv, Stage, Open, PgTypeOK
  <2>4. op[c].batch \in Seq(ScopeMapping) /\ DOMAIN op[c].batch = 1 .. Len(op[c].batch)
    BY <1>2, <2>3, BatchRows DEF IsBatch
  <2>5. n \in DOMAIN op[c].batch /\ op[c].batch[n] \in ScopeMapping
    BY <2>2, <2>3, <2>4
  <2>6. op[c].batch[n] = row
    BY <2>1, <2>2, <2>5 DEF ScopeMapping
  <2> QED
    BY <1>2, <2>3, <2>5, <2>6 DEF WrittenBy, IsBatch
<1> QED
  BY <1>1, <1>3, <1>4

LEMMA AccountedStep == PgTypeOK /\ StageInv /\ RowsAccounted /\ [PgNext]_pgvars => RowsAccounted'
<1> SUFFICES ASSUME PgTypeOK, StageInv, RowsAccounted, [PgNext]_pgvars PROVE RowsAccounted'
  OBVIOUS
<1>1. CASE UNCHANGED pgvars
  <2>1. UNCHANGED <<entries, scope_mappings, op, inserted, result>>
    BY <1>1, Zenon DEF pgvars, tables
  <2>2. ASSUME NEW key \in Keys, entries'[key] # None
        PROVE  \E d \in Calls : MappingBy(d, key, entries[key])'
    <3>1. PICK d \in Calls : MappingBy(d, key, entries[key])
      BY <2>1, <2>2 DEF RowsAccounted, MappingBy
    <3> QED
      BY <2>1, <3>1 DEF MappingBy
  <2>3. ASSUME NEW s \in Scopes, scope_mappings'[s] # None
        PROVE  \E d \in Calls : WrittenBy(d, [scope |-> s, claims |-> scope_mappings[s]])'
    <3>1. PICK d \in Calls : WrittenBy(d, [scope |-> s, claims |-> scope_mappings[s]])
      BY <2>1, <2>3 DEF RowsAccounted
    <3> QED
      BY <2>1, <3>1 DEF WrittenBy, IsBatch
  <2> QED
    BY <2>2, <2>3 DEF RowsAccounted, MappingBy
<1>2. ASSUME NEW c \in Calls, CallStep(c) PROVE RowsAccounted'
  <2>1. ASSUME NEW key \in Keys, entries'[key] # None
        PROVE  \E d \in Calls : MappingBy(d, key, entries[key])'
    <3>1. CASE entries'[key] # entries[key]
      BY <1>2, <2>1, <3>1, MappingWritten
    <3>2. CASE entries'[key] = entries[key]
      <4>1. PICK d \in Calls : MappingBy(d, key, entries[key])
        BY <2>1, <3>2 DEF RowsAccounted, MappingBy
      <4>2. op'[d] = op[d] /\ result'[d] = "Ok"
        BY <1>2, <4>1, OkStands DEF MappingBy
      <4> QED
        BY <3>2, <4>1, <4>2 DEF MappingBy
    <3> QED
      BY <3>1, <3>2
  <2>2. ASSUME NEW s \in Scopes, scope_mappings'[s] # None
        PROVE  \E d \in Calls : WrittenBy(d, [scope |-> s, claims |-> scope_mappings[s]])'
    <3>1. CASE scope_mappings'[s] # scope_mappings[s]
      BY <1>2, <2>2, <3>1, ScopeWritten
    <3>2. CASE scope_mappings'[s] = scope_mappings[s]
      <4>1. PICK d \in Calls : WrittenBy(d, [scope |-> s, claims |-> scope_mappings[s]])
        BY <2>2, <3>2 DEF RowsAccounted
      <4>2. op'[d] = op[d] /\ result'[d] = "Ok"
        BY <1>2, <4>1, OkStands DEF WrittenBy
      <4> QED
        BY <3>2, <4>1, <4>2 DEF WrittenBy, IsBatch
    <3> QED
      BY <3>1, <3>2
  <2> QED
    BY <2>1, <2>2 DEF RowsAccounted, MappingBy
<1> QED
  BY <1>1, <1>2 DEF PgNext, CallStep

(* What ResourceService lets through to the store. *)
Validated(o) ==
  /\ o.name \in {"save_mapping", "update_mapping"} => validate_resource_mapping(o.key, o.mapping)
  /\ o.name = "update_scope_mapping" => validate_scope_mapping(o.row) = "Ok"
  /\ o.name = "save_scope_mappings" =>
       \A i \in DOMAIN o.batch : validate_scope_mapping(o.batch[i]) = "Ok"

LEMMA AccountedValid ==
  ASSUME \A o \in Operations : Validated(o), PgTypeOK, StageInv, RowsAccounted
  PROVE  RowsValid(entries, scope_mappings)
<1>1. ASSUME NEW c \in Calls, result[c] = "Ok"
      PROVE  op[c] \in Operations /\ Validated(op[c])
  BY <1>1 DEF PgTypeOK, StageInv, Stage
<1>2. ASSUME NEW key \in Keys, entries[key] # None
      PROVE  validate_resource_mapping(key, entries[key])
  <2>1. PICK c \in Calls : MappingBy(c, key, entries[key])
    BY <1>2 DEF RowsAccounted, MappingBy
  <2> QED
    BY <1>1, <2>1 DEF MappingBy, Validated
<1>3. ASSUME NEW s \in Scopes, scope_mappings[s] # None
      PROVE  validate_scope_name(s) /\ validate_scope_claims(scope_mappings[s])
  <2> DEFINE row == [scope |-> s, claims |-> scope_mappings[s]]
  <2>1. PICK c \in Calls : WrittenBy(c, row)
    BY <1>3 DEF RowsAccounted
  <2>2. Validated(op[c])
    BY <1>1, <2>1 DEF WrittenBy
  <2>3. validate_scope_mapping(row) = "Ok"
    <3> HIDE DEF row
    <3> QED
      BY <2>1, <2>2 DEF WrittenBy, Validated, IsBatch
  <2>4. row.scope = s /\ row.claims = scope_mappings[s]
    OBVIOUS
  <2> HIDE DEF row
  <2>5. validate_scope_name(row.scope) /\ validate_scope_claims(row.claims)
    BY <2>3 DEF validate_scope_mapping
  <2> QED
    BY <2>4, <2>5
<1> QED
  BY <1>2, <1>3 DEF RowsValid

-----------------------------------------------------------------------------
PgInv ==
  /\ PgTypeOK /\ StageInv /\ DistinctInv /\ HeldOnce
  /\ IsFiniteSet(Arrived) /\ EndedInv /\ RowsAccounted

LEMMA PgInvariant == PgSpec => []PgInv
<1>1. PgInit => PgInv
  <2>1. PgInit => DistinctInv
    BY DEF PgInit, DistinctInv, Distinct, Open
  <2>2. PgInit => EndedInv
    BY DEF PgInit, EndedInv, Ended
  <2>3. PgInit => RowsAccounted
    BY DEF PgInit, RowsAccounted
  <2> QED
    BY <2>1, <2>2, <2>3, PgTypeInit, StageInit, HeldInit, ArrivedInit DEF PgInv
<1>2. PgInv /\ [PgNext]_pgvars => PgInv'
  BY PgTypeStep, StageStep, DistinctStep, HeldStep, ArrivedStep, EndedStep,
     AccountedStep DEF PgInv
<1> QED
  BY <1>1, <1>2, PTL DEF PgSpec

(* If no session could go on, every open one would wait for the rows of      *)
(* another open one, and these would go round in a circle, which the server  *)
(* breaks.  So none is open, the pool is free, nobody waits for it, and what *)
(* is left has an answer to return.                                          *)
LEMMA StuckNever == PgInv => NeverStuck
<1> SUFFICES ASSUME PgTypeOK, StageInv, IsFiniteSet(Arrived), EndedInv,
                    NEW c \in Calls, Unfinished(c),
                    \A d \in Calls : ~CanProceed(d)
             PROVE  FALSE
  BY DEF PgInv, NeverStuck
<1> DEFINE O == {d \in Calls : session[d] = "open"}
<1>1. ASSUME NEW d \in Calls
      PROVE  session[d] \in {"none", "waiting", "open", "done"}
  BY DEF CanProceed, PgTypeOK
<1>2. ASSUME NEW d \in O
      PROVE  \E e \in O : Waits(d, e)
  <2>1. op[d] \in Operations /\ IsBatch(d) /\ inserted[d] <= Len(op[d].batch) /\ inserted[d] \in Nat
    BY OpOf DEF StageInv, Stage, Open, PgTypeOK
  <2>2. Len(op[d].batch) \in Nat
    BY <2>1, BatchRows DEF IsBatch
  <2>3. inserted[d] # Len(op[d].batch) /\ ~CanInsert(d)
    BY DEF CanProceed
  <2>4. Inserting(d)
    BY <2>1, <2>2, <2>3 DEF Inserting
  <2>5. PICK e \in Calls : Waits(d, e)
    BY <2>3, <2>4 DEF CanInsert
  <2>6. session[e] = "open"
    BY <1>1, <2>5 DEF Waits, Holds
  <2> QED
    BY <2>5, <2>6
<1>3. O = {}
  <2> SUFFICES ASSUME O # {} PROVE FALSE
    OBVIOUS
  <2> DEFINE R == {e \in O \X O : Waits(e[1], e[2])}
  <2>1. IsFiniteSet(O)
    <3>1. O \subseteq Arrived
      BY DEF Arrived, StageInv, Stage
    <3> QED
      BY <3>1, FS_Subset
  <2>2. \A d \in O : \E e \in O : <<d, e>> \in R
    BY <1>2
  <2>3. PICK D \in SUBSET O :
          /\ D # {}
          /\ \A x \in D : (\E y \in D : <<x, y>> \in R) /\ (\E y \in D : <<y, x>> \in R)
    <3> HIDE DEF O, R
    <3> QED
      BY <2>1, <2>2, Circle
  <2>4. PICK d \in D : TRUE
    BY <2>3
  <2>5. D \in SUBSET Calls
    OBVIOUS
  <2>6. \A x \in D : (\E y \in D : Waits(x, y)) /\ (\E y \in D : Waits(y, x))
    BY <2>3
  <2>7. d \in Calls /\ InCircle(d)
    BY <2>4, <2>5, <2>6 DEF InCircle
  <2> QED
    BY <2>7 DEF CanProceed
<1>4. PoolFree
  <2>1. Connected = {}
    BY <1>1, <1>3 DEF Connected
  <2> QED
    BY <2>1, FS_EmptySet, PgAssumption DEF PoolFree
<1>5. session[c] = "done"
  <2>1. session[c] # "waiting"
    BY <1>4 DEF CanProceed
  <2>2. session[c] # "none"
    BY DEF Unfinished, StageInv, Stage
  <2> QED
    BY <1>1, <1>3, <2>1, <2>2
<1>6. reply[c] = "none" /\ result[c] # "none"
  BY <1>5 DEF Unfinished, EndedInv, Ended
<1> QED
  BY <1>6 DEF CanProceed

(* What a session has before it, by the stage it is at. *)
LEMMA StepsLeftAt ==
  ASSUME NEW c \in Calls
  PROVE  /\ session[c] = "waiting" => StepsLeft(c) = IF IsBatch(c) THEN Len(op[c].batch) + 3 ELSE 2
         /\ session[c] = "open" => StepsLeft(c) = Len(op[c].batch) - inserted[c] + 2
         /\ session[c] \in {"statement", "commit", "aborting"} => StepsLeft(c) = 1
         /\ session[c] \in {"none", "done"} => StepsLeft(c) = 0
  BY DEF StepsLeft

LEMMA StepsLeftAtNext ==
  ASSUME NEW c \in Calls
  PROVE  /\ session'[c] = "open" => StepsLeft(c)' = Len(op'[c].batch) - inserted'[c] + 2
         /\ session'[c] \in {"statement", "commit", "aborting"} => StepsLeft(c)' = 1
         /\ session'[c] \in {"none", "done"} => StepsLeft(c)' = 0
  BY DEF StepsLeft

(* What a session has before it is a number, and at least one step while it  *)
(* is not at its end.                                                        *)
LEMMA StepsLeftType ==
  ASSUME PgTypeOK, StageInv, NEW c \in Calls
  PROVE  /\ StepsLeft(c) \in Nat
         /\ session[c] = "open" => StepsLeft(c) >= 2
         /\ op[c] # None /\ IsBatch(c) => Len(op[c].batch) \in Nat
<1>1. Stage(c)
  BY DEF StageInv
<1>2. op[c] # None /\ IsBatch(c) => Len(op[c].batch) \in Nat
  BY BatchRows DEF PgTypeOK, IsBatch
<1>3. CASE session[c] = "waiting"
  <2>1. op[c] # None
    BY <1>1, <1>3 DEF Stage
  <2>2. StepsLeft(c) \in Nat
    BY <1>2, <1>3, <2>1, StepsLeftAt
  <2> QED
    BY <1>2, <1>3, <2>2
<1>4. CASE session[c] = "open"
  <2>1. op[c] # None /\ IsBatch(c) /\ inserted[c] <= Len(op[c].batch)
    BY <1>1, <1>4 DEF Stage, Open
  <2>2. inserted[c] \in Nat /\ Len(op[c].batch) \in Nat
    BY <1>2, <2>1 DEF PgTypeOK
  <2> QED
    BY <1>2, <1>4, <2>1, <2>2, StepsLeftAt
<1>5. CASE session[c] \notin {"waiting", "open"}
  <2>1. session[c] \in {"none", "statement", "commit", "aborting", "done"}
    BY <1>5 DEF PgTypeOK
  <2>2. StepsLeft(c) \in {0, 1}
    BY <2>1, StepsLeftAt
  <2> QED
    BY <1>2, <1>5, <2>2
<1> QED
  BY <1>3, <1>4, <1>5

LEMMA StepsLeftNat == PgTypeOK /\ StageInv => \A c \in Calls : StepsLeft(c) \in Nat
  BY StepsLeftType

LEMMA StepsLeftNatNext == PgTypeOK' /\ StageInv' => (\A c \in Calls : StepsLeft(c) \in Nat)'
  BY StepsLeftNat, PTL

(* A step that brings the session closer to its end and answers nothing, and *)
(* one that answers and does not set the session back.                       *)
LEMMA WorkOfSession ==
  ASSUME NEW c \in Calls, UNCHANGED <<op, reply>>,
         StepsLeft(c) \in Nat, StepsLeft(c)' \in Nat, StepsLeft(c)' < StepsLeft(c)
  PROVE  Work(c)' < Work(c)
<1> DEFINE a == IF op[c] # None /\ reply[c] = "none" THEN 1 ELSE 0
<1>1. Work(c) = StepsLeft(c) + a /\ Work(c)' = StepsLeft(c)' + a
  BY DEF Work
<1>2. a \in Int
  OBVIOUS
<1> HIDE DEF a
<1> QED
  BY <1>1, <1>2

LEMMA WorkOfAnswer ==
  ASSUME NEW c \in Calls, op[c] # None, reply[c] = "none", reply'[c] # "none",
         StepsLeft(c) \in Nat, StepsLeft(c)' \in Nat, StepsLeft(c)' <= StepsLeft(c)
  PROVE  Work(c)' < Work(c)
<1>1. Work(c) = StepsLeft(c) + 1 /\ Work(c)' = StepsLeft(c)' + 0
  BY DEF Work
<1> QED
  BY <1>1

LEMMA OwnWork ==
  ASSUME PgTypeOK, StageInv, PgTypeOK', StageInv', NEW c \in Calls, CallStep(c)
  PROVE  (\E o \in Operations : Issue(c, o)) \/ Work(c)' < Work(c)
<1>a. Stage(c)
  BY DEF StageInv
<1>b. StepsLeft(c) \in Nat /\ StepsLeft(c)' \in Nat
  BY StepsLeftNat, StepsLeftNatNext, Zenon
<1>c. session[c] = "open" => StepsLeft(c) >= 2
  BY StepsLeftType, Zenon
<1>1. CASE Acquire(c)
  <2>1. /\ session[c] = "waiting" /\ op[c] # None /\ UNCHANGED <<op, reply, inserted>> /\ inserted[c] = 0
        /\ session'[c] = IF IsBatch(c) THEN "open" ELSE "statement"
    BY <1>1, <1>a DEF Acquire, Stage, PgTypeOK
  <2>2. CASE IsBatch(c)
    <3>1. Len(op[c].batch) \in Nat
      BY <2>1, <2>2, StepsLeftType
    <3>2. StepsLeft(c) = Len(op[c].batch) + 3
      BY <2>1, <2>2, StepsLeftAt
    <3>3. StepsLeft(c)' = Len(op[c].batch) - 0 + 2
      BY <2>1, <2>2, StepsLeftAtNext
    <3>4. StepsLeft(c)' < StepsLeft(c)
      BY <3>1, <3>2, <3>3
    <3> QED
      BY <1>b, <2>1, <3>4, WorkOfSession, Zenon
  <2>3. CASE ~IsBatch(c)
    <3>1. StepsLeft(c) = 2 /\ StepsLeft(c)' = 1
      BY <2>1, <2>3, StepsLeftAt, StepsLeftAtNext
    <3>2. StepsLeft(c)' < StepsLeft(c)
      BY <3>1
    <3> QED
      BY <1>b, <2>1, <3>2, WorkOfSession, Zenon
  <2> QED
    BY <2>2, <2>3
<1>2. CASE Execute(c) \/ Commit(c) \/ Rollback(c) \/ NeverArrives(c)
  <2>1. /\ session[c] \in {"statement", "commit", "aborting"} /\ session'[c] = "done"
        /\ UNCHANGED <<op, reply>>
    BY <1>2 DEF Execute, Commit, Rollback, NeverArrives, PgTypeOK
  <2>2. StepsLeft(c) = 1 /\ StepsLeft(c)' = 0
    BY <2>1, StepsLeftAt, StepsLeftAtNext
  <2>3. StepsLeft(c)' < StepsLeft(c)
    BY <2>2
  <2> QED
    BY <1>b, <2>1, <2>3, WorkOfSession, Zenon
<1>3. CASE Insert(c)
  <2>1. session[c] = "open" /\ UNCHANGED <<op, reply>>
    BY <1>3 DEF Insert, CanInsert, Inserting
  <2>2. CASE session'[c] = "aborting"
    <3>1. StepsLeft(c)' = 1
      BY <2>2, StepsLeftAtNext
    <3>2. StepsLeft(c)' < StepsLeft(c)
      BY <1>b, <1>c, <2>1, <3>1
    <3> QED
      BY <1>b, <2>1, <3>2, WorkOfSession, Zenon
  <2>3. CASE session'[c] # "aborting"
    <3>1. session'[c] = "open" /\ inserted'[c] = inserted[c] + 1
      BY <1>3, <2>1, <2>3 DEF Insert, PgTypeOK
    <3>2. Len(op[c].batch) \in Nat /\ inserted[c] \in Nat
      BY <1>a, <2>1, StepsLeftType DEF Stage, Open, PgTypeOK
    <3>3. /\ StepsLeft(c) = Len(op[c].batch) - inserted[c] + 2
          /\ StepsLeft(c)' = Len(op[c].batch) - (inserted[c] + 1) + 2
      BY <2>1, <3>1, StepsLeftAt, StepsLeftAtNext
    <3>4. StepsLeft(c)' < StepsLeft(c)
      BY <3>2, <3>3
    <3> QED
      BY <1>b, <2>1, <3>4, WorkOfSession, Zenon
  <2> QED
    BY <2>2, <2>3
<1>4. CASE SendCommit(c)
  <2>1. session[c] = "open" /\ session'[c] = "commit" /\ UNCHANGED <<op, reply>>
    BY <1>4 DEF SendCommit, PgTypeOK
  <2>2. StepsLeft(c)' = 1
    BY <2>1, StepsLeftAtNext
  <2>3. StepsLeft(c)' < StepsLeft(c)
    BY <1>b, <1>c, <2>1, <2>2
  <2> QED
    BY <1>b, <2>1, <2>3, WorkOfSession, Zenon
<1>5. CASE BreakDeadlock(c)
  <2>a. session[c] = "open"
    BY <1>5, DeadlockedOpen, Zenon
  <2>b. session'[c] = "aborting" /\ reply'[c] = "DatabaseError"
    BY <1>5 DEF BreakDeadlock, PgTypeOK
  <2>1. session[c] = "open" /\ session'[c] = "aborting" /\ reply'[c] = "DatabaseError"
    BY <2>a, <2>b
  <2>2. StepsLeft(c)' = 1
    BY <2>1, StepsLeftAtNext
  <2>3. op[c] # None /\ reply[c] = "none"
    BY <1>a, <2>1 DEF Stage
  <2>4. StepsLeft(c)' <= StepsLeft(c) /\ reply'[c] # "none"
    BY <1>b, <1>c, <2>1, <2>2
  <2> QED
    BY <1>b, <2>3, <2>4, WorkOfAnswer, Zenon
<1>6. CASE Answer(c)
  <2>1. /\ UNCHANGED <<op, session, inserted>>
        /\ reply[c] = "none" /\ result[c] # "none" /\ reply'[c] = result[c]
    BY <1>6 DEF Answer, PgTypeOK
  <2>2. op[c] # None
    BY <1>a, <2>1 DEF Stage
  <2>3. StepsLeft(c)' = StepsLeft(c)
    BY <2>1 DEF StepsLeft, IsBatch
  <2>4. StepsLeft(c)' <= StepsLeft(c) /\ reply'[c] # "none"
    BY <1>b, <2>1, <2>3
  <2> QED
    BY <1>b, <2>1, <2>2, <2>4, WorkOfAnswer, Zenon
<1>7. CASE Lose(c)
  <2>1. op[c] # None /\ reply[c] = "none" /\ UNCHANGED <<op, inserted>>
    BY <1>7, Zenon DEF Lose
  <2>a. session'[c] = IF session[c] = "open" THEN "aborting"
                      ELSE IF session[c] = "waiting" THEN "done" ELSE session[c]
    <3>1. session' = [session EXCEPT ![c] = IF @ = "open" THEN "aborting"
                                            ELSE IF @ = "waiting" THEN "done" ELSE @]
      BY <1>7, Zenon DEF Lose
    <3>2. c \in DOMAIN session
      BY DEF PgTypeOK
    <3> QED
      BY <3>1, <3>2
  <2>2. reply'[c] # "none"
    BY <1>7 DEF Lose, PgTypeOK
  <2>3. StepsLeft(c)' <= StepsLeft(c)
    <3>1. CASE session[c] = "open"
      <4>1. StepsLeft(c)' = 1
        BY <2>a, <3>1, StepsLeftAtNext
      <4> QED
        BY <1>b, <1>c, <3>1, <4>1
    <3>2. CASE session[c] = "waiting"
      <4>1. StepsLeft(c)' = 0
        BY <2>a, <3>2, StepsLeftAtNext
      <4> QED
        BY <1>b, <4>1
    <3>3. CASE session[c] \notin {"open", "waiting"}
      <4>1. session'[c] = session[c]
        BY <2>a, <3>3
      <4>2. StepsLeft(c)' = StepsLeft(c)
        BY <2>1, <4>1 DEF StepsLeft, IsBatch
      <4> QED
        BY <1>b, <4>2
    <3> QED
      BY <3>1, <3>2, <3>3
  <2> QED
    BY <1>b, <2>1, <2>2, <2>3, WorkOfAnswer, Zenon
<1> QED
  BY <1>1, <1>2, <1>3, <1>4, <1>5, <1>6, <1>7 DEF CallStep

(* The variables of the Postgres store keep their types. *)
THEOREM PgTypeCorrect == PgSpec => []PgTypeOK
<1>1. PgInv => PgTypeOK
  BY DEF PgInv
<1> QED
  BY <1>1, PgInvariant, PTL

(* A scope inserted by an open transaction of save_scope_mappings belongs to *)
(* that transaction alone and is in no committed row.                        *)
THEOREM ScopesHeldOnce == PgSpec => []HeldOnce
<1>1. PgInv => HeldOnce
  BY DEF PgInv
<1> QED
  BY <1>1, PgInvariant, PTL

(* PostgresResourceStore implements the atomic operations of ResourceStore:  *)
(* a batch takes effect at its COMMIT, a conflict at the INSERT that fails,  *)
(* and a call that is lost or aborted returns a DatabaseError.               *)
THEOREM PostgresActsAtomically == PgSpec => ActsAtomically
<1>1. PgInv /\ [PgNext]_pgvars => [Atomic!ANext]_(Atomic!avars)
  BY AtomicStep DEF PgInv
<1> QED
  BY <1>1, AtomicInit, PgInvariant, PTL DEF PgSpec, ActsAtomically, Atomic!ASpec

(* As long as a call of the Postgres store has not returned, or its session  *)
(* has not ended, some session can go on without a connection being lost,    *)
(* however small the pool is and however the batches overlap: a transaction  *)
(* of save_scope_mappings never needs a second connection.                   *)
THEOREM PostgresNeverStuck == PgSpec => []NeverStuck
  BY PgInvariant, StuckNever, PTL

(* Every step of the Postgres store but the arrival of a call brings one     *)
(* call closer to its end and sets none back: nothing is retried, neither    *)
(* after a conflict nor after a deadlock nor after a lost connection.  Since *)
(* some session can always go on, every call returns after boundedly many    *)
(* steps, which is the safety part of EveryCallReturns.                      *)
THEOREM PostgresWorkShrinks == PgSpec => WorkShrinks
<1> DEFINE Shrink == \E c \in Calls :
                       \/ \E o \in Operations : Issue(c, o)
                       \/ /\ Work(c)' < Work(c)
                          /\ \A d \in Calls \ {c} : Work(d)' = Work(d)
<1>1. PgInv /\ PgInv' /\ [PgNext]_pgvars => [Shrink]_pgvars
  <2> SUFFICES ASSUME PgInv, PgInv', NEW c \in Calls, CallStep(c)
               PROVE  Shrink
    BY Zenon DEF PgNext, CallStep
  <2>1. PgTypeOK /\ StageInv /\ PgTypeOK' /\ StageInv'
    BY DEF PgInv
  <2>2. (\E o \in Operations : Issue(c, o)) \/ Work(c)' < Work(c)
    BY <2>1, OwnWork
  <2>3. ASSUME NEW d \in Calls \ {c} PROVE Work(d)' = Work(d)
    <3>1. SameCall(d)
      BY <2>1, <2>3, OthersSame
    <3> QED
      BY <3>1 DEF SameCall, Work, StepsLeft, IsBatch
  <2> QED
    BY <2>2, <2>3
<1> QED
  BY <1>1, PgInvariant, PTL DEF PgSpec, WorkShrinks

(* Every row of the tables stands there as a call that succeeded asked for   *)
(* it: rollbacks, refusals and lost connections leave no rows of their own.  *)
THEOREM RowsAlwaysAccounted == PgSpec => []RowsAccounted
<1>1. PgInv => RowsAccounted
  BY DEF PgInv
<1> QED
  BY <1>1, PgInvariant, PTL

(* When ResourceService has validated every operation that it passes on, the *)
(* tables of the Postgres store hold valid rows only, at every moment: also  *)
(* while batches are half inserted, and after statements that were executed  *)
(* when their callers had given up.                                          *)
THEOREM PostgresKeepsPolicyValid ==
  ASSUME \A o \in Operations : Validated(o)
  PROVE  PgSpec => []RowsValid(entries, scope_mappings)
<1>1. PgInv => RowsValid(entries, scope_mappings)
  BY AccountedValid DEF PgInv
<1> QED
  BY <1>1, PgInvariant, PTL
=============================================================================
