------------------------- MODULE Management_proofs --------------------------
(* Proofs about the management API, for any number of calls, any actors and  *)
(* accounts, and anything that calls can ask for.                            *)
EXTENDS Management, ResourceService_proofs

Ops == MappingOps \cup ScopeOps \cup ReadOps

(* The answer tells success, failure and the open case apart. *)
LEMMA StatusTells ==
  ASSUME NEW op \in Ops, NEW res \in MResults
  PROVE  /\ res = "Ok" => StatusOf(op, res) \in {200, 201, 204}
         /\ res = "DatabaseError" => StatusOf(op, res) = 500
         /\ res \notin {"Ok", "DatabaseError"} => StatusOf(op, res) \in {400, 404, 409}
<1>1. CASE res = "Ok"
  <2>1. StatusOf(op, res) = IF op \in ReadOps THEN 200
                            ELSE IF op \in {"create_mapping", "create_scope_mapping"} THEN 201
                            ELSE 204
    BY <1>1, ZenonT(60) DEF StatusOf
  <2> QED
    BY <1>1, <2>1
<1>2. CASE res = "NotFound"
  <2>1. StatusOf(op, res) = 404
    BY <1>2, ZenonT(60) DEF StatusOf
  <2> QED
    BY <1>2, <2>1
<1>3. CASE res = "Conflict"
  <2>1. StatusOf(op, res) = 409
    BY <1>3, ZenonT(60) DEF StatusOf
  <2> QED
    BY <1>3, <2>1
<1>4. CASE res = "DatabaseError"
  <2>1. StatusOf(op, res) = 500
    BY <1>4, ZenonT(60) DEF StatusOf
  <2> QED
    BY <1>4, <2>1
<1>5. CASE res \in {"PathMismatch", "ReservedClaim", "InvalidMapping"}
  <2>1. res # "Ok" /\ res # "NotFound" /\ res # "Conflict" /\ res # "DatabaseError"
    BY <1>5
  <2>2. StatusOf(op, res) = 400
    BY <1>5, <2>1, ZenonT(60) DEF StatusOf
  <2> QED
    BY <2>1, <2>2
<1> QED
  BY <1>1, <1>2, <1>3, <1>4, <1>5 DEF MResults, Results

LEMMA RoleOfMappings ==
  ASSUME NEW op \in MappingOps
  PROVE  required_role(op) = "mappings:write"
<1>1. op \notin ReadOps /\ op \notin ScopeOps
  BY DEF MappingOps, ReadOps, ScopeOps
<1> QED
  BY <1>1, Zenon DEF required_role

LEMMA RoleOfScopes ==
  ASSUME NEW op \in ScopeOps
  PROVE  required_role(op) = "scope:write"
<1>1. op \notin ReadOps /\ op \notin MappingOps
  BY DEF MappingOps, ReadOps, ScopeOps
<1> QED
  BY <1>1, Zenon DEF required_role

(* A handler changes only the table of its group of routes. *)
LEMMA HandlerKeepsToItsTable ==
  ASSUME NEW b \in Bodies, NEW res \in MResults, Handle(b, res)
  PROVE  /\ entries' # entries => b.op \in MappingOps
         /\ scope_mappings' # scope_mappings => b.op \in ScopeOps
<1> USE DEF Refuse, store
<1>1. CASE b.op = "create_mapping" /\ save(b.key, b.mapping, res)
  BY <1>1 DEF save, save_mapping, MappingOps
<1>2. CASE b.op = "update_mapping" /\ UpdateMapping(b, res)
  BY <1>2 DEF UpdateMapping, update, update_mapping, MappingOps
<1>3. CASE b.op = "delete_mapping" /\ remove_mapping(b.path, res)
  BY <1>3 DEF remove_mapping, MappingOps
<1>4. CASE b.op = "delete_client_mappings" /\ remove_mappings_for(b.path, res)
  BY <1>4 DEF remove_mappings_for, MappingOps
<1>5. CASE b.op = "create_scope_mapping" /\ save_scopes(b.batch, res)
  BY <1>5 DEF save_scopes, save_scope_mappings, ScopeOps
<1>6. CASE b.op = "update_scope_mapping" /\ UpdateScopeMapping(b, res)
  BY <1>6 DEF UpdateScopeMapping, update_scope, update_scope_mapping, ScopeOps
<1>7. CASE b.op = "delete_scope_mapping" /\ remove_scope_mapping(b.path, res)
  BY <1>7 DEF remove_scope_mapping, ScopeOps
<1>8. CASE b.op \in ReadOps /\ Refuse(res, "Ok")
  BY <1>8
<1> QED
  BY <1>1, <1>2, <1>3, <1>4, <1>5, <1>6, <1>7, <1>8 DEF Handle

-----------------------------------------------------------------------------
Statuses == {200, 201, 204, 400, 401, 403, 404, 409, 500}

(* The calls are functions of the right types. *)
CallsOK ==
  /\ stage \in [Calls -> Stages]
  /\ body \in [Calls -> Bodies \cup {None}]
  /\ actor \in [Calls -> Actors \cup {None}]
  /\ result \in [Calls -> MResults \cup {None}]
  /\ answer \in [Calls -> Statuses \cup {None}]
  /\ done \subseteq Calls

Permitted(c) == authorize(actor[c], required_role(body[c].op))

(* What is known of a call at each stage. *)
Known(c) ==
  /\ stage[c] \in {"authorize", "handle", "reply"} => body[c] \in Bodies
  /\ stage[c] \in {"handle", "reply"} => Permitted(c)
  /\ stage[c] \in {"idle", "authorize", "handle"} => c \notin done
  /\ stage[c] = "reply" => result[c] \in MResults /\ (c \in done <=> result[c] = "Ok")
  /\ stage[c] = "answered" => /\ answer[c] \in 200..299 => c \in done
                              /\ answer[c] \in 400..499 => c \notin done

KnownInv == \A c \in Calls : Known(c)

CallStep(c) ==
  \/ \E b \in Bodies : Receive(c, b)
  \/ Authorize(c)
  \/ \E res \in MResults : Execute(c, res)
  \/ Finish(c)
  \/ LoseReply(c)
  \/ HangUp(c)

(* A body of a call asks for one of the operations. *)
LEMMA BodyOps == \A b \in Bodies : b.op \in Ops
  BY ManagementAssumption DEF Ops, MappingOps, ScopeOps

LEMMA StatusKnown ==
  ASSUME NEW op \in Ops, NEW res \in MResults
  PROVE  StatusOf(op, res) \in Statuses
  BY StatusTells DEF Statuses

(* A status tells whether the handler returned Ok. *)
LEMMA StatusNotOk ==
  ASSUME NEW op \in Ops, NEW res \in MResults, res # "Ok"
  PROVE  StatusOf(op, res) \in {400, 404, 409, 500}
<1>1. CASE res = "DatabaseError"
  <2>1. StatusOf(op, res) = 500
    BY <1>1, StatusTells
  <2> QED
    BY <2>1
<1>2. CASE res # "DatabaseError"
  <2>1. StatusOf(op, res) \in {400, 404, 409}
    BY <1>2, StatusTells
  <2> QED
    BY <2>1
<1> QED
  BY <1>1, <1>2

LEMMA SuccessIsOk ==
  ASSUME NEW op \in Ops, NEW res \in MResults, StatusOf(op, res) \in 200..299
  PROVE  res = "Ok"
<1>1. StatusOf(op, res) \notin {400, 404, 409, 500}
  OBVIOUS
<1> QED
  BY <1>1, StatusNotOk

LEMMA CallsInit == MInit => CallsOK /\ KnownInv
  BY DEF MInit, CallsOK, KnownInv, Known, Stages

LEMMA CallsStep ==
  ASSUME CallsOK, KnownInv, NEW c \in Calls, CallStep(c)
  PROVE  CallsOK'
<1> USE DEF CallsOK, Stages, Move
<1>0. Known(c)
  BY DEF KnownInv
<1>1. ASSUME NEW b \in Bodies, Receive(c, b) PROVE CallsOK'
  BY <1>1 DEF Receive
<1>2. CASE Authorize(c)
  BY <1>2 DEF Authorize, Answer, Statuses
<1>3. ASSUME NEW res \in MResults, Execute(c, res) PROVE CallsOK'
  BY <1>3 DEF Execute
<1>4. CASE Finish(c)
  <2>1. StatusOf(body[c].op, result[c]) \in Statuses
    BY <1>0, <1>4, BodyOps, StatusKnown DEF Finish, Known
  <2> QED
    BY <1>4, <2>1 DEF Finish, Answer
<1>5. CASE LoseReply(c)
  <2>1. StatusOf(body[c].op, "DatabaseError") \in Statuses /\ "DatabaseError" \in MResults
    BY <1>0, <1>5, BodyOps, StatusKnown DEF LoseReply, Known, MResults
  <2> QED
    BY <1>5, <2>1 DEF LoseReply, Answer
<1>6. CASE HangUp(c)
  BY <1>6 DEF HangUp
<1> QED
  BY <1>1, <1>2, <1>3, <1>4, <1>5, <1>6 DEF CallStep

(* A step of a call leaves the other calls alone. *)
SameCall(d) ==
  /\ stage'[d] = stage[d] /\ body'[d] = body[d] /\ actor'[d] = actor[d]
  /\ result'[d] = result[d] /\ answer'[d] = answer[d]
  /\ d \in done' <=> d \in done

LEMMA OthersSame ==
  ASSUME CallsOK, NEW c \in Calls, CallStep(c), NEW d \in Calls, d # c
  PROVE  SameCall(d)
<1> USE DEF CallsOK, SameCall, Move, Answer
<1>1. ASSUME NEW b \in Bodies, Receive(c, b) PROVE SameCall(d)
  BY <1>1 DEF Receive
<1>2. CASE Authorize(c)
  BY <1>2 DEF Authorize
<1>3. ASSUME NEW res \in MResults, Execute(c, res) PROVE SameCall(d)
  BY <1>3 DEF Execute
<1>4. CASE Finish(c)
  BY <1>4 DEF Finish
<1>5. CASE LoseReply(c)
  BY <1>5 DEF LoseReply
<1>6. CASE HangUp(c)
  BY <1>6 DEF HangUp
<1> QED
  BY <1>1, <1>2, <1>3, <1>4, <1>5, <1>6 DEF CallStep

LEMMA OwnKnown ==
  ASSUME CallsOK, KnownInv, NEW c \in Calls, CallStep(c)
  PROVE  Known(c)'
<1> USE DEF CallsOK, Move
<1>0. Known(c)
  BY DEF KnownInv
<1>1. ASSUME NEW b \in Bodies, Receive(c, b) PROVE Known(c)'
  BY <1>0, <1>1 DEF Receive, Known
<1>2. CASE Authorize(c)
  <2>0. body[c] \in Bodies /\ c \notin done /\ body' = body /\ done' = done
    BY <1>0, <1>2 DEF Authorize, Known
  <2>1. CASE stage'[c] # "answered"
    <3>1. PICK a \in Actors : /\ authorize(a, required_role(body[c].op))
                              /\ actor' = [actor EXCEPT ![c] = a]
                              /\ stage' = [stage EXCEPT ![c] = "handle"]
      BY <1>2, <2>1 DEF Authorize, Answer
    <3>2. stage'[c] = "handle" /\ actor'[c] = a
      BY <3>1
    <3>3. Permitted(c)'
      BY <2>0, <3>1, <3>2 DEF Permitted, authorize, required_role
    <3> QED
      BY <2>0, <3>2, <3>3 DEF Known
  <2>2. CASE stage'[c] = "answered"
    <3>1. answer'[c] \in {401, 403}
      BY <1>2, <2>2 DEF Authorize, Answer
    <3> QED
      BY <2>0, <2>2, <3>1 DEF Known
  <2> QED
    BY <2>1, <2>2
<1>3. ASSUME NEW res \in MResults, Execute(c, res) PROVE Known(c)'
  <2>1. /\ stage'[c] = "reply" /\ result'[c] = res /\ body' = body /\ actor' = actor
        /\ c \in done' <=> res = "Ok"
    BY <1>0, <1>3 DEF Execute, Known
  <2>2. body[c] \in Bodies /\ Permitted(c)
    BY <1>0, <1>3 DEF Execute, Known
  <2>3. Permitted(c)'
    BY <2>1, <2>2 DEF Permitted, authorize
  <2> QED
    BY <2>1, <2>2, <2>3 DEF Known
<1>4. CASE Finish(c)
  <2>1. /\ stage'[c] = "answered" /\ answer'[c] = StatusOf(body[c].op, result[c]) /\ done' = done
    BY <1>4 DEF Finish, Answer
  <2>2. body[c].op \in Ops /\ result[c] \in MResults /\ (c \in done <=> result[c] = "Ok")
    BY <1>0, <1>4, BodyOps DEF Finish, Known
  <2>3. CASE result[c] = "Ok"
    BY <2>1, <2>2, <2>3, StatusTells DEF Known
  <2>4. CASE result[c] # "Ok"
    <3>1. StatusOf(body[c].op, result[c]) \in {400, 404, 409, 500}
      BY <2>2, <2>4, StatusNotOk
    <3>2. answer'[c] \notin 200..299
      BY <2>1, <3>1
    <3>3. c \notin done'
      BY <2>1, <2>2, <2>4, Zenon
    <3> QED
      BY <2>1, <3>2, <3>3, Zenon DEF Known
  <2> QED
    BY <2>3, <2>4
<1>5. CASE LoseReply(c)
  <2>1. body[c].op \in Ops /\ "DatabaseError" \in MResults
    BY <1>0, <1>5, BodyOps DEF LoseReply, Known, MResults
  <2>2. stage'[c] = "answered" /\ answer'[c] = 500
    BY <1>5, <2>1, StatusTells DEF LoseReply, Answer
  <2> QED
    BY <2>2 DEF Known
<1>6. CASE HangUp(c)
  BY <1>6 DEF HangUp, Known
<1> QED
  BY <1>1, <1>2, <1>3, <1>4, <1>5, <1>6 DEF CallStep

LEMMA KnownStep == CallsOK /\ KnownInv /\ [MNext]_mvars => CallsOK' /\ KnownInv'
<1> SUFFICES ASSUME CallsOK, KnownInv, [MNext]_mvars PROVE CallsOK' /\ KnownInv'
  OBVIOUS
<1>1. CASE UNCHANGED mvars
  <2>1. UNCHANGED <<stage, body, actor, result, answer, done>>
    BY <1>1 DEF mvars, callState
  <2>2. CallsOK'
    BY <2>1 DEF CallsOK
  <2>3. ASSUME NEW d \in Calls PROVE Known(d)'
    BY <2>1 DEF KnownInv, Known, Permitted, authorize
  <2> QED
    BY <2>2, <2>3 DEF KnownInv
<1>2. ASSUME NEW c \in Calls, CallStep(c) PROVE CallsOK' /\ KnownInv'
  <2>1. ASSUME NEW d \in Calls, d # c PROVE Known(d)'
    <3>1. SameCall(d) /\ Known(d)
      BY <1>2, <2>1, OthersSame DEF KnownInv
    <3> QED
      <4>1. Permitted(d)' <=> Permitted(d)
        BY <3>1 DEF SameCall, Permitted, authorize
      <4>2. CASE d \in done
        <5>1. d \in done'
          BY <3>1, <4>2, Zenon DEF SameCall
        <5> QED
          BY <3>1, <4>1, <4>2, <5>1 DEF SameCall, Known
      <4>3. CASE d \notin done
        <5>1. d \notin done'
          BY <3>1, <4>3, Zenon DEF SameCall
        <5> QED
          BY <3>1, <4>1, <4>3, <5>1 DEF SameCall, Known
      <4> QED
        BY <4>2, <4>3
  <2> QED
    BY <1>2, <2>1, CallsStep, OwnKnown DEF KnownInv
<1> QED
  BY <1>1, <1>2 DEF MNext, Process, CallStep

-----------------------------------------------------------------------------
(* What AuditSound says of one event. *)
SoundEvent(e) ==
  /\ e.call \in done
  /\ e.actor = actor[e.call]
  /\ e.op \in MappingOps => authorize(e.actor, "mappings:write")
  /\ e.op \in ScopeOps   => authorize(e.actor, "scope:write")

(* Only Authorize sets an actor, and only for a call that did nothing yet.   *)
LEMMA DoneKept ==
  ASSUME CallsOK, KnownInv, [MNext]_mvars, NEW d \in done
  PROVE  d \in done' /\ actor'[d] = actor[d] /\ body'[d] = body[d]
<1>1. CASE UNCHANGED mvars
  BY <1>1 DEF mvars, callState
<1>2. ASSUME NEW c \in Calls, CallStep(c)
      PROVE  d \in done' /\ actor'[d] = actor[d] /\ body'[d] = body[d]
  <2>1. d \in Calls
    BY DEF CallsOK
  <2>2. CASE d # c
    BY <1>2, <2>1, <2>2, OthersSame DEF SameCall
  <2>3. CASE d = c
    <3>1. stage[c] \notin {"idle", "authorize", "handle"}
      BY <2>3 DEF KnownInv, Known
    <3> QED
      BY <1>2, <2>3, <3>1 DEF CallStep, Receive, Authorize, Execute, Finish, LoseReply, HangUp
  <2> QED
    BY <2>2, <2>3
<1> QED
  BY <1>1, <1>2 DEF MNext, Process, CallStep

(* The events of a call whose handler finishes are sound. *)
LEMMA EventsSound ==
  ASSUME CallsOK, KnownInv, NEW c \in Calls, stage[c] = "reply", result[c] = "Ok", NEW e \in Events(c)
  PROVE  SoundEvent(e)
<1>1. c \in done /\ body[c] \in Bodies /\ Permitted(c)
  BY DEF KnownInv, Known
<1>2. e.call = c /\ e.actor = actor[c] /\ e.op = body[c].op
  BY DEF Events
<1>3. e.op \in MappingOps => authorize(e.actor, "mappings:write")
  BY <1>1, <1>2, RoleOfMappings DEF Permitted
<1>4. e.op \in ScopeOps => authorize(e.actor, "scope:write")
  BY <1>1, <1>2, RoleOfScopes DEF Permitted
<1> QED
  BY <1>1, <1>2, <1>3, <1>4 DEF SoundEvent

(* The audit trail grows only by the events of a call that took effect.      *)
LEMMA AuditGrowth ==
  ASSUME [MNext]_mvars, NEW e \in audit'
  PROVE  e \in audit \/ \E c \in Calls : stage[c] = "reply" /\ result[c] = "Ok" /\ e \in Events(c)
<1>1. CASE UNCHANGED mvars
  BY <1>1 DEF mvars
<1>2. ASSUME NEW c \in Calls, Finish(c)
      PROVE  e \in audit \/ (stage[c] = "reply" /\ result[c] = "Ok" /\ e \in Events(c))
  BY <1>2 DEF Finish
<1>3. ASSUME NEW c \in Calls, CallStep(c), ~Finish(c) PROVE audit' = audit
  BY <1>3 DEF CallStep, Receive, Authorize, Execute, LoseReply, HangUp
<1> QED
  BY <1>1, <1>2, <1>3 DEF MNext, Process, CallStep

LEMMA SoundStep == CallsOK /\ KnownInv /\ AuditSound /\ [MNext]_mvars => AuditSound'
<1> SUFFICES ASSUME CallsOK, KnownInv, AuditSound, [MNext]_mvars, NEW e \in audit'
             PROVE  /\ e.call \in done'
                    /\ e.actor = actor'[e.call]
                    /\ e.op \in MappingOps => authorize(e.actor, "mappings:write")
                    /\ e.op \in ScopeOps   => authorize(e.actor, "scope:write")
  BY DEF AuditSound, authorize
<1>1. SoundEvent(e)
  <2>1. CASE e \in audit
    BY <2>1 DEF AuditSound, SoundEvent
  <2>2. CASE \E c \in Calls : stage[c] = "reply" /\ result[c] = "Ok" /\ e \in Events(c)
    BY <2>2, EventsSound
  <2> QED
    BY <2>1, <2>2, AuditGrowth
<1> QED
  BY <1>1, DoneKept DEF SoundEvent

(* With the memory store, only Finish ends a call that took effect.          *)
LEMMA CompleteStep ==
  Backend = "memory" /\ CallsOK /\ KnownInv /\ AuditComplete /\ [MNext]_mvars => AuditComplete'
<1> SUFFICES ASSUME Backend = "memory", CallsOK, KnownInv, AuditComplete, [MNext]_mvars,
                    NEW d \in done', stage'[d] \in {"answered", "dropped"}
             PROVE  Events(d)' \subseteq audit'
  BY DEF AuditComplete
<1>1. CASE UNCHANGED mvars
  BY <1>1 DEF mvars, callState, AuditComplete, Events
<1>2. ASSUME NEW c \in Calls, CallStep(c) PROVE Events(d)' \subseteq audit'
  <2>1. audit \subseteq audit'
    BY <1>2 DEF CallStep, Receive, Authorize, Execute, Finish, LoseReply, HangUp
  <2>2. d \in Calls
    BY <1>2, CallsStep DEF CallsOK
  <2>3. CASE d # c
    <3>1. SameCall(d)
      BY <1>2, <2>2, <2>3, OthersSame
    <3>2. Events(d) \subseteq audit
      BY <3>1 DEF SameCall, AuditComplete
    <3>3. Events(d)' = Events(d)
      BY <3>1 DEF SameCall, Events
    <3> QED
      BY <2>1, <3>2, <3>3
  <2>4. CASE d = c
    <3>1. CASE Finish(c)
      <4>1. result[c] = "Ok"
        BY <2>4, <3>1 DEF Finish, KnownInv, Known
      <4>2. audit' = audit \cup Events(c) /\ UNCHANGED <<body, actor>>
        BY <3>1, <4>1 DEF Finish
      <4>3. Events(c)' = Events(c)
        BY <4>2 DEF Events
      <4> QED
        BY <2>4, <4>2, <4>3
    <3>2. CASE ~Finish(c)
      <4>1. c \notin done'
        <5>1. CASE HangUp(c)
          BY <5>1 DEF HangUp, KnownInv, Known
        <5>2. CASE LoseReply(c)
          BY <5>2 DEF LoseReply
        <5>3. CASE \E b \in Bodies : Receive(c, b)
          BY <5>3 DEF Receive, KnownInv, Known
        <5>4. CASE Authorize(c)
          BY <5>4 DEF Authorize, KnownInv, Known
        <5>5. ASSUME NEW res \in MResults, Execute(c, res) PROVE FALSE
          BY <2>4, <5>5 DEF Execute, Move, CallsOK
        <5> QED
          BY <1>2, <3>2, <5>1, <5>2, <5>3, <5>4, <5>5 DEF CallStep
      <4> QED
        BY <2>4, <4>1
    <3> QED
      BY <3>1, <3>2
  <2> QED
    BY <2>3, <2>4
<1> QED
  BY <1>1, <1>2 DEF MNext, Process, CallStep

(* A call gets a 2xx only from a Finish that also emits its events.          *)
LEMMA SuccessStep == CallsOK /\ KnownInv /\ SuccessAudited /\ [MNext]_mvars => SuccessAudited'
<1> SUFFICES ASSUME CallsOK, KnownInv, SuccessAudited, [MNext]_mvars,
                    NEW d \in Calls, stage'[d] = "answered", answer'[d] \in 200..299
             PROVE  Events(d)' \subseteq audit'
  BY DEF SuccessAudited
<1>1. CASE UNCHANGED mvars
  BY <1>1 DEF mvars, callState, SuccessAudited, Events
<1>2. ASSUME NEW c \in Calls, CallStep(c) PROVE Events(d)' \subseteq audit'
  <2>1. audit \subseteq audit'
    <3>1. CASE Finish(c)
      BY <3>1 DEF Finish
    <3>2. CASE ~Finish(c)
      BY <1>2, <3>2, Zenon DEF CallStep, Receive, Authorize, Execute, LoseReply, HangUp
    <3> QED
      BY <3>1, <3>2
  <2>2. CASE d # c
    <3>1. SameCall(d)
      BY <1>2, <2>2, OthersSame
    <3>2. Events(d) \subseteq audit
      BY <3>1 DEF SameCall, SuccessAudited
    <3>3. Events(d)' = Events(d)
      BY <3>1 DEF SameCall, Events
    <3> QED
      BY <2>1, <3>2, <3>3
  <2>3. CASE d = c
    <3>1. CASE Finish(c)
      <4>1. /\ answer'[c] = StatusOf(body[c].op, result[c])
            /\ body[c] \in Bodies /\ result[c] \in MResults
        <5>1. stage[c] = "reply" /\ answer' = [answer EXCEPT ![c] = StatusOf(body[c].op, result[c])]
          BY <3>1 DEF Finish, Answer
        <5>2. body[c] \in Bodies /\ result[c] \in MResults
          BY <5>1 DEF KnownInv, Known
        <5> QED
          BY <5>1, <5>2 DEF CallsOK
      <4>2. result[c] = "Ok"
        <5>1. body[c].op \in Ops /\ StatusOf(body[c].op, result[c]) \in 200..299
          BY <2>3, <4>1, BodyOps
        <5> QED
          BY <4>1, <5>1, SuccessIsOk
      <4>3. audit' = audit \cup Events(c) /\ UNCHANGED <<body, actor>>
        BY <3>1, <4>2 DEF Finish
      <4>4. Events(c)' = Events(c)
        BY <4>3 DEF Events
      <4> QED
        BY <2>3, <4>3, <4>4
    <3>2. CASE LoseReply(c)
      <4>1. body[c].op \in Ops /\ "DatabaseError" \in MResults
        BY <3>2, BodyOps DEF LoseReply, KnownInv, Known, MResults
      <4>2. answer'[c] = 500
        <5>1. StatusOf(body[c].op, "DatabaseError") = 500
          BY <4>1, StatusTells, SMTT(30)
        <5> QED
          BY <3>2, <5>1 DEF LoseReply, Answer, CallsOK
      <4> QED
        BY <2>3, <4>2
    <3>3. CASE Authorize(c)
      <4>1. answer'[c] \in {401, 403}
        BY <2>3, <3>3 DEF Authorize, Answer, Move, CallsOK
      <4> QED
        BY <2>3, <4>1
    <3>4. ASSUME \/ \E b \in Bodies : Receive(c, b)
                 \/ \E res \in MResults : Execute(c, res)
                 \/ HangUp(c)
          PROVE  FALSE
      BY <2>3, <3>4 DEF Receive, Execute, HangUp, Move, CallsOK
    <3> QED
      BY <1>2, <3>1, <3>2, <3>3, <3>4 DEF CallStep
  <2> QED
    BY <2>2, <2>3
<1> QED
  BY <1>1, <1>2 DEF MNext, Process, CallStep

-----------------------------------------------------------------------------
(* Only the handler of a call changes a table. *)
LEMMA StoreChange ==
  ASSUME CallsOK, KnownInv, [MNext]_mvars, store' # store
  PROVE  \E c \in Calls :
           /\ stage[c] = "handle" /\ stage'[c] = "reply" /\ Permitted(c) /\ body[c] \in Bodies
           /\ entries' # entries => body[c].op \in MappingOps
           /\ scope_mappings' # scope_mappings => body[c].op \in ScopeOps
<1>1. CASE UNCHANGED mvars
  BY <1>1 DEF mvars, store
<1>2. ASSUME NEW c \in Calls, CallStep(c), store' # store
      PROVE  /\ stage[c] = "handle" /\ stage'[c] = "reply" /\ Permitted(c) /\ body[c] \in Bodies
             /\ entries' # entries => body[c].op \in MappingOps
             /\ scope_mappings' # scope_mappings => body[c].op \in ScopeOps
  <2>1. PICK res \in MResults : Execute(c, res)
    BY <1>2 DEF CallStep, Receive, Authorize, Finish, LoseReply, HangUp
  <2>2. stage[c] = "handle" /\ stage'[c] = "reply"
    BY <2>1 DEF Execute, Move, CallsOK
  <2>3. Permitted(c) /\ body[c] \in Bodies
    BY <2>2 DEF KnownInv, Known
  <2>4. Handle(body[c], res)
    BY <1>2, <2>1 DEF Execute, Refuse
  <2> QED
    BY <2>2, <2>3, <2>4, HandlerKeepsToItsTable
<1> QED
  BY <1>1, <1>2 DEF MNext, Process, CallStep

-----------------------------------------------------------------------------
(* What the handler of a route does to the store is a call of the service,   *)
(* or nothing when the path does not match or the route only reads.          *)
LEMMA HandlerCallsService ==
  ASSUME NEW b \in Bodies, NEW res \in MResults, Handle(b, res)
  PROVE  ServiceNext \/ UNCHANGED store
<1>1. CASE b.op = "create_mapping" /\ save(b.key, b.mapping, res)
  <2>1. b.key \in Keys /\ b.mapping \in Mappings
    BY <1>1, ManagementAssumption DEF ReadOps
  <2>2. res \in Results
    BY <1>1 DEF save, save_mapping, Refuse, Results
  <2> QED
    BY <1>1, <2>1, <2>2 DEF ServiceNext, Create
<1>2. CASE b.op = "update_mapping" /\ UpdateMapping(b, res)
  <2>1. b.key \in Keys /\ b.mapping \in Mappings
    BY <1>2, ManagementAssumption DEF ReadOps
  <2>2. CASE b.path # b.key
    BY <1>2, <2>2 DEF UpdateMapping, Refuse
  <2>3. CASE b.path = b.key
    <3>1. update(b.key, b.mapping, res)
      BY <1>2, <2>3 DEF UpdateMapping
    <3>2. res \in Results
      BY <3>1 DEF update, update_mapping, Refuse, Results
    <3> QED
      BY <2>1, <3>1, <3>2 DEF ServiceNext, Update
  <2> QED
    BY <2>2, <2>3
<1>3. CASE b.op = "delete_mapping" /\ remove_mapping(b.path, res)
  <2>1. b.path \in Keys
    BY <1>3, ManagementAssumption DEF ReadOps
  <2>2. res \in Results
    BY <1>3 DEF remove_mapping, Results
  <2> QED
    BY <1>3, <2>1, <2>2 DEF ServiceNext, Remove
<1>4. CASE b.op = "delete_client_mappings" /\ remove_mappings_for(b.path, res)
  <2>1. b.path \in Clients
    BY <1>4, ManagementAssumption DEF ReadOps
  <2>2. res \in Results
    BY <1>4 DEF remove_mappings_for, Results
  <2> QED
    BY <1>4, <2>1, <2>2 DEF ServiceNext, Remove
<1>5. CASE b.op = "create_scope_mapping" /\ save_scopes(b.batch, res)
  <2>1. b.batch \in Batches
    BY <1>5, ManagementAssumption DEF ReadOps
  <2>2. res \in Results
    BY <1>5 DEF save_scopes, save_scope_mappings, validate_scope_mapping, Refuse, Results
  <2> QED
    BY <1>5, <2>1, <2>2 DEF ServiceNext, Create
<1>6. CASE b.op = "update_scope_mapping" /\ UpdateScopeMapping(b, res)
  <2>1. b.row \in ScopeRows
    BY <1>6, ManagementAssumption DEF ReadOps
  <2>2. CASE b.path # b.row.scope
    BY <1>6, <2>2 DEF UpdateScopeMapping, Refuse
  <2>3. CASE b.path = b.row.scope
    <3>1. update_scope(b.row, res)
      BY <1>6, <2>3 DEF UpdateScopeMapping
    <3>2. res \in Results
      BY <3>1 DEF update_scope, update_scope_mapping, validate_scope_mapping, Refuse, Results
    <3> QED
      BY <2>1, <3>1, <3>2 DEF ServiceNext, Update
  <2> QED
    BY <2>2, <2>3
<1>7. CASE b.op = "delete_scope_mapping" /\ remove_scope_mapping(b.path, res)
  <2>1. b.path \in Scopes
    BY <1>7, ManagementAssumption DEF ReadOps
  <2>2. res \in Results
    BY <1>7 DEF remove_scope_mapping, Results
  <2> QED
    BY <1>7, <2>1, <2>2 DEF ServiceNext, Remove
<1>8. CASE b.op \in ReadOps /\ Refuse(res, "Ok")
  BY <1>8 DEF Refuse
<1> QED
  BY <1>1, <1>2, <1>3, <1>4, <1>5, <1>6, <1>7, <1>8 DEF Handle

(* A step of the management API is a call of the service or leaves the store *)
(* alone.                                                                    *)
LEMMA ServiceStep ==
  ASSUME CallsOK, KnownInv, [MNext]_mvars
  PROVE  [ServiceNext]_store
<1>1. CASE UNCHANGED mvars
  BY <1>1 DEF mvars, store
<1>2. ASSUME NEW c \in Calls, NEW res \in MResults, Execute(c, res)
      PROVE  [ServiceNext]_store
  <2>1. body[c] \in Bodies
    BY <1>2 DEF Execute, KnownInv, Known
  <2>2. CASE Handle(body[c], res)
    BY <2>1, <2>2, HandlerCallsService
  <2>3. CASE Refuse(res, "DatabaseError")
    BY <2>3 DEF Refuse
  <2> QED
    BY <1>2, <2>2, <2>3 DEF Execute
<1>3. ASSUME NEW c \in Calls, CallStep(c), \A res \in MResults : ~Execute(c, res)
      PROVE  UNCHANGED store
  BY <1>3 DEF CallStep, Receive, Authorize, Finish, LoseReply, HangUp
<1> QED
  BY <1>1, <1>2, <1>3 DEF MNext, Process, CallStep

-----------------------------------------------------------------------------
(* The rows that the handler of a call may change. *)
Named(b, key) ==
  \/ b.op = "create_mapping" /\ key = b.key
  \/ b.op \in {"update_mapping", "delete_mapping"} /\ key = b.path
  \/ b.op = "delete_client_mappings" /\ key[1] = b.path

LEMMA HandlerChangesNamed ==
  ASSUME StoreTypeOK, NEW b \in Bodies, NEW res \in MResults, Handle(b, res),
         NEW key \in Keys, entries'[key] # entries[key]
  PROVE  Named(b, key)
<1> USE DEF StoreTypeOK, Named
<1>0. entries' # entries
  OBVIOUS
<1>1. CASE b.op = "create_mapping" /\ save(b.key, b.mapping, res)
  BY <1>1 DEF save, save_mapping, Refuse, store
<1>2. CASE b.op = "update_mapping" /\ UpdateMapping(b, res)
  BY <1>2 DEF UpdateMapping, update, update_mapping, Refuse, store
<1>3. CASE b.op = "delete_mapping" /\ remove_mapping(b.path, res)
  BY <1>3 DEF remove_mapping
<1>4. CASE b.op = "delete_client_mappings" /\ remove_mappings_for(b.path, res)
  BY <1>4 DEF remove_mappings_for
<1>5. b.op \in MappingOps
  BY <1>0, HandlerKeepsToItsTable
<1> QED
  BY <1>1, <1>2, <1>3, <1>4, <1>5 DEF Handle, MappingOps, ReadOps

-----------------------------------------------------------------------------
LEMMA MInvariant == MSpec => [](CallsOK /\ KnownInv)
  BY CallsInit, KnownStep, PTL DEF MSpec

(* Every audit event is about a call that took effect, with the subject that *)
(* authorize_with_role let in and whose role covers the operation, however   *)
(* the calls interleave.                                                     *)
THEOREM AuditAlwaysSound == MSpec => []AuditSound
<1>1. MInit => AuditSound
  BY DEF MInit, AuditSound
<1> QED
  BY <1>1, MInvariant, SoundStep, PTL DEF MSpec

(* With the memory store a mutation is never without its audit events once   *)
(* its handler is over, one event for each row of a batch.                   *)
THEOREM AuditAlwaysComplete == Backend = "memory" => (MSpec => []AuditComplete)
<1> SUFFICES ASSUME Backend = "memory" PROVE MSpec => []AuditComplete
  OBVIOUS
<1>1. MInit => AuditComplete
  BY DEF MInit, AuditComplete
<1>2. CallsOK /\ KnownInv /\ AuditComplete /\ [MNext]_mvars => AuditComplete'
  BY CompleteStep
<1> QED
  BY <1>1, <1>2, MInvariant, PTL DEF MSpec

(* With either store, and whatever replies get lost, a caller that is told   *)
(* of success finds all the events of its call in the audit trail.           *)
THEOREM SuccessAlwaysAudited == MSpec => []SuccessAudited
<1>1. MInit => SuccessAudited
  BY DEF MInit, SuccessAudited
<1> QED
  BY <1>1, MInvariant, SuccessStep, PTL DEF MSpec

(* A 2xx is given only to a call that took effect, a 4xx only to one that    *)
(* did not, also when replies of the database get lost (into_response).      *)
THEOREM AnswersAlwaysHonest == MSpec => []AnswerHonest
<1>1. KnownInv => AnswerHonest
  BY DEF KnownInv, Known, AnswerHonest
<1> QED
  BY <1>1, MInvariant, PTL

(* A step that changes a table is the handler of a call whose subject holds  *)
(* the role for that table (the route groups of management_routes).          *)
THEOREM RolesAlwaysSeparated == MSpec => RolesSeparated
<1>1. CallsOK /\ KnownInv /\ [MNext]_mvars =>
        [/\ entries' # entries => \E c \in Calls :
              stage[c] = "handle" /\ stage'[c] = "reply" /\ authorize(actor[c], "mappings:write")
         /\ scope_mappings' # scope_mappings => \E c \in Calls :
              stage[c] = "handle" /\ stage'[c] = "reply" /\ authorize(actor[c], "scope:write")]_mvars
  <2> SUFFICES ASSUME CallsOK, KnownInv, [MNext]_mvars
               PROVE  /\ entries' # entries => \E c \in Calls :
                           stage[c] = "handle" /\ stage'[c] = "reply" /\ authorize(actor[c], "mappings:write")
                      /\ scope_mappings' # scope_mappings => \E c \in Calls :
                           stage[c] = "handle" /\ stage'[c] = "reply" /\ authorize(actor[c], "scope:write")
    OBVIOUS
  <2>1. CASE store' = store
    BY <2>1 DEF store
  <2>2. CASE store' # store
    <3>1. PICK c \in Calls :
            /\ stage[c] = "handle" /\ stage'[c] = "reply" /\ Permitted(c) /\ body[c] \in Bodies
            /\ entries' # entries => body[c].op \in MappingOps
            /\ scope_mappings' # scope_mappings => body[c].op \in ScopeOps
      BY <2>2, StoreChange
    <3> QED
      BY <3>1, RoleOfMappings, RoleOfScopes DEF Permitted
  <2> QED
    BY <2>1, <2>2
<1> QED
  BY <1>1, MInvariant, PTL DEF MSpec, RolesSeparated

(* The management API writes through the service: for every interleaving of  *)
(* calls, lost replies and callers that hang up, the store goes through a    *)
(* behaviour of ResourceService, and a call that fails or is dropped leaves  *)
(* nothing half written.                                                     *)
THEOREM ManagementUsesService == MSpec => WritesThroughService
<1>1. MInit => StoreInit
  BY DEF MInit
<1>2. CallsOK /\ KnownInv /\ [MNext]_mvars => [ServiceNext]_store
  BY ServiceStep
<1> QED
  BY <1>1, <1>2, MInvariant, PTL DEF MSpec, ServiceSpec, WritesThroughService

(* Behind the management API the store holds validated rows only, whoever    *)
(* calls it and whatever they send.                                          *)
THEOREM ManagementKeepsPolicyValid == MSpec => []PolicyValid
  BY ManagementUsesService, PolicyAlwaysValid, PTL DEF WritesThroughService

(* Store and calls have their types, the statuses of into_response and of    *)
(* authorize_with_role included.                                             *)
THEOREM ManagementTypeCorrect == MSpec => []MTypeOK
<1>1. StoreTypeOK /\ CallsOK => MTypeOK
  BY DEF CallsOK, MTypeOK, Statuses
<1> QED
  BY <1>1, MInvariant, ManagementUsesService, StoreTypeCorrect, PTL DEF WritesThroughService

(* The handler of a call changes no resource mapping that the call does not  *)
(* name, also when the path and the body of an update disagree.              *)
THEOREM PathsAlwaysNameRows == MSpec => PathNamesRows
<1>1. StoreTypeOK /\ CallsOK /\ KnownInv /\ [MNext]_mvars =>
        [\A c \in Calls, key \in Keys :
           stage[c] = "handle" /\ stage'[c] = "reply" /\ entries'[key] # entries[key] =>
             \/ body[c].op = "create_mapping" /\ key = body[c].key
             \/ body[c].op \in {"update_mapping", "delete_mapping"} /\ key = body[c].path
             \/ body[c].op = "delete_client_mappings" /\ key[1] = body[c].path]_mvars
  <2> SUFFICES ASSUME StoreTypeOK, CallsOK, KnownInv, MNext, NEW c \in Calls, NEW key \in Keys,
                      stage[c] = "handle", stage'[c] = "reply", entries'[key] # entries[key]
               PROVE  Named(body[c], key)
    BY DEF Named
  <2>1. PICK d \in Calls : CallStep(d)
    BY DEF MNext, Process, CallStep
  <2>2. d = c
    BY <2>1, OthersSame DEF SameCall
  <2>3. PICK res \in MResults : Execute(c, res)
    BY <2>1, <2>2 DEF CallStep, Receive, Authorize, Finish, LoseReply, HangUp, Move, Answer, CallsOK
  <2>4. body[c] \in Bodies
    BY DEF KnownInv, Known
  <2>5. Handle(body[c], res)
    BY <2>3 DEF Execute, Refuse, store
  <2> QED
    BY <2>4, <2>5, HandlerChangesNamed
<1> QED
  BY <1>1, MInvariant, ManagementUsesService, StoreTypeCorrect, PTL DEF MSpec, PathNamesRows, WritesThroughService
=============================================================================
