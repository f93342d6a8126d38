----------------------------- MODULE Management -----------------------------
(***************************************************************************)
(* The management API (jwtlet-server management/mod.rs): calls go through  *)
(* authorize_with_role, their handler and the store, and leave an audit    *)
(* event.  Calls of several actors interleave at every await.              *)
(*                                                                         *)
(* The store has changed when its operation returns, and the audit event   *)
(* is emitted after that.  With the memory store nothing can stop a        *)
(* handler between the two.  With Postgres the reply of the database can   *)
(* get lost, and a caller that hangs up drops its handler.                 *)
(***************************************************************************)
EXTENDS ResourceService

CONSTANTS
  Calls,      \* calls of the management API
  Bodies,     \* what calls ask for
  Actors,     \* subjects of the tokens of the callers
  accounts,   \* MemoryServiceAccountStore: the roles of the service accounts
  Backend     \* StorageBackend of the configuration

Roles == {"management:read", "mappings:write", "scope:write"}

MappingOps == {"create_mapping", "update_mapping", "delete_mapping", "delete_client_mappings"}

ScopeOps == {"create_scope_mapping", "update_scope_mapping", "delete_scope_mapping"}

ReadOps == {"list_mappings", "list_scope_mappings"}

\* A call carries what its route extracts: Path and Json.
ASSUME ManagementAssumption ==
  /\ \A b \in Bodies :
       \/ b.op = "create_mapping" /\ b.key \in Keys /\ b.mapping \in Mappings
       \/ b.op = "update_mapping" /\ b.path \in Keys /\ b.key \in Keys /\ b.mapping \in Mappings
       \/ b.op = "delete_mapping" /\ b.path \in Keys
       \/ b.op = "delete_client_mappings" /\ b.path \in Clients
       \/ b.op = "create_scope_mapping" /\ b.batch \in Batches
       \/ b.op = "update_scope_mapping" /\ b.path \in Scopes /\ b.row \in ScopeRows
       \/ b.op = "delete_scope_mapping" /\ b.path \in Scopes
       \/ b.op \in ReadOps
  /\ DOMAIN accounts \subseteq Actors
  /\ \A a \in DOMAIN accounts : accounts[a] \subseteq Roles
  /\ Backend \in {"memory", "postgres"}
  /\ None \notin Bodies /\ None \notin Actors

VARIABLES
  stage,    \* where a call is
  body,     \* what a call asks for
  actor,    \* Actor: the subject of the caller's token
  result,   \* what the service returned for a call
  answer,   \* HTTP status of a call
  audit,    \* the audit events emitted so far
  done      \* the calls whose operation took effect in the store

callState == <<stage, body, actor, result, answer>>

mvars == <<entries, scope_mappings, callState, audit, done>>

MInit ==
  /\ StoreInit
  /\ stage = [c \in Calls |-> "idle"]
  /\ body = [c \in Calls |-> None]
  /\ actor = [c \in Calls |-> None]
  /\ result = [c \in Calls |-> None]
  /\ answer = [c \in Calls |-> None]
  /\ audit = {}
  /\ done = {}

-----------------------------------------------------------------------------
\* Mutant: the routes for scopes are in the group of the mappings.
MisroutedRole(op) ==
  IF op \in ReadOps THEN "management:read" ELSE "mappings:write"

\* management_routes: the role of the group a route is in.
required_role(op) ==
  CASE op \in ReadOps    -> "management:read"
    [] op \in MappingOps -> "mappings:write"
    [] op \in ScopeOps   -> "scope:write"

\* MemoryServiceAccountStore::authorize.
authorize(a, role) == a \in DOMAIN accounts /\ role \in accounts[a]

\* Mutant: an update writes the mapping of its body wherever the path points.
UpdateUnchecked(b, res) == update(b.key, b.mapping, res)

\* update_mapping: the path must name the mapping of the body.
UpdateMapping(b, res) ==
  IF b.path # b.key THEN Refuse(res, "PathMismatch") ELSE update(b.key, b.mapping, res)

\* Mutant: an update of a scope goes past the service, straight to the store.
UpdateScopeUnvalidated(b, res) ==
  IF b.path # b.row.scope THEN Refuse(res, "PathMismatch") ELSE update_scope_mapping(b.row, res)

UpdateScopeMapping(b, res) ==
  IF b.path # b.row.scope THEN Refuse(res, "PathMismatch") ELSE update_scope(b.row, res)

\* The handler of a route up to the return of the service.
Handle(b, res) ==
  \/ b.op = "create_mapping"         /\ save(b.key, b.mapping, res)
  \/ b.op = "update_mapping"         /\ UpdateMapping(b, res)
  \/ b.op = "delete_mapping"         /\ remove_mapping(b.path, res)
  \/ b.op = "delete_client_mappings" /\ remove_mappings_for(b.path, res)
  \/ b.op = "create_scope_mapping"   /\ save_scopes(b.batch, res)
  \/ b.op = "update_scope_mapping"   /\ UpdateScopeMapping(b, res)
  \/ b.op = "delete_scope_mapping"   /\ remove_scope_mapping(b.path, res)
  \/ b.op \in ReadOps                /\ Refuse(res, "Ok")

\* A call that no check refuses before it gets to the store.
ReachesStore(b) ==
  CASE b.op = "create_mapping"       -> validate_resource_mapping(b.key, b.mapping)
    [] b.op = "update_mapping"       -> b.path = b.key /\ validate_resource_mapping(b.key, b.mapping)
    [] b.op = "create_scope_mapping" ->
         \A i \in DOMAIN b.batch : validate_scope_mapping(b.batch[i]) = "Ok"
    [] b.op = "update_scope_mapping" ->
         b.path = b.row.scope /\ validate_scope_mapping(b.row) = "Ok"
    [] OTHER                         -> TRUE

\* Results that only the store returns.
StoreResults == {"Ok", "Conflict", "NotFound"}

\* What a call changes: the fields of its audit events.
Targets(b) ==
  CASE b.op \in {"create_mapping", "update_mapping"} -> {b.key}
    [] b.op = "delete_mapping"         -> {b.path}
    [] b.op = "delete_client_mappings" -> {<<b.path>>}
    [] b.op = "create_scope_mapping"   -> {<<b.batch[i].scope>> : i \in DOMAIN b.batch}
    [] b.op = "update_scope_mapping"   -> {<<b.row.scope>>}
    [] b.op = "delete_scope_mapping"   -> {<<b.path>>}
    [] b.op \in ReadOps                -> {}

Events(c) == {[call |-> c, actor |-> actor[c], op |-> body[c].op, target |-> t] :
                t \in Targets(body[c])}

\* Mutant: an insert that fails is taken for a conflict.
ConflictOrOk(op, res) ==
  CASE res = "Ok" -> IF op \in ReadOps THEN 200 ELSE 201
    [] res = "NotFound"                       -> 404
    [] res \in {"Conflict", "DatabaseError"} -> 409
    [] OTHER                                  -> 400

\* The answer to a call: ManagementApiError::into_response, and the handlers.
StatusOf(op, res) ==
  CASE res = "Ok" -> (IF op \in ReadOps THEN 200
                      ELSE IF op \in {"create_mapping", "create_scope_mapping"} THEN 201
                      ELSE 204)
    [] res = "NotFound"      -> 404
    [] res = "Conflict"      -> 409
    [] res = "DatabaseError" -> 500
    [] res \in {"PathMismatch", "ReservedClaim", "InvalidMapping"} -> 400

-----------------------------------------------------------------------------
(* The steps of a call. *)

Move(c, s) == stage' = [stage EXCEPT ![c] = s]

Answer(c, status) == Move(c, "answered") /\ answer' = [answer EXCEPT ![c] = status]

Receive(c, b) ==
  /\ stage[c] = "idle"
  /\ Move(c, "authorize")
  /\ body' = [body EXCEPT ![c] = b]
  /\ UNCHANGED <<store, actor, result, answer, audit, done>>

\* authorize_with_role: no token or one that does not verify; a subject
\* without the role; or on to the handler.
Authorize(c) ==
  /\ stage[c] = "authorize"
  /\ \/ /\ Answer(c, 401)
        /\ UNCHANGED actor
     \/ \E a \in Actors :
          /\ ~authorize(a, required_role(body[c].op))
          /\ Answer(c, 403)
          /\ UNCHANGED actor
     \/ \E a \in Actors :
          /\ authorize(a, required_role(body[c].op))
          /\ Move(c, "handle")
          /\ actor' = [actor EXCEPT ![c] = a]
          /\ UNCHANGED answer
  /\ UNCHANGED <<store, body, result, audit, done>>

\* The service runs the operation ...
Execute(c, res) ==
  /\ stage[c] = "handle"
  /\ \/ Handle(body[c], res)
     \/ Backend = "postgres" /\ ReachesStore(body[c]) /\ Refuse(res, "DatabaseError")
  /\ Move(c, "reply")
  /\ result' = [result EXCEPT ![c] = res]
  /\ done' = IF res = "Ok" THEN done \cup {c} ELSE done
  /\ UNCHANGED <<body, actor, answer, audit>>

\* Mutant: the event is emitted whatever the service returned.
FinishLoudly(c) ==
  /\ stage[c] = "reply"
  /\ Answer(c, StatusOf(body[c].op, result[c]))
  /\ audit' = audit \cup Events(c)
  /\ UNCHANGED <<store, body, actor, result, done>>

\* Mutant: a deletion is answered without an event.
FinishQuietly(c) ==
  /\ stage[c] = "reply"
  /\ Answer(c, StatusOf(body[c].op, result[c]))
  /\ audit' = IF result[c] = "Ok" /\ body[c].op # "delete_client_mappings"
              THEN audit \cup Events(c) ELSE audit
  /\ UNCHANGED <<store, body, actor, result, done>>

\* Mutant: a handler whose operation failed in the database starts over.
FinishOrRetry(c) ==
  /\ stage[c] = "reply"
  /\ IF result[c] = "DatabaseError" THEN Move(c, "handle") /\ UNCHANGED answer
     ELSE Answer(c, StatusOf(body[c].op, result[c]))
  /\ audit' = IF result[c] = "Ok" THEN audit \cup Events(c) ELSE audit
  /\ UNCHANGED <<store, body, actor, result, done>>

\* ... and the handler emits the events and answers.
Finish(c) ==
  /\ stage[c] = "reply"
  /\ Answer(c, StatusOf(body[c].op, result[c]))
  /\ audit' = IF result[c] = "Ok" THEN audit \cup Events(c) ELSE audit
  /\ UNCHANGED <<store, body, actor, result, done>>

\* The connection breaks after the database did its work: db_error.
LoseReply(c) ==
  /\ Backend = "postgres"
  /\ stage[c] = "reply" /\ result[c] \in StoreResults
  /\ result' = [result EXCEPT ![c] = "DatabaseError"]
  /\ Answer(c, StatusOf(body[c].op, "DatabaseError"))
  /\ UNCHANGED <<store, body, actor, audit, done>>

\* The caller hangs up and the handler is dropped where it awaits.
HangUp(c) ==
  /\ \/ stage[c] \in {"authorize", "handle"}
     \/ stage[c] = "reply" /\ Backend = "postgres" /\ result[c] \in StoreResults
  /\ Move(c, "dropped")
  /\ UNCHANGED <<store, body, actor, result, answer, audit, done>>

MResults == Results \cup {"PathMismatch", "DatabaseError"}

Process(c) == Authorize(c) \/ (\E res \in MResults : Execute(c, res)) \/ Finish(c)

MNext ==
  \E c \in Calls : \/ \E b \in Bodies : Receive(c, b)
                   \/ Process(c)
                   \/ LoseReply(c)
                   \/ HangUp(c)

MSpec == MInit /\ [][MNext]_mvars

\* The runtime polls the handlers, and the API server and the database answer
\* or fail.
MFairSpec == MSpec /\ \A c \in Calls : WF_mvars(Process(c))

-----------------------------------------------------------------------------
(* Properties. *)

Stages == {"idle", "authorize", "handle", "reply", "answered", "dropped"}

(* The shape of the state of the management API. *)
MTypeOK ==
  /\ StoreTypeOK
  /\ stage \in [Calls -> Stages]
  /\ body \in [Calls -> Bodies \cup {None}]
  /\ actor \in [Calls -> Actors \cup {None}]
  /\ result \in [Calls -> MResults \cup {None}]
  /\ answer \in [Calls -> {200, 201, 204, 400, 401, 403, 404, 409, 500, None}]
  /\ done \subseteq Calls

(* Every audit event is about a call that took effect, names the subject   *)
(* that was authenticated for it, and that subject holds the role of the   *)
(* resource the event is about (the handlers emit it after the service     *)
(* returned Ok, with the Actor that authorize_with_role inserted).         *)
AuditSound ==
  \A e \in audit :
    /\ e.call \in done
    /\ e.actor = actor[e.call]
    /\ e.op \in MappingOps => authorize(e.actor, "mappings:write")
    /\ e.op \in ScopeOps   => authorize(e.actor, "scope:write")

(* docs/security-architecture.md, Audit Logging: every mutation emits an   *)
(* event.  Once a call that took effect is over, its events are there, one *)
(* for every target, each row of a batch included.                         *)
AuditComplete ==
  \A c \in done : stage[c] \in {"answered", "dropped"} => Events(c) \subseteq audit

(* What the audit trail keeps of that promise with either store: a call    *)
(* that was answered with 2xx has all its events.  An event can only be    *)
(* missing for a caller that got no answer or a 500 (the handlers emit     *)
(* before they answer, and answer 2xx only after the service's Ok).        *)
SuccessAudited ==
  \A c \in Calls : stage[c] = "answered" /\ answer[c] \in 200..299 => Events(c) \subseteq audit

(* An answer can be relied on: with 2xx the operation took effect, with    *)
(* 4xx it did not, whatever other calls did to the same rows meanwhile.    *)
(* Only a 500 leaves it open (into_response of ManagementApiError).        *)
AnswerHonest ==
  \A c \in Calls : stage[c] = "answered" =>
    /\ answer[c] \in 200..299 => c \in done
    /\ answer[c] \in 400..499 => c \notin done

(* What a client may do and what a scope means are changed by different    *)
(* roles: a step changes entries only in a call of a subject with          *)
(* mappings:write, and scope_mappings only in one of a subject with        *)
(* scope:write (the route groups of management_routes).                    *)
RolesSeparated ==
  [][/\ entries' # entries => \E c \in Calls :
          stage[c] = "handle" /\ stage'[c] = "reply" /\ authorize(actor[c], "mappings:write")
     /\ scope_mappings' # scope_mappings => \E c \in Calls :
          stage[c] = "handle" /\ stage'[c] = "reply" /\ authorize(actor[c], "scope:write")]_mvars

(* A call changes no resource mapping but the ones its path names          *)
(* (update_mapping compares the path with the body).                       *)
PathNamesRows ==
  [][\A c \in Calls, key \in Keys :
       stage[c] = "handle" /\ stage'[c] = "reply" /\ entries'[key] # entries[key] =>
         \/ body[c].op = "create_mapping" /\ key = body[c].key
         \/ body[c].op \in {"update_mapping", "delete_mapping"} /\ key = body[c].path
         \/ body[c].op = "delete_client_mappings" /\ key[1] = body[c].path]_mvars

(* The handlers write through ResourceService only: whatever calls          *)
(* interleave, get lost or are dropped, the store goes through a behaviour *)
(* of the service, each write of it validated, whole and in one step.      *)
WritesThroughService == ServiceSpec

(* Every call that arrives is answered unless its caller hangs up.         *)
EveryCallAnswered ==
  \A c \in Calls : stage[c] = "authorize" ~> stage[c] \in {"answered", "dropped"}
=============================================================================
