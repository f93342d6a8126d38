---------------------------- MODULE TokenExchange ----------------------------
(***************************************************************************)
(* The token endpoint: requests run through token_exchange and             *)
(* exchange_token (jwtlet-server exchange/mod.rs, jwtlet-core              *)
(* token/mod.rs) while the management API changes the policy.  Each await  *)
(* of a request is a point where other requests and writes get in between. *)
(*                                                                         *)
(* With the memory backend resolve_mapping reads the mapping and the       *)
(* claims of its scopes under one lock.  With Postgres it runs two         *)
(* queries, each on its own connection and in its own transaction.         *)
(***************************************************************************)
EXTENDS ResourceService

CONSTANTS
  Requests,        \* requests to the token endpoint
  Forms,           \* the forms that requests carry
  Backend,         \* StorageBackend of the configuration
  ExternalClaims,  \* claims written to the database by other means
  Ttl,             \* token_ttl_secs
  MaxWrites,       \* bound on the changes of the policy
  MaxClock         \* bound on the time

Form == [kind : {"exchange", "other_grant_type", "other_token_type"},
         resource : Contexts, scope : Seq(Scopes), audience : Audiences \cup {None}]

ASSUME ExchangeAssumption ==
  /\ Forms \subseteq Form
  /\ Backend \in {"memory", "postgres"}
  /\ ExternalClaims \subseteq ClaimMap
  /\ Ttl \in Nat /\ MaxWrites \in Nat /\ MaxClock \in Nat
  /\ None \notin Form \cup Clients

VARIABLES
  clock,          \* time in seconds
  history,        \* every version of the policy, with the time it took effect
  pc,             \* where a request is; at the end, its outcome
  form,           \* the form of a request
  arrived,        \* version of the policy and time when a request arrived
  client,         \* identity that TokenReview reported
  mapping,        \* the resource mapping a request resolved
  scope_claims,   \* the scope mappings it resolved with it
  token           \* the claims handed to the signer

request == <<pc, form, arrived, client, mapping, scope_claims, token>>

vars == <<entries, scope_mappings, clock, history, request>>

Waiting == {"verify", "resolve", "resolve_scopes", "build", "sign"}

Errors == {"UnsupportedGrantType", "UnsupportedTokenType", "TokenVerification",
           "Unauthorized", "ScopeConflict", "ServiceError", "Generation"}

Outcomes == {"issued"} \cup Errors

\* into_response of ExchangeApiError, and 200 for a token.
Status(outcome) ==
  CASE outcome = "issued"                        -> 200
    [] outcome = "Unauthorized"                  -> 403
    [] outcome \in {"ServiceError", "Generation"} -> 500
    [] OTHER                                     -> 400

Version == [at : Nat,
            entries : [Keys -> ResourceMapping \cup {None}],
            scope_mappings : [Scopes -> ClaimMap \cup {None}]]

Requested(r) == Range(form[r].scope)

Key(r) == <<client[r], form[r].resource>>

Init ==
  /\ StoreInit
  /\ clock = 0
  /\ history = <<[at |-> 0, entries |-> entries, scope_mappings |-> scope_mappings]>>
  /\ pc = [r \in Requests |-> "idle"]
  /\ form = [r \in Requests |-> None]
  /\ arrived = [r \in Requests |-> [version |-> 1, at |-> 0]]
  /\ client = [r \in Requests |-> None]
  /\ mapping = [r \in Requests |-> None]
  /\ scope_claims = [r \in Requests |-> [s \in Scopes |-> None]]
  /\ token = [r \in Requests |-> None]

-----------------------------------------------------------------------------
(* The environment. *)

\* A row that did not go through ResourceService: only a database has them.
ExternalWrite ==
  /\ Backend = "postgres"
  /\ \E s \in Scopes, c \in ExternalClaims :
       scope_mappings' = [scope_mappings EXCEPT ![s] = c]
  /\ UNCHANGED entries

\* The policy changes.
PolicyChange ==
  /\ Len(history) <= MaxWrites
  /\ ServiceNext \/ ExternalWrite
  /\ store' # store
  /\ history' = Append(history, [at |-> clock, entries |-> entries',
                                 scope_mappings |-> scope_mappings'])
  /\ UNCHANGED <<clock, request>>

Tick ==
  /\ clock < MaxClock
  /\ clock' = clock + 1
  /\ UNCHANGED <<store, history, request>>

-----------------------------------------------------------------------------
(* The steps of a request. *)

Goto(r, l) == pc' = [pc EXCEPT ![r] = l]

\* token_exchange up to its call of the service.
Receive(r, f) ==
  /\ pc[r] = "idle"
  /\ form' = [form EXCEPT ![r] = f]
  /\ arrived' = [arrived EXCEPT ![r] = [version |-> Len(history), at |-> clock]]
  /\ Goto(r, CASE f.kind = "other_grant_type" -> "UnsupportedGrantType"
               [] f.kind = "other_token_type" -> "UnsupportedTokenType"
               [] OTHER                       -> "verify")
  /\ UNCHANGED <<store, clock, history, client, mapping, scope_claims, token>>

\* verify_token answers with an identity or with an error.
VerifyToken(r) ==
  /\ pc[r] = "verify"
  /\ \/ \E c \in Clients :
          /\ client' = [client EXCEPT ![r] = c]
          /\ Goto(r, "resolve")
     \/ /\ Goto(r, "TokenVerification")
        /\ UNCHANGED client
  /\ UNCHANGED <<store, clock, history, form, arrived, mapping, scope_claims, token>>

\* Mutant: a lookup in a cache that is one change of the policy behind.
StaleLookup(r) ==
  history[IF Len(history) = 1 THEN 1 ELSE Len(history) - 1].entries[Key(r)]

\* The mapping for the client and the context of a request.
Lookup(r) == entries[Key(r)]

\* MemoryResourceStore::resolve_mapping.
ResolveMemory(r) ==
  /\ Backend = "memory"
  /\ pc[r] = "resolve"
  /\ \/ /\ Lookup(r) = None
        /\ Goto(r, "Unauthorized")
        /\ UNCHANGED <<mapping, scope_claims>>
     \/ /\ Lookup(r) # None
        /\ Goto(r, "build")
        /\ mapping' = [mapping EXCEPT ![r] = Lookup(r)]
        /\ scope_claims' =
             [scope_claims EXCEPT ![r] = ScopeMappingsOf(Lookup(r), scope_mappings)]
  /\ UNCHANGED <<store, clock, history, form, arrived, client, token>>

\* PostgresResourceStore::resolve_mapping, the query for the mapping ...
ResolvePostgres(r) ==
  /\ Backend = "postgres"
  /\ pc[r] = "resolve"
  /\ \/ /\ Goto(r, "ServiceError")
        /\ UNCHANGED mapping
     \/ /\ Lookup(r) = None
        /\ Goto(r, "Unauthorized")
        /\ UNCHANGED mapping
     \/ /\ Lookup(r) # None
        /\ Goto(r, "resolve_scopes")
        /\ mapping' = [mapping EXCEPT ![r] = Lookup(r)]
  /\ UNCHANGED <<store, clock, history, form, arrived, client, scope_claims, token>>

\* ... and the query for the scopes of that mapping.
ResolveScopesPostgres(r) ==
  /\ pc[r] = "resolve_scopes"
  /\ \/ /\ Goto(r, "ServiceError")
        /\ UNCHANGED scope_claims
     \/ /\ Goto(r, "build")
        /\ scope_claims' =
             [scope_claims EXCEPT ![r] = ScopeMappingsOf(mapping[r], scope_mappings)]
  /\ UNCHANGED <<store, clock, history, form, arrived, client, mapping, token>>

\* Mutant: one granted scope is enough.
AnyScopeGranted(r) == Requested(r) = {} \/ Requested(r) \cap mapping[r].scopes # {}

\* All requested scopes are scopes of the mapping.
ScopesGranted(r) == Requested(r) \subseteq mapping[r].scopes

\* The claims of the token that a request asks for.
TokenFor(r, aud, claims) ==
  [sub |-> form[r].resource, act |-> client[r], aud |-> aud, scope |-> Requested(r),
   claims |-> DropReserved(claims), iat |-> clock, exp |-> clock + Ttl]

\* Mutant: a request whose claims conflict resolves its mapping once more.
RetryVerdict(r, expansion, aud) ==
  IF ~ScopesGranted(r) \/ aud = None THEN "Unauthorized"
  ELSE IF ~expansion.ok              THEN "resolve"
  ELSE "sign"

\* What becomes of a request once its mapping and scope mappings are there.
Verdict(r, expansion, aud) ==
  IF ~ScopesGranted(r)  THEN "Unauthorized"
  ELSE IF ~expansion.ok THEN "ScopeConflict"
  ELSE IF aud = None    THEN "Unauthorized"
  ELSE "sign"

\* The rest of verify, and exchange_token up to its call of the signer.
Build(r) ==
  LET e   == ExpandScopes(Requested(r), scope_claims[r])
      aud == resolve_audience(form[r].audience, mapping[r].audiences)
  IN  /\ pc[r] = "build"
      /\ Goto(r, Verdict(r, e, aud))
      /\ token' = [token EXCEPT ![r] = IF Verdict(r, e, aud) = "sign"
                                       THEN TokenFor(r, aud, e.claims) ELSE None]
      /\ UNCHANGED <<store, clock, history, form, arrived, client, mapping, scope_claims>>

\* generate_token answers with a signed token or with an error.
Sign(r) ==
  /\ pc[r] = "sign"
  /\ Goto(r, "issued") \/ Goto(r, "Generation")
  /\ UNCHANGED <<store, clock, history, form, arrived, client, mapping, scope_claims, token>>

Work(r) == \/ VerifyToken(r)
           \/ ResolveMemory(r)
           \/ ResolvePostgres(r)
           \/ ResolveScopesPostgres(r)
           \/ Build(r)
           \/ Sign(r)

Next ==
  \/ PolicyChange
  \/ Tick
  \/ \E r \in Requests : (\E f \in Forms : Receive(r, f)) \/ Work(r)

Spec == Init /\ [][Next]_vars

\* The runtime polls every task that can make progress.  The calls of the API
\* server and the acquisition of a connection have timeouts; a statement that
\* the database has and the signing in Vault end, or fail with their connection.
FairSpec == Spec /\ \A r \in Requests : WF_vars(Work(r))

-----------------------------------------------------------------------------
(* Properties. *)

\* The fields of a token that do not come from the expansion.
TokenTypeOK ==
  /\ DOMAIN token = Requests
  /\ \A r \in Requests : token[r] # None =>
       /\ token[r].aud \in Audiences
       /\ token[r].iat \in Nat
       /\ token[r].exp \in Nat

(* The shape of the state of the exchange service and of its requests. *)
TypeOK ==
  /\ StoreTypeOK
  /\ clock \in Nat
  /\ history \in Seq(Version)
  /\ pc \in [Requests -> {"idle"} \cup Waiting \cup Outcomes]
  /\ form \in [Requests -> Forms \cup {None}]
  /\ arrived \in [Requests -> [version : Nat, at : Nat]]
  /\ client \in [Requests -> Clients \cup {None}]
  /\ mapping \in [Requests -> ResourceMapping \cup {None}]
  /\ scope_claims \in [Requests -> [Scopes -> ClaimMap \cup {None}]]
  /\ TokenTypeOK

\* The versions of the policy that were in force while a request ran.
Window(r) == arrived[r].version..Len(history)

\* A version lets the client of a request have the requested scopes.
GrantsScopes(v, r) ==
  LET m == v.entries[Key(r)]
  IN  m # None /\ Requested(r) \subseteq m.scopes

\* ... and the audience: the requested one, the default without one.
Entitles(v, r) ==
  LET aud == IF form[r].audience = None THEN DefaultAudience ELSE form[r].audience
  IN  GrantsScopes(v, r) /\ AudiencePermitted(aud, v.entries[Key(r)].audiences)

\* The expansion of the scopes of a request, with the mapping of version v and
\* the claims of version w.
ExpansionIn(v, w, r) ==
  ExpandScopes(Requested(r), ScopeMappingsOf(v.entries[Key(r)], w.scope_mappings))

\* When the two reads of resolve_mapping can have happened.
ReadOrder(i, j) == i <= j /\ (Backend = "memory" => i = j)

\* Versions i and j explain the token of a request.
TokenJustified(r, i, j) ==
  /\ Entitles(history[i], r)
  /\ AudiencePermitted(token[r].aud, history[i].entries[Key(r)].audiences)
  /\ ExpansionIn(history[i], history[j], r).ok
  /\ token[r].claims = DropReserved(ExpansionIn(history[i], history[j], r).claims)

\* Versions i and j explain a conflict between the claims of a request.
ConflictJustified(r, i, j) ==
  /\ GrantsScopes(history[i], r)
  /\ ~ExpansionIn(history[i], history[j], r).ok

(* A token is handed to the signer only if one version of the policy that  *)
(* was in force while the request ran entitles the client to all of the    *)
(* requested scopes and to the audience, whatever the management API did   *)
(* meanwhile.  The claims are those of the same version with the memory    *)
(* store, and of that or a later one with Postgres (resolve_mapping,       *)
(* verify, resolve_audience and exchange_token together).                  *)
IssuedJustified ==
  \A r \in Requests : token[r] # None =>
    /\ token[r].sub = form[r].resource
    /\ token[r].act = client[r]
    /\ token[r].scope = Requested(r)
    /\ form[r].audience # None => token[r].aud = form[r].audience
    /\ \E i, j \in Window(r) : ReadOrder(i, j) /\ TokenJustified(r, i, j)

\* The claims that a version of the scope mappings defines for a request.
ClaimsIn(v, r) ==
  [k \in {k \in ClaimKeys \ RESERVED_CLAIMS :
             Definers(Requested(r), v.scope_mappings, k) # {}} |->
     JoinedValue(Requested(r), v.scope_mappings, k)]

(* The claims of a token are what one version of the scope mappings that   *)
(* was in force while the request ran defines for its scopes: every key of *)
(* theirs but the reserved ones, with all of its values in scope order,    *)
(* and no two of them in conflict (the loop of verify on what              *)
(* resolve_mapping read, and the filter of exchange_token).                *)
ClaimsAsDefined ==
  \A r \in Requests : token[r] # None =>
    \E j \in Window(r) :
      /\ ~Conflicting(Requested(r), history[j].scope_mappings)
      /\ token[r].claims = ClaimsIn(history[j], r)

(* A request is refused only for a reason: some version of the policy in   *)
(* force while it ran did not entitle the client (403), or its scopes were *)
(* granted and their claims were in conflict (400).                        *)
RefusalJustified ==
  \A r \in Requests :
    /\ pc[r] = "Unauthorized" => \E i \in Window(r) : ~Entitles(history[i], r)
    /\ pc[r] = "ScopeConflict" =>
         \E i, j \in Window(r) : ReadOrder(i, j) /\ ConflictJustified(r, i, j)

\* A version from which on the client of a request is no longer entitled.
RevokedAt(j, r) == \A i \in j..Len(history) : ~Entitles(history[i], r)

(* Once the entitlement is gone for good, a token outlives it by no more   *)
(* than token_ttl_secs (docs/token-exchange-threat-model.md, T7) and the   *)
(* time its request had been in flight when the token was made, because    *)
(* exp is computed after resolve_mapping returned.                         *)
RevocationBounded ==
  \A r \in Requests : token[r] # None =>
    \A j \in DOMAIN history : RevokedAt(j, r) =>
      token[r].exp <= history[j].at + Ttl + (token[r].iat - arrived[r].at)

(* docs/security-architecture.md, invariant 4: an audience that the        *)
(* mapping does not permit returns 401 Unauthorized.                       *)
AudienceMismatchIs401 ==
  \A r \in Requests :
    pc[r] \in Outcomes /\ mapping[r] # None /\ form[r].audience # None
      /\ Requested(r) \subseteq mapping[r].scopes
      /\ ExpandScopes(Requested(r), scope_claims[r]).ok
      /\ ~AudiencePermitted(form[r].audience, mapping[r].audiences)
    => Status(pc[r]) = 401

(* Every request that reached the endpoint is answered: no path of         *)
(* token_exchange waits for anything but its own calls.                    *)
EveryRequestAnswered ==
  \A r \in Requests : pc[r] \in Waiting ~> pc[r] \in Outcomes
=============================================================================
