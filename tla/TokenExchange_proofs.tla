------------------------ MODULE TokenExchange_proofs ------------------------
(***************************************************************************)
(* Proofs about the token endpoint.  Every token is justified by versions  *)
(* of the policy that were in force while its request ran, for any number  *)
(* of requests and any changes of the policy.                              *)
(***************************************************************************)
EXTENDS TokenExchange, ResourceService_proofs

(* The forms of requests are forms. *)
LEMMA FormFields ==
  ASSUME NEW f \in Forms
  PROVE  f \in Form /\ f.resource \in Contexts /\ f # None
BY ExchangeAssumption DEF Form

(* The version that a change of the policy appends to the history. *)
LEMMA NewVersion ==
  ASSUME StoreTypeOK', clock \in Nat
  PROVE  [at |-> clock, entries |-> entries', scope_mappings |-> scope_mappings'] \in Version
BY DEF StoreTypeOK, Version

(* What is resolved beside a mapping has the type of scope mappings. *)
LEMMA ScopeMappingsType ==
  ASSUME NEW m, NEW sm \in [Scopes -> ClaimMap \cup {None}]
  PROVE  ScopeMappingsOf(m, sm) \in [Scopes -> ClaimMap \cup {None}]
BY DEF ScopeMappingsOf

(* The verdict on a request is a refusal or leads to the signer. *)
LEMMA VerdictValues ==
  ASSUME NEW r, NEW e, NEW aud
  PROVE  Verdict(r, e, aud) \in {"Unauthorized", "ScopeConflict", "sign"}
BY DEF Verdict

(* A request that reached a client's mapping looks it up under a key of the store. *)
LEMMA KeyType ==
  ASSUME NEW r, form[r] \in Forms, client[r] \in Clients
  PROVE  Key(r) \in Keys
BY FormFields DEF Key, Keys

(* resolve_audience answers None or an audience that the allowlist permits: *)
(* the requested one, or the default when none is requested.               *)
LEMMA ResolvedAudience ==
  ASSUME NEW req \in Audiences \cup {None}, NEW allowed \in SUBSET Audiences
  PROVE  LET wanted == IF req = None THEN DefaultAudience ELSE req
         IN  /\ AudiencePermitted(wanted, allowed) => resolve_audience(req, allowed) = wanted
             /\ ~AudiencePermitted(wanted, allowed) => resolve_audience(req, allowed) = None
BY PolicyAssumption, Zenon DEF AudiencePermitted, resolve_audience

(* The verdict, condition by condition. *)
LEMMA VerdictCases ==
  ASSUME NEW r, NEW e, NEW aud
  PROVE  /\ Verdict(r, e, aud) = "sign" => ScopesGranted(r) /\ e.ok /\ aud # None
         /\ Verdict(r, e, aud) = "Unauthorized" => ~ScopesGranted(r) \/ aud = None
         /\ Verdict(r, e, aud) = "ScopeConflict" => ScopesGranted(r) /\ ~e.ok
BY DEF Verdict

\* What a request knows at each of its steps.
Knows(r) ==
  /\ pc[r] # "idle" => form[r] \in Forms
  /\ pc[r] \in {"resolve", "resolve_scopes", "build", "sign", "issued", "Generation"}
       => client[r] \in Clients
  /\ pc[r] \in {"resolve_scopes", "build"} => mapping[r] \in ResourceMapping

Progress == \A r \in Requests : Knows(r)

(* A step that makes no token keeps the types of the tokens. *)
LEMMA TokenSame == TokenTypeOK /\ UNCHANGED token => TokenTypeOK'
BY DEF TokenTypeOK

(* A step that leaves the policy alone keeps the types of the store. *)
LEMMA StoreSame == StoreTypeOK /\ UNCHANGED store => StoreTypeOK'
BY DEF StoreTypeOK, store

(* A step of one request leaves what the others know alone. *)
LEMMA ProgressFrame ==
  ASSUME TypeOK, Progress, NEW r \in Requests, NEW l, pc' = [pc EXCEPT ![r] = l],
         \A q \in Requests \ {r} : /\ form'[q] = form[q]
                                   /\ client'[q] = client[q]
                                   /\ mapping'[q] = mapping[q],
         Knows(r)'
  PROVE  Progress'
<1> SUFFICES ASSUME NEW q \in Requests, q # r
             PROVE  Knows(q)'
  BY DEF Progress
<1>1. pc'[q] = pc[q]
  BY DEF TypeOK
<1> QED
  BY <1>1 DEF Progress, Knows

(* Every step of the service on a request keeps the types, and what        *)
(* requests know.                                                          *)
LEMMA WorkType ==
  ASSUME TypeOK, Progress, NEW r \in Requests, Work(r)
  PROVE  TypeOK' /\ Progress'
<1> DEFINE Quiet == /\ UNCHANGED <<store, clock, history, form, arrived>>
                     /\ \A q \in Requests \ {r} : client'[q] = client[q] /\ mapping'[q] = mapping[q]
<1>1. Knows(r)
  BY DEF Progress
<1>2. ASSUME NEW l \in Waiting \cup Outcomes, pc' = [pc EXCEPT ![r] = l], Quiet,
             client' \in [Requests -> Clients \cup {None}],
             mapping' \in [Requests -> ResourceMapping \cup {None}],
             scope_claims' \in [Requests -> [Scopes -> ClaimMap \cup {None}]],
             TokenTypeOK', Knows(r)'
      PROVE  TypeOK' /\ Progress'
  <2>1. pc' \in [Requests -> {"idle"} \cup Waiting \cup Outcomes]
    BY <1>2 DEF TypeOK
  <2>2. TypeOK'
    BY <1>2, <2>1, StoreSame DEF TypeOK
  <2>3. Progress'
    BY <1>2, ProgressFrame
  <2> QED
    BY <2>2, <2>3
<1>3. CASE VerifyToken(r)
  <2>1. Quiet /\ UNCHANGED <<mapping, scope_claims, token>>
    BY <1>3 DEF VerifyToken, TypeOK
  <2>2. ASSUME NEW c \in Clients, client' = [client EXCEPT ![r] = c], Goto(r, "resolve")
        PROVE  TypeOK' /\ Progress'
    <3>1. TokenTypeOK' /\ Knows(r)'
      BY <1>1, <1>3, <2>1, <2>2, TokenSame DEF VerifyToken, Goto, Knows, TypeOK
    <3>2. /\ client' \in [Requests -> Clients \cup {None}]
          /\ mapping' \in [Requests -> ResourceMapping \cup {None}]
          /\ scope_claims' \in [Requests -> [Scopes -> ClaimMap \cup {None}]]
      BY <2>1, <2>2 DEF TypeOK
    <3> QED
      BY <1>2, <2>1, <2>2, <3>1, <3>2 DEF Goto, Waiting
  <2>3. ASSUME UNCHANGED client, Goto(r, "TokenVerification")
        PROVE  TypeOK' /\ Progress'
    <3>1. TokenTypeOK' /\ Knows(r)'
      BY <1>1, <1>3, <2>1, <2>3, TokenSame DEF VerifyToken, Goto, Knows, TypeOK
    <3> QED
      BY <1>2, <2>1, <2>3, <3>1 DEF Goto, Outcomes, Errors, TypeOK
  <2> QED
    BY <1>3, <2>2, <2>3 DEF VerifyToken
<1>4. CASE ResolveMemory(r)
  <2>1. Quiet /\ UNCHANGED <<client, token>> /\ pc[r] = "resolve"
    BY <1>4 DEF ResolveMemory, TypeOK
  <2>2. Lookup(r) \in ResourceMapping \cup {None}
    BY <1>1, <2>1, KeyType DEF Lookup, StoreTypeOK, TypeOK, Knows
  <2>3. CASE Lookup(r) = None
    BY <1>1, <1>2, <1>4, <2>1, <2>3, TokenSame
       DEF ResolveMemory, Goto, Outcomes, Errors, Knows, TypeOK
  <2>4. CASE Lookup(r) # None
    <3>1. mapping' \in [Requests -> ResourceMapping \cup {None}] /\ mapping'[r] \in ResourceMapping
      BY <1>4, <2>2, <2>4 DEF ResolveMemory, TypeOK
    <3>2. scope_claims' \in [Requests -> [Scopes -> ClaimMap \cup {None}]]
      <4>1. ScopeMappingsOf(Lookup(r), scope_mappings) \in [Scopes -> ClaimMap \cup {None}]
        BY ScopeMappingsType DEF TypeOK, StoreTypeOK
      <4> QED
        BY <1>4, <2>4, <4>1 DEF ResolveMemory, TypeOK
    <3>3. pc' = [pc EXCEPT ![r] = "build"]
      BY <1>4, <2>4 DEF ResolveMemory, Goto
    <3>4. pc'[r] = "build"
      BY <3>3 DEF TypeOK
    <3>5. Knows(r)'
      BY <1>1, <2>1, <3>1, <3>4 DEF Knows
    <3> QED
      BY <1>2, <2>1, <3>1, <3>2, <3>3, <3>5, TokenSame DEF Waiting, TypeOK
  <2> QED
    BY <2>3, <2>4
<1>5. CASE ResolvePostgres(r)
  <2>1. Quiet /\ UNCHANGED <<client, scope_claims, token>> /\ pc[r] = "resolve"
    BY <1>5 DEF ResolvePostgres, TypeOK
  <2>2. Lookup(r) \in ResourceMapping \cup {None}
    BY <1>1, <2>1, KeyType DEF Lookup, StoreTypeOK, TypeOK, Knows
  <2>3. ASSUME NEW l \in {"ServiceError", "Unauthorized"}, Goto(r, l), UNCHANGED mapping
        PROVE  TypeOK' /\ Progress'
    BY <1>1, <1>2, <2>1, <2>3, TokenSame DEF Goto, Outcomes, Errors, Knows, TypeOK
  <2>4. ASSUME Lookup(r) # None, Goto(r, "resolve_scopes"),
               mapping' = [mapping EXCEPT ![r] = Lookup(r)]
        PROVE  TypeOK' /\ Progress'
    <3>1. mapping' \in [Requests -> ResourceMapping \cup {None}] /\ mapping'[r] \in ResourceMapping
      BY <2>2, <2>4 DEF TypeOK
    <3>2. Knows(r)'
      BY <1>1, <2>1, <2>4, <3>1 DEF Knows, Goto
    <3> QED
      BY <1>2, <2>1, <2>4, <3>1, <3>2, TokenSame DEF Goto, Waiting, TypeOK
  <2> QED
    BY <1>5, <2>3, <2>4 DEF ResolvePostgres
<1>6. CASE ResolveScopesPostgres(r)
  <2>1. Quiet /\ UNCHANGED <<client, mapping, token>> /\ pc[r] = "resolve_scopes"
    BY <1>6 DEF ResolveScopesPostgres, TypeOK
  <2>2. scope_claims' \in [Requests -> [Scopes -> ClaimMap \cup {None}]]
    <3>1. ScopeMappingsOf(mapping[r], scope_mappings) \in [Scopes -> ClaimMap \cup {None}]
      BY ScopeMappingsType DEF TypeOK, StoreTypeOK
    <3> QED
      BY <1>6, <3>1 DEF ResolveScopesPostgres, TypeOK
  <2>3. ASSUME NEW l \in {"ServiceError", "build"}, Goto(r, l)
        PROVE  TypeOK' /\ Progress'
    <3>1. pc' = [pc EXCEPT ![r] = l] /\ pc'[r] = l
      BY <2>3 DEF Goto, TypeOK
    <3>2. Knows(r)'
      BY <1>1, <2>1, <3>1 DEF Knows
    <3>3. l \in Waiting \cup Outcomes
      BY DEF Waiting, Outcomes, Errors
    <3> QED
      BY <1>2, <2>1, <2>2, <3>1, <3>2, <3>3, TokenSame DEF TypeOK
  <2> QED
    BY <1>6, <2>3 DEF ResolveScopesPostgres
<1>7. CASE Build(r)
  <2> DEFINE e   == ExpandScopes(Requested(r), scope_claims[r])
             aud == resolve_audience(form[r].audience, mapping[r].audiences)
             v   == Verdict(r, e, aud)
  <2>1. /\ pc' = [pc EXCEPT ![r] = v]
        /\ token' = [token EXCEPT ![r] = IF v = "sign" THEN TokenFor(r, aud, e.claims) ELSE None]
        /\ Quiet /\ UNCHANGED <<client, mapping, scope_claims>>
        /\ pc[r] = "build"
    BY <1>7 DEF Build, Goto, TypeOK
  <2>2. v \in {"Unauthorized", "ScopeConflict", "sign"}
    BY VerdictValues
  <2>3. v = "sign" => aud \in Audiences
    <3>1. form[r].audience \in Audiences \cup {None} /\ mapping[r].audiences \in SUBSET Audiences
      BY <1>1, <2>1, FormFields DEF Form, ResourceMapping, Knows
    <3> QED
      BY <3>1, ResolvedAudience, VerdictCases, PolicyAssumption
  <2> HIDE DEF e, aud, v
  <2>4. v = "sign" => /\ TokenFor(r, aud, e.claims).aud \in Audiences
                      /\ TokenFor(r, aud, e.claims).iat \in Nat
                      /\ TokenFor(r, aud, e.claims).exp \in Nat
    BY <2>3, ExchangeAssumption DEF TokenFor, TypeOK
  <2>5. TokenTypeOK'
    BY <2>1, <2>4 DEF TypeOK, TokenTypeOK
  <2>6. Knows(r)'
    BY <1>1, <2>1, <2>2 DEF Knows, TypeOK
  <2> QED
    BY <1>2, <2>1, <2>2, <2>5, <2>6 DEF Waiting, Outcomes, Errors, TypeOK
<1>8. CASE Sign(r)
  <2>1. Quiet /\ UNCHANGED <<client, mapping, scope_claims, token>> /\ pc[r] = "sign"
    BY <1>8 DEF Sign, TypeOK
  <2>2. ASSUME NEW l \in {"issued", "Generation"}, Goto(r, l)
        PROVE  TypeOK' /\ Progress'
    BY <1>1, <1>2, <2>1, <2>2, TokenSame DEF Goto, Outcomes, Errors, Knows, TypeOK
  <2> QED
    BY <1>8, <2>2 DEF Sign
<1> QED
  BY <1>3, <1>4, <1>5, <1>6, <1>7, <1>8 DEF Work

(* Every step keeps the types, and what requests know. *)
LEMMA TypeStep == TypeOK /\ Progress /\ [Next]_vars => TypeOK' /\ Progress'
<1> SUFFICES ASSUME TypeOK, Progress, [Next]_vars
             PROVE  TypeOK' /\ Progress'
  OBVIOUS
<1>1. CASE UNCHANGED vars
  <2>1. TypeOK'
    BY <1>1, StoreSame, TokenSame DEF vars, request, store, TypeOK
  <2> QED
    BY <1>1, <2>1 DEF vars, request, Progress, Knows
<1>2. CASE PolicyChange
  <2>1. StoreTypeOK'
    BY <1>2, ServiceType, ExchangeAssumption DEF PolicyChange, ExternalWrite, StoreTypeOK, TypeOK
  <2>2. history' \in Seq(Version)
    BY <1>2, <2>1, NewVersion DEF PolicyChange, TypeOK
  <2>3. TypeOK'
    BY <1>2, <2>1, <2>2, TokenSame DEF PolicyChange, request, TypeOK
  <2> QED
    BY <1>2, <2>3 DEF PolicyChange, request, Progress, Knows
<1>3. CASE Tick
  <2>1. TypeOK'
    BY <1>3, StoreSame, TokenSame DEF Tick, request, TypeOK
  <2> QED
    BY <1>3, <2>1 DEF Tick, request, Progress, Knows
<1>4. ASSUME NEW r \in Requests, NEW f \in Forms, Receive(r, f)
      PROVE  TypeOK' /\ Progress'
  <2> DEFINE l == CASE f.kind = "other_grant_type" -> "UnsupportedGrantType"
                    [] f.kind = "other_token_type" -> "UnsupportedTokenType"
                    [] OTHER                       -> "verify"
  <2>1. l \in {"UnsupportedGrantType", "UnsupportedTokenType", "verify"}
    BY Zenon
  <2>2. /\ pc' = [pc EXCEPT ![r] = l]
        /\ form' = [form EXCEPT ![r] = f]
        /\ arrived' = [arrived EXCEPT ![r] = [version |-> Len(history), at |-> clock]]
        /\ UNCHANGED <<store, clock, history, client, mapping, scope_claims, token>>
    BY <1>4, Zenon DEF Receive, Goto
  <2> HIDE DEF l
  <2>3. TypeOK'
    <3>1. pc' \in [Requests -> {"idle"} \cup Waiting \cup Outcomes]
      BY <2>1, <2>2 DEF TypeOK, Waiting, Outcomes, Errors
    <3>2. arrived' \in [Requests -> [version : Nat, at : Nat]]
      BY <2>2 DEF TypeOK
    <3> QED
      BY <2>2, <3>1, <3>2, StoreSame, TokenSame DEF TypeOK
  <2>4. Knows(r)'
    BY <2>1, <2>2 DEF Knows, TypeOK
  <2>5. Progress'
    BY <2>2, <2>4, ProgressFrame DEF TypeOK
  <2> QED
    BY <2>3, <2>5
<1>5. ASSUME NEW r \in Requests, Work(r)
      PROVE  TypeOK' /\ Progress'
  BY <1>5, WorkType
<1> QED
  BY <1>1, <1>2, <1>3, <1>4, <1>5 DEF Next

(* The types hold initially, when requests know nothing. *)
LEMMA TypeInit == Init => TypeOK /\ Progress
<1> SUFFICES ASSUME Init PROVE TypeOK /\ Progress
  OBVIOUS
<1>1. StoreTypeOK
  BY DEF Init, StoreInit, StoreTypeOK
<1>2. history \in Seq(Version)
  BY <1>1 DEF Init, StoreTypeOK, Version
<1>3. TokenTypeOK
  BY DEF Init, TokenTypeOK
<1>4. TypeOK
  BY <1>1, <1>2, <1>3 DEF Init, TypeOK
<1> QED
  BY <1>4 DEF Init, Progress, Knows

(* Every variable of the token endpoint has its type in every reachable    *)
(* state, for any set of requests and any sequence of policy changes.      *)
THEOREM TypeCorrect == Spec => []TypeOK
BY TypeInit, TypeStep, PTL DEF Spec

-----------------------------------------------------------------------------
(* The inductive invariant behind IssuedJustified and RefusalJustified:    *)
(* what a request has read so far is what some versions of its window say. *)

\* The newest version of the history is the policy in force.
HistoryCurrent ==
  /\ Len(history) >= 1
  /\ history[Len(history)].entries = entries
  /\ history[Len(history)].scope_mappings = scope_mappings

\* Request r read its mapping in version i, and the scope mappings in version j.
MappingRead(r, i) == mapping[r] # None /\ mapping[r] = history[i].entries[Key(r)]

ScopesRead(r, j) == scope_claims[r] = ScopeMappingsOf(mapping[r], history[j].scope_mappings)

\* What a request has read and concluded, at each of its steps.
Reads(r) ==
  /\ arrived[r].version \in 1..Len(history)
  /\ pc[r] = "resolve_scopes" => Backend = "postgres" /\ \E i \in Window(r) : MappingRead(r, i)
  /\ pc[r] = "build" =>
       \E i, j \in Window(r) : ReadOrder(i, j) /\ MappingRead(r, i) /\ ScopesRead(r, j)
  /\ token[r] # None => pc[r] \in {"sign", "issued", "Generation"}

IssuedOK(r) ==
  token[r] # None =>
    /\ token[r].sub = form[r].resource
    /\ token[r].act = client[r]
    /\ token[r].scope = Requested(r)
    /\ form[r].audience # None => token[r].aud = form[r].audience
    /\ \E i, j \in Window(r) : ReadOrder(i, j) /\ TokenJustified(r, i, j)

RefusedOK(r) ==
  /\ pc[r] = "Unauthorized" => \E i \in Window(r) : ~Entitles(history[i], r)
  /\ pc[r] = "ScopeConflict" =>
       \E i, j \in Window(r) : ReadOrder(i, j) /\ ConflictJustified(r, i, j)

Explained(r) == Reads(r) /\ IssuedOK(r) /\ RefusedOK(r)

\* A step that leaves request q alone.
Same(q) == /\ pc'[q] = pc[q] /\ form'[q] = form[q] /\ arrived'[q] = arrived[q]
           /\ client'[q] = client[q] /\ mapping'[q] = mapping[q]
           /\ scope_claims'[q] = scope_claims[q] /\ token'[q] = token[q]

\* A step that keeps the history or adds versions at its end.
Grows == /\ Len(history') \in Nat
         /\ Len(history) <= Len(history')
         /\ \A i \in 1..Len(history) : history'[i] = history[i]

(* Windows as intervals of version numbers. *)
LEMMA Intervals ==
  ASSUME NEW a \in Nat, NEW m \in Nat, NEW n \in Nat, m <= n
  PROVE  a..m \subseteq a..n /\ (a \in 1..m => a..m \subseteq 1..m)
OBVIOUS

(* Versions never change once they are in the history, so what was         *)
(* explained stays explained.                                              *)
LEMMA Frame ==
  ASSUME NEW q \in Requests, TypeOK, Grows, Same(q), Explained(q)
  PROVE  Explained(q)'
<1>1. /\ arrived[q].version \in Nat
      /\ Len(history) \in Nat
  BY DEF TypeOK
<1> USE DEF Same
<1>2. Window(q) \subseteq Window(q)'
  <2>1. Len(history') \in Nat /\ Len(history) <= Len(history')
    BY DEF Grows
  <2>2. Window(q)' = arrived[q].version..Len(history')
    BY DEF Window
  <2> QED
    BY <1>1, <2>1, <2>2, Intervals DEF Window
<1>3. \A i \in Window(q) : history'[i] = history[i]
  <2>1. arrived[q].version \in 1..Len(history)
    BY DEF Explained, Reads
  <2>2. Window(q) \subseteq 1..Len(history)
    BY <1>1, <2>1, Intervals DEF Window
  <2> QED
    BY <2>2 DEF Grows
<1>4. Key(q)' = Key(q) /\ Requested(q)' = Requested(q)
  BY DEF Key, Requested
<1>5. ASSUME NEW i \in Window(q)
      PROVE  /\ MappingRead(q, i) => MappingRead(q, i)'
             /\ ScopesRead(q, i) => ScopesRead(q, i)'
             /\ Entitles(history[i], q)' <=> Entitles(history[i], q)
             /\ GrantsScopes(history[i], q)' <=> GrantsScopes(history[i], q)
  BY <1>3, <1>4 DEF MappingRead, ScopesRead, Entitles, GrantsScopes
<1>6. ASSUME NEW i \in Window(q), NEW j \in Window(q)
      PROVE  /\ TokenJustified(q, i, j) => TokenJustified(q, i, j)'
             /\ ConflictJustified(q, i, j) => ConflictJustified(q, i, j)'
  BY <1>3, <1>4, <1>5 DEF TokenJustified, ConflictJustified, ExpansionIn
<1>7. Reads(q)'
  <2>1. Reads(q)
    BY DEF Explained
  <2>2. arrived'[q].version \in 1..Len(history')
    BY <1>1, <2>1 DEF Reads, Grows
  <2>3. (\E i \in Window(q) : MappingRead(q, i)) => (\E i \in Window(q) : MappingRead(q, i))'
    BY <1>2, <1>5
  <2>4. (\E i, j \in Window(q) : ReadOrder(i, j) /\ MappingRead(q, i) /\ ScopesRead(q, j))
          => (\E i, j \in Window(q) : ReadOrder(i, j) /\ MappingRead(q, i) /\ ScopesRead(q, j))'
    BY <1>2, <1>5
  <2> QED
    BY <2>1, <2>2, <2>3, <2>4 DEF Reads
<1>8. IssuedOK(q)'
  BY <1>2, <1>4, <1>6 DEF Explained, IssuedOK
<1>9. RefusedOK(q)'
  BY <1>2, <1>5, <1>6 DEF Explained, RefusedOK
<1> QED
  BY <1>7, <1>8, <1>9 DEF Explained

LEMMA TokenFields ==
  ASSUME NEW r, NEW aud, NEW claims
  PROVE  /\ TokenFor(r, aud, claims).sub = form[r].resource
         /\ TokenFor(r, aud, claims).act = client[r]
         /\ TokenFor(r, aud, claims).scope = Requested(r)
         /\ TokenFor(r, aud, claims).aud = aud
         /\ TokenFor(r, aud, claims).claims = DropReserved(claims)
  BY DEF TokenFor

(* What Build concludes from the versions it read. *)
LEMMA BuildExplained ==
  ASSUME NEW r \in Requests, TypeOK, Progress, Explained(r), Build(r)
  PROVE  Explained(r)'
<1> DEFINE e   == ExpandScopes(Requested(r), scope_claims[r])
           aud == resolve_audience(form[r].audience, mapping[r].audiences)
           v   == Verdict(r, e, aud)
<1>1. /\ pc'[r] = v
      /\ token'[r] = IF v = "sign" THEN TokenFor(r, aud, e.claims) ELSE None
      /\ UNCHANGED <<history, form, arrived, client, mapping, scope_claims>>
  BY DEF Build, Goto, TypeOK, TokenTypeOK
<1>2. PICK i \in Window(r), j \in Window(r) :
        ReadOrder(i, j) /\ MappingRead(r, i) /\ ScopesRead(r, j)
  BY DEF Build, Explained, Reads
<1>3. form[r] \in Forms /\ client[r] \in Clients /\ mapping[r] \in ResourceMapping
  BY DEF Build, Progress, Knows
<1>4. form[r].audience \in Audiences \cup {None} /\ mapping[r].audiences \in SUBSET Audiences
  BY <1>3, FormFields DEF Form, ResourceMapping
<1>5. /\ ScopesGranted(r) <=> GrantsScopes(history[i], r)
      /\ e = ExpansionIn(history[i], history[j], r)
      /\ Entitles(history[i], r) <=> ScopesGranted(r) /\ aud # None
      /\ aud # None => AudiencePermitted(aud, history[i].entries[Key(r)].audiences)
      /\ aud # None /\ form[r].audience # None => aud = form[r].audience
  <2>1. ScopesGranted(r) <=> GrantsScopes(history[i], r)
    BY <1>2 DEF ScopesGranted, GrantsScopes, MappingRead
  <2>2. e = ExpansionIn(history[i], history[j], r)
    BY <1>2 DEF ExpansionIn, MappingRead, ScopesRead
  <2>3. mapping[r] = history[i].entries[Key(r)]
    BY <1>2 DEF MappingRead
  <2> DEFINE wanted == IF form[r].audience = None THEN DefaultAudience ELSE form[r].audience
  <2>4. /\ AudiencePermitted(wanted, mapping[r].audiences) => aud = wanted
        /\ ~AudiencePermitted(wanted, mapping[r].audiences) => aud = None
    BY <1>4, ResolvedAudience
  <2>5. wanted # None /\ (form[r].audience # None => wanted = form[r].audience)
    BY PolicyAssumption
  <2>6. Entitles(history[i], r) <=> /\ GrantsScopes(history[i], r)
                                   /\ AudiencePermitted(wanted, mapping[r].audiences)
    BY <2>3 DEF Entitles
  <2> HIDE DEF wanted, e, aud
  <2> QED
    BY <2>1, <2>2, <2>3, <2>4, <2>5, <2>6
<1>6. v \in {"Unauthorized", "ScopeConflict", "sign"}
  BY VerdictValues
<1>7. /\ v = "sign" => ScopesGranted(r) /\ e.ok /\ aud # None
      /\ v = "Unauthorized" => ~ScopesGranted(r) \/ aud = None
      /\ v = "ScopeConflict" => ScopesGranted(r) /\ ~e.ok
  BY VerdictCases
<1> HIDE DEF e, aud, v
<1>8. Window(r)' = Window(r) /\ Key(r)' = Key(r) /\ Requested(r)' = Requested(r)
  BY <1>1 DEF Window, Key, Requested
<1>9. /\ Entitles(history[i], r)' <=> Entitles(history[i], r)
      /\ GrantsScopes(history[i], r)' <=> GrantsScopes(history[i], r)
      /\ ExpansionIn(history[i], history[j], r)' = ExpansionIn(history[i], history[j], r)
      /\ (history[i].entries[Key(r)])' = history[i].entries[Key(r)]
  BY <1>1, <1>8 DEF Entitles, GrantsScopes, ExpansionIn
<1>10. Reads(r)'
  BY <1>1, <1>6, <1>8 DEF Explained, Reads
<1>11. IssuedOK(r)'
  <2> SUFFICES ASSUME token'[r] # None PROVE IssuedOK(r)'
    BY DEF IssuedOK
  <2>1. v = "sign" /\ token'[r] = TokenFor(r, aud, e.claims)
    BY <1>1
  <2>2. /\ token'[r].sub = form[r].resource /\ token'[r].act = client[r]
        /\ token'[r].scope = Requested(r) /\ token'[r].aud = aud
        /\ token'[r].claims = DropReserved(e.claims)
    BY <2>1, TokenFields
  <2>3. ScopesGranted(r) /\ e.ok /\ aud # None
    BY <1>7, <2>1
  <2>4. TokenJustified(r, i, j)'
    BY <1>5, <1>9, <2>2, <2>3 DEF TokenJustified
  <2>5. (\E k, l \in Window(r) : ReadOrder(k, l) /\ TokenJustified(r, k, l))'
    BY <1>2, <1>8, <2>4
  <2>6. form'[r].audience # None => token'[r].aud = form'[r].audience
    BY <1>1, <1>5, <2>2, <2>3
  <2> QED
    BY <1>1, <1>8, <2>2, <2>5, <2>6 DEF IssuedOK
<1>12. RefusedOK(r)'
  <2>1. v = "Unauthorized" => ~Entitles(history[i], r)'
    BY <1>5, <1>7, <1>9
  <2>2. v = "ScopeConflict" => ConflictJustified(r, i, j)'
    BY <1>5, <1>7, <1>9 DEF ConflictJustified
  <2> QED
    BY <1>1, <1>2, <1>8, <2>1, <2>2 DEF RefusedOK
<1> QED
  BY <1>10, <1>11, <1>12 DEF Explained

(* The reads of resolve_mapping see the newest version of the history. *)
LEMMA ReadExplained ==
  ASSUME NEW r \in Requests, TypeOK, Progress, HistoryCurrent, Explained(r),
         ResolveMemory(r) \/ ResolvePostgres(r) \/ ResolveScopesPostgres(r)
  PROVE  Explained(r)'
<1> DEFINE n == Len(history)
<1>1. n \in Nat /\ n \in Window(r) /\ (\A i \in Window(r) : i \in Nat /\ i <= n)
  BY DEF TypeOK, HistoryCurrent, Explained, Reads, Window
<1>2. UNCHANGED <<history, form, arrived, client, token>>
  BY DEF ResolveMemory, ResolvePostgres, ResolveScopesPostgres
<1>3. Window(r)' = Window(r) /\ Key(r)' = Key(r)
  BY <1>2 DEF Window, Key
<1>4. token'[r] = None /\ arrived'[r].version \in 1..Len(history')
  BY <1>2 DEF ResolveMemory, ResolvePostgres, ResolveScopesPostgres, Explained, Reads
<1>5. CASE ResolveMemory(r) /\ Lookup(r) # None
  <2>1. /\ pc'[r] = "build"
        /\ mapping'[r] = Lookup(r)
        /\ scope_claims'[r] = ScopeMappingsOf(Lookup(r), scope_mappings)
    BY <1>5 DEF ResolveMemory, Goto, TypeOK
  <2>2. MappingRead(r, n)' /\ ScopesRead(r, n)'
    BY <1>2, <1>3, <1>5, <2>1 DEF MappingRead, ScopesRead, Lookup, HistoryCurrent
  <2>3. ReadOrder(n, n)
    BY <1>1 DEF ReadOrder
  <2> QED
    BY <1>1, <1>2, <1>3, <1>4, <2>1, <2>2, <2>3 DEF Explained, Reads, IssuedOK, RefusedOK
<1>6. CASE ResolvePostgres(r) /\ pc'[r] = "resolve_scopes"
  <2>1. /\ mapping'[r] = Lookup(r)
        /\ Lookup(r) # None
        /\ Backend = "postgres"
    BY <1>6 DEF ResolvePostgres, Goto, TypeOK
  <2>2. MappingRead(r, n)'
    BY <1>2, <1>3, <2>1 DEF MappingRead, Lookup, HistoryCurrent
  <2> QED
    BY <1>1, <1>2, <1>3, <1>4, <1>6, <2>1, <2>2 DEF Explained, Reads, IssuedOK, RefusedOK
<1>7. CASE ResolveScopesPostgres(r) /\ pc'[r] = "build"
  <2>1. /\ pc[r] = "resolve_scopes"
        /\ mapping'[r] = mapping[r]
        /\ scope_claims'[r] = ScopeMappingsOf(mapping[r], scope_mappings)
    BY <1>7 DEF ResolveScopesPostgres, Goto, TypeOK
  <2>2. PICK i \in Window(r) : MappingRead(r, i)
    BY <2>1 DEF Explained, Reads
  <2>3. Backend = "postgres"
    BY <2>1 DEF Explained, Reads
  <2>4. MappingRead(r, i)' /\ ScopesRead(r, n)'
    BY <1>2, <1>3, <2>1, <2>2 DEF MappingRead, ScopesRead, HistoryCurrent
  <2>5. ReadOrder(i, n)
    BY <1>1, <2>3 DEF ReadOrder
  <2> QED
    BY <1>1, <1>2, <1>3, <1>4, <1>7, <2>4, <2>5 DEF Explained, Reads, IssuedOK, RefusedOK
<1>8. CASE pc'[r] = "Unauthorized" /\ Lookup(r) = None
  <2>1. ~Entitles(history[n], r)'
    BY <1>2, <1>3, <1>8 DEF Entitles, GrantsScopes, Lookup, HistoryCurrent
  <2> QED
    BY <1>1, <1>2, <1>3, <1>4, <1>8, <2>1 DEF Explained, Reads, IssuedOK, RefusedOK
<1>9. CASE pc'[r] = "ServiceError"
  BY <1>4, <1>9 DEF Explained, Reads, IssuedOK, RefusedOK
<1> QED
  BY <1>5, <1>6, <1>7, <1>8, <1>9
     DEF ResolveMemory, ResolvePostgres, ResolveScopesPostgres, Goto, TypeOK

\* The inductive invariant.
IInv == TypeOK /\ Progress /\ HistoryCurrent /\ \A r \in Requests : Explained(r)

(* Every step keeps the inductive invariant. *)
LEMMA ExplainedStep == IInv /\ [Next]_vars => IInv'
<1> SUFFICES ASSUME IInv, [Next]_vars
             PROVE  HistoryCurrent' /\ \A r \in Requests : Explained(r)'
  BY TypeStep DEF IInv
<1> USE DEF IInv
<1>1. Len(history) \in Nat /\ history \in Seq(Version)
  BY DEF TypeOK
<1>2. CASE PolicyChange
  <2>1. \A r \in Requests : Same(r)
    BY <1>2 DEF PolicyChange, request, Same
  <2>2. Grows /\ HistoryCurrent'
    <3> DEFINE v == [at |-> clock, entries |-> entries', scope_mappings |-> scope_mappings']
    <3>1. history' = Append(history, v)
      BY <1>2 DEF PolicyChange
    <3>2. v.entries = entries' /\ v.scope_mappings = scope_mappings'
      OBVIOUS
    <3> HIDE DEF v
    <3>3. /\ Len(history') = Len(history) + 1 /\ history'[Len(history) + 1] = v
          /\ \A i \in 1..Len(history) : history'[i] = history[i]
      BY <1>1, <3>1
    <3>4. Grows
      BY <1>1, <3>3 DEF Grows
    <3>5. HistoryCurrent'
      BY <1>1, <3>2, <3>3 DEF HistoryCurrent
    <3> QED
      BY <3>4, <3>5
  <2> QED
    BY <2>1, <2>2, Frame
<1>3. CASE ~PolicyChange
  <2>1. Grows /\ HistoryCurrent'
    <3>1. UNCHANGED <<entries, scope_mappings, history>>
      BY <1>3 DEF vars, Next, Tick, Receive, Work, VerifyToken, ResolveMemory,
                  ResolvePostgres, ResolveScopesPostgres, Build, Sign, store
    <3> QED
      BY <1>1, <3>1 DEF Grows, HistoryCurrent
  <2>2. CASE UNCHANGED vars \/ Tick
    <3>1. \A r \in Requests : Same(r)
      BY <2>2 DEF vars, Tick, request, Same
    <3> QED
      BY <2>1, <3>1, Frame
  <2>3. ASSUME NEW r \in Requests, (\E f \in Forms : Receive(r, f)) \/ Work(r)
        PROVE  \A q \in Requests : Explained(q)'
    <3>1. ASSUME NEW q \in Requests, q # r
          PROVE  Same(q)
      BY <2>3, <3>1 DEF Same, Receive, Work, VerifyToken, ResolveMemory, ResolvePostgres,
           ResolveScopesPostgres, Build, Sign, Goto, TypeOK, TokenTypeOK
    <3>2. Explained(r)'
      <4>1. ASSUME NEW f \in Forms, Receive(r, f)
            PROVE  Explained(r)'
        <5> DEFINE l == CASE f.kind = "other_grant_type" -> "UnsupportedGrantType"
                          [] f.kind = "other_token_type" -> "UnsupportedTokenType"
                          [] OTHER                       -> "verify"
        <5>1. l \in {"UnsupportedGrantType", "UnsupportedTokenType", "verify"}
          BY Zenon
        <5>2. /\ pc[r] = "idle"
              /\ pc' = [pc EXCEPT ![r] = l]
              /\ arrived' = [arrived EXCEPT ![r] = [version |-> Len(history), at |-> clock]]
              /\ UNCHANGED <<history, token>>
          BY <4>1, Zenon DEF Receive, Goto
        <5> HIDE DEF l
        <5>3. token'[r] = None
          BY <5>2 DEF Explained, Reads
        <5>4. arrived'[r].version \in 1..Len(history')
          <6>1. arrived'[r] = [version |-> Len(history), at |-> clock]
            BY <5>2 DEF TypeOK
          <6>2. arrived'[r].version = Len(history) /\ Len(history') = Len(history)
            BY <5>2, <6>1
          <6>3. Len(history) \in 1..Len(history)
            BY <1>1 DEF HistoryCurrent
          <6> QED
            BY <6>2, <6>3
        <5>5. pc'[r] \in {"UnsupportedGrantType", "UnsupportedTokenType", "verify"}
          BY <5>1, <5>2 DEF TypeOK
        <5> QED
          BY <5>3, <5>4, <5>5 DEF Explained, Reads, IssuedOK, RefusedOK
      <4>2. CASE VerifyToken(r)
        BY <4>2 DEF VerifyToken, Goto, TypeOK, Explained, Reads, IssuedOK, RefusedOK
      <4>3. CASE ResolveMemory(r) \/ ResolvePostgres(r) \/ ResolveScopesPostgres(r)
        BY <4>3, ReadExplained
      <4>4. CASE Build(r)
        BY <4>4, BuildExplained
      <4>5. CASE Sign(r)
        <5>1. /\ pc[r] = "sign" /\ pc'[r] \in {"issued", "Generation"}
              /\ UNCHANGED <<history, form, arrived, client, token>>
          BY <4>5 DEF Sign, Goto, TypeOK
        <5>2. \A i, j \in Window(r) : TokenJustified(r, i, j) => TokenJustified(r, i, j)'
          BY <5>1 DEF TokenJustified, Entitles, GrantsScopes, ExpansionIn, Key, Requested
        <5>3. Window(r)' = Window(r) /\ Requested(r)' = Requested(r)
          BY <5>1 DEF Window, Requested
        <5>4. Reads(r)' /\ RefusedOK(r)'
          BY <5>1, <5>3 DEF Explained, Reads, RefusedOK
        <5>5. IssuedOK(r)'
          BY <5>1, <5>2, <5>3 DEF Explained, IssuedOK
        <5> QED
          BY <5>4, <5>5 DEF Explained
      <4> QED
        BY <2>3, <4>1, <4>2, <4>3, <4>4, <4>5 DEF Work
    <3> QED
      BY <2>1, <3>1, <3>2, Frame
  <2> QED
    BY <1>3, <2>1, <2>2, <2>3 DEF Next
<1> QED
  BY <1>2, <1>3

(* The inductive invariant holds in every reachable state. *)
LEMMA Invariance == Spec => []IInv
<1>1. Init => IInv
  <2> SUFFICES ASSUME Init PROVE IInv
    OBVIOUS
  <2>1. TypeOK /\ Progress
    BY TypeInit
  <2>2. HistoryCurrent
    BY DEF Init, HistoryCurrent
  <2>3. ASSUME NEW r \in Requests
        PROVE  Explained(r)
    BY DEF Init, Explained, Reads, IssuedOK, RefusedOK
  <2> QED
    BY <2>1, <2>2, <2>3 DEF IInv
<1> QED
  BY <1>1, ExplainedStep, PTL DEF Spec

(* Every token is justified by versions of the policy in force while its   *)
(* request ran, for any number of requests, any policy changes in between  *)
(* and both backends (exchange_token with resolve_mapping and verify).     *)
THEOREM IssuedAlwaysJustified == Spec => []IssuedJustified
<1>1. IInv => IssuedJustified
  BY DEF IInv, Explained, IssuedOK, IssuedJustified
<1> QED
  BY <1>1, Invariance, PTL

(* Every refusal for lack of authorization or for a claim conflict is      *)
(* justified by versions of the policy in force while the request ran.     *)
THEOREM RefusalAlwaysJustified == Spec => []RefusalJustified
<1>1. IInv => RefusalJustified
  BY DEF IInv, Explained, RefusedOK, RefusalJustified
<1> QED
  BY <1>1, Invariance, PTL

-----------------------------------------------------------------------------
(* Revocation.  A version that is newer than the arrival of a request is   *)
(* not older than it in time.                                              *)

Timed(r) ==
  /\ arrived[r].at <= clock
  /\ \A k \in 1..Len(history) : k > arrived[r].version => arrived[r].at <= history[k].at
  /\ token[r] # None => token[r].exp = token[r].iat + Ttl

AllTimed == \A r \in Requests : Timed(r)

(* Every step keeps versions, arrivals and tokens in their order of time.  *)
LEMMA TimedStep == IInv /\ AllTimed /\ [Next]_vars => AllTimed'
<1> SUFFICES ASSUME IInv, AllTimed, [Next]_vars, NEW q \in Requests
             PROVE  Timed(q)'
  BY DEF AllTimed
<1>1. /\ clock \in Nat /\ arrived[q].at \in Nat /\ arrived[q].version \in Nat
      /\ Len(history) \in Nat /\ history \in Seq(Version) /\ Timed(q)
      /\ arrived \in [Requests -> [version : Nat, at : Nat]]
      /\ DOMAIN token = Requests
  <2>1. TypeOK /\ Timed(q)
    BY DEF IInv, AllTimed
  <2>2. /\ clock \in Nat /\ history \in Seq(Version)
        /\ arrived \in [Requests -> [version : Nat, at : Nat]]
    BY <2>1 DEF TypeOK
  <2>3. DOMAIN token = Requests
    BY <2>1 DEF TypeOK, TokenTypeOK
  <2>4. arrived[q].at \in Nat /\ arrived[q].version \in Nat /\ Len(history) \in Nat
    BY <2>2
  <2> QED
    BY <2>1, <2>2, <2>3, <2>4
<1>2. CASE PolicyChange
  <2> DEFINE v == [at |-> clock, entries |-> entries', scope_mappings |-> scope_mappings']
  <2>1. /\ history' = Append(history, v)
        /\ UNCHANGED <<clock, arrived, token>>
    BY <1>2 DEF PolicyChange, request
  <2>2. v.at = clock
    OBVIOUS
  <2> HIDE DEF v
  <2>3. ASSUME NEW k \in 1..Len(history'), k > arrived[q].version
        PROVE  arrived[q].at <= history'[k].at
    <3>1. CASE k \in 1..Len(history)
      BY <1>1, <2>1, <2>3, <3>1 DEF Timed
    <3>2. CASE k = Len(history) + 1
      BY <1>1, <2>1, <2>2, <3>2 DEF Timed
    <3> QED
      BY <1>1, <2>1, <3>1, <3>2
  <2> QED
    BY <1>1, <2>1, <2>3 DEF Timed
<1>3. CASE Tick
  BY <1>1, <1>3 DEF Tick, request, Timed
<1>4. CASE UNCHANGED vars
  BY <1>1, <1>4 DEF vars, request, Timed
<1>5. ASSUME NEW r \in Requests, NEW f \in Forms, Receive(r, f)
      PROVE  Timed(q)'
  <2>1. /\ arrived' = [arrived EXCEPT ![r] = [version |-> Len(history), at |-> clock]]
        /\ UNCHANGED <<clock, history, token>>
    BY <1>5, Zenon DEF Receive
  <2>2. CASE q # r
    <3>1. arrived'[q] = arrived[q]
      BY <2>1, <2>2
    <3> QED
      BY <1>1, <2>1, <3>1 DEF Timed
  <2>3. CASE q = r
    <3>1. arrived'[q].version = Len(history) /\ arrived'[q].at = clock
      BY <1>1, <2>1, <2>3
    <3>2. arrived'[q].at <= clock'
      BY <1>1, <2>1, <3>1
    <3>3. ASSUME NEW k \in 1..Len(history'), k > arrived'[q].version PROVE FALSE
      BY <1>1, <2>1, <3>1, <3>3
    <3>4. token'[q] # None => token'[q].exp = token'[q].iat + Ttl
      BY <1>1, <2>1 DEF Timed
    <3> QED
      BY <3>2, <3>3, <3>4 DEF Timed
  <2> QED
    BY <2>2, <2>3
<1>6. ASSUME NEW r \in Requests, Build(r)
      PROVE  Timed(q)'
  <2>1. /\ UNCHANGED <<clock, history, arrived>>
        /\ \/ token'[q] = token[q]
           \/ token'[q] = None
           \/ \E aud, claims : token'[q] = TokenFor(r, aud, claims)
    BY <1>1, <1>6 DEF Build
  <2>2. \A aud, claims : TokenFor(r, aud, claims).exp = TokenFor(r, aud, claims).iat + Ttl
    BY DEF TokenFor
  <2>3. token'[q] # None => token'[q].exp = token'[q].iat + Ttl
    BY <1>1, <2>1, <2>2 DEF Timed
  <2> QED
    BY <1>1, <2>1, <2>3 DEF Timed
<1>7. ASSUME NEW r \in Requests, VerifyToken(r) \/ ResolveMemory(r) \/ ResolvePostgres(r)
                                   \/ ResolveScopesPostgres(r) \/ Sign(r)
      PROVE  Timed(q)'
  BY <1>1, <1>7 DEF VerifyToken, ResolveMemory, ResolvePostgres, ResolveScopesPostgres, Sign, Timed
<1> QED
  BY <1>2, <1>3, <1>4, <1>5, <1>6, <1>7 DEF Next, Work

(* The arithmetic of the bound. *)
LEMMA Latency ==
  ASSUME NEW t \in Nat, NEW iat \in Nat, NEW a \in Nat, NEW h \in Nat, NEW e,
         e = iat + t, a <= h
  PROVE  e <= h + t + (iat - a)
OBVIOUS

(* A token outlives a lasting revocation by at most its lifetime and the   *)
(* time its request had been in flight.                                    *)
THEOREM RevocationAlwaysBounded == Spec => []RevocationBounded
<1>1. Init => AllTimed
  BY DEF Init, AllTimed, Timed
<1>2. IInv /\ AllTimed => RevocationBounded
  <2> SUFFICES ASSUME IInv, AllTimed, NEW r \in Requests, token[r] # None,
                      NEW j \in DOMAIN history, RevokedAt(j, r)
               PROVE  token[r].exp <= history[j].at + Ttl + (token[r].iat - arrived[r].at)
    BY DEF RevocationBounded
  <2>1. /\ Len(history) \in Nat /\ DOMAIN history = 1..Len(history)
        /\ arrived[r].version \in Nat /\ arrived[r].at \in Nat
        /\ token[r].iat \in Nat /\ history[j].at \in Nat /\ Ttl \in Nat
    <3>1. history \in Seq(Version) /\ arrived[r] \in [version : Nat, at : Nat]
      BY DEF IInv, TypeOK
    <3>2. history[j] \in Version /\ Len(history) \in Nat /\ DOMAIN history = 1..Len(history)
      BY <3>1
    <3>3. token[r].iat \in Nat
      BY DEF IInv, TypeOK, TokenTypeOK
    <3> QED
      BY <3>1, <3>2, <3>3, ExchangeAssumption DEF Version
  <2>2. PICK i \in Window(r) : Entitles(history[i], r)
    BY DEF IInv, Explained, IssuedOK, TokenJustified
  <2>3. i \in arrived[r].version..Len(history) /\ i \notin j..Len(history)
    BY <2>2 DEF Window, RevokedAt
  <2>4. j > arrived[r].version
    BY <2>1, <2>3
  <2>5. token[r].exp = token[r].iat + Ttl /\ arrived[r].at <= history[j].at
    BY <2>1, <2>4 DEF AllTimed, Timed
  <2> QED
    BY <2>1, <2>5, Latency
<1> QED
  BY <1>1, <1>2, TimedStep, Invariance, PTL DEF Spec
=============================================================================
