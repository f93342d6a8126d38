--------------------------- MODULE ResourceService ---------------------------
(***************************************************************************)
(* ResourceService (jwtlet-core resource/mod.rs): every write of the       *)
(* management API is validated before it reaches the store.                *)
(***************************************************************************)
EXTENDS ResourceStore

CONSTANTS
  Mappings,   \* the resource mappings that requests carry
  ClaimSets,  \* the claims that scope mappings of requests carry
  MaxBatch    \* the longest batch of scope mappings

ASSUME ServiceAssumption ==
  /\ Mappings \subseteq ResourceMapping
  /\ ClaimSets \subseteq ClaimMap
  /\ MaxBatch \in Nat
  /\ None \notin ResourceMapping \cup ClaimMap

ScopeRows == [scope : Scopes, claims : ClaimSets]

Batches == UNION {[1..n -> ScopeRows] : n \in 0..MaxBatch}

save(key, m, res) ==
  IF validate_resource_mapping(key, m)
  THEN save_mapping(key, m, res)
  ELSE Refuse(res, "InvalidMapping")

update(key, m, res) ==
  IF validate_resource_mapping(key, m)
  THEN update_mapping(key, m, res)
  ELSE Refuse(res, "InvalidMapping")

\* The whole batch is validated before any of it is stored.
save_scopes(batch, res) ==
  \/ /\ \A i \in DOMAIN batch : validate_scope_mapping(batch[i]) = "Ok"
     /\ save_scope_mappings(batch, res)
  \/ \E i \in DOMAIN batch :
       /\ validate_scope_mapping(batch[i]) # "Ok"
       /\ \A j \in 1..(i - 1) : validate_scope_mapping(batch[j]) = "Ok"
       /\ Refuse(res, validate_scope_mapping(batch[i]))

update_scope(sm, res) ==
  IF validate_scope_mapping(sm) = "Ok"
  THEN update_scope_mapping(sm, res)
  ELSE Refuse(res, validate_scope_mapping(sm))

-----------------------------------------------------------------------------
\* One call of the service, by the operation it is.
Create(res) ==
  \/ \E key \in Keys, m \in Mappings : save(key, m, res)
  \/ \E batch \in Batches : save_scopes(batch, res)

Update(res) ==
  \/ \E key \in Keys, m \in Mappings : update(key, m, res)
  \/ \E sm \in ScopeRows : update_scope(sm, res)

Remove(res) ==
  \/ \E key \in Keys : remove_mapping(key, res)
  \/ \E client \in Clients : remove_mappings_for(client, res)
  \/ \E s \in Scopes : remove_scope_mapping(s, res)

Results == {"Ok", "Conflict", "NotFound", "InvalidMapping", "ReservedClaim"}

ServiceNext == \E res \in Results : Create(res) \/ Update(res) \/ Remove(res)

ServiceSpec == StoreInit /\ [][ServiceNext]_store

-----------------------------------------------------------------------------
(* Everything in the store passed the validation: no reserved claim, no    *)
(* scope that cannot be requested, no empty client, context or audience    *)
(* (validate_resource_mapping and validate_scope_mapping guard save,       *)
(* update, save_scope_mappings and update_scope_mapping, in batches too).  *)
PolicyValid == RowsValid(entries, scope_mappings)

(* The loop of ResourceService::verify computes what its comments promise, *)
(* for every set of requested scopes and every table of scope mappings     *)
(* that the validation admits: it fails exactly when two scopes define a   *)
(* key that is not a string in both, and otherwise every key has the       *)
(* values of its scopes joined in scope order.                             *)
ExpansionCorrect ==
  \A S \in {T \in SUBSET Scopes : IsFiniteSet(T)} :
  \A table \in [S -> {c \in ClaimMap : validate_scope_claims(c)} \cup {None}] :
    LET e == ExpandScopes(S, table)
    IN  /\ e.ok <=> ~Conflicting(S, table)
        /\ e.ok => /\ DOMAIN e.claims = {k \in ClaimKeys : Definers(S, table, k) # {}}
                   /\ \A k \in DOMAIN e.claims : e.claims[k] = JoinedValue(S, table, k)

(* docs/security-architecture.md, invariant 6: two requested scopes that   *)
(* expand to the same claim key make the exchange fail.                    *)
DuplicateKeyRejected ==
  \A S \in SUBSET Scopes :
    ExpandScopes(S, scope_mappings).ok =>
      \A k \in ClaimKeys : Cardinality(Definers(S, scope_mappings, k)) <= 1
=============================================================================
