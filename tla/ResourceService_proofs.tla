----------------------- MODULE ResourceService_proofs -----------------------
(***************************************************************************)
(* Proofs about ResourceService: the store keeps its types, and nothing    *)
(* but validated rows ever gets into it.                                   *)
(***************************************************************************)
EXTENDS ResourceService, TLAPS

(* The claims that a batch gives to one of its scopes are the claims of an *)
(* entry of the batch for that scope.                                      *)
LEMMA ClaimsOfBatch ==
  ASSUME NEW batch, NEW s, InBatch(batch, s)
  PROVE  \E i \in DOMAIN batch : batch[i].scope = s /\ ClaimsOf(batch, s) = batch[i].claims
BY DEF InBatch, ClaimsOf

(* The entries of a batch carry scopes and claims. *)
LEMMA BatchEntry ==
  ASSUME NEW batch \in Batches, NEW i \in DOMAIN batch
  PROVE  batch[i].scope \in Scopes /\ batch[i].claims \in ClaimMap
BY ServiceAssumption DEF Batches, ScopeRows

(* Every call of the service keeps the types of the store. *)
LEMMA ServiceType == StoreTypeOK /\ [ServiceNext]_store => StoreTypeOK'
<1> SUFFICES ASSUME StoreTypeOK, [ServiceNext]_store
             PROVE  StoreTypeOK'
  OBVIOUS
<1> USE ServiceAssumption DEF StoreTypeOK
<1>1. CASE UNCHANGED store
  BY <1>1 DEF store
<1>2. CASE ServiceNext
  <2> PICK res \in Results : Create(res) \/ Update(res) \/ Remove(res)
    BY <1>2 DEF ServiceNext
  <2>1. ASSUME NEW key \in Keys, NEW m \in Mappings, save(key, m, res)
        PROVE  StoreTypeOK'
    BY <2>1 DEF save, save_mapping, Refuse, store
  <2>2. ASSUME NEW batch \in Batches, save_scopes(batch, res)
        PROVE  StoreTypeOK'
    <3>1. ASSUME NEW s \in Scopes, InBatch(batch, s)
          PROVE  ClaimsOf(batch, s) \in ClaimMap
      BY <3>1, ClaimsOfBatch, BatchEntry
    <3> QED
      BY <2>2, <3>1 DEF save_scopes, save_scope_mappings, Refuse, store
  <2>3. ASSUME NEW key \in Keys, NEW m \in Mappings, update(key, m, res)
        PROVE  StoreTypeOK'
    BY <2>3 DEF update, update_mapping, Refuse, store
  <2>4. ASSUME NEW sm \in ScopeRows, update_scope(sm, res)
        PROVE  StoreTypeOK'
    BY <2>4 DEF update_scope, update_scope_mapping, ScopeRows, Refuse, store
  <2>5. ASSUME NEW key \in Keys, remove_mapping(key, res)
        PROVE  StoreTypeOK'
    BY <2>5 DEF remove_mapping
  <2>6. ASSUME NEW c \in Clients, remove_mappings_for(c, res)
        PROVE  StoreTypeOK'
    BY <2>6 DEF remove_mappings_for
  <2>7. ASSUME NEW s \in Scopes, remove_scope_mapping(s, res)
        PROVE  StoreTypeOK'
    BY <2>7 DEF remove_scope_mapping
  <2> QED
    BY <2>1, <2>2, <2>3, <2>4, <2>5, <2>6, <2>7 DEF Create, Update, Remove
<1> QED
  BY <1>1, <1>2

(* The store has its type in every reachable state. *)
THEOREM StoreTypeCorrect == ServiceSpec => []StoreTypeOK
<1>1. StoreInit => StoreTypeOK
  BY DEF StoreInit, StoreTypeOK
<1> QED
  BY <1>1, ServiceType, PTL DEF ServiceSpec

(* A call of the service leaves no row that its validation would refuse.   *)
LEMMA ServiceValid ==
  StoreTypeOK /\ PolicyValid /\ [ServiceNext]_store => PolicyValid'
<1> SUFFICES ASSUME StoreTypeOK, PolicyValid, [ServiceNext]_store
             PROVE  PolicyValid'
  OBVIOUS
<1> USE ServiceAssumption DEF StoreTypeOK, PolicyValid, RowsValid
<1>1. CASE UNCHANGED store
  BY <1>1 DEF store
<1>2. CASE ServiceNext
  <2> PICK res \in Results : Create(res) \/ Update(res) \/ Remove(res)
    BY <1>2 DEF ServiceNext
  <2>1. ASSUME NEW key \in Keys, NEW m \in Mappings, save(key, m, res)
        PROVE  PolicyValid'
    BY <2>1 DEF save, save_mapping, Refuse, store
  <2>2. ASSUME NEW batch \in Batches, save_scopes(batch, res)
        PROVE  PolicyValid'
    <3>1. CASE UNCHANGED store
      BY <3>1 DEF store
    <3>2. CASE ~UNCHANGED store
      <4>1. \A i \in DOMAIN batch : validate_scope_mapping(batch[i]) = "Ok"
        BY <2>2, <3>2 DEF save_scopes, Refuse
      <4>2. ASSUME NEW s \in Scopes, InBatch(batch, s)
            PROVE  validate_scope_name(s) /\ validate_scope_claims(ClaimsOf(batch, s))
        BY <4>1, <4>2, ClaimsOfBatch DEF validate_scope_mapping
      <4>3. /\ scope_mappings' = [s \in Scopes |-> IF InBatch(batch, s) THEN ClaimsOf(batch, s)
                                                   ELSE scope_mappings[s]]
            /\ UNCHANGED entries
        BY <2>2, <3>2 DEF save_scopes, save_scope_mappings, Refuse
      <4> QED
        BY <4>2, <4>3
    <3> QED
      BY <3>1, <3>2
  <2>3. ASSUME NEW key \in Keys, NEW m \in Mappings, update(key, m, res)
        PROVE  PolicyValid'
    BY <2>3 DEF update, update_mapping, Refuse, store
  <2>4. ASSUME NEW sm \in ScopeRows, update_scope(sm, res)
        PROVE  PolicyValid'
    BY <2>4 DEF update_scope, update_scope_mapping, validate_scope_mapping, ScopeRows, Refuse, store
  <2>5. ASSUME NEW key \in Keys, remove_mapping(key, res)
        PROVE  PolicyValid'
    BY <2>5 DEF remove_mapping
  <2>6. ASSUME NEW c \in Clients, remove_mappings_for(c, res)
        PROVE  PolicyValid'
    BY <2>6 DEF remove_mappings_for
  <2>7. ASSUME NEW s \in Scopes, remove_scope_mapping(s, res)
        PROVE  PolicyValid'
    BY <2>7 DEF remove_scope_mapping
  <2> QED
    BY <2>1, <2>2, <2>3, <2>4, <2>5, <2>6, <2>7 DEF Create, Update, Remove
<1> QED
  BY <1>1, <1>2

(* Whatever the management API is asked to write, in single calls or in    *)
(* batches, every row of the store satisfies the validation of resource    *)
(* mappings and scope mappings.                                            *)
THEOREM PolicyAlwaysValid == ServiceSpec => []PolicyValid
<1>1. StoreInit => PolicyValid
  BY DEF StoreInit, PolicyValid, RowsValid
<1>2. StoreTypeOK /\ PolicyValid /\ [ServiceNext]_store => PolicyValid'
  BY ServiceValid
<1> QED
  BY <1>1, <1>2, StoreTypeCorrect, PTL DEF ServiceSpec
=============================================================================
