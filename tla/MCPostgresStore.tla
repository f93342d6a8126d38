-------------------------- MODULE MCPostgresStore ---------------------------
(* Small instances of the Postgres store. *)
EXTENDS PostgresStore

Reader == [k \in {"role"} |-> "reader"]
Row(s, claims) == [scope |-> s, claims |-> claims]
Mapping(scopes) == [scopes |-> scopes, audiences |-> {}]
Key == <<"sa", "ctx">>

Batch(rows) == [name |-> "save_scope_mappings", batch |-> rows]

(* Two batches in opposite order, the second of which repeats a scope. *)
MCBatches == {Batch(<<Row(1, NoClaims), Row(2, NoClaims)>>),
              Batch(<<Row(2, Reader), Row(1, Reader), Row(2, NoClaims)>>)}

MCScopeOperations ==
  MCBatches \cup {[name |-> "update_scope_mapping", row |-> Row(1, Reader)],
                  [name |-> "remove_scope_mapping", scope |-> 1]}

MCMappingOperations ==
  {[name |-> "save_mapping", key |-> Key, mapping |-> Mapping({1})],
   [name |-> "update_mapping", key |-> Key, mapping |-> Mapping({1, 2})],
   [name |-> "remove_mapping", key |-> Key],
   [name |-> "remove_mappings_for", client |-> "sa"]}

MCOperations == MCScopeOperations \cup MCMappingOperations
=============================================================================
