---------------------------- MODULE MCManagement ----------------------------
(* Small instances of Management for TLC. *)
EXTENDS Management, TLC

Narrow == [scopes |-> {1}, audiences |-> {}]

Wide == [scopes |-> {1, 2}, audiences |-> {"aud"}]

\* A scope that cannot be requested.
Invalid == [scopes |-> {3}, audiences |-> {}]

Row(s, k) == [scope |-> s, claims |-> [x \in {k} |-> "reader"]]

K1 == <<"sa1", "ctx">>

K2 == <<"sa2", "ctx">>

MCMappings == {Narrow, Wide, Invalid}

MCClaimSets == {Row(1, "role").claims, Row(1, "sub").claims}

\* Every operation, with rows that two calls compete for, and every way to be
\* refused.
MCBodies ==
  {[op |-> "create_mapping", key |-> K1, mapping |-> m] : m \in MCMappings}
  \cup {[op |-> "update_mapping", path |-> K1, key |-> k, mapping |-> Wide] : k \in {K1, K2}}
  \cup {[op |-> "update_mapping", path |-> K1, key |-> K1, mapping |-> Invalid],
        [op |-> "create_mapping", key |-> K2, mapping |-> Narrow],
        [op |-> "delete_mapping", path |-> K1],
        [op |-> "delete_client_mappings", path |-> "sa1"],
        [op |-> "list_mappings"], [op |-> "list_scope_mappings"]}
  \cup {[op |-> "create_scope_mapping", batch |-> b] :
          b \in {<<>>, <<Row(1, "role"), Row(2, "role")>>, <<Row(2, "role"), Row(2, "role")>>,
                 <<Row(1, "role"), Row(2, "sub")>>, <<Row(3, "role")>>}}
  \cup {[op |-> "update_scope_mapping", path |-> 1, row |-> Row(s, k)] :
          s \in {1, 2}, k \in {"role", "sub"}}
  \cup {[op |-> "delete_scope_mapping", path |-> 1]}

\* An account for each role, of which one also reads; a subject without one.
MCActors == {"mapper", "scoper", "viewer", "stranger"}

MCAccounts == [a \in {"mapper", "scoper", "viewer"} |->
                 CASE a = "mapper" -> {"mappings:write"}
                   [] a = "scoper" -> {"scope:write", "management:read"}
                   [] a = "viewer" -> {"management:read"}]

\* Calls differ only in when they come.
CallSymmetry == Permutations(Calls)
=============================================================================
