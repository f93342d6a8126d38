-------------------------- MODULE MCResourceService --------------------------
(* Small instances of ResourceService for TLC. *)
EXTENDS ResourceService

\* Every claim map over the keys.
MCClaims == ClaimMap

\* Valid mappings, and one with a scope and one with an audience that is not.
MCMappings == {[scopes |-> {1}, audiences |-> {}], [scopes |-> {1, 2}, audiences |-> {"aud"}],
               [scopes |-> {3}, audiences |-> {}], [scopes |-> {1}, audiences |-> {" "}]}

\* Claims with and without a reserved key.
MCClaimSets == {[k \in {} |-> "reader"], [k \in {"role"} |-> "reader"],
                [k \in {"role", "sub"} |-> "reader"]}
=============================================================================
