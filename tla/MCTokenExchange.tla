--------------------------- MODULE MCTokenExchange ---------------------------
(* Small instances of TokenExchange for TLC. *)
EXTENDS TokenExchange

\* A narrow and a wide mapping, with the audience list empty and not.
MCMappings == {[scopes |-> {1}, audiences |-> {}],
               [scopes |-> {1, 2}, audiences |-> {"alt"}]}

\* A string, and a value that is none, for the same key.
MCClaimSets == {[k \in {"role"} |-> a] : a \in {"reader", "seven"}}

\* What someone put into the database: a reserved claim beside another one.
MCExternalClaims == {[k \in {"role", "sub"} |-> "reader"]}

MCForms ==
  [kind : {"exchange"}, resource : {"ctx"}, scope : {<<>>, <<1>>, <<2, 1, 2>>},
   audience : {None, "alt"}]
  \cup [kind : {"other_grant_type", "other_token_type"}, resource : {"ctx"},
        scope : {<<1>>}, audience : {None}]
=============================================================================
