------------------------------- MODULE Policy -------------------------------
(***************************************************************************)
(* The data of jwtlet's authorization policy and the pure functions on it: *)
(* validation of what the management API writes, expansion of the          *)
(* requested scopes into claims, and the choice of the audience            *)
(* (jwtlet-core: resource/mod.rs and token/mod.rs).                        *)
(*                                                                         *)
(* A resource mapping lets one client act in one participant context with  *)
(* a set of scopes and an allowlist of audiences.  A scope mapping gives a *)
(* scope the claims it adds to a token.                                    *)
(***************************************************************************)
EXTENDS Naturals, Sequences, FiniteSetsExt

CONSTANTS
  Clients,          \* client identifiers
  Contexts,         \* participant contexts
  Scopes,           \* scope names, numbered in the order of their strings
  Audiences,        \* audience names
  ClaimKeys,        \* claim keys
  Atoms,            \* JSON values a scope mapping can give to a claim
  Strings,          \* those that are JSON strings
  RESERVED_CLAIMS,  \* keys that only the token service may set
  Blank,            \* clients, contexts and audiences that trim to nothing
  BadScopes,        \* scope names that are empty or contain whitespace
  DefaultAudience,  \* token.audience of the configuration
  None              \* Rust's None

ASSUME PolicyAssumption ==
  /\ Scopes \subseteq Nat
  /\ Strings \subseteq Atoms
  /\ RESERVED_CLAIMS \subseteq ClaimKeys
  /\ DefaultAudience \in Audiences
  /\ None \notin Audiences

Keys == Clients \X Contexts

ResourceMapping == [scopes : SUBSET Scopes, audiences : SUBSET Audiences]

ClaimMap == UNION {[K -> Atoms] : K \in SUBSET ClaimKeys}

ScopeMapping == [scope : Scopes, claims : ClaimMap]

-----------------------------------------------------------------------------
(* Validation of a write. *)

validate_scope_name(s) == s \notin BadScopes

validate_resource_mapping(key, m) ==
  /\ key[1] \notin Blank
  /\ key[2] \notin Blank
  /\ \A s \in m.scopes : validate_scope_name(s)
  /\ m.audiences \cap Blank = {}

validate_scope_claims(claims) == DOMAIN claims \cap RESERVED_CLAIMS = {}

\* Mutant: the keys of the claims are not looked at.
NameOnlyValidation(sm) ==
  IF validate_scope_name(sm.scope) THEN "Ok" ELSE "InvalidMapping"

\* The error a scope mapping is refused with; "Ok" when it is valid.
validate_scope_mapping(sm) ==
  IF ~validate_scope_name(sm.scope)         THEN "InvalidMapping"
  ELSE IF ~validate_scope_claims(sm.claims) THEN "ReservedClaim"
  ELSE "Ok"

\* Every row of the two tables passes the validation.
RowsValid(entries, scope_mappings) ==
  /\ \A key \in Keys : entries[key] # None => validate_resource_mapping(key, entries[key])
  /\ \A s \in Scopes : scope_mappings[s] # None =>
       /\ validate_scope_name(s)
       /\ validate_scope_claims(scope_mappings[s])

-----------------------------------------------------------------------------
(* Expansion of scopes into claims.  A claim of the result is the sequence *)
(* of the values joined into it: one value, or the strings that are        *)
(* written one after another with a space between them.                    *)

\* What resolve_mapping returns beside a mapping: the claims of its scopes.
ScopeMappingsOf(m, scope_mappings) ==
  [s \in Scopes |-> IF s \in m.scopes THEN scope_mappings[s] ELSE None]

NoClaims == [k \in {} |-> <<>>]

\* Mutant: only the value that is there already must be a string.
LenientMerge(acc, claims) ==
  LET both  == DOMAIN acc.claims \cap DOMAIN claims
      clash == \E k \in both : acc.claims[k][1] \notin Strings
      old(k) == IF k \in DOMAIN acc.claims THEN acc.claims[k] ELSE <<>>
      add(k) == IF k \in DOMAIN claims THEN <<claims[k]>> ELSE <<>>
  IN  IF ~acc.ok \/ clash
      THEN [ok |-> FALSE, claims |-> NoClaims]
      ELSE [ok     |-> TRUE,
            claims |-> [k \in DOMAIN acc.claims \cup DOMAIN claims |-> old(k) \o add(k)]]

\* Adds the claims of one scope to those of the scopes before it.  A key that
\* is there already is extended when both values are strings, and is a
\* ClaimConflict otherwise.
MergeClaims(acc, claims) ==
  LET old(k)  == IF k \in DOMAIN acc.claims THEN acc.claims[k] ELSE <<>>
      add(k)  == IF k \in DOMAIN claims THEN <<claims[k]>> ELSE <<>>
      clash   == \E k \in DOMAIN acc.claims \cap DOMAIN claims :
                   ~({acc.claims[k][1], claims[k]} \subseteq Strings)
  IN  IF ~acc.ok \/ clash
      THEN [ok |-> FALSE, claims |-> NoClaims]
      ELSE [ok     |-> TRUE,
            claims |-> [k \in DOMAIN acc.claims \cup DOMAIN claims |-> old(k) \o add(k)]]

\* The loop of ResourceService::verify over the BTreeSet of requested scopes:
\* ascending, so the largest scope is merged last.  A scope without a scope
\* mapping adds nothing.
ExpandScopes(scopes, scope_mappings) ==
  LET merge(s, acc) == IF scope_mappings[s] = None THEN acc
                       ELSE MergeClaims(acc, scope_mappings[s])
  IN  MapThenFoldSet(merge, [ok |-> TRUE, claims |-> NoClaims],
                     LAMBDA s : s, Max, scopes)

\* Mutant: the claims reach the token as they are.
KeepReserved(claims) == claims

\* The claims that reach a token: reserved keys are dropped once more.
DropReserved(claims) == [k \in DOMAIN claims \ RESERVED_CLAIMS |-> claims[k]]

\* Mutant: an empty allowlist permits nothing, not even the default.
StrictAudience(requested, allowed) ==
  LET aud == IF requested = None THEN DefaultAudience ELSE requested
  IN  IF aud \in allowed THEN aud ELSE None

\* The audience of the issued token, None when the request is unauthorized.
resolve_audience(requested, allowed) ==
  CASE requested = None /\ allowed = {}                      -> DefaultAudience
    [] requested = None /\ DefaultAudience \in allowed       -> DefaultAudience
    [] requested # None /\ allowed = {} /\ requested = DefaultAudience -> requested
    [] requested # None /\ requested \in allowed             -> requested
    [] OTHER                                                 -> None

-----------------------------------------------------------------------------
(* Reference definitions the functions above are compared with. *)

\* The scopes of a request that define a claim key.
Definers(scopes, scope_mappings, k) ==
  {s \in scopes : scope_mappings[s] # None /\ k \in DOMAIN scope_mappings[s]}

\* A request is in conflict when two of its scopes define a key that is not a
\* string in all of them.
Conflicting(scopes, scope_mappings) ==
  \E k \in ClaimKeys : \E s, t \in Definers(scopes, scope_mappings, k) :
     s # t /\ scope_mappings[s][k] \notin Strings

\* The value of a key: what its definers say, in scope order.
JoinedValue(scopes, scope_mappings, k) ==
  LET D == Definers(scopes, scope_mappings, k)
  IN  [i \in 1..Cardinality(D) |->
         scope_mappings[CHOOSE s \in D : Cardinality({t \in D : t < s}) = i - 1][k]]

\* An empty allowlist means the default audience only.
AudiencePermitted(aud, allowed) ==
  aud \in (IF allowed = {} THEN {DefaultAudience} ELSE allowed)
=============================================================================
