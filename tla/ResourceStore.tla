---------------------------- MODULE ResourceStore ----------------------------
(***************************************************************************)
(* What a ResourceStore promises: every operation of the trait takes       *)
(* effect in one step.  MemoryResourceStore (jwtlet-core resource/mem.rs)  *)
(* is exactly this, because each operation holds the lock of InnerStore    *)
(* from its first read to its last write.                                  *)
(*                                                                         *)
(* An operation is an action with a parameter "res" for the result it      *)
(* returns: "Ok" or the name of a ResourceError.                           *)
(***************************************************************************)
EXTENDS Policy

VARIABLES
  entries,         \* (client, context) -> resource mapping or None
  scope_mappings   \* scope -> claims or None

store == <<entries, scope_mappings>>

StoreTypeOK ==
  /\ entries \in [Keys -> ResourceMapping \cup {None}]
  /\ scope_mappings \in [Scopes -> ClaimMap \cup {None}]

StoreInit ==
  /\ entries = [key \in Keys |-> None]
  /\ scope_mappings = [s \in Scopes |-> None]

\* An operation that fails leaves the store alone.
Refuse(res, error) == res = error /\ UNCHANGED store

-----------------------------------------------------------------------------
save_mapping(key, m, res) ==
  \/ /\ entries[key] # None
     /\ Refuse(res, "Conflict")
  \/ /\ entries[key] = None
     /\ res = "Ok"
     /\ entries' = [entries EXCEPT ![key] = m]
     /\ UNCHANGED scope_mappings

update_mapping(key, m, res) ==
  \/ /\ entries[key] = None
     /\ Refuse(res, "NotFound")
  \/ /\ entries[key] # None
     /\ res = "Ok"
     /\ entries' = [entries EXCEPT ![key] = m]
     /\ UNCHANGED scope_mappings

remove_mapping(key, res) ==
  /\ res = "Ok"
  /\ entries' = [entries EXCEPT ![key] = None]
  /\ UNCHANGED scope_mappings

remove_mappings_for(client, res) ==
  /\ res = "Ok"
  /\ entries' = [key \in Keys |-> IF key[1] = client THEN None ELSE entries[key]]
  /\ UNCHANGED scope_mappings

-----------------------------------------------------------------------------
\* A batch is a sequence of scope mappings.
InBatch(batch, s) == \E i \in DOMAIN batch : batch[i].scope = s

ClaimsOf(batch, s) == batch[CHOOSE i \in DOMAIN batch : batch[i].scope = s].claims

\* Some scope of the batch exists already, or repeats in the batch.
BatchConflict(batch) ==
  \/ \E i \in DOMAIN batch : scope_mappings[batch[i].scope] # None
  \/ \E i, j \in DOMAIN batch : i # j /\ batch[i].scope = batch[j].scope

save_scope_mappings(batch, res) ==
  \/ /\ BatchConflict(batch)
     /\ Refuse(res, "Conflict")
  \/ /\ ~BatchConflict(batch)
     /\ res = "Ok"
     /\ scope_mappings' = [s \in Scopes |-> IF InBatch(batch, s) THEN ClaimsOf(batch, s)
                                            ELSE scope_mappings[s]]
     /\ UNCHANGED entries

\* Mutant: the row is stored under its own scope a second time.
update_whole_row(sm, res) ==
  /\ res = "Ok"
  /\ scope_mappings' = [scope_mappings EXCEPT ![sm.scope] = sm]
  /\ UNCHANGED entries

update_scope_mapping(sm, res) ==
  \/ /\ scope_mappings[sm.scope] = None
     /\ Refuse(res, "NotFound")
  \/ /\ scope_mappings[sm.scope] # None
     /\ res = "Ok"
     /\ scope_mappings' = [scope_mappings EXCEPT ![sm.scope] = sm.claims]
     /\ UNCHANGED entries

remove_scope_mapping(s, res) ==
  /\ res = "Ok"
  /\ scope_mappings' = [scope_mappings EXCEPT ![s] = None]
  /\ UNCHANGED entries
=============================================================================
