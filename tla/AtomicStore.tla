---------------------------- MODULE AtomicStore -----------------------------
(* What the callers of a ResourceStore on a database may assume: an          *)
(* operation takes effect at once and at most once, its result is the one of *)
(* ResourceStore in the state it took effect in, and it returns that result  *)
(* or a DatabaseError, which leaves open whether it took or will take effect.*)
EXTENDS ResourceStore

CONSTANTS
  Calls,       \* calls of the store
  Operations   \* what they ask for

VARIABLES op, performed, reply

avars == <<store, op, performed, reply>>

AInit ==
  /\ StoreInit
  /\ op = [c \in Calls |-> None]
  /\ performed = [c \in Calls |-> "none"]
  /\ reply = [c \in Calls |-> "none"]

(* The operation o of ResourceStore, with the result res. *)
Apply(o, res) ==
  \/ o.name = "save_mapping" /\ save_mapping(o.key, o.mapping, res)
  \/ o.name = "update_mapping" /\ update_mapping(o.key, o.mapping, res)
  \/ o.name = "remove_mapping" /\ remove_mapping(o.key, res)
  \/ o.name = "remove_mappings_for" /\ remove_mappings_for(o.client, res)
  \/ o.name = "save_scope_mappings" /\ save_scope_mappings(o.batch, res)
  \/ o.name = "update_scope_mapping" /\ update_scope_mapping(o.row, res)
  \/ o.name = "remove_scope_mapping" /\ remove_scope_mapping(o.scope, res)

Issue(c, o) ==
  /\ op[c] = None
  /\ op' = [op EXCEPT ![c] = o]
  /\ UNCHANGED <<store, performed, reply>>

Perform(c) ==
  /\ op[c] # None
  /\ performed[c] = "none"
  /\ \E res \in {"Ok", "Conflict", "NotFound"} :
       /\ Apply(op[c], res)
       /\ performed' = [performed EXCEPT ![c] = res]
  /\ UNCHANGED <<op, reply>>

Return(c) ==
  /\ op[c] # None
  /\ reply[c] = "none"
  /\ \/ performed[c] # "none" /\ reply' = [reply EXCEPT ![c] = performed[c]]
     \/ reply' = [reply EXCEPT ![c] = "DatabaseError"]
  /\ UNCHANGED <<store, op, performed>>

ANext ==
  \E c \in Calls : (\E o \in Operations : Issue(c, o)) \/ Perform(c) \/ Return(c)

ASpec == AInit /\ [][ANext]_avars
=============================================================================
