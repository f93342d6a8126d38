------------------------------ MODULE Verifier ------------------------------
(* What the token exchange and the management API rely on when they call     *)
(* JwtVerifier::verify_token: a call ends once, and it ends with an identity *)
(* only for a subject token that the cluster vouches for.  How the verifier  *)
(* authenticates itself to the cluster is none of its callers' business.     *)
CONSTANTS Calls, Subjects, Trusted, None

VARIABLES subject, outcome

vvars == <<subject, outcome>>

VInit ==
  /\ subject = [c \in Calls |-> None]
  /\ outcome = [c \in Calls |-> "none"]

Begin(c, s) ==
  /\ subject[c] = None
  /\ subject' = [subject EXCEPT ![c] = s]
  /\ UNCHANGED outcome

Accept(c) ==
  /\ subject[c] \in Trusted
  /\ outcome[c] = "none"
  /\ outcome' = [outcome EXCEPT ![c] = "accepted"]
  /\ UNCHANGED subject

Fail(c) ==
  /\ subject[c] # None
  /\ outcome[c] = "none"
  /\ outcome' = [outcome EXCEPT ![c] = "failed"]
  /\ UNCHANGED subject

VNext ==
  \E c \in Calls : (\E s \in Subjects : Begin(c, s)) \/ Accept(c) \/ Fail(c)

VSpec == VInit /\ [][VNext]_vvars

VFairSpec == VSpec /\ \A c \in Calls : WF_vvars(Accept(c) \/ Fail(c))
=============================================================================
