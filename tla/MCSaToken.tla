----------------------------- MODULE MCSaToken ------------------------------
(* Small instances of the TokenReview verifier. *)
EXTENDS SaToken

ServiceAccount == [prefixed |-> TRUE, grouped |-> TRUE]
Person == [prefixed |-> TRUE, grouped |-> FALSE]
Said(ok, audiences, user) ==
  [authenticated |-> ok, audiences |-> audiences, user |-> user]

(* An answer that passes, one for another audience, one about a person. *)
Answers == <<Said(TRUE, {Audience}, ServiceAccount),
             Said(TRUE, {"other"}, ServiceAccount),
             Said(TRUE, {Audience, "other"}, Person)>>
AllSubjects == 1 .. Len(Answers)
AllStatuses == [s \in AllSubjects |-> Answers[s]]
=============================================================================
