------------------------------ MODULE SaToken -------------------------------
(* The Kubernetes TokenReview verifier.  jwtlet authenticates itself to the  *)
(* API server with its own service account token, which the kubelet rotates  *)
(* in a file.  The token is cached; a renewer task re-reads the file when    *)
(* the file watcher raises an event, and a call whose cached token gets a    *)
(* 401 re-reads the file itself and tries once more.  Tokens are numbered in *)
(* the order in which the kubelet writes them.                               *)
EXTENDS Naturals, Sequences

CONSTANTS
  Calls,       \* calls of verify_token
  Subjects,    \* subject tokens that callers present
  status,      \* what a TokenReview says of a subject token
  Audience,    \* the audience that jwtlet asks about
  Capacity,    \* bound of the event channel
  MaxVersion,  \* bound on the tokens the kubelet writes
  Faults,      \* which faults happen: "read", "api", "watch"
  None

VARIABLES
  file,        \* the token in the file
  oldest,      \* the API server refuses tokens before this one
  phase,       \* of the verifier
  cache,       \* SaTokenState::token
  watching, raised, queue,  \* the watch, its undelivered events, the channel
  renewer, read,            \* the renewer task and the token it has just read
  noticed,     \* newest token the renewer has looked for since the watch began
  missed,      \* a rotation's event was dropped with no other one to stand in
  pc, subject, sa_token,    \* of a call; sa_token is the token it sends
  since        \* the token in the file when the call began

env == <<file, oldest>>
watch == <<watching, raised, queue, missed>>
renewal == <<renewer, read, noticed>>
call == <<pc, subject, sa_token, since>>
savars == <<env, phase, cache, watch, renewal, call>>

Versions == 1 .. MaxVersion
EventKinds == {"change", "other", "error"}
Done == {"accepted", "rejected", "error", "unauthorized", "gone"}

TokenReviewStatus ==
  [authenticated : BOOLEAN, audiences : SUBSET {Audience, "other"},
   user : [prefixed : BOOLEAN, grouped : BOOLEAN] \cup {None}]

ASSUME SaAssumption ==
  /\ Capacity \in Nat \ {0}
  /\ MaxVersion \in Nat \ {0}
  /\ Faults \subseteq {"read", "api", "watch"}
  /\ status \in [Subjects -> TokenReviewStatus]
  /\ None \notin Subjects

(* The variables range over their types. *)
SaTypeOK ==
  /\ file \in Versions
  /\ oldest \in 1 .. MaxVersion + 1
  /\ phase \in {"new", "read", "ready", "failed", "dropped"}
  /\ cache \in 0 .. MaxVersion
  /\ watching \in BOOLEAN /\ missed \in BOOLEAN
  /\ raised \in Nat
  /\ queue \in Seq(EventKinds) /\ Len(queue) <= Capacity
  /\ renewer \in {"off", "select", "woken", "store", "failed", "stopped"}
  /\ read \in 0 .. MaxVersion
  /\ noticed \in 0 .. MaxVersion
  /\ pc \in [Calls -> {"idle", "begin", "review", "reread", "store", "retry"} \cup Done]
  /\ subject \in [Calls -> Subjects \cup {None}]
  /\ sa_token \in [Calls -> 0 .. MaxVersion]
  /\ since \in [Calls -> 0 .. MaxVersion]

SaInit ==
  /\ file = 1 /\ oldest = 1
  /\ phase = "new" /\ cache = 0
  /\ watching = FALSE /\ raised = 0 /\ queue = <<>> /\ missed = FALSE
  /\ renewer = "off" /\ read = 0 /\ noticed = 0
  /\ pc = [c \in Calls |-> "idle"]
  /\ subject = [c \in Calls |-> None]
  /\ sa_token = [c \in Calls |-> 0]
  /\ since = [c \in Calls |-> 0]

-----------------------------------------------------------------------------
(* The cluster: the kubelet replaces the file, the API server stops          *)
(* accepting the oldest token, which may be the one in the file.             *)
Rotate ==
  /\ file < MaxVersion
  /\ file' = file + 1
  /\ raised' = IF watching THEN raised + 1 ELSE raised
  /\ UNCHANGED <<oldest, phase, cache, watching, queue, missed, renewal, call>>

Expire ==
  /\ oldest <= file
  /\ oldest' = oldest + 1
  /\ UNCHANGED <<file, phase, cache, watch, renewal, call>>

-----------------------------------------------------------------------------
(* The watcher: its callback never blocks; an event that finds the channel   *)
(* full is dropped.                                                          *)
\* Mutant: the channel is not bounded.
send_unbounded(kind) == queue' = Append(queue, kind)

try_send(kind) ==
  queue' = IF Len(queue) < Capacity THEN Append(queue, kind) ELSE queue

ChangePending == \E i \in DOMAIN queue : queue[i] = "change"

Notify ==
  /\ raised > 0
  /\ raised' = raised - 1
  /\ try_send("change")
  /\ missed' = (missed \/ /\ Len(queue) = Capacity
                          /\ ~ChangePending
                          /\ renewer # "woken")
  /\ UNCHANGED <<env, phase, cache, watching, renewal, call>>

NotifyOther(kind) ==
  /\ watching
  /\ kind = "error" => "watch" \in Faults
  /\ try_send(kind)
  /\ UNCHANGED <<env, phase, cache, watching, raised, missed, renewal, call>>

(* The watched inode can disappear without a word. *)
LoseWatch ==
  /\ "watch" \in Faults
  /\ watching
  /\ watching' = FALSE
  /\ UNCHANGED <<env, phase, cache, raised, queue, missed, renewal, call>>

-----------------------------------------------------------------------------
(* initialize: the file is read before the watch begins.  A second call      *)
(* returns at once and changes nothing.                                      *)
InitializeRead ==
  /\ phase = "new"
  /\ \/ phase' = "read" /\ cache' = file
     \/ "read" \in Faults /\ phase' = "failed" /\ UNCHANGED cache
  /\ UNCHANGED <<env, watch, renewal, call>>

InitializeWatch ==
  /\ phase = "read"
  /\ \/ /\ phase' = "ready"
        /\ watching' = TRUE
        /\ renewer' = "select"
        /\ noticed' = file
     \/ /\ "watch" \in Faults
        /\ phase' = "failed"
        /\ UNCHANGED <<watching, renewer, noticed>>
  /\ UNCHANGED <<env, cache, raised, queue, missed, read, call>>

(* Dropping the verifier drops the TaskHandle, which tells the renewer to    *)
(* stop.  A call borrows the verifier, so none is running.                   *)
Drop ==
  /\ phase = "ready"
  /\ \A c \in Calls : pc[c] \in {"idle"} \cup Done
  /\ phase' = "dropped"
  /\ UNCHANGED <<env, cache, watch, renewal, call>>

-----------------------------------------------------------------------------
(* The renewer: select! between the next event and the shutdown, in random   *)
(* order when both are ready.  The task owns the watcher and ends with it,   *)
(* "stopped" by the shutdown or "failed" by an error of the watcher.         *)
Stop(how) ==
  /\ renewer' = how
  /\ watching' = FALSE /\ raised' = 0 /\ queue' = <<>>

wait_for_trigger ==
  /\ renewer = "select"
  /\ queue # <<>>
  /\ IF Head(queue) = "error"
     THEN Stop("failed")
     ELSE /\ queue' = Tail(queue)
          /\ renewer' = IF Head(queue) = "change" THEN "woken" ELSE renewer
          /\ UNCHANGED <<watching, raised>>
  /\ UNCHANGED <<env, phase, cache, missed, read, noticed, call>>

\* Mutant: the loop is left at the first read that fails.
RenewerGivesUp ==
  /\ renewer = "woken"
  /\ noticed' = file
  /\ \/ read' = file /\ renewer' = "store" /\ UNCHANGED <<watching, raised, queue>>
     \/ "read" \in Faults /\ Stop("stopped") /\ UNCHANGED read
  /\ UNCHANGED <<env, phase, cache, missed, call>>

RenewerRead ==
  /\ renewer = "woken"
  /\ noticed' = file
  /\ \/ read' = file /\ renewer' = "store"
     \/ "read" \in Faults /\ renewer' = "select" /\ UNCHANGED read
  /\ UNCHANGED <<env, phase, cache, watch, call>>

\* Mutant: events that came in while the file was read are thrown away.
RenewerStoreAndDrain ==
  /\ renewer = "store"
  /\ cache' = read
  /\ queue' = <<>>
  /\ renewer' = "select"
  /\ UNCHANGED <<env, phase, watching, raised, missed, read, noticed, call>>

RenewerStore ==
  /\ renewer = "store"
  /\ cache' = read
  /\ renewer' = "select"
  /\ UNCHANGED <<env, phase, watch, read, noticed, call>>

\* Mutant: the value sent by the dropped handle is not looked at.
RenewerNeverStops ==
  /\ FALSE
  /\ UNCHANGED savars

RenewerShutdown ==
  /\ renewer = "select"
  /\ phase = "dropped"
  /\ Stop("stopped")
  /\ UNCHANGED <<env, phase, cache, missed, read, noticed, call>>

-----------------------------------------------------------------------------
(* verify_token. *)
verify_token(c, s) ==
  /\ pc[c] = "idle"
  /\ phase \in {"new", "ready"}
  /\ pc' = [pc EXCEPT ![c] = "begin"]
  /\ subject' = [subject EXCEPT ![c] = s]
  /\ since' = [since EXCEPT ![c] = file]
  /\ UNCHANGED <<env, phase, cache, watch, renewal, sa_token>>

(* The token is copied out of the cache before the request is sent. *)
ensure_initialized(c) ==
  /\ pc[c] = "begin"
  /\ IF phase = "ready"
     THEN /\ pc' = [pc EXCEPT ![c] = "review"]
          /\ sa_token' = [sa_token EXCEPT ![c] = cache]
     ELSE /\ pc' = [pc EXCEPT ![c] = "error"]
          /\ UNCHANGED sa_token
  /\ UNCHANGED <<env, phase, cache, watch, renewal, subject, since>>

is_service_account(user) == user.prefixed /\ user.grouped

\* Mutant: the audiences of the answer are not compared.
AnyAudience(s) ==
  LET st == status[s] IN
  IF st.authenticated /\ st.user # None
  THEN IF is_service_account(st.user) THEN "accepted" ELSE "rejected"
  ELSE "rejected"

(* The checks on a TokenReview that the API server answered. *)
Verdict(s) ==
  LET st == status[s] IN
  IF st.authenticated /\ Audience \in st.audiences /\ st.user # None
  THEN IF is_service_account(st.user) THEN "accepted" ELSE "rejected"
  ELSE "rejected"

(* The API server answers 401 for a token of jwtlet that it no longer        *)
(* accepts; any other failure ends the call, and so does a second 401.  The  *)
(* subject token can have expired by the time it is reviewed.  A 401 for a   *)
(* token that is still accepted is not among the answers.                    *)
call_token_review(c) ==
  /\ pc[c] \in {"review", "retry"}
  /\ \/ /\ sa_token[c] < oldest
        /\ pc' = [pc EXCEPT ![c] = IF @ = "review" THEN "reread" ELSE "unauthorized"]
     \/ /\ sa_token[c] >= oldest
        /\ \E v \in {Verdict(subject[c]), "rejected"} : pc' = [pc EXCEPT ![c] = v]
     \/ /\ "api" \in Faults
        /\ pc' = [pc EXCEPT ![c] = "error"]
  /\ UNCHANGED <<env, phase, cache, watch, renewal, subject, sa_token, since>>

\* Mutant: the retry takes the token that the renewer has left in the cache.
RereadCache(c) ==
  /\ pc[c] = "reread"
  /\ pc' = [pc EXCEPT ![c] = "store"]
  /\ sa_token' = [sa_token EXCEPT ![c] = cache]
  /\ UNCHANGED <<env, phase, cache, watch, renewal, subject, since>>

(* refresh_sa_token, before and after it waits for the write lock. *)
RefreshRead(c) ==
  /\ pc[c] = "reread"
  /\ \/ /\ pc' = [pc EXCEPT ![c] = "store"]
        /\ sa_token' = [sa_token EXCEPT ![c] = file]
     \/ /\ "read" \in Faults
        /\ pc' = [pc EXCEPT ![c] = "error"]
        /\ UNCHANGED sa_token
  /\ UNCHANGED <<env, phase, cache, watch, renewal, subject, since>>

RefreshStore(c) ==
  /\ pc[c] = "store"
  /\ cache' = sa_token[c]
  /\ pc' = [pc EXCEPT ![c] = "retry"]
  /\ UNCHANGED <<env, phase, watch, renewal, subject, sa_token, since>>

(* A caller that hangs up ends its call wherever the call is waiting. *)
Abandon(c) ==
  /\ pc[c] \notin {"idle"} \cup Done
  /\ pc' = [pc EXCEPT ![c] = "gone"]
  /\ UNCHANGED <<env, phase, cache, watch, renewal, subject, sa_token, since>>

-----------------------------------------------------------------------------
CallStep(c) ==
  \/ ensure_initialized(c)
  \/ call_token_review(c)
  \/ RefreshRead(c)
  \/ RefreshStore(c)

RenewerStep == wait_for_trigger \/ RenewerRead \/ RenewerStore \/ RenewerShutdown

SaNext ==
  \/ Rotate \/ Expire
  \/ Notify \/ (\E k \in {"other", "error"} : NotifyOther(k)) \/ LoseWatch
  \/ InitializeRead \/ InitializeWatch \/ Drop
  \/ wait_for_trigger \/ RenewerRead \/ RenewerStore \/ RenewerShutdown
  \/ \E c \in Calls : (\E s \in Subjects : verify_token(c, s)) \/ CallStep(c) \/ Abandon(c)

SaSpec == SaInit /\ [][SaNext]_savars

(* Tasks are scheduled, answers or timeouts arrive, and the watcher's thread *)
(* runs; select! takes each of two branches that are both ready again and    *)
(* again.  The kubelet, the callers and the faults owe nothing.              *)
SaFairSpec ==
  /\ SaSpec
  /\ WF_savars(Notify) /\ WF_savars(RenewerRead) /\ WF_savars(RenewerStore)
  /\ WF_savars(wait_for_trigger) /\ SF_savars(RenewerShutdown)
  /\ \A c \in Calls : WF_savars(CallStep(c))

-----------------------------------------------------------------------------
(* A call fails because of jwtlet's own token only when a token that the     *)
(* file held while the call ran is no longer accepted: neither a stale cache *)
(* nor a slow or dead renewer is ever the reason (refresh_sa_token and the   *)
(* single retry of verify_token).                                            *)
FailsOnlyForTheFile ==
  \A c \in Calls :
    pc[c] = "unauthorized" => since[c] <= sa_token[c] /\ sa_token[c] < oldest

(* While the renewer and its watch live, a rotation it has not looked for is *)
(* announced by an event on its way or by the read it is about to make, even *)
(* though the callback drops events when the channel is full and the renewer *)
(* takes one event for several rotations; the only exception is a channel    *)
(* full of other events.                                                     *)
NoLostWakeup ==
  (watching /\ ~missed /\ noticed < file)
    => raised > 0 \/ ChangePending \/ renewer = "woken"

WatchDied == ~watching /\ renewer # "stopped"

(* Every rotation is looked for from initialize until the verifier is        *)
(* dropped, also after reads that failed, unless the watcher dies or other   *)
(* events fill its channel (the loop of SaTokenRenewer::start).              *)
RotationsNoticed ==
  \A v \in Versions :
    (phase = "ready" /\ file = v)
      ~> (noticed >= v \/ phase = "dropped" \/ WatchDied \/ missed)

(* The renewer of a dropped verifier ends (the shutdown branch of select!).  *)
RenewerEnds == (phase = "dropped") ~> (renewer \in {"failed", "stopped"})

(* The verifier keeps its promise to the token exchange and the management   *)
(* API whatever happens to its own token: calls are decided once, by a       *)
(* review of the presented token, and are all decided.                       *)
Promise == INSTANCE Verifier WITH
  Trusted <- {s \in Subjects : /\ status[s].authenticated
                               /\ Audience \in status[s].audiences
                               /\ status[s].user = [prefixed |-> TRUE, grouped |-> TRUE]},
  outcome <- [c \in Calls |-> IF pc[c] \notin Done THEN "none"
                              ELSE IF pc[c] = "accepted" THEN "accepted" ELSE "failed"]

KeepsPromise == Promise!VFairSpec
=============================================================================
