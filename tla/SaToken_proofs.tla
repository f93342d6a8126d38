--------------------------- MODULE SaToken_proofs ---------------------------
(* Proofs about the TokenReview verifier, for any number of calls and of     *)
(* rotations and any capacity of the event channel.                          *)
EXTENDS SaToken, SequenceTheorems, TLAPS

(* What try_send does to the channel. *)
LEMMA TrySend ==
  ASSUME SaTypeOK, NEW kind \in EventKinds, try_send(kind)
  PROVE  /\ queue' \in Seq(EventKinds)
         /\ Len(queue') <= Capacity
         /\ Len(queue) < Capacity => queue' = Append(queue, kind)
         /\ Len(queue) = Capacity => queue' = queue
<1>1. Len(queue) \in Nat /\ Capacity \in Nat
  BY SaAssumption DEF SaTypeOK
<1>2. CASE Len(queue) < Capacity
  <2>1. queue' = Append(queue, kind)
    BY <1>2 DEF try_send
  <2>2. queue' \in Seq(EventKinds) /\ Len(queue') = Len(queue) + 1
    BY <2>1 DEF SaTypeOK
  <2> QED
    BY <1>1, <1>2, <2>1, <2>2
<1>3. CASE ~(Len(queue) < Capacity)
  BY <1>1, <1>3 DEF try_send, SaTypeOK
<1> QED
  BY <1>2, <1>3

-----------------------------------------------------------------------------
LEMMA TypeInit == SaInit => SaTypeOK
<1> SUFFICES ASSUME SaInit PROVE SaTypeOK
  OBVIOUS
<1>1. watching \in BOOLEAN /\ missed \in BOOLEAN
  BY Zenon DEF SaInit
<1>2. queue \in Seq(EventKinds) /\ Len(queue) <= Capacity
  BY SaAssumption DEF SaInit
<1>3. /\ file \in Versions
      /\ oldest \in 1 .. MaxVersion + 1
      /\ cache \in 0 .. MaxVersion /\ read \in 0 .. MaxVersion /\ noticed \in 0 .. MaxVersion
      /\ raised \in Nat
  BY SaAssumption DEF SaInit, Versions
<1>4. /\ pc \in [Calls -> {"idle", "begin", "review", "reread", "store", "retry"} \cup Done]
      /\ subject \in [Calls -> Subjects \cup {None}]
      /\ sa_token \in [Calls -> 0 .. MaxVersion]
      /\ since \in [Calls -> 0 .. MaxVersion]
  BY SaAssumption DEF SaInit
<1> QED
  BY <1>1, <1>2, <1>3, <1>4 DEF SaInit, SaTypeOK

LEMMA TypeStep == SaTypeOK /\ [SaNext]_savars => SaTypeOK'
<1> SUFFICES ASSUME SaTypeOK, [SaNext]_savars
             PROVE  SaTypeOK'
  OBVIOUS
<1> USE SaAssumption
<1>1. Rotate => SaTypeOK'
  BY DEF Rotate, SaTypeOK, Versions, renewal, call
<1>2. Expire => SaTypeOK'
  BY DEF Expire, SaTypeOK, Versions, watch, renewal, call
<1>3. Notify => SaTypeOK'
  <2> SUFFICES ASSUME Notify PROVE SaTypeOK'
    OBVIOUS
  <2>1. queue' \in Seq(EventKinds) /\ Len(queue') <= Capacity
    BY TrySend DEF Notify, EventKinds
  <2>2. raised' \in Nat /\ missed' \in BOOLEAN
    BY DEF Notify, SaTypeOK
  <2> QED
    BY <2>1, <2>2 DEF Notify, SaTypeOK, env, renewal, call
<1>4. \A k \in {"other", "error"} : NotifyOther(k) => SaTypeOK'
  <2> SUFFICES ASSUME NEW k \in {"other", "error"}, NotifyOther(k) PROVE SaTypeOK'
    OBVIOUS
  <2>1. queue' \in Seq(EventKinds) /\ Len(queue') <= Capacity
    BY TrySend DEF NotifyOther, EventKinds
  <2> QED
    BY <2>1 DEF NotifyOther, SaTypeOK, env, renewal, call
<1>5. LoseWatch => SaTypeOK'
  BY DEF LoseWatch, SaTypeOK, env, renewal, call
<1>6. InitializeRead => SaTypeOK'
  BY DEF InitializeRead, SaTypeOK, Versions, env, watch, renewal, call
<1>7. InitializeWatch => SaTypeOK'
  <2> SUFFICES ASSUME InitializeWatch PROVE SaTypeOK'
    OBVIOUS
  <2>1. watching' \in BOOLEAN
    BY Zenon DEF InitializeWatch, SaTypeOK
  <2>2. /\ phase' \in {"ready", "failed"}
        /\ renewer' \in {"off", "select", "woken", "store", "failed", "stopped"}
        /\ noticed' \in 0 .. MaxVersion
    BY DEF InitializeWatch, SaTypeOK, Versions
  <2> QED
    BY <2>1, <2>2 DEF InitializeWatch, SaTypeOK, env, call
<1>8. Drop => SaTypeOK'
  BY DEF Drop, SaTypeOK, env, watch, renewal, call
<1>9. wait_for_trigger => SaTypeOK'
  <2> SUFFICES ASSUME wait_for_trigger PROVE SaTypeOK'
    OBVIOUS
  <2>1. queue' \in Seq(EventKinds) /\ Len(queue') <= Capacity
    <3>1. Tail(queue) \in Seq(EventKinds) /\ Len(Tail(queue)) = Len(queue) - 1
      BY HeadTailProperties DEF wait_for_trigger, SaTypeOK
    <3>2. Len(queue) \in Nat /\ Len(<<>>) = 0 /\ <<>> \in Seq(EventKinds)
      BY DEF SaTypeOK
    <3>3. queue' = <<>> \/ queue' = Tail(queue)
      BY Zenon DEF wait_for_trigger, Stop
    <3>4. Len(queue) <= Capacity /\ Capacity \in Nat
      BY DEF SaTypeOK
    <3>5. CASE queue' = <<>>
      BY <3>2, <3>4, <3>5
    <3>6. CASE queue' = Tail(queue)
      BY <3>1, <3>2, <3>4, <3>6
    <3> QED
      BY <3>3, <3>5, <3>6
  <2>2. watching' \in BOOLEAN
    BY Zenon DEF wait_for_trigger, Stop, SaTypeOK
  <2>3. raised' \in Nat
    <3>1. raised' = 0 \/ raised' = raised
      BY Zenon DEF wait_for_trigger, Stop
    <3> QED
      BY <3>1 DEF SaTypeOK
  <2>4. renewer' \in {"select", "woken", "failed"}
    <3>1. renewer' = "failed" \/ renewer' = "woken" \/ renewer' = "select"
      BY Zenon DEF wait_for_trigger, Stop
    <3> QED
      BY <3>1
  <2> QED
    BY <2>1, <2>2, <2>3, <2>4 DEF wait_for_trigger, SaTypeOK, env, call
<1>10. RenewerRead => SaTypeOK'
  BY DEF RenewerRead, SaTypeOK, Versions, env, watch, call
<1>11. RenewerStore => SaTypeOK'
  BY DEF RenewerStore, SaTypeOK, env, watch, call
<1>12. RenewerShutdown => SaTypeOK'
  <2> SUFFICES ASSUME RenewerShutdown PROVE SaTypeOK'
    OBVIOUS
  <2>1. queue' \in Seq(EventKinds) /\ Len(queue') <= Capacity /\ raised' \in Nat
    BY DEF RenewerShutdown, Stop
  <2>2. watching' \in BOOLEAN
    BY Zenon DEF RenewerShutdown, Stop
  <2>3. renewer' = "stopped"
    BY Zenon DEF RenewerShutdown, Stop
  <2> QED
    BY <2>1, <2>2, <2>3 DEF RenewerShutdown, SaTypeOK, env, call
<1>13. \A c \in Calls : \A s \in Subjects : verify_token(c, s) => SaTypeOK'
  BY DEF verify_token, SaTypeOK, Versions, env, watch, renewal
<1>14. \A c \in Calls : ensure_initialized(c) => SaTypeOK'
  <2> SUFFICES ASSUME NEW c \in Calls, ensure_initialized(c) PROVE SaTypeOK'
    OBVIOUS
  <2>1. pc' \in [Calls -> {"idle", "begin", "review", "reread", "store", "retry"} \cup Done]
    BY DEF ensure_initialized, SaTypeOK, Done
  <2>2. sa_token' \in [Calls -> 0 .. MaxVersion]
    BY DEF ensure_initialized, SaTypeOK
  <2> QED
    BY <2>1, <2>2 DEF ensure_initialized, SaTypeOK, env, watch, renewal
<1>15. \A c \in Calls : call_token_review(c) => SaTypeOK'
  <2> SUFFICES ASSUME NEW c \in Calls, call_token_review(c) PROVE SaTypeOK'
    OBVIOUS
  <2>1. Verdict(subject[c]) \in Done
    BY DEF Verdict, Done
  <2>2. pc' \in [Calls -> {"idle", "begin", "review", "reread", "store", "retry"} \cup Done]
    BY <2>1 DEF call_token_review, SaTypeOK, Done
  <2> QED
    BY <2>2 DEF call_token_review, SaTypeOK, env, watch, renewal
<1>16. \A c \in Calls : RefreshRead(c) => SaTypeOK'
  <2> SUFFICES ASSUME NEW c \in Calls, RefreshRead(c) PROVE SaTypeOK'
    OBVIOUS
  <2>1. pc' \in [Calls -> {"idle", "begin", "review", "reread", "store", "retry"} \cup Done]
    BY DEF RefreshRead, SaTypeOK, Done
  <2>2. sa_token' \in [Calls -> 0 .. MaxVersion]
    <3>1. sa_token' = sa_token \/ sa_token' = [sa_token EXCEPT ![c] = file]
      BY Zenon DEF RefreshRead
    <3>2. file \in 0 .. MaxVersion
      BY DEF SaTypeOK, Versions
    <3> QED
      BY <3>1, <3>2 DEF SaTypeOK
  <2> QED
    BY <2>1, <2>2 DEF RefreshRead, SaTypeOK, env, watch, renewal
<1>17. \A c \in Calls : RefreshStore(c) => SaTypeOK'
  BY DEF RefreshStore, SaTypeOK, env, watch, renewal
<1>18. \A c \in Calls : Abandon(c) => SaTypeOK'
  BY DEF Abandon, SaTypeOK, Done, env, watch, renewal
<1>19. UNCHANGED savars => SaTypeOK'
  BY DEF savars, env, watch, renewal, call, SaTypeOK
<1> QED
  BY <1>1, <1>2, <1>3, <1>4, <1>5, <1>6, <1>7, <1>8, <1>9, <1>10, <1>11, <1>12, <1>13,
     <1>14, <1>15, <1>16, <1>17, <1>18, <1>19 DEF SaNext, CallStep

(* The verifier keeps to its types; the channel, which try_send fills, never *)
(* holds more than its capacity.                                             *)
THEOREM SaTypeCorrect == SaSpec => []SaTypeOK
  BY TypeInit, TypeStep, PTL DEF SaSpec

-----------------------------------------------------------------------------
(* What a call knows about the token it sends: once it has re-read the file, *)
(* the token is one that the file has held since the call began.             *)
Fresh(c) ==
  /\ since[c] <= file
  /\ pc[c] \in {"store", "retry", "unauthorized"} => since[c] <= sa_token[c]
  /\ pc[c] = "unauthorized" => sa_token[c] < oldest

FreshInv == \A c \in Calls : Fresh(c)

LEMMA FreshInit == SaInit => FreshInv
<1> SUFFICES ASSUME SaInit, NEW c \in Calls PROVE Fresh(c)
  BY DEF FreshInv
<1>1. file = 1 /\ pc[c] = "idle" /\ since[c] = 0
  BY Zenon DEF SaInit
<1> QED
  BY <1>1 DEF Fresh

(* A step that leaves the calls alone keeps them fresh: file and oldest only *)
(* grow.                                                                     *)
LEMMA FreshKept ==
  ASSUME SaTypeOK, FreshInv, NEW c \in Calls,
         file' \in Nat, file <= file', oldest' \in Nat, oldest <= oldest',
         pc'[c] = pc[c], sa_token'[c] = sa_token[c], since'[c] = since[c]
  PROVE  Fresh(c)'
<1>1. file \in Nat /\ oldest \in Nat /\ since[c] \in Nat /\ sa_token[c] \in Nat
  BY SaAssumption DEF SaTypeOK, Versions
<1> QED
  BY <1>1 DEF FreshInv, Fresh

LEMMA FreshStep == SaTypeOK /\ FreshInv /\ [SaNext]_savars => FreshInv'
<1> SUFFICES ASSUME SaTypeOK, FreshInv, [SaNext]_savars, NEW c \in Calls
             PROVE  Fresh(c)'
  BY DEF FreshInv
<1>1. /\ file \in Nat /\ oldest \in Nat /\ since[c] \in Nat /\ sa_token[c] \in Nat
      /\ since \in [Calls -> Nat] /\ sa_token \in [Calls -> Nat]
      /\ DOMAIN pc = Calls
  BY SaAssumption DEF SaTypeOK, Versions
<1>2. CASE UNCHANGED call /\ (Rotate \/ Expire \/ UNCHANGED env)
  <2>1. file' \in Nat /\ file <= file' /\ oldest' \in Nat /\ oldest <= oldest'
    BY <1>1, <1>2 DEF Rotate, Expire, env
  <2> QED
    BY <1>2, <2>1, FreshKept DEF call
<1>3. ASSUME NEW d \in Calls, UNCHANGED env,
             \/ \E s \in Subjects : verify_token(d, s)
             \/ CallStep(d) \/ Abandon(d)
      PROVE  Fresh(c)'
  <2>1. CASE c # d
    <3>1. pc'[c] = pc[c] /\ sa_token'[c] = sa_token[c] /\ since'[c] = since[c]
      BY <1>1, <1>3, <2>1 DEF verify_token, CallStep, ensure_initialized, call_token_review,
         RefreshRead, RefreshStore, Abandon
    <3> QED
      BY <1>1, <1>3, <3>1, FreshKept DEF env
  <2>2. CASE c = d
    <3>1. ASSUME NEW s \in Subjects, verify_token(d, s) PROVE Fresh(c)'
      BY <1>1, <1>3, <2>2, <3>1 DEF verify_token, Fresh, FreshInv, env
    <3>2. CASE ensure_initialized(d)
      BY <1>1, <1>3, <2>2, <3>2 DEF ensure_initialized, Fresh, FreshInv, env
    <3>3. CASE call_token_review(d)
      <4>1. Verdict(subject[d]) \in {"accepted", "rejected"}
        BY DEF Verdict
      <4>2. \/ pc'[c] \in {"reread", "accepted", "rejected", "error"}
            \/ pc'[c] = "unauthorized" /\ pc[c] = "retry" /\ sa_token[c] < oldest
        <5>1. CASE /\ sa_token[d] < oldest
                   /\ pc' = [pc EXCEPT ![d] = IF @ = "review" THEN "reread" ELSE "unauthorized"]
          BY <1>1, <2>2, <3>3, <5>1 DEF call_token_review
        <5>2. CASE \E v \in {Verdict(subject[d]), "rejected"} : pc' = [pc EXCEPT ![d] = v]
          BY <1>1, <2>2, <4>1, <5>2
        <5>3. CASE pc' = [pc EXCEPT ![d] = "error"]
          BY <1>1, <2>2, <5>3
        <5> QED
          BY <3>3, <5>1, <5>2, <5>3 DEF call_token_review
      <4>3. UNCHANGED <<file, oldest, sa_token, since>>
        BY <1>3, <3>3 DEF call_token_review, env
      <4> QED
        BY <1>1, <4>2, <4>3 DEF Fresh, FreshInv
    <3>4. CASE RefreshRead(d)
      BY <1>1, <1>3, <2>2, <3>4 DEF RefreshRead, Fresh, FreshInv, env
    <3>5. CASE RefreshStore(d)
      BY <1>1, <1>3, <2>2, <3>5 DEF RefreshStore, Fresh, FreshInv, env
    <3>6. CASE Abandon(d)
      BY <1>1, <1>3, <2>2, <3>6 DEF Abandon, Fresh, FreshInv, env
    <3> QED
      BY <1>3, <3>1, <3>2, <3>3, <3>4, <3>5, <3>6 DEF CallStep
  <2> QED
    BY <2>1, <2>2
<1>4. UNCHANGED env \/ Rotate \/ Expire
  BY DEF SaNext, savars, Notify, NotifyOther, LoseWatch, InitializeRead, InitializeWatch, Drop,
     wait_for_trigger, RenewerRead, RenewerStore, RenewerShutdown, verify_token, CallStep,
     ensure_initialized, call_token_review, RefreshRead, RefreshStore, Abandon
<1>5. \/ UNCHANGED call
      \/ \E d \in Calls : /\ UNCHANGED env
                          /\ (\E s \in Subjects : verify_token(d, s)) \/ CallStep(d) \/ Abandon(d)
  BY DEF SaNext, savars, Rotate, Expire, Notify, NotifyOther, LoseWatch, InitializeRead,
     InitializeWatch, Drop, wait_for_trigger, RenewerRead, RenewerStore, RenewerShutdown,
     verify_token, CallStep, ensure_initialized, call_token_review, RefreshRead, RefreshStore, Abandon
<1> QED
  BY <1>2, <1>3, <1>4, <1>5

(* A call fails because of jwtlet's own token only when a token that the     *)
(* file held while the call ran is no longer accepted, however many calls    *)
(* refresh the cache at once and whatever the renewer does (verify_token and *)
(* refresh_sa_token).                                                        *)
THEOREM FailureAlwaysTheFile == SaSpec => []FailsOnlyForTheFile
<1>1. FreshInv => FailsOnlyForTheFile
  BY DEF FreshInv, Fresh, FailsOnlyForTheFile
<1> QED
  BY <1>1, TypeInit, TypeStep, FreshInit, FreshStep, PTL DEF SaSpec

-----------------------------------------------------------------------------
(* A rotation is announced. *)
Woken == raised > 0 \/ ChangePending \/ renewer = "woken"

(* A change stays in the channel, or is appended to it. *)
LEMMA PendingAppend ==
  ASSUME NEW kind \in EventKinds, queue \in Seq(EventKinds),
         queue' = Append(queue, kind), ChangePending \/ kind = "change"
  PROVE  ChangePending'
<1>1. /\ Len(queue') = Len(queue) + 1 /\ Len(queue) \in Nat
      /\ queue'[Len(queue) + 1] = kind
      /\ \A i \in 1 .. Len(queue) : queue'[i] = queue[i]
      /\ DOMAIN queue = 1 .. Len(queue) /\ DOMAIN queue' = 1 .. Len(queue) + 1
  BY AppendProperties
<1>2. CASE kind = "change"
  BY <1>1, <1>2 DEF ChangePending
<1>3. CASE ChangePending
  <2>1. PICK i \in DOMAIN queue : queue[i] = "change"
    BY <1>3 DEF ChangePending
  <2> QED
    BY <1>1, <2>1 DEF ChangePending
<1> QED
  BY <1>2, <1>3

LEMMA PendingTail ==
  ASSUME queue \in Seq(EventKinds), queue # <<>>, queue' = Tail(queue),
         ChangePending, Head(queue) # "change"
  PROVE  ChangePending'
<1>1. /\ Len(queue) \in Nat /\ DOMAIN queue = 1 .. Len(queue)
      /\ Head(queue) = queue[1]
      /\ queue' \in Seq(EventKinds) /\ Len(queue') = Len(queue) - 1
      /\ \A i \in 1 .. Len(queue) - 1 : queue'[i] = queue[i + 1]
  BY HeadTailProperties
<1>2. DOMAIN queue' = 1 .. Len(queue) - 1
  BY <1>1
<1>3. PICK i \in 1 .. Len(queue) : queue[i] = "change"
  BY <1>1 DEF ChangePending
<1>4. i - 1 \in 1 .. Len(queue) - 1 /\ queue'[i - 1] = queue[i]
  BY <1>1, <1>3
<1> QED
  BY <1>2, <1>3, <1>4 DEF ChangePending

LEMMA WokenKept ==
  ASSUME Woken, UNCHANGED <<raised, queue>>, renewer = "woken" => renewer' = "woken"
  PROVE  Woken'
<1>1. ChangePending => ChangePending'
  BY Zenon DEF ChangePending
<1>2. raised > 0 => raised' > 0
  OBVIOUS
<1> QED
  BY Zenon, <1>1, <1>2 DEF Woken

LEMMA WakeupStep == SaTypeOK /\ NoLostWakeup /\ [SaNext]_savars => NoLostWakeup'
<1> SUFFICES ASSUME SaTypeOK, NoLostWakeup, [SaNext]_savars,
                    watching', ~missed', noticed' < file'
             PROVE  Woken'
  BY Zenon DEF NoLostWakeup, Woken
<1>1. file \in Nat /\ raised \in Nat /\ noticed \in Nat /\ queue \in Seq(EventKinds)
  BY SaAssumption DEF SaTypeOK, Versions
<1>2. ASSUME watching, ~missed, noticed < file PROVE Woken
  BY Zenon, <1>2 DEF NoLostWakeup, Woken
<1>3. CASE Rotate
  <2>1. raised' = raised + 1
    BY Zenon, <1>3 DEF Rotate
  <2> QED
    BY <1>1, <2>1 DEF Woken
<1>4. CASE Notify
  <2>1. watching /\ ~missed /\ noticed' = noticed /\ file' = file /\ renewer' = renewer
    BY Zenon, <1>4 DEF Notify, env, renewal
  <2>2. Len(queue) = Capacity => ChangePending \/ renewer = "woken"
    BY Zenon, <1>4 DEF Notify
  <2>3. try_send("change") /\ "change" \in EventKinds
    BY <1>4 DEF Notify, EventKinds
  <2>4. CASE Len(queue) < Capacity
    BY <1>1, <2>3, <2>4, TrySend, PendingAppend DEF Woken
  <2>5. CASE Len(queue) = Capacity
    <3>1. queue' = queue
      BY <2>3, <2>5, TrySend
    <3>2. ChangePending => ChangePending'
      BY Zenon, <3>1 DEF ChangePending
    <3> QED
      BY Zenon, <2>1, <2>2, <2>5, <3>2 DEF Woken
  <2> QED
    BY SaAssumption, <1>1, <2>4, <2>5 DEF SaTypeOK
<1>5. ASSUME NEW k \in {"other", "error"}, NotifyOther(k) PROVE Woken'
  <2>1. /\ watching /\ ~missed /\ noticed' = noticed /\ file' = file
        /\ renewer' = renewer /\ raised' = raised
    BY Zenon, <1>5 DEF NotifyOther, env, renewal
  <2>2. Woken
    BY <1>2, <2>1
  <2>3. try_send(k) /\ k \in EventKinds
    BY <1>5 DEF NotifyOther, EventKinds
  <2>4. queue' = queue \/ queue' = Append(queue, k)
    BY Zenon, <2>3 DEF try_send
  <2>5. CASE queue' = queue
    BY <2>1, <2>2, <2>5, WokenKept
  <2>6. CASE queue' = Append(queue, k)
    <3>1. ChangePending => ChangePending'
      BY <1>1, <2>3, <2>6, PendingAppend
    <3>2. raised > 0 => raised' > 0
      BY <2>1
    <3> QED
      BY Zenon, <2>1, <2>2, <3>1, <3>2 DEF Woken
  <2> QED
    BY <2>4, <2>5, <2>6
<1>6. CASE InitializeWatch
  <2>1. CASE noticed' = file
    BY <1>1, <1>6, <2>1 DEF InitializeWatch, env
  <2>2. CASE UNCHANGED <<watching, renewer, noticed>>
    <3>1. watching /\ ~missed /\ noticed' = noticed /\ file' = file
      BY Zenon, <1>6, <2>2 DEF InitializeWatch, env
    <3>2. Woken
      BY <1>2, <3>1
    <3>3. UNCHANGED <<raised, queue>> /\ renewer' = renewer
      BY Zenon, <1>6, <2>2 DEF InitializeWatch
    <3> QED
      BY <3>2, <3>3, WokenKept
  <2> QED
    BY Zenon, <1>6, <2>1, <2>2 DEF InitializeWatch
<1>7. CASE wait_for_trigger
  <2>1. /\ Head(queue) # "error" /\ queue # <<>> /\ queue' = Tail(queue)
        /\ renewer' = IF Head(queue) = "change" THEN "woken" ELSE renewer
        /\ UNCHANGED <<watching, raised>>
    BY Zenon, <1>7 DEF wait_for_trigger, Stop
  <2>2. watching /\ ~missed /\ noticed' = noticed /\ file' = file
    BY Zenon, <1>7, <2>1 DEF wait_for_trigger, env
  <2>3. Woken
    BY <1>2, <2>2
  <2>4. CASE Head(queue) = "change"
    BY <2>1, <2>4 DEF Woken
  <2>5. CASE Head(queue) # "change"
    <3>1. ChangePending => ChangePending'
      BY <1>1, <2>1, <2>5, PendingTail
    <3>2. raised > 0 => raised' > 0
      BY <2>1
    <3>3. renewer' = renewer
      BY <2>1, <2>5
    <3> QED
      BY Zenon, <2>3, <3>1, <3>2, <3>3 DEF Woken
  <2> QED
    BY <2>4, <2>5
<1>8. CASE RenewerRead
  BY <1>1, <1>8 DEF RenewerRead, env
<1>9. CASE LoseWatch \/ RenewerShutdown
  BY Zenon, <1>9 DEF LoseWatch, RenewerShutdown, Stop
<1>10. CASE /\ UNCHANGED <<file, noticed, watching, missed, raised, queue>>
            /\ renewer = "woken" => renewer' = "woken"
  <2>1. watching /\ ~missed /\ noticed < file
    BY Zenon, <1>10
  <2> QED
    BY <1>2, <1>10, <2>1, WokenKept
<1>11. \/ Rotate \/ Notify \/ (\E k \in {"other", "error"} : NotifyOther(k)) \/ InitializeWatch
       \/ wait_for_trigger \/ RenewerRead \/ LoseWatch \/ RenewerShutdown
       \/ /\ UNCHANGED <<file, noticed, watching, missed, raised, queue>>
          /\ renewer = "woken" => renewer' = "woken"
  BY DEF SaNext, savars, env, watch, renewal, Expire, InitializeRead, Drop, RenewerStore,
     verify_token, CallStep, ensure_initialized, call_token_review, RefreshRead, RefreshStore, Abandon
<1> QED
  BY <1>3, <1>4, <1>5, <1>6, <1>7, <1>8, <1>9, <1>10, <1>11

(* While the watch lives, no rotation that the renewer has not looked for    *)
(* goes unannounced, for any capacity of the channel, unless other events    *)
(* had filled it (try_send in the watcher's callback, wait_for_trigger).     *)
THEOREM WakeupNeverLost == SaSpec => []NoLostWakeup
<1>1. SaInit => NoLostWakeup
  BY Zenon DEF SaInit, NoLostWakeup
<1> QED
  BY <1>1, TypeInit, TypeStep, WakeupStep, PTL DEF SaSpec

-----------------------------------------------------------------------------
(* A call has a subject once it has begun. *)
SubjectInv == \A c \in Calls : IF pc[c] = "idle" THEN subject[c] = None ELSE subject[c] \in Subjects

(* The outcome of the abstract verifier. *)
Outcomes == [c \in Calls |-> IF pc[c] \notin Done THEN "none"
                             ELSE IF pc[c] = "accepted" THEN "accepted" ELSE "failed"]

LEMMA SubjectInit == SaInit => SubjectInv
  BY Zenon DEF SaInit, SubjectInv

(* What a step does to the calls: nothing, or one call moves on. *)
LEMMA CallMoves ==
  ASSUME SaTypeOK, [SaNext]_savars
  PROVE  \/ UNCHANGED <<pc, subject>>
         \/ \E c \in Calls :
              \/ /\ pc[c] = "idle" /\ pc' = [pc EXCEPT ![c] = "begin"]
                 /\ \E s \in Subjects : subject' = [subject EXCEPT ![c] = s]
              \/ /\ pc[c] \notin {"idle"} \cup Done
                 /\ subject' = subject
                 /\ \E p \in {"review", "reread", "store", "retry", "rejected", "error",
                              "unauthorized", "gone"} : pc' = [pc EXCEPT ![c] = p]
              \/ /\ pc[c] \notin {"idle"} \cup Done
                 /\ subject' = subject
                 /\ Verdict(subject[c]) = "accepted"
                 /\ pc' = [pc EXCEPT ![c] = "accepted"]
<1> DEFINE Others == {"review", "reread", "store", "retry", "rejected", "error", "unauthorized", "gone"}
<1> DEFINE Moves(c) == /\ pc[c] \notin {"idle"} \cup Done
                       /\ subject' = subject
                       /\ \E p \in Others : pc' = [pc EXCEPT ![c] = p]
<1>1. ASSUME NEW c \in Calls, ensure_initialized(c) PROVE Moves(c)
  BY <1>1 DEF ensure_initialized, Done
<1>2. ASSUME NEW c \in Calls, RefreshRead(c) PROVE Moves(c)
  BY <1>2 DEF RefreshRead, Done
<1>3. ASSUME NEW c \in Calls, RefreshStore(c) PROVE Moves(c)
  BY <1>3 DEF RefreshStore, Done
<1>4. ASSUME NEW c \in Calls, Abandon(c) PROVE Moves(c)
  BY <1>4 DEF Abandon
<1>5. ASSUME NEW c \in Calls, call_token_review(c)
      PROVE  \/ Moves(c)
             \/ /\ pc[c] \notin {"idle"} \cup Done
                /\ subject' = subject
                /\ Verdict(subject[c]) = "accepted"
                /\ pc' = [pc EXCEPT ![c] = "accepted"]
  <2>1. pc[c] \notin {"idle"} \cup Done /\ subject' = subject
    BY <1>5 DEF call_token_review, Done
  <2>2. Verdict(subject[c]) = "accepted" \/ Verdict(subject[c]) = "rejected"
    BY DEF Verdict
  <2>3. CASE pc' = [pc EXCEPT ![c] = IF @ = "review" THEN "reread" ELSE "unauthorized"]
    <3>1. PICK p \in {"reread", "unauthorized"} : pc' = [pc EXCEPT ![c] = p]
      BY <2>3 DEF SaTypeOK
    <3> QED
      BY <2>1, <3>1
  <2>4. CASE \E v \in {Verdict(subject[c]), "rejected"} : pc' = [pc EXCEPT ![c] = v]
    BY <2>1, <2>2, <2>4
  <2>5. CASE pc' = [pc EXCEPT ![c] = "error"]
    BY <2>1, <2>5
  <2> QED
    BY <1>5, <2>3, <2>4, <2>5 DEF call_token_review
<1>6. \/ UNCHANGED <<pc, subject>>
      \/ \E c \in Calls : (\E s \in Subjects : verify_token(c, s)) \/ CallStep(c) \/ Abandon(c)
  BY DEF SaNext, savars, call, Rotate, Expire, Notify, NotifyOther, LoseWatch, InitializeRead,
     InitializeWatch, Drop, wait_for_trigger, RenewerRead, RenewerStore, RenewerShutdown
<1> QED
  BY <1>1, <1>2, <1>3, <1>4, <1>5, <1>6 DEF verify_token, CallStep

LEMMA SubjectStep == SaTypeOK /\ SubjectInv /\ [SaNext]_savars => SubjectInv'
<1> SUFFICES ASSUME SaTypeOK, SubjectInv, [SaNext]_savars PROVE SubjectInv'
  OBVIOUS
<1> QED
  BY CallMoves DEF SubjectInv, SaTypeOK, Done

(* Only a subject token that the cluster vouches for passes the checks.      *)
LEMMA AcceptedTrusted ==
  ASSUME NEW s \in Subjects, Verdict(s) = "accepted"
  PROVE  /\ status[s].authenticated
         /\ Audience \in status[s].audiences
         /\ status[s].user = [prefixed |-> TRUE, grouped |-> TRUE]
<1> DEFINE st == status[s]
<1>1. st \in TokenReviewStatus
  BY SaAssumption
<1>2. st.authenticated /\ Audience \in st.audiences /\ st.user # None /\ is_service_account(st.user)
  BY DEF Verdict
<1>3. st.user \in [prefixed : BOOLEAN, grouped : BOOLEAN]
  BY <1>1, <1>2 DEF TokenReviewStatus
<1>4. st.user.prefixed = TRUE /\ st.user.grouped = TRUE
  BY <1>2, <1>3 DEF is_service_account
<1> QED
  BY <1>2, <1>3, <1>4

LEMMA PromiseInit == SaInit => Promise!VInit
<1> SUFFICES ASSUME SaInit PROVE Promise!VInit
  OBVIOUS
<1>1. subject = [c \in Calls |-> None] /\ pc = [c \in Calls |-> "idle"]
  BY Zenon DEF SaInit
<1>2. Outcomes = [c \in Calls |-> "none"]
  BY <1>1 DEF Outcomes, Done
<1> QED
  BY <1>1, <1>2 DEF Promise!VInit, Outcomes

LEMMA PromiseStep ==
  SaTypeOK /\ SubjectInv /\ [SaNext]_savars => [Promise!VNext]_(Promise!vvars)
<1> SUFFICES ASSUME SaTypeOK, SubjectInv, [SaNext]_savars
             PROVE  Promise!VNext \/ UNCHANGED <<subject, Outcomes>>
  BY DEF Promise!vvars, Outcomes
<1>1. CASE UNCHANGED <<pc, subject>>
  BY <1>1 DEF Outcomes
<1>2. ASSUME NEW c \in Calls, NEW s \in Subjects, pc[c] = "idle",
             pc' = [pc EXCEPT ![c] = "begin"], subject' = [subject EXCEPT ![c] = s]
      PROVE  Promise!VNext
  <2>1. subject[c] = None
    BY <1>2 DEF SubjectInv
  <2>2. Outcomes' = Outcomes
    BY <1>2 DEF Outcomes, Done, SaTypeOK
  <2>3. Promise!Begin(c, s)
    BY <1>2, <2>1, <2>2 DEF Promise!Begin, Outcomes
  <2> QED
    BY <2>3 DEF Promise!VNext
<1>3. ASSUME NEW c \in Calls, pc[c] \notin {"idle"} \cup Done, subject' = subject,
             NEW p \in {"review", "reread", "store", "retry", "rejected", "error",
                        "unauthorized", "gone"},
             pc' = [pc EXCEPT ![c] = p]
      PROVE  Promise!VNext \/ UNCHANGED <<subject, Outcomes>>
  <2>1. CASE p \notin Done
    BY <1>3, <2>1 DEF Outcomes, SaTypeOK
  <2>2. CASE p \in Done
    <3>1. subject[c] # None
      BY SaAssumption, <1>3 DEF SubjectInv
    <3>2. Outcomes[c] = "none"
      BY <1>3 DEF Outcomes
    <3>3. Outcomes' = [Outcomes EXCEPT ![c] = "failed"]
      BY <1>3, <2>2 DEF Outcomes, SaTypeOK
    <3>4. Promise!Fail(c)
      BY <1>3, <3>1, <3>2, <3>3 DEF Promise!Fail, Outcomes
    <3> QED
      BY <3>4 DEF Promise!VNext
  <2> QED
    BY <2>1, <2>2
<1>4. ASSUME NEW c \in Calls, pc[c] \notin {"idle"} \cup Done, subject' = subject,
             Verdict(subject[c]) = "accepted", pc' = [pc EXCEPT ![c] = "accepted"]
      PROVE  Promise!VNext
  <2>1. subject[c] \in Subjects
    BY <1>4 DEF SubjectInv
  <2>2. Outcomes[c] = "none"
    BY <1>4 DEF Outcomes
  <2>3. Outcomes' = [Outcomes EXCEPT ![c] = "accepted"]
    BY <1>4 DEF Outcomes, SaTypeOK, Done
  <2>4. Promise!Accept(c)
    BY <1>4, <2>1, <2>2, <2>3, AcceptedTrusted DEF Promise!Accept, Outcomes
  <2> QED
    BY <2>4 DEF Promise!VNext
<1> QED
  BY <1>1, <1>2, <1>3, <1>4, CallMoves

(* Whatever happens to its own token, its cache and its renewer, the         *)
(* verifier is one that ends each call once and accepts only tokens that the *)
(* cluster vouches for (verify_token): the safety part of KeepsPromise.      *)
THEOREM PromiseAlwaysKept == SaSpec => Promise!VSpec
  BY TypeInit, TypeStep, SubjectInit, SubjectStep, PromiseInit, PromiseStep, PTL
     DEF SaSpec, Promise!VSpec
=============================================================================
