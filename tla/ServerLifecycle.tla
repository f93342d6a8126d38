-------------------------- MODULE ServerLifecycle ---------------------------
(* main and run_server: start-up, the two servers as tasks of one JoinSet,   *)
(* the shutdown by a signal or because a server has ended, the requests that *)
(* are being served meanwhile, and the flush of the telemetry at the end.    *)
EXTENDS Naturals, FiniteSets

CONSTANTS
  Servers,    \* the token exchange and the management server
  Requests,   \* HTTP requests
  QueueSize,  \* ended spans that the batch span processor holds
  None

VARIABLES
  main,       \* where main and run_server are
  result,     \* what run_jwtlet returned
  cancelled,  \* the CancellationToken
  server,     \* task state of each server
  joined,     \* servers whose result run_server has handled
  crashed,    \* servers that ended other than by draining
  request,    \* state of each request
  at,         \* the server that has accepted it
  provider,   \* telemetry::init has built an exporter
  buffered, exported,  \* requests whose span is queued, is exported
  lost,       \* requests whose span the telemetry SDK has dropped
  flush_failed

tasks == <<server, crashed>>
control == <<main, result, cancelled, joined>>
requests == <<request, at>>
spans == <<buffered, exported, lost>>
telemetry == <<provider, spans, flush_failed>>
lvars == <<control, tasks, requests, telemetry>>

ASSUME LAssumption == None \notin Servers /\ QueueSize \in Nat

(* The variables range over their types. *)
LTypeOK ==
  /\ main \in {"starting", "running", "draining", "returned", "flushed", "exited"}
  /\ result \in {"none", "Ok", "Err"}
  /\ cancelled \in BOOLEAN /\ provider \in BOOLEAN /\ flush_failed \in BOOLEAN
  /\ server \in [Servers -> {"unstarted", "binding", "serving", "draining", "ended"}]
  /\ joined \subseteq {s \in Servers : server[s] = "ended"}
  /\ crashed \subseteq {s \in Servers : server[s] = "ended"}
  /\ request \in [Requests -> {"new", "open", "answered"}]
  /\ at \in [Requests -> Servers \cup {None}]
  /\ buffered \subseteq Requests /\ exported \subseteq Requests /\ lost \subseteq Requests

LInit ==
  /\ main = "starting" /\ result = "none"
  /\ cancelled = FALSE /\ joined = {}
  /\ server = [s \in Servers |-> "unstarted"] /\ crashed = {}
  /\ request = [r \in Requests |-> "new"]
  /\ at = [r \in Requests |-> None]
  /\ provider \in BOOLEAN
  /\ buffered = {} /\ exported = {} /\ lost = {} /\ flush_failed = FALSE

-----------------------------------------------------------------------------
\* Mutant: the error of the start-up is logged and dropped.
StartFailsQuietly ==
  /\ main = "starting"
  /\ main' = "returned" /\ result' = "Ok"
  /\ UNCHANGED <<cancelled, joined, tasks, requests, telemetry>>

(* run_jwtlet: without a configuration and a runtime nothing is served. *)
StartFails ==
  /\ main = "starting"
  /\ main' = "returned" /\ result' = "Err"
  /\ UNCHANGED <<cancelled, joined, tasks, requests, telemetry>>

Spawn ==
  /\ main = "starting"
  /\ main' = "running"
  /\ server' = [s \in Servers |-> "binding"]
  /\ UNCHANGED <<result, cancelled, joined, crashed, requests, telemetry>>

(* A task of run_token_exchange_api or run_management_api. *)
Bind(s) ==
  /\ server[s] = "binding"
  /\ \/ server' = [server EXCEPT ![s] = "serving"] /\ UNCHANGED crashed
     \/ server' = [server EXCEPT ![s] = "ended"] /\ crashed' = crashed \cup {s}
  /\ UNCHANGED <<control, requests, telemetry>>

(* with_graceful_shutdown: no new requests once the cancellation is seen ... *)
NoticeCancel(s) ==
  /\ server[s] = "serving" /\ cancelled
  /\ server' = [server EXCEPT ![s] = "draining"]
  /\ UNCHANGED <<control, crashed, requests, telemetry>>

(* ... and the end when the open ones are answered. *)
EndServer(s) ==
  /\ server[s] = "draining"
  /\ \A r \in Requests : at[r] = s => request[r] # "open"
  /\ server' = [server EXCEPT ![s] = "ended"]
  /\ UNCHANGED <<control, crashed, requests, telemetry>>

(* The task panics or accept fails; its connections are tasks of their own.  *)
Crash(s) ==
  /\ server[s] \in {"serving", "draining"}
  /\ server' = [server EXCEPT ![s] = "ended"]
  /\ crashed' = crashed \cup {s}
  /\ UNCHANGED <<control, requests, telemetry>>

-----------------------------------------------------------------------------
Accept(r, s) ==
  /\ request[r] = "new"
  /\ server[s] = "serving"
  /\ main # "exited"
  /\ request' = [request EXCEPT ![r] = "open"]
  /\ at' = [at EXCEPT ![r] = s]
  /\ UNCHANGED <<control, tasks, telemetry>>

(* The SDK's batch span processor queues an ended span.  It drops the span   *)
(* when the queue is full, and it takes no more once it is shut down.        *)
QueueFull == Cardinality(buffered) >= QueueSize

EndSpan(r) ==
  \/ provider /\ main # "flushed" /\ ~QueueFull
     /\ buffered' = buffered \cup {r} /\ UNCHANGED <<exported, lost>>
  \/ provider /\ main # "flushed" /\ QueueFull
     /\ lost' = lost \cup {r} /\ UNCHANGED <<buffered, exported>>
  \/ ~(provider /\ main # "flushed") /\ UNCHANGED spans

(* A handler answers, and the span of the request ends with it. *)
Respond(r) ==
  /\ request[r] = "open"
  /\ main # "exited"
  /\ request' = [request EXCEPT ![r] = "answered"]
  /\ EndSpan(r)
  /\ UNCHANGED <<control, tasks, at, provider, flush_failed>>

(* The processor sends what it has in the background; a batch that cannot be *)
(* delivered is gone, and jwtlet does not hear of it.                        *)
Export ==
  /\ buffered # {}
  /\ main \notin {"flushed", "exited"}
  /\ buffered' = {}
  /\ \/ exported' = exported \cup buffered /\ UNCHANGED lost
     \/ lost' = lost \cup buffered /\ UNCHANGED exported
  /\ UNCHANGED <<control, tasks, requests, provider, flush_failed>>

-----------------------------------------------------------------------------
(* The select! of run_server: whichever comes first. *)
Shutdown ==
  /\ main = "running"
  /\ main' = "draining" /\ cancelled' = TRUE
  /\ UNCHANGED <<result, joined, tasks, requests, telemetry>>

\* Mutant: the end of a server is logged, the other one is not told.
JoinFirstQuietly(s) ==
  /\ main = "running" /\ server[s] = "ended"
  /\ main' = "draining"
  /\ joined' = joined \cup {s}
  /\ UNCHANGED <<result, cancelled, tasks, requests, telemetry>>

JoinFirst(s) ==
  /\ main = "running" /\ server[s] = "ended"
  /\ main' = "draining" /\ cancelled' = TRUE
  /\ joined' = joined \cup {s}
  /\ UNCHANGED <<result, tasks, requests, telemetry>>

\* Mutant: a server is taken for joined before it has ended.
JoinUnfinished(s) ==
  /\ main = "draining" /\ s \notin joined
  /\ joined' = joined \cup {s}
  /\ UNCHANGED <<main, result, cancelled, tasks, requests, telemetry>>

(* The loop after it, and the return, which is Ok however the servers ended. *)
JoinNext(s) ==
  /\ main = "draining" /\ server[s] = "ended" /\ s \notin joined
  /\ joined' = joined \cup {s}
  /\ UNCHANGED <<main, result, cancelled, tasks, requests, telemetry>>

\* Mutant: run_server returns after the first of the servers.
ReturnEarly ==
  /\ main = "draining" /\ joined # {}
  /\ main' = "returned" /\ result' = "Ok"
  /\ UNCHANGED <<cancelled, joined, tasks, requests, telemetry>>

Return ==
  /\ main = "draining" /\ joined = Servers
  /\ main' = "returned" /\ result' = "Ok"
  /\ UNCHANGED <<cancelled, joined, tasks, requests, telemetry>>

\* Mutant: only a run that failed is flushed.
FlushOnError ==
  /\ main = "returned"
  /\ main' = "flushed"
  /\ IF result = "Err" THEN exported' = exported \cup buffered /\ buffered' = {}
                       ELSE UNCHANGED <<exported, buffered>>
  /\ UNCHANGED <<result, cancelled, joined, tasks, requests, provider, lost, flush_failed>>

(* telemetry::shutdown: the processor sends the rest of its queue, in one    *)
(* batch or in several, and reports how the last of them went.               *)
Flush ==
  /\ main = "returned"
  /\ main' = "flushed"
  /\ \/ \E failed \in SUBSET buffered :
          /\ failed = buffered => buffered = {}
          /\ exported' = exported \cup (buffered \ failed)
          /\ lost' = lost \cup failed
          /\ buffered' = {} /\ UNCHANGED flush_failed
     \/ provider /\ flush_failed' = TRUE /\ UNCHANGED spans
  /\ UNCHANGED <<result, cancelled, joined, tasks, requests, provider>>

(* The end of main, or exit(1). *)
Exit ==
  /\ main = "flushed"
  /\ main' = "exited"
  /\ UNCHANGED <<result, cancelled, joined, tasks, requests, telemetry>>

-----------------------------------------------------------------------------
ServerStep(s) == Bind(s) \/ NoticeCancel(s) \/ EndServer(s)

MainStep == (\E s \in Servers : JoinFirst(s) \/ JoinNext(s)) \/ Return \/ Flush \/ Exit

LNext ==
  \/ StartFails \/ Spawn \/ Shutdown \/ Export \/ Return \/ Flush \/ Exit
  \/ \E s \in Servers : \/ Bind(s) \/ NoticeCancel(s) \/ EndServer(s) \/ Crash(s)
                        \/ JoinFirst(s) \/ JoinNext(s)
                        \/ \E r \in Requests : Accept(r, s)
  \/ \E r \in Requests : Respond(r)

LSpec == LInit /\ [][LNext]_lvars

(* The runtime goes on with main and with every task that is ready; a        *)
(* request ends when the services its handler calls answer or fail.  Nobody  *)
(* has to send a request or a signal, and the start-up may hang.             *)
LFairSpec ==
  /\ LSpec
  /\ WF_lvars(MainStep)
  /\ \A s \in Servers : WF_lvars(ServerStep(s))
  /\ \A r \in Requests : WF_lvars(Respond(r))

-----------------------------------------------------------------------------
(* When run_server has returned, no request is left open at either server,   *)
(* except at one whose task panicked: a request that was accepted before the *)
(* shutdown is answered before the process ends.                             *)
NoRequestCut ==
  main \in {"returned", "flushed", "exited"}
    => \A r \in Requests : request[r] = "open" => at[r] \in crashed

(* "flush any buffered spans before the process exits": no span of a request *)
(* of an orderly server is left in the queue or ends too late for the flush. *)
(* Each was exported, or dropped by the SDK on the way, whose queue was full *)
(* or whose batch could not be delivered.  Nothing is said when the shutdown *)
(* of the provider reports an error.                                         *)
SpansExported ==
  (main = "exited" /\ provider /\ ~flush_failed)
    => \A r \in Requests : at[r] \in Servers \ crashed => r \in exported \cup lost

(* What the exit status of main tells: 1 that nobody was served at all, 0    *)
(* that both servers were started and have ended, for whatever reason, and   *)
(* that every request of an orderly one was answered.                        *)
ExitStatus ==
  main = "exited" =>
    IF result = "Ok"
    THEN joined = Servers /\ \A r \in Requests : at[r] \in Servers \ crashed => request[r] = "answered"
    ELSE \A r \in Requests : request[r] = "new"

Stopping == cancelled \/ \E s \in Servers : server[s] = "ended"

\* The guards of MainStep, of ServerStep and of Respond.
CanProceed ==
  \/ main = "running" /\ \E s \in Servers : server[s] = "ended"
  \/ main = "draining" /\ (joined = Servers \/ \E s \in Servers \ joined : server[s] = "ended")
  \/ main \in {"returned", "flushed"}
  \/ \E s \in Servers :
       \/ server[s] = "binding"
       \/ server[s] = "serving" /\ cancelled
       \/ server[s] = "draining" /\ \A r \in Requests : at[r] = s => request[r] # "open"
  \/ main # "exited" /\ \E r \in Requests : request[r] = "open"

(* A shutdown that has begun never hangs: run_server, a server or a request  *)
(* can go on until the process has exited, without a further signal.  In     *)
(* particular no server is waited for that was not told to stop, whichever   *)
(* of the two ended first and however far the other one was.                 *)
NeverHangs == (Stopping /\ main # "exited") => CanProceed

(* The servers live and die together: after a signal, and after the end of   *)
(* either server, even one that never managed to bind, the process exits.    *)
StopTogether == Stopping ~> (main = "exited")
=============================================================================
