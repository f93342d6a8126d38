----------------------- MODULE ServerLifecycle_proofs -----------------------
(* Proofs about the shutdown, for any number of servers and requests.        *)
EXTENDS ServerLifecycle, TLAPS

(* No server is spawned before run_server, and none is left when it is over. *)
Phases ==
  /\ main = "starting" => \A s \in Servers : server[s] = "unstarted"
  /\ main \in {"returned", "flushed", "exited"} =>
       (\A s \in Servers : server[s] = "unstarted") \/ (\A s \in Servers : server[s] = "ended")

LEMMA LTypeInit == LInit => LTypeOK /\ Phases
<1>1. LInit => LTypeOK
  BY Zenon DEF LInit, LTypeOK
<1>2. LInit => main = "starting" /\ server = [s \in Servers |-> "unstarted"]
  BY Zenon DEF LInit
<1> QED
  BY <1>1, <1>2 DEF Phases

LEMMA LTypeStep == LTypeOK /\ Phases /\ [LNext]_lvars => LTypeOK'
<1> SUFFICES ASSUME LTypeOK, Phases, [LNext]_lvars PROVE LTypeOK'
  OBVIOUS
<1> DEFINE Control == /\ main \in {"starting", "running", "draining", "returned", "flushed", "exited"}
                      /\ result \in {"none", "Ok", "Err"}
           Flags == cancelled \in BOOLEAN /\ provider \in BOOLEAN /\ flush_failed \in BOOLEAN
           Tasks == /\ server \in [Servers -> {"unstarted", "binding", "serving", "draining", "ended"}]
                    /\ joined \subseteq {s \in Servers : server[s] = "ended"}
                    /\ crashed \subseteq {s \in Servers : server[s] = "ended"}
           Requested == /\ request \in [Requests -> {"new", "open", "answered"}]
                        /\ at \in [Requests -> Servers \cup {None}]
           Spans == buffered \subseteq Requests /\ exported \subseteq Requests /\ lost \subseteq Requests
<1>1. Control'
  BY DEF LTypeOK, LNext, lvars, control, StartFails, Spawn, Bind, NoticeCancel, EndServer, Crash,
     Accept, Respond, Export, Shutdown, JoinFirst, JoinNext, Return, Flush, Exit
<1>2. Flags'
  BY Zenon DEF LTypeOK, LNext, lvars, control, telemetry, StartFails, Spawn, Bind, NoticeCancel,
     EndServer, Crash, Accept, Respond, Export, Shutdown, JoinFirst, JoinNext, Return, Flush, Exit
<1>3. Tasks'
  <2>1. CASE UNCHANGED <<server, joined, crashed>>
    BY <2>1 DEF LTypeOK
  <2>2. CASE Spawn
    <3>1. joined = {} /\ crashed = {}
      BY <2>2 DEF Spawn, Phases, LTypeOK
    <3> QED
      BY <2>2, <3>1 DEF Spawn, LTypeOK
  <2> QED
    BY <2>1, <2>2 DEF LTypeOK, LNext, lvars, control, tasks, StartFails, Bind, NoticeCancel,
       EndServer, Crash, Accept, Respond, Export, Shutdown, JoinFirst, JoinNext, Return, Flush, Exit
<1>4. Requested'
  BY DEF LTypeOK, LNext, lvars, requests, StartFails, Spawn, Bind, NoticeCancel, EndServer, Crash,
     Accept, Respond, Export, Shutdown, JoinFirst, JoinNext, Return, Flush, Exit
<1>5. Spans'
  BY Zenon DEF LTypeOK, LNext, lvars, telemetry, spans, StartFails, Spawn, Bind, NoticeCancel,
     EndServer, Crash, Accept, Respond, EndSpan, Export, Shutdown, JoinFirst, JoinNext, Return, Flush,
     Exit
<1> QED
  BY <1>1, <1>2, <1>3, <1>4, <1>5 DEF LTypeOK

LEMMA PhasesStep == LTypeOK /\ Phases /\ [LNext]_lvars => Phases'
<1> SUFFICES ASSUME LTypeOK, Phases, [LNext]_lvars PROVE Phases'
  OBVIOUS
<1>1. CASE StartFails
  BY <1>1 DEF StartFails, tasks, Phases, LTypeOK
<1>2. CASE Return
  BY <1>2 DEF Return, tasks, Phases, LTypeOK
<1>3. CASE Flush \/ Exit
  <2>1. main \in {"returned", "flushed"} /\ main' \in {"flushed", "exited"} /\ server' = server
    BY Zenon, <1>3 DEF Flush, Exit, tasks
  <2> QED
    BY <2>1 DEF Phases
<1>4. CASE Spawn \/ Shutdown \/ \E s \in Servers : JoinFirst(s) \/ JoinNext(s)
  <2>1. main' = "running" \/ main' = "draining"
    BY Zenon, <1>4 DEF Spawn, Shutdown, JoinFirst, JoinNext
  <2> QED
    BY <2>1 DEF Phases
<1>5. CASE \E s \in Servers : Bind(s) \/ NoticeCancel(s) \/ EndServer(s) \/ Crash(s)
  <2>1. PICK s \in Servers : Bind(s) \/ NoticeCancel(s) \/ EndServer(s) \/ Crash(s)
    BY <1>5
  <2>2. main' = main /\ server[s] \in {"binding", "serving", "draining"}
    BY <2>1 DEF Bind, NoticeCancel, EndServer, Crash, control
  <2> QED
    BY <2>2 DEF Phases
<1>6. CASE UNCHANGED <<main, server>>
  BY <1>6 DEF Phases
<1> QED
  BY <1>1, <1>2, <1>3, <1>4, <1>5, <1>6 DEF LNext, lvars, control, tasks, Accept, Respond, Export

(* The lifecycle keeps to its types; only servers that have ended are        *)
(* joined (the loop over JoinSet::join_next).                                *)
THEOREM LifecycleTypeCorrect == LSpec => []LTypeOK
  BY LTypeInit, LTypeStep, PhasesStep, PTL DEF LSpec

-----------------------------------------------------------------------------
(* Requests are at a server that was up, and a server that has drained has   *)
(* none open.                                                                *)
Served(r) ==
  /\ request[r] = "new" => at[r] = None
  /\ request[r] # "new" => /\ at[r] \in Servers
                           /\ server[at[r]] \in {"serving", "draining", "ended"}
  /\ (request[r] = "open" /\ server[at[r]] = "ended") => at[r] \in crashed

ServedInv == \A r \in Requests : Served(r)

LEMMA ServedStep == LTypeOK /\ Phases /\ ServedInv /\ [LNext]_lvars => ServedInv'
<1> SUFFICES ASSUME LTypeOK, Phases, ServedInv, [LNext]_lvars, NEW r \in Requests
             PROVE  Served(r)'
  BY DEF ServedInv
<1>1. Served(r)
  BY DEF ServedInv
<1>2. CASE UNCHANGED <<server, crashed, request, at>>
  BY <1>1, <1>2 DEF Served
<1>3. CASE Spawn
  <2>1. \A s \in Servers : server[s] = "unstarted"
    BY <1>3 DEF Spawn, Phases
  <2>2. request[r] = "new" /\ UNCHANGED <<request, at>>
    BY <1>1, <1>3, <2>1 DEF Spawn, Served, LTypeOK, requests
  <2> QED
    BY <1>1, <2>2 DEF Served
<1>4. ASSUME NEW s \in Servers, Bind(s) PROVE Served(r)'
  BY <1>1, <1>4 DEF Bind, Served, LTypeOK, requests
<1>5. ASSUME NEW s \in Servers, NoticeCancel(s) PROVE Served(r)'
  BY <1>1, <1>5 DEF NoticeCancel, Served, LTypeOK, requests
<1>6. ASSUME NEW s \in Servers, EndServer(s) PROVE Served(r)'
  BY <1>1, <1>6 DEF EndServer, Served, LTypeOK, requests
<1>7. ASSUME NEW s \in Servers, Crash(s) PROVE Served(r)'
  BY <1>1, <1>7 DEF Crash, Served, LTypeOK, requests
<1>8. ASSUME NEW s \in Servers, NEW q \in Requests, Accept(q, s) PROVE Served(r)'
  BY <1>1, <1>8 DEF Accept, Served, LTypeOK, tasks
<1>9. ASSUME NEW q \in Requests, Respond(q) PROVE Served(r)'
  BY <1>1, <1>9 DEF Respond, Served, LTypeOK, tasks
<1> QED
  BY <1>2, <1>3, <1>4, <1>5, <1>6, <1>7, <1>8, <1>9
     DEF LNext, lvars, control, tasks, requests, StartFails, Export, Shutdown, JoinFirst, JoinNext,
         Return, Flush, Exit

LEMMA ServedInit == LInit => ServedInv
<1>1. LInit => request = [r \in Requests |-> "new"] /\ at = [r \in Requests |-> None]
  BY Zenon DEF LInit
<1> QED
  BY <1>1 DEF ServedInv, Served

LEMMA NothingCut == LTypeOK /\ Phases /\ ServedInv => NoRequestCut
  BY DEF LTypeOK, Phases, ServedInv, Served, NoRequestCut

(* A request that was accepted is answered before run_server returns,        *)
(* whichever server ends first and however late the cancellation is seen     *)
(* (with_graceful_shutdown, and the joins of run_server).                    *)
THEOREM RequestsNeverCut == LSpec => []NoRequestCut
  BY LTypeInit, LTypeStep, PhasesStep, ServedInit, ServedStep, NothingCut, PTL DEF LSpec

-----------------------------------------------------------------------------
(* The span of an answered request is in the hands of the SDK until the      *)
(* flush, and once that has succeeded, those of orderly servers have left    *)
(* its queue.                                                                *)
Buffered ==
  (provider /\ main \notin {"flushed", "exited"})
    => \A r \in Requests : request[r] = "answered" => r \in buffered \cup exported \cup lost

Flushed ==
  (main \in {"flushed", "exited"} /\ provider /\ ~flush_failed)
    => \A r \in Requests : at[r] \in Servers \ crashed => r \in exported \cup lost

LEMMA SpansInit == LInit => Buffered /\ Flushed
<1> SUFFICES ASSUME LInit PROVE Buffered /\ Flushed
  OBVIOUS
<1>1. request = [r \in Requests |-> "new"] /\ main = "starting"
  BY Zenon DEF LInit
<1>2. Buffered
  BY <1>1 DEF Buffered
<1>3. Flushed
  BY <1>1 DEF Flushed
<1> QED
  BY <1>2, <1>3

LEMMA SpansKept ==
  [LNext]_lvars => /\ provider' = provider
                   /\ exported \cup lost \subseteq exported' \cup lost'
                   /\ main \in {"flushed", "exited"} => main' \in {"flushed", "exited"}
<1> SUFFICES ASSUME [LNext]_lvars
             PROVE  /\ provider' = provider
                    /\ exported \cup lost \subseteq exported' \cup lost'
                    /\ main \in {"flushed", "exited"} => main' \in {"flushed", "exited"}
  OBVIOUS
<1>1. provider' = provider
  BY Zenon DEF LNext, lvars, telemetry, StartFails, Spawn, Bind, NoticeCancel, EndServer, Crash,
     Accept, Respond, Export, Shutdown, JoinFirst, JoinNext, Return, Flush, Exit
<1>2. exported \cup lost \subseteq exported' \cup lost'
  BY Zenon DEF LNext, lvars, telemetry, spans, StartFails, Spawn, Bind, NoticeCancel, EndServer, Crash,
     Accept, Respond, EndSpan, Export, Shutdown, JoinFirst, JoinNext, Return, Flush, Exit
<1>3. main \in {"flushed", "exited"} => main' \in {"flushed", "exited"}
  BY DEF LNext, lvars, control, StartFails, Spawn, Bind, NoticeCancel, EndServer, Crash,
     Accept, Respond, Export, Shutdown, JoinFirst, JoinNext, Return, Flush, Exit
<1> QED
  BY Zenon, <1>1, <1>2, <1>3

LEMMA BufferedStep == LTypeOK /\ Buffered /\ [LNext]_lvars => Buffered'
<1> SUFFICES ASSUME LTypeOK, Buffered, [LNext]_lvars, provider', main' \notin {"flushed", "exited"},
                    NEW r \in Requests, request'[r] = "answered"
             PROVE  r \in buffered' \cup exported' \cup lost'
  BY DEF Buffered
<1>1. provider /\ main \notin {"flushed", "exited"}
  BY Zenon, SpansKept
<1>2. request[r] = "answered" => r \in buffered \cup exported \cup lost
  BY Zenon, <1>1 DEF Buffered
<1>3. CASE \E q \in Requests : Respond(q)
  <2>1. PICK q \in Requests : Respond(q)
    BY <1>3
  <2>2. main # "flushed"
    BY <1>1
  <2>3. buffered' \cup exported' \cup lost' = buffered \cup exported \cup lost \cup {q}
    <3>1. \/ buffered' = buffered \cup {q} /\ exported' = exported /\ lost' = lost
          \/ lost' = lost \cup {q} /\ exported' = exported /\ buffered' = buffered
      BY Zenon, <1>1, <2>1, <2>2 DEF Respond, EndSpan
    <3> QED
      BY <3>1
  <2>4. r = q \/ request[r] = "answered"
    BY <2>1 DEF Respond, LTypeOK
  <2> QED
    BY <1>2, <2>3, <2>4
<1>4. CASE Export
  <2>1. request' = request
    BY Zenon, <1>4 DEF Export, requests
  <2>2. buffered \cup exported \cup lost \subseteq exported' \cup lost'
    BY Zenon, <1>4 DEF Export
  <2> QED
    BY <1>2, <2>1, <2>2
<1>5. CASE \E s \in Servers, q \in Requests : Accept(q, s)
  <2>1. PICK s \in Servers, q \in Requests : Accept(q, s)
    BY <1>5
  <2>2. request[r] = "answered" /\ UNCHANGED <<buffered, exported, lost>>
    BY <2>1 DEF Accept, LTypeOK, telemetry, spans
  <2> QED
    BY <1>2, <2>2
<1>6. CASE UNCHANGED <<request, buffered, exported, lost>>
  BY <1>2, <1>6
<1>7. ~Flush
  BY DEF Flush
<1> QED
  BY Zenon, <1>3, <1>4, <1>5, <1>6, <1>7 DEF LNext, lvars, requests, telemetry, spans, StartFails,
     Spawn, Bind, NoticeCancel, EndServer, Crash, Shutdown, JoinFirst, JoinNext, Return, Exit

LEMMA FlushedStep ==
  LTypeOK /\ Phases /\ ServedInv /\ Buffered /\ Flushed /\ [LNext]_lvars => Flushed'
<1> SUFFICES ASSUME LTypeOK, Phases, ServedInv, Buffered, Flushed, [LNext]_lvars,
                    main' \in {"flushed", "exited"}, provider', ~flush_failed',
                    NEW r \in Requests, at'[r] \in Servers \ crashed'
             PROVE  r \in exported' \cup lost'
  BY DEF Flushed
<1>1. provider
  BY Zenon, SpansKept
<1>2. CASE Flush
  <2>1. main = "returned" /\ UNCHANGED <<at, crashed>>
    BY Zenon, <1>2 DEF Flush, requests, tasks
  <2>2. PICK failed \in SUBSET buffered : /\ exported' = exported \cup (buffered \ failed)
                                          /\ lost' = lost \cup failed
    BY Zenon, <1>2 DEF Flush
  <2>3. NoRequestCut
    BY NothingCut
  <2>4. request[r] # "open"
    BY <2>1, <2>3 DEF NoRequestCut
  <2>5. request[r] # "new"
    BY LAssumption, <2>1 DEF ServedInv, Served
  <2>6. request[r] = "answered"
    BY <2>4, <2>5 DEF LTypeOK
  <2>7. main \notin {"flushed", "exited"}
    BY <2>1
  <2>8. r \in buffered \cup exported \cup lost
    BY Zenon, <1>1, <2>6, <2>7 DEF Buffered
  <2> QED
    BY <2>2, <2>8
<1>3. CASE ~Flush
  <2>1. main \in {"flushed", "exited"}
    BY <1>3 DEF LNext, lvars, control, StartFails, Spawn, Bind, NoticeCancel, EndServer, Crash,
       Accept, Respond, Export, Shutdown, JoinFirst, JoinNext, Return, Exit
  <2>2. ~flush_failed
    BY Zenon, <1>3 DEF LNext, lvars, telemetry, StartFails, Spawn, Bind, NoticeCancel, EndServer,
       Crash, Accept, Respond, Export, Shutdown, JoinFirst, JoinNext, Return, Exit
  <2>3. exported \cup lost \subseteq exported' \cup lost'
    BY Zenon, SpansKept
  <2>4. \A s \in Servers : server[s] \notin {"binding", "serving", "draining"}
    BY <2>1 DEF Phases
  <2>5. UNCHANGED <<at, crashed>>
    BY <1>3, <2>4 DEF LNext, lvars, requests, tasks, StartFails, Spawn, Bind, NoticeCancel,
       EndServer, Crash, Accept, Respond, Export, Shutdown, JoinFirst, JoinNext, Return, Exit
  <2>6. r \in exported \cup lost
    BY Zenon, <1>1, <2>1, <2>2, <2>5 DEF Flushed
  <2> QED
    BY <2>3, <2>6
<1> QED
  BY <1>2, <1>3

(* No span of a request of an orderly server is left behind when the process *)
(* exits (telemetry::shutdown after run_server, before the exit): each was   *)
(* exported or dropped by the SDK on the way, unless the shutdown of the     *)
(* provider reported an error.                                               *)
THEOREM SpansAlwaysExported == LSpec => []SpansExported
<1>1. Flushed => SpansExported
  BY Zenon DEF Flushed, SpansExported
<1> QED
  BY <1>1, LTypeInit, LTypeStep, PhasesStep, ServedInit, ServedStep, SpansInit, BufferedStep,
     FlushedStep, PTL DEF LSpec

-----------------------------------------------------------------------------
(* run_jwtlet returns an error only when no server was spawned, and Ok only  *)
(* when all have been joined.                                                *)
Outcome ==
  /\ main = "starting" => \A s \in Servers : server[s] = "unstarted"
  /\ main \in {"starting", "running", "draining"} => result = "none"
  /\ result = "Err" => \A s \in Servers : server[s] = "unstarted"
  /\ result = "Ok" => joined = Servers
  /\ main \in {"returned", "flushed", "exited"} => result # "none"

LEMMA OutcomeInit == LInit => Outcome
<1>1. LInit => main = "starting" /\ result = "none" /\ server = [s \in Servers |-> "unstarted"]
  BY Zenon DEF LInit
<1> QED
  BY <1>1 DEF Outcome

LEMMA OutcomeStep == LTypeOK /\ Outcome /\ [LNext]_lvars => Outcome'
<1> SUFFICES ASSUME LTypeOK, Outcome, [LNext]_lvars PROVE Outcome'
  OBVIOUS
<1>1. CASE StartFails
  BY <1>1 DEF StartFails, tasks, Outcome
<1>2. CASE Spawn \/ Shutdown
  <2>1. /\ main \in {"starting", "running"} /\ main' \in {"running", "draining"}
        /\ result' = result
    BY Zenon, <1>2 DEF Spawn, Shutdown
  <2> QED
    BY <2>1 DEF Outcome
<1>3. ASSUME NEW s \in Servers, JoinFirst(s) \/ JoinNext(s) PROVE Outcome'
  <2>1. main \in {"running", "draining"} /\ main' = "draining" /\ result' = result
    BY Zenon, <1>3 DEF JoinFirst, JoinNext
  <2> QED
    BY <2>1 DEF Outcome
<1>4. CASE Return
  BY <1>4 DEF Return, Outcome
<1>5. CASE Flush \/ Exit
  <2>1. /\ main \in {"returned", "flushed"} /\ main' \in {"flushed", "exited"}
        /\ UNCHANGED <<result, joined, server>>
    BY Zenon, <1>5 DEF Flush, Exit, tasks
  <2> QED
    BY <2>1 DEF Outcome
<1>6. ASSUME NEW s \in Servers, Bind(s) \/ NoticeCancel(s) \/ EndServer(s) \/ Crash(s)
      PROVE  Outcome'
  <2>1. UNCHANGED <<main, result, joined>> /\ server[s] # "unstarted"
    BY <1>6 DEF Bind, NoticeCancel, EndServer, Crash, control
  <2> QED
    BY <2>1 DEF Outcome
<1>7. CASE UNCHANGED <<main, result, joined, server>>
  BY <1>7 DEF Outcome
<1> QED
  BY Zenon, <1>1, <1>2, <1>3, <1>4, <1>5, <1>6, <1>7
     DEF LNext, lvars, control, tasks, Accept, Respond, Export

LEMMA StatusTells == LTypeOK /\ Phases /\ ServedInv /\ Outcome => ExitStatus
<1> SUFFICES ASSUME LTypeOK, Phases, ServedInv, Outcome, main = "exited" PROVE ExitStatus
  BY DEF ExitStatus
<1>1. CASE result = "Ok"
  <2>1. joined = Servers
    BY <1>1 DEF Outcome
  <2>2. ASSUME NEW r \in Requests, at[r] \in Servers \ crashed PROVE request[r] = "answered"
    <3>1. request[r] # "open"
      BY <2>2, NothingCut DEF NoRequestCut
    <3>2. request[r] # "new"
      BY <2>2, LAssumption DEF ServedInv, Served
    <3> QED
      BY <3>1, <3>2 DEF LTypeOK
  <2> QED
    BY <1>1, <2>1, <2>2 DEF ExitStatus
<1>2. CASE result = "Err"
  <2>1. \A s \in Servers : server[s] = "unstarted"
    BY <1>2 DEF Outcome
  <2>2. \A r \in Requests : request[r] = "new"
    BY <2>1 DEF ServedInv, Served
  <2> QED
    BY <1>2, <2>2 DEF ExitStatus
<1> QED
  BY <1>1, <1>2 DEF LTypeOK, Outcome

(* The exit status separates a start that failed, which served nobody, from  *)
(* a run that started both servers and waited for them (the match on result  *)
(* in main, and the Ok at the end of run_server).                            *)
THEOREM ExitStatusTells == LSpec => []ExitStatus
  BY LTypeInit, LTypeStep, PhasesStep, ServedInit, ServedStep, OutcomeInit, OutcomeStep, StatusTells,
     PTL DEF LSpec

-----------------------------------------------------------------------------
(* The servers are told to stop when run_server stops waiting for the first  *)
(* of them, and only then; it waits for servers that were spawned.           *)
Told ==
  /\ main \in {"starting", "running"} => ~cancelled
  /\ main = "draining" => cancelled
  /\ main \in {"running", "draining"} => \A s \in Servers : server[s] # "unstarted"

LEMMA ToldInit == LInit => Told
<1>1. LInit => main = "starting" /\ ~cancelled
  BY Zenon DEF LInit
<1> QED
  BY <1>1 DEF Told

LEMMA ToldStep == LTypeOK /\ Told /\ [LNext]_lvars => Told'
<1> SUFFICES ASSUME LTypeOK, Told, [LNext]_lvars PROVE Told'
  OBVIOUS
<1>1. CASE Spawn
  <2>1. main' = "running" /\ ~cancelled' /\ server' = [s \in Servers |-> "binding"]
    BY Zenon, <1>1 DEF Spawn, Told
  <2>2. main' # "draining" /\ \A s \in Servers : server'[s] # "unstarted"
    BY <2>1
  <2> QED
    BY Zenon, <2>1, <2>2 DEF Told
<1>2. CASE Shutdown \/ \E s \in Servers : JoinFirst(s)
  <2>1. main = "running" /\ main' = "draining" /\ cancelled' /\ server' = server
    BY Zenon, <1>2 DEF Shutdown, JoinFirst, tasks
  <2>2. \A s \in Servers : server'[s] # "unstarted"
    BY <2>1 DEF Told
  <2>3. main' \notin {"starting", "running"}
    BY <2>1
  <2> QED
    BY Zenon, <2>1, <2>2, <2>3 DEF Told
<1>3. CASE StartFails \/ Return \/ Flush \/ Exit
  <2>1. main' \in {"returned", "flushed", "exited"}
    BY Zenon, <1>3 DEF StartFails, Return, Flush, Exit
  <2> QED
    BY <2>1 DEF Told
<1>4. ASSUME NEW s \in Servers, Bind(s) \/ NoticeCancel(s) \/ EndServer(s) \/ Crash(s) PROVE Told'
  <2>1. UNCHANGED <<main, cancelled>>
    BY Zenon, <1>4 DEF Bind, NoticeCancel, EndServer, Crash, control
  <2>2. \A t \in Servers : server[t] # "unstarted" => server'[t] # "unstarted"
    BY <1>4 DEF Bind, NoticeCancel, EndServer, Crash, LTypeOK
  <2> QED
    BY Zenon, <2>1, <2>2 DEF Told
<1>5. CASE UNCHANGED <<main, cancelled, server>>
  BY Zenon, <1>5 DEF Told
<1> QED
  BY Zenon, <1>1, <1>2, <1>3, <1>4, <1>5
     DEF LNext, lvars, control, tasks, Accept, Respond, Export, JoinNext

LEMMA HangsNever == LTypeOK /\ Phases /\ Told => NeverHangs
<1> SUFFICES ASSUME LTypeOK, Phases, Told, Stopping, main # "exited" PROVE CanProceed
  BY DEF NeverHangs
<1>1. CASE main = "starting"
  <2>1. ~cancelled /\ \A s \in Servers : server[s] = "unstarted"
    BY Zenon, <1>1 DEF Told, Phases
  <2>2. "unstarted" # "ended"
    OBVIOUS
  <2> QED
    BY Zenon, <2>1, <2>2 DEF Stopping
<1>2. CASE main = "running"
  <2>1. \E s \in Servers : server[s] = "ended"
    BY Zenon, <1>2 DEF Told, Stopping
  <2> QED
    BY Zenon, <1>2, <2>1 DEF CanProceed
<1>3. CASE main = "draining"
  <2>1. cancelled
    BY Zenon, <1>3 DEF Told
  <2>2. CASE joined = Servers
    BY Zenon, <1>3, <2>2 DEF CanProceed
  <2>3. CASE joined # Servers
    <3>1. PICK s \in Servers : s \notin joined
      BY <2>3 DEF LTypeOK
    <3>2. server[s] \in {"binding", "serving", "draining", "ended"}
      BY <1>3 DEF Told, LTypeOK
    <3>3. CASE server[s] = "draining"
      <4>1. CASE \E r \in Requests : request[r] = "open"
        BY Zenon, <4>1 DEF CanProceed
      <4>2. CASE ~\E r \in Requests : request[r] = "open"
        BY Zenon, <3>3, <4>2 DEF CanProceed
      <4> QED
        BY <4>1, <4>2
    <3>4. CASE server[s] \in {"binding", "serving", "ended"}
      BY Zenon, <1>3, <2>1, <3>1, <3>4 DEF CanProceed
    <3> QED
      BY <3>2, <3>3, <3>4
  <2> QED
    BY <2>2, <2>3
<1>4. CASE main \in {"returned", "flushed"}
  BY Zenon, <1>4 DEF CanProceed
<1> QED
  BY <1>1, <1>2, <1>3, <1>4 DEF LTypeOK

(* Once a signal has come or a server has ended, something can always go on  *)
(* until the process has exited, for any number of servers and requests (the *)
(* select! of run_server, its joins and with_graceful_shutdown).             *)
THEOREM ShutdownNeverHangs == LSpec => []NeverHangs
  BY LTypeInit, LTypeStep, PhasesStep, ToldInit, ToldStep, HangsNever, PTL DEF LSpec
=============================================================================
