----------------------------- MODULE MCProgress -----------------------------
(* What must eventually happen, in the parts that have deadlines and timers, *)
(* each on a small instance.  The focus of a behaviour is the part that moves *)
(* in it; the others are at rest in one of their initial states, and nothing  *)
(* is fair to them.                                                           *)
EXTENDS WorkflowRunner, HttpSessions, GatewayControl, Readiness, ProbeChannels,
        TraceRuns, LiveWatch, TLC

\* Reports with flaws that matter never, always, and only to a decoder.
MCReports == {{}, {"missing"}, {"sandbox", "crashed"}, {"h264"}, {"videoDecode", "rasterization"}}
URL(s, h, b) == [scheme |-> s, host |-> h, bare |-> b]
Environment(v, g, t, h, b, p) ==
  [viewer |-> v, gateway |-> g, test |-> t, host |-> h, bind |-> b, plainBase |-> p]
MCAccepted == Environment(URL("https", "a", TRUE), URL("https", "a", TRUE), FALSE, "unset", "unicast", TRUE)
MCSettings ==
  {Environment(URL("https", "a", TRUE), URL("https", g, TRUE), FALSE, h, "unicast", TRUE) :
     g \in {"a", "b"}, h \in {"unset", "a", "b"}}
  \cup {Environment(URL("http", h, TRUE), URL("https", h, TRUE), t, "unset", "unset", TRUE) :
     h \in {"a", "localhost"}, t \in BOOLEAN}
Listener(p, l, k) == [port |-> p, listens |-> l, loopback |-> k]
MCBase == {Listener("cdp", TRUE, TRUE), Listener("admin", TRUE, TRUE), Listener("mcp", TRUE, FALSE)}
MCSockets == {MCBase, MCBase \cup {Listener("cdp", TRUE, FALSE)},
              MCBase \cup {Listener("admin", FALSE, FALSE)}, MCBase \cup {Listener("cdpProxy", TRUE, TRUE)}}

\* The owner's greeting and its cleanup, and two other calls.
MCLimit == [kind \in {"rpc", "diagnostic", "fixture", "warm"} |-> IF kind \in {"rpc", "warm"} THEN 1 ELSE 2]

VARIABLE focus   \* the part that this behaviour works on
On(f) == focus = f

MCInit ==
  /\ focus \in {"workflow", "sessions", "gateway", "checks", "probe", "recording", "supervision"}
  /\ Init /\ HttpInit /\ GatewayInit /\ WatchInit
  /\ On("checks") \/ check = CHOOSE c \in
       [program : {"doctor"}, at : {"begin"}, verdict : {"none"}, tail : {FALSE}, decode : {FALSE},
        settings : {MCAccepted}, sockets : {MCBase},
        got : {0}, poor : {FALSE}] : TRUE
  /\ On("checks") \/ parts = [p \in Parts |-> "up"]
  /\ ReadyInit
  /\ check.program = "doctor" => check.settings = MCAccepted \/ check.sockets = MCBase
  /\ On("probe") \/ channel = [kind |-> "diagnostic", at |-> "connecting", failed |-> FALSE, sequence |-> 0]
  /\ ProbeInit
  /\ On("recording") \/ tracer = [program |-> "stock", at |-> "connect", custom |-> FALSE, tracing |-> FALSE,
                               reads |-> 0, eof |-> FALSE, printed |-> FALSE]
  /\ TraceInit
\* Requests and sessions are taken in the order of their numbers, which says
\* nothing about their properties: nothing else tells them apart.
InTurn ==
  /\ \A r \in HttpRequests : request[r].pc = "idle" /\ request'[r].pc # "idle" =>
       \A q \in 1..(r - 1) : request[q].pc # "idle"
  /\ \A s \in HttpSessionSet : session[s].state = "unborn" /\ session'[s].state # "unborn" =>
       \A p \in 1..(s - 1) : session[p].state # "unborn"
MCNext ==
  /\ UNCHANGED focus
  /\ IF On("workflow") THEN Next ELSE UNCHANGED vars
  /\ IF On("sessions") THEN HttpNext /\ InTurn ELSE UNCHANGED httpVars
  /\ IF On("gateway") THEN GatewayNext ELSE UNCHANGED gatewayVars
  /\ IF On("checks") THEN ReadyNext ELSE UNCHANGED readyVars
  /\ IF On("probe") THEN ProbeNext ELSE UNCHANGED probeVars
  /\ IF On("recording") THEN TraceRunNext ELSE UNCHANGED traceVars
  /\ IF On("supervision") THEN WatchNext ELSE UNCHANGED watchVars

\* A worker goes on; nothing obliges the operator, the site or a new job.
WorkerFairness == \A w \in Workers : WF_vars(On("workflow") /\ WorkerStep(w))
\* Every HTTP request has a deadline and the sweep of idle sessions goes on;
\* operations and factories owe nothing.
SessionsFairness ==
  /\ \A r \in HttpRequests :
       WF_httpVars(On("sessions") /\ HandlerStep(r)) /\ WF_httpVars(On("sessions") /\ Abort(r))
  /\ \A s \in HttpSessionSet :
       WF_httpVars(On("sessions") /\ (Drain(s) \/ Dispose(s) \/ Age(s) \/ ExpireIdle(s)))
\* The supervisor and the admin run, and a gateway that is told to end does.
GatewayFairness ==
  /\ WF_gatewayVars(On("gateway") /\ SupervisorStep) /\ WF_gatewayVars(On("gateway") /\ AdminStep)
  /\ WF_gatewayVars(On("gateway") /\ sup.child = "dying" /\ GatewayEnds)
\* Deadlines run out, and the checks take their own steps.
ChecksFairness == WF_readyVars(On("checks") /\ ReadyStep)
\* Every call has its timer.
ProbeFairness == \A c \in Calls : WF_probeVars(On("probe") /\ Deadline(c))
\* A recording takes its own steps, its timers run out, and an observer whose
\* input has ended, or that is killed, is gone some time.
TraceFairness ==
  /\ WF_traceVars(On("recording") /\ TracerStep)
  /\ WF_traceVars(On("recording") /\ (ObserverExits \/ ObserverDies))
  /\ \A t \in {"command", "completion"} : WF_traceVars(On("recording") /\ TimerEnds(t))
\* Time passes, the watch and an encoder that does not hang go on, and the kernel
\* ends what it is told to kill.
WatchFairness ==
  /\ WF_watchVars(On("supervision") /\ WatchStep) /\ WF_watchVars(On("supervision") /\ SecondPasses)
  /\ WF_watchVars(On("supervision") /\ LoopsRound) /\ WF_watchVars(On("supervision") /\ KernelEnds)
MCSpec ==
  /\ MCInit
  /\ [][MCNext]_<<focus, vars, httpVars, gatewayVars, readyVars, probeVars, traceVars, watchVars>>
  /\ WorkerFairness /\ SessionsFairness /\ GatewayFairness /\ ChecksFairness /\ ProbeFairness
  /\ TraceFairness /\ WatchFairness
=============================================================================
