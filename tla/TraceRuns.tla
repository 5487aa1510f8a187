----------------------------- MODULE TraceRuns -----------------------------
(***************************************************************************)
(* The two programs that record a Chromium trace in a throwaway browser,   *)
(* scripts/render-pilot/stock-gpu-trace.mjs ("stock", stopped by a command *)
(* of its owner) and native-damage-trace.mjs ("damage", which presses keys *)
(* itself, with an XDamageObserver when Chromium is a custom one).         *)
(*                                                                         *)
(* Each awaits the browser, which may refuse, stay silent until the        *)
(* deadline of the call, having done what it was asked for or not, or hang *)
(* up.  What a DevTools client leaves behind ends with its link: Chromium  *)
(* stops its recording and forgets its streams.                            *)
(***************************************************************************)
EXTENDS Naturals, Sequences, SequencesExt

CONSTANTS MaxReads,   \* chunks that a program reads (512 and 1024 in the code)
          MaxRects    \* bound: rectangles that the observer reports
ASSUME TraceAssumption == MaxReads \in Nat \ {0} /\ MaxRects \in Nat

VARIABLES tracer,     \* the program: where it is, its flag and what it has printed
          armed,      \* its timers that are set, and those that ran out
          chromium,   \* the link, the recording, its end, and the stream of it
          observer    \* the child of XDamageObserver and what it has sent
traceVars == <<tracer, armed, chromium, observer>>

\* What the program awaits, in order.
TracePlan == [stock  |-> <<"connect", "inspect", "start", "work", "end", "wait", "read", "release", "write", "tidy">>,
         damage |-> <<"connect", "inspect", "observe", "start", "work", "end", "observed", "wait",
                      "read", "release", "write", "tidy">>]

TraceInit ==
  /\ \E program \in DOMAIN TracePlan, custom \in BOOLEAN :
       /\ custom => program = "damage"
       /\ tracer = [program |-> program, at |-> "connect", custom |-> custom, tracing |-> FALSE,
                    reads |-> 0, eof |-> FALSE, printed |-> FALSE]
       /\ armed = [set |-> IF program = "stock" THEN {"command"} ELSE {}, over |-> {}, command |-> "none"]
  /\ chromium = [link |-> "none", tracing |-> FALSE, complete |-> FALSE, lossy |-> FALSE,
                 stream |-> FALSE, left |-> 0]
  /\ observer = [at |-> "none", held |-> FALSE, ended |-> FALSE, failed |-> FALSE, lines |-> <<>>]
-----------------------------------------------------------------------------
TracerAt(place) == tracer.at = place
Following == LET plan == TracePlan[tracer.program] IN plan[1 + CHOOSE i \in DOMAIN plan : plan[i] = tracer.at]
GoesOn == [tracer EXCEPT !.at = Following]
\* The finally block; the damage program has not entered its own when it connects.
Throws == [tracer EXCEPT !.at = IF tracer.program = "damage" /\ @ = "connect" THEN "over" ELSE "tidy"]
Linked == chromium.link = "open"
\* A call to the browser: it is answered, or it throws, with its effect or without.
Asks(effect, answered) ==
  \/ Linked /\ chromium' = effect /\ tracer' \in {answered, Throws}
  \/ UNCHANGED chromium /\ tracer' = Throws

Connects ==
  /\ TracerAt("connect") /\ UNCHANGED <<armed, observer>>
  /\ \/ tracer' = GoesOn /\ chromium' = [chromium EXCEPT !.link = "open"]
     \/ tracer' = Throws /\ UNCHANGED chromium
\* It is a pilot's page, alone, visible and focused; the damage program sets the
\* timer of the completion at once.
Inspects ==
  /\ TracerAt("inspect") /\ UNCHANGED observer /\ Asks(chromium, GoesOn)
  /\ armed' = IF tracer.program = "damage" /\ tracer' = GoesOn
              THEN [armed EXCEPT !.set = {"completion"}] ELSE armed
StartsObserver ==
  /\ TracerAt("observe") /\ UNCHANGED <<armed, chromium>>
  /\ \/ ~tracer.custom /\ tracer' = GoesOn /\ UNCHANGED observer
     \/ tracer.custom /\ observer.at = "none" /\ UNCHANGED tracer
        /\ observer' = [observer EXCEPT !.at = "up"]
     \/ tracer.custom /\ observer.lines # <<>> /\ ~observer.failed
        /\ tracer' = GoesOn /\ observer' = [observer EXCEPT !.held = TRUE]
     \/ observer.failed /\ tracer' = Throws /\ UNCHANGED observer
StartsTracing ==
  /\ TracerAt("start") /\ UNCHANGED <<armed, observer>>
  /\ Asks([chromium EXCEPT !.tracing = TRUE], [GoesOn EXCEPT !.tracing = TRUE])
\* The marks and the owner's command, or the keys and the count of them.
Works ==
  /\ TracerAt("work") /\ UNCHANGED <<chromium, observer>>
  /\ \/ tracer' = Throws /\ UNCHANGED armed
     \/ Linked /\ tracer.program = "damage" /\ tracer' = GoesOn /\ UNCHANGED armed
     \/ Linked /\ armed.command = "stop" /\ tracer' = GoesOn /\ armed' = [armed EXCEPT !.set = {}]
\* Mutant of EndsTracing: the completion has no deadline.
EndsTracingUntimed ==
  /\ TracerAt("end") /\ UNCHANGED <<armed, observer>>
  /\ Asks([chromium EXCEPT !.tracing = FALSE], [GoesOn EXCEPT !.tracing = FALSE])
EndsTracing ==
  /\ TracerAt("end") /\ UNCHANGED observer
  /\ Asks([chromium EXCEPT !.tracing = FALSE], [GoesOn EXCEPT !.tracing = FALSE])
  /\ armed' = IF tracer.program = "stock" /\ tracer' # Throws
              THEN [armed EXCEPT !.set = {"completion"}] ELSE armed

\* The observer's promise: it has ended well, and every line of it is there.
\* Mutant of ObserverIsDone: it has ended.
ObserverEnded == observer.at = "gone"
ObserverIsDone == /\ observer.at = "gone" /\ ~observer.failed
                  /\ Len(observer.lines) >= 2 /\ Head(observer.lines) = "ready" /\ Last(observer.lines) = "done"
\* finish(): its input is ended, and its end is awaited.
FinishesObserver ==
  /\ TracerAt("observed") /\ UNCHANGED <<armed, chromium>>
  /\ \/ ~observer.held /\ tracer' = GoesOn /\ UNCHANGED observer
     \/ observer.held /\ ~observer.ended /\ UNCHANGED tracer /\ observer' = [observer EXCEPT !.ended = TRUE]
     \/ observer.held /\ observer.ended /\ observer.at = "gone"
        /\ IF ObserverIsDone THEN tracer' = GoesOn /\ observer' = [observer EXCEPT !.held = FALSE]
           ELSE tracer' = Throws /\ UNCHANGED observer

\* The completion arrives or its timer runs out first; lost events are refused.
\* Mutant of Lossless: they are not.
LosslessEnough == TRUE
Lossless == ~chromium.lossy
AwaitsCompletion ==
  /\ TracerAt("wait") /\ UNCHANGED <<chromium, observer>>
  /\ \/ "completion" \in armed.over /\ tracer' = Throws /\ UNCHANGED armed
     \/ chromium.complete /\ "completion" \notin armed.over
        /\ armed' = [armed EXCEPT !.set = {}] /\ tracer' = IF Lossless THEN GoesOn ELSE Throws
\* The chunks, until the last one or too many; then the stream is closed anyway.
\* Mutant of ReadsOn: the bound ends the reading and nothing is said.
ReadsOnQuietly(r, eof) == IF eof \/ r = MaxReads THEN [GoesOn EXCEPT !.eof = TRUE] ELSE [tracer EXCEPT !.reads = r]
ReadsOn(r, eof) ==
  IF eof THEN [GoesOn EXCEPT !.eof = TRUE]
  ELSE IF r = MaxReads THEN [tracer EXCEPT !.at = "release"] ELSE [tracer EXCEPT !.reads = r]
ReadsChunk ==
  /\ TracerAt("read") /\ UNCHANGED <<armed, observer>>
  /\ \/ Linked /\ chromium' = [chromium EXCEPT !.left = @ - 1]
        /\ tracer' = ReadsOn(tracer.reads + 1, chromium.left = 1)
     \/ tracer' = [tracer EXCEPT !.at = "release"] /\ UNCHANGED chromium
Releases ==
  /\ TracerAt("release") /\ UNCHANGED <<armed, observer>>
  /\ Asks([chromium EXCEPT !.stream = FALSE], IF tracer.eof THEN GoesOn ELSE Throws)
\* The file is new, the summaries accept the trace, each clock mark is there once.
WritesTrace == /\ TracerAt("write") /\ UNCHANGED <<armed, chromium, observer>>
          /\ tracer' \in {[GoesOn EXCEPT !.printed = TRUE], Throws}
-----------------------------------------------------------------------------
\* finally: the timers, a recording that was begun, the observer, the link.
StopsTracing ==
  /\ TracerAt("tidy") /\ tracer.tracing /\ UNCHANGED <<armed, observer>>
  /\ tracer' = [tracer EXCEPT !.tracing = FALSE]
  /\ chromium' \in {chromium, [chromium EXCEPT !.tracing = FALSE]}
\* Mutant of StopsObserver: if it has failed, so does the rest.
StopsObserverFirst ==
  /\ TracerAt("tidy") /\ ~tracer.tracing /\ observer.held /\ UNCHANGED <<armed, chromium>>
  /\ \/ ~observer.ended /\ observer' = [observer EXCEPT !.ended = TRUE] /\ UNCHANGED tracer
     \/ observer.ended /\ observer.at = "gone" /\ observer' = [observer EXCEPT !.held = FALSE]
        /\ tracer' = IF ObserverIsDone THEN tracer ELSE [tracer EXCEPT !.at = "over"]
StopsObserver ==
  /\ TracerAt("tidy") /\ ~tracer.tracing /\ observer.held /\ UNCHANGED <<tracer, armed, chromium>>
  /\ \/ ~observer.ended /\ observer' = [observer EXCEPT !.ended = TRUE]
     \/ observer.ended /\ observer.at = "gone" /\ observer' = [observer EXCEPT !.held = FALSE]
LetsGo ==
  /\ TracerAt("tidy") /\ ~tracer.tracing /\ ~observer.held /\ UNCHANGED observer
  /\ tracer' = [tracer EXCEPT !.at = "over"] /\ armed' = [armed EXCEPT !.set = {}]
  /\ chromium' = [chromium EXCEPT !.link = "closed", !.tracing = FALSE, !.stream = FALSE]
-----------------------------------------------------------------------------
\* The others.  A timer runs out.
TimerEnds(t) ==
  /\ t \in armed.set /\ UNCHANGED <<tracer, chromium, observer>>
  /\ armed' = [set |-> armed.set \ {t}, over |-> armed.over \cup {t},
               command |-> IF t = "command" /\ armed.command = "none" THEN "late" ELSE armed.command]
\* The owner says stop, or closes the input.
OwnerCommands == /\ tracer.program = "stock" /\ armed.command = "none" /\ ~TracerAt("over")
            /\ armed' \in {[armed EXCEPT !.command = c] : c \in {"stop", "eof"}}
            /\ UNCHANGED <<tracer, chromium, observer>>
\* Chromium has written the whole trace; the event of it stops the damage
\* program's timer.
Completes ==
  /\ Linked /\ ~chromium.complete /\ (TracerAt("observed") \/ TracerAt("wait"))
  /\ \E lossy \in BOOLEAN, n \in 1..MaxReads + 1 :
       chromium' = [chromium EXCEPT !.complete = TRUE, !.lossy = lossy, !.stream = TRUE, !.left = n]
  /\ armed' = IF tracer.program = "damage" THEN [armed EXCEPT !.set = {}] ELSE armed
  /\ UNCHANGED <<tracer, observer>>
HangsUp == /\ Linked /\ UNCHANGED <<tracer, armed, observer>>
           /\ chromium' = [chromium EXCEPT !.link = "closed", !.tracing = FALSE, !.stream = FALSE]

Watches == observer.at = "up" /\ UNCHANGED <<tracer, armed, chromium>>
\* A line of the observer: the first is its greeting, and the last, once its input
\* has ended or its time is over, tells how many there were.
ObserverSays ==
  /\ Watches
  /\ \/ observer.lines = <<>> /\ observer' = [observer EXCEPT !.lines = <<"ready">>]
     \/ observer.lines # <<>> /\ Last(observer.lines) # "done" /\ Len(observer.lines) <= MaxRects
        /\ observer' = [observer EXCEPT !.lines = Append(@, "rect")]
     \/ observer.lines # <<>> /\ Last(observer.lines) # "done"
        /\ observer' = [observer EXCEPT !.lines = Append(@, "done")]
ObserverExits ==
  /\ \/ observer.at = "up" /\ observer.lines # <<>> /\ Last(observer.lines) = "done"
     \/ observer.at = "killed"
  /\ observer' = [observer EXCEPT !.at = "gone"] /\ UNCHANGED <<tracer, armed, chromium>>
\* It dies, or is killed after fourteen seconds or for what it wrote.
ObserverDies == /\ Watches
                /\ \E at \in {"killed", "gone"} : observer' = [observer EXCEPT !.at = at, !.failed = TRUE]

TracerStep ==
  \/ Connects \/ Inspects \/ StartsObserver \/ StartsTracing \/ EndsTracing \/ FinishesObserver
  \/ AwaitsCompletion \/ ReadsChunk \/ Releases \/ WritesTrace \/ StopsTracing \/ StopsObserver \/ LetsGo
  \/ TracerAt("work") /\ (tracer.program = "damage" \/ armed.command # "none") /\ Works
TraceRunNext ==
  \/ TracerStep \/ Works \/ OwnerCommands \/ Completes \/ HangsUp
  \/ ObserverSays \/ ObserverExits \/ ObserverDies
  \/ \E t \in {"command", "completion"} : TimerEnds(t)
TraceSpec == TraceInit /\ [][TraceRunNext]_traceVars
-----------------------------------------------------------------------------
\* What is printed is a whole trace, read to its end, with every rectangle that
\* the observer saw from before the recording until after it; and when the
\* program is over, however it failed, nothing of it is left: no recording, no
\* stream, no timer and no observer that was not told to end (stock-gpu-trace.mjs:91-95,
\* native-damage-trace.mjs:77-82).
TraceIsWhole ==
  /\ tracer.printed => ~chromium.lossy /\ tracer.eof /\ chromium.left = 0
  /\ tracer.printed /\ tracer.custom => ~observer.failed /\ Last(observer.lines) = "done"
  /\ chromium.tracing /\ tracer.custom => observer.lines # <<>>
  /\ tracer.at = "over" =>
       ~chromium.tracing /\ ~chromium.stream /\ ~Linked /\ armed.set = {} /\ observer.at # "up"
\* And a program that has begun is over some time, whoever stays silent.
TracesEnd == (tracer.at # "connect") ~> (tracer.at = "over")
TracesAreClean == []TraceIsWhole /\ TracesEnd
=============================================================================
