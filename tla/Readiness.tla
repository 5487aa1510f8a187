----------------------------- MODULE Readiness -----------------------------
(***************************************************************************)
(* The programs that answer "is the browser ready?": the gate of the GPU   *)
(* (server/check-gpu.mjs), the web server's /healthz (main.mjs:46-57), the *)
(* doctor, and the graceful close of the browser.  Each is a conversation  *)
(* with other processes, which answer, fail, hang up or stay silent in any *)
(* order while a deadline runs.                                            *)
(*                                                                         *)
(* A graphics report is the set of its flaws; the supervisor's greeting of *)
(* eight bytes has Greeting bytes here.                                    *)
(***************************************************************************)
EXTENDS Naturals, Sequences, SequencesExt, FiniteSets

CONSTANTS Reports,         \* sets of flaws that the browser may report
          Settings,        \* configurations, see Accepted
          SocketTables,    \* sets of [port, listens, loopback]
          Greeting,        \* the length of the supervisor's greeting
          MaxOutages       \* bound: changes of the other processes
ASSUME ReadinessAssumption == Greeting \in Nat \ {0} /\ MaxOutages \in Nat

VARIABLES check,     \* the program that runs, and its verdict
          parts,     \* the processes that /healthz asks
          outages,   \* how many changes they have seen
          truth      \* history: what was really answered
readyVars == <<check, parts, outages, truth>>

Programs == {"gate", "health", "doctor", "close"}
Parts == {"agent", "cdp", "mcp", "gateway"}
Asked == <<"agent", "cdp", "mcp", "gateway">>

ReadyInit ==
  /\ check \in [program : Programs, at : {"begin"}, verdict : {"none"},
                tail : BOOLEAN, decode : BOOLEAN, settings : Settings,
                sockets : SocketTables, got : {0}, poor : {FALSE}]
  /\ check.program # "gate" => ~check.decode
  /\ check.program = "close" => ~check.tail
  /\ check.program # "doctor" =>
       /\ check.settings = CHOOSE s \in Settings : TRUE
       /\ check.sockets = CHOOSE t \in SocketTables : TRUE
  /\ parts \in [Parts -> {"up", "down"}] /\ outages = 0
  /\ truth = [report |-> {"none"}, bytes |-> 0, wrong |-> FALSE, ended |-> FALSE,
              up |-> {p \in Parts : parts[p] = "up"}]

Done(verdict) == [check EXCEPT !.at = "done", !.verdict = verdict]
Goes(at) == [check EXCEPT !.at = at]
-----------------------------------------------------------------------------
\* The validation of the configuration, the first refusal first.
Origin(url, test) ==
  /\ url.scheme = "https" \/ (test /\ url.scheme = "http" /\ url.host \in {"localhost", "127.0.0.1"})
  /\ url.bare /\ url.host # "invalid"
Accepted(s) ==
  /\ Origin(s.viewer, s.test) /\ Origin(s.gateway, FALSE)
  /\ s.viewer.host = s.gateway.host /\ s.plainBase
  /\ s.host \in {"unset", s.viewer.host} /\ s.bind \in {"unset", "unicast"}

\* ListenerStatus: a port is private if something listens on it and nothing
\* does for other hosts.
Listeners(t) == {e \in t : e.listens}
PrivatePort(t, port) ==
  LET here == {e \in Listeners(t) : e.port = port}
  IN here # {} /\ \A e \in here : e.loopback
\* Mutant of Private: one loopback listener is enough.
PrivateAny(t) == \A port \in {"cdp", "admin"} : \E e \in Listeners(t) : e.port = port /\ e.loopback
Private(t) == PrivatePort(t, "cdp") /\ PrivatePort(t, "admin")
Sound(t) == /\ Private(t) /\ ~\E e \in Listeners(t) : e.port = "cdpProxy"
            /\ \E e \in Listeners(t) : e.port = "mcp"

BeginCheck ==
  /\ check.at = "begin"
  /\ check' = CASE check.program = "doctor" /\ ~Accepted(check.settings) -> Done("failed")
                [] check.program \in {"gate", "close"} -> Goes("fetch")
                [] OTHER -> Goes(IF check.tail THEN "stat" ELSE "agent")
  /\ UNCHANGED <<parts, outages, truth>>
-----------------------------------------------------------------------------
\* The browser's endpoint, then a socket and one request on it.  The flaws are
\* looked for in this order, and those of the decoder only if it is required.
Flaws == <<"missing", "renderer", "sandbox", "crashCount", "crashed", "compositing", "rasterization">>
DecoderFlaws == <<"videoDecode", "h264">>
FirstFlaw(order, report) ==
  LET found == {i \in 1..Len(order) : order[i] \in report}
  IN IF found = {} THEN "ok" ELSE order[CHOOSE i \in found : \A j \in found : i <= j]
\* Mutant of Validated: the decoder's flaws replace the others.
ValidatedOnce(report) == FirstFlaw(IF check.decode THEN DecoderFlaws ELSE Flaws, report)
Validated(report) ==
  FirstFlaw(IF check.decode THEN Flaws \o DecoderFlaws ELSE Flaws, report)

\* No answer in time, none at all, a bad status, metadata that is no URL, an
\* endpoint that is not private, or a socket.  The close trusts the metadata.
FetchVersion ==
  /\ check.at = "fetch" /\ UNCHANGED <<parts, outages, truth>>
  /\ \/ check' = Goes("opening")
     \/ \E e \in {"httpTimeout", "unavailable", "status", "metadata", "socketFailed"} : check' = Done(e)
     \/ check.program = "gate" /\ check' = Done("notPrivate")
SocketOpens ==
  /\ check.at = "opening" /\ UNCHANGED <<parts, outages, truth>>
  /\ check' \in {Goes("asked"), Done("socketFailed")}
SocketErrs ==
  /\ check.at \in {"opening", "asked"} /\ check' = Done("socketFailed")
  /\ UNCHANGED <<parts, outages, truth>>
\* To the close, a socket that is closed is the browser's end.
SocketCloses ==
  /\ check.at \in {"opening", "asked"} /\ UNCHANGED <<parts, outages>>
  /\ truth' = [truth EXCEPT !.ended = TRUE]
  /\ check' = Done(IF check.program = "close" THEN "ok" ELSE "socketClosed")
SocketTimeout ==
  /\ check.at \in {"opening", "asked"} /\ check' = Done("queryTimeout")
  /\ UNCHANGED <<parts, outages, truth>>

\* Mutant of Ours: any message is taken for the answer.
OursAny(id) == TRUE
Ours(id) == id = 1
\* What the gate makes of a message: of another's, nothing.
GateReply(id, report) ==
  IF ~Ours(id) THEN check
  ELSE LET v == Validated(report)
       IN IF v = "ok" /\ check.tail THEN Goes("stat") ELSE Done(v)
SocketSays ==
  /\ check.program = "gate" /\ check.at = "asked" /\ UNCHANGED <<parts, outages>>
  /\ \/ \E r \in Reports : check' = GateReply(1, r) /\ truth' = [truth EXCEPT !.report = r]
     \/ check' = GateReply(2, {"missing"}) /\ UNCHANGED truth
     \/ check' \in {Done("rejected"), Done("invalid")} /\ UNCHANGED truth
-----------------------------------------------------------------------------
\* The supervisor's health socket: it must be the user's own, and send exactly
\* the greeting, in any pieces, and then end.
AfterCapture(verdict) ==
  IF check.program = "gate" THEN Done(verdict)
  ELSE IF verdict = "ok" THEN Goes("agent") ELSE Done("failed")
StatSocket ==
  /\ check.at = "stat" /\ UNCHANGED <<parts, outages, truth>>
  /\ check' \in {Goes("exchange"), AfterCapture("socketInvalid")}
Piece ==
  /\ check.at = "exchange" /\ UNCHANGED <<parts, outages>>
  /\ \E n \in 1..Greeting, right \in BOOLEAN :
       /\ truth' = [truth EXCEPT !.bytes = @ + n, !.wrong = ~right]
       /\ check' = IF check.got + n > Greeting \/ ~right THEN AfterCapture("unhealthy")
                   ELSE [check EXCEPT !.got = @ + n]
\* Mutant of Whole: a piece of the greeting is enough.
WholePiece == check.got > 0
Whole == check.got = Greeting
CaptureEnds ==
  /\ check.at = "exchange" /\ UNCHANGED <<parts, outages>>
  /\ truth' = [truth EXCEPT !.ended = TRUE]
  /\ check' = AfterCapture(IF Whole THEN "ok" ELSE "truncated")
CaptureFails ==
  /\ check.at = "exchange" /\ UNCHANGED <<parts, outages, truth>>
  /\ check' = AfterCapture("unavailable")
\* Mutant of CaptureTimeout: the first piece stops the timer.
CaptureTimeoutSilent ==
  /\ check.at = "exchange" /\ check.got = 0 /\ UNCHANGED <<parts, outages, truth>>
  /\ check' = AfterCapture("timeout")
CaptureTimeout ==
  /\ check.at = "exchange" /\ UNCHANGED <<parts, outages, truth>>
  /\ check' = AfterCapture("timeout")
-----------------------------------------------------------------------------
\* /healthz asks one part after the other: one that does not answer is a 503 at
\* once, one that answers badly is remembered.
AfterParts(bad) ==
  LET healthy == ~(check.poor \/ bad)
  IN Done(IF healthy /\ (check.program = "doctor" => Sound(check.sockets)) THEN "ok" ELSE "failed")
\* Mutant of Poor: an answer is enough.
PoorNever(p) == FALSE
Poor(p) == parts[p] = "bad"
AskPart(i) ==
  /\ check.at = Asked[i] /\ UNCHANGED <<parts, outages, truth>>
  /\ LET p == Asked[i]
     IN check' = IF parts[p] = "down" THEN Done("failed")
                 ELSE IF i = Len(Asked) THEN AfterParts(Poor(p))
                 ELSE [check EXCEPT !.at = Asked[i + 1], !.poor = @ \/ Poor(p)]
\* The doctor waits six seconds for the answer of /healthz.
DoctorGivesUp == /\ check.program = "doctor" /\ check.at \in Range(Asked) \cup {"stat", "exchange"}
                 /\ check' = Done("failed") /\ UNCHANGED <<parts, outages, truth>>
\* Meanwhile they come and go; the agent's socket is there or is not.
Outage ==
  /\ outages < MaxOutages /\ outages' = outages + 1 /\ check.at \in Range(Asked) \cup {"exchange"}
  /\ \E p \in Parts, s \in {"up", "bad", "down"} :
       /\ p = "agent" => s # "bad"
       /\ parts' = [parts EXCEPT ![p] = s]
       /\ truth' = [truth EXCEPT !.up = IF s = "up" THEN @ \cup {p} ELSE @]
  /\ UNCHANGED check

ReadyStep == \/ BeginCheck \/ FetchVersion \/ SocketTimeout \/ StatSocket \/ CaptureTimeout
             \/ \E i \in 1..Len(Asked) : AskPart(i)
ReadyNext ==
  \/ ReadyStep \/ SocketOpens \/ SocketErrs \/ SocketCloses \/ SocketSays
  \/ Piece \/ CaptureEnds \/ CaptureFails \/ DoctorGivesUp \/ Outage
ReadySpec == ReadyInit /\ [][ReadyNext]_readyVars
-----------------------------------------------------------------------------
\* "Ready" is earned: by a report without a flaw that matters, by exactly the
\* greeting, by parts that were each up while they were asked, by sockets no
\* other host reaches.  And a refusal names a flaw of the browser's own answer
\* (gpu-status.mjs:42-61, gpu-capture-health.mjs:32-39, main.mjs:47-55,
\* doctor.mjs:17-19).
VerdictIsTrue ==
  /\ check.verdict = "ok" =>
       /\ check.program = "gate" =>
            truth.report \cap (Range(Flaws) \cup IF check.decode THEN Range(DecoderFlaws) ELSE {}) = {}
       /\ check.tail => truth.bytes = Greeting /\ ~truth.wrong /\ truth.ended
       /\ check.program \in {"health", "doctor"} => truth.up = Parts
       /\ check.program = "doctor" =>
            \A e \in check.sockets : e.listens /\ e.port \in {"cdp", "admin", "cdpProxy"} => e.loopback
       /\ check.program = "close" => truth.ended
  /\ check.verdict \in Range(Flaws \o DecoderFlaws) => check.verdict \in truth.report

\* Every check that was begun ends, whoever stays silent.
ChecksEnd == (check.at # "begin") ~> (check.at = "done")
\* Both together: a check says what is so, and says something.
ChecksAreTrue == []VerdictIsTrue /\ ChecksEnd
=============================================================================
