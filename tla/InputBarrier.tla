---------------------------- MODULE InputBarrier ----------------------------
(***************************************************************************)
(* What the checks of the viewer ask its page: that the host has           *)
(* dispatched all the input sent so far (ViewerInputProbe.flushHostInput), *)
(* and that the page under test got the one click (waitForClick).          *)
(*                                                                         *)
(* A barrier puts an observer in front of the session's handler of         *)
(* answers and sends a ping with a number of its own.  The page, the       *)
(* order of what a session sends, and the host are those of the page       *)
(* under test: a session sends in order, and the host dispatches in order. *)
(***************************************************************************)
EXTENDS Naturals, Sequences, SequencesExt

CONSTANTS Barriers,        \* calls of flushHostInput
          PageSessions,    \* = 1..n: sessions that the viewer opens
          MaxCommands,     \* bound: commands that each session sends
          MaxClicks        \* bound: clicks that the page gets
ASSUME BarrierAssumption ==
  /\ MaxCommands \in [PageSessions -> Nat] /\ 1 \in PageSessions /\ PageSessions \subseteq Nat
  /\ Barriers \cap {"input", "ping", "other"} = {}

VARIABLES onPage,    \* the session on the page, and whether it is connected
          runtime,   \* runtime[s]: who is in front of the native handler, and the marker
          host,      \* host[s]: commands on their way, answers on their way back
          barrier,   \* barrier[b]: its session and the commands sent before its ping
          click      \* waitForClick, and the page's witness
barrierVars == <<onPage, runtime, host, barrier, click>>

BarrierInit ==
  /\ onPage = [session |-> 1, connected |-> TRUE]
  /\ runtime = [s \in PageSessions |-> [chain |-> <<>>, marker |-> {}, placed |-> FALSE]]
  /\ host = [s \in PageSessions |-> [wire |-> <<>>, back |-> <<>>, sent |-> 0, dispatched |-> 0]]
  /\ barrier = [b \in Barriers |-> [at |-> "idle", on |-> 1, due |-> 0, passedIn |-> 0]]
  /\ \E at \in {"polling", "none"} :   \* a check asks for one of the two at a time
       click = [at |-> at, clicks |-> 0, last |-> "none", focused |-> FALSE, scrolled |-> FALSE,
                forged |-> FALSE]

Waiting == {b \in Barriers : barrier[b].at = "waiting"}
Current(b) == onPage.connected /\ onPage.session = barrier[b].on
InFront(b) == LET chain == runtime[barrier[b].on].chain IN chain # <<>> /\ Last(chain) = b
\* The handler is put back where it is still the barrier's own observer.
\* Mutant of Restored: wherever.
RestoredAlways(b, chain) == <<>>
Restored(b, chain) == IF chain # <<>> /\ Last(chain) = b THEN Front(chain) ELSE chain
FinishBarrier(b, at) ==
  /\ barrier' = [barrier EXCEPT ![b].at = at, ![b].passedIn = IF at = "passed" THEN onPage.session ELSE 0]
  /\ runtime' = [runtime EXCEPT ![barrier[b].on].chain = Restored(b, @), ![barrier[b].on].marker = @ \ {b}]
-----------------------------------------------------------------------------
\* One barrier at a time in a session.
\* Mutant of Unmarked: nobody asks.
UnmarkedNever(s) == TRUE
Unmarked(s) == runtime[s].marker = {}
BeginBarrier(b) ==
  LET s == onPage.session
      here == [at |-> "failed", on |-> s, due |-> host[s].sent, passedIn |-> 0]
      fails == /\ barrier' = [barrier EXCEPT ![b] = here] /\ UNCHANGED <<runtime, host>>
  IN /\ barrier[b].at = "idle" /\ UNCHANGED <<onPage, click>>
     /\ \/ ~Unmarked(s) /\ fails
        \/ Unmarked(s) /\ ~onPage.connected /\ fails
        \/ Unmarked(s) /\ onPage.connected
           /\ barrier' = [barrier EXCEPT ![b] = [here EXCEPT !.at = "waiting"]]
           /\ runtime' = [runtime EXCEPT ![s].chain = Append(@, b), ![s].marker = @ \cup {b}]
           /\ host' = [host EXCEPT ![s].wire = Append(@, b)]
\* Mutant of IsOwnPong: any Pong is its own.
MatchesAny(b, pong) == TRUE
IsOwnPong(b, pong) == pong = b
\* Mutant of Judged: the session is not asked.
JudgedBlindly(b, pong, threw) == IF threw THEN "failed" ELSE IF IsOwnPong(b, pong) THEN "passed" ELSE "waiting"
Judged(b, pong, threw) ==
  IF threw \/ ~Current(b) THEN "failed" ELSE IF IsOwnPong(b, pong) THEN "passed" ELSE "waiting"
\* An answer comes in: whoever is in front hears it once those behind have; the
\* native handler may throw, and another's observer need not pass it on.
HandleAnswer(s) ==
  LET chain == runtime[s].chain
      heard == {b \in Waiting : barrier[b].on = s /\ b \in ToSet(chain)}
      pong == Head(host[s].back)
  IN /\ host[s].back # <<>> /\ host' = [host EXCEPT ![s].back = Tail(@)] /\ UNCHANGED <<onPage, click>>
     /\ \/ \E b \in heard, threw \in BOOLEAN :
             IF Judged(b, pong, threw) = "waiting" THEN UNCHANGED <<barrier, runtime>>
             ELSE FinishBarrier(b, Judged(b, pong, threw))
        \/ (heard = {} \/ "other" \in ToSet(chain)) /\ UNCHANGED <<barrier, runtime>>
\* Every 25 ms.
BarrierWatchdog(b) ==
  /\ b \in Waiting /\ (~Current(b) \/ ~InFront(b)) /\ FinishBarrier(b, "failed") /\ UNCHANGED <<onPage, host, click>>
BarrierDeadline(b) == b \in Waiting /\ FinishBarrier(b, "failed") /\ UNCHANGED <<onPage, host, click>>
-----------------------------------------------------------------------------
\* The page and the host.  Keys, clicks, resizes and the page's own pings.
SendCommand(kind) ==
  LET s == onPage.session
  IN /\ onPage.connected /\ host[s].sent < MaxCommands[s] /\ UNCHANGED <<onPage, runtime, barrier, click>>
     /\ host' = [host EXCEPT ![s].wire = Append(@, kind), ![s].sent = @ + 1]
HostDispatches(s) ==
  LET next == Head(host[s].wire)
  IN /\ host[s].wire # <<>> /\ UNCHANGED <<onPage, runtime, barrier, click>>
     /\ host' = [host EXCEPT ![s].wire = Tail(@), ![s].back = IF next = "input" THEN @ ELSE Append(@, next),
                             ![s].dispatched = IF next \in Barriers THEN @ ELSE @ + 1]
\* The session is lost with what it had sent, and another may follow it.
LosesSession ==
  /\ onPage.connected /\ onPage' = [onPage EXCEPT !.connected = FALSE]
  /\ host' = [host EXCEPT ![onPage.session].wire = <<>>] /\ UNCHANGED <<runtime, barrier, click>>
NextSession ==
  /\ onPage.session + 1 \in PageSessions /\ UNCHANGED <<runtime, host, barrier, click>>
  /\ onPage' = [session |-> onPage.session + 1, connected |-> TRUE]
\* Another program on the page sets a handler in front of the one there, or puts
\* the native one back.
OtherReplaces(s) ==
  /\ s = onPage.session /\ UNCHANGED <<onPage, host, barrier, click>>
  /\ \/ ~runtime[s].placed /\ runtime' = [runtime EXCEPT ![s].chain = Append(@, "other"), ![s].placed = TRUE]
     \/ runtime[s].chain # <<>> /\ runtime' = [runtime EXCEPT ![s].chain = <<>>, ![s].placed = FALSE]
-----------------------------------------------------------------------------
\* waitForClick.
Polling == click.at = "polling" /\ UNCHANGED <<onPage, runtime, host, barrier>>
\* Mutant of TooMany: one click at least is enough.
TooManyNever == FALSE
TooMany == click.clicks > 1
PollClick ==
  /\ Polling
  /\ \/ (click.scrolled \/ TooMany \/ click.last = "forged") /\ click' = [click EXCEPT !.at = "failed"]
     \/ ~click.scrolled /\ ~TooMany /\ click.last = "trusted" /\ click.focused /\ click' = [click EXCEPT !.at = "passed"]
ClickDeadline == Polling /\ click' = [click EXCEPT !.at = "failed"]
PageChanges ==
  /\ Polling
  /\ \/ click.clicks < MaxClicks
        /\ \E how \in {"trusted", "forged"} :
             click' = [click EXCEPT !.clicks = @ + 1, !.last = how, !.forged = @ \/ how = "forged"]
     \/ click' \in {[click EXCEPT !.focused = ~@], [click EXCEPT !.scrolled = ~@]}

BarrierNext ==
  \/ /\ click.at = "none"
     /\ \/ \E b \in Barriers : BeginBarrier(b) \/ BarrierWatchdog(b) \/ BarrierDeadline(b)
        \/ \E s \in PageSessions : HandleAnswer(s) \/ HostDispatches(s) \/ OtherReplaces(s)
        \/ \E kind \in {"input", "ping"} : SendCommand(kind)
        \/ LosesSession \/ NextSession
  \/ PollClick \/ ClickDeadline \/ PageChanges
BarrierSpec == BarrierInit /\ [][BarrierNext]_barrierVars
-----------------------------------------------------------------------------
\* A barrier that passed passed in its own session, with every command sent
\* before it dispatched (viewer-input-probe.mjs:2-3); one that did not, for
\* whatever reason, has left nothing on the page and undone nobody else's handler;
\* no two wait in one session.  A click that was waited for is the only one, and
\* a person's.
BarriersAreExact ==
  /\ \A b \in Barriers :
       LET at == barrier[b].at  s == barrier[b].on
       IN /\ at = "passed" => host[s].dispatched >= barrier[b].due /\ barrier[b].passedIn = s
          /\ at = "waiting" => runtime[s].marker = {b}
          /\ at \in {"passed", "failed"} => b \notin runtime[s].marker /\ ~InFront(b)
  /\ \A s \in PageSessions : runtime[s].placed => "other" \in ToSet(runtime[s].chain)
  /\ click.at = "passed" => click.clicks = 1 /\ ~click.forged /\ click.focused
=============================================================================
