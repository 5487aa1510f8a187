----------------------------- MODULE CompactMcp -----------------------------
(***************************************************************************)
(* The compact MCP service (server/compact): clients' sessions call tools  *)
(* that look at the shared tab (view, read) or act on it (act, dialog,     *)
(* flow).  A call waits in the executor, then runs as a series of browser  *)
(* operations; between two of them everything else may move: the page, a  *)
(* person, other sessions' calls, an abort.                                *)
(*                                                                         *)
(* An action here is the code between two awaits.  Refusals that change    *)
(* nothing and are answered at once (bad arguments, another session's      *)
(* lease, a used or expired request number) are left out.                  *)
(***************************************************************************)
EXTENDS SerialExecutor, RequestLedger, SharedTab

CONSTANTS Kinds,      \* the tools clients call, of "view", "read", "act", "dialog", "flow"
          Steps,      \* steps of an action, or of a stage of a flow
          Stages,     \* stages of a flow
          MaxViews    \* bound: views a session asks for

ASSUME McpAssumption ==
  /\ Kinds \subseteq {"view", "read", "act", "dialog", "flow"}
  /\ Kinds # {} /\ Sessions # {}
  /\ Owners = Sessions \X Requests
  /\ Steps \in Nat \ {0} /\ Stages \in Nat \ {0} /\ MaxViews \in Nat

VARIABLES call,      \* call[c]: the call a request of the HTTP server makes
          latest,    \* latest[s]: the number and epoch of the session's last view
          ended,     \* the sessions that are closed
          sent       \* history: the inputs issued for each request

vars == <<executorVars, ledgerVars, tabVars, call, latest, ended, sent>>

Waiting == {"idle", "queued", "sharing"}
Looking == {"snap", "read", "look"}
Acting  == {"guard", "aim", "act", "accept", "closing", "settle"}
Between == {"stage", "end"}

NoEpoch == [document |-> 1, mutation |-> 0]

Call == [pc : Waiting \cup Looking \cup Acting \cup Between,
         session : Sessions, kind : Kinds,
         request : Requests \cup {0},    \* 0: the tool changes nothing
         view : Nat,                     \* the view it names, 0: none
         seen : Epoch,                   \* the epoch it may look or act in
         popups : 0..MaxPopups, stage : 0..Stages, step : 0..Steps, part : 0..Parts,
         held : 0..MaxDialogs,           \* the dialog it closes
         aborted : BOOLEAN]

Idle == [pc |-> "idle", session |-> CHOOSE s \in Sessions : TRUE,
         kind |-> CHOOSE k \in Kinds : TRUE, request |-> 0, view |-> 0,
         seen |-> NoEpoch, popups |-> 0, stage |-> 0, step |-> 0, part |-> 0,
         held |-> 0, aborted |-> FALSE]

TypeOK == /\ ExecutorTypeOK /\ LedgerTypeOK /\ TabTypeOK
          /\ call \in [Calls -> Call]
          /\ latest \in [Sessions -> [id : Nat, epoch : Epoch]]
          /\ ended \subseteq Sessions
          /\ sent \in [Owners -> Nat]

Init == /\ ExecutorInit /\ LedgerInit /\ TabInit
        /\ call = [c \in Calls |-> Idle]
        /\ latest = [s \in Sessions |-> [id |-> 0, epoch |-> NoEpoch]]
        /\ ended = {}
        /\ sent = [o \in Owners |-> 0]

----------------------------------------------------------------------------
\* Answers.  The promise of a mutating request is settled with its call.

Owner(c)     == <<call[c].session, call[c].request>>
Outcome(cs)  == {Owner(c) : c \in {d \in cs : call[d].request # 0}}
Answered(cs) == /\ call' = [c \in Calls |-> IF c \in cs THEN Idle ELSE call[c]]
                /\ settled' = settled \cup Outcome(cs)
                /\ UNCHANGED <<highest, records>>
Becomes(c, r) == call' = [call EXCEPT ![c] = r]
Goes(c, pc)   == Becomes(c, [call[c] EXCEPT !.pc = pc])

\* The running call is answered, and the executor is free.
Answer(c) == /\ Answered({c}) /\ Settle(c)
             /\ UNCHANGED <<tabVars, latest, ended, sent>>

\* It goes on to its next await.
Proceeds(c) == running = c /\ UNCHANGED <<executorVars, ledgerVars, ended>>

----------------------------------------------------------------------------
\* Calls arrive.

Arrives(c, s, k, v) ==
  /\ call[c].pc = "idle" /\ s \notin ended /\ k \in Kinds
  /\ \/ v = 0 /\ k \in {"view", "flow"}
     \/ v \in 1..latest[s].id /\ k # "view"

Made(s, k, r, v, pc) == [Idle EXCEPT !.pc = pc, !.session = s, !.kind = k,
                                     !.request = r, !.view = v]

\* A tool that changes nothing.
Ask(c, s, k, v) ==
  /\ Arrives(c, s, k, v) /\ k \in {"view", "read"} /\ HasRoom
  /\ k = "view" => latest[s].id < MaxViews
  /\ Becomes(c, Made(s, k, 0, v, "queued")) /\ Enqueue(c)
  /\ UNCHANGED <<ledgerVars, tabVars, latest, ended, sent>>

\* A mutating tool with a new request number: the record is made first.
Request(c, s, k, r, v) ==
  /\ Arrives(c, s, k, v) /\ k \in {"act", "dialog", "flow"} /\ HasRoom
  /\ Install(s, r, [kind |-> k, view |-> v]) /\ UNCHANGED settled
  /\ Becomes(c, Made(s, k, r, v, "queued")) /\ Enqueue(c)
  /\ UNCHANGED <<tabVars, latest, ended, sent>>

\* The queue is full: the error is this request's outcome for good.
Busy(s, k, r, v) ==
  /\ \E c \in Calls : Arrives(c, s, k, v)
  /\ k \in {"act", "dialog", "flow"} /\ ~HasRoom
  /\ Install(s, r, [kind |-> k, view |-> v])
  /\ settled' = settled \cup {<<s, r>>}
  /\ UNCHANGED <<executorVars, tabVars, call, latest, ended, sent>>

\* The same request again, while the first one is still under way.
Repeat(c, s, k, r, v) ==
  /\ Arrives(c, s, k, v) /\ Replays(s, r, [kind |-> k, view |-> v])
  /\ <<s, r>> \notin settled
  /\ Becomes(c, Made(s, k, r, v, "sharing"))
  /\ UNCHANGED <<executorVars, ledgerVars, tabVars, latest, ended, sent>>

Share(c) ==
  /\ call[c].pc = "sharing" /\ Owner(c) \in settled
  /\ Answered({c})
  /\ UNCHANGED <<executorVars, tabVars, latest, ended, sent>>

----------------------------------------------------------------------------
\* Calls are aborted: those in the queue are answered, the one that runs has
\* its signal set.

\* Mutant of Aborts: those in the queue are taken out but not answered.
AbortsQuietly(cs) ==
  /\ call' = [c \in Calls |-> IF c \in cs /\ call[c].pc # "idle"
                              THEN [call[c] EXCEPT !.aborted = TRUE] ELSE call[c]]
  /\ Withdraw({c \in cs : call[c].pc = "queued"})
  /\ UNCHANGED <<settled, highest, records, tabVars, latest, sent>>
Aborts(cs) ==
  LET waiting == {c \in cs : call[c].pc = "queued"} IN
  /\ call' = [c \in Calls |-> IF c \in waiting THEN Idle
                              ELSE IF c \in cs /\ call[c].pc # "idle"
                                   THEN [call[c] EXCEPT !.aborted = TRUE] ELSE call[c]]
  /\ settled' = settled \cup Outcome(waiting)
  /\ Withdraw(waiting)
  /\ UNCHANGED <<highest, records, tabVars, latest, sent>>

\* A client cancels one of its calls.
Cancel(c) == /\ call[c].pc \notin {"idle", "sharing"} /\ ~call[c].aborted
             /\ Aborts({c}) /\ UNCHANGED ended

\* A session is closed: by its client, by an expired request or by idleness.
EndSession(s) == /\ s \notin ended /\ ended' = ended \cup {s}
                 /\ Aborts({c \in Calls : call[c].session = s})

----------------------------------------------------------------------------
\* The executor starts a call.

View(c)   == latest[call[c].session].epoch

\* #view: the call names the session's latest view, and nothing has happened
\* to the tab since.
Usable(c) == /\ call[c].view = latest[call[c].session].id
             /\ Current(View(c))

Begins(c, k) == /\ call[c].kind = k /\ Start(c)
                /\ UNCHANGED <<ledgerVars, latest, ended>>

\* The view is stale, or the tool cannot work under a dialog.
Refuse(c) ==
  /\ Skip(c) /\ call[c].view # 0
  /\ ~Usable(c) \/ (call[c].kind = "read" /\ dialog # 0)
  /\ Answered({c})
  /\ UNCHANGED <<tabVars, latest, ended, sent>>

BeginView(c) == /\ Begins(c, "view")
                /\ Becomes(c, [call[c] EXCEPT !.pc = "snap", !.seen = Now])
                /\ UNCHANGED <<tabVars, sent>>

\* pane_read, and pane_image.
BeginRead(c) == /\ Usable(c) /\ dialog = 0 /\ Begins(c, "read")
                /\ Becomes(c, [call[c] EXCEPT !.pc = "read", !.seen = Now])
                /\ UNCHANGED <<tabVars, sent>>

\* What the call does next rests on the view it named, and on the epoch its
\* own consume opens.
Opened(c, pc) == [call[c] EXCEPT !.pc = pc, !.popups = popups, !.stage = 1, !.step = 1,
                                 !.held = dialog, !.seen = [View(c) EXCEPT !.mutation = @ + 1]]

BeginAct(c) == /\ Usable(c) /\ Begins(c, "act") /\ Consume
               /\ Becomes(c, Opened(c, IF dialog = 0 THEN "guard" ELSE "end"))
               /\ UNCHANGED sent

\* One more input for the request of c.
Input(c) == sent' = [sent EXCEPT ![Owner(c)] = @ + 1]

\* handleDialog asks Chromium to close the dialog.
BeginDialog(c) == /\ Usable(c) /\ Begins(c, "dialog") /\ Consume
                  /\ Becomes(c, Opened(c, IF dialog = 0 THEN "end" ELSE "accept"))
                  /\ IF dialog = 0 THEN UNCHANGED sent ELSE Input(c)

BeginFlow(c) == /\ call[c].view = 0 \/ Usable(c)
                /\ Begins(c, "flow")
                /\ Becomes(c, [Opened(c, "stage") EXCEPT !.seen = NoEpoch, !.held = 0])
                /\ UNCHANGED <<tabVars, sent>>

----------------------------------------------------------------------------
\* Looking.

Remember(c) == LET s == call[c].session IN
  latest' = [latest EXCEPT ![s] = [id |-> @.id + 1, epoch |-> call[c].seen]]

\* The snapshot is taken and the tab is still in the epoch it was begun in.
Snapped(c) == /\ call[c].pc = "snap" /\ Current(call[c].seen)
              /\ Remember(c) /\ Answered({c}) /\ Settle(c)
              /\ UNCHANGED <<tabVars, ended, sent>>

\* It is not, or the snapshot failed; or what was read is returned, if the tab
\* did not change meanwhile.
Looked(c) == call[c].pc \in {"snap", "read"} /\ Answer(c)

\* After an action: the wait for its postcondition, if there is one, is over.
Waited(c) == call[c].pc = "end"
\* A last observation is made unless the call is aborted.
Observe(c) == /\ Waited(c) /\ ~call[c].aborted /\ Proceeds(c)
              /\ Becomes(c, [call[c] EXCEPT !.pc = "snap", !.seen = Now])
              /\ UNCHANGED <<tabVars, latest, sent>>

\* None was asked for, or it makes no sense here.
Finish(c) == Waited(c) /\ Answer(c)

----------------------------------------------------------------------------
\* A flow: before each stage it looks at the whole page again.

Stage(c) ==
  /\ call[c].pc = "stage" /\ Proceeds(c)
  /\ Becomes(c, IF popups = call[c].popups /\ ~call[c].aborted /\ dialog = 0
                THEN [call[c] EXCEPT !.pc = "look", !.seen = Now]
                ELSE [call[c] EXCEPT !.pc = "end"])
  /\ UNCHANGED <<tabVars, latest, sent>>

\* The targets of the stage are found in what was seen: it may act on it.
Found(c) ==
  /\ call[c].pc = "look" /\ Current(call[c].seen) /\ popups = call[c].popups
  /\ Proceeds(c) /\ Remember(c) /\ Consume
  /\ Becomes(c, [call[c] EXCEPT !.pc = "guard", !.step = 1, !.seen.mutation = @ + 1])
  /\ UNCHANGED sent

\* They are not, or another tab has opened.
NotFound(c) ==
  /\ call[c].pc = "look" /\ Current(call[c].seen)
  /\ Proceeds(c) /\ Remember(c) /\ Goes(c, "end")
  /\ UNCHANGED <<tabVars, sent>>

\* The tab changed under the capture.
LookFails(c) ==
  /\ call[c].pc = "look" /\ Proceeds(c) /\ Goes(c, "end")
  /\ UNCHANGED <<tabVars, latest, sent>>

----------------------------------------------------------------------------
\* Acting: the guards of all targets, then the steps one by one.

\* Mutants of Clear: the page is not looked at again; nor is the signal.
ClearOnAnyPage(c) == popups = call[c].popups /\ dialog = 0 /\ ~call[c].aborted
ClearIfAborted(c) == /\ popups = call[c].popups /\ document = call[c].seen.document
                     /\ dialog = 0
\* The checks before a step and, again, after its targets were looked at.
Clear(c) == /\ popups = call[c].popups /\ document = call[c].seen.document
            /\ dialog = 0 /\ ~call[c].aborted

\* The targets are pinned; the first step's checks pass.
Guarded(c) == /\ call[c].pc = "guard" /\ Clear(c) /\ Proceeds(c) /\ Goes(c, "aim")
              /\ UNCHANGED <<tabVars, latest, sent>>

\* A target changed, the tab did, the deadline has passed: no input.
Desists(c) == /\ call[c].pc \in {"guard", "aim"} /\ Proceeds(c) /\ Goes(c, "end")
              /\ UNCHANGED <<tabVars, latest, sent>>

\* The step's first browser operation is issued, if none is suspended.
Issue(c) == /\ call[c].pc = "aim" /\ Clear(c) /\ ~pending /\ Proceeds(c)
            /\ Becomes(c, [call[c] EXCEPT !.pc = "act", !.part = 1, !.seen = Now])
            /\ Input(c)
            /\ UNCHANGED <<tabVars, latest>>

\* It has returned: the step's next one is issued, if nothing has interfered.
Continue(c) ==
  /\ call[c].pc = "act" /\ call[c].part < Parts /\ Proceeds(c)
  /\ ~call[c].aborted /\ Undisturbed(call[c].seen, call[c].popups)
  /\ Becomes(c, [call[c] EXCEPT !.part = @ + 1])
  /\ Input(c)
  /\ UNCHANGED <<tabVars, latest>>

\* The step is complete: the next step's checks pass, ...
NextStep(c) ==
  /\ call[c].step < Steps /\ Clear(c)
  /\ Becomes(c, [call[c] EXCEPT !.pc = "aim", !.step = @ + 1, !.part = 0])
\* ... or those of the stage are all complete, and the next stage's turn has come,
\* or the work is done.
StageDone(c) ==
  /\ call[c].step = Steps
  /\ Becomes(c, IF call[c].kind = "flow" /\ call[c].stage < Stages
                THEN [call[c] EXCEPT !.pc = "stage", !.stage = @ + 1, !.part = 0]
                ELSE [call[c] EXCEPT !.pc = "end", !.part = 0])
Complete(c) ==
  /\ call[c].pc = "act" /\ call[c].part = Parts /\ Proceeds(c)
  /\ NextStep(c) \/ StageDone(c)
  /\ UNCHANGED <<tabVars, latest, sent>>

\* The operation fails, or the rest of the batch is stopped.
Stop(c) == /\ call[c].pc = "act" /\ Proceeds(c)
           /\ Becomes(c, [call[c] EXCEPT !.pc = "end", !.part = 0])
           /\ UNCHANGED <<tabVars, latest, sent>>

----------------------------------------------------------------------------
\* Dialogs.

\* Chromium closes the dialog that handleDialog answered.
Accepted(c) == /\ call[c].pc = "accept" /\ modal = call[c].held /\ CloseDialog
               /\ Proceeds(c) /\ Goes(c, "closing")
               /\ UNCHANGED <<latest, sent>>

\* It is not there any more, or cannot be closed.
NotAccepted(c) == /\ call[c].pc = "accept" /\ Proceeds(c) /\ Goes(c, "end")
                  /\ UNCHANGED <<tabVars, latest, sent>>

\* Mutant of Closed: the suspended action is forgotten instead of awaited.
ClosedForgets(c) ==
  /\ call[c].pc = "closing"
  /\ dialog' = (IF dialog = call[c].held THEN 0 ELSE dialog) /\ pending' = FALSE
  /\ UNCHANGED <<document, mutation, popups, modal, opened, paused, latest, sent>>
  /\ Proceeds(c) /\ Goes(c, "end")
\* handleDialog awakes.  The suspended action's outcome is awaited, unless it
\* has opened another dialog.
Closed(c) == /\ call[c].pc = "closing" /\ Forget(call[c].held) /\ Proceeds(c)
             /\ Goes(c, IF pending THEN "settle" ELSE "end")
             /\ UNCHANGED <<latest, sent>>

Settled(c) == /\ call[c].pc = "settle" /\ paused.over /\ Release
              /\ Proceeds(c) /\ Goes(c, "end")
              /\ UNCHANGED <<latest, sent>>

\* Another dialog wins the race: the action stays suspended.
NextModal(c) == /\ call[c].pc = "settle" /\ dialog # 0
                /\ Proceeds(c) /\ Goes(c, "end")
                /\ UNCHANGED <<tabVars, latest, sent>>

\* The page shows a dialog.  A step in progress is set aside.
Dialog ==
  LET acting == {c \in Calls : call[c].pc = "act"}
      Aside(c) == [owner |-> Owner(c), part |-> call[c].part,
                   since |-> call[c].seen, popups |-> call[c].popups, over |-> FALSE]
  IN /\ IF acting = {} THEN OpenDialog(NoAction) /\ UNCHANGED call
        ELSE \E c \in acting :
               /\ OpenDialog(Aside(c))
               /\ Becomes(c, [call[c] EXCEPT !.pc = "end", !.part = 0])
     /\ UNCHANGED <<executorVars, ledgerVars, latest, ended, sent>>

\* The suspended action's operation returns to its step.
Return ==
  /\ Resume
  /\ sent' = IF GoesOn THEN [sent EXCEPT ![paused.owner] = @ + 1] ELSE sent
  /\ UNCHANGED <<executorVars, ledgerVars, call, latest, ended>>

\* The site, or the person at the browser.
Site == /\ Navigate \/ OpenPopup \/ CloseDialog
        /\ UNCHANGED <<executorVars, ledgerVars, call, latest, ended, sent>>

----------------------------------------------------------------------------
Arrival(c) == \E s \in Sessions, k \in Kinds : \E v \in 0..latest[s].id :
                 \/ Ask(c, s, k, v)
                 \/ \E r \in Requests : Request(c, s, k, r, v) \/ Repeat(c, s, k, r, v)

Run(c) == \/ Refuse(c) \/ BeginView(c) \/ BeginRead(c) \/ BeginAct(c)
          \/ BeginDialog(c) \/ BeginFlow(c)
          \/ Snapped(c) \/ Looked(c) \/ Observe(c) \/ Finish(c)
          \/ Stage(c) \/ Found(c) \/ NotFound(c) \/ LookFails(c)
          \/ Guarded(c) \/ Desists(c) \/ Issue(c) \/ Continue(c) \/ Complete(c) \/ Stop(c)
          \/ Accepted(c) \/ NotAccepted(c) \/ Closed(c) \/ Settled(c) \/ NextModal(c)
          \/ Share(c)

Next == \/ \E c \in Calls : Arrival(c) \/ Cancel(c) \/ Run(c)
        \/ \E s \in Sessions, k \in Kinds, r \in Requests :
              \E v \in 0..latest[s].id : Busy(s, k, r, v)
        \/ \E s \in Sessions : EndSession(s)
        \/ Dialog \/ Return \/ Site

Spec == Init /\ [][Next]_vars

\* The service keeps going: the code between two awaits runs, a browser
\* operation returns or times out, and so does a suspended one when its dialog
\* is gone.  Nothing is owed by clients, the page or the person.
FairSpec == Spec /\ \A c \in Calls : WF_vars(Run(c)) /\ WF_vars(Return)

----------------------------------------------------------------------------
\* Properties.

\* Two inputs are never in the browser at the same time, not even when a
\* dialog has suspended the first and its call has long been answered.
InputsAreApart ==
  Cardinality({c \in Calls : call[c].pc = "act"}) + (IF InProgress THEN 1 ELSE 0) <= 1

\* A dialog on the screen is the one the server holds: closing one dialog
\* never makes it forget the next.
DialogIsKnown == modal # 0 => dialog = modal

\* An input is issued in the very epoch its call observed: since then no other
\* call has acted, no frame has changed, no dialog and no tab has opened.
Fresh(c) ==
  IF running = c
  THEN call[c].seen = Now /\ popups = call[c].popups /\ dialog = 0
  ELSE View(c) = Now
InputsAreFresh ==
  [][\A o \in Owners : sent'[o] # sent[o] =>
        \E c \in Calls : running' = c /\ Owner(c) = o /\ Fresh(c)]_vars

\* A cancelled call, and any call of a closed session, issues no input.
AbortedIsSilent ==
  [][\A o \in Owners : sent'[o] # sent[o] =>
        \E c \in Calls : /\ running' = c /\ Owner(c) = o /\ ~call[c].aborted
                         /\ call[c].session \notin ended]_vars

\* Once a client may have been told the outcome of a request, the request is
\* never worked on again: a repeated or forgotten number replays no input.
OutcomeIsFinal == [][\A o \in settled : sent'[o] = sent[o]]_vars

\* Every call is answered, whatever the page, the person and the clients do.
CallsAreAnswered == \A c \in Calls : call[c].pc # "idle" ~> call[c].pc = "idle"

\* At every moment there is one input at most, and no dialog that is shown is
\* unknown.
DeskIsSound == TypeOK /\ InputsAreApart /\ DialogIsKnown
=============================================================================
