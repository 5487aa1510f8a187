---------------------------- MODULE BrowserTabs ----------------------------
(***************************************************************************)
(* The tabs of the shared browser (server/compact/browser.mjs): the        *)
(* registry that follows Chromium's events, the default tab, the list that *)
(* awaits every title, new and close, and the shutdown of the process      *)
(* (compact/main.mjs, entry.mjs).                                          *)
(*                                                                         *)
(* A tab is known by its page: tab ids are counted up, and a page is       *)
(* registered once at most.  A page on its way out rejects what is asked   *)
(* of it before its close event tells.  The executor runs one operation at *)
(* a time.                                                                 *)
(***************************************************************************)
EXTENDS Naturals, Sequences, FiniteSets, SequencesExt

CONSTANTS Pages, NoPage,
          WebPages,   \* those that show the web or a new tab
          MaxTabs     \* 64 registered tabs
ASSUME TabsAssumption == /\ NoPage \notin Pages /\ WebPages \subseteq Pages /\ IsFiniteSet(Pages)
                         /\ MaxTabs \in Nat \ {0}

VARIABLES page,      \* page[p]: "unborn", "open", "asked" to close, "closing" or "closed"
          registry,  \* SharedBrowser.#tabs, in the order of registration
          shared,    \* the rest of SharedBrowser and CompactRuntime
          op         \* the operation that the executor runs
tabsVars == <<page, registry, shared, op>>

Idle == [kind |-> "idle", title |-> [p \in Pages |-> "none"], target |-> NoPage,
         answer |-> "none", tabs |-> {}, marked |-> NoPage]

TabsInit ==
  /\ page \in [Pages -> {"unborn", "open"}]
  /\ registry = <<>> /\ op = Idle
  /\ shared = [process |-> "starting",  \* CompactRuntime: "starting", "up", "draining", "down"
               connected |-> TRUE, default |-> NoPage,
               missed |-> {}]           \* history: pages that met a full registry
-----------------------------------------------------------------------------
\* Not isClosed(), and so in context.pages().
OpenPages == {p \in Pages : page[p] \in {"open", "asked", "closing"}}
Tabs == ToSet(registry)

\* Mutant of Room: one more tab.
RoomForOneMore == Len(registry) <= MaxTabs
Room == Len(registry) < MaxTabs
\* #register, for a page that is not yet a tab.
Registered(reg, p) == IF Room THEN Append(reg, p) ELSE reg

\* start(): the handler, and the pages there are.
StartTabs ==
  /\ shared.process = "starting"
  /\ \E order \in SetToSeqs(OpenPages) :
       /\ registry' = SubSeq(order, 1, IF Len(order) < MaxTabs THEN Len(order) ELSE MaxTabs)
       /\ shared' = [shared EXCEPT !.process = "up", !.missed = OpenPages \ ToSet(registry')]
  /\ UNCHANGED <<page, op>>

\* A page opens; until the shutdown the 'page' event registers it.
Opens(p) ==
  /\ page[p] = "unborn" /\ shared.connected
  /\ page' = [page EXCEPT ![p] = "open"]
  /\ IF shared.process \in {"up", "draining"}
     THEN /\ registry' = Registered(registry, p)
          /\ shared' = IF Room THEN shared ELSE [shared EXCEPT !.missed = @ \cup {p}]
     ELSE UNCHANGED <<registry, shared>>

OpenPage(p) == shared.process # "starting" /\ Opens(p) /\ UNCHANGED op
\* A page begins to close: the person closes it, or it was asked to.
Breaks(p) ==
  /\ page[p] \in {"open", "asked"} /\ page' = [page EXCEPT ![p] = "closing"]
  /\ UNCHANGED <<registry, shared, op>>
\* ... or its beforeunload dialog keeps it.
Stays(p) == page[p] = "asked" /\ page' = [page EXCEPT ![p] = "open"] /\ UNCHANGED <<registry, shared, op>>
\* The 'close' event: the tab is detached and forgotten.
ClosePage(p) ==
  /\ page[p] = "closing" /\ page' = [page EXCEPT ![p] = "closed"]
  /\ \/ \E i \in DOMAIN registry : registry[i] = p /\ registry' = RemoveAt(registry, i)
     \/ p \notin Tabs /\ UNCHANGED registry
  /\ UNCHANGED <<shared, op>>
-----------------------------------------------------------------------------
\* Where the registry has pages that show the web.
WebAt == {i \in DOMAIN registry : registry[i] \in WebPages}
\* Mutant of Default: chosen anew each time.
DefaultAnew == IF WebAt # {} THEN registry[Min(WebAt)] ELSE IF registry # <<>> THEN Head(registry) ELSE NoPage
\* #default: the last choice as long as it is open; else the first web page, else
\* the first tab.
Default ==
  IF shared.default \in Tabs THEN shared.default
  ELSE IF WebAt # {} THEN registry[Min(WebAt)] ELSE IF registry # <<>> THEN Head(registry) ELSE NoPage

Runs == shared.process = "up" \/ (shared.process = "draining" /\ op.kind # "idle")
CallEnds(answer) == op' = [Idle EXCEPT !.answer = answer]

\* tab(): the default tab of an operation that names none.
UseDefault ==
  /\ Runs /\ op.kind = "idle" /\ shared.connected
  /\ shared' = [shared EXCEPT !.default = Default]
  /\ UNCHANGED <<page, registry, op>>

\* list(): every title is asked for at once ...
ListTabs ==
  /\ Runs /\ op.kind = "idle" /\ shared.connected
  /\ op' = [Idle EXCEPT !.kind = "list",
              !.title = [p \in Pages |-> IF p \in Tabs THEN "asked" ELSE "none"]]
  /\ UNCHANGED <<page, registry, shared>>
Titled(p, t) == op' = [op EXCEPT !.title[p] = t] /\ UNCHANGED <<page, registry, shared>>
TitleCame(p) == Runs /\ op.title[p] = "asked" /\ p \in OpenPages /\ Titled(p, "got")
\* ... a rejection waits one turn for the close event; without it the list fails.
TitleRejected(p) ==
  /\ Runs /\ op.title[p] = "asked"
  /\ Titled(p, IF p \in OpenPages THEN "turn" ELSE "gone")
TitleTurn(p) ==
  /\ Runs /\ op.title[p] = "turn"
  /\ IF p \in OpenPages THEN CallEnds("failed") /\ UNCHANGED <<page, registry, shared>> ELSE Titled(p, "gone")

\* Mutant of Listed: what closed meanwhile is listed as well.
ListedAll == {p \in Pages : op.title[p] = "got"}
Listed == {p \in Pages : op.title[p] = "got" /\ p \in OpenPages}
\* ... and what closed meanwhile is left out, with the default as it is now.
ListEnds ==
  /\ Runs /\ op.kind = "list" /\ \A p \in Pages : op.title[p] \in {"none", "got", "gone"}
  /\ IF shared.connected
     THEN /\ shared' = [shared EXCEPT !.default = Default]
          /\ op' = [Idle EXCEPT !.answer = "list", !.tabs = Listed, !.marked = Default]
     ELSE CallEnds("failed") /\ UNCHANGED shared
  /\ UNCHANGED <<page, registry>>

\* create(): only without an open page.  The page's own event comes first.
CreateTab ==
  /\ Runs /\ op.kind = "idle" /\ shared.connected
  /\ IF OpenPages # {} THEN CallEnds("refused") ELSE op' = [Idle EXCEPT !.kind = "create"]
  /\ UNCHANGED <<page, registry, shared>>
CreateOpens(p) == /\ Runs /\ op.kind = "create" /\ op.target = NoPage /\ Opens(p)
                  /\ op' = [op EXCEPT !.target = p]
CreateEnds ==
  /\ Runs /\ op.kind = "create" /\ UNCHANGED page
  /\ IF op.target \in Tabs THEN CallEnds("created") /\ UNCHANGED <<registry, shared>>
     ELSE IF op.target \in OpenPages /\ Room
     THEN /\ CallEnds("created") /\ registry' = Append(registry, op.target)
          /\ shared' = [shared EXCEPT !.missed = @ \ {op.target}]
     ELSE CallEnds("failed") /\ UNCHANGED <<registry, shared>>

\* closeTab(): asks, and does not wait for the page to close.
CloseTab(p) ==
  /\ Runs /\ op.kind = "idle" /\ p \in Tabs
  /\ IF Cardinality(OpenPages) <= 1 THEN CallEnds("refused") /\ UNCHANGED page
     ELSE /\ CallEnds("asked")
          /\ page' = IF page[p] = "open" THEN [page EXCEPT ![p] = "asked"] ELSE page
  /\ UNCHANGED <<registry, shared>>
-----------------------------------------------------------------------------
Disconnect == /\ shared.connected /\ shared' = [shared EXCEPT !.connected = FALSE]
              /\ page' = [p \in Pages |-> IF p \in OpenPages THEN "closed" ELSE page[p]]
              /\ registry' = <<>> /\ UNCHANGED op
\* SIGTERM, the first of them, or the HTTP server did not start: it closes and
\* waits for its sessions ...
Stop == /\ shared.process = "up"
        /\ shared' = [shared EXCEPT !.process = "draining"]
        /\ UNCHANGED <<page, registry, op>>
\* ... but no longer than its timeout; then the browser is left, not closed.
\* What is still being done there fails.
Leave == /\ shared.process = "draining"
         /\ shared' = [shared EXCEPT !.process = "down", !.connected = FALSE]
         /\ registry' = <<>> /\ CallEnds(IF op.kind = "idle" THEN op.answer ELSE "failed")
         /\ UNCHANGED page

Operation ==
  \/ ListEnds \/ CreateEnds
  \/ \E p \in Pages : TitleCame(p) \/ TitleRejected(p) \/ TitleTurn(p) \/ CreateOpens(p)
TabsNext ==
  \/ StartTabs \/ UseDefault \/ ListTabs \/ CreateTab \/ Operation \/ Disconnect \/ Stop \/ Leave
  \/ \E p \in Pages : OpenPage(p) \/ Breaks(p) \/ Stays(p) \/ ClosePage(p) \/ CloseTab(p)
TabsSpec == TabsInit /\ [][TabsNext]_tabsVars
-----------------------------------------------------------------------------
\* The registry is the browser: every open page is a tab, once, unless it met a
\* full registry, and a tab is open (browser.mjs:31, :35).
TabsHold ==
  /\ shared.process = "up" => Tabs = OpenPages \ shared.missed
  /\ IsInjective(registry) /\ Tabs \subseteq OpenPages /\ Len(registry) <= MaxTabs
\* A list shows the tabs that are open when it is sent and were when it was asked
\* for, and marks one of the open tabs, whatever closed during the awaits (:66).
Listing ==
  op.kind = "list" /\ op'.answer = "list" =>
    /\ op'.tabs = {p \in OpenPages : op.title[p] # "none"}
    /\ (op'.marked = NoPage) = (registry = <<>>) /\ op'.marked \in OpenPages \cup {NoPage}
    /\ op'.marked = shared'.default
\* The default moves only when it is gone.
DefaultStays == shared.default \in OpenPages => shared'.default = shared.default
\* All together.
TabsAreTrue == []TabsHold /\ [][Listing]_tabsVars /\ [][DefaultStays]_tabsVars
=============================================================================
