--------------------------- MODULE ViewerSession ---------------------------
(***************************************************************************)
(* The viewer's page (client/app.ts): it attaches to the shared browser,   *)
(* tries again two seconds after an attempt fails or a session ends, and   *)
(* lets a person disconnect and connect.  Attempts await the web server    *)
(* and the SDK, so that several overlap; each has the number of the        *)
(* generation that began it, and so has the session it may open.           *)
(*                                                                         *)
(* A session is live from when the SDK opens it until it is disconnected   *)
(* or drops; the SDK tells the page of a drop, also while connect() is     *)
(* still pending.                                                          *)
(***************************************************************************)
EXTENDS Naturals, FiniteSets

CONSTANTS MaxGenerations   \* bound: how often generation is incremented
ASSUME ViewerAssumption == MaxGenerations \in Nat

VARIABLES client,    \* the module's variables and the buttons
          attempt,   \* attempt[g]: where the attempt of generation g awaits
          link,      \* link[g]: the session that attempt opened
          space,     \* the viewport has drawable space
          person     \* history: what the person at the page did last
viewerVars == <<client, attempt, link, space, person>>

Generations == 1..MaxGenerations
ViewerInit ==
  /\ client = [open |-> TRUE, desired |-> TRUE, generation |-> 0, session |-> 0, retry |-> TRUE,
               shown |-> 0,            \* the session that display and enhancement hold
               destroyed |-> FALSE, connect |-> TRUE, disconnect |-> FALSE]
  /\ attempt = [g \in Generations |-> "none"] /\ link = [g \in Generations |-> "none"]
  /\ space \in BOOLEAN /\ person = "watching"

\* display.attach and enhancement.attach do nothing once they are destroyed.
Held(p, s) == IF p.destroyed THEN p.shown ELSE s
Dropped(s) == [g \in Generations |-> IF g = s /\ link[g] = "live" THEN "over" ELSE link[g]]
\* Mutant of Wanted: a person's wish is not asked for.
WantedAlways(g) == g = client.generation
Wanted(g) == client.desired /\ g = client.generation
\* reconnect(g): the timer is started, or started anew.
Again(p, g) == [p EXCEPT !.retry = Wanted(g) \/ @]
-----------------------------------------------------------------------------
\* attach() up to its first await; p is the page with the caller's changes.
Attach(p) ==
  LET g == p.generation + 1
      fresh == [p EXCEPT !.generation = g, !.retry = FALSE, !.session = 0, !.shown = Held(p, 0),
                         !.connect = FALSE, !.disconnect = TRUE]
  IN /\ g \in Generations /\ link' = Dropped(p.session)
     /\ IF space THEN client' = fresh /\ attempt' = [attempt EXCEPT ![g] = "fetch"]
        ELSE client' = [fresh EXCEPT !.retry = p.desired] /\ UNCHANGED attempt
     /\ UNCHANGED space
\* The script's last line, the first time, and the timer of two seconds.
Retry == client.open /\ client.retry /\ Attach(client) /\ UNCHANGED person
ClickConnect == /\ client.open /\ client.connect /\ client.generation > 0
                /\ Attach([client EXCEPT !.desired = TRUE]) /\ person' = "watching"
ClickDisconnect ==
  /\ client.open /\ client.disconnect /\ client.generation < MaxGenerations /\ person' = "left"
  /\ client' = [client EXCEPT !.desired = FALSE, !.generation = @ + 1, !.retry = FALSE, !.session = 0,
                !.shown = Held(client, 0), !.connect = TRUE, !.disconnect = FALSE]
  /\ link' = Dropped(client.session) /\ UNCHANGED <<attempt, space>>

\* The bootstrap is answered; it fails or is late.
Over(g) == attempt' = [attempt EXCEPT ![g] = "over"]
Failed(g) ==
  client' = IF g # client.generation THEN client ELSE Again([client EXCEPT !.connect = TRUE], g)
Fetched(g) ==
  /\ client.open /\ attempt[g] = "fetch" /\ UNCHANGED <<client, link, space, person>>
  /\ IF Wanted(g) THEN attempt' = [attempt EXCEPT ![g] = "connect"] ELSE Over(g)
FetchFails(g) ==
  /\ client.open /\ attempt[g] = "fetch" /\ Over(g) /\ Failed(g)
  /\ UNCHANGED <<link, space, person>>

\* The SDK opens the session, and connect() returns it or throws.  A session that
\* nobody waits for any more is disconnected.
LinkOpens(g) ==
  /\ client.open /\ attempt[g] = "connect" /\ link[g] = "none"
  /\ link' = [link EXCEPT ![g] = "live"] /\ UNCHANGED <<client, attempt, space, person>>
\* Mutant of Kept: whoever connects is kept.
KeptAny(g) == TRUE
Kept(g) == Wanted(g)
Connected(g) ==
  /\ client.open /\ attempt[g] = "connect" /\ link[g] # "none" /\ Over(g)
  /\ IF Kept(g) THEN client' = [client EXCEPT !.session = g, !.shown = Held(client, g)] /\ UNCHANGED link
     ELSE link' = Dropped(g) /\ UNCHANGED client
  /\ UNCHANGED <<space, person>>
ConnectFails(g) ==
  /\ client.open /\ attempt[g] = "connect" /\ link[g] # "live" /\ Over(g) /\ Failed(g)
  /\ UNCHANGED <<link, space, person>>

\* onDisconnect: only the current session's end is the page's concern.
\* Mutant of Disconnected: an end that comes before connect() returns is not heard.
DisconnectedLater(p, g) ==
  IF g # p.session THEN p ELSE Again([p EXCEPT !.session = 0, !.shown = Held(p, 0)], g)
Disconnected(p, g) ==
  IF g # p.generation THEN p ELSE Again([p EXCEPT !.session = 0, !.shown = Held(p, 0)], g)
LinkDrops(g) ==
  /\ link[g] = "live" /\ link' = [link EXCEPT ![g] = "over"]
  /\ client' = IF client.open THEN Disconnected(client, g) ELSE client
  /\ UNCHANGED <<attempt, space, person>>

\* beforeunload: the page goes away, or stays, since what it went for is a
\* download, as the link to the source is.  Whether the SDK reports the end it was
\* asked for is its own affair.
BeforeUnload(stays) ==
  /\ client.open /\ ~client.destroyed /\ client.generation > 0
  /\ LET p == [client EXCEPT !.desired = FALSE, !.destroyed = TRUE, !.open = stays]
     IN client' \in {p, [p EXCEPT !.session = 0]}
  /\ link' = IF stays THEN Dropped(client.session)
             ELSE [g \in Generations |-> IF link[g] = "live" THEN "over" ELSE link[g]]
  /\ person' = (IF ~stays THEN "gone" ELSE IF person = "left" THEN person ELSE "downloads") /\ UNCHANGED <<attempt, space>>
ResizePage == client.open /\ space' = ~space /\ UNCHANGED <<client, attempt, link, person>>

AttemptStep(g) == Fetched(g) \/ FetchFails(g) \/ Connected(g) \/ ConnectFails(g)
ViewerNext ==
  \/ Retry \/ ClickConnect \/ ClickDisconnect \/ ResizePage
  \/ \E stays \in BOOLEAN : BeforeUnload(stays)
  \/ \E g \in Generations : AttemptStep(g) \/ LinkOpens(g) \/ LinkDrops(g)
ViewerSpec == ViewerInit /\ [][ViewerNext]_viewerVars
-----------------------------------------------------------------------------
\* Nobody who watches is left alone: a session is live, or the attempt of the
\* present generation is under way, or the timer runs, also when the session
\* ends before connect() has returned it.
Attended ==
  \/ client.retry
  \/ client.generation \in Generations
     /\ (link[client.generation] = "live" \/ attempt[client.generation] \in {"fetch", "connect"})
WatchersAreAttended == client.open /\ person = "watching" => Attended

\* And nothing is left running for one who does not: whoever disconnects has no
\* timer, no session is kept for someone who left, and every live session is the
\* page's own or one that an attempt is about to return.
NothingIsLeft ==
  /\ person = "left" => ~client.retry
  /\ person # "watching" => \A g \in Generations : link[g] = "live" => attempt[g] = "connect"
  /\ \A g \in Generations : link[g] = "live" =>
       attempt[g] = "connect" \/ (g = client.session /\ g = client.generation)
  /\ ~client.destroyed => client.shown = client.session
ViewerIsSound == WatchersAreAttended /\ NothingIsLeft

\* The viewer reconnects automatically (docs/GPU_LIVE_TEST.md:56): as long as the
\* page is open and its person has not disconnected.
ViewerReconnects == client.open /\ person # "left" => Attended
=============================================================================
