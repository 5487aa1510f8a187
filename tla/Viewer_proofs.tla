--------------------------- MODULE Viewer_proofs ---------------------------
(***************************************************************************)
(* What the viewer's parts keep, for every value of their constants: the   *)
(* session (ViewerSession), the display controls (ViewerDisplay), the      *)
(* enhancement (Enhancement) and its overlay of patches (PatchOverlay).    *)
(* Each part has an inductive invariant of its own; the arithmetic of      *)
(* quotients, least and greatest numbers comes first.                      *)
(***************************************************************************)
EXTENDS ViewerSession, ViewerDisplay, Enhancement, PatchOverlay, FiniteSetTheorems, WellFoundedInduction, TLAPS

\* What a quotient is, and what it is against a multiple.
LEMMA Division ==
  ASSUME NEW a \in Int, NEW d \in Nat \ {0}
  PROVE  a \div d \in Int /\ d * (a \div d) <= a /\ a < d * (a \div d) + d
OBVIOUS
LEMMA Remainder ==
  ASSUME NEW a \in Int, NEW d \in Nat \ {0}
  PROVE  a % d \in 0..d-1
OBVIOUS
LEMMA QuotientBelow ==
  ASSUME NEW a \in Int, NEW q \in Int, NEW d \in Nat \ {0}, a < q * d
  PROVE  a \div d < q
<1>. DEFINE n == a \div d
<1>1. n \in Int /\ d * n <= a BY Division
<1>. HIDE DEF n
<1>2. CASE n >= q
  <2>1. n - q \in Nat BY <1>1, <1>2
  <2>2. d * (n - q) \in Nat BY <2>1
  <2>3. d * (n - q) = d * n - q * d BY <1>1
  <2>4. d * n \in Int /\ q * d \in Int BY <1>1
  <2>. QED BY <1>1, <2>2, <2>3, <2>4
<1>3. n < q BY <1>1, <1>2
<1>. QED BY <1>3 DEF n
LEMMA QuotientAbove ==
  ASSUME NEW a \in Int, NEW q \in Int, NEW d \in Nat \ {0}, q * d <= a
  PROVE  q <= a \div d
<1>. DEFINE n == a \div d
<1>1. n \in Int /\ a < d * n + d BY Division
<1>. HIDE DEF n
<1>2. CASE n < q
  <2>1. q - (n + 1) \in Nat BY <1>1, <1>2
  <2>2. d * (q - (n + 1)) \in Nat BY <2>1
  <2>3. d * (q - (n + 1)) = q * d - (d * n + d) BY <1>1
  <2>4. d * n \in Int /\ q * d \in Int BY <1>1
  <2>. QED BY <1>1, <2>2, <2>3, <2>4
<1>3. q <= n BY <1>1, <1>2
<1>. QED BY <1>3 DEF n

LEMMA MaxIs ==
  ASSUME NEW S \in SUBSET Int, NEW m \in S, \A i \in S : i <= m
  PROVE  Max(S) = m
<1>1. \E x \in S : \A y \in S : x >= y
  <2>1. \A y \in S : m >= y OBVIOUS
  <2>. QED BY <2>1
<1>2. Max(S) \in S /\ \A i \in S : Max(S) >= i BY <1>1 DEF Max
<1>3. Max(S) \in Int /\ m \in Int /\ Max(S) >= m /\ Max(S) <= m BY <1>2
<1>. QED BY <1>3
LEMMA TwoNumbers ==
  ASSUME NEW a \in Int, NEW b \in Int
  PROVE  /\ Max({a, b}) \in Int /\ Max({a, b}) >= a /\ Max({a, b}) >= b /\ Max({a, b}) \in {a, b}
         /\ Min({a, b}) \in Int /\ Min({a, b}) <= a /\ Min({a, b}) <= b /\ Min({a, b}) \in {a, b}
<1>1. Max({a, b}) \in {a, b} /\ \A i \in {a, b} : Max({a, b}) >= i
  <2>1. \E x \in {a, b} : \A y \in {a, b} : x >= y OBVIOUS
  <2>. QED BY <2>1 DEF Max
<1>2. Min({a, b}) \in {a, b} /\ \A i \in {a, b} : Min({a, b}) <= i
  <2>1. \E x \in {a, b} : \A y \in {a, b} : x <= y OBVIOUS
  <2>. QED BY <2>1 DEF Min
<1>. QED BY <1>1, <1>2
LEMMA Smallest ==
  ASSUME NEW S \in SUBSET Nat, S # {}
  PROVE  Min(S) \in S /\ \A i \in S : Min(S) <= i
<1>. DEFINE Below(i) == {j \in S : j < i}
            T == {Below(i) : i \in S}
<1>1. T \subseteq FiniteSubsetsOf(Nat) /\ T # {}
  <2>1. ASSUME NEW i \in S PROVE Below(i) \in SUBSET Nat /\ IsFiniteSet(Below(i))
    <3>1. i \in Nat /\ 0 \in Int /\ i - 1 \in Int OBVIOUS
    <3>2. ASSUME NEW j \in Below(i) PROVE j \in 0..i-1
      <4>1. j \in S /\ j < i OBVIOUS
      <4>2. j \in Nat BY <4>1
      <4>. QED BY <3>1, <4>1, <4>2
    <3>3. Below(i) \subseteq S OBVIOUS
    <3>. HIDE DEF Below
    <3>4. IsFiniteSet(0..i-1) BY <3>1, FS_Interval
    <3>5. Below(i) \subseteq 0..i-1 BY <3>2
    <3>. QED BY <3>3, <3>4, <3>5, FS_Subset
  <2>. HIDE DEF Below
  <2>. QED BY <2>1 DEF FiniteSubsetsOf
<1>2. PICK t \in T : \A u \in T : ~(<<u, t>> \in StrictSubsetOrdering(Nat))
  <2>. HIDE DEF T
  <2>. QED BY <1>1, FS_StrictSubsetOrderingWellFounded, WFMin
<1>3. PICK i \in S : t = Below(i) BY <1>2
<1>4. ASSUME NEW j \in S PROVE i <= j
  <2> SUFFICES ASSUME j < i PROVE FALSE OBVIOUS
  <2>0. i \in Nat /\ j \in Nat OBVIOUS
  <2>1. Below(j) \subseteq Below(i) /\ j \in Below(i) /\ j \notin Below(j)
    <3>1. ASSUME NEW k \in Below(j) PROVE k \in Below(i)
      <4>1. k \in S /\ k < j OBVIOUS
      <4>2. k \in Nat BY <4>1
      <4>. QED BY <2>0, <4>1, <4>2
    <3>2. j \in Below(i) BY <2>0
    <3>3. j \notin Below(j) BY <2>0
    <3>. QED BY <3>1, <3>2, <3>3
  <2>2. <<Below(j), t>> \in StrictSubsetOrdering(Nat)
    BY <1>3, <2>1 DEF StrictSubsetOrdering
  <2>. QED BY <1>2, <2>2
<1>5. \E x \in S : \A y \in S : x <= y BY <1>4
<1>. QED BY <1>5 DEF Min
LEMMA Largest ==
  ASSUME NEW n \in Nat, NEW S \in SUBSET (0..n), S # {}
  PROVE  Max(S) \in S /\ \A i \in S : i <= Max(S)
<1>. DEFINE T == {n - i : i \in S}
<1>1. \A i \in S : i \in Nat /\ n - i \in Nat OBVIOUS
<1>2. T \subseteq Nat /\ T # {} BY <1>1
<1>3. Min(T) \in T /\ \A t \in T : Min(T) <= t
  <2>. HIDE DEF T
  <2>. QED BY <1>2, Smallest
<1>4. PICK m \in S : Min(T) = n - m BY <1>3
<1>5. ASSUME NEW i \in S PROVE i <= m
  <2>1. n - i \in T OBVIOUS
  <2>2. n - m <= n - i BY <1>3, <1>4, <2>1
  <2>. QED BY <1>1, <2>2
<1>6. S \in SUBSET Int OBVIOUS
<1>7. Max(S) = m BY <1>5, <1>6, MaxIs
<1>. QED BY <1>5, <1>7
-----------------------------------------------------------------------------
GenerationNumbers == 0..MaxGenerations
PageStates == [open : BOOLEAN, desired : BOOLEAN, generation : GenerationNumbers, session : GenerationNumbers,
         retry : BOOLEAN, shown : GenerationNumbers, destroyed : BOOLEAN, connect : BOOLEAN, disconnect : BOOLEAN]
SessionTyped ==
  /\ client \in PageStates /\ space \in BOOLEAN
  /\ attempt \in [Generations -> {"none", "fetch", "connect", "over"}]
  /\ link \in [Generations -> {"none", "live", "over"}]
  /\ person \in {"watching", "left", "downloads", "gone"}

\* Attempts that were not made have nothing, and the session that the page holds
\* is the one that its present attempt returned.
HeldIsPresent ==
  /\ \A g \in Generations : g > client.generation => attempt[g] = "none" /\ link[g] = "none"
  /\ client.session # 0 => client.session = client.generation /\ attempt[client.session] = "over"
\* A person who watches is a page that wants a session, and a session of its
\* present attempt that ended started the timer.
WishKept ==
  /\ client.desired <=> person = "watching"
  /\ client.open /\ client.desired /\ client.generation >= 1 /\ link[client.generation] = "over" => client.retry
SessionInv == SessionTyped /\ HeldIsPresent /\ WishKept /\ ViewerIsSound

LEMMA SessionStarts == ViewerInit => SessionInv
BY ViewerAssumption DEF ViewerInit, SessionInv, SessionTyped, PageStates, GenerationNumbers, HeldIsPresent, WishKept, ViewerIsSound, WatchersAreAttended, Attended, NothingIsLeft, Generations

\* What the page makes of an end, and of a wish for a session.
LEMMA AttachKeeps ==
  ASSUME SessionInv, NEW p \in {client, [client EXCEPT !.desired = TRUE]}, Attach(p),
         p.desired <=> person' = "watching", person' # "left",
         person' \in {"watching", "left", "downloads", "gone"}
  PROVE SessionInv'
<1>. DEFINE g == client.generation + 1
<1>0. client \in PageStates /\ g \in Generations /\ client.generation \in 0..MaxGenerations /\ 0 \in GenerationNumbers
  BY ViewerAssumption DEF Attach, SessionInv, SessionTyped, PageStates, GenerationNumbers
<1>1. /\ p \in PageStates /\ p.generation = client.generation /\ p.session = client.session
      /\ p.open = client.open /\ p.destroyed = client.destroyed /\ p.shown = client.shown
  BY <1>0 DEF PageStates
<1>2. /\ client'.generation = g /\ client'.session = 0 /\ client'.shown = Held(p, 0)
      /\ client'.open = client.open /\ client'.desired = p.desired /\ client'.destroyed = client.destroyed
      /\ client'.retry = (~space /\ p.desired)
  <2>1. CASE space
    <3>1. client' = [p EXCEPT !.generation = p.generation + 1, !.retry = FALSE, !.session = 0,
                              !.shown = Held(p, 0), !.connect = FALSE, !.disconnect = TRUE]
      BY <2>1 DEF Attach
    <3>. QED BY <1>0, <1>1, <2>1, <3>1 DEF PageStates
  <2>2. CASE ~space
    <3>1. client' = [[p EXCEPT !.generation = p.generation + 1, !.retry = FALSE, !.session = 0,
                               !.shown = Held(p, 0), !.connect = FALSE, !.disconnect = TRUE]
                     EXCEPT !.retry = p.desired]
      BY <2>2 DEF Attach
    <3>. QED BY <1>1, <2>2, <3>1 DEF PageStates
  <2>. QED BY <2>1, <2>2
<1>3. client' \in PageStates
  <2>1. p.desired \in BOOLEAN /\ Held(p, 0) \in GenerationNumbers /\ p.generation + 1 \in GenerationNumbers
    BY <1>0, <1>1, ViewerAssumption DEF PageStates, Held, Generations, GenerationNumbers
  <2>2. CASE space
    <3>1. client' = [p EXCEPT !.generation = p.generation + 1, !.retry = FALSE, !.session = 0,
                              !.shown = Held(p, 0), !.connect = FALSE, !.disconnect = TRUE]
      BY <2>2 DEF Attach
    <3>. QED BY <1>0, <1>1, <2>1, <3>1 DEF PageStates
  <2>3. CASE ~space
    <3>1. client' = [[p EXCEPT !.generation = p.generation + 1, !.retry = FALSE, !.session = 0,
                               !.shown = Held(p, 0), !.connect = FALSE, !.disconnect = TRUE]
                     EXCEPT !.retry = p.desired]
      BY <2>3 DEF Attach
    <3>. QED BY <1>0, <1>1, <2>1, <3>1 DEF PageStates
  <2>. QED BY <2>2, <2>3
<1>4. link' = Dropped(client.session) /\ space' = space
  BY <1>1 DEF Attach
<1>5. \A h \in Generations : link'[h] = IF h = client.session /\ link[h] = "live" THEN "over" ELSE link[h]
  BY <1>4 DEF Dropped
<1>6. \A h \in Generations : attempt'[h] = IF h = g /\ space THEN "fetch" ELSE attempt[h]
  BY <1>0, <1>1 DEF Attach, SessionInv, SessionTyped
<1>7. SessionTyped'
  <2>1. link' \in [Generations -> {"none", "live", "over"}]
    BY <1>4 DEF Dropped, SessionInv, SessionTyped
  <2>2. attempt' \in [Generations -> {"none", "fetch", "connect", "over"}]
    BY <1>0, <1>1 DEF Attach, SessionInv, SessionTyped
  <2>. QED BY <1>3, <1>4, <2>1, <2>2 DEF SessionTyped, SessionInv
<1>8. HeldIsPresent'
  BY <1>0, <1>2, <1>5, <1>6 DEF HeldIsPresent, SessionInv, Generations
<1>9. WishKept'
  BY <1>0, <1>2, <1>5 DEF WishKept, HeldIsPresent, SessionInv, Generations
<1>10. WatchersAreAttended'
  BY <1>0, <1>2, <1>6 DEF WatchersAreAttended, Attended, PageStates, SessionInv, SessionTyped
<1>11. NothingIsLeft'
  BY <1>0, <1>1, <1>2, <1>5, <1>6 DEF NothingIsLeft, ViewerIsSound, Held, HeldIsPresent, SessionInv, Generations
<1>. QED BY <1>7, <1>8, <1>9, <1>10, <1>11 DEF SessionInv, ViewerIsSound

LEMMA AwaitKeeps ==
  ASSUME SessionInv, NEW g \in Generations, AttemptStep(g) \/ LinkOpens(g) \/ LinkDrops(g)
  PROVE SessionInv'
<1>. USE DEF SessionInv, SessionTyped, Generations
<1>0. client \in PageStates /\ client.generation \in 0..MaxGenerations /\ 0 \in GenerationNumbers /\ g \in 1..MaxGenerations
  BY ViewerAssumption DEF PageStates, GenerationNumbers
<1>1. CASE Fetched(g)
  <2>1. SessionTyped' BY <1>0, <1>1 DEF Fetched, Over
  <2>2. HeldIsPresent'
    <3>1. client' = client /\ link' = link /\ \A h \in Generations : h # g => attempt'[h] = attempt[h]
      BY <1>1 DEF Fetched, Over
    <3>2. g <= client.generation /\ client.session # g
      BY <1>0, <1>1 DEF Fetched, HeldIsPresent
    <3>. QED BY <1>0, <3>1, <3>2 DEF HeldIsPresent
  <2>3. WishKept' BY <1>0, <1>1 DEF Fetched, WishKept
  <2>4. ViewerIsSound'
    BY <1>0, <1>1 DEF Fetched, Over, Wanted, WishKept, ViewerIsSound, NothingIsLeft, WatchersAreAttended, Attended, HeldIsPresent
  <2>. QED BY <2>1, <2>2, <2>3, <2>4
<1>2. CASE FetchFails(g) \/ ConnectFails(g)
  <2>1. /\ attempt' = [attempt EXCEPT ![g] = "over"] /\ link' = link /\ space' = space /\ person' = person
        /\ attempt[g] \in {"fetch", "connect"} /\ link[g] # "live" /\ g <= client.generation
    BY <1>0, <1>2 DEF FetchFails, ConnectFails, Over, HeldIsPresent, ViewerIsSound, NothingIsLeft
  <2>2. /\ client' \in PageStates
        /\ client'.generation = client.generation /\ client'.session = client.session
        /\ client'.open = client.open /\ client'.desired = client.desired
        /\ client'.destroyed = client.destroyed /\ client'.shown = client.shown
        /\ client'.retry = ((g = client.generation /\ client.desired) \/ client.retry)
    BY <1>0, <1>2 DEF FetchFails, ConnectFails, Failed, Again, Wanted, PageStates
  <2>3. SessionTyped' BY <2>1, <2>2
  <2>4. HeldIsPresent' BY <1>0, <2>1, <2>2 DEF HeldIsPresent
  <2>5. WishKept' BY <2>1, <2>2 DEF WishKept
  <2>6. ViewerIsSound'
    BY <1>0, <2>1, <2>2 DEF WishKept, ViewerIsSound, NothingIsLeft, WatchersAreAttended, Attended, HeldIsPresent
  <2>. QED BY <2>3, <2>4, <2>5, <2>6
<1>3. CASE Connected(g)
  <2>1. /\ attempt' = [attempt EXCEPT ![g] = "over"] /\ space' = space /\ person' = person
        /\ attempt[g] = "connect" /\ g <= client.generation /\ link[g] # "none" /\ client.session # g
    BY <1>0, <1>3 DEF Connected, Over, HeldIsPresent
  <2>2. CASE Kept(g)
    <3>1. /\ client' \in PageStates /\ link' = link
          /\ client'.generation = client.generation /\ client'.session = g
          /\ client'.open = client.open /\ client'.desired = client.desired
          /\ client'.destroyed = client.destroyed /\ client'.retry = client.retry
          /\ client'.shown = Held(client, g)
      <4>1. client' = [client EXCEPT !.session = g, !.shown = Held(client, g)] /\ link' = link
        BY <1>3, <2>2 DEF Connected
      <4>2. Held(client, g) \in GenerationNumbers /\ g \in GenerationNumbers
        BY <1>0, ViewerAssumption DEF Held, PageStates, GenerationNumbers
      <4>. QED BY <1>0, <4>1, <4>2 DEF PageStates
    <3>2. g = client.generation /\ person = "watching" /\ client.session = 0
      BY <2>1, <2>2 DEF Kept, Wanted, WishKept, HeldIsPresent
    <3>3. SessionTyped' BY <2>1, <3>1
    <3>4. HeldIsPresent' BY <2>1, <3>1, <3>2 DEF HeldIsPresent
    <3>5. WishKept' BY <2>1, <3>1 DEF WishKept
    <3>6. ViewerIsSound'
      BY <1>0, <2>1, <3>1, <3>2 DEF WishKept, Held, ViewerIsSound, NothingIsLeft, WatchersAreAttended, Attended, HeldIsPresent
    <3>. QED BY <3>3, <3>4, <3>5, <3>6
  <2>3. CASE ~Kept(g)
    <3>1. client' = client /\ link' = Dropped(g)
      BY <1>3, <2>3 DEF Connected
    <3>2. person = "watching" => g # client.generation
      BY <2>3 DEF Kept, Wanted, WishKept
    <3>3. \A h \in Generations : link'[h] = IF h = g /\ link[h] = "live" THEN "over" ELSE link[h]
      BY <3>1 DEF Dropped
    <3>4. SessionTyped' BY <2>1, <3>1 DEF Dropped
    <3>5. HeldIsPresent' BY <1>0, <2>1, <3>1, <3>3 DEF HeldIsPresent
    <3>6. WishKept' BY <1>0, <2>1, <3>1, <3>2, <3>3 DEF WishKept
    <3>7. ViewerIsSound'
      BY <1>0, <2>1, <3>1, <3>2, <3>3 DEF WishKept, ViewerIsSound, NothingIsLeft, WatchersAreAttended, Attended, HeldIsPresent
    <3>. QED BY <3>4, <3>5, <3>6, <3>7
  <2>. QED BY <2>2, <2>3
<1>4. CASE LinkOpens(g)
  <2>1. SessionTyped' BY <1>4 DEF LinkOpens
  <2>2. HeldIsPresent' BY <1>0, <1>4 DEF LinkOpens, HeldIsPresent
  <2>3. WishKept' BY <1>0, <1>4 DEF LinkOpens, WishKept
  <2>4. ViewerIsSound'
    BY <1>0, <1>4 DEF LinkOpens, ViewerIsSound, NothingIsLeft, WatchersAreAttended, Attended
  <2>. QED BY <2>1, <2>2, <2>3, <2>4
<1>5. CASE LinkDrops(g)
  <2>1. /\ link' = [link EXCEPT ![g] = "over"] /\ attempt' = attempt /\ space' = space /\ person' = person
        /\ link[g] = "live" /\ g <= client.generation
    BY <1>0, <1>5 DEF LinkDrops, HeldIsPresent
  <2>2. /\ client' \in PageStates
        /\ client'.generation = client.generation
        /\ client'.open = client.open /\ client'.desired = client.desired
        /\ client'.destroyed = client.destroyed
    <3>1. CASE client.open /\ g = client.generation
      <4>1. client' = [[client EXCEPT !.session = 0, !.shown = Held(client, 0)]
                       EXCEPT !.retry = Wanted(g) \/ @]
        BY <1>5, <3>1 DEF LinkDrops, Disconnected, Again
      <4>2. Held(client, 0) \in GenerationNumbers /\ Wanted(g) \in BOOLEAN
        BY <1>0 DEF Held, Wanted, PageStates
      <4>. QED BY <1>0, <4>1, <4>2 DEF PageStates
    <3>. QED BY <1>0, <1>5, <3>1 DEF LinkDrops, Disconnected
  <2>3. IF client.open /\ g = client.generation
        THEN /\ client'.session = 0 /\ client'.shown = Held(client, 0)
             /\ client'.retry = (client.desired \/ client.retry)
        ELSE client' = client
    <3>1. CASE client.open /\ g = client.generation
      <4>1. client' = [[client EXCEPT !.session = 0, !.shown = Held(client, 0)]
                       EXCEPT !.retry = Wanted(g) \/ @]
        BY <1>5, <3>1 DEF LinkDrops, Disconnected, Again
      <4>2. Wanted(g) = client.desired
        BY <1>0, <3>1 DEF Wanted, PageStates
      <4>. QED BY <1>0, <3>1, <4>1, <4>2 DEF PageStates
    <3>. QED BY <1>0, <1>5, <3>1 DEF LinkDrops, Disconnected
  <2>4. SessionTyped' BY <2>1, <2>2
  <2>5. HeldIsPresent' BY <1>0, <2>1, <2>2, <2>3 DEF HeldIsPresent
  <2>6. WishKept'
    <3>1. client'.desired <=> person' = "watching"
      BY <2>1, <2>2 DEF WishKept
    <3>2. ASSUME client'.open, client'.desired, client'.generation >= 1, link'[client'.generation] = "over"
          PROVE  client'.retry
      <4>1. CASE g = client.generation BY <2>2, <2>3, <3>2, <4>1
      <4>2. CASE g # client.generation BY <1>0, <2>1, <2>2, <2>3, <3>2, <4>2 DEF WishKept
      <4>. QED BY <4>1, <4>2
    <3>. QED BY <3>1, <3>2 DEF WishKept
  <2>7. ViewerIsSound'
    BY <1>0, <2>1, <2>2, <2>3 DEF WishKept, Held, ViewerIsSound, NothingIsLeft, WatchersAreAttended, Attended, HeldIsPresent
  <2>. QED BY <2>4, <2>5, <2>6, <2>7
<1>. QED BY <1>1, <1>2, <1>3, <1>4, <1>5 DEF AttemptStep

LEMMA LeaveKeeps ==
  ASSUME SessionInv, ClickDisconnect \/ (\E stays \in BOOLEAN : BeforeUnload(stays))
  PROVE SessionInv'
<1>. USE DEF SessionInv, SessionTyped, Generations
<1>0. client \in PageStates /\ client.generation \in 0..MaxGenerations /\ 0 \in GenerationNumbers BY ViewerAssumption DEF PageStates, GenerationNumbers
<1>1. CASE ClickDisconnect
  <2>1. /\ client' \in PageStates /\ client'.generation = client.generation + 1 /\ client'.session = 0
        /\ client'.retry = FALSE /\ client'.desired = FALSE /\ client'.shown = Held(client, 0)
        /\ client'.destroyed = client.destroyed
    <3>1. /\ client' = [client EXCEPT !.desired = FALSE, !.generation = @ + 1, !.retry = FALSE, !.session = 0,
                             !.shown = Held(client, 0), !.connect = TRUE, !.disconnect = FALSE]
          /\ client.generation < MaxGenerations
      BY <1>1 DEF ClickDisconnect
    <3>2. Held(client, 0) \in GenerationNumbers /\ client.generation + 1 \in GenerationNumbers
      BY <1>0, <3>1, ViewerAssumption DEF Held, PageStates, GenerationNumbers
    <3>. QED BY <1>0, <3>1, <3>2 DEF PageStates
  <2>2. /\ link' = Dropped(client.session) /\ attempt' = attempt /\ space' = space /\ person' = "left"
    BY <1>1 DEF ClickDisconnect
  <2>3. \A h \in Generations : link'[h] = IF h = client.session /\ link[h] = "live" THEN "over" ELSE link[h]
    BY <2>2 DEF Dropped
  <2>4. SessionTyped' BY <2>1, <2>2 DEF Dropped
  <2>5. HeldIsPresent' BY <1>0, <2>1, <2>2, <2>3 DEF HeldIsPresent
  <2>6. WishKept' BY <2>1, <2>2 DEF WishKept
  <2>7. ViewerIsSound'
    BY <1>0, <2>1, <2>2, <2>3 DEF Held, ViewerIsSound, NothingIsLeft, WatchersAreAttended, HeldIsPresent
  <2>. QED BY <2>4, <2>5, <2>6, <2>7
<1>2. ASSUME NEW stays \in BOOLEAN, BeforeUnload(stays) PROVE SessionInv'
  <2>1. /\ client' \in PageStates /\ client'.generation = client.generation
        /\ client'.session = client.session \/ client'.session = 0
        /\ client'.retry = client.retry /\ client'.desired = FALSE /\ client'.destroyed = TRUE
    <3>1. PICK p \in {[client EXCEPT !.desired = FALSE, !.destroyed = TRUE, !.open = stays]} : client' \in {p, [p EXCEPT !.session = 0]}
      BY <1>2 DEF BeforeUnload
    <3>2. /\ p \in PageStates /\ p.generation = client.generation /\ p.session = client.session
          /\ p.retry = client.retry /\ p.desired = FALSE /\ p.destroyed = TRUE
      BY <1>0, <3>1 DEF PageStates
    <3>. QED BY <1>0, <3>1, <3>2 DEF PageStates
  <2>2. /\ link' \in [Generations -> {"none", "live", "over"}] /\ attempt' = attempt /\ space' = space
        /\ person' # "watching" /\ (person' = "left" => person = "left")
        /\ person' \in {"watching", "left", "downloads", "gone"}
    BY <1>2 DEF BeforeUnload, Dropped
  <2>3. \A h \in Generations : \/ link'[h] = link[h] /\ h # client.session
                               \/ link'[h] \in {link[h], "over"} /\ link'[h] # "live" /\ link[h] # "none"
                               \/ link'[h] = "none" /\ link[h] = "none"
    BY <1>0, <1>2 DEF BeforeUnload, Dropped
  <2>4. SessionTyped' BY <2>1, <2>2
  <2>5. HeldIsPresent' BY <1>0, <2>1, <2>2, <2>3 DEF HeldIsPresent
  <2>6. WishKept' BY <2>1, <2>2 DEF WishKept
  <2>7. ViewerIsSound'
    BY <1>0, <2>1, <2>2, <2>3 DEF ViewerIsSound, NothingIsLeft, WatchersAreAttended, HeldIsPresent
  <2>. QED BY <2>4, <2>5, <2>6, <2>7
<1>. QED BY <1>1, <1>2

LEMMA SessionSteps == SessionInv /\ [ViewerNext]_viewerVars => SessionInv'
<1> SUFFICES ASSUME SessionInv, [ViewerNext]_viewerVars PROVE SessionInv' OBVIOUS
<1>1. CASE Retry
  <2>1. person' = person /\ client.retry BY <1>1 DEF Retry
  <2>2. /\ client.desired <=> person' = "watching"
        /\ person' # "left" /\ person' \in {"watching", "left", "downloads", "gone"}
    BY <2>1 DEF SessionInv, WishKept, SessionTyped, ViewerIsSound, NothingIsLeft
  <2>3. Attach(client) BY <1>1 DEF Retry
  <2>. QED BY <2>2, <2>3, AttachKeeps
<1>2. CASE ClickConnect
  <2>1. [client EXCEPT !.desired = TRUE].desired = TRUE BY DEF SessionInv, SessionTyped, PageStates
  <2>. QED BY <1>2, <2>1, AttachKeeps DEF ClickConnect
<1>3. CASE ClickDisconnect \/ \E stays \in BOOLEAN : BeforeUnload(stays)
  BY <1>3, LeaveKeeps
<1>4. CASE ResizePage
  BY <1>4 DEF ResizePage, SessionInv, SessionTyped, HeldIsPresent, WishKept, ViewerIsSound, WatchersAreAttended, Attended, NothingIsLeft
<1>5. ASSUME NEW g \in Generations, AttemptStep(g) \/ LinkOpens(g) \/ LinkDrops(g) PROVE SessionInv'
  BY <1>5, AwaitKeeps
<1>6. CASE UNCHANGED viewerVars
  BY <1>6 DEF viewerVars, SessionInv, SessionTyped, HeldIsPresent, WishKept, ViewerIsSound, WatchersAreAttended, Attended, NothingIsLeft
<1>. QED BY <1>1, <1>2, <1>3, <1>4, <1>5, <1>6 DEF ViewerNext

\* The session that the page shows is the one it holds, an attempt that was
\* overtaken leaves no session behind, and whoever wants to watch is connected,
\* is being connected or waits for the timer, for every number of attempts
\* (client/main.ts:112-226); a page that
\* was left has no timer and no session.
THEOREM SoundViewer == ViewerSpec => []ViewerIsSound
<1>1. SessionInv => ViewerIsSound BY DEF SessionInv
<1>. QED BY SessionStarts, SessionSteps, <1>1, PTL DEF ViewerSpec
-----------------------------------------------------------------------------
AnyCanvas == Canvases \cup {NoCanvas}
AnySize == CanvasSizes \cup {0}
LoadPlaces == {"free", "adapter", "device", "building", "built", "running"}
UpscaleStates == [choice : UpscaleChoices, source : AnyCanvas, size : AnySize, hidden : BOOLEAN, fits : BOOLEAN,
         failure : BOOLEAN, frame : BOOLEAN, destroyed : BOOLEAN]
LoadStates == [at : LoadPlaces, current : BOOLEAN, gpu : BOOLEAN, source : AnyCanvas, size : AnySize, mode : UpscaleChoices]
LoadsTyped == upscale \in UpscaleStates /\ load \in [Loads -> LoadStates]
\* What one load has at the place it has reached.
LoadFits(l) ==
  /\ load[l].gpu => load[l].current \/ load[l].at = "built"
  /\ load[l].gpu => load[l].at # "free"
  /\ load[l].current => load[l].at # "free"
  /\ load[l].at = "running" => load[l].current
Owns(l) == load[l].mode = upscale.choice /\ upscale.choice # "original" /\ load[l].source = upscale.source
           /\ ~upscale.failure /\ ~upscale.hidden /\ ~upscale.destroyed
OneCurrent == \A l, m \in Loads : load[l].current /\ load[m].current => l = m
LoadInv == /\ LoadsTyped /\ \A l \in Loads : LoadFits(l)
           /\ OneCurrent /\ \A l \in Loads : load[l].current => Owns(l)
           /\ upscale.destroyed => ~upscale.frame
           /\ NobodyWaits

LEMMA UnloadedIs == Unloaded \in LoadStates /\ Unloaded.at = "free" /\ ~Unloaded.current /\ ~Unloaded.gpu
BY DEF Unloaded, LoadStates, LoadPlaces, AnyCanvas, AnySize, UpscaleChoices

\* After a stop no load is current, and only one whose device has been made holds it.
LEMMA StoppedIs ==
  ASSUME LoadInv
  PROVE  /\ Stopped \in [Loads -> LoadStates]
         /\ \A l \in Loads : /\ ~Stopped[l].current /\ Stopped[l].at # "running"
                             /\ Stopped[l].gpu => Stopped[l].at = "built"
<1>1. ASSUME NEW l \in Loads
      PROVE  /\ Stopped[l] \in LoadStates /\ ~Stopped[l].current /\ Stopped[l].at # "running"
             /\ Stopped[l].gpu => Stopped[l].at = "built"
  <2>0. load[l] \in LoadStates
    BY DEF LoadInv, LoadsTyped
  <2>1. CASE load[l].at = "running"
    BY <2>1, UnloadedIs DEF Stopped
  <2>2. CASE load[l].at # "running"
    <3>1. Stopped[l] = [Unloaded EXCEPT !.at = load[l].at, !.gpu = load[l].gpu /\ load[l].at = "built"]
      BY <2>2 DEF Stopped
    <3>2. load[l].at \in LoadPlaces /\ load[l].gpu \in BOOLEAN
      BY <2>0 DEF LoadStates
    <3>. QED BY <2>2, <3>1, <3>2, UnloadedIs DEF LoadStates
  <2>. QED BY <2>1, <2>2
<1>. QED BY <1>1 DEF Stopped

\* So whoever stops leaves a state in which nothing is owned by the past.
LEMMA StopInv ==
  ASSUME LoadInv, load' = Stopped, upscale' \in UpscaleStates, upscale'.destroyed => ~upscale'.frame,
         upscale'.frame \/ upscale'.failure \/ upscale'.destroyed \/ ~Eligible'
  PROVE  LoadInv'
<1>1. LoadsTyped' BY StoppedIs DEF LoadsTyped
<1>2. \A l \in Loads : LoadFits(l)' BY StoppedIs DEF LoadFits
<1>3. OneCurrent' /\ \A l \in Loads : load'[l].current => Owns(l)' BY StoppedIs DEF OneCurrent
<1>4. NobodyWaits' BY DEF NobodyWaits, Eligible
<1>. QED BY <1>1, <1>2, <1>3, <1>4 DEF LoadInv

LEMMA FailInv ==
  ASSUME LoadInv, NEW l \in Loads, Fail(l)
  PROVE  LoadInv'
<1>. USE DEF LoadInv, LoadsTyped
<1>1. CASE load[l].current
  <2>1. /\ upscale' = [upscale EXCEPT !.failure = TRUE] /\ load' = [Stopped EXCEPT ![l] = Unloaded]
    BY <1>1 DEF Fail
  <2>2. upscale' \in UpscaleStates /\ upscale'.failure /\ upscale'.frame = upscale.frame /\ upscale'.destroyed = upscale.destroyed
    BY <2>1 DEF UpscaleStates
  <2>3. load' \in [Loads -> LoadStates] /\ \A m \in Loads : load'[m] = IF m = l THEN Unloaded ELSE Stopped[m]
    BY <2>1, StoppedIs, UnloadedIs
  <2>4. \A m \in Loads : LoadFits(m)' BY <2>3, StoppedIs, UnloadedIs DEF LoadFits
  <2>5. OneCurrent' /\ \A m \in Loads : load'[m].current => Owns(m)'
    BY <2>3, StoppedIs, UnloadedIs DEF OneCurrent
  <2>6. NobodyWaits' BY <2>2 DEF NobodyWaits, Eligible
  <2>. QED BY <2>2, <2>3, <2>4, <2>5, <2>6
<1>2. CASE ~load[l].current
  <2>1. upscale' = upscale /\ load' = [load EXCEPT ![l] = Unloaded]
    BY <1>2 DEF Fail
  <2>2. load' \in [Loads -> LoadStates] /\ \A m \in Loads : load'[m] = IF m = l THEN Unloaded ELSE load[m]
    BY <2>1, UnloadedIs
  <2>3. \A m \in Loads : LoadFits(m)' BY <2>2, UnloadedIs DEF LoadFits
  <2>4. OneCurrent' /\ \A m \in Loads : load'[m].current => Owns(m)'
    BY <2>1, <2>2, UnloadedIs DEF OneCurrent, Owns
  <2>5. NobodyWaits' BY <1>2, <2>1, <2>2 DEF NobodyWaits, Eligible, Same
  <2>. QED BY <2>1, <2>2, <2>3, <2>4, <2>5
<1>. QED BY <1>1, <1>2

\* A load that goes on stays what it is.
LEMMA OnwardInv ==
  ASSUME LoadInv, NEW l \in Loads, upscale' = upscale, NEW next \in LoadStates, load' = [load EXCEPT ![l] = next],
         next.current = load[l].current, next.source = load[l].source, next.mode = load[l].mode,
         next.gpu => next.current \/ next.at = "built", next.at # "free",
         next.at = "running" => next.current,
         next.current => next.size = load[l].size \/ next.size = upscale.size
  PROVE  LoadInv'
<1>. USE DEF LoadInv, LoadsTyped
<1>1. load' \in [Loads -> LoadStates] /\ \A m \in Loads : load'[m] = IF m = l THEN next ELSE load[m]
  OBVIOUS
<1>2. \A m \in Loads : LoadFits(m)' BY <1>1 DEF LoadFits
<1>3. OneCurrent' BY <1>1 DEF OneCurrent
<1>4. \A m \in Loads : load'[m].current => Owns(m)' BY <1>1 DEF Owns
<1>5. NobodyWaits'
  <2> SUFFICES ASSUME Eligible, ~upscale.destroyed, ~upscale.frame PROVE \E m \in Loads : Same(m)'
    BY DEF NobodyWaits, Eligible
  <2>1. PICK m \in Loads : Same(m) BY DEF NobodyWaits
  <2>2. CASE m # l BY <1>1, <2>1, <2>2 DEF Same
  <2>3. CASE m = l
    <3>1. next.size = upscale.size /\ next.current /\ next.source = upscale.source
      BY <2>1, <2>3 DEF Same, Owns
    <3>. QED BY <1>1, <3>1 DEF Same
  <2>. QED BY <2>2, <2>3
<1>. QED BY <1>1, <1>2, <1>3, <1>4, <1>5

LEMMA LoadStepInv ==
  ASSUME LoadInv, NEW l \in Loads, LoadStep(l)
  PROVE  LoadInv'
<1>0. load[l] \in LoadStates /\ LoadFits(l) /\ load \in [Loads -> LoadStates] /\ upscale \in UpscaleStates
  BY DEF LoadInv, LoadsTyped
<1>1. ASSUME NEW at \in {"device", "built"}, Goes(l, at), load[l].at \in {"adapter", "building"},
             load[l].gpu => load[l].current \/ at = "built"
      PROVE  LoadInv'
  <2>. DEFINE next == [load[l] EXCEPT !.at = at]
  <2>1. /\ next \in LoadStates /\ next.current = load[l].current /\ next.source = load[l].source
        /\ next.mode = load[l].mode /\ next.gpu = load[l].gpu /\ next.at = at /\ next.size = load[l].size
    BY <1>0 DEF LoadStates, LoadPlaces
  <2>2. upscale' = upscale /\ load' = [load EXCEPT ![l] = next]
    BY <1>0, <1>1 DEF Goes
  <2>. HIDE DEF next
  <2>. QED BY <1>1, <2>1, <2>2, OnwardInv
<1>2. CASE AdapterCame(l)
  <2>1. CASE load[l].current BY <1>1, <1>2, <2>1 DEF AdapterCame
  <2>2. CASE ~load[l].current BY <1>2, <2>2, FailInv DEF AdapterCame
  <2>. QED BY <2>1, <2>2
<1>3. CASE DeviceCame(l)
  <2>1. CASE load[l].current
    <3>. DEFINE next == [load[l] EXCEPT !.at = "building", !.gpu = TRUE]
    <3>1. /\ next \in LoadStates /\ next.current = load[l].current /\ next.source = load[l].source
          /\ next.mode = load[l].mode /\ next.at = "building" /\ next.size = load[l].size
      BY <1>0 DEF LoadStates, LoadPlaces
    <3>2. upscale' = upscale /\ load' = [load EXCEPT ![l] = next]
      BY <1>0, <1>3, <2>1 DEF DeviceCame
    <3>. HIDE DEF next
    <3>. QED BY <2>1, <3>1, <3>2, OnwardInv
  <2>2. CASE ~load[l].current BY <1>3, <2>2, FailInv DEF DeviceCame
  <2>. QED BY <2>1, <2>2
<1>4. CASE Built(l) BY <1>1, <1>4 DEF Built
<1>5. CASE CreateFails(l) \/ RunFails(l) BY <1>5, FailInv DEF CreateFails, RunFails
<1>6. CASE Present(l)
  <2>1. CASE ~load[l].current BY <1>6, <2>1, FailInv DEF Present, Overtaken, Fail
  <2>2. CASE load[l].current /\ upscale.size > SizeLimit
    BY <1>6, <2>2, FailInv DEF Present, Overtaken
  <2>3. CASE load[l].current /\ ~(upscale.size > SizeLimit)
    <3>. DEFINE next == [load[l] EXCEPT !.at = "running", !.size = upscale.size]
    <3>1. /\ next \in LoadStates /\ next.current = load[l].current /\ next.source = load[l].source
          /\ next.mode = load[l].mode /\ next.at = "running" /\ next.size = upscale.size
      BY <1>0 DEF LoadStates, LoadPlaces, UpscaleStates
    <3>2. upscale' = upscale /\ load' = [load EXCEPT ![l] = next]
      BY <1>0, <1>6, <2>3 DEF Present, Overtaken
    <3>. HIDE DEF next
    <3>. QED BY <2>3, <3>1, <3>2, OnwardInv
  <2>. QED BY <2>1, <2>2, <2>3
<1>7. CASE Deadline(l)
  <2>1. upscale' = [upscale EXCEPT !.failure = TRUE] /\ load' = Stopped
    BY <1>7 DEF Deadline
  <2>2. upscale' \in UpscaleStates /\ upscale'.failure /\ upscale'.frame = upscale.frame /\ upscale'.destroyed = upscale.destroyed
    BY <1>0, <2>1 DEF UpscaleStates
  <2>. QED BY <2>1, <2>2, StopInv DEF LoadInv
<1>. QED BY <1>2, <1>3, <1>4, <1>5, <1>6, <1>7 DEF LoadStep

LEMMA UpdateInv ==
  ASSUME LoadInv, Update
  PROVE  LoadInv'
<1>. USE DEF LoadInv, LoadsTyped
<1>1. upscale' = [upscale EXCEPT !.frame = FALSE] /\ upscale.frame /\ ~upscale.hidden /\ ~upscale.destroyed
  BY DEF Update
<1>2. /\ upscale' \in UpscaleStates /\ upscale'.choice = upscale.choice /\ upscale'.source = upscale.source
      /\ upscale'.size = upscale.size /\ upscale'.hidden = upscale.hidden /\ upscale'.fits = upscale.fits
      /\ upscale'.failure = upscale.failure /\ ~upscale'.frame /\ upscale'.destroyed = upscale.destroyed
  BY <1>1 DEF UpscaleStates
<1>3. Eligible' = Eligible BY <1>2 DEF Eligible
<1>4. CASE ~Eligible
  BY <1>2, <1>3, <1>4, StopInv DEF Update
<1>5. CASE Eligible /\ \E l \in Loads : Same(l)
  <2>1. load' = load BY <1>5 DEF Update
  <2>2. (\A l \in Loads : LoadFits(l)') /\ OneCurrent' BY <2>1 DEF LoadFits, OneCurrent
  <2>3. \A l \in Loads : load'[l].current => Owns(l)' BY <1>2, <2>1 DEF Owns
  <2>4. NobodyWaits' BY <1>2, <1>5, <2>1 DEF NobodyWaits, Same
  <2>. QED BY <1>2, <2>1, <2>2, <2>3, <2>4
<1>6. CASE Eligible /\ ~ \E l \in Loads : Same(l)
  <2>. DEFINE next == [at |-> "adapter", current |-> TRUE, gpu |-> FALSE,
                       source |-> upscale.source, size |-> upscale.size, mode |-> upscale.choice]
  <2>1. PICK l \in Loads : load' = [Stopped EXCEPT ![l] = next]
    BY <1>6 DEF Update
  <2>2. /\ next \in LoadStates /\ next.current /\ ~next.gpu /\ next.at = "adapter"
        /\ next.source = upscale.source /\ next.size = upscale.size /\ next.mode = upscale.choice
    BY DEF UpscaleStates, LoadStates, LoadPlaces
  <2>. HIDE DEF next
  <2>3. load' \in [Loads -> LoadStates] /\ \A m \in Loads : load'[m] = IF m = l THEN next ELSE Stopped[m]
    BY <2>1, <2>2, StoppedIs
  <2>4. \A m \in Loads : LoadFits(m)' BY <2>2, <2>3, StoppedIs DEF LoadFits
  <2>5. OneCurrent' BY <2>3, StoppedIs DEF OneCurrent
  <2>6. \A m \in Loads : load'[m].current => Owns(m)'
    BY <1>1, <1>2, <1>6, <2>2, <2>3, StoppedIs DEF Owns, Eligible
  <2>7. Same(l)' BY <1>2, <2>2, <2>3 DEF Same
  <2>. QED BY <1>2, <2>3, <2>4, <2>5, <2>6, <2>7 DEF NobodyWaits
<1>. QED BY <1>4, <1>5, <1>6

LEMMA ChangeInv ==
  ASSUME LoadInv,
         \/ Visibility \/ Destroy
         \/ \E c \in UpscaleChoices : Choose(c)
         \/ \E c \in Canvases \cup {NoCanvas} : AttachCanvas(c)
         \/ \E size \in CanvasSizes, fits \in BOOLEAN : CanvasChanges(size, fits)
  PROVE  LoadInv'
<1>0. upscale \in UpscaleStates /\ load \in [Loads -> LoadStates] BY DEF LoadInv, LoadsTyped
<1>1. CASE Destroy
  <2>1. upscale' \in UpscaleStates /\ upscale'.destroyed /\ ~upscale'.frame /\ load' = Stopped
    BY <1>0, <1>1 DEF Destroy, UpscaleStates
  <2>. QED BY <2>1, StopInv
<1>2. ASSUME NEW c \in UpscaleChoices, Choose(c) PROVE LoadInv'
  <2>1. upscale' \in UpscaleStates /\ upscale'.frame /\ ~upscale'.destroyed /\ load' = Stopped
    BY <1>0, <1>2 DEF Choose, UpscaleStates
  <2>. QED BY <2>1, StopInv
<1>3. ASSUME NEW c \in Canvases \cup {NoCanvas}, AttachCanvas(c) PROVE LoadInv'
  <2>1. upscale' \in UpscaleStates /\ upscale'.frame /\ ~upscale'.destroyed /\ load' = Stopped
    BY <1>0, <1>3 DEF AttachCanvas, UpscaleStates, AnyCanvas
  <2>. QED BY <2>1, StopInv
<1>4. ASSUME load' = load, upscale' \in UpscaleStates, upscale'.frame, ~upscale'.destroyed,
             \A l \in Loads : load[l].current => Owns(l)'
      PROVE  LoadInv'
  <2>1. (\A l \in Loads : LoadFits(l)') /\ OneCurrent' BY <1>4 DEF LoadInv, LoadFits, OneCurrent
  <2>2. NobodyWaits' BY <1>4 DEF NobodyWaits
  <2>. QED BY <1>0, <1>4, <2>1, <2>2 DEF LoadInv, LoadsTyped
<1>5. ASSUME NEW size \in CanvasSizes, NEW fits \in BOOLEAN, CanvasChanges(size, fits) PROVE LoadInv'
  <2>1. /\ upscale' \in UpscaleStates /\ upscale'.frame /\ ~upscale'.destroyed /\ load' = load
        /\ upscale'.choice = upscale.choice /\ upscale'.source = upscale.source
        /\ upscale'.failure = upscale.failure /\ upscale'.hidden = upscale.hidden
    BY <1>0, <1>5 DEF CanvasChanges, UpscaleStates, AnySize
  <2>2. \A l \in Loads : load[l].current => Owns(l)' BY <2>1 DEF Owns, LoadInv
  <2>. QED BY <1>4, <2>1, <2>2
<1>6. CASE Visibility
  <2>1. /\ upscale' \in UpscaleStates /\ upscale'.frame /\ ~upscale'.destroyed
    BY <1>0, <1>6 DEF Visibility, UpscaleStates
  <2>2. CASE ~upscale.hidden BY <1>6, <2>1, <2>2, StopInv DEF Visibility
  <2>3. CASE upscale.hidden
    <3>1. load' = load BY <1>6, <2>3 DEF Visibility
    <3>2. \A l \in Loads : ~load[l].current BY <2>3 DEF Owns, LoadInv
    <3>. QED BY <1>4, <2>1, <3>1, <3>2
  <2>. QED BY <2>2, <2>3
<1>. QED BY <1>1, <1>2, <1>3, <1>5, <1>6

LEMMA LoadStarts == UpscaleInit => LoadInv
<1> SUFFICES ASSUME UpscaleInit PROVE LoadInv OBVIOUS
<1>1. upscale \in UpscaleStates /\ upscale.frame /\ ~upscale.destroyed
  BY DEF UpscaleInit, UpscaleStates, AnyCanvas, AnySize
<1>2. load \in [Loads -> LoadStates] /\ \A l \in Loads : load[l] = Unloaded
  BY UnloadedIs DEF UpscaleInit
<1>3. (\A l \in Loads : LoadFits(l)) /\ OneCurrent /\ \A l \in Loads : load[l].current => Owns(l)
  BY <1>2, UnloadedIs DEF LoadFits, OneCurrent
<1>. QED BY <1>1, <1>2, <1>3 DEF LoadInv, LoadsTyped, NobodyWaits

LEMMA LoadSteps == LoadInv /\ [UpscaleNext]_upscaleVars => LoadInv'
<1> SUFFICES ASSUME LoadInv, [UpscaleNext]_upscaleVars PROVE LoadInv' OBVIOUS
<1>1. CASE UNCHANGED upscaleVars
  BY <1>1 DEF upscaleVars, LoadInv, LoadsTyped, LoadFits, OneCurrent, Owns, NobodyWaits, Eligible, Same
<1>. QED BY <1>1, UpdateInv, ChangeInv, LoadStepInv DEF UpscaleNext

\* A GPU device belongs to the one load that is current, or to one that is about to
\* give it back; the current load is of the canvas and the mode that were
\* chosen; and while the page is eligible a load is
\* under way or a frame is due (enhancement-controller.ts:153-158, gpu-upscaler.ts:28-48).
THEOREM SoundEnhancement == UpscaleSpec => []EnhancementIsSound
<1>1. LoadInv => EnhancementIsSound
  <2> SUFFICES ASSUME LoadInv PROVE GpuIsOwned BY DEF LoadInv, EnhancementIsSound
  <2>1. Cardinality({l \in Loads : load[l].current}) <= 1
    <3>1. CASE {l \in Loads : load[l].current} = {} BY <3>1, FS_EmptySet
    <3>2. CASE {l \in Loads : load[l].current} # {}
      <4>1. PICK m \in Loads : load[m].current BY <3>2
      <4>2. {l \in Loads : load[l].current} = {m} BY <4>1 DEF LoadInv, OneCurrent
      <4>3. Cardinality({m}) = 1 BY FS_Singleton
      <4>. QED BY <4>2, <4>3
    <3>. QED BY <3>1, <3>2
  <2>. QED BY <2>1 DEF GpuIsOwned, LoadInv, LoadFits, Owns
<1>. QED BY LoadStarts, LoadSteps, <1>1, PTL DEF UpscaleSpec
-----------------------------------------------------------------------------
\* One direction of the grid: whose crop meets the damage is among the patches
\* that the damage is taken to.
LEMMA OneDirection ==
  ASSUME NEW size \in Nat \ {0}, NEW at \in 0..CeilDiv(size, PatchSize)-1,
         NEW from \in Int, NEW length \in Nat \ {0}, Meets(Span(at, size, Halo), from, length)
  PROVE  at \in FirstPatch(from)..LastPatch(from, length, CeilDiv(size, PatchSize))-1
<1>. DEFINE count == CeilDiv(size, PatchSize)
           low == at * PatchSize
           end == from + length + Halo
<1>1. PatchSize \in Nat \ {0} /\ Halo \in Nat BY OverlayAssumption
<1>2. count \in Int
  <2>1. size + PatchSize - 1 \in Int BY <1>1
  <2>. QED BY <1>1, <2>1, Division DEF CeilDiv
<1>3. at \in Nat /\ at < count BY <1>2
<1>4. low \in Int /\ (at + 1) * PatchSize = low + PatchSize BY <1>1, <1>3
<1>5. Span(at, size, Halo).from >= low - Halo /\ Span(at, size, Halo).from \in Int
  <2>1. Span(at, size, Halo).from = Max({0, low - Halo}) BY DEF Span
  <2>2. 0 \in Int /\ low - Halo \in Int BY <1>1, <1>4
  <2>3. Max({0, low - Halo}) >= low - Halo /\ Max({0, low - Halo}) \in Int BY <2>2, TwoNumbers
  <2>. QED BY <2>1, <2>3
<1>6. Span(at, size, Halo).to <= low + PatchSize + Halo /\ Span(at, size, Halo).to \in Int
  <2>1. Span(at, size, Halo).to = Min({size, Min({size, low + PatchSize}) + Halo})
    BY <1>4 DEF Span
  <2>2. size \in Int /\ low + PatchSize \in Int BY <1>1, <1>4
  <2>. HIDE DEF low
  <2>3. Min({size, low + PatchSize}) \in Int /\ Min({size, low + PatchSize}) <= low + PatchSize
    BY <2>2, TwoNumbers
  <2>. DEFINE edge == Min({size, low + PatchSize})
  <2>. HIDE DEF edge
  <2>. DEFINE reach == edge + Halo
  <2>4. reach \in Int /\ reach <= low + PatchSize + Halo BY <1>1, <2>2, <2>3 DEF edge
  <2>. HIDE DEF reach
  <2>5. Min({size, reach}) <= reach /\ Min({size, reach}) \in Int BY <2>2, <2>4, TwoNumbers
  <2>6. Span(at, size, Halo).to = Min({size, reach}) BY <2>1 DEF edge, reach
  <2>. QED BY <1>1, <2>2, <2>4, <2>5, <2>6
<1>8. from - Halo < (at + 1) * PatchSize /\ low < end
  BY <1>1, <1>4, <1>5, <1>6 DEF Meets
<1>9. (from - Halo) \div PatchSize < at + 1
  <2>1. from - Halo \in Int /\ at + 1 \in Int BY <1>1, <1>3
  <2>. QED BY <1>1, <1>8, <2>1, QuotientBelow
<1>10. at + 1 <= CeilDiv(end, PatchSize)
  <2>1. (at + 1) * PatchSize <= end + PatchSize - 1 BY <1>1, <1>4, <1>8
  <2>2. end + PatchSize - 1 \in Int /\ at + 1 \in Int BY <1>1, <1>3
  <2>. HIDE DEF end
  <2>. QED BY <1>1, <2>1, <2>2, QuotientAbove DEF CeilDiv
<1>11. FirstPatch(from) \in Int /\ FirstPatch(from) <= at
  <2>1. (from - Halo) \div PatchSize \in Int BY <1>1, Division
  <2>. DEFINE q == (from - Halo) \div PatchSize
  <2>2. FirstPatch(from) = Max({0, q}) BY DEF FirstPatch
  <2>3. q \in Int /\ 0 \in Int /\ q < at + 1 BY <1>9, <2>1
  <2>. HIDE DEF q
  <2>4. FirstPatch(from) \in {0, q} BY <2>2, <2>3, TwoNumbers
  <2>. QED BY <1>3, <2>3, <2>4
<1>12. LastPatch(from, length, count) \in Int /\ at + 1 <= LastPatch(from, length, count)
  <2>1. CeilDiv(end, PatchSize) \in Int
    <3>1. end + PatchSize - 1 \in Int BY <1>1
    <3>. QED BY <1>1, <3>1, Division DEF CeilDiv
  <2>2. LastPatch(from, length, count) = Min({count, CeilDiv(end, PatchSize)})
    BY DEF LastPatch
  <2>. HIDE DEF count, end
  <2>3. at \in Int BY <1>3
  <2>4. Min({count, CeilDiv(end, PatchSize)}) \in {count, CeilDiv(end, PatchSize)} BY <1>2, <2>1, TwoNumbers
  <2>. QED BY <1>2, <1>3, <1>10, <2>1, <2>2, <2>3, <2>4
<1>. HIDE DEF count, low, end
<1>. QED BY <1>3, <1>11, <1>12 DEF count

LEMMA GridIs ==
  /\ Columns \in Nat \ {0} /\ PatchRows \in Nat \ {0} /\ Columns * PatchRows \in Nat \ {0}
  /\ \A p \in Patches : /\ p \in Nat /\ p # -1
                        /\ p % Columns \in 0..Columns-1 /\ p \div Columns \in 0..PatchRows-1
<1>1. ASSUME NEW size \in Nat \ {0} PROVE CeilDiv(size, PatchSize) \in Nat \ {0}
  <2>1. PatchSize \in Nat \ {0} /\ size + PatchSize - 1 \in Int /\ 1 * PatchSize <= size + PatchSize - 1
    BY OverlayAssumption
  <2>2. 1 <= (size + PatchSize - 1) \div PatchSize BY <2>1, QuotientAbove
  <2>3. (size + PatchSize - 1) \div PatchSize \in Int BY <2>1, Division
  <2>. QED BY <2>2, <2>3 DEF CeilDiv
<1>2. Columns \in Nat \ {0} /\ PatchRows \in Nat \ {0}
  BY <1>1, OverlayAssumption DEF Columns, PatchRows
<1>3. Columns * PatchRows \in Nat \ {0} BY <1>2
<1>4. ASSUME NEW p \in Patches
      PROVE  p \in Nat /\ p % Columns \in 0..Columns-1 /\ p \div Columns \in 0..PatchRows-1
  <2>1. p \in Nat /\ p < Columns * PatchRows BY <1>3 DEF Patches
  <2>2. p < PatchRows * Columns BY <1>2, <2>1
  <2>3. p \div Columns < PatchRows BY <1>2, <2>1, <2>2, QuotientBelow
  <2>4. 0 * Columns <= p BY <1>2, <2>1
  <2>5. 0 <= p \div Columns BY <1>2, <2>1, <2>4, QuotientAbove
  <2>6. p % Columns \in 0..Columns-1 /\ p \div Columns \in Int BY <1>2, <2>1, Division, Remainder
  <2>. QED BY <1>2, <2>1, <2>3, <2>5, <2>6
<1>. QED BY <1>2, <1>3, <1>4

\* Damage that a patch's crop reads invalidates the patch.
LEMMA HitsAreInvalidated ==
  ASSUME NEW r \in Rects, NEW p \in Patches,
         Meets(Crop(p, Halo).x, r.x, r.w), Meets(Crop(p, Halo).y, r.y, r.h)
  PROVE  p \in Invalidated(r)
<1>1. r.x \in Int /\ r.y \in Int /\ r.w \in Nat \ {0} /\ r.h \in Nat \ {0} BY OverlayAssumption
<1>2. Width \in Nat \ {0} /\ Height \in Nat \ {0} BY OverlayAssumption
<1>3. p % Columns \in 0..CeilDiv(Width, PatchSize)-1 /\ p \div Columns \in 0..CeilDiv(Height, PatchSize)-1
  BY GridIs DEF Columns, PatchRows
<1>4. p % Columns \in FirstPatch(r.x)..LastPatch(r.x, r.w, CeilDiv(Width, PatchSize))-1
  BY <1>1, <1>2, <1>3, OneDirection DEF Crop
<1>5. p \div Columns \in FirstPatch(r.y)..LastPatch(r.y, r.h, CeilDiv(Height, PatchSize))-1
  BY <1>1, <1>2, <1>3, OneDirection DEF Crop
<1>. QED BY <1>4, <1>5 DEF Invalidated, Columns, PatchRows

\* Every layer reads what the layer before it wrote, and the display all it shows.
LEMMA ComputedIs ==
  ASSUME NEW m \in {"balanced", "quality"}
  PROVE  Computed(m)
<1>1. Layers(m) \in {4, 7} /\ Features(m) \in {2, 7}
      /\ (m = "balanced" => Layers(m) = 4 /\ Features(m) = 2)
      /\ (m # "balanced" => Layers(m) = 7 /\ Features(m) = 7)
  BY DEF Layers, Features
<1>2. ASSUME NEW i \in 1..Layers(m), NEW b, b = (i - 1) % Features(m) PROVE LastWriter(m, b, i) = i - 1
  <2>. DEFINE S == {-1} \cup {j \in 0..i-1 : j % Features(m) = b}
  <2>1. S \in SUBSET Int /\ i - 1 \in S /\ \A j \in S : j <= i - 1 BY <1>1, <1>2
  <2>. HIDE DEF S
  <2>2. Max(S) = i - 1 BY <2>1, MaxIs
  <2>. QED BY <2>2 DEF S, LastWriter
<1>3. ASSUME NEW i \in 1..Layers(m)-1 PROVE LastWriter(m, ReadsBuffer(i, m), i) = i - 1
  BY <1>1, <1>2 DEF ReadsBuffer
<1>4. CASE m = "balanced"
  <2>1. 3 % 2 = 1 OBVIOUS
  <2>2. LastWriter(m, 1, Layers(m)) = Layers(m) - 1 BY <1>1, <1>2, <1>4, <2>1
  <2>. QED BY <1>3, <1>4, <2>2 DEF Computed
<1>5. CASE m # "balanced"
  <2>1. ASSUME NEW b \in 0..Features(m)-1 PROVE LastWriter(m, b, Layers(m)) = b
    <3>. DEFINE S == {-1} \cup {j \in 0..Layers(m)-1 : j % Features(m) = b}
    <3>1. S \in SUBSET Int /\ b \in S /\ \A j \in S : j <= b BY <1>1, <1>5, <2>1
    <3>. HIDE DEF S
    <3>2. Max(S) = b BY <3>1, MaxIs
    <3>. QED BY <3>2 DEF S, LastWriter
  <2>. QED BY <1>3, <1>5, <2>1 DEF Computed
<1>. QED BY <1>4, <1>5
-----------------------------------------------------------------------------
PatchCounts == Nat
PatchTimers == Nat \cup {Off}
Cover == [covered : BOOLEAN, true : BOOLEAN]
DamageGrid == [dirty : SUBSET Patches, revision : [Patches -> Nat], wait : [Patches -> Nat], cursor : PatchCounts]
EnhancementRun == [stopped : BOOLEAN, resized : BOOLEAN, busy : BOOLEAN, timer : PatchTimers, frame : BOOLEAN,
                   batch : PatchCounts, slow : PatchCounts, samples : PatchCounts]
PatchJob == [patch : Patches \cup {-1}, revision : PatchCounts, true : BOOLEAN]
OverlayTyped ==
  /\ mode \in {"balanced", "quality"} /\ damages \in Nat
  /\ grid \in DamageGrid /\ run \in EnhancementRun /\ job \in PatchJob /\ overlay \in [Patches -> Cover]

\* What is in flight was computed from the present pixels, or its patch is dirty
\* again, and newer.
JobIsKnown(g, j) ==
  j.patch # -1 => /\ j.revision <= g.revision[j.patch]
                  /\ IF g.revision[j.patch] = j.revision THEN j.true ELSE j.patch \in g.dirty
CoversAreTrue(o) == \A p \in Patches : o[p].covered => o[p].true
Lively(r, g) == g.dirty # {} => r.busy \/ r.frame \/ r.timer # Off
OverlayInv == OverlayTyped /\ JobIsKnown(grid, job) /\ CoversAreTrue(overlay) /\ PatchesAreServed

LEMMA NoPatch == -1 \notin Patches /\ 0 \in PatchCounts /\ Off \in PatchTimers /\ Nat \subseteq PatchTimers /\ \A n \in Nat : n # Off
<1>1. -1 \notin Patches BY GridIs
<1>. QED BY <1>1 DEF PatchCounts, PatchTimers, Off

LEMMA ScheduledIs ==
  ASSUME NEW r \in EnhancementRun, NEW g \in DamageGrid
  PROVE  /\ Scheduled(r, g) \in EnhancementRun
         /\ Scheduled(r, g).stopped = r.stopped /\ Scheduled(r, g).resized = r.resized
         /\ Scheduled(r, g).busy = r.busy
         /\ ~r.stopped => Lively(Scheduled(r, g), g)
<1>1. CASE r.stopped \/ r.busy \/ r.frame \/ r.timer # Off \/ g.dirty = {}
  BY <1>1 DEF Scheduled, Lively
<1>2. CASE ~(r.stopped \/ r.busy \/ r.frame \/ r.timer # Off \/ g.dirty = {})
  <2>. DEFINE n == Min({g.wait[p] : p \in g.dirty})
  <2>1. g.dirty \subseteq Patches /\ g.wait \in [Patches -> Nat] BY DEF DamageGrid
  <2>2. {g.wait[p] : p \in g.dirty} \subseteq Nat /\ {g.wait[p] : p \in g.dirty} # {}
    BY <1>2, <2>1
  <2>3. n \in Nat BY <2>2, Smallest
  <2>4. n \in PatchTimers /\ n # Off BY <2>3, NoPatch
  <2>5. Scheduled(r, g) = [r EXCEPT !.timer = n] BY <1>2 DEF Scheduled
  <2>. HIDE DEF n
  <2>. QED BY <2>4, <2>5 DEF EnhancementRun, Lively
<1>. QED BY <1>1, <1>2

LEMMA NextIsReady ==
  ASSUME NEW g \in DamageGrid, Ready(g) # {}
  PROVE  NextPatch(g) \in g.dirty /\ NextPatch(g) \in Patches
<1>. DEFINE Count == Columns * PatchRows
            Turn(p) == (p - g.cursor) % Count
            S == {Turn(p) : p \in Ready(g)}
<1>1. Ready(g) \subseteq g.dirty /\ g.dirty \subseteq Patches /\ g.cursor \in Nat
  BY DEF Ready, DamageGrid, PatchCounts
<1>2. Count \in Nat \ {0} BY GridIs
<1>3. ASSUME NEW p \in Ready(g) PROVE Turn(p) \in Nat
  <2>1. p - g.cursor \in Int BY <1>1, GridIs
  <2>. HIDE DEF Count
  <2>2. (p - g.cursor) % Count \in 0..Count-1 BY <1>2, <2>1, Remainder
  <2>. QED BY <1>2, <2>2
<1>. HIDE DEF Turn
<1>4. S \subseteq Nat /\ S # {} BY <1>3
<1>5. Min(S) \in S /\ \A n \in S : Min(S) <= n BY <1>4, Smallest
<1>6. PICK p \in Ready(g) : Turn(p) = Min(S) BY <1>5
<1>7. \A q \in Ready(g) : Turn(p) <= Turn(q) BY <1>5, <1>6
<1>8. \E x \in Ready(g) : \A q \in Ready(g) :
        (x - g.cursor) % (Columns * PatchRows) <= (q - g.cursor) % (Columns * PatchRows)
  BY <1>7 DEF Turn
<1>9. NextPatch(g) \in Ready(g) BY <1>8 DEF NextPatch
<1>. QED BY <1>1, <1>9

\* The batch goes on, or the turn ends: if all bare patches were dirty, every
\* patch is covered, dirty or in flight afterwards.
LEMMA ContinueInv ==
  ASSUME OverlayInv, NEW r \in EnhancementRun, NEW goOn \in BOOLEAN, Continue(r, goOn), mode' = mode, damages' = damages,
         r.stopped = run.stopped, r.resized = run.resized,
         overlay' \in [Patches -> Cover], CoversAreTrue(overlay'),
         ~run.stopped /\ ~run.resized => \A q \in Patches : overlay'[q].covered \/ q \in grid.dirty
  PROVE  OverlayInv'
<1>. USE DEF OverlayInv, OverlayTyped
<1>1. CASE goOn /\ r.batch < BatchSize /\ Ready(grid) # {}
  <2>. DEFINE p == NextPatch(grid)
  <2>1. /\ grid' = [grid EXCEPT !.dirty = @ \ {p}, !.cursor = (p + 1) % (Columns * PatchRows)]
        /\ job' = Render(p) /\ run' = [r EXCEPT !.busy = TRUE, !.batch = @ + 1]
    BY <1>1 DEF Continue
  <2>2. p \in Patches /\ p \in grid.dirty BY <1>1, NextIsReady
  <2>3. (p + 1) % (Columns * PatchRows) \in PatchCounts
    <3>. DEFINE Count == Columns * PatchRows
    <3>1. Count \in Nat \ {0} /\ p + 1 \in Int BY <2>2, GridIs
    <3>. HIDE DEF Count, p
    <3>2. (p + 1) % Count \in 0..Count-1 BY <3>1, Remainder
    <3>3. (p + 1) % Count \in Nat BY <3>1, <3>2
    <3>. QED BY <3>3 DEF PatchCounts, Count
  <2>. HIDE DEF p
  <2>4. grid' \in DamageGrid /\ grid'.dirty = grid.dirty \ {p} /\ grid'.revision = grid.revision
    BY <2>1, <2>3 DEF DamageGrid
  <2>5. /\ run' \in EnhancementRun /\ run'.stopped = run.stopped /\ run'.resized = run.resized /\ run'.busy
    <3>1. r.batch + 1 \in PatchCounts BY DEF EnhancementRun, PatchCounts
    <3>. QED BY <2>1, <3>1 DEF EnhancementRun
  <2>6. /\ job' \in PatchJob /\ job'.patch = p /\ job'.revision = grid.revision[p] /\ job'.true
    <3>1. job' = [patch |-> p, revision |-> grid.revision[p], true |-> TRUE]
      BY <2>1, ComputedIs DEF Render
    <3>2. grid.revision[p] \in PatchCounts BY <2>2 DEF DamageGrid, PatchCounts
    <3>. QED BY <2>2, <3>1, <3>2 DEF PatchJob
  <2>7. grid.revision[p] \in Nat BY <2>2 DEF DamageGrid
  <2>8. JobIsKnown(grid', job') BY <2>4, <2>6, <2>7 DEF JobIsKnown
  <2>9. PatchesAreServed'
    BY <2>2, <2>4, <2>5, <2>6, NoPatch DEF PatchesAreServed
  <2>. QED BY <2>4, <2>5, <2>6, <2>8, <2>9
<1>2. CASE ~(goOn /\ r.batch < BatchSize /\ Ready(grid) # {})
  <2>1. grid' = grid /\ job' = [job EXCEPT !.patch = -1, !.true = FALSE] /\ run' = EndTurn(r, grid)
    BY <1>2 DEF Continue
  <2>2. job' \in PatchJob /\ job'.patch = -1 BY <2>1 DEF PatchJob
  <2>3. [r EXCEPT !.busy = FALSE] \in EnhancementRun /\ ~[r EXCEPT !.busy = FALSE].busy
        /\ [r EXCEPT !.busy = FALSE].stopped = r.stopped /\ [r EXCEPT !.busy = FALSE].resized = r.resized
    BY DEF EnhancementRun
  <2>4. /\ run' \in EnhancementRun /\ run'.stopped = run.stopped /\ run'.resized = run.resized
        /\ ~run'.busy /\ (~run.stopped => Lively(run', grid))
    BY <2>1, <2>3, ScheduledIs DEF EndTurn
  <2>5. JobIsKnown(grid', job') BY <2>2 DEF JobIsKnown
  <2>6. PatchesAreServed'
    <3>1. run'.busy = FALSE BY <2>4 DEF EnhancementRun
    <3>. QED BY <2>1, <2>2, <2>4, <3>1 DEF PatchesAreServed, Lively
  <2>. QED BY <2>1, <2>2, <2>4, <2>5, <2>6
<1>. QED BY <1>1, <1>2

LEMMA OverlayStarts == OverlayInit => OverlayInv
<1> SUFFICES ASSUME OverlayInit PROVE OverlayInv OBVIOUS
<1>1. Delay["tile"] \in Nat /\ Delay["tile"] \in PatchTimers /\ Delay["tile"] # Off
  BY OverlayAssumption, NoPatch
<1>2. grid \in DamageGrid BY <1>1 DEF OverlayInit, DamageGrid, PatchCounts
<1>3. run \in EnhancementRun BY <1>1, NoPatch DEF OverlayInit, EnhancementRun
<1>4. job \in PatchJob BY NoPatch DEF OverlayInit, PatchJob
<1>5. overlay \in [Patches -> Cover] BY DEF OverlayInit, Cover
<1>6. OverlayTyped BY <1>2, <1>3, <1>4, <1>5 DEF OverlayTyped, OverlayInit
<1>7. PatchesAreServed BY <1>1 DEF OverlayInit, PatchesAreServed
<1>8. JobIsKnown(grid, job) /\ CoversAreTrue(overlay) BY DEF OverlayInit, JobIsKnown, CoversAreTrue
<1>. QED BY <1>6, <1>7, <1>8 DEF OverlayInv

LEMMA DamageInv ==
  ASSUME OverlayInv, NEW r \in Rects, NEW kind \in DOMAIN Delay, Damage(r, kind)
  PROVE  OverlayInv'
<1>. USE DEF OverlayInv, OverlayTyped
<1>. DEFINE hit == Invalidated(r)
            reads(p) == Meets(Crop(p, Halo).x, r.x, r.w) /\ Meets(Crop(p, Halo).y, r.y, r.h)
            revision == [p \in Patches |-> IF p \in hit THEN grid.revision[p] + 1 ELSE grid.revision[p]]
            wait == [p \in Patches |-> IF p \in hit THEN Max({grid.wait[p], Delay[kind]}) ELSE grid.wait[p]]
<1>1. /\ ~run.stopped /\ damages' = damages + 1 /\ mode' = mode
      /\ grid' = [grid EXCEPT !.dirty = @ \cup hit, !.revision = revision, !.wait = wait]
      /\ run' = Scheduled(run, grid')
      /\ overlay' = [p \in Patches |-> IF p \in hit THEN [covered |-> FALSE, true |-> FALSE]
                                        ELSE [overlay[p] EXCEPT !.true = @ /\ ~reads(p)]]
      /\ job' = [job EXCEPT !.true = @ /\ ~reads(job.patch)]
  <2>1. /\ [p \in Patches |-> IF p \in hit THEN grid.revision[p] + 1 ELSE grid.revision[p]] = revision
        /\ [p \in Patches |-> IF p \in hit THEN Max({grid.wait[p], Delay[kind]}) ELSE grid.wait[p]] = wait
    OBVIOUS
  <2>. HIDE DEF hit, reads
  <2>. QED BY DEF Damage, hit, reads
<1>2. hit \subseteq Patches BY DEF Invalidated
<1>3. \A p \in Patches : reads(p) => p \in hit BY HitsAreInvalidated
<1>. HIDE DEF hit, reads
<1>4. revision \in [Patches -> Nat] /\ wait \in [Patches -> Nat]
  <2>1. grid.revision \in [Patches -> Nat] /\ grid.wait \in [Patches -> Nat] /\ Delay[kind] \in Nat
    BY OverlayAssumption DEF DamageGrid
  <2>2. \A p \in Patches : Max({grid.wait[p], Delay[kind]}) \in Nat
    <3> SUFFICES ASSUME NEW p \in Patches PROVE Max({grid.wait[p], Delay[kind]}) \in Nat OBVIOUS
    <3>1. grid.wait[p] \in Int /\ Delay[kind] \in Int BY <2>1
    <3>2. Max({grid.wait[p], Delay[kind]}) \in {grid.wait[p], Delay[kind]} BY <3>1, TwoNumbers
    <3>. QED BY <2>1, <3>2
  <2>. QED BY <2>1, <2>2
<1>5. \A p \in Patches : /\ grid.revision[p] \in Nat
                          /\ revision[p] = IF p \in hit THEN grid.revision[p] + 1 ELSE grid.revision[p]
  BY DEF DamageGrid
<1>. HIDE DEF revision, wait
<1>6. grid' \in DamageGrid /\ grid'.dirty = grid.dirty \cup hit /\ grid'.revision = revision
  BY <1>1, <1>2, <1>4 DEF DamageGrid
<1>7. /\ run' \in EnhancementRun /\ run'.stopped = run.stopped /\ run'.resized = run.resized
      /\ run'.busy = run.busy /\ Lively(run', grid')
  BY <1>1, <1>6, ScheduledIs
<1>8. /\ job' \in PatchJob /\ job'.patch = job.patch /\ job'.revision = job.revision
      /\ job'.true <=> job.true /\ ~reads(job.patch)
  BY <1>1 DEF PatchJob
<1>9. ASSUME NEW p \in Patches
      PROVE  /\ overlay'[p] \in Cover
             /\ overlay'[p].covered <=> overlay[p].covered /\ p \notin hit
             /\ overlay'[p].true <=> overlay[p].true /\ p \notin hit
  <2>1. overlay[p] \in Cover OBVIOUS
  <2>2. CASE p \in hit
    <3>1. overlay'[p] = [covered |-> FALSE, true |-> FALSE] BY <1>1, <2>2
    <3>. QED BY <2>2, <3>1 DEF Cover
  <2>3. CASE p \notin hit
    <3>1. overlay'[p] = [overlay[p] EXCEPT !.true = @ /\ ~reads(p)] BY <1>1, <2>3
    <3>2. ~reads(p) BY <1>3, <2>3
    <3>. QED BY <2>1, <2>3, <3>1, <3>2 DEF Cover
  <2>. QED BY <2>2, <2>3
<1>10. overlay' \in [Patches -> Cover]
  <2>1. overlay' = [p \in Patches |-> overlay'[p]] BY <1>1
  <2>. QED BY <1>9, <2>1
<1>11. CoversAreTrue(overlay') BY <1>9 DEF CoversAreTrue
<1>12. JobIsKnown(grid', job')
  <2> SUFFICES ASSUME job.patch # -1
               PROVE  /\ job.revision <= revision[job.patch]
                      /\ IF revision[job.patch] = job.revision THEN job'.true ELSE job.patch \in grid.dirty \cup hit
    BY <1>6, <1>8 DEF JobIsKnown
  <2>1. job.patch \in Patches /\ job.revision \in Nat BY DEF PatchJob, PatchCounts
  <2>2. JobIsKnown(grid, job) OBVIOUS
  <2>3. CASE job.patch \in hit BY <1>5, <2>1, <2>2, <2>3 DEF JobIsKnown
  <2>4. CASE job.patch \notin hit
    <3>1. ~reads(job.patch) BY <1>3, <2>1, <2>4
    <3>. QED BY <1>5, <1>8, <2>1, <2>2, <2>4, <3>1 DEF JobIsKnown
  <2>. QED BY <2>3, <2>4
<1>13. PatchesAreServed'
  BY <1>6, <1>7, <1>8, <1>9 DEF PatchesAreServed, Lively
<1>14. mode' \in {"balanced", "quality"} /\ damages' \in Nat BY <1>1
<1>. QED BY <1>14, <1>6, <1>7, <1>8, <1>10, <1>11, <1>12, <1>13

LEMMA TimeInv ==
  ASSUME OverlayInv, Tick \/ TimerFires \/ Ends \/ Resizes
  PROVE  OverlayInv'
<1>. USE DEF OverlayInv, OverlayTyped
<1>1. CASE Tick
  <2>. DEFINE wait == [p \in Patches |-> Max({0, grid.wait[p] - 1})]
  <2>1. grid' = [grid EXCEPT !.wait = wait] BY <1>1 DEF Tick
  <2>2. run' = [run EXCEPT !.timer = IF @ > 0 THEN @ - 1 ELSE @] /\ UNCHANGED <<mode, job, overlay, damages>>
    BY <1>1 DEF Tick
  <2>3. wait \in [Patches -> Nat]
    <3> SUFFICES ASSUME NEW p \in Patches PROVE Max({0, grid.wait[p] - 1}) \in Nat OBVIOUS
    <3>1. grid.wait[p] - 1 \in Int /\ 0 \in Int BY DEF DamageGrid
    <3>2. Max({0, grid.wait[p] - 1}) \in Int /\ Max({0, grid.wait[p] - 1}) >= 0 BY <3>1, TwoNumbers
    <3>. QED BY <3>2
  <2>. HIDE DEF wait
  <2>4. grid' \in DamageGrid /\ grid'.dirty = grid.dirty /\ grid'.revision = grid.revision
    BY <2>1, <2>3 DEF DamageGrid
  <2>5. /\ (IF run.timer > 0 THEN run.timer - 1 ELSE run.timer) \in PatchTimers
        /\ run.timer # Off => (IF run.timer > 0 THEN run.timer - 1 ELSE run.timer) # Off
    BY DEF EnhancementRun, PatchTimers, Off
  <2>6. /\ run' \in EnhancementRun /\ run'.stopped = run.stopped /\ run'.resized = run.resized
        /\ run'.busy = run.busy /\ run'.frame = run.frame /\ (run.timer # Off => run'.timer # Off)
    BY <2>2, <2>5 DEF EnhancementRun
  <2>. QED BY <2>2, <2>4, <2>6 DEF JobIsKnown, CoversAreTrue, PatchesAreServed
<1>2. CASE TimerFires
  <2>1. run' = [run EXCEPT !.timer = Off, !.frame = TRUE] /\ UNCHANGED <<mode, grid, job, overlay, damages>>
    BY <1>2 DEF TimerFires
  <2>2. /\ run' \in EnhancementRun /\ run'.stopped = run.stopped /\ run'.resized = run.resized
        /\ run'.busy = run.busy /\ run'.frame
    BY <2>1, NoPatch DEF EnhancementRun
  <2>. QED BY <2>1, <2>2 DEF JobIsKnown, CoversAreTrue, PatchesAreServed
<1>3. CASE Ends \/ Resizes
  <2>1. UNCHANGED <<mode, grid, job, overlay, damages>> BY <1>3 DEF Ends, Resizes
  <2>2. run' \in EnhancementRun /\ (run'.stopped \/ run'.resized)
    BY <1>3, NoPatch DEF Ends, Resizes, Ended, EnhancementRun
  <2>. QED BY <2>1, <2>2 DEF JobIsKnown, CoversAreTrue, PatchesAreServed
<1>. QED BY <1>1, <1>2, <1>3

LEMMA FrameInv ==
  ASSUME OverlayInv, Frame
  PROVE  OverlayInv'
<1>. USE DEF OverlayInv, OverlayTyped
<1>1. UNCHANGED <<mode, overlay, damages>> BY DEF Frame
<1>2. CASE run.busy \/ run.resized
  <2>1. run' = [run EXCEPT !.frame = FALSE] /\ UNCHANGED <<grid, job>> BY <1>2 DEF Frame
  <2>2. /\ run' \in EnhancementRun /\ run'.stopped = run.stopped /\ run'.resized = run.resized
        /\ run'.busy = run.busy
    BY <2>1 DEF EnhancementRun
  <2>. QED BY <1>1, <1>2, <2>1, <2>2 DEF JobIsKnown, CoversAreTrue, PatchesAreServed
<1>3. CASE ~(run.busy \/ run.resized)
  <2>. DEFINE r == [run EXCEPT !.frame = FALSE, !.batch = 0]
  <2>1. Continue(r, TRUE) BY <1>3 DEF Frame
  <2>2. r \in EnhancementRun /\ r.stopped = run.stopped /\ r.resized = run.resized
    BY NoPatch DEF EnhancementRun
  <2>. HIDE DEF r
  <2>3. ~run.stopped /\ ~run.resized => \A q \in Patches : overlay'[q].covered \/ q \in grid.dirty
    BY <1>1, <1>3, NoPatch DEF PatchesAreServed
  <2>. QED BY <1>1, <2>1, <2>2, <2>3, ContinueInv
<1>. QED BY <1>2, <1>3

LEMMA RenderedInv ==
  ASSUME OverlayInv, NEW long \in BOOLEAN, NEW goOn \in BOOLEAN, Rendered(long, goOn)
  PROVE  OverlayInv'
<1>. USE DEF OverlayInv, OverlayTyped
<1>. DEFINE samples == Min({run.samples + 1, WarmUp + 1})
            slow == IF samples <= WarmUp THEN run.slow ELSE IF long THEN run.slow + 1 ELSE 0
            r == [run EXCEPT !.samples = samples, !.slow = slow]
<1>1. /\ job.patch # -1 /\ ~run.stopped /\ UNCHANGED <<mode, damages>>
      /\ IF slow >= SlowPatches
         THEN run' = Ended(r) /\ job' = [job EXCEPT !.patch = -1, !.true = FALSE] /\ UNCHANGED <<grid, overlay>>
         ELSE /\ Continue(r, goOn)
              /\ overlay' = IF IsCurrent(job) /\ ~run.resized
                            THEN [overlay EXCEPT ![job.patch] = [covered |-> TRUE, true |-> job.true]]
                            ELSE overlay
  BY DEF Rendered
<1>2. samples \in PatchCounts /\ slow \in PatchCounts
  <2>1. run.samples \in Nat /\ run.slow \in Nat /\ WarmUp \in Nat
    BY OverlayAssumption DEF EnhancementRun, PatchCounts
  <2>. DEFINE a == run.samples + 1
              b == WarmUp + 1
  <2>2. a \in Nat /\ b \in Nat BY <2>1
  <2>3. samples = Min({a, b}) OBVIOUS
  <2>. HIDE DEF a, b, samples
  <2>4. samples \in {a, b} BY <2>2, <2>3, TwoNumbers
  <2>5. samples \in Nat /\ slow \in Nat BY <2>1, <2>2, <2>4
  <2>. QED BY <2>5 DEF PatchCounts
<1>. HIDE DEF samples, slow
<1>3. r \in EnhancementRun /\ r.stopped = run.stopped /\ r.resized = run.resized
  BY <1>2 DEF EnhancementRun
<1>. HIDE DEF r
<1>4. CASE slow >= SlowPatches
  <2>1. run' = Ended(r) /\ job' = [job EXCEPT !.patch = -1, !.true = FALSE] /\ UNCHANGED <<grid, overlay>>
    BY <1>1, <1>4
  <2>2. run' \in EnhancementRun /\ run'.stopped BY <1>3, <2>1, NoPatch DEF Ended, EnhancementRun
  <2>3. job' \in PatchJob /\ job'.patch = -1 BY <2>1 DEF PatchJob
  <2>. QED BY <1>1, <2>1, <2>2, <2>3 DEF JobIsKnown, CoversAreTrue, PatchesAreServed
<1>5. CASE ~(slow >= SlowPatches)
  <2>1. Continue(r, goOn) BY <1>1, <1>5
  <2>2. job.patch \in Patches /\ job.true \in BOOLEAN /\ JobIsKnown(grid, job)
    BY <1>1 DEF PatchJob
  <2>3. IF IsCurrent(job) /\ ~run.resized
        THEN overlay' = [overlay EXCEPT ![job.patch] = [covered |-> TRUE, true |-> TRUE]]
        ELSE overlay' = overlay
    BY <1>1, <1>5, <2>2 DEF IsCurrent, JobIsKnown
  <2>4. [covered |-> TRUE, true |-> TRUE] \in Cover BY DEF Cover
  <2>5. overlay' \in [Patches -> Cover] BY <2>3, <2>4
  <2>6. CoversAreTrue(overlay') BY <2>2, <2>3 DEF CoversAreTrue
  <2>7. ~run.stopped /\ ~run.resized => \A q \in Patches : overlay'[q].covered \/ q \in grid.dirty
    BY <1>1, <2>2, <2>3 DEF PatchesAreServed, IsCurrent, JobIsKnown
  <2>. QED BY <1>1, <1>3, <2>1, <2>5, <2>6, <2>7, ContinueInv
<1>. QED BY <1>4, <1>5

LEMMA OverlaySteps == OverlayInv /\ [OverlayNext]_overlayVars => OverlayInv'
<1> SUFFICES ASSUME OverlayInv, [OverlayNext]_overlayVars PROVE OverlayInv' OBVIOUS
<1>1. CASE UNCHANGED overlayVars
  BY <1>1 DEF overlayVars, OverlayInv, OverlayTyped, JobIsKnown, CoversAreTrue, PatchesAreServed
<1>. QED BY <1>1, TimeInv, FrameInv, DamageInv, RenderedInv DEF OverlayNext

\* A patch of the overlay shows what was computed from the present pixels, and a
\* patch that shows nothing is dirty or in flight, with a turn, a frame or a
\* timer that will come: for every size, patch, halo and damage
\* (enhancement-run.ts:81-134, damage-grid.ts:31-47).
THEOREM SoundOverlay == OverlaySpec => []OverlayIsSound
<1>1. OverlayInv => OverlayIsSound BY DEF OverlayInv, OverlayIsSound, CoverIsTrue, CoversAreTrue
<1>. QED BY OverlayStarts, OverlaySteps, <1>1, PTL DEF OverlaySpec
-----------------------------------------------------------------------------
LEMMA Products ==
  ASSUME NEW a \in Nat, NEW b \in Nat, NEW c \in Nat, NEW d \in Nat, a <= b, c <= d
  PROVE  a * c <= b * d
<1>1. b - a \in Nat /\ d - c \in Nat OBVIOUS
<1>2. (b - a) * d \in Nat /\ a * (d - c) \in Nat BY <1>1
<1>3. b * d - a * c = (b - a) * d + a * (d - c) OBVIOUS
<1>4. b * d \in Nat /\ a * c \in Nat OBVIOUS
<1>. QED BY <1>2, <1>3, <1>4

\* Two sides that keep the budget for the wish's aspect keep it together.
LEMMA SidesKeepBudget ==
  ASSUME NEW w \in Nat, NEW h \in Nat, NEW dw \in Nat, NEW dh \in Nat, NEW b \in Nat,
         4 * w <= dw, 4 * h <= dh, w * w * dh <= dw * b, h * h * dw <= dh * b
  PROVE  w * h <= b
<1>. DEFINE area == w * h
            wish == dw * dh
<1>1. area \in Nat /\ wish \in Nat OBVIOUS
<1>2. CASE w = 0 \/ h = 0
  <2>1. area = 0 BY <1>2
  <2>. QED BY <2>1
<1>3. CASE w # 0 /\ h # 0
  <2>1. dw \in Nat \ {0} /\ dh \in Nat \ {0} BY <1>3
  <2>2. wish \in Nat \ {0} BY <2>1
  <2>3. (w * w * dh) * (h * h * dw) <= (dw * b) * (dh * b)
    <3>1. w * w * dh \in Nat /\ h * h * dw \in Nat /\ dw * b \in Nat /\ dh * b \in Nat OBVIOUS
    <3>. QED BY <3>1, Products
  <2>4. (w * w * dh) * (h * h * dw) = wish * (area * area) OBVIOUS
  <2>5. (dw * b) * (dh * b) = wish * (b * b) OBVIOUS
  <2>. HIDE DEF area, wish
  <2>6. wish * (area * area) <= wish * (b * b) BY <2>3, <2>4, <2>5
  <2>7. ASSUME area > b PROVE FALSE
    <3>1. b * b \in Nat /\ (b + 1) * (b + 1) \in Nat /\ area * area \in Nat /\ b * b < (b + 1) * (b + 1) BY <1>1
    <3>2. (b + 1) * (b + 1) <= area * area BY <1>1, <2>7, Products
    <3>3. b * b + 1 <= area * area BY <3>1, <3>2
    <3>4. wish * (b * b + 1) <= wish * (area * area) BY <1>1, <3>1, <3>3, Products
    <3>5. wish * (b * b + 1) = wish * (b * b) + wish BY <1>1
    <3>6. wish * (b * b) \in Nat /\ wish * (area * area) \in Nat BY <1>1, <3>1
    <3>. QED BY <2>2, <2>6, <3>4, <3>5, <3>6
  <2>8. area <= b BY <1>1, <2>7
  <2>. QED BY <2>8 DEF area
<1>. QED BY <1>2, <1>3

\* A side of the automatic size is the host's least, or keeps every bound.
LEMMA AutoSideIs ==
  ASSUME NEW dw \in Nat, NEW dh \in Nat, NEW align \in Nat \ {0},
         NEW min \in Nat, NEW max \in Nat, NEW other \in Nat, min <= max
  PROVE  /\ AutoSide(dw, dh, align, min, max, other) \in min..max
         /\ \/ AutoSide(dw, dh, align, min, max, other) = min
            \/ SideFits(AutoSide(dw, dh, align, min, max, other), dw, dh, max, other)
<1>. DEFINE K == {k \in 0..(max \div align) : SideFits(k * align, dw, dh, max, other)}
            k == Max(K)
            x == align * k
<1>1. max \div align \in Nat BY Division
<1>2. SideFits(0, dw, dh, max, other)
  <2>1. dw * other \in Nat /\ dw * PixelBudget \in Nat BY DisplayAssumption
  <2>2. 0 * dh = 0 /\ 0 * 0 = 0 /\ 4 * 0 = 0 OBVIOUS
  <2>. QED BY <2>1, <2>2 DEF SideFits
<1>3. 0 \in K
  <2>1. 0 * align = 0 OBVIOUS
  <2>. QED BY <1>1, <1>2, <2>1
<1>4. k \in K
  <2>1. K \in SUBSET (0..(max \div align)) /\ K # {} BY <1>3
  <2>. DEFINE n == max \div align
  <2>. HIDE DEF K, n
  <2>. QED BY <1>1, <2>1, Largest DEF n
<1>5. k \in Nat /\ SideFits(k * align, dw, dh, max, other) BY <1>4
<1>. HIDE DEF K, k
<1>6. x \in Nat /\ x = k * align BY <1>5
<1>7. SideFits(x, dw, dh, max, other) /\ x <= max BY <1>5, <1>6 DEF SideFits
<1>8. AutoSide(dw, dh, align, min, max, other) = Max({min, Min({max, x})})
  BY DEF AutoSide, Clamp, k, K
<1>. HIDE DEF x
<1>9. Min({max, x}) = x
  <2>1. Min({max, x}) \in {max, x} /\ Min({max, x}) <= x
    <3>1. max \in Int /\ x \in Int BY <1>6
    <3>. QED BY <3>1, TwoNumbers
  <2>. QED BY <1>6, <1>7, <2>1
<1>10. Max({min, x}) \in {min, x} /\ Max({min, x}) >= min
  <2>1. min \in Int /\ x \in Int BY <1>6
  <2>. QED BY <2>1, TwoNumbers
<1>. QED BY <1>6, <1>7, <1>8, <1>9, <1>10

\* What this viewer would have: a real size, at a real density.
LEMMA PreferredIs ==
  ASSUME NEW p \in Preferences, NEW view \in Viewports, NEW monitor \in Densities
  PROVE  /\ Layout(p, view, monitor, NoSize).size # NoSize
         /\ Layout(p, view, monitor, NoSize).scale # 0
         /\ p.resolution = Automatic =>
              LET s == Layout(p, view, monitor, NoSize).size
              IN /\ s.w \in MinWidth..MaxWidth /\ s.h \in MinHeight..MaxHeight
                 /\ s.w * s.h <= PixelBudget \/ s.w = MinWidth \/ s.h = MinHeight
                 /\ 4 * s.w <= view.w * Layout(p, view, monitor, NoSize).scale \/ s.w = MinWidth
<1>. DEFINE q == Density(p.density, monitor)
            dw == view.w * q
            dh == view.h * q
            width == AutoSide(dw, dh, AlignWidth, MinWidth, MaxWidth, MaxHeight)
            height == AutoSide(dh, dw, AlignHeight, MinHeight, MaxHeight, MaxWidth)
            layout == Layout(p, view, monitor, NoSize)
<1>1. view.w \in Nat /\ view.h \in Nat /\ monitor \in Nat /\ p.density \in Nat
  BY DisplayAssumption DEF Preferences
<1>2. q \in Nat \ {0}
  <2>1. CASE p.density = 1
    <3>. DEFINE m == Min({12, monitor})
    <3>0. 12 \in Int /\ monitor \in Int /\ 4 \in Int BY <1>1
    <3>1. m \in Int BY <3>0, TwoNumbers
    <3>. HIDE DEF m
    <3>2. Max({4, m}) \in Int /\ Max({4, m}) >= 4 BY <3>0, <3>1, TwoNumbers
    <3>3. q = Max({4, m}) BY <2>1 DEF Density, m
    <3>. HIDE DEF q
    <3>. QED BY <3>2, <3>3
  <2>2. CASE p.density = 0 BY <2>2 DEF Density
  <2>3. CASE p.density # 0 /\ p.density # 1 BY <1>1, <2>3 DEF Density
  <2>. QED BY <2>1, <2>2, <2>3
<1>. HIDE DEF q
<1>3. dw \in Nat /\ dh \in Nat BY <1>1, <1>2
<1>4. layout.scale = q BY DEF Layout, q
<1>5. /\ p.resolution # Automatic => layout.size = p.resolution
      /\ p.resolution = Automatic => layout.size = [w |-> width, h |-> height]
  <2>1. CASE p.resolution # Automatic
    <3>. HIDE DEF width, height
    <3>. QED BY <2>1 DEF Layout
  <2>2. CASE p.resolution = Automatic BY <2>2 DEF Layout, q
  <2>. QED BY <2>1, <2>2
<1>. HIDE DEF layout
<1>6. /\ width \in MinWidth..MaxWidth /\ height \in MinHeight..MaxHeight
      /\ width = MinWidth \/ SideFits(width, dw, dh, MaxWidth, MaxHeight)
      /\ height = MinHeight \/ SideFits(height, dh, dw, MaxHeight, MaxWidth)
  <2>. HIDE DEF dw, dh
  <2>. QED BY <1>3, AutoSideIs, DisplayAssumption
<1>7. width \in Nat \ {0} /\ height \in Nat /\ PixelBudget \in Nat BY <1>6, DisplayAssumption
<1>8. layout.size # NoSize
  <2>1. CASE p.resolution # Automatic BY <1>5, <2>1 DEF Automatic
  <2>2. CASE p.resolution = Automatic
    <3>1. layout.size.w = width BY <1>5, <2>2
    <3>2. NoSize.w = 0 BY DEF NoSize
    <3>. QED BY <1>7, <3>1, <3>2
  <2>. QED BY <2>1, <2>2
<1>9. width * height <= PixelBudget \/ width = MinWidth \/ height = MinHeight
  <2> SUFFICES ASSUME SideFits(width, dw, dh, MaxWidth, MaxHeight), SideFits(height, dh, dw, MaxHeight, MaxWidth)
               PROVE  width * height <= PixelBudget
    BY <1>6
  <2>. HIDE DEF width, height, dw, dh
  <2>1. 4 * width <= dw /\ 4 * height <= dh /\ width * width * dh <= dw * PixelBudget
        /\ height * height * dw <= dh * PixelBudget
    BY DEF SideFits
  <2>. QED BY <1>3, <1>7, <2>1, SidesKeepBudget
<1>10. 4 * width <= dw \/ width = MinWidth BY <1>6 DEF SideFits
<1>. HIDE DEF width, height
<1>11. CASE p.resolution # Automatic BY <1>2, <1>4, <1>8, <1>11 DEF layout
<1>12. CASE p.resolution = Automatic
  <2>1. layout.size = [w |-> width, h |-> height] BY <1>5, <1>12
  <2>2. layout.size.w = width /\ layout.size.h = height BY <2>1
  <2>. QED BY <1>2, <1>4, <1>6, <1>8, <1>9, <1>10, <2>2, <1>12 DEF layout
<1>. QED BY <1>11, <1>12

\* Outside the frame that tells it, what was applied is what the session has, or nothing.
ControlIs == control \in [attached : BOOLEAN, destroyed : BOOLEAN, state : States, size : {NoSize, sdk.size},
                          scale : {0, sdk.scale}, frame : BOOLEAN]
SdkIs == sdk = [size |-> sdk.size, scale |-> sdk.scale, sessions |-> sdk.sessions]
PlaceIs == place \in [view : Viewports, monitor : Densities, storage : BOOLEAN]
ToldNow == control.attached /\ ~control.destroyed /\ ~control.frame /\ Drawable(ShownLayout) =>
             sdk.size = Preferred.size /\ sdk.scale = Preferred.scale
GoneIsSilent == control.destroyed => ~control.frame
WishIsKept == choice \in Preferences /\ choice.resolution = intent
\* What a reload reads is the wish, where the storage works.
SavedIsWish == IF place.storage THEN \E p \in Preferences : ReadPreferences(saved) = p /\ p.resolution = intent
                                ELSE saved = {}
DisplayInv == ControlIs /\ SdkIs /\ PlaceIs /\ ToldNow /\ GoneIsSilent /\ WishIsKept /\ SavedIsWish

LEMMA DefaultsAre == Defaults \in Preferences /\ ReadPreferences({}) = Defaults
  BY DisplayAssumption DEF Defaults, Preferences, Automatic, NoSize, ReadPreferences
LEMMA DisplayStarts == DisplayInit => DisplayInv
<1> SUFFICES ASSUME DisplayInit PROVE DisplayInv OBVIOUS
<1>. USE DEF DisplayInit
<1>1. ControlIs /\ GoneIsSilent /\ ToldNow BY DEF ControlIs, GoneIsSilent, ToldNow, NewControl, States
<1>2. SdkIs /\ PlaceIs BY DEF SdkIs, PlaceIs
<1>3. WishIsKept /\ SavedIsWish BY DefaultsAre DEF WishIsKept, SavedIsWish
<1>. QED BY <1>1, <1>2, <1>3 DEF DisplayInv

LEMMA DisplaySteps == DisplayInv /\ [DisplayNext]_displayVars => DisplayInv'
<1> SUFFICES ASSUME DisplayInv, [DisplayNext]_displayVars PROVE DisplayInv' OBVIOUS
<1>. USE DEF DisplayInv
<1>. DEFINE Unmoved == UNCHANGED <<choice, saved, place, intent>>
            NotTold == ~(control'.attached /\ ~control'.destroyed /\ ~control'.frame)
<1>1. ASSUME Unmoved PROVE PlaceIs' /\ WishIsKept' /\ SavedIsWish'
  BY <1>1 DEF PlaceIs, WishIsKept, SavedIsWish
<1>2. ASSUME NotTold PROVE ToldNow' BY <1>2 DEF ToldNow
<1>3. ASSUME NEW c, c \in [attached : BOOLEAN, destroyed : BOOLEAN, state : States, size : {NoSize, sdk.size},
                           scale : {0, sdk.scale}, frame : BOOLEAN],
             c.destroyed = control.destroyed, control' = Framed(c), sdk' = sdk
      PROVE  ControlIs' /\ SdkIs' /\ GoneIsSilent' /\ NotTold
  BY <1>3 DEF Framed, ControlIs, SdkIs, GoneIsSilent
<1>4. ASSUME NEW state \in States, AttachSession(state) PROVE DisplayInv'
  <2>1. PICK view \in Viewports :
          sdk' = [size |-> Layout(choice, view, place.monitor, NoSize).size,
                  scale |-> Layout(choice, view, place.monitor, NoSize).scale, sessions |-> sdk.sessions + 1]
    BY <1>4 DEF AttachSession
  <2>2. control' = [attached |-> TRUE, destroyed |-> FALSE, state |-> state, size |-> NoSize, scale |-> 0, frame |-> TRUE]
    BY <1>4 DEF AttachSession, Framed, Anew, ControlIs
  <2>3. ControlIs' /\ GoneIsSilent' /\ NotTold BY <2>2 DEF ControlIs, GoneIsSilent
  <2>4. SdkIs' BY <2>1 DEF SdkIs
  <2>. QED BY <1>1, <1>2, <1>4, <2>3, <2>4 DEF AttachSession
<1>5. CASE Detach
  <2>. DEFINE c == [Anew(control) EXCEPT !.attached = FALSE, !.state = NoState]
  <2>1. c \in [attached : BOOLEAN, destroyed : BOOLEAN, state : States, size : {NoSize, sdk.size},
               scale : {0, sdk.scale}, frame : BOOLEAN] /\ c.destroyed = control.destroyed
    BY DEF ControlIs, Anew, States
  <2>2. control' = Framed(c) /\ sdk' = sdk /\ Unmoved BY <1>5 DEF Detach
  <2>. HIDE DEF c
  <2>. QED BY <1>1, <1>2, <1>3, <2>1, <2>2
<1>6. ASSUME NEW state \in States, StateChanges(state) PROVE DisplayInv'
  <2>. DEFINE c == [control EXCEPT !.state = state]
  <2>1. c \in [attached : BOOLEAN, destroyed : BOOLEAN, state : States, size : {NoSize, sdk.size},
               scale : {0, sdk.scale}, frame : BOOLEAN] /\ c.destroyed = control.destroyed
    BY DEF ControlIs
  <2>2. control' = Framed(c) /\ sdk' = sdk /\ Unmoved BY <1>6 DEF StateChanges
  <2>. HIDE DEF c
  <2>. QED BY <1>1, <1>2, <1>3, <2>1, <2>2
<1>7. CASE ScreenChanges
  <2>1. PICK view \in Viewports, monitor \in Densities : place' = [place EXCEPT !.view = view, !.monitor = monitor]
    BY <1>7 DEF ScreenChanges
  <2>2. UNCHANGED <<choice, saved, intent>> /\ control' = Framed(control) /\ sdk' = sdk BY <1>7 DEF ScreenChanges
  <2>3. PlaceIs' /\ place'.storage = place.storage BY <2>1 DEF PlaceIs
  <2>4. WishIsKept' /\ SavedIsWish' BY <2>2, <2>3 DEF WishIsKept, SavedIsWish
  <2>. QED BY <1>2, <1>3, <2>2, <2>3, <2>4 DEF ControlIs
<1>8. ASSUME NEW p \in Preferences, ChangePreferences(p) PROVE DisplayInv'
  <2>1. UNCHANGED <<place, sdk>> /\ control' = Framed(control) BY <1>8 DEF ChangePreferences
  <2>2. PlaceIs' BY <2>1 DEF PlaceIs
  <2>3. choice' = Chosen(p) /\ intent' = IF Locked THEN intent ELSE p.resolution BY <1>8 DEF ChangePreferences
  <2>4. WishIsKept' BY <2>3 DEF WishIsKept, Chosen, Preferences
  <2>5. SavedIsWish'
    <3>1. ReadPreferences({choice'}) = choice' BY DEF ReadPreferences
    <3>2. saved' = IF place.storage THEN {choice'} ELSE saved BY <1>8 DEF ChangePreferences
    <3>. QED BY <2>1, <2>4, <3>1, <3>2 DEF SavedIsWish, WishIsKept
  <2>. QED BY <1>2, <1>3, <2>1, <2>2, <2>4, <2>5 DEF ControlIs
<1>9. CASE DestroyControl
  <2>1. Unmoved /\ sdk' = sdk /\ control' = TornDown(control) BY <1>9 DEF DestroyControl
  <2>2. ControlIs' /\ SdkIs' /\ GoneIsSilent' /\ NotTold
    BY <2>1 DEF ControlIs, SdkIs, GoneIsSilent, TornDown
  <2>. QED BY <1>1, <1>2, <2>1, <2>2
<1>10. CASE Reload
  <2>1. UNCHANGED <<saved, place, sdk>> /\ control' = NewControl /\ choice' = ReadPreferences(saved)
        /\ intent' = IF place.storage THEN intent ELSE choice'.resolution
    BY <1>10 DEF Reload
  <2>2. ControlIs' /\ SdkIs' /\ GoneIsSilent' /\ NotTold
    BY <2>1 DEF ControlIs, SdkIs, GoneIsSilent, NewControl, States
  <2>3. PlaceIs' BY <2>1 DEF PlaceIs
  <2>4. WishIsKept' /\ SavedIsWish'
    <3>1. CASE place.storage BY <2>1, <3>1 DEF WishIsKept, SavedIsWish
    <3>2. CASE ~place.storage BY <2>1, <3>2, DefaultsAre DEF WishIsKept, SavedIsWish
    <3>. QED BY <3>1, <3>2
  <2>. QED BY <1>2, <2>2, <2>3, <2>4
<1>11. CASE UpdateLayout
  <2>1. Unmoved /\ control.frame /\ ~control.destroyed BY <1>11 DEF UpdateLayout, GoneIsSilent
  <2>2. CASE control.attached /\ Drawable(ShownLayout)
    <3>. DEFINE size == Preferred.size
                scale == Preferred.scale
    <3>1. size # NoSize /\ scale # 0 BY PreferredIs DEF Preferred, PlaceIs, WishIsKept
    <3>2. PICK state \in {control.state} \cup States :
            control' = [control EXCEPT !.size = size, !.scale = scale, !.state = state,
                                       !.frame = state # control.state]
      BY <1>11, <2>2 DEF UpdateLayout, Told
    <3>3. sdk' = [sdk EXCEPT !.size = IF control.size = size THEN sdk.size ELSE size,
                             !.scale = IF control.scale = scale THEN sdk.scale ELSE scale]
      BY <1>11, <2>2 DEF UpdateLayout, Told
    <3>4. Preferred' = Preferred BY <2>1 DEF Preferred
    <3>. HIDE DEF size, scale
    <3>5. sdk'.size = size /\ sdk'.scale = scale /\ SdkIs' BY <3>1, <3>3 DEF ControlIs, SdkIs
    <3>6. ControlIs' /\ GoneIsSilent'
      <4>1. state \in States BY DEF ControlIs
      <4>. QED BY <2>1, <3>2, <3>5, <4>1 DEF ControlIs, GoneIsSilent
    <3>7. ToldNow' BY <3>4, <3>5 DEF ToldNow, size, scale
    <3>. QED BY <1>1, <2>1, <3>5, <3>6, <3>7
  <2>3. CASE ~(control.attached /\ Drawable(ShownLayout))
    <3>1. control' = [control EXCEPT !.frame = FALSE] /\ sdk' = sdk BY <1>11, <2>3 DEF UpdateLayout
    <3>2. ControlIs' /\ SdkIs' /\ GoneIsSilent' /\ control'.attached = control.attached /\ control'.state = control.state
      BY <3>1 DEF ControlIs, SdkIs, GoneIsSilent
    <3>3. ShownLayout' = ShownLayout BY <2>1, <3>2 DEF ShownLayout, Locked
    <3>4. ToldNow' BY <2>3, <3>2, <3>3 DEF ToldNow
    <3>. QED BY <1>1, <2>1, <3>2, <3>4
  <2>. QED BY <2>2, <2>3
<1>12. CASE UNCHANGED displayVars
  BY <1>12 DEF displayVars, ControlIs, SdkIs, PlaceIs, ToldNow, GoneIsSilent, WishIsKept, SavedIsWish, ShownLayout, Preferred, Locked
<1>. QED BY <1>4, <1>5, <1>6, <1>7, <1>8, <1>9, <1>10, <1>11, <1>12 DEF DisplayNext

\* Between two frames the session knows the size this viewer wants now, also
\* while another viewer owns the capture; a page that was left tells it nothing
\* more; the saved choice is the person's; and the automatic size keeps within
\* the budget, the host's sides and the wish, but for the host's minima: for
\* every viewport, density, preset and bound (display-controller.ts:81-163,
\* display-settings.ts:124-137).
THEOREM SoundDisplay == DisplaySpec => []DisplayIsCurrent
<1>1. DisplayInv => DisplayIsCurrent
  <2> SUFFICES ASSUME DisplayInv PROVE DisplayIsCurrent OBVIOUS
  <2>1. choice \in Preferences /\ place.view \in Viewports /\ place.monitor \in Densities
    BY DEF DisplayInv, WishIsKept, PlaceIs
  <2>. DEFINE layout == Layout(choice, place.view, place.monitor, NoSize)
  <2>2. choice.resolution = Automatic =>
          /\ layout.size.w \in MinWidth..MaxWidth /\ layout.size.h \in MinHeight..MaxHeight
          /\ layout.size.w * layout.size.h <= PixelBudget \/ layout.size.w = MinWidth \/ layout.size.h = MinHeight
          /\ 4 * layout.size.w <= place.view.w * layout.scale \/ layout.size.w = MinWidth
    BY <2>1, PreferredIs
  <2>3. Preferred = layout BY DEF Preferred
  <2>. HIDE DEF layout
  <2>. QED BY <2>2, <2>3 DEF DisplayIsCurrent, DisplayInv, ToldNow, GoneIsSilent, WishIsKept
<1>. QED BY <1>1, DisplayStarts, DisplaySteps, PTL DEF DisplaySpec
=============================================================================
