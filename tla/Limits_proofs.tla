---------------------------- MODULE Limits_proofs ----------------------------
(***************************************************************************)
(* The parts that live by slots, times and budgets, for every value of     *)
(* their constants.                                                        *)
(*                                                                         *)
(* The snapshot pool, for any number of slots, any sizes and any bounds:   *)
(* the invariant is inductive as the runs check it, a tile that counts as  *)
(* clean is current, and the holder's tokens are exactly the busy slots.   *)
(*                                                                         *)
(* The present clock, for any frame rate, any units of time and any number *)
(* of clients: no event is early or forgotten.  The invariant is inductive *)
(* as the runs check it; what it needs is the arithmetic of a division     *)
(* that rounds down for frames and up for timers.                          *)
(*                                                                         *)
(* The ledger keeps its promises for every set of policies within the      *)
(* accepted ranges and every sequence of clock readings.  Its invariant    *)
(* says that the row summarises the whole history of its site: its last    *)
(* time, its cooldown and its window cover every event, and its count is   *)
(* the number of admissions of its window.                                 *)
(*                                                                         *)
(* A run waits for its budget at the most, a cancelled one for a slice,    *)
(* and the bound of its loop is spare, for every budget, slice and         *)
(* lateness.  The argument follows what is left of a wait: the time to the *)
(* deadline and what was waited make up the budget; and as long as nobody  *)
(* disturbs the site, each try but the last has slept a whole slice.       *)
(***************************************************************************)
EXTENDS LeasePool, PresentClock, PacingLedger, WorkflowPacer, FiniteSetTheorems, TLAPS

IInv == TypeOK /\ CleanIsCurrent /\ HeldMatches /\ LeasesAreHeld

\* The display never has a tile outside Tiles.
LEMMA SizeIsTiles == ASSUME TypeOK PROVE size \subseteq Tiles /\ screen \subseteq Tiles
BY DEF TypeOK, Tiles

\* What a slot's pixmap shows after the copy is an image.
LEMMA CopiedType ==
  ASSUME TypeOK, NEW s \in Slots
  PROVE /\ Base(s) \in [Tiles -> Nat] /\ Copied(s) \in [Tiles -> Nat]
        /\ Copied(s) = [t \in Tiles |-> IF t \in dirty[s] \cap size THEN root[t] ELSE Base(s)[t]]
<1>1. root \in [Tiles -> Nat] /\ pixmap[s] \in [Tiles -> Nat] BY DEF TypeOK
<1>2. Base(s) \in [Tiles -> Nat] BY <1>1 DEF Base
<1>. QED BY <1>1, <1>2 DEF Copied

\* After the copy the slot shows the screen, whatever the slot held before:
\* what was not dirty was current already (lease-copy.c:37).
LEMMA CopiedIsCurrent ==
  ASSUME TypeOK, CleanIsCurrent, NEW s \in Slots, NEW t \in size
  PROVE Copied(s)[t] = root[t]
<1>1. t \in Tiles BY SizeIsTiles
<1>2. CASE t \in dirty[s] BY <1>1, <1>2 DEF Copied
<1>3. CASE t \notin dirty[s]
  <2>1. pixmapSize[s] = size /\ pixmap[s][t] = root[t] BY <1>3 DEF CleanIsCurrent
  <2>. QED BY <2>1, <1>1, <1>3 DEF Copied, Base
<1>. QED BY <1>2, <1>3

\* Nobody holds a token of a free slot.
LEMMA FreeIsUnheld ==
  ASSUME HeldMatches, NEW s \in FreeSlots, NEW a \in held
  PROVE a.slot # s
BY DEF HeldMatches, Matches, FreeSlots

\* A token names its slot, number and generation.
LEMMA GivenType ==
  ASSUME TypeOK, NEW s \in Slots, serial < MaxSerial
  PROVE /\ Given(s) \in Token /\ serial + 1 \in 1..MaxSerial
        /\ Given(s).slot = s /\ Given(s).lease = serial + 1 /\ Given(s).generation = generation
BY CountAssumption DEF TypeOK, Given, Token
-----------------------------------------------------------------------------
LEMMA InitInvariant == Init => IInv
<1> SUFFICES ASSUME Init PROVE IInv OBVIOUS
<1>1. TypeOK BY CountAssumption DEF Init, TypeOK, Slots
<1>2. CleanIsCurrent BY SizeIsTiles, <1>1 DEF Init, CleanIsCurrent
<1>3. HeldMatches /\ LeasesAreHeld BY DEF Init, HeldMatches, LeasesAreHeld
<1>. QED BY <1>1, <1>2, <1>3 DEF IInv

\* Painting makes every slot's copy of the painted tiles stale, and marks it so.
LEMMA PaintInvariant ==
  ASSUME IInv, NEW ts \in SUBSET screen, Paint(ts) PROVE IInv'
<1>. USE DEF IInv
<1>1. root' = [t \in Tiles |-> IF t \in ts THEN paints + 1 ELSE root[t]] BY DEF Paint, Drawn
<1>2. TypeOK' BY <1>1, SizeIsTiles DEF TypeOK, Paint, Drawn
<1>3. CleanIsCurrent'
  <2> SUFFICES ASSUME NEW s \in Slots, NEW t \in size \ dirty'[s]
               PROVE pixmapSize[s] = size /\ pixmap[s][t] = root'[t]
    BY DEF CleanIsCurrent, Paint
  <2>1. dirty'[s] = dirty[s] \cup (ts \cap size) BY DEF Paint
  <2>2. t \notin ts /\ t \notin dirty[s] /\ t \in Tiles BY <2>1, SizeIsTiles
  <2>. QED BY <1>1, <2>2 DEF CleanIsCurrent
<1>4. HeldMatches' /\ LeasesAreHeld' BY DEF HeldMatches, LeasesAreHeld, Matches, Paint
<1>. QED BY <1>2, <1>3, <1>4

LEMMA ResizeInvariant ==
  ASSUME IInv, NEW new \in Sizes \cup {{}}, Resize(new) PROVE IInv'
<1>. USE DEF IInv
<1>1. root' = [t \in Tiles |-> IF t \in Tiles THEN paints + 1 ELSE root[t]] BY DEF Resize, Drawn
<1>2. TypeOK'
  <2>1. CASE generation < MaxGeneration
    <3>1. generation' \in 0..MaxGeneration /\ size' = new /\ dirty' = [s \in Slots |-> Tiles]
      BY <2>1, CountAssumption DEF TypeOK, Resize
    <3>. QED BY <1>1, <3>1 DEF TypeOK, Resize, Drawn
  <2>2. CASE ~(generation < MaxGeneration)
    BY <1>1, <2>2 DEF TypeOK, Resize, Drawn
  <2>. QED BY <2>1, <2>2
<1>3. CleanIsCurrent'
  <2>1. \A s \in Slots : size' \ dirty'[s] = {}
    <3>1. new \subseteq Tiles BY DEF Tiles
    <3>. QED BY <3>1 DEF Resize
  <2>. QED BY <2>1 DEF CleanIsCurrent
<1>4. HeldMatches' /\ LeasesAreHeld' BY DEF HeldMatches, LeasesAreHeld, Matches, Resize
<1>. QED BY <1>2, <1>3, <1>4

\* A new lease takes a free slot, so it disturbs no other holder, and leaves
\* the slot with the screen's image.
LEMMA AcquireInvariant ==
  ASSUME IInv, NEW c \in Clients, NEW s \in Slots, Acquire(c, s) PROVE IInv'
<1>. USE DEF IInv
<1>1. s \in FreeSlots /\ serial < MaxSerial BY DEF Acquire, CanBegin
<1>2. /\ Given(s) \in Token /\ serial + 1 \in 1..MaxSerial
      /\ Given(s).slot = s /\ Given(s).lease = serial + 1 /\ Given(s).generation = generation
  BY <1>1, GivenType
<1>3. TypeOK' BY <1>2, CopiedType DEF TypeOK, Acquire, screenVars
<1>4. CleanIsCurrent'
  <2> SUFFICES ASSUME NEW q \in Slots, NEW t \in size \ dirty'[q]
               PROVE pixmapSize'[q] = size /\ pixmap'[q][t] = root[t]
    BY DEF CleanIsCurrent, Acquire, screenVars
  <2>1. CASE q = s
    <3>1. pixmapSize'[q] = size /\ pixmap'[q] = Copied(s) BY <2>1 DEF Acquire, TypeOK
    <3>. QED BY <3>1, CopiedIsCurrent
  <2>2. CASE q # s
    <3>1. dirty'[q] = dirty[q] /\ pixmapSize'[q] = pixmapSize[q] /\ pixmap'[q] = pixmap[q]
      BY <2>2 DEF Acquire, TypeOK
    <3>. QED BY <3>1 DEF CleanIsCurrent
  <2>. QED BY <2>1, <2>2
<1>5. /\ lease'[s] = serial + 1 /\ slotGen'[s] = generation
      /\ \A q \in Slots \ {s} : lease'[q] = lease[q] /\ slotGen'[q] = slotGen[q]
      /\ held' = held \cup {Given(s)}
  BY DEF Acquire, TypeOK
<1>6. HeldMatches'
  <2> SUFFICES ASSUME NEW a \in held' PROVE Matches(a)' BY DEF HeldMatches
  <2>1. CASE a = Given(s) BY <1>2, <1>5, <2>1 DEF Matches, TypeOK
  <2>2. CASE a \in held
    <3>1. a.slot # s /\ Matches(a) BY <1>1, <2>2, FreeIsUnheld DEF HeldMatches
    <3>. QED BY <1>5, <3>1 DEF Matches
  <2>. QED BY <1>5, <2>1, <2>2
<1>7. LeasesAreHeld'
  <2>1. ASSUME NEW a \in held', NEW b \in held', a.slot = b.slot PROVE a = b
    BY <1>1, <1>2, <1>5, <2>1, FreeIsUnheld DEF LeasesAreHeld
  <2>2. ASSUME NEW q \in Slots, lease'[q] # 0 PROVE \E a \in held' : a.slot = q /\ a.lease = lease'[q]
    <3>1. CASE q = s BY <1>2, <1>5, <3>1
    <3>2. CASE q # s BY <1>5, <2>2, <3>2 DEF LeasesAreHeld
    <3>. QED BY <3>1, <3>2
  <2>. QED BY <2>1, <2>2 DEF LeasesAreHeld
<1>. QED BY <1>3, <1>4, <1>6, <1>7

\* A failed acquire leaves no lease, and marks nothing clean that it copied.
LEMMA AcquireFailsInvariant ==
  ASSUME IInv, NEW c \in Clients, NEW s \in Slots, AcquireFails(c, s) PROVE IInv'
<1>. USE DEF IInv
<1>1. s \in FreeSlots /\ serial < MaxSerial BY DEF AcquireFails, CanBegin
<1>2. serial + 1 \in 1..MaxSerial BY <1>1, GivenType
<1>3. \/ pixmap' = pixmap
      \/ pixmap' = [pixmap EXCEPT ![s] = Base(s)]
      \/ pixmap' = [pixmap EXCEPT ![s] = Copied(s)]
  BY DEF AcquireFails, HalfCopied
<1>4. TypeOK'
  <2>1. pixmap' \in [Slots -> [Tiles -> Nat]] BY <1>3, CopiedType DEF TypeOK
  <2>2. size \in Sizes \cup {{}} BY DEF TypeOK
  <2>3. pixmapSize' \in [Slots -> Sizes \cup {{}}] BY <2>2 DEF AcquireFails, HalfCopied, TypeOK
  <2>4. slotGen' \in [Slots -> 0..MaxGeneration] /\ serial' \in 0..MaxSerial
    BY <1>2, CountAssumption DEF AcquireFails, TypeOK
  <2>. QED BY <2>1, <2>3, <2>4 DEF TypeOK, AcquireFails, screenVars
<1>5. CleanIsCurrent'
  <2> SUFFICES ASSUME NEW q \in Slots, NEW t \in size \ dirty[q]
               PROVE pixmapSize'[q] = size /\ pixmap'[q][t] = root[t]
    BY DEF CleanIsCurrent, AcquireFails, screenVars
  <2>1. pixmapSize[q] = size /\ pixmap[q][t] = root[t] BY DEF CleanIsCurrent
  <2>2. CASE q = s
    <3>1. pixmapSize'[q] = size BY <2>1, <2>2 DEF AcquireFails, HalfCopied, TypeOK
    <3>2. pixmap'[q] = pixmap[q] \/ pixmap'[q] = Base(s) \/ pixmap'[q] = Copied(s)
      BY <1>3, <2>2 DEF TypeOK
    <3>3. Base(s)[t] = root[t] BY <2>1, <2>2 DEF Base
    <3>4. Copied(s)[t] = root[t] BY CopiedIsCurrent
    <3>. QED BY <2>1, <3>1, <3>2, <3>3, <3>4
  <2>3. CASE q # s
    <3>1. pixmapSize'[q] = pixmapSize[q] /\ pixmap'[q] = pixmap[q]
      BY <2>3 DEF AcquireFails, HalfCopied, TypeOK
    <3>. QED BY <2>1, <3>1
  <2>. QED BY <2>2, <2>3
<1>6. HeldMatches'
  <2> SUFFICES ASSUME NEW a \in held PROVE Matches(a)' BY DEF HeldMatches, AcquireFails
  <2>1. a.slot # s /\ Matches(a) BY <1>1, FreeIsUnheld DEF HeldMatches
  <2>. QED BY <2>1 DEF Matches, AcquireFails, TypeOK
<1>7. LeasesAreHeld' BY DEF LeasesAreHeld, AcquireFails
<1>. QED BY <1>4, <1>5, <1>6, <1>7

LEMMA ReleaseInvariant ==
  ASSUME IInv, NEW c \in Clients, NEW token \in held, Release(c, token) PROVE IInv'
<1>. USE DEF IInv
<1>1. token.slot \in Slots BY DEF Release, Matches
<1>2. TypeOK' BY <1>1, CountAssumption DEF TypeOK, Release, screenVars
<1>3. CleanIsCurrent' BY DEF CleanIsCurrent, Release, screenVars
<1>4. /\ lease'[token.slot] = 0
      /\ \A q \in Slots \ {token.slot} : lease'[q] = lease[q]
      /\ slotGen' = slotGen /\ held' = held \ {token}
  BY <1>1 DEF Release, TypeOK
<1>5. ASSUME NEW a \in held' PROVE a.slot # token.slot /\ Matches(a)
  BY <1>4, <1>5 DEF LeasesAreHeld, HeldMatches
<1>6. HeldMatches' BY <1>4, <1>5 DEF HeldMatches, Matches
<1>7. LeasesAreHeld'
  <2>1. ASSUME NEW a \in held', NEW b \in held', a.slot = b.slot PROVE a = b
    BY <1>4, <2>1 DEF LeasesAreHeld
  <2>2. ASSUME NEW q \in Slots, lease'[q] # 0 PROVE \E a \in held' : a.slot = q /\ a.lease = lease'[q]
    BY <1>4, <2>2 DEF LeasesAreHeld
  <2>. QED BY <2>1, <2>2 DEF LeasesAreHeld
<1>. QED BY <1>2, <1>3, <1>6, <1>7

LEMMA GoneInvariant ==
  ASSUME IInv, NEW c \in Clients, Gone(c) PROVE IInv'
<1>. USE DEF IInv
<1>1. TypeOK' BY CountAssumption DEF TypeOK, Gone, FreshPool
<1>2. CleanIsCurrent' BY SizeIsTiles DEF CleanIsCurrent, Gone, FreshPool
<1>3. HeldMatches' /\ LeasesAreHeld' BY DEF HeldMatches, LeasesAreHeld, Gone, FreshPool
<1>. QED BY <1>1, <1>2, <1>3

LEMMA NextInvariant == IInv /\ [Next]_vars => IInv'
<1> SUFFICES ASSUME IInv, [Next]_vars PROVE IInv' OBVIOUS
<1>1. CASE UNCHANGED vars
  BY <1>1 DEF IInv, TypeOK, CleanIsCurrent, HeldMatches, LeasesAreHeld, Matches,
              vars, poolVars, screenVars
<1>2. CASE Next
  BY <1>2, PaintInvariant, ResizeInvariant, AcquireInvariant, AcquireFailsInvariant,
     ReleaseInvariant, GoneInvariant DEF Next
<1>. QED BY <1>1, <1>2

THEOREM Invariant == Spec => []IInv
BY InitInvariant, NextInvariant, PTL DEF Spec
-----------------------------------------------------------------------------
\* Every variable of the pool has its type.
THEOREM PoolTypeCorrect == Spec => []TypeOK
<1>1. IInv => TypeOK BY DEF IInv
<1>. QED BY <1>1, Invariant, PTL

\* No paint, resize, failed export or reset leaves a tile that counts as clean
\* and is stale (lease.rs:58, :89; lease-copy.c:37).
THEOREM NoStaleTile == Spec => []CleanIsCurrent
<1>1. IInv => CleanIsCurrent BY DEF IInv
<1>. QED BY <1>1, Invariant, PTL

\* Whoever holds a lease can give it back (lease.rs:89).
THEOREM HoldersCanRelease == Spec => []HeldMatches
<1>1. IInv => HeldMatches BY DEF IInv
<1>. QED BY <1>1, Invariant, PTL

\* Busy slots and held tokens are the same thing (lease-extension.c:37).
THEOREM NoLeak == Spec => []LeasesAreHeld
<1>1. IInv => LeasesAreHeld BY DEF IInv
<1>. QED BY <1>1, Invariant, PTL

\* One step never changes the image under a lease, and a lease that is given
\* out shows the screen.
LEMMA StepFreezes ==
  ASSUME IInv, [Next]_vars, NEW s \in Slots
  PROVE /\ lease[s] # 0 /\ lease'[s] = lease[s] =>
             pixmap'[s] = pixmap[s] /\ pixmapSize'[s] = pixmapSize[s]
        /\ lease[s] = 0 /\ lease'[s] # 0 => \A t \in size : pixmap'[s][t] = root[t]
<1>. USE DEF IInv
<1>1. CASE UNCHANGED vars BY <1>1 DEF vars, poolVars
<1>2. ASSUME NEW ts \in SUBSET screen, Paint(ts) PROVE lease' = lease /\ pixmap' = pixmap /\ pixmapSize' = pixmapSize
  BY <1>2 DEF Paint
<1>3. ASSUME NEW new \in Sizes \cup {{}}, Resize(new) PROVE lease' = lease /\ pixmap' = pixmap /\ pixmapSize' = pixmapSize
  BY <1>3 DEF Resize
<1>4. ASSUME NEW c \in Clients, NEW q \in Slots, Acquire(c, q)
      PROVE IF s = q THEN lease[s] = 0 /\ \A t \in size : pixmap'[s][t] = root[t]
            ELSE lease'[s] = lease[s] /\ pixmap'[s] = pixmap[s] /\ pixmapSize'[s] = pixmapSize[s]
  <2>1. CASE s = q
    <3>1. pixmap'[s] = Copied(s) /\ lease[s] = 0 BY <1>4, <2>1 DEF Acquire, CanBegin, FreeSlots, TypeOK
    <3>. QED BY <2>1, <3>1, CopiedIsCurrent
  <2>2. CASE s # q BY <1>4, <2>2 DEF Acquire, TypeOK
  <2>. QED BY <2>1, <2>2
<1>5. ASSUME NEW c \in Clients, NEW q \in Slots, AcquireFails(c, q)
      PROVE /\ lease' = lease
            /\ lease[s] = 0 \/ (pixmap'[s] = pixmap[s] /\ pixmapSize'[s] = pixmapSize[s])
  <2>1. lease' = lease /\ lease[q] = 0 BY <1>5 DEF AcquireFails, CanBegin, FreeSlots
  <2>2. CASE s = q BY <2>1, <2>2
  <2>3. CASE s # q BY <1>5, <2>1, <2>3 DEF AcquireFails, HalfCopied, TypeOK
  <2>. QED BY <2>2, <2>3
<1>6. ASSUME NEW c \in Clients, NEW token \in held, Release(c, token)
      PROVE /\ lease'[s] \in {0, lease[s]} /\ pixmap' = pixmap /\ pixmapSize' = pixmapSize
  BY <1>6 DEF Release, TypeOK
<1>7. ASSUME NEW c \in Clients, Gone(c) PROVE lease'[s] = 0
  BY <1>7 DEF Gone, FreshPool
<1>. QED BY <1>1, <1>2, <1>3, <1>4, <1>5, <1>6, <1>7 DEF Next

\* The image under a lease is the screen of the moment it was given out, and
\* stays so until it is given back (lease.rs:2).
THEOREM Frozen == Spec => LeasedIsFrozen
<1>1. ASSUME IInv, [Next]_vars
      PROVE \A s \in Slots :
              /\ lease[s] # 0 /\ lease'[s] = lease[s] =>
                   pixmap'[s] = pixmap[s] /\ pixmapSize'[s] = pixmapSize[s]
              /\ lease[s] = 0 /\ lease'[s] # 0 => \A t \in size : pixmap'[s][t] = root[t]
  BY <1>1, StepFreezes
<1>. QED BY <1>1, Invariant, PTL DEF Spec, LeasedIsFrozen

\* The four state properties together: what the run checks.
THEOREM PoolSound == Spec => []PoolIsSound
<1>1. IInv => PoolIsSound BY DEF IInv, PoolIsSound
<1>. QED BY <1>1, Invariant, PTL

-----------------------------------------------------------------------------

\* What a quotient is.
LEMMA Quotient ==
  ASSUME NEW a \in Nat, NEW b \in Nat \ {0}
  PROVE a \div b \in Nat /\ b * (a \div b) <= a /\ a < b * (a \div b) + b
OBVIOUS

\* A quotient that is rounded up.
LEMMA QuotientUp ==
  ASSUME NEW a \in Nat, NEW b \in Nat \ {0}
  PROVE RoundedUp(a, b) \in Nat /\ a <= b * RoundedUp(a, b) /\ b * RoundedUp(a, b) < a + b
<1>1. a + b - 1 \in Nat OBVIOUS
<1>. QED BY <1>1, Quotient DEF RoundedUp

\* A timer that is set for the time that is left, counted in whole units from
\* the present one, is set for no later than the unit the time ends in.
LEMMA SetInTime ==
  ASSUME NEW t \in Nat, NEW due \in Nat, NEW m \in Nat \ {0}, t <= due
  PROVE (t \div m) + RoundedUp(due - t, m) <= RoundedUp(due, m)
<1> DEFINE n == t \div m
           k == RoundedUp(due - t, m)
           u == RoundedUp(due, m)
<1>1. n \in Nat /\ m * n <= t BY Quotient
<1>2. k \in Nat /\ m * k < due - t + m
  <2>1. due - t \in Nat OBVIOUS
  <2>. QED BY <2>1, QuotientUp
<1>3. u \in Nat /\ due <= m * u BY QuotientUp
<1> HIDE DEF n, k, u
<1>4. m * (n + k) < m * (u + 1)
  <2>1. m * (n + k) = m * n + m * k /\ m * (u + 1) = m * u + m BY <1>1, <1>2, <1>3
  <2>2. m * n \in Nat /\ m * k \in Nat /\ m * u \in Nat BY <1>1, <1>2, <1>3
  <2>. QED BY <2>1, <2>2, <1>1, <1>2, <1>3
<1>5. n + k < u + 1 BY <1>4, <1>1, <1>2, <1>3
<1>. QED BY <1>5, <1>1, <1>2, <1>3 DEF n, k, u

\* Both quotients grow with what is divided.
LEMMA QuotientGrows ==
  ASSUME NEW a \in Nat, NEW c \in Nat, NEW b \in Nat \ {0}, a <= c
  PROVE RoundedUp(a, b) <= RoundedUp(c, b)
<1> DEFINE q == RoundedUp(a, b)
           r == RoundedUp(c, b)
<1>1. q \in Nat /\ b * q < a + b BY QuotientUp
<1>2. r \in Nat /\ c <= b * r BY QuotientUp
<1> HIDE DEF q, r
<1>3. b * q < b * (r + 1)
  <2>1. b * (r + 1) = b * r + b /\ b * q \in Nat /\ b * r \in Nat BY <1>1, <1>2
  <2>. QED BY <2>1, <1>1, <1>2
<1>4. q < r + 1 BY <1>3, <1>1, <1>2
<1>. QED BY <1>4, <1>1, <1>2 DEF q, r

\* A frame that is counted has begun, by this clock and by every later one.
LEMMA FrameHasBegun ==
  ASSUME NEW t \in Nat, NEW u \in Nat, t <= u
  PROVE Msc(t) \in Nat /\ Msc(t) * Second <= u * Hz
<1>1. t * Hz \in Nat /\ t * Hz <= u * Hz BY ClockAssumption
<1>2. Msc(t) \in Nat /\ Second * Msc(t) <= t * Hz BY <1>1, Quotient, ClockAssumption DEF Msc
<1>3. Msc(t) * Second = Second * Msc(t) /\ u * Hz \in Nat /\ Second * Msc(t) \in Nat
  BY <1>2, ClockAssumption
<1>. QED BY <1>1, <1>2, <1>3

LEMMA DueType == ASSUME NEW f \in Nat PROVE DueAt(f) \in Nat
<1>1. f * Second \in Nat BY ClockAssumption
<1>. QED BY <1>1, QuotientUp, ClockAssumption DEF DueAt

\* A timer that is set for one event of the earliest frame is in time for every event.
LEMMA WokenInTime ==
  ASSUME PresentInv, NEW queue \in [VblankIds -> Targets \cup {NoFrame}],
         NEW e \in Earliest(queue), NEW i \in VblankIds, queue[i] # NoFrame
  PROVE /\ Woken(queue[e]) \in Nat
        /\ Woken(queue[e]) <= Greater(RoundedUp(DueAt(queue[i]), Milli), micro \div Milli + 1)
<1> DEFINE f == queue[e]
           g == queue[i]
           n == micro \div Milli
           left == Greater(DueAt(f) - micro, 0)
           k == RoundedUp(left, Milli)
<1>1. f \in Nat /\ g \in Nat /\ f <= g BY ClockAssumption DEF Earliest
<1>2. micro \in Nat /\ vblank.last \in Nat /\ vblank.last <= micro
  BY DEF PresentInv, PresentTypeOK, NeverEarly
<1>3. Sampled(micro) = micro BY <1>2 DEF Sampled, Greater
<1>4. DueAt(f) \in Nat /\ DueAt(g) \in Nat BY <1>1, DueType
<1>5. n \in Nat BY <1>2, Quotient, ClockAssumption
<1>6. left \in Nat /\ k \in Nat
  <2>1. left \in Nat BY <1>2, <1>4 DEF Greater
  <2>. QED BY <2>1, QuotientUp, ClockAssumption
<1>7. Woken(f) \in Nat /\ Woken(f) <= Greater(n + k, n + 1)
  <2>1. Woken(f) = n + Lesser(Greater(k, 1), LongestDelay) BY <1>3 DEF Woken, SetFor, DelayMs
  <2>. QED BY <2>1, <1>5, <1>6, ClockAssumption DEF Lesser, Greater
<1>8. RoundedUp(DueAt(f), Milli) <= RoundedUp(DueAt(g), Milli) /\ RoundedUp(DueAt(f), Milli) \in Nat
      /\ RoundedUp(DueAt(g), Milli) \in Nat
  <2>1. f * Second \in Nat /\ g * Second \in Nat /\ f * Second <= g * Second BY <1>1, ClockAssumption
  <2>2. DueAt(f) <= DueAt(g) BY <2>1, QuotientGrows, ClockAssumption DEF DueAt
  <2>. QED BY <2>2, <1>4, QuotientGrows, QuotientUp, ClockAssumption
<1>9. CASE micro <= DueAt(f)
  <2>1. left = DueAt(f) - micro BY <1>9, <1>2, <1>4 DEF Greater
  <2>2. n + k <= RoundedUp(DueAt(f), Milli) BY <2>1, <1>9, <1>2, <1>4, SetInTime, ClockAssumption
  <2>. QED BY <2>2, <1>5, <1>6, <1>7, <1>8 DEF Greater
<1>10. CASE micro > DueAt(f)
  <2>1. left = 0 BY <1>10, <1>2, <1>4 DEF Greater
  <2>2. k < 1 + 0
    <3>1. Milli * k < 0 + Milli BY <2>1, QuotientUp, ClockAssumption
    <3>2. Milli * k < Milli * 1 BY <3>1, ClockAssumption
    <3>. QED BY <3>2, <1>6, ClockAssumption
  <2>. QED BY <2>2, <1>5, <1>6, <1>7, <1>8 DEF Greater
<1>. QED BY <1>2, <1>4, <1>7, <1>9, <1>10
-----------------------------------------------------------------------------
LEMMA PresentInitInvariant == PresentInit => PresentInv
<1> SUFFICES ASSUME PresentInit PROVE PresentInv OBVIOUS
<1>1. PresentTypeOK BY ClockAssumption DEF PresentInit, PresentTypeOK
<1>2. NeverEarly BY ClockAssumption DEF PresentInit, NeverEarly
<1>3. WakesInTime BY DEF PresentInit, WakesInTime, Queued
<1>. QED BY <1>1, <1>2, <1>3 DEF PresentInv

\* Whatever is read of the clock becomes its last reading, unless that is newer.
LEMMA SampledType ==
  ASSUME PresentInv, NEW t \in Nat, t <= micro
  PROVE Sampled(t) \in Nat /\ Sampled(t) <= micro /\ vblank.last <= Sampled(t) /\ vblank.last \in Nat
        /\ micro \in Nat /\ deliver.sample \in Nat /\ deliver.sample <= micro
BY DEF PresentInv, PresentTypeOK, NeverEarly, Sampled, Greater

LEMMA GetTimeInvariant == ASSUME PresentInv, GetTime PROVE PresentInv'
<1>1. Sampled(micro) \in Nat /\ Sampled(micro) <= micro BY SampledType DEF PresentInv, PresentTypeOK
<1>2. /\ vblank'.last = Sampled(micro) /\ vblank'.target = vblank.target
      /\ vblank' \in [last : Nat, target : [VblankIds -> Targets \cup {NoFrame}]]
  BY <1>1 DEF GetTime, PresentInv, PresentTypeOK
<1>3. UNCHANGED <<micro, wake, deliver, told>> BY DEF GetTime
<1>4. PresentTypeOK' BY <1>2, <1>3 DEF PresentInv, PresentTypeOK
<1>5. NeverEarly' BY <1>1, <1>2, <1>3 DEF PresentInv, NeverEarly
<1>6. WakesInTime' BY <1>2, <1>3 DEF PresentInv, WakesInTime, Queued
<1>. QED BY <1>4, <1>5, <1>6 DEF PresentInv

LEMMA QueueFailsInvariant == ASSUME PresentInv, NEW i \in VblankIds, QueueFails(i) PROVE PresentInv'
BY GetTimeInvariant DEF QueueFails, GetTime

\* The queue has a new event, and the timer is set for the earliest of them.
LEMMA QueueInvariant ==
  ASSUME PresentInv, NEW i \in VblankIds, NEW f \in Targets, QueueVblank(i, f) PROVE PresentInv'
<1> DEFINE queue == [vblank.target EXCEPT ![i] = f]
<1>1. Sampled(micro) \in Nat /\ Sampled(micro) <= micro BY SampledType DEF PresentInv, PresentTypeOK
<1>2. queue \in [VblankIds -> Targets \cup {NoFrame}] BY DEF PresentInv, PresentTypeOK
<1>3. vblank' = [last |-> Sampled(micro), target |-> queue] /\ UNCHANGED <<micro, deliver, told>>
  BY DEF QueueVblank
<1>4. PICK e \in Earliest(queue) : wake' = [known |-> TRUE, at |-> Woken(queue[e])] BY DEF QueueVblank
<1> HIDE DEF queue
<1>5. e \in VblankIds /\ queue[e] # NoFrame BY DEF Earliest
<1>6. Woken(queue[e]) \in Nat BY <1>2, <1>5, WokenInTime
<1>7. PresentTypeOK' BY <1>1, <1>2, <1>3, <1>4, <1>6 DEF PresentInv, PresentTypeOK
<1>8. NeverEarly' BY <1>1, <1>3 DEF PresentInv, NeverEarly
<1>9. WakesInTime'
  <2> SUFFICES ASSUME NEW k \in VblankIds, queue[k] # NoFrame
               PROVE Woken(queue[e]) # NotSet
                     /\ Woken(queue[e]) <= Greater(RoundedUp(DueAt(queue[k]), Milli), micro \div Milli + 1)
    BY <1>3, <1>4 DEF WakesInTime, Queued
  <2>. QED BY <1>2, <1>6, WokenInTime DEF NotSet
<1>. QED BY <1>7, <1>8, <1>9 DEF PresentInv

\* What is left of the queue waited before, and its timer is left alone.
LEMMA AbortInvariant == ASSUME PresentInv, NEW i \in VblankIds, AbortVblank(i) PROVE PresentInv'
<1> DEFINE queue == [vblank.target EXCEPT ![i] = NoFrame]
           now == IF wake.known THEN Sampled(micro) ELSE vblank.last
<1>1. now \in Nat /\ now <= micro
  BY SampledType DEF PresentInv, PresentTypeOK, NeverEarly
<1>2. queue \in [VblankIds -> Targets \cup {NoFrame}]
      /\ \A k \in VblankIds : queue[k] # NoFrame => queue[k] = vblank.target[k]
  BY DEF PresentInv, PresentTypeOK
<1>3. vblank' = [last |-> now, target |-> queue] /\ UNCHANGED <<micro, deliver, told>>
  BY DEF AbortVblank
<1>4. wake' = IF wake.known THEN [wake EXCEPT !.at = Cancelled(queue)] ELSE wake BY DEF AbortVblank
<1> HIDE DEF queue, now
<1>5. Cancelled(queue) \in {NotSet, wake.at} BY DEF Cancelled
<1>6. PresentTypeOK' BY <1>1, <1>2, <1>3, <1>4, <1>5 DEF PresentInv, PresentTypeOK
<1>7. NeverEarly' BY <1>1, <1>3 DEF PresentInv, NeverEarly
<1>8. WakesInTime'
  <2> SUFFICES ASSUME ~deliver.on, NEW k \in VblankIds, queue[k] # NoFrame
               PROVE wake'.at # NotSet
                     /\ wake'.at <= Greater(RoundedUp(DueAt(queue[k]), Milli), micro \div Milli + 1)
    BY <1>3 DEF WakesInTime, Queued
  <2>1. wake'.at = wake.at BY <1>4 DEF Cancelled, PresentInv, PresentTypeOK
  <2>2. k \in Queued /\ queue[k] = vblank.target[k] BY <1>2 DEF Queued
  <2>. QED BY <2>1, <2>2 DEF PresentInv, WakesInTime
<1>. QED BY <1>6, <1>7, <1>8 DEF PresentInv

LEMMA TimerInvariant == ASSUME PresentInv, TimerRuns PROVE PresentInv'
<1>1. PresentTypeOK' BY ClockAssumption DEF TimerRuns, PresentInv, PresentTypeOK, NotSet
<1>2. NeverEarly' BY DEF TimerRuns, PresentInv, PresentTypeOK, NeverEarly
<1>3. WakesInTime' BY DEF TimerRuns, WakesInTime
<1>. QED BY <1>1, <1>2, <1>3 DEF PresentInv

\* What is delivered is due by the delivery's reading, which is no later than now.
LEMMA PopInvariant == ASSUME PresentInv, NEW i \in VblankIds, PopDue(i) PROVE PresentInv'
<1> DEFINE s == Sampled(deliver.sample)
           f == vblank.target[i]
           queue == [vblank.target EXCEPT ![i] = NoFrame]
<1>1. deliver.sample \in Nat /\ deliver.sample <= micro /\ micro \in Nat
  BY DEF PresentInv, PresentTypeOK, NeverEarly
<1>2. s \in Nat /\ s <= micro BY <1>1, SampledType
<1>3. Msc(s) \in Nat /\ Msc(s) * Second <= micro * Hz BY <1>1, <1>2, FrameHasBegun
<1>4. f \in Nat /\ f <= Msc(s)
  BY ClockAssumption DEF PopDue, DueNow, Earliest, PresentInv, PresentTypeOK
<1>5. queue \in [VblankIds -> Targets \cup {NoFrame}] BY DEF PresentInv, PresentTypeOK
<1>6. /\ vblank' = [last |-> s, target |-> queue] /\ told' = [wanted |-> f, msc |-> Msc(s), at |-> micro]
      /\ deliver.on /\ deliver.count < EventCapacity
      /\ deliver' = [deliver EXCEPT !.count = @ + 1] /\ UNCHANGED <<micro, wake>>
  BY DEF PopDue
<1> HIDE DEF s, f, queue
<1>7. PresentTypeOK' BY <1>1, <1>2, <1>3, <1>4, <1>5, <1>6, ClockAssumption DEF PresentInv, PresentTypeOK
<1>8. NeverEarly' BY <1>1, <1>2, <1>3, <1>4, <1>6 DEF PresentInv, PresentTypeOK
                                                 , NeverEarly
<1>9. WakesInTime' BY <1>6 DEF WakesInTime, PresentInv, PresentTypeOK
<1>. QED BY <1>7, <1>8, <1>9 DEF PresentInv

LEMMA EndInvariant == ASSUME PresentInv, EndDelivery PROVE PresentInv'
<1>1. Sampled(micro) \in Nat /\ Sampled(micro) <= micro BY SampledType DEF PresentInv, PresentTypeOK
<1>2. /\ vblank' = [vblank EXCEPT !.last = Sampled(micro)]
      /\ deliver' = [deliver EXCEPT !.on = FALSE] /\ UNCHANGED <<micro, told>>
  BY DEF EndDelivery
<1>3. vblank.target \in [VblankIds -> Targets \cup {NoFrame}] /\ vblank'.target = vblank.target
  BY <1>2 DEF PresentInv, PresentTypeOK
<1>4. NeverEarly' BY <1>1, <1>2 DEF PresentInv, PresentTypeOK, NeverEarly
<1>5. CASE Queued = {}
  <2>1. wake' = wake BY <1>5 DEF EndDelivery
  <2>2. PresentTypeOK' BY <1>1, <1>2, <2>1 DEF PresentInv, PresentTypeOK
  <2>3. WakesInTime' BY <1>3, <1>5 DEF WakesInTime, Queued
  <2>. QED BY <2>2, <2>3, <1>4 DEF PresentInv
<1>6. CASE Queued # {}
  <2>1. PICK e \in Earliest(vblank.target) : wake' = [wake EXCEPT !.at = Woken(vblank.target[e])]
    BY <1>6 DEF EndDelivery
  <2>2. e \in VblankIds /\ vblank.target[e] # NoFrame BY DEF Earliest
  <2>3. Woken(vblank.target[e]) \in Nat BY <1>3, <2>2, WokenInTime
  <2>4. wake'.at = Woken(vblank.target[e]) BY <2>1 DEF PresentInv, PresentTypeOK
  <2>5. PresentTypeOK' BY <1>1, <1>2, <2>1, <2>3 DEF PresentInv, PresentTypeOK
  <2>6. WakesInTime'
    <3> SUFFICES ASSUME NEW k \in VblankIds, vblank.target[k] # NoFrame
                 PROVE wake'.at # NotSet
                       /\ wake'.at <= Greater(RoundedUp(DueAt(vblank.target[k]), Milli), micro \div Milli + 1)
      BY <1>2, <1>3 DEF WakesInTime, Queued
    <3>. QED BY <1>3, <2>3, <2>4, WokenInTime DEF NotSet
  <2>. QED BY <2>5, <2>6, <1>4 DEF PresentInv
<1>. QED BY <1>5, <1>6

\* As time passes, what is in time stays so.
LEMMA PassInvariant == ASSUME PresentInv, MicroPasses PROVE PresentInv'
<1>1. micro \in Nat /\ micro' = micro + 1 /\ UNCHANGED <<vblank, wake, deliver, told>>
  BY DEF MicroPasses, PresentInv, PresentTypeOK
<1>2. PresentTypeOK' BY <1>1 DEF PresentInv, PresentTypeOK
<1>3. NeverEarly' BY <1>1 DEF PresentInv, PresentTypeOK, NeverEarly
<1>4. micro \div Milli \in Nat /\ micro' \div Milli \in Nat /\ micro \div Milli <= micro' \div Milli
  <2>1. micro' \in Nat BY <1>1
  <2> DEFINE q == micro \div Milli
             r == micro' \div Milli
  <2>2. q \in Nat /\ Milli * q <= micro BY <1>1, Quotient, ClockAssumption
  <2>3. r \in Nat /\ micro' < Milli * r + Milli BY <2>1, Quotient, ClockAssumption
  <2> HIDE DEF q, r
  <2>4. Milli * q < Milli * (r + 1)
    <3>1. Milli * (r + 1) = Milli * r + Milli /\ Milli * q \in Nat /\ Milli * r \in Nat
      BY <2>2, <2>3, ClockAssumption
    <3>. QED BY <3>1, <2>2, <2>3, <1>1, ClockAssumption
  <2>5. q < r + 1 BY <2>4, <2>2, <2>3, ClockAssumption
  <2>. QED BY <2>5, <2>2, <2>3 DEF q, r
<1>5. WakesInTime'
  <2> SUFFICES ASSUME ~deliver.on, NEW k \in Queued
               PROVE wake.at # NotSet
                     /\ wake.at <= Greater(RoundedUp(DueAt(vblank.target[k]), Milli), micro' \div Milli + 1)
    BY <1>1 DEF WakesInTime, Queued
  <2>1. wake.at # NotSet /\ wake.at <= Greater(RoundedUp(DueAt(vblank.target[k]), Milli), micro \div Milli + 1)
    BY DEF PresentInv, WakesInTime
  <2>2. vblank.target[k] \in Nat BY ClockAssumption DEF Queued, PresentInv, PresentTypeOK
  <2>3. RoundedUp(DueAt(vblank.target[k]), Milli) \in Nat BY <2>2, DueType, QuotientUp, ClockAssumption
  <2>4. wake.at \in Nat BY <2>1 DEF PresentInv, PresentTypeOK
  <2>. QED BY <2>1, <2>3, <2>4, <1>4 DEF Greater
<1>. QED BY <1>2, <1>3, <1>5 DEF PresentInv
-----------------------------------------------------------------------------
LEMMA PresentNextInvariant == PresentInv /\ [PresentNext]_presentVars => PresentInv'
<1> SUFFICES ASSUME PresentInv, [PresentNext]_presentVars PROVE PresentInv' OBVIOUS
<1>1. CASE UNCHANGED presentVars
  BY <1>1 DEF presentVars, PresentInv, PresentTypeOK, NeverEarly, WakesInTime, Queued
<1>2. CASE PresentNext
  BY <1>2, GetTimeInvariant, QueueFailsInvariant, QueueInvariant, AbortInvariant, TimerInvariant,
     PopInvariant, EndInvariant, PassInvariant DEF PresentNext
<1>. QED BY <1>1, <1>2

\* The last reading never goes back: each step keeps it or takes a later one.
LEMMA ReadingGrows ==
  ASSUME PresentInv, [PresentNext]_presentVars PROVE vblank'.last >= vblank.last
<1>1. micro \in Nat /\ vblank.last \in Nat /\ Sampled(micro) \in Nat /\ vblank.last <= Sampled(micro)
  BY SampledType DEF PresentInv, PresentTypeOK
<1>2. Sampled(deliver.sample) \in Nat /\ vblank.last <= Sampled(deliver.sample)
  BY SampledType DEF PresentInv, PresentTypeOK, NeverEarly
<1>3. vblank'.last \in {vblank.last, Sampled(micro), Sampled(deliver.sample)}
  <2>1. CASE UNCHANGED presentVars BY <2>1 DEF presentVars
  <2>2. CASE GetTime \/ \E i \in VblankIds : QueueFails(i) BY <2>2 DEF GetTime, QueueFails, PresentInv, PresentTypeOK
  <2>3. ASSUME NEW i \in VblankIds, NEW f \in Targets, QueueVblank(i, f) PROVE vblank'.last = Sampled(micro)
    BY <2>3 DEF QueueVblank
  <2>4. ASSUME NEW i \in VblankIds, AbortVblank(i) PROVE vblank'.last \in {vblank.last, Sampled(micro)}
    BY <2>4 DEF AbortVblank
  <2>5. ASSUME NEW i \in VblankIds, PopDue(i) PROVE vblank'.last = Sampled(deliver.sample)
    BY <2>5 DEF PopDue
  <2>6. CASE EndDelivery BY <2>6 DEF EndDelivery, PresentInv, PresentTypeOK
  <2>7. CASE TimerRuns \/ MicroPasses BY <2>7 DEF TimerRuns, MicroPasses
  <2>. QED BY <2>1, <2>2, <2>3, <2>4, <2>5, <2>6, <2>7 DEF PresentNext
<1>. QED BY <1>1, <1>2, <1>3

\* The present clock delivers every event in time and none early, and its frames
\* never go back, at any rate and with any number of events (clock.rs, present.c).
THEOREM TimelyVblanks == PresentSpec => VblanksAreTimely
<1>1. PresentSpec => []PresentInv
  BY PresentInitInvariant, PresentNextInvariant, PTL DEF PresentSpec
<1>2. PresentInv /\ [PresentNext]_presentVars => [vblank'.last >= vblank.last]_presentVars
  BY ReadingGrows
<1>. QED BY <1>1, <1>2, PTL DEF PresentSpec, VblanksAreTimely
-----------------------------------------------------------------------------
\* The admissions of a site in one window.
InWindow(s, start) == {b \in Admissions(s) : log[b].start = start}

\* The row covers the event i of its site.
Covers(s, i) ==
  /\ row[s] # NoRow
  /\ log[i].at <= row[s].last /\ log[i].at + log[i].gap <= row[s].next
  /\ log[i].kind = "admit" =>
       /\ log[i].start <= row[s].start
       /\ IF log[i].start = row[s].start
          THEN log[i].start + log[i].policy.window <= row[s].end
          ELSE log[i].start + log[i].policy.window <= row[s].start

RowCovers == \A s \in Sites : \A i \in Events(s) : Covers(s, i)
RowCounts == \A s \in Rows : Cardinality(InWindow(s, row[s].start)) = row[s].used

LedgerInv == /\ RowsTyped /\ RowsStayValid /\ RowCovers /\ RowCounts
        /\ GapsAreKept /\ BudgetIsKept /\ WindowsAreApart
-----------------------------------------------------------------------------
(* Lemmas on the operators *)

LEMMA PolicyType ==
  ASSUME NEW p \in Policies
  PROVE /\ p.site \in Sites /\ p.minInterval \in Nat /\ p.jitter \in Nat
        /\ p.maxActions \in 1..MaxUsed /\ p.window \in 1..MaxWindow
        /\ p.minInterval + p.jitter <= MaxGap
BY PoliciesAssumption, LimitsAssumption DEF Policy

LEMMA RowType ==
  ASSUME RowsTyped, NEW s \in Rows
  PROVE /\ row[s] \in Row /\ row[s].last \in Nat /\ row[s].next \in Nat
        /\ row[s].start \in Nat /\ row[s].end \in Nat /\ row[s].used \in 1..MaxUsed
BY DEF RowsTyped, Rows, Row

\* A row whose two times are replaced.
LEMMA RowUpdate ==
  ASSUME NEW r \in Row, NEW a \in Nat, NEW b \in Nat
  PROVE [[r EXCEPT !.last = a] EXCEPT !.next = b]
          = [last |-> a, next |-> b, start |-> r.start, end |-> r.end, used |-> r.used]
<1>. DEFINE u == [[r EXCEPT !.last = a] EXCEPT !.next = b]
            v == [last |-> a, next |-> b, start |-> r.start, end |-> r.end, used |-> r.used]
<1>1. u \in Row /\ v \in Row BY DEF Row
<1>2. u.last = v.last /\ u.next = v.next /\ u.start = v.start /\ u.end = v.end /\ u.used = v.used
  BY DEF Row
<1>. HIDE DEF u, v
<1>3. u = v BY <1>1, <1>2 DEF Row
<1>. QED BY <1>3 DEF u, v

LEMMA EventType ==
  ASSUME RowsTyped, NEW i \in DOMAIN log
  PROVE /\ log[i] \in Event /\ log[i].at \in Nat /\ log[i].gap \in Nat /\ log[i].start \in Nat
        /\ log[i].policy \in Policies
        /\ i \in 1..Len(log)
<1>1. i \in 1..Len(log) /\ log[i] \in Event BY DEF RowsTyped
<1>. QED BY <1>1 DEF Event

\* The window an admission joins: the row's, not yet over, or a new one that
\* begins when the row's is over.
LEMMA WindowCases ==
  ASSUME RowsTyped, RowsStayValid, NEW p \in Policies, NEW t \in Nat
  PROVE \/ /\ Window(p, t) = FreshWindow(p, t)
           /\ row[p.site] # NoRow => t >= row[p.site].end /\ t >= row[p.site].start + p.window
        \/ /\ row[p.site] # NoRow /\ Window(p, t).start = row[p.site].start
           /\ Window(p, t).used = row[p.site].used
           /\ Window(p, t).end = WindowEnd(p) /\ t < WindowEnd(p)
<1>. DEFINE s == p.site
<1>1. s \in Sites /\ p.window \in Nat BY PolicyType, LimitsAssumption
<1>2. CASE row[s] = NoRow BY <1>2 DEF Window
<1>3. CASE row[s] # NoRow
  <2>1. row[s].end \in Nat /\ row[s].start \in Nat BY <1>1, <1>3, RowType DEF Rows
  <2>2. CASE t >= WindowEnd(p) BY <1>1, <1>3, <2>1, <2>2 DEF Window, WindowEnd, Larger
  <2>3. CASE ~(t >= WindowEnd(p))
    <3>1. WindowEnd(p) \in Nat BY <1>1, <2>1 DEF WindowEnd, Larger
    <3>2. Window(p, t) = [start |-> row[s].start, end |-> WindowEnd(p), used |-> row[s].used]
      BY <1>3, <2>3 DEF Window
    <3>. QED BY <1>3, <2>3, <3>1, <3>2
  <2>. QED BY <2>2, <2>3
<1>. QED BY <1>2, <1>3

\* Appending to the history leaves its past alone.
LEMMA LogGrows ==
  ASSUME RowsTyped, NEW e \in Event, log' = Append(log, e)
  PROVE /\ log' \in Seq(Event) /\ Len(log) \in Nat
        /\ DOMAIN log' = DOMAIN log \cup {Len(log) + 1} /\ Len(log) + 1 \notin DOMAIN log
        /\ \A i \in DOMAIN log : log'[i] = log[i] /\ i < Len(log) + 1 /\ i \in Nat
        /\ log'[Len(log) + 1] = e
BY DEF RowsTyped

LEMMA EventsGrow ==
  ASSUME RowsTyped, NEW e \in Event, log' = Append(log, e), NEW s \in Sites
  PROVE /\ Events(s)' = IF e.policy.site = s THEN Events(s) \cup {Len(log) + 1} ELSE Events(s)
        /\ Admissions(s)' = IF e.policy.site = s /\ e.kind = "admit"
                            THEN Admissions(s) \cup {Len(log) + 1} ELSE Admissions(s)
        /\ Events(s) \subseteq DOMAIN log /\ Admissions(s) \subseteq Events(s)
<1>1. Events(s)' = IF e.policy.site = s THEN Events(s) \cup {Len(log) + 1} ELSE Events(s)
  BY LogGrows DEF Events
<1>2. \A i \in Events(s) : log'[i] = log[i] BY LogGrows DEF Events
<1>. QED BY <1>1, <1>2, LogGrows DEF Admissions, Events

LEMMA Finite ==
  ASSUME RowsTyped, NEW s, NEW start
  PROVE IsFiniteSet(InWindow(s, start))
<1>1. IsFiniteSet(1..Len(log)) BY FS_Interval DEF RowsTyped
<1>2. InWindow(s, start) \subseteq 1..Len(log) BY DEF InWindow, Admissions, Events, RowsTyped
<1>. QED BY <1>1, <1>2, FS_Subset
-----------------------------------------------------------------------------
LEMMA LedgerInitInv == LedgerInit => LedgerInv
<1> SUFFICES ASSUME LedgerInit PROVE LedgerInv OBVIOUS
<1>1. \A s \in Sites : Events(s) = {} /\ Admissions(s) = {} BY DEF LedgerInit, Events, Admissions
<1>2. Rows = {} BY DEF LedgerInit, Rows
<1>. QED BY <1>1, <1>2 DEF LedgerInit, LedgerInv, RowsTyped, RowsStayValid, RowCovers, RowCounts,
                          GapsAreKept, BudgetIsKept, WindowsAreApart

\* What an admission writes, in terms of the row and window it found.
LEMMA ReserveFacts ==
  ASSUME LedgerInv, NEW p \in Policies, NEW j \in 0..p.jitter, NEW t \in Times, Reserve(p, j, t)
  PROVE /\ t \in Nat /\ p.minInterval + j \in 0..MaxGap
        /\ row[p.site] # NoRow =>
             /\ t >= row[p.site].last /\ t >= row[p.site].next
             /\ t >= row[p.site].last + p.minInterval
        /\ Window(p, t).used < p.maxActions
        /\ Window(p, t).start \in Nat /\ Window(p, t).end \in Nat /\ Window(p, t).used \in Nat
        /\ Window(p, t).start <= t /\ Window(p, t).start < Window(p, t).end
        /\ Window(p, t).end <= Window(p, t).start + MaxWindow
<1>. USE DEF LedgerInv
<1>. DEFINE s == p.site  w == Window(p, t)
<1>1. /\ t \in Nat /\ s \in Sites /\ p.minInterval \in Nat /\ p.minInterval + j \in 0..MaxGap
      /\ p.maxActions \in Nat \ {0} /\ p.window \in 1..MaxWindow /\ MaxWindow \in Nat
  BY PolicyType, LimitsAssumption
<1>2. CASE row[s] = NoRow
  <2>1. w = FreshWindow(p, t) BY <1>2 DEF Window
  <2>. QED BY <1>1, <1>2, <2>1 DEF FreshWindow
<1>3. CASE row[s] # NoRow
  <2>1. /\ row[s].last \in Nat /\ row[s].next \in Nat /\ row[s].start \in Nat /\ row[s].end \in Nat
        /\ row[s].used \in Nat
    BY <1>1, <1>3, RowType, LimitsAssumption DEF Rows
  <2>2. Valid(row[s]) /\ t >= row[s].last BY <1>3 DEF Reserve, Usable
  <2>3. /\ w.start \in Nat /\ w.end \in Nat /\ w.used \in Nat
        /\ w.start <= t /\ w.start < w.end /\ w.end <= w.start + MaxWindow
        /\ w.used = 0 \/ t < w.end
    <3>1. CASE w = FreshWindow(p, t) BY <1>1, <3>1 DEF FreshWindow
    <3>2. CASE w.start = row[s].start /\ w.used = row[s].used /\ w.end = WindowEnd(p) /\ t < WindowEnd(p)
      BY <1>1, <2>1, <2>2, <3>2 DEF WindowEnd, Larger, Valid
    <3>. QED BY <1>1, <3>1, <3>2, WindowCases
  <2>4. Larger(Larger(t, IF w.used >= p.maxActions THEN w.end ELSE t),
               Larger(row[s].next, row[s].last + p.minInterval)) <= t
    BY <1>3 DEF Reserve, Due
  <2>5. /\ t >= row[s].next /\ t >= row[s].last + p.minInterval
        /\ ~(w.used >= p.maxActions /\ w.end > t)
    BY <1>1, <2>1, <2>3, <2>4 DEF Larger
  <2>. QED BY <1>1, <1>3, <2>1, <2>2, <2>3, <2>5
<1>. QED BY <1>2, <1>3

LEMMA ReserveInv ==
  ASSUME LedgerInv, NEW p \in Policies, NEW j \in 0..p.jitter, NEW t \in Times, Reserve(p, j, t)
  PROVE LedgerInv'
<1>. USE DEF LedgerInv
<1>. DEFINE s == p.site  w == Window(p, t)  n == Len(log) + 1  new == Admitted(p, j, t)
            now == {b \in Admissions(s)' : log'[b].start = w.start}
            e == [kind |-> "admit", at |-> t, policy |-> p, gap |-> p.minInterval + j, start |-> w.start]
<1>1. /\ t \in Nat /\ p.minInterval + j \in 0..MaxGap
      /\ row[s] # NoRow =>
           t >= row[s].last /\ t >= row[s].next /\ t >= row[s].last + p.minInterval
      /\ w.used < p.maxActions
      /\ w.start \in Nat /\ w.end \in Nat /\ w.used \in Nat
      /\ w.start <= t /\ w.start < w.end /\ w.end <= w.start + MaxWindow
  BY ReserveFacts
<1>2. /\ s \in Sites /\ p.minInterval \in Nat /\ j \in Nat /\ p.maxActions \in 1..MaxUsed
      /\ p.window \in 1..MaxWindow /\ MaxGap \in Nat /\ MaxUsed \in Nat /\ MaxWindow \in Nat
  BY PolicyType, LimitsAssumption
<1>3. /\ new = [last |-> t, next |-> t + p.minInterval + j, start |-> w.start, end |-> w.end,
                used |-> w.used + 1]
      /\ new \in Row /\ new # NoRow
  BY <1>1, <1>2, NoRowAssumption DEF Admitted, Row
<1>4. row' = [row EXCEPT ![s] = new] /\ log' = Append(log, e) BY DEF Reserve, Record
<1>5. e \in Event BY <1>1 DEF Event
<1>6. /\ row'[s] = new /\ (\A q \in Sites \ {s} : row'[q] = row[q]) /\ Rows' = Rows \cup {s}
      /\ row'[s].last = t /\ row'[s].next = t + p.minInterval + j /\ row'[s].start = w.start
      /\ row'[s].end = w.end /\ row'[s].used = w.used + 1 /\ row'[s] # NoRow
  BY <1>2, <1>3, <1>4 DEF RowsTyped, Rows
<1>7. /\ DOMAIN log' = DOMAIN log \cup {n} /\ n \notin DOMAIN log /\ log'[n] = e
      /\ \A i \in DOMAIN log : log'[i] = log[i] /\ i < n /\ i \in Nat
      /\ log' \in Seq(Event) /\ n \in Nat
  BY <1>4, <1>5, LogGrows
<1>8. /\ \A q \in Sites : Events(q) \subseteq DOMAIN log /\ Admissions(q) \subseteq Events(q)
      /\ Events(s)' = Events(s) \cup {n} /\ Admissions(s)' = Admissions(s) \cup {n}
      /\ \A q \in Sites \ {s} : Events(q)' = Events(q) /\ Admissions(q)' = Admissions(q)
  BY <1>2, <1>4, <1>5, EventsGrow
<1>9. RowsTyped' BY <1>3, <1>4, <1>7 DEF RowsTyped
<1>10. RowsStayValid'
  <2>1. Valid(new) BY <1>1, <1>2, <1>3 DEF Valid
  <2>. QED BY <1>6, <2>1 DEF RowsStayValid, Rows, Valid
<1>11. ASSUME NEW i \in Events(s)
       PROVE /\ row[s] # NoRow /\ log[i].at \in Nat /\ log[i].gap \in Nat /\ log[i].start \in Nat
             /\ log[i].policy.window \in Nat
             /\ log[i].at <= t /\ log[i].at + log[i].gap <= t /\ log[i].at + p.minInterval <= t
             /\ log[i].kind = "admit" =>
                  /\ log[i].start <= w.start
                  /\ w.used # row[s].used \/ w.start # row[s].start => log[i].start # w.start
                  /\ IF log[i].start = w.start THEN log[i].start + log[i].policy.window <= w.end
                     ELSE log[i].start + log[i].policy.window <= w.start
  <2>1. Covers(s, i) BY <1>2 DEF RowCovers
  <2>2. /\ log[i].at \in Nat /\ log[i].gap \in Nat /\ log[i].start \in Nat
        /\ log[i].policy.window \in Nat
    BY <1>2, <1>8, EventType, PolicyType, LimitsAssumption
  <2>3. /\ row[s].last \in Nat /\ row[s].next \in Nat /\ row[s].start \in Nat /\ row[s].end \in Nat
    BY <1>2, <2>1, RowType DEF Covers, Rows
  <2>4. log[i].at <= t /\ log[i].at + log[i].gap <= t /\ log[i].at + p.minInterval <= t
    BY <1>1, <1>2, <2>1, <2>2, <2>3 DEF Covers
  <2>5. ASSUME log[i].kind = "admit"
        PROVE /\ log[i].start <= w.start
              /\ w.used # row[s].used \/ w.start # row[s].start => log[i].start # w.start
              /\ IF log[i].start = w.start THEN log[i].start + log[i].policy.window <= w.end
                 ELSE log[i].start + log[i].policy.window <= w.start
    <3>0. row[s].start < row[s].end BY <1>2, <2>1 DEF Covers, RowsStayValid, Rows, Valid
    <3>1. CASE /\ w = FreshWindow(p, t)
               /\ row[s] # NoRow => t >= row[s].end /\ t >= row[s].start + p.window
      <4>1. w.start = t /\ t >= row[s].end BY <2>1, <3>1 DEF FreshWindow, Covers
      <4>. QED BY <1>1, <2>1, <2>2, <2>3, <2>5, <3>0, <4>1 DEF Covers
    <3>2. CASE /\ row[s] # NoRow /\ w.start = row[s].start /\ w.used = row[s].used
               /\ w.end = WindowEnd(p) /\ t < WindowEnd(p)
      <4>1. w.end >= row[s].end BY <1>2, <2>3, <3>2 DEF WindowEnd, Larger
      <4>. QED BY <1>1, <2>1, <2>2, <2>3, <2>5, <3>2, <4>1 DEF Covers
    <3>. QED BY <1>1, <3>1, <3>2, WindowCases
  <2>. QED BY <2>1, <2>2, <2>4, <2>5 DEF Covers
<1>12. RowCovers'
  <2> SUFFICES ASSUME NEW q \in Sites, NEW i \in Events(q)' PROVE Covers(q, i)' BY DEF RowCovers
  <2>1. CASE q # s
    <3>1. i \in Events(q) /\ log'[i] = log[i] /\ row'[q] = row[q] BY <1>6, <1>7, <1>8, <2>1
    <3>. QED BY <3>1 DEF RowCovers, Covers
  <2>2. CASE q = s /\ i = n
    <3>1. /\ log'[i].at = t /\ log'[i].gap = p.minInterval + j /\ log'[i].start = w.start
          /\ log'[i].policy.window = p.window
      BY <1>7, <2>2
    <3>2. w.start + p.window <= w.end
      <4>1. CASE w = FreshWindow(p, t) BY <1>1, <1>2, <4>1 DEF FreshWindow
      <4>2. CASE row[s] # NoRow /\ w.start = row[s].start /\ w.end = WindowEnd(p)
        <5>1. row[s].start \in Nat /\ row[s].end \in Nat BY <1>2, <4>2, RowType DEF Rows
        <5>. QED BY <1>2, <4>2, <5>1 DEF WindowEnd, Larger
      <4>. QED BY <1>1, <4>1, <4>2, WindowCases
    <3>3. t + (p.minInterval + j) <= t + p.minInterval + j /\ t <= t /\ w.start <= w.start
      BY <1>1, <1>2
    <3>4. row'[q].last = t /\ row'[q].next = t + p.minInterval + j /\ row'[q].start = w.start
          /\ row'[q].end = w.end /\ row'[q] # NoRow
      BY <1>6, <2>2
    <3>. QED BY <3>1, <3>2, <3>3, <3>4 DEF Covers
  <2>3. CASE q = s /\ i # n
    <3>1. i \in Events(s) /\ log'[i] = log[i] BY <1>7, <1>8, <2>3
    <3>2. /\ log[i].at \in Nat /\ log[i].gap \in Nat /\ log[i].at <= t /\ log[i].at + log[i].gap <= t
          /\ log[i].kind = "admit" =>
               /\ log[i].start <= w.start
               /\ IF log[i].start = w.start THEN log[i].start + log[i].policy.window <= w.end
                  ELSE log[i].start + log[i].policy.window <= w.start
      BY <1>11, <3>1
    <3>3. log[i].at + log[i].gap <= t + p.minInterval + j BY <1>1, <1>2, <3>2
    <3>. QED BY <1>6, <2>3, <3>1, <3>2, <3>3 DEF Covers
  <2>. QED BY <2>1, <2>2, <2>3
<1>13. Cardinality(now) = w.used + 1 /\ n \in now
  <2>1. now = InWindow(s, w.start) \cup {n} /\ n \notin InWindow(s, w.start)
    BY <1>2, <1>7, <1>8 DEF InWindow
  <2>2. IsFiniteSet(InWindow(s, w.start)) BY Finite
  <2>3. Cardinality(now) = Cardinality(InWindow(s, w.start)) + 1
    BY <2>1, <2>2, FS_AddElement
  <2>4. Cardinality(InWindow(s, w.start)) = w.used
    <3>1. CASE row[s] # NoRow /\ w.used = row[s].used /\ w.start = row[s].start
      BY <1>2, <3>1 DEF RowCounts, Rows
    <3>2. CASE w = FreshWindow(p, t) /\ ~(row[s] # NoRow /\ w.used = row[s].used /\ w.start = row[s].start)
      <4>1. InWindow(s, w.start) = {}
        BY <1>2, <1>8, <1>11, <3>2 DEF InWindow, Admissions
      <4>. QED BY <3>2, <4>1, FS_EmptySet DEF FreshWindow
    <3>. QED BY <1>1, <3>1, <3>2, WindowCases
  <2>. QED BY <2>1, <2>3, <2>4
<1>15. RowCounts'
  <2> SUFFICES ASSUME NEW q \in Rows'
               PROVE Cardinality({b \in Admissions(q)' : log'[b].start = row'[q].start}) = row'[q].used
    BY DEF RowCounts, InWindow
  <2>1. CASE q = s
    <3>1. {b \in Admissions(q)' : log'[b].start = row'[q].start} = now BY <1>6, <2>1
    <3>. QED BY <1>6, <1>13, <2>1, <3>1
  <2>2. CASE q # s
    <3>1. q \in Rows /\ q \in Sites \ {s} /\ row'[q] = row[q] BY <1>6, <2>2 DEF Rows
    <3>2. {b \in Admissions(q)' : log'[b].start = row'[q].start} = InWindow(q, row[q].start)
      BY <1>7, <1>8, <3>1 DEF InWindow
    <3>. QED BY <3>1, <3>2 DEF RowCounts
  <2>. QED BY <2>1, <2>2
<1>16. GapsAreKept'
  <2> SUFFICES ASSUME NEW q \in Sites, NEW a \in Admissions(q)', NEW i \in Events(q)', i < a
               PROVE log'[a].at >= log'[i].at + Larger(log'[i].gap, log'[a].policy.minInterval)
    BY DEF GapsAreKept
  <2>1. CASE a # n
    <3>1. a \in Admissions(q) /\ i \in Events(q) /\ log'[a] = log[a] /\ log'[i] = log[i]
      BY <1>7, <1>8, <2>1
    <3>. QED BY <3>1 DEF GapsAreKept
  <2>2. CASE a = n
    <3>1. q = s /\ i \in Events(s) /\ log'[i] = log[i] /\ log'[a] = e BY <1>7, <1>8, <2>2
    <3>2. /\ log[i].at \in Nat /\ log[i].gap \in Nat
          /\ log[i].at + log[i].gap <= t /\ log[i].at + p.minInterval <= t
      BY <1>11, <3>1
    <3>. QED BY <1>1, <1>2, <3>1, <3>2 DEF Larger
  <2>. QED BY <2>1, <2>2
<1>17. BudgetIsKept'
  <2> SUFFICES ASSUME NEW q \in Sites, NEW a \in Admissions(q)'
               PROVE Cardinality({b \in Admissions(q)' : b <= a /\ log'[b].start = log'[a].start})
                       <= log'[a].policy.maxActions
    BY DEF BudgetIsKept
  <2>1. CASE a # n
    <3>1. a \in Admissions(q) /\ log'[a] = log[a] /\ a < n /\ a \in Nat BY <1>7, <1>8, <2>1
    <3>2. {b \in Admissions(q)' : b <= a /\ log'[b].start = log'[a].start}
            = {b \in Admissions(q) : b <= a /\ log[b].start = log[a].start}
      BY SMTT(30), <1>7, <1>8, <3>1
    <3>. QED BY <3>1, <3>2 DEF BudgetIsKept
  <2>2. CASE a = n
    <3>1. q = s /\ log'[a] = e BY <1>7, <1>8, <2>2
    <3>2. {b \in Admissions(q)' : b <= a /\ log'[b].start = log'[a].start} = now
      BY <1>7, <1>8, <2>2, <3>1
    <3>3. log'[a].policy.maxActions = p.maxActions BY <3>1
    <3>4. Cardinality(now) <= p.maxActions BY <1>1, <1>2, <1>13
    <3>. QED BY <3>2, <3>3, <3>4
  <2>. QED BY <2>1, <2>2
<1>18. WindowsAreApart'
  <2> SUFFICES ASSUME NEW q \in Sites, NEW a \in Admissions(q)', NEW b \in Admissions(q)',
                      a < b, log'[a].start # log'[b].start
               PROVE log'[b].at >= log'[a].start + log'[a].policy.window
    BY DEF WindowsAreApart
  <2>1. CASE b # n
    <3>1. a \in Admissions(q) /\ b \in Admissions(q) /\ log'[a] = log[a] /\ log'[b] = log[b]
      BY <1>7, <1>8, <2>1
    <3>. QED BY <3>1 DEF WindowsAreApart
  <2>2. CASE b = n
    <3>1. q = s /\ a \in Admissions(s) /\ a \in Events(s) /\ log'[a] = log[a] /\ log'[b] = e
      BY <1>7, <1>8, <2>2
    <3>2. log[a].kind = "admit" BY <3>1 DEF Admissions
    <3>. QED BY <1>1, <1>11, <3>1, <3>2
  <2>. QED BY <2>1, <2>2
<1>. QED BY <1>9, <1>10, <1>12, <1>15, <1>16, <1>17, <1>18

\* A completion only moves the row's times forward.
LEMMA CompleteInv ==
  ASSUME LedgerInv, NEW p \in Policies, NEW j \in 0..p.jitter, NEW t \in Times, Complete(p, j, t)
  PROVE LedgerInv'
<1>. USE DEF LedgerInv
<1>. DEFINE s == p.site  n == Len(log) + 1
            e == [kind |-> "complete", at |-> t, policy |-> p, gap |-> p.minInterval + j,
                  start |-> row[s].start]
<1>1. /\ t \in Nat /\ s \in Sites /\ p.minInterval \in Nat /\ j \in Nat
      /\ p.minInterval + j \in 0..MaxGap /\ MaxGap \in Nat
  BY PolicyType, LimitsAssumption
<1>2. /\ s \in Rows /\ row[s] \in Row /\ row[s].last \in Nat /\ row[s].next \in Nat
      /\ row[s].start \in Nat /\ row[s].end \in Nat /\ row[s].used \in 1..MaxUsed
      /\ Valid(row[s]) /\ t >= row[s].last
  BY <1>1, RowType DEF Complete, Usable, Rows
<1>3. PICK new \in Row :
        /\ row' = [row EXCEPT ![s] = new] /\ new # NoRow
        /\ new.last = t /\ new.next \in Nat /\ new.next >= row[s].next
        /\ new.next >= t + p.minInterval + j /\ new.next <= t + MaxGap
        /\ new.start = row[s].start /\ new.end = row[s].end /\ new.used = row[s].used
  <2>. DEFINE nx == Larger(row[s].next, t + p.minInterval + j)
              new == [last |-> t, next |-> nx, start |-> row[s].start, end |-> row[s].end,
                      used |-> row[s].used]
  <2>1. /\ nx \in Nat /\ nx >= row[s].next /\ nx >= t + p.minInterval + j /\ nx <= t + MaxGap
    BY <1>1, <1>2 DEF Larger, Valid
  <2>2. new \in Row /\ new # NoRow BY <1>1, <1>2, <2>1, NoRowAssumption DEF Row
  <2>3. row' = [row EXCEPT ![s] = new]
    <3>1. row' = [row EXCEPT ![s].last = t, ![s].next = Larger(@, t + p.minInterval + j)]
      BY DEF Complete
    <3>2. row' = [row EXCEPT ![s] = [[row[s] EXCEPT !.last = t] EXCEPT !.next = nx]]
      BY <1>1, <1>2, <3>1 DEF RowsTyped, Row
    <3>4. [[row[s] EXCEPT !.last = t] EXCEPT !.next = nx] = new BY <1>1, <1>2, <2>1, RowUpdate
    <3>. QED BY <3>2, <3>4
  <2>. QED BY <2>1, <2>2, <2>3
<1>4. log' = Append(log, e) /\ e \in Event BY <1>1, <1>2 DEF Complete, Record, Event
<1>5. /\ row'[s] = new /\ (\A q \in Sites \ {s} : row'[q] = row[q]) /\ Rows' = Rows
  BY <1>1, <1>2, <1>3 DEF RowsTyped, Rows
<1>6. /\ DOMAIN log' = DOMAIN log \cup {n} /\ n \notin DOMAIN log /\ log'[n] = e
      /\ \A i \in DOMAIN log : log'[i] = log[i] /\ i < n /\ i \in Nat
      /\ log' \in Seq(Event) /\ n \in Nat
  BY <1>4, LogGrows
<1>7. /\ \A q \in Sites : /\ Events(q) \subseteq DOMAIN log /\ Admissions(q) \subseteq Events(q)
                          /\ Admissions(q)' = Admissions(q)
      /\ Events(s)' = Events(s) \cup {n}
      /\ \A q \in Sites \ {s} : Events(q)' = Events(q)
  BY <1>1, <1>4, EventsGrow
<1>8. RowsTyped' BY <1>1, <1>3, <1>6 DEF RowsTyped
<1>9. RowsStayValid'
  <2>1. Valid(new) BY <1>1, <1>2, <1>3 DEF Valid
  <2>. QED BY <1>5, <2>1 DEF RowsStayValid, Rows, Valid
<1>10. RowCovers'
  <2> SUFFICES ASSUME NEW q \in Sites, NEW i \in Events(q)' PROVE Covers(q, i)' BY DEF RowCovers
  <2>1. CASE q # s
    <3>1. i \in Events(q) /\ log'[i] = log[i] /\ row'[q] = row[q] BY <1>5, <1>6, <1>7, <2>1
    <3>. QED BY <3>1 DEF RowCovers, Covers
  <2>2. CASE q = s /\ i = n
    <3>1. log'[i].at = t /\ log'[i].gap = p.minInterval + j /\ log'[i].kind # "admit" BY <1>6, <2>2
    <3>2. row'[q].last = t /\ row'[q].next >= t + (p.minInterval + j) /\ row'[q] # NoRow
      BY <1>1, <1>3, <1>5, <2>2
    <3>. QED BY <1>1, <3>1, <3>2 DEF Covers
  <2>3. CASE q = s /\ i # n
    <3>1. i \in Events(s) /\ log'[i] = log[i] /\ Covers(s, i) BY <1>6, <1>7, <2>3 DEF RowCovers
    <3>2. log[i].at \in Nat /\ log[i].gap \in Nat BY <1>1, <1>7, <3>1, EventType
    <3>3. log[i].at <= new.last /\ log[i].at + log[i].gap <= new.next
      BY <1>1, <1>2, <1>3, <3>1, <3>2 DEF Covers
    <3>. QED BY <1>3, <1>5, <2>3, <3>1, <3>3 DEF Covers
  <2>. QED BY <2>1, <2>2, <2>3
<1>11. RowCounts'
  <2>1. \A q \in Rows : row'[q].start = row[q].start /\ row'[q].used = row[q].used /\ q \in Sites
    BY <1>3, <1>5 DEF Rows
  <2>2. ASSUME NEW q \in Rows
        PROVE {b \in Admissions(q)' : log'[b].start = row'[q].start} = InWindow(q, row[q].start)
    BY <1>6, <1>7, <2>1 DEF InWindow
  <2>. QED BY <1>5, <2>1, <2>2 DEF RowCounts, InWindow
<1>12. \A q \in Sites : \A a \in Admissions(q) : log'[a] = log[a] /\ a < n BY <1>6, <1>7
<1>13. GapsAreKept'
  <2> SUFFICES ASSUME NEW q \in Sites, NEW a \in Admissions(q), NEW i \in Events(q)', i < a
               PROVE log'[a].at >= log'[i].at + Larger(log'[i].gap, log'[a].policy.minInterval)
    BY <1>7 DEF GapsAreKept
  <2>1. i # n /\ i \in Events(q) /\ log'[i] = log[i] BY <1>6, <1>7, <1>12
  <2>. QED BY <1>12, <2>1 DEF GapsAreKept
<1>14. BudgetIsKept'
  <2> SUFFICES ASSUME NEW q \in Sites, NEW a \in Admissions(q)
               PROVE Cardinality({b \in Admissions(q)' : b <= a /\ log'[b].start = log'[a].start})
                       <= log'[a].policy.maxActions
    BY <1>7 DEF BudgetIsKept
  <2>1. {b \in Admissions(q)' : b <= a /\ log'[b].start = log'[a].start}
          = {b \in Admissions(q) : b <= a /\ log[b].start = log[a].start}
    BY <1>7, <1>12
  <2>. QED BY <1>12, <2>1 DEF BudgetIsKept
<1>15. WindowsAreApart' BY <1>7, <1>12 DEF WindowsAreApart
<1>. QED BY <1>8, <1>9, <1>10, <1>11, <1>13, <1>14, <1>15

LEMMA LedgerNextInv == LedgerInv /\ [LedgerNext]_ledgerVars => LedgerInv'
<1> SUFFICES ASSUME LedgerInv, [LedgerNext]_ledgerVars PROVE LedgerInv' OBVIOUS
<1>1. CASE UNCHANGED ledgerVars
  <2>1. row' = row /\ log' = log BY <1>1 DEF ledgerVars
  <2>. QED BY <2>1 DEF LedgerInv, RowsTyped, RowsStayValid, RowCovers, RowCounts, GapsAreKept, BudgetIsKept,
                      WindowsAreApart, Covers, Rows, Events, Admissions, InWindow
<1>2. CASE LedgerNext BY <1>2, ReserveInv, CompleteInv DEF LedgerNext
<1>. QED BY <1>1, <1>2

THEOREM LedgerInvariant == LedgerSpec => []LedgerInv
BY LedgerInitInv, LedgerNextInv, PTL DEF LedgerSpec
-----------------------------------------------------------------------------
\* Rows and history have their types (pacing_ledger.py:9).
THEOREM LedgerTypeCorrect == LedgerSpec => []RowsTyped
<1>1. LedgerInv => RowsTyped BY DEF LedgerInv
<1>. QED BY <1>1, LedgerInvariant, PTL

\* A stored row always passes the next reader's validation (pacing_ledger.py:22).
THEOREM RowsAreValid == LedgerSpec => []RowsStayValid
<1>1. LedgerInv => RowsStayValid BY DEF LedgerInv
<1>. QED BY <1>1, LedgerInvariant, PTL

\* Every gap that was asked for is kept (pacing_ledger.py:51).
THEOREM GapsKept == LedgerSpec => []GapsAreKept
<1>1. LedgerInv => GapsAreKept BY DEF LedgerInv
<1>. QED BY <1>1, LedgerInvariant, PTL

\* No admission is beyond its policy's budget (pacing_ledger.py:52).
THEOREM BudgetKept == LedgerSpec => []BudgetIsKept
<1>1. LedgerInv => BudgetIsKept BY DEF LedgerInv
<1>. QED BY <1>1, LedgerInvariant, PTL

\* Windows never overlap (pacing_ledger.py:44).
THEOREM WindowsApart == LedgerSpec => []WindowsAreApart
<1>1. LedgerInv => WindowsAreApart BY DEF LedgerInv
<1>. QED BY <1>1, LedgerInvariant, PTL

\* All five together: the property that the run checks.
THEOREM LedgerSound == LedgerSpec => []LedgerIsSound
<1>1. LedgerInv => LedgerIsSound BY DEF LedgerInv, LedgerIsSound
<1>. QED BY <1>1, LedgerInvariant, PTL
-----------------------------------------------------------------------------
(* A run that waits *)

Slices(k) == k * Slice

\* What is waited is counted, and a sleep is as long as it was asked for, or late.
Counted ==
  /\ pace.real = (IF PaceAt("sleep") THEN Waited ELSE pace.waited)
  /\ pace.pc \notin {"sleep", "stopped"} => pace.slept = 0
  /\ pace.pc \in {"refused", "sleep"} => pace.delay >= 1
  /\ PaceAt("sleep") => pace.slept <= Nap + Late
\* The time to the deadline and what was waited make up the budget.
Budgeted ==
  /\ Admitting /\ pace.left > 0 => pace.left + pace.real <= MaxWait
  /\ PaceAt("sleep") => pace.waited + Nap <= MaxWait
\* A cancelled run has slept no more, unless it is about to see it.
Heard ==
  /\ pace.cancelled /\ pace.pc \in {"idle", "reserve", "refused", "reserved", "input"} => pace.real <= pace.grace
  /\ pace.cancelled /\ PaceAt("sleep") => pace.waited <= pace.grace
\* Who is alone sleeps whole slices until its site is due.
Steady ==
  pace.alone /\ Admitting =>
    /\ pace.attempt < Attempts
    /\ pace.pc \in {"check", "reserve"} =>
         dueIn = 0 \/ pace.attempt = 0 \/ Slices(pace.attempt) + dueIn <= MaxWait
    /\ PaceAt("refused") =>
         dueIn <= pace.delay /\ (pace.attempt = 0 \/ Slices(pace.attempt) + pace.delay <= MaxWait)
    /\ PaceAt("sleep") =>
         dueIn <= Later(pace.delay - pace.slept, 0) /\ Slices(pace.attempt) + pace.delay <= MaxWait
Running == ~PaceAt("stopped") => pace.why = "none"
PacerInv == WaitsAreBounded /\ Counted /\ Budgeted /\ Heard /\ Steady /\ Running
-----------------------------------------------------------------------------
\* Slices add up, and as many as fit are fewer than the tries.
LEMMA SlicesAdd ==
  /\ Slices(0) = 0
  /\ \A k \in Nat : Slices(k) \in Nat /\ Slices(k + 1) = Slices(k) + Slice
  /\ \A k \in Nat : Slices(k) <= MaxWait => k + 1 < Attempts
  /\ Attempts \in Nat /\ Attempts > 0
<1>1. \A k \in Nat : Slices(k) \in Nat /\ Slices(k + 1) = Slices(k) + Slice
  BY PacerAssumption DEF Slices
<1>2. \A m, d \in Nat : d > 0 => m \div d \in Nat /\ m < d * ((m \div d) + 1)
  OBVIOUS
<1>3. MaxWait \div Slice \in Nat /\ MaxWait < Slice * ((MaxWait \div Slice) + 1)
  BY <1>2, PacerAssumption
<1>4. ASSUME NEW k \in Nat, Slices(k) <= MaxWait PROVE k + 1 < Attempts
  <2> DEFINE q == MaxWait \div Slice
  <2>1. q \in Nat /\ k * Slice < Slice * (q + 1) BY <1>3, <1>4, PacerAssumption DEF Slices
  <2> HIDE DEF q
  <2>2. \A a, b, d \in Nat : d > 0 /\ a >= b => a * d >= d * b OBVIOUS
  <2>3. k < q + 1 BY <2>1, <2>2, PacerAssumption
  <2>4. Attempts = q + 2 BY DEF Attempts, q
  <2> QED BY <2>1, <2>3, <2>4
<1> QED BY <1>1, <1>3, <1>4, PacerAssumption DEF Slices, Attempts

LEMMA PacerInitInv == PacerInit => PacerInv
BY PacerAssumption, SlicesAdd
   DEF PacerInit, PacerInv, WaitsAreBounded, PacerTypeOK, BudgetOfWaiting, CancelIsHeard, CapIsSpare,
       Counted, Budgeted, Heard, Steady, Running, PaceAt, Admitting, PaceSteps, PaceEnds

LEMMA PaceTypes ==
  PacerTypeOK => /\ pace.pc \in PaceSteps /\ pace.left \in Int /\ pace.attempt \in Nat /\ pace.delay \in Nat
                 /\ pace.slept \in Nat /\ pace.waited \in Nat /\ pace.operations \in Nat
                 /\ pace.cancelled \in BOOLEAN /\ pace.why \in PaceEnds /\ pace.real \in Nat
                 /\ pace.grace \in Nat /\ pace.alone \in BOOLEAN /\ dueIn \in Nat
BY DEF PacerTypeOK

\* A run that ends keeps the invariant, whyever it ends but for the bound of the
\* loop, which only one that was disturbed may reach.
LEMMA Ended ==
  ASSUME PacerInv, NEW why \in PaceEnds, RunEnds(why), why = "exhausted" => ~pace.alone, PaceAt("sleep") => FALSE
  PROVE  PacerInv'
<1> USE DEF PacerInv, WaitsAreBounded, PaceAt, RunEnds
<1>1. PacerTypeOK' BY DEF PacerTypeOK, PaceSteps
<1>2. /\ pace'.pc = "stopped" /\ pace'.why = why /\ pace'.real = pace.real /\ pace'.waited = pace.waited
      /\ pace'.grace = pace.grace /\ pace'.cancelled = pace.cancelled /\ pace'.alone = pace.alone
  BY DEF PacerTypeOK
<1>3. Counted' /\ Budgeted' /\ Heard' /\ Steady' /\ Running'
  BY <1>2 DEF Counted, Budgeted, Heard, Steady, Running, Admitting
<1>4. BudgetOfWaiting' /\ CancelIsHeard' /\ CapIsSpare'
  BY <1>2 DEF BudgetOfWaiting, CancelIsHeard, CapIsSpare
<1> QED BY <1>1, <1>3, <1>4

\* One step for each action, and under it one for each part of the invariant.
LEMMA PacerNextInv == PacerInv /\ [PacerNext]_pacerVars => PacerInv'
<1> SUFFICES ASSUME PacerInv, [PacerNext]_pacerVars PROVE PacerInv' OBVIOUS
<1> USE PacerAssumption DEF PaceAt, Admitting, RunGoes, PacerInv, WaitsAreBounded
<1>1. CASE BeginAdmit
  <2> USE <1>1 DEF BeginAdmit
  <2>1. PacerTypeOK'
    <3>1. Remaining \in Int BY PaceTypes DEF Remaining, Later
    <3>2. 0 \in Nat OBVIOUS
    <3> QED BY <3>1, <3>2 DEF PacerTypeOK, PaceSteps, PaceEnds
  <2>2. Counted' BY <2>1, PaceTypes DEF PacerTypeOK, Counted, Nap, Waited, Later, Sooner, Remaining
  <2>3. Budgeted' /\ BudgetOfWaiting' BY <2>1, <2>2, PaceTypes DEF PacerTypeOK, Counted, Budgeted, BudgetOfWaiting, Nap, Waited, Later, Sooner, Remaining
  <2>4. Heard' /\ CancelIsHeard' BY <2>1, <2>2, PaceTypes DEF PacerTypeOK, Counted, Heard, CancelIsHeard, Nap, Waited, Later, Sooner, Remaining
  <2>5. Steady' BY <2>1, <2>2, SlicesAdd, PaceTypes DEF PacerTypeOK, Counted, Budgeted, Steady, Nap, Waited, Later, Sooner, Remaining
  <2>6. Running' /\ CapIsSpare' BY <2>1 DEF PacerTypeOK, Running, CapIsSpare, Remaining
  <2> QED BY <2>1, <2>2, <2>3, <2>4, <2>5, <2>6
<1>2. CASE CheckWait
  <2> USE <1>2 DEF CheckWait
  <2>1. CASE Exhausted
    <3>1. ~pace.alone BY <2>1, SlicesAdd, PaceTypes DEF Exhausted, Steady
    <3> QED BY <2>1, <3>1, Ended DEF PaceEnds
  <2>2. CASE ~Exhausted /\ (pace.cancelled \/ Overslept) BY <2>2, Ended DEF PaceEnds
  <2>3. CASE ~Exhausted /\ ~pace.cancelled /\ ~Overslept
    <3>1. PacerTypeOK' BY <2>3 DEF PacerTypeOK, PaceSteps
    <3>2. /\ pace.pc = "check" /\ pace'.pc = "reserve" /\ dueIn' = dueIn /\ ~pace'.cancelled
          /\ \A f \in {"left", "attempt", "delay", "slept", "waited", "why", "real", "grace", "alone"} :
               pace'[f] = pace[f]
      BY <2>3 DEF PacerTypeOK
    <3>3. Counted' BY <3>2 DEF Counted
    <3>4. Budgeted' /\ BudgetOfWaiting' BY <3>2 DEF Budgeted, BudgetOfWaiting
    <3>5. Heard' /\ CancelIsHeard' BY <3>2 DEF Heard, CancelIsHeard
    <3>6. Steady' BY <3>2 DEF Steady
    <3>7. Running' /\ CapIsSpare' BY <3>2 DEF Running, CapIsSpare
    <3> QED BY <3>1, <3>3, <3>4, <3>5, <3>6, <3>7
  <2> QED BY <2>1, <2>2, <2>3
<1>3. CASE ReserveNow
  <2> USE <1>3 DEF ReserveNow
  <2>1. PacerTypeOK'
    <3>1. dueIn' \in Nat OBVIOUS
    <3>2. 0 \in Nat /\ 0 \in Int OBVIOUS
    <3> QED BY <3>1, <3>2 DEF PacerTypeOK, PaceSteps, PaceEnds
  <2>2. Counted' BY <2>1, PaceTypes DEF PacerTypeOK, Counted, Nap, Waited, Later, Sooner
  <2>3. Budgeted' /\ BudgetOfWaiting' BY <2>1, <2>2, PaceTypes DEF PacerTypeOK, Counted, Budgeted, BudgetOfWaiting, Nap, Waited, Later, Sooner
  <2>4. Heard' /\ CancelIsHeard' BY <2>1, <2>2, PaceTypes DEF PacerTypeOK, Counted, Heard, CancelIsHeard, Nap, Waited, Later, Sooner
  <2>5. Steady' BY <2>1, <2>2, SlicesAdd, PaceTypes DEF PacerTypeOK, Counted, Budgeted, Steady, Nap, Waited, Later, Sooner
  <2>6. Running' /\ CapIsSpare' BY <2>1 DEF PacerTypeOK, Running, CapIsSpare
  <2> QED BY <2>1, <2>2, <2>3, <2>4, <2>5, <2>6
<1>4. CASE ComeBack
  <2> USE <1>4 DEF ComeBack
  <2>1. PacerTypeOK' BY DEF PacerTypeOK, PaceSteps, PaceEnds
  <2>2. Counted' BY <2>1, PaceTypes DEF PacerTypeOK, Counted, Nap, Waited, Later, Sooner
  <2>3. Budgeted' /\ BudgetOfWaiting' BY <2>1, <2>2, PaceTypes DEF PacerTypeOK, Counted, Budgeted, BudgetOfWaiting, Nap, Waited, Later, Sooner
  <2>4. Heard' /\ CancelIsHeard' BY <2>1, <2>2, PaceTypes DEF PacerTypeOK, Counted, Heard, CancelIsHeard, Nap, Waited, Later, Sooner
  <2>5. Steady' BY <2>1, <2>2, SlicesAdd, PaceTypes DEF PacerTypeOK, Counted, Budgeted, Steady, Nap, Waited, Later, Sooner
  <2>6. Running' /\ CapIsSpare' BY <2>1 DEF PacerTypeOK, Running, CapIsSpare
  <2> QED BY <2>1, <2>2, <2>3, <2>4, <2>5, <2>6
<1>5. CASE Weigh
  <2> USE <1>5 DEF Weigh
  <2>1. CASE ~WaitFits BY <2>1, Ended DEF PaceEnds
  <2>2. CASE WaitFits
    <3>1. PacerTypeOK'
      <4>1. 0 \in Nat OBVIOUS
      <4> QED BY ZenonT(40), <2>2, <4>1 DEF PacerTypeOK, PaceSteps
    <3>2. /\ pace.pc = "refused" /\ pace'.pc = "sleep" /\ pace'.slept = 0 /\ dueIn' = dueIn
          /\ \A f \in {"left", "attempt", "delay", "waited", "cancelled", "why", "real", "grace", "alone"} :
               pace'[f] = pace[f]
      BY <2>2 DEF PacerTypeOK
    <3>3. pace.delay >= 1 /\ pace.left >= pace.delay /\ pace.left + pace.real <= MaxWait /\ pace.real = pace.waited
      BY <2>2, <3>2, PaceTypes DEF WaitFits, Counted, Budgeted, Later
    <3>4. Counted' BY <3>2, <3>3, PaceTypes DEF Counted, Waited, Nap, Sooner
    <3>5. Budgeted' /\ BudgetOfWaiting'
      BY <3>2, <3>3, PaceTypes DEF Budgeted, BudgetOfWaiting, Nap, Sooner
    <3>6. Heard' /\ CancelIsHeard' BY <3>2, <3>3, PaceTypes DEF Heard, CancelIsHeard
    <3>7. Steady' BY <3>2, <3>3, PaceTypes, SlicesAdd DEF Steady, Later
    <3>8. Running' /\ CapIsSpare' BY <3>2 DEF Running, CapIsSpare
    <3> QED BY <3>1, <3>4, <3>5, <3>6, <3>7, <3>8
  <2> QED BY <2>1, <2>2
<1>6. CASE WakeUp
  <2> USE <1>6 DEF WakeUp
  <2>1. PacerTypeOK'
    <3>1. Waited \in Nat BY PaceTypes DEF Waited
    <3>2. pace.attempt + 1 \in Nat /\ 0 \in Nat BY PaceTypes
    <3> QED BY <3>1, <3>2 DEF PacerTypeOK, PaceSteps, PaceEnds
  <2>2. Counted' BY <2>1, PaceTypes DEF PacerTypeOK, Counted, Nap, Waited, Later, Sooner
  <2>3. Budgeted' /\ BudgetOfWaiting' BY <2>1, <2>2, PaceTypes DEF PacerTypeOK, Counted, Budgeted, BudgetOfWaiting, Nap, Waited, Later, Sooner
  <2>4. Heard' /\ CancelIsHeard' BY <2>1, <2>2, PaceTypes DEF PacerTypeOK, Counted, Heard, CancelIsHeard, Nap, Waited, Later, Sooner
  <2>5. Steady' BY <2>1, <2>2, SlicesAdd, PaceTypes DEF PacerTypeOK, Counted, Budgeted, Steady, Nap, Waited, Later, Sooner
  <2>6. Running' /\ CapIsSpare' BY <2>1 DEF PacerTypeOK, Running, CapIsSpare
  <2> QED BY <2>1, <2>2, <2>3, <2>4, <2>5, <2>6
<1>7. CASE Interrupted
  <2> USE <1>7 DEF Interrupted
  <2>1. PacerTypeOK'
    <3>1. Waited \in Nat BY PaceTypes DEF Waited
    <3> QED BY <3>1 DEF PacerTypeOK, PaceSteps, PaceEnds
  <2>2. Counted' BY <2>1, PaceTypes DEF PacerTypeOK, Counted, Nap, Waited, Later, Sooner
  <2>3. Budgeted' /\ BudgetOfWaiting' BY <2>1, <2>2, PaceTypes DEF PacerTypeOK, Counted, Budgeted, BudgetOfWaiting, Nap, Waited, Later, Sooner
  <2>4. Heard' /\ CancelIsHeard' BY <2>1, <2>2, PaceTypes DEF PacerTypeOK, Counted, Heard, CancelIsHeard, Nap, Waited, Later, Sooner
  <2>5. Steady' BY <2>1, <2>2, SlicesAdd, PaceTypes DEF PacerTypeOK, Counted, Budgeted, Steady, Nap, Waited, Later, Sooner
  <2>6. Running' /\ CapIsSpare' BY <2>1 DEF PacerTypeOK, Running, CapIsSpare
  <2> QED BY <2>1, <2>2, <2>3, <2>4, <2>5, <2>6
<1>8. CASE AdmitRun
  <2> USE <1>8 DEF AdmitRun
  <2>1. CASE pace.cancelled BY <2>1, Ended DEF PaceEnds
  <2>2. CASE ~pace.cancelled
    <3>1. PacerTypeOK' BY <2>2 DEF PacerTypeOK, PaceSteps
    <3>2. /\ pace.pc = "reserved" /\ pace'.pc = "input"
          /\ \A f \in {"slept", "waited", "cancelled", "why", "real", "grace", "alone"} : pace'[f] = pace[f]
      BY <2>2 DEF PacerTypeOK
    <3>3. Counted' /\ Budgeted' /\ Steady' /\ Running' BY <3>2 DEF Counted, Budgeted, Steady, Running
    <3>4. Heard' BY <3>2 DEF Heard
    <3>5. BudgetOfWaiting' /\ CancelIsHeard' /\ CapIsSpare'
      BY <3>2 DEF BudgetOfWaiting, CancelIsHeard, CapIsSpare
    <3> QED BY <3>1, <3>3, <3>4, <3>5
  <2> QED BY <2>1, <2>2
<1>9. CASE CompleteNow
  <2> USE <1>9 DEF CompleteNow
  <2>1. PacerTypeOK'
    <3>1. dueIn' \in Nat BY PaceTypes DEF Later
    <3>2. pace.operations + 1 \in Nat BY PaceTypes
    <3> QED BY ZenonT(40), <3>1, <3>2 DEF PacerTypeOK, PaceSteps, PaceEnds
  <2>2. Counted' BY <2>1, PaceTypes DEF PacerTypeOK, Counted, Nap, Waited, Later, Sooner
  <2>3. Budgeted' /\ BudgetOfWaiting' BY <2>1, <2>2, PaceTypes DEF PacerTypeOK, Counted, Budgeted, BudgetOfWaiting, Nap, Waited, Later, Sooner
  <2>4. Heard' /\ CancelIsHeard' BY <2>1, <2>2, PaceTypes DEF PacerTypeOK, Counted, Heard, CancelIsHeard, Nap, Waited, Later, Sooner
  <2>5. Steady' BY <2>1, <2>2, SlicesAdd, PaceTypes DEF PacerTypeOK, Counted, Budgeted, Steady, Nap, Waited, Later, Sooner
  <2>6. Running' /\ CapIsSpare' BY <2>1 DEF PacerTypeOK, Running, CapIsSpare
  <2> QED BY <2>1, <2>2, <2>3, <2>4, <2>5, <2>6
<1>10. CASE OpFails BY <1>10, Ended DEF OpFails, PaceEnds
<1>11. CASE CancelRun
  <2> USE <1>11 DEF CancelRun
  <2>1. PacerTypeOK'
    <3>1. pace.real \in Nat BY PaceTypes
    <3> QED BY <3>1 DEF PacerTypeOK, PaceSteps, PaceEnds
  <2>2. Counted' BY <2>1, PaceTypes DEF PacerTypeOK, Counted, Nap, Waited, Later, Sooner
  <2>3. Budgeted' /\ BudgetOfWaiting' BY <2>1, <2>2, PaceTypes DEF PacerTypeOK, Counted, Budgeted, BudgetOfWaiting, Nap, Waited, Later, Sooner
  <2>4. Heard' /\ CancelIsHeard' BY <2>1, <2>2, PaceTypes DEF PacerTypeOK, Counted, Heard, CancelIsHeard, Nap, Waited, Later, Sooner
  <2>5. Steady' BY <2>1, <2>2, SlicesAdd, PaceTypes DEF PacerTypeOK, Counted, Budgeted, Steady, Nap, Waited, Later, Sooner
  <2>6. Running' /\ CapIsSpare' BY <2>1 DEF PacerTypeOK, Running, CapIsSpare
  <2> QED BY <2>1, <2>2, <2>3, <2>4, <2>5, <2>6
<1>12. CASE TickPasses
  <2> USE <1>12 DEF TickPasses
  <2>1. PacerTypeOK'
    <3>1. dueIn' \in Nat BY PaceTypes DEF Later
    <3>2. Later(pace.left - 1, -1) \in Int /\ 0 \in Int /\ 0 \in Nat /\ pace.slept + 1 \in Nat /\ pace.real + 1 \in Nat BY PaceTypes DEF Later
    <3> QED BY <3>1, <3>2 DEF PacerTypeOK, PaceSteps, PaceEnds
  <2>2. Counted' BY <2>1, PaceTypes DEF PacerTypeOK, Counted, Nap, Waited, Later, Sooner
  <2>3. Budgeted' /\ BudgetOfWaiting' BY <2>1, <2>2, PaceTypes DEF PacerTypeOK, Counted, Budgeted, BudgetOfWaiting, Nap, Waited, Later, Sooner
  <2>4. Heard' /\ CancelIsHeard' BY <2>1, <2>2, PaceTypes DEF PacerTypeOK, Counted, Heard, CancelIsHeard, Nap, Waited, Later, Sooner
  <2>5. Steady' BY <2>1, <2>2, SlicesAdd, PaceTypes DEF PacerTypeOK, Counted, Budgeted, Steady, Nap, Waited, Later, Sooner
  <2>6. Running' /\ CapIsSpare' BY <2>1 DEF PacerTypeOK, Running, CapIsSpare
  <2> QED BY <2>1, <2>2, <2>3, <2>4, <2>5, <2>6
<1>13. CASE OthersWrite
  <2> USE <1>13 DEF OthersWrite
  <2>1. PacerTypeOK'
    <3>1. dueIn' \in Nat OBVIOUS
    <3> QED BY <3>1 DEF PacerTypeOK, PaceSteps, PaceEnds
  <2>2. Counted' BY <2>1, PaceTypes DEF PacerTypeOK, Counted, Nap, Waited, Later, Sooner
  <2>3. Budgeted' /\ BudgetOfWaiting' BY <2>1, <2>2, PaceTypes DEF PacerTypeOK, Counted, Budgeted, BudgetOfWaiting, Nap, Waited, Later, Sooner
  <2>4. Heard' /\ CancelIsHeard' BY <2>1, <2>2, PaceTypes DEF PacerTypeOK, Counted, Heard, CancelIsHeard, Nap, Waited, Later, Sooner
  <2>5. Steady' BY <2>1, <2>2, SlicesAdd, PaceTypes DEF PacerTypeOK, Counted, Budgeted, Steady, Nap, Waited, Later, Sooner
  <2>6. Running' /\ CapIsSpare' BY <2>1 DEF PacerTypeOK, Running, CapIsSpare
  <2> QED BY <2>1, <2>2, <2>3, <2>4, <2>5, <2>6
<1>14. CASE WallIsSet
  <2> USE <1>14 DEF WallIsSet
  <2>1. PacerTypeOK'
    <3>1. dueIn' \in Nat BY PaceTypes
    <3> QED BY <3>1 DEF PacerTypeOK, PaceSteps, PaceEnds
  <2>2. Counted' BY <2>1, PaceTypes DEF PacerTypeOK, Counted, Nap, Waited, Later, Sooner
  <2>3. Budgeted' /\ BudgetOfWaiting' BY <2>1, <2>2, PaceTypes DEF PacerTypeOK, Counted, Budgeted, BudgetOfWaiting, Nap, Waited, Later, Sooner
  <2>4. Heard' /\ CancelIsHeard' BY <2>1, <2>2, PaceTypes DEF PacerTypeOK, Counted, Heard, CancelIsHeard, Nap, Waited, Later, Sooner
  <2>5. Steady' BY <2>1, <2>2, SlicesAdd, PaceTypes DEF PacerTypeOK, Counted, Budgeted, Steady, Nap, Waited, Later, Sooner
  <2>6. Running' /\ CapIsSpare' BY <2>1 DEF PacerTypeOK, Running, CapIsSpare
  <2> QED BY <2>1, <2>2, <2>3, <2>4, <2>5, <2>6
<1>15. CASE UNCHANGED pacerVars
  BY <1>15 DEF pacerVars, PacerTypeOK, BudgetOfWaiting, CancelIsHeard, CapIsSpare, Counted, Budgeted,
     Heard, Steady, Running, Waited, Nap
<1> QED BY <1>1, <1>2, <1>3, <1>4, <1>5, <1>6, <1>7, <1>8, <1>9, <1>10, <1>11, <1>12, <1>13, <1>14, <1>15
        DEF PacerNext

\* The inductive invariant of the pacer.
THEOREM PacerInvariant == PacerSpec => []PacerInv
<1>1. PacerInit => PacerInv BY PacerInitInv
<1>2. PacerInv /\ [PacerNext]_pacerVars => PacerInv' BY PacerNextInv
<1> QED BY <1>1, <1>2, PTL DEF PacerSpec

\* Whatever others spend, however the wall clock is set and however late sleeps
\* end: no run waits longer than its budget (pacing.py:31-49), a cancelled one no
\* longer than a slice (:52), and the loop's bound is met by no run that is alone
\* (:33-34).
THEOREM BoundedWaits == PacerSpec => []WaitsAreBounded
<1>1. PacerInv => WaitsAreBounded BY DEF PacerInv
<1> QED BY <1>1, PacerInvariant, PTL
=============================================================================
