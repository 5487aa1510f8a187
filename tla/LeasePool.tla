----------------------------- MODULE LeasePool -----------------------------
(***************************************************************************)
(* The snapshot leases of the display driver: the pool of slots            *)
(* (native/gpu-dummy/src/lease.rs), the X extension that hands them to one *)
(* client (abi/lease-extension.c, abi/lease-copy.c), and the damage and    *)
(* resize callbacks (abi/lease-state.c).  The X server has one thread:     *)
(* every request and every callback is one action.                         *)
(*                                                                         *)
(* Abstracted: a pixel's value is the number of the paint that last set    *)
(* its tile; a display size is the set of its tiles, and no tiles is a     *)
(* size that capture does not support (width = 0 in the code).             *)
(***************************************************************************)
EXTENDS Integers, FiniteSets

CONSTANTS Clients, NoClient,
          SlotCount,       \* snapshot slots (3 in the code)
          Sizes,           \* the display sizes, each a set of tiles
          MaxSerial,       \* u32::MAX in the code
          MaxGeneration,   \* u32::MAX in the code
          MaxPaints        \* bound: paints

ASSUME ClientsAssumption == NoClient \notin Clients
ASSUME CountAssumption ==
  /\ SlotCount \in Nat /\ MaxPaints \in Nat
  /\ MaxSerial \in Nat /\ MaxGeneration \in Nat \ {0}

Slots == 0..(SlotCount - 1)
Tiles == UNION Sizes

VARIABLES screen,      \* tiles of the root pixmap, {} for a size capture does not support
          size,        \* the pool's size: the screen's, or {} while capture is off
          generation,  \* bumped by every resize
          serial,      \* the last lease number given out
          lease,       \* lease[s]: the lease that holds slot s, or 0
          slotGen,     \* slotGen[s]: the generation it was given out in
          dirty,       \* dirty[s]: tiles changed since slot s was last copied
          root,        \* root[t]: what the screen shows in tile t
          pixmapSize,  \* pixmapSize[s]: size of slot s's pixmap, {} if there is none
          pixmap,      \* pixmap[s][t]: what slot s's pixmap shows in tile t
          owner,       \* the client that has acquired leases
          held,        \* the tokens the owner holds
          paints       \* paints so far

poolVars   == <<generation, serial, lease, slotGen, dirty>>
screenVars == <<screen, size, root, paints>>
vars == <<poolVars, screenVars, pixmapSize, pixmap, owner, held>>

Token == [slot : Slots, lease : 1..MaxSerial, generation : 0..MaxGeneration]

TypeOK ==
  /\ screen \in Sizes \cup {{}} /\ size \in {screen, {}} /\ root \in [Tiles -> Nat] /\ paints \in Nat
  /\ generation \in 0..MaxGeneration /\ serial \in 0..MaxSerial
  /\ lease \in [Slots -> 0..MaxSerial] /\ slotGen \in [Slots -> 0..MaxGeneration]
  /\ dirty \in [Slots -> SUBSET Tiles]
  /\ pixmapSize \in [Slots -> Sizes \cup {{}}]
  /\ pixmap \in [Slots -> [Tiles -> Nat]]
  /\ owner \in Clients \cup {NoClient}
  /\ held \subseteq Token

\* A pool just made, and resized once to the size of the screen.
FreshPool ==
  /\ generation' = 1 /\ serial' = 0 /\ size' = screen
  /\ lease' = [s \in Slots |-> 0] /\ slotGen' = [s \in Slots |-> 0]
  /\ dirty' = [s \in Slots |-> Tiles]

Init ==
  /\ screen \in Sizes \cup {{}} /\ size = screen /\ root = [t \in Tiles |-> 0] /\ paints = 0
  /\ generation = 1 /\ serial = 0
  /\ lease = [s \in Slots |-> 0] /\ slotGen = [s \in Slots |-> 0]
  /\ dirty = [s \in Slots |-> Tiles]
  /\ pixmapSize = [s \in Slots |-> {}]
  /\ pixmap = [s \in Slots |-> [t \in Tiles |-> 0]]
  /\ owner = NoClient /\ held = {}
-----------------------------------------------------------------------------
(* The screen *)

\* What is drawn in tiles ts by this paint.
Drawn(ts) ==
  /\ paints < MaxPaints /\ paints' = paints + 1
  /\ root' = [t \in Tiles |-> IF t \in ts THEN paints + 1 ELSE root[t]]

\* Mutant of Paint: a busy slot does not accumulate damage.
PaintIdleSlots(ts) ==
  /\ ts \subseteq screen /\ Drawn(ts)
  /\ dirty' = [s \in Slots |-> IF lease[s] = 0 THEN dirty[s] \cup (ts \cap size) ELSE dirty[s]]
  /\ UNCHANGED <<screen, size, generation, serial, lease, slotGen, pixmapSize, pixmap, owner, held>>

\* Something is drawn; the damage callback runs after the operation.  The
\* damage is clipped to the pool's size.
Paint(ts) ==
  /\ ts \subseteq screen /\ Drawn(ts)
  /\ dirty' = [s \in Slots |-> dirty[s] \cup (ts \cap size)]
  /\ UNCHANGED <<screen, size, generation, serial, lease, slotGen, pixmapSize, pixmap, owner, held>>

\* Mutants of Resize: slots keep what is clean; and leases are taken back.
ResizeKeeps(new) ==
  /\ Drawn(Tiles) /\ screen' = new
  /\ IF generation < MaxGeneration
     THEN size' = new /\ generation' = generation + 1
     ELSE size' = {} /\ UNCHANGED generation
  /\ UNCHANGED <<dirty, serial, lease, slotGen, pixmapSize, pixmap, owner, held>>
ResizeFrees(new) ==
  /\ Drawn(Tiles) /\ screen' = new
  /\ IF generation < MaxGeneration
     THEN /\ size' = new /\ generation' = generation + 1
          /\ dirty' = [s \in Slots |-> Tiles]
     ELSE size' = {} /\ UNCHANGED <<generation, dirty>>
  /\ lease' = [s \in Slots |-> 0]
  /\ UNCHANGED <<serial, slotGen, pixmapSize, pixmap, owner, held>>

\* The screen gets another root pixmap, maybe of the same size: leases stay
\* with their holders, nothing that was copied before is current.  When the
\* generation number is used up capture goes off.
Resize(new) ==
  /\ Drawn(Tiles) /\ screen' = new
  /\ IF generation < MaxGeneration
     THEN /\ size' = new /\ generation' = generation + 1
          /\ dirty' = [s \in Slots |-> Tiles]
     ELSE size' = {} /\ UNCHANGED <<generation, dirty>>
  /\ UNCHANGED <<serial, lease, slotGen, pixmapSize, pixmap, owner, held>>
-----------------------------------------------------------------------------
(* The client's requests *)

Matches(token) ==
  /\ token.slot \in Slots /\ token.lease # 0
  /\ lease[token.slot] = token.lease /\ slotGen[token.slot] = token.generation

\* Mutant of FreeSlots: a slot leased before the last resize is taken again.
FreeSlotsOrOld == {s \in Slots : lease[s] = 0 \/ slotGen[s] # generation}
FreeSlots == {s \in Slots : lease[s] = 0}
Given(s) == [slot |-> s, lease |-> serial + 1, generation |-> generation]

\* Mutant of CanBegin: the lease number is not checked for overflow.
CanBeginUnchecked(c, s) ==
  /\ owner \in {NoClient, c} /\ size # {}
  /\ s \in FreeSlots /\ \A q \in FreeSlots : s <= q

\* begin: the first free slot and a new lease number, or none of either.
CanBegin(c, s) ==
  /\ owner \in {NoClient, c}                                   \* BadAccess
  /\ size # {}                                                 \* BP_UNAVAILABLE
  /\ s \in FreeSlots /\ \A q \in FreeSlots : s <= q            \* BP_BUSY
  /\ serial < MaxSerial

\* The slot's pixmap as the copy finds it: one of another size is replaced by
\* a cleared one.
Base(s) == IF pixmapSize[s] = size THEN pixmap[s] ELSE [t \in Tiles |-> 0]
Copied(s) == [t \in Tiles |-> IF t \in dirty[s] \cap size THEN root[t] ELSE Base(s)[t]]

\* begin, copy what is dirty, export, commit.
Acquire(c, s) ==
  /\ CanBegin(c, s)
  /\ serial' = serial + 1
  /\ lease' = [lease EXCEPT ![s] = serial + 1]
  /\ slotGen' = [slotGen EXCEPT ![s] = generation]
  /\ pixmapSize' = [pixmapSize EXCEPT ![s] = size]
  /\ pixmap' = [pixmap EXCEPT ![s] = Copied(s)]
  /\ dirty' = [dirty EXCEPT ![s] = {}]
  /\ owner' = c /\ held' = held \cup {Given(s)}
  /\ UNCHANGED <<screenVars, generation>>

\* What a failing acquire may leave in the slot: the allocation of a pixmap
\* failed, or it succeeded and the copy was or was not made.
HalfCopied(s) ==
  \/ /\ pixmapSize' = [pixmapSize EXCEPT ![s] = IF @ = size THEN @ ELSE {}]
     /\ UNCHANGED pixmap
  \/ /\ pixmapSize' = [pixmapSize EXCEPT ![s] = size]
     /\ pixmap' \in {[pixmap EXCEPT ![s] = Base(s)], [pixmap EXCEPT ![s] = Copied(s)]}

\* Mutants of AcquireFails: what was copied counts as committed; and the slot
\* is not given back.
AcquireFailsClean(c, s) ==
  /\ CanBegin(c, s) /\ HalfCopied(s)
  /\ serial' = serial + 1
  /\ slotGen' = [slotGen EXCEPT ![s] = generation]
  /\ dirty' = [dirty EXCEPT ![s] = {}]
  /\ UNCHANGED <<screenVars, generation, lease, owner, held>>
AcquireFailsLeaks(c, s) ==
  /\ CanBegin(c, s) /\ HalfCopied(s)
  /\ serial' = serial + 1
  /\ lease' = [lease EXCEPT ![s] = serial + 1]
  /\ slotGen' = [slotGen EXCEPT ![s] = generation]
  /\ UNCHANGED <<screenVars, generation, dirty, owner, held>>

\* The same, with an allocation, the export, the fence or the descriptors
\* failing on the way: the slot is free again and stays dirty.
AcquireFails(c, s) ==
  /\ CanBegin(c, s) /\ HalfCopied(s)
  /\ serial' = serial + 1
  /\ slotGen' = [slotGen EXCEPT ![s] = generation]
  /\ UNCHANGED <<screenVars, generation, dirty, lease, owner, held>>

\* The holder gives a lease back; a token that does not match is a BadValue.
Release(c, token) ==
  /\ owner = c /\ token \in held
  /\ Matches(token)
  /\ lease' = [lease EXCEPT ![token.slot] = 0]
  /\ held' = held \ {token}
  /\ UNCHANGED <<screenVars, generation, serial, slotGen, dirty, pixmapSize, pixmap, owner>>

\* The owner's connection closes: pixmaps, pool and ownership start afresh.
Gone(c) ==
  /\ owner = c
  /\ FreshPool
  /\ pixmapSize' = [s \in Slots |-> {}]
  /\ owner' = NoClient /\ held' = {}
  /\ UNCHANGED <<screen, root, paints, pixmap>>
-----------------------------------------------------------------------------
Next ==
  \/ \E ts \in SUBSET screen : Paint(ts)
  \/ \E new \in Sizes \cup {{}} : Resize(new)
  \/ \E c \in Clients : \/ \E s \in Slots : Acquire(c, s) \/ AcquireFails(c, s)
                        \/ \E token \in held : Release(c, token)
                        \/ Gone(c)

Spec == Init /\ [][Next]_vars
-----------------------------------------------------------------------------
(* Properties *)

\* A tile a slot counts as clean shows what the screen shows: no paint, resize,
\* failed export or reset leaves a stale tile that would never be copied again
\* (lease.rs:58, :89; lease-copy.c:37).
CleanIsCurrent ==
  \A s \in Slots : \A t \in size \ dirty[s] :
     pixmapSize[s] = size /\ pixmap[s][t] = root[t]

\* A lease that is held always matches, across resizes and others' leases: the
\* holder, who aborts on an X error, can give it back (lease.rs:82).
HeldMatches == \A token \in held : Matches(token)

\* No two leases share a slot, and every busy slot has a holder: nothing leaks
\* until the pool is BUSY for ever (lease-extension.c:37-40).
LeasesAreHeld ==
  /\ \A a, b \in held : a.slot = b.slot => a = b
  /\ \A s \in Slots : lease[s] # 0 => \E a \in held : a.slot = s /\ a.lease = lease[s]

\* The image a holder analyses never changes under it, and a new lease shows
\* exactly the screen (lease.rs:2: "cannot be overwritten before release").
LeasedIsFrozen ==
  [][\A s \in Slots :
       /\ lease[s] # 0 /\ lease'[s] = lease[s] =>
            pixmap'[s] = pixmap[s] /\ pixmapSize'[s] = pixmapSize[s]
       /\ lease[s] = 0 /\ lease'[s] # 0 =>
            \A t \in size : pixmap'[s][t] = root[t]]_<<lease, pixmap, pixmapSize>>

\* All of it, at every moment.
PoolIsSound == TypeOK /\ CleanIsCurrent /\ HeldMatches /\ LeasesAreHeld
=============================================================================
