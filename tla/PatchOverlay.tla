---------------------------- MODULE PatchOverlay ----------------------------
(***************************************************************************)
(* A run of the upscaling (client/enhancement/enhancement-run.ts): the     *)
(* grid of patches that damage makes dirty (damage-grid.ts), the timer and *)
(* the frame that start a batch, the one patch the GPU works on            *)
(* (gpu-upscaler.ts, gpu-resources.ts), and the overlay that covers the    *)
(* original pixels with what came out.                                     *)
(*                                                                         *)
(* Time is relative: wait[p] is how long patch p is still unstable.  The   *)
(* network's buffers hold the number of the layer that was written last.   *)
(***************************************************************************)
EXTENDS Integers, FiniteSets, FiniteSetsExt

CONSTANTS Width, Height,   \* of the canvas
          PatchSize, Halo,
          Rects,           \* [x, y, w, h]: damage that the renderer reports
          Delay,           \* Delay[kind]: tile, scroll, video
          SlowPatches,     \* bound of consecutive slow patches: 4
          WarmUp,          \* samples that do not count: 2
          BatchSize,       \* patches of a turn: 4
          MaxDamages       \* bound: damage that is reported
ASSUME OverlayAssumption ==
  /\ {Halo, SlowPatches, WarmUp, BatchSize, MaxDamages} \subseteq Nat
  /\ {Width, Height, PatchSize} \subseteq Nat \ {0}
  /\ Rects \subseteq [x : Int, y : Int, w : Nat \ {0}, h : Nat \ {0}]   \* others are turned away
  /\ "tile" \in DOMAIN Delay /\ \A kind \in DOMAIN Delay : Delay[kind] \in Nat

VARIABLES mode,      \* the model: balanced or quality
          grid,      \* DamageGrid
          run,       \* EnhancementRun
          job,       \* the patch in flight
          overlay,   \* overlay[p]: is it covered, and is the cover true (history)
          damages
overlayVars == <<mode, grid, run, job, overlay, damages>>

CeilDiv(a, b) == (a + b - 1) \div b
Columns == CeilDiv(Width, PatchSize)
PatchRows == CeilDiv(Height, PatchSize)
Patches == 0..(Columns * PatchRows - 1)
-----------------------------------------------------------------------------
\* The place of a patch, and the crop its pixels are computed from, as
\* [x0, x1) and [y0, y1).
Span(at, size, halo) ==
  [from |-> Max({0, at * PatchSize - halo}), to |-> Min({size, Min({size, (at + 1) * PatchSize}) + halo})]
Crop(p, halo) == [x |-> Span(p % Columns, Width, halo), y |-> Span(p \div Columns, Height, halo)]
Meets(s, from, length) == s.from < from + length /\ from < s.to

\* The patches of a rectangle of damage: those whose place or halo it touches.
FirstPatch(from) == Max({0, (from - Halo) \div PatchSize})
\* Mutant of LastPatch: the far side has no halo.
LastPatchBare(from, length, count) == Min({count, CeilDiv(from + length, PatchSize)})
LastPatch(from, length, count) == Min({count, CeilDiv(from + length + Halo, PatchSize)})
Invalidated(r) ==
  {p \in Patches :
     /\ p % Columns \in FirstPatch(r.x)..LastPatch(r.x, r.w, Columns)-1
     /\ p \div Columns \in FirstPatch(r.y)..LastPatch(r.y, r.h, PatchRows)-1}

\* Balanced has four layers that take turns in two buffers, quality seven that
\* keep their own; a layer reads what the one before it wrote, and the display
\* reads the second buffer, or heads that read all seven.
Layers(m) == IF m = "balanced" THEN 4 ELSE 7
Features(m) == IF m = "balanced" THEN 2 ELSE 7
\* Mutant of ReadsBuffer: a layer reads the buffer it writes.
ReadsBufferOwn(i, m) == i % Features(m)
ReadsBuffer(i, m) == (i - 1) % Features(m)
\* The layer whose output a buffer has once n of them have run.
LastWriter(m, b, n) == Max({-1} \cup {i \in 0..n-1 : i % Features(m) = b})
Computed(m) ==
  /\ \A i \in 1..Layers(m)-1 : LastWriter(m, ReadsBuffer(i, m), i) = i - 1
  /\ IF m = "balanced" THEN LastWriter(m, 1, Layers(m)) = Layers(m) - 1
     ELSE \A b \in 0..Features(m)-1 : LastWriter(m, b, Layers(m)) = b
-----------------------------------------------------------------------------
OverlayInit ==
  /\ mode \in {"balanced", "quality"} /\ damages = 0
  /\ grid = [dirty |-> Patches, revision |-> [p \in Patches |-> 1],
             wait |-> [p \in Patches |-> Delay["tile"]], cursor |-> 0]   \* start(): all of it
  /\ run = [stopped |-> FALSE, resized |-> FALSE, busy |-> FALSE, timer |-> Delay["tile"], frame |-> FALSE,
            batch |-> 0, slow |-> 0, samples |-> 0]
  /\ job = [patch |-> -1, revision |-> 0, true |-> FALSE]
  /\ overlay = [p \in Patches |-> [covered |-> FALSE, true |-> FALSE]]

Off == -1
\* schedule(): a timer for the patch that is stable first, unless one runs.
Scheduled(r, g) ==
  IF r.stopped \/ r.busy \/ r.frame \/ r.timer # Off \/ g.dirty = {} THEN r
  ELSE [r EXCEPT !.timer = Min({g.wait[p] : p \in g.dirty})]
\* destroy(): the overlay is removed; what the GPU still returns is dropped.
Ended(r) == [r EXCEPT !.stopped = TRUE, !.timer = Off, !.frame = FALSE]

\* The pixels change and the listener is called in the same turn.
Damage(r, kind) ==
  LET hit == Invalidated(r)
      reads(p) == Meets(Crop(p, Halo).x, r.x, r.w) /\ Meets(Crop(p, Halo).y, r.y, r.h)
      g == [grid EXCEPT !.dirty = @ \cup hit,
              !.revision = [p \in Patches |-> IF p \in hit THEN @[p] + 1 ELSE @[p]],
              !.wait = [p \in Patches |-> IF p \in hit THEN Max({@[p], Delay[kind]}) ELSE @[p]]]
  IN /\ ~run.stopped /\ damages < MaxDamages /\ damages' = damages + 1
     /\ grid' = g /\ run' = Scheduled(run, g)
     /\ overlay' = [p \in Patches |-> IF p \in hit THEN [covered |-> FALSE, true |-> FALSE]
                                      ELSE [overlay[p] EXCEPT !.true = @ /\ ~reads(p)]]
     /\ job' = [job EXCEPT !.true = @ /\ ~reads(job.patch)]
     /\ UNCHANGED mode

Tick ==
  /\ run.timer > 0 \/ \E p \in Patches : grid.wait[p] > 0
  /\ grid' = [grid EXCEPT !.wait = [p \in Patches |-> Max({0, @[p] - 1})]]
  /\ run' = [run EXCEPT !.timer = IF @ > 0 THEN @ - 1 ELSE @]
  /\ UNCHANGED <<mode, job, overlay, damages>>
TimerFires == /\ run.timer = 0 /\ run' = [run EXCEPT !.timer = Off, !.frame = TRUE]
              /\ UNCHANGED <<mode, grid, job, overlay, damages>>
\* The patches that may be worked on, and the next one after the cursor.
Ready(g) == {p \in g.dirty : g.wait[p] = 0}
NextPatch(g) ==
  CHOOSE p \in Ready(g) : \A q \in Ready(g) :
    (p - g.cursor) % (Columns * PatchRows) <= (q - g.cursor) % (Columns * PatchRows)
\* One more patch of the batch.  With none left, or with the batch over, the turn
\* ends.
\* Mutant of EndTurn: nothing is scheduled after a batch.
EndTurnQuiet(r, g) == [r EXCEPT !.busy = FALSE]
EndTurn(r, g) == Scheduled([r EXCEPT !.busy = FALSE], g)
\* GpuUpscaler.render copies the crop and awaits the GPU.
Render(p) == [patch |-> p, revision |-> grid.revision[p], true |-> Computed(mode)]
Continue(r, goOn) ==
  IF goOn /\ r.batch < BatchSize /\ Ready(grid) # {}
  THEN LET p == NextPatch(grid)
       IN /\ grid' = [grid EXCEPT !.dirty = @ \ {p}, !.cursor = (p + 1) % (Columns * PatchRows)]
          /\ job' = Render(p)
          /\ run' = [r EXCEPT !.busy = TRUE, !.batch = @ + 1]
  ELSE UNCHANGED grid /\ job' = [job EXCEPT !.patch = -1, !.true = FALSE] /\ run' = EndTurn(r, grid)
Frame ==
  /\ run.frame /\ UNCHANGED <<mode, overlay, damages>>
  /\ IF run.busy \/ run.resized THEN run' = [run EXCEPT !.frame = FALSE] /\ UNCHANGED <<grid, job>>
     ELSE Continue([run EXCEPT !.frame = FALSE, !.batch = 0], TRUE)

\* Mutant of IsCurrent: whatever the GPU returns is drawn.
IsCurrentAny(j) == TRUE
IsCurrent(j) == grid.revision[j.patch] = j.revision
\* The fence is passed after a short or a long time: too many long ones in a row
\* and the run gives up; a patch that was damaged meanwhile is dropped.  More of
\* the batch follows if eight milliseconds are not over.
Rendered(long, goOn) ==
  LET samples == Min({run.samples + 1, WarmUp + 1})
      slow == IF samples <= WarmUp THEN run.slow ELSE IF long THEN run.slow + 1 ELSE 0
      r == [run EXCEPT !.samples = samples, !.slow = slow]
  IN /\ job.patch # -1 /\ ~run.stopped /\ UNCHANGED <<mode, damages>>
     /\ IF slow >= SlowPatches
        THEN run' = Ended(r) /\ job' = [job EXCEPT !.patch = -1, !.true = FALSE] /\ UNCHANGED <<grid, overlay>>
        ELSE /\ Continue(r, goOn)
             /\ overlay' = IF IsCurrent(job) /\ ~run.resized
                           THEN [overlay EXCEPT ![job.patch] = [covered |-> TRUE, true |-> job.true]]
                           ELSE overlay
\* The GPU fails, or hangs for a second and a half, or the context is lost; or the
\* controller stops the run.
Ends == /\ ~run.stopped /\ run' = Ended(run) /\ UNCHANGED <<mode, grid, job, overlay, damages>>
Resizes == /\ ~run.stopped /\ ~run.resized /\ run' = [run EXCEPT !.resized = TRUE]
           /\ UNCHANGED <<mode, grid, job, overlay, damages>>
OverlayNext ==
  \/ Tick \/ TimerFires \/ Frame \/ Ends \/ Resizes
  \/ \E r \in Rects, kind \in DOMAIN Delay : Damage(r, kind)
  \/ \E long, goOn \in BOOLEAN : Rendered(long, goOn)
OverlaySpec == OverlayInit /\ [][OverlayNext]_overlayVars
-----------------------------------------------------------------------------
\* The overlay never covers new pixels with old ones: what it shows of a patch was
\* computed from the pixels, with their halo, that are there now
\* (enhancement-run.ts:81-88, damage-grid.ts:31-47).
CoverIsTrue ==
  ~run.stopped /\ ~run.resized => \A p \in Patches : overlay[p].covered => overlay[p].true
\* And no damaged patch is forgotten: while one is dirty, a timer, a frame or a
\* batch is on its way (enhancement-run.ts:91-102, 134), and a patch that is bare
\* is dirty or in flight.
PatchesAreServed ==
  ~run.stopped /\ ~run.resized =>
    /\ grid.dirty # {} => run.busy \/ run.frame \/ run.timer # Off
    /\ \A p \in Patches : overlay[p].covered \/ p \in grid.dirty \/ p = job.patch
    /\ run.busy = (job.patch # -1)
OverlayIsSound == CoverIsTrue /\ PatchesAreServed
=============================================================================
