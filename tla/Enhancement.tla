---------------------------- MODULE Enhancement ----------------------------
(***************************************************************************)
(* The optional upscaling of the viewer's picture: its controller          *)
(* (client/enhancement/enhancement-controller.ts) and the creation of its  *)
(* GPU pipeline (gpu-upscaler.ts), several promises long, which a change   *)
(* of preference, canvas, size or visibility may overtake.                 *)
(*                                                                         *)
(* The code's generation numbers are compared for equality only: a load is *)
(* current until the controller stops, which also aborts it.               *)
(***************************************************************************)
EXTENDS Naturals, FiniteSets

CONSTANTS Loads,         \* the initialisations that may overlap
          Canvases,      \* the canvases of sessions
          NoCanvas,
          CanvasSizes,   \* numbers; the larger ones are beyond the limit
          SizeLimit      \* Full HD
ASSUME EnhancementAssumption == SizeLimit \in Nat /\ CanvasSizes \subseteq Nat

VARIABLES upscale,   \* the controller, the preference and the page
          load       \* load[l]: an initialisation, and the GPU device it holds
upscaleVars == <<upscale, load>>

UpscaleChoices == {"original", "balanced", "quality"}
Unloaded == [at |-> "free", current |-> FALSE, gpu |-> FALSE, source |-> NoCanvas, size |-> 0, mode |-> "original"]
UpscaleInit ==
  /\ upscale \in [choice : UpscaleChoices, source : {NoCanvas}, size : CanvasSizes, hidden : {FALSE},
                  fits : BOOLEAN,      \* enlarged, visible, and the client has WebGPU
                  failure : {FALSE}, frame : {TRUE}, destroyed : {FALSE}]
  /\ load = [l \in Loads |-> Unloaded]

\* stop(): the pending load is aborted, which takes its device; the run is
\* destroyed with its own.  What createUpscaler has just returned is not reached.
\* Of an aborted load, only where it is and what it holds still matter.
\* Mutant of Stopped: the signal is not listened to.
StoppedDeaf ==
  [l \in Loads |-> IF load[l].at = "running" THEN Unloaded ELSE [load[l] EXCEPT !.current = FALSE]]
Stopped ==
  [l \in Loads |-> IF load[l].at = "running" THEN Unloaded
                   ELSE [Unloaded EXCEPT !.at = load[l].at, !.gpu = load[l].gpu /\ load[l].at = "built"]]
\* fail(): only the present generation's failure counts, and it lasts.
Fail(l) ==
  IF load[l].current THEN upscale' = [upscale EXCEPT !.failure = TRUE] /\ load' = [Stopped EXCEPT ![l] = Unloaded]
  ELSE UNCHANGED upscale /\ load' = [load EXCEPT ![l] = Unloaded]
-----------------------------------------------------------------------------
\* Mutant of Choose: the change waits for the next frame.
ChooseLater(c) ==
  /\ ~upscale.destroyed /\ UNCHANGED load
  /\ upscale' = [upscale EXCEPT !.choice = c, !.failure = FALSE, !.frame = TRUE]
Choose(c) ==
  /\ ~upscale.destroyed /\ load' = Stopped
  /\ upscale' = [upscale EXCEPT !.choice = c, !.failure = FALSE, !.frame = TRUE]
AttachCanvas(c) ==
  /\ ~upscale.destroyed /\ c # upscale.source /\ load' = Stopped
  /\ upscale' = [upscale EXCEPT !.source = c, !.failure = FALSE, !.frame = TRUE]
\* Observers report a new size, a new place or another monitor.
CanvasChanges(size, fits) ==
  /\ ~upscale.destroyed /\ UNCHANGED load
  /\ upscale' = [upscale EXCEPT !.size = size, !.fits = fits, !.frame = TRUE]
Visibility ==
  /\ ~upscale.destroyed /\ load' = IF upscale.hidden THEN load ELSE Stopped
  /\ upscale' = [upscale EXCEPT !.hidden = ~@, !.frame = TRUE]
Destroy == /\ ~upscale.destroyed /\ load' = Stopped
           /\ upscale' = [upscale EXCEPT !.destroyed = TRUE, !.frame = FALSE]

Eligible ==
  /\ upscale.choice # "original" /\ ~upscale.failure /\ ~upscale.hidden
  /\ upscale.source # NoCanvas /\ upscale.fits /\ upscale.size <= SizeLimit
\* A hidden page has no frames.  A run of this canvas and size is laid out anew,
\* a load of this size is waited for, and otherwise a new one begins.
Same(l) == load[l].current /\ load[l].size = upscale.size
           /\ (load[l].at = "running" => load[l].source = upscale.source)
\* Mutant of Update: a load that is under way is left to run.
UpdateAgain ==
  /\ upscale.frame /\ ~upscale.hidden
  /\ upscale' = [upscale EXCEPT !.frame = FALSE]
  /\ IF ~Eligible THEN load' = Stopped
     ELSE \E l \in Loads :
            /\ load[l].at = "free"
            /\ load' = [load EXCEPT ![l] = [at |-> "adapter", current |-> TRUE, gpu |-> FALSE,
                          source |-> upscale.source, size |-> upscale.size, mode |-> upscale.choice]]
Update ==
  /\ upscale.frame /\ ~upscale.hidden
  /\ upscale' = [upscale EXCEPT !.frame = FALSE]
  /\ IF ~Eligible THEN load' = Stopped
     ELSE IF \E l \in Loads : Same(l) THEN UNCHANGED load
     ELSE \E l \in Loads :
            /\ load[l].at = "free"
            /\ load' = [Stopped EXCEPT ![l] = [at |-> "adapter", current |-> TRUE, gpu |-> FALSE,
                          source |-> upscale.source, size |-> upscale.size, mode |-> upscale.choice]]
-----------------------------------------------------------------------------
\* GpuUpscaler.create: an adapter, a device, the resources; an abort is noticed
\* at each of them.  Any of them may fail.
Goes(l, at) == UNCHANGED upscale /\ load' = [load EXCEPT ![l].at = at]
AdapterCame(l) ==
  /\ load[l].at = "adapter"
  /\ IF load[l].current THEN Goes(l, "device") ELSE Fail(l)
DeviceCame(l) ==
  /\ load[l].at = "device"
  /\ IF load[l].current THEN UNCHANGED upscale /\ load' = [load EXCEPT ![l].at = "building", ![l].gpu = TRUE]
     ELSE Fail(l)
Built(l) == load[l].at = "building" /\ load[l].gpu /\ Goes(l, "built")
CreateFails(l) == load[l].at \in {"adapter", "device", "building"} /\ Fail(l)
\* initialize goes on: nobody waits any more, the canvas has grown beyond the
\* limit, or the overlay is put over it as it is now.
\* Mutant of Overtaken: the result is not looked at again.
OvertakenNever(l) == FALSE
Overtaken(l) == ~load[l].current
Present(l) ==
  /\ load[l].at = "built"
  /\ IF Overtaken(l) THEN UNCHANGED upscale /\ load' = [load EXCEPT ![l] = Unloaded]
     ELSE IF upscale.size > SizeLimit THEN Fail(l)
     ELSE UNCHANGED upscale /\ load' = [load EXCEPT ![l].at = "running", ![l].size = upscale.size]
\* The ten seconds are over: what hangs is left behind, without its device.
Deadline(l) ==
  /\ load[l].at \in {"adapter", "device", "building", "built"} /\ load[l].current
  /\ upscale' = [upscale EXCEPT !.failure = TRUE] /\ load' = Stopped
\* The GPU is lost or in error, or the run gives up.
RunFails(l) == load[l].at = "running" /\ Fail(l)

LoadStep(l) == AdapterCame(l) \/ DeviceCame(l) \/ Built(l) \/ CreateFails(l) \/ Present(l)
               \/ Deadline(l) \/ RunFails(l)
UpscaleNext ==
  \/ Visibility \/ Destroy \/ Update
  \/ \E c \in UpscaleChoices : Choose(c)
  \/ \E c \in Canvases \cup {NoCanvas} : AttachCanvas(c)
  \/ \E size \in CanvasSizes, fits \in BOOLEAN : CanvasChanges(size, fits)
  \/ \E l \in Loads : LoadStep(l)
UpscaleSpec == UpscaleInit /\ [][UpscaleNext]_upscaleVars
-----------------------------------------------------------------------------
\* Only one mode owns resources: a device is held for the present choice, on the
\* present canvas, or is about to be released by the promise that made it; a
\* choice of original pixels, a failure, a hidden page or another canvas takes it
\* at once (enhancement-controller.ts:153-158, gpu-upscaler.ts:28-48).
GpuIsOwned ==
  /\ \A l \in Loads : load[l].gpu => load[l].current \/ load[l].at = "built"
  /\ Cardinality({l \in Loads : load[l].current}) <= 1
  /\ \A l \in Loads : load[l].current =>
       /\ load[l].mode = upscale.choice /\ upscale.choice # "original"
       /\ load[l].source = upscale.source /\ ~upscale.failure /\ ~upscale.hidden /\ ~upscale.destroyed
\* Whoever wants the enhancement and may have it gets it: a frame that looks again
\* is due, or a load or a run of the present size is there.
NobodyWaits ==
  Eligible /\ ~upscale.destroyed /\ ~upscale.frame => \E l \in Loads : Same(l)
EnhancementIsSound == GpuIsOwned /\ NobodyWaits
=============================================================================
