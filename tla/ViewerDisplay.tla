--------------------------- MODULE ViewerDisplay ---------------------------
(***************************************************************************)
(* The viewer's display controls (client/display-controller.ts), which     *)
(* keep the SDK's idea of the capture size current, and the layout they    *)
(* compute (client/display-settings.ts).                                   *)
(*                                                                         *)
(* Lengths are whole pixels and densities quarters: 4 is 1x.  The uniform  *)
(* reduction of the automatic size is a real number in the code; here its  *)
(* floor is the largest multiple that the same inequality allows.          *)
(***************************************************************************)
EXTENDS Integers, FiniteSets, FiniteSetsExt

CONSTANTS Viewports,     \* [w, h] of the viewport
          Densities,     \* of the monitor
          Resolutions,   \* Automatic and the presets, [w, h]
          DensityChoices,\* 0 is "auto", 1 "native", others are densities
          Authorities,   \* [w, h] that another viewer may set
          MinWidth, MaxWidth, MinHeight, MaxHeight, AlignWidth, AlignHeight,
          PixelBudget,   \* AUTO_CAPTURE_PIXEL_BUDGET
          MaxAttached    \* bound: sessions that are attached
ASSUME DisplayAssumption ==
  /\ {MaxAttached, MaxWidth, MaxHeight, PixelBudget} \subseteq Nat
  /\ {MinWidth, MinHeight, AlignWidth, AlignHeight} \subseteq Nat \ {0}
  /\ MinWidth <= MaxWidth /\ MinHeight <= MaxHeight
  /\ Viewports \subseteq [w : Nat, h : Nat] /\ Densities \subseteq Nat /\ DensityChoices \subseteq Nat
  /\ [w |-> 0, h |-> 0] \in Resolutions /\ 0 \in DensityChoices

VARIABLES choice,     \* this.preferences
          saved,      \* the valid record in the local storage, or none
          place,      \* the viewport and the monitor, and whether the storage works
          control,    \* the controller: session, state, applied*, frame
          sdk,        \* what the session was told last, and how many there were
          intent      \* history: the resolution a person chose while it was free
displayVars == <<choice, saved, place, control, sdk, intent>>

Preferences == [resolution : Resolutions, density : DensityChoices]
NoSize == [w |-> 0, h |-> 0]
Automatic == NoSize
Defaults == [resolution |-> Automatic, density |-> 0]
-----------------------------------------------------------------------------
Density(d, monitor) == CASE d = 0 -> 4
                         [] d = 1 -> Max({4, Min({12, monitor})})
                         [] OTHER -> d
Clamp(low, high, x) == Max({low, Min({high, x})})
\* Mutant of SideFits: the pixel budget is forgotten.
SideFitsHost(w, dw, dh, max, other) == 4 * w <= dw /\ w <= max /\ w * dh <= dw * other
\* A side of length w keeps a wish of dw to dh, in quarters: it is not longer
\* than wished for, nor than the host's sides allow, nor than the budget does.
SideFits(w, dw, dh, max, other) ==
  4 * w <= dw /\ w <= max /\ w * dh <= dw * other /\ w * w * dh <= dw * PixelBudget
AutoSide(dw, dh, align, min, max, other) ==
  Clamp(min, max, align * Max({k \in 0..(max \div align) : SideFits(k * align, dw, dh, max, other)}))
\* computeDisplayLayout; a size of zero is no authority.
Layout(p, view, monitor, authority) ==
  LET q == Density(p.density, monitor)
      dw == view.w * q
      dh == view.h * q
      size == IF authority # NoSize THEN authority
              ELSE IF p.resolution # Automatic THEN p.resolution
              ELSE [w |-> AutoSide(dw, dh, AlignWidth, MinWidth, MaxWidth, MaxHeight),
                    h |-> AutoSide(dh, dw, AlignHeight, MinHeight, MaxHeight, MaxWidth)]
  IN [size |-> size, scale |-> q,
      css |-> Min({4 * size.w * size.h, dw * size.h, dh * size.w})]  \* in 1/(scale * the other side)
Drawable(layout) == layout.css > 0

Locked == control.state.locked
Preferred == Layout(choice, place.view, place.monitor, NoSize)
ShownLayout == Layout(choice, place.view, place.monitor, IF Locked THEN control.state.size ELSE NoSize)

NoState == [locked |-> FALSE, size |-> NoSize]
\* An invalid record is none.
ReadPreferences(record) == IF record = {} THEN Defaults ELSE CHOOSE p \in record : TRUE
NewControl == [attached |-> FALSE, destroyed |-> FALSE, state |-> NoState, size |-> NoSize, scale |-> 0,
               frame |-> FALSE]
DisplayInit ==
  /\ saved = {} /\ choice = ReadPreferences(saved) /\ intent = choice.resolution
  /\ place \in [view : Viewports, monitor : Densities, storage : BOOLEAN]
  /\ control = NewControl
  /\ sdk = [size |-> NoSize, scale |-> 0, sessions |-> 0]
-----------------------------------------------------------------------------
Framed(c) == IF control.destroyed THEN control ELSE [c EXCEPT !.frame = TRUE]
\* Mutant of Anew: what the last session was told counts for the next one.
AnewKept(c) == c
Anew(c) == [c EXCEPT !.size = NoSize, !.scale = 0]
\* attach(session), whose options are of an earlier moment, and attach(null).
States == {NoState} \cup [locked : BOOLEAN, size : Authorities]
AttachSession(state) ==
  /\ ~control.attached /\ ~control.destroyed /\ sdk.sessions < MaxAttached
  /\ control' = Framed([Anew(control) EXCEPT !.attached = TRUE, !.state = state])
  /\ \E view \in Viewports : \E l \in {Layout(choice, view, place.monitor, NoSize)} :
       sdk' = [size |-> l.size, scale |-> l.scale, sessions |-> sdk.sessions + 1]
  /\ UNCHANGED <<choice, saved, place, intent>>
Detach ==
  /\ control.attached
  /\ control' = Framed([Anew(control) EXCEPT !.attached = FALSE, !.state = NoState])
  /\ UNCHANGED <<choice, saved, place, sdk, intent>>
\* Ownership passes from one viewer to another, or the capture has a new size.
StateChanges(state) ==
  /\ control.attached /\ control' = Framed([control EXCEPT !.state = state])
  /\ UNCHANGED <<choice, saved, place, sdk, intent>>
\* The viewport, or the monitor's density.
ScreenChanges ==
  /\ \E view \in Viewports, monitor \in Densities :
       place' = [place EXCEPT !.view = view, !.monitor = monitor]
  /\ control' = Framed(control) /\ UNCHANGED <<choice, saved, sdk, intent>>

\* Mutant of Chosen: the locked control counts.
ChosenAlways(p) == p
Chosen(p) == IF Locked THEN [p EXCEPT !.resolution = choice.resolution] ELSE p
ChangePreferences(p) ==
  /\ ~control.destroyed /\ choice' = Chosen(p) /\ control' = Framed(control)
  /\ saved' = IF place.storage THEN {choice'} ELSE saved
  /\ intent' = IF Locked THEN intent ELSE p.resolution
  /\ UNCHANGED <<place, sdk>>
\* destroy(): the page is about to be left; and it is loaded again.
\* Mutant of TornDown: a frame that was asked for still comes.
GoneLater(c) == [c EXCEPT !.destroyed = TRUE]
TornDown(c) == [c EXCEPT !.destroyed = TRUE, !.frame = FALSE]
DestroyControl == /\ ~control.destroyed /\ control' = TornDown(control)
           /\ UNCHANGED <<choice, saved, place, sdk, intent>>
Reload ==
  /\ control.destroyed /\ choice' = ReadPreferences(saved)
  /\ intent' = IF place.storage THEN intent ELSE choice'.resolution
  /\ control' = NewControl /\ UNCHANGED <<saved, place, sdk>>

\* Mutant of Told: whoever does not own the capture tells its size.
ToldShown == ShownLayout
Told == Preferred
\* The scheduled frame: what changed since the last time is told to the session,
\* which may change the state while it is told.
UpdateLayout ==
  /\ control.frame /\ UNCHANGED <<choice, saved, place, intent>>
  /\ IF control.attached /\ Drawable(ShownLayout)
     THEN /\ \E state \in {control.state} \cup States :
               control' = [control EXCEPT !.size = Told.size, !.scale = Told.scale, !.state = state,
                             !.frame = state # control.state]
          /\ sdk' = [sdk EXCEPT !.size = IF control.size = Told.size THEN @ ELSE Told.size,
                                !.scale = IF control.scale = Told.scale THEN @ ELSE Told.scale]
     ELSE control' = [control EXCEPT !.frame = FALSE] /\ UNCHANGED sdk
DisplayNext ==
  \/ Detach \/ ScreenChanges \/ DestroyControl \/ Reload \/ UpdateLayout
  \/ \E state \in States : AttachSession(state) \/ StateChanges(state)
  \/ \E p \in Preferences : ChangePreferences(p)
DisplaySpec == DisplayInit /\ [][DisplayNext]_displayVars
-----------------------------------------------------------------------------
\* Between two frames the session knows the size this viewer wants now, also
\* while another one owns the capture, so that a promotion sends no obsolete
\* size (display-controller.ts:147-163); once it is left, the page tells it nothing
\* more (:81-90); the saved choice is the person's, which
\* a locked control does not replace (:95-99); and the automatic size keeps
\* within the pixel budget, the host's sides and the wish, but for the host's
\* minima (display-settings.ts:124-137).
DisplayIsCurrent ==
  /\ control.attached /\ ~control.destroyed /\ ~control.frame /\ Drawable(ShownLayout) =>
       sdk.size = Preferred.size /\ sdk.scale = Preferred.scale
  /\ control.destroyed => ~control.frame
  /\ choice.resolution = intent
  /\ choice.resolution = Automatic =>
       LET s == Preferred.size
       IN /\ s.w \in MinWidth..MaxWidth /\ s.h \in MinHeight..MaxHeight
          /\ s.w * s.h <= PixelBudget \/ s.w = MinWidth \/ s.h = MinHeight
          /\ 4 * s.w <= place.view.w * Preferred.scale \/ s.w = MinWidth
=============================================================================
