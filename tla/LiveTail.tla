------------------------------ MODULE LiveTail ------------------------------
(***************************************************************************)
(* The live encoder (native/vulkan-lease/live-*.c, tail-*.c): the main     *)
(* thread leases snapshots of the screen and writes batches of tiles, each *)
(* a difference to the snapshot the viewer acknowledged; a worker thread   *)
(* leases its own and writes video of one region, which the batches then   *)
(* leave out.  Viewer, hints and X server are external.                    *)
(*                                                                         *)
(* Abstracted: a tile is sent or not, whichever code it is sent in (cached *)
(* and scrolled tiles are exact copies); the size of a screen is the       *)
(* parity of its generation.  Left out: commands that end the process, and *)
(* refused leases: LeasePool says when a slot is free.                     *)
(***************************************************************************)
EXTENDS Naturals, Sequences, FiniteSets

CONSTANTS Pixels,
          TileSets,      \* the tiles, a partition of Pixels
          Rects,         \* the regions of hints; {} is none
          NoImage,
          Room,          \* messages that fit in the pipe to the viewer
          MaxEvents      \* bound: events from outside

ASSUME LiveAssumption ==
  /\ TileSets \subseteq SUBSET Pixels /\ UNION TileSets = Pixels
  /\ {} \in Rects /\ Rects \subseteq SUBSET Pixels
  /\ Room \in Nat \ {0} /\ MaxEvents \in Nat

VARIABLES root, generation,   \* the screen
          damaged, event,     \* XDamage: the region is not empty; an event is on its way
          at,                 \* where the main thread is
          dirty, parked,
          hint,               \* the last hint, and whether it is at most 700 ms old
          active,             \* active_video
          tail,
          acknowledged, current,    \* the main thread's snapshots
          worker, frame, image,     \* the video thread: where it is, its copy of
                                    \* the control state, its snapshot,
          opened,           \* the revision its encoder is open for, 0: closed
          control,            \* VideoControl, under its mutex
          leases,             \* leases that are held
          out, commands,      \* the pipes
          viewer,
          events

screenVars == <<root, generation, damaged, event>>
mainVars   == <<at, dirty, parked, hint, active, tail, acknowledged, current>>
workVars   == <<worker, frame, image, opened>>
vars == <<screenVars, mainVars, workVars, control, leases, out, commands, viewer, events>>

Blank    == 2
Picture  == [Pixels -> {0, 1, Blank}]
Image    == [pixels : Picture, generation : Nat]
ASSUME ImageAssumption == NoImage \notin Image
Control  == [authorized : BOOLEAN, failed : BOOLEAN, stop : BOOLEAN, rect : Rects,
             generation : Nat, revision : Nat]
Encoded  == [serial : Nat, pending : BOOLEAN, valid : BOOLEAN, size : 0..1,
             acked_video : Rects, pending_video : Rects]
Batch    == [kind : {"batch"}, serial : Nat, reset : BOOLEAN, tiles : SUBSET TileSets,
             pixels : Picture, video : Rects]
Unit     == [kind : {"unit"}, rect : Rects, pixels : Picture]
Command  == [kind : {"ack", "nack", "reset"}, serial : Nat]
Viewer   == [on : BOOLEAN, canvas : Picture, region : Rects, video : Picture \cup {NoImage},
             shot : Picture,       \* history: the snapshot of its last batch
             synced : BOOLEAN]     \* history: it has had a full batch since it joined

TypeOK ==
  /\ root \in [Pixels -> 0..1] /\ generation \in Nat /\ damaged \in BOOLEAN /\ event \in BOOLEAN
  /\ at \in {"loop", "acquire", "select", "send", "join", "ended"}
  /\ dirty \in BOOLEAN /\ parked \in BOOLEAN
  /\ hint \in [rect : Rects, size : 0..1, fresh : BOOLEAN] /\ active \in Rects /\ tail \in Encoded
  /\ acknowledged \in Image \cup {NoImage} /\ current \in Image \cup {NoImage}
  /\ worker \in {"wait", "acquire", "convert", "check", "write", "fail", "ended"}
  /\ frame \in Control /\ opened \in Nat /\ image \in Image \cup {NoImage} /\ control \in Control /\ leases \in Nat
  /\ out \in Seq(Batch \cup Unit) /\ commands \in Seq(Command)
  /\ viewer \in Viewer /\ events \in 0..MaxEvents

NewControl == [authorized |-> FALSE, failed |-> FALSE, stop |-> FALSE, rect |-> {},
               generation |-> 0, revision |-> 0]
Empty      == [p \in Pixels |-> Blank]

Init ==
  /\ root = [p \in Pixels |-> 0] /\ generation = 0 /\ damaged = FALSE /\ event = FALSE
  /\ at = "loop" /\ dirty = TRUE /\ parked = FALSE
  /\ hint = [rect |-> {}, size |-> 0, fresh |-> FALSE] /\ active = {}
  /\ tail = [serial |-> 0, pending |-> FALSE, valid |-> FALSE, size |-> 0,
             acked_video |-> {}, pending_video |-> {}]
  /\ acknowledged = NoImage /\ current = NoImage
  /\ worker = "wait" /\ frame = NewControl /\ image = NoImage /\ opened = 0
  /\ control = NewControl /\ leases = 0
  /\ out = <<>> /\ commands = <<>>
  /\ viewer = [on |-> TRUE, canvas |-> Empty, region |-> {}, video |-> NoImage,
               shot |-> Empty, synced |-> FALSE]
  /\ events = 0

Size(g)     == g % 2
Screen      == [pixels |-> root, generation |-> generation]

\* live_release does nothing where no image is held.
Held(i) == IF i = NoImage THEN 0 ELSE 1

\* Mutant of Released: only the image of the batch under way.
ReleasedCurrent == Held(current)
\* What live_reset gives back.
Released == Held(current) + Held(acknowledged)

----------------------------------------------------------------------------
\* The main thread.  The control mutex is held across steps only by the worker
\* that writes.

ControlIsFree == worker # "write"

\* live_video_stop.
Stopped(c) == [c EXCEPT !.authorized = FALSE, !.revision = @ + 1]

\* live_video_select: the region that the last hint asks for, for a screen of
\* this size; another one than before revokes the video.
Wanted(size) == IF control.failed \/ ~hint.fresh \/ hint.size # size THEN {} ELSE hint.rect
Select(size, before) ==
  IF Wanted(size) = active THEN before ELSE Stopped(before)

\* tail_reject and tail_reset; tail_ack.
Invalid == [tail EXCEPT !.pending = FALSE, !.valid = FALSE]
Acked   == [tail EXCEPT !.pending = FALSE, !.valid = TRUE, !.acked_video = tail.pending_video]

\* live_reset: all images go, and the next batch is a full one.
LetGo == /\ ControlIsFree /\ active' = {} /\ tail' = Invalid
         /\ leases' = leases - Released
         /\ current' = NoImage /\ acknowledged' = NoImage
         /\ dirty' = TRUE
Reset == LetGo /\ control' = Stopped(control)

Poll == /\ at = "loop" /\ event /\ event' = FALSE /\ dirty' = TRUE
        /\ UNCHANGED <<root, generation, damaged, at, parked, hint, active, tail, acknowledged,
                       current, workVars, control, leases, out, commands, viewer, events>>

\* A command of the viewer's side.
Takes(kinds) == at = "loop" /\ commands # <<>> /\ Head(commands).kind \in kinds
                /\ commands' = Tail(commands)

\* Mutant of Answers: the serial is not compared.
AnswersAny == tail.pending
\* An answer to a batch that is not pending any more does nothing.
Answers == tail.pending /\ Head(commands).serial = tail.serial

StaleAnswer == /\ Takes({"ack", "nack"}) /\ ~Answers
               /\ UNCHANGED <<screenVars, mainVars, workVars, control, leases, out, viewer, events>>
ResetCommand == /\ \/ Takes({"reset"})
                   \/ Takes({"nack"}) /\ Answers
                /\ Reset /\ parked' = FALSE
                /\ UNCHANGED <<screenVars, at, hint, workVars, out, viewer, events>>

\* live_video_ack: the region that the batch announced is authorized if it is
\* still wanted.
Authorized(rect) ==
  LET selected == Select(tail.size, control)
  IN  IF rect = {} \/ rect # Acked.acked_video THEN selected
      ELSE [selected EXCEPT !.rect = rect, !.authorized = TRUE, !.generation = current.generation]

\* The acknowledged batch becomes what the next one is a difference to.
Ack ==
  /\ Takes({"ack"}) /\ Answers /\ ControlIsFree
  /\ tail' = Acked
  /\ leases' = leases - Held(acknowledged)
  /\ acknowledged' = current /\ current' = NoImage
  /\ active' = Wanted(tail.size)
  /\ control' = Authorized(active')
  /\ UNCHANGED <<screenVars, at, dirty, parked, hint, workVars, out, viewer, events>>

\* A video that failed, or whose hint is too old, is to be repaired.
Repair == /\ at = "loop" /\ active # {} /\ (control.failed \/ ~hint.fresh)
          /\ ~dirty /\ dirty' = TRUE
          /\ UNCHANGED <<screenVars, at, parked, hint, active, tail, acknowledged, current,
                         workVars, control, leases, out, commands, viewer, events>>

\* No answer for 5 s: nobody is there, until a viewer joins.
Timeout == /\ at = "loop" /\ tail.pending /\ Reset /\ parked' = TRUE
           /\ UNCHANGED <<screenVars, at, hint, workVars, out, commands, viewer, events>>

\* live_capture: the damage is taken back before the snapshot is taken, ...
Capture == /\ at = "loop" /\ ~parked /\ ~tail.pending /\ dirty
           /\ at' = "acquire" /\ dirty' = FALSE /\ damaged' = FALSE
           /\ UNCHANGED <<root, generation, event, parked, hint, active, tail, acknowledged, current,
                          workVars, control, leases, out, commands, viewer, events>>
Acquire == /\ at = "acquire" /\ at' = "select"
           /\ current' = Screen /\ leases' = leases + 1
           /\ UNCHANGED <<screenVars, dirty, parked, hint, active, tail, acknowledged,
                          workVars, control, out, commands, viewer, events>>

\* ... a base of another generation or size is dropped, the region is chosen ...
Rebased == acknowledged # NoImage
           /\ (acknowledged.generation # current.generation \/ tail.size # Size(current.generation))
SelectVideo ==
  /\ at = "select" /\ ControlIsFree /\ at' = "send"
  /\ active' = Wanted(Size(current.generation))
  /\ IF Rebased
     THEN /\ control' = Stopped(control) /\ tail' = Invalid
          /\ acknowledged' = NoImage /\ leases' = leases - 1
     ELSE /\ control' = Select(Size(current.generation), control)
          /\ UNCHANGED <<tail, acknowledged, leases>>
  /\ UNCHANGED <<screenVars, dirty, parked, hint, current, workVars, out, commands, viewer, events>>

\* ... and a batch is encoded and written.
HasBase  == tail.valid /\ acknowledged # NoImage /\ tail.size = Size(current.generation)
Previous == IF HasBase THEN tail.acked_video ELSE {}
Stable   == active # {} /\ HasBase /\ active = Previous

\* Mutant of Changed: the tiles of a region that is left are not repaired.
ChangedUnrepaired(t) ==
  \/ ~HasBase
  \/ \E p \in t : ~(Stable /\ p \in active) /\ current.pixels[p] # acknowledged.pixels[p]
\* tail-analyze.comp: video owns pixels, and the tiles that it covers; a region
\* that is left is repaired.
Changed(t) == \/ ~HasBase
              \/ ~Stable /\ t \cap Previous # {}
              \/ \E p \in t : ~(Stable /\ p \in active) /\ current.pixels[p] # acknowledged.pixels[p]
Sent       == {t \in TileSets : ~(Stable /\ t \subseteq active) /\ Changed(t)}

\* live_write waits for room in the pipe.
Writes(message) == Len(out) < Room /\ out' = Append(out, message)

Send ==
  /\ at = "send" /\ at' = "loop"
  /\ tail' = [tail EXCEPT !.serial = @ + 1, !.pending = TRUE, !.pending_video = active,
                          !.size = Size(current.generation)]
  /\ Writes([kind |-> "batch", serial |-> tail'.serial, reset |-> ~HasBase,
             tiles |-> Sent, pixels |-> current.pixels, video |-> active])
  /\ UNCHANGED <<screenVars, dirty, parked, hint, active, acknowledged, current,
                 workVars, control, leases, commands, viewer, events>>

\* live_video_hint: another region or size revokes the video at once.
Hint(rect, size) ==
  /\ at = "loop" /\ ControlIsFree
  /\ hint' = [rect |-> rect, size |-> size, fresh |-> TRUE]
  /\ IF rect = hint.rect /\ size = hint.size THEN UNCHANGED <<dirty, active, control>>
     ELSE /\ dirty' = TRUE /\ active' = {}
          /\ control' = [Stopped(control) EXCEPT !.failed = FALSE]
  /\ UNCHANGED <<screenVars, at, parked, tail, acknowledged, current, workVars, leases, out,
                 commands, viewer>>

\* The input ends: the main thread lets go of all, and waits for the worker.
Eof == /\ at = "loop" /\ commands = <<>> /\ at' = "join"
       /\ LetGo /\ control' = [Stopped(control) EXCEPT !.stop = TRUE] /\ parked' = FALSE
       /\ UNCHANGED <<screenVars, hint, workVars, out, commands, viewer>>
Join == /\ at = "join" /\ worker = "ended" /\ at' = "ended"
        /\ UNCHANGED <<screenVars, dirty, parked, hint, active, tail, acknowledged, current, workVars,
                       control, leases, out, commands, viewer, events>>

----------------------------------------------------------------------------
\* The video thread.

WorkerGoes(pc) == worker' = pc /\ UNCHANGED <<screenVars, mainVars, commands, viewer, events>>

Eligible(c) == c.authorized /\ ~c.failed /\ ~c.stop /\ c.rect # {} /\ hint.fresh

NextFrame == /\ worker = "wait" /\ Eligible(control) /\ frame' = control
             /\ WorkerGoes("acquire") /\ UNCHANGED <<image, opened, control, leases, out>>
WorkerEnds == /\ worker = "wait" /\ control.stop
              /\ WorkerGoes("ended") /\ UNCHANGED <<frame, image, opened, control, leases, out>>

\* An encoder for this revision cannot be opened; or a snapshot is leased, and
\* given back after its conversion, or at once if the region was announced for
\* another screen.
OpenFails    == /\ worker = "acquire" /\ opened # frame.revision
                /\ WorkerGoes("fail") /\ UNCHANGED <<frame, image, opened, control, leases, out>>
WorkerLeases == /\ worker = "acquire" /\ opened' = frame.revision
                /\ image' = Screen /\ leases' = leases + 1
                /\ WorkerGoes("convert") /\ UNCHANGED <<frame, control, out>>
Convert == /\ worker = "convert" /\ leases' = leases - 1
           /\ IF image.generation # frame.generation THEN WorkerGoes("wait") /\ image' = NoImage
              ELSE \/ WorkerGoes("check") /\ UNCHANGED image
                   \/ WorkerGoes("fail") /\ image' = NoImage
           /\ UNCHANGED <<frame, opened, control, out>>

\* Mutant of Check: the region may have been revoked and authorized again.
CheckUnrevised ==
  /\ worker = "check"
  /\ IF Eligible(control) THEN WorkerGoes("write") /\ UNCHANGED image
                          ELSE WorkerGoes("wait") /\ image' = NoImage
  /\ UNCHANGED <<frame, opened, control, leases, out>>
\* The lock is kept from the check to the end of the write.
Check == /\ worker = "check"
         /\ IF Eligible(control) /\ control.revision = frame.revision
            THEN WorkerGoes("write") /\ UNCHANGED image
            ELSE WorkerGoes("wait") /\ image' = NoImage
         /\ UNCHANGED <<frame, opened, control, leases, out>>
Write == /\ worker = "write"
         /\ Writes([kind |-> "unit", rect |-> frame.rect, pixels |-> image.pixels])
         /\ image' = NoImage /\ WorkerGoes("wait") /\ UNCHANGED <<frame, opened, control, leases>>
Fail  == /\ worker = "fail" /\ WorkerGoes("wait") /\ opened' = 0
         /\ control' = IF control.revision = frame.revision THEN [control EXCEPT !.failed = TRUE]
                                                            ELSE control
         /\ UNCHANGED <<frame, image, leases, out>>

----------------------------------------------------------------------------
\* Outside.  The viewer applies what it receives in order.

Receives == out # <<>> /\ out' = Tail(out)
            /\ UNCHANGED <<screenVars, mainVars, workVars, control, leases>>
Message  == Head(out)
Applied(b) == [p \in Pixels |-> IF \E t \in b.tiles : p \in t THEN b.pixels[p]
                                ELSE IF b.reset THEN Blank ELSE viewer.canvas[p]]

ReceiveBatch ==
  /\ Receives /\ viewer.on /\ Message.kind = "batch"
  /\ commands' = Append(commands, [kind |-> "ack", serial |-> Message.serial])
  /\ viewer' = [viewer EXCEPT !.canvas = Applied(Message), !.shot = Message.pixels,
                  !.region = Message.video,
                  !.video = IF Message.video = viewer.region THEN @ ELSE NoImage,
                  !.synced = @ \/ Message.reset]
  /\ UNCHANGED events
ReceiveUnit ==
  /\ Receives /\ viewer.on /\ Message.kind = "unit"
  /\ viewer' = IF Message.rect = viewer.region THEN [viewer EXCEPT !.video = Message.pixels] ELSE viewer
  /\ UNCHANGED <<commands, events>>
Drop == /\ Receives /\ ~viewer.on /\ UNCHANGED <<commands, viewer, events>>

Outside == events < MaxEvents /\ at # "ended" /\ events' = events + 1
Refuses == /\ Outside /\ Receives /\ viewer.on /\ Message.kind = "batch"
           /\ commands' = Append(commands, [kind |-> "nack", serial |-> Message.serial])
           /\ UNCHANGED viewer

Damaged == damaged' = TRUE /\ event' = (event \/ ~damaged)
Paint(p) == /\ Outside /\ root' = [root EXCEPT ![p] = 1 - @] /\ Damaged
            /\ UNCHANGED <<generation, mainVars, workVars, control, leases, out, commands, viewer>>
Resize   == /\ Outside /\ generation' = generation + 1 /\ Damaged
            /\ UNCHANGED <<root, mainVars, workVars, control, leases, out, commands, viewer>>
HintAges == /\ Outside /\ hint.fresh /\ hint' = [hint EXCEPT !.fresh = FALSE]
            /\ UNCHANGED <<screenVars, at, dirty, parked, active, tail, acknowledged, current,
                           workVars, control, leases, out, commands, viewer>>
Leaves   == /\ Outside /\ viewer.on /\ viewer' = [viewer EXCEPT !.on = FALSE]
            /\ UNCHANGED <<screenVars, mainVars, workVars, control, leases, out, commands>>
\* Another viewer joins, or this one again: its picture is gone, and a reset sent.
Joins    == /\ Outside
            /\ viewer' = [on |-> TRUE, canvas |-> Empty, region |-> {}, video |-> NoImage,
                          shot |-> Empty, synced |-> FALSE]
            /\ commands' = Append(commands, [kind |-> "reset", serial |-> 0])
            /\ UNCHANGED <<screenVars, mainVars, workVars, control, leases, out>>

----------------------------------------------------------------------------
MainStep    == \/ Poll \/ StaleAnswer \/ ResetCommand \/ Ack \/ Repair \/ Timeout
               \/ Capture \/ Acquire \/ SelectVideo \/ Send \/ Join
WorkerStep  == \/ NextFrame \/ WorkerEnds \/ OpenFails \/ WorkerLeases \/ Convert
               \/ Check \/ Write \/ Fail
ViewerStep  == ReceiveBatch \/ ReceiveUnit \/ Drop
Environment == \/ Refuses \/ Resize \/ HintAges \/ Leaves \/ Joins
               \/ \E p \in Pixels : Paint(p)
               \/ Outside /\ (Eof \/ \E rect \in Rects, size \in 0..1 : Hint(rect, size))

Next == MainStep \/ WorkerStep \/ ViewerStep \/ Environment

Spec == Init /\ [][Next]_vars

\* Either thread gets the control mutex some time, though the other takes it
\* again and again; the pipe is read.  Hints, viewers and the screen owe nothing.
FairSpec == Spec /\ SF_vars(MainStep) /\ WF_vars(WorkerStep) /\ WF_vars(ViewerStep)

----------------------------------------------------------------------------
\* Properties.

Slots == 3

\* Main thread and worker abort when a lease is refused, so the three slots of
\* the driver are enough at every moment, with an image of a batch under way, one
\* that is acknowledged and one in conversion; and none is kept at the end
\* (live-state.c:16,32,50, live-video-worker.c:53-63).
LeasesFit == leases <= Slots /\ (at = "ended" => leases = 0)

\* Where the viewer does not show video it has the very snapshot of its last
\* batch, though a batch carries only differences to the snapshot that was
\* acknowledged, which a late or repeated answer must not advance
\* (live-state.c:28, tail-commands.c:68).
PictureIsExact ==
  viewer.synced => \A p \in Pixels \ viewer.region : viewer.canvas[p] = viewer.shot[p]

\* A unit of video goes out only behind the batch that announced its region, for
\* a screen of the generation that was acknowledged: no revocation overtakes it,
\* and it overtakes none (live-video-worker.c:71-81).
UnitsFit ==
  [][(worker = "write" /\ worker' # "write") =>
       /\ frame.rect = tail.pending_video
       /\ acknowledged # NoImage /\ frame.generation = acknowledged.generation]_vars

Shown(p) == IF p \in viewer.region /\ viewer.video # NoImage THEN viewer.video[p] ELSE viewer.canvas[p]
Watched  == viewer.on /\ ~parked /\ at \notin {"join", "ended"}

\* A viewer that stays sees what is on the screen: no damage is lost on the way
\* (live-state.c:41), and a region that is left is repaired (tail-analyze.comp:20),
\* as long as the region that the main thread has chosen and the one that was
\* acknowledged come to agree.  FailureIsRepaired is about the case they do not.
Settled  == active = tail.acked_video
SettledConverges == <>[](Watched /\ Settled) => <>[](\A p \in Pixels : Shown(p) = root[p])

\* docs/GPU_LIVE_TEST.md:139: "Hardware setup/codec failures restore lossless
\* tiles".  For a viewer that stays and a hint that is kept fresh:
FailureIsRepaired ==
  <>[](Watched /\ hint.fresh) => <>[](\A p \in Pixels : Shown(p) = root[p])

\* Types, leases and the picture at every moment.
LiveIsExact == TypeOK /\ LeasesFit /\ PictureIsExact
=============================================================================
