-------------------------- MODULE LiveTail_proofs --------------------------
(***************************************************************************)
(* The safety of the live encoder for any screen, tiles, regions, room in  *)
(* the pipe and number of events.  Two invariants, the second on top of    *)
(* the first:                                                              *)
(*   Core  which images and leases the two threads have at which step, and *)
(*         what an authorization and the worker's copy of it are worth;    *)
(*   Wire  what the messages on their way mean: a difference fits what the *)
(*         viewer shows, and an answer that will be accepted is that of a  *)
(*         viewer that has the batch.                                      *)
(* Each has a lemma per action.  The supervision of the encoder and the    *)
(* recordings of what it does follow, which have an invariant each.        *)
(***************************************************************************)
EXTENDS LiveTail, LiveWatch, TraceRuns, SequenceTheorems, TLAPS

\* Where the main thread has which images, and when the threads end.
Phases ==
  /\ at = "acquire" => ~tail.pending /\ current = NoImage
  /\ at \in {"select", "send"} => ~tail.pending /\ current # NoImage
  /\ at = "loop" => (tail.pending <=> current # NoImage)
  /\ at \in {"join", "ended"} => ~tail.pending /\ current = NoImage /\ acknowledged = NoImage
  /\ at = "ended" => worker = "ended"
  /\ worker = "ended" => control.stop
  /\ control.stop <=> at \in {"join", "ended"}
  /\ tail.valid <=> acknowledged # NoImage
  /\ image # NoImage <=> worker \in {"convert", "check", "write"}

\* Every image is one lease.
Counted == leases = Held(current) + Held(acknowledged) + (IF worker = "convert" THEN 1 ELSE 0)

\* A batch is a difference between snapshots of one screen.
SameScreen ==
  (tail.pending \/ at = "send") /\ acknowledged # NoImage =>
     acknowledged.generation = current.generation /\ tail.size = Size(current.generation)

\* What the revision of an authorization stands for, and what the worker's copy
\* of the control state is worth.
Authority ==
  /\ control.authorized =>
       /\ active # {} /\ active = control.rect /\ active = tail.pending_video
       /\ acknowledged # NoImage /\ acknowledged.generation = control.generation
  /\ frame.revision <= control.revision
  /\ worker \in {"acquire", "convert", "check", "write", "fail"} /\ frame.revision = control.revision
       => control.authorized /\ frame.rect = control.rect /\ frame.generation = control.generation
  /\ worker = "write" => frame.revision = control.revision

Core == TypeOK /\ Phases /\ Counted /\ SameScreen /\ Authority

\* What the assumptions on the constants say.
LEMMA Constants == {} \in Rects /\ NoImage \notin Image /\ Rects \subseteq SUBSET Pixels /\ MaxEvents \in Nat
BY LiveAssumption, ImageAssumption

\* A snapshot of the screen, a size, a count of leases.
LEMMA ScreenType == ASSUME TypeOK PROVE Screen \in Image /\ Screen # NoImage /\ Screen.generation = generation
<1>1. root \in [Pixels -> {0, 1, Blank}] BY DEF TypeOK, Blank
<1>2. generation \in Nat BY DEF TypeOK
<1>. QED BY <1>1, <1>2, ImageAssumption DEF Screen, Image, Picture

LEMMA SizeType == ASSUME NEW g \in Nat PROVE Size(g) \in 0..1
BY DEF Size

LEMMA HeldType == ASSUME NEW i PROVE Held(i) \in 0..1 /\ (i = NoImage => Held(i) = 0) /\ (i # NoImage => Held(i) = 1)
BY DEF Held

\* Stopping makes another revision.
LEMMA StoppedType ==
  ASSUME NEW c \in Control
  PROVE /\ Stopped(c) \in Control /\ Stopped(c).revision = c.revision + 1 /\ ~Stopped(c).authorized
        /\ Stopped(c).stop = c.stop /\ Stopped(c).failed = c.failed
<1>1. c.revision \in Nat BY DEF Control
<1>2. Stopped(c) = [[c EXCEPT !.authorized = FALSE] EXCEPT !.revision = c.revision + 1]
  BY DEF Stopped, Control
<1>3. [c EXCEPT !.authorized = FALSE] \in Control BY DEF Control
<1>4. c.revision + 1 \in Nat BY <1>1
<1>5. Stopped(c) \in Control BY <1>2, <1>3, <1>4 DEF Control
<1>6. Stopped(c).revision = c.revision + 1 BY <1>2, <1>3 DEF Control
<1>7. Stopped(c).stop = c.stop /\ Stopped(c).failed = c.failed BY <1>2, <1>3 DEF Control
<1>8. ~Stopped(c).authorized BY <1>2, <1>3 DEF Control
<1>. QED BY <1>5, <1>6, <1>7, <1>8

\* Another region than before stops the video.
LEMMA SelectType ==
  ASSUME TypeOK, NEW s
  PROVE /\ Wanted(s) \in Rects
        /\ \/ Wanted(s) = active /\ Select(s, control) = control
           \/ Wanted(s) # active /\ Select(s, control) = Stopped(control)
BY Constants DEF Wanted, Select, TypeOK

\* At the start nobody has an image.
LEMMA CoreInit == Init => Core
<1> SUFFICES ASSUME Init PROVE Core OBVIOUS
<1>1. TypeOK
  <2>1. root \in [Pixels -> 0..1] /\ Empty \in Picture BY DEF Init, Empty, Picture, Blank
  <2>2. NewControl \in Control BY Constants DEF NewControl, Control
  <2>3. tail \in Encoded BY Constants DEF Init, Encoded
  <2>4. viewer \in Viewer BY <2>1, Constants DEF Init, Viewer
  <2>5. out \in Seq(Batch \cup Unit) /\ commands \in Seq(Command) BY DEF Init
  <2>6. hint \in [rect : Rects, size : 0..1, fresh : BOOLEAN] BY Constants DEF Init
  <2>7. events \in 0..MaxEvents BY Constants DEF Init
  <2>8. active \in Rects /\ generation \in Nat /\ leases \in Nat /\ opened \in Nat BY Constants DEF Init
  <2>. QED BY <2>1, <2>2, <2>3, <2>4, <2>5, <2>6, <2>7, <2>8 DEF Init, TypeOK
<1>2. Phases /\ SameScreen /\ Authority BY DEF Init, Phases, SameScreen, Authority, NewControl
<1>3. Counted BY HeldType DEF Init, Counted
<1>. QED BY <1>1, <1>2, <1>3 DEF Core

\* A queue with one more message, and the rest of a queue.
LEMMA Appending ==
  ASSUME NEW S, NEW q \in Seq(S), NEW x \in S, NEW q2, q2 = Append(q, x)
  PROVE /\ q2 \in Seq(S) /\ Len(q2) = Len(q) + 1 /\ Len(q) \in Nat
        /\ q2[Len(q2)] = x
        /\ \A i \in 1..Len(q) : i \in 1..Len(q2) /\ q2[i] = q[i]
        /\ \A i \in 1..Len(q2) : \/ i \in 1..Len(q) /\ q2[i] = q[i]
                                 \/ i = Len(q2) /\ q2[i] = x
<1>1. q2 \in Seq(S) /\ Len(q2) = Len(q) + 1 /\ q2[Len(q)+1] = x
      /\ \A i \in 1..Len(q) : q2[i] = q[i] BY AppendProperties
<1>2. Len(q) \in Nat BY LenProperties
<1>3. ASSUME NEW i \in 1..Len(q2) PROVE i \in 1..Len(q) \/ i = Len(q2)
  BY <1>1, <1>2
<1>. QED BY <1>1, <1>2, <1>3

LEMMA Taking ==
  ASSUME NEW S, NEW q \in Seq(S), q # <<>>, NEW q2, q2 = Tail(q)
  PROVE /\ Head(q) = q[1] /\ 1 \in 1..Len(q) /\ q[1] \in S
        /\ q2 \in Seq(S) /\ Len(q2) = Len(q) - 1 /\ Len(q) \in Nat
        /\ \A i \in 1..Len(q2) : i + 1 \in 1..Len(q) /\ q2[i] = q[i + 1]
<1>1. Len(q) \in Nat \ {0} BY EmptySeq
<1>2. q2 \in Seq(S) /\ Len(q2) = Len(q) - 1 /\ \A i \in 1..Len(q2) : q2[i] = q[i + 1]
  BY HeadTailProperties
<1>3. Len(q2) \in Nat BY <1>2, LenProperties
<1>4. 1 \in 1..Len(q) /\ \A i \in 1..Len(q2) : i + 1 \in 1..Len(q) BY <1>1, <1>2, <1>3
<1>5. q[1] \in S BY <1>4, ElementOfSeq
<1>7. Head(q) = q[1] BY SMT
<1>. QED BY <1>1, <1>2, <1>4, <1>5, <1>7

\* The images, the threads and their control state are as before.
LEMMA CoreKept ==
  ASSUME Core, TypeOK',
         UNCHANGED <<at, active, tail, acknowledged, current, worker, frame, image, control, leases>>
  PROVE Core'
<1>1. Phases' BY DEF Core, Phases
<1>2. Counted' BY DEF Core, Counted, Held
<1>3. SameScreen' BY DEF Core, SameScreen, Size
<1>4. Authority' BY DEF Core, Authority
<1>. QED BY <1>1, <1>2, <1>3, <1>4 DEF Core

\* The rest of the commands, and of the messages.
LEMMA TakesType ==
  ASSUME TypeOK, NEW k, Takes(k)
  PROVE commands' \in Seq(Command) /\ Head(commands) = commands[1] /\ commands[1].serial \in Nat
        /\ commands[1].kind \in k
<1>1. commands \in Seq(Command) /\ commands # <<>> /\ commands' = Tail(commands) /\ Head(commands).kind \in k
  BY DEF TypeOK, Takes
<1>2. Head(commands) = commands[1] /\ commands[1] \in Command /\ commands' \in Seq(Command) BY <1>1, Taking
<1>. QED BY <1>1, <1>2 DEF Command
LEMMA ReceivesType ==
  ASSUME TypeOK, Receives
  PROVE out' \in Seq(Batch \cup Unit) /\ Message = out[1] /\ out[1] \in Batch \cup Unit
BY Taking DEF TypeOK, Receives, Message

\* The actions that leave the images, the threads and their control state alone.
LEMMA PollCore == ASSUME Core, Poll PROVE Core'
<1>1. TypeOK' BY DEF Core, TypeOK, Poll, workVars
<1>. QED BY <1>1, CoreKept DEF Poll, workVars
LEMMA StaleAnswerCore == ASSUME Core, StaleAnswer PROVE Core'
<1>1. commands' \in Seq(Command) BY TakesType DEF Core, StaleAnswer
<1>2. TypeOK' BY <1>1 DEF Core, TypeOK, StaleAnswer, screenVars, mainVars, workVars
<1>. QED BY <1>2, CoreKept DEF StaleAnswer, screenVars, mainVars, workVars
LEMMA RepairCore == ASSUME Core, Repair PROVE Core'
<1>1. TypeOK' BY DEF Core, TypeOK, Repair, screenVars, workVars
<1>. QED BY <1>1, CoreKept DEF Repair, screenVars, workVars

\* What the viewer shows after a batch is a picture.
LEMMA AppliedType ==
  ASSUME TypeOK, NEW b \in Batch
  PROVE /\ Applied(b) \in Picture
        /\ [viewer EXCEPT !.canvas = Applied(b), !.shot = b.pixels, !.region = b.video,
              !.video = IF b.video = viewer.region THEN @ ELSE NoImage,
              !.synced = @ \/ b.reset] \in Viewer
<1>1. b.pixels \in Picture /\ b.video \in Rects /\ b.reset \in BOOLEAN BY DEF Batch
<1>2. viewer.canvas \in Picture /\ viewer.video \in Picture \cup {NoImage} /\ viewer.synced \in BOOLEAN
  BY DEF TypeOK, Viewer
<1>3. Applied(b) \in Picture
  <2>1. ASSUME NEW p \in Pixels
        PROVE (IF \E t \in b.tiles : p \in t THEN b.pixels[p]
               ELSE IF b.reset THEN Blank ELSE viewer.canvas[p]) \in {0, 1, Blank}
    BY <1>1, <1>2 DEF Picture
  <2>. QED BY <2>1 DEF Applied, Picture
<1>4. [viewer EXCEPT !.canvas = Applied(b), !.shot = b.pixels, !.region = b.video,
              !.video = IF b.video = viewer.region THEN viewer.video ELSE NoImage,
              !.synced = viewer.synced \/ b.reset] \in Viewer
  <2>1. (IF b.video = viewer.region THEN viewer.video ELSE NoImage) \in Picture \cup {NoImage} BY <1>2
  <2>2. (viewer.synced \/ b.reset) \in BOOLEAN OBVIOUS
  <2>3. viewer \in Viewer BY DEF TypeOK
  <2>. QED BY <1>1, <1>3, <2>1, <2>2, <2>3 DEF Viewer
<1>. QED BY <1>3, <1>4

LEMMA ReceiveBatchCore == ASSUME Core, ReceiveBatch PROVE Core'
<1>1. out' \in Seq(Batch \cup Unit) /\ Message \in Batch
  <2>1. Message \in Batch \cup Unit BY ReceivesType DEF Core, ReceiveBatch
  <2>2. Message.kind = "batch" BY DEF ReceiveBatch
  <2>3. Message \in Batch BY <2>1, <2>2 DEF Unit
  <2>. QED BY <2>3, ReceivesType DEF Core, ReceiveBatch
<1>2. viewer' \in Viewer BY <1>1, AppliedType DEF Core, ReceiveBatch
<1>3. commands' \in Seq(Command)
  <2>1. [kind |-> "ack", serial |-> Message.serial] \in Command BY <1>1 DEF Batch, Command
  <2>. QED BY <2>1, Appending DEF Core, TypeOK, ReceiveBatch
<1>4. TypeOK' BY <1>1, <1>2, <1>3
  DEF Core, TypeOK, ReceiveBatch, Receives, screenVars, mainVars, workVars
<1>. QED BY <1>4, CoreKept DEF ReceiveBatch, Receives, screenVars, mainVars, workVars
LEMMA ReceiveUnitCore == ASSUME Core, ReceiveUnit PROVE Core'
<1>1. out' \in Seq(Batch \cup Unit) BY ReceivesType DEF Core, ReceiveUnit
<1>2. Message \in Unit
  <2>1. Message \in Batch \cup Unit BY ReceivesType DEF Core, ReceiveUnit
  <2>2. Message.kind = "unit" BY DEF ReceiveUnit
  <2>. QED BY <2>1, <2>2 DEF Batch
<1>3. viewer' \in Viewer
  <2>1. Message.pixels \in Picture BY <1>2 DEF Unit
  <2>. QED BY <2>1 DEF Core, TypeOK, Viewer, ReceiveUnit
<1>4. TypeOK' BY <1>1, <1>3
  DEF Core, TypeOK, ReceiveUnit, Receives, screenVars, mainVars, workVars
<1>. QED BY <1>4, CoreKept DEF ReceiveUnit, Receives, screenVars, mainVars, workVars
LEMMA DropCore == ASSUME Core, Drop PROVE Core'
<1>1. out' \in Seq(Batch \cup Unit) BY ReceivesType DEF Core, Drop
<1>2. TypeOK' BY <1>1 DEF Core, TypeOK, Drop, Receives, screenVars, mainVars, workVars
<1>. QED BY <1>2, CoreKept DEF Drop, Receives, screenVars, mainVars, workVars

LEMMA OutsideType == ASSUME TypeOK, Outside PROVE events' \in 0..MaxEvents
BY Constants DEF TypeOK, Outside
LEMMA RefusesCore == ASSUME Core, Refuses PROVE Core'
<1>1. out' \in Seq(Batch \cup Unit) /\ Message.serial \in Nat
  <2>1. Message \in Batch \cup Unit BY ReceivesType DEF Core, Refuses
  <2>2. Message.kind = "batch" BY DEF Refuses
  <2>3. Message \in Batch BY <2>1, <2>2 DEF Unit
  <2>. QED BY <2>3, ReceivesType DEF Core, Refuses, Batch
<1>2. commands' \in Seq(Command)
  <2>1. [kind |-> "nack", serial |-> Message.serial] \in Command BY <1>1 DEF Command
  <2>. QED BY <2>1, Appending DEF Core, TypeOK, Refuses
<1>3. TypeOK' BY <1>1, <1>2, OutsideType
  DEF Core, TypeOK, Refuses, Receives, screenVars, mainVars, workVars
<1>. QED BY <1>3, CoreKept DEF Refuses, Receives, screenVars, mainVars, workVars
LEMMA PaintCore == ASSUME Core, NEW p \in Pixels, Paint(p) PROVE Core'
<1>1. root' \in [Pixels -> 0..1] BY DEF Core, TypeOK, Paint
<1>2. damaged' \in BOOLEAN /\ event' \in BOOLEAN BY DEF Core, TypeOK, Paint, Damaged
<1>3. TypeOK' BY <1>1, <1>2, OutsideType DEF Core, TypeOK, Paint, mainVars, workVars
<1>. QED BY <1>3, CoreKept DEF Paint, mainVars, workVars
LEMMA ResizeCore == ASSUME Core, Resize PROVE Core'
<1>1. generation' \in Nat BY DEF Core, TypeOK, Resize
<1>2. damaged' \in BOOLEAN /\ event' \in BOOLEAN BY DEF Core, TypeOK, Resize, Damaged
<1>3. TypeOK' BY <1>1, <1>2, OutsideType DEF Core, TypeOK, Resize, mainVars, workVars
<1>. QED BY <1>3, CoreKept DEF Resize, mainVars, workVars
LEMMA HintAgesCore == ASSUME Core, HintAges PROVE Core'
<1>1. hint' \in [rect : Rects, size : 0..1, fresh : BOOLEAN] BY DEF Core, TypeOK, HintAges
<1>2. TypeOK' BY <1>1, OutsideType DEF Core, TypeOK, HintAges, screenVars, workVars
<1>. QED BY <1>2, CoreKept DEF HintAges, workVars
LEMMA LeavesCore == ASSUME Core, Leaves PROVE Core'
<1>1. viewer' \in Viewer BY DEF Core, TypeOK, Viewer, Leaves
<1>2. TypeOK' BY <1>1, OutsideType DEF Core, TypeOK, Leaves, screenVars, mainVars, workVars
<1>. QED BY <1>2, CoreKept DEF Leaves, mainVars, workVars
LEMMA JoinsCore == ASSUME Core, Joins PROVE Core'
<1>1. viewer' \in Viewer
  <2>1. Empty \in Picture BY DEF Empty, Picture
  <2>. QED BY <2>1, Constants DEF Joins, Viewer
<1>2. commands' \in Seq(Command)
  <2>1. [kind |-> "reset", serial |-> 0] \in Command BY DEF Command
  <2>. QED BY <2>1, Appending DEF Core, TypeOK, Joins
<1>3. TypeOK' BY <1>1, <1>2, OutsideType DEF Core, TypeOK, Joins, screenVars, mainVars, workVars
<1>. QED BY <1>3, CoreKept DEF Joins, mainVars, workVars

\* The worker.
LEMMA NextFrameCore == ASSUME Core, NextFrame PROVE Core'
<1>. USE DEF NextFrame, WorkerGoes, screenVars, mainVars
<1>1. TypeOK' BY DEF Core, TypeOK
<1>2. Phases' BY DEF Core, Phases, Eligible
<1>3. Counted' /\ SameScreen' BY DEF Core, Counted, Held, SameScreen, Size
<1>4. Authority' BY DEF Core, TypeOK, Control, Authority, Eligible
<1>. QED BY <1>1, <1>2, <1>3, <1>4 DEF Core
LEMMA WorkerEndsCore == ASSUME Core, WorkerEnds PROVE Core'
<1>. USE DEF WorkerEnds, WorkerGoes, screenVars, mainVars
<1>1. TypeOK' BY DEF Core, TypeOK
<1>2. Phases' BY DEF Core, Phases
<1>3. Counted' /\ SameScreen' BY DEF Core, Counted, Held, SameScreen, Size
<1>4. Authority' BY DEF Core, Authority
<1>. QED BY <1>1, <1>2, <1>3, <1>4 DEF Core
LEMMA OpenFailsCore == ASSUME Core, OpenFails PROVE Core'
<1>. USE DEF OpenFails, WorkerGoes, screenVars, mainVars
<1>1. TypeOK' BY DEF Core, TypeOK
<1>2. Phases' BY DEF Core, Phases
<1>3. Counted' /\ SameScreen' BY DEF Core, Counted, Held, SameScreen, Size
<1>4. Authority' BY DEF Core, Authority
<1>. QED BY <1>1, <1>2, <1>3, <1>4 DEF Core
LEMMA WorkerLeasesCore == ASSUME Core, WorkerLeases PROVE Core'
<1>. USE DEF WorkerLeases, WorkerGoes, screenVars, mainVars
<1>1. TypeOK' BY ScreenType DEF Core, TypeOK, Control
<1>2. Phases' BY ScreenType DEF Core, Phases
<1>3. Counted' BY HeldType DEF Core, Counted, Held
<1>4. SameScreen' BY DEF Core, SameScreen, Size
<1>5. Authority' BY DEF Core, Authority
<1>. QED BY <1>1, <1>2, <1>3, <1>4, <1>5 DEF Core
LEMMA ConvertCore == ASSUME Core, Convert PROVE Core'
<1>. USE DEF Convert, WorkerGoes, screenVars, mainVars
<1>1. leases' \in Nat BY HeldType DEF Core, Counted, TypeOK
<1>2. TypeOK' BY <1>1 DEF Core, TypeOK
<1>3. Phases' BY DEF Core, Phases
<1>4. Counted' BY HeldType DEF Core, Counted, Held
<1>5. SameScreen' BY DEF Core, SameScreen, Size
<1>6. Authority' BY DEF Core, Authority
<1>. QED BY <1>2, <1>3, <1>4, <1>5, <1>6 DEF Core
LEMMA CheckCore == ASSUME Core, Check PROVE Core'
<1>. USE DEF Check, WorkerGoes, screenVars, mainVars
<1>1. TypeOK' BY DEF Core, TypeOK
<1>2. Phases' BY DEF Core, Phases
<1>3. Counted' /\ SameScreen' BY DEF Core, Counted, Held, SameScreen, Size
<1>4. Authority' BY DEF Core, Authority
<1>. QED BY <1>1, <1>2, <1>3, <1>4 DEF Core
LEMMA UnitType ==
  ASSUME Core, Write
  PROVE /\ [kind |-> "unit", rect |-> frame.rect, pixels |-> image.pixels] \in Unit
        /\ out' = Append(out, [kind |-> "unit", rect |-> frame.rect, pixels |-> image.pixels])
<1>1. image \in Image BY DEF Core, TypeOK, Phases, Write
<1>2. frame.rect \in Rects BY DEF Core, TypeOK, Control
<1>3. image.pixels \in Picture BY <1>1 DEF Image
<1>. QED BY <1>2, <1>3 DEF Unit, Write, Writes
LEMMA WriteCore == ASSUME Core, Write PROVE Core'
<1>1. out' \in Seq(Batch \cup Unit)
  <2>1. out \in Seq(Batch \cup Unit) BY DEF Core, TypeOK
  <2>2. PICK u \in Batch \cup Unit : out' = Append(out, u) BY UnitType
  <2>. QED BY <2>1, <2>2, AppendProperties
<1>. USE DEF Write, WorkerGoes, screenVars, mainVars
<1>2. TypeOK' BY <1>1 DEF Core, TypeOK
<1>3. Phases' BY DEF Core, Phases
<1>4. Counted' /\ SameScreen' BY DEF Core, Counted, Held, SameScreen, Size
<1>5. Authority' BY DEF Core, Authority
<1>. QED BY <1>2, <1>3, <1>4, <1>5 DEF Core
LEMMA FailCore == ASSUME Core, Fail PROVE Core'
<1>. USE DEF Fail, WorkerGoes, screenVars, mainVars
<1>1. control' \in Control /\ control'.authorized = control.authorized /\ control'.rect = control.rect
      /\ control'.generation = control.generation /\ control'.revision = control.revision
      /\ control'.stop = control.stop
  BY DEF Core, TypeOK, Control
<1>2. TypeOK' BY <1>1 DEF Core, TypeOK
<1>3. Phases' BY <1>1 DEF Core, Phases
<1>4. Counted' /\ SameScreen' BY DEF Core, Counted, Held, SameScreen, Size
<1>5. Authority' BY <1>1 DEF Core, Authority
<1>. QED BY <1>2, <1>3, <1>4, <1>5 DEF Core

\* The main thread.
LEMMA InvalidType ==
  ASSUME TypeOK
  PROVE /\ Invalid \in Encoded /\ ~Invalid.pending /\ ~Invalid.valid /\ Invalid.serial = tail.serial
        /\ Invalid.size = tail.size /\ Invalid.pending_video = tail.pending_video
<1>1. tail \in Encoded BY DEF TypeOK
<1>2. Invalid = [[tail EXCEPT !.pending = FALSE] EXCEPT !.valid = FALSE] BY DEF Invalid
<1>3. [tail EXCEPT !.pending = FALSE] \in Encoded BY <1>1 DEF Encoded
<1>4. Invalid \in Encoded BY <1>2, <1>3 DEF Encoded
<1>5. ~Invalid.pending /\ ~Invalid.valid
  <2>1. Invalid.pending = FALSE BY <1>2, <1>1 DEF Encoded
  <2>2. Invalid.valid = FALSE BY <1>2, <1>3 DEF Encoded
  <2>. QED BY <2>1, <2>2
<1>6. Invalid.serial = tail.serial /\ Invalid.size = tail.size BY <1>2, <1>3, <1>1 DEF Encoded
<1>7. Invalid.pending_video = tail.pending_video BY <1>2, <1>3, <1>1 DEF Encoded
<1>. QED BY <1>4, <1>5, <1>6, <1>7

\* After a reset only the conversion holds a lease.
LEMMA LetGoCore ==
  ASSUME Core, LetGo, at = "loop", control' \in Control, control'.revision >= control.revision,
         control'.revision # control.revision, ~control'.authorized,
         \/ at' = "loop" /\ control'.stop = control.stop
         \/ at' = "join" /\ control'.stop,
         UNCHANGED <<screenVars, hint, workVars, out, viewer>>, parked' \in BOOLEAN,
         commands' \in Seq(Command), events' \in 0..MaxEvents
  PROVE Core'
<1>. USE DEF LetGo, screenVars, workVars
<1>1. leases' = IF worker = "convert" THEN 1 ELSE 0
  BY HeldType DEF Core, TypeOK, Counted, Released
<1>2. TypeOK' BY <1>1, InvalidType, Constants DEF Core, TypeOK
<1>3. Phases' BY InvalidType DEF Core, Phases
<1>4. Counted' BY <1>1, HeldType DEF Counted
<1>5. SameScreen' BY InvalidType DEF Core, Phases, SameScreen
<1>6. Authority' BY DEF Core, TypeOK, Control, Authority, ControlIsFree
<1>. QED BY <1>2, <1>3, <1>4, <1>5, <1>6 DEF Core
LEMMA ResetCore ==
  ASSUME Core, Reset, at' = at, at = "loop",
         UNCHANGED <<screenVars, hint, workVars, out, viewer, events>>, parked' \in BOOLEAN,
         commands' \in Seq(Command)
  PROVE Core'
<1>1. control \in Control /\ control.revision \in Nat BY DEF Core, TypeOK, Control
<1>2. control' = Stopped(control) /\ LetGo BY DEF Reset
<1>3. events' \in 0..MaxEvents BY DEF Core, TypeOK
<1>. QED BY <1>1, <1>2, <1>3, StoppedType, LetGoCore
LEMMA ResetCommandCore == ASSUME Core, ResetCommand PROVE Core'
<1>1. commands' \in Seq(Command) BY TakesType DEF Core, ResetCommand
<1>2. at = "loop" BY DEF ResetCommand, Takes
<1>. QED BY <1>1, <1>2, ResetCore DEF ResetCommand
LEMMA TimeoutCore == ASSUME Core, Timeout PROVE Core'
<1>1. commands' \in Seq(Command) BY DEF Core, TypeOK, Timeout
<1>. QED BY <1>1, ResetCore DEF Timeout

\* A batch from the capture to the pipe.
LEMMA CaptureCore == ASSUME Core, Capture PROVE Core'
<1>. USE DEF Capture, workVars
<1>1. TypeOK' BY DEF Core, TypeOK
<1>2. Phases' BY DEF Core, Phases
<1>3. Counted' /\ SameScreen' BY DEF Core, Counted, Held, SameScreen, Size
<1>4. Authority' BY DEF Core, Authority
<1>. QED BY <1>1, <1>2, <1>3, <1>4 DEF Core
LEMMA AcquireCore == ASSUME Core, Acquire PROVE Core'
<1>. USE DEF Acquire, workVars, screenVars
<1>1. TypeOK' BY ScreenType DEF Core, TypeOK
<1>2. Phases' BY ScreenType DEF Core, Phases
<1>3. Counted' BY ScreenType, HeldType DEF Core, Counted, Phases
<1>4. SameScreen' BY DEF Core, SameScreen, Phases
<1>5. Authority' BY DEF Core, Authority
<1>. QED BY <1>1, <1>2, <1>3, <1>4, <1>5 DEF Core
LEMMA SelectVideoCore == ASSUME Core, SelectVideo PROVE Core'
<1>. USE DEF SelectVideo, workVars, screenVars
<1>1. control \in Control /\ control.revision \in Nat BY DEF Core, TypeOK, Control
<1>2. /\ control' \in Control /\ control'.revision >= control.revision /\ control'.stop = control.stop
      /\ \/ control' = control /\ active' = active /\ ~Rebased
         \/ control'.revision # control.revision /\ ~control'.authorized
  BY <1>1, StoppedType, SelectType DEF Core
<1>3. current \in Image /\ current # NoImage /\ Size(current.generation) \in 0..1
  BY SizeType DEF Core, TypeOK, Phases, Image
<1>4. leases' \in Nat /\ Counted'
  <2>1. CASE Rebased BY <2>1, <1>3, HeldType DEF Core, TypeOK, Counted, Rebased
  <2>2. CASE ~Rebased BY <2>2, HeldType DEF Core, TypeOK, Counted
  <2>. QED BY <2>1, <2>2
<1>5. TypeOK'
  <2>1. active' \in Rects BY SelectType DEF Core
  <2>2. tail' \in Encoded BY InvalidType DEF Core, TypeOK
  <2>3. acknowledged' \in Image \cup {NoImage} BY DEF Core, TypeOK
  <2>. QED BY <2>1, <2>2, <2>3, <1>2, <1>4 DEF Core, TypeOK
<1>6. Phases' BY <1>2, InvalidType DEF Core, Phases
<1>7. SameScreen' BY DEF Core, SameScreen, Rebased
<1>8. Authority'
  <2>1. CASE control' = control /\ active' = active /\ ~Rebased BY <2>1 DEF Core, Authority
  <2>2. CASE control'.revision # control.revision /\ ~control'.authorized
    BY <2>2, <1>1, <1>2 DEF Core, TypeOK, Control, Authority, ControlIsFree
  <2>. QED BY <2>1, <2>2, <1>2
<1>. QED BY <1>4, <1>5, <1>6, <1>7, <1>8 DEF Core

\* The batch that is sent.
SentBatch == [kind |-> "batch", serial |-> tail.serial + 1, reset |-> ~HasBase,
              tiles |-> Sent, pixels |-> current.pixels, video |-> active]
LEMMA SendType ==
  ASSUME Core, Send
  PROVE /\ SentBatch \in Batch /\ out' = Append(out, SentBatch) /\ out' \in Seq(Batch \cup Unit)
        /\ tail' \in Encoded /\ tail'.serial = tail.serial + 1 /\ tail'.pending
        /\ tail'.pending_video = active /\ tail'.size = Size(current.generation)
        /\ tail'.valid = tail.valid /\ tail'.acked_video = tail.acked_video
        /\ current \in Image /\ current.generation \in Nat
<1>1. tail \in Encoded /\ tail.serial \in Nat /\ active \in Rects BY DEF Core, TypeOK, Encoded
<1>2. current \in Image /\ current.generation \in Nat /\ current.pixels \in Picture
  BY DEF Core, TypeOK, Phases, Send, Image
<1>3. Size(current.generation) \in 0..1 BY <1>2, SizeType
<1>4. tail' = [[[[tail EXCEPT !.serial = tail.serial + 1] EXCEPT !.pending = TRUE]
                 EXCEPT !.pending_video = active] EXCEPT !.size = Size(current.generation)]
  BY <1>1 DEF Send, Encoded
<1>5. tail' \in Encoded
  <2>1. tail.serial + 1 \in Nat BY <1>1
  <2>2. [tail EXCEPT !.serial = tail.serial + 1] \in Encoded BY <1>1, <2>1 DEF Encoded
  <2>3. [[tail EXCEPT !.serial = tail.serial + 1] EXCEPT !.pending = TRUE] \in Encoded BY <2>2 DEF Encoded
  <2>4. [[[tail EXCEPT !.serial = tail.serial + 1] EXCEPT !.pending = TRUE]
           EXCEPT !.pending_video = active] \in Encoded BY <1>1, <2>3 DEF Encoded
  <2>. QED BY <2>4, <1>3, <1>4 DEF Encoded
<1>6. tail'.serial = tail.serial + 1 /\ tail'.pending = TRUE BY <1>1, <1>4 DEF Encoded
<1>7. tail'.pending_video = active /\ tail'.size = Size(current.generation) BY <1>1, <1>4 DEF Encoded
<1>8. tail'.valid = tail.valid /\ tail'.acked_video = tail.acked_video BY <1>1, <1>4 DEF Encoded
<1>9. SentBatch \in Batch /\ out' = Append(out, SentBatch)
  <2>1. Sent \in SUBSET TileSets BY DEF Sent
  <2>2. (~HasBase) \in BOOLEAN OBVIOUS
  <2>3. tail.serial + 1 \in Nat BY <1>1
  <2>4. SentBatch \in Batch BY <1>1, <1>2, <2>1, <2>2, <2>3 DEF SentBatch, Batch
  <2>. QED BY <2>4, <1>6 DEF Send, Writes, SentBatch
<1>10. out' \in Seq(Batch \cup Unit)
  <2>1. out \in Seq(Batch \cup Unit) BY DEF Core, TypeOK
  <2>. QED BY <2>1, <1>9, AppendProperties
<1>. QED BY <1>2, <1>5, <1>6, <1>7, <1>8, <1>9, <1>10
LEMMA SendCore == ASSUME Core, Send PROVE Core'
<1>1. /\ at = "send" /\ at' = "loop"
      /\ UNCHANGED <<screenVars, dirty, parked, hint, active, acknowledged, current,
                     workVars, control, leases, commands, viewer, events>> BY DEF Send
<1>. USE SendType, <1>1 DEF workVars, screenVars
<1>2. TypeOK' BY DEF Core, TypeOK
<1>3. Phases' BY DEF Core, Phases
<1>4. Counted' BY DEF Core, Counted, Held
<1>5. SameScreen' BY DEF Core, SameScreen, Size
<1>6. Authority' BY DEF Core, Authority
<1>. QED BY <1>2, <1>3, <1>4, <1>5, <1>6 DEF Core

\* An accepted answer makes the pending batch's region the acknowledged one.
LEMMA AckedType ==
  ASSUME TypeOK
  PROVE /\ Acked \in Encoded /\ ~Acked.pending /\ Acked.valid /\ Acked.serial = tail.serial
        /\ Acked.size = tail.size /\ Acked.pending_video = tail.pending_video
        /\ Acked.acked_video = tail.pending_video
<1>1. tail \in Encoded /\ tail.pending_video \in Rects BY DEF TypeOK, Encoded
<1>2. Acked = [[[tail EXCEPT !.pending = FALSE] EXCEPT !.valid = TRUE] EXCEPT !.acked_video = tail.pending_video]
  BY DEF Acked
<1>3. [tail EXCEPT !.pending = FALSE] \in Encoded BY <1>1 DEF Encoded
<1>4. [[tail EXCEPT !.pending = FALSE] EXCEPT !.valid = TRUE] \in Encoded BY <1>3 DEF Encoded
<1>5. Acked \in Encoded BY <1>1, <1>2, <1>4 DEF Encoded
<1>6. Acked.pending = FALSE BY <1>2, <1>1 DEF Encoded
<1>7. Acked.valid = TRUE BY <1>2, <1>1 DEF Encoded
<1>8. Acked.serial = tail.serial /\ Acked.size = tail.size BY <1>2, <1>1 DEF Encoded
<1>9. Acked.pending_video = tail.pending_video BY <1>2, <1>1 DEF Encoded
<1>10. Acked.acked_video = tail.pending_video BY <1>2, <1>4 DEF Encoded
<1>. QED BY <1>5, <1>6, <1>7, <1>8, <1>9, <1>10

\* The region is authorized as it was announced, and for the acknowledged screen.
LEMMA AckCore == ASSUME Core, Ack PROVE Core'
<1>. USE DEF Ack, workVars, screenVars
<1>1. /\ control \in Control /\ control.revision \in Nat /\ at = "loop" /\ tail.pending
      /\ current \in Image /\ current # NoImage /\ current.generation \in Nat
  BY DEF Core, TypeOK, Control, Phases, Takes, Answers, Image
<1>2. /\ active' = Wanted(tail.size) /\ active' \in Rects
      /\ LET selected == Select(tail.size, control)
         IN  /\ selected \in Control /\ selected.revision >= control.revision /\ selected.stop = control.stop
             /\ \/ selected = control /\ active' = active
                \/ selected.revision # control.revision /\ ~selected.authorized
  BY <1>1, StoppedType, SelectType DEF Core
<1>3. tail' = Acked /\ acknowledged' = current /\ current' = NoImage BY DEF Ack
<1>4. PICK c \in Control :
         /\ c = Select(tail.size, control) /\ c.revision >= control.revision /\ c.stop = control.stop
         /\ \/ c = control /\ active' = active
            \/ c.revision # control.revision /\ ~c.authorized
         /\ control' = IF active' = {} \/ active' # tail.pending_video THEN c
                       ELSE [c EXCEPT !.rect = active', !.authorized = TRUE, !.generation = current.generation]
  BY <1>2, AckedType DEF Authorized, Core
<1>5. control.authorized =>
        /\ control.rect = active /\ active = tail.pending_video /\ active # {}
        /\ control.generation = current.generation /\ acknowledged # NoImage
  BY <1>1 DEF Core, Authority, SameScreen
<1>6. /\ control' \in Control /\ control'.revision = c.revision /\ control'.stop = c.stop
      /\ control'.authorized => active' # {} /\ active' = control'.rect /\ active' = tail.pending_video
                                /\ control'.generation = current.generation
      /\ c = control /\ control.authorized /\ active' = active =>
           control'.authorized /\ control'.rect = control.rect /\ control'.generation = control.generation
  <2>1. CASE active' = {} \/ active' # tail.pending_video
    <3>1. control' = c BY <1>4, <2>1
    <3>2. c.authorized => c = control /\ active' = active BY <1>4
    <3>. QED BY <3>1, <3>2, <1>5
  <2>2. CASE ~(active' = {} \/ active' # tail.pending_video)
    <3>1. control' = [[[c EXCEPT !.rect = active'] EXCEPT !.authorized = TRUE]
                        EXCEPT !.generation = current.generation] BY <1>4, <2>2
    <3>2. control' \in Control BY <3>1, <1>1, <1>2 DEF Control
    <3>3. control'.authorized = TRUE BY <3>1 DEF Control
    <3>4. control'.rect = active' BY <3>1 DEF Control
    <3>5. control'.generation = current.generation BY <3>1 DEF Control
    <3>6. control'.revision = c.revision /\ control'.stop = c.stop BY <3>1 DEF Control
    <3>. QED BY <3>2, <3>3, <3>4, <3>5, <3>6, <2>2, <1>5
  <2>. QED BY <2>1, <2>2
<1>7. TypeOK'
  <2>1. commands' \in Seq(Command) BY TakesType DEF Core
  <2>2. leases' \in Nat
    <3>1. leases = Held(current) + Held(acknowledged) + (IF worker = "convert" THEN 1 ELSE 0)
      BY DEF Core, Counted
    <3>2. leases' = leases - Held(acknowledged) OBVIOUS
    <3>. HIDE DEF Ack
    <3>. QED BY <3>1, <3>2, HeldType
  <2>. QED BY <2>1, <2>2, <1>1, <1>2, <1>3, <1>6, AckedType DEF Core, TypeOK
<1>8. Phases'
  <2>1. ~tail'.pending /\ tail'.valid /\ acknowledged' # NoImage BY <1>1, <1>3, AckedType DEF Core
  <2>2. control'.stop = control.stop BY <1>4, <1>6
  <2>. QED BY <2>1, <2>2, <1>1, <1>3 DEF Core, Phases
<1>9. Counted' BY <1>1, <1>3, HeldType DEF Core, Counted, TypeOK
<1>10. SameScreen' BY <1>1, <1>3, AckedType DEF Core, SameScreen
<1>11. Authority'
  <2>1. control'.authorized => active' # {} /\ active' = control'.rect /\ active' = tail'.pending_video
                               /\ acknowledged' # NoImage /\ acknowledged'.generation = control'.generation
    BY <1>1, <1>3, <1>6, AckedType DEF Core
  <2>2. frame.revision <= control'.revision BY <1>1, <1>4, <1>6 DEF Core, Authority, TypeOK, Control
  <2>3. ASSUME worker \in {"acquire", "convert", "check", "write", "fail"}, frame.revision = control'.revision
        PROVE control'.authorized /\ frame.rect = control'.rect /\ frame.generation = control'.generation
    <3>1. control.revision = frame.revision /\ c.revision = control.revision
      BY <1>1, <1>4, <1>6, <2>3 DEF Core, Authority, TypeOK, Control
    <3>2. c = control /\ active' = active BY <3>1, <1>4
    <3>3. control.authorized /\ frame.rect = control.rect /\ frame.generation = control.generation
      BY <3>1, <2>3 DEF Core, Authority
    <3>. QED BY <3>2, <3>3, <1>6
  <2>4. worker # "write" BY DEF ControlIsFree
  <2>. QED BY <2>1, <2>2, <2>3, <2>4 DEF Authority
<1>. QED BY <1>7, <1>8, <1>9, <1>10, <1>11 DEF Core

\* Another hint, and the end of the input, stop the video.
LEMMA HintCore ==
  ASSUME Core, Outside, NEW rect \in Rects, NEW size \in 0..1, Hint(rect, size) PROVE Core'
<1>. USE DEF Hint, workVars, screenVars
<1>1. control \in Control /\ control.revision \in Nat BY DEF Core, TypeOK, Control
<1>2. events' \in 0..MaxEvents BY OutsideType DEF Core
<1>3. hint' \in [rect : Rects, size : 0..1, fresh : BOOLEAN] OBVIOUS
<1>4. CASE rect = hint.rect /\ size = hint.size
  <2>1. UNCHANGED <<dirty, active, control>> BY <1>4
  <2>2. TypeOK' BY <2>1, <1>2, <1>3 DEF Core, TypeOK
  <2>. QED BY <2>1, <2>2, CoreKept
<1>5. CASE ~(rect = hint.rect /\ size = hint.size)
  <2>1. control' = [Stopped(control) EXCEPT !.failed = FALSE] /\ active' = {} /\ dirty' = TRUE BY <1>5
  <2>2. Stopped(control) \in Control BY <1>1, StoppedType
  <2>3. control' \in Control BY <2>1, <2>2 DEF Control
  <2>4. control'.revision = Stopped(control).revision /\ control'.stop = Stopped(control).stop
    BY <2>1, <2>2 DEF Control
  <2>5. control'.authorized = Stopped(control).authorized BY <2>1, <2>2 DEF Control
  <2>6. control'.revision = control.revision + 1 /\ control'.stop = control.stop /\ ~control'.authorized
    BY <2>4, <2>5, <1>1, StoppedType
  <2>7. TypeOK' BY <2>1, <2>3, <1>2, <1>3, Constants DEF Core, TypeOK
  <2>8. Phases' BY <2>6 DEF Core, Phases
  <2>9. Counted' /\ SameScreen' BY DEF Core, Counted, Held, SameScreen, Size
  <2>10. Authority' BY <2>6, <1>1 DEF Core, TypeOK, Control, Authority, ControlIsFree
  <2>. QED BY <2>7, <2>8, <2>9, <2>10 DEF Core
<1>. QED BY <1>4, <1>5

LEMMA EofCore == ASSUME Core, Outside, Eof PROVE Core'
<1>1. control \in Control /\ control.revision \in Nat BY DEF Core, TypeOK, Control
<1>2. control' = [Stopped(control) EXCEPT !.stop = TRUE] /\ at = "loop" /\ LetGo BY DEF Eof
<1>3. Stopped(control) \in Control BY <1>1, StoppedType
<1>4. control' \in Control BY <1>2, <1>3 DEF Control
<1>5. control'.revision = Stopped(control).revision /\ control'.authorized = Stopped(control).authorized
  BY <1>2, <1>3 DEF Control
<1>6. control'.stop = TRUE BY <1>2, <1>3 DEF Control
<1>7. control'.revision = control.revision + 1 /\ ~control'.authorized
  BY <1>1, <1>5, StoppedType
<1>8. events' \in 0..MaxEvents BY OutsideType DEF Core
<1>9. /\ control'.revision >= control.revision /\ control'.revision # control.revision
      /\ at' = "join" /\ control'.stop /\ parked' \in BOOLEAN /\ commands' \in Seq(Command)
      /\ UNCHANGED <<screenVars, hint, workVars, out, viewer>>
  <2>1. control'.revision >= control.revision /\ control'.revision # control.revision BY <1>1, <1>7
  <2>2. at' = "join" /\ parked' \in BOOLEAN /\ UNCHANGED <<screenVars, hint, workVars, out, viewer>>
    BY DEF Eof
  <2>3. commands' \in Seq(Command) BY DEF Eof, Core, TypeOK
  <2>. QED BY <2>1, <2>2, <2>3, <1>6
<1>. QED BY <1>2, <1>4, <1>7, <1>8, <1>9, LetGoCore
LEMMA JoinCore == ASSUME Core, Join PROVE Core'
<1>. USE DEF Join, workVars, screenVars
<1>1. TypeOK' BY DEF Core, TypeOK
<1>2. Phases' BY DEF Core, Phases
<1>3. Counted' /\ SameScreen' BY DEF Core, Counted, Held, SameScreen, Size, Phases
<1>4. Authority' BY DEF Core, Authority
<1>. QED BY <1>1, <1>2, <1>3, <1>4 DEF Core

LEMMA CoreStutter == ASSUME Core, UNCHANGED vars PROVE Core'
<1>1. TypeOK' BY DEF Core, TypeOK, vars, screenVars, mainVars, workVars
<1>. QED BY <1>1, CoreKept DEF vars, mainVars, workVars

LEMMA CoreStep == ASSUME Core, [Next]_vars PROVE Core'
<1>1. CASE MainStep
  BY <1>1, PollCore, StaleAnswerCore, ResetCommandCore, AckCore, RepairCore, TimeoutCore,
     CaptureCore, AcquireCore, SelectVideoCore, SendCore, JoinCore DEF MainStep
<1>2. CASE WorkerStep
  BY <1>2, NextFrameCore, WorkerEndsCore, OpenFailsCore, WorkerLeasesCore, ConvertCore, CheckCore,
     WriteCore, FailCore DEF WorkerStep
<1>3. CASE ViewerStep BY <1>3, ReceiveBatchCore, ReceiveUnitCore, DropCore DEF ViewerStep
<1>4. CASE Environment
  BY <1>4, RefusesCore, ResizeCore, HintAgesCore, LeavesCore, JoinsCore, PaintCore, EofCore, HintCore
  DEF Environment
<1>5. CASE UNCHANGED vars BY <1>5, CoreStutter
<1>. QED BY <1>1, <1>2, <1>3, <1>4, <1>5 DEF Next

\* The state of the threads, their images and leases is as Core says.
THEOREM CoreInvariant == Spec => []Core
<1>1. Core /\ [Next]_vars => Core' BY CoreStep
<1>. QED BY CoreInit, <1>1, PTL DEF Spec

\* Every variable has its type, whatever the screen, the hints and the viewer do.
THEOREM TypeCorrect == Spec => []TypeOK
<1>1. Core => TypeOK BY DEF Core
<1>. QED BY <1>1, CoreInvariant, PTL

\* Three slots are enough for both threads at every moment, and none is held at
\* the end (live-state.c:16,32,50).
THEOREM LeasesSuffice == Spec => []LeasesFit
<1>1. Core => LeasesFit
  <2> SUFFICES ASSUME Core PROVE LeasesFit OBVIOUS
  <2>1. leases <= Slots BY HeldType DEF Core, Counted, Slots, TypeOK
  <2>2. at = "ended" => leases = 0 BY HeldType DEF Core, Counted, Phases
  <2>. QED BY <2>1, <2>2 DEF LeasesFit
<1>. QED BY <1>1, CoreInvariant, PTL

\* No unit of video goes out for another region than the one last announced, or
\* for a screen of another generation: the revision and the mutex, which the
\* worker keeps from the check to the end of the write, exclude it
\* (live-video-worker.c:71-81).
THEOREM UnitsAreAnnounced == Spec => UnitsFit
<1>1. ASSUME Core, [Next]_vars
      PROVE [(worker = "write" /\ worker' # "write") =>
              /\ frame.rect = tail.pending_video
              /\ acknowledged # NoImage /\ frame.generation = acknowledged.generation]_vars
  BY <1>1 DEF Core, Authority
<1>. QED BY <1>1, CoreInvariant, PTL DEF Spec, UnitsFit

-----------------------------------------------------------------------------
\* What is on the wire.

NoBatch == \A j \in 1..Len(out) : out[j].kind # "batch"
\* A viewer that has been told everything shows this snapshot, outside this region.
Caught(i, region) ==
  /\ NoBatch
  /\ viewer.on /\ viewer.synced => viewer.shot = i.pixels /\ viewer.region = region
\* What a batch leaves out the viewer has.
Follows(b) == \A t \in TileSets \ b.tiles : \A p \in t \ b.video :
                 p \notin viewer.region /\ viewer.shot[p] = b.pixels[p]

\* A batch on its way: a full one is full, a difference is the first one there
\* and fits what the viewer shows; the one that is pending is the last one.
Sound(i) ==
  /\ out[i].serial <= tail.serial
  /\ out[i].reset => out[i].tiles = TileSets
  /\ ~out[i].reset => /\ \A j \in 1..(i - 1) : out[j].kind # "batch"
                      /\ viewer.on /\ viewer.synced => Follows(out[i])
  /\ tail.pending /\ out[i].serial = tail.serial =>
       /\ \A j \in (i + 1)..Len(out) : out[j].kind # "batch"
       /\ out[i].pixels = current.pixels /\ out[i].video = tail.pending_video
Sends == \A i \in 1..Len(out) : out[i].kind = "batch" => Sound(i)
\* An answer that will be accepted is that of a viewer that has the batch.
Answered ==
  \A i \in 1..Len(commands) :
     /\ commands[i].serial <= tail.serial
     /\ tail.pending /\ commands[i].kind = "ack" /\ commands[i].serial = tail.serial
          => Caught(current, tail.pending_video)
\* What the next batch will be a difference to.
Based == ~tail.pending /\ tail.valid => Caught(acknowledged, tail.acked_video)

Wire == Sends /\ Answered /\ Based /\ PictureIsExact

\* Neither the encoder's state nor the viewer changes, and no batch is added.
LEMMA WireKept ==
  ASSUME Wire, UNCHANGED <<tail, viewer>>, tail.pending => UNCHANGED current,
         UNCHANGED acknowledged \/ tail.pending,
         UNCHANGED out, UNCHANGED commands
  PROVE Wire'
<1>1. Sends' BY DEF Wire, Sends, Sound, Follows
<1>2. Answered' BY DEF Wire, Answered, Caught, NoBatch
<1>3. Based' BY DEF Wire, Based, Caught, NoBatch
<1>4. PictureIsExact' BY DEF Wire, PictureIsExact
<1>. QED BY <1>1, <1>2, <1>3, <1>4 DEF Wire

\* A unit is no batch.
LEMMA WriteWire == ASSUME Core, Wire, Write PROVE Wire'
<1>. DEFINE u == [kind |-> "unit", rect |-> frame.rect, pixels |-> image.pixels]
<1>1. out \in Seq(Batch \cup Unit) /\ u \in Batch \cup Unit /\ out' = Append(out, u)
  BY UnitType DEF Core, TypeOK
<1>2. u.kind = "unit" OBVIOUS
<1>3. /\ Len(out') = Len(out) + 1 /\ Len(out) \in Nat
      /\ \A i \in 1..Len(out) : i \in 1..Len(out') /\ out'[i] = out[i]
      /\ \A i \in 1..Len(out') : \/ i \in 1..Len(out) /\ out'[i] = out[i]
                                 \/ i = Len(out') /\ out'[i] = u
  <2>. HIDE DEF u
  <2>. QED BY <1>1, Appending
<1>. HIDE DEF u
<1>4. UNCHANGED <<tail, viewer, current, acknowledged, commands>>
  BY DEF Write, WorkerGoes, mainVars
<1>5. ASSUME NEW i \in 1..Len(out'), out'[i].kind = "batch" PROVE i \in 1..Len(out) /\ out'[i] = out[i]
  BY <1>2, <1>3, <1>5
<1>6. Sends'
  <2> SUFFICES ASSUME NEW i \in 1..Len(out'), out'[i].kind = "batch" PROVE Sound(i)' BY DEF Sends
  <2>1. i \in 1..Len(out) /\ out'[i] = out[i] /\ Sound(i) BY <1>5 DEF Wire, Sends
  <2>2. ASSUME NEW j \in 1..(i - 1) PROVE j \in 1..Len(out) /\ out'[j] = out[j] BY <2>1, <1>3
  <2>3. ASSUME NEW j \in (i + 1)..Len(out'), out'[j].kind = "batch" PROVE j \in (i + 1)..Len(out) /\ out'[j] = out[j]
    BY <1>2, <1>3, <2>3
  <2>. QED BY <2>1, <2>2, <2>3, <1>4 DEF Sound, Follows
<1>7. NoBatch => NoBatch' BY <1>5 DEF NoBatch
<1>8. Answered' BY <1>4, <1>7 DEF Wire, Answered, Caught
<1>9. Based' BY <1>4, <1>7 DEF Wire, Based, Caught
<1>10. PictureIsExact' BY <1>4 DEF Wire, PictureIsExact
<1>. QED BY <1>6, <1>8, <1>9, <1>10 DEF Wire

\* The encoder starts anew: nothing is pending, and there is no base.
LEMMA LetGoWire ==
  ASSUME Core, Wire, LetGo, UNCHANGED <<out, viewer>>, commands' \in Seq(Command),
         \A i \in 1..Len(commands') : \E j \in 1..Len(commands) : commands'[i] = commands[j]
  PROVE Wire'
<1>1. tail'.serial = tail.serial /\ ~tail'.pending /\ ~tail'.valid BY InvalidType DEF LetGo, Core
<1>2. Sends' BY <1>1 DEF Wire, Sends, Sound, Follows
<1>3. Answered' BY <1>1 DEF Wire, Answered
<1>4. Based' BY <1>1 DEF Based
<1>5. PictureIsExact' BY DEF Wire, PictureIsExact
<1>. QED BY <1>2, <1>3, <1>4, <1>5 DEF Wire

LEMMA TakenCommands ==
  ASSUME Core, NEW k, Takes(k)
  PROVE /\ commands' \in Seq(Command) /\ \A i \in 1..Len(commands') : \E j \in 1..Len(commands) : commands'[i] = commands[j]
        /\ 1 \in 1..Len(commands) /\ Head(commands) = commands[1]
<1>1. commands \in Seq(Command) /\ commands # <<>> /\ commands' = Tail(commands)
  BY DEF Core, TypeOK, Takes
<1>. QED BY <1>1, Taking

\* Commands that are taken, with a batch or without.
LEMMA StaleAnswerWire == ASSUME Core, Wire, StaleAnswer PROVE Wire'
<1>. USE DEF StaleAnswer, mainVars
<1>1. \A i \in 1..Len(commands') : \E j \in 1..Len(commands) : commands'[i] = commands[j]
  BY TakenCommands
<1>2. Sends' BY DEF Wire, Sends, Sound, Follows
<1>3. NoBatch' <=> NoBatch BY DEF NoBatch
<1>4. Answered' BY <1>1, <1>3 DEF Wire, Answered, Caught
<1>5. Based' BY <1>3 DEF Wire, Based, Caught
<1>6. PictureIsExact' BY DEF Wire, PictureIsExact
<1>. QED BY <1>2, <1>4, <1>5, <1>6 DEF Wire
LEMMA ResetCommandWire == ASSUME Core, Wire, ResetCommand PROVE Wire'
<1>1. commands' \in Seq(Command) /\ \A i \in 1..Len(commands') : \E j \in 1..Len(commands) : commands'[i] = commands[j]
  BY TakenCommands DEF ResetCommand
<1>. QED BY <1>1, LetGoWire DEF ResetCommand, Reset
LEMMA TimeoutWire == ASSUME Core, Wire, Timeout PROVE Wire'
<1>1. commands' \in Seq(Command) /\ commands' = commands BY DEF Core, TypeOK, Timeout
<1>. QED BY <1>1, LetGoWire DEF Timeout, Reset
LEMMA EofWire == ASSUME Core, Wire, Eof PROVE Wire'
<1>1. commands' \in Seq(Command) /\ commands' = commands BY DEF Core, TypeOK, Eof
<1>. QED BY <1>1, LetGoWire DEF Eof

\* The answer to the pending batch: what it showed is the base from now on.
LEMMA AckWire == ASSUME Core, Wire, Ack PROVE Wire'
<1>1. /\ \A i \in 1..Len(commands') : \E j \in 1..Len(commands) : commands'[i] = commands[j]
      /\ 1 \in 1..Len(commands) /\ Head(commands) = commands[1]
  BY TakenCommands DEF Ack
<1>2. /\ tail'.serial = tail.serial /\ ~tail'.pending /\ tail'.acked_video = tail.pending_video
      /\ acknowledged' = current
  BY AckedType DEF Ack, Core
<1>3. tail.pending /\ commands[1].kind = "ack" /\ commands[1].serial = tail.serial
  BY <1>1 DEF Ack, Takes, Answers
<1>4. Caught(current, tail.pending_video) BY <1>1, <1>3 DEF Wire, Answered
<1>5. UNCHANGED <<out, viewer>> BY DEF Ack
<1>6. Sends' BY <1>2, <1>5 DEF Wire, Sends, Sound, Follows
<1>7. Answered' BY <1>1, <1>2 DEF Wire, Answered
<1>8. Based' BY <1>2, <1>4, <1>5 DEF Based, Caught, NoBatch
<1>9. PictureIsExact' BY <1>5 DEF Wire, PictureIsExact
<1>. QED BY <1>6, <1>7, <1>8, <1>9 DEF Wire

LEMMA AcquireWire == ASSUME Core, Wire, Acquire PROVE Wire'
<1>1. ~tail.pending BY DEF Core, Phases, Acquire
<1>. QED BY <1>1, WireKept DEF Acquire
LEMMA SelectVideoWire == ASSUME Core, Wire, SelectVideo PROVE Wire'
<1>1. CASE Rebased
  <2>1. tail'.serial = tail.serial /\ ~tail'.pending /\ ~tail'.valid BY <1>1, InvalidType DEF SelectVideo, Core
  <2>2. UNCHANGED <<out, viewer, commands>> BY DEF SelectVideo
  <2>3. Sends' BY <2>1, <2>2 DEF Wire, Sends, Sound, Follows
  <2>4. Answered' BY <2>1, <2>2 DEF Wire, Answered
  <2>5. Based' BY <2>1 DEF Based
  <2>6. PictureIsExact' BY <2>2 DEF Wire, PictureIsExact
  <2>. QED BY <2>3, <2>4, <2>5, <2>6 DEF Wire
<1>2. CASE ~Rebased BY <1>2, WireKept DEF SelectVideo
<1>. QED BY <1>1, <1>2

\* A full batch is full; a difference is one to what the viewer shows.
LEMMA SentIsFull == ASSUME ~HasBase PROVE Sent = TileSets
BY DEF Sent, Stable, Changed
LEMMA SentFollows ==
  ASSUME Core, HasBase, viewer.shot = acknowledged.pixels, viewer.region = tail.acked_video
  PROVE Follows(SentBatch)
<1> SUFFICES ASSUME NEW t \in TileSets \ Sent, NEW p \in t \ active
             PROVE p \notin viewer.region /\ viewer.shot[p] = current.pixels[p]
  BY DEF Follows, SentBatch
<1>1. ~(Stable /\ t \subseteq active) OBVIOUS
<1>2. ~Changed(t) BY <1>1 DEF Sent
<1>3. current.pixels[p] = acknowledged.pixels[p] BY <1>2 DEF Changed
<1>4. p \notin tail.acked_video
  <2>1. CASE Stable BY <2>1 DEF Stable, Previous, HasBase
  <2>2. CASE ~Stable BY <2>2, <1>2 DEF Changed, Previous
  <2>. QED BY <2>1, <2>2
<1>. QED BY <1>3, <1>4

\* The batch that is sent is the last one, and the only one pending.
LEMMA SendWire == ASSUME Core, Wire, Send PROVE Wire'
<1>1. ~tail.pending /\ current # NoImage BY DEF Core, Phases, Send
<1>2. UNCHANGED <<viewer, commands, current, acknowledged>> BY DEF Send
<1>3. /\ tail'.serial = tail.serial + 1 /\ tail'.pending /\ tail'.pending_video = active
      /\ tail.serial \in Nat
  BY SendType DEF Core, TypeOK, Encoded
<1>4. /\ Len(out') = Len(out) + 1 /\ Len(out) \in Nat
      /\ \A i \in 1..Len(out) : i \in 1..Len(out') /\ out'[i] = out[i]
      /\ \A i \in 1..Len(out') : \/ i \in 1..Len(out) /\ out'[i] = out[i]
                                 \/ i = Len(out') /\ out'[i] = SentBatch
  <2>1. out \in Seq(Batch \cup Unit) /\ SentBatch \in Batch \cup Unit /\ out' = Append(out, SentBatch)
    BY SendType DEF Core, TypeOK
  <2>. QED BY <2>1, Appending
<1>5. /\ SentBatch.serial = tail.serial + 1 /\ SentBatch.pixels = current.pixels
      /\ SentBatch.video = active /\ SentBatch.tiles = Sent
  BY DEF SentBatch
<1>6. SentBatch.reset = ~HasBase BY DEF SentBatch
<1>7. Sends'
  <2> SUFFICES ASSUME NEW i \in 1..Len(out'), out'[i].kind = "batch" PROVE Sound(i)' BY DEF Sends
  <2>1. CASE i \in 1..Len(out) /\ out'[i] = out[i]
    <3>1. Sound(i) BY <2>1 DEF Wire, Sends
    <3>2. out[i].serial \in Nat
      <4>1. out[i] \in Batch \cup Unit BY <2>1, ElementOfSeq DEF Core, TypeOK
      <4>. QED BY <4>1, <2>1 DEF Batch, Unit
    <3>3. out'[i].serial <= tail'.serial /\ out'[i].serial # tail'.serial
      BY <3>1, <3>2, <2>1, <1>3 DEF Sound
    <3>4. ASSUME NEW j \in 1..(i - 1) PROVE j \in 1..Len(out) /\ out'[j] = out[j] BY <2>1, <1>4
    <3>5. out'[i].reset => out'[i].tiles = TileSets BY <3>1, <2>1 DEF Sound
    <3>6. ASSUME ~out'[i].reset
          PROVE /\ \A j \in 1..(i - 1) : out'[j].kind # "batch"
                /\ viewer.on /\ viewer.synced => Follows(out'[i])
      BY <3>6, <3>1, <3>4, <2>1 DEF Sound
    <3>. QED BY <3>3, <3>5, <3>6, <1>2 DEF Sound, Follows
  <2>2. CASE i = Len(out') /\ out'[i] = SentBatch
    <3>1. out'[i].reset => out'[i].tiles = TileSets BY <2>2, <1>5, <1>6, SentIsFull
    <3>2. ASSUME ~out'[i].reset
          PROVE /\ \A j \in 1..(i - 1) : out'[j].kind # "batch"
                /\ viewer.on /\ viewer.synced => Follows(out'[i])
      <4>1. HasBase BY <3>2, <2>2, <1>6
      <4>2. Caught(acknowledged, tail.acked_video) BY <4>1, <1>1 DEF Wire, Based, HasBase
      <4>3. ASSUME NEW j \in 1..(i - 1) PROVE j \in 1..Len(out) /\ out'[j] = out[j] BY <2>2, <1>4
      <4>4. \A j \in 1..(i - 1) : out'[j].kind # "batch" BY <4>2, <4>3 DEF Caught, NoBatch
      <4>5. viewer.on /\ viewer.synced => Follows(out'[i]) BY <4>1, <4>2, <2>2, SentFollows DEF Caught
      <4>. QED BY <4>4, <4>5
    <3>3. out'[i].serial <= tail'.serial BY <2>2, <1>3, <1>5
    <3>4. out'[i].pixels = current'.pixels /\ out'[i].video = tail'.pending_video BY <2>2, <1>2, <1>3, <1>5
    <3>5. \A j \in (i + 1)..Len(out') : out'[j].kind # "batch" BY <2>2, <1>4
    <3>. QED BY <3>1, <3>2, <3>3, <3>4, <3>5, <1>2 DEF Sound, Follows
  <2>. QED BY <2>1, <2>2, <1>4
<1>8. Answered'
  <2> SUFFICES ASSUME NEW i \in 1..Len(commands)
               PROVE commands[i].serial <= tail'.serial /\ commands[i].serial # tail'.serial
    BY <1>2 DEF Answered
  <2>1. commands[i].serial <= tail.serial BY DEF Wire, Answered
  <2>2. commands[i] \in Command BY ElementOfSeq DEF Core, TypeOK
  <2>. QED BY <2>1, <2>2, <1>3 DEF Command
<1>9. Based' BY <1>3 DEF Based
<1>10. PictureIsExact' BY <1>2 DEF Wire, PictureIsExact
<1>. QED BY <1>7, <1>8, <1>9, <1>10 DEF Wire

\* The messages behind the first one move up.
LEMMA RestOut ==
  ASSUME Core, Receives
  PROVE /\ 1 \in 1..Len(out) /\ Message = out[1] /\ out[1] \in Batch \cup Unit
        /\ Len(out') = Len(out) - 1 /\ Len(out) \in Nat
        /\ \A i \in 1..Len(out') : i + 1 \in 1..Len(out) /\ out'[i] = out[i + 1]
        /\ UNCHANGED <<tail, current, acknowledged>>
<1>1. out \in Seq(Batch \cup Unit) /\ out # <<>> /\ out' = Tail(out) BY DEF Core, TypeOK, Receives
<1>2. UNCHANGED <<tail, current, acknowledged>> BY DEF Receives, mainVars
<1>. QED BY <1>1, <1>2, Taking DEF Message
\* A viewer that still counts as told shows what it showed, or a batch went, so
\* that all that follow are full ones.
LEMMA RestWire ==
  ASSUME Core, Wire, Receives,
         \/ out[1].kind = "batch"
         \/ viewer'.on /\ viewer'.synced => /\ viewer.on /\ viewer.synced
                                            /\ viewer'.shot = viewer.shot /\ viewer'.region = viewer.region
  PROVE /\ Sends'
        /\ NoBatch => NoBatch'
        /\ out[1].kind = "batch" => Based'
        /\ \A i, region : Caught(i, region) => out[1].kind # "batch"
<1>1. ASSUME NEW i \in 1..Len(out'), out'[i].kind = "batch" PROVE Sound(i)'
  <2>1. i + 1 \in 1..Len(out) /\ out'[i] = out[i + 1] /\ Sound(i + 1)
    BY <1>1, RestOut DEF Wire, Sends
  <2>2. ASSUME NEW j \in 1..(i - 1) PROVE j + 1 \in 1..((i + 1) - 1) /\ out'[j] = out[j + 1] BY RestOut
  <2>3. ASSUME NEW j \in (i + 1)..Len(out') PROVE j + 1 \in ((i + 1) + 1)..Len(out) /\ out'[j] = out[j + 1]
    BY RestOut
  <2>4. 1 \in 1..((i + 1) - 1) BY RestOut
  <2>5. ASSUME ~out'[i].reset
        PROVE /\ \A j \in 1..(i - 1) : out'[j].kind # "batch"
              /\ viewer'.on /\ viewer'.synced => Follows(out[i])'
    <3>1. \A j \in 1..(i - 1) : out'[j].kind # "batch" BY <2>1, <2>2, <2>5 DEF Sound
    <3>2. out[1].kind # "batch" BY <2>1, <2>4, <2>5 DEF Sound
    <3>3. ASSUME viewer'.on, viewer'.synced PROVE Follows(out[i])'
      <4>1. viewer'.shot = viewer.shot /\ viewer'.region = viewer.region /\ Follows(out[i + 1])
        BY <3>2, <3>3, <2>1, <2>5 DEF Sound
      <4>. QED BY <4>1, <2>1 DEF Follows
    <3>. QED BY <3>1, <3>3
  <2>6. out'[i].serial <= tail'.serial /\ (out'[i].reset => out'[i].tiles = TileSets)
    BY <2>1, RestOut DEF Sound
  <2>7. ASSUME tail'.pending, out'[i].serial = tail'.serial
        PROVE /\ \A j \in (i + 1)..Len(out') : out'[j].kind # "batch"
              /\ out'[i].pixels = current'.pixels /\ out'[i].video = tail'.pending_video
    BY <2>1, <2>3, <2>7, RestOut DEF Sound
  <2>. QED BY <2>5, <2>6, <2>7 DEF Sound
<1>2. NoBatch => NoBatch' BY RestOut DEF NoBatch
<1>3. \A i, region : Caught(i, region) => out[1].kind # "batch" BY RestOut DEF Caught, NoBatch
<1>4. out[1].kind = "batch" => Based' BY <1>3, RestOut DEF Wire, Based
<1>. QED BY <1>1, <1>2, <1>3, <1>4 DEF Sends

\* A batch that is applied leaves the very snapshot outside of the region.
LEMMA AppliedIsExact ==
  ASSUME Core, Wire, NEW b \in Batch, NEW p \in Pixels \ b.video,
         \/ b.reset /\ b.tiles = TileSets
         \/ ~b.reset /\ viewer.synced /\ Follows(b)
  PROVE Applied(b)[p] = b.pixels[p]
<1>1. PICK t \in TileSets : p \in t BY LiveAssumption
<1>2. CASE \E u \in b.tiles : p \in u BY <1>2 DEF Applied
<1>3. CASE ~\E u \in b.tiles : p \in u
  <2>1. t \in TileSets \ b.tiles BY <1>1, <1>3
  <2>2. ~b.reset /\ p \notin viewer.region /\ viewer.shot[p] = b.pixels[p] /\ viewer.synced
    BY <2>1, <1>1 DEF Follows
  <2>3. viewer.canvas[p] = viewer.shot[p] BY <2>2 DEF Wire, PictureIsExact
  <2>. QED BY <2>2, <2>3, <1>3 DEF Applied
<1>. QED BY <1>2, <1>3

\* The viewer applies a batch and answers: the answer is that of a viewer that has it.
LEMMA ReceiveBatchWire == ASSUME Core, Wire, ReceiveBatch PROVE Wire'
<1>. DEFINE b == Message
            c == [kind |-> "ack", serial |-> b.serial]
<1>1. Receives /\ viewer.on /\ b.kind = "batch" BY DEF ReceiveBatch
<1>2. /\ b = out[1] /\ b \in Batch /\ 1 \in 1..Len(out) /\ b.serial \in Nat
      /\ UNCHANGED <<tail, current, acknowledged>> BY <1>1, RestOut DEF Unit, Batch
<1>3. Sound(1) BY <1>1, <1>2 DEF Wire, Sends
<1>4. /\ viewer'.on = viewer.on
      /\ viewer'.shot = b.pixels /\ viewer'.region = b.video /\ viewer'.canvas = Applied(b)
  BY DEF ReceiveBatch, Core, TypeOK, Viewer
<1>5. viewer'.synced = (viewer.synced \/ b.reset) BY DEF ReceiveBatch, Core, TypeOK, Viewer
<1>6. /\ Len(commands') = Len(commands) + 1 /\ Len(commands) \in Nat
      /\ \A i \in 1..Len(commands') : \/ i \in 1..Len(commands) /\ commands'[i] = commands[i]
                                      \/ i = Len(commands') /\ commands'[i] = c
  <2>1. c \in Command BY <1>2 DEF Command
  <2>2. commands \in Seq(Command) BY DEF Core, TypeOK
  <2>3. commands' = Append(commands, c) BY DEF ReceiveBatch
  <2>. HIDE DEF c
  <2>. QED BY <2>1, <2>2, <2>3, Appending
<1>7. c.serial = b.serial OBVIOUS
<1>. HIDE DEF b, c
<1>8. Sends' /\ Based' /\ \A i, region : ~Caught(i, region) BY <1>1, <1>2, RestWire
<1>9. Answered'
  <2> SUFFICES ASSUME NEW i \in 1..Len(commands')
               PROVE /\ commands'[i].serial <= tail'.serial
                     /\ tail'.pending /\ commands'[i].kind = "ack" /\ commands'[i].serial = tail'.serial
                          => Caught(current, tail.pending_video)'
    BY <1>2 DEF Answered
  <2>1. CASE i \in 1..Len(commands) /\ commands'[i] = commands[i]
    BY <2>1, <1>2, <1>8 DEF Wire, Answered
  <2>2. CASE commands'[i] = c
    <3>1. b.serial <= tail.serial BY <1>2, <1>3 DEF Sound
    <3>2. ASSUME tail.pending, b.serial = tail.serial PROVE Caught(current, tail.pending_video)'
      <4>1. /\ \A j \in 2..Len(out) : out[j].kind # "batch"
            /\ b.pixels = current.pixels /\ b.video = tail.pending_video
        BY <3>2, <1>2, <1>3 DEF Sound
      <4>2. NoBatch'
        <5> SUFFICES ASSUME NEW j \in 1..Len(out') PROVE out'[j].kind # "batch" BY DEF NoBatch
        <5>1. j + 1 \in 2..Len(out) /\ out'[j] = out[j + 1] BY <1>1, RestOut
        <5>. QED BY <4>1, <5>1
      <4>. QED BY <4>1, <4>2, <1>2, <1>4 DEF Caught
    <3>. QED BY <3>1, <3>2, <2>2, <1>2, <1>7
  <2>. QED BY <2>1, <2>2, <1>6
<1>10. PictureIsExact'
  <2> SUFFICES ASSUME viewer'.synced, NEW p \in Pixels \ viewer'.region
               PROVE viewer'.canvas[p] = viewer'.shot[p]
    BY DEF PictureIsExact
  <2>1. \/ b.reset /\ b.tiles = TileSets
        \/ ~b.reset /\ viewer.synced /\ Follows(b)
    BY <1>1, <1>2, <1>3, <1>5 DEF Sound
  <2>. QED BY <2>1, <1>2, <1>4, AppliedIsExact
<1>. QED BY <1>8, <1>9, <1>10 DEF Wire

\* Messages that are no batch, or that nobody applies.
LEMMA ReceiveUnitWire == ASSUME Core, Wire, ReceiveUnit PROVE Wire'
<1>1. Receives /\ Message.kind = "unit" /\ UNCHANGED commands BY DEF ReceiveUnit
<1>2. /\ viewer'.on = viewer.on /\ viewer'.synced = viewer.synced /\ viewer'.shot = viewer.shot
      /\ viewer'.region = viewer.region /\ viewer'.canvas = viewer.canvas
  BY DEF ReceiveUnit, Core, TypeOK, Viewer
<1>3. Sends' /\ (NoBatch => NoBatch') BY <1>1, <1>2, RestWire
<1>4. UNCHANGED <<tail, current, acknowledged>> BY <1>1, RestOut
<1>5. Answered' BY <1>1, <1>2, <1>3, <1>4 DEF Wire, Answered, Caught
<1>6. Based' BY <1>2, <1>3, <1>4 DEF Wire, Based, Caught
<1>7. PictureIsExact' BY <1>2 DEF Wire, PictureIsExact
<1>. QED BY <1>3, <1>5, <1>6, <1>7 DEF Wire
LEMMA DropWire == ASSUME Core, Wire, Drop PROVE Wire'
<1>1. Receives /\ UNCHANGED <<commands, viewer>> BY DEF Drop
<1>3. Sends' /\ (NoBatch => NoBatch') BY <1>1, RestWire
<1>4. UNCHANGED <<tail, current, acknowledged>> BY <1>1, RestOut
<1>5. Answered' BY <1>1, <1>3, <1>4 DEF Wire, Answered, Caught
<1>6. Based' BY <1>1, <1>3, <1>4 DEF Wire, Based, Caught
<1>7. PictureIsExact' BY <1>1 DEF Wire, PictureIsExact
<1>. QED BY <1>3, <1>5, <1>6, <1>7 DEF Wire
LEMMA RefusesWire == ASSUME Core, Wire, Refuses PROVE Wire'
<1>. DEFINE c == [kind |-> "nack", serial |-> Message.serial]
<1>1. Receives /\ Message.kind = "batch" /\ UNCHANGED viewer BY DEF Refuses
<1>2. /\ Message = out[1] /\ Message \in Batch /\ 1 \in 1..Len(out) /\ Message.serial \in Nat
      /\ UNCHANGED <<tail, current, acknowledged>> BY <1>1, RestOut DEF Unit, Batch
<1>3. Message.serial <= tail.serial BY <1>1, <1>2 DEF Wire, Sends, Sound
<1>4. /\ Len(commands') = Len(commands) + 1 /\ Len(commands) \in Nat
      /\ \A i \in 1..Len(commands') : \/ i \in 1..Len(commands) /\ commands'[i] = commands[i]
                                      \/ i = Len(commands') /\ commands'[i] = c
  <2>1. c \in Command BY <1>2 DEF Command
  <2>2. commands \in Seq(Command) BY DEF Core, TypeOK
  <2>3. commands' = Append(commands, c) BY DEF Refuses
  <2>. HIDE DEF c
  <2>. QED BY <2>1, <2>2, <2>3, Appending
<1>5. c.serial = Message.serial /\ c.kind # "ack" OBVIOUS
<1>. HIDE DEF c
<1>6. Sends' /\ Based' /\ \A i, region : ~Caught(i, region) BY <1>1, <1>2, RestWire
<1>7. Answered' BY <1>2, <1>3, <1>4, <1>5, <1>6 DEF Wire, Answered
<1>8. PictureIsExact' BY <1>1 DEF Wire, PictureIsExact
<1>. QED BY <1>6, <1>7, <1>8 DEF Wire

\* A viewer that is gone or new has been told nothing.
LEMMA NewcomerWire ==
  ASSUME Core, Wire, UNCHANGED <<tail, current, acknowledged, out>>,
         ~(viewer'.on /\ viewer'.synced), PictureIsExact',
         \/ UNCHANGED commands
         \/ commands' = Append(commands, [kind |-> "reset", serial |-> 0])
  PROVE Wire'
<1>1. Sends' BY DEF Wire, Sends, Sound
<1>2. NoBatch' <=> NoBatch BY DEF NoBatch
<1>3. Based' BY <1>2 DEF Wire, Based, Caught
<1>4. CASE UNCHANGED commands
  <2>1. Answered' BY <1>2, <1>4 DEF Wire, Answered, Caught
  <2>. QED BY <1>1, <1>3, <2>1 DEF Wire
<1>5. CASE commands' = Append(commands, [kind |-> "reset", serial |-> 0])
  <2>. DEFINE c == [kind |-> "reset", serial |-> 0]
  <2>1. /\ Len(commands') = Len(commands) + 1 /\ Len(commands) \in Nat
        /\ \A i \in 1..Len(commands') : \/ i \in 1..Len(commands) /\ commands'[i] = commands[i]
                                        \/ i = Len(commands') /\ commands'[i] = c
    <3>1. c \in Command BY DEF Command
    <3>2. commands \in Seq(Command) /\ commands' = Append(commands, c) BY <1>5 DEF Core, TypeOK
    <3>. HIDE DEF c
    <3>. QED BY <3>1, <3>2, Appending
  <2>2. c.serial = 0 /\ c.kind # "ack" OBVIOUS
  <2>. HIDE DEF c
  <2>3. tail.serial \in Nat BY DEF Core, TypeOK, Encoded
  <2>4. Answered' BY <2>1, <2>2, <2>3, <1>2 DEF Wire, Answered, Caught
  <2>. QED BY <1>1, <1>3, <2>4 DEF Wire
<1>. QED BY <1>4, <1>5
LEMMA LeavesWire == ASSUME Core, Wire, Leaves PROVE Wire'
<1>1. UNCHANGED <<tail, current, acknowledged, out, commands>> BY DEF Leaves, mainVars
<1>2. viewer'.on = FALSE /\ viewer'.synced = viewer.synced /\ viewer'.shot = viewer.shot
      /\ viewer'.region = viewer.region /\ viewer'.canvas = viewer.canvas
  BY DEF Leaves, Core, TypeOK, Viewer
<1>3. PictureIsExact' BY <1>2 DEF Wire, PictureIsExact
<1>. QED BY <1>1, <1>2, <1>3, NewcomerWire
LEMMA JoinsWire == ASSUME Core, Wire, Joins PROVE Wire'
<1>1. UNCHANGED <<tail, current, acknowledged, out>> BY DEF Joins, mainVars
<1>2. viewer'.synced = FALSE BY DEF Joins
<1>3. PictureIsExact' BY <1>2 DEF PictureIsExact
<1>4. commands' = Append(commands, [kind |-> "reset", serial |-> 0]) BY DEF Joins
<1>. QED BY <1>1, <1>2, <1>3, <1>4, NewcomerWire

\* Nothing is on the wire at the start.
LEMMA WireInit == Init => Wire
<1> SUFFICES ASSUME Init PROVE Wire OBVIOUS
<1>1. Len(out) = 0 /\ Len(commands) = 0 BY DEF Init
<1>2. Sends /\ Answered BY <1>1 DEF Sends, Answered
<1>3. Based /\ PictureIsExact BY DEF Init, Based, PictureIsExact
<1>. QED BY <1>2, <1>3 DEF Wire

LEMMA WireStep == ASSUME Core, Wire, [Next]_vars PROVE Wire'
<1>. DEFINE Still == UNCHANGED <<tail, viewer, current, acknowledged, out, commands>>
<1>1. Still => Wire' BY WireKept
<1>2. CASE MainStep
  <2>1. Poll \/ Repair \/ Capture \/ Join => Still BY DEF Poll, Repair, Capture, Join
  <2>. QED BY <2>1, <1>1, <1>2, StaleAnswerWire, ResetCommandWire, AckWire, TimeoutWire, AcquireWire,
              SelectVideoWire, SendWire DEF MainStep
<1>3. CASE WorkerStep
  <2>1. NextFrame \/ WorkerEnds \/ OpenFails \/ WorkerLeases \/ Convert \/ Check \/ Fail => Still
    BY DEF NextFrame, WorkerEnds, OpenFails, WorkerLeases, Convert, Check, Fail, WorkerGoes, mainVars
  <2>. QED BY <2>1, <1>1, <1>3, WriteWire DEF WorkerStep
<1>4. CASE ViewerStep BY <1>4, ReceiveBatchWire, ReceiveUnitWire, DropWire DEF ViewerStep
<1>5. CASE Environment
  <2>1. Resize \/ HintAges => Still BY DEF Resize, HintAges, mainVars
  <2>2. \A p \in Pixels : Paint(p) => Still BY DEF Paint, mainVars
  <2>3. \A rect \in Rects, size \in 0..1 : Hint(rect, size) => Still BY DEF Hint
  <2>. QED BY <2>1, <2>2, <2>3, <1>1, <1>5, RefusesWire, LeavesWire, JoinsWire, EofWire DEF Environment
<1>6. CASE UNCHANGED vars BY <1>1, <1>6 DEF vars, mainVars
<1>. QED BY <1>2, <1>3, <1>4, <1>5, <1>6 DEF Next

\* A viewer that has had a full batch shows the snapshot of its last batch pixel
\* by pixel, outside the region of video: late, repeated and refused answers
\* never make a batch a difference to something the viewer does not have
\* (live-state.c:28, tail-commands.c:68).
THEOREM ExactPicture == Spec => []PictureIsExact
<1>1. Init => Core /\ Wire BY CoreInit, WireInit
<1>2. Core /\ Wire /\ [Next]_vars => (Core /\ Wire)' BY CoreStep, WireStep
<1>3. Wire => PictureIsExact BY DEF Wire
<1>. QED BY <1>1, <1>2, <1>3, PTL DEF Spec

\* What the run checks: types, leases and the picture together.
THEOREM LiveExact == Spec => []LiveIsExact
<1>1. TypeOK /\ LeasesFit /\ PictureIsExact => LiveIsExact BY DEF LiveIsExact
<1>. QED BY <1>1, TypeCorrect, LeasesSuffice, ExactPicture, PTL

-----------------------------------------------------------------------------
\* The supervision of the encoder (LiveWatch).
EncoderRecord == [is : Children, round : Nat, pulse : Nat, gap : Nat, piped : BOOLEAN]
WatchRecord == [at : {"accept", "loop", "term", "kill", "returned"}, seen : Nat, turn : BOOLEAN, spent : Nat,
                forks : Nat, why : {"none", "left", "failed", "silent"}]
HealthRecord == [said : {"none", "ok", "no"}, silent : Nat]
WatchTyped == encoder \in EncoderRecord /\ watch \in WatchRecord /\ health \in HealthRecord
\* An encoder that went round has pulsed if a second was over; what the watch counts
\* is that encoder's silence, or a pulse waits in the pipe that ended it in this tick.
SilenceFits ==
  /\ encoder.pulse = encoder.round
  /\ watch.at = "loop" =>
       IF encoder.piped THEN encoder.round = 0 /\ watch.seen <= encoder.gap ELSE watch.seen = encoder.round
  /\ watch.at \in {"term", "kill"} =>
       /\ watch.why = "silent"
       /\ watch.spent = 0 =>
            \/ encoder.round >= SilenceLimit
            \/ encoder.round = 0 /\ encoder.gap >= SilenceLimit
ChildFits ==
  /\ watch.at \in {"accept", "returned"} => encoder.is = "none"
  /\ watch.at = "returned" => watch.why # "left"
  /\ health.said = "ok" => health.silent <= SilenceLimit
WatchInv == WatchTyped /\ SilenceFits /\ ChildFits

LEMMA WatchStart == WatchInit => WatchInv
BY WatchAssumption DEF WatchInit, NoChild, Children, WatchInv, WatchTyped, EncoderRecord, WatchRecord, HealthRecord, SilenceFits, ChildFits

\* The fields, so that each step shows only what it changes.
EncoderAs(is, round, pulse, gap, piped) == [is |-> is, round |-> round, pulse |-> pulse, gap |-> gap, piped |-> piped]

LEMMA ForkKeeps == WatchInv /\ Fork => WatchInv'
<1> SUFFICES ASSUME WatchInv, Fork PROVE WatchInv' OBVIOUS
<1>1. PICK next : next = watch.forks + 1 OBVIOUS
<1>2. next \in Nat BY <1>1 DEF WatchInv, WatchTyped, WatchRecord
<1>3. PICK y \in BOOLEAN, n \in BOOLEAN : y = TRUE /\ n = FALSE OBVIOUS
<1>4. encoder' = EncoderAs("loops", 0, 0, 0, y) BY <1>3 DEF Fork, EncoderAs
<1>5. watch' = [watch EXCEPT !.at = "loop", !.seen = 0, !.turn = n, !.spent = 0, !.forks = next]
  BY <1>1, <1>3 DEF Fork, WatchInv, WatchTyped, WatchRecord
<1>6. encoder' \in EncoderRecord /\ encoder'.round = 0 /\ encoder'.pulse = 0 /\ encoder'.gap = 0
  BY <1>4 DEF EncoderAs, EncoderRecord, Children
<1>7. watch' \in WatchRecord /\ watch'.at = "loop" /\ watch'.seen = 0
  BY <1>2, <1>5 DEF WatchInv, WatchTyped, WatchRecord
<1>8. health' = health BY DEF Fork
<1>. QED BY <1>6, <1>7, <1>8 DEF WatchInv, WatchTyped, SilenceFits, ChildFits

LEMMA RoundKeeps == WatchInv /\ LoopsRound => WatchInv'
<1> SUFFICES ASSUME WatchInv, LoopsRound PROVE WatchInv' OBVIOUS
<1>1. encoder \in EncoderRecord /\ encoder.is = "loops" /\ watch' = watch /\ health' = health
  BY DEF WatchInv, WatchTyped, LoopsRound
<1>2. PICK gap \in Nat : gap = IF encoder.round > 0 THEN encoder.round ELSE encoder.gap
  BY <1>1 DEF EncoderRecord
<1>3. PICK y \in BOOLEAN : y = TRUE OBVIOUS
<1>4. CASE Pulses
  <2>1. encoder' = EncoderAs("loops", 0, 0, gap, y)
    BY <1>1, <1>2, <1>3, <1>4 DEF LoopsRound, EncoderAs, EncoderRecord
  <2>2. encoder' \in EncoderRecord /\ encoder'.round = 0 /\ encoder'.pulse = 0 /\ encoder'.gap = gap
        /\ encoder'.is = "loops" /\ encoder'.piped
    BY <1>3, <2>1 DEF EncoderAs, EncoderRecord, Children
  <2>3. encoder.pulse >= 1 BY <1>4 DEF Pulses
  <2>4. encoder.pulse = encoder.round /\ encoder.round > 0 /\ gap = encoder.round
    BY <1>1, <1>2, <2>3 DEF WatchInv, SilenceFits, EncoderRecord
  <2>5. SilenceFits'
    BY <1>1, <1>2, <2>2, <2>4, WatchAssumption DEF WatchInv, WatchTyped, WatchRecord, EncoderRecord, SilenceFits
  <2>. QED BY <1>1, <2>2, <2>5 DEF WatchInv, WatchTyped, ChildFits
<1>5. CASE ~Pulses
  <2>1. encoder.pulse = 0 /\ encoder.round = 0 BY <1>1, <1>5 DEF Pulses, WatchInv, SilenceFits, EncoderRecord
  <2>2. encoder' = EncoderAs("loops", 0, encoder.pulse, gap, encoder.piped)
    BY <1>1, <1>2, <1>5 DEF LoopsRound, EncoderAs, EncoderRecord
  <2>3. gap = encoder.gap BY <1>2, <2>1
  <2>4. encoder' = encoder BY <1>1, <2>1, <2>2, <2>3 DEF EncoderAs, EncoderRecord
  <2>. QED BY <1>1, <2>4 DEF WatchInv, WatchTyped, SilenceFits, ChildFits
<1>. QED BY <1>4, <1>5

\* What becomes of the encoder is not what it did.
LEMMA FateKeeps ==
  ASSUME WatchInv, watch.at \notin {"accept", "returned"}, NEW h \in Children, encoder' = [encoder EXCEPT !.is = h],
         UNCHANGED <<watch, health>>
  PROVE  WatchInv'
BY DEF WatchInv, WatchTyped, EncoderRecord, SilenceFits, ChildFits

LEMMA FatesKeep == WatchInv /\ (Hangs \/ EncoderEnds \/ Terminated \/ KernelEnds) => WatchInv'
<1> SUFFICES ASSUME WatchInv, Hangs \/ EncoderEnds \/ Terminated \/ KernelEnds PROVE WatchInv' OBVIOUS
<1>1. encoder.is # "none" BY DEF Hangs, EncoderEnds, Terminated, KernelEnds, Alive
<1>2. watch.at \notin {"accept", "returned"} BY <1>1 DEF WatchInv, ChildFits
<1>3. PICK h \in Children : encoder' = [encoder EXCEPT !.is = h]
  BY DEF Hangs, EncoderEnds, Terminated, KernelEnds, Children
<1>4. UNCHANGED <<watch, health>> BY DEF Hangs, EncoderEnds, Terminated, KernelEnds
<1>. QED BY <1>2, <1>3, <1>4, FateKeeps

LEMMA WatchStepKeeps == WatchInv /\ WatchStep => WatchInv'
<1> SUFFICES ASSUME WatchInv, WatchStep PROVE WatchInv' OBVIOUS
<1>0. encoder \in EncoderRecord /\ watch \in WatchRecord /\ health \in HealthRecord BY DEF WatchInv, WatchTyped
<1>a. NoChild \in EncoderRecord /\ NoChild.is = "none" /\ NoChild.round = NoChild.pulse
  BY DEF NoChild, EncoderRecord, Children
<1>1. CASE Reaps
  <2>1. watch' = [watch EXCEPT !.at = Reaped, !.why = encoder.is] /\ encoder' = NoChild /\ health' = health
    BY <1>1 DEF Reaps
  <2>2. watch' \in WatchRecord /\ watch'.at = Reaped /\ watch'.why = encoder.is
    BY <1>0, <1>1, <2>1 DEF Reaps, Reaped, WatchRecord
  <2>. QED BY <1>a, <1>0, <2>1, <2>2 DEF Reaped, WatchInv, WatchTyped, SilenceFits, ChildFits
<1>2. CASE TimesOut
  <2>1. watch' = [watch EXCEPT !.at = "term", !.spent = 0, !.why = "silent"] /\ encoder' = encoder
        /\ health' \in {health, [said |-> "no", silent |-> encoder.round]}
        /\ watch.at = "loop" /\ watch.seen >= SilenceLimit
    BY <1>2 DEF TimesOut, Silent
  <2>2. watch' \in WatchRecord /\ watch'.at = "term" /\ watch'.why = "silent" BY <1>0, <2>1 DEF WatchRecord
  <2>3. health' \in HealthRecord /\ (health' = health \/ health'.said = "no")
    BY <1>0, <2>1 DEF HealthRecord, EncoderRecord
  <2>4. SilenceFits'
    BY <1>0, <2>1, <2>2, WatchAssumption DEF WatchInv, SilenceFits, EncoderRecord, WatchRecord
  <2>. QED BY <1>0, <2>1, <2>2, <2>3, <2>4 DEF WatchInv, WatchTyped, ChildFits
<1>3. CASE Reads
  <2>1. PICK n \in BOOLEAN : n = FALSE OBVIOUS
  <2>2. PICK seen \in Nat : seen = IF encoder.piped THEN 0 ELSE watch.seen BY <1>0 DEF WatchRecord
  <2>3. watch' = [watch EXCEPT !.seen = seen, !.turn = n] BY <1>0, <1>3, <2>1, <2>2 DEF Reads, WatchRecord
  <2>4. encoder' = [encoder EXCEPT !.piped = n] BY <1>3, <2>1 DEF Reads
  <2>5. watch.at = "loop" /\ ~(watch.seen >= SilenceLimit) /\ health' \in {health, [said |-> "ok", silent |-> encoder.round]}
    BY <1>3 DEF Reads, Silent
  <2>6. watch' \in WatchRecord /\ watch'.at = "loop" /\ watch'.seen = seen BY <1>0, <2>3, <2>5 DEF WatchRecord
  <2>7. encoder' \in EncoderRecord /\ encoder'.round = encoder.round /\ encoder'.pulse = encoder.pulse /\ ~encoder'.piped
    BY <1>0, <2>1, <2>4 DEF EncoderRecord
  <2>8. encoder.round <= SilenceLimit /\ seen = encoder.round
    BY <1>0, <2>2, <2>5, WatchAssumption DEF WatchInv, SilenceFits, EncoderRecord, WatchRecord
  <2>9. health' \in HealthRecord /\ (health'.said = "ok" => health'.silent <= SilenceLimit)
    BY <1>0, <2>5, <2>8 DEF HealthRecord, EncoderRecord, WatchInv, ChildFits
  <2>. QED BY <2>6, <2>7, <2>8, <2>9 DEF WatchInv, WatchTyped, SilenceFits, ChildFits
<1>4. CASE SendsKill
  BY <1>0, <1>4 DEF SendsKill, Kills, WatchInv, WatchTyped, WatchRecord, SilenceFits, ChildFits
<1>5. CASE StopEnds
  <2>1. watch' = [watch EXCEPT !.at = "returned"] /\ encoder' = NoChild /\ health' = health /\ watch.at \in {"term", "kill"}
    BY <1>5 DEF StopEnds
  <2>2. watch' \in WatchRecord /\ watch'.at = "returned" /\ watch'.why = "silent"
    BY <1>0, <2>1 DEF WatchRecord, WatchInv, SilenceFits
  <2>. QED BY <1>a, <2>1, <2>2 DEF WatchInv, WatchTyped, SilenceFits, ChildFits
<1>. QED BY <1>1, <1>2, <1>3, <1>4, <1>5 DEF WatchStep

LEMMA SecondKeeps == WatchInv /\ SecondPasses => WatchInv'
<1> SUFFICES ASSUME WatchInv, SecondPasses PROVE WatchInv' OBVIOUS
<1>0. encoder \in EncoderRecord /\ watch \in WatchRecord /\ health' = health BY DEF WatchInv, WatchTyped, SecondPasses
<1>1. PICK round \in Nat, pulse \in Nat, seen \in Nat, spent \in Nat :
        round = More(encoder.round) /\ pulse = More(encoder.pulse) /\ seen = More(watch.seen) /\ spent = More(watch.spent)
  BY <1>0, WatchAssumption DEF EncoderRecord, WatchRecord, More
<1>2. PICK turn \in BOOLEAN : turn = (watch.at = "loop") OBVIOUS
<1>3. encoder' = [encoder EXCEPT !.round = round, !.pulse = pulse, !.gap = 0] BY <1>0, <1>1 DEF SecondPasses, EncoderRecord
<1>4. watch' = [watch EXCEPT !.seen = seen, !.spent = spent, !.turn = turn] BY <1>0, <1>1, <1>2 DEF SecondPasses, WatchRecord
<1>5. encoder' \in EncoderRecord /\ encoder'.round = round /\ encoder'.pulse = pulse /\ encoder'.is = encoder.is
      /\ encoder'.piped = encoder.piped
  BY <1>0, <1>3 DEF EncoderRecord
<1>6. watch' \in WatchRecord /\ watch'.seen = seen /\ watch'.spent = spent /\ watch'.at = watch.at /\ watch'.why = watch.why
  BY <1>0, <1>4 DEF WatchRecord
<1>7. spent # 0 BY <1>0, <1>1, WatchAssumption DEF WatchRecord, More
<1>8. watch.at = "loop" => ~encoder.piped BY DEF SecondPasses
<1>. QED BY <1>0, <1>1, <1>5, <1>6, <1>7, <1>8 DEF WatchInv, WatchTyped, SilenceFits, ChildFits

\* An encoder is given up for a silence that was there, nobody is told that a silent one
\* is well, and a listener that ends leaves no child (live-watch.c:80-88).
THEOREM TrueSilence == WatchSpec => []SilenceIsReal
<1>1. WatchInv /\ [WatchNext]_watchVars => WatchInv'
  <2> SUFFICES ASSUME WatchInv, [WatchNext]_watchVars PROVE WatchInv' OBVIOUS
  <2>1. CASE AcceptsHealth
    <3>1. health' \in HealthRecord /\ health'.silent = 0 BY <2>1 DEF AcceptsHealth, HealthRecord
    <3>. QED BY <2>1, <3>1, WatchAssumption DEF AcceptsHealth, WatchInv, WatchTyped, SilenceFits, ChildFits
  <2>2. CASE UNCHANGED watchVars BY <2>2 DEF watchVars, WatchInv, WatchTyped, SilenceFits, ChildFits
  <2>. QED BY <2>1, <2>2, ForkKeeps, RoundKeeps, FatesKeep, WatchStepKeeps, SecondKeeps DEF WatchNext
<1>2. WatchInv => SilenceIsReal
  BY WatchAssumption DEF WatchInv, WatchTyped, EncoderRecord, WatchRecord, SilenceFits, ChildFits, SilenceIsReal
<1>. QED BY WatchStart, <1>1, <1>2, PTL DEF WatchSpec

-----------------------------------------------------------------------------
\* The programs that record a trace (TraceRuns).
TracePlaces == {"connect", "inspect", "observe", "start", "work", "end", "observed", "wait", "read", "release",
                "write", "tidy", "over"}
Timers == {"command", "completion"}
TracerRecord == [program : {"stock", "damage"}, at : TracePlaces, custom : BOOLEAN, tracing : BOOLEAN,
                 reads : Nat, eof : BOOLEAN, printed : BOOLEAN]
ArmedRecord == [set : SUBSET Timers, over : SUBSET Timers, command : {"none", "late", "stop", "eof"}]
ChromiumRecord == [link : {"none", "open", "closed"}, tracing : BOOLEAN, complete : BOOLEAN, lossy : BOOLEAN,
                   stream : BOOLEAN, left : Nat]
ObserverRecord == [at : {"none", "up", "killed", "gone"}, held : BOOLEAN, ended : BOOLEAN, failed : BOOLEAN,
                   lines : Seq({"ready", "rect", "done"})]
TraceTyped == tracer \in TracerRecord /\ armed \in ArmedRecord /\ chromium \in ChromiumRecord /\ observer \in ObserverRecord

ProgramFits ==
  /\ tracer.custom => tracer.program = "damage"
  /\ tracer.program = "stock" => tracer.at \notin {"observe", "observed"}
  /\ tracer.at = "connect" => chromium.link = "none" /\ (tracer.program = "damage" => armed.set = {})
\* What a link that is gone has left, and a program that is over.
LinkFits ==
  /\ ~Linked => ~chromium.tracing /\ ~chromium.stream
  /\ tracer.at = "over" => ~Linked /\ armed.set = {}
\* Who holds an observer that is up, and what it has said when.
ObserverFits ==
  /\ observer.failed => observer.at \in {"killed", "gone"}
  /\ observer.at = "up" => observer.held \/ tracer.at = "observe"
  /\ observer.held => observer.lines # <<>> /\ tracer.at \notin {"connect", "over"}
  /\ ~tracer.custom => observer.at = "none"
  /\ tracer.custom =>
       /\ tracer.at \in {"start", "work", "end", "observed"} => observer.held
       /\ chromium.tracing => observer.lines # <<>>
       /\ tracer.at \in {"wait", "read", "release", "write"} \/ tracer.printed =>
            observer.at = "gone" /\ ~observer.failed /\ Last(observer.lines) = "done"
\* A trace that is read is complete, and was read to its end when the program says so.
ReadFits ==
  /\ tracer.at \in {"read", "release", "write"} \/ tracer.eof => chromium.complete /\ ~chromium.lossy
  /\ tracer.at = "read" => chromium.left >= 1
  /\ tracer.eof => chromium.left = 0 /\ tracer.at \in {"release", "write", "tidy", "over"}
  /\ tracer.at = "write" \/ tracer.printed => tracer.eof
  /\ chromium.complete => chromium.left >= 1 \/ tracer.eof
TraceInv == TraceTyped /\ ProgramFits /\ LinkFits /\ ObserverFits /\ ReadFits

\* The place after each place.
LEMMA NextOfPlan ==
  ASSUME NEW plan, NEW n \in Nat, DOMAIN plan = 1..n, \A i, j \in 1..n : plan[i] = plan[j] => i = j,
         plan = TracePlan[tracer.program], NEW k \in 1..n, tracer.at = plan[k]
  PROVE  Following = plan[1 + k]
<1> DEFINE here == CHOOSE i \in DOMAIN plan : plan[i] = tracer.at
<1>1. \E i \in DOMAIN plan : plan[i] = tracer.at OBVIOUS
<1>2. here \in 1..n /\ plan[here] = tracer.at BY <1>1
<1>3. here = k BY <1>2
<1>4. Following = plan[1 + here] BY Zenon DEF Following
<1>. QED BY <1>3, <1>4

LEMMA StockPlan ==
  ASSUME tracer.program = "stock"
  PROVE  /\ tracer.at = "connect" => Following = "inspect"
         /\ tracer.at = "inspect" => Following = "start"
         /\ tracer.at = "start" => Following = "work"
         /\ tracer.at = "work" => Following = "end"
         /\ tracer.at = "end" => Following = "wait"
         /\ tracer.at = "wait" => Following = "read"
         /\ tracer.at = "read" => Following = "release"
         /\ tracer.at = "release" => Following = "write"
         /\ tracer.at = "write" => Following = "tidy"
<1> DEFINE stockPlan == <<"connect", "inspect", "start", "work", "end", "wait", "read", "release", "write", "tidy">>
<1>1. PICK plan : plan = stockPlan OBVIOUS
<1>2. plan = TracePlan[tracer.program] BY <1>1 DEF TracePlan
<1>3. DOMAIN plan = 1..10 BY <1>1
<1>4. /\ plan[1] = "connect" /\ plan[2] = "inspect" /\ plan[3] = "start" /\ plan[4] = "work" /\ plan[5] = "end"
      /\ plan[6] = "wait" /\ plan[7] = "read" /\ plan[8] = "release" /\ plan[9] = "write" /\ plan[10] = "tidy"
  BY <1>1
<1>5. \A i, j \in 1..10 : plan[i] = plan[j] => i = j
  <2>1. \A i \in 1..10 : i \in {1, 2, 3, 4, 5, 6, 7, 8, 9, 10} OBVIOUS
  <2>. QED BY <1>4, <2>1
<1>6. 10 \in Nat OBVIOUS
<1>7. ASSUME NEW k \in 1..10, tracer.at = plan[k] PROVE Following = plan[1 + k]
  BY <1>2, <1>3, <1>5, <1>6, <1>7, NextOfPlan, Zenon
<1>. QED BY <1>4, <1>7

LEMMA DamagePlan ==
  ASSUME tracer.program = "damage"
  PROVE  /\ tracer.at = "connect" => Following = "inspect"
         /\ tracer.at = "inspect" => Following = "observe"
         /\ tracer.at = "observe" => Following = "start"
         /\ tracer.at = "start" => Following = "work"
         /\ tracer.at = "work" => Following = "end"
         /\ tracer.at = "end" => Following = "observed"
         /\ tracer.at = "observed" => Following = "wait"
         /\ tracer.at = "wait" => Following = "read"
         /\ tracer.at = "read" => Following = "release"
         /\ tracer.at = "release" => Following = "write"
         /\ tracer.at = "write" => Following = "tidy"
<1> DEFINE damagePlan == <<"connect", "inspect", "observe", "start", "work", "end", "observed", "wait",
                           "read", "release", "write", "tidy">>
<1>1. PICK plan : plan = damagePlan OBVIOUS
<1>2. plan = TracePlan[tracer.program] BY <1>1 DEF TracePlan
<1>3. DOMAIN plan = 1..12 BY <1>1
<1>4. /\ plan[1] = "connect" /\ plan[2] = "inspect" /\ plan[3] = "observe" /\ plan[4] = "start" /\ plan[5] = "work"
      /\ plan[6] = "end" /\ plan[7] = "observed" /\ plan[8] = "wait" /\ plan[9] = "read" /\ plan[10] = "release"
      /\ plan[11] = "write" /\ plan[12] = "tidy"
  BY <1>1
<1>5. \A i, j \in 1..12 : plan[i] = plan[j] => i = j
  <2>1. \A i \in 1..12 : i \in {1, 2, 3, 4, 5, 6, 7, 8, 9, 10, 11, 12} OBVIOUS
  <2>. QED BY <1>4, <2>1
<1>6. 12 \in Nat OBVIOUS
<1>7. ASSUME NEW k \in 1..12, tracer.at = plan[k] PROVE Following = plan[1 + k]
  BY <1>2, <1>3, <1>5, <1>6, <1>7, NextOfPlan, Zenon
<1>. QED BY <1>4, <1>7

LEMMA TraceStart == TraceInit => TraceInv
<1> SUFFICES ASSUME TraceInit PROVE TraceInv OBVIOUS
<1>1. PICK n \in BOOLEAN : n = FALSE OBVIOUS
<1>2. PICK program \in {"stock", "damage"}, custom \in BOOLEAN :
       /\ custom => program = "damage"
       /\ tracer = [program |-> program, at |-> "connect", custom |-> custom, tracing |-> n,
                    reads |-> 0, eof |-> n, printed |-> n]
       /\ armed = [set |-> IF program = "stock" THEN {"command"} ELSE {}, over |-> {}, command |-> "none"]
  BY <1>1 DEF TraceInit, TracePlan
<1>3. chromium = [link |-> "none", tracing |-> n, complete |-> n, lossy |-> n, stream |-> n, left |-> 0]
      /\ observer = [at |-> "none", held |-> n, ended |-> n, failed |-> n, lines |-> <<>>]
  BY <1>1 DEF TraceInit
<1>4. tracer \in TracerRecord /\ tracer.at = "connect" /\ tracer.custom = custom /\ tracer.program = program
      /\ tracer.eof = n /\ tracer.printed = n
  BY <1>2 DEF TracerRecord, TracePlaces
<1>5. armed \in ArmedRecord /\ (program = "damage" => armed.set = {}) BY <1>2 DEF ArmedRecord, Timers
<1>6. chromium \in ChromiumRecord /\ chromium.link = "none" /\ chromium.tracing = n /\ chromium.stream = n
      /\ chromium.complete = n
  BY <1>3 DEF ChromiumRecord
<1>7. observer \in ObserverRecord /\ observer.at = "none" /\ observer.held = n /\ observer.failed = n
  BY <1>3 DEF ObserverRecord
<1>. QED BY <1>1, <1>2, <1>4, <1>5, <1>6, <1>7
     DEF TraceInv, TraceTyped, ProgramFits, LinkFits, ObserverFits, ReadFits, Linked

\* What the browser may become under a program that does not read.
Unread(c) == /\ c \in ChromiumRecord /\ c.link = chromium.link /\ c.complete = chromium.complete
             /\ c.lossy = chromium.lossy /\ c.left = chromium.left
             /\ ~Linked => ~c.tracing /\ ~c.stream
             /\ c.tracing /\ tracer.custom => observer.lines # <<>>
TraceFit == /\ tracer \in TracerRecord /\ armed \in ArmedRecord /\ chromium \in ChromiumRecord /\ observer \in ObserverRecord
            /\ ProgramFits /\ LinkFits /\ ObserverFits /\ ReadFits
LEMMA Fitting == TraceInv => TraceFit
BY DEF TraceInv, TraceTyped, TraceFit

LEMMA UnreadAsIs == TraceInv => Unread(chromium)
BY DEF TraceInv, TraceTyped, LinkFits, ObserverFits, Unread

\* The fields of the program, at another place.
LEMMA TracerThere ==
  ASSUME tracer \in TracerRecord, NEW p \in TracePlaces
  PROVE  LET t == [tracer EXCEPT !.at = p]
         IN /\ t \in TracerRecord /\ t.at = p /\ t.program = tracer.program /\ t.custom = tracer.custom
            /\ t.eof = tracer.eof /\ t.printed = tracer.printed
BY DEF TracerRecord

LEMMA ThrowsKeeps ==
  ASSUME TraceInv, tracer' = Throws, tracer.at \notin {"tidy", "over"}, armed' \in ArmedRecord,
         tracer.at = "connect" => armed' = armed /\ chromium' = chromium,
         observer' = observer, Unread(chromium'),
         tracer.at = "observe" => observer.at # "up"
  PROVE  TraceInv'
<1>0. TraceFit BY Fitting
<1>1. PICK p \in {"tidy", "over"} : p = IF tracer.program = "damage" /\ tracer.at = "connect" THEN "over" ELSE "tidy"
  OBVIOUS
<1>2. tracer' = [tracer EXCEPT !.at = p] BY <1>0, <1>1 DEF Throws, TraceFit, TracerRecord
<1>3. p \in TracePlaces BY DEF TracePlaces
<1>4. tracer' \in TracerRecord /\ tracer'.at = p /\ tracer'.program = tracer.program /\ tracer'.custom = tracer.custom
      /\ tracer'.eof = tracer.eof /\ tracer'.printed = tracer.printed
  BY <1>0, <1>2, <1>3, TracerThere DEF TraceFit
<1>5. ProgramFits' BY <1>0, <1>4 DEF TraceFit, ProgramFits
<1>6. LinkFits' BY <1>0, <1>1, <1>4 DEF TraceFit, ProgramFits, LinkFits, Linked, Unread
<1>7. ObserverFits' BY <1>0, <1>1, <1>4 DEF TraceFit, ObserverFits, Unread
<1>8. ReadFits' BY <1>0, <1>4 DEF TraceFit, ReadFits, Unread
<1>. QED BY <1>0, <1>4, <1>5, <1>6, <1>7, <1>8 DEF TraceFit, TraceInv, TraceTyped, Unread

\* A call that is asked, and its answer or the error of it.
LEMMA AsksIs ==
  ASSUME NEW effect, NEW answered, Asks(effect, answered), TraceInv, Linked => Unread(effect)
  PROVE  /\ Unread(chromium')
         /\ tracer' = Throws \/ (tracer' = answered /\ Linked /\ chromium' = effect)
BY UnreadAsIs DEF Asks

LEMMA ConnectsKeeps == TraceInv /\ Connects => TraceInv'
<1> SUFFICES ASSUME TraceInv, Connects PROVE TraceInv' OBVIOUS
<1>0. TraceFit /\ tracer.at = "connect" /\ UNCHANGED <<armed, observer>> BY Fitting DEF Connects, TracerAt
<1>1. CASE tracer' = Throws /\ UNCHANGED chromium
  BY <1>0, <1>1, ThrowsKeeps, UnreadAsIs DEF TraceFit
<1>2. CASE tracer' = GoesOn /\ chromium' = [chromium EXCEPT !.link = "open"]
  <2>1. tracer' = [tracer EXCEPT !.at = "inspect"]
    BY <1>0, <1>2, StockPlan, DamagePlan DEF GoesOn, TraceFit, TracerRecord
  <2>2. tracer' \in TracerRecord /\ tracer'.at = "inspect" /\ tracer'.program = tracer.program
        /\ tracer'.custom = tracer.custom /\ tracer'.eof = tracer.eof /\ tracer'.printed = tracer.printed
    BY <1>0, <2>1, TracerThere DEF TraceFit, TracePlaces
  <2>3. chromium' \in ChromiumRecord /\ chromium'.link = "open" /\ chromium'.complete = chromium.complete
        /\ chromium'.lossy = chromium.lossy /\ chromium'.left = chromium.left /\ chromium'.tracing = chromium.tracing
    BY <1>0, <1>2 DEF TraceFit, ChromiumRecord
  <2>4. ProgramFits' /\ LinkFits' BY <1>0, <2>2, <2>3 DEF TraceFit, ProgramFits, LinkFits, Linked
  <2>5. ObserverFits' BY <1>0, <2>2, <2>3 DEF TraceFit, ObserverFits
  <2>6. ReadFits' BY <1>0, <2>2, <2>3 DEF TraceFit, ReadFits
  <2>. QED BY <1>0, <2>2, <2>3, <2>4, <2>5, <2>6 DEF TraceFit, TraceInv, TraceTyped
<1>. QED BY <1>1, <1>2 DEF Connects

\* A program that goes on to a place before it reads, with the browser unread.
LEMMA EarlyKeeps ==
  ASSUME TraceInv, tracer.at \in {"inspect", "observe", "start", "work", "end", "observed"},
         NEW p \in {"observe", "start", "work", "end", "observed", "wait"},
         tracer' \in TracerRecord, tracer'.at = p, tracer'.program = tracer.program, tracer'.custom = tracer.custom,
         tracer'.eof = tracer.eof, tracer'.printed = tracer.printed,
         armed' \in ArmedRecord, observer' = observer, Unread(chromium'),
         p \in {"observe", "observed"} => tracer.program = "damage",
         observer.at = "up" => observer.held,
         tracer.custom /\ p \in {"start", "work", "end", "observed"} => observer.held,
         tracer.custom => p # "wait"
  PROVE  TraceInv'
<1>0. TraceFit BY Fitting
<1>1. ProgramFits' BY <1>0 DEF TraceFit, ProgramFits
<1>2. LinkFits' BY <1>0 DEF TraceFit, LinkFits, Linked, Unread
<1>3. ObserverFits' BY <1>0 DEF TraceFit, ObserverFits, Unread
<1>4. ReadFits' BY <1>0 DEF TraceFit, ReadFits, Unread
<1>. QED BY <1>0, <1>1, <1>2, <1>3, <1>4 DEF TraceFit, TraceInv, TraceTyped, Unread

LEMMA ArmedSets ==
  ASSUME armed \in ArmedRecord, NEW set \in SUBSET Timers
  PROVE  [armed EXCEPT !.set = set] \in ArmedRecord /\ [armed EXCEPT !.set = set].set = set
BY DEF ArmedRecord

LEMMA InspectsKeeps == TraceInv /\ Inspects => TraceInv'
<1> SUFFICES ASSUME TraceInv, Inspects PROVE TraceInv' OBVIOUS
<1>0. TraceFit /\ tracer.at = "inspect" /\ observer' = observer /\ Asks(chromium, GoesOn) BY Fitting DEF Inspects, TracerAt
<1>1. Unread(chromium') /\ (tracer' = Throws \/ tracer' = GoesOn) BY <1>0, AsksIs, UnreadAsIs
<1>2. armed' \in ArmedRecord BY <1>0, ArmedSets DEF Inspects, TraceFit, Timers
<1>3. CASE tracer' = Throws BY <1>0, <1>1, <1>2, <1>3, ThrowsKeeps
<1>4. CASE tracer' = GoesOn
  <2>1. PICK p \in {"observe", "start"} : p = Following /\ (p = "observe" <=> tracer.program = "damage")
    BY <1>0, StockPlan, DamagePlan DEF TraceFit, TracerRecord
  <2>2. tracer' = [tracer EXCEPT !.at = p] BY <1>4, <2>1 DEF GoesOn
  <2>3. p \in TracePlaces BY DEF TracePlaces
  <2>4. (observer.at = "up" => observer.held) /\ (tracer.custom => p = "observe")
    BY <1>0, <2>1 DEF TraceFit, ObserverFits, ProgramFits
  <2>. QED BY <1>0, <1>1, <1>2, <2>1, <2>2, <2>3, <2>4, TracerThere, EarlyKeeps DEF TraceFit
<1>. QED BY <1>1, <1>3, <1>4

\* The observer alone changes.
LEMMA ObserverAlone ==
  ASSUME TraceInv, UNCHANGED <<tracer, armed, chromium>>, observer' \in ObserverRecord,
         observer'.failed => observer'.at \in {"killed", "gone"},
         observer'.at = "up" => observer'.held \/ tracer.at = "observe",
         observer.held => observer'.held \/ tracer.at = "tidy",
         observer'.held => observer.held,
         observer'.held => observer'.lines # <<>>,
         observer.lines # <<>> => observer'.lines # <<>>,
         observer.at = "none" => observer'.at = "none" \/ tracer.custom,
         observer.at = "gone" =>
           observer'.at = "gone" /\ observer'.failed = observer.failed /\ observer'.lines = observer.lines
  PROVE  TraceInv'
<1>0. TraceFit BY Fitting
<1>1. ObserverFits' BY <1>0 DEF TraceFit, ObserverFits
<1>. QED BY <1>0, <1>1 DEF TraceFit, TraceInv, TraceTyped, ProgramFits, LinkFits, ReadFits, Linked

LEMMA ObserverFields ==
  ASSUME observer \in ObserverRecord
  PROVE  /\ LET o == [observer EXCEPT !.held = TRUE]
            IN o \in ObserverRecord /\ o.held /\ o.at = observer.at /\ o.failed = observer.failed /\ o.lines = observer.lines
         /\ LET o == [observer EXCEPT !.held = FALSE]
            IN o \in ObserverRecord /\ ~o.held /\ o.at = observer.at /\ o.failed = observer.failed /\ o.lines = observer.lines
         /\ LET o == [observer EXCEPT !.ended = TRUE]
            IN o \in ObserverRecord /\ o.held = observer.held /\ o.at = observer.at /\ o.failed = observer.failed
               /\ o.lines = observer.lines
<1>1. PICK y \in BOOLEAN, n \in BOOLEAN : y = TRUE /\ n = FALSE OBVIOUS
<1>2. /\ [observer EXCEPT !.held = TRUE] = [observer EXCEPT !.held = y]
      /\ [observer EXCEPT !.held = FALSE] = [observer EXCEPT !.held = n]
      /\ [observer EXCEPT !.ended = TRUE] = [observer EXCEPT !.ended = y]
  BY <1>1
<1>. QED BY <1>1, <1>2 DEF ObserverRecord

LEMMA ObserveKeeps == TraceInv /\ StartsObserver => TraceInv'
<1> SUFFICES ASSUME TraceInv, StartsObserver PROVE TraceInv' OBVIOUS
<1>0. TraceFit /\ tracer.at = "observe" /\ UNCHANGED <<armed, chromium>> BY Fitting DEF StartsObserver, TracerAt
<1>1. tracer.program = "damage" BY <1>0 DEF TraceFit, ProgramFits, TracerRecord
<1>2. Following = "start" BY <1>0, <1>1, DamagePlan
<1>3. Unread(chromium') BY <1>0, UnreadAsIs
<1>a. tracer' = GoesOn =>
        /\ tracer' \in TracerRecord /\ tracer'.at = "start" /\ tracer'.program = tracer.program
        /\ tracer'.custom = tracer.custom /\ tracer'.eof = tracer.eof /\ tracer'.printed = tracer.printed
  BY <1>0, <1>2, TracerThere DEF TraceFit, TracePlaces, GoesOn
<1>4. CASE ~tracer.custom /\ tracer' = GoesOn /\ UNCHANGED observer
  <2>1. observer.at # "up" BY <1>0, <1>4 DEF TraceFit, ObserverFits
  <2>. QED BY <1>0, <1>3, <1>4, <1>a, <2>1, EarlyKeeps DEF TraceFit
<1>7. CASE tracer.custom /\ observer.lines # <<>> /\ ~observer.failed /\ tracer' = GoesOn
           /\ observer' = [observer EXCEPT !.held = TRUE]
  <2>1. observer' \in ObserverRecord /\ observer'.held /\ observer'.at = observer.at
        /\ observer'.failed = observer.failed /\ observer'.lines = observer.lines
    BY <1>0, <1>7, ObserverFields DEF TraceFit
  <2>2. ObserverFits' BY <1>0, <1>7, <1>a, <2>1 DEF TraceFit, ObserverFits
  <2>. QED BY <1>0, <1>7, <1>a, <2>1, <2>2 DEF TraceFit, TraceInv, TraceTyped, ProgramFits, LinkFits, ReadFits, Linked
<1>5. CASE observer.failed /\ tracer' = Throws /\ UNCHANGED observer
  <2>1. observer.at # "up" BY <1>0, <1>5 DEF TraceFit, ObserverFits
  <2>. QED BY <1>0, <1>3, <1>5, <2>1, ThrowsKeeps DEF TraceFit
<1>6. CASE observer.at = "none" /\ UNCHANGED tracer /\ tracer.custom
                /\ observer' = [observer EXCEPT !.at = "up"]
  <2>1. observer' \in ObserverRecord /\ observer'.at = "up" /\ observer'.held = observer.held
        /\ observer'.failed = observer.failed /\ observer'.lines = observer.lines
    BY <1>0, <1>6 DEF TraceFit, ObserverRecord
  <2>. QED BY <1>0, <1>6, <2>1, ObserverAlone DEF TraceFit, ObserverFits
<1>. QED BY <1>4, <1>5, <1>6, <1>7 DEF StartsObserver

LEMMA ChromiumFields ==
  ASSUME TraceInv
  PROVE  /\ Linked /\ (tracer.custom => observer.lines # <<>>) => Unread([chromium EXCEPT !.tracing = TRUE])
         /\ Unread([chromium EXCEPT !.tracing = FALSE])
         /\ Unread([chromium EXCEPT !.stream = FALSE])
<1>0. TraceFit BY Fitting
<1>1. PICK y \in BOOLEAN, n \in BOOLEAN : y = TRUE /\ n = FALSE OBVIOUS
<1>2. /\ [chromium EXCEPT !.tracing = TRUE] = [chromium EXCEPT !.tracing = y]
      /\ [chromium EXCEPT !.tracing = FALSE] = [chromium EXCEPT !.tracing = n]
      /\ [chromium EXCEPT !.stream = FALSE] = [chromium EXCEPT !.stream = n]
  BY <1>1
<1>. QED BY <1>0, <1>1, <1>2 DEF TraceFit, ChromiumRecord, Unread, LinkFits, ObserverFits

LEMMA StartKeeps == TraceInv /\ StartsTracing => TraceInv'
<1> SUFFICES ASSUME TraceInv, StartsTracing PROVE TraceInv' OBVIOUS
<1>0. TraceFit /\ tracer.at = "start" /\ UNCHANGED <<armed, observer>> BY Fitting DEF StartsTracing, TracerAt
<1>1. (tracer.custom => observer.held /\ observer.lines # <<>>) /\ (observer.at = "up" => observer.held)
  BY <1>0 DEF TraceFit, ObserverFits
<1>2. Unread(chromium') /\ (tracer' = Throws \/ tracer' = [GoesOn EXCEPT !.tracing = TRUE])
  <2>1. Asks([chromium EXCEPT !.tracing = TRUE], [GoesOn EXCEPT !.tracing = TRUE]) BY DEF StartsTracing
  <2>. QED BY <1>1, <2>1, AsksIs, ChromiumFields
<1>3. CASE tracer' = Throws BY <1>0, <1>2, <1>3, ThrowsKeeps DEF TraceFit
<1>4. CASE tracer' = [GoesOn EXCEPT !.tracing = TRUE]
  <2>1. Following = "work" BY <1>0, StockPlan, DamagePlan DEF TraceFit, TracerRecord
  <2>2. PICK y \in BOOLEAN : y = TRUE OBVIOUS
  <2>3. tracer' = [tracer EXCEPT !.at = "work", !.tracing = y] BY <1>0, <1>4, <2>1, <2>2 DEF GoesOn, TraceFit, TracerRecord
  <2>4. tracer' \in TracerRecord /\ tracer'.at = "work" /\ tracer'.program = tracer.program
        /\ tracer'.custom = tracer.custom /\ tracer'.eof = tracer.eof /\ tracer'.printed = tracer.printed
    BY <1>0, <2>3 DEF TraceFit, TracerRecord, TracePlaces
  <2>. QED BY <1>0, <1>1, <1>2, <2>4, EarlyKeeps DEF TraceFit
<1>. QED BY <1>2, <1>3, <1>4

LEMMA WorksKeeps == TraceInv /\ Works => TraceInv'
<1> SUFFICES ASSUME TraceInv, Works PROVE TraceInv' OBVIOUS
<1>0. TraceFit /\ tracer.at = "work" /\ UNCHANGED <<chromium, observer>> BY Fitting DEF Works, TracerAt
<1>1. (tracer.custom => observer.held) /\ (observer.at = "up" => observer.held) BY <1>0 DEF TraceFit, ObserverFits
<1>2. Unread(chromium') BY <1>0, UnreadAsIs
<1>3. armed' \in ArmedRecord BY <1>0, ArmedSets DEF Works, TraceFit
<1>4. CASE tracer' = Throws BY <1>0, <1>2, <1>3, <1>4, ThrowsKeeps
<1>5. CASE tracer' = GoesOn
  <2>1. Following = "end" BY <1>0, StockPlan, DamagePlan DEF TraceFit, TracerRecord
  <2>2. tracer' = [tracer EXCEPT !.at = "end"] BY <1>5, <2>1 DEF GoesOn
  <2>3. tracer' \in TracerRecord /\ tracer'.at = "end" /\ tracer'.program = tracer.program
        /\ tracer'.custom = tracer.custom /\ tracer'.eof = tracer.eof /\ tracer'.printed = tracer.printed
    BY <1>0, <2>2, TracerThere DEF TraceFit, TracePlaces
  <2>. QED BY <1>0, <1>1, <1>2, <1>3, <2>3, EarlyKeeps DEF TraceFit
<1>. QED BY <1>4, <1>5 DEF Works

LEMMA EndsKeeps == TraceInv /\ EndsTracing => TraceInv'
<1> SUFFICES ASSUME TraceInv, EndsTracing PROVE TraceInv' OBVIOUS
<1>0. TraceFit /\ tracer.at = "end" /\ observer' = observer BY Fitting DEF EndsTracing, TracerAt
<1>1. (tracer.custom => observer.held) /\ (observer.at = "up" => observer.held) BY <1>0 DEF TraceFit, ObserverFits
<1>2. Unread(chromium') /\ (tracer' = Throws \/ tracer' = [GoesOn EXCEPT !.tracing = FALSE])
  <2>1. Asks([chromium EXCEPT !.tracing = FALSE], [GoesOn EXCEPT !.tracing = FALSE]) BY DEF EndsTracing
  <2>. QED BY <2>1, AsksIs, ChromiumFields
<1>3. armed' \in ArmedRecord BY <1>0, ArmedSets DEF EndsTracing, TraceFit, Timers
<1>4. CASE tracer' = Throws BY <1>0, <1>2, <1>3, <1>4, ThrowsKeeps
<1>5. CASE tracer' = [GoesOn EXCEPT !.tracing = FALSE]
  <2>1. PICK p \in {"observed", "wait"} : p = Following /\ (p = "observed" <=> tracer.program = "damage")
    BY <1>0, StockPlan, DamagePlan DEF TraceFit, TracerRecord
  <2>2. PICK n \in BOOLEAN : n = FALSE OBVIOUS
  <2>3. tracer' = [tracer EXCEPT !.at = p, !.tracing = n] BY <1>0, <1>5, <2>1, <2>2 DEF GoesOn, TraceFit, TracerRecord
  <2>4. tracer' \in TracerRecord /\ tracer'.at = p /\ tracer'.program = tracer.program
        /\ tracer'.custom = tracer.custom /\ tracer'.eof = tracer.eof /\ tracer'.printed = tracer.printed
    BY <1>0, <2>3 DEF TraceFit, TracerRecord, TracePlaces
  <2>5. tracer.custom => p = "observed" BY <1>0, <2>1 DEF TraceFit, ProgramFits
  <2>. QED BY <1>0, <1>1, <1>2, <1>3, <2>1, <2>4, <2>5, EarlyKeeps DEF TraceFit
<1>. QED BY <1>2, <1>4, <1>5

LEMMA FinishKeeps == TraceInv /\ FinishesObserver => TraceInv'
<1> SUFFICES ASSUME TraceInv, FinishesObserver PROVE TraceInv' OBVIOUS
<1>0. TraceFit /\ tracer.at = "observed" /\ UNCHANGED <<armed, chromium>> BY Fitting DEF FinishesObserver, TracerAt
<1>1. tracer.program = "damage" BY <1>0 DEF TraceFit, ProgramFits, TracerRecord
<1>2. (tracer.custom => observer.held) /\ (observer.at = "up" => observer.held) BY <1>0 DEF TraceFit, ObserverFits
<1>3. Unread(chromium') BY <1>0, UnreadAsIs
<1>4. tracer' = GoesOn =>
        /\ tracer' \in TracerRecord /\ tracer'.at = "wait" /\ tracer'.program = tracer.program
        /\ tracer'.custom = tracer.custom /\ tracer'.eof = tracer.eof /\ tracer'.printed = tracer.printed
  <2>1. Following = "wait" BY <1>0, <1>1, DamagePlan
  <2>. QED BY <1>0, <2>1, TracerThere DEF TraceFit, TracePlaces, GoesOn
<1>5. CASE ~observer.held /\ tracer' = GoesOn /\ UNCHANGED observer
  BY <1>0, <1>1, <1>2, <1>3, <1>4, <1>5, EarlyKeeps DEF TraceFit
<1>6. CASE observer.held /\ ~observer.ended /\ UNCHANGED tracer /\ observer' = [observer EXCEPT !.ended = TRUE]
  <2>1. observer' \in ObserverRecord /\ observer'.held = observer.held /\ observer'.at = observer.at
        /\ observer'.failed = observer.failed /\ observer'.lines = observer.lines
    BY <1>0, <1>6, ObserverFields DEF TraceFit
  <2>. QED BY <1>0, <1>6, <2>1, ObserverAlone DEF TraceFit, ObserverFits
<1>7. CASE observer.at = "gone" /\ ObserverIsDone /\ tracer' = GoesOn /\ observer' = [observer EXCEPT !.held = FALSE]
  <2>1. observer' \in ObserverRecord /\ ~observer'.held /\ observer'.at = observer.at
        /\ observer'.failed = observer.failed /\ observer'.lines = observer.lines
    BY <1>0, <1>7, ObserverFields DEF TraceFit
  <2>2. ~observer.failed /\ Last(observer.lines) = "done" BY <1>7 DEF ObserverIsDone
  <2>3. ObserverFits' BY <1>0, <1>4, <1>7, <2>1, <2>2 DEF TraceFit, ObserverFits
  <2>4. ProgramFits' /\ LinkFits' BY <1>0, <1>4, <1>7 DEF TraceFit, ProgramFits, LinkFits, Linked
  <2>5. ReadFits' BY <1>0, <1>4, <1>7 DEF TraceFit, ReadFits
  <2>. QED BY <1>0, <1>4, <1>7, <2>1, <2>3, <2>4, <2>5 DEF TraceFit, TraceInv, TraceTyped
<1>8. CASE observer.at = "gone" /\ tracer' = Throws /\ UNCHANGED observer
  BY <1>0, <1>3, <1>8, ThrowsKeeps DEF TraceFit
<1>. QED BY <1>5, <1>6, <1>7, <1>8 DEF FinishesObserver

\* A program that reads goes on to its end.
LEMMA LateKeeps ==
  ASSUME TraceInv, tracer.at \in {"wait", "read", "release", "write"},
         tracer' \in TracerRecord, tracer'.at \in {"read", "release", "write", "tidy"},
         tracer'.program = tracer.program, tracer'.custom = tracer.custom,
         armed' \in ArmedRecord, observer' = observer, chromium' \in ChromiumRecord, chromium'.link = chromium.link,
         chromium'.tracing = chromium.tracing, chromium'.stream => chromium.stream, ReadFits'
  PROVE  TraceInv'
<1>0. TraceFit BY Fitting
<1>1. ProgramFits' BY <1>0 DEF TraceFit, ProgramFits
<1>2. LinkFits' BY <1>0 DEF TraceFit, LinkFits, Linked
<1>3. ObserverFits' BY <1>0 DEF TraceFit, ObserverFits
<1>. QED BY <1>0, <1>1, <1>2, <1>3 DEF TraceFit, TraceInv, TraceTyped

LEMMA AwaitKeeps == TraceInv /\ AwaitsCompletion => TraceInv'
<1> SUFFICES ASSUME TraceInv, AwaitsCompletion PROVE TraceInv' OBVIOUS
<1>0. TraceFit /\ tracer.at = "wait" /\ UNCHANGED <<chromium, observer>> BY Fitting DEF AwaitsCompletion, TracerAt
<1>1. armed' \in ArmedRecord BY <1>0, ArmedSets DEF AwaitsCompletion, TraceFit
<1>2. CASE tracer' = Throws BY <1>0, <1>1, <1>2, ThrowsKeeps, UnreadAsIs
<1>3. CASE chromium.complete /\ Lossless /\ tracer' = GoesOn
  <2>1. Following = "read" BY <1>0, StockPlan, DamagePlan DEF TraceFit, TracerRecord
  <2>2. tracer' = [tracer EXCEPT !.at = "read"] BY <1>3, <2>1 DEF GoesOn
  <2>3. tracer' \in TracerRecord /\ tracer'.at = "read" /\ tracer'.program = tracer.program
        /\ tracer'.custom = tracer.custom /\ tracer'.eof = tracer.eof /\ tracer'.printed = tracer.printed
    BY <1>0, <2>2, TracerThere DEF TraceFit, TracePlaces
  <2>4. ReadFits' BY <1>0, <1>3, <2>3 DEF TraceFit, ReadFits, Lossless
  <2>. QED BY <1>0, <1>1, <2>3, <2>4, LateKeeps DEF TraceFit
<1>. QED BY <1>2, <1>3 DEF AwaitsCompletion

LEMMA ReadKeeps == TraceInv /\ ReadsChunk => TraceInv'
<1> SUFFICES ASSUME TraceInv, ReadsChunk PROVE TraceInv' OBVIOUS
<1>0. TraceFit /\ tracer.at = "read" /\ UNCHANGED <<armed, observer>> BY Fitting DEF ReadsChunk, TracerAt
<1>1. chromium.left >= 1 /\ ~tracer.eof /\ chromium.complete /\ ~chromium.lossy /\ ~tracer.printed
      /\ chromium.left \in Nat /\ tracer.reads \in Nat
  BY <1>0 DEF TraceFit, ReadFits, ChromiumRecord, TracerRecord
<1>2. CASE tracer' = [tracer EXCEPT !.at = "release"] /\ UNCHANGED chromium
  <2>1. tracer' \in TracerRecord /\ tracer'.at = "release" /\ tracer'.program = tracer.program
        /\ tracer'.custom = tracer.custom /\ tracer'.eof = tracer.eof /\ tracer'.printed = tracer.printed
    BY <1>0, <1>2, TracerThere DEF TraceFit, TracePlaces
  <2>2. ReadFits' BY <1>0, <1>1, <1>2, <2>1 DEF TraceFit, ReadFits
  <2>. QED BY <1>0, <1>2, <2>1, <2>2, LateKeeps DEF TraceFit
<1>3. CASE chromium' = [chromium EXCEPT !.left = @ - 1] /\ tracer' = ReadsOn(tracer.reads + 1, chromium.left = 1)
  <2>1. PICK left \in Nat, reads \in Nat : left = chromium.left - 1 /\ reads = tracer.reads + 1 BY <1>1
  <2>2. chromium' = [chromium EXCEPT !.left = left] BY <1>0, <1>3, <2>1 DEF TraceFit, ChromiumRecord
  <2>3. chromium' \in ChromiumRecord /\ chromium'.left = left /\ chromium'.link = chromium.link
        /\ chromium'.complete = chromium.complete /\ chromium'.lossy = chromium.lossy
        /\ chromium'.tracing = chromium.tracing /\ chromium'.stream = chromium.stream
    BY <1>0, <2>2 DEF TraceFit, ChromiumRecord
  <2>4. CASE chromium.left = 1
    <3>1. PICK y \in BOOLEAN : y = TRUE OBVIOUS
    <3>2. Following = "release" BY <1>0, StockPlan, DamagePlan DEF TraceFit, TracerRecord
    <3>3. tracer' = [tracer EXCEPT !.at = "release", !.eof = y]
      BY <1>0, <1>3, <2>4, <3>1, <3>2 DEF ReadsOn, GoesOn, TraceFit, TracerRecord
    <3>4. tracer' \in TracerRecord /\ tracer'.at = "release" /\ tracer'.program = tracer.program
          /\ tracer'.custom = tracer.custom /\ tracer'.eof /\ tracer'.printed = tracer.printed
      BY <1>0, <3>1, <3>3 DEF TraceFit, TracerRecord, TracePlaces
    <3>5. left = 0 BY <2>1, <2>4
    <3>6. ReadFits' BY <1>1, <2>3, <3>4, <3>5 DEF ReadFits
    <3>. QED BY <1>0, <2>3, <3>4, <3>6, LateKeeps DEF TraceFit
  <2>5. CASE chromium.left # 1
    <3>1. left >= 1 BY <1>1, <2>1, <2>5
    <3>2. tracer' = [tracer EXCEPT !.at = "release"] \/ tracer' = [tracer EXCEPT !.reads = reads]
      BY <1>3, <2>1, <2>5 DEF ReadsOn
    <3>3. tracer' \in TracerRecord /\ tracer'.at \in {"read", "release"} /\ tracer'.program = tracer.program
          /\ tracer'.custom = tracer.custom /\ tracer'.eof = tracer.eof /\ tracer'.printed = tracer.printed
      BY <1>0, <3>2 DEF TraceFit, TracerRecord, TracePlaces
    <3>4. ReadFits' BY <1>1, <2>3, <3>1, <3>3 DEF ReadFits
    <3>. QED BY <1>0, <2>3, <3>3, <3>4, LateKeeps DEF TraceFit
  <2>. QED BY <2>4, <2>5
<1>. QED BY <1>2, <1>3 DEF ReadsChunk

LEMMA ReleaseKeeps == TraceInv /\ Releases => TraceInv'
<1> SUFFICES ASSUME TraceInv, Releases PROVE TraceInv' OBVIOUS
<1>0. TraceFit /\ tracer.at = "release" /\ UNCHANGED <<armed, observer>> BY Fitting DEF Releases, TracerAt
<1>1. PICK answered : answered = IF tracer.eof THEN GoesOn ELSE Throws OBVIOUS
<1>2. Unread(chromium') /\ (tracer' = Throws \/ (tracer' = answered /\ chromium' = [chromium EXCEPT !.stream = FALSE]))
  <2>1. Asks([chromium EXCEPT !.stream = FALSE], answered) BY <1>1 DEF Releases
  <2>. QED BY <2>1, AsksIs, ChromiumFields
<1>3. CASE tracer' = Throws BY <1>0, <1>2, <1>3, ThrowsKeeps DEF TraceFit
<1>4. CASE tracer.eof /\ tracer' = GoesOn /\ chromium' = [chromium EXCEPT !.stream = FALSE]
  <2>1. Following = "write" BY <1>0, StockPlan, DamagePlan DEF TraceFit, TracerRecord
  <2>2. tracer' = [tracer EXCEPT !.at = "write"] BY <1>4, <2>1 DEF GoesOn
  <2>3. tracer' \in TracerRecord /\ tracer'.at = "write" /\ tracer'.program = tracer.program
        /\ tracer'.custom = tracer.custom /\ tracer'.eof = tracer.eof /\ tracer'.printed = tracer.printed
    BY <1>0, <2>2, TracerThere DEF TraceFit, TracePlaces
  <2>4. PICK n \in BOOLEAN : n = FALSE OBVIOUS
  <2>5. chromium' = [chromium EXCEPT !.stream = n] BY <1>4, <2>4
  <2>6. chromium' \in ChromiumRecord /\ chromium'.left = chromium.left /\ chromium'.link = chromium.link
        /\ chromium'.complete = chromium.complete /\ chromium'.lossy = chromium.lossy
        /\ chromium'.tracing = chromium.tracing /\ ~chromium'.stream
    BY <1>0, <2>4, <2>5 DEF TraceFit, ChromiumRecord
  <2>7. ReadFits' BY <1>0, <1>4, <2>3, <2>6 DEF TraceFit, ReadFits
  <2>. QED BY <1>0, <2>3, <2>6, <2>7, LateKeeps DEF TraceFit
<1>. QED BY <1>1, <1>2, <1>3, <1>4

LEMMA WriteKeeps == TraceInv /\ WritesTrace => TraceInv'
<1> SUFFICES ASSUME TraceInv, WritesTrace PROVE TraceInv' OBVIOUS
<1>0. TraceFit /\ tracer.at = "write" /\ UNCHANGED <<armed, chromium, observer>> BY Fitting DEF WritesTrace, TracerAt
<1>1. CASE tracer' = Throws BY <1>0, <1>1, ThrowsKeeps, UnreadAsIs DEF TraceFit
<1>2. CASE tracer' = [GoesOn EXCEPT !.printed = TRUE]
  <2>1. Following = "tidy" BY <1>0, StockPlan, DamagePlan DEF TraceFit, TracerRecord
  <2>2. PICK y \in BOOLEAN : y = TRUE OBVIOUS
  <2>3. tracer' = [tracer EXCEPT !.at = "tidy", !.printed = y] BY <1>0, <1>2, <2>1, <2>2 DEF GoesOn, TraceFit, TracerRecord
  <2>4. tracer' \in TracerRecord /\ tracer'.at = "tidy" /\ tracer'.program = tracer.program
        /\ tracer'.custom = tracer.custom /\ tracer'.eof = tracer.eof
    BY <1>0, <2>3 DEF TraceFit, TracerRecord, TracePlaces
  <2>5. ReadFits' BY <1>0, <2>4 DEF TraceFit, ReadFits
  <2>. QED BY <1>0, <2>4, <2>5, LateKeeps DEF TraceFit
<1>. QED BY <1>1, <1>2 DEF WritesTrace

LEMMA StopKeeps == TraceInv /\ StopsTracing => TraceInv'
<1> SUFFICES ASSUME TraceInv, StopsTracing PROVE TraceInv' OBVIOUS
<1>0. TraceFit /\ tracer.at = "tidy" /\ UNCHANGED <<armed, observer>> BY Fitting DEF StopsTracing, TracerAt
<1>1. Unread(chromium') BY UnreadAsIs, ChromiumFields DEF StopsTracing
<1>2. PICK n \in BOOLEAN : n = FALSE OBVIOUS
<1>3. tracer' = [tracer EXCEPT !.tracing = n] BY <1>2 DEF StopsTracing
<1>4. tracer' \in TracerRecord /\ tracer'.at = "tidy" /\ tracer'.program = tracer.program
      /\ tracer'.custom = tracer.custom /\ tracer'.eof = tracer.eof /\ tracer'.printed = tracer.printed
  BY <1>0, <1>3 DEF TraceFit, TracerRecord
<1>5. ProgramFits' /\ LinkFits' BY <1>0, <1>1, <1>4 DEF TraceFit, ProgramFits, LinkFits, Linked, Unread
<1>6. ObserverFits' BY <1>0, <1>1, <1>4 DEF TraceFit, ObserverFits, Unread
<1>7. ReadFits' BY <1>0, <1>1, <1>4 DEF TraceFit, ReadFits, Unread
<1>. QED BY <1>0, <1>1, <1>4, <1>5, <1>6, <1>7 DEF TraceFit, TraceInv, TraceTyped, Unread

LEMMA StopObserverKeeps == TraceInv /\ StopsObserver => TraceInv'
<1> SUFFICES ASSUME TraceInv, StopsObserver PROVE TraceInv' OBVIOUS
<1>0. TraceFit /\ tracer.at = "tidy" /\ UNCHANGED <<tracer, armed, chromium>> BY Fitting DEF StopsObserver, TracerAt
<1>1. CASE observer' = [observer EXCEPT !.ended = TRUE]
  <2>1. observer' \in ObserverRecord /\ observer'.held = observer.held /\ observer'.at = observer.at
        /\ observer'.failed = observer.failed /\ observer'.lines = observer.lines
    BY <1>0, <1>1, ObserverFields DEF TraceFit
  <2>. QED BY <1>0, <2>1, ObserverAlone DEF TraceFit, ObserverFits
<1>2. CASE observer.at = "gone" /\ observer' = [observer EXCEPT !.held = FALSE]
  <2>1. observer' \in ObserverRecord /\ ~observer'.held /\ observer'.at = observer.at
        /\ observer'.failed = observer.failed /\ observer'.lines = observer.lines
    BY <1>0, <1>2, ObserverFields DEF TraceFit
  <2>. QED BY <1>0, <1>2, <2>1, ObserverAlone DEF TraceFit, ObserverFits
<1>. QED BY <1>1, <1>2 DEF StopsObserver

LEMMA LetGoKeeps == TraceInv /\ LetsGo => TraceInv'
<1> SUFFICES ASSUME TraceInv, LetsGo PROVE TraceInv' OBVIOUS
<1>0. TraceFit /\ tracer.at = "tidy" /\ observer' = observer /\ ~observer.held BY Fitting DEF LetsGo, TracerAt
<1>1. PICK n \in BOOLEAN : n = FALSE OBVIOUS
<1>2. chromium' = [chromium EXCEPT !.link = "closed", !.tracing = n, !.stream = n] BY <1>1 DEF LetsGo
<1>3. chromium' \in ChromiumRecord /\ chromium'.link = "closed" /\ ~chromium'.tracing /\ ~chromium'.stream
      /\ chromium'.complete = chromium.complete /\ chromium'.lossy = chromium.lossy /\ chromium'.left = chromium.left
  BY <1>0, <1>1, <1>2 DEF TraceFit, ChromiumRecord
<1>4. armed' \in ArmedRecord /\ armed'.set = {} BY <1>0, ArmedSets DEF LetsGo, TraceFit
<1>5. tracer' = [tracer EXCEPT !.at = "over"] BY DEF LetsGo
<1>6. tracer' \in TracerRecord /\ tracer'.at = "over" /\ tracer'.program = tracer.program
      /\ tracer'.custom = tracer.custom /\ tracer'.eof = tracer.eof /\ tracer'.printed = tracer.printed
  BY <1>0, <1>5, TracerThere DEF TraceFit, TracePlaces
<1>7. ProgramFits' /\ LinkFits' BY <1>0, <1>3, <1>4, <1>6 DEF TraceFit, ProgramFits, LinkFits, Linked
<1>8. ObserverFits' BY <1>0, <1>3, <1>6 DEF TraceFit, ObserverFits
<1>9. ReadFits' BY <1>0, <1>3, <1>6 DEF TraceFit, ReadFits
<1>. QED BY <1>0, <1>3, <1>4, <1>6, <1>7, <1>8, <1>9 DEF TraceFit, TraceInv, TraceTyped

\* The timers and the owner's command.
LEMMA ArmedKeeps ==
  ASSUME TraceInv, UNCHANGED <<tracer, chromium, observer>>, armed' \in ArmedRecord, armed'.set \subseteq armed.set
  PROVE  TraceInv'
<1>0. TraceFit BY Fitting
<1>. QED BY <1>0 DEF TraceFit, TraceInv, TraceTyped, ProgramFits, LinkFits, ObserverFits, ReadFits, Linked

LEMMA TimersKeep == TraceInv /\ ((\E t \in Timers : TimerEnds(t)) \/ OwnerCommands) => TraceInv'
<1> SUFFICES ASSUME TraceInv, (\E t \in Timers : TimerEnds(t)) \/ OwnerCommands PROVE TraceInv' OBVIOUS
<1>0. TraceFit BY Fitting
<1>1. CASE \E t \in Timers : TimerEnds(t)
  <2>1. PICK t \in Timers : TimerEnds(t) BY <1>1
  <2>2. PICK set \in SUBSET Timers, over \in SUBSET Timers : set = armed.set \ {t} /\ over = armed.over \cup {t}
    BY <1>0 DEF TraceFit, ArmedRecord
  <2>3. PICK command \in {"none", "late", "stop", "eof"} :
          command = IF t = "command" /\ armed.command = "none" THEN "late" ELSE armed.command
    BY <1>0 DEF TraceFit, ArmedRecord
  <2>4. armed' = [set |-> set, over |-> over, command |-> command] BY <2>1, <2>2, <2>3 DEF TimerEnds
  <2>5. armed' \in ArmedRecord /\ armed'.set = set BY <2>4 DEF ArmedRecord
  <2>6. UNCHANGED <<tracer, chromium, observer>> BY <2>1 DEF TimerEnds
  <2>. QED BY <2>2, <2>5, <2>6, ArmedKeeps
<1>2. CASE OwnerCommands
  <2>1. PICK c \in {"stop", "eof"} : armed' = [armed EXCEPT !.command = c] BY <1>2 DEF OwnerCommands
  <2>2. armed' \in ArmedRecord /\ armed'.set = armed.set BY <1>0, <2>1 DEF TraceFit, ArmedRecord
  <2>. QED BY <1>2, <2>2, ArmedKeeps DEF OwnerCommands
<1>. QED BY <1>1, <1>2

LEMMA CompletesKeeps == TraceInv /\ Completes => TraceInv'
<1> SUFFICES ASSUME TraceInv, Completes PROVE TraceInv' OBVIOUS
<1>0. TraceFit /\ UNCHANGED <<tracer, observer>> /\ Linked /\ ~chromium.complete /\ tracer.at \in {"observed", "wait"}
  BY Fitting DEF Completes, TracerAt
<1>1. PICK lossy \in BOOLEAN, n \in 1..MaxReads + 1 :
        chromium' = [chromium EXCEPT !.complete = TRUE, !.lossy = lossy, !.stream = TRUE, !.left = n]
  BY DEF Completes
<1>2. n \in Nat /\ n >= 1 BY TraceAssumption
<1>3. PICK y \in BOOLEAN : y = TRUE OBVIOUS
<1>4. chromium' = [chromium EXCEPT !.complete = y, !.lossy = lossy, !.stream = y, !.left = n] BY <1>1, <1>3
<1>5. chromium' \in ChromiumRecord /\ chromium'.link = chromium.link /\ chromium'.complete /\ chromium'.left = n
      /\ chromium'.tracing = chromium.tracing
  BY <1>0, <1>2, <1>3, <1>4 DEF TraceFit, ChromiumRecord
<1>6. armed' \in ArmedRecord BY <1>0, ArmedSets DEF Completes, TraceFit
<1>7. ProgramFits' /\ LinkFits' BY <1>0, <1>5 DEF TraceFit, ProgramFits, LinkFits, Linked
<1>8. ObserverFits' BY <1>0, <1>5 DEF TraceFit, ObserverFits
<1>9. ReadFits' BY <1>0, <1>2, <1>5 DEF TraceFit, ReadFits
<1>. QED BY <1>0, <1>5, <1>6, <1>7, <1>8, <1>9 DEF TraceFit, TraceInv, TraceTyped

LEMMA HangKeeps == TraceInv /\ HangsUp => TraceInv'
<1> SUFFICES ASSUME TraceInv, HangsUp PROVE TraceInv' OBVIOUS
<1>0. TraceFit /\ UNCHANGED <<tracer, armed, observer>> /\ Linked BY Fitting DEF HangsUp
<1>1. PICK n \in BOOLEAN : n = FALSE OBVIOUS
<1>2. chromium' = [chromium EXCEPT !.link = "closed", !.tracing = n, !.stream = n] BY <1>1 DEF HangsUp
<1>3. chromium' \in ChromiumRecord /\ chromium'.link = "closed" /\ ~chromium'.tracing /\ ~chromium'.stream
      /\ chromium'.complete = chromium.complete /\ chromium'.lossy = chromium.lossy /\ chromium'.left = chromium.left
  BY <1>0, <1>1, <1>2 DEF TraceFit, ChromiumRecord
<1>4. ProgramFits' /\ LinkFits' BY <1>0, <1>3 DEF TraceFit, ProgramFits, LinkFits, Linked
<1>5. ObserverFits' BY <1>0, <1>3 DEF TraceFit, ObserverFits
<1>6. ReadFits' BY <1>0, <1>3 DEF TraceFit, ReadFits
<1>. QED BY <1>0, <1>3, <1>4, <1>5, <1>6 DEF TraceFit, TraceInv, TraceTyped

LEMMA ObserversKeep == TraceInv /\ (ObserverSays \/ ObserverExits \/ ObserverDies) => TraceInv'
<1> SUFFICES ASSUME TraceInv, ObserverSays \/ ObserverExits \/ ObserverDies PROVE TraceInv' OBVIOUS
<1>0. TraceFit /\ UNCHANGED <<tracer, armed, chromium>> BY Fitting DEF ObserverSays, ObserverExits, ObserverDies, Watches
<1>1. observer.lines \in Seq({"ready", "rect", "done"}) BY <1>0 DEF TraceFit, ObserverRecord
<1>2. CASE ObserverSays
  <2>1. PICK lines : lines \in {<<"ready">>, Append(observer.lines, "rect"), Append(observer.lines, "done")}
                    /\ observer' = [observer EXCEPT !.lines = lines]
    BY <1>0, <1>2 DEF ObserverSays, TraceFit, ObserverRecord
  <2>2. lines \in Seq({"ready", "rect", "done"}) /\ lines # <<>>
    <3>1. CASE lines = <<"ready">> BY <3>1
    <3>2. CASE lines \in {Append(observer.lines, "rect"), Append(observer.lines, "done")}
      <4>1. PICK e \in {"ready", "rect", "done"} : lines = Append(observer.lines, e) BY <3>2
      <4>. QED BY <1>1, <4>1
    <3>. QED BY <2>1, <3>1, <3>2
  <2>3. observer' \in ObserverRecord /\ observer'.at = "up" /\ observer'.held = observer.held
        /\ observer'.failed = observer.failed /\ observer'.lines = lines /\ observer.at = "up"
    BY <1>0, <1>2, <2>1, <2>2 DEF TraceFit, ObserverRecord, ObserverSays, Watches
  <2>. QED BY <1>0, <2>2, <2>3, ObserverAlone DEF TraceFit, ObserverFits
<1>3. CASE ObserverExits
  <2>1. observer' = [observer EXCEPT !.at = "gone"] /\ observer.at \in {"up", "killed"} BY <1>3 DEF ObserverExits
  <2>2. observer' \in ObserverRecord /\ observer'.at = "gone" /\ observer'.held = observer.held
        /\ observer'.failed = observer.failed /\ observer'.lines = observer.lines
    BY <1>0, <2>1 DEF TraceFit, ObserverRecord
  <2>. QED BY <1>0, <2>1, <2>2, ObserverAlone DEF TraceFit, ObserverFits
<1>4. CASE ObserverDies
  <2>1. PICK how \in {"killed", "gone"} : observer' = [observer EXCEPT !.at = how, !.failed = TRUE] BY <1>4 DEF ObserverDies
  <2>2. PICK y \in BOOLEAN : y = TRUE OBVIOUS
  <2>3. observer' = [observer EXCEPT !.at = how, !.failed = y] BY <2>1, <2>2
  <2>4. observer' \in ObserverRecord /\ observer'.at = how /\ observer'.held = observer.held
        /\ observer'.lines = observer.lines /\ observer.at = "up"
    BY <1>0, <1>4, <2>3 DEF TraceFit, ObserverRecord, ObserverDies, Watches
  <2>. QED BY <1>0, <2>4, ObserverAlone DEF TraceFit, ObserverFits
<1>. QED BY <1>2, <1>3, <1>4

\* What is printed is a whole trace with every rectangle of its time, and a program that
\* is over has left nothing (stock-gpu-trace.mjs:91-95, native-damage-trace.mjs:77-82).
THEOREM WholeTraces == TraceSpec => []TraceIsWhole
<1>1. TraceInv /\ [TraceRunNext]_traceVars => TraceInv'
  <2> SUFFICES ASSUME TraceInv, [TraceRunNext]_traceVars PROVE TraceInv' OBVIOUS
  <2>1. CASE UNCHANGED traceVars
    BY <2>1 DEF traceVars, TraceInv, TraceTyped, ProgramFits, LinkFits, ObserverFits, ReadFits, Linked
  <2>2. CASE TracerStep
    BY <2>2, ConnectsKeeps, InspectsKeeps, ObserveKeeps, StartKeeps, EndsKeeps, FinishKeeps, AwaitKeeps, ReadKeeps,
       ReleaseKeeps, WriteKeeps, StopKeeps, StopObserverKeeps, LetGoKeeps, WorksKeeps DEF TracerStep
  <2>. QED BY <2>1, <2>2, WorksKeeps, TimersKeep, CompletesKeeps, HangKeeps, ObserversKeep DEF TraceRunNext, Timers
<1>2. TraceInv => TraceIsWhole
  <2> SUFFICES ASSUME TraceInv PROVE TraceIsWhole OBVIOUS
  <2>0. TraceFit BY Fitting
  <2>1. observer.at = "up" => tracer.at # "over"
    BY <2>0 DEF TraceFit, ObserverFits
  <2>. QED BY <2>0, <2>1 DEF TraceFit, ReadFits, LinkFits, ObserverFits, TraceIsWhole
<1>. QED BY TraceStart, <1>1, <1>2, PTL DEF TraceSpec
=============================================================================
