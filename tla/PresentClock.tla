---------------------------- MODULE PresentClock ----------------------------
(***************************************************************************)
(* The synthetic vertical blank of the GPU display driver                  *)
(* (native/gpu-dummy/src/clock.rs, abi/present.c): clients queue events    *)
(* for a frame number, one timer of the X server delivers those that are   *)
(* due.  The server has one thread, but a client that is told of an event  *)
(* may queue, abort and ask for the time before the delivery goes on, so   *)
(* that the delivery's one reading of the clock may be older than others.  *)
(*                                                                         *)
(* Time is counted in microseconds from the clock's epoch; the timer's in  *)
(* milliseconds, as the X server's is.                                     *)
(***************************************************************************)
EXTENDS Integers, FiniteSets

CONSTANTS VblankIds,
          Second, Milli,    \* 1000000 and 1000 microseconds
          Hz,               \* 30..120 frames in a second
          EventCapacity,    \* 256
          LongestDelay,     \* 1000 milliseconds
          Targets,          \* bound: the frames that are asked for
          LastMicro         \* bound: the time
ASSUME ClockAssumption ==
  /\ Second \in Nat \ {0} /\ Milli \in Nat \ {0} /\ Hz \in Nat \ {0}
  /\ EventCapacity \in Nat \ {0} /\ LongestDelay \in Nat \ {0}
  /\ Targets \subseteq Nat /\ LastMicro \in Nat

NoFrame == -1
NotSet == -1
VARIABLES micro,    \* the monotonic clock
          vblank,   \* last: PresentClock.last_us; target[i]: the frame that event i waits for
          wake,     \* the X server's timer: known to it, and when it is set for
          deliver,  \* bp_timer: its reading of the clock, and the events it has delivered
          told      \* history: the last event that was delivered, and the frame it was told
presentVars == <<micro, vblank, wake, deliver, told>>

PresentInit ==
  /\ micro = 0 /\ vblank = [last |-> 0, target |-> [i \in VblankIds |-> NoFrame]]
  /\ wake = [known |-> FALSE, at |-> NotSet]
  /\ deliver = [on |-> FALSE, sample |-> 0, count |-> 0] /\ told = [wanted |-> 0, msc |-> 0, at |-> 0]
-----------------------------------------------------------------------------
RoundedUp(a, b) == (a + b - 1) \div b
Greater(a, b) == IF a >= b THEN a ELSE b
Lesser(a, b) == IF a <= b THEN a ELSE b
Queued == {i \in VblankIds : vblank.target[i] # NoFrame}

\* Mutant of Sampled: a reading that is older than another one counts.
SampledOld(t) == t
\* sample(): a reading that is older than another one changes nothing.
Sampled(t) == Greater(vblank.last, t)
\* Mutant of Msc: a frame counts as soon as it has begun.
MscBegun(t) == RoundedUp(t * Hz, Second)
Msc(t) == (t * Hz) \div Second
DueAt(target) == RoundedUp(target * Second, Hz)
\* The events that wait for the earliest frame, and for how long delay_ms() lets
\* the server sleep for one of them.
Earliest(queue) ==
  {i \in VblankIds : queue[i] # NoFrame /\ \A k \in VblankIds : queue[k] # NoFrame => queue[i] <= queue[k]}
DelayMs(target, t) ==
  Lesser(Greater(RoundedUp(Greater(DueAt(target) - t, 0), Milli), 1), LongestDelay)
\* TimerSet: the X server counts from its own reading in milliseconds.
SetFor(delay) == (micro \div Milli) + delay

\* get_ust_msc
GetTime ==
  /\ vblank' = [vblank EXCEPT !.last = Sampled(micro)] /\ UNCHANGED <<micro, wake, deliver, told>>

\* Mutant of Woken: a timer that is set already is left.
WokenOnce(target) == IF wake.at # NotSet THEN wake.at ELSE SetFor(DelayMs(target, Sampled(micro)))
\* The timer is set anew for the earliest event.
Woken(target) == SetFor(DelayMs(target, Sampled(micro)))
\* bp_queue: an id that is queued and a full queue are refused without a trace.
QueueVblank(i, target) ==
  /\ i \notin Queued /\ Cardinality(Queued) < EventCapacity
  /\ LET queue == [vblank.target EXCEPT ![i] = target]
     IN /\ vblank' = [last |-> Sampled(micro), target |-> queue]
        /\ \E e \in Earliest(queue) : wake' = [known |-> TRUE, at |-> Woken(queue[e])]
  /\ UNCHANGED <<micro, deliver, told>>
\* The X server has no memory for the timer: the event is taken back.
QueueFails(i) ==
  /\ ~wake.known /\ i \notin Queued /\ Cardinality(Queued) < EventCapacity
  /\ vblank' = [vblank EXCEPT !.last = Sampled(micro)] /\ UNCHANGED <<micro, wake, deliver, told>>

\* Mutant of Cancelled: the timer goes with any event that is aborted.
CancelledAny(queue) == NotSet
\* bp_abort: the timer is cancelled if nothing is left, and else left as it is.
Cancelled(queue) == IF \A i \in VblankIds : queue[i] = NoFrame THEN NotSet ELSE wake.at
AbortVblank(i) ==
  LET queue == [vblank.target EXCEPT ![i] = NoFrame]
  IN /\ vblank' = [last |-> IF wake.known THEN Sampled(micro) ELSE vblank.last, target |-> queue]
     /\ wake' = IF wake.known THEN [wake EXCEPT !.at = Cancelled(queue)] ELSE wake
     /\ UNCHANGED <<micro, deliver, told>>

\* The X server calls bp_timer, at its time or later.
TimerRuns ==
  /\ ~deliver.on /\ wake.at # NotSet /\ micro \div Milli >= wake.at
  /\ deliver' = [on |-> TRUE, sample |-> micro, count |-> 0] /\ wake' = [wake EXCEPT !.at = NotSet]
  /\ UNCHANGED <<micro, vblank, told>>
\* pop_due with the delivery's reading, and present_event_notify.
DueNow(i) == i \in Earliest(vblank.target) /\ vblank.target[i] <= Msc(Sampled(deliver.sample))
PopDue(i) ==
  /\ deliver.on /\ deliver.count < EventCapacity /\ DueNow(i)
  /\ vblank' = [last |-> Sampled(deliver.sample), target |-> [vblank.target EXCEPT ![i] = NoFrame]]
  /\ told' = [wanted |-> vblank.target[i], msc |-> Msc(Sampled(deliver.sample)), at |-> micro]
  /\ deliver' = [deliver EXCEPT !.count = @ + 1] /\ UNCHANGED <<micro, wake>>
\* The delay that bp_timer returns: the X server sets the timer unless it is 0.
EndDelivery ==
  /\ deliver.on /\ (deliver.count = EventCapacity \/ \A i \in VblankIds : ~DueNow(i))
  /\ deliver' = [deliver EXCEPT !.on = FALSE] /\ vblank' = [vblank EXCEPT !.last = Sampled(micro)]
  /\ IF Queued = {} THEN UNCHANGED wake
     ELSE \E e \in Earliest(vblank.target) : wake' = [wake EXCEPT !.at = Woken(vblank.target[e])]
  /\ UNCHANGED <<micro, told>>
MicroPasses == micro < LastMicro /\ micro' = micro + 1 /\ UNCHANGED <<vblank, wake, deliver, told>>

PresentNext ==
  \/ GetTime \/ TimerRuns \/ EndDelivery \/ MicroPasses
  \/ \E i \in VblankIds : QueueFails(i) \/ AbortVblank(i) \/ PopDue(i)
                         \/ \E target \in Targets : QueueVblank(i, target)
PresentSpec == PresentInit /\ [][PresentNext]_presentVars
-----------------------------------------------------------------------------
PresentTypeOK ==
  /\ micro \in Nat /\ vblank \in [last : Nat, target : [VblankIds -> Targets \cup {NoFrame}]]
  /\ wake \in [known : BOOLEAN, at : Nat \cup {NotSet}]
  /\ deliver \in [on : BOOLEAN, sample : Nat, count : 0..EventCapacity]
  /\ told \in [wanted : Nat, msc : Nat, at : Nat]

\* Nobody is told of a frame before its time, and what clients see of the clock is
\* never ahead of the real one (clock.rs:28-34, :65).
NeverEarly ==
  /\ vblank.last <= micro /\ deliver.sample <= micro
  /\ told.wanted <= told.msc /\ told.msc * Second <= told.at * Hz /\ told.at <= micro
\* No event is forgotten, however events are queued and aborted while others
\* are delivered: as long as one waits and no delivery is under way, the timer is
\* set, at the latest for the first millisecond in which the event is due, or
\* for the next one if that is over (present.c:20-39, clock.rs:71-83).
WakesInTime ==
  ~deliver.on => \A i \in Queued :
    /\ wake.at # NotSet
    /\ wake.at <= Greater(RoundedUp(DueAt(vblank.target[i]), Milli), micro \div Milli + 1)
PresentInv == PresentTypeOK /\ NeverEarly /\ WakesInTime
\* Both, and the frames that clients count never go back, though a delivery goes
\* on with an older reading than those asked for meanwhile (clock.rs:29).
VblanksAreTimely == []PresentInv /\ [][vblank'.last >= vblank.last]_presentVars
=============================================================================
