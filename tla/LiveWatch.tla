----------------------------- MODULE LiveWatch -----------------------------
(***************************************************************************)
(* The supervision of the live encoder (native/vulkan-lease/live-watch.c,  *)
(* live-listener.c, and the pulse of live-main.c): the listener forks an   *)
(* encoder for each viewer and watches a pipe for its pulses, one in a     *)
(* second as long as its loop goes round.  Fifteen seconds without one, or *)
(* an exit that is no clean end, end the listener too, and whoever started *)
(* the display starts it anew.  Meanwhile one thread answers who asks for  *)
(* the encoder's health.                                                   *)
(*                                                                         *)
(* Time goes in ticks of one pulse; at most one passes while the watch     *)
(* goes round once, since its longest wait is a tenth of a second, and     *)
(* none while a pulse is in the pipe, which ends that wait.                *)
(***************************************************************************)
EXTENDS Naturals

CONSTANTS SilenceLimit,   \* 15 ticks without progress
          Grace,      \* 2 ticks between SIGTERM and SIGKILL
          MaxForks    \* bound: encoders that are started
ASSUME WatchAssumption == SilenceLimit \in Nat \ {0, 1} /\ Grace \in Nat /\ MaxForks \in Nat

VARIABLES encoder,   \* the child: what it is, its time since it went round and pulsed;
                     \* gap: a stretch without a round that ended in this tick
          watch,     \* the listener: its place, its time since it saw a pulse
          health     \* history: the last answer about health, and how silent the encoder was
watchVars == <<encoder, watch, health>>

Children == {"none", "loops", "hangs", "ignores", "left", "failed", "killed"}
NoChild == [is |-> "none", round |-> 0, pulse |-> 0, gap |-> 0, piped |-> FALSE]
WatchInit ==
  /\ encoder = NoChild /\ health = [said |-> "none", silent |-> 0]
  /\ watch = [at |-> "accept", seen |-> 0, turn |-> FALSE, spent |-> 0, forks |-> 0, why |-> "none"]
Alive == encoder.is \in {"loops", "hangs", "ignores"}
-----------------------------------------------------------------------------
\* A viewer connects: the child pulses before it does anything else
\* (live-main.c:12).
Fork ==
  /\ watch.at = "accept" /\ watch.forks < MaxForks
  /\ encoder' = [is |-> "loops", round |-> 0, pulse |-> 0, gap |-> 0, piped |-> TRUE]
  /\ watch' = [watch EXCEPT !.at = "loop", !.seen = 0, !.turn = FALSE, !.spent = 0, !.forks = @ + 1]
  /\ UNCHANGED health

\* The encoder's loop goes round, and live_pulse writes if a second is over.
\* Mutant of Pulses: pixels are what counts, not progress.
PulsesPixels == FALSE
Pulses == encoder.pulse >= 1
LoopsRound ==
  /\ encoder.is = "loops" /\ UNCHANGED <<watch, health>>
  /\ LET went == [encoder EXCEPT !.round = 0, !.gap = IF encoder.round > 0 THEN encoder.round ELSE @]
     IN encoder' = IF Pulses THEN [went EXCEPT !.pulse = 0, !.piped = TRUE] ELSE went
\* The encoder hangs in the GPU, where a signal ends it, or not yet; it is slow and
\* goes on; its viewer leaves; or something it requires fails.
Hangs ==
  /\ UNCHANGED <<watch, health>>
  /\ \/ encoder.is = "loops" /\ \E h \in {"hangs", "ignores"} : encoder' = [encoder EXCEPT !.is = h]
     \/ encoder.is = "hangs" /\ encoder' = [encoder EXCEPT !.is = "loops"]
EncoderEnds ==
  /\ Alive /\ UNCHANGED <<watch, health>>
  /\ \E e \in (IF encoder.is = "loops" THEN {"left", "failed"} ELSE {"failed"}) :
       encoder' = [encoder EXCEPT !.is = e]

\* live_supervise, from the top of its loop to the wait: a child that is gone ends
\* the watch, and so does one that was silent too long.
\* Mutant of Reaped: any end of a child is a clean one.
ReapedAny == "accept"
Reaped == IF encoder.is = "left" THEN "accept" ELSE "returned"
Reaps ==
  /\ watch.at = "loop" /\ encoder.is \in {"left", "failed"}
  /\ watch' = [watch EXCEPT !.at = Reaped, !.why = encoder.is] /\ encoder' = NoChild
  /\ UNCHANGED health
\* Mutants of Silent: the watch counts from the fork; it never looks.
SilentFromFork == watch.spent >= SilenceLimit
SilentNever == FALSE
Silent == watch.seen >= SilenceLimit
TimesOut ==
  /\ watch.at = "loop" /\ Alive /\ Silent
  /\ watch' = [watch EXCEPT !.at = "term", !.spent = 0, !.why = "silent"]
  /\ health' \in {health, [said |-> "no", silent |-> encoder.round]} /\ UNCHANGED encoder
\* The wait: a pulse in the pipe is seen, and a client is told that all is well.
Reads ==
  /\ watch.at = "loop" /\ Alive /\ ~Silent
  /\ watch' = [watch EXCEPT !.seen = IF encoder.piped THEN 0 ELSE @, !.turn = FALSE]
  /\ encoder' = [encoder EXCEPT !.piped = FALSE]
  /\ health' \in {health, [said |-> "ok", silent |-> encoder.round]}
AcceptsHealth ==
  /\ watch.at = "accept" /\ health' = [said |-> "ok", silent |-> 0] /\ UNCHANGED <<encoder, watch>>

\* stop_child: SIGTERM, two seconds, SIGKILL, and a wait without an end.
Terminated ==
  /\ watch.at = "term" /\ encoder.is \in {"loops", "hangs"}
  /\ encoder' = [encoder EXCEPT !.is = "killed"] /\ UNCHANGED <<watch, health>>
\* Mutant of Kills: the one signal is all.
KillsNobody == FALSE
Kills == watch.at = "term" /\ watch.spent >= Grace
SendsKill ==
  /\ Kills /\ Alive /\ watch' = [watch EXCEPT !.at = "kill"] /\ UNCHANGED <<encoder, health>>
\* A killed child is gone as soon as the kernel lets it be.
KernelEnds ==
  /\ watch.at = "kill" /\ Alive /\ encoder' = [encoder EXCEPT !.is = "killed"] /\ UNCHANGED <<watch, health>>
StopEnds ==
  /\ watch.at \in {"term", "kill"} /\ ~Alive /\ encoder' = NoChild
  /\ watch' = [watch EXCEPT !.at = "returned"] /\ UNCHANGED health

\* Numbers beyond what anybody asks for stay.
More(n) == IF n > SilenceLimit THEN n ELSE n + 1
SecondPasses ==
  /\ encoder.is # "none" /\ UNCHANGED health
  /\ watch.at = "loop" => ~watch.turn /\ ~encoder.piped
  /\ encoder' = [encoder EXCEPT !.round = More(@), !.pulse = More(@), !.gap = 0]
  /\ watch' = [watch EXCEPT !.seen = More(@), !.spent = More(@), !.turn = watch.at = "loop"]

WatchStep == Reaps \/ TimesOut \/ Reads \/ SendsKill \/ StopEnds
WatchNext ==
  \/ Fork \/ LoopsRound \/ Hangs \/ EncoderEnds \/ WatchStep \/ AcceptsHealth
  \/ Terminated \/ KernelEnds \/ SecondPasses
WatchSpec == WatchInit /\ [][WatchNext]_watchVars
-----------------------------------------------------------------------------
\* A slow encoder is not replaced: one that the watch gives up had not gone round
\* for all but two seconds of the deadline, one for its own pace and one for the
\* watch's, though it may go on in that very moment (live-watch.c:80-88, :113). And nobody is told that all is well once it is
\* silent for longer than the deadline (docs/GPU_LIVE_TEST.md:52-53).
SilenceIsReal ==
  /\ watch.at \in {"term", "kill"} /\ watch.why = "silent" /\ watch.spent = 0 =>
       encoder.round + 2 >= SilenceLimit \/ encoder.gap + 2 >= SilenceLimit
  /\ health.said = "ok" => health.silent <= SilenceLimit
  /\ watch.at = "returned" => encoder.is = "none" /\ watch.why # "left"
\* A hung or failed encoder is replaced, wherever it hangs: it goes on by itself, or
\* the listener ends, which leaves no child behind.
HungIsReplaced ==
  /\ (encoder.is \in {"hangs", "ignores"} /\ watch.at = "loop")
       ~> (encoder.is = "loops" \/ watch.at = "returned" \/ encoder.is = "none")
  /\ (encoder.is = "failed" /\ watch.at = "loop") ~> (watch.at = "returned")
  /\ (encoder.is = "left" /\ watch.at = "loop") ~> (watch.at = "accept")
EncodersAreWatched == []SilenceIsReal /\ HungIsReplaced
=============================================================================
