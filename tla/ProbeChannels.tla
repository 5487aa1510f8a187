--------------------------- MODULE ProbeChannels ---------------------------
(***************************************************************************)
(* The channels of the runtime probes: RenderRpc over ssh to the owner of  *)
(* a pilot ("rpc"), DiagnosticCdp and RuntimeCdp over a WebSocket to a     *)
(* throwaway browser ("diagnostic", "fixture"), the pilot's own script     *)
(* there ("script"), and WorkflowWarmDriver over the pipes of a worker     *)
(* ("warm").  A call has a deadline and a waiter; answers come late, for   *)
(* calls nobody waits for, or not at all.                                  *)
(*                                                                         *)
(* Answers have the number of their call, but those of "warm", which are   *)
(* whoever's waits.  What is written to a stream that was ended is lost.   *)
(* A script whose listener throws is over.                                 *)
(***************************************************************************)
EXTENDS Naturals, FiniteSets

CONSTANTS Calls,
          FirstCall, LastCall,   \* of the rpc: the owner's greeting and the last call
          Limit            \* Limit[kind] calls may be pending
ASSUME ProbeAssumption == /\ FirstCall \in Calls /\ LastCall \in Calls /\ FirstCall # LastCall
                          /\ Limit \in [{"rpc", "diagnostic", "fixture", "warm"} -> Nat \ {0}]

VARIABLES channel,   \* the class, its stream and whether its failure is kept
          call,      \* call[c]: its number, and how it ended
          owed,      \* the numbers of the calls that the remote side has
          cleanup    \* RenderPilotCleanup, and what was closed
probeVars == <<channel, call, owed, cleanup>>

\* The owner and the worker greet who started them.
Greets == {"rpc", "warm"}
ProbeInit ==
  /\ \E kind \in {"rpc", "diagnostic", "fixture", "script", "warm"} :
       /\ channel = [kind |-> kind, at |-> IF kind \in Greets THEN "open" ELSE "connecting",
                     failed |-> FALSE, sequence |-> 0]
       /\ call = [c \in Calls |-> [at |-> IF kind \in Greets /\ c = FirstCall THEN "sent" ELSE "idle",
                                   id |-> 0, got |-> 0]]
       /\ owed = IF kind \in Greets THEN {0} ELSE {}
  /\ cleanup = [at |-> "none", ok |-> TRUE, browser |-> TRUE]

Pending == {c \in Calls : call[c].at = "sent"}
\* Mutant of Rejected: those who wait go on waiting.
RejectedNone == call
Rejected == [c \in Calls |-> IF c \in Pending THEN [call[c] EXCEPT !.at = "failed"] ELSE call[c]]
Settle(c, at) == call' = [call EXCEPT ![c].at = at]
Is(kind) == channel.kind = kind
\* Those that keep why they failed, and tell it to who asks later.
KeepsCause == Is("diagnostic") \/ Is("warm")
\* What a class does when its stream is of no more use: DiagnosticCdp.close,
\* RuntimeCdp.close, the end of the owner's input, and the worker that is killed.
Broken(at) ==
  channel' = [channel EXCEPT !.failed = @ \/ KeepsCause,
                             !.at = IF @ \in {"closing", "over"} THEN @ ELSE at]
-----------------------------------------------------------------------------
Opens == /\ channel.at = "connecting" /\ channel' = [channel EXCEPT !.at = "open"]
         /\ UNCHANGED <<call, owed, cleanup>>
\* Three seconds, or an error.
ConnectFails == channel.at = "connecting" /\ Broken("closing") /\ UNCHANGED <<call, owed, cleanup>>

\* Mutant of Refused: the cause that came between two calls is dropped.
RefusedLater ==
  CASE Is("rpc")        -> channel.at \in {"closing", "over"} \/ Pending # {}
    [] Is("diagnostic") -> channel.failed \/ Cardinality(Pending) >= Limit["diagnostic"]
    [] Is("fixture")    -> channel.at # "open" \/ Cardinality(Pending) >= Limit["fixture"]
    [] Is("script")     -> channel.at = "over"
    [] Is("warm")       -> channel.at = "over" \/ Pending # {}
\* Mutant of WorkerRefuses: a second command waits beside the first.
WorkerQueues == channel.failed \/ channel.at = "over"
WorkerRefuses == channel.failed \/ channel.at = "over" \/ Pending # {}
Refused ==
  CASE Is("rpc")        -> channel.failed \/ channel.at \in {"closing", "over"} \/ Pending # {}
    [] Is("diagnostic") -> channel.failed \/ Cardinality(Pending) >= Limit["diagnostic"]
    [] Is("fixture")    -> channel.at # "open" \/ Cardinality(Pending) >= Limit["fixture"]
    [] Is("script")     -> channel.at = "over"
    [] Is("warm")       -> WorkerRefuses
\* A command is written to the worker although the driver has failed.
WrittenAnyway == Is("warm") /\ channel.at = "open" /\ Pending = {}
Send(c) ==
  /\ call[c].at = "idle" /\ channel.at # "connecting"
  /\ IF Refused
     THEN /\ Settle(c, "refused") /\ UNCHANGED channel
          /\ owed' = IF WrittenAnyway THEN owed \cup {channel.sequence + 1} ELSE owed
     ELSE LET id == channel.sequence + 1
          IN /\ call' = [call EXCEPT ![c] = [at |-> "sent", id |-> id, got |-> 0]]
             /\ channel' = [channel EXCEPT !.sequence = id]
             /\ owed' = IF channel.at = "open" THEN owed \cup {id} ELSE owed
\* The programs that drive the worker end with the first call that fails.
DriverGoesOn == Is("warm") => channel.at # "ended" /\ \A c \in Calls : call[c].at \in {"idle", "sent", "done"}
CallOperation(c) ==
  /\ c # LastCall /\ (Is("rpc") \/ Is("warm") => c # FirstCall) /\ DriverGoesOn
  /\ Send(c) /\ UNCHANGED cleanup

\* The waiter of an answer, if there still is one.
\* Mutant of Waiters: whoever waits.
WaitersAny(id) == Pending
Waiters(id) == IF Is("warm") THEN Pending ELSE {c \in Pending : call[c].id = id}
\* An answer of the worker that nobody waits for is a failure.
Unsolicited(id) == Is("warm") /\ Waiters(id) = {}
Result(id) ==
  /\ channel.at # "over" /\ id \in owed /\ owed' = owed \ {id}
  /\ call' = [c \in Calls |-> IF c \in Waiters(id) THEN [call[c] EXCEPT !.at = "done", !.got = id]
                              ELSE call[c]]
  /\ channel' = [channel EXCEPT !.failed = @ \/ Unsolicited(id)] /\ UNCHANGED cleanup
\* An error answers one call; the owner's ends everything, and its watchdog may
\* report one while nobody waits.
ErrorResult(id) ==
  /\ channel.at # "over" /\ ~Is("rpc") /\ ~Is("warm") /\ id \in owed /\ owed' = owed \ {id}
  /\ call' = [c \in Calls |-> IF c \in Waiters(id) THEN [call[c] EXCEPT !.at = "failed"] ELSE call[c]]
  /\ UNCHANGED <<channel, cleanup>>
OwnerError ==
  /\ channel.at # "over" /\ Is("rpc") /\ call' = Rejected /\ owed' = {}
  /\ channel' = [channel EXCEPT !.failed = TRUE, !.at = IF @ = "open" THEN "ended" ELSE @]
  /\ UNCHANGED cleanup
\* What cannot be parsed.
Garbage ==
  /\ channel.at \in {"open", "ended"} /\ ~Is("script") /\ ~Is("warm") /\ UNCHANGED <<owed, cleanup>>
  /\ call' = IF Is("fixture") THEN call ELSE Rejected
  /\ Broken(IF Is("rpc") THEN "ended" ELSE "closing")
\* The worker is killed for what is too long.
WorkerGarbage ==
  /\ Is("warm") /\ channel.at \in {"open", "ended"} /\ call' = Rejected /\ UNCHANGED <<owed, cleanup>>
  /\ Broken(channel.at) \/ Broken("closing")
SendFails(c) == /\ Is("fixture") /\ c \in Pending /\ channel.at # "open" /\ Settle(c, "failed")
                /\ UNCHANGED <<channel, owed, cleanup>>
\* Mutant of Deadline: the timers are gone with the stream.
DeadlineOpen(c) ==
  /\ c \in Pending /\ channel.at = "open" /\ Settle(c, "failed") /\ UNCHANGED <<owed, cleanup>>
  /\ IF Is("rpc") THEN Broken("ended") ELSE UNCHANGED channel
Deadline(c) ==
  /\ c \in Pending /\ Settle(c, "failed") /\ UNCHANGED <<owed, cleanup>>
  /\ IF Is("rpc") THEN Broken("ended") ELSE UNCHANGED channel
\* The program is interrupted while the worker works.
CommandInterrupted(c) == Is("warm") /\ c \in Pending /\ Settle(c, "failed") /\ UNCHANGED <<channel, owed, cleanup>>
\* The ended input is destroyed; the process exits, the socket closes.
Destroyed == /\ channel.at = "ended" /\ channel' = [channel EXCEPT !.at = "closing"]
             /\ UNCHANGED <<call, owed, cleanup>>
LinkEnds ==
  /\ channel.at \notin {"connecting", "over"} /\ owed' = {} /\ UNCHANGED cleanup
  /\ channel' = [channel EXCEPT !.at = "over", !.failed = @ \/ KeepsCause]
  /\ call' = IF Is("script") THEN call ELSE Rejected
CloseChannel ==
  /\ ~Is("rpc") /\ ~Is("warm") /\ channel.at = "open" /\ Broken("closing") /\ UNCHANGED <<owed, cleanup>>
  /\ call' = IF Is("diagnostic") THEN Rejected ELSE call
\* The worker's input is ended, and after thirty seconds it is killed (LinkEnds).
CloseWorker ==
  /\ Is("warm") /\ channel.at = "open" /\ Pending = {}
  /\ channel' = [channel EXCEPT !.at = "ended"] /\ UNCHANGED <<call, owed, cleanup>>
-----------------------------------------------------------------------------
\* RenderPilotCleanup.run: finish, whatever comes of it end the input, and only
\* when the owner is gone close the browser.
CleanUp(to) == cleanup.at = to
Finishes == /\ Is("rpc") /\ CleanUp("none") /\ Send(LastCall) /\ cleanup' = [cleanup EXCEPT !.at = "finish"]
EndsInput ==
  /\ CleanUp("finish") /\ LastCall \notin Pending /\ UNCHANGED <<call, owed>>
  /\ channel' = [channel EXCEPT !.at = IF @ = "open" THEN "ended" ELSE @]
  /\ \E cleaned \in BOOLEAN :
       cleanup' = [cleanup EXCEPT !.at = "exit", !.ok = cleaned /\ call[LastCall].at = "done"]
\* Mutant of OwnerIsGone: the input's end is enough.
OwnerIsGoneSoon == channel.at \in {"ended", "closing", "over"}
OwnerIsGone == channel.at = "over"
ClosesBrowser ==
  /\ CleanUp("exit") /\ OwnerIsGone /\ UNCHANGED <<channel, call, owed>>
  /\ \E code \in {0, 1}, closed \in BOOLEAN :
       cleanup' = [at |-> "done", browser |-> ~closed, ok |-> cleanup.ok /\ code = 0 /\ closed]

ProbeNext ==
  \/ Opens \/ ConnectFails \/ OwnerError \/ Garbage \/ Destroyed \/ LinkEnds \/ CloseChannel \/ CloseWorker \/ WorkerGarbage
  \/ Finishes \/ EndsInput \/ ClosesBrowser
  \/ \E c \in Calls : CallOperation(c) \/ SendFails(c) \/ Deadline(c) \/ CommandInterrupted(c)
  \/ \E id \in owed : Result(id) \/ ErrorResult(id)
ProbeSpec == ProbeInit /\ [][ProbeNext]_probeVars
-----------------------------------------------------------------------------
\* A call gets the answer to itself, however late those of given-up calls
\* come in; who waits when the channel fails is told, and nobody begins to wait
\* once its failure is known (rpc.mjs:64, diagnostic-cdp.mjs:50); the limits hold.
\* The owner is never overtaken: a browser is closed, and a run called clean, only
\* after the owner is gone (cleanup.mjs:7-9).
ProbesAreSound ==
  /\ \A c \in Calls : call[c].at = "done" => call[c].got = call[c].id
  /\ channel.failed => Pending = {}
  /\ channel.at = "over" => Pending = {} \/ Is("script")
  /\ ~Is("script") => Cardinality(Pending) <= Limit[channel.kind]
  /\ ~cleanup.browser => channel.at = "over" /\ LastCall \notin Pending
  /\ cleanup.at = "done" /\ cleanup.ok => call[LastCall].at = "done" /\ ~cleanup.browser
\* Every call ends, whatever the other side does or leaves.
CallsSettle == \A c \in Calls : (c \in Pending) ~> (c \notin Pending)
\* Both together: a call gets its own answer or a failure, and gets one.
ProbesHold == []ProbesAreSound /\ CallsSettle
=============================================================================
