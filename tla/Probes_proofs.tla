---------------------------- MODULE Probes_proofs ----------------------------
(***************************************************************************)
(* The probes that look at the running system from outside, for any number *)
(* of calls, barriers and sessions: the channels they talk over            *)
(* (ProbeChannels), the page's barriers of input (InputBarrier), the       *)
(* programs that qualify a runtime (Qualifications), and the runs of a     *)
(* whole runtime, that leave nothing behind (OwnedRuns).  The parts share  *)
(* nothing; each has an inductive invariant of its own.                    *)
(***************************************************************************)
EXTENDS ProbeChannels, InputBarrier, Qualifications, OwnedRuns, FiniteSetTheorems, SequenceTheorems, TLAPS

\* What a channel, a call and the cleanup are made of.
Kinds == {"rpc", "diagnostic", "fixture", "script", "warm"}
ChannelRecord == [kind : Kinds, at : {"connecting", "open", "ended", "closing", "over"}, failed : BOOLEAN,
                  sequence : Nat]
CallRecord == [at : {"idle", "sent", "done", "failed", "refused"}, id : Nat, got : Nat]
CleanupRecord == [at : {"none", "finish", "exit", "done"}, ok : BOOLEAN, browser : BOOLEAN]
ProbeTyped == /\ channel \in ChannelRecord /\ call \in [Calls -> CallRecord] /\ owed \subseteq Nat
              /\ cleanup \in CleanupRecord
\* Who waits, by the state of the channel: nobody before it is open, after its failure
\* is known, or when it is over.
WaitersFit ==
  /\ \A c \in Calls : call[c].at = "done" => call[c].got = call[c].id
  /\ channel.failed => Pending = {} /\ channel.kind \in {"rpc", "diagnostic", "warm"}
  /\ channel.at = "connecting" => Pending = {}
  /\ channel.at = "over" => Pending = {} \/ Is("script")
  /\ Is("diagnostic") /\ channel.at = "over" => channel.failed
  /\ IsFiniteSet(Pending) /\ (~Is("script") => Cardinality(Pending) <= Limit[channel.kind])
\* The worker has one who waits at most, and owes an answer to nobody else; it owes none
\* when nobody waits, as long as its driver goes on.
WorkerFits ==
  Is("warm") =>
    /\ \A c, d \in Pending : c = d
    /\ \A id \in owed, c \in Pending : call[c].id = id
    /\ Pending = {} /\ ~channel.failed /\ (\A c \in Calls : call[c].at \in {"idle", "sent", "done"}) => owed = {}
\* The browser is closed behind an owner that is gone.
BehindOwner ==
  /\ cleanup.at # "none" => Is("rpc")
  /\ ~cleanup.browser => channel.at = "over" /\ cleanup.at # "none"
  /\ cleanup.at \in {"exit", "done"} /\ cleanup.ok => call[LastCall].at = "done"
  /\ cleanup.at = "done" /\ cleanup.ok => ~cleanup.browser
  /\ cleanup.at = "done" => channel.at = "over"
ProbeInv == ProbeTyped /\ WaitersFit /\ WorkerFits /\ BehindOwner

\* A pilot's channel starts with the greeting it waits for, if any.
LEMMA ProbeStart == ProbeInit => ProbeInv
<1> SUFFICES ASSUME ProbeInit PROVE ProbeInv OBVIOUS
<1>1. PICK kind \in Kinds :
        /\ channel = [kind |-> kind, at |-> IF kind \in Greets THEN "open" ELSE "connecting",
                      failed |-> FALSE, sequence |-> 0]
        /\ call = [c \in Calls |-> [at |-> IF kind \in Greets /\ c = FirstCall THEN "sent" ELSE "idle",
                                    id |-> 0, got |-> 0]]
        /\ owed = IF kind \in Greets THEN {0} ELSE {}
        /\ cleanup = [at |-> "none", ok |-> TRUE, browser |-> TRUE]
  BY DEF ProbeInit, Kinds
<1>2. channel.kind = kind /\ ~channel.failed /\ channel.at = (IF kind \in Greets THEN "open" ELSE "connecting")
  BY <1>1
<1>3. ProbeTyped
  <2>1. channel \in ChannelRecord BY <1>1 DEF ChannelRecord
  <2>2. call \in [Calls -> CallRecord] BY <1>1 DEF CallRecord
  <2>. QED BY <1>1, <2>1, <2>2 DEF ProbeTyped, CleanupRecord
<1>4. Pending = IF kind \in Greets THEN {FirstCall} ELSE {} BY <1>1, ProbeAssumption DEF Pending
<1>5. WaitersFit
  <2>1. \A c \in Calls : call[c].at # "done" BY <1>1
  <2>2. IsFiniteSet(Pending) /\ Cardinality(Pending) = IF kind \in Greets THEN 1 ELSE 0
    BY <1>4, FS_EmptySet, FS_Singleton
  <2>3. kind \in {"rpc", "diagnostic", "fixture", "warm"} => Limit[kind] \in Nat \ {0} BY ProbeAssumption
  <2>. QED BY <1>2, <1>4, <2>1, <2>2, <2>3 DEF WaitersFit, Kinds, Is, Greets
<1>6. WorkerFits
  <2>1. \A c \in Calls : call[c].id = 0 BY <1>1
  <2>. QED BY <1>1, <1>2, <1>4, <2>1 DEF WorkerFits, Is, Greets, Pending
<1>7. BehindOwner BY <1>1 DEF BehindOwner
<1>. QED BY <1>3, <1>5, <1>6, <1>7 DEF ProbeInv

\* A step after which some who waited have their answer or a failure: nobody new waits.
LEMMA Settles ==
  ASSUME ProbeInv, channel' \in ChannelRecord, owed' \subseteq Nat, cleanup' = cleanup,
         call' \in [Calls -> CallRecord],
         \A c \in Calls : \/ call'[c] = call[c]
                          \/ /\ c \in Pending /\ call'[c].at \in {"failed", "done"}
                             /\ call'[c].at = "done" => call'[c].got = call'[c].id,
         channel'.kind = channel.kind, channel'.at = "connecting" => channel.at = "connecting",
         channel.at = "over" => channel'.at = "over",
         channel'.failed => Pending' = {} /\ channel.kind \in {"rpc", "diagnostic", "warm"},
         channel'.at = "over" => Pending' = {} \/ Is("script"),
         Is("diagnostic") /\ channel'.at = "over" => channel'.failed, WorkerFits'
  PROVE  ProbeInv'
<1>0. ProbeTyped /\ WaitersFit /\ BehindOwner BY DEF ProbeInv
<1>1. ProbeTyped' BY <1>0 DEF ProbeTyped
<1>2. Pending' \subseteq Pending BY DEF Pending
<1>3. IsFiniteSet(Pending') /\ Cardinality(Pending') <= Cardinality(Pending)
      /\ Cardinality(Pending') \in Nat /\ Cardinality(Pending) \in Nat
  BY <1>0, <1>2, FS_Subset, FS_CardinalityType DEF WaitersFit
<1>4. \A k : Is(k)' <=> Is(k) BY DEF Is
<1>5. ~Is("script") => Limit[channel.kind] \in Nat
  BY <1>0, ProbeAssumption DEF ProbeTyped, ChannelRecord, Kinds, Is
<1>6. WaitersFit'
  <2>1. \A c \in Calls : call'[c].at = "done" => call'[c].got = call'[c].id BY <1>0 DEF WaitersFit
  <2>2. ~Is("script") => Cardinality(Pending') <= Limit[channel.kind] BY <1>0, <1>3, <1>5 DEF WaitersFit
  <2>. QED BY <1>0, <1>2, <1>3, <1>4, <2>1, <2>2 DEF WaitersFit
<1>7. BehindOwner'
  <2>1. LastCall \in Calls BY ProbeAssumption
  <2>2. call[LastCall].at = "done" => call'[LastCall].at = "done" BY <2>1 DEF Pending
  <2>. QED BY <1>0, <1>4, <2>2 DEF BehindOwner
<1>. QED BY <1>1, <1>6, <1>7 DEF ProbeInv

\* A call is sent, or refused.
LEMMA CallSendKeeps ==
  ASSUME ProbeInv, NEW c \in Calls, Send(c),
         \/ cleanup' = cleanup /\ DriverGoesOn
         \/ Is("rpc") /\ cleanup.at = "none" /\ cleanup' = [cleanup EXCEPT !.at = "finish"]
  PROVE  ProbeInv'
<1>0. ProbeTyped /\ WaitersFit /\ WorkerFits /\ BehindOwner BY DEF ProbeInv
<1>. PICK n \in Nat : n = channel.sequence + 1 BY <1>0 DEF ProbeTyped, ChannelRecord
<1>1. call[c].at = "idle" /\ channel.at # "connecting" BY DEF Send
<1>. PICK q \in CallRecord :
       IF Refused THEN q.at = "refused" /\ call' = [call EXCEPT ![c] = q]
       ELSE q = [at |-> "sent", id |-> n, got |-> 0] /\ call' = [call EXCEPT ![c] = q]
  <2>1. CASE Refused
    <3>. PICK q : q = [call[c] EXCEPT !.at = "refused"] OBVIOUS
    <3>1. q \in CallRecord /\ q.at = "refused" BY <1>0 DEF ProbeTyped, CallRecord
    <3>2. call' = [call EXCEPT ![c] = q] BY <1>0, <2>1 DEF Send, Settle, ProbeTyped
    <3>. QED BY <2>1, <3>1, <3>2
  <2>2. CASE ~Refused
    <3>. PICK q : q = [at |-> "sent", id |-> n, got |-> 0] OBVIOUS
    <3>1. q \in CallRecord BY DEF CallRecord
    <3>2. call' = [call EXCEPT ![c] = q] BY <2>2 DEF Send
    <3>. QED BY <2>2, <3>1, <3>2
  <2>. QED BY <2>1, <2>2
<1>2. call' \in [Calls -> CallRecord] /\ \A d \in Calls : call'[d] = IF d = c THEN q ELSE call[d]
  BY <1>0 DEF ProbeTyped
<1>3. cleanup' \in CleanupRecord /\ cleanup'.browser = cleanup.browser
      /\ (cleanup'.at = cleanup.at \/ (Is("rpc") /\ cleanup'.at = "finish")) /\ (cleanup' = cleanup \/ Is("rpc"))
      /\ cleanup'.ok = cleanup.ok
  BY <1>0 DEF ProbeTyped, CleanupRecord
<1>4. CASE Refused
  <2>1. channel' = channel /\ q.at = "refused" BY <1>4 DEF Send
  <2>2. owed' = owed \/ owed' = owed \cup {n} BY <1>4 DEF Send
  <2>3. Pending' = Pending BY <1>1, <1>2, <2>1 DEF Pending
  <2>4. ProbeTyped' BY <1>0, <1>2, <1>3, <2>1, <2>2 DEF ProbeTyped
  <2>5. WaitersFit' BY <1>0, <1>2, <2>1, <2>3 DEF WaitersFit, Is
  <2>6. WorkerFits'
    <3>1. \A d \in Pending : d # c BY <1>1 DEF Pending
    <3>2. Pending # {} => owed' = owed BY <1>4, <2>2 DEF Send, WrittenAnyway
    <3>3. \A d \in Pending : call'[d] = call[d] BY <1>2, <3>1 DEF Pending
    <3>. QED BY <1>0, <1>2, <2>1, <2>3, <3>2, <3>3 DEF WorkerFits, Is
  <2>7. BehindOwner' BY <1>0, <1>1, <1>2, <1>3, <2>1, ProbeAssumption DEF BehindOwner, Is
  <2>. QED BY <2>4, <2>5, <2>6, <2>7 DEF ProbeInv
<1>5. CASE ~Refused
  <2>1. channel' = [channel EXCEPT !.sequence = n] /\ q = [at |-> "sent", id |-> n, got |-> 0] BY <1>5 DEF Send
  <2>2. owed' = owed \/ owed' = owed \cup {n} BY <1>5 DEF Send
  <2>3. /\ channel' \in ChannelRecord /\ channel'.kind = channel.kind /\ channel'.at = channel.at
        /\ channel'.failed = channel.failed
    BY <1>0, <2>1 DEF ProbeTyped, ChannelRecord
  <2>4. Pending' = Pending \cup {c} /\ c \notin Pending BY <1>1, <1>2, <2>1 DEF Pending
  <2>5. /\ ~channel.failed /\ (channel.at # "over")
        /\ ~Is("script") => Cardinality(Pending) + 1 <= Limit[channel.kind]
    <3>0. /\ channel.kind \in Kinds /\ channel.failed \in BOOLEAN /\ Cardinality(Pending) \in Nat
          /\ \A k \in {"rpc", "diagnostic", "fixture", "warm"} : Limit[k] \in Nat \ {0}
      BY <1>0, ProbeAssumption, FS_CardinalityType DEF ProbeTyped, ChannelRecord, WaitersFit
    <3>1. CASE Is("rpc")
      <4>1. ~channel.failed /\ channel.at # "over" /\ Pending = {} BY <1>5, <3>1 DEF Refused, Is
      <4>2. Cardinality(Pending) = 0 BY <4>1, FS_EmptySet
      <4>. QED BY <3>0, <3>1, <4>1, <4>2 DEF Is
    <3>2. CASE Is("diagnostic") BY <1>0, <1>5, <3>0, <3>2 DEF Refused, Is, WaitersFit
    <3>3. CASE Is("fixture") BY <1>0, <1>5, <3>0, <3>3 DEF Refused, Is, WaitersFit
    <3>4. CASE Is("script") BY <1>0, <1>5, <3>0, <3>4 DEF Refused, Is, WaitersFit
    <3>5. CASE Is("warm")
      <4>1. ~channel.failed /\ channel.at # "over" /\ Pending = {} BY <1>5, <3>5 DEF Refused, WorkerRefuses, Is
      <4>2. Cardinality(Pending) = 0 BY <4>1, FS_EmptySet
      <4>. QED BY <3>0, <3>5, <4>1, <4>2 DEF Is
    <3>. QED BY <3>0, <3>1, <3>2, <3>3, <3>4, <3>5 DEF Is, Kinds
  <2>6. ProbeTyped' BY <1>0, <1>2, <1>3, <2>2, <2>3 DEF ProbeTyped
  <2>7. WaitersFit'
    <3>1. IsFiniteSet(Pending') /\ Cardinality(Pending') = Cardinality(Pending) + 1
      BY <1>0, <2>4, FS_AddElement DEF WaitersFit
    <3>2. \A d \in Calls : call'[d].at = "done" => call'[d].got = call'[d].id BY <1>0, <1>2, <2>1 DEF WaitersFit
    <3>. QED BY <1>1, <2>3, <2>5, <3>1, <3>2 DEF WaitersFit, Is
  <2>8. WorkerFits'
    <3>1. SUFFICES ASSUME Is("warm") PROVE WorkerFits' BY <2>3 DEF WorkerFits, Is
    <3>2. Pending = {} BY <1>5, <3>1 DEF Refused, WorkerRefuses, Is
    <3>3. \A d \in Calls : call[d].at \in {"idle", "sent", "done"} BY <3>1 DEF DriverGoesOn, Is
    <3>4. owed = {} BY <1>0, <2>5, <3>1, <3>2, <3>3 DEF WorkerFits
    <3>5. \A id \in owed' : id = n BY <2>2, <3>4
    <3>6. Pending' = {c} /\ call'[c].id = n BY <1>2, <2>1, <2>4, <3>2
    <3>. QED BY <3>5, <3>6 DEF WorkerFits
  <2>9. BehindOwner'
    <3>1. call[LastCall].at = "done" => call'[LastCall].at = "done" BY <1>1, <1>2, ProbeAssumption
    <3>. QED BY <1>0, <1>3, <2>3, <3>1 DEF BehindOwner, Is
  <2>. QED BY <2>6, <2>7, <2>8, <2>9 DEF ProbeInv
<1>. QED BY <1>4, <1>5

\* Those who wait are told: a failure for each.
LEMMA RejectedAll ==
  ASSUME ProbeTyped
  PROVE  /\ Rejected \in [Calls -> CallRecord]
         /\ \A c \in Calls : Rejected[c] = call[c] \/ (c \in Pending /\ Rejected[c].at = "failed")
         /\ \A c \in Calls : Rejected[c].at # "sent"
<1>1. \A c \in Calls : [call[c] EXCEPT !.at = "failed"] \in CallRecord BY DEF ProbeTyped, CallRecord
<1>2. \A c \in Calls : [call[c] EXCEPT !.at = "failed"].at = "failed" BY DEF ProbeTyped, CallRecord
<1>3. \A c \in Calls : call[c] \in CallRecord /\ (c \in Pending <=> call[c].at = "sent")
  BY DEF ProbeTyped, Pending
<1>. QED BY <1>1, <1>2, <1>3 DEF Rejected

\* The channel is of no more use.
LEMMA BrokenIs ==
  ASSUME ProbeTyped, NEW at \in {"ended", "closing", channel.at}, Broken(at)
  PROVE  /\ channel' \in ChannelRecord /\ channel'.kind = channel.kind
         /\ channel'.failed = (channel.failed \/ KeepsCause)
         /\ channel'.at = IF channel.at \in {"closing", "over"} THEN channel.at ELSE at
<1>. PICK failed \in BOOLEAN : failed = (channel.failed \/ KeepsCause)
  BY DEF ProbeTyped, ChannelRecord, KeepsCause, Is
<1>. PICK next \in {"connecting", "open", "ended", "closing", "over"} :
       next = IF channel.at \in {"closing", "over"} THEN channel.at ELSE at
  BY DEF ProbeTyped, ChannelRecord
<1>1. channel' = [channel EXCEPT !.failed = failed, !.at = next] BY DEF Broken, ProbeTyped, ChannelRecord
<1>. QED BY <1>1 DEF ProbeTyped, ChannelRecord

\* A worker that owes no more than before, to those who still wait.
LEMMA WorkerKept ==
  ASSUME WorkerFits, channel'.kind = channel.kind, owed' \subseteq owed,
         \A c \in Calls : call'[c].at = "sent" => call'[c] = call[c],
         ~Is("warm") \/ channel'.failed \/ owed' = {} \/ (channel'.failed = channel.failed /\ call' = call /\ owed' = owed)
           \/ \E c \in Calls : call'[c].at = "failed"
  PROVE  WorkerFits'
<1>1. Pending' \subseteq Pending /\ \A c \in Pending' : call'[c] = call[c] BY DEF Pending
<1>2. call' = call => Pending' = Pending BY DEF Pending
<1>. QED BY <1>1, <1>2 DEF WorkerFits, Is

\* The channel opens, closes or breaks.
LEMMA ChannelKeeps ==
  ASSUME ProbeInv,
         Opens \/ ConnectFails \/ Garbage \/ WorkerGarbage \/ Destroyed \/ LinkEnds \/ CloseChannel \/ CloseWorker
           \/ OwnerError
  PROVE  ProbeInv'
<1>0. ProbeTyped /\ WaitersFit /\ WorkerFits /\ BehindOwner BY DEF ProbeInv
<1>. DEFINE Ats == {"connecting", "open", "ended", "closing", "over"}
<1>1. ASSUME NEW at \in Ats, channel' = [channel EXCEPT !.at = at], channel.at # "over",
             at \notin {"connecting", "over"}, UNCHANGED <<call, owed, cleanup>>
      PROVE  ProbeInv'
  <2>1. channel' \in ChannelRecord /\ channel'.kind = channel.kind /\ channel'.at = at
        /\ channel'.failed = channel.failed
    BY <1>0, <1>1 DEF ProbeTyped, ChannelRecord
  <2>2. Pending' = Pending BY <1>1 DEF Pending
  <2>3. WorkerFits' BY <1>0, <1>1, <2>1, WorkerKept
  <2>. QED BY <1>0, <1>1, <2>1, <2>2, <2>3, Settles DEF ProbeTyped, WaitersFit
<1>2. CASE Opens BY <1>1, <1>2 DEF Opens
<1>3. CASE Destroyed BY <1>1, <1>3 DEF Destroyed
<1>4. CASE CloseWorker BY <1>1, <1>4 DEF CloseWorker
<1>5. ASSUME NEW at \in {"ended", "closing", channel.at}, Broken(at), channel.at # "over", cleanup' = cleanup,
             owed' = owed, at = "connecting" => channel.at = "connecting",
             call' = Rejected \/ (call' = call /\ (~KeepsCause \/ Pending = {}))
      PROVE  ProbeInv'
  <2>1. /\ channel' \in ChannelRecord /\ channel'.kind = channel.kind
        /\ channel'.failed = (channel.failed \/ KeepsCause)
        /\ channel'.at = IF channel.at \in {"closing", "over"} THEN channel.at ELSE at
    BY <1>0, <1>5, BrokenIs
  <2>2. call' \in [Calls -> CallRecord] /\ \A c \in Calls : call'[c] = call[c] \/ (c \in Pending /\ call'[c].at = "failed")
    BY <1>0, <1>5, RejectedAll DEF ProbeTyped
  <2>3. channel'.failed => Pending' = {}
    <3>1. CASE call' = Rejected BY <1>0, <3>1, RejectedAll DEF Pending
    <3>2. CASE call' = call /\ (~KeepsCause \/ Pending = {}) BY <1>0, <2>1, <3>2 DEF Pending, WaitersFit
    <3>. QED BY <1>5, <3>1, <3>2
  <2>4. KeepsCause => channel.kind \in {"rpc", "diagnostic", "warm"} BY DEF KeepsCause, Is
  <2>5. WorkerFits'
    <3>1. Is("warm") => channel'.failed BY <2>1 DEF KeepsCause
    <3>. QED BY <1>0, <1>5, <2>1, <2>2, <3>1, WorkerKept DEF Pending
  <2>6. channel'.at # "over" BY <1>5, <2>1
  <2>7. channel'.failed => channel.kind \in {"rpc", "diagnostic", "warm"} BY <1>0, <2>1, <2>4 DEF WaitersFit
  <2>8. channel'.at = "connecting" => channel.at = "connecting" BY <1>5, <2>1
  <2>9. owed' \subseteq Nat BY <1>0, <1>5 DEF ProbeTyped
  <2>. QED BY <1>5, <2>1, <2>2, <2>3, <2>5, <2>6, <2>7, <2>8, <2>9, Settles
<1>6. CASE ConnectFails
  <2>1. Pending = {} BY <1>0, <1>6 DEF ConnectFails, WaitersFit
  <2>. QED BY <1>5, <1>6, <2>1 DEF ConnectFails
<1>7. CASE Garbage
  <2>1. channel.at \in {"open", "ended"} /\ UNCHANGED <<owed, cleanup>> /\ (Is("fixture") => ~KeepsCause)
    BY <1>7 DEF Garbage, KeepsCause, Is
  <2>2. Broken("ended") \/ Broken("closing") BY <1>7 DEF Garbage
  <2>3. call' = Rejected \/ (call' = call /\ ~KeepsCause) BY <1>7, <2>1 DEF Garbage
  <2>. QED BY <1>5, <2>1, <2>2, <2>3
<1>8. CASE WorkerGarbage BY <1>5, <1>8 DEF WorkerGarbage
<1>9. CASE CloseChannel
  <2>1. Is("diagnostic") \/ ~KeepsCause BY <1>9 DEF CloseChannel, KeepsCause
  <2>. QED BY <1>5, <1>9, <2>1 DEF CloseChannel
<1>10. ASSUME NEW at \in Ats, NEW failed \in BOOLEAN, channel' = [channel EXCEPT !.at = at, !.failed = failed],
              owed' = {}, cleanup' = cleanup, call' = Rejected \/ (call' = call /\ Is("script")),
              at = "connecting" => channel.at = "connecting", channel.at = "over" => at = "over",
              failed => channel.kind \in {"rpc", "diagnostic", "warm"},
              Is("diagnostic") /\ at = "over" => failed
       PROVE  ProbeInv'
  <2>1. /\ channel' \in ChannelRecord /\ channel'.kind = channel.kind
        /\ channel'.failed = failed /\ channel'.at = at
    BY <1>0, <1>10 DEF ProbeTyped, ChannelRecord
  <2>2. call' \in [Calls -> CallRecord] /\ \A c \in Calls : call'[c] = call[c] \/ (c \in Pending /\ call'[c].at = "failed")
    BY <1>0, <1>10, RejectedAll DEF ProbeTyped
  <2>3. Pending' = {} \/ Is("script") BY <1>0, <1>10, RejectedAll DEF Pending
  <2>4. failed => Pending' = {} BY <1>10, <2>3 DEF Is
  <2>5. WorkerFits' BY <1>0, <1>10, <2>1, <2>2, WorkerKept DEF Pending
  <2>. QED BY <1>10, <2>1, <2>2, <2>3, <2>4, <2>5, Settles
<1>11. CASE LinkEnds
  <2>. PICK failed \in BOOLEAN : failed = (channel.failed \/ KeepsCause)
    BY <1>0 DEF ProbeTyped, ChannelRecord, KeepsCause, Is
  <2>1. channel' = [channel EXCEPT !.at = "over", !.failed = failed]
    BY <1>0, <1>11 DEF LinkEnds, ProbeTyped, ChannelRecord
  <2>2. failed => channel.kind \in {"rpc", "diagnostic", "warm"} BY <1>0 DEF WaitersFit, KeepsCause, Is
  <2>3. Is("diagnostic") => failed BY DEF KeepsCause
  <2>. QED BY <1>10, <1>11, <2>1, <2>2, <2>3 DEF LinkEnds
<1>12. CASE OwnerError
  <2>. PICK at \in Ats : at = IF channel.at = "open" THEN "ended" ELSE channel.at
    BY <1>0 DEF ProbeTyped, ChannelRecord
  <2>1. channel' = [channel EXCEPT !.at = at, !.failed = TRUE]
    BY <1>0, <1>12 DEF OwnerError, ProbeTyped, ChannelRecord
  <2>2. channel.kind = "rpc" BY <1>12 DEF OwnerError, Is
  <2>. QED BY <1>10, <1>12, <2>1, <2>2 DEF OwnerError, Is
<1>. QED BY <1>2, <1>3, <1>4, <1>6, <1>7, <1>8, <1>9, <1>11, <1>12

\* One call has its answer, or gives up.
LEMMA AnswersKeep ==
  ASSUME ProbeInv,
         \/ \E c \in Calls : SendFails(c) \/ Deadline(c) \/ CommandInterrupted(c)
         \/ \E id \in owed : Result(id) \/ ErrorResult(id)
  PROVE  ProbeInv'
<1>0. ProbeTyped /\ WaitersFit /\ WorkerFits /\ BehindOwner BY DEF ProbeInv
<1>1. ASSUME NEW c \in Calls, c \in Pending, Settle(c, "failed"), UNCHANGED <<owed, cleanup>>,
             channel' = channel \/ (Is("rpc") /\ Broken("ended"))
      PROVE  ProbeInv'
  <2>. PICK q : q = [call[c] EXCEPT !.at = "failed"] OBVIOUS
  <2>1. q \in CallRecord /\ q.at = "failed" BY <1>0 DEF ProbeTyped, CallRecord
  <2>2. call' = [call EXCEPT ![c] = q] BY <1>0, <1>1 DEF Settle, ProbeTyped
  <2>3. call' \in [Calls -> CallRecord] /\ \A d \in Calls : call'[d] = IF d = c THEN q ELSE call[d]
    BY <1>0, <2>1, <2>2 DEF ProbeTyped
  <2>4. /\ channel' \in ChannelRecord /\ channel'.kind = channel.kind /\ channel'.failed = channel.failed
        /\ channel'.at = channel.at \/ (channel'.at = "ended" /\ channel.at # "over")
    <3>1. CASE Is("rpc") /\ Broken("ended")
      <4>1. ~KeepsCause BY <3>1 DEF KeepsCause, Is
      <4>2. channel.failed \in BOOLEAN BY <1>0 DEF ProbeTyped, ChannelRecord
      <4>. QED BY <1>0, <3>1, <4>1, <4>2, BrokenIs
    <3>. QED BY <1>0, <1>1, <3>1 DEF ProbeTyped
  <2>5. channel'.failed => Pending' = {} BY <1>0, <1>1, <2>4 DEF WaitersFit
  <2>6. channel'.at = "over" => Pending' = {} \/ Is("script") BY <1>0, <1>1, <2>4 DEF WaitersFit
  <2>7. WorkerFits' BY <1>0, <1>1, <2>1, <2>3, <2>4, WorkerKept
  <2>8. Is("diagnostic") /\ channel'.at = "over" => channel'.failed BY <1>0, <2>4 DEF WaitersFit
  <2>9. channel'.failed => channel.kind \in {"rpc", "diagnostic", "warm"} BY <1>0, <2>4 DEF WaitersFit
  <2>10. owed' \subseteq Nat /\ cleanup' = cleanup BY <1>0, <1>1 DEF ProbeTyped
  <2>. QED BY <1>1, <2>1, <2>3, <2>4, <2>5, <2>6, <2>7, <2>8, <2>9, <2>10, Settles
<1>2. ASSUME NEW c \in Calls, SendFails(c) \/ Deadline(c) \/ CommandInterrupted(c) PROVE ProbeInv'
  BY <1>1, <1>2 DEF SendFails, Deadline, CommandInterrupted
<1>3. ASSUME NEW id \in owed, Result(id) PROVE ProbeInv'
  <2>1. Waiters(id) \subseteq Pending BY DEF Waiters
  <2>2. id \in Nat BY <1>0 DEF ProbeTyped
  <2>3. /\ call' \in [Calls -> CallRecord]
        /\ \A c \in Calls : IF c \in Waiters(id)
                            THEN call'[c].at = "done" /\ call'[c].got = id /\ call'[c].id = call[c].id
                            ELSE call'[c] = call[c]
    <3>1. \A c \in Calls : LET q == [call[c] EXCEPT !.at = "done", !.got = id]
                           IN q \in CallRecord /\ q.at = "done" /\ q.got = id /\ q.id = call[c].id
      BY <1>0, <2>2 DEF ProbeTyped, CallRecord
    <3>. QED BY <1>0, <1>3, <3>1 DEF Result, ProbeTyped
  <2>. PICK failed \in BOOLEAN : failed = (channel.failed \/ Unsolicited(id))
    BY <1>0 DEF ProbeTyped, ChannelRecord, Unsolicited, Is
  <2>4. channel' = [channel EXCEPT !.failed = failed] /\ channel.at # "over" BY <1>0, <1>3 DEF Result, ProbeTyped, ChannelRecord
  <2>5. channel' \in ChannelRecord /\ channel'.kind = channel.kind /\ channel'.failed = failed /\ channel'.at = channel.at
    BY <1>0, <2>4 DEF ProbeTyped, ChannelRecord
  <2>6. Pending' \subseteq Pending BY <2>3 DEF Pending
  <2>7. failed => Pending' = {} /\ channel.kind \in {"rpc", "diagnostic", "warm"}
    BY <1>0, <2>6 DEF WaitersFit, Unsolicited, Waiters, Is
  <2>8. \A c \in Waiters(id) : call[c].id = id BY <1>0, <1>3 DEF Waiters, WorkerFits
  <2>9. WorkerFits'
    <3>1. CASE Pending = {} \/ ~Is("warm")
      <4>1. ~Is("warm") \/ channel'.failed BY <2>5, <3>1 DEF Unsolicited, Waiters
      <4>2. owed' \subseteq owed BY <1>3 DEF Result
      <4>3. \A c \in Calls : call'[c].at = "sent" => call'[c] = call[c] BY <2>3
      <4>. QED BY <1>0, <2>5, <4>1, <4>2, <4>3, WorkerKept
    <3>2. CASE Pending # {} /\ Is("warm")
      <4>1. \A i \in owed : i = id BY <1>0, <3>2 DEF WorkerFits
      <4>2. owed' = {} BY <1>3, <4>1 DEF Result
      <4>3. \A c \in Calls : call'[c].at = "sent" => call'[c] = call[c] BY <2>3
      <4>. QED BY <1>0, <2>5, <4>2, <4>3, WorkerKept
    <3>. QED BY <3>1, <3>2
  <2>10. owed' \subseteq Nat /\ cleanup' = cleanup BY <1>0, <1>3 DEF Result, ProbeTyped
  <2>11. Is("diagnostic") /\ channel'.at = "over" => channel'.failed BY <2>4, <2>5
  <2>. QED BY <2>1, <2>3, <2>4, <2>5, <2>7, <2>8, <2>9, <2>10, <2>11, Settles
<1>4. ASSUME NEW id \in owed, ErrorResult(id) PROVE ProbeInv'
  <2>1. Waiters(id) \subseteq Pending /\ ~Is("warm") BY <1>4 DEF Waiters, ErrorResult
  <2>2. /\ call' \in [Calls -> CallRecord]
        /\ \A c \in Calls : IF c \in Waiters(id) THEN call'[c].at = "failed" ELSE call'[c] = call[c]
    <3>1. \A c \in Calls : LET q == [call[c] EXCEPT !.at = "failed"] IN q \in CallRecord /\ q.at = "failed"
      BY <1>0 DEF ProbeTyped, CallRecord
    <3>. QED BY <1>0, <1>4, <3>1 DEF ErrorResult, ProbeTyped
  <2>3. /\ channel' = channel /\ cleanup' = cleanup /\ owed' \subseteq Nat /\ channel' \in ChannelRecord
        /\ channel.at # "over"
    BY <1>0, <1>4 DEF ErrorResult, ProbeTyped
  <2>4. WorkerFits' BY <2>1, <2>3 DEF WorkerFits, Is
  <2>5. Pending' \subseteq Pending BY <2>1, <2>2 DEF Pending
  <2>6. channel.failed => Pending' = {} /\ channel.kind \in {"rpc", "diagnostic", "warm"} BY <1>0, <2>5 DEF WaitersFit
  <2>. QED BY <2>1, <2>2, <2>3, <2>4, <2>6, Settles
<1>. QED BY <1>2, <1>3, <1>4

\* The cleanup asks the owner to finish, ends its input and waits for its end.
LEMMA CleanupKeeps == ASSUME ProbeInv, EndsInput \/ ClosesBrowser PROVE ProbeInv'
<1>0. ProbeTyped /\ WaitersFit /\ WorkerFits /\ BehindOwner BY DEF ProbeInv
<1>1. call' = call /\ owed' = owed BY DEF EndsInput, ClosesBrowser
<1>2. Pending' = Pending BY <1>1 DEF Pending
<1>3. CASE EndsInput
  <2>. PICK ok \in BOOLEAN : cleanup' = [cleanup EXCEPT !.at = "exit", !.ok = ok] /\ (ok => call[LastCall].at = "done")
    <3>1. PICK cleaned \in BOOLEAN :
            cleanup' = [cleanup EXCEPT !.at = "exit", !.ok = cleaned /\ call[LastCall].at = "done"]
      BY <1>3 DEF EndsInput
    <3>. PICK ok \in BOOLEAN : ok = (cleaned /\ call[LastCall].at = "done") OBVIOUS
    <3>. QED BY <3>1
  <2>. PICK at \in {"connecting", "open", "ended", "closing", "over"} :
         at = IF channel.at = "open" THEN "ended" ELSE channel.at
    BY <1>0 DEF ProbeTyped, ChannelRecord
  <2>1. channel' = [channel EXCEPT !.at = at] BY <1>0, <1>3 DEF EndsInput, ProbeTyped, ChannelRecord
  <2>2. /\ channel' \in ChannelRecord /\ channel'.kind = channel.kind /\ channel'.failed = channel.failed
        /\ channel'.at = at
    BY <1>0, <2>1 DEF ProbeTyped, ChannelRecord
  <2>3. cleanup' \in CleanupRecord /\ cleanup'.at = "exit" /\ cleanup'.ok = ok /\ cleanup'.browser = cleanup.browser
    BY <1>0 DEF ProbeTyped, CleanupRecord
  <2>4. ProbeTyped' BY <1>0, <1>1, <2>2, <2>3 DEF ProbeTyped
  <2>5. WaitersFit' BY <1>0, <1>1, <1>2, <2>2 DEF WaitersFit, Is
  <2>6. WorkerFits' BY <1>0, <1>1, <1>2, <2>2 DEF WorkerFits, Is
  <2>7. cleanup.at = "finish" BY <1>3 DEF EndsInput, CleanUp
  <2>8. BehindOwner' BY <1>0, <1>1, <2>2, <2>3, <2>7 DEF BehindOwner, Is
  <2>. QED BY <2>4, <2>5, <2>6, <2>8 DEF ProbeInv
<1>4. CASE ClosesBrowser
  <2>1. channel' = channel /\ channel.at = "over" /\ cleanup.at = "exit" BY <1>4 DEF ClosesBrowser, CleanUp, OwnerIsGone
  <2>2. PICK code \in {0, 1}, closed \in BOOLEAN :
          cleanup' = [at |-> "done", browser |-> ~closed, ok |-> cleanup.ok /\ code = 0 /\ closed]
    BY <1>4 DEF ClosesBrowser
  <2>3. /\ cleanup' \in CleanupRecord /\ cleanup'.at = "done"
        /\ cleanup'.ok => cleanup.ok /\ ~cleanup'.browser
    BY <1>0, <2>2 DEF ProbeTyped, CleanupRecord
  <2>4. ProbeTyped' BY <1>0, <1>1, <2>1, <2>3 DEF ProbeTyped
  <2>5. WaitersFit' BY <1>0, <1>1, <1>2, <2>1 DEF WaitersFit, Is
  <2>6. WorkerFits' BY <1>0, <1>1, <1>2, <2>1 DEF WorkerFits, Is
  <2>7. BehindOwner' BY <1>0, <1>1, <2>1, <2>3 DEF BehindOwner, Is
  <2>. QED BY <2>4, <2>5, <2>6, <2>7 DEF ProbeInv
<1>. QED BY <1>3, <1>4

\* On every channel of the probes, for any number of calls and any limits: a call gets
\* its own answer or a failure, nobody waits on a channel that is known to have failed, and
\* the browser is closed only behind its owner (rpc.mjs:64, diagnostic-cdp.mjs:50,
\* cleanup.mjs:7-9).
THEOREM SoundProbes == ProbeSpec => []ProbesAreSound
<1>1. ASSUME ProbeInv, [ProbeNext]_probeVars PROVE ProbeInv'
  <2>1. CASE UNCHANGED probeVars
    BY <1>1, <2>1 DEF probeVars, ProbeInv, ProbeTyped, WaitersFit, WorkerFits, BehindOwner, Pending, Is
  <2>2. ASSUME NEW c \in Calls, CallOperation(c) PROVE ProbeInv'
    BY <1>1, <2>2, CallSendKeeps DEF CallOperation
  <2>3. CASE Finishes BY <1>1, <2>3, CallSendKeeps, ProbeAssumption DEF Finishes, CleanUp
  <2>4. CASE EndsInput \/ ClosesBrowser BY <1>1, <2>4, CleanupKeeps
  <2>5. CASE Opens \/ ConnectFails \/ Garbage \/ WorkerGarbage \/ Destroyed \/ LinkEnds \/ CloseChannel \/ CloseWorker
             \/ OwnerError
    BY <1>1, <2>5, ChannelKeeps
  <2>6. CASE \/ \E c \in Calls : SendFails(c) \/ Deadline(c) \/ CommandInterrupted(c)
             \/ \E id \in owed : Result(id) \/ ErrorResult(id)
    BY <1>1, <2>6, AnswersKeep
  <2>. QED BY <1>1, <2>1, <2>2, <2>3, <2>4, <2>5, <2>6 DEF ProbeNext
<1>2. ASSUME ProbeInv PROVE ProbesAreSound
  <2>0. ProbeTyped /\ WaitersFit /\ BehindOwner BY <1>2 DEF ProbeInv
  <2>1. ~cleanup.browser => LastCall \notin Pending
    <3>1. ~cleanup.browser => channel.at = "over" /\ cleanup.at # "none" BY <2>0 DEF BehindOwner
    <3>. QED BY <2>0, <3>1 DEF BehindOwner, WaitersFit, Is
  <2>. QED BY <2>0, <2>1 DEF WaitersFit, BehindOwner, ProbesAreSound
<1>. QED BY ProbeStart, <1>1, <1>2, PTL DEF ProbeSpec
-----------------------------------------------------------------------------
\* The types of the page, of the host and of the checks.
BarrierTyped ==
  /\ onPage \in [session : PageSessions, connected : BOOLEAN]
  /\ runtime \in [PageSessions -> [chain : Seq(Barriers \cup {"other"}), marker : SUBSET Barriers, placed : BOOLEAN]]
  /\ host \in [PageSessions -> [wire : Seq(Barriers \cup {"input", "ping"}), back : Seq(Barriers \cup {"ping"}),
                                sent : Nat, dispatched : Nat]]
  /\ barrier \in [Barriers -> [at : {"idle", "waiting", "passed", "failed"}, on : PageSessions, due : Nat,
                               passedIn : PageSessions \cup {0}]]
  /\ click \in [at : {"polling", "none", "passed", "failed"}, clicks : Nat, last : {"none", "trusted", "forged"},
                focused : BOOLEAN, scrolled : BOOLEAN, forged : BOOLEAN]

\* An observer in front of a handler is waiting for its session's answer; one that
\* is not in front is behind another program's.
ChainFits(s) ==
  LET chain == runtime[s].chain IN
  \A i \in 1..Len(chain) : chain[i] \in Barriers =>
     /\ barrier[chain[i]].at # "idle"
     /\ i = Len(chain) => barrier[chain[i]].at = "waiting" /\ barrier[chain[i]].on = s
     /\ i # Len(chain) => chain[i + 1] = "other"
\* Another program that put its handler there is somewhere in the chain.
OtherFits(s) == runtime[s].placed => \E i \in 1..Len(runtime[s].chain) : runtime[s].chain[i] = "other"
\* The marker of a session is the one barrier that waits in it.
MarkerFits ==
  /\ \A b \in Barriers : barrier[b].at = "waiting" => runtime[barrier[b].on].marker = {b}
  /\ \A s \in PageSessions : \A b \in runtime[s].marker : barrier[b].at = "waiting" /\ barrier[b].on = s
\* What a page's session keeps.
RuntimeFits == MarkerFits /\ \A s \in PageSessions : ChainFits(s) /\ OtherFits(s)

\* Barrier b was begun in session s, and waits for n commands at most.
Begun(b, s, n) == barrier[b].at # "idle" /\ barrier[b].on = s /\ barrier[b].due <= n
\* A barrier's ping is no command.
Counts(next) == IF next \in Barriers THEN 0 ELSE 1
\* f[i] is how many commands are dispatched when the first i of the wire have gone:
\* no fewer than a barrier among them waits for, and in the end all that were sent.
Tally(s, f) ==
  LET h == host[s] IN
  /\ f \in [0..Len(h.wire) -> Nat] /\ f[0] = h.dispatched
  /\ \A i \in 1..Len(h.wire) : /\ f[i] = f[i - 1] + Counts(h.wire[i])
                               /\ h.wire[i] \in Barriers => Begun(h.wire[i], s, f[i])
  /\ onPage.connected /\ onPage.session = s => f[Len(h.wire)] = h.sent
\* What is on its way to the host, on its way back, and of sessions to come; and what
\* a barrier that passed has seen.
WireFits(s) == \E f \in [0..Len(host[s].wire) -> Nat] : Tally(s, f)
BackFits(s) == \A i \in 1..Len(host[s].back) :
  host[s].back[i] \in Barriers => Begun(host[s].back[i], s, host[s].dispatched)
FreshFits(s) == s > onPage.session => host[s].wire = <<>> /\ host[s].sent = 0 /\ host[s].dispatched = 0
PassedFits(b) == barrier[b].at = "passed" =>
  host[barrier[b].on].dispatched >= barrier[b].due /\ barrier[b].passedIn = barrier[b].on
\* All of what the host knows.
HostFits == /\ \A s \in PageSessions : WireFits(s) /\ BackFits(s) /\ FreshFits(s)
            /\ \A b \in Barriers : PassedFits(b)

\* What the witness says of one click or none is all there is to say.
ClickFits ==
  /\ click.clicks = 0 => click.last = "none" /\ ~click.forged
  /\ click.clicks = 1 => (click.forged <=> click.last = "forged")
  /\ click.last # "none" => click.clicks > 0
  /\ click.at = "passed" => click.clicks = 1 /\ ~click.forged /\ click.focused
\* The inductive invariant.
BarrierInv == BarrierTyped /\ RuntimeFits /\ HostFits /\ ClickFits

\* Before the first barrier nothing is under way.
LEMMA BarriersStart == BarrierInit => BarrierInv
<1> SUFFICES ASSUME BarrierInit PROVE BarrierInv OBVIOUS
<1>. USE BarrierAssumption
<1>1. BarrierTyped BY DEF BarrierInit, BarrierTyped
<1>2. RuntimeFits BY DEF BarrierInit, RuntimeFits, MarkerFits, ChainFits, OtherFits
<1>3. ASSUME NEW s \in PageSessions PROVE WireFits(s) /\ BackFits(s) /\ FreshFits(s)
  <2>1. host[s].wire = <<>> /\ host[s].back = <<>> /\ host[s].sent = 0 /\ host[s].dispatched = 0 BY DEF BarrierInit
  <2>. DEFINE f == [i \in 0..0 |-> 0]
  <2>2. f \in [0..Len(host[s].wire) -> Nat] BY <2>1
  <2>3. Tally(s, f) BY <2>1, <2>2 DEF Tally
  <2>. QED BY <2>1, <2>2, <2>3 DEF WireFits, BackFits, FreshFits
<1>4. \A b \in Barriers : PassedFits(b) BY DEF BarrierInit, PassedFits
<1>5. ClickFits BY DEF BarrierInit, ClickFits
<1>. QED BY <1>1, <1>2, <1>3, <1>4, <1>5 DEF BarrierInv, HostFits

\* What the end of a barrier leaves of its record.
LEMMA FinishedType ==
  ASSUME BarrierTyped, NEW b \in Barriers, NEW at \in {"passed", "failed"}, FinishBarrier(b, at)
  PROVE  /\ barrier' \in [Barriers -> [at : {"idle", "waiting", "passed", "failed"}, on : PageSessions, due : Nat,
                                       passedIn : PageSessions \cup {0}]]
         /\ \A q \in Barriers \ {b} : barrier'[q] = barrier[q]
         /\ barrier'[b].on = barrier[b].on /\ barrier'[b].due = barrier[b].due /\ barrier'[b].at = at
         /\ barrier'[b].passedIn = IF at = "passed" THEN onPage.session ELSE 0
<1>. DEFINE in == IF at = "passed" THEN onPage.session ELSE 0
            Record == [at : {"idle", "waiting", "passed", "failed"}, on : PageSessions, due : Nat,
                       passedIn : PageSessions \cup {0}]
<1>1. in \in PageSessions \cup {0} /\ barrier \in [Barriers -> Record] BY DEF BarrierTyped
<1>2. barrier' = [barrier EXCEPT ![b].at = at, ![b].passedIn = in] BY DEF FinishBarrier
<1>. HIDE DEF in
<1>3. /\ barrier' = [q \in Barriers |-> barrier'[q]] /\ (\A q \in Barriers \ {b} : barrier'[q] = barrier[q])
      /\ barrier'[b] = [barrier[b] EXCEPT !.at = at, !.passedIn = in]
  BY <1>1, <1>2
<1>4. barrier[b] \in Record BY <1>1
<1>5. /\ barrier'[b] \in Record /\ barrier'[b].at = at /\ barrier'[b].passedIn = in
      /\ barrier'[b].on = barrier[b].on /\ barrier'[b].due = barrier[b].due
  BY <1>1, <1>3, <1>4
<1>6. barrier' \in [Barriers -> Record] BY <1>1, <1>3, <1>5
<1>. QED BY <1>3, <1>5, <1>6 DEF in

\* A session as the page has it.
Runtime == [chain : Seq(Barriers \cup {"other"}), marker : SUBSET Barriers, placed : BOOLEAN]
\* The observer's own handler goes if it is in front, and with it nothing else.
LEMMA RestoredIs ==
  ASSUME NEW b \in Barriers, NEW chain \in Seq(Barriers \cup {"other"})
  PROVE  /\ Restored(b, chain) \in Seq(Barriers \cup {"other"})
         /\ \/ Restored(b, chain) = chain /\ (chain = <<>> \/ chain[Len(chain)] # b)
            \/ /\ Len(chain) > 0 /\ chain[Len(chain)] = b /\ Len(Restored(b, chain)) = Len(chain) - 1
               /\ \A i \in 1..Len(chain) - 1 : Restored(b, chain)[i] = chain[i]
<1>1. CASE chain # <<>> /\ Last(chain) = b
  <2>1. Restored(b, chain) = SubSeq(chain, 1, Len(chain) - 1) BY <1>1 DEF Restored, Front
  <2>2. Len(chain) \in Nat /\ Len(chain) > 0 BY <1>1
  <2>. DEFINE n == Len(chain) - 1
              front == SubSeq(chain, 1, n)
  <2>4. n \in Nat /\ 1 \in Int /\ n \in Int /\ \A i \in 1..n : chain[i] \in Barriers \cup {"other"} BY <2>2
  <2>. HIDE DEF n
  <2>5. /\ front \in Seq(Barriers \cup {"other"}) /\ Len(front) = IF 1 <= n THEN n - 1 + 1 ELSE 0
        /\ \A i \in 1..n - 1 + 1 : front[i] = chain[1 + i - 1]
    BY <2>4, SubSeqProperties
  <2>6. Len(front) = n /\ \A i \in 1..n : front[i] = chain[i] BY <2>4, <2>5
  <2>3. /\ SubSeq(chain, 1, Len(chain) - 1) \in Seq(Barriers \cup {"other"})
        /\ Len(SubSeq(chain, 1, Len(chain) - 1)) = Len(chain) - 1
        /\ \A i \in 1..Len(chain) - 1 : SubSeq(chain, 1, Len(chain) - 1)[i] = chain[i]
    BY <2>5, <2>6 DEF n
  <2>. QED BY <1>1, <2>1, <2>2, <2>3 DEF Last
<1>2. CASE ~(chain # <<>> /\ Last(chain) = b) BY <1>2 DEF Restored, Last
<1>. QED BY <1>1, <1>2

\* The end of a barrier gives the marker back and nobody else's handler.
LEMMA FinishKeepsRuntime ==
  ASSUME BarrierTyped, RuntimeFits, NEW b \in Waiting, NEW at \in {"passed", "failed"}, FinishBarrier(b, at)
  PROVE  runtime' \in [PageSessions -> Runtime] /\ RuntimeFits'
<1>. DEFINE s0 == barrier[b].on
            c0 == runtime[s0].chain
            c1 == Restored(b, c0)
<1>0. runtime \in [PageSessions -> Runtime] BY DEF BarrierTyped, Runtime
<1>1. b \in Barriers /\ barrier[b].at = "waiting" /\ s0 \in PageSessions BY DEF Waiting, BarrierTyped
<1>2. runtime[s0].marker = {b} BY <1>1 DEF RuntimeFits, MarkerFits
<1>3. c0 \in Seq(Barriers \cup {"other"}) /\ c1 \in Seq(Barriers \cup {"other"}) BY <1>0, <1>1, RestoredIs DEF Runtime
<1>4. /\ runtime' \in [PageSessions -> Runtime] /\ (\A s \in PageSessions \ {s0} : runtime'[s] = runtime[s])
      /\ runtime'[s0].chain = c1 /\ runtime'[s0].marker = {} /\ runtime'[s0].placed = runtime[s0].placed
  <2>1. runtime' = [runtime EXCEPT ![s0].chain = c1, ![s0].marker = runtime[s0].marker \ {b}]
    BY <1>0, <1>1 DEF FinishBarrier
  <2>2. runtime' = [runtime EXCEPT ![s0].chain = c1, ![s0].marker = {}] BY <1>2, <2>1
  <2>. HIDE DEF c1
  <2>3. /\ runtime' = [s \in PageSessions |-> runtime'[s]] /\ (\A s \in PageSessions \ {s0} : runtime'[s] = runtime[s])
        /\ runtime'[s0] = [runtime[s0] EXCEPT !.chain = c1, !.marker = {}]
    BY <1>0, <1>1, <2>2
  <2>4. runtime[s0] \in Runtime BY <1>0, <1>1
  <2>5. /\ runtime'[s0] \in Runtime /\ runtime'[s0].chain = c1 /\ runtime'[s0].marker = {}
        /\ runtime'[s0].placed = runtime[s0].placed
    BY <1>3, <2>3, <2>4 DEF Runtime
  <2>6. runtime' \in [PageSessions -> Runtime] BY <1>0, <2>3, <2>5
  <2>. QED BY <2>3, <2>5, <2>6
<1>5. /\ \A q \in Barriers \ {b} : barrier'[q] = barrier[q]
      /\ barrier'[b].on = s0 /\ barrier'[b].at = at
  BY <1>1, FinishedType
<1>6. MarkerFits'
  <2>1. ASSUME NEW q \in Barriers, barrier'[q].at = "waiting" PROVE runtime'[barrier'[q].on].marker = {q}
    <3>1. q # b /\ barrier'[q] = barrier[q] BY <1>5, <2>1
    <3>2. runtime[barrier[q].on].marker = {q} /\ barrier[q].on \in PageSessions
      BY <2>1, <3>1 DEF RuntimeFits, MarkerFits, BarrierTyped
    <3>3. barrier[q].on # s0 BY <1>2, <3>1, <3>2
    <3>. QED BY <1>4, <3>1, <3>2, <3>3
  <2>2. ASSUME NEW s \in PageSessions, NEW q \in runtime'[s].marker PROVE barrier'[q].at = "waiting" /\ barrier'[q].on = s
    <3>1. s # s0 /\ q \in runtime[s].marker BY <1>4, <2>2
    <3>2. q \in Barriers /\ barrier[q].at = "waiting" /\ barrier[q].on = s
      BY <1>0, <3>1 DEF RuntimeFits, MarkerFits, Runtime
    <3>. QED BY <1>5, <3>1, <3>2
  <2>. QED BY <2>1, <2>2 DEF MarkerFits
<1>7. ASSUME NEW s \in PageSessions PROVE ChainFits(s)' /\ OtherFits(s)'
  <2>0. ChainFits(s) /\ OtherFits(s) BY DEF RuntimeFits
  <2>1. CASE s # s0
    <3>1. runtime'[s] = runtime[s] /\ runtime[s].chain \in Seq(Barriers \cup {"other"}) BY <1>0, <1>4, <2>1 DEF Runtime
    <3>2. ChainFits(s)' BY <1>1, <1>5, <2>0, <2>1, <3>1 DEF ChainFits
    <3>. QED BY <2>0, <3>1, <3>2 DEF OtherFits
  <2>2. CASE s = s0 /\ c1 = c0
    <3>1. c0 = <<>> \/ c0[Len(c0)] # b
      <4>. HIDE DEF c0
      <4>1. CASE Len(c1) = Len(c0) - 1
        <5>1. Len(c0) \in Nat /\ Len(c0) = Len(c0) - 1 BY <1>3, <2>2, <4>1
        <5>. QED BY <5>1
      <4>2. CASE c1 = c0 /\ (c0 = <<>> \/ c0[Len(c0)] # b) BY <4>2
      <4>3. \/ c1 = c0 /\ (c0 = <<>> \/ c0[Len(c0)] # b)
            \/ Len(c1) = Len(c0) - 1
        BY <1>1, <1>3, RestoredIs
      <4>. QED BY <4>1, <4>2, <4>3
    <3>2. runtime'[s].chain = c0 /\ runtime[s].chain = c0 BY <1>4, <2>2
    <3>. HIDE DEF c0
    <3>3. ChainFits(s)'
      <4>1. SUFFICES ASSUME NEW i \in 1..Len(c0), c0[i] \in Barriers
                     PROVE  /\ barrier'[c0[i]].at # "idle"
                            /\ i = Len(c0) => barrier'[c0[i]].at = "waiting" /\ barrier'[c0[i]].on = s
                            /\ i # Len(c0) => c0[i + 1] = "other"
        BY <3>2 DEF ChainFits
      <4>2. /\ barrier[c0[i]].at # "idle"
            /\ i = Len(c0) => barrier[c0[i]].at = "waiting" /\ barrier[c0[i]].on = s
            /\ i # Len(c0) => c0[i + 1] = "other"
        BY <2>0, <3>2, <4>1 DEF ChainFits
      <4>3. CASE c0[i] = b
        <5>1. i # Len(c0) BY <1>3, <3>1, <4>3
        <5>. QED BY <1>5, <4>2, <4>3, <5>1
      <4>. QED BY <1>5, <4>1, <4>2, <4>3
    <3>. QED BY <1>4, <2>0, <2>2, <3>2, <3>3 DEF OtherFits
  <2>3. CASE s = s0 /\ c1 # c0
    <3>1. Len(c0) > 0 /\ c0[Len(c0)] = b /\ Len(c1) = Len(c0) - 1 /\ \A i \in 1..Len(c0) - 1 : c1[i] = c0[i]
      BY <1>1, <1>3, <2>3, RestoredIs
    <3>2. runtime'[s].chain = c1 /\ runtime[s].chain = c0 BY <1>4, <2>3
    <3>3. Len(c0) \in Nat /\ Len(c1) \in Nat BY <1>3
    <3>4. b # "other" BY <1>1, BarrierAssumption
    <3>. HIDE DEF c0, c1
    <3>5. ASSUME NEW i \in 1..Len(c1), c1[i] \in Barriers
          PROVE  barrier'[c1[i]].at # "idle" /\ i # Len(c1) /\ c1[i + 1] = "other"
      <4>1. i \in 1..Len(c0) - 1 /\ i + 1 \in 1..Len(c0) /\ c1[i] = c0[i] BY <3>1, <3>3, <3>5
      <4>2. barrier[c0[i]].at # "idle" /\ c0[i + 1] = "other"
        <5>1. i # Len(c0) /\ i \in 1..Len(c0) BY <3>3, <4>1
        <5>. QED BY <2>0, <3>2, <3>5, <4>1, <5>1 DEF ChainFits
      <4>3. i + 1 # Len(c0) BY <3>1, <3>4, <4>2
      <4>4. i + 1 \in 1..Len(c0) - 1 BY <3>3, <4>1, <4>3
      <4>5. c1[i + 1] = "other" /\ i # Len(c1) BY <3>1, <3>3, <4>2, <4>4
      <4>. QED BY <1>5, <3>5, <4>1, <4>2, <4>5
    <3>6. ChainFits(s)' BY <3>2, <3>5 DEF ChainFits
    <3>7. OtherFits(s)'
      <4>1. SUFFICES ASSUME runtime[s0].placed PROVE \E i \in 1..Len(c1) : c1[i] = "other" BY <1>4, <2>3, <3>2 DEF OtherFits
      <4>2. PICK i \in 1..Len(c0) : c0[i] = "other" BY <2>0, <2>3, <3>2, <4>1 DEF OtherFits
      <4>3. i # Len(c0) BY <3>1, <3>4, <4>2
      <4>4. i \in 1..Len(c0) - 1 BY <3>3, <4>2, <4>3
      <4>. QED BY <3>1, <4>2, <4>4
    <3>. QED BY <3>6, <3>7
  <2>. QED BY <2>1, <2>2, <2>3
<1>. QED BY <1>4, <1>6, <1>7 DEF RuntimeFits

\* A barrier that fails at once has touched nothing; another puts itself in front.
LEMMA BeginKeepsRuntime ==
  ASSUME BarrierTyped, RuntimeFits, NEW b \in Barriers, BeginBarrier(b)
  PROVE  /\ runtime' \in [PageSessions -> Runtime] /\ RuntimeFits'
         /\ barrier' \in [Barriers -> [at : {"idle", "waiting", "passed", "failed"}, on : PageSessions, due : Nat,
                                       passedIn : PageSessions \cup {0}]]
         /\ \A q \in Barriers \ {b} : barrier'[q] = barrier[q]
         /\ barrier[b].at = "idle" /\ barrier'[b].at \in {"waiting", "failed"}
         /\ barrier'[b].on = onPage.session /\ barrier'[b].due = host[onPage.session].sent
         /\ \/ host' = host
            \/ host' = [host EXCEPT ![onPage.session].wire = Append(@, b)] /\ onPage.connected
<1>. DEFINE s0 == onPage.session
            Record == [at : {"idle", "waiting", "passed", "failed"}, on : PageSessions, due : Nat,
                       passedIn : PageSessions \cup {0}]
            c0 == runtime[s0].chain
<1>0. runtime \in [PageSessions -> Runtime] /\ s0 \in PageSessions /\ host[s0].sent \in Nat
      /\ barrier \in [Barriers -> Record]
  BY DEF BarrierTyped, Runtime
<1>1. PICK at \in {"waiting", "failed"} :
        /\ barrier' = [barrier EXCEPT ![b] = [at |-> at, on |-> s0, due |-> host[s0].sent, passedIn |-> 0]]
        /\ \/ at = "failed" /\ runtime' = runtime /\ host' = host
           \/ /\ at = "waiting" /\ runtime[s0].marker = {} /\ onPage.connected
              /\ runtime' = [runtime EXCEPT ![s0].chain = Append(@, b), ![s0].marker = @ \cup {b}]
              /\ host' = [host EXCEPT ![s0].wire = Append(@, b)]
  BY DEF BeginBarrier, Unmarked
<1>2. barrier[b].at = "idle" BY DEF BeginBarrier
<1>3. /\ barrier' \in [Barriers -> Record] /\ (\A q \in Barriers \ {b} : barrier'[q] = barrier[q])
      /\ barrier'[b].at = at /\ barrier'[b].on = s0 /\ barrier'[b].due = host[s0].sent
  BY <1>0, <1>1
<1>4. CASE at = "failed"
  <2>1. runtime' = runtime BY <1>1, <1>4
  <2>2. MarkerFits'
    <3>1. \A s \in PageSessions : runtime[s].marker \subseteq Barriers BY <1>0 DEF Runtime
    <3>2. MarkerFits BY DEF RuntimeFits
    <3>3. \A q \in Barriers : barrier'[q].at = "waiting" => q # b /\ barrier'[q] = barrier[q] BY <1>3, <1>4
    <3>4. \A q \in Barriers : barrier[q].at = "waiting" => q # b /\ barrier'[q] = barrier[q] BY <1>2, <1>3
    <3>. QED BY <2>1, <3>1, <3>2, <3>3, <3>4 DEF MarkerFits
  <2>3. ASSUME NEW s \in PageSessions PROVE ChainFits(s)' /\ OtherFits(s)'
    <3>1. ChainFits(s) /\ OtherFits(s) BY DEF RuntimeFits
    <3>2. \A i \in 1..Len(runtime[s].chain) : runtime[s].chain[i] \in Barriers => runtime[s].chain[i] # b
      BY <1>2, <3>1 DEF ChainFits
    <3>3. OtherFits(s)' BY <2>1, <3>1 DEF OtherFits
    <3>4. \A q \in Barriers : q # b => barrier'[q] = barrier[q] BY <1>3
    <3>. QED BY <2>1, <3>1, <3>2, <3>3, <3>4 DEF ChainFits
  <2>. QED BY <1>0, <1>1, <1>2, <1>3, <1>4, <2>1, <2>2, <2>3 DEF RuntimeFits
<1>5. CASE at = "waiting"
  <2>0. /\ runtime[s0].marker = {} /\ c0 \in Seq(Barriers \cup {"other"}) /\ Append(c0, b) \in Seq(Barriers \cup {"other"})
        /\ Len(c0) \in Nat /\ Len(Append(c0, b)) = Len(c0) + 1 /\ Append(c0, b)[Len(c0) + 1] = b
        /\ \A i \in 1..Len(c0) : Append(c0, b)[i] = c0[i]
    BY <1>0, <1>1, <1>5 DEF Runtime
  <2>1. /\ runtime' \in [PageSessions -> Runtime] /\ (\A s \in PageSessions \ {s0} : runtime'[s] = runtime[s])
        /\ runtime'[s0].chain = Append(c0, b) /\ runtime'[s0].marker = {b} /\ runtime'[s0].placed = runtime[s0].placed
    <3>. DEFINE c1 == Append(c0, b)
    <3>1. runtime' = [runtime EXCEPT ![s0].chain = c1, ![s0].marker = {b}] BY <1>0, <1>1, <1>5, <2>0
    <3>. HIDE DEF c1
    <3>3. /\ runtime' = [s \in PageSessions |-> runtime'[s]] /\ (\A s \in PageSessions \ {s0} : runtime'[s] = runtime[s])
          /\ runtime'[s0] = [runtime[s0] EXCEPT !.chain = c1, !.marker = {b}]
      BY <1>0, <3>1
    <3>4. runtime[s0] \in Runtime /\ c1 \in Seq(Barriers \cup {"other"}) /\ {b} \in SUBSET Barriers BY <1>0, <2>0 DEF c1
    <3>5. /\ runtime'[s0] \in Runtime /\ runtime'[s0].chain = c1 /\ runtime'[s0].marker = {b}
          /\ runtime'[s0].placed = runtime[s0].placed
      BY <3>3, <3>4 DEF Runtime
    <3>6. runtime' \in [PageSessions -> Runtime] BY <1>0, <3>3, <3>5
    <3>. QED BY <3>3, <3>5, <3>6 DEF c1
  <2>2. MarkerFits'
    <3>1. ASSUME NEW q \in Barriers, barrier'[q].at = "waiting" PROVE runtime'[barrier'[q].on].marker = {q}
      <4>1. CASE q = b BY <1>3, <2>1, <4>1
      <4>2. CASE q # b
        <5>1. runtime[barrier[q].on].marker = {q} /\ barrier[q].on \in PageSessions /\ barrier'[q] = barrier[q]
          BY <1>0, <1>3, <3>1, <4>2 DEF RuntimeFits, MarkerFits
        <5>2. barrier[q].on # s0 BY <2>0, <5>1
        <5>. QED BY <2>1, <5>1, <5>2
      <4>. QED BY <4>1, <4>2
    <3>2. ASSUME NEW s \in PageSessions, NEW q \in runtime'[s].marker PROVE barrier'[q].at = "waiting" /\ barrier'[q].on = s
      <4>1. CASE s = s0 BY <1>3, <1>5, <2>1, <3>2, <4>1
      <4>2. CASE s # s0
        <5>1. q \in runtime[s].marker /\ q \in Barriers BY <1>0, <2>1, <3>2, <4>2 DEF Runtime
        <5>2. barrier[q].at = "waiting" /\ barrier[q].on = s BY <5>1 DEF RuntimeFits, MarkerFits
        <5>. QED BY <1>2, <1>3, <5>1, <5>2
      <4>. QED BY <4>1, <4>2
    <3>. QED BY <3>1, <3>2 DEF MarkerFits
  <2>3. ASSUME NEW s \in PageSessions PROVE ChainFits(s)' /\ OtherFits(s)'
    <3>0. ChainFits(s) /\ OtherFits(s) BY DEF RuntimeFits
    <3>1. \A i \in 1..Len(runtime[s].chain) : runtime[s].chain[i] \in Barriers => runtime[s].chain[i] # b
      BY <1>2, <3>0 DEF ChainFits
    <3>2. CASE s # s0
      <4>1. runtime'[s] = runtime[s] BY <2>1, <3>2
      <4>. QED BY <1>3, <3>0, <3>1, <4>1 DEF ChainFits, OtherFits
    <3>3. CASE s = s0
      <4>1. \A i \in 1..Len(c0) : c0[i] \in Barriers => i # Len(c0)
        <5>1. SUFFICES ASSUME Len(c0) \in 1..Len(c0), c0[Len(c0)] \in Barriers PROVE FALSE OBVIOUS
        <5>2. barrier[c0[Len(c0)]].at = "waiting" /\ barrier[c0[Len(c0)]].on = s0 BY <3>0, <3>3, <5>1 DEF ChainFits
        <5>. QED BY <2>0, <5>1, <5>2 DEF RuntimeFits, MarkerFits
      <4>2. runtime'[s].chain = Append(c0, b) /\ runtime[s].chain = c0 /\ runtime'[s].placed = runtime[s].placed
        BY <2>1, <3>3
      <4>3. ASSUME NEW i \in 1..Len(Append(c0, b)), Append(c0, b)[i] \in Barriers
            PROVE  /\ barrier'[Append(c0, b)[i]].at # "idle"
                   /\ i = Len(Append(c0, b)) => barrier'[Append(c0, b)[i]].at = "waiting" /\ barrier'[Append(c0, b)[i]].on = s
                   /\ i # Len(Append(c0, b)) => Append(c0, b)[i + 1] = "other"
        <5>1. CASE i = Len(c0) + 1 BY <1>3, <1>5, <2>0, <3>3, <5>1
        <5>2. CASE i # Len(c0) + 1
          <6>1. i \in 1..Len(c0) /\ Append(c0, b)[i] = c0[i] BY <2>0, <5>2
          <6>2. i # Len(c0) BY <4>1, <4>3, <6>1
          <6>3. i + 1 \in 1..Len(c0) BY <2>0, <6>1, <6>2
          <6>4. barrier[c0[i]].at # "idle" /\ c0[i + 1] = "other" BY <3>0, <4>2, <4>3, <6>1, <6>2 DEF ChainFits
          <6>5. c0[i] # b /\ barrier'[c0[i]] = barrier[c0[i]] BY <1>3, <3>1, <4>2, <4>3, <6>1
          <6>6. Append(c0, b)[i + 1] = "other" BY <2>0, <6>3, <6>4
          <6>7. i # Len(Append(c0, b)) BY <2>0, <5>2
          <6>. QED BY <6>1, <6>4, <6>5, <6>6, <6>7
        <5>. QED BY <5>1, <5>2
      <4>4. ChainFits(s)' BY <4>2, <4>3 DEF ChainFits
      <4>5. OtherFits(s)'
        <5>1. \A i \in 1..Len(c0) : i \in 1..Len(Append(c0, b)) BY <2>0
        <5>. QED BY <2>0, <3>0, <4>2, <5>1 DEF OtherFits
      <4>. QED BY <4>4, <4>5
    <3>. QED BY <3>2, <3>3
  <2>. QED BY <1>0, <1>1, <1>2, <1>3, <1>5, <2>1, <2>2, <2>3 DEF RuntimeFits
<1>. QED BY <1>4, <1>5

\* Another program takes no barrier's marker.
LEMMA OtherKeepsRuntime ==
  ASSUME BarrierTyped, RuntimeFits, NEW s0 \in PageSessions, OtherReplaces(s0)
  PROVE  runtime' \in [PageSessions -> Runtime] /\ RuntimeFits'
<1>. DEFINE c0 == runtime[s0].chain
<1>0. runtime \in [PageSessions -> Runtime] /\ c0 \in Seq(Barriers \cup {"other"}) BY DEF BarrierTyped, Runtime
<1>1. barrier' = barrier BY DEF OtherReplaces
<1>2. PICK c1 \in {Append(c0, "other"), <<>>}, placed \in BOOLEAN :
        /\ runtime' = [runtime EXCEPT ![s0].chain = c1, ![s0].placed = placed]
        /\ placed => c1 = Append(c0, "other")
  BY <1>0 DEF OtherReplaces
<1>3. c1 \in Seq(Barriers \cup {"other"})
  <2>1. Append(c0, "other") \in Seq(Barriers \cup {"other"}) BY <1>0, AppendProperties
  <2>2. <<>> \in Seq(Barriers \cup {"other"}) OBVIOUS
  <2>. HIDE DEF c0
  <2>. QED BY <1>2, <2>1, <2>2
<1>4. /\ runtime' \in [PageSessions -> Runtime] /\ (\A s \in PageSessions \ {s0} : runtime'[s] = runtime[s])
      /\ runtime'[s0].chain = c1 /\ runtime'[s0].marker = runtime[s0].marker /\ runtime'[s0].placed = placed
  <2>3. /\ runtime' = [s \in PageSessions |-> runtime'[s]] /\ (\A s \in PageSessions \ {s0} : runtime'[s] = runtime[s])
        /\ runtime'[s0] = [runtime[s0] EXCEPT !.chain = c1, !.placed = placed]
    BY <1>0, <1>2
  <2>4. runtime[s0] \in Runtime BY <1>0
  <2>5. /\ runtime'[s0] \in Runtime /\ runtime'[s0].chain = c1 /\ runtime'[s0].marker = runtime[s0].marker
        /\ runtime'[s0].placed = placed
    BY <1>3, <2>3, <2>4 DEF Runtime
  <2>6. runtime' \in [PageSessions -> Runtime] BY <1>0, <2>3, <2>5
  <2>. QED BY <2>3, <2>5, <2>6
<1>5. MarkerFits'
  <2>1. \A s \in PageSessions : runtime'[s].marker = runtime[s].marker BY <1>4
  <2>2. \A b \in Barriers : barrier[b].on \in PageSessions BY DEF BarrierTyped
  <2>3. MarkerFits BY DEF RuntimeFits
  <2>. QED BY <1>1, <2>1, <2>2, <2>3 DEF MarkerFits
<1>6. ASSUME NEW s \in PageSessions PROVE ChainFits(s)' /\ OtherFits(s)'
  <2>0. ChainFits(s) /\ OtherFits(s) BY DEF RuntimeFits
  <2>1. CASE s # s0 BY <1>1, <1>4, <2>0, <2>1 DEF ChainFits, OtherFits
  <2>2. CASE s = s0 /\ c1 = <<>>
    <3>1. c1 # Append(c0, "other") BY <1>0, <2>2
    <3>2. runtime'[s].chain = <<>> /\ ~runtime'[s].placed BY <1>2, <1>4, <2>2, <3>1
    <3>. QED BY <3>2 DEF ChainFits, OtherFits
  <2>3. CASE s = s0 /\ c1 = Append(c0, "other")
    <3>1. /\ Len(c0) \in Nat /\ Len(c1) = Len(c0) + 1 /\ c1[Len(c0) + 1] = "other"
          /\ \A i \in 1..Len(c0) : c1[i] = c0[i]
      BY <1>0, <2>3
    <3>2. runtime'[s].chain = c1 /\ runtime[s].chain = c0 BY <1>4, <2>3
    <3>3. ASSUME NEW i \in 1..Len(c1), c1[i] \in Barriers
          PROVE  barrier[c1[i]].at # "idle" /\ i # Len(c1) /\ c1[i + 1] = "other"
      <4>1. i \in 1..Len(c0) BY <3>1, <3>3, BarrierAssumption
      <4>2. barrier[c0[i]].at # "idle" /\ (i # Len(c0) => c0[i + 1] = "other")
        BY <2>0, <3>1, <3>2, <3>3, <4>1 DEF ChainFits
      <4>3. c1[i + 1] = "other"
        <5>1. CASE i = Len(c0) BY <3>1, <5>1
        <5>2. CASE i # Len(c0)
          <6>1. i + 1 \in 1..Len(c0) BY <3>1, <4>1, <5>2
          <6>. QED BY <3>1, <4>2, <5>2, <6>1
        <5>. QED BY <5>1, <5>2
      <4>. QED BY <3>1, <4>1, <4>2, <4>3
    <3>4. Len(c1) \in 1..Len(c1) /\ c1[Len(c1)] = "other" BY <3>1
    <3>. HIDE DEF c0
    <3>. QED BY <1>1, <3>2, <3>3, <3>4 DEF ChainFits, OtherFits
  <2>. QED BY <1>2, <2>1, <2>2, <2>3
<1>. QED BY <1>4, <1>5, <1>6 DEF RuntimeFits
-----------------------------------------------------------------------------
\* ... and as the host has it.
Host == [wire : Seq(Barriers \cup {"input", "ping"}), back : Seq(Barriers \cup {"ping"}), sent : Nat, dispatched : Nat]

\* A barrier that was begun stays begun, and what it waits for can only come nearer.
Steady == \A q \in Barriers : barrier[q].at # "idle" =>
            /\ barrier'[q].at # "idle" /\ barrier'[q].on = barrier[q].on /\ barrier'[q].due = barrier[q].due
\* A session of which nothing moves.
LEMMA SessionStill ==
  ASSUME Steady, NEW s \in PageSessions, host'[s] = host[s], WireFits(s), BackFits(s), FreshFits(s),
         onPage'.connected /\ onPage'.session = s => onPage.connected /\ onPage.session = s,
         s > onPage'.session => s > onPage.session
  PROVE  WireFits(s)' /\ BackFits(s)' /\ FreshFits(s)'
<1>1. PICK f \in [0..Len(host[s].wire) -> Nat] : Tally(s, f) BY DEF WireFits
<1>2. Tally(s, f)'
  <2>1. ASSUME NEW q \in Barriers, NEW n, Begun(q, s, n) PROVE Begun(q, s, n)' BY <2>1 DEF Steady, Begun
  <2>. QED BY <1>1, <2>1 DEF Tally, Counts
<1>3. WireFits(s)' BY <1>1, <1>2 DEF WireFits
<1>. QED BY <1>3 DEF BackFits, FreshFits, Steady, Begun

\* Barriers that have passed have passed.
LEMMA PassedStays ==
  ASSUME BarrierTyped, HostFits, Steady, NEW b \in Barriers, barrier'[b] = barrier[b],
         \A s \in PageSessions : host'[s].dispatched >= host[s].dispatched /\ host'[s].dispatched \in Nat
  PROVE  PassedFits(b)'
<1>1. barrier[b].on \in PageSessions /\ barrier[b].due \in Nat BY DEF BarrierTyped
<1>2. PassedFits(b) BY DEF HostFits
<1>3. host[barrier[b].on].dispatched \in Nat BY <1>1 DEF BarrierTyped
<1>. QED BY <1>1, <1>2, <1>3 DEF PassedFits

\* One thing more on the wire of the session on the page.
LEMMA SendKeeps ==
  ASSUME BarrierTyped, Steady, NEW next \in Barriers \cup {"input", "ping"}, NEW n \in Nat,
         NEW s \in PageSessions, onPage.session = s, onPage.connected, onPage' = onPage,
         WireFits(s), BackFits(s),
         host' = [host EXCEPT ![s].wire = Append(host[s].wire, next), ![s].sent = n],
         n = host[s].sent + Counts(next),
         next \in Barriers => Begun(next, s, n)'
  PROVE  /\ host' \in [PageSessions -> Host] /\ (\A z \in PageSessions \ {s} : host'[z] = host[z])
         /\ host'[s].dispatched = host[s].dispatched
         /\ WireFits(s)' /\ BackFits(s)' /\ FreshFits(s)'
<1>. PICK w : w = host[s].wire OBVIOUS
<1>. PICK w1 : w1 = Append(w, next) OBVIOUS
<1>0. host \in [PageSessions -> Host] /\ s \in Nat
  BY BarrierAssumption DEF BarrierTyped, Host
<1>1. /\ w \in Seq(Barriers \cup {"input", "ping"}) /\ Len(w) \in Nat /\ w1 \in Seq(Barriers \cup {"input", "ping"})
      /\ Len(w1) = Len(w) + 1 /\ w1[Len(w) + 1] = next /\ \A i \in 1..Len(w) : w1[i] = w[i]
  BY <1>0 DEF Host
<1>2. /\ host' \in [PageSessions -> Host] /\ (\A z \in PageSessions \ {s} : host'[z] = host[z])
      /\ host'[s].wire = w1 /\ host'[s].sent = n /\ host'[s].back = host[s].back
      /\ host'[s].dispatched = host[s].dispatched
  <2>1. /\ host' = [z \in PageSessions |-> host'[z]] /\ (\A z \in PageSessions \ {s} : host'[z] = host[z])
        /\ host'[s] = [host[s] EXCEPT !.wire = w1, !.sent = n]
    BY <1>0
  <2>2. host[s] \in Host BY <1>0
  <2>3. /\ host'[s] \in Host /\ host'[s].wire = w1 /\ host'[s].sent = n /\ host'[s].back = host[s].back
        /\ host'[s].dispatched = host[s].dispatched
    BY <1>1, <2>1, <2>2 DEF Host
  <2>4. host' \in [PageSessions -> Host] BY <1>0, <2>1, <2>3
  <2>. QED BY <2>1, <2>3, <2>4
<1>3. WireFits(s)'
  <2>1. PICK f \in [0..Len(w) -> Nat] : Tally(s, f) BY DEF WireFits
  <2>. DEFINE m == Len(w) + 1
              g == [i \in 0..m |-> IF i = m THEN n ELSE f[i]]
  <2>2. g \in [0..m -> Nat] BY <1>1, <2>1
  <2>3. g[m] = n /\ \A i \in 0..Len(w) : g[i] = f[i] BY <1>1
  <2>4. f[Len(w)] = host[s].sent /\ f[0] = host[s].dispatched BY <2>1 DEF Tally
  <2>. HIDE DEF g
  <2>5. ASSUME NEW i \in 1..m
        PROVE  /\ g[i] = g[i - 1] + Counts(w1[i])
               /\ w1[i] \in Barriers => Begun(w1[i], s, g[i])'
    <3>1. CASE i = m
      <4>1. g[i - 1] = host[s].sent BY SMTT(30), <1>1, <2>3, <2>4, <3>1
      <4>. QED BY <1>1, <2>3, <3>1, <4>1
    <3>2. CASE i # m
      <4>1. i \in 1..Len(w) /\ i - 1 \in 0..Len(w) /\ i \in 0..Len(w) BY <1>1, <3>2
      <4>2. f[i] = f[i - 1] + Counts(w[i]) /\ (w[i] \in Barriers => Begun(w[i], s, f[i]))
        BY <2>1, <4>1 DEF Tally
      <4>3. g[i] = f[i] /\ g[i - 1] = f[i - 1] /\ w1[i] = w[i] BY <1>1, <2>3, <4>1
      <4>4. w[i] \in Barriers => Begun(w[i], s, f[i])' BY <4>2 DEF Begun, Steady
      <4>. QED BY <4>2, <4>3, <4>4
    <3>. QED BY <3>1, <3>2
  <2>6. g[0] = host[s].dispatched BY <1>1, <2>3, <2>4
  <2>7. Tally(s, g)' BY <1>1, <1>2, <2>2, <2>3, <2>5, <2>6 DEF Tally, Counts
  <2>. QED BY <1>1, <1>2, <2>2, <2>7 DEF WireFits
<1>4. BackFits(s)' BY <1>2 DEF BackFits, Begun, Steady
<1>5. FreshFits(s)' BY <1>0 DEF FreshFits
<1>. QED BY <1>2, <1>3, <1>4, <1>5

\* The host dispatches what comes next: the rest of the wire is one thing nearer.
LEMMA DispatchKeeps ==
  ASSUME BarrierTyped, NEW s \in PageSessions, WireFits(s), BackFits(s), FreshFits(s), HostDispatches(s)
  PROVE  /\ host' \in [PageSessions -> Host] /\ (\A z \in PageSessions \ {s} : host'[z] = host[z])
         /\ host'[s].dispatched >= host[s].dispatched
         /\ WireFits(s)' /\ BackFits(s)' /\ FreshFits(s)'
<1>. PICK w : w = host[s].wire OBVIOUS
<1>. PICK next : next = Head(w) OBVIOUS
<1>. PICK w1 : w1 = Tail(w) OBVIOUS
<1>. PICK back : back = host[s].back OBVIOUS
<1>. PICK back1 : back1 = IF next = "input" THEN back ELSE Append(back, next) OBVIOUS
<1>. PICK n : n = IF next \in Barriers THEN host[s].dispatched ELSE host[s].dispatched + 1 OBVIOUS
<1>0. host \in [PageSessions -> Host] /\ w # <<>> /\ barrier' = barrier /\ onPage' = onPage
  BY DEF BarrierTyped, Host, HostDispatches
<1>1. /\ w \in Seq(Barriers \cup {"input", "ping"}) /\ Len(w) \in Nat \ {0} /\ w1 \in Seq(Barriers \cup {"input", "ping"})
      /\ Len(w1) = Len(w) - 1 /\ next = w[1] /\ next \in Barriers \cup {"input", "ping"}
      /\ \A i \in 1..Len(w1) : w1[i] = w[i + 1]
  <2>1. w \in Seq(Barriers \cup {"input", "ping"}) BY <1>0 DEF Host
  <2>2. Len(w) \in Nat \ {0} /\ next = w[1] BY <1>0, <2>1
  <2>. QED BY <1>0, <2>1, <2>2, HeadTailProperties
<1>2. back1 \in Seq(Barriers \cup {"ping"}) /\ n \in Nat /\ n >= host[s].dispatched /\ host[s].dispatched \in Nat
  <2>1. back \in Seq(Barriers \cup {"ping"}) /\ host[s].dispatched \in Nat BY <1>0 DEF Host
  <2>2. CASE next = "input" BY <2>1, <2>2
  <2>3. CASE next # "input"
    <3>1. next \in Barriers \cup {"ping"} BY <1>1, <2>3
    <3>2. Append(back, next) \in Seq(Barriers \cup {"ping"}) BY <2>1, <3>1, AppendProperties
    <3>. QED BY <2>1, <2>3, <3>2
  <2>. QED BY <2>2, <2>3
<1>3. /\ host' \in [PageSessions -> Host] /\ (\A z \in PageSessions \ {s} : host'[z] = host[z])
      /\ host'[s].wire = w1 /\ host'[s].sent = host[s].sent /\ host'[s].back = back1 /\ host'[s].dispatched = n
  <2>0. host' = [host EXCEPT ![s].wire = w1, ![s].back = back1, ![s].dispatched = n] BY <1>0 DEF HostDispatches
  <2>1. /\ host' = [z \in PageSessions |-> host'[z]] /\ (\A z \in PageSessions \ {s} : host'[z] = host[z])
        /\ host'[s] = [host[s] EXCEPT !.wire = w1, !.back = back1, !.dispatched = n]
    BY <1>0, <2>0
  <2>2. host[s] \in Host BY <1>0
  <2>3. /\ host'[s] \in Host /\ host'[s].wire = w1 /\ host'[s].sent = host[s].sent /\ host'[s].back = back1
        /\ host'[s].dispatched = n
    BY <1>1, <1>2, <2>1, <2>2 DEF Host
  <2>4. host' \in [PageSessions -> Host] BY <1>0, <2>1, <2>3
  <2>. QED BY <2>1, <2>3, <2>4
<1>4. PICK f \in [0..Len(w) -> Nat] : Tally(s, f) BY DEF WireFits
<1>5. /\ f[0] = host[s].dispatched
      /\ \A i \in 1..Len(w) : f[i] = f[i - 1] + Counts(w[i]) /\ (w[i] \in Barriers => Begun(w[i], s, f[i]))
      /\ onPage.connected /\ onPage.session = s => f[Len(w)] = host[s].sent
  BY <1>4 DEF Tally
<1>6. f[1] = n /\ (next \in Barriers => Begun(next, s, n))
  <2>1. 1 \in 1..Len(w) BY <1>1
  <2>2. f[1] = f[0] + Counts(next) /\ (next \in Barriers => Begun(next, s, f[1])) BY <1>1, <1>5, <2>1
  <2>. QED BY <1>2, <1>5, <2>2 DEF Counts
<1>7. WireFits(s)'
  <2>. DEFINE g == [i \in 0..Len(w1) |-> f[i + 1]]
  <2>2. g \in [0..Len(w1) -> Nat] BY <1>1, <1>4
  <2>3. \A i \in 0..Len(w1) : g[i] = f[i + 1] OBVIOUS
  <2>. HIDE DEF g
  <2>4. ASSUME NEW i \in 1..Len(w1)
        PROVE  g[i] = g[i - 1] + Counts(w1[i]) /\ (w1[i] \in Barriers => Begun(w1[i], s, g[i])')
    <3>1. i + 1 \in 1..Len(w) /\ i - 1 \in 0..Len(w1) /\ i \in 0..Len(w1) /\ (i - 1) + 1 = i /\ (i + 1) - 1 = i BY <1>1
    <3>2. g[i] = f[i + 1] /\ g[i - 1] = f[i] /\ w1[i] = w[i + 1] BY <1>1, <2>3, <3>1
    <3>3. f[i + 1] = f[i] + Counts(w[i + 1]) /\ (w[i + 1] \in Barriers => Begun(w[i + 1], s, f[i + 1]))
      BY <1>5, <3>1
    <3>. QED BY <1>0, <3>2, <3>3 DEF Begun
  <2>5. g[0] = n BY <1>1, <1>6, <2>3
  <2>6. onPage.connected /\ onPage.session = s => g[Len(w1)] = host[s].sent
    <3>1. Len(w1) \in 0..Len(w1) /\ Len(w1) + 1 = Len(w) BY <1>1
    <3>2. g[Len(w1)] = f[Len(w)] BY <2>3, <3>1
    <3>. QED BY <1>5, <3>2
  <2>7. Tally(s, g)' BY <1>0, <1>3, <2>2, <2>4, <2>5, <2>6 DEF Tally, Counts
  <2>. QED BY <1>3, <2>2, <2>7 DEF WireFits
<1>8. BackFits(s)'
  <2>1. back \in Seq(Barriers \cup {"ping"}) /\ Len(back) \in Nat BY <1>0 DEF Host
  <2>2. ASSUME NEW i \in 1..Len(back1), back1[i] \in Barriers PROVE Begun(back1[i], s, n)
    <3>1. CASE i \in 1..Len(back) /\ back1[i] = back[i]
      <4>1. Begun(back[i], s, host[s].dispatched) BY <2>2, <3>1 DEF BackFits
      <4>2. barrier[back[i]].due \in Nat BY <2>2, <3>1 DEF BarrierTyped
      <4>. QED BY <1>2, <3>1, <4>1, <4>2 DEF Begun
    <3>2. CASE next # "input" /\ i = Len(back) + 1
      <4>1. next \in Barriers \cup {"ping"} BY <1>1, <3>2
      <4>2. back1[i] = next BY <2>1, <3>2, <4>1, AppendProperties
      <4>. QED BY <1>6, <2>2, <4>2
    <3>3. CASE next # "input" /\ i # Len(back) + 1
      <4>1. next \in Barriers \cup {"ping"} BY <1>1, <3>3
      <4>2. Len(back1) = Len(back) + 1 /\ \A j \in 1..Len(back) : back1[j] = back[j]
        BY <2>1, <3>3, <4>1, AppendProperties
      <4>3. i \in 1..Len(back) BY <2>1, <3>3, <4>2
      <4>. QED BY <3>1, <4>2, <4>3
    <3>4. CASE next = "input" BY <3>1, <3>4
    <3>. QED BY <3>2, <3>3, <3>4
  <2>. QED BY <1>0, <1>3, <2>2 DEF BackFits, Begun
<1>9. FreshFits(s)' BY <1>0 DEF FreshFits
<1>. QED BY <1>2, <1>3, <1>7, <1>8, <1>9

\* The page hears an answer.
LEMMA HearKeeps ==
  ASSUME BarrierTyped, Steady, NEW s \in PageSessions, WireFits(s), BackFits(s), FreshFits(s), onPage' = onPage,
         host[s].back # <<>>, host' = [host EXCEPT ![s].back = Tail(@)]
  PROVE  /\ host' \in [PageSessions -> Host] /\ (\A z \in PageSessions \ {s} : host'[z] = host[z])
         /\ host'[s].dispatched = host[s].dispatched
         /\ WireFits(s)' /\ BackFits(s)' /\ FreshFits(s)'
<1>. PICK back : back = host[s].back OBVIOUS
<1>. PICK back1 : back1 = Tail(back) OBVIOUS
<1>0. host \in [PageSessions -> Host] /\ back \in Seq(Barriers \cup {"ping"}) BY DEF BarrierTyped, Host
<1>1. /\ back1 \in Seq(Barriers \cup {"ping"}) /\ Len(back1) = Len(back) - 1 /\ Len(back) \in Nat
      /\ \A i \in 1..Len(back1) : back1[i] = back[i + 1]
  BY <1>0, HeadTailProperties
<1>2. /\ host' \in [PageSessions -> Host] /\ (\A z \in PageSessions \ {s} : host'[z] = host[z])
      /\ host'[s].wire = host[s].wire /\ host'[s].sent = host[s].sent /\ host'[s].back = back1
      /\ host'[s].dispatched = host[s].dispatched
  <2>1. /\ host' = [z \in PageSessions |-> host'[z]] /\ (\A z \in PageSessions \ {s} : host'[z] = host[z])
        /\ host'[s] = [host[s] EXCEPT !.back = back1]
    BY <1>0
  <2>2. host[s] \in Host BY <1>0
  <2>3. /\ host'[s] \in Host /\ host'[s].wire = host[s].wire /\ host'[s].sent = host[s].sent /\ host'[s].back = back1
        /\ host'[s].dispatched = host[s].dispatched
    BY <1>1, <2>1, <2>2 DEF Host
  <2>4. host' \in [PageSessions -> Host] BY <1>0, <2>1, <2>3
  <2>. QED BY <2>1, <2>3, <2>4
<1>3. WireFits(s)'
  <2>1. PICK f \in [0..Len(host[s].wire) -> Nat] : Tally(s, f) BY DEF WireFits
  <2>. PICK w : w = host[s].wire OBVIOUS
  <2>2. /\ f[0] = host[s].dispatched
        /\ \A i \in 1..Len(w) : f[i] = f[i - 1] + Counts(w[i]) /\ (w[i] \in Barriers => Begun(w[i], s, f[i]))
        /\ onPage.connected /\ onPage.session = s => f[Len(w)] = host[s].sent
    BY <2>1 DEF Tally
  <2>3. \A i \in 1..Len(w) : w[i] \in Barriers => Begun(w[i], s, f[i])' BY <2>2 DEF Steady, Begun
  <2>4. host'[s].wire = w /\ host'[s].sent = host[s].sent /\ host'[s].dispatched = host[s].dispatched BY <1>2
  <2>5. Tally(s, f)' BY <2>1, <2>2, <2>3, <2>4 DEF Tally, Counts
  <2>. QED BY <2>1, <2>4, <2>5 DEF WireFits
<1>4. BackFits(s)'
  <2>1. ASSUME NEW i \in 1..Len(back1), back1[i] \in Barriers PROVE Begun(back1[i], s, host[s].dispatched)
    <3>1. i + 1 \in 1..Len(back) /\ back1[i] = back[i + 1] BY <1>1
    <3>. QED BY <2>1, <3>1 DEF BackFits
  <2>. QED BY <1>2, <2>1 DEF BackFits, Begun, Steady
<1>5. FreshFits(s)' BY <1>2 DEF FreshFits
<1>. QED BY <1>2, <1>3, <1>4, <1>5

\* A session is lost with what was on its wire.
LEMMA LossKeeps ==
  ASSUME BarrierTyped, HostFits, LosesSession
  PROVE  HostFits' /\ host' \in [PageSessions -> Host] /\ onPage' \in [session : PageSessions, connected : BOOLEAN]
<1>. PICK s \in PageSessions : s = onPage.session BY DEF BarrierTyped
<1>0. host \in [PageSessions -> Host] /\ barrier' = barrier BY DEF BarrierTyped, Host, LosesSession
<1>1. onPage' \in [session : PageSessions, connected : BOOLEAN] /\ onPage'.session = s /\ ~onPage'.connected
  BY DEF BarrierTyped, LosesSession
<1>2. Steady BY <1>0 DEF Steady
<1>3. /\ host' \in [PageSessions -> Host] /\ (\A z \in PageSessions \ {s} : host'[z] = host[z])
      /\ host'[s].wire = <<>> /\ host'[s].back = host[s].back /\ host'[s].dispatched = host[s].dispatched
  <2>1. /\ host' = [z \in PageSessions |-> host'[z]] /\ (\A z \in PageSessions \ {s} : host'[z] = host[z])
        /\ host'[s] = [host[s] EXCEPT !.wire = <<>>]
    BY <1>0 DEF LosesSession
  <2>2. host[s] \in Host BY <1>0
  <2>. PICK none : none = <<>> OBVIOUS
  <2>5. none \in Seq(Barriers \cup {"input", "ping"}) OBVIOUS
  <2>6. host'[s] = [host[s] EXCEPT !.wire = none] BY <2>1
  <2>3. /\ host'[s] \in Host /\ host'[s].wire = none /\ host'[s].back = host[s].back
        /\ host'[s].dispatched = host[s].dispatched
    BY <2>2, <2>5, <2>6 DEF Host
  <2>4. host' \in [PageSessions -> Host] BY <1>0, <2>1, <2>3
  <2>. QED BY <2>1, <2>3, <2>4
<1>4. ASSUME NEW z \in PageSessions PROVE WireFits(z)' /\ BackFits(z)' /\ FreshFits(z)'
  <2>0. WireFits(z) /\ BackFits(z) /\ FreshFits(z) BY DEF HostFits
  <2>1. CASE z # s BY <1>1, <1>2, <1>3, <2>0, <2>1, SessionStill
  <2>2. CASE z = s
    <3>. PICK n \in Nat : n = host[s].dispatched BY <1>0 DEF Host
    <3>. DEFINE g == [i \in 0..0 |-> n]
    <3>1. g \in [0..Len(<<>>) -> Nat] /\ g[0] = n /\ Len(<<>>) = 0 OBVIOUS
    <3>. HIDE DEF g
    <3>2. Tally(s, g)' BY <1>1, <1>3, <3>1 DEF Tally
    <3>3. WireFits(s)' BY <1>3, <3>1, <3>2 DEF WireFits
    <3>4. BackFits(s)' BY <1>0, <1>3, <2>0, <2>2 DEF BackFits, Begun
    <3>5. FreshFits(s)' BY <1>1, BarrierAssumption DEF FreshFits
    <3>. QED BY <2>2, <3>3, <3>4, <3>5
  <2>. QED BY <2>1, <2>2
<1>5. ASSUME NEW b \in Barriers PROVE PassedFits(b)'
  <2>1. \A z \in PageSessions : host'[z].dispatched = host[z].dispatched /\ host[z].dispatched \in Nat
    BY <1>0, <1>3 DEF Host
  <2>2. \A z \in PageSessions : host'[z].dispatched >= host[z].dispatched /\ host'[z].dispatched \in Nat BY <2>1
  <2>. QED BY <1>0, <1>2, <2>2, PassedStays
<1>. QED BY <1>1, <1>3, <1>4, <1>5 DEF HostFits

\* Another follows it, of which nothing was sent yet.
LEMMA NextKeeps ==
  ASSUME BarrierTyped, HostFits, NextSession
  PROVE  HostFits' /\ onPage' \in [session : PageSessions, connected : BOOLEAN]
<1>0. host' = host /\ barrier' = barrier /\ onPage.session \in Nat BY BarrierAssumption DEF BarrierTyped, NextSession
<1>1. onPage' \in [session : PageSessions, connected : BOOLEAN] /\ onPage'.session = onPage.session + 1
  BY DEF NextSession
<1>2. Steady BY <1>0 DEF Steady
<1>3. ASSUME NEW z \in PageSessions PROVE WireFits(z)' /\ BackFits(z)' /\ FreshFits(z)'
  <2>0. WireFits(z) /\ BackFits(z) /\ FreshFits(z) /\ z \in Nat BY BarrierAssumption DEF HostFits
  <2>1. z > onPage'.session => z > onPage.session BY <1>0, <1>1, <2>0
  <2>2. CASE z # onPage.session + 1 BY <1>0, <1>1, <1>2, <2>0, <2>1, <2>2, SessionStill
  <2>3. CASE z = onPage.session + 1
    <3>1. host[z].wire = <<>> /\ host[z].sent = 0 /\ host[z].dispatched = 0 BY <1>0, <2>0, <2>3 DEF FreshFits
    <3>2. PICK f \in [0..Len(host[z].wire) -> Nat] : Tally(z, f) BY <2>0 DEF WireFits
    <3>3. f[0] = 0 BY <3>1, <3>2 DEF Tally
    <3>4. Tally(z, f)' BY <1>0, <3>1, <3>2, <3>3 DEF Tally
    <3>5. WireFits(z)' BY <1>0, <3>2, <3>4 DEF WireFits
    <3>6. BackFits(z)' BY <1>0, <2>0 DEF BackFits, Begun
    <3>7. FreshFits(z)' BY <1>0, <2>0, <2>1 DEF FreshFits
    <3>. QED BY <3>5, <3>6, <3>7
  <2>. QED BY <2>2, <2>3
<1>4. ASSUME NEW b \in Barriers PROVE PassedFits(b)' BY <1>0 DEF HostFits, PassedFits
<1>. QED BY <1>1, <1>3, <1>4 DEF HostFits

\* The end of a barrier, by an answer, its watchdog or its deadline, as the host
\* sees it: what was begun stays begun, and it passed only if it was answered.
LEMMA FinishSteady ==
  ASSUME BarrierTyped, NEW b \in Waiting, NEW at \in {"passed", "failed"}, FinishBarrier(b, at)
  PROVE  Steady
<1>1. b \in Barriers /\ barrier[b].at = "waiting" BY DEF Waiting
<1>. QED BY <1>1, FinishedType DEF Steady

\* A barrier that ends knows what was dispatched when it did.
LEMMA FinishKeepsPassed ==
  ASSUME BarrierTyped, HostFits, NEW b \in Waiting, NEW at \in {"passed", "failed"}, FinishBarrier(b, at),
         \A s \in PageSessions : host'[s].dispatched = host[s].dispatched,
         at = "passed" => /\ onPage.session = barrier[b].on
                          /\ host[barrier[b].on].dispatched >= barrier[b].due
  PROVE  \A q \in Barriers : PassedFits(q)'
<1>1. b \in Barriers /\ barrier[b].on \in PageSessions BY DEF Waiting, BarrierTyped
<1>2. Steady BY FinishSteady
<1>3. \A s \in PageSessions : host'[s].dispatched >= host[s].dispatched /\ host'[s].dispatched \in Nat
  BY DEF BarrierTyped
<1>4. ASSUME NEW q \in Barriers PROVE PassedFits(q)'
  <2>1. CASE q # b
    <3>1. barrier'[q] = barrier[q] BY <1>1, <2>1, FinishedType
    <3>. QED BY <1>2, <1>3, <3>1, PassedStays
  <2>2. CASE q = b BY <1>1, <2>2, FinishedType DEF PassedFits
  <2>. QED BY <2>1, <2>2
<1>. QED BY <1>4

\* An answer is heard: each of the cases above.
LEMMA HandleKeeps ==
  ASSUME BarrierInv, NEW s \in PageSessions, HandleAnswer(s)
  PROVE  BarrierInv'
<1>. PICK pong : pong = Head(host[s].back) OBVIOUS
<1>0. /\ BarrierTyped /\ RuntimeFits /\ HostFits /\ ClickFits /\ onPage' = onPage /\ click' = click
      /\ host[s].back # <<>> /\ host' = [host EXCEPT ![s].back = Tail(@)]
  BY DEF BarrierInv, HandleAnswer
<1>1. \/ barrier' = barrier /\ runtime' = runtime
      \/ \E b \in Waiting, at \in {"passed", "failed"} :
            FinishBarrier(b, at) /\ (at = "passed" => Current(b) /\ barrier[b].on = s /\ pong = b)
  <2>1. ASSUME NEW b \in Waiting, NEW threw \in BOOLEAN, barrier[b].on = s, Judged(b, pong, threw) # "waiting",
               FinishBarrier(b, Judged(b, pong, threw))
        PROVE  \E at \in {"passed", "failed"} :
                  FinishBarrier(b, at) /\ (at = "passed" => Current(b) /\ barrier[b].on = s /\ pong = b)
    BY <2>1 DEF Judged, IsOwnPong
  <2>. QED BY <2>1 DEF HandleAnswer
<1>2. Steady
  <2>1. CASE barrier' = barrier BY <2>1 DEF Steady
  <2>. QED BY <1>0, <1>1, <2>1, FinishSteady
<1>3. /\ host' \in [PageSessions -> Host] /\ (\A z \in PageSessions : host'[z].dispatched = host[z].dispatched)
      /\ \A z \in PageSessions : WireFits(z)' /\ BackFits(z)' /\ FreshFits(z)'
  <2>1. \A z \in PageSessions : WireFits(z) /\ BackFits(z) /\ FreshFits(z) BY <1>0 DEF HostFits
  <2>2. /\ host' \in [PageSessions -> Host] /\ (\A z \in PageSessions \ {s} : host'[z] = host[z])
        /\ host'[s].dispatched = host[s].dispatched
        /\ WireFits(s)' /\ BackFits(s)' /\ FreshFits(s)'
    BY <1>0, <1>2, <2>1, HearKeeps
  <2>3. \A z \in PageSessions \ {s} : WireFits(z)' /\ BackFits(z)' /\ FreshFits(z)'
    BY <1>0, <1>2, <2>1, <2>2, SessionStill
  <2>. QED BY <2>2, <2>3
<1>4. ClickFits' BY <1>0 DEF ClickFits
<1>5. CASE barrier' = barrier /\ runtime' = runtime
  <2>1. RuntimeFits' BY <1>0, <1>5 DEF RuntimeFits, MarkerFits, ChainFits, OtherFits
  <2>2. \A b \in Barriers : PassedFits(b)'
    <3>1. \A z \in PageSessions : host[z].dispatched \in Nat BY <1>0 DEF BarrierTyped
    <3>2. \A z \in PageSessions : host'[z].dispatched >= host[z].dispatched /\ host'[z].dispatched \in Nat
      BY <1>3, <3>1
    <3>. QED BY <1>0, <1>2, <1>5, <3>2, PassedStays
  <2>3. BarrierTyped' BY <1>0, <1>3, <1>5 DEF BarrierTyped, Host
  <2>. QED BY <1>3, <1>4, <2>1, <2>2, <2>3 DEF BarrierInv, HostFits
<1>6. ASSUME NEW b \in Waiting, NEW at \in {"passed", "failed"}, FinishBarrier(b, at),
             at = "passed" => Current(b) /\ barrier[b].on = s /\ pong = b
      PROVE  BarrierInv'
  <2>0. b \in Barriers BY DEF Waiting
  <2>1. runtime' \in [PageSessions -> Runtime] /\ RuntimeFits' BY <1>0, <1>6, FinishKeepsRuntime
  <2>2. at = "passed" => onPage.session = barrier[b].on /\ host[barrier[b].on].dispatched >= barrier[b].due
    <3>1. SUFFICES ASSUME at = "passed" PROVE onPage.session = s /\ host[s].dispatched >= barrier[b].due BY <1>6
    <3>2. host[s].back \in Seq(Barriers \cup {"ping"}) /\ host[s].dispatched \in Nat /\ barrier[b].due \in Nat
      BY <1>0, <2>0 DEF BarrierTyped
    <3>3. 1 \in 1..Len(host[s].back) /\ host[s].back[1] = b BY <1>0, <1>6, <3>1, <3>2
    <3>4. Begun(b, s, host[s].dispatched) BY <1>0, <2>0, <3>3 DEF HostFits, BackFits
    <3>. QED BY <1>6, <3>1, <3>2, <3>4 DEF Begun, Current
  <2>3. \A q \in Barriers : PassedFits(q)' BY <1>0, <1>3, <1>6, <2>2, FinishKeepsPassed
  <2>4. barrier' \in [Barriers -> [at : {"idle", "waiting", "passed", "failed"}, on : PageSessions, due : Nat,
                                   passedIn : PageSessions \cup {0}]]
    BY <1>0, <1>6, <2>0, FinishedType
  <2>5. BarrierTyped' BY <1>0, <1>3, <2>1, <2>4 DEF BarrierTyped, Host, Runtime
  <2>. QED BY <1>3, <1>4, <2>1, <2>3, <2>5 DEF BarrierInv, HostFits
<1>. QED BY <1>1, <1>5, <1>6

\* A barrier that is given up has passed in no session.
LEMMA EndKeeps ==
  ASSUME BarrierInv, NEW b \in Barriers, BarrierWatchdog(b) \/ BarrierDeadline(b)
  PROVE  BarrierInv'
<1>0. /\ BarrierTyped /\ RuntimeFits /\ HostFits /\ ClickFits /\ onPage' = onPage /\ click' = click /\ host' = host
      /\ b \in Waiting /\ FinishBarrier(b, "failed")
  BY DEF BarrierInv, BarrierWatchdog, BarrierDeadline
<1>1. Steady BY <1>0, FinishSteady
<1>2. runtime' \in [PageSessions -> Runtime] /\ RuntimeFits' BY <1>0, FinishKeepsRuntime
<1>3. \A q \in Barriers : PassedFits(q)' BY <1>0, FinishKeepsPassed
<1>4. \A z \in PageSessions : WireFits(z)' /\ BackFits(z)' /\ FreshFits(z)'
  <2>1. \A z \in PageSessions : WireFits(z) /\ BackFits(z) /\ FreshFits(z) BY <1>0 DEF HostFits
  <2>. QED BY <1>0, <1>1, <2>1, SessionStill
<1>5. barrier' \in [Barriers -> [at : {"idle", "waiting", "passed", "failed"}, on : PageSessions, due : Nat,
                                 passedIn : PageSessions \cup {0}]]
  BY <1>0, FinishedType
<1>6. BarrierTyped' BY <1>0, <1>2, <1>5 DEF BarrierTyped, Runtime
<1>7. ClickFits' BY <1>0 DEF ClickFits
<1>. QED BY <1>2, <1>3, <1>4, <1>6, <1>7 DEF BarrierInv, HostFits

\* A barrier is last on the wire, and due is all that was sent before it.
LEMMA BeginKeeps ==
  ASSUME BarrierInv, NEW b \in Barriers, BeginBarrier(b)
  PROVE  BarrierInv'
<1>. PICK s \in PageSessions : s = onPage.session BY DEF BarrierInv, BarrierTyped
<1>0. BarrierTyped /\ RuntimeFits /\ HostFits /\ ClickFits /\ onPage' = onPage /\ click' = click
  BY DEF BarrierInv, BeginBarrier
<1>1. /\ runtime' \in [PageSessions -> Runtime] /\ RuntimeFits'
      /\ barrier' \in [Barriers -> [at : {"idle", "waiting", "passed", "failed"}, on : PageSessions, due : Nat,
                                    passedIn : PageSessions \cup {0}]]
      /\ \A q \in Barriers \ {b} : barrier'[q] = barrier[q]
      /\ barrier[b].at = "idle" /\ barrier'[b].at \in {"waiting", "failed"}
      /\ barrier'[b].on = s /\ barrier'[b].due = host[s].sent
      /\ host' = host \/ (host' = [host EXCEPT ![s].wire = Append(@, b)] /\ onPage.connected)
  BY <1>0, BeginKeepsRuntime
<1>2. Steady BY <1>1 DEF Steady
<1>3. host \in [PageSessions -> Host] /\ \A z \in PageSessions : WireFits(z) /\ BackFits(z) /\ FreshFits(z)
  BY <1>0 DEF HostFits, BarrierTyped, Host
<1>4. /\ host' \in [PageSessions -> Host] /\ (\A z \in PageSessions : host'[z].dispatched = host[z].dispatched)
      /\ \A z \in PageSessions : WireFits(z)' /\ BackFits(z)' /\ FreshFits(z)'
  <2>1. CASE host' = host BY <1>0, <1>2, <1>3, <2>1, SessionStill
  <2>2. CASE host' = [host EXCEPT ![s].wire = Append(@, b)] /\ onPage.connected
    <3>. PICK n \in Nat : n = host[s].sent BY <1>3 DEF Host
    <3>1. host' = [host EXCEPT ![s].wire = Append(host[s].wire, b), ![s].sent = n]
      <4>. PICK w1 : w1 = Append(host[s].wire, b) OBVIOUS
      <4>1. host[s] \in Host /\ host[s].sent = n BY <1>3
      <4>2. [host[s] EXCEPT !.wire = w1] = [host[s] EXCEPT !.wire = w1, !.sent = n] BY <4>1 DEF Host
      <4>3. [host EXCEPT ![s].wire = w1] = [host EXCEPT ![s].wire = w1, ![s].sent = n] BY <1>3, <4>2
      <4>. QED BY <1>3, <2>2, <4>3
    <3>2. n = host[s].sent + Counts(b) BY DEF Counts
    <3>3. Begun(b, s, n)' BY <1>1 DEF Begun
    <3>4. /\ host' \in [PageSessions -> Host] /\ (\A z \in PageSessions \ {s} : host'[z] = host[z])
          /\ host'[s].dispatched = host[s].dispatched /\ WireFits(s)' /\ BackFits(s)' /\ FreshFits(s)'
      BY <1>0, <1>2, <1>3, <2>2, <3>1, <3>2, <3>3, SendKeeps
    <3>5. \A z \in PageSessions \ {s} : WireFits(z)' /\ BackFits(z)' /\ FreshFits(z)'
      BY <1>0, <1>2, <1>3, <3>4, SessionStill
    <3>. QED BY <3>4, <3>5
  <2>. QED BY <1>1, <2>1, <2>2
<1>5. ASSUME NEW q \in Barriers PROVE PassedFits(q)'
  <2>1. CASE q = b BY <1>1, <2>1 DEF PassedFits
  <2>2. CASE q # b
    <3>1. \A z \in PageSessions : host'[z].dispatched >= host[z].dispatched /\ host'[z].dispatched \in Nat
      BY <1>3, <1>4 DEF Host
    <3>. QED BY <1>0, <1>1, <1>2, <2>2, <3>1, PassedStays
  <2>. QED BY <2>1, <2>2
<1>6. BarrierTyped' BY <1>0, <1>1, <1>4 DEF BarrierTyped, Host, Runtime
<1>7. ClickFits' BY <1>0 DEF ClickFits
<1>. QED BY <1>1, <1>4, <1>5, <1>6, <1>7 DEF BarrierInv, HostFits

\* Steps of the page and of the host that no barrier takes.
LEMMA TrafficKeeps ==
  ASSUME BarrierInv, \/ \E kind \in {"input", "ping"} : SendCommand(kind)
                     \/ \E s \in PageSessions : HostDispatches(s) \/ OtherReplaces(s)
                     \/ LosesSession \/ NextSession
  PROVE  BarrierInv'
<1>0. /\ BarrierTyped /\ RuntimeFits /\ HostFits /\ ClickFits /\ click' = click /\ barrier' = barrier
  BY DEF BarrierInv, SendCommand, HostDispatches, OtherReplaces, LosesSession, NextSession
<1>1. Steady BY <1>0 DEF Steady
<1>2. host \in [PageSessions -> Host] /\ \A z \in PageSessions : WireFits(z) /\ BackFits(z) /\ FreshFits(z)
  BY <1>0 DEF HostFits, BarrierTyped, Host
<1>3. ClickFits' BY <1>0 DEF ClickFits
<1>4. ASSUME runtime' = runtime PROVE RuntimeFits' BY <1>0, <1>4 DEF RuntimeFits, MarkerFits, ChainFits, OtherFits
<1>5. ASSUME NEW s \in PageSessions, onPage' = onPage, host' \in [PageSessions -> Host],
             \A z \in PageSessions \ {s} : host'[z] = host[z], host'[s].dispatched >= host[s].dispatched,
             WireFits(s)' /\ BackFits(s)' /\ FreshFits(s)'
      PROVE  HostFits'
  <2>1. \A z \in PageSessions \ {s} : WireFits(z)' /\ BackFits(z)' /\ FreshFits(z)'
    BY <1>1, <1>2, <1>5, SessionStill
  <2>2. ASSUME NEW z \in PageSessions PROVE host'[z].dispatched >= host[z].dispatched /\ host'[z].dispatched \in Nat
    <3>1. host[z] \in Host /\ host'[z] \in Host BY <1>2, <1>5
    <3>2. host[z].dispatched \in Nat /\ host'[z].dispatched \in Nat BY <3>1 DEF Host
    <3>3. CASE z = s BY <1>5, <3>2, <3>3
    <3>4. CASE z # s
      <4>1. host'[z].dispatched = host[z].dispatched BY <1>5, <3>4
      <4>. QED BY <3>2, <4>1
    <3>. QED BY <3>3, <3>4
  <2>3. \A q \in Barriers : PassedFits(q)' BY <1>0, <1>1, <2>2, PassedStays
  <2>. QED BY <1>5, <2>1, <2>3 DEF HostFits
<1>6. ASSUME NEW kind \in {"input", "ping"}, SendCommand(kind) PROVE BarrierInv'
  <2>. PICK s \in PageSessions : s = onPage.session BY <1>0 DEF BarrierTyped
  <2>. PICK n \in Nat : n = host[s].sent + 1 BY <1>2 DEF Host
  <2>1. onPage' = onPage /\ onPage.connected /\ runtime' = runtime BY <1>6 DEF SendCommand
  <2>2. host' = [host EXCEPT ![s].wire = Append(host[s].wire, kind), ![s].sent = n] BY <1>2, <1>6 DEF SendCommand
  <2>3. kind \notin Barriers BY BarrierAssumption
  <2>4. n = host[s].sent + Counts(kind) BY <2>3 DEF Counts
  <2>5. /\ host' \in [PageSessions -> Host] /\ (\A z \in PageSessions \ {s} : host'[z] = host[z])
        /\ host'[s].dispatched = host[s].dispatched /\ WireFits(s)' /\ BackFits(s)' /\ FreshFits(s)'
    BY <1>0, <1>1, <1>2, <2>1, <2>2, <2>3, <2>4, SendKeeps
  <2>6. host'[s].dispatched >= host[s].dispatched BY <1>2, <2>5 DEF Host
  <2>7. HostFits' BY <1>5, <2>1, <2>5, <2>6
  <2>8. BarrierTyped' BY <1>0, <2>1, <2>5 DEF BarrierTyped, Host
  <2>. QED BY <1>3, <1>4, <2>1, <2>7, <2>8 DEF BarrierInv
<1>7. ASSUME NEW s \in PageSessions, HostDispatches(s) PROVE BarrierInv'
  <2>1. onPage' = onPage /\ runtime' = runtime BY <1>7 DEF HostDispatches
  <2>2. /\ host' \in [PageSessions -> Host] /\ (\A z \in PageSessions \ {s} : host'[z] = host[z])
        /\ host'[s].dispatched >= host[s].dispatched /\ WireFits(s)' /\ BackFits(s)' /\ FreshFits(s)'
    BY <1>0, <1>2, <1>7, DispatchKeeps
  <2>3. HostFits' BY <1>5, <2>1, <2>2
  <2>4. BarrierTyped' BY <1>0, <2>1, <2>2 DEF BarrierTyped, Host
  <2>. QED BY <1>3, <1>4, <2>1, <2>3, <2>4 DEF BarrierInv
<1>8. ASSUME NEW s \in PageSessions, OtherReplaces(s) PROVE BarrierInv'
  <2>1. onPage' = onPage /\ host' = host BY <1>8 DEF OtherReplaces
  <2>2. runtime' \in [PageSessions -> Runtime] /\ RuntimeFits' BY <1>0, <1>8, OtherKeepsRuntime
  <2>3. BarrierTyped' BY <1>0, <2>1, <2>2 DEF BarrierTyped, Runtime
  <2>4. host[s].dispatched >= host[s].dispatched BY <1>2 DEF Host
  <2>5. WireFits(s)' /\ BackFits(s)' /\ FreshFits(s)' BY <1>1, <1>2, <2>1, SessionStill
  <2>6. HostFits' BY <1>2, <1>5, <2>1, <2>4, <2>5
  <2>. QED BY <1>3, <2>2, <2>3, <2>6 DEF BarrierInv
<1>9. CASE LosesSession \/ NextSession
  <2>1. runtime' = runtime BY <1>9 DEF LosesSession, NextSession
  <2>2. CASE LosesSession
    <3>1. HostFits' /\ host' \in [PageSessions -> Host] /\ onPage' \in [session : PageSessions, connected : BOOLEAN]
      BY <1>0, <2>2, LossKeeps
    <3>2. BarrierTyped' BY <1>0, <2>1, <3>1 DEF BarrierTyped, Host
    <3>. QED BY <1>3, <1>4, <2>1, <3>1, <3>2 DEF BarrierInv
  <2>3. CASE NextSession
    <3>1. HostFits' /\ onPage' \in [session : PageSessions, connected : BOOLEAN] BY <1>0, <2>3, NextKeeps
    <3>2. BarrierTyped' BY <1>0, <2>1, <2>3, <3>1 DEF BarrierTyped, NextSession
    <3>. QED BY <1>3, <1>4, <2>1, <3>1, <3>2 DEF BarrierInv
  <2>. QED BY <1>9, <2>2, <2>3
<1>. QED BY <1>6, <1>7, <1>8, <1>9

\* A step in which neither page nor host moves.
LEMMA NothingMoves ==
  ASSUME HostFits, onPage' = onPage, host' = host, barrier' = barrier
  PROVE  HostFits'
<1>1. Steady BY DEF Steady
<1>2. \A z \in PageSessions : WireFits(z)' /\ BackFits(z)' /\ FreshFits(z)' BY <1>1, SessionStill DEF HostFits
<1>3. \A b \in Barriers : PassedFits(b)' BY DEF HostFits, PassedFits
<1>. QED BY <1>2, <1>3 DEF HostFits

\* The steps of waitForClick, and of the page that it watches.
LEMMA ClickKeeps ==
  ASSUME BarrierInv, PollClick \/ ClickDeadline \/ PageChanges
  PROVE  BarrierInv'
<1>0. /\ BarrierTyped /\ RuntimeFits /\ HostFits /\ ClickFits /\ onPage' = onPage /\ barrier' = barrier
      /\ runtime' = runtime /\ host' = host
  BY DEF BarrierInv, PollClick, ClickDeadline, PageChanges, Polling
<1>1. RuntimeFits' BY <1>0 DEF RuntimeFits, MarkerFits, ChainFits, OtherFits
<1>2. HostFits' BY <1>0, NothingMoves
<1>. DEFINE Click == [at : {"polling", "none", "passed", "failed"}, clicks : Nat, last : {"none", "trusted", "forged"},
                      focused : BOOLEAN, scrolled : BOOLEAN, forged : BOOLEAN]
<1>3. click \in Click BY <1>0 DEF BarrierTyped
<1>4. click' \in Click /\ ClickFits'
  <2>1. CASE PollClick \/ ClickDeadline BY <1>0, <1>3, <2>1 DEF PollClick, ClickDeadline, Polling, TooMany, ClickFits
  <2>2. CASE PageChanges
    <3>1. ASSUME NEW how \in {"trusted", "forged"},
                 click' = [click EXCEPT !.clicks = @ + 1, !.last = how, !.forged = @ \/ how = "forged"]
          PROVE  click' \in Click /\ ClickFits'
      <4>. PICK forged \in BOOLEAN : forged = (click.forged \/ how = "forged") BY <1>3
      <4>. PICK n \in Nat : n = click.clicks + 1 BY <1>3
      <4>1. click' = [click EXCEPT !.clicks = n, !.last = how, !.forged = forged] BY <1>3, <3>1
      <4>2. /\ click' \in Click /\ click'.clicks = n /\ click'.last = how /\ click'.forged = forged
            /\ click'.at = click.at
        BY <1>3, <4>1
      <4>3. click.at = "polling" BY <2>2 DEF PageChanges, Polling
      <4>. QED BY <1>0, <1>3, <4>2, <4>3 DEF ClickFits
    <3>2. CASE click' \in {[click EXCEPT !.focused = ~@], [click EXCEPT !.scrolled = ~@]}
      <4>1. click.at = "polling" BY <2>2 DEF PageChanges, Polling
      <4>. PICK focused \in BOOLEAN, scrolled \in BOOLEAN : focused = ~click.focused /\ scrolled = ~click.scrolled
        OBVIOUS
      <4>2. click' \in {[click EXCEPT !.focused = focused], [click EXCEPT !.scrolled = scrolled]}
        BY <1>3, <3>2
      <4>3. /\ click' \in Click /\ click'.at = click.at /\ click'.clicks = click.clicks
            /\ click'.last = click.last /\ click'.forged = click.forged
        BY <1>3, <4>2
      <4>. QED BY <1>0, <1>3, <4>1, <4>3 DEF ClickFits
    <3>. QED BY <2>2, <3>1, <3>2 DEF PageChanges
  <2>. QED BY <2>1, <2>2
<1>5. BarrierTyped' BY <1>0, <1>4 DEF BarrierTyped
<1>. QED BY <1>1, <1>2, <1>4, <1>5 DEF BarrierInv

\* A barrier that passed saw everything dispatched that was sent before it, in its own
\* session; whichever way one ends it leaves nothing on the page; and the click that was
\* waited for is the only one and a person's (viewer-input-probe.mjs:2-3).
THEOREM ExactBarriers == BarrierSpec => []BarriersAreExact
<1>1. ASSUME BarrierInv, [BarrierNext]_barrierVars PROVE BarrierInv'
  <2>1. CASE UNCHANGED barrierVars
    <3>1. onPage' = onPage /\ runtime' = runtime /\ host' = host /\ barrier' = barrier /\ click' = click
      BY <2>1 DEF barrierVars
    <3>2. BarrierTyped /\ RuntimeFits /\ HostFits /\ ClickFits BY <1>1 DEF BarrierInv
    <3>3. BarrierTyped' /\ ClickFits' BY <3>1, <3>2 DEF BarrierTyped, ClickFits
    <3>4. RuntimeFits' BY <3>1, <3>2 DEF RuntimeFits, MarkerFits, ChainFits, OtherFits
    <3>5. HostFits' BY <3>1, <3>2, NothingMoves
    <3>. QED BY <3>3, <3>4, <3>5 DEF BarrierInv
  <2>2. CASE BarrierNext
    BY <1>1, <2>2, BeginKeeps, EndKeeps, HandleKeeps, TrafficKeeps, ClickKeeps DEF BarrierNext
  <2>. QED BY <1>1, <2>1, <2>2
<1>2. ASSUME BarrierInv PROVE BarriersAreExact
  <2>0. BarrierTyped /\ RuntimeFits /\ HostFits /\ ClickFits BY <1>2 DEF BarrierInv
  <2>1. ASSUME NEW b \in Barriers, barrier[b].at \in {"passed", "failed"}
        PROVE  b \notin runtime[barrier[b].on].marker /\ ~InFront(b)
    <3>1. PICK s \in PageSessions : s = barrier[b].on BY <2>0 DEF BarrierTyped
    <3>2. b \notin runtime[s].marker BY <2>0, <2>1 DEF RuntimeFits, MarkerFits
    <3>3. ~InFront(b)
      <4>. PICK chain : chain = runtime[s].chain OBVIOUS
      <4>1. SUFFICES ASSUME chain # <<>>, chain[Len(chain)] = b PROVE FALSE BY <3>1 DEF InFront, Last
      <4>2. chain \in Seq(Barriers \cup {"other"}) BY <2>0 DEF BarrierTyped
      <4>3. Len(chain) \in 1..Len(chain) BY <4>1, <4>2
      <4>. QED BY <2>0, <2>1, <4>1, <4>3 DEF RuntimeFits, ChainFits
    <3>. QED BY <3>1, <3>2, <3>3
  <2>2. ASSUME NEW s \in PageSessions, runtime[s].placed PROVE "other" \in ToSet(runtime[s].chain)
    <3>1. PICK i \in 1..Len(runtime[s].chain) : runtime[s].chain[i] = "other" BY <2>0, <2>2 DEF RuntimeFits, OtherFits
    <3>2. DOMAIN runtime[s].chain = 1..Len(runtime[s].chain) BY <2>0 DEF BarrierTyped
    <3>. QED BY <3>1, <3>2 DEF ToSet
  <2>3. \A b \in Barriers : PassedFits(b) /\ (barrier[b].at = "waiting" => runtime[barrier[b].on].marker = {b})
    BY <2>0 DEF HostFits, RuntimeFits, MarkerFits
  <2>. QED BY <2>0, <2>1, <2>2, <2>3 DEF BarriersAreExact, PassedFits, ClickFits
<1>. QED BY BarriersStart, <1>1, <1>2, PTL DEF BarrierSpec
-----------------------------------------------------------------------------
(* The programs that qualify a runtime: the fixture tab, a checkpoint, the   *)
(* capture benchmark and the Compose project.                                *)
TabAts == {"create", "metadata", "launch", "views", "diagnose", "shut", "close", "report", "over"}
CommandAts == {"none", "connect", "target", "attach", "token", "act", "undo", "answered", "refused"}
CheckRecord == [program : {"controls", "scroll"}, at : TabAts, known : BOOLEAN, asks : CommandKinds \cup {"nobody"},
                failed : BOOLEAN, browser : BOOLEAN, report : {"none", "passed", "failed"}]
TabTyped ==
  /\ check \in CheckRecord
  /\ check.program = "scroll" => check.at \notin {"metadata", "diagnose"}
  /\ commands \in [CommandKinds -> CommandAts]
  /\ fixtureTab \in {"none", "blank", "marked", "closed"}
\* Who is asked, by the host's step: only the one who is asked may be on its way while
\* nothing has failed.
CommandsFit ==
  /\ check.asks = "use" => check.at \in {"metadata", "views"}
  /\ \A k \in CommandKinds \ {"use"} : check.asks = k => check.at = k
  /\ ~check.failed => \A k \in CommandKinds : k # check.asks => commands[k] \in {"none", "answered"}
  /\ check.at = "diagnose" => check.failed
  /\ check.at = "create" => ~check.known
  /\ ~check.failed /\ check.at # "create" => check.known
\* Nobody makes the tab again when it is closed.
CreatedFirst ==
  /\ check.known => commands["create"] = "answered"
  /\ commands["close"] # "none" => check.known
  /\ commands["close"] = "answered" => fixtureTab = "closed"
\* What lies behind the host's step when nothing has failed.
StepsBehind ==
  /\ ~check.failed /\ check.at \in (IF check.program = "controls" THEN {"report", "over"} ELSE {"shut", "over"}) =>
       commands["close"] = "answered"
  /\ ~check.failed /\ check.program = "controls" /\ check.at \in {"close", "report", "over"} => ~check.browser
  /\ ~check.failed /\ check.at = "over" => ~check.browser /\ check.report = "passed"
  /\ ~check.failed /\ check.program = "scroll" /\ check.at \in {"close", "shut"} => check.report = "passed"
  /\ check.report # "none" => IF check.program = "controls" THEN check.at = "over" ELSE check.at \in {"close", "shut", "over"}
  /\ check.program = "controls" /\ check.report = "passed" => commands["close"] = "answered" /\ ~check.browser
TabInv == TabTyped /\ CommandsFit /\ CreatedFirst /\ StepsBehind

LookTyped ==
  /\ x11 \in Screens
  /\ look \in [program : {"controls", "scroll"},
               at : {"first", "size", "grab", "second", "regrab", "judge", "passed", "failed", "threw"},
               width : Nat, size : Nat, reference : Seq(Nat), second : Seq(Nat), still : BOOLEAN, tries : Nat,
               moves : Nat, truth : Seq(Nat)]
\* The picture that was grabbed is the one of the second look.
Grabbed == look.reference = Cut(look.truth, look.width) /\ Len(look.truth) >= look.width
LookFits ==
  /\ look.at \in {"grab", "second"} /\ look.moves = 0 => look.size = Len(x11)
  /\ look.at = "second" /\ look.moves = 0 => look.reference = Cut(x11, look.width) /\ Len(x11) >= look.width
  /\ look.at \in {"regrab", "judge"} /\ look.moves = 0 => look.truth = x11 /\ look.size = Len(look.truth)
  /\ look.at = "regrab" /\ look.moves = 0 => Grabbed
  /\ look.at = "regrab" /\ look.moves <= 1 => look.truth = x11 \/ (Grabbed /\ look.size = Len(look.truth))
  /\ look.at = "judge" /\ look.moves <= 1 =>
       (look.still => Grabbed) /\ (look.truth = x11 \/ look.size = Len(look.truth))
LookInv == LookTyped /\ LookFits /\ LookIsExact

Colours(n) == {0} \cup {MarkerColour(k) : k \in 1..n}
SampleRecord ==
  [at : {"pause", "waits", "close", "over"}, n : 0..Samples, seen : BOOLEAN, latencies : SUBSET (1..Samples),
   timeouts : SUBSET (1..Samples), failed : BOOLEAN, printed : BOOLEAN]
SamplerTyped ==
  /\ sampler \in SampleRecord
  /\ inputs \in Nat /\ painted \in Nat /\ wire \in Seq(Colours(painted))
SamplesFit ==
  /\ painted + inputs <= sampler.n
  /\ sampler.seen => sampler.n >= 1 /\ painted = sampler.n
  /\ \A i \in sampler.latencies : i <= painted
  /\ sampler.at = "waits" => sampler.n >= 1
  /\ sampler.latencies \cap sampler.timeouts = {}
  /\ sampler.at \in {"pause", "waits"} =>
       sampler.latencies \cup sampler.timeouts = 1..(IF sampler.at = "waits" THEN sampler.n - 1 ELSE sampler.n)
  /\ (sampler.at = "close" /\ ~sampler.failed) \/ sampler.printed =>
       sampler.n = Samples /\ painted = Samples /\ sampler.latencies \cup sampler.timeouts = 1..Samples
  /\ sampler.printed => sampler.at = "over"
SamplerInv == SamplerTyped /\ SamplesFit

ComposeRecord == [at : {"prepare", "up", "checks", "verify", "directory", "over"} \cup ThingKinds,
                  failed : BOOLEAN, directory : BOOLEAN, going : BOOLEAN]
ComposeTyped ==
  /\ compose \in ComposeRecord
  /\ things \in [ThingKinds -> {"none", "labelled", "unlabelled"}]
ThingsFit ==
  /\ compose.at \in {"prepare", "up"} => \A t \in ThingKinds : things[t] = "none"
  /\ compose.going => compose.failed /\ compose.at \notin {"prepare", "up"}
  /\ ~compose.failed =>
       /\ compose.at \in {"volume", "verify", "directory", "over"} => things["network"] = "none"
       /\ compose.at \in {"verify", "directory", "over"} => things["volume"] = "none"
       /\ compose.at \in {"directory", "over"} => things["container"] = "none"
       /\ compose.at = "over" => ~compose.directory
ComposeInv == ComposeTyped /\ ThingsFit
QualificationInv == TabInv /\ LookInv /\ SamplerInv /\ ComposeInv

LEMMA TabStart == TabCheckInit => TabInv
<1> SUFFICES ASSUME TabCheckInit PROVE TabInv OBVIOUS
<1>1. /\ check.program \in {"controls", "scroll"} /\ check.at = "create" /\ ~check.known /\ check.asks = "nobody"
      /\ ~check.failed /\ ~check.browser /\ check.report = "none" /\ fixtureTab = "none"
      /\ \A k \in CommandKinds : commands[k] = "none"
  BY DEF TabCheckInit
<1>2. TabTyped
  <2>1. check \in CheckRecord BY DEF TabCheckInit, TabAts, CheckRecord
  <2>2. commands \in [CommandKinds -> CommandAts] BY DEF TabCheckInit, CommandAts
  <2>. QED BY <1>1, <2>1, <2>2 DEF TabTyped
<1>. QED BY <1>1, <1>2 DEF TabInv, CommandsFit, CreatedFirst, StepsBehind, CommandKinds

\* What the container's program does leaves the host alone.
LEMMA ContainerSteps ==
  ASSUME TabInv, NEW k \in CommandKinds,
         ConnectCommand(k) \/ AttachTarget(k) \/ CheckToken(k) \/ ActOnTab(k) \/ CreateTarget \/ UndoCreate
  PROVE TabInv'
<1>. DEFINE kind == IF CreateTarget \/ UndoCreate THEN "create" ELSE k
<1>1. /\ check' = check
      /\ kind \in CommandKinds /\ commands[kind] \notin {"none", "answered", "refused"}
      /\ \E at \in CommandAts \ {"none"} : commands' = [commands EXCEPT ![kind] = at]
      /\ fixtureTab' \in {"none", "blank", "marked", "closed"}
  BY SMTT(30) DEF ConnectCommand, AttachTarget, CheckToken, ActOnTab, CreateTarget, UndoCreate, CommandAt, CommandFails,
     ActsOn, CommandAts, CommandKinds, TabInv, TabTyped, CheckRecord
<1>2. PICK to \in CommandAts \ {"none"} : commands' = [commands EXCEPT ![kind] = to] BY <1>1
<1>3. commands \in [CommandKinds -> CommandAts] /\ commands' \in [CommandKinds -> CommandAts]
  BY <1>1, <1>2 DEF TabInv, TabTyped, CheckRecord
<1>4. commands'[kind] = to /\ \A j \in CommandKinds : j # kind => commands'[j] = commands[j] BY <1>1, <1>2, <1>3
<1>5. TabTyped' BY <1>1, <1>3 DEF TabInv, TabTyped, CheckRecord
<1>6. CommandsFit'
  BY <1>1, <1>4 DEF TabInv, CommandsFit
<1>7. commands["close"] = "answered" => fixtureTab' = fixtureTab
  <2>1. SUFFICES ASSUME commands["close"] = "answered" PROVE fixtureTab' = fixtureTab OBVIOUS
  <2>2. commands["create"] = "answered" /\ kind # "create" /\ kind # "close"
    BY <1>1, <2>1 DEF TabInv, CreatedFirst
  <2>. QED BY <2>2 DEF ConnectCommand, AttachTarget, CheckToken, ActOnTab, CreateTarget, UndoCreate, ActsOn
<1>8. commands'["close"] = "answered" /\ commands["close"] # "answered" => fixtureTab' = "closed"
  <2>1. SUFFICES ASSUME commands'["close"] = "answered", commands["close"] # "answered" PROVE fixtureTab' = "closed" OBVIOUS
  <2>2. kind = "close" /\ to = "answered" BY <1>4, <2>1 DEF CommandKinds
  <2>3. k = "close" /\ ~CreateTarget /\ ~UndoCreate BY <2>2
  <2>. QED BY <1>3, <2>1, <2>3 DEF ConnectCommand, AttachTarget, CheckToken, ActOnTab, ActsOn, CommandAt, CommandFails, CommandKinds
<1>9. CreatedFirst'
  BY <1>1, <1>4, <1>7, <1>8 DEF TabInv, CreatedFirst, CommandKinds
<1>10. StepsBehind'
  BY <1>1, <1>4 DEF TabInv, StepsBehind, CommandKinds
<1>. QED BY <1>5, <1>6, <1>9, <1>10 DEF TabInv

\* Where the host's step goes on, and where it throws to.
LEMMA HostGoes ==
  ASSUME TabInv, check.at # "over"
  PROVE  LET next == Follow[check.program][check.at] IN
         /\ next \in TabAts /\ next # "create"
         /\ GoesOn(check) = [check EXCEPT !.at = next, !.asks = "nobody"]
         /\ check.program = "controls" =>
              /\ next = "diagnose" => FALSE
              /\ check.at = "create" => next = "metadata"
              /\ check.at = "metadata" => next = "launch"
              /\ check.at = "launch" => next = "views"
              /\ check.at \in {"views", "diagnose"} => next = "shut"
              /\ check.at = "shut" => next = "close"
              /\ check.at = "close" => next = "report"
              /\ check.at = "report" => next = "over"
         /\ check.program = "scroll" =>
              /\ check.at = "create" => next = "launch"
              /\ check.at = "launch" => next = "views"
              /\ check.at = "views" => next = "report"
              /\ check.at = "report" => next = "close"
              /\ check.at = "close" => next = "shut"
              /\ check.at = "shut" => next = "over"
  BY DEF TabInv, TabTyped, CheckRecord, TabAts, Follow, GoesOn

LEMMA GoesOnRecord ==
  ASSUME TabInv, check.at # "over"
  PROVE  /\ GoesOn(check) \in CheckRecord
         /\ GoesOn(check).known = check.known /\ GoesOn(check).failed = check.failed
         /\ GoesOn(check).browser = check.browser /\ GoesOn(check).report = check.report
<1>1. PICK next \in TabAts : GoesOn(check) = [check EXCEPT !.at = next, !.asks = "nobody"] BY HostGoes
<1>. QED BY <1>1 DEF TabInv, TabTyped, CheckRecord

\* A command that is asked is on its way, and nobody else is.
LEMMA AskKeeps == ASSUME TabInv, NEW k \in CommandKinds, AskCommand(k) PROVE TabInv'
<1>1. /\ check.asks = "nobody" /\ fixtureTab' = fixtureTab
      /\ (k = "use" /\ check.at \in {"metadata", "views"}) \/ (check.at = k /\ (k = "create" \/ check.known))
      /\ check' = [check EXCEPT !.asks = k] /\ commands' = [commands EXCEPT ![k] = "connect"]
  BY DEF AskCommand, CommandAt
<1>2. TabTyped' BY <1>1 DEF TabInv, TabTyped, CheckRecord, CommandAts
<1>3. /\ check'.program = check.program /\ check'.at = check.at /\ check'.known = check.known /\ check'.asks = k
      /\ check'.failed = check.failed /\ check'.browser = check.browser /\ check'.report = check.report
      /\ \A j \in CommandKinds : commands'[j] = IF j = k THEN "connect" ELSE commands[j]
  BY <1>1 DEF TabInv, TabTyped, CheckRecord
<1>4. CommandsFit'
  <2>1. ASSUME ~check.failed, NEW j \in CommandKinds, j # k PROVE commands'[j] \in {"none", "answered"}
    BY <1>1, <1>3, <2>1 DEF TabInv, CommandsFit, CommandKinds
  <2>0. CommandsFit BY DEF TabInv
  <2>2. \A j \in CommandKinds \ {"use"} : k = j => check.at = j BY <1>1
  <2>3. k = "use" => check.at \in {"metadata", "views"} BY <1>1 DEF TabInv, TabTyped, CheckRecord, TabAts
  <2>. QED BY <1>3, <2>0, <2>1, <2>2, <2>3 DEF CommandsFit
<1>5. CreatedFirst' BY <1>1, <1>3 DEF TabInv, CommandsFit, CreatedFirst, CommandKinds
<1>6. StepsBehind' BY <1>1, <1>3 DEF TabInv, CommandsFit, StepsBehind, CommandKinds
<1>. QED BY <1>2, <1>4, <1>5, <1>6 DEF TabInv

\* A step that throws ends in the diagnosis, the report or the exit.
LEMMA ThrowKeeps ==
  ASSUME TabInv, UNCHANGED <<fixtureTab, commands>>, check.at # "over", check' = Throws(check)
  PROVE  TabInv'
<1>1. PICK to \in {"over", "diagnose", "report"} :
        /\ check' = [check EXCEPT !.failed = TRUE, !.asks = "nobody", !.at = to]
        /\ to = "diagnose" => check.program = "controls"
        /\ to = "over" => check.at \in {"diagnose", "shut", "close", "report"}
        /\ to = "report" => check.program = "scroll" /\ check.at \in {"create", "launch", "views"}
        /\ to = "diagnose" => check.at \in {"create", "metadata", "launch", "views"}
  BY DEF Throws, TabInv, TabTyped, CheckRecord, TabAts
<1>2. TabTyped' BY <1>1 DEF TabInv, TabTyped, CheckRecord, TabAts
<1>3. /\ check'.program = check.program /\ check'.at = to /\ check'.known = check.known /\ check'.asks = "nobody"
      /\ check'.failed /\ check'.browser = check.browser /\ check'.report = check.report
  BY <1>1 DEF TabInv, TabTyped, CheckRecord
<1>4. CommandsFit' BY <1>1, <1>3 DEF CommandsFit, CommandKinds
<1>5. CreatedFirst' BY <1>1, <1>3 DEF TabInv, CreatedFirst
<1>6. StepsBehind' BY <1>1, <1>3 DEF TabInv, TabTyped, CheckRecord, StepsBehind
<1>. QED BY <1>2, <1>4, <1>5, <1>6 DEF TabInv

\* A step that goes on knows the tab, has closed it or has failed by the time it must.
MayGoOn(known, failed, browser, report) ==
  /\ UNCHANGED <<fixtureTab, commands>> /\ check.at # "over"
  /\ check.failed => failed
  /\ ~failed => \A k \in CommandKinds : commands[k] \in {"none", "answered"}
  /\ (check.known => known) /\ (known => commands["create"] = "answered") /\ (~failed => known)
  /\ ~failed /\ check.at = "close" => commands["close"] = "answered"
  /\ check.at = "shut" => ~browser \/ failed
  /\ check.at \in {"launch", "shut"} \/ browser = check.browser
  /\ report = IF check.at # "report" THEN check.report ELSE IF failed THEN "failed" ELSE "passed"
LEMMA GoOnKeeps ==
  ASSUME TabInv, NEW known \in BOOLEAN, NEW failed \in BOOLEAN, NEW browser \in BOOLEAN,
         NEW report \in {"none", "passed", "failed"}, MayGoOn(known, failed, browser, report),
         check' = [GoesOn(check) EXCEPT !.known = known, !.failed = failed, !.browser = browser, !.report = report]
  PROVE  TabInv'
<1>m. /\ UNCHANGED <<fixtureTab, commands>> /\ check.at # "over"
      /\ check.failed => failed
      /\ ~failed => \A k \in CommandKinds : commands[k] \in {"none", "answered"}
      /\ (check.known => known) /\ (known => commands["create"] = "answered") /\ (~failed => known)
      /\ ~failed /\ check.at = "close" => commands["close"] = "answered"
      /\ check.at = "shut" => ~browser \/ failed
      /\ check.at \in {"launch", "shut"} \/ browser = check.browser
      /\ report = IF check.at # "report" THEN check.report ELSE IF failed THEN "failed" ELSE "passed"
  BY DEF MayGoOn
<1>. DEFINE next == Follow[check.program][check.at]
<1>1. /\ check' = [check EXCEPT !.at = next, !.asks = "nobody", !.known = known, !.failed = failed,
                                !.browser = browser, !.report = report]
      /\ next \in TabAts /\ next # "create"
  BY <1>m, HostGoes DEF TabInv, TabTyped, CheckRecord
<1>2. TabTyped
  BY DEF TabInv
<1>0. /\ check.program = "controls" => next # "diagnose"
      /\ check.program = "scroll" => next \notin {"diagnose", "metadata"}
  BY <1>m, <1>2, HostGoes DEF TabTyped, CheckRecord, TabAts
<1>a. check' \in CheckRecord BY <1>1, <1>2 DEF TabTyped, CheckRecord
<1>b. check'.program = check.program /\ check'.at = next BY <1>1, <1>2 DEF TabTyped, CheckRecord
<1>3. TabTyped' BY <1>m, <1>0, <1>2, <1>a, <1>b DEF TabTyped
<1>4. /\ check'.program = check.program /\ check'.at = next /\ check'.known = known /\ check'.asks = "nobody"
      /\ check'.failed = failed /\ check'.browser = browser /\ check'.report = report
  BY <1>1, <1>2 DEF TabTyped, CheckRecord
<1>5. CommandsFit'
  <2>1. next # "diagnose" /\ next # "create" BY <1>0, <1>1, <1>2 DEF TabTyped, CheckRecord
  <2>. QED BY <1>m, <1>4, <2>1 DEF CommandsFit, CommandKinds
<1>6. CreatedFirst' BY <1>m, <1>4 DEF TabInv, CreatedFirst
<1>7. StepsBehind' BY <1>m, <1>2, <1>4, HostGoes, SMTT(60) DEF TabInv, TabTyped, CheckRecord, TabAts, StepsBehind
<1>. QED BY <1>3, <1>5, <1>6, <1>7 DEF TabInv

\* Every step of the host, and of the programs that it has started.
LEMMA TabStep == TabInv /\ [TabCheckNext]_tabCheckVars => TabInv'
<1> SUFFICES ASSUME TabInv, [TabCheckNext]_tabCheckVars PROVE TabInv' OBVIOUS
<1>6. check.known \in BOOLEAN /\ check.failed \in BOOLEAN /\ check.browser \in BOOLEAN /\ check.report \in {"none", "passed", "failed"}
  BY DEF TabInv, TabTyped, CheckRecord
<1>7. CreatedFirst BY DEF TabInv
<1>1. CASE UNCHANGED tabCheckVars
  BY <1>1 DEF tabCheckVars, TabInv, TabTyped, CheckRecord, CommandsFit, CreatedFirst, StepsBehind
<1>2. ASSUME NEW k \in CommandKinds, HearCommand(k) \/ GiveUpCommand(k) PROVE TabInv'
  <2>1. /\ check.asks = k /\ UNCHANGED <<fixtureTab, commands>> /\ check.at # "over"
        /\ (check' = Answers(k) /\ commands[k] = "answered") \/ check' = Denies(k)
    BY <1>2 DEF HearCommand, GiveUpCommand, TabInv, TabTyped, CheckRecord, CommandsFit, CommandKinds
  <2>2. ~check.failed /\ commands[k] = "answered" => \A j \in CommandKinds : commands[j] \in {"none", "answered"}
    BY <2>1 DEF TabInv, CommandsFit
  <2>3. CASE check' = Answers(k) /\ commands[k] = "answered" /\ check.at = "views" /\ k # "create"
    <3>1. check' = [check EXCEPT !.asks = "nobody"] BY <2>3 DEF Answers
    <3>2. TabTyped' BY <2>1, <3>1 DEF TabInv, TabTyped, CheckRecord
    <3>3. /\ check'.program = check.program /\ check'.at = check.at /\ check'.known = check.known
          /\ check'.asks = "nobody" /\ check'.failed = check.failed /\ check'.browser = check.browser
          /\ check'.report = check.report
      BY <3>1 DEF TabInv, TabTyped, CheckRecord
    <3>4. CommandsFit' BY <2>1, <2>2, <2>3, <3>3 DEF TabInv, CommandsFit, CommandKinds
    <3>5. CreatedFirst' /\ StepsBehind' BY <2>1, <3>3 DEF TabInv, CreatedFirst, StepsBehind
    <3>. QED BY <3>2, <3>4, <3>5 DEF TabInv
  <2>4. CASE check' = Answers(k) /\ commands[k] = "answered" /\ (check.at # "views" \/ k = "create")
    <3>. DEFINE known == k = "create" \/ check.known
    <3>1. check' = [GoesOn(check) EXCEPT !.known = known, !.failed = check.failed, !.browser = check.browser,
                                         !.report = check.report]
      <4>1. PICK g \in CheckRecord : /\ g = GoesOn(check) /\ g.known = check.known /\ g.failed = check.failed
                                     /\ g.browser = check.browser /\ g.report = check.report
        BY <2>1, GoesOnRecord
      <4>2. check' = IF k = "create" THEN [g EXCEPT !.known = TRUE] ELSE g BY <2>4, <4>1 DEF Answers
      <4>. QED BY <4>1, <4>2 DEF CheckRecord
    <3>2. check.at = "close" => commands["close"] = "answered"
      BY <2>1, <2>4 DEF TabInv, CommandsFit, CommandKinds
    <3>3. check.at # "shut" /\ check.at # "report" BY <2>1 DEF TabInv, CommandsFit, CommandKinds
    <3>4. known => commands["create"] = "answered" BY <2>4 DEF TabInv, CreatedFirst
    <3>5. ~check.failed => known BY <2>1, <2>4 DEF TabInv, CommandsFit, CommandKinds
    <3>6. MayGoOn(known, check.failed, check.browser, check.report)
      BY <2>1, <2>2, <2>4, <3>2, <3>3, <3>4, <3>5 DEF MayGoOn
    <3>7. known \in BOOLEAN BY <1>6
    <3>. QED BY <1>6, <3>1, <3>6, <3>7, GoOnKeeps
  <2>5. CASE check' = Denies(k) /\ k \notin {"close", "diagnose"} BY <2>1, <2>5, ThrowKeeps DEF Denies
  <2>6. CASE check' = Denies(k) /\ k \in {"close", "diagnose"}
    <3>1. check.at = k /\ check.at # "shut" /\ check.at # "report" BY <2>1, <2>6 DEF TabInv, CommandsFit
    <3>2. check' = [GoesOn(check) EXCEPT !.known = check.known, !.failed = TRUE, !.browser = check.browser,
                                         !.report = check.report]
      <4>1. PICK g \in CheckRecord : /\ g = GoesOn(check) /\ g.known = check.known /\ g.failed = check.failed
                                     /\ g.browser = check.browser /\ g.report = check.report
        BY <2>1, GoesOnRecord
      <4>2. check' = (IF k = "close" THEN [g EXCEPT !.failed = TRUE] ELSE g) /\ (k = "diagnose" => check.failed)
        BY <2>6, <3>1, <4>1 DEF Denies, NotClosed, TabInv, CommandsFit
      <4>3. \A h \in CheckRecord : h = [h EXCEPT !.failed = h.failed]
                /\ [h EXCEPT !.failed = TRUE] =
                     [h EXCEPT !.known = h.known, !.failed = TRUE, !.browser = h.browser, !.report = h.report]
        BY DEF CheckRecord
      <4>4. check' = [g EXCEPT !.failed = TRUE]
        <5>1. CASE k = "close" BY <4>2, <5>1
        <5>2. CASE k = "diagnose"
          <6>1. check.failed = TRUE /\ check' = g BY <1>6, <4>2, <5>2
          <6>. QED BY <4>1, <4>3, <6>1
        <5>. QED BY <2>6, <5>1, <5>2
      <4>. QED BY <4>1, <4>3, <4>4
    <3>3. MayGoOn(check.known, TRUE, check.browser, check.report) BY <1>7, <2>1, <3>1 DEF MayGoOn, CreatedFirst
    <3>. QED BY <1>6, <3>2, <3>3, GoOnKeeps
  <2>. QED BY <2>1, <2>3, <2>4, <2>5, <2>6
<1>3. ASSUME NEW at \in TabAts, at # "over", HostDoes(at), ~check.failed => check.known,
             NEW failed \in BOOLEAN, NEW browser \in BOOLEAN, NEW report \in {"none", "passed", "failed"},
             check' = [GoesOn(check) EXCEPT !.failed = failed, !.browser = browser, !.report = report],
             check.failed => failed, at = "close" => failed, at = "shut" => ~browser \/ failed,
             at \in {"launch", "shut"} \/ browser = check.browser,
             report = IF at # "report" THEN check.report ELSE IF failed THEN "failed" ELSE "passed"
      PROVE  TabInv'
  <2>1. check.at = at /\ check.asks = "nobody" /\ UNCHANGED <<fixtureTab, commands>> BY <1>3 DEF HostDoes
  <2>a. PICK g \in CheckRecord : g = GoesOn(check) /\ g.known = check.known
    BY <1>3, <2>1, GoesOnRecord
  <2>b. [g EXCEPT !.failed = failed, !.browser = browser, !.report = report] =
          [g EXCEPT !.known = check.known, !.failed = failed, !.browser = browser, !.report = report]
    BY <2>a DEF CheckRecord
  <2>2. check' = [GoesOn(check) EXCEPT !.known = check.known, !.failed = failed, !.browser = browser, !.report = report]
    BY <1>3, <2>a, <2>b
  <2>3. ~failed => \A j \in CommandKinds : commands[j] \in {"none", "answered"}
    BY <1>3, <2>1 DEF TabInv, CommandsFit, CommandKinds
  <2>4. MayGoOn(check.known, failed, browser, report) BY <1>3, <1>7, <2>1, <2>3 DEF MayGoOn, CreatedFirst
  <2>. QED BY <1>3, <1>6, <2>2, <2>4, GoOnKeeps
<1>4. ASSUME NEW at \in TabAts, at # "over", HostDoes(at), check' = Throws(check) PROVE TabInv'
  BY <1>4, ThrowKeeps DEF HostDoes
<1>5. check.at # "create" /\ ~check.failed => check.known BY DEF TabInv, CommandsFit
<1>14. check.at # "over" => \A failed \in BOOLEAN, browser \in BOOLEAN, report \in {"none", "passed", "failed"} :
        /\ GoesOn(check) = [GoesOn(check) EXCEPT !.failed = check.failed, !.browser = check.browser, !.report = check.report]
        /\ [GoesOn(check) EXCEPT !.browser = browser] =
             [GoesOn(check) EXCEPT !.failed = check.failed, !.browser = browser, !.report = check.report]
        /\ [GoesOn(check) EXCEPT !.failed = failed] =
             [GoesOn(check) EXCEPT !.failed = failed, !.browser = check.browser, !.report = check.report]
        /\ [GoesOn(check) EXCEPT !.report = report] =
             [GoesOn(check) EXCEPT !.failed = check.failed, !.browser = check.browser, !.report = report]
  <2>1. SUFFICES ASSUME check.at # "over" PROVE <1>14!2 OBVIOUS
  <2>2. PICK g \in CheckRecord : /\ g = GoesOn(check) /\ g.failed = check.failed
                                 /\ g.browser = check.browser /\ g.report = check.report
    BY <2>1, GoesOnRecord
  <2>3. \A failed \in BOOLEAN, browser \in BOOLEAN, report \in {"none", "passed", "failed"} :
          /\ g = [g EXCEPT !.failed = check.failed, !.browser = check.browser, !.report = check.report]
          /\ [g EXCEPT !.browser = browser] =
               [g EXCEPT !.failed = check.failed, !.browser = browser, !.report = check.report]
          /\ [g EXCEPT !.failed = failed] =
               [g EXCEPT !.failed = failed, !.browser = check.browser, !.report = check.report]
          /\ [g EXCEPT !.report = report] =
               [g EXCEPT !.failed = check.failed, !.browser = check.browser, !.report = report]
    BY <2>2 DEF CheckRecord
  <2>. QED BY <2>2, <2>3
<1>8. CASE LaunchViewer
  <2>1. HostDoes("launch") /\ check' \in {[GoesOn(check) EXCEPT !.browser = TRUE], Throws(check)}
        /\ check.at = "launch"
    BY <1>8 DEF LaunchViewer, HostDoes
  <2>. QED BY <1>3, <1>4, <1>5, <1>6, <1>14, <2>1 DEF TabAts
<1>9. CASE EndViews
  <2>1. /\ HostDoes("views") /\ check.at = "views"
        /\ check' \in {GoesOn(check), Throws(check), [GoesOn(check) EXCEPT !.failed = TRUE]}
    BY <1>9 DEF EndViews, HostDoes
  <2>. QED BY <1>3, <1>4, <1>5, <1>6, <1>14, <2>1 DEF TabAts
<1>10. CASE SkipCommand
  <2>1. /\ HostDoes(check.at) /\ check.at \in {"diagnose", "close"} /\ check' = GoesOn(check) /\ ~check.known
    BY <1>10 DEF SkipCommand, HostDoes
  <2>. QED BY <1>3, <1>5, <1>6, <1>14, <2>1 DEF TabAts
<1>11. CASE ShutViewer
  <2>1. HostDoes("shut") /\ check.at = "shut" /\ check' \in {[GoesOn(check) EXCEPT !.browser = FALSE], Throws(check)}
    BY <1>11 DEF ShutViewer, HostDoes
  <2>. QED BY <1>3, <1>4, <1>5, <1>6, <1>14, <2>1 DEF TabAts
<1>12. CASE WriteReport
  <2>1. /\ HostDoes("report") /\ check.at = "report"
        /\ check' \in {[GoesOn(check) EXCEPT !.report = IF check.failed THEN "failed" ELSE "passed"], Throws(check)}
    BY <1>12 DEF WriteReport, HostDoes
  <2>. QED BY <1>3, <1>4, <1>5, <1>6, <1>14, <2>1 DEF TabAts
<1>13. CreateTarget \/ UndoCreate => TabInv'
  BY ContainerSteps DEF CommandKinds
<1>. QED BY <1>1, <1>2, <1>8, <1>9, <1>10, <1>11, <1>12, <1>13, ContainerSteps, AskKeeps DEF TabCheckNext

LEMMA TabHolds == TabInv => TabIsClosed
<1> SUFFICES ASSUME TabInv PROVE TabIsClosed OBVIOUS
<1>1. check.at = "over" => check.asks = "nobody" BY DEF TabInv, TabTyped, CheckRecord, CommandsFit, CommandKinds
<1>2. check.at = "over" /\ ~check.failed => \A k \in CommandKinds : commands[k] \in {"none", "answered"}
  BY <1>1 DEF TabInv, CommandsFit, CommandKinds
<1>. QED BY <1>2 DEF TabInv, TabTyped, CheckRecord, CreatedFirst, StepsBehind, TabIsClosed

-----------------------------------------------------------------------------
LEMMA LookStart == LookInit => LookInv
<1> SUFFICES ASSUME LookInit PROVE LookInv OBVIOUS
<1>1. PICK program \in {"controls", "scroll"} :
        look = [program |-> program, at |-> "first", width |-> 0, size |-> 0, reference |-> <<>>, second |-> <<>>,
                still |-> FALSE, tries |-> 0, moves |-> 0, truth |-> <<>>]
  BY DEF LookInit
<1>2. LookTyped BY <1>1 DEF LookInit, LookTyped
<1>. QED BY <1>1, <1>2 DEF LookInv, LookFits, LookIsExact

\* A picture as large as what was grabbed is all of it.
LEMMA CutAll == ASSUME NEW s \in Seq(Nat) PROVE Cut(s, Len(s)) = s
<1>1. Len(Cut(s, Len(s))) = Len(s) /\ \A i \in 1..Len(s) : Cut(s, Len(s))[i] = s[i] BY DEF Cut
<1>2. Cut(s, Len(s)) \in Seq(Nat) BY DEF Cut
<1>. QED BY <1>1, <1>2

LEMMA CutTyped == ASSUME NEW s \in Seq(Nat), NEW n \in Nat, n <= Len(s) PROVE Cut(s, n) \in Seq(Nat)
BY DEF Cut

LEMMA LookStep == LookInv /\ [LookNext]_lookVars => LookInv'
<1> SUFFICES ASSUME LookInv, [LookNext]_lookVars PROVE LookInv' OBVIOUS
<1>0. /\ LookTyped /\ LookFits /\ LookIsExact
      /\ \A s \in Screens : s \in Seq(Nat) /\ Len(s) \in Nat
  BY QualificationAssumption DEF LookInv
<1>a. \A s \in Screens, n \in Nat : n <= Len(s) => Cut(s, n) \in Seq(Nat)
  BY <1>0, CutTyped
<1>1. CASE UNCHANGED lookVars BY <1>0, <1>1 DEF lookVars, LookInv, LookTyped, LookFits, Grabbed, LookIsExact
<1>2. CASE X11Moves
  <2>1. /\ x11' \in Screens /\ look' = [look EXCEPT !.moves = IF look.moves = 0 THEN 1 ELSE 2] BY <1>2 DEF X11Moves
  <2>2. LookTyped' BY <1>0, <2>1 DEF LookTyped
  <2>3. /\ look'.moves = (IF look.moves = 0 THEN 1 ELSE 2) /\ look.moves \in Nat
        /\ look'.program = look.program /\ look'.at = look.at /\ look'.width = look.width /\ look'.size = look.size
        /\ look'.reference = look.reference /\ look'.second = look.second /\ look'.still = look.still
        /\ look'.truth = look.truth
    BY <1>0, <2>1 DEF LookTyped
  <2>4. look'.moves <= 1 => look.moves = 0 BY <2>3
  <2>5. LookFits' BY <1>0, <2>3, <2>4 DEF LookFits, Grabbed
  <2>6. LookIsExact' BY <1>0, <2>3, <2>4 DEF LookIsExact
  <2>. QED BY <2>2, <2>5, <2>6 DEF LookInv
<1>3. CASE FirstLook
  <2>1. PICK s \in Screens : look' = [look EXCEPT !.at = "size", !.width = Len(s), !.moves = 0] /\ x11' = x11
    BY <1>3 DEF FirstLook, Looks
  <2>2. LookTyped' BY <1>0, <2>1 DEF LookTyped
  <2>3. look'.at = "size" BY <1>0, <2>1 DEF LookTyped
  <2>. QED BY <2>2, <2>3 DEF LookInv, LookFits, LookIsExact
<1>4. CASE ReadSize
  <2>1. PICK to \in {"threw", "grab"} : look' = [look EXCEPT !.size = Len(x11), !.at = to] /\ x11' = x11
    BY <1>4 DEF ReadSize, Looks
  <2>2. LookTyped' BY <1>0, <2>1 DEF LookTyped
  <2>3. look'.at = to /\ look'.size = Len(x11) BY <1>0, <2>1 DEF LookTyped
  <2>. QED BY <2>1, <2>2, <2>3 DEF LookInv, LookFits, LookIsExact
<1>5. ASSUME look' = [look EXCEPT !.at = "threw"], x11' = x11 PROVE LookInv'
  <2>1. LookTyped' BY <1>0, <1>5 DEF LookTyped
  <2>2. look'.at = "threw" BY <1>0, <1>5 DEF LookTyped
  <2>. QED BY <2>1, <2>2 DEF LookInv, LookFits, LookIsExact
<1>6. CASE GrabDisplay
  <2>1. SUFFICES ASSUME Len(x11) >= look.width, x11' = x11, look.at = "grab",
                        look' = [look EXCEPT !.at = "second", !.reference = Cut(x11, look.width)]
                 PROVE  LookInv'
    BY <1>5, <1>6 DEF GrabDisplay, Looks, Grabs
  <2>2. LookTyped' BY <1>0, <1>a, <2>1 DEF LookTyped
  <2>3. /\ look'.at = "second" /\ look'.reference = Cut(x11, look.width) /\ look'.width = look.width
        /\ look'.size = look.size /\ look'.moves = look.moves
    BY <1>0, <2>1 DEF LookTyped
  <2>4. LookFits' BY <1>0, <2>1, <2>3 DEF LookFits
  <2>. QED BY <2>2, <2>3, <2>4 DEF LookInv, LookIsExact
<1>7. CASE SecondLook
  <2>1. PICK s \in Screens : /\ look.at = "second" /\ x11' = x11
                             /\ look' = [look EXCEPT !.at = "regrab", !.second = s, !.truth = x11]
    BY <1>7 DEF SecondLook, Looks
  <2>2. LookTyped' BY <1>0, <2>1 DEF LookTyped
  <2>3. /\ look'.at = "regrab" /\ look'.reference = look.reference /\ look'.width = look.width
        /\ look'.size = look.size /\ look'.moves = look.moves /\ look'.truth = x11
    BY <1>0, <2>1 DEF LookTyped
  <2>4. LookFits' BY <1>0, <2>1, <2>3 DEF LookFits, Grabbed
  <2>. QED BY <2>2, <2>3, <2>4 DEF LookInv, LookIsExact
<1>8. CASE GrabAgain
  <2>1. SUFFICES ASSUME Len(x11) >= look.width, x11' = x11, look.at = "regrab",
                        look' = [look EXCEPT !.at = "judge", !.still = look.reference = Cut(x11, look.width)]
                 PROVE  LookInv'
    BY <1>5, <1>8 DEF GrabAgain, Looks, Grabs
  <2>2. LookTyped' BY <1>0, <2>1 DEF LookTyped
  <2>3. /\ look'.at = "judge" /\ look'.reference = look.reference /\ look'.width = look.width
        /\ look'.size = look.size /\ look'.moves = look.moves /\ look'.truth = look.truth
        /\ look'.still = (look.reference = Cut(x11, look.width))
    BY <1>0, <2>1 DEF LookTyped
  <2>4. LookFits' BY <1>0, <2>1, <2>3 DEF LookFits, Grabbed
  <2>. QED BY <2>2, <2>3, <2>4 DEF LookInv, LookIsExact
<1>9. CASE JudgeLook
  <2>1. CASE TruthStood /\ Exact
    <3>1. look.at = "judge" /\ x11' = x11 /\ look' = [look EXCEPT !.at = "passed"] BY <1>9, <2>1 DEF JudgeLook, Looks
    <3>2. LookTyped' BY <1>0, <3>1 DEF LookTyped
    <3>3. /\ look'.at = "passed" /\ look'.second = look.second /\ look'.truth = look.truth
          /\ look'.moves = look.moves /\ look'.program = look.program
      BY <1>0, <3>1 DEF LookTyped
    <3>4. /\ look.still /\ Len(look.second) = look.width /\ look.second = look.reference
          /\ look.program = "scroll" => look.size = Len(x11) /\ look.width = Len(x11)
      BY <2>1 DEF TruthStood, Exact
    <3>5. LookIsExact'
      <4>1. SUFFICES ASSUME look.moves <= 1
                     PROVE  /\ Len(look.second) <= Len(look.truth) /\ look.second = Cut(look.truth, Len(look.second))
                            /\ look.program = "scroll" => look.second = look.truth
        BY <3>3 DEF LookIsExact
      <4>2. Grabbed /\ (look.truth = x11 \/ look.size = Len(look.truth)) BY <1>0, <3>1, <3>4, <4>1 DEF LookFits
      <4>3. Len(look.truth) \in Nat /\ look.width \in Nat BY <1>0 DEF LookTyped
      <4>4. /\ Len(look.second) <= Len(look.truth) /\ look.second = Cut(look.truth, Len(look.second))
        BY <3>4, <4>2, <4>3 DEF Grabbed
      <4>5. ASSUME look.program = "scroll" PROVE look.second = look.truth
        <5>1. Len(look.second) = Len(look.truth) BY <3>4, <4>2, <4>5
        <5>. QED BY <1>0, <4>4, <5>1, CutAll DEF LookTyped
      <4>. QED BY <4>4, <4>5
    <3>. QED BY <3>2, <3>3, <3>5 DEF LookInv, LookFits
  <2>2. CASE ~(TruthStood /\ Exact)
    <3>1. PICK to \in {"first", "failed"} : look' = [look EXCEPT !.tries = look.tries + 1, !.at = to] /\ x11' = x11
      BY <1>9, <2>2 DEF JudgeLook, Looks
    <3>. PICK q : q = look.tries + 1 OBVIOUS
    <3>0. q \in Nat BY <1>0 DEF LookTyped
    <3>2. LookTyped' BY <1>0, <3>0, <3>1 DEF LookTyped
    <3>3. look'.at = to BY <1>0, <3>1 DEF LookTyped
    <3>. QED BY <3>2, <3>3 DEF LookInv, LookFits, LookIsExact
  <2>. QED BY <2>1, <2>2
<1>. QED BY <1>1, <1>2, <1>3, <1>4, <1>6, <1>7, <1>8, <1>9 DEF LookNext

-----------------------------------------------------------------------------
\* No two of 240 repaints have the same colour, and none the colour of a batch's end.
LEMMA ColoursDiffer ==
  /\ \A k \in Nat : MarkerColour(k) # 0 /\ MarkerColour(k) \in Nat
  /\ \A j, k \in 1..240 : MarkerColour(j) = MarkerColour(k) => j = k
<1>1. \A x \in Nat : (x % 240) \in 0..239 /\ (\E p \in Nat : x = (240 * p) + (x % 240))
  <2>1. TAKE x \in Nat
  <2>2. (x \div 240) \in Nat /\ x = (240 * (x \div 240)) + (x % 240) /\ (x % 240) \in 0..239 OBVIOUS
  <2>. QED BY <2>2
<1>2. ASSUME NEW k \in Nat PROVE MarkerColour(k) # 0 /\ MarkerColour(k) \in Nat
  <2>. PICK r : r = (k * 37) % 240 OBVIOUS
  <2>1. r \in 0..239 BY <1>1
  <2>. QED BY <2>1 DEF MarkerColour
<1>3. ASSUME NEW j \in 1..240, NEW k \in 1..240, MarkerColour(j) = MarkerColour(k) PROVE j = k
  <2>1. (j * 37) % 240 = (k * 37) % 240 BY <1>1, <1>3 DEF MarkerColour
  <2>a. j * 37 \in Nat /\ k * 37 \in Nat OBVIOUS
  <2>p. PICK p \in Nat : j * 37 = (240 * p) + ((j * 37) % 240) BY <1>1, <2>a
  <2>q. PICK q \in Nat : k * 37 = (240 * q) + ((k * 37) % 240) BY <1>1, <2>a
  <2>r. PICK r \in 0..239 : r = (j * 37) % 240 BY <1>1, <2>a
  <2>2. j * 37 = (240 * p) + r /\ k * 37 = (240 * q) + r BY <2>1, <2>p, <2>q, <2>r
  <2>3. 240 * (13 * (p - q) - 2 * (j - k)) = j - k BY <2>2
  <2>4. PICK m \in Int : m = 13 * (p - q) - 2 * (j - k) OBVIOUS
  <2>5. 240 * m = j - k BY <2>3, <2>4
  <2>6. ~(m >= 1) BY <2>5
  <2>7. ~(m <= -1) BY <2>5
  <2>8. m = 0 BY <2>6, <2>7
  <2>. QED BY <2>5, <2>8
<1>. QED BY <1>2, <1>3

LEMMA SamplerStart == SamplerInit => SamplerInv
<1> SUFFICES ASSUME SamplerInit PROVE SamplerInv OBVIOUS
<1>1. SamplerTyped BY QualificationAssumption DEF SamplerInit, SamplerTyped, SampleRecord
<1>. QED BY <1>1 DEF SamplerInit, SamplerInv, SamplesFit

\* The answer of the last repaint is on its way; what is on its way stays possible.
LEMMA WireStep ==
  ASSUME SamplerInv, [SamplerNext]_samplerVars
  PROVE  /\ inputs' \in Nat /\ painted' \in Nat /\ wire' \in Seq(Colours(painted'))
         /\ painted' \in {painted, painted + 1} /\ (painted' # painted => inputs > 0 /\ inputs' = inputs - 1)
<1>. PICK C : C = Colours(painted) OBVIOUS
<1>1. inputs \in Nat /\ painted \in Nat /\ wire \in Seq(C) BY DEF SamplerInv, SamplerTyped
<1>2. 0 \in C /\ (painted > 0 => MarkerColour(painted) \in C) BY <1>1 DEF Colours
<1>3. CASE UNCHANGED wire /\ painted' = painted /\ inputs' \in {inputs, inputs + 1} BY <1>1, <1>3
<1>4. CASE RepaintMarker
  <2>1. painted' \in {painted, painted + 1} /\ wire' = wire /\ inputs > 0 /\ inputs' = inputs - 1 BY <1>4 DEF RepaintMarker
  <2>2. C \subseteq Colours(painted') BY <1>1, <2>1 DEF Colours
  <2>. QED BY <1>1, <2>1, <2>2
<1>5. CASE HostSends
  <2>1. PICK m \in C : wire' = Append(wire, m) /\ inputs' = inputs /\ painted' = painted BY <1>2, <1>5 DEF HostSends
  <2>. QED BY <1>1, <2>1
<1>6. CASE TakeMessage
  <2>1. wire # <<>> /\ wire' = Tail(wire) /\ inputs' = inputs /\ painted' = painted BY <1>6 DEF TakeMessage
  <2>. QED BY <1>1, <2>1
<1>. QED BY <1>3, <1>4, <1>5, <1>6 DEF SamplerNext, samplerVars, SendInput, SampleTimeout, SamplerFails, EndSamples, CloseSampler

LEMMA SamplerStep == SamplerInv /\ [SamplerNext]_samplerVars => SamplerInv'
<1> SUFFICES ASSUME SamplerInv, [SamplerNext]_samplerVars PROVE SamplerInv' OBVIOUS
<1>0. SamplerTyped /\ SamplesFit BY DEF SamplerInv
<1>1. /\ inputs' \in Nat /\ painted' \in Nat /\ wire' \in Seq(Colours(painted'))
      /\ painted' \in {painted, painted + 1} /\ (painted' # painted => inputs > 0 /\ inputs' = inputs - 1)
  BY WireStep
<1>2. /\ inputs \in Nat /\ painted \in Nat /\ sampler.n \in 0..Samples /\ Samples \in 1..240
      /\ sampler.latencies \subseteq 1..Samples /\ sampler.timeouts \subseteq 1..Samples
  BY <1>0, QualificationAssumption DEF SamplerTyped, SampleRecord
<1>3. CASE sampler' = sampler /\ painted' + inputs' <= painted + inputs
  <2>1. SamplerTyped' BY <1>0, <1>1, <1>3 DEF SamplerTyped, SampleRecord
  <2>a. painted + inputs <= sampler.n BY <1>0 DEF SamplesFit
  <2>b. PICK p, i : p = painted' /\ i = inputs' OBVIOUS
  <2>c. p \in Nat /\ i \in Nat BY <1>1, <2>b
  <2>d. p + i <= painted + inputs BY <1>3, <2>b
  <2>e. p + i <= sampler.n BY <1>2, <2>a, <2>c, <2>d
  <2>2. painted' + inputs' <= sampler.n BY <2>b, <2>e
  <2>3. sampler.seen \/ (sampler.at = "close" /\ ~sampler.failed) \/ sampler.printed => painted' = painted
    BY <1>0, <1>1, <1>2, <1>3 DEF SamplesFit
  <2>. QED BY <1>0, <1>1, <1>2, <1>3, <2>1, <2>2, <2>3 DEF SamplerInv, SamplesFit
<1>4. CASE SendInput
  <2>1. /\ sampler.at = "pause" /\ sampler.n < Samples /\ inputs' = inputs + 1 /\ painted' = painted
        /\ sampler' = [sampler EXCEPT !.at = "waits", !.n = sampler.n + 1, !.seen = FALSE]
    BY <1>4 DEF SendInput, Asked
  <2>. PICK q : q = sampler.n + 1 OBVIOUS
  <2>2. q \in 1..Samples /\ q - 1 = sampler.n BY <1>2, <2>1
  <2>c. sampler' = [sampler EXCEPT !.at = "waits", !.n = q, !.seen = FALSE] BY <2>1
  <2>e. sampler \in SampleRecord /\ q \in 0..Samples BY <1>0, <1>2, <2>2 DEF SamplerTyped
  <2>d. sampler' \in SampleRecord BY <2>c, <2>e DEF SampleRecord
  <2>3. SamplerTyped' BY <1>1, <2>d DEF SamplerTyped
  <2>4. /\ sampler'.at = "waits" /\ sampler'.n = q /\ ~sampler'.seen /\ sampler'.latencies = sampler.latencies
        /\ sampler'.timeouts = sampler.timeouts /\ sampler'.failed = sampler.failed /\ sampler'.printed = sampler.printed
    BY <1>0, <2>1 DEF SamplerTyped, SampleRecord
  <2>5. SamplesFit' BY <1>0, <1>2, <2>1, <2>2, <2>4 DEF SamplesFit
  <2>. QED BY <2>3, <2>5 DEF SamplerInv
<1>5. ASSUME NEW s, UNCHANGED <<inputs, painted>>, sampler' = s,
             s \in SampleRecord,
             s.n = sampler.n, s.seen => s.n >= 1 /\ painted = s.n,
             \A i \in s.latencies : i <= painted, s.at = "waits" => s.n >= 1,
             s.latencies \cap s.timeouts = {},
             s.at \in {"pause", "waits"} =>
               s.latencies \cup s.timeouts = 1..(IF s.at = "waits" THEN s.n - 1 ELSE s.n),
             (s.at = "close" /\ ~s.failed) \/ s.printed =>
               s.n = Samples /\ painted = Samples /\ s.latencies \cup s.timeouts = 1..Samples,
             s.printed => s.at = "over"
      PROVE  SamplerInv'
  BY <1>0, <1>1, <1>5 DEF SamplerInv, SamplerTyped, SamplesFit
<1>6. ASSUME sampler.at = "waits"
      PROVE  /\ sampler.n \in 1..Samples
             /\ sampler.n \notin sampler.latencies \cup sampler.timeouts
             /\ (sampler.latencies \cup sampler.timeouts) \cup {sampler.n} = 1..sampler.n
             /\ ~sampler.printed
  <2>1. sampler.n >= 1 /\ sampler.latencies \cup sampler.timeouts = 1..(sampler.n - 1) /\ ~sampler.printed
    BY <1>0, <1>6 DEF SamplesFit
  <2>. QED BY <1>2, <2>1
<1>7. CASE TakeMessage
  <2>1. /\ wire # <<>> /\ sampler.at \in {"pause", "waits"} /\ UNCHANGED <<inputs, painted>>
        /\ sampler' = IF Head(wire) # 0
             THEN [sampler EXCEPT !.seen = sampler.n > 0 /\ Head(wire) = MarkerColour(sampler.n)]
             ELSE IF sampler.seen /\ sampler.at = "waits"
             THEN [sampler EXCEPT !.at = "pause", !.latencies = sampler.latencies \cup {sampler.n}] ELSE sampler
    BY <1>7 DEF TakeMessage
  <2>2. Head(wire) \in Colours(painted) BY <1>0, <2>1 DEF SamplerTyped, SampleRecord
  <2>3. CASE Head(wire) # 0
    <3>. DEFINE seen == sampler.n > 0 /\ Head(wire) = MarkerColour(sampler.n)
    <3>1. sampler' = [sampler EXCEPT !.seen = seen] BY <2>1, <2>3
    <3>2. seen => painted = sampler.n /\ sampler.n >= 1
      <4>1. SUFFICES ASSUME sampler.n > 0, Head(wire) = MarkerColour(sampler.n) PROVE painted = sampler.n BY <1>2
      <4>2. PICK i \in 1..painted : Head(wire) = MarkerColour(i) BY <2>2, <2>3 DEF Colours
      <4>3. painted <= sampler.n BY <1>0, <1>2 DEF SamplesFit
      <4>4. i \in 1..240 /\ sampler.n \in 1..240 BY <1>2, <4>1, <4>2, <4>3
      <4>5. i = sampler.n BY <4>1, <4>2, <4>4, ColoursDiffer
      <4>. QED BY <1>2, <4>2, <4>3, <4>5
    <3>. PICK b : b = seen OBVIOUS
    <3>3. b \in BOOLEAN /\ sampler' = [sampler EXCEPT !.seen = b] /\ (b => painted = sampler.n /\ sampler.n >= 1)
      BY <3>1, <3>2
    <3>4. /\ sampler' \in SampleRecord
          /\ sampler'.at = sampler.at /\ sampler'.n = sampler.n /\ sampler'.seen = b
          /\ sampler'.latencies = sampler.latencies /\ sampler'.timeouts = sampler.timeouts
          /\ sampler'.failed = sampler.failed /\ sampler'.printed = sampler.printed
      BY <1>0, <3>3 DEF SamplerTyped, SampleRecord
    <3>. QED BY <1>0, <1>5, <2>1, <3>3, <3>4 DEF SamplesFit
  <2>4. CASE Head(wire) = 0 /\ sampler.seen /\ sampler.at = "waits"
    <3>. PICK s : s = [sampler EXCEPT !.at = "pause", !.latencies = sampler.latencies \cup {sampler.n}] OBVIOUS
    <3>1. sampler' = s BY <2>1, <2>4
    <3>2. painted = sampler.n BY <1>0, <2>4 DEF SamplesFit
    <3>3. /\ s \in SampleRecord
          /\ s.at = "pause" /\ s.n = sampler.n /\ s.seen = sampler.seen
          /\ s.latencies = sampler.latencies \cup {sampler.n} /\ s.timeouts = sampler.timeouts
          /\ s.failed = sampler.failed /\ s.printed = sampler.printed
      BY <1>0, <1>6, <2>4 DEF SamplerTyped, SampleRecord
    <3>4. s.latencies \cup s.timeouts = 1..s.n BY <1>6, <2>4, <3>3
    <3>5. s.latencies \cap s.timeouts = {} BY <1>0, <1>6, <2>4, <3>3 DEF SamplesFit
    <3>6. \A i \in s.latencies : i <= painted BY <1>0, <1>2, <3>2, <3>3 DEF SamplesFit
    <3>7. ~s.printed /\ (s.seen => s.n >= 1 /\ painted = s.n) BY <1>0, <1>6, <2>4, <3>2, <3>3 DEF SamplesFit
    <3>. QED BY <1>5, <2>1, <3>1, <3>3, <3>4, <3>5, <3>6, <3>7
  <2>5. CASE Head(wire) = 0 /\ ~(sampler.seen /\ sampler.at = "waits") BY <1>2, <1>3, <2>1, <2>5
  <2>. QED BY <2>3, <2>4, <2>5
<1>8. CASE SampleTimeout
  <2>1. sampler.at = "waits" /\ UNCHANGED <<inputs, painted>> BY <1>8 DEF SampleTimeout
  <2>. PICK s : s = [sampler EXCEPT !.at = "pause", !.timeouts = sampler.timeouts \cup {sampler.n}] OBVIOUS
  <2>2. sampler' = s BY <1>8 DEF SampleTimeout
  <2>3. /\ s \in SampleRecord
        /\ s.at = "pause" /\ s.n = sampler.n /\ s.seen = sampler.seen
        /\ s.latencies = sampler.latencies /\ s.timeouts = sampler.timeouts \cup {sampler.n}
        /\ s.failed = sampler.failed /\ s.printed = sampler.printed
    BY <1>0, <1>6, <2>1 DEF SamplerTyped, SampleRecord
  <2>4. s.latencies \cup s.timeouts = 1..s.n BY <1>6, <2>1, <2>3
  <2>5. s.latencies \cap s.timeouts = {} BY <1>0, <1>6, <2>1, <2>3 DEF SamplesFit
  <2>6. ~s.printed /\ (s.seen => s.n >= 1 /\ painted = s.n) BY <1>0, <1>6, <2>1, <2>3 DEF SamplesFit
  <2>7. \A i \in s.latencies : i <= painted BY <1>0, <2>3 DEF SamplesFit
  <2>. QED BY <1>5, <2>1, <2>2, <2>3, <2>4, <2>5, <2>6, <2>7
<1>9. CASE SamplerFails \/ EndSamples
  <2>. PICK failed : failed = IF SamplerFails THEN TRUE ELSE painted # Samples OBVIOUS
  <2>1. /\ sampler.at \in {"pause", "waits"} /\ UNCHANGED <<inputs, painted>> /\ failed \in BOOLEAN
        /\ sampler' = [sampler EXCEPT !.at = "close", !.failed = failed]
        /\ ~failed => painted = Samples /\ sampler.n = Samples /\ sampler.at = "pause"
    BY <1>9 DEF SamplerFails, EndSamples
  <2>2. /\ sampler' \in SampleRecord
        /\ sampler'.at = "close" /\ sampler'.n = sampler.n /\ sampler'.seen = sampler.seen
        /\ sampler'.latencies = sampler.latencies /\ sampler'.timeouts = sampler.timeouts
        /\ sampler'.failed = failed /\ sampler'.printed = sampler.printed
    BY <1>0, <2>1 DEF SamplerTyped, SampleRecord
  <2>. QED BY <1>0, <1>5, <2>1, <2>2 DEF SamplesFit
<1>10. CASE CloseSampler
  <2>. PICK end : end = ~sampler.failed OBVIOUS
  <2>0. PICK failed \in BOOLEAN, printed \in BOOLEAN :
        /\ sampler' = [sampler EXCEPT !.at = "over", !.failed = failed, !.printed = printed]
        /\ printed => ~sampler.failed \/ sampler.printed
    <3>1. end \in BOOLEAN /\ sampler.failed \in BOOLEAN /\ sampler.printed \in BOOLEAN BY <1>0 DEF SamplerTyped, SampleRecord
    <3>2. sampler' = [sampler EXCEPT !.at = "over", !.printed = end] \/ sampler' = [sampler EXCEPT !.at = "over", !.failed = TRUE]
      BY <1>10 DEF CloseSampler
    <3>3. [sampler EXCEPT !.at = "over", !.printed = end] = [sampler EXCEPT !.at = "over", !.failed = sampler.failed, !.printed = end]
      BY <1>0 DEF SamplerTyped, SampleRecord
    <3>4. [sampler EXCEPT !.at = "over", !.failed = TRUE] = [sampler EXCEPT !.at = "over", !.failed = TRUE, !.printed = sampler.printed]
      BY <1>0 DEF SamplerTyped, SampleRecord
    <3>. QED BY <3>1, <3>2, <3>3, <3>4
  <2>1. sampler.at = "close" /\ UNCHANGED <<inputs, painted>> BY <1>10 DEF CloseSampler
  <2>2. /\ sampler' \in SampleRecord
        /\ sampler'.at = "over" /\ sampler'.n = sampler.n /\ sampler'.seen = sampler.seen
        /\ sampler'.latencies = sampler.latencies /\ sampler'.timeouts = sampler.timeouts
        /\ sampler'.failed = failed /\ sampler'.printed = printed
    BY <1>0, <2>0 DEF SamplerTyped, SampleRecord
  <2>. QED BY <1>0, <1>5, <2>0, <2>1, <2>2 DEF SamplesFit
<1>11. RepaintMarker \/ HostSends \/ UNCHANGED samplerVars => sampler' = sampler /\ painted' + inputs' <= painted + inputs
  BY <1>2 DEF RepaintMarker, HostSends, samplerVars
<1>. QED BY <1>3, <1>4, <1>7, <1>8, <1>9, <1>10, <1>11 DEF SamplerNext

LEMMA SamplerHolds == SamplerInv => LatenciesAreOwn
BY DEF SamplerInv, SamplesFit, LatenciesAreOwn

-----------------------------------------------------------------------------
LEMMA ComposeStart == ComposeInit => ComposeInv
<1> SUFFICES ASSUME ComposeInit PROVE ComposeInv OBVIOUS
<1>1. ComposeTyped BY DEF ComposeInit, ComposeTyped, ComposeRecord
<1>. QED BY <1>1 DEF ComposeInit, ComposeInv, ThingsFit

\* What a cleanup removes has the label.
LEMMA RemovedFits ==
  ASSUME ComposeTyped, NEW t \in ThingKinds
  PROVE  /\ Removed(t) \in [ThingKinds -> {"none", "labelled", "unlabelled"}]
         /\ \A u \in ThingKinds : things[u] \in {"none", "unlabelled"} => Removed(t)[u] = things[u]
         /\ \A u \in ThingKinds : u # t => Removed(t)[u] = things[u]
BY DEF ComposeTyped, ComposeRecord, Removed, Removable

\* What lacks the label stays; what was there before is not made again.
LEMMA ComposeStep ==
  ComposeInv /\ [ComposeNext]_composeVars =>
    ComposeInv' /\ \A t \in ThingKinds : things[t] = "unlabelled" => things'[t] = "unlabelled"
<1> SUFFICES ASSUME ComposeInv, [ComposeNext]_composeVars
             PROVE  ComposeInv' /\ \A t \in ThingKinds : things[t] = "unlabelled" => things'[t] = "unlabelled"
  OBVIOUS
<1>0. ComposeTyped /\ ThingsFit BY DEF ComposeInv
<1>1. CASE UNCHANGED composeVars BY <1>0, <1>1 DEF composeVars, ComposeInv, ComposeTyped, ComposeRecord, ThingsFit
<1>2. CASE PrepareCompose \/ CheckCompose \/ VerifyContainers \/ RemoveDirectory
  <2>1. things' = things BY <1>2 DEF PrepareCompose, CheckCompose, VerifyContainers, RemoveDirectory
  <2>2. \/ /\ compose.at = "prepare"
           /\ compose' \in {[compose EXCEPT !.at = "up"], [compose EXCEPT !.at = "directory", !.failed = TRUE]}
        \/ /\ compose.at = "checks"
           /\ compose' \in {[compose EXCEPT !.at = "container"], [compose EXCEPT !.at = "container", !.failed = TRUE]}
        \/ /\ compose.at = "verify"
           /\ \/ things["container"] = "none" /\ compose' = [compose EXCEPT !.at = "directory"]
              \/ compose' = [compose EXCEPT !.at = "over", !.failed = TRUE]
        \/ /\ compose.at = "directory"
           /\ compose' \in {[compose EXCEPT !.at = "over", !.directory = FALSE],
                            [compose EXCEPT !.at = "over", !.failed = TRUE]}
    BY <1>2 DEF PrepareCompose, CheckCompose, VerifyContainers, RemoveDirectory, ComposeAt, ComposeFails
  <2>a. \A to \in {"up", "directory", "container", "over"} :
          /\ [compose EXCEPT !.at = to] \in ComposeRecord
          /\ [compose EXCEPT !.at = to, !.failed = TRUE] \in ComposeRecord
          /\ [compose EXCEPT !.at = to, !.directory = FALSE] \in ComposeRecord
    BY <1>0 DEF ComposeTyped, ComposeRecord, ThingKinds
  <2>3. ComposeTyped' BY <1>0, <2>1, <2>2, <2>a DEF ComposeTyped
  <2>4. ThingsFit' BY <1>0, <2>1, <2>2 DEF ComposeTyped, ComposeRecord, ThingsFit, ThingKinds
  <2>. QED BY <2>1, <2>3, <2>4 DEF ComposeInv
<1>3. CASE ComposeUp
  <2>1. /\ compose.at = "up" /\ things' \in [ThingKinds -> {"none", "labelled", "unlabelled"}]
        /\ \/ compose' = [compose EXCEPT !.at = "checks"]
           \/ \E goes \in BOOLEAN : compose' = [compose EXCEPT !.at = "container", !.failed = TRUE, !.going = goes]
    BY <1>3 DEF ComposeUp, ComposeAt
  <2>2. ComposeTyped' BY <1>0, <2>1 DEF ComposeTyped, ComposeRecord, ThingKinds
  <2>3. ThingsFit' BY <1>0, <2>1 DEF ComposeTyped, ComposeRecord, ThingsFit
  <2>. QED BY <1>0, <2>1, <2>2, <2>3 DEF ComposeInv, ThingsFit
<1>4. CASE DaemonGoesOn
  <2>1. compose.failed /\ compose.at \notin {"prepare", "up"}
    BY <1>0, <1>4 DEF DaemonGoesOn, ThingsFit
  <2>2. CASE \E t \in ThingKinds : things[t] = "none" /\ things' = [things EXCEPT ![t] = "labelled"] /\ compose' = compose
    <3>1. ComposeTyped' BY <1>0, <2>2 DEF ComposeTyped, ComposeRecord
    <3>2. \A t \in ThingKinds : things[t] = "unlabelled" => things'[t] = "unlabelled" BY <1>0, <2>2 DEF ComposeTyped, ComposeRecord
    <3>. QED BY <1>0, <2>1, <2>2, <3>1, <3>2 DEF ComposeInv, ThingsFit
  <2>3. CASE things' = things /\ compose' = [compose EXCEPT !.going = FALSE]
    BY <1>0, <2>1, <2>3 DEF ComposeInv, ComposeTyped, ComposeRecord, ThingsFit
  <2>. QED BY <1>4, <2>2, <2>3 DEF DaemonGoesOn
<1>5. ASSUME NEW t \in ThingKinds, NEW next, CleanThing(t, next),
             <<t, next>> \in {<<"container", "network">>, <<"network", "volume">>, <<"volume", "verify">>}
      PROVE  ComposeInv' /\ \A u \in ThingKinds : things[u] = "unlabelled" => things'[u] = "unlabelled"
  <2>1. /\ compose.at = t /\ things' \in {things, Removed(t)}
        /\ \/ (t = "container" \/ things'[t] = "none") /\ compose' = [compose EXCEPT !.at = next]
           \/ compose' = [compose EXCEPT !.at = "over", !.failed = TRUE]
    BY <1>5 DEF CleanThing, ComposeAt, ComposeFails
  <2>2. /\ things' \in [ThingKinds -> {"none", "labelled", "unlabelled"}]
        /\ \A u \in ThingKinds : things[u] \in {"none", "unlabelled"} => things'[u] = things[u]
    BY <1>0, <2>1, RemovedFits DEF ComposeTyped, ComposeRecord
  <2>3. ComposeTyped' BY <1>0, <1>5, <2>1, <2>2 DEF ComposeTyped, ComposeRecord, ThingKinds
  <2>4. ThingsFit' BY <1>0, <1>5, <2>1, <2>2 DEF ComposeTyped, ComposeRecord, ThingsFit, ThingKinds
  <2>. QED BY <2>2, <2>3, <2>4 DEF ComposeInv
<1>. QED BY <1>1, <1>2, <1>3, <1>4, <1>5 DEF ComposeNext, ThingKinds

LEMMA ComposeHolds == ComposeInv => ProjectIsGone
BY DEF ComposeInv, ComposeTyped, ComposeRecord, ThingsFit, ProjectIsGone, ThingKinds

\* The verdicts of the programs that qualify a runtime: for displays of any size and
\* any number of looks, of inputs up to the 240 colours and of messages on their way.
THEOREM SoundQualifications == QualificationSpec => QualificationsAreSound
<1>1. QualificationInit => QualificationInv
  BY TabStart, LookStart, SamplerStart, ComposeStart DEF QualificationInit, QualificationInv
<1>2. ASSUME QualificationInv, [QualificationNext]_qualificationVars
      PROVE  QualificationInv' /\ \A t \in ThingKinds : things[t] = "unlabelled" => things'[t] = "unlabelled"
  <2>1. /\ [TabCheckNext]_tabCheckVars /\ [LookNext]_lookVars
        /\ [SamplerNext]_samplerVars /\ [ComposeNext]_composeVars
    BY <1>2 DEF QualificationNext, qualificationVars
  <2>. QED BY <1>2, <2>1, TabStep, LookStep, SamplerStep, ComposeStep DEF QualificationInv
<1>3. QualificationInv => TabIsClosed /\ LookIsExact /\ LatenciesAreOwn /\ ProjectIsGone
  BY TabHolds, SamplerHolds, ComposeHolds DEF QualificationInv, LookInv
<1>. QED BY <1>1, <1>2, <1>3, PTL DEF QualificationSpec, QualificationsAreSound
-----------------------------------------------------------------------------
(* Disposable runs and the baseline session: what a run has made, and what   *)
(* it gives back.                                                            *)
VolumeLists == {<<>>, <<"data">>, <<"shared">>, <<"data", "shared">>}
TrialRecord == [at : (1..16) \cup {100, 101}, half : BOOLEAN, containers : SUBSET Containers,
                volumes : VolumeLists, network : BOOLEAN,
                browser : Containers \cup {"none"}, odd : BOOLEAN]
TrialTyped ==
  /\ trial \in TrialRecord
  /\ docker \in [{"net", "data", "shared", "fixture", "init", "first", "recreated"} -> {"none", "ours", "stopped", "theirs"}]
  /\ \A c \in Containers : docker[c] # "theirs"
  /\ \A r \in {"net", "data", "shared"} : docker[r] # "stopped"
\* The volumes come before the containers and go behind them.
VolumesFit ==
  /\ trial.at \in {1, 2} => trial.volumes = <<>>
  /\ trial.at = 3 => trial.volumes = <<"data">>
  /\ trial.at \in 4..16 => trial.volumes = <<"data", "shared">>
  /\ trial.at # 101 => \A i \in 1..Len(trial.volumes) : docker[trial.volumes[i]] = "ours"
  /\ (\E c \in Mounting : docker[c] # "none") => docker["data"] = "ours" /\ docker["shared"] = "ours"
HasVolume(v) == \E i \in 1..Len(trial.volumes) : trial.volumes[i] = v
\* Unless something odd happened the run knows exactly what it has.
NothingLost ==
  ~trial.odd =>
    /\ \A c \in Containers : docker[c] # "none" <=> c \in trial.containers
    /\ \A v \in {"data", "shared"} : docker[v] = "ours" <=> HasVolume(v)
    /\ docker["net"] = "ours" <=> trial.network
    /\ trial.at = 101 => trial.containers = {} /\ trial.volumes = <<>> /\ ~trial.network
TrialInv == TrialTyped /\ VolumesFit /\ NothingLost

BaselineRecord ==
  [at : {"none", "launch", "spawn", "endpoint", "connect", "up", "close", "terminate", "disconnect", "kill", "context",
         "stopped", "left", "gone"},
   temporary : BOOLEAN, browsers : {0, 1}, child : {"none", "up", "exited"}, connected : BOOLEAN, failed : BOOLEAN,
   launches : Nat, restarts : BOOLEAN]
BaselineInv ==
  /\ baseline \in BaselineRecord
  /\ baseline.at \in {"none", "launch", "gone"} => baseline.browsers = 0
  /\ baseline.at \in {"none", "launch", "spawn", "context", "stopped", "left", "gone"} => baseline.child # "up"
  /\ baseline.at = "stopped" /\ ~baseline.failed => baseline.browsers = 0
OwnedInv == TrialInv /\ BaselineInv

LEMMA OwnedNames ==
  /\ ToSet(Volumes) = {"data", "shared"} /\ Containers = {"fixture", "init", "first", "recreated"}
  /\ DockerObjects = {"net", "data", "shared", "fixture", "init", "first", "recreated"}
  /\ Mounting \subseteq Containers
<1>1. DOMAIN Volumes = {1, 2} BY DEF Volumes
<1>2. ToSet(Volumes) = {"data", "shared"} BY <1>1 DEF Volumes, ToSet
<1>. QED BY <1>2 DEF DockerObjects, Containers, Mounting

\* The steps of the program, by what they make.
LEMMA PlanFits ==
  /\ Len(Plan) = 15 /\ Awaits \subseteq 1..15
  /\ \A i \in 1..15 :
       /\ Plan[i] = "net" => i = 1
       /\ Plan[i] \in {"data", "shared"} => (i = 2 /\ Plan[i] = "data") \/ (i = 3 /\ Plan[i] = "shared")
       /\ Plan[i] \in Containers => i >= 4
       /\ Plan[i] \in {"ready", "script", "restart", "remove"} => i >= 4
<1>1. Len(Plan) = 15 /\ Awaits \subseteq 1..15 BY DEF Plan, Awaits
<1>2. /\ Plan[1] = "net" /\ Plan[2] = "data" /\ Plan[3] = "shared"
      /\ \A i \in 4..15 : Plan[i] \notin {"net", "data", "shared"}
  BY DEF Plan
<1>. QED BY <1>1, <1>2, OwnedNames

LEMMA OwnedStart == OwnedInit => OwnedInv
<1> SUFFICES ASSUME OwnedInit PROVE OwnedInv OBVIOUS
<1>1. TrialTyped BY OwnedNames DEF OwnedInit, TrialTyped, TrialRecord, VolumeLists
<1>2. VolumesFit BY OwnedNames DEF OwnedInit, VolumesFit
<1>3. NothingLost BY OwnedNames DEF OwnedInit, NothingLost, HasVolume
<1>4. BaselineInv BY DEF OwnedInit, BaselineInv, BaselineRecord
<1>. QED BY <1>1, <1>2, <1>3, <1>4 DEF OwnedInv, TrialInv

\* What the three lists of volumes have in them.
LEMMA ListsHave ==
  /\ \A v : ~\E i \in 1..Len(<<>>) : <<>>[i] = v
  /\ \A v : (\E i \in 1..Len(<<"data">>) : <<"data">>[i] = v) <=> v = "data"
  /\ \A v : (\E i \in 1..Len(<<"data", "shared">>) : <<"data", "shared">>[i] = v) <=> v \in {"data", "shared"}
<1>1. Len(<<>>) = 0 /\ Len(<<"data">>) = 1 /\ Len(<<"data", "shared">>) = 2 OBVIOUS
<1>2. <<"data">>[1] = "data" /\ <<"data", "shared">>[1] = "data" /\ <<"data", "shared">>[2] = "shared" OBVIOUS
<1>3. \A i : i \in 1..1 <=> i = 1 OBVIOUS
<1>4. \A i : i \in 1..2 <=> i = 1 \/ i = 2 OBVIOUS
<1>5. \A i : i \notin 1..0 OBVIOUS
<1>. QED BY <1>1, <1>2, <1>3, <1>4, <1>5, Zenon

LEMMA AppendOne == ASSUME NEW a PROVE Append(<<>>, a) = <<a>>
<1>1. ASSUME NEW list \in Seq({a}), list = <<>> PROVE Append(list, a) = <<a>> BY <1>1
<1>2. <<>> \in Seq({a}) OBVIOUS
<1>. QED BY <1>1, <1>2
LEMMA AppendTwo == ASSUME NEW a, NEW b PROVE Append(<<a>>, b) = <<a, b>>
<1>1. ASSUME NEW list \in Seq({a, b}), list = <<a>> PROVE Append(list, b) = <<a, b>>
  <2>1. Append(list, b) \in Seq({a, b}) /\ <<a, b>> \in Seq({a, b}) OBVIOUS
  <2>2. Len(list) = 1 /\ list[1] = a BY <1>1
  <2>a. Len(Append(list, b)) = Len(list) + 1 /\ \A i \in 1..Len(list) : Append(list, b)[i] = list[i]
    BY AppendProperties
  <2>b. Append(list, b)[Len(list) + 1] = b BY AppendProperties
  <2>3. Len(Append(list, b)) = 2 /\ Append(list, b)[1] = a /\ Append(list, b)[2] = b BY <2>2, <2>a, <2>b
  <2>4. Len(<<a, b>>) = 2 /\ <<a, b>>[1] = a /\ <<a, b>>[2] = b OBVIOUS
  <2>5. \A i \in 1..2 : i = 1 \/ i = 2 OBVIOUS
  <2>6. \A i \in 1..Len(Append(list, b)) : Append(list, b)[i] = <<a, b>>[i] BY <2>3, <2>4, <2>5
  <2>. QED BY <2>1, <2>3, <2>4, <2>6, SeqEqual
<1>2. <<a>> \in Seq({a, b}) OBVIOUS
<1>. QED BY <1>1, <1>2

\* Truth values as terms of their own.
Yes == TRUE
No == FALSE
LEMMA YesNo == Yes \in BOOLEAN /\ No \in BOOLEAN /\ Yes /\ ~No
BY DEF Yes, No

\* The run's record after a step.
TrialAs(at, half, made, volumes, network, browser, odd) ==
  [at |-> at, half |-> half, containers |-> made, volumes |-> volumes, network |-> network,
   browser |-> browser, odd |-> odd]
LEMMA TrialRecords ==
  ASSUME NEW t \in TrialRecord
  PROVE  /\ t = TrialAs(t.at, t.half, t.containers, t.volumes, t.network, t.browser, t.odd)
         /\ Onward(t) = TrialAs(t.at + 1, No, t.containers, t.volumes, t.network, t.browser, t.odd)
         /\ CleansUp(t) = TrialAs(100, t.half, t.containers, t.volumes, t.network, t.browser, t.odd)
         /\ TrialEnded(t) = TrialAs(101, t.half, t.containers, t.volumes, t.network, t.browser, t.odd)
         /\ Odd(CleansUp(t)) = TrialAs(100, t.half, t.containers, t.volumes, t.network, t.browser, Yes)
         /\ Odd(TrialEnded(t)) = TrialAs(101, t.half, t.containers, t.volumes, t.network, t.browser, Yes)
<1>1. t = TrialAs(t.at, t.half, t.containers, t.volumes, t.network, t.browser, t.odd) BY DEF TrialRecord, TrialAs
<1>2. PICK at, half, made, volumes, network, browser, odd : t = TrialAs(at, half, made, volumes, network, browser, odd)
  BY <1>1
<1>3. /\ t.at = at /\ t.half = half /\ t.containers = made /\ t.volumes = volumes /\ t.network = network
      /\ t.browser = browser /\ t.odd = odd
  BY <1>2 DEF TrialAs
<1>4. CleansUp(t) = TrialAs(100, half, made, volumes, network, browser, odd) BY <1>2 DEF TrialAs, CleansUp
<1>5. TrialEnded(t) = TrialAs(101, half, made, volumes, network, browser, odd) BY <1>2 DEF TrialAs, TrialEnded
<1>6. Onward(t) = TrialAs(t.at + 1, No, made, volumes, network, browser, odd)
  <2>. PICK n : n = t.at + 1 OBVIOUS
  <2>1. Onward(t) = [t EXCEPT !.at = n, !.half = No] BY DEF Onward, No
  <2>. QED BY <1>2, <2>1 DEF TrialAs
<1>9. ASSUME NEW n, NEW r \in TrialRecord, r = TrialAs(n, half, made, volumes, network, browser, odd)
      PROVE  Odd(r) = TrialAs(n, half, made, volumes, network, browser, Yes)
  <2>1. Odd(r) = [r EXCEPT !.odd = Yes] BY DEF Odd, Yes
  <2>2. [r EXCEPT !.odd = Yes] = TrialAs(n, half, made, volumes, network, browser, Yes) BY <1>9 DEF TrialAs, TrialRecord
  <2>. QED BY <2>1, <2>2
<1>a. CleansUp(t) \in TrialRecord /\ TrialEnded(t) \in TrialRecord BY DEF TrialRecord, CleansUp, TrialEnded
<1>7. Odd(CleansUp(t)) = TrialAs(100, half, made, volumes, network, browser, Yes) BY <1>4, <1>9, <1>a
<1>8. Odd(TrialEnded(t)) = TrialAs(101, half, made, volumes, network, browser, Yes) BY <1>5, <1>9, <1>a
<1>. QED BY <1>1, <1>3, <1>4, <1>5, <1>6, <1>7, <1>8

LEMMA TrialFields ==
  ASSUME NEW at, NEW half, NEW made, NEW volumes, NEW network, NEW browser, NEW odd,
         NEW t, t = TrialAs(at, half, made, volumes, network, browser, odd)
  PROVE  /\ t.at = at /\ t.half = half /\ t.containers = made /\ t.volumes = volumes
         /\ t.network = network /\ t.browser = browser /\ t.odd = odd
         /\ at \in (1..16) \cup {100, 101} /\ half \in BOOLEAN /\ made \in SUBSET Containers
            /\ volumes \in VolumeLists /\ network \in BOOLEAN
            /\ browser \in Containers \cup {"none"} /\ odd \in BOOLEAN => t \in TrialRecord
BY DEF TrialAs, TrialRecord

\* Whatever fails goes on in the cleanup.
LEMMA GivenUpKeeps ==
  ASSUME TrialInv, trial.at \in (1..16) \cup {100}, docker' = docker,
         trial' \in {CleansUp(trial), TrialEnded(trial), Odd(TrialEnded(trial))},
         trial' = TrialEnded(trial) => trial.odd \/ (trial.containers = {} /\ trial.volumes = <<>> /\ ~trial.network)
  PROVE  TrialInv'
<1>0. TrialTyped /\ VolumesFit /\ NothingLost /\ trial \in TrialRecord BY DEF TrialInv, TrialTyped
<1>1. PICK at \in {100, 101}, odd \in BOOLEAN :
        /\ trial' = TrialAs(at, trial.half, trial.containers, trial.volumes, trial.network, trial.browser, odd)
        /\ (odd <=> trial.odd) \/ odd
        /\ at = 101 /\ ~odd => trial.containers = {} /\ trial.volumes = <<>> /\ ~trial.network
  <2>1. trial.odd \in BOOLEAN BY <1>0 DEF TrialRecord
  <2>2. \/ trial' = TrialAs(100, trial.half, trial.containers, trial.volumes, trial.network, trial.browser, trial.odd)
        \/ trial' = TrialAs(101, trial.half, trial.containers, trial.volumes, trial.network, trial.browser, trial.odd)
           /\ (trial.odd \/ (trial.containers = {} /\ trial.volumes = <<>> /\ ~trial.network))
        \/ trial' = TrialAs(101, trial.half, trial.containers, trial.volumes, trial.network, trial.browser, Yes)
    BY <1>0, TrialRecords
  <2>3. CASE trial' = TrialAs(100, trial.half, trial.containers, trial.volumes, trial.network, trial.browser, trial.odd)
    BY <2>1, <2>3
  <2>4. CASE /\ trial' = TrialAs(101, trial.half, trial.containers, trial.volumes, trial.network, trial.browser, trial.odd)
             /\ trial.odd \/ (trial.containers = {} /\ trial.volumes = <<>> /\ ~trial.network)
    BY <2>1, <2>4
  <2>5. CASE trial' = TrialAs(101, trial.half, trial.containers, trial.volumes, trial.network, trial.browser, Yes)
    <3>. PICK y \in BOOLEAN : y = Yes /\ y BY YesNo
    <3>. QED BY <2>5
  <2>. QED BY <2>2, <2>3, <2>4, <2>5
<1>2. /\ trial'.at = at /\ trial'.containers = trial.containers /\ trial'.volumes = trial.volumes
      /\ trial'.network = trial.network /\ trial'.odd = odd /\ trial' \in TrialRecord
  <2>1. /\ trial.half \in BOOLEAN /\ trial.containers \in SUBSET Containers
        /\ trial.volumes \in VolumeLists /\ trial.network \in BOOLEAN
        /\ trial.browser \in Containers \cup {"none"}
    BY <1>0 DEF TrialRecord
  <2>. QED BY <1>1, <2>1, TrialFields
<1>3. TrialTyped' BY <1>0, <1>2 DEF TrialTyped
<1>a. /\ \A i \in 1..Len(trial.volumes) : docker[trial.volumes[i]] = "ours"
      /\ (\E c \in Mounting : docker[c] # "none") => docker["data"] = "ours" /\ docker["shared"] = "ours"
      /\ trial'.at \notin 1..16
  BY <1>0, <1>1, <1>2, SMTT(30) DEF VolumesFit
<1>4. VolumesFit' BY <1>a, <1>2 DEF VolumesFit
<1>5. NothingLost' BY <1>0, <1>1, <1>2 DEF NothingLost, HasVolume
<1>. QED BY <1>3, <1>4, <1>5 DEF TrialInv

\* A failure, an interrupt and the end go on in the cleanup.
LEMMA GoneOn ==
  ASSUME TrialInv, trial.at \in 1..16, docker' = docker, trial' = CleansUp(trial)
  PROVE  TrialInv'
<1>1. CleansUp(trial) # TrialEnded(trial) BY DEF TrialInv, TrialTyped, TrialRecord, CleansUp, TrialEnded
<1>. QED BY <1>1, GivenUpKeeps

\* A step of the program or of the cleanup, by the fields of its record.
StaysTrue(at, made, volumes, network, odd) ==
  /\ at \in {1, 2} => volumes = <<>>
  /\ at = 3 => volumes = <<"data">>
  /\ at \in 4..16 => volumes = <<"data", "shared">>
  /\ at # 101 => \A i \in 1..Len(volumes) : docker'[volumes[i]] = "ours"
  /\ (\E c \in Mounting : docker'[c] # "none") => docker'["data"] = "ours" /\ docker'["shared"] = "ours"
  /\ ~odd => /\ \A c \in Containers : docker'[c] # "none" <=> c \in made
             /\ \A v \in {"data", "shared"} : docker'[v] = "ours" <=> \E i \in 1..Len(volumes) : volumes[i] = v
             /\ docker'["net"] = "ours" <=> network
             /\ at = 101 => made = {} /\ volumes = <<>> /\ ~network
LEMMA TrialKeeps ==
  ASSUME TrialInv, NEW at \in (1..16) \cup {100, 101}, NEW half \in BOOLEAN, NEW made \in SUBSET Containers,
         NEW volumes \in VolumeLists, NEW network \in BOOLEAN,
         NEW browser \in Containers \cup {"none"}, NEW odd \in BOOLEAN,
         trial' = TrialAs(at, half, made, volumes, network, browser, odd), TrialTyped',
         StaysTrue(at, made, volumes, network, odd)
  PROVE  TrialInv'
<1>1. /\ trial'.at = at /\ trial'.half = half /\ trial'.containers = made /\ trial'.volumes = volumes
      /\ trial'.network = network /\ trial'.browser = browser /\ trial'.odd = odd
  BY TrialFields
<1>2. VolumesFit' BY <1>1 DEF VolumesFit, StaysTrue
<1>3. NothingLost' BY <1>1 DEF NothingLost, HasVolume, StaysTrue
<1>. QED BY <1>2, <1>3 DEF TrialInv

Untouched == \A r \in DOMAIN docker : docker[r] = "theirs" => docker'[r] = "theirs"
TrialFit == /\ TrialTyped /\ VolumesFit /\ NothingLost /\ trial \in TrialRecord
            /\ trial.half \in BOOLEAN /\ trial.containers \in SUBSET Containers /\ trial.network \in BOOLEAN
            /\ trial.volumes \in VolumeLists
            /\ trial.browser \in Containers \cup {"none"} /\ trial.odd \in BOOLEAN
            /\ trial.at \in (1..16) \cup {100, 101}
LEMMA TrialFitting == TrialInv => TrialFit
BY DEF TrialInv, TrialTyped, TrialRecord, TrialFit

\* docker stop, of a container of the run or of nothing.
LEMMA StopKeeps ==
  ASSUME TrialInv, trial.at # 101, NEW c \in Containers \cup {"none"}, docker[c] = "ours",
         docker' \in {docker, [docker EXCEPT ![c] = "stopped"]},
         trial' \in {trial, CleansUp(trial), Odd(TrialEnded(trial))}
  PROVE  TrialInv' /\ Untouched
<1>0. TrialFit BY TrialFitting
<1>1. PICK at \in (1..16) \cup {100, 101}, odd \in BOOLEAN :
        /\ trial' = TrialAs(at, trial.half, trial.containers, trial.volumes, trial.network, trial.browser, odd)
        /\ at = trial.at \/ at = 100 \/ (at = 101 /\ odd)
        /\ trial.odd => odd
  <2>1. CASE trial' = trial BY <1>0, <2>1, TrialRecords DEF TrialFit
  <2>2. CASE trial' = CleansUp(trial)
    <3>1. trial' = TrialAs(100, trial.half, trial.containers, trial.volumes, trial.network, trial.browser, trial.odd)
      BY <1>0, <2>2, TrialRecords DEF TrialFit
    <3>. QED BY <1>0, <3>1 DEF TrialFit
  <2>3. CASE trial' = Odd(TrialEnded(trial))
    <3>1. trial' = TrialAs(101, trial.half, trial.containers, trial.volumes, trial.network, trial.browser, Yes)
      BY <1>0, <2>3, TrialRecords DEF TrialFit
    <3>. PICK y \in BOOLEAN : y = Yes /\ y BY YesNo
    <3>. QED BY <3>1
  <2>. QED BY <2>1, <2>2, <2>3
<1>2. PICK here : here = docker' OBVIOUS
<1>3. /\ here \in [{"net", "data", "shared", "fixture", "init", "first", "recreated"} -> {"none", "ours", "stopped", "theirs"}]
      /\ \A r \in {"net", "data", "shared"} : here[r] = docker[r]
      /\ \A r \in Containers : here[r] # "theirs" /\ (here[r] # "none" <=> docker[r] # "none")
  BY <1>0, <1>2, OwnedNames DEF TrialFit, TrialTyped
<1>4. trial' \in TrialRecord BY <1>0, <1>1, TrialFields DEF TrialFit
<1>5. TrialTyped' BY <1>0, <1>2, <1>3, <1>4 DEF TrialFit, TrialTyped
<1>6. Untouched BY <1>0, <1>2, <1>3, OwnedNames DEF TrialFit, TrialTyped, Untouched
<1>7. \A i \in 1..Len(trial.volumes) : trial.volumes[i] \in {"data", "shared"}
  BY <1>0 DEF TrialFit, VolumeLists
<1>8. TrialInv'
  <2>1. at # 101 => \A i \in 1..Len(trial.volumes) : docker'[trial.volumes[i]] = "ours"
    BY <1>0, <1>2, <1>3, <1>7, SMTT(30) DEF TrialFit, VolumesFit
  <2>2. (\E d \in Mounting : docker'[d] # "none") => docker'["data"] = "ours" /\ docker'["shared"] = "ours"
    BY <1>0, <1>2, <1>3, OwnedNames DEF TrialFit, VolumesFit
  <2>3. /\ at \in {1, 2} => trial.volumes = <<>>
        /\ at = 3 => trial.volumes = <<"data">>
        /\ at \in 4..16 => trial.volumes = <<"data", "shared">>
    BY <1>0, <1>1, SMTT(30) DEF TrialFit, VolumesFit
  <2>4. ~odd => /\ \A d \in Containers : docker'[d] # "none" <=> d \in trial.containers
                /\ \A v \in {"data", "shared"} : docker'[v] = "ours" <=> \E i \in 1..Len(trial.volumes) : trial.volumes[i] = v
                /\ docker'["net"] = "ours" <=> trial.network
                /\ at # 101
    BY <1>0, <1>1, <1>2, <1>3 DEF TrialFit, NothingLost, HasVolume
  <2>5. StaysTrue(at, trial.containers, trial.volumes, trial.network, odd) BY <2>1, <2>2, <2>3, <2>4 DEF StaysTrue
  <2>. QED BY <1>0, <1>1, <1>5, <2>5, TrialKeeps DEF TrialFit
<1>. QED BY <1>6, <1>8

\* docker rm, of what is stopped.
RemoveFits(c, at, half, made, odd) ==
  /\ at \in (4..16) \cup {100, 101} /\ half \in BOOLEAN /\ made \in SUBSET Containers /\ odd \in BOOLEAN
  /\ trial.at \in (4..15) \cup {100} /\ (at \in 4..16 => trial.at \in 4..15)
  /\ trial' = TrialAs(at, half, made, trial.volumes, trial.network, trial.browser, odd)
  /\ (trial.odd => odd) /\ (odd \/ (made = trial.containers \ {c} /\ at # 101))
LEMMA RemoveKeeps ==
  ASSUME TrialInv, NEW c \in Containers \cup {"none"}, docker[c] = "stopped", docker' = [docker EXCEPT ![c] = "none"],
         NEW at, NEW half, NEW made, NEW odd, RemoveFits(c, at, half, made, odd)
  PROVE  TrialInv' /\ Untouched
<1>1. /\ at \in (4..16) \cup {100, 101} /\ half \in BOOLEAN /\ made \in SUBSET Containers /\ odd \in BOOLEAN
      /\ trial.at \in (4..15) \cup {100} /\ (at \in 4..16 => trial.at \in 4..15)
      /\ trial' = TrialAs(at, half, made, trial.volumes, trial.network, trial.browser, odd)
      /\ (trial.odd => odd) /\ (odd \/ (made = trial.containers \ {c} /\ at # 101))
  BY DEF RemoveFits
<1>0. TrialFit BY TrialFitting
<1>2. PICK here : here = docker' OBVIOUS
<1>3. /\ here \in [{"net", "data", "shared", "fixture", "init", "first", "recreated"} -> {"none", "ours", "stopped", "theirs"}]
      /\ \A r \in {"net", "data", "shared"} : here[r] = docker[r]
      /\ \A r \in Containers : here[r] = IF r = c THEN "none" ELSE docker[r]
  BY <1>0, <1>2, OwnedNames DEF TrialFit, TrialTyped
<1>4. trial' \in TrialRecord BY <1>0, <1>1, TrialFields DEF TrialFit
<1>5. TrialTyped' BY <1>0, <1>1, <1>2, <1>3, <1>4 DEF TrialFit, TrialTyped
<1>6. Untouched BY <1>0, <1>1, <1>2, <1>3, OwnedNames DEF TrialFit, TrialTyped, Untouched
<1>7. \A i \in 1..Len(trial.volumes) : trial.volumes[i] \in {"data", "shared"}
  BY <1>0 DEF TrialFit, VolumeLists
<1>8. TrialInv'
  <2>1. at # 101 => \A i \in 1..Len(trial.volumes) : docker'[trial.volumes[i]] = "ours"
    BY <1>0, <1>1, <1>2, <1>3, <1>7, SMTT(30) DEF TrialFit, VolumesFit
  <2>2. (\E d \in Mounting : docker'[d] # "none") => docker'["data"] = "ours" /\ docker'["shared"] = "ours"
    BY <1>0, <1>1, <1>2, <1>3, OwnedNames DEF TrialFit, VolumesFit
  <2>3. /\ at \notin {1, 2, 3}
        /\ at \in 4..16 => trial.volumes = <<"data", "shared">>
    BY <1>0, <1>1 DEF TrialFit, VolumesFit
  <2>4. ~odd => /\ \A d \in Containers : docker'[d] # "none" <=> d \in made
                /\ \A v \in {"data", "shared"} : docker'[v] = "ours" <=> \E i \in 1..Len(trial.volumes) : trial.volumes[i] = v
                /\ docker'["net"] = "ours" <=> trial.network
                /\ at # 101
    BY <1>0, <1>1, <1>2, <1>3, SMTT(30) DEF TrialFit, NothingLost, HasVolume
  <2>5. StaysTrue(at, made, trial.volumes, trial.network, odd) BY <2>1, <2>2, <2>3, <2>4 DEF StaysTrue
  <2>. QED BY <1>0, <1>1, <1>5, <2>5, TrialKeeps DEF TrialFit
<1>. QED BY <1>6, <1>8

\* What a record says of an object that was just made.
Made(r, at, made, volumes, network, odd) ==
  /\ odd \/ (made = (IF r \in Containers THEN trial.containers \cup {r} ELSE trial.containers) /\ at # 100)
  /\ odd \/ (network <=> trial.network \/ r = "net")
  /\ at = 100 => volumes = trial.volumes /\ odd
  /\ r = "net" => at \in {2, 100} /\ volumes = <<>>
  /\ r = "data" => at = 100 \/ (at = 3 /\ volumes = <<"data">>)
  /\ r = "shared" => at = 100 \/ (at = 4 /\ volumes = <<"data", "shared">>)
  /\ r \in Containers => at = 100 \/ (at = trial.at /\ volumes = trial.volumes)
  /\ trial.odd => odd
\* The program makes the network, the volumes and then the containers.
Due(r) ==
  /\ r = "net" => trial.at = 1
  /\ r = "data" => trial.at = 2
  /\ r = "shared" => trial.at = 3
  /\ r \in Containers => trial.at >= 4
MadeBy(r, at, half, made, volumes, network, odd) ==
  /\ at \in (1..16) \cup {100} /\ half \in BOOLEAN /\ made \in SUBSET Containers
  /\ volumes \in VolumeLists /\ network \in BOOLEAN /\ odd \in BOOLEAN
  /\ trial' = TrialAs(at, half, made, volumes, network, trial.browser, odd)
  /\ Made(r, at, made, volumes, network, odd)
LEMMA MadeKeeps ==
  ASSUME TrialInv, trial.at \in 1..15, NEW r \in DockerObjects, docker[r] # "theirs",
         docker' = [docker EXCEPT ![r] = "ours"],
         Due(r),
         NEW at, NEW half, NEW made, NEW volumes, NEW network, NEW odd,
         MadeBy(r, at, half, made, volumes, network, odd)
  PROVE  TrialInv' /\ Untouched
<1>0. TrialFit BY TrialFitting
<1>a. trial.at \in Int BY <1>0 DEF TrialFit
<1>b. /\ at \in (1..16) \cup {100} /\ half \in BOOLEAN /\ made \in SUBSET Containers
      /\ volumes \in VolumeLists /\ network \in BOOLEAN /\ odd \in BOOLEAN
      /\ trial' = TrialAs(at, half, made, volumes, network, trial.browser, odd)
  BY DEF MadeBy
<1>2. /\ odd \/ (made = (IF r \in Containers THEN trial.containers \cup {r} ELSE trial.containers) /\ at # 100)
      /\ odd \/ (network <=> trial.network \/ r = "net")
      /\ at = 100 => volumes = trial.volumes /\ odd
      /\ r = "net" => at \in {2, 100} /\ volumes = <<>>
      /\ r = "data" => at = 100 \/ (at = 3 /\ volumes = <<"data">>)
      /\ r = "shared" => at = 100 \/ (at = 4 /\ volumes = <<"data", "shared">>)
      /\ r \in Containers => at = 100 \/ (at = trial.at /\ volumes = trial.volumes)
      /\ trial.odd => odd
  BY DEF Made, MadeBy
<1>3. PICK here : here = docker' OBVIOUS
<1>4. /\ here \in [{"net", "data", "shared", "fixture", "init", "first", "recreated"} -> {"none", "ours", "stopped", "theirs"}]
      /\ here[r] = "ours" /\ \A q \in DockerObjects : q # r => here[q] = docker[q]
  BY <1>0, <1>3, OwnedNames DEF TrialFit, TrialTyped
<1>5. trial' \in TrialRecord BY <1>0, <1>b, <1>2, TrialFields DEF TrialFit
<1>6. TrialTyped' BY <1>0, <1>3, <1>4, <1>5, OwnedNames DEF TrialFit, TrialTyped
<1>7. Untouched BY <1>0, <1>3, <1>4, OwnedNames DEF TrialFit, TrialTyped, Untouched
<1>8. TrialInv'
  <2>1. /\ at \in {1, 2} => volumes = <<>>
        /\ at = 3 => volumes = <<"data">>
        /\ at \in 4..16 => volumes = <<"data", "shared">>
    <3>1. CASE r = "net" BY <1>b, <1>2, <3>1
    <3>2. CASE r = "data" BY <1>2, <3>2
    <3>3. CASE r = "shared" BY <1>2, <3>3
    <3>4. CASE r \in Containers
      <4>1. trial.at \notin {1, 2, 3} /\ trial.volumes = <<"data", "shared">>
        BY <1>0, <1>a, <3>4 DEF TrialFit, VolumesFit, Due
      <4>. QED BY <1>b, <1>2, <3>4, <4>1
    <3>. QED BY <3>1, <3>2, <3>3, <3>4, OwnedNames
  <2>0. \/ volumes = trial.volumes
        \/ r = "data" /\ trial.volumes = <<>> /\ volumes = <<"data">>
        \/ r = "shared" /\ trial.volumes = <<"data">> /\ volumes = <<"data", "shared">>
    <3>1. CASE at = 100 \/ r \in Containers BY <1>2, <3>1
    <3>2. CASE r = "net" BY <1>0, <1>2, <3>2 DEF TrialFit, VolumesFit, Due
    <3>3. CASE r = "data" BY <1>0, <1>2, <3>3 DEF TrialFit, VolumesFit, Due
    <3>4. CASE r = "shared" BY <1>0, <1>2, <3>4 DEF TrialFit, VolumesFit, Due
    <3>. QED BY <3>1, <3>2, <3>3, <3>4, OwnedNames
  <2>2. \A i \in 1..Len(volumes) : volumes[i] = r \/ \E j \in 1..Len(trial.volumes) : volumes[i] = trial.volumes[j]
    <3>1. CASE volumes = trial.volumes BY <3>1
    <3>2. CASE r = "data" /\ volumes = <<"data">> BY <3>2
    <3>3. CASE r = "shared" /\ trial.volumes = <<"data">> /\ volumes = <<"data", "shared">>
      <4>1. \A i \in 1..2 : i = 1 \/ i = 2 OBVIOUS
      <4>. QED BY <3>3, <4>1
    <3>. QED BY <2>0, <3>1, <3>2, <3>3
  <2>3. \A j \in 1..Len(trial.volumes) : docker[trial.volumes[j]] = "ours" /\ trial.volumes[j] \in {"data", "shared"}
    BY <1>0, SMTT(30) DEF TrialFit, VolumesFit, VolumeLists
  <2>4. \A i \in 1..Len(volumes) : docker'[volumes[i]] = "ours"
    BY <1>3, <1>4, <2>2, <2>3, OwnedNames
  <2>5. (\E d \in Mounting : docker'[d] # "none") => docker'["data"] = "ours" /\ docker'["shared"] = "ours"
    <3>1. CASE r \in Containers
      <4>1. trial.volumes = <<"data", "shared">> BY <1>0, <3>1 DEF TrialFit, VolumesFit, Due
      <4>2. docker["data"] = "ours" /\ docker["shared"] = "ours" BY <2>3, <4>1
      <4>. QED BY <1>3, <1>4, <3>1, <4>2, OwnedNames
    <3>2. CASE r \notin Containers
      <4>1. \A d \in Mounting : docker'[d] = docker[d] BY <1>3, <1>4, <3>2, OwnedNames
      <4>2. docker["data"] = "ours" => docker'["data"] = "ours" BY <1>3, <1>4, OwnedNames
      <4>3. docker["shared"] = "ours" => docker'["shared"] = "ours" BY <1>3, <1>4, OwnedNames
      <4>. QED BY <1>0, <4>1, <4>2, <4>3 DEF TrialFit, VolumesFit
    <3>. QED BY <3>1, <3>2
  <2>6. ASSUME ~odd
        PROVE /\ \A d \in Containers : docker'[d] # "none" <=> d \in made
              /\ \A v \in {"data", "shared"} : docker'[v] = "ours" <=> \E i \in 1..Len(volumes) : volumes[i] = v
              /\ docker'["net"] = "ours" <=> network
              /\ at # 101
    <3>1. ~trial.odd /\ at # 100 BY <1>2, <2>6
    <3>2. /\ \A c \in Containers : docker[c] # "none" <=> c \in trial.containers
          /\ \A v \in {"data", "shared"} : docker[v] = "ours" <=> \E i \in 1..Len(trial.volumes) : trial.volumes[i] = v
          /\ docker["net"] = "ours" <=> trial.network
      BY <1>0, <3>1 DEF TrialFit, NothingLost, HasVolume
    <3>3. \A d \in Containers : docker'[d] # "none" <=> d \in made BY <1>2, <1>3, <1>4, <2>6, <3>1, <3>2, OwnedNames
    <3>4. docker'["net"] = "ours" <=> network BY <1>2, <1>3, <1>4, <2>6, <3>2, OwnedNames
    <3>5. \A v \in {"data", "shared"} : (\E i \in 1..Len(volumes) : volumes[i] = v) <=>
                                          v = r \/ \E i \in 1..Len(trial.volumes) : trial.volumes[i] = v
      <4>1. CASE volumes = trial.volumes /\ r \notin {"data", "shared"} BY <4>1
      <4>2. CASE r = "data" /\ trial.volumes = <<>> /\ volumes = <<"data">> BY <4>2, ListsHave
      <4>3. CASE r = "shared" /\ trial.volumes = <<"data">> /\ volumes = <<"data", "shared">> BY <4>3, ListsHave
      <4>4. volumes = trial.volumes => r \notin {"data", "shared"}
        <5>1. CASE r = "data"
          <6>1. trial.volumes = <<>> /\ volumes = <<"data">>
            BY <1>0, <1>2, <3>1, <5>1 DEF TrialFit, VolumesFit, Due
          <6>. QED BY <6>1
        <5>2. CASE r = "shared"
          <6>1. trial.volumes = <<"data">> /\ volumes = <<"data", "shared">>
            BY <1>0, <1>2, <3>1, <5>2 DEF TrialFit, VolumesFit, Due
          <6>. QED BY <6>1
        <5>. QED BY <5>1, <5>2
      <4>. QED BY <2>0, <4>1, <4>2, <4>3, <4>4
    <3>6. \A v \in {"data", "shared"} : docker'[v] = "ours" <=> v = r \/ docker[v] = "ours" BY <1>3, <1>4, OwnedNames
    <3>7. \A v \in {"data", "shared"} : docker'[v] = "ours" <=> \E i \in 1..Len(volumes) : volumes[i] = v
      BY <3>2, <3>5, <3>6, Zenon
    <3>8. at # 101 BY <1>b
    <3>. QED BY <3>3, <3>4, <3>7, <3>8
  <2>7. StaysTrue(at, made, volumes, network, odd) BY <2>1, <2>4, <2>5, <2>6 DEF StaysTrue
  <2>. QED BY <1>0, <1>b, <1>2, <1>6, <2>7, TrialKeeps DEF TrialFit
<1>. QED BY <1>7, <1>8

\* docker ... create, of the program's next object.
LEMMA MakeKeeps ==
  ASSUME TrialInv, trial.at \in 1..15, NEW r \in DockerObjects, docker[r] # "theirs",
         docker' = [docker EXCEPT ![r] = "ours"],
         Due(r),
         \/ trial' = Odd(CleansUp(trial))
         \/ r = "net" /\ trial' = [Onward(trial) EXCEPT !.network = TRUE]
         \/ r \in {"data", "shared"} /\ trial' = [Onward(trial) EXCEPT !.volumes = Append(trial.volumes, r)]
         \/ r \in Containers /\ trial' = [trial EXCEPT !.half = TRUE, !.containers = trial.containers \cup {r}]
  PROVE  TrialInv' /\ Untouched
<1>0. TrialFit BY TrialFitting
<1>b. trial.half \in BOOLEAN /\ trial.containers \in SUBSET Containers /\ trial.volumes \in VolumeLists
       /\ trial.network \in BOOLEAN /\ trial.odd \in BOOLEAN
  BY <1>0 DEF TrialFit
<1>1. CASE trial' = Odd(CleansUp(trial))
  <2>1. trial' = TrialAs(100, trial.half, trial.containers, trial.volumes, trial.network, trial.browser, Yes)
    BY <1>0, <1>1, TrialRecords DEF TrialFit
  <2>2. r = "net" => trial.volumes = <<>> BY <1>0 DEF TrialFit, VolumesFit, Due
  <2>3. r \in Containers \cup {"net", "data", "shared"} BY OwnedNames
  <2>4. Made(r, 100, trial.containers, trial.volumes, trial.network, Yes) BY <2>2, <2>3, YesNo, OwnedNames DEF Made
  <2>5. 100 \in (1..16) \cup {100} OBVIOUS
  <2>9. MadeBy(r, 100, trial.half, trial.containers, trial.volumes, trial.network, Yes) BY <1>b, <2>1, <2>4, <2>5, YesNo DEF MadeBy
  <2>. QED BY <2>9, MadeKeeps
<1>2. CASE r = "net" /\ trial' = [Onward(trial) EXCEPT !.network = TRUE]
  <2>1. trial' = TrialAs(2, No, trial.containers, trial.volumes, Yes, trial.browser, trial.odd)
    <3>0. trial.at + 1 = 2 BY <1>2 DEF Due
    <3>1. Onward(trial) = TrialAs(2, No, trial.containers, trial.volumes, trial.network, trial.browser, trial.odd)
      BY <1>0, <3>0, TrialRecords DEF TrialFit
    <3>2. Onward(trial) \in TrialRecord BY <1>0, <3>1, YesNo, TrialFields DEF TrialFit
    <3>3. trial' = [Onward(trial) EXCEPT !.network = Yes] BY <1>2 DEF Yes
    <3>4. trial' = TrialAs(2, No, trial.containers, trial.volumes, Yes, trial.browser, trial.odd)
      BY <3>1, <3>2, <3>3 DEF TrialAs, TrialRecord
    <3>. QED BY <3>4
  <2>2. trial.volumes = <<>> /\ r \notin Containers BY <1>0, <1>2, OwnedNames DEF TrialFit, VolumesFit, Due
  <2>3. Made(r, 2, trial.containers, trial.volumes, Yes, trial.odd) BY <1>0, <1>2, <2>2, YesNo DEF Made, TrialFit
  <2>4. 2 \in (1..16) \cup {100} OBVIOUS
  <2>9. MadeBy(r, 2, No, trial.containers, trial.volumes, Yes, trial.odd) BY <1>b, <2>1, <2>3, <2>4, YesNo DEF MadeBy
  <2>. QED BY <2>9, MadeKeeps
<1>3. CASE r \in {"data", "shared"} /\ trial' = [Onward(trial) EXCEPT !.volumes = Append(trial.volumes, r)]
  <2>1. PICK volumes : volumes = IF r = "data" THEN <<"data">> ELSE <<"data", "shared">> OBVIOUS
  <2>a. trial.volumes = IF r = "data" THEN <<>> ELSE <<"data">> BY <1>0, <1>3 DEF TrialFit, VolumesFit, Due
  <2>b. Append(<<>>, "data") = <<"data">> /\ Append(<<"data">>, "shared") = <<"data", "shared">>
    <3>1. PICK a, b : a = "data" /\ b = "shared" OBVIOUS
    <3>2. Append(<<>>, a) = <<a>> BY AppendOne
    <3>3. Append(<<a>>, b) = <<a, b>> BY AppendTwo
    <3>. QED BY <3>1, <3>2, <3>3
  <2>2. Append(trial.volumes, r) = volumes BY <1>3, <2>1, <2>a, <2>b
  <2>3. trial' = TrialAs(trial.at + 1, No, trial.containers, volumes, trial.network, trial.browser, trial.odd)
    <3>1. Onward(trial) = TrialAs(trial.at + 1, No, trial.containers, trial.volumes, trial.network, trial.browser, trial.odd)
      BY <1>0, <1>3, TrialRecords DEF TrialFit
    <3>a. trial.at + 1 \in 1..16 OBVIOUS
    <3>2. Onward(trial) \in TrialRecord BY <1>0, <3>1, <3>a, YesNo, TrialFields DEF TrialFit
    <3>3. trial' = [Onward(trial) EXCEPT !.volumes = volumes] BY <2>2, <1>3
    <3>. QED BY <3>1, <3>2, <3>3 DEF TrialAs, TrialRecord
  <2>4. r \notin Containers /\ r # "net" BY <1>3, OwnedNames
  <2>5. Made(r, trial.at + 1, trial.containers, volumes, trial.network, trial.odd)
    BY <1>0, <1>3, <2>1, <2>4 DEF Made, TrialFit, Due
  <2>6. trial.at + 1 \in (1..16) \cup {100} /\ volumes \in VolumeLists BY <2>1 DEF VolumeLists
  <2>9. MadeBy(r, trial.at + 1, No, trial.containers, volumes, trial.network, trial.odd) BY <1>b, <2>3, <2>5, <2>6, YesNo DEF MadeBy
  <2>. QED BY <2>9, MadeKeeps
<1>4. CASE r \in Containers /\ trial' = [trial EXCEPT !.half = TRUE, !.containers = trial.containers \cup {r}]
  <2>1. PICK made : made = trial.containers \cup {r} OBVIOUS
  <2>2. trial' = TrialAs(trial.at, Yes, made, trial.volumes, trial.network, trial.browser, trial.odd)
    <3>1. trial' = [trial EXCEPT !.half = Yes, !.containers = made] BY <1>4, <2>1 DEF Yes
    <3>. QED BY <1>0, <3>1 DEF TrialFit, TrialAs, TrialRecord
  <2>3. r \notin {"data", "shared", "net"} BY <1>4, OwnedNames
  <2>4. made \in SUBSET Containers /\ Yes \in BOOLEAN BY <1>0, YesNo, <1>4, <2>1 DEF TrialFit
  <2>5. Made(r, trial.at, made, trial.volumes, trial.network, trial.odd)
    BY <1>0, <1>4, <2>1, <2>3 DEF Made, TrialFit
  <2>6. trial.at \in (1..16) \cup {100} OBVIOUS
  <2>9. MadeBy(r, trial.at, Yes, made, trial.volumes, trial.network, trial.odd) BY <1>b, <2>2, <2>4, <2>5, <2>6, YesNo DEF MadeBy
  <2>. QED BY <2>9, MadeKeeps
<1>. QED BY <1>1, <1>2, <1>3, <1>4


\* What is made is the next of the program's objects.
LEMMA CreateKeeps ==
  TrialInv /\ (CreateNetwork \/ CreateVolume \/ CreateContainer) => TrialInv' /\ Untouched
<1> SUFFICES ASSUME TrialInv, CreateNetwork \/ CreateVolume \/ CreateContainer PROVE TrialInv' /\ Untouched
  OBVIOUS
<1>0. TrialFit BY TrialFitting
<1>1. trial.at \in 1..15 BY PlanFits DEF Running, CreateNetwork, CreateVolume, CreateContainer
<1>2. PICK r : r = Task OBVIOUS
<1>3. r \in {"net", "data", "shared"} \cup Containers /\ r \in DockerObjects
  BY <1>2, OwnedNames DEF CreateNetwork, CreateVolume, CreateContainer
<1>4. Due(r) BY <1>1, <1>2, PlanFits, OwnedNames DEF Due, Task
<1>5. \/ docker' = docker /\ trial' = CleansUp(trial)
      \/ /\ docker[r] # "theirs"
         /\ docker' = [docker EXCEPT ![r] = "ours"]
         /\ \/ trial' = Odd(CleansUp(trial))
            \/ r = "net" /\ trial' = [Onward(trial) EXCEPT !.network = TRUE]
            \/ r \in {"data", "shared"} /\ trial' = [Onward(trial) EXCEPT !.volumes = Append(trial.volumes, r)]
            \/ r \in Containers /\ trial' = [trial EXCEPT !.half = TRUE, !.containers = trial.containers \cup {r}]
  <2>0. docker \in [DockerObjects -> {"none", "ours", "stopped", "theirs"}] BY <1>0, OwnedNames DEF TrialFit, TrialTyped
  <2>1. CASE CreateNetwork
    BY <1>2, <2>1 DEF CreateNetwork, Makes, Fails
  <2>2. CASE CreateVolume
    <3>1. Onward(trial).volumes = trial.volumes BY <1>0 DEF TrialFit, TrialRecord, Onward
    <3>2. [Onward(trial) EXCEPT !.volumes = Append(@, r)] = [Onward(trial) EXCEPT !.volumes = Append(trial.volumes, r)]
      BY <3>1
    <3>. QED BY <1>2, <2>2, <3>2, OwnedNames DEF CreateVolume, Refuses, Makes, Fails
  <2>3. CASE CreateContainer
    <3>1. docker[r] # "theirs" BY <1>0, <1>2, <2>3 DEF CreateContainer, TrialFit, TrialTyped
    <3>2. Remembered(trial) = [trial EXCEPT !.half = TRUE, !.containers = trial.containers \cup {r}]
      BY <1>0, <1>2 DEF Remembered, TrialFit, TrialRecord
    <3>. QED BY <1>2, <2>3, <3>1, <3>2 DEF CreateContainer, Makes
  <2>. QED BY <2>1, <2>2, <2>3
<1>6. CASE docker' = docker /\ trial' = CleansUp(trial)
  <2>1. TrialInv' BY <1>1, <1>6, GoneOn
  <2>. QED BY <1>6, <2>1 DEF Untouched
<1>7. CASE ~(docker' = docker /\ trial' = CleansUp(trial))
  BY <1>1, <1>3, <1>4, <1>5, <1>7, MakeKeeps, ZenonT(30)
<1>. QED BY <1>6, <1>7

\* On to the program's next step, with what was made.
LEMMA OnwardKeeps ==
  ASSUME TrialInv, trial.at \in 4..15, docker' = docker, NEW browser \in Containers \cup {"none"},
         trial' = [Onward(trial) EXCEPT !.browser = browser]
  PROVE  TrialInv'
<1>0. TrialFit BY TrialFitting
<1>1. PICK at : at = trial.at + 1 OBVIOUS
<1>2. at \in 5..16 BY <1>1
<1>3. trial' = TrialAs(at, No, trial.containers, trial.volumes, trial.network, browser, trial.odd)
  <2>1. Onward(trial) = TrialAs(at, No, trial.containers, trial.volumes, trial.network, trial.browser, trial.odd)
    BY <1>0, <1>1, TrialRecords DEF TrialFit
  <2>. QED BY <2>1 DEF TrialAs
<1>4. trial' \in TrialRecord BY <1>0, <1>2, <1>3, YesNo, TrialFields DEF TrialFit
<1>5. TrialTyped' BY <1>0, <1>4 DEF TrialFit, TrialTyped
<1>6. StaysTrue(at, trial.containers, trial.volumes, trial.network, trial.odd)
  BY <1>0, <1>2, SMTT(30) DEF TrialFit, VolumesFit, NothingLost, HasVolume, StaysTrue
<1>. QED BY <1>0, <1>2, <1>3, <1>5, <1>6, YesNo, TrialKeeps DEF TrialFit

LEMMA BrowserKeeps ==
  TrialInv /\ (StartContainer \/ UseBrowser \/ RemoveBrowser \/ InterruptTrial \/ EndTrial) => TrialInv' /\ Untouched
<1> SUFFICES ASSUME TrialInv PROVE StartContainer \/ UseBrowser \/ RemoveBrowser \/ InterruptTrial \/ EndTrial => TrialInv' /\ Untouched
  OBVIOUS
<1>0. TrialFit BY TrialFitting
<1>1. ASSUME trial.at \in 1..16, Fails PROVE TrialInv' /\ Untouched
  BY <1>1, GoneOn DEF Fails, Untouched
<1>2. ASSUME Running PROVE trial.at \in 1..15
  BY <1>2, PlanFits DEF Running
<1>3. ASSUME trial.at \in 1..15, trial' = Onward(trial)
      PROVE  trial' = [Onward(trial) EXCEPT !.browser = trial.browser]
  <2>1. Onward(trial) = TrialAs(trial.at + 1, No, trial.containers, trial.volumes, trial.network, trial.browser, trial.odd)
    BY <1>0, TrialRecords DEF TrialFit
  <2>. QED BY <1>3, <2>1 DEF TrialAs
<1>4. ASSUME StartContainer PROVE TrialInv' /\ Untouched
  <2>1. trial.at \in 4..15 /\ Task \in Containers BY <1>2, <1>4, PlanFits DEF StartContainer, Task
  <2>2. CASE UNCHANGED docker /\ trial' = [Onward(trial) EXCEPT !.browser = IF Task \in {"fixture", "init"} THEN @ ELSE Task]
    <3>1. Onward(trial).browser = trial.browser BY <1>0 DEF TrialFit, TrialRecord, Onward
    <3>2. PICK browser : browser = IF Task \in {"fixture", "init"} THEN trial.browser ELSE Task OBVIOUS
    <3>3. trial' = [Onward(trial) EXCEPT !.browser = browser] BY <2>2, <3>1, <3>2
    <3>4. browser \in Containers \cup {"none"} BY <1>0, <2>1, <3>2 DEF TrialFit
    <3>. QED BY <2>1, <2>2, <3>3, <3>4, OnwardKeeps DEF Untouched
  <2>3. CASE Fails BY <1>1, <2>1, <2>3
  <2>. QED BY <1>4, <2>2, <2>3 DEF StartContainer
<1>5. ASSUME UseBrowser PROVE TrialInv' /\ Untouched
  <2>1. trial.at \in 4..15 BY <1>2, <1>5, PlanFits DEF UseBrowser, Task
  <2>2. CASE UNCHANGED docker /\ trial' = Onward(trial)
    BY <1>0, <1>3, <2>1, <2>2, OnwardKeeps DEF Untouched, TrialFit
  <2>3. CASE Fails BY <1>1, <2>1, <2>3
  <2>. QED BY <1>5, <2>2, <2>3 DEF UseBrowser
<1>6. ASSUME RemoveBrowser PROVE TrialInv' /\ Untouched
  <2>1. trial.at \in 4..15 BY <1>2, <1>6, PlanFits DEF RemoveBrowser, Task
  <2>2. trial.browser \in Containers \cup {"none"} BY <1>0 DEF TrialFit
  <2>3. CASE Stops(trial.browser, CleansUp(trial)) BY <2>1, <2>2, <2>3, StopKeeps DEF Stops
  <2>4. CASE Removes(trial.browser, Onward(trial), CleansUp(trial))
    <3>1. docker[trial.browser] = "stopped" BY <2>4 DEF Removes
    <3>2. CASE docker' = docker /\ trial' = CleansUp(trial) BY <1>1, <2>1, <3>2 DEF Fails
    <3>3. CASE docker' = [docker EXCEPT ![trial.browser] = "none"] /\ trial' = Odd(CleansUp(trial))
      <4>1. trial' = TrialAs(100, trial.half, trial.containers, trial.volumes, trial.network, trial.browser, Yes)
        BY <1>0, <3>3, TrialRecords DEF TrialFit
      <4>2. RemoveFits(trial.browser, 100, trial.half, trial.containers, Yes) BY <1>0, <2>1, <4>1, YesNo DEF RemoveFits, TrialFit
      <4>. QED BY <2>2, <3>1, <3>3, <4>2, RemoveKeeps
    <3>4. CASE docker' = [docker EXCEPT ![trial.browser] = "none"]
               /\ trial' = [Onward(trial) EXCEPT !.containers = @ \ {trial.browser}]
      <4>1. PICK at : at = trial.at + 1 OBVIOUS
      <4>2. at \in 4..16 BY <2>1, <4>1
      <4>3. PICK made : made = trial.containers \ {trial.browser} OBVIOUS
      <4>4. made \in SUBSET Containers BY <1>0, <4>3 DEF TrialFit
      <4>5. trial' = TrialAs(at, No, made, trial.volumes, trial.network, trial.browser, trial.odd)
        <5>1. Onward(trial) = TrialAs(at, No, trial.containers, trial.volumes, trial.network, trial.browser, trial.odd)
          BY <1>0, <4>1, TrialRecords DEF TrialFit
        <5>2. Onward(trial).containers = trial.containers BY <5>1, TrialFields
        <5>3. trial' = [Onward(trial) EXCEPT !.containers = made] BY <3>4, <4>3, <5>2
        <5>. QED BY <5>1, <5>3 DEF TrialAs
      <4>6. RemoveFits(trial.browser, at, No, made, trial.odd) BY <1>0, <2>1, <4>2, <4>3, <4>4, <4>5, YesNo DEF RemoveFits, TrialFit
      <4>. QED BY <2>2, <3>1, <3>4, <4>6, RemoveKeeps
    <3>. QED BY <2>4, <3>2, <3>3, <3>4 DEF Removes
  <2>. QED BY <1>6, <2>3, <2>4 DEF RemoveBrowser
<1>7. ASSUME InterruptTrial \/ EndTrial PROVE TrialInv' /\ Untouched
  <2>1. trial.at \in 1..16 /\ Fails BY <1>2, <1>7, PlanFits DEF InterruptTrial, EndTrial
  <2>. QED BY <1>1, <2>1
<1>. QED BY <1>4, <1>5, <1>6, <1>7

\* A container that the cleanup takes is one of the run.
LEMMA LatestIn == ASSUME NEW made \in SUBSET Containers, made # {} PROVE Latest(made) \in made
<1>1. \A c \in Containers : Rank[c] \in 1..4 BY OwnedNames DEF Rank
<1>2. \E c \in made : \A d \in made : Rank[d] <= Rank[c]
  <2> DEFINE Least(c) == \A d \in made : Rank[d] <= Rank[c]
  <2>1. CASE \E c \in made : Rank[c] = 4 BY <1>1, <2>1
  <2>2. CASE ~(\E c \in made : Rank[c] = 4) /\ \E c \in made : Rank[c] = 3 BY <1>1, <2>2
  <2>3. CASE ~(\E c \in made : Rank[c] \in {3, 4}) /\ \E c \in made : Rank[c] = 2 BY <1>1, <2>3
  <2>4. CASE ~(\E c \in made : Rank[c] \in {2, 3, 4}) BY <1>1, <2>4
  <2>. QED BY <2>1, <2>2, <2>3, <2>4
<1>. QED BY <1>2 DEF Latest

\* The cleanup's end, without anything odd only when all is gone.
LEMMA ClearedKeeps ==
  ASSUME TrialInv, trial.at = 100, docker' = docker,
         trial' = Odd(TrialEnded(trial)) \/ (trial' = TrialEnded(trial)
           /\ (trial.odd \/ (trial.containers = {} /\ trial.volumes = <<>> /\ ~trial.network)))
  PROVE  TrialInv' /\ Untouched
<1>0. TrialFit BY TrialFitting
<1>1. CASE trial' = TrialEnded(trial) /\ (trial.odd \/ (trial.containers = {} /\ trial.volumes = <<>> /\ ~trial.network))
  BY <1>1, GivenUpKeeps DEF Untouched
<1>2. CASE trial' = Odd(TrialEnded(trial)) /\ ~(trial.odd)
  <2>1. trial' # TrialEnded(trial)
    <3>1. Odd(TrialEnded(trial)).odd
      <4>1. Odd(TrialEnded(trial)) = TrialAs(101, trial.half, trial.containers, trial.volumes, trial.network, trial.browser, Yes)
        BY <1>0, TrialRecords DEF TrialFit
      <4>2. Odd(TrialEnded(trial)).odd = Yes BY <4>1, TrialFields
      <4>. QED BY <4>2, YesNo
    <3>2. TrialEnded(trial).odd = trial.odd BY <1>0 DEF TrialFit, TrialRecord, TrialEnded
    <3>. QED BY <1>2, <3>1, <3>2
  <2>. QED BY <1>2, <2>1, GivenUpKeeps DEF Untouched
<1>3. CASE trial' = Odd(TrialEnded(trial)) /\ trial.odd BY <1>3, GivenUpKeeps DEF Untouched
<1>. QED BY <1>1, <1>2, <1>3

LEMMA CleanContainerKeeps == TrialInv /\ CleanContainer => TrialInv' /\ Untouched
<1> SUFFICES ASSUME TrialInv, CleanContainer PROVE TrialInv' /\ Untouched OBVIOUS
<1>0. TrialFit BY TrialFitting
<1>1. PICK c : c = Latest(trial.containers) OBVIOUS
<1>2. trial.at = 100 /\ c \in trial.containers /\ c \in Containers
  <2>1. trial.at = 100 /\ trial.containers # {} BY DEF CleanContainer, Cleans
  <2>. QED BY <1>0, <1>1, <2>1, LatestIn DEF TrialFit
<1>3. \/ Stops(c, Odd(TrialEnded(trial))) \/ Removes(c, trial, Odd(TrialEnded(trial)))
      \/ docker[c] = "none" /\ UNCHANGED docker /\ trial' = TrialEnded(trial)
  BY <1>1 DEF CleanContainer
<1>4. CASE Stops(c, Odd(TrialEnded(trial))) BY <1>2, <1>4, StopKeeps DEF Stops
<1>5. CASE docker[c] = "none" /\ UNCHANGED docker /\ trial' = TrialEnded(trial)
  <2>1. trial.odd BY <1>0, <1>2, <1>5 DEF TrialFit, NothingLost
  <2>. QED BY <1>2, <1>5, <2>1, ClearedKeeps
<1>6. CASE Removes(c, trial, Odd(TrialEnded(trial)))
  <2>a. c \in Containers \cup {"none"} BY <1>2
  <2>1. docker[c] = "stopped" BY <1>6 DEF Removes
  <2>2. CASE docker' = docker /\ trial' = Odd(TrialEnded(trial)) BY <1>2, <2>2, ClearedKeeps
  <2>3. CASE docker' = [docker EXCEPT ![c] = "none"] /\ trial' = Odd(TrialEnded(trial))
    <3>1. trial' = TrialAs(101, trial.half, trial.containers, trial.volumes, trial.network, trial.browser, Yes)
      BY <1>0, <2>3, TrialRecords DEF TrialFit
    <3>2. RemoveFits(c, 101, trial.half, trial.containers, Yes) BY <1>0, <1>2, <3>1, YesNo DEF RemoveFits, TrialFit
    <3>. QED BY <2>a, <2>1, <2>3, <3>2, RemoveKeeps
  <2>4. CASE docker' = [docker EXCEPT ![c] = "none"] /\ trial' = [trial EXCEPT !.containers = @ \ {c}]
    <3>1. PICK made : made = trial.containers \ {c} OBVIOUS
    <3>2. made \in SUBSET Containers BY <1>0, <3>1 DEF TrialFit
    <3>3. trial' = TrialAs(100, trial.half, made, trial.volumes, trial.network, trial.browser, trial.odd)
      <4>1. trial' = [trial EXCEPT !.containers = made] BY <2>4, <3>1
      <4>. QED BY <1>0, <1>2, <4>1 DEF TrialFit, TrialAs, TrialRecord
    <3>4. RemoveFits(c, 100, trial.half, made, trial.odd) BY <1>0, <1>2, <3>1, <3>2, <3>3 DEF RemoveFits, TrialFit
    <3>. QED BY <2>a, <2>1, <2>4, <3>4, RemoveKeeps
  <2>5. \/ UNCHANGED docker /\ trial' = Odd(TrialEnded(trial))
        \/ docker' = [docker EXCEPT ![c] = "none"] /\ trial' = Odd(TrialEnded(trial))
        \/ docker' = [docker EXCEPT ![c] = "none"] /\ trial' = [trial EXCEPT !.containers = trial.containers \ {c}]
    <3>1. Odd(TrialEnded(trial)) = TrialAs(101, trial.half, trial.containers, trial.volumes, trial.network, trial.browser, Yes)
      BY <1>0, TrialRecords DEF TrialFit
    <3>2. Odd(Odd(TrialEnded(trial))) = Odd(TrialEnded(trial))
      <4>1. Odd(Odd(TrialEnded(trial))) = [Odd(TrialEnded(trial)) EXCEPT !.odd = Yes] BY DEF Odd, Yes
      <4>. QED BY <3>1, <4>1 DEF TrialAs
    <3>. QED BY <1>6, <3>2 DEF Removes
  <2>. QED BY <2>2, <2>3, <2>4, <2>5
<1>. QED BY <1>3, <1>4, <1>5, <1>6

\* What the cleanup deletes, the containers are gone.
DeleteFits(r, at, volumes, network, odd) ==
  /\ at \in {100, 101} /\ volumes \in VolumeLists /\ network \in BOOLEAN /\ odd \in BOOLEAN
  /\ trial' = TrialAs(at, trial.half, trial.containers, volumes, network, trial.browser, odd)
  /\ trial.odd => odd
  /\ at = 100 => \A i \in 1..Len(volumes) : volumes[i] # r /\ \E j \in 1..Len(trial.volumes) : trial.volumes[j] = volumes[i]
  /\ ~odd => /\ \A v \in {"data", "shared"} : (\E i \in 1..Len(volumes) : volumes[i] = v) <=> (v # r /\ HasVolume(v))
             /\ network <=> (trial.network /\ r # "net")
             /\ at = 101 => volumes = <<>> /\ ~network
LEMMA DeleteKeeps ==
  ASSUME TrialInv, trial.at = 100, trial.containers = {}, NEW r \in {"net", "data", "shared"}, docker[r] = "ours",
         docker' = [docker EXCEPT ![r] = "none"], r = "net" \/ \A c \in Mounting : docker[c] = "none",
         NEW at, NEW volumes, NEW network, NEW odd, DeleteFits(r, at, volumes, network, odd)
  PROVE  TrialInv' /\ Untouched
<1>0. TrialFit BY TrialFitting
<1>1. /\ at \in {100, 101} /\ volumes \in VolumeLists /\ network \in BOOLEAN /\ odd \in BOOLEAN
      /\ trial' = TrialAs(at, trial.half, trial.containers, volumes, network, trial.browser, odd)
      /\ trial.odd => odd
  BY DEF DeleteFits
<1>2. PICK here : here = docker' OBVIOUS
<1>3. /\ here \in [{"net", "data", "shared", "fixture", "init", "first", "recreated"} -> {"none", "ours", "stopped", "theirs"}]
      /\ here[r] = "none" /\ \A q \in {"net", "data", "shared"} : q # r => here[q] = docker[q]
      /\ \A c \in Containers : here[c] = docker[c]
  BY <1>0, <1>2, OwnedNames DEF TrialFit, TrialTyped
<1>4. trial' \in TrialRecord BY <1>0, <1>1, TrialFields DEF TrialFit
<1>5. TrialTyped' BY <1>0, <1>2, <1>3, <1>4 DEF TrialFit, TrialTyped
<1>6. Untouched BY <1>0, <1>2, <1>3, OwnedNames DEF TrialFit, TrialTyped, Untouched
<1>7. StaysTrue(at, trial.containers, volumes, network, odd)
  <2>1. at \notin 1..16 BY <1>1
  <2>2. \A j \in 1..Len(trial.volumes) : docker[trial.volumes[j]] = "ours" /\ trial.volumes[j] \in {"data", "shared"}
    BY <1>0 DEF TrialFit, VolumesFit, VolumeLists
  <2>3. at # 101 => \A i \in 1..Len(volumes) : docker'[volumes[i]] = "ours"
    <3>1. ASSUME at = 100, NEW i \in 1..Len(volumes) PROVE docker'[volumes[i]] = "ours"
      <4>1. volumes[i] # r /\ \E j \in 1..Len(trial.volumes) : trial.volumes[j] = volumes[i] BY <3>1 DEF DeleteFits
      <4>. QED BY <1>2, <1>3, <2>2, <4>1
    <3>. QED BY <1>1, <3>1
  <2>4. (\E c \in Mounting : docker'[c] # "none") => docker'["data"] = "ours" /\ docker'["shared"] = "ours"
    <3>1. \A c \in Mounting : docker'[c] = docker[c] BY <1>2, <1>3, OwnedNames
    <3>2. (\E c \in Mounting : docker[c] # "none") => docker["data"] = "ours" /\ docker["shared"] = "ours"
      BY <1>0 DEF TrialFit, VolumesFit
    <3>3. r = "net" => docker'["data"] = docker["data"] /\ docker'["shared"] = docker["shared"] BY <1>2, <1>3
    <3>. QED BY <3>1, <3>2, <3>3
  <2>5. ASSUME ~odd
        PROVE  /\ \A c \in Containers : docker'[c] # "none" <=> c \in trial.containers
               /\ \A v \in {"data", "shared"} : docker'[v] = "ours" <=> \E i \in 1..Len(volumes) : volumes[i] = v
               /\ docker'["net"] = "ours" <=> network
               /\ at = 101 => trial.containers = {} /\ volumes = <<>> /\ ~network
    <3>1. /\ \A v \in {"data", "shared"} : (\E i \in 1..Len(volumes) : volumes[i] = v) <=> (v # r /\ HasVolume(v))
          /\ network <=> (trial.network /\ r # "net")
          /\ at = 101 => volumes = <<>> /\ ~network
      BY <2>5 DEF DeleteFits
    <3>2. /\ \A c \in Containers : docker[c] # "none" <=> c \in trial.containers
          /\ \A v \in {"data", "shared"} : docker[v] = "ours" <=> HasVolume(v)
          /\ docker["net"] = "ours" <=> trial.network
      BY <1>0, <1>1, <2>5 DEF TrialFit, NothingLost
    <3>3. \A c \in Containers : docker'[c] # "none" <=> c \in trial.containers BY <1>2, <1>3, <3>2
    <3>4. \A v \in {"data", "shared"} : docker'[v] = "ours" <=> v # r /\ docker[v] = "ours" BY <1>2, <1>3
    <3>5. \A v \in {"data", "shared"} : docker'[v] = "ours" <=> \E i \in 1..Len(volumes) : volumes[i] = v
      <4> TAKE v \in {"data", "shared"}
      <4>1. docker'[v] = "ours" <=> v # r /\ HasVolume(v) BY <3>2, <3>4
      <4>. QED BY <3>1, <4>1
    <3>6. docker'["net"] = "ours" <=> network BY <1>2, <1>3, <3>1, <3>2
    <3>. QED BY <3>1, <3>3, <3>5, <3>6
  <2>6. at \notin {1, 2} /\ at # 3 /\ at \notin 4..16 BY <1>1
  <2>. QED BY <2>3, <2>4, <2>5, <2>6, Zenon DEF StaysTrue
<1>8. TrialInv'
  <2>1. at \in (1..16) \cup {100, 101} BY <1>1
  <2>. QED BY <1>0, <1>1, <1>5, <1>7, <2>1, TrialKeeps DEF TrialFit
<1>. QED BY <1>6, <1>8

LEMMA CleanVolumeKeeps == TrialInv /\ CleanVolume => TrialInv' /\ Untouched
<1> SUFFICES ASSUME TrialInv, CleanVolume PROVE TrialInv' /\ Untouched OBVIOUS
<1>0. TrialFit BY TrialFitting
<1>1. trial.at = 100 /\ trial.containers = {} /\ trial.volumes # <<>>
  BY DEF CleanVolume, Cleans
<1>2. PICK r, rest : r = Head(trial.volumes) /\ rest = Tail(trial.volumes) OBVIOUS
<1>3. /\ r \in {"data", "shared"} /\ rest \in VolumeLists
      /\ \A i \in 1..Len(rest) : rest[i] # r /\ \E j \in 1..Len(trial.volumes) : trial.volumes[j] = rest[i]
      /\ \A v \in {"data", "shared"} : (\E i \in 1..Len(rest) : rest[i] = v) <=> (v # r /\ HasVolume(v))
      /\ HasVolume(r)
  <2>1. CASE trial.volumes = <<"data">>
    <3>1. r = "data" /\ rest = <<>> BY <1>2, <2>1
    <3>2. \A i : i \notin 1..Len(<<>>) OBVIOUS
    <3>. QED BY <2>1, <3>1, <3>2, ListsHave DEF HasVolume, VolumeLists
  <2>2. CASE trial.volumes = <<"shared">>
    <3>1. r = "shared" /\ rest = <<>> BY <1>2, <2>2
    <3>2. \A i : i \notin 1..Len(<<>>) OBVIOUS
    <3>3. \A v : HasVolume(v) <=> v = "shared"
      <4>1. Len(trial.volumes) = 1 /\ trial.volumes[1] = "shared" BY <2>2
      <4>. QED BY <4>1 DEF HasVolume
    <3>. QED BY <3>1, <3>2, <3>3, ListsHave DEF VolumeLists
  <2>3. CASE trial.volumes = <<"data", "shared">>
    <3>1. r = "data" /\ rest = <<"shared">> BY <1>2, <2>3
    <3>2. Len(rest) = 1 /\ rest[1] = "shared" BY <3>1
    <3>3. \A v : HasVolume(v) <=> v \in {"data", "shared"} BY <2>3, ListsHave DEF HasVolume
    <3>4. \A i \in 1..Len(rest) : i = 1 BY <3>2
    <3>5. \A v : (\E i \in 1..Len(rest) : rest[i] = v) <=> v = "shared" BY <3>2, <3>4
    <3>6. \E j \in 1..Len(trial.volumes) : trial.volumes[j] = "shared" BY <3>3 DEF HasVolume
    <3>. QED BY <3>1, <3>2, <3>3, <3>4, <3>5, <3>6 DEF VolumeLists
  <2>. QED BY <1>0, <1>1, <2>1, <2>2, <2>3 DEF TrialFit, VolumeLists
<1>4. docker[r] = "ours" BY <1>0, <1>1, <1>3 DEF TrialFit, VolumesFit, HasVolume
<1>5. Deletes(r, [trial EXCEPT !.volumes = rest]) BY <1>0, <1>2 DEF CleanVolume, TrialFit, TrialRecord
<1>6. CASE Unused(r)
  <2>0. r \in {"net", "data", "shared"} BY <1>3
  <2>1. \A c \in Mounting : docker[c] = "none" BY <1>3, <1>6 DEF Unused
  <2>2. \/ docker' = docker /\ trial' = Odd(TrialEnded(trial))
        \/ /\ docker' = [docker EXCEPT ![r] = "none"]
           /\ trial' = [trial EXCEPT !.volumes = rest] \/ trial' = Odd(TrialEnded(trial))
    BY <1>4, <1>5, <1>6 DEF Deletes
  <2>3. CASE docker' = docker /\ trial' = Odd(TrialEnded(trial)) BY <1>1, <2>3, ClearedKeeps
  <2>4. CASE docker' = [docker EXCEPT ![r] = "none"] /\ trial' = [trial EXCEPT !.volumes = rest]
    <3>1. trial' = TrialAs(100, trial.half, trial.containers, rest, trial.network, trial.browser, trial.odd)
      BY <1>0, <1>1, <2>4 DEF TrialFit, TrialAs, TrialRecord
    <3>2. DeleteFits(r, 100, rest, trial.network, trial.odd) BY <1>0, <1>3, <3>1 DEF DeleteFits, TrialFit
    <3>. QED BY <1>1, <1>4, <2>0, <2>1, <2>4, <3>2, DeleteKeeps
  <2>5. CASE docker' = [docker EXCEPT ![r] = "none"] /\ trial' = Odd(TrialEnded(trial))
    <3>1. trial' = TrialAs(101, trial.half, trial.containers, trial.volumes, trial.network, trial.browser, Yes)
      BY <1>0, <2>5, TrialRecords DEF TrialFit
    <3>2. DeleteFits(r, 101, trial.volumes, trial.network, Yes) BY <1>0, <3>1, YesNo DEF DeleteFits, TrialFit
    <3>. QED BY <1>1, <1>4, <2>0, <2>1, <2>5, <3>2, DeleteKeeps
  <2>. QED BY <2>2, <2>3, <2>4, <2>5
<1>7. CASE ~Unused(r)
  <2>1. docker' = docker /\ trial' = TrialEnded(trial) BY <1>5, <1>7 DEF Deletes
  <2>2. trial.odd
    <3>1. PICK c \in Mounting : docker[c] # "none" BY <1>7 DEF Unused
    <3>. QED BY <1>0, <1>1, <3>1, OwnedNames DEF TrialFit, NothingLost
  <2>. QED BY <1>1, <2>1, <2>2, ClearedKeeps
<1>. QED BY <1>6, <1>7

LEMMA CleanNetworkKeeps == TrialInv /\ CleanNetwork => TrialInv' /\ Untouched
<1> SUFFICES ASSUME TrialInv, CleanNetwork PROVE TrialInv' /\ Untouched OBVIOUS
<1>0. TrialFit BY TrialFitting
<1>1. trial.at = 100 /\ trial.containers = {} /\ trial.volumes = <<>>
  BY DEF CleanNetwork, Cleans
<1>2. CASE ~trial.network
  <2>1. docker' = docker /\ trial' = TrialEnded(trial) BY <1>2 DEF CleanNetwork
  <2>. QED BY <1>1, <1>2, <2>1, ClearedKeeps
<1>3. CASE trial.network
  <2>1. Deletes("net", [TrialEnded(trial) EXCEPT !.network = No]) BY <1>3 DEF CleanNetwork, No
  <2>2. CASE docker["net"] = "ours"
    <3>1. \/ docker' = docker /\ trial' = Odd(TrialEnded(trial))
          \/ /\ docker' = [docker EXCEPT !["net"] = "none"]
             /\ trial' = [TrialEnded(trial) EXCEPT !.network = No] \/ trial' = Odd(TrialEnded(trial))
      BY <2>1, <2>2 DEF Deletes, Unused
    <3>2. CASE docker' = docker /\ trial' = Odd(TrialEnded(trial)) BY <1>1, <3>2, ClearedKeeps
    <3>3. CASE docker' = [docker EXCEPT !["net"] = "none"] /\ trial' = [TrialEnded(trial) EXCEPT !.network = No]
      <4>1. TrialEnded(trial) = TrialAs(101, trial.half, trial.containers, trial.volumes, trial.network, trial.browser, trial.odd)
        BY <1>0, TrialRecords DEF TrialFit
      <4>2. trial' = TrialAs(101, trial.half, trial.containers, trial.volumes, No, trial.browser, trial.odd)
        BY <3>3, <4>1 DEF TrialAs
      <4>3. DeleteFits("net", 101, trial.volumes, No, trial.odd)
        <5>1. \A v \in {"data", "shared"} : (\E i \in 1..Len(trial.volumes) : trial.volumes[i] = v) <=> (v # "net" /\ HasVolume(v))
          BY DEF HasVolume
        <5>. QED BY <1>0, <1>1, <4>2, <5>1, YesNo DEF DeleteFits, TrialFit
      <4>. QED BY <1>1, <2>2, <3>3, <4>3, DeleteKeeps
    <3>4. CASE docker' = [docker EXCEPT !["net"] = "none"] /\ trial' = Odd(TrialEnded(trial))
      <4>1. trial' = TrialAs(101, trial.half, trial.containers, trial.volumes, trial.network, trial.browser, Yes)
        BY <1>0, <3>4, TrialRecords DEF TrialFit
      <4>2. DeleteFits("net", 101, trial.volumes, trial.network, Yes) BY <1>0, <4>1, YesNo DEF DeleteFits, TrialFit
      <4>. QED BY <1>1, <2>2, <3>4, <4>2, DeleteKeeps
    <3>. QED BY <3>1, <3>2, <3>3, <3>4
  <2>3. CASE docker["net"] # "ours"
    <3>1. docker' = docker /\ trial' = TrialEnded(trial) BY <2>1, <2>3 DEF Deletes
    <3>2. trial.odd BY <1>0, <1>3, <2>3 DEF TrialFit, NothingLost
    <3>. QED BY <1>1, <3>1, <3>2, ClearedKeeps
  <2>. QED BY <2>2, <2>3
<1>. QED BY <1>2, <1>3

LEMMA TrialStepKeeps == TrialInv /\ TrialStep => TrialInv' /\ Untouched
BY CreateKeeps, BrowserKeeps, CleanContainerKeeps, CleanVolumeKeeps, CleanNetworkKeeps DEF TrialStep

\* The baseline session, whose browser is gone before its profile.
LEMMA BaselineKeeps == BaselineInv /\ BaselineStep => BaselineInv'
<1> SUFFICES ASSUME BaselineInv, BaselineStep PROVE BaselineInv' OBVIOUS
<1>0. baseline \in BaselineRecord BY DEF BaselineInv
<1>1. CASE StartSession BY <1>0, <1>1 DEF StartSession, BaselineInv, BaselineRecord
<1>8. CASE Launch
  <2>1. PICK next : next = baseline.launches + 1 OBVIOUS
  <2>2. baseline.browsers + 1 = 1 /\ next \in Nat BY <1>0, <1>8, <2>1 DEF Launch, BaselineInv, BaselineRecord
  <2>3. CASE baseline' = [baseline EXCEPT !.at = "spawn", !.browsers = @ + 1, !.launches = @ + 1]
    <3>1. baseline' = [baseline EXCEPT !.at = "spawn", !.browsers = 1, !.launches = next] BY <1>0, <2>1, <2>2, <2>3 DEF BaselineRecord
    <3>. QED BY <1>0, <1>8, <2>2, <3>1 DEF Launch, BaselineInv, BaselineRecord
  <2>4. CASE SessionAt("close") BY <1>0, <2>4 DEF SessionAt, BaselineInv, BaselineRecord
  <2>. QED BY <1>8, <2>3, <2>4 DEF Launch
<1>9. CASE Spawn \/ Endpoint BY <1>0, <1>9 DEF Spawn, Endpoint, SessionAt, BaselineInv, BaselineRecord
<1>2. CASE Connect BY <1>0, <1>2 DEF Connect, BaselineInv, BaselineRecord
<1>3. CASE ChildExits \/ EndSession
  BY <1>0, <1>3 DEF ChildExits, EndSession, SessionAt, BaselineInv, BaselineRecord
<1>4. CASE RestartSession \/ CloseSession
  BY <1>0, <1>4, Zenon DEF RestartSession, CloseSession, BaselineInv, BaselineRecord
<1>5. CASE TerminateSession \/ CloseClient
  BY <1>0, <1>5, Zenon DEF TerminateSession, CloseClient, Attempt, Attempted, SessionAt, BaselineInv, BaselineRecord
<1>6. CASE KillChild \/ CloseContext
  BY <1>0, <1>6, Zenon DEF KillChild, CloseContext, BaselineInv, BaselineRecord
<1>7. CASE SessionStopped
  BY <1>0, <1>7, Zenon DEF SessionStopped, StoppedHow, SessionAt, BaselineInv, BaselineRecord
<1>. QED BY <1>1, <1>2, <1>3, <1>4, <1>5, <1>6, <1>7, <1>8, <1>9 DEF BaselineStep

\* The trial's and the session's own parts of the property.
Tidy ==
  /\ trial.at = 101 /\ ~trial.odd => \A r \in DOMAIN docker : docker[r] \in {"none", "theirs"}
  /\ (\E c \in Mounting : docker[c] # "none") => \A v \in ToSet(Volumes) : docker[v] = "ours"
  /\ baseline.browsers <= 1
  /\ baseline.at \in {"left", "gone"} => baseline.child # "up"
  /\ baseline.at = "gone" => baseline.browsers = 0
LEMMA OwnedTidy == OwnedInv => Tidy
<1> SUFFICES ASSUME OwnedInv PROVE Tidy OBVIOUS
<1>0. TrialFit BY TrialFitting DEF OwnedInv
<1>1. ASSUME trial.at = 101, ~trial.odd, NEW r \in DOMAIN docker PROVE docker[r] \in {"none", "theirs"}
  <2>1. r \in {"net", "data", "shared"} \cup Containers /\ docker[r] \in {"none", "ours", "stopped", "theirs"}
    BY <1>0, <1>1, OwnedNames DEF TrialFit, TrialTyped
  <2>2. \A v : ~HasVolume(v)
    <3>1. trial.volumes = <<>> BY <1>0, <1>1 DEF TrialFit, NothingLost
    <3>. QED BY <3>1, ListsHave DEF HasVolume
  <2>3. CASE r \in Containers BY <1>0, <1>1, <2>3 DEF TrialFit, NothingLost
  <2>4. CASE r \in {"data", "shared"} BY <1>0, <1>1, <2>1, <2>2, <2>4 DEF TrialFit, TrialTyped, NothingLost
  <2>5. CASE r = "net" BY <1>0, <1>1, <2>1, <2>5 DEF TrialFit, TrialTyped, NothingLost
  <2>. QED BY <2>1, <2>3, <2>4, <2>5
<1>2. (\E c \in Mounting : docker[c] # "none") => \A v \in ToSet(Volumes) : docker[v] = "ours"
  BY <1>0, OwnedNames DEF TrialFit, VolumesFit
<1>3. baseline.browsers <= 1 BY DEF OwnedInv, BaselineInv, BaselineRecord
<1>. QED BY <1>1, <1>2, <1>3 DEF Tidy, OwnedInv, BaselineInv

\* Wherever a disposable run fails or is interrupted nothing of its own is left, and
\* nothing of others is touched; a baseline session has one browser at most, and its
\* profile goes when nothing can use it (disposable-run.mjs:41, mcp-baseline-session.mjs:146).
THEOREM CleanRuns == OwnedSpec => OwnedIsClean
<1>1. OwnedInit => OwnedInv BY OwnedStart
<1>2. OwnedInv /\ [OwnedNext]_ownedVars => OwnedInv' /\ Untouched
  <2> SUFFICES ASSUME OwnedInv, [OwnedNext]_ownedVars PROVE OwnedInv' /\ Untouched OBVIOUS
  <2>1. CASE TrialStep /\ UNCHANGED baseline
    <3>1. TrialInv' /\ Untouched BY <2>1, TrialStepKeeps DEF OwnedInv
    <3>2. BaselineInv' BY <2>1 DEF OwnedInv, BaselineInv
    <3>. QED BY <3>1, <3>2 DEF OwnedInv
  <2>2. CASE BaselineStep /\ UNCHANGED <<docker, trial>>
    <3>1. BaselineInv' BY <2>2, BaselineKeeps DEF OwnedInv
    <3>2. TrialInv' BY <2>2 DEF OwnedInv, TrialInv, TrialTyped, VolumesFit, NothingLost, HasVolume
    <3>. QED BY <2>2, <3>1, <3>2 DEF OwnedInv, Untouched
  <2>3. CASE UNCHANGED ownedVars
    BY <2>3 DEF ownedVars, OwnedInv, TrialInv, TrialTyped, VolumesFit, NothingLost, HasVolume, BaselineInv, Untouched
  <2>. QED BY <2>1, <2>2, <2>3 DEF OwnedNext
<1>3. OwnedInv /\ [OwnedNext]_ownedVars => [\A r \in DOMAIN docker : docker[r] = "theirs" => docker'[r] = "theirs"]_ownedVars
  BY <1>2 DEF Untouched
<1>. QED BY <1>1, <1>2, <1>3, OwnedTidy, PTL DEF OwnedSpec, OwnedIsClean, Tidy
=============================================================================
