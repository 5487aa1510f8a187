------------------------- MODULE CompactMcp_proofs -------------------------
(***************************************************************************)
(* Proofs about the compact MCP service, for every number of calls,        *)
(* sessions, requests, dialogs and tabs.                                   *)
(*                                                                         *)
(* The invariant IInv says of every call what it has (its place in the     *)
(* queue, or the browser; an unsettled request of its own) and what it may *)
(* rely on about the tab at the point it has reached.  At most one call    *)
(* has got the browser, and only that one is past the queue: an action of  *)
(* it is checked against its own part of IInv (Moves, Runs), an event of   *)
(* the page against what all points of a call rely on (TabMoves).          *)
(***************************************************************************)
EXTENDS CompactMcp, FiniteSetTheorems, WellFoundedInduction, TLAPS

Points == Waiting \cup Looking \cup Acting \cup Between

\* What never changes while a call runs.
Same(r, e) == /\ r.session = e.session /\ r.kind = e.kind /\ r.request = e.request
              /\ r.view = e.view /\ r.aborted = e.aborted

LEMMA CallFields ==
  ASSUME NEW e \in Call
  PROVE /\ e.pc \in Points /\ e.session \in Sessions /\ e.kind \in Kinds /\ e.request \in Requests \cup {0}
        /\ e.view \in Nat /\ e.seen \in Epoch /\ e.popups \in 0..MaxPopups /\ e.stage \in 0..Stages
        /\ e.step \in 0..Steps /\ e.part \in 0..Parts /\ e.held \in 0..MaxDialogs /\ e.aborted \in BOOLEAN
BY DEF Call, Points

LEMMA AtPoint ==
  ASSUME NEW e \in Call, NEW p \in Points
  PROVE LET r == [e EXCEPT !.pc = p] IN
        /\ r \in Call /\ Same(r, e) /\ r.pc = p /\ r.seen = e.seen /\ r.popups = e.popups
        /\ r.held = e.held /\ r.part = e.part
BY DEF Call, Points, Same

LEMMA SeenAt ==
  ASSUME NEW e \in Call, NEW p \in Points, NEW s \in Epoch
  PROVE LET r == [e EXCEPT !.pc = p, !.seen = s] IN
        /\ r \in Call /\ Same(r, e) /\ r.pc = p /\ r.seen = s /\ r.popups = e.popups
        /\ r.held = e.held /\ r.part = e.part
BY DEF Call, Points, Same

LEMMA PartAt ==
  ASSUME NEW e \in Call, NEW p \in Points, NEW n \in 0..Parts
  PROVE LET r == [e EXCEPT !.pc = p, !.part = n] IN
        /\ r \in Call /\ Same(r, e) /\ r.pc = p /\ r.seen = e.seen /\ r.popups = e.popups
        /\ r.held = e.held /\ r.part = n
BY DEF Call, Points, Same

-----------------------------------------------------------------------------
\* The queue.

LEMMA QueueIsFinite ==
        /\ IsFiniteSet(Queued) /\ Cardinality(Queued) \in Nat
        /\ \A cs, n : LET ds == {d \in Queued \ cs : place[d] <= n}
                      IN  IsFiniteSet(ds) /\ Cardinality(ds) \in Nat /\ Cardinality(ds) <= Cardinality(Queued)
<1>1. IsFiniteSet(Queued) BY ExecutorAssumption, FS_Subset DEF Queued
<1>2. Cardinality(Queued) \in Nat BY <1>1, FS_CardinalityType
<1>3. ASSUME NEW cs, NEW n
      PROVE LET ds == {d \in Queued \ cs : place[d] <= n}
            IN  IsFiniteSet(ds) /\ Cardinality(ds) \in Nat /\ Cardinality(ds) <= Cardinality(Queued)
  <2>. DEFINE ds == {d \in Queued \ cs : place[d] <= n}
  <2>1. ds \in SUBSET Queued OBVIOUS
  <2>. HIDE DEF ds
  <2>2. IsFiniteSet(ds) /\ Cardinality(ds) <= Cardinality(Queued) BY <1>1, <2>1, FS_Subset
  <2>3. Cardinality(ds) \in Nat BY <2>2, FS_CardinalityType
  <2>. USE DEF ds
  <2>. QED BY <2>2, <2>3
<1>. QED BY <1>1, <1>2, <1>3

\* A call that arrives is the last one.
LEMMA EnqueueType ==
  ASSUME ExecutorTypeOK, NEW c \in Calls, place[c] = 0, HasRoom, Enqueue(c)
  PROVE ExecutorTypeOK' /\ place'[c] # 0 /\ \A d \in Calls \ {c} : place'[d] = place[d]
<1>1. place \in [Calls -> 0..(Limit + 1)] /\ Limit \in Nat /\ running \in Calls \cup {NoCall}
  BY ExecutorAssumption DEF ExecutorTypeOK
<1>2. Cardinality(Queued) \in Nat /\ IsFiniteSet(Queued) BY QueueIsFinite
<1>3. Cardinality(Queued) + 1 \in 1..(Limit + 1) BY <1>1, <1>2 DEF HasRoom
<1>4. /\ place' \in [Calls -> 0..(Limit + 1)] /\ place'[c] = Cardinality(Queued) + 1
      /\ \A d \in Calls \ {c} : place'[d] = place[d]
  BY <1>1, <1>3 DEF Enqueue
<1>5. Queued' = Queued \cup {c} /\ c \notin Queued BY <1>1, <1>2, <1>4 DEF Queued
<1>6. Cardinality(Queued') = Cardinality(Queued) + 1 BY <1>2, <1>5, FS_AddElement
<1>7. ASSUME NEW d \in Queued'
      PROVE place'[d] <= Cardinality(Queued') /\ \A e \in Queued' \ {d} : place'[d] # place'[e]
  <2>1. \A e \in Queued : /\ place[e] \in Nat /\ place[e] <= Cardinality(Queued) /\ place'[e] = place[e]
                          /\ \A f \in Queued \ {e} : place[e] # place[f]
    BY <1>1, <1>4, <1>5 DEF ExecutorTypeOK, Queued
  <2>. QED BY <1>2, <1>4, <1>5, <1>6, <1>7, <2>1
<1>8. running' = running BY DEF Enqueue
<1>9. Cardinality(Queued') <= Limit + 1 BY <1>1, <1>2, <1>3, <1>6
<1>10. ExecutorTypeOK' BY <1>1, <1>4, <1>7, <1>8, <1>9 DEF ExecutorTypeOK
<1>. QED BY <1>1, <1>2, <1>4, <1>10

\* Whoever leaves has no place any more, and nobody gets one.
LEMMA LeaveType ==
  ASSUME ExecutorTypeOK, NEW cs, Leave(cs), running' \in Calls \cup {NoCall}
  PROVE ExecutorTypeOK' /\ \A d \in Calls : place'[d] # 0 => place[d] # 0 /\ d \notin cs
<1>. DEFINE Ahead(c) == {d \in Queued \ cs : place[d] <= place[c]}
<1>1. place \in [Calls -> 0..(Limit + 1)] /\ Limit \in Nat BY ExecutorAssumption DEF ExecutorTypeOK
<1>2. /\ Cardinality(Queued) \in Nat /\ IsFiniteSet(Queued) /\ Cardinality(Queued) <= Limit + 1
      /\ \A c : IsFiniteSet(Ahead(c)) /\ Cardinality(Ahead(c)) \in Nat
                /\ Cardinality(Ahead(c)) <= Cardinality(Queued)
  BY QueueIsFinite DEF ExecutorTypeOK
<1>3. \A c \in Calls : place'[c] = IF c \in cs THEN 0 ELSE Cardinality(Ahead(c)) BY DEF Leave
<1>4. place' \in [Calls -> 0..(Limit + 1)]
  <2>1. \A c \in Calls : Cardinality(Ahead(c)) \in 0..(Limit + 1)
    <3>. HIDE DEF Ahead
    <3>. QED BY <1>1, <1>2
  <2>2. \A c \in Calls : (IF c \in cs THEN 0 ELSE Cardinality(Ahead(c))) \in 0..(Limit + 1) BY <1>1, <2>1
  <2>. QED BY <2>2 DEF Leave
<1>5. ASSUME NEW c \in Calls PROVE place'[c] # 0 <=> place[c] # 0 /\ c \notin cs
  <2>1. CASE c \in cs BY <1>3, <2>1
  <2>2. CASE c \notin cs /\ place[c] = 0
    <3>1. Ahead(c) = {} BY <1>1, <2>2 DEF Queued
    <3>. QED BY <1>3, <2>2, <3>1, FS_EmptySet
  <2>3. CASE c \notin cs /\ place[c] # 0
    <3>1. c \in Ahead(c) BY <1>1, <2>3 DEF Queued
    <3>. HIDE DEF Ahead
    <3>2. Cardinality(Ahead(c)) # 0 BY <1>2, <3>1, FS_EmptySet
    <3>. QED BY <1>3, <2>3, <3>2
  <2>. QED BY <2>1, <2>2, <2>3
<1>6. Queued' = Queued \ cs BY <1>5 DEF Queued
<1>7. IsFiniteSet(Queued') /\ Cardinality(Queued') <= Cardinality(Queued) /\ Cardinality(Queued') \in Nat
  BY <1>2, <1>6, FS_Subset, FS_CardinalityType
<1>8. ASSUME NEW c \in Queued'
      PROVE place'[c] <= Cardinality(Queued') /\ \A d \in Queued' \ {c} : place'[c] # place'[d]
  <2>1. c \in Queued /\ c \in Calls /\ c \notin cs /\ place'[c] = Cardinality(Ahead(c))
    BY <1>3, <1>6, <1>8 DEF Queued
  <2>2. Ahead(c) \in SUBSET Queued' BY <1>6
  <2>3. Cardinality(Ahead(c)) <= Cardinality(Queued') BY <1>7, <2>2, FS_Subset
  <2>4. ASSUME NEW e \in Queued', NEW f \in Queued', place[e] < place[f]
        PROVE place'[e] # place'[f]
    <3>1. e \in Calls /\ f \in Calls /\ place'[e] = Cardinality(Ahead(e)) /\ place'[f] = Cardinality(Ahead(f))
          /\ place[e] \in Nat /\ place[f] \in Nat
      BY <1>1, <1>3, <1>6 DEF Queued
    <3>2. Ahead(e) \in SUBSET Ahead(f)
      <4>1. \A d \in Queued : place[d] \in Nat BY <1>1 DEF Queued
      <4>. QED BY <2>4, <3>1, <4>1
    <3>3. f \in Ahead(f) /\ f \notin Ahead(e) BY <1>6, <2>4, <3>1
    <3>. HIDE DEF Ahead
    <3>4. Cardinality(Ahead(f)) = Cardinality(Ahead(e)) => Ahead(f) = Ahead(e) BY <1>2, <3>2, FS_Subset
    <3>. QED BY <3>1, <3>3, <3>4
  <2>5. ASSUME NEW d \in Queued' \ {c} PROVE place'[c] # place'[d]
    <3>1. place[c] # place[d] /\ place[c] \in Nat /\ place[d] \in Nat
      BY <1>1, <1>6, <2>1, <2>5 DEF ExecutorTypeOK, Queued
    <3>2. place[c] < place[d] \/ place[d] < place[c] BY <3>1
    <3>. QED BY <3>2, <2>4, <1>8
  <2>. QED BY <2>1, <2>3, <2>5
<1>9. ExecutorTypeOK' BY <1>2, <1>4, <1>7, <1>8, <1>1 DEF ExecutorTypeOK
<1>. QED BY <1>5, <1>9

-----------------------------------------------------------------------------
\* The ledger.

LEMMA LeastNumber ==
  ASSUME NEW ps \in SUBSET Record, IsFiniteSet(ps), ps # {}
  PROVE \E p \in ps : p.request = Min({q.request : q \in ps})
<1>. DEFINE Below(p) == {q \in ps : q.request < p.request}
            T == {Below(p) : p \in ps}
<1>1. \A p \in ps : p.request \in Nat BY DEF Record, Requests
<1>2. T \subseteq FiniteSubsetsOf(ps) /\ T # {}
  <2>1. \A p \in ps : Below(p) \in SUBSET ps OBVIOUS
  <2>2. \A p \in ps : IsFiniteSet(Below(p))
    <3>. HIDE DEF Below
    <3>. QED BY <2>1, FS_Subset
  <2>. QED BY <2>1, <2>2 DEF FiniteSubsetsOf
<1>3. PICK t \in T : \A u \in T : ~(<<u, t>> \in StrictSubsetOrdering(ps))
  <2>. HIDE DEF T
  <2>. QED BY <1>2, FS_StrictSubsetOrderingWellFounded, WFMin
<1>4. PICK p \in ps : t = Below(p) BY <1>3
<1>5. ASSUME NEW q \in ps PROVE p.request <= q.request
  <2> SUFFICES ASSUME q.request < p.request PROVE FALSE BY <1>1
  <2>1. Below(q) \subseteq Below(p) /\ q \in Below(p) /\ q \notin Below(q) BY <1>1
  <2>2. Below(q) \in T OBVIOUS
  <2>3. <<Below(q), Below(p)>> \in StrictSubsetOrdering(ps) BY <2>1 DEF StrictSubsetOrdering
  <2>. QED BY <2>2, <2>3, <1>3, <1>4
<1>. DEFINE N == {q.request : q \in ps}
<1>6. p.request \in N /\ \A n \in N : p.request <= n BY <1>5
<1>7. N \subseteq Nat BY <1>1
<1>. HIDE DEF N
<1>8. Min(N) \in N /\ \A n \in N : Min(N) <= n BY <1>6 DEF Min
<1>9. Min(N) = p.request
  <2>1. p.request <= Min(N) /\ Min(N) <= p.request BY <1>6, <1>8
  <2>2. p.request \in Nat /\ Min(N) \in Nat BY <1>6, <1>7, <1>8
  <2>. QED BY <2>1, <2>2
<1>. QED BY <1>9 DEF N

\* A session keeps as many records as it may.
LEMMA NewestFits ==
  ASSUME NEW ps \in SUBSET Record, IsFiniteSet(ps), Cardinality(ps) <= Kept + 1
  PROVE IsFiniteSet(Newest(ps)) /\ Cardinality(Newest(ps)) <= Kept /\ Newest(ps) \subseteq ps
<1>1. Kept \in Nat /\ Cardinality(ps) \in Nat BY LedgerAssumption, FS_CardinalityType
<1>2. CASE Cardinality(ps) <= Kept BY <1>1, <1>2 DEF Newest
<1>3. CASE Cardinality(ps) > Kept
  <2>. DEFINE N == {q.request : q \in ps}
  <2>1. ps # {} BY <1>1, <1>3, FS_EmptySet
  <2>3. PICK p \in ps : p.request = Min(N) BY <2>1, LeastNumber
  <2>4. Newest(ps) = {q \in ps : q.request # Min(N)} BY <1>3 DEF Newest
  <2>5. Newest(ps) \in SUBSET (ps \ {p}) BY <2>3, <2>4
  <2>6. IsFiniteSet(ps \ {p}) /\ Cardinality(ps \ {p}) = Cardinality(ps) - 1 BY FS_RemoveElement
  <2>7. IsFiniteSet(Newest(ps)) /\ Cardinality(Newest(ps)) <= Cardinality(ps) - 1 BY <2>5, <2>6, FS_Subset
  <2>8. Cardinality(Newest(ps)) \in Nat BY <2>7, FS_CardinalityType
  <2>. QED BY <1>1, <2>5, <2>7, <2>8
<1>. QED BY <1>1, <1>2, <1>3

\* A record is made for a number above all that were used.
LEMMA InstallType ==
  ASSUME LedgerTypeOK, NEW s \in Sessions, NEW r \in Requests, NEW a \in Arguments, Install(s, r, a)
  PROVE /\ highest' \in [Sessions -> Requests \cup {0}] /\ r > highest[s] /\ highest'[s] = r
        /\ \A t \in Sessions : highest'[t] >= highest[t]
        /\ records' \in [Sessions -> SUBSET Record]
        /\ \A t \in Sessions : IsFiniteSet(records'[t]) /\ Cardinality(records'[t]) <= Kept
        /\ \A t \in Sessions : \A p \in records'[t] : p \in records[t] \/ (t = s /\ p.request = r)
<1>1. /\ highest \in [Sessions -> Requests \cup {0}] /\ records \in [Sessions -> SUBSET Record]
      /\ \A t \in Sessions : IsFiniteSet(records[t]) /\ Cardinality(records[t]) <= Kept
  BY DEF LedgerTypeOK
<1>2. r > highest[s] BY DEF Install, IsNew
<1>3. highest' = [highest EXCEPT ![s] = r] BY DEF Install
<1>4. highest' \in [Sessions -> Requests \cup {0}] BY <1>1, <1>3
<1>5. \A t \in Sessions : highest'[t] >= highest[t] BY <1>1, <1>2, <1>3 DEF Requests
<1>. DEFINE new == [request |-> r, args |-> a]
            ps == records[s] \cup {new}
<1>6. records' = [records EXCEPT ![s] = Newest(ps)] BY <1>1 DEF Install
<1>7. ps \in SUBSET Record
  <2>1. new \in Record BY DEF Record
  <2>. QED BY <1>1, <2>1
<1>8. IsFiniteSet(ps) /\ Cardinality(ps) <= Kept + 1
  <2>1. IsFiniteSet(records[s]) /\ Cardinality(records[s]) <= Kept BY <1>1
  <2>2. Cardinality(records[s]) \in Nat /\ Kept \in Nat BY <2>1, FS_CardinalityType, LedgerAssumption
  <2>. HIDE DEF new
  <2>3. IsFiniteSet(ps) /\ Cardinality(ps) = IF new \in records[s] THEN Cardinality(records[s])
                                             ELSE Cardinality(records[s]) + 1
    BY <2>1, FS_AddElement
  <2>. HIDE DEF ps
  <2>. QED BY <2>1, <2>2, <2>3
<1>. HIDE DEF ps
<1>9. IsFiniteSet(Newest(ps)) /\ Cardinality(Newest(ps)) <= Kept /\ Newest(ps) \subseteq ps
  BY <1>7, <1>8, NewestFits
<1>10. records' \in [Sessions -> SUBSET Record]
       /\ \A t \in Sessions : IsFiniteSet(records'[t]) /\ Cardinality(records'[t]) <= Kept
  BY <1>1, <1>6, <1>7, <1>9
<1>11. ASSUME NEW t \in Sessions, NEW p \in records'[t] PROVE p \in records[t] \/ (t = s /\ p.request = r)
  <2>1. CASE t # s BY <1>1, <1>6, <1>11, <2>1
  <2>2. CASE t = s
    <3>1. p \in ps BY <1>1, <1>6, <1>9, <1>11, <2>2
    <3>. QED BY <2>2, <3>1 DEF ps
  <2>. QED BY <2>1, <2>2
<1>. QED BY <1>1, <1>2, <1>3, <1>4, <1>5, <1>10, <1>11

-----------------------------------------------------------------------------
\* The invariant.

\* A call has its place, the browser, its own unsettled request.
Owned(c) ==
  /\ place[c] # 0 => call[c].pc = "queued"
  /\ call[c].pc \notin Waiting => running = c
  /\ call[c].pc = "idle" => call[c].request = 0
  /\ call[c].pc = "queued" => /\ ~call[c].aborted
                              /\ call[c].kind \notin {"view", "read"} => call[c].request # 0
  /\ call[c].pc \in Acting \cup Between \cup {"look"} => call[c].request # 0
  /\ call[c].request <= highest[call[c].session]
  /\ call[c].pc # "sharing" => Owner(c) \notin settled
  /\ call[c].pc # "idle" /\ call[c].session \in ended => call[c].aborted
\* What a call at this point may rely on about the tab.
Fits(e) ==
  /\ e.pc \in {"guard", "aim"} => e.seen.mutation = mutation \/ dialog # 0
  /\ e.pc = "act" => e.seen.mutation = mutation /\ ~pending /\ e.part # 0
  /\ e.pc \in {"accept", "closing"} => e.held # 0 /\ e.held <= opened
  /\ e.pc = "closing" => modal # e.held
  /\ e.pc = "settle" => pending
\* No two calls work for one request.
Apart == \A c, d \in Calls :
  /\ c # d /\ call[c].request # 0
  /\ call[c].pc \notin {"idle", "sharing"} /\ call[d].pc \notin {"idle", "sharing"}
  => Owner(c) # Owner(d)
\* A settled request has a number that is used up.
Known == \A o \in settled : o[2] # 0 /\ o[2] <= highest[o[1]]
\* A record is of a number that was used.
Numbered == \A s \in Sessions : \A p \in records[s] : p.request <= highest[s]
\* An action that was set aside saw the tab before the dialog came.
Aside == /\ pending <=> paused # NoAction
         /\ paused # NoAction => paused.since.mutation < mutation
         /\ dialog <= opened /\ modal <= opened

IInv == /\ TypeOK /\ (\A c \in Calls : Owned(c) /\ Fits(call[c]))
        /\ Apart /\ Known /\ Numbered /\ Aside /\ DialogIsKnown

LEMMA Basics ==
  ASSUME IInv
  PROVE /\ \A c \in Calls : call[c] \in Call
        /\ NoCall \notin Calls /\ NoAction \notin Action
        /\ Owners = Sessions \X Requests /\ MaxDialogs \in Nat /\ MaxPopups \in Nat
        /\ Now \in Epoch /\ mutation \in Nat /\ document \in 1..MaxDocument
        /\ call \in [Calls -> Call]
BY ExecutorAssumption, ActionAssumption, McpAssumption, TabAssumption
   DEF IInv, TypeOK, TabTypeOK, Epoch, Now

\* An idle call is none.
LEMMA IdleCall == Idle \in Call /\ Idle.pc = "idle" /\ Idle.request = 0 /\ Idle.session \in Sessions
<1>1. (CHOOSE t \in Sessions : TRUE) \in Sessions /\ (CHOOSE t \in Kinds : TRUE) \in Kinds
  BY McpAssumption
<1>2. NoEpoch \in Epoch BY TabAssumption DEF NoEpoch, Epoch
<1>3. 0 \in 0..MaxPopups /\ 0 \in 0..Stages /\ 0 \in 0..Steps /\ 0 \in 0..Parts /\ 0 \in 0..MaxDialogs
  BY TabAssumption, McpAssumption
<1>. QED BY <1>1, <1>2, <1>3 DEF Idle, Call, Waiting

\* A call that runs, or begins to, gets to another point.
LEMMA Moves ==
  ASSUME IInv, NEW c \in Calls, NEW r \in Call, call' = [call EXCEPT ![c] = r],
         call[c].pc \notin {"idle", "sharing"}, Same(r, call[c]), r.pc \notin Waiting,
         r.pc \in Acting \cup Between \cup {"look"} => r.request # 0,
         running' = c, running \in {c, NoCall}, ExecutorTypeOK',
         \A d \in Calls : place'[d] # 0 => place[d] # 0 /\ d # c,
         UNCHANGED <<ledgerVars, ended>>, TabTypeOK',
         latest' \in [Sessions -> [id : Nat, epoch : Epoch]], sent' \in [Owners -> Nat],
         Aside', DialogIsKnown', Fits(r)'
  PROVE IInv'
<1>1. call'[c] = r /\ (\A d \in Calls \ {c} : call'[d] = call[d]) BY Basics
<1>2. \A d \in Calls \ {c} : call[d].pc \in Waiting BY Basics DEF IInv, Owned
<1>3. TypeOK'
  <2>1. call' \in [Calls -> Call] BY Basics
  <2>2. LedgerTypeOK' BY DEF IInv, TypeOK, LedgerTypeOK, ledgerVars
  <2>3. ended' \subseteq Sessions BY DEF IInv, TypeOK
  <2>. QED BY <2>1, <2>2, <2>3 DEF TypeOK
<1>4. ASSUME NEW d \in Calls PROVE Owned(d)' /\ Fits(call[d])'
  <2>1. CASE d = c
    <3>1. Owner(c)' = Owner(c) BY <1>1 DEF Owner, Same
    <3>2. Owned(c) BY DEF IInv
    <3>. QED BY <1>1, <2>1, <3>1, <3>2 DEF Owned, Same, ledgerVars, Waiting
  <2>2. CASE d # c
    <3>1. call'[d] = call[d] /\ Owner(d)' = Owner(d) /\ call[d].pc \in Waiting BY <1>1, <1>2, <2>2 DEF Owner
    <3>2. Owned(d)' BY <3>1 DEF IInv, Owned, ledgerVars
    <3>3. Fits(call[d])' BY <3>1 DEF Fits, Waiting
    <3>. QED BY <3>2, <3>3
  <2>. QED BY <2>1, <2>2
<1>5. Apart'
  <2>1. \A d \in Calls : /\ Owner(d)' = Owner(d) /\ call'[d].request = call[d].request
                         /\ call'[d].pc \notin {"idle", "sharing"} => call[d].pc \notin {"idle", "sharing"}
    BY <1>1 DEF Owner, Same
  <2>. QED BY <2>1 DEF IInv, Apart
<1>6. Known' /\ Numbered' BY DEF IInv, Known, Numbered, ledgerVars
<1>. QED BY <1>3, <1>4, <1>5, <1>6 DEF IInv

\* The same, of the call that runs.
LEMMA Runs ==
  ASSUME IInv, NEW c \in Calls, NEW r \in Call, call' = [call EXCEPT ![c] = r], Proceeds(c),
         call[c].pc \notin Waiting, Same(r, call[c]), r.pc \notin Waiting,
         r.pc \in Acting \cup Between \cup {"look"} => r.request # 0,
         TabTypeOK', latest' \in [Sessions -> [id : Nat, epoch : Epoch]], sent' \in [Owners -> Nat],
         Aside', DialogIsKnown', Fits(r)'
  PROVE IInv'
<1>1. UNCHANGED <<place, running, ledgerVars, ended>> /\ running = c BY DEF Proceeds, executorVars
<1>2. ExecutorTypeOK' BY <1>1 DEF IInv, TypeOK, ExecutorTypeOK, Queued
<1>3. place[c] = 0 BY DEF IInv, Owned, Waiting
<1>. QED BY <1>1, <1>2, <1>3, Moves DEF Waiting

\* ... and the tab stays as it is.
LEMMA TabStays ==
  ASSUME IInv, UNCHANGED tabVars
  PROVE /\ TabTypeOK' /\ Aside' /\ DialogIsKnown' /\ \A c : Fits(c)' <=> Fits(c)
        /\ Now' = Now
BY DEF IInv, TypeOK, TabTypeOK, Now, tabVars, Aside, DialogIsKnown, Fits
LEMMA LatestStays == ASSUME IInv, UNCHANGED latest PROVE latest' \in [Sessions -> [id : Nat, epoch : Epoch]]
BY DEF IInv, TypeOK
LEMMA SentStays == ASSUME IInv, UNCHANGED sent PROVE sent' \in [Owners -> Nat]
BY DEF IInv, TypeOK

\* A request has one owner.
LEMMA OutcomeOf ==
  ASSUME IInv, NEW c \in Calls
  PROVE /\ Outcome({c}) = IF call[c].request # 0 THEN {Owner(c)} ELSE {}
        /\ Outcome({c}) \subseteq Sessions \X Requests
<1>1. Outcome({c}) = IF call[c].request # 0 THEN {Owner(c)} ELSE {} BY DEF Outcome
<1>2. call[c].request # 0 => Owner(c) \in Sessions \X Requests BY Basics, CallFields DEF Owner
<1>. QED BY <1>1, <1>2

\* A call is answered, and its request is settled.
LEMMA Answers ==
  ASSUME IInv, NEW c \in Calls, Answered({c}), call[c].pc # "idle",
         call[c].pc = "sharing" => Owner(c) \in settled, ExecutorTypeOK',
         \A d \in Calls : place'[d] # 0 => place[d] # 0 /\ d # c,
         running' = running \/ running = c,
         UNCHANGED <<tabVars, ended, sent>>, latest' \in [Sessions -> [id : Nat, epoch : Epoch]]
  PROVE IInv'
<1>1. /\ call'[c] = Idle /\ \A d \in Calls \ {c} : call'[d] = call[d] BY DEF Answered
<1>2. Idle \in Call /\ Idle.pc = "idle" /\ Idle.request = 0 /\ Idle.session \in Sessions BY IdleCall
<1>3. settled' = settled \cup Outcome({c}) /\ UNCHANGED <<highest, records>> BY DEF Answered
<1>4. TypeOK'
  <2>1. call' \in [Calls -> Call] BY <1>2, Basics DEF Answered
  <2>2. LedgerTypeOK' BY <1>3, OutcomeOf DEF IInv, TypeOK, LedgerTypeOK
  <2>3. ended' \subseteq Sessions /\ sent' \in [Owners -> Nat] BY DEF IInv, TypeOK
  <2>. QED BY <2>1, <2>2, <2>3, TabStays DEF TypeOK
<1>5. Known'
  <2>1. Owned(c) BY DEF IInv
  <2>2. Owner(c)[1] = call[c].session /\ Owner(c)[2] = call[c].request BY DEF Owner
  <2>3. ASSUME NEW o \in Outcome({c}) PROVE o[2] # 0 /\ o[2] <= highest[o[1]]
    <3>1. call[c].request # 0
      <4> SUFFICES ASSUME call[c].request = 0 PROVE FALSE OBVIOUS
      <4>1. Outcome({c}) = {} BY OutcomeOf
      <4>. QED BY <4>1
    <3>3. o = Owner(c)
      <4>1. Outcome({c}) = {Owner(c)} BY <3>1, OutcomeOf
      <4>. QED BY <4>1
    <3>. QED BY <2>1, <2>2, <3>1, <3>3 DEF Owned
  <2>. QED BY <1>3, <2>3 DEF IInv, Known
<1>6. ASSUME NEW d \in Calls PROVE Owned(d)' /\ Fits(call[d])'
  <2>1. CASE d = c
    <3>1. Owner(c)' = <<Idle.session, 0>> BY <1>1, <1>2 DEF Owner
    <3>2. Owner(c)' \notin settled' BY <1>5, <3>1 DEF Known
    <3>3. highest[Idle.session] \in Nat BY <1>2 DEF IInv, TypeOK, LedgerTypeOK, Requests
    <3>4. Owned(c)' BY <1>1, <1>2, <1>3, <3>2, <3>3 DEF Owned, Waiting, Acting, Between
    <3>5. Fits(call[c])' BY <1>1, <1>2 DEF Fits
    <3>. QED BY <2>1, <3>4, <3>5
  <2>2. CASE d # c
    <3>1. call'[d] = call[d] /\ Owner(d)' = Owner(d) BY <1>1, <2>2 DEF Owner
    <3>2. Owned(d) /\ Owned(c) BY DEF IInv
    <3>3. call[d].pc # "sharing" => Owner(d) \notin Outcome({c})
      <4> SUFFICES ASSUME call[d].pc # "sharing", call[c].request # 0, Owner(d) = Owner(c) PROVE FALSE
        BY OutcomeOf
      <4>1. call[d].request # 0 BY DEF Owner
      <4>2. call[d].pc # "idle" BY <4>1, <3>2 DEF Owned
      <4>3. call[c].pc # "sharing" BY <3>2 DEF Owned
      <4>. QED BY <2>2, <4>1, <4>2, <4>3 DEF IInv, Apart
    <3>4. call[d].pc \notin Waiting => running' = d BY <2>2, <3>2, Basics DEF Owned
    <3>5. Owned(d)' BY <1>3, <3>1, <3>2, <3>3, <3>4 DEF Owned
    <3>6. Fits(call[d])' BY <3>1 DEF IInv, Fits, tabVars
    <3>. QED BY <3>5, <3>6
  <2>. QED BY <2>1, <2>2
<1>7. Apart'
  <2>1. \A d \in Calls \ {c} : call'[d] = call[d] /\ Owner(d)' = Owner(d) BY <1>1 DEF Owner
  <2>2. call'[c].pc = "idle" BY <1>1, <1>2
  <2>. QED BY <2>1, <2>2 DEF IInv, Apart
<1>8. Numbered' BY <1>3 DEF IInv, Numbered
<1>. QED BY <1>4, <1>5, <1>6, <1>7, <1>8, TabStays DEF IInv

-----------------------------------------------------------------------------
\* Calls arrive.

\* A new call gets in, which works for a request of its own, or for none, or
\* only shares the outcome of another.
LEMMA ArrivesInvariant ==
  ASSUME IInv, NEW c \in Calls, NEW r \in Call, call' = [call EXCEPT ![c] = r], call[c].pc = "idle",
         r.pc \in {"queued", "sharing"},
         r.pc = "queued" => r.kind \in {"view", "read"} \/ r.request # 0,
         r.pc = "queued" => r.request = 0 \/ r.request > highest[r.session],
         r.request <= highest'[r.session], ~r.aborted, r.session \notin ended,
         LedgerTypeOK', Numbered', \A s \in Sessions : highest'[s] >= highest[s], UNCHANGED settled,
         ExecutorTypeOK', r.pc = "sharing" => place'[c] = place[c],
         \A d \in Calls \ {c} : place'[d] = place[d],
         UNCHANGED <<running, tabVars, latest, ended, sent>>
  PROVE IInv'
<1>1. call'[c] = r /\ (\A d \in Calls \ {c} : call'[d] = call[d]) BY Basics
<1>2. r.session \in Sessions /\ r.request \in Nat BY CallFields DEF Requests
<1>3. \A s \in Sessions : highest[s] \in Nat /\ highest'[s] \in Nat
  BY DEF IInv, TypeOK, LedgerTypeOK, Requests
<1>4. TypeOK'
  <2>1. call' \in [Calls -> Call] BY Basics
  <2>2. ended' \subseteq Sessions /\ sent' \in [Owners -> Nat] BY DEF IInv, TypeOK
  <2>. QED BY <2>1, <2>2, TabStays, LatestStays DEF TypeOK
<1>5. Known'
  <2> SUFFICES ASSUME NEW o \in settled PROVE o[2] # 0 /\ o[2] <= highest'[o[1]] BY DEF Known
  <2>1. o \in Sessions \X Requests BY DEF IInv, TypeOK, LedgerTypeOK
  <2>2. o[1] \in Sessions /\ o[2] \in Nat BY <2>1 DEF Requests
  <2>. QED BY <1>3, <2>2 DEF IInv, Known
<1>6. r.request # 0 /\ r.pc = "queued" => Owner(c)' \notin settled
  <2> SUFFICES ASSUME r.request # 0, r.pc = "queued", <<r.session, r.request>> \in settled PROVE FALSE
    BY <1>1 DEF Owner
  <2>1. r.request <= highest[r.session] BY DEF IInv, Known
  <2>. QED BY <2>1, <1>2, <1>3
<1>7. \A d \in Calls \ {c} : call[d].pc = call'[d].pc /\ Owner(d)' = Owner(d) BY <1>1 DEF Owner
<1>8. Owned(c)'
  <2>1. call[c].pc = "idle" /\ Owned(c) BY DEF IInv
  <2>2. place[c] = 0 BY <2>1 DEF Owned
  <2>3. r.request = 0 => Owner(c)' \notin settled
    <3> SUFFICES ASSUME r.request = 0, <<r.session, r.request>> \in settled PROVE FALSE BY <1>1 DEF Owner
    <3>. QED BY DEF IInv, Known
  <2>4. place'[c] # 0 => call'[c].pc = "queued" BY <1>1, <2>2
  <2>5. call'[c].pc \in Waiting BY <1>1 DEF Waiting
  <2>6. call'[c].pc \notin Acting \cup Between \cup {"look"} BY <1>1 DEF Acting, Between
  <2>7. call'[c].pc # "idle" /\ ~call'[c].aborted /\ call'[c].session \notin ended BY <1>1
  <2>8. call'[c].pc # "sharing" => Owner(c)' \notin settled BY <1>1, <1>6, <2>3
  <2>9. call'[c].pc = "queued" => call'[c].kind \in {"view", "read"} \/ call'[c].request # 0 BY <1>1
  <2>10. call'[c].request <= highest'[call'[c].session] BY <1>1
  <2>. QED BY <2>4, <2>5, <2>6, <2>7, <2>8, <2>9, <2>10 DEF Owned
<1>9. ASSUME NEW d \in Calls \ {c} PROVE Owned(d)'
  <2>1. Owned(d) /\ call[d].session \in Sessions /\ call[d].request \in Nat
    BY Basics, CallFields DEF IInv, Requests
  <2>2. call[d].request <= highest'[call[d].session] BY <1>3, <2>1 DEF Owned
  <2>. QED BY <1>1, <1>7, <2>1, <2>2 DEF Owned
<1>10. ASSUME NEW d \in Calls PROVE Fits(call[d])'
  <2>1. CASE d = c BY <1>1, <2>1 DEF Fits
  <2>2. CASE d # c BY <1>1, <2>2 DEF IInv, Fits, tabVars
  <2>. QED BY <2>1, <2>2
<1>11. Apart'
  <2> SUFFICES ASSUME NEW d \in Calls, NEW e \in Calls, d # e, call'[d].request # 0,
                      call'[d].pc \notin {"idle", "sharing"}, call'[e].pc \notin {"idle", "sharing"},
                      Owner(d)' = Owner(e)'
               PROVE FALSE
    BY DEF Apart
  <2>1. \A f \in Calls \ {c} : call[f].request <= highest[call[f].session] BY DEF IInv, Owned
  <2>2. call'[d].request = call'[e].request /\ call'[d].session = call'[e].session BY DEF Owner
  <2>3. CASE d = c \/ e = c
    <3>1. PICK f \in Calls \ {c} : call[f].request = r.request /\ call[f].session = r.session
      BY <1>1, <2>2, <2>3
    <3>2. r.pc # "sharing" /\ r.request # 0
      <4>1. CASE d = c BY <1>1, <4>1
      <4>2. CASE e = c BY <1>1, <2>2, <4>2
      <4>. QED BY <2>3, <4>1, <4>2
    <3>. QED BY <1>2, <1>3, <2>1, <3>1, <3>2
  <2>4. CASE d # c /\ e # c BY <1>1, <1>7, <2>4 DEF IInv, Apart
  <2>. QED BY <2>3, <2>4
<1>. QED BY <1>4, <1>5, <1>8, <1>9, <1>10, <1>11, TabStays DEF IInv

LEMMA MadeType ==
  ASSUME IInv, NEW s \in Sessions, NEW k \in Kinds, NEW q \in Requests \cup {0}, NEW v \in Nat,
         NEW p \in {"queued", "sharing"}
  PROVE LET r == Made(s, k, q, v, p)
        IN  r \in Call /\ r.pc = p /\ r.session = s /\ r.kind = k /\ r.request = q /\ ~r.aborted
<1>1. Idle \in Call BY IdleCall
<1>2. Idle.aborted = FALSE BY DEF Idle
<1>3. p \in Points BY DEF Points, Waiting
<1>. DEFINE r == Made(s, k, q, v, p)
<1>4. r \in Call BY <1>1, <1>3 DEF Made, Call, Points
<1>5. r.pc = p /\ r.session = s /\ r.kind = k /\ r.request = q BY <1>1 DEF Made, Call
<1>6. r.aborted = Idle.aborted BY <1>1 DEF Made, Call
<1>. QED BY <1>2, <1>4, <1>5, <1>6

LEMMA AskInvariant ==
  ASSUME IInv, NEW c \in Calls, NEW s \in Sessions, NEW k \in Kinds, NEW v \in Nat, Ask(c, s, k, v)
  PROVE IInv'
<1>1. PICK r \in Call : /\ r = Made(s, k, 0, v, "queued") /\ r.pc = "queued" /\ r.session = s
                        /\ r.kind = k /\ r.request = 0 /\ ~r.aborted
  BY MadeType
<1>2. /\ call[c].pc = "idle" /\ s \notin ended /\ k \in {"view", "read"} /\ HasRoom /\ Enqueue(c)
      /\ call' = [call EXCEPT ![c] = r]
      /\ UNCHANGED <<highest, records, settled, tabVars, latest, ended, sent>>
  BY <1>1 DEF Ask, Arrives, Becomes, ledgerVars
<1>3. place[c] = 0 BY <1>2 DEF IInv, Owned
<1>4. ExecutorTypeOK' /\ \A d \in Calls \ {c} : place'[d] = place[d]
  BY <1>2, <1>3, EnqueueType DEF IInv, TypeOK
<1>5. LedgerTypeOK' BY <1>2 DEF IInv, TypeOK, LedgerTypeOK
<1>6. \A t \in Sessions : highest[t] \in Nat BY DEF IInv, TypeOK, LedgerTypeOK, Requests
<1>7. running' = running BY <1>2 DEF Enqueue
<1>8. Numbered' BY <1>2 DEF IInv, Numbered
<1>9. /\ r.pc \in {"queued", "sharing"} /\ r.pc # "sharing" /\ r.kind \in {"view", "read"}
      /\ r.session \notin ended
  BY <1>1, <1>2
<1>10. r.request <= highest'[r.session] BY <1>1, <1>2, <1>6
<1>11. \A t \in Sessions : highest'[t] >= highest[t] BY <1>2, <1>6
<1>. QED BY <1>1, <1>2, <1>4, <1>5, <1>7, <1>8, <1>9, <1>10, <1>11, ArrivesInvariant

LEMMA ArgumentsType ==
  ASSUME NEW k \in {"act", "dialog", "flow"}, NEW v \in Nat
  PROVE [kind |-> k, view |-> v] \in Arguments
BY DEF Arguments

LEMMA InstallNumbers ==
  ASSUME IInv, NEW s \in Sessions, NEW q \in Requests, highest'[s] = q,
         highest' \in [Sessions -> Requests \cup {0}], \A t \in Sessions : highest'[t] >= highest[t],
         \A t \in Sessions : \A p \in records'[t] : p \in records[t] \/ (t = s /\ p.request = q)
  PROVE Numbered'
<1> SUFFICES ASSUME NEW t \in Sessions, NEW p \in records'[t] PROVE p.request <= highest'[t]
  BY DEF Numbered
<1>1. CASE p \in records[t]
  <2>1. records[t] \subseteq Record /\ highest[t] \in Nat /\ highest'[t] \in Nat
    BY DEF IInv, TypeOK, LedgerTypeOK, Requests
  <2>2. p.request \in Nat BY <1>1, <2>1 DEF Record, Requests
  <2>3. p.request <= highest[t] BY <1>1 DEF IInv, Numbered
  <2>. QED BY <2>1, <2>2, <2>3
<1>2. CASE t = s /\ p.request = q BY <1>2 DEF Requests
<1>. QED BY <1>1, <1>2

LEMMA RequestInvariant ==
  ASSUME IInv, NEW c \in Calls, NEW s \in Sessions, NEW k \in Kinds, NEW q \in Requests, NEW v \in Nat,
         Request(c, s, k, q, v)
  PROVE IInv'
<1>1. PICK r \in Call : /\ r = Made(s, k, q, v, "queued") /\ r.pc = "queued" /\ r.session = s
                        /\ r.kind = k /\ r.request = q /\ ~r.aborted
  BY MadeType
<1>2. /\ call[c].pc = "idle" /\ s \notin ended /\ k \in {"act", "dialog", "flow"} /\ HasRoom /\ Enqueue(c)
      /\ call' = [call EXCEPT ![c] = r] /\ Install(s, q, [kind |-> k, view |-> v])
      /\ UNCHANGED <<settled, tabVars, latest, ended, sent>>
  BY <1>1 DEF Request, Arrives, Becomes
<1>3. place[c] = 0 BY <1>2 DEF IInv, Owned
<1>4. ExecutorTypeOK' /\ \A d \in Calls \ {c} : place'[d] = place[d]
  BY <1>2, <1>3, EnqueueType DEF IInv, TypeOK
<1>5. /\ highest' \in [Sessions -> Requests \cup {0}] /\ q > highest[s] /\ highest'[s] = q
      /\ \A t \in Sessions : highest'[t] >= highest[t]
      /\ records' \in [Sessions -> SUBSET Record]
      /\ \A t \in Sessions : IsFiniteSet(records'[t]) /\ Cardinality(records'[t]) <= Kept
      /\ \A t \in Sessions : \A p \in records'[t] : p \in records[t] \/ (t = s /\ p.request = q)
  BY <1>2, ArgumentsType, InstallType DEF IInv, TypeOK
<1>6. LedgerTypeOK' BY <1>2, <1>5 DEF IInv, TypeOK, LedgerTypeOK
<1>7. running' = running BY <1>2 DEF Enqueue
<1>8. q \in Nat /\ q # 0 BY DEF Requests
<1>9. Numbered' BY <1>5, <1>8, InstallNumbers
<1>10. /\ r.pc \in {"queued", "sharing"} /\ r.pc # "sharing" /\ r.session \notin ended
       /\ r.request # 0 /\ r.request > highest[r.session]
  BY <1>1, <1>2, <1>5, <1>8
<1>11. r.request <= highest'[r.session] BY <1>1, <1>5, <1>8
<1>. QED BY <1>1, <1>2, <1>4, <1>5, <1>6, <1>7, <1>9, <1>10, <1>11, ArrivesInvariant

LEMMA RepeatInvariant ==
  ASSUME IInv, NEW c \in Calls, NEW s \in Sessions, NEW k \in Kinds, NEW q \in Requests, NEW v \in Nat,
         Repeat(c, s, k, q, v)
  PROVE IInv'
<1>1. PICK r \in Call : /\ r = Made(s, k, q, v, "sharing") /\ r.pc = "sharing" /\ r.session = s
                        /\ r.kind = k /\ r.request = q /\ ~r.aborted
  BY MadeType
<1>2. /\ call[c].pc = "idle" /\ s \notin ended /\ call' = [call EXCEPT ![c] = r]
      /\ [request |-> q, args |-> [kind |-> k, view |-> v]] \in records[s]
      /\ UNCHANGED <<place, running, highest, records, settled, tabVars, latest, ended, sent>>
  BY <1>1 DEF Repeat, Arrives, Becomes, Replays, ledgerVars, executorVars
<1>3. ExecutorTypeOK' BY <1>2 DEF IInv, TypeOK, ExecutorTypeOK, Queued
<1>4. LedgerTypeOK' /\ Numbered' BY <1>2 DEF IInv, TypeOK, LedgerTypeOK, Numbered
<1>5. \A t \in Sessions : highest'[t] >= highest[t] BY <1>2 DEF IInv, TypeOK, LedgerTypeOK, Requests
<1>6. q <= highest[s] BY <1>2 DEF IInv, Numbered
<1>7. /\ r.pc \in {"queued", "sharing"} /\ r.pc # "queued" /\ r.session \notin ended
      /\ r.request <= highest'[r.session]
  BY <1>1, <1>2, <1>6
<1>. QED BY <1>1, <1>2, <1>3, <1>4, <1>5, <1>7, ArrivesInvariant

\* A request that finds the queue full takes a number that no call works for.
LEMMA BusyInvariant ==
  ASSUME IInv, NEW s \in Sessions, NEW k \in Kinds, NEW q \in Requests, NEW v \in Nat, Busy(s, k, q, v)
  PROVE IInv'
<1>1. /\ k \in {"act", "dialog", "flow"} /\ Install(s, q, [kind |-> k, view |-> v])
      /\ settled' = settled \cup {<<s, q>>}
      /\ UNCHANGED <<place, running, tabVars, call, latest, ended, sent>>
  BY DEF Busy, executorVars
<1>2. /\ highest' \in [Sessions -> Requests \cup {0}] /\ q > highest[s] /\ highest'[s] = q
      /\ \A t \in Sessions : highest'[t] >= highest[t]
      /\ records' \in [Sessions -> SUBSET Record]
      /\ \A t \in Sessions : IsFiniteSet(records'[t]) /\ Cardinality(records'[t]) <= Kept
      /\ \A t \in Sessions : \A p \in records'[t] : p \in records[t] \/ (t = s /\ p.request = q)
  BY <1>1, ArgumentsType, InstallType DEF IInv, TypeOK
<1>3. \A t \in Sessions : highest[t] \in Nat /\ highest'[t] \in Nat
  BY <1>2 DEF IInv, TypeOK, LedgerTypeOK, Requests
<1>4. TypeOK'
  <2>1. ExecutorTypeOK' BY <1>1 DEF IInv, TypeOK, ExecutorTypeOK, Queued
  <2>2. LedgerTypeOK' BY <1>1, <1>2 DEF IInv, TypeOK, LedgerTypeOK
  <2>3. /\ call' \in [Calls -> Call] /\ latest' \in [Sessions -> [id : Nat, epoch : Epoch]]
        /\ ended' \subseteq Sessions /\ sent' \in [Owners -> Nat]
    BY <1>1 DEF IInv, TypeOK
  <2>. QED BY <1>1, <2>1, <2>2, <2>3, TabStays DEF TypeOK
<1>5. Known'
  <2> SUFFICES ASSUME NEW o \in settled' PROVE o[2] # 0 /\ o[2] <= highest'[o[1]] BY DEF Known
  <2>1. CASE o \in settled
    <3>1. o \in Sessions \X Requests BY <2>1 DEF IInv, TypeOK, LedgerTypeOK
    <3>2. o[1] \in Sessions /\ o[2] \in Nat BY <3>1 DEF Requests
    <3>3. o[2] # 0 /\ o[2] <= highest[o[1]] BY <2>1 DEF IInv, Known
    <3>. QED BY <1>2, <1>3, <3>2, <3>3
  <2>2. CASE o = <<s, q>> BY <1>2, <2>2 DEF Requests
  <2>. QED BY <1>1, <2>1, <2>2
<1>6. ASSUME NEW c \in Calls PROVE Owned(c)' /\ Fits(call[c])'
  <2>1. Owned(c) /\ call[c].session \in Sessions /\ call[c].request \in Nat
    BY Basics, CallFields DEF IInv, Requests
  <2>2. Owner(c)' = Owner(c) BY <1>1 DEF Owner
  <2>3. Owner(c) # <<s, q>>
    <3> SUFFICES ASSUME call[c].session = s, call[c].request = q PROVE FALSE BY DEF Owner
    <3>. QED BY <1>2, <1>3, <2>1 DEF Owned, Requests
  <2>4. call[c].request <= highest'[call[c].session] BY <1>2, <1>3, <2>1 DEF Owned
  <2>5. Owned(c)' BY <1>1, <2>1, <2>2, <2>3, <2>4 DEF Owned
  <2>6. Fits(call[c])' BY <1>1 DEF IInv, Fits, tabVars
  <2>. QED BY <2>5, <2>6
<1>7. Apart' BY <1>1 DEF IInv, Apart, Owner
<1>8. Numbered' BY <1>2, InstallNumbers
<1>. QED BY <1>1, <1>4, <1>5, <1>6, <1>7, <1>8, TabStays DEF IInv

-----------------------------------------------------------------------------
\* Calls are answered.

\* The executor when a call that has no place is answered, or is the next one.
LEMMA ExecutorStays == ASSUME IInv, UNCHANGED executorVars PROVE ExecutorTypeOK'
BY DEF IInv, TypeOK, ExecutorTypeOK, Queued, executorVars

LEMMA Settles ==
  ASSUME IInv, NEW c \in Calls, Settle(c), call[c].pc # "queued"
  PROVE /\ ExecutorTypeOK' /\ running = c
        /\ \A d \in Calls : place'[d] # 0 => place[d] # 0 /\ d # c
<1>1. place[c] = 0 BY DEF IInv, Owned
<1>2. UNCHANGED place /\ running' = NoCall /\ running = c BY DEF Settle
<1>3. ExecutorTypeOK' BY <1>2 DEF IInv, TypeOK, ExecutorTypeOK, Queued
<1>. QED BY <1>1, <1>2, <1>3

LEMMA NextCall ==
  ASSUME IInv, NEW c \in Calls, IsNext(c), Leave({c}), running' \in Calls \cup {NoCall}
  PROVE /\ ExecutorTypeOK' /\ running = NoCall /\ call[c].pc = "queued"
        /\ \A d \in Calls : place'[d] # 0 => place[d] # 0 /\ d # c
        /\ ~call[c].aborted /\ (call[c].kind \notin {"view", "read"} => call[c].request # 0)
<1>1. running = NoCall /\ place[c] # 0 BY DEF IsNext
<1>2. ExecutorTypeOK' /\ \A d \in Calls : place'[d] # 0 => place[d] # 0 /\ d \notin {c}
  BY LeaveType DEF IInv, TypeOK
<1>3. Owned(c) BY DEF IInv
<1>. QED BY <1>1, <1>2, <1>3 DEF Owned

LEMMA RememberType ==
  ASSUME IInv, NEW c \in Calls, Remember(c)
  PROVE latest' \in [Sessions -> [id : Nat, epoch : Epoch]]
<1>1. call[c].session \in Sessions /\ call[c].seen \in Epoch BY Basics, CallFields
<1>2. latest \in [Sessions -> [id : Nat, epoch : Epoch]] BY DEF IInv, TypeOK
<1>3. [id |-> latest[call[c].session].id + 1, epoch |-> call[c].seen] \in [id : Nat, epoch : Epoch]
  BY <1>1, <1>2
<1>. QED BY <1>1, <1>2, <1>3 DEF Remember

LEMMA AnswerInvariant ==
  ASSUME IInv, NEW c \in Calls, Answer(c), call[c].pc \notin Waiting PROVE IInv'
<1>1. Answered({c}) /\ Settle(c) /\ UNCHANGED <<tabVars, latest, ended, sent>> BY DEF Answer
<1>2. call[c].pc \notin {"idle", "queued", "sharing"} BY DEF Waiting
<1>. QED BY <1>1, <1>2, Settles, LatestStays, Answers

LEMMA AnsweredInvariant ==
  ASSUME IInv, NEW c \in Calls, Snapped(c) \/ Looked(c) \/ Finish(c) \/ Refuse(c) \/ Share(c)
  PROVE IInv'
<1>1. CASE Snapped(c)
  <2>1. /\ call[c].pc = "snap" /\ Remember(c) /\ Answered({c}) /\ Settle(c)
        /\ UNCHANGED <<tabVars, ended, sent>>
    BY <1>1 DEF Snapped
  <2>. QED BY <2>1, Settles, RememberType, Answers
<1>2. CASE Looked(c) \/ Finish(c)
  BY <1>2, AnswerInvariant DEF Looked, Finish, Waited, Waiting
<1>3. CASE Refuse(c)
  <2>1. /\ IsNext(c) /\ Leave({c}) /\ UNCHANGED running /\ Answered({c})
        /\ UNCHANGED <<tabVars, latest, ended, sent>>
    BY <1>3 DEF Refuse, Skip
  <2>2. running' \in Calls \cup {NoCall} BY <2>1 DEF IsNext
  <2>. QED BY <2>1, <2>2, NextCall, LatestStays, Answers
<1>4. CASE Share(c)
  <2>1. /\ call[c].pc = "sharing" /\ Owner(c) \in settled /\ Answered({c})
        /\ UNCHANGED <<place, running, tabVars, latest, ended, sent>>
    BY <1>4 DEF Share, executorVars
  <2>2. place[c] = 0 BY <2>1 DEF IInv, Owned
  <2>3. ExecutorTypeOK' BY <2>1, ExecutorStays DEF executorVars
  <2>. QED BY <2>1, <2>2, <2>3, LatestStays, Answers
<1>. QED BY <1>1, <1>2, <1>3, <1>4

\* Calls are aborted: those that wait are answered, the others know.
LEMMA AbortsInvariant ==
  ASSUME IInv, NEW cs \in SUBSET Calls, Aborts(cs), ended \subseteq ended', ended' \subseteq Sessions,
         \A c \in Calls : call[c].session \in ended' \ ended => c \in cs
  PROVE IInv'
<1>. DEFINE waiting == {c \in cs : call[c].pc = "queued"}
            next(c) == IF c \in waiting THEN Idle
                       ELSE IF c \in cs /\ call[c].pc # "idle"
                            THEN [call[c] EXCEPT !.aborted = TRUE] ELSE call[c]
<1>1. /\ call' = [c \in Calls |-> next(c)] /\ settled' = settled \cup Outcome(waiting)
      /\ Leave(waiting) /\ UNCHANGED <<running, highest, records, tabVars, latest, sent>>
  BY DEF Aborts, Withdraw
<1>2. Idle \in Call /\ Idle.pc = "idle" /\ Idle.request = 0 /\ Idle.session \in Sessions BY IdleCall
<1>3. ASSUME NEW c \in Calls
      PROVE /\ next(c) \in Call
            /\ c \in waiting => next(c) = Idle
            /\ c \notin waiting => /\ next(c).pc = call[c].pc /\ next(c).session = call[c].session
                                   /\ next(c).kind = call[c].kind /\ next(c).request = call[c].request
                                   /\ next(c).seen = call[c].seen /\ next(c).part = call[c].part
                                   /\ next(c).held = call[c].held
                                   /\ next(c).aborted = (call[c].aborted \/ (c \in cs /\ call[c].pc # "idle"))
  <2>1. call[c] \in Call BY Basics
  <2>2. CASE c \in waiting BY <1>2, <2>2
  <2>3. CASE c \in cs /\ call[c].pc # "idle" /\ c \notin waiting
    <3>1. next(c) = [call[c] EXCEPT !.aborted = TRUE] BY <2>3
    <3>2. next(c).aborted = TRUE BY <2>1, <3>1 DEF Call
    <3>. QED BY <2>1, <2>3, <3>1, <3>2 DEF Call
  <2>4. CASE ~(c \in cs /\ call[c].pc # "idle") /\ c \notin waiting
    <3>1. next(c) = call[c] BY <2>4
    <3>. QED BY <2>1, <2>4, <3>1, CallFields
  <2>. QED BY <2>2, <2>3, <2>4
<1>4. \A c \in Calls : call'[c] = next(c) BY <1>1
<1>5. ASSUME NEW o \in Outcome(waiting)
      PROVE \E c \in waiting : o = Owner(c) /\ call[c].request # 0
  BY DEF Outcome
<1>. HIDE DEF next
<1>6. running' \in Calls \cup {NoCall} BY <1>1 DEF IInv, TypeOK, ExecutorTypeOK
<1>7. ExecutorTypeOK' /\ \A d \in Calls : place'[d] # 0 => place[d] # 0 /\ d \notin waiting
  BY <1>1, <1>6, LeaveType DEF IInv, TypeOK
<1>8. \A o \in Outcome(waiting) : o \in Sessions \X Requests /\ o[2] # 0 /\ o[2] <= highest[o[1]]
  <2> SUFFICES ASSUME NEW o \in Outcome(waiting)
               PROVE o \in Sessions \X Requests /\ o[2] # 0 /\ o[2] <= highest[o[1]]
    OBVIOUS
  <2>1. PICK c \in waiting : o = Owner(c) /\ call[c].request # 0 BY <1>5
  <2>2. Owned(c) /\ call[c].session \in Sessions /\ call[c].request \in Requests
    BY <2>1, Basics, CallFields DEF IInv
  <2>. QED BY <2>1, <2>2 DEF Owner, Owned
<1>9. TypeOK'
  <2>1. call' \in [Calls -> Call] BY <1>1, <1>3
  <2>2. LedgerTypeOK' BY <1>1, <1>8 DEF IInv, TypeOK, LedgerTypeOK
  <2>3. latest' \in [Sessions -> [id : Nat, epoch : Epoch]] /\ sent' \in [Owners -> Nat]
    BY <1>1 DEF IInv, TypeOK
  <2>. QED BY <1>1, <1>7, <2>1, <2>2, <2>3, TabStays DEF TypeOK
<1>10. Known' /\ Numbered' BY <1>1, <1>8 DEF IInv, Known, Numbered
<1>11. ASSUME NEW c \in Calls PROVE Owned(c)' /\ Fits(call[c])'
  <2>0. Owned(c) /\ Fits(call[c]) BY DEF IInv
  <2>1. CASE c \in waiting
    <3>1. call'[c] = Idle /\ Owner(c)' = <<Idle.session, 0>> BY <1>2, <1>3, <1>4, <2>1 DEF Owner
    <3>2. Owner(c)' \notin settled' BY <1>10, <3>1 DEF Known
    <3>3. highest[Idle.session] \in Nat BY <1>2 DEF IInv, TypeOK, LedgerTypeOK, Requests
    <3>4. place'[c] = 0 BY <1>7, <2>1
    <3>5. Owned(c)' BY <1>1, <1>2, <3>1, <3>2, <3>3, <3>4 DEF Owned, Waiting, Acting, Between
    <3>6. Fits(call[c])' BY <1>2, <3>1 DEF Fits
    <3>. QED BY <3>5, <3>6
  <2>2. CASE c \notin waiting
    <3>1. /\ call'[c].pc = call[c].pc /\ call'[c].session = call[c].session /\ Owner(c)' = Owner(c)
          /\ call'[c].kind = call[c].kind /\ call'[c].request = call[c].request
          /\ call'[c].seen = call[c].seen /\ call'[c].part = call[c].part /\ call'[c].held = call[c].held
          /\ call'[c].aborted = (call[c].aborted \/ (c \in cs /\ call[c].pc # "idle"))
      BY <1>3, <1>4, <2>2 DEF Owner
    <3>2. call[c].pc # "sharing" => Owner(c) \notin settled'
      <4> SUFFICES ASSUME call[c].pc # "sharing", Owner(c) \in Outcome(waiting) PROVE FALSE
        BY <1>1, <2>0 DEF Owned
      <4>1. PICK d \in waiting : Owner(c) = Owner(d) /\ call[d].request # 0 BY <1>5
      <4>2. call[c].request # 0 /\ call[d].pc = "queued" /\ d \in Calls /\ c # d
        BY <2>2, <4>1 DEF Owner
      <4>3. call[c].pc # "idle" BY <2>0, <4>2 DEF Owned
      <4>. QED BY <4>1, <4>2, <4>3 DEF IInv, Apart
    <3>3. call[c].pc = "queued" => ~call'[c].aborted BY <2>0, <2>2, <3>1 DEF Owned
    <3>4. call[c].pc # "idle" /\ call[c].session \in ended' => call'[c].aborted
      <4> SUFFICES ASSUME call[c].pc # "idle", call[c].session \in ended' PROVE call'[c].aborted
        OBVIOUS
      <4>1. CASE call[c].session \in ended BY <2>0, <3>1, <4>1 DEF Owned
      <4>2. CASE call[c].session \notin ended BY <3>1, <4>2
      <4>. QED BY <4>1, <4>2
    <3>5. place'[c] # 0 => call'[c].pc = "queued" BY <1>7, <2>0, <3>1 DEF Owned
    <3>6. Owned(c)' BY <1>1, <2>0, <3>1, <3>2, <3>3, <3>4, <3>5 DEF Owned
    <3>7. Fits(call[c])' BY <1>1, <2>0, <3>1 DEF Fits, tabVars
    <3>. QED BY <3>6, <3>7
  <2>. QED BY <2>1, <2>2
<1>12. Apart'
  <2>1. \A c \in Calls : call'[c].pc \notin {"idle", "sharing"} =>
           /\ call[c].pc \notin {"idle", "sharing"} /\ Owner(c)' = Owner(c)
           /\ call'[c].request = call[c].request
    BY <1>2, <1>3, <1>4 DEF Owner
  <2>. QED BY <2>1 DEF IInv, Apart
<1>. QED BY <1>1, <1>9, <1>10, <1>11, <1>12, TabStays DEF IInv

LEMMA CancelInvariant == ASSUME IInv, NEW c \in Calls, Cancel(c) PROVE IInv'
<1>1. Aborts({c}) /\ ended' = ended BY DEF Cancel
<1>2. ended \subseteq Sessions BY DEF IInv, TypeOK
<1>. QED BY <1>1, <1>2, AbortsInvariant

LEMMA EndSessionInvariant == ASSUME IInv, NEW s \in Sessions, EndSession(s) PROVE IInv'
<1>. DEFINE cs == {c \in Calls : call[c].session = s}
<1>1. Aborts(cs) /\ ended' = ended \cup {s} BY DEF EndSession
<1>2. ended \subseteq Sessions BY DEF IInv, TypeOK
<1>3. cs \in SUBSET Calls /\ \A c \in Calls : call[c].session \in ended' \ ended => c \in cs BY <1>1
<1>4. ended \subseteq ended' /\ ended' \subseteq Sessions BY <1>1, <1>2
<1>. HIDE DEF cs
<1>. QED BY <1>1, <1>3, <1>4, AbortsInvariant

-----------------------------------------------------------------------------
\* What the tab does.

\* Everything but the tab stays.
LEMMA TabMoves ==
  ASSUME IInv, UNCHANGED <<executorVars, ledgerVars, call, latest, ended>>, TabTypeOK',
         sent' \in [Owners -> Nat], Aside', DialogIsKnown', \A c \in Calls : Fits(call[c])'
  PROVE IInv'
<1>1. UNCHANGED <<place, running, highest, records, settled>> BY DEF executorVars, ledgerVars
<1>2. ExecutorTypeOK' BY ExecutorStays
<1>3. LedgerTypeOK' /\ Numbered' /\ Known' BY <1>1 DEF IInv, TypeOK, LedgerTypeOK, Numbered, Known
<1>4. TypeOK' BY <1>2, <1>3 DEF IInv, TypeOK
<1>5. \A c \in Calls : Owned(c)' BY <1>1 DEF IInv, Owned, Owner
<1>6. Apart' BY DEF IInv, Apart, Owner
<1>. QED BY <1>3, <1>4, <1>5, <1>6 DEF IInv

LEMMA TabFields ==
  ASSUME IInv
  PROVE /\ document \in 1..MaxDocument /\ mutation \in Nat /\ popups \in 0..MaxPopups
        /\ dialog \in 0..MaxDialogs /\ modal \in 0..MaxDialogs /\ opened \in 0..MaxDialogs
        /\ dialog \in Nat /\ modal \in Nat /\ opened \in Nat
        /\ pending \in BOOLEAN /\ paused \in {NoAction} \cup Action
        /\ MaxDocument \in Nat /\ MaxPopups \in Nat /\ MaxDialogs \in Nat
BY Basics, TabAssumption DEF IInv, TypeOK, TabTypeOK

LEMMA ActionFields ==
  ASSUME NEW a \in Action
  PROVE /\ a.owner \in Owners /\ a.part \in 1..Parts /\ a.since \in Epoch
        /\ a.since.mutation \in Nat /\ a.popups \in 0..MaxPopups
        /\ a.part \in Nat /\ Parts \in Nat
BY TabAssumption DEF Action, Epoch

\* A step that a dialog has suspended never goes on: the dialog has counted as
\* a mutation.
LEMMA NothingGoesOn == ASSUME IInv, InProgress PROVE ~GoesOn /\ paused \in Action
<1>1. paused \in Action /\ paused.since.mutation < mutation
  BY TabFields DEF InProgress, IInv, Aside
<1>2. paused.since.mutation \in Nat /\ mutation \in Nat BY <1>1, ActionFields, TabFields
<1>3. paused.since # Now BY <1>1, <1>2 DEF Now
<1>. QED BY <1>1, <1>3 DEF GoesOn, Undisturbed

LEMMA ReturnInvariant == ASSUME IInv, Return PROVE IInv' /\ sent' = sent
<1>1. /\ InProgress /\ modal = 0
      /\ paused' = IF GoesOn THEN [paused EXCEPT !.part = @ + 1] ELSE [paused EXCEPT !.over = TRUE]
      /\ sent' = IF GoesOn THEN [sent EXCEPT ![paused.owner] = @ + 1] ELSE sent
      /\ UNCHANGED <<document, mutation, dialog, pending, popups, modal, opened>>
      /\ UNCHANGED <<executorVars, ledgerVars, call, latest, ended>>
  BY DEF Return, Resume
<1>2. paused' = [paused EXCEPT !.over = TRUE] /\ sent' = sent /\ paused \in Action
  BY <1>1, NothingGoesOn
<1>3. paused' \in Action /\ paused'.since = paused.since BY <1>2 DEF Action
<1>4. TabTypeOK' BY <1>1, <1>3 DEF IInv, TypeOK, TabTypeOK, Now
<1>5. Aside' /\ DialogIsKnown'
  <2>1. paused # NoAction /\ paused' # NoAction BY <1>2, <1>3, Basics
  <2>. QED BY <1>1, <1>3, <2>1 DEF IInv, Aside, DialogIsKnown
<1>6. \A c \in Calls : Fits(call[c])' BY <1>1 DEF IInv, Fits
<1>7. sent' \in [Owners -> Nat] BY <1>2, SentStays
<1>. QED BY <1>1, <1>2, <1>4, <1>5, <1>6, <1>7, TabMoves

LEMMA SiteInvariant == ASSUME IInv, Site PROVE IInv'
<1>1. UNCHANGED <<executorVars, ledgerVars, call, latest, ended, sent>> BY DEF Site
<1>2. CASE Navigate
  <2>1. /\ document < MaxDocument /\ document' = document + 1
        /\ UNCHANGED <<mutation, dialog, pending, popups, modal, opened, paused>>
    BY <1>2 DEF Navigate
  <2>2. document' \in 1..MaxDocument BY <2>1, TabFields
  <2>3. TabTypeOK' BY <2>1, <2>2, TabFields DEF IInv, TypeOK, TabTypeOK, Now, Epoch
  <2>4. Aside' /\ DialogIsKnown' /\ \A c \in Calls : Fits(call[c])'
    BY <1>1, <2>1 DEF IInv, Aside, DialogIsKnown, Fits
  <2>. QED BY <1>1, <2>3, <2>4, SentStays, TabMoves
<1>3. CASE OpenPopup
  <2>1. /\ popups < MaxPopups /\ popups' = popups + 1
        /\ UNCHANGED <<document, mutation, dialog, pending, modal, opened, paused>>
    BY <1>3 DEF OpenPopup
  <2>2. popups' \in 0..MaxPopups BY <2>1, TabFields
  <2>3. TabTypeOK' BY <2>1, <2>2 DEF IInv, TypeOK, TabTypeOK, Now
  <2>4. Aside' /\ DialogIsKnown' /\ \A c \in Calls : Fits(call[c])'
    BY <1>1, <2>1 DEF IInv, Aside, DialogIsKnown, Fits
  <2>. QED BY <1>1, <2>3, <2>4, SentStays, TabMoves
<1>4. CASE CloseDialog
  <2>1. /\ modal # 0 /\ modal' = 0
        /\ UNCHANGED <<document, mutation, dialog, pending, popups, opened, paused>>
    BY <1>4 DEF CloseDialog
  <2>2. TabTypeOK' BY <2>1, TabFields DEF IInv, TypeOK, TabTypeOK, Now
  <2>3. Aside' /\ DialogIsKnown'
    BY <2>1, TabFields DEF IInv, Aside, DialogIsKnown
  <2>4. \A c \in Calls : Fits(call[c])' BY <1>1, <2>1 DEF IInv, Fits
  <2>. QED BY <1>1, <2>2, <2>3, <2>4, SentStays, TabMoves
<1>. QED BY <1>2, <1>3, <1>4 DEF Site

\* A dialog opens; a, if it is an action, was in progress.
LEMMA OpenDialogType ==
  ASSUME IInv, NEW a \in {NoAction} \cup Action, OpenDialog(a),
         a # NoAction => a.since.mutation = mutation
  PROVE /\ TabTypeOK' /\ Aside' /\ DialogIsKnown' /\ mutation' = mutation + 1
        /\ opened' = opened + 1 /\ modal' = opened + 1 /\ dialog' # 0 /\ (pending => pending')
<1>1. /\ opened < MaxDialogs /\ opened' = opened + 1 /\ modal' = opened + 1 /\ dialog' = opened + 1
      /\ mutation' = mutation + 1 /\ pending' = (pending \/ a # NoAction)
      /\ paused' = (IF a = NoAction THEN paused ELSE a) /\ UNCHANGED <<document, popups>>
  BY DEF OpenDialog
<1>2. opened' \in 0..MaxDialogs /\ mutation' \in Nat BY <1>1, TabFields
<1>3. paused' \in {NoAction} \cup Action /\ pending' \in BOOLEAN BY <1>1, TabFields
<1>4. TabTypeOK' BY <1>1, <1>2, <1>3, TabFields DEF TabTypeOK, Now, Epoch
<1>5. paused' # NoAction => paused'.since.mutation < mutation'
  <2>1. CASE a = NoAction
    <3> SUFFICES ASSUME paused # NoAction PROVE paused.since.mutation < mutation + 1 BY <1>1, <2>1
    <3>1. paused \in Action /\ paused.since.mutation < mutation BY TabFields DEF IInv, Aside
    <3>. QED BY <3>1, ActionFields, TabFields
  <2>2. CASE a # NoAction BY <1>1, <2>2, TabFields
  <2>. QED BY <2>1, <2>2
<1>6. pending' <=> paused' # NoAction BY <1>1 DEF IInv, Aside
<1>7. dialog' <= opened' /\ modal' <= opened' /\ dialog' = modal' /\ dialog' # 0 BY <1>1, TabFields
<1>. QED BY <1>1, <1>4, <1>5, <1>6, <1>7 DEF Aside, DialogIsKnown

LEMMA DialogInvariant == ASSUME IInv, Dialog PROVE IInv'
<1>. DEFINE acting == {c \in Calls : call[c].pc = "act"}
            aside(c) == [owner |-> Owner(c), part |-> call[c].part,
                         since |-> call[c].seen, popups |-> call[c].popups, over |-> FALSE]
<1>1. UNCHANGED <<executorVars, ledgerVars, latest, ended, sent>> BY DEF Dialog
<1>2. CASE acting = {}
  <2>1. OpenDialog(NoAction) /\ UNCHANGED call BY <1>2 DEF Dialog
  <2>2. /\ TabTypeOK' /\ Aside' /\ DialogIsKnown' /\ mutation' = mutation + 1
        /\ opened' = opened + 1 /\ modal' = opened + 1 /\ dialog' # 0 /\ (pending => pending')
    BY <2>1, OpenDialogType
  <2>3. ASSUME NEW c \in Calls PROVE Fits(call[c])'
    <3>1. Fits(call[c]) /\ call[c].pc # "act" /\ call[c].held \in Nat /\ opened \in Nat
      BY <1>2, TabFields, Basics, CallFields DEF IInv
    <3>2. call[c].held <= opened => call[c].held <= opened' /\ call[c].held # modal' BY <2>2, <3>1
    <3>. QED BY <2>1, <2>2, <3>1, <3>2 DEF Fits
  <2>. QED BY <1>1, <2>1, <2>2, <2>3, SentStays, TabMoves
<1>3. CASE acting # {}
  <2>1. PICK c \in acting : /\ OpenDialog(aside(c))
                            /\ call' = [call EXCEPT ![c] = [call[c] EXCEPT !.pc = "end", !.part = 0]]
    BY <1>3 DEF Dialog, Becomes
  <2>2. c \in Calls /\ call[c].pc = "act" OBVIOUS
  <2>3. /\ call[c] \in Call /\ Owned(c) /\ Fits(call[c]) BY <2>2, Basics DEF IInv
  <2>4. running = c /\ call[c].request # 0 BY <2>2, <2>3 DEF Owned, Waiting, Acting
  <2>5. aside(c) \in Action /\ aside(c).since = call[c].seen
    <3>1. Owner(c) \in Owners BY <2>3, <2>4, CallFields, McpAssumption DEF Owner
    <3>2. call[c].part \in 1..Parts
      <4>1. call[c].part \in 0..Parts /\ call[c].part # 0 BY <2>2, <2>3, CallFields DEF Fits
      <4>. QED BY <4>1, TabAssumption
    <3>3. call[c].seen \in Epoch /\ call[c].popups \in 0..MaxPopups BY <2>3, CallFields
    <3>. QED BY <3>1, <3>2, <3>3 DEF Action
  <2>6. aside(c).since.mutation = mutation BY <2>2, <2>3, <2>5 DEF Fits
  <2>. HIDE DEF aside
  <2>7. TabTypeOK' /\ Aside' /\ DialogIsKnown' BY <2>1, <2>5, <2>6, OpenDialogType
  <2>8. PICK r \in Call : /\ r = [call[c] EXCEPT !.pc = "end", !.part = 0]
                          /\ Same(r, call[c]) /\ r.pc = "end"
    <3>1. "end" \in Points /\ 0 \in 0..Parts BY TabAssumption DEF Points, Between
    <3>. DEFINE e == [call[c] EXCEPT !.pc = "end", !.part = 0]
    <3>2. e \in Call /\ Same(e, call[c]) /\ e.pc = "end" BY <2>3, <3>1, PartAt
    <3>. QED BY <3>2
  <2>9. Fits(r)' BY <2>8 DEF Fits
  <2>10. Proceeds(c) BY <1>1, <2>4 DEF Proceeds
  <2>11. call' = [call EXCEPT ![c] = r] BY <2>1, <2>8
  <2>12. call[c].pc \notin Waiting /\ r.pc \notin Waiting /\ r.request # 0
    BY <2>2, <2>4, <2>8 DEF Waiting, Same
  <2>13. latest' \in [Sessions -> [id : Nat, epoch : Epoch]] /\ sent' \in [Owners -> Nat]
    BY <1>1, LatestStays, SentStays
  <2>. HIDE DEF acting
  <2>. QED BY <2>2, <2>7, <2>8, <2>9, <2>10, <2>11, <2>12, <2>13, Runs
<1>. QED BY <1>2, <1>3

-----------------------------------------------------------------------------
\* Calls begin.

LEMMA ConsumeType ==
  ASSUME IInv, Consume
  PROVE /\ TabTypeOK' /\ Aside' /\ DialogIsKnown' /\ mutation' = mutation + 1 /\ mutation' \in Nat
        /\ UNCHANGED <<document, dialog, pending, popups, modal, opened, paused>>
<1>1. /\ mutation' = mutation + 1 /\ mutation \in Nat /\ mutation' \in Nat
      /\ UNCHANGED <<document, dialog, pending, popups, modal, opened, paused>>
  BY TabFields DEF Consume
<1>2. TabTypeOK' BY <1>1, TabFields DEF IInv, TypeOK, TabTypeOK, Now, Epoch
<1>3. Aside'
  <2> SUFFICES ASSUME paused # NoAction PROVE paused.since.mutation < mutation + 1
    BY <1>1 DEF IInv, Aside
  <2>1. paused \in Action /\ paused.since.mutation < mutation BY TabFields DEF IInv, Aside
  <2>. QED BY <1>1, <2>1, ActionFields
<1>. QED BY <1>1, <1>2, <1>3 DEF IInv, DialogIsKnown

LEMMA InputType ==
  ASSUME IInv, NEW c \in Calls, call[c].request # 0, Input(c)
  PROVE sent' \in [Owners -> Nat] /\ \A o \in Owners : sent'[o] # sent[o] => o = Owner(c)
<1>1. sent \in [Owners -> Nat] BY DEF IInv, TypeOK
<1>2. Owner(c) \in Owners BY Basics, CallFields DEF Owner
<1>3. sent[Owner(c)] + 1 \in Nat BY <1>1, <1>2
<1>4. sent' = [sent EXCEPT ![Owner(c)] = sent[Owner(c)] + 1] BY <1>1 DEF Input
<1>. QED BY <1>1, <1>2, <1>3, <1>4

\* A call that names the latest view, which is still good, looks at the tab now.
LEMMA ViewType == ASSUME IInv, NEW c \in Calls PROVE View(c) \in Epoch
BY Basics, CallFields DEF IInv, TypeOK, View

LEMMA OpenedType ==
  ASSUME IInv, NEW c \in Calls, NEW p \in Points
  PROVE LET r == Opened(c, p) IN
        /\ r \in Call /\ Same(r, call[c]) /\ r.pc = p /\ r.held = dialog
        /\ r.seen.mutation = View(c).mutation + 1
<1>1. call[c] \in Call /\ View(c) \in Epoch BY Basics, ViewType
<1>. DEFINE seen == [View(c) EXCEPT !.mutation = @ + 1]
<1>2. View(c).mutation \in Nat /\ View(c).document \in 1..MaxDocument BY <1>1 DEF Epoch
<1>3. seen = [View(c) EXCEPT !.mutation = View(c).mutation + 1] BY <1>1 DEF Epoch
<1>4. seen \in Epoch /\ seen.mutation = View(c).mutation + 1 BY <1>1, <1>2, <1>3 DEF Epoch
<1>. HIDE DEF seen
<1>5. popups \in 0..MaxPopups /\ dialog \in 0..MaxDialogs /\ 1 \in 0..Stages /\ 1 \in 0..Steps
  BY TabFields, McpAssumption
<1>. DEFINE r == [call[c] EXCEPT !.pc = p, !.popups = popups, !.stage = 1, !.step = 1,
                                 !.held = dialog, !.seen = seen]
<1>6. Opened(c, p) = r BY DEF Opened, seen
<1>7. r \in Call BY <1>1, <1>4, <1>5 DEF Call, Points
<1>8. Same(r, call[c]) /\ r.pc = p /\ r.held = dialog /\ r.seen = seen BY <1>1 DEF Same, Call
<1>. QED BY <1>4, <1>6, <1>7, <1>8

LEMMA BeginsFacts ==
  ASSUME IInv, NEW c \in Calls, NEW k, Begins(c, k)
  PROVE /\ ExecutorTypeOK' /\ running = NoCall /\ running' = c /\ call[c].pc = "queued"
        /\ \A d \in Calls : place'[d] # 0 => place[d] # 0 /\ d # c
        /\ ~call[c].aborted /\ call[c].kind = k /\ (k \notin {"view", "read"} => call[c].request # 0)
        /\ UNCHANGED <<ledgerVars, latest, ended>>
        /\ latest' \in [Sessions -> [id : Nat, epoch : Epoch]]
<1>1. /\ call[c].kind = k /\ IsNext(c) /\ Leave({c}) /\ running' = c
      /\ UNCHANGED <<ledgerVars, latest, ended>>
  BY DEF Begins, Start
<1>. QED BY <1>1, NextCall, LatestStays

LEMMA LookBegins ==
  ASSUME IInv, NEW c \in Calls, BeginView(c) \/ BeginRead(c)
  PROVE IInv'
<1>1. PICK p \in {"snap", "read"}, k \in {"view", "read"} :
         Begins(c, k) /\ Becomes(c, [call[c] EXCEPT !.pc = p, !.seen = Now]) /\ UNCHANGED <<tabVars, sent>>
  <2>1. CASE BeginView(c)
    <3>. WITNESS "snap" \in {"snap", "read"}, "view" \in {"view", "read"}
    <3>. QED BY <2>1 DEF BeginView
  <2>2. CASE BeginRead(c)
    <3>. WITNESS "read" \in {"snap", "read"}, "read" \in {"view", "read"}
    <3>. QED BY <2>2 DEF BeginRead
  <2>. QED BY <2>1, <2>2
<1>2. p \in Points /\ call[c] \in Call /\ Now \in Epoch BY Basics DEF Points, Looking
<1>3. PICK r \in Call : r = [call[c] EXCEPT !.pc = p, !.seen = Now] /\ Same(r, call[c]) /\ r.pc = p
  <2>. DEFINE e == [call[c] EXCEPT !.pc = p, !.seen = Now]
  <2>1. e \in Call BY <1>2 DEF Call, Points
  <2>2. Same(e, call[c]) /\ e.pc = p BY <1>2 DEF Call, Same
  <2>. QED BY <2>1, <2>2
<1>4. call' = [call EXCEPT ![c] = r] BY <1>1, <1>3 DEF Becomes
<1>5. r.pc \notin Waiting /\ r.pc \notin Acting \cup Between \cup {"look"} /\ Fits(r)'
  BY <1>3 DEF Waiting, Acting, Between, Fits
<1>6. /\ ExecutorTypeOK' /\ running = NoCall /\ running' = c /\ call[c].pc = "queued"
      /\ \A d \in Calls : place'[d] # 0 => place[d] # 0 /\ d # c
      /\ UNCHANGED <<ledgerVars, ended>> /\ latest' \in [Sessions -> [id : Nat, epoch : Epoch]]
  BY <1>1, BeginsFacts
<1>7. TabTypeOK' /\ Aside' /\ DialogIsKnown' /\ sent' \in [Owners -> Nat] BY <1>1, TabStays, SentStays
<1>. QED BY <1>3, <1>4, <1>5, <1>6, <1>7, Moves

LEMMA BeginActInvariant == ASSUME IInv, NEW c \in Calls, BeginAct(c) PROVE IInv'
<1>1. /\ View(c) = Now /\ Begins(c, "act") /\ Consume
      /\ Becomes(c, Opened(c, IF dialog = 0 THEN "guard" ELSE "end")) /\ UNCHANGED sent
  BY DEF BeginAct, Usable, Current
<1>2. PICK p \in {"guard", "end"} : p = IF dialog = 0 THEN "guard" ELSE "end" OBVIOUS
<1>3. p \in Points BY DEF Points, Acting, Between
<1>4. PICK r \in Call : /\ r = Opened(c, p) /\ Same(r, call[c]) /\ r.pc = p
                        /\ r.seen.mutation = View(c).mutation + 1
  BY <1>3, OpenedType
<1>5. call' = [call EXCEPT ![c] = r] BY <1>1, <1>2, <1>4 DEF Becomes
<1>6. /\ ExecutorTypeOK' /\ running = NoCall /\ running' = c /\ call[c].pc = "queued"
      /\ \A d \in Calls : place'[d] # 0 => place[d] # 0 /\ d # c
      /\ call[c].request # 0
      /\ UNCHANGED <<ledgerVars, ended>> /\ latest' \in [Sessions -> [id : Nat, epoch : Epoch]]
  BY <1>1, BeginsFacts
<1>7. TabTypeOK' /\ Aside' /\ DialogIsKnown' /\ mutation' = mutation + 1 BY <1>1, ConsumeType
<1>8. r.seen.mutation = mutation' BY <1>1, <1>4, <1>7 DEF Now
<1>9. r.pc \notin Waiting /\ r.request # 0 /\ Fits(r)'
  BY <1>4, <1>6, <1>8 DEF Waiting, Same, Fits
<1>. QED BY <1>1, <1>4, <1>5, <1>6, <1>7, <1>9, SentStays, Moves

LEMMA BeginDialogInvariant == ASSUME IInv, NEW c \in Calls, BeginDialog(c) PROVE IInv'
<1>1. /\ Begins(c, "dialog") /\ Consume
      /\ Becomes(c, Opened(c, IF dialog = 0 THEN "end" ELSE "accept"))
      /\ IF dialog = 0 THEN UNCHANGED sent ELSE Input(c)
  BY DEF BeginDialog
<1>2. PICK p \in {"end", "accept"} : p = IF dialog = 0 THEN "end" ELSE "accept" OBVIOUS
<1>3. p \in Points BY DEF Points, Acting, Between
<1>4. PICK r \in Call : r = Opened(c, p) /\ Same(r, call[c]) /\ r.pc = p /\ r.held = dialog
  BY <1>3, OpenedType
<1>5. call' = [call EXCEPT ![c] = r] BY <1>1, <1>2, <1>4 DEF Becomes
<1>6. /\ ExecutorTypeOK' /\ running = NoCall /\ running' = c /\ call[c].pc = "queued"
      /\ \A d \in Calls : place'[d] # 0 => place[d] # 0 /\ d # c
      /\ call[c].request # 0
      /\ UNCHANGED <<ledgerVars, ended>> /\ latest' \in [Sessions -> [id : Nat, epoch : Epoch]]
  BY <1>1, BeginsFacts
<1>7. /\ TabTypeOK' /\ Aside' /\ DialogIsKnown' /\ dialog' = dialog /\ opened' = opened
  BY <1>1, ConsumeType
<1>8. dialog <= opened BY DEF IInv, Aside
<1>9. r.pc \notin Waiting /\ r.request # 0 /\ Fits(r)'
  BY <1>2, <1>4, <1>6, <1>7, <1>8 DEF Waiting, Same, Fits
<1>10. sent' \in [Owners -> Nat] BY <1>1, <1>6, InputType, SentStays
<1>. QED BY <1>4, <1>5, <1>6, <1>7, <1>9, <1>10, Moves

LEMMA BeginFlowInvariant == ASSUME IInv, NEW c \in Calls, BeginFlow(c) PROVE IInv'
<1>1. /\ Begins(c, "flow") /\ Becomes(c, [Opened(c, "stage") EXCEPT !.seen = NoEpoch, !.held = 0])
      /\ UNCHANGED <<tabVars, sent>>
  BY DEF BeginFlow
<1>2. "stage" \in Points BY DEF Points, Between
<1>3. PICK e \in Call : e = Opened(c, "stage") /\ Same(e, call[c]) /\ e.pc = "stage"
  BY <1>2, OpenedType
<1>4. NoEpoch \in Epoch /\ 0 \in 0..MaxDialogs BY TabAssumption DEF NoEpoch, Epoch
<1>5. PICK r \in Call : r = [e EXCEPT !.seen = NoEpoch, !.held = 0] /\ Same(r, e) /\ r.pc = "stage"
  <2>1. [e EXCEPT !.seen = NoEpoch, !.held = 0] \in Call BY <1>4 DEF Call
  <2>2. Same([e EXCEPT !.seen = NoEpoch, !.held = 0], e) BY DEF Call, Same
  <2>3. [e EXCEPT !.seen = NoEpoch, !.held = 0].pc = "stage" BY <1>3 DEF Call
  <2>. QED BY <2>1, <2>2, <2>3
<1>6. call' = [call EXCEPT ![c] = r] BY <1>1, <1>3, <1>5 DEF Becomes
<1>7. /\ ExecutorTypeOK' /\ running = NoCall /\ running' = c /\ call[c].pc = "queued"
      /\ \A d \in Calls : place'[d] # 0 => place[d] # 0 /\ d # c
      /\ call[c].request # 0
      /\ UNCHANGED <<ledgerVars, ended>> /\ latest' \in [Sessions -> [id : Nat, epoch : Epoch]]
  BY <1>1, BeginsFacts
<1>8. TabTypeOK' /\ Aside' /\ DialogIsKnown' /\ sent' \in [Owners -> Nat] BY <1>1, TabStays, SentStays
<1>9. Same(r, call[c]) BY <1>3, <1>5 DEF Same
<1>10. r.pc \notin Waiting /\ r.request # 0 /\ Fits(r)'
  BY <1>5, <1>7, <1>9 DEF Waiting, Same, Fits
<1>. QED BY <1>6, <1>7, <1>8, <1>9, <1>10, Moves

-----------------------------------------------------------------------------
\* Calls run.

\* A call that only goes to another point while the tab stays as it is.
LEMMA GoesInvariant ==
  ASSUME IInv, NEW c \in Calls, NEW p \in Points, Goes(c, p), Proceeds(c),
         call[c].pc \in Acting \cup Between \cup {"look"}, p \in Acting \cup Between \cup {"look"},
         p \in {"guard", "aim"} => call[c].seen.mutation = mutation \/ dialog # 0,
         p \notin {"act", "accept", "closing", "settle"},
         TabTypeOK', Aside', DialogIsKnown', UNCHANGED <<mutation, dialog>>,
         latest' \in [Sessions -> [id : Nat, epoch : Epoch]], UNCHANGED sent
  PROVE IInv'
<1>1. PICK r \in Call : /\ r = [call[c] EXCEPT !.pc = p] /\ Same(r, call[c]) /\ r.pc = p
                        /\ r.seen = call[c].seen
  <2>. DEFINE e == [call[c] EXCEPT !.pc = p]
  <2>1. e \in Call /\ Same(e, call[c]) /\ e.pc = p /\ e.seen = call[c].seen BY Basics, AtPoint
  <2>. QED BY <2>1
<1>2. call' = [call EXCEPT ![c] = r] BY <1>1 DEF Goes, Becomes
<1>3. call[c].pc \notin Waiting /\ r.pc \notin Waiting BY <1>1 DEF Waiting, Acting, Between
<1>4. r.request # 0 BY <1>1 DEF IInv, Owned, Same
<1>5. Fits(r)' BY <1>1 DEF Fits
<1>. QED BY <1>1, <1>2, <1>3, <1>4, <1>5, SentStays, Runs

LEMMA ObserveInvariant == ASSUME IInv, NEW c \in Calls, Observe(c) PROVE IInv'
<1>1. /\ call[c].pc = "end" /\ Proceeds(c) /\ Becomes(c, [call[c] EXCEPT !.pc = "snap", !.seen = Now])
      /\ UNCHANGED <<tabVars, latest, sent>>
  BY DEF Observe, Waited
<1>2. "snap" \in Points /\ call[c] \in Call /\ Now \in Epoch BY Basics DEF Points, Looking
<1>3. PICK r \in Call : r = [call[c] EXCEPT !.pc = "snap", !.seen = Now] /\ Same(r, call[c]) /\ r.pc = "snap"
  <2>. DEFINE e == [call[c] EXCEPT !.pc = "snap", !.seen = Now]
  <2>1. e \in Call /\ Same(e, call[c]) /\ e.pc = "snap" BY <1>2, SeenAt
  <2>. QED BY <2>1
<1>4. call' = [call EXCEPT ![c] = r] BY <1>1, <1>3 DEF Becomes
<1>5. call[c].pc \notin Waiting /\ r.pc \notin Waiting /\ r.pc \notin Acting \cup Between \cup {"look"}
      /\ Fits(r)'
  BY <1>1, <1>3 DEF Waiting, Acting, Between, Fits
<1>. QED BY <1>1, <1>3, <1>4, <1>5, TabStays, LatestStays, SentStays, Runs

LEMMA StageInvariant == ASSUME IInv, NEW c \in Calls, Stage(c) PROVE IInv'
<1>1. /\ call[c].pc = "stage" /\ Proceeds(c) /\ UNCHANGED <<tabVars, latest, sent>>
  BY DEF Stage
<1>2. CASE Becomes(c, [call[c] EXCEPT !.pc = "look", !.seen = Now])
  <2>1. "look" \in Points /\ call[c] \in Call /\ Now \in Epoch BY Basics DEF Points, Looking
  <2>2. PICK r \in Call : r = [call[c] EXCEPT !.pc = "look", !.seen = Now] /\ Same(r, call[c]) /\ r.pc = "look"
    <3>. DEFINE e == [call[c] EXCEPT !.pc = "look", !.seen = Now]
    <3>1. e \in Call /\ Same(e, call[c]) /\ e.pc = "look" BY <2>1, SeenAt
    <3>. QED BY <3>1
  <2>3. call' = [call EXCEPT ![c] = r] BY <1>2, <2>2 DEF Becomes
  <2>4. call[c].pc \notin Waiting /\ r.pc \notin Waiting /\ Fits(r)' BY <1>1, <2>2 DEF Waiting, Fits
  <2>5. r.request # 0 BY <1>1, <2>2 DEF IInv, Owned, Same, Between
  <2>. QED BY <1>1, <2>2, <2>3, <2>4, <2>5, TabStays, LatestStays, SentStays, Runs
<1>3. CASE Becomes(c, [call[c] EXCEPT !.pc = "end"])
  <2>1. Goes(c, "end") /\ "end" \in Points /\ UNCHANGED <<mutation, dialog>>
    BY <1>1, <1>3 DEF Goes, Points, Between, tabVars
  <2>. QED BY <1>1, <2>1, TabStays, LatestStays, GoesInvariant DEF Between
<1>. QED BY <1>2, <1>3 DEF Stage

\* A call that gives up, or has come to its end.
LEMMA EndInvariant ==
  ASSUME IInv, NEW c \in Calls, NotFound(c) \/ LookFails(c) \/ Desists(c) \/ NotAccepted(c) \/ NextModal(c)
  PROVE IInv'
<1>1. /\ call[c].pc \in Acting \cup Between \cup {"look"} /\ Proceeds(c) /\ Goes(c, "end")
      /\ UNCHANGED <<tabVars, sent>>
  BY DEF NotFound, LookFails, Desists, NotAccepted, NextModal, Acting
<1>2. latest' \in [Sessions -> [id : Nat, epoch : Epoch]]
  BY LatestStays, RememberType DEF NotFound, LookFails, Desists, NotAccepted, NextModal
<1>3. "end" \in Points /\ "end" \in Between /\ UNCHANGED <<mutation, dialog>>
  BY <1>1 DEF Points, Between, tabVars
<1>. QED BY <1>1, <1>2, <1>3, TabStays, GoesInvariant

LEMMA FoundInvariant == ASSUME IInv, NEW c \in Calls, Found(c) PROVE IInv'
<1>1. /\ call[c].pc = "look" /\ call[c].seen = Now /\ Proceeds(c) /\ Remember(c) /\ Consume
      /\ Becomes(c, [call[c] EXCEPT !.pc = "guard", !.step = 1, !.seen.mutation = @ + 1])
      /\ UNCHANGED sent
  BY DEF Found, Current
<1>2. call[c] \in Call /\ call[c].seen \in Epoch /\ call[c].seen.mutation = mutation
  BY <1>1, Basics, CallFields DEF Now
<1>3. /\ TabTypeOK' /\ Aside' /\ DialogIsKnown' /\ mutation' = mutation + 1 /\ mutation' \in Nat
  BY <1>1, ConsumeType
<1>. DEFINE seen == [call[c].seen EXCEPT !.mutation = mutation + 1]
            e == [call[c] EXCEPT !.pc = "guard", !.step = 1, !.seen = seen]
<1>4. seen \in Epoch /\ seen.mutation = mutation' BY <1>2, <1>3 DEF Epoch
<1>5. [call[c] EXCEPT !.pc = "guard", !.step = 1, !.seen.mutation = @ + 1] = e
  BY <1>2 DEF Call, Epoch
<1>. HIDE DEF seen
<1>6. e \in Call /\ Same(e, call[c]) /\ e.pc = "guard" /\ e.seen = seen
  <2>1. "guard" \in Points /\ 1 \in 0..Steps BY McpAssumption DEF Points, Acting
  <2>2. e \in Call BY <1>2, <1>4, <2>1 DEF Call, Points
  <2>3. Same(e, call[c]) /\ e.pc = "guard" /\ e.seen = seen BY <1>2 DEF Call, Same
  <2>. QED BY <2>2, <2>3
<1>. HIDE DEF e
<1>7. PICK r \in Call : r = e /\ Same(r, call[c]) /\ r.pc = "guard" /\ r.seen = seen BY <1>6
<1>8. call' = [call EXCEPT ![c] = r] BY <1>1, <1>5, <1>7 DEF Becomes
<1>9. call[c].pc \notin Waiting /\ r.pc \notin Waiting BY <1>1, <1>7 DEF Waiting
<1>10. r.request # 0 BY <1>1, <1>7 DEF IInv, Owned, Same
<1>11. r.seen.mutation = mutation' BY <1>4, <1>7
<1>12. Fits(r)' BY <1>7, <1>11 DEF Fits
<1>. QED BY <1>1, <1>3, <1>7, <1>8, <1>9, <1>10, <1>12, RememberType, SentStays, Runs

LEMMA GuardedInvariant == ASSUME IInv, NEW c \in Calls, Guarded(c) PROVE IInv'
<1>1. /\ call[c].pc = "guard" /\ dialog = 0 /\ Proceeds(c) /\ Goes(c, "aim")
      /\ UNCHANGED <<tabVars, latest, sent>>
  BY DEF Guarded, Clear
<1>2. call[c].seen.mutation = mutation BY <1>1 DEF IInv, Fits
<1>3. "aim" \in Points /\ "aim" \in Acting /\ "guard" \in Acting /\ UNCHANGED <<mutation, dialog>>
  BY <1>1 DEF Points, Acting, tabVars
<1>. QED BY <1>1, <1>2, <1>3, TabStays, LatestStays, GoesInvariant

\* An input is issued: the call observed the tab as it is.
LEMMA IssueInvariant == ASSUME IInv, NEW c \in Calls, Issue(c) PROVE IInv'
<1>1. /\ call[c].pc = "aim" /\ ~pending /\ Proceeds(c) /\ Input(c)
      /\ Becomes(c, [call[c] EXCEPT !.pc = "act", !.part = 1, !.seen = Now])
      /\ UNCHANGED <<tabVars, latest>>
  BY DEF Issue
<1>2. call[c] \in Call /\ Now \in Epoch /\ Now.mutation = mutation BY Basics DEF Now
<1>. DEFINE e == [call[c] EXCEPT !.pc = "act", !.part = 1, !.seen = Now]
<1>3. e \in Call /\ Same(e, call[c]) /\ e.pc = "act" /\ e.part = 1 /\ e.seen = Now
  <2>1. "act" \in Points /\ 1 \in 0..Parts BY TabAssumption DEF Points, Acting
  <2>2. e \in Call BY <1>2, <2>1 DEF Call, Points
  <2>3. Same(e, call[c]) /\ e.pc = "act" /\ e.part = 1 /\ e.seen = Now BY <1>2 DEF Call, Same
  <2>. QED BY <2>2, <2>3
<1>4. PICK r \in Call : r = e /\ Same(r, call[c]) /\ r.pc = "act" /\ r.part = 1 /\ r.seen = Now BY <1>3
<1>5. call' = [call EXCEPT ![c] = r] BY <1>1, <1>4 DEF Becomes
<1>6. call[c].pc \notin Waiting /\ r.pc \notin Waiting BY <1>1, <1>4 DEF Waiting
<1>7. call[c].request # 0 /\ r.request # 0 BY <1>1, <1>4 DEF IInv, Owned, Same, Acting
<1>8. Fits(r)'
  <2>1. r.seen.mutation = mutation BY <1>2, <1>4
  <2>2. UNCHANGED <<mutation, pending>> BY <1>1 DEF tabVars
  <2>. QED BY <1>1, <1>4, <2>1, <2>2 DEF Fits
<1>9. sent' \in [Owners -> Nat] BY <1>1, <1>7, InputType
<1>. QED BY <1>1, <1>4, <1>5, <1>6, <1>7, <1>8, <1>9, TabStays, LatestStays, Runs

LEMMA ContinueInvariant == ASSUME IInv, NEW c \in Calls, Continue(c) PROVE IInv'
<1>1. /\ call[c].pc = "act" /\ call[c].part < Parts /\ Proceeds(c) /\ Input(c)
      /\ Becomes(c, [call[c] EXCEPT !.part = @ + 1]) /\ UNCHANGED <<tabVars, latest>>
  BY DEF Continue
<1>2. call[c] \in Call /\ Fits(call[c]) /\ call[c].part \in 0..Parts BY Basics, CallFields DEF IInv
<1>. DEFINE n == call[c].part + 1
<1>3. n \in 0..Parts /\ n # 0 BY <1>1, <1>2, TabAssumption
<1>4. [call[c] EXCEPT !.part = @ + 1] = [call[c] EXCEPT !.part = n] BY <1>2 DEF Call
<1>. HIDE DEF n
<1>. DEFINE e == [call[c] EXCEPT !.part = n]
<1>5. e \in Call /\ Same(e, call[c]) /\ e.pc = "act" /\ e.part = n /\ e.seen = call[c].seen
  BY <1>1, <1>2, <1>3 DEF Call, Same
<1>6. PICK r \in Call : r = e /\ Same(r, call[c]) /\ r.pc = "act" /\ r.part = n /\ r.seen = call[c].seen
  BY <1>5
<1>7. call' = [call EXCEPT ![c] = r] BY <1>1, <1>4, <1>6 DEF Becomes
<1>8. call[c].pc \notin Waiting /\ r.pc \notin Waiting BY <1>1, <1>6 DEF Waiting
<1>9. call[c].request # 0 /\ r.request # 0 BY <1>1, <1>6 DEF IInv, Owned, Same, Acting
<1>10. Fits(r)'
  <2>1. UNCHANGED <<mutation, pending>> BY <1>1 DEF tabVars
  <2>. QED BY <1>1, <1>2, <1>3, <1>6, <2>1 DEF Fits
<1>11. sent' \in [Owners -> Nat] BY <1>1, <1>9, InputType
<1>. QED BY <1>1, <1>6, <1>7, <1>8, <1>9, <1>10, <1>11, TabStays, LatestStays, Runs

\* A step ends, and with it perhaps the work.
LEMMA StepEnds ==
  ASSUME IInv, NEW c \in Calls, NEW e \in Call, call' = [call EXCEPT ![c] = e],
         call[c].pc = "act", Proceeds(c), UNCHANGED <<tabVars, latest, sent>>,
         Same(e, call[c]), e.pc \in {"aim", "stage", "end"}, e.seen = call[c].seen
  PROVE IInv'
<1>1. call[c].pc \notin Waiting /\ e.pc \notin Waiting BY DEF Waiting
<1>2. e.request # 0 BY DEF IInv, Owned, Same, Acting
<1>3. e.seen.mutation = mutation /\ mutation' = mutation BY DEF IInv, Fits, tabVars
<1>4. Fits(e)' BY <1>3 DEF Fits
<1>. QED BY <1>1, <1>2, <1>4, TabStays, LatestStays, SentStays, Runs

LEMMA CompleteInvariant == ASSUME IInv, NEW c \in Calls, Complete(c) \/ Stop(c) PROVE IInv'
<1>1. call[c].pc = "act" /\ Proceeds(c) /\ UNCHANGED <<tabVars, latest, sent>>
  BY DEF Complete, Stop
<1>2. call[c] \in Call /\ call[c].step \in 0..Steps /\ call[c].stage \in 0..Stages BY Basics, CallFields
<1>3. 0 \in 0..Parts /\ Steps \in Nat /\ Stages \in Nat BY TabAssumption, McpAssumption
<1>4. CASE NextStep(c)
  <2>. DEFINE n == call[c].step + 1
              e == [call[c] EXCEPT !.pc = "aim", !.step = n, !.part = 0]
  <2>1. n \in 0..Steps BY <1>2, <1>3, <1>4 DEF NextStep
  <2>2. call' = [call EXCEPT ![c] = e] BY <1>2, <1>4 DEF NextStep, Becomes, Call
  <2>. HIDE DEF n
  <2>3. e \in Call BY <1>2, <1>3, <2>1 DEF Call, Acting
  <2>4. Same(e, call[c]) /\ e.pc = "aim" /\ e.seen = call[c].seen BY <1>2 DEF Call, Same
  <2>. HIDE DEF e
  <2>5. PICK r \in Call : r = e BY <2>3
  <2>. QED BY <1>1, <2>2, <2>4, <2>5, StepEnds
<1>5. CASE Becomes(c, [call[c] EXCEPT !.pc = "stage", !.stage = @ + 1, !.part = 0])
           /\ call[c].stage < Stages
  <2>. DEFINE n == call[c].stage + 1
              e == [call[c] EXCEPT !.pc = "stage", !.stage = n, !.part = 0]
  <2>1. n \in 0..Stages BY <1>2, <1>3, <1>5
  <2>2. call' = [call EXCEPT ![c] = e] BY <1>2, <1>5 DEF Becomes, Call
  <2>. HIDE DEF n
  <2>3. e \in Call BY <1>2, <1>3, <2>1 DEF Call, Between
  <2>4. Same(e, call[c]) /\ e.pc = "stage" /\ e.seen = call[c].seen BY <1>2 DEF Call, Same
  <2>. HIDE DEF e
  <2>5. PICK r \in Call : r = e BY <2>3
  <2>. QED BY <1>1, <2>2, <2>4, <2>5, StepEnds
<1>6. CASE Becomes(c, [call[c] EXCEPT !.pc = "end", !.part = 0])
  <2>. DEFINE e == [call[c] EXCEPT !.pc = "end", !.part = 0]
  <2>1. "end" \in Points BY DEF Points, Between
  <2>2. call' = [call EXCEPT ![c] = e] BY <1>6 DEF Becomes
  <2>5. e \in Call BY <1>2, <1>3, <2>1 DEF Call, Points
  <2>3. e \in Call /\ Same(e, call[c]) /\ e.pc = "end" /\ e.seen = call[c].seen
    BY <1>2, <2>5 DEF Call, Same
  <2>. HIDE DEF e
  <2>4. PICK r \in Call : r = e BY <2>3
  <2>. QED BY <1>1, <2>2, <2>3, <2>4, StepEnds
<1>. QED BY <1>4, <1>5, <1>6 DEF Complete, Stop, StageDone

LEMMA AcceptedInvariant == ASSUME IInv, NEW c \in Calls, Accepted(c) PROVE IInv'
<1>1. /\ call[c].pc = "accept" /\ modal # 0 /\ modal' = 0 /\ Proceeds(c) /\ Goes(c, "closing")
      /\ UNCHANGED <<document, mutation, dialog, pending, popups, opened, paused, latest, sent>>
  BY DEF Accepted, CloseDialog
<1>2. TabTypeOK' BY <1>1, TabFields DEF IInv, TypeOK, TabTypeOK, Now
<1>3. Aside' /\ DialogIsKnown' BY <1>1, TabFields DEF IInv, Aside, DialogIsKnown
<1>4. PICK r \in Call : r = [call[c] EXCEPT !.pc = "closing"] /\ Same(r, call[c]) /\ r.pc = "closing"
                        /\ r.held = call[c].held
  <2>. DEFINE e == [call[c] EXCEPT !.pc = "closing"]
  <2>1. "closing" \in Points BY DEF Points, Acting
  <2>2. e \in Call /\ Same(e, call[c]) /\ e.pc = "closing" /\ e.held = call[c].held BY <2>1, Basics, AtPoint
  <2>. QED BY <2>2
<1>5. call' = [call EXCEPT ![c] = r] BY <1>1, <1>4 DEF Goes, Becomes
<1>6. call[c].pc \notin Waiting /\ r.pc \notin Waiting BY <1>1, <1>4 DEF Waiting
<1>7. r.request # 0 BY <1>1, <1>4 DEF IInv, Owned, Same, Acting
<1>8. r.held # 0 /\ r.held <= opened' BY <1>1, <1>4 DEF IInv, Fits
<1>9. Fits(r)' BY <1>1, <1>4, <1>8 DEF Fits
<1>. QED BY <1>1, <1>2, <1>3, <1>4, <1>5, <1>6, <1>7, <1>9, LatestStays, SentStays, Runs

\* The dialog that was held has left the screen, so that the one which is shown
\* is not forgotten.
LEMMA ClosedInvariant == ASSUME IInv, NEW c \in Calls, Closed(c) PROVE IInv'
<1>1. /\ call[c].pc = "closing" /\ Proceeds(c) /\ Goes(c, IF pending THEN "settle" ELSE "end")
      /\ dialog' = (IF dialog = call[c].held THEN 0 ELSE dialog)
      /\ UNCHANGED <<document, mutation, pending, popups, modal, opened, paused, latest, sent>>
  BY DEF Closed, Forget
<1>2. modal # call[c].held BY <1>1 DEF IInv, Fits
<1>3. dialog' \in 0..MaxDialogs BY <1>1, TabFields
<1>4. TabTypeOK' BY <1>1, <1>3 DEF IInv, TypeOK, TabTypeOK, Now
<1>5. Aside' /\ DialogIsKnown' BY <1>1, <1>2, TabFields DEF IInv, Aside, DialogIsKnown
<1>6. PICK p \in {"settle", "end"} : p = IF pending THEN "settle" ELSE "end" OBVIOUS
<1>7. p \in Points BY DEF Points, Acting, Between
<1>8. PICK r \in Call : r = [call[c] EXCEPT !.pc = p] /\ Same(r, call[c]) /\ r.pc = p
  <2>. DEFINE e == [call[c] EXCEPT !.pc = p]
  <2>1. e \in Call /\ Same(e, call[c]) /\ e.pc = p BY <1>7, Basics, AtPoint
  <2>. QED BY <2>1
<1>9. call' = [call EXCEPT ![c] = r] BY <1>1, <1>6, <1>8 DEF Goes, Becomes
<1>10. call[c].pc \notin Waiting /\ r.pc \notin Waiting BY <1>1, <1>8 DEF Waiting
<1>11. r.request # 0 BY <1>1, <1>8 DEF IInv, Owned, Same, Acting
<1>12. Fits(r)' BY <1>1, <1>6, <1>8 DEF Fits
<1>. QED BY <1>1, <1>4, <1>5, <1>8, <1>9, <1>10, <1>11, <1>12, LatestStays, SentStays, Runs

LEMMA SettledInvariant == ASSUME IInv, NEW c \in Calls, Settled(c) PROVE IInv'
<1>1. /\ call[c].pc = "settle" /\ Proceeds(c) /\ Goes(c, "end") /\ pending' = FALSE /\ paused' = NoAction
      /\ UNCHANGED <<document, mutation, dialog, popups, modal, opened, latest, sent>>
  BY DEF Settled, Release
<1>2. TabTypeOK' BY <1>1 DEF IInv, TypeOK, TabTypeOK, Now
<1>3. Aside' /\ DialogIsKnown' BY <1>1 DEF IInv, Aside, DialogIsKnown
<1>4. "end" \in Points /\ "end" \in Between /\ "settle" \in Acting BY DEF Points, Between, Acting
<1>. QED BY <1>1, <1>2, <1>3, <1>4, LatestStays, GoesInvariant

-----------------------------------------------------------------------------
\* The specification.

LEMMA ArrivalInvariant == ASSUME IInv, NEW c \in Calls, Arrival(c) PROVE IInv'
<1>1. PICK s \in Sessions, k \in Kinds : \E v \in 0..latest[s].id :
         \/ Ask(c, s, k, v)
         \/ \E r \in Requests : Request(c, s, k, r, v) \/ Repeat(c, s, k, r, v)
  BY DEF Arrival
<1>2. PICK v \in 0..latest[s].id :
         \/ Ask(c, s, k, v)
         \/ \E r \in Requests : Request(c, s, k, r, v) \/ Repeat(c, s, k, r, v)
  BY <1>1
<1>3. v \in Nat BY DEF IInv, TypeOK
<1>. QED BY <1>2, <1>3, AskInvariant, RequestInvariant, RepeatInvariant

LEMMA RunInvariant == ASSUME IInv, NEW c \in Calls, Run(c) PROVE IInv'
BY AnsweredInvariant, LookBegins, BeginActInvariant, BeginDialogInvariant, BeginFlowInvariant,
   ObserveInvariant, StageInvariant, FoundInvariant, EndInvariant, GuardedInvariant, IssueInvariant,
   ContinueInvariant, CompleteInvariant, AcceptedInvariant, ClosedInvariant, SettledInvariant
   DEF Run

LEMMA InitInvariant == Init => IInv
<1> SUFFICES ASSUME Init PROVE IInv OBVIOUS
<1>1. /\ place = [c \in Calls |-> 0] /\ running = NoCall /\ highest = [s \in Sessions |-> 0]
      /\ records = [s \in Sessions |-> {}] /\ settled = {}
      /\ document = 1 /\ mutation = 0 /\ dialog = 0 /\ pending = FALSE
      /\ popups = 0 /\ modal = 0 /\ opened = 0 /\ paused = NoAction
      /\ call = [c \in Calls |-> Idle] /\ latest = [s \in Sessions |-> [id |-> 0, epoch |-> NoEpoch]]
      /\ ended = {} /\ sent = [o \in Owners |-> 0]
  BY DEF Init, ExecutorInit, LedgerInit, TabInit
<1>2. NoEpoch \in Epoch BY TabAssumption DEF NoEpoch, Epoch
<1>3. \A c \in Calls : call[c] = Idle BY <1>1
<1>4. ExecutorTypeOK
  <2>1. Queued = {} BY <1>1 DEF Queued
  <2>2. Cardinality(Queued) = 0 /\ Limit \in Nat BY <2>1, FS_EmptySet, ExecutorAssumption
  <2>. QED BY <1>1, <2>1, <2>2 DEF ExecutorTypeOK
<1>5. LedgerTypeOK
  <2>1. IsFiniteSet({}) /\ Cardinality({}) = 0 BY FS_EmptySet
  <2>. QED BY <1>1, <2>1, LedgerAssumption DEF LedgerTypeOK
<1>6. TabTypeOK
  <2>1. Now \in Epoch BY <1>1, TabAssumption DEF Now, Epoch
  <2>2. 0 \in 0..MaxDialogs /\ 0 \in 0..MaxPopups BY TabAssumption
  <2>3. pending = FALSE BY <1>1
  <2>4. /\ popups \in 0..MaxPopups /\ dialog \in 0..MaxDialogs /\ modal \in 0..MaxDialogs
        /\ opened \in 0..MaxDialogs /\ paused \in {NoAction} \cup Action
    BY <1>1, <2>2
  <2>. QED BY <2>1, <2>3, <2>4 DEF TabTypeOK
<1>7. TypeOK
  <2>1. call \in [Calls -> Call] BY <1>1, IdleCall
  <2>2. latest \in [Sessions -> [id : Nat, epoch : Epoch]] BY <1>1, <1>2
  <2>. QED BY <1>1, <1>4, <1>5, <1>6, <2>1, <2>2 DEF TypeOK
<1>8. ASSUME NEW c \in Calls PROVE Owned(c) /\ Fits(call[c])
  <2>1. highest[Idle.session] = 0 BY <1>1, IdleCall
  <2>2. Owned(c) BY <1>1, <1>3, <2>1, IdleCall DEF Owned, Waiting, Acting, Between
  <2>3. Fits(call[c]) BY <1>3, IdleCall DEF Fits
  <2>. QED BY <2>2, <2>3
<1>9. Apart BY <1>3, IdleCall DEF Apart
<1>10. Known /\ Numbered /\ Aside /\ DialogIsKnown BY <1>1 DEF Known, Numbered, Aside, DialogIsKnown
<1>. QED BY <1>7, <1>8, <1>9, <1>10 DEF IInv

LEMMA StutterInvariant == ASSUME IInv, UNCHANGED vars PROVE IInv'
<1>1. UNCHANGED <<executorVars, ledgerVars, tabVars, call, latest, ended, sent>> BY DEF vars
<1>2. \A c \in Calls : Fits(call[c])' BY <1>1 DEF IInv, Fits, tabVars
<1>. QED BY <1>1, <1>2, TabStays, SentStays, TabMoves

\* One step of the service, its clients, the page or the person.
LEMMA NextInvariant == ASSUME IInv, [Next]_vars PROVE IInv'
<1>1. ASSUME NEW c \in Calls, Arrival(c) PROVE IInv' BY <1>1, ArrivalInvariant
<1>2. ASSUME NEW c \in Calls, Cancel(c) PROVE IInv' BY <1>2, CancelInvariant
<1>3. ASSUME NEW c \in Calls, Run(c) PROVE IInv' BY <1>3, RunInvariant
<1>4. ASSUME NEW s \in Sessions, NEW k \in Kinds, NEW r \in Requests, NEW v \in 0..latest[s].id,
             Busy(s, k, r, v)
      PROVE IInv'
  <2>1. v \in Nat BY DEF IInv, TypeOK
  <2>. QED BY <1>4, <2>1, BusyInvariant
<1>5. ASSUME NEW s \in Sessions, EndSession(s) PROVE IInv' BY <1>5, EndSessionInvariant
<1>6. CASE Dialog BY <1>6, DialogInvariant
<1>7. CASE Return BY <1>7, ReturnInvariant
<1>8. CASE Site BY <1>8, SiteInvariant
<1>9. CASE UNCHANGED vars BY <1>9, StutterInvariant
<1>. QED BY <1>1, <1>2, <1>3, <1>4, <1>5, <1>6, <1>7, <1>8, <1>9 DEF Next

\* IInv holds throughout.
THEOREM Inductive == Spec => []IInv
<1>1. IInv /\ [Next]_vars => IInv' BY NextInvariant
<1>. QED BY InitInvariant, <1>1, PTL DEF Spec

\* DeskIsSound: whatever the number of clients, calls, dialogs and tabs, at most
\* one input is in the browser at any time, a suspended one included, and no
\* dialog is shown that the server does not hold.
THEOREM SoundDesk == Spec => []DeskIsSound
<1>1. ASSUME IInv PROVE InputsAreApart
  <2>. DEFINE acting == {c \in Calls : call[c].pc = "act"}
  <2>1. \A c \in acting : running = c /\ ~pending BY <1>1 DEF IInv, Owned, Fits, Waiting
  <2>2. CASE acting = {}
    <3>1. Cardinality(acting) = 0 BY <2>2, FS_EmptySet
    <3>. QED BY <3>1 DEF InputsAreApart
  <2>3. CASE acting # {}
    <3>1. acting = {running} /\ ~pending BY <2>1, <2>3
    <3>2. Cardinality(acting) = 1 BY <3>1, FS_Singleton
    <3>3. ~InProgress BY <1>1, <3>1 DEF IInv, Aside, InProgress
    <3>. QED BY <3>2, <3>3 DEF InputsAreApart
  <2>. QED BY <2>2, <2>3
<1>2. IInv => DeskIsSound BY <1>1 DEF IInv, DeskIsSound
<1>. QED BY Inductive, <1>2, PTL

\* An input is issued by these three actions only, for the request of the call
\* that runs, which has not been aborted, on the tab it observed.
LEMMA Inputs ==
  ASSUME IInv, [Next]_vars, NEW o \in Owners, sent'[o] # sent[o]
  PROVE \E c \in Calls : /\ running' = c /\ Owner(c) = o /\ Fresh(c) /\ ~call[c].aborted
                         /\ call[c].pc \notin {"idle", "sharing"}
<1>1. ASSUME NEW c \in Calls, BeginDialog(c)
      PROVE /\ running' = c /\ Owner(c) = o /\ Fresh(c) /\ ~call[c].aborted
            /\ call[c].pc \notin {"idle", "sharing"}
  <2>1. /\ View(c) = Now /\ Begins(c, "dialog") /\ Input(c)
    BY <1>1 DEF BeginDialog, Usable, Current
  <2>2. /\ running = NoCall /\ running' = c /\ call[c].pc = "queued" /\ ~call[c].aborted
        /\ call[c].request # 0
    BY <2>1, BeginsFacts
  <2>3. running # c BY <2>2, Basics
  <2>4. Owner(c) = o BY <2>1, <2>2, InputType
  <2>. QED BY <2>1, <2>2, <2>3, <2>4 DEF Fresh
<1>2. ASSUME NEW c \in Calls, Issue(c)
      PROVE /\ running' = c /\ Owner(c) = o /\ Fresh(c) /\ ~call[c].aborted
            /\ call[c].pc \notin {"idle", "sharing"}
  <2>1. /\ call[c].pc = "aim" /\ popups = call[c].popups /\ document = call[c].seen.document
        /\ dialog = 0 /\ ~call[c].aborted /\ running = c /\ running' = c /\ Input(c)
    BY <1>2 DEF Issue, Clear, Proceeds, executorVars
  <2>2. call[c].seen.mutation = mutation /\ call[c].request # 0
    BY <2>1 DEF IInv, Fits, Owned, Acting
  <2>3. call[c].seen = Now
    <3>1. call[c].seen \in Epoch BY Basics, CallFields
    <3>2. call[c].seen = [document |-> call[c].seen.document, mutation |-> call[c].seen.mutation]
      BY <3>1 DEF Epoch
    <3>. QED BY <2>1, <2>2, <3>2 DEF Now
  <2>4. Owner(c) = o BY <2>1, <2>2, InputType
  <2>. QED BY <2>1, <2>3, <2>4 DEF Fresh
<1>3. ASSUME NEW c \in Calls, Continue(c)
      PROVE /\ running' = c /\ Owner(c) = o /\ Fresh(c) /\ ~call[c].aborted
            /\ call[c].pc \notin {"idle", "sharing"}
  <2>1. /\ call[c].pc = "act" /\ popups = call[c].popups /\ call[c].seen = Now
        /\ dialog = 0 /\ ~call[c].aborted /\ running = c /\ running' = c /\ Input(c)
    BY <1>3 DEF Continue, Undisturbed, Proceeds, executorVars
  <2>2. call[c].request # 0 BY <2>1 DEF IInv, Owned, Acting
  <2>3. Owner(c) = o BY <2>1, <2>2, InputType
  <2>. QED BY <2>1, <2>3 DEF Fresh
<1>4. ~Return BY ReturnInvariant
<1>5. ~UNCHANGED sent OBVIOUS
<1>6. ~Dialog /\ ~Site /\ ~UNCHANGED vars BY <1>5 DEF Dialog, Site, vars
<1>7. ~(\E s \in Sessions : EndSession(s)) /\ ~(\E c \in Calls : Cancel(c))
  BY <1>5 DEF EndSession, Cancel, Aborts
<1>8. ~(\E s \in Sessions, k \in Kinds, r \in Requests : \E v \in 0..latest[s].id : Busy(s, k, r, v))
  BY <1>5 DEF Busy
<1>9. ~(\E c \in Calls : Arrival(c))
  <2> SUFFICES ASSUME NEW c \in Calls, NEW s, NEW k, NEW v, NEW r,
                      Ask(c, s, k, v) \/ Request(c, s, k, r, v) \/ Repeat(c, s, k, r, v)
               PROVE FALSE
    BY Zenon DEF Arrival
  <2>. QED BY <1>5 DEF Ask, Request, Repeat
<1>10. PICK c \in Calls : Run(c) BY <1>4, <1>6, <1>7, <1>8, <1>9 DEF Next
<1>11. BeginDialog(c) \/ Issue(c) \/ Continue(c)
  <2>1. ~(Refuse(c) \/ BeginView(c) \/ BeginRead(c) \/ BeginAct(c) \/ BeginFlow(c))
    BY <1>5 DEF Refuse, BeginView, BeginRead, BeginAct, BeginFlow
  <2>2. ~(Snapped(c) \/ Looked(c) \/ Observe(c) \/ Finish(c) \/ Share(c))
    BY <1>5 DEF Snapped, Looked, Observe, Finish, Share, Answer
  <2>3. ~(Stage(c) \/ Found(c) \/ NotFound(c) \/ LookFails(c) \/ Guarded(c) \/ Desists(c))
    BY <1>5 DEF Stage, Found, NotFound, LookFails, Guarded, Desists
  <2>4. ~(Complete(c) \/ Stop(c) \/ Accepted(c) \/ NotAccepted(c) \/ Closed(c) \/ Settled(c) \/ NextModal(c))
    BY <1>5 DEF Complete, Stop, Accepted, NotAccepted, Closed, Settled, NextModal
  <2>. QED BY <1>10, <2>1, <2>2, <2>3, <2>4 DEF Run
<1>. QED BY <1>1, <1>2, <1>3, <1>11

\* InputsAreFresh: an input is issued on the tab as its call observed it,
\* whatever the page, the person and the other sessions have done meanwhile.
THEOREM FreshInputs == Spec => InputsAreFresh
<1>1. IInv /\ [Next]_vars =>
        [\A o \in Owners : sent'[o] # sent[o] =>
            \E c \in Calls : running' = c /\ Owner(c) = o /\ Fresh(c)]_vars
  BY Inputs
<1>. QED BY Inductive, <1>1, PTL DEF Spec, InputsAreFresh

\* AbortedIsSilent: a cancelled call and a call of a closed session issue none.
THEOREM SilentAborted == Spec => AbortedIsSilent
<1>1. ASSUME IInv, [Next]_vars
      PROVE [\A o \in Owners : sent'[o] # sent[o] =>
               \E c \in Calls : /\ running' = c /\ Owner(c) = o /\ ~call[c].aborted
                                /\ call[c].session \notin ended]_vars
  <2> SUFFICES ASSUME NEW o \in Owners, sent'[o] # sent[o]
               PROVE \E c \in Calls : /\ running' = c /\ Owner(c) = o /\ ~call[c].aborted
                                      /\ call[c].session \notin ended
    OBVIOUS
  <2>1. PICK c \in Calls : /\ running' = c /\ Owner(c) = o /\ ~call[c].aborted
                           /\ call[c].pc \notin {"idle", "sharing"}
    BY <1>1, Inputs
  <2>2. call[c].session \notin ended BY <1>1, <2>1 DEF IInv, Owned
  <2>. QED BY <2>1, <2>2
<1>. QED BY Inductive, <1>1, PTL DEF Spec, AbortedIsSilent

\* OutcomeIsFinal: a request whose outcome a client may know is not worked on
\* again, so that a repeated or forgotten request number replays no input.
THEOREM FinalOutcome == Spec => OutcomeIsFinal
<1>1. ASSUME IInv, [Next]_vars PROVE [\A o \in settled : sent'[o] = sent[o]]_vars
  <2> SUFFICES ASSUME NEW o \in settled, sent'[o] # sent[o] PROVE FALSE OBVIOUS
  <2>1. o \in Owners BY <1>1, McpAssumption DEF IInv, TypeOK, LedgerTypeOK
  <2>2. PICK c \in Calls : Owner(c) = o /\ call[c].pc \notin {"idle", "sharing"} BY <1>1, <2>1, Inputs
  <2>. QED BY <1>1, <2>2 DEF IInv, Owned
<1>. QED BY Inductive, <1>1, PTL DEF Spec, OutcomeIsFinal
=============================================================================
