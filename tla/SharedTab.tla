----------------------------- MODULE SharedTab -----------------------------
(***************************************************************************)
(* The tab that clients and a person share (server/compact/tab-state.mjs   *)
(* and browser.mjs): the document generation and the mutation count that   *)
(* views are checked against, the dialog the page has opened, and the      *)
(* browser action a dialog has suspended.                                  *)
(*                                                                         *)
(* One tab, which stays open.  Abstracted: the page's content, its URL     *)
(* (every change of it fires framenavigated), downloads.                   *)
(***************************************************************************)
EXTENDS Naturals

CONSTANTS MaxDocument,   \* bound: document generations
          MaxDialogs,    \* bound: dialogs the page opens
          MaxPopups,     \* bound: other tabs that open
          Parts,         \* browser operations of one step: click and type, ...
          Owners,        \* what an input belongs to
          NoAction

ASSUME TabAssumption == /\ MaxDocument \in Nat \ {0} /\ Parts \in Nat \ {0}
                        /\ MaxDialogs \in Nat /\ MaxPopups \in Nat

VARIABLES document,    \* TabState.#document
          mutation,    \* TabState.#mutation
          dialog,      \* TabState.#dialog: the last one reported, 0 when none
          pending,     \* whether #pendingDialogAction is set
          popups,      \* SharedBrowser.#popupVersion
          modal,       \* the dialog Chromium really shows, 0 when none
          opened,      \* how many dialogs it has shown
          paused       \* the browser action a dialog has suspended, NoAction
                       \* when none: it may outlive the call that started it

tabVars == <<document, mutation, dialog, pending, popups, modal, opened, paused>>

Epoch == [document : 1..MaxDocument, mutation : Nat]
Now   == [document |-> document, mutation |-> mutation]

\* A step in progress: whose it is, which of its browser operations runs, and
\* what its closure remembers of the tab as it was when it began.
Action == [owner : Owners, part : 1..Parts, since : Epoch, popups : 0..MaxPopups,
           over : BOOLEAN]
ASSUME ActionAssumption == NoAction \notin Action

TabTypeOK ==
  /\ Now \in Epoch /\ popups \in 0..MaxPopups
  /\ dialog \in 0..MaxDialogs /\ modal \in 0..MaxDialogs /\ opened \in 0..MaxDialogs
  /\ pending \in BOOLEAN
  /\ paused \in {NoAction} \cup Action

TabInit ==
  /\ document = 1 /\ mutation = 0 /\ dialog = 0 /\ pending = FALSE
  /\ popups = 0 /\ modal = 0 /\ opened = 0 /\ paused = NoAction

----------------------------------------------------------------------------
\* What the server does with the tab.

\* assert: nothing happened to the tab that a view of it would not show.
Current(epoch) == epoch = Now

\* consume: every view of the tab taken so far is stale from here on.
Consume == /\ mutation' = mutation + 1
           /\ UNCHANGED <<document, dialog, pending, popups, modal, opened, paused>>

\* ready(): may a step that began at "since" go on to its next operation?
Undisturbed(since, p) == since = Now /\ dialog = 0 /\ popups = p

\* Mutant of Forget: whatever dialog is held now is forgotten.
ForgetAny(d) == /\ dialog' = 0
                /\ UNCHANGED <<document, mutation, pending, popups, modal, opened, paused>>
\* Chromium has closed the dialog it was asked to, and handleDialog awakes:
\* the dialog it held is forgotten unless another one has come.
Forget(d) == /\ dialog' = IF dialog = d THEN 0 ELSE dialog
             /\ UNCHANGED <<document, mutation, pending, popups, modal, opened, paused>>

\* The suspended action is over and its outcome has been taken.
Release == /\ pending' = FALSE /\ paused' = NoAction
           /\ UNCHANGED <<document, mutation, dialog, popups, modal, opened>>

----------------------------------------------------------------------------
\* What happens to it: the listeners of attach() and of SharedBrowser.start().

\* A frame is navigated, attached or detached.
Navigate == /\ document < MaxDocument /\ document' = document + 1
            /\ UNCHANGED <<mutation, dialog, pending, popups, modal, opened, paused>>

OpenPopup == /\ popups < MaxPopups /\ popups' = popups + 1
             /\ UNCHANGED <<document, mutation, dialog, pending, modal, opened, paused>>

\* The page shows a dialog.  The listener keeps it and counts a mutation; a
\* browser action a that is in progress loses its race and is set aside.
OpenDialog(a) ==
  /\ modal = 0 /\ opened < MaxDialogs
  /\ opened' = opened + 1 /\ modal' = opened + 1 /\ dialog' = opened + 1
  /\ mutation' = mutation + 1
  /\ pending' = (pending \/ a # NoAction)
  /\ paused' = IF a = NoAction THEN paused ELSE a
  /\ UNCHANGED <<document, popups>>

\* The dialog leaves the screen: the server asked for it, or the person at the
\* browser clicked it, which the server is not told.
CloseDialog == /\ modal # 0 /\ modal' = 0
               /\ UNCHANGED <<document, mutation, dialog, pending, popups, opened, paused>>

InProgress == paused # NoAction /\ ~paused.over
\* The step whose operation a dialog suspended has operations left, and goes on.
GoesOn     == paused.part < Parts /\ Undisturbed(paused.since, paused.popups)

\* With no dialog on the screen the suspended operation returns to its step,
\* which goes on or ends.
Resume == /\ InProgress /\ modal = 0
          /\ paused' = IF GoesOn THEN [paused EXCEPT !.part = @ + 1]
                       ELSE [paused EXCEPT !.over = TRUE]
          /\ UNCHANGED <<document, mutation, dialog, pending, popups, modal, opened>>
=============================================================================
