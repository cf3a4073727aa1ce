---------------------------- MODULE ReconnectModal ----------------------------
(***************************************************************************)
(* The dialog a page shows while it has lost its circuit: the handler of   *)
(* the events the Blazor runtime dispatches to it, its two buttons, and    *)
(* the retry made when the user comes back to the page.  An await is the   *)
(* only place where the script can be interrupted, so a call of retry or   *)
(* resume is one step up to its await and one step after it; calls in      *)
(* flight differ only in what they await, and are counted.  The runtime,   *)
(* the browser, the server and the user are external.                      *)
(***************************************************************************)
EXTENDS Naturals

CONSTANT MaxOverlaps   \* bound on the clicks made while another call is in flight

ASSUME OverlapsAssumption == MaxOverlaps \in Nat

VARIABLES
  connection,    \* of the runtime: "up", "down", or "paused" by the server
  class,         \* of the dialog: "hide", "show", "failed", "rejected", "paused", "resume-failed"
  dialog,        \* "closed", "open", or "dismissed" with the Escape key
  listening,     \* 1 while retryWhenDocumentBecomesVisible is registered, 0 otherwise
  visible,       \* document.visibilityState
  reconnecting,  \* calls of retry at the await of line 31
  recovering,    \* calls of retry at the await of line 35
  resuming,      \* calls of resume at the await of line 50
  reloading,     \* location.reload() has been called
  reachable,     \* the server answers
  overlaps       \* clicks made while another call was in flight

calls == <<reconnecting, recovering, resuming>>
outside == <<visible, reachable, overlaps>>
vars == <<connection, class, dialog, listening, reloading, calls, outside>>

TypeOK ==
  /\ connection \in {"up", "down", "paused"}
  /\ class \in {"hide", "show", "failed", "rejected", "paused", "resume-failed"}
  /\ dialog \in {"closed", "open", "dismissed"}
  /\ listening \in {0, 1}
  /\ reconnecting \in Nat /\ recovering \in Nat /\ resuming \in Nat
  /\ visible \in BOOLEAN /\ reloading \in BOOLEAN /\ reachable \in BOOLEAN
  /\ overlaps \in 0..MaxOverlaps

InFlight == reconnecting + recovering + resuming

(* The script registers its handlers, on a page that is connected.             *)
Init ==
  /\ connection = "up" /\ class = "hide" /\ dialog = "closed"
  /\ listening = 0 /\ reloading = FALSE /\ overlaps = 0
  /\ reconnecting = 0 /\ recovering = 0 /\ resuming = 0
  /\ visible = TRUE /\ reachable = TRUE

-------------------------------------------------------------------------------
(* What the script does.                                                       *)

(* showModal leaves an open dialog open; close, a closed one closed; adding    *)
(* the same listener again changes nothing.                                    *)
ReloadOnAnyLoss(state) ==
  /\ dialog' = IF state = "show" THEN "open" ELSE IF state = "hide" THEN "closed" ELSE dialog
  /\ listening' = IF state = "failed" THEN 1 ELSE listening
  /\ reloading' = (reloading \/ state # "hide")
HandleReconnectStateChanged(state) ==
  /\ dialog' = IF state = "show" THEN "open" ELSE IF state = "hide" THEN "closed" ELSE dialog
  /\ listening' = IF state = "failed" THEN 1 ELSE listening
  /\ reloading' = (reloading \/ state = "rejected")

RetryWithoutRemove == reconnecting' = reconnecting + 1 /\ UNCHANGED listening
Retry ==
  /\ listening' = 0
  /\ reconnecting' = reconnecting + 1

ListenForgotten == UNCHANGED listening
ListenWithNewClosure == listening' = listening + 1
Listen == listening' = 1

(* A click counts as an overlap when a call is in flight already.              *)
Click ==
  /\ dialog = "open"
  /\ IF InFlight = 0 THEN UNCHANGED overlaps ELSE overlaps' = overlaps + 1
  /\ overlaps' <= MaxOverlaps
  /\ UNCHANGED <<connection, class, dialog, reloading, visible, reachable>>

ClickRetry ==
  /\ class = "failed"
  /\ Retry /\ Click
  /\ UNCHANGED <<recovering, resuming>>

ClickResume ==
  /\ class \in {"paused", "resume-failed"}
  /\ resuming' = resuming + 1
  /\ Click
  /\ UNCHANGED <<listening, reconnecting, recovering>>

RetryByButtonOnly == UNCHANGED <<listening, reconnecting>>
RetryWhenDocumentBecomesVisible ==
  IF visible' /\ listening = 1 THEN Retry ELSE UNCHANGED <<listening, reconnecting>>

(* The runtime has a circuit again, and dispatches "hide".                     *)
ConnectionUp ==
  /\ connection' = "up" /\ class' = "hide"
  /\ HandleReconnectStateChanged("hide")

Reload ==
  /\ reloading' = TRUE
  /\ UNCHANGED <<connection, class, dialog, listening>>

(* Blazor.reconnect returned true.                                             *)
Reconnected ==
  /\ reachable /\ reconnecting > 0
  /\ reconnecting' = reconnecting - 1
  /\ ConnectionUp
  /\ UNCHANGED <<recovering, resuming, outside>>

(* Blazor.reconnect returned false.                                            *)
CircuitLost ==
  /\ reachable /\ reconnecting > 0
  /\ reconnecting' = reconnecting - 1 /\ recovering' = recovering + 1
  /\ UNCHANGED <<connection, class, dialog, listening, reloading, resuming, outside>>

(* Blazor.resumeCircuit returned in retry; close() finds the dialog closed.    *)
Recovered ==
  /\ reachable /\ recovering > 0
  /\ recovering' = recovering - 1
  /\ ConnectionUp \/ Reload
  /\ UNCHANGED <<reconnecting, resuming, outside>>

(* Either await of retry threw.                                                *)
RetryThrows ==
  /\ ~reachable
  /\ \/ reconnecting > 0 /\ reconnecting' = reconnecting - 1 /\ UNCHANGED recovering
     \/ recovering > 0 /\ recovering' = recovering - 1 /\ UNCHANGED reconnecting
  /\ Listen
  /\ UNCHANGED <<connection, class, dialog, reloading, resuming, outside>>

(* Blazor.resumeCircuit returned in resume, which leaves the dialog to "hide". *)
Resumed ==
  /\ reachable /\ resuming > 0
  /\ resuming' = resuming - 1
  /\ ConnectionUp \/ Reload
  /\ UNCHANGED <<reconnecting, recovering, outside>>

(* classList.replace does nothing when the first class is not there.           *)
MarkResumeFailedAlways == class' = "resume-failed"
MarkResumeFailed == class' = IF class = "paused" THEN "resume-failed" ELSE class

ResumeThrows ==
  /\ ~reachable /\ resuming > 0
  /\ resuming' = resuming - 1
  /\ MarkResumeFailed
  /\ UNCHANGED <<connection, dialog, listening, reloading, reconnecting, recovering, outside>>

Settle == Reconnected \/ CircuitLost \/ Recovered \/ RetryThrows \/ Resumed \/ ResumeThrows

-------------------------------------------------------------------------------
(* What happens to the script.                                                 *)

(* The runtime notices the loss, or is told of the pause, and shows it.        *)
ConnectionLost ==
  /\ connection = "up"
  /\ \/ connection' = "down" /\ class' = "show"
     \/ connection' = "paused" /\ class' = "paused"
  /\ HandleReconnectStateChanged("show")
  /\ UNCHANGED <<calls, outside>>

(* The runtime tries by itself while it shows "show": it succeeds, it is       *)
(* rejected by the server, or it gives up.                                     *)
AttemptsEnd ==
  /\ class = "show"
  /\ \/ reachable /\ ConnectionUp
     \/ reachable /\ class' = "rejected" /\ HandleReconnectStateChanged("rejected") /\ UNCHANGED connection
     \/ ~reachable /\ class' = "failed" /\ HandleReconnectStateChanged("failed") /\ UNCHANGED connection
  /\ UNCHANGED <<calls, outside>>

VisibilityChange ==
  /\ visible' = ~visible
  /\ RetryWhenDocumentBecomesVisible
  /\ UNCHANGED <<connection, class, dialog, reloading, recovering, resuming, reachable, overlaps>>

(* Escape closes a modal dialog.                                               *)
Dismiss ==
  /\ dialog = "open" /\ dialog' = "dismissed"
  /\ UNCHANGED <<connection, class, listening, reloading, calls, outside>>

ServerChanges ==
  /\ reachable' = ~reachable
  /\ UNCHANGED <<connection, class, dialog, listening, reloading, calls, visible, overlaps>>

(* The reload replaces the page, with every call that was in flight.           *)
PageReplaced ==
  /\ reloading /\ reachable
  /\ connection' = "up" /\ class' = "hide" /\ dialog' = "closed"
  /\ listening' = 0 /\ reloading' = FALSE /\ overlaps' = 0
  /\ reconnecting' = 0 /\ recovering' = 0 /\ resuming' = 0
  /\ UNCHANGED <<visible, reachable>>

Next ==
  \/ ClickRetry \/ ClickResume \/ Settle
  \/ ConnectionLost \/ AttemptsEnd \/ VisibilityChange \/ Dismiss \/ ServerChanges \/ PageReplaced

Spec == Init /\ [][Next]_vars

(* Calls settle, the runtime does not try for ever, a reload takes place, and  *)
(* the user keeps leaving and returning, and resumes a session shown as paused. *)
Fairness ==
  /\ WF_vars(Settle) /\ WF_vars(AttemptsEnd) /\ WF_vars(PageReplaced)
  /\ WF_vars(VisibilityChange) /\ WF_vars(ClickResume)

FairSpec == Spec /\ Fairness

-------------------------------------------------------------------------------
(* The dialog is closed by the script exactly while there is a circuit, and a  *)
(* paused session goes on being shown as one: neither a call that settles late,*)
(* in a later outage or after another has succeeded, nor the exception of a    *)
(* second resume (line 55), hides an outage or announces one.                  *)
DialogMatchesConnection ==
  /\ dialog = "closed" <=> connection = "up"
  /\ class = "hide" <=> connection = "up"
  /\ class \in {"paused", "resume-failed"} <=> connection = "paused"

(* An outage the runtime has given up is being retried, or will be when the    *)
(* user returns to the page, whatever calls overlapped and failed (line 44).   *)
FailedIsRetried ==
  class = "failed" /\ ~reloading => reconnecting + recovering > 0 \/ listening = 1

(* Coming back to the page never multiplies the reconnections (line 24): the   *)
(* calls in flight, with the one the listener may start, exceed one only by    *)
(* clicks the user made during another call.                                   *)
OneRetryUnlessClicked == listening + InFlight <= 1 + overlaps

(* A page that has a circuit is not thrown away, unless the user had set two   *)
(* calls against each other: the second resumption of one circuit may be       *)
(* refused, and line 37 or 52 then reloads the page the first has recovered.   *)
ReloadNeedsOutage ==
  [][reloading' # reloading /\ connection = "up" => reloading \/ overlaps > 0]_vars

(* Once the server stays reachable, a page gets a circuit again and again      *)
(* without its Retry button, by visits, or by its Resume button if the session *)
(* is paused; the one outage that may last is a paused session whose dialog    *)
(* the user has dismissed, and so its button.                                  *)
OutagesEnd ==
  <>[]reachable => []<>(connection = "up" \/ (connection = "paused" /\ dialog = "dismissed"))
===============================================================================
