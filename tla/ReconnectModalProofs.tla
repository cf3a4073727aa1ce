------------------------- MODULE ReconnectModalProofs -------------------------
(***************************************************************************)
(* The invariants of the reconnection dialog, for any bound on the clicks, *)
(* and that it does not reload a page that has a circuit.                  *)
(***************************************************************************)
EXTENDS ReconnectModal, TLAPS

(* The calls that may still change the listener.                               *)
Retries == listening + reconnecting + recovering

(* Without an overlap, nothing is under way on a page that is connected or     *)
(* that the runtime reconnects; an outage given up allows one retry more, and  *)
(* a paused session one resumption more.                                       *)
CallsInv ==
  /\ class \in {"hide", "show", "rejected"} => listening + InFlight <= overlaps
  /\ class = "failed" => listening + InFlight <= 1 + overlaps
  /\ class \in {"paused", "resume-failed"} =>
       Retries <= overlaps /\ listening + InFlight <= 1 + overlaps

(* The types apart from those of the flags, which take another prover.         *)
NumbersOK ==
  /\ connection \in {"up", "down", "paused"}
  /\ class \in {"hide", "show", "failed", "rejected", "paused", "resume-failed"}
  /\ dialog \in {"closed", "open", "dismissed"}
  /\ listening \in {0, 1}
  /\ reconnecting \in Nat /\ recovering \in Nat /\ resuming \in Nat
  /\ overlaps \in 0..MaxOverlaps

FlagsOK == visible \in BOOLEAN /\ reloading \in BOOLEAN /\ reachable \in BOOLEAN

IInv == TypeOK /\ DialogMatchesConnection /\ FailedIsRetried /\ CallsInv

LEMMA Types == TypeOK <=> NumbersOK /\ FlagsOK
  BY DEF TypeOK, NumbersOK, FlagsOK

LEMMA InitOK == Init => IInv
<1> SUFFICES ASSUME Init PROVE IInv
  OBVIOUS
<1>1. NumbersOK
  BY OverlapsAssumption DEF Init, NumbersOK
<1>2. FlagsOK
  BY Zenon DEF Init, FlagsOK
<1>3. DialogMatchesConnection /\ FailedIsRetried
  BY DEF Init, DialogMatchesConnection, FailedIsRetried
<1>4. CallsInv
  BY DEF Init, CallsInv, InFlight, Retries
<1>5. QED
  BY <1>1, <1>2, <1>3, <1>4, Types DEF IInv

LEMMA NumbersStep == NumbersOK /\ [Next]_vars => NumbersOK'
<1> SUFFICES ASSUME NumbersOK, [Next]_vars PROVE NumbersOK'
  OBVIOUS
<1> USE OverlapsAssumption DEF NumbersOK
<1>1. CASE ClickRetry
  BY <1>1 DEF ClickRetry, Click, Retry, InFlight
<1>2. CASE ClickResume
  BY <1>2 DEF ClickResume, Click, InFlight
<1>3. CASE Reconnected
  BY <1>3 DEF Reconnected, ConnectionUp, HandleReconnectStateChanged, outside
<1>4. CASE CircuitLost
  BY <1>4 DEF CircuitLost, outside
<1>5. CASE Recovered
  BY <1>5 DEF Recovered, ConnectionUp, Reload, HandleReconnectStateChanged, outside
<1>6. CASE RetryThrows
  BY <1>6 DEF RetryThrows, Listen, outside
<1>7. CASE Resumed
  BY <1>7 DEF Resumed, ConnectionUp, Reload, HandleReconnectStateChanged, outside
<1>8. CASE ResumeThrows
  BY <1>8 DEF ResumeThrows, MarkResumeFailed, outside
<1>9. CASE ConnectionLost
  BY <1>9 DEF ConnectionLost, HandleReconnectStateChanged, calls, outside
<1>10. CASE AttemptsEnd
  BY <1>10 DEF AttemptsEnd, ConnectionUp, HandleReconnectStateChanged, calls, outside
<1>11. CASE VisibilityChange
  BY <1>11 DEF VisibilityChange, RetryWhenDocumentBecomesVisible, Retry
<1>12. CASE Dismiss
  BY <1>12 DEF Dismiss, calls, outside
<1>13. CASE ServerChanges
  BY <1>13 DEF ServerChanges, calls
<1>14. CASE PageReplaced
  BY <1>14 DEF PageReplaced
<1>15. CASE UNCHANGED vars
  BY <1>15 DEF vars, calls, outside
<1>16. QED
  BY <1>1, <1>2, <1>3, <1>4, <1>5, <1>6, <1>7, <1>8, <1>9, <1>10, <1>11, <1>12, <1>13, <1>14, <1>15
  DEF Next, Settle

LEMMA FlagsStep == FlagsOK /\ [Next]_vars => FlagsOK'
<1> SUFFICES ASSUME FlagsOK, [Next]_vars PROVE FlagsOK'
  OBVIOUS
<1> USE DEF FlagsOK
<1>1. CASE ClickRetry \/ ClickResume
  BY <1>1, Zenon DEF ClickRetry, ClickResume, Click
<1>2. CASE Settle
  BY <1>2, Zenon DEF Settle, Reconnected, CircuitLost, Recovered, RetryThrows, Resumed, ResumeThrows,
                     ConnectionUp, Reload, HandleReconnectStateChanged, outside
<1>3. CASE ConnectionLost \/ AttemptsEnd
  BY <1>3, Zenon DEF ConnectionLost, AttemptsEnd, ConnectionUp, HandleReconnectStateChanged, outside
<1>4. CASE VisibilityChange \/ Dismiss \/ ServerChanges \/ PageReplaced \/ UNCHANGED vars
  BY <1>4, Zenon DEF VisibilityChange, Dismiss, ServerChanges, PageReplaced, vars, outside
<1>5. QED
  BY <1>1, <1>2, <1>3, <1>4 DEF Next

LEMMA TypeStep == TypeOK /\ [Next]_vars => TypeOK'
<1>1. NumbersOK' /\ FlagsOK' => TypeOK'
  BY DEF TypeOK, NumbersOK, FlagsOK
<1>2. QED
  BY <1>1, Types, NumbersStep, FlagsStep

LEMMA DialogStep ==
  TypeOK /\ DialogMatchesConnection /\ [Next]_vars => DialogMatchesConnection'
<1> SUFFICES ASSUME TypeOK, DialogMatchesConnection, [Next]_vars PROVE DialogMatchesConnection'
  OBVIOUS
<1> USE DEF DialogMatchesConnection
<1>1. CASE ClickRetry \/ ClickResume
  BY <1>1 DEF ClickRetry, ClickResume, Click
<1>2. CASE Reconnected \/ Recovered \/ Resumed
  BY <1>2 DEF Reconnected, Recovered, Resumed, ConnectionUp, Reload, HandleReconnectStateChanged
<1>3. CASE CircuitLost \/ RetryThrows
  BY <1>3 DEF CircuitLost, RetryThrows
<1>4. CASE ResumeThrows
  BY <1>4 DEF ResumeThrows, MarkResumeFailed
<1>5. CASE ConnectionLost
  BY <1>5 DEF ConnectionLost, HandleReconnectStateChanged
<1>6. CASE AttemptsEnd
  BY <1>6 DEF AttemptsEnd, ConnectionUp, HandleReconnectStateChanged, TypeOK
<1>7. CASE Dismiss
  BY <1>7 DEF Dismiss
<1>8. CASE VisibilityChange \/ ServerChanges \/ PageReplaced \/ UNCHANGED vars
  BY <1>8 DEF VisibilityChange, ServerChanges, PageReplaced, vars
<1>9. QED
  BY <1>1, <1>2, <1>3, <1>4, <1>5, <1>6, <1>7, <1>8 DEF Next, Settle

LEMMA RetriedStep == TypeOK /\ FailedIsRetried /\ [Next]_vars => FailedIsRetried'
<1> SUFFICES ASSUME TypeOK, FailedIsRetried, [Next]_vars PROVE FailedIsRetried'
  OBVIOUS
<1> USE DEF FailedIsRetried, TypeOK
<1>1. CASE ClickRetry \/ ClickResume
  BY <1>1 DEF ClickRetry, ClickResume, Click, Retry
<1>2. CASE Reconnected \/ Recovered \/ Resumed
  BY <1>2 DEF Reconnected, Recovered, Resumed, ConnectionUp, Reload, HandleReconnectStateChanged
<1>3. CASE CircuitLost \/ RetryThrows
  BY <1>3 DEF CircuitLost, RetryThrows, Listen
<1>4. CASE ResumeThrows
  BY <1>4 DEF ResumeThrows, MarkResumeFailed
<1>5. CASE ConnectionLost
  BY <1>5 DEF ConnectionLost
<1>6. CASE AttemptsEnd
  BY <1>6 DEF AttemptsEnd, ConnectionUp, HandleReconnectStateChanged
<1>7. CASE VisibilityChange
  BY <1>7 DEF VisibilityChange, RetryWhenDocumentBecomesVisible, Retry
<1>8. CASE Dismiss \/ ServerChanges \/ PageReplaced \/ UNCHANGED vars
  BY <1>8 DEF Dismiss, ServerChanges, PageReplaced, vars, calls
<1>9. QED
  BY <1>1, <1>2, <1>3, <1>4, <1>5, <1>6, <1>7, <1>8 DEF Next, Settle

LEMMA CallsStep ==
  TypeOK /\ DialogMatchesConnection /\ CallsInv /\ [Next]_vars => CallsInv'
<1> SUFFICES ASSUME TypeOK, DialogMatchesConnection, CallsInv, [Next]_vars PROVE CallsInv'
  OBVIOUS
<1> USE DEF CallsInv, TypeOK, InFlight, Retries
<1>1. CASE ClickRetry
  BY <1>1 DEF ClickRetry, Click, Retry
<1>2. CASE ClickResume
  BY <1>2 DEF ClickResume, Click
<1>3. CASE Reconnected
  BY <1>3 DEF Reconnected, ConnectionUp, HandleReconnectStateChanged, outside
<1>4. CASE CircuitLost
  BY <1>4 DEF CircuitLost, outside
<1>5. CASE Recovered
  BY <1>5 DEF Recovered, ConnectionUp, Reload, HandleReconnectStateChanged, outside
<1>6. CASE RetryThrows
  BY <1>6 DEF RetryThrows, Listen, outside
<1>7. CASE Resumed
  BY <1>7 DEF Resumed, ConnectionUp, Reload, HandleReconnectStateChanged, outside
<1>8. CASE ResumeThrows
  BY <1>8 DEF ResumeThrows, MarkResumeFailed, outside
<1>9. CASE ConnectionLost
  BY <1>9 DEF ConnectionLost, HandleReconnectStateChanged, DialogMatchesConnection, calls, outside
<1>10. CASE AttemptsEnd
  BY <1>10 DEF AttemptsEnd, ConnectionUp, HandleReconnectStateChanged, calls, outside
<1>11. CASE VisibilityChange
  BY <1>11 DEF VisibilityChange, RetryWhenDocumentBecomesVisible, Retry
<1>12. CASE Dismiss \/ ServerChanges \/ UNCHANGED vars
  BY <1>12 DEF Dismiss, ServerChanges, vars, calls, outside
<1>13. CASE PageReplaced
  BY <1>13 DEF PageReplaced
<1>14. QED
  BY <1>1, <1>2, <1>3, <1>4, <1>5, <1>6, <1>7, <1>8, <1>9, <1>10, <1>11, <1>12, <1>13
  DEF Next, Settle

LEMMA Inductive == Spec => []IInv
<1>1. IInv /\ [Next]_vars => IInv'
  BY TypeStep, DialogStep, RetriedStep, CallsStep DEF IInv
<1>2. QED
  BY InitOK, <1>1, PTL DEF Spec

(* Types of the page, and the clicks counted.                                  *)
THEOREM TypeCorrect == Spec => []TypeOK
<1>1. IInv => TypeOK
  BY DEF IInv
<1>2. QED
  BY <1>1, Inductive, PTL

(* What the dialog shows is what the connection is, whatever settles late.     *)
THEOREM DialogCorrect == Spec => []DialogMatchesConnection
<1>1. IInv => DialogMatchesConnection
  BY DEF IInv
<1>2. QED
  BY <1>1, Inductive, PTL

(* An outage given up is always left in the care of a retry or the listener.   *)
THEOREM NotAbandoned == Spec => []FailedIsRetried
<1>1. IInv => FailedIsRetried
  BY DEF IInv
<1>2. QED
  BY <1>1, Inductive, PTL

(* Reconnections multiply by clicks only.                                      *)
THEOREM OneRetry == Spec => []OneRetryUnlessClicked
<1>1. IInv => OneRetryUnlessClicked
  BY DEF IInv, TypeOK, CallsInv, InFlight, OneRetryUnlessClicked
<1>2. QED
  BY <1>1, Inductive, PTL

(* A page that has a circuit is reloaded only after calls were overlapped.     *)
THEOREM NoNeedlessReload == Spec => ReloadNeedsOutage
<1> DEFINE Kept == reloading' # reloading /\ connection = "up" => reloading \/ overlaps > 0
<1>1. IInv /\ [Next]_vars => [Kept]_vars
  <2> SUFFICES ASSUME IInv, Next, connection = "up", ~reloading, overlaps = 0 PROVE reloading' = reloading
    BY DEF IInv, TypeOK
  <2>1. class = "hide" /\ reconnecting = 0 /\ recovering = 0 /\ resuming = 0
    BY DEF IInv, TypeOK, DialogMatchesConnection, CallsInv, InFlight
  <2>2. ~Settle /\ ~AttemptsEnd /\ ~PageReplaced
    BY <2>1 DEF Settle, Reconnected, CircuitLost, Recovered, RetryThrows, Resumed, ResumeThrows,
               AttemptsEnd, PageReplaced
  <2>3. CASE ConnectionLost
    BY <2>3 DEF ConnectionLost, HandleReconnectStateChanged, IInv, TypeOK
  <2>4. CASE ClickRetry \/ ClickResume \/ VisibilityChange \/ Dismiss \/ ServerChanges
    BY <2>4 DEF ClickRetry, ClickResume, Click, VisibilityChange, Dismiss, ServerChanges
  <2>5. QED
    BY <2>2, <2>3, <2>4 DEF Next
<1>2. QED
  BY <1>1, Inductive, PTL DEF Spec, ReloadNeedsOutage
===============================================================================
