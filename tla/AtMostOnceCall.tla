---------------------------- MODULE AtMostOnceCall ----------------------------
(***************************************************************************)
(* What a remote call of IPlcService can promise over a connection that    *)
(* may fail: the request of a call is executed at most once, only after    *)
(* the call was made, and a call that returns normally was executed.  A    *)
(* call that fails promises nothing: its request may have been executed,   *)
(* or may be executed after the caller has given up.                       *)
(***************************************************************************)
EXTENDS Integers

CONSTANTS
  Callers,    \* concurrent users of the service
  MaxCalls    \* bound on the calls each of them makes

VARIABLES
  made,       \* made[c]: how many calls c has made
  outcome,    \* outcome[c]: how c's last call ended, "pending" while it runs
  executed    \* executed[r]: how many times the request r has been executed

vars == <<made, outcome, executed>>

(* The n-th call of c *)
Requests == Callers \X (1..MaxCalls)

Outcomes == {"none", "pending", "ok", "failed"}

TypeOK ==
  /\ made \in [Callers -> 0..MaxCalls]
  /\ outcome \in [Callers -> Outcomes]
  /\ executed \in [Requests -> Nat]

Init ==
  /\ made = [c \in Callers |-> 0]
  /\ outcome = [c \in Callers |-> "none"]
  /\ executed = [r \in Requests |-> 0]

Invoke(c) ==
  /\ outcome[c] # "pending"
  /\ made[c] < MaxCalls
  /\ made' = [made EXCEPT ![c] = @ + 1]
  /\ outcome' = [outcome EXCEPT ![c] = "pending"]
  /\ UNCHANGED executed

Execute(r) ==
  /\ r[2] <= made[r[1]]
  /\ executed[r] = 0
  /\ executed' = [executed EXCEPT ![r] = 1]
  /\ UNCHANGED <<made, outcome>>

Succeed(c) ==
  /\ outcome[c] = "pending"
  /\ executed[<<c, made[c]>>] = 1
  /\ outcome' = [outcome EXCEPT ![c] = "ok"]
  /\ UNCHANGED <<made, executed>>

Fail(c) ==
  /\ outcome[c] = "pending"
  /\ outcome' = [outcome EXCEPT ![c] = "failed"]
  /\ UNCHANGED <<made, executed>>

Next ==
  \/ \E c \in Callers : Invoke(c) \/ Succeed(c) \/ Fail(c)
  \/ \E r \in Requests : Execute(r)

Spec == Init /\ [][Next]_vars
===============================================================================
