----------------------------- MODULE RemotePlant -----------------------------
(***************************************************************************)
(* What the bridge promises from end to end to the callers of IPlcService  *)
(* in the Web HMI, of whose plant only the pump is kept.  A command acts   *)
(* on the plant at most once, at one instant, and not before it is called; *)
(* a call that returns normally has acted before it returned, and a status *)
(* is the pump at the instant it was read.  A call that fails may have     *)
(* acted, and may still act afterwards.  A Worker that is started again    *)
(* starts with its pump off.                                               *)
(***************************************************************************)
EXTENDS PlcCommands, Integers

CONSTANTS
  Callers,    \* flows of the Web HMI that make calls, one at a time each
  MaxCalls,   \* bound on the calls each of them makes
  None        \* not called yet, no result

VARIABLES
  pump,       \* the pump of the plant
  made,       \* made[c]: how many calls c has made
  asked,      \* asked[r]: the command of the request r
  fate,       \* fate[r]: how the call of r ended, "pending" while it runs
  seen,       \* seen[r]: the pump as r found or left it, None until r acts
  told        \* told[c]: the pump in the last status c was given

vars == <<pump, made, asked, fate, seen, told>>

(* The n-th call of c *)
Requests == Callers \X (1..MaxCalls)

Init ==
  /\ pump = FALSE
  /\ made = [c \in Callers |-> 0]
  /\ asked = [r \in Requests |-> None]
  /\ fate = [r \in Requests |-> None]
  /\ seen = [r \in Requests |-> None]
  /\ told = [c \in Callers |-> None]

Call(c, command) ==
  /\ made[c] < MaxCalls
  /\ made' = [made EXCEPT ![c] = @ + 1]
  /\ asked' = [asked EXCEPT ![<<c, made'[c]>>] = command]
  /\ fate' = [fate EXCEPT ![<<c, made'[c]>>] = "pending"]
  /\ UNCHANGED <<pump, seen, told>>

Act(r) ==
  /\ fate[r] \in {"pending", "failed"}
  /\ seen[r] = None
  /\ pump' = Effect(asked[r], pump)
  /\ seen' = [seen EXCEPT ![r] = pump']
  /\ UNCHANGED <<made, asked, fate, told>>

Succeed(c) ==
  LET r == <<c, made[c]>>
  IN  /\ r \in Requests /\ fate[r] = "pending"
      /\ seen[r] # None
      /\ fate' = [fate EXCEPT ![r] = "ok"]
      /\ told' = IF asked[r] = "GET_STATUS" THEN [told EXCEPT ![c] = seen[r]] ELSE told
      /\ UNCHANGED <<pump, made, asked, seen>>

Fail(c) ==
  LET r == <<c, made[c]>>
  IN  /\ r \in Requests /\ fate[r] = "pending"
      /\ fate' = [fate EXCEPT ![r] = "failed"]
      /\ UNCHANGED <<pump, made, asked, seen, told>>

Restart == pump' = FALSE /\ UNCHANGED <<made, asked, fate, seen, told>>

Next ==
  \/ \E c \in Callers : Succeed(c) \/ Fail(c) \/ \E command \in PlantCommands : Call(c, command)
  \/ \E r \in Requests : Act(r)
  \/ Restart

Spec == Init /\ [][Next]_vars
===============================================================================
