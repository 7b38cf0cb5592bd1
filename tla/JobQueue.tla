------------------------------- MODULE JobQueue -------------------------------
(***************************************************************************)
(* What the content task queue promises its callers, with no leases, clocks *)
(* or tokens: a job is granted to at most one process at a time, only its   *)
(* current grantee can finish it or strike it, a grant can be withdrawn at  *)
(* any moment, MaxStrikes strikes kill a job, and done and dead are final.  *)
(* ContentTaskQueue implements this specification.                          *)
(***************************************************************************)
EXTENDS Integers

CONSTANTS Jobs, Grantees, MaxStrikes

VARIABLES
  job,       \* where each job is in its life
  grantee,   \* the process allowed to write it: a set of at most one
  strikes    \* failures recorded against it

vars == <<job, grantee, strikes>>

Phases == {"none", "waiting", "granted", "done", "dead"}

Init ==
  /\ job = [j \in Jobs |-> "none"]
  /\ grantee = [j \in Jobs |-> {}]
  /\ strikes = [j \in Jobs |-> 0]

Submit(j) ==
  /\ job[j] = "none"
  /\ job' = [job EXCEPT ![j] = "waiting"]
  /\ UNCHANGED <<grantee, strikes>>

\* A waiting job, or one taken away from its grantee.
Grant(j, p) ==
  /\ job[j] \in {"waiting", "granted"}
  /\ job' = [job EXCEPT ![j] = "granted"]
  /\ grantee' = [grantee EXCEPT ![j] = {p}]
  /\ UNCHANGED strikes

Withdraw(j) ==
  /\ job[j] = "granted"
  /\ grantee' = [grantee EXCEPT ![j] = {}]
  /\ UNCHANGED <<job, strikes>>

Finish(j) ==
  /\ job[j] = "granted" /\ grantee[j] # {}
  /\ job' = [job EXCEPT ![j] = "done"]
  /\ grantee' = [grantee EXCEPT ![j] = {}]
  /\ UNCHANGED strikes

Strike(j) ==
  /\ job[j] = "granted" /\ grantee[j] # {}
  /\ strikes[j] < MaxStrikes
  /\ strikes' = [strikes EXCEPT ![j] = @ + 1]
  /\ job' = [job EXCEPT ![j] = IF strikes[j] + 1 = MaxStrikes THEN "dead" ELSE "waiting"]
  /\ grantee' = [grantee EXCEPT ![j] = {}]

Step(j) ==
  \/ Submit(j) \/ Withdraw(j) \/ Finish(j) \/ Strike(j)
  \/ \E p \in Grantees : Grant(j, p)

Next == \E j \in Jobs : Step(j)

Spec == Init /\ [][Next]_vars
=============================================================================
