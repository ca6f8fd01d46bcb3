-------------------------- MODULE SerialExecution --------------------------
(***************************************************************************)
(* What the queue and its workers promise together: an entry is executed   *)
(* by one worker at a time, as often as it takes, and once it is closed    *)
(* nobody executes it again.                                               *)
(***************************************************************************)
EXTENDS FiniteSets

CONSTANTS Entries, Executors

VARIABLES
  stage,     \* of every entry: "absent", "open" or "closed"
  executing  \* of every entry: the executors busy with it

serialVars == <<stage, executing>>

SerialInit ==
  /\ stage = [e \in Entries |-> "absent"]
  /\ executing = [e \in Entries |-> {}]

Submit(e) ==
  /\ stage[e] = "absent"
  /\ stage' = [stage EXCEPT ![e] = "open"]
  /\ UNCHANGED executing

Begin(e, x) ==
  /\ stage[e] = "open"
  /\ executing[e] = {}
  /\ executing' = [executing EXCEPT ![e] = {x}]
  /\ UNCHANGED stage

\* The execution ends; the entry stays open to be executed again, or is closed.
End(e, s) ==
  /\ executing[e] # {}
  /\ executing' = [executing EXCEPT ![e] = {}]
  /\ stage' = [stage EXCEPT ![e] = s]

\* Entries that nobody executes are withdrawn.
Withdraw(S) ==
  /\ \A e \in S : stage[e] = "open" /\ executing[e] = {}
  /\ stage' = [e \in Entries |-> IF e \in S THEN "closed" ELSE stage[e]]
  /\ UNCHANGED executing

SerialNext ==
  \/ \E e \in Entries : Submit(e)
  \/ \E e \in Entries, x \in Executors : Begin(e, x)
  \/ \E e \in Entries, s \in {"open", "closed"} : stage[e] = "open" /\ End(e, s)
  \/ \E S \in SUBSET Entries : Withdraw(S)

SerialSpec == SerialInit /\ [][SerialNext]_serialVars
=============================================================================
