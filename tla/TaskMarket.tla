------------------------------ MODULE TaskMarket ------------------------------
(***************************************************************************)
(* The escrow of contracts/TaskMarket.sol, with the verified machines of    *)
(* contracts/AIIdentityRegistry.sol.  Workers, result hashes and proof      *)
(* commitments are left out: no payment depends on them.                    *)
(***************************************************************************)
EXTENDS AiToken

CONSTANTS
  TaskIds,
  Bounties

ASSUME TaskAssumption == IsFiniteSet(TaskIds) /\ Bounties \subseteq Nat

VARIABLES
  tasks,      \* those posted
  verified,   \* AIIdentityRegistry._verified
  taskShort   \* history: tokens withheld on their way into escrow

taskVars == <<tasks, verified, taskShort>>

NoUser == "none"
Statuses == {"Open", "Funded", "Assigned", "Submitted", "Completed", "Cancelled"}
Tasks == [publisher : Users, bounty : Bounties, lockedAmount : Nat,
          aiPoolRecipient : Users \cup {NoUser},
          status : Statuses]

TaskInit ==
  /\ tasks = [t \in {} |-> NoUser]
  /\ verified = {}
  /\ taskShort = 0

VerifyMachine ==
  /\ \E u \in Users \ verified : verified' = verified \cup {u}
  /\ UNCHANGED <<tokenVars, tasks, taskShort>>

RevokeMachine ==
  /\ \E u \in verified : verified' = verified \ {u}
  /\ UNCHANGED <<tokenVars, tasks, taskShort>>

Update(t, task) == tasks' = [tasks EXCEPT ![t] = task]

\* Ids count up: here they are taken in any order.
PostTask ==
  /\ \E t \in TaskIds \ DOMAIN tasks, u \in Users, b \in Bounties :
       tasks' = [i \in DOMAIN tasks \cup {t} |->
                   IF i \in DOMAIN tasks THEN tasks[i]
                   ELSE [publisher |-> u, bounty |-> b, lockedAmount |-> 0,
                         aiPoolRecipient |-> NoUser, status |-> "Open"]]
  /\ UNCHANGED <<tokenVars, verified, taskShort>>

\* The bounty is locked, whatever arrives.
FundTask ==
  \E t \in DOMAIN tasks :
    LET task == tasks[t] IN
    /\ task.status = "Open"
    /\ task.bounty > 0
    /\ balanceOf[task.publisher] >= task.bounty
    /\ balanceOf' = Transfer(balanceOf, task.publisher, "task_market", task.bounty)
    /\ taskShort' = taskShort + Withheld(task.publisher, task.bounty)
    /\ Update(t, [task EXCEPT !.lockedAmount = task.bounty, !.status = "Funded"])
    /\ UNCHANGED <<taxRateBps, paused, verified>>

AssignWorker ==
  /\ \E t \in DOMAIN tasks, r \in verified :
       /\ tasks[t].status = "Funded"
       /\ Update(t, [tasks[t] EXCEPT !.aiPoolRecipient = r, !.status = "Assigned"])
  /\ UNCHANGED <<tokenVars, verified, taskShort>>

SubmitWork ==
  /\ \E t \in DOMAIN tasks :
       /\ tasks[t].status = "Assigned"
       /\ Update(t, [tasks[t] EXCEPT !.status = "Submitted"])
  /\ UNCHANGED <<tokenVars, verified, taskShort>>

Mutant_TrustsAssignment ==
  \E t \in DOMAIN tasks :
    LET task == tasks[t]
        gross == task.lockedAmount
    IN /\ task.status = "Submitted" /\ gross > 0 /\ ~paused
       /\ balanceOf["task_market"] >= gross
       /\ balanceOf' = Transfer(CollectTax(balanceOf, "task_market", gross),
                                "task_market", task.aiPoolRecipient, gross - Fee(gross))
       /\ Update(t, [task EXCEPT !.lockedAmount = 0, !.status = "Completed"])
       /\ UNCHANGED <<taxRateBps, paused, verified, taskShort>>
\* approveTask and _settle: the recipient is looked up a second time.
ApproveTask ==
  \E t \in DOMAIN tasks :
    LET task == tasks[t]
        gross == task.lockedAmount
    IN /\ task.status = "Submitted"
       /\ gross > 0
       /\ task.aiPoolRecipient \in verified
       /\ ~paused
       /\ balanceOf["task_market"] >= gross
       /\ balanceOf' = Transfer(CollectTax(balanceOf, "task_market", gross),
                                "task_market", task.aiPoolRecipient, gross - Fee(gross))
       /\ Update(t, [task EXCEPT !.lockedAmount = 0, !.status = "Completed"])
       /\ UNCHANGED <<taxRateBps, paused, verified, taskShort>>

\* The publisher may cancel until the end, and gets back what is locked.
Mutant_KeepsLock ==
  \E t \in DOMAIN tasks :
    LET task == tasks[t] IN
    /\ task.status \notin {"Completed", "Cancelled"}
    /\ balanceOf["task_market"] >= task.lockedAmount
    /\ balanceOf' = Transfer(balanceOf, "task_market", task.publisher, task.lockedAmount)
    /\ Update(t, [task EXCEPT !.status = "Cancelled"])
    /\ UNCHANGED <<taxRateBps, paused, verified, taskShort>>
CancelTask ==
  \E t \in DOMAIN tasks :
    LET task == tasks[t] IN
    /\ task.status \notin {"Completed", "Cancelled"}
    /\ balanceOf["task_market"] >= task.lockedAmount
    /\ balanceOf' = Transfer(balanceOf, "task_market", task.publisher, task.lockedAmount)
    /\ Update(t, [task EXCEPT !.lockedAmount = 0, !.status = "Cancelled"])
    /\ UNCHANGED <<taxRateBps, paused, verified, taskShort>>

TaskNext ==
  \/ VerifyMachine \/ RevokeMachine \/ PostTask \/ FundTask \/ AssignWorker
  \/ SubmitWork \/ ApproveTask \/ CancelTask
=============================================================================
