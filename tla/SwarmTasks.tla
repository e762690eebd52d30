------------------------------ MODULE SwarmTasks ------------------------------
(***************************************************************************)
(* The swarm of copilotAssistantService.ts (src/src/services/): a task     *)
(* goes to the first idle agent, or to the first of all when none is idle, *)
(* which then forgets the task it had.  Each task has a progress timer of  *)
(* 600 ms and a completion timer of 1500 ms; an interval, of 1500 ms too,  *)
(* adds to the progress of what is running.                                *)
(***************************************************************************)
EXTENDS Integers, Sequences

CONSTANTS
    NumAgents,  \* three in the code
    Increments, \* bound: what one turn of the interval may add (10 to 29)
    MaxTasks    \* bound: the tasks submitted (the list keeps fifty)

ASSUME SwarmAssumption ==
    /\ NumAgents \in Nat \ {0}
    /\ Increments \subseteq 10..29
    /\ MaxTasks \in Nat

VARIABLES
    swarmTasks,  \* the tasks in the order submitted, and where their timers stand
    activeTask   \* the task each agent is busy with, 0 for an idle agent

swarmVars == <<swarmTasks, activeTask>>

Agents == 1..NumAgents

Task == [assignedAgent : Agents, progress : 0..100, status : {"PROCESSING", "COMPLETED"},
         advanced : BOOLEAN, ticked : BOOLEAN]

SwarmTypeOK ==
    /\ swarmTasks \in Seq(Task)
    /\ activeTask \in [Agents -> 0..Len(swarmTasks)]

SwarmInit ==
    /\ swarmTasks = <<>>
    /\ activeTask = [a \in Agents |-> 0]

-----------------------------------------------------------------------------
IdleAgents == {a \in Agents : activeTask[a] = 0}

AvailableAgent ==
    IF IdleAgents = {} THEN 1
    ELSE CHOOSE a \in IdleAgents : \A b \in IdleAgents : a <= b

submitSwarmTask ==
    /\ Len(swarmTasks) < MaxTasks
    /\ swarmTasks' = Append(swarmTasks,
           [assignedAgent |-> AvailableAgent, progress |-> 25, status |-> "PROCESSING",
            advanced |-> FALSE, ticked |-> FALSE])
    /\ activeTask' = [activeTask EXCEPT ![AvailableAgent] = Len(swarmTasks) + 1]

(* Timers of one delay fire in the order the tasks came. *)
InOrder(n, done(_)) == \A m \in 1..(n - 1) : done(swarmTasks[m])

IsAdvanced(task) == task.advanced
IsCompleted(task) == task.status = "COMPLETED"

(* The timer of 600 ms. *)
Advance(n) ==
    /\ ~swarmTasks[n].advanced
    /\ InOrder(n, IsAdvanced)
    /\ swarmTasks' = [swarmTasks EXCEPT ![n].progress = 68, ![n].advanced = TRUE]
    /\ UNCHANGED activeTask

(* Mutant: the completion frees the agent the task was assigned to. *)
FreedAssigned(n) == {swarmTasks[n].assignedAgent}

(* The timer of 1500 ms: the agents are those still busy with this task. *)
Freed(n) == {a \in Agents : activeTask[a] = n}

Complete(n) ==
    /\ swarmTasks[n].advanced
    /\ swarmTasks[n].status = "PROCESSING"
    /\ InOrder(n, IsCompleted)
    /\ swarmTasks' = [swarmTasks EXCEPT ![n].progress = 100, ![n].status = "COMPLETED"]
    /\ activeTask' = [a \in Agents |-> IF a \in Freed(n) THEN 0 ELSE activeTask[a]]

(* processSwarmTasks.  A task lives as long as the interval, so that one   *)
(* turn meets it.  A full progress would complete it and free the agent it *)
(* was assigned to, whatever that agent does by then.                      *)
Worked(task, added) ==
    IF task.status = "COMPLETED" THEN task
    ELSE IF task.progress + added >= 100
         THEN [task EXCEPT !.progress = 100, !.status = "COMPLETED", !.ticked = TRUE]
         ELSE [task EXCEPT !.progress = @ + added, !.ticked = TRUE]

ProcessTick(added) ==
    LET running == {n \in 1..Len(swarmTasks) : ~IsCompleted(swarmTasks[n])}
        filled == {n \in running : swarmTasks[n].progress + added >= 100}
    IN  /\ running # {}
        /\ \A n \in running : ~swarmTasks[n].ticked
        /\ swarmTasks' = [n \in 1..Len(swarmTasks) |-> Worked(swarmTasks[n], added)]
        /\ activeTask' = [a \in Agents |->
               IF \E n \in filled : swarmTasks[n].assignedAgent = a THEN 0 ELSE activeTask[a]]

SwarmNext ==
    \/ submitSwarmTask
    \/ \E n \in 1..Len(swarmTasks) : Advance(n)
    \/ \E n \in 1..Len(swarmTasks) : Complete(n)
    \/ \E added \in Increments : ProcessTick(added)

SwarmSpec == SwarmInit /\ [][SwarmNext]_swarmVars

-----------------------------------------------------------------------------
(* An agent is busy exactly with the last task it was given while that     *)
(* task runs, and idle otherwise: an older task that ends while its agent  *)
(* already has a newer one neither frees nor blocks the agent, and no      *)
(* agent stays busy with a task that is over.  Progress reaches 100 only   *)
(* at the completion (submitSwarmTask and processSwarmTasks).              *)
SwarmInv ==
    /\ \A a \in Agents :
           LET given == {n \in 1..Len(swarmTasks) : swarmTasks[n].assignedAgent = a}
               running == {n \in given : /\ \A m \in given : m <= n
                                         /\ ~IsCompleted(swarmTasks[n])}
           IN  activeTask[a] = IF running = {} THEN 0 ELSE CHOOSE n \in running : TRUE
    /\ \A n \in 1..Len(swarmTasks) : IsCompleted(swarmTasks[n]) <=> swarmTasks[n].progress = 100
=============================================================================
