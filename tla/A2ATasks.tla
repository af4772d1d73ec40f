------------------------------ MODULE A2ATasks ------------------------------
\* Tasks of the agent-to-agent protocol (internal/a2a): JSON-RPC requests to send,
\* get and cancel a task, each a read of the row and perhaps one statement after
\* it.  A task's id is the caller's, or new; messages are left out.
EXTENDS Naturals, FiniteSets

CONSTANTS
    A2AAgents,  \* requests that may be under way at a time
    TaskIDs

VARIABLES
    a2aTask,    \* a2a_tasks: the status of a task, "none" where there is no row
    a2aAgent,   \* what each request is at
    accepted,   \* how often each task was accepted as new
    reopened    \* tasks that were told to be under way by a request that began after their cancellation

a2aVars == <<a2aTask, a2aAgent, accepted, reopened>>

NoA2A == [pc |-> "idle", task |-> "none", canceled |-> FALSE]

A2AInit ==
    /\ a2aTask = [t \in TaskIDs |-> "none"]
    /\ a2aAgent = [a \in A2AAgents |-> NoA2A]
    /\ accepted = [t \in TaskIDs |-> 0]
    /\ reopened = {}

Ending(a) == a2aAgent' = [a2aAgent EXCEPT ![a] = NoA2A]
At(a, pc) == a2aAgent[a].pc = pc

Terminal == {"completed", "failed", "canceled"}

\* HandleJSONRPC, to one of the three methods.
HandleJSONRPC(a, method) ==
    /\ At(a, "idle")
    /\ \E t \in TaskIDs :
          a2aAgent' = [a2aAgent EXCEPT ![a] =
             [pc |-> method, task |-> t, canceled |-> a2aTask[t] = "canceled"]]
    /\ UNCHANGED <<a2aTask, accepted, reopened>>

\* HandleTaskSend: a task that is there is told as it is, unless it has ended.
SendReads(a) ==
    LET t == a2aAgent[a].task
    IN  /\ At(a, "tasks/send")
        /\ IF a2aTask[t] = "none"
           THEN a2aAgent' = [a2aAgent EXCEPT ![a].pc = "insert"] /\ UNCHANGED reopened
           ELSE /\ Ending(a)
                /\ reopened' = reopened \cup {u \in {t} : a2aTask[t] \notin Terminal /\ a2aAgent[a].canceled}
        /\ UNCHANGED <<a2aTask, accepted>>

BuggyCreateNewTask(a) ==  \* a row that is there is written over
    /\ At(a, "insert")
    /\ a2aTask' = [a2aTask EXCEPT ![a2aAgent[a].task] = "submitted"]
    /\ accepted' = [accepted EXCEPT ![a2aAgent[a].task] = @ + 1]
    /\ Ending(a)
    /\ UNCHANGED reopened

\* createNewTask, with a policy that is valid; the id is unique.
CreateNewTask(a) ==
    /\ At(a, "insert") /\ a2aTask[a2aAgent[a].task] = "none"
    /\ a2aTask' = [a2aTask EXCEPT ![a2aAgent[a].task] = "submitted"]
    /\ accepted' = [accepted EXCEPT ![a2aAgent[a].task] = @ + 1]
    /\ Ending(a)
    /\ UNCHANGED reopened

\* GetTaskStatus.
GetTaskStatus(a) ==
    LET t == a2aAgent[a].task
    IN  /\ At(a, "tasks/get") /\ a2aTask[t] # "none"
        /\ Ending(a)
        /\ reopened' = reopened \cup {u \in {t} : a2aTask[t] \notin Terminal /\ a2aAgent[a].canceled}
        /\ UNCHANGED <<a2aTask, accepted>>

\* CancelTask: the row is read, and written whatever it says by then; two that
\* cancel one task may both succeed.
CancelReads(a) ==
    /\ At(a, "tasks/cancel") /\ a2aTask[a2aAgent[a].task] \notin Terminal \cup {"none"}
    /\ a2aAgent' = [a2aAgent EXCEPT ![a].pc = "cancel"]
    /\ UNCHANGED <<a2aTask, accepted, reopened>>

CancelTask(a) ==
    /\ At(a, "cancel")
    /\ a2aTask' = [a2aTask EXCEPT ![a2aAgent[a].task] = "canceled"]
    /\ Ending(a)
    /\ UNCHANGED <<accepted, reopened>>

\* An error: no such task, an ended one, a policy that is not valid, a duplicate,
\* a failing statement.
A2AFails(a) ==
    /\ ~At(a, "idle")
    /\ Ending(a)
    /\ UNCHANGED <<a2aTask, accepted, reopened>>

A2ANext ==
    \E a \in A2AAgents :
        \/ \E method \in {"tasks/send", "tasks/get", "tasks/cancel"} : HandleJSONRPC(a, method)
        \/ SendReads(a) \/ CreateNewTask(a) \/ GetTaskStatus(a)
        \/ CancelReads(a) \/ CancelTask(a) \/ A2AFails(a)

A2ASpec == A2AInit /\ [][A2ANext]_a2aVars

-----------------------------------------------------------------------------
\* Properties.

\* A task is accepted as new once, though requests to send it race, and one that
\* was canceled is never told to be under way to a request that came later
\* (createNewTask, CancelTask).
TaskAcceptedOnce ==
    /\ \A t \in TaskIDs : accepted[t] <= 1
    /\ reopened = {}
=============================================================================
