-------------------------- MODULE MCCircularBuffer --------------------------
(***************************************************************************)
(* The two parts of lib/ that the others stand on, a CircularBuffer and a  *)
(* tree of Tasks.  They share no state, so a behaviour is about one of     *)
(* them and the other keeps its initial state.                             *)
(***************************************************************************)
EXTENDS CircularBuffer

CONSTANTS MaxTasks, MaxTimers, MaxPolls

VARIABLES
  about,  \* the part this behaviour is about
  made, parent, settled, cancelled, timers, armed, told, race, poll

T == INSTANCE Task

ASSUME TaskConstants == T!TaskAssumption

taskVars == <<made, parent, settled, cancelled, timers, armed, told, race, poll>>

LibInit ==
  /\ about \in {"buffer", "tasks"}
  /\ Init
  /\ T!Init

LibNext ==
  /\ \/ about = "buffer" /\ Next /\ UNCHANGED taskVars
     \/ about = "tasks" /\ T!Next /\ UNCHANGED vars
  /\ UNCHANGED about

\* No step of Task's fairness is possible before its first.
LibSpec == LibInit /\ [][LibNext]_<<vars, taskVars, about>> /\ T!Fairness
-----------------------------------------------------------------------------
\* Every variable of Task has its type, and a task that says it is cancelled has
\* settled its promise, so that whoever waits for it wakes up: a poll tests the one,
\* its jobs wait for the other (isCancelled and handle of Task.ts).
CancelledIsSettled == T!TypeOK /\ T!CancelledIsSettled

\* A wrap that is over leaves no timer behind that would cancel its task: race of
\* Task.ts cleans up, for a task with one deadline.
NoTimerAfterRace == T!NoTimerAfterRace

\* Every subtask of a settled task settles too, however its parent was settled:
\* subtask of Task.ts, through finally.
SubtasksFollow == T!SubtasksFollow

\* Each poll of a task (Task.ts) ends once the task is cancelled, if its pulls return:
\* also when the other poll of the same task was the one to cancel it.
PollsEnd == T!PollsEnd
=============================================================================
