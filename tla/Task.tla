------------------------------- MODULE Task -------------------------------
(***************************************************************************)
(* Tasks (lib/Task.ts): a promise that cancel, cleanup or a timer settles  *)
(* once, a note of the cancellation that isCancelled reads, timers,        *)
(* subtasks, the race of wrap and the loop of poll.                        *)
(***************************************************************************)
EXTENDS Naturals

CONSTANTS
  MaxTasks,   \* bound: tasks, the first and its subtasks
  MaxTimers,  \* bound: calls of deadline on a task
  MaxPolls    \* bound: calls of poll

TaskAssumption ==
  MaxTasks \in Nat \ {0} /\ MaxTimers \in Nat /\ MaxPolls \in Nat

Tasks == 1 .. MaxTasks
Polls == 1 .. MaxPolls

\* Why a task was settled or cancelled, as far as anyone tells them apart: "user" is
\* a call of cancel by the program or, for a pull that gives a reason, by poll.
Reasons == {"user", "cleanup", "timeout", "parent"}
None == "none"

VARIABLES
  made,       \* tasks created so far
  parent,     \* the task a subtask was made from, 0 for the first
  settled,    \* what the promise resolved with
  cancelled,  \* what isCancelled() returns
  timers,     \* calls of deadline on a task
  armed,      \* the timers that have not fired and were not cleared
  told,       \* subtasks whose parent's finally has run
  race,       \* race of a wrap: no, waiting, value (the promise has it), over
  poll        \* the polls in the order of the calls, each with its task and where it
              \* is: no, testing, pulling, over

taskVars == <<made, parent, settled, cancelled, timers, armed, told, race, poll>>

Init ==
  /\ made = 1
  /\ parent = [t \in Tasks |-> 0]
  /\ settled = [t \in Tasks |-> None]
  /\ cancelled = [t \in Tasks |-> None]
  /\ timers = [t \in Tasks |-> 0]
  /\ armed = [t \in Tasks |-> {}]
  /\ told = {}
  /\ race = [t \in Tasks |-> "no"]
  /\ poll = [p \in Polls |-> [of |-> 0, at |-> "no"]]

Made == 1 .. made
-----------------------------------------------------------------------------
\* Variant: the reason is noted, and the promise left alone.
Cancel_NoteOnly(t, r) ==
  /\ cancelled' = [cancelled EXCEPT ![t] = r]
  /\ UNCHANGED settled

\* cancel: the note is overwritten, the promise resolves if it has not.
Cancel(t, r) ==
  /\ cancelled' = [cancelled EXCEPT ![t] = r]
  /\ settled' = [settled EXCEPT ![t] = IF @ = None THEN r ELSE @]

\* Variant: the timer is forgotten, not cleared.
Cleanup_KeepsTimer(t) ==
  /\ settled' = [settled EXCEPT ![t] = IF @ = None THEN "cleanup" ELSE @]
  /\ UNCHANGED armed

\* cleanup: the promise resolves, the task is not cancelled; handles.timeout
\* has the last timer only.
Cleanup(t) ==
  /\ settled' = [settled EXCEPT ![t] = IF @ = None THEN "cleanup" ELSE @]
  /\ armed' = [armed EXCEPT ![t] = @ \ {timers[t]}]

\* cancel from outside, of a task in any state.
UserCancels(t) ==
  /\ Cancel(t, "user")
  /\ UNCHANGED <<made, parent, timers, armed, told, race, poll>>

\* cleanup from outside.
UserCleansUp(t) ==
  /\ Cleanup(t)
  /\ UNCHANGED <<made, parent, cancelled, timers, told, race, poll>>

\* deadline: called on a fresh task or on the handle of its wrap.
Deadline(t) ==
  /\ timers[t] < MaxTimers
  /\ race[t] # "over"
  /\ settled[t] = None
  /\ timers' = [timers EXCEPT ![t] = @ + 1]
  /\ armed' = [armed EXCEPT ![t] = @ \cup {timers[t] + 1}]
  /\ UNCHANGED <<made, parent, settled, cancelled, told, race, poll>>

TimerFires(t, k) ==
  /\ k \in armed[t]
  /\ armed' = [armed EXCEPT ![t] = @ \ {k}]
  /\ Cancel(t, "timeout")
  /\ UNCHANGED <<made, parent, timers, told, race, poll>>

\* subtask: the parent may be settled by now.
Subtask(p) ==
  /\ made < MaxTasks
  /\ made' = made + 1
  /\ parent' = [parent EXCEPT ![made + 1] = p]
  /\ UNCHANGED <<settled, cancelled, timers, armed, told, race, poll>>

\* Variant: a subtask follows a parent that was cancelled only.
FollowParent_IfCancelled(t) ==
  /\ parent[t] # 0
  /\ t \notin told
  /\ cancelled[parent[t]] # None
  /\ told' = told \cup {t}
  /\ Cancel(t, "parent")
  /\ UNCHANGED <<made, parent, timers, armed, race, poll>>

\* finally of the parent's promise, however it was settled, and of a subtask
\* that is settled itself too.
FollowParent(t) ==
  /\ parent[t] # 0
  /\ t \notin told
  /\ settled[parent[t]] # None
  /\ told' = told \cup {t}
  /\ Cancel(t, "parent")
  /\ UNCHANGED <<made, parent, timers, armed, race, poll>>
-----------------------------------------------------------------------------
(***************************************************************************)
(* wrap and race: the first of the task's promise and the value decides,   *)
(* and the task is cleaned up.                                             *)
(***************************************************************************)
Wrap(t) ==
  /\ race[t] = "no"
  /\ race' = [race EXCEPT ![t] = "waiting"]
  /\ UNCHANGED <<made, parent, settled, cancelled, timers, armed, told, poll>>

ValueComes(t) ==
  /\ race[t] = "waiting"
  /\ settled[t] = None
  /\ race' = [race EXCEPT ![t] = "value"]
  /\ UNCHANGED <<made, parent, settled, cancelled, timers, armed, told, poll>>

RaceEnds(t) ==
  /\ race[t] = "value" \/ (race[t] = "waiting" /\ settled[t] # None)
  /\ race' = [race EXCEPT ![t] = "over"]
  /\ Cleanup(t)
  /\ UNCHANGED <<made, parent, cancelled, timers, told, poll>>
-----------------------------------------------------------------------------
(***************************************************************************)
(* poll: test, pull, and again.  A session's stream and listen poll the    *)
(* same task.                                                              *)
(***************************************************************************)
Poll(t, p) ==
  /\ poll[p].at = "no"
  /\ \A q \in 1 .. p - 1 : poll[q].at # "no"
  /\ poll' = [poll EXCEPT ![p] = [of |-> t, at |-> "testing"]]
  /\ UNCHANGED <<made, parent, settled, cancelled, timers, armed, told, race>>

\* Variant: the loop goes on until a pull says so.
PollTests_Not(p) ==
  /\ poll[p].at = "testing"
  /\ poll' = [poll EXCEPT ![p].at = "pulling"]
  /\ UNCHANGED <<made, parent, settled, cancelled, timers, armed, told, race>>

PollTests(p) ==
  /\ poll[p].at = "testing"
  /\ poll' = [poll EXCEPT ![p].at = IF cancelled[poll[p].of] = None THEN "pulling" ELSE "over"]
  /\ UNCHANGED <<made, parent, settled, cancelled, timers, armed, told, race>>

\* The pull gives true, or a result with a value.
PullGoesOn(p) ==
  /\ poll[p].at = "pulling"
  /\ poll' = [poll EXCEPT ![p].at = "testing"]
  /\ UNCHANGED <<made, parent, settled, cancelled, timers, armed, told, race>>

\* The pull gives false, or a job throws because the task is settled, or the pull
\* rejects and poll with it.
PullIsLast(p) ==
  /\ poll[p].at = "pulling"
  /\ poll' = [poll EXCEPT ![p].at = "over"]
  /\ UNCHANGED <<made, parent, settled, cancelled, timers, armed, told, race>>

\* The pull gives a result with a reason: poll cancels its own task.
PullFails(p) ==
  /\ poll[p].at = "pulling"
  /\ poll' = [poll EXCEPT ![p].at = "testing"]
  /\ Cancel(poll[p].of, "user")
  /\ UNCHANGED <<made, parent, timers, armed, told, race>>

Next ==
  \/ \E t \in Made :
       \/ UserCancels(t) \/ UserCleansUp(t) \/ Deadline(t) \/ Subtask(t)
       \/ FollowParent(t)
       \/ \E k \in 1 .. MaxTimers : TimerFires(t, k)
       \/ Wrap(t) \/ ValueComes(t) \/ RaceEnds(t)
       \/ \E p \in Polls : Poll(t, p)
  \/ \E p \in Polls : PollTests(p) \/ PullGoesOn(p) \/ PullIsLast(p) \/ PullFails(p)

Spec == Init /\ [][Next]_taskVars

\* Callbacks of promises run, and a pull returns.
Fairness ==
  /\ \A t \in Tasks :
       /\ WF_taskVars(FollowParent(t))
       /\ WF_taskVars(RaceEnds(t))
  /\ \A p \in Polls :
       /\ WF_taskVars(PollTests(p))
       /\ WF_taskVars(PullGoesOn(p) \/ PullIsLast(p) \/ PullFails(p))

FairSpec == Spec /\ Fairness
-----------------------------------------------------------------------------
\* Every variable has its type, and being cleaned up is no reason that isCancelled
\* (Task.ts) gives.
TypeOK ==
  /\ made \in Tasks
  /\ parent \in [Tasks -> 0 .. MaxTasks]
  /\ settled \in [Tasks -> Reasons \cup {None}]
  /\ cancelled \in [Tasks -> (Reasons \ {"cleanup"}) \cup {None}]
  /\ timers \in [Tasks -> 0 .. MaxTimers]
  /\ armed \in [Tasks -> SUBSET (1 .. MaxTimers)]
  /\ told \subseteq Tasks
  /\ race \in [Tasks -> {"no", "waiting", "value", "over"}]
  /\ poll \in [Polls -> [of : 0 .. MaxTasks, at : {"no", "testing", "pulling", "over"}]]
  /\ \A p \in Polls : poll[p].of = 0 <=> poll[p].at = "no"

\* A task that says it is cancelled has settled its promise, so that whoever
\* waits for it wakes up (a poll tests the one, its jobs wait for the other).
CancelledIsSettled ==
  \A t \in Tasks : cancelled[t] # None => settled[t] # None

\* A wrap that is over leaves no timer behind that would cancel its task (race
\* cleans up), for a task with one deadline.
NoTimerAfterRace ==
  \A t \in Tasks : race[t] = "over" => armed[t] = {}

\* Every subtask of a settled task settles (subtask, through finally).
SubtasksFollow ==
  \A t \in Tasks :
    (parent[t] # 0 /\ settled[parent[t]] # None) ~> settled[t] # None

\* Each poll of a task ends once the task is cancelled, if its pulls return.
PollsEnd ==
  \A p \in Polls :
    (poll[p].of # 0 /\ cancelled[poll[p].of] # None) ~> poll[p].at = "over"

\* "Cannot cancel if already cleaned up" (Task.test.ts): a task that was cleaned
\* up does not say later that it is cancelled.
CleanedUpIsNotCancelled ==
  [][\A t \in Tasks :
       (settled[t] = "cleanup" /\ cancelled[t] = None) => cancelled'[t] = None]_taskVars
=============================================================================
