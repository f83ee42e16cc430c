----------------------------- MODULE TaskProofs -----------------------------
(***************************************************************************)
(* Proofs about Task, for every number of tasks and of deadlines: its      *)
(* types, that a cancelled task has settled its promise, and which timers  *)
(* a wrap leaves behind.  Task is reached as the instance T, with the      *)
(* variables of MCCircularBuffer.                                          *)
(***************************************************************************)
EXTENDS MCCircularBuffer, TLAPS

\* The timers of a task are numbered in the order of the calls of deadline.
TimersNumbered == \A t \in T!Tasks : armed[t] \subseteq 1 .. timers[t]

\* What cleanup left: the last timer is gone, and no new one may come.
LastTimerGone ==
  \A t \in T!Tasks : race[t] = "over" => timers[t] \notin armed[t]

TInv == T!TypeOK /\ T!CancelledIsSettled /\ TimersNumbered /\ LastTimerGone

-----------------------------------------------------------------------------
LEMMA TaskInit == T!Init => TInv
<1> SUFFICES ASSUME T!Init PROVE TInv
  OBVIOUS
<1>1. MaxTasks \in Nat \ {0} /\ MaxTimers \in Nat
  BY TaskConstants DEF T!TaskAssumption
<1>2. T!TypeOK
  BY <1>1 DEF T!Init, T!TypeOK, T!Tasks, T!Reasons, T!None
<1> QED
  BY <1>2 DEF T!Init, TInv, T!CancelledIsSettled, TimersNumbered, LastTimerGone

\* cancel, in every action that calls it: the note and the promise.
LEMMA CancelKeeps ==
  ASSUME TInv, NEW t \in T!Tasks, NEW r \in T!Reasons \ {"cleanup"}, T!Cancel(t, r)
  PROVE  /\ settled' \in [T!Tasks -> T!Reasons \cup {T!None}]
         /\ cancelled' \in [T!Tasks -> (T!Reasons \ {"cleanup"}) \cup {T!None}]
         /\ T!CancelledIsSettled'
<1>1. /\ settled \in [T!Tasks -> T!Reasons \cup {T!None}]
      /\ cancelled \in [T!Tasks -> (T!Reasons \ {"cleanup"}) \cup {T!None}]
      /\ r # T!None
  BY DEF TInv, T!TypeOK, T!Reasons, T!None
<1>2. /\ cancelled' = [cancelled EXCEPT ![t] = r]
      /\ settled' = [settled EXCEPT ![t] = IF @ = T!None THEN r ELSE @]
  BY DEF T!Cancel
<1> QED
  BY <1>1, <1>2 DEF TInv, T!CancelledIsSettled

\* cleanup, in every action that calls it: the promise and the last timer.
LEMMA CleanupKeeps ==
  ASSUME TInv, NEW t \in T!Tasks, T!Cleanup(t), UNCHANGED <<cancelled, timers>>
  PROVE  /\ settled' \in [T!Tasks -> T!Reasons \cup {T!None}]
         /\ armed' \in [T!Tasks -> SUBSET (1 .. MaxTimers)]
         /\ T!CancelledIsSettled'
         /\ \A u \in T!Tasks : armed'[u] \subseteq armed[u]
         /\ timers'[t] \notin armed'[t]
<1>1. /\ settled \in [T!Tasks -> T!Reasons \cup {T!None}]
      /\ armed \in [T!Tasks -> SUBSET (1 .. MaxTimers)]
  BY DEF TInv, T!TypeOK
<1>2. /\ settled' = [settled EXCEPT ![t] = IF @ = T!None THEN "cleanup" ELSE @]
      /\ armed' = [armed EXCEPT ![t] = @ \ {timers[t]}]
  BY DEF T!Cleanup
<1>3. "cleanup" \in T!Reasons /\ "cleanup" # T!None
  BY DEF T!Reasons, T!None
<1>4. T!CancelledIsSettled'
  BY <1>1, <1>2, <1>3 DEF TInv, T!CancelledIsSettled
<1> QED
  BY <1>1, <1>2, <1>3, <1>4
-----------------------------------------------------------------------------
\* Every step, action by action.
LEMMA TaskStep == TInv /\ [T!Next]_taskVars => TInv'
<1> SUFFICES ASSUME TInv, [T!Next]_taskVars PROVE TInv'
  OBVIOUS
<1> USE DEF TInv, T!TypeOK, T!CancelledIsSettled, TimersNumbered, LastTimerGone
<1>1. MaxTasks \in Nat \ {0} /\ MaxTimers \in Nat /\ T!Tasks = 1 .. MaxTasks
  BY TaskConstants DEF T!TaskAssumption, T!Tasks
<1>2. \A t \in T!Made : t \in T!Tasks
  BY <1>1 DEF T!Made
<1>3. ASSUME NEW t \in T!Tasks, T!UserCancels(t) PROVE TInv'
  BY <1>3, CancelKeeps DEF T!UserCancels, T!Reasons
<1>4. ASSUME NEW t \in T!Tasks, T!UserCleansUp(t) PROVE TInv'
  BY <1>4, CleanupKeeps DEF T!UserCleansUp
<1>5. ASSUME NEW t \in T!Tasks, T!Deadline(t) PROVE TInv'
  <2>1. /\ timers[t] + 1 \in 1 .. MaxTimers /\ timers[t] \in Nat
        /\ race[t] # "over"
        /\ timers' = [timers EXCEPT ![t] = timers[t] + 1]
        /\ armed' = [armed EXCEPT ![t] = armed[t] \cup {timers[t] + 1}]
        /\ UNCHANGED <<made, parent, settled, cancelled, told, race, poll>>
    BY <1>1, <1>5 DEF T!Deadline
  <2>2. 1 .. timers[t] \subseteq 1 .. timers[t] + 1 /\ timers[t] + 1 \in 1 .. timers[t] + 1
    BY <2>1
  <2>3. T!TypeOK' /\ T!CancelledIsSettled'
    BY <1>1, <2>1
  <2>4. TimersNumbered'
    BY <2>1, <2>2
  <2>5. LastTimerGone'
    BY <2>1
  <2> QED
    BY <2>3, <2>4, <2>5
<1>6. ASSUME NEW t \in T!Tasks, NEW k \in 1 .. MaxTimers, T!TimerFires(t, k) PROVE TInv'
  BY <1>6, CancelKeeps DEF T!TimerFires, T!Reasons
<1>7. ASSUME NEW p \in T!Tasks, T!Subtask(p) PROVE TInv'
  BY <1>1, <1>7 DEF T!Subtask
<1>8. ASSUME NEW t \in T!Tasks, T!FollowParent(t) PROVE TInv'
  BY <1>8, CancelKeeps DEF T!FollowParent, T!Reasons
<1>9. ASSUME NEW t \in T!Tasks, T!Wrap(t) \/ T!ValueComes(t) PROVE TInv'
  BY <1>9 DEF T!Wrap, T!ValueComes
<1>10. ASSUME NEW t \in T!Tasks, T!RaceEnds(t) PROVE TInv'
  BY <1>10, CleanupKeeps DEF T!RaceEnds
<1>11. ASSUME NEW t \in T!Tasks, NEW p \in T!Polls, T!Poll(t, p)
       PROVE  TInv'
  <2>1. /\ poll' = [poll EXCEPT ![p] = [of |-> t, at |-> "testing"]]
        /\ UNCHANGED <<made, parent, settled, cancelled, timers, armed, told, race>>
    BY <1>11 DEF T!Poll
  <2>2. t \in 1 .. MaxTasks /\ t # 0
    BY <1>1
  <2> QED
    BY <1>1, <2>1, <2>2
<1>12. ASSUME NEW p \in T!Polls, poll[p].at \in {"testing", "pulling"},
              NEW at \in {"testing", "pulling", "over"},
              poll' = [poll EXCEPT ![p].at = at]
       PROVE  /\ poll' \in [T!Polls -> [of : 0 .. MaxTasks,
                                         at : {"no", "testing", "pulling", "over"}]]
              /\ \A q \in T!Polls : poll'[q].of = 0 <=> poll'[q].at = "no"
              /\ poll[p].of \in T!Tasks
  BY <1>1, <1>12
<1>13. ASSUME NEW p \in T!Polls, T!PollTests(p) \/ T!PullGoesOn(p) \/ T!PullIsLast(p)
       PROVE  TInv'
  <2>1. /\ poll[p].at \in {"testing", "pulling"}
        /\ \E at \in {"testing", "pulling", "over"} : poll' = [poll EXCEPT ![p].at = at]
        /\ UNCHANGED <<made, parent, settled, cancelled, timers, armed, told, race>>
    BY <1>13 DEF T!PollTests, T!PullGoesOn, T!PullIsLast
  <2> QED
    BY <1>12, <2>1
<1>14. ASSUME NEW p \in T!Polls, T!PullFails(p) PROVE TInv'
  <2>1. /\ poll[p].at \in {"testing", "pulling"}
        /\ poll' = [poll EXCEPT ![p].at = "testing"]
        /\ T!Cancel(poll[p].of, "user")
        /\ UNCHANGED <<made, parent, timers, armed, told, race>>
    BY <1>14 DEF T!PullFails
  <2>2. /\ poll' \in [T!Polls -> [of : 0 .. MaxTasks,
                                   at : {"no", "testing", "pulling", "over"}]]
        /\ \A q \in T!Polls : poll'[q].of = 0 <=> poll'[q].at = "no"
        /\ poll[p].of \in T!Tasks
    BY <1>12, <2>1
  <2> QED
    BY <2>1, <2>2, CancelKeeps DEF T!Reasons
<1>15. CASE UNCHANGED taskVars
  BY <1>15 DEF taskVars
<1> QED
  BY <1>2, <1>3, <1>4, <1>5, <1>6, <1>7, <1>8, <1>9, <1>10, <1>11, <1>13, <1>14, <1>15
     DEF T!Next

\* The buffer of the composition does not take part.
LEMMA LibInvariant == LibSpec => []TInv
<1>1. LibInit => TInv
  BY TaskInit DEF LibInit
<1>2. TInv /\ [LibNext]_<<vars, taskVars, about>> => TInv'
  <2> SUFFICES ASSUME TInv, [LibNext]_<<vars, taskVars, about>>
               PROVE  [T!Next]_taskVars
    BY TaskStep
  <2> QED
    BY DEF LibNext
<1> QED
  BY <1>1, <1>2, PTL DEF LibSpec
-----------------------------------------------------------------------------
\* For any number of tasks: a task that says it is cancelled has settled its promise
\* (cancel of Task.ts sets both), so that whoever waits for the promise wakes up.
THEOREM CancelledTasksAreSettled == LibSpec => []CancelledIsSettled
<1>1. TInv => CancelledIsSettled
  BY DEF TInv, CancelledIsSettled
<1> QED
  BY <1>1, LibInvariant, PTL

\* The timers that may still fire when a wrap is over are those of the deadlines
\* before the last: cleanup of Task.ts clears handles.timeout, which a second call of
\* deadline overwrites.
OnlyEarlierTimers ==
  \A t \in T!Tasks : race[t] = "over" => armed[t] \subseteq 1 .. timers[t] - 1

\* It holds for any number of deadlines.
THEOREM RaceClearsTheLastTimer == LibSpec => []OnlyEarlierTimers
<1>1. TInv => OnlyEarlierTimers
  <2> SUFFICES ASSUME TInv, NEW t \in T!Tasks, race[t] = "over", NEW k \in armed[t]
               PROVE  k \in 1 .. timers[t] - 1
    BY DEF OnlyEarlierTimers
  <2>1. timers[t] \in Nat /\ k \in 1 .. timers[t] /\ k # timers[t]
    BY TaskConstants DEF TInv, T!TypeOK, TimersNumbered, LastTimerGone, T!TaskAssumption
  <2> QED
    BY <2>1
<1> QED
  BY <1>1, LibInvariant, PTL

\* A task with at most one deadline, which is what every caller in src/ gives it, keeps
\* no timer once its wrap is over (race of Task.ts).
THEOREM RaceLeavesNoTimer ==
  ASSUME MaxTimers <= 1
  PROVE  LibSpec => []NoTimerAfterRace
<1>1. TInv => NoTimerAfterRace
  <2> SUFFICES ASSUME TInv, NEW t \in T!Tasks, race[t] = "over", NEW k \in armed[t]
               PROVE  FALSE
    BY DEF NoTimerAfterRace, T!NoTimerAfterRace
  <2>1. timers[t] \in 0 .. MaxTimers /\ k \in 1 .. timers[t] /\ k # timers[t]
    BY DEF TInv, T!TypeOK, TimersNumbered, LastTimerGone
  <2>2. MaxTimers \in Nat
    BY TaskConstants DEF T!TaskAssumption
  <2> QED
    BY <2>1, <2>2
<1> QED
  BY <1>1, LibInvariant, PTL
=============================================================================
