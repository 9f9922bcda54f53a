--------------------------- MODULE SchedulerProofs ---------------------------
(***************************************************************************)
(* Proofs about module Scheduler, for every size of the table, every set   *)
(* of intervals asked for and every bound on the delay of the thread.      *)
(***************************************************************************)
EXTENDS Scheduler, SequenceTheorems, TLAPS

-----------------------------------------------------------------------------
(* The inductive invariant.                                                *)

\* The mutex is the thread's from the lock to the unlock of a pass.
HeldInv == held <=> thread \in {"scan", "fork"}

\* The loop stays in the table.
CursorInv == thread \in {"scan", "fork"} => cursor <= Len(tasks) + 1

\* A task is at most MaxLag seconds older than its last launch shows.
AgeInv == \A i \in 1..Len(tasks) : tasks[i].age <= quiet[i] + MaxLag

\* The task about to be run has just been marked, and was due when it was.
ForkInv ==
  thread = "fork" =>
    /\ tasks[cursor].age = lag
    /\ quiet[cursor] + MaxLag >= tasks[cursor].interval

IInv ==
  /\ TypeOK
  /\ HeldInv
  /\ CursorInv
  /\ AgeInv
  /\ ForkInv
  /\ ForksOnlyRunnable
  /\ IdsNeverReused
  /\ NothingRunsAfterFree

-----------------------------------------------------------------------------
(* Tasks and tables of tasks.                                              *)

LEMMA IntervalsPositive == Intervals \subseteq Nat \ {0}
BY DEF Intervals, Accepted

LEMMA TaskFields ==
  ASSUME NEW t
  PROVE  t \in Task <=>
           /\ t \in [id : Nat \ {0}, interval : Intervals, age : Nat,
                     active : BOOLEAN, paused : BOOLEAN]
           /\ t.age <= t.interval + MaxLag
BY DEF Task, AgeLimit

\* A change of one field of one task keeps a table a table.
LEMMA TableExcept ==
  ASSUME tasks \in Seq(Task), NEW i \in 1..Len(tasks), NEW t \in Task,
         tasks' = [tasks EXCEPT ![i] = t]
  PROVE  /\ tasks' \in Seq(Task)
         /\ Len(tasks') = Len(tasks)
         /\ DOMAIN tasks' = 1..Len(tasks)
         /\ tasks'[i] = t
         /\ \A j \in 1..Len(tasks) : j # i => tasks'[j] = tasks[j]
BY ExceptSeq, LenProperties

LEMMA Typed ==
  ASSUME TypeOK
  PROVE  /\ DOMAIN tasks = 1..Len(tasks)
         /\ Len(tasks) \in Nat
         /\ \A i \in 1..Len(tasks) : /\ tasks[i] \in Task
                                     /\ tasks[i].id \in Nat \ {0}
                                     /\ tasks[i].interval \in Nat \ {0}
                                     /\ tasks[i].age \in Nat
                                     /\ tasks[i].active \in BOOLEAN
                                     /\ tasks[i].paused \in BOOLEAN
                                     /\ tasks[i].age <= tasks[i].interval + MaxLag
                                     /\ quiet[i] \in Nat
<1>1. tasks \in Seq(Task) /\ quiet \in Seq(Nat) /\ Len(quiet) = Len(tasks)
  BY DEF TypeOK
<1>2. /\ DOMAIN tasks = 1..Len(tasks)
      /\ Len(tasks) \in Nat
      /\ \A i \in 1..Len(tasks) : tasks[i] \in Task /\ quiet[i] \in Nat
  BY <1>1, LenProperties, ElementOfSeq
<1>3. ASSUME NEW i \in 1..Len(tasks)
      PROVE  /\ tasks[i] \in Task
             /\ tasks[i].id \in Nat \ {0}
             /\ tasks[i].interval \in Nat \ {0}
             /\ tasks[i].age \in Nat
             /\ tasks[i].active \in BOOLEAN
             /\ tasks[i].paused \in BOOLEAN
             /\ tasks[i].age <= tasks[i].interval + MaxLag
             /\ quiet[i] \in Nat
  <2>1. tasks[i] \in Task /\ quiet[i] \in Nat
    BY <1>2
  <2>2. /\ tasks[i] \in [id : Nat \ {0}, interval : Intervals, age : Nat,
                         active : BOOLEAN, paused : BOOLEAN]
        /\ tasks[i].age <= tasks[i].interval + MaxLag
    BY <2>1, TaskFields
  <2>3. /\ tasks[i].id \in Nat \ {0}
        /\ tasks[i].interval \in Nat \ {0}
        /\ tasks[i].age \in Nat
    BY <2>2, IntervalsPositive
  <2>4. tasks[i].active \in BOOLEAN /\ tasks[i].paused \in BOOLEAN
    BY <2>2
  <2> QED
    BY <2>1, <2>2, <2>3, <2>4, Zenon
<1> QED
  BY <1>2, <1>3, Zenon

LEMMA InitIInv == Init => IInv
<1> SUFFICES ASSUME Init PROVE IInv
  OBVIOUS
<1>1. /\ tasks = <<>> /\ quiet = <<>> /\ nextId = 1 /\ running = TRUE /\ held = FALSE
      /\ thread = "test" /\ cursor = 1 /\ lag = 0 /\ main = "up" /\ launched = 0
      /\ refused = FALSE
  BY DEF Init
<1>2. tasks \in Seq(Task) /\ Len(tasks) = 0
  BY <1>1, EmptySeq
<1>3. quiet \in Seq(Nat) /\ Len(quiet) = 0
  BY <1>1, EmptySeq
<1>4. DOMAIN tasks = 1..0
  BY <1>2, LenProperties
<1>5. TypeOK
  <2>1. /\ 0 <= MaxTasks /\ 1 \in Nat \ {0} /\ 1 \in 1..(MaxTasks + 1)
        /\ 0 \in 0..MaxLag /\ 0 \in 0..MaxTasks
    BY SchedulerAssumption
  <2>2. "test" \in ThreadAt /\ "up" \in MainAt
    BY DEF ThreadAt, MainAt
  <2>3. tasks \in Seq(Task) /\ Len(tasks) <= MaxTasks /\ Len(quiet) = Len(tasks)
    BY <1>2, <1>3, <2>1
  <2>4. /\ nextId \in Nat \ {0} /\ thread \in ThreadAt /\ cursor \in 1..(MaxTasks + 1)
        /\ lag \in 0..MaxLag /\ main \in MainAt /\ launched \in 0..MaxTasks
        /\ running \in BOOLEAN /\ held \in BOOLEAN /\ refused \in BOOLEAN
    BY <1>1, <2>1, <2>2
  <2> QED
    BY <1>3, <2>3, <2>4 DEF TypeOK
<1>6. HeldInv /\ CursorInv /\ ForkInv /\ ForksOnlyRunnable /\ NothingRunsAfterFree
  BY <1>1 DEF HeldInv, CursorInv, ForkInv, ForksOnlyRunnable, NothingRunsAfterFree
<1>7. AgeInv /\ IdsNeverReused
  BY <1>2, <1>4 DEF AgeInv, IdsNeverReused
<1> QED
  BY <1>5, <1>6, <1>7 DEF IInv

-----------------------------------------------------------------------------
(* One lemma per kind of step.                                             *)

\* A second makes every task and every silence one older, up to their limits.
LEMMA TickEach ==
  ASSUME TypeOK, AgeInv, Tick, NEW i \in 1..Len(tasks)
  PROVE  /\ tasks'[i] = [tasks[i] EXCEPT !.age = Older(@, AgeLimit(tasks[i]))]
         /\ tasks'[i] \in Task
         /\ tasks'[i].id = tasks[i].id
         /\ tasks'[i].interval = tasks[i].interval
         /\ tasks'[i].active = tasks[i].active
         /\ tasks'[i].paused = tasks[i].paused
         /\ tasks'[i].age = Older(tasks[i].age, tasks[i].interval + MaxLag)
         /\ quiet'[i] = Older(quiet[i], tasks[i].interval)
         /\ quiet'[i] \in Nat
         /\ tasks'[i].age <= quiet'[i] + MaxLag
<1> DEFINE t == tasks[i]
<1>1. /\ t \in [id : Nat \ {0}, interval : Intervals, age : Nat,
                active : BOOLEAN, paused : BOOLEAN]
      /\ t.age <= t.interval + MaxLag
      /\ t.interval \in Nat \ {0}
      /\ quiet[i] \in Nat
      /\ t.age <= quiet[i] + MaxLag
      /\ i \in DOMAIN tasks
      /\ MaxLag \in Nat
  BY Typed, TaskFields, SchedulerAssumption DEF AgeInv
<1>2. /\ tasks'[i] = [t EXCEPT !.age = Older(t.age, t.interval + MaxLag)]
      /\ quiet'[i] = Older(quiet[i], t.interval)
  BY <1>1 DEF Tick, AgeLimit
<1>3. /\ Older(t.age, t.interval + MaxLag) \in Nat
      /\ Older(t.age, t.interval + MaxLag) <= t.interval + MaxLag
      /\ Older(quiet[i], t.interval) \in Nat
      /\ Older(t.age, t.interval + MaxLag) <= Older(quiet[i], t.interval) + MaxLag
  BY <1>1, SMTT(60) DEF Older
<1>4. /\ tasks'[i] \in [id : Nat \ {0}, interval : Intervals, age : Nat,
                        active : BOOLEAN, paused : BOOLEAN]
      /\ tasks'[i].age = Older(t.age, t.interval + MaxLag)
      /\ tasks'[i].id = t.id
      /\ tasks'[i].interval = t.interval
      /\ tasks'[i].active = t.active
      /\ tasks'[i].paused = t.paused
  BY <1>1, <1>2, <1>3
<1>5. tasks'[i] \in Task
  BY <1>3, <1>4, TaskFields
<1> QED
  BY <1>2, <1>3, <1>4, <1>5 DEF AgeLimit

LEMMA TickStep == IInv /\ Tick => IInv'
<1> SUFFICES ASSUME IInv, Tick PROVE IInv'
  OBVIOUS
<1> USE DEF IInv
<1>1. DOMAIN tasks = 1..Len(tasks) /\ Len(tasks) \in Nat
  BY Typed
<1>2. /\ tasks' \in [1..Len(tasks) -> Task]
      /\ quiet' \in [1..Len(tasks) -> Nat]
  <2>1. /\ tasks' = [i \in 1..Len(tasks) |-> tasks'[i]]
        /\ quiet' = [i \in 1..Len(tasks) |-> quiet'[i]]
    BY <1>1 DEF Tick
  <2>2. \A i \in 1..Len(tasks) : tasks'[i] \in Task /\ quiet'[i] \in Nat
    BY TickEach
  <2> QED
    BY <2>1, <2>2
<1>3. /\ tasks' \in Seq(Task) /\ Len(tasks') = Len(tasks)
      /\ quiet' \in Seq(Nat) /\ Len(quiet') = Len(tasks)
      /\ DOMAIN tasks' = 1..Len(tasks)
  BY <1>1, <1>2, SeqDef, LenProperties
<1>4. TypeOK'
  <2>1. lag' \in 0..MaxLag
    BY SchedulerAssumption DEF Tick, TypeOK
  <2> QED
    BY <1>3, <2>1, SchedulerAssumption DEF Tick, TypeOK
<1>5. HeldInv' /\ CursorInv' /\ NothingRunsAfterFree'
  BY <1>3 DEF Tick, HeldInv, CursorInv, NothingRunsAfterFree
<1>6. AgeInv'
  BY <1>3, TickEach DEF AgeInv
<1>7. ForkInv' /\ ForksOnlyRunnable'
  <2> SUFFICES ASSUME thread' = "fork"
               PROVE  /\ tasks'[cursor].age = lag'
                      /\ quiet'[cursor] + MaxLag >= tasks'[cursor].interval
                      /\ cursor <= Len(tasks) /\ Runnable(tasks'[cursor])
    BY <1>3 DEF ForkInv, ForksOnlyRunnable, Tick, Runnable
  <2>1. /\ thread = "fork" /\ lag < MaxLag /\ lag' = lag + 1
        /\ cursor \in 1..Len(tasks)
        /\ tasks[cursor].age = lag
        /\ quiet[cursor] + MaxLag >= tasks[cursor].interval
        /\ Runnable(tasks[cursor])
        /\ lag \in Nat /\ MaxLag \in Nat
    BY SchedulerAssumption DEF Tick, ForkInv, ForksOnlyRunnable, TypeOK
  <2>2. tasks[cursor].interval \in Nat \ {0} /\ quiet[cursor] \in Nat
    BY <2>1, Typed
  <2>3. Older(tasks[cursor].age, tasks[cursor].interval + MaxLag) = lag + 1
    <3> DEFINE n == tasks[cursor].interval
    <3> HIDE DEF n
    <3>1. n \in Nat \ {0} /\ tasks[cursor].age = lag
      BY <2>1, <2>2 DEF n
    <3>2. Older(lag, n + MaxLag) = lag + 1
      BY <2>1, <3>1 DEF Older
    <3> QED
      BY <3>1, <3>2 DEF n
  <2>4. Older(quiet[cursor], tasks[cursor].interval) + MaxLag >= tasks[cursor].interval
    <3> DEFINE n == tasks[cursor].interval
               q == quiet[cursor]
    <3> HIDE DEF n, q
    <3>1. n \in Nat \ {0} /\ q \in Nat /\ q + MaxLag >= n
      BY <2>1, <2>2 DEF n, q
    <3>2. Older(q, n) + MaxLag >= n
      BY <2>1, <3>1 DEF Older
    <3> QED
      BY <3>2 DEF n, q
  <2>5. /\ tasks'[cursor].interval = tasks[cursor].interval
        /\ tasks'[cursor].active = tasks[cursor].active
        /\ tasks'[cursor].paused = tasks[cursor].paused
        /\ tasks'[cursor].age = Older(tasks[cursor].age, tasks[cursor].interval + MaxLag)
        /\ quiet'[cursor] = Older(quiet[cursor], tasks[cursor].interval)
    BY <2>1, TickEach
  <2> QED
    BY <2>1, <2>3, <2>4, <2>5 DEF Runnable
<1>8. IdsNeverReused'
  <2>1. nextId' = nextId /\ \A i \in 1..Len(tasks) : tasks'[i].id = tasks[i].id
    BY TickEach DEF Tick
  <2> QED
    BY <1>1, <1>3, <2>1 DEF IdsNeverReused
<1> QED
  BY <1>4, <1>5, <1>6, <1>7, <1>8

\* The steps of the thread and of the owner that leave the table alone.
LEMMA QuietSteps ==
  ASSUME IInv, Test \/ Wake \/ Lock \/ Skip \/ Unlock \/ Destroy
  PROVE  IInv'
<1> USE DEF IInv
<1>1. tasks' = tasks /\ quiet' = quiet /\ nextId' = nextId /\ launched' = 0
  BY DEF Test, Wake, Lock, Skip, Unlock, Destroy, Stop, Join, Free, table
<1>2. TypeOK'
  <2>1. Len(tasks) \in Nat /\ MaxTasks \in Nat \ {0} /\ MaxLag \in Nat
    BY Typed, SchedulerAssumption
  <2>2. cursor' \in 1..(MaxTasks + 1)
    BY <2>1 DEF TypeOK, Test, Wake, Lock, Skip, Unlock, Destroy, Stop, Join, Free
  <2>3. lag' \in 0..MaxLag
    BY <2>1 DEF TypeOK, Test, Wake, Lock, Skip, Unlock, Destroy, Stop, Join, Free
  <2>4. /\ thread' \in ThreadAt /\ main' \in MainAt /\ held' \in BOOLEAN
        /\ running' \in BOOLEAN /\ refused' \in BOOLEAN
    BY DEF TypeOK, ThreadAt, MainAt, Test, Wake, Lock, Skip, Unlock, Destroy, Stop, Join,
           Free
  <2>5. launched' \in 0..MaxTasks
    BY <1>1, <2>1
  <2> QED
    BY <1>1, <2>2, <2>3, <2>4, <2>5 DEF TypeOK
<1>3. HeldInv' /\ NothingRunsAfterFree'
  BY DEF HeldInv, NothingRunsAfterFree, Test, Wake, Lock, Skip, Unlock, Destroy, Stop,
         Join, Free
<1>4. CursorInv'
  <2>1. Len(tasks) \in Nat /\ cursor \in Nat
    BY Typed DEF TypeOK
  <2> QED
    BY <1>1, <2>1 DEF CursorInv, Test, Wake, Lock, Skip, Unlock, Destroy, Stop, Join, Free
<1>5. AgeInv' /\ IdsNeverReused'
  BY <1>1 DEF AgeInv, IdsNeverReused
<1>6. ForkInv' /\ ForksOnlyRunnable'
  BY <1>1 DEF ForkInv, ForksOnlyRunnable, Runnable, Test, Wake, Lock, Skip, Unlock,
              Destroy, Stop, Join, Free
<1> QED
  BY <1>2, <1>3, <1>4, <1>5, <1>6

\* The thread marks a task that is due.
LEMMA ChooseStep == IInv /\ Choose => IInv'
<1> SUFFICES ASSUME IInv, Choose PROVE IInv'
  OBVIOUS
<1> USE DEF IInv
<1> DEFINE t == tasks[cursor]
           u == [t EXCEPT !.age = lag]
<1>1. /\ cursor \in 1..Len(tasks) /\ Len(tasks) \in Nat
      /\ lag \in Nat /\ MaxLag \in Nat /\ lag <= MaxLag
      /\ Due(t)
  BY Typed, SchedulerAssumption DEF Choose, TypeOK
<1>2. /\ t \in [id : Nat \ {0}, interval : Intervals, age : Nat,
                active : BOOLEAN, paused : BOOLEAN]
      /\ t.interval \in Nat \ {0} /\ t.age \in Nat
      /\ quiet[cursor] \in Nat
      /\ t.age <= quiet[cursor] + MaxLag
  BY <1>1, Typed, TaskFields DEF AgeInv
<1>3. /\ u \in [id : Nat \ {0}, interval : Intervals, age : Nat,
                active : BOOLEAN, paused : BOOLEAN]
      /\ u.age = lag /\ u.interval = t.interval /\ u.id = t.id
      /\ u.active = t.active /\ u.paused = t.paused
  BY <1>1, <1>2
<1>4. u \in Task
  BY <1>1, <1>2, <1>3, TaskFields, SMTT(60)
<1>5. /\ tasks' \in Seq(Task) /\ Len(tasks') = Len(tasks)
      /\ DOMAIN tasks' = 1..Len(tasks)
      /\ tasks'[cursor] = u
      /\ \A j \in 1..Len(tasks) : j # cursor => tasks'[j] = tasks[j]
  <2>1. tasks' = [tasks EXCEPT ![cursor] = u]
    BY DEF Choose
  <2> QED
    BY <1>1, <1>4, <2>1, TableExcept DEF TypeOK
<1>6. TypeOK'
  BY <1>5, SchedulerAssumption DEF Choose, TypeOK, ThreadAt
<1>7. HeldInv' /\ CursorInv' /\ NothingRunsAfterFree'
  BY <1>5 DEF Choose, HeldInv, CursorInv, NothingRunsAfterFree
<1>8. AgeInv'
  <2> SUFFICES ASSUME NEW i \in 1..Len(tasks)
               PROVE  tasks'[i].age <= quiet[i] + MaxLag
    BY <1>5 DEF AgeInv, Choose
  <2>1. CASE i = cursor
    BY <1>1, <1>2, <1>3, <1>5, <2>1
  <2>2. CASE i # cursor
    BY <1>5, <2>2 DEF AgeInv
  <2> QED
    BY <2>1, <2>2
<1>9. ForkInv' /\ ForksOnlyRunnable'
  <2>1. quiet[cursor] + MaxLag >= t.interval
    BY <1>1, <1>2 DEF Due
  <2>2. Runnable(u)
    BY <1>1, <1>3 DEF Due, Runnable
  <2> HIDE DEF u
  <2> QED
    BY <1>1, <1>3, <1>5, <2>1, <2>2 DEF ForkInv, ForksOnlyRunnable, Choose
<1>10. IdsNeverReused'
  <2>1. \A i \in 1..Len(tasks) : tasks'[i].id = tasks[i].id
    BY <1>3, <1>5
  <2> QED
    BY <1>5, <2>1, Typed DEF IdsNeverReused, Choose
<1> QED
  BY <1>6, <1>7, <1>8, <1>9, <1>10

\* The thread runs the task it has marked.
LEMMA ForkStep == IInv /\ Fork => IInv'
<1> SUFFICES ASSUME IInv, Fork PROVE IInv'
  OBVIOUS
<1> USE DEF IInv
<1>1. /\ cursor \in 1..Len(tasks) /\ Len(tasks) \in Nat /\ Len(tasks) <= MaxTasks
      /\ tasks[cursor].age = lag /\ lag \in Nat /\ lag <= MaxLag /\ MaxLag \in Nat
      /\ tasks' = tasks /\ MaxTasks \in Nat
  BY Typed, SchedulerAssumption DEF Fork, TypeOK, ForkInv, ForksOnlyRunnable, table
<1>2. /\ quiet' \in Seq(Nat) /\ Len(quiet') = Len(tasks)
      /\ quiet'[cursor] = 0
      /\ \A j \in 1..Len(tasks) : j # cursor => quiet'[j] = quiet[j]
  BY <1>1, ExceptSeq DEF Fork, TypeOK
<1>3. TypeOK'
  <2>1. cursor' \in 1..(MaxTasks + 1) /\ launched' \in 0..MaxTasks
    BY <1>1 DEF Fork
  <2> QED
    BY <1>1, <1>2, <2>1 DEF Fork, TypeOK, ThreadAt, table
<1>4. HeldInv' /\ CursorInv' /\ NothingRunsAfterFree'
  BY <1>1 DEF Fork, HeldInv, CursorInv, NothingRunsAfterFree
<1>5. AgeInv'
  <2> SUFFICES ASSUME NEW i \in 1..Len(tasks)
               PROVE  tasks[i].age <= quiet'[i] + MaxLag
    BY <1>1 DEF AgeInv
  <2>1. CASE i = cursor
    BY <1>1, <1>2, <2>1
  <2>2. CASE i # cursor
    BY <1>2, <2>2 DEF AgeInv
  <2> QED
    BY <2>1, <2>2
<1>6. ForkInv' /\ ForksOnlyRunnable' /\ IdsNeverReused'
  BY <1>1 DEF Fork, ForkInv, ForksOnlyRunnable, IdsNeverReused, table
<1> QED
  BY <1>3, <1>4, <1>5, <1>6

\* schedule_add.
LEMMA AddStep ==
  ASSUME IInv, NEW s \in Asked, Add(s)
  PROVE  IInv'
<1> USE DEF IInv
<1>0. Accepted(s) /\ parse_interval(s) \in Intervals
  BY DEF Add, Intervals
<1>1. /\ ~held /\ main = "up" /\ thread \notin {"scan", "fork"}
      /\ UNCHANGED <<running, held, thread, cursor, lag, main>>
      /\ launched' = 0
  BY DEF Add, ToolMayRun, HeldInv
<1>2. HeldInv' /\ CursorInv' /\ ForkInv' /\ ForksOnlyRunnable' /\ NothingRunsAfterFree'
  BY <1>1 DEF HeldInv, CursorInv, ForkInv, ForksOnlyRunnable, NothingRunsAfterFree
<1>3. CASE Len(tasks) < MaxTasks
  <2> DEFINE t == NewTask(s)
  <2>1. /\ tasks' = Append(tasks, t) /\ quiet' = Append(quiet, 0)
        /\ nextId' = nextId + 1 /\ refused' = FALSE
    BY <1>3 DEF Add
  <2>2. /\ t \in Task /\ t.id = nextId /\ t.age = 0 /\ nextId \in Nat \ {0}
    <3>1. /\ t \in [id : Nat \ {0}, interval : Intervals, age : Nat,
                   active : BOOLEAN, paused : BOOLEAN]
          /\ t.id = nextId /\ t.age = 0 /\ t.interval \in Nat /\ nextId \in Nat \ {0}
      BY <1>0 DEF NewTask, TypeOK, Accepted
    <3>2. t.age <= t.interval + MaxLag
      BY <3>1, SchedulerAssumption
    <3> QED
      BY <3>1, <3>2, TaskFields
  <2> HIDE DEF t
  <2>3. /\ tasks' \in Seq(Task) /\ Len(tasks') = Len(tasks) + 1
        /\ \A i \in 1..Len(tasks) : tasks'[i] = tasks[i]
        /\ tasks'[Len(tasks) + 1] = t
    BY <2>1, <2>2, AppendProperties DEF TypeOK
  <2>4. /\ quiet' \in Seq(Nat) /\ Len(quiet') = Len(tasks) + 1
        /\ \A i \in 1..Len(tasks) : quiet'[i] = quiet[i]
        /\ quiet'[Len(tasks) + 1] = 0
    BY <2>1, AppendProperties DEF TypeOK
  <2>5. Len(tasks) \in Nat /\ DOMAIN tasks' = 1..(Len(tasks) + 1)
    BY <2>3, LenProperties, Typed
  <2>6. TypeOK'
    <3>1. Len(tasks') <= MaxTasks /\ Len(quiet') = Len(tasks')
      BY <1>3, <2>3, <2>4, <2>5, SchedulerAssumption
    <3>2. nextId' \in Nat \ {0} /\ launched' \in 0..MaxTasks
      BY <1>1, <2>1, <2>2, SchedulerAssumption
    <3>3. tasks' \in Seq(Task) /\ quiet' \in Seq(Nat)
      BY <2>3, <2>4
    <3>4. refused' \in BOOLEAN
      BY <2>1
    <3> QED
      BY <1>1, <3>1, <3>2, <3>3, <3>4 DEF TypeOK
  <2>7. AgeInv'
    BY <2>2, <2>3, <2>4, <2>5, SchedulerAssumption, SMTT(60) DEF AgeInv
  <2>8. IdsNeverReused'
    <3>1. \A i \in 1..Len(tasks) : tasks[i].id \in Nat /\ tasks[i].id < nextId
      BY Typed DEF IdsNeverReused
    <3>2. \A i, j \in 1..Len(tasks) : tasks[i].id = tasks[j].id => i = j
      BY Typed DEF IdsNeverReused
    <3>3. \A i \in 1..(Len(tasks) + 1) : i \in 1..Len(tasks) \/ i = Len(tasks) + 1
      BY <2>5
    <3>4. \A i \in 1..(Len(tasks) + 1) : tasks'[i].id < nextId'
      BY <2>1, <2>2, <2>3, <3>1, <3>3
    <3>5. \A i, j \in 1..(Len(tasks) + 1) : tasks'[i].id = tasks'[j].id => i = j
      BY <2>2, <2>3, <3>1, <3>2, <3>3
    <3> QED
      BY <2>5, <3>4, <3>5 DEF IdsNeverReused
  <2> QED
    BY <1>2, <2>6, <2>7, <2>8
<1>4. CASE ~(Len(tasks) < MaxTasks)
  <2>1. tasks' = tasks /\ nextId' = nextId /\ quiet' = quiet /\ refused' = TRUE
    BY <1>4 DEF Add, table
  <2> QED
    BY <1>1, <1>2, <2>1, SchedulerAssumption DEF TypeOK, AgeInv, IdsNeverReused
<1> QED
  BY <1>3, <1>4

\* schedule_control.
LEMMA ControlStep ==
  ASSUME IInv, NEW id, NEW a, Control(id, a)
  PROVE  IInv'
<1> USE DEF IInv
<1>1. /\ ~held /\ main = "up" /\ thread \notin {"scan", "fork"}
      /\ UNCHANGED <<nextId, running, held, thread, cursor, lag, main, quiet, refused>>
      /\ launched' = 0
  BY DEF Control, ToolMayRun, HeldInv
<1>2. HeldInv' /\ CursorInv' /\ ForkInv' /\ ForksOnlyRunnable' /\ NothingRunsAfterFree'
  BY <1>1 DEF HeldInv, CursorInv, ForkInv, ForksOnlyRunnable, NothingRunsAfterFree
<1>3. DOMAIN tasks = 1..Len(tasks)
  BY Typed
<1>4. PICK i \in 1..Len(tasks) : tasks' = [tasks EXCEPT ![i] = Controlled(@, a)]
  BY <1>3 DEF Control
<1> DEFINE t == tasks[i]
           u == Controlled(t, a)
<1>5. /\ t \in [id : Nat \ {0}, interval : Intervals, age : Nat,
                active : BOOLEAN, paused : BOOLEAN]
      /\ t.age <= t.interval + MaxLag
  BY Typed, TaskFields
<1>6. /\ u \in [id : Nat \ {0}, interval : Intervals, age : Nat,
                active : BOOLEAN, paused : BOOLEAN]
      /\ u.age = t.age /\ u.interval = t.interval /\ u.id = t.id
  <2>1. CASE a = "pause"
    BY <1>5, <2>1 DEF Controlled
  <2>2. CASE a = "resume"
    BY <1>5, <2>2 DEF Controlled
  <2>3. CASE a = "delete"
    BY <1>5, <2>3 DEF Controlled
  <2>4. CASE a \notin {"pause", "resume", "delete"}
    BY <1>5, <2>4 DEF Controlled
  <2> QED
    BY <2>1, <2>2, <2>3, <2>4
<1> HIDE DEF u
<1>7. u \in Task
  BY <1>5, <1>6, TaskFields
<1>8. /\ tasks' \in Seq(Task) /\ Len(tasks') = Len(tasks)
      /\ DOMAIN tasks' = 1..Len(tasks)
      /\ tasks'[i] = u
      /\ \A j \in 1..Len(tasks) : j # i => tasks'[j] = tasks[j]
  <2>1. tasks' = [tasks EXCEPT ![i] = u]
    BY <1>4 DEF u
  <2> QED
    BY <1>7, <2>1, TableExcept DEF TypeOK
<1>9. \A j \in 1..Len(tasks) : tasks'[j].id = tasks[j].id /\ tasks'[j].age = tasks[j].age
  BY <1>6, <1>8
<1>10. TypeOK'
  BY <1>1, <1>8, SchedulerAssumption DEF TypeOK
<1>11. AgeInv' /\ IdsNeverReused'
  BY <1>1, <1>3, <1>8, <1>9 DEF AgeInv, IdsNeverReused
<1> QED
  BY <1>2, <1>10, <1>11

-----------------------------------------------------------------------------
(* The theorems.                                                           *)

LEMMA NextIInv == IInv /\ [Next]_vars => IInv'
<1> SUFFICES ASSUME IInv, [Next]_vars PROVE IInv'
  OBVIOUS
<1>1. CASE Tick
  BY <1>1, TickStep
<1>2. CASE ThreadStep
  BY <1>2, QuietSteps, ChooseStep, ForkStep DEF ThreadStep
<1>3. CASE \E s \in Asked : Add(s)
  BY <1>3, AddStep
<1>4. CASE \E i \in DOMAIN tasks, a \in {"pause", "resume", "delete"} :
             Control(tasks[i].id, a)
  BY <1>4, ControlStep
<1>5. CASE Destroy
  BY <1>5, QuietSteps
<1>6. CASE UNCHANGED vars
  BY <1>6 DEF vars, table, IInv, TypeOK, HeldInv, CursorInv, AgeInv, ForkInv,
              ForksOnlyRunnable, Runnable, IdsNeverReused, NothingRunsAfterFree
<1> QED
  BY <1>1, <1>2, <1>3, <1>4, <1>5, <1>6 DEF Next

\* Every reachable state of the scheduler satisfies the inductive invariant.
THEOREM Invariance == Spec => []IInv
<1>1. Init => IInv
  BY InitIInv
<1>2. IInv /\ [Next]_vars => IInv'
  BY NextIInv
<1> QED
  BY <1>1, <1>2, PTL DEF Spec

\* The variables keep their types: the table never outgrows tasks[MAX_TASKS] and the
\* loop of scheduler_thread never leaves it.
THEOREM TypeCorrect == Spec => []TypeOK
<1>1. IInv => TypeOK
  BY DEF IInv
<1> QED
  BY <1>1, Invariance, PTL

\* scheduler_thread never runs the command of a task that has been deleted (and its
\* strings freed) or paused.
THEOREM OnlyRunnableTasksAreRun == Spec => []ForksOnlyRunnable
<1>1. IInv => ForksOnlyRunnable
  BY DEF IInv
<1> QED
  BY <1>1, Invariance, PTL

\* schedule_add never gives out an id twice.
THEOREM IdsAreUnique == Spec => []IdsNeverReused
<1>1. IInv => IdsNeverReused
  BY DEF IInv
<1> QED
  BY <1>1, Invariance, PTL

\* After scheduler_destroy has joined the thread nothing is run.
THEOREM DestroyStopsAllTasks == Spec => []NothingRunsAfterFree
<1>1. IInv => NothingRunsAfterFree
  BY DEF IInv
<1> QED
  BY <1>1, Invariance, PTL

\* Two runs of a task are an interval apart, less the delay of the first.
THEOREM TasksAreSpaced == Spec => LaunchesSpaced
<1>1. IInv /\ [Next]_vars
        => [Fork => quiet[cursor] + MaxLag >= tasks[cursor].interval]_vars
  BY DEF IInv, ForkInv, Fork
<1> QED
  BY <1>1, Invariance, PTL DEF Spec, LaunchesSpaced

=============================================================================
