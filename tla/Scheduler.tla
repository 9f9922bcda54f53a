------------------------------ MODULE Scheduler ------------------------------
(***************************************************************************)
(* The task scheduler of tools/scheduler/scheduler.c: a table of tasks     *)
(* behind a mutex, a background thread that wakes every second and runs    *)
(* the tasks that are due, the tools that add and control tasks, and       *)
(* scheduler_destroy.                                                      *)
(*                                                                         *)
(* Time is kept relative: the age of a task stands for time(NULL) -        *)
(* last_run and the lag for the seconds since the thread read the clock    *)
(* it is working with, so that behaviours may go on for ever.  The clock   *)
(* does not step.  The tools hold the mutex without waiting for anything,  *)
(* so a call of one is a single step; the thread forks while it holds the  *)
(* mutex, so its pass over the table is one step per task and part.        *)
(*                                                                         *)
(* Operators named Wrong... are faulty variants that the specification     *)
(* never uses; see module Agent.                                           *)
(***************************************************************************)
EXTENDS Interval, Sequences

CONSTANTS
  MaxTasks,     (* MAX_TASKS                                                *)
  Asked,        (* the intervals schedule_add is called with                *)
  MaxLag        (* bound: the seconds the thread takes from clock to fork   *)

ASSUME SchedulerAssumption ==
  /\ MaxTasks \in Nat \ {0}
  /\ Asked \subseteq Specs
  /\ MaxLag \in Nat

VARIABLES
  tasks,      (* sched->tasks[0 .. task_count - 1]                          *)
  nextId,     (* sched->next_id                                             *)
  running,    (* sched->running                                             *)
  held,       (* the background thread holds sched->mutex                   *)
  thread,     (* where the background thread stands                         *)
  cursor,     (* the index of its loop over the tasks                       *)
  lag,        (* seconds since it read the clock                            *)
  main,       (* the owner of the scheduler: up, stopping, joined, freed    *)
  quiet,      (* history: per task, seconds since it was added or launched  *)
  launched,   (* history: the task whose command the last step ran, or 0    *)
  refused     (* history: the last schedule_add said "Max tasks reached"    *)

table == <<tasks, nextId>>
vars  == <<table, running, held, thread, cursor, lag, main, quiet, launched, refused>>

-----------------------------------------------------------------------------

\* The interval_sec a task may have: what parse_interval makes of what was asked.
Intervals == {parse_interval(s) : s \in {a \in Asked : Accepted(a)}}

ThreadAt == {"test", "sleep", "lock", "scan", "fork", "done"}
MainAt   == {"up", "stopping", "joined", "freed"}

\* An age above this makes every task due, whatever the lag: ages stop there.
AgeLimit(t) == t.interval + MaxLag

Task == {t \in [id : Nat \ {0}, interval : Intervals, age : Nat,
                active : BOOLEAN, paused : BOOLEAN] : t.age <= AgeLimit(t)}

NewTask(s) ==
  [id |-> nextId, interval |-> parse_interval(s), age |-> 0, active |-> TRUE, paused |-> FALSE]

\* A task the thread may run: in the table, not deleted, not paused.
Runnable(t) == t.active /\ ~t.paused

\* now - task->last_run >= task->interval_sec, for the now the thread has read.
Due(t) == Runnable(t) /\ t.age - lag >= t.interval

Older(n, limit) == IF n < limit THEN n + 1 ELSE limit

Init ==
  /\ tasks = <<>>
  /\ nextId = 1
  /\ running = TRUE
  /\ held = FALSE
  /\ thread = "test"
  /\ cursor = 1
  /\ lag = 0
  /\ main = "up"
  /\ quiet = <<>>
  /\ launched = 0
  /\ refused = FALSE

-----------------------------------------------------------------------------
(* The clock.                                                              *)

\* A second passes.  The thread is never more than MaxLag seconds behind the clock
\* it has read.
Tick ==
  /\ thread \in {"lock", "scan", "fork"} => lag < MaxLag
  /\ lag' = IF thread \in {"lock", "scan", "fork"} THEN lag + 1 ELSE 0
  /\ tasks' = [i \in DOMAIN tasks |->
                 [tasks[i] EXCEPT !.age = Older(@, AgeLimit(tasks[i]))]]
  /\ quiet' = [i \in DOMAIN tasks |-> Older(quiet[i], tasks[i].interval)]
  /\ launched' = 0
  /\ UNCHANGED <<nextId, running, held, thread, cursor, main, refused>>

-----------------------------------------------------------------------------
(* scheduler_thread.                                                       *)

\* while (sched->running)
Test ==
  /\ thread = "test"
  /\ thread' = IF running THEN "sleep" ELSE "done"
  /\ launched' = 0
  /\ UNCHANGED <<table, running, held, cursor, lag, main, quiet, refused>>

\* sleep(1) returns, after a second or early because of a signal, and the clock is
\* read.
Wake ==
  /\ thread = "sleep"
  /\ thread' = "lock"
  /\ lag' = 0
  /\ launched' = 0
  /\ UNCHANGED <<table, running, held, cursor, main, quiet, refused>>

\* The loop index not started again.
WrongLock ==
  /\ thread = "lock" /\ ~held
  /\ held' = TRUE
  /\ thread' = "scan"
  /\ launched' = 0
  /\ UNCHANGED <<table, running, cursor, lag, main, quiet, refused>>

\* pthread_mutex_lock
Lock ==
  /\ thread = "lock" /\ ~held
  /\ held' = TRUE
  /\ thread' = "scan"
  /\ cursor' = 1
  /\ launched' = 0
  /\ UNCHANGED <<table, running, lag, main, quiet, refused>>

\* continue
Skip ==
  /\ thread = "scan" /\ cursor <= Len(tasks)
  /\ ~Due(tasks[cursor])
  /\ cursor' = cursor + 1
  /\ launched' = 0
  /\ UNCHANGED <<table, running, held, thread, lag, main, quiet, refused>>

\* task->last_run = now
Choose ==
  /\ thread = "scan" /\ cursor <= Len(tasks)
  /\ Due(tasks[cursor])
  /\ tasks' = [tasks EXCEPT ![cursor].age = lag]
  /\ thread' = "fork"
  /\ launched' = 0
  /\ UNCHANGED <<nextId, running, held, cursor, lag, main, quiet, refused>>

\* scheduler_run_async(task->command).  When fork fails the occurrence is lost: the
\* state is the same, and only the log tells.
Fork ==
  /\ thread = "fork"
  /\ launched' = cursor
  /\ quiet' = [quiet EXCEPT ![cursor] = 0]
  /\ cursor' = cursor + 1
  /\ thread' = "scan"
  /\ UNCHANGED <<table, running, held, lag, main, refused>>

\* The mutex kept.
WrongUnlock ==
  /\ thread = "scan" /\ cursor > Len(tasks)
  /\ thread' = "test"
  /\ launched' = 0
  /\ UNCHANGED <<table, running, held, cursor, lag, main, quiet, refused>>

\* pthread_mutex_unlock
Unlock ==
  /\ thread = "scan" /\ cursor > Len(tasks)
  /\ held' = FALSE
  /\ thread' = "test"
  /\ launched' = 0
  /\ UNCHANGED <<table, running, cursor, lag, main, quiet, refused>>

ThreadStep == Test \/ Wake \/ Lock \/ Skip \/ Choose \/ Fork \/ Unlock

-----------------------------------------------------------------------------
(* The tools.  They are called while the scheduler is up and take the      *)
(* mutex.                                                                  *)

\* The table is left alone by the thread and by scheduler_destroy.
ToolMayRun == main = "up" /\ ~held

\* schedule_add with last_run left at zero, the beginning of 1970.
WrongAdd(s) ==
  /\ ToolMayRun /\ Accepted(s)
  /\ Len(tasks) < MaxTasks
  /\ tasks' = Append(tasks, [NewTask(s) EXCEPT !.age = @ + AgeLimit(NewTask(s))])
  /\ quiet' = Append(quiet, 0)
  /\ nextId' = nextId + 1
  /\ refused' = FALSE
  /\ launched' = 0
  /\ UNCHANGED <<running, held, thread, cursor, lag, main>>

\* An id made from the number of tasks that are left.
WrongId(s) ==
  /\ ToolMayRun /\ Accepted(s)
  /\ Len(tasks) < MaxTasks
  /\ tasks' = Append(tasks,
       [NewTask(s) EXCEPT !.id = 1 + Len(SelectSeq(tasks, LAMBDA t : t.active))])
  /\ quiet' = Append(quiet, 0)
  /\ nextId' = nextId + 1
  /\ refused' = FALSE
  /\ launched' = 0
  /\ UNCHANGED <<running, held, thread, cursor, lag, main>>

\* The test for a full table off by one.
WrongFull(s) ==
  /\ ToolMayRun /\ Accepted(s)
  /\ Len(tasks) <= MaxTasks
  /\ tasks' = Append(tasks, NewTask(s))
  /\ quiet' = Append(quiet, 0)
  /\ nextId' = nextId + 1
  /\ refused' = FALSE
  /\ launched' = 0
  /\ UNCHANGED <<running, held, thread, cursor, lag, main>>

\* tool_schedule_add: the slots in use are counted with the deleted ones.  An interval
\* that is not accepted changes nothing.
Add(s) ==
  /\ ToolMayRun /\ Accepted(s)
  /\ IF Len(tasks) < MaxTasks
     THEN /\ tasks' = Append(tasks, NewTask(s))
          /\ quiet' = Append(quiet, 0)
          /\ nextId' = nextId + 1
          /\ refused' = FALSE
     ELSE /\ refused' = TRUE
          /\ UNCHANGED <<table, quiet>>
  /\ launched' = 0
  /\ UNCHANGED <<running, held, thread, cursor, lag, main>>

\* What tool_schedule_control makes of a task.  An action it does not know leaves
\* the task alone, and is reported as done.
Controlled(t, action) ==
  CASE action = "pause"  -> [t EXCEPT !.paused = TRUE]
    [] action = "resume" -> [t EXCEPT !.paused = FALSE]
    [] action = "delete" -> [t EXCEPT !.active = FALSE]
    [] OTHER             -> t

Target(i, id) == tasks[i].id = id /\ tasks[i].active

\* The task changed without taking the mutex.
WrongControl(id, action) ==
  /\ main = "up"
  /\ \E i \in DOMAIN tasks :
       /\ Target(i, id)
       /\ tasks' = [tasks EXCEPT ![i] = Controlled(@, action)]
  /\ launched' = 0
  /\ UNCHANGED <<nextId, running, held, thread, cursor, lag, main, quiet, refused>>

\* tool_schedule_control on the first task with that id that is not deleted; when
\* there is none the answer is "Task not found" and nothing changes.
Control(id, action) ==
  /\ ToolMayRun
  /\ \E i \in DOMAIN tasks :
       /\ Target(i, id)
       /\ \A j \in 1..(i - 1) : ~Target(j, id)
       /\ tasks' = [tasks EXCEPT ![i] = Controlled(@, action)]
  /\ launched' = 0
  /\ UNCHANGED <<nextId, running, held, thread, cursor, lag, main, quiet, refused>>

-----------------------------------------------------------------------------
(* scheduler_destroy.                                                      *)

\* sched->running = false
Stop ==
  /\ main = "up"
  /\ running' = FALSE
  /\ main' = "stopping"
  /\ launched' = 0
  /\ UNCHANGED <<table, held, thread, cursor, lag, quiet, refused>>

\* The thread is not waited for.
WrongJoin ==
  /\ main = "stopping"
  /\ main' = "joined"
  /\ launched' = 0
  /\ UNCHANGED <<table, running, held, thread, cursor, lag, quiet, refused>>

\* pthread_join
Join ==
  /\ main = "stopping"
  /\ thread = "done"
  /\ main' = "joined"
  /\ launched' = 0
  /\ UNCHANGED <<table, running, held, thread, cursor, lag, quiet, refused>>

\* The mutex destroyed, the strings and the table freed.
Free ==
  /\ main = "joined"
  /\ main' = "freed"
  /\ launched' = 0
  /\ UNCHANGED <<table, running, held, thread, cursor, lag, quiet, refused>>

Destroy == Stop \/ Join \/ Free

Next ==
  \/ Tick
  \/ ThreadStep
  \/ \E s \in Asked : Add(s)
  \/ \E i \in DOMAIN tasks, a \in {"pause", "resume", "delete"} : Control(tasks[i].id, a)
  \/ Destroy

Spec == Init /\ [][Next]_vars

\* The thread is scheduled, the clock goes on, and a destroy that was begun is gone
\* on with.  Whether one is begun is up to the user.
FairSpec ==
  /\ Spec
  /\ WF_vars(Tick)
  /\ WF_vars(ThreadStep)
  /\ WF_vars(Join \/ Free)

-----------------------------------------------------------------------------

\* Every variable keeps the type the code gives it; the table never outgrows its
\* array and the loop never leaves it.
TypeOK ==
  /\ tasks \in Seq(Task)
  /\ Len(tasks) <= MaxTasks
  /\ nextId \in Nat \ {0}
  /\ running \in BOOLEAN
  /\ held \in BOOLEAN
  /\ thread \in ThreadAt
  /\ cursor \in 1..(MaxTasks + 1)
  /\ lag \in 0..MaxLag
  /\ main \in MainAt
  /\ quiet \in Seq(Nat)
  /\ Len(quiet) = Len(tasks)
  /\ launched \in 0..MaxTasks
  /\ refused \in BOOLEAN

\* When the thread reads task->command to run it, the task is still there and not
\* paused: no schedule_control that has been answered comes between the decision
\* to run a task and the fork.
ForksOnlyRunnable ==
  thread = "fork" => cursor <= Len(tasks) /\ Runnable(tasks[cursor])

\* An id stands for one task for ever: no two slots of the table share one, deleted
\* tasks included, and the next id is still unused.
IdsNeverReused ==
  /\ \A i, j \in DOMAIN tasks : tasks[i].id = tasks[j].id => i = j
  /\ \A i \in DOMAIN tasks : tasks[i].id < nextId

\* "Run every N seconds": a task is not run again, nor for the first time, sooner
\* than its interval less the time the thread was held up between reading the
\* clock and running it.
LaunchesSpaced ==
  [][Fork => quiet[cursor] + MaxLag >= tasks[cursor].interval]_vars

\* scheduler.h: "Destroy the scheduler, stopping all tasks": when the table is freed
\* the thread has returned without the mutex, so nothing is run afterwards.
NothingRunsAfterFree == main \in {"joined", "freed"} => thread = "done" /\ ~held

\* A task that stays active and not paused is run again and again while the
\* scheduler is up.
TasksRecur ==
  \A i \in 1..MaxTasks :
    []<>(\/ launched = i
         \/ i \notin DOMAIN tasks
         \/ ~Runnable(tasks[i])
         \/ ~running)

\* scheduler_destroy returns.
DestroyReturns == main = "stopping" ~> main = "freed"
=============================================================================
