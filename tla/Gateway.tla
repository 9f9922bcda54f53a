------------------------------- MODULE Gateway -------------------------------
(***************************************************************************)
(* The HTTP gateway of gateway/gateway.c as run by run_daemon and cleanup  *)
(* of cli/main.c: a listener thread that takes a slot of a counting        *)
(* semaphore for each connection it accepts, a detached worker thread per  *)
(* connection, the mutex around agent_chat, and the main thread that       *)
(* starts the gateway, waits for a signal and destroys it.                 *)
(*                                                                         *)
(* A connection is used for one request (the code closes it after the      *)
(* reply).  Requests are of two kinds: a chat message, which takes the     *)
(* agent mutex, and everything else (the page, the status, the task lists, *)
(* every rejected request), which does not.                                *)
(*                                                                         *)
(* Operators named Wrong... are faulty variants that the specification     *)
(* never uses; see module Agent.                                           *)
(***************************************************************************)
EXTENDS Integers, Sequences, FiniteSets

CONSTANTS
  Conns,    (* the connections clients may open                             *)
  Slots,    (* GATEWAY_MAX_THREADS                                          *)
  Nobody    (* no owner of the mutex                                        *)

ASSUME GatewayAssumption ==
  /\ IsFiniteSet(Conns)
  /\ Slots \in Nat \ {0}
  /\ Nobody \notin Conns

VARIABLES
  running,    (* gw->running                                                *)
  open,       (* gw->server_fd accepts connections                          *)
  backlog,    (* connections the kernel has queued for accept               *)
  slots,      (* gw->thread_slots                                           *)
  owner,      (* who holds gw->agent_mutex                                  *)
  listener,   (* where the listener thread stands                           *)
  worker,     (* where the worker of each connection stands                 *)
  request,    (* what the client of each connection has sent                *)
  main,       (* where the main thread stands                               *)
  fault,      (* undefined behaviour the process has run into               *)
  answered    (* history: chat requests whose turn is over                  *)

gateway == <<running, open, slots, owner>>
vars == <<gateway, backlog, listener, worker, request, main, fault, answered>>

-----------------------------------------------------------------------------

ListenerAt == {"never", "top", "wait", "recheck", "accept", "exited"}
WorkerAt   == {"none", "queued", "reading", "locking", "chatting", "answering",
               "serving", "closed", "dropped"}
Requests   == {"silent", "chat", "other", "gone"}
MainAt     == {"created", "serving", "stopping", "joining", "joined", "freed",
               "exited"}
Faults     == {"none", "use after free", "join of no thread"}

\* The stages in which a worker thread exists; each holds one slot.
Alive == {"reading", "locking", "chatting", "answering", "serving"}

Working == {c \in Conns : worker[c] \in Alive}

\* The listener holds a slot from sem_wait until it has handed it to a worker or
\* posted it back.
ListenerHolds == IF listener \in {"recheck", "accept"} THEN 1 ELSE 0

Freed == main = "freed"

\* The process still runs and has not left the realm of the C standard.
Sane == fault = "none" /\ main # "exited"

Init ==
  /\ running = FALSE
  /\ open = FALSE
  /\ backlog = <<>>
  /\ slots = Slots
  /\ owner = Nobody
  /\ listener = "never"
  /\ worker = [c \in Conns |-> "none"]
  /\ request = [c \in Conns |-> "silent"]
  /\ main = "created"
  /\ fault = "none"
  /\ answered = {}

-----------------------------------------------------------------------------
(* Clients and the kernel.                                                 *)

Connect(c) ==
  /\ Sane /\ open
  /\ worker[c] = "none"
  /\ worker' = [worker EXCEPT ![c] = "queued"]
  /\ backlog' = Append(backlog, c)
  /\ UNCHANGED <<gateway, listener, request, main, fault, answered>>

\* The client completes its request, or closes without having sent one.
Send(c) ==
  /\ Sane
  /\ worker[c] \in {"queued", "reading"}
  /\ request[c] = "silent"
  /\ \E r \in {"chat", "other", "gone"} : request' = [request EXCEPT ![c] = r]
  /\ UNCHANGED <<gateway, backlog, listener, worker, main, fault, answered>>

-----------------------------------------------------------------------------
(* gateway_listen_thread.                                                  *)

\* while (gw->running)
CheckRunning ==
  /\ Sane
  /\ listener = "top"
  /\ listener' = IF running THEN "wait" ELSE "exited"
  /\ UNCHANGED <<gateway, backlog, worker, request, main, fault, answered>>

\* sem_wait(&gw->thread_slots)
TakeSlot ==
  /\ Sane
  /\ listener = "wait"
  /\ slots > 0
  /\ slots' = slots - 1
  /\ listener' = "recheck"
  /\ UNCHANGED <<running, open, owner, backlog, worker, request, main, fault, answered>>

\* The break taken without giving the slot back.
WrongRecheck ==
  /\ Sane
  /\ listener = "recheck"
  /\ listener' = IF running THEN "accept" ELSE "exited"
  /\ UNCHANGED <<gateway, backlog, worker, request, main, fault, answered>>

\* if (!gw->running) { sem_post; break; }
Recheck ==
  /\ Sane
  /\ listener = "recheck"
  /\ IF running
     THEN listener' = "accept" /\ UNCHANGED slots
     ELSE listener' = "exited" /\ slots' = slots + 1
  /\ UNCHANGED <<running, open, owner, backlog, worker, request, main, fault, answered>>

\* accept returns a connection and a detached worker is created for it.
Accept ==
  /\ Sane
  /\ listener = "accept"
  /\ open /\ backlog # <<>>
  /\ listener' = "top"
  /\ worker' = [worker EXCEPT ![Head(backlog)] = "reading"]
  /\ backlog' = Tail(backlog)
  /\ UNCHANGED <<gateway, request, main, fault, answered>>

\* accept returns a connection, but there is no memory or no thread for it.
AcceptDrops ==
  /\ Sane
  /\ listener = "accept"
  /\ open /\ backlog # <<>>
  /\ listener' = "top"
  /\ worker' = [worker EXCEPT ![Head(backlog)] = "dropped"]
  /\ backlog' = Tail(backlog)
  /\ slots' = slots + 1
  /\ UNCHANGED <<running, open, owner, request, main, fault, answered>>

\* accept fails because the socket is shut: post, and leave if asked to.
AcceptFails ==
  /\ Sane
  /\ listener = "accept"
  /\ ~open
  /\ slots' = slots + 1
  /\ listener' = IF running THEN "top" ELSE "exited"
  /\ UNCHANGED <<running, open, owner, backlog, worker, request, main, fault, answered>>

\* accept fails although the socket is open (an aborted connection, no file
\* descriptor left): post and go round.
AcceptErrs ==
  /\ Sane
  /\ listener = "accept"
  /\ open
  /\ slots' = slots + 1
  /\ listener' = IF running THEN "top" ELSE "exited"
  /\ UNCHANGED <<running, open, owner, backlog, worker, request, main, fault, answered>>

ListenerStep ==
  CheckRunning \/ TakeSlot \/ Recheck \/ Accept \/ AcceptDrops \/ AcceptFails

-----------------------------------------------------------------------------
(* gateway_conn_thread.  After gateway_destroy has freed the gateway, the    *)
(* next thing any worker does is to read it (debug flag, mutex, semaphore).  *)

\* The worker of c has something to do: its read has returned.
Ready(c) ==
  /\ worker[c] \in Alive
  /\ worker[c] = "reading" => request[c] # "silent"

UseAfterFree(c) ==
  /\ Sane /\ Freed
  /\ Ready(c)
  /\ fault' = "use after free"
  /\ UNCHANGED <<gateway, backlog, listener, worker, request, main, answered>>

\* close(fd) without sem_post on the path where the client sent nothing.
WrongHangUp(c) ==
  /\ Sane /\ ~Freed
  /\ worker[c] = "reading" /\ request[c] = "gone"
  /\ worker' = [worker EXCEPT ![c] = "closed"]
  /\ UNCHANGED <<gateway, backlog, listener, request, main, fault, answered>>

\* read_request returns NULL: close and post.
HangUp(c) ==
  /\ Sane /\ ~Freed
  /\ worker[c] = "reading" /\ request[c] = "gone"
  /\ worker' = [worker EXCEPT ![c] = "closed"]
  /\ slots' = slots + 1
  /\ UNCHANGED <<running, open, owner, backlog, listener, request, main, fault, answered>>

\* The route is chosen; handle_chat has validated the message.
Route(c) ==
  /\ Sane /\ ~Freed
  /\ worker[c] = "reading" /\ request[c] \in {"chat", "other"}
  /\ worker' = [worker EXCEPT ![c] = IF request[c] = "chat" THEN "locking" ELSE "serving"]
  /\ UNCHANGED <<gateway, backlog, listener, request, main, fault, answered>>

\* agent_chat called without the mutex.
WrongBeginChat(c) ==
  /\ Sane /\ ~Freed
  /\ worker[c] = "locking"
  /\ worker' = [worker EXCEPT ![c] = "chatting"]
  /\ UNCHANGED <<gateway, backlog, listener, request, main, fault, answered>>

\* pthread_mutex_lock(&gw->agent_mutex), and agent_chat begins.
BeginChat(c) ==
  /\ Sane /\ ~Freed
  /\ worker[c] = "locking"
  /\ owner = Nobody
  /\ owner' = c
  /\ worker' = [worker EXCEPT ![c] = "chatting"]
  /\ UNCHANGED <<running, open, slots, backlog, listener, request, main, fault, answered>>

\* agent_chat returns and the mutex is released.
EndChat(c) ==
  /\ Sane /\ ~Freed
  /\ worker[c] = "chatting"
  /\ owner' = Nobody
  /\ worker' = [worker EXCEPT ![c] = "answering"]
  /\ answered' = answered \cup {c}
  /\ UNCHANGED <<running, open, slots, backlog, listener, request, main, fault>>

\* sem_post in the handler as well as at the end of the thread.
WrongFinish(c) ==
  /\ Sane /\ ~Freed
  /\ worker[c] \in {"answering", "serving"}
  /\ worker' = [worker EXCEPT ![c] = "closed"]
  /\ slots' = slots + 2
  /\ UNCHANGED <<running, open, owner, backlog, listener, request, main, fault, answered>>

\* The reply is sent, the connection closed and the slot posted.
Finish(c) ==
  /\ Sane /\ ~Freed
  /\ worker[c] \in {"answering", "serving"}
  /\ worker' = [worker EXCEPT ![c] = "closed"]
  /\ slots' = slots + 1
  /\ UNCHANGED <<running, open, owner, backlog, listener, request, main, fault, answered>>

WorkerStep(c) ==
  HangUp(c) \/ Route(c) \/ BeginChat(c) \/ EndChat(c) \/ Finish(c) \/ UseAfterFree(c)

-----------------------------------------------------------------------------
(* run_daemon, and the part of cleanup that destroys the gateway.          *)

\* gateway_start succeeds.
Start ==
  /\ Sane
  /\ main = "created"
  /\ running' = TRUE
  /\ open' = TRUE
  /\ listener' = "top"
  /\ main' = "serving"
  /\ UNCHANGED <<slots, owner, backlog, worker, request, fault, answered>>

\* socket, bind or listen fails: run_daemon goes straight to cleanup.
StartFails ==
  /\ Sane
  /\ main = "created"
  /\ main' = "stopping"
  /\ UNCHANGED <<gateway, backlog, listener, worker, request, fault, answered>>

\* A signal ends the main loop; gateway_destroy clears running.
Stop ==
  /\ Sane
  /\ main = "serving"
  /\ running' = FALSE
  /\ main' = "stopping"
  /\ UNCHANGED <<open, slots, owner, backlog, listener, worker, request, fault, answered>>

\* The socket closed by nobody.
WrongShutSocket ==
  /\ Sane
  /\ main = "stopping"
  /\ main' = "joining"
  /\ UNCHANGED <<gateway, backlog, listener, worker, request, fault, answered>>

\* shutdown and close: accept fails from now on, queued connections are reset.
ShutSocket ==
  /\ Sane
  /\ main = "stopping"
  /\ open' = FALSE
  /\ backlog' = <<>>
  /\ worker' = [c \in Conns |-> IF worker[c] = "queued" THEN "dropped" ELSE worker[c]]
  /\ main' = "joining"
  /\ UNCHANGED <<running, slots, owner, listener, request, fault, answered>>

\* The listener is not waited for.
WrongJoin ==
  /\ Sane
  /\ main = "joining"
  /\ main' = "joined"
  /\ UNCHANGED <<gateway, backlog, listener, worker, request, fault, answered>>

\* pthread_join(gw->listener): waits for the listener to return, and has no
\* defined behaviour if gateway_start never created it.
Join ==
  /\ Sane
  /\ main = "joining"
  /\ \/ /\ listener = "exited"
        /\ main' = "joined"
        /\ UNCHANGED fault
     \/ /\ listener = "never"
        /\ fault' = "join of no thread"
        /\ UNCHANGED main
  /\ UNCHANGED <<gateway, backlog, listener, worker, request, answered>>

\* The mutex and the semaphore are destroyed and the gateway freed.
Free ==
  /\ Sane
  /\ main = "joined"
  /\ main' = "freed"
  /\ UNCHANGED <<gateway, backlog, listener, worker, request, fault, answered>>

\* The rest of cleanup (it joins the scheduler's thread, frees the agent and the
\* provider), and the process is gone with every worker in it.
Exit ==
  /\ Sane
  /\ main = "freed"
  /\ main' = "exited"
  /\ UNCHANGED <<gateway, backlog, listener, worker, request, fault, answered>>

Launch   == Start \/ StartFails
Shutdown == ShutSocket \/ Join \/ Free \/ Exit

Next ==
  \/ \E c \in Conns : Connect(c) \/ Send(c) \/ WorkerStep(c)
  \/ ListenerStep
  \/ AcceptErrs
  \/ Launch
  \/ Stop
  \/ Shutdown

Spec == Init /\ [][Next]_vars

\* The threads of the process are scheduled.  A client may stay silent for ever,
\* a signal may never come, and errors of accept do not go on for ever.
ThreadFairness ==
  /\ WF_vars(ListenerStep)
  /\ SF_vars(Accept)
  /\ \A c \in Conns : WF_vars(WorkerStep(c))
  /\ WF_vars(Launch)
  /\ WF_vars(Shutdown)

FairSpec == Spec /\ ThreadFairness

\* Every client that has connected also sends its request or hangs up.
PromptSpec == FairSpec /\ \A c \in Conns : WF_vars(Send(c))

-----------------------------------------------------------------------------

\* Every variable keeps the type the code gives it; in particular the semaphore
\* never holds more than its initial count.
TypeOK ==
  /\ running \in BOOLEAN
  /\ open \in BOOLEAN
  /\ backlog \in Seq(Conns)
  /\ slots \in 0..Slots
  /\ owner \in Conns \cup {Nobody}
  /\ listener \in ListenerAt
  /\ worker \in [Conns -> WorkerAt]
  /\ request \in [Conns -> Requests]
  /\ main \in MainAt
  /\ fault \in Faults
  /\ answered \in SUBSET Conns

\* No slot is lost or made up: each is in the semaphore, in the hands of the
\* listener or with exactly one worker, on every exit path of both threads.
SlotsConserved == slots + ListenerHolds + Cardinality(Working) = Slots

\* gateway.h: "bounded worker threads (GATEWAY_MAX_THREADS)".
WorkersBounded == Cardinality(Working) <= Slots

\* At most one worker is in agent_chat, and it is the owner of the mutex.
AgentExclusive == \A c \in Conns : worker[c] = "chatting" <=> owner = c

\* Once gateway_destroy has joined the listener, that thread is over, whatever it
\* was doing when it was asked to stop, and no connection gets a worker.
NoWorkAfterJoin ==
  [][(main \in {"joined", "freed"})
       => listener = "exited" /\ Working' \subseteq Working]_vars

\* The gateway as an abstract server of turns, run one at a time.
Chatting == {c \in Conns : worker[c] = "chatting"}

Serial == INSTANCE SerialChat
  WITH Requests <- Conns,
       current  <- IF Chatting = {} THEN Nobody ELSE CHOOSE c \in Chatting : TRUE,
       finished <- answered

\* No interleaving of the workers makes agent_chat run twice at once or twice for
\* one request.
ImplementsSerialChat == Serial!Spec

\* Where clients do not stay silent, every connection that reaches the backlog is
\* served, or dropped for want of a thread, unless the daemon is stopped.
RequestsServed ==
  \A c \in Conns :
    worker[c] = "queued" ~> (worker[c] \in {"closed", "dropped"} \/ ~running)

\* gateway.h: "Graceful shutdown."  A gateway that was started and is being
\* destroyed sees its listener return.
ShutdownCompletes ==
  (main = "stopping" /\ listener # "never") ~> main \notin {"stopping", "joining"}

\* gateway.h: "@agent: Agent instance (must outlive gateway)", "Graceful
\* shutdown": what a worker uses is there as long as the worker uses it.
NoUseAfterFree == fault # "use after free"
=============================================================================
