---------------------------- MODULE GatewayProofs ----------------------------
(***************************************************************************)
(* Proofs about the threads of module Gateway, for every set of            *)
(* connections and every number of slots.                                  *)
(***************************************************************************)
EXTENDS Gateway, FiniteSetTheorems, SequenceTheorems, TLAPS

-----------------------------------------------------------------------------
(* Counting the workers.                                                   *)

LEMMA WorkingFinite == IsFiniteSet(Working) /\ Cardinality(Working) \in Nat
BY GatewayAssumption, FS_Subset, FS_CardinalityType DEF Working

\* A worker is created for a connection that had none.
LEMMA OneWorkerMore ==
  ASSUME worker \in [Conns -> WorkerAt], NEW c \in Conns, NEW s \in Alive,
         worker[c] \notin Alive, worker' = [worker EXCEPT ![c] = s]
  PROVE  Cardinality(Working') = Cardinality(Working) + 1
<1>1. Working' = Working \cup {c} /\ c \notin Working
  BY DEF Working
<1> QED
  BY <1>1, WorkingFinite, FS_AddElement

\* A worker ends.
LEMMA OneWorkerLess ==
  ASSUME worker \in [Conns -> WorkerAt], NEW c \in Conns, NEW s, s \notin Alive,
         worker[c] \in Alive, worker' = [worker EXCEPT ![c] = s]
  PROVE  Cardinality(Working') = Cardinality(Working) - 1
<1>1. Working' = Working \ {c} /\ c \in Working
  BY DEF Working
<1> QED
  BY <1>1, WorkingFinite, FS_RemoveElement

\* A worker moves on.
LEMMA SameWorkers ==
  ASSUME worker \in [Conns -> WorkerAt], NEW c \in Conns, NEW s,
         s \in Alive <=> worker[c] \in Alive, worker' = [worker EXCEPT ![c] = s]
  PROVE  Working' = Working
BY DEF Working

-----------------------------------------------------------------------------
(* The inductive invariant.                                                *)

\* The backlog holds each connection once, and only connections without a worker.
BacklogInv ==
  /\ \A i \in 1..Len(backlog) : worker[backlog[i]] = "queued"
  /\ \A i, j \in 1..Len(backlog) : backlog[i] = backlog[j] => i = j

\* Past the join there is no listener.
JoinedInv ==
  /\ main \in {"joined", "freed"} => listener = "exited"
  /\ main = "created" => listener = "never"

\* A turn that is over is over for good.
AnsweredInv ==
  \A c \in Conns : c \in answered => worker[c] \in {"answering", "closed"}

Types ==
  /\ running \in BOOLEAN
  /\ open \in BOOLEAN
  /\ backlog \in Seq(Conns)
  /\ slots \in Nat
  /\ owner \in Conns \cup {Nobody}
  /\ listener \in ListenerAt
  /\ worker \in [Conns -> WorkerAt]
  /\ request \in [Conns -> Requests]
  /\ main \in MainAt
  /\ fault \in Faults
  /\ answered \in SUBSET Conns

IInv ==
  /\ Types
  /\ SlotsConserved
  /\ AgentExclusive
  /\ BacklogInv
  /\ JoinedInv
  /\ AnsweredInv

LEMMA InitIInv == Init => IInv
<1> SUFFICES ASSUME Init PROVE IInv
  OBVIOUS
<1>1. Types
  <2>1. running \in BOOLEAN /\ open \in BOOLEAN
    BY DEF Init
  <2>2. backlog \in Seq(Conns)
    BY DEF Init
  <2> QED
    BY <2>1, <2>2, GatewayAssumption
       DEF Init, Types, ListenerAt, WorkerAt, Requests, MainAt, Faults
<1>2. Working = {}
  BY DEF Init, Working, Alive
<1>3. SlotsConserved
  BY <1>2, FS_EmptySet, GatewayAssumption DEF Init, SlotsConserved, ListenerHolds
<1>4. AgentExclusive /\ AnsweredInv
  BY GatewayAssumption DEF Init, AgentExclusive, AnsweredInv
<1>5. BacklogInv
  BY DEF Init, BacklogInv
<1>6. JoinedInv
  BY DEF Init, JoinedInv
<1> QED
  BY <1>1, <1>3, <1>4, <1>5, <1>6 DEF IInv

\* Steps that move one worker along without creating or ending it, and leave the
\* listener, the backlog and the main thread alone.
LEMMA WorkerMoves ==
  ASSUME IInv, NEW c \in Conns, NEW s \in Alive,
         worker[c] \in Alive, worker' = [worker EXCEPT ![c] = s]
  PROVE  /\ Working' = Working
         /\ worker' \in [Conns -> WorkerAt]
         /\ \A i \in 1..Len(backlog) : worker'[backlog[i]] = "queued"
<1>1. Working' = Working
  BY SameWorkers DEF IInv, Types
<1>2. worker' \in [Conns -> WorkerAt]
  BY DEF IInv, Types, Alive, WorkerAt
<1>3. \A i \in 1..Len(backlog) : backlog[i] \in Conns /\ backlog[i] # c
  BY DEF IInv, Types, BacklogInv, Alive
<1> QED
  BY <1>1, <1>2, <1>3 DEF IInv, Types, BacklogInv

LEMMA WorkerEnds ==
  ASSUME IInv, NEW c \in Conns,
         worker[c] \in Alive, worker' = [worker EXCEPT ![c] = "closed"]
  PROVE  /\ Cardinality(Working') = Cardinality(Working) - 1
         /\ worker' \in [Conns -> WorkerAt]
         /\ \A i \in 1..Len(backlog) : worker'[backlog[i]] = "queued"
<1>1. Cardinality(Working') = Cardinality(Working) - 1
  BY OneWorkerLess DEF IInv, Types, Alive
<1>2. worker' \in [Conns -> WorkerAt]
  BY DEF IInv, Types, WorkerAt
<1>3. \A i \in 1..Len(backlog) : backlog[i] \in Conns /\ backlog[i] # c
  BY DEF IInv, Types, BacklogInv, Alive
<1> QED
  BY <1>1, <1>2, <1>3 DEF IInv, Types, BacklogInv

\* A worker that ends posts its slot.
LEMMA SlotPosted ==
  ASSUME Types, SlotsConserved, listener' = listener, slots' = slots + 1,
         Cardinality(Working') = Cardinality(Working) - 1
  PROVE  SlotsConserved'
<1>1. ListenerHolds' = ListenerHolds /\ ListenerHolds \in Nat
  BY DEF ListenerHolds
<1>2. slots \in Nat /\ Cardinality(Working) \in Nat /\ Slots \in Nat
  BY WorkingFinite, GatewayAssumption DEF Types
<1>3. slots + ListenerHolds + Cardinality(Working) = Slots
  BY DEF SlotsConserved
<1>4. slots' + ListenerHolds' + Cardinality(Working') = Slots
  BY <1>1, <1>2, <1>3
<1> QED
  BY <1>4 DEF SlotsConserved

\* The steps of a worker keep the invariant.
LEMMA WorkerStepIInv ==
  ASSUME IInv, NEW c \in Conns, WorkerStep(c)
  PROVE  IInv'
<1> USE DEF IInv
<1>0. Cardinality(Working) \in Nat /\ Types
  BY WorkingFinite
<1>1. CASE HangUp(c)
  <2>1. /\ worker[c] = "reading" /\ worker[c] \in Alive
        /\ worker' = [worker EXCEPT ![c] = "closed"] /\ slots' = slots + 1
        /\ UNCHANGED <<running, open, owner, backlog, listener, request, main, fault, answered>>
    BY <1>1 DEF HangUp, Alive
  <2>2. /\ Cardinality(Working') = Cardinality(Working) - 1
        /\ worker' \in [Conns -> WorkerAt]
        /\ \A i \in 1..Len(backlog) : worker'[backlog[i]] = "queued"
    BY <2>1, WorkerEnds
  <2>3. Types'
    BY <1>0, <2>1, <2>2 DEF Types
  <2>4. SlotsConserved'
    BY <1>0, <2>1, <2>2, SlotPosted
  <2>5. AgentExclusive' /\ AnsweredInv'
    BY <1>0, <2>1 DEF Types, AgentExclusive, AnsweredInv
  <2>6. BacklogInv' /\ JoinedInv'
    BY <2>1, <2>2 DEF BacklogInv, JoinedInv
  <2> QED
    BY <2>3, <2>4, <2>5, <2>6
<1>2. CASE Finish(c)
  <2>1. /\ worker[c] \in {"answering", "serving"} /\ worker[c] \in Alive
        /\ worker' = [worker EXCEPT ![c] = "closed"] /\ slots' = slots + 1
        /\ UNCHANGED <<running, open, owner, backlog, listener, request, main, fault, answered>>
    BY <1>2 DEF Finish, Alive
  <2>2. /\ Cardinality(Working') = Cardinality(Working) - 1
        /\ worker' \in [Conns -> WorkerAt]
        /\ \A i \in 1..Len(backlog) : worker'[backlog[i]] = "queued"
    BY <2>1, WorkerEnds
  <2>3. Types'
    BY <1>0, <2>1, <2>2 DEF Types
  <2>4. SlotsConserved'
    BY <1>0, <2>1, <2>2, SlotPosted
  <2>5. AgentExclusive' /\ AnsweredInv'
    BY <1>0, <2>1 DEF Types, AgentExclusive, AnsweredInv
  <2>6. BacklogInv' /\ JoinedInv'
    BY <2>1, <2>2 DEF BacklogInv, JoinedInv
  <2> QED
    BY <2>3, <2>4, <2>5, <2>6
<1>3. CASE Route(c)
  <2> DEFINE s == IF request[c] = "chat" THEN "locking" ELSE "serving"
  <2>1. /\ worker[c] = "reading" /\ worker[c] \in Alive /\ s \in Alive
        /\ worker' = [worker EXCEPT ![c] = s]
        /\ s \in {"locking", "serving"}
        /\ UNCHANGED <<gateway, backlog, listener, request, main, fault, answered>>
    BY <1>3 DEF Route, Alive
  <2> HIDE DEF s
  <2>2. /\ Working' = Working
        /\ worker' \in [Conns -> WorkerAt]
        /\ \A i \in 1..Len(backlog) : worker'[backlog[i]] = "queued"
    BY <2>1, WorkerMoves
  <2>3. Types'
    BY <1>0, <2>1, <2>2 DEF Types, gateway
  <2>4. SlotsConserved'
    BY <2>1, <2>2 DEF SlotsConserved, ListenerHolds, gateway
  <2>5. AgentExclusive' /\ AnsweredInv'
    BY <1>0, <2>1 DEF Types, AgentExclusive, AnsweredInv, gateway
  <2>6. BacklogInv' /\ JoinedInv'
    BY <2>1, <2>2 DEF BacklogInv, JoinedInv
  <2> QED
    BY <2>3, <2>4, <2>5, <2>6
<1>4. CASE BeginChat(c)
  <2>1. /\ worker[c] = "locking" /\ worker[c] \in Alive /\ "chatting" \in Alive
        /\ worker' = [worker EXCEPT ![c] = "chatting"]
        /\ owner = Nobody /\ owner' = c
        /\ UNCHANGED <<running, open, slots, backlog, listener, request, main, fault, answered>>
    BY <1>4 DEF BeginChat, Alive
  <2>2. /\ Working' = Working
        /\ worker' \in [Conns -> WorkerAt]
        /\ \A i \in 1..Len(backlog) : worker'[backlog[i]] = "queued"
    BY <2>1, WorkerMoves
  <2>3. Types'
    BY <1>0, <2>1, <2>2 DEF Types
  <2>4. SlotsConserved'
    BY <2>1, <2>2 DEF SlotsConserved, ListenerHolds
  <2>5. AgentExclusive' /\ AnsweredInv'
    BY <1>0, <2>1, GatewayAssumption DEF Types, AgentExclusive, AnsweredInv
  <2>6. BacklogInv' /\ JoinedInv'
    BY <2>1, <2>2 DEF BacklogInv, JoinedInv
  <2> QED
    BY <2>3, <2>4, <2>5, <2>6
<1>5. CASE EndChat(c)
  <2>1. /\ worker[c] = "chatting" /\ worker[c] \in Alive /\ "answering" \in Alive
        /\ worker' = [worker EXCEPT ![c] = "answering"]
        /\ owner' = Nobody /\ answered' = answered \cup {c}
        /\ UNCHANGED <<running, open, slots, backlog, listener, request, main, fault>>
    BY <1>5 DEF EndChat, Alive
  <2>2. /\ Working' = Working
        /\ worker' \in [Conns -> WorkerAt]
        /\ \A i \in 1..Len(backlog) : worker'[backlog[i]] = "queued"
    BY <2>1, WorkerMoves
  <2>3. Types'
    BY <1>0, <2>1, <2>2 DEF Types
  <2>4. SlotsConserved'
    BY <2>1, <2>2 DEF SlotsConserved, ListenerHolds
  <2>5. owner = c
    BY <2>1 DEF AgentExclusive
  <2>6. AgentExclusive' /\ AnsweredInv'
    BY <1>0, <2>1, <2>5, GatewayAssumption DEF Types, AgentExclusive, AnsweredInv
  <2>7. BacklogInv' /\ JoinedInv'
    BY <2>1, <2>2 DEF BacklogInv, JoinedInv
  <2> QED
    BY <2>3, <2>4, <2>6, <2>7
<1>6. CASE UseAfterFree(c)
  BY <1>6, ZenonT(60) DEF UseAfterFree, Types, Faults, SlotsConserved, ListenerHolds, Working,
              AgentExclusive, BacklogInv, JoinedInv, AnsweredInv, gateway
<1> QED
  BY <1>1, <1>2, <1>3, <1>4, <1>5, <1>6 DEF WorkerStep

\* The steps of the listener keep the invariant.
LEMMA ListenerStepIInv ==
  ASSUME IInv, ListenerStep \/ AcceptErrs
  PROVE  IInv'
<1> USE DEF IInv
<1>0. Cardinality(Working) \in Nat /\ Types /\ Slots \in Nat
  BY WorkingFinite, GatewayAssumption
<1>k. slots \in Nat /\ slots + ListenerHolds + Cardinality(Working) = Slots
  BY DEF Types, SlotsConserved
<1>j. listener # "exited" /\ listener # "never" => main \notin {"joined", "freed", "created"}
  BY DEF JoinedInv
<1>1. CASE CheckRunning
  <2>1. /\ listener = "top" /\ listener' \in {"wait", "exited"}
        /\ UNCHANGED <<gateway, backlog, worker, request, main, fault, answered>>
    BY <1>1 DEF CheckRunning
  <2>2. Working' = Working
    BY <2>1 DEF Working
  <2>3. Types'
    BY <1>0, <2>1 DEF Types, gateway, ListenerAt
  <2>4. SlotsConserved'
    BY <2>1, <2>2 DEF SlotsConserved, ListenerHolds, gateway
  <2>5. AgentExclusive' /\ AnsweredInv' /\ BacklogInv' /\ JoinedInv'
    BY <1>j, <2>1 DEF AgentExclusive, AnsweredInv, BacklogInv, JoinedInv, gateway
  <2> QED
    BY <2>3, <2>4, <2>5
<1>2. CASE TakeSlot
  <2>1. /\ listener = "wait" /\ listener' = "recheck" /\ slots > 0 /\ slots' = slots - 1
        /\ UNCHANGED <<running, open, owner, backlog, worker, request, main, fault, answered>>
    BY <1>2 DEF TakeSlot
  <2>2. Working' = Working /\ ListenerHolds = 0 /\ ListenerHolds' = 1
    BY <2>1 DEF Working, ListenerHolds
  <2>3. Types'
    BY <1>0, <2>1 DEF Types, ListenerAt
  <2>4. SlotsConserved'
    BY <1>0, <1>k, <2>1, <2>2 DEF SlotsConserved
  <2>5. AgentExclusive' /\ AnsweredInv' /\ BacklogInv' /\ JoinedInv'
    BY <1>j, <2>1 DEF AgentExclusive, AnsweredInv, BacklogInv, JoinedInv
  <2> QED
    BY <2>3, <2>4, <2>5
<1>3. CASE Recheck
  <2>1. /\ listener = "recheck"
        /\ \/ listener' = "accept" /\ slots' = slots
           \/ listener' = "exited" /\ slots' = slots + 1
        /\ UNCHANGED <<running, open, owner, backlog, worker, request, main, fault, answered>>
    BY <1>3 DEF Recheck
  <2>2. /\ Working' = Working /\ ListenerHolds = 1
        /\ ListenerHolds' = IF listener' = "accept" THEN 1 ELSE 0
    BY <2>1 DEF Working, ListenerHolds
  <2>3. Types'
    BY <1>0, <2>1 DEF Types, ListenerAt
  <2>4. SlotsConserved'
    BY <1>0, <1>k, <2>1, <2>2 DEF SlotsConserved
  <2>5. AgentExclusive' /\ AnsweredInv' /\ BacklogInv' /\ JoinedInv'
    BY <1>j, <2>1 DEF AgentExclusive, AnsweredInv, BacklogInv, JoinedInv
  <2> QED
    BY <2>3, <2>4, <2>5
<1>4. CASE Accept
  <2> DEFINE c == Head(backlog)
  <2>1. /\ listener = "accept" /\ listener' = "top" /\ backlog # <<>>
        /\ worker' = [worker EXCEPT ![c] = "reading"] /\ backlog' = Tail(backlog)
        /\ UNCHANGED <<gateway, request, main, fault, answered>>
    BY <1>4 DEF Accept
  <2>2. /\ c \in Conns /\ worker[c] = "queued" /\ backlog' \in Seq(Conns)
        /\ \A i \in 1..Len(backlog') : /\ backlog'[i] = backlog[i + 1]
                                       /\ i + 1 \in 1..Len(backlog)
                                       /\ backlog'[i] # c
        /\ Len(backlog') = Len(backlog) - 1
    BY <1>0, <2>1 DEF Types, BacklogInv
  <2> HIDE DEF c
  <2>3. Cardinality(Working') = Cardinality(Working) + 1
    BY <1>0, <2>1, <2>2, OneWorkerMore DEF Types, Alive
  <2>4. ListenerHolds = 1 /\ ListenerHolds' = 0
    BY <2>1 DEF ListenerHolds
  <2>5. Types'
    BY <1>0, <2>1, <2>2 DEF Types, ListenerAt, WorkerAt, gateway
  <2>6. SlotsConserved'
    BY <1>0, <1>k, <2>1, <2>3, <2>4 DEF SlotsConserved, gateway
  <2>7. AgentExclusive' /\ AnsweredInv'
    BY <1>0, <2>1, <2>2 DEF Types, AgentExclusive, AnsweredInv, gateway
  <2>8. BacklogInv'
    <3>1. \A i \in 1..Len(backlog') : worker'[backlog'[i]] = "queued"
      BY <1>0, <2>1, <2>2 DEF Types, BacklogInv
    <3>2. ASSUME NEW i \in 1..Len(backlog'), NEW j \in 1..Len(backlog'),
                 backlog'[i] = backlog'[j]
          PROVE  i = j
      <4>1. backlog[i + 1] = backlog[j + 1]
        BY <2>2, <3>2
      <4>2. i + 1 = j + 1
        BY <2>2, <4>1 DEF BacklogInv
      <4> QED
        BY <4>2
    <3> QED
      BY <3>1, <3>2 DEF BacklogInv
  <2>9. JoinedInv'
    BY <1>j, <2>1 DEF JoinedInv
  <2> QED
    BY <2>5, <2>6, <2>7, <2>8, <2>9
<1>5. CASE AcceptDrops
  <2> DEFINE c == Head(backlog)
  <2>1. /\ listener = "accept" /\ listener' = "top" /\ backlog # <<>>
        /\ worker' = [worker EXCEPT ![c] = "dropped"] /\ backlog' = Tail(backlog)
        /\ slots' = slots + 1
        /\ UNCHANGED <<running, open, owner, request, main, fault, answered>>
    BY <1>5 DEF AcceptDrops
  <2>2. /\ c \in Conns /\ worker[c] = "queued" /\ backlog' \in Seq(Conns)
        /\ \A i \in 1..Len(backlog') : /\ backlog'[i] = backlog[i + 1]
                                       /\ i + 1 \in 1..Len(backlog)
                                       /\ backlog'[i] # c
        /\ Len(backlog') = Len(backlog) - 1
    BY <1>0, <2>1 DEF Types, BacklogInv
  <2> HIDE DEF c
  <2>3. Working' = Working
    BY <1>0, <2>1, <2>2 DEF Working, Types, Alive
  <2>4. ListenerHolds = 1 /\ ListenerHolds' = 0
    BY <2>1 DEF ListenerHolds
  <2>5. Types'
    BY <1>0, <2>1, <2>2 DEF Types, ListenerAt, WorkerAt
  <2>6. SlotsConserved'
    BY <1>0, <1>k, <2>1, <2>3, <2>4 DEF SlotsConserved
  <2>7. AgentExclusive' /\ AnsweredInv'
    BY <1>0, <2>1, <2>2 DEF Types, AgentExclusive, AnsweredInv
  <2>8. BacklogInv'
    <3>1. \A i \in 1..Len(backlog') : worker'[backlog'[i]] = "queued"
      BY <1>0, <2>1, <2>2 DEF Types, BacklogInv
    <3>2. ASSUME NEW i \in 1..Len(backlog'), NEW j \in 1..Len(backlog'),
                 backlog'[i] = backlog'[j]
          PROVE  i = j
      <4>1. backlog[i + 1] = backlog[j + 1]
        BY <2>2, <3>2
      <4>2. i + 1 = j + 1
        BY <2>2, <4>1 DEF BacklogInv
      <4> QED
        BY <4>2
    <3> QED
      BY <3>1, <3>2 DEF BacklogInv
  <2>9. JoinedInv'
    BY <1>j, <2>1 DEF JoinedInv
  <2> QED
    BY <2>5, <2>6, <2>7, <2>8, <2>9
<1>6. CASE AcceptFails \/ AcceptErrs
  <2>1. /\ listener = "accept" /\ listener' \in {"top", "exited"} /\ slots' = slots + 1
        /\ UNCHANGED <<running, open, owner, backlog, worker, request, main, fault, answered>>
    BY <1>6 DEF AcceptFails, AcceptErrs
  <2>2. Working' = Working /\ ListenerHolds = 1 /\ ListenerHolds' = 0
    BY <2>1 DEF Working, ListenerHolds
  <2>3. Types'
    BY <1>0, <2>1 DEF Types, ListenerAt
  <2>4. SlotsConserved'
    BY <1>0, <1>k, <2>1, <2>2 DEF SlotsConserved
  <2>5. AgentExclusive' /\ AnsweredInv' /\ BacklogInv' /\ JoinedInv'
    BY <1>j, <2>1 DEF AgentExclusive, AnsweredInv, BacklogInv, JoinedInv
  <2> QED
    BY <2>3, <2>4, <2>5
<1> QED
  BY <1>1, <1>2, <1>3, <1>4, <1>5, <1>6 DEF ListenerStep

\* What a client does keeps the invariant.
LEMMA ClientStepIInv ==
  ASSUME IInv, NEW c \in Conns, Connect(c) \/ Send(c)
  PROVE  IInv'
<1> USE DEF IInv
<1>0. Types
  OBVIOUS
<1>1. CASE Connect(c)
  <2>1. /\ worker[c] = "none" /\ worker' = [worker EXCEPT ![c] = "queued"]
        /\ backlog' = Append(backlog, c)
        /\ UNCHANGED <<gateway, listener, request, main, fault, answered>>
    BY <1>1 DEF Connect
  <2>2. Working' = Working
    BY <1>0, <2>1 DEF Working, Types, Alive
  <2>3. /\ backlog \in Seq(Conns) /\ backlog' \in Seq(Conns)
        /\ Len(backlog') = Len(backlog) + 1 /\ backlog'[Len(backlog) + 1] = c
        /\ \A i \in 1..Len(backlog) : backlog'[i] = backlog[i] /\ backlog[i] # c
    BY <1>0, <2>1, AppendProperties DEF Types, BacklogInv
  <2>4. Types'
    BY <1>0, <2>1, <2>3 DEF Types, WorkerAt, gateway
  <2>5. SlotsConserved'
    BY <2>1, <2>2 DEF SlotsConserved, ListenerHolds, gateway
  <2>6. AgentExclusive' /\ AnsweredInv' /\ JoinedInv'
    BY <1>0, <2>1 DEF Types, AgentExclusive, AnsweredInv, JoinedInv, gateway
  <2>7. BacklogInv'
    BY <1>0, <2>1, <2>3 DEF Types, BacklogInv
  <2> QED
    BY <2>4, <2>5, <2>6, <2>7
<1>2. CASE Send(c)
  <2>1. /\ request' \in [Conns -> Requests]
        /\ UNCHANGED <<gateway, backlog, listener, worker, main, fault, answered>>
    BY <1>0, <1>2 DEF Send, Types, Requests
  <2> QED
    BY <1>0, <2>1 DEF Types, SlotsConserved, ListenerHolds, Working, AgentExclusive,
                      BacklogInv, JoinedInv, AnsweredInv, gateway
<1> QED
  BY <1>1, <1>2

\* What the main thread does keeps the invariant.
LEMMA MainStepIInv ==
  ASSUME IInv, Launch \/ Stop \/ Shutdown
  PROVE  IInv'
<1> USE DEF IInv
<1>0. Types
  OBVIOUS
<1>1. CASE Start
  <2>1. /\ main = "created" /\ main' = "serving" /\ listener' = "top"
        /\ running' = TRUE /\ open' = TRUE
        /\ UNCHANGED <<slots, owner, backlog, worker, request, fault, answered>>
    BY <1>1 DEF Start
  <2>2. listener = "never" /\ Working' = Working
    BY <2>1 DEF JoinedInv, Working
  <2>3. running' \in BOOLEAN /\ open' \in BOOLEAN
    BY <2>1
  <2>4. Types'
    BY <1>0, <2>1, <2>3 DEF Types, ListenerAt, MainAt
  <2>5. SlotsConserved'
    BY <2>1, <2>2 DEF SlotsConserved, ListenerHolds
  <2>6. AgentExclusive' /\ AnsweredInv' /\ BacklogInv' /\ JoinedInv'
    BY <2>1 DEF AgentExclusive, AnsweredInv, BacklogInv, JoinedInv
  <2> QED
    BY <2>4, <2>5, <2>6
<1>2. CASE StartFails \/ Free \/ Exit
  <2>1. /\ \/ main = "created" /\ main' = "stopping"
           \/ main = "joined" /\ main' = "freed"
           \/ main = "freed" /\ main' = "exited"
        /\ UNCHANGED <<gateway, backlog, listener, worker, request, fault, answered>>
    BY <1>2 DEF StartFails, Free, Exit
  <2>2. Types'
    BY <1>0, <2>1 DEF Types, MainAt, gateway
  <2>3. JoinedInv'
    BY <2>1 DEF JoinedInv
  <2> QED
    BY <2>1, <2>2, <2>3 DEF SlotsConserved, ListenerHolds, Working, AgentExclusive,
                            AnsweredInv, BacklogInv, gateway
<1>3. CASE Stop
  <2>1. /\ main = "serving" /\ main' = "stopping" /\ running' = FALSE
        /\ UNCHANGED <<open, slots, owner, backlog, listener, worker, request, fault, answered>>
    BY <1>3 DEF Stop
  <2>2. running' \in BOOLEAN
    BY <2>1
  <2>3. Types'
    BY <1>0, <2>1, <2>2 DEF Types, MainAt
  <2>4. JoinedInv'
    BY <2>1 DEF JoinedInv
  <2> QED
    BY <2>1, <2>3, <2>4 DEF SlotsConserved, ListenerHolds, Working, AgentExclusive,
                            AnsweredInv, BacklogInv
<1>4. CASE ShutSocket
  <2>1. /\ main = "stopping" /\ main' = "joining" /\ open' = FALSE /\ backlog' = <<>>
        /\ worker' = [c \in Conns |-> IF worker[c] = "queued" THEN "dropped" ELSE worker[c]]
        /\ UNCHANGED <<running, slots, owner, listener, request, fault, answered>>
    BY <1>4 DEF ShutSocket
  <2>2. Working' = Working
    BY <2>1 DEF Working, Alive
  <2>3. open' \in BOOLEAN /\ backlog' \in Seq(Conns) /\ Len(backlog') = 0
    <3>1. open' \in BOOLEAN
      BY <2>1
    <3>2. backlog' \in Seq(Conns) /\ Len(backlog') = 0
      BY <2>1
    <3> QED
      BY <3>1, <3>2
  <2>4. Types'
    BY <1>0, <2>1, <2>3 DEF Types, MainAt, WorkerAt
  <2>5. SlotsConserved'
    BY <2>1, <2>2 DEF SlotsConserved, ListenerHolds
  <2>6. AgentExclusive' /\ AnsweredInv' /\ JoinedInv'
    BY <1>0, <2>1 DEF Types, AgentExclusive, AnsweredInv, JoinedInv
  <2>7. BacklogInv'
    BY <2>3 DEF BacklogInv
  <2> QED
    BY <2>4, <2>5, <2>6, <2>7
<1>5. CASE Join
  <2>1. /\ \/ listener = "exited" /\ main' = "joined" /\ fault' = fault
           \/ main' = main /\ main = "joining" /\ fault' = "join of no thread"
        /\ UNCHANGED <<gateway, backlog, listener, worker, request, answered>>
    BY <1>5 DEF Join
  <2>2. Types'
    BY <1>0, <2>1 DEF Types, MainAt, Faults, gateway
  <2>3. JoinedInv'
    BY <2>1 DEF JoinedInv
  <2> QED
    BY <2>1, <2>2, <2>3 DEF SlotsConserved, ListenerHolds, Working, AgentExclusive,
                            AnsweredInv, BacklogInv, gateway
<1> QED
  BY <1>1, <1>2, <1>3, <1>4, <1>5 DEF Launch, Shutdown

LEMMA NextIInv ==
  ASSUME IInv, [Next]_vars
  PROVE  IInv'
<1>1. CASE Next
  BY <1>1, WorkerStepIInv, ListenerStepIInv, ClientStepIInv, MainStepIInv DEF Next
<1>2. CASE UNCHANGED vars
  BY <1>2 DEF IInv, Types, SlotsConserved, ListenerHolds, Working, AgentExclusive,
              BacklogInv, JoinedInv, AnsweredInv, vars, gateway
<1> QED
  BY <1>1, <1>2

THEOREM Invariance == Spec => []IInv
<1>1. Init => IInv
  BY InitIInv
<1>2. IInv /\ [Next]_vars => IInv'
  BY NextIInv
<1> QED
  BY <1>1, <1>2, PTL DEF Spec

-----------------------------------------------------------------------------

\* The threads keep the types of what they share, and the semaphore never holds
\* more than its initial count.
THEOREM TypeCorrect == Spec => []TypeOK
<1>1. IInv => TypeOK
  <2> SUFFICES ASSUME IInv PROVE TypeOK
    OBVIOUS
  <2>1. slots \in 0..Slots
    BY WorkingFinite, GatewayAssumption DEF IInv, Types, SlotsConserved, ListenerHolds
  <2> QED
    BY <2>1 DEF IInv, Types, TypeOK
<1> QED
  BY <1>1, Invariance, PTL

\* No path through the threads loses a slot or makes one up.
THEOREM SlotsAreConserved == Spec => []SlotsConserved
<1>1. IInv => SlotsConserved
  BY DEF IInv
<1> QED
  BY <1>1, Invariance, PTL

\* There are never more workers than slots.
THEOREM WorkersAreBounded == Spec => []WorkersBounded
<1>1. IInv => WorkersBounded
  BY WorkingFinite, GatewayAssumption
     DEF IInv, Types, SlotsConserved, ListenerHolds, WorkersBounded
<1> QED
  BY <1>1, Invariance, PTL

\* The mutex is held by exactly the worker that is in agent_chat.
THEOREM AgentIsExclusive == Spec => []AgentExclusive
<1>1. IInv => AgentExclusive
  BY DEF IInv
<1> QED
  BY <1>1, Invariance, PTL

-----------------------------------------------------------------------------
(* The refinement of SerialChat.                                           *)

Current == IF Chatting = {} THEN Nobody ELSE CHOOSE c \in Chatting : TRUE

\* Under the invariant the request in progress is the owner of the mutex.
LEMMA CurrentIsOwner ==
  ASSUME Types, AgentExclusive
  PROVE  Current = owner
<1>1. CASE owner = Nobody
  <2>1. Chatting = {}
    BY <1>1, GatewayAssumption DEF Chatting, AgentExclusive
  <2> QED
    BY <1>1, <2>1 DEF Current
<1>2. CASE owner # Nobody
  <2>1. owner \in Conns
    BY <1>2 DEF Types
  <2>2. Chatting = {owner}
    BY <2>1 DEF Chatting, AgentExclusive
  <2>3. (CHOOSE c \in Chatting : TRUE) = owner
    BY <2>2
  <2> QED
    BY <2>2, <2>3 DEF Current
<1> QED
  BY <1>1, <1>2

\* Each step of the gateway begins a turn, ends one, or does nothing the abstract
\* server can see.
LEMMA StepRefines ==
  ASSUME IInv, IInv', [Next]_vars
  PROVE  [Serial!Next]_<<Current, answered>>
<1>1. Current = owner /\ Current' = owner'
  <2>1. Current = owner
    BY CurrentIsOwner DEF IInv
  <2>2. Types' /\ AgentExclusive'
    BY DEF IInv
  <2>3. CASE owner' = Nobody
    <3>1. Chatting' = {}
      BY <2>2, <2>3, GatewayAssumption DEF Chatting, AgentExclusive
    <3> QED
      BY <2>1, <2>3, <3>1 DEF Current
  <2>4. CASE owner' # Nobody
    <3>1. owner' \in Conns
      BY <2>2, <2>4 DEF Types
    <3>2. Chatting' = {owner'}
      BY <2>2, <3>1 DEF Chatting, AgentExclusive
    <3> QED
      BY <2>1, <3>2 DEF Current
  <2> QED
    BY <2>3, <2>4
<1>2. ASSUME NEW c \in Conns, BeginChat(c)
      PROVE  Serial!BeginTurn(c)
  <2>1. owner = Nobody /\ owner' = c /\ answered' = answered /\ worker[c] = "locking"
    BY <1>2 DEF BeginChat
  <2>2. c \notin answered
    BY <2>1 DEF IInv, AnsweredInv
  <2> QED
    BY <1>1, <2>1, <2>2 DEF Serial!BeginTurn, Current
<1>3. ASSUME NEW c \in Conns, EndChat(c)
      PROVE  Serial!EndTurn(c)
  <2>1. owner' = Nobody /\ answered' = answered \cup {c} /\ worker[c] = "chatting"
    BY <1>3 DEF EndChat
  <2>2. owner = c
    BY <2>1 DEF IInv, AgentExclusive
  <2> QED
    BY <1>1, <2>1, <2>2 DEF Serial!EndTurn, Current
<1>4. CASE \E c \in Conns : BeginChat(c)
  BY <1>4, <1>2 DEF Serial!Next
<1>5. CASE \E c \in Conns : EndChat(c)
  BY <1>5, <1>3 DEF Serial!Next
<1>6. CASE ~(\E c \in Conns : BeginChat(c)) /\ ~(\E c \in Conns : EndChat(c))
  <2>1. owner' = owner /\ answered' = answered
    BY <1>6 DEF Next, vars, gateway, Connect, Send, WorkerStep, HangUp, Route, Finish,
                UseAfterFree, ListenerStep, CheckRunning, TakeSlot, Recheck, Accept,
                AcceptDrops, AcceptFails, AcceptErrs, Launch, Start, StartFails, Stop,
                Shutdown, ShutSocket, Join, Free, Exit
  <2> QED
    BY <1>1, <2>1
<1> QED
  BY <1>4, <1>5, <1>6

\* The gateway implements the serial server: whatever the threads do, turns of the
\* agent are run one at a time and at most once for each request.
THEOREM GatewayIsSerial == Spec => ImplementsSerialChat
<1>1. Init => Serial!Init
  <2> SUFFICES ASSUME Init PROVE Serial!Init
    OBVIOUS
  <2>1. Chatting = {} /\ answered = {}
    BY DEF Init, Chatting
  <2> QED
    BY <2>1 DEF Serial!Init
<1>2. IInv /\ IInv' /\ [Next]_vars => [Serial!Next]_(Serial!vars)
  BY StepRefines DEF Serial!vars, Current
<1> QED
  BY <1>1, <1>2, Invariance, PTL DEF Spec, ImplementsSerialChat, Serial!Spec

\* No connection gets a worker once gateway_destroy has joined the listener, so the
\* workers that can outlive the gateway are those created before.
THEOREM NoWorkIsAddedAfterJoin == Spec => NoWorkAfterJoin
<1>1. ASSUME IInv, [Next]_vars, main \in {"joined", "freed"}
      PROVE  listener = "exited" /\ Working' \subseteq Working
  <2>0. worker \in [Conns -> WorkerAt] /\ listener = "exited"
    BY <1>1 DEF IInv, Types, JoinedInv
  <2>1. CASE UNCHANGED vars
    BY <2>0, <2>1 DEF vars, Working
  <2>2. CASE \E c \in Conns : Connect(c) \/ Send(c)
    BY <2>0, <2>2 DEF Connect, Send, Working, Alive
  <2>3. CASE \E c \in Conns : WorkerStep(c)
    BY <2>0, <2>3 DEF WorkerStep, HangUp, Route, BeginChat, EndChat, Finish,
                      UseAfterFree, Working, Alive
  <2>4. ~ListenerStep /\ ~AcceptErrs
    BY <2>0 DEF ListenerStep, CheckRunning, TakeSlot, Recheck, Accept, AcceptDrops,
                AcceptFails, AcceptErrs
  <2>5. CASE Launch \/ Stop \/ Shutdown
    BY <1>1, <2>0, <2>5 DEF Launch, Start, StartFails, Stop, Shutdown, ShutSocket, Join,
                      Free, Exit, Working
  <2> QED
    BY <1>1, <2>1, <2>2, <2>3, <2>4, <2>5 DEF Next
<1>2. IInv /\ [Next]_vars =>
        [(main \in {"joined", "freed"})
           => listener = "exited" /\ Working' \subseteq Working]_vars
  BY <1>1
<1> QED
  BY <1>2, Invariance, PTL DEF Spec, NoWorkAfterJoin

=============================================================================
