------------------------------ MODULE AgentProofs ------------------------------
(***************************************************************************)
(* Proofs about the message window of module Agent, for every capacity,    *)
(* every configured limit, every number of iterations and of tool calls.   *)
(***************************************************************************)
EXTENDS Agent, SequenceTheorems, WellFoundedInduction, TLAPS

-----------------------------------------------------------------------------
(* What the operators on the window return.                                *)

\* A nonempty set of naturals has a least element.
LEMMA LeastNatural ==
  ASSUME NEW T, T \subseteq Nat, T # {}
  PROVE  \E x \in T : \A y \in T : x <= y
<1>1. \E x \in T : \A y \in T : ~(<<y, x>> \in OpToRel(<, Nat))
  BY NatLessThanWellFounded, WFMin, Zenon
<1>2. PICK x \in T : \A y \in T : ~(<<y, x>> \in OpToRel(<, Nat))
  BY <1>1
<1>3. \A y \in T : x <= y
  <2>1. TAKE y \in T
  <2>2. ~(<<y, x>> \in OpToRel(<, Nat))
    BY <1>2
  <2>3. x \in Nat /\ y \in Nat
    OBVIOUS
  <2> QED
    BY <2>2, <2>3 DEF OpToRel
<1> QED
  BY <1>3

\* The limit the code derives from the configuration lies within the array.
LEMMA LimitRange ==
  /\ Limit \in 1..Capacity
  /\ Quarter \in Nat
  /\ 1 <= Quarter
  /\ Quarter <= Limit
BY AgentAssumption DEF Limit, Quarter

\* The walk back of agent_compact_history stops inside the oldest quarter, past
\* the system message.
LEMMA CutEndRange ==
  ASSUME NEW w \in Seq(Message), 2 <= Len(w)
  PROVE  CutEnd(w) \in 2..FirstCut(w) /\ FirstCut(w) \in 2..Len(w)
<1>1. FirstCut(w) \in 2..Len(w)
  BY LimitRange DEF FirstCut
<1>2. CASE FirstCut(w) <= 2
  BY <1>1, <1>2 DEF CutEnd
<1>3. CASE FirstCut(w) > 2
  <2> DEFINE first == FirstCut(w)
             T == {c \in 2..first : \A d \in (c + 1)..first : HasToolCalls(w[d])}
  <2> HIDE DEF first
  <2>0. first \in Nat /\ 2 < first
    BY <1>1, <1>3 DEF first
  <2>1. T \subseteq Nat
    BY <2>0
  <2>2. first \in T
    BY <2>0
  <2>3. PICK c \in T : \A y \in T : c <= y
    BY <2>1, <2>2, LeastNatural, Zenon
  <2>4. c = 2 \/ ~HasToolCalls(w[c])
    <3> SUFFICES ASSUME c # 2, HasToolCalls(w[c])
                 PROVE  FALSE
      OBVIOUS
    <3>1. c - 1 \in 2..first
      BY <2>0
    <3>2. \A d \in ((c - 1) + 1)..first : HasToolCalls(w[d])
      <4>1. TAKE d \in ((c - 1) + 1)..first
      <4>2. d = c \/ d \in (c + 1)..first
        BY <2>0
      <4> QED
        BY <4>2
    <3>3. c - 1 \in T
      BY <3>1, <3>2
    <3> QED
      BY <3>3, <2>3, <2>0
  <2>5. \E x \in 2..first : /\ x = 2 \/ ~HasToolCalls(w[x])
                            /\ \A d \in (x + 1)..first : HasToolCalls(w[d])
    BY <2>4
  <2>6. ~(first <= 2)
    BY <2>0
  <2>7. CutEnd(w) = CHOOSE x \in 2..first :
                      /\ x = 2 \/ ~HasToolCalls(w[x])
                      /\ \A d \in (x + 1)..first : HasToolCalls(w[d])
    BY <2>6, Zenon DEF CutEnd, first
  <2>8. CutEnd(w) \in 2..first
    BY <2>5, <2>7, Zenon
  <2> QED
    BY <2>8, <1>1 DEF first
<1> QED
  BY <1>1, <1>2, <1>3

\* Cutting positions 2 .. c out of a sequence.
LEMMA CutOut ==
  ASSUME NEW S, NEW w \in Seq(S), NEW c \in 1..Len(w),
         NEW d, d = SubSeq(w, 1, 1) \o SubSeq(w, c + 1, Len(w))
  PROVE  /\ d \in Seq(S)
         /\ Len(d) = Len(w) - (c - 1)
         /\ d[1] = w[1]
         /\ \A i \in 2..Len(d) : d[i] = w[i + c - 1]
<1> DEFINE head == SubSeq(w, 1, 1)
           tail == SubSeq(w, c + 1, Len(w))
<1>0. Len(w) \in Nat /\ c \in Nat /\ 1 <= c /\ c <= Len(w)
  OBVIOUS
<1>1. head \in Seq(S) /\ Len(head) = 1 /\ head[1] = w[1]
  BY <1>0
<1>2. tail \in Seq(S) /\ Len(tail) = Len(w) - c
  BY <1>0
<1>3. \A i \in 1..(Len(w) - c) : tail[i] = w[c + i]
  BY <1>0
<1> HIDE DEF head, tail
<1>c. /\ head \o tail \in Seq(S)
      /\ Len(head \o tail) = Len(head) + Len(tail)
      /\ \A i \in 1..(Len(head) + Len(tail)) :
           (head \o tail)[i] = IF i <= Len(head) THEN head[i] ELSE tail[i - Len(head)]
  BY <1>1, <1>2, ConcatProperties, Zenon
<1>4. head \o tail \in Seq(S) /\ Len(head \o tail) = 1 + (Len(w) - c)
  BY <1>c, <1>1, <1>2
<1>5. (head \o tail)[1] = w[1]
  BY <1>0, <1>1, <1>2, <1>c
<1>6. ASSUME NEW i \in 2..(1 + (Len(w) - c))
      PROVE  (head \o tail)[i] = w[i + c - 1]
  <2>1. i \in Nat /\ 2 <= i /\ i - 1 \in 1..(Len(w) - c)
    BY <1>0
  <2>2. (head \o tail)[i] = tail[i - 1]
    BY <2>1, <1>1, <1>2, <1>0, <1>c, SMTT(60)
  <2>3. tail[i - 1] = w[c + (i - 1)]
    BY <2>1, <1>3
  <2> QED
    BY <2>1, <2>2, <2>3, <1>0
<1>7. Len(head \o tail) = Len(w) - (c - 1)
  BY <1>4, <1>0
<1> QED
  BY <1>4, <1>5, <1>6, <1>7 DEF head, tail

\* Compaction keeps the head of the window and a suffix of the rest, and drops at
\* least one message whenever there is one to drop.
LEMMA CompactProperties ==
  ASSUME NEW w \in Seq(Message), 2 <= Len(w)
  PROVE  /\ Compact(w) \in Seq(Message)
         /\ Len(Compact(w)) = Len(w) - (CutEnd(w) - 1)
         /\ Len(Compact(w)) \in 1..(Len(w) - 1)
         /\ Compact(w)[1] = w[1]
         /\ \A i \in 2..Len(Compact(w)) : Compact(w)[i] = w[i + CutEnd(w) - 1]
<1>1. CutEnd(w) \in 2..Len(w)
  BY CutEndRange
<1>2. Compact(w) = SubSeq(w, 1, 1) \o SubSeq(w, CutEnd(w) + 1, Len(w))
  BY <1>1 DEF Compact
<1>3. CutEnd(w) \in 1..Len(w)
  BY <1>1
<1>4. /\ Compact(w) \in Seq(Message)
      /\ Len(Compact(w)) = Len(w) - (CutEnd(w) - 1)
      /\ Compact(w)[1] = w[1]
      /\ \A i \in 2..Len(Compact(w)) : Compact(w)[i] = w[i + CutEnd(w) - 1]
  BY <1>2, <1>3, CutOut
<1> QED
  BY <1>1, <1>4

\* The window a message is appended to, and where its messages come from.
LEMMA RoomProperties ==
  ASSUME NEW w \in Seq(Message)
  PROVE  /\ Room(w) \in Seq(Message)
         /\ Len(Room(w)) <= Len(w)
         /\ w # <<>> => Len(Room(w)) >= 1 /\ Room(w)[1] = w[1]
         /\ w = <<>> => Room(w) = w
         /\ Len(w) >= Limit /\ 2 <= Len(w) => Len(Room(w)) < Len(w)
         /\ \A i \in 2..Len(Room(w)) :
              \E j \in 2..Len(w) : Room(w)[i] = w[j]
<1>1. CASE Len(w) < 2
  <2>1. FirstCut(w) <= 1 /\ CutEnd(w) <= 1
    BY <1>1, LimitRange DEF FirstCut, CutEnd
  <2>2. Room(w) = w
    BY <2>1 DEF Room, Compact
  <2> QED
    BY <2>2, <1>1
<1>2. CASE Len(w) >= 2
  <2>1. CASE Len(w) < Limit
    BY <1>2, <2>1, LimitRange DEF Room
  <2>2. CASE Len(w) >= Limit
    <3>1. Room(w) = Compact(w)
      BY <2>2 DEF Room
    <3>2. CutEnd(w) \in 2..Len(w)
      BY <1>2, CutEndRange
    <3>3. /\ Room(w) \in Seq(Message)
          /\ Len(Room(w)) = Len(w) - (CutEnd(w) - 1)
          /\ Len(Room(w)) \in 1..(Len(w) - 1)
          /\ Room(w)[1] = w[1]
          /\ \A i \in 2..Len(Room(w)) : Room(w)[i] = w[i + CutEnd(w) - 1]
      BY <1>2, <3>1, CompactProperties
    <3>4. \A i \in 2..Len(Room(w)) : i + CutEnd(w) - 1 \in 2..Len(w)
      BY <3>2, <3>3
    <3>5. Len(w) \in Nat /\ w # <<>>
      BY <1>2
    <3> QED
      BY <1>2, <3>2, <3>3, <3>4, <3>5, SMTT(60)
  <2> QED
    BY <1>2, <2>1, <2>2, LimitRange
<1> QED
  BY <1>1, <1>2

\* agent_add_message appends to the room it made.
LEMMA AddMessageProperties ==
  ASSUME NEW w \in Seq(Message), NEW m \in Message
  PROVE  /\ AddMessage(w, m) \in Seq(Message)
         /\ Len(AddMessage(w, m)) = Len(Room(w)) + 1
         /\ AddMessage(w, m)[Len(Room(w)) + 1] = m
         /\ \A i \in 1..Len(Room(w)) : AddMessage(w, m)[i] = Room(w)[i]
BY RoomProperties, AppendProperties DEF AddMessage

\* A rollback keeps a prefix of the window.
LEMMA PopToProperties ==
  ASSUME NEW w \in Seq(Message), NEW n \in Nat
  PROVE  /\ PopTo(w, n) \in Seq(Message)
         /\ Len(PopTo(w, n)) = IF Len(w) > n THEN n ELSE Len(w)
         /\ \A i \in 1..Len(PopTo(w, n)) : PopTo(w, n)[i] = w[i]
<1>1. CASE Len(w) > n
  BY <1>1 DEF PopTo
<1>2. CASE ~(Len(w) > n)
  BY <1>2 DEF PopTo
<1> QED
  BY <1>1, <1>2

\* The messages agent_chat makes.
LEMMA MessagesMade ==
  ASSUME NEW t \in Nat, NEW i \in Nat, NEW k \in Nat
  PROVE  /\ System \in Message /\ System.role = "system"
         /\ User(t) \in Message /\ User(t).role # "system"
         /\ Assistant(t, i, k) \in Message /\ Assistant(t, i, k).role # "system"
         /\ ToolResult(t, i, k) \in Message /\ ToolResult(t, i, k).role # "system"
BY DEF System, User, Assistant, ToolResult, Message, Roles

-----------------------------------------------------------------------------
(* The inductive invariant.                                                *)

\* A window that is either empty or led by the only system message, within the
\* limit.
GoodWindow(w) ==
  /\ w \in Seq(Message)
  /\ Len(w) <= IF Limit < 2 THEN 2 ELSE Limit
  /\ \A i \in 1..Len(w) : w[i].role = "system" <=> i = 1

\* Control: during a turn the loop counter is below its limit, and pre_turn_count
\* covers at least the system message.
ControlInv ==
  phase # "idle" =>
    /\ iter < MaxIter
    /\ preTurn >= 1
    /\ preTurn = Len(before)

\* While nothing has been compacted, the window extends the one the turn found.
RollbackInv ==
  (phase # "idle" /\ ~compacted) =>
    /\ Len(messages) >= preTurn
    /\ \A i \in 1..preTurn : messages[i] = before[i]

IInv ==
  /\ TypeOK
  /\ GoodWindow(messages)
  /\ phase # "idle" => messages # <<>>
  /\ ControlInv
  /\ RollbackInv

\* Adding a message that is not a system message keeps a window good.
LEMMA AddKeepsGood ==
  ASSUME NEW w, GoodWindow(w), w # <<>>, NEW m \in Message, m.role # "system"
  PROVE  GoodWindow(AddMessage(w, m)) /\ AddMessage(w, m) # <<>>
<1> DEFINE r == Room(w)
           v == AddMessage(w, m)
<1>1. w \in Seq(Message)
  BY DEF GoodWindow
<1>2. /\ r \in Seq(Message) /\ Len(r) <= Len(w) /\ Len(r) >= 1 /\ r[1] = w[1]
      /\ Len(w) >= Limit /\ 2 <= Len(w) => Len(r) < Len(w)
      /\ \A i \in 2..Len(r) : \E j \in 2..Len(w) : r[i] = w[j]
  BY <1>1, RoomProperties
<1>3. /\ v \in Seq(Message) /\ Len(v) = Len(r) + 1 /\ v[Len(r) + 1] = m
      /\ \A i \in 1..Len(r) : v[i] = r[i]
  BY <1>1, AddMessageProperties
<1> HIDE DEF r, v
<1>4. Len(v) <= IF Limit < 2 THEN 2 ELSE Limit
  BY <1>1, <1>2, <1>3, LimitRange, AgentAssumption DEF GoodWindow
<1>5. ASSUME NEW i \in 1..Len(v)
      PROVE  v[i].role = "system" <=> i = 1
  <2>1. CASE i = 1
    BY <2>1, <1>1, <1>2, <1>3 DEF GoodWindow
  <2>2. CASE i = Len(r) + 1
    BY <2>2, <1>2, <1>3
  <2>3. CASE i \in 2..Len(r)
    <3>1. PICK j \in 2..Len(w) : r[i] = w[j]
      BY <2>3, <1>2
    <3>2. v[i] = w[j] /\ j \in 1..Len(w) /\ j # 1 /\ i # 1
      BY <2>3, <3>1, <1>1, <1>2, <1>3
    <3> QED
      BY <3>2 DEF GoodWindow
  <2> QED
    BY <2>1, <2>2, <2>3, <1>2, <1>3
<1> QED
  BY <1>3, <1>4, <1>5, <1>2 DEF GoodWindow, v

\* So does popping back to a nonempty prefix.
LEMMA PopKeepsGood ==
  ASSUME NEW w, GoodWindow(w), NEW n \in Nat
  PROVE  GoodWindow(PopTo(w, n))
BY PopToProperties, LimitRange, AgentAssumption DEF GoodWindow

LEMMA InitIInv == Init => IInv
<1> SUFFICES ASSUME Init PROVE IInv
  OBVIOUS
<1>0. <<>> \in Seq(Message)
  OBVIOUS
<1>b. compacted \in BOOLEAN /\ torn \in BOOLEAN
  BY DEF Init
<1>c. 0 \in 0..MaxIter /\ 0 \in 0..MaxTurns /\ 0 \in 0..0 /\ 0 \in Nat
  BY AgentAssumption
<1>1. TypeOK
  BY <1>0, <1>b, <1>c, Zenon DEF Init, TypeOK
<1>2. GoodWindow(messages)
  BY AgentAssumption, LimitRange DEF Init, GoodWindow
<1> QED
  BY <1>1, <1>2 DEF Init, IInv, ControlInv, RollbackInv

\* What Add does to the parts of the invariant about the window.
LEMMA AddStep ==
  ASSUME IInv, phase # "idle", NEW m \in Message, m.role # "system", Add(m)
  PROVE  /\ GoodWindow(messages') /\ messages' # <<>> /\ messages' \in Seq(Message)
         /\ added' \in Nat /\ compacted' \in BOOLEAN
         /\ (~compacted' => /\ Len(messages') >= preTurn
                            /\ \A i \in 1..preTurn : messages'[i] = before[i])
<1>1. GoodWindow(messages') /\ messages' # <<>>
  BY AddKeepsGood DEF Add, IInv
<1>2. ASSUME ~compacted'
      PROVE  /\ Len(messages') >= preTurn
             /\ \A i \in 1..preTurn : messages'[i] = before[i]
  <2>1. ~compacted /\ Room(messages) = messages
    BY <1>2 DEF Add
  <2>a. /\ Len(messages') = Len(Room(messages)) + 1
        /\ \A i \in 1..Len(Room(messages)) : messages'[i] = Room(messages)[i]
    BY AddMessageProperties DEF Add, IInv, TypeOK
  <2>2. /\ Len(messages') = Len(messages) + 1
        /\ \A i \in 1..Len(messages) : messages'[i] = messages[i]
    BY <2>1, <2>a
  <2>3. messages \in Seq(Message) /\ preTurn \in Nat
    BY DEF IInv, TypeOK
  <2>4. /\ Len(messages) >= preTurn
        /\ \A i \in 1..preTurn : messages[i] = before[i]
    BY <2>1 DEF IInv, RollbackInv
  <2> QED
    BY <2>2, <2>3, <2>4
<1>3. added' \in Nat /\ compacted' \in BOOLEAN
  BY DEF Add, IInv, TypeOK
<1> QED
  BY <1>1, <1>2, <1>3 DEF GoodWindow

\* Rolling back to pre_turn_count, on either failure path.
LEMMA FailStep ==
  ASSUME IInv, phase # "idle", Fail, iter' \in 0..MaxIter
  PROVE  IInv'
<1>1. /\ messages \in Seq(Message) /\ preTurn \in Nat /\ GoodWindow(messages)
      /\ messages' = PopTo(messages, preTurn) /\ phase' = "idle"
  BY DEF Fail, IInv, TypeOK
<1>2. GoodWindow(messages') /\ messages' \in Seq(Message)
  BY <1>1, PopKeepsGood DEF GoodWindow
<1>3. torn' \in BOOLEAN
  BY DEF Fail, IInv, TypeOK
<1>4. TypeOK'
  BY <1>2, <1>3 DEF Fail, IInv, TypeOK
<1>5. GoodWindow(messages)'
  BY <1>2 DEF GoodWindow
<1> QED
  BY <1>1, <1>4, <1>5 DEF IInv, ControlInv, RollbackInv

LEMMA StartTurnStep ==
  ASSUME IInv, StartTurn
  PROVE  IInv'
<1> DEFINE w == IF messages = <<>> THEN AddMessage(messages, System) ELSE messages
<1>1. /\ messages \in Seq(Message) /\ turn \in 0..MaxTurns /\ turn < MaxTurns
      /\ GoodWindow(messages) /\ System \in Message /\ System.role = "system"
      /\ User(turn + 1) \in Message /\ User(turn + 1).role # "system"
      /\ turn' \in 0..MaxTurns
  BY MessagesMade, AgentAssumption DEF StartTurn, IInv, TypeOK
<1>2. GoodWindow(w) /\ w # <<>> /\ w \in Seq(Message)
  <2>1. CASE messages # <<>>
    BY <2>1, <1>1
  <2>2. CASE messages = <<>>
    <3>1. Room(messages) = messages /\ Len(messages) = 0
      BY <1>1, <2>2, RoomProperties
    <3>a. /\ AddMessage(messages, System) \in Seq(Message)
          /\ Len(AddMessage(messages, System)) = Len(Room(messages)) + 1
          /\ AddMessage(messages, System)[Len(Room(messages)) + 1] = System
      BY <1>1, AddMessageProperties
    <3>2. w \in Seq(Message) /\ Len(w) = 1 /\ w[1] = System
      <4>1. w = AddMessage(messages, System)
        BY <2>2
      <4>2. Len(Room(messages)) = 0
        BY <3>1
      <4>3. Len(AddMessage(messages, System)) = 1
        BY <3>a, <4>2
      <4>4. AddMessage(messages, System)[1] = System
        BY <3>a, <4>2
      <4> QED
        BY <3>a, <4>1, <4>3, <4>4, Zenon
    <3>3. \A i \in 1..Len(w) : w[i].role = "system" <=> i = 1
      BY <3>2, <1>1
    <3> QED
      BY <3>2, <3>3, LimitRange, AgentAssumption DEF GoodWindow
  <2> QED
    BY <2>1, <2>2
<1>3. /\ messages' = AddMessage(w, User(turn + 1)) /\ before' = w
      /\ preTurn' = Len(w) /\ iter' = 0 /\ phase' = "calling" /\ added' = 1
      /\ compacted' = (Room(w) # w)
      /\ UNCHANGED <<calls, done, reply, torn>>
  BY DEF StartTurn
<1> HIDE DEF w
<1>4. /\ GoodWindow(messages') /\ messages' # <<>> /\ messages' \in Seq(Message)
  BY <1>1, <1>2, <1>3, AddKeepsGood DEF GoodWindow
<1>5. Len(w) \in Nat /\ Len(w) >= 1
  BY <1>2
<1>6. TypeOK'
  <2>1. compacted' \in BOOLEAN
    BY <1>3
  <2>2. iter' \in 0..MaxIter /\ added' \in Nat /\ preTurn' \in Nat
    BY <1>3, <1>5, AgentAssumption
  <2> QED
    BY <1>1, <1>2, <1>3, <1>4, <2>1, <2>2 DEF IInv, TypeOK
<1>7. ControlInv'
  BY <1>3, <1>5, AgentAssumption DEF ControlInv
<1>8. RollbackInv'
  <2> SUFFICES ASSUME ~compacted'
               PROVE  /\ Len(messages') >= preTurn'
                      /\ \A i \in 1..preTurn' : messages'[i] = before'[i]
    BY DEF RollbackInv
  <2>1. Room(w) = w
    BY <1>3
  <2>2. /\ Len(messages') = Len(Room(w)) + 1
        /\ \A i \in 1..Len(Room(w)) : messages'[i] = Room(w)[i]
    BY <1>1, <1>2, <1>3, AddMessageProperties
  <2> QED
    BY <2>1, <2>2, <1>3, <1>5
<1>9. GoodWindow(messages)'
  BY <1>4 DEF GoodWindow
<1> QED
  BY <1>3, <1>4, <1>6, <1>7, <1>8, <1>9 DEF IInv

\* Appending one message of the turn, wherever the loop goes next.
LEMMA AppendStep ==
  ASSUME IInv, phase # "idle", NEW m \in Message, m.role # "system", Add(m),
         phase' \in {"idle", "calling", "tools"}, iter' = iter, preTurn' = preTurn,
         calls' \in Nat, done' \in 0..calls', turn' = turn, before' = before,
         reply' \in {"none", "answered", "failed"}, torn' = torn
  PROVE  IInv'
<1>1. /\ GoodWindow(messages') /\ messages' # <<>> /\ messages' \in Seq(Message)
      /\ added' \in Nat /\ compacted' \in BOOLEAN
      /\ (~compacted' => /\ Len(messages') >= preTurn
                         /\ \A i \in 1..preTurn : messages'[i] = before[i])
  BY AddStep
<1>2. TypeOK'
  BY <1>1 DEF IInv, TypeOK
<1>3. GoodWindow(messages)'
  BY <1>1 DEF GoodWindow
<1>4. ControlInv'
  BY DEF IInv, ControlInv
<1>5. RollbackInv'
  BY <1>1 DEF RollbackInv
<1> QED
  BY <1>1, <1>2, <1>3, <1>4, <1>5 DEF IInv

\* Every step of the loop, every start of a turn and every new conversation keeps
\* the invariant.
LEMMA NextIInv ==
  ASSUME IInv, [Next]_vars
  PROVE  IInv'
<1>0. TypeOK /\ ControlInv
  BY DEF IInv
<1>t. /\ turn \in Nat /\ iter \in Nat /\ calls \in Nat /\ done \in Nat
  BY <1>0, AgentAssumption DEF TypeOK
<1>1. CASE StartTurn
  BY <1>1, StartTurnStep
<1>2. CASE ProviderError
  <2>1. iter' \in 0..MaxIter /\ phase # "idle" /\ Fail
    BY <1>0, <1>2 DEF ProviderError, TypeOK
  <2> QED
    BY <2>1, FailStep
<1>3. CASE MaxIterations
  <2>1. iter' \in 0..MaxIter /\ phase # "idle" /\ Fail
    BY <1>0, <1>t, <1>3, AgentAssumption DEF MaxIterations, ControlInv
  <2> QED
    BY <2>1, FailStep
<1>4. CASE ProviderToolCalls
  <2>1. PICK k \in 1..MaxCalls :
          /\ phase = "calling"
          /\ Add(Assistant(turn, iter, k))
          /\ phase' = "tools"
          /\ calls' = k
          /\ done' = 0
          /\ UNCHANGED <<iter, preTurn, turn, reply, before, torn>>
    BY <1>4 DEF ProviderToolCalls
  <2>2. k \in Nat /\ calls' \in Nat /\ done' \in 0..calls'
    BY <2>1, AgentAssumption
  <2>3. /\ Assistant(turn, iter, k) \in Message
        /\ Assistant(turn, iter, k).role # "system"
    BY <1>t, <2>2, MessagesMade
  <2>4. reply' \in {"none", "answered", "failed"}
    BY <1>0, <2>1 DEF TypeOK
  <2> QED
    BY <2>1, <2>2, <2>3, <2>4, AppendStep
<1>5. CASE RunToolCall
  <2>1. /\ phase = "tools" /\ done < calls
        /\ Add(ToolResult(turn, iter, done + 1)) /\ done' = done + 1
        /\ UNCHANGED <<phase, iter, preTurn, calls, turn, reply, before, torn>>
    BY <1>5 DEF RunToolCall
  <2>2. calls' \in Nat /\ done' \in 0..calls' /\ done + 1 \in Nat
    BY <2>1, <1>t
  <2>3. /\ ToolResult(turn, iter, done + 1) \in Message
        /\ ToolResult(turn, iter, done + 1).role # "system"
    BY <1>t, <2>2, MessagesMade
  <2>4. reply' \in {"none", "answered", "failed"} /\ phase' = "tools"
    BY <1>0, <2>1 DEF TypeOK
  <2> QED
    BY <2>1, <2>2, <2>3, <2>4, AppendStep
<1>6. CASE NextIteration
  <2>1. /\ phase = "tools" /\ iter + 1 < MaxIter /\ iter' = iter + 1
        /\ phase' = "calling"
        /\ UNCHANGED <<messages, preTurn, calls, done, turn, reply, history>>
    BY <1>6 DEF NextIteration
  <2>2. iter' \in 0..MaxIter /\ iter' < MaxIter
    BY <2>1, <1>t, AgentAssumption
  <2>3. TypeOK'
    BY <1>0, <2>1, <2>2 DEF TypeOK, history
  <2>4. ControlInv' /\ RollbackInv'
    BY <2>1, <2>2 DEF IInv, ControlInv, RollbackInv, history
  <2> QED
    BY <2>1, <2>3, <2>4 DEF IInv, GoodWindow
<1>7. CASE FinalResponse
  <2>1. /\ phase = "calling" /\ Add(Assistant(turn, iter, 0))
        /\ phase' = "idle" /\ reply' = "answered"
        /\ UNCHANGED <<iter, preTurn, calls, done, turn, before, torn>>
    BY <1>7 DEF FinalResponse
  <2>2. calls' \in Nat /\ done' \in 0..calls'
    BY <1>0, <2>1 DEF TypeOK
  <2>3. /\ Assistant(turn, iter, 0) \in Message
        /\ Assistant(turn, iter, 0).role # "system"
    BY <1>t, MessagesMade
  <2> QED
    BY <2>1, <2>2, <2>3, AppendStep
<1>8. CASE NewConversation
  <2>1. /\ phase = "idle" /\ messages' = <<>> /\ torn' = FALSE
        /\ UNCHANGED <<control, before, added, compacted>>
    BY <1>8 DEF NewConversation
  <2>a. torn' \in BOOLEAN
    BY <2>1
  <2>2. messages' \in Seq(Message) /\ Len(messages') = 0
    BY <2>1
  <2>3. TypeOK'
    BY <1>0, <2>1, <2>2, <2>a DEF TypeOK, control
  <2>4. GoodWindow(messages)'
    BY <2>1, <2>2, LimitRange, AgentAssumption DEF GoodWindow
  <2> QED
    BY <2>1, <2>3, <2>4 DEF IInv, ControlInv, RollbackInv, control
<1>9. CASE UNCHANGED vars
  BY <1>9 DEF IInv, TypeOK, GoodWindow, ControlInv, RollbackInv, vars, control, history
<1> QED
  BY <1>1, <1>2, <1>3, <1>4, <1>5, <1>6, <1>7, <1>8, <1>9 DEF Next, TurnStep

THEOREM Invariance == Spec => []IInv
<1>1. Init => IInv
  BY InitIInv
<1>2. IInv /\ [Next]_vars => IInv'
  BY NextIInv
<1> QED
  BY <1>1, <1>2, PTL DEF Spec

-----------------------------------------------------------------------------

\* Type correctness of the loop: the variables keep their types through every
\* turn, failed or not.
THEOREM TypeCorrect == Spec => []TypeOK
<1>1. IInv => TypeOK
  BY DEF IInv
<1> QED
  BY <1>1, Invariance, PTL

\* The window stays within the configured limit, for every limit.
THEOREM WindowIsBounded == Spec => []WindowBounded
<1>1. IInv => WindowBounded
  BY DEF IInv, GoodWindow, WindowBounded
<1> QED
  BY <1>1, Invariance, PTL

\* agent->messages[] is never written past its end, whatever the configuration
\* says and however long the conversation and the turns are.
THEOREM ArrayNeverOverflows == Spec => []NoOverflow
<1>1. IInv => NoOverflow
  BY LimitRange, AgentAssumption DEF IInv, GoodWindow, NoOverflow
<1> QED
  BY <1>1, Invariance, PTL

\* The system prompt is never compacted or rolled away, and stays first.
THEOREM SystemStaysFirst == Spec => []SystemFirst
<1>1. IInv => SystemFirst
  BY DEF IInv, GoodWindow, SystemFirst
<1> QED
  BY <1>1, Invariance, PTL

\* A rollback without compaction gives back the window the turn has found.
LEMMA FailRestores ==
  ASSUME IInv, phase # "idle", Fail, ~compacted
  PROVE  messages' = before
<1>1. /\ messages \in Seq(Message) /\ before \in Seq(Message) /\ preTurn \in Nat
      /\ preTurn = Len(before) /\ Len(messages) >= preTurn
      /\ \A i \in 1..preTurn : messages[i] = before[i]
      /\ messages' = PopTo(messages, preTurn)
  BY DEF IInv, TypeOK, ControlInv, RollbackInv, Fail
<1>2. /\ messages' \in Seq(Message)
      /\ Len(messages') = IF Len(messages) > preTurn THEN preTurn ELSE Len(messages)
      /\ \A i \in 1..Len(messages') : messages'[i] = messages[i]
  BY <1>1, PopToProperties
<1>3. Len(messages') = Len(before)
  BY <1>1, <1>2
<1>4. \A i \in 1..Len(messages') : messages'[i] = before[i]
  BY <1>1, <1>2, <1>3
<1> QED
  BY <1>1, <1>2, <1>3, <1>4, SeqEqual

\* A turn that fails without compaction restores the window it found, for every
\* number of iterations and calls it went through.
THEOREM RollbackIsExact == Spec => RollbackExact
<1>1. ASSUME IInv, [Next]_vars, phase # "idle", phase' = "idle",
             reply' = "failed", ~compacted
      PROVE  messages' = before
  <2>1. Fail
    <3>1. ~StartTurn /\ ~NewConversation /\ ~UNCHANGED vars
      BY <1>1 DEF StartTurn, NewConversation, vars, control
    <3>2. ~ProviderToolCalls /\ ~RunToolCall /\ ~NextIteration
      BY <1>1 DEF ProviderToolCalls, RunToolCall, NextIteration
    <3>3. ~FinalResponse
      BY <1>1 DEF FinalResponse
    <3> QED
      BY <1>1, <3>1, <3>2, <3>3 DEF Next, TurnStep, ProviderError, MaxIterations
  <2> QED
    BY <1>1, <2>1, FailRestores
<1>2. IInv /\ [Next]_vars =>
        [(phase # "idle" /\ phase' = "idle" /\ reply' = "failed" /\ ~compacted)
           => messages' = before]_vars
  BY <1>1
<1> QED
  BY <1>2, Invariance, PTL DEF Spec, RollbackExact

-----------------------------------------------------------------------------
(* Calls and their results.                                                *)

\* What a message is appended to is the window without the s messages behind its head,
\* of at most the oldest quarter, and without any while there is room.
LEMMA AddShifts ==
  ASSUME NEW w \in Seq(Message), w # <<>>, NEW m \in Message
  PROVE  \E s \in 0..Quarter :
           /\ Len(w) - s >= 1
           /\ Len(AddMessage(w, m)) = Len(w) - s + 1
           /\ AddMessage(w, m)[Len(w) - s + 1] = m
           /\ AddMessage(w, m)[1] = w[1]
           /\ \A i \in 2..(Len(w) - s) : AddMessage(w, m)[i] = w[i + s]
           /\ Len(w) < Limit => s = 0
<1> DEFINE v == AddMessage(w, m)
<1>0. /\ Len(w) \in Nat /\ Len(w) >= 1
      /\ Limit \in Nat /\ Quarter \in Nat /\ 1 <= Quarter
  BY LimitRange, AgentAssumption
<1>1. /\ v \in Seq(Message) /\ Len(v) = Len(Room(w)) + 1 /\ v[Len(Room(w)) + 1] = m
      /\ \A i \in 1..Len(Room(w)) : v[i] = Room(w)[i]
      /\ Room(w) \in Seq(Message) /\ Len(Room(w)) >= 1 /\ Room(w)[1] = w[1]
  BY AddMessageProperties, RoomProperties
<1> HIDE DEF v
<1>2. CASE Room(w) = w
  <2>1. /\ Len(w) - 0 >= 1 /\ Len(v) = Len(w) - 0 + 1 /\ v[Len(w) - 0 + 1] = m
        /\ v[1] = w[1] /\ \A i \in 2..(Len(w) - 0) : v[i] = w[i + 0]
    BY <1>0, <1>1, <1>2
  <2>2. 0 \in 0..Quarter
    BY <1>0
  <2> QED
    BY <2>1, <2>2 DEF v
<1>3. CASE Room(w) # w
  <2> DEFINE s == CutEnd(w) - 1
  <2>1. Len(w) >= Limit /\ Room(w) = Compact(w)
    BY <1>3 DEF Room
  <2>2. Len(w) >= 2
    <3>1. Len(w) # 1
      <4> SUFFICES ASSUME Len(w) = 1 PROVE FALSE
        OBVIOUS
      <4>1. FirstCut(w) = 1
        BY <1>0 DEF FirstCut
      <4>2. CutEnd(w) <= 1
        BY <4>1 DEF CutEnd
      <4> QED
        BY <1>3, <2>1, <4>2 DEF Compact
    <3>2. \A n \in Nat : n >= 1 /\ n # 1 => n >= 2
      OBVIOUS
    <3> QED
      BY <1>0, <3>1, <3>2, Zenon
  <2>3. CutEnd(w) \in 2..FirstCut(w) /\ FirstCut(w) \in 2..Len(w)
    BY <2>2, CutEndRange
  <2>4. FirstCut(w) <= 1 + Quarter
    BY <1>0 DEF FirstCut
  <2>5. /\ Len(Room(w)) = Len(w) - (CutEnd(w) - 1)
        /\ \A i \in 2..Len(Room(w)) : Room(w)[i] = w[i + CutEnd(w) - 1]
    BY <2>1, <2>2, CompactProperties
  <2>6. s \in 0..Quarter /\ CutEnd(w) = s + 1
    BY <1>0, <2>3, <2>4
  <2> HIDE DEF s
  <2>7. /\ Len(w) - s >= 1 /\ Len(v) = Len(w) - s + 1 /\ v[Len(w) - s + 1] = m
        /\ v[1] = w[1] /\ \A i \in 2..(Len(w) - s) : v[i] = w[i + s]
    BY <1>0, <1>1, <2>5, <2>6
  <2>8. ~(Len(w) < Limit)
    BY <1>0, <2>1
  <2> QED
    BY <2>6, <2>7, <2>8 DEF v
<1> QED
  BY <1>2, <1>3

\* The results of the call at i follow it, all of them.
Answered(w, i) ==
  /\ i + w[i].n <= Len(w)
  /\ \A k \in 1..w[i].n : w[i + k] = ToolResult(w[i].turn, w[i].iter, k)

\* The call at i makes c calls, and d results follow it, the last messages of w.
InProgress(w, i, t, n, c, d) ==
  /\ w[i] = Assistant(t, n, c)
  /\ i + d = Len(w)
  /\ \A k \in 1..d : w[i + k] = ToolResult(t, n, k)

\* The call at i is the one being run, and the results so far follow it.
BeingRun(i) == phase = "tools" /\ InProgress(messages, i, turn, iter, calls, done)

\* CallsAnswered is not inductive: it says nothing of the window while calls are run,
\* nor of the one a rollback brings back.
AnsweredInv ==
  ~torn =>
    /\ \A i \in 1..Len(messages) :
         HasToolCalls(messages[i]) => Answered(messages, i) \/ BeingRun(i)
    /\ phase # "idle" =>
         \A i \in 1..Len(before) : HasToolCalls(before[i]) => Answered(before, i)

OfIteration(m) == m.turn = turn /\ m.iter = iter /\ (m.role = "tool" \/ HasToolCalls(m))

\* A result is behind its call or another result of the iteration, unless it is the first
\* message behind the head.
Follows(w) ==
  \A i \in 3..Len(w) : w[i].role = "tool" =>
    /\ SameIteration(w[i - 1], w[i])
    /\ w[i - 1].role = "tool" \/ HasToolCalls(w[i - 1])

\* While calls are run the last message is of their iteration.
FollowInv ==
  /\ Follows(messages)
  /\ phase = "tools" /\ Len(messages) >= 2 => OfIteration(messages[Len(messages)])

\* The question stands where the messages added since put it, until there are so many
\* that a quarter may reach it.
QuestionInv ==
  phase # "idle" =>
    /\ added >= 1
    /\ added <= Limit - Quarter =>
         /\ Len(messages) >= added
         /\ messages[Len(messages) - added + 1] = User(turn)

\* The message at j of w is at i of v, which ends in m, with all that stood behind it.
Moved(w, j, v, i, m) ==
  /\ w[j] = v[i]
  /\ Len(v) - i = Len(w) - j + 1
  /\ \A k \in 1..(Len(w) - j) : v[i + k] = w[j + k]
  /\ v[i + (Len(w) - j) + 1] = m

\* Where a call behind the head of a window was before a message was added, and that its
\* results have moved with it.
LEMMA AddMovesCalls ==
  ASSUME NEW w \in Seq(Message), w # <<>>, w[1].role = "system", NEW m \in Message,
         NEW v, v = AddMessage(w, m), NEW i \in 1..(Len(v) - 1), HasToolCalls(v[i])
  PROVE  \E j \in 1..Len(w) : Moved(w, j, v, i, m) /\ (Answered(w, j) => Answered(v, i))
<1>0. Len(w) \in Nat /\ Quarter \in Nat
  BY LimitRange
<1>1. PICK s \in 0..Quarter :
           /\ Len(w) - s >= 1
           /\ Len(v) = Len(w) - s + 1
           /\ v[Len(w) - s + 1] = m
           /\ v[1] = w[1]
           /\ \A x \in 2..(Len(w) - s) : v[x] = w[x + s]
  BY AddShifts
<1>2. i # 1
  BY <1>1 DEF HasToolCalls
<1>3. /\ i \in 2..(Len(w) - s) /\ i + s \in 1..Len(w) /\ w[i + s] = v[i]
      /\ s \in Nat /\ i \in Nat
  BY <1>0, <1>1, <1>2
<1> DEFINE j == i + s
<1>4. /\ Len(v) - i = Len(w) - j + 1
      /\ i + (Len(w) - j) + 1 = Len(w) - s + 1
  BY <1>0, <1>1, <1>3
<1>5. \A k \in 1..(Len(w) - j) : v[i + k] = w[j + k]
  <2>1. TAKE k \in 1..(Len(w) - j)
  <2>2. i + k \in 2..(Len(w) - s) /\ (i + k) + s = j + k
    BY <1>0, <1>3
  <2> QED
    BY <1>1, <2>2
<1>6. ASSUME Answered(w, j)
      PROVE  Answered(v, i)
  <2>a. w[j] = v[i] /\ w[j] \in Message
    BY <1>3
  <2>1. w[j] = v[i] /\ v[i].n \in Nat
    BY <2>a DEF Message
  <2>2. /\ j + v[i].n <= Len(w)
        /\ \A k \in 1..v[i].n : w[j + k] = ToolResult(v[i].turn, v[i].iter, k)
    BY <1>6, <2>1 DEF Answered
  <2>3. \A k \in 1..v[i].n : k \in 1..(Len(w) - j)
    BY <1>0, <1>3, <2>1, <2>2
  <2>4. i + v[i].n <= Len(v)
    BY <1>0, <1>1, <1>3, <2>1, <2>2
  <2> QED
    BY <1>5, <2>2, <2>3, <2>4 DEF Answered
<1> QED
  BY <1>1, <1>3, <1>4, <1>5, <1>6 DEF Moved

\* A message that was added is the last.
LEMMA AddedIsLast ==
  ASSUME NEW w \in Seq(Message), NEW m \in Message,
         NEW v, v = AddMessage(w, m)
  PROVE  Len(v) \in Nat /\ Len(v) >= 1 /\ v[Len(v)] = m
<1>1. Len(Room(w)) \in Nat
  BY RoomProperties
<1>2. Len(v) = Len(Room(w)) + 1 /\ v[Len(Room(w)) + 1] = m
  BY AddMessageProperties
<1> QED
  BY <1>1, <1>2

\* Calls that were answered stay so when a message is added.
LEMMA AddKeepsAnswered ==
  ASSUME NEW w \in Seq(Message), w # <<>>, w[1].role = "system", NEW m \in Message,
         NEW v, v = AddMessage(w, m),
         \A j \in 1..Len(w) : HasToolCalls(w[j]) => Answered(w, j)
  PROVE  /\ Len(v) \in Nat /\ Len(v) >= 1 /\ v[Len(v)] = m
         /\ \A i \in 1..Len(v) : HasToolCalls(v[i]) => Answered(v, i) \/ i = Len(v)
<1>1. Len(v) \in Nat /\ Len(v) >= 1 /\ v[Len(v)] = m
  BY AddedIsLast
<1>2. ASSUME NEW i \in 1..Len(v), HasToolCalls(v[i]), i # Len(v)
      PROVE  Answered(v, i)
  <2>1. i \in 1..(Len(v) - 1)
    BY <1>1, <1>2
  <2>2. PICK j \in 1..Len(w) : Moved(w, j, v, i, m) /\ (Answered(w, j) => Answered(v, i))
    BY <1>2, <2>1, AddMovesCalls
  <2>3. w[j] = v[i]
    BY <2>2 DEF Moved
  <2> QED
    BY <1>2, <2>2, <2>3
<1> QED
  BY <1>1, <1>2

\* The next result behind the call that is being run; the calls before it stay answered.
LEMMA AddKeepsInProgress ==
  ASSUME NEW w \in Seq(Message), w # <<>>, w[1].role = "system",
         NEW t \in Nat, NEW n \in Nat, NEW c \in Nat, NEW d \in Nat,
         NEW v, v = AddMessage(w, ToolResult(t, n, d + 1)),
         \A j \in 1..Len(w) :
           HasToolCalls(w[j]) => Answered(w, j) \/ InProgress(w, j, t, n, c, d)
  PROVE  \A i \in 1..Len(v) :
           HasToolCalls(v[i]) => Answered(v, i) \/ InProgress(v, i, t, n, c, d + 1)
<1> DEFINE m == ToolResult(t, n, d + 1)
<1>1. m \in Message /\ ~HasToolCalls(m)
  BY MessagesMade DEF HasToolCalls, ToolResult
<1>2. Len(v) \in Nat /\ v[Len(v)] = m
  BY <1>1, AddedIsLast
<1>a. v = AddMessage(w, m)
  OBVIOUS
<1> HIDE DEF m
<1> SUFFICES ASSUME NEW i \in 1..Len(v), HasToolCalls(v[i])
             PROVE  Answered(v, i) \/ InProgress(v, i, t, n, c, d + 1)
  OBVIOUS
<1>3. i \in 1..(Len(v) - 1)
  BY <1>1, <1>2
<1>4. PICK j \in 1..Len(w) : Moved(w, j, v, i, m) /\ (Answered(w, j) => Answered(v, i))
  BY <1>1, <1>3, <1>a, AddMovesCalls
<1>b. /\ w[j] = v[i]
      /\ Len(v) - i = Len(w) - j + 1
      /\ \A k \in 1..(Len(w) - j) : v[i + k] = w[j + k]
      /\ v[i + (Len(w) - j) + 1] = m
  BY <1>4 DEF Moved
<1>5. CASE InProgress(w, j, t, n, c, d)
  <2>1. /\ v[i] = Assistant(t, n, c) /\ j + d = Len(w)
        /\ \A k \in 1..d : w[j + k] = ToolResult(t, n, k)
    BY <1>b, <1>5 DEF InProgress
  <2>2. Len(w) - j = d /\ i \in Nat /\ Len(w) \in Nat /\ j \in Nat
    <3>1. Len(w) \in Nat /\ j \in 1..Len(w) /\ i \in Nat
      OBVIOUS
    <3>2. j + d = Len(w)
      BY <2>1
    <3> QED
      BY <3>1, <3>2
  <2>a. Len(v) \in Nat /\ Len(v) - i = Len(w) - j + 1
    BY <1>2, <1>b
  <2>3. i + (d + 1) = Len(v) /\ i + d + 1 = i + (d + 1)
    BY <2>a, <2>2
  <2>4. \A k \in 1..(d + 1) : v[i + k] = ToolResult(t, n, k)
    <3>1. TAKE k \in 1..(d + 1)
    <3>2. k = d + 1 \/ k \in 1..d
      OBVIOUS
    <3> QED
      BY <1>b, <2>1, <2>2, <2>3, <3>2 DEF m
  <2> QED
    BY <2>1, <2>3, <2>4 DEF InProgress
<1> QED
  BY <1>4, <1>5, <1>b

\* The window a turn starts from, with its system message.
LEMMA TurnWindow ==
  ASSUME IInv, StartTurn,
         NEW w, w = IF messages = <<>> THEN AddMessage(messages, System) ELSE messages
  PROVE  /\ w \in Seq(Message) /\ w # <<>> /\ w[1].role = "system"
         /\ messages = <<>> => Len(w) = 1
         /\ messages # <<>> => w = messages
         /\ User(turn + 1) \in Message
         /\ messages' = AddMessage(w, User(turn + 1)) /\ before' = w
<1>1. /\ messages \in Seq(Message) /\ turn + 1 \in Nat
      /\ \A i \in 1..Len(messages) : messages[i].role = "system" <=> i = 1
  BY AgentAssumption DEF IInv, TypeOK, GoodWindow
<1>2. System \in Message /\ System.role = "system" /\ User(turn + 1) \in Message
  BY <1>1, MessagesMade
<1>3. messages' = AddMessage(w, User(turn + 1)) /\ before' = w
  BY DEF StartTurn
<1>4. CASE messages = <<>>
  <2>1. w = AddMessage(messages, System) /\ Room(messages) = messages /\ Len(messages) = 0
    BY <1>1, <1>4, RoomProperties
  <2>2. /\ AddMessage(messages, System) \in Seq(Message)
        /\ Len(AddMessage(messages, System)) = Len(Room(messages)) + 1
        /\ AddMessage(messages, System)[Len(Room(messages)) + 1] = System
    BY <1>1, <1>2, AddMessageProperties
  <2>3. w \in Seq(Message) /\ Len(w) = 1 /\ w[1] = System
    BY <2>1, <2>2
  <2> QED
    BY <1>2, <1>3, <1>4, <2>2, <2>3
<1>5. CASE messages # <<>>
  <2>1. Len(messages) \in Nat /\ Len(messages) >= 1
    BY <1>1, <1>5
  <2> QED
    BY <1>1, <1>2, <1>3, <1>5, <2>1
<1> QED
  BY <1>4, <1>5

\* Every step keeps AnsweredInv.
LEMMA NextAnswered ==
  ASSUME IInv, AnsweredInv, [Next]_vars
  PROVE  AnsweredInv'
<1>0. /\ messages \in Seq(Message) /\ Len(messages) \in Nat
      /\ turn \in Nat /\ iter \in Nat /\ calls \in Nat /\ done \in Nat /\ done <= calls
      /\ \A i \in 1..Len(messages) : messages[i].role = "system" <=> i = 1
      /\ phase # "idle" => messages # <<>> /\ messages[1].role = "system"
  BY AgentAssumption DEF IInv, TypeOK, GoodWindow
<1>1. CASE StartTurn
  <2> SUFFICES ASSUME ~torn'
               PROVE  /\ \A i \in 1..Len(messages') : HasToolCalls(messages'[i]) =>
                           Answered(messages', i)
                      /\ \A i \in 1..Len(before') : HasToolCalls(before'[i]) =>
                           Answered(before', i)
    BY DEF AnsweredInv
  <2> DEFINE w == IF messages = <<>> THEN AddMessage(messages, System) ELSE messages
  <2>1. /\ w \in Seq(Message) /\ w # <<>> /\ w[1].role = "system"
        /\ messages = <<>> => Len(w) = 1
        /\ messages # <<>> => w = messages
        /\ User(turn + 1) \in Message
        /\ messages' = AddMessage(w, User(turn + 1)) /\ before' = w
    BY <1>1, TurnWindow
  <2>2. phase = "idle" /\ ~torn
    BY <1>1 DEF StartTurn
  <2> HIDE DEF w
  <2>3. \A j \in 1..Len(w) : HasToolCalls(w[j]) => Answered(w, j)
    <3>1. CASE messages = <<>>
      <4>1. TAKE j \in 1..Len(w)
      <4>a. Len(w) = 1
        BY <2>1, <3>1
      <4>2. j = 1
        BY <4>a
      <4> QED
        BY <2>1, <4>2 DEF HasToolCalls
    <3>2. CASE messages # <<>>
      BY <2>1, <2>2, <3>2 DEF AnsweredInv, BeingRun
    <3> QED
      BY <3>1, <3>2
  <2>4. /\ messages'[Len(messages')] = User(turn + 1)
        /\ \A i \in 1..Len(messages') : HasToolCalls(messages'[i]) =>
             Answered(messages', i) \/ i = Len(messages')
    BY <2>1, <2>3, AddKeepsAnswered
  <2>5. ~HasToolCalls(User(turn + 1))
    BY DEF HasToolCalls, User
  <2> QED
    BY <2>1, <2>3, <2>4, <2>5
<1>2. CASE ProviderError \/ MaxIterations
  <2>1. phase # "idle" /\ Fail /\ phase' = "idle" /\ torn' = (torn \/ compacted)
    BY <1>2 DEF ProviderError, MaxIterations, Fail
  <2> SUFFICES ASSUME ~torn'
               PROVE  \A i \in 1..Len(messages') : HasToolCalls(messages'[i]) =>
                        Answered(messages', i)
    BY <2>1 DEF AnsweredInv
  <2>2. messages' = before /\ ~torn
    BY <2>1, FailRestores
  <2> QED
    BY <2>1, <2>2 DEF AnsweredInv
<1>3. CASE ProviderToolCalls \/ FinalResponse
  <2> SUFFICES ASSUME ~torn'
               PROVE  /\ \A i \in 1..Len(messages') : HasToolCalls(messages'[i]) =>
                           Answered(messages', i) \/ BeingRun(i)'
                      /\ \A i \in 1..Len(before') : HasToolCalls(before'[i]) =>
                           Answered(before', i)
    BY DEF AnsweredInv
  <2>1. phase = "calling" /\ torn' = torn /\ before' = before /\ turn' = turn /\ iter' = iter
    BY <1>3 DEF ProviderToolCalls, FinalResponse
  <2>2. /\ \A i \in 1..Len(before) : HasToolCalls(before[i]) => Answered(before, i)
        /\ \A i \in 1..Len(messages) : HasToolCalls(messages[i]) => Answered(messages, i)
    BY <2>1 DEF AnsweredInv, BeingRun
  <2>3. PICK k \in Nat : /\ messages' = AddMessage(messages, Assistant(turn, iter, k))
                         /\ k > 0 => phase' = "tools" /\ calls' = k /\ done' = 0
    <3>1. CASE FinalResponse
      BY <3>1 DEF FinalResponse, Add
    <3>2. CASE ProviderToolCalls
      BY <3>2, AgentAssumption DEF ProviderToolCalls, Add
    <3> QED
      BY <1>3, <3>1, <3>2
  <2> DEFINE m == Assistant(turn, iter, k)
  <2>4. m \in Message
    BY <1>0, MessagesMade
  <2>5. /\ Len(messages') \in Nat /\ messages'[Len(messages')] = m
        /\ \A i \in 1..Len(messages') : HasToolCalls(messages'[i]) =>
             Answered(messages', i) \/ i = Len(messages')
    BY <1>0, <2>1, <2>2, <2>3, <2>4, AddKeepsAnswered
  <2>6. ASSUME NEW i, i = Len(messages'), HasToolCalls(m)
        PROVE  BeingRun(i)'
    <3>1. k > 0
      BY <2>6 DEF HasToolCalls, Assistant
    <3>2. /\ phase' = "tools" /\ calls' = k /\ done' = 0
          /\ messages'[i] = Assistant(turn', iter', calls') /\ i + done' = Len(messages')
      BY <2>1, <2>3, <2>5, <2>6, <3>1
    <3>3. \A x \in 1..done' : messages'[i + x] = ToolResult(turn', iter', x)
      BY <3>2
    <3> QED
      BY <3>2, <3>3 DEF BeingRun, InProgress
  <2>7. ASSUME NEW i \in 1..Len(messages'), HasToolCalls(messages'[i])
        PROVE  Answered(messages', i) \/ BeingRun(i)'
    BY <2>5, <2>6, <2>7
  <2> QED
    BY <2>1, <2>2, <2>7
<1>4. CASE RunToolCall
  <2> SUFFICES ASSUME ~torn'
               PROVE  /\ \A i \in 1..Len(messages') : HasToolCalls(messages'[i]) =>
                           Answered(messages', i) \/ BeingRun(i)'
                      /\ \A i \in 1..Len(before') : HasToolCalls(before'[i]) =>
                           Answered(before', i)
    BY DEF AnsweredInv
  <2>1. /\ phase = "tools" /\ torn' = torn /\ before' = before /\ done' = done + 1
        /\ phase' = "tools" /\ turn' = turn /\ iter' = iter /\ calls' = calls
        /\ messages' = AddMessage(messages, ToolResult(turn, iter, done + 1))
    BY <1>4 DEF RunToolCall, Add
  <2>2. /\ \A i \in 1..Len(before) : HasToolCalls(before[i]) => Answered(before, i)
        /\ \A i \in 1..Len(messages) : HasToolCalls(messages[i]) =>
             Answered(messages, i) \/ InProgress(messages, i, turn, iter, calls, done)
    BY <2>1 DEF AnsweredInv, BeingRun
  <2>3. messages # <<>> /\ messages[1].role = "system"
    BY <1>0, <2>1
  <2>4. \A i \in 1..Len(messages') : HasToolCalls(messages'[i]) =>
           \/ Answered(messages', i)
           \/ InProgress(messages', i, turn, iter, calls, done + 1)
    BY <1>0, <2>1, <2>2, <2>3, AddKeepsInProgress
  <2> QED
    BY <2>1, <2>2, <2>4 DEF BeingRun
<1>5. CASE NextIteration
  <2>1. /\ done = calls /\ phase = "tools" /\ phase' = "calling"
        /\ messages' = messages /\ torn' = torn /\ before' = before
    BY <1>5 DEF NextIteration, history
  <2>2. \A i \in 1..Len(messages) : BeingRun(i) => Answered(messages, i)
    <3> SUFFICES ASSUME NEW i \in 1..Len(messages), BeingRun(i)
                 PROVE  Answered(messages, i)
      OBVIOUS
    <3>1. /\ messages[i].n = calls /\ messages[i].turn = turn /\ messages[i].iter = iter
      BY DEF BeingRun, InProgress, Assistant
    <3> QED
      BY <1>0, <2>1, <3>1 DEF BeingRun, InProgress, Answered
  <2> QED
    BY <2>1, <2>2 DEF AnsweredInv
<1>6. CASE NewConversation
  <2>1. phase' = "idle" /\ messages' = <<>>
    BY <1>6 DEF NewConversation, control
  <2> QED
    BY <2>1 DEF AnsweredInv
<1>7. CASE UNCHANGED vars
  BY <1>7 DEF AnsweredInv, BeingRun, InProgress, vars, control, history
<1> QED
  BY <1>1, <1>2, <1>3, <1>4, <1>5, <1>6, <1>7 DEF Next, TurnStep

\* As long as no compacted turn was rolled back, the provider is never shown a call
\* without all of its results behind it, whatever compaction has removed.
THEOREM CallsStayAnswered == Spec => []CallsAnswered
<1>1. Init => AnsweredInv
  BY DEF Init, AnsweredInv
<1>2. IInv /\ AnsweredInv /\ [Next]_vars => AnsweredInv'
  BY NextAnswered
<1>3. AnsweredInv => CallsAnswered
  BY DEF AnsweredInv, CallsAnswered, BeingRun, Answered
<1> QED
  BY <1>1, <1>2, <1>3, Invariance, PTL DEF Spec

\* Adding a message keeps that, if the message is no result or belongs where it is put.
LEMMA AddKeepsFollows ==
  ASSUME NEW w \in Seq(Message), w # <<>>, NEW m \in Message, Follows(w),
         m.role = "tool" /\ Len(w) >= 2 =>
           /\ SameIteration(w[Len(w)], m)
           /\ w[Len(w)].role = "tool" \/ HasToolCalls(w[Len(w)])
  PROVE  Follows(AddMessage(w, m))
<1> DEFINE v == AddMessage(w, m)
<1>0. Len(w) \in Nat /\ Quarter \in Nat
  BY LimitRange
<1>1. PICK s \in 0..Quarter :
           /\ Len(w) - s >= 1
           /\ Len(v) = Len(w) - s + 1
           /\ v[Len(w) - s + 1] = m
           /\ v[1] = w[1]
           /\ \A x \in 2..(Len(w) - s) : v[x] = w[x + s]
  BY AddShifts
<1> HIDE DEF v
<1> SUFFICES ASSUME NEW i \in 3..Len(v), v[i].role = "tool"
             PROVE  /\ SameIteration(v[i - 1], v[i])
                    /\ v[i - 1].role = "tool" \/ HasToolCalls(v[i - 1])
  BY DEF Follows, v
<1>2. /\ s \in Nat /\ i \in Nat /\ i - 1 \in 2..(Len(w) - s)
      /\ i = Len(w) - s + 1 \/ i \in 3..(Len(w) - s)
  <2>1. /\ Len(w) \in Nat /\ s \in Nat /\ Len(w) - s >= 1
        /\ Len(v) = Len(w) - s + 1
    BY <1>0, <1>1
  <2>2. ASSUME NEW n \in Nat, NEW q \in Nat, NEW j \in 3..(n - q + 1)
        PROVE  /\ j \in Nat /\ j - 1 \in 2..(n - q)
               /\ j = n - q + 1 \/ j \in 3..(n - q)
    OBVIOUS
  <2>3. i \in 3..(Len(w) - s + 1)
    BY <2>1
  <2> HIDE <1>0, <1>1
  <2> QED
    BY <2>1, <2>2, <2>3, Zenon
<1>3. v[i - 1] = w[(i - 1) + s]
  BY <1>1, <1>2
<1>4. CASE i = Len(w) - s + 1
  <2>1. (i - 1) + s = Len(w) /\ Len(w) >= 2
    BY <1>0, <1>2, <1>4
  <2>2. v[i] = m
    BY <1>1, <1>4
  <2> QED
    BY <1>3, <2>1, <2>2
<1>5. CASE i \in 3..(Len(w) - s)
  <2>1. i + s \in 3..Len(w) /\ (i - 1) + s = (i + s) - 1
    BY <1>0, <1>2, <1>5, SMTT(60)
  <2>2. v[i] = w[i + s]
    BY <1>1, <1>5
  <2> QED
    BY <1>3, <2>1, <2>2 DEF Follows
<1> QED
  BY <1>2, <1>4, <1>5

\* Every step keeps FollowInv.
LEMMA NextFollow ==
  ASSUME IInv, FollowInv, [Next]_vars
  PROVE  FollowInv'
<1>0. /\ messages \in Seq(Message) /\ Len(messages) \in Nat /\ preTurn \in Nat
      /\ turn \in Nat /\ iter \in Nat /\ calls \in Nat /\ done \in Nat
      /\ phase # "idle" => messages # <<>>
      /\ Follows(messages)
      /\ phase = "tools" /\ Len(messages) >= 2 => OfIteration(messages[Len(messages)])
  BY AgentAssumption DEF IInv, TypeOK, FollowInv
<1>1. CASE StartTurn
  <2> DEFINE w == IF messages = <<>> THEN AddMessage(messages, System) ELSE messages
  <2>1. /\ w \in Seq(Message) /\ w # <<>>
        /\ messages = <<>> => Len(w) = 1
        /\ messages # <<>> => w = messages
        /\ User(turn + 1) \in Message
        /\ messages' = AddMessage(w, User(turn + 1))
    BY <1>1, TurnWindow
  <2>2. phase' = "calling"
    BY <1>1 DEF StartTurn
  <2> HIDE DEF w
  <2>3. Follows(w)
    <3>1. CASE messages = <<>>
      <4>1. Len(w) = 1
        BY <2>1, <3>1
      <4> QED
        BY <4>1 DEF Follows
    <3>2. CASE messages # <<>>
      BY <1>0, <2>1, <3>2
    <3> QED
      BY <3>1, <3>2
  <2>4. User(turn + 1).role # "tool"
    BY DEF User
  <2>5. Follows(messages')
    BY <2>1, <2>3, <2>4, AddKeepsFollows
  <2> QED
    BY <2>2, <2>5 DEF FollowInv
<1>2. CASE ProviderError \/ MaxIterations
  <2>1. messages' = PopTo(messages, preTurn) /\ phase' = "idle"
    BY <1>2 DEF ProviderError, MaxIterations, Fail
  <2>2. /\ Len(PopTo(messages, preTurn)) \in Nat
        /\ Len(PopTo(messages, preTurn)) <= Len(messages)
        /\ \A i \in 1..Len(PopTo(messages, preTurn)) : PopTo(messages, preTurn)[i] = messages[i]
    BY <1>0, PopToProperties
  <2> DEFINE v == PopTo(messages, preTurn)
  <2> HIDE DEF v
  <2>3. ASSUME NEW i \in 3..Len(v)
        PROVE  i \in 3..Len(messages) /\ v[i] = messages[i] /\ v[i - 1] = messages[i - 1]
    BY <1>0, <2>2 DEF v
  <2>4. Follows(v)
    BY <1>0, <2>3 DEF Follows
  <2> QED
    BY <2>1, <2>4 DEF FollowInv, Follows, v
<1>3. CASE ProviderToolCalls \/ FinalResponse
  <2>1. PICK k \in Nat : /\ messages' = AddMessage(messages, Assistant(turn, iter, k))
                         /\ phase' = "tools" => k > 0
    <3>1. CASE FinalResponse
      BY <3>1 DEF FinalResponse, Add
    <3>2. CASE ProviderToolCalls
      BY <3>2, AgentAssumption DEF ProviderToolCalls, Add
    <3> QED
      BY <1>3, <3>1, <3>2
  <2>2. phase = "calling" /\ turn' = turn /\ iter' = iter
    BY <1>3 DEF ProviderToolCalls, FinalResponse
  <2> DEFINE m == Assistant(turn, iter, k)
  <2>3. m \in Message /\ m.role # "tool"
    BY <1>0, MessagesMade DEF Assistant
  <2>4. Follows(messages') /\ messages'[Len(messages')] = m
    BY <1>0, <2>1, <2>2, <2>3, AddKeepsFollows, AddedIsLast
  <2>5. phase' = "tools" =>
          m.turn = turn' /\ m.iter = iter' /\ (m.role = "tool" \/ HasToolCalls(m))
    BY <2>1, <2>2 DEF HasToolCalls, Assistant
  <2> HIDE DEF m
  <2>6. phase' = "tools" => OfIteration(messages[Len(messages)])'
    BY <2>4, <2>5 DEF OfIteration
  <2> QED
    BY <2>4, <2>6 DEF FollowInv, Follows
<1>4. CASE RunToolCall
  <2> DEFINE m == ToolResult(turn, iter, done + 1)
  <2>1. /\ phase = "tools" /\ turn' = turn /\ iter' = iter
        /\ messages' = AddMessage(messages, m)
    BY <1>4 DEF RunToolCall, Add
  <2>2. m \in Message /\ m.role = "tool" /\ m.turn = turn /\ m.iter = iter
    BY <1>0, MessagesMade DEF ToolResult
  <2> HIDE DEF m
  <2>3. Len(messages) >= 2 =>
          /\ SameIteration(messages[Len(messages)], m)
          /\ messages[Len(messages)].role = "tool" \/ HasToolCalls(messages[Len(messages)])
    BY <1>0, <2>1, <2>2 DEF OfIteration, SameIteration
  <2>4. Follows(messages') /\ messages'[Len(messages')] = m
    BY <1>0, <2>1, <2>2, <2>3, AddKeepsFollows, AddedIsLast
  <2> QED
    BY <2>1, <2>2, <2>4 DEF FollowInv, Follows, OfIteration
<1>5. CASE NextIteration
  <2>1. phase' = "calling" /\ messages' = messages
    BY <1>5 DEF NextIteration
  <2> QED
    BY <2>1 DEF FollowInv
<1>6. CASE NewConversation
  <2>1. phase' = "idle" /\ Len(messages') = 0
    BY <1>6 DEF NewConversation, control
  <2> QED
    BY <2>1 DEF FollowInv, Follows
<1>7. CASE UNCHANGED vars
  BY <1>7 DEF FollowInv, OfIteration, vars, control, history
<1> QED
  BY <1>1, <1>2, <1>3, <1>4, <1>5, <1>6, <1>7 DEF Next, TurnStep

\* Where each result follows its iteration, one whose call is gone is preceded by nothing
\* but results of its iteration, all the way to the head.
LEMMA FollowsLeavesOrphansAtHead ==
  ASSUME NEW w \in Seq(Message), Follows(w), NEW i \in 1..Len(w), w[i].role = "tool",
         ~\E j \in 1..(i - 1) : Answers(w[i], w[j])
  PROVE  \A j \in 2..i : w[j].role = "tool" /\ SameIteration(w[j], w[i])
<1> DEFINE Good(x) == \A y \in x..i : w[y].role = "tool" /\ SameIteration(w[y], w[i])
           T == {x \in 2..i : Good(x)}
<1>0. i \in Nat /\ i >= 1 /\ i <= Len(w) /\ Len(w) \in Nat
  OBVIOUS
<1>1. CASE i = 1
  BY <1>1
<1>2. CASE i >= 2
  <2>1. i \in T
    BY <1>0, <1>2 DEF SameIteration
  <2>2. T \subseteq Nat
    OBVIOUS
  <2>3. PICK x \in T : \A y \in T : x <= y
    BY <2>1, <2>2, LeastNatural, Zenon
  <2>4. x \in 2..i /\ Good(x)
    BY <2>3
  <2>5. ASSUME x # 2
        PROVE  FALSE
    <3>1. x \in 3..Len(w) /\ x - 1 \in 2..i /\ x - 1 \in 1..(i - 1) /\ x \in Nat
      BY <1>0, <2>4, <2>5
    <3>2. w[x].role = "tool" /\ SameIteration(w[x], w[i])
      BY <2>4
    <3>3. /\ SameIteration(w[x - 1], w[x])
          /\ w[x - 1].role = "tool" \/ HasToolCalls(w[x - 1])
      BY <3>1, <3>2 DEF Follows
    <3>4. SameIteration(w[x - 1], w[i]) /\ SameIteration(w[i], w[x - 1])
      BY <3>2, <3>3 DEF SameIteration
    <3>5. ~HasToolCalls(w[x - 1])
      BY <3>1, <3>4 DEF Answers
    <3>6. \A y \in (x - 1)..i : y = x - 1 \/ y \in x..i
      BY <3>1
    <3>7. Good(x - 1)
      BY <2>4, <3>3, <3>4, <3>5, <3>6
    <3>8. x - 1 \in T
      BY <3>1, <3>7
    <3> QED
      BY <2>3, <3>1, <3>8
  <2> QED
    BY <2>4, <2>5
<1> QED
  BY <1>0, <1>1, <1>2

\* A result that compaction has separated from its call stands at the head of the window,
\* however many turns were rolled back.
THEOREM OrphansStayAtHead == Spec => []OrphansOnlyAtHead
<1>1. Init => FollowInv
  BY DEF Init, FollowInv, Follows
<1>2. IInv /\ FollowInv /\ [Next]_vars => FollowInv'
  BY NextFollow
<1>3. ASSUME IInv, FollowInv
      PROVE  OrphansOnlyAtHead
  <2>1. messages \in Seq(Message) /\ Follows(messages)
    BY <1>3 DEF IInv, TypeOK, FollowInv
  <2> QED
    BY <2>1, FollowsLeavesOrphansAtHead DEF OrphansOnlyAtHead
<1> QED
  BY <1>1, <1>2, <1>3, Invariance, PTL DEF Spec

\* Adding a message to a window that holds the question moves the question by what was
\* compacted, and does not reach it before a quarter of the window is left.
LEMMA AddKeepsQuestion ==
  ASSUME NEW w \in Seq(Message), w # <<>>, NEW m \in Message,
         NEW a \in Nat, a >= 1, a + 1 <= Limit - Quarter,
         Len(w) >= a
  PROVE  /\ Len(AddMessage(w, m)) >= a + 1
         /\ AddMessage(w, m)[Len(AddMessage(w, m)) - (a + 1) + 1] = w[Len(w) - a + 1]
<1> DEFINE v == AddMessage(w, m)
<1>0. Len(w) \in Nat /\ Quarter \in Nat /\ Limit \in Nat /\ 1 <= Quarter
  BY LimitRange, AgentAssumption
<1>1. PICK s \in 0..Quarter :
           /\ Len(w) - s >= 1
           /\ Len(v) = Len(w) - s + 1
           /\ v[Len(w) - s + 1] = m
           /\ v[1] = w[1]
           /\ \A x \in 2..(Len(w) - s) : v[x] = w[x + s]
           /\ Len(w) < Limit => s = 0
  BY AddShifts
<1> HIDE DEF v
<1>2. CASE s = 0
  <2>1. Len(w) - s = Len(w) /\ Len(v) = Len(w) + 1
    BY <1>0, <1>1, <1>2
  <2>2. \A x \in 1..Len(w) : v[x] = w[x]
    <3>1. TAKE x \in 1..Len(w)
    <3>2. x = 1 \/ (x \in 2..(Len(w) - s) /\ x + s = x)
      BY <1>0, <1>2, <2>1
    <3> QED
      BY <1>1, <3>2
  <2>3. Len(v) - (a + 1) + 1 = Len(w) - a + 1 /\ Len(w) - a + 1 \in 1..Len(w)
    BY <1>0, <2>1
  <2> QED
    BY <1>0, <2>1, <2>2, <2>3 DEF v
<1>3. CASE s # 0
  <2>1. Len(w) >= Limit /\ s \in Nat /\ s <= Quarter
    BY <1>0, <1>1, <1>3
  <2> DEFINE x == Len(v) - (a + 1) + 1
  <2>2. x \in 2..(Len(w) - s) /\ x + s = Len(w) - a + 1 /\ Len(v) >= a + 1
    BY <1>0, <1>1, <2>1
  <2>3. v[x] = w[x + s]
    BY <1>1, <2>2
  <2> QED
    BY <2>2, <2>3 DEF v
<1> QED
  BY <1>2, <1>3

\* Every step keeps QuestionInv.
LEMMA NextQuestion ==
  ASSUME IInv, QuestionInv, [Next]_vars
  PROVE  QuestionInv'
<1>0. /\ messages \in Seq(Message) /\ added \in Nat /\ turn \in Nat /\ iter \in Nat
      /\ calls \in Nat /\ done \in Nat /\ Limit \in Nat /\ Quarter \in Nat
      /\ phase # "idle" => messages # <<>>
  BY LimitRange, AgentAssumption DEF IInv, TypeOK
<1>1. CASE StartTurn
  <2> DEFINE w == IF messages = <<>> THEN AddMessage(messages, System) ELSE messages
  <2>1. /\ w \in Seq(Message) /\ User(turn + 1) \in Message
        /\ messages' = AddMessage(w, User(turn + 1))
    BY <1>1, TurnWindow
  <2>2. added' = 1 /\ turn' = turn + 1
    BY <1>1 DEF StartTurn
  <2> HIDE DEF w
  <2>3. /\ Len(messages') \in Nat /\ Len(messages') >= 1
        /\ messages'[Len(messages')] = User(turn + 1)
    BY <2>1, AddedIsLast
  <2>4. Len(messages') - 1 + 1 = Len(messages')
    BY <2>3
  <2> QED
    BY <2>2, <2>3, <2>4 DEF QuestionInv
<1>2. CASE ProviderError \/ MaxIterations \/ FinalResponse \/ NewConversation
  <2>1. phase' = "idle"
    BY <1>2 DEF ProviderError, MaxIterations, FinalResponse, NewConversation, Fail, control
  <2> QED
    BY <2>1 DEF QuestionInv
<1>3. CASE ProviderToolCalls \/ RunToolCall
  <2>1. phase # "idle" /\ turn' = turn
    BY <1>3 DEF ProviderToolCalls, RunToolCall
  <2>2. PICK m \in Message : Add(m)
    <3>1. CASE ProviderToolCalls
      <4>1. PICK k \in 1..MaxCalls : Add(Assistant(turn, iter, k))
        BY <3>1 DEF ProviderToolCalls
      <4>2. k \in Nat
        BY AgentAssumption
      <4> QED
        BY <1>0, <4>1, <4>2, MessagesMade
    <3>2. CASE RunToolCall
      <4>1. Add(ToolResult(turn, iter, done + 1)) /\ done + 1 \in Nat
        BY <1>0, <3>2 DEF RunToolCall
      <4> QED
        BY <1>0, <4>1, MessagesMade
    <3> QED
      BY <1>3, <3>1, <3>2
  <2>3. /\ messages' = AddMessage(messages, m)
        /\ added' = IF added > Limit THEN added ELSE added + 1
    BY <2>2 DEF Add
  <2>4. added >= 1 /\ messages # <<>>
    BY <1>0, <2>1 DEF QuestionInv
  <2> SUFFICES ASSUME added' <= Limit - Quarter
               PROVE  /\ Len(messages') >= added'
                      /\ messages'[Len(messages') - added' + 1] = User(turn)
    BY <1>0, <2>1, <2>3, <2>4 DEF QuestionInv
  <2>5. added' = added + 1 /\ added + 1 <= Limit - Quarter /\ added <= Limit - Quarter
    BY <1>0, <2>3
  <2>6. Len(messages) >= added /\ messages[Len(messages) - added + 1] = User(turn)
    BY <2>1, <2>5 DEF QuestionInv
  <2> QED
    BY <1>0, <2>3, <2>4, <2>5, <2>6, AddKeepsQuestion, SMTT(60)
<1>4. CASE NextIteration
  <2>1. phase # "idle" /\ messages' = messages /\ turn' = turn /\ added' = added
    BY <1>4 DEF NextIteration, history
  <2> QED
    BY <2>1 DEF QuestionInv
<1>5. CASE UNCHANGED vars
  BY <1>5 DEF QuestionInv, vars, control, history
<1> QED
  BY <1>1, <1>2, <1>3, <1>4, <1>5 DEF Next, TurnStep

\* The question a turn is about stays in the window as long as the turn has added no more
\* messages than a compacted full window holds.
THEOREM QuestionStaysInWindow == Spec => []QuestionKept
<1>1. Init => QuestionInv
  BY DEF Init, QuestionInv
<1>2. IInv /\ QuestionInv /\ [Next]_vars => QuestionInv'
  BY NextQuestion
<1>3. ASSUME IInv, QuestionInv
      PROVE  QuestionKept
  <2> SUFFICES ASSUME phase = "calling", added <= Limit - Quarter
               PROVE  \E i \in 1..Len(messages) : messages[i] = User(turn)
    BY DEF QuestionKept
  <2>1. messages \in Seq(Message) /\ added \in Nat
    BY <1>3 DEF IInv, TypeOK
  <2>2. /\ added >= 1 /\ Len(messages) >= added
        /\ messages[Len(messages) - added + 1] = User(turn)
    BY <1>3 DEF QuestionInv
  <2>3. Len(messages) - added + 1 \in 1..Len(messages)
    BY <2>1, <2>2
  <2> QED
    BY <2>2, <2>3
<1> QED
  BY <1>1, <1>2, <1>3, Invariance, PTL DEF Spec

=============================================================================
