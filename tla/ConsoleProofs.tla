----------------------------- MODULE ConsoleProofs -----------------------------
(***************************************************************************)
(* Proofs about module Console, for any number of lines, signals, edits    *)
(* and iterations of a turn.                                               *)
(***************************************************************************)
EXTENDS MCConsole, TLAPS, FiniteSetTheorems

InTurn == {"turn", "stop", "join"}

\* The spinner thread lives inside a turn.
SpinnerInv == main \notin InTurn => spinner = "none" /\ held = "none"

\* The /quit that was typed when Ctrl-C came.
CtrlCQuits == sigint /\ input = "/quit"

\* What the flags and the input say of the past.
AskedInv ==
  /\ ~running => asked
  /\ main = "returned" /\ input \in {Eof, "/quit"} /\ ~sigint => asked
  /\ main = "args" => created = {}
  /\ main = "cleanup" => asked \/ code = 1 \/ CtrlCQuits
  /\ main = "exited" => asked \/ code = 1 \/ CtrlCQuits \/ created = {}

Before(a, b) ==
  \E i, j \in DOMAIN Teardown : i < j /\ Teardown[i] = a /\ Teardown[j] = b

\* Destruction goes through Teardown, and has passed what it left out.
TeardownInv ==
  /\ main = "args" => created = {}
  /\ created \subseteq ToSet(Teardown)
  /\ gone \in Seq(created)
  /\ main \notin {"cleanup", "exited"} => gone = <<>>
  /\ \A i, j \in DOMAIN gone : i < j => Before(gone[i], gone[j])
  /\ \A i \in DOMAIN gone : \A j \in Left : Before(gone[i], Teardown[j])
  /\ main = "exited" => Left = {}

-----------------------------------------------------------------------------

\* No step lets the spinner thread, or a message it holds, out of the turn.
LEMMA NextSpinner ==
  ASSUME SpinnerInv, [Next]_vars
  PROVE  SpinnerInv'
<1> USE DEF SpinnerInv, InTurn
<1>1. CASE Boot
  BY <1>1 DEF Boot, Usage, Configure, BootFails, Provide, Build, Install, Goes, typing
<1>2. CASE Daemon
  BY <1>2 DEF Daemon, StartGateway, GatewayFails, Idle, Pause, Goes, typing
<1>3. CASE Prompt
  BY <1>3 DEF Prompt, Top, Reset, NoInput, Command, Quit, Reload, Goes, typing
<1>4. CASE Turn
  <2>1. CASE BeginTurn
    BY <1>4, <2>1 DEF BeginTurn, SetMessage
  <2>2. CASE StartSpinner \/ OnThinking \/ Answer \/ StopSpinner
    BY <2>2 DEF StartSpinner, OnThinking, Answer, StopSpinner
  <2>3. CASE JoinSpinner
    BY <2>3 DEF JoinSpinner
  <2>4. CASE Reply
    BY <2>4 DEF Reply, Goes, typing
  <2> QED
    BY <1>4, <2>1, <2>2, <2>3, <2>4 DEF Turn
<1>5. CASE Cleanup
  BY <1>5 DEF Cleanup, DestroyNext, typing
<1>6. CASE Spinner
  BY <1>6 DEF Spinner, Spin, TakeMessage, PrintMessage, ClearLine
<1>7. CASE Outside
  <2>1. UNCHANGED <<spinner, held>>
    BY <1>7 DEF Outside, Type, Killed, Terminate, Interrupt, Edit, Sent, typing
  <2>2. main' = main \/ main \notin InTurn
    BY <1>7 DEF Outside, Type, Killed, Terminate, Interrupt, Edit, Sent, Interrupted, NoHandlers
  <2> QED
    BY <2>1, <2>2
<1>8. CASE UNCHANGED vars
  BY <1>8 DEF vars, typing
<1> QED
  BY <1>1, <1>2, <1>3, <1>4, <1>5, <1>6, <1>7, <1>8 DEF Next, Main

\* Between a reply and the next turn there is no spinner thread, and nothing it still
\* holds of a message.
THEOREM SpinnerIsOffAtThePrompt == Spec => []SpinnerOffAtPrompt
<1>1. Init => SpinnerInv
  BY DEF Init, SpinnerInv
<1>2. SpinnerInv /\ [Next]_vars => SpinnerInv'
  BY NextSpinner
<1>3. SpinnerInv => SpinnerOffAtPrompt
  BY DEF SpinnerInv, SpinnerOffAtPrompt, InTurn
<1> QED
  BY <1>1, <1>2, <1>3, PTL DEF Spec

\* Every step keeps AskedInv.
LEMMA NextAsked ==
  ASSUME AskedInv, [Next]_vars
  PROVE  AskedInv'
<1> USE DEF AskedInv, CtrlCQuits
<1>1. CASE Boot
  BY <1>1 DEF Boot, Usage, Configure, BootFails, Provide, Build, Install, Goes, boot, signals, typed
<1>2. CASE Daemon
  BY <1>2 DEF Daemon, StartGateway, GatewayFails, Idle, Pause, Goes, boot, signals, typed
<1>3. CASE Prompt
  BY <1>3 DEF Prompt, Top, Reset, NoInput, Command, Quit, Reload, Goes, boot, signals, typed, Eof
<1>4. CASE Turn
  BY <1>4 DEF Turn, BeginTurn, StartSpinner, OnThinking, Answer, StopSpinner, JoinSpinner, Reply,
              Goes, boot, signals, typed
<1>5. CASE Cleanup
  BY <1>5 DEF Cleanup, DestroyNext, signals, typed
<1>6. CASE Spinner
  BY <1>6 DEF Spinner, Spin, TakeMessage, PrintMessage, ClearLine, boot, signals, typed
<1>7. CASE Outside
  <2>1. CASE \E l \in Lines \cup {Eof} : Type(l)
    <3>1. PICK l \in Lines \cup {Eof} : Type(l)
      BY <2>1
    <3>2. /\ main' = "returned" /\ input' = l /\ asked' = (asked \/ l \in {Eof, "/quit"})
          /\ UNCHANGED <<running, sigint, created, code>>
      BY <3>1 DEF Type, boot, signals
    <3> QED
      BY <3>2
  <2>2. CASE Killed
    BY <2>2 DEF Killed, Sent, boot, signals
  <2>3. CASE Terminate
    BY <2>3 DEF Terminate, Sent, Interrupted, NoHandlers, boot
  <2>4. CASE Interrupt
    BY <2>4 DEF Interrupt, Sent, Interrupted, NoHandlers, boot, Eof, Lines
  <2>5. CASE Edit
    BY <2>5 DEF Edit, boot, signals
  <2> QED
    BY <1>7, <2>1, <2>2, <2>3, <2>4, <2>5 DEF Outside
<1>8. CASE UNCHANGED vars
  BY <1>8 DEF vars, boot, signals, typed
<1> QED
  BY <1>1, <1>2, <1>3, <1>4, <1>5, <1>6, <1>7, <1>8 DEF Next, Main

\* Ctrl-C ends the process only through a /quit typed and not entered: otherwise it cleans
\* up when it was asked to, or could not boot.
THEOREM OnlyLeavesWhenAsked == Spec => []LeavesWhenAsked
<1>1. Init => AskedInv
  BY DEF Init, AskedInv, CtrlCQuits
<1>2. AskedInv /\ [Next]_vars => AskedInv'
  BY NextAsked
<1>3. AskedInv => LeavesWhenAsked
  BY DEF AskedInv, LeavesWhenAsked, CtrlCQuits
<1> QED
  BY <1>1, <1>2, <1>3, PTL DEF Spec

-----------------------------------------------------------------------------

\* Teardown names no subsystem twice.
LEMMA TeardownOrder ==
  /\ DOMAIN Teardown = 1..13
  /\ \A i, j \in 1..13 : Teardown[i] = Teardown[j] => i = j
BY SMTT(30) DEF Teardown

\* What comes later in Teardown is not used by what comes earlier.
LEMMA BeforeIsSafe ==
  ASSUME NEW a, NEW b, Before(a, b)
  PROVE  a # b /\ <<b, a>> \notin Uses
<1>1. PICK i, j \in 1..13 : i < j /\ Teardown[i] = a /\ Teardown[j] = b
  BY TeardownOrder DEF Before
<1>2. a # b
  BY <1>1, TeardownOrder
<1>3. a # "log"
  <2>1. Teardown[13] = "log"
    BY DEF Teardown
  <2> QED
    BY <1>1, <2>1, TeardownOrder
<1>4. /\ a \in {"agent", "scheduler", "memory"} => b # "gateway"
      /\ a = "provider" => b # "agent"
      /\ a = "http" => b # "provider"
  <2>1. /\ Teardown[1] = "gateway" /\ Teardown[4] = "scheduler" /\ Teardown[5] = "memory"
        /\ Teardown[6] = "agent" /\ Teardown[7] = "provider" /\ Teardown[10] = "http"
    BY DEF Teardown
  <2>2. /\ b = "gateway" => j = 1
        /\ b = "agent" => j = 6
        /\ b = "provider" => j = 7
        /\ a = "provider" => i = 7
        /\ a = "http" => i = 10
    BY <1>1, <2>1, TeardownOrder
  <2> QED
    BY <1>1, <2>2
<1> QED
  BY <1>2, <1>3, <1>4 DEF Uses

\* The subsystems a step creates are in Teardown.
LEMMA CreatedInTeardown == Early \cup Late \cup {"provider", "gateway"} \subseteq ToSet(Teardown)
<1>1. \A i \in 1..13 : Teardown[i] \in ToSet(Teardown)
  BY TeardownOrder DEF ToSet
<1>2. /\ Teardown[1] = "gateway" /\ Teardown[2] = "heartbeat" /\ Teardown[3] = "skills"
      /\ Teardown[4] = "scheduler" /\ Teardown[5] = "memory" /\ Teardown[6] = "agent"
      /\ Teardown[7] = "provider" /\ Teardown[8] = "allowlist" /\ Teardown[9] = "registry"
      /\ Teardown[10] = "http" /\ Teardown[11] = "history" /\ Teardown[12] = "config"
      /\ Teardown[13] = "log"
  BY DEF Teardown
<1>3. {"gateway", "heartbeat", "skills", "scheduler", "memory", "agent", "provider",
       "allowlist", "registry", "http", "history", "config", "log"} \subseteq ToSet(Teardown)
  BY <1>1, <1>2
<1> QED
  BY <1>3 DEF Early, Late

\* A step of the main thread that creates something has destroyed nothing.
LEMMA Creates ==
  ASSUME TeardownInv, main \notin {"cleanup", "exited"}, main' # "exited",
         gone' = gone, created' \subseteq ToSet(Teardown), main' # "args"
  PROVE  TeardownInv'
<1>1. gone' = <<>>
  BY DEF TeardownInv
<1>2. gone' \in Seq(created') /\ DOMAIN gone' = {}
  BY <1>1
<1> QED
  BY <1>1, <1>2 DEF TeardownInv

\* A step that leaves the subsystems alone, on a way that was not over.
LEMMA LeavesAlone ==
  ASSUME TeardownInv, gone' = gone, created' = created,
         main' = main \/ (main \notin {"cleanup", "exited"} /\ main' # "args"),
         main' = "exited" => main \in {"args", "exited"}
  PROVE  TeardownInv'
<1>1. Left' = Left
  BY DEF Left
<1>2. main = "args" => Left = {}
  BY DEF TeardownInv, Left
<1> QED
  BY <1>1, <1>2 DEF TeardownInv

\* Every step keeps TeardownInv.
LEMMA NextTeardown ==
  ASSUME TeardownInv, [Next]_vars
  PROVE  TeardownInv'
<1>1. CASE Usage \/ BootFails \/ Install
  BY <1>1, LeavesAlone DEF Usage, BootFails, Install, Goes, boot
<1>2. CASE Configure \/ Provide \/ Build \/ StartGateway
  <2>1. /\ main \notin {"cleanup", "exited"} /\ main' \notin {"args", "exited"}
        /\ gone' = gone
        /\ created' \subseteq created \cup Early \cup Late \cup {"provider", "gateway"}
    BY <1>2 DEF Configure, Provide, Build, StartGateway
  <2>2. created \subseteq ToSet(Teardown)
    BY DEF TeardownInv
  <2> QED
    BY <2>1, <2>2, Creates, CreatedInTeardown
<1>3. CASE GatewayFails \/ Idle \/ Pause
  BY <1>3, LeavesAlone DEF GatewayFails, Idle, Pause, Goes, boot
<1>4. CASE Prompt
  BY <1>4, LeavesAlone DEF Prompt, Top, Reset, NoInput, Command, Quit, Reload, Goes, boot
<1>5. CASE Turn
  BY <1>5, LeavesAlone DEF Turn, BeginTurn, StartSpinner, OnThinking, Answer, StopSpinner,
                           JoinSpinner, Reply, Goes, boot
<1>6. CASE Cleanup
  <2>0. created' = created /\ main = "cleanup" /\ gone \in Seq(created)
        /\ created \subseteq ToSet(Teardown)
    BY <1>6 DEF Cleanup, TeardownInv
  <2>1. CASE Left = {}
    <3>1. main' = "exited" /\ gone' = gone
      BY <1>6, <2>1 DEF Cleanup
    <3>2. Left' = {}
      BY <2>0, <2>1, <3>1 DEF Left
    <3> QED
      BY <2>0, <3>1, <3>2 DEF TeardownInv
  <2>2. CASE Left # {}
    <3>1. PICK m \in Left :
             /\ \A j \in Left : m <= j
             /\ gone' = Append(gone, Teardown[m])
             /\ main' = main
      BY <1>6, <2>2 DEF Cleanup, DestroyNext
    <3>2. m \in 1..13 /\ Teardown[m] \in created
      BY <3>1, TeardownOrder DEF Left
    <3>3. /\ gone' \in Seq(created)
          /\ Len(gone') = Len(gone) + 1 /\ Len(gone) \in Nat
          /\ gone'[Len(gone) + 1] = Teardown[m]
          /\ \A i \in 1..Len(gone) : gone'[i] = gone[i]
          /\ DOMAIN gone = 1..Len(gone) /\ DOMAIN gone' = 1..(Len(gone) + 1)
      BY <2>0, <3>1, <3>2
    <3>4. /\ \A i \in DOMAIN gone : Before(gone[i], Teardown[m])
          /\ \A i, j \in DOMAIN gone : i < j => Before(gone[i], gone[j])
          /\ \A i \in DOMAIN gone : \A j \in Left : Before(gone[i], Teardown[j])
      BY <3>1 DEF TeardownInv
    <3>5. Left' \subseteq Left \ {m}
      <4>1. ToSet(gone) \subseteq ToSet(gone') /\ Teardown[m] \in ToSet(gone')
        BY <3>3 DEF ToSet
      <4> QED
        BY <2>0, <4>1 DEF Left
    <3>6. \A j \in Left' : Before(Teardown[m], Teardown[j])
      <4>1. ASSUME NEW j \in Left'
            PROVE  m < j /\ j \in 1..13
        <5>1. j \in Left /\ j # m
          BY <3>5
        <5>2. j \in 1..13
          BY <5>1, TeardownOrder DEF Left
        <5> QED
          BY <3>1, <3>2, <5>1, <5>2
      <4> QED
        BY <3>2, <4>1, TeardownOrder DEF Before
    <3>7. \A i, j \in DOMAIN gone' : i < j => Before(gone'[i], gone'[j])
      <4> SUFFICES ASSUME NEW i \in DOMAIN gone', NEW j \in DOMAIN gone', i < j
                   PROVE  Before(gone'[i], gone'[j])
        OBVIOUS
      <4>1. i \in DOMAIN gone /\ gone'[i] = gone[i]
        BY <3>3
      <4>2. CASE j = Len(gone) + 1
        BY <3>3, <3>4, <4>1, <4>2
      <4>3. CASE j \in DOMAIN gone
        BY <3>3, <3>4, <4>1, <4>3
      <4> QED
        BY <3>3, <4>2, <4>3
    <3>8. \A i \in DOMAIN gone' : \A j \in Left' : Before(gone'[i], Teardown[j])
      <4> SUFFICES ASSUME NEW i \in DOMAIN gone', NEW j \in Left'
                   PROVE  Before(gone'[i], Teardown[j])
        OBVIOUS
      <4>1. CASE i = Len(gone) + 1
        BY <3>3, <3>6, <4>1
      <4>2. CASE i \in DOMAIN gone
        BY <3>3, <3>4, <3>5, <4>2
      <4> QED
        BY <3>3, <4>1, <4>2
    <3>9. (\A i \in DOMAIN gone : \A j \in Left : Before(gone[i], Teardown[j]))'
          /\ (\A i, j \in DOMAIN gone : i < j => Before(gone[i], gone[j]))'
      BY <3>7, <3>8 DEF Before
    <3> QED
      BY <2>0, <3>1, <3>3, <3>9 DEF TeardownInv
  <2> QED
    BY <2>1, <2>2
<1>7. CASE Spinner
  BY <1>7, LeavesAlone DEF Spinner, Spin, TakeMessage, PrintMessage, ClearLine, boot
<1>8. CASE Outside
  <2>1. gone' = gone /\ created' = created
    BY <1>8 DEF Outside, Type, Killed, Terminate, Interrupt, Edit, Sent, boot
  <2>2. \/ main' = main
        \/ main \notin {"cleanup", "exited"} /\ main' \notin {"args", "exited"}
    <3>1. CASE (\E l \in Lines \cup {Eof} : Type(l)) \/ Edit
      BY <3>1 DEF Type, Edit
    <3>2. CASE Killed
      BY <3>2 DEF Killed, NoHandlers
    <3>3. CASE Terminate \/ Interrupt
      BY <3>3 DEF Terminate, Interrupt, Interrupted
    <3> QED
      BY <1>8, <3>1, <3>2, <3>3 DEF Outside
  <2> QED
    BY <2>1, <2>2, LeavesAlone
<1>9. CASE UNCHANGED vars
  BY <1>9, LeavesAlone DEF vars, boot
<1> QED
  BY <1>1, <1>2, <1>3, <1>4, <1>5, <1>6, <1>7, <1>8, <1>9 DEF Next, Main, Boot, Daemon

\* On exit all that was created is destroyed, each once and before what it uses, at
\* whatever point boot gave up.
THEOREM AlwaysLeavesClean == Spec => []LeavesClean
<1>1. Init => TeardownInv
  BY DEF Init, TeardownInv, Left
<1>2. TeardownInv /\ [Next]_vars => TeardownInv'
  BY NextTeardown
<1>3. TeardownInv => LeavesClean
  <2> SUFFICES ASSUME TeardownInv
               PROVE  LeavesClean
    OBVIOUS
  <2>1. main = "exited" => ToSet(gone) = created
    <3>1. gone \in Seq(created) /\ created \subseteq ToSet(Teardown)
      BY DEF TeardownInv
    <3>2. ToSet(gone) \subseteq created
      BY <3>1 DEF ToSet
    <3>3. main = "exited" => created \subseteq ToSet(gone)
      BY <3>1 DEF TeardownInv, Left, ToSet
    <3> QED
      BY <3>2, <3>3
  <2>2. \A i, j \in DOMAIN gone : i < j => gone[i] # gone[j] /\ <<gone[j], gone[i]>> \notin Uses
    BY BeforeIsSafe DEF TeardownInv
  <2> QED
    BY <2>1, <2>2 DEF LeavesClean
<1> QED
  BY <1>1, <1>2, <1>3, PTL DEF Spec

-----------------------------------------------------------------------------
(* Skills: what is taken of an array.                                      *)

\* at goes through the elements of s, each once.
Counts(at, s) ==
  \E m \in Nat : /\ at \in [1..m -> s]
                 /\ \A j, k \in 1..m : at[j] = at[k] => j = k
                 /\ \A x \in s : \E k \in 1..m : at[k] = x

\* The number of the positions up to m.
LEMMA CountUpTo == \A m \in Nat : Cardinality(1..m) = m
<1> TAKE m \in Nat
<1>1. 1 \in Int /\ m \in Int
  OBVIOUS
<1>2. Cardinality(1..m) = IF 1 > m THEN 0 ELSE m - 1 + 1
  BY <1>1, FS_Interval
<1> QED
  BY <1>2

\* Positions in their order come once each.
LEMMA InOrderCounts ==
  ASSUME NEW n \in Nat, NEW P \in SUBSET (1..n)
  PROVE  Counts(InOrder(P), P)
<1> DEFINE m       == Cardinality(P)
           Upto(i) == {j \in P : j <= i}
           rank    == [i \in P |-> Cardinality(Upto(i))]
<1>1. IsFiniteSet(P) /\ m \in Nat
  <2>1. IsFiniteSet(1..n)
    BY FS_Interval
  <2> QED
    BY <2>1, FS_Subset, FS_CardinalityType
<1>2. ASSUME NEW i \in P
      PROVE  /\ IsFiniteSet(Upto(i)) /\ Cardinality(Upto(i)) \in 1..m
  <2>1. Upto(i) \in SUBSET P /\ i \in Upto(i)
    OBVIOUS
  <2>2. IsFiniteSet(Upto(i)) /\ Cardinality(Upto(i)) <= m
    BY <1>1, <2>1, FS_Subset
  <2>3. Cardinality(Upto(i)) \in Nat
    BY <2>2, FS_CardinalityType
  <2>4. Cardinality(Upto(i)) # 0
    BY <2>1, <2>2, FS_EmptySet
  <2> QED
    BY <1>1, <2>2, <2>3, <2>4
<1>3. ASSUME NEW i \in P, NEW j \in P, i < j
      PROVE  Cardinality(Upto(i)) < Cardinality(Upto(j))
  <2>1. Upto(i) \in SUBSET Upto(j) /\ j \in Upto(j) /\ j \notin Upto(i)
    <3>1. \A x \in P : x \in Int /\ (x <= i => x <= j)
      BY <1>3
    <3>2. j <= j /\ ~(j <= i)
      BY <1>3
    <3> QED
      BY <3>1, <3>2
  <2>2. /\ Cardinality(Upto(i)) <= Cardinality(Upto(j))
        /\ Cardinality(Upto(i)) # Cardinality(Upto(j))
    BY <1>2, <2>1, FS_Subset
  <2>3. Cardinality(Upto(i)) \in Nat /\ Cardinality(Upto(j)) \in Nat
    BY <1>2, FS_CardinalityType
  <2> QED
    BY <2>2, <2>3
<1>4. rank \in [P -> 1..m] /\ \A i \in P : rank[i] = Cardinality(Upto(i))
  BY <1>2
<1> HIDE DEF rank, m, Upto
<1>5. \A i, j \in P : rank[i] = rank[j] => i = j
  <2> SUFFICES ASSUME NEW i \in P, NEW j \in P, i # j
               PROVE  rank[i] # rank[j]
    OBVIOUS
  <2>1. i < j \/ j < i
    OBVIOUS
  <2>2. /\ Cardinality(Upto(i)) \in 1..m /\ Cardinality(Upto(j)) \in 1..m
        /\ i < j => Cardinality(Upto(i)) < Cardinality(Upto(j))
        /\ j < i => Cardinality(Upto(j)) < Cardinality(Upto(i))
    BY <1>2, <1>3
  <2> QED
    BY <1>1, <1>4, <2>1, <2>2
<1>6. \A k \in 1..m : \E i \in P : rank[i] = k
  <2>1. rank \in Injection(P, 1..m)
    BY <1>4, <1>5 DEF Injection, IsInjective
  <2>2. IsFiniteSet(1..m) /\ Cardinality(1..m) = m
    BY <1>1, FS_Interval, CountUpTo
  <2>3. rank \in Surjection(P, 1..m)
    BY <2>1, <2>2, FS_Injection DEF m
  <2> QED
    BY <2>3 DEF Surjection
<1>7. DOMAIN InOrder(P) = 1..m
  BY DEF InOrder, m
<1>8. ASSUME NEW k \in 1..m
      PROVE  InOrder(P)[k] \in P /\ rank[InOrder(P)[k]] = k
  <2>1. InOrder(P)[k] = CHOOSE i \in P : Cardinality({j \in P : j <= i}) = k
    BY <1>8 DEF InOrder, m
  <2>2. \E i \in P : Cardinality({j \in P : j <= i}) = k
    BY <1>4, <1>6, <1>8 DEF Upto
  <2> QED
    BY <1>4, <2>1, <2>2 DEF Upto
<1> DEFINE at == InOrder(P)
<1>9. \A j, k \in 1..m : at[j] = at[k] => j = k
  BY <1>8
<1>10. \A i \in P : \E k \in 1..m : at[k] = i
  <2> TAKE i \in P
  <2>1. rank[i] \in 1..m
    BY <1>4
  <2>2. at[rank[i]] \in P /\ rank[at[rank[i]]] = rank[i]
    BY <1>8, <2>1
  <2> QED
    BY <1>5, <2>1, <2>2
<1>11. at \in [1..m -> P]
  BY <1>7, <1>8 DEF InOrder
<1> HIDE DEF at
<1>12. Counts(at, P)
  BY <1>1, <1>9, <1>10, <1>11 DEF Counts
<1> QED
  BY <1>12 DEF at

\* What stands at some positions of a sequence, once for each of them.
Takes(r, seq, P) ==
  \E at : /\ Counts(at, P) /\ DOMAIN r = DOMAIN at
          /\ \A k \in DOMAIN r : r[k] = seq[at[k]]

\* Those takes what stands at its positions.
LEMMA ThoseAreTaken ==
  ASSUME NEW n \in Nat, NEW P \in SUBSET (1..n), NEW seq
  PROVE  Takes(Those(seq, P), seq, P)
<1> DEFINE at == InOrder(P)
<1>1. Counts(at, P)
  BY InOrderCounts
<1>2. Those(seq, P) = [k \in DOMAIN at |-> seq[at[k]]]
  BY DEF Those
<1> HIDE DEF at
<1>3. DOMAIN Those(seq, P) = DOMAIN at /\ \A k \in DOMAIN at : Those(seq, P)[k] = seq[at[k]]
  BY <1>2
<1> QED
  BY <1>1, <1>3 DEF Takes

\* Nothing stands at no position.
LEMMA ThoseOfNone ==
  ASSUME NEW seq
  PROVE  Those(seq, {}) = <<>>
<1>1. Cardinality({}) = 0
  BY FS_EmptySet
<1>2. DOMAIN InOrder({}) = 1..0 /\ 1..0 = {}
  BY <1>1 DEF InOrder
<1>3. Those(seq, {}) = [k \in {} |-> seq[InOrder({})[k]]]
  BY <1>2 DEF Those
<1> QED
  BY <1>3

\* x is once in what is taken of an array that has it at c, if c is taken, and else not.
TakenFrom(r, x, seq, P, c) ==
  /\ Cardinality({i \in DOMAIN r : r[i].slug = x}) = IF c \in P THEN 1 ELSE 0
  /\ \A i \in DOMAIN r : r[i].slug = x => r[i] = seq[c] /\ c \in P

\* x stands at c and at no other place.
OnlyAt(seq, N, x, c) == c \in N /\ \A j \in N : seq[j].slug = x <=> j = c

\* Of an array that has x at one place, what is taken has it once if that place is taken,
\* and else not at all.
LEMMA TakenOnce ==
  ASSUME NEW N, NEW P \in SUBSET N, NEW seq, NEW r, Takes(r, seq, P), NEW x, NEW c,
         OnlyAt(seq, N, x, c)
  PROVE  TakenFrom(r, x, seq, P, c)
<1> DEFINE own == {i \in DOMAIN r : r[i].slug = x}
<1>1. PICK at : Counts(at, P) /\ DOMAIN r = DOMAIN at /\ \A k \in DOMAIN r : r[k] = seq[at[k]]
  BY DEF Takes
<1>2. /\ \A k \in DOMAIN r : at[k] \in P
      /\ \A j, k \in DOMAIN r : at[j] = at[k] => j = k
      /\ \A y \in P : \E k \in DOMAIN r : at[k] = y
  BY <1>1 DEF Counts
<1>3. \A i \in DOMAIN r : i \in own <=> at[i] = c
  BY <1>1, <1>2 DEF OnlyAt
<1>4. \A i \in DOMAIN r : i \in own => r[i] = seq[c] /\ c \in P
  BY <1>1, <1>2, <1>3
<1>5. CASE c \in P
  <2>1. PICK k \in DOMAIN r : at[k] = c
    BY <1>2, <1>5
  <2>2. own = {k}
    BY <1>2, <1>3, <2>1
  <2> HIDE DEF own
  <2>3. Cardinality(own) = 1
    BY <2>2, FS_Singleton
  <2> QED
    BY <1>4, <1>5, <2>3 DEF own, TakenFrom
<1>6. CASE c \notin P
  <2>1. own = {}
    BY <1>4, <1>6
  <2> HIDE DEF own
  <2>2. Cardinality(own) = 0
    BY <2>1, FS_EmptySet
  <2> QED
    BY <1>4, <1>6, <2>2 DEF own, TakenFrom
<1> QED
  BY <1>5, <1>6

-----------------------------------------------------------------------------
(* Skills: what a SKILL.md says.                                           *)

\* Where the front matter is between the first line and line h, the second rule.
Fronted(lines, h, n) ==
  /\ h \in Nat /\ h >= 2 /\ n \in Nat /\ n >= h /\ DOMAIN lines = 1..n
  /\ lines[1] = Rule /\ lines[h] = Rule
  /\ \A i \in 2..(h - 1) : lines[i] # Rule

\* Then its lines are the front matter, and what is behind it is the text.
LEMMA FrontMatterIs ==
  ASSUME NEW lines, NEW h, NEW n, Fronted(lines, h, n)
  PROVE  /\ \A i \in 1..n : InFrontMatter(lines, i) <=> i \in 2..(h - 1)
         /\ ~(Cardinality(Rules(lines)) < 2)
         /\ Min(Rules(lines) \ {Min(Rules(lines))}) = h
<1> DEFINE rules     == Rules(lines)
           before(i) == {r \in rules : r < i}
<1>1. /\ h \in Nat /\ h >= 2 /\ n \in Nat /\ n >= h /\ h \in 1..n /\ 1 \in 1..n
      /\ rules = {i \in 1..n : lines[i] = Rule}
      /\ lines[1] = Rule /\ lines[h] = Rule /\ \A i \in 2..(h - 1) : lines[i] # Rule
  BY DEF Fronted, Rules
<1>2. rules \in SUBSET (1..n) /\ 1 \in rules /\ h \in rules /\ 1 # h
  BY <1>1
<1>3. \A r \in rules : r = 1 \/ r >= h
  BY <1>1
<1>4. IsFiniteSet(rules)
  <2>1. IsFiniteSet(1..n)
    BY <1>1, FS_Interval
  <2> QED
    BY <1>2, <2>1, FS_Subset
<1> HIDE DEF rules
<1>5. \A s : s \in SUBSET rules /\ 1 \in s /\ h \in s => ~(Cardinality(s) < 2) /\ Cardinality(s) # 1
  <2> TAKE s
  <2> HAVE s \in SUBSET rules /\ 1 \in s /\ h \in s
  <2>1. IsFiniteSet(s) /\ {1, h} \in SUBSET s
    BY <1>4, FS_Subset
  <2>2. Cardinality({1, h}) = 2
    <3>1. IsFiniteSet({1}) /\ Cardinality({1}) = 1
      BY FS_Singleton
    <3>2. {1, h} = {1} \cup {h} /\ h \notin {1}
      BY <1>2
    <3>3. Cardinality({1} \cup {h}) = 2
      BY <3>1, <3>2, FS_AddElement
    <3> QED
      BY <3>2, <3>3
  <2>3. Cardinality({1, h}) <= Cardinality(s) /\ Cardinality(s) \in Nat
    BY <2>1, FS_Subset, FS_CardinalityType
  <2> QED
    BY <2>2, <2>3
<1>6. ASSUME NEW i \in 1..n
      PROVE  InFrontMatter(lines, i) <=> i \in 2..(h - 1)
  <2>1. CASE i = 1
    <3>0. \A r \in rules : r \in 1..n /\ ~(r < 1)
      BY <1>2
    <3>1. before(i) = {}
      BY <2>1, <3>0
    <3>2. Cardinality(before(i)) = 0
      BY <3>1, FS_EmptySet
    <3> QED
      BY <1>1, <2>1 DEF InFrontMatter
  <2>2. CASE i \in 2..(h - 1)
    <3>1. before(i) = {1}
      BY <1>1, <1>2, <1>3, <2>2
    <3>2. Cardinality(before(i)) = 1
      BY <3>1, FS_Singleton
    <3> QED
      BY <1>1, <2>2, <3>2 DEF InFrontMatter, rules
  <2>3. CASE i = h
    BY <1>1, <2>3 DEF InFrontMatter
  <2>4. CASE i > h
    <3>1. before(i) \in SUBSET rules /\ 1 \in before(i) /\ h \in before(i)
      BY <1>1, <1>2, <2>4
    <3>2. Cardinality(before(i)) # 1
      BY <1>5, <3>1
    <3>3. ~(i \in 2..(h - 1))
      BY <1>1, <2>4
    <3> QED
      BY <3>2, <3>3 DEF InFrontMatter, rules
  <2> QED
    BY <1>1, <2>1, <2>2, <2>3, <2>4
<1>7. ~(Cardinality(rules) < 2)
  BY <1>2, <1>5
<1>8. Min(rules) = 1
  <2>1. \A r \in rules : 1 <= r
    BY <1>2
  <2>2. \A x \in rules : (\A y \in rules : x <= y) => x = 1
    <3> TAKE x \in rules
    <3> HAVE \A y \in rules : x <= y
    <3>1. x <= 1 /\ x \in 1..n
      BY <1>2
    <3> QED
      BY <3>1
  <2> QED
    BY <1>2, <2>1, <2>2 DEF Min
<1>9. Min(rules \ {1}) = h
  <2>1. h \in rules \ {1} /\ \A r \in rules \ {1} : h <= r
    BY <1>1, <1>2, <1>3
  <2>2. \A x \in rules \ {1} : (\A y \in rules \ {1} : x <= y) => x = h
    <3> TAKE x \in rules \ {1}
    <3> HAVE \A y \in rules \ {1} : x <= y
    <3>1. x <= h /\ h <= x /\ x \in 1..n
      BY <1>2, <2>1
    <3> QED
      BY <1>1, <3>1
  <2> QED
    BY <2>1, <2>2 DEF Min
<1> QED
  BY <1>6, <1>7, <1>8, <1>9 DEF rules

\* sk is what its author wants: what it needs as far as it is read, and no other text.
Reads(sk, w) ==
  /\ sk.slug = w.slug /\ sk.content = w.body /\ sk.always = w.always
  /\ sk.needs = split_words(w.bins) \o split_words(w.envs)
  /\ sk.available <=> ToSet(split_words(w.bins) \o split_words(w.envs)) \subseteq Present

\* What the fields of a file are, and its text, makes the skill.
LEMMA ReadsByFields ==
  ASSUME NEW w, NEW lines,
         Value(lines, "requires_bins", <<>>) = w.bins,
         Value(lines, "requires_env", <<>>) = w.envs,
         w.always \in BOOLEAN,
         Value(lines, "always", "false") = IF w.always THEN "true" ELSE "false",
         Body(lines) = w.body
  PROVE  Reads(parse_skill_file(w.slug, lines), w)
<1> DEFINE sk == parse_skill_file(w.slug, lines)
<1>1. /\ sk.slug = w.slug /\ sk.content = Body(lines)
      /\ sk.always = (Value(lines, "always", "false") \in {"true", "yes", "1"})
      /\ sk.needs = split_words(Value(lines, "requires_bins", <<>>))
                      \o split_words(Value(lines, "requires_env", <<>>))
      /\ sk.available = Available(split_words(Value(lines, "requires_bins", <<>>)),
                                  split_words(Value(lines, "requires_env", <<>>)))
  BY DEF parse_skill_file
<1> HIDE DEF sk
<1>2. sk.always = w.always
  BY <1>1
<1> QED
  BY <1>1, <1>2 DEF Reads, Available, sk

\* A key that one line of the front matter has gets that line's value.
LEMMA OneValue ==
  ASSUME NEW lines, NEW h, NEW n, Fronted(lines, h, n), NEW key, NEW default,
         NEW i \in 2..(h - 1), lines[i].key = key,
         \A j \in 2..(h - 1) : lines[j].key = key => j = i
  PROVE  Value(lines, key, default) = lines[i].val
<1> DEFINE at == {j \in DOMAIN lines : InFrontMatter(lines, j) /\ lines[j].key = key}
<1>1. DOMAIN lines = 1..n /\ h \in Nat /\ n \in Nat /\ n >= h
  BY DEF Fronted
<1>2. \A j \in 1..n : InFrontMatter(lines, j) <=> j \in 2..(h - 1)
  BY FrontMatterIs
<1>3. \A j : j \in at <=> j = i
  BY <1>1, <1>2
<1>4. at = {i}
  BY <1>3
<1> HIDE DEF at
<1>5. Max(at) = i
  BY <1>1, <1>4 DEF Max
<1> QED
  BY <1>4, <1>5 DEF Value, at

\* And one that no line has gets what is taken for it then.
LEMMA NoValue ==
  ASSUME NEW lines, NEW key, NEW default,
         \A j \in DOMAIN lines : InFrontMatter(lines, j) => lines[j].key # key
  PROVE  Value(lines, key, default) = default
<1>1. {j \in DOMAIN lines : InFrontMatter(lines, j) /\ lines[j].key = key} = {}
  OBVIOUS
<1> QED
  BY <1>1 DEF Value

\* A file of a head, which is front matter, and a text.
Headed(lines, head, body) ==
  /\ Fronted(lines, Len(head), Len(head) + Len(body))
  /\ \A i \in 1..Len(head) : lines[i] = head[i]
  /\ Body(lines) = body

LEMMA HeadAndBody ==
  ASSUME NEW T, NEW head \in Seq(T), NEW body \in Seq(T), Len(head) >= 2,
         head[1] = Rule, head[Len(head)] = Rule,
         \A i \in 2..(Len(head) - 1) : head[i] # Rule
  PROVE  Headed(head \o body, head, body)
<1> DEFINE lines == head \o body
           h     == Len(head)
           b     == Len(body)
<1>1. /\ h \in Nat /\ b \in Nat /\ DOMAIN lines = 1..(h + b) /\ Len(lines) = h + b
      /\ \A i \in 1..h : lines[i] = head[i]
      /\ \A i \in 1..b : lines[h + i] = body[i]
      /\ body = [i \in 1..b |-> body[i]]
  OBVIOUS
<1>2. h >= 2 /\ head[1] = Rule /\ head[h] = Rule /\ \A i \in 2..(h - 1) : head[i] # Rule
  OBVIOUS
<1> HIDE DEF lines, h, b
<1>3. Fronted(lines, h, h + b)
  <2>1. /\ h + b \in Nat /\ h + b >= h /\ 1 \in 1..h /\ h \in 1..h
        /\ \A i \in 2..(h - 1) : i \in 1..h
    BY <1>1, <1>2
  <2> QED
    BY <1>1, <1>2, <2>1 DEF Fronted
<1>4. Body(lines) = SubSeq(lines, h + 1, Len(lines))
  BY <1>3, FrontMatterIs DEF Body
<1>5. SubSeq(lines, h + 1, h + b) = body
  <2>1. SubSeq(lines, h + 1, h + b) = [i \in 1..((h + b) - (h + 1) + 1) |-> lines[i + (h + 1) - 1]]
    BY <1>1, SMTT(60)
  <2>2. (h + b) - (h + 1) + 1 = b
    BY <1>1
  <2>3. ASSUME NEW i \in 1..b PROVE lines[i + (h + 1) - 1] = body[i]
    <3>1. i + (h + 1) - 1 = h + i
      BY <1>1
    <3> QED
      BY <1>1, <3>1
  <2>4. [i \in 1..b |-> lines[i + (h + 1) - 1]] = [i \in 1..b |-> body[i]]
    BY <2>3
  <2> QED
    BY <1>1, <2>1, <2>2, <2>4
<1>6. /\ Fronted(lines, Len(head), Len(head) + Len(body))
      /\ \A i \in 1..Len(head) : lines[i] = head[i]
      /\ Body(lines) = body
  BY <1>1, <1>3, <1>4, <1>5 DEF h, b
<1> QED
  BY <1>6 DEF Headed, lines

\* A key that one line of a head of m lines has, or none.
HasOnly(lines, m, key, i) ==
  /\ i \in 2..(m - 1) /\ lines[i].key = key
  /\ \A j \in 2..(m - 1) : lines[j].key = key => j = i

LEMMA OnlyValue ==
  ASSUME NEW lines, NEW h, NEW n, Fronted(lines, h, n), NEW key, NEW default, NEW i,
         HasOnly(lines, h, key, i)
  PROVE  Value(lines, key, default) = lines[i].val
<1>1. i \in 2..(h - 1) /\ lines[i].key = key /\ \A j \in 2..(h - 1) : lines[j].key = key => j = i
  BY DEF HasOnly
<1> QED
  BY <1>1, OneValue

\* A SKILL.md in the form of skills.h says what its author wants, whatever lines its text
\* is made of.
THEOREM FrontIsRead ==
  ASSUME NEW w, NEW T, w.body \in Seq(T), w.front = TRUE, w.always \in BOOLEAN
  PROVE  Reads(parse_skill_file(w.slug, SkillFile(w)), w)
<1> DEFINE b     == Field("requires_bins", w.bins)
           e     == Field("requires_env", w.envs)
           a     == Field("always", "true")
           U     == {Rule, a, b, e} \cup T
           body  == w.body
           head  == FrontMatter(w)
           lines == SkillFile(w)
           n     == Len(head) + Len(body)
<1>1. /\ Rule # a /\ Rule # b /\ Rule # e
      /\ a.key = "always" /\ b.key = "requires_bins" /\ e.key = "requires_env"
      /\ a.val = "true" /\ b.val = w.bins /\ e.val = w.envs
  <2>1. Rule.key = "---" /\ a.key = "always" /\ b.key = "requires_bins" /\ e.key = "requires_env"
    BY DEF Rule, Field
  <2>2. a.val = "true" /\ b.val = w.bins /\ e.val = w.envs
    BY DEF Field
  <2> QED
    BY <2>1, <2>2
<1>2. Rule \in U /\ a \in U /\ b \in U /\ e \in U
  OBVIOUS
<1>3. body \in Seq(U)
  OBVIOUS
<1>4. lines = head \o body
  BY DEF SkillFile
<1>5. head = IF w.always THEN <<Rule, a, b, e, Rule>> ELSE <<Rule, b, e, Rule>>
  BY DEF FrontMatter
<1> HIDE DEF a, b, e, U, body, head, lines, n
<1>6. CASE w.always
  <2>1. head = <<Rule, a, b, e, Rule>>
    BY <1>5, <1>6
  <2>2. /\ head \in Seq(U) /\ Len(head) = 5 /\ head[1] = Rule /\ head[2] = a /\ head[3] = b
        /\ head[4] = e /\ head[5] = Rule
    BY <1>2, <2>1
  <2>3. \A i \in 2..4 : i = 2 \/ i = 3 \/ i = 4
    OBVIOUS
  <2>4. \A i \in 2..4 : head[i] # Rule
    BY <1>1, <2>2, <2>3
  <2>5. Len(head) - 1 = 4 /\ Len(head) >= 2 /\ head[Len(head)] = Rule /\ 5 - 1 = 4
    BY <2>2
  <2>6. Headed(lines, head, body)
    BY <1>3, <1>4, <2>2, <2>4, <2>5, HeadAndBody
  <2>7. Fronted(lines, Len(head), n) /\ Body(lines) = body /\ \A i \in 1..Len(head) : lines[i] = head[i]
    BY <2>6 DEF Headed, n
  <2>8. Fronted(lines, 5, n) /\ lines[2] = a /\ lines[3] = b /\ lines[4] = e
    BY <2>2, <2>7
  <2>9. /\ HasOnly(lines, 5, "always", 2) /\ HasOnly(lines, 5, "requires_bins", 3)
        /\ HasOnly(lines, 5, "requires_env", 4)
    BY <1>1, <2>3, <2>5, <2>8 DEF HasOnly
  <2>10. Value(lines, "always", "false") = "true"
    BY <1>1, <2>8, <2>9, OnlyValue
  <2>11. Value(lines, "requires_bins", <<>>) = w.bins
    BY <1>1, <2>8, <2>9, OnlyValue
  <2>12. Value(lines, "requires_env", <<>>) = w.envs
    BY <1>1, <2>8, <2>9, OnlyValue
  <2> QED
    BY <1>6, <2>7, <2>10, <2>11, <2>12, ReadsByFields DEF lines, body
<1>7. CASE ~w.always
  <2>1. head = <<Rule, b, e, Rule>>
    BY <1>5, <1>7
  <2>2. /\ head \in Seq(U) /\ Len(head) = 4 /\ head[1] = Rule /\ head[2] = b
        /\ head[3] = e /\ head[4] = Rule
    BY <1>2, <2>1
  <2>3. \A i \in 2..3 : i = 2 \/ i = 3
    OBVIOUS
  <2>4. \A i \in 2..3 : head[i] # Rule
    BY <1>1, <2>2, <2>3
  <2>5. Len(head) - 1 = 3 /\ Len(head) >= 2 /\ head[Len(head)] = Rule /\ 4 - 1 = 3
    BY <2>2
  <2>6. Headed(lines, head, body)
    BY <1>3, <1>4, <2>2, <2>4, <2>5, HeadAndBody
  <2>7. Fronted(lines, Len(head), n) /\ Body(lines) = body /\ \A i \in 1..Len(head) : lines[i] = head[i]
    BY <2>6 DEF Headed, n
  <2>8. Fronted(lines, 4, n) /\ lines[2] = b /\ lines[3] = e
    BY <2>2, <2>7
  <2>9. HasOnly(lines, 4, "requires_bins", 2) /\ HasOnly(lines, 4, "requires_env", 3)
    BY <1>1, <2>3, <2>5, <2>8 DEF HasOnly
  <2>10. Value(lines, "always", "false") = "false"
    <3>1. \A j \in 1..n : InFrontMatter(lines, j) <=> j \in 2..3
      BY <2>5, <2>8, FrontMatterIs
    <3>2. DOMAIN lines = 1..n
      BY <2>8 DEF Fronted
    <3>3. \A j \in DOMAIN lines : InFrontMatter(lines, j) => lines[j].key # "always"
      BY <1>1, <2>3, <2>8, <3>1, <3>2
    <3> QED
      BY <3>3, NoValue
  <2>11. Value(lines, "requires_bins", <<>>) = w.bins
    BY <1>1, <2>8, <2>9, OnlyValue
  <2>12. Value(lines, "requires_env", <<>>) = w.envs
    BY <1>1, <2>8, <2>9, OnlyValue
  <2> QED
    BY <1>7, <2>7, <2>10, <2>11, <2>12, ReadsByFields DEF lines, body
<1> QED
  BY <1>6, <1>7

\* And a file without front matter is all text, if it has one rule at most and no field
\* of the loader's behind it.
LEMMA PlainIsRead ==
  ASSUME NEW w, w.front = FALSE, w.always = FALSE,
         w.bins = <<>>, w.envs = <<>>, Cardinality(Rules(w.body)) < 2,
         \A j \in DOMAIN w.body : InFrontMatter(w.body, j) =>
           w.body[j].key \notin {"always", "requires_bins", "requires_env"}
  PROVE  Reads(parse_skill_file(w.slug, SkillFile(w)), w)
<1> DEFINE lines == SkillFile(w)
<1>1. lines = w.body
  BY DEF SkillFile
<1> HIDE DEF lines
<1>2. Body(lines) = w.body
  BY <1>1 DEF Body
<1>3. /\ Value(lines, "requires_bins", <<>>) = w.bins
      /\ Value(lines, "requires_env", <<>>) = w.envs
      /\ Value(lines, "always", "false") = "false"
  <2>1. \A j \in DOMAIN lines : InFrontMatter(lines, j) =>
          lines[j].key # "always" /\ lines[j].key # "requires_bins" /\ lines[j].key # "requires_env"
    BY <1>1
  <2> QED
    BY <2>1, NoValue
<1> QED
  BY <1>2, <1>3, ReadsByFields DEF lines

\* What an author wants of a skill: its words are words, the text is lines, and what should
\* be active says in a few words what it needs.
Meant(w, s, words, lines) ==
  /\ w.slug = s /\ w.front \in BOOLEAN /\ w.always \in BOOLEAN
  /\ w.bins \in Seq(words) /\ w.envs \in Seq(words) /\ w.needs = w.bins \o w.envs
  /\ w.body \in Seq(lines)
  /\ w.always => Len(w.bins) <= 1 /\ Len(w.envs) <= 1

SkillWords == {"have", "miss", "var"}
SkillLines == {Text("a"), Text("b"), Rule, Field("always", "true"), Field("name", "b")}

\* Each entry of Authored is one.
LEMMA AllMeant ==
  ASSUME NEW s \in DOMAIN Authored
  PROVE  Meant(Authored[s], s, SkillWords, SkillLines)
<1>1. DOMAIN Authored = {"quoted", "listed", "lacks", "silent", "long", "plain"}
  BY DEF Authored
<1>2. /\ Text("a") \in SkillLines /\ Text("b") \in SkillLines /\ Rule \in SkillLines
      /\ Field("always", "true") \in SkillLines /\ Field("name", "b") \in SkillLines
      /\ "have" \in SkillWords /\ "miss" \in SkillWords /\ "var" \in SkillWords
  BY DEF SkillWords, SkillLines
<1> HIDE DEF SkillWords, SkillLines
<1>3. ASSUME NEW slug, NEW front \in BOOLEAN, NEW always \in BOOLEAN, NEW bins \in Seq(SkillWords),
             NEW envs \in Seq(SkillWords), NEW body \in Seq(SkillLines),
             always => Len(bins) <= 1 /\ Len(envs) <= 1
      PROVE  Meant(Wanted(slug, front, always, bins, envs, body), slug, SkillWords, SkillLines)
  BY <1>3 DEF Meant, Wanted
<1>4. <<>> \in Seq(SkillWords) /\ Len(<<>>) = 0 /\ <<>> \in Seq(SkillLines)
  OBVIOUS
<1>5. /\ <<"have">> \in Seq(SkillWords) /\ <<"miss">> \in Seq(SkillWords) /\ <<"var">> \in Seq(SkillWords)
      /\ <<"have", "miss">> \in Seq(SkillWords) /\ <<"have", "have", "miss">> \in Seq(SkillWords)
      /\ Len(<<"have">>) = 1 /\ Len(<<"miss">>) = 1 /\ Len(<<"var">>) = 1
  BY <1>2
<1>6. /\ <<Text("a"), Rule, Text("b"), Rule>> \in Seq(SkillLines) /\ <<Text("a")>> \in Seq(SkillLines)
      /\ <<Field("always", "true")>> \in Seq(SkillLines)
      /\ <<Text("a"), Rule, Field("name", "b")>> \in Seq(SkillLines)
  BY <1>2
<1>7. 0 <= 1 /\ 1 <= 1
  OBVIOUS
<1>10. CASE s = "quoted"
  <2>1. Authored[s] = Wanted("quoted", TRUE, TRUE, <<"have">>, <<>>, <<Text("a"), Rule, Text("b"), Rule>>)
    BY <1>10 DEF Authored
  <2> QED
    BY <1>3, <1>4, <1>5, <1>6, <1>7, <1>10, <2>1
<1>11. CASE s = "listed"
  <2>1. Authored[s] = Wanted("listed", TRUE, FALSE, <<"have">>, <<"var">>, <<Text("a")>>)
    BY <1>11 DEF Authored
  <2> QED
    BY <1>3, <1>4, <1>5, <1>6, <1>7, <1>11, <2>1
<1>12. CASE s = "lacks"
  <2>1. Authored[s] = Wanted("lacks", TRUE, FALSE, <<"have", "miss">>, <<>>, <<Field("always", "true")>>)
    BY <1>12 DEF Authored
  <2> QED
    BY <1>3, <1>4, <1>5, <1>6, <1>7, <1>12, <2>1
<1>13. CASE s = "silent"
  <2>1. Authored[s] = Wanted("silent", TRUE, TRUE, <<"miss">>, <<>>, <<Text("a")>>)
    BY <1>13 DEF Authored
  <2> QED
    BY <1>3, <1>4, <1>5, <1>6, <1>7, <1>13, <2>1
<1>14. CASE s = "long"
  <2>1. Authored[s] = Wanted("long", TRUE, FALSE, <<"have", "have", "miss">>, <<"var">>, <<>>)
    BY <1>14 DEF Authored
  <2> QED
    BY <1>3, <1>4, <1>5, <1>6, <1>7, <1>14, <2>1
<1>15. CASE s = "plain"
  <2>1. Authored[s] = Wanted("plain", FALSE, FALSE, <<>>, <<>>, <<Text("a"), Rule, Field("name", "b")>>)
    BY <1>15 DEF Authored
  <2> QED
    BY <1>3, <1>4, <1>5, <1>6, <1>7, <1>15, <2>1
<1> QED
  BY <1>1, <1>10, <1>11, <1>12, <1>13, <1>14, <1>15

\* Those without front matter are that of the directories.
LEMMA PlainMeant ==
  ASSUME NEW s \in DOMAIN Authored, Authored[s].front = FALSE
  PROVE  /\ Authored[s].always = FALSE /\ Authored[s].bins = <<>> /\ Authored[s].envs = <<>>
         /\ Authored[s].body = <<Text("a"), Rule, Field("name", "b")>>
<1>1. DOMAIN Authored = {"quoted", "listed", "lacks", "silent", "long", "plain"}
  BY DEF Authored
<1>2. /\ Authored["quoted"].front = TRUE /\ Authored["listed"].front = TRUE
      /\ Authored["lacks"].front = TRUE /\ Authored["silent"].front = TRUE
      /\ Authored["long"].front = TRUE
  BY DEF Authored, Wanted
<1>3. s = "plain"
  BY <1>1, <1>2
<1> QED
  BY <1>3 DEF Authored, Wanted

\* What the loader should make of it.
AsAuthored(sk, w) ==
  /\ sk.slug = w.slug /\ sk.content = w.body /\ sk.always = w.always
  /\ Len(w.bins) <= MaxRequires /\ Len(w.envs) <= MaxRequires => sk.needs = w.needs
  /\ w.always \/ (Len(w.bins) <= MaxRequires /\ Len(w.envs) <= MaxRequires) =>
       (sk.available <=> ToSet(w.needs) \subseteq Present)

\* A short list of words is read as it is.
LEMMA ShortIsRead ==
  ASSUME NEW T, NEW list \in Seq(T), MaxRequires \in Nat, Len(list) <= MaxRequires
  PROVE  split_words(list) = list
<1> DEFINE n == Len(list)
<1>1. n \in Nat /\ list = [i \in 1..n |-> list[i]]
  OBVIOUS
<1>2. Min({n, MaxRequires}) = n
  BY <1>1 DEF Min
<1>3. split_words(list) = SubSeq(list, 1, n)
  BY <1>2 DEF split_words
<1>4. SubSeq(list, 1, n) = [i \in 1..(n - 1 + 1) |-> list[i + 1 - 1]]
  BY <1>1
<1> HIDE DEF n
<1>5. n - 1 + 1 = n /\ \A i \in 1..n : i + 1 - 1 = i
  BY <1>1
<1>6. [i \in 1..n |-> list[i + 1 - 1]] = [i \in 1..n |-> list[i]]
  BY <1>5
<1> QED
  BY <1>1, <1>3, <1>4, <1>5, <1>6

\* A skill that says what its author wants is what the loader should make of it.
LEMMA ReadIsAuthored ==
  ASSUME NEW sk, NEW w, NEW s, NEW words, NEW lines, Meant(w, s, words, lines), Reads(sk, w),
         MaxRequires \in Nat \ {0}
  PROVE  AsAuthored(sk, w)
<1> DEFINE bins == w.bins
           envs == w.envs
<1>1. /\ bins \in Seq(words) /\ envs \in Seq(words) /\ w.needs = bins \o envs
      /\ w.always => Len(bins) <= 1 /\ Len(envs) <= 1
  BY DEF Meant
<1>2. /\ sk.slug = w.slug /\ sk.content = w.body /\ sk.always = w.always
      /\ sk.needs = split_words(bins) \o split_words(envs)
      /\ sk.available <=> ToSet(split_words(bins) \o split_words(envs)) \subseteq Present
  BY DEF Reads
<1> HIDE DEF bins, envs
<1>3. w.always => Len(bins) <= MaxRequires /\ Len(envs) <= MaxRequires
  <2>1. Len(bins) \in Nat /\ Len(envs) \in Nat
    BY <1>1
  <2> QED
    BY <1>1, <2>1
<1>4. ASSUME Len(bins) <= MaxRequires, Len(envs) <= MaxRequires
      PROVE  sk.needs = w.needs /\ (sk.available <=> ToSet(w.needs) \subseteq Present)
  <2>1. split_words(bins) = bins /\ split_words(envs) = envs
    BY <1>1, <1>4, ShortIsRead
  <2> QED
    BY <1>1, <1>2, <2>1
<1> QED
  BY <1>2, <1>3, <1>4 DEF AsAuthored, bins, envs

\* The loader makes of each skill of the directories what it should.
LEMMA EachAsAuthored ==
  ASSUME NEW s \in DOMAIN Authored, MaxRequires \in Nat \ {0}
  PROVE  AsAuthored(parse_skill_file(s, SkillFile(Authored[s])), Authored[s])
<1> DEFINE w == Authored[s]
<1>1. Meant(w, s, SkillWords, SkillLines)
  BY AllMeant
<1>2. w.front \in BOOLEAN
  BY <1>1 DEF Meant
<1> HIDE DEF w
<1>3. w.slug = s /\ w.always \in BOOLEAN /\ w.body \in Seq(SkillLines)
  BY <1>1 DEF Meant
<1>4. Reads(parse_skill_file(w.slug, SkillFile(w)), w)
  <2>1. CASE w.front = TRUE
    BY <1>3, <2>1, FrontIsRead
  <2>2. CASE w.front = FALSE
    <3>1. /\ w.always = FALSE /\ w.bins = <<>> /\ w.envs = <<>>
          /\ w.body = <<Text("a"), Rule, Field("name", "b")>>
      BY <2>2, PlainMeant DEF w
    <3>2. /\ Text("a").key = "text" /\ Rule.key = "---" /\ Field("name", "b").key = "name"
          /\ Text("a") # Rule /\ Field("name", "b") # Rule
      BY DEF Text, Rule, Field
    <3>3. /\ DOMAIN w.body = 1..3 /\ w.body[1] = Text("a") /\ w.body[2] = Rule
          /\ w.body[3] = Field("name", "b")
      BY <3>1
    <3>4. \A j \in 1..3 : j = 1 \/ j = 2 \/ j = 3
      OBVIOUS
    <3>5. Rules(w.body) = {2}
      <4>1. \A j : j \in Rules(w.body) <=> j = 2
        BY <3>2, <3>3, <3>4 DEF Rules
      <4> QED
        BY <4>1
    <3>6. Cardinality(Rules(w.body)) < 2
      <4>1. Cardinality({2}) = 1
        BY FS_Singleton
      <4> QED
        BY <3>5, <4>1
    <3>7. \A j \in DOMAIN w.body : w.body[j].key \in {"text", "---", "name"}
      BY <3>2, <3>3, <3>4
    <3>8. \A j \in DOMAIN w.body : w.body[j].key \notin {"always", "requires_bins", "requires_env"}
      BY <3>7
    <3> QED
      BY <2>2, <3>1, <3>6, <3>8, PlainIsRead
  <2> QED
    BY <1>2, <2>1, <2>2 DEF w
<1>5. AsAuthored(parse_skill_file(w.slug, SkillFile(w)), w)
  BY <1>1, <1>4, ReadIsAuthored
<1> QED
  BY <1>3, <1>5 DEF w

-----------------------------------------------------------------------------
(* Skills: what a scan finds, and what the prompt says of it.              *)

\* What the loader makes of the skill s.
Loaded(s) == parse_skill_file(s, SkillFile(Authored[s]))

\* A directory with a set of skills, and other entries.
DirectoryOf(d, set) == d = {Skill(s) : s \in set} \cup Other

\* What a scan has to find there: each of them once.
Finds(sks, set) ==
  \E at : /\ Counts(at, set) /\ DOMAIN at = 1..Cardinality(set) /\ DOMAIN sks = DOMAIN at
          /\ Len(sks) = Cardinality(set)
          /\ \A i \in DOMAIN at : sks[i] = Loaded(at[i])

\* Any set of what is authored is finite.
LEMMA FewAuthored ==
  ASSUME NEW set \in SUBSET DOMAIN Authored
  PROVE  IsFiniteSet(set) /\ Cardinality(set) \in Nat
<1>1. DOMAIN Authored = ({"quoted"} \cup {"listed"}) \cup ({"lacks"} \cup {"silent"})
                          \cup ({"long"} \cup {"plain"})
  BY DEF Authored
<1>2. /\ IsFiniteSet({"quoted"}) /\ IsFiniteSet({"listed"}) /\ IsFiniteSet({"lacks"})
      /\ IsFiniteSet({"silent"}) /\ IsFiniteSet({"long"}) /\ IsFiniteSet({"plain"})
  BY FS_Singleton
<1>3. /\ IsFiniteSet({"quoted"} \cup {"listed"}) /\ IsFiniteSet({"lacks"} \cup {"silent"})
      /\ IsFiniteSet({"long"} \cup {"plain"})
  BY <1>2, FS_Union
<1>4. \A x, y, z : IsFiniteSet(x) /\ IsFiniteSet(y) /\ IsFiniteSet(z) => IsFiniteSet(x \cup y \cup z)
  BY FS_Union
<1>5. IsFiniteSet(DOMAIN Authored)
  BY <1>1, <1>3, <1>4
<1> QED
  BY <1>5, FS_Subset, FS_CardinalityType

\* What can be loaded from such a directory is its skills.
LEMMA LoadableOf ==
  ASSUME NEW d, NEW set \in SUBSET DOMAIN Authored, DirectoryOf(d, set)
  PROVE  /\ Loadable(d) = {Skill(s) : s \in set}
         /\ {e.slug : e \in Loadable(d)} = set
         /\ Cardinality(Loadable(d)) = Cardinality(set)
<1>1. \A s : Skill(s).kind = "skill" /\ Skill(s).slug = s
  BY DEF Skill, Entry
<1>2. \A e \in Other : e.kind # "skill"
  BY DEF Other, Entry
<1>3. Loadable(d) = {Skill(s) : s \in set}
  BY <1>1, <1>2 DEF Loadable, DirectoryOf
<1> DEFINE es == Loadable(d)
           f  == [s \in set |-> Skill(s)]
<1>4. {e.slug : e \in es} = set
  BY <1>1, <1>3
<1>5. f \in [set -> es]
  BY <1>3
<1>6. \A s, t \in set : f[s] = f[t] => s = t
  BY <1>1
<1>7. \A e \in es : \E s \in set : f[s] = e
  BY <1>3
<1> HIDE DEF es, f
<1>8. f \in Bijection(set, es)
  BY <1>5, <1>6, <1>7 DEF Bijection, Injection, Surjection, IsInjective
<1>9. ExistsBijection(set, es)
  BY <1>8 DEF ExistsBijection
<1>10. IsFiniteSet(set)
  BY FewAuthored
<1>11. Cardinality(es) = Cardinality(set)
  BY <1>9, <1>10, FS_Bijection
<1> QED
  BY <1>3, <1>4, <1>11 DEF es

\* A scan finds them, in whatever order readdir has them.
LEMMA ScanFinds ==
  ASSUME NEW d, NEW set \in SUBSET DOMAIN Authored, DirectoryOf(d, set),
         MaxSkills \in Nat, Cardinality(set) <= MaxSkills, NEW sks \in Scans(d)
  PROVE  Finds(sks, set)
<1> DEFINE m  == Cardinality(set)
           es == Loadable(d)
<1>1. /\ es = {Skill(s) : s \in set} /\ Cardinality(es) = m /\ m \in Nat /\ IsFiniteSet(set)
  BY LoadableOf, FewAuthored
<1>2. PICK order \in SetToSeqs(es) :
        sks = [i \in 1..Min({Len(order), MaxSkills}) |->
                 parse_skill_file(order[i].slug, order[i].lines)]
  BY DEF Scans
<1>3. order \in [1..m -> es] /\ \A i, j \in 1..m : i # j => order[i] # order[j]
  BY <1>1, <1>2 DEF SetToSeqs
<1>4. Len(order) = m
  BY <1>1, <1>3
<1>5. Min({m, MaxSkills}) = m
  BY <1>1 DEF Min
<1>6. \A s : Skill(s).slug = s /\ Skill(s).lines = SkillFile(Authored[s])
  BY DEF Skill, Entry
<1> DEFINE at == [i \in 1..m |-> order[i].slug]
<1> HIDE DEF m, es
<1>7. ASSUME NEW i \in 1..m
      PROVE  /\ at[i] \in set /\ order[i] = Skill(at[i])
             /\ parse_skill_file(order[i].slug, order[i].lines) = Loaded(at[i])
  <2>1. PICK s \in set : order[i] = Skill(s)
    BY <1>1, <1>3
  <2>2. at[i] = s /\ order[i].lines = SkillFile(Authored[s]) /\ order[i].slug = s
    BY <1>6, <2>1
  <2> QED
    BY <2>1, <2>2 DEF Loaded
<1>8. at \in [1..m -> set]
  BY <1>7
<1>9. \A i, j \in 1..m : at[i] = at[j] => i = j
  BY <1>3, <1>7
<1> HIDE DEF at
<1>10. \A s \in set : \E i \in 1..m : at[i] = s
  <2>1. at \in Injection(1..m, set)
    BY <1>8, <1>9 DEF Injection, IsInjective
  <2>2. Cardinality(1..m) = m
    BY <1>1, CountUpTo
  <2>3. at \in Surjection(1..m, set)
    BY <1>1, <2>1, <2>2, FS_Injection DEF m
  <2> QED
    BY <2>3 DEF Surjection
<1>11. Counts(at, set)
  BY <1>1, <1>8, <1>9, <1>10 DEF Counts
<1>12. DOMAIN sks = 1..m /\ \A i \in 1..m : sks[i] = Loaded(at[i])
  BY <1>2, <1>4, <1>5, <1>7
<1>13. DOMAIN at = 1..m
  BY <1>8
<1>14. Len(sks) = m
  BY <1>1, <1>2, <1>4, <1>5
<1> QED
  BY <1>11, <1>12, <1>13, <1>14 DEF Finds, m

\* What the prompt p has to say of the skill s.
Says(p, s) ==
  LET w      == Authored[s]
      has    == ToSet(w.needs) \subseteq Present
      quotes == {i \in DOMAIN p.active : p.active[i].slug = s}
      lists  == {i \in DOMAIN p.summary : p.summary[i].slug = s}
  IN  /\ Cardinality(quotes) = IF w.always /\ has THEN 1 ELSE 0
      /\ Cardinality(lists) = 1 \/ w.always
      /\ \A i \in quotes : p.active[i].content = w.body
      /\ \A i \in lists : Len(w.bins) <= MaxRequires /\ Len(w.envs) <= MaxRequires =>
           /\ p.summary[i].available <=> has
           /\ p.summary[i].requires = Those(w.needs, Lacking(w.needs))

\* Made of what a scan finds, it says that of each skill found.
LEMMA PromptSays ==
  ASSUME NEW sks, NEW set \in SUBSET DOMAIN Authored, Finds(sks, set),
         MaxRequires \in Nat \ {0}, NEW s \in set
  PROVE  Says(skills_get_prompt(sks), s)
<1> DEFINE m   == Cardinality(set)
           w   == Authored[s]
           has == ToSet(w.needs) \subseteq Present
<1>1. PICK at : /\ Counts(at, set) /\ DOMAIN at = 1..m /\ DOMAIN sks = 1..m
                /\ \A i \in 1..m : sks[i] = Loaded(at[i])
  BY DEF Finds
<1>2. m \in Nat
  BY FewAuthored
<1>3. /\ \A i \in 1..m : at[i] \in set
      /\ \A i, j \in 1..m : at[i] = at[j] => i = j
      /\ \E i \in 1..m : at[i] = s
  BY <1>1 DEF Counts
<1>4. PICK c \in 1..m : at[c] = s
  BY <1>3
<1>5. \A t \in set : AsAuthored(Loaded(t), Authored[t]) /\ Authored[t].slug = t
                     /\ Authored[t].always \in BOOLEAN
  BY AllMeant, EachAsAuthored DEF Loaded, Meant
<1>6. \A j \in 1..m : sks[j].slug = at[j]
  BY <1>1, <1>3, <1>5 DEF AsAuthored
<1>7. \A j \in 1..m : sks[j].slug = s <=> j = c
  BY <1>3, <1>4, <1>6
<1>8. AsAuthored(sks[c], w) /\ w.always \in BOOLEAN
  BY <1>1, <1>4, <1>5
<1> HIDE DEF m, w, has
<1>9. /\ sks[c].content = w.body /\ sks[c].always = w.always
      /\ Len(w.bins) <= MaxRequires /\ Len(w.envs) <= MaxRequires => sks[c].needs = w.needs
      /\ w.always => (sks[c].available <=> has)
      /\ Len(w.bins) <= MaxRequires /\ Len(w.envs) <= MaxRequires => (sks[c].available <=> has)
  BY <1>8 DEF AsAuthored, has
<1> DEFINE P1     == {i \in DOMAIN sks : sks[i].always /\ sks[i].available}
           P2     == {i \in DOMAIN sks : ~sks[i].always}
           quoted == Those(sks, P1)
           others == Those(sks, P2)
           p      == skills_get_prompt(sks)
           quotes == {i \in DOMAIN quoted : quoted[i].slug = s}
           lists  == {i \in DOMAIN others : others[i].slug = s}
<1>10. p.active = quoted /\ p.summary = [i \in DOMAIN others |-> Listing(others[i])]
  BY DEF skills_get_prompt
<1>11. P1 \in SUBSET (1..m) /\ P2 \in SUBSET (1..m)
  BY <1>1
<1>12. Takes(quoted, sks, P1) /\ Takes(others, sks, P2)
  BY <1>2, <1>11, ThoseAreTaken
<1>13. (c \in P1 <=> w.always /\ has) /\ (c \in P2 <=> ~w.always)
  BY <1>1, <1>9
<1> HIDE DEF P1, P2, quoted, others, p
<1> DEFINE N == 1..m
<1>14. OnlyAt(sks, N, s, c) /\ P1 \in SUBSET N /\ P2 \in SUBSET N
  BY <1>7, <1>11 DEF OnlyAt
<1> HIDE DEF N
<1>15. TakenFrom(quoted, s, sks, P1, c) /\ TakenFrom(others, s, sks, P2, c)
  BY <1>12, <1>14, TakenOnce
<1>16. /\ Cardinality(quotes) = IF c \in P1 THEN 1 ELSE 0
       /\ \A i \in DOMAIN quoted : quoted[i].slug = s => quoted[i] = sks[c]
  BY <1>15 DEF TakenFrom
<1>17. /\ Cardinality(lists) = IF c \in P2 THEN 1 ELSE 0
       /\ \A i \in DOMAIN others : others[i].slug = s => others[i] = sks[c]
  BY <1>15 DEF TakenFrom
<1>18. DOMAIN p.summary = DOMAIN others
       /\ \A i \in DOMAIN others : p.summary[i] = Listing(others[i])
  BY <1>10
<1>19. \A sk : /\ Listing(sk).slug = sk.slug /\ Listing(sk).available = sk.available
               /\ Listing(sk).requires = IF sk.available THEN <<>>
                                         ELSE Those(sk.needs, Lacking(sk.needs))
  BY DEF Listing
<1>20. {i \in DOMAIN p.summary : p.summary[i].slug = s} = lists
  BY <1>18, <1>19
<1>21. has => Those(w.needs, Lacking(w.needs)) = <<>>
  <2> HAVE has
  <2>1. \A i \in DOMAIN w.needs : w.needs[i] \in Present
    BY DEF has, ToSet
  <2>2. Lacking(w.needs) = {}
    BY <2>1 DEF Lacking
  <2> QED
    BY <2>2, ThoseOfNone
<1>22. ASSUME NEW i \in lists, Len(w.bins) <= MaxRequires, Len(w.envs) <= MaxRequires
       PROVE  /\ p.summary[i].available <=> has
              /\ p.summary[i].requires = Those(w.needs, Lacking(w.needs))
  <2>1. p.summary[i] = Listing(sks[c])
    BY <1>17, <1>18
  <2>2. p.summary[i].available = sks[c].available
    BY <1>19, <2>1
  <2>3. p.summary[i].requires = IF sks[c].available THEN <<>>
                                ELSE Those(w.needs, Lacking(w.needs))
    BY <1>9, <1>19, <1>22, <2>1
  <2>4. sks[c].available <=> has
    BY <1>9, <1>22
  <2> QED
    BY <1>21, <2>2, <2>3, <2>4
<1>23. \A i \in quotes : p.active[i].content = w.body
  BY <1>9, <1>10, <1>16
<1>24. {i \in DOMAIN p.active : p.active[i].slug = s} = quotes
  BY <1>10
<1>25. /\ Cardinality(quotes) = IF w.always /\ has THEN 1 ELSE 0
       /\ Cardinality(lists) = IF w.always THEN 0 ELSE 1
  BY <1>13, <1>16, <1>17
<1> HIDE DEF quotes, lists
<1> QED
  BY <1>20, <1>22, <1>23, <1>24, <1>25 DEF Says, p, w, has

-----------------------------------------------------------------------------
(* Skills: the prompt of boot, and the last scan.                          *)

\* The bounds of the loader, and directories of some skills each that it has room for.
SkillBounds ==
  /\ MaxSkills \in Nat /\ MaxRequires \in Nat \ {0}
  /\ Directories = MCDirectories
  /\ \A set \in Sets : set \in SUBSET DOMAIN Authored /\ Cardinality(set) <= MaxSkills

IsDirectory(d) == \E set \in Sets : DirectoryOf(d, set)

\* sks was made of the directory d.
Scanned(sks, d) == IsDirectory(d) /\ sks \in Scans(d)

\* p was made of a scan of d.
Prompted(p, d) == \E sks : Scanned(sks, d) /\ p = skills_get_prompt(sks)

SkillsInv ==
  /\ IsDirectory(dir) /\ DOMAIN seen = {"boot", "scan"}
  /\ "skills" \in created => Prompted(prompt, seen.boot) /\ Scanned(skills, seen.scan)

\* What lies in the directory is one of them.
LEMMA Directory ==
  ASSUME SkillBounds, NEW d \in Directories
  PROVE  IsDirectory(d)
BY DEF SkillBounds, MCDirectories, IsDirectory, DirectoryOf

\* A step that leaves the scans alone.
LEMMA KeepsSkills ==
  ASSUME SkillsInv, UNCHANGED known, "skills" \in created' => "skills" \in created
  PROVE  SkillsInv'
<1>1. dir' = dir /\ skills' = skills /\ prompt' = prompt /\ seen' = seen
  BY DEF known
<1> QED
  BY <1>1 DEF SkillsInv

\* Every step keeps SkillsInv.
LEMMA NextSkills ==
  ASSUME SkillBounds, SkillsInv, [Next]_vars
  PROVE  SkillsInv'
<1>1. CASE Usage \/ BootFails \/ Install
  BY <1>1, KeepsSkills DEF Usage, BootFails, Install, Goes, boot
<1>2. CASE Configure \/ Provide \/ StartGateway
  BY <1>2, KeepsSkills DEF Configure, Provide, StartGateway, Early
<1>3. CASE Build
  <2>1. /\ dir' = dir /\ skills' \in Scans(dir) /\ prompt' = skills_get_prompt(skills')
        /\ seen'.boot = dir /\ seen'.scan = dir /\ DOMAIN seen' = {"boot", "scan"}
    BY <1>3 DEF Build
  <2>2. IsDirectory(dir)
    BY DEF SkillsInv
  <2>3. Scanned(skills', dir)
    BY <2>1, <2>2 DEF Scanned
  <2>4. Prompted(prompt', dir)
    BY <2>1, <2>3 DEF Prompted
  <2> QED
    BY <2>1, <2>2, <2>3, <2>4 DEF SkillsInv
<1>4. CASE GatewayFails \/ Idle \/ Pause
  BY <1>4, KeepsSkills DEF GatewayFails, Idle, Pause, Goes, boot
<1>5. CASE Top \/ Reset \/ NoInput \/ Command \/ Quit
  BY <1>5, KeepsSkills DEF Top, Reset, NoInput, Command, Quit, Goes, boot
<1>6. CASE Reload
  <2>1. /\ dir' = dir /\ prompt' = prompt /\ created' = created /\ skills' \in Scans(dir)
        /\ seen' = [seen EXCEPT !.scan = dir]
    BY <1>6 DEF Reload, boot
  <2>2. seen'.boot = seen.boot /\ seen'.scan = dir
    BY <2>1 DEF SkillsInv
  <2> QED
    BY <2>1, <2>2 DEF SkillsInv, Scanned
<1>7. CASE Turn
  BY <1>7, KeepsSkills DEF Turn, BeginTurn, StartSpinner, OnThinking, Answer, StopSpinner,
                           JoinSpinner, Reply, Goes, boot
<1>8. CASE Cleanup
  BY <1>8, KeepsSkills DEF Cleanup
<1>9. CASE Spinner
  BY <1>9, KeepsSkills DEF Spinner, Spin, TakeMessage, PrintMessage, ClearLine, boot
<1>10. CASE (\E l \in Lines \cup {Eof} : Type(l)) \/ Killed \/ Terminate \/ Interrupt
  BY <1>10, KeepsSkills DEF Type, Killed, Terminate, Interrupt, Sent, boot
<1>11. CASE Edit
  <2>1. /\ dir' \in Directories /\ skills' = skills /\ prompt' = prompt /\ seen' = seen
        /\ created' = created
    BY <1>11 DEF Edit, boot
  <2> QED
    BY <2>1, Directory DEF SkillsInv
<1>12. CASE UNCHANGED vars
  BY <1>12, KeepsSkills DEF vars, boot
<1> QED
  BY <1>1, <1>2, <1>3, <1>4, <1>5, <1>6, <1>7, <1>8, <1>9, <1>10, <1>11, <1>12
  DEF Next, Main, Boot, Daemon, Prompt, Outside

\* The prompt quotes each skill that is always active and has what it needs, and lists each
\* that is not with whether it has and what it lacks, as its SKILL.md says; and the last
\* scan found each skill once: whatever sets of the authored skills lie in the directory,
\* in whatever order readdir gives them, and whatever is present.
THEOREM SkillsAreKnown == SkillBounds => (Spec => []SkillsKnown)
<1> SUFFICES ASSUME SkillBounds
             PROVE  Spec => []SkillsKnown
  OBVIOUS
<1>1. Init => SkillsInv
  <2> SUFFICES ASSUME Init
               PROVE  SkillsInv
    OBVIOUS
  <2>1. dir \in Directories /\ created = {} /\ DOMAIN seen = {"boot", "scan"}
    BY DEF Init
  <2> QED
    BY <2>1, Directory DEF SkillsInv
<1>2. SkillsInv /\ [Next]_vars => SkillsInv'
  BY NextSkills
<1>3. SkillsInv => SkillsKnown
  <2> SUFFICES ASSUME SkillsInv, "skills" \in created
               PROVE  SkillsKnown
    BY DEF SkillsKnown
  <2>1. Prompted(prompt, seen.boot) /\ Scanned(skills, seen.scan)
    BY DEF SkillsInv
  <2>2. /\ MaxSkills \in Nat /\ MaxRequires \in Nat \ {0}
        /\ \A set \in Sets : set \in SUBSET DOMAIN Authored /\ Cardinality(set) <= MaxSkills
    BY DEF SkillBounds
  <2>3. PICK sks : Scanned(sks, seen.boot) /\ prompt = skills_get_prompt(sks)
    BY <2>1 DEF Prompted
  <2>4. PICK set \in Sets : DirectoryOf(seen.boot, set) /\ sks \in Scans(seen.boot)
    BY <2>3 DEF Scanned, IsDirectory
  <2>5. Finds(sks, set) /\ {e.slug : e \in Loadable(seen.boot)} = set
    BY <2>2, <2>4, ScanFinds, LoadableOf
  <2>6. \A s \in set : Says(prompt, s)
    BY <2>2, <2>3, <2>5, PromptSays
  <2>7. \A s \in {e.slug : e \in Loadable(seen.boot)} : Says(prompt, s)
    BY <2>5, <2>6
  <2>8. PICK last \in Sets : DirectoryOf(seen.scan, last) /\ skills \in Scans(seen.scan)
    BY <2>1 DEF Scanned, IsDirectory
  <2>9. /\ Finds(skills, last) /\ {e.slug : e \in Loadable(seen.scan)} = last
        /\ Cardinality(Loadable(seen.scan)) = Cardinality(last)
    BY <2>2, <2>8, ScanFinds, LoadableOf
  <2>10. /\ {skills[i].slug : i \in DOMAIN skills} = last
         /\ Len(skills) = Cardinality(last)
    <3>1. PICK at : /\ Counts(at, last) /\ DOMAIN skills = DOMAIN at
                    /\ Len(skills) = Cardinality(last)
                    /\ \A i \in DOMAIN at : skills[i] = Loaded(at[i])
      BY <2>9 DEF Finds
    <3>2. (\A i \in DOMAIN at : at[i] \in last) /\ \A s \in last : \E i \in DOMAIN at : at[i] = s
      BY <3>1 DEF Counts
    <3>3. \A s \in last : Loaded(s).slug = s
      BY <2>2, AllMeant, EachAsAuthored DEF Loaded, Meant, AsAuthored
    <3>4. \A i \in DOMAIN skills : skills[i].slug = at[i]
      BY <3>1, <3>2, <3>3
    <3> QED
      BY <3>1, <3>2, <3>4
  <2> QED
    BY <2>7, <2>9, <2>10 DEF SkillsKnown, Says
<1> QED
  BY <1>1, <1>2, <1>3, PTL DEF Spec
=============================================================================
