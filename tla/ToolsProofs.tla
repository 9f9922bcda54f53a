------------------------------ MODULE ToolsProofs -------------------------------
(***************************************************************************)
(* Proofs about module MCTools: what one call, one conversation and one    *)
(* text come to, where the calls, the conversations and the texts are      *)
(* those of its runs but the bounds on them are any.  Calls of the serial  *)
(* and the file tools, and the texts, follow from what SerialProofs and    *)
(* FilesProofs show of any device, any tree and any file.                  *)
(***************************************************************************)
EXTENDS MCTools, TLAPS, WellFoundedInduction, FiniteSetTheorems

-----------------------------------------------------------------------------
(* shell_exec: for every timeout, chunk, cap and pipe, and whether or not  *)
(* the processes ever fall silent.                                         *)

TypeInv ==
  /\ left \in Nat
  /\ pipe \in Seq(Bytes)
  /\ out \in 0..MaxOutput
  /\ owed \in 0..MaxOutput
  /\ binary \in BOOLEAN

Reaped == {"last", "close", "done"}

\* Where the child is while the call goes on, and what is known of its end.
ChildInv ==
  /\ tool \in {"idle", "refused", "failed"} => child = "none"
  /\ tool \in {"drain", "wait", "check", "sleep"} => child \in {"running", "exited"}
  /\ tool \in Reaped =>
       child = "reaped" /\ (exit = code \/ (exit = NoCode /\ note = "timed out"))
  /\ tool \notin Reaped => exit = NoCode /\ note = "none"
  /\ child \in {"none", "running"} => code = NoCode

\* What the command wrote is in the output or still in the pipe, unless the cap has been
\* reached.
OutputInv ==
  /\ ~binary => /\ \A i \in 1..Len(pipe) : pipe[i] = "text"
                /\ owed <= out + Len(pipe)
                /\ tool \in {"close", "done"} => owed <= out
  /\ lost => out = MaxOutput
  /\ tool = "done" /\ out = MaxOutput => note # "none"

-----------------------------------------------------------------------------
(* A read.                                                                 *)

\* A set of numbers that is not empty has a least one.
LEMMA LeastNumber ==
  ASSUME NEW T, T \subseteq Nat, T # {}
  PROVE  Min(T) \in T /\ \A y \in T : Min(T) <= y
<1>1. \E x \in T : \A y \in T : ~(<<y, x>> \in OpToRel(<, Nat))
  BY NatLessThanWellFounded, WFMin, Zenon
<1>2. PICK x \in T : \A y \in T : ~(<<y, x>> \in OpToRel(<, Nat))
  BY <1>1
<1>3. \A y \in T : x <= y
  <2>1. TAKE y \in T
  <2>2. ~(<<y, x>> \in OpToRel(<, Nat))
    BY <1>2
  <2>3. x \in Nat /\ y \in Nat
    OBVIOUS
  <2> QED
    BY <2>2, <2>3 DEF OpToRel
<1> QED
  BY <1>3 DEF Min

\* The text of a chunk ends at its first zero, or with it.
LEMMA TextOfChunk ==
  ASSUME NEW chunk \in Seq(Bytes)
  PROVE  /\ TextOf(chunk) \in 0..Len(chunk)
         /\ \A i \in 1..TextOf(chunk) : chunk[i] = "text"
         /\ TextOf(chunk) = Len(chunk) \/ chunk[TextOf(chunk) + 1] = "zero"
<1> DEFINE Zeros == {i \in 1..Len(chunk) : chunk[i] = "zero"}
<1>0. /\ Len(chunk) \in Nat /\ DOMAIN chunk = 1..Len(chunk)
      /\ \A i \in 1..Len(chunk) : chunk[i] \in {"text", "zero"}
  BY DEF Bytes
<1>1. CASE Zeros = {}
  <2>1. TextOf(chunk) = Len(chunk)
    BY <1>0, <1>1 DEF TextOf
  <2> QED
    BY <1>0, <1>1, <2>1
<1>2. CASE Zeros # {}
  <2>1. SelectInSeq(chunk, LAMBDA b : b = "zero") = Min(Zeros)
    BY <1>2 DEF SelectInSeq
  <2>2. TextOf(chunk) = Min(Zeros) - 1
    BY <1>0, <1>2, <2>1 DEF TextOf
  <2>3. Zeros \subseteq Nat
    BY <1>0
  <2> DEFINE least == Min(Zeros)
  <2>4. least \in Zeros /\ \A y \in Zeros : least <= y
    BY <1>2, <2>3, LeastNumber
  <2>5. TextOf(chunk) = least - 1
    BY <2>2
  <2> HIDE DEF least
  <2>6. /\ least \in 1..Len(chunk) /\ chunk[least] = "zero"
        /\ \A i \in 1..Len(chunk) : chunk[i] = "zero" => least <= i
    BY <2>4
  <2> HIDE DEF Zeros
  <2>7. \A i \in 1..(least - 1) : i \in 1..Len(chunk) /\ ~(least <= i)
    BY <1>0, <2>6
  <2>8. \A i \in 1..(least - 1) : chunk[i] = "text"
    BY <1>0, <2>6, <2>7
  <2> QED
    BY <1>0, <2>5, <2>6, <2>8
<1> QED
  BY <1>1, <1>2

\* A read moves a chunk from the pipe to the output.  Where the chunk is text, what does
\* not arrive there is over the cap, and so is whatever text is lost.
LEMMA TakeMoves ==
  ASSUME TypeInv, Take
  PROVE  /\ pipe' \in Seq(Bytes)
         /\ out' \in out..MaxOutput
         /\ lost' => lost \/ out' = MaxOutput
         /\ (\A i \in 1..Len(pipe) : pipe[i] = "text") =>
              /\ \A i \in 1..Len(pipe') : pipe'[i] = "text"
              /\ out' = MaxOutput \/ out' + Len(pipe') = out + Len(pipe)
<1> DEFINE n     == Least(Chunk, Len(pipe))
           chunk == SubSeq(pipe, 1, n)
           m     == Least(Len(chunk), MaxOutput - out)
           kept  == SubSeq(chunk, 1, m)
<1>0. /\ pipe \in Seq(Bytes) /\ Len(pipe) \in Nat /\ out \in 0..MaxOutput
      /\ Chunk \in Nat /\ MaxOutput \in Nat
  BY ShellAssumption DEF TypeInv
<1>1. n \in 0..Len(pipe)
  BY <1>0 DEF Least
<1>2. /\ chunk \in Seq(Bytes) /\ Len(chunk) = n
      /\ \A i \in 1..n : chunk[i] = pipe[i]
  BY <1>0, <1>1
<1>3. m \in 0..n /\ m <= MaxOutput - out /\ (m = n \/ m = MaxOutput - out)
  BY <1>0, <1>1, <1>2 DEF Least
<1>4. /\ out' = out + TextOf(kept)
      /\ lost' = (lost \/ TextOf(kept) < TextOf(chunk))
      /\ pipe' = SubSeq(pipe, Len(chunk) + 1, Len(pipe))
  BY DEF Take
<1> HIDE DEF n, chunk, m
<1>5. /\ kept \in Seq(Bytes) /\ Len(kept) = m
      /\ \A i \in 1..m : kept[i] = chunk[i]
  BY <1>1, <1>2, <1>3
<1>6. /\ pipe' \in Seq(Bytes) /\ Len(pipe') = Len(pipe) - n
      /\ \A i \in 1..Len(pipe') : pipe'[i] = pipe[i + n]
  BY <1>0, <1>1, <1>2, <1>4
<1> HIDE DEF kept
<1>7. /\ TextOf(kept) \in 0..m
      /\ \A i \in 1..TextOf(kept) : kept[i] = "text"
      /\ TextOf(kept) = m \/ kept[TextOf(kept) + 1] = "zero"
  BY <1>5, TextOfChunk
<1>8. /\ TextOf(chunk) \in 0..n
      /\ \A i \in 1..TextOf(chunk) : chunk[i] = "text"
  BY <1>2, TextOfChunk
<1>9. out' \in out..MaxOutput
  BY <1>0, <1>3, <1>4, <1>7
<1>10. ASSUME TextOf(kept) < TextOf(chunk)
       PROVE  out' = MaxOutput
  <2>1. TextOf(kept) = m
    <3>1. SUFFICES ASSUME TextOf(kept) # m
                   PROVE  FALSE
      OBVIOUS
    <3>2. TextOf(kept) + 1 \in 1..m /\ TextOf(kept) + 1 \in 1..TextOf(chunk)
      BY <1>1, <1>3, <1>7, <1>8, <1>10, <3>1
    <3> QED
      BY <1>5, <1>7, <1>8, <3>1, <3>2
  <2>2. m # n
    BY <1>1, <1>8, <1>10, <2>1
  <2> QED
    BY <1>0, <1>3, <1>4, <2>1, <2>2
<1>11. ASSUME \A i \in 1..Len(pipe) : pipe[i] = "text"
       PROVE  /\ \A i \in 1..Len(pipe') : pipe'[i] = "text"
              /\ out' = MaxOutput \/ out' + Len(pipe') = out + Len(pipe)
  <2>1. TextOf(kept) = m
    <3>1. SUFFICES ASSUME TextOf(kept) # m
                   PROVE  FALSE
      OBVIOUS
    <3>2. TextOf(kept) + 1 \in 1..m /\ m \in 0..Len(pipe) /\ m \in 0..n /\ n \in 0..Len(pipe)
      BY <1>0, <1>1, <1>3, <1>7, <3>1
    <3>3. kept[TextOf(kept) + 1] = pipe[TextOf(kept) + 1] /\ TextOf(kept) + 1 \in 1..Len(pipe)
      BY <1>2, <1>5, <3>2
    <3> QED
      BY <1>7, <1>11, <3>1, <3>3
  <2>2. \A i \in 1..Len(pipe') : i + n \in 1..Len(pipe)
    BY <1>0, <1>1, <1>6
  <2>3. \A i \in 1..Len(pipe') : pipe'[i] = "text"
    BY <1>6, <1>11, <2>2
  <2>4. out' = out + m /\ Len(pipe') = Len(pipe) - n
    BY <1>4, <1>6, <2>1
  <2>5. out' = MaxOutput \/ out' + Len(pipe') = out + Len(pipe)
    BY <1>0, <1>1, <1>3, <2>4
  <2> QED
    BY <2>3, <2>5
<1> QED
  BY <1>4, <1>6, <1>9, <1>10, <1>11

-----------------------------------------------------------------------------
(* The steps.                                                              *)

\* Every step keeps TypeInv.
LEMMA NextType ==
  ASSUME TypeInv, [Next]_vars
  PROVE  TypeInv'
<1> USE ShellAssumption DEF TypeInv
<1>1. CASE \E t \in Timeouts : Spawn(t)
  <2>1. PICK t \in Timeouts : Spawn(t)
    BY <1>1
  <2>2. Granted(t) \in Nat
    BY DEF Granted
  <2> QED
    BY <2>1, <2>2 DEF Spawn
<1>2. CASE Read \/ LastRead
  <2>1. Take /\ UNCHANGED <<left, owed, binary>>
    BY <1>2 DEF Read, LastRead, processes
  <2>2. pipe' \in Seq(Bytes) /\ out' \in out..MaxOutput
    BY <2>1, TakeMoves
  <2> QED
    BY <2>1, <2>2
<1>3. CASE Refuse \/ SpawnFails \/ Drained \/ Wait \/ Check \/ Awake \/ LastDrained \/ Close
  BY <1>3 DEF Refuse, SpawnFails, Drained, Wait, Check, Awake, LastDrained, Close, processes
<1>4. CASE \E b \in Bytes : Write(b)
  <2>1. PICK b \in Bytes : Write(b)
    BY <1>4
  <2>2. /\ pipe' = Append(pipe, b) /\ left' = left /\ out' = out
        /\ owed' = owed \/ owed' = Least(MaxOutput, owed + 1)
        /\ binary' \in BOOLEAN
    BY <2>1 DEF Write
  <2>3. Least(MaxOutput, owed + 1) \in 0..MaxOutput
    BY DEF Least
  <2> QED
    BY <2>2, <2>3
<1>5. CASE Fork \/ BackgroundEnds \/ ChildExits
  BY <1>5 DEF Fork, BackgroundEnds, ChildExits
<1>6. CASE Tick
  BY <1>6 DEF Tick, processes
<1>7. CASE UNCHANGED vars
  BY <1>7 DEF vars, processes
<1> QED
  BY <1>1, <1>2, <1>3, <1>4, <1>5, <1>6, <1>7 DEF Next, Tool, Processes

\* Every step keeps ChildInv.
LEMMA NextChild ==
  ASSUME ChildInv, [Next]_vars
  PROVE  ChildInv'
<1> USE DEF ChildInv, Reaped
<1>1. CASE Refuse \/ SpawnFails \/ \E t \in Timeouts : Spawn(t)
  BY <1>1 DEF Refuse, SpawnFails, Spawn, processes
<1>2. CASE Read \/ Drained \/ Awake \/ LastRead \/ LastDrained
  BY <1>2 DEF Read, Drained, Awake, LastRead, LastDrained, processes
<1>3. CASE Wait
  BY <1>3 DEF Wait
<1>4. CASE Check
  BY <1>4 DEF Check
<1>5. CASE Close
  BY <1>5 DEF Close, processes
<1>6. CASE \E b \in Bytes : Write(b)
  BY <1>6 DEF Write
<1>7. CASE Fork \/ BackgroundEnds \/ ChildExits
  BY <1>7 DEF Fork, BackgroundEnds, ChildExits
<1>8. CASE Tick \/ UNCHANGED vars
  <2>1. UNCHANGED <<tool, child, exit, note, code>>
    BY <1>8 DEF Tick, vars, processes
  <2> QED
    BY <2>1
<1> QED
  BY <1>1, <1>2, <1>3, <1>4, <1>5, <1>6, <1>7, <1>8 DEF Next, Tool, Processes

\* Every step keeps OutputInv.
LEMMA NextOutput ==
  ASSUME TypeInv, ChildInv, OutputInv, [Next]_vars
  PROVE  OutputInv'
<1>0. /\ Len(pipe) \in Nat /\ out \in 0..MaxOutput /\ owed \in 0..MaxOutput
      /\ MaxOutput \in Nat /\ pipe \in Seq(Bytes) /\ binary \in BOOLEAN
  BY ShellAssumption DEF TypeInv
<1>1. CASE Read \/ LastRead
  <2>1. /\ Take /\ UNCHANGED <<tool, note, owed, binary>>
        /\ tool \in {"drain", "last"}
    BY <1>1 DEF Read, LastRead, processes
  <2>2. /\ pipe' \in Seq(Bytes) /\ out' \in out..MaxOutput
        /\ lost' => lost \/ out' = MaxOutput
        /\ (\A i \in 1..Len(pipe) : pipe[i] = "text") =>
             /\ \A i \in 1..Len(pipe') : pipe'[i] = "text"
             /\ out' = MaxOutput \/ out' + Len(pipe') = out + Len(pipe)
    BY <2>1, TakeMoves
  <2>3. Len(pipe') \in Nat
    BY <2>2
  <2>4. ~binary => owed <= out' + Len(pipe')
    BY <1>0, <2>2, <2>3 DEF OutputInv
  <2>5. lost' => out' = MaxOutput
    BY <1>0, <2>2 DEF OutputInv
  <2>6. ~binary => \A i \in 1..Len(pipe') : pipe'[i] = "text"
    BY <2>2 DEF OutputInv
  <2> QED
    BY <2>1, <2>4, <2>5, <2>6 DEF OutputInv
<1>2. CASE LastDrained
  <2>1. Len(pipe) = 0
    BY <1>2 DEF LastDrained
  <2> QED
    BY <1>0, <1>2, <2>1 DEF LastDrained, processes, OutputInv
<1>3. CASE Close
  BY <1>0, <1>3 DEF Close, processes, OutputInv
<1>4. CASE Refuse \/ SpawnFails \/ Drained \/ Wait \/ Check \/ Awake \/ \E t \in Timeouts : Spawn(t)
  <2>1. /\ tool' \notin {"close", "done"}
        /\ UNCHANGED <<pipe, out, owed, binary, lost>>
    BY <1>4 DEF Refuse, SpawnFails, Drained, Wait, Check, Awake, Spawn, processes
  <2> QED
    BY <2>1 DEF OutputInv
<1>5. CASE \E b \in Bytes : Write(b)
  <2>1. PICK b \in Bytes : Write(b)
    BY <1>5
  <2>2. /\ pipe' = Append(pipe, b) /\ UNCHANGED <<tool, out, note, lost>>
        /\ owed' = IF child = "running" /\ b = "text" THEN Least(MaxOutput, owed + 1) ELSE owed
        /\ binary' = (binary \/ b = "zero")
    BY <2>1 DEF Write
  <2>3. /\ Len(pipe') = Len(pipe) + 1
        /\ \A i \in 1..Len(pipe) : pipe'[i] = pipe[i]
        /\ pipe'[Len(pipe) + 1] = b
    BY <1>0, <2>2
  <2>4. ASSUME ~binary'
        PROVE  /\ \A i \in 1..Len(pipe') : pipe'[i] = "text"
               /\ owed' <= out + Len(pipe')
               /\ tool \in {"close", "done"} => owed' <= out
    <3>1. ~binary /\ b = "text"
      BY <2>2, <2>4 DEF Bytes
    <3>2. /\ \A i \in 1..Len(pipe) : pipe[i] = "text"
          /\ owed <= out + Len(pipe)
          /\ tool \in {"close", "done"} => owed <= out
      BY <3>1 DEF OutputInv
    <3>3. \A i \in 1..Len(pipe') : pipe'[i] = "text"
      BY <1>0, <2>3, <3>1, <3>2
    <3>4. owed' <= owed + 1
      BY <1>0, <2>2 DEF Least
    <3>5. owed' \in Nat
      BY <1>0, <2>2 DEF Least
    <3>6. owed' <= out + Len(pipe')
      BY <1>0, <2>3, <3>2, <3>4, <3>5
    <3>7. tool \in {"close", "done"} => owed' = owed
      BY <2>2 DEF ChildInv, Reaped
    <3> QED
      BY <3>2, <3>3, <3>6, <3>7
  <2> QED
    BY <2>2, <2>4 DEF OutputInv
<1>6. CASE Fork \/ BackgroundEnds \/ ChildExits \/ Tick \/ UNCHANGED vars
  <2>1. UNCHANGED <<tool, pipe, out, owed, binary, lost, note>>
    BY <1>6 DEF Fork, BackgroundEnds, ChildExits, Tick, vars, processes
  <2> QED
    BY <2>1 DEF OutputInv
<1> QED
  BY <1>1, <1>2, <1>3, <1>4, <1>5, <1>6 DEF Next, Tool, Processes

\* However the command's exit, the reads, the waitpid and the deadline fall: its output is
\* in the answer up to the cap, and what was left out is marked.
THEOREM OutputIsComplete == Spec => []OutputComplete
<1>1. Init => TypeInv /\ ChildInv /\ OutputInv
  <2> SUFFICES ASSUME Init
               PROVE  TypeInv /\ ChildInv /\ OutputInv
    OBVIOUS
  <2>1. Len(pipe) = 0 /\ pipe \in Seq(Bytes)
    BY DEF Init
  <2>2. TypeInv
    <3>1. 0 \in 0..MaxOutput
      BY ShellAssumption
    <3>2. left = 0 /\ out = 0 /\ owed = 0 /\ binary = FALSE
      BY DEF Init
    <3> QED
      BY <2>1, <3>1, <3>2 DEF TypeInv
  <2>3. ChildInv
    BY DEF Init, ChildInv, Reaped
  <2>4. OutputInv
    BY <2>1 DEF Init, OutputInv
  <2> QED
    BY <2>2, <2>3, <2>4
<1>2. TypeInv /\ ChildInv /\ OutputInv /\ [Next]_vars => (TypeInv /\ ChildInv /\ OutputInv)'
  BY NextType, NextChild, NextOutput
<1>3. TypeInv /\ ChildInv /\ OutputInv => OutputComplete
  BY ShellAssumption DEF TypeInv, OutputInv, OutputComplete
<1> QED
  BY <1>1, <1>2, <1>3, PTL DEF Spec

\* Every answer comes with the child waited for, and with the child's own code.
THEOREM ChildIsReaped == Spec => []ChildReaped
<1>1. Init => ChildInv
  BY DEF Init, ChildInv, Reaped
<1>2. ChildInv /\ [Next]_vars => ChildInv'
  BY NextChild
<1>3. ChildInv => ChildReaped
  BY DEF ChildInv, ChildReaped, Reaped
<1> QED
  BY <1>1, <1>2, <1>3, PTL DEF Spec

-----------------------------------------------------------------------------
(* Replies.                                                                *)

\* The number of the positions up to m.
LEMMA CountUpTo == \A m \in Nat : Cardinality(1..m) = m
<1> TAKE m \in Nat
<1>1. 1 \in Int /\ m \in Int
  OBVIOUS
<1>2. Cardinality(1..m) = IF 1 > m THEN 0 ELSE m - 1 + 1
  BY <1>1, FS_Interval
<1> QED
  BY <1>2

\* Positions in their order: each is one of them, and each is behind the one before.
LEMMA InOrderGives ==
  ASSUME NEW n \in Nat, NEW P \in SUBSET (1..n)
  PROVE  \E m \in Nat :
           /\ DOMAIN R!InOrder(P) = 1..m
           /\ \A k \in 1..m : R!InOrder(P)[k] \in P
           /\ \A j, k \in 1..m : j < k => R!InOrder(P)[j] < R!InOrder(P)[k]
<1> DEFINE m       == Cardinality(P)
           Upto(i) == {j \in P : j <= i}
           rank    == [i \in P |-> Cardinality(Upto(i))]
<1>0. \A T : R!Cardinality(T) = Cardinality(T)
  BY DEF R!Cardinality, Cardinality
<1>1. IsFiniteSet(P) /\ m \in Nat
  <2>1. IsFiniteSet(1..n)
    BY FS_Interval
  <2> QED
    BY <2>1, FS_Subset, FS_CardinalityType
<1>2. ASSUME NEW i \in P
      PROVE  /\ IsFiniteSet(Upto(i)) /\ Cardinality(Upto(i)) \in 1..m
  <2>1. Upto(i) \in SUBSET P /\ i \in Upto(i)
    OBVIOUS
  <2>2. IsFiniteSet(Upto(i)) /\ Cardinality(Upto(i)) <= m
    BY <1>1, <2>1, FS_Subset
  <2>3. Cardinality(Upto(i)) \in Nat
    BY <2>2, FS_CardinalityType
  <2>4. Cardinality(Upto(i)) # 0
    BY <2>1, <2>2, FS_EmptySet
  <2> QED
    BY <1>1, <2>2, <2>3, <2>4
<1>3. ASSUME NEW i \in P, NEW j \in P, i < j
      PROVE  Cardinality(Upto(i)) < Cardinality(Upto(j))
  <2>1. Upto(i) \in SUBSET Upto(j) /\ j \in Upto(j) /\ j \notin Upto(i)
    <3>1. \A x \in P : x \in Int /\ (x <= i => x <= j)
      BY <1>3
    <3>2. j <= j /\ ~(j <= i)
      BY <1>3
    <3> QED
      BY <3>1, <3>2
  <2>2. /\ Cardinality(Upto(i)) <= Cardinality(Upto(j))
        /\ Cardinality(Upto(i)) # Cardinality(Upto(j))
    BY <1>2, <2>1, FS_Subset
  <2>3. Cardinality(Upto(i)) \in Nat /\ Cardinality(Upto(j)) \in Nat
    BY <1>2, FS_CardinalityType
  <2> QED
    BY <2>2, <2>3
<1>4. rank \in [P -> 1..m] /\ \A i \in P : rank[i] = Cardinality(Upto(i))
  BY <1>2
<1> HIDE DEF rank, m, Upto
<1>5. \A i, j \in P : rank[i] = rank[j] => i = j
  <2> SUFFICES ASSUME NEW i \in P, NEW j \in P, i # j
               PROVE  rank[i] # rank[j]
    OBVIOUS
  <2>1. i < j \/ j < i
    OBVIOUS
  <2>2. /\ Cardinality(Upto(i)) \in 1..m /\ Cardinality(Upto(j)) \in 1..m
        /\ i < j => Cardinality(Upto(i)) < Cardinality(Upto(j))
        /\ j < i => Cardinality(Upto(j)) < Cardinality(Upto(i))
    BY <1>2, <1>3
  <2> QED
    BY <1>1, <1>4, <2>1, <2>2
<1>6. \A k \in 1..m : \E i \in P : rank[i] = k
  <2>1. rank \in Injection(P, 1..m)
    BY <1>4, <1>5 DEF Injection, IsInjective
  <2>2. IsFiniteSet(1..m) /\ Cardinality(1..m) = m
    BY <1>1, FS_Interval, CountUpTo
  <2>3. rank \in Surjection(P, 1..m)
    BY <2>1, <2>2, FS_Injection DEF m
  <2> QED
    BY <2>3 DEF Surjection
<1>7. DOMAIN R!InOrder(P) = 1..m
  BY <1>0 DEF R!InOrder, m
<1>8. ASSUME NEW k \in 1..m
      PROVE  R!InOrder(P)[k] \in P /\ rank[R!InOrder(P)[k]] = k
  <2>1. R!InOrder(P)[k] = CHOOSE i \in P : Cardinality({j \in P : j <= i}) = k
    BY <1>0, <1>8 DEF R!InOrder, m
  <2>2. \E i \in P : Cardinality({j \in P : j <= i}) = k
    BY <1>4, <1>6, <1>8 DEF Upto
  <2> QED
    BY <1>4, <2>1, <2>2 DEF Upto
<1>9. ASSUME NEW j \in 1..m, NEW k \in 1..m, j < k
      PROVE  R!InOrder(P)[j] < R!InOrder(P)[k]
  <2> DEFINE x == R!InOrder(P)[j]
             y == R!InOrder(P)[k]
  <2>1. x \in P /\ y \in P /\ rank[x] = j /\ rank[y] = k
    BY <1>8
  <2> HIDE DEF x, y
  <2>2. x # y
    BY <1>9, <2>1
  <2>3. ASSUME y < x
        PROVE  FALSE
    <3>1. rank[y] < rank[x]
      BY <1>3, <1>4, <2>1, <2>3
    <3> QED
      BY <1>1, <1>9, <2>1, <3>1
  <2>4. x \in Nat /\ y \in Nat
    BY <2>1
  <2> QED
    BY <2>2, <2>3, <2>4 DEF x, y
<1> QED
  BY <1>1, <1>7, <1>8, <1>9

\* A list of calls.
Listed(calls) == \E n \in Nat : DOMAIN calls = 1..n /\ calls = [k \in 1..n |-> calls[k]]

\* A response to r says what r says.
SaysAs(content, r) == content = "text" <=> r.kind = "message" /\ r.content = "text"

\* calls are some of those asked for, in their order and with their arguments.
TakenFrom(calls, asked) ==
  /\ Listed(calls)
  /\ \A j, k \in DOMAIN calls : j < k => calls[j].of < calls[k].of
  /\ \A k \in DOMAIN calls :
       /\ asked[calls[k].of].args \in R!Arguments
       /\ calls[k].args = R!Encoded(asked[calls[k].of].args)
       /\ calls[k].name = asked[calls[k].of].name

\* The program gives them their ids, or it gives them none.
CountedFrom(calls, c) ==
  \E n \in Nat : DOMAIN calls = 1..n /\ \A k \in 1..n : calls[k].id = R!Counted(c + k)

NotCounted(calls) == \A k \in DOMAIN calls : calls[k].id[1] # "counter"

\* A sequence of calls, and one of sequences of calls.
LEMMA BoundedDomain ==
  ASSUME NEW T, NEW max \in Nat, NEW s \in R!BoundedSeq(T, max)
  PROVE  \E n \in Nat : s \in [1..n -> T]
BY DEF R!BoundedSeq, R!SeqOf

\* A call has arguments of a known kind.
LEMMA CallArguments ==
  ASSUME NEW ids, NEW c \in R!Calls(ids)
  PROVE  c.args \in R!Arguments
BY DEF R!Calls, R!Call, R!Arguments

\* No call, no response to it.
LEMMA NoCalls ==
  ASSUME NEW c
  PROVE  CountedFrom(<<>>, c)
<1>1. DOMAIN <<>> = 1..0
  OBVIOUS
<1> QED
  BY <1>1 DEF CountedFrom

\* A sequence over no positions is the empty one.
LEMMA NothingCalled ==
  ASSUME NEW f, NEW g, 1..g = {}, DOMAIN f = 1..g, f = [k \in DOMAIN f |-> f[k]]
  PROVE  f = <<>>
<1>1. <<>> = [k \in {} |-> f[k]]
  OBVIOUS
<1> QED
  BY <1>1

\* What is made position by position is a list.
LEMMA IsListed ==
  ASSUME NEW n \in Nat, NEW calls, DOMAIN calls = 1..n, calls = [k \in DOMAIN calls |-> calls[k]]
  PROVE  Listed(calls)
BY Zenon DEF Listed

\* Ollama: what is run is valid and asked for in a reply that was not cut off.
LEMMA OllamaTakes ==
  ASSUME MaxCalls \in Nat, counter \in Nat, backend = "ollama", NEW r \in R!Replies,
         NEW calls, calls = R!Ollama(r).calls
  PROVE  /\ CountedFrom(calls, counter)
         /\ calls # <<>> =>
              /\ r.kind = "message" /\ r.end = "stop"
              /\ TakenFrom(calls, r.calls) /\ SaysAs(R!Ollama(r).content, r)
              /\ \A k \in DOMAIN calls : r.calls[calls[k].of].args # "broken"
<1>1. CASE R!Ollama(r) = R!Error
  BY <1>1, NoCalls DEF R!Error
<1>2. CASE R!Ollama(r) # R!Error
  <2>1. /\ r \in R!Message({"none"})
        /\ ~(r.end = "length" /\ r.calls # <<>>)
        /\ calls = R!OllamaCalls(r.calls) /\ R!Ollama(r).content = r.content
    BY <1>2 DEF R!Replies, R!NoReply, R!Ollama, R!Response
  <2>2. PICK n \in Nat : r.calls \in [1..n -> R!Calls({"none"})]
    BY <2>1, BoundedDomain DEF R!Message
  <2> DEFINE P == {i \in DOMAIN r.calls : R!Valid(r.calls[i])}
             kept == R!InOrder(P)
  <2>3. P \in SUBSET (1..n)
    BY <2>2
  <2>4. PICK m \in Nat :
          /\ DOMAIN kept = 1..m
          /\ \A k \in 1..m : kept[k] \in P
          /\ \A j, k \in 1..m : j < k => kept[j] < kept[k]
    BY <2>3, InOrderGives
  <2>5. calls = [k \in 1..m |-> R!Normal(R!Counted(counter + k), kept[k], r.calls[kept[k]])]
    BY <2>1, <2>4 DEF R!OllamaCalls, R!Kept
  <2> HIDE DEF kept
  <2>6. /\ DOMAIN calls = 1..m
        /\ \A k \in 1..m : /\ calls[k].id = R!Counted(counter + k) /\ calls[k].of = kept[k]
                           /\ calls[k].args = R!Encoded(r.calls[kept[k]].args)
                           /\ calls[k].name = r.calls[kept[k]].name
    BY <2>5 DEF R!Normal
  <2>7. CountedFrom(calls, counter)
    BY <2>6 DEF CountedFrom
  <2>8. TakenFrom(calls, r.calls)
    <3>1. \A k \in 1..m : r.calls[kept[k]].args \in R!Arguments
      BY <2>2, <2>4, CallArguments
    <3>2. Listed(calls)
      BY <2>5, <2>6, IsListed
    <3> QED
      BY <2>4, <2>6, <3>1, <3>2, SMTT(60) DEF TakenFrom
  <2>9. \A k \in DOMAIN calls : r.calls[calls[k].of].args # "broken"
    BY <2>4, <2>6 DEF R!Valid
  <2>10. r.kind = "message" /\ r.end \in {"stop", "length"}
    BY <2>1 DEF R!Message
  <2>11. ASSUME calls # <<>>
         PROVE  r.end = "stop"
    <3>1. 1..m # {}
      BY <2>5, <2>11, NothingCalled
    <3>2. r.calls # <<>>
      BY <2>4, <3>1
    <3> QED
      BY <2>1, <2>10, <3>2
  <2>12. SaysAs(R!Ollama(r).content, r)
    BY <2>1, <2>10 DEF SaysAs
  <2> QED
    BY <2>7, <2>8, <2>9, <2>10, <2>11, <2>12
<1> QED
  BY <1>1, <1>2

\* The first array that is not empty is one of them.
LEMMA FirstIsOne ==
  ASSUME NEW arrays, NEW n \in Nat, DOMAIN arrays = 1..n, R!Full(arrays) # {}
  PROVE  \E i \in 1..n : R!First(arrays) = arrays[i]
<1> DEFINE full == R!Full(arrays)
<1>1. full \subseteq 1..n /\ full \subseteq Nat /\ full # {}
  BY DEF R!Full
<1> HIDE DEF full
<1>2. \E i \in full : \A j \in full : i <= j
  BY <1>1, LeastNumber
<1>3. R!First(arrays) = arrays[CHOOSE i \in full : \A j \in full : i <= j]
  BY DEF R!First, full
<1>4. (CHOOSE i \in full : \A j \in full : i <= j) \in full
  BY <1>2
<1> QED
  BY <1>1, <1>3, <1>4

\* OpenAI: the calls are those of the message or those of the first array, and their ids
\* are the server's or none in the first case and the program's in the second.
LEMMA OpenAITakes ==
  ASSUME MaxCalls \in Nat, MaxArrays \in Nat, counter \in Nat, backend # "ollama",
         NEW r \in R!Replies, NEW calls, calls = R!OpenAI(r).calls
  PROVE  /\ CountedFrom(calls, counter) \/ NotCounted(calls)
         /\ calls # <<>> =>
              /\ TakenFrom(calls, IF r.kind = "message" THEN r.calls ELSE R!First(r.arrays))
              /\ SaysAs(R!OpenAI(r).content, r)
<1>1. CASE r = R!NoReply
  <2>1. calls = <<>>
    BY <1>1 DEF R!NoReply, R!OpenAI, R!Error
  <2> QED
    BY <2>1, NoCalls
<1>2. CASE r \in R!Message({"given", "none"})
  <2>1. r.kind = "message" /\ calls = R!OpenAICalls(r.calls)
    BY <1>2 DEF R!Message, R!OpenAI, R!Response
  <2>10. SaysAs(R!OpenAI(r).content, r)
    BY <2>1 DEF SaysAs, R!OpenAI, R!Response
  <2>2. PICK n \in Nat : r.calls \in [1..n -> R!Calls({"given", "none"})]
    BY <1>2, BoundedDomain DEF R!Message
  <2> DEFINE P == {i \in DOMAIN r.calls : r.calls[i].function}
             kept == R!InOrder(P)
  <2>3. P \in SUBSET (1..n)
    BY <2>2
  <2>4. PICK m \in Nat :
          /\ DOMAIN kept = 1..m
          /\ \A k \in 1..m : kept[k] \in P
          /\ \A j, k \in 1..m : j < k => kept[j] < kept[k]
    BY <2>3, InOrderGives
  <2>5. calls = [k \in 1..m |->
                  R!Normal(R!Server(kept[k], r.calls[kept[k]].id), kept[k], r.calls[kept[k]])]
    BY <2>1, <2>4 DEF R!OpenAICalls
  <2> HIDE DEF kept
  <2>6. /\ DOMAIN calls = 1..m
        /\ \A k \in 1..m : /\ calls[k].id = R!Server(kept[k], r.calls[kept[k]].id)
                           /\ calls[k].of = kept[k]
                           /\ calls[k].args = R!Encoded(r.calls[kept[k]].args)
                           /\ calls[k].name = r.calls[kept[k]].name
    BY <2>5 DEF R!Normal
  <2>7. \A i, id : R!Server(i, id)[1] # "counter"
    BY DEF R!Server
  <2>8. NotCounted(calls)
    BY <2>6, <2>7 DEF NotCounted
  <2>9. TakenFrom(calls, r.calls)
    <3>1. \A k \in 1..m : r.calls[kept[k]].args \in R!Arguments
      BY <2>2, <2>4, CallArguments
    <3>2. Listed(calls)
      BY <2>5, <2>6, IsListed
    <3> QED
      BY <2>4, <2>6, <3>1, <3>2 DEF TakenFrom
  <2> QED
    BY <2>1, <2>8, <2>9, <2>10
<1>3. CASE r \in R!Rejection
  <2>1. r.kind = "rejected" /\ calls = R!Recovered(r).calls
    BY <1>3 DEF R!Rejection, R!OpenAI
  <2>2. CASE calls = <<>>
    BY <2>2, NoCalls
  <2>3. CASE calls # <<>>
    <3> DEFINE first == R!First(r.arrays)
               T == R!Calls({"none"}) \ {R!Call(FALSE, "unusable", "none", "none")}
    <3>1. /\ R!Full(r.arrays) # {}
          /\ calls = [i \in DOMAIN first |-> R!Normal(R!Counted(counter + i), i, first[i])]
          /\ R!Recovered(r).content = "none"
      BY <2>1, <2>3 DEF R!Recovered, R!Error, R!DoubleFree, R!Response
    <3>8. SaysAs(R!OpenAI(r).content, r)
      BY <2>1, <3>1 DEF SaysAs, R!OpenAI
    <3>2. PICK n \in Nat : r.arrays \in [1..n -> R!BoundedSeq(T, MaxCalls)]
      BY <1>3, BoundedDomain DEF R!Rejection
    <3>3. PICK i \in 1..n : first = r.arrays[i]
      BY <3>1, <3>2, FirstIsOne
    <3>4. PICK m \in Nat : first \in [1..m -> T]
      BY <3>2, <3>3, BoundedDomain, ZenonT(60)
    <3> HIDE DEF first, T
    <3>5. /\ DOMAIN calls = 1..m
          /\ calls = [k \in 1..m |-> R!Normal(R!Counted(counter + k), k, first[k])]
          /\ \A k \in 1..m : /\ calls[k].id = R!Counted(counter + k) /\ calls[k].of = k
                             /\ calls[k].args = R!Encoded(first[k].args)
                             /\ calls[k].name = first[k].name
      BY <3>1, <3>4 DEF R!Normal
    <3>6. CountedFrom(calls, counter)
      BY <3>5 DEF CountedFrom
    <3>7. TakenFrom(calls, first)
      <4>1. \A k \in 1..m : first[k].args \in R!Arguments
        BY <3>4, CallArguments DEF T
      <4>2. Listed(calls)
        BY <3>5, IsListed
      <4> QED
        BY <3>5, <4>1, <4>2 DEF TakenFrom
    <3> QED
      BY <2>1, <3>6, <3>7, <3>8 DEF first
  <2> QED
    BY <2>2, <2>3
<1> QED
  BY <1>1, <1>2, <1>3 DEF R!Replies

ProviderBounds == MaxCalls \in Nat /\ MaxArrays \in Nat

\* The response has the calls of the reply and its text.
Answered == TakenFrom(response.calls, R!AskedFor) /\ SaysAs(response.content, reply)

\* What was run is what the response has.
RanAll ==
  /\ Listed(ran)
  /\ DOMAIN ran = DOMAIN response.calls
  /\ \A k \in DOMAIN ran : ran[k].of = response.calls[k].of

\* Calls that are about to be run, and those that have been, are those of the reply.
ReplyInv ==
  part = "provider" =>
    /\ counter \in Nat
    /\ phase = "received" /\ response.calls # <<>> =>
         /\ Answered
         /\ backend = "ollama" =>
              /\ reply.end = "stop"
              /\ \A k \in DOMAIN response.calls : R!AskedFor[response.calls[k].of].args # "broken"
    /\ phase = "ran" => response.calls # <<>> /\ Answered /\ RanAll
    /\ R!RunsWhatWasAsked

\* A reply is turned into calls.
LEMMA ChatTakes ==
  ASSUME ProviderBounds, counter \in Nat, R!Chat
  PROVE  /\ counter' \in Nat
         /\ response'.calls # <<>> =>
              /\ Answered'
              /\ backend' = "ollama" =>
                   /\ reply'.end = "stop"
                   /\ \A k \in DOMAIN response'.calls :
                        R!AskedFor'[response'.calls[k].of].args # "broken"
         /\ \A j, k \in DOMAIN response'.calls :
              response'.calls[k].id[1] = "counter" =>
                /\ response'.calls[k].id[2] \in (counter + 1)..counter'
                /\ response'.calls[j].id = response'.calls[k].id => j = k
<1>1. PICK r \in R!Replies :
        /\ reply' = r
        /\ response' = IF backend = "ollama" THEN R!Ollama(r) ELSE R!OpenAI(r)
        /\ counter' = counter + R!Cardinality({k \in DOMAIN response'.calls :
                                                 response'.calls[k].id[1] = "counter"})
        /\ backend' = backend
  BY DEF R!Chat
<1> DEFINE calls == response'.calls
           asked == IF r.kind = "message" THEN r.calls ELSE R!First(r.arrays)
<1>2. /\ CountedFrom(calls, counter) \/ NotCounted(calls)
      /\ calls # <<>> =>
           /\ TakenFrom(calls, asked) /\ SaysAs(response'.content, r)
           /\ backend = "ollama" =>
                r.end = "stop" /\ \A k \in DOMAIN calls : asked[calls[k].of].args # "broken"
  <2>1. CASE backend = "ollama"
    <3>1. calls = R!Ollama(r).calls /\ response'.content = R!Ollama(r).content
      BY <1>1, <2>1
    <3>2. ASSUME NEW cs, cs = R!Ollama(r).calls
          PROVE  /\ CountedFrom(cs, counter)
                 /\ cs # <<>> =>
                      /\ r.kind = "message" /\ r.end = "stop"
                      /\ TakenFrom(cs, r.calls) /\ SaysAs(R!Ollama(r).content, r)
                      /\ \A k \in DOMAIN cs : r.calls[cs[k].of].args # "broken"
      BY <2>1, <3>2, OllamaTakes DEF ProviderBounds
    <3> QED
      BY <3>1, <3>2
  <2>2. CASE backend # "ollama"
    <3>1. calls = R!OpenAI(r).calls /\ response'.content = R!OpenAI(r).content
      BY <1>1, <2>2
    <3>2. ASSUME NEW cs, cs = R!OpenAI(r).calls
          PROVE  /\ CountedFrom(cs, counter) \/ NotCounted(cs)
                 /\ cs # <<>> => TakenFrom(cs, asked) /\ SaysAs(R!OpenAI(r).content, r)
      BY <2>2, <3>2, OpenAITakes DEF ProviderBounds
    <3> QED
      BY <2>2, <3>1, <3>2
  <2> QED
    BY <2>1, <2>2
<1>3. R!AskedFor' = asked
  <2>1. reply' = r => R!AskedFor' = asked
    BY DEF R!AskedFor, R!First, R!Full
  <2> QED
    BY <1>1, <2>1
<1> HIDE DEF asked
<1>4. ASSUME NEW cs, cs = calls, CountedFrom(cs, counter)
      PROVE  /\ counter' \in Nat
             /\ \A j, k \in DOMAIN cs :
                  /\ cs[k].id[2] \in (counter + 1)..counter'
                  /\ cs[j].id = cs[k].id => j = k
  <2>1. PICK n \in Nat : DOMAIN cs = 1..n /\ \A k \in 1..n : cs[k].id = R!Counted(counter + k)
    BY <1>4 DEF CountedFrom
  <2>2. \A k \in 1..n : cs[k].id[1] = "counter" /\ cs[k].id[2] = counter + k
    BY <2>1 DEF R!Counted
  <2>3. {k \in DOMAIN cs : cs[k].id[1] = "counter"} = 1..n
    BY <2>1, <2>2
  <2>4. Cardinality(1..n) = n
    BY <2>1, CountUpTo
  <2>5. R!Cardinality(1..n) = Cardinality(1..n)
    BY DEF R!Cardinality, Cardinality
  <2>6. counter' = counter + n
    BY <1>1, <1>4, <2>3, <2>4, <2>5
  <2> QED
    BY <2>1, <2>2, <2>6
<1>5. ASSUME NEW cs, cs = calls, NotCounted(cs)
      PROVE  /\ counter' \in Nat
             /\ \A k \in DOMAIN cs : cs[k].id[1] # "counter"
  <2>1. {k \in DOMAIN cs : cs[k].id[1] = "counter"} = {}
    BY <1>5 DEF NotCounted
  <2>2. R!Cardinality({}) = Cardinality({})
    BY DEF R!Cardinality, Cardinality
  <2>3. counter' = counter + 0
    BY <1>1, <1>5, <2>1, <2>2, FS_EmptySet
  <2> QED
    BY <1>5, <2>3 DEF NotCounted
<1>6. ASSUME NEW cs, cs = calls
      PROVE  /\ counter' \in Nat
             /\ \A j, k \in DOMAIN cs :
                  cs[k].id[1] = "counter" =>
                    /\ cs[k].id[2] \in (counter + 1)..counter'
                    /\ cs[j].id = cs[k].id => j = k
  BY <1>2, <1>4, <1>5, <1>6
<1>7. calls # <<>> => Answered'
  <2>1. Answered' = (TakenFrom(calls, R!AskedFor') /\ SaysAs(response'.content, reply'))
    BY DEF Answered, TakenFrom, Listed, SaysAs
  <2> QED
    BY <1>1, <1>2, <1>3, <2>1
<1> QED
  BY <1>1, <1>2, <1>3, <1>6, <1>7

\* Running the calls changes nothing of what they are.
LEMMA RunTakes ==
  ASSUME ReplyInv, part = "provider", R!RunTools
  PROVE  R!RunsWhatWasAsked' /\ RanAll' /\ Answered'
<1> DEFINE calls == response.calls
           asked == R!AskedFor
<1>1. /\ Answered /\ TakenFrom(calls, asked)
      /\ backend = "ollama" =>
           reply.end = "stop" /\ \A k \in DOMAIN calls : asked[calls[k].of].args # "broken"
  BY DEF ReplyInv, R!RunTools, Answered
<1>2. /\ ran' = [k \in DOMAIN calls |->
                   [of |-> calls[k].of, args |-> R!ToolArguments(calls[k].args)]]
      /\ UNCHANGED <<backend, reply, response>>
  BY DEF R!RunTools
<1>3. R!AskedFor' = asked
  BY <1>2 DEF R!AskedFor, R!First, R!Full
<1>9. Answered'
  <2>1. Answered' = (TakenFrom(response'.calls, R!AskedFor') /\ SaysAs(response'.content, reply'))
    BY DEF Answered, TakenFrom, Listed, SaysAs
  <2> QED
    BY <1>1, <1>2, <1>3, <2>1 DEF Answered
<1>10. response'.calls = calls
  BY <1>2
<1> HIDE DEF calls, asked
<1>4. /\ DOMAIN ran' = DOMAIN calls
      /\ \A k \in DOMAIN calls : /\ ran'[k].of = calls[k].of
                                 /\ ran'[k].args = R!ToolArguments(calls[k].args)
  BY <1>2
<1>5. \A a \in R!Arguments :
        a # "broken" => (R!ToolArguments(R!Encoded(a)) = "empty" <=> a = "none")
  BY DEF R!Arguments, R!Encoded, R!ToolArguments
<1>6. \A j, k \in DOMAIN ran' : j < k => ran'[j].of < ran'[k].of
  BY <1>1, <1>4 DEF TakenFrom
<1>7. \A k \in DOMAIN ran' :
        asked[ran'[k].of].args # "broken" =>
          (ran'[k].args = "empty" <=> asked[ran'[k].of].args = "none")
  <2> SUFFICES ASSUME NEW k \in DOMAIN calls, asked[calls[k].of].args # "broken"
               PROVE  ran'[k].args = "empty" <=> asked[calls[k].of].args = "none"
    BY <1>4
  <2>1. /\ asked[calls[k].of].args \in R!Arguments
        /\ calls[k].args = R!Encoded(asked[calls[k].of].args)
    BY <1>1 DEF TakenFrom
  <2> QED
    BY <1>4, <1>5, <2>1
<1>8. backend' = "ollama" =>
        /\ reply'.end = "stop"
        /\ \A k \in DOMAIN ran' : asked[ran'[k].of].args # "broken"
  BY <1>1, <1>2, <1>4
<1>11. RanAll'
  <2>1. PICK n \in Nat : DOMAIN calls = 1..n
    BY <1>1 DEF TakenFrom, Listed
  <2>2. ran' = [k \in DOMAIN ran' |-> ran'[k]] /\ DOMAIN ran' = 1..n
    BY <1>2, <1>4, <2>1
  <2>3. \A f : f = ran' => Listed(f)
    BY <2>1, <2>2, IsListed
  <2>4. Listed(ran')
    BY <2>3
  <2>5. RanAll' = (/\ Listed(ran')
                   /\ DOMAIN ran' = DOMAIN response'.calls
                   /\ \A k \in DOMAIN ran' : ran'[k].of = response'.calls[k].of)
    BY DEF RanAll, Listed
  <2> QED
    BY <1>4, <1>10, <2>4, <2>5
<1> QED
  BY <1>3, <1>6, <1>7, <1>8, <1>9, <1>11 DEF R!RunsWhatWasAsked

\* Every step of a conversation keeps it.
LEMMA NextReply ==
  ASSUME ProviderBounds, ReplyInv, [MCNext]_all
  PROVE  ReplyInv'
<1>1. CASE part = "provider" /\ R!Chat /\ part' = part
  <2>1. counter \in Nat /\ phase' # "ran"
    BY <1>1 DEF ReplyInv, R!Chat
  <2>2. R!RunsWhatWasAsked'
    BY <2>1 DEF R!RunsWhatWasAsked
  <2> QED
    BY <1>1, <2>1, <2>2, ChatTakes DEF ReplyInv
<1>2. CASE part = "provider" /\ R!RunTools /\ part' = part
  <2>1. R!RunsWhatWasAsked' /\ RanAll' /\ Answered'
    BY <1>2, RunTakes
  <2> QED
    BY <1>2, <2>1 DEF ReplyInv, R!RunTools
<1>3. CASE part = "provider" /\ R!Continue /\ part' = part
  BY <1>3 DEF ReplyInv, R!Continue, R!RunsWhatWasAsked
<1>4. CASE UNCHANGED <<part, provider>>
  <2>1. UNCHANGED <<part, backend, counter, phase, reply, response, ran>>
    BY <1>4 DEF provider
  <2>2. R!AskedFor' = R!AskedFor
    BY <2>1 DEF R!AskedFor, R!First, R!Full
  <2>3. R!RunsWhatWasAsked' <=> R!RunsWhatWasAsked
    BY <2>1, <2>2 DEF R!RunsWhatWasAsked
  <2>4. (Answered' <=> Answered) /\ (RanAll' <=> RanAll)
    BY <2>1, <2>2 DEF Answered, RanAll, TakenFrom, SaysAs, Listed
  <2> QED
    BY <2>1, <2>2, <2>3, <2>4 DEF ReplyInv
<1> QED
  BY <1>1, <1>2, <1>3, <1>4 DEF MCNext, all, R!Next

\* It holds before anything has been said.
LEMMA InitReply ==
  ASSUME MCInit
  PROVE  ReplyInv
BY DEF MCInit, ReplyInv, R!Init, R!RunsWhatWasAsked

\* Two messages, a third, and the rest behind it.
LEMMA BehindIt ==
  ASSUME NEW n \in Nat, NEW a, NEW b, NEW c, NEW f, DOMAIN f = 1..n,
         f = [k \in DOMAIN f |-> f[k]], NEW w, w = <<a, b>> \o (<<c>> \o f)
  PROVE  /\ DOMAIN w = 1..(n + 3)
         /\ w[1] = a /\ w[2] = b /\ w[3] = c
         /\ \A k \in 1..n : w[3 + k] = f[k]
<1> DEFINE T == {a, b, c} \cup {f[k] : k \in 1..n}
<1>1. a \in T /\ b \in T /\ c \in T /\ \A k \in 1..n : f[k] \in T
  OBVIOUS
<1> HIDE DEF T
<1>2. f \in [1..n -> T]
  BY <1>1
<1>3. f \in Seq(T) /\ Len(f) = n
  BY <1>2
<1>4. <<a, b>> \in Seq(T) /\ <<c>> \in Seq(T)
  BY <1>1
<1> DEFINE t == <<c>> \o f
<1>5. t \in Seq(T) /\ Len(t) = n + 1 /\ t[1] = c /\ \A k \in 1..n : t[k + 1] = f[k]
  BY <1>3, <1>4
<1> HIDE DEF t
<1>6. w = <<a, b>> \o t
  BY DEF t
<1>7. Len(w) = n + 3 /\ w \in Seq(T) /\ w[1] = a /\ w[2] = b
  <2> DEFINE u == <<a, b>>
  <2>1. u \in Seq(T) /\ Len(u) = 2 /\ u[1] = a /\ u[2] = b
    BY <1>4
  <2> HIDE DEF u
  <2>2. w = u \o t
    BY <1>6 DEF u
  <2>5. Len(w) = Len(u) + Len(t)
    BY <1>5, <2>1, <2>2
  <2>6. w \in Seq(T)
    <3>1. t \in Seq(T) /\ u \in Seq(T)
      BY <1>5, <2>1
    <3>2. u \o t \in Seq(T)
      BY <3>1
    <3> QED
      BY <2>2, <3>2
  <2>3. Len(w) = 2 + (n + 1) /\ w \in Seq(T)
    BY <1>5, <2>1, <2>5, <2>6
  <2>4. w[1] = u[1] /\ w[2] = u[2]
    BY <1>5, <2>1, <2>2
  <2> QED
    BY <2>1, <2>3, <2>4
<1>8. \A k \in 1..(n + 1) : w[k + 2] = t[k]
  BY <1>4, <1>5, <1>6
<1>9. w[3] = c
  <2>1. 1 \in 1..(n + 1) /\ 1 + 2 = 3
    OBVIOUS
  <2> QED
    BY <1>5, <1>8, <2>1
<1>10. \A k \in 1..n : w[3 + k] = f[k]
  <2> TAKE k \in 1..n
  <2>1. k + 1 \in 1..(n + 1) /\ (k + 1) + 2 = 3 + k
    OBVIOUS
  <2>2. w[(k + 1) + 2] = t[k + 1]
    BY <1>8, <2>1
  <2> QED
    BY <1>5, <2>1, <2>2
<1> QED
  BY <1>7, <1>9, <1>10

\* Arguments are sent as they were given.
LEMMA ArgumentsSent ==
  ASSUME NEW a \in R!Arguments, a # "broken"
  PROVE  R!SentArguments(R!Encoded(a))[2] = "json" <=> a # "none"
BY DEF R!SentArguments, R!Encoded, R!Arguments, R!Format

-----------------------------------------------------------------------------
SP == INSTANCE SerialProofs WITH tool <- stool

(* The calls of serial_execute and shell_exec.                             *)

\* At least one command, and a buffer.
Bounds == Commands \in Nat \ {0} /\ MaxBuffer \in Nat

SerialInv ==
  /\ part = "serial" => SP!TalkInv
  /\ part # "serial" => NoSerial

\* What a device may still have to say is made of tokens.
LEMMA LineSetUp == Bounds => SP!SetUp
<1>1. /\ [kind |-> "login", cmd |-> 0, hash |-> FALSE] \in SP!Tokens
      /\ [kind |-> "text", cmd |-> 0, hash |-> FALSE] \in SP!Tokens
      /\ [kind |-> "prompt", cmd |-> 0, hash |-> TRUE] \in SP!Tokens
  BY DEF SP!Tokens
<1>2. Leftovers \subseteq Seq(SP!Tokens)
  BY <1>1 DEF Leftovers
<1> QED
  BY <1>2 DEF Bounds, SP!SetUp

\* The call of a run is the call that module SerialProofs is about.
LEMMA SerialIsSerial ==
  /\ Ser!Init => SP!Init
  /\ Ser!Next => SP!Next
  /\ UNCHANGED serial => UNCHANGED SP!vars
<1>1. Ser!Init => SP!Init
  BY DEF Ser!Init, SP!Init
<1>2. Ser!Next => SP!Next
  BY DEF Ser!Next, Ser!Tool, Ser!Refuse, Ser!Open, Ser!SkipLogin, Ser!Tickle, Ser!SendUsername,
         Ser!SendPassword, Ser!Send, Ser!SendFails, Ser!Read, Ser!TimeOut, Ser!Close, Ser!Arrive,
         Ser!Chat, Ser!Expire, Ser!Type, Ser!TypeBlindly, Ser!Answer, Ser!Becomes, Ser!Output,
         Ser!LoginPrompt, Ser!Prompt, Ser!Login, Ser!Password, Ser!Failed, Ser!Echo, Ser!Text,
         Ser!Hash, Ser!Token, Ser!Enter, Ser!User, Ser!Pass, Ser!Waiting, Ser!Advance, Ser!Shows,
         Ser!ShowsKind, Ser!Matches, Ser!After, Ser!Cleaned, Ser!Report, Ser!Min, Ser!call,
         Ser!line, Ser!fixed, Ser!vars,
         SP!Next, SP!Tool, SP!Refuse, SP!Open, SP!SkipLogin, SP!Tickle, SP!SendUsername,
         SP!SendPassword, SP!Send, SP!SendFails, SP!Read, SP!TimeOut, SP!Close, SP!Arrive,
         SP!Chat, SP!Expire, SP!Type, SP!TypeBlindly, SP!Answer, SP!Becomes, SP!Output,
         SP!LoginPrompt, SP!Prompt, SP!Login, SP!Password, SP!Failed, SP!Echo, SP!Text,
         SP!Hash, SP!Token, SP!Enter, SP!User, SP!Pass, SP!Waiting, SP!Advance, SP!Shows,
         SP!ShowsKind, SP!Matches, SP!After, SP!Cleaned, SP!Report, SP!Min, SP!call,
         SP!line, SP!fixed, SP!vars
<1>3. UNCHANGED serial => UNCHANGED SP!vars
  BY DEF serial, SP!vars, SP!call, SP!line, SP!fixed
<1> QED
  BY <1>1, <1>2, <1>3

\* Every behaviour of the runs keeps the invariant of the call it follows.
LEMMA NextSerial ==
  ASSUME Bounds, SerialInv, [MCNext]_all
  PROVE  SerialInv'
<1>1. CASE part = "serial" /\ Ser!Next /\ part' = part
  <2>1. SP!TalkInv /\ SP!Next
    BY <1>1, SerialIsSerial DEF SerialInv
  <2>2. SP!TalkInv'
    BY <2>1, LineSetUp, SP!NextInv
  <2> QED
    BY <1>1, <2>2 DEF SerialInv
<1>2. CASE UNCHANGED <<part, serial>>
  <2>1. UNCHANGED SP!vars
    BY <1>2, SerialIsSerial
  <2>2. SP!TalkInv => SP!TalkInv'
    BY <2>1, LineSetUp, SP!NextInv
  <2>3. NoSerial => NoSerial'
    BY <1>2 DEF NoSerial, serial
  <2> QED
    BY <1>2, <2>2, <2>3 DEF SerialInv
<1> QED
  BY <1>1, <1>2 DEF MCNext, all

\* It holds at first.
LEMMA InitSerial ==
  ASSUME Bounds, MCInit
  PROVE  SerialInv
<1>1. CASE part = "serial"
  BY <1>1, LineSetUp, SerialIsSerial, SP!InitInv DEF MCInit, SerialInv
<1>2. CASE part # "serial"
  BY <1>2 DEF MCInit, SerialInv
<1> QED
  BY <1>1, <1>2

\* What the invariant says of the answers it says in the words of the runs.
LEMMA SerialAnswers ==
  ASSUME SerialInv
  PROVE  OwnOutput /\ (part = "serial" => Ser!ClosedAndDone)
<1> SUFFICES ASSUME part = "serial"
             PROVE  Ser!OwnOutput /\ Ser!ClosedAndDone
  BY DEF OwnOutput
<1>1. SP!OwnOutput /\ SP!ClosedAndDone
  BY SP!InvAnswers DEF SerialInv
<1>2. Ser!OwnOutput
  BY <1>1 DEF SP!OwnOutput, SP!Clean, SP!Text, SP!Token, Ser!OwnOutput, Ser!Clean, Ser!Text,
              Ser!Token
<1>3. Ser!ClosedAndDone
  BY <1>1 DEF SP!ClosedAndDone, Ser!ClosedAndDone
<1> QED
  BY <1>2, <1>3

\* What a tool opens it closes, however the call ends and however large its buffers.
THEOREM NothingIsLeftOpen == Bounds => (MCSpec => []NothingLeftOpen)
<1> SUFFICES ASSUME Bounds
             PROVE  MCSpec => []NothingLeftOpen
  OBVIOUS
<1>1. MCInit => ChildInv /\ SerialInv
  BY InitSerial DEF MCInit, Init, ChildInv, Reaped
<1>2. ChildInv /\ SerialInv /\ [MCNext]_all => (ChildInv /\ SerialInv)'
  BY NextSerial, NextChild DEF MCNext, all
<1>3. ChildInv /\ SerialInv => NothingLeftOpen
  BY SerialAnswers DEF ChildInv, ChildReaped, Reaped, NothingLeftOpen
<1> QED
  BY <1>1, <1>2, <1>3, PTL DEF MCSpec

\* A command's output is its own and whole (see module SerialProofs).
THEOREM OutputsAreOwn == Bounds => (MCSpec => []OwnOutput)
<1> SUFFICES ASSUME Bounds
             PROVE  MCSpec => []OwnOutput
  OBVIOUS
<1> QED
  BY InitSerial, NextSerial, SerialAnswers, PTL DEF MCSpec

\* Commands are typed to a shell and a password to who asks for it (see module
\* SerialProofs).
THEOREM LinesGoWhereAsked == Bounds => (MCSpec => TypedWhereAsked)
<1> SUFFICES ASSUME Bounds
             PROVE  MCSpec => TypedWhereAsked
  OBVIOUS
<1>1. SerialInv =>
        [/\ (stool = "send" /\ stool' = "await" /\ Ser!Clean /\ profile.login) => device = "shell"
         /\ (stool = "secret" /\ stool' = "prompt" /\ Ser!Clean) => device = "password"]_(Ser!vars)
  <2>1. CASE part = "serial"
    BY <2>1, SP!InvTypes DEF SerialInv, Ser!Clean, SP!Clean
  <2>2. CASE part # "serial"
    BY <2>2 DEF SerialInv, NoSerial
  <2> QED
    BY <2>1, <2>2
<1> QED
  BY <1>1, InitSerial, NextSerial, PTL DEF MCSpec, TypedWhereAsked, Ser!TypedWhereAsked

-----------------------------------------------------------------------------
FP == INSTANCE FilesProofs WITH
        Cwd <- ".", Hidden <- {"d/.h"}, Matching <- Nodes, Pseudo <- {"d/e/g"},
        Permitted <- Nodes \ {"d/.h"}, Data <- <<"x", "y", "z">>,
        Contents <- {<<"a">>, <<"control", "a", "nul">>, <<"c", "c", "c", "c">>}

(* The calls of the file tools.                                            *)

FileBounds == MaxFile \in Nat /\ MaxDepth \in Nat

FilesInv == part = "files" => FP!IInv

\* The names of the runs form a tree, and so does what there is at first.
LEMMA NamesSetUp == FileBounds => FP!SetUp
<1> SUFFICES ASSUME FileBounds
             PROVE  FP!SetUp
  OBVIOUS
<1>1. IsFiniteSet(Nodes) /\ FP!IsFiniteSet(Nodes)
  <2>1. IsFiniteSet(Nodes)
    <3>1. \A T, x : IsFiniteSet(T) => IsFiniteSet(T \cup {x})
      BY FS_AddElement
    <3>2. Nodes = (((({"."} \cup {"d"}) \cup {"d/f"}) \cup {"d/e"}) \cup {"d/e/g"}) \cup {"d/.h"}
      BY DEF Nodes
    <3> QED
      BY <3>1, <3>2, FS_Singleton
  <2> QED
    BY <2>1 DEF IsFiniteSet, FP!IsFiniteSet
<1>2. /\ Up \in [Nodes \ {"."} -> Nodes]
      /\ Up["d"] = "." /\ Up["d/e/g"] = "d/e"
      /\ Up["d/f"] = "d" /\ Up["d/e"] = "d" /\ Up["d/.h"] = "d"
  BY DEF Up, Nodes
<1>3. \E depth \in [Nodes -> Nat] : \A n \in Nodes \ {"."} : depth[n] = depth[Up[n]] + 1
  <2> DEFINE depth == [n \in Nodes |-> CASE n = "." -> 0 [] n = "d" -> 1 [] n = "d/e/g" -> 3 [] OTHER -> 2]
  <2>1. depth \in [Nodes -> Nat]
    OBVIOUS
  <2>2. /\ depth["."] = 0 /\ depth["d"] = 1 /\ depth["d/e/g"] = 3
        /\ depth["d/f"] = 2 /\ depth["d/e"] = 2 /\ depth["d/.h"] = 2
    BY DEF Nodes
  <2> HIDE DEF depth
  <2>3. \A n \in Nodes \ {"."} : depth[n] = depth[Up[n]] + 1
    BY <1>2, <2>2 DEF Nodes
  <2> QED
    BY <2>1, <2>3
<1>4. "." \in Nodes
  BY DEF Nodes
<1> DEFINE others == {<<"a">>, <<"control", "a", "nul">>, <<"c", "c", "c", "c">>}
           pieces == others \cup {<<"x", "y", "z">>} \cup {d[n].data : d \in Disks, n \in Nodes}
<1>5. \A c \in others \cup {<<"x", "y", "z">>} : c \in Seq(FP!Bytes)
  <2>1. FP!Known = UNION {FP!ToSet(c) : c \in pieces}
    BY DEF FP!Known
  <2>2. \A c \in others \cup {<<"x", "y", "z">>} : FP!ToSet(c) \subseteq FP!Bytes
    BY <2>1 DEF FP!Bytes
  <2>3. /\ "control" \in FP!ToSet(<<"control", "a", "nul">>) /\ "a" \in FP!ToSet(<<"a">>)
        /\ "nul" \in FP!ToSet(<<"control", "a", "nul">>)
        /\ "c" \in FP!ToSet(<<"c", "c", "c", "c">>) /\ "x" \in FP!ToSet(<<"x", "y", "z">>)
        /\ "y" \in FP!ToSet(<<"x", "y", "z">>) /\ "z" \in FP!ToSet(<<"x", "y", "z">>)
    BY DEF FP!ToSet
  <2>4. {"a", "control", "nul", "c", "x", "y", "z"} \subseteq FP!Bytes
    BY <2>2, <2>3
  <2> DEFINE T == FP!Bytes
  <2>5. /\ "a" \in T /\ "control" \in T /\ "nul" \in T /\ "c" \in T
        /\ "x" \in T /\ "y" \in T /\ "z" \in T
    BY <2>4
  <2> HIDE DEF T
  <2>6. <<"a">> \in Seq(T)
    BY <2>5
  <2>7. <<"control", "a", "nul">> \in Seq(T)
    BY <2>5
  <2>8. <<"c", "c", "c", "c">> \in Seq(T)
    BY <2>5
  <2>9. <<"x", "y", "z">> \in Seq(T)
    BY <2>5
  <2> QED
    BY <2>6, <2>7, <2>8, <2>9 DEF T
<1>6. ASSUME NEW d \in Disks
      PROVE  FP!IsTree(d)
  <2>1. PICK f \in {[kind |-> "none", data |-> <<>>], File(<<"control", "a", "nul">>),
                    File(<<"c", "c", "c", "c">>)} :
          d = [n \in Nodes |-> CASE n \in {".", "d", "d/e"} -> [kind |-> "directory", data |-> <<>>]
                                 [] n = "d/f" -> f
                                 [] OTHER -> File(<<"a">>)]
    BY <1>6 DEF Disks
  <2>2. /\ [kind |-> "none", data |-> <<>>] = FP!None /\ [kind |-> "directory", data |-> <<>>] = FP!Dir
        /\ \A c : File(c) = FP!File(c)
    BY DEF FP!None, FP!Dir, FP!File, FP!Entry, File
  <2>3. f \in FP!Entries /\ File(<<"a">>) \in FP!Entries /\ FP!Dir \in FP!Entries
    <3>1. \A c \in others : File(c) \in FP!Entries
      BY <1>5, <2>2 DEF FP!Entries
    <3>2. FP!None \in FP!Entries /\ FP!Dir \in FP!Entries
      BY DEF FP!Entries
    <3> QED
      BY <2>2, <3>1, <3>2
  <2>4. d["."] = FP!Dir /\ d["d"] = FP!Dir /\ d["d/e"] = FP!Dir
    BY <2>1, <2>2 DEF Nodes
  <2>5. \A n \in Nodes \ {"."} : d[Up[n]] = FP!Dir
    BY <1>2, <2>4 DEF Nodes
  <2>6. d \in [Nodes -> FP!Entries]
    BY <2>1, <2>2, <2>3
  <2> QED
    BY <2>5, <2>6 DEF FP!IsTree
<1> HIDE DEF others
<1> QED
  BY <1>1, <1>2, <1>3, <1>4, <1>5, <1>6, ShellAssumption DEF FP!SetUp, FileBounds, others

\* The call of a run is the call that module FilesProofs is about.
LEMMA FilesAreFiles ==
  /\ F!Init => FP!Init
  /\ F!Next => FP!Next
  /\ UNCHANGED files => UNCHANGED FP!files
  /\ FP!FileAnswers => F!FileAnswers
<1>1. F!Init => FP!Init
  BY ZenonT(60) DEF F!Init, F!Tools, F!NoPath, F!None, F!Entry, FP!Init, FP!Tools, FP!NoPath, FP!None, FP!Entry
<1>2. F!Next => FP!Next
  BY ZenonT(60) DEF F!Next, F!Tool, F!Refuse, F!Stat, F!OpenRead, F!Read, F!OpenWrite, F!Write, F!CloseWrite,
         F!Delete, F!OpenDir, F!CloseDir, F!ListEntry, F!SearchEntry, F!Others, F!Becomes, F!Calls,
         F!Answer, F!Path, F!NoPath, F!None, F!Dir, F!File, F!Entry, F!IsFile, F!SizeOf, F!Overlaid,
         F!Opened, F!There, F!Children, F!Top, F!Returned, F!Passed, F!call, F!world, F!files,
         F!Min, F!Max,
         FP!Next, FP!Tool, FP!Refuse, FP!Stat, FP!OpenRead, FP!Read, FP!OpenWrite, FP!Write,
         FP!CloseWrite, FP!Delete, FP!OpenDir, FP!CloseDir, FP!ListEntry, FP!SearchEntry, FP!Others,
         FP!Becomes, FP!Calls, FP!Answer, FP!Path, FP!NoPath, FP!None, FP!Dir, FP!File, FP!Entry,
         FP!IsFile, FP!SizeOf, FP!Overlaid, FP!Opened, FP!There, FP!Children, FP!Top, FP!Returned,
         FP!Passed, FP!call, FP!world, FP!files, FP!Min, FP!Max
<1>3. UNCHANGED files => UNCHANGED FP!files
  BY DEF files, FP!files, FP!call, FP!world
<1>4. FP!FileAnswers => F!FileAnswers
  <2>1. ASSUME NEW bytes
        PROVE  FP!sanitize_output(bytes) = F!sanitize_output(bytes)
    BY DEF F!sanitize_output, F!Those, F!InOrder, F!Cardinality, F!Control, F!Nul,
           FP!sanitize_output, FP!Those, FP!InOrder, FP!Cardinality, FP!Control, FP!Nul
  <2>2. FP!Content = F!Content
    BY <2>1 DEF F!Content, FP!Content
  <2> QED
    BY <2>1, <2>2, ZenonT(60)
    DEF F!FileAnswers, F!Path, F!NoPath, F!None, F!File, F!Entry, F!IsFile, F!Children, F!Above,
        F!Way, F!Cardinality,
        FP!FileAnswers, FP!Path, FP!NoPath, FP!None, FP!File, FP!Entry, FP!IsFile, FP!Children,
        FP!Above, FP!Way, FP!Cardinality
<1> QED
  BY <1>1, <1>2, <1>3, <1>4

\* A file tool answers what there was, whatever others do during its call (see module
\* FilesProofs).
THEOREM FilesAreAnswered == FileBounds => (MCSpec => []FileAnswers)
<1> SUFFICES ASSUME FileBounds
             PROVE  MCSpec => []FileAnswers
  OBVIOUS
<1>1. MCInit => FilesInv
  BY NamesSetUp, FilesAreFiles, FP!InitInv DEF MCInit, FilesInv
<1>2. FilesInv /\ [MCNext]_all => FilesInv'
  <2> SUFFICES ASSUME FilesInv, [MCNext]_all, part' = "files"
               PROVE  FP!IInv'
    BY DEF FilesInv
  <2>1. part = "files" /\ (F!Next \/ UNCHANGED files)
    BY DEF MCNext, all
  <2>2. FP!Next \/ UNCHANGED FP!files
    BY <2>1, FilesAreFiles
  <2> QED
    BY <2>1, <2>2, NamesSetUp, FP!NextInv DEF FilesInv
<1>3. FilesInv => FileAnswers
  BY NamesSetUp, FilesAreFiles, FP!InvAnswers DEF FilesInv, FileAnswers
<1> QED
  BY <1>1, <1>2, <1>3, PTL DEF MCSpec

-----------------------------------------------------------------------------
(* The registry.                                                           *)

\* The tools registered at boot.
Booted ==
  <<[name |-> "usable", exec |-> "a"], [name |-> "none", exec |-> "b"],
    [name |-> "second", exec |-> "c"], [name |-> "third", exec |-> "d"]>>

\* How the registry is made, written out.
LEMMA RegistryIsFolded ==
  R!Registry =
    (CHOOSE f : f = [s \in SUBSET (DOMAIN Booted) |->
                       IF s = {} THEN <<>>
                       ELSE R!tool_register(f[s \ {FP!Max(s)}], Booted[FP!Max(s)])])[DOMAIN Booted]
BY Zenon DEF R!Registry, R!FoldLeft, R!MapThenFoldSet, R!Max, FP!Max, Booted

\* What can be registered has a name.
Named == Seq({t \in {Booted[k] : k \in 1..4} : t.name # "none"})

\* Registering keeps that.
LEMMA RegisteringKeeps ==
  ASSUME NEW v \in Named, NEW k \in 1..4
  PROVE  R!tool_register(v, Booted[k]) \in Named
<1> DEFINE T == {t \in {Booted[j] : j \in 1..4} : t.name # "none"}
           t == Booted[k]
<1>1. t.name # "none" => t \in T
  OBVIOUS
<1>2. v \in Seq(T)
  BY DEF Named
<1> HIDE DEF T, t
<1>3. t \in T => Append(v, t) \in Seq(T)
  BY <1>2
<1>4. \/ R!tool_register(v, t) = v
      \/ t.name # "none" /\ R!tool_register(v, t) = Append(v, t)
  BY DEF R!tool_register
<1> QED
  BY <1>1, <1>2, <1>3, <1>4 DEF Named, T, t

\* Each tool of the registry has a name.
LEMMA RegistryNamed == R!Registry \in Named
<1> DEFINE G       == [p \in Named \X (1..4) |-> R!tool_register(p[1], Booted[p[2]])]
           made(f) == f = [s \in SUBSET (1..4) |->
                             IF s = {} THEN <<>>
                             ELSE R!tool_register(f[s \ {FP!Max(s)}], Booted[FP!Max(s)])]
           c       == CHOOSE f : made(f)
<1>1. DOMAIN Booted = 1..4
  BY DEF Booted
<1>2. R!Registry = c[1..4]
  BY <1>1, RegistryIsFolded
<1>3. <<>> \in Named
  BY DEF Named
<1>4. G \in [Named \X (1..4) -> Named]
  BY RegisteringKeeps
<1>5. \E f \in [SUBSET (1..4) -> Named] : FP!Folding(f, <<>>, G, 4)
  BY <1>3, <1>4, FP!FoldExists
<1>6. PICK f0 \in [SUBSET (1..4) -> Named] : FP!Folding(f0, <<>>, G, 4)
  BY <1>5
<1>7. \A s \in SUBSET (1..4) : s # {} =>
        FP!Max(s) \in 1..4 /\ s \ {FP!Max(s)} \in SUBSET (1..4)
  BY FP!GreatestPosition
<1>8. made(f0)
  <2>1. \A s \in SUBSET (1..4) : s # {} =>
          G[<<f0[s \ {FP!Max(s)}], FP!Max(s)>>] = R!tool_register(f0[s \ {FP!Max(s)}], Booted[FP!Max(s)])
    <3> SUFFICES ASSUME NEW s \in SUBSET (1..4), s # {}
                 PROVE  G[<<f0[s \ {FP!Max(s)}], FP!Max(s)>>]
                          = R!tool_register(f0[s \ {FP!Max(s)}], Booted[FP!Max(s)])
      OBVIOUS
    <3>1. FP!Max(s) \in 1..4 /\ f0[s \ {FP!Max(s)}] \in Named
      BY <1>7
    <3> HIDE DEF made
    <3> DEFINE v == f0[s \ {FP!Max(s)}]
               k == FP!Max(s)
    <3> HIDE DEF v, k
    <3>2. ASSUME v \in Named, k \in 1..4
          PROVE  G[<<v, k>>] = R!tool_register(v, Booted[k])
      BY <3>2
    <3> QED
      BY <3>1, <3>2 DEF v, k
  <2> HIDE DEF G
  <2>2. f0 = [s \in SUBSET (1..4) |-> IF s = {} THEN <<>> ELSE G[<<f0[s \ {FP!Max(s)}], FP!Max(s)>>]]
    BY <1>6 DEF FP!Folding
  <2>3. [s \in SUBSET (1..4) |-> IF s = {} THEN <<>> ELSE G[<<f0[s \ {FP!Max(s)}], FP!Max(s)>>]]
          = [s \in SUBSET (1..4) |->
               IF s = {} THEN <<>> ELSE R!tool_register(f0[s \ {FP!Max(s)}], Booted[FP!Max(s)])]
    BY <2>1, Zenon
  <2> QED
    BY <2>2, <2>3, Zenon
<1>9. made(c)
  BY <1>8
<1> HIDE DEF c
<1>10. \A s \in SUBSET (1..4) :
         c[s] = IF s = {} THEN <<>> ELSE R!tool_register(c[s \ {FP!Max(s)}], Booted[FP!Max(s)])
  BY <1>9, Zenon
<1> HIDE DEF made
<1>11. FP!FoldsWith(c, Named, <<>>, G, 4)
  <2>1. {} \in SUBSET (1..4)
    OBVIOUS
  <2>2. \A v \in Named : \A k \in 1..4 : G[<<v, k>>] = R!tool_register(v, Booted[k])
    OBVIOUS
  <2> HIDE DEF G
  <2>3. ASSUME NEW s \in SUBSET (1..4), s # {}, c[s \ {FP!Max(s)}] \in Named
        PROVE  c[s] = G[<<c[s \ {FP!Max(s)}], FP!Max(s)>>]
    <3>1. FP!Max(s) \in 1..4
      BY <1>7, <2>3
    <3>2. G[<<c[s \ {FP!Max(s)}], FP!Max(s)>>] = R!tool_register(c[s \ {FP!Max(s)}], Booted[FP!Max(s)])
      BY <2>2, <2>3, <3>1, Zenon
    <3> QED
      BY <1>10, <2>3, <3>2, Zenon
  <2>4. c[{}] = <<>>
    BY <1>10, <2>1, Zenon
  <2> QED
    BY <2>3, <2>4 DEF FP!FoldsWith
<1> HIDE DEF G
<1>12. FP!StepsTo(Named, <<>>, G, 4, c[1..4])
  BY <1>3, <1>4, <1>11, FP!FoldSteps
<1>13. PICK h : FP!Steps(h, Named, <<>>, G, 4, c[1..4])
  BY <1>12 DEF FP!StepsTo
<1> QED
  BY <1>2, <1>13 DEF FP!Steps

\* A tool that is offered can be found.
LEMMA OfferedIsFound ==
  ASSUME NEW i \in DOMAIN R!tool_generate_json
  PROVE  R!tool_find(R!tool_generate_json[i]) # R!NoTool
<1> DEFINE name == R!Registry[i].name
           own  == {j \in 1..Len(R!Registry) : R!Registry[j].name = name}
<1>1. R!tool_generate_json[i] = name /\ i \in DOMAIN R!Registry
  BY DEF R!tool_generate_json
<1>2. \A j \in 1..Len(R!Registry) : j \in Nat /\ R!Registry[j].name # "none"
  <2> DEFINE T == {t \in {Booted[k] : k \in 1..4} : t.name # "none"}
  <2>1. R!Registry \in Seq(T) /\ \A t \in T : t.name # "none"
    BY RegistryNamed DEF Named
  <2> HIDE DEF T
  <2> QED
    BY <2>1
<1>3. i \in own /\ own \subseteq Nat
  <2>1. DOMAIN R!Registry = 1..Len(R!Registry)
    BY RegistryNamed DEF Named
  <2> QED
    BY <1>1, <1>2, <2>1
<1>4. Min(own) \in own
  BY <1>3, LeastNumber
<1>5. R!tool_find(name) = IF Min(own) = 0 THEN R!NoTool ELSE R!Registry[Min(own)]
  <2>1. R!SelectInSeq(R!Registry, LAMBDA t : t.name = name) = Min(own)
    BY <1>3 DEF R!SelectInSeq, R!Min, Min
  <2> HIDE DEF name
  <2> QED
    BY <2>1 DEF R!tool_find
<1>6. Min(own) \in 1..Len(R!Registry) /\ Min(own) # 0
  <2>1. Len(R!Registry) \in Nat
    BY RegistryNamed DEF Named
  <2> QED
    BY <1>4, <2>1
<1>7. R!tool_find(name).name # "none"
  BY <1>2, <1>5, <1>6
<1>8. R!NoTool.name = "none"
  BY DEF R!NoTool, R!Tool
<1> QED
  BY <1>1, <1>7, <1>8

-----------------------------------------------------------------------------
(* Replies, and the tools they ask for.                                    *)

\* The window while the tools have been run, as it is sent.
LEMMA RanIsSent ==
  ASSUME ReplyInv, part = "provider"
  PROVE  R!SentAsStored
<1> SUFFICES ASSUME phase = "ran"
             PROVE  /\ R!ResultsFollow(R!Body.messages)
                    /\ \E i \in DOMAIN R!Body.messages :
                         LET sent == R!Body.messages[i]
                         IN  /\ Len(sent.calls) = Len(ran)
                             /\ sent.content = "text"
                                  <=> reply.kind = "message" /\ reply.content = "text"
                             /\ \A k \in DOMAIN ran :
                                  LET asked == R!AskedFor[ran[k].of]
                                  IN  /\ sent.calls[k].name = asked.name
                                      /\ asked.args # "broken" =>
                                           (sent.calls[k].args[2] = "json"
                                              <=> asked.args # "none")
                    /\ \A i \in DOMAIN R!Body.tools : R!tool_find(R!Body.tools[i]) # R!NoTool
  BY DEF R!SentAsStored
<1> DEFINE calls == response.calls
           w     == R!Window
           m     == R!Body.messages
           f     == [k \in DOMAIN calls |->
                       R!StoredMessage("tool", "text", calls[k].id, calls[k].name, <<>>)]
           said  == R!strip_think_tags(response.content)
           third == R!StoredMessage("assistant", said, R!NoId, "none", calls)
<1>1. calls # <<>> /\ Answered /\ RanAll /\ TakenFrom(calls, R!AskedFor)
  BY DEF ReplyInv, Answered
<1>2. PICK n \in Nat : DOMAIN calls = 1..n /\ calls = [k \in 1..n |-> calls[k]]
  BY <1>1 DEF TakenFrom, Listed
<1>3. w = <<R!StoredMessage("system", "text", R!NoId, "none", <<>>),
            R!StoredMessage("user", "text", R!NoId, "none", <<>>)>> \o (<<third>> \o f)
  BY DEF R!Window, R!Added
<1>4. DOMAIN f = 1..n /\ f = [k \in DOMAIN f |-> f[k]]
  BY <1>2
<1>5. m = [i \in DOMAIN w |-> R!SentMessage(w[i])] /\ R!Body.tools = R!tool_generate_json
  BY DEF R!Body, R!build_messages_json
<1>6. \A k \in 1..n : f[k].role = "tool" /\ f[k].id = calls[k].id /\ f[k].calls = <<>>
  BY <1>2 DEF R!StoredMessage
<1>7. third.role = "assistant" /\ third.content = said /\ third.calls = calls
  BY DEF R!StoredMessage
<1> HIDE DEF w, f, said, third, m, calls
<1>8. /\ DOMAIN w = 1..(n + 3)
      /\ w[1] = R!StoredMessage("system", "text", R!NoId, "none", <<>>)
      /\ w[2] = R!StoredMessage("user", "text", R!NoId, "none", <<>>)
      /\ w[3] = third
      /\ \A k \in 1..n : w[3 + k] = f[k]
  BY <1>3, <1>4, BehindIt
<1>9. w[1].calls = <<>> /\ w[2].calls = <<>>
  BY <1>8 DEF R!StoredMessage
<1>10. \A i \in 1..(n + 3) :
         /\ m[i].role = w[i].role
         /\ w[i].role = "tool" => m[i].id = w[i].id
         /\ m[i].calls = [k \in DOMAIN w[i].calls |-> R!SentCall(w[i].calls[k])]
  BY <1>5, <1>8 DEF R!SentMessage
<1>11. DOMAIN m = 1..(n + 3)
  BY <1>5, <1>8
<1>12. \A k \in 1..n : 3 + k \in 1..(n + 3) /\ m[3 + k].role = "tool" /\ m[3 + k].id = calls[k].id
  <2> TAKE k \in 1..n
  <2>1. 3 + k \in 1..(n + 3)
    OBVIOUS
  <2> QED
    BY <1>6, <1>8, <1>10, <2>1, ZenonT(60)
<1>13. m[3].calls = [k \in 1..n |-> R!SentCall(calls[k])]
  <2>1. 3 \in 1..(n + 3) /\ w[3].calls = calls
    BY <1>7, <1>8
  <2>2. m[3].calls = [k \in DOMAIN w[3].calls |-> R!SentCall(w[3].calls[k])]
    BY <1>10, <2>1, ZenonT(60)
  <2>3. m[3].calls = [k \in DOMAIN calls |-> R!SentCall(calls[k])]
    BY <2>1, <2>2, ZenonT(60)
  <2> QED
    BY <1>2, <2>3, ZenonT(60)
<1>14. R!ResultsFollow(m)
  <2> SUFFICES ASSUME NEW i \in 1..(n + 3), NEW k \in DOMAIN m[i].calls
               PROVE  i + k \in 1..(n + 3) /\ m[i + k].role = "tool" /\ m[i + k].id = m[i].calls[k].id
    BY <1>11 DEF R!ResultsFollow
  <2>1. i \in {1, 2} \/ i = 3 \/ \E j \in 1..n : i = 3 + j
    <3>1. i > 3 => i - 3 \in 1..n /\ i = 3 + (i - 3)
      OBVIOUS
    <3> QED
      BY <3>1
  <2>2. i = 3
    <3>1. DOMAIN m[i].calls = DOMAIN w[i].calls
      BY <1>10
    <3>2. \A j \in 1..n : w[3 + j].calls = <<>>
      BY <1>6, <1>8
    <3>3. w[i].calls = <<>> => DOMAIN m[i].calls = {}
      BY <3>1
    <3> QED
      BY <1>9, <2>1, <3>2, <3>3
  <2>3. k \in 1..n /\ m[3].calls[k].id = calls[k].id
    BY <1>13, <2>2 DEF R!SentCall
  <2> QED
    BY <1>12, <2>2, <2>3
<1>15. Len(m[3].calls) = Len(ran)
  <2>1. DOMAIN ran = 1..n
    BY <1>1, <1>2 DEF RanAll, calls
  <2>2. \E j \in Nat : DOMAIN ran = 1..j /\ ran = [k \in 1..j |-> ran[k]]
    BY <1>1 DEF RanAll, Listed
  <2>3. ran = [k \in 1..n |-> ran[k]]
    BY <2>1, <2>2
  <2>4. Len([k \in 1..n |-> ran[k]]) = n /\ Len([k \in 1..n |-> R!SentCall(calls[k])]) = n
    OBVIOUS
  <2> QED
    BY <1>13, <2>3, <2>4
<1>16. m[3].content = "text" <=> reply.kind = "message" /\ reply.content = "text"
  <2>1. m[3].content = "text" <=> said = "text"
    BY <1>5, <1>7, <1>8, <1>11 DEF R!SentMessage
  <2>2. said = "text" <=> response.content = "text"
    BY DEF said, R!strip_think_tags
  <2> QED
    BY <1>1, <2>1, <2>2 DEF Answered, SaysAs
<1>17. ASSUME NEW k \in DOMAIN ran
       PROVE  /\ m[3].calls[k].name = R!AskedFor[ran[k].of].name
              /\ R!AskedFor[ran[k].of].args # "broken" =>
                   (m[3].calls[k].args[2] = "json" <=> R!AskedFor[ran[k].of].args # "none")
  <2> DEFINE asked == R!AskedFor[ran[k].of]
  <2>1. k \in 1..n /\ ran[k].of = calls[k].of
    BY <1>1, <1>2 DEF RanAll, calls
  <2>2. asked.args \in R!Arguments /\ calls[k].args = R!Encoded(asked.args) /\ calls[k].name = asked.name
    BY <1>1, <1>2, <2>1 DEF TakenFrom
  <2>3. /\ m[3].calls[k].name = calls[k].name
        /\ m[3].calls[k].args = R!SentArguments(calls[k].args)
    BY <1>13, <2>1 DEF R!SentCall
  <2> HIDE DEF asked
  <2>4. asked.args # "broken" => (m[3].calls[k].args[2] = "json" <=> asked.args # "none")
    BY <2>2, <2>3, ArgumentsSent
  <2> QED
    BY <2>2, <2>3, <2>4 DEF asked
<1>18. \A i \in DOMAIN R!Body.tools : R!tool_find(R!Body.tools[i]) # R!NoTool
  BY <1>5, OfferedIsFound
<1>19. 3 \in DOMAIN m
  BY <1>11
<1> QED
  BY <1>14, <1>15, <1>16, <1>17, <1>18, <1>19 DEF m

\* What is run is what the model has asked for, whichever the provider and however many
\* calls a reply has.
THEOREM RunsAsAsked == ProviderBounds => (MCSpec => []RunsWhatWasAsked)
<1> SUFFICES ASSUME ProviderBounds
             PROVE  MCSpec => []RunsWhatWasAsked
  OBVIOUS
<1>1. ReplyInv => RunsWhatWasAsked
  BY DEF ReplyInv, RunsWhatWasAsked
<1> QED
  BY <1>1, InitReply, NextReply, PTL DEF MCSpec

\* The next request tells what was said and run, whichever the provider and however many
\* calls a reply has, and offers no tool that cannot be found, however few the registry
\* holds.
THEOREM SentIsAsStored == ProviderBounds => (MCSpec => []SentAsStored)
<1> SUFFICES ASSUME ProviderBounds
             PROVE  MCSpec => []SentAsStored
  OBVIOUS
<1>1. ReplyInv => SentAsStored
  BY RanIsSent DEF SentAsStored
<1> QED
  BY <1>1, InitReply, NextReply, PTL DEF MCSpec

\* An id the program gives is not one it has given before, nor given twice in a reply.
THEOREM IdsAreFresh == ProviderBounds => (MCSpec => IdsFresh)
<1> SUFFICES ASSUME ProviderBounds
             PROVE  MCSpec => IdsFresh
  OBVIOUS
<1>1. ReplyInv /\ [MCNext]_all =>
        [\A j, k \in DOMAIN response'.calls :
           (phase = "idle" /\ phase' = "received" /\ response'.calls[k].id[1] = "counter") =>
             /\ response'.calls[k].id[2] \in (counter + 1)..counter'
             /\ response'.calls[j].id = response'.calls[k].id => j = k]_(R!provider)
  <2> SUFFICES ASSUME ReplyInv, MCNext, part = "provider", R!Next, phase = "idle",
                      phase' = "received"
               PROVE  \A j, k \in DOMAIN response'.calls :
                        response'.calls[k].id[1] = "counter" =>
                          /\ response'.calls[k].id[2] \in (counter + 1)..counter'
                          /\ response'.calls[j].id = response'.calls[k].id => j = k
    BY DEF MCNext, all, provider, R!provider
  <2>1. R!Chat
    BY DEF R!Next, R!RunTools, R!Continue
  <2>2. counter \in Nat
    BY DEF ReplyInv
  <2> QED
    BY <2>1, <2>2, ChatTakes
<1> QED
  BY <1>1, InitReply, NextReply, PTL DEF MCSpec, IdsFresh, R!IdsFresh

-----------------------------------------------------------------------------
(* Texts.                                                                  *)

\* What FilesProofs says of a table of settings is said of the one read here.
LEMMA TableAsThere ==
  /\ FP!S!Unset = S!Unset /\ FP!S!Empty = S!Empty /\ FP!S!Default = S!Default
  /\ \A T : FP!S!Min(T) = S!Min(T) /\ FP!S!Max(T) = S!Max(T)
  /\ \A T : FP!S!Cardinality(T) = S!Cardinality(T)
  /\ \A t, key : FP!S!Positions(t, key) = S!Positions(t, key)
  /\ \A conf : FP!S!config_load(conf) = S!config_load(conf)
  /\ \A t, key : FP!S!config_get(t, key) = S!config_get(t, key)
<1>1. FP!S!Unset = S!Unset /\ FP!S!Empty = S!Empty /\ FP!S!Default = S!Default
  BY DEF FP!S!Unset, S!Unset, FP!S!Empty, S!Empty, FP!S!Default, S!Default
<1>2. \A T : FP!S!Min(T) = S!Min(T) /\ FP!S!Max(T) = S!Max(T)
  BY Zenon DEF FP!S!Min, S!Min, FP!S!Max, S!Max
<1>3. \A T : FP!S!Cardinality(T) = S!Cardinality(T)
  BY Zenon DEF FP!S!Cardinality, S!Cardinality
<1>4. \A t, key : FP!S!Positions(t, key) = S!Positions(t, key)
  BY Zenon DEF FP!S!Positions, S!Positions
<1>5. \A conf : FP!S!config_load(conf) = S!config_load(conf)
  BY Zenon DEF FP!S!config_load, S!config_load, FP!S!config_set, S!config_set, FP!S!Positions,
         S!Positions, FP!S!Min, S!Min, FP!S!FoldLeft, S!FoldLeft, FP!S!MapThenFoldSet,
         S!MapThenFoldSet, FP!S!Max, S!Max
<1>6. \A t, key : FP!S!config_get(t, key) = S!config_get(t, key)
  BY Zenon DEF FP!S!config_get, S!config_get, FP!S!Default, S!Default, FP!S!Positions,
         S!Positions, FP!S!Min, S!Min
<1> QED
  BY <1>1, <1>2, <1>3, <1>4, <1>5, <1>6

\* The same of a setting.
LEMMA SettingAsThere ==
  ASSUME NEW key, NEW shell, NEW env, NEW conf
  PROVE  FP!S!InPriority(key, shell, env, conf) <=> S!InPriority(key, shell, env, conf)
<1>1. FP!S!Setting(key, shell, env, conf) = S!Setting(key, shell, env, conf)
  <2>1. FP!S!env_load(shell, key, env) = S!env_load(shell, key, env)
    BY TableAsThere, Zenon DEF FP!S!env_load, S!env_load
  <2>2. \A v, t : FP!S!env_or_cfg(v, key, t) = S!env_or_cfg(v, key, t)
    BY TableAsThere DEF FP!S!env_or_cfg, S!env_or_cfg
  <2> QED
    BY <2>1, <2>2, TableAsThere, Zenon DEF FP!S!Setting, S!Setting
<1> QED
  BY <1>1, TableAsThere DEF FP!S!InPriority, S!InPriority

\* The same of the level of the log.
LEMMA LevelAsThere ==
  ASSUME NEW env, NEW flag, NEW conf
  PROVE  FP!S!LevelFromGiven(env, flag, conf) <=> S!LevelFromGiven(env, flag, conf)
<1>1. \A t : FP!S!resolve_log_level(env, flag, t) = S!resolve_log_level(env, flag, t)
  BY TableAsThere DEF FP!S!resolve_log_level, S!resolve_log_level
<1> QED
  BY <1>1, TableAsThere DEF FP!S!LevelFromGiven, S!LevelFromGiven

\* The same of what is allowed.
LEMMA ListAsThere ==
  ASSUME NEW lines, NEW list, NEW value
  PROVE  FP!A!ByItsPatterns(lines, list, value) <=> A!ByItsPatterns(lines, list, value)
<1>1. FP!A!allowlist_load(lines) = A!allowlist_load(lines)
  BY Zenon DEF FP!A!allowlist_load, A!allowlist_load, FP!A!LoadLine, A!LoadLine,
         FP!A!allowlist_add, A!allowlist_add, FP!A!allowlist_create, A!allowlist_create,
         FP!A!Lists, A!Lists, FP!A!FoldLeft, A!FoldLeft, FP!A!MapThenFoldSet,
         A!MapThenFoldSet, FP!A!Max, A!Max
<1>2. FP!A!PatternsFor(lines, list) = A!PatternsFor(lines, list)
  BY Zenon DEF FP!A!PatternsFor, A!PatternsFor, FP!A!ToSet, A!ToSet, FP!A!Max, A!Max
<1>3. \A p, v : FP!A!fnmatch(p, v) = A!fnmatch(p, v)
  BY SMT DEF FP!A!fnmatch, A!fnmatch
<1>4. FP!A!FirstWord(value) = A!FirstWord(value)
  BY Zenon DEF FP!A!FirstWord, A!FirstWord, FP!A!SelectInSeq, A!SelectInSeq, FP!A!Min, A!Min
<1>5. \A p : FP!A!Permits(list, p, value) <=> A!Permits(list, p, value)
  BY <1>3, <1>4 DEF FP!A!Permits, A!Permits, FP!A!IsPrefix, A!IsPrefix
<1>6. \A al : FP!A!allowlist_check(al, list, value) <=> A!allowlist_check(al, list, value)
  BY <1>5 DEF FP!A!allowlist_check, A!allowlist_check, FP!A!allowlist_is_enabled,
         A!allowlist_is_enabled
<1>7. FP!Total(lines) = A!FoldLeft(LAMBDA n, line : n + Len(line.patterns), 0, lines)
  BY Zenon DEF FP!Total, FP!A!FoldLeft, A!FoldLeft, FP!A!MapThenFoldSet, A!MapThenFoldSet, FP!A!Max,
         A!Max
<1> DEFINE own   == A!PatternsFor(lines, list)
           says  == own = {} \/ \E p \in own : A!Permits(list, p, value)
           total == A!FoldLeft(LAMBDA n, line : n + Len(line.patterns), 0, lines)
           asked == A!allowlist_check(A!allowlist_load(lines), list, value)
<1>8. FP!A!ByItsPatterns(lines, list, value) <=> (FP!Total(lines) <= MaxRules => (asked <=> says))
  BY <1>1, <1>2, <1>5, <1>6, Zenon DEF FP!A!ByItsPatterns, FP!Total
<1>9. A!ByItsPatterns(lines, list, value) <=> (total <= MaxRules => (asked <=> says))
  BY Zenon DEF A!ByItsPatterns
<1> QED
  BY <1>7, <1>8, <1>9, Zenon

\* The same of a device.
LEMMA DeviceAsThere ==
  ASSUME NEW lines, NEW call
  PROVE  FP!D!AsWritten(lines, call) <=> D!AsWritten(lines, call)
<1>1. /\ FP!D!Fields = D!Fields /\ FP!D!Absent = D!Absent /\ FP!D!Blank = D!Blank
      /\ FP!D!Defaults = D!Defaults /\ FP!D!Speeds = D!Speeds
      /\ \A x : FP!D!Header(x) = D!Header(x) /\ FP!D!Error(x) = D!Error(x)
  BY Zenon DEF FP!D!Fields, D!Fields, FP!D!Absent, D!Absent, FP!D!Blank, D!Blank,
         FP!D!Defaults, D!Defaults, FP!D!Speeds, D!Speeds, FP!D!Header, D!Header,
         FP!D!Error, D!Error
<1>2. \A T : /\ FP!D!Min(T) = D!Min(T) /\ FP!D!Max(T) = D!Max(T)
             /\ FP!D!Cardinality(T) = D!Cardinality(T)
  BY Zenon DEF FP!D!Min, D!Min, FP!D!Max, D!Max, FP!D!Cardinality, D!Cardinality
<1>3. FP!D!parse_device_conf(lines) = D!parse_device_conf(lines)
  BY Zenon DEF FP!D!parse_device_conf, D!parse_device_conf, FP!D!ParseLine, D!ParseLine,
         FP!D!Device, D!Device, FP!D!Defaults, D!Defaults, FP!D!Blank, D!Blank,
         FP!D!Fields, D!Fields, FP!D!FoldLeft, D!FoldLeft, FP!D!MapThenFoldSet,
         D!MapThenFoldSet, FP!D!Max, D!Max
<1>4. \A devs, name : FP!D!Places(devs, name) = D!Places(devs, name)
  BY Zenon DEF FP!D!Places, D!Places
<1>5. \A fields, over : FP!D!Overridden(fields, over) = D!Overridden(fields, over)
  BY Zenon DEF FP!D!Overridden, D!Overridden, FP!D!Fields, D!Fields, FP!D!Absent, D!Absent,
         FP!D!Blank, D!Blank
<1>6. FP!D!OwnLines(lines, call.device) = D!OwnLines(lines, call.device)
  BY Zenon DEF FP!D!OwnLines, D!OwnLines, FP!D!Min, D!Min
<1>7. FP!D!Resolved(lines, call) = D!Resolved(lines, call)
  BY <1>1, <1>2, <1>3, <1>4, <1>5 DEF FP!D!Resolved, D!Resolved
<1> DEFINE r        == D!Resolved(lines, call)
           heads    == {i \in DOMAIN lines : lines[i].kind = "header"}
           own(f)   == {i \in D!OwnLines(lines, call.device) : lines[i].key = f}
           given(f) == call.fields[f] # D!Absent /\ (f = "port" => call.fields[f] # D!Blank)
           placed   == D!Cardinality(heads) <= MaxDevices =>
                         (r.error = "no such device" <=>
                            /\ call.device # D!Blank
                            /\ \A i \in DOMAIN lines : lines[i] # D!Header(call.device))
           field(f) == IF given(f) THEN call.fields[f]
                       ELSE IF own(f) # {} THEN lines[D!Max(own(f))].val ELSE D!Defaults[f]
           filled   == r.error = "none" => \A f \in D!Fields : r.fields[f] = field(f)
<1> DEFINE s         == FP!D!Resolved(lines, call)
           theirs(f) == {i \in FP!D!OwnLines(lines, call.device) : lines[i].key = f}
           asked(f)  == call.fields[f] # FP!D!Absent /\ (f = "port" => call.fields[f] # FP!D!Blank)
           there     == FP!D!Cardinality(heads) <= MaxDevices =>
                          (s.error = "no such device" <=>
                             /\ call.device # FP!D!Blank
                             /\ \A i \in DOMAIN lines : lines[i] # FP!D!Header(call.device))
           value(f)  == IF asked(f) THEN call.fields[f]
                        ELSE IF theirs(f) # {} THEN lines[FP!D!Max(theirs(f))].val
                        ELSE FP!D!Defaults[f]
           valued    == s.error = "none" => \A f \in FP!D!Fields : s.fields[f] = value(f)
<1>8. D!AsWritten(lines, call) <=> placed /\ filled
  BY Zenon DEF D!AsWritten
<1>9. FP!D!AsWritten(lines, call) <=> there /\ valued
  BY Zenon DEF FP!D!AsWritten
<1>10. there <=> placed
  <2>1. /\ FP!D!Cardinality(heads) = D!Cardinality(heads)
        /\ FP!D!Header(call.device) = D!Header(call.device)
    BY <1>1, <1>2, Zenon
  <2> HIDE DEF heads
  <2> QED
    BY <1>1, <1>7, <2>1
<1>11. \A f : value(f) = field(f)
  <2> TAKE f
  <2>1. theirs(f) = own(f)
    BY <1>6
  <2>2. FP!D!Max(theirs(f)) = D!Max(own(f))
    BY <1>2, <2>1, Zenon
  <2> HIDE DEF theirs, own
  <2> QED
    BY <1>1, <2>1, <2>2
<1>12. valued <=> filled
  <2> HIDE DEF value, field
  <2> QED
    BY <1>1, <1>7, <1>11
<1> QED
  BY <1>8, <1>9, <1>10, <1>12, Zenon

\* The same of an endpoint.
LEMMA EndpointAsThere ==
  ASSUME NEW conf
  PROVE  FP!E!GoesWhereSet(conf) <=> E!GoesWhereSet(conf)
<1>1. /\ FP!E!Unset = E!Unset /\ FP!E!NoSpec = E!NoSpec /\ FP!E!Refused = E!Refused
      /\ FP!E!Providers = E!Providers /\ \A x : FP!E!Url(x) = E!Url(x)
  BY Zenon DEF FP!E!Unset, E!Unset, FP!E!NoSpec, E!NoSpec, FP!E!Refused, E!Refused,
         FP!E!Providers, E!Providers, FP!E!Url, E!Url, FP!E!Key, E!Key, FP!E!Spec,
         E!Spec
<1>2. \A T : FP!E!Min(T) = E!Min(T)
  BY Zenon DEF FP!E!Min, E!Min
<1>3. \A name : FP!E!registry_find_by_name(name) = E!registry_find_by_name(name)
  BY Zenon DEF FP!E!registry_find_by_name, E!registry_find_by_name, FP!E!First, E!First,
         FP!E!SelectInSeq, E!SelectInSeq, FP!E!Min, E!Min, FP!E!NoSpec, E!NoSpec,
         FP!E!Providers, E!Providers, FP!E!Spec, E!Spec, FP!E!Key, E!Key
<1>4. \A key, url : FP!E!registry_detect(key, url) = E!registry_detect(key, url)
  BY Zenon DEF FP!E!registry_detect, E!registry_detect, FP!E!First, E!First, FP!E!SelectInSeq,
         E!SelectInSeq, FP!E!Min, E!Min, FP!E!NoSpec, E!NoSpec, FP!E!Providers,
         E!Providers, FP!E!Spec, E!Spec, FP!E!Key, E!Key, FP!E!Url, E!Url
<1>5. \A spec, url : FP!E!registry_resolve_url(spec, url) = E!registry_resolve_url(spec, url)
  BY <1>1, Zenon DEF FP!E!registry_resolve_url, E!registry_resolve_url
<1>6. \A name, url, key, env :
        FP!E!openai_create(name, url, key, env) = E!openai_create(name, url, key, env)
  BY <1>1, <1>3, <1>4, <1>5 DEF FP!E!openai_create, E!openai_create
<1>7. FP!E!OllamaUrl(conf) = E!OllamaUrl(conf)
  BY <1>1 DEF FP!E!OllamaUrl, E!OllamaUrl
<1>8. FP!E!Boot(conf) = E!Boot(conf)
  BY <1>1, <1>4, <1>6, <1>7 DEF FP!E!Boot, E!Boot
<1> QED
  BY <1>1, <1>2, <1>8 DEF FP!E!GoesWhereSet, E!GoesWhereSet

\* What is read stays what it is, and each kind of text is of its own sort.
TextInv ==
  /\ input.kind = "setting" => input.of \in Sources
  /\ input.kind = "level" => input.of \in Levels
  /\ input.kind = "allowed" => input.of \in Asked
  /\ input.kind = "device" => input.of \in DeviceCalls

\* A file has a number of lines.
LEMMA FileOfLines ==
  ASSUME NEW T, NEW max \in Nat, NEW s \in BoundedSeq(T, max)
  PROVE  \E n \in Nat : s \in [1..n -> T]
BY DEF BoundedSeq, SeqOf

TextBounds == MaxEntries \in Nat /\ MaxRules \in Nat /\ MaxDevices \in Nat

\* A setting comes from the shell, .env and config.conf in that order.
LEMMA SettingsRead ==
  ASSUME MaxEntries \in Nat, NEW of \in Sources
  PROVE  S!InPriority("key", of.shell, of.env, of.conf)
<1> DEFINE N == {S!Line("key", S!Empty), S!Line("key", "b"), S!Line("other", "b")}
           T == {S!Line(k, v) : k \in Keys, v \in {S!Empty, "c"}}
<1>1. of.env \in BoundedSeq(N, 2) /\ of.conf \in BoundedSeq(T, 4)
  BY DEF Sources
<1>2. \A line \in N : line.val # FP!S!Unset
  BY DEF S!Line, S!Empty, FP!S!Unset
<1> HIDE DEF N, T
<1>3. PICK m \in Nat : of.env \in [1..m -> N]
  BY <1>1, FileOfLines
<1>4. PICK n \in Nat : of.conf \in [1..n -> T]
  BY <1>1, FileOfLines
<1>5. of.env \in Seq(N)
  BY <1>3
<1> QED
  BY <1>2, <1>4, <1>5, FP!SettingInPriority, SettingAsThere

\* The level of the log comes from the environment, the flag or config.conf.
LEMMA LevelsRead ==
  ASSUME MaxEntries \in Nat, NEW of \in Levels
  PROVE  S!LevelFromGiven(of.env, of.flag, of.conf)
<1> DEFINE T == {S!Line(k, v) : k \in {"level", "other"}, v \in {S!Empty, "error"}}
<1>1. of.conf \in BoundedSeq(T, 3)
  BY DEF Levels
<1> HIDE DEF T
<1>2. PICK n \in Nat : of.conf \in [1..n -> T]
  BY <1>1, FileOfLines
<1> QED
  BY <1>2, FP!LevelFollows, LevelAsThere

\* What allowlist.conf allows is what its patterns match.
LEMMA ListsRead ==
  ASSUME MaxRules \in Nat, NEW of \in Asked
  PROVE  A!ByItsPatterns(of.file, of.list, of.value)
<1> DEFINE pats == {<<"a">>, <<"b">>, <<"*", "b">>, <<>>, <<"a", " ", "*">>}
           T == {A!Section(l) : l \in A!Lists}
                  \cup {A!Allow(<<p>>) : p \in {<<"a">>, <<"b">>, <<"*", "b">>}}
                  \cup {A!Allow(<<<<"b">>, <<>>, <<"a", " ", "*">>>>), A!OtherLine}
<1>1. of.list \in A!Lists /\ of.file \in BoundedSeq(T, 3)
  BY DEF Asked
<1>2. /\ FP!A!Lists = A!Lists /\ FP!A!OtherLine = A!OtherLine
      /\ \A l : FP!A!Section(l) = A!Section(l)
      /\ \A s : FP!A!Allow(s) = A!Allow(s)
  BY DEF FP!A!Lists, A!Lists, FP!A!OtherLine, A!OtherLine, FP!A!Section, A!Section,
         FP!A!Allow, A!Allow
<1>3. T \subseteq FP!AllowLines(pats)
  <2>1. <<<<"b">>, <<>>, <<"a", " ", "*">>>> \in Seq(pats)
    <3> DEFINE x == <<"b">>
               y == <<"a", " ", "*">>
               e == <<>>
    <3>1. x \in pats /\ y \in pats /\ e \in pats
      OBVIOUS
    <3> HIDE DEF x, y, e, pats
    <3>2. <<x, e, y>> \in Seq(pats)
      BY <3>1
    <3> QED
      BY <3>2 DEF x, y, e
  <2>2. \A p \in {<<"a">>, <<"b">>, <<"*", "b">>} : <<p>> \in Seq(pats)
    <3>1. \A p \in {<<"a">>, <<"b">>, <<"*", "b">>} : p \in pats
      OBVIOUS
    <3> HIDE DEF pats
    <3>2. \A p \in pats : <<p>> \in Seq(pats)
      OBVIOUS
    <3> QED
      BY <3>1, <3>2
  <2> HIDE DEF pats
  <2>3. A!Allow(<<<<"b">>, <<>>, <<"a", " ", "*">>>>) \in FP!AllowLines(pats)
    BY <1>2, <2>1 DEF FP!AllowLines
  <2>4. \A p \in {<<"a">>, <<"b">>, <<"*", "b">>} : A!Allow(<<p>>) \in FP!AllowLines(pats)
    BY <1>2, <2>2 DEF FP!AllowLines
  <2>5. A!OtherLine \in FP!AllowLines(pats) /\ \A l \in A!Lists : A!Section(l) \in FP!AllowLines(pats)
    BY <1>2 DEF FP!AllowLines
  <2> QED
    BY <2>3, <2>4, <2>5
<1> HIDE DEF T, pats
<1>4. PICK n \in Nat : of.file \in [1..n -> T]
  BY <1>1, FileOfLines
<1>5. of.file \in [1..n -> FP!AllowLines(pats)]
  BY <1>3, <1>4
<1> QED
  BY <1>1, <1>5, <1>2, FP!AllowedByPatterns, ListAsThere

\* The device a call names is as its section says, and as the call says.
LEMMA DevicesRead ==
  ASSUME MaxDevices \in Nat, NEW of \in DeviceCalls
  PROVE  D!AsWritten(of.file, of.call)
<1> DEFINE names == {"a", "b"}
           keys  == {"port", "username", "prompt"}
           vals  == {"p", "u", D!Blank}
           T     == {D!Header("a"), D!Header("b"), D!OpenHeader("b"), D!Key("port", "p"),
                     D!Key("username", "u"), D!Key("prompt", D!Blank)}
<1>1. of.file \in BoundedSeq(T, 4)
  BY DEF DeviceCalls
<1>2. /\ \A x : FP!D!Header(x) = D!Header(x) /\ FP!D!OpenHeader(x) = D!OpenHeader(x)
      /\ \A k, v : FP!D!Key(k, v) = D!Key(k, v)
  BY DEF FP!D!Header, D!Header, FP!D!OpenHeader, D!OpenHeader, FP!D!Key, D!Key
<1>3. T \subseteq FP!ConfLines(names, keys, vals)
  BY <1>2 DEF FP!ConfLines
<1>4. FP!D!Blank \notin names
  BY DEF FP!D!Blank
<1> HIDE DEF T, names, keys, vals
<1>5. PICK n \in Nat : of.file \in [1..n -> T]
  BY <1>1, FileOfLines
<1>6. of.file \in [1..n -> FP!ConfLines(names, keys, vals)]
  BY <1>3, <1>5
<1> QED
  BY <1>4, <1>6, FP!GoesByWhatIsWritten, DeviceAsThere

\* What boot and the tools go by is what their files, variables and arguments say, with
\* the priority each of Settings, Allowlist, Devices and Endpoint states: it holds of each
\* text the runs read, whatever there is room for in the tables.
\* Of files of any length it holds by SettingInPriority, LevelFollows, AllowedByPatterns,
\* GoesByWhatIsWritten and GoesWhereItIsSet.
THEOREM TextsAreRead == TextBounds => (MCSpec => []ReadAsConfigured)
<1> SUFFICES ASSUME TextBounds
             PROVE  MCSpec => []ReadAsConfigured
  OBVIOUS
<1>1. MCInit => TextInv
  <2>1. ASSUME input \in Texts
        PROVE  TextInv
    BY <2>1 DEF Texts, TextInv
  <2>2. ASSUME input = Nothing
        PROVE  TextInv
    BY <2>2 DEF Nothing, TextInv
  <2> QED
    BY <2>1, <2>2 DEF MCInit
<1>2. TextInv /\ [MCNext]_all => TextInv'
  BY DEF MCNext, all, TextInv
<1>3. TextInv => ReadAsConfigured
  BY SettingsRead, LevelsRead, ListsRead, DevicesRead, FP!GoesWhereItIsSet, EndpointAsThere
     DEF TextInv, TextBounds, ReadAsConfigured
<1> QED
  BY <1>1, <1>2, <1>3, PTL DEF MCSpec
===============================================================================
