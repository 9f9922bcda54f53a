----------------------------- MODULE SerialProofs ------------------------------
(***************************************************************************)
(* Proofs about module Serial, for every profile, every number of commands *)
(* but none (a call without commands is refused), and every capacity of    *)
(* the buffer and of the line.                                             *)
(***************************************************************************)
EXTENDS Serial, TLAPS

Tokens ==
  [kind : {"prompt", "login", "password", "text", "echo"}, cmd : Nat, hash : BOOLEAN]

SetUp ==
  /\ Commands \in Nat \ {0}
  /\ MaxBuffer \in Nat
  /\ Leftovers \subseteq Seq(Tokens)

Answers == {"ok", "timeout", "error"}

Outputs == UNION {[ks -> Tokens] : ks \in SUBSET Nat}

Results ==
  [status : Answers \cup {"sent"}, output : Outputs,
   at : {"none", "login", "password", "shell"}]

TypeInv ==
  /\ cmd \in 1..Commands
  /\ buf \in Seq(Tokens) /\ rx \in Seq(Tokens) /\ todo \in Seq(Tokens)
  /\ results \in Seq(Results)
  /\ device \in {"login", "password", "shell"}

LoggingIn == {"login", "username", "password", "secret", "prompt"}

\* A command is answered before the next one is sent, and a port is open in between.
CountInv ==
  /\ tool \in {"idle", "opened"} \cup LoggingIn => cmd = 1 /\ Len(results) = 0
  /\ tool = "send" => Len(results) = cmd - 1
  /\ tool = "await" => Len(results) = cmd
  /\ tool = "close" => status = "login_failed" \/ Len(results) = Commands
  /\ tool = "done" /\ status = "ok" =>
       Len(results) = Commands /\ \A i \in 1..Len(results) : results[i].status = "ok"
  /\ tool \notin {"close", "done"} => status = "none"
  /\ tool \in {"idle", "done"} => port = "closed"
  /\ \A i \in 1..Len(results) :
       results[i].status \in Answers \/ (tool = "await" /\ i = cmd)

\* What one read leaves in the buffer when n tokens have arrived.
Got(n)  == buf \o SubSeq(rx, 1, n)
Kept(n) == SubSeq(Got(n), 1, Min({Len(Got(n)), MaxBuffer}))

-----------------------------------------------------------------------------
(* Types.                                                                  *)

\* What is sent and what comes back are tokens.
LEMMA AnswerType ==
  ASSUME SetUp, device \in {"login", "password", "shell"}, NEW l
  PROVE  /\ Answer(l) \in Seq(Tokens)
         /\ Becomes(l) \in {"login", "password", "shell"}
<1>1. \A i \in Nat : Echo(i) \in Tokens /\ Text(i) \in Tokens /\ Hash(i) \in Tokens
  BY DEF Echo, Text, Hash, Token, Tokens
<1>2. {Prompt, Login, Password, Failed} \subseteq Tokens
  BY DEF Prompt, Login, Password, Failed, Token, Tokens
<1>3. LoginPrompt \in Seq(Tokens)
  <2>1. <<Hash(0)>> \in Seq(Tokens) /\ <<>> \in Seq(Tokens) /\ <<Login>> \in Seq(Tokens)
    BY <1>1, <1>2
  <2> QED
    BY <2>1 DEF LoginPrompt
<1>4. <<Prompt>> \in Seq(Tokens) /\ <<Password>> \in Seq(Tokens) /\ <<Failed>> \in Seq(Tokens)
  BY <1>2
<1>5. ASSUME l \in 1..Commands
      PROVE  <<Echo(l)>> \o Output(l) \o <<Prompt>> \in Seq(Tokens)
  <2>1. l \in Nat
    BY <1>5 DEF SetUp
  <2>2. <<Echo(l)>> \in Seq(Tokens) /\ Output(l) \in Seq(Tokens)
    BY <1>1, <2>1 DEF Output
  <2> QED
    BY <1>4, <2>2
<1>6. Answer(l) \in Seq(Tokens)
  <2>1. CASE device = "login"
    BY <1>3, <1>4, <2>1 DEF Answer
  <2>2. CASE device = "password"
    BY <1>3, <1>4, <2>2 DEF Answer
  <2>3. CASE device = "shell"
    BY <1>4, <1>5, <2>3 DEF Answer
  <2> QED
    BY <2>1, <2>2, <2>3
<1> QED
  BY <1>6 DEF Becomes

\* Typing a line keeps the types.
LEMMA TypeKeeps ==
  ASSUME SetUp, TypeInv, NEW l, TypeBlindly(l)
  PROVE  todo' \in Seq(Tokens) /\ device' \in {"login", "password", "shell"}
<1>1. /\ todo \in Seq(Tokens) /\ device \in {"login", "password", "shell"}
      /\ Answer(l) \in Seq(Tokens) /\ Becomes(l) \in {"login", "password", "shell"}
  BY AnswerType DEF TypeInv
<1>2. todo \o Answer(l) \in Seq(Tokens)
  BY <1>1
<1> QED
  BY <1>1, <1>2 DEF TypeBlindly, Type

\* What a read keeps is a beginning of what it has got, cut off at most at the cap.
LEMMA ReadKeeps ==
  ASSUME SetUp, buf \in Seq(Tokens), rx \in Seq(Tokens), NEW n \in 1..Len(rx)
  PROVE  /\ Got(n) \in Seq(Tokens) /\ Kept(n) \in Seq(Tokens)
         /\ Len(Got(n)) = Len(buf) + n
         /\ \A k \in 1..Len(buf) : Got(n)[k] = buf[k]
         /\ \A k \in 1..n : Got(n)[Len(buf) + k] = rx[k]
         /\ Len(Kept(n)) <= Len(Got(n)) /\ Len(Kept(n)) <= MaxBuffer
         /\ Len(Kept(n)) = Len(Got(n)) \/ Len(Kept(n)) = MaxBuffer
         /\ \A k \in 1..Len(Kept(n)) : Kept(n)[k] = Got(n)[k]
<1>0. Len(buf) \in Nat /\ Len(rx) \in Nat /\ n \in Nat /\ MaxBuffer \in Nat
  BY DEF SetUp
<1>1. /\ SubSeq(rx, 1, n) \in Seq(Tokens) /\ Len(SubSeq(rx, 1, n)) = n
      /\ \A k \in 1..n : SubSeq(rx, 1, n)[k] = rx[k]
  BY <1>0
<1>2. /\ Got(n) \in Seq(Tokens) /\ Len(Got(n)) = Len(buf) + n
      /\ \A k \in 1..Len(buf) : Got(n)[k] = buf[k]
      /\ \A k \in 1..n : Got(n)[Len(buf) + k] = rx[k]
  BY <1>0, <1>1, SMTT(60) DEF Got
<1> DEFINE g == Got(n)
           m == Min({Len(g), MaxBuffer})
<1> HIDE DEF g
<1>3. /\ m \in 0..Len(g) /\ m <= MaxBuffer /\ (m = Len(g) \/ m = MaxBuffer)
  <2>1. \A x, y \in Nat : Min({x, y}) = IF x <= y THEN x ELSE y
    BY DEF Min
  <2>2. Len(g) \in Nat
    BY <1>0, <1>2 DEF g
  <2>3. m = IF Len(g) <= MaxBuffer THEN Len(g) ELSE MaxBuffer
    BY <1>0, <2>1, <2>2
  <2> QED
    BY <1>0, <2>2, <2>3
<1> HIDE DEF m
<1>4. g \in Seq(Tokens)
  BY <1>2 DEF g
<1>5. /\ SubSeq(g, 1, m) \in Seq(Tokens) /\ Len(SubSeq(g, 1, m)) = m
      /\ \A k \in 1..m : SubSeq(g, 1, m)[k] = g[k]
  BY <1>3, <1>4
<1>6. Kept(n) = SubSeq(g, 1, m)
  BY DEF Kept, g, m
<1>7. m <= Len(g)
  BY <1>3, <1>4
<1> QED
  BY <1>2, <1>3, <1>5, <1>6, <1>7 DEF g

\* What is left of the output of a command is of the type of its result.
LEMMA ReportType ==
  ASSUME SetUp, TypeInv, NEW s \in Answers, NEW b \in Seq(Tokens), Report(s, b)
  PROVE  /\ results' \in Seq(Results) /\ Len(results') = Len(results)
         /\ cmd' \in 1..Commands
         /\ \A i \in 1..Len(results) : i # cmd => results'[i] = results[i]
         /\ cmd \in 1..Len(results) =>
              /\ results'[cmd].status = s
              /\ results'[cmd].at = results[cmd].at
              /\ results'[cmd].output = Cleaned(b)
         /\ \/ cmd < Commands /\ tool' = "send" /\ cmd' = cmd + 1
            \/ cmd = Commands /\ tool' = "close" /\ cmd' = cmd
<1>1. Cleaned(b) \in Outputs
  <2> DEFINE firstEcho(k) == b[k] = Echo(cmd) /\ \A j \in 1..(k - 1) : b[j] # Echo(cmd)
             K == {k \in DOMAIN b : b[k] # Prompt /\ ~firstEcho(k)}
  <2>1. K \in SUBSET Nat
    BY DEF K
  <2>2. [k \in K |-> b[k]] \in [K -> Tokens]
    BY DEF K
  <2>3. Cleaned(b) = [k \in K |-> b[k]]
    BY DEF Cleaned
  <2> HIDE DEF K
  <2> QED
    BY <2>1, <2>2, <2>3 DEF Outputs
<1>2. results' = [results EXCEPT ![cmd].status = s, ![cmd].output = Cleaned(b)]
  BY DEF Report
<1>3. results \in Seq(Results) /\ cmd \in 1..Commands /\ Commands \in Nat
  BY DEF TypeInv, SetUp
<1> DEFINE o == Cleaned(b)
<1> HIDE DEF o
<1>4. /\ results' \in Seq(Results) /\ Len(results') = Len(results)
      /\ \A i \in 1..Len(results) : i # cmd => results'[i] = results[i]
      /\ cmd \in 1..Len(results) =>
           /\ results'[cmd].status = s
           /\ results'[cmd].at = results[cmd].at
           /\ results'[cmd].output = o
  <2>1. results' = [results EXCEPT ![cmd].status = s, ![cmd].output = o]
    BY <1>2 DEF o
  <2>2. o \in Outputs
    BY <1>1 DEF o
  <2>3. CASE cmd \in 1..Len(results)
    <3> DEFINE r == [results[cmd] EXCEPT !.status = s, !.output = o]
    <3>1. results[cmd] \in Results
      BY <1>3, <2>3
    <3>2. /\ r \in Results
          /\ r.status = s /\ r.at = results[cmd].at /\ r.output = o
      BY <2>2, <3>1 DEF Results
    <3>3. results' = [results EXCEPT ![cmd] = r]
      BY <1>3, <2>1, <2>3
    <3> HIDE DEF r
    <3> QED
      BY <1>3, <2>3, <3>2, <3>3
  <2>4. CASE cmd \notin 1..Len(results)
    <3>1. DOMAIN results = 1..Len(results)
      BY <1>3
    <3>2. results' = results
      BY <1>3, <2>1, <2>4, <3>1
    <3> QED
      BY <1>3, <2>4, <3>2
  <2> QED
    BY <2>3, <2>4
<1>5. \/ cmd < Commands /\ tool' = "send" /\ cmd' = cmd + 1
      \/ cmd = Commands /\ tool' = "close" /\ cmd' = cmd
  BY <1>3 DEF Report, Advance
<1> QED
  BY <1>3, <1>4, <1>5 DEF o

\* The record Send adds.
LEMMA SentType ==
  ASSUME SetUp, TypeInv, Send \/ SendFails
  PROVE  \E r \in Results : results' = Append(results, r)
<1>1. \A st \in {"sent", "error"} : \A at \in {"none", "login", "password", "shell"} :
        [status |-> st, output |-> <<>>, at |-> at] \in Results
  <2>1. <<>> \in [{} -> Tokens] /\ {} \in SUBSET Nat
    OBVIOUS
  <2>2. <<>> \in Outputs
    BY <2>1 DEF Outputs
  <2> QED
    BY <2>2 DEF Results, Answers
<1> QED
  BY <1>1 DEF TypeInv, Send, SendFails

\* Every step keeps TypeInv.
LEMMA NextType ==
  ASSUME SetUp, TypeInv, [Next]_vars
  PROVE  TypeInv'
<1>0. /\ cmd \in 1..Commands
      /\ buf \in Seq(Tokens) /\ rx \in Seq(Tokens) /\ todo \in Seq(Tokens)
      /\ results \in Seq(Results)
      /\ device \in {"login", "password", "shell"}
      /\ <<>> \in Seq(Tokens)
  BY DEF TypeInv
<1>1. CASE Refuse \/ Open \/ SkipLogin \/ Close \/ Expire
  BY <1>0, <1>1 DEF Refuse, Open, SkipLogin, Close, Expire, line, fixed, TypeInv
<1>2. CASE Tickle \/ SendUsername \/ SendPassword
  <2>1. PICK l : TypeBlindly(l)
    BY <1>2 DEF Tickle, SendUsername, SendPassword
  <2>2. todo' \in Seq(Tokens) /\ device' \in {"login", "password", "shell"}
    BY <2>1, TypeKeeps
  <2>3. UNCHANGED <<cmd, rx, results>> /\ buf' \in {buf, <<>>}
    BY <1>2 DEF Tickle, SendUsername, SendPassword
  <2> QED
    BY <1>0, <2>2, <2>3 DEF TypeInv
<1>3. CASE Send
  <2>1. todo' \in Seq(Tokens) /\ device' \in {"login", "password", "shell"}
    BY <1>3, TypeKeeps DEF Send, TypeBlindly
  <2>2. results' \in Seq(Results)
    BY <1>0, <1>3, SentType, SMTT(60)
  <2> QED
    BY <1>0, <1>3, <2>1, <2>2 DEF Send, TypeInv
<1>4. CASE SendFails
  <2>1. results' \in Seq(Results)
    BY <1>0, <1>4, SentType, SMTT(60)
  <2>2. cmd' \in 1..Commands
    BY <1>0, <1>4 DEF SendFails, Advance, SetUp
  <2> QED
    BY <1>0, <1>4, <2>1, <2>2 DEF SendFails, TypeInv
<1>5. CASE Read
  <2>1. PICK n \in 1..Len(rx) :
          /\ buf' = Kept(n)
          /\ rx' = SubSeq(rx, n + 1, Len(rx))
          /\ IF ~Matches(Kept(n)) THEN UNCHANGED <<tool, cmd, results>>
             ELSE IF tool = "await" THEN Report("ok", Kept(n))
             ELSE tool' = After(Kept(n)) /\ UNCHANGED <<cmd, results>>
    BY <1>5 DEF Read, Kept, Got
  <2>2. Kept(n) \in Seq(Tokens)
    BY <1>0, ReadKeeps
  <2>3. rx' \in Seq(Tokens)
    <3>1. Len(rx) \in Nat /\ n \in Nat
      BY <1>0
    <3> QED
      BY <1>0, <2>1, <3>1
  <2>4. cmd' \in 1..Commands /\ results' \in Seq(Results)
    <3>1. CASE Report("ok", Kept(n))
      BY <2>2, <3>1, ReportType DEF Answers
    <3>2. CASE UNCHANGED <<cmd, results>>
      BY <1>0, <3>2
    <3> QED
      BY <2>1, <3>1, <3>2
  <2> QED
    BY <1>0, <1>5, <2>1, <2>2, <2>3, <2>4 DEF Read, TypeInv
<1>6. CASE TimeOut
  <2>1. cmd' \in 1..Commands /\ results' \in Seq(Results)
    <3>1. CASE Report("timeout", buf)
      BY <1>0, <3>1, ReportType DEF Answers
    <3>2. CASE UNCHANGED <<cmd, results>>
      BY <1>0, <3>2
    <3> QED
      BY <1>6, <3>1, <3>2 DEF TimeOut
  <2> QED
    BY <1>0, <1>6, <2>1 DEF TimeOut, line, TypeInv
<1>7. CASE Arrive
  BY <1>0, <1>7 DEF Arrive, call, TypeInv
<1>8. CASE Chat
  <2>1. Text(0) \in Tokens
    BY DEF Text, Token, Tokens
  <2> QED
    BY <1>0, <1>8, <2>1 DEF Chat, call, TypeInv
<1>9. CASE UNCHANGED vars
  BY <1>0, <1>9 DEF vars, call, line, TypeInv
<1> QED
  BY <1>1, <1>2, <1>3, <1>4, <1>5, <1>6, <1>7, <1>8, <1>9 DEF Next, Tool

-----------------------------------------------------------------------------
(* The count of the results.                                               *)

\* Going on after the answer to a command, whatever it was.
LEMMA AnswerCounts ==
  ASSUME SetUp, TypeInv, CountInv, port' = port, status' = status, status = "none",
         Len(results') = cmd, results' \in Seq(Results),
         \A i \in 1..cmd : results'[i].status \in Answers,
         \/ cmd < Commands /\ tool' = "send" /\ cmd' = cmd + 1
         \/ cmd = Commands /\ tool' = "close" /\ cmd' = cmd
  PROVE  CountInv'
<1>1. cmd \in Nat /\ Commands \in Nat
  BY DEF TypeInv, SetUp
<1> QED
  BY <1>1 DEF CountInv, LoggingIn

\* Every step keeps CountInv.
LEMMA NextCount ==
  ASSUME SetUp, TypeInv, CountInv, [Next]_vars
  PROVE  CountInv'
<1>0. /\ cmd \in 1..Commands /\ Commands \in Nat /\ results \in Seq(Results)
      /\ Len(results) \in Nat
  BY DEF TypeInv, SetUp
<1>1. CASE Refuse \/ Open \/ SkipLogin \/ Tickle \/ SendUsername \/ SendPassword
  <2>1. UNCHANGED <<cmd, results>>
    BY <1>1 DEF Refuse, Open, SkipLogin, Tickle, SendUsername, SendPassword
  <2>2. \/ tool = "idle" /\ tool' = "done" /\ status' = "error" /\ port' = port
        \/ tool \in {"idle", "opened", "username", "secret"} /\ status' = status
           /\ tool' \in {"opened", "login", "password", "prompt", "secret"}
        \/ tool = "opened" /\ tool' = "send" /\ status' = status
    BY <1>1 DEF Refuse, Open, SkipLogin, Tickle, SendUsername, SendPassword
  <2> QED
    BY <1>0, <2>1, <2>2 DEF CountInv, LoggingIn
<1>2. CASE Send
  <2>1. PICK r \in Results : results' = Append(results, r)
    BY <1>2, SentType
  <2>2. /\ Len(results') = Len(results) + 1
        /\ \A i \in 1..Len(results) : results'[i] = results[i]
    BY <1>0, <2>1
  <2>3. /\ tool = "send" /\ tool' = "await" /\ UNCHANGED <<cmd, port, status>>
    BY <1>2 DEF Send
  <2> QED
    BY <1>0, <2>2, <2>3 DEF CountInv, LoggingIn
<1>3. CASE SendFails
  <2>1. PICK r \in Results : results' = Append(results, r)
    BY <1>3, SentType
  <2>2. /\ Len(results') = Len(results) + 1 /\ results' \in Seq(Results)
        /\ \A i \in 1..Len(results) : results'[i] = results[i]
        /\ results'[Len(results) + 1] = r
    BY <1>0, <2>1
  <2>3. results'[Len(results) + 1].status = "error"
    BY <1>0, <1>3 DEF SendFails
  <2>4. /\ tool = "send" /\ UNCHANGED <<port, status>>
        /\ \/ cmd < Commands /\ tool' = "send" /\ cmd' = cmd + 1
           \/ cmd = Commands /\ tool' = "close" /\ cmd' = cmd
    BY <1>0, <1>3 DEF SendFails, Advance
  <2>5. status = "none" /\ Len(results) = cmd - 1
    BY <2>4 DEF CountInv
  <2>6. Len(results') = cmd
    BY <1>0, <2>2, <2>5
  <2>7. \A i \in 1..cmd : results'[i].status \in Answers
    <3> SUFFICES ASSUME NEW i \in 1..cmd
                 PROVE  results'[i].status \in Answers
      OBVIOUS
    <3>1. CASE i = Len(results) + 1
      BY <2>3, <3>1 DEF Answers
    <3>2. CASE i \in 1..Len(results)
      BY <2>2, <2>4, <3>2 DEF CountInv
    <3> QED
      BY <1>0, <2>5, <3>1, <3>2
  <2> QED
    BY <2>2, <2>4, <2>5, <2>6, <2>7, AnswerCounts
<1>4. ASSUME tool = "await", NEW s \in Answers, NEW b \in Seq(Tokens), Report(s, b),
             UNCHANGED <<port, status>>
      PROVE  CountInv'
  <2>1. status = "none" /\ Len(results) = cmd
    BY <1>4 DEF CountInv
  <2>2. /\ results' \in Seq(Results) /\ Len(results') = Len(results)
        /\ \A i \in 1..Len(results) : i # cmd => results'[i] = results[i]
        /\ cmd \in 1..Len(results) => results'[cmd].status = s
        /\ \/ cmd < Commands /\ tool' = "send" /\ cmd' = cmd + 1
           \/ cmd = Commands /\ tool' = "close" /\ cmd' = cmd
    BY <1>4, ReportType
  <2>3. \A i \in 1..cmd : results'[i].status \in Answers
    <3> SUFFICES ASSUME NEW i \in 1..cmd
                 PROVE  results'[i].status \in Answers
      OBVIOUS
    <3>1. CASE i = cmd
      BY <1>0, <1>4, <2>1, <2>2, <3>1
    <3>2. CASE i # cmd
      BY <1>0, <2>1, <2>2, <3>2 DEF CountInv
    <3> QED
      BY <3>1, <3>2
  <2> QED
    BY <1>4, <2>1, <2>2, <2>3, AnswerCounts
<1>5. CASE Read
  <2>1. PICK n \in 1..Len(rx) :
          IF ~Matches(Kept(n)) THEN UNCHANGED <<tool, cmd, results>>
          ELSE IF tool = "await" THEN Report("ok", Kept(n))
          ELSE tool' = After(Kept(n)) /\ UNCHANGED <<cmd, results>>
    BY <1>5 DEF Read, Kept, Got
  <2>2. Kept(n) \in Seq(Tokens)
    BY ReadKeeps DEF TypeInv
  <2>3. Waiting /\ UNCHANGED <<port, status>>
    BY <1>5 DEF Read
  <2>4. CASE UNCHANGED <<tool, cmd, results>>
    BY <2>3, <2>4 DEF CountInv
  <2>5. CASE tool = "await" /\ Report("ok", Kept(n))
    BY <1>4, <2>2, <2>3, <2>5 DEF Answers
  <2>6. CASE tool # "await" /\ tool' = After(Kept(n)) /\ UNCHANGED <<cmd, results>>
    <3>1. tool \in LoggingIn /\ tool' \in {"username", "secret", "send"}
      BY <2>3, <2>6 DEF Waiting, After, LoggingIn
    <3> QED
      BY <1>0, <2>3, <2>6, <3>1 DEF CountInv, LoggingIn
  <2> QED
    BY <2>1, <2>4, <2>5, <2>6
<1>6. CASE TimeOut
  <2>1. CASE tool = "await"
    BY <1>4, <1>6, <2>1 DEF TimeOut, Answers, TypeInv
  <2>2. CASE tool # "await"
    <3>1. /\ tool \in LoggingIn /\ tool' = "close" /\ status' = "login_failed"
          /\ UNCHANGED <<cmd, results, port>>
      BY <1>6, <2>2 DEF TimeOut, Waiting, LoggingIn
    <3> QED
      BY <1>0, <3>1 DEF CountInv, LoggingIn
  <2> QED
    BY <2>1, <2>2
<1>7. CASE Close
  <2>1. /\ tool = "close" /\ tool' = "done" /\ port' = "closed" /\ UNCHANGED <<cmd, results>>
        /\ status' = "ok" =>
             /\ status # "login_failed"
             /\ ~\E i \in DOMAIN results : results[i].status \in {"error", "timeout"}
    BY <1>7 DEF Close
  <2>2. DOMAIN results = 1..Len(results)
    BY <1>0
  <2>3. status' = "ok" =>
          Len(results) = Commands /\ \A i \in 1..Len(results) : results[i].status = "ok"
    BY <2>1, <2>2 DEF CountInv, Answers
  <2>4. \A i \in 1..Len(results) : results[i].status \in Answers
    BY <2>1 DEF CountInv
  <2> QED
    BY <2>1, <2>3, <2>4 DEF CountInv, LoggingIn
<1>8. CASE Arrive \/ Chat \/ Expire \/ UNCHANGED vars
  <2>1. UNCHANGED <<tool, cmd, port, results, status>>
    BY <1>8 DEF Arrive, Chat, Expire, vars, call
  <2> QED
    BY <2>1 DEF CountInv
<1> QED
  BY <1>1, <1>2, <1>3, <1>5, <1>6, <1>7, <1>8 DEF Next, Tool

\* The states a call begins in.
LEMMA InitCount ==
  ASSUME SetUp, Init
  PROVE  TypeInv /\ CountInv
<1>1. 1 \in 1..Commands
  BY DEF SetUp
<1>2. TypeInv
  BY <1>1 DEF Init, TypeInv, SetUp
<1>3. CountInv
  BY DEF Init, CountInv
<1> QED
  BY <1>2, <1>3

-----------------------------------------------------------------------------
(* What is on its way.                                                     *)

\* What has been said since the buffer was emptied, read, arrived or not.
Said(b, r, t) == b \o (r \o t)

Quiet(w) == \A k \in 1..Len(w) : w[k] = Text(0)

\* What the device prints last in each of its states.
Asks(d) == CASE d = "login" -> Login [] d = "password" -> Password [] d = "shell" -> Prompt

\* While it logs in: nothing but the console comes after what the device asks for.
LoginTalk(w, d) ==
  /\ \A k \in 1..Len(w) : w[k] \in {Text(0), Asks(d)}
  /\ \A j, k \in 1..Len(w) : j < k /\ w[j] = Asks(d) => w[k] = Text(0)

Precedes(x, y, c) == <<x, y>> \in {<<Echo(c), Text(c)>>, <<Echo(c), Prompt>>, <<Text(c), Prompt>>}

\* While it answers command c: the echo, the text, once, and the prompt, in this order.
CommandTalk(w, c) ==
  /\ \A k \in 1..Len(w) : w[k] \in {Text(0), Echo(c), Text(c), Prompt}
  /\ \A j, k \in 1..Len(w) :
       j < k /\ w[j] # Text(0) /\ w[k] # Text(0) => Precedes(w[j], w[k], c)
  /\ \E k \in 1..Len(w) : w[k] = Text(c)

\* v is w with something from the console in it, behind position p.
Inserted(w, v, p) ==
  /\ p \in 0..Len(w)
  /\ Len(v) = Len(w) + 1
  /\ v[p + 1] = Text(0)
  /\ \A k \in 1..p : v[k] = w[k]
  /\ \A k \in (p + 1)..Len(w) : v[k + 1] = w[k]

Same(w, v) == Len(v) = Len(w) /\ \A k \in 1..Len(w) : v[k] = w[k]

\* Every result so far is that of a command answered by a shell.
AnsweredUpTo(n) == \A j \in 1..n : results[j].status = "ok" /\ results[j].at = "shell"

Own(output, i) ==
  \E k \in DOMAIN output :
    output[k] = Text(i) /\ \A j \in DOMAIN output : output[j].cmd # 0 <=> j = k

OwnSoFar == \A i \in 1..Len(results) : AnsweredUpTo(i) => Own(results[i].output, i)

\* The buffer is full, and takes no more.
Capped == Len(buf) >= MaxBuffer

\* On a line where only prompts look like prompts: who has been answered so far has got
\* his own, and what is still to come, if anything, ends with a prompt for the tool.
Talk ==
  /\ Len(buf) <= MaxBuffer
  /\ tool \in {"idle", "opened"} => buf = <<>> /\ Quiet(rx \o todo)
  /\ tool = "username" => device = "login" /\ Quiet(rx \o todo)
  /\ tool = "secret" => device = "password" /\ Quiet(rx \o todo)
  /\ Waiting => ~Matches(buf)
  /\ tool \in {"login", "password", "prompt"} =>
       Capped \/ LoginTalk(Said(buf, rx, todo), device)
  /\ tool = "send" /\ AnsweredUpTo(cmd - 1) => Quiet(rx \o todo)
  /\ tool = "await" /\ AnsweredUpTo(cmd - 1) /\ results[cmd].at = "shell" =>
       Capped \/ CommandTalk(Said(buf, rx, todo), cmd)
  /\ profile.login /\ tool \in {"send", "await"} => device = "shell"
  /\ OwnSoFar

\* The tokens tell themselves apart.
LEMMA TokenFacts ==
  /\ Failed = Text(0)
  /\ Text(0).kind = "text" /\ ~Text(0).hash /\ Text(0).cmd = 0
  /\ Prompt.kind = "prompt" /\ Prompt.hash /\ Prompt.cmd = 0
  /\ Login.kind = "login" /\ ~Login.hash /\ Login.cmd = 0
  /\ Password.kind = "password" /\ ~Password.hash /\ Password.cmd = 0
  /\ \A c : Echo(c).kind = "echo" /\ ~Echo(c).hash /\ Echo(c).cmd = c
  /\ \A c : Text(c).kind = "text" /\ ~Text(c).hash /\ Text(c).cmd = c
BY DEF Failed, Text, Prompt, Login, Password, Echo, Token

\* A line that is said again otherwise cut up is still the same.
LEMMA SameKeeps ==
  ASSUME NEW w, NEW v, Len(w) \in Nat, Same(w, v)
  PROVE  /\ Quiet(w) => Quiet(v)
         /\ \A d : LoginTalk(w, d) => LoginTalk(v, d)
         /\ \A c : CommandTalk(w, c) => CommandTalk(v, c)
BY DEF Same, Quiet, LoginTalk, CommandTalk

\* What the console says in between changes nothing.
LEMMA InsertedKeeps ==
  ASSUME NEW w, NEW v, NEW p, Len(w) \in Nat, Inserted(w, v, p)
  PROVE  /\ Quiet(w) => Quiet(v)
         /\ \A d \in {"login", "password", "shell"} : LoginTalk(w, d) => LoginTalk(v, d)
         /\ \A c : CommandTalk(w, c) => CommandTalk(v, c)
<1> DEFINE Old(k) == IF k <= p THEN k ELSE k - 1
<1>1. p \in Nat /\ p <= Len(w) /\ Len(v) = Len(w) + 1
  BY DEF Inserted
<1>2. ASSUME NEW k \in 1..Len(v), v[k] # Text(0)
      PROVE  Old(k) \in 1..Len(w) /\ v[k] = w[Old(k)] /\ k # p + 1
  <2>1. k # p + 1
    BY <1>2 DEF Inserted
  <2>2. CASE k <= p
    <3>1. k \in 1..p /\ k \in 1..Len(w)
      BY <1>1, <2>2
    <3> QED
      BY <2>1, <2>2, <3>1 DEF Inserted
  <2>3. CASE k > p + 1
    <3>1. k - 1 \in (p + 1)..Len(w) /\ (k - 1) + 1 = k /\ k - 1 \in 1..Len(w) /\ ~(k <= p)
      BY <1>1, <2>3
    <3>2. v[(k - 1) + 1] = w[k - 1]
      BY <3>1 DEF Inserted
    <3> QED
      BY <2>1, <3>1, <3>2
  <2> QED
    BY <1>1, <2>1, <2>2, <2>3
<1>3. ASSUME NEW j \in 1..Len(v), NEW k \in 1..Len(v), j < k, j # p + 1, k # p + 1
      PROVE  Old(j) < Old(k)
  BY <1>1, <1>3
<1>4. ASSUME NEW k \in 1..Len(w)
      PROVE  \E i \in 1..Len(v) : v[i] = w[k]
  <2>1. CASE k <= p
    <3>1. k \in 1..p /\ k \in 1..Len(v)
      BY <1>1, <2>1
    <3> QED
      BY <3>1 DEF Inserted
  <2>2. CASE k > p
    <3>1. k \in (p + 1)..Len(w) /\ k + 1 \in 1..Len(v)
      BY <1>1, <2>2
    <3> QED
      BY <3>1 DEF Inserted
  <2> QED
    BY <1>1, <2>1, <2>2
<1> HIDE DEF Old
<1>5. Quiet(w) => Quiet(v)
  BY <1>2 DEF Quiet
<1>6. ASSUME NEW d \in {"login", "password", "shell"}, LoginTalk(w, d)
      PROVE  LoginTalk(v, d)
  <2>1. Asks(d) # Text(0)
    BY TokenFacts DEF Asks
  <2>2. \A k \in 1..Len(v) : v[k] \in {Text(0), Asks(d)}
    BY <1>2, <1>6 DEF LoginTalk
  <2>3. ASSUME NEW j \in 1..Len(v), NEW k \in 1..Len(v), j < k, v[j] = Asks(d), v[k] # Text(0)
        PROVE  FALSE
    <3>1. /\ Old(j) \in 1..Len(w) /\ w[Old(j)] = Asks(d)
          /\ Old(k) \in 1..Len(w) /\ w[Old(k)] # Text(0)
          /\ Old(j) < Old(k)
      BY <1>2, <1>3, <2>1, <2>3
    <3> QED
      BY <1>6, <3>1 DEF LoginTalk
  <2> QED
    BY <2>2, <2>3 DEF LoginTalk
<1>7. ASSUME NEW c, CommandTalk(w, c)
      PROVE  CommandTalk(v, c)
  <2>1. \A k \in 1..Len(v) : v[k] \in {Text(0), Echo(c), Text(c), Prompt}
    BY <1>2, <1>7 DEF CommandTalk
  <2>2. ASSUME NEW j \in 1..Len(v), NEW k \in 1..Len(v), j < k, v[j] # Text(0), v[k] # Text(0)
        PROVE  Precedes(v[j], v[k], c)
    <3>1. /\ Old(j) \in 1..Len(w) /\ w[Old(j)] = v[j]
          /\ Old(k) \in 1..Len(w) /\ w[Old(k)] = v[k]
          /\ Old(j) < Old(k)
      BY <1>2, <1>3, <2>2
    <3> QED
      BY <1>7, <2>2, <3>1 DEF CommandTalk
  <2>3. \E k \in 1..Len(v) : v[k] = Text(c)
    BY <1>4, <1>7 DEF CommandTalk
  <2> QED
    BY <2>1, <2>2, <2>3 DEF CommandTalk
<1> QED
  BY <1>5, <1>6, <1>7

\* One line and then another, position by position.
LEMMA ConcatAt ==
  ASSUME NEW b \in Seq(Tokens), NEW u \in Seq(Tokens)
  PROVE  /\ b \o u \in Seq(Tokens) /\ Len(b \o u) = Len(b) + Len(u)
         /\ Len(b) \in Nat /\ Len(u) \in Nat
         /\ \A k \in 1..Len(b) : (b \o u)[k] = b[k]
         /\ \A k \in 1..Len(u) : (b \o u)[Len(b) + k] = u[k]
OBVIOUS

\* What is said, position by position.
LEMMA SaidAt ==
  ASSUME NEW b \in Seq(Tokens), NEW r \in Seq(Tokens), NEW t \in Seq(Tokens)
  PROVE  /\ r \o t \in Seq(Tokens) /\ Len(r \o t) = Len(r) + Len(t)
         /\ Said(b, r, t) \in Seq(Tokens) /\ Len(Said(b, r, t)) = Len(b) + Len(r \o t)
         /\ \A k \in 1..Len(r) : (r \o t)[k] = r[k]
         /\ \A k \in 1..Len(t) : (r \o t)[Len(r) + k] = t[k]
         /\ \A k \in 1..Len(b) : Said(b, r, t)[k] = b[k]
         /\ \A k \in 1..Len(r \o t) : Said(b, r, t)[Len(b) + k] = (r \o t)[k]
<1>1. /\ r \o t \in Seq(Tokens) /\ Len(r \o t) = Len(r) + Len(t)
      /\ \A k \in 1..Len(r) : (r \o t)[k] = r[k]
      /\ \A k \in 1..Len(t) : (r \o t)[Len(r) + k] = t[k]
  OBVIOUS
<1> DEFINE u == r \o t
<1>2. u \in Seq(Tokens)
  BY <1>1
<1> HIDE DEF u
<1>3. /\ b \o u \in Seq(Tokens) /\ Len(b \o u) = Len(b) + Len(u)
      /\ \A k \in 1..Len(b) : (b \o u)[k] = b[k]
      /\ \A k \in 1..Len(u) : (b \o u)[Len(b) + k] = u[k]
  BY <1>2
<1> QED
  BY <1>1, <1>3 DEF Said, u

\* If what follows the buffer is kept the same, all is.
LEMMA SameBehind ==
  ASSUME NEW b \in Seq(Tokens), NEW u \in Seq(Tokens), NEW v \in Seq(Tokens), Same(u, v)
  PROVE  Same(b \o u, b \o v)
BY SMTT(60) DEF Same

\* What arrives was said before.
LEMMA ArriveSame ==
  ASSUME TypeInv, Arrive
  PROVE  /\ Same(rx \o todo, rx' \o todo')
         /\ Same(Said(buf, rx, todo), Said(buf, rx', todo'))
<1>1. /\ buf \in Seq(Tokens) /\ rx \in Seq(Tokens) /\ todo \in Seq(Tokens) /\ todo # <<>>
      /\ rx' = Append(rx, Head(todo)) /\ todo' = Tail(todo)
  BY DEF TypeInv, Arrive
<1>2. rx' \o todo' = rx \o todo
  BY <1>1, SMTT(60)
<1> QED
  BY <1>1, <1>2 DEF Same, Said

\* What the console says is put into what is said.
LEMMA ChatInserts ==
  ASSUME TypeInv, Chat
  PROVE  /\ Inserted(rx \o todo, rx' \o todo', Len(rx))
         /\ Inserted(Said(buf, rx, todo), Said(buf, rx', todo'), Len(buf) + Len(rx))
<1>1. /\ buf \in Seq(Tokens) /\ rx \in Seq(Tokens) /\ todo \in Seq(Tokens) /\ todo' = todo
      /\ rx' = Append(rx, Text(0))
  BY DEF TypeInv, Chat
<1>2. Text(0) \in Tokens
  BY DEF Text, Token, Tokens
<1>3. /\ rx' \in Seq(Tokens) /\ Len(rx') = Len(rx) + 1 /\ rx'[Len(rx) + 1] = Text(0)
      /\ \A k \in 1..Len(rx) : rx'[k] = rx[k]
      /\ Len(rx) \in Nat /\ Len(buf) \in Nat /\ Len(todo) \in Nat
  BY <1>1, <1>2
<1> DEFINE u == rx \o todo
           v == rx' \o todo
<1>4. /\ u \in Seq(Tokens) /\ Len(u) = Len(rx) + Len(todo)
      /\ \A k \in 1..Len(rx) : u[k] = rx[k]
      /\ \A k \in 1..Len(todo) : u[Len(rx) + k] = todo[k]
  BY <1>1, SaidAt
<1>5. /\ v \in Seq(Tokens) /\ Len(v) = Len(rx') + Len(todo)
      /\ \A k \in 1..Len(rx') : v[k] = rx'[k]
      /\ \A k \in 1..Len(todo) : v[Len(rx') + k] = todo[k]
  <2>1. rx' \in Seq(Tokens) /\ todo \in Seq(Tokens) /\ v = rx' \o todo
    BY <1>1, <1>3
  <2> HIDE <1>1, <1>3 DEF v
  <2>2. ASSUME NEW r \in Seq(Tokens), r = rx'
        PROVE  /\ r \o todo \in Seq(Tokens) /\ Len(r \o todo) = Len(r) + Len(todo)
               /\ \A k \in 1..Len(r) : (r \o todo)[k] = r[k]
               /\ \A k \in 1..Len(todo) : (r \o todo)[Len(r) + k] = todo[k]
    BY <2>1, ConcatAt
  <2> QED
    BY <2>1, <2>2
<1> HIDE DEF u, v
<1>6. Inserted(u, v, Len(rx))
  <2>1. Len(rx) \in 0..Len(u) /\ Len(v) = Len(u) + 1 /\ Len(rx) + 1 \in 1..Len(rx')
    BY <1>3, <1>4, <1>5
  <2>2. v[Len(rx) + 1] = Text(0)
    BY <1>3, <1>5, <2>1
  <2>3. ASSUME NEW k \in 1..Len(rx)
        PROVE  v[k] = u[k]
    <3>1. k \in 1..Len(rx')
      BY <1>3
    <3> QED
      BY <1>3, <1>4, <1>5, <3>1
  <2>4. ASSUME NEW k \in (Len(rx) + 1)..Len(u)
        PROVE  v[k + 1] = u[k]
    <3>1. k - Len(rx) \in 1..Len(todo) /\ Len(rx) + (k - Len(rx)) = k
          /\ Len(rx') + (k - Len(rx)) = k + 1
      BY <1>3, <1>4
    <3>2. v[Len(rx') + (k - Len(rx))] = u[Len(rx) + (k - Len(rx))]
      BY <1>4, <1>5, <3>1
    <3> QED
      BY <3>1, <3>2
  <2> QED
    BY <2>1, <2>2, <2>3, <2>4 DEF Inserted
<1>7. /\ Said(buf, rx, todo) = buf \o u
      /\ Said(buf, rx', todo') = buf \o v
  BY <1>1 DEF Said, u, v
<1>8. /\ Len(buf \o u) = Len(buf) + Len(u) /\ Len(buf \o v) = Len(buf) + Len(v)
      /\ \A k \in 1..Len(buf) : (buf \o u)[k] = buf[k] /\ (buf \o v)[k] = buf[k]
      /\ \A k \in 1..Len(u) : (buf \o u)[Len(buf) + k] = u[k]
      /\ \A k \in 1..Len(v) : (buf \o v)[Len(buf) + k] = v[k]
      /\ Len(u) \in Nat /\ Len(v) \in Nat
  <2>1. buf \in Seq(Tokens) /\ u \in Seq(Tokens) /\ v \in Seq(Tokens)
    BY <1>1, <1>4, <1>5
  <2> HIDE <1>1, <1>4, <1>5
  <2> QED
    BY <2>1, ConcatAt
<1> DEFINE x == buf \o u
           y == buf \o v
           p == Len(buf) + Len(rx)
<1> HIDE DEF x, y
<1>9. Inserted(x, y, p)
  <2>1. p \in 0..Len(x) /\ Len(y) = Len(x) + 1
    BY <1>3, <1>6, <1>8 DEF Inserted, x, y
  <2>2. y[p + 1] = Text(0)
    <3>1. Len(rx) + 1 \in 1..Len(v) /\ Len(buf) + (Len(rx) + 1) = p + 1
      BY <1>3, <1>6, <1>8 DEF Inserted
    <3>2. y[Len(buf) + (Len(rx) + 1)] = v[Len(rx) + 1]
      BY <1>8, <3>1 DEF y
    <3> QED
      BY <1>6, <3>1, <3>2 DEF Inserted
  <2>3. ASSUME NEW k \in 1..p
        PROVE  y[k] = x[k]
    <3>1. CASE k <= Len(buf)
      <4>1. k \in 1..Len(buf)
        BY <1>3, <3>1
      <4> QED
        BY <1>8, <4>1 DEF x, y
    <3>2. CASE k > Len(buf)
      <4>1. /\ k - Len(buf) \in 1..Len(rx) /\ k - Len(buf) \in 1..Len(u)
            /\ k - Len(buf) \in 1..Len(v) /\ Len(buf) + (k - Len(buf)) = k
        BY <1>3, <1>4, <1>6, <1>8, <3>2 DEF Inserted
      <4>2. /\ x[Len(buf) + (k - Len(buf))] = u[k - Len(buf)]
            /\ y[Len(buf) + (k - Len(buf))] = v[k - Len(buf)]
        BY <1>8, <4>1 DEF x, y
      <4> QED
        BY <1>6, <4>1, <4>2 DEF Inserted
    <3> QED
      BY <1>3, <3>1, <3>2
  <2>4. ASSUME NEW k \in (p + 1)..Len(x)
        PROVE  y[k + 1] = x[k]
    <3>1. /\ k - Len(buf) \in (Len(rx) + 1)..Len(u) /\ k - Len(buf) \in 1..Len(u)
          /\ (k - Len(buf)) + 1 \in 1..Len(v)
          /\ Len(buf) + (k - Len(buf)) = k /\ Len(buf) + ((k - Len(buf)) + 1) = k + 1
      BY <1>3, <1>4, <1>6, <1>8 DEF Inserted, x
    <3>2. /\ x[Len(buf) + (k - Len(buf))] = u[k - Len(buf)]
          /\ y[Len(buf) + ((k - Len(buf)) + 1)] = v[(k - Len(buf)) + 1]
      BY <1>8, <3>1 DEF x, y
    <3>3. v[(k - Len(buf)) + 1] = u[k - Len(buf)]
      BY <1>6, <3>1 DEF Inserted
    <3> QED
      BY <3>1, <3>2, <3>3
  <2> QED
    BY <2>1, <2>2, <2>3, <2>4 DEF Inserted
<1> QED
  BY <1>1, <1>6, <1>7, <1>9 DEF u, v, x, y

\* Cut in two places, whichever is first.
LEMMA ConcatTwice ==
  ASSUME NEW a \in Seq(Tokens), NEW b \in Seq(Tokens), NEW c \in Seq(Tokens)
  PROVE  a \o (b \o c) = (a \o b) \o c
OBVIOUS

\* A read takes what it gets from the front of what was said.
LEMMA ReadSplits ==
  ASSUME SetUp, TypeInv, NEW n \in 1..Len(rx), NEW rest,
         rest = SubSeq(rx, n + 1, Len(rx)) \o todo
  PROVE  /\ \A k \in 1..Len(Kept(n)) :
              /\ Kept(n)[k] = Said(buf, rx, todo)[k]
              /\ k \in 1..Len(Said(buf, rx, todo)) /\ k <= Len(Got(n))
         /\ \A k \in 1..Len(rest) :
              /\ rest[k] = Said(buf, rx, todo)[Len(Got(n)) + k]
              /\ Len(Got(n)) + k \in 1..Len(Said(buf, rx, todo))
         /\ Len(Kept(n)) = Len(Got(n)) => Said(buf, rx, todo) = Kept(n) \o rest
<1>0. /\ buf \in Seq(Tokens) /\ rx \in Seq(Tokens) /\ todo \in Seq(Tokens)
      /\ n \in Nat /\ Len(rx) \in Nat
  BY DEF TypeInv
<1> DEFINE x == SubSeq(rx, 1, n)
           y == SubSeq(rx, n + 1, Len(rx))
<1>1. x \in Seq(Tokens) /\ y \in Seq(Tokens) /\ rx = x \o y
  BY <1>0
<1>2. Got(n) = buf \o x /\ rest = y \o todo
  BY DEF Got
<1> HIDE DEF x, y
<1>3. Said(buf, rx, todo) = Got(n) \o rest
  <2>1. x \o (y \o todo) = (x \o y) \o todo
    BY <1>0, <1>1, ConcatTwice, ZenonT(60)
  <2>2. rest \in Seq(Tokens)
    BY <1>0, <1>1, <1>2, SMTT(60)
  <2>3. buf \o (x \o rest) = (buf \o x) \o rest
    <3>1. \A a, b, c \in Seq(Tokens) : a \o (b \o c) = (a \o b) \o c
      BY ConcatTwice
    <3>2. buf \in Seq(Tokens) /\ x \in Seq(Tokens) /\ rest \in Seq(Tokens)
      BY <1>0, <1>1, <2>2
    <3> QED
      BY <3>1, <3>2, Zenon
  <2> QED
    BY <1>1, <1>2, <2>1, <2>3 DEF Said
<1>4. /\ Got(n) \in Seq(Tokens) /\ Kept(n) \in Seq(Tokens)
      /\ Len(Kept(n)) <= Len(Got(n))
      /\ \A k \in 1..Len(Kept(n)) : Kept(n)[k] = Got(n)[k]
  BY <1>0, ReadKeeps
<1> DEFINE g == Got(n)
           h == Kept(n)
<1>5. g \in Seq(Tokens) /\ rest \in Seq(Tokens) /\ h \in Seq(Tokens)
  BY <1>0, <1>1, <1>2, <1>4, SMTT(60)
<1> HIDE DEF g, h
<1>6. /\ Len(g \o rest) = Len(g) + Len(rest) /\ Len(g) \in Nat /\ Len(rest) \in Nat
      /\ \A k \in 1..Len(g) : (g \o rest)[k] = g[k]
      /\ \A k \in 1..Len(rest) : (g \o rest)[Len(g) + k] = rest[k]
  BY <1>5, ConcatAt
<1>7. /\ Len(h) <= Len(g) /\ Len(h) \in Nat /\ \A k \in 1..Len(h) : h[k] = g[k]
  BY <1>4, <1>5 DEF g, h
<1>8. Len(h) = Len(g) => h = g
  BY <1>5, <1>7, SMTT(60)
<1>9. \A k \in 1..Len(h) : h[k] = (g \o rest)[k] /\ k \in 1..Len(g \o rest) /\ k <= Len(g)
  <2> SUFFICES ASSUME NEW k \in 1..Len(h)
               PROVE  h[k] = (g \o rest)[k] /\ k \in 1..Len(g \o rest) /\ k <= Len(g)
    OBVIOUS
  <2>1. k \in Nat /\ k <= Len(h) /\ 1 <= k
    BY <1>7
  <2>2. k \in 1..Len(g)
    BY <1>6, <1>7, <2>1
  <2>3. k \in 1..Len(g \o rest) /\ k <= Len(g)
    BY <1>6, <2>2
  <2>4. h[k] = g[k] /\ (g \o rest)[k] = g[k]
    BY <1>6, <1>7, <2>2
  <2> QED
    BY <2>3, <2>4
<1>10. \A k \in 1..Len(rest) : Len(g) + k \in 1..Len(g \o rest)
  BY <1>6
<1> QED
  BY <1>3, <1>6, <1>8, <1>9, <1>10 DEF g, h

\* The answer to a line of the login ends with what the device asks for next.
LEMMA LoginAnswer ==
  ASSUME SetUp, Clean, TypeInv, NEW l, l \notin 1..Commands
  PROVE  \/ Len(Answer(l)) = 1 /\ Answer(l)[1] = Asks(Becomes(l))
         \/ Len(Answer(l)) = 2 /\ Answer(l)[1] = Text(0) /\ Answer(l)[2] = Asks(Becomes(l))
<1>1. LoginPrompt = <<Login>>
  BY DEF Clean, LoginPrompt
<1>2. /\ Len(<<Failed>> \o <<Login>>) = 2
      /\ (<<Failed>> \o <<Login>>)[1] = Text(0) /\ (<<Failed>> \o <<Login>>)[2] = Login
  <2> DEFINE x == <<Failed>>
             y == <<Login>>
  <2>1. /\ x \in Seq(Tokens) /\ Len(x) = 1 /\ x[1] = Text(0)
        /\ y \in Seq(Tokens) /\ Len(y) = 1 /\ y[1] = Login
    <3>1. Failed \in Tokens /\ Login \in Tokens
      BY DEF Failed, Login, Token, Tokens
    <3> QED
      BY <3>1, TokenFacts
  <2> HIDE DEF x, y
  <2>2. /\ Len(x \o y) = Len(x) + Len(y)
        /\ \A k \in 1..Len(x) : (x \o y)[k] = x[k]
        /\ \A k \in 1..Len(y) : (x \o y)[Len(x) + k] = y[k]
    BY <2>1, ConcatAt
  <2>3. Len(x \o y) = 2 /\ (x \o y)[1] = x[1] /\ (x \o y)[2] = y[1]
    <3>1. 1 \in 1..Len(x) /\ 1 \in 1..Len(y) /\ Len(x) + 1 = 2 /\ Len(x) + Len(y) = 2
      BY <2>1
    <3>2. (x \o y)[Len(x) + 1] = y[1] /\ (x \o y)[1] = x[1]
      BY <2>2, <3>1
    <3> QED
      BY <2>2, <3>1, <3>2
  <2> QED
    BY <2>1, <2>3 DEF x, y
<1>3. CASE device = "login"
  BY <1>1, <1>3 DEF Answer, Becomes, Asks
<1>4. CASE device = "password"
  <2>1. CASE Becomes(l) = "shell"
    <3>1. Answer(l) = <<Prompt>> /\ Asks(Becomes(l)) = Prompt
      BY <1>4, <2>1 DEF Answer, Asks
    <3> QED
      BY <3>1
  <2>2. CASE Becomes(l) # "shell"
    <3>1. Becomes(l) = "login"
      BY <1>4, <2>2 DEF Becomes
    <3>2. Answer(l) = <<Failed>> \o <<Login>> /\ Asks(Becomes(l)) = Login
      BY <1>1, <1>4, <2>2, <3>1 DEF Answer, Asks
    <3> QED
      BY <1>2, <3>2
  <2> QED
    BY <2>1, <2>2
<1>5. CASE device = "shell"
  BY <1>5 DEF Answer, Becomes, Asks
<1> QED
  BY <1>3, <1>4, <1>5 DEF TypeInv

\* Where nothing else is said, an answer or none is all that is.
LEMMA QuietThenLogin ==
  ASSUME SetUp, Clean, TypeInv, Quiet(rx \o todo), NEW l, l \notin 1..Commands, TypeBlindly(l),
         NEW b \in Seq(Tokens), b = <<>>
  PROVE  LoginTalk(Said(b, rx, todo'), device')
<1>0. /\ rx \in Seq(Tokens) /\ todo \in Seq(Tokens) /\ device \in {"login", "password", "shell"}
      /\ rx \o todo \in Seq(Tokens)
  BY DEF TypeInv
<1> DEFINE u == rx \o todo
<1>1. Said(b, rx, todo') = rx \o todo'
  <2>1. todo' \in Seq(Tokens)
    BY TypeKeeps
  <2>2. ASSUME NEW t \in Seq(Tokens)
        PROVE  b \o (rx \o t) = rx \o t
    BY <1>0
  <2> QED
    BY <2>1, <2>2 DEF Said
<1>2. \A k \in 1..Len(u) : u[k] = Text(0)
  BY DEF Quiet
<1>3. CASE todo' = todo
  BY <1>1, <1>2, <1>3 DEF LoginTalk
<1>4. CASE Type(l)
  <2> DEFINE a == Answer(l)
             d == Becomes(l)
  <2>1. todo' = todo \o a /\ device' = d
    BY <1>4 DEF Type
  <2>2. a \in Seq(Tokens) /\ d \in {"login", "password", "shell"}
    BY <1>0, AnswerType
  <2>3. \/ Len(a) = 1 /\ a[1] = Asks(d)
        \/ Len(a) = 2 /\ a[1] = Text(0) /\ a[2] = Asks(d)
    BY LoginAnswer
  <2> HIDE DEF a, d
  <2>4. rx \o todo' = u \o a
    BY <1>0, <2>1, <2>2
  <2> HIDE DEF u
  <2>5. /\ Len(u \o a) = Len(u) + Len(a) /\ Len(u) \in Nat
        /\ \A k \in 1..Len(u) : (u \o a)[k] = u[k]
        /\ \A k \in 1..Len(a) : (u \o a)[Len(u) + k] = a[k]
    BY <1>0, <2>2, ConcatAt DEF u
  <2> DEFINE w == u \o a
  <2>6. \A k \in 1..Len(w) : w[k] = Text(0) \/ (k = Len(w) /\ w[k] = Asks(d))
    <3> SUFFICES ASSUME NEW k \in 1..Len(w)
                 PROVE  w[k] = Text(0) \/ (k = Len(w) /\ w[k] = Asks(d))
      OBVIOUS
    <3>1. CASE k \in 1..Len(u)
      BY <1>2, <2>5, <3>1
    <3>2. CASE k \notin 1..Len(u)
      <4>1. k - Len(u) \in 1..Len(a) /\ Len(u) + (k - Len(u)) = k
        BY <2>3, <2>5, <3>2
      <4>2. w[k] = a[k - Len(u)]
        BY <2>5, <4>1
      <4>3. k - Len(u) = Len(a) <=> k = Len(w)
        BY <2>3, <2>5, <4>1
      <4> DEFINE i == k - Len(u)
      <4>4. i \in 1..Len(a) /\ w[k] = a[i] /\ (i = Len(a) <=> k = Len(w))
        BY <4>1, <4>2, <4>3
      <4> HIDE DEF i, w
      <4>5. CASE Len(a) = 1
        <5>1. i = 1
          BY <4>4, <4>5
        <5> QED
          BY <2>3, <4>4, <4>5, <5>1
      <4>6. CASE Len(a) = 2
        <5>1. i = 1 \/ i = 2
          BY <4>4, <4>6
        <5> QED
          BY <2>3, <4>4, <4>6, <5>1
      <4> QED
        BY <2>3, <4>5, <4>6
    <3> QED
      BY <3>1, <3>2
  <2>7. Len(w) \in Nat
    BY <2>3, <2>5
  <2>8. Asks(d) # Text(0)
    BY <2>2, TokenFacts DEF Asks
  <2> HIDE DEF w
  <2>9. LoginTalk(w, d)
    BY <2>6, <2>7, <2>8 DEF LoginTalk
  <2> QED
    BY <1>1, <2>1, <2>4, <2>9 DEF w
<1> QED
  BY <1>3, <1>4 DEF TypeBlindly
\* Which token comes before which in the answer to a command.
LEMMA PrecedesFacts ==
  ASSUME NEW c \in Nat \ {0}
  PROVE  /\ \A y : ~Precedes(Prompt, y, c)
         /\ ~Precedes(Text(c), Text(c), c) /\ ~Precedes(Echo(c), Echo(c), c)
         /\ Precedes(Echo(c), Text(c), c) /\ Precedes(Echo(c), Prompt, c)
         /\ Precedes(Text(c), Prompt, c)
         /\ Prompt # Text(c) /\ Prompt # Echo(c) /\ Text(c) # Echo(c)
         /\ Prompt # Text(0) /\ Text(c) # Text(0) /\ Echo(c) # Text(0)
<1>1. /\ Prompt # Text(c) /\ Prompt # Echo(c) /\ Text(c) # Echo(c)
      /\ Prompt # Text(0) /\ Text(c) # Text(0) /\ Echo(c) # Text(0)
  BY TokenFacts
<1>2. \A x, y : Precedes(x, y, c) <=>
        \/ x = Echo(c) /\ y = Text(c)
        \/ x = Echo(c) /\ y = Prompt
        \/ x = Text(c) /\ y = Prompt
  BY DEF Precedes
<1> QED
  BY <1>1, <1>2

\* A full buffer shows no more after a read than before.
LEMMA CappedRead ==
  ASSUME SetUp, TypeInv, Len(buf) <= MaxBuffer, Capped, ~Matches(buf), NEW n \in 1..Len(rx)
  PROVE  ~Matches(Kept(n)) /\ Len(Kept(n)) >= MaxBuffer
<1> DEFINE h == Kept(n)
<1>1. /\ buf \in Seq(Tokens) /\ h \in Seq(Tokens) /\ n \in Nat
      /\ Len(Got(n)) = Len(buf) + n
      /\ \A k \in 1..Len(buf) : Got(n)[k] = buf[k]
      /\ Len(h) <= Len(Got(n)) /\ Len(h) <= MaxBuffer
      /\ Len(h) = Len(Got(n)) \/ Len(h) = MaxBuffer
      /\ \A k \in 1..Len(h) : h[k] = Got(n)[k]
  BY ReadKeeps DEF TypeInv
<1> HIDE DEF h
<1>2. Len(buf) = MaxBuffer /\ Len(h) = MaxBuffer
  <2>1. Len(buf) \in Nat /\ Len(h) \in Nat /\ MaxBuffer \in Nat /\ Len(buf) >= MaxBuffer
    BY <1>1 DEF SetUp, Capped
  <2> QED
    BY <1>1, <2>1
<1>3. DOMAIN buf = 1..Len(buf) /\ DOMAIN h = 1..Len(h)
  BY <1>1
<1>4. \A k \in DOMAIN h : k \in DOMAIN buf /\ h[k] = buf[k]
  BY <1>1, <1>2, <1>3
<1>5. Matches(h) => Matches(buf)
  BY <1>4 DEF Matches, Shows, ShowsKind
<1> QED
  BY <1>2, <1>5 DEF h, SetUp

\* What shows while the tool logs in is what the device asks for, and only the console
\* talks after it.
LEMMA LoginMatch ==
  ASSUME SetUp, TypeInv, NEW n \in 1..Len(rx), LoginTalk(Said(buf, rx, todo), device),
         NEW k \in 1..Len(Kept(n)), Kept(n)[k] # Text(0),
         NEW rest, rest = SubSeq(rx, n + 1, Len(rx)) \o todo
  PROVE  Kept(n)[k] = Asks(device) /\ Quiet(rest)
<1> DEFINE w == Said(buf, rx, todo)
           g == Len(Got(n))
<1>1. /\ \A i \in 1..Len(Kept(n)) : Kept(n)[i] = w[i] /\ i \in 1..Len(w) /\ i <= g
      /\ \A i \in 1..Len(rest) : rest[i] = w[g + i] /\ g + i \in 1..Len(w)
  BY ReadSplits
<1>2. /\ \A i \in 1..Len(w) : w[i] \in {Text(0), Asks(device)}
      /\ \A i, j \in 1..Len(w) : i < j /\ w[i] = Asks(device) => w[j] = Text(0)
  BY DEF LoginTalk
<1>3. g \in Nat /\ Len(Kept(n)) \in Nat
  <2>1. Got(n) \in Seq(Tokens) /\ Kept(n) \in Seq(Tokens)
    BY ReadKeeps DEF TypeInv
  <2> QED
    BY <2>1
<1> HIDE DEF w, g
<1>4. w[k] = Asks(device) /\ k \in 1..Len(w) /\ k <= g /\ Kept(n)[k] = w[k]
  BY <1>1, <1>2
<1>5. ASSUME NEW i \in 1..Len(rest)
      PROVE  rest[i] = Text(0)
  <2>1. rest[i] = w[g + i] /\ g + i \in 1..Len(w) /\ i \in Nat /\ i >= 1
    <3>1. rest[i] = w[g + i] /\ g + i \in 1..Len(w)
      BY <1>1, Zenon
    <3>2. i \in Nat /\ i >= 1
      OBVIOUS
    <3> QED
      BY <3>1, <3>2
  <2>2. k < g + i
    BY <1>3, <1>4, <2>1
  <2> QED
    BY <1>2, <1>4, <2>1, <2>2
<1> QED
  BY <1>4, <1>5 DEF Quiet

\* What shows while a command is answered is the prompt: its output is whole in the buffer,
\* and only the console talks after it.
LEMMA CommandMatch ==
  ASSUME SetUp, TypeInv, NEW n \in 1..Len(rx), CommandTalk(Said(buf, rx, todo), cmd),
         Shows(Kept(n)), NEW rest, rest = SubSeq(rx, n + 1, Len(rx)) \o todo
  PROVE  Own(Cleaned(Kept(n)), cmd) /\ Quiet(rest)
<1> DEFINE w == Said(buf, rx, todo)
           g == Len(Got(n))
           h == Kept(n)
           c == cmd
<1>1. /\ \A i \in 1..Len(h) : h[i] = w[i] /\ i \in 1..Len(w) /\ i <= g
      /\ \A i \in 1..Len(rest) : rest[i] = w[g + i] /\ g + i \in 1..Len(w)
  BY ReadSplits
<1>2. /\ \A k \in 1..Len(w) : w[k] \in {Text(0), Echo(c), Text(c), Prompt}
      /\ \A j, k \in 1..Len(w) :
           j < k /\ w[j] # Text(0) /\ w[k] # Text(0) => Precedes(w[j], w[k], c)
      /\ \E k \in 1..Len(w) : w[k] = Text(c)
  BY DEF CommandTalk
<1>3. g \in Nat /\ h \in Seq(Tokens) /\ Len(h) \in Nat /\ DOMAIN h = 1..Len(h)
  <2>1. Got(n) \in Seq(Tokens) /\ Kept(n) \in Seq(Tokens)
    BY ReadKeeps DEF TypeInv
  <2> QED
    BY <2>1
<1>4. c \in Nat \ {0}
  BY DEF TypeInv, SetUp
<1>5. Len(w) \in Nat
  <2>1. w \in Seq(Tokens)
    BY SaidAt DEF TypeInv
  <2> QED
    BY <2>1
<1>6. PICK p \in 1..Len(h) : h[p].hash
  BY <1>3 DEF Shows
<1> HIDE DEF w, g, h, c
<1>7. h[p] = Prompt /\ w[p] = Prompt /\ p \in 1..Len(w) /\ p <= g
  <2>1. h[p] = w[p] /\ p \in 1..Len(w) /\ p <= g
    BY <1>1
  <2>2. h[p] \in {Text(0), Echo(c), Text(c), Prompt}
    BY <1>2, <2>1
  <2>3. ~Text(0).hash /\ ~Echo(c).hash /\ ~Text(c).hash
    BY TokenFacts
  <2> QED
    BY <1>6, <2>1, <2>2, <2>3
<1>8. \A k \in 1..Len(w) : p < k => w[k] = Text(0)
  BY <1>2, <1>4, <1>7, PrecedesFacts
<1>9. ASSUME NEW i \in 1..Len(rest)
      PROVE  rest[i] = Text(0)
  <2>1. rest[i] = w[g + i] /\ g + i \in 1..Len(w) /\ i \in Nat /\ i >= 1
    BY <1>1, SMTT(60)
  <2>2. p < g + i
    BY <1>3, <1>7, <2>1
  <2> QED
    BY <1>8, <2>1, <2>2
<1>10. PICK t \in 1..Len(w) : w[t] = Text(c)
  BY <1>2
<1>11. t \in 1..Len(h) /\ h[t] = Text(c)
  <2>1. ~(p < t)
    BY <1>4, <1>8, <1>10, PrecedesFacts
  <2>2. t \in 1..Len(h)
    BY <1>3, <1>5, <2>1
  <2> QED
    BY <1>1, <1>10, <2>2
<1>12. ASSUME NEW j \in 1..Len(h), h[j] # Prompt, j # t,
              h[j] = Echo(c) => \E i \in 1..(j - 1) : h[i] = Echo(c)
       PROVE  h[j] = Text(0)
  <2>1. h[j] = w[j] /\ j \in 1..Len(w) /\ h[j] \in {Text(0), Echo(c), Text(c)}
    BY <1>1, <1>2, <1>12
  <2>2. ASSUME h[j] = Text(c)
        PROVE  FALSE
    <3>1. j < t \/ t < j
      BY <1>12
    <3> QED
      BY <1>2, <1>4, <1>10, <2>1, <2>2, <3>1, PrecedesFacts
  <2>3. ASSUME h[j] = Echo(c)
        PROVE  FALSE
    <3>1. PICK i \in 1..(j - 1) : h[i] = Echo(c)
      BY <1>12, <2>3
    <3>2. i \in 1..Len(h) /\ i < j
      BY <1>3, <3>1
    <3>3. w[i] = Echo(c) /\ i \in 1..Len(w)
      BY <1>1, <3>1, <3>2
    <3> QED
      BY <1>2, <1>4, <2>1, <2>3, <3>2, <3>3, PrecedesFacts
  <2> QED
    BY <2>1, <2>2, <2>3
<1>13. Own(Cleaned(h), c)
  <2> DEFINE firstEcho(k) == h[k] = Echo(c) /\ \A j \in 1..(k - 1) : h[j] # Echo(c)
             K == {k \in DOMAIN h : h[k] # Prompt /\ ~firstEcho(k)}
             o == [k \in K |-> h[k]]
  <2>1. Cleaned(h) = o
    BY DEF Cleaned, c
  <2>2. t \in K
    BY <1>3, <1>4, <1>11, PrecedesFacts
  <2>3. \A j \in K : j # t => h[j] = Text(0)
    BY <1>3, <1>12
  <2>4. \A j \in K : o[j] = h[j]
    OBVIOUS
  <2>5. DOMAIN o = K
    OBVIOUS
  <2> HIDE DEF o, K
  <2>6. h[t].cmd # 0 /\ Text(0).cmd = 0
    BY <1>4, <1>11, TokenFacts
  <2>7. o[t] = Text(c) /\ t \in DOMAIN o
    BY <1>11, <2>2, <2>4, <2>5
  <2>8. ASSUME NEW j \in DOMAIN o
        PROVE  o[j].cmd # 0 <=> j = t
    <3>1. j \in K /\ o[j] = h[j]
      BY <2>4, <2>5, <2>8
    <3>2. CASE j = t
      BY <2>6, <3>1, <3>2
    <3>3. CASE j # t
      BY <2>3, <2>6, <3>1, <3>3
    <3> QED
      BY <3>2, <3>3
  <2>9. Own(o, c)
    BY <2>7, <2>8 DEF Own
  <2> QED
    BY <2>1, <2>9
<1> QED
  BY <1>9, <1>13 DEF Quiet, h, c
\* What is quiet stays quiet when what has arrived is thrown away.
LEMMA QuietFlush ==
  ASSUME TypeInv, Quiet(rx \o todo), NEW b \in Seq(Tokens), b = <<>>
  PROVE  Quiet(todo) /\ Quiet(b \o todo)
<1>1. rx \in Seq(Tokens) /\ todo \in Seq(Tokens)
  BY DEF TypeInv
<1>2. /\ Len(rx \o todo) = Len(rx) + Len(todo) /\ Len(rx) \in Nat /\ Len(todo) \in Nat
      /\ \A k \in 1..Len(todo) : (rx \o todo)[Len(rx) + k] = todo[k]
  BY <1>1, ConcatAt
<1>3. Quiet(todo)
  <2> DEFINE w == rx \o todo
  <2> SUFFICES ASSUME NEW k \in 1..Len(todo)
               PROVE  todo[k] = Text(0)
    BY DEF Quiet
  <2>1. w[Len(rx) + k] = todo[k] /\ Len(rx) + k \in 1..Len(w)
    BY <1>2
  <2>2. \A i \in 1..Len(w) : w[i] = Text(0)
    BY DEF Quiet
  <2> QED
    BY <2>1, <2>2
<1>4. b \o todo = todo
  BY <1>1
<1> QED
  BY <1>3, <1>4

\* A shell's answer to a command.
LEMMA CommandAnswer ==
  ASSUME SetUp, Clean, TypeInv, device = "shell"
  PROVE  /\ Answer(cmd) \in Seq(Tokens) /\ Len(Answer(cmd)) = 3
         /\ Answer(cmd)[1] = Echo(cmd) /\ Answer(cmd)[2] = Text(cmd) /\ Answer(cmd)[3] = Prompt
<1>1. cmd \in 1..Commands /\ cmd \in Nat
  BY DEF TypeInv, SetUp
<1>2. Answer(cmd) = <<Echo(cmd)>> \o <<Text(cmd)>> \o <<Prompt>>
  BY <1>1 DEF Answer, Clean, Output
<1>3. Echo(cmd) \in Tokens /\ Text(cmd) \in Tokens /\ Prompt \in Tokens
  BY <1>1 DEF Echo, Text, Prompt, Token, Tokens
<1>4. ASSUME NEW x \in Tokens, NEW y \in Tokens, NEW z \in Tokens
      PROVE  /\ <<x>> \o <<y>> \o <<z>> \in Seq(Tokens) /\ Len(<<x>> \o <<y>> \o <<z>>) = 3
             /\ (<<x>> \o <<y>> \o <<z>>)[1] = x /\ (<<x>> \o <<y>> \o <<z>>)[2] = y
             /\ (<<x>> \o <<y>> \o <<z>>)[3] = z
  <2> DEFINE a == <<x>>
             b == <<y>>
             c == <<z>>
  <2>1. /\ a \in Seq(Tokens) /\ Len(a) = 1 /\ a[1] = x
        /\ b \in Seq(Tokens) /\ Len(b) = 1 /\ b[1] = y
        /\ c \in Seq(Tokens) /\ Len(c) = 1 /\ c[1] = z
    BY <1>4
  <2> HIDE DEF a, b, c
  <2>2. /\ a \o b \in Seq(Tokens) /\ Len(a \o b) = 2
        /\ (a \o b)[1] = x /\ (a \o b)[2] = y
    <3>1. /\ a \o b \in Seq(Tokens) /\ Len(a \o b) = Len(a) + Len(b)
          /\ \A k \in 1..Len(a) : (a \o b)[k] = a[k]
          /\ \A k \in 1..Len(b) : (a \o b)[Len(a) + k] = b[k]
      BY <2>1, ConcatAt
    <3>2. 1 \in 1..Len(a) /\ 1 \in 1..Len(b) /\ Len(a) + 1 = 2
      BY <2>1
    <3>3. (a \o b)[1] = a[1] /\ (a \o b)[2] = b[1]
      BY <3>1, <3>2
    <3> QED
      BY <2>1, <3>1, <3>3
  <2> DEFINE d == a \o b
  <2>3. d \in Seq(Tokens) /\ Len(d) = 2 /\ d[1] = x /\ d[2] = y
    BY <2>2
  <2> HIDE DEF d
  <2>4. /\ d \o c \in Seq(Tokens) /\ Len(d \o c) = 3
        /\ (d \o c)[1] = x /\ (d \o c)[2] = y /\ (d \o c)[3] = z
    <3>1. /\ d \o c \in Seq(Tokens) /\ Len(d \o c) = Len(d) + Len(c)
          /\ \A k \in 1..Len(d) : (d \o c)[k] = d[k]
          /\ \A k \in 1..Len(c) : (d \o c)[Len(d) + k] = c[k]
      BY <2>1, <2>3, ConcatAt
    <3>2. 1 \in 1..Len(d) /\ 2 \in 1..Len(d) /\ 1 \in 1..Len(c) /\ Len(d) + 1 = 3
      BY <2>1, <2>3
    <3>3. (d \o c)[1] = d[1] /\ (d \o c)[2] = d[2] /\ (d \o c)[3] = c[1]
      BY <3>1, <3>2
    <3> QED
      BY <2>1, <2>3, <3>1, <3>3
  <2> QED
    BY <2>4 DEF a, b, c, d
<1> QED
  BY <1>2, <1>3, <1>4

\* Behind what the console said comes the answer to the command, and that is all.
LEMMA QuietThenCommand ==
  ASSUME SetUp, Clean, TypeInv, Quiet(todo), device = "shell", Type(cmd),
         NEW b \in Seq(Tokens), b = <<>>
  PROVE  CommandTalk(Said(b, b, todo'), cmd)
<1> DEFINE a == Answer(cmd)
           u == todo
           c == cmd
<1>1. u \in Seq(Tokens) /\ c \in Nat \ {0}
  BY DEF TypeInv, SetUp
<1>2. todo' = u \o a
  BY DEF Type
<1>3. /\ a \in Seq(Tokens) /\ Len(a) = 3
      /\ a[1] = Echo(c) /\ a[2] = Text(c) /\ a[3] = Prompt
  BY CommandAnswer
<1>4. \A k \in 1..Len(u) : u[k] = Text(0)
  BY DEF Quiet
<1> HIDE DEF a, u, c
<1> DEFINE w == u \o a
           m == Len(u)
<1>5. /\ w \in Seq(Tokens) /\ Len(w) = m + 3 /\ m \in Nat
      /\ \A k \in 1..m : w[k] = Text(0)
      /\ w[m + 1] = Echo(c) /\ w[m + 2] = Text(c) /\ w[m + 3] = Prompt
  <2>1. /\ u \o a \in Seq(Tokens) /\ Len(u \o a) = Len(u) + Len(a) /\ Len(u) \in Nat
        /\ \A k \in 1..Len(u) : (u \o a)[k] = u[k]
        /\ \A k \in 1..Len(a) : (u \o a)[Len(u) + k] = a[k]
    BY <1>1, <1>3, ConcatAt
  <2>2. 1 \in 1..Len(a) /\ 2 \in 1..Len(a) /\ 3 \in 1..Len(a)
    BY <1>3
  <2> HIDE DEF w
  <2>3. w[m + 1] = a[1] /\ w[m + 2] = a[2] /\ w[m + 3] = a[3]
    BY <2>1, <2>2 DEF w
  <2>4. \A k \in 1..m : w[k] = Text(0)
    BY <1>4, <2>1 DEF w
  <2> QED
    BY <1>3, <2>1, <2>3, <2>4 DEF w
<1>6. Said(b, b, todo') = w
  BY <1>2, <1>5 DEF Said
<1> HIDE DEF w, m
<1>7. \A k \in 1..Len(w) : k \in 1..m \/ k = m + 1 \/ k = m + 2 \/ k = m + 3
  BY <1>5
<1>8. \A k \in 1..Len(w) : w[k] \in {Text(0), Echo(c), Text(c), Prompt}
  BY <1>5, <1>7
<1>9. ASSUME NEW j \in 1..Len(w), NEW k \in 1..Len(w), j < k, w[j] # Text(0), w[k] # Text(0)
      PROVE  Precedes(w[j], w[k], c)
  <2>1. j \in {m + 1, m + 2, m + 3} /\ k \in {m + 1, m + 2, m + 3}
    BY <1>5, <1>7, <1>9
  <2>2. \/ j = m + 1 /\ k = m + 2
        \/ j = m + 1 /\ k = m + 3
        \/ j = m + 2 /\ k = m + 3
    BY <1>5, <1>9, <2>1
  <2> QED
    BY <1>1, <1>5, <2>2, PrecedesFacts
<1>10. m + 2 \in 1..Len(w)
  BY <1>5
<1>11. CommandTalk(w, c)
  BY <1>5, <1>8, <1>9, <1>10 DEF CommandTalk
<1> QED
  BY <1>6, <1>11 DEF c

\* A result that is no answer adds nothing to those that were answered.
LEMMA OwnAppend ==
  ASSUME TypeInv, OwnSoFar, NEW r, results' = Append(results, r), r.status # "ok",
         results' \in Seq(Results), NEW n, n = Len(results)
  PROVE  /\ OwnSoFar'
         /\ results'[n + 1] = r
         /\ ~AnsweredUpTo(n + 1)'
         /\ AnsweredUpTo(n)' => AnsweredUpTo(n)
<1>1. /\ results \in Seq(Results) /\ n \in Nat
      /\ Len(results') = n + 1
      /\ \A i \in 1..n : results'[i] = results[i]
      /\ results'[n + 1] = r
  BY DEF TypeInv
<1>2. \A i \in 1..n : results[i] = results'[i]
  BY <1>1
<1>3. ASSUME NEW i \in 0..n, AnsweredUpTo(i)'
      PROVE  AnsweredUpTo(i)
  <2> SUFFICES ASSUME NEW j \in 1..i
               PROVE  results[j].status = "ok" /\ results[j].at = "shell"
    BY DEF AnsweredUpTo
  <2>1. results'[j].status = "ok" /\ results'[j].at = "shell"
    BY <1>3 DEF AnsweredUpTo
  <2>2. j \in 1..n
    BY <1>1
  <2> QED
    BY <1>1, <2>1, <2>2
<1>4. ~AnsweredUpTo(n + 1)'
  <2>1. n + 1 \in 1..(n + 1)
    BY <1>1
  <2> QED
    BY <1>1, <2>1 DEF AnsweredUpTo
<1>5. n \in 0..n
  BY <1>1
<1>6. \A i \in 1..(n + 1) : AnsweredUpTo(i)' => Own(results'[i].output, i)
  <2> SUFFICES ASSUME NEW i \in 1..(n + 1), AnsweredUpTo(i)'
               PROVE  Own(results'[i].output, i)
    OBVIOUS
  <2>1. i \in 1..n /\ i \in 0..n
    BY <1>1, <1>4
  <2>2. AnsweredUpTo(i)
    BY <1>3, <2>1
  <2> QED
    BY <1>1, <2>1, <2>2 DEF OwnSoFar
<1>7. OwnSoFar'
  BY <1>1, <1>6 DEF OwnSoFar
<1> QED
  BY <1>1, <1>3, <1>4, <1>5, <1>7

\* The answer to a command is its own if those before it were answered.
LEMMA OwnReport ==
  ASSUME SetUp, TypeInv, CountInv, OwnSoFar, tool = "await", NEW c, c = cmd,
         NEW s \in Answers, NEW b \in Seq(Tokens), Report(s, b),
         s = "ok" /\ AnsweredUpTo(c - 1) /\ results[c].at = "shell" => Own(Cleaned(b), c)
  PROVE  /\ OwnSoFar'
         /\ AnsweredUpTo(c)' => s = "ok" /\ AnsweredUpTo(c - 1) /\ results[c].at = "shell"
         /\ \/ tool' = "send" /\ cmd' = c + 1
            \/ tool' = "close"
<1>1. /\ results' \in Seq(Results) /\ Len(results') = Len(results)
      /\ \A i \in 1..Len(results) : i # cmd => results'[i] = results[i]
      /\ cmd \in 1..Len(results) =>
           /\ results'[cmd].status = s
           /\ results'[cmd].at = results[cmd].at
           /\ results'[cmd].output = Cleaned(b)
      /\ \/ tool' = "send" /\ cmd' = cmd + 1
         \/ tool' = "close"
  BY ReportType
<1>2. Len(results) = c /\ c \in Nat /\ c >= 1 /\ c \in 1..Len(results)
  BY DEF TypeInv, SetUp, CountInv
<1>3. /\ \A i \in 1..c : i # c => results'[i] = results[i]
      /\ results'[c].status = s /\ results'[c].at = results[c].at
      /\ results'[c].output = Cleaned(b)
  BY <1>1, <1>2
<1>4. ASSUME AnsweredUpTo(c)'
      PROVE  s = "ok" /\ AnsweredUpTo(c - 1) /\ results[c].at = "shell"
  <2>1. \A j \in 1..c : results'[j].status = "ok" /\ results'[j].at = "shell"
    BY <1>4 DEF AnsweredUpTo
  <2>2. \A j \in 1..(c - 1) : j \in 1..c /\ j # c
    BY <1>2
  <2>3. c \in 1..c
    BY <1>2
  <2>4. \A j \in 1..(c - 1) : results[j].status = "ok" /\ results[j].at = "shell"
    BY <1>3, <2>1, <2>2
  <2>5. AnsweredUpTo(c - 1)
    BY <2>4 DEF AnsweredUpTo
  <2> QED
    BY <1>3, <2>1, <2>3, <2>5
<1>5. \A i \in 1..c : AnsweredUpTo(i)' => Own(results'[i].output, i)
  <2> SUFFICES ASSUME NEW i \in 1..c, AnsweredUpTo(i)'
               PROVE  Own(results'[i].output, i)
    OBVIOUS
  <2>1. CASE i = c
    <3>1. Own(Cleaned(b), c)
      BY <1>4, <2>1
    <3> QED
      BY <1>3, <2>1, <3>1
  <2>2. CASE i # c
    <3>1. \A j \in 1..i : j \in 1..c /\ j # c
      BY <1>2, <2>2
    <3>2. \A j \in 1..i : results'[j].status = "ok" /\ results'[j].at = "shell"
      BY DEF AnsweredUpTo
    <3>3. AnsweredUpTo(i)
      BY <1>3, <3>1, <3>2 DEF AnsweredUpTo
    <3> QED
      BY <1>2, <1>3, <2>2, <3>3 DEF OwnSoFar
  <2> QED
    BY <2>1, <2>2
<1>6. OwnSoFar'
  BY <1>1, <1>2, <1>5 DEF OwnSoFar
<1> QED
  BY <1>1, <1>4, <1>6
-----------------------------------------------------------------------------
(* Every step keeps Talk.                                                  *)

\* A step that leaves the tool where it is and only moves what is on its way.
LEMMA TalkStays ==
  ASSUME Talk, UNCHANGED <<tool, cmd, buf, results, device, profile>>,
         Quiet(rx \o todo) => Quiet(rx' \o todo'),
         \A d \in {"login", "password", "shell"} :
           LoginTalk(Said(buf, rx, todo), d) => LoginTalk(Said(buf, rx', todo'), d),
         CommandTalk(Said(buf, rx, todo), cmd) => CommandTalk(Said(buf, rx', todo'), cmd),
         device \in {"login", "password", "shell"}
  PROVE  Talk'
BY DEF Talk, Waiting, Matches, Capped, AnsweredUpTo, OwnSoFar

\* The tool goes on to wait for something else at the login, having typed or not.
LEMMA TalkAfterTyping ==
  ASSUME SetUp, Clean, TypeInv, Talk, Quiet(rx \o todo), NEW l, l \notin 1..Commands,
         TypeBlindly(l), tool' \in {"login", "password", "prompt"},
         buf' = <<>>, UNCHANGED <<cmd, results, rx, profile>>
  PROVE  Talk'
<1>1. LoginTalk(Said(buf', rx', todo'), device')
  <2>1. ASSUME NEW b \in Seq(Tokens), b = <<>>
        PROVE  LoginTalk(Said(b, rx, todo'), device')
    BY <2>1, QuietThenLogin
  <2>2. <<>> \in Seq(Tokens)
    OBVIOUS
  <2> QED
    BY <2>1, <2>2
<1>2. ~Matches(buf)'
  BY DEF Matches, Shows, ShowsKind
<1>3. OwnSoFar'
  BY DEF Talk, OwnSoFar, AnsweredUpTo
<1>4. Len(buf') <= MaxBuffer
  BY DEF SetUp
<1> QED
  BY <1>1, <1>2, <1>3, <1>4 DEF Talk, Waiting

\* Sending a command where nothing else is on its way.
LEMMA TalkAfterSend ==
  ASSUME SetUp, Clean, TypeInv, CountInv, Talk, Send
  PROVE  Talk'
<1>0. /\ tool = "send" /\ tool' = "await" /\ rx' = <<>> /\ buf' = <<>> /\ Type(cmd)
      /\ cmd' = cmd /\ UNCHANGED profile
      /\ results' = Append(results, [status |-> "sent", output |-> <<>>, at |-> device])
  BY DEF Send, fixed
<1> DEFINE c == cmd
           r == [status |-> "sent", output |-> <<>>, at |-> device]
<1>1. Len(results) = c - 1 /\ c \in Nat
  BY <1>0 DEF TypeInv, SetUp, CountInv
<1>2. results' \in Seq(Results)
  BY NextType DEF Next, Tool, TypeInv
<1>3. ASSUME NEW n, n = Len(results)
      PROVE  /\ OwnSoFar' /\ results'[n + 1] = r
             /\ AnsweredUpTo(n)' => AnsweredUpTo(n)
  BY <1>0, <1>2, <1>3, OwnAppend DEF Talk
<1>4. OwnSoFar' /\ results'[c].at = device /\ (AnsweredUpTo(cmd - 1)' => AnsweredUpTo(cmd - 1))
  <2>1. (c - 1) + 1 = c
    BY <1>1
  <2>2. ASSUME NEW n, n = c - 1
        PROVE  /\ OwnSoFar' /\ results'[n + 1].at = device
               /\ AnsweredUpTo(n)' => AnsweredUpTo(n)
    BY <1>1, <1>3, <2>2
  <2>3. OwnSoFar' /\ results'[(c - 1) + 1].at = device
    BY <2>2
  <2>4. AnsweredUpTo(cmd - 1)' => AnsweredUpTo(cmd - 1)
    BY <1>0, <2>2 DEF AnsweredUpTo
  <2> QED
    BY <2>1, <2>3, <2>4
<1>5. ~Matches(buf)'
  BY <1>0 DEF Matches, Shows, ShowsKind
<1>6. Len(buf') <= MaxBuffer
  BY <1>0 DEF SetUp
<1>7. (profile.login)' => device' = "shell"
  BY <1>0 DEF Talk, Type, Becomes
<1>8. ASSUME AnsweredUpTo(cmd - 1)', results'[cmd'].at = "shell"
      PROVE  CommandTalk(Said(buf', rx', todo'), cmd')
  <2>1. Quiet(rx \o todo) /\ device = "shell"
    BY <1>0, <1>4, <1>8 DEF Talk
  <2>2. <<>> \in Seq(Tokens)
    OBVIOUS
  <2>3. Quiet(todo)
    BY <2>1, <2>2, QuietFlush
  <2>4. ASSUME NEW b \in Seq(Tokens), b = <<>>
        PROVE  CommandTalk(Said(b, b, todo'), cmd)
    BY <1>0, <2>1, <2>3, <2>4, QuietThenCommand
  <2> QED
    BY <1>0, <2>2, <2>4
<1> QED
  BY <1>0, <1>4, <1>5, <1>6, <1>7, <1>8 DEF Talk, Waiting

\* A command that could not be sent.
LEMMA TalkAfterFailure ==
  ASSUME SetUp, TypeInv, CountInv, Talk, SendFails
  PROVE  Talk'
<1>0. /\ tool = "send" /\ rx' = <<>> /\ Advance
      /\ UNCHANGED <<buf, todo, device, profile>>
      /\ results' = Append(results, [status |-> "error", output |-> <<>>, at |-> "none"])
  BY DEF SendFails, fixed
<1>1. \/ tool' = "send" /\ cmd' = cmd + 1
      \/ tool' = "close"
  BY <1>0 DEF Advance
<1>2. results' \in Seq(Results)
  BY NextType DEF Next, Tool, TypeInv
<1>3. ASSUME NEW n, n = Len(results)
      PROVE  OwnSoFar' /\ ~AnsweredUpTo(n + 1)'
  BY <1>0, <1>2, <1>3, OwnAppend DEF Talk
<1>4. OwnSoFar' /\ (cmd' = cmd + 1 => ~AnsweredUpTo(cmd - 1)')
  <2>1. Len(results) = cmd - 1 /\ cmd \in Nat
    BY <1>0 DEF TypeInv, SetUp, CountInv
  <2>2. ASSUME NEW n, n = cmd - 1
        PROVE  OwnSoFar' /\ ~AnsweredUpTo(n + 1)'
    BY <1>3, <2>1, <2>2
  <2>3. (cmd - 1) + 1 = (cmd + 1) - 1
    BY <2>1
  <2> QED
    BY <2>2, <2>3 DEF AnsweredUpTo
<1> QED
  BY <1>0, <1>1, <1>4 DEF Talk, Waiting

\* The answer to a command, or what there was of it at the deadline.
LEMMA TalkAfterReport ==
  ASSUME SetUp, TypeInv, CountInv, Talk, tool = "await", NEW c, c = cmd,
         NEW s \in Answers, NEW b \in Seq(Tokens), Report(s, b),
         s = "ok" /\ AnsweredUpTo(c - 1) /\ results[c].at = "shell" =>
           Own(Cleaned(b), c) /\ Quiet(rx' \o todo'),
         Len(buf') <= MaxBuffer, UNCHANGED <<device, profile>>
  PROVE  Talk'
<1>1. /\ OwnSoFar'
      /\ AnsweredUpTo(c)' => s = "ok" /\ AnsweredUpTo(c - 1) /\ results[c].at = "shell"
      /\ \/ tool' = "send" /\ cmd' = c + 1
         \/ tool' = "close"
  BY OwnReport DEF Talk
<1>2. c \in Nat /\ (c + 1) - 1 = c
  BY DEF TypeInv, SetUp
<1>3. tool' = "send" => (AnsweredUpTo(cmd - 1)' => Quiet(rx' \o todo'))
  <2>1. tool' = "send" /\ AnsweredUpTo(cmd - 1)' => AnsweredUpTo(c)'
    BY <1>1, <1>2 DEF AnsweredUpTo
  <2> QED
    BY <1>1, <2>1
<1> QED
  BY <1>1, <1>3 DEF Talk, Waiting
\* A read that shows nothing leaves the tool waiting.
LEMMA TalkAfterNothing ==
  ASSUME SetUp, TypeInv, Talk, Waiting, NEW n \in 1..Len(rx), buf' = Kept(n),
         rx' = SubSeq(rx, n + 1, Len(rx)), ~Matches(Kept(n)),
         UNCHANGED <<tool, cmd, results, todo, device, profile>>
  PROVE  Talk'
<1> DEFINE h == Kept(n)
           rest == SubSeq(rx, n + 1, Len(rx)) \o todo
           w == Said(buf, rx, todo)
<1>1. /\ h \in Seq(Tokens) /\ Len(h) <= MaxBuffer
      /\ Len(h) = Len(Got(n)) \/ Len(h) = MaxBuffer
      /\ Len(h) \in Nat /\ MaxBuffer \in Nat
  <2>1. h \in Seq(Tokens) /\ Len(h) <= MaxBuffer /\ (Len(h) = Len(Got(n)) \/ Len(h) = MaxBuffer)
    BY ReadKeeps DEF TypeInv
  <2> HIDE DEF h
  <2> QED
    BY <2>1 DEF SetUp
<1>2. Len(h) = Len(Got(n)) => w = h \o rest
  BY ReadSplits
<1>3. Said(buf', rx', todo') = h \o rest
  BY DEF Said
<1>4. Capped => Len(h) >= MaxBuffer
  BY CappedRead DEF Talk
<1>5. Capped' <=> Len(h) >= MaxBuffer
  BY DEF Capped
<1>6. ~Matches(buf)'
  BY DEF Matches
<1>7. OwnSoFar' /\ (AnsweredUpTo(cmd - 1)' <=> AnsweredUpTo(cmd - 1))
  BY DEF Talk, OwnSoFar, AnsweredUpTo
<1> HIDE DEF h, w, rest
<1>8. Len(buf') <= MaxBuffer
  BY <1>1 DEF h
<1>9. Capped' \/ (~Capped /\ Said(buf', rx', todo') = w)
  <2>1. CASE Len(h) = MaxBuffer
    BY <1>1, <1>5, <2>1
  <2>2. CASE Len(h) = Len(Got(n))
    BY <1>2, <1>3, <1>4, <1>5, <2>2
  <2> QED
    BY <1>1, <2>1, <2>2
<1> QED
  BY <1>6, <1>7, <1>8, <1>9 DEF Talk, Waiting, w

\* A read that shows what the tool waits for at the login: the device has asked for what
\* the tool goes on to send.
LEMMA TalkAfterLogin ==
  ASSUME SetUp, TypeInv, Talk, tool \in {"login", "password", "prompt"},
         NEW n \in 1..Len(rx), buf' = Kept(n),
         rx' = SubSeq(rx, n + 1, Len(rx)), Matches(Kept(n)), tool' = After(Kept(n)),
         UNCHANGED <<cmd, results, todo, device, profile>>
  PROVE  Talk'
<1> DEFINE h == Kept(n)
           rest == SubSeq(rx, n + 1, Len(rx)) \o todo
<1>1. h \in Seq(Tokens) /\ Len(h) <= MaxBuffer
  BY ReadKeeps DEF TypeInv
<1>2. DOMAIN h = 1..Len(h)
  BY <1>1
<1>3. ~Capped
  BY CappedRead DEF Talk, Waiting
<1>4. LoginTalk(Said(buf, rx, todo), device) /\ device \in {"login", "password", "shell"}
  BY <1>3 DEF Talk, TypeInv
<1>5. ASSUME NEW k \in 1..Len(h), h[k] # Text(0)
      PROVE  h[k] = Asks(device) /\ Quiet(rest)
  BY <1>4, <1>5, LoginMatch
<1>6. rx' \o todo' = rest
  OBVIOUS
<1>7. OwnSoFar'
  BY DEF Talk, OwnSoFar, AnsweredUpTo
<1> HIDE DEF h, rest
<1>8. \/ tool' = "username" /\ \E k \in 1..Len(h) : h[k].kind = "login"
      \/ tool' = "secret" /\ \E k \in 1..Len(h) : h[k].kind = "password"
      \/ tool' = "send" /\ \E k \in 1..Len(h) : h[k].hash
  BY <1>2 DEF After, Matches, Shows, ShowsKind, h
<1>9. /\ Quiet(rest)
      /\ \/ tool' = "username" /\ device = "login"
         \/ tool' = "secret" /\ device = "password"
         \/ tool' = "send" /\ device = "shell"
  <2>1. ASSUME NEW k \in 1..Len(h), h[k].kind = "login"
        PROVE  device = "login" /\ Quiet(rest)
    BY <1>4, <1>5, <2>1, TokenFacts DEF Asks
  <2>2. ASSUME NEW k \in 1..Len(h), h[k].kind = "password"
        PROVE  device = "password" /\ Quiet(rest)
    BY <1>4, <1>5, <2>2, TokenFacts DEF Asks
  <2>3. ASSUME NEW k \in 1..Len(h), h[k].hash
        PROVE  device = "shell" /\ Quiet(rest)
    BY <1>4, <1>5, <2>3, TokenFacts DEF Asks
  <2> QED
    BY <1>8, <2>1, <2>2, <2>3
<1> QED
  BY <1>1, <1>6, <1>7, <1>9 DEF Talk, Waiting, h

\* A read.
LEMMA TalkAfterRead ==
  ASSUME SetUp, TypeInv, CountInv, Talk, Read
  PROVE  Talk'
<1>1. PICK n \in 1..Len(rx) :
        /\ buf' = Kept(n)
        /\ rx' = SubSeq(rx, n + 1, Len(rx))
        /\ IF ~Matches(Kept(n)) THEN UNCHANGED <<tool, cmd, results>>
           ELSE IF tool = "await" THEN Report("ok", Kept(n))
           ELSE tool' = After(Kept(n)) /\ UNCHANGED <<cmd, results>>
  BY DEF Read, Kept, Got
<1>2. Waiting /\ UNCHANGED <<todo, device, profile>>
  BY DEF Read, fixed
<1>3. CASE ~Matches(Kept(n))
  BY <1>1, <1>2, <1>3, TalkAfterNothing
<1>4. CASE Matches(Kept(n)) /\ tool # "await"
  <2>1. tool \in {"login", "password", "prompt"}
    BY <1>2, <1>4 DEF Waiting
  <2> QED
    BY <1>1, <1>2, <1>4, <2>1, TalkAfterLogin
<1>5. CASE Matches(Kept(n)) /\ tool = "await"
  <2>1. Report("ok", Kept(n)) /\ Shows(Kept(n))
    BY <1>1, <1>5 DEF Matches
  <2>2. Kept(n) \in Seq(Tokens) /\ Len(Kept(n)) <= MaxBuffer
    BY ReadKeeps DEF TypeInv
  <2>3. ~Capped
    BY <1>2, <1>5, CappedRead DEF Talk
  <2>4. rx' \o todo' = SubSeq(rx, n + 1, Len(rx)) \o todo
    BY <1>1, <1>2
  <2>5. ASSUME NEW c, c = cmd, AnsweredUpTo(c - 1), results[c].at = "shell"
        PROVE  Own(Cleaned(Kept(n)), c) /\ Quiet(rx' \o todo')
    <3>1. CommandTalk(Said(buf, rx, todo), cmd)
      BY <1>5, <2>3, <2>5 DEF Talk
    <3> QED
      BY <2>1, <2>4, <2>5, <3>1, CommandMatch
  <2>6. ASSUME NEW c, c = cmd
        PROVE  Talk'
    BY <1>1, <1>2, <1>5, <2>1, <2>2, <2>5, <2>6, TalkAfterReport DEF Answers
  <2> QED
    BY <2>6
<1> QED
  BY <1>3, <1>4, <1>5

\* Whatever is said has a length.
LEMMA SaidLength ==
  ASSUME TypeInv
  PROVE  Len(rx \o todo) \in Nat /\ Len(Said(buf, rx, todo)) \in Nat
<1>1. rx \o todo \in Seq(Tokens) /\ Said(buf, rx, todo) \in Seq(Tokens)
  BY SaidAt DEF TypeInv
<1>2. \A w \in Seq(Tokens) : Len(w) \in Nat
  OBVIOUS
<1> QED
  BY <1>1, <1>2

\* Every step keeps Talk, on a line where only prompts look like prompts.
LEMMA NextTalk ==
  ASSUME SetUp, Clean, TypeInv, CountInv, Talk, [Next]_vars
  PROVE  Talk'
<1>2. CASE Refuse
  BY <1>2 DEF Refuse, line, fixed, Talk, Waiting, OwnSoFar, AnsweredUpTo
<1>3. CASE Open
  <2>1. <<>> \in Seq(Tokens)
    OBVIOUS
  <2>2. buf' = <<>> /\ Quiet(rx' \o todo')
    <3>1. buf = <<>> /\ Quiet(rx \o todo)
      BY <1>3 DEF Open, Talk
    <3> QED
      BY <1>3, <2>1, <3>1, QuietFlush DEF Open
  <2> QED
    BY <1>3, <2>2 DEF Open, fixed, Talk, Waiting, OwnSoFar, AnsweredUpTo
<1>4. CASE SkipLogin
  BY <1>4 DEF SkipLogin, line, fixed, Talk, Waiting, OwnSoFar, AnsweredUpTo
<1>5. CASE Tickle
  <2>1. /\ Quiet(rx \o todo) /\ TypeBlindly(Enter) /\ tool' = "login" /\ buf' = <<>>
        /\ UNCHANGED <<cmd, results, rx, profile>>
    BY <1>5 DEF Tickle, Talk, fixed
  <2>2. Enter \notin 1..Commands
    BY DEF Enter, SetUp
  <2> QED
    BY <2>1, <2>2, TalkAfterTyping
<1>6. CASE SendUsername
  <2>1. /\ Quiet(rx \o todo) /\ TypeBlindly(User) /\ tool' \in {"password", "prompt"}
        /\ buf' = <<>> /\ UNCHANGED <<cmd, results, rx, profile>>
    BY <1>6 DEF SendUsername, Talk, fixed
  <2>2. User \notin 1..Commands
    BY DEF User, SetUp
  <2> QED
    BY <2>1, <2>2, TalkAfterTyping
<1>7. CASE SendPassword
  <2>1. /\ Quiet(rx \o todo) /\ TypeBlindly(Pass) /\ tool' = "prompt"
        /\ buf' = <<>> /\ UNCHANGED <<cmd, results, rx, profile>>
    BY <1>7 DEF SendPassword, Talk, fixed
  <2>2. Pass \notin 1..Commands
    BY DEF Pass, SetUp
  <2> QED
    BY <2>1, <2>2, TalkAfterTyping
<1>8. CASE Send
  BY <1>8, TalkAfterSend
<1>9. CASE SendFails
  BY <1>9, TalkAfterFailure
<1>10. CASE Read
  BY <1>10, TalkAfterRead
<1>11. CASE TimeOut
  <2>1. UNCHANGED <<buf, rx, todo, device, profile>> /\ Len(buf') <= MaxBuffer
    BY <1>11 DEF TimeOut, line, fixed, Talk
  <2>2. CASE tool = "await"
    <3>1. Report("timeout", buf) /\ buf \in Seq(Tokens)
      BY <1>11, <2>2 DEF TimeOut, TypeInv
    <3>2. ASSUME NEW c, c = cmd
          PROVE  Talk'
      BY <2>1, <2>2, <3>1, <3>2, TalkAfterReport DEF Answers
    <3> QED
      BY <3>2
  <2>3. CASE tool # "await"
    <3>1. tool' = "close" /\ UNCHANGED <<cmd, results>>
      BY <1>11, <2>3 DEF TimeOut
    <3> QED
      BY <2>1, <3>1 DEF Talk, Waiting, OwnSoFar, AnsweredUpTo
  <2> QED
    BY <2>2, <2>3
<1>12. CASE Close
  BY <1>12 DEF Close, line, fixed, Talk, Waiting, OwnSoFar, AnsweredUpTo
<1>13. device \in {"login", "password", "shell"}
  BY DEF TypeInv
<1>14. CASE Arrive
  <2>1. UNCHANGED <<tool, cmd, buf, results, device, profile>>
    BY <1>14 DEF Arrive, call, fixed
  <2>2. Len(rx \o todo) \in Nat /\ Len(Said(buf, rx, todo)) \in Nat
    BY SaidLength
  <2>3. /\ Same(rx \o todo, rx' \o todo')
        /\ Same(Said(buf, rx, todo), Said(buf, rx', todo'))
    BY <1>14, ArriveSame
  <2> QED
    BY <1>13, <2>1, <2>2, <2>3, SameKeeps, TalkStays
<1>15. CASE Chat
  <2>1. UNCHANGED <<tool, cmd, buf, results, device, profile>>
    BY <1>15 DEF Chat, call, fixed
  <2>2. Len(rx \o todo) \in Nat /\ Len(Said(buf, rx, todo)) \in Nat
    BY SaidLength
  <2>3. /\ Inserted(rx \o todo, rx' \o todo', Len(rx))
        /\ Inserted(Said(buf, rx, todo), Said(buf, rx', todo'), Len(buf) + Len(rx))
    BY <1>15, ChatInserts
  <2> QED
    BY <1>13, <2>1, <2>2, <2>3, InsertedKeeps, TalkStays
<1>16. CASE Expire \/ UNCHANGED vars
  <2>1. UNCHANGED <<tool, cmd, buf, results, device, profile, rx, todo>>
    BY <1>16 DEF Expire, vars, call, line, fixed
  <2> QED
    BY <1>13, <2>1, TalkStays
<1> QED
  BY <1>2, <1>3, <1>4, <1>5, <1>6, <1>7, <1>8, <1>9, <1>10, <1>11, <1>12, <1>14, <1>15,
     <1>16 DEF Next, Tool

\* Nothing is on its way when a call begins on a clean line.
LEMMA InitTalk ==
  ASSUME SetUp, Init, Clean
  PROVE  Talk
<1>1. rx = <<>> /\ todo = <<>> /\ buf = <<>> /\ tool = "idle" /\ results = <<>>
  BY DEF Init, Clean
<1>2. Quiet(rx \o todo)
  BY <1>1 DEF Quiet
<1>3. OwnSoFar /\ Len(buf) <= MaxBuffer
  BY <1>1 DEF OwnSoFar, SetUp
<1> QED
  BY <1>1, <1>2, <1>3 DEF Talk, Waiting

TalkInv == TypeInv /\ CountInv /\ (Clean => Talk)

\* The strengthened invariant of a call holds when it begins.
LEMMA InitInv ==
  ASSUME SetUp, Init
  PROVE  TalkInv
BY InitCount, InitTalk DEF TalkInv

\* And every step keeps it.
LEMMA NextInv ==
  ASSUME SetUp, TalkInv, [Next]_vars
  PROVE  TalkInv'
<1>1. TypeInv' /\ CountInv'
  BY NextType, NextCount DEF TalkInv
<1>2. Clean' <=> Clean
  BY DEF Clean, Next, Tool, Refuse, Open, SkipLogin, Tickle, SendUsername, SendPassword, Send,
         SendFails, Read, TimeOut, Close, Arrive, Chat, Expire, fixed, vars
<1>3. Clean => Talk'
  BY NextTalk DEF TalkInv
<1> QED
  BY <1>1, <1>2, <1>3 DEF TalkInv

\* It is more than is asked of the answer.
LEMMA InvAnswers ==
  ASSUME TalkInv
  PROVE  OwnOutput /\ ClosedAndDone
<1>1. OwnOutput
  <2> SUFFICES ASSUME Clean, NEW i \in DOMAIN results,
                      \A j \in 1..i : results[j].status = "ok" /\ results[j].at = "shell"
               PROVE  Own(results[i].output, i)
    BY DEF OwnOutput, Own
  <2>1. i \in 1..Len(results)
    BY DEF TalkInv, TypeInv
  <2> QED
    BY <2>1 DEF TalkInv, Talk, OwnSoFar, AnsweredUpTo
<1>2. ClosedAndDone
  BY DEF TalkInv, TypeInv, CountInv, ClosedAndDone
<1> QED
  BY <1>1, <1>2

\* And of what is typed.
LEMMA InvTypes ==
  ASSUME TalkInv, Clean
  PROVE  /\ tool = "send" /\ profile.login => device = "shell"
         /\ tool = "secret" => device = "password"
BY DEF TalkInv, Talk

\* Whatever the answer, the port is closed with it; and it is ok only if every command has
\* been sent and answered.
THEOREM AlwaysClosedAndDone == SetUp => (Spec => []ClosedAndDone)
<1> SUFFICES ASSUME SetUp
             PROVE  Spec => []ClosedAndDone
  OBVIOUS
<1> QED
  BY InitInv, NextInv, InvAnswers, PTL DEF Spec

\* Whoever was answered has got the output of his own command and the whole of it, however
\* the answers were cut up on the way and whatever the console said in between.
THEOREM OutputIsOwn == SetUp => (Spec => []OwnOutput)
<1> SUFFICES ASSUME SetUp
             PROVE  Spec => []OwnOutput
  OBVIOUS
<1> QED
  BY InitInv, NextInv, InvAnswers, PTL DEF Spec

\* On a clean line a tool that logs in types its commands to a shell, and a password is
\* typed only where one has been asked for.
THEOREM TypesWhereAsked == SetUp => (Spec => TypedWhereAsked)
<1> SUFFICES ASSUME SetUp
             PROVE  Spec => TypedWhereAsked
  OBVIOUS
<1>1. TalkInv =>
        [/\ (tool = "send" /\ tool' = "await" /\ Clean /\ profile.login) => device = "shell"
         /\ (tool = "secret" /\ tool' = "prompt" /\ Clean) => device = "password"]_vars
  BY InvTypes
<1> QED
  BY <1>1, InitInv, NextInv, PTL DEF Spec, TypedWhereAsked
=============================================================================
