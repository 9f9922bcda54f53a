-------------------------------- MODULE MCTools --------------------------------
(***************************************************************************)
(* Model checking of what one call comes to, from the text around it to    *)
(* its answer.  A behaviour follows one of the parts: a call of shell_exec *)
(* (Shell), of serial_exec (Serial) or of a file tool (Files), the replies *)
(* of the model one after the other (Request), or a text that is read: a   *)
(* setting, a list of what is allowed, a device, an endpoint.              *)
(* They share no state, and calls follow each other, so nothing is lost by *)
(* following one at a time.                                                *)
(***************************************************************************)
EXTENDS MCShell

CONSTANTS
  Commands, MaxBuffer, MaxLine,                 (* Serial   *)
  Backends, MaxCalls, MaxArrays, MaxCounter,    (* Provider *)
  MaxTools,                                     (* Request  *)
  MaxFile, MaxDepth, MaxMoves,                  (* Files    *)
  MaxEntries, MaxRules, MaxDevices, MaxCommands

VARIABLES
  part,                                                   (* what is followed *)
  stool, cmd, port, buf, late, results, status, rx, todo, device, profile, stale,
  backend, counter, phase, reply, response, ran,
  args, at, size, got, stack, found, answer, disk, file, linked, moves, seen,
  input                                                   (* a text that is read *)

serial   == <<stool, cmd, port, buf, late, results, status, rx, todo, device, profile, stale>>
provider == <<backend, counter, phase, reply, response, ran>>
files    == <<args, at, size, got, stack, found, answer, disk, file, linked, moves, seen>>

-----------------------------------------------------------------------------
(* Serial: a device in any state that may still have an answer on its way, *)
(* with and without a login.                                               *)

Profiles ==
  {p \in [login : BOOLEAN, password : BOOLEAN, asks : BOOLEAN, accepts : BOOLEAN,
          banner : BOOLEAN, hash : BOOLEAN, chatty : BOOLEAN] :
     /\ p.password => p.login
     /\ p.accepts => p.asks
     /\ p.banner => p.login
     /\ p.chatty => p.accepts /\ p.password /\ ~p.hash /\ ~p.banner}

Leftovers ==
  LET token(kind, hash) == [kind |-> kind, cmd |-> 0, hash |-> hash]
  IN  {<<>>, <<token("login", FALSE)>>, <<token("text", FALSE), token("prompt", TRUE)>>}

Ser == INSTANCE Serial WITH tool <- stool

(* Request: two of three tools fit the registry.                           *)

R == INSTANCE Request WITH
       Registrations <- <<[name |-> "usable", exec |-> "a"], [name |-> "none", exec |-> "b"],
                          [name |-> "second", exec |-> "c"], [name |-> "third", exec |-> "d"]>>

(* Files: a directory with a file, a hidden one and a directory too deep   *)
(* to be searched from the top.                                            *)

Nodes == {".", "d", "d/f", "d/e", "d/e/g", "d/.h"}

Up == [n \in Nodes \ {"."} |->
         CASE n = "d" -> "." [] n = "d/e/g" -> "d/e" [] OTHER -> "d"]

File(c) == [kind |-> "file", data |-> c]

Disks ==
  {[n \in Nodes |-> CASE n \in {".", "d", "d/e"} -> [kind |-> "directory", data |-> <<>>]
                      [] n = "d/f" -> f
                      [] OTHER -> File(<<"a">>)] :
     f \in {[kind |-> "none", data |-> <<>>], File(<<"control", "a", "nul">>),
            File(<<"c", "c", "c", "c">>)}}

F == INSTANCE Files WITH
       Cwd <- ".", Hidden <- {"d/.h"}, Matching <- Nodes, Pseudo <- {"d/e/g"},
       Permitted <- Nodes \ {"d/.h"}, Data <- <<"x", "y", "z">>,
       Contents <- {<<"a">>, <<"control", "a", "nul">>, <<"c", "c", "c", "c">>}

(* Texts.                                                                  *)

S == INSTANCE Settings
A == INSTANCE Allowlist
D == INSTANCE Devices
E == INSTANCE Endpoint

Keys == {"key", "other", "third"}

\* Settings are asked for under "key".
Sources ==
  [shell : {S!Unset, S!Empty, "a"},
   env   : BoundedSeq({S!Line("key", S!Empty), S!Line("key", "b"), S!Line("other", "b")}, 2),
   conf  : BoundedSeq({S!Line(k, v) : k \in Keys, v \in {S!Empty, "c"}}, 4)]

Levels ==
  [env : {S!Unset, S!Empty, "info", "loud"}, flag : {S!Unset, S!Empty, "debug", "loud"},
   conf : BoundedSeq({S!Line(k, v) : k \in {"level", "other"}, v \in {S!Empty, "error"}}, 3)]

Asked ==
  [list : A!Lists, value : {<<"a">>, <<"b">>, <<"a", " ", "b">>, <<"b", "a">>},
   file : BoundedSeq({A!Section(l) : l \in A!Lists}
                       \cup {A!Allow(<<p>>) : p \in {<<"a">>, <<"b">>, <<"*", "b">>}}
                       \cup {A!Allow(<<<<"b">>, <<>>, <<"a", " ", "*">>>>), A!OtherLine}, 3)]

DeviceCalls ==
  [call : [device : {D!Blank, "a"}, commands : {0, 3},
           fields : [port : {D!Absent, D!Blank, "q"}, username : {D!Absent, D!Blank},
                     baud : {D!Absent, "1"}, prompt : {D!Absent}]],
   file : BoundedSeq({D!Header("a"), D!Header("b"), D!OpenHeader("b"), D!Key("port", "p"),
                      D!Key("username", "u"), D!Key("prompt", D!Blank)}, 4)]

\* A key in the environment is also the one that boot finds.
Endpoints ==
  {c \in [type : {"ollama", "groq", "openai", "other"}, model : {E!Unset, <<"model", "m">>},
          url : {E!Unset, E!Url("groq"), E!Url("other")}, env : {E!Unset, E!Key("groq")},
          key : {E!Unset, E!Key("openrouter"), E!Key("groq"), E!Key("other")},
          ollamaEnv : {E!Unset, E!Url("1")}, ollama : {E!Unset, E!Url("2")},
          legacy : {E!Unset, E!Url("3")}] :
     c.env # E!Unset => c.key = c.env}

Texts ==
  [kind : {"setting"}, of : Sources] \cup [kind : {"level"}, of : Levels]
    \cup [kind : {"allowed"}, of : Asked] \cup [kind : {"device"}, of : DeviceCalls]
    \cup [kind : {"endpoint"}, of : Endpoints]

-----------------------------------------------------------------------------

Nothing == [kind |-> "none"]

NoSerial ==
  /\ stool = "none" /\ cmd = 0 /\ port = 0 /\ buf = 0 /\ late = 0 /\ results = 0
  /\ status = 0 /\ rx = 0 /\ todo = 0 /\ device = 0 /\ profile = 0 /\ stale = 0

NoProvider ==
  /\ backend = "none" /\ counter = 0 /\ phase = "none" /\ ran = 0
  /\ reply = 0 /\ response = [calls |-> <<>>]

NoFiles ==
  /\ args = 0 /\ at = "none" /\ size = 0 /\ got = 0 /\ stack = 0 /\ found = 0
  /\ answer = "none" /\ disk = 0 /\ file = 0 /\ linked = 0 /\ moves = 0 /\ seen = 0

MCInit ==
  /\ Init
  /\ part \in {"shell", "serial", "provider", "files", "text"}
  /\ (part = "serial" /\ Ser!Init) \/ (part # "serial" /\ NoSerial)
  /\ (part = "provider" /\ R!Init) \/ (part # "provider" /\ NoProvider)
  /\ (part = "files" /\ F!Init) \/ (part # "files" /\ NoFiles)
  /\ (part = "text" /\ input \in Texts) \/ (part # "text" /\ input = Nothing)

all == <<part, vars, serial, provider, files, input>>

MCNext ==
  \/ part = "shell" /\ Next /\ UNCHANGED <<part, serial, provider, files, input>>
  \/ part = "serial" /\ Ser!Next /\ UNCHANGED <<part, vars, provider, files, input>>
  \/ part = "provider" /\ R!Next /\ UNCHANGED <<part, vars, serial, files, input>>
  \/ part = "files" /\ F!Next /\ UNCHANGED <<part, vars, serial, provider, input>>

\* What Shell, Serial and Files assume, each where it is followed.
Fairness ==
  /\ WF_all(part = "shell" /\ Tool /\ UNCHANGED <<part, serial, provider, files, input>>)
  /\ WF_all(part = "shell" /\ Tick /\ UNCHANGED <<part, serial, provider, files, input>>)
  /\ WF_all(part = "serial" /\ Ser!Tool /\ UNCHANGED <<part, vars, provider, files, input>>)
  /\ WF_all(part = "serial" /\ Ser!Expire /\ UNCHANGED <<part, vars, provider, files, input>>)
  /\ WF_all(part = "files" /\ F!Tool /\ UNCHANGED <<part, vars, serial, provider, input>>)

MCSpec == MCInit /\ [][MCNext]_all /\ Fairness

-----------------------------------------------------------------------------

\* What a tool opens it closes, on every path: shell_exec leaves no child behind, and
\* gives the code of none but its own; serial_exec leaves no port open, and says ok only
\* if each command has been answered.
NothingLeftOpen == ChildReaped /\ (part = "serial" => Ser!ClosedAndDone)

\* A command's output is its own and whole (module Serial).
OwnOutput == part = "serial" => Ser!OwnOutput

\* Commands are typed to a shell and the password to who asks for it (module Serial).
TypedWhereAsked == Ser!TypedWhereAsked

\* Every call of a tool that may wait returns (modules Shell, Serial, Files).
CallsReturn == Returns /\ Ser!Returns /\ F!Returns

\* A file tool answers what there was (module Files).
FileAnswers == part = "files" => F!FileAnswers

\* What is run is what the model has asked for (module Provider).
RunsWhatWasAsked == part = "provider" => R!RunsWhatWasAsked

\* Ids are not given twice (module Provider).
IdsFresh == R!IdsFresh

\* What was said and run is what the next request tells (module Request).
SentAsStored == part = "provider" => R!SentAsStored

\* What boot and the tools go by is what their files, variables and arguments say
\* (modules Settings, Allowlist, Devices, Endpoint, each with the priority it states).
ReadAsConfigured ==
  LET of == input.of
  IN  CASE input.kind = "setting"  -> S!InPriority("key", of.shell, of.env, of.conf)
        [] input.kind = "level"    -> S!LevelFromGiven(of.env, of.flag, of.conf)
        [] input.kind = "allowed"  -> A!ByItsPatterns(of.file, of.list, of.value)
        [] input.kind = "device"   -> D!AsWritten(of.file, of.call)
        [] input.kind = "endpoint" -> E!GoesWhereSet(of)
        [] OTHER -> TRUE
=============================================================================
