-------------------------------- MODULE Devices --------------------------------
(***************************************************************************)
(* Which device serial_execute talks to and how (tools/serial/             *)
(* serial_tool.c): the profiles of device.conf, read anew at each call,    *)
(* and the arguments put over them.                                        *)
(*                                                                         *)
(* A file is its lines: a header of a section, with its closing bracket or *)
(* without it, and keys with their values.  Of the fields there are one of *)
(* each kind: port and prompt, which have to be there, a username, which   *)
(* may be left empty, and a baud rate.  The others are read like these.    *)
(***************************************************************************)
EXTENDS Integers, Sequences, SequencesExt

CONSTANTS
  MaxDevices,   (* SERIAL_MAX_DEVICES                                       *)
  MaxCommands   (* SERIAL_MAX_COMMANDS                                      *)

Fields == {"port", "prompt", "username", "baud"}
Absent == "absent"
Blank  == "blank"      \* the empty string, for a baud rate what is no number

Header(name)     == [kind |-> "header", name |-> name, key |-> "", val |-> ""]
OpenHeader(name) == [kind |-> "open header", name |-> name, key |-> "", val |-> ""]
Key(key, val)    == [kind |-> "key", name |-> "", key |-> key, val |-> val]

\* serial_device_t as it is before anything is known.
Defaults == [port |-> Blank, prompt |-> "#", username |-> Blank, baud |-> "115200"]

Device(name) == [name |-> name, fields |-> Defaults]

-----------------------------------------------------------------------------

\* One line of parse_device_conf.  Keys before the first section are passed over, and
\* so is a header without its bracket: the section before it goes on.
ParseLine(state, line) ==
  IF state.full THEN state
  ELSE CASE line.kind = "header" ->
              IF Len(state.devs) >= MaxDevices THEN [state EXCEPT !.full = TRUE]
              ELSE [state EXCEPT !.devs = Append(@, Device(line.name))]
         [] line.kind = "key" /\ state.devs # <<>> /\ line.key \in Fields ->
              [state EXCEPT !.devs[Len(state.devs)].fields[line.key] = line.val]
         [] OTHER -> state

parse_device_conf(lines) == FoldLeft(ParseLine, [devs |-> <<>>, full |-> FALSE], lines).devs

\* device_lookup: the first device of that name.
Places(devs, name) == {i \in DOMAIN devs : devs[i].name = name}

\* An argument that is not there leaves the field, an empty one empties it, except for
\* the port.
Overridden(fields, args) ==
  [f \in Fields |-> IF args[f] = Absent \/ (f = "port" /\ args[f] = Blank)
                    THEN fields[f] ELSE args[f]]

\* baud_to_speed knows the rates of termios.h.
Speeds == {"50", "75", "110", "134", "150", "200", "300", "600", "1200", "1800", "2400",
           "4800", "9600", "19200", "38400", "57600", "115200", "230400", "460800", "921600"}

Error(what) == [error |-> what, fields |-> Defaults, commands |-> 0]

\* The arguments up to serial_open's first test of them: what the call goes by, or what
\* is wrong with it.  Of more commands than fit, the rest is left out without a word.
Resolved(lines, call) ==
  LET devs   == parse_device_conf(lines)
      places == Places(devs, call.device)
      fields == Overridden(IF call.device = Blank THEN Defaults ELSE devs[Min(places)].fields,
                           call.fields)
  IN  IF call.device # Blank /\ places = {} THEN Error("no such device")
      ELSE IF fields.port = Blank THEN Error("port")
      ELSE IF fields.prompt = Blank THEN Error("prompt")
      ELSE IF call.commands = 0 THEN Error("commands")
      ELSE IF fields.baud \notin Speeds THEN Error("baud")
      ELSE [error |-> "none", fields |-> fields, commands |-> Min({call.commands, MaxCommands})]

-----------------------------------------------------------------------------

\* The lines that belong to the first section of a name.
OwnLines(lines, name) ==
  LET heads == {i \in DOMAIN lines : lines[i].kind = "header"}
      mine  == {i \in heads : lines[i].name = name}
      later == {i \in heads : i > Min(mine)}
  IN  IF mine = {} THEN {}
      ELSE {i \in DOMAIN lines : i > Min(mine) /\ \A j \in later : i < j}

\* "Explicit parameters override or supply device profile": a field is the argument if
\* there is one, or else the last value its key has in the first section of the device,
\* and neither a section of that name further down nor an unfinished header changes it,
\* as long as the file has no more sections than there is room for.
AsWritten(lines, call) ==
  LET r == Resolved(lines, call)
      own(f) == {i \in OwnLines(lines, call.device) : lines[i].key = f}
      given(f) == call.fields[f] # Absent /\ (f = "port" => call.fields[f] # Blank)
  IN  /\ Cardinality({i \in DOMAIN lines : lines[i].kind = "header"}) <= MaxDevices =>
           (r.error = "no such device" <=>
              call.device # Blank /\ \A i \in DOMAIN lines : lines[i] # Header(call.device))
      /\ r.error = "none" => \A f \in Fields :
           r.fields[f] = IF given(f) THEN call.fields[f]
                         ELSE IF own(f) # {} THEN lines[Max(own(f))].val
                         ELSE Defaults[f]
=============================================================================
