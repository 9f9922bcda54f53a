------------------------------- MODULE Settings -------------------------------
(***************************************************************************)
(* How boot finds the value of a setting: env_load and config_load of      *)
(* core/config.c and env_or_cfg of cli/main.c.                             *)
(*                                                                         *)
(* A file is its lines "key = value" in their order; comments, quotes and  *)
(* blanks are left out, and a key stands for a section and a key.          *)
(*                                                                         *)
(* Operators named Wrong... are faulty variants that the specification     *)
(* never uses; see module Agent.                                           *)
(***************************************************************************)
EXTENDS Integers, Sequences, SequencesExt

CONSTANT MaxEntries     (* MAX_ENTRIES                                      *)

Unset   == "unset"
Empty   == "empty"      \* a value of no characters
Default == "default"

\* One entry of the table, and one line of a file.
Line(key, val) == [key |-> key, val |-> val]

Positions(table, key) == {i \in DOMAIN table : table[i].key = key}

\* A key that is there already is entered again.
WrongSet(table, line) == IF Len(table) >= MaxEntries THEN table ELSE Append(table, line)

\* config_set: a full table takes no update either.
config_set(table, line) ==
  IF Len(table) >= MaxEntries THEN table
  ELSE IF Positions(table, line.key) = {} THEN Append(table, line)
  ELSE [table EXCEPT ![Min(Positions(table, line.key))] = line]

config_load(lines) == FoldLeft(config_set, <<>>, lines)

config_get(table, key) ==
  LET found == Positions(table, key)
  IN  IF found = {} THEN Default ELSE table[Min(found)].val

\* setenv(key, val, 0) for each line: what is set, if only to nothing, stays.
env_load(value, key, lines) ==
  LET own == Positions(lines, key)
  IN  IF value # Unset \/ own = {} THEN value ELSE lines[Min(own)].val

env_or_cfg(value, key, table) ==
  IF value \in {Unset, Empty} THEN config_get(table, key) ELSE value

\* The value boot goes by, from the shell's variable, the lines of .env and those of
\* aham.conf.
Setting(key, shell, env, conf) == env_or_cfg(env_load(shell, key, env), key, config_load(conf))

\* resolve_log_level: the variable LOG_LEVEL, the option, aham.conf; what is none of the
\* levels is taken for "warn".
resolve_log_level(env, flag, table) ==
  LET src == CASE env \notin {Unset, Empty}  -> env
               [] env \in {Unset, Empty} /\ flag \notin {Unset, Empty} -> flag
               [] OTHER -> config_get(table, "level")
  IN  IF src \in {"debug", "info", "error"} THEN src ELSE "warn"

-----------------------------------------------------------------------------

\* "Priority (highest to lowest): shell-exported environment variables, .env file
\* variables, aham.conf values, built-in defaults".  An exported variable hides .env
\* even if it is empty; of the lines for a key the first counts in .env and the last in
\* aham.conf, as long as aham.conf has fewer keys than there are entries.
InPriority(key, shell, env, conf) ==
  LET inEnv  == Positions(env, key)
      inConf == Positions(conf, key)
      exported == CASE shell # Unset -> shell
                    [] shell = Unset /\ inEnv # {} -> env[Min(inEnv)].val
                    [] OTHER -> Empty
  IN  Cardinality({conf[i].key : i \in DOMAIN conf}) < MaxEntries =>
        Setting(key, shell, env, conf) =
          CASE exported # Empty -> exported
            [] exported = Empty /\ inConf # {} -> conf[Max(inConf)].val
            [] OTHER -> Default

\* The level of the log is that of the variable or of the option -l where one is given,
\* and of aham.conf where none is; what is no level stands for "warn" and hides aham.conf
\* all the same.  Which of the two counts when both are given is not said: the code takes
\* the variable, as the head of main.c has it, and the comments above resolve_log_level
\* and in boot name the option first.
LevelFromGiven(env, flag, conf) ==
  LET given  == {env, flag} \ {Unset, Empty}
      own    == Positions(conf, "level")
      levels == CASE given # {} -> given
                  [] given = {} /\ own # {} -> {conf[Max(own)].val}
                  [] OTHER -> {Empty}
  IN  Cardinality({conf[i].key : i \in DOMAIN conf}) < MaxEntries =>
        \E level \in levels :
          resolve_log_level(env, flag, config_load(conf)) =
            IF level \in {"debug", "info", "error"} THEN level ELSE "warn"
=============================================================================
