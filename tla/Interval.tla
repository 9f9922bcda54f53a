------------------------------- MODULE Interval -------------------------------
(***************************************************************************)
(* What schedule_add makes of its "interval" argument: parse_interval of   *)
(* tools/scheduler/scheduler.c and the test of its result.                 *)
(*                                                                         *)
(* A specification is what the two sscanf calls can tell apart: the words  *)
(* "every", a number and a unit; a bare number; a cron line, whose first   *)
(* field is a number or not; anything else.  Arithmetic is that of a C int *)
(* that wraps, which is what the build does where the standard leaves      *)
(* overflow undefined.                                                     *)
(***************************************************************************)
EXTENDS Integers

CONSTANTS
  MaxInt,     (* INT_MAX                                                    *)
  Numbers     (* the numbers that are written                               *)

ASSUME IntervalAssumption == MaxInt \in Nat /\ Numbers \subseteq Int

Units == {"sec", "min", "hour", "day", "week"}

Specs ==
  [form : {"every"}, n : Numbers, unit : Units]
    \cup [form : {"number"}, n : Numbers]
    \cup [form : {"cron"}, n : Numbers \cap 0..59]
    \cup {[form |-> "cron *"], [form |-> "words"]}

-----------------------------------------------------------------------------

Invalid == -1

\* The value an int holds after an operation whose result is x.
Wrapped(x) ==
  LET ints == 2 * (MaxInt + 1)
      m    == x % ints
  IN  IF m <= MaxInt THEN m ELSE m - ints

Known == {"sec", "min", "hour", "day"}

Seconds == [sec |-> 1, min |-> 60, hour |-> 3600, day |-> 86400]

\* parse_interval.  sscanf("%d") is content with a number at the beginning of the
\* text, so it reads the minute field of a cron line as a number of seconds.
parse_interval(s) ==
  CASE s.form = "every" /\ s.unit \in Known -> Wrapped(s.n * Seconds[s.unit])
    [] s.form \in {"number", "cron"} /\ s.n > 0 -> s.n
    [] OTHER -> Invalid

\* tool_schedule_add goes on with the interval only if it is positive.
Accepted(s) == parse_interval(s) \in Nat \ {0}
=============================================================================
