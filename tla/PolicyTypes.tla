----------------------------- MODULE PolicyTypes -----------------------------
(***************************************************************************)
(* What the modules on the policy share: a key that is absent, and the     *)
(* hours of a schedule (policy/load.go, routing/policy.go).  A file names  *)
(* the peak hours; what is kept are the windows outside of them, and what  *)
(* is asked is whether a moment lies in one of those.                      *)
(***************************************************************************)
EXTENDS Data

CONSTANTS
  None,  \* a key that is absent, a value that was not reported
  Bad,   \* a value of a shape that cannot be read
  Day,   \* units of a day
  DefaultFreshness  \* how long evidence counts where nothing positive is configured

Refused == [refused |-> TRUE]   \* an error, with which a command ends

Maybe(S) == S \cup {None}

PeakHours == [days : SUBSET Int, start : Int, end : Int]

Default(value, otherwise) == IF value = None THEN otherwise ELSE value

\* scheduleFromWire: before and after each window of peak hours, on its days.
OffPeakWindows(peaks) ==
  {off \in {[days |-> w.days, start |-> 0, end |-> w.start] : w \in peaks}
             \cup {[days |-> w.days, start |-> w.end, end |-> Day] : w \in peaks} : off.start < off.end}

PeaksRefused(peaks) == \E w \in peaks : w.start >= w.end

\* Mutant: the end of a window belongs to it.
IsOffPeakToTheEnd(windows, at) ==
  \E w \in windows : (at \div Day) % 7 \in w.days /\ at % Day >= w.start /\ at % Day <= w.end

\* IsOffPeak.  Of a window that crosses midnight the rest belongs to the day
\* before.
IsOffPeak(windows, at) ==
  LET day == (at \div Day) % 7  minute == at % Day IN
  \E w \in windows :
    IF w.start <= w.end
    THEN day \in w.days /\ minute >= w.start /\ minute < w.end
    ELSE \/ day \in w.days /\ minute >= w.start
         \/ (day + 6) % 7 \in w.days /\ minute < w.end

=============================================================================
