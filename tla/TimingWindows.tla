---------------------------- MODULE TimingWindows ----------------------------
(***************************************************************************)
(* sensible-timing on either platform.  sensible-timing.c includes one of  *)
(* two implementations; Timing has the one for POSIX, and here is the one  *)
(* for Windows, in a program that does the same: it reads the performance  *)
(* counter, sleeps and reads the counter again.                            *)
(***************************************************************************)
EXTENDS Timing

CONSTANTS
  MicrosPerMilli, \* 1000
  DwordValues,    \* 2^32
  Freqs,          \* what QueryPerformanceFrequency may say: counts in a second
  CounterStarts   \* what the counter may show at first

ASSUME WindowsConstants ==
  /\ MicrosPerMilli \in Nat \ {0} /\ DwordValues \in Nat \ {0, 1}
  /\ Freqs \subseteq 1..Precision /\ CounterStarts \subseteq 0..Uint64Values - 1

VARIABLES
  platform,      \* which implementation is compiled
  step,          \* where the program is
  clock,         \* the time, in nanoseconds
  freq, start,   \* performance counter: its frequency, and its value at clock 0
  first, second, \* struct seninstant: counts
  asked,         \* the argument of sentiming_microsleep
  wakes,         \* when the kernel will wake the sleeper, or Never
  returned,      \* what the caller takes for the result of sentiming_microsleep
  difference,    \* what seninstant_subtract returned
  from, readAt   \* auxiliary: clock at the call, and at the two readings

windowsVars ==
  <<step, clock, freq, start, first, second, asked, wakes, returned, difference, from, readAt>>
sentimingVars == <<platform, vars, windowsVars>>

Never == -1
NsPerMilli == MicrosPerMilli * NsPerMicro

-----------------------------------------------------------------------------
(* seninstant_subtract.                                                    *)

\* the difference of two counts in uint64_t, also when the counter wrapped
Counts(end_value, begin_value) == (end_value - begin_value) % Uint64Values

\* Wrong on purpose (as Wrong... below): nanoseconds per count as an integer
WrongNanosOf(counts) ==
  ToUnsigned(Times(DoubleOf(counts), DoubleOf(NsPerSec \div freq)), Uint64Values)

\* The nanoseconds of counts, as an uint64_t again: nanoseconds_per_count is rounded,
\* and so are counts and their product.  The branch for the most common frequency
\* does the same, with constants.
NanosOf(counts) ==
  LET nanoseconds_per_count == Over(DoubleOf(NsPerSec), DoubleOf(freq))
  IN  ToUnsigned(Times(DoubleOf(counts), nanoseconds_per_count), Uint64Values)

-----------------------------------------------------------------------------
(* The program.                                                            *)

WindowsInit ==
  /\ step = "begin"
  /\ clock = 0 /\ freq = 0 /\ start = 0
  /\ first = 0 /\ second = 0 /\ asked = 0 /\ wakes = 0
  /\ returned = FALSE /\ difference = 0
  /\ from = 0 /\ readAt = <<0, 0>>

\* QueryPerformanceCounter at time t
Counter(t) == (start' + (t * freq') \div NsPerSec) % Uint64Values

WindowsBegin(t) ==
  /\ step = "begin"
  /\ clock' = t
  /\ freq' \in Freqs /\ start' \in CounterStarts
  /\ first' = Counter(t)
  /\ readAt' = <<t, 0>>
  /\ step' = "call"
  /\ UNCHANGED <<second, asked, wakes, returned, difference, from>>

\* microseconds taken for milliseconds
WrongMillis(m) == m % DwordValues

\* the argument of Sleep: a DWORD, of whole milliseconds
Millis(m) == (m \div MicrosPerMilli) % DwordValues

\* Sleep, which takes the largest DWORD for INFINITE
WindowsSleep(m) ==
  /\ step = "call"
  /\ asked' = m
  /\ from' = clock
  /\ wakes' = IF Millis(m) = DwordValues - 1 THEN Never ELSE clock + Millis(m) * NsPerMilli
  /\ step' = "sleeping"
  /\ UNCHANGED <<clock, freq, start, first, second, returned, difference, readAt>>

\* Sleep ends, not before its time; sentiming_microsleep has no return statement
WindowsWoken(t) ==
  /\ step = "sleeping"
  /\ wakes # Never
  /\ clock' = t
  /\ returned' \in BOOLEAN
  /\ step' = "end"
  /\ UNCHANGED <<freq, start, first, second, asked, wakes, difference, from, readAt>>

WindowsEnd(t) ==
  /\ step = "end"
  /\ clock' = t
  /\ UNCHANGED <<freq, start>>
  /\ second' = Counter(t)
  /\ difference' \in NanosOf(Counts(second', first))
  /\ readAt' = <<readAt[1], t>>
  /\ step' = "done"
  /\ UNCHANGED <<first, asked, wakes, returned, from>>

WindowsNext ==
  \/ \E t \in clock..clock + MaxLate : WindowsBegin(t) \/ WindowsEnd(t)
  \/ \E m \in Micros : WindowsSleep(m)
  \/ \E t \in wakes..wakes + MaxLate : WindowsWoken(t)

\* the implementation that is not compiled does not run
SentimingInit == platform \in {"posix", "windows"} /\ Init /\ WindowsInit

SentimingNext ==
  \/ platform = "posix" /\ Next /\ UNCHANGED <<platform, windowsVars>>
  \/ platform = "windows" /\ WindowsNext /\ UNCHANGED <<platform, vars>>

SentimingSpec == SentimingInit /\ [][SentimingNext]_sentimingVars

-----------------------------------------------------------------------------
(* Properties.                                                             *)

\* A sleep is short by less than a millisecond, and by nothing when whole ones are
\* asked for, but for the multiples of 2^32 milliseconds a request may lose; it is
\* longer by no more than the lateness of the wake-up.  A sleep whose milliseconds
\* are then INFINITE does not end.
SleepsToTheMillisecond ==
  step = "end" =>
    LET millis == asked \div MicrosPerMilli
        laps   == millis \div DwordValues
        over   == (clock - from) + laps * (DwordValues * NsPerMilli) - asked * NsPerMicro
    IN  /\ (millis + 1) % DwordValues # 0
        /\ over > -NsPerMilli /\ over <= MaxLate
        /\ asked % MicrosPerMilli = 0 => over >= 0

\* Two readings of the counter are apart by what the time between them was, but for
\* one count, the nanosecond that is cut off, and the three roundings, which come to
\* four parts in 2^53; and but for one count alone, if a count is a whole number of
\* nanoseconds and no more than 2^53 of them passed.  This holds also if the counter
\* wrapped, but not if it came round to where it was, nor if the result may be too
\* large for an uint64_t.
MeasuredToTheCount ==
  LET elapsed  == readAt[2] - readAt[1]
      counted  == elapsed * freq + NsPerSec \* counts, by NsPerSec, and one more
      error    == (difference - elapsed) * freq
      rounding == 4 * counted
      inRange  == /\ counted < Uint64Values * NsPerSec
                  /\ (Precision + 4) * counted < Uint64Values * freq * Precision
  IN  step = "done" /\ inRange =>
        /\ error * Precision < NsPerSec * Precision + rounding
        /\ error * Precision > -((NsPerSec + freq) * Precision + rounding)
        /\ NsPerSec % freq = 0 /\ counted <= Precision * freq =>
             error < NsPerSec /\ error > -NsPerSec
=============================================================================
