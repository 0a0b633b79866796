------------------------------- MODULE Timing --------------------------------
(***************************************************************************)
(* sensible-timing on POSIX: a program that reads the clock, sleeps and    *)
(* reads the clock again, as test/suite.c and measure-sleep-variation.c    *)
(* do.  Signals interrupt the sleep; the kernel wakes sleepers late.       *)
(*                                                                         *)
(* Sleeps go by CLOCK_MONOTONIC (time), readings by CLOCK_MONOTONIC_RAW    *)
(* (raw), which is not slewed with it.                                     *)
(***************************************************************************)
EXTENDS Integers, Doubles

CONSTANTS
  NsPerSec, NsPerMicro, \* 1e9 and 1000
  TwosInSec,            \* 2^9, the largest power of two that divides 1e9
  Uint64Values,         \* 2^64
  Micros,               \* what the caller asks for
  RawStarts,            \* what the raw clock may show at first
  Garbage,              \* what an uninitialized struct timespec may hold
  Refusals,             \* whether the system may refuse to sleep or to tell the time
  Slew,                 \* bound: how far the raw clock strays in one step
  MaxLate,              \* bound: how late a sleeper is woken or goes on
  MaxSignals            \* bound: how many signals interrupt the sleep

Timespecs == [tv_sec : Nat, tv_nsec : Nat]

ASSUME TimingConstants ==
  /\ NsPerSec \in Nat \ {0} /\ NsPerMicro \in Nat \ {0} /\ Uint64Values \in Nat \ {0}
  /\ Micros \subseteq Nat /\ RawStarts \subseteq Nat
  /\ NsPerSec <= Precision /\ TwosInSec \in Nat \ {0} /\ NsPerSec % TwosInSec = 0
  /\ Precision * TwosInSec <= Uint64Values
  /\ Garbage \subseteq Timespecs
  /\ Refusals \in BOOLEAN
  /\ Slew \in Nat /\ MaxLate \in Nat /\ MaxSignals \in Nat

\* doubles reach as far as an uint64_t in nanoseconds, and as finely as needed
ASSUME DoublesSuffice ==
  /\ TwosInSec * One \in PowersOfTwo
  /\ \E p \in PowersOfTwo : 8 * Uint64Values * NsPerSec * One <= p * Precision

VARIABLES
  pc,         \* where the program is
  time, raw,  \* the clocks, in nanoseconds
  begin, end, \* struct seninstant
  micros,     \* the argument of sentiming_microsleep
  rem,        \* what is left to sleep
  wakeAt,     \* when the kernel will wake the sleeper
  result,     \* what sentiming_microsleep returned
  nanos,      \* what seninstant_subtract returned
  reported,   \* whether "Couldn't get monotonic time" was printed
  calledAt,   \* auxiliary: time when sentiming_microsleep was called
  readings,   \* auxiliary: raw at the two readings
  signals,    \* auxiliary: interruptions so far
  refused,    \* auxiliary: whether nanosleep failed, but for a signal
  clockFailed \* auxiliary: whether clock_gettime failed

clockVars == <<begin, end, nanos, reported, readings, clockFailed>>
sleepVars == <<micros, rem, wakeAt, result, calledAt, signals, refused>>
vars == <<pc, time, raw, clockVars, sleepVars>>

-----------------------------------------------------------------------------
(* Conversions.                                                            *)

Nanos(timespec) == timespec.tv_sec * NsPerSec + timespec.tv_nsec

\* Wrong on purpose (as every Wrong... below): a variant of the next definition
\* with a mistake, for which a run must find a property violated.
\* Here whole seconds stay in the nanoseconds.
Wrong_ns_to_timespec(nanoseconds) ==
  [tv_sec |-> nanoseconds \div NsPerSec, tv_nsec |-> nanoseconds]

ns_to_timespec(nanoseconds) ==
  [tv_sec |-> nanoseconds \div NsPerSec, tv_nsec |-> nanoseconds % NsPerSec]

\* secs * 1e9, in double, and as an uint64_t again
Seconds(secs) == ToUnsigned(Times(DoubleOf(secs), DoubleOf(NsPerSec)), Uint64Values)

\* nothing is borrowed from the seconds
WrongBorrow(e, b) ==
  LET apart == IF e.tv_nsec > b.tv_nsec THEN e.tv_nsec - b.tv_nsec
                                        ELSE b.tv_nsec - e.tv_nsec
  IN  {(res + apart) % Uint64Values : res \in Seconds((e.tv_sec - b.tv_sec) % Uint64Values)}

\* nothing wraps
WrongWidth(e, b) ==
  {(e.tv_sec - b.tv_sec) * NsPerSec + (e.tv_nsec - b.tv_nsec)}

\* what it may return: in uint64_t, where the second branch subtracts
seninstant_subtract(e, b) ==
  {IF e.tv_nsec > b.tv_nsec
   THEN (res + (e.tv_nsec - b.tv_nsec)) % Uint64Values
   ELSE (res - (b.tv_nsec - e.tv_nsec)) % Uint64Values :
     res \in Seconds((e.tv_sec - b.tv_sec) % Uint64Values)}

-----------------------------------------------------------------------------
(* The system.                                                             *)

\* time goes on to t, and the raw clock nearly as far
Passes(t) ==
  /\ time' = t
  /\ raw' \in {r \in raw..raw + (t - time) + Slew : r >= raw + (t - time) - Slew}

\* clock_gettime returned status; the value read, or what was on the stack
seninstant_now(status, value) ==
  /\ status # 0 => Refusals
  /\ value \in IF status = 0 THEN {ns_to_timespec(raw')} ELSE Garbage
  /\ reported' = (reported \/ status > 0)
  /\ clockFailed' = (clockFailed \/ status # 0)

Init ==
  /\ pc = "begin"
  /\ time = 0 /\ raw \in RawStarts
  /\ begin = ns_to_timespec(0) /\ end = ns_to_timespec(0)
  /\ micros = 0 /\ rem = ns_to_timespec(0) /\ wakeAt = 0 /\ result = FALSE
  /\ nanos = 0 /\ reported = FALSE
  /\ calledAt = 0 /\ readings = <<0, 0>> /\ signals = 0
  /\ refused = FALSE /\ clockFailed = FALSE

Begin(status) ==
  /\ pc = "begin"
  /\ Passes(time)
  /\ \E value \in {ns_to_timespec(raw')} \cup Garbage :
       seninstant_now(status, value) /\ begin' = value
  /\ readings' = <<raw', 0>>
  /\ pc' = "call"
  /\ UNCHANGED <<end, nanos, sleepVars>>

\* sentiming_microsleep, up to its loop; micros * 1000 wraps
sentiming_microsleep(m) ==
  /\ pc = "call"
  /\ micros' = m
  /\ rem' = ns_to_timespec((m * NsPerMicro) % Uint64Values)
  /\ calledAt' = time
  /\ pc' = "request"
  /\ UNCHANGED <<time, raw, clockVars, wakeAt, result, signals, refused>>

\* nanosleep(&rem, &rem) is called, perhaps after a while, and accepts rem
Request(t) ==
  /\ pc = "request"
  /\ rem.tv_nsec < NsPerSec
  /\ Passes(t)
  /\ wakeAt' = t + Nanos(rem)
  /\ pc' = "sleeping"
  /\ UNCHANGED <<clockVars, micros, rem, result, calledAt, signals, refused>>

\* nanosleep fails, with EINVAL or for a reason of the system
Refused ==
  /\ pc = "request"
  /\ rem.tv_nsec >= NsPerSec \/ Refusals
  /\ refused' = (rem.tv_nsec < NsPerSec)
  /\ result' = FALSE
  /\ pc' = "end"
  /\ UNCHANGED <<time, raw, clockVars, micros, rem, wakeAt, calledAt, signals>>

\* the interrupted sleep is taken for a whole one
WrongInterrupted(t) ==
  /\ pc = "sleeping" /\ signals < MaxSignals
  /\ Passes(t)
  /\ signals' = signals + 1
  /\ result' = TRUE
  /\ pc' = "end"
  /\ UNCHANGED <<clockVars, micros, rem, wakeAt, calledAt, refused>>

\* the whole sleep starts over
WrongRestart(t) ==
  /\ pc = "sleeping" /\ signals < MaxSignals
  /\ Passes(t)
  /\ signals' = signals + 1
  /\ pc' = "request"
  /\ UNCHANGED <<clockVars, micros, rem, wakeAt, result, calledAt, refused>>

\* a signal: EINTR, rem is what is left, and the loop goes on
Interrupted(t) ==
  /\ pc = "sleeping" /\ signals < MaxSignals
  /\ Passes(t)
  /\ rem' = ns_to_timespec(wakeAt - t)
  /\ signals' = signals + 1
  /\ pc' = "request"
  /\ UNCHANGED <<clockVars, micros, wakeAt, result, calledAt, refused>>

\* nanosleep returns 0, not before its time
Woken(t) ==
  /\ pc = "sleeping"
  /\ Passes(t)
  /\ result' = TRUE
  /\ pc' = "end"
  /\ UNCHANGED <<clockVars, micros, rem, wakeAt, calledAt, signals, refused>>

\* the second reading, perhaps after a while, and the subtraction
End(t, status) ==
  /\ pc = "end"
  /\ Passes(t)
  /\ \E value \in {ns_to_timespec(raw')} \cup Garbage :
       /\ seninstant_now(status, value)
       /\ end' = value
       /\ nanos' \in seninstant_subtract(value, begin)
  /\ readings' = <<readings[1], raw'>>
  /\ pc' = "done"
  /\ UNCHANGED <<begin, sleepVars>>

Next ==
  \/ \E status \in {0, -1} : Begin(status)
  \/ \E m \in Micros : sentiming_microsleep(m)
  \/ \E t \in time..time + MaxLate : Request(t)
  \/ Refused
  \/ \E t \in time..wakeAt - 1 : Interrupted(t)
  \/ \E t \in wakeAt..wakeAt + MaxLate : Woken(t)
  \/ \E t \in time..time + MaxLate, status \in {0, -1} : End(t, status)

Spec == Init /\ [][Next]_vars

-----------------------------------------------------------------------------
(* Type invariant.                                                         *)

TypeOK ==
  /\ pc \in {"begin", "call", "request", "sleeping", "end", "done"}
  /\ time \in Nat /\ raw \in Nat
  /\ begin \in Timespecs /\ end \in Timespecs
  /\ micros \in Nat /\ rem \in Timespecs /\ wakeAt \in Nat /\ result \in BOOLEAN
  /\ nanos \in 0..Uint64Values - 1 /\ reported \in BOOLEAN
  /\ calledAt \in Nat /\ readings \in Nat \X Nat /\ signals \in Nat
  /\ refused \in BOOLEAN /\ clockFailed \in BOOLEAN

-----------------------------------------------------------------------------
(* Properties.                                                             *)

\* What sentiming_microsleep has to sleep: micros * 1000 in an uint64_t, which
\* loses whole multiples of 2^64.
Due ==
  LET asked == micros * NsPerMicro
  IN  asked - (asked \div Uint64Values) * Uint64Values

\* sentiming_microsleep never returns true before the time asked for, but for the
\* multiples of 2^64 nanoseconds a request may lose, however often signals interrupt
\* it.  Nor do interruptions add up: the sleep is no longer than what was asked for
\* and the lateness of each nanosleep, in going to sleep and in waking.
SleepsAsAsked ==
  pc = "end" /\ result =>
    /\ time - calledAt >= Due
    /\ time - calledAt <= Due + (signals + 2) * MaxLate

\* sentiming_microsleep returns false only when the system refused to sleep:
\* what it and the kernel leave in rem is always a valid request.
FailsWhenRefused == pc = "end" /\ ~result => refused

\* readings that seninstant_subtract subtracts without rounding: 2^62 nanoseconds,
\* or 146 years, apart, less a second
Near == readings[2] - readings[1] + NsPerSec <= Precision * TwosInSec

\* The difference of two readings is the time the clock went on between them, also
\* when it borrows from the seconds, and although the seconds go through a double:
\* up to 2^62 nanoseconds none is lost.
MeasuredExactly ==
  pc = "done" /\ ~clockFailed /\ Near => nanos = readings[2] - readings[1]

\* A program that measures its sleep sees what it asked for, although sleeps and
\* readings go by different clocks: no less and, but for the lateness, no more than
\* the clocks strayed from each other in the steps since the first reading.
MeasuresTheSleep ==
  pc = "done" /\ result /\ ~clockFailed /\ Near =>
    LET strayed == (2 * signals + 3) * Slew
    IN  /\ nanos >= Due - strayed
        /\ nanos <= Due + (signals + 3) * MaxLate + strayed

-----------------------------------------------------------------------------
(* What a message says.                                                    *)

\* sensible-timing-posix.c: "Couldn't get monotonic time" is printed when
\* clock_gettime fails.
FailureReported == clockFailed => reported
=============================================================================
