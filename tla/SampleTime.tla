----------------------------- MODULE SampleTime -----------------------------
(***************************************************************************)
(* InputContainer::estimateSampleTime: the time between two messages from  *)
(* their seconds and microseconds, in unsigned arithmetic.  The width and  *)
(* the units are parameters.                                               *)
(***************************************************************************)
EXTENDS Integers, FiniteSetsExt

CONSTANTS
  UINT_MODULUS,       \* 2^64
  S_TO_US,            \* microseconds in a second
  MS_TO_US,           \* microseconds in a millisecond
  LOWEST_SAMPLE_TIME, \* in milliseconds
  MaxSeconds          \* bound on the seconds of the clock

ASSUME SampleAssumption ==
  /\ S_TO_US \in Nat \ {0} /\ MS_TO_US \in Nat \ {0}
  /\ LOWEST_SAMPLE_TIME \in Nat \ {0}
  /\ MaxSeconds \in Nat
  /\ UINT_MODULUS \in Nat /\ UINT_MODULUS > (MaxSeconds + 1) * S_TO_US

Clocks == [sec : 0 .. MaxSeconds, usec : 0 .. S_TO_US - 1]
NoTime == [absent |-> TRUE] \* the feedback of the message has no time
Times == Clocks \cup {NoTime}

\* Mutant of estimateSampleTime: seconds count from the second one on.
estimateSampleTimeLate(c, p) ==
  LET diff_s == (c.sec - p.sec) % UINT_MODULUS
      diff_us == (c.usec - p.usec + (IF diff_s > 1 THEN diff_s * S_TO_US ELSE 0)) % UINT_MODULUS
  IN IF NoTime \in {c, p}
     THEN LOWEST_SAMPLE_TIME
     ELSE Max({LOWEST_SAMPLE_TIME, diff_us \div MS_TO_US})

\* Mutant of estimateSampleTime: no lower limit for a message without a time.
estimateSampleTimeUnlimited(c, p) ==
  LET diff_s == (c.sec - p.sec) % UINT_MODULUS
      diff_us == (c.usec - p.usec + (IF diff_s > 0 THEN diff_s * S_TO_US ELSE 0)) % UINT_MODULUS
  IN IF NoTime \in {c, p} THEN 0 ELSE Max({LOWEST_SAMPLE_TIME, diff_us \div MS_TO_US})

\* In milliseconds, rounded down.
estimateSampleTime(c, p) ==
  LET diff_s == (c.sec - p.sec) % UINT_MODULUS
      diff_us == (c.usec - p.usec + (IF diff_s > 0 THEN diff_s * S_TO_US ELSE 0)) % UINT_MODULUS
  IN IF NoTime \in {c, p}
     THEN LOWEST_SAMPLE_TIME
     ELSE Max({LOWEST_SAMPLE_TIME, diff_us \div MS_TO_US})
=============================================================================
