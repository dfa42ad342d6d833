-------------------------- MODULE ConversionProofs --------------------------
(***************************************************************************)
(* What the conversions compute, for all numbers of joints, all times and  *)
(* all conditions of a spline.  The behaviours only enumerate the inputs,  *)
(* so the invariant InputsOK says what the inputs are, LogInv how the log    *)
(* grows, and the properties are facts about the operators.                *)
(***************************************************************************)
EXTENDS MessageConversions, SplineProofs, SequenceTheorems

-----------------------------------------------------------------------------
(***************************************************************************)
(* The inputs.                                                             *)
(***************************************************************************)
Names == {"robot", "external"} \X Nat

\* What the joints of a message and the times of messages may be.
InputsOK ==
  /\ axes \in Axes
  /\ joints \in [robot : Seq(Names), external : Seq(Names)]
  /\ current \in Times
  /\ previous \in Times
  /\ splines \subseteq SplineConditions

\* The joints that a message names are two sequences.
LEMMA JointsType ==
  ASSUME NEW j \in Joints
  PROVE  j \in [robot : Seq(Names), external : Seq(Names)]
<1>1. PICK r \in 0 .. MaxRobot, e \in 0 .. MaxExternal :
        j = [robot |-> named("robot", r), external |-> named("external", e)]
  BY DEF Joints
<1>2. r \in Nat /\ e \in Nat
  BY ConversionAssumption
<1>3. \A n \in Nat : named("robot", n) \in Seq(Names) /\ named("external", n) \in Seq(Names)
  BY DEF named, Names
<1>. QED
  BY <1>1, <1>2, <1>3

\* The conditions that are enumerated are conditions.
LEMMA SmallConditionsType == SmallConditions \subseteq SplineConditions
BY ConversionAssumption DEF SmallConditions, SplineConditions, values

\* The inputs keep their types.
LEMMA InputsCorrect == Spec => []InputsOK
<1>1. Init => InputsOK
  BY EmptySeq DEF Init, InputsOK, Times
<1>2. InputsOK /\ [Next]_vars => InputsOK'
  <2>. SUFFICES ASSUME InputsOK, [Next]_vars PROVE InputsOK'
    OBVIOUS
  <2>1. CASE receiveJoints
    BY <2>1, JointsType DEF receiveJoints, InputsOK
  <2>2. CASE receiveTime
    BY <2>2 DEF receiveTime, InputsOK
  <2>3. CASE updateSpline
    BY <2>3, SmallConditionsType DEF updateSpline, InputsOK
  <2>4. CASE UNCHANGED vars
    BY <2>4 DEF vars, InputsOK
  <2>. QED
    BY <2>1, <2>2, <2>3, <2>4 DEF Next
<1>. QED
  BY <1>1, <1>2, PTL DEF Spec

-----------------------------------------------------------------------------
(***************************************************************************)
(* Sample times and the log.                                               *)
(***************************************************************************)
\* The larger of two integers.
LEMMA MaxOfTwo ==
  ASSUME NEW a \in Int, NEW b \in Int
  PROVE  /\ Max({a, b}) \in {a, b}
         /\ Max({a, b}) >= a
         /\ Max({a, b}) >= b
         /\ a >= b => Max({a, b}) = a
         /\ b >= a => Max({a, b}) = b
<1>. DEFINE m == IF a >= b THEN a ELSE b
<1>1. m \in {a, b} /\ \A y \in {a, b} : m >= y
  OBVIOUS
<1>2. Max({a, b}) \in {a, b} /\ \A y \in {a, b} : Max({a, b}) >= y
  BY <1>1, Zenon DEF Max
<1>. HIDE DEF m
<1>. DEFINE x == Max({a, b})
<1>3. x \in {a, b} /\ x >= a /\ x >= b
  BY <1>2
<1>. HIDE DEF x
<1>4. (a >= b => x = a) /\ (b >= a => x = b)
  BY <1>3
<1>. QED
  BY <1>3, <1>4 DEF x

\* What is below the modulus is not changed by unsigned arithmetic.
LEMMA NoWrap ==
  ASSUME NEW a \in Nat, NEW m \in Nat, a < m
  PROVE  a % m = a
OBVIOUS

\* The estimate is a time that is not below the lowest sample time, also of two
\* messages in the wrong order, whose difference wraps around.
LEMMA EstimateType ==
  ASSUME NEW c \in Times, NEW p \in Times
  PROVE  /\ estimateSampleTime(c, p) \in Int
         /\ estimateSampleTime(c, p) >= LOWEST_SAMPLE_TIME
<1>. DEFINE diff_s == (c.sec - p.sec) % UINT_MODULUS
            diff_us == (c.usec - p.usec + (IF diff_s > 0 THEN diff_s * S_TO_US ELSE 0))
                         % UINT_MODULUS
<1>1. CASE NoTime \in {c, p}
  <2>1. estimateSampleTime(c, p) = LOWEST_SAMPLE_TIME
    BY <1>1, Zenon DEF estimateSampleTime
  <2>. QED
    BY <2>1, SampleAssumption
<1>2. CASE NoTime \notin {c, p}
  <2>1. c \in Clocks /\ p \in Clocks
    BY <1>2 DEF Times
  <2>2. /\ c.sec \in Int /\ p.sec \in Int /\ c.usec \in Int /\ p.usec \in Int
        /\ UINT_MODULUS \in Int /\ UINT_MODULUS > 0
    <3>1. (MaxSeconds + 1) * S_TO_US >= 0
      BY SampleAssumption
    <3>. QED
      BY <2>1, <3>1, SampleAssumption DEF Clocks
  <2>3. diff_s \in Int
    BY <2>2
  <2>4. diff_us \in Int
    <3>. HIDE DEF diff_s
    <3>1. diff_s * S_TO_US \in Int
      BY <2>3, SampleAssumption
    <3>. QED
      BY <2>2, <2>3, <3>1
  <2>5. estimateSampleTime(c, p) = Max({LOWEST_SAMPLE_TIME, diff_us \div MS_TO_US})
    BY <1>2, Zenon DEF estimateSampleTime
  <2>. HIDE DEF diff_us
  <2>. DEFINE q == diff_us \div MS_TO_US
              L == LOWEST_SAMPLE_TIME
  <2>6. q \in Int /\ L \in Int
    BY <2>4, SampleAssumption
  <2>. HIDE DEF q, L
  <2>7. Max({L, q}) \in {L, q} /\ Max({L, q}) >= L
    BY <2>6, MaxOfTwo, Zenon
  <2>8. Max({L, q}) \in Int
    BY <2>6, <2>7
  <2>. QED
    BY <2>5, <2>7, <2>8, Zenon DEF q, L
<1>. QED
  BY <1>1, <1>2

\* Of two times in order the seconds are in order and do not wrap around.
LEMMA OrderedTimes ==
  ASSUME NEW c \in Clocks, NEW p \in Clocks,
         (c.sec - p.sec) * S_TO_US + c.usec - p.usec >= 0
  PROVE  estimateSampleTime(c, p)
           = Max({LOWEST_SAMPLE_TIME,
                  ((c.sec - p.sec) * S_TO_US + c.usec - p.usec) \div MS_TO_US})
<1>. DEFINE S == S_TO_US
            M == UINT_MODULUS
            s == c.sec - p.sec
            u == c.usec - p.usec
            diff_s == s % M
            diff_us == (u + (IF diff_s > 0 THEN diff_s * S ELSE 0)) % M
<1>1. /\ S \in Nat /\ S > 0 /\ M \in Nat /\ MaxSeconds \in Nat
      /\ s \in Int /\ u \in Int /\ s <= MaxSeconds /\ -S < u /\ u < S
      /\ M > (MaxSeconds + 1) * S
  BY SampleAssumption DEF Clocks
<1>2. s * S + u >= 0
  BY SampleAssumption DEF Clocks
<1>3. estimateSampleTime(c, p) = Max({LOWEST_SAMPLE_TIME, diff_us \div MS_TO_US})
  <2>1. NoTime \notin {c, p}
    BY DEF Clocks, NoTime
  <2>. QED
    BY <2>1, Zenon DEF estimateSampleTime
<1>. HIDE DEF S, M, s, u
<1>4. s >= 0
  <2>1. ASSUME s <= -1 PROVE FALSE
    <3>1. s * S <= -1 * S
      BY <1>1, <2>1
    <3>. QED
      BY <1>1, <1>2, <3>1
  <2>. QED
    BY <1>1, <2>1
<1>5. s * S <= MaxSeconds * S /\ (MaxSeconds + 1) * S = MaxSeconds * S + S
  BY <1>1, <1>4
<1>6. MaxSeconds + 1 <= (MaxSeconds + 1) * S
  BY <1>1
<1>7. diff_s = s
  BY <1>1, <1>4, <1>6, NoWrap
<1>8. u + (IF diff_s > 0 THEN diff_s * S ELSE 0) = s * S + u
  BY <1>1, <1>4, <1>7
<1>9. s * S + u \in Nat /\ s * S + u < M
  BY <1>1, <1>2, <1>5
<1>10. diff_us = s * S + u
  BY <1>1, <1>8, <1>9, NoWrap
<1>11. s * S + u = (c.sec - p.sec) * S_TO_US + c.usec - p.usec
  BY SampleAssumption DEF s, S, u, Clocks
<1>. QED
  BY <1>3, <1>10, <1>11, Zenon

\* The number of logged messages, with its type.
LogInv == logged \in Nat /\ LogIsBounded

\* One more message is logged only while the time at the lowest sample time
\* has not passed.
LEMMA LogStep ==
  ASSUME NEW n \in Nat, NEW t \in Int, t >= LOWEST_SAMPLE_TIME, logs(n, t, MaxLogTime)
  PROVE  n <= MaxLogTime \div LOWEST_SAMPLE_TIME
<1>. DEFINE L == LOWEST_SAMPLE_TIME
<1>1. L \in Nat /\ L > 0 /\ MaxLogTime \in Nat /\ t >= L
  BY SampleAssumption, ConversionAssumption
<1>2. n * t <= MaxLogTime
  BY DEF logs, calculateTimeLogged
<1>. HIDE DEF L
<1>3. n * L <= n * t
  BY <1>1
<1>4. n * L <= MaxLogTime
  BY <1>1, <1>2, <1>3
<1>5. n <= MaxLogTime \div L
  BY <1>1, <1>4
<1>. QED
  BY <1>5 DEF L

\* The estimated sample time of two messages in order is the time between
\* them, for every width of the integers that holds the clock.
THEOREM SampleTimes == Spec => []SampleTimeIsElapsed
<1>1. InputsOK => SampleTimeIsElapsed
  <2>. SUFFICES ASSUME InputsOK, NoTime \notin {current, previous}, elapsed >= 0
                PROVE  estimateSampleTime(current, previous)
                         = Max({LOWEST_SAMPLE_TIME, elapsed \div MS_TO_US})
    BY DEF SampleTimeIsElapsed
  <2>1. current \in Clocks /\ previous \in Clocks
    BY DEF InputsOK, Times
  <2>. QED
    BY <2>1, OrderedTimes DEF elapsed
<1>. QED
  BY <1>1, InputsCorrect, PTL

\* The log is bounded by the configured duration and the lowest sample time,
\* whatever the times of the messages are.
THEOREM LogBound == Spec => []LogIsBounded
<1>1. Init => LogInv
  <2>1. ASSUME Init PROVE LogInv
    <3>1. MaxLogTime \div LOWEST_SAMPLE_TIME \in Int /\ MaxLogTime \div LOWEST_SAMPLE_TIME >= 0
      BY SampleAssumption, ConversionAssumption
    <3>. QED
      BY <2>1, <3>1 DEF Init, LogInv, LogIsBounded
  <2>. QED
    BY <2>1
<1>2. InputsOK /\ InputsOK' /\ LogInv /\ [Next]_vars => LogInv'
  <2>. SUFFICES ASSUME InputsOK, InputsOK', LogInv, [Next]_vars PROVE LogInv'
    OBVIOUS
  <2>1. CASE receiveTime
    <3>. DEFINE st == estimateSampleTime(current', previous')
                bound == MaxLogTime \div LOWEST_SAMPLE_TIME
    <3>1. current' \in Times /\ previous' \in Times
      BY DEF InputsOK
    <3>2. st \in Int /\ st >= LOWEST_SAMPLE_TIME
      BY <3>1, EstimateType
    <3>3. logged' = IF logs(logged, st, MaxLogTime) THEN logged + 1 ELSE logged
      BY <2>1 DEF receiveTime, logMessage
    <3>4. bound \in Int
      BY SampleAssumption, ConversionAssumption
    <3>. HIDE DEF st
    <3>5. logs(logged, st, MaxLogTime) => logged <= bound
      BY <3>2, LogStep DEF LogInv
    <3>. QED
      BY <3>3, <3>4, <3>5 DEF LogInv, LogIsBounded
  <2>2. CASE receiveJoints \/ updateSpline \/ UNCHANGED vars
    BY <2>2 DEF receiveJoints, updateSpline, vars, LogInv, LogIsBounded
  <2>. QED
    BY <2>1, <2>2 DEF Next
<1>3. LogInv => LogIsBounded
  BY DEF LogInv
<1>. QED
  BY <1>1, <1>2, <1>3, InputsCorrect, PTL DEF Spec

\* Every spline that is updated meets its conditions, slows down in a ramp
\* down and keeps what is at rest.
THEOREM SplinesAreRight == Spec => []SplineIsRight
<1>1. InputsOK => SplineIsRight
  BY SplinesMeetConditions, RampDownsSlow, StillStays DEF InputsOK, SplineIsRight
<1>. QED
  BY <1>1, InputsCorrect, PTL

-----------------------------------------------------------------------------
(***************************************************************************)
(* Joints.                                                                 *)
(***************************************************************************)
\* The first elements of a sequence.
LEMMA AtMostEffect ==
  ASSUME NEW S, NEW s \in Seq(S), NEW n \in Nat
  PROVE  /\ atMost(s, n) \in Seq(S)
         /\ Len(atMost(s, n)) = IF Len(s) < n THEN Len(s) ELSE n
         /\ \A i \in 1 .. Len(atMost(s, n)) : atMost(s, n)[i] = s[i]
         /\ Len(s) <= n => atMost(s, n) = s
<1>. DEFINE k == IF Len(s) < n THEN Len(s) ELSE n
<1>1. k \in Nat /\ k <= Len(s)
  OBVIOUS
<1>2. atMost(s, n) = SubSeq(s, 1, k)
  BY DEF atMost
<1>. HIDE DEF k
<1>3. \A i \in 1 .. k : s[i] \in S
  BY <1>1
<1>4. /\ SubSeq(s, 1, k) \in Seq(S)
      /\ Len(SubSeq(s, 1, k)) = k
      /\ \A i \in 1 .. k : SubSeq(s, 1, k)[i] = s[i]
  BY <1>1, <1>3, SubSeqProperties
<1>5. Len(s) <= n => SubSeq(s, 1, k) = s
  BY SubSeqFull DEF k
<1>. QED
  BY <1>2, <1>4, <1>5 DEF k

\* w is s, of length n, with e inserted in, and with the element removed from,
\* the third place.
Inserted(w, s, n, e) ==
  /\ Len(w) = n + 1
  /\ \A i \in 1 .. n + 1 : w[i] = IF i < 3 THEN s[i] ELSE IF i = 3 THEN e ELSE s[i - 1]

Removed(w, s, n) ==
  /\ Len(w) = n - 1
  /\ \A i \in 1 .. n - 1 : w[i] = IF i < 3 THEN s[i] ELSE s[i + 1]

\* InsertAt, element by element.
LEMMA InsertEffect ==
  ASSUME NEW S, NEW s \in Seq(S), NEW n \in Nat, Len(s) = n, n >= 2, NEW e \in S
  PROVE  InsertAt(s, 3, e) \in Seq(S) /\ Inserted(InsertAt(s, 3, e), s, n, e)
<1>. DEFINE x == SubSeq(s, 1, 2)
            y == x \o <<e>>
            z == SubSeq(s, 3, n)
<1>1. x \in Seq(S) /\ Len(x) = 2 /\ \A i \in 1 .. 2 : x[i] = s[i]
  <2>1. \A i \in 1 .. 2 : s[i] \in S
    OBVIOUS
  <2>. QED
    BY <2>1, SubSeqProperties
<1>2. z \in Seq(S) /\ Len(z) = n - 2 /\ \A i \in 1 .. n - 2 : z[i] = s[i + 2]
  <2>1. \A i \in 3 .. n : s[i] \in S
    OBVIOUS
  <2>. QED
    BY <2>1, SubSeqProperties
<1>3. y \in Seq(S) /\ Len(y) = 3 /\ y[1] = s[1] /\ y[2] = s[2] /\ y[3] = e
  BY <1>1
<1>4. InsertAt(s, 3, e) = y \o z
  BY DEF InsertAt
<1>. HIDE DEF x, y, z
<1>5. /\ y \o z \in Seq(S)
      /\ Len(y \o z) = Len(y) + Len(z)
      /\ \A i \in 1 .. Len(y) + Len(z) : (y \o z)[i] = IF i <= Len(y) THEN y[i] ELSE z[i - Len(y)]
  BY <1>2, <1>3, ConcatProperties, Zenon
<1>6. Len(y) + Len(z) = n + 1
  BY <1>2, <1>3
<1>7. ASSUME NEW i \in 1 .. n + 1
      PROVE  (y \o z)[i] = IF i < 3 THEN s[i] ELSE IF i = 3 THEN e ELSE s[i - 1]
  <2>1. (y \o z)[i] = IF i <= 3 THEN y[i] ELSE z[i - 3]
    BY <1>3, <1>5, <1>6
  <2>2. CASE i > 3
    <3>1. i - 3 \in 1 .. n - 2 /\ (i - 3) + 2 = i - 1
      BY <2>2
    <3>. QED
      BY <1>2, <2>1, <2>2, <3>1
  <2>3. CASE i \in {1, 2, 3}
    BY <1>3, <2>1, <2>3
  <2>4. i > 3 \/ i \in {1, 2, 3}
    OBVIOUS
  <2>. QED
    BY <2>2, <2>3, <2>4, Zenon
<1>8. Inserted(y \o z, s, n, e)
  BY <1>5, <1>6, <1>7, Zenon DEF Inserted
<1>. QED
  BY <1>4, <1>5, <1>8, Zenon

\* RemoveAt, element by element.
LEMMA RemoveEffect ==
  ASSUME NEW S, NEW s \in Seq(S), NEW n \in Nat, Len(s) = n, n >= 3
  PROVE  RemoveAt(s, 3) \in Seq(S) /\ Removed(RemoveAt(s, 3), s, n)
<1>. DEFINE x == SubSeq(s, 1, 2)
            z == SubSeq(s, 4, n)
<1>1. x \in Seq(S) /\ Len(x) = 2 /\ \A i \in 1 .. 2 : x[i] = s[i]
  <2>1. \A i \in 1 .. 2 : s[i] \in S
    OBVIOUS
  <2>. QED
    BY <2>1, SubSeqProperties
<1>2. z \in Seq(S) /\ Len(z) = n - 3 /\ \A i \in 1 .. n - 3 : z[i] = s[i + 3]
  <2>1. \A i \in 4 .. n : s[i] \in S
    OBVIOUS
  <2>. QED
    BY <2>1, SubSeqProperties
<1>3. RemoveAt(s, 3) = x \o z
  BY DEF RemoveAt
<1>. HIDE DEF x, z
<1>4. /\ x \o z \in Seq(S)
      /\ Len(x \o z) = Len(x) + Len(z)
      /\ \A i \in 1 .. Len(x) + Len(z) : (x \o z)[i] = IF i <= Len(x) THEN x[i] ELSE z[i - Len(x)]
  BY <1>1, <1>2, ConcatProperties, Zenon
<1>5. Len(x) + Len(z) = n - 1
  BY <1>1, <1>2
<1>6. ASSUME NEW i \in 1 .. n - 1
      PROVE  (x \o z)[i] = IF i < 3 THEN s[i] ELSE s[i + 1]
  <2>1. (x \o z)[i] = IF i <= 2 THEN x[i] ELSE z[i - 2]
    BY <1>1, <1>4, <1>5
  <2>2. CASE i > 2
    <3>1. i - 2 \in 1 .. n - 3 /\ (i - 2) + 3 = i + 1
      BY <2>2
    <3>. QED
      BY <1>2, <2>1, <2>2, <3>1
  <2>3. CASE i \in {1, 2}
    BY <1>1, <2>1, <2>3
  <2>4. i > 2 \/ i \in {1, 2}
    OBVIOUS
  <2>. QED
    BY <2>2, <2>3, <2>4, Zenon
<1>7. Removed(x \o z, s, n)
  BY <1>4, <1>5, <1>6, Zenon DEF Removed
<1>. QED
  BY <1>3, <1>4, <1>7, Zenon

\* A robot joint that is inserted and removed again.
LEMMA RemoveInserted ==
  ASSUME NEW S, NEW s \in Seq(S), NEW n \in Nat, Len(s) = n, n >= 2, NEW e \in S
  PROVE  RemoveAt(InsertAt(s, 3, e), 3) = s
<1>. DEFINE w == InsertAt(s, 3, e)
            r == RemoveAt(w, 3)
<1>1. w \in Seq(S) /\ Inserted(w, s, n, e)
  BY InsertEffect
<1>. HIDE DEF w
<1>2. r \in Seq(S) /\ Removed(r, w, n + 1)
  <2>1. n + 1 \in Nat /\ n + 1 >= 3 /\ Len(w) = n + 1
    BY <1>1 DEF Inserted
  <2>. QED
    BY <1>1, <2>1, RemoveEffect, Zenon
<1>. HIDE DEF r
<1>3. Len(r) = n /\ \A i \in 1 .. n : r[i] = s[i]
  BY <1>1, <1>2 DEF Inserted, Removed
<1>4. r = s
  BY <1>2, <1>3, SeqEqual
<1>. QED
  BY <1>4 DEF w, r

\* A robot joint that is removed and inserted again.
LEMMA InsertRemoved ==
  ASSUME NEW S, NEW s \in Seq(S), NEW n \in Nat, Len(s) = n, n >= 3
  PROVE  InsertAt(RemoveAt(s, 3), 3, s[3]) = s
<1>. DEFINE w == RemoveAt(s, 3)
            x == s[3]
            r == InsertAt(w, 3, x)
<1>1. w \in Seq(S) /\ Removed(w, s, n)
  BY RemoveEffect
<1>2. x \in S
  OBVIOUS
<1>. HIDE DEF w, x
<1>3. r \in Seq(S) /\ Inserted(r, w, n - 1, x)
  <2>1. n - 1 \in Nat /\ n - 1 >= 2 /\ Len(w) = n - 1
    BY <1>1 DEF Removed
  <2>. QED
    BY <1>1, <1>2, <2>1, InsertEffect, Zenon
<1>. HIDE DEF r
<1>4. Len(r) = n /\ \A i \in 1 .. n : r[i] = s[i]
  BY <1>1, <1>3 DEF Inserted, Removed, x
<1>5. r = s
  BY <1>3, <1>4, SeqEqual
<1>. QED
  BY <1>5 DEF w, x, r

\* What parse accepts, by the number of axes.
LEMMA ParseAccepts ==
  ASSUME NEW robot, NEW external, NEW a \in Axes, parse(robot, external, a) # Rejected
  PROVE  \/ /\ a = "None" /\ Len(robot) = 0
            /\ parse(robot, external, a) = [robot |-> <<>>, external |-> external]
         \/ /\ a = "Six" /\ Len(robot) = RobotJoints
            /\ parse(robot, external, a) = [robot |-> robot, external |-> external]
         \/ /\ a = "Seven" /\ Len(robot) = RobotJoints /\ Len(external) >= 1
            /\ parse(robot, external, a)
                 = [robot |-> InsertAt(robot, 3, Head(external)), external |-> Tail(external)]
BY DEF parse, Axes

\* The joints of a message are sent back as they came, for the three robots.
LEMMA SendBack ==
  ASSUME NEW S, NEW robot \in Seq(S), NEW external \in Seq(S), NEW a \in Axes,
         parse(robot, external, a) # Rejected, Len(external) <= ExternalJoints
  PROVE  constructJointBody(parse(robot, external, a).robot,
                            parse(robot, external, a).external, a)
           = [robot |-> robot, external |-> external]
<1>. DEFINE x == parse(robot, external, a)
<1>0. ExternalJoints \in Nat /\ ExternalJoints - 1 \in Nat /\ RobotJoints \in Nat /\ RobotJoints >= 3
  BY JointAssumption
<1>1. CASE a = "None" /\ Len(robot) = 0 /\ x = [robot |-> <<>>, external |-> external]
  <2>1. robot = <<>>
    BY <1>1, EmptySeq
  <2>2. atMost(external, ExternalJoints) = external
    BY <1>0, AtMostEffect
  <2>3. constructJointBody(<<>>, external, a)
          = [robot |-> <<>>, external |-> atMost(external, ExternalJoints)]
    BY <1>1, EmptySeq DEF constructJointBody
  <2>. QED
    BY <1>1, <2>1, <2>2, <2>3
<1>2. CASE a = "Six" /\ Len(robot) = RobotJoints /\ x = [robot |-> robot, external |-> external]
  <2>1. atMost(external, ExternalJoints) = external
    BY <1>0, AtMostEffect
  <2>2. constructJointBody(robot, external, a)
          = [robot |-> robot, external |-> atMost(external, ExternalJoints)]
    BY <1>2 DEF constructJointBody
  <2>. QED
    BY <1>2, <2>1, <2>2
<1>3. CASE /\ a = "Seven" /\ Len(robot) = RobotJoints /\ Len(external) >= 1
           /\ x = [robot |-> InsertAt(robot, 3, Head(external)), external |-> Tail(external)]
  <2>. DEFINE e == Head(external)
              w == InsertAt(robot, 3, e)
              r == Tail(external)
  <2>1. e \in S /\ r \in Seq(S) /\ Len(r) = Len(external) - 1 /\ external = <<e>> \o r
    BY <1>3
  <2>2. w \in Seq(S) /\ Inserted(w, robot, RobotJoints, e)
    BY <1>0, <1>3, <2>1, InsertEffect
  <2>3. RemoveAt(w, 3) = robot
    BY <1>0, <1>3, <2>1, RemoveInserted
  <2>. HIDE DEF e, w, r
  <2>4. Len(w) = RobotJoints + 1 /\ w[3] = e
    BY <1>0, <2>2 DEF Inserted
  <2>5. constructJointBody(w, r, a)
          = [robot |-> RemoveAt(w, 3), external |-> <<w[3]>> \o atMost(r, ExternalJoints - 1)]
    BY <1>3, <2>4 DEF constructJointBody
  <2>6. atMost(r, ExternalJoints - 1) = r
    <3>1. Len(r) <= ExternalJoints - 1
      BY <1>0, <2>1
    <3>. QED
      BY <1>0, <2>1, <3>1, AtMostEffect
  <2>7. constructJointBody(w, r, a) = [robot |-> robot, external |-> external]
    BY <2>1, <2>3, <2>4, <2>5, <2>6, Zenon
  <2>8. x.robot = w /\ x.external = r
    BY <1>3 DEF w, r, e
  <2>. QED
    BY <2>7, <2>8
<1>. QED
  BY <1>1, <1>2, <1>3, ParseAccepts

\* A reply that sends the feedback back names the joints as the message did,
\* whatever the numbers of joints are.
THEOREM FeedbackComesBack == Spec => []FeedbackIsSentBack
<1>1. InputsOK => FeedbackIsSentBack
  <2>. SUFFICES ASSUME InputsOK, received # Rejected, Len(joints.external) <= ExternalJoints
                PROVE  constructJointBody(received.robot, received.external, axes) = joints
    BY DEF FeedbackIsSentBack
  <2>1. /\ joints.robot \in Seq(Names) /\ joints.external \in Seq(Names) /\ axes \in Axes
        /\ joints = [robot |-> joints.robot, external |-> joints.external]
    BY DEF InputsOK
  <2>. QED
    BY <2>1, SendBack DEF received
<1>. QED
  BY <1>1, InputsCorrect, PTL

\* What constructJointBody accepts.
LEMMA BodyAccepts ==
  ASSUME NEW robot, NEW external, NEW a \in Axes,
         constructJointBody(robot, external, a) # Rejected
  PROVE  \/ /\ a = "None" /\ Len(robot) = 0
            /\ constructJointBody(robot, external, a)
                 = [robot |-> <<>>, external |-> atMost(external, ExternalJoints)]
         \/ /\ a = "Six" /\ Len(robot) = RobotJoints
            /\ constructJointBody(robot, external, a)
                 = [robot |-> robot, external |-> atMost(external, ExternalJoints)]
         \/ /\ a = "Seven" /\ Len(robot) = RobotJoints + 1
            /\ constructJointBody(robot, external, a)
                 = [robot |-> RemoveAt(robot, 3),
                    external |-> <<robot[3]>> \o atMost(external, ExternalJoints - 1)]
BY DEF constructJointBody, Axes

\* The first elements are a prefix, and all when there is room.
LEMMA AtMostPrefix ==
  ASSUME NEW S, NEW s \in Seq(S), NEW n \in Nat
  PROVE  /\ IsPrefix(atMost(s, n), s)
         /\ Len(s) <= n => atMost(s, n) = s
<1>. DEFINE x == atMost(s, n)
            k == Len(x)
<1>1. /\ x \in Seq(S)
      /\ k = IF Len(s) < n THEN Len(s) ELSE n
      /\ Len(s) <= n => x = s
  BY AtMostEffect
<1>2. x = SubSeq(s, 1, k)
  BY <1>1 DEF atMost
<1>. HIDE DEF x
<1>3. k <= Len(s)
  BY <1>1
<1>4. SubSeq(x, 1, k) = x
  BY <1>1, SubSeqFull
<1>5. IsPrefix(x, s)
  BY <1>2, <1>3, <1>4 DEF IsPrefix
<1>. QED
  BY <1>1, <1>5 DEF x

\* What the robot reports of a reply, for the three robots.
LEMMA ReportBack ==
  ASSUME NEW S, NEW robot \in Seq(S), NEW external \in Seq(S), NEW a \in Axes,
         constructJointBody(robot, external, a) # Rejected
  PROVE  LET body == constructJointBody(robot, external, a)
             room == IF a = "Seven" THEN ExternalJoints - 1 ELSE ExternalJoints
             reported == parse(body.robot, body.external, a)
         IN  reported.robot = robot /\ reported.external = atMost(external, room)
<1>. DEFINE body == constructJointBody(robot, external, a)
            room == IF a = "Seven" THEN ExternalJoints - 1 ELSE ExternalJoints
<1>0. ExternalJoints \in Nat /\ ExternalJoints - 1 \in Nat /\ RobotJoints \in Nat /\ RobotJoints >= 3
  BY JointAssumption
<1>1. CASE /\ a = "None" /\ Len(robot) = 0
           /\ body = [robot |-> <<>>, external |-> atMost(external, ExternalJoints)]
  <2>1. robot = <<>>
    BY <1>1, EmptySeq
  <2>. DEFINE y == atMost(external, ExternalJoints)
  <2>. HIDE DEF y
  <2>2. parse(<<>>, y, a) = [robot |-> <<>>, external |-> y]
    BY <1>1, EmptySeq DEF parse
  <2>3. body.robot = <<>> /\ body.external = y
    BY <1>1 DEF y
  <2>. HIDE DEF body
  <2>. QED
    BY <1>1, <2>1, <2>2, <2>3 DEF y, body
<1>2. CASE /\ a = "Six" /\ Len(robot) = RobotJoints
           /\ body = [robot |-> robot, external |-> atMost(external, ExternalJoints)]
  <2>. DEFINE y == atMost(external, ExternalJoints)
  <2>. HIDE DEF y
  <2>2. parse(robot, y, a) = [robot |-> robot, external |-> y]
    BY <1>2 DEF parse
  <2>3. body.robot = robot /\ body.external = y
    BY <1>2 DEF y
  <2>. HIDE DEF body
  <2>. QED
    BY <1>2, <2>2, <2>3 DEF y, body
<1>3. CASE /\ a = "Seven" /\ Len(robot) = RobotJoints + 1
           /\ body = [robot |-> RemoveAt(robot, 3),
                      external |-> <<robot[3]>> \o atMost(external, ExternalJoints - 1)]
  <2>. DEFINE w == RemoveAt(robot, 3)
              x == robot[3]
              y == atMost(external, ExternalJoints - 1)
              z == <<x>> \o y
  <2>0. RobotJoints + 1 \in Nat /\ RobotJoints + 1 >= 3
    BY <1>0
  <2>1. w \in Seq(S) /\ Removed(w, robot, RobotJoints + 1)
    BY <1>3, <2>0, RemoveEffect
  <2>2. InsertAt(w, 3, x) = robot
    BY <1>3, <2>0, InsertRemoved
  <2>3. y \in Seq(S)
    BY <1>0, AtMostEffect
  <2>4. x \in S
    BY <1>0, <1>3
  <2>. HIDE DEF w, x, y
  <2>5. Len(w) = RobotJoints
    BY <1>0, <2>1 DEF Removed
  <2>6. Len(z) >= 1 /\ Head(z) = x /\ Tail(z) = y
    BY <2>3, <2>4
  <2>. HIDE DEF z
  <2>7. parse(w, z, a) = [robot |-> InsertAt(w, 3, Head(z)), external |-> Tail(z)]
    BY <1>3, <2>5, <2>6 DEF parse
  <2>8. body.robot = w /\ body.external = z
    BY <1>3 DEF w, x, y, z
  <2>. HIDE DEF body
  <2>9. parse(body.robot, body.external, a) = [robot |-> robot, external |-> y]
    BY <2>2, <2>6, <2>7, <2>8, Zenon
  <2>. QED
    BY <1>3, <2>9 DEF y, body
<1>. QED
  BY <1>1, <1>2, <1>3, BodyAccepts

\* What a reply orders is what the robot's feedback reports, as far as there is
\* room for it in a message.
THEOREM PlannedComesBack == Spec => []PlannedIsReported
<1>1. InputsOK => PlannedIsReported
  <2>. SUFFICES ASSUME InputsOK, planned # Rejected
                PROVE  LET room     == IF axes = "Seven" THEN ExternalJoints - 1 ELSE ExternalJoints
                           reported == parse(planned.robot, planned.external, axes)
                       IN /\ reported.robot = joints.robot
                          /\ IsPrefix(reported.external, joints.external)
                          /\ Len(joints.external) <= room => reported.external = joints.external
    BY DEF PlannedIsReported
  <2>. DEFINE room == IF axes = "Seven" THEN ExternalJoints - 1 ELSE ExternalJoints
              reported == parse(planned.robot, planned.external, axes)
              r == joints.robot
              e == joints.external
  <2>1. r \in Seq(Names) /\ e \in Seq(Names) /\ axes \in Axes /\ room \in Nat
    BY JointAssumption DEF InputsOK
  <2>2. reported.robot = r /\ reported.external = atMost(e, room)
    BY <2>1, ReportBack DEF planned
  <2>. HIDE DEF reported, r, e, room
  <2>3. IsPrefix(atMost(e, room), e) /\ (Len(e) <= room => atMost(e, room) = e)
    BY <2>1, AtMostPrefix
  <2>. QED
    BY <2>2, <2>3 DEF reported, r, e, room
<1>. QED
  BY <1>1, InputsCorrect, PTL

\* The numbers of joints after parse.
LEMMA ReceivedSizes ==
  ASSUME InputsOK, received # Rejected
  PROVE  /\ Len(received.robot) \in Nat
         /\ Len(received.external) \in Nat
         /\ Len(received.robot) + Len(received.external) <= RobotJoints + Len(joints.external)
         /\ Len(received.robot) <= MAX_NUMBER_OF_JOINTS
         /\ axes = "None" => Len(received.robot) = 0
         /\ axes # "None" => Len(received.robot) >= RobotJoints
<1>. DEFINE r == joints.robot
            e == joints.external
            m == Len(e)
<1>0. /\ r \in Seq(Names) /\ e \in Seq(Names) /\ axes \in Axes /\ m \in Nat
      /\ ExternalJoints \in Nat \ {0} /\ RobotJoints \in Nat /\ RobotJoints >= 3
      /\ MAX_NUMBER_OF_JOINTS = RobotJoints + ExternalJoints
  BY JointAssumption, ConversionAssumption DEF InputsOK
<1>. SUFFICES /\ Len(received.robot) \in Nat
              /\ Len(received.external) \in Nat
              /\ Len(received.robot) + Len(received.external) <= RobotJoints + m
              /\ Len(received.robot) <= MAX_NUMBER_OF_JOINTS
              /\ axes = "None" => Len(received.robot) = 0
              /\ axes # "None" => Len(received.robot) >= RobotJoints
  OBVIOUS
<1>. HIDE DEF r, e
<1>1. CASE received = [robot |-> <<>>, external |-> e] /\ axes = "None"
  <2>1. Len(received.robot) = 0 /\ Len(received.external) = m
    BY <1>1, EmptySeq
  <2>. HIDE DEF m
  <2>. QED
    BY <1>0, <1>1, <2>1
<1>2. CASE received = [robot |-> r, external |-> e] /\ Len(r) = RobotJoints /\ axes # "None"
  <2>1. Len(received.robot) = RobotJoints /\ Len(received.external) = m
    BY <1>2
  <2>. HIDE DEF m
  <2>. QED
    BY <1>0, <1>2, <2>1
<1>3. CASE /\ received = [robot |-> InsertAt(r, 3, Head(e)), external |-> Tail(e)]
           /\ Len(r) = RobotJoints /\ m >= 1 /\ axes # "None"
  <2>1. Head(e) \in Names /\ Len(Tail(e)) = m - 1
    BY <1>0, <1>3
  <2>2. Inserted(InsertAt(r, 3, Head(e)), r, RobotJoints, Head(e))
    <3>1. RobotJoints >= 2
      BY <1>0
    <3>. QED
      BY <1>0, <1>3, <2>1, <3>1, InsertEffect
  <2>3. Len(received.robot) = RobotJoints + 1 /\ Len(received.external) = m - 1
    BY <1>3, <2>1, <2>2 DEF Inserted
  <2>. HIDE DEF m
  <2>. QED
    BY <1>0, <1>3, <2>3
<1>. QED
  BY <1>0, <1>1, <1>2, <1>3, ParseAccepts, Zenon DEF received, r, e

\* If the external joints are as many as a robot controller has, there are as
\* many joints as columns in the log, at most.
LEMMA ReceivedFits ==
  ASSUME InputsOK, received # Rejected, Len(joints.external) <= ExternalJoints
  PROVE  Len(received.robot) + Len(received.external) <= MAX_NUMBER_OF_JOINTS
<1>. DEFINE r == Len(received.robot)
            e == Len(received.external)
            m == Len(joints.external)
<1>1. r \in Nat /\ e \in Nat /\ r + e <= RobotJoints + m
  BY ReceivedSizes, Zenon
<1>2. m \in Nat /\ m <= ExternalJoints
  BY DEF InputsOK
<1>. HIDE DEF r, e, m
<1>3. r + e <= MAX_NUMBER_OF_JOINTS
  BY <1>1, <1>2, JointAssumption, ConversionAssumption
<1>. QED
  BY <1>3 DEF r, e

\* A row of the log of any robot has as many values as the header has columns.
THEOREM LogRowsFit == Spec => []LogRowFits
<1>1. InputsOK => LogRowFits
  <2>. SUFFICES ASSUME InputsOK, received # Rejected, axes # "None",
                       Len(joints.external) <= ExternalJoints
                PROVE  rowColumns(Len(received.robot), Len(received.external)) = headerColumns
    BY DEF LogRowFits
  <2>. DEFINE r == Len(received.robot)
              e == Len(received.external)
              N == MAX_NUMBER_OF_JOINTS
              D == DEFAULT_NUMBER_OF_ROBOT_JOINTS
  <2>1. r \in Nat /\ e \in Nat /\ N \in Nat /\ D \in Nat /\ r + e <= N /\ r >= D
    BY ReceivedSizes, ReceivedFits, LoggerAssumption, ConversionAssumption, Zenon
  <2>. HIDE DEF r, e, N, D
  <2>. DEFINE d == D - r
              n == N - r - e
  <2>0. 0 \in Int /\ d \in Int /\ 0 >= d /\ n \in Int /\ n >= 0
    BY <2>1
  <2>. HIDE DEF d, n
  <2>2. Max({0, d}) = 0
    BY <2>0, MaxOfTwo, Zenon
  <2>3. Max({0, n}) = n
    BY <2>0, MaxOfTwo, Zenon
  <2>4. addJoints(r, e) = N
    <3>1. addJoints(r, e) = r + Max({0, d}) + e + Max({0, n})
      BY DEF addJoints, addMockJoints, N, D, d, n
    <3>2. addJoints(r, e) = r + 0 + e + n
      BY <2>2, <2>3, <3>1, Zenon
    <3>. QED
      BY <2>1, <3>2 DEF n
  <2>. QED
    BY <2>4 DEF rowColumns, headerColumns, r, e, N
<1>. QED
  BY <1>1, InputsCorrect, PTL

\* For any number of joints that parse accepts, and in both modes: when the
\* polynomials are within the array and when each coordinate has its own.
THEOREM SplinesApart == Spec => []SplinesAreDistinct
<1>1. InputsOK => SplinesAreDistinct
  <2>. SUFFICES ASSUME InputsOK, received # Rejected, NEW mode \in {"EGMJoint", "EGMPose"}
                PROVE  LET robot    == Len(received.robot)
                           external == Len(received.external)
                           slots    == splineSlots(mode, robot, external)
                       IN /\ (\A j \in DOMAIN slots : slots[j] < MAX_NUMBER_OF_SPLINES)
                               <=> robot = 0 \/ robot + external <= MAX_NUMBER_OF_SPLINES
                          /\ IsInjective(slots) <=> ~(mode = "EGMPose" /\ robot = 0 /\ external > 0)
    BY DEF SplinesAreDistinct
  <2>. DEFINE r == Len(received.robot)
              e == Len(received.external)
              N == MAX_NUMBER_OF_SPLINES
              R == IF mode = "EGMJoint" THEN visited(r) ELSE 0 .. 2
              E == visited(e)
              slots == splineSlots(mode, r, e)
  <2>1. r \in Nat /\ e \in Nat /\ N \in Nat /\ r <= N /\ N >= 3 /\ (r = 0 \/ r >= 3)
    <3>1. r \in Nat /\ e \in Nat /\ r <= MAX_NUMBER_OF_JOINTS /\ (r = 0 \/ r >= RobotJoints)
      BY ReceivedSizes, Zenon
    <3>. HIDE DEF r, e, N
    <3>2. /\ N = MAX_NUMBER_OF_JOINTS /\ N = RobotJoints + ExternalJoints
          /\ RobotJoints \in Nat /\ RobotJoints >= 3 /\ ExternalJoints \in Nat
      BY JointAssumption, ConversionAssumption DEF N
    <3>. QED
      BY <3>1, <3>2
  <2>. HIDE DEF r, e
  <2>2. /\ R \subseteq Nat /\ E \subseteq Nat
        /\ \A i \in E : i < e /\ i < N
        /\ \A i \in R : i < N
        /\ mode = "EGMJoint" \/ r # 0 => \A i \in R : i < r
        /\ mode = "EGMPose" => 0 \in R
        /\ e > 0 => 0 \in E
        /\ e > 0 /\ e <= N => e - 1 \in E
        /\ e > N => N - 1 \in E
    BY <2>1 DEF visited
  <2>3. slots = [j \in ({"robot"} \X R) \cup ({"external"} \X E) |->
                   IF j[1] = "robot" THEN j[2] ELSE j[2] + r]
    BY DEF splineSlots
  <2>. HIDE DEF slots, R, E, N
  <2>4. /\ DOMAIN slots = ({"robot"} \X R) \cup ({"external"} \X E)
        /\ \A i \in R : <<"robot", i>> \in DOMAIN slots /\ slots[<<"robot", i>>] = i
        /\ \A i \in E : <<"external", i>> \in DOMAIN slots /\ slots[<<"external", i>>] = i + r
    BY <2>3
  <2>5. \A j \in DOMAIN slots : \/ \E i \in R : j = <<"robot", i>>
                                \/ \E i \in E : j = <<"external", i>>
    BY <2>4
  <2>6. (\A j \in DOMAIN slots : slots[j] < N) <=> r = 0 \/ r + e <= N
    <3>1. ASSUME r = 0 \/ r + e <= N, NEW j \in DOMAIN slots PROVE slots[j] < N
      BY <2>1, <2>2, <2>4, <2>5, <3>1
    <3>2. ASSUME r # 0, r + e > N PROVE \E j \in DOMAIN slots : ~(slots[j] < N)
      <4>1. CASE e <= N
        <5>1. e > 0 /\ e - 1 \in E /\ ~((e - 1) + r < N)
          BY <2>1, <2>2, <3>2, <4>1
        <5>. QED
          BY <2>4, <5>1
      <4>2. CASE e > N
        <5>1. N - 1 \in E /\ ~((N - 1) + r < N)
          BY <2>1, <2>2, <3>2, <4>2
        <5>. QED
          BY <2>4, <5>1
      <4>. QED
        BY <2>1, <4>1, <4>2
    <3>. QED
      BY <2>1, <3>1, <3>2
  <2>7. IsInjective(slots) <=> ~(mode = "EGMPose" /\ r = 0 /\ e > 0)
    <3>1. ASSUME mode = "EGMPose", r = 0, e > 0 PROVE ~IsInjective(slots)
      <4>1. 0 \in R /\ 0 \in E
        BY <2>2, <3>1
      <4>2. slots[<<"robot", 0>>] = slots[<<"external", 0>>] /\ <<"robot", 0>> # <<"external", 0>>
        BY <2>4, <3>1, <4>1
      <4>. QED
        BY <2>4, <4>1, <4>2 DEF IsInjective
    <3>2. ASSUME mode = "EGMJoint" \/ r # 0 \/ e = 0, NEW a \in DOMAIN slots,
                 NEW b \in DOMAIN slots, slots[a] = slots[b]
          PROVE  a = b
      <4>1. CASE e = 0
        <5>1. E = {}
          BY <2>1, <2>2, <4>1
        <5>. QED
          BY <2>4, <2>5, <3>2, <5>1
      <4>2. CASE mode = "EGMJoint" \/ r # 0
        <5>1. \A i \in R : i < r
          BY <2>2, <4>2
        <5>. QED
          BY <2>1, <2>2, <2>4, <2>5, <3>2, <5>1
      <4>. QED
        BY <3>2, <4>1, <4>2
    <3>. QED
      BY <2>1, <3>1, <3>2 DEF IsInjective
  <2>. QED
    BY <2>6, <2>7 DEF slots, r, e, N
<1>. QED
  BY <1>1, InputsCorrect, PTL
=============================================================================
