---------------------------- MODULE SplineProofs ----------------------------
(***************************************************************************)
(* What the spline polynomials compute, for every duration and all values  *)
(* at the ends.  The identities are polynomial: each method's coefficients *)
(* are named and summed, and Values turns the sums into the position, the  *)
(* velocity and the acceleration at the ends.                              *)
(***************************************************************************)
EXTENDS SplinePolynomial, TLAPS

\* The values at the start and at the end in terms of the coefficients.
LEMMA Values ==
  ASSUME NEW p, NEW a \in Int, NEW b \in Int, NEW c \in Int, NEW d \in Int, NEW e \in Int,
         NEW f \in Int, NEW T \in Int, p.duration = T,
         update(p) = coefficients(a, b, c, d, e, f)
  PROVE  /\ start(p).p = a * (T * T * T * T * T)
         /\ start(p).v = b * (T * T * T * T)
         /\ start(p).a = 2 * c * (T * T * T)
         /\ end(p).p = (a + (b + c + d + e + f)) * (T * T * T * T * T)
         /\ end(p).v = (b + 2 * c + 3 * d + 4 * e + 5 * f) * (T * T * T * T)
         /\ end(p).a = (2 * c + 6 * d + 12 * e + 20 * f) * (T * T * T)
<1> DEFINE s == coefficients(a, b, c, d, e, f)
<1>1. /\ start(p).p = calculatePosition(s, T, 0)
      /\ start(p).v = calculateVelocity(s, T, 0)
      /\ start(p).a = calculateAcceleration(s, T, 0)
      /\ end(p).p = calculatePosition(s, T, T)
      /\ end(p).v = calculateVelocity(s, T, T)
      /\ end(p).a = calculateAcceleration(s, T, T)
  BY DEF start, end, evaluate
<1>2. /\ calculatePosition(s, T, 0) = a * (T * T * T * T * T)
      /\ calculateVelocity(s, T, 0) = b * (T * T * T * T)
      /\ calculateAcceleration(s, T, 0) = 2 * c * (T * T * T)
  BY DEF calculatePosition, calculateVelocity, calculateAcceleration, coefficients
<1>3. calculatePosition(s, T, T) = (a + (b + c + d + e + f)) * (T * T * T * T * T)
  BY DEF calculatePosition, coefficients
<1>4. calculateVelocity(s, T, T) = (b + 2 * c + 3 * d + 4 * e + 5 * f) * (T * T * T * T)
  BY DEF calculateVelocity, coefficients
<1>5. calculateAcceleration(s, T, T) = (2 * c + 6 * d + 12 * e + 20 * f) * (T * T * T)
  BY DEF calculateAcceleration, coefficients
<1> QED
  BY <1>1, <1>2, <1>3, <1>4, <1>5

\* The conditions of a ramp down.
LEMMA RampDownConditions ==
  ASSUME NEW p \in SplineConditions, p.do_ramp_down
  PROVE  MeetsConditions(p)
<1> DEFINE T == p.duration
           k == saturated(p.halves)
           a == 6 * p.alfa
           b == 6 * p.d_alfa * T
           c == 3 * (k - 2) * p.d_alfa * T
           d == -((k - 2) * p.d_alfa * T)
<1>1. /\ T \in Int /\ p.alfa \in Int /\ p.d_alfa \in Int
      /\ k \in Int
  BY DEF SplineConditions, saturated
<1>2. update(p) = coefficients(a, b, c, d, 0, 0)
  BY DEF update, rampDown, SCALE
<1>3. a \in Int /\ b \in Int /\ c \in Int /\ d \in Int
  BY <1>1
<1>4. p.duration = T
  OBVIOUS
<1> HIDE DEF T, k, a, b, c, d
<1>5. /\ start(p).p = a * (T * T * T * T * T)
      /\ start(p).v = b * (T * T * T * T)
      /\ end(p).v = (b + 2 * c + 3 * d + 4 * 0 + 5 * 0) * (T * T * T * T)
      /\ end(p).a = (2 * c + 6 * d + 12 * 0 + 20 * 0) * (T * T * T)
  BY <1>1, <1>2, <1>3, <1>4, Values
<1>6. start(p).p = unit(T) * p.alfa /\ start(p).v = unit(T) * p.d_alfa
  BY <1>1, <1>5 DEF unit, SCALE, a, b
<1>7. c = -3 * d /\ d = 2 * p.d_alfa * T - k * p.d_alfa * T
  BY <1>1 DEF c, d
<1>8. end(p).a = 0
  BY <1>3, <1>5, <1>7, <1>1
<1>9. 2 * end(p).v = unit(T) * k * p.d_alfa
  <2>1. b + 2 * c + 3 * d = 3 * k * p.d_alfa * T
    BY <1>1, <1>7 DEF b
  <2>2. 2 * end(p).v = 2 * (3 * k * p.d_alfa * T) * (T * T * T * T)
    BY <1>1, <1>3, <1>5, <2>1
  <2> QED
    BY <1>1, <2>2 DEF unit, SCALE
<1> QED
  BY <1>6, <1>8, <1>9 DEF MeetsConditions, T, k

\* The conditions of the linear method: the positions at both ends.
LEMMA LinearConditions ==
  ASSUME NEW p \in SplineConditions, ~p.do_ramp_down, p.spline_method = "Linear"
  PROVE  MeetsConditions(p)
<1> DEFINE T == p.duration
           a == 6 * p.alfa
           b == 6 * (p.beta - p.alfa)
<1>1. T \in Int /\ p.alfa \in Int /\ p.beta \in Int /\ a \in Int /\ b \in Int /\ p.duration = T
  BY DEF SplineConditions
<1>2. update(p) = coefficients(a, b, 0, 0, 0, 0)
  BY DEF update, linear, SCALE
<1> HIDE DEF T, a, b
<1>3. /\ start(p).p = a * (T * T * T * T * T)
      /\ end(p).p = (a + (b + 0 + 0 + 0 + 0)) * (T * T * T * T * T)
  BY <1>1, <1>2, Values
<1>4. a + (b + 0 + 0 + 0 + 0) = 6 * p.beta
  BY <1>1 DEF a, b
<1>5. start(p).p = unit(T) * p.alfa
  BY <1>1, <1>3 DEF unit, SCALE, a
<1>6. end(p).p = unit(T) * p.beta
  BY <1>1, <1>3, <1>4 DEF unit, SCALE
<1> QED
  BY <1>5, <1>6 DEF MeetsConditions, T

\* The conditions of the square method: also the velocity at the start.
LEMMA SquareConditions ==
  ASSUME NEW p \in SplineConditions, ~p.do_ramp_down, p.spline_method = "Square"
  PROVE  MeetsConditions(p)
<1> DEFINE T == p.duration
           a == 6 * p.alfa
           b == 6 * p.d_alfa * T
           c == 6 * (p.beta - p.alfa - p.d_alfa * T)
<1>1. /\ T \in Int /\ p.alfa \in Int /\ p.beta \in Int /\ p.d_alfa \in Int /\ p.duration = T
      /\ a \in Int /\ b \in Int /\ c \in Int
  BY DEF SplineConditions
<1>2. update(p) = coefficients(a, b, c, 0, 0, 0)
  BY DEF update, square, SCALE
<1> HIDE DEF T, a, b, c
<1>3. /\ start(p).p = a * (T * T * T * T * T)
      /\ start(p).v = b * (T * T * T * T)
      /\ end(p).p = (a + (b + c + 0 + 0 + 0)) * (T * T * T * T * T)
  BY <1>1, <1>2, Values
<1>4. a + (b + c + 0 + 0 + 0) = 6 * p.beta
  <2>1. b + c + 0 + 0 + 0 = 6 * (p.beta - p.alfa)
    BY <1>1 DEF b, c
  <2> QED
    BY <1>1, <2>1 DEF a
<1>5. start(p).p = unit(T) * p.alfa /\ start(p).v = unit(T) * p.d_alfa
  BY <1>1, <1>3 DEF unit, SCALE, a, b
<1>6. end(p).p = unit(T) * p.beta
  BY <1>1, <1>3, <1>4 DEF unit, SCALE
<1> QED
  BY <1>5, <1>6 DEF MeetsConditions, T

\* The conditions of the cubic method: positions and velocities.
LEMMA CubicConditions ==
  ASSUME NEW p \in SplineConditions, ~p.do_ramp_down, p.spline_method = "Cubic"
  PROVE  MeetsConditions(p)
<1> DEFINE T == p.duration
           a == 6 * p.alfa
           b == 6 * p.d_alfa * T
           c1 == 6 * (p.beta - p.alfa - p.d_alfa * T)
           c2 == 6 * (p.d_beta - p.d_alfa) * T
           c == 3 * c1 - c2
           d == c1 - c
<1>1. /\ T \in Int /\ p.alfa \in Int /\ p.beta \in Int /\ p.d_alfa \in Int /\ p.d_beta \in Int
      /\ p.duration = T /\ a \in Int /\ b \in Int /\ c1 \in Int /\ c2 \in Int /\ c \in Int /\ d \in Int
  BY DEF SplineConditions
<1>2. update(p) = coefficients(a, b, c, d, 0, 0)
  BY DEF update, cubic, SCALE
<1> HIDE DEF T, a, b, c, d, c1, c2
<1>3. /\ start(p).p = a * (T * T * T * T * T)
      /\ start(p).v = b * (T * T * T * T)
      /\ end(p).p = (a + (b + c + d + 0 + 0)) * (T * T * T * T * T)
      /\ end(p).v = (b + 2 * c + 3 * d + 4 * 0 + 5 * 0) * (T * T * T * T)
  BY <1>1, <1>2, Values
<1>4. a + (b + c + d + 0 + 0) = 6 * p.beta
  <2>1. c + d = c1
    BY <1>1 DEF d
  <2>2. b + c1 = 6 * (p.beta - p.alfa)
    BY <1>1 DEF b, c1
  <2>3. b + c + d + 0 + 0 = 6 * (p.beta - p.alfa)
    BY <1>1, <2>1, <2>2
  <2> QED
    BY <1>1, <2>3 DEF a
<1>5. b + 2 * c + 3 * d + 4 * 0 + 5 * 0 = 6 * p.d_beta * T
  <2>1. 2 * c + 3 * d = c2
    BY <1>1 DEF c, d
  <2> QED
    BY <1>1, <2>1 DEF b, c2
<1>6. start(p).p = unit(T) * p.alfa /\ start(p).v = unit(T) * p.d_alfa
  BY <1>1, <1>3 DEF unit, SCALE, a, b
<1>7. end(p).p = unit(T) * p.beta
  BY <1>1, <1>3, <1>4 DEF unit, SCALE
<1>8. end(p).v = unit(T) * p.d_beta
  <2>1. end(p).v = 6 * p.d_beta * T * (T * T * T * T)
    BY <1>3, <1>5
  <2> QED
    BY <1>1, <2>1 DEF unit, SCALE
<1> QED
  BY <1>6, <1>7, <1>8 DEF MeetsConditions, T

\* The conditions of the quintic method: also the accelerations.
LEMMA QuinticConditions ==
  ASSUME NEW p \in SplineConditions, ~p.do_ramp_down, p.spline_method = "Quintic"
  PROVE  MeetsConditions(p)
<1> DEFINE T == p.duration
           a == 6 * p.alfa
           b == 6 * p.d_alfa * T
           c == 3 * p.dd_alfa * T * T
           c1 == 6 * (p.beta - p.alfa - p.d_alfa * T) - c
           c2 == 6 * (p.d_beta - p.d_alfa - p.dd_alfa * T) * T
           c3 == 3 * (p.dd_beta - p.dd_alfa) * T * T
           d == 10 * c1 - 4 * c2 + c3
           e == 5 * c1 - c2 - 2 * d
           f == c1 - d - e
<1>1. /\ T \in Int /\ p.alfa \in Int /\ p.beta \in Int /\ p.d_alfa \in Int /\ p.d_beta \in Int
      /\ p.dd_alfa \in Int /\ p.dd_beta \in Int /\ p.duration = T
  BY DEF SplineConditions
<1>2. a \in Int /\ b \in Int /\ c \in Int /\ c1 \in Int /\ c2 \in Int /\ c3 \in Int
  BY <1>1
<1>3. update(p) = coefficients(a, b, c, d, e, f)
  BY DEF update, quintic, SCALE
<1> HIDE DEF T, a, b, c, c1, c2, c3
<1>4. d \in Int /\ e \in Int /\ f \in Int
  BY <1>2
<1> HIDE DEF d, e, f
<1>5. /\ start(p).p = a * (T * T * T * T * T)
      /\ start(p).v = b * (T * T * T * T)
      /\ start(p).a = 2 * c * (T * T * T)
      /\ end(p).p = (a + (b + c + d + e + f)) * (T * T * T * T * T)
      /\ end(p).v = (b + 2 * c + 3 * d + 4 * e + 5 * f) * (T * T * T * T)
      /\ end(p).a = (2 * c + 6 * d + 12 * e + 20 * f) * (T * T * T)
  BY <1>1, <1>2, <1>3, <1>4, Values
<1>6. a + (b + c + d + e + f) = 6 * p.beta
  <2>1. d + e + f = c1
    BY <1>2, <1>4 DEF f
  <2>2. b + c + c1 = 6 * (p.beta - p.alfa)
    BY <1>1, <1>2 DEF b, c1
  <2>3. b + c + d + e + f = 6 * (p.beta - p.alfa)
    BY <1>2, <1>4, <2>1, <2>2
  <2> QED
    BY <1>1, <2>3 DEF a
<1>7. b + 2 * c + 3 * d + 4 * e + 5 * f = 6 * p.d_beta * T
  <2>1. 3 * d + 4 * e + 5 * f = c2
    BY <1>2, <1>4 DEF e, f
  <2>2. b + 2 * c + c2 = 6 * p.d_beta * T
    BY <1>1 DEF b, c, c2
  <2> QED
    BY <1>1, <1>2, <1>4, <2>1, <2>2
<1>8. 2 * c + 6 * d + 12 * e + 20 * f = 6 * p.dd_beta * T * T
  <2>1. 6 * d + 12 * e + 20 * f = 2 * c3
    BY <1>2, <1>4 DEF d, e, f
  <2>2. 2 * c + 2 * c3 = 6 * p.dd_beta * T * T
    BY <1>1 DEF c, c3
  <2> QED
    BY <1>1, <1>2, <1>4, <2>1, <2>2
<1>9. /\ start(p).p = unit(T) * p.alfa /\ start(p).v = unit(T) * p.d_alfa
      /\ start(p).a = unit(T) * p.dd_alfa
  BY <1>1, <1>5 DEF unit, SCALE, a, b, c
<1>10. /\ end(p).p = unit(T) * p.beta /\ end(p).v = unit(T) * p.d_beta
       /\ end(p).a = unit(T) * p.dd_beta
  <2>1. /\ end(p).p = 6 * p.beta * (T * T * T * T * T)
        /\ end(p).v = 6 * p.d_beta * T * (T * T * T * T)
        /\ end(p).a = 6 * p.dd_beta * T * T * (T * T * T)
    BY <1>5, <1>6, <1>7, <1>8
  <2> QED
    BY <1>1, <2>1 DEF unit, SCALE
<1> QED
  BY <1>9, <1>10 DEF MeetsConditions, T

-----------------------------------------------------------------------------
\* Whatever the duration and the values at its ends, the polynomial that
\* SplinePolynomial::update computes satisfies the conditions stated in the
\* comments of its method.
THEOREM SplinesMeetConditions == \A p \in SplineConditions : MeetsConditions(p)
<1> SUFFICES ASSUME NEW p \in SplineConditions PROVE MeetsConditions(p)
  OBVIOUS
<1>1. CASE p.do_ramp_down
  BY <1>1, RampDownConditions
<1>2. CASE ~p.do_ramp_down
  <2>1. p.spline_method \in Methods
    BY DEF SplineConditions
  <2> QED
    BY <1>2, <2>1, LinearConditions, SquareConditions, CubicConditions, QuinticConditions
       DEF Methods
<1> QED
  BY <1>1, <1>2

\* A product of a nonnegative number by a factor in 0 .. h is in range.
LEMMA ProductRange ==
  ASSUME NEW x \in Int, NEW y \in Int, NEW h \in Int, x >= 0, 0 <= y, y <= h
  PROVE  0 <= x * y /\ x * y <= x * h
<1>1. x * y >= 0
  OBVIOUS
<1>2. x * (h - y) >= 0
  OBVIOUS
<1> QED
  BY <1>1, <1>2

\* During a ramp down, at every time of it, the velocity keeps its direction
\* and does not exceed the initial one.
THEOREM RampDownsSlow ==
  \A p \in SplineConditions : \A t \in 0 .. p.duration : RampDownSlows(p, t)
<1> SUFFICES ASSUME NEW p \in SplineConditions, NEW t \in 0 .. p.duration,
                    p.do_ramp_down, p.d_alfa >= 0
             PROVE  LET v == calculateVelocity(update(p), p.duration, t)
                    IN  0 <= v /\ v <= unit(p.duration) * p.d_alfa
  BY DEF RampDownSlows
<1> DEFINE T == p.duration
           m == 2 - saturated(p.halves)
           w == p.d_alfa * T
           v == calculateVelocity(update(p), T, t)
           q == m * (t * (2 * T - t))
<1>1. /\ T \in Int /\ T > 0 /\ t \in Int /\ 0 <= t /\ t <= T
      /\ p.alfa \in Int /\ p.d_alfa \in Int /\ m \in Int /\ 0 <= m /\ m <= 2
  BY DEF SplineConditions, saturated
<1>2. update(p) = coefficients(6 * p.alfa, 6 * p.d_alfa * T, 3 * ((2 - m) - 2) * p.d_alfa * T,
                               -(((2 - m) - 2) * p.d_alfa * T), 0, 0)
  <2>1. saturated(p.halves) = 2 - m
    BY DEF saturated, SplineConditions
  <2> QED
    BY <2>1 DEF update, rampDown, SCALE
<1> HIDE DEF T, m
<1>3. w \in Int /\ w >= 0 /\ q \in Int
  BY <1>1
<1>4. v = (6 * p.d_alfa * T) * (T * T * T * T)
            + 2 * (3 * ((2 - m) - 2) * p.d_alfa * T) * (t * T * T * T)
            + 3 * (-(((2 - m) - 2) * p.d_alfa * T)) * (t * t * T * T)
  BY <1>1, <1>2 DEF calculateVelocity, coefficients
<1>5. v = (3 * w * (T * T)) * (2 * (T * T) - q)
  BY <1>1, <1>4
<1>6. 0 <= q /\ q <= 2 * (T * T)
  <2>1. 0 <= t * (2 * T - t) /\ t * (2 * T - t) <= T * T
    <3>1. T * T - t * (2 * T - t) = (T - t) * (T - t)
      BY <1>1
    <3>2. (T - t) * (T - t) >= 0 /\ t * (2 * T - t) >= 0
      BY <1>1
    <3> QED
      BY <1>1, <3>1, <3>2
  <2> QED
    BY <1>1, <2>1
<1>7. 0 <= v /\ v <= (3 * w * (T * T)) * (2 * (T * T))
  <2> DEFINE x == 3 * w * (T * T)
             y == 2 * (T * T) - q
             h == 2 * (T * T)
  <2>1. x \in Int /\ y \in Int /\ h \in Int /\ x >= 0 /\ 0 <= y /\ y <= h
    BY <1>1, <1>3, <1>6
  <2> HIDE DEF x, y, h
  <2>2. 0 <= x * y /\ x * y <= x * h
    BY <2>1, ProductRange
  <2> QED
    BY <1>5, <2>2 DEF x, y, h
<1>8. (3 * w * (T * T)) * (2 * (T * T)) = unit(T) * p.d_alfa
  BY <1>1 DEF unit, SCALE
<1> QED
  BY <1>7, <1>8 DEF T

\* An interpolation from rest to rest at the same position does not move, with
\* any method, at any time; neither does a ramp down that starts at rest.
THEOREM StillStays ==
  \A p \in SplineConditions : \A t \in 0 .. p.duration : RestIsKept(p, t)
<1> SUFFICES ASSUME NEW p \in SplineConditions, NEW t \in 0 .. p.duration, AtRest(p)
             PROVE  evaluate(update(p), p.duration, t)
                      = [p |-> unit(p.duration) * p.alfa, v |-> 0, a |-> 0]
  BY DEF RestIsKept
<1> DEFINE T == p.duration
<1>1. T \in Int /\ t \in Int /\ p.alfa \in Int /\ saturated(p.halves) \in Int
  BY DEF SplineConditions, saturated
<1>2. update(p) = coefficients(6 * p.alfa, 0, 0, 0, 0, 0)
  <2>1. CASE p.do_ramp_down
    <3>1. p.d_alfa = 0
      BY <2>1 DEF AtRest
    <3> QED
      BY <1>1, <2>1, <3>1 DEF update, rampDown, SCALE
  <2>2. CASE ~p.do_ramp_down
    <3>1. /\ p.d_alfa = 0 /\ p.dd_alfa = 0 /\ p.d_beta = 0 /\ p.dd_beta = 0 /\ p.beta = p.alfa
      BY <2>2 DEF AtRest
    <3>2. p.spline_method \in Methods
      BY DEF SplineConditions
    <3> QED
      BY <1>1, <2>2, <3>1, <3>2
         DEF update, linear, square, cubic, quintic, SCALE, Methods
  <2> QED
    BY <2>1, <2>2
<1> HIDE DEF T
<1>3. /\ calculatePosition(update(p), T, t) = unit(T) * p.alfa
      /\ calculateVelocity(update(p), T, t) = 0
      /\ calculateAcceleration(update(p), T, t) = 0
  BY <1>1, <1>2
     DEF calculatePosition, calculateVelocity, calculateAcceleration, coefficients, unit, SCALE
<1> QED
  BY <1>3 DEF evaluate, T
=============================================================================
