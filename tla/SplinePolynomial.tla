-------------------------- MODULE SplinePolynomial --------------------------
(***************************************************************************)
(* EGMInterpolator::SplinePolynomial in exact arithmetic: update computes  *)
(* the coefficients from the conditions at the ends of the interpolation,  *)
(* evaluate gives position, velocity and acceleration at a time in it.     *)
(*                                                                         *)
(* The code divides by powers of the duration T.  Here the coefficient of  *)
(* t^k is kept multiplied by SCALE * T^k, which is an integer, and the     *)
(* value of a polynomial or of its derivatives by unit(T) = SCALE * T^5.   *)
(* The ramp down factor, a number of halves, is 0 (stop) or 1/2.           *)
(***************************************************************************)
EXTENDS Integers

CONSTANT MAX_NUMBER_OF_SPLINES  \* the size of the array spline_polynomials_

Methods == {"Linear", "Square", "Cubic", "Quintic"}

SCALE == 6
unit(T) == SCALE * (T * T * T * T * T)

\* SplineConditions: alfa, d_alfa and dd_alfa at the start, beta, d_beta and
\* dd_beta at the goal.
SplineConditions ==
  [duration : Nat \ {0}, spline_method : Methods, do_ramp_down : BOOLEAN,
   halves : Int, \* twice ramp_down_factor
   alfa : Int, d_alfa : Int, dd_alfa : Int, beta : Int, d_beta : Int, dd_beta : Int]

coefficients(a, b, c, d, e, f) == [a |-> a, b |-> b, c |-> c, d |-> d, e |-> e, f |-> f]

\* S(0) = alfa, d_S(0) = d_alfa, d_S(T) = K * d_alfa, dd_S(T) = 0; k is the
\* saturated factor K in halves.
rampDown(p, k) ==
  LET T == p.duration
      c == 3 * (k - 2) * p.d_alfa * T
  IN coefficients(SCALE * p.alfa, SCALE * p.d_alfa * T, c, -((k - 2) * p.d_alfa * T), 0, 0)

linear(p) == coefficients(SCALE * p.alfa, SCALE * (p.beta - p.alfa), 0, 0, 0, 0)

square(p) ==
  LET T == p.duration
  IN coefficients(SCALE * p.alfa, SCALE * p.d_alfa * T,
                  SCALE * (p.beta - p.alfa - p.d_alfa * T), 0, 0, 0)

cubic(p) ==
  LET T  == p.duration
      c1 == SCALE * (p.beta - p.alfa - p.d_alfa * T)
      c2 == SCALE * (p.d_beta - p.d_alfa) * T
      c  == 3 * c1 - c2
  IN coefficients(SCALE * p.alfa, SCALE * p.d_alfa * T, c, c1 - c, 0, 0)

\* Mutant of quintic: the last coefficient but one counts d once.
quinticOnce(p) ==
  LET T  == p.duration
      c  == 3 * p.dd_alfa * T * T
      c1 == SCALE * (p.beta - p.alfa - p.d_alfa * T) - c
      c2 == SCALE * (p.d_beta - p.d_alfa - p.dd_alfa * T) * T
      c3 == 3 * (p.dd_beta - p.dd_alfa) * T * T
      d  == 10 * c1 - 4 * c2 + c3
      e  == 5 * c1 - c2 - d
  IN coefficients(SCALE * p.alfa, SCALE * p.d_alfa * T, c, d, e, c1 - d - e)

quintic(p) ==
  LET T  == p.duration
      c  == 3 * p.dd_alfa * T * T
      c1 == SCALE * (p.beta - p.alfa - p.d_alfa * T) - c
      c2 == SCALE * (p.d_beta - p.d_alfa - p.dd_alfa * T) * T
      c3 == 3 * (p.dd_beta - p.dd_alfa) * T * T \* the half that is used
      d  == 10 * c1 - 4 * c2 + c3
      e  == 5 * c1 - c2 - 2 * d
  IN coefficients(SCALE * p.alfa, SCALE * p.d_alfa * T, c, d, e, c1 - d - e)

saturated(k) == IF k < 0 THEN 0 ELSE IF k > 2 THEN 2 ELSE k

update(p) ==
  IF p.do_ramp_down
    THEN rampDown(p, saturated(p.halves))
    ELSE CASE p.spline_method = "Linear"  -> linear(p)
           [] p.spline_method = "Square"  -> square(p)
           [] p.spline_method = "Cubic"   -> cubic(p)
           [] p.spline_method = "Quintic" -> quintic(p)

-----------------------------------------------------------------------------
\* The polynomial s of duration T and its derivatives at time t, times unit(T).
calculatePosition(s, T, t) ==
  s.a * (T * T * T * T * T) + s.b * (t * T * T * T * T) + s.c * (t * t * T * T * T)
    + s.d * (t * t * t * T * T) + s.e * (t * t * t * t * T) + s.f * (t * t * t * t * t)

calculateVelocity(s, T, t) ==
  s.b * (T * T * T * T) + 2 * s.c * (t * T * T * T) + 3 * s.d * (t * t * T * T)
    + 4 * s.e * (t * t * t * T) + 5 * s.f * (t * t * t * t)

calculateAcceleration(s, T, t) ==
  2 * s.c * (T * T * T) + 6 * s.d * (t * T * T) + 12 * s.e * (t * t * T)
    + 20 * s.f * (t * t * t)

evaluate(s, T, t) ==
  [p |-> calculatePosition(s, T, t), v |-> calculateVelocity(s, T, t),
   a |-> calculateAcceleration(s, T, t)]

-----------------------------------------------------------------------------
\* The indices that a loop over n joints visits: it stops at the end of the
\* array, whatever it adds to the index.
visited(n) == {i \in 0 .. n - 1 : i < MAX_NUMBER_OF_SPLINES}

\* Mutant of splineSlots: the offset of a six axes robot.
splineSlotsSix(mode, robot, external) ==
  [j \in ({"robot"} \X (IF mode = "EGMJoint" THEN visited(robot) ELSE 0 .. 2))
           \cup ({"external"} \X visited(external)) |->
     IF j[1] = "robot" THEN j[2] ELSE j[2] + 6]

\* EGMInterpolator::update and evaluate: the index of the polynomial of each
\* coordinate, for the numbers of robot and external joints.  The robot's are
\* its joints, or X, Y and Z.
splineSlots(mode, robot, external) ==
  [j \in ({"robot"} \X (IF mode = "EGMJoint" THEN visited(robot) ELSE 0 .. 2))
           \cup ({"external"} \X visited(external)) |->
     IF j[1] = "robot" THEN j[2] ELSE j[2] + robot]

-----------------------------------------------------------------------------
start(p) == evaluate(update(p), p.duration, 0)
end(p) == evaluate(update(p), p.duration, p.duration)

\* The polynomial satisfies the conditions that the code states for its
\* method, at the start and at the end of the interpolation.
MeetsConditions(p) ==
  LET u == unit(p.duration)
  IN /\ start(p).p = u * p.alfa
     /\ p.do_ramp_down \/ p.spline_method # "Linear" => start(p).v = u * p.d_alfa
     /\ p.do_ramp_down =>
          /\ 2 * end(p).v = u * saturated(p.halves) * p.d_alfa
          /\ end(p).a = 0
     /\ ~p.do_ramp_down =>
          /\ end(p).p = u * p.beta
          /\ p.spline_method \in {"Cubic", "Quintic"} => end(p).v = u * p.d_beta
          /\ p.spline_method = "Quintic" =>
               start(p).a = u * p.dd_alfa /\ end(p).a = u * p.dd_beta

\* A ramp down never reverses the motion and never speeds it up.
RampDownSlows(p, t) ==
  LET v == calculateVelocity(update(p), p.duration, t)
      u == unit(p.duration)
  IN p.do_ramp_down /\ p.d_alfa >= 0 => 0 <= v /\ v <= u * p.d_alfa

\* An interpolation that starts at rest, at its goal if it has one.
AtRest(p) ==
  /\ p.d_alfa = 0
  /\ ~p.do_ramp_down => /\ p.dd_alfa = 0 /\ p.d_beta = 0 /\ p.dd_beta = 0
                        /\ p.beta = p.alfa

\* What is at rest and at its goal stays there for the whole duration.
RestIsKept(p, t) ==
  AtRest(p) => evaluate(update(p), p.duration, t)
                 = [p |-> unit(p.duration) * p.alfa, v |-> 0, a |-> 0]
=============================================================================
