---------------------------- MODULE QueueProofs ----------------------------
(***************************************************************************)
(* The queues of trajectories: what is left of each trajectory, and the    *)
(* order in which the trajectories are executed.                           *)
(***************************************************************************)
EXTENDS TrajectoryHistory, TrajectoryMotionProofs

\* What is left of one trajectory.  Unlike remainder this is inherited by the
\* rest that follows one of the points: a point that is repeated, as it may be
\* once there was a second session, is repeated at the front only.
Left(q, again) ==
  /\ \A i \in DOMAIN q : q[i].traj = q[1].traj
  /\ \A i \in 2 .. Len(q) :
       \/ q[i].left = q[i - 1].left - 1
       \/ again /\ \A k \in 1 .. i : q[k].left = q[1].left
  /\ q # <<>> => q[Len(q)].left = 0

\* The points of q belong to trajectories with numbers in N.
Known(q, N) == \A k \in DOMAIN q : q[k].traj \in N

\* The points of q belong to trajectories accepted before those of r.
Before(q, r) == \A k \in DOMAIN q, l \in DOMAIN r : q[k].traj < r[l].traj

\* A queue of trajectories r behind what is left, front, of an earlier one; all
\* their numbers are in N.
InOrder(front, r, again, N) ==
  /\ Left(front, again) /\ Known(front, N)
  /\ \A j \in DOMAIN r : Left(r[j], again) /\ Known(r[j], N) /\ Before(front, r[j])
  /\ \A i, j \in DOMAIN r : i < j => Before(r[i], r[j])

\* What is left of the current trajectory.  While a normal goal is executed
\* its point, x, has been taken out.
Front(t, x, taken) ==
  IF ~t.has THEN <<>> ELSE IF taken THEN <<x>> \o t.current ELSE t.current

\* Both queues of a container are in order, with numbers in N and T.
Kept(t, x, taken, again, N, T) ==
  /\ InOrder(Front(t, x, taken), t.primary, again, N)
  /\ InOrder(<<>>, t.temporary, again, T)

-----------------------------------------------------------------------------
(***************************************************************************)
(* What is left of one trajectory.                                         *)
(***************************************************************************)

\* Nothing is left of a trajectory that has been executed.
LEMMA NothingLeft ==
  ASSUME NEW again, NEW N, NEW r
  PROVE  Left(<<>>, again) /\ Known(<<>>, N) /\ Before(<<>>, r)
<1>1. DOMAIN <<>> = {} /\ 2 .. Len(<<>>) = {}
  OBVIOUS
<1>. QED
  BY <1>1 DEF Left, Known, Before

\* The rest of what is left, from any point on.
LEMMA LeftFrom ==
  ASSUME NEW q \in Seq(Points), NEW m \in 1 .. Len(q), NEW again, Left(q, again)
  PROVE  LET r == SubSeq(q, m, Len(q))
         IN /\ r \in Seq(Points)
            /\ r # <<>>
            /\ Left(r, again)
            /\ \A k \in DOMAIN r : \E l \in DOMAIN q : r[k].traj = q[l].traj
<1>. DEFINE n == Len(q)
            r == SubSeq(q, m, n)
            size == n - m + 1
<1>1. n \in Nat /\ DOMAIN q = 1 .. n /\ \A i \in 1 .. n : q[i] \in Points
  BY LenProperties, ElementOfSeq, Zenon
<1>2. m \in 1 .. n
  OBVIOUS
<1>3. /\ \A i \in 1 .. n : q[i].traj = q[1].traj
      /\ \A i \in 2 .. n :
           \/ q[i].left = q[i - 1].left - 1
           \/ again /\ \A k \in 1 .. i : q[k].left = q[1].left
      /\ q # <<>> => q[n].left = 0
  BY <1>1 DEF Left
<1>. HIDE DEF n
<1>4. r \in Seq(Points) /\ Len(r) = size /\ \A i \in 1 .. size : r[i] = q[m + i - 1]
  <2>1. \A i \in m .. n : q[i] \in Points
    BY <1>1, <1>2
  <2>2. m \in Int /\ n \in Int
    BY <1>1, <1>2
  <2>3. r \in Seq(Points) /\ Len(r) = (IF m <= n THEN n - m + 1 ELSE 0)
        /\ \A i \in 1 .. n - m + 1 : r[i] = q[m + i - 1]
    BY <2>1, <2>2, SubSeqProperties
  <2>. QED
    BY <1>1, <1>2, <2>3
<1>5. DOMAIN r = 1 .. size /\ r # <<>>
  <2>1. size # 0 /\ Len(<<>>) = 0
    BY <1>1, <1>2
  <2>. QED
    BY <1>4, <2>1, LenProperties, Zenon
<1>6. size \in Nat \ {0} /\ q # <<>>
  BY <1>1, <1>2, EmptySeq DEF n
<1>. HIDE DEF r
<1>7. \A k \in 1 .. size : m + k - 1 \in 1 .. n
  BY <1>1, <1>2
<1>8. \A i \in 1 .. size : r[i].traj = r[1].traj
  BY <1>1, <1>3, <1>4, <1>6, <1>7
<1>9. ASSUME NEW i \in 2 .. size
      PROVE  \/ r[i].left = r[i - 1].left - 1
             \/ again /\ \A k \in 1 .. i : r[k].left = r[1].left
  <2>. DEFINE j == m + i - 1
  <2>1. /\ j \in 2 .. n /\ r[i] = q[j]
        /\ r[i - 1] = q[j - 1]
    <3>1. i \in 1 .. size /\ i - 1 \in 1 .. size /\ m + (i - 1) - 1 = j - 1
      BY <1>1, <1>2
    <3>. QED
      BY <1>1, <1>2, <1>4, <3>1
  <2>2. CASE q[j].left = q[j - 1].left - 1
    BY <2>1, <2>2
  <2>3. CASE again /\ \A k \in 1 .. j : q[k].left = q[1].left
    <3>1. ASSUME NEW k \in 1 .. i
          PROVE  r[k].left = q[1].left
      BY <1>1, <1>2, <1>4, <2>3
    <3>2. 1 \in 1 .. i
      OBVIOUS
    <3>. QED
      BY <2>3, <3>1, <3>2
  <2>. QED
    BY <1>3, <2>1, <2>2, <2>3, Zenon
<1>10. r[size].left = 0
  BY <1>1, <1>2, <1>3, <1>4, <1>6
<1>11. Left(r, again)
  BY <1>4, <1>5, <1>8, <1>9, <1>10 DEF Left
<1>12. \A k \in DOMAIN r : \E l \in DOMAIN q : r[k].traj = q[l].traj
  BY <1>1, <1>4, <1>5, <1>7, Zenon
<1>. QED
  BY <1>4, <1>5, <1>11, <1>12 DEF n, r

\* A point in front of a sequence.
LEMMA InFront ==
  ASSUME NEW q \in Seq(Points), NEW x \in Points
  PROVE  LET r == <<x>> \o q
         IN /\ r \in Seq(Points)
            /\ r # <<>>
            /\ Len(r) = Len(q) + 1
            /\ r[1] = x
            /\ \A i \in 1 .. Len(q) : r[i + 1] = q[i]
            /\ SubSeq(r, 2, Len(r)) = q
<1>. DEFINE r == <<x>> \o q
            n == Len(q)
<1>1. n \in Nat
  BY LenProperties
<1>2. /\ r \in Seq(Points)
      /\ Len(r) = Len(<<x>>) + Len(q)
      /\ \A i \in 1 .. Len(<<x>>) + Len(q) :
           r[i] = IF i <= Len(<<x>>) THEN <<x>>[i] ELSE q[i - Len(<<x>>)]
  <2>1. <<x>> \in Seq(Points)
    OBVIOUS
  <2>. QED
    BY <2>1, ConcatProperties, Zenon
<1>3. Len(<<x>>) = 1 /\ <<x>>[1] = x
  OBVIOUS
<1>. HIDE DEF r
<1>4. Len(r) = n + 1 /\ \A i \in 1 .. n + 1 : r[i] = IF i <= 1 THEN <<x>>[i] ELSE q[i - 1]
  <2>1. Len(r) = 1 + n /\ \A i \in 1 .. 1 + n : r[i] = IF i <= 1 THEN <<x>>[i] ELSE q[i - 1]
    BY <1>2, <1>3, Zenon
  <2>. HIDE DEF n
  <2>. QED
    BY <1>1, <2>1
<1>n. q \in [1 .. n -> Points]
  BY LenProperties, Zenon
<1>l. n = Len(q)
  OBVIOUS
<1>. HIDE DEF n
<1>5. r[1] = x /\ \A i \in 1 .. n : r[i + 1] = q[i]
  BY <1>1, <1>3, <1>4
<1>6. r # <<>>
  BY <1>1, <1>2, <1>4, EmptySeq
<1>7. SubSeq(r, 2, n + 1) = q
  <2>. DEFINE s == SubSeq(r, 2, n + 1)
  <2>1. \A i \in 2 .. n + 1 : r[i] \in Points
    BY <1>1, <1>4, <1>n
  <2>2. /\ s \in Seq(Points)
        /\ Len(s) = IF 2 <= n + 1 THEN (n + 1) - 2 + 1 ELSE 0
        /\ \A i \in 1 .. (n + 1) - 2 + 1 : s[i] = r[2 + i - 1]
    <3>1. 2 \in Int /\ n + 1 \in Int
      BY <1>1
    <3>. QED
      BY <2>1, <3>1, SubSeqProperties
  <2>. HIDE DEF s
  <2>3. Len(s) = n /\ \A i \in 1 .. n : s[i] = q[i]
    BY <1>1, <1>5, <2>2
  <2>4. s = q
    BY <1>l, <2>2, <2>3, SeqEqual, Zenon
  <2>. QED
    BY <2>4 DEF s
<1>. QED
  BY <1>2, <1>4, <1>5, <1>6, <1>7, <1>l DEF r

\* A point that takes the place of one with the same identity, as the
\* interrupted point that storeNormalGoal gives a new duration.
LEMMA LeftRenewed ==
  ASSUME NEW q \in Seq(Points), NEW x \in Points, NEW y \in Points, NEW again,
         PointId(x) = PointId(y), Left(<<x>> \o q, again)
  PROVE  /\ Left(<<y>> \o q, again)
         /\ \A k \in DOMAIN (<<y>> \o q) :
              \E l \in DOMAIN (<<x>> \o q) : (<<y>> \o q)[k].traj = (<<x>> \o q)[l].traj
<1>. DEFINE n == Len(q)
            r == <<x>> \o q
            s == <<y>> \o q
<1>1. n \in Nat
  BY LenProperties
<1>2. /\ r \in Seq(Points) /\ r # <<>> /\ Len(r) = n + 1 /\ r[1] = x
      /\ \A i \in 1 .. n : r[i + 1] = q[i]
  BY InFront
<1>3. /\ s \in Seq(Points) /\ s # <<>> /\ Len(s) = n + 1 /\ s[1] = y
      /\ \A i \in 1 .. n : s[i + 1] = q[i]
  BY InFront
<1>4. DOMAIN r = 1 .. n + 1 /\ DOMAIN s = 1 .. n + 1
  BY <1>2, <1>3, LenProperties, Zenon
<1>5. x.traj = y.traj /\ x.left = y.left
  BY DEF PointId
<1>6. Left(r, again)
  BY Zenon
<1>. HIDE DEF n, r, s
<1>7. \A i \in 1 .. n + 1 : r[i].traj = s[i].traj /\ r[i].left = s[i].left
  <2>. SUFFICES ASSUME NEW i \in 1 .. n + 1
                PROVE  r[i].traj = s[i].traj /\ r[i].left = s[i].left
    OBVIOUS
  <2>1. i = 1 \/ (i - 1 \in 1 .. n /\ (i - 1) + 1 = i)
    BY <1>1
  <2>. QED
    BY <1>2, <1>3, <1>5, <2>1
<1>8. /\ \A i \in 1 .. n + 1 : r[i].traj = r[1].traj
      /\ \A i \in 2 .. n + 1 :
           \/ r[i].left = r[i - 1].left - 1
           \/ again /\ \A k \in 1 .. i : r[k].left = r[1].left
      /\ r[n + 1].left = 0
  BY <1>2, <1>4, <1>6, Zenon DEF Left
<1>9. ASSUME NEW i \in 2 .. n + 1
      PROVE  \/ s[i].left = s[i - 1].left - 1
             \/ again /\ \A k \in 1 .. i : s[k].left = s[1].left
  <2>1. i \in 1 .. n + 1 /\ i - 1 \in 1 .. n + 1 /\ 1 \in 1 .. n + 1
        /\ \A k \in 1 .. i : k \in 1 .. n + 1
    BY <1>1
  <2>2. CASE r[i].left = r[i - 1].left - 1
    BY <1>7, <2>1, <2>2
  <2>3. CASE again /\ \A k \in 1 .. i : r[k].left = r[1].left
    <3>1. \A k \in 1 .. i : s[k].left = s[1].left
      BY <1>7, <2>1, <2>3
    <3>. QED
      BY <2>3, <3>1
  <2>. QED
    BY <1>8, <2>2, <2>3
<1>10. /\ \A i \in 1 .. n + 1 : s[i].traj = s[1].traj
       /\ s[n + 1].left = 0
  BY <1>1, <1>7, <1>8
<1>11. Left(s, again)
  BY <1>3, <1>4, <1>9, <1>10 DEF Left
<1>12. \A k \in DOMAIN s : \E l \in DOMAIN r : s[k].traj = r[l].traj
  BY <1>4, <1>7
<1>. QED
  BY <1>11, <1>12, Zenon DEF r, s

\* A first point that is repeated.
LEMMA LeftRepeated ==
  ASSUME NEW q \in Seq(Points), q # <<>>, NEW y \in Points, PointId(y) = PointId(Head(q)),
         Left(q, TRUE)
  PROVE  /\ Left(<<y>> \o q, TRUE)
         /\ \A k \in DOMAIN (<<y>> \o q) : \E l \in DOMAIN q : (<<y>> \o q)[k].traj = q[l].traj
<1>. DEFINE n == Len(q)
            s == <<y>> \o q
<1>1. n \in Nat \ {0} /\ DOMAIN q = 1 .. n
  BY LenProperties, EmptySeq
<1>2. y.traj = q[1].traj /\ y.left = q[1].left
  BY DEF PointId
<1>3. /\ s \in Seq(Points) /\ s # <<>> /\ Len(s) = n + 1 /\ s[1] = y
      /\ \A i \in 1 .. n : s[i + 1] = q[i]
  BY InFront
<1>4. DOMAIN s = 1 .. n + 1
  BY <1>3, LenProperties, Zenon
<1>5. /\ \A i \in 1 .. n : q[i].traj = q[1].traj
      /\ \A i \in 2 .. n :
           \/ q[i].left = q[i - 1].left - 1
           \/ \A k \in 1 .. i : q[k].left = q[1].left
      /\ q[n].left = 0
  BY <1>1 DEF Left
<1>. HIDE DEF n, s
<1>6. ASSUME NEW i \in 1 .. n + 1
      PROVE  i = 1 \/ (i - 1 \in 1 .. n /\ s[i] = q[i - 1])
  <2>1. i = 1 \/ (i - 1 \in 1 .. n /\ (i - 1) + 1 = i)
    BY <1>1
  <2>. QED
    BY <1>3, <2>1
<1>7. \A i \in 1 .. n + 1 : s[i].traj = q[1].traj
  BY <1>1, <1>2, <1>3, <1>5, <1>6
<1>8. ASSUME NEW i \in 2 .. n + 1
      PROVE  \/ s[i].left = s[i - 1].left - 1
             \/ \A k \in 1 .. i : s[k].left = s[1].left
  <2>1. CASE i = 2
    <3>1. s[2] = q[1]
      BY <1>1, <1>6
    <3>2. \A k \in 1 .. 2 : k = 1 \/ k = 2
      OBVIOUS
    <3>. QED
      BY <1>2, <1>3, <2>1, <3>1, <3>2
  <2>2. CASE i # 2
    <3>1. i - 1 \in 2 .. n /\ s[i] = q[i - 1] /\ s[i - 1] = q[(i - 1) - 1]
      BY <1>1, <1>6, <2>2
    <3>2. CASE q[i - 1].left = q[(i - 1) - 1].left - 1
      BY <3>1, <3>2
    <3>3. CASE \A k \in 1 .. i - 1 : q[k].left = q[1].left
      <4>1. ASSUME NEW k \in 1 .. i
            PROVE  s[k].left = s[1].left
        <5>1. k \in 1 .. n + 1 /\ (k = 1 \/ k - 1 \in 1 .. i - 1)
          BY <1>1
        <5>. QED
          BY <1>2, <1>3, <1>6, <3>3, <5>1
      <4>. QED
        BY <4>1
    <3>. QED
      BY <1>5, <3>1, <3>2, <3>3
  <2>. QED
    BY <2>1, <2>2
<1>9. s[n + 1].left = 0
  BY <1>1, <1>3, <1>5
<1>10. \A i \in DOMAIN s : s[i].traj = s[1].traj
  BY <1>1, <1>4, <1>7
<1>11. Left(s, TRUE)
  BY <1>3, <1>8, <1>9, <1>10 DEF Left
<1>12. \A k \in DOMAIN s : \E l \in DOMAIN q : s[k].traj = q[l].traj
  BY <1>1, <1>4, <1>7
<1>. QED
  BY <1>11, <1>12, Zenon DEF s

-----------------------------------------------------------------------------
(***************************************************************************)
(* The order of a queue.                                                   *)
(***************************************************************************)

\* Another front with points of the same trajectories.
LEMMA OrderFront ==
  ASSUME NEW f, NEW g, NEW r, NEW again, NEW N, InOrder(f, r, again, N), Left(g, again),
         \A k \in DOMAIN g : \E l \in DOMAIN f : g[k].traj = f[l].traj
  PROVE  InOrder(g, r, again, N)
<1>1. Known(g, N)
  BY DEF Known, InOrder
<1>2. \A j \in DOMAIN r : Before(g, r[j])
  BY DEF Before, InOrder
<1>. QED
  BY <1>1, <1>2 DEF InOrder

\* No front at all.
LEMMA OrderWithoutFront ==
  ASSUME NEW f, NEW r, NEW again, NEW N, InOrder(f, r, again, N)
  PROVE  InOrder(<<>>, r, again, N)
BY NothingLeft DEF InOrder

\* An empty queue.
LEMMA OrderEmpty ==
  ASSUME NEW again, NEW N
  PROVE  InOrder(<<>>, <<>>, again, N)
<1>1. DOMAIN <<>> = {}
  OBVIOUS
<1>. QED
  BY <1>1, NothingLeft DEF InOrder

\* The first trajectory of the queue becomes the current one.
LEMMA OrderPopped ==
  ASSUME NEW f, NEW r \in Seq(Seq(Points)), r # <<>>, NEW again, NEW N, InOrder(f, r, again, N)
  PROVE  InOrder(Head(r), Tail(r), again, N)
<1>. DEFINE m == Len(r)
            s == Tail(r)
<1>1. m \in Nat \ {0} /\ DOMAIN r = 1 .. m
  BY LenProperties, EmptySeq
<1>2. s \in Seq(Seq(Points)) /\ Len(s) = m - 1 /\ \A i \in 1 .. m - 1 : s[i] = r[i + 1]
  <2>1. /\ s \in Seq(Seq(Points))
        /\ Len(s) = Len(r) - 1
        /\ \A i \in 1 .. Len(s) : s[i] = r[i + 1]
    BY HeadTailProperties, Zenon
  <2>. HIDE DEF s
  <2>. QED
    BY <2>1
<1>3. DOMAIN s = 1 .. m - 1
  BY <1>2, LenProperties, Zenon
<1>4. Head(r) = r[1]
  OBVIOUS
<1>. HIDE DEF m, s
<1>5. \A i \in 1 .. m - 1 : i + 1 \in 1 .. m /\ 1 < i + 1
  BY <1>1
<1>6. Left(r[1], again) /\ Known(r[1], N)
  BY <1>1 DEF InOrder
<1>7. ASSUME NEW j \in 1 .. m - 1
      PROVE  Left(s[j], again) /\ Known(s[j], N) /\ Before(r[1], s[j])
  <2>1. s[j] = r[j + 1] /\ j + 1 \in DOMAIN r /\ 1 \in DOMAIN r /\ 1 < j + 1
    BY <1>1, <1>2, <1>5
  <2>. QED
    BY <2>1, Zenon DEF InOrder
<1>8. ASSUME NEW i \in 1 .. m - 1, NEW j \in 1 .. m - 1, i < j
      PROVE  Before(s[i], s[j])
  <2>1. s[i] = r[i + 1] /\ s[j] = r[j + 1] /\ i + 1 \in DOMAIN r /\ j + 1 \in DOMAIN r /\ i + 1 < j + 1
    BY <1>1, <1>2, <1>5, <1>8
  <2>. QED
    BY <2>1, Zenon DEF InOrder
<1>9. InOrder(r[1], s, again, N)
  BY <1>3, <1>6, <1>7, <1>8, Zenon DEF InOrder
<1>. QED
  BY <1>4, <1>9 DEF s

\* What is left of the current trajectory returns to the front of the queue.
LEMMA OrderPushed ==
  ASSUME NEW f \in Seq(Points), NEW r \in Seq(Seq(Points)), NEW again, NEW N, InOrder(f, r, again, N)
  PROVE  InOrder(<<>>, <<f>> \o r, again, N)
<1>. DEFINE m == Len(r)
            s == <<f>> \o r
<1>1. m \in Nat /\ DOMAIN r = 1 .. m
  BY LenProperties
<1>2. /\ s \in Seq(Seq(Points))
      /\ Len(s) = Len(<<f>>) + Len(r)
      /\ \A i \in 1 .. Len(<<f>>) + Len(r) :
           s[i] = IF i <= Len(<<f>>) THEN <<f>>[i] ELSE r[i - Len(<<f>>)]
  <2>1. <<f>> \in Seq(Seq(Points))
    OBVIOUS
  <2>. QED
    BY <2>1, ConcatProperties, Zenon
<1>3. Len(<<f>>) = 1 /\ <<f>>[1] = f
  OBVIOUS
<1>. HIDE DEF s
<1>4. Len(s) = 1 + m /\ \A i \in 1 .. 1 + m : s[i] = IF i <= 1 THEN <<f>>[i] ELSE r[i - 1]
  BY <1>2, <1>3, Zenon
<1>5. DOMAIN s = 1 .. 1 + m
  BY <1>2, <1>4, LenProperties, Zenon
<1>. HIDE DEF m
<1>6. ASSUME NEW i \in 1 .. 1 + m
      PROVE  (i = 1 /\ s[i] = f) \/ (i - 1 \in 1 .. m /\ s[i] = r[i - 1])
  BY <1>1, <1>3, <1>4
<1>7. ASSUME NEW j \in DOMAIN s
      PROVE  Left(s[j], again) /\ Known(s[j], N)
  BY <1>1, <1>5, <1>6, Zenon DEF InOrder
<1>8. ASSUME NEW i \in DOMAIN s, NEW j \in DOMAIN s, i < j
      PROVE  Before(s[i], s[j])
  <2>1. j - 1 \in DOMAIN r /\ s[j] = r[j - 1]
    BY <1>1, <1>5, <1>6, <1>8
  <2>2. CASE i = 1 /\ s[i] = f
    BY <2>1, <2>2 DEF InOrder
  <2>3. CASE i - 1 \in 1 .. m /\ s[i] = r[i - 1]
    <3>1. i - 1 \in DOMAIN r /\ i - 1 < j - 1
      BY <1>1, <1>5, <1>8, <2>3
    <3>. QED
      BY <2>1, <2>3, <3>1, Zenon DEF InOrder
  <2>. QED
    BY <1>5, <1>6, <2>2, <2>3
<1>. QED
  BY <1>7, <1>8, NothingLeft, Zenon DEF InOrder, s

\* A trajectory that was just accepted, at the end of the queue.
LEMMA OrderAppended ==
  ASSUME NEW f, NEW r \in Seq(Seq(Points)), NEW q \in Seq(Points), NEW again, NEW n \in Nat,
         NEW N, \A k \in N : k \in 0 .. n - 1, InOrder(f, r, again, N), Left(q, again),
         \A k \in DOMAIN q : q[k].traj = n
  PROVE  /\ InOrder(f, Append(r, q), again, N \cup {n})
         /\ InOrder(<<>>, <<q>>, again, {n})
<1>. DEFINE m == Len(r)
            s == Append(r, q)
<1>1. m \in Nat /\ DOMAIN r = 1 .. m /\ \A i \in 1 .. m : r[i] \in Seq(Points)
  BY LenProperties, ElementOfSeq
<1>2. /\ s \in Seq(Seq(Points)) /\ Len(s) = m + 1
      /\ \A i \in 1 .. m : s[i] = r[i]
      /\ s[m + 1] = q
  BY AppendProperties
<1>3. DOMAIN s = 1 .. m + 1
  BY <1>2, LenProperties, Zenon
<1>. HIDE DEF m, s
<1>4. ASSUME NEW p, Known(p, N)
      PROVE  Known(p, N \cup {n}) /\ Before(p, q)
  <2>1. \A k \in DOMAIN p : p[k].traj < n
    BY <1>4 DEF Known
  <2>. QED
    BY <1>4, <2>1 DEF Known, Before
<1>5. Known(q, N \cup {n}) /\ Known(q, {n})
  BY DEF Known
<1>6. Known(f, N \cup {n}) /\ Before(f, q)
  BY <1>4 DEF InOrder
<1>7. \A j \in DOMAIN r : Known(r[j], N \cup {n}) /\ Before(r[j], q)
  BY <1>4 DEF InOrder
<1>8. InOrder(f, r, again, N \cup {n})
  BY <1>6, <1>7, Zenon DEF InOrder
<1>9. \A i \in 1 .. m + 1 : (i \in DOMAIN r /\ s[i] = r[i] /\ i < m + 1) \/ (i = m + 1 /\ s[i] = q)
  BY <1>1, <1>2
<1>10. ASSUME NEW j \in DOMAIN s
       PROVE  Left(s[j], again) /\ Known(s[j], N \cup {n}) /\ Before(f, s[j])
  BY <1>3, <1>5, <1>6, <1>8, <1>9 DEF InOrder
<1>11. ASSUME NEW i \in DOMAIN s, NEW j \in DOMAIN s, i < j
       PROVE  Before(s[i], s[j])
  <2>1. i \in DOMAIN r /\ s[i] = r[i]
    BY <1>1, <1>3, <1>9, <1>11
  <2>. QED
    BY <1>3, <1>7, <1>9, <1>11, <2>1 DEF InOrder
<1>12. InOrder(f, s, again, N \cup {n})
  BY <1>6, <1>8, <1>10, <1>11 DEF InOrder
<1>13. InOrder(<<>>, <<q>>, again, {n})
  <2>1. DOMAIN <<q>> = {1} /\ <<q>>[1] = q
    OBVIOUS
  <2>2. \A i, j \in {1} : ~(i < j)
    OBVIOUS
  <2>. QED
    BY <1>5, <2>1, <2>2, NothingLeft, Zenon DEF InOrder
<1>. QED
  BY <1>12, <1>13 DEF s

\* A larger set of numbers.
LEMMA OrderWidened ==
  ASSUME NEW f, NEW r, NEW again, NEW N, NEW M, N \subseteq M, InOrder(f, r, again, N)
  PROVE  InOrder(f, r, again, M)
<1>1. ASSUME NEW q, Known(q, N)
      PROVE  Known(q, M)
  BY <1>1 DEF Known
<1>. QED
  BY <1>1 DEF InOrder

\* Once there was a second session there always was one.
LEMMA OrderRelaxed ==
  ASSUME NEW f, NEW r, NEW a \in BOOLEAN, NEW b \in BOOLEAN, a => b, NEW N, InOrder(f, r, a, N)
  PROVE  InOrder(f, r, b, N)
<1>1. ASSUME NEW q, Left(q, a)
      PROVE  Left(q, b)
  BY <1>1 DEF Left
<1>. QED
  BY <1>1 DEF InOrder

-----------------------------------------------------------------------------
(***************************************************************************)
(* The operations on the trajectories.                                     *)
(***************************************************************************)

\* The parts of a container.
LEMMA ContainerParts ==
  ASSUME NEW t \in TrajectoryContainers
  PROVE  /\ t.has \in BOOLEAN
         /\ t.current \in Seq(Points)
         /\ t.primary \in Seq(Seq(Points))
         /\ t.temporary \in Seq(Seq(Points))
BY DEF TrajectoryContainers

\* The front of a container.
LEMMA FrontType ==
  ASSUME NEW t \in TrajectoryContainers, NEW x \in Points, NEW taken \in BOOLEAN
  PROVE  Front(t, x, taken) \in Seq(Points)
BY ContainerParts, InFront, EmptyTypes DEF Front

\* Without the point that was taken out, the order is the same.
LEMMA KeptWithoutPoint ==
  ASSUME NEW t \in TrajectoryContainers, NEW x \in Points, NEW y, NEW again, NEW N, NEW T,
         Kept(t, x, TRUE, again, N, T)
  PROVE  Kept(t, y, FALSE, again, N, T)
<1>. DEFINE q == t.current
            r == <<x>> \o q
            size == Len(q)
<1>1. CASE t.has
  <2>1. q \in Seq(Points) /\ InOrder(r, t.primary, again, N)
    BY <1>1, ContainerParts, Zenon DEF Kept, Front
  <2>2. /\ r \in Seq(Points)
        /\ Len(r) = size + 1
        /\ SubSeq(r, 2, Len(r)) = q
    BY <2>1, InFront
  <2>3. size \in Nat
    BY <2>1, LenProperties
  <2>4. InOrder(q, t.primary, again, N)
    <3>1. CASE q = <<>>
      BY <2>1, <3>1, OrderWithoutFront, Zenon
    <3>2. CASE q # <<>>
      <4>1. size \in Nat \ {0}
        BY <2>1, <3>2, EmptySeq
      <4>. HIDE DEF r, size
      <4>2. 2 \in 1 .. Len(r)
        BY <2>2, <4>1
      <4>3. Left(r, again)
        BY <2>1 DEF InOrder
      <4>4. /\ Left(SubSeq(r, 2, Len(r)), again)
            /\ \A k \in DOMAIN SubSeq(r, 2, Len(r)) :
                 \E l \in DOMAIN r : SubSeq(r, 2, Len(r))[k].traj = r[l].traj
        BY <2>2, <4>2, <4>3, LeftFrom, Zenon
      <4>. QED
        BY <2>1, <2>2, <4>4, OrderFront, Zenon
    <3>. QED
      BY <3>1, <3>2
  <2>. QED
    BY <1>1, <2>4, Zenon DEF Kept, Front
<1>2. CASE ~t.has
  BY <1>2, Zenon DEF Kept, Front
<1>. QED
  BY <1>1, <1>2, Zenon

\* While there is no current trajectory, the order does not depend on the goal.
LEMMA KeptWithoutCurrent ==
  ASSUME NEW t, ~t.has, NEW x, NEW y, NEW a, NEW b, NEW again, NEW N, NEW T, Kept(t, x, a, again, N, T)
  PROVE  Kept(t, y, b, again, N, T)
BY Zenon DEF Kept, Front

\* updateNormalGoal leaves the queues alone.
LEMMA UpdateQueues ==
  ASSUME NEW t \in TrajectoryContainers, NEW s, NEW met, NEW est
  PROVE  /\ updateNormalGoal(t, s, met, est).trj.primary = t.primary
         /\ updateNormalGoal(t, s, met, est).trj.temporary = t.temporary
BY Zenon DEF updateNormalGoal, TrajectoryContainers

\* Once there was a second session there always was one.
LEMMA KeptRelaxed ==
  ASSUME NEW t, NEW x, NEW taken, NEW a \in BOOLEAN, NEW b \in BOOLEAN, a => b, NEW N, NEW T,
         Kept(t, x, taken, a, N, T)
  PROVE  Kept(t, x, taken, b, N, T)
BY OrderRelaxed, Zenon DEF Kept

\* Larger sets of numbers.
LEMMA KeptWidened ==
  ASSUME NEW t, NEW x, NEW taken, NEW again, NEW N, NEW T, NEW M, NEW U, N \subseteq M, T \subseteq U,
         Kept(t, x, taken, again, N, T)
  PROVE  Kept(t, x, taken, again, M, U)
BY OrderWidened, Zenon DEF Kept

\* What the loop of updateNormalGoal takes: a point, and all the points behind
\* it stay.
LEMMA UpdateEffect ==
  ASSUME NEW t \in TrajectoryContainers, NEW s \in MotionSteps, NEW met, NEW est \in Nat
  PROVE  LET g == updateNormalGoal(t, s, met, est)
         IN g.success => /\ t.has
                         /\ \E m \in 1 .. Len(t.current) :
                              <<g.step.external>> \o g.trj.current
                                = SubSeq(t.current, m, Len(t.current))
<1>. DEFINE g == updateNormalGoal(t, s, met, est)
            q == t.current
            open == {i \in DOMAIN q : PointId(q[i]) \notin met}
            success == t.has /\ q # <<>> /\ (Head(q).reach => open # {})
            n == IF ~Head(q).reach THEN 1 ELSE IF open = {} THEN Len(q) ELSE Min(open)
<1>0. q \in Seq(Points)
  BY DEF TrajectoryContainers
<1>1. CASE t.has /\ q # <<>>
  <2>1. /\ g.trj = [t EXCEPT !.has = success, !.current = SubSeq(q, n + 1, Len(q))]
        /\ g.step = prepareNormalGoal([s EXCEPT !.external = q[n]], Len(q) = 1, est)
    BY <1>1 DEF updateNormalGoal
  <2>2. n \in 1 .. Len(q)
    <3>1. Len(q) \in Nat \ {0} /\ DOMAIN q = 1 .. Len(q)
      BY <1>0, <1>1
    <3>2. open # {} => Min(open) \in 1 .. Len(q)
      BY <3>1, MinOfOpen, Zenon
    <3>. HIDE DEF open, q
    <3>. QED
      BY <3>1, <3>2
  <2>. HIDE DEF n, success
  <2>3. g.trj.current = SubSeq(q, n + 1, Len(q))
    BY <2>1, Zenon DEF TrajectoryContainers
  <2>4. g.step.external = q[n]
    <3>. DEFINE x == [s EXCEPT !.external = q[n]]
                final == Len(q) = 1
    <3>1. x.external = q[n]
      BY DEF MotionSteps
    <3>2. g.step = prepareNormalGoal(x, final, est)
      BY <2>1
    <3>. HIDE DEF x, final, g
    <3>. QED
      BY <3>1, <3>2 DEF prepareNormalGoal
  <2>5. Len(q) \in n .. Len(q)
    <3>1. Len(q) \in Nat
      BY <1>0, LenProperties
    <3>. DEFINE z == Len(q)
    <3>2. z \in Nat /\ n \in 1 .. z
      BY <2>2, <3>1
    <3>. HIDE DEF z
    <3>3. z \in n .. z
      BY <3>2
    <3>. QED
      BY <3>3 DEF z
  <2>6. SubSeq(q, n, Len(q)) = <<q[n]>> \o SubSeq(q, n + 1, Len(q))
    BY <1>0, <2>2, <2>5, SubSeqRecursiveFirst, Zenon
  <2>. HIDE DEF g, q
  <2>7. \E m \in 1 .. Len(q) :
           <<g.step.external>> \o g.trj.current = SubSeq(q, m, Len(q))
    BY <2>2, <2>3, <2>4, <2>6, Zenon
  <2>. QED
    BY <1>1, <2>7, Zenon DEF g, q
<1>2. CASE ~(t.has /\ q # <<>>)
  BY <1>2, Zenon DEF updateNormalGoal
<1>. QED
  BY <1>1, <1>2

\* A goal that was retrieved, or none if the trajectory is exhausted.
LEMMA KeptUpdated ==
  ASSUME NEW t \in TrajectoryContainers, NEW s \in MotionSteps, NEW met, NEW est \in Nat,
         NEW x, NEW again, NEW N, NEW T, Kept(t, x, FALSE, again, N, T)
  PROVE  LET g == updateNormalGoal(t, s, met, est)
         IN Kept(g.trj, g.step.external, TRUE, again, N, T)
<1>. DEFINE g == updateNormalGoal(t, s, met, est)
            q == t.current
            f == <<g.step.external>> \o g.trj.current
<1>1. /\ g.trj.has = g.success
      /\ g.success \in BOOLEAN
      /\ g.trj.primary = t.primary
      /\ g.trj.temporary = t.temporary
  <2>1. g.trj.has = g.success /\ g.success \in BOOLEAN
    BY UpdateNormalGoalType, Zenon
  <2>2. g.trj.primary = t.primary /\ g.trj.temporary = t.temporary
    BY UpdateQueues
  <2>. QED
    BY <2>1, <2>2, Zenon
<1>2. CASE g.success
  <2>1. t.has /\ \E m \in 1 .. Len(q) : f = SubSeq(q, m, Len(q))
    BY <1>2, UpdateEffect, Zenon
  <2>2. PICK m \in 1 .. Len(q) : f = SubSeq(q, m, Len(q))
    BY <2>1, Zenon
  <2>3. q \in Seq(Points) /\ InOrder(q, t.primary, again, N)
    BY <2>1, ContainerParts, Zenon DEF Kept, Front
  <2>. HIDE DEF q, f
  <2>4. Left(q, again)
    BY <2>3 DEF InOrder
  <2>5. Left(f, again) /\ \A k \in DOMAIN f : \E l \in DOMAIN q : f[k].traj = q[l].traj
    BY <2>2, <2>3, <2>4, LeftFrom, Zenon
  <2>6. InOrder(f, t.primary, again, N)
    BY <2>3, <2>5, OrderFront, Zenon
  <2>. HIDE DEF g
  <2>7. Front(g.trj, g.step.external, TRUE) = f
    BY <1>1, <1>2, Zenon DEF Front, f
  <2>8. Kept(g.trj, g.step.external, TRUE, again, N, T)
    BY <1>1, <2>6, <2>7, Zenon DEF Kept
  <2>. QED
    BY <2>8, Zenon DEF g
<1>3. CASE ~g.success
  <2>1. InOrder(<<>>, t.primary, again, N) /\ InOrder(<<>>, t.temporary, again, T)
    BY OrderWithoutFront, Zenon DEF Kept
  <2>. HIDE DEF g
  <2>2. Kept(g.trj, g.step.external, TRUE, again, N, T)
    BY <1>1, <1>3, <2>1, Zenon DEF Kept, Front
  <2>. QED
    BY <2>2, Zenon DEF g
<1>. QED
  BY <1>2, <1>3, Zenon

\* The next trajectory becomes current.
LEMMA KeptPopped ==
  ASSUME NEW t \in TrajectoryContainers, ~t.has, t.primary # <<>>, NEW x, NEW again, NEW N, NEW T,
         Kept(t, x, TRUE, again, N, T)
  PROVE  Kept([t EXCEPT !.has = TRUE, !.current = Head(t.primary), !.primary = Tail(@)],
              x, FALSE, again, N, T)
<1>. DEFINE u == [t EXCEPT !.has = TRUE, !.current = Head(t.primary), !.primary = Tail(@)]
<1>1. /\ u.has = TRUE
      /\ u.current = Head(t.primary)
      /\ u.primary = Tail(t.primary)
      /\ u.temporary = t.temporary
  BY Zenon DEF TrajectoryContainers
<1>. HIDE DEF u
<1>2. InOrder(<<>>, t.primary, again, N)
  BY Zenon DEF Kept, Front
<1>3. InOrder(Head(t.primary), Tail(t.primary), again, N)
  BY <1>2, ContainerParts, OrderPopped, Zenon
<1>4. Kept(u, x, FALSE, again, N, T)
  BY <1>1, <1>3, Zenon DEF Kept, Front
<1>. QED
  BY <1>4, Zenon DEF u

\* What is left of the current trajectory returns to the queue.
LEMMA KeptPushed ==
  ASSUME NEW t \in TrajectoryContainers, t.has, NEW x, NEW y, NEW taken, NEW again, NEW N, NEW T,
         Kept(t, x, FALSE, again, N, T)
  PROVE  Kept([t EXCEPT !.has = FALSE, !.current = <<>>, !.primary = <<t.current>> \o @],
              y, taken, again, N, T)
<1>. DEFINE u == [t EXCEPT !.has = FALSE, !.current = <<>>, !.primary = <<t.current>> \o @]
<1>1. /\ u.has = FALSE
      /\ u.primary = <<t.current>> \o t.primary
      /\ u.temporary = t.temporary
  BY Zenon DEF TrajectoryContainers
<1>. HIDE DEF u
<1>2. InOrder(t.current, t.primary, again, N)
  BY Zenon DEF Kept, Front
<1>3. InOrder(<<>>, <<t.current>> \o t.primary, again, N)
  BY <1>2, ContainerParts, OrderPushed, Zenon
<1>4. Kept(u, y, taken, again, N, T)
  BY <1>1, <1>3, Zenon DEF Kept, Front
<1>. QED
  BY <1>4, Zenon DEF u

\* storeNormalGoal stores the goal's own point, with what is left of its time.
LEMMA StorePoint ==
  ASSUME NEW t \in TrajectoryContainers, NEW s \in MotionSteps
  PROVE  \E y \in Points :
           /\ PointId(y) = PointId(s.external)
           /\ storeNormalGoal(t, s).trj
                = IF t.has THEN [t EXCEPT !.current = <<y>> \o t.current] ELSE t
           /\ t.has => storeNormalGoal(t, s).step.external = y
<1>. DEFINE d == Max({LOWEST_SAMPLE_TIME, s.internal.dur - s.time_passed})
            y == [s.external EXCEPT !.dur = d]
<1>1. s.internal.dur - s.time_passed \in Int
  BY DEF MotionSteps, Goals
<1>2. d \in Nat /\ d >= LOWEST_SAMPLE_TIME
  <2>1. LOWEST_SAMPLE_TIME \in Int
    BY DurationTypes
  <2>2. d \in {LOWEST_SAMPLE_TIME, s.internal.dur - s.time_passed} /\ d >= LOWEST_SAMPLE_TIME
    BY <1>1, <2>1, MaxOfTwo, Zenon
  <2>. HIDE DEF d
  <2>. QED
    BY <1>1, <2>2, DurationTypes
<1>3. storeNormalGoal(t, s) =
        IF t.has THEN [trj |-> [t EXCEPT !.current = <<y>> \o @],
                       step |-> [s EXCEPT !.external = y]]
                 ELSE [trj |-> t, step |-> s]
  BY DEF storeNormalGoal
<1>. HIDE DEF d
<1>4. y \in Points /\ PointId(y) = PointId(s.external)
  <2>1. d \in Nat \ {0}
    BY <1>2, ConstantsAssumption
  <2>. QED
    BY <2>1, DurationsOfPoints DEF MotionSteps, Points, PointId
<1>. HIDE DEF y
<1>5. storeNormalGoal(t, s).trj = IF t.has THEN [t EXCEPT !.current = <<y>> \o t.current] ELSE t
  BY <1>3
<1>6. t.has => storeNormalGoal(t, s).step.external = y
  BY <1>3 DEF MotionSteps
<1>. QED
  BY <1>4, <1>5, <1>6

\* The interrupted goal returns to the front of its trajectory: of what is left
\* there while the goal is executed, of a rest that begins with it during a
\* ramp down, where the point is repeated.
LEMMA KeptStored ==
  ASSUME NEW t \in TrajectoryContainers, NEW s \in MotionSteps, NEW x, NEW again, NEW N, NEW T,
         \/ Kept(t, s.external, TRUE, again, N, T)
         \/ /\ Kept(t, s.external, FALSE, again, N, T)
            /\ again = TRUE
            /\ t.has => t.current # <<>> /\ Head(t.current) = s.external
  PROVE  Kept(storeNormalGoal(t, s).trj, x, FALSE, again, N, T)
<1>. DEFINE u == storeNormalGoal(t, s).trj
            q == t.current
<1>1. CASE t.has
  <2>1. PICK y \in Points : /\ PointId(y) = PointId(s.external)
                            /\ u = [t EXCEPT !.current = <<y>> \o t.current]
    BY <1>1, StorePoint, Zenon
  <2>2. /\ u.has /\ u.current = <<y>> \o q
        /\ u.primary = t.primary /\ u.temporary = t.temporary
    BY <1>1, <2>1 DEF TrajectoryContainers
  <2>. DEFINE f == <<y>> \o q
  <2>3. q \in Seq(Points) /\ s.external \in Points
    BY ContainerParts DEF MotionSteps
  <2>4. CASE Kept(t, s.external, TRUE, again, N, T)
    <3>. DEFINE g == <<s.external>> \o q
    <3>1. InOrder(g, t.primary, again, N) /\ InOrder(<<>>, t.temporary, again, T)
      BY <1>1, <2>4, Zenon DEF Kept, Front
    <3>2. Left(g, again)
      BY <3>1, Zenon DEF InOrder
    <3>3. Left(f, again) /\ \A k \in DOMAIN f : \E l \in DOMAIN g : f[k].traj = g[l].traj
      <4>1. PointId(s.external) = PointId(y)
        BY <2>1
      <4>. QED
        BY <2>3, <3>2, <4>1, LeftRenewed, Zenon
    <3>. HIDE DEF f, g
    <3>4. InOrder(f, t.primary, again, N)
      BY <3>1, <3>3, OrderFront, Zenon
    <3>. HIDE DEF u
    <3>5. Kept(u, x, FALSE, again, N, T)
      BY <2>2, <3>1, <3>4, Zenon DEF Kept, Front, f
    <3>. QED
      BY <3>5, Zenon DEF u
  <2>5. CASE /\ Kept(t, s.external, FALSE, again, N, T)
             /\ again = TRUE
             /\ q # <<>> /\ Head(q) = s.external
    <3>1. InOrder(q, t.primary, again, N) /\ InOrder(<<>>, t.temporary, again, T)
      BY <1>1, <2>5, Zenon DEF Kept, Front
    <3>2. Left(q, TRUE)
      BY <2>5, <3>1, Zenon DEF InOrder
    <3>3. Left(f, TRUE) /\ \A k \in DOMAIN f : \E l \in DOMAIN q : f[k].traj = q[l].traj
      <4>1. PointId(y) = PointId(Head(q))
        BY <2>1, <2>5
      <4>. HIDE DEF q
      <4>. QED
        BY <2>3, <2>5, <3>2, <4>1, LeftRepeated, Zenon
    <3>. HIDE DEF f
    <3>4. InOrder(f, t.primary, again, N)
      BY <2>5, <3>1, <3>3, OrderFront, Zenon
    <3>. HIDE DEF u
    <3>5. Kept(u, x, FALSE, again, N, T)
      BY <2>2, <3>1, <3>4, Zenon DEF Kept, Front, f
    <3>. QED
      BY <3>5, Zenon DEF u
  <2>. QED
    BY <1>1, <2>4, <2>5, Zenon
<1>2. CASE ~t.has
  <2>1. u = t
    BY <1>2, StorePoint, Zenon
  <2>. HIDE DEF u
  <2>2. Kept(u, x, FALSE, again, N, T)
    BY <1>2, <2>1, KeptWithoutCurrent, Zenon
  <2>. QED
    BY <2>2, Zenon DEF u
<1>. QED
  BY <1>1, <1>2, Zenon

\* A reset stores the interrupted goal and returns its trajectory to the queue.
LEMMA KeptReset ==
  ASSUME NEW t \in TrajectoryContainers, NEW s \in MotionSteps, NEW x, NEW taken, NEW again, NEW N, NEW T,
         \/ Kept(t, s.external, TRUE, again, N, T)
         \/ /\ Kept(t, s.external, FALSE, again, N, T)
            /\ again = TRUE
            /\ t.has => t.current # <<>> /\ Head(t.current) = s.external
  PROVE  /\ ~resetTrajectories(t, s).has
         /\ Kept(resetTrajectories(t, s), x, taken, again, N, T)
<1>. DEFINE u == storeNormalGoal(t, s).trj
            v == [u EXCEPT !.has = FALSE, !.current = <<>>, !.primary = <<u.current>> \o @]
<1>0. t.has \in BOOLEAN
  BY ContainerParts
<1>1. Kept(u, x, FALSE, again, N, T)
  BY KeptStored, Zenon
<1>2. CASE t.has
  <2>1. u \in TrajectoryContainers /\ u.has
    BY <1>2, StoreType, StoreEffect
  <2>2. PICK y : u = [t EXCEPT !.current = y]
    <3>1. PICK z \in Points : /\ PointId(z) = PointId(s.external)
                              /\ u = [t EXCEPT !.current = <<z>> \o t.current]
      BY <1>2, StorePoint, Zenon
    <3>. QED
      BY <3>1, Zenon
  <2>3. resetTrajectories(t, s)
          = [t EXCEPT !.has = FALSE, !.current = <<>>, !.primary = <<u.current>> \o @]
    BY <1>2, Zenon DEF resetTrajectories
  <2>. HIDE DEF u
  <2>4. resetTrajectories(t, s) = v /\ v.has = FALSE
    BY <2>1, <2>2, <2>3, Zenon DEF TrajectoryContainers
  <2>5. Kept(v, x, taken, again, N, T)
    BY <1>1, <2>1, KeptPushed, Zenon
  <2>. HIDE DEF v
  <2>. QED
    BY <2>4, <2>5, Zenon
<1>3. CASE ~t.has
  <2>1. resetTrajectories(t, s) = t
    BY <1>3, Zenon DEF resetTrajectories
  <2>2. Kept(t, x, taken, again, N, T)
    BY <1>3, KeptWithoutCurrent, Zenon
  <2>. QED
    BY <1>3, <2>1, <2>2, Zenon
<1>. QED
  BY <1>2, <1>3

-----------------------------------------------------------------------------
(***************************************************************************)
(* Messages.                                                               *)
(***************************************************************************)

\* The queues of the state are in order, with numbers in N and T.
Queued(N, T) == Kept(trj, step.external, executed = "Normal", sessions > 1, N, T)

\* The same after a step: the two queues are left, or the temporary queue has
\* taken the place of the other one.
QueuedNext(N, T) ==
  \/ /\ events'.do_discard = events.do_discard
     /\ Kept(trj', step'.external, executed' = "Normal", sessions' > 1, N, T)
  \/ /\ events'.do_discard = FALSE
     /\ Kept(trj', step'.external, executed' = "Normal", sessions' > 1, T, {})

\* Nothing is executed before the first message.
IdleBefore == sessions = 0 => inactive

\* The inductive invariant: the queues hold accepted trajectories, in order.
QueueInv == Queued(0 .. added, 0 .. added) /\ IdleBefore

\* What a process function finds, by the pair it is dispatched on.
QueueIncoming(p, again, N, T) ==
  Kept(p.trj, p.step.external,
       p.mgr.state \in {<<"Normal", "Running">>, <<"RampDown", "None">>}, again, N, T)

\* The same at the end of an ok message.
LEMMA FinishQueue ==
  ASSUME NEW m \in Managers, NEW t \in TrajectoryContainers, NEW s \in MotionSteps,
         NEW n \in BOOLEAN, NEW a \in BOOLEAN, NEW dt \in Nat, finish(m, t, s, n, a, dt),
         NEW again, NEW N, NEW T,
         Kept(t, s.external, m.pending = <<"Normal", "Running">> \/ m.state[1] = "Normal",
              again, N, T)
  PROVE  Kept(trj', step'.external, executed' = "Normal", again, N, T)
<1>1. mgr' = m /\ trj' = t /\ step'.external = s.external
  BY FinishEffect, Zenon
<1>2. (executed' = "Normal") = (m.pending = <<"Normal", "Running">> \/ m.state[1] = "Normal")
  BY <1>1, ExecutedNext
<1>. QED
  BY <1>1, <1>2, Zenon

\* The state that is executed is one of the three.
LEMMA ExecutedType ==
  ASSUME TypeOK
  PROVE  executed \in {"Normal", "RampDown", "StaticGoal"}
BY DEF executed, TypeOK, Managers, StatePairs, States

\* Resetting the trajectories, when a point may be repeated if one is.
LEMMA ResetQueue ==
  ASSUME TypeOK, GoalInv, NEW N, NEW T, Queued(N, T), NEW again \in BOOLEAN, sessions > 1 => again,
         executed = "RampDown" /\ trj.has => again, NEW x, NEW taken
  PROVE  /\ ~resetTrajectories(trj, step).has
         /\ Kept(resetTrajectories(trj, step), x, taken, again, N, T)
<1>0. /\ trj \in TrajectoryContainers /\ step \in MotionSteps
      /\ trj.has \in BOOLEAN
  BY DEF TypeOK, TrajectoryContainers
<1>1. Kept(trj, step.external, executed = "Normal", again, N, T)
  <2>1. (sessions > 1) \in BOOLEAN
    BY DEF TypeOK
  <2>. QED
    BY <2>1, KeptRelaxed, Zenon DEF Queued
<1>2. CASE executed = "Normal"
  <2>1. Kept(trj, step.external, TRUE, again, N, T)
    <3>1. (executed = "Normal") = TRUE
      BY <1>2
    <3>. QED
      BY <1>1, <3>1, Zenon
  <2>. QED
    BY <1>0, <2>1, KeptReset, Zenon
<1>3. CASE ~trj.has
  <2>1. Kept(trj, step.external, TRUE, again, N, T)
    BY <1>1, <1>3, KeptWithoutCurrent, Zenon
  <2>. QED
    BY <1>0, <2>1, KeptReset, Zenon
<1>4. CASE executed # "Normal" /\ trj.has
  <2>1. executed = "RampDown"
    BY <1>4, ExecutedType DEF GoalInv, GoalHasTrajectory
  <2>2. again = TRUE /\ trj.current # <<>> /\ Head(trj.current) = step.external
    BY <1>4, <2>1 DEF GoalInv, InterruptedGoalKept
  <2>3. Kept(trj, step.external, FALSE, again, N, T)
    <3>1. (executed = "Normal") = FALSE
      BY <1>4
    <3>. QED
      BY <1>1, <3>1, Zenon
  <2>. QED
    BY <1>0, <2>2, <2>3, KeptReset, Zenon
<1>. QED
  BY <1>2, <1>3, <1>4

\* What prepare hands to the process functions.  A session that restarts
\* repeats the interrupted point only if there was a session before.
LEMMA PreparedQueue ==
  ASSUME TypeOK, ManagerInv, GoalInv, NEW N, NEW T, Queued(N, T), IdleBefore,
         NEW first \in BOOLEAN, isFirstMessage(first)
  PROVE  QueueIncoming(prepared(first, TRUE), sessions' > 1, N, T)
<1>. DEFINE p == prepared(first, TRUE)
            taken == p.mgr.state \in {<<"Normal", "Running">>, <<"RampDown", "None">>}
            d == p.mgr.state
<1>m. p.mgr = preparedManager(first, TRUE)
  BY DEF prepared
<1>0. sessions \in Nat /\ trj.has \in BOOLEAN
  BY DEF TypeOK, TrajectoryContainers
<1>1. CASE ~first
  <2>1. p.trj = trj /\ p.step = step
    BY <1>1 DEF prepared, TypeOK
  <2>2. sessions' = sessions
    BY <1>1, Zenon DEF isFirstMessage
  <2>3. DispatchedAfter(d, executed)
    BY <1>m, <1>1, DispatchedPair, Zenon
  <2>4. d \in StatePairs /\ d \notin {<<"Normal", "None">>, <<"Normal", "Finished">>}
    <3>1. p \in PreparedObjects
      BY PreparedType, Zenon
    <3>. HIDE DEF p
    <3>2. d \in StatePairs
      BY <3>1, ObjectParts DEF Managers
    <3>3. d \notin {<<"Normal", "None">>, <<"Normal", "Finished">>}
      BY <1>m, PreparedManagerEffect, Zenon
    <3>. QED
      BY <3>2, <3>3
  <2>. HIDE DEF p, d
  <2>5. (executed = "Normal") = taken \/ executed = "StaticGoal"
    BY <2>3, <2>4 DEF DispatchedAfter, StatePairs, States, SubStates, d
  <2>6. Kept(trj, step.external, taken, sessions > 1, N, T)
    <3>1. CASE (executed = "Normal") = taken
      BY <3>1, Zenon DEF Queued
    <3>2. CASE executed = "StaticGoal"
      <4>1. ~trj.has
        BY <3>2 DEF GoalInv, GoalHasTrajectory
      <4>. QED
        BY <4>1, KeptWithoutCurrent, Zenon DEF Queued
    <3>. QED
      BY <2>5, <3>1, <3>2
  <2>7. QueueIncoming(p, sessions' > 1, N, T)
    BY <2>1, <2>2, <2>6, Zenon DEF QueueIncoming
  <2>. QED
    BY <2>7, Zenon DEF p
<1>2. CASE first
  <2>1. p.trj = resetTrajectories(trj, step)
    BY <1>2, Zenon DEF prepared
  <2>2. sessions' = sessions + 1
    BY <1>2, Zenon DEF isFirstMessage
  <2>3. /\ (sessions' > 1) \in BOOLEAN
        /\ sessions > 1 => sessions' > 1
        /\ executed = "RampDown" => sessions' > 1
    <3>1. executed = "RampDown" => ~inactive
      BY DEF executed, inactive
    <3>2. executed = "RampDown" => sessions # 0
      BY <3>1 DEF IdleBefore
    <3>. QED
      BY <1>0, <2>2, <3>2
  <2>4. Kept(resetTrajectories(trj, step), p.step.external, taken, sessions' > 1, N, T)
    BY <2>3, ResetQueue, Zenon
  <2>. HIDE DEF p
  <2>5. QueueIncoming(p, sessions' > 1, N, T)
    BY <2>1, <2>4, Zenon DEF QueueIncoming
  <2>. QED
    BY <2>5, Zenon DEF p
<1>. QED
  BY <1>1, <1>2, Zenon

-----------------------------------------------------------------------------
(***************************************************************************)
(* One lemma per process function: it leaves the queues in order.          *)
(***************************************************************************)

\* Normal execution takes the next goal of the current trajectory, or of the
\* next one.
LEMMA NormalRunningQueue ==
  ASSUME TypeOK, NEW p \in PreparedObjects, Incoming(p),
         NEW again, NEW N, NEW T, QueueIncoming(p, again, N, T),
         NEW met, NEW est \in Nat, NEW dt \in Nat, normalRunning(p, met, est, dt)
  PROVE  Kept(trj', step'.external, executed' = "Normal", again, N, T)
<1>. DEFINE start == ~p.trj.has /\ p.trj.primary # <<>>
            t == IF start THEN [p.trj EXCEPT !.has = TRUE, !.current = Head(p.trj.primary),
                                             !.primary = Tail(@)]
                          ELSE p.trj
            g == updateNormalGoal(t, p.step, met, est)
            m == setPendingState(p.mgr, <<"RampDown", "None">>)
<1>1. p.mgr.state = <<"Normal", "Running">>
  BY DEF normalRunning
<1>2. p.mgr.pending = NoPending
  BY DEF Incoming
<1>3. t \in TrajectoryContainers
  BY ObjectParts, PopTrajectoryType, Zenon
<1>4. \/ finish(m, p.trj, p.step, FALSE, p.active, dt)
      \/ finish(p.mgr, g.trj, g.step, g.success, g.success, dt)
      \/ finish(p.mgr, p.trj, p.step, FALSE, p.active, dt)
  BY Zenon DEF normalRunning
<1>5. Kept(p.trj, p.step.external, TRUE, again, N, T)
  <2>1. (p.mgr.state \in {<<"Normal", "Running">>, <<"RampDown", "None">>}) = TRUE
    BY <1>1
  <2>. QED
    BY <2>1, Zenon DEF QueueIncoming
<1>6. Kept(t, p.step.external, FALSE, again, N, T)
  <2>0. p.trj \in TrajectoryContainers /\ p.step.external \in Points
    BY ObjectParts DEF MotionSteps
  <2>1. CASE start
    BY <1>5, <2>0, <2>1, KeptPopped, Zenon
  <2>2. CASE ~start
    <3>1. t = p.trj
      BY <2>2
    <3>. QED
      BY <1>5, <2>0, <3>1, KeptWithoutPoint, Zenon
  <2>. QED
    BY <2>1, <2>2, Zenon
<1>. HIDE DEF t
<1>7. Kept(g.trj, g.step.external, TRUE, again, N, T)
  BY <1>3, <1>6, ObjectParts, KeptUpdated, Zenon
<1>8. g.trj \in TrajectoryContainers /\ g.step \in MotionSteps /\ g.success \in BOOLEAN
  BY <1>3, ObjectParts, UpdateNormalGoalType, Zenon
<1>9. m \in Managers /\ m.state = p.mgr.state
  BY <1>2, ObjectParts, SetPendingStateFresh DEF StatePairs, States, SubStates
<1>. HIDE DEF g, m
<1>10. ASSUME NEW x \in Managers, x.state = p.mgr.state
       PROVE  (x.pending = <<"Normal", "Running">> \/ x.state[1] = "Normal") = TRUE
  BY <1>1, <1>10
<1>11. CASE finish(m, p.trj, p.step, FALSE, p.active, dt)
  <2>1. Kept(p.trj, p.step.external, m.pending = <<"Normal", "Running">> \/ m.state[1] = "Normal",
             again, N, T)
    BY <1>5, <1>9, <1>10, Zenon
  <2>. QED
    BY <1>9, <1>11, <2>1, ObjectParts, FinishQueue, Zenon
<1>12. CASE finish(p.mgr, g.trj, g.step, g.success, g.success, dt)
  <2>1. Kept(g.trj, g.step.external,
             p.mgr.pending = <<"Normal", "Running">> \/ p.mgr.state[1] = "Normal", again, N, T)
    BY <1>7, <1>10, ObjectParts, Zenon
  <2>. QED
    BY <1>8, <1>12, <2>1, ObjectParts, FinishQueue, Zenon
<1>13. CASE finish(p.mgr, p.trj, p.step, FALSE, p.active, dt)
  <2>1. Kept(p.trj, p.step.external,
             p.mgr.pending = <<"Normal", "Running">> \/ p.mgr.state[1] = "Normal", again, N, T)
    BY <1>5, <1>10, ObjectParts, Zenon
  <2>. QED
    BY <1>13, <2>1, ObjectParts, FinishQueue, Zenon
<1>. QED
  BY <1>4, <1>11, <1>12, <1>13, Zenon

\* A ramp down that begins stores the interrupted goal.
LEMMA RampDownNoneQueue ==
  ASSUME TypeOK, NEW p \in PreparedObjects, Incoming(p),
         NEW again, NEW N, NEW T, QueueIncoming(p, again, N, T),
         NEW dt \in Nat, rampDownNone(p, dt)
  PROVE  Kept(trj', step'.external, executed' = "Normal", again, N, T)
<1>. DEFINE s == prepareRampDownGoal(p.step, events.do_stop)
            g == IF p.active THEN storeNormalGoal(p.trj, s) ELSE [trj |-> p.trj, step |-> s]
            m == setPendingState(p.mgr, <<"RampDown", "Running">>)
<1>1. p.mgr.state = <<"RampDown", "None">>
  BY DEF rampDownNone
<1>2. p.mgr.pending = NoPending /\ (p.trj.has => p.active)
  BY <1>1 DEF Incoming, FitsObject
<1>3. s \in MotionSteps /\ s.external = p.step.external
  <2>1. events.do_stop \in BOOLEAN
    BY DEF TypeOK, PendingEvents
  <2>. QED
    BY <2>1, ObjectParts, MotionStepType, PrepareEffect, Zenon
<1>4. finish(m, g.trj, g.step, TRUE, TRUE, dt)
  BY Zenon DEF rampDownNone
<1>5. Kept(p.trj, s.external, TRUE, again, N, T)
  <2>1. (p.mgr.state \in {<<"Normal", "Running">>, <<"RampDown", "None">>}) = TRUE
    BY <1>1
  <2>. QED
    BY <1>3, <2>1, Zenon DEF QueueIncoming
<1>. HIDE DEF s
<1>6. /\ g.trj \in TrajectoryContainers
      /\ g.step \in MotionSteps
      /\ Kept(g.trj, g.step.external, FALSE, again, N, T)
  <2>1. CASE p.active
    <3>1. g = storeNormalGoal(p.trj, s)
      BY <2>1
    <3>2. Kept(storeNormalGoal(p.trj, s).trj, g.step.external, FALSE, again, N, T)
      BY <1>3, <1>5, ObjectParts, KeptStored, Zenon
    <3>3. storeNormalGoal(p.trj, s).trj \in TrajectoryContainers
          /\ storeNormalGoal(p.trj, s).step \in MotionSteps
      BY <1>3, ObjectParts, StoreType, Zenon
    <3>. HIDE DEF g
    <3>. QED
      BY <3>1, <3>2, <3>3, Zenon
  <2>2. CASE ~p.active
    <3>1. g.trj = p.trj /\ g.step = s /\ ~p.trj.has
      BY <1>2, <2>2
    <3>. HIDE DEF g
    <3>2. Kept(p.trj, s.external, FALSE, again, N, T)
      BY <1>5, <3>1, KeptWithoutCurrent, Zenon
    <3>. QED
      BY <1>3, <3>1, <3>2, ObjectParts, Zenon
  <2>. QED
    BY <2>1, <2>2, Zenon
<1>7. /\ m \in Managers
      /\ (m.pending = <<"Normal", "Running">> \/ m.state[1] = "Normal") = FALSE
  <2>1. /\ m \in Managers /\ m.state = p.mgr.state
        /\ m.pending \in {NoPending, <<"RampDown", "Running">>}
    BY <1>2, ObjectParts, SetPendingStateFresh DEF StatePairs, States, SubStates
  <2>. HIDE DEF m
  <2>. QED
    BY <1>1, <2>1 DEF NoPending
<1>. HIDE DEF g, m
<1>. QED
  BY <1>4, <1>6, <1>7, FinishQueue, Zenon

\* An object of another pair whose queues the message leaves alone.
LEMMA QueueUntouched ==
  ASSUME NEW p \in PreparedObjects, NEW again, NEW N, NEW T, QueueIncoming(p, again, N, T),
         p.mgr.state \notin {<<"Normal", "Running">>, <<"RampDown", "None">>},
         NEW m \in Managers, m.pending # <<"Normal", "Running">>, m.state[1] # "Normal",
         NEW s \in MotionSteps, s.external = p.step.external,
         NEW n \in BOOLEAN, NEW a \in BOOLEAN, NEW dt \in Nat, finish(m, p.trj, s, n, a, dt)
  PROVE  Kept(trj', step'.external, executed' = "Normal", again, N, T)
<1>1. (p.mgr.state \in {<<"Normal", "Running">>, <<"RampDown", "None">>})
        = (m.pending = <<"Normal", "Running">> \/ m.state[1] = "Normal")
  OBVIOUS
<1>2. Kept(p.trj, s.external, m.pending = <<"Normal", "Running">> \/ m.state[1] = "Normal",
           again, N, T)
  BY <1>1, Zenon DEF QueueIncoming
<1>. QED
  BY <1>2, ObjectParts, FinishQueue, Zenon

\* A ramp down that goes on.
LEMMA RampDownRunningQueue ==
  ASSUME TypeOK, NEW p \in PreparedObjects, Incoming(p),
         NEW again, NEW N, NEW T, QueueIncoming(p, again, N, T),
         NEW dt \in Nat, rampDownRunning(p, dt)
  PROVE  Kept(trj', step'.external, executed' = "Normal", again, N, T)
<1>. DEFINE m == IF interpolationDurationReached(p.step)
                   THEN setPendingState(p.mgr, <<"RampDown", "Finished">>) ELSE p.mgr
<1>1. p.mgr.state = <<"RampDown", "Running">> /\ p.mgr.pending = NoPending
  BY DEF rampDownRunning, Incoming
<1>2. m \in Managers /\ m.state = p.mgr.state /\ m.pending \in {NoPending, <<"RampDown", "Finished">>}
  BY <1>1, ObjectParts, SetPendingStateFresh DEF StatePairs, States, SubStates
<1>3. finish(m, p.trj, p.step, FALSE, p.active, dt)
  BY Zenon DEF rampDownRunning
<1>. HIDE DEF m
<1>4. m.pending # <<"Normal", "Running">> /\ m.state[1] # "Normal"
      /\ p.mgr.state \notin {<<"Normal", "Running">>, <<"RampDown", "None">>}
  BY <1>1, <1>2 DEF NoPending
<1>. QED
  BY <1>2, <1>3, <1>4, ObjectParts, QueueUntouched, Zenon

\* A finished ramp down discards the queued trajectories if it was told to, and
\* resumes with the interrupted goal.
LEMMA RampDownFinishedQueue ==
  ASSUME TypeOK, NEW p \in PreparedObjects, Incoming(p),
         NEW again, NEW N, NEW T, QueueIncoming(p, again, N, T),
         NEW met, NEW est \in Nat, NEW dt \in Nat, rampDownFinished(p, met, est, dt)
  PROVE  Kept(trj', step'.external, executed' = "Normal", again,
              IF events.do_discard THEN T ELSE N, IF events.do_discard THEN {} ELSE T)
<1>. DEFINE s == IF events.do_duration_factor_update
                   THEN [p.step EXCEPT !.duration_factor = events.duration_factor] ELSE p.step
            t == IF events.do_discard
                   THEN [has |-> FALSE, current |-> <<>>, primary |-> p.trj.temporary,
                         temporary |-> <<>>]
                   ELSE p.trj
            g == updateNormalGoal(t, s, met, est)
            n == setPendingState(p.mgr, <<"Normal", "Running">>)
            m == setPendingState(p.mgr, <<"StaticGoal", "None">>)
            M == IF events.do_discard THEN T ELSE N
            U == IF events.do_discard THEN {} ELSE T
<1>1. p.mgr.state = <<"RampDown", "Finished">> /\ p.mgr.pending = NoPending
  BY DEF rampDownFinished, Incoming
<1>2. s \in MotionSteps /\ s.external = p.step.external
  BY ObjectParts DEF MotionSteps, PendingEvents, TypeOK
<1>3. t \in TrajectoryContainers
  BY ObjectParts, EmptyTypes DEF TrajectoryContainers
<1>4. \/ finish(p.mgr, t, s, FALSE, p.active, dt)
      \/ finish(m, t, s, FALSE, p.active, dt)
      \/ finish(n, g.trj, g.step, g.success, g.success, dt)
  BY Zenon DEF rampDownFinished
<1>5. Kept(t, s.external, FALSE, again, M, U)
  <2>1. (p.mgr.state \in {<<"Normal", "Running">>, <<"RampDown", "None">>}) = FALSE
    BY <1>1
  <2>2. Kept(p.trj, s.external, FALSE, again, N, T)
    BY <1>2, <2>1, Zenon DEF QueueIncoming
  <2>3. CASE events.do_discard
    <3>1. ~t.has /\ t.primary = p.trj.temporary /\ t.temporary = <<>> /\ M = T /\ U = {}
      BY <2>3
    <3>. HIDE DEF t, M, U
    <3>2. InOrder(<<>>, <<>>, again, U)
      BY OrderEmpty
    <3>. QED
      BY <2>2, <3>1, <3>2, Zenon DEF Kept, Front
  <2>4. CASE ~events.do_discard
    <3>1. t = p.trj /\ M = N /\ U = T
      BY <2>4
    <3>. HIDE DEF t, M, U
    <3>. QED
      BY <2>2, <3>1, Zenon
  <2>. QED
    BY <2>3, <2>4, Zenon
<1>. HIDE DEF s, t, M, U
<1>6. Kept(g.trj, g.step.external, TRUE, again, M, U)
  BY <1>2, <1>3, <1>5, KeptUpdated, Zenon
<1>7. g.trj \in TrajectoryContainers /\ g.step \in MotionSteps /\ g.success \in BOOLEAN
  BY <1>2, <1>3, UpdateNormalGoalType, Zenon
<1>8. /\ m \in Managers /\ m.state = p.mgr.state
      /\ m.pending \in {NoPending, <<"StaticGoal", "None">>}
  BY <1>1, ObjectParts, SetPendingStateFresh DEF StatePairs, States, SubStates
<1>9. n \in Managers /\ n.pending = <<"Normal", "Running">>
  <2>1. <<"Normal", "Running">> \in StatePairs
    BY DEF StatePairs, States, SubStates
  <2>2. <<"Normal", "Running">> \in Accepted[p.mgr.state]
    BY <1>1, AcceptedTable
  <2>. QED
    BY <1>1, <2>1, <2>2, ObjectParts, SetPendingStateFresh
<1>. HIDE DEF g, m, n
<1>10. ASSUME NEW x \in Managers, x.state = p.mgr.state,
              x.pending \in {NoPending, <<"StaticGoal", "None">>},
              finish(x, t, s, FALSE, p.active, dt)
       PROVE  Kept(trj', step'.external, executed' = "Normal", again, M, U)
  <2>1. (x.pending = <<"Normal", "Running">> \/ x.state[1] = "Normal") = FALSE
    BY <1>1, <1>10 DEF NoPending
  <2>. QED
    BY <1>2, <1>3, <1>5, <1>10, <2>1, ObjectParts, FinishQueue, Zenon
<1>0. SUFFICES Kept(trj', step'.external, executed' = "Normal", again, M, U)
  BY Zenon DEF M, U
<1>11. CASE finish(n, g.trj, g.step, g.success, g.success, dt)
  <2>1. (n.pending = <<"Normal", "Running">> \/ n.state[1] = "Normal") = TRUE
    BY <1>9
  <2>. QED
    BY <1>6, <1>7, <1>9, <1>11, <2>1, FinishQueue, Zenon
<1>12. CASE finish(p.mgr, t, s, FALSE, p.active, dt)
  BY <1>1, <1>10, <1>12, ObjectParts, Zenon
<1>13. CASE finish(m, t, s, FALSE, p.active, dt)
  BY <1>8, <1>10, <1>13, Zenon
<1>. QED
  BY <1>4, <1>11, <1>12, <1>13, Zenon

\* A static goal that begins returns the current trajectory to the queue.
LEMMA StaticGoalNoneQueue ==
  ASSUME TypeOK, NEW p \in PreparedObjects, Incoming(p),
         NEW again, NEW N, NEW T, QueueIncoming(p, again, N, T),
         NEW dt \in Nat, staticGoalNone(p, dt)
  PROVE  Kept(trj', step'.external, executed' = "Normal", again, N, T)
<1>. DEFINE t == IF p.trj.has THEN [p.trj EXCEPT !.has = FALSE, !.current = <<>>,
                                                 !.primary = <<p.trj.current>> \o @]
                              ELSE p.trj
            m == setPendingState(p.mgr, <<"StaticGoal", "Running">>)
<1>1. p.mgr.state = <<"StaticGoal", "None">> /\ p.mgr.pending = NoPending
  BY DEF staticGoalNone, Incoming
<1>2. t \in TrajectoryContainers
  <2>1. <<p.trj.current>> \o p.trj.primary \in Seq(Seq(Points))
    BY ObjectParts DEF TrajectoryContainers
  <2>. QED
    BY <2>1, ObjectParts, EmptyTypes, Zenon DEF TrajectoryContainers
<1>3. /\ m \in Managers /\ m.state = p.mgr.state
      /\ m.pending \in {NoPending, <<"StaticGoal", "Running">>}
  BY <1>1, ObjectParts, SetPendingStateFresh DEF StatePairs, States, SubStates
<1>4. finish(m, t, p.step, FALSE, FALSE, dt)
  BY Zenon DEF staticGoalNone
<1>5. Kept(t, p.step.external, FALSE, again, N, T)
  <2>1. (p.mgr.state \in {<<"Normal", "Running">>, <<"RampDown", "None">>}) = FALSE
    BY <1>1
  <2>2. Kept(p.trj, p.step.external, FALSE, again, N, T)
    BY <2>1, Zenon DEF QueueIncoming
  <2>3. CASE p.trj.has
    BY <2>2, <2>3, ObjectParts, KeptPushed, Zenon
  <2>4. CASE ~p.trj.has
    BY <2>2, <2>4, Zenon
  <2>. QED
    BY <2>3, <2>4, Zenon
<1>. HIDE DEF t, m
<1>6. (m.pending = <<"Normal", "Running">> \/ m.state[1] = "Normal") = FALSE
  BY <1>1, <1>3 DEF NoPending
<1>. QED
  BY <1>2, <1>3, <1>4, <1>5, <1>6, ObjectParts, FinishQueue, Zenon

\* A static goal that is followed.
LEMMA StaticGoalRunningQueue ==
  ASSUME TypeOK, NEW p \in PreparedObjects, Incoming(p),
         NEW again, NEW N, NEW T, QueueIncoming(p, again, N, T),
         NEW dt \in Nat, staticGoalRunning(p, dt)
  PROVE  Kept(trj', step'.external, executed' = "Normal", again, N, T)
<1>. DEFINE position == events.do_static_position_goal_update /\ ~events.do_ramp_down
            velocity == ~position /\ events.do_static_velocity_goal_update /\ ~events.do_ramp_down
            update == position \/ velocity
            m == CASE events.do_static_goal_finish
                        -> setPendingState(p.mgr, <<"StaticGoal", "Finished">>)
                   [] ~events.do_static_goal_finish /\ events.do_ramp_down
                        -> setPendingState(p.mgr, <<"RampDown", "None">>)
                   [] OTHER -> p.mgr
            op == IF position THEN "RampInPosition" ELSE "RampInVelocity"
            fast == events.do_static_goal_fast_update
            s == IF update THEN prepareStaticGoal(p.step, op, fast) ELSE p.step
<1>1. p.mgr.state = <<"StaticGoal", "Running">> /\ p.mgr.pending = NoPending
  BY DEF staticGoalRunning, Incoming
<1>2. finish(m, p.trj, s, update, p.active \/ update, dt)
  BY DEF staticGoalRunning
<1>3. m \in Managers /\ m.state[1] # "Normal" /\ m.pending # <<"Normal", "Running">>
  <2>1. /\ setPendingState(p.mgr, <<"StaticGoal", "Finished">>) \in Managers
        /\ setPendingState(p.mgr, <<"StaticGoal", "Finished">>).state = p.mgr.state
        /\ setPendingState(p.mgr, <<"StaticGoal", "Finished">>).pending
             \in {NoPending, <<"StaticGoal", "Finished">>}
    BY <1>1, ObjectParts, SetPendingStateFresh DEF StatePairs, States, SubStates
  <2>2. /\ setPendingState(p.mgr, <<"RampDown", "None">>) \in Managers
        /\ setPendingState(p.mgr, <<"RampDown", "None">>).state = p.mgr.state
        /\ setPendingState(p.mgr, <<"RampDown", "None">>).pending
             \in {NoPending, <<"RampDown", "None">>}
    BY <1>1, ObjectParts, SetPendingStateFresh DEF StatePairs, States, SubStates
  <2>3. events.do_static_goal_finish \in BOOLEAN /\ events.do_ramp_down \in BOOLEAN
    BY DEF TypeOK, PendingEvents
  <2>4. m \in {setPendingState(p.mgr, <<"StaticGoal", "Finished">>),
               setPendingState(p.mgr, <<"RampDown", "None">>), p.mgr}
    BY <2>3
  <2>. HIDE DEF m
  <2>. QED
    BY <1>1, <2>1, <2>2, <2>4, ObjectParts DEF NoPending
<1>4. s \in MotionSteps /\ s.external = p.step.external
  <2>1. fast \in BOOLEAN /\ op \in Operations
    BY DEF TypeOK, PendingEvents, Operations
  <2>. HIDE DEF fast, op, update
  <2>2. prepareStaticGoal(p.step, op, fast) \in MotionSteps
    BY <2>1, ObjectParts, MotionStepType, Zenon
  <2>3. prepareStaticGoal(p.step, op, fast).external = p.step.external
    BY ObjectParts DEF prepareStaticGoal, MotionSteps
  <2>. QED
    BY <2>2, <2>3, ObjectParts
<1>5. update \in BOOLEAN /\ (p.active \/ update) \in BOOLEAN
  OBVIOUS
<1>6. p.mgr.state \notin {<<"Normal", "Running">>, <<"RampDown", "None">>}
  BY <1>1
<1>. HIDE DEF m, s, update
<1>. QED
  BY <1>2, <1>3, <1>4, <1>5, <1>6, QueueUntouched, Zenon

\* A static goal that is finished.
LEMMA StaticGoalFinishedQueue ==
  ASSUME TypeOK, NEW p \in PreparedObjects, Incoming(p),
         NEW again, NEW N, NEW T, QueueIncoming(p, again, N, T),
         NEW dt \in Nat, staticGoalFinished(p, dt)
  PROVE  Kept(trj', step'.external, executed' = "Normal", again, N, T)
<1>. DEFINE m == setPendingState(p.mgr, <<"RampDown", "None">>)
<1>1. p.mgr.state = <<"StaticGoal", "Finished">> /\ p.mgr.pending = NoPending
  BY DEF staticGoalFinished, Incoming
<1>2. /\ m \in Managers /\ m.state = p.mgr.state
      /\ m.pending \in {NoPending, <<"RampDown", "None">>}
  BY <1>1, ObjectParts, SetPendingStateFresh DEF StatePairs, States, SubStates
<1>3. finish(m, p.trj, p.step, FALSE, p.active, dt)
  BY Zenon DEF staticGoalFinished
<1>. HIDE DEF m
<1>4. m.pending # <<"Normal", "Running">> /\ m.state[1] # "Normal"
      /\ p.mgr.state \notin {<<"Normal", "Running">>, <<"RampDown", "None">>}
  BY <1>1, <1>2 DEF NoPending
<1>. QED
  BY <1>2, <1>3, <1>4, ObjectParts, QueueUntouched, Zenon

-----------------------------------------------------------------------------
\* A message that finds the states ok.
LEMMA OkMessageQueue ==
  ASSUME TypeOK, ManagerInv, GoalInv, NEW N, NEW T, Queued(N, T), IdleBefore,
         NEW first \in BOOLEAN, NEW met, NEW est \in Nat, NEW dt \in Nat,
         isFirstMessage(first), okMessage(first, met, est, dt)
  PROVE  QueuedNext(N, T)
<1>. DEFINE p == prepared(first, TRUE)
            again == sessions' > 1
<1>0. events \in PendingEvents
  BY DEF TypeOK
<1>1. p \in PreparedObjects
  BY PreparedType, Zenon
<1>2. Incoming(p)
  BY PreparedIncoming, Zenon
<1>3. QueueIncoming(p, again, N, T)
  BY PreparedQueue, Zenon
<1>4. \/ normalRunning(p, met, est, dt)
      \/ rampDownNone(p, dt)
      \/ rampDownRunning(p, dt)
      \/ rampDownFinished(p, met, est, dt)
      \/ staticGoalNone(p, dt)
      \/ staticGoalRunning(p, dt)
      \/ staticGoalFinished(p, dt)
  BY Zenon DEF okMessage
<1>. HIDE DEF p, again
<1>e. ASSUME events'.do_discard = events.do_discard,
             Kept(trj', step'.external, executed' = "Normal", again, N, T)
      PROVE  QueuedNext(N, T)
  BY <1>e, Zenon DEF QueuedNext, again
<1>5. CASE normalRunning(p, met, est, dt)
  <2>1. events'.do_discard = events.do_discard
    BY <1>0, <1>5 DEF normalRunning, PendingEvents
  <2>2. Kept(trj', step'.external, executed' = "Normal", again, N, T)
    BY <1>1, <1>2, <1>3, <1>5, NormalRunningQueue, Zenon
  <2>. QED
    BY <1>e, <2>1, <2>2, Zenon
<1>6. CASE rampDownNone(p, dt)
  <2>1. events'.do_discard = events.do_discard
    BY <1>0, <1>6 DEF rampDownNone, PendingEvents
  <2>2. Kept(trj', step'.external, executed' = "Normal", again, N, T)
    BY <1>1, <1>2, <1>3, <1>6, RampDownNoneQueue, Zenon
  <2>. QED
    BY <1>e, <2>1, <2>2, Zenon
<1>7. CASE rampDownRunning(p, dt)
  <2>1. events'.do_discard = events.do_discard
    BY <1>0, <1>7 DEF rampDownRunning, PendingEvents
  <2>2. Kept(trj', step'.external, executed' = "Normal", again, N, T)
    BY <1>1, <1>2, <1>3, <1>7, RampDownRunningQueue, Zenon
  <2>. QED
    BY <1>e, <2>1, <2>2, Zenon
<1>8. CASE rampDownFinished(p, met, est, dt)
  <2>1. events'.do_discard = FALSE
    <3>. DEFINE e == [events EXCEPT !.do_duration_factor_update = FALSE, !.do_discard = FALSE]
    <3>1. \/ events' = e
          \/ events' = [e EXCEPT !.do_ramp_down = FALSE, !.do_stop = FALSE, !.do_resume = FALSE]
          \/ events' = [e EXCEPT !.do_ramp_down = FALSE]
      BY <1>8, Zenon DEF rampDownFinished
    <3>. QED
      BY <1>0, <3>1 DEF PendingEvents
  <2>2. Kept(trj', step'.external, executed' = "Normal", again,
             IF events.do_discard THEN T ELSE N, IF events.do_discard THEN {} ELSE T)
    BY <1>1, <1>2, <1>3, <1>8, RampDownFinishedQueue, Zenon
  <2>3. CASE events.do_discard
    BY <2>1, <2>2, <2>3, Zenon DEF QueuedNext, again
  <2>4. CASE ~events.do_discard
    <3>1. events'.do_discard = events.do_discard
      BY <1>0, <2>1, <2>4 DEF PendingEvents
    <3>2. Kept(trj', step'.external, executed' = "Normal", again, N, T)
      BY <2>2, <2>4, Zenon
    <3>. QED
      BY <1>e, <3>1, <3>2, Zenon
  <2>. QED
    BY <2>3, <2>4, Zenon
<1>9. CASE staticGoalNone(p, dt)
  <2>1. events'.do_discard = events.do_discard
    BY <1>0, <1>9 DEF staticGoalNone, PendingEvents
  <2>2. Kept(trj', step'.external, executed' = "Normal", again, N, T)
    BY <1>1, <1>2, <1>3, <1>9, StaticGoalNoneQueue, Zenon
  <2>. QED
    BY <1>e, <2>1, <2>2, Zenon
<1>10. CASE staticGoalRunning(p, dt)
  <2>1. events'.do_discard = events.do_discard
    BY <1>0, <1>10 DEF staticGoalRunning, PendingEvents
  <2>2. Kept(trj', step'.external, executed' = "Normal", again, N, T)
    BY <1>1, <1>2, <1>3, <1>10, StaticGoalRunningQueue, Zenon
  <2>. QED
    BY <1>e, <2>1, <2>2, Zenon
<1>11. CASE staticGoalFinished(p, dt)
  <2>1. events'.do_discard = events.do_discard
    BY <1>0, <1>11 DEF staticGoalFinished, PendingEvents
  <2>2. Kept(trj', step'.external, executed' = "Normal", again, N, T)
    BY <1>1, <1>2, <1>3, <1>11, StaticGoalFinishedQueue, Zenon
  <2>. QED
    BY <1>e, <2>1, <2>2, Zenon
<1>. QED
  BY <1>4, <1>5, <1>6, <1>7, <1>8, <1>9, <1>10, <1>11, Zenon

\* A message that does not: a new session repeats the interrupted point, lost
\* states clear the queues.
LEMMA NotOkMessageQueue ==
  ASSUME TypeOK, ManagerInv, GoalInv, NEW N, NEW T, Queued(N, T), IdleBefore,
         NEW first \in BOOLEAN, isFirstMessage(first), notOkMessage(first)
  PROVE  QueuedNext(N, T)
<1>. DEFINE p == prepared(first, FALSE)
            u == resetTrajectories(trj, step)
<1>0. /\ mgr' = p.mgr /\ trj' = p.trj /\ step' = p.step /\ events' = events
      /\ sessions \in Nat
      /\ sessions' = IF first THEN sessions + 1 ELSE sessions
  BY DEF notOkMessage, isFirstMessage, TypeOK
<1>1. ASSUME Kept(trj', step'.external, executed' = "Normal", sessions' > 1, N, T)
      PROVE  QueuedNext(N, T)
  BY <1>0, <1>1, Zenon DEF QueuedNext
<1>2. CASE first
  <2>1. trj' = u /\ sessions' = sessions + 1
    BY <1>0, <1>2 DEF prepared
  <2>2. /\ (sessions' > 1) \in BOOLEAN
        /\ sessions > 1 => sessions' > 1
        /\ executed = "RampDown" => sessions' > 1
    <3>1. executed = "RampDown" => ~inactive
      BY DEF executed, inactive
    <3>2. executed = "RampDown" => sessions # 0
      BY <3>1 DEF IdleBefore
    <3>. QED
      BY <1>0, <2>1, <3>2
  <2>3. Kept(u, step'.external, executed' = "Normal", sessions' > 1, N, T)
    BY <2>2, ResetQueue, Zenon
  <2>. QED
    BY <1>0, <1>1, <2>1, <2>3, Zenon
<1>3. CASE ~first /\ ~inactive
  <2>1. trj' = [u EXCEPT !.primary = <<>>, !.temporary = <<>>]
    BY <1>0, <1>3, Zenon DEF prepared
  <2>2. u \in TrajectoryContainers
    BY ResetTrajectoriesType, Zenon DEF TypeOK
  <2>3. ~u.has
    BY Zenon DEF resetTrajectories, TypeOK, TrajectoryContainers
  <2>. HIDE DEF u
  <2>4. ~trj'.has /\ trj'.primary = <<>> /\ trj'.temporary = <<>>
    BY <2>1, <2>2, <2>3, Zenon DEF TrajectoryContainers
  <2>5. Kept(trj', step'.external, executed' = "Normal", sessions' > 1, N, T)
    BY <2>4, OrderEmpty, Zenon DEF Kept, Front
  <2>. QED
    BY <1>1, <2>5, Zenon
<1>4. CASE ~first /\ inactive
  <2>1. trj' = trj /\ step' = step /\ sessions' = sessions /\ mgr' = mgr
    BY <1>0, <1>4 DEF prepared, preparedManager, TypeOK
  <2>2. executed' = executed
    BY <2>1 DEF executed
  <2>3. Kept(trj', step'.external, executed' = "Normal", sessions' > 1, N, T)
    BY <1>0, <2>1, <2>2, Zenon DEF Queued
  <2>. QED
    BY <1>1, <2>3, Zenon
<1>. QED
  BY <1>2, <1>3, <1>4

\* A trajectory that a user adds is complete.
LEMMA AddedLeft ==
  ASSUME NEW goal \in TrajectoryGoals, NEW n \in Nat, NEW again
  PROVE  LET q == [i \in DOMAIN goal |-> [traj |-> n, left |-> Len(goal) - i,
                                          reach |-> goal[i].reach, dur |-> goal[i].dur]]
         IN Left(q, again) /\ \A k \in DOMAIN q : q[k].traj = n
<1>. DEFINE q == [i \in DOMAIN goal |-> [traj |-> n, left |-> Len(goal) - i,
                                         reach |-> goal[i].reach, dur |-> goal[i].dur]]
            size == Len(goal)
<1>1. goal \in Seq(PointGoals)
  BY ConstantsAssumption
<1>2. size \in Nat /\ DOMAIN goal = 1 .. size
  BY <1>1, LenProperties, Zenon
<1>3. q \in Seq(Points)
  BY AddedPointsType, Zenon
<1>4. DOMAIN q = 1 .. size
  BY <1>2
<1>5. \A i \in 1 .. size : q[i].traj = n /\ q[i].left = size - i
  BY <1>2
<1>6. Len(q) = size
  <2>1. Len(q) \in Nat /\ DOMAIN q = 1 .. Len(q)
    BY <1>3, LenProperties, Zenon
  <2>. DEFINE z == Len(q)
  <2>2. z \in Nat /\ 1 .. z = 1 .. size
    BY <1>4, <2>1, Zenon
  <2>. HIDE DEF z, size, q
  <2>3. z = size
    BY <1>2, <2>2
  <2>. QED
    BY <2>3 DEF z
<1>. HIDE DEF q, size
<1>7. \A i \in 2 .. size : q[i].left = q[i - 1].left - 1
  <2>. SUFFICES ASSUME NEW i \in 2 .. size
                PROVE  q[i].left = q[i - 1].left - 1
    OBVIOUS
  <2>1. i \in 1 .. size /\ i - 1 \in 1 .. size
    BY <1>2
  <2>2. q[i].left = size - i /\ q[i - 1].left = size - (i - 1)
    BY <1>5, <2>1
  <2>. QED
    BY <1>2, <2>2
<1>8. \A i \in 1 .. size : q[i].traj = q[1].traj
  BY <1>2, <1>5
<1>9. q # <<>> => q[size].left = 0
  <2>1. q # <<>> => size \in 1 .. size
    BY <1>2, <1>3, <1>6, EmptySeq
  <2>. QED
    BY <1>2, <1>5, <2>1
<1>10. Left(q, again)
  BY <1>4, <1>6, <1>7, <1>8, <1>9 DEF Left
<1>. QED
  BY <1>4, <1>5, <1>10 DEF q

\* The three ways in which a trajectory is added: it waits behind the discard
\* that was ordered, or in the queue if there was none.
LEMMA AddTrajectoryQueue ==
  ASSUME TypeOK, NEW N, NEW T, Queued(N, T), \A k \in N \cup T : k \in 0 .. added,
         NEW goal \in TrajectoryGoals, NEW o \in BOOLEAN, addTrajectory(goal, o)
  PROVE  \/ /\ events'.do_discard = TRUE
            /\ Kept(trj', step'.external, executed' = "Normal", sessions' > 1,
                    N, T \cup {added + 1})
         \/ /\ events'.do_discard = FALSE /\ events.do_discard = FALSE
            /\ Kept(trj', step'.external, executed' = "Normal", sessions' > 1,
                    N \cup {added + 1}, T)
<1>. DEFINE n == added + 1
            points == [i \in DOMAIN goal |-> [traj |-> n, left |-> Len(goal) - i,
                                              reach |-> goal[i].reach, dur |-> goal[i].dur]]
            again == sessions > 1
            front == Front(trj, step.external, executed = "Normal")
<1>0. /\ added \in Nat /\ n \in Nat
      /\ trj \in TrajectoryContainers
      /\ step.external \in Points
      /\ events \in PendingEvents
  BY DEF TypeOK, MotionSteps
<1>1. points \in Seq(Points)
  BY <1>0, AddedPointsType, Zenon
<1>2. Left(points, again) /\ \A k \in DOMAIN points : points[k].traj = n
  BY <1>0, AddedLeft, Zenon
<1>3. /\ UNCHANGED <<mgr, step, sessions>>
      /\ \/ /\ trj' = [trj EXCEPT !.temporary = <<points>>]
            /\ events' = [events EXCEPT !.do_ramp_down = TRUE, !.do_stop = TRUE,
                                        !.do_discard = TRUE, !.do_resume = TRUE]
         \/ /\ trj' = [trj EXCEPT !.temporary = Append(@, points)]
            /\ events' = events /\ events.do_discard
         \/ /\ trj' = [trj EXCEPT !.primary = Append(@, points)]
            /\ events' = events /\ ~events.do_discard
  BY DEF addTrajectory, commandFrame
<1>. HIDE DEF points, again
<1>4. \A k \in N : k \in 0 .. n - 1
  BY <1>0
<1>5. \A k \in T : k \in 0 .. n - 1
  BY <1>0
<1>6. front \in Seq(Points)
  <2>1. (executed = "Normal") \in BOOLEAN
    OBVIOUS
  <2>. QED
    BY <1>0, <2>1, FrontType, Zenon
<1>. HIDE DEF n
<1>7. InOrder(front, trj.primary, again, N) /\ InOrder(<<>>, trj.temporary, again, T)
  BY Zenon DEF Queued, Kept, again
<1>8. InOrder(front, Append(trj.primary, points), again, N \cup {n})
  BY <1>0, <1>1, <1>2, <1>4, <1>7, ContainerParts, OrderAppended, Zenon
<1>9. /\ InOrder(<<>>, Append(trj.temporary, points), again, T \cup {n})
      /\ InOrder(<<>>, <<points>>, again, T \cup {n})
  <2>1. /\ InOrder(<<>>, Append(trj.temporary, points), again, T \cup {n})
        /\ InOrder(<<>>, <<points>>, again, {n})
    BY <1>0, <1>1, <1>2, <1>5, <1>7, ContainerParts, OrderAppended, Zenon
  <2>2. {n} \subseteq T \cup {n}
    OBVIOUS
  <2>. QED
    BY <2>1, <2>2, OrderWidened, Zenon
<1>10. executed' = executed /\ step'.external = step.external /\ (sessions' > 1) = again
  BY <1>3 DEF executed, again
<1>11. /\ trj'.has = trj.has /\ trj'.current = trj.current
       /\ \/ /\ trj'.primary = trj.primary
             /\ trj'.temporary \in {<<points>>, Append(trj.temporary, points)}
             /\ events'.do_discard = TRUE
          \/ /\ trj'.primary = Append(trj.primary, points) /\ trj'.temporary = trj.temporary
             /\ events'.do_discard = FALSE /\ events.do_discard = FALSE
  BY <1>0, <1>3 DEF TrajectoryContainers, PendingEvents
<1>12. Front(trj', step'.external, executed' = "Normal") = front
  BY <1>10, <1>11, Zenon DEF Front
<1>. HIDE DEF front
<1>13. CASE /\ trj'.primary = trj.primary
            /\ trj'.temporary \in {<<points>>, Append(trj.temporary, points)}
            /\ events'.do_discard = TRUE
  <2>1. InOrder(<<>>, trj'.temporary, again, T \cup {n})
    BY <1>9, <1>13, Zenon
  <2>2. InOrder(front, trj'.primary, again, N)
    BY <1>7, <1>13, Zenon
  <2>. QED
    BY <1>10, <1>12, <1>13, <2>1, <2>2, Zenon DEF Kept, n
<1>14. CASE /\ trj'.primary = Append(trj.primary, points) /\ trj'.temporary = trj.temporary
            /\ events'.do_discard = FALSE /\ events.do_discard = FALSE
  BY <1>7, <1>8, <1>10, <1>12, <1>14, Zenon DEF Kept, n
<1>. QED
  BY <1>11, <1>13, <1>14, Zenon

\* The other commands leave the queues alone.
LEMMA OtherCommandQueue ==
  ASSUME Command, ~ \E goal \in TrajectoryGoals, o \in BOOLEAN : addTrajectory(goal, o),
         NEW N, NEW T, Queued(N, T)
  PROVE  /\ UNCHANGED <<mgr, step, trj, sessions, added>>
         /\ Kept(trj', step'.external, executed' = "Normal", sessions' > 1, N, T)
<1>1. UNCHANGED <<mgr, step, trj, sessions, added>>
  BY Zenon DEF Command, stopTrajectory, resumeTrajectory, updateDurationFactor, startStaticGoal,
               setStaticGoal, finishStaticGoal, retrieveExecutionProgress, commandFrame
<1>2. executed' = executed
  BY <1>1 DEF executed
<1>. QED
  BY <1>1, <1>2, Zenon DEF Queued

\* No command ends the time before the first message.
LEMMA IdleStep == TypeOK /\ IdleBefore /\ [Next]_vars => IdleBefore'
<1>. SUFFICES ASSUME TypeOK, IdleBefore, [Next]_vars
              PROVE  IdleBefore'
  OBVIOUS
<1>1. ASSUME NEW first \in BOOLEAN, isFirstMessage(first)
      PROVE  IdleBefore'
  BY <1>1 DEF isFirstMessage, TypeOK, IdleBefore
<1>2. CASE NotOkMessage \/ \E met \in SUBSET goalIds : OkMessage(met)
  BY <1>1, <1>2, Zenon DEF NotOkMessage, OkMessage
<1>3. CASE Command \/ UNCHANGED vars
  <2>1. UNCHANGED <<mgr, sessions>>
    BY <1>3, Zenon DEF Command, addTrajectory, stopTrajectory, resumeTrajectory,
                       updateDurationFactor, startStaticGoal, setStaticGoal, finishStaticGoal,
                       retrieveExecutionProgress, commandFrame, vars
  <2>. QED
    BY <2>1 DEF IdleBefore, inactive
<1>. QED
  BY <1>2, <1>3 DEF Next

\* A message, ok or not.
LEMMA MessageQueue ==
  ASSUME TypeOK, ManagerInv, GoalInv, NEW N, NEW T, Queued(N, T), IdleBefore,
         NotOkMessage \/ \E met \in SUBSET goalIds : OkMessage(met)
  PROVE  QueuedNext(N, T) /\ added' = added
<1>1. CASE NotOkMessage
  <2>1. added' = added
    BY <1>1, Zenon DEF NotOkMessage, notOkMessage
  <2>. QED
    BY <1>1, <2>1, NotOkMessageQueue, Zenon DEF NotOkMessage
<1>2. ASSUME NEW met \in SUBSET goalIds, OkMessage(met)
      PROVE  QueuedNext(N, T) /\ added' = added
  <2>1. PICK first \in BOOLEAN, est \in Estimates, dt \in SampleTimes :
               isFirstMessage(first) /\ okMessage(first, met, est, dt)
    BY <1>2 DEF OkMessage
  <2>2. est \in Nat /\ dt \in Nat
    BY ConstantsAssumption
  <2>3. QueuedNext(N, T)
    BY <2>1, <2>2, OkMessageQueue, Zenon
  <2>4. added' = added
    BY <2>1, Zenon DEF okMessage, normalRunning, rampDownNone, rampDownRunning, rampDownFinished,
                       staticGoalNone, staticGoalRunning, staticGoalFinished, finish
  <2>. QED
    BY <2>3, <2>4
<1>. QED
  BY <1>1, <1>2

\* QueueInv is inductive relative to the earlier invariants.
LEMMA QueueInit == Init => QueueInv
<1>. SUFFICES ASSUME Init PROVE QueueInv
  OBVIOUS
<1>1. ~trj.has /\ trj.primary = <<>> /\ trj.temporary = <<>> /\ mgr = ResetManager
  BY DEF Init
<1>2. Queued(0 .. added, 0 .. added)
  BY <1>1, OrderEmpty, Zenon DEF Queued, Kept, Front
<1>3. inactive
  BY <1>1 DEF inactive, ResetManager
<1>. QED
  BY <1>2, <1>3 DEF QueueInv, IdleBefore

\* One step.
LEMMA QueueStep == TypeOK /\ ManagerInv /\ GoalInv /\ QueueInv /\ [Next]_vars => QueueInv'
<1>. SUFFICES ASSUME TypeOK, ManagerInv, GoalInv, QueueInv, [Next]_vars
              PROVE  QueueInv'
  OBVIOUS
<1>. DEFINE A == 0 .. added
            B == 0 .. added'
            kept(N, T) == Kept(trj', step'.external, executed' = "Normal", sessions' > 1, N, T)
<1>w. ASSUME NEW N, NEW T, kept(N, T), N \subseteq B, T \subseteq B
      PROVE  kept(B, B)
  BY <1>w, KeptWidened, Zenon
<1>0. Queued(A, A) /\ IdleBefore /\ IdleBefore' /\ added \in Nat
  BY IdleStep DEF QueueInv, TypeOK
<1>1. SUFFICES Kept(trj', step'.external, executed' = "Normal", sessions' > 1, B, B)
  BY <1>0, Zenon DEF QueueInv, Queued
<1>2. CASE NotOkMessage \/ \E met \in SUBSET goalIds : OkMessage(met)
  <2>1. QueuedNext(A, A) /\ added' = added
    BY <1>0, <1>2, MessageQueue, Zenon
  <2>2. A \subseteq B
    BY <2>1
  <2>3. PICK none : none = {}
    OBVIOUS
  <2>4. none \subseteq B
    BY <2>3
  <2>5. kept(A, A) \/ kept(A, none)
    BY <2>1, <2>3, Zenon DEF QueuedNext
  <2>. HIDE DEF A, B, kept
  <2>. QED
    BY <1>w, <2>2, <2>4, <2>5, Zenon DEF kept
<1>3. ASSUME NEW goal \in TrajectoryGoals, NEW o \in BOOLEAN, addTrajectory(goal, o)
      PROVE  Kept(trj', step'.external, executed' = "Normal", sessions' > 1, B, B)
  <2>1. added' = added + 1
    BY <1>3 DEF addTrajectory
  <2>2. A \subseteq B /\ A \cup {added + 1} \subseteq B /\ \A k \in A \cup A : k \in 0 .. added
    BY <1>0, <2>1
  <2>3. kept(A, A \cup {added + 1}) \/ kept(A \cup {added + 1}, A)
    BY <1>0, <1>3, <2>2, AddTrajectoryQueue, Zenon
  <2>. HIDE DEF A, B, kept
  <2>. QED
    BY <1>w, <2>2, <2>3, Zenon DEF kept
<1>4. CASE Command /\ ~ \E goal \in TrajectoryGoals, o \in BOOLEAN : addTrajectory(goal, o)
  <2>1. added' = added
        /\ Kept(trj', step'.external, executed' = "Normal", sessions' > 1, A, A)
    BY <1>0, <1>4, OtherCommandQueue, Zenon
  <2>. QED
    BY <2>1, Zenon
<1>5. CASE UNCHANGED vars
  <2>1. executed' = executed /\ UNCHANGED <<trj, step, sessions, added>>
    BY <1>5 DEF vars, executed
  <2>. QED
    BY <1>0, <2>1, Zenon DEF Queued
<1>. QED
  BY <1>2, <1>3, <1>4, <1>5, Zenon DEF Next

\* The invariant holds in every execution.
LEMMA QueueInvariant == Spec => []QueueInv
BY TypeCorrect, ManagerInvariant, GoalInvariant, QueueInit, QueueStep, PTL DEF Spec

\* The queue the properties are about.
LEMMA ExecutionQueueInOrder ==
  ASSUME TypeOK, QueueInv
  PROVE  /\ executionQueue \in Seq(Seq(Points))
         /\ InOrder(<<>>, executionQueue, sessions > 1, 0 .. added)
<1>0. /\ trj \in TrajectoryContainers /\ step.external \in Points
      /\ trj.has \in BOOLEAN /\ trj.current \in Seq(Points) /\ trj.primary \in Seq(Seq(Points))
  BY DEF TypeOK, MotionSteps, TrajectoryContainers
<1>1. Kept(trj, step.external, FALSE, sessions > 1, 0 .. added, 0 .. added)
  <2>1. CASE executed = "Normal"
    <3>1. (executed = "Normal") = TRUE
      BY <2>1
    <3>2. Kept(trj, step.external, TRUE, sessions > 1, 0 .. added, 0 .. added)
      BY <3>1, Zenon DEF QueueInv, Queued
    <3>. QED
      BY <1>0, <3>2, KeptWithoutPoint, Zenon
  <2>2. CASE executed # "Normal"
    <3>1. (executed = "Normal") = FALSE
      BY <2>2
    <3>. QED
      BY <3>1, Zenon DEF QueueInv, Queued
  <2>. QED
    BY <2>1, <2>2, Zenon
<1>2. CASE trj.has
  <2>1. executionQueue = <<trj.current>> \o trj.primary
    BY <1>2, Zenon DEF executionQueue
  <2>2. InOrder(trj.current, trj.primary, sessions > 1, 0 .. added)
    BY <1>1, <1>2, Zenon DEF Kept, Front
  <2>3. InOrder(<<>>, <<trj.current>> \o trj.primary, sessions > 1, 0 .. added)
    BY <1>0, <2>2, OrderPushed, Zenon
  <2>4. <<trj.current>> \o trj.primary \in Seq(Seq(Points))
    BY <1>0
  <2>. QED
    BY <2>1, <2>3, <2>4, Zenon
<1>3. CASE ~trj.has
  <2>1. executionQueue = <<>> \o trj.primary
    BY <1>3, Zenon DEF executionQueue
  <2>2. <<>> \o trj.primary = trj.primary
    BY <1>0, ConcatEmptySeq, Zenon
  <2>3. InOrder(<<>>, trj.primary, sessions > 1, 0 .. added)
    BY <1>1, <1>3, Zenon DEF Kept, Front
  <2>. QED
    BY <1>0, <2>1, <2>2, <2>3, Zenon
<1>. QED
  BY <1>2, <1>3

\* What is left of a trajectory is a remainder.
LEMMA LeftIsRemainder ==
  ASSUME NEW q \in Seq(Points), Left(q, sessions > 1)
  PROVE  remainder(q)
BY DEF Left, remainder

\* Of every queued trajectory a tail is left, in the order of its points; only
\* the first of them may be repeated, and only after a session has restarted.
THEOREM TrajectoriesStayIntact == Spec => []TrajectoriesIntact
<1>1. TypeOK /\ GoalInv /\ QueueInv => TrajectoriesIntact
  <2>. SUFFICES ASSUME TypeOK, GoalInv, QueueInv
                PROVE  TrajectoriesIntact
    OBVIOUS
  <2>0. trj \in TrajectoryContainers /\ step.external \in Points
    BY DEF TypeOK, MotionSteps
  <2>1. \A i \in DOMAIN executionQueue : remainder(executionQueue[i])
    <3>1. \A i \in DOMAIN executionQueue : executionQueue[i] \in Seq(Points)
      BY ExecutionQueueInOrder, LenProperties, ElementOfSeq, Zenon
    <3>2. \A i \in DOMAIN executionQueue : Left(executionQueue[i], sessions > 1)
      BY ExecutionQueueInOrder, Zenon DEF InOrder
    <3>. QED
      BY <3>1, <3>2, LeftIsRemainder, Zenon
  <2>2. \A i \in DOMAIN trj.temporary : remainder(trj.temporary[i])
    <3>1. \A i \in DOMAIN trj.temporary : trj.temporary[i] \in Seq(Points)
      BY <2>0, ContainerParts, LenProperties, ElementOfSeq, Zenon
    <3>2. \A i \in DOMAIN trj.temporary : Left(trj.temporary[i], sessions > 1)
      BY Zenon DEF QueueInv, Queued, Kept, InOrder
    <3>. QED
      BY <3>1, <3>2, LeftIsRemainder, Zenon
  <2>3. ASSUME executed = "Normal", active
        PROVE  remainder(<<step.external>> \o trj.current)
    <3>1. trj.has
      BY <2>3 DEF GoalInv, GoalHasTrajectory
    <3>2. Left(<<step.external>> \o trj.current, sessions > 1)
      BY <2>3, <3>1, Zenon DEF QueueInv, Queued, Kept, Front, InOrder
    <3>3. <<step.external>> \o trj.current \in Seq(Points)
      BY <2>0, ContainerParts, InFront, Zenon
    <3>. QED
      BY <3>2, <3>3, LeftIsRemainder, Zenon
  <2>. QED
    BY <2>1, <2>2, <2>3, Zenon DEF TrajectoriesIntact
<1>. QED
  BY <1>1, TypeCorrect, GoalInvariant, QueueInvariant, PTL

-----------------------------------------------------------------------------
(***************************************************************************)
(* The order of execution.  b is the last trajectory that was accepted     *)
(* before the discard that is ordered, if one is.  Of the trajectories     *)
(* that were not stranded, those up to b are in the primary queue, none    *)
(* of them older than the one executed last, and those after b in the      *)
(* temporary one.                                                          *)
(***************************************************************************)
OrderBound(b) ==
  /\ last \in 0 .. b
  /\ b \in 0 .. added
  /\ ~events.do_discard => b = added
  /\ stranded \subseteq 0 .. b
  /\ Queued(stranded \cup (last .. b), stranded \cup (b + 1 .. added))

OrderInv == \E b \in Nat : OrderBound(b)

\* The numbers of a queue behind its front are the front's and larger ones.
LEMMA OrderFrom ==
  ASSUME NEW f, 1 \in DOMAIN f, NEW r, NEW again, NEW N, NEW M, InOrder(f, r, again, N),
         f[1].traj \in M, \A k \in N : f[1].traj < k => k \in M
  PROVE  InOrder(f, r, again, M)
<1>1. Known(f, M)
  BY DEF InOrder, Left, Known
<1>2. \A j \in DOMAIN r : Known(r[j], M)
  BY DEF InOrder, Known, Before
<1>. QED
  BY <1>1, <1>2 DEF InOrder

\* The goal that a message executes is not older than the one before it, unless
\* it was stranded, and the queue is not older than the goal.
LEMMA ExecutionMoves ==
  ASSUME TypeOK', GoalInv', recordExecution, NEW b \in Nat, last \in 0 .. b,
         stranded \subseteq 0 .. b, NEW N, N \subseteq stranded \cup (last .. b), NEW T, NEW again,
         Kept(trj', step'.external, executed' = "Normal", again, N, T)
  PROVE  /\ last' \in 0 .. b
         /\ last' < last => last' \in stranded
         /\ Kept(trj', step'.external, executed' = "Normal", again, stranded \cup (last' .. b), T)
<1>. DEFINE x == step'.external
            f == <<x>> \o trj'.current
            M == stranded \cup (last' .. b)
<1>1. CASE active' /\ executed' = "Normal"
  <2>1. last' = x.traj
    BY <1>1 DEF recordExecution
  <2>2. trj' \in TrajectoryContainers /\ x \in Points /\ trj'.current \in Seq(Points)
    BY DEF TypeOK, MotionSteps, TrajectoryContainers
  <2>3. trj'.has
    BY <1>1 DEF GoalInv, GoalHasTrajectory
  <2>4. Front(trj', x, executed' = "Normal") = f
    BY <1>1, <2>3, Zenon DEF Front
  <2>5. InOrder(f, trj'.primary, again, N) /\ InOrder(<<>>, trj'.temporary, again, T)
    BY <2>4, Zenon DEF Kept
  <2>6. 1 \in DOMAIN f /\ f[1] = x
    <3>1. f \in Seq(Points) /\ Len(f) = Len(trj'.current) + 1 /\ f[1] = x
      BY <2>2, InFront
    <3>2. Len(trj'.current) \in Nat
      BY <2>2, LenProperties, Zenon
    <3>3. DOMAIN f = 1 .. Len(f)
      BY <3>1, LenProperties, Zenon
    <3>. DEFINE n == Len(trj'.current)
    <3>4. n \in Nat /\ DOMAIN f = 1 .. n + 1
      BY <3>1, <3>2, <3>3, Zenon
    <3>. HIDE DEF n, f
    <3>. QED
      BY <3>1, <3>4
  <2>. HIDE DEF f
  <2>7. x.traj \in N
    BY <2>5, <2>6, Zenon DEF InOrder, Known
  <2>8. last' \in 0 .. b /\ (last' < last => last' \in stranded)
    <3>1. CASE last' \in stranded
      BY <3>1
    <3>2. CASE last' \in last .. b
      <4>1. last \in Nat /\ last' \in Int /\ last <= last' /\ last' <= b
        BY <3>2
      <4>. QED
        BY <4>1
    <3>. QED
      BY <2>1, <2>7, <3>1, <3>2, Zenon
  <2>9. x.traj \in M /\ \A k \in N : x.traj < k => k \in M
    BY <2>1, <2>7, <2>8
  <2>. HIDE DEF M
  <2>10. InOrder(f, trj'.primary, again, M)
    BY <2>5, <2>6, <2>9, OrderFrom, Zenon
  <2>11. Kept(trj', x, executed' = "Normal", again, M, T)
    BY <2>4, <2>5, <2>10, Zenon DEF Kept
  <2>. QED
    BY <2>8, <2>11, Zenon DEF M
<1>2. CASE ~(active' /\ executed' = "Normal")
  <2>1. last' = last
    BY <1>2 DEF recordExecution
  <2>2. N \subseteq M /\ T \subseteq T /\ ~(last' < last)
    BY <2>1
  <2>. HIDE DEF M
  <2>3. Kept(trj', x, executed' = "Normal", again, M, T)
    BY <2>2, KeptWidened, Zenon
  <2>. QED
    BY <2>1, <2>2, <2>3, Zenon DEF M
<1>. QED
  BY <1>1, <1>2, Zenon

\* A message.
LEMMA OrderMessage ==
  ASSUME TypeOK, TypeOK', ManagerInv, GoalInv, GoalInv', IdleBefore, NEW b \in Nat, OrderBound(b),
         NotOkMessage \/ \E met \in SUBSET goalIds : OkMessage(met), recordExecution
  PROVE  OrderInv' /\ (last' < last => last' \in stranded)
<1>. DEFINE N == stranded \cup (last .. b)
            T == stranded \cup (b + 1 .. added)
            kept(M, U) == Kept(trj', step'.external, executed' = "Normal", sessions' > 1, M, U)
            next(c) == kept(stranded \cup (last' .. c), stranded \cup (c + 1 .. added))
<1>1. /\ last \in 0 .. b /\ b \in 0 .. added /\ stranded \subseteq 0 .. b
      /\ ~events.do_discard => b = added
      /\ added \in Nat
      /\ events \in PendingEvents
  BY DEF OrderBound, TypeOK
<1>2. QueuedNext(N, T) /\ added' = added
  BY MessageQueue, Zenon DEF OrderBound
<1>3. stranded' = stranded
  BY DEF recordExecution
<1>4. CASE events'.do_discard = events.do_discard /\ kept(N, T)
  <2>1. /\ last' \in 0 .. b
        /\ last' < last => last' \in stranded
        /\ next(b)
    <3>1. N \subseteq stranded \cup (last .. b)
      OBVIOUS
    <3>. QED
      BY <1>1, <1>4, <3>1, ExecutionMoves, Zenon
  <2>. HIDE DEF N, T
  <2>2. OrderBound(b)'
    BY <1>1, <1>2, <1>3, <1>4, <2>1, Zenon DEF OrderBound, Queued
  <2>. QED
    BY <2>1, <2>2, Zenon DEF OrderInv
<1>5. CASE events'.do_discard = FALSE /\ kept(T, {})
  <2>1. /\ last \in 0 .. added /\ stranded \subseteq 0 .. added
        /\ T \subseteq stranded \cup (last .. added)
    BY <1>1
  <2>2. /\ last' \in 0 .. added
        /\ last' < last => last' \in stranded
        /\ kept(stranded \cup (last' .. added), {})
    BY <1>1, <1>5, <2>1, ExecutionMoves, Zenon
  <2>3. next(added)
    <3>. DEFINE M == stranded \cup (last' .. added)
                U == stranded \cup (added + 1 .. added)
    <3>1. PICK none : none = {}
      OBVIOUS
    <3>2. none \subseteq U /\ M \subseteq M /\ kept(M, none)
      BY <2>2, <3>1
    <3>. HIDE DEF M, U
    <3>3. kept(M, U)
      BY <3>2, KeptWidened, Zenon
    <3>. QED
      BY <3>3, Zenon DEF M, U
  <2>4. added \in 0 .. added
    BY <1>1
  <2>. HIDE DEF N, T
  <2>5. PICK c \in Nat : c = added
    BY <1>1
  <2>6. OrderBound(c)'
    BY <1>2, <1>3, <1>5, <2>1, <2>2, <2>3, <2>4, <2>5, Zenon DEF OrderBound, Queued
  <2>. QED
    BY <2>2, <2>6, Zenon DEF OrderInv
<1>. QED
  BY <1>2, <1>4, <1>5, Zenon DEF QueuedNext

\* A trajectory is added: behind b if a discard is ordered, up to b otherwise.
LEMMA OrderAdd ==
  ASSUME TypeOK, NEW b \in Nat, OrderBound(b), NEW goal \in TrajectoryGoals, NEW o \in BOOLEAN,
         addTrajectory(goal, o), recordWithdrawal
  PROVE  OrderInv'
<1>. DEFINE N == stranded \cup (last .. b)
            T == stranded \cup (b + 1 .. added)
            kept(M, U) == Kept(trj', step'.external, executed' = "Normal", sessions' > 1, M, U)
<1>1. /\ last \in 0 .. b /\ b \in 0 .. added /\ stranded \subseteq 0 .. b
      /\ ~events.do_discard => b = added
      /\ added \in Nat
      /\ Queued(N, T)
  BY DEF OrderBound, TypeOK
<1>2. added' = added + 1 /\ last' = last
  BY DEF addTrajectory, recordWithdrawal
<1>3. \/ events'.do_discard = TRUE /\ kept(N, T \cup {added + 1})
      \/ /\ events'.do_discard = FALSE /\ events.do_discard = FALSE
         /\ kept(N \cup {added + 1}, T)
  <2>1. \A k \in N \cup T : k \in 0 .. added
    BY <1>1
  <2>. HIDE DEF N, T
  <2>. QED
    BY <1>1, <2>1, AddTrajectoryQueue, Zenon
<1>4. stranded' = stranded
  BY <1>3, Zenon DEF recordWithdrawal
<1>5. CASE events'.do_discard = TRUE /\ kept(N, T \cup {added + 1})
  <2>1. b \in 0 .. added' /\ T \cup {added + 1} = stranded \cup (b + 1 .. added')
    BY <1>1, <1>2
  <2>2. kept(stranded \cup (last .. b), stranded \cup (b + 1 .. added'))
    BY <1>5, <2>1, Zenon
  <2>3. OrderBound(b)'
    BY <1>1, <1>2, <1>4, <1>5, <2>1, <2>2, Zenon DEF OrderBound, Queued
  <2>. QED
    BY <2>3, Zenon DEF OrderInv
<1>6. CASE events'.do_discard = FALSE /\ events.do_discard = FALSE /\ kept(N \cup {added + 1}, T)
  <2>1. b = added
    BY <1>1, <1>6
  <2>2. PICK c \in Nat : c = added'
    BY <1>1, <1>2
  <2>3. /\ last \in 0 .. c /\ c \in 0 .. added' /\ stranded \subseteq 0 .. c
        /\ N \cup {added + 1} = stranded \cup (last .. c)
        /\ T = stranded \cup (c + 1 .. added')
    BY <1>1, <1>2, <2>1, <2>2
  <2>4. kept(stranded \cup (last .. c), stranded \cup (c + 1 .. added'))
    BY <1>6, <2>3, Zenon
  <2>5. OrderBound(c)'
    BY <1>2, <1>4, <2>2, <2>3, <2>4, Zenon DEF OrderBound, Queued
  <2>. QED
    BY <2>5, Zenon DEF OrderInv
<1>. QED
  BY <1>3, <1>5, <1>6, Zenon

\* The trajectories of a queue are among the numbers in it.
LEMMA OrderOfNumbers ==
  ASSUME NEW r, NEW again, NEW N, InOrder(<<>>, r, again, N)
  PROVE  InOrder(<<>>, r, again, numbersIn(r)) /\ numbersIn(r) \subseteq N
<1>1. \A j \in DOMAIN r : Known(r[j], numbersIn(r))
  BY DEF Known, numbersIn
<1>2. numbersIn(r) \subseteq N
  BY DEF InOrder, Known, numbersIn
<1>. QED
  BY <1>1, <1>2, NothingLeft DEF InOrder

\* Another command.  One that withdraws the discard strands what waited for it.
LEMMA OrderCommand ==
  ASSUME TypeOK, TypeOK', NEW b \in Nat, OrderBound(b), Command, recordWithdrawal,
         ~ \E goal \in TrajectoryGoals, o \in BOOLEAN : addTrajectory(goal, o)
  PROVE  OrderInv'
<1>. DEFINE N == stranded \cup (last .. b)
            T == stranded \cup (b + 1 .. added)
            S == numbersIn(trj.temporary)
            kept(M, U) == Kept(trj', step'.external, executed' = "Normal", sessions' > 1, M, U)
<1>1. /\ last \in 0 .. b /\ b \in 0 .. added /\ stranded \subseteq 0 .. b
      /\ ~events.do_discard => b = added
      /\ added \in Nat
      /\ Queued(N, T)
  BY DEF OrderBound, TypeOK
<1>2. kept(N, T) /\ added' = added /\ trj' = trj
  BY <1>1, OtherCommandQueue, Zenon
<1>3. last' = last
  BY DEF recordWithdrawal
<1>4. CASE events.do_discard /\ ~events'.do_discard
  <2>1. stranded' = stranded \cup S
    BY <1>4, Zenon DEF recordWithdrawal
  <2>2. /\ InOrder(<<>>, trj'.temporary, sessions' > 1, S)
        /\ S \subseteq T
    BY <1>2, OrderOfNumbers, Zenon DEF Kept
  <2>3. kept(N, S)
    BY <1>2, <2>2, Zenon DEF Kept
  <2>4. PICK c \in Nat : c = added
    BY <1>1
  <2>5. S \subseteq 0 .. c /\ stranded \subseteq 0 .. c /\ last \in 0 .. c /\ c \in 0 .. added
    <3>. HIDE DEF S
    <3>. QED
      BY <1>1, <2>2, <2>4
  <2>6. /\ N \subseteq (stranded \cup S) \cup (last .. c)
        /\ S \subseteq (stranded \cup S) \cup (c + 1 .. added)
    <3>. HIDE DEF S
    <3>. QED
      BY <1>1, <2>4
  <2>. HIDE DEF N, T, S
  <2>7. kept((stranded \cup S) \cup (last .. c), (stranded \cup S) \cup (c + 1 .. added))
    BY <2>3, <2>6, KeptWidened, Zenon
  <2>8. stranded' \subseteq 0 .. c
    BY <2>1, <2>5
  <2>9. OrderBound(c)'
    BY <1>2, <1>3, <2>1, <2>4, <2>5, <2>7, <2>8, Zenon DEF OrderBound, Queued
  <2>. QED
    BY <2>9, Zenon DEF OrderInv
<1>5. CASE ~(events.do_discard /\ ~events'.do_discard)
  <2>1. stranded' = stranded
    BY <1>5, Zenon DEF recordWithdrawal
  <2>2. ~events'.do_discard => b = added
    BY <1>1, <1>5, Zenon
  <2>3. OrderBound(b)'
    BY <1>1, <1>2, <1>3, <2>1, <2>2, Zenon DEF OrderBound, Queued
  <2>. QED
    BY <2>3, Zenon DEF OrderInv
<1>. QED
  BY <1>4, <1>5, Zenon

\* The history only observes: without it, a step is one of the interface.
LEMMA HistoryImplements == HistorySpec => Spec
<1>1. HistoryInit => Init
  BY DEF HistoryInit
<1>2. [HistoryNext]_historyVars => [Next]_vars
  <2>1. HistoryNext => Next
    BY Zenon DEF HistoryNext, HistoryOkMessage, Next
  <2>2. UNCHANGED historyVars => UNCHANGED vars
    BY DEF historyVars
  <2>. QED
    BY <2>1, <2>2
<1>. QED
  BY <1>1, <1>2, PTL DEF HistorySpec, Spec

\* Nothing is queued at first.
LEMMA OrderInit == HistoryInit => OrderInv
<1>. SUFFICES ASSUME HistoryInit PROVE OrderInv
  OBVIOUS
<1>1. ~trj.has /\ trj.primary = <<>> /\ trj.temporary = <<>> /\ added = 0 /\ last = 0 /\ stranded = {}
  BY DEF HistoryInit, Init
<1>2. \A N, T : Queued(N, T)
  BY <1>1, OrderEmpty, Zenon DEF Queued, Kept, Front
<1>3. OrderBound(0)
  BY <1>1, <1>2 DEF OrderBound
<1>. QED
  BY <1>3 DEF OrderInv

\* One step: it keeps the order, and executes in order.
LEMMA OrderStep ==
  ASSUME TypeOK, TypeOK', ManagerInv, GoalInv, GoalInv', QueueInv, OrderInv,
         [HistoryNext]_historyVars
  PROVE  OrderInv' /\ (last' < last => last' \in stranded)
<1>0. IdleBefore
  BY DEF QueueInv
<1>1. PICK b \in Nat : OrderBound(b)
  BY DEF OrderInv
<1>2. last \in Int
  BY <1>1 DEF OrderBound
<1>3. CASE NotOkMessage /\ recordExecution
  BY <1>0, <1>1, <1>3, OrderMessage, Zenon
<1>4. CASE \E met \in SUBSET goalIds : HistoryOkMessage(met)
  BY <1>0, <1>1, <1>4, OrderMessage, Zenon DEF HistoryOkMessage
<1>5. CASE Command /\ recordWithdrawal
  <2>1. OrderInv'
    BY <1>1, <1>5, OrderAdd, OrderCommand, Zenon
  <2>2. last' = last
    BY <1>5 DEF recordWithdrawal
  <2>. QED
    BY <1>2, <2>1, <2>2
<1>6. CASE UNCHANGED historyVars
  <2>1. UNCHANGED <<mgr, trj, step, sessions, added, events, last, stranded>>
    BY <1>6 DEF historyVars, vars
  <2>2. OrderInv' = OrderInv
    BY <2>1 DEF OrderInv, OrderBound, Queued, executed
  <2>. QED
    BY <1>2, <2>1, <2>2
<1>. QED
  BY <1>3, <1>4, <1>5, <1>6, Zenon DEF HistoryNext

\* Trajectories are executed in the order of their acceptance, except those that
\* were left behind by a discard that was withdrawn.
THEOREM TrajectoriesInOrder == HistorySpec => ExecutionOrder
<1>1. TypeOK /\ TypeOK' /\ ManagerInv /\ GoalInv /\ GoalInv' /\ QueueInv /\ OrderInv
        /\ [HistoryNext]_historyVars
      => OrderInv' /\ [last' < last => last' \in stranded]_historyVars
  BY OrderStep, Zenon
<1>. QED
  BY <1>1, HistoryImplements, TypeCorrect, ManagerInvariant, GoalInvariant, QueueInvariant, OrderInit,
     PTL DEF HistorySpec, ExecutionOrder
=============================================================================
