------------------------------ MODULE Measures ------------------------------
(***************************************************************************)
(* Lengths, angles and interpolation (3DPosition.cpp), level and delay     *)
(* (DistanceModel.cpp), on the points where they are exact: positions on   *)
(* an axis, quaternions in halves, distances that the speed of sound       *)
(* divides.                                                                *)
(***************************************************************************)
EXTENDS Geometry, Inputs

CONSTANTS Points, Probes, Rotations, Transforms, Screens

\* Distances are not negative, rotations are unit quaternions, and transforms
\* move by vectors: polar ones would have to stay on an axis.
Positions == [polar : BOOLEAN, pos : Int \X Int \X Int]
Places == {p \in Positions : p.polar => p.pos[3] >= 0}
Vectors == {p \in Places : ~p.polar}
Units == {q \in [w : Int, x : Int, y : Int, z : Int] : ScalarProduct(q, q) = 4}
Moves == [pre : Vectors, rotation : Units, post : Vectors]

ASSUME PointsAssumption == Points \subseteq Places /\ Probes \subseteq Places
ASSUME RotationsAssumption == Rotations \subseteq Units /\ Transforms \subseteq Moves
ASSUME ScreensAssumption == Screens \subseteq [cx : Int, cy : Int, sx : Int, sy : Int, dist : Int]

\* Mod(), Unit(): of a position on an axis.
Mod(p) == Polar(p).pos[3]

Unit(p) ==
  IF Mod(p) = 0 THEN p
  ELSE IF p.polar THEN PolarAt(p.pos[1], p.pos[2], 1)
  ELSE Cartesian(Quotient(p.pos[1], Mod(p)), Quotient(p.pos[2], Mod(p)), Quotient(p.pos[3], Mod(p)))

\* Angle(): in quarter turns, acos() of the product of the unit vectors.
Angle(p, q) == 1 - DotProduct(Unit(p), Unit(q))

\* operator *=, by a vector and by a matrix.
ScaledBy(p, vals) ==
  InCoordinatesOf(p, Cartesian(Cart(p).pos[1] * vals[1], Cart(p).pos[2] * vals[2], Cart(p).pos[3] * vals[3]))

MappedBy(p, vals) ==
  LET Row(i) == Cart(p).pos[1] * vals[i][1] + Cart(p).pos[2] * vals[i][2] + Cart(p).pos[3] * vals[i][3]
  IN  InCoordinatesOf(p, Cartesian(Row(1), Row(2), Row(3)))

\* Sums and multiples of quaternions.
QuatSum(a, b) == Quat(a.w + b.w, a.x + b.x, a.y + b.y, a.z + b.z)
QuatDifference(a, b) == Quat(a.w - b.w, a.x - b.x, a.y - b.y, a.z - b.z)
QuatTimes(a, val) == Quat(a.w * val, a.x * val, a.y * val, a.z * val)
QuatOver(a, val) == Quat(Quotient(a.w, val), Quotient(a.x, val), Quotient(a.y, val), Quotient(a.z, val))

\* Normalised(), where the norm (in halves) is a whole number.
Norm(q) == CHOOSE n \in 0 .. ScalarProduct(q, q) : n * n = ScalarProduct(q, q)
Normalised(q) == QuatOver(QuatTimes(q, 2), Norm(q))

\* GetAngle() in degrees, 360 / pi * acos(w); GetAxis() in halves, as
\* SetFromAngleAxis() does not mind its length.
AngleOf(q) == CASE q.w = 2 -> 0 [] q.w = 1 -> 120 [] q.w = 0 -> 180 [] q.w = -1 -> 240 [] OTHER -> 360
Direction(q) == Cartesian(q.x, q.y, q.z)

\* Lerp(), t in halves.
Lerp(a, b, t) == QuatOver(QuatSum(QuatTimes(a, 2 - t), QuatTimes(b, t)), 2)

\* Mutation: neither quaternion is negated.
SlerpLonger(a, b, t) == IF Abs(ScalarProduct(a, b)) = 4 THEN Lerp(a, b, t) ELSE IF t = 0 THEN a ELSE b

\* Slerp(), at both ends, and between quaternions of the same rotation.  The
\* branch for small angles goes back to the quaternion that was not negated.
Slerp(a, b, t) ==
  LET dot == ScalarProduct(a, b)
  IN  IF Abs(dot) = 4 THEN Lerp(a, b, t)
      ELSE IF t = 0 THEN a
      ELSE IF dot < 0 THEN Opposite(b) ELSE b

-----------------------------------------------------------------------------
(* DistanceModel.                                                          *)

\* GetLevel(): pow(decaypower, -d), as the number it is one over; 0 stands
\* for a level without bound.
LevelOver(decaypower, p) ==
  LET power[n \in Nat] == IF n = 0 THEN 1 ELSE decaypower * power[n - 1]
  IN  power[Polar(p).pos[3]]

\* GetDelay().
Delay(speedofsound, p, delayscale) ==
  IF speedofsound > 0 THEN Quotient(delayscale * Polar(p).pos[3], speedofsound) ELSE 0

-----------------------------------------------------------------------------
(* Laws.  The rotations are unit quaternions.                              *)

Axes == <<Cartesian(1, 0, 0), Cartesian(0, 1, 0), Cartesian(0, 0, 1)>>
Matrix(q) == [i \in 1 .. 3 |-> [j \in 1 .. 3 |-> Rotated(Axes[j], q).pos[i]]]

\* Lengths and angles, in either co-ordinates, agree with the products of the
\* vectors and are kept by rotations; the matrix of a rotation does what the
\* quaternion does.
MeasureLaw(p, r, a, b) ==
  /\ OnAxis(p) =>
       /\ Mod(p) = Mod(Cart(p)) /\ Mod(p) * Mod(p) = DotProduct(p, p)
       /\ SamePlace(Scaled(Unit(p), Mod(p)), p)
       /\ Mod(p) # 0 => Angle(p, p) = 0 /\ Angle(p, Negated(p)) = 2
       /\ Mod(Rotated(p, a)) = Mod(p)
  /\ OnAxis(Cart(p)) /\ OnAxis(Cart(r)) =>
       /\ Angle(p, r) = Angle(r, p)
       /\ Angle(Rotated(p, a), Rotated(r, a)) = Angle(p, r)
       /\ Mod(p) * Mod(r) # 0 => Angle(Negated(p), r) = 2 - Angle(p, r)
  /\ Cart(MappedBy(Cart(p), Matrix(a))) = Rotated(p, a)
  /\ MappedBy(MappedBy(Cart(p), Matrix(b)), Matrix(a)) = MappedBy(Cart(p), Matrix(Times(a, b)))
  /\ ScaledBy(ScaledBy(Cart(p), <<1, -1, 2>>), <<2, 2, 1>>) = MappedBy(Cart(p), <<<<2, 0, 0>>, <<0, -2, 0>>, <<0, 0, 2>>>>)

\* A rotation is its angle and axis, where the angle is in the range that
\* GetAngle() gives, and stays one when a multiple of its quaternion is
\* normalised; Slerp() starts at its first rotation, ends at its last, and takes
\* the shorter path, but for the branch for small angles (section 7 of README).
QuaternionLaw(a, b) ==
  /\ a.w >= 0 => AngleAxis(AngleOf(a), Direction(a)) = a
  /\ QuatDifference(QuatSum(a, b), b) = a /\ QuatOver(QuatTimes(a, 3), 3) = a
  /\ Normalised(QuatTimes(a, 3)) = a /\ Normalised(QuatTimes(a, -2)) = Opposite(a)
  /\ \A t \in {0, 2} : Slerp(a, b, t) \in (IF t = 0 THEN {a} ELSE {b, Opposite(b)})
  /\ b # Opposite(a) => ScalarProduct(a, Slerp(a, b, 2)) >= 0
  /\ Slerp(a, a, 1) = a

\* The level is the same in both co-ordinates, the delay is proportional to the
\* distance, and there is none without a speed of sound.
DistanceLaw(p, val) ==
  OnAxis(p) =>
    /\ LevelOver(val, Cart(p)) = LevelOver(val, p)
    /\ Delay(val, p, 2 * val) = IF val > 0 THEN 2 * Mod(p) ELSE 0

-----------------------------------------------------------------------------
(* The inputs, and the property.                                           *)

GeometryInput ==
  \/ \E p \in Points, r \in Probes, a \in Rotations, b \in Rotations :
       input' = [kind |-> "rotation", p |-> p, r |-> r, a |-> a, b |-> b]
  \/ \E p \in Points, a \in Transforms, b \in Transforms :
       input' = [kind |-> "transform", p |-> p, a |-> a, b |-> b]
  \/ \E p \in Points, screen \in Screens :
       ~p.polar /\ input' = [kind |-> "screen", p |-> p, screen |-> screen]
  \/ \E p \in Points, val \in -1 .. 2 : input' = [kind |-> "point", p |-> p, val |-> val]

GeometrySpec == NoInput /\ [][GeometryInput]_input

\* Rotations and transforms can be undone and chained, lengths and angles are
\* kept and the distance model follows them (3DPosition.cpp, DistanceModel.cpp),
\* whatever co-ordinates a position is in.
GeometryIsReversible ==
  /\ Is("rotation") => RotationLaw(input.p, input.r, input.a, input.b) /\ MeasureLaw(input.p, input.r, input.a, input.b)
  /\ Is("rotation") => QuaternionLaw(input.a, input.b)
  /\ Is("transform") => TransformLaw(input.p, input.a, input.b)
  /\ Is("screen") => ScreenLaw(input.p, input.screen)
  /\ Is("point") => CoordinatesLaw(input.p, input.val) /\ DistanceLaw(input.p, input.val)

-----------------------------------------------------------------------------
(* What the comments say.                                                  *)

\* "returns a value in the range 0 - 180 degrees" (3DPosition.h:382).  The code
\* gives the angle up to 360 degrees, where the real part is negative.
AnglesAreDocumented == Is("rotation") => AngleOf(input.a) \in 0 .. 180

\* "we can negate one (still represents the same rotation) but slerp will take
\* the shorter path" (3DPosition.cpp:457).  In the branch for small angles the
\* code goes on with the quaternion that it has not negated.
ShorterPathIsTaken == Is("rotation") => ScalarProduct(input.a, Slerp(input.a, input.b, 2)) >= 0

\* "decay power due to distance (==2 for inverse square law, set to 0 for no
\* decay)" (DistanceModel.h:23): at twice the distance the level is a quarter.
\* The code takes the distance for the exponent, not for the base.
LevelsAreDocumented ==
  Is("point") /\ OnAxis(input.p) =>
    LevelOver(2, Scaled(input.p, 2)) = 4 * LevelOver(2, input.p) /\ LevelOver(0, input.p) = 1

=============================================================================
