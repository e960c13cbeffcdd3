------------------------------ MODULE Geometry ------------------------------
(***************************************************************************)
(* Positions, quaternions and transforms (3DPosition.cpp), on the points   *)
(* where the arithmetic of the code is exact: integer co-ordinates, angles *)
(* in quarter turns, and quaternions given by their halves, of which the   *)
(* unit ones are the rotations by 120 and 180 degrees.                     *)
(*                                                                         *)
(* pos is <<x, y, z>>, or <<az, el, d>> if polar, as in the union.         *)
(***************************************************************************)
EXTENDS Integers

Cartesian(x, y, z) == [polar |-> FALSE, pos |-> <<x, y, z>>]
PolarAt(az, el, d) == [polar |-> TRUE, pos |-> <<az, el, d>>]
Origin == Cartesian(0, 0, 0)

Sin(a) == CASE a % 4 = 1 -> 1 [] a % 4 = 3 -> -1 [] OTHER -> 0
Cos(a) == Sin(a + 1)
Abs(n) == IF n < 0 THEN -n ELSE n
Sign(n) == IF n < 0 THEN -1 ELSE IF n = 0 THEN 0 ELSE 1

\* Truncating division, as in C.
Quotient(a, b) == Sign(a) * Sign(b) * (Abs(a) \div Abs(b))

Cart(p) ==
  LET az == p.pos[1]  el == p.pos[2]  d == p.pos[3]
  IN  IF ~p.polar THEN p ELSE Cartesian(-d * Sin(az) * Cos(el), d * Cos(az) * Cos(el), d * Sin(el))

\* A point on an axis.
OnAxis(p) == p.polar \/ \E i \in 1 .. 3 : \A j \in (1 .. 3) \ {i} : p.pos[j] = 0

\* Polar(), of a point on an axis: the distance is |x| + |y| + |z|, atan2()
\* and asin() give multiples of a quarter turn, and the origin has no angles.
Polar(p) ==
  LET x == p.pos[1]  y == p.pos[2]  z == p.pos[3]
      az == CASE x < 0 -> 1 [] x > 0 -> -1 [] x = 0 /\ y < 0 -> 2 [] OTHER -> 0
  IN  IF p.polar THEN p ELSE PolarAt(az, Sign(z), Abs(x) + Abs(y) + Abs(z))

\* LimitAngles(): azimuth within [0, 360), elevation within [-90, 90).
LimitAngles(p) ==
  LET el == Sign(p.pos[2]) * (Abs(p.pos[2]) % 2)
  IN  PolarAt(p.pos[1] % 4, IF el >= 1 THEN el - 2 ELSE el, p.pos[3])

\* The object stays in the co-ordinates it is in.
InCoordinatesOf(p, q) == IF p.polar THEN Polar(q) ELSE q

Plus(p, q) == InCoordinatesOf(p, Cartesian(Cart(p).pos[1] + Cart(q).pos[1],
                                           Cart(p).pos[2] + Cart(q).pos[2],
                                           Cart(p).pos[3] + Cart(q).pos[3]))
Minus(p, q) == InCoordinatesOf(p, Cartesian(Cart(p).pos[1] - Cart(q).pos[1],
                                            Cart(p).pos[2] - Cart(q).pos[2],
                                            Cart(p).pos[3] - Cart(q).pos[3]))

Scaled(p, val) ==
  IF p.polar THEN PolarAt(p.pos[1], p.pos[2], p.pos[3] * val)
             ELSE Cartesian(p.pos[1] * val, p.pos[2] * val, p.pos[3] * val)

\* operator -: the azimuth turns by 180 degrees, back from 180 on.
Negated(p) ==
  IF p.polar THEN PolarAt(IF p.pos[1] + 2 >= 2 THEN p.pos[1] - 2 ELSE p.pos[1] + 2, -p.pos[2], p.pos[3])
             ELSE Cartesian(-p.pos[1], -p.pos[2], -p.pos[3])

DotProduct(p, q) ==
  Cart(p).pos[1] * Cart(q).pos[1] + Cart(p).pos[2] * Cart(q).pos[2] + Cart(p).pos[3] * Cart(q).pos[3]

\* CrossProduct(): of what the union holds, Cartesian or not.
CrossProduct(p, q) ==
  LET a == p.pos  b == q.pos
  IN  Cartesian(a[2] * b[3] - b[2] * a[3], -(a[1] * b[3] - b[1] * a[3]), a[1] * b[2] - b[1] * a[2])

\* operator ==: equal in one of the co-ordinates.
SamePlace(p, q) == Cart(p).pos = Cart(q).pos \/ (OnAxis(p) /\ OnAxis(q) /\ Polar(p).pos = Polar(q).pos)

-----------------------------------------------------------------------------
(* Quaternions, in halves.                                                 *)

Quat(w, x, y, z) == [w |-> w, x |-> x, y |-> y, z |-> z]
Identity == Quat(2, 0, 0, 0)

\* SetFromAngleAxis() where it is exact: turns by 180 degrees, about axes of
\* length 1 or 2, and by 120 and 240, about axes of squared length 3.
AngleAxis(angle, axis) ==
  LET v == Cart(axis).pos
      norm == DotProduct(axis, axis)
      w == CASE angle = 0 -> 2 [] angle = 120 -> 1 [] angle = 180 -> 0 [] OTHER -> -1
      s == CASE norm = 0 \/ angle = 0 -> 0 [] norm = 1 -> 2 [] OTHER -> 1
  IN  Quat(w, s * v[1], s * v[2], s * v[3])

OfPosition(p) == Quat(0, 2 * Cart(p).pos[1], 2 * Cart(p).pos[2], 2 * Cart(p).pos[3])

\* Mutation: a sign of the product.
TimesSwapped(a, b) ==
  Quat((a.w * b.w - a.x * b.x - a.y * b.y - a.z * b.z) \div 2,
       (a.w * b.x + a.x * b.w + a.y * b.z - a.z * b.y) \div 2,
       (a.w * b.y + a.x * b.z + a.y * b.w + a.z * b.x) \div 2,
       (a.w * b.z + a.x * b.y - a.y * b.x + a.z * b.w) \div 2)

Times(a, b) ==
  Quat((a.w * b.w - a.x * b.x - a.y * b.y - a.z * b.z) \div 2,
       (a.w * b.x + a.x * b.w + a.y * b.z - a.z * b.y) \div 2,
       (a.w * b.y - a.x * b.z + a.y * b.w + a.z * b.x) \div 2,
       (a.w * b.z + a.x * b.y - a.y * b.x + a.z * b.w) \div 2)

Invert(q) == Quat(q.w, -q.x, -q.y, -q.z)
Opposite(q) == Quat(-q.w, -q.x, -q.y, -q.z)
Divided(a, b) == Times(a, Invert(b))
ScalarProduct(a, b) == a.w * b.w + a.x * b.x + a.y * b.y + a.z * b.z

\* GetAxis(): a position, never polar.
Axis(q) == Cartesian(Quotient(q.x, 2), Quotient(q.y, 2), Quotient(q.z, 2))

Rotated(p, q) == Axis(Times(Times(q, OfPosition(p)), Invert(q)))
Unrotated(p, q) == Axis(Times(Times(Invert(q), OfPosition(p)), q))

-----------------------------------------------------------------------------
(* Transforms.                                                             *)

Transform(pre, rotation, post) == [pre |-> pre, rotation |-> rotation, post |-> post]

AddTransform(a, b) ==
  Transform(Plus(a.pre, b.pre), Times(a.rotation, b.rotation), Plus(a.post, b.post))
SubTransform(a, b) ==
  Transform(Minus(a.pre, b.pre), Divided(a.rotation, b.rotation), Minus(a.post, b.post))
NegateTransform(a) == Transform(Negated(a.pre), Invert(a.rotation), Negated(a.post))

ApplyTransform(p, a) == InCoordinatesOf(p, Plus(Rotated(Plus(Cart(p), a.pre), a.rotation), a.post))
RemoveTransform(p, a) == InCoordinatesOf(p, Minus(Unrotated(Minus(Cart(p), a.post), a.rotation), a.pre))

\* ScreenTransform, of a position that is not polar: dist / (dist - z) is the
\* scale, 1 at the distance of the screen.
Scale(screen, z) ==
  IF z = screen.dist THEN [num |-> 1, den |-> 1] ELSE [num |-> screen.dist, den |-> screen.dist - z]

ApplyScreen(p, screen) ==
  LET m == Scale(screen, p.pos[3])
  IN  Cartesian(screen.cx + Quotient(screen.sx * m.num * p.pos[1], m.den),
                screen.cy + Quotient(screen.sy * m.num * p.pos[2], m.den), p.pos[3])
RemoveScreen(p, screen) ==
  LET m == Scale(screen, p.pos[3])
  IN  Cartesian(Quotient((p.pos[1] - screen.cx) * m.den, screen.sx * m.num),
                Quotient((p.pos[2] - screen.cy) * m.den, screen.sy * m.num), p.pos[3])

-----------------------------------------------------------------------------
(* Laws.  The rotations are unit quaternions.                              *)

\* Rotations can be undone, keep lengths and orientation, and of a product
\* the second factor rotates first.
RotationLaw(p, r, a, b) ==
  /\ Unrotated(Rotated(p, a), a) = Cart(p) /\ Rotated(Unrotated(p, a), a) = Cart(p)
  /\ Rotated(p, Times(a, b)) = Rotated(Rotated(p, b), a)
  /\ DotProduct(Rotated(p, a), Rotated(r, a)) = DotProduct(p, r)
  /\ CrossProduct(Rotated(p, a), Rotated(r, a)) = Rotated(CrossProduct(Cart(p), Cart(r)), a)
  /\ Divided(Times(a, b), b) = a
  /\ ScalarProduct(Times(a, b), Times(a, b)) = 4

\* A transform can be removed again, from a position or from another
\* transform.  For polar positions: where the result is on an axis, too.
TransformLaw(p, a, b) ==
  /\ LET moved == ApplyTransform(Cart(p), a)
     IN  /\ RemoveTransform(moved, a) = Cart(p)
         /\ p.polar /\ OnAxis(moved) =>
              /\ ApplyTransform(p, a).polar /\ SamePlace(ApplyTransform(p, a), moved)
              /\ SamePlace(RemoveTransform(ApplyTransform(p, a), a), p)
  /\ SubTransform(AddTransform(a, b), b) = a /\ AddTransform(SubTransform(a, b), b) = a
  /\ NegateTransform(NegateTransform(a)) = a

\* Screen transforms can be removed, unless the scale is zero.
ScreenLaw(p, screen) ==
  LET m == Scale(screen, p.pos[3])
      exact == \A i \in {1, 2} : (m.num * p.pos[i]) % Abs(m.den) = 0
  IN  exact /\ m.num * screen.sx * screen.sy # 0 => RemoveScreen(ApplyScreen(p, screen), screen) = p

\* The two kinds of co-ordinates agree on places, opposites and multiples;
\* limiting the angles keeps the place unless the elevation was outside.
CoordinatesLaw(p, val) ==
  /\ OnAxis(p) => Cart(Polar(p)) = Cart(p) /\ SamePlace(Polar(p), p)
  /\ Cart(Negated(p)) = Negated(Cart(p)) /\ SamePlace(Negated(Negated(p)), p)
  /\ Cart(Scaled(p, val)) = Scaled(Cart(p), val)
  /\ p.polar =>
       /\ LimitAngles(p).pos[1] \in 0 .. 3 /\ LimitAngles(p).pos[2] \in -1 .. 0
       /\ p.pos[2] \in -1 .. 0 => SamePlace(LimitAngles(p), p)

=============================================================================
