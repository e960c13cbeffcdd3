-------------------------- MODULE StoredGeometry --------------------------
(***************************************************************************)
(* Positions and quaternions (3DPosition.cpp) in parameters and in JSON.   *)
(***************************************************************************)
EXTENDS Geometry, ParameterSet, JSONValues

\* A value is the list of one number; in degrees an angle is Degrees times
\* what it is in radians.
Degrees == 7

WithPart(name, parts, values) ==
  [n \in {Append(name, part) : part \in ToSet(parts)} |->
     <<values[CHOOSE i \in DOMAIN parts : parts[i] = n[Len(n)]]>>]

\* Position::SetParameters().
SetPosition(ps, name, p, radians) ==
  LET scale == IF radians THEN 1 ELSE Degrees
  IN  IF p.polar
        THEN WithPart(name, <<"polar", "az", "el", "d">>,
                      <<1, scale * p.pos[1], scale * p.pos[2], p.pos[3]>>)
             @@ (IF radians THEN SetValue(ps, Append(name, "radians"), <<1>>)
                            ELSE Delete(ps, Append(name, "radians")))
        ELSE WithPart(name, <<"polar", "x", "y", "z">>, <<0>> \o p.pos)
             @@ Delete(ps, Append(name, "radians"))

\* The values of these parameters up to the first that is missing, then the old.
ReadInTurn(sub, parts, old) ==
  [i \in DOMAIN parts |-> IF \A j \in 1 .. i : Exists(sub, <<parts[j]>>) THEN Raw(sub, <<parts[i]>>, <<0>>)[1] ELSE old[i]]

\* Position::GetFromParameters() into a position: it is not left as it was if
\* a value is missing.
GetPosition(ps, name, old) ==
  LET sub == SubParameters(ps, name)
      Flag(part) == Raw(sub, <<part>>, <<0>>)[1] # 0
      parts == IF Flag("polar") THEN <<"az", "el", "d">> ELSE <<"x", "y", "z">>
      found == \A i \in 1 .. 3 : Exists(sub, <<parts[i]>>)
      values == ReadInTurn(sub, parts, old.pos)
      turns == IF found /\ Flag("polar") /\ ~Flag("radians")
                 THEN <<Quotient(values[1], Degrees), Quotient(values[2], Degrees), values[3]>> ELSE values
  IN  [found |-> found, value |-> [polar |-> Flag("polar"), pos |-> turns]]

\* Quaternion::SetParameters(), GetFromParameters(): an angle and an axis are
\* looked for first.
SetRotation(ps, name, q) == WithPart(name, <<"w", "x", "y", "z">>, <<q.w, q.x, q.y, q.z>>) @@ ps

GetRotation(ps, name, old) ==
  LET sub == SubParameters(ps, name)
      Number(part) == Raw(sub, <<part>>, <<0>>)[1]
      Has(part) == Exists(sub, <<part>>)
      xyz == IF Has("angle") \/ Has("w") THEN ReadInTurn(sub, <<"x", "y", "z">>, <<old.x, old.y, old.z>>)
                                         ELSE <<old.x, old.y, old.z>>
      w == IF Has("w") THEN Number("w") ELSE IF Has("angle") THEN 2 * Number("angle") ELSE old.w
      whole == Has("x") /\ Has("y") /\ Has("z")
  IN  [found |-> whole /\ (Has("angle") \/ Has("w")),
       value |-> IF whole /\ Has("angle") THEN AngleAxis(Number("angle"), Cartesian(xyz[1], xyz[2], xyz[3]))
                                          ELSE Quat(w, xyz[1], xyz[2], xyz[3])]

PositionToJSON(p) ==
  Object(("polar" :> Boolean(p.polar)) @@
         IF p.polar THEN ("az" :> Real(p.pos[1])) @@ ("el" :> Real(p.pos[2])) @@ ("d" :> Real(p.pos[3]))
                    ELSE ("x" :> Real(p.pos[1])) @@ ("y" :> Real(p.pos[2])) @@ ("z" :> Real(p.pos[3])))

\* Position::FromJSON(): `old' is kept if a member is missing or no number.
PositionFromJSON(obj, old) ==
  LET Get(type, key) == IF key \in Keys(obj) THEN FromJSONTo(type, obj.members[key]) ELSE NotConverted
      polar == Get("bool", "polar").found /\ Get("bool", "polar").value
      parts == IF polar THEN <<"az", "el", "d">> ELSE <<"x", "y", "z">>
  IN  IF \E i \in 1 .. 3 : ~Get("double", parts[i]).found THEN old
      ELSE [polar |-> polar, pos |-> [i \in 1 .. 3 |-> Get("double", parts[i]).value]]

RotationToJSON(q) ==
  Object(("w" :> Real(q.w)) @@ ("x" :> Real(q.x)) @@ ("y" :> Real(q.y)) @@ ("z" :> Real(q.z)))

\* Quaternion::FromJSON(): all four or none.
RotationFromJSON(obj, old) ==
  LET Get(key) == IF key \in Keys(obj) THEN FromJSONTo("double", obj.members[key]) ELSE NotConverted
  IN  IF \E key \in {"w", "x", "y", "z"} : ~Get(key).found THEN old
      ELSE Quat(Get("w").value, Get("x").value, Get("y").value, Get("z").value)

\* A rotation that is set over other parameters of the name is got again.
RotationComesBack(before, name, q) ==
  GetRotation(SetRotation(before, name, q), name, Identity) = [found |-> TRUE, value |-> q]

\* What is set is got, whatever was set before in whichever co-ordinates and
\* unit; for rotations unless an angle has been left behind, which is taken
\* for the new one's (StoredRotationsComeBack of Library).  A read that fails
\* at the first value leaves the position alone only in co-ordinates of its kind.
StoredLaw(ps, p, old, q, name, radians, oldradians) ==
  LET before == SetPosition(ps, name, old, oldradians)
      after == SetPosition(before, name, p, radians)
      parts == IF p.polar THEN <<"az", "el", "d">> ELSE <<"x", "y", "z">>
      Without(part) == GetPosition(Delete(after, Append(name, part)), name, old)
  IN  /\ GetPosition(after, name, old) = [found |-> TRUE, value |-> p]
      /\ \A i \in 1 .. 3 : ~Without(parts[i]).found
      /\ Without(parts[1]).value = old <=> old.polar = p.polar
      /\ ~Exists(before, Append(name, "angle")) => RotationComesBack(before, name, q)
      /\ PositionFromJSON(PositionToJSON(p), old) = p
      /\ RotationFromJSON(RotationToJSON(q), Identity) = q

=============================================================================
