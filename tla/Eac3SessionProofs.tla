------------------------- MODULE Eac3SessionProofs -------------------------
(***************************************************************************)
(* The stages of the E-AC-3 front ends, for all units and any number of    *)
(* calls, failed ones included; and the mirrored ring of the filterbanks,  *)
(* for any length of its steps and any number of them.                     *)
(***************************************************************************)
EXTENDS Eac3Session, MirroredRing, FiniteSetTheorems, WellFoundedInduction, TLAPS

\* Where a call stands, and what its stages keep.
CallTypes ==
  /\ front_end \in FrontEnd
  /\ unit \in Units \cup {Nothing}
  /\ stage \in (IF unit = Nothing THEN {"inspect"} ELSE Stages(unit))
  /\ reached \in [Stage -> Nat]
  /\ pushed \in Nat /\ frames_seen \in Nat /\ last_objects \in Nat

LEMMA TypesInvariance == CallTypes /\ [Next]_vars => CallTypes'
<1> SUFFICES ASSUME CallTypes, [Next]_vars PROVE CallTypes'
  OBVIOUS
<1> USE DEF CallTypes
<1>1. ASSUME UNCHANGED <<front_end, unit, stage>>, unit' = Nothing => stage' = "inspect"
      PROVE  stage' \in (IF unit' = Nothing THEN {"inspect"} ELSE Stages(unit)')
  BY <1>1 DEF Stages
<1>2. ASSUME NEW u \in Units, Push(u) PROVE CallTypes'
  BY <1>2, SessionAssumption DEF Push, counting, Stages, FrontEnd
<1>3. ASSUME NEW next \in {"core", "joint", "render", "done"}, Proceed(next), UNCHANGED front_end, unit # Nothing
      PROVE  /\ unit' \in Units \cup {Nothing} /\ frames_seen' \in Nat
             /\ stage' \in (IF unit' = Nothing THEN {"inspect"} ELSE Stages(unit)')
  <2>1. CASE next \in Stages(unit)
    <3>1. unit' = unit /\ stage' = next /\ frames_seen' = frames_seen
      BY <1>3, <2>1 DEF Proceed
    <3>2. Stages(unit)' = Stages(unit)
      BY <1>3, <3>1 DEF Stages
    <3> QED BY <1>3, <2>1, <3>1, <3>2
  <2>2. CASE next \notin Stages(unit)
    <3>1. unit' = Nothing /\ stage' = "inspect" /\ frames_seen' \in {frames_seen, frames_seen + 1}
      BY <1>3, <2>2 DEF Proceed
    <3> QED BY <3>1
  <2> QED BY <2>1, <2>2
<1>4. ASSUME NEW s \in Stage, Advanced(s) PROVE reached' \in [Stage -> Nat]
  BY <1>4 DEF Advanced
<1>5. ASSUME Fail, reached' \in [Stage -> Nat] PROVE CallTypes'
  BY <1>5 DEF Fail
<1>6. CASE InspectUnit
  <2>1. Proceed("core") /\ UNCHANGED front_end /\ unit # Nothing /\ Advanced("inspect")
    BY <1>6 DEF InspectUnit, At
  <2>2. reached' \in [Stage -> Nat]
    BY <1>4, <2>1 DEF Stage
  <2>3. pushed' = pushed /\ last_objects' \in {last_objects, pushed}
    BY <1>6 DEF InspectUnit, history
  <2>4. /\ unit' \in Units \cup {Nothing} /\ frames_seen' \in Nat
        /\ stage' \in (IF unit' = Nothing THEN {"inspect"} ELSE Stages(unit)')
    BY <1>3, <2>1, SMT
  <2> QED BY <2>1, <2>2, <2>3, <2>4
<1>7. CASE RejectUnit
  BY <1>4, <1>5, <1>7 DEF RejectUnit, Stage
<1>8. CASE DecodeCore
  <2>1. Proceed("joint") /\ UNCHANGED front_end /\ unit # Nothing /\ Advanced("core")
    BY <1>8 DEF DecodeCore, At
  <2>2. reached' \in [Stage -> Nat]
    BY <1>4, <2>1 DEF Stage
  <2>3. pushed' = pushed /\ last_objects' \in {last_objects, pushed}
    BY <1>8 DEF DecodeCore, history
  <2>4. /\ unit' \in Units \cup {Nothing} /\ frames_seen' \in Nat
        /\ stage' \in (IF unit' = Nothing THEN {"inspect"} ELSE Stages(unit)')
    BY <1>3, <2>1, SMT
  <2> QED BY <2>1, <2>2, <2>3, <2>4
<1>9. CASE FailCore \/ FailRender
  BY <1>5, <1>9 DEF FailCore, FailRender, Stage
<1>10. CASE DecodeJoint
  <2>1. Proceed("render") /\ UNCHANGED front_end /\ unit # Nothing /\ Advanced("joint")
    BY <1>10 DEF DecodeJoint, At
  <2>2. reached' \in [Stage -> Nat]
    BY <1>4, <2>1 DEF Stage
  <2>3. pushed' = pushed /\ last_objects' \in {last_objects, pushed}
    BY <1>10 DEF DecodeJoint, history
  <2>4. /\ unit' \in Units \cup {Nothing} /\ frames_seen' \in Nat
        /\ stage' \in (IF unit' = Nothing THEN {"inspect"} ELSE Stages(unit)')
    BY <1>3, <2>1, SMT
  <2> QED BY <2>1, <2>2, <2>3, <2>4
<1>11. CASE FailJoint
  BY <1>5, <1>11 DEF FailJoint
<1>12. CASE RenderFrame
  <2>1. Proceed("done") /\ UNCHANGED front_end /\ unit # Nothing /\ Advanced("render")
    BY <1>12 DEF RenderFrame, At
  <2>2. reached' \in [Stage -> Nat]
    BY <1>4, <2>1 DEF Stage
  <2>3. pushed' = pushed /\ last_objects' \in {last_objects, pushed}
    BY <1>12 DEF RenderFrame, history
  <2>4. /\ unit' \in Units \cup {Nothing} /\ frames_seen' \in Nat
        /\ stage' \in (IF unit' = Nothing THEN {"inspect"} ELSE Stages(unit)')
    BY <1>3, <2>1, SMT
  <2> QED BY <2>1, <2>2, <2>3, <2>4
<1>13. CASE Flush
  BY <1>13 DEF Flush, counting, history, Stages
<1>14. CASE Reset
  BY <1>14 DEF Reset, NoneReached
<1>15. CASE UNCHANGED vars
  BY <1>15 DEF vars, counting, history, Stages
<1> QED BY <1>2, <1>6, <1>7, <1>8, <1>9, <1>10, <1>11, <1>12, <1>13, <1>14, <1>15 DEF Next

\* A number of completed calls: the one under way is not among them.
Completed(n) == pushed = IF unit = Nothing THEN n ELSE n + 1

WithObjects == front_end \in {"object", "handle"}

\* StagesTogether in the middle of a call: the stages before the current one have the unit in hand.
StagesInv ==
  /\ CallTypes
  /\ unit # Nothing /\ stage # "inspect" /\ WithObjects => HasObjects(unit)
  /\ sound =>
       /\ front_end # "object" => Completed(frames_seen)
       /\ IF stage = "inspect" THEN Completed(reached["inspect"]) ELSE reached["inspect"] = pushed
       /\ stage = "inspect" =>
            /\ front_end = "pcm" => Completed(reached["core"])
            /\ WithObjects => reached["core"] = last_objects /\ reached["joint"] = last_objects
            /\ front_end = "handle" => reached["render"] = last_objects
       /\ stage # "inspect" /\ WithObjects => last_objects = pushed
       /\ stage \in {"joint", "render"} => reached["core"] = pushed
       /\ stage = "render" => reached["joint"] = pushed

\* What a stage leaves to the next, or to the end of the call.
LEMMA ProceedCases ==
  ASSUME CallTypes, unit # Nothing, UNCHANGED front_end,
         NEW next \in {"core", "joint", "render", "done"}, Proceed(next)
  PROVE  \/ /\ next \in Stages(unit) /\ next # "done"
            /\ unit' = unit /\ stage' = next /\ frames_seen' = frames_seen
         \/ /\ next \notin Stages(unit) /\ unit' = Nothing /\ stage' = "inspect"
            /\ frames_seen' = IF front_end # "object" \/ HasObjects(unit) THEN frames_seen + 1 ELSE frames_seen
<1>1. "done" \notin Stages(unit)
  BY DEF Stages, CallTypes, FrontEnd
<1> QED BY <1>1 DEF Proceed, Counted

LEMMA StagesStep == StagesInv /\ [Next]_vars => StagesInv'
<1> SUFFICES ASSUME StagesInv, [Next]_vars PROVE StagesInv'
  OBVIOUS
<1>1. CallTypes /\ CallTypes'
  BY TypesInvariance DEF StagesInv
<1>2. ASSUME NEW u \in Units, Push(u) PROVE StagesInv'
  <2>1. /\ unit = Nothing /\ unit' = u /\ u # Nothing /\ stage = "inspect" /\ stage' = "inspect"
        /\ pushed' = pushed + 1
        /\ UNCHANGED <<front_end, frames_seen, reached, last_objects, sound>>
    BY <1>1, <1>2, SessionAssumption DEF Push, counting, CallTypes
  <2> QED BY <1>1, <2>1 DEF StagesInv, Completed, WithObjects
<1>3. ASSUME Fail PROVE StagesInv'
  BY <1>1, <1>3 DEF Fail, StagesInv
<1>4. CASE InspectUnit
  <2>1. /\ unit \in Units /\ unit # Nothing /\ stage = "inspect" /\ Proceed("core")
        /\ UNCHANGED <<front_end, pushed, sound>>
        /\ reached' = [reached EXCEPT !["inspect"] = pushed]
        /\ last_objects' = IF HasObjects(unit) THEN pushed ELSE last_objects
    BY <1>1, <1>4 DEF InspectUnit, At, Advanced, CallTypes
  <2>2. /\ reached'["inspect"] = pushed /\ reached'["core"] = reached["core"]
        /\ reached'["joint"] = reached["joint"] /\ reached'["render"] = reached["render"]
    BY <1>1, <2>1 DEF CallTypes, Stage
  <2>3. CASE "core" \in Stages(unit)
    <3>1. unit' = unit /\ stage' = "core" /\ frames_seen' = frames_seen
      BY <1>1, <2>1, <2>3, ProceedCases
    <3>2. front_end # "decoder" /\ (WithObjects => HasObjects(unit))
      BY <1>1, <2>3 DEF Stages, CallTypes, FrontEnd, WithObjects
    <3> QED BY <1>1, <2>1, <2>2, <3>1, <3>2 DEF StagesInv, Completed, WithObjects, HasObjects
  <2>4. CASE "core" \notin Stages(unit)
    <3>1. /\ unit' = Nothing /\ stage' = "inspect"
          /\ frames_seen' = IF front_end # "object" \/ HasObjects(unit) THEN frames_seen + 1 ELSE frames_seen
      BY <1>1, <2>1, <2>4, ProceedCases
    <3>2. front_end # "pcm" /\ (WithObjects => ~HasObjects(unit))
      BY <1>1, <2>4 DEF Stages, CallTypes, FrontEnd, WithObjects
    <3> QED BY <1>1, <2>1, <2>2, <3>1, <3>2 DEF StagesInv, Completed, WithObjects
  <2> QED BY <2>3, <2>4
<1>5. CASE DecodeCore
  <2>1. /\ unit \in Units /\ unit # Nothing /\ stage = "core" /\ Proceed("joint")
        /\ UNCHANGED <<front_end, pushed, sound, last_objects>>
        /\ reached' = [reached EXCEPT !["core"] = pushed]
    BY <1>1, <1>5 DEF DecodeCore, At, Advanced, CallTypes, history
  <2>2. /\ reached'["core"] = pushed /\ reached'["inspect"] = reached["inspect"]
        /\ reached'["joint"] = reached["joint"] /\ reached'["render"] = reached["render"]
    BY <1>1, <2>1 DEF CallTypes, Stage
  <2>3. CASE "joint" \in Stages(unit)
    <3>1. unit' = unit /\ stage' = "joint" /\ frames_seen' = frames_seen
      BY <1>1, <2>1, <2>3, ProceedCases
    <3> QED BY <1>1, <2>1, <2>2, <3>1 DEF StagesInv, Completed, WithObjects, HasObjects
  <2>4. CASE "joint" \notin Stages(unit)
    <3>1. front_end = "pcm"
      BY <1>1, <2>1, <2>4 DEF StagesInv, Stages, CallTypes, FrontEnd, WithObjects
    <3>2. unit' = Nothing /\ stage' = "inspect" /\ frames_seen' = frames_seen + 1
      BY <1>1, <2>1, <2>4, <3>1, ProceedCases
    <3> QED BY <1>1, <2>1, <2>2, <3>1, <3>2 DEF StagesInv, Completed, WithObjects
  <2> QED BY <2>3, <2>4
<1>6. CASE DecodeJoint
  <2>1. /\ unit \in Units /\ unit # Nothing /\ stage = "joint" /\ Proceed("render")
        /\ UNCHANGED <<front_end, pushed, sound, last_objects>>
        /\ reached' = [reached EXCEPT !["joint"] = pushed]
    BY <1>1, <1>6 DEF DecodeJoint, At, Advanced, CallTypes, history
  <2>2. /\ reached'["joint"] = pushed /\ reached'["inspect"] = reached["inspect"]
        /\ reached'["core"] = reached["core"] /\ reached'["render"] = reached["render"]
    BY <1>1, <2>1 DEF CallTypes, Stage
  <2>3. WithObjects /\ HasObjects(unit)
    BY <1>1, <2>1 DEF StagesInv, CallTypes, Stages, FrontEnd, WithObjects
  <2>4. CASE "render" \in Stages(unit)
    <3>1. unit' = unit /\ stage' = "render" /\ frames_seen' = frames_seen
      BY <1>1, <2>1, <2>4, ProceedCases
    <3> QED BY <1>1, <2>1, <2>2, <2>3, <3>1 DEF StagesInv, Completed, WithObjects, HasObjects
  <2>5. CASE "render" \notin Stages(unit)
    <3>1. front_end = "object"
      BY <2>3, <2>5 DEF Stages, WithObjects
    <3>2. unit' = Nothing /\ stage' = "inspect" /\ frames_seen' = frames_seen + 1
      BY <1>1, <2>1, <2>3, <2>5, ProceedCases
    <3> QED BY <1>1, <2>1, <2>2, <2>3, <3>1, <3>2 DEF StagesInv, Completed, WithObjects
  <2> QED BY <2>4, <2>5
<1>7. CASE RenderFrame
  <2>1. /\ unit \in Units /\ unit # Nothing /\ stage = "render" /\ Proceed("done")
        /\ UNCHANGED <<front_end, pushed, sound, last_objects>>
        /\ reached' = [reached EXCEPT !["render"] = pushed]
    BY <1>1, <1>7 DEF RenderFrame, At, Advanced, CallTypes, history
  <2>2. /\ reached'["render"] = pushed /\ reached'["inspect"] = reached["inspect"]
        /\ reached'["core"] = reached["core"] /\ reached'["joint"] = reached["joint"]
    BY <1>1, <2>1 DEF CallTypes, Stage
  <2>3. front_end = "handle"
    BY <1>1, <2>1 DEF StagesInv, CallTypes, Stages, FrontEnd
  <2>4. unit' = Nothing /\ stage' = "inspect" /\ frames_seen' = frames_seen + 1
    BY <1>1, <2>1, <2>3, ProceedCases
  <2> QED BY <1>1, <2>1, <2>2, <2>3, <2>4 DEF StagesInv, Completed, WithObjects
<1>8. CASE RejectUnit \/ FailCore \/ FailJoint \/ FailRender
  BY <1>3, <1>8 DEF RejectUnit, FailCore, FailJoint, FailRender
<1>9. CASE Flush
  BY <1>1, <1>9 DEF Flush, counting, history, StagesInv, Completed, WithObjects, HasObjects
<1>10. CASE Reset
  <2>1. /\ unit = Nothing /\ unit' = Nothing /\ stage = "inspect" /\ stage' = "inspect"
        /\ frames_seen' = 0 /\ pushed' = 0 /\ last_objects' = 0
        /\ \A s \in Stage : reached'[s] = 0
    BY <1>1, <1>10 DEF Reset, NoneReached, CallTypes
  <2> QED BY <1>1, <2>1 DEF StagesInv, Completed, WithObjects, Stage
<1>11. CASE UNCHANGED vars
  BY <1>1, <1>11 DEF vars, counting, history, StagesInv, Completed, WithObjects, HasObjects
<1> QED BY <1>2, <1>4, <1>5, <1>6, <1>7, <1>8, <1>9, <1>10, <1>11 DEF Next

\* The stages of a front end fall apart only by failures, and all but the object decoder count the
\* units they took.
THEOREM StagesStayTogether == Spec => []StagesTogether
<1>1. Init => StagesInv
  BY DEF Init, NoneReached, Stage, StagesInv, CallTypes, Completed, WithObjects
<1>2. StagesInv => StagesTogether
  BY DEF StagesInv, CallTypes, StagesTogether, Completed, WithObjects
<1> QED BY <1>1, <1>2, StagesStep, PTL DEF Spec

-----------------------------------------------------------------------------
(***************************************************************************)
(* Joint objects                                                           *)
(***************************************************************************)

Gain == [frame : Nat, point : 0 .. 2, band : Nat]
Row == [Subband -> Gain]

ObjectState ==
  [prev : Row, mix : [1 .. 2 -> Row], offsets : [1 .. 2 -> Nat],
   history : BOOLEAN, fed : Nat, active_in : Nat]

\* JocCarriesOn of one object, and that it was last active in a decoded frame.
CarriesOn(object, decoded) ==
  /\ \A s \in Subband :
       /\ object.prev[s].frame = object.active_in
       /\ object.prev[s].point = object.prev[1].point
  /\ object.history = (object.active_in # 0)
  /\ object.history => object.fed = decoded
  /\ ~object.history => object.fed = 0
  /\ object.active_in <= decoded

\* A set of numbers up to a bound has a greatest one.
LEMMA GreatestNumber ==
  ASSUME NEW n \in Nat, NEW S \in SUBSET (1 .. n), S # {}
  PROVE  Max(S) \in S /\ \A y \in S : Max(S) >= y
<1> DEFINE T == {x \in 0 .. n : n - x \in S}
<1>1. T \in SUBSET Nat /\ T # {}
  <2>1. PICK y \in S : TRUE
    OBVIOUS
  <2>2. n - y \in 0 .. n /\ n - (n - y) = y
    BY <2>1
  <2>3. n - y \in T
    BY <2>1, <2>2
  <2>4. T \in SUBSET Nat
    OBVIOUS
  <2> HIDE DEF T
  <2> QED BY <2>3, <2>4
<1>2. PICK x \in T : \A y \in T : ~(<<y, x>> \in OpToRel(<, Nat))
  BY <1>1, NatLessThanWellFounded, WFMin
<1>3. ASSUME NEW y \in S PROVE n - x >= y
  <2>1. SUFFICES ASSUME n - x < y PROVE FALSE
    OBVIOUS
  <2>2. n - y \in T /\ n - y < x
    BY <2>1
  <2> DEFINE pair == <<n - y, x>>
  <2>3. pair \in Nat \X Nat /\ pair[1] = n - y /\ pair[2] = x
    BY <1>1, <2>2
  <2> HIDE DEF pair, T
  <2>4. pair \in OpToRel(<, Nat)
    BY <2>2, <2>3 DEF OpToRel
  <2> QED BY <1>2, <2>2, <2>4 DEF pair
<1>4. n - x \in S
  OBVIOUS
<1> QED BY <1>3, <1>4 DEF Max

LEMMA BandOf ==
  ASSUME NEW i \in DOMAIN Boundaries, NEW s \in Subband
  PROVE  ParameterBand(Boundaries[i], s) \in 1 .. Len(Boundaries[i])
         /\ Len(Boundaries[i]) \in 1 .. Subbands /\ 1 .. Len(Boundaries[i]) \subseteq Subband
<1> DEFINE bs == Boundaries[i]
           S == {b \in DOMAIN bs : bs[b] <= s - 1}
<1>1. /\ bs \in Seq(0 .. Subbands - 1) /\ Len(bs) \in 1 .. Subbands /\ bs[1] = 0 /\ Subbands \in Nat
      /\ DOMAIN bs = 1 .. Len(bs)
  BY JointAssumption
<1>2. 1 \in S
  BY <1>1 DEF Subband
<1>3. S \in SUBSET (1 .. Len(bs)) /\ Len(bs) \in Nat
  BY <1>1
<1> HIDE DEF S
<1>4. Max(S) \in S
  BY <1>2, <1>3, GreatestNumber
<1> QED BY <1>1, <1>3, <1>4 DEF ParameterBand, S, Subband

LEMMA FreshObject ==
  ASSUME NEW decoded \in Nat
  PROVE  NewObject \in ObjectState /\ CarriesOn(NewObject, decoded)
<1>1. 1 \in Subband
  BY JointAssumption DEF Subband
<1>2. Zero \in Gain /\ ZeroRow \in Row /\ \A s \in Subband : ZeroRow[s] = Zero
  BY DEF Zero, Gain, ZeroRow, Row
<1>3. <<ZeroRow, ZeroRow>> \in [1 .. 2 -> Row] /\ <<0, 0>> \in [1 .. 2 -> Nat]
  BY <1>2
<1>4. NewObject \in ObjectState
  BY <1>2, <1>3 DEF NewObject, ObjectState
<1>5. CarriesOn(NewObject, decoded)
  <2> DEFINE x == NewObject
  <2>1. x.history = FALSE /\ x.active_in = 0 /\ x.fed = 0 /\ x.prev = ZeroRow
    BY DEF NewObject
  <2>2. \A s \in Subband : x.prev[s] = Zero
    BY <1>2, <2>1
  <2>3. Zero.frame = 0
    BY DEF Zero
  <2> HIDE DEF x
  <2>4. CarriesOn(x, decoded)
    <3>1. x.history = (x.active_in # 0)
      BY <2>1, Zenon
    <3>2. \A s \in Subband : x.prev[s].frame = x.active_in /\ x.prev[s].point = x.prev[1].point
      BY <1>1, <2>1, <2>2, <2>3, Zenon
    <3>3. x.active_in <= decoded
      BY <2>1
    <3>4. ~x.history /\ x.fed = 0
      BY <2>1, Zenon
    <3> QED BY <3>1, <3>2, <3>3, <3>4, Zenon DEF CarriesOn
  <2> QED BY <2>4 DEF x
<1> QED BY <1>4, <1>5

\* The rows of the points a payload has are of that payload, as far as it has bands.
LEMMA PointsDecoded ==
  ASSUME NEW state \in ObjectState, NEW object, IsObject(object), NEW frame \in Nat
  PROVE  LET points == DecodeParameterPoints(state, object, frame) IN
         /\ points \in ObjectState
         /\ points.prev = state.prev /\ points.history = state.history
         /\ points.fed = state.fed /\ points.active_in = state.active_in
         /\ object.active =>
              \A k \in 1 .. object.data_points, b \in 1 .. Bands(object) :
                points.mix[k][b] = [frame |-> frame, point |-> k, band |-> b]
<1>1. CASE ~object.active
  BY <1>1 DEF DecodeParameterPoints
<1>2. CASE object.active
  <2> DEFINE row(k) == [s \in Subband |-> IF s <= Bands(object) THEN [frame |-> frame, point |-> k, band |-> s]
                                          ELSE state.mix[k][s]]
             mix == [k \in 1 .. 2 |-> IF k \in 1 .. object.data_points THEN row(k) ELSE state.mix[k]]
             offsets == [k \in 1 .. 2 |-> IF object.steep_slope /\ k \in 1 .. object.data_points
                                          THEN object.timeslot_offsets[k] ELSE state.offsets[k]]
             points == DecodeParameterPoints(state, object, frame)
  <2>1. points = [state EXCEPT !.mix = mix, !.offsets = offsets]
    BY <1>2 DEF DecodeParameterPoints
  <2>2. object.data_points \in {1, 2} /\ object.bands_index \in DOMAIN Boundaries
        /\ (object.steep_slope => object.timeslot_offsets \in [1 .. object.data_points -> 1 .. 32])
    BY <1>2 DEF IsObject
  <2>3. 1 .. Bands(object) \subseteq Subband /\ Bands(object) \in Nat
    <3>1. 1 \in Subband
      BY JointAssumption DEF Subband
    <3> QED BY <2>2, <3>1, BandOf DEF Bands
  <2>0. state.mix \in [1 .. 2 -> [Subband -> Gain]] /\ state.offsets \in [1 .. 2 -> Nat] /\ Subband \subseteq Nat
    BY DEF ObjectState, Row, Subband
  <2>4. ASSUME NEW k \in 1 .. 2 PROVE row(k) \in Row
    <3>1. ASSUME NEW s \in Subband PROVE row(k)[s] \in Gain
      BY <2>0, <3>1 DEF Gain
    <3> QED BY <3>1 DEF Row
  <2>5. mix \in [1 .. 2 -> Row]
    BY <2>4 DEF ObjectState
  <2>6. offsets \in [1 .. 2 -> Nat]
    <3>1. ASSUME NEW k \in 1 .. 2 PROVE offsets[k] \in Nat
      <4>1. CASE object.steep_slope /\ k \in 1 .. object.data_points
        <5>1. object.timeslot_offsets[k] \in 1 .. 32
          BY <2>2, <4>1
        <5> QED BY <4>1, <5>1
      <4>2. CASE ~(object.steep_slope /\ k \in 1 .. object.data_points)
        BY <2>0, <4>2
      <4> QED BY <4>1, <4>2
    <3> QED BY <3>1
  <2>7. \A k \in 1 .. object.data_points, b \in 1 .. Bands(object) :
          mix[k][b] = [frame |-> frame, point |-> k, band |-> b]
    BY <2>2, <2>3
  <2> HIDE DEF row, mix, offsets, points
  <2>8. /\ points \in ObjectState /\ points.mix = mix
        /\ points.prev = state.prev /\ points.history = state.history
        /\ points.fed = state.fed /\ points.active_in = state.active_in
    BY <2>1, <2>5, <2>6 DEF ObjectState
  <2> QED BY <2>7, <2>8 DEF points
<1> QED BY <1>1, <1>2 DEF IsObject

\* The gains of the last point, spread over the subbands: what an active object keeps.
LEMMA LastPoint ==
  ASSUME NEW points \in ObjectState, NEW object, IsObject(object), object.active, NEW frame \in Nat,
         \A k \in 1 .. object.data_points, b \in 1 .. Bands(object) :
           points.mix[k][b] = [frame |-> frame, point |-> k, band |-> b]
  PROVE  LET last == Mapped(points.mix[object.data_points], object) IN
         /\ last \in Row
         /\ \A s \in Subband : last[s].frame = frame /\ last[s].point = object.data_points
<1> DEFINE last == Mapped(points.mix[object.data_points], object)
<1>1. object.data_points \in 1 .. object.data_points /\ object.data_points \in 1 .. 2
      /\ object.bands_index \in DOMAIN Boundaries
  BY DEF IsObject
<1>2. ASSUME NEW s \in Subband
      PROVE  last[s] \in Gain /\ last[s].frame = frame /\ last[s].point = object.data_points
  <2> DEFINE b == ParameterBand(Boundaries[object.bands_index], s)
  <2>1. b \in 1 .. Bands(object)
    BY <1>1, BandOf DEF Bands
  <2>2. last[s] = points.mix[object.data_points][b]
    BY DEF Mapped
  <2> HIDE DEF b, last
  <2>3. last[s] = [frame |-> frame, point |-> object.data_points, band |-> b]
    BY <1>1, <2>1, <2>2
  <2>4. b \in Nat
    BY <2>1
  <2> QED BY <1>1, <2>3, <2>4 DEF Gain
<1>3. last \in Row
  BY <1>2 DEF Mapped, Row
<1> QED BY <1>2, <1>3

LEMMA ObjectDecoded ==
  ASSUME NEW state \in ObjectState, NEW before \in Nat, CarriesOn(state, before),
         NEW object, IsObject(object), NEW frame \in Nat, before < frame
  PROVE  LET now == DecodeObject(state, object, frame).state IN
         now \in ObjectState /\ CarriesOn(now, frame)
<1> DEFINE points == DecodeParameterPoints(state, object, frame)
           updated == UpdatePrevMatrix(points, object)
           now == Filter(updated, object, frame)
<1>0. DecodeObject(state, object, frame).state = now
  BY DEF DecodeObject
<1>1. /\ points \in ObjectState
      /\ points.prev = state.prev /\ points.history = state.history
      /\ points.fed = state.fed /\ points.active_in = state.active_in
      /\ object.active =>
           \A k \in 1 .. object.data_points, b \in 1 .. Bands(object) :
             points.mix[k][b] = [frame |-> frame, point |-> k, band |-> b]
  BY PointsDecoded
<1> HIDE DEF points
<1>2. CASE object.active
  <2> DEFINE last == Mapped(points.mix[object.data_points], object)
  <2>1. last \in Row /\ \A s \in Subband : last[s].frame = frame /\ last[s].point = object.data_points
    BY <1>1, <1>2, LastPoint
  <2>2. updated = [points EXCEPT !.prev = last]
    BY <1>2 DEF UpdatePrevMatrix
  <2> HIDE DEF last
  <2>3. now = [prev |-> last, mix |-> points.mix, offsets |-> points.offsets,
               history |-> TRUE, fed |-> frame, active_in |-> frame]
    <3>1. (updated.history \/ object.active) = TRUE /\ Filtered(updated, object)
      BY <1>2, Zenon DEF Filtered
    <3> HIDE DEF updated
    <3>2. now = [updated EXCEPT !.history = TRUE, !.fed = frame, !.active_in = frame]
      BY <1>2, <3>1, Zenon DEF Filter
    <3> QED BY <1>1, <2>2, <3>2 DEF ObjectState
  <2> HIDE DEF now
  <2>4. now \in ObjectState
    BY <1>1, <2>1, <2>3 DEF ObjectState
  <2>5. /\ now.prev = last /\ now.history /\ now.history = TRUE /\ now.fed = frame /\ now.active_in = frame
    BY <2>3
  <2>6. frame # 0 /\ 1 \in Subband /\ frame <= frame
    BY JointAssumption DEF Subband
  <2>7. now.history = (now.active_in # 0)
    BY <2>5, <2>6, Zenon
  <2>8. CarriesOn(now, frame)
    BY <2>1, <2>5, <2>6, <2>7, Zenon DEF CarriesOn
  <2> QED BY <1>0, <2>4, <2>8 DEF now
<1>3. CASE ~object.active
  <2>1. updated = points
    BY <1>3 DEF UpdatePrevMatrix
  <2>2. now = [points EXCEPT !.fed = IF points.history THEN frame ELSE @]
    BY <1>1, <1>3, <2>1 DEF Filter, Filtered, ObjectState
  <2> HIDE DEF now
  <2>3. now \in ObjectState
    BY <1>1, <2>2 DEF ObjectState
  <2>4. /\ now.prev = state.prev /\ now.history = state.history /\ now.active_in = state.active_in
        /\ now.fed = IF state.history THEN frame ELSE state.fed
    BY <1>1, <2>2 DEF ObjectState
  <2>5. state.active_in <= frame
    BY DEF CarriesOn, ObjectState
  <2>6. CarriesOn(now, frame)
    BY <2>4, <2>5, Zenon DEF CarriesOn
  <2> QED BY <1>0, <2>3, <2>6 DEF now
<1> QED BY <1>2, <1>3 DEF IsObject

LEMMA HalfBelow == FirstHalf \in Nat /\ FirstHalf < Timeslots
<1> DEFINE half == Timeslots \div 2
<1>1. Timeslots \in Nat /\ half \in 1 .. Timeslots - 1 /\ 1 \in 1 .. Timeslots - 1 /\ Timeslots - 1 \in Nat
  BY JointAssumption
<1> DEFINE S == {half, 1}
<1>2. S \in SUBSET (1 .. Timeslots - 1) /\ S # {}
  BY <1>1
<1> HIDE DEF S
<1>3. Max(S) \in 1 .. Timeslots - 1
  BY <1>1, <1>2, GreatestNumber
<1>4. FirstHalf = Max(S)
  BY DEF FirstHalf, S
<1> QED BY <1>1, <1>3, <1>4

\* A gentle slope from the gains of the last frame to those kept for the next.
Joins(slope, now, object, frame) ==
  /\ \A s \in Subband : slope[Timeslots - 1][s] = {now.prev[s]}
  /\ object.data_points = 1 =>
       \A t \in 0 .. Timeslots - 1, s \in Subband :
         \A gain \in slope[t][s] : gain = now.prev[s] \/ gain.frame < frame

LEMMA SlopeDecoded ==
  ASSUME NEW state \in ObjectState, NEW before \in Nat, CarriesOn(state, before),
         NEW object, IsObject(object), NEW frame \in Nat, before < frame, Smooth(object)
  PROVE  LET done == DecodeObject(state, object, frame) IN Joins(done.matrices, done.state, object, frame)
<1> DEFINE points == DecodeParameterPoints(state, object, frame)
           last == Mapped(points.mix[object.data_points], object)
           done == DecodeObject(state, object, frame)
           slope == done.matrices
<1>1. points \in ObjectState /\ points.prev = state.prev
  BY PointsDecoded
<1>2. object.active /\ ~object.steep_slope /\ object.data_points \in {1, 2}
  BY DEF Smooth, IsObject
<1>3. done.state.prev = last
  <2>1. UpdatePrevMatrix(points, object) = [points EXCEPT !.prev = last]
    BY <1>2 DEF UpdatePrevMatrix
  <2>2. UpdatePrevMatrix(points, object).prev = last
    <3> HIDE DEF points, last
    <3> QED BY <1>1, <2>1 DEF ObjectState
  <2>3. done.state = Filter(UpdatePrevMatrix(points, object), object, frame)
    BY DEF DecodeObject
  <2>4. points.history \in BOOLEAN
    BY <1>1 DEF ObjectState
  <2> HIDE DEF points, last, done
  <2> DEFINE u == UpdatePrevMatrix(points, object)
  <2>5. Filter(u, object, frame).prev = u.prev
    BY <1>1, <2>1 DEF Filter, ObjectState
  <2> QED BY <2>2, <2>3, <2>5
<1>4. \A t \in 0 .. Timeslots - 1 : slope[t] = TimeslotMatrix(points, object, t)
  BY DEF DecodeObject, Matrices
<1>5. Timeslots - 1 \in 0 .. Timeslots - 1 /\ Timeslots \in Nat /\ Timeslots - 1 + 1 = Timeslots
  BY JointAssumption
<1> HIDE DEF points, slope, done
<1>6. CASE object.data_points = 1
  <2>1. \A t \in 0 .. Timeslots - 1 : slope[t] = Blend(state.prev, last, t + 1, Timeslots)
    BY <1>1, <1>2, <1>4, <1>6 DEF TimeslotMatrix
  <2>2. \A t \in 0 .. Timeslots - 1, s \in Subband :
          slope[t][s] = IF t + 1 = Timeslots THEN {last[s]} ELSE {state.prev[s], last[s]}
    <3> HIDE DEF last
    <3> QED BY <2>1 DEF Blend
  <2>3. \A s \in Subband : state.prev[s].frame < frame
    <3>1. \A s \in Subband : state.prev[s].frame = state.active_in
      BY DEF CarriesOn
    <3>2. state.active_in < frame
      BY DEF CarriesOn, ObjectState
    <3> QED BY <3>1, <3>2
  <2> HIDE DEF last
  <2>4. \A s \in Subband : slope[Timeslots - 1][s] = {last[s]}
    BY <1>5, <2>2
  <2>5. ASSUME NEW t \in 0 .. Timeslots - 1, NEW s \in Subband, NEW gain \in slope[t][s]
        PROVE  gain = last[s] \/ gain.frame < frame
    <3>1. slope[t][s] = IF t + 1 = Timeslots THEN {last[s]} ELSE {state.prev[s], last[s]}
      BY <2>2
    <3>2. gain = last[s] \/ gain = state.prev[s]
      BY <2>5, <3>1, Zenon
    <3> QED BY <2>3, <3>2, Zenon
  <2>6. Joins(slope, done.state, object, frame)
    BY <1>3, <2>4, <2>5, Zenon DEF Joins
  <2> QED BY <2>6 DEF slope, done
<1>7. CASE object.data_points = 2
  <2> DEFINE t == Timeslots - 1
  <2>1. ~(t + 1 <= FirstHalf) /\ t + 1 - FirstHalf = Timeslots - FirstHalf
    BY <1>5, HalfBelow
  <2>2. slope[t] = Blend(Mapped(points.mix[1], object), last, t + 1 - FirstHalf, Timeslots - FirstHalf)
    BY <1>2, <1>4, <1>5, <1>7, <2>1 DEF TimeslotMatrix
  <2> HIDE DEF last, t
  <2>3. \A s \in Subband : slope[t][s] = {last[s]}
    BY <2>1, <2>2 DEF Blend
  <2> QED BY <1>3, <1>7, <2>3 DEF Joins, slope, done, t
<1> QED BY <1>2, <1>6, <1>7 DEF Joins, slope, done

\* Every object is as JocCarriesOn says, and the unit decoded last is before the one in hand.
JocInv ==
  /\ CallTypes
  /\ reached["joint"] <= pushed
  /\ unit # Nothing /\ stage # "render" => reached["joint"] < pushed
  /\ \A o \in DOMAIN joc : joc[o] \in ObjectState /\ CarriesOn(joc[o], reached["joint"])

\* The objects of a unit, decoded from what was kept.
LEMMA JointDecoded ==
  ASSUME JocInv, DecodeJoint
  PROVE  LET objects == unit.joc.objects IN
         /\ reached'["joint"] = pushed
         /\ DOMAIN joc' = DOMAIN objects
         /\ \A o \in DOMAIN objects :
              /\ joc'[o] \in ObjectState /\ CarriesOn(joc'[o], pushed)
              /\ Smooth(objects[o]) => Joins(matrices'[o], joc'[o], objects[o], pushed)
<1> DEFINE objects == unit.joc.objects
           kept == Reconfigure(joc, Len(objects))
<1>1. /\ unit \in Units /\ unit # Nothing /\ stage = "joint" /\ pushed \in Nat
      /\ reached["joint"] \in Nat /\ reached["joint"] < pushed /\ HasObjects(unit)
  BY DEF JocInv, CallTypes, DecodeJoint, At, Stage, Stages, FrontEnd
<1>2. /\ DOMAIN objects = 1 .. Len(objects)
      /\ \A o \in DOMAIN objects : IsObject(objects[o])
  BY <1>1, SessionAssumption DEF IsUnit, HasObjects
<1>3. /\ joc' = [o \in DOMAIN objects |-> DecodeObject(kept[o], objects[o], pushed).state]
      /\ matrices' = [o \in DOMAIN objects |-> DecodeObject(kept[o], objects[o], pushed).matrices]
  BY DEF DecodeJoint
<1>4. reached'["joint"] = pushed
  BY DEF DecodeJoint, Advanced, JocInv, CallTypes, Stage
<1>5. ASSUME NEW o \in DOMAIN objects
      PROVE  /\ joc'[o] \in ObjectState /\ CarriesOn(joc'[o], pushed)
             /\ Smooth(objects[o]) => Joins(matrices'[o], joc'[o], objects[o], pushed)
  <2> DEFINE done == DecodeObject(kept[o], objects[o], pushed)
  <2>1. kept[o] \in ObjectState /\ CarriesOn(kept[o], reached["joint"])
    <3>1. kept[o] = IF o \in DOMAIN joc THEN joc[o] ELSE NewObject
      BY <1>2 DEF Reconfigure
    <3> HIDE DEF kept, objects
    <3>2. CASE o \in DOMAIN joc
      BY <3>1, <3>2, Zenon DEF JocInv
    <3>3. CASE o \notin DOMAIN joc
      BY <1>1, <3>1, <3>3, FreshObject
    <3> QED BY <3>2, <3>3
  <2>2. joc'[o] = done.state /\ matrices'[o] = done.matrices
    BY <1>3, Zenon
  <2>3. IsObject(objects[o])
    BY <1>2
  <2> HIDE DEF kept, objects
  <2>4. done.state \in ObjectState /\ CarriesOn(done.state, pushed)
    BY <1>1, <2>1, <2>3, ObjectDecoded
  <2>5. Smooth(objects[o]) => Joins(done.matrices, done.state, objects[o], pushed)
    BY <1>1, <2>1, <2>3, SlopeDecoded
  <2> HIDE DEF done
  <2> QED BY <2>2, <2>4, <2>5, Zenon
<1>6. DOMAIN joc' = DOMAIN objects
  BY <1>3, Zenon
<1> QED BY <1>4, <1>5, <1>6, Zenon

LEMMA JocStep == JocInv /\ [Next]_vars => JocInv'
<1> SUFFICES ASSUME JocInv, [Next]_vars PROVE JocInv'
  OBVIOUS
<1>1. CallTypes /\ CallTypes'
  BY TypesInvariance DEF JocInv
<1>2. ASSUME joc' = joc, reached'["joint"] = reached["joint"], pushed' = pushed,
             unit' # Nothing => unit # Nothing /\ stage \in {"inspect", "core"}
      PROVE  JocInv'
  BY <1>1, <1>2, Zenon DEF JocInv
<1>3. ASSUME NEW u \in Units, Push(u) PROVE JocInv'
  <2>1. joc' = joc /\ reached' = reached /\ pushed' = pushed + 1
    BY <1>3 DEF Push, counting, decoding
  <2>2. reached["joint"] \in Nat /\ pushed \in Nat /\ reached["joint"] <= pushed
    BY DEF JocInv, CallTypes, Stage
  <2>3. reached["joint"] <= pushed + 1 /\ reached["joint"] < pushed + 1
    BY <2>2
  <2> QED BY <1>1, <2>1, <2>3, Zenon DEF JocInv
<1>4. CASE InspectUnit \/ DecodeCore
  <2>1. /\ joc' = joc /\ pushed' = pushed /\ unit # Nothing /\ stage \in {"inspect", "core"}
        /\ reached' \in {[reached EXCEPT !["inspect"] = pushed], [reached EXCEPT !["core"] = pushed]}
    BY <1>4 DEF InspectUnit, DecodeCore, At, Advanced, decoding, history
  <2>2. reached'["joint"] = reached["joint"]
    BY <1>1, <2>1 DEF CallTypes, Stage
  <2> QED BY <1>2, <2>1, <2>2
<1>5. CASE RejectUnit \/ FailCore \/ FailJoint \/ FailRender
  <2>1. /\ joc' = joc /\ pushed' = pushed /\ unit' = Nothing
        /\ reached' \in {reached, [reached EXCEPT !["inspect"] = pushed],
                         [reached EXCEPT !["core"] = pushed], [reached EXCEPT !["render"] = pushed]}
    BY <1>5 DEF RejectUnit, FailCore, FailJoint, FailRender, Fail, Advanced, decoding
  <2>2. reached'["joint"] = reached["joint"]
    BY <1>1, <2>1 DEF CallTypes, Stage
  <2> QED BY <1>2, <2>1, <2>2
<1>6. CASE DecodeJoint
  <2>1. /\ unit # Nothing /\ Proceed("render") /\ UNCHANGED <<front_end, pushed>> /\ pushed \in Nat
    BY <1>1, <1>6 DEF DecodeJoint, At, history, CallTypes
  <2>2. unit' # Nothing => stage' = "render"
    BY <1>1, <2>1, ProceedCases
  <2>3. /\ reached'["joint"] = pushed
        /\ \A o \in DOMAIN joc' : joc'[o] \in ObjectState /\ CarriesOn(joc'[o], pushed)
    BY <1>6, JointDecoded
  <2>4. pushed <= pushed
    BY <2>1
  <2> QED BY <1>1, <2>1, <2>2, <2>3, <2>4, Zenon DEF JocInv
<1>7. CASE RenderFrame
  <2>1. /\ joc' = joc /\ unit # Nothing /\ Proceed("done") /\ UNCHANGED <<front_end, pushed>>
        /\ reached' = [reached EXCEPT !["render"] = pushed]
    BY <1>7 DEF RenderFrame, At, Advanced, decoding, history
  <2>2. reached'["joint"] = reached["joint"]
    BY <1>1, <2>1 DEF CallTypes, Stage
  <2>3. unit' = Nothing
    BY <1>1, <2>1, ProceedCases DEF Stages, CallTypes, FrontEnd
  <2> QED BY <1>2, <2>1, <2>2, <2>3
<1>8. CASE Flush
  BY <1>2, <1>8 DEF Flush, counting, decoding, history
<1>9. CASE Reset
  BY <1>1, <1>9 DEF Reset, NoneReached, Stage, JocInv
<1>10. CASE UNCHANGED vars
  BY <1>1, <1>10, Zenon DEF vars, counting, decoding, history, JocInv
<1> QED BY <1>3, <1>4, <1>5, <1>6, <1>7, <1>8, <1>9, <1>10 DEF Next

LEMMA JocAlways == Spec => []JocInv
<1>1. Init => JocInv
  BY DEF Init, NoneReached, Stage, JocInv, CallTypes
<1> QED BY <1>1, JocStep, PTL DEF Spec

\* What joint object coding keeps of an object is that of its last active frame, whatever failed between.
THEOREM JocAlwaysCarriesOn == Spec => []JocCarriesOn
<1>1. JocInv => JocCarriesOn
  BY Zenon DEF JocInv, CarriesOn, JocCarriesOn
<1> QED BY <1>1, JocAlways, PTL

LEMMA SlopesStep == JocInv /\ SlopesJoin /\ [Next]_vars => SlopesJoin'
<1> SUFFICES ASSUME JocInv, SlopesJoin, [Next]_vars PROVE SlopesJoin'
  OBVIOUS
<1>1. CASE DecodeJoint
  <2>1. /\ unit # Nothing /\ Proceed("render") /\ UNCHANGED <<front_end, pushed>>
    BY <1>1 DEF DecodeJoint, At, history
  <2>2. unit' # Nothing => unit' = unit
    BY <2>1, ProceedCases DEF JocInv
  <2>3. /\ DOMAIN joc' = DOMAIN unit.joc.objects
        /\ \A o \in DOMAIN unit.joc.objects :
             Smooth(unit.joc.objects[o]) => Joins(matrices'[o], joc'[o], unit.joc.objects[o], pushed)
    BY <1>1, JointDecoded, Zenon
  <2> SUFFICES ASSUME unit' # Nothing, NEW o \in DOMAIN joc', Smooth(unit'.joc.objects[o])
               PROVE  Joins(matrices'[o], joc'[o], unit'.joc.objects[o], pushed')
    BY Zenon DEF SlopesJoin, Joins
  <2> QED BY <2>1, <2>2, <2>3, Zenon
<1>2. ASSUME unit' = Nothing \/ stage' # "render" PROVE SlopesJoin'
  BY <1>2 DEF SlopesJoin
<1>3. ASSUME NEW u \in Units, Push(u) PROVE SlopesJoin'
  BY <1>2, <1>3 DEF Push
<1>4. CASE InspectUnit \/ DecodeCore
  <2>1. unit # Nothing /\ UNCHANGED front_end /\ (Proceed("core") \/ Proceed("joint"))
    BY <1>4 DEF InspectUnit, DecodeCore, At
  <2>2. unit' = Nothing \/ stage' # "render"
    BY <2>1, ProceedCases DEF JocInv
  <2> QED BY <1>2, <2>2
<1>5. CASE RejectUnit \/ FailCore \/ FailJoint \/ FailRender
  BY <1>2, <1>5 DEF RejectUnit, FailCore, FailJoint, FailRender, Fail
<1>6. CASE RenderFrame
  <2>1. unit # Nothing /\ UNCHANGED front_end /\ Proceed("done")
    BY <1>6 DEF RenderFrame, At
  <2>2. unit' = Nothing \/ stage' # "render"
    BY <2>1, ProceedCases DEF JocInv
  <2> QED BY <1>2, <2>2
<1>7. CASE Flush
  BY <1>2, <1>7 DEF Flush
<1>8. CASE Reset
  BY <1>2, <1>8 DEF Reset
<1>9. CASE UNCHANGED vars
  <2>1. joc' = joc /\ matrices' = matrices /\ unit' = unit /\ stage' = stage /\ pushed' = pushed
    BY <1>9 DEF vars, counting, decoding, history
  <2> QED BY <2>1 DEF SlopesJoin, Smooth
<1> QED BY <1>1, <1>3, <1>4, <1>5, <1>6, <1>7, <1>8, <1>9 DEF Next

\* A gentle slope ends where the next frame begins, for every number of subbands and timeslots.
THEOREM SlopesAlwaysJoin == Spec => []SlopesJoin
<1>1. Init => SlopesJoin
  BY DEF Init, SlopesJoin
<1> QED BY <1>1, JocAlways, SlopesStep, PTL DEF Spec

-----------------------------------------------------------------------------
(***************************************************************************)
(* The mirrored ring implements the shift register.                        *)
(***************************************************************************)
WholeSteps == {k * Step : k \in 0 .. Steps - 1}

\* A step that starts within the ring ends within it, and the ring holds a step at least.
LEMMA StepFits ==
  ASSUME NEW k \in 0 .. Steps - 1
  PROVE  k * Step \in Nat /\ k * Step + Step <= Length
<1>1. Step \in Nat /\ Steps \in Nat /\ k \in Nat /\ k + 1 <= Steps
  BY RingAssumption
<1>2. (k + 1) * Step <= Steps * Step
  BY <1>1, SMTT(30)
<1> QED BY <1>1, <1>2, SMTT(30) DEF Length

\* The head goes one step back, or from the start to the last whole step.
LEMMA WrapIsWhole ==
  ASSUME NEW at \in WholeSteps
  PROVE  /\ WrapRingHead(at) \in WholeSteps
         /\ at \in Nat /\ WrapRingHead(at) \in Nat /\ Length \in Nat
         /\ WrapRingHead(at) + Step <= Length
         /\ WrapRingHead(at) + Step = at \/ (at = 0 /\ WrapRingHead(at) + Step = Length)
<1>1. PICK k \in 0 .. Steps - 1 : at = k * Step
  BY DEF WholeSteps
<1>2. Step \in Nat \ {0} /\ Steps \in Nat \ {0} /\ k \in Nat
  BY RingAssumption
<1>3. CASE k = 0
  <2>1. WrapRingHead(at) = (Steps - 1) * Step
    BY <1>1, <1>2, <1>3, SMTT(30) DEF WrapRingHead, Length
  <2> QED BY <1>1, <1>2, <1>3, <2>1, StepFits, SMTT(30) DEF WholeSteps, Length
<1>4. CASE k # 0
  <2>1. k - 1 \in 0 .. Steps - 1 /\ at = (k - 1) * Step + Step
    BY <1>1, <1>2, <1>4, SMTT(30)
  <2>2. WrapRingHead(at) = (k - 1) * Step
    BY <1>2, <2>1, StepFits DEF WrapRingHead
  <2>3. WrapRingHead(at) \in WholeSteps
    BY <2>1, <2>2 DEF WholeSteps
  <2>4. (k - 1) * Step \in Nat /\ (k - 1) * Step + Step <= Length
    BY <2>1, StepFits
  <2>5. Length \in Nat
    BY <1>2, SMTT(30) DEF Length
  <2> QED BY <1>2, <2>1, <2>2, <2>3, <2>4, <2>5
<1> QED BY <1>3, <1>4

\* A place of the window behind the step just written is in neither copy of that step.
LEMMA BehindTheStep ==
  ASSUME NEW at \in Nat, NEW i \in Nat, NEW step \in Nat, NEW length \in Nat,
         at + step <= length, i < length, ~(i < step)
  PROVE  /\ at + i \in 0 .. 2 * length - 1
         /\ at + i \notin at .. at + step - 1
         /\ at + i - length \notin at .. at + step - 1
  OBVIOUS

\* The head stands at a whole step, and the copies of the ring agree.
THEOREM RingMirrored == RingSpec => []Mirrored
<1>1. RingInit => Mirrored
  <2> SUFFICES ASSUME RingInit PROVE Mirrored
    OBVIOUS
  <2>1. 0 \in 0 .. Steps - 1 /\ head = 0 * Step
    BY RingAssumption DEF RingInit
  <2>2. Length \in Nat
    BY <2>1, StepFits, RingAssumption, SMTT(30) DEF Length
  <2> QED BY <2>1, <2>2, RingAssumption DEF RingInit, Mirrored, Slot
<1>2. Mirrored /\ [RingNext]_ring_vars => Mirrored'
  <2> SUFFICES ASSUME Mirrored, [RingNext]_ring_vars PROVE Mirrored'
    OBVIOUS
  <2>1. CASE RingNext
    <3>1. PICK input \in [0 .. Step - 1 -> Values] : Process(input)
      BY <2>1 DEF RingNext
    <3>2. head \in WholeSteps
      BY DEF Mirrored, WholeSteps
    <3>3. /\ head' = WrapRingHead(head) /\ head' \in WholeSteps /\ head' \in Nat
          /\ head' + Step <= Length /\ Length \in Nat /\ Step \in Nat
      BY <3>1, <3>2, WrapIsWhole, RingAssumption DEF Process
    <3>4. \E k \in 0 .. Steps - 1 : head' = k * Step
      BY <3>3 DEF WholeSteps
    <3>5. storage' \in [Slot -> Values]
      <4> DEFINE After(slot) ==
            IF slot \in head' .. head' + Step - 1 THEN input[slot - head']
            ELSE IF slot - Length \in head' .. head' + Step - 1 THEN input[slot - Length - head']
            ELSE storage[slot]
      <4>1. storage' = [slot \in Slot |-> After(slot)]
        BY <3>1, <3>3 DEF Process
      <4>2. ASSUME NEW slot \in Slot PROVE After(slot) \in Values
        <5>1. CASE slot \in head' .. head' + Step - 1
          <6>1. slot - head' \in 0 .. Step - 1
            BY <5>1, <3>3
          <6> QED BY <5>1, <6>1
        <5>2. CASE slot \notin head' .. head' + Step - 1 /\ slot - Length \in head' .. head' + Step - 1
          <6>1. slot - Length - head' \in 0 .. Step - 1
            BY <5>2, <3>3 DEF Slot
          <6> QED BY <5>2, <6>1
        <5>3. CASE slot \notin head' .. head' + Step - 1 /\ slot - Length \notin head' .. head' + Step - 1
          BY <5>3 DEF Mirrored
        <5> QED BY <5>1, <5>2, <5>3
      <4> QED BY <4>1, <4>2
    <3>6. \A i \in 0 .. Length - 1 : storage'[i] = storage'[i + Length]
      BY <3>1, <3>3 DEF Process, Mirrored, Slot
    <3> QED BY <3>4, <3>5, <3>6 DEF Mirrored
  <2>2. CASE UNCHANGED ring_vars
    BY <2>2 DEF Mirrored, ring_vars
  <2> QED BY <2>1, <2>2
<1> QED BY <1>1, <1>2, PTL DEF RingSpec

\* The window of the filterbank is a shift register over the values put in.
THEOREM RingIsShiftRegister == RingSpec => IsShiftRegister
<1>1. RingInit => Shifting!Init
  <2> SUFFICES ASSUME RingInit PROVE Shifting!Init
    OBVIOUS
  <2>1. Length \in Nat
    BY RingAssumption, SMTT(30) DEF Length
  <2> QED BY <2>1 DEF RingInit, Window, Shifting!Init, Slot
<1>2. Mirrored /\ Mirrored' /\ [RingNext]_ring_vars => [Shifting!Next]_Window
  <2> SUFFICES ASSUME Mirrored, Mirrored', [RingNext]_ring_vars PROVE [Shifting!Next]_Window
    OBVIOUS
  <2>1. CASE RingNext
    <3>1. PICK input \in [0 .. Step - 1 -> Values] : Process(input)
      BY <2>1 DEF RingNext
    <3>2. head \in WholeSteps
      BY DEF Mirrored, WholeSteps
    <3>3. /\ head' = WrapRingHead(head) /\ head' \in Nat /\ head \in Nat
          /\ head' + Step <= Length /\ Length \in Nat /\ Step \in Nat
          /\ head' + Step = head \/ (head = 0 /\ head' + Step = Length)
      BY <3>1, <3>2, WrapIsWhole, RingAssumption DEF Process
    <3>4. ASSUME NEW i \in 0 .. Length - 1
          PROVE  storage'[head' + i] = IF i < Step THEN input[i] ELSE storage[head + (i - Step)]
      <4>1. CASE i < Step
        BY <3>1, <3>3, <4>1 DEF Process, Slot
      <4>2. CASE i >= Step /\ head' + Step = head
        <5>1. i \in Nat /\ i < Length /\ ~(i < Step)
          BY <3>3, <4>2
        <5>2. /\ head' + i \in 0 .. 2 * Length - 1
              /\ head' + i \notin head' .. head' + Step - 1
              /\ head' + i - Length \notin head' .. head' + Step - 1
          BY <3>3, <5>1, BehindTheStep
        <5>3. head' + i = head + (i - Step)
          BY <3>3, <4>2, <5>1
        <5>4. storage'[head' + i] = storage[head' + i]
          BY <3>1, <3>3, <5>2 DEF Process, Slot
        <5> QED BY <5>1, <5>3, <5>4
      <4>3. CASE i >= Step /\ head = 0 /\ head' + Step = Length
        <5>1. /\ head' + i \in Slot /\ i - Step \in 0 .. Length - 1
              /\ head' + i = (i - Step) + Length /\ head + (i - Step) = i - Step
              /\ head' + i \notin head' .. head' + Step - 1
              /\ head' + i - Length \notin head' .. head' + Step - 1
          BY <3>3, <4>3 DEF Slot
        <5>2. storage'[head' + i] = storage[head' + i]
          BY <3>1, <3>3, <5>1 DEF Process
        <5>3. storage[i - Step] = storage[(i - Step) + Length]
          BY <5>1 DEF Mirrored
        <5>4. i \in Int /\ Step \in Nat /\ ~(i < Step)
          BY <3>3, <4>3
        <5> QED BY <5>1, <5>2, <5>3, <5>4
      <4> QED BY <3>3, <4>1, <4>2, <4>3
    <3>5. Window' = Shifting!Shifted(input)
      <4>1. ASSUME NEW i \in 0 .. Length - 1, ~(i < Step)
            PROVE  storage[head + (i - Step)] = Window[i - Step]
        <5>1. i - Step \in 0 .. Length - 1
          BY <3>3, <4>1
        <5> QED BY <5>1 DEF Window
      <4>2. ASSUME NEW i \in 0 .. Length - 1
            PROVE  storage'[head' + i] = IF i < Step THEN input[i] ELSE Window[i - Step]
        BY <3>4, <4>1, Zenon
      <4>3. Window' = [i \in 0 .. Length - 1 |-> storage'[head' + i]]
        BY DEF Window, Length
      <4> QED BY <4>2, <4>3, Zenon DEF Shifting!Shifted
    <3> QED BY <3>1, <3>5 DEF Shifting!Next, Shifting!Shift
  <2>2. CASE UNCHANGED ring_vars
    BY <2>2 DEF Window, ring_vars
  <2> QED BY <2>1, <2>2
<1> QED BY <1>1, <1>2, RingMirrored, PTL DEF RingSpec, IsShiftRegister, Shifting!Spec
=============================================================================
