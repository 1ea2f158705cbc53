---------------------------- MODULE Eac3Session ----------------------------
(***************************************************************************)
(* The E-AC-3 front ends: Decoder, PcmDecoder, ObjectPcmDecoder and the    *)
(* renderer handle of the C interface.  Each takes an access unit through  *)
(* the same stages, as many of them as it has: inspection (Eac3Syntax,     *)
(* Eac3Metadata), core decoding (Eac3Syntax), joint object decoding and    *)
(* rendering (Renderer714).  Every stage keeps state; a stage that fails   *)
(* ends the call, and those before it have moved on.                       *)
(*                                                                         *)
(* Of a stage's state only the unit that advanced it last is kept here,    *)
(* except for joint object coding, which is modelled in full.              *)
(*                                                                         *)
(* A definition named Fault_... is a plausible slip in the definition that *)
(* follows it; it serves to show that the properties tell the difference.  *)
(***************************************************************************)
EXTENDS Eac3Joint

CONSTANTS
  Units,        \* access units a client may push
  Nothing,      \* None
  MaxUnits      \* bound: units pushed since the last reset

FrontEnd == {"decoder", "pcm", "object", "handle"}
Stage == {"inspect", "core", "joint", "render"}

\* inspected, decoded: do the inspection and the core decoder take the unit; five: does the core
\* have the five channels joint objects are mixed from; joc: the objects of its first JOC payload.
IsObject(object) ==
  /\ object.active \in BOOLEAN
  /\ object.active =>
       /\ object.bands_index \in DOMAIN Boundaries /\ object.data_points \in {1, 2}
       /\ object.steep_slope \in BOOLEAN
       /\ object.steep_slope => object.timeslot_offsets \in [1 .. object.data_points -> 1 .. 32]

IsUnit(u) ==
  /\ u.inspected \in BOOLEAN /\ u.exact \in BOOLEAN /\ u.decoded \in BOOLEAN /\ u.five \in BOOLEAN
  /\ u.joc # Nothing =>
       /\ u.joc.channels \in {5, 7}
       /\ DOMAIN u.joc.objects = 1 .. Len(u.joc.objects) /\ Len(u.joc.objects) \in Nat
       /\ \A o \in DOMAIN u.joc.objects : IsObject(u.joc.objects[o])

ASSUME SessionAssumption ==
  /\ \A u \in Units : IsUnit(u)
  /\ Nothing \notin Units
  /\ MaxUnits \in Nat

VARIABLES
  front_end,        \* which of them this is
  frames_seen,
  reached,          \* for each stage the unit that advanced its state last
  joc,              \* JocObjectDecoderState, by object
  matrices,         \* last_frame_matrices
  object_channels,  \* objects the output buffers are for
  last_rendered,    \* the unit whose frame is there to be lent
  (* the call under way *)
  unit,             \* Nothing between calls
  stage,            \* the stage it is to go through next
  (* history *)
  pushed,           \* units since the last reset
  last_objects,     \* the last of them that had objects to decode
  sound             \* no call failed since the last reset

counting == <<frames_seen, reached>>
decoding == <<joc, matrices, object_channels>>
history == <<pushed, last_objects, sound>>
vars == <<front_end, counting, decoding, last_rendered, unit, stage, history>>

NoneReached == [s \in Stage |-> 0]

Init ==
  /\ front_end \in FrontEnd
  /\ frames_seen = 0 /\ reached = NoneReached
  /\ joc = << >> /\ matrices = << >> /\ object_channels = 0
  /\ last_rendered = Nothing
  /\ unit = Nothing /\ stage = "inspect"
  /\ pushed = 0 /\ last_objects = 0 /\ sound = TRUE

HasObjects(u) == u.joc # Nothing

Fault_CoreFirst(u) ==
  CASE front_end = "decoder" -> {"inspect"}
    [] front_end = "pcm" -> {"inspect", "core"}
    [] front_end = "object" -> {"inspect", "core"} \cup (IF HasObjects(u) THEN {"joint"} ELSE {})
    [] front_end = "handle" -> {"inspect", "core"} \cup (IF HasObjects(u) THEN {"joint", "render"} ELSE {})

\* The stages of each front end; without objects the last two are left out, and all but the plain
\* decoders leave out the core as well.
Stages(u) ==
  CASE front_end = "decoder" -> {"inspect"}
    [] front_end = "pcm" -> {"inspect", "core"}
    [] front_end = "object" -> {"inspect"} \cup (IF HasObjects(u) THEN {"core", "joint"} ELSE {})
    [] front_end = "handle" -> {"inspect"} \cup (IF HasObjects(u) THEN {"core", "joint", "render"} ELSE {})

\* Ok(None) is not counted.
Counted(u) == front_end # "object" \/ HasObjects(u)

----------------------------------------------------------------------------
(***************************************************************************)
(* A call.                                                                 *)
(***************************************************************************)

Push(u) ==
  /\ unit = Nothing /\ pushed < MaxUnits
  /\ unit' = u /\ stage' = "inspect"
  /\ pushed' = pushed + 1
  /\ last_rendered' = Nothing
  /\ UNCHANGED <<front_end, counting, decoding, last_objects, sound>>

Fail ==
  /\ unit' = Nothing /\ stage' = "inspect"
  /\ sound' = FALSE
  /\ UNCHANGED <<front_end, frames_seen, last_rendered, pushed, last_objects>>

\* The unit goes to the stage after this one, or the call is over.
Proceed(next) ==
  IF next \in Stages(unit)
  THEN unit' = unit /\ stage' = next /\ UNCHANGED frames_seen
  ELSE /\ unit' = Nothing /\ stage' = "inspect"
       /\ frames_seen' = IF Counted(unit) THEN frames_seen + 1 ELSE frames_seen

Advanced(s) == reached' = [reached EXCEPT ![s] = pushed]

At(s) == unit # Nothing /\ stage = s

\* The metadata of a unit are taken although its length is found wrong afterwards.
InspectUnit ==
  /\ At("inspect") /\ unit.inspected /\ unit.exact
  /\ Advanced("inspect")
  /\ Proceed("core")
  /\ last_objects' = IF HasObjects(unit) THEN pushed ELSE last_objects
  /\ UNCHANGED <<front_end, decoding, last_rendered, pushed, sound>>

RejectUnit ==
  /\ At("inspect") /\ ~(unit.inspected /\ unit.exact)
  /\ IF unit.inspected THEN Advanced("inspect") ELSE UNCHANGED reached
  /\ Fail
  /\ UNCHANGED decoding

DecodeCore ==
  /\ At("core") /\ unit.decoded
  /\ Advanced("core")
  /\ Proceed("joint")
  /\ UNCHANGED <<front_end, decoding, last_rendered, history>>

\* What the core read before it failed stays.
FailCore ==
  /\ At("core") /\ ~unit.decoded
  /\ reached' \in {reached, [reached EXCEPT !["core"] = pushed]}
  /\ Fail
  /\ UNCHANGED decoding

JointInputs == unit.five /\ unit.joc.channels = 5

DecodeJoint ==
  /\ At("joint") /\ JointInputs
  /\ LET objects == unit.joc.objects
         kept == Reconfigure(joc, Len(objects))
         decoded == [o \in DOMAIN objects |-> DecodeObject(kept[o], objects[o], pushed)]
     IN  /\ joc' = [o \in DOMAIN objects |-> decoded[o].state]
         /\ matrices' = [o \in DOMAIN objects |-> decoded[o].matrices]
         /\ object_channels' = Len(objects)
  /\ Advanced("joint")
  /\ Proceed("render")
  /\ UNCHANGED <<front_end, last_rendered, history>>

\* Nothing is touched before the channels were found.
FailJoint ==
  /\ At("joint") /\ ~JointInputs
  /\ Fail
  /\ UNCHANGED <<reached, decoding>>

RenderFrame ==
  /\ At("render")
  /\ last_rendered' = pushed
  /\ Advanced("render")
  /\ Proceed("done")
  /\ UNCHANGED <<front_end, decoding, history>>

\* The renderer refuses a frame (Renderer714), before or after its own state has moved on.
FailRender ==
  /\ At("render")
  /\ reached' \in {reached, [reached EXCEPT !["render"] = pushed]}
  /\ Fail
  /\ UNCHANGED decoding

\* What the renderer still held is lent like a frame, or nothing is.
Flush ==
  /\ front_end = "handle" /\ unit = Nothing
  /\ last_rendered' \in {Nothing, reached["render"]}
  /\ last_rendered' # 0
  /\ UNCHANGED <<front_end, counting, decoding, unit, stage, history>>

Reset ==
  /\ unit = Nothing
  /\ frames_seen' = 0 /\ reached' = NoneReached
  /\ joc' = << >> /\ matrices' = << >>
  /\ object_channels' = 0
  /\ last_rendered' = Nothing
  /\ pushed' = 0 /\ last_objects' = 0 /\ sound' = TRUE
  /\ UNCHANGED <<front_end, unit, stage>>

Next ==
  \/ \E u \in Units : Push(u)
  \/ InspectUnit
  \/ RejectUnit
  \/ DecodeCore
  \/ FailCore
  \/ DecodeJoint
  \/ FailJoint
  \/ RenderFrame
  \/ FailRender
  \/ Flush
  \/ Reset

Spec == Init /\ [][Next]_vars

----------------------------------------------------------------------------
(***************************************************************************)
(* Properties.                                                             *)
(***************************************************************************)

\* What joint object coding keeps of an object between frames: the gains its last active frame
\* ended with, all of one data point and each of a band that was sent, and a filterbank that, once
\* the object was heard, has run in every frame decoded since.
JocCarriesOn ==
  \A o \in DOMAIN joc :
    /\ \A s \in Subband :
         /\ joc[o].prev[s].frame = joc[o].active_in
         /\ joc[o].prev[s].point = joc[o].prev[1].point
    /\ joc[o].history = (joc[o].active_in # 0)
    /\ joc[o].history => joc[o].fed = reached["joint"]
    /\ ~joc[o].history => joc[o].fed = 0

\* The objects of the frame decoded last, and what they were mixed by.
Smooth(object) == object.active /\ ~object.steep_slope

\* A gentle slope ends where the next frame begins, whatever its points; with one point it is made
\* of nothing but that point and the gains before it.
SlopesJoin ==
  (unit # Nothing /\ stage = "render") =>
    \A o \in DOMAIN joc :
      LET object == unit.joc.objects[o]
          last == matrices[o][Timeslots - 1]
      IN  Smooth(object) =>
            /\ \A s \in Subband : last[s] = {joc[o].prev[s]}
            /\ object.data_points = 1 =>
                 \A t \in 0 .. Timeslots - 1, s \in Subband :
                   \A gain \in matrices[o][t][s] : gain = joc[o].prev[s] \/ gain.frame < pushed

\* Stages fall apart only by failures: without one since the last reset, those with objects have
\* all been advanced by the last unit that had any, and the others by the last unit; every front end
\* but the object decoder counts the units.
StagesTogether ==
  (unit = Nothing /\ sound) =>
    /\ reached["inspect"] = pushed
    /\ front_end \in {"object", "handle"} => reached["core"] = last_objects /\ reached["joint"] = last_objects
    /\ front_end = "handle" => reached["render"] = last_objects
    /\ front_end = "pcm" => reached["core"] = pushed
    /\ front_end # "object" => frames_seen = pushed

\* pcm.rs:204 says of frames_seen: "Number of access units accepted since the last reset."  A unit
\* for which the object decoder returns Ok(None) was not refused, and yet is not counted: a claim
\* of the comment that the code does not keep.
FramesSeenCountsAccepted ==
  (unit = Nothing /\ sound) => frames_seen = pushed
=============================================================================
