------------------------- MODULE MetadataRenderer -------------------------
(***************************************************************************)
(* How the renderer evaluates object metadata: a payload replaces the      *)
(* metadata in force, and each render timeslot picks an element of it,     *)
(* takes the blocks that came due and moves the sources along their ramps. *)
(* Renderer714 models when these two operations are called.                *)
(*                                                                         *)
(* Time is relative: adjusted is the distance from the payload to the next *)
(* timeslot, the only time the code looks at.  A gain is a value; a place  *)
(* is a block's target, the default place, or Between, on the way to one.  *)
(***************************************************************************)
EXTENDS Integers, Sequences

CONSTANTS
  Timeslot,     \* RENDER_TIMESLOT_SAMPLES
  Gains,
  DefaultGain,  \* 0.707
  Places,
  Origin,       \* ZERO_VEC3
  Between,
  Unset,        \* None, where a block leaves out a gain, or a speaker anchor gives no place
  Payloads,     \* the RenderMetadata values that may arrive
  MaxAge,       \* bound: a payload is replaced before a timeslot starts later than this after it
  MaxDelay      \* bound: a payload is dated at most this long before the next timeslot

ObjectBlock == [gain : Gains \cup {Unset}, position_valid : BOOLEAN, target : Places \cup {Unset}]

Block == [offset : Nat, ramp_duration : Nat, objects : Seq(ObjectBlock)]

\* Every block of a payload describes all of its objects, beds first.
WellFormed(p) ==
  \A k \in DOMAIN p.elements : \A b \in DOMAIN p.elements[k] :
    Len(p.elements[k][b].objects) = p.object_count

Payload == [object_count : Nat, bed_or_isf_objects : Nat, bed_channels : Nat,
            elements : Seq(Seq(Block))]

ASSUME MetadataAssumption ==
  /\ Timeslot \in Nat \ {0}
  /\ DefaultGain \in Gains /\ Unset \notin Gains
  /\ Origin \in Places /\ Unset \notin Places \cup {Between} /\ Between \notin Places
  /\ Payloads \subseteq Payload
  /\ \A p \in Payloads : WellFormed(p)
  /\ MaxAge \in Nat /\ MaxDelay \in Nat

VARIABLES
  initialized,
  adjusted,             \* timeslot_stream_sample - payload_stream_sample of the next timeslot
  object_count,
  bed_or_isf_objects,
  bed_sources,          \* one gain for each bed channel
  dynamic_sources,
  elements,             \* a sequence of ElementRendererState
  pc,
  active,               \* the element this timeslot evaluates
  steady                \* history: no payload moved the border between beds and dynamic objects
                        \* at an unchanged object count, or named more bed channels than objects

layout == <<initialized, object_count, bed_or_isf_objects, steady>>
sources == <<bed_sources, dynamic_sources>>
vars == <<layout, adjusted, sources, elements, pc, active>>

Init ==
  /\ initialized = FALSE
  /\ adjusted = 0
  /\ object_count = 0
  /\ bed_or_isf_objects = 0
  /\ bed_sources = << >>
  /\ dynamic_sources = << >>
  /\ elements = << >>
  /\ pc = "idle"
  /\ active = 1
  /\ steady = TRUE

-----------------------------------------------------------------------------
(***************************************************************************)
(* apply_update                                                            *)
(***************************************************************************)

\* usize::saturating_sub
Saturated(m, n) == IF m > n THEN m - n ELSE 0

DefaultSource == [gain |-> DefaultGain, place |-> Origin, position_valid |-> FALSE]

Repeat(n, value) == [i \in 1 .. n |-> value]

\* A vector is kept while its length fits, and replaced by defaults otherwise.
Resized(vector, n, value) == IF Len(vector) = n THEN vector ELSE Repeat(n, value)

DefaultElement ==
  [objects |-> 0, blocks |-> << >>, used |-> << >>,
   update_last |-> << >>, update_now |-> << >>, future |-> << >>, future_distance |-> 0]

Fault_DimensionsOfBlocksOnly(element, blocks, objects) == Len(element.used) # Len(blocks)

\* Does an element's state not fit the new payload?
Outgrown(element, blocks, objects) ==
  Len(element.used) # Len(blocks) \/ element.objects # objects

Fault_UsedKept(element, blocks, objects, dynamic) ==
  IF Outgrown(element, blocks, objects)
    THEN [objects |-> objects, blocks |-> blocks, used |-> Repeat(Len(blocks), FALSE),
          update_last |-> Repeat(dynamic, FALSE), update_now |-> Repeat(dynamic, FALSE),
          future |-> Repeat(dynamic, Origin), future_distance |-> 0]
    ELSE [element EXCEPT !.blocks = blocks]

\* apply_element: a ramp in flight goes on under the new payload when the dimensions are the same.
AppliedElement(element, blocks, objects, dynamic) ==
  IF Outgrown(element, blocks, objects)
    THEN [objects |-> objects, blocks |-> blocks, used |-> Repeat(Len(blocks), FALSE),
          update_last |-> Repeat(dynamic, FALSE), update_now |-> Repeat(dynamic, FALSE),
          future |-> Repeat(dynamic, Origin), future_distance |-> 0]
    ELSE [element EXCEPT !.blocks = blocks, !.used = Repeat(Len(blocks), FALSE)]

\* The payload is dated age samples before the next timeslot: inside the timeslot in progress, or
\* further back where a push that failed in mid-frame left the slot clock ahead; or, at the start
\* of a frame, it restarts the slot clock and the next timeslot starts with it.
ApplyUpdate(p, age) ==
  LET dynamic == Saturated(p.object_count, p.bed_or_isf_objects)
      kept    == Resized(elements, Len(p.elements), DefaultElement)
  IN
  /\ pc = "idle"
  /\ initialized \/ age = 0
  /\ initialized' = TRUE
  /\ adjusted' = age
  /\ object_count' = p.object_count
  /\ bed_or_isf_objects' = p.bed_or_isf_objects
  /\ bed_sources' = Resized(bed_sources, p.bed_channels, DefaultGain)
  /\ dynamic_sources' = Resized(dynamic_sources, dynamic, DefaultSource)
  /\ elements' = [k \in DOMAIN kept |->
                    AppliedElement(kept[k], p.elements[k], p.object_count, dynamic)]
  /\ steady' = /\ steady
               /\ p.bed_channels <= p.object_count
               /\ p.object_count = object_count => p.bed_or_isf_objects = bed_or_isf_objects
  /\ UNCHANGED <<pc, active>>

-----------------------------------------------------------------------------
(***************************************************************************)
(* update_timeslot and update_sources                                      *)
(***************************************************************************)

\* An element without blocks has min_offset -1 and is never evaluated.
Begun(k) == elements[k].blocks # << >> /\ elements[k].blocks[1].offset <= adjusted

\* The last element that has begun; the first one while none has.
IsActive(k) ==
  /\ k \in DOMAIN elements
  /\ \/ Begun(k) /\ \A j \in DOMAIN elements : j > k => ~Begun(j)
     \/ k = 1 /\ \A j \in DOMAIN elements : ~Begun(j)

NothingToEvaluate == \A k \in DOMAIN elements : IsActive(k) => elements[k].blocks = << >>

\* Nothing was in force, or nothing but elements without blocks: the timeslot keeps its sources.
SkipTimeslot ==
  /\ pc = "idle" /\ initialized /\ adjusted <= MaxAge
  /\ NothingToEvaluate
  /\ adjusted' = adjusted + Timeslot
  /\ UNCHANGED <<layout, sources, elements, pc, active>>

OpenTimeslot ==
  /\ pc = "idle" /\ initialized /\ adjusted <= MaxAge
  /\ ~NothingToEvaluate
  /\ \E k \in DOMAIN elements :
       /\ IsActive(k)
       /\ active' = k
       /\ elements' = [elements EXCEPT ![k].update_last = elements[k].update_now]
  /\ pc' = "blocks"
  /\ UNCHANGED <<layout, adjusted, sources>>

\* A block is due once the timeslot starts after it, not when it starts with it.
Due(b) == ~elements[active].used[b] /\ adjusted > elements[active].blocks[b].offset

DueBlocks == {b \in DOMAIN elements[active].used : Due(b)}

Fault_LastBlockFirst(b) == b \in DueBlocks /\ \A c \in DueBlocks : c <= b

\* Blocks are taken in the order of the payload.
IsNextBlock(b) == b \in DueBlocks /\ \A c \in DueBlocks : b <= c

Fault_LatenessIgnored(block) == block.ramp_duration

\* What is left of the ramp of a block taken late.
RampLeft(block) == block.ramp_duration - (adjusted - block.offset)

IfSet(value, default) == IF value = Unset THEN default ELSE value

\* Indices into info_blocks, update_now and future that a block needs.
IndicesExist(element) ==
  /\ Len(bed_sources) <= element.objects
  /\ dynamic_sources # << >> => Len(dynamic_sources) + bed_or_isf_objects <= element.objects
  /\ Len(dynamic_sources) <= Len(element.update_now)

\* Where an object is sent by its part of a block.  One that is anchored to a speaker has no
\* target and stays; both decoders give any other a place with its valid position, so the place
\* that the same block of an earlier payload had is never gone back to (but see README.md on
\* differential positions).
Target(part, source) ==
  IF part.position_valid THEN IfSet(part.target, source.place) ELSE source.place

Reached(part, distance) == part.position_valid /\ distance <= 0

\* An index out of range unwinds and leaves the state as it is.
Panic ==
  /\ pc' = "panicked"
  /\ UNCHANGED <<layout, adjusted, sources, elements, active>>

\* A dynamic object's part of a block: bed objects come first.
Part(block, i) == block.objects[i + bed_or_isf_objects]

TakenSource(block, i) ==
  LET source == dynamic_sources[i]
      lands  == Reached(Part(block, i), RampLeft(block))
  IN [gain           |-> IfSet(Part(block, i).gain, source.gain),
      place          |-> IF lands THEN Target(Part(block, i), source) ELSE source.place,
      position_valid |-> lands \/ source.position_valid]

TakenElement(element, b) ==
  LET block == element.blocks[b] IN
  [element EXCEPT
     !.used[b] = TRUE,
     !.future_distance = RampLeft(block),
     !.update_now = [i \in DOMAIN element.update_now |->
        IF i \in DOMAIN dynamic_sources THEN Part(block, i).position_valid
                                        ELSE element.update_now[i]],
     !.future = [i \in DOMAIN element.future |->
        IF i \in DOMAIN dynamic_sources THEN Target(Part(block, i), dynamic_sources[i])
                                        ELSE element.future[i]]]

TakeBlock ==
  /\ pc = "blocks"
  /\ \E b \in DueBlocks :
       LET block == elements[active].blocks[b] IN
       /\ IsNextBlock(b)
       /\ IF ~IndicesExist(elements[active])
            THEN Panic
            ELSE /\ bed_sources' = [k \in DOMAIN bed_sources |->
                                      IfSet(block.objects[k].gain, bed_sources[k])]
                 /\ dynamic_sources' = [i \in DOMAIN dynamic_sources |-> TakenSource(block, i)]
                 /\ elements' = [elements EXCEPT ![active] = TakenElement(elements[active], b)]
                 /\ UNCHANGED <<layout, adjusted, pc, active>>

Fault_LandsOneSlotLate(from, to, distance) ==
  IF from = to \/ distance < Timeslot THEN to ELSE Between

\* lerp with t = min(1, timeslot / distance)
Lerp(from, to, distance) == IF from = to \/ distance <= Timeslot THEN to ELSE Between

\* A source that has a target moves towards it; without a place to come from it jumps there.
RampedSource(element, i) ==
  LET source == dynamic_sources[i] IN
  IF ~element.update_now[i]
    THEN source
    ELSE [source EXCEPT
            !.place = IF element.update_last[i] /\ source.position_valid
                        THEN Lerp(source.place, element.future[i], element.future_distance)
                        ELSE element.future[i],
            !.position_valid = TRUE]

CloseTimeslot ==
  /\ pc = "blocks" /\ DueBlocks = {}
  /\ elements[active].future_distance <= 0
  /\ adjusted' = adjusted + Timeslot
  /\ pc' = "idle"
  /\ UNCHANGED <<layout, sources, elements, active>>

RampAndClose ==
  /\ pc = "blocks" /\ DueBlocks = {}
  /\ elements[active].future_distance > 0
  /\ IF Len(dynamic_sources) > Len(elements[active].update_now)
       THEN Panic
       ELSE /\ dynamic_sources' = [i \in DOMAIN dynamic_sources |->
                                     RampedSource(elements[active], i)]
            /\ elements' = [elements EXCEPT ![active].future_distance = @ - Timeslot]
            /\ adjusted' = adjusted + Timeslot
            /\ pc' = "idle"
            /\ UNCHANGED <<layout, bed_sources, active>>

Reset ==
  /\ pc \in {"idle", "panicked"}
  /\ initialized' = FALSE
  /\ adjusted' = 0
  /\ object_count' = 0
  /\ bed_or_isf_objects' = 0
  /\ bed_sources' = << >>
  /\ dynamic_sources' = << >>
  /\ elements' = << >>
  /\ pc' = "idle"
  /\ active' = 1
  /\ steady' = TRUE

Next ==
  \/ \E p \in Payloads, age \in 0 .. MaxDelay : ApplyUpdate(p, age)
  \/ SkipTimeslot
  \/ OpenTimeslot
  \/ TakeBlock
  \/ CloseTimeslot
  \/ RampAndClose
  \/ Reset

Spec == Init /\ [][Next]_vars

-----------------------------------------------------------------------------
(***************************************************************************)
(* Properties                                                              *)
(***************************************************************************)

ElementState ==
  [objects : Nat, blocks : Seq(Block), used : Seq(BOOLEAN),
   update_last : Seq(BOOLEAN), update_now : Seq(BOOLEAN),
   future : Seq(Places \cup {Between}), future_distance : Int]

Source == [gain : Gains, place : Places \cup {Between}, position_valid : BOOLEAN]

\* Every variable has the values the code can give it, and the vectors of an element are as long
\* as the loops over them assume.
TypeOK ==
  /\ initialized \in BOOLEAN
  /\ adjusted \in Nat
  /\ object_count \in Nat
  /\ bed_or_isf_objects \in Nat
  /\ bed_sources \in Seq(Gains)
  /\ dynamic_sources \in Seq(Source)
  /\ elements \in Seq(ElementState)
  /\ \A k \in DOMAIN elements :
       LET e == elements[k] IN
       /\ Len(e.used) = Len(e.blocks)
       /\ Len(e.update_last) = Len(e.update_now) /\ Len(e.future) = Len(e.update_now)
       /\ \A b \in DOMAIN e.blocks : Len(e.blocks[b].objects) = e.objects
  /\ pc \in {"idle", "blocks", "panicked"}
  /\ active \in Nat \ {0}
  /\ pc = "blocks" => active \in DOMAIN elements
  /\ steady \in BOOLEAN

\* Evaluating a timeslot never indexes past the per-object state of its element, through any
\* change of object count, elements, blocks and bed channels, as long as the border between bed
\* and dynamic objects only moves together with the object count.
NoPanic == steady => pc # "panicked"

\* With a single object element, a source whose ramp ran out is at the target of the last block
\* that gave it one: no ramp ends short, and none is resumed after it was superseded.
RampsLand ==
  steady /\ pc = "idle" /\ Len(elements) = 1 =>
    LET e == elements[1] IN
    e.future_distance <= 0 =>
      \A i \in DOMAIN dynamic_sources : e.update_now[i] => dynamic_sources[i].place = e.future[i]

\* Blocks that set the gain of an object.
GainBlocks(blocks, object) == {b \in DOMAIN blocks : blocks[b].objects[object].gain # Unset}

\* Once all blocks of a payload were taken, in one timeslot or over several, each source has the
\* gain of the last block that sets it: it does not matter how the timeslots cut the payload.  This
\* is so for payloads whose blocks are in the order of their offsets.
GainsInForce ==
  steady /\ pc = "idle" /\ Len(elements) = 1 =>
    LET e == elements[1]
        InForce(gain, object) ==
          \A b \in GainBlocks(e.blocks, object) :
            (\A c \in GainBlocks(e.blocks, object) : c <= b) => gain = e.blocks[b].objects[object].gain
    IN (\A b \in DOMAIN e.used : e.used[b]) =>
         /\ \A k \in DOMAIN bed_sources : InForce(bed_sources[k], k)
         /\ \A i \in DOMAIN dynamic_sources :
              InForce(dynamic_sources[i].gain, i + bed_or_isf_objects)

\* A ramp is over when its samples are: from the first timeslot that starts at or after the end of
\* the ramp counted from its block on, however late in the timeslots the block was taken.
RampsOnTime ==
  pc = "idle" /\ Len(elements) = 1 =>
    LET e == elements[1] IN
    \A b \in DOMAIN e.used :
      /\ e.used[b] /\ \A c \in DOMAIN e.used : e.used[c] => c <= b
      /\ adjusted >= e.blocks[b].offset + e.blocks[b].ramp_duration
      => e.future_distance <= 0

(***************************************************************************)
(* A claim of the code's comments that the code does not keep: it fails    *)
(* with the payloads ResplitPayloads of MCMetadataRenderer.                *)
(***************************************************************************)

\* "we only validate the dynamic object side here": metadata whose dynamic objects agree with the
\* frame's can be evaluated.  It panics when bed objects become dynamic ones, or dynamic ones
\* beds, at the same object count: update_now keeps its old length.
DynamicSideValidated == pc # "panicked"
=============================================================================
