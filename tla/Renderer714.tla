---------------------------- MODULE Renderer714 ----------------------------
(***************************************************************************)
(* The 7.1.4 renderer: how push_frame walks a frame (metadata updates,     *)
(* render timeslots, silent start-up), how the output limiter holds back a *)
(* partial block, and how flush and reset end a stream.                    *)
(*                                                                         *)
(* A definition named Fault_... is a plausible slip in the definition that *)
(* follows it.  Nothing uses them: they show that the properties below can *)
(* tell the code from code with that slip.                                 *)
(*                                                                         *)
(* A push is a sequential call, so its steps are the steps of the code: no *)
(* other call is possible while pc is not "idle".  Audio is abstracted to  *)
(* sample counts, a debug row to the stream position of the timeslot it    *)
(* describes, a metadata payload to the two things the control depends on: *)
(* its number of dynamic objects and its bed channels.                     *)
(***************************************************************************)
EXTENDS Integers, Sequences, FiniteSets

CONSTANTS
  Timeslot,         \* RENDER_TIMESLOT_SAMPLES, also the limiter's block
  SampleRates,
  NoRate,           \* sample_rate is None
  Frames,           \* the RenderInputFrames a caller may push
  NoFrame,          \* no push is in progress
  MaxStream         \* bound: no push moves the stream or the slot clock past it

BedChannel == {"FrontLeft", "RearCenter", "LowFrequencyEffects", "LowFrequencyEffects2"}

Metadata == [dynamic_objects : Nat, bed_channels : SUBSET BedChannel]

Update == [sample_offset : Nat, metadata : Metadata]

\* lengths_agree is FALSE when some channel differs in length from the first one.
Frame ==
  [sample_rate : SampleRates, samples : Nat, lengths_agree : BOOLEAN,
   bed_channels : SUBSET BedChannel, objects : Nat, updates : Seq(Update)]

ASSUME RendererAssumption ==
  /\ Timeslot \in Nat \ {0}
  /\ NoRate \notin SampleRates
  /\ Frames \subseteq Frame
  /\ NoFrame \notin Frames
  /\ MaxStream \in Nat

\* A frame without channels has no samples (samples_per_channel falls back to 0).
ASSUME EmptyFrameAssumption ==
  \A f \in Frames : f.bed_channels = {} /\ f.objects = 0 => f.samples = 0

VARIABLES
  limiter_disabled,       \* STARMINE_AD_DISABLE_LIMITER, set or not for the life of the process
  sample_rate,
  stream_sample_offset,   \* samples of all pushes that succeeded
  phase,                  \* metadata_timeslot_phase
  slot_start,             \* metadata_timeslot_stream_sample
  metadata,               \* the part of MetadataRendererState the control reads
  limiter_pending,        \* length of the limiter_pending vectors
  pending_debug,          \* pending_timeslot_debug
  (* the push in progress *)
  pc,
  frame,
  todo,                   \* indices of frame.updates not applied yet
  sample_offset,
  frame_debug,            \* rows made by this push
  result,                 \* what the last call returned
  (* history, read by no action: what the properties compare against *)
  emitted,                \* samples returned to the caller since the last reset
  anchor,                 \* stream position where the slot clock was last set
  skewed,                 \* a push failed after the slot clock was last set
  faulted,                \* since the last reset a push failed mid-frame or a block stayed silent
  aligned                 \* so far no push failed mid-frame and slots started on block boundaries

stream == <<limiter_disabled, sample_rate, stream_sample_offset, limiter_pending, pending_debug>>
clock == <<phase, slot_start>>
call == <<pc, frame, todo, sample_offset, frame_debug, result>>
history == <<emitted, anchor, skewed, faulted, aligned>>
vars == <<stream, clock, metadata, call, history>>

NoMetadata ==
  [initialized |-> FALSE, payload_stream_sample |-> 0,
   dynamic_objects |-> 0, bed_channels |-> {}]

Init ==
  /\ limiter_disabled \in BOOLEAN
  /\ sample_rate = NoRate
  /\ stream_sample_offset = 0
  /\ phase = 0
  /\ slot_start = 0
  /\ metadata = NoMetadata
  /\ limiter_pending = 0
  /\ pending_debug = << >>
  /\ pc = "idle"
  /\ frame = NoFrame
  /\ todo = {}
  /\ sample_offset = 0
  /\ frame_debug = << >>
  /\ result = "none"
  /\ emitted = 0
  /\ anchor = 0
  /\ skewed = FALSE
  /\ faulted = FALSE
  /\ aligned = TRUE

-----------------------------------------------------------------------------
(***************************************************************************)
(* Operators of a push                                                     *)
(***************************************************************************)

OffsetOf(i) == frame.updates[i].sample_offset

\* sort_by_key is stable: updates at the same offset keep their order.
Fault_Unsorted(i, j) == i < j

Before(i, j) ==
  \/ OffsetOf(i) < OffsetOf(j)
  \/ OffsetOf(i) = OffsetOf(j) /\ i < j

IsNextUpdate(i) == i \in todo /\ \A j \in todo \ {i} : Before(i, j)

\* Where the next update is, if there is one.
NextOffset == {OffsetOf(i) : i \in {j \in todo : IsNextUpdate(j)}}

\* Is there an update to apply before the sample at this offset of the frame?
Due(offset) == \E next \in NextOffset : next <= offset

\* MetadataRendererState::apply_update, as far as the control reads it.
Applied(i) ==
  [initialized           |-> TRUE,
   payload_stream_sample |-> stream_sample_offset + OffsetOf(i),
   dynamic_objects       |-> frame.updates[i].metadata.dynamic_objects,
   bed_channels          |-> frame.updates[i].metadata.bed_channels]

Fault_ClockFromFrameStart(position) ==
  IF metadata.initialized
    THEN UNCHANGED <<clock, anchor>>
    ELSE phase' = 0 /\ slot_start' = stream_sample_offset /\ anchor' = position

\* The slot clock starts at the first payload ever applied.
StartClockAt(position) ==
  IF metadata.initialized
    THEN UNCHANGED <<clock, anchor>>
    ELSE /\ phase' = 0
         /\ slot_start' = position
         /\ anchor' = position

Fault_SpareChannelsAccepted(sources, provided) == sources <= provided

\* validate_dynamic_object_count: the sources the metadata makes against the channels provided.
CountsAgree(sources, provided) == sources = provided

LowFrequency == {"LowFrequencyEffects", "LowFrequencyEffects2"}

\* The input channel a metadata bed channel is mixed from; LFE and LFE2 stand in for each other.
HasInput(channel, provided) ==
  \/ channel \in provided
  \/ channel \in LowFrequency /\ provided \cap LowFrequency # {}

\* RearCenter has no place in the 7.1.4 layout.
Mixable(requested, provided) ==
  \A channel \in requested : HasInput(channel, provided) /\ channel # "RearCenter"

\* Start-up silence lasts until the next update or the end of the frame.
SilenceEnds == {frame.samples} \cup NextOffset

Fault_SlotOverrun == SilenceEnds

\* A rendered segment also ends with its timeslot.
SegmentEnds == {sample_offset + (Timeslot - phase)} \cup SilenceEnds

Fault_SlotPerFrame == phase = 0 /\ sample_offset = 0
Fault_SlotPerSegment == TRUE

\* A new timeslot: update_timeslot runs and a debug row is made.
OpensSlot == phase = 0

Earliest(ends, end) == end \in ends /\ \A e \in ends : end <= e

\* The call returns; whatever it collected for this frame is dropped.
Return(outcome) ==
  /\ pc' = "idle"
  /\ frame' = NoFrame
  /\ todo' = {}
  /\ sample_offset' = 0
  /\ frame_debug' = << >>
  /\ result' = outcome

\* An error leaves the loop with the clock and the metadata as they are.
FailMidFrame(error) ==
  /\ Return(error)
  /\ skewed' = TRUE
  /\ faulted' = TRUE
  /\ aligned' = FALSE
  /\ UNCHANGED <<stream, emitted>>

-----------------------------------------------------------------------------
(***************************************************************************)
(* push_frame, in the order of push_frame_parts_impl and finalize_output   *)
(***************************************************************************)

Pushable(f) ==
  /\ pc = "idle"
  /\ stream_sample_offset + f.samples <= MaxStream
  /\ slot_start + phase + f.samples <= MaxStream

PushWrongRate(f) ==
  /\ Pushable(f)
  /\ sample_rate \notin {NoRate, f.sample_rate}
  /\ Return("SampleRateChanged")
  /\ UNCHANGED <<stream, clock, metadata, history>>

\* The sample rate is latched before the frame is found unusable.
PushWithoutMetadata(f) ==
  /\ Pushable(f)
  /\ sample_rate \in {NoRate, f.sample_rate}
  /\ ~metadata.initialized /\ f.updates = << >>
  /\ sample_rate' = f.sample_rate
  /\ Return("MissingOamd")
  /\ UNCHANGED <<limiter_disabled, stream_sample_offset, limiter_pending, pending_debug, clock, metadata, history>>

BeginPush(f) ==
  /\ Pushable(f)
  /\ sample_rate \in {NoRate, f.sample_rate}
  /\ metadata.initialized \/ f.updates # << >>
  /\ sample_rate' = f.sample_rate
  /\ pc' = "head"
  /\ frame' = f
  /\ todo' = DOMAIN f.updates
  /\ UNCHANGED <<limiter_disabled, stream_sample_offset, limiter_pending, pending_debug, clock, metadata,
                 sample_offset, frame_debug, result, history>>

\* An update at offset 0, applied before anything else of the frame is checked.
ApplyLeadingUpdate ==
  /\ pc = "head"
  /\ \E i \in todo :
       /\ IsNextUpdate(i)
       /\ OffsetOf(i) = 0
       /\ metadata' = Applied(i)
       /\ StartClockAt(stream_sample_offset)
       /\ IF ~CountsAgree(Applied(i).dynamic_objects, frame.objects)
            THEN Return("ObjectCountMismatch")
            ELSE /\ todo' = todo \ {i}
                 /\ UNCHANGED <<pc, frame, sample_offset, frame_debug, result>>
  /\ UNCHANGED <<stream, emitted, skewed, faulted, aligned>>

Fault_PhaseOnly ==
  IF todo # DOMAIN frame.updates
    THEN /\ phase' = 0
         /\ anchor' = stream_sample_offset
         /\ skewed' = FALSE
         /\ aligned' = (aligned /\ limiter_pending = 0)
         /\ UNCHANGED slot_start
    ELSE UNCHANGED <<clock, anchor, skewed, aligned>>

\* Once a leading update was applied the slot clock restarts at the frame.
RestartClock ==
  IF todo # DOMAIN frame.updates
    THEN /\ phase' = 0
         /\ slot_start' = stream_sample_offset
         /\ anchor' = stream_sample_offset
         /\ skewed' = FALSE
         /\ aligned' = (aligned /\ limiter_pending = 0)
    ELSE UNCHANGED <<clock, anchor, skewed, aligned>>

BeginLoop ==
  /\ pc = "head"
  /\ ~Due(0)
  /\ RestartClock
  /\ CASE ~frame.lengths_agree \/ frame.samples = 0 -> Return("UnsupportedSampleCount")
       [] frame.lengths_agree /\ frame.samples # 0
            /\ metadata.initialized /\ ~CountsAgree(metadata.dynamic_objects, frame.objects) ->
              Return("ObjectCountMismatch")
       [] OTHER -> pc' = "loop" /\ UNCHANGED <<frame, todo, sample_offset, frame_debug, result>>
  /\ UNCHANGED <<stream, metadata, emitted, faulted>>

InFrame == pc = "loop" /\ sample_offset < frame.samples

\* An update inside the frame; it starts the slot clock only when it is the very first.
ApplyDueUpdate ==
  /\ InFrame
  /\ \E i \in todo :
       /\ IsNextUpdate(i)
       /\ OffsetOf(i) <= sample_offset
       /\ metadata' = Applied(i)
       /\ StartClockAt(stream_sample_offset + OffsetOf(i))
       /\ IF ~CountsAgree(Applied(i).dynamic_objects, frame.objects)
            THEN FailMidFrame("ObjectCountMismatch")
            ELSE /\ todo' = todo \ {i}
                 /\ UNCHANGED <<stream, pc, frame, sample_offset, frame_debug, result,
                                emitted, skewed, faulted, aligned>>

\* Output stays silent until the first payload; no timeslot is made for the silence.
SkipSilence ==
  /\ InFrame /\ ~Due(sample_offset)
  /\ ~metadata.initialized
  /\ \E end \in SilenceEnds :
       /\ Earliest(SilenceEnds, end)
       /\ IF end <= sample_offset
            THEN FailMidFrame("OamdStateUninitialized")
            ELSE /\ sample_offset' = end
                 /\ faulted' = (faulted \/ limiter_pending + end >= Timeslot)
                 /\ aligned' = FALSE
                 /\ UNCHANGED <<stream, pc, frame, todo, frame_debug, result, emitted, skewed>>
  /\ UNCHANGED <<clock, metadata, anchor>>

\* Render up to end; the slot clock advances with the samples.
MixUpTo(end) ==
  LET mixed == phase + (end - sample_offset) IN
  /\ sample_offset' = end
  /\ phase' = IF mixed = Timeslot THEN 0 ELSE mixed
  /\ slot_start' = IF mixed = Timeslot THEN slot_start + Timeslot ELSE slot_start
  /\ frame_debug' = IF OpensSlot
                      THEN Append(frame_debug, stream_sample_offset + sample_offset)
                      ELSE frame_debug
  /\ UNCHANGED <<stream, pc, frame, todo, result, emitted, skewed, faulted, aligned>>

\* One segment of one timeslot: the slot is opened when phase is 0, then beds and objects are mixed.
MixSegment ==
  /\ InFrame /\ ~Due(sample_offset)
  /\ metadata.initialized
  /\ IF Mixable(metadata.bed_channels, frame.bed_channels)
       THEN \E end \in SegmentEnds : Earliest(SegmentEnds, end) /\ MixUpTo(end)
       ELSE FailMidFrame("BedChannelError") /\ UNCHANGED clock
  /\ UNCHANGED <<metadata, anchor>>

Fault_LastBlockKept(samples) == (samples - 1) \div Timeslot
Fault_PartialBlockTaken(samples) == (samples + Timeslot - 1) \div Timeslot

\* take_ready_output: every complete block leaves the limiter together with one row per block.
ReadyBlocks(samples) == samples \div Timeslot

FinishPush ==
  /\ pc = "loop" /\ sample_offset >= frame.samples
  /\ stream_sample_offset' = stream_sample_offset + frame.samples
  /\ IF limiter_disabled
       THEN /\ emitted' = emitted + frame.samples
            /\ Return("frame")
            /\ UNCHANGED <<limiter_pending, pending_debug>>
       ELSE LET samples == limiter_pending + frame.samples
                rows    == pending_debug \o frame_debug
                blocks  == ReadyBlocks(samples)
            IN /\ limiter_pending' = samples - blocks * Timeslot
               /\ IF blocks <= Len(rows)
                    THEN /\ pending_debug' = SubSeq(rows, blocks + 1, Len(rows))
                         /\ emitted' = emitted + blocks * Timeslot
                         /\ Return("frame")
                    ELSE \* Vec::drain past the end of pending_timeslot_debug
                         /\ pending_debug' = rows
                         /\ pc' = "panicked"
                         /\ UNCHANGED <<frame, todo, sample_offset, frame_debug, result, emitted>>
  /\ UNCHANGED <<limiter_disabled, sample_rate, clock, metadata, anchor, skewed, faulted, aligned>>

-----------------------------------------------------------------------------
(***************************************************************************)
(* flush and reset                                                         *)
(***************************************************************************)

ClearLimiter == limiter_pending' = 0 /\ pending_debug' = << >>

Flush ==
  /\ pc = "idle"
  /\ IF limiter_disabled \/ limiter_pending = 0 \/ sample_rate = NoRate
       THEN /\ result' = "none"
            /\ UNCHANGED <<limiter_pending, pending_debug, emitted, aligned>>
       ELSE /\ result' = "flushed"
            /\ ClearLimiter
            /\ emitted' = emitted + limiter_pending
            /\ aligned' = FALSE
  /\ UNCHANGED <<limiter_disabled, sample_rate, stream_sample_offset, clock, metadata,
                 pc, frame, todo, sample_offset, frame_debug, anchor, skewed, faulted>>

\* Also what a caller who caught the unwinding of a panic has to do.
Reset ==
  /\ pc \in {"idle", "panicked"}
  /\ UNCHANGED limiter_disabled
  /\ sample_rate' = NoRate
  /\ stream_sample_offset' = 0
  /\ phase' = 0
  /\ slot_start' = 0
  /\ metadata' = NoMetadata
  /\ ClearLimiter
  /\ Return("none")
  /\ emitted' = 0
  /\ anchor' = 0
  /\ skewed' = FALSE
  /\ faulted' = FALSE
  /\ aligned' = TRUE

Next ==
  \/ \E f \in Frames : PushWrongRate(f) \/ PushWithoutMetadata(f) \/ BeginPush(f)
  \/ ApplyLeadingUpdate
  \/ BeginLoop
  \/ ApplyDueUpdate
  \/ SkipSilence
  \/ MixSegment
  \/ FinishPush
  \/ Flush
  \/ Reset

Spec == Init /\ [][Next]_vars

-----------------------------------------------------------------------------
(***************************************************************************)
(* Properties                                                              *)
(***************************************************************************)

Outcome ==
  {"none", "frame", "flushed", "SampleRateChanged", "MissingOamd", "ObjectCountMismatch",
   "UnsupportedSampleCount", "BedChannelError", "OamdStateUninitialized"}

FlagsOK ==
  /\ limiter_disabled \in BOOLEAN
  /\ skewed \in BOOLEAN
  /\ faulted \in BOOLEAN
  /\ aligned \in BOOLEAN

DataOK ==
  /\ sample_rate \in SampleRates \cup {NoRate}
  /\ stream_sample_offset \in Nat
  /\ phase \in 0 .. Timeslot - 1
  /\ slot_start \in Nat
  /\ metadata \in [initialized : BOOLEAN, payload_stream_sample : Nat,
                    dynamic_objects : Nat, bed_channels : SUBSET BedChannel]
  /\ limiter_pending \in Nat
  /\ pending_debug \in Seq(Nat)
  /\ pc \in {"idle", "head", "loop", "panicked"}
  /\ frame \in Frames \cup {NoFrame}
  /\ pc \in {"head", "loop"} => frame \in Frames
  /\ todo \subseteq (IF frame = NoFrame THEN {} ELSE DOMAIN frame.updates)
  /\ sample_offset \in Nat
  /\ frame_debug \in Seq(Nat)
  /\ result \in Outcome
  /\ emitted \in Nat
  /\ anchor \in Nat

\* Every variable has the values the code can give it; in particular a slot is never overrun.
TypeOK == DataOK /\ FlagsOK

\* Samples are neither lost nor duplicated: what successful pushes took in is what the caller got
\* back plus what the limiter still holds, through any mix of failed pushes, flushes and resets;
\* and the limiter never holds a complete block between calls.
SampleConservation ==
  pc # "panicked" =>
    /\ stream_sample_offset = emitted + limiter_pending
    /\ limiter_pending < Timeslot

\* Stream position of the next sample the push in progress will render.
Position == stream_sample_offset + sample_offset

\* The timeslot a sample is rendered in depends on its stream position and on where the slot clock
\* was last set, never on how the stream was cut into pushes (the split_render tests).  Only a push
\* that failed after rendering part of its frame moves the clock away from the stream.
SlotGrid ==
  metadata.initialized /\ ~skewed /\ pc # "panicked" =>
    /\ anchor <= Position
    /\ slot_start = anchor + ((Position - anchor) \div Timeslot) * Timeslot
    /\ phase = (Position - anchor) % Timeslot

\* update_timeslot never sees a slot that begins before the payload it evaluates: the slot clock is
\* at or past the stream position, and no payload is dated later than the clock, failed pushes included.
ClockNeverBehindPayload ==
  metadata.initialized =>
    /\ slot_start + phase >= metadata.payload_stream_sample
    /\ pc # "panicked" => slot_start + phase >= Position

\* Out-of-order updates act like sorted ones: every update of the frame takes effect exactly at its
\* own sample, none is left behind the rendered samples, and of the updates applied the payload in
\* effect is the last one in (offset, order of arrival).
UpdatesOnTime ==
  pc = "loop" =>
    LET applied == DOMAIN frame.updates \ todo IN
    /\ \A i \in todo : OffsetOf(i) >= sample_offset
    /\ \A i \in applied : OffsetOf(i) <= sample_offset
    /\ applied # {} =>
         \E i \in applied :
           /\ metadata = Applied(i)
           /\ \A j \in applied \ {i} : Before(j, i)

\* Mixing an object never indexes past dynamic_sources, whatever updates the frame carries and
\* whatever an earlier failed push left behind.
ObjectsHaveSources ==
  InFrame /\ metadata.initialized => frame.objects <= metadata.dynamic_objects

\* Draining one debug row per block never panics, for any cut of the stream, flushes in mid-stream
\* and clock restarts included, as long as no push failed in mid-frame and start-up silence was
\* shorter than a block.
NoPanicWithoutFault == ~faulted => pc # "panicked"

\* While timeslots start on limiter blocks, the rows held back are the rows of the samples held
\* back: one row when a partial block is pending, none otherwise, and it is dated at that block.
AlignedRows ==
  aligned /\ ~limiter_disabled /\ pc = "idle" /\ metadata.initialized =>
    pending_debug = IF limiter_pending > 0 THEN <<emitted>> ELSE << >>

\* The renderer implements the sample-count contract of BlockStream.
Blocks == INSTANCE BlockStream WITH
  Block      <- Timeslot,
  unbuffered <- limiter_disabled,
  accepted   <- stream_sample_offset,
  returned   <- emitted,
  broken     <- pc = "panicked"

\* Refinement: every behaviour of the renderer is one of BlockStream (push_frame's and flush's docs).
BlockContract == Blocks!Spec

(***************************************************************************)
(* Claims of the documentation that the code does not keep: they fail, the *)
(* first with the frames LateStartFrames of MCRenderer714, the second with *)
(* its RestartFrames.                                                      *)
(***************************************************************************)

\* "Keep startup output silent until the first metadata payload becomes active": a stream that
\* begins in silence renders on.  It panics once a silent block has no debug row to drain.
SilentStartNeverPanics == pc # "panicked"

\* "If the limiter buffers a partial block, its debug row is deferred until the corresponding audio
\* is emitted": a row still held back describes audio still held back.  A clock restart in mid-block
\* makes an extra row, and from then on every row trails its audio.
DeferredRowsFollowAudio ==
  pc = "idle" => \A k \in DOMAIN pending_debug : pending_debug[k] >= emitted
=============================================================================
