------------------------- MODULE Renderer714Proofs -------------------------
(***************************************************************************)
(* The renderer: its calls, the samples it holds back, its contract; then  *)
(* its walk through a frame: updates, objects, the slot clock and the      *)
(* debug rows; for every timeslot length and all frames.                   *)
(***************************************************************************)
EXTENDS Renderer714, SequenceTheorems, WellFoundedInduction, TLAPS

LEMMA BlockDivision ==
  ASSUME NEW n \in Nat
  PROVE  /\ ReadyBlocks(n) \in Nat
         /\ ReadyBlocks(n) * Timeslot \in Nat
         /\ ReadyBlocks(n) * Timeslot <= n
         /\ n < ReadyBlocks(n) * Timeslot + Timeslot
  BY RendererAssumption DEF ReadyBlocks

LEMMA FrameTypes ==
  ASSUME TypeOK, frame \in Frames
  PROVE  /\ frame \in Frame
         /\ \A i \in DOMAIN frame.updates :
              /\ OffsetOf(i) \in Nat
              /\ frame.updates[i] \in Update
              /\ Applied(i) \in [initialized : BOOLEAN, payload_stream_sample : Nat,
                                 dynamic_objects : Nat, bed_channels : SUBSET BedChannel]
<1>1. frame \in Frame
  BY RendererAssumption
<1>2. frame.updates \in Seq(Update)
  BY <1>1 DEF Frame
<1>3. ASSUME NEW i \in DOMAIN frame.updates
      PROVE  frame.updates[i] \in Update
  BY <1>2, <1>3
<1>4. QED
  BY <1>1, <1>3 DEF Update, Metadata, OffsetOf, Applied, TypeOK, DataOK

\* A segment is not empty, and ends no later than its slot, its frame and the next update.
LEMMA SegmentBounds ==
  ASSUME TypeOK, InFrame, ~Due(sample_offset),
         NEW end \in SegmentEnds, Earliest(SegmentEnds, end)
  PROVE  /\ end \in Nat
         /\ sample_offset < end
         /\ end <= sample_offset + (Timeslot - phase)
         /\ end <= frame.samples
         /\ \A next \in NextOffset : end <= next
<1>1. frame \in Frames
  BY DEF InFrame, TypeOK, DataOK
<1>2. /\ frame.samples \in Nat
      /\ \A next \in NextOffset : next \in Nat /\ next > sample_offset
  <2>1. frame.samples \in Nat
    BY <1>1, FrameTypes DEF Frame
  <2>2. NextOffset \subseteq Nat
    BY <1>1, FrameTypes DEF NextOffset, Frame, TypeOK, DataOK
  <2>3. \A next \in NextOffset : ~(next <= sample_offset)
    BY DEF Due
  <2>4. QED
    BY <2>1, <2>2, <2>3 DEF TypeOK, DataOK
<1>3. /\ sample_offset \in Nat /\ sample_offset < frame.samples
      /\ sample_offset + (Timeslot - phase) \in Nat
      /\ sample_offset < sample_offset + (Timeslot - phase)
  BY RendererAssumption DEF InFrame, TypeOK, DataOK
<1>4. /\ sample_offset + (Timeslot - phase) \in SegmentEnds
      /\ frame.samples \in SegmentEnds
      /\ NextOffset \subseteq SegmentEnds
  BY DEF SegmentEnds, SilenceEnds
<1>5. \/ end = sample_offset + (Timeslot - phase)
      \/ end = frame.samples
      \/ end \in NextOffset
  BY DEF SegmentEnds, SilenceEnds
<1>6. end \in Nat /\ sample_offset < end
  BY <1>2, <1>3, <1>5
<1>7. QED
  BY <1>4, <1>6 DEF Earliest

\* Returning from a push leaves the call's variables well typed, whatever the outcome.
LEMMA ReturnTypes ==
  ASSUME NEW outcome \in Outcome, Return(outcome)
  PROVE  /\ pc' = "idle" /\ frame' = NoFrame /\ todo' = {}
         /\ sample_offset' = 0 /\ frame_debug' = << >> /\ frame_debug' \in Seq(Nat)
         /\ result' \in Outcome
  BY DEF Return

\* The flags are a lemma of their own: they need a prover that knows booleans rather than numbers.
LEMMA FlagInvariance == FlagsOK /\ [Next]_vars => FlagsOK'
<1> SUFFICES ASSUME FlagsOK, [Next]_vars PROVE FlagsOK'
  OBVIOUS
<1> USE DEF FlagsOK
<1>1. ASSUME NEW f \in Frames, PushWrongRate(f) \/ PushWithoutMetadata(f) \/ BeginPush(f)
      PROVE  FlagsOK'
  BY <1>1, Zenon DEF PushWrongRate, PushWithoutMetadata, BeginPush, stream, history
<1>2. CASE ApplyLeadingUpdate
  BY <1>2, Zenon DEF ApplyLeadingUpdate, stream
<1>3. CASE BeginLoop
  BY <1>3, Zenon DEF BeginLoop, RestartClock, stream
<1>4. CASE ApplyDueUpdate
  BY <1>4, Zenon DEF ApplyDueUpdate, FailMidFrame, stream
<1>5. CASE SkipSilence
  BY <1>5, Zenon DEF SkipSilence, FailMidFrame, stream
<1>6. CASE MixSegment
  BY <1>6, Zenon DEF MixSegment, MixUpTo, FailMidFrame, stream
<1>7. CASE FinishPush
  BY <1>7, Zenon DEF FinishPush
<1>8. CASE Flush
  BY <1>8, Zenon DEF Flush
<1>9. CASE Reset
  BY <1>9, Zenon DEF Reset
<1>10. CASE UNCHANGED vars
  BY <1>10, Zenon DEF vars, stream, history
<1>11. QED
  BY <1>1, <1>2, <1>3, <1>4, <1>5, <1>6, <1>7, <1>8, <1>9, <1>10 DEF Next

LEMMA DataInvariance == TypeOK /\ [Next]_vars => DataOK'
<1> SUFFICES ASSUME TypeOK, [Next]_vars PROVE DataOK'
  OBVIOUS
<1> USE RendererAssumption
<1>1. ASSUME NEW f \in Frames, PushWrongRate(f) PROVE DataOK'
  BY <1>1 DEF PushWrongRate, Return, Outcome, TypeOK, DataOK, stream, clock, history
<1>2. ASSUME NEW f \in Frames, PushWithoutMetadata(f) PROVE DataOK'
  <2>1. f.sample_rate \in SampleRates
    BY DEF Frame
  <2>2. QED
    BY <1>2, <2>1 DEF PushWithoutMetadata, Return, Outcome, TypeOK, DataOK, clock, history
<1>3. ASSUME NEW f \in Frames, BeginPush(f) PROVE DataOK'
  <2>1. f.sample_rate \in SampleRates
    BY DEF Frame
  <2>2. QED
    BY <1>3, <2>1 DEF BeginPush, TypeOK, DataOK, clock, history
<1>4. CASE ApplyLeadingUpdate
  <2>1. frame \in Frames
    BY <1>4 DEF ApplyLeadingUpdate, TypeOK, DataOK
  <2>2. PICK i \in todo :
          /\ OffsetOf(i) = 0
          /\ metadata' = Applied(i)
          /\ StartClockAt(stream_sample_offset)
          /\ IF ~CountsAgree(Applied(i).dynamic_objects, frame.objects)
               THEN Return("ObjectCountMismatch")
               ELSE /\ todo' = todo \ {i}
                    /\ UNCHANGED <<pc, frame, sample_offset, frame_debug, result>>
    BY <1>4 DEF ApplyLeadingUpdate
  <2>3. i \in DOMAIN frame.updates
    BY <2>1 DEF TypeOK, DataOK
  <2>4. metadata' \in [initialized : BOOLEAN, payload_stream_sample : Nat,
                       dynamic_objects : Nat, bed_channels : SUBSET BedChannel]
    BY <2>1, <2>2, <2>3, FrameTypes
  <2>5. phase' \in 0 .. Timeslot - 1 /\ slot_start' \in Nat /\ anchor' \in Nat
    BY <2>2 DEF StartClockAt, TypeOK, DataOK, clock
  <2>6. UNCHANGED <<stream, emitted, skewed, faulted, aligned>>
    BY <1>4 DEF ApplyLeadingUpdate
  <2>7. CASE Return("ObjectCountMismatch")
    BY <2>4, <2>5, <2>6, <2>7 DEF Return, Outcome, TypeOK, DataOK, stream
  <2>8. CASE todo' = todo \ {i} /\ UNCHANGED <<pc, frame, sample_offset, frame_debug, result>>
    BY <2>4, <2>5, <2>6, <2>8 DEF TypeOK, DataOK, stream
  <2>9. QED
    BY <2>2, <2>7, <2>8
<1>5. CASE BeginLoop
  <2>1. phase' \in 0 .. Timeslot - 1 /\ slot_start' \in Nat /\ anchor' \in Nat
    BY <1>5 DEF BeginLoop, RestartClock, TypeOK, DataOK, clock
  <2>2. UNCHANGED <<stream, metadata, emitted, faulted>>
    BY <1>5 DEF BeginLoop
  <2>3. \/ Return("UnsupportedSampleCount") \/ Return("ObjectCountMismatch")
        \/ pc' = "loop" /\ UNCHANGED <<frame, todo, sample_offset, frame_debug, result>>
    BY <1>5 DEF BeginLoop
  <2>4. pc = "head"
    BY <1>5 DEF BeginLoop
  <2>5. ASSUME NEW outcome \in Outcome, Return(outcome) PROVE DataOK'
    BY <2>1, <2>2, <2>5 DEF Return, TypeOK, DataOK, stream
  <2>6. CASE pc' = "loop" /\ UNCHANGED <<frame, todo, sample_offset, frame_debug, result>>
    BY <2>1, <2>2, <2>4, <2>6 DEF TypeOK, DataOK, stream
  <2>7. QED
    BY <2>3, <2>5, <2>6 DEF Outcome
<1>6. CASE ApplyDueUpdate
  <2>1. frame \in Frames
    BY <1>6 DEF ApplyDueUpdate, InFrame, TypeOK, DataOK
  <2>2. PICK i \in todo :
          /\ metadata' = Applied(i)
          /\ StartClockAt(stream_sample_offset + OffsetOf(i))
          /\ IF ~CountsAgree(Applied(i).dynamic_objects, frame.objects)
               THEN FailMidFrame("ObjectCountMismatch")
               ELSE /\ todo' = todo \ {i}
                    /\ UNCHANGED <<stream, pc, frame, sample_offset, frame_debug, result,
                                   emitted, skewed, faulted, aligned>>
    BY <1>6 DEF ApplyDueUpdate
  <2>3. i \in DOMAIN frame.updates
    BY <2>1 DEF TypeOK, DataOK
  <2>4. metadata' \in [initialized : BOOLEAN, payload_stream_sample : Nat,
                       dynamic_objects : Nat, bed_channels : SUBSET BedChannel]
    BY <2>1, <2>2, <2>3, FrameTypes
  <2>5. OffsetOf(i) \in Nat
    BY <2>1, <2>3, FrameTypes
  <2>6. phase' \in 0 .. Timeslot - 1 /\ slot_start' \in Nat /\ anchor' \in Nat
    BY <2>2, <2>5 DEF StartClockAt, TypeOK, DataOK, clock
  <2>7. CASE FailMidFrame("ObjectCountMismatch")
    BY <2>4, <2>6, <2>7 DEF FailMidFrame, Return, Outcome, TypeOK, DataOK, stream
  <2>8. CASE todo' = todo \ {i} /\ UNCHANGED <<stream, pc, frame, sample_offset, frame_debug,
                                               result, emitted, skewed, faulted, aligned>>
    BY <2>4, <2>6, <2>8 DEF TypeOK, DataOK, stream
  <2>9. QED
    BY <2>2, <2>7, <2>8
<1>7. CASE SkipSilence
  <2>1. UNCHANGED <<clock, metadata, anchor>>
    BY <1>7 DEF SkipSilence
  <2>2. PICK end \in SilenceEnds :
          IF end <= sample_offset
            THEN FailMidFrame("OamdStateUninitialized")
            ELSE /\ sample_offset' = end
                 /\ faulted' = (faulted \/ limiter_pending + end >= Timeslot)
                 /\ aligned' = FALSE
                 /\ UNCHANGED <<stream, pc, frame, todo, frame_debug, result, emitted, skewed>>
    BY <1>7 DEF SkipSilence
  <2>3. frame \in Frames
    BY <1>7 DEF SkipSilence, InFrame, TypeOK, DataOK
  <2>4. end \in Nat
    BY <2>2, <2>3, FrameTypes DEF SilenceEnds, NextOffset, Frame, TypeOK, DataOK
  <2>5. CASE end <= sample_offset
    BY <2>1, <2>2, <2>5 DEF FailMidFrame, Return, Outcome, TypeOK, DataOK, stream, clock
  <2>6. CASE ~(end <= sample_offset)
    BY <2>1, <2>2, <2>4, <2>6 DEF TypeOK, DataOK, stream, clock
  <2>7. QED
    BY <2>5, <2>6
<1>8. CASE MixSegment
  <2>1. UNCHANGED <<metadata, anchor>>
    BY <1>8 DEF MixSegment
  <2>2. CASE FailMidFrame("BedChannelError") /\ UNCHANGED clock
    BY <2>1, <2>2 DEF FailMidFrame, Return, Outcome, TypeOK, DataOK, stream, clock
  <2>3. ASSUME NEW end \in SegmentEnds, Earliest(SegmentEnds, end), MixUpTo(end) PROVE DataOK'
    <3>1. /\ end \in Nat /\ sample_offset < end
          /\ end <= sample_offset + (Timeslot - phase)
      BY <1>8, <2>3, SegmentBounds DEF MixSegment
    <3>2. phase' \in 0 .. Timeslot - 1 /\ slot_start' \in Nat
      BY <2>3, <3>1 DEF MixUpTo, TypeOK, DataOK
    <3>3. frame_debug' \in Seq(Nat)
      BY <2>3 DEF MixUpTo, TypeOK, DataOK
    <3>4. QED
      BY <2>1, <2>3, <3>1, <3>2, <3>3 DEF MixUpTo, TypeOK, DataOK, stream
  <2>4. QED
    BY <1>8, <2>2, <2>3 DEF MixSegment
<1>9. CASE FinishPush
  <2>1. frame \in Frames /\ frame.samples \in Nat
    BY <1>9 DEF FinishPush, TypeOK, DataOK, Frame
  <2>2. CASE limiter_disabled
    BY <1>9, <2>1, <2>2 DEF FinishPush, Return, Outcome, TypeOK, DataOK, clock
  <2>3. CASE ~limiter_disabled
    <3> DEFINE samples == limiter_pending + frame.samples
               rows    == pending_debug \o frame_debug
               blocks  == ReadyBlocks(samples)
    <3>1. samples \in Nat /\ rows \in Seq(Nat)
      BY <2>1 DEF TypeOK, DataOK
    <3>2. /\ limiter_pending' = samples - blocks * Timeslot
          /\ IF blocks <= Len(rows)
               THEN /\ pending_debug' = SubSeq(rows, blocks + 1, Len(rows))
                    /\ emitted' = emitted + blocks * Timeslot
                    /\ Return("frame")
               ELSE /\ pending_debug' = rows
                    /\ pc' = "panicked"
                    /\ UNCHANGED <<frame, todo, sample_offset, frame_debug, result, emitted>>
      BY <1>9, <2>3 DEF FinishPush
    <3>3. /\ stream_sample_offset' \in Nat
          /\ UNCHANGED <<sample_rate, clock, metadata, anchor>>
      BY <1>9, <2>1 DEF FinishPush, TypeOK, DataOK
    <3> HIDE DEF samples, rows
    <3>4. blocks \in Nat /\ blocks * Timeslot \in Nat /\ blocks * Timeslot <= samples
      BY <3>1, BlockDivision
    <3> HIDE DEF blocks
    <3>5. limiter_pending' \in Nat
      BY <3>1, <3>2, <3>4
    <3>6. CASE blocks <= Len(rows)
      <4>1. /\ pending_debug' = SubSeq(rows, blocks + 1, Len(rows))
            /\ emitted' = emitted + blocks * Timeslot
            /\ Return("frame")
        BY <3>2, <3>6, Zenon
      <4>2. pending_debug' \in Seq(Nat)
        BY <3>1, <3>4, <3>6, <4>1, SubSeqProperties
      <4>3. emitted' \in Nat
        <5>1. emitted \in Nat /\ emitted' = emitted + blocks * Timeslot
          BY <4>1 DEF TypeOK, DataOK
        <5>2. QED
          BY <3>4, <5>1
      <4>4. QED
        BY <3>3, <3>5, <4>1, <4>2, <4>3 DEF Return, Outcome, TypeOK, DataOK, clock
    <3>7. CASE ~(blocks <= Len(rows))
      BY <3>1, <3>2, <3>3, <3>5, <3>7 DEF TypeOK, DataOK, clock
    <3>8. QED
      BY <3>6, <3>7
  <2>4. QED
    BY <2>2, <2>3
<1>10. CASE Flush
  <2>1. UNCHANGED <<sample_rate, stream_sample_offset, clock, metadata,
                    pc, frame, todo, sample_offset, frame_debug, anchor>>
    BY <1>10 DEF Flush
  <2>2. CASE result' = "none" /\ UNCHANGED <<limiter_pending, pending_debug, emitted>>
    BY <2>1, <2>2 DEF Outcome, TypeOK, DataOK, clock
  <2>3. CASE result' = "flushed" /\ ClearLimiter /\ emitted' = emitted + limiter_pending
    BY <2>1, <2>3 DEF ClearLimiter, Outcome, TypeOK, DataOK, clock
  <2>4. QED
    BY <1>10, <2>2, <2>3, Zenon DEF Flush
<1>11. CASE Reset
  BY <1>11 DEF Reset, ClearLimiter, Return, NoMetadata, Outcome, TypeOK, DataOK
<1>12. CASE UNCHANGED vars
  BY <1>12 DEF vars, stream, clock, call, history, TypeOK, DataOK
<1>13. QED
  BY <1>1, <1>2, <1>3, <1>4, <1>5, <1>6, <1>7, <1>8, <1>9, <1>10, <1>11, <1>12 DEF Next

\* Every reachable state is well typed; in particular phase stays below the timeslot length.
THEOREM TypeCorrect == Spec => []TypeOK
<1>1. Init => DataOK
  BY RendererAssumption DEF Init, NoMetadata, Outcome, DataOK
<1>2. Init => FlagsOK
  BY Zenon DEF Init, FlagsOK
<1>3. TypeOK /\ [Next]_vars => TypeOK'
  BY DataInvariance, FlagInvariance DEF TypeOK
<1>4. QED
  BY <1>1, <1>2, <1>3, PTL DEF Spec, TypeOK

-----------------------------------------------------------------------------
(***************************************************************************)
(* The call in progress                                                    *)
(***************************************************************************)

CallInv ==
  /\ pc \in {"idle", "head"} => sample_offset = 0 /\ frame_debug = << >>
  /\ pc \in {"head", "loop"} => sample_rate # NoRate
  /\ pc = "loop" => 0 < frame.samples /\ sample_offset <= frame.samples

\* Only the end of a push, flush and reset touch what is buffered and what was returned.
LEMMA StreamSteps ==
  ASSUME [Next]_vars
  PROVE  \/ FinishPush \/ Flush \/ Reset
         \/ /\ UNCHANGED <<stream_sample_offset, limiter_pending, pending_debug, emitted>>
            /\ pc' = "panicked" <=> pc = "panicked"
<1> DEFINE Quiet == /\ UNCHANGED <<stream_sample_offset, limiter_pending, pending_debug, emitted>>
                    /\ pc' = "panicked" <=> pc = "panicked"
<1>1. ASSUME NEW f \in Frames, PushWrongRate(f) \/ PushWithoutMetadata(f) \/ BeginPush(f)
      PROVE  Quiet
  BY <1>1 DEF PushWrongRate, PushWithoutMetadata, BeginPush, Pushable, Return, stream, history
<1>2. CASE ApplyLeadingUpdate
  BY <1>2 DEF ApplyLeadingUpdate, Return, stream
<1>3. CASE BeginLoop
  BY <1>3 DEF BeginLoop, Return, stream
<1>4. CASE ApplyDueUpdate
  BY <1>4 DEF ApplyDueUpdate, InFrame, FailMidFrame, Return, stream
<1>5. CASE SkipSilence
  BY <1>5 DEF SkipSilence, InFrame, FailMidFrame, Return, stream
<1>6. CASE MixSegment
  BY <1>6 DEF MixSegment, MixUpTo, InFrame, FailMidFrame, Return, stream
<1>7. CASE UNCHANGED vars
  BY <1>7 DEF vars, stream, call, history
<1>8. QED
  BY <1>1, <1>2, <1>3, <1>4, <1>5, <1>6, <1>7 DEF Next

LEMMA CallInvariance == TypeOK /\ CallInv /\ [Next]_vars => CallInv'
<1> SUFFICES ASSUME TypeOK, CallInv, [Next]_vars PROVE CallInv'
  OBVIOUS
<1> USE RendererAssumption DEF CallInv
<1>1. ASSUME NEW f \in Frames, PushWrongRate(f) \/ PushWithoutMetadata(f) PROVE CallInv'
  BY <1>1 DEF PushWrongRate, PushWithoutMetadata, Return
<1>2. ASSUME NEW f \in Frames, BeginPush(f) PROVE CallInv'
  <2>1. f.sample_rate # NoRate
    BY DEF Frame
  <2>2. QED
    BY <1>2, <2>1 DEF BeginPush, Pushable
<1>3. CASE ApplyLeadingUpdate
  BY <1>3 DEF ApplyLeadingUpdate, Return, stream
<1>4. CASE BeginLoop
  <2>1. UNCHANGED sample_rate /\ pc = "head"
    BY <1>4 DEF BeginLoop, stream
  <2>2. ASSUME NEW outcome, Return(outcome) PROVE CallInv'
    BY <2>2 DEF Return
  <2>3. CASE /\ frame.samples # 0 /\ pc' = "loop"
             /\ UNCHANGED <<frame, todo, sample_offset, frame_debug, result>>
    <3>1. frame \in Frames /\ frame.samples \in Nat
      BY <2>1 DEF TypeOK, DataOK, Frame
    <3>2. QED
      BY <2>1, <2>3, <3>1
  <2>4. QED
    BY <1>4, <2>2, <2>3 DEF BeginLoop
<1>5. CASE ApplyDueUpdate
  BY <1>5 DEF ApplyDueUpdate, InFrame, FailMidFrame, Return, stream
<1>6. CASE SkipSilence
  <2>1. frame \in Frames /\ frame.samples \in Nat /\ pc = "loop"
    BY <1>6 DEF SkipSilence, InFrame, TypeOK, DataOK, Frame
  <2>2. ASSUME NEW end \in SilenceEnds, Earliest(SilenceEnds, end) PROVE end <= frame.samples
    BY <2>2 DEF SilenceEnds, Earliest
  <2>3. QED
    BY <1>6, <2>1, <2>2 DEF SkipSilence, FailMidFrame, Return, stream
<1>7. CASE MixSegment
  <2>1. pc = "loop"
    BY <1>7 DEF MixSegment, InFrame
  <2>2. CASE FailMidFrame("BedChannelError")
    BY <2>2 DEF FailMidFrame, Return, stream
  <2>3. ASSUME NEW end \in SegmentEnds, Earliest(SegmentEnds, end), MixUpTo(end) PROVE CallInv'
    BY <1>7, <2>1, <2>3, SegmentBounds DEF MixSegment, MixUpTo, stream
  <2>4. QED
    BY <1>7, <2>2, <2>3 DEF MixSegment
<1>8. CASE FinishPush
  BY <1>8 DEF FinishPush, Return
<1>9. CASE Flush
  BY <1>9 DEF Flush
<1>10. CASE Reset
  BY <1>10 DEF Reset, Return
<1>11. CASE UNCHANGED vars
  BY <1>11 DEF vars, stream, call
<1>12. QED
  BY <1>1, <1>2, <1>3, <1>4, <1>5, <1>6, <1>7, <1>8, <1>9, <1>10, <1>11 DEF Next

\* A push walks its frame with a sample rate set and its offset inside the frame.
THEOREM CallCorrect == Spec => [](TypeOK /\ CallInv)
<1>1. Init => CallInv
  BY DEF Init, CallInv
<1>2. QED
  BY <1>1, TypeCorrect, CallInvariance, PTL DEF Spec

-----------------------------------------------------------------------------
(***************************************************************************)
(* Sample accounting                                                       *)
(***************************************************************************)

\* The end of a push, by cases: the limiter bypassed, blocks taken, or rows missing.
LEMMA FinishCases ==
  ASSUME TypeOK, CallInv, FinishPush
  PROVE  /\ frame.samples \in Nat /\ frame.samples > 0 /\ sample_offset = frame.samples
         /\ stream_sample_offset' = stream_sample_offset + frame.samples
         /\ \/ /\ limiter_disabled /\ Return("frame")
               /\ emitted' = emitted + frame.samples
               /\ UNCHANGED <<limiter_pending, pending_debug>>
            \/ \E k \in Nat :
                 /\ ~limiter_disabled
                 /\ k * Timeslot \in Nat
                 /\ limiter_pending' \in 0 .. Timeslot - 1
                 /\ limiter_pending' = (limiter_pending + frame.samples) - k * Timeslot
                 /\ \/ /\ k <= Len(pending_debug \o frame_debug)
                       /\ pending_debug' = SubSeq(pending_debug \o frame_debug, k + 1,
                                                  Len(pending_debug \o frame_debug))
                       /\ emitted' = emitted + k * Timeslot
                       /\ Return("frame")
                    \/ /\ k > Len(pending_debug \o frame_debug)
                       /\ pc' = "panicked"
                       /\ UNCHANGED emitted
<1>1. frame \in Frames /\ frame.samples \in Nat
  BY RendererAssumption DEF FinishPush, TypeOK, DataOK, Frame
<1>2. frame.samples > 0 /\ sample_offset = frame.samples
  BY <1>1 DEF FinishPush, CallInv, TypeOK, DataOK
<1>3. stream_sample_offset' = stream_sample_offset + frame.samples
  BY DEF FinishPush
<1>4. CASE limiter_disabled
  BY <1>1, <1>2, <1>3, <1>4, Zenon DEF FinishPush
<1>5. CASE ~limiter_disabled
  <2> DEFINE samples == limiter_pending + frame.samples
             rows    == pending_debug \o frame_debug
             k       == ReadyBlocks(samples)
  <2>1. samples \in Nat /\ rows \in Seq(Nat)
    BY <1>1 DEF TypeOK, DataOK
  <2>2. limiter_pending' = (limiter_pending + frame.samples) - k * Timeslot
    BY <1>5 DEF FinishPush
  <2>3. /\ limiter_pending' = samples - k * Timeslot
        /\ IF k <= Len(rows)
             THEN /\ pending_debug' = SubSeq(rows, k + 1, Len(rows))
                  /\ emitted' = emitted + k * Timeslot
                  /\ Return("frame")
             ELSE /\ pc' = "panicked"
                  /\ UNCHANGED emitted
    BY <1>5 DEF FinishPush
  <2>4. /\ k \in Nat /\ k * Timeslot \in Nat
        /\ samples - k * Timeslot \in 0 .. Timeslot - 1
    <3> HIDE DEF samples
    <3>1. /\ k \in Nat /\ k * Timeslot \in Nat
          /\ k * Timeslot <= samples /\ samples < k * Timeslot + Timeslot
      BY <2>1, BlockDivision
    <3> HIDE DEF k
    <3>2. QED
      BY <2>1, <3>1, RendererAssumption
  <2>5. Len(rows) \in Nat
    BY <2>1
  <2> HIDE DEF rows, k
  <2>6. \/ k <= Len(rows) /\ pending_debug' = SubSeq(rows, k + 1, Len(rows))
           /\ emitted' = emitted + k * Timeslot /\ Return("frame")
        \/ k > Len(rows) /\ pc' = "panicked" /\ UNCHANGED emitted
    BY <2>3, <2>4, <2>5
  <2>7. limiter_pending' \in 0 .. Timeslot - 1
    BY <2>3, <2>4
  <2>8. \E n \in Nat :
          /\ ~limiter_disabled
          /\ n * Timeslot \in Nat
          /\ limiter_pending' \in 0 .. Timeslot - 1
          /\ limiter_pending' = (limiter_pending + frame.samples) - n * Timeslot
          /\ \/ n <= Len(rows) /\ pending_debug' = SubSeq(rows, n + 1, Len(rows))
                /\ emitted' = emitted + n * Timeslot /\ Return("frame")
             \/ n > Len(rows) /\ pc' = "panicked" /\ UNCHANGED emitted
    BY <1>5, <2>4, <2>6, <2>7, <2>2, Zenon
  <2>9. QED
    BY <1>1, <1>2, <1>3, <2>8, Zenon DEF rows
<1>6. QED
  BY <1>4, <1>5

LEMMA ConservationStep ==
  TypeOK /\ CallInv /\ SampleConservation /\ [Next]_vars => SampleConservation'
<1> SUFFICES ASSUME TypeOK, CallInv, SampleConservation, [Next]_vars PROVE SampleConservation'
  OBVIOUS
<1> USE DEF SampleConservation
<1>1. CASE FinishPush
  <2>1. pc = "loop"
    BY <1>1 DEF FinishPush
  <2>2. /\ stream_sample_offset = emitted + limiter_pending
        /\ limiter_pending < Timeslot
        /\ emitted \in Nat /\ limiter_pending \in Nat /\ Timeslot \in Nat
    BY <2>1, RendererAssumption DEF TypeOK, DataOK
  <2>3. /\ frame.samples \in Nat
        /\ stream_sample_offset' = stream_sample_offset + frame.samples
    BY <1>1, FinishCases
  <2>4. CASE emitted' = emitted + frame.samples /\ UNCHANGED limiter_pending
    BY <2>2, <2>3, <2>4
  <2>5. ASSUME NEW n \in Nat, limiter_pending' \in 0 .. Timeslot - 1,
               limiter_pending' = (limiter_pending + frame.samples) - n, emitted' = emitted + n
        PROVE  SampleConservation'
    BY <2>2, <2>3, <2>5
  <2>6. CASE pc' = "panicked"
    BY <2>6
  <2>7. QED
    BY <1>1, <2>4, <2>5, <2>6, FinishCases
<1>2. CASE Flush
  <2>1. pc = "idle" /\ pc' = "idle" /\ UNCHANGED stream_sample_offset
    BY <1>2 DEF Flush
  <2>2. \/ UNCHANGED <<limiter_pending, emitted>>
        \/ limiter_pending' = 0 /\ emitted' = emitted + limiter_pending
    BY <1>2 DEF Flush, ClearLimiter
  <2>3. QED
    BY <2>1, <2>2, RendererAssumption DEF TypeOK, DataOK
<1>3. CASE Reset
  BY <1>3, RendererAssumption DEF Reset, ClearLimiter
<1>4. CASE /\ UNCHANGED <<stream_sample_offset, limiter_pending, pending_debug, emitted>>
           /\ pc' = "panicked" <=> pc = "panicked"
  BY <1>4
<1>5. QED
  BY <1>1, <1>2, <1>3, <1>4, StreamSteps

\* No sample is lost or returned twice, whatever calls succeed, fail, flush or reset, and between
\* calls less than one block is held back.
THEOREM Conservation == Spec => []SampleConservation
<1>1. Init => SampleConservation
  BY RendererAssumption DEF Init, SampleConservation
<1>2. QED
  BY <1>1, CallCorrect, ConservationStep, PTL DEF Spec

-----------------------------------------------------------------------------
(***************************************************************************)
(* The renderer implements BlockStream                                     *)
(***************************************************************************)

\* Without a limiter nothing is ever held back.
Bypassed == limiter_disabled => limiter_pending = 0

LEMMA BypassedStep == TypeOK /\ CallInv /\ Bypassed /\ [Next]_vars => Bypassed' /\ UNCHANGED limiter_disabled
<1> SUFFICES ASSUME TypeOK, CallInv, Bypassed, [Next]_vars PROVE Bypassed' /\ UNCHANGED limiter_disabled
  OBVIOUS
<1>1. UNCHANGED limiter_disabled
  <2>1. ASSUME NEW f \in Frames, PushWrongRate(f) \/ PushWithoutMetadata(f) \/ BeginPush(f)
        PROVE  UNCHANGED limiter_disabled
    BY <2>1, Zenon DEF PushWrongRate, PushWithoutMetadata, BeginPush, stream
  <2>2. CASE ApplyLeadingUpdate \/ BeginLoop
    BY <2>2, Zenon DEF ApplyLeadingUpdate, BeginLoop, stream
  <2>3. CASE ApplyDueUpdate \/ SkipSilence
    BY <2>3, Zenon DEF ApplyDueUpdate, SkipSilence, FailMidFrame, stream
  <2>4. CASE MixSegment
    BY <2>4, Zenon DEF MixSegment, MixUpTo, FailMidFrame, stream
  <2>5. CASE FinishPush \/ Flush \/ Reset
    BY <2>5, Zenon DEF FinishPush, Flush, Reset
  <2>6. CASE UNCHANGED vars
    BY <2>6, Zenon DEF vars, stream
  <2> QED BY <2>1, <2>2, <2>3, <2>4, <2>5, <2>6, Zenon DEF Next
<1>2. CASE FinishPush
  <2>1. limiter_disabled => UNCHANGED limiter_pending
    BY <1>2, Zenon DEF FinishPush
  <2> QED BY <1>1, <2>1 DEF Bypassed
<1>3. CASE Flush \/ Reset
  BY <1>1, <1>3, Zenon DEF Bypassed, Flush, Reset, ClearLimiter
<1>4. CASE UNCHANGED <<stream_sample_offset, limiter_pending, pending_debug, emitted>>
  BY <1>1, <1>4, Zenon DEF Bypassed
<1> QED BY <1>1, <1>2, <1>3, <1>4, StreamSteps

\* A whole number of blocks is at least as many samples as blocks.
LEMMA BlocksWithin ==
  ASSUME NEW k \in Nat, NEW n \in Nat, n = k * Timeslot
  PROVE  Blocks!WholeBlocks(n)
<1>1. Timeslot \in Nat \ {0}
  BY RendererAssumption
<1>2. k <= n
  BY <1>1, SMTT(30)
<1> QED BY <1>2 DEF Blocks!WholeBlocks

\* The end of a push accepts its frame and returns whole blocks, or breaks.
LEMMA FinishRefines ==
  ASSUME TypeOK, CallInv, Bypassed, SampleConservation, SampleConservation', FinishPush,
         UNCHANGED limiter_disabled
  PROVE  Blocks!Accept \/ Blocks!Break
<1>1. pc = "loop"
  BY DEF FinishPush
<1>2. /\ stream_sample_offset = emitted + limiter_pending /\ limiter_pending < Timeslot
      /\ emitted \in Nat /\ limiter_pending \in Nat /\ Timeslot \in Nat \ {0}
  BY <1>1, RendererAssumption DEF SampleConservation, TypeOK, DataOK
<1>3. /\ frame.samples \in Nat /\ frame.samples > 0
      /\ stream_sample_offset' = stream_sample_offset + frame.samples
  BY FinishCases
<1>4. stream_sample_offset' > stream_sample_offset /\ stream_sample_offset' >= stream_sample_offset
  BY <1>2, <1>3
<1>5. CASE pc' = "panicked" /\ UNCHANGED emitted
  BY <1>1, <1>4, <1>5 DEF Blocks!Break
<1>6. CASE limiter_disabled /\ Return("frame") /\ emitted' = emitted + frame.samples
  <2>1. emitted' = stream_sample_offset'
    BY <1>2, <1>3, <1>6 DEF Bypassed
  <2>2. pc' = "idle"
    BY <1>6 DEF Return
  <2> QED BY <1>1, <1>4, <1>6, <2>1, <2>2 DEF Blocks!Accept
<1>7. ASSUME NEW k \in Nat, ~limiter_disabled, k * Timeslot \in Nat, limiter_pending' \in 0 .. Timeslot - 1,
             emitted' = emitted + k * Timeslot, Return("frame")
      PROVE  Blocks!Accept
  <2>1. pc' = "idle"
    BY <1>7 DEF Return
  <2>2. stream_sample_offset' = emitted' + limiter_pending'
    BY <2>1 DEF SampleConservation
  <2>3. stream_sample_offset' - emitted' \in 0 .. Timeslot - 1
    <3>1. ASSUME NEW whole \in Nat, emitted' = emitted + whole PROVE emitted' \in Nat
      BY <1>2, <3>1
    <3>2. emitted' \in Nat /\ limiter_pending' \in 0 .. Timeslot - 1
      BY <1>7, <3>1
    <3>3. ASSUME NEW out \in Nat, NEW left \in 0 .. Timeslot - 1 PROVE (out + left) - out \in 0 .. Timeslot - 1
      BY <1>2
    <3> QED BY <2>2, <3>2, <3>3
  <2>4. emitted' - emitted = k * Timeslot
    <3> DEFINE whole == k * Timeslot
    <3>1. whole \in Nat /\ emitted' = emitted + whole
      BY <1>7
    <3> HIDE DEF whole
    <3>2. emitted' - emitted = whole
      BY <1>2, <3>1
    <3> QED BY <3>2 DEF whole
  <2>5. Blocks!WholeBlocks(emitted' - emitted)
    BY <1>7, <2>4, BlocksWithin
  <2> QED BY <1>1, <1>4, <1>7, <2>1, <2>3, <2>5 DEF Blocks!Accept
<1>8. \/ pc' = "panicked" /\ UNCHANGED emitted
      \/ limiter_disabled /\ Return("frame") /\ emitted' = emitted + frame.samples
      \/ \E k \in Nat : /\ ~limiter_disabled /\ k * Timeslot \in Nat /\ limiter_pending' \in 0 .. Timeslot - 1
                        /\ emitted' = emitted + k * Timeslot /\ Return("frame")
  BY FinishCases, Zenon
<1> QED BY <1>5, <1>6, <1>7, <1>8

\* Every step of the renderer is a step of the contract, or none.
LEMMA StepRefines ==
  TypeOK /\ CallInv /\ Bypassed /\ SampleConservation /\ SampleConservation' /\ [Next]_vars
    => [Blocks!Next]_Blocks!vars
<1> SUFFICES ASSUME TypeOK, CallInv, Bypassed, SampleConservation, SampleConservation', [Next]_vars
             PROVE  [Blocks!Next]_Blocks!vars
  OBVIOUS
<1>1. UNCHANGED limiter_disabled
  BY BypassedStep
<1>2. CASE FinishPush
  BY <1>1, <1>2, FinishRefines DEF Blocks!Next
<1>3. CASE Flush
  <2>1. pc = "idle" /\ pc' = "idle" /\ UNCHANGED stream_sample_offset
    BY <1>3 DEF Flush
  <2>2. CASE UNCHANGED emitted
    BY <1>1, <2>1, <2>2 DEF Blocks!vars
  <2>3. CASE limiter_pending # 0 /\ emitted' = emitted + limiter_pending
    <3>1. /\ stream_sample_offset = emitted + limiter_pending
          /\ emitted \in Nat /\ limiter_pending \in Nat
      BY <2>1 DEF SampleConservation, TypeOK, DataOK
    <3>2. emitted < stream_sample_offset /\ emitted' = stream_sample_offset
      BY <2>3, <3>1
    <3> QED BY <1>1, <2>1, <3>2 DEF Blocks!Drain, Blocks!Next
  <2> QED BY <1>3, <2>2, <2>3 DEF Flush
<1>4. CASE Reset
  <2>1. pc' = "idle"
    BY <1>4 DEF Reset, Return
  <2> QED BY <1>1, <1>4, <2>1 DEF Reset, Blocks!Restart, Blocks!Next
<1>5. CASE /\ UNCHANGED <<stream_sample_offset, limiter_pending, pending_debug, emitted>>
           /\ pc' = "panicked" <=> pc = "panicked"
  BY <1>1, <1>5 DEF Blocks!vars
<1> QED BY <1>2, <1>3, <1>4, <1>5, StreamSteps

\* For any timeslot, frames and calls the renderer keeps the sample-count contract.
THEOREM ContractKept == Spec => BlockContract
<1>1. Init => Bypassed
  BY DEF Init, Bypassed
<1>2. Init => Blocks!Init
  BY DEF Init, Blocks!Init
<1>3. Spec => []Bypassed
  BY <1>1, BypassedStep, CallCorrect, PTL DEF Spec
<1> QED BY <1>2, <1>3, CallCorrect, Conservation, StepRefines, PTL DEF Spec, BlockContract, Blocks!Spec

-----------------------------------------------------------------------------
(***************************************************************************)
(* Updates are applied in their order, each at its sample                  *)
(***************************************************************************)

InCall == pc \in {"head", "loop"}

AppliedUpdates == DOMAIN frame.updates \ todo

Payload(i) == metadata = Applied(i)

LastApplied == \E i \in AppliedUpdates : Payload(i) /\ \A j \in AppliedUpdates \ {i} : Before(j, i)

\* UpdatesOnTime from the first update of a push on, and what makes the next one the last.
UpdatesInv ==
  InCall =>
    /\ \A i \in todo : OffsetOf(i) >= sample_offset
    /\ \A i \in AppliedUpdates : OffsetOf(i) <= sample_offset
    /\ \A i \in AppliedUpdates, j \in todo : Before(i, j)
    /\ AppliedUpdates # {} => LastApplied

\* Every set of numbers has a least one.
LEMMA LeastNumber ==
  ASSUME NEW T \in SUBSET Nat, T # {}
  PROVE  \E x \in T : \A y \in T : x <= y
<1>1. PICK x \in T : \A y \in T : ~(<<y, x>> \in OpToRel(<, Nat))
  BY NatLessThanWellFounded, WFMin
<1>2. ASSUME NEW y \in T, y < x PROVE FALSE
  <2> DEFINE pair == <<y, x>>
  <2>1. pair \in Nat \X Nat /\ pair[1] = y /\ pair[2] = x
    OBVIOUS
  <2> HIDE DEF pair
  <2>2. pair \in OpToRel(<, Nat)
    BY <1>2, <2>1 DEF OpToRel
  <2> QED BY <1>1, <2>2 DEF pair
<1> QED BY <1>2

\* Among updates there is a next one.
LEMMA SomeNext ==
  ASSUME TypeOK, InCall, todo # {}
  PROVE  \E i \in todo : IsNextUpdate(i)
<1>1. frame \in Frames /\ todo \subseteq DOMAIN frame.updates /\ frame.updates \in Seq(Update)
  BY RendererAssumption DEF TypeOK, DataOK, InCall, Frame, FrameTypes
<1>2. todo \subseteq Nat
  BY <1>1
<1>3. \A i \in todo : OffsetOf(i) \in Nat
  BY <1>1, FrameTypes
<1>4. PICK first \in {OffsetOf(i) : i \in todo} : \A other \in {OffsetOf(i) : i \in todo} : first <= other
  BY <1>3, LeastNumber
<1>5. PICK i \in {j \in todo : OffsetOf(j) = first} : \A j \in {k \in todo : OffsetOf(k) = first} : i <= j
  <2> DEFINE earliest == {j \in todo : OffsetOf(j) = first}
  <2>1. earliest \in SUBSET Nat /\ earliest # {}
    BY <1>2, <1>4
  <2> HIDE DEF earliest
  <2>2. \E i \in earliest : \A j \in earliest : i <= j
    BY <2>1, LeastNumber
  <2> QED BY <2>2 DEF earliest
<1>6. ASSUME NEW j \in todo \ {i} PROVE Before(i, j)
  <2>1. OffsetOf(i) = first /\ first \in Nat /\ OffsetOf(j) \in Nat /\ first <= OffsetOf(j)
    BY <1>3, <1>4, <1>5
  <2>2. i \in Nat /\ j \in Nat /\ i # j
    BY <1>2, <1>5
  <2>3. OffsetOf(j) = first => i <= j
    BY <1>5
  <2> QED BY <2>1, <2>2, <2>3 DEF Before
<1> QED BY <1>5, <1>6 DEF IsNextUpdate

\* Whatever is still to be applied comes at or after the place the walk may go to.
LEMMA NothingSkipped ==
  ASSUME TypeOK, InCall, NEW end \in Nat, \A next \in NextOffset : end <= next
  PROVE  \A i \in todo : OffsetOf(i) >= end
<1> SUFFICES ASSUME NEW j \in todo PROVE OffsetOf(j) >= end
  OBVIOUS
<1>1. PICK i \in todo : IsNextUpdate(i)
  BY SomeNext
<1>2. OffsetOf(i) \in Nat /\ OffsetOf(j) \in Nat
  BY FrameTypes DEF TypeOK, DataOK, InCall
<1>3. end <= OffsetOf(i)
  BY <1>1 DEF NextOffset
<1>4. i # j => Before(i, j)
  BY <1>1 DEF IsNextUpdate
<1> QED BY <1>2, <1>3, <1>4 DEF Before

\* The next update is applied: it is the last of those applied, and before all others.
LEMMA ApplyNext ==
  ASSUME UpdatesInv, InCall, NEW i \in todo, IsNextUpdate(i), OffsetOf(i) <= sample_offset,
         todo \subseteq DOMAIN frame.updates, todo' = todo \ {i}, metadata' = Applied(i),
         UNCHANGED <<frame, sample_offset, stream_sample_offset>>
  PROVE  UpdatesInv'
<1>1. AppliedUpdates' = AppliedUpdates \cup {i}
  BY DEF AppliedUpdates
<1>2. \A j \in todo' : OffsetOf(j)' >= sample_offset'
  BY DEF UpdatesInv, OffsetOf
<1>3. \A j \in AppliedUpdates' : OffsetOf(j)' <= sample_offset'
  BY <1>1 DEF UpdatesInv, OffsetOf
<1>4. \A j \in AppliedUpdates', k \in todo' : Before(j, k)'
  BY <1>1 DEF UpdatesInv, Before, OffsetOf, IsNextUpdate
<1>5. LastApplied'
  <2>1. i \in AppliedUpdates' /\ Payload(i)'
    BY <1>1 DEF Payload, Applied, OffsetOf
  <2>2. \A j \in AppliedUpdates' \ {i} : Before(j, i)'
    BY <1>1 DEF UpdatesInv, Before, OffsetOf
  <2> QED BY <2>1, <2>2 DEF LastApplied
<1> QED BY <1>2, <1>3, <1>4, <1>5 DEF UpdatesInv

\* The walk goes on, past nothing that is still to be applied.
LEMMA WalkOn ==
  ASSUME UpdatesInv, InCall, NEW end \in Nat, sample_offset' = end, sample_offset \in Nat, sample_offset <= end,
         \A i \in AppliedUpdates : OffsetOf(i) \in Nat,
         \A i \in todo : OffsetOf(i) >= end,
         UNCHANGED <<frame, todo, metadata, stream_sample_offset>>
  PROVE  UpdatesInv'
<1>1. AppliedUpdates' = AppliedUpdates /\ (\A i : OffsetOf(i)' = OffsetOf(i))
  BY DEF AppliedUpdates, OffsetOf
<1>2. \A i, j : Before(i, j)' = Before(i, j)
  BY <1>1 DEF Before
<1>3. \A i : Payload(i)' = Payload(i)
  BY <1>1 DEF Payload, Applied
<1>4. LastApplied' = LastApplied
  BY <1>1, <1>2, <1>3 DEF LastApplied
<1>5. \A i \in AppliedUpdates : OffsetOf(i) <= end
  BY DEF UpdatesInv
<1> QED BY <1>1, <1>2, <1>4, <1>5 DEF UpdatesInv

LEMMA UpdatesInvariance == TypeOK /\ CallInv /\ UpdatesInv /\ [Next]_vars => UpdatesInv'
<1> SUFFICES ASSUME TypeOK, CallInv, UpdatesInv, [Next]_vars PROVE UpdatesInv'
  OBVIOUS
<1>1. ASSUME pc' \notin {"head", "loop"} PROVE UpdatesInv'
  BY <1>1 DEF UpdatesInv, InCall
<1>2. ASSUME NEW outcome, Return(outcome) PROVE UpdatesInv'
  BY <1>1, <1>2 DEF Return
<1>3. sample_offset \in Nat /\ (InCall => /\ frame \in Frames /\ todo \subseteq DOMAIN frame.updates
                                         /\ \A i \in DOMAIN frame.updates : OffsetOf(i) \in Nat)
  BY RendererAssumption, FrameTypes DEF TypeOK, DataOK, InCall
<1>4. ASSUME InCall, UNCHANGED <<frame, todo, metadata, stream_sample_offset, sample_offset>>
      PROVE  UpdatesInv'
  BY <1>3, <1>4, WalkOn DEF AppliedUpdates, UpdatesInv
<1>5. ASSUME NEW f \in Frames, PushWrongRate(f) \/ PushWithoutMetadata(f) PROVE UpdatesInv'
  BY <1>2, <1>5, Zenon DEF PushWrongRate, PushWithoutMetadata
<1>6. ASSUME NEW f \in Frames, BeginPush(f) PROVE UpdatesInv'
  <2>1. pc = "idle" /\ frame' = f /\ todo' = DOMAIN frame'.updates /\ sample_offset' = 0
    BY <1>6 DEF BeginPush, Pushable, CallInv
  <2>2. AppliedUpdates' = {}
    BY <2>1 DEF AppliedUpdates
  <2>3. \A i \in todo' : OffsetOf(i)' \in Nat
    <3>1. f.updates \in Seq(Update)
      BY RendererAssumption DEF Frame
    <3>2. \A i \in DOMAIN f.updates : f.updates[i] \in Update
      BY <3>1
    <3> QED BY <2>1, <3>2 DEF OffsetOf, Update
  <2> QED BY <2>1, <2>2, <2>3 DEF UpdatesInv
<1>7. CASE ApplyLeadingUpdate
  <2>1. PICK i \in todo : /\ IsNextUpdate(i) /\ OffsetOf(i) = 0 /\ metadata' = Applied(i)
                          /\ \/ Return("ObjectCountMismatch")
                             \/ todo' = todo \ {i} /\ UNCHANGED <<pc, frame, sample_offset, frame_debug, result>>
    BY <1>7 DEF ApplyLeadingUpdate
  <2>2. InCall /\ UNCHANGED stream_sample_offset /\ sample_offset = 0
    BY <1>7 DEF ApplyLeadingUpdate, InCall, stream, CallInv
  <2>3. CASE todo' = todo \ {i} /\ UNCHANGED <<pc, frame, sample_offset, frame_debug, result>>
    BY <1>3, <2>1, <2>2, <2>3, ApplyNext
  <2> QED BY <1>2, <2>1, <2>3
<1>8. CASE BeginLoop
  <2>1. InCall /\ UNCHANGED <<stream_sample_offset, metadata>>
    BY <1>8 DEF BeginLoop, InCall, stream
  <2>2. (\E outcome : Return(outcome)) \/ UNCHANGED <<frame, todo, sample_offset>>
    BY <1>8 DEF BeginLoop
  <2> QED BY <1>2, <1>4, <2>1, <2>2
<1>9. CASE ApplyDueUpdate
  <2>1. PICK i \in todo : /\ IsNextUpdate(i) /\ OffsetOf(i) <= sample_offset /\ metadata' = Applied(i)
                          /\ \/ FailMidFrame("ObjectCountMismatch")
                             \/ todo' = todo \ {i} /\ UNCHANGED <<stream, frame, sample_offset>>
    BY <1>9 DEF ApplyDueUpdate
  <2>2. InCall
    BY <1>9 DEF ApplyDueUpdate, InFrame, InCall
  <2>3. CASE todo' = todo \ {i} /\ UNCHANGED <<stream, frame, sample_offset>>
    BY <1>3, <2>1, <2>2, <2>3, ApplyNext DEF stream
  <2> QED BY <1>2, <2>1, <2>3 DEF FailMidFrame
<1>10. CASE SkipSilence
  <2>1. PICK end \in SilenceEnds :
          /\ Earliest(SilenceEnds, end)
          /\ \/ FailMidFrame("OamdStateUninitialized")
             \/ ~(end <= sample_offset) /\ sample_offset' = end /\ UNCHANGED <<stream, frame, todo>>
    BY <1>10 DEF SkipSilence
  <2>2. InCall /\ UNCHANGED metadata
    BY <1>10 DEF SkipSilence, InFrame, InCall
  <2>3. CASE ~(end <= sample_offset) /\ sample_offset' = end /\ UNCHANGED <<stream, frame, todo>>
    <3>1. end \in Nat
      BY <1>3, <2>2, RendererAssumption DEF SilenceEnds, NextOffset, Frame
    <3>2. \A next \in NextOffset : end <= next
      BY <2>1 DEF Earliest, SilenceEnds
    <3>3. \A i \in todo : OffsetOf(i) >= end
      BY <2>2, <3>1, <3>2, NothingSkipped
    <3> QED BY <1>3, <2>2, <2>3, <3>1, <3>3, WalkOn DEF AppliedUpdates, stream
  <2> QED BY <1>2, <2>1, <2>3 DEF FailMidFrame
<1>11. CASE MixSegment
  <2>1. InFrame /\ ~Due(sample_offset) /\ InCall /\ UNCHANGED metadata
    BY <1>11 DEF MixSegment, InFrame, InCall
  <2>2. ASSUME NEW end \in SegmentEnds, Earliest(SegmentEnds, end), MixUpTo(end) PROVE UpdatesInv'
    <3>1. end \in Nat /\ sample_offset <= end /\ \A next \in NextOffset : end <= next
      BY <1>3, <2>1, <2>2, SegmentBounds
    <3>2. \A i \in todo : OffsetOf(i) >= end
      BY <2>1, <3>1, NothingSkipped
    <3>3. sample_offset' = end /\ UNCHANGED <<frame, todo, stream_sample_offset>>
      BY <2>2 DEF MixUpTo, stream
    <3> QED BY <1>3, <2>1, <3>1, <3>2, <3>3, WalkOn DEF AppliedUpdates
  <2> QED BY <1>2, <1>11, <2>2, Zenon DEF MixSegment, FailMidFrame
<1>12. CASE FinishPush
  <2>1. pc' = "idle" \/ pc' = "panicked"
    BY <1>12 DEF FinishPush, Return
  <2> QED BY <1>1, <2>1
<1>13. CASE Flush
  <2>1. pc' = "idle"
    BY <1>13 DEF Flush
  <2> QED BY <1>1, <2>1
<1>14. CASE Reset
  BY <1>2, <1>14, Zenon DEF Reset
<1>15. CASE UNCHANGED vars
  <2>1. UNCHANGED <<pc, frame, todo, metadata, stream_sample_offset, sample_offset>>
    BY <1>15 DEF vars, call, stream
  <2> QED BY <1>1, <1>4, <2>1 DEF InCall
<1> QED BY <1>5, <1>6, <1>7, <1>8, <1>9, <1>10, <1>11, <1>12, <1>13, <1>14, <1>15 DEF Next

\* Every update takes effect at its own sample and in its order, however many a frame carries.
THEOREM UpdatesAreOnTime == Spec => []UpdatesOnTime
<1>1. Init => UpdatesInv
  BY DEF Init, UpdatesInv, InCall
<1>2. UpdatesInv => UpdatesOnTime
  BY DEF UpdatesInv, UpdatesOnTime, InCall, LastApplied, Payload, AppliedUpdates
<1> QED BY <1>1, <1>2, CallCorrect, UpdatesInvariance, PTL DEF Spec

-----------------------------------------------------------------------------
(***************************************************************************)
(* Objects have sources                                                    *)
(***************************************************************************)

\* Since the walk began the payload in effect was compared with the frame's objects.
SourcesInv == pc = "loop" /\ metadata.initialized => metadata.dynamic_objects = frame.objects

LEMMA SourcesInvariance == TypeOK /\ SourcesInv /\ [Next]_vars => SourcesInv'
<1> SUFFICES ASSUME TypeOK, SourcesInv, [Next]_vars PROVE SourcesInv'
  OBVIOUS
<1>1. ASSUME pc' # "loop" PROVE SourcesInv'
  BY <1>1 DEF SourcesInv
<1>2. ASSUME NEW outcome, Return(outcome) PROVE SourcesInv'
  BY <1>1, <1>2 DEF Return
<1>3. ASSUME pc = "loop", UNCHANGED <<frame, metadata>> PROVE SourcesInv'
  BY <1>3 DEF SourcesInv
<1>4. ASSUME NEW f \in Frames, PushWrongRate(f) \/ PushWithoutMetadata(f) PROVE SourcesInv'
  BY <1>2, <1>4, Zenon DEF PushWrongRate, PushWithoutMetadata
<1>5. ASSUME NEW f \in Frames, BeginPush(f) PROVE SourcesInv'
  BY <1>1, <1>5 DEF BeginPush
<1>6. CASE ApplyLeadingUpdate
  BY <1>1, <1>2, <1>6 DEF ApplyLeadingUpdate
<1>7. CASE BeginLoop
  BY <1>2, <1>7 DEF BeginLoop, SourcesInv, CountsAgree
<1>8. CASE ApplyDueUpdate
  BY <1>2, <1>8 DEF ApplyDueUpdate, FailMidFrame, SourcesInv, CountsAgree
<1>9. CASE SkipSilence
  BY <1>2, <1>3, <1>9 DEF SkipSilence, FailMidFrame, InFrame
<1>10. CASE MixSegment
  BY <1>2, <1>3, <1>10 DEF MixSegment, MixUpTo, FailMidFrame, InFrame
<1>11. CASE FinishPush
  BY <1>1, <1>11 DEF FinishPush, Return
<1>12. CASE Flush \/ Reset
  BY <1>1, <1>12 DEF Flush, Reset, Return
<1>13. CASE UNCHANGED vars
  BY <1>13 DEF SourcesInv, vars, call
<1> QED BY <1>4, <1>5, <1>6, <1>7, <1>8, <1>9, <1>10, <1>11, <1>12, <1>13 DEF Next

\* No object of any frame is mixed from a source the payload in effect does not have.
THEOREM ObjectsAlwaysHaveSources == Spec => []ObjectsHaveSources
<1>1. Init => SourcesInv
  BY DEF Init, SourcesInv
<1>2. TypeOK /\ SourcesInv => ObjectsHaveSources
  BY DEF SourcesInv, ObjectsHaveSources, InFrame, TypeOK, DataOK
<1> QED BY <1>1, <1>2, TypeCorrect, SourcesInvariance, PTL DEF Spec

-----------------------------------------------------------------------------
(***************************************************************************)
(* The slot clock                                                          *)
(***************************************************************************)

\* A push that applied leading updates has a payload that dates from its first sample.
LEMMA LeadingPayload ==
  ASSUME TypeOK, CallInv, UpdatesInv, pc = "head", todo # DOMAIN frame.updates
  PROVE  metadata.initialized /\ metadata.payload_stream_sample = stream_sample_offset
<1>1. /\ sample_offset = 0 /\ AppliedUpdates # {} /\ stream_sample_offset \in Nat
      /\ \A i \in DOMAIN frame.updates : OffsetOf(i) \in Nat
  BY FrameTypes DEF CallInv, AppliedUpdates, TypeOK, DataOK
<1>2. PICK i \in AppliedUpdates : Payload(i) /\ OffsetOf(i) <= 0
  BY <1>1 DEF UpdatesInv, InCall, LastApplied
<1>3. OffsetOf(i) = 0
  BY <1>1, <1>2 DEF AppliedUpdates
<1> QED BY <1>1, <1>2, <1>3 DEF Payload, Applied

LEMMA NatSum == \A a, b \in Nat : a + b \in Nat
  OBVIOUS

\* A push that ends early takes the position back to the start of its frame.
LEMMA PositionBack ==
  ASSUME stream_sample_offset \in Nat, sample_offset \in Nat,
         UNCHANGED stream_sample_offset, sample_offset' \in {0, sample_offset}
  PROVE  Position' \in Nat /\ Position' <= Position
<1>1. CASE sample_offset' = sample_offset
  <2>1. Position' = Position
    BY <1>1 DEF Position
  <2>2. Position \in Nat
    BY DEF Position
  <2>3. Position <= Position
    BY <2>2
  <2> QED BY <2>1, <2>2, <2>3, Zenon
<1>2. CASE sample_offset' = 0
  <2>1. Position' = stream_sample_offset + 0
    BY <1>2 DEF Position
  <2>2. stream_sample_offset + 0 \in Nat /\ stream_sample_offset + 0 <= Position
    BY DEF Position
  <2> QED BY <2>1, <2>2, Zenon
<1> QED BY <1>1, <1>2

\* The end of a push leaves the position of the stream where the walk ended.
LEMMA PositionAtEnd ==
  ASSUME TypeOK, CallInv, FinishPush
  PROVE  pc' # "panicked" => Position' = Position
<1>1. /\ stream_sample_offset' = stream_sample_offset + frame.samples
      /\ sample_offset = frame.samples /\ stream_sample_offset \in Nat /\ frame.samples \in Nat
  BY FinishCases DEF TypeOK, DataOK
<1>2. pc' # "panicked" => sample_offset' = 0
  BY FinishCases DEF Return
<1> QED BY <1>1, <1>2 DEF Position

\* A segment moves the slot clock as far as the position.
LEMMA ClockFollows ==
  ASSUME TypeOK, InFrame, ~Due(sample_offset), NEW end \in SegmentEnds, Earliest(SegmentEnds, end), MixUpTo(end)
  PROVE  /\ end \in Nat /\ sample_offset < end
         /\ slot_start' + phase' = slot_start + phase + (end - sample_offset)
         /\ Position' = Position + (end - sample_offset)
         /\ \/ slot_start' = slot_start /\ phase' = phase + (end - sample_offset) /\ phase' < Timeslot
            \/ slot_start' = slot_start + Timeslot /\ phase' = 0 /\ phase + (end - sample_offset) = Timeslot
<1>1. /\ end \in Nat /\ sample_offset < end /\ end <= sample_offset + (Timeslot - phase)
  BY SegmentBounds
<1>2. /\ sample_offset \in Nat /\ phase \in Nat /\ phase < Timeslot /\ Timeslot \in Nat
      /\ slot_start \in Nat /\ stream_sample_offset \in Nat
  BY RendererAssumption DEF TypeOK, DataOK
<1>3. sample_offset' = end /\ stream_sample_offset' = stream_sample_offset
  BY DEF MixUpTo, stream
<1>4. \/ phase + (end - sample_offset) = Timeslot /\ phase' = 0 /\ slot_start' = slot_start + Timeslot
      \/ /\ phase + (end - sample_offset) # Timeslot
         /\ phase' = phase + (end - sample_offset) /\ slot_start' = slot_start
  BY DEF MixUpTo
<1> QED BY <1>1, <1>2, <1>3, <1>4 DEF Position

LEMMA ClockStep ==
  TypeOK /\ CallInv /\ UpdatesInv /\ ClockNeverBehindPayload /\ [Next]_vars => ClockNeverBehindPayload'
<1> SUFFICES ASSUME TypeOK, CallInv, UpdatesInv, ClockNeverBehindPayload, [Next]_vars
             PROVE  ClockNeverBehindPayload'
  OBVIOUS
<1> DEFINE now == slot_start + phase
           dated == metadata.payload_stream_sample
<1>1. /\ slot_start \in Nat /\ phase \in Nat /\ sample_offset \in Nat /\ stream_sample_offset \in Nat
      /\ dated \in Nat /\ Position \in Nat /\ now \in Nat /\ Position = stream_sample_offset + sample_offset
      /\ Position >= stream_sample_offset
  BY RendererAssumption DEF TypeOK, DataOK, Position
<1>2. metadata.initialized => now >= dated /\ (pc # "panicked" => now >= Position)
  BY DEF ClockNeverBehindPayload
<1>3. ASSUME UNCHANGED <<clock, metadata, stream_sample_offset>>, sample_offset' \in {0, sample_offset},
             pc # "panicked"
      PROVE  ClockNeverBehindPayload'
  <2>1. stream_sample_offset' = stream_sample_offset /\ sample_offset' \in Nat /\ sample_offset' <= sample_offset
    BY <1>1, <1>3
  <2>2. Position' \in Nat /\ Position' <= Position
    BY <1>1, <1>3, PositionBack
  <2>3. (slot_start + phase)' = now /\ metadata' = metadata
    BY <1>3 DEF clock
  <2> HIDE DEF now
  <2> QED BY <1>1, <1>2, <1>3, <2>2, <2>3 DEF ClockNeverBehindPayload
<1>4. ASSUME NEW f \in Frames, PushWrongRate(f) \/ PushWithoutMetadata(f) \/ BeginPush(f)
      PROVE  ClockNeverBehindPayload'
  BY <1>3, <1>4 DEF PushWrongRate, PushWithoutMetadata, BeginPush, Pushable, Return, stream
<1>5. CASE ApplyLeadingUpdate
  <2>1. PICK i \in todo : /\ OffsetOf(i) = 0 /\ metadata' = Applied(i) /\ StartClockAt(stream_sample_offset)
                          /\ sample_offset' \in {0, sample_offset} /\ UNCHANGED stream_sample_offset
    BY <1>5 DEF ApplyLeadingUpdate, Return, stream
  <2>2. sample_offset = 0 /\ pc # "panicked"
    BY <1>5 DEF ApplyLeadingUpdate, CallInv
  <2>3. metadata'.payload_stream_sample = stream_sample_offset /\ Position' = stream_sample_offset
    <3>1. stream_sample_offset' = stream_sample_offset /\ sample_offset' = 0
      BY <2>1, <2>2
    <3>2. metadata'.payload_stream_sample = stream_sample_offset + 0
      BY <2>1 DEF Applied
    <3> HIDE DEF now, dated
    <3> QED BY <1>1, <3>1, <3>2 DEF Position
  <2>4. (slot_start + phase)' >= stream_sample_offset
    BY <1>1, <1>2, <2>1, <2>2 DEF StartClockAt, clock
  <2> QED BY <2>3, <2>4 DEF ClockNeverBehindPayload
<1>6. CASE BeginLoop
  <2>1. /\ pc = "head" /\ RestartClock /\ sample_offset = 0 /\ UNCHANGED <<stream_sample_offset, metadata>>
        /\ sample_offset' = 0
    BY <1>6 DEF BeginLoop, CallInv, Return, stream
  <2>2. CASE todo = DOMAIN frame.updates
    BY <1>3, <2>1, <2>2 DEF RestartClock
  <2>3. CASE todo # DOMAIN frame.updates
    <3>1. dated = stream_sample_offset
      BY <2>1, <2>3, LeadingPayload
    <3>2. phase' = 0 /\ slot_start' = stream_sample_offset
      BY <2>1, <2>3 DEF RestartClock
    <3> QED BY <1>1, <2>1, <3>1, <3>2 DEF ClockNeverBehindPayload, Position
  <2> QED BY <2>2, <2>3
<1>7. CASE ApplyDueUpdate
  <2>1. PICK i \in todo : /\ OffsetOf(i) <= sample_offset /\ metadata' = Applied(i)
                          /\ StartClockAt(stream_sample_offset + OffsetOf(i))
                          /\ sample_offset' \in {0, sample_offset} /\ UNCHANGED stream_sample_offset
    BY <1>7 DEF ApplyDueUpdate, FailMidFrame, Return, stream
  <2>2. pc = "loop"
    BY <1>7 DEF ApplyDueUpdate, InFrame
  <2>3. OffsetOf(i) \in Nat
    BY <2>2, FrameTypes DEF TypeOK, DataOK
  <2>4. OffsetOf(i) = sample_offset
    BY <1>1, <2>1, <2>2, <2>3 DEF UpdatesInv, InCall
  <2>5. metadata'.payload_stream_sample = Position
    BY <2>1, <2>4 DEF Applied, Position
  <2>6. Position' \in Nat /\ Position' <= Position
    BY <1>1, <2>1, PositionBack
  <2>7. (slot_start + phase)' >= Position
    BY <1>1, <1>2, <2>1, <2>2, <2>4 DEF StartClockAt, clock, Position
  <2>8. slot_start' + phase' \in Nat
    <3>1. slot_start' \in Nat /\ phase' \in Nat
      BY <1>1, <2>1, <2>3 DEF StartClockAt, clock
    <3> QED BY <3>1, NatSum, Zenon
  <2> QED BY <1>1, <2>5, <2>6, <2>7, <2>8 DEF ClockNeverBehindPayload
<1>8. CASE SkipSilence
  BY <1>8 DEF SkipSilence, ClockNeverBehindPayload
<1>9. CASE MixSegment
  <2>1. InFrame /\ ~Due(sample_offset) /\ UNCHANGED metadata /\ pc = "loop"
    BY <1>9 DEF MixSegment, InFrame
  <2>2. ASSUME NEW end \in SegmentEnds, Earliest(SegmentEnds, end), MixUpTo(end)
        PROVE  ClockNeverBehindPayload'
    <3>1. /\ end \in Nat /\ sample_offset < end
          /\ (slot_start + phase)' = now + (end - sample_offset)
          /\ Position' = Position + (end - sample_offset)
      BY <2>1, <2>2, ClockFollows
    <3> QED BY <1>1, <1>2, <2>1, <3>1 DEF ClockNeverBehindPayload
  <2>3. CASE FailMidFrame("BedChannelError") /\ UNCHANGED clock
    BY <1>3, <2>1, <2>3 DEF FailMidFrame, Return, stream
  <2> QED BY <1>9, <2>2, <2>3 DEF MixSegment
<1>10. CASE FinishPush
  <2>1. pc = "loop" /\ UNCHANGED <<clock, metadata>>
    BY <1>10 DEF FinishPush
  <2> QED BY <1>2, <1>10, <2>1, PositionAtEnd DEF ClockNeverBehindPayload, clock
<1>11. CASE Flush
  BY <1>3, <1>11 DEF Flush
<1>12. CASE Reset
  BY <1>12 DEF Reset, NoMetadata, ClockNeverBehindPayload
<1>13. CASE UNCHANGED vars
  BY <1>13 DEF ClockNeverBehindPayload, Position, vars, stream, clock, call
<1> QED BY <1>4, <1>5, <1>6, <1>7, <1>8, <1>9, <1>10, <1>11, <1>12, <1>13 DEF Next

\* No slot is evaluated before the payload in effect, whatever pushes fail.
THEOREM ClockAfterPayload == Spec => []ClockNeverBehindPayload
<1>1. Init => UpdatesInv /\ ClockNeverBehindPayload
  BY DEF Init, UpdatesInv, InCall, NoMetadata, ClockNeverBehindPayload
<1>2. Spec => []UpdatesInv
  BY <1>1, CallCorrect, UpdatesInvariance, PTL DEF Spec
<1> QED BY <1>1, <1>2, CallCorrect, ClockStep, PTL DEF Spec

-----------------------------------------------------------------------------
(***************************************************************************)
(* The grid of timeslots                                                   *)
(***************************************************************************)

OnGrid(start, base) == \E q \in Nat : start = base + q * Timeslot

\* While no push failed in mid-frame the clock stands at the position, in a slot of the grid.
GridInv ==
  metadata.initialized /\ ~skewed /\ pc # "panicked" =>
    OnGrid(slot_start, anchor) /\ Position = slot_start + phase

LEMMA GridStart == \A base \in Nat : OnGrid(base, base)
<1> SUFFICES ASSUME NEW base \in Nat PROVE OnGrid(base, base)
  OBVIOUS
<1>1. base = base + 0 * Timeslot
  BY RendererAssumption
<1> QED BY <1>1 DEF OnGrid

LEMMA GridNext == \A start, base \in Nat : OnGrid(start, base) => OnGrid(start + Timeslot, base)
<1> SUFFICES ASSUME NEW start \in Nat, NEW base \in Nat, NEW q \in Nat, start = base + q * Timeslot
             PROVE  OnGrid(start + Timeslot, base)
  BY DEF OnGrid
<1>1. Timeslot \in Nat
  BY RendererAssumption
<1>2. start + Timeslot = base + (q + 1) * Timeslot
  BY <1>1
<1> QED BY <1>2 DEF OnGrid

\* Quotient and remainder are unique.
LEMMA DivisionUnique ==
  ASSUME NEW q \in Nat, NEW r \in 0 .. Timeslot - 1, NEW n \in Nat, n = q * Timeslot + r
  PROVE  n \div Timeslot = q /\ n % Timeslot = r
<1> DEFINE d == n \div Timeslot
           m == n % Timeslot
<1>1. Timeslot \in Nat \ {0}
  BY RendererAssumption
<1>2. d \in Nat /\ m \in 0 .. Timeslot - 1 /\ n = d * Timeslot + m
  BY <1>1
<1> HIDE DEF d, m
<1>3. ASSUME NEW a \in Nat, NEW b \in Nat, a < b
      PROVE  a * Timeslot + Timeslot <= b * Timeslot
  <2>1. PICK k \in Nat : b = a + 1 + k
    <3>1. b - a - 1 \in Nat /\ b = a + 1 + (b - a - 1)
      BY <1>3
    <3> QED BY <3>1
  <2>2. b * Timeslot = a * Timeslot + Timeslot + k * Timeslot
    BY <1>1, <2>1
  <2>3. k * Timeslot \in Nat /\ a * Timeslot \in Nat
    BY <1>1
  <2> QED BY <1>1, <2>2, <2>3
<1>4. q * Timeslot \in Nat /\ d * Timeslot \in Nat
  BY <1>1, <1>2
<1>5. ~(q < d)
  BY <1>1, <1>2, <1>3, <1>4
<1>6. ~(d < q)
  BY <1>1, <1>2, <1>3, <1>4
<1>7. q = d
  BY <1>2, <1>5, <1>6
<1>8. r = m
  BY <1>1, <1>2, <1>4, <1>7
<1> QED BY <1>7, <1>8 DEF d, m

LEMMA GridIsSlot == TypeOK /\ GridInv => SlotGrid
<1> SUFFICES ASSUME TypeOK, GridInv, metadata.initialized, ~skewed, pc # "panicked"
             PROVE  /\ anchor <= Position
                    /\ slot_start = anchor + ((Position - anchor) \div Timeslot) * Timeslot
                    /\ phase = (Position - anchor) % Timeslot
  BY DEF SlotGrid
<1>1. PICK q \in Nat : slot_start = anchor + q * Timeslot
  BY DEF GridInv, OnGrid
<1>2. /\ anchor \in Nat /\ slot_start \in Nat /\ phase \in 0 .. Timeslot - 1 /\ Timeslot \in Nat
      /\ q * Timeslot \in Nat /\ Position = slot_start + phase
  BY RendererAssumption DEF TypeOK, DataOK, GridInv
<1>3. Position - anchor \in Nat /\ Position - anchor = q * Timeslot + phase /\ anchor <= Position
  BY <1>1, <1>2
<1>4. (Position - anchor) \div Timeslot = q /\ (Position - anchor) % Timeslot = phase
  BY <1>2, <1>3, DivisionUnique
<1> QED BY <1>1, <1>3, <1>4

\* The clock starts at the position of the first payload: that is on the grid by definition.
LEMMA FreshGrid ==
  ASSUME NEW at \in Nat, phase' = 0, slot_start' = at, anchor' = at, Position' = at
  PROVE  GridInv'
<1>1. OnGrid(slot_start', anchor')
  BY GridStart
<1>2. at = at + 0
  OBVIOUS
<1>3. Position' = slot_start' + phase'
  BY <1>2
<1> QED BY <1>1, <1>3 DEF GridInv, OnGrid

LEMMA GridStep == TypeOK /\ CallInv /\ UpdatesInv /\ GridInv /\ [Next]_vars => GridInv'
<1> SUFFICES ASSUME TypeOK, CallInv, UpdatesInv, GridInv, [Next]_vars
             PROVE  GridInv'
  OBVIOUS
<1>1. /\ slot_start \in Nat /\ phase \in Nat /\ sample_offset \in Nat /\ stream_sample_offset \in Nat
      /\ anchor \in Nat /\ Position \in Nat
  BY RendererAssumption DEF TypeOK, DataOK, Position
<1>2. ASSUME UNCHANGED <<clock, metadata, stream_sample_offset, anchor, skewed>>,
             sample_offset' = sample_offset, pc # "panicked"
      PROVE  GridInv'
  BY <1>2 DEF GridInv, OnGrid, Position, clock
<1>3. ASSUME NEW f \in Frames, PushWrongRate(f) \/ PushWithoutMetadata(f) \/ BeginPush(f)
      PROVE  GridInv'
  <2>1. /\ pc = "idle" /\ sample_offset = 0
        /\ UNCHANGED <<clock, metadata, stream_sample_offset, anchor, skewed>>
    BY <1>3 DEF PushWrongRate, PushWithoutMetadata, BeginPush, Pushable, stream, history, CallInv
  <2>2. sample_offset' = 0
    BY <1>3, <2>1 DEF PushWrongRate, PushWithoutMetadata, BeginPush, Return
  <2> QED BY <1>2, <2>1, <2>2
<1>4. CASE ApplyLeadingUpdate
  <2>1. /\ StartClockAt(stream_sample_offset) /\ sample_offset = 0 /\ sample_offset' = 0
        /\ UNCHANGED <<stream_sample_offset, skewed>> /\ pc = "head" /\ metadata'.initialized
    BY <1>4 DEF ApplyLeadingUpdate, Return, stream, CallInv, Applied
  <2>2. Position' = Position /\ Position = stream_sample_offset
    BY <1>1, <2>1 DEF Position
  <2>3. CASE metadata.initialized
    BY <2>1, <2>2, <2>3 DEF StartClockAt, clock, GridInv, OnGrid
  <2>4. CASE ~metadata.initialized
    BY <1>1, <2>1, <2>2, <2>4, FreshGrid DEF StartClockAt
  <2> QED BY <2>3, <2>4
<1>5. CASE BeginLoop
  <2>1. /\ pc = "head" /\ RestartClock /\ sample_offset = 0 /\ UNCHANGED <<stream_sample_offset, metadata>>
        /\ sample_offset' = 0
    BY <1>5 DEF BeginLoop, CallInv, Return, stream
  <2>2. CASE todo = DOMAIN frame.updates
    BY <1>2, <2>1, <2>2 DEF RestartClock
  <2>3. CASE todo # DOMAIN frame.updates
    <3>1. Position' = stream_sample_offset
      <4>1. Position' = Position
        BY <2>1 DEF Position
      <4>2. Position = stream_sample_offset
        BY <1>1, <2>1 DEF Position
      <4> QED BY <4>1, <4>2
    <3> QED BY <1>1, <2>1, <2>3, <3>1, FreshGrid DEF RestartClock
  <2> QED BY <2>2, <2>3
<1>6. CASE ApplyDueUpdate
  <2>1. PICK i \in todo : /\ OffsetOf(i) <= sample_offset /\ metadata' = Applied(i)
                          /\ StartClockAt(stream_sample_offset + OffsetOf(i))
                          /\ \/ skewed'
                             \/ UNCHANGED <<stream_sample_offset, sample_offset, skewed>>
    BY <1>6, Zenon DEF ApplyDueUpdate, FailMidFrame, stream
  <2>2. pc = "loop"
    BY <1>6 DEF ApplyDueUpdate, InFrame
  <2>3. CASE skewed'
    BY <2>3 DEF GridInv
  <2>4. CASE UNCHANGED <<stream_sample_offset, sample_offset, skewed>>
    <3>1. Position' = Position
      BY <2>4 DEF Position
    <3>2. CASE metadata.initialized
      BY <2>1, <2>2, <2>4, <3>1, <3>2 DEF StartClockAt, clock, GridInv, OnGrid
    <3>3. CASE ~metadata.initialized
      <4>1. OffsetOf(i) \in Nat
        BY <2>2, FrameTypes DEF TypeOK, DataOK
      <4>2. OffsetOf(i) = sample_offset
        BY <1>1, <2>1, <2>2, <4>1 DEF UpdatesInv, InCall
      <4>3. stream_sample_offset + OffsetOf(i) = Position
        BY <4>2 DEF Position
      <4> QED BY <1>1, <2>1, <3>1, <3>3, <4>3, FreshGrid DEF StartClockAt
    <3> QED BY <3>2, <3>3
  <2> QED BY <2>1, <2>3, <2>4
<1>7. CASE SkipSilence
  BY <1>7 DEF SkipSilence, GridInv
<1>8. CASE MixSegment
  <2>1. InFrame /\ ~Due(sample_offset) /\ UNCHANGED <<metadata, anchor>> /\ pc = "loop" /\ metadata.initialized
    BY <1>8 DEF MixSegment, InFrame
  <2>2. ASSUME NEW end \in SegmentEnds, Earliest(SegmentEnds, end), MixUpTo(end)
        PROVE  GridInv'
    <3> DEFINE step == end - sample_offset
    <3>1. /\ end \in Nat /\ sample_offset < end
          /\ slot_start' + phase' = slot_start + phase + step
          /\ Position' = Position + step
          /\ slot_start' = slot_start \/ slot_start' = slot_start + Timeslot
      BY <2>1, <2>2, ClockFollows
    <3>2. skewed' = skewed
      BY <2>2 DEF MixUpTo
    <3>3. ASSUME ~skewed PROVE OnGrid(slot_start, anchor) /\ Position = slot_start + phase
      BY <2>1, <3>3 DEF GridInv
    <3>4. ASSUME ~skewed PROVE OnGrid(slot_start', anchor')
      <4>1. OnGrid(slot_start, anchor) /\ OnGrid(slot_start + Timeslot, anchor)
        BY <1>1, <3>3, <3>4, GridNext
      <4> QED BY <2>1, <3>1, <4>1 DEF OnGrid
    <3>5. ASSUME ~skewed PROVE Position' = slot_start' + phase'
      BY <3>1, <3>3, <3>5
    <3> QED BY <3>2, <3>4, <3>5 DEF GridInv, OnGrid
  <2>3. CASE FailMidFrame("BedChannelError") /\ UNCHANGED clock
    BY <2>3 DEF FailMidFrame, GridInv
  <2> QED BY <1>8, <2>2, <2>3 DEF MixSegment
<1>9. CASE FinishPush
  <2>1. pc = "loop" /\ UNCHANGED <<clock, metadata, anchor, skewed>>
    BY <1>9 DEF FinishPush
  <2> QED BY <1>9, <2>1, PositionAtEnd DEF GridInv, OnGrid, clock
<1>10. CASE Flush
  BY <1>2, <1>10 DEF Flush
<1>11. CASE Reset
  BY <1>11 DEF Reset, NoMetadata, GridInv
<1>12. CASE UNCHANGED vars
  BY <1>12 DEF GridInv, OnGrid, Position, vars, stream, clock, call, history
<1> QED BY <1>3, <1>4, <1>5, <1>6, <1>7, <1>8, <1>9, <1>10, <1>11, <1>12 DEF Next

\* Timeslots lie on the grid of the clock's last start, however the stream is cut into pushes.
THEOREM SlotsOnGrid == Spec => []SlotGrid
<1>1. Init => UpdatesInv /\ GridInv
  BY DEF Init, UpdatesInv, InCall, NoMetadata, GridInv
<1>2. Spec => []UpdatesInv
  BY <1>1, CallCorrect, UpdatesInvariance, PTL DEF Spec
<1> QED BY <1>1, <1>2, CallCorrect, GridStep, GridIsSlot, PTL DEF Spec

-----------------------------------------------------------------------------
(***************************************************************************)
(* One row per block                                                       *)
(***************************************************************************)

\* Samples and rows held back, those of the frame in progress included.
Held == limiter_pending + sample_offset
RowCount == Len(pending_debug) + Len(frame_debug)

\* The rows reach past the samples: the last row's slot, begun at this phase, is not yet over.
Covered(samples, rows, at) == samples < rows * Timeslot + (IF at = 0 THEN Timeslot ELSE at)

RowsInv ==
  /\ ~metadata.initialized => phase = 0
  /\ limiter_disabled => pc # "panicked"
  /\ ~faulted /\ ~limiter_disabled => pc # "panicked" /\ Covered(Held, RowCount, phase)

LEMMA CoverEmpty == \A at \in Nat : Covered(0, 0, at)
  BY RendererAssumption DEF Covered

LEMMA CoverRestart ==
  \A n, rows \in Nat, at \in 0 .. Timeslot - 1 : Covered(n, rows, at) => Covered(n, rows, 0)
<1> SUFFICES ASSUME NEW n \in Nat, NEW rows \in Nat, NEW at \in 0 .. Timeslot - 1, Covered(n, rows, at)
             PROVE  Covered(n, rows, 0)
  OBVIOUS
<1>1. rows * Timeslot \in Nat /\ Timeslot \in Nat
  BY RendererAssumption
<1> QED BY <1>1 DEF Covered

LEMMA CoverSilence ==
  \A n, rows \in Nat : n < Timeslot => Covered(n, rows, 0)
<1> SUFFICES ASSUME NEW n \in Nat, NEW rows \in Nat, n < Timeslot
             PROVE  Covered(n, rows, 0)
  OBVIOUS
<1>1. rows * Timeslot \in Nat /\ Timeslot \in Nat
  BY RendererAssumption
<1> QED BY <1>1 DEF Covered

\* A segment: a row when it opens its slot, and as many samples as the slot advances.
LEMMA CoverMix ==
  ASSUME NEW n \in Nat, NEW rows \in Nat, NEW at \in 0 .. Timeslot - 1, NEW step \in Nat,
         0 < step, at + step <= Timeslot, Covered(n, rows, at)
  PROVE  Covered(n + step, IF at = 0 THEN rows + 1 ELSE rows, IF at + step = Timeslot THEN 0 ELSE at + step)
<1>1. rows * Timeslot \in Nat /\ Timeslot \in Nat /\ (rows + 1) * Timeslot = rows * Timeslot + Timeslot
  BY RendererAssumption
<1>2. CASE at = 0
  BY <1>1, <1>2 DEF Covered
<1>3. CASE at # 0
  BY <1>1, <1>3 DEF Covered
<1> QED BY <1>2, <1>3

\* Draining the complete blocks takes a row for each, and there are enough.
LEMMA CoverDrain ==
  ASSUME NEW n \in Nat, NEW rows \in Nat, NEW at \in 0 .. Timeslot - 1, Covered(n, rows, at)
  PROVE  /\ ReadyBlocks(n) <= rows
         /\ Covered(n - ReadyBlocks(n) * Timeslot, rows - ReadyBlocks(n), at)
<1> DEFINE blocks == ReadyBlocks(n)
<1>1. Timeslot \in Nat \ {0}
  BY RendererAssumption
<1>2. blocks \in Nat /\ blocks * Timeslot \in Nat /\ blocks * Timeslot <= n
  BY BlockDivision
<1> HIDE DEF blocks
<1>3. n < rows * Timeslot + Timeslot /\ rows * Timeslot \in Nat
  BY <1>1 DEF Covered
<1>4. blocks <= rows
  <2>1. SUFFICES ASSUME rows < blocks PROVE FALSE
    BY <1>2
  <2>2. PICK k \in Nat : blocks = rows + 1 + k
    <3>1. blocks - rows - 1 \in Nat /\ blocks = rows + 1 + (blocks - rows - 1)
      BY <1>2, <2>1
    <3> QED BY <3>1
  <2>3. blocks * Timeslot = rows * Timeslot + Timeslot + k * Timeslot /\ k * Timeslot \in Nat
    BY <1>1, <2>2
  <2> QED BY <1>1, <1>2, <1>3, <2>3
<1>5. (rows - blocks) * Timeslot = rows * Timeslot - blocks * Timeslot
  BY <1>1, <1>2
<1>6. Covered(n - blocks * Timeslot, rows - blocks, at)
  BY <1>1, <1>2, <1>3, <1>5 DEF Covered
<1> QED BY <1>4, <1>6 DEF blocks

\* A step that leaves what is held back alone, and the phase alone or at the start of a slot.
LEMMA CoverStays ==
  ASSUME TypeOK, RowsInv, pc # "panicked", pc' # "panicked", limiter_disabled' = limiter_disabled,
         Held' = Held, RowCount' = RowCount, phase' \in {0, phase},
         ~faulted' => ~faulted, ~metadata'.initialized => ~metadata.initialized
  PROVE  RowsInv'
<1>1. Held \in Nat /\ RowCount \in Nat /\ phase \in 0 .. Timeslot - 1
  BY DEF TypeOK, DataOK, Held, RowCount
<1>2. ASSUME ~faulted', ~limiter_disabled' PROVE Covered(Held', RowCount', phase')
  BY <1>1, <1>2, CoverRestart DEF RowsInv
<1>3. ~metadata'.initialized => phase' = 0
  BY DEF RowsInv
<1> QED BY <1>2, <1>3, Zenon DEF RowsInv, Covered

\* The end of a push: the rows suffice for the blocks that leave.
LEMMA RowsAtFinish == TypeOK /\ CallInv /\ RowsInv /\ FinishPush => RowsInv'
<1> SUFFICES ASSUME TypeOK, CallInv, RowsInv, FinishPush PROVE RowsInv'
  OBVIOUS
<1>1. /\ UNCHANGED <<limiter_disabled, phase, metadata, faulted>>
      /\ sample_offset = frame.samples /\ frame.samples \in Nat
  BY FinishCases DEF FinishPush, clock
<1>2. CASE limiter_disabled
  <2>1. pc' = "idle"
    BY <1>2 DEF FinishPush, Return
  <2> QED BY <1>1, <1>2, <2>1 DEF RowsInv
<1>3. CASE ~limiter_disabled /\ faulted
  BY <1>1, <1>3 DEF RowsInv
<1>4. CASE ~limiter_disabled /\ ~faulted
  <2> DEFINE rows == pending_debug \o frame_debug
             blocks == ReadyBlocks(Held)
  <2>1. /\ Held \in Nat /\ RowCount \in Nat /\ phase \in 0 .. Timeslot - 1
        /\ rows \in Seq(Nat) /\ Len(rows) = RowCount /\ Held = limiter_pending + frame.samples
    BY <1>1 DEF TypeOK, DataOK, Held, RowCount
  <2>2. Covered(Held, RowCount, phase)
    BY <1>4 DEF RowsInv
  <2>3. /\ blocks <= RowCount /\ blocks \in Nat
        /\ Covered(Held - blocks * Timeslot, RowCount - blocks, phase)
    BY <2>1, <2>2, CoverDrain, BlockDivision
  <2>4. /\ limiter_pending' = Held - blocks * Timeslot
        /\ pending_debug' = SubSeq(rows, blocks + 1, Len(rows))
        /\ Return("frame")
    BY <1>4, <2>1, <2>3 DEF FinishPush
  <2> HIDE DEF rows, blocks
  <2>5. Len(SubSeq(rows, blocks + 1, Len(rows))) = RowCount - blocks
    BY <2>1, <2>3
  <2>6. Held' = (Held - blocks * Timeslot) + 0 /\ RowCount' = (RowCount - blocks) + 0
    BY <2>4, <2>5 DEF Held, RowCount, Return
  <2>7. (Held - blocks * Timeslot) + 0 = Held - blocks * Timeslot /\ (RowCount - blocks) + 0 = RowCount - blocks
    <3>1. blocks * Timeslot \in Nat
      BY <2>1, BlockDivision DEF blocks
    <3> QED BY <2>1, <2>3, <3>1
  <2>8. Covered(Held', RowCount', phase') /\ pc' # "panicked"
    BY <1>1, <2>3, <2>4, <2>6, <2>7 DEF Return
  <2> QED BY <1>1, <1>4, <2>8, Zenon DEF RowsInv, Covered
<1> QED BY <1>2, <1>3, <1>4

LEMMA RowsStep == TypeOK /\ CallInv /\ RowsInv /\ [Next]_vars => RowsInv'
<1> SUFFICES ASSUME TypeOK, CallInv, RowsInv, [Next]_vars PROVE RowsInv'
  OBVIOUS
<1>1. ASSUME NEW f \in Frames, PushWrongRate(f) \/ PushWithoutMetadata(f) \/ BeginPush(f)
      PROVE  RowsInv'
  <2>1. /\ pc = "idle" /\ pc' # "panicked" /\ sample_offset = 0 /\ frame_debug = << >>
        /\ UNCHANGED <<clock, metadata, limiter_disabled, limiter_pending, pending_debug, faulted>>
    BY <1>1 DEF PushWrongRate, PushWithoutMetadata, BeginPush, Pushable, Return, stream, history, CallInv
  <2>2. UNCHANGED <<sample_offset, frame_debug>>
    BY <1>1, <2>1 DEF PushWrongRate, PushWithoutMetadata, BeginPush, Return
  <2>3. Held' = Held /\ RowCount' = RowCount /\ phase' \in {0, phase}
    BY <2>1, <2>2 DEF Held, RowCount, clock
  <2> QED BY <2>1, <2>3, CoverStays
<1>2. CASE ApplyLeadingUpdate
  <2>1. /\ pc = "head" /\ pc' # "panicked" /\ sample_offset = 0 /\ frame_debug = << >>
        /\ UNCHANGED <<limiter_disabled, limiter_pending, pending_debug, faulted>>
        /\ metadata'.initialized /\ phase' \in {0, phase}
    BY <1>2 DEF ApplyLeadingUpdate, Return, stream, CallInv, Applied, StartClockAt, clock
  <2>2. UNCHANGED <<sample_offset, frame_debug>>
    BY <1>2, <2>1 DEF ApplyLeadingUpdate, Return
  <2>3. Held' = Held /\ RowCount' = RowCount
    BY <2>1, <2>2 DEF Held, RowCount
  <2> QED BY <2>1, <2>3, CoverStays
<1>3. CASE BeginLoop
  <2>1. /\ pc = "head" /\ pc' # "panicked" /\ sample_offset = 0 /\ frame_debug = << >>
        /\ UNCHANGED <<limiter_disabled, limiter_pending, pending_debug, faulted, metadata>>
        /\ phase' \in {0, phase}
    BY <1>3 DEF BeginLoop, Return, stream, CallInv, RestartClock, clock
  <2>2. UNCHANGED <<sample_offset, frame_debug>>
    BY <1>3, <2>1 DEF BeginLoop, Return
  <2>3. Held' = Held /\ RowCount' = RowCount
    BY <2>1, <2>2 DEF Held, RowCount
  <2> QED BY <2>1, <2>3, CoverStays
<1>4. ASSUME FailMidFrame("ObjectCountMismatch") \/ FailMidFrame("BedChannelError") \/ FailMidFrame("OamdStateUninitialized"),
             ~metadata'.initialized => phase' = 0
      PROVE  RowsInv'
  BY <1>4 DEF FailMidFrame, Return, RowsInv, stream
<1>5. CASE ApplyDueUpdate
  <2>1. /\ pc = "loop" /\ metadata'.initialized /\ phase' \in {0, phase}
        /\ \/ FailMidFrame("ObjectCountMismatch")
           \/ UNCHANGED <<stream, pc, sample_offset, frame_debug, faulted>>
    BY <1>5 DEF ApplyDueUpdate, InFrame, Applied, StartClockAt, clock
  <2>2. CASE UNCHANGED <<stream, pc, sample_offset, frame_debug, faulted>>
    <3>1. Held' = Held /\ RowCount' = RowCount /\ UNCHANGED limiter_disabled
      BY <2>2 DEF Held, RowCount, stream
    <3> QED BY <2>1, <2>2, <3>1, CoverStays
  <2> QED BY <1>4, <2>1, <2>2
<1>6. CASE SkipSilence
  <2>1. /\ pc = "loop" /\ ~metadata.initialized /\ UNCHANGED <<clock, metadata>> /\ phase = 0 /\ phase' = 0
    BY <1>6 DEF SkipSilence, InFrame, RowsInv, clock
  <2>2. PICK end \in SilenceEnds :
          \/ FailMidFrame("OamdStateUninitialized")
          \/ /\ sample_offset < end \/ ~(end <= sample_offset)
             /\ sample_offset' = end
             /\ faulted' = (faulted \/ limiter_pending + end >= Timeslot)
             /\ UNCHANGED <<stream, pc, frame_debug>>
    BY <1>6 DEF SkipSilence
  <2>3. CASE ~FailMidFrame("OamdStateUninitialized")
    <3>1. end \in Nat
      <4>1. frame \in Frames /\ frame.samples \in Nat
        BY <2>1, RendererAssumption DEF TypeOK, DataOK, Frame
      <4>2. \A i \in todo : OffsetOf(i) \in Nat
        BY <4>1, FrameTypes DEF TypeOK, DataOK
      <4> QED BY <4>1, <4>2 DEF SilenceEnds, NextOffset
    <3>2. ASSUME ~faulted', ~limiter_disabled' PROVE Covered(Held', RowCount', phase')
      <4>1. limiter_pending \in Nat /\ Timeslot \in Nat /\ RowCount \in Nat
        BY RendererAssumption DEF TypeOK, DataOK, RowCount
      <4>2. limiter_pending + end < Timeslot /\ limiter_pending + end \in Nat
        <5>1. ~(limiter_pending + end >= Timeslot)
          BY <2>2, <2>3, <3>2, Zenon
        <5> QED BY <3>1, <4>1, <5>1
      <4>3. Held' = limiter_pending + end /\ RowCount' = RowCount
        BY <2>2, <2>3 DEF Held, RowCount, stream
      <4> QED BY <2>1, <4>1, <4>2, <4>3, CoverSilence
    <3>3. pc' # "panicked"
      BY <2>1, <2>2, <2>3
    <3> QED BY <2>1, <3>2, <3>3, Zenon DEF RowsInv, Covered
  <2> QED BY <1>4, <2>1, <2>3
<1>7. CASE MixSegment
  <2>1. InFrame /\ ~Due(sample_offset) /\ UNCHANGED metadata /\ pc = "loop" /\ metadata.initialized
    BY <1>7 DEF MixSegment, InFrame
  <2>2. ASSUME NEW end \in SegmentEnds, Earliest(SegmentEnds, end), MixUpTo(end)
        PROVE  RowsInv'
    <3> DEFINE step == end - sample_offset
               rows == IF phase = 0 THEN RowCount + 1 ELSE RowCount
               at == IF phase + step = Timeslot THEN 0 ELSE phase + step
    <3>1. /\ end \in Nat /\ sample_offset < end /\ end <= sample_offset + (Timeslot - phase)
      BY <2>1, <2>2, SegmentBounds
    <3>2. /\ sample_offset \in Nat /\ phase \in 0 .. Timeslot - 1 /\ Timeslot \in Nat /\ limiter_pending \in Nat
          /\ Held \in Nat /\ RowCount \in Nat /\ frame_debug \in Seq(Nat) /\ pending_debug \in Seq(Nat)
      BY RendererAssumption DEF TypeOK, DataOK, Held, RowCount
    <3>3. step \in Nat /\ 0 < step /\ phase + step <= Timeslot
      BY <3>1, <3>2
    <3>4. Held' = Held + step
      <4>1. Held' = limiter_pending + end
        BY <2>2 DEF MixUpTo, Held, stream
      <4> QED BY <3>1, <3>2, <4>1 DEF Held
    <3>5. RowCount' = rows
      <4>1. CASE phase = 0
        <5>1. RowCount' = Len(pending_debug) + Len(Append(frame_debug, stream_sample_offset + sample_offset))
          BY <2>2, <4>1 DEF MixUpTo, RowCount, stream, OpensSlot
        <5> QED BY <3>2, <4>1, <5>1 DEF RowCount
      <4>2. CASE phase # 0
        BY <2>2, <4>2 DEF MixUpTo, RowCount, stream, OpensSlot
      <4> QED BY <4>1, <4>2
    <3>6. phase' = at
      BY <2>2 DEF MixUpTo
    <3>7. pc' = pc /\ faulted' = faulted /\ limiter_disabled' = limiter_disabled /\ metadata'.initialized
      BY <2>1, <2>2 DEF MixUpTo, stream
    <3>8. ASSUME ~faulted, ~limiter_disabled PROVE Covered(Held + step, rows, at)
      BY <3>2, <3>3, <3>8, CoverMix DEF RowsInv
    <3> HIDE DEF rows, at, step
    <3> QED BY <2>1, <3>4, <3>5, <3>6, <3>7, <3>8, Zenon DEF RowsInv
  <2>3. CASE FailMidFrame("BedChannelError") /\ UNCHANGED clock
    BY <1>4, <2>1, <2>3
  <2> QED BY <1>7, <2>2, <2>3 DEF MixSegment
<1>8. CASE FinishPush
  BY <1>8, RowsAtFinish
<1>9. CASE Flush
  <2>1. /\ pc = "idle" /\ UNCHANGED <<limiter_disabled, clock, metadata, pc, sample_offset, frame_debug, faulted>>
        /\ sample_offset = 0 /\ frame_debug = << >>
        /\ \/ limiter_pending' = 0 /\ pending_debug' = << >>
           \/ UNCHANGED <<limiter_pending, pending_debug>>
    BY <1>9 DEF Flush, CallInv, ClearLimiter
  <2>2. CASE UNCHANGED <<limiter_pending, pending_debug>>
    <3>1. Held' = Held /\ RowCount' = RowCount /\ phase' = phase
      BY <2>1, <2>2 DEF Held, RowCount, clock
    <3> QED BY <2>1, <3>1, CoverStays
  <2>3. CASE limiter_pending' = 0 /\ pending_debug' = << >>
    <3>1. Held' = 0 + 0 /\ RowCount' = Len(<< >>) + Len(<< >>) /\ phase' = phase /\ phase \in Nat
      BY <2>1, <2>3 DEF Held, RowCount, clock, TypeOK, DataOK
    <3>2. Held' = 0 /\ RowCount' = 0
      BY <3>1
    <3> QED BY <2>1, <3>1, <3>2, CoverEmpty DEF RowsInv
  <2> QED BY <2>1, <2>2, <2>3
<1>10. CASE Reset
  <2>1. /\ pc' = "idle" /\ phase' = 0
        /\ Held' = 0 + 0 /\ RowCount' = Len(<< >>) + Len(<< >>)
    BY <1>10 DEF Reset, Return, ClearLimiter, Held, RowCount
  <2>2. Held' = 0 /\ RowCount' = 0
    BY <2>1
  <2> QED BY <2>1, <2>2, CoverEmpty DEF RowsInv
<1>11. CASE UNCHANGED vars
  BY <1>11, Zenon DEF RowsInv, Held, RowCount, Covered, vars, stream, clock, call, history
<1> QED BY <1>1, <1>2, <1>3, <1>5, <1>6, <1>7, <1>8, <1>9, <1>10, <1>11 DEF Next

\* Draining the debug rows never panics unless a push failed in mid-frame or a whole block was silent.
THEOREM RowsSuffice == Spec => []NoPanicWithoutFault
<1>1. Init => RowsInv
  <2> SUFFICES ASSUME Init PROVE RowsInv
    OBVIOUS
  <2>1. Held = 0 /\ RowCount = 0 /\ phase = 0 /\ pc = "idle"
    BY DEF Init, Held, RowCount
  <2> QED BY <2>1, CoverEmpty DEF RowsInv
<1>2. RowsInv => NoPanicWithoutFault
  BY DEF RowsInv, NoPanicWithoutFault
<1> QED BY <1>1, <1>2, CallCorrect, RowsStep, PTL DEF Spec

-----------------------------------------------------------------------------
(***************************************************************************)
(* Rows on block boundaries                                                *)
(***************************************************************************)

Rows == pending_debug \o frame_debug

\* The rows reach exactly as far as the slot in progress will.
Exact(samples, rows, at) == samples + (IF at = 0 THEN 0 ELSE Timeslot - at) = rows * Timeslot

\* The rows are a block apart, the first at the first sample not returned yet.
Dated(rows, from) == \A k \in DOMAIN rows : rows[k] = from + (k - 1) * Timeslot

AlignedInv ==
  aligned /\ ~limiter_disabled /\ pc # "panicked" =>
    Exact(Held, Len(Rows), phase) /\ Dated(Rows, emitted)

LEMMA ExactNone ==
  ASSUME NEW rows \in Nat, NEW at \in 0 .. Timeslot - 1, Exact(0, rows, at)
  PROVE  rows = 0 /\ at = 0
<1>1. Timeslot \in Nat \ {0}
  BY RendererAssumption
<1>2. CASE rows = 0
  BY <1>1, <1>2 DEF Exact
<1>3. CASE rows # 0
  <2>1. PICK k \in Nat : rows = 1 + k
    <3>1. rows - 1 \in Nat /\ rows = 1 + (rows - 1)
      BY <1>3
    <3> QED BY <3>1
  <2>2. rows * Timeslot = Timeslot + k * Timeslot /\ k * Timeslot \in Nat
    BY <1>1, <2>1
  <2> QED BY <1>1, <2>2 DEF Exact
<1> QED BY <1>2, <1>3

LEMMA ExactOne ==
  ASSUME NEW n \in 1 .. Timeslot - 1, NEW rows \in Nat, NEW at \in 0 .. Timeslot - 1, Exact(n, rows, at)
  PROVE  rows = 1
<1>1. Timeslot \in Nat \ {0}
  BY RendererAssumption
<1>2. rows # 0
  BY <1>1 DEF Exact
<1>3. ASSUME rows > 1 PROVE FALSE
  <2>1. PICK k \in Nat : rows = 2 + k
    <3>1. rows - 2 \in Nat /\ rows = 2 + (rows - 2)
      BY <1>3
    <3> QED BY <3>1
  <2>2. rows * Timeslot = Timeslot + Timeslot + k * Timeslot /\ k * Timeslot \in Nat
    BY <1>1, <2>1
  <2> QED BY <1>1, <2>2 DEF Exact
<1> QED BY <1>2, <1>3

LEMMA ExactMix ==
  ASSUME NEW n \in Nat, NEW rows \in Nat, NEW at \in 0 .. Timeslot - 1, NEW step \in Nat,
         0 < step, at + step <= Timeslot, Exact(n, rows, at)
  PROVE  Exact(n + step, IF at = 0 THEN rows + 1 ELSE rows, IF at + step = Timeslot THEN 0 ELSE at + step)
<1>1. rows * Timeslot \in Nat /\ Timeslot \in Nat /\ (rows + 1) * Timeslot = rows * Timeslot + Timeslot
  BY RendererAssumption
<1>2. CASE at = 0
  BY <1>1, <1>2 DEF Exact
<1>3. CASE at # 0
  BY <1>1, <1>3 DEF Exact
<1> QED BY <1>2, <1>3

LEMMA ExactDrain ==
  ASSUME NEW n \in Nat, NEW rows \in Nat, NEW at \in 0 .. Timeslot - 1, NEW k \in Nat,
         k <= rows, Exact(n, rows, at)
  PROVE  Exact(n - k * Timeslot, rows - k, at)
<1>1. rows * Timeslot \in Nat /\ Timeslot \in Nat /\ k * Timeslot \in Nat
      /\ (rows - k) * Timeslot = rows * Timeslot - k * Timeslot
  BY RendererAssumption
<1> QED BY <1>1 DEF Exact

LEMMA WholeSlots == \A k \in Nat : k * Timeslot \in Nat
  BY RendererAssumption

LEMMA DatedDrain ==
  ASSUME NEW rows \in Seq(Nat), NEW from \in Nat, NEW k \in 0 .. Len(rows), Dated(rows, from)
  PROVE  Dated(SubSeq(rows, k + 1, Len(rows)), from + k * Timeslot)
<1> DEFINE rest == SubSeq(rows, k + 1, Len(rows))
<1>1. SUFFICES ASSUME NEW j \in DOMAIN rest PROVE rest[j] = from + k * Timeslot + (j - 1) * Timeslot
  BY DEF Dated
<1>2. DOMAIN rest = 1 .. Len(rows) - k /\ rest[j] = rows[k + j] /\ k + j \in DOMAIN rows /\ j \in Nat
  <2>1. Len(rest) = Len(rows) - k /\ rest \in Seq(Nat) /\ Len(rows) \in Nat
    OBVIOUS
  <2>2. DOMAIN rest = 1 .. Len(rows) - k
    BY <2>1
  <2>3. j \in Nat /\ j \in 1 .. Len(rows) - k /\ k + j \in DOMAIN rows
    BY <1>1, <2>1, <2>2
  <2>4. rest[j] = rows[k + 1 + j - 1] /\ k + 1 + j - 1 = k + j
    BY <2>1, <2>3
  <2> QED BY <2>2, <2>3, <2>4
<1>3. rows[k + j] = from + (k + j - 1) * Timeslot
  BY <1>2 DEF Dated
<1>4. (k + j - 1) * Timeslot = k * Timeslot + (j - 1) * Timeslot
  BY <1>2, RendererAssumption
<1>5. k * Timeslot \in Nat /\ (j - 1) * Timeslot \in Nat
  <2>1. j - 1 \in Nat
    BY <1>1, <1>2
  <2>2. k \in Nat
    OBVIOUS
  <2> QED BY <2>1, <2>2, WholeSlots, Zenon
<1> QED BY <1>2, <1>3, <1>4, <1>5

LEMMA DatedAppend ==
  ASSUME NEW rows \in Seq(Nat), NEW from \in Nat, NEW row \in Nat, Dated(rows, from),
         row = from + Len(rows) * Timeslot
  PROVE  Dated(Append(rows, row), from)
<1> SUFFICES ASSUME NEW j \in DOMAIN Append(rows, row)
             PROVE  Append(rows, row)[j] = from + (j - 1) * Timeslot
  BY DEF Dated
<1>1. CASE j \in DOMAIN rows
  BY <1>1 DEF Dated
<1>2. CASE j = Len(rows) + 1
  <2>1. j - 1 = Len(rows) /\ Append(rows, row)[j] = row
    BY <1>2
  <2> QED BY <2>1, Zenon
<1> QED BY <1>1, <1>2

\* A step that leaves rows, samples and phase alone.
LEMMA AlignedStays ==
  ASSUME AlignedInv, pc # "panicked", limiter_disabled' = limiter_disabled, emitted' = emitted,
         Held' = Held, UNCHANGED <<pending_debug, frame_debug>>, phase' = phase, aligned' => aligned
  PROVE  AlignedInv'
<1>1. Rows' = Rows
  BY DEF Rows
<1> QED BY <1>1, Zenon DEF AlignedInv, Exact, Dated

\* The end of a push: what leaves and what stays are whole slots apart.
LEMMA AlignedAtFinish == TypeOK /\ CallInv /\ AlignedInv /\ FinishPush => AlignedInv'
<1> SUFFICES ASSUME TypeOK, CallInv, AlignedInv, FinishPush PROVE AlignedInv'
  OBVIOUS
<1> SUFFICES ASSUME aligned, ~limiter_disabled, pc' # "panicked"
             PROVE  Exact(Held, Len(Rows), phase)' /\ Dated(Rows, emitted)'
  <2>1. aligned' = aligned /\ limiter_disabled' = limiter_disabled
    BY DEF FinishPush
  <2> QED BY <2>1, Zenon DEF AlignedInv
<1>1. /\ UNCHANGED <<limiter_disabled, phase>> /\ pc = "loop"
      /\ sample_offset = frame.samples /\ frame.samples \in Nat
  BY FinishCases DEF FinishPush, clock
<1> DEFINE k == ReadyBlocks(Held)
<1>2. /\ Held \in Nat /\ phase \in 0 .. Timeslot - 1 /\ emitted \in Nat
      /\ Rows \in Seq(Nat) /\ Len(Rows) \in Nat /\ Held = limiter_pending + frame.samples
  BY <1>1 DEF TypeOK, DataOK, Held, Rows
<1>3. k \in Nat
  BY <1>2, BlockDivision
<1>4. /\ limiter_pending' = Held - k * Timeslot
      /\ k <= Len(Rows) /\ pending_debug' = SubSeq(Rows, k + 1, Len(Rows))
      /\ emitted' = emitted + k * Timeslot /\ Return("frame")
  BY <1>2 DEF FinishPush, Rows
<1> HIDE DEF k
<1>5. Rows' = SubSeq(Rows, k + 1, Len(Rows)) /\ Len(Rows') = Len(Rows) - k
  <2>1. Rows' = SubSeq(Rows, k + 1, Len(Rows)) \o << >>
    BY <1>4 DEF Rows, Return
  <2>2. /\ SubSeq(Rows, k + 1, Len(Rows)) \in Seq(Nat)
        /\ Len(SubSeq(Rows, k + 1, Len(Rows))) = Len(Rows) - k
    BY <1>2, <1>3, <1>4
  <2> QED BY <2>1, <2>2
<1>6. Held' = Held - k * Timeslot
  <2>1. Held' = (Held - k * Timeslot) + 0
    BY <1>4 DEF Held, Return
  <2>2. k * Timeslot \in Nat
    BY <1>3, WholeSlots
  <2> QED BY <1>2, <2>1, <2>2
<1>7. Exact(Held, Len(Rows), phase) /\ Dated(Rows, emitted)
  BY <1>1 DEF AlignedInv
<1>8. Exact(Held - k * Timeslot, Len(Rows) - k, phase)
  BY <1>2, <1>3, <1>4, <1>7, ExactDrain
<1>9. Dated(SubSeq(Rows, k + 1, Len(Rows)), emitted + k * Timeslot)
  BY <1>2, <1>3, <1>4, <1>7, DatedDrain
<1> QED BY <1>1, <1>4, <1>5, <1>6, <1>8, <1>9 DEF Exact, Dated

\* A segment that opens its slot adds the row of the next whole slot.
LEMMA AlignedMix ==
  ASSUME TypeOK, SampleConservation, AlignedInv, InFrame, ~Due(sample_offset),
         NEW end \in SegmentEnds, Earliest(SegmentEnds, end), MixUpTo(end)
  PROVE  AlignedInv'
<1> SUFFICES ASSUME aligned, ~limiter_disabled
             PROVE  Exact(Held, Len(Rows), phase)' /\ Dated(Rows, emitted)'
  BY DEF AlignedInv, MixUpTo, stream
<1> DEFINE step == end - sample_offset
<1>1. /\ end \in Nat /\ sample_offset < end /\ end <= sample_offset + (Timeslot - phase)
  BY SegmentBounds
<1>2. /\ sample_offset \in Nat /\ phase \in 0 .. Timeslot - 1 /\ Timeslot \in Nat /\ limiter_pending \in Nat
      /\ Held \in Nat /\ frame_debug \in Seq(Nat) /\ pending_debug \in Seq(Nat)
      /\ Rows \in Seq(Nat) /\ emitted \in Nat /\ stream_sample_offset \in Nat /\ pc = "loop"
  BY RendererAssumption DEF TypeOK, DataOK, Held, Rows, InFrame
<1>3. step \in Nat /\ 0 < step /\ phase + step <= Timeslot
  BY <1>1, <1>2
<1>4. Held' = Held + step
  <2>1. Held' = limiter_pending + end
    BY DEF MixUpTo, Held, stream
  <2> QED BY <1>1, <1>2, <2>1 DEF Held
<1>5. phase' = IF phase + step = Timeslot THEN 0 ELSE phase + step
  BY DEF MixUpTo
<1>6. Exact(Held, Len(Rows), phase) /\ Dated(Rows, emitted)
  BY <1>2 DEF AlignedInv
<1> HIDE DEF step
<1>7. Exact(Held + step, IF phase = 0 THEN Len(Rows) + 1 ELSE Len(Rows),
            IF phase + step = Timeslot THEN 0 ELSE phase + step)
  <2>1. Len(Rows) \in Nat
    BY <1>2
  <2> QED BY <1>2, <1>3, <1>6, <2>1, ExactMix
<1>8. emitted' = emitted
  BY DEF MixUpTo
<1>9. CASE phase # 0
  <2>1. Rows' = Rows
    BY <1>9 DEF MixUpTo, OpensSlot, Rows, stream
  <2> QED BY <1>4, <1>5, <1>6, <1>7, <1>8, <1>9, <2>1 DEF Exact, Dated
<1>10. CASE phase = 0
  <2> DEFINE row == stream_sample_offset + sample_offset
  <2>1. Rows' = pending_debug \o Append(frame_debug, row)
    BY <1>10 DEF MixUpTo, OpensSlot, Rows, stream
  <2>2. row \in Nat
    BY <1>2
  <2>3. row = emitted + Len(Rows) * Timeslot
    <3>1. stream_sample_offset = emitted + limiter_pending
      BY <1>2 DEF SampleConservation
    <3>2. Held + 0 = Len(Rows) * Timeslot
      BY <1>6, <1>10 DEF Exact
    <3>3. Len(Rows) * Timeslot \in Nat
      BY <1>2, WholeSlots
    <3>4. limiter_pending + sample_offset = Len(Rows) * Timeslot
      BY <1>2, <3>2, <3>3 DEF Held
    <3>5. row = emitted + (limiter_pending + sample_offset)
      BY <1>2, <3>1
    <3> QED BY <3>4, <3>5, Zenon
  <2> HIDE DEF row
  <2>4. pending_debug \o Append(frame_debug, row) = Append(pending_debug \o frame_debug, row)
    BY <1>2, <2>2
  <2>5. Dated(Append(Rows, row), emitted)
    BY <1>2, <1>6, <2>2, <2>3, DatedAppend
  <2>6. Rows' = Append(Rows, row) /\ Len(Append(Rows, row)) = Len(Rows) + 1
    BY <1>2, <2>1, <2>2, <2>4 DEF Rows
  <2> QED BY <1>4, <1>5, <1>7, <1>8, <1>10, <2>5, <2>6 DEF Exact, Dated
<1> QED BY <1>9, <1>10

LEMMA AlignedStep ==
  TypeOK /\ CallInv /\ SampleConservation /\ RowsInv /\ AlignedInv /\ [Next]_vars => AlignedInv'
<1> SUFFICES ASSUME TypeOK, CallInv, SampleConservation, RowsInv, AlignedInv, [Next]_vars PROVE AlignedInv'
  OBVIOUS
<1>1. ASSUME UNCHANGED <<limiter_disabled, limiter_pending, pending_debug, emitted, sample_offset, frame_debug>>,
             phase' = phase, aligned' => aligned, pc # "panicked"
      PROVE  AlignedInv'
  <2>1. Held' = Held
    BY <1>1 DEF Held
  <2> QED BY <1>1, <2>1, AlignedStays
<1>2. ASSUME NEW f \in Frames, PushWrongRate(f) \/ PushWithoutMetadata(f) \/ BeginPush(f)
      PROVE  AlignedInv'
  <2>1. /\ pc = "idle" /\ sample_offset = 0 /\ frame_debug = << >>
        /\ UNCHANGED <<clock, limiter_disabled, limiter_pending, pending_debug, emitted, aligned>>
    BY <1>2 DEF PushWrongRate, PushWithoutMetadata, BeginPush, Pushable, stream, history, CallInv
  <2>2. UNCHANGED <<sample_offset, frame_debug>>
    BY <1>2, <2>1 DEF PushWrongRate, PushWithoutMetadata, BeginPush, Return
  <2> QED BY <1>1, <2>1, <2>2 DEF clock
<1>3. CASE ApplyLeadingUpdate
  <2>1. /\ pc = "head" /\ sample_offset = 0 /\ frame_debug = << >>
        /\ UNCHANGED <<limiter_disabled, limiter_pending, pending_debug, emitted, aligned>>
        /\ phase' = phase
    BY <1>3 DEF ApplyLeadingUpdate, stream, CallInv, StartClockAt, clock, RowsInv
  <2>2. UNCHANGED <<sample_offset, frame_debug>>
    BY <1>3, <2>1 DEF ApplyLeadingUpdate, Return
  <2> QED BY <1>1, <2>1, <2>2
<1>4. CASE BeginLoop
  <2>1. /\ pc = "head" /\ sample_offset = 0 /\ frame_debug = << >> /\ RestartClock
        /\ UNCHANGED <<limiter_disabled, limiter_pending, pending_debug, emitted>>
    BY <1>4 DEF BeginLoop, stream, CallInv
  <2>2. UNCHANGED <<sample_offset, frame_debug>>
    BY <1>4, <2>1 DEF BeginLoop, Return
  <2>3. CASE todo = DOMAIN frame.updates
    BY <1>1, <2>1, <2>2, <2>3 DEF RestartClock, clock
  <2>4. CASE todo # DOMAIN frame.updates
    <3>1. phase' = 0 /\ aligned' = (aligned /\ limiter_pending = 0)
      BY <2>1, <2>4 DEF RestartClock
    <3>2. CASE ~(aligned /\ limiter_pending = 0) \/ limiter_disabled
      BY <2>1, <3>1, <3>2 DEF AlignedInv
    <3>3. CASE aligned /\ limiter_pending = 0 /\ ~limiter_disabled
      <4>1. Held = 0
        BY <2>1, <3>3 DEF Held
      <4>2. Len(Rows) \in Nat /\ phase \in 0 .. Timeslot - 1
        BY DEF TypeOK, DataOK, Rows
      <4>3. Exact(0, Len(Rows), phase)
        BY <2>1, <3>3, <4>1 DEF AlignedInv
      <4>4. phase = 0
        BY <4>2, <4>3, ExactNone
      <4> QED BY <1>1, <2>1, <2>2, <3>1, <3>3, <4>4
    <3> QED BY <3>2, <3>3
  <2> QED BY <2>3, <2>4
<1>5. ASSUME aligned' = FALSE PROVE AlignedInv'
  BY <1>5 DEF AlignedInv
<1>6. CASE ApplyDueUpdate
  <2>1. /\ pc = "loop" /\ phase' = phase
        /\ \/ FailMidFrame("ObjectCountMismatch")
           \/ UNCHANGED <<stream, sample_offset, frame_debug, emitted, aligned>>
    BY <1>6 DEF ApplyDueUpdate, InFrame, StartClockAt, clock, RowsInv
  <2>2. CASE UNCHANGED <<stream, sample_offset, frame_debug, emitted, aligned>>
    BY <1>1, <2>1, <2>2 DEF stream
  <2> QED BY <1>5, <2>1, <2>2 DEF FailMidFrame
<1>7. CASE SkipSilence
  BY <1>5, <1>7, Zenon DEF SkipSilence, FailMidFrame
<1>8. CASE MixSegment
  BY <1>5, <1>8, AlignedMix DEF MixSegment, FailMidFrame
<1>9. CASE FinishPush
  BY <1>9, AlignedAtFinish
<1>10. CASE Flush
  <2>1. CASE UNCHANGED <<limiter_pending, pending_debug, emitted, aligned>>
    BY <1>1, <1>10, <2>1 DEF Flush, clock
  <2> QED BY <1>5, <1>10, <2>1 DEF Flush
<1>11. CASE Reset
  <2>1. /\ phase' = 0 /\ Held' = 0 + 0 /\ Rows' = << >> \o << >>
    BY <1>11 DEF Reset, Return, ClearLimiter, Held, Rows
  <2>2. Held' = 0 /\ Rows' = << >> /\ Len(<< >>) = 0
    BY <2>1
  <2>3. Exact(0, 0, 0) /\ Dated(<< >>, emitted')
    BY RendererAssumption DEF Exact, Dated
  <2> QED BY <2>1, <2>2, <2>3 DEF AlignedInv, Exact, Dated
<1>12. CASE UNCHANGED vars
  BY <1>12, Zenon DEF AlignedInv, Held, Rows, Exact, Dated, vars, stream, clock, call, history
<1> QED BY <1>2, <1>3, <1>4, <1>6, <1>7, <1>8, <1>9, <1>10, <1>11, <1>12 DEF Next

LEMMA AlignedGivesRows == TypeOK /\ CallInv /\ SampleConservation /\ AlignedInv => AlignedRows
<1> SUFFICES ASSUME TypeOK, CallInv, SampleConservation, AlignedInv, aligned, ~limiter_disabled, pc = "idle"
             PROVE  pending_debug = IF limiter_pending > 0 THEN <<emitted>> ELSE << >>
  BY DEF AlignedRows
<1>1. /\ limiter_pending \in 0 .. Timeslot - 1 /\ phase \in 0 .. Timeslot - 1 /\ Timeslot \in Nat
      /\ pending_debug \in Seq(Nat) /\ emitted \in Nat
  BY RendererAssumption DEF TypeOK, DataOK, SampleConservation
<1>2. Held = limiter_pending /\ Rows = pending_debug
  BY <1>1 DEF CallInv, Held, Rows
<1>3. /\ Exact(limiter_pending, Len(pending_debug), phase) /\ Len(pending_debug) \in Nat
      /\ Dated(pending_debug, emitted)
  BY <1>1, <1>2 DEF AlignedInv
<1>4. CASE limiter_pending = 0
  <2>1. Len(pending_debug) = 0
    BY <1>1, <1>3, <1>4, ExactNone
  <2> QED BY <1>1, <1>4, <2>1
<1>5. CASE limiter_pending # 0
  <2>0. limiter_pending \in 1 .. Timeslot - 1
    BY <1>1, <1>5
  <2>1. Len(pending_debug) = 1
    BY <1>1, <1>3, <2>0, ExactOne
  <2>2. pending_debug[1] = emitted + (1 - 1) * Timeslot
    BY <1>1, <1>3, <2>1 DEF Dated
  <2>3. pending_debug[1] = emitted
    BY <1>1, <2>2
  <2> QED BY <1>1, <1>5, <2>1, <2>3
<1> QED BY <1>4, <1>5

\* While slots start on block boundaries, the rows held back are those of the samples held back.
THEOREM RowsFollowBlocks == Spec => []AlignedRows
<1>1. Init => RowsInv /\ AlignedInv
  <2> SUFFICES ASSUME Init PROVE RowsInv /\ AlignedInv
    OBVIOUS
  <2>1. Held = 0 /\ RowCount = 0 /\ Len(Rows) = 0 /\ Rows = << >> /\ phase = 0 /\ pc = "idle"
    BY DEF Init, Held, RowCount, Rows
  <2>2. Exact(0, 0, 0) /\ Dated(<< >>, emitted)
    BY RendererAssumption DEF Exact, Dated
  <2> QED BY <2>1, <2>2, CoverEmpty DEF RowsInv, AlignedInv
<1>2. Spec => []RowsInv
  BY <1>1, CallCorrect, RowsStep, PTL DEF Spec
<1>3. Spec => []AlignedInv
  BY <1>1, <1>2, CallCorrect, Conservation, AlignedStep, PTL DEF Spec
<1> QED BY <1>3, CallCorrect, Conservation, AlignedGivesRows, PTL DEF Spec
==============================================================================
