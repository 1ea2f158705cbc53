------------------------ MODULE TrueHdSessionProofs ------------------------
(***************************************************************************)
(* Proofs about TrueHdSession, for every set of access units and structs:  *)
(* type correctness, that the frames a client may read are held by the     *)
(* handle, and, along one inductive invariant, the four properties of a    *)
(* session in which nothing failed after it was parsed.                    *)
(***************************************************************************)
EXTENDS TrueHdSession, SequenceTheorems, TLAPS

(***************************************************************************)
(* What decoding leaves in the decoder                                     *)
(***************************************************************************)

\* The part of TypeOK that the decoder's state needs to be read at all.
DecoderOK ==
  /\ decoder \in DecoderState
  /\ decoder.valid => decoder.known # Nothing

\* A decoder told of an access unit has its type, and a presentation map if it is valid.
LEMMA ToldTypes ==
  ASSUME DecoderOK, NEW au \in AccessUnits
  PROVE  /\ Told(au) \in DecoderState
         /\ Told(au).valid = Keeps(au)
         /\ Told(au).known = Known(au)
         /\ Keeps(au) => Known(au) # Nothing
<1>1. au.sync \in Sync \cup {Nothing}
  BY SessionAssumption DEF IsAccessUnit
<1>2. Keeps(au) \in BOOLEAN /\ InfoChanges(au) \in BOOLEAN
  BY <1>1 DEF Keeps, InfoChanges, DecoderOK, DecoderState, Sync
<1>3. Known(au) \in Sync \cup {Nothing}
  BY <1>1 DEF Known, DecoderOK, DecoderState
<1>4. LabelsOf(au) \in Seq(STRING)
  <2>1. CASE au.sync = Nothing
    BY <2>1, EmptySeq DEF LabelsOf
  <2>2. CASE au.sync # Nothing
    BY <1>1, <2>2 DEF LabelsOf, Sync
  <2>3. QED
    BY <2>1, <2>2
<1>5. Known(au) # Nothing => Known(au).presentation \in Presentation
  BY <1>3 DEF Sync
<1>6. Keeps(au) => Known(au) # Nothing
  BY Zenon DEF Keeps, Known, DecoderOK
<1> DEFINE flag == decoder.info_changed \/ (Keeps(au) /\ InfoChanges(au))
           t    == [decoder EXCEPT !.valid = Keeps(au), !.known = Known(au), !.info_changed = flag]
<1>7. flag \in BOOLEAN
  BY <1>2 DEF DecoderOK, DecoderState
<1>8. t \in DecoderState /\ t.valid = Keeps(au) /\ t.known = Known(au)
  BY <1>2, <1>3, <1>7 DEF DecoderOK, DecoderState
<1>9. \/ Told(au) = t
      \/ /\ Known(au) # Nothing
         /\ Told(au) = [t EXCEPT !.presentation = Known(au).presentation, !.labels = LabelsOf(au)]
  BY Zenon DEF Told
<1> HIDE DEF t
<1>10. QED
  BY <1>4, <1>5, <1>6, <1>8, <1>9 DEF DecoderState

\* A restart header sets channels and nothing else.
LEMMA RestartedTypes ==
  ASSUME NEW d \in DecoderState, NEW au \in AccessUnits
  PROVE  /\ Restarted(d, au) \in DecoderState
         /\ Restarted(d, au).valid = d.valid /\ Restarted(d, au).known = d.known
         /\ Restarted(d, au).labels = d.labels /\ Restarted(d, au).info_changed = d.info_changed
         /\ Restarted(d, au).presentation = d.presentation
<1>1. au.channels \in Nat \cup {Nothing}
  BY SessionAssumption DEF IsAccessUnit
<1>2. QED
  BY <1>1 DEF Restarted, DecoderState

\* After a unit was decoded: valid, told of its sync, and with a flag the session has yet to take.
LEMMA DecodedTypes ==
  ASSUME DecoderOK, NEW au \in AccessUnits
  PROVE  /\ Decoded(au) \in DecoderState
         /\ Decoded(au).valid /\ Decoded(au).known = Known(au)
         /\ Decoded(au).labels = Told(au).labels
         /\ Decoded(au).info_changed = Told(au).info_changed
<1> DEFINE d == Restarted(Told(au), au)
<1>1. /\ d \in DecoderState /\ d.known = Known(au) /\ d.labels = Told(au).labels
      /\ d.info_changed = Told(au).info_changed
  BY ToldTypes, RestartedTypes
<1>2. Decoded(au) = [d EXCEPT !.valid = TRUE]
  BY DEF Decoded
<1> HIDE DEF d
<1>3. QED
  BY <1>1, <1>2 DEF DecoderState

(***************************************************************************)
(* Layouts                                                                 *)
(***************************************************************************)

\* Labels that fit leave no fewer than zero objects.
LEMMA LabelledTypes ==
  ASSUME NEW d \in DecoderState, LabelsFit(d, ChannelCount(d))
  PROVE  Labelled(d, ChannelCount(d)) \in Layout
<1>1. ChannelCount(d) \in Nat /\ d.labels \in Seq(STRING)
  BY DEF ChannelCount, DecoderState
<1>2. Len(d.labels) \in Nat /\ Len(d.labels) <= ChannelCount(d)
  BY <1>1, LenProperties DEF LabelsFit
<1>3. ChannelCount(d) - Len(d.labels) \in Nat
  BY <1>1, <1>2
<1>4. QED
  BY <1>1, <1>3 DEF Labelled, Layout

\* The layout of the first OAMD payload, where there is one.
LEMMA FirstPayload ==
  ASSUME NEW d \in DecoderState, NEW au \in AccessUnits, PayloadsOf(d, au) # << >>
  PROVE  PayloadsOf(d, au)[1].layout \in Layout
<1>1. PayloadsOf(d, au) = au.payloads /\ au.payloads \in Seq(Payload)
  BY SessionAssumption DEF PayloadsOf, IsAccessUnit
<1>2. au.payloads[1] \in Payload
  BY <1>1, ElementOfSeq, EmptySeq, LenProperties
<1>3. QED
  BY <1>1, <1>2 DEF Payload

\* A layout that is found is the announced one, or the cached one if nothing is announced.
LEMMA ResolvedLayouts ==
  ASSUME {layout, announced} \subseteq Layout \cup {Nothing},
         NEW d \in DecoderState, NEW au \in AccessUnits, NEW l \in Resolved(d, au)
  PROVE  /\ l \in Layout
         /\ layout = announced => l = Announces(d, au)
<1>1. CASE PayloadsOf(d, au) # << >>
  <2>1. l \in FromPayloads(PayloadsOf(d, au)) /\ Announces(d, au) = PayloadsOf(d, au)[1].layout
    BY <1>1, Zenon DEF Resolved, Announces
  <2>2. l = PayloadsOf(d, au)[1].layout
    BY <2>1, Zenon DEF FromPayloads
  <2>3. QED
    BY <1>1, <2>1, <2>2, FirstPayload
<1>2. CASE PayloadsOf(d, au) = << >> /\ LabelsFit(d, ChannelCount(d))
  <2>1. /\ l \in FromLabels(d, ChannelCount(d))
        /\ Announces(d, au) = Labelled(d, ChannelCount(d))
    BY <1>2, Zenon DEF Resolved, Announces
  <2>2. l = Labelled(d, ChannelCount(d))
    BY <2>1, Zenon DEF FromLabels
  <2>3. QED
    BY <1>2, <2>1, <2>2, LabelledTypes
<1>3. CASE PayloadsOf(d, au) = << >> /\ ~LabelsFit(d, ChannelCount(d))
  <2>1. l \in FromCache(ChannelCount(d)) /\ Announces(d, au) = announced
    BY <1>3, Zenon DEF Resolved, Announces
  <2>2. l = layout /\ l # Nothing
    BY <2>1, Zenon DEF FromCache
  <2>3. QED
    BY <2>1, <2>2
<1>4. QED
  BY <1>1, <1>2, <1>3, Zenon

\* What is announced is a layout, once something was.
LEMMA AnnouncesTypes ==
  ASSUME {layout, announced} \subseteq Layout \cup {Nothing},
         NEW d \in DecoderState, NEW au \in AccessUnits
  PROVE  Announces(d, au) \in Layout \cup {Nothing}
<1>1. CASE PayloadsOf(d, au) # << >>
  BY <1>1, FirstPayload, Zenon DEF Announces
<1>2. CASE PayloadsOf(d, au) = << >> /\ LabelsFit(d, ChannelCount(d))
  BY <1>2, LabelledTypes, Zenon DEF Announces
<1>3. CASE PayloadsOf(d, au) = << >> /\ ~LabelsFit(d, ChannelCount(d))
  BY <1>3, Zenon DEF Announces
<1>4. QED
  BY <1>1, <1>2, <1>3, Zenon

(***************************************************************************)
(* Type correctness                                                        *)
(***************************************************************************)

Lent == views \in [Views -> {"empty", "live", "dangling"}]
EndedOK == ended \in [Views -> {"no", "push or reset", "flush"}]

\* What a call does to the frames of the client, whichever struct it is given.
LEMMA LendTypes ==
  ASSUME Lent, NEW view, NEW lent \in BOOLEAN, Lend(view, lent)
  PROVE  Lent' /\ last_rendered' \in BOOLEAN
BY DEF Lend, Lent

\* The history of the structs keeps its type.
LEMMA EndedTypes ==
  ASSUME NEW view, NEW call \in {"push or reset", "flush"}, ended' = Ended(view, call)
  PROVE  EndedOK'
BY DEF Ended, EndedOK

\* A push or a reset, with a frame to lend or without one.
LEMMA FinishTypes ==
  ASSUME Lent, NEW view, NEW lent \in BOOLEAN, Finish(view, lent)
  PROVE  Lent' /\ EndedOK' /\ last_rendered' \in BOOLEAN
BY LendTypes, EndedTypes DEF Finish

\* A push that is refused lends no frame and reports nothing.
LEMMA FailTypes ==
  ASSUME Lent, NEW view, NEW error \in Status, Fail(error, view)
  PROVE  /\ Lent' /\ EndedOK' /\ last_rendered' \in BOOLEAN
         /\ status' \in Status /\ reported' = FALSE /\ split' = Nothing /\ changed' = FALSE
BY FinishTypes DEF Fail, Answer

\* A decoded unit leaves well-typed decoder state, counters and history.
LEMMA DeliverTypes ==
  ASSUME TypeOK, NEW au \in AccessUnits, Deliver(au)
  PROVE  /\ DecoderOK' /\ decoder'.valid /\ decoder'.known = Known(au)
         /\ decoder'.labels = Told(au).labels /\ decoder'.info_changed = FALSE
         /\ access_units_seen' = access_units_seen + 1 /\ access_units_seen' \in Nat
         /\ synced' = TRUE /\ drifted' \in BOOLEAN
         /\ announced' \in Layout \cup {Nothing}
<1>1. DecoderOK
  BY DEF TypeOK, DecoderOK
<1>2. /\ Decoded(au) \in DecoderState /\ Decoded(au).valid /\ Decoded(au).known = Known(au)
      /\ Decoded(au).labels = Told(au).labels
  BY <1>1, DecodedTypes
<1>3. decoder' = [Decoded(au) EXCEPT !.info_changed = FALSE]
  BY DEF Deliver, FlagTaken
<1>4. Known(au) # Nothing
  BY <1>1, ToldTypes DEF Deliver, Decodable
<1>5. /\ decoder' \in DecoderState /\ decoder'.valid /\ decoder'.known = Known(au)
      /\ decoder'.labels = Told(au).labels /\ decoder'.info_changed = FALSE
  BY <1>2, <1>3 DEF DecoderState
<1>6. access_units_seen' = access_units_seen + 1 /\ access_units_seen' \in Nat
  <2>1. access_units_seen' = access_units_seen + 1
    BY Zenon DEF Deliver, Counted
  <2>2. access_units_seen \in Nat
    BY DEF TypeOK
  <2>3. QED
    BY <2>1, <2>2
<1>7. drifted' \in BOOLEAN
  <2>1. drifted \in BOOLEAN
    BY DEF TypeOK
  <2>2. drifted' = IF Chooses(au) THEN FALSE ELSE drifted \/ au.sync \notin {Nothing, decoder.known}
    BY Zenon DEF Deliver, Drifts
  <2>3. QED
    BY <2>1, <2>2
<1>8. announced' \in Layout \cup {Nothing}
  BY <1>2, AnnouncesTypes DEF Deliver, TypeOK
<1>9. QED
  BY <1>4, <1>5, <1>6, <1>7, <1>8 DEF Deliver, DecoderOK

\* A unit with objects leaves its layout behind and counts as a frame.
LEMMA PushObjectsTypes ==
  ASSUME TypeOK, NEW au \in AccessUnits, NEW l \in Resolved(Decoded(au), au), PushObjects(au, l)
  PROVE  /\ Deliver(au)
         /\ l \in Layout /\ layout' = l
         /\ frames_seen' = frames_seen + 1 /\ frames_seen' \in Nat
<1>1. Decoded(au) \in DecoderState
  BY DecodedTypes DEF TypeOK, DecoderOK
<1>2. l \in Layout
  BY <1>1, ResolvedLayouts DEF TypeOK
<1>3. Deliver(au) /\ layout' = l /\ frames_seen' = frames_seen + 1
  BY Zenon DEF PushObjects
<1>4. frames_seen \in Nat
  BY DEF TypeOK
<1>5. QED
  BY <1>2, <1>3, <1>4

\* Decoder state, layouts, counters and the frames of the client keep their types, whatever the
\* order of pushes, failures, flushes and resets: a valid decoder has a presentation map, and labels
\* that fit never outnumber the channels they are taken from.
THEOREM TypeCorrect == Spec => []TypeOK
<1>1. Init => TypeOK
  <2> SUFFICES ASSUME Init PROVE TypeOK
    OBVIOUS
  <2>1. decoder \in DecoderState /\ ~decoder.valid
    BY EmptySeq DEF Init, Undecided, DecoderState, Presentation, MaxPresentations
  <2>2. answered \in [ok : Nat, frames : Nat]
    BY DEF Init, NoneAnswered
  <2>3. QED
    BY <2>1, <2>2 DEF Init, TypeOK, Status
<1>2. TypeOK /\ [Next]_vars => TypeOK'
  <2> SUFFICES ASSUME TypeOK, [Next]_vars PROVE TypeOK'
    OBVIOUS
  <2>1. /\ DecoderOK /\ Lent /\ EndedOK
        /\ {layout, announced} \subseteq Layout \cup {Nothing} /\ answered \in [ok : Nat, frames : Nat]
    BY DEF TypeOK, DecoderOK, Lent, EndedOK
  <2>2. ASSUME NEW au \in AccessUnits, NEW view \in Views \cup {Nothing}, PushUnparsed(au, view)
        PROVE  TypeOK'
    <3>1. PICK error \in {"framing", "truehd-parse"} : Fail(error, view)
      BY <2>2, Zenon DEF PushUnparsed
    <3>2. synced' \in BOOLEAN
      BY <2>2 DEF PushUnparsed, TypeOK
    <3>3. /\ Lent' /\ EndedOK' /\ last_rendered' \in BOOLEAN
          /\ status' \in Status /\ reported' = FALSE /\ split' = Nothing /\ changed' = FALSE
      BY <2>1, <3>1, FailTypes DEF Status
    <3>4. QED
      BY <2>2, <3>2, <3>3 DEF PushUnparsed, TypeOK, Lent, EndedOK, counting
  <2>3. ASSUME NEW au \in AccessUnits, NEW view \in Views \cup {Nothing}, PushUndecoded(au, view)
        PROVE  TypeOK'
    <3>1. decoder' \in DecoderState /\ (decoder'.valid => decoder'.known # Nothing)
      <4>1. /\ Told(au) \in DecoderState
            /\ Told(au).valid => Told(au).known # Nothing
        BY <2>1, ToldTypes
      <4>2. decoder' = Told(au) \/ decoder' = Restarted(Told(au), au)
        BY <2>3 DEF PushUndecoded
      <4>3. QED
        BY <4>1, <4>2, RestartedTypes
    <3>2. /\ Lent' /\ EndedOK' /\ last_rendered' \in BOOLEAN
          /\ status' \in Status /\ reported' = FALSE /\ split' = Nothing /\ changed' = FALSE
      BY <2>1, <2>3, FailTypes DEF PushUndecoded, Status
    <3>3. QED
      BY <2>3, <3>1, <3>2 DEF PushUndecoded, TypeOK, Lent, EndedOK, counting
  <2>4. ASSUME NEW au \in AccessUnits, NEW view \in Views \cup {Nothing}, PushUnusable(au, view)
        PROVE  TypeOK'
    <3>1. PICK error \in {"unsupported-layout", "invalid-metadata"} : Fail(error, view)
      BY <2>4 DEF PushUnusable, ErrorsOf
    <3>2. /\ Lent' /\ EndedOK' /\ last_rendered' \in BOOLEAN
          /\ status' \in Status /\ reported' = FALSE /\ split' = Nothing /\ changed' = FALSE
      BY <2>1, <3>1, FailTypes DEF Status
    <3>3. /\ DecoderOK' /\ access_units_seen' \in Nat /\ synced' = TRUE /\ drifted' \in BOOLEAN
          /\ announced' \in Layout \cup {Nothing}
      BY <2>4, DeliverTypes DEF PushUnusable
    <3>4. QED
      BY <2>4, <3>2, <3>3 DEF PushUnusable, TypeOK, Lent, EndedOK, DecoderOK
  <2>5. ASSUME NEW au \in AccessUnits, NEW view \in Views \cup {Nothing}, PushWithoutObjects(au, view)
        PROVE  TypeOK'
    <3>1. layout' \in Layout
      BY <2>1, <2>5, DecodedTypes, ResolvedLayouts DEF PushWithoutObjects, Cached
    <3>2. Lent' /\ EndedOK' /\ last_rendered' \in BOOLEAN
      BY <2>1, <2>5, FinishTypes DEF PushWithoutObjects
    <3>3. /\ DecoderOK' /\ access_units_seen' \in Nat /\ synced' = TRUE /\ drifted' \in BOOLEAN
          /\ announced' \in Layout \cup {Nothing}
      BY <2>5, DeliverTypes DEF PushWithoutObjects
    <3>4. answered' \in [ok : Nat, frames : Nat]
      BY <2>1, <2>5 DEF PushWithoutObjects
    <3>5. /\ status' = "ok" /\ reported' = FALSE /\ split' = Nothing /\ changed' = InfoChanges(au)
          /\ UNCHANGED <<frames_seen, limiter_holds, sound>>
      BY <2>5, Zenon DEF PushWithoutObjects, Answer
    <3>6. changed' \in BOOLEAN
      BY <3>5, Zenon DEF InfoChanges
    <3>7. QED
      BY <3>1, <3>2, <3>3, <3>4, <3>5, <3>6 DEF TypeOK, Lent, EndedOK, DecoderOK, Status
  <2>6. ASSUME NEW au \in AccessUnits, NEW view \in Views \cup {Nothing}, PushUnrendered(au, view)
        PROVE  TypeOK'
    <3>1. PICK l \in Resolved(Decoded(au), au) : PushObjects(au, l)
      BY <2>6, Zenon DEF PushUnrendered
    <3>2. Deliver(au) /\ layout' \in Layout /\ frames_seen' \in Nat
      BY <3>1, PushObjectsTypes
    <3>3. /\ Lent' /\ EndedOK' /\ last_rendered' \in BOOLEAN
          /\ status' \in Status /\ reported' = FALSE /\ split' = Nothing /\ changed' = FALSE
      BY <2>1, <2>6, FailTypes DEF PushUnrendered, Status
    <3>4. /\ DecoderOK' /\ access_units_seen' \in Nat /\ synced' = TRUE /\ drifted' \in BOOLEAN
          /\ announced' \in Layout \cup {Nothing}
      BY <3>2, DeliverTypes
    <3>5. sound' = FALSE /\ UNCHANGED <<limiter_holds, answered>>
      BY <2>6, Zenon DEF PushUnrendered
    <3>6. QED
      BY <3>2, <3>3, <3>4, <3>5 DEF TypeOK, Lent, EndedOK, DecoderOK
  <2>7. ASSUME NEW au \in AccessUnits, NEW view \in Views \cup {Nothing}, PushRendered(au, view)
        PROVE  TypeOK'
    <3>1. PICK l \in Resolved(Decoded(au), au) :
            PushObjects(au, l) /\ Answer("ok", Decoded(au).info_changed, l, InfoChanges(au))
      BY <2>7, Zenon DEF PushRendered
    <3>2. Deliver(au) /\ l \in Layout /\ layout' = l /\ frames_seen' \in Nat
      BY <3>1, PushObjectsTypes
    <3>3. Lent' /\ EndedOK' /\ last_rendered' \in BOOLEAN
      BY <2>1, <2>7, FinishTypes DEF PushRendered
    <3>4. /\ DecoderOK' /\ access_units_seen' \in Nat /\ synced' = TRUE /\ drifted' \in BOOLEAN
          /\ announced' \in Layout \cup {Nothing}
      BY <3>2, DeliverTypes
    <3>5. answered' \in [ok : Nat, frames : Nat] /\ limiter_holds' \in BOOLEAN /\ sound' = sound
      BY <2>1, <2>7 DEF PushRendered
    <3>6. status' = "ok" /\ split' = l /\ reported' \in BOOLEAN /\ changed' \in BOOLEAN
      <4>1. /\ status' = "ok" /\ split' = l /\ reported' = Decoded(au).info_changed
            /\ changed' = InfoChanges(au)
        BY <3>1, Zenon DEF Answer
      <4>2. Decoded(au).info_changed \in BOOLEAN
        BY <2>1, DecodedTypes DEF DecoderState
      <4>3. InfoChanges(au) \in BOOLEAN
        BY Zenon DEF InfoChanges
      <4>4. QED
        BY <4>1, <4>2, <4>3, Zenon
    <3>7. QED
      BY <3>2, <3>3, <3>4, <3>5, <3>6 DEF TypeOK, Lent, EndedOK, DecoderOK, Status
  <2>8. ASSUME NEW view \in Views, Flush(view)
        PROVE  TypeOK'
    <3>1. Lent' /\ last_rendered' \in BOOLEAN
      BY <2>1, <2>8, LendTypes DEF Flush, TypeOK
    <3>2. EndedOK'
      BY <2>8, EndedTypes DEF Flush
    <3>3. QED
      BY <2>8, <3>1, <3>2 DEF Flush, Answer, TypeOK, Lent, EndedOK, Status, counting, judging
  <2>9. CASE Reset
    <3>1. decoder' \in DecoderState /\ ~decoder'.valid
      BY <2>9, EmptySeq DEF Reset, Undecided, DecoderState, Presentation, MaxPresentations
    <3>2. Lent' /\ EndedOK' /\ last_rendered' \in BOOLEAN
      BY <2>1, <2>9, FinishTypes DEF Reset
    <3>3. QED
      BY <2>9, <3>1, <3>2 DEF Reset, Answer, NoneAnswered, TypeOK, Lent, EndedOK, Status
  <2>10. CASE NullPointer
    BY <2>10 DEF NullPointer, Answer, TypeOK, Status, counting, lending, judging
  <2>11. CASE UNCHANGED vars
    BY <2>11 DEF vars, TypeOK, counting, lending, answer, judging
  <2>12. QED
    BY <2>2, <2>3, <2>4, <2>5, <2>6, <2>7, <2>8, <2>9, <2>10, <2>11, Zenon DEF Next
<1>3. QED
  BY <1>1, <1>2, PTL DEF Spec

(***************************************************************************)
(* The frames the client holds                                             *)
(***************************************************************************)

\* The handle holds what the client may read, and no frame dies but by a push, a flush or a reset.
\* It holds by itself, whatever the rest of the session does.
THEOREM LentFramesAreLive == Spec => []LentFramesLive
<1>1. Init => LentFramesLive
  BY DEF Init, LentFramesLive
<1>2. TypeOK /\ LentFramesLive /\ [Next]_vars => LentFramesLive'
  <2> SUFFICES ASSUME TypeOK, LentFramesLive, [Next]_vars PROVE LentFramesLive'
    OBVIOUS
  <2>1. ASSUME NEW view, NEW lent \in BOOLEAN, Finish(view, lent)
        PROVE  LentFramesLive'
    BY <2>1 DEF Finish, Lend, Ended, LentFramesLive, TypeOK
  <2>2. ASSUME NEW view, NEW error, Fail(error, view)
        PROVE  LentFramesLive'
    BY <2>1, <2>2, Zenon DEF Fail
  <2>3. ASSUME NEW view \in Views, Flush(view)
        PROVE  LentFramesLive'
    BY <2>3 DEF Flush, Lend, Ended, LentFramesLive, TypeOK
  <2>4. ASSUME NEW au \in AccessUnits, NEW view \in Views \cup {Nothing},
               \/ PushUnparsed(au, view) \/ PushUndecoded(au, view) \/ PushUnusable(au, view)
               \/ PushWithoutObjects(au, view) \/ PushUnrendered(au, view) \/ PushRendered(au, view)
        PROVE  LentFramesLive'
    BY <2>1, <2>2, <2>4, Zenon
       DEF PushUnparsed, PushUndecoded, PushUnusable, PushWithoutObjects, PushUnrendered, PushRendered
  <2>5. CASE Reset
    BY <2>1, <2>5 DEF Reset
  <2>6. CASE NullPointer
    BY <2>6 DEF NullPointer, lending, LentFramesLive
  <2>7. CASE UNCHANGED vars
    BY <2>7 DEF vars, lending, LentFramesLive
  <2>8. QED
    BY <2>3, <2>4, <2>5, <2>6, <2>7, Zenon DEF Next
<1>3. QED
  BY <1>1, <1>2, TypeCorrect, PTL DEF Spec

(***************************************************************************)
(* What holds as long as nothing failed after it was parsed                *)
(***************************************************************************)

\* A decoder that knows a presentation map has decoded with it, the session has taken the flag, and
\* the cached layout is the last that was announced.  A failed push breaks each of the three.
InStep ==
  sound =>
    /\ decoder.known # Nothing => decoder.valid
    /\ decoder.info_changed = FALSE
    /\ layout = announced

Consistent == TypeOK /\ InStep /\ LabelsKnown /\ SplitAsAnnounced /\ FramesReportChange /\ AcceptedCounted

\* A sync that changes the info of the chosen presentation makes the session drift.
LEMMA ChangeDrifts ==
  ASSUME NEW au \in AccessUnits
  PROVE  Keeps(au) /\ InfoChanges(au) => Drifts(au)
BY DEF InfoChanges, Drifts, Chooses

\* Decoding a unit in a session in step leaves the labels of the last sync, unless it drifts.
LEMMA DeliverInStep ==
  ASSUME Consistent, sound, NEW au \in AccessUnits, Deliver(au)
  PROVE  /\ decoder'.valid /\ decoder'.info_changed = FALSE
         /\ ~drifted' => decoder'.labels = decoder'.known.labels
         /\ Decoded(au).info_changed <=> InfoChanges(au) /\ drifted'
         /\ access_units_seen' = answered.ok + 1
<1>1. /\ DecoderOK /\ TypeOK
      /\ decoder.known # Nothing => decoder.valid
      /\ decoder.info_changed = FALSE
  BY DEF Consistent, InStep, TypeOK, DecoderOK
<1>2. /\ decoder'.valid /\ decoder'.known = Known(au) /\ decoder'.labels = Told(au).labels
      /\ decoder'.info_changed = FALSE /\ access_units_seen' = access_units_seen + 1
  BY <1>1, DeliverTypes
<1>3. drifted' = Drifts(au) /\ (Keeps(au) \/ Known(au) # Nothing)
  BY Zenon DEF Deliver, Decodable
<1>4. access_units_seen' = answered.ok + 1
  BY <1>2 DEF Consistent, AcceptedCounted
<1>5. /\ Decoded(au).info_changed = Told(au).info_changed
  BY <1>1, DecodedTypes
<1>6. Told(au).info_changed <=> Keeps(au) /\ InfoChanges(au)
  BY <1>1 DEF Told, DecoderOK, DecoderState
<1>7. ASSUME ~Keeps(au)
      PROVE  ~Drifts(au) /\ Told(au).labels = Known(au).labels
  <2>1. Known(au) = au.sync /\ au.sync # Nothing
    BY <1>1, <1>3, <1>7, Zenon DEF Known, Keeps
  <2>2. Told(au).labels = LabelsOf(au)
    BY <1>1, <1>3, <1>7 DEF Told, Chooses, DecoderOK, DecoderState
  <2>3. QED
    BY <1>7, <2>1, <2>2, Zenon DEF LabelsOf, Drifts, Chooses
<1>8. ASSUME Keeps(au), ~Drifts(au)
      PROVE  Told(au).labels = Known(au).labels
  <2>1. ~drifted /\ au.sync \in {Nothing, decoder.known}
    BY <1>8, Zenon DEF Drifts, Chooses
  <2>2. Known(au) = decoder.known
    BY <2>1 DEF Known
  <2>3. Told(au).labels = decoder.labels
    BY <1>1, <1>8 DEF Told, Chooses, DecoderOK, DecoderState
  <2>4. decoder.valid
    BY <1>8, Zenon DEF Keeps
  <2>5. QED
    BY <2>1, <2>2, <2>3, <2>4 DEF Consistent, LabelsKnown
<1>9. QED
  BY <1>2, <1>3, <1>4, <1>5, <1>6, <1>7, <1>8, ChangeDrifts, Zenon

\* A push that fails after it was parsed leaves nothing to be in step with, and renders no unit.
LEMMA FailedPush ==
  ASSUME sound' = FALSE
  PROVE  InStep' /\ LabelsKnown' /\ SplitAsAnnounced' /\ FramesReportChange' /\ AcceptedCounted'
BY DEF InStep, LabelsKnown, SplitAsAnnounced, FramesReportChange, AcceptedCounted

\* A call that delivers no unit and leaves the session's own state alone changes none of it.
LEMMA IdleCall ==
  ASSUME Consistent, split' = Nothing, UNCHANGED <<decoder, counting, judging>>
  PROVE  InStep' /\ LabelsKnown' /\ SplitAsAnnounced' /\ FramesReportChange' /\ AcceptedCounted'
BY DEF Consistent, InStep, LabelsKnown, SplitAsAnnounced, FramesReportChange, AcceptedCounted, counting, judging

\* Consistent is inductive.
THEOREM SessionConsistent == Spec => []Consistent
<1>1. Init => InStep /\ LabelsKnown /\ SplitAsAnnounced /\ FramesReportChange /\ AcceptedCounted
  BY DEF Init, Undecided, NoneAnswered, InStep, LabelsKnown, SplitAsAnnounced, FramesReportChange,
         AcceptedCounted
<1>2. Consistent /\ TypeOK' /\ [Next]_vars => Consistent'
  <2> SUFFICES ASSUME Consistent, [Next]_vars
               PROVE  InStep' /\ LabelsKnown' /\ SplitAsAnnounced' /\ FramesReportChange' /\ AcceptedCounted'
    BY Zenon DEF Consistent
  <2>1. TypeOK
    BY DEF Consistent
  <2>2. ASSUME NEW au \in AccessUnits, NEW view, PushUnparsed(au, view)
        PROVE  InStep' /\ LabelsKnown' /\ SplitAsAnnounced' /\ FramesReportChange' /\ AcceptedCounted'
    BY <2>2, IdleCall, Zenon DEF PushUnparsed, Fail, Answer, judging
  <2>3. ASSUME NEW au \in AccessUnits, NEW view,
               PushUndecoded(au, view) \/ PushUnusable(au, view) \/ PushUnrendered(au, view)
        PROVE  InStep' /\ LabelsKnown' /\ SplitAsAnnounced' /\ FramesReportChange' /\ AcceptedCounted'
    BY <2>3, FailedPush, Zenon DEF PushUndecoded, PushUnusable, PushUnrendered
  <2>4. ASSUME NEW au \in AccessUnits, NEW l \in Resolved(Decoded(au), au), Deliver(au)
        PROVE  sound => l = announced'
    <3>1. Decoded(au) \in DecoderState
      BY <2>1, DecodedTypes DEF TypeOK, DecoderOK
    <3>2. announced' = Announces(Decoded(au), au)
      BY <2>4, Zenon DEF Deliver
    <3>3. QED
      BY <2>1, <3>1, <3>2, ResolvedLayouts DEF Consistent, InStep, TypeOK
  <2>5. ASSUME NEW au \in AccessUnits, NEW view, PushWithoutObjects(au, view)
        PROVE  InStep' /\ LabelsKnown' /\ SplitAsAnnounced' /\ FramesReportChange' /\ AcceptedCounted'
    <3>1. Deliver(au) /\ sound' = sound /\ split' = Nothing /\ frames_seen' = frames_seen
      BY <2>5, Zenon DEF PushWithoutObjects, Answer
    <3>2. sound => layout' = announced'
      BY <2>4, <2>5, <3>1, Zenon DEF PushWithoutObjects, Cached
    <3>3. answered'.ok = answered.ok + 1 /\ answered'.frames = answered.frames
      BY <2>1, <2>5 DEF PushWithoutObjects, TypeOK
    <3>4. InStep' /\ LabelsKnown' /\ SplitAsAnnounced' /\ FramesReportChange'
      BY <3>1, <3>2, DeliverInStep, Zenon DEF InStep, LabelsKnown, SplitAsAnnounced, FramesReportChange
    <3>5. AcceptedCounted'
      BY <3>1, <3>3, DeliverInStep DEF AcceptedCounted, Consistent
    <3>6. QED
      BY <3>4, <3>5
  <2>6. ASSUME NEW au \in AccessUnits, NEW view, PushRendered(au, view)
        PROVE  InStep' /\ LabelsKnown' /\ SplitAsAnnounced' /\ FramesReportChange' /\ AcceptedCounted'
    <3>1. PICK l \in Resolved(Decoded(au), au) :
            PushObjects(au, l) /\ Answer("ok", Decoded(au).info_changed, l, InfoChanges(au))
      BY <2>6, Zenon DEF PushRendered
    <3>2. /\ Deliver(au) /\ sound' = sound /\ layout' = l /\ frames_seen' = frames_seen + 1
          /\ split' = l /\ reported' = Decoded(au).info_changed /\ changed' = InfoChanges(au)
      BY <2>6, <3>1, Zenon DEF PushRendered, PushObjects, Answer
    <3>3. sound => l = announced'
      BY <2>4, <3>2, Zenon
    <3>4. answered'.ok = answered.ok + 1 /\ answered'.frames = answered.frames + 1
      BY <2>6 DEF PushRendered
    <3>5. InStep' /\ LabelsKnown' /\ SplitAsAnnounced'
      BY <3>2, <3>3, DeliverInStep, Zenon DEF InStep, LabelsKnown, SplitAsAnnounced
    <3>6. FramesReportChange'
      BY <3>2, DeliverInStep, Zenon DEF FramesReportChange
    <3>7. AcceptedCounted'
      BY <3>2, <3>4, DeliverInStep DEF AcceptedCounted, Consistent
    <3>8. QED
      BY <3>5, <3>6, <3>7
  <2>7. ASSUME NEW view, Flush(view)
        PROVE  InStep' /\ LabelsKnown' /\ SplitAsAnnounced' /\ FramesReportChange' /\ AcceptedCounted'
    BY <2>7, IdleCall, Zenon DEF Flush, Answer
  <2>8. CASE Reset
    BY <2>8 DEF Reset, Answer, Undecided, NoneAnswered, InStep, LabelsKnown, SplitAsAnnounced,
                FramesReportChange, AcceptedCounted
  <2>9. CASE NullPointer
    BY <2>9, IdleCall, Zenon DEF NullPointer, Answer
  <2>10. CASE UNCHANGED vars
    BY <2>10 DEF vars, counting, answer, judging, Consistent, InStep, LabelsKnown, SplitAsAnnounced,
                 FramesReportChange, AcceptedCounted
  <2>11. QED
    BY <2>2, <2>3, <2>5, <2>6, <2>7, <2>8, <2>9, <2>10, Zenon DEF Next
<1>3. TypeOK /\ InStep /\ LabelsKnown /\ SplitAsAnnounced /\ FramesReportChange /\ AcceptedCounted
        => Consistent
  BY DEF Consistent
<1>4. QED
  BY <1>1, <1>2, <1>3, TypeCorrect, PTL DEF Spec

\* The four properties that hold as long as nothing failed after it was parsed.
THEOREM SessionSafety == Spec => [](LabelsKnown /\ SplitAsAnnounced /\ FramesReportChange /\ AcceptedCounted)
<1>1. Consistent => LabelsKnown /\ SplitAsAnnounced /\ FramesReportChange /\ AcceptedCounted
  BY DEF Consistent
<1>2. QED
  BY <1>1, SessionConsistent, PTL

\* While nothing failed, the labels are those of the last major sync the decoder was told of in time.
THEOREM LabelsAlwaysKnown == Spec => []LabelsKnown
<1> QED BY SessionSafety, PTL

\* While nothing failed, the frame of the unit that changed the substream info reports it, and no other.
THEOREM FramesAlwaysReport == Spec => []FramesReportChange
<1> QED BY SessionSafety, PTL
=============================================================================
