---------------------------- MODULE TrueHdSession ----------------------------
(***************************************************************************)
(* A TrueHD 7.1.4 renderer handle of the C interface, with the object PCM  *)
(* decoder inside it: how one access unit after the other is taken, split  *)
(* into bed and object channels, rendered, counted and lent to the client. *)
(*                                                                         *)
(* A call is one step here: the actions' guards tell how far it gets.      *)
(* Below the session, parsing and decoding are those of TrueHdDecoder, of  *)
(* which only the outcome counts, and the renderer, that of Renderer714,   *)
(* may refuse any frame and hold back some of any other.  A panic in the   *)
(* renderer ends the process and so is no step.                            *)
(*                                                                         *)
(* A definition named Fault_... is a plausible slip in the definition that *)
(* follows it; it serves to show that the properties tell the difference.  *)
(***************************************************************************)
EXTENDS PresentationMap, Sequences

CONSTANTS
  AccessUnits,    \* what a client may push
  Nothing,        \* Option::None, and a NULL pointer
  Views,          \* the client's frame structs
  MaxUnits        \* bound: access units decoded since the last reset

Atmos == 3        \* PRESENTATION_INDEX_ATMOS

\* Bed channels by name; a label that has no bed channel is "unmapped".
Layout == [bed : Seq(STRING), objects : Nat]

\* An OAMD payload: its program assignment, and whether its objects can be handed to the renderer.
Payload == [isf : BOOLEAN, layout : Layout, translatable : BOOLEAN]

\* A major sync: the presentation it makes the decoder choose, and the labels of that presentation.
Sync == [substreams : Nat, info : STRING, presentation : Presentation, labels : Seq(STRING)]

\* Where an access unit is refused, if anywhere, before it is decoded.
Defect == {"none", "framing", "parse", "decode"}

IsAccessUnit(au) ==
  /\ DOMAIN au = {"defect", "sync", "channels", "payloads"}
  /\ au.defect \in Defect
  /\ au.sync \in Sync \cup {Nothing}
  /\ au.channels \in Nat \cup {Nothing}   \* of the restart header, if there is one
  /\ au.payloads \in Seq(Payload)

ASSUME SessionAssumption ==
  /\ \A au \in AccessUnits : IsAccessUnit(au)
  /\ Nothing \notin Views /\ Nothing \notin Nat /\ Nothing \notin Layout /\ Nothing \notin Sync
  /\ MaxUnits \in Nat

VARIABLES
  synced,               \* the parser has an access unit to continue from
  decoder,              \* the part of DecoderState the session reads
  layout,
  access_units_seen,
  frames_seen,
  limiter_holds,        \* the renderer holds back samples
  (* the handle, and what the client holds of it *)
  last_rendered,        \* is there a frame to lend?
  views,                \* what each struct of the client points to
  status,               \* what the last call returned
  reported,             \* substream_info_changed in its out_info, FALSE if it wrote none
  (* history, read by no action: what the properties compare against *)
  ended,                \* what kind of call last ended the life of the frame in a struct
  sound,                \* since the last reset no push failed after it was parsed
  drifted,              \* a sync differed from the one that chose the presentation
  announced,            \* the layout the last payload or set of labels told of
  split,                \* how the last call split its channels, if it rendered a unit
  changed,              \* did the unit of the last call change the substream info?
  answered              \* since the last reset: pushes answered Ok, and those with a frame

counting == <<layout, access_units_seen, frames_seen>>
lending == <<last_rendered, views, ended>>
answer == <<status, reported, split, changed>>
judging == <<sound, drifted, announced, answered>>
vars == <<synced, decoder, counting, limiter_holds, lending, answer, judging>>

Undecided ==
  [valid |-> FALSE, known |-> Nothing, presentation |-> 0,
   channels |-> [p \in Presentation |-> 1], labels |-> << >>, info_changed |-> FALSE]

NoneAnswered == [ok |-> 0, frames |-> 0]

Init ==
  /\ synced = FALSE
  /\ decoder = Undecided
  /\ layout = Nothing
  /\ access_units_seen = 0
  /\ frames_seen = 0
  /\ limiter_holds = FALSE
  /\ last_rendered = FALSE
  /\ views = [v \in Views |-> "empty"]
  /\ status = "ok"
  /\ reported = FALSE
  /\ ended = [v \in Views |-> "no"]
  /\ sound = TRUE
  /\ drifted = FALSE
  /\ announced = Nothing
  /\ split = Nothing
  /\ changed = FALSE
  /\ answered = NoneAnswered

-----------------------------------------------------------------------------
(***************************************************************************)
(* What decoding an access unit leaves in the decoder                      *)
(***************************************************************************)

\* A valid decoder keeps its presentation unless the number of substreams changes.
Keeps(au) ==
  decoder.valid /\ (au.sync # Nothing => au.sync.substreams = decoder.known.substreams)

Known(au) == IF au.sync = Nothing THEN decoder.known ELSE au.sync

InfoChanges(au) == au.sync # Nothing /\ decoder.known # Nothing /\ au.sync.info # decoder.known.info

\* The labels come with the major sync; without one there are none.
LabelsOf(au) == IF au.sync = Nothing THEN << >> ELSE au.sync.labels

Fault_LabelsEachUnit(au) == TRUE

Chooses(au) == ~Keeps(au)

\* update_decoder_state, then update_presentation (which fails without a presentation map).
Told(au) ==
  LET told_sync == [decoder EXCEPT !.valid = Keeps(au), !.known = Known(au),
                                   !.info_changed = @ \/ (Keeps(au) /\ InfoChanges(au))]
  IN IF Chooses(au) /\ Known(au) # Nothing
       THEN [told_sync EXCEPT !.presentation = Known(au).presentation, !.labels = LabelsOf(au)]
       ELSE told_sync

\* The restart header of the presentation's substream sets its channels.
Restarted(d, au) ==
  IF au.channels = Nothing THEN d ELSE [d EXCEPT !.channels[d.presentation] = au.channels]

Decoded(au) == [Restarted(Told(au), au) EXCEPT !.valid = TRUE]

\* decoded_access_unit takes the flag.
Fault_FlagKept(d) == d

FlagTaken(d) == [d EXCEPT !.info_changed = FALSE]

-----------------------------------------------------------------------------
(***************************************************************************)
(* resolve_layout: the layouts are a set with at most one member; an error *)
(* leaves it empty                                                         *)
(***************************************************************************)

\* OAMD rides on the substream of the Atmos presentation.
PayloadsOf(d, au) == IF d.presentation = Atmos THEN au.payloads ELSE << >>

FromPayloads(payloads) ==
  {l \in {payloads[1].layout} :
     \A i \in DOMAIN payloads : ~payloads[i].isf /\ payloads[i].layout = l}

Fault_LabelsTooMany(d, count) == d.labels # << >>

LabelsFit(d, count) == d.labels # << >> /\ Len(d.labels) <= count

\* What the labels leave over are objects.
Labelled(d, count) == [bed |-> d.labels, objects |-> count - Len(d.labels)]

FromLabels(d, count) ==
  {l \in {Labelled(d, count)} : \A i \in DOMAIN d.labels : d.labels[i] # "unmapped"}

Width(l) == Len(l.bed) + l.objects

FromCache(count) == {l \in {layout} \ {Nothing} : Width(l) = count}

ChannelCount(d) == d.channels[d.presentation]

Resolved(d, au) ==
  CASE PayloadsOf(d, au) # << >> -> FromPayloads(PayloadsOf(d, au))
    [] PayloadsOf(d, au) = << >> /\ LabelsFit(d, ChannelCount(d)) -> FromLabels(d, ChannelCount(d))
    [] OTHER -> FromCache(ChannelCount(d))

Translatable(payloads) == \A i \in DOMAIN payloads : payloads[i].translatable

-----------------------------------------------------------------------------
(***************************************************************************)
(* Lending                                                                 *)
(***************************************************************************)

Ended(view, call) == [v \in Views |-> IF v = view THEN "no" ELSE call]

\* Every frame lent before is freed; the struct the call was given, if any, shows its outcome.
Lend(view, lent) ==
  /\ last_rendered' = lent
  /\ views' = [v \in Views |->
                 CASE v = view -> IF lent THEN "live" ELSE "empty"
                   [] v # view /\ views[v] = "live" -> "dangling"
                   [] OTHER -> views[v]]

Answer(outcome, flag, layout_, change) ==
  status' = outcome /\ reported' = flag /\ split' = layout_ /\ changed' = change

\* A NULL handle, data pointer or frame struct: the call returns before it touches anything.
Fault_FreedBeforeCheck ==
  /\ Answer("null-pointer", FALSE, Nothing, FALSE)
  /\ Lend(Nothing, FALSE)
  /\ UNCHANGED <<synced, decoder, counting, limiter_holds, ended, judging>>

NullPointer ==
  /\ Answer("null-pointer", FALSE, Nothing, FALSE)
  /\ UNCHANGED <<synced, decoder, counting, limiter_holds, lending, judging>>

-----------------------------------------------------------------------------
(***************************************************************************)
(* push_access_unit                                                        *)
(***************************************************************************)

\* The handle drops its frame first of all.
Finish(view, lent) == Lend(view, lent) /\ ended' = Ended(view, "push or reset")

\* The client's out_info is not written.
Fail(error, view) == Answer(error, FALSE, Nothing, FALSE) /\ Finish(view, FALSE)

Parsed(au) == au.defect \notin {"framing", "parse"} /\ (au.sync # Nothing \/ synced)

\* The length differs from the one in the header, or the parser refuses the unit.  A unit that
\* fails past its sync may leave the parser with or without an access unit to continue from.
PushUnparsed(au, view) ==
  /\ ~Parsed(au)
  /\ Fail(IF au.defect = "framing" THEN "framing" ELSE "truehd-parse", view)
  /\ synced' \in IF au.defect = "parse" /\ au.sync # Nothing THEN BOOLEAN ELSE {synced}
  /\ UNCHANGED <<decoder, counting, limiter_holds, sound, drifted, announced, answered>>

\* A presentation is chosen from the presentation map of a major sync.
Decodable(au) == au.defect = "none" /\ (Keeps(au) \/ Known(au) # Nothing)

\* Decoding may fail before or after the restart header of the presentation.
PushUndecoded(au, view) ==
  /\ Parsed(au)
  /\ ~Decodable(au)
  /\ synced' = TRUE
  /\ decoder' \in {Told(au), Restarted(Told(au), au)}
  /\ Fail("truehd-decode", view)
  /\ sound' = FALSE
  /\ UNCHANGED <<counting, limiter_holds, drifted, announced, answered>>

\* The decoder has done its part: the unit counts, whatever becomes of it.
Counted == access_units_seen + 1

Drifts(au) == IF Chooses(au) THEN FALSE ELSE drifted \/ au.sync \notin {Nothing, decoder.known}

Announces(d, au) ==
  CASE PayloadsOf(d, au) # << >> -> PayloadsOf(d, au)[1].layout
    [] PayloadsOf(d, au) = << >> /\ LabelsFit(d, ChannelCount(d)) -> Labelled(d, ChannelCount(d))
    [] OTHER -> announced

Deliver(au) ==
  /\ Parsed(au) /\ Decodable(au)
  /\ access_units_seen < MaxUnits
  /\ synced' = TRUE
  /\ decoder' = FlagTaken(Decoded(au))
  /\ access_units_seen' = Counted
  /\ drifted' = Drifts(au)
  /\ announced' = Announces(Decoded(au), au)

\* No layout, a layout that does not have the decoded channels, or metadata that cannot be translated.
ErrorsOf(d, au) ==
  LET layouts == Resolved(d, au)
      misfits == {l \in layouts : l.objects # 0 /\ Width(l) # ChannelCount(d)}
      objects == {l \in layouts \ misfits : l.objects # 0}
  IN (IF layouts = {} \/ misfits # {} THEN {"unsupported-layout"} ELSE {})
       \cup (IF objects # {} /\ ~Translatable(PayloadsOf(d, au)) THEN {"invalid-metadata"} ELSE {})

PushUnusable(au, view) ==
  /\ Deliver(au)
  /\ \E error \in ErrorsOf(Decoded(au), au) : Fail(error, view)
  /\ sound' = FALSE
  /\ UNCHANGED <<layout, frames_seen, limiter_holds, answered>>

\* Nothing to render: Ok(None), whose info says nothing of a change of the substream info.
Fault_BedOnlyNotCached(l) == layout

Cached(l) == l

PushWithoutObjects(au, view) ==
  /\ Deliver(au)
  /\ \E l \in Resolved(Decoded(au), au) : l.objects = 0 /\ layout' = Cached(l)
  /\ Answer("ok", FALSE, Nothing, InfoChanges(au))
  /\ Finish(view, FALSE)
  /\ answered' = [answered EXCEPT !.ok = @ + 1]
  /\ UNCHANGED <<frames_seen, limiter_holds, sound>>

PushObjects(au, l) ==
  LET d == Decoded(au) IN
  /\ Deliver(au)
  /\ l \in Resolved(d, au) /\ l.objects # 0 /\ Width(l) = ChannelCount(d)
  /\ Translatable(PayloadsOf(d, au))
  /\ layout' = l
  /\ frames_seen' = frames_seen + 1

\* The decoder has the frame behind it when the renderer refuses it.
PushUnrendered(au, view) ==
  /\ \E l \in Resolved(Decoded(au), au) : PushObjects(au, l)
  /\ Fail("render", view)
  /\ sound' = FALSE
  /\ UNCHANGED <<limiter_holds, answered>>

\* A frame is lent even while the limiter holds back all of its samples.
PushRendered(au, view) ==
  /\ \E l \in Resolved(Decoded(au), au) :
       /\ PushObjects(au, l)
       /\ Answer("ok", Decoded(au).info_changed, l, InfoChanges(au))
  /\ Finish(view, TRUE)
  /\ limiter_holds' \in BOOLEAN
  /\ answered' = [ok |-> answered.ok + 1, frames |-> answered.frames + 1]
  /\ UNCHANGED sound

-----------------------------------------------------------------------------
(***************************************************************************)
(* flush, reset, and calls with NULL pointers                              *)
(***************************************************************************)

Flush(view) ==
  /\ Answer("ok", FALSE, Nothing, FALSE)
  /\ Lend(view, limiter_holds)
  /\ ended' = Ended(view, "flush")
  /\ limiter_holds' = FALSE
  /\ UNCHANGED <<synced, decoder, counting, judging>>

Reset ==
  /\ synced' = FALSE
  /\ decoder' = Undecided
  /\ layout' = Nothing
  /\ access_units_seen' = 0
  /\ frames_seen' = 0
  /\ limiter_holds' = FALSE
  /\ Finish(Nothing, FALSE)
  /\ Answer("ok", FALSE, Nothing, FALSE)
  /\ sound' = TRUE
  /\ drifted' = FALSE
  /\ announced' = Nothing
  /\ answered' = NoneAnswered

Next ==
  \/ \E au \in AccessUnits, view \in Views \cup {Nothing} :
       \/ PushUnparsed(au, view)
       \/ PushUndecoded(au, view)
       \/ PushUnusable(au, view)
       \/ PushWithoutObjects(au, view)
       \/ PushUnrendered(au, view)
       \/ PushRendered(au, view)
  \/ \E view \in Views : Flush(view)
  \/ Reset
  \/ NullPointer

Spec == Init /\ [][Next]_vars

-----------------------------------------------------------------------------
(***************************************************************************)
(* Properties                                                              *)
(***************************************************************************)

DecoderState ==
  [valid : BOOLEAN, known : Sync \cup {Nothing}, presentation : Presentation,
   channels : [Presentation -> Nat], labels : Seq(STRING), info_changed : BOOLEAN]

Status ==
  {"ok", "null-pointer", "framing", "truehd-parse", "truehd-decode", "unsupported-layout",
   "invalid-metadata", "render"}

\* Every variable has the values the code can give it.
TypeOK ==
  /\ decoder \in DecoderState
  /\ {layout, announced, split} \subseteq Layout \cup {Nothing}
  /\ access_units_seen \in Nat /\ frames_seen \in Nat
  /\ views \in [Views -> {"empty", "live", "dangling"}]
  /\ ended \in [Views -> {"no", "push or reset", "flush"}]
  /\ status \in Status
  /\ answered \in [ok : Nat, frames : Nat]
  /\ {synced, limiter_holds, last_rendered, reported, sound, drifted, changed} \subseteq BOOLEAN
  /\ decoder.valid => decoder.known # Nothing

\* A frame the client was lent stays readable until a push, a flush or a reset ends its life: a call
\* that is refused for a NULL pointer does not.
LentFramesLive ==
  \A v \in Views :
    /\ views[v] = "live" => last_rendered
    /\ views[v] = "dangling" => ended[v] # "no"

\* As long as nothing failed after it was parsed, the labels are those of the last major sync, unless
\* that sync came when the presentation was chosen already and differs from the one that chose it.
LabelsKnown == sound /\ decoder.valid /\ ~drifted => decoder.labels = decoder.known.labels

\* Channels are split the way the last OAMD or the last fitting labels said, those of the unit itself
\* or of an earlier one, as long as nothing failed after it was parsed.
SplitAsAnnounced == sound /\ split # Nothing => split = announced

\* A frame reports a change of the substream info exactly when its own unit made it without making
\* the decoder choose its presentation anew, as long as nothing failed after it was parsed.
FramesReportChange == sound /\ split # Nothing => (reported <=> changed /\ drifted)

\* The counters are those of the accepted units and of the frames, as long as nothing failed after
\* it was parsed.
AcceptedCounted ==
  sound => access_units_seen = answered.ok /\ frames_seen = answered.frames

(***************************************************************************)
(* Claims of the C header that the code does not keep: they fail with the  *)
(* access units ChangingUnits of MCTrueHdSession and two views.            *)
(***************************************************************************)

\* "1 when substream info changed on this access unit": it is lost when the unit has no objects.
ChangeOnThisUnit == status = "ok" /\ changed => reported

\* A rendered frame is valid "until the next push, reset, or free call": a flush ends it as well.
LentUntilDocumented == \A v \in Views : views[v] = "dangling" => ended[v] = "push or reset"
=============================================================================
