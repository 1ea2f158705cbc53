------------------------ MODULE TrueHdDecoderProofs ------------------------
(***************************************************************************)
(* Proofs about TrueHdDecoder, and about the timing of its parser at the   *)
(* end.  For any set of access units and any pattern of failures: the      *)
(* presentation that is decoded is one whose own substream is decoded; an  *)
(* access unit without a major sync is only read under a substream use     *)
(* that was read with to its end; every variable keeps its type; and the   *)
(* parser's and the decoder's copies of the stream agree wherever one      *)
(* relies on the other.  For any timings: no false branches, and every     *)
(* serial timing field is understood that can be.                          *)
(***************************************************************************)
EXTENDS TrueHdDecoder, TrueHdClock, TrueHdHires, WellFoundedInduction, TLAPS

-----------------------------------------------------------------------------
(***************************************************************************)
(* Presentations                                                           *)
(***************************************************************************)

\* A set of presentations that is not empty has a largest member: the code's rev().find() of an
\* index succeeds.
LEMMA TopExists ==
  ASSUME NEW S \in SUBSET Presentation, S # {}
  PROVE  \E q \in S : IsTop(q, S)
<1>1. CASE 3 \in S
  BY <1>1 DEF IsTop, Presentation, MaxPresentations
<1>2. CASE 3 \notin S /\ 2 \in S
  BY <1>2 DEF IsTop, Presentation, MaxPresentations
<1>3. CASE 3 \notin S /\ 2 \notin S /\ 1 \in S
  BY <1>3 DEF IsTop, Presentation, MaxPresentations
<1>4. CASE 3 \notin S /\ 2 \notin S /\ 1 \notin S
  <2>1. \A q \in S : q = 0
    BY <1>4 DEF Presentation, MaxPresentations
  <2>2. PICK q \in S : TRUE
    OBVIOUS
  <2> QED
    BY <2>1, <2>2 DEF IsTop
<1> QED
  BY <1>1, <1>2, <1>3, <1>4

\* A mask selects no substream above its presentation.
LEMMA MaskBelow ==
  ASSUME NEW info, NEW extended \in 0 .. 3, NEW p \in Presentation
  PROVE  Masks(info, extended)[p] \subseteq 0 .. p
<1>1. p = 0 \/ p = 1 \/ p = 2 \/ p = 3
  BY DEF Presentation, MaxPresentations
<1> QED
  BY <1>1 DEF Masks, Presentation, MaxPresentations

\* Whichever presentation is asked for, the one that is decoded instead is among the substreams of
\* all presentations.
LEMMA ChosenInMask ==
  ASSUME NEW info, NEW extended \in 0 .. 3, NEW p \in Presentation
  PROVE  /\ Chosen(Masks(info, extended), p) \in Presentation
         /\ Chosen(Masks(info, extended), p)
              \in RequiredMask(Masks(info, extended), MaxPresentations - 1)
<1> DEFINE masks == Masks(info, extended)
           chosen == Chosen(masks, p)
           Fits_(q) == IF Reaches(masks[p], p)
                         THEN q = p
                         ELSE IF masks[p] # {} THEN IsTop(q, CopySource(masks, p))
                                               ELSE IsTop(q, Independent(masks))
<1>1. \A q \in Presentation : masks[q] \subseteq 0 .. q /\ masks[q] \subseteq Presentation
  BY MaskBelow DEF Presentation, MaxPresentations
<1>2. masks[0] = {0}
  BY DEF Masks, Presentation, MaxPresentations
<1> HIDE DEF masks
<1>3. \A q \in Presentation : Reaches(masks[q], q) => q \in masks[q]
  BY <1>1 DEF Reaches, Presentation, MaxPresentations
<1>4. Independent(masks) # {} /\ Independent(masks) \in SUBSET Presentation
  BY <1>2 DEF Independent, Reaches, Presentation, MaxPresentations
<1>5. CopySource(masks, p) \in SUBSET Presentation
  BY DEF CopySource, Presentation, MaxPresentations
<1>6. masks[p] # {} /\ ~Reaches(masks[p], p) => CopySource(masks, p) # {}
  BY <1>1 DEF CopySource, Reaches, Presentation, MaxPresentations
<1>7. \E q \in Presentation : Fits_(q)
  <2>1. CASE Reaches(masks[p], p)
    BY <2>1
  <2>2. CASE ~Reaches(masks[p], p) /\ masks[p] # {}
    BY <2>2, <1>5, <1>6, TopExists
  <2>3. CASE ~Reaches(masks[p], p) /\ masks[p] = {}
    BY <2>3, <1>4, TopExists
  <2> QED
    BY <2>1, <2>2, <2>3
<1>8. chosen \in Presentation /\ Fits_(chosen)
  BY <1>7 DEF Chosen
<1> HIDE DEF chosen
<1>9. \E q \in Presentation : chosen \in masks[q]
  <2>1. CASE Reaches(masks[p], p)
    BY <2>1, <1>3, <1>8
  <2>2. CASE ~Reaches(masks[p], p) /\ masks[p] # {}
    <3>1. IsTop(chosen, CopySource(masks, p))
      BY <2>2, <1>8
    <3>2. PICK i \in masks[p] : i >= chosen
      BY <3>1 DEF IsTop, CopySource, Reaches
    <3>3. i \in 0 .. p - 1
      BY <2>2, <1>1 DEF Reaches, Presentation, MaxPresentations
    <3>4. i \in CopySource(masks, p)
      BY <3>3 DEF CopySource, Reaches
    <3>5. i = chosen
      BY <3>1, <3>2, <3>3, <3>4, <1>8 DEF IsTop, Presentation, MaxPresentations
    <3> QED
      BY <3>5
  <2>3. CASE ~Reaches(masks[p], p) /\ masks[p] = {}
    BY <2>3, <1>3, <1>8 DEF IsTop, Independent
  <2> QED
    BY <2>1, <2>2, <2>3
<1>10. chosen \in RequiredMask(masks, MaxPresentations - 1)
  BY <1>9 DEF RequiredMask, Presentation
<1> QED
  BY <1>8, <1>10 DEF chosen, masks

-----------------------------------------------------------------------------
(***************************************************************************)
(* The presentation that is decoded                                        *)
(***************************************************************************)

\* From the first access unit that is decoded to its end the presentation stays one whose own
\* substream is in the mask, also while later access units fail.
PresentationInv ==
  /\ d_format \in Format \cup {Nothing}
  /\ pc \in {"parse", "begin decode"} => IsAccessUnit(unit)
  /\ valid \/ pc \in {"decode", "deliver"} => presentation \in d_mask

\* Steps that touch neither the choice nor the access unit.
LEMMA ChoiceKept ==
  ASSUME PresentationInv,
         UNCHANGED <<d_format, d_mask, presentation, valid>>,
         UNCHANGED <<pc, unit>> \/ pc' = "idle"
  PROVE  PresentationInv'
BY DEF PresentationInv

\* Starting to parse brings in an access unit, and failing to start does not.
LEMMA PushKeepsChoice ==
  ASSUME PresentationInv, NEW au \in AccessUnits, PushContinuation(au) \/ PushMajorSync(au)
  PROVE  PresentationInv'
<1>1. IsAccessUnit(au)
  BY TrueHdAssumption
<1>2. UNCHANGED <<d_format, d_mask, presentation, valid>>
  BY DEF PushContinuation, PushMajorSync, ParserOnly, decoder
<1>3. pc' = "idle" \/ (pc' = "parse" /\ unit' = au)
  BY DEF PushContinuation, PushMajorSync, BeginParse, Fail, Return
<1> QED
  BY <1>1, <1>2, <1>3 DEF PresentationInv, IsAccessUnit

LEMMA ParseKeepsChoice ==
  ASSUME PresentationInv, SkipSegment \/ ParseBlock \/ EndSegment \/ EndParse
  PROVE  PresentationInv'
<1>1. UNCHANGED <<d_format, d_mask, presentation, valid>>
  BY DEF SkipSegment, ParseBlock, EndSegment, EndParse, ParserOnly, decoder
<1>2. UNCHANGED <<pc, unit>> \/ pc' = "idle" \/ (pc = "parse" /\ pc' = "begin decode" /\ unit' = unit)
  BY DEF SkipSegment, ParseBlock, EndSegment, EndParse, Fail, Return
<1> QED
  BY <1>1, <1>2 DEF PresentationInv, IsAccessUnit

\* The only step that chooses.
LEMMA BeginDecodeChooses ==
  ASSUME PresentationInv, BeginDecode
  PROVE  PresentationInv'
<1> DEFINE sync == unit.sync
           known == IF sync = Nothing THEN d_format ELSE FormatOf(sync)
<1>1. known \in Format \cup {Nothing}
  BY DEF PresentationInv, BeginDecode, IsAccessUnit, MajorSync, FormatOf, Format
<1>2. d_format' = known
  BY DEF BeginDecode
<1>3. pc' \in {"idle", "decode"}
  BY DEF BeginDecode, Fail, Return
<1>4. CASE Trusted(sync)
  <2>1. valid /\ UNCHANGED <<d_mask, presentation>>
    BY <1>4 DEF BeginDecode, Trusted
  <2> QED
    BY <2>1, <1>1, <1>2, <1>3 DEF PresentationInv
<1>5. CASE ~Trusted(sync) /\ known = Nothing
  <2>1. valid' = Trusted(sync) /\ pc' = "idle"
    BY <1>5 DEF BeginDecode, Fail, Return
  <2> QED
    BY <2>1, <1>1, <1>2, <1>5 DEF PresentationInv
<1>6. CASE ~Trusted(sync) /\ known # Nothing
  <2>1. presentation' = Chosen(MasksOf(known), Asked) /\ d_mask' = RequiredMask(MasksOf(known), Asked)
    BY <1>6 DEF BeginDecode
  <2>2. known.extended \in 0 .. 3
    BY <1>1, <1>6 DEF Format
  <2>3. Asked \in Presentation /\ Asked = MaxPresentations - 1
    BY TrueHdAssumption DEF Presentation, MaxPresentations
  <2>4. presentation' \in d_mask'
    BY <2>1, <2>2, <2>3, ChosenInMask DEF MasksOf
  <2> QED
    BY <2>4, <1>1, <1>2, <1>3 DEF PresentationInv
<1> QED
  BY <1>4, <1>5, <1>6

LEMMA DecodeKeepsChoice ==
  ASSUME PresentationInv,
         \/ SkipSubstream \/ BeginSubstream \/ DecodeBlock \/ FailLosslessCheck
         \/ EndSubstream \/ EndDecode \/ Deliver
  PROVE  PresentationInv'
<1>1. CASE \/ SkipSubstream \/ BeginSubstream \/ DecodeBlock \/ FailLosslessCheck \/ EndSubstream
  <2>1. UNCHANGED <<d_format, d_mask, presentation, valid>>
    BY <1>1 DEF SkipSubstream, BeginSubstream, DecodeBlock, FailLosslessCheck, EndSubstream, decoder
  <2>2. UNCHANGED <<pc, unit>> \/ pc' = "idle"
    BY <1>1 DEF SkipSubstream, BeginSubstream, DecodeBlock, FailLosslessCheck, EndSubstream,
                Fail, Return
  <2> QED
    BY <2>1, <2>2, ChoiceKept
<1>2. CASE EndDecode
  BY <1>2 DEF EndDecode, PresentationInv
<1>3. CASE Deliver
  <2>1. UNCHANGED <<d_format, d_mask, presentation, valid>> /\ pc' \in {"panicked", "idle"}
    BY <1>3 DEF Deliver, Return, decoder
  <2> QED
    BY <2>1 DEF PresentationInv
<1> QED
  BY <1>1, <1>2, <1>3

\* Whatever is decoded or delivered, the presentation's own substream is among those decoded.
THEOREM AlwaysPresentationDecoded == Spec => []PresentationDecoded
<1>1. Init => PresentationInv
  BY DEF Init, InitDecoder, PresentationInv
<1>2. PresentationInv /\ [Next]_vars => PresentationInv'
  <2> SUFFICES ASSUME PresentationInv, [Next]_vars PROVE PresentationInv'
    OBVIOUS
  <2>1. CASE \E au \in AccessUnits : PushContinuation(au) \/ PushMajorSync(au)
    BY <2>1, PushKeepsChoice
  <2>2. CASE SkipSegment \/ ParseBlock \/ EndSegment \/ EndParse
    BY <2>2, ParseKeepsChoice
  <2>3. CASE BeginDecode
    BY <2>3, BeginDecodeChooses
  <2>4. CASE \/ SkipSubstream \/ BeginSubstream \/ DecodeBlock \/ FailLosslessCheck
             \/ EndSubstream \/ EndDecode \/ Deliver
    BY <2>4, DecodeKeepsChoice
  <2>5. CASE SetFailLevel
    BY <2>5, ChoiceKept DEF SetFailLevel, decoder, call
  <2>6. CASE Reset
    BY <2>6 DEF Reset, Return, PresentationInv
  <2>7. CASE UNCHANGED vars
    BY <2>7, ChoiceKept DEF vars, decoder, call
  <2> QED
    BY <2>1, <2>2, <2>3, <2>4, <2>5, <2>6, <2>7 DEF Next
<1>3. PresentationInv => PresentationDecoded
  BY DEF PresentationInv, PresentationDecoded
<1> QED
  BY <1>1, <1>2, <1>3, PTL DEF Spec

-----------------------------------------------------------------------------
(***************************************************************************)
(* The substream use that access units without a major sync are read under *)
(***************************************************************************)

\* As long as the parser goes on without a major sync, nothing was put over the format that was
\* read to its end.
FormatInv ==
  /\ has_parsed_au => p_format = committed
  /\ pc = "parse" /\ unit.sync = Nothing => has_parsed_au

\* An access unit without a major sync is only read under a substream use an access unit was read
\* with to its end, whatever major syncs failed since.
THEOREM AlwaysFormatCommitted == Spec => []FormatCommitted
<1>1. Init => FormatInv
  BY DEF Init, InitParser, FormatInv
<1>2. FormatInv /\ [Next]_vars => FormatInv'
  <2> SUFFICES ASSUME FormatInv, [Next]_vars PROVE FormatInv'
    OBVIOUS
  <2>1. ASSUME NEW au \in AccessUnits, PushContinuation(au) PROVE FormatInv'
    BY <2>1 DEF PushContinuation, FormatInv, BeginParse, Fail, Return, ParserOnly
  <2>2. ASSUME NEW au \in AccessUnits, PushMajorSync(au) PROVE FormatInv'
    <3>1. pc' = "parse" => unit'.sync # Nothing
      BY <2>2 DEF PushMajorSync, BeginParse, Fail, Return
    <3>2. UNCHANGED committed
      BY <2>2 DEF PushMajorSync, ParserOnly
    <3>3. has_parsed_au' => has_parsed_au /\ p_format' = p_format
      BY <2>2 DEF PushMajorSync, FormatChanges
    <3> QED
      BY <3>1, <3>2, <3>3 DEF FormatInv
  <2>3. CASE EndParse
    BY <2>3 DEF EndParse, FormatInv, Fail, Return
  <2>4. CASE Reset
    BY <2>4 DEF Reset, Return, FormatInv
  <2>5. CASE \/ SkipSegment \/ ParseBlock \/ EndSegment \/ BeginDecode \/ SkipSubstream
             \/ BeginSubstream \/ DecodeBlock \/ FailLosslessCheck \/ EndSubstream
             \/ EndDecode \/ Deliver \/ SetFailLevel \/ UNCHANGED vars
    <3>1. UNCHANGED <<has_parsed_au, p_format, committed>>
      BY <2>5 DEF SkipSegment, ParseBlock, EndSegment, BeginDecode, SkipSubstream, BeginSubstream,
           DecodeBlock, FailLosslessCheck, EndSubstream, EndDecode, Deliver, SetFailLevel,
           ParserOnly, parser, vars
    <3>2. UNCHANGED <<pc, unit>> \/ pc' # "parse"
      BY <2>5 DEF SkipSegment, ParseBlock, EndSegment, BeginDecode, SkipSubstream, BeginSubstream,
           DecodeBlock, FailLosslessCheck, EndSubstream, EndDecode, Deliver, SetFailLevel,
           Fail, Return, call, vars
    <3> QED
      BY <3>1, <3>2 DEF FormatInv
  <2> QED
    BY <2>1, <2>2, <2>3, <2>4, <2>5 DEF Next
<1>3. FormatInv => FormatCommitted
  BY DEF FormatInv, FormatCommitted
<1> QED
  BY <1>1, <1>2, <1>3, PTL DEF Spec

-----------------------------------------------------------------------------
(***************************************************************************)
(* Types                                                                   *)
(***************************************************************************)

Flags == <<strict, has_parsed_au, valid, unwritten, sound>>

FlagsOK == Flags \in BOOLEAN \X BOOLEAN \X BOOLEAN \X BOOLEAN \X BOOLEAN

ParserOK ==
  /\ p_substreams \in (1 .. MaxPresentations) \cup {Nothing}
  /\ {p_format, committed} \subseteq Format \cup {Nothing}
  /\ p_mask \subseteq Substream
  /\ p_samples \in Nat
  /\ p_sub \in [Substream -> SubstreamState]

DecoderOK ==
  /\ d_substreams \in 0 .. MaxPresentations
  /\ d_format \in Format \cup {Nothing}
  /\ d_mask \subseteq Substream
  /\ presentation \in Presentation
  /\ d_samples \in Nat /\ zero_samples \in Nat
  /\ d_sub \in [Substream -> SubstreamState]

CallOK ==
  /\ pc \in {"idle", "parse", "begin decode", "decode", "deliver", "panicked"}
  /\ unit \in AccessUnits \cup {NoUnit}
  /\ pc \in {"parse", "begin decode", "decode", "deliver"} => unit \in AccessUnits
  /\ at \in (0 .. MaxPresentations) \X Nat
  /\ parsed \in [Substream -> Seq(SubstreamState)]
  /\ sample_len \in 0 .. Capacity /\ decoded \subseteq Substream
  /\ result \in {"none", "frame", "parse", "decode", "no presentation map"}

DataOK == ParserOK /\ DecoderOK /\ CallOK

LEMMA StartTypes ==
  /\ 0 \in 0 .. MaxPresentations /\ 0 \in 0 .. Capacity
  /\ [i \in Substream |-> << >>] \in [Substream -> Seq(SubstreamState)]
<1>1. Capacity \in Nat
  BY TrueHdAssumption, Zenon
<1>2. << >> \in Seq(SubstreamState)
  OBVIOUS
<1>3. 0 \in 0 .. MaxPresentations /\ 0 \in 0 .. Capacity
  BY <1>1 DEF MaxPresentations
<1> QED BY <1>2, <1>3, Zenon

LEMMA ReturnTypes ==
  ASSUME NEW outcome \in {"none", "frame", "parse", "decode", "no presentation map"},
         Return(outcome), decoded' \subseteq Substream
  PROVE  CallOK'
  BY StartTypes DEF Return, CallOK

\* What an access unit is made of.
LEMMA UnitTypes ==
  ASSUME NEW au \in AccessUnits
  PROVE  /\ au.sync \in MajorSync \cup {Nothing}
         /\ DOMAIN au.segments \subseteq Substream
         /\ \A i \in DOMAIN au.segments : au.segments[i] \in Segment
<1>1. IsAccessUnit(au)
  BY TrueHdAssumption
<1>2. PICK n \in 1 .. MaxPresentations : au.segments \in [0 .. n - 1 -> Segment]
  BY <1>1 DEF IsAccessUnit
<1>3. 0 .. n - 1 \subseteq Substream
  BY <1>2 DEF Substream, MaxPresentations
<1> QED BY <1>1, <1>2, <1>3 DEF IsAccessUnit

\* Headers leave a substream in a state that a substream can have.
LEMMA HeadedTypes ==
  ASSUME NEW sub \in SubstreamState, NEW b \in Block
  PROVE  Restarted(sub, b) \in SubstreamState /\ Headed(sub, b) \in SubstreamState
<1>1. DefaultBlock \in Nat
  BY TrueHdAssumption
<1>2. b.restart \in (SUBSET Nat) \cup {Nothing} /\ b.size \in Nat \cup {Nothing}
  BY DEF Block
<1>3. Restarted(sub, b) \in SubstreamState
  BY <1>1, <1>2 DEF Restarted, SubstreamState
<1> QED BY <1>2, <1>3 DEF Headed, SubstreamState

LEMMA FormatTypes ==
  ASSUME NEW sync \in MajorSync
  PROVE  /\ FormatOf(sync) \in Format /\ sync.substreams \in 1 .. MaxPresentations /\ sync.samples \in Nat
         /\ RequiredMask(MasksOf(FormatOf(sync)), MaxPresentations - 1) \subseteq Substream
<1>1. FormatOf(sync) \in Format
  BY DEF FormatOf, Format, MajorSync
<1>2. \A p \in Presentation : MasksOf(FormatOf(sync))[p] \subseteq Substream
  <2>1. FormatOf(sync).extended \in 0 .. 3
    BY <1>1 DEF Format
  <2>2. \A p \in Presentation : 0 .. p \subseteq Substream
    BY DEF Presentation, Substream, MaxPresentations
  <2> QED BY <2>1, <2>2, MaskBelow DEF MasksOf
<1> QED BY <1>1, <1>2 DEF RequiredMask, Presentation, MajorSync

LEMMA FlagInvariance == FlagsOK /\ [Next]_vars => FlagsOK'
<1> SUFFICES ASSUME FlagsOK, [Next]_vars PROVE FlagsOK'
  OBVIOUS
<1> DEFINE B(x) == x \in BOOLEAN
<1>1. B(strict) /\ B(has_parsed_au) /\ B(valid) /\ B(unwritten) /\ B(sound)
  BY DEF FlagsOK, Flags
<1>2. SUFFICES B(strict') /\ B(has_parsed_au') /\ B(valid') /\ B(unwritten') /\ B(sound')
  BY DEF FlagsOK, Flags
<1>3. ASSUME NEW au \in AccessUnits, PushContinuation(au) \/ PushMajorSync(au)
      PROVE  B(strict') /\ B(has_parsed_au') /\ B(valid') /\ B(unwritten') /\ B(sound')
  <2>1. CASE PushContinuation(au)
    BY <1>1, <2>1, Zenon DEF PushContinuation, NewCall, ParserOnly, decoder, BeginParse, Fail
  <2>2. CASE PushMajorSync(au)
    BY <1>1, <2>2, Zenon DEF PushMajorSync, NewCall, ParserOnly, decoder, BeginParse, Fail
  <2> QED BY <1>3, <2>1, <2>2
<1>4. CASE SkipSegment \/ ParseBlock \/ EndSegment
  BY <1>1, <1>4, Zenon DEF SkipSegment, ParseBlock, EndSegment, ParserOnly, parser, decoder, output, Fail
<1>5. CASE EndParse
  BY <1>1, <1>5, Zenon DEF EndParse, decoder, output, Fail
<1>6. CASE BeginDecode
  BY <1>1, <1>6, Zenon DEF BeginDecode, Trusted, parser, output, Fail
<1>7. CASE SkipSubstream \/ BeginSubstream \/ FailLosslessCheck \/ EndSubstream
  BY <1>1, <1>7, Zenon DEF SkipSubstream, BeginSubstream, FailLosslessCheck, EndSubstream, parser, decoder, output, Fail
<1>8. CASE DecodeBlock
  BY <1>1, <1>8, Zenon DEF DecodeBlock, parser, Fail
<1>9. CASE EndDecode \/ Deliver
  BY <1>1, <1>9, Zenon DEF EndDecode, Deliver, parser, decoder, output
<1>10. CASE SetFailLevel
  BY <1>1, <1>10, Zenon DEF SetFailLevel, decoder, output
<1>11. CASE Reset
  BY <1>1, <1>11, Zenon DEF Reset, NewCall
<1>12. CASE UNCHANGED vars
  BY <1>1, <1>12, Zenon DEF vars, parser, decoder, output
<1> QED BY <1>3, <1>4, <1>5, <1>6, <1>7, <1>8, <1>9, <1>10, <1>11, <1>12 DEF Next

-----------------------------------------------------------------------------
(***************************************************************************)
(* Where a push has come to                                                *)
(***************************************************************************)

InUnit == pc \in {"parse", "begin decode", "decode", "deliver"}

BlocksOf(i) == unit.segments[i].blocks

\* Blocks are read one after the other, and decoded only as far as they were read.
PlaceInv ==
  /\ pc = "idle" => at = <<0, 1>> /\ parsed = [i \in Substream |-> << >>]
  /\ pc = "parse" => /\ \A i \in Substream : i > at[1] => parsed[i] = << >>
                     /\ at[1] \in Substream => at[2] = Len(parsed[at[1]]) + 1
  /\ pc = "decode" /\ at[2] > 0 => Wanted(at[1]) /\ at[2] <= Len(parsed[at[1]]) + 1

\* The parser keeps for each block the state it was read under, and that of the last as its own.
ReadInv ==
  InUnit => \A i \in Substream : parsed[i] # << >> =>
    /\ i \in DOMAIN unit.segments /\ Len(parsed[i]) <= Len(BlocksOf(i))
    /\ p_sub[i] = parsed[i][Len(parsed[i])]
    /\ \A k \in 2 .. Len(parsed[i]) : parsed[i][k] = Headed(parsed[i][k - 1], BlocksOf(i)[k])

BaseInv == DataOK /\ PlaceInv /\ ReadInv

\* A call that ends leaves nothing of the access unit behind.
LEMMA ReturnBase ==
  ASSUME NEW outcome \in {"none", "frame", "parse", "decode", "no presentation map"},
         Return(outcome), decoded' \subseteq Substream, ParserOK', DecoderOK'
  PROVE  BaseInv'
<1>1. CallOK'
  BY ReturnTypes
<1>2. PlaceInv' /\ ReadInv'
  BY DEF Return, PlaceInv, ReadInv, InUnit
<1> QED BY <1>1, <1>2 DEF BaseInv, DataOK

LEMMA PushBase ==
  ASSUME BaseInv, NEW au \in AccessUnits, PushContinuation(au) \/ PushMajorSync(au)
  PROVE  BaseInv'
<1>1. DecoderOK' /\ decoded' \subseteq Substream
  BY DEF BaseInv, DataOK, DecoderOK, PushContinuation, PushMajorSync, ParserOnly, decoder, NewCall
<1>2. ParserOK'
  <2>1. CASE PushContinuation(au)
    BY <2>1 DEF BaseInv, DataOK, ParserOK, PushContinuation, ParserOnly
  <2>2. CASE PushMajorSync(au)
    <3>1. au.sync \in MajorSync
      BY <2>2, UnitTypes DEF PushMajorSync
    <3>2. /\ FormatOf(au.sync) \in Format /\ au.sync.substreams \in 1 .. MaxPresentations
          /\ au.sync.samples \in Nat
          /\ RequiredMask(MasksOf(FormatOf(au.sync)), MaxPresentations - 1) \subseteq Substream
      BY <3>1, FormatTypes
    <3>3. UNCHANGED <<committed, p_sub>> /\ p_samples' = au.sync.samples
      BY <2>2 DEF PushMajorSync, ParserOnly
    <3>4. p_substreams' \in {p_substreams, au.sync.substreams}
      BY <2>2 DEF PushMajorSync
    <3>5. p_format' \in {p_format, FormatOf(au.sync)}
      BY <2>2 DEF PushMajorSync
    <3>6. p_mask' \in {p_mask, RequiredMask(MasksOf(FormatOf(au.sync)), MaxPresentations - 1)}
      BY <2>2 DEF PushMajorSync
    <3> QED BY <3>2, <3>3, <3>4, <3>5, <3>6 DEF BaseInv, DataOK, ParserOK
  <2> QED BY <2>1, <2>2
<1>3. Return("parse") \/ BeginParse(au)
  BY DEF PushContinuation, PushMajorSync, Fail
<1>4. CASE Return("parse")
  BY <1>1, <1>2, <1>4, ReturnBase
<1>5. CASE BeginParse(au)
  <2>1. pc = "idle"
    BY DEF PushContinuation, PushMajorSync
  <2>2. at = <<0, 1>> /\ parsed = [i \in Substream |-> << >>]
    BY <2>1 DEF BaseInv, PlaceInv
  <2>3. CallOK'
    BY <1>1, <1>5 DEF BaseInv, DataOK, CallOK, BeginParse
  <2>4. PlaceInv' /\ ReadInv'
    BY <1>5, <2>2 DEF BeginParse, PlaceInv, ReadInv, InUnit
  <2> QED BY <1>1, <1>2, <2>3, <2>4 DEF BaseInv, DataOK
<1> QED BY <1>3, <1>4, <1>5

\* The block that is read, and what reading it makes of its substream.
LEMMA BlockTypes ==
  ASSUME BaseInv, InUnit, at[1] \in DOMAIN unit.segments, at[2] \in DOMAIN segment.blocks
  PROVE  /\ at[1] \in Substream /\ segment = unit.segments[at[1]] /\ segment \in Segment
         /\ segment.blocks \in Seq(Block) /\ block \in Block
         /\ segment.blocks = BlocksOf(at[1]) /\ block = BlocksOf(at[1])[at[2]]
<1>1. unit \in AccessUnits
  BY DEF BaseInv, DataOK, CallOK, InUnit
<1>2. at[1] \in Substream /\ unit.segments[at[1]] \in Segment
  BY <1>1, UnitTypes
<1>3. segment.blocks \in Seq(Block)
  BY <1>2 DEF segment, Segment
<1>4. block \in Block
  BY <1>3 DEF block
<1> QED BY <1>2, <1>3, <1>4 DEF segment, block, BlocksOf

LEMMA SkipSegmentBase ==
  ASSUME BaseInv, SkipSegment
  PROVE  BaseInv'
<1>1. unit \in AccessUnits /\ pc = "parse"
  BY DEF BaseInv, DataOK, CallOK, SkipSegment
<1>2. at[1] \in Substream
  BY <1>1, UnitTypes DEF SkipSegment
<1>3. at' = <<at[1] + 1, 1>> /\ at[1] + 1 \in 0 .. MaxPresentations
  BY <1>2 DEF SkipSegment, Substream, MaxPresentations
<1>4. at' \in (0 .. MaxPresentations) \X Nat
  BY <1>3
<1>5. DataOK'
  BY <1>4 DEF BaseInv, DataOK, ParserOK, DecoderOK, CallOK, SkipSegment, parser, decoder, output
<1>6. PlaceInv'
  <2>1. \A i \in Substream : i > at'[1] => parsed'[i] = << >>
    BY <1>1, <1>2, <1>3 DEF BaseInv, PlaceInv, SkipSegment, Substream, MaxPresentations
  <2>2. at'[1] \in Substream => parsed'[at'[1]] = << >>
    BY <1>1, <1>2, <1>3 DEF BaseInv, PlaceInv, SkipSegment, Substream, MaxPresentations
  <2>3. pc' = "parse"
    BY <1>1 DEF SkipSegment
  <2> QED BY <1>3, <2>1, <2>2, <2>3 DEF PlaceInv
<1>7. ReadInv'
  BY DEF BaseInv, ReadInv, InUnit, SkipSegment, BlocksOf, parser
<1> QED BY <1>5, <1>6, <1>7 DEF BaseInv

\* Reading a block leaves the parser's substream in the state the block was read under.
LEMMA ParseBlockBase ==
  ASSUME BaseInv, ParseBlock
  PROVE  BaseInv'
<1> DEFINE i == at[1]
           read == ReadUnder(p_sub[i], block)
<1>1. pc = "parse" /\ InUnit /\ i \in DOMAIN unit.segments /\ at[2] \in DOMAIN segment.blocks
  BY DEF ParseBlock, InSegment, InUnit
<1>2. /\ i \in Substream /\ segment.blocks \in Seq(Block) /\ block \in Block
      /\ segment.blocks = BlocksOf(i) /\ block = BlocksOf(i)[at[2]]
  BY <1>1, BlockTypes
<1>3. /\ p_sub \in [Substream -> SubstreamState] /\ parsed \in [Substream -> Seq(SubstreamState)]
      /\ at \in (0 .. MaxPresentations) \X Nat
  BY DEF BaseInv, DataOK, ParserOK, CallOK
<1>4. read \in SubstreamState
  BY <1>2, <1>3, HeadedTypes DEF ReadUnder
<1>5. p_sub' = [p_sub EXCEPT ![i] = read]
  BY DEF ParseBlock
<1>6. ParserOK' /\ DecoderOK' /\ decoded' \subseteq Substream
  <2>1. p_sub' \in [Substream -> SubstreamState]
    BY <1>2, <1>3, <1>4, <1>5
  <2> QED BY <2>1 DEF BaseInv, DataOK, ParserOK, DecoderOK, CallOK, ParseBlock, ParserOnly, decoder, output
<1>7. CASE ~Readable(block)
  <2>1. Return("parse")
    BY <1>7 DEF ParseBlock, Fail
  <2> QED BY <1>6, <2>1, ReturnBase
<1>8. CASE Readable(block)
  <2>1. /\ parsed' = [parsed EXCEPT ![i] = Append(@, read)] /\ at' = <<i, at[2] + 1>>
        /\ UNCHANGED <<pc, unit, sample_len, result, decoded>>
    BY <1>8 DEF ParseBlock, output
  <2>2. at[2] = Len(parsed[i]) + 1 /\ Len(parsed[i]) \in Nat
    BY <1>1, <1>2, <1>3 DEF BaseInv, PlaceInv
  <2>3. read = Headed(p_sub[i], block)
    BY <1>8 DEF ReadUnder, Readable
  <2>4. CallOK'
    <3>1. parsed' \in [Substream -> Seq(SubstreamState)]
      BY <1>2, <1>3, <1>4, <2>1
    <3>2. at' \in (0 .. MaxPresentations) \X Nat
      BY <1>3, <2>1
    <3> QED BY <3>1, <3>2, <2>1 DEF BaseInv, DataOK, CallOK
  <2> HIDE DEF read
  <2>5. /\ parsed'[i] = Append(parsed[i], read) /\ Len(parsed'[i]) = at[2]
        /\ \A k \in 1 .. Len(parsed[i]) : parsed'[i][k] = parsed[i][k]
        /\ parsed'[i][at[2]] = read
    BY <1>2, <1>3, <1>4, <2>1, <2>2
  <2>6. \A j \in Substream \ {i} : parsed'[j] = parsed[j] /\ p_sub'[j] = p_sub[j]
    BY <1>2, <1>3, <1>5, <2>1
  <2>7. PlaceInv'
    <3>1. \A j \in Substream : j > i => parsed'[j] = << >>
      BY <1>1, <2>6, <1>2 DEF BaseInv, PlaceInv, Substream
    <3>2. pc' = "parse" /\ at'[1] = i /\ at'[2] = Len(parsed'[i]) + 1
      BY <1>1, <2>1, <2>5
    <3> QED BY <3>1, <3>2 DEF PlaceInv
  <2>8. ReadInv'
    <3>1. ASSUME NEW j \in Substream, j # i, parsed'[j] # << >>
          PROVE  /\ j \in DOMAIN unit'.segments /\ Len(parsed'[j]) <= Len(BlocksOf(j)')
                 /\ p_sub'[j] = parsed'[j][Len(parsed'[j])]
                 /\ \A k \in 2 .. Len(parsed'[j]) :
                      parsed'[j][k] = Headed(parsed'[j][k - 1], BlocksOf(j)'[k])
      BY <3>1, <1>1, <2>1, <2>6 DEF BaseInv, ReadInv, BlocksOf
    <3>2. i \in DOMAIN unit'.segments /\ Len(parsed'[i]) <= Len(BlocksOf(i))
      BY <1>1, <1>2, <2>1, <2>5
    <3>3. p_sub'[i] = parsed'[i][Len(parsed'[i])]
      BY <1>2, <1>3, <1>5, <2>5
    <3>4. ASSUME NEW k \in 2 .. Len(parsed'[i])
          PROVE  parsed'[i][k] = Headed(parsed'[i][k - 1], BlocksOf(i)[k])
      <4>1. parsed[i] # << >>
        BY <3>4, <2>2, <2>5
      <4>2. /\ p_sub[i] = parsed[i][Len(parsed[i])]
            /\ \A m \in 2 .. Len(parsed[i]) : parsed[i][m] = Headed(parsed[i][m - 1], BlocksOf(i)[m])
        BY <1>1, <1>2, <4>1 DEF BaseInv, ReadInv
      <4>3. CASE k = at[2]
        <5>1. parsed'[i][k] = Headed(p_sub[i], BlocksOf(i)[k])
          BY <4>3, <1>2, <2>3, <2>5
        <5>2. k - 1 = Len(parsed[i]) /\ k - 1 \in 1 .. Len(parsed[i])
          BY <4>3, <2>2, <3>4, <2>5
        <5> QED BY <4>2, <5>1, <5>2, <2>5
      <4>4. CASE k # at[2]
        <5>1. k \in 2 .. Len(parsed[i]) /\ k - 1 \in 1 .. Len(parsed[i]) /\ k \in 1 .. Len(parsed[i])
          BY <4>4, <2>2, <3>4, <2>5
        <5>2. parsed'[i][k] = parsed[i][k] /\ parsed'[i][k - 1] = parsed[i][k - 1]
          BY <5>1, <2>5
        <5>3. parsed[i][k] = Headed(parsed[i][k - 1], BlocksOf(i)[k])
          BY <5>1, <4>2
        <5> QED BY <5>2, <5>3
      <4> QED BY <4>3, <4>4
    <3>5. BlocksOf(i)' = BlocksOf(i)
      BY <2>1 DEF BlocksOf
    <3> QED BY <3>1, <3>2, <3>3, <3>4, <3>5, <2>1 DEF ReadInv, BlocksOf
  <2> QED BY <1>6, <2>4, <2>7, <2>8 DEF BaseInv, DataOK
<1> QED BY <1>7, <1>8

LEMMA EndSegmentBase ==
  ASSUME BaseInv, EndSegment
  PROVE  BaseInv'
<1>1. ParserOK' /\ DecoderOK' /\ decoded' \subseteq Substream
  BY DEF BaseInv, DataOK, ParserOK, DecoderOK, CallOK, EndSegment, parser, decoder, output
<1>2. CASE ~segment.checks
  <2>1. Return("parse")
    BY <1>2 DEF EndSegment, Fail
  <2> QED BY <1>1, <2>1, ReturnBase
<1>3. CASE segment.checks
  <2>1. unit \in AccessUnits /\ pc = "parse"
    BY DEF BaseInv, DataOK, CallOK, EndSegment, InSegment
  <2>2. at[1] \in Substream
    BY <2>1, UnitTypes DEF EndSegment, InSegment
  <2>3. /\ at' = <<at[1] + 1, 1>> /\ at[1] + 1 \in 0 .. MaxPresentations
        /\ UNCHANGED <<pc, unit, parsed, sample_len, result, decoded, p_sub>>
    BY <1>3, <2>2 DEF EndSegment, Substream, MaxPresentations, parser, output
  <2>4. at' \in (0 .. MaxPresentations) \X Nat
    BY <2>3
  <2>5. CallOK'
    BY <2>3, <2>4 DEF BaseInv, DataOK, CallOK
  <2>6. PlaceInv'
    <3>1. \A i \in Substream : i > at'[1] => parsed'[i] = << >>
      BY <2>1, <2>2, <2>3 DEF BaseInv, PlaceInv, Substream, MaxPresentations
    <3>2. at'[1] \in Substream => parsed'[at'[1]] = << >>
      BY <2>1, <2>2, <2>3 DEF BaseInv, PlaceInv, Substream, MaxPresentations
    <3> QED BY <2>1, <2>3, <3>1, <3>2 DEF PlaceInv
  <2>7. ReadInv'
    BY <2>3 DEF BaseInv, ReadInv, InUnit, BlocksOf
  <2> QED BY <1>1, <2>5, <2>6, <2>7 DEF BaseInv, DataOK
<1> QED BY <1>2, <1>3

LEMMA EndParseBase ==
  ASSUME BaseInv, EndParse
  PROVE  BaseInv'
<1>1. ParserOK' /\ DecoderOK' /\ decoded' \subseteq Substream
  <2>1. committed' \in {committed, p_format}
    BY DEF EndParse
  <2> QED BY <2>1 DEF BaseInv, DataOK, ParserOK, DecoderOK, CallOK, EndParse, decoder, output
<1>2. CASE Return("parse")
  BY <1>1, <1>2, ReturnBase
<1>3. CASE pc' = "begin decode" /\ UNCHANGED <<unit, at, parsed, sample_len, result>>
  <2>1. CallOK'
    BY <1>1, <1>3 DEF BaseInv, DataOK, CallOK, EndParse
  <2>2. PlaceInv'
    BY <1>3 DEF PlaceInv
  <2>3. ReadInv'
    BY <1>3 DEF BaseInv, ReadInv, InUnit, BlocksOf, EndParse
  <2> QED BY <1>1, <2>1, <2>2, <2>3 DEF BaseInv, DataOK
<1> QED BY <1>2, <1>3 DEF EndParse, Fail

\* What a decoder chooses is within the presentations there are.
LEMMA ChoiceTypes ==
  ASSUME NEW format \in Format
  PROVE  /\ RequiredMask(MasksOf(format), Asked) \subseteq Substream
         /\ Chosen(MasksOf(format), Asked) \in Presentation
<1>1. Asked \in Presentation /\ Asked = MaxPresentations - 1
  BY TrueHdAssumption DEF Presentation, MaxPresentations
<1>2. format.extended \in 0 .. 3
  BY DEF Format
<1>3. \A p \in Presentation : MasksOf(format)[p] \subseteq Substream
  <2>1. \A p \in Presentation : 0 .. p \subseteq Substream
    BY DEF Presentation, Substream, MaxPresentations
  <2> QED BY <1>2, <2>1, MaskBelow DEF MasksOf
<1>4. RequiredMask(MasksOf(format), Asked) \subseteq Substream
  BY <1>1, <1>3 DEF RequiredMask, Presentation, MaxPresentations
<1>5. Chosen(MasksOf(format), Asked) \in Presentation
  BY <1>1, <1>2, ChosenInMask DEF MasksOf
<1> QED BY <1>4, <1>5

LEMMA BeginDecodeBase ==
  ASSUME BaseInv, BeginDecode
  PROVE  BaseInv'
<1> DEFINE sync == unit.sync
           known == IF sync = Nothing THEN d_format ELSE FormatOf(sync)
<1>1. sync \in MajorSync \cup {Nothing} /\ pc = "begin decode"
  BY UnitTypes DEF BaseInv, DataOK, CallOK, BeginDecode
<1>2. known \in Format \cup {Nothing}
  BY <1>1, FormatTypes DEF BaseInv, DataOK, DecoderOK
<1>3. DecoderOK'
  <2>1. d_format' = known /\ zero_samples' = zero_samples /\ d_sub' = d_sub
    BY DEF BeginDecode
  <2>2. d_substreams' \in 0 .. MaxPresentations /\ d_samples' \in Nat
    <3>1. CASE sync = Nothing
      BY <3>1 DEF BeginDecode, BaseInv, DataOK, DecoderOK
    <3>2. CASE sync # Nothing
      <4>1. sync.substreams \in 1 .. MaxPresentations /\ sync.samples \in Nat
        BY <3>2, <1>1, FormatTypes
      <4>2. d_substreams' = sync.substreams /\ d_samples' = sync.samples
        BY <3>2 DEF BeginDecode
      <4> QED BY <4>1, <4>2 DEF MaxPresentations
    <3> QED BY <3>1, <3>2
  <2>3. d_mask' \subseteq Substream /\ presentation' \in Presentation
    <3>1. CASE Trusted(sync) \/ known = Nothing
      BY <3>1 DEF BeginDecode, BaseInv, DataOK, DecoderOK
    <3>2. CASE ~(Trusted(sync) \/ known = Nothing)
      BY <3>2, <1>2, ChoiceTypes DEF BeginDecode
    <3> QED BY <3>1, <3>2
  <2> QED BY <1>2, <2>1, <2>2, <2>3 DEF BaseInv, DataOK, DecoderOK
<1>4. ParserOK' /\ decoded' \subseteq Substream
  BY DEF BaseInv, DataOK, ParserOK, CallOK, BeginDecode, parser, output
<1>5. CASE Return("no presentation map")
  BY <1>3, <1>4, <1>5, ReturnBase
<1>6. CASE pc' = "decode" /\ at' = <<0, 0>> /\ UNCHANGED <<unit, parsed, sample_len, result>>
  <2>1. <<0, 0>> \in (0 .. MaxPresentations) \X Nat
    BY StartTypes
  <2>2. CallOK'
    BY <1>1, <1>4, <1>6, <2>1 DEF BaseInv, DataOK, CallOK
  <2>3. PlaceInv'
    BY <1>6 DEF PlaceInv
  <2>4. ReadInv'
    BY <1>1, <1>6 DEF BaseInv, ReadInv, InUnit, BlocksOf, BeginDecode, parser
  <2> QED BY <1>3, <1>4, <2>2, <2>3, <2>4 DEF BaseInv, DataOK
<1> QED BY <1>5, <1>6 DEF BeginDecode, Fail

\* A step to the start of the next substream.
LEMMA NextSubstreamBase ==
  ASSUME BaseInv, SkipSubstream \/ EndSubstream
  PROVE  BaseInv'
<1>1. pc = "decode" /\ at[1] \in 0 .. 3
  <2>1. at[1] \in 0 .. MaxPresentations /\ presentation \in 0 .. 3
    <3>1. at \in (0 .. MaxPresentations) \X Nat /\ presentation \in Presentation
      BY DEF BaseInv, DataOK, DecoderOK, CallOK
    <3> QED BY <3>1 DEF Presentation, MaxPresentations
  <2>2. CASE SkipSubstream
    BY <2>1, <2>2 DEF SkipSubstream, MaxPresentations
  <2>3. CASE EndSubstream
    BY <2>3 DEF EndSubstream, Substream, MaxPresentations
  <2> QED BY <2>2, <2>3
<1>2. /\ at' = <<at[1] + 1, 0>> /\ at[1] + 1 \in 0 .. MaxPresentations
      /\ UNCHANGED <<parser, decoder, pc, unit, parsed, sample_len, result, output, committed>>
  BY <1>1 DEF SkipSubstream, EndSubstream, MaxPresentations
<1>3. at' \in (0 .. MaxPresentations) \X Nat
  BY <1>2
<1>4. DataOK'
  BY <1>2, <1>3 DEF BaseInv, DataOK, ParserOK, DecoderOK, CallOK, parser, decoder, output
<1>5. PlaceInv'
  BY <1>1, <1>2 DEF PlaceInv
<1>6. ReadInv'
  BY <1>2 DEF BaseInv, ReadInv, InUnit, BlocksOf, parser
<1> QED BY <1>4, <1>5, <1>6 DEF BaseInv

LEMMA BeginSubstreamBase ==
  ASSUME BaseInv, BeginSubstream
  PROVE  BaseInv'
<1>1. pc = "decode" /\ InUnit /\ unit \in AccessUnits /\ at[1] \in 0 .. MaxPresentations
  BY DEF BeginSubstream, InUnit, BaseInv, DataOK, CallOK
<1>2. at[1] \in Substream /\ Wanted(at[1])
  BY <1>1 DEF BeginSubstream, Wanted, BaseInv, DataOK, DecoderOK
<1>3. zero_samples' \in Nat
  <2>1. CASE Terminated(at[1])
    <3>1. at[1] \in DOMAIN unit.segments
      BY <1>1, <1>2, <2>1 DEF Terminated, BaseInv, ReadInv
    <3>2. unit.segments[at[1]].zero_samples \in Nat \cup {Nothing}
      BY <1>1, <3>1, UnitTypes DEF Segment
    <3> QED BY <2>1, <3>2 DEF Terminated, segment, BeginSubstream
  <2>2. CASE ~Terminated(at[1])
    BY <2>2 DEF BeginSubstream, BaseInv, DataOK, DecoderOK
  <2> QED BY <2>1, <2>2
<1>4. ParserOK' /\ DecoderOK' /\ decoded' \subseteq Substream
  BY <1>3 DEF BaseInv, DataOK, ParserOK, DecoderOK, CallOK, BeginSubstream, parser, output
<1>5. CASE Return("decode")
  BY <1>4, <1>5, ReturnBase
<1>6. CASE at' = <<at[1], 1>> /\ sample_len' = 0 /\ UNCHANGED <<pc, unit, parsed, result>>
  <2>1. at' \in (0 .. MaxPresentations) \X Nat
    BY <1>1, <1>6
  <2>2. CallOK'
    BY <1>4, <1>6, <2>1, StartTypes DEF BaseInv, DataOK, CallOK
  <2>3. PlaceInv'
    <3>1. UNCHANGED <<presentation, d_mask>>
      BY DEF BeginSubstream
    <3>2. parsed[at[1]] \in Seq(SubstreamState)
      BY <1>2 DEF BaseInv, DataOK, CallOK
    <3>3. 1 <= Len(parsed[at[1]]) + 1
      BY <3>2
    <3>4. Wanted(at[1])'
      BY <1>2, <1>6, <3>1 DEF Wanted
    <3> QED BY <1>1, <1>6, <3>3, <3>4 DEF PlaceInv
  <2>4. ReadInv'
    BY <1>6 DEF BaseInv, ReadInv, InUnit, BlocksOf, BeginSubstream, parser
  <2> QED BY <1>4, <2>2, <2>3, <2>4 DEF BaseInv, DataOK
<1> QED BY <1>5, <1>6 DEF BeginSubstream, Fail

\* A restart header takes the rows of a substream from the start of the buffer again; a block that
\* does not fit the buffer is not decoded.
LEMMA DecodeBlockBase ==
  ASSUME BaseInv, DecodeBlock
  PROVE  BaseInv'
<1> DEFINE i == at[1]
           sub == Replayed(d_sub[i], block)
           start == IF block.restart = Nothing THEN sample_len ELSE 0
<1>1. /\ pc = "decode" /\ InUnit /\ unit \in AccessUnits /\ i \in Substream
      /\ at[2] \in DOMAIN parsed[i]
  BY DEF DecodeBlock, InBlocks, InUnit, BaseInv, DataOK, CallOK
<1>2. /\ parsed[i] \in Seq(SubstreamState) /\ at \in (0 .. MaxPresentations) \X Nat
      /\ d_sub \in [Substream -> SubstreamState] /\ sample_len \in 0 .. Capacity
  BY <1>1 DEF BaseInv, DataOK, DecoderOK, CallOK
<1>3. at[2] \in 1 .. Len(parsed[i]) /\ parsed[i] # << >>
  BY <1>1, <1>2
<1>4. i \in DOMAIN unit.segments /\ Len(parsed[i]) <= Len(BlocksOf(i))
  BY <1>1, <1>3 DEF BaseInv, ReadInv
<1>5. block \in Block
  <2>1. unit.segments[i] \in Segment
    BY <1>1, <1>4, UnitTypes
  <2>2. BlocksOf(i) \in Seq(Block)
    BY <2>1 DEF Segment, BlocksOf
  <2>3. at[2] \in DOMAIN BlocksOf(i)
    BY <1>2, <1>3, <1>4, <2>2
  <2> QED BY <2>2, <2>3 DEF block, segment, BlocksOf
<1>6. sub \in SubstreamState
  BY <1>1, <1>2, <1>5, HeadedTypes DEF Replayed
<1>7. decoded' \in {decoded, decoded \cup {i}} /\ d_sub' = [d_sub EXCEPT ![i] = sub]
  BY DEF DecodeBlock
<1>8. d_sub' \in [Substream -> SubstreamState]
  BY <1>1, <1>2, <1>6, <1>7
<1>9. ParserOK' /\ DecoderOK' /\ decoded' \subseteq Substream
  BY <1>1, <1>7, <1>8 DEF BaseInv, DataOK, ParserOK, DecoderOK, CallOK, DecodeBlock, parser
<1>10. CASE Return("decode")
  BY <1>9, <1>10, ReturnBase
<1>11. CASE /\ Fits(start, sub.size) /\ sample_len' = start + sub.size
            /\ at' = <<i, at[2] + 1>> /\ UNCHANGED <<pc, unit, parsed, result>>
  <2>1. at' \in (0 .. MaxPresentations) \X Nat
    BY <1>2, <1>11
  <2>2. sample_len' \in 0 .. Capacity
    <3>1. start \in Nat /\ sub.size \in Nat /\ Capacity \in Nat
      BY <1>2, <1>6, TrueHdAssumption DEF SubstreamState
    <3>2. start + sub.size <= Capacity /\ start + sub.size \in Nat
      BY <1>11, <3>1 DEF Fits
    <3> QED BY <1>11, <3>1, <3>2
  <2>3. CallOK'
    BY <1>9, <1>11, <2>1, <2>2 DEF BaseInv, DataOK, CallOK
  <2>4. PlaceInv'
    <3>1. Wanted(i) /\ UNCHANGED <<presentation, d_mask>>
      BY <1>1, <1>3 DEF BaseInv, PlaceInv, DecodeBlock
    <3>2. at[2] + 1 <= Len(parsed[i]) + 1
      BY <1>2, <1>3
    <3>3. Wanted(at[1])'
      BY <1>11, <3>1 DEF Wanted
    <3> QED BY <1>1, <1>11, <3>2, <3>3 DEF PlaceInv
  <2>5. ReadInv'
    BY <1>11 DEF BaseInv, ReadInv, InUnit, BlocksOf, DecodeBlock, parser
  <2> QED BY <1>9, <2>3, <2>4, <2>5 DEF BaseInv, DataOK
<1> QED
  BY <1>10, <1>11 DEF DecodeBlock, Fail

\* The other steps leave what they do not end as it is.
LEMMA RestBase ==
  ASSUME BaseInv, FailLosslessCheck \/ EndDecode \/ Deliver \/ SetFailLevel \/ Reset \/ UNCHANGED vars
  PROVE  BaseInv'
<1>1. CASE FailLosslessCheck
  <2>1. ParserOK' /\ DecoderOK' /\ decoded' \subseteq Substream /\ Return("decode")
    BY <1>1 DEF BaseInv, DataOK, ParserOK, DecoderOK, CallOK, FailLosslessCheck, parser, decoder, output, Fail
  <2> QED BY <2>1, ReturnBase
<1>2. CASE EndDecode
  <2>1. DataOK'
    BY <1>2 DEF BaseInv, DataOK, ParserOK, DecoderOK, CallOK, EndDecode, parser, output
  <2>2. PlaceInv' /\ ReadInv'
    BY <1>2 DEF BaseInv, PlaceInv, ReadInv, InUnit, BlocksOf, EndDecode, parser
  <2> QED BY <2>1, <2>2 DEF BaseInv
<1>3. CASE Deliver
  <2>1. ParserOK' /\ DecoderOK' /\ decoded' \subseteq Substream
    BY <1>3 DEF BaseInv, DataOK, ParserOK, DecoderOK, CallOK, Deliver, parser, decoder, output
  <2>2. CASE Return("frame")
    BY <2>1, <2>2, ReturnBase
  <2>3. CASE pc' = "panicked" /\ UNCHANGED <<unit, at, parsed, sample_len, result>>
    <3>1. CallOK'
      BY <2>1, <2>3 DEF BaseInv, DataOK, CallOK
    <3>2. PlaceInv' /\ ReadInv'
      BY <2>3 DEF PlaceInv, ReadInv, InUnit
    <3> QED BY <2>1, <3>1, <3>2 DEF BaseInv, DataOK
  <2> QED BY <1>3, <2>2, <2>3 DEF Deliver
<1>4. CASE SetFailLevel \/ UNCHANGED vars
  <2>1. UNCHANGED <<p_substreams, p_format, p_mask, p_samples, p_sub, decoder, call, output, committed>>
    BY <1>4 DEF SetFailLevel, vars, parser
  <2>2. DataOK'
    BY <2>1 DEF BaseInv, DataOK, ParserOK, DecoderOK, CallOK, decoder, call, output
  <2>3. PlaceInv'
    BY <2>1 DEF BaseInv, PlaceInv, Wanted, decoder, call
  <2>4. ReadInv'
    BY <2>1 DEF BaseInv, ReadInv, InUnit, BlocksOf, call
  <2> QED BY <2>2, <2>3, <2>4 DEF BaseInv
<1>5. CASE Reset
  <2>1. Return("none") /\ decoded' \subseteq Substream
    BY <1>5 DEF Reset, NewCall
  <2>2. [i \in Substream |-> Unstarted] \in [Substream -> SubstreamState]
    BY TrueHdAssumption DEF Unstarted, SubstreamState
  <2>3. ParserOK'
    BY <1>5, <2>2 DEF Reset, ParserOK
  <2>4. DecoderOK'
    BY <1>5, <2>2 DEF Reset, DecoderOK, Presentation, MaxPresentations
  <2> QED BY <2>1, <2>3, <2>4, ReturnBase
<1> QED BY <1>1, <1>2, <1>3, <1>4, <1>5

LEMMA BaseInvariance == BaseInv /\ [Next]_vars => BaseInv'
<1> SUFFICES ASSUME BaseInv, [Next]_vars PROVE BaseInv'
  OBVIOUS
<1>1. CASE \E au \in AccessUnits : PushContinuation(au) \/ PushMajorSync(au)
  BY <1>1, PushBase
<1>2. CASE SkipSegment \/ ParseBlock \/ EndSegment \/ EndParse
  BY <1>2, SkipSegmentBase, ParseBlockBase, EndSegmentBase, EndParseBase
<1>3. CASE BeginDecode \/ SkipSubstream \/ EndSubstream \/ BeginSubstream \/ DecodeBlock
  BY <1>3, BeginDecodeBase, NextSubstreamBase, BeginSubstreamBase, DecodeBlockBase
<1>4. CASE FailLosslessCheck \/ EndDecode \/ Deliver \/ SetFailLevel \/ Reset \/ UNCHANGED vars
  BY <1>4, RestBase
<1> QED BY <1>1, <1>2, <1>3, <1>4 DEF Next

LEMMA BaseStart == Init => FlagsOK /\ BaseInv
<1> SUFFICES ASSUME Init PROVE FlagsOK /\ BaseInv
  OBVIOUS
<1>1. [i \in Substream |-> Unstarted] \in [Substream -> SubstreamState]
  BY TrueHdAssumption DEF Unstarted, SubstreamState
<1>2. FlagsOK
  BY DEF Init, InitParser, InitDecoder, FlagsOK, Flags
<1>3. ParserOK
  BY <1>1 DEF Init, InitParser, ParserOK
<1>4. DecoderOK
  BY <1>1 DEF Init, InitDecoder, DecoderOK, Presentation, MaxPresentations
<1>5. at \in (0 .. MaxPresentations) \X Nat
  BY StartTypes DEF Init
<1>6. CallOK
  BY <1>5, StartTypes DEF Init, CallOK
<1>7. PlaceInv /\ ReadInv
  BY DEF Init, PlaceInv, ReadInv, InUnit
<1> QED BY <1>2, <1>3, <1>4, <1>6, <1>7 DEF BaseInv, DataOK

\* Whatever access units are pushed, and wherever they fail, every variable keeps the values the code
\* can give it: blocks are replayed only where the parser read them, and rows stay in the buffer.
THEOREM TypeCorrect == Spec => []TypeOK
<1>1. FlagsOK /\ BaseInv => TypeOK
  <2> SUFFICES ASSUME FlagsOK, BaseInv PROVE TypeOK
    OBVIOUS
  <2>1. /\ strict \in BOOLEAN /\ has_parsed_au \in BOOLEAN /\ valid \in BOOLEAN
        /\ unwritten \in BOOLEAN /\ sound \in BOOLEAN
    BY DEF FlagsOK, Flags
  <2> QED BY <2>1, Zenon DEF TypeOK, BaseInv, DataOK, ParserOK, DecoderOK, CallOK
<1> QED BY <1>1, BaseStart, BaseInvariance, FlagInvariance, PTL DEF Spec

-----------------------------------------------------------------------------
(***************************************************************************)
(* The two copies of a substream's state                                   *)
(***************************************************************************)

SameStream == d_format = p_format /\ d_samples = p_samples /\ d_substreams = p_substreams

Same(i) == d_sub[i] = p_sub[i]

\* The first block of this push was read under the state the decoder will replay it on.
FirstRead(i) == parsed[i] # << >> => parsed[i][1] = Headed(d_sub[i], BlocksOf(i)[1])

\* Substreams the decoder may come to decode: a decoder that trusts nothing yet chooses anew.
Due(i) == valid => Wanted(i)

\* While a push is parsed the parser runs ahead of the decoder, by this push only.
ParseInv ==
  pc \in {"parse", "begin decode"} =>
    /\ ~unwritten
    /\ sound /\ unit.sync = Nothing => valid /\ SameStream
    /\ sound /\ unit.sync # Nothing =>
         /\ RestartsAll(unit) /\ p_substreams = unit.sync.substreams
         /\ p_format = FormatOf(unit.sync) /\ p_samples = unit.sync.samples
         /\ valid => d_substreams = unit.sync.substreams
    /\ \A i \in Substream :
         /\ RestartsAll(unit) \/ (sound /\ Due(i)) => FirstRead(i)
         /\ sound /\ Due(i) /\ parsed[i] = << >> => Same(i)

\* While it is decoded the decoder catches up, block by block and substream by substream.
DecodeInv ==
  pc = "decode" =>
    /\ sound => SameStream
    /\ unwritten => ~sound /\ ~RestartsAll(unit)
    /\ \A i \in Substream : i > at[1] \/ (i = at[1] /\ at[2] <= 1) =>
         /\ RestartsAll(unit) \/ (sound /\ Wanted(i)) => FirstRead(i)
         /\ sound /\ Wanted(i) /\ parsed[i] = << >> => Same(i)
    /\ at[2] > 1 /\ (RestartsAll(unit) \/ sound) => d_sub[at[1]] = parsed[at[1]][at[2] - 1]
    /\ sound => \A i \in Substream : i < at[1] /\ Wanted(i) => Same(i)

\* Afterwards, and between calls, neither is ahead.
RestInv ==
  /\ pc = "deliver" /\ unwritten => ~sound /\ ~RestartsAll(unit)
  /\ pc = "deliver" /\ sound => valid
  /\ pc \in {"idle", "deliver"} /\ sound /\ valid =>
       SameStream /\ \A i \in Substream : Wanted(i) => Same(i)
  /\ pc = "idle" /\ sound /\ ~valid => ~has_parsed_au /\ d_sub = p_sub

AgreeInv == ParseInv /\ DecodeInv /\ RestInv

\* What a block with a restart header makes of a substream does not depend on what came before.
LEMMA RestartForgets ==
  ASSUME NEW b, b.restart # Nothing, NEW sub, NEW other
  PROVE  Headed(sub, b) = Headed(other, b)
BY DEF Headed, Restarted

LEMMA FailAgree ==
  ASSUME NEW error, Fail(error)
  PROVE  AgreeInv'
BY DEF Fail, Return, AgreeInv, ParseInv, DecodeInv, RestInv

\* Directories of the same length have the same number of substreams.
LEMMA SameCount ==
  ASSUME NEW a \in 1 .. MaxPresentations, NEW b \in 1 .. MaxPresentations, 0 .. a - 1 = 0 .. b - 1
  PROVE  a = b
<1>1. a - 1 \in 0 .. b - 1 /\ b - 1 \in 0 .. a - 1
  <2>1. a - 1 \in 0 .. a - 1 /\ b - 1 \in 0 .. b - 1
    BY DEF MaxPresentations
  <2> QED BY <2>1
<1> QED BY <1>1 DEF MaxPresentations

LEMMA PushAgree ==
  ASSUME BaseInv, AgreeInv, NEW au \in AccessUnits, PushContinuation(au) \/ PushMajorSync(au)
  PROVE  AgreeInv'
<1>1. CASE Fail("parse")
  BY <1>1, FailAgree
<1>2. CASE BeginParse(au)
  <2>1. pc = "idle" /\ parsed = [i \in Substream |-> << >>]
    BY DEF PushContinuation, PushMajorSync, BaseInv, PlaceInv
  <2>2. /\ pc' = "parse" /\ unit' = au /\ parsed' = parsed /\ sound' = (sound /\ WellFormed(au))
        /\ unwritten' = FALSE /\ UNCHANGED <<decoder, p_sub>>
    BY <1>2 DEF BeginParse, PushContinuation, PushMajorSync, NewCall, ParserOnly
  <2>3. sound' => sound /\ WellFormed(au)
    BY <2>2
  <2>4. \A i \in Substream : parsed'[i] = << >> /\ FirstRead(i)'
    BY <2>1, <2>2 DEF FirstRead
  <2>5. ASSUME sound', NEW i \in Substream, Due(i)' PROVE Same(i)'
    <3>1. Due(i)
      BY <2>2, <2>5 DEF Due, Wanted, decoder
    <3>2. Same(i)
      BY <2>1, <2>3, <2>5, <3>1 DEF AgreeInv, RestInv, Due, Same
    <3> QED BY <2>2, <3>2 DEF Same, decoder
  <2>6. ASSUME sound', au.sync = Nothing PROVE (valid /\ SameStream)'
    <3>1. PushContinuation(au)
      BY <2>6 DEF PushMajorSync
    <3>2. has_parsed_au
      BY <1>2, <3>1 DEF PushContinuation, BeginParse, Fail, Return
    <3>3. valid /\ SameStream
      BY <2>1, <2>3, <2>6, <3>2 DEF AgreeInv, RestInv
    <3>4. UNCHANGED <<p_format, p_samples, p_substreams>>
      BY <3>1 DEF PushContinuation
    <3> QED BY <2>2, <3>3, <3>4 DEF SameStream, decoder
  <2>7. ASSUME sound', au.sync # Nothing
        PROVE  /\ RestartsAll(au) /\ p_substreams' = au.sync.substreams
               /\ p_format' = FormatOf(au.sync) /\ p_samples' = au.sync.samples
               /\ valid' => d_substreams' = au.sync.substreams
    <3> DEFINE substreams == IF p_substreams = Nothing THEN au.sync.substreams ELSE p_substreams
    <3>1. PushMajorSync(au)
      BY <2>7 DEF PushContinuation
    <3>2. pc' # "idle"
      BY <2>2
    <3>3. /\ p_format' = FormatOf(au.sync) /\ p_samples' = au.sync.samples
          /\ p_substreams' = substreams /\ DirectoryFits(au, substreams)
      BY <3>1, <3>2 DEF PushMajorSync, Fail, Return
    <3>4. RestartsAll(au) /\ DOMAIN au.segments = 0 .. au.sync.substreams - 1
      BY <2>3, <2>7 DEF WellFormed
    <3>5. au.sync.substreams \in 1 .. MaxPresentations
      BY <2>7, UnitTypes, FormatTypes
    <3>6. substreams \in 1 .. MaxPresentations
      BY <3>5 DEF BaseInv, DataOK, ParserOK
    <3>7. substreams = au.sync.substreams
      BY <3>3, <3>4, <3>5, <3>6, SameCount DEF DirectoryFits
    <3>8. ASSUME valid PROVE d_substreams = au.sync.substreams
      <4>1. d_substreams = p_substreams
        BY <2>1, <2>3, <2>7, <3>8 DEF AgreeInv, RestInv, SameStream
      <4>2. p_substreams # Nothing
        BY <4>1, TrueHdAssumption DEF BaseInv, DataOK, DecoderOK, MaxPresentations
      <4> QED BY <3>7, <4>1, <4>2
    <3> QED BY <2>2, <3>3, <3>4, <3>7, <3>8 DEF decoder
  <2> QED BY <2>2, <2>4, <2>5, <2>6, <2>7 DEF AgreeInv, ParseInv, DecodeInv, RestInv
<1> QED BY <1>1, <1>2 DEF PushContinuation, PushMajorSync

\* Steps of the parser that read no block.
LEMMA ParseAgree ==
  ASSUME BaseInv, AgreeInv, SkipSegment \/ EndSegment \/ EndParse
  PROVE  AgreeInv'
<1>1. CASE Fail("parse")
  BY <1>1, FailAgree
<1>2. CASE ~Fail("parse")
  <2>1. /\ pc = "parse" /\ pc' \in {"parse", "begin decode"}
        /\ UNCHANGED <<p_substreams, p_format, p_mask, p_samples, p_sub, decoder, unit, parsed,
                       unwritten, sound>>
    BY <1>2 DEF SkipSegment, EndSegment, EndParse, InSegment, parser, output
  <2>2. ParseInv'
    <3>1. \A i \in Substream : (FirstRead(i)' <=> FirstRead(i)) /\ (Due(i)' <=> Due(i)) /\ (Same(i)' <=> Same(i))
      BY <2>1 DEF FirstRead, Due, Same, Wanted, BlocksOf, decoder
    <3>2. SameStream' <=> SameStream
      BY <2>1 DEF SameStream, decoder
    <3> QED BY <2>1, <3>1, <3>2 DEF AgreeInv, ParseInv, decoder
  <2> QED BY <2>1, <2>2 DEF AgreeInv, DecodeInv, RestInv
<1> QED BY <1>1, <1>2

\* The first block of a substream is read on the state the decoder has, or restarts it.
LEMMA ParseBlockAgree ==
  ASSUME BaseInv, AgreeInv, ParseBlock
  PROVE  AgreeInv'
<1>0. PICK i : i = at[1]
  OBVIOUS
<1> DEFINE read == ReadUnder(p_sub[i], block)
<1>1. CASE ~Readable(block)
  BY <1>1, FailAgree DEF ParseBlock
<1>2. CASE Readable(block)
  <2>1. pc = "parse" /\ InUnit /\ i \in DOMAIN unit.segments /\ at[2] \in DOMAIN segment.blocks
    BY <1>0 DEF ParseBlock, InSegment, InUnit
  <2>2. i \in Substream /\ block = BlocksOf(i)[at[2]]
    BY <1>0, <2>1, BlockTypes
  <2>3. /\ parsed' = [parsed EXCEPT ![i] = Append(@, read)] /\ p_sub' = [p_sub EXCEPT ![i] = read]
        /\ UNCHANGED <<pc, unit, sound, unwritten, decoder, p_substreams, p_format, p_samples>>
    BY <1>0, <1>2 DEF ParseBlock, output, ParserOnly
  <2>4. read = Headed(p_sub[i], block)
    BY <1>2 DEF ReadUnder, Readable
  <2> HIDE DEF read
  <2>5. parsed \in [Substream -> Seq(SubstreamState)] /\ at[2] = Len(parsed[i]) + 1
    BY <1>0, <2>1, <2>2 DEF BaseInv, DataOK, CallOK, PlaceInv
  <2>6. /\ parsed'[i] = Append(parsed[i], read)
        /\ \A j \in Substream \ {i} : parsed'[j] = parsed[j] /\ p_sub'[j] = p_sub[j]
    BY <2>2, <2>3, <2>5 DEF BaseInv, DataOK, ParserOK
  <2>7. parsed'[i] # << >>
    BY <2>2, <2>5, <2>6
  <2>8. \A j \in Substream : Due(j)' <=> Due(j)
    BY <2>3 DEF Due, Wanted, decoder
  <2>9. ASSUME RestartsAll(unit) \/ (sound /\ Due(i)) PROVE FirstRead(i)'
    <3>1. CASE parsed[i] = << >>
      <4>1. parsed'[i][1] = read /\ at[2] = 1
        BY <2>2, <2>5, <2>6, <3>1
      <4>2. read = Headed(d_sub[i], block)
        <5>1. CASE RestartsAll(unit)
          <6>1. block.restart # Nothing
            BY <2>1, <2>2, <4>1, <5>1 DEF RestartsAll, BlocksOf
          <6> QED BY <2>4, <6>1, RestartForgets
        <5>2. CASE sound /\ Due(i)
          <6>1. Same(i)
            BY <2>1, <2>2, <3>1, <5>2 DEF AgreeInv, ParseInv
          <6> QED BY <2>4, <6>1 DEF Same
        <5> QED BY <2>9, <5>1, <5>2
      <4> QED BY <2>2, <2>3, <4>1, <4>2 DEF FirstRead, BlocksOf, decoder
    <3>2. CASE parsed[i] # << >>
      <4>1. parsed[i][1] = Headed(d_sub[i], BlocksOf(i)[1])
        BY <2>1, <2>2, <2>9, <3>2 DEF AgreeInv, ParseInv, FirstRead
      <4>2. parsed'[i][1] = parsed[i][1]
        BY <2>2, <2>5, <2>6, <3>2
      <4> QED BY <2>3, <4>1, <4>2 DEF FirstRead, BlocksOf, decoder
    <3> QED BY <3>1, <3>2
  <2>10. \A j \in Substream \ {i} : (FirstRead(j)' <=> FirstRead(j)) /\ (Same(j)' <=> Same(j))
    BY <2>3, <2>6 DEF FirstRead, Same, BlocksOf, decoder
  <2>11. SameStream' <=> SameStream
    BY <2>3 DEF SameStream, decoder
  <2>12. \A j \in Substream :
           /\ RestartsAll(unit') \/ (sound' /\ Due(j)') => FirstRead(j)'
           /\ sound' /\ Due(j)' /\ parsed'[j] = << >> => Same(j)'
    <3> SUFFICES ASSUME NEW j \in Substream
                 PROVE  /\ RestartsAll(unit') \/ (sound' /\ Due(j)') => FirstRead(j)'
                        /\ sound' /\ Due(j)' /\ parsed'[j] = << >> => Same(j)'
      OBVIOUS
    <3>1. /\ RestartsAll(unit) \/ (sound /\ Due(j)) => FirstRead(j)
          /\ sound /\ Due(j) /\ parsed[j] = << >> => Same(j)
      BY <2>1 DEF AgreeInv, ParseInv
    <3>2. CASE j = i
      BY <2>3, <2>7, <2>8, <2>9, <3>2
    <3>3. CASE j # i
      BY <2>3, <2>6, <2>8, <2>10, <3>1, <3>3
    <3> QED BY <3>2, <3>3
  <2>13. ParseInv'
    BY <2>1, <2>3, <2>11, <2>12 DEF AgreeInv, ParseInv, decoder
  <2> QED BY <2>1, <2>3, <2>13 DEF AgreeInv, DecodeInv, RestInv
<1> QED BY <1>1, <1>2

\* A decoder that trusts its choice keeps the mask, so the substreams that were due stay due.
LEMMA BeginDecodeAgree ==
  ASSUME BaseInv, AgreeInv, BeginDecode
  PROVE  AgreeInv'
<1> DEFINE sync == unit.sync
<1>1. CASE Fail("no presentation map")
  BY <1>1, FailAgree
<1>2. CASE pc' = "decode" /\ at' = <<0, 0>> /\ UNCHANGED <<unit, parsed, sample_len, result, sound>>
  <2>1. /\ pc = "begin decode" /\ valid' = Trusted(sync) /\ at'[1] = 0 /\ at'[2] = 0
        /\ UNCHANGED <<p_substreams, p_format, p_mask, p_samples, p_sub, d_sub, unwritten>>
    BY <1>2 DEF BeginDecode, parser, output
  <2>2. ~unwritten
    BY <2>1 DEF AgreeInv, ParseInv
  <2>3. sound => SameStream'
    <3>1. CASE sync = Nothing
      BY <2>1, <3>1 DEF AgreeInv, ParseInv, BeginDecode, SameStream
    <3>2. CASE sync # Nothing
      BY <2>1, <3>2 DEF AgreeInv, ParseInv, BeginDecode, SameStream
    <3> QED BY <3>1, <3>2
  <2>4. ASSUME sound, NEW i \in Substream, Wanted(i)' PROVE Due(i)
    <3>1. CASE valid
      <4>1. Trusted(sync)
        BY <2>1, <2>4, <3>1 DEF Trusted, AgreeInv, ParseInv
      <4>2. UNCHANGED <<presentation, d_mask>>
        BY <4>1 DEF BeginDecode
      <4> QED BY <2>4, <4>2 DEF Wanted, Due
    <3>2. CASE ~valid
      BY <3>2 DEF Due
    <3> QED BY <3>1, <3>2
  <2>5. \A i \in Substream : (FirstRead(i)' <=> FirstRead(i)) /\ (Same(i)' <=> Same(i))
    BY <1>2, <2>1 DEF FirstRead, Same, BlocksOf
  <2>6. ASSUME NEW i \in Substream
        PROVE  /\ RestartsAll(unit') \/ (sound' /\ Wanted(i)') => FirstRead(i)'
               /\ sound' /\ Wanted(i)' /\ parsed'[i] = << >> => Same(i)'
    <3>1. /\ RestartsAll(unit) \/ (sound /\ Due(i)) => FirstRead(i)
          /\ sound /\ Due(i) /\ parsed[i] = << >> => Same(i)
      BY <2>1 DEF AgreeInv, ParseInv
    <3> QED BY <1>2, <2>4, <2>5, <3>1
  <2>7. (\A i \in Substream : ~(i < at'[1])) /\ ~(at'[2] > 1)
    <3>1. \A i \in Substream : ~(i < 0)
      BY DEF Substream, MaxPresentations
    <3>2. ~(0 > 1)
      OBVIOUS
    <3> QED BY <2>1, <3>1, <3>2, Zenon
  <2>8. DecodeInv'
    BY <1>2, <2>1, <2>2, <2>3, <2>6, <2>7, Zenon DEF DecodeInv
  <2> QED BY <1>2, <2>8 DEF AgreeInv, ParseInv, RestInv
<1> QED BY <1>1, <1>2 DEF BeginDecode

LEMMA SkipSubstreamAgree ==
  ASSUME BaseInv, AgreeInv, SkipSubstream
  PROVE  AgreeInv'
<1>1. /\ pc = "decode" /\ at[1] \in Nat /\ at' = <<at[1] + 1, 0>> /\ ~Wanted(at[1])
      /\ UNCHANGED <<parser, decoder, pc, unit, parsed, output, sound>>
  <2>1. at \in (0 .. MaxPresentations) \X Nat
    BY DEF BaseInv, DataOK, CallOK
  <2> QED BY <2>1 DEF SkipSubstream, MaxPresentations
<1>2. \A i \in Substream : /\ FirstRead(i)' <=> FirstRead(i)
                           /\ Same(i)' <=> Same(i)
                           /\ Wanted(i)' <=> Wanted(i)
  BY <1>1 DEF FirstRead, Same, Wanted, BlocksOf, parser, decoder
<1>3. SameStream' <=> SameStream
  BY <1>1 DEF SameStream, parser, decoder
<1>4. unwritten' = unwritten
  BY <1>1 DEF output
<1>5. at'[1] = at[1] + 1 /\ at'[2] = 0
  BY <1>1
<1>6. ASSUME NEW i \in Substream, i > at'[1] \/ (i = at'[1] /\ at'[2] <= 1)
      PROVE  /\ RestartsAll(unit') \/ (sound' /\ Wanted(i)') => FirstRead(i)'
             /\ sound' /\ Wanted(i)' /\ parsed'[i] = << >> => Same(i)'
  <2>1. i > at[1]
    BY <1>1, <1>5, <1>6 DEF Substream
  <2>2. /\ RestartsAll(unit) \/ (sound /\ Wanted(i)) => FirstRead(i)
        /\ sound /\ Wanted(i) /\ parsed[i] = << >> => Same(i)
    BY <1>1, <2>1 DEF AgreeInv, DecodeInv
  <2> QED BY <1>1, <1>2, <2>2
<1>7. ASSUME sound, NEW i \in Substream, i < at'[1], Wanted(i)' PROVE Same(i)'
  <2>1. Wanted(i)
    BY <1>2, <1>7
  <2>2. i < at[1]
    BY <1>1, <1>5, <1>7, <2>1 DEF Substream
  <2> QED BY <1>1, <1>2, <1>7, <2>1, <2>2 DEF AgreeInv, DecodeInv
<1>8. DecodeInv'
  BY <1>1, <1>3, <1>4, <1>5, <1>6, <1>7 DEF AgreeInv, DecodeInv
<1> QED BY <1>1, <1>8 DEF AgreeInv, ParseInv, RestInv

LEMMA BeginSubstreamAgree ==
  ASSUME BaseInv, AgreeInv, BeginSubstream
  PROVE  AgreeInv'
<1>1. CASE Fail("decode")
  BY <1>1, FailAgree
<1>2. CASE at' = <<at[1], 1>> /\ sample_len' = 0 /\ UNCHANGED <<pc, unit, parsed, result, sound>>
  <2>1. /\ pc = "decode" /\ at[2] = 0 /\ at'[1] = at[1] /\ at'[2] = 1
        /\ UNCHANGED <<parser, valid, d_substreams, d_format, d_mask, presentation, d_samples, d_sub,
                       unwritten>>
    BY <1>2 DEF BeginSubstream, output
  <2>2. \A i \in Substream : /\ FirstRead(i)' <=> FirstRead(i)
                             /\ Same(i)' <=> Same(i)
                             /\ Wanted(i)' <=> Wanted(i)
    BY <1>2, <2>1 DEF FirstRead, Same, Wanted, BlocksOf, parser
  <2>3. SameStream' <=> SameStream
    BY <2>1 DEF SameStream, parser
  <2>4. DecodeInv'
    BY <1>2, <2>1, <2>2, <2>3 DEF AgreeInv, DecodeInv
  <2> QED BY <1>2, <2>1, <2>4 DEF AgreeInv, ParseInv, RestInv
<1> QED BY <1>1, <1>2 DEF BeginSubstream

\* Where the copies agree, the decoder replays a block on the very state it was read under.
LEMMA DecodeBlockAgree ==
  ASSUME BaseInv, AgreeInv, DecodeBlock
  PROVE  AgreeInv'
<1>0. PICK i : i = at[1]
  OBVIOUS
<1> DEFINE sub == Replayed(d_sub[i], block)
           k == at[2]
<1>1. CASE Fail("decode")
  BY <1>1, FailAgree
<1>2. CASE ~Fail("decode")
  <2>1. /\ at' = <<i, k + 1>> /\ d_sub' = [d_sub EXCEPT ![i] = sub]
        /\ unwritten' = (unwritten \/ Unwritten(sub, parsed[i][k]))
        /\ UNCHANGED <<parser, pc, unit, parsed, sound, d_format, d_samples, d_substreams, d_mask,
                       presentation>>
    BY <1>0, <1>2 DEF DecodeBlock
  <2>2. pc = "decode" /\ InUnit /\ i \in Substream /\ k \in DOMAIN parsed[i]
    BY <1>0 DEF DecodeBlock, InBlocks, InUnit
  <2>3. /\ parsed[i] \in Seq(SubstreamState) /\ d_sub \in [Substream -> SubstreamState]
        /\ parser' = parser
    BY <2>1, <2>2 DEF BaseInv, DataOK, DecoderOK, CallOK
  <2>4. k \in 1 .. Len(parsed[i]) /\ Len(parsed[i]) \in Nat
    BY <2>2, <2>3
  <2>5. Wanted(i)
    BY <1>0, <2>2, <2>4 DEF BaseInv, PlaceInv
  <2>6. block = BlocksOf(i)[k]
    BY <1>0 DEF block, segment, BlocksOf
  <2>7. ASSUME RestartsAll(unit) \/ sound PROVE parsed[i][k] = sub
    <3>1. CASE k = 1
      <4>1. FirstRead(i)
        BY <1>0, <2>2, <2>5, <2>7, <3>1 DEF AgreeInv, DecodeInv
      <4> QED BY <2>4, <2>6, <3>1, <4>1 DEF FirstRead, Replayed
    <3>2. CASE k # 1
      <4>1. k > 1 /\ k \in 2 .. Len(parsed[i]) /\ parsed[i] # << >>
        BY <2>4, <3>2
      <4>2. d_sub[i] = parsed[i][k - 1]
        BY <1>0, <2>2, <2>7, <4>1 DEF AgreeInv, DecodeInv
      <4>3. parsed[i][k] = Headed(parsed[i][k - 1], BlocksOf(i)[k])
        BY <2>2, <4>1 DEF BaseInv, ReadInv
      <4> QED BY <2>6, <4>2, <4>3 DEF Replayed
    <3> QED BY <3>1, <3>2
  <2> HIDE DEF sub
  <2>8. RestartsAll(unit) \/ sound => ~Unwritten(sub, parsed[i][k])
    <3> SUFFICES ASSUME RestartsAll(unit) \/ sound PROVE ~Unwritten(sub, parsed[i][k])
      OBVIOUS
    <3>1. sub = parsed[i][k] /\ sub \in SubstreamState
      BY <2>3, <2>4, <2>7
    <3> QED BY <3>1 DEF Unwritten, SubstreamState
  <2>9. unwritten' => ~sound /\ ~RestartsAll(unit)
    BY <2>1, <2>2, <2>8 DEF AgreeInv, DecodeInv
  <2>10. /\ d_sub'[i] = sub
         /\ \A j \in Substream \ {i} : d_sub'[j] = d_sub[j]
    BY <2>1, <2>2, <2>3
  <2>11. \A j \in Substream \ {i} : /\ FirstRead(j)' <=> FirstRead(j)
                                    /\ Same(j)' <=> Same(j)
    BY <2>1, <2>10 DEF FirstRead, Same, BlocksOf, parser
  <2>12. \A j \in Substream : Wanted(j)' <=> Wanted(j)
    BY <2>1 DEF Wanted
  <2>13. at'[1] = i /\ at'[2] = k + 1 /\ k + 1 > 1 /\ ~(k + 1 <= 1)
    BY <2>1, <2>4
  <2>14. ASSUME NEW j \in Substream, j > i
         PROVE  /\ RestartsAll(unit) \/ (sound /\ Wanted(j)') => FirstRead(j)'
                /\ sound /\ Wanted(j)' /\ parsed'[j] = << >> => Same(j)'
    <3>1. j # i
      BY <2>2, <2>14 DEF Substream
    <3>2. /\ RestartsAll(unit) \/ (sound /\ Wanted(j)) => FirstRead(j)
          /\ sound /\ Wanted(j) /\ parsed[j] = << >> => Same(j)
      BY <1>0, <2>2, <2>14 DEF AgreeInv, DecodeInv
    <3> QED BY <2>1, <2>11, <2>12, <3>1, <3>2
  <2>15. ASSUME sound, NEW j \in Substream, j < i, Wanted(j)' PROVE Same(j)'
    <3>1. j # i
      BY <2>2, <2>15 DEF Substream
    <3>2. Same(j)
      BY <1>0, <2>2, <2>12, <2>15 DEF AgreeInv, DecodeInv
    <3> QED BY <2>11, <3>1, <3>2
  <2>16. RestartsAll(unit) \/ sound => d_sub'[at'[1]] = parsed'[at'[1]][at'[2] - 1]
    <3>1. at'[2] - 1 = k
      BY <2>4, <2>13
    <3> QED BY <2>1, <2>7, <2>10, <2>13, <3>1
  <2>17. sound => SameStream'
    BY <2>1, <2>2 DEF AgreeInv, DecodeInv, SameStream, parser
  <2>18. DecodeInv'
    <3>1. /\ \A j \in Substream : j > at'[1] \/ (j = at'[1] /\ at'[2] <= 1) => j > i
          /\ \A j \in Substream : j < at'[1] => j < i
      BY <2>13
    <3> QED BY <2>1, <2>9, <2>14, <2>15, <2>16, <2>17, <3>1, Zenon DEF DecodeInv
  <2> QED BY <2>1, <2>2, <2>18 DEF AgreeInv, ParseInv, RestInv
<1> QED BY <1>1, <1>2

\* A substream without blocks kept its state, and one with blocks has come to the parser's.
LEMMA EndSubstreamAgree ==
  ASSUME BaseInv, AgreeInv, EndSubstream
  PROVE  AgreeInv'
<1>0. PICK i : i = at[1]
  OBVIOUS
<1>1. /\ pc = "decode" /\ InUnit /\ i \in Substream /\ at[2] = Len(parsed[i]) + 1 /\ at' = <<i + 1, 0>>
      /\ UNCHANGED <<parser, decoder, pc, unit, parsed, output, sound>>
  BY <1>0 DEF EndSubstream, InUnit
<1>2. \A j \in Substream : /\ FirstRead(j)' <=> FirstRead(j)
                           /\ Same(j)' <=> Same(j)
                           /\ Wanted(j)' <=> Wanted(j)
  BY <1>1 DEF FirstRead, Same, Wanted, BlocksOf, parser, decoder
<1>3. SameStream' <=> SameStream
  BY <1>1 DEF SameStream, parser, decoder
<1>4. unwritten' = unwritten
  BY <1>1 DEF output
<1>5. at'[1] = i + 1 /\ at'[2] = 0
  BY <1>1
<1>6. parsed[i] \in Seq(SubstreamState) /\ i \in Nat
  <2>1. parsed[i] \in Seq(SubstreamState)
    BY <1>1 DEF BaseInv, DataOK, CallOK
  <2> QED BY <1>1, <2>1 DEF Substream, MaxPresentations
<1>7. ASSUME sound PROVE Same(i)
  <2>1. Wanted(i)
    BY <1>0, <1>1, <1>6 DEF BaseInv, PlaceInv
  <2>2. CASE parsed[i] = << >>
    <3>1. at[2] <= 1
      BY <1>1, <2>2
    <3> QED BY <1>0, <1>1, <1>7, <2>1, <2>2, <3>1 DEF AgreeInv, DecodeInv
  <2>3. CASE parsed[i] # << >>
    <3>1. at[2] > 1 /\ at[2] - 1 = Len(parsed[i])
      BY <1>1, <1>6, <2>3
    <3>2. d_sub[i] = parsed[i][at[2] - 1]
      BY <1>0, <1>1, <1>7, <3>1 DEF AgreeInv, DecodeInv
    <3>3. p_sub[i] = parsed[i][Len(parsed[i])]
      BY <1>1, <2>3 DEF BaseInv, ReadInv
    <3> QED BY <3>1, <3>2, <3>3 DEF Same
  <2> QED BY <2>2, <2>3
<1>8. ASSUME NEW j \in Substream, j > at'[1] \/ (j = at'[1] /\ at'[2] <= 1)
      PROVE  /\ RestartsAll(unit') \/ (sound' /\ Wanted(j)') => FirstRead(j)'
             /\ sound' /\ Wanted(j)' /\ parsed'[j] = << >> => Same(j)'
  <2>1. j > at[1]
    BY <1>0, <1>5, <1>6, <1>8 DEF Substream
  <2>2. /\ RestartsAll(unit) \/ (sound /\ Wanted(j)) => FirstRead(j)
        /\ sound /\ Wanted(j) /\ parsed[j] = << >> => Same(j)
    BY <1>1, <2>1 DEF AgreeInv, DecodeInv
  <2> QED BY <1>1, <1>2, <2>2
<1>9. ASSUME sound, NEW j \in Substream, j < at'[1], Wanted(j)' PROVE Same(j)'
  <2>1. CASE j = i
    BY <1>2, <1>7, <1>9, <2>1
  <2>2. CASE j # i
    <3>1. j < at[1] /\ Wanted(j)
      BY <1>0, <1>2, <1>5, <1>6, <1>9, <2>2 DEF Substream
    <3> QED BY <1>1, <1>2, <1>9, <3>1 DEF AgreeInv, DecodeInv
  <2> QED BY <2>1, <2>2
<1>10. DecodeInv'
  BY <1>1, <1>3, <1>4, <1>5, <1>8, <1>9 DEF AgreeInv, DecodeInv
<1> QED BY <1>1, <1>10 DEF AgreeInv, ParseInv, RestInv

LEMMA EndAgree ==
  ASSUME BaseInv, AgreeInv, EndDecode \/ Deliver
  PROVE  AgreeInv'
<1>1. CASE EndDecode
  <2>1. /\ pc = "decode" /\ pc' = "deliver" /\ valid' = TRUE /\ at[1] > presentation
        /\ UNCHANGED <<parser, d_substreams, d_format, d_mask, presentation, d_samples, d_sub, unit,
                       unwritten, sound>>
    BY <1>1 DEF EndDecode, output
  <2>2. \A i \in Substream : Wanted(i) => i < at[1]
    <3>1. at \in (0 .. MaxPresentations) \X Nat /\ presentation \in Presentation
      BY DEF BaseInv, DataOK, DecoderOK, CallOK
    <3>2. at[1] \in Int /\ presentation \in Int
      BY <3>1 DEF Presentation, MaxPresentations
    <3> QED BY <2>1, <3>2 DEF Wanted, Substream, MaxPresentations
  <2>3. sound => SameStream /\ \A i \in Substream : Wanted(i) => Same(i)
    BY <2>1, <2>2 DEF AgreeInv, DecodeInv
  <2>4. (SameStream' <=> SameStream)
        /\ \A i \in Substream : (Wanted(i)' <=> Wanted(i)) /\ (Same(i)' <=> Same(i))
    BY <2>1 DEF SameStream, Wanted, Same, parser
  <2>5. RestInv'
    BY <2>1, <2>3, <2>4 DEF AgreeInv, DecodeInv, RestInv
  <2> QED BY <2>1, <2>5 DEF AgreeInv, ParseInv, DecodeInv
<1>2. CASE Deliver
  <2>1. pc = "deliver" /\ pc' \in {"idle", "panicked"} /\ UNCHANGED <<parser, decoder, sound>>
    BY <1>2 DEF Deliver, Return
  <2>2. (SameStream' <=> SameStream)
        /\ \A i \in Substream : (Wanted(i)' <=> Wanted(i)) /\ (Same(i)' <=> Same(i))
    BY <2>1 DEF SameStream, Wanted, Same, parser, decoder
  <2>3. valid' = valid
    BY <2>1 DEF decoder
  <2> QED BY <2>1, <2>2, <2>3 DEF AgreeInv, ParseInv, DecodeInv, RestInv
<1> QED BY <1>1, <1>2

LEMMA RestAgree ==
  ASSUME BaseInv, AgreeInv, FailLosslessCheck \/ SetFailLevel \/ Reset \/ UNCHANGED vars
  PROVE  AgreeInv'
<1>1. CASE FailLosslessCheck
  BY <1>1, FailAgree DEF FailLosslessCheck
<1>2. CASE SetFailLevel \/ UNCHANGED vars
  <2>1. UNCHANGED <<has_parsed_au, p_substreams, p_format, p_samples, p_sub, decoder, pc, unit, at, parsed,
                    unwritten, sound>>
    BY <1>2 DEF SetFailLevel, vars, parser, call, output
  <2>2. SameStream' <=> SameStream
    BY <2>1 DEF SameStream, decoder
  <2>3. \A i \in Substream : /\ FirstRead(i)' <=> FirstRead(i)
                             /\ Same(i)' <=> Same(i)
                             /\ Wanted(i)' <=> Wanted(i)
                             /\ Due(i)' <=> Due(i)
    BY <2>1 DEF FirstRead, Same, Wanted, Due, BlocksOf, decoder
  <2>4. UNCHANGED <<valid, d_substreams, d_sub>>
    BY <2>1 DEF decoder
  <2>5. ParseInv'
    BY <2>1, <2>2, <2>3, <2>4 DEF AgreeInv, ParseInv
  <2>6. DecodeInv'
    BY <2>1, <2>2, <2>3, <2>4 DEF AgreeInv, DecodeInv
  <2>7. RestInv'
    BY <2>1, <2>2, <2>3, <2>4 DEF AgreeInv, RestInv
  <2> QED BY <2>5, <2>6, <2>7 DEF AgreeInv
<1>3. CASE Reset
  <2>1. pc' = "idle" /\ valid' = FALSE /\ has_parsed_au' = FALSE /\ d_sub' = p_sub'
    BY <1>3 DEF Reset, Return
  <2> QED BY <2>1 DEF AgreeInv, ParseInv, DecodeInv, RestInv
<1> QED BY <1>1, <1>2, <1>3

LEMMA AgreeInvariance == BaseInv /\ AgreeInv /\ [Next]_vars => AgreeInv'
<1> SUFFICES ASSUME BaseInv, AgreeInv, [Next]_vars PROVE AgreeInv'
  OBVIOUS
<1>1. CASE \E au \in AccessUnits : PushContinuation(au) \/ PushMajorSync(au)
  BY <1>1, PushAgree
<1>2. CASE SkipSegment \/ ParseBlock \/ EndSegment \/ EndParse
  BY <1>2, ParseAgree, ParseBlockAgree
<1>3. CASE BeginDecode \/ SkipSubstream \/ BeginSubstream \/ DecodeBlock \/ EndSubstream
  BY <1>3, BeginDecodeAgree, SkipSubstreamAgree, BeginSubstreamAgree, DecodeBlockAgree, EndSubstreamAgree
<1>4. CASE EndDecode \/ Deliver
  BY <1>4, EndAgree
<1>5. CASE FailLosslessCheck \/ SetFailLevel \/ Reset \/ UNCHANGED vars
  BY <1>5, RestAgree
<1> QED BY <1>1, <1>2, <1>3, <1>4, <1>5 DEF Next

LEMMA AgreeStart == Init => AgreeInv
BY DEF Init, InitParser, InitDecoder, AgreeInv, ParseInv, DecodeInv, RestInv

\* Between calls the parser's copy of the stream and the decoder's are the same wherever they matter,
\* as long as no push failed.
THEOREM CopiesAlwaysAgree == Spec => []CopiesAgree
<1>1. AgreeInv => CopiesAgree
  BY DEF AgreeInv, RestInv, SameStream, Same, CopiesAgree
<1> QED BY <1>1, BaseStart, AgreeStart, BaseInvariance, AgreeInvariance, PTL DEF Spec

\* A sample that was not written is only ever queried after a failed push, and never while decoding an
\* access unit with a restart header in every substream, whatever failed before it.
THEOREM RestartAlwaysHeals == Spec => []RestartHeals
<1>1. AgreeInv => RestartHeals
  BY DEF AgreeInv, DecodeInv, RestInv, RestartHeals
<1> QED BY <1>1, BaseStart, AgreeStart, BaseInvariance, AgreeInvariance, PTL DEF Spec

-----------------------------------------------------------------------------
(***************************************************************************)
(* The clock of the parser: after a seamless branch a stream that goes on  *)
(* is not taken for another branch.                                        *)
(***************************************************************************)
(* Timings count modulo Wrap, sample counts modulo a multiple of it. *)

Congruent(a, b) == \E k \in Int : a = b + k * Wrap

LEMMA Sizes == Wrap \in Nat \ {0} /\ Size \in Nat \ {0} /\ Spa \in Nat /\ Window \in Nat
  BY ClockAssumption

LEMMA ModCongruent ==
  ASSUME NEW a \in Int
  PROVE  a % Wrap \in 0 .. Wrap - 1 /\ Congruent(a % Wrap, a)
<1>1. a % Wrap \in 0 .. Wrap - 1 /\ a \div Wrap \in Int /\ a = (a \div Wrap) * Wrap + (a % Wrap)
  BY Sizes, SMTT(30)
<1>2. -(a \div Wrap) \in Int /\ a % Wrap = a + (-(a \div Wrap)) * Wrap
  BY <1>1, Sizes, SMTT(30)
<1> QED BY <1>1, <1>2 DEF Congruent

LEMMA ModInt == \A a \in Int : a % Wrap \in Int /\ Congruent(a % Wrap, a)
<1> TAKE a \in Int
<1>1. a % Wrap \in 0 .. Wrap - 1 /\ Congruent(a % Wrap, a)
  BY ModCongruent
<1> QED BY <1>1, Sizes

LEMMA CongruentEqual ==
  ASSUME NEW a \in 0 .. Wrap - 1, NEW b \in 0 .. Wrap - 1, Congruent(a, b)
  PROVE  a = b
<1>1. PICK k \in Int : a = b + k * Wrap
  BY DEF Congruent
<1>2. CASE k > 0
  <2>1. k * Wrap >= Wrap
    BY <1>2, Sizes, SMTT(30)
  <2> QED BY <1>1, <2>1, Sizes
<1>3. CASE k < 0
  <2>1. k * Wrap <= -Wrap
    BY <1>3, Sizes, SMTT(30)
  <2> QED BY <1>1, <2>1, Sizes
<1>4. CASE k = 0
  BY <1>1, <1>4, Sizes
<1> QED BY <1>2, <1>3, <1>4

LEMMA CongruentSum ==
  ASSUME NEW a \in Int, NEW b \in Int, NEW c \in Int, NEW d \in Int, Congruent(a, b), Congruent(c, d)
  PROVE  Congruent(a + c, b + d) /\ Congruent(a - c, b - d)
<1>1. PICK k \in Int, l \in Int : a = b + k * Wrap /\ c = d + l * Wrap
  BY DEF Congruent
<1>2. a + c = (b + d) + (k + l) * Wrap /\ a - c = (b - d) + (k - l) * Wrap
  BY <1>1, Sizes, SMTT(30)
<1> QED BY <1>2 DEF Congruent

LEMMA CongruentTo ==
  ASSUME NEW a \in Int, NEW b \in Int, Congruent(a, b)
  PROVE  Congruent(b, a) /\ \A c \in Int : Congruent(b, c) => Congruent(a, c)
<1>1. PICK k \in Int : a = b + k * Wrap
  BY DEF Congruent
<1>2. b = a + (-k) * Wrap
  BY <1>1, Sizes, SMTT(30)
<1>3. ASSUME NEW c \in Int, Congruent(b, c) PROVE Congruent(a, c)
  <2>1. PICK l \in Int : b = c + l * Wrap
    BY <1>3 DEF Congruent
  <2>2. a = c + (l + k) * Wrap
    BY <1>1, <2>1, Sizes, SMTT(30)
  <2> QED BY <2>2 DEF Congruent
<1> QED BY <1>2, <1>3 DEF Congruent

LEMMA CongruentSelf == \A a \in Int : Congruent(a, a) /\ Congruent(a + Wrap, a)
<1> TAKE a \in Int
<1>1. a = a + 0 * Wrap /\ a + Wrap = a + 1 * Wrap
  BY Sizes
<1> QED BY <1>1 DEF Congruent

LEMMA SizeCongruent ==
  ASSUME NEW a \in Int
  PROVE  a % Size \in 0 .. Size - 1 /\ Congruent(a % Size, a)
<1>1. a % Size \in 0 .. Size - 1 /\ a \div Size \in Int /\ a = (a \div Size) * Size + (a % Size)
  BY Sizes, SMTT(30)
<1>2. PICK m \in Int : Size = m * Wrap
  <2>1. Size \div Wrap \in Int /\ Size = (Size \div Wrap) * Wrap + (Size % Wrap) /\ Size % Wrap = 0
    BY Sizes, ClockAssumption, SMTT(30)
  <2> DEFINE whole == Size \div Wrap
  <2> HIDE DEF whole
  <2>2. whole \in Int /\ Size = whole * Wrap
    <3>1. whole * Wrap \in Int
      BY <2>1, Sizes DEF whole
    <3> QED BY <2>1, <3>1 DEF whole
  <2> QED BY <2>2
<1> DEFINE q == a \div Size
<1>3. q \in Int /\ a = q * (m * Wrap) + (a % Size)
  BY <1>1, <1>2
<1> HIDE DEF q
<1>4. (-(q * m)) \in Int /\ a % Size = a + (-(q * m)) * Wrap
  BY <1>1, <1>3, Sizes, SMTT(30)
<1> QED BY <1>1, <1>4 DEF Congruent

-----------------------------------------------------------------------------
(* What the parts of AccessUnit::read leave alone, and what they set. *)

Clocks ==
  [parsed : BOOLEAN, counter : Nat, lastSync : Nat, layout : Layouts,
   input : Nat, prevInput : Nat, unwrapped : Int, prevUnwrapped : Int,
   output : Int, firstOutput : Int, deviation : Int, history : Int,
   advance : Int, prevAdvance : Int, fifo : Int, prevFifo : Int,
   length : Nat, prevLength : Nat, rate : Nat, prevRate : Nat,
   inputJump : BOOLEAN, outputJump : BOOLEAN, rateJump : BOOLEAN, branch : BOOLEAN]

TimedUnits ==
  [sync : BOOLEAN, input : 0 .. Wrap - 1, output : 0 .. Wrap - 1, length : Nat, rate : Nat, layout : Layouts]

LEMMA CeilDivInt == ASSUME NEW n \in Int, NEW d \in Nat \ {0} PROVE CeilDiv(n, d) \in Int
  BY SMTT(30) DEF CeilDiv

LEMMA LatchedFields ==
  ASSUME NEW c \in Clocks
  PROVE  /\ Latched(c) \in Clocks
         /\ ~c.branch =>
              /\ Latched(c).prevLength = c.length /\ Latched(c).prevAdvance = c.advance
              /\ Latched(c).prevFifo = c.fifo /\ Latched(c).prevInput = c.input
              /\ Latched(c).prevRate = c.rate
         /\ \A f \in {"parsed", "counter", "lastSync", "layout", "input", "output", "firstOutput", "deviation",
                      "history", "advance", "rate", "branch"} : Latched(c)[f] = c[f]
  BY DEF Latched, Clocks

LEMMA UnwrappedInt == ASSUME NEW c \in Clocks, NEW input \in Nat PROVE Unwrapped(c, input) \in Int
<1> DEFINE low == (input - c.deviation) % Wrap
<1>1. c.deviation \in Int /\ c.prevUnwrapped \in Int
  BY DEF Clocks
<1>2. low \in Int
  BY <1>1, Sizes, ModCongruent
<1> HIDE DEF low
<1>3. CeilDiv(c.prevUnwrapped - low, Wrap) \in Int
  BY <1>1, <1>2, Sizes, CeilDivInt
<1>4. Wrap * CeilDiv(c.prevUnwrapped - low, Wrap) \in Int
  BY <1>3, Sizes
<1> QED BY <1>1, <1>2, <1>4 DEF Unwrapped, low

LEMMA ArrivedFields ==
  ASSUME NEW c \in Clocks, NEW au \in TimedUnits
  PROVE  /\ Arrived(c, au) \in Clocks
         /\ Arrived(c, au).input = au.input /\ Arrived(c, au).length = au.length
         /\ ~Arrived(c, au).inputJump /\ ~Arrived(c, au).outputJump /\ ~Arrived(c, au).rateJump
         /\ ~c.branch =>
              /\ Arrived(c, au).prevLength = c.length /\ Arrived(c, au).prevAdvance = c.advance
              /\ Arrived(c, au).prevFifo = c.fifo /\ Arrived(c, au).prevInput = c.input
              /\ Arrived(c, au).prevRate = c.rate
         /\ \A f \in {"parsed", "counter", "lastSync", "layout", "output", "firstOutput", "deviation",
                      "history", "advance", "rate", "branch"} : Arrived(c, au)[f] = c[f]
<1> DEFINE when == Latched(c)
<1>1. when \in Clocks
  BY LatchedFields
<1>2. au.input \in Nat /\ au.length \in Nat
  BY Sizes DEF TimedUnits
<1>3. Unwrapped(when, au.input) \in Int
  BY <1>1, <1>2, UnwrappedInt
<1>4. /\ Arrived(c, au) \in Clocks
      /\ Arrived(c, au).input = au.input /\ Arrived(c, au).length = au.length
      /\ ~Arrived(c, au).inputJump /\ ~Arrived(c, au).outputJump /\ ~Arrived(c, au).rateJump
      /\ \A f \in {"parsed", "counter", "lastSync", "layout", "output", "firstOutput", "deviation",
                   "history", "advance", "rate", "branch", "prevLength", "prevAdvance", "prevFifo",
                   "prevInput", "prevRate"} : Arrived(c, au)[f] = when[f]
  <2> HIDE DEF when
  <2>1. Arrived(c, au) =
          [when EXCEPT !.input = au.input, !.unwrapped = Unwrapped(when, au.input), !.length = au.length,
                     !.inputJump = FALSE, !.outputJump = FALSE, !.rateJump = FALSE]
    BY DEF Arrived, when
  <2>2. Arrived(c, au) \in Clocks
    <3> DEFINE input == au.input
               unwrapped == Unwrapped(when, au.input)
               length == au.length
               changed == [when EXCEPT !.input = input, !.unwrapped = unwrapped, !.length = length]
    <3>1. input \in Nat /\ unwrapped \in Int /\ length \in Nat
      BY <1>2, <1>3
    <3>2. Arrived(c, au) = [changed EXCEPT !.inputJump = FALSE, !.outputJump = FALSE, !.rateJump = FALSE]
      BY <1>1, <2>1 DEF Clocks
    <3> HIDE DEF input, unwrapped, length
    <3>3. changed \in Clocks
      BY <1>1, <3>1 DEF Clocks
    <3> HIDE DEF changed
    <3> QED BY <3>2, <3>3 DEF Clocks
  <2>3. /\ Arrived(c, au).input = au.input /\ Arrived(c, au).length = au.length
        /\ ~Arrived(c, au).inputJump /\ ~Arrived(c, au).outputJump /\ ~Arrived(c, au).rateJump
    BY <1>1, <2>1 DEF Clocks
  <2>4. \A f \in {"parsed", "counter", "lastSync", "layout", "output", "firstOutput", "deviation",
                 "history", "advance", "rate", "branch", "prevLength", "prevAdvance", "prevFifo",
                 "prevInput", "prevRate"} : Arrived(c, au)[f] = when[f]
    BY <1>1, <2>1 DEF Clocks
  <2> QED BY <2>2, <2>3, <2>4
<1> QED BY <1>4, LatchedFields

LEMMA SyncedFields ==
  ASSUME NEW c \in Clocks, NEW au \in TimedUnits
  PROVE  /\ Synced(c, au) \in Clocks
         /\ Synced(c, au).rateJump = (c.parsed /\ c.rate # au.rate)
         /\ Synced(c, au).rate = au.rate /\ Synced(c, au).layout = au.layout
         /\ Synced(c, au).parsed = (c.parsed /\ c.layout = au.layout)
         /\ Synced(c, au).lastSync = c.counter
         /\ \A f \in {"counter", "input", "output", "firstOutput", "deviation", "history", "advance", "branch",
                      "length", "inputJump", "outputJump", "prevLength", "prevAdvance", "prevFifo",
                      "prevInput", "prevRate"} : Synced(c, au)[f] = c[f]
  BY DEF Synced, Clocks, TimedUnits

LEMMA CheckedFields ==
  ASSUME NEW c \in Clocks, c.rate > 0
  PROVE  /\ Checked(c) \in Clocks
         /\ Checked(c).fifo = CeilDiv(c.length, c.rate)
         /\ Checked(c).inputJump = IF c.parsed THEN InputJumps(c) ELSE c.inputJump
         /\ \A f \in DOMAIN c \ {"fifo", "inputJump"} : Checked(c)[f] = c[f]
<1> DEFINE timed == [c EXCEPT !.fifo = CeilDiv(c.length, c.rate)]
<1>1. CeilDiv(c.length, c.rate) \in Int
  BY CeilDivInt DEF Clocks
<1>2. timed \in Clocks /\ timed.fifo = CeilDiv(c.length, c.rate)
      /\ \A f \in DOMAIN c \ {"fifo"} : timed[f] = c[f]
  BY <1>1 DEF Clocks
<1>3. InputInterval(timed) = InputInterval(c)
  BY <1>2 DEF InputInterval, Clocks
<1>4. InputJumps(timed) = InputJumps(c) /\ InputJumps(c) \in BOOLEAN
  BY <1>2, <1>3 DEF InputJumps, Clocks
<1>5. Checked(c) = IF c.parsed THEN [timed EXCEPT !.inputJump = InputJumps(c)] ELSE timed
  BY <1>2, <1>4 DEF Checked, Clocks
<1> HIDE DEF timed
<1> QED BY <1>2, <1>4, <1>5 DEF Clocks

\* Only a major sync tells another rate and layout; a rate is never zero.
Fitting(c, au) == au.rate > 0 /\ (~au.sync => au.rate = c.rate /\ au.layout = c.layout)

LEMMA BeforeFields ==
  ASSUME NEW c \in Clocks, NEW au \in TimedUnits, Fitting(c, au)
  PROVE  LET b == Before(c, au) IN
         /\ b \in Clocks
         /\ b.input = au.input /\ b.length = au.length /\ b.rate = au.rate /\ b.layout = au.layout
         /\ b.parsed = (c.parsed /\ c.layout = au.layout)
         /\ b.lastSync = IF au.sync THEN c.counter ELSE c.lastSync
         /\ b.rateJump = (c.parsed /\ c.rate # au.rate)
         /\ b.fifo = CeilDiv(au.length, au.rate)
         /\ ~b.outputJump
         /\ b.inputJump = (b.parsed /\ InputJumps(b))
         /\ ~c.branch =>
              /\ b.prevLength = c.length /\ b.prevAdvance = c.advance /\ b.prevFifo = c.fifo
              /\ b.prevInput = c.input /\ b.prevRate = c.rate
         /\ b.counter = c.counter /\ b.output = c.output /\ b.firstOutput = c.firstOutput
         /\ b.deviation = c.deviation /\ b.history = c.history /\ b.advance = c.advance /\ b.branch = c.branch
<1> DEFINE a == Arrived(c, au)
           s == IF au.sync THEN Synced(a, au) ELSE a
           b == Checked(s)
<1>1. /\ a \in Clocks /\ a.input = au.input /\ a.length = au.length
      /\ ~a.inputJump /\ ~a.outputJump /\ ~a.rateJump
      /\ ~c.branch =>
           /\ a.prevLength = c.length /\ a.prevAdvance = c.advance /\ a.prevFifo = c.fifo
           /\ a.prevInput = c.input /\ a.prevRate = c.rate
      /\ a.parsed = c.parsed /\ a.counter = c.counter /\ a.lastSync = c.lastSync /\ a.layout = c.layout
      /\ a.output = c.output /\ a.firstOutput = c.firstOutput /\ a.deviation = c.deviation
      /\ a.history = c.history /\ a.advance = c.advance /\ a.rate = c.rate /\ a.branch = c.branch
  BY ArrivedFields
<1> HIDE DEF a
<1>2. /\ s \in Clocks
      /\ s.rate = au.rate /\ s.layout = au.layout
      /\ s.parsed = (c.parsed /\ c.layout = au.layout)
      /\ s.lastSync = IF au.sync THEN c.counter ELSE c.lastSync
      /\ s.rateJump = (c.parsed /\ c.rate # au.rate)
      /\ s.counter = a.counter /\ s.input = a.input /\ s.output = a.output /\ s.firstOutput = a.firstOutput
      /\ s.deviation = a.deviation /\ s.history = a.history /\ s.advance = a.advance /\ s.branch = a.branch
      /\ s.length = a.length /\ s.inputJump = a.inputJump /\ s.outputJump = a.outputJump
      /\ s.prevLength = a.prevLength /\ s.prevAdvance = a.prevAdvance /\ s.prevFifo = a.prevFifo
      /\ s.prevInput = a.prevInput /\ s.prevRate = a.prevRate
  <2>1. CASE au.sync
    BY <1>1, <2>1, SyncedFields DEF Clocks
  <2>2. CASE ~au.sync
    BY <1>1, <2>2 DEF Clocks, Fitting
  <2> QED BY <2>1, <2>2
<1> HIDE DEF s
<1>3. s.rate > 0
  BY <1>2 DEF Fitting
<1>4. /\ b \in Clocks /\ b.fifo = CeilDiv(s.length, s.rate)
      /\ b.inputJump = IF s.parsed THEN InputJumps(s) ELSE s.inputJump
      /\ b.parsed = s.parsed /\ b.counter = s.counter /\ b.lastSync = s.lastSync /\ b.layout = s.layout
      /\ b.input = s.input /\ b.prevInput = s.prevInput /\ b.unwrapped = s.unwrapped
      /\ b.prevUnwrapped = s.prevUnwrapped /\ b.output = s.output /\ b.firstOutput = s.firstOutput
      /\ b.deviation = s.deviation /\ b.history = s.history /\ b.advance = s.advance
      /\ b.prevAdvance = s.prevAdvance /\ b.prevFifo = s.prevFifo /\ b.length = s.length
      /\ b.prevLength = s.prevLength /\ b.rate = s.rate /\ b.prevRate = s.prevRate
      /\ b.outputJump = s.outputJump /\ b.rateJump = s.rateJump /\ b.branch = s.branch
  <2>1. {"parsed", "counter", "lastSync", "layout", "input", "prevInput", "unwrapped", "prevUnwrapped",
         "output", "firstOutput", "deviation", "history", "advance", "prevAdvance", "prevFifo", "length",
         "prevLength", "rate", "prevRate", "outputJump", "rateJump", "branch"}
          \subseteq DOMAIN s \ {"fifo", "inputJump"}
    BY <1>2 DEF Clocks
  <2> QED BY <1>2, <1>3, <2>1, CheckedFields
<1> HIDE DEF b
<1>5. InputJumps(b) = InputJumps(s) /\ InputJumps(b) \in BOOLEAN
  BY <1>4 DEF InputJumps, InputInterval
<1>6. b.inputJump = (b.parsed /\ InputJumps(b))
  <2>1. b.parsed = s.parsed /\ s.inputJump = a.inputJump /\ ~a.inputJump
    BY <1>1, <1>2, <1>4
  <2>2. s.parsed \in BOOLEAN /\ s.inputJump = FALSE
    BY <1>1, <1>2, <2>1 DEF Clocks
  <2>3. CASE s.parsed
    BY <1>4, <1>5, <2>1, <2>3
  <2>4. CASE ~s.parsed
    BY <1>4, <2>1, <2>2, <2>4
  <2> QED BY <2>3, <2>4
<1>7. Before(c, au) = b
  BY DEF Before, a, s, b
<1> QED BY <1>1, <1>2, <1>4, <1>6, <1>7

\* The advance a major sync tells.
Advance(b, out) == (out - Spa - b.input) % Wrap

LEMMA HeaderFields ==
  ASSUME NEW b \in Clocks, NEW au \in TimedUnits
  PROVE  LET h == HeaderRead(b, au) IN
         /\ h \in Clocks
         /\ h.input = b.input /\ h.length = b.length /\ h.rate = b.rate /\ h.layout = b.layout
         /\ h.parsed = b.parsed /\ h.lastSync = b.lastSync /\ h.fifo = b.fifo
         /\ h.counter = b.counter /\ h.history = b.history
         /\ ~au.sync =>
              /\ ~h.branch /\ h.outputJump = b.outputJump /\ h.output = b.output /\ h.advance = b.advance
              /\ h.firstOutput = b.firstOutput /\ h.deviation = b.deviation
         /\ au.sync /\ ~b.parsed =>
              /\ ~h.branch /\ h.outputJump = b.outputJump /\ h.output \in {au.output, au.output + Wrap}
              /\ h.advance = b.advance /\ h.firstOutput = au.output /\ h.deviation = b.deviation
         /\ au.sync /\ b.parsed =>
              /\ h.output = au.output /\ h.advance = Advance(b, au.output) /\ h.firstOutput = b.firstOutput
              /\ h.outputJump = (ExpectedOutput(b) # au.output)
              /\ IF h.branch
                 THEN /\ h.deviation = (au.output - b.firstOutput - b.counter * Spa) % Wrap
                      /\ b.rateJump \/ b.inputJump \/ h.outputJump
                      /\ h.advance <= (b.prevAdvance + 3 * (Spa \div 4)) % Size
                      /\ b.prevLength <= b.prevRate * ((Spa + b.prevAdvance - h.advance) % Wrap)
                 ELSE h.deviation = b.deviation
<1> DEFINE open == [b EXCEPT !.branch = FALSE]
           h == HeaderRead(b, au)
<1>1. open \in Clocks /\ ~open.branch /\ \A f \in DOMAIN b \ {"branch"} : open[f] = b[f]
  BY DEF Clocks
<1>2. au.output \in Int /\ au.output + Wrap \in Int
  BY Sizes DEF TimedUnits
<1>3. CASE ~au.sync
  <2>1. h = open
    BY <1>3 DEF HeaderRead, HeaderTimes
  <2> QED BY <1>1, <1>3, <2>1 DEF Clocks
<1>4. CASE au.sync /\ ~b.parsed
  <2>1. h = FirstOutput(open, au.output)
    BY <1>1, <1>4 DEF HeaderRead, HeaderTimes, Clocks
  <2> DEFINE from == IF au.output < open.input THEN au.output + Wrap ELSE au.output
  <2>2. h = [open EXCEPT !.firstOutput = au.output, !.output = from] /\ from \in Int
        /\ from \in {au.output, au.output + Wrap}
    BY <1>2, <2>1 DEF FirstOutput
  <2> HIDE DEF open, from, h
  <2>3. /\ h \in Clocks /\ h.firstOutput = au.output /\ h.output = from
        /\ \A f \in DOMAIN open \ {"firstOutput", "output"} : h[f] = open[f]
    BY <1>1, <1>2, <2>2 DEF Clocks
  <2>4. /\ h.input = b.input /\ h.length = b.length /\ h.rate = b.rate /\ h.layout = b.layout
        /\ h.parsed = b.parsed /\ h.lastSync = b.lastSync /\ h.fifo = b.fifo
        /\ h.counter = b.counter /\ h.history = b.history
        /\ ~h.branch /\ h.outputJump = b.outputJump /\ h.advance = b.advance /\ h.deviation = b.deviation
    BY <1>1, <2>3 DEF Clocks
  <2> QED BY <1>4, <2>2, <2>3, <2>4 DEF h
<1>5. CASE au.sync /\ b.parsed
  <2> DEFINE later == LaterOutput(open, au.output)
  <2>1. h = Judged(later)
    BY <1>1, <1>5 DEF HeaderRead, HeaderTimes, Clocks
  <2>2. Advance(open, au.output) = Advance(b, au.output) /\ ExpectedOutput(open) = ExpectedOutput(b)
    BY <1>1 DEF Advance, ExpectedOutput, Clocks
  <2>3. Advance(b, au.output) \in Int
    <3>1. au.output - Spa - b.input \in Int
      BY <1>2, Sizes DEF Clocks
    <3> QED BY <3>1, ModCongruent, Sizes DEF Advance
  <2> HIDE DEF open
  <2>4. /\ later \in Clocks /\ ~later.branch /\ later.output = au.output
        /\ later.advance = Advance(b, au.output)
        /\ later.outputJump = (ExpectedOutput(b) # au.output)
        /\ \A f \in DOMAIN b \ {"branch", "output", "advance", "outputJump"} : later[f] = b[f]
    <3> DEFINE when == [open EXCEPT !.output = au.output, !.advance = Advance(b, au.output)]
    <3>1. /\ when \in Clocks /\ ~when.branch /\ when.output = au.output /\ when.advance = Advance(b, au.output)
          /\ \A f \in DOMAIN b \ {"branch", "output", "advance"} : when[f] = b[f]
      BY <1>1, <1>2, <2>3 DEF Clocks
    <3>2. ExpectedOutput(when) = ExpectedOutput(b)
      BY <3>1 DEF ExpectedOutput, Clocks
    <3>3. later = [when EXCEPT !.outputJump = ExpectedOutput(b) # au.output]
      BY <2>2, <3>2 DEF LaterOutput, Advance
    <3> HIDE DEF when
    <3> QED BY <3>1, <3>3 DEF Clocks
  <2> HIDE DEF later
  <2>5. (later.output - later.firstOutput - later.counter * Spa) % Wrap \in Int
    <3>1. later.counter * Spa \in Int
      BY <2>4, Sizes DEF Clocks
    <3>2. later.output - later.firstOutput - later.counter * Spa \in Int
      BY <3>1, <2>4 DEF Clocks
    <3> QED BY <3>2, ModCongruent, Sizes
  <2>6. /\ h \in Clocks /\ \A f \in DOMAIN b \ {"branch", "deviation"} : h[f] = later[f]
        /\ h.branch = (HasJump(later) /\ BranchIsSeamless(later))
        /\ h.deviation = IF h.branch THEN Deviation(later) ELSE b.deviation
    <3>1. Deviation(later) \in Int
      BY <2>5 DEF Deviation
    <3>2. HasJump(later) \in BOOLEAN /\ BranchIsSeamless(later) \in BOOLEAN
      BY <2>4 DEF HasJump, BranchIsSeamless, Clocks
    <3> HIDE DEF h
    <3> QED BY <2>1, <2>4, <3>1, <3>2 DEF Judged, Clocks
  <2>7. Deviation(later) = (au.output - b.firstOutput - b.counter * Spa) % Wrap
    BY <2>4 DEF Deviation, Clocks
  <2>8. h.branch =>
          /\ b.rateJump \/ b.inputJump \/ later.outputJump
          /\ later.advance <= (b.prevAdvance + 3 * (Spa \div 4)) % Size
          /\ b.prevLength <= b.prevRate * ((Spa + b.prevAdvance - later.advance) % Wrap)
    BY <2>4, <2>6 DEF HasJump, BranchIsSeamless, SplicedInterval, Clocks
  <2> HIDE DEF h
  <2>9. /\ h.input = b.input /\ h.length = b.length /\ h.rate = b.rate /\ h.layout = b.layout
        /\ h.parsed = b.parsed /\ h.lastSync = b.lastSync /\ h.fifo = b.fifo
        /\ h.counter = b.counter /\ h.history = b.history /\ h.firstOutput = b.firstOutput
        /\ h.output = au.output /\ h.advance = Advance(b, au.output)
        /\ h.outputJump = (ExpectedOutput(b) # au.output)
        /\ h.advance = later.advance /\ h.outputJump = later.outputJump
    BY <2>4, <2>6 DEF Clocks
  <2> QED BY <1>5, <2>6, <2>7, <2>8, <2>9 DEF h
<1> QED BY <1>3, <1>4, <1>5

LEMMA BlockedFields ==
  ASSUME NEW c \in Clocks, NEW sync \in BOOLEAN
  PROVE  LET k == Blocked(c, sync) IN
         /\ k \in Clocks
         /\ \A f \in DOMAIN c \ {"advance", "history"} : k[f] = c[f]
         /\ k.advance = IF sync THEN c.advance
                        ELSE ((((c.counter - c.lastSync) * Spa + c.output - c.input) % Wrap) - Spa) % Size
         /\ k.history = IF c.parsed THEN c.history + Spa ELSE c.output
<1> DEFINE sum == (c.counter - c.lastSync) * Spa + c.output - c.input
           out == IF c.parsed THEN c.history + Spa ELSE c.output
<1>1. sum \in Int /\ out \in Int
  BY Sizes DEF Clocks
<1> HIDE DEF sum
<1>2. sum % Wrap \in Int
  BY <1>1, ModCongruent, Sizes
<1>3. ((sum % Wrap) - Spa) % Size \in Int
  BY <1>2, SizeCongruent, Sizes
<1> DEFINE late == ((sum % Wrap) - Spa) % Size
<1>4. Blocked(c, sync) = [c EXCEPT !.advance = IF sync THEN @ ELSE late, !.history = out]
  BY DEF Blocked, sum
<1> HIDE DEF late, out
<1>5. /\ Blocked(c, sync) \in Clocks
      /\ \A f \in DOMAIN c \ {"advance", "history"} : Blocked(c, sync)[f] = c[f]
      /\ Blocked(c, sync).advance = IF sync THEN c.advance ELSE late
      /\ Blocked(c, sync).history = out
  BY <1>1, <1>3, <1>4 DEF Clocks, late
<1> QED BY <1>5 DEF late, out, sum

-----------------------------------------------------------------------------
(* What one unit does to the due time, the history and the advance. *)

LEMMA PaceOn ==
  ASSUME NEW when \in Int, NEW deviation \in Int, NEW past \in Int, NEW out \in Int, NEW n \in Int, NEW last \in Int,
         Congruent(when, deviation + past + Spa), Congruent(when, out + (n - last) * Spa)
  PROVE  /\ Congruent((when + Spa) % Wrap, deviation + (past + Spa) + Spa)
         /\ Congruent((when + Spa) % Wrap, out + (n + 1 - last) * Spa)
<1>1. PICK k \in Int, l \in Int :
        when = (deviation + past + Spa) + k * Wrap /\ when = (out + (n - last) * Spa) + l * Wrap
  BY DEF Congruent
<1>2. when + Spa \in Int /\ Congruent((when + Spa) % Wrap, when + Spa) /\ (when + Spa) % Wrap \in Int
  <2>1. when + Spa \in Int
    BY Sizes
  <2> QED BY <2>1, ModInt, Zenon
<1>3. PICK m \in Int : (when + Spa) % Wrap = (when + Spa) + m * Wrap
  BY <1>2 DEF Congruent
<1>4. (when + Spa) % Wrap = (deviation + (past + Spa) + Spa) + (k + m) * Wrap
  BY <1>1, <1>3, Sizes, SMTT(30)
<1>5. (when + Spa) % Wrap = (out + (n + 1 - last) * Spa) + (l + m) * Wrap
  BY <1>1, <1>3, Sizes, SMTT(30)
<1> QED BY <1>4, <1>5 DEF Congruent

LEMMA AdvanceOn ==
  ASSUME NEW when \in Int, NEW out \in Int, NEW elapsed \in Int, NEW input \in Int,
         Congruent(when, out + elapsed)
  PROVE  Congruent((((elapsed + out - input) % Wrap) - Spa) % Size, ((when + Spa) % Wrap) - 2 * Spa - input)
<1> DEFINE latency == (elapsed + out - input) % Wrap
           after == (when + Spa) % Wrap
<1>1. elapsed + out - input \in Int /\ when + Spa \in Int
  BY Sizes
<1>2. latency \in Int /\ Congruent(latency, elapsed + out - input)
  BY <1>1, ModInt, Zenon
<1>3. after \in Int /\ Congruent(after, when + Spa)
  BY <1>1, ModInt, Zenon
<1> HIDE DEF latency, after
<1>4. latency - Spa \in Int
  BY <1>2, Sizes
<1>5. Congruent((latency - Spa) % Size, latency - Spa)
  BY <1>4, SizeCongruent
<1>6. PICK j \in Int, k \in Int, l \in Int, m \in Int :
        /\ when = (out + elapsed) + j * Wrap
        /\ latency = (elapsed + out - input) + k * Wrap
        /\ after = (when + Spa) + l * Wrap
        /\ (latency - Spa) % Size = (latency - Spa) + m * Wrap
  BY <1>2, <1>3, <1>5 DEF Congruent
<1>7. (latency - Spa) % Size = (after - 2 * Spa - input) + (m + k - j - l) * Wrap
  BY <1>2, <1>3, <1>6, Sizes, SMTT(30)
<1>8. Congruent((latency - Spa) % Size, after - 2 * Spa - input)
  BY <1>7 DEF Congruent
<1> QED BY <1>8 DEF latency, after

LEMMA BranchPace ==
  ASSUME NEW out \in Int, NEW first \in Int, NEW past \in Int, NEW n \in Int,
         Congruent(past, first + (n - 1) * Spa)
  PROVE  Congruent((out + Spa) % Wrap, ((out - first - n * Spa) % Wrap) + (past + Spa) + Spa)
<1> DEFINE after == (out + Spa) % Wrap
           deviation == (out - first - n * Spa) % Wrap
<1>1. out + Spa \in Int /\ out - first - n * Spa \in Int
  BY Sizes
<1>2. after \in Int /\ Congruent(after, out + Spa)
  BY <1>1, ModInt, Zenon
<1>3. deviation \in Int /\ Congruent(deviation, out - first - n * Spa)
  BY <1>1, ModInt, Zenon
<1> HIDE DEF after, deviation
<1>4. PICK j \in Int, k \in Int, l \in Int :
        /\ past = (first + (n - 1) * Spa) + j * Wrap
        /\ after = (out + Spa) + k * Wrap
        /\ deviation = (out - first - n * Spa) + l * Wrap
  BY <1>2, <1>3 DEF Congruent
<1>5. after = (deviation + (past + Spa) + Spa) + (k - l - j) * Wrap
  BY <1>2, <1>3, <1>4, Sizes, SMTT(30)
<1> QED BY <1>5 DEF Congruent, after, deviation

LEMMA SyncPace ==
  ASSUME NEW out \in Int, NEW input \in Int
  PROVE  /\ Congruent((out + Spa) % Wrap, out + Spa)
         /\ Congruent((out - Spa - input) % Wrap, ((out + Spa) % Wrap) - 2 * Spa - input)
<1> DEFINE after == (out + Spa) % Wrap
           advance == (out - Spa - input) % Wrap
<1>1. out + Spa \in Int /\ out - Spa - input \in Int
  BY Sizes
<1>2. after \in Int /\ Congruent(after, out + Spa)
  BY <1>1, ModInt, Zenon
<1>3. advance \in Int /\ Congruent(advance, out - Spa - input)
  BY <1>1, ModInt, Zenon
<1> HIDE DEF after, advance
<1>4. PICK k \in Int, l \in Int : after = (out + Spa) + k * Wrap /\ advance = (out - Spa - input) + l * Wrap
  BY <1>2, <1>3 DEF Congruent
<1>5. advance = (after - 2 * Spa - input) + (l - k) * Wrap
  BY <1>2, <1>3, <1>4, Sizes, SMTT(30)
<1> QED BY <1>2, <1>5 DEF Congruent, after, advance

LEMMA HistoryOn ==
  ASSUME NEW past \in Int, NEW first \in Int, NEW n \in Int, Congruent(past, first + (n - 1) * Spa)
  PROVE  Congruent(past + Spa, first + (n + 1 - 1) * Spa)
<1>1. PICK k \in Int : past = (first + (n - 1) * Spa) + k * Wrap
  BY DEF Congruent
<1>2. past + Spa = (first + (n + 1 - 1) * Spa) + k * Wrap
  BY <1>1, Sizes, SMTT(30)
<1> QED BY <1>2 DEF Congruent

-----------------------------------------------------------------------------
(* The inductive invariant. *)

ClockTypes ==
  /\ clock \in Clocks /\ clock.input \in 0 .. Wrap - 1
  /\ clock.parsed => clock.rate > 0 /\ clock.fifo = CeilDiv(clock.length, clock.rate)
  /\ due \in 0 .. Wrap - 1
  /\ {aligned, drifted, branched} \subseteq BOOLEAN

\* While the counter counts every unit since the first: the history is the first output and
\* a unit's samples for each; and as long as the stream only jumped by accepted branches, the next
\* is due where the deviation puts it, and where the last sync and its own advance do.
Paced ==
  ~drifted =>
    /\ clock.branch => branched
    /\ ~clock.parsed => clock.deviation = 0 /\ clock.advance = 0 /\ clock.counter = 0
    /\ clock.parsed =>
         /\ Congruent(clock.history, clock.firstOutput + (clock.counter - 1) * Spa)
         /\ aligned =>
              /\ Congruent(due, clock.deviation + clock.history + Spa)
              /\ Congruent(due, clock.output + (clock.counter - clock.lastSync) * Spa)
              /\ clock.advance = 0 \/ Congruent(clock.advance, due - 2 * Spa - clock.input)

LEMMA SentFits ==
  ASSUME ClockTypes, NEW sync \in BOOLEAN, NEW au \in Sent(sync)
  PROVE  /\ au \in TimedUnits /\ au.sync = sync
         /\ sync \/ clock.parsed => Fitting(clock, au)
<1>1. PICK step \in InputSteps, slip \in (IF sync THEN OutputSlips ELSE {0}), length \in Lengths,
           rate \in (IF sync THEN Rates ELSE {clock.rate}), layout \in (IF sync THEN Layouts ELSE {clock.layout}) :
        au = [sync |-> sync, input |-> (clock.input + step) % Wrap, output |-> (due + slip) % Wrap,
              length |-> length, rate |-> rate, layout |-> layout]
  BY DEF Sent
<1>2. clock.input + step \in Int /\ due + slip \in Int
  <2>1. step \in Nat /\ slip \in Int
    BY ClockAssumption
  <2>2. clock.input \in Int
    BY DEF ClockTypes, Clocks
  <2>3. due \in Int
    BY DEF ClockTypes
  <2> QED BY <2>1, <2>2, <2>3
<1>3. (clock.input + step) % Wrap \in 0 .. Wrap - 1 /\ (due + slip) % Wrap \in 0 .. Wrap - 1
  BY <1>2, ModCongruent
<1>4. length \in Nat /\ rate \in Nat /\ layout \in Layouts
  BY ClockAssumption DEF ClockTypes, Clocks
<1>5. sync \/ clock.parsed => rate > 0
  BY ClockAssumption DEF ClockTypes, Clocks
<1>6. ~sync => rate = clock.rate /\ layout = clock.layout
  OBVIOUS
<1> QED BY <1>1, <1>3, <1>4, <1>5, <1>6 DEF TimedUnits, Fitting

\* A unit whose first block is read, by what it is.
LEMMA BlockRead ==
  ASSUME ClockTypes, NEW sync \in BOOLEAN, sync \/ clock.parsed, NEW au \in Sent(sync)
  PROVE  LET b == Before(clock, au)
             h == HeaderRead(b, au)
             k == Blocked(h, sync) IN
         /\ k \in Clocks /\ h \in Clocks
         /\ k.input = au.input /\ k.length = au.length /\ k.rate = au.rate /\ k.layout = au.layout
         /\ h.layout = au.layout
         /\ k.fifo = CeilDiv(au.length, au.rate) /\ k.rate > 0
         /\ k.counter = clock.counter
         /\ k.parsed = (clock.parsed /\ clock.layout = au.layout)
         /\ k.lastSync = IF sync THEN clock.counter ELSE clock.lastSync
         /\ k.branch = h.branch /\ k.outputJump = h.outputJump
         /\ k.history = IF k.parsed THEN clock.history + Spa ELSE k.output
         /\ ~sync =>
              /\ ~k.branch /\ ~k.outputJump /\ k.output = clock.output /\ k.firstOutput = clock.firstOutput
              /\ k.deviation = clock.deviation
              /\ k.advance = (((((clock.counter - clock.lastSync) * Spa + clock.output - au.input) % Wrap) - Spa) % Size)
         /\ sync /\ ~k.parsed =>
              /\ ~k.branch /\ ~k.outputJump /\ k.output \in {au.output, au.output + Wrap}
              /\ k.firstOutput = au.output /\ k.advance = clock.advance /\ k.deviation = clock.deviation
         /\ sync /\ k.parsed =>
              /\ k.output = au.output /\ k.firstOutput = clock.firstOutput
              /\ k.advance = (au.output - Spa - au.input) % Wrap
              /\ k.outputJump = (ExpectedOutput(clock) # au.output)
              /\ k.deviation = IF k.branch THEN (au.output - clock.firstOutput - clock.counter * Spa) % Wrap
                               ELSE clock.deviation
<1> DEFINE b == Before(clock, au)
           h == HeaderRead(b, au)
           k == Blocked(h, sync)
<1>1. au \in TimedUnits /\ au.sync = sync /\ Fitting(clock, au) /\ clock \in Clocks
  BY SentFits DEF ClockTypes
<1>2. /\ b \in Clocks
      /\ b.input = au.input /\ b.length = au.length /\ b.rate = au.rate /\ b.layout = au.layout
      /\ b.parsed = (clock.parsed /\ clock.layout = au.layout)
      /\ b.lastSync = IF sync THEN clock.counter ELSE clock.lastSync
      /\ b.fifo = CeilDiv(au.length, au.rate) /\ ~b.outputJump
      /\ b.counter = clock.counter /\ b.output = clock.output /\ b.firstOutput = clock.firstOutput
      /\ b.deviation = clock.deviation /\ b.history = clock.history /\ b.advance = clock.advance
  BY <1>1, BeforeFields
<1> HIDE DEF b
<1>3. /\ h \in Clocks
      /\ h.input = b.input /\ h.length = b.length /\ h.rate = b.rate /\ h.layout = b.layout
      /\ h.parsed = b.parsed /\ h.lastSync = b.lastSync /\ h.fifo = b.fifo
      /\ h.counter = b.counter /\ h.history = b.history
      /\ ~sync =>
           /\ ~h.branch /\ h.outputJump = b.outputJump /\ h.output = b.output /\ h.advance = b.advance
           /\ h.firstOutput = b.firstOutput /\ h.deviation = b.deviation
      /\ sync /\ ~b.parsed =>
           /\ ~h.branch /\ h.outputJump = b.outputJump /\ h.output \in {au.output, au.output + Wrap}
           /\ h.advance = b.advance /\ h.firstOutput = au.output /\ h.deviation = b.deviation
      /\ sync /\ b.parsed =>
           /\ h.output = au.output /\ h.advance = Advance(b, au.output) /\ h.firstOutput = b.firstOutput
           /\ h.outputJump = (ExpectedOutput(b) # au.output)
           /\ h.deviation = IF h.branch THEN (au.output - b.firstOutput - b.counter * Spa) % Wrap ELSE b.deviation
  BY <1>1, <1>2, HeaderFields
<1>4. Advance(b, au.output) = (au.output - Spa - au.input) % Wrap /\ ExpectedOutput(b) = ExpectedOutput(clock)
  BY <1>2 DEF Advance, ExpectedOutput
<1> HIDE DEF h
<1>5. /\ k \in Clocks
      /\ k.input = h.input /\ k.length = h.length /\ k.rate = h.rate /\ k.layout = h.layout /\ k.fifo = h.fifo
      /\ k.counter = h.counter /\ k.parsed = h.parsed /\ k.lastSync = h.lastSync /\ k.branch = h.branch
      /\ k.outputJump = h.outputJump /\ k.output = h.output /\ k.firstOutput = h.firstOutput
      /\ k.deviation = h.deviation
      /\ k.advance = IF sync THEN h.advance
                     ELSE ((((h.counter - h.lastSync) * Spa + h.output - h.input) % Wrap) - Spa) % Size
      /\ k.history = IF h.parsed THEN h.history + Spa ELSE h.output
  <2>1. {"input", "length", "rate", "layout", "fifo", "counter", "parsed", "lastSync", "branch", "outputJump",
         "output", "firstOutput", "deviation"} \subseteq DOMAIN h \ {"advance", "history"}
    BY <1>3 DEF Clocks
  <2> QED BY <1>3, <2>1, BlockedFields
<1> HIDE DEF k
<1>6. k.rate > 0
  BY <1>1, <1>2, <1>3, <1>5 DEF Fitting
<1>7. ~sync =>
        /\ ~k.branch /\ ~k.outputJump /\ k.output = clock.output /\ k.firstOutput = clock.firstOutput
        /\ k.deviation = clock.deviation
        /\ k.advance = (((((clock.counter - clock.lastSync) * Spa + clock.output - au.input) % Wrap) - Spa) % Size)
  BY <1>2, <1>3, <1>5
<1>8. sync /\ ~k.parsed =>
        /\ ~k.branch /\ ~k.outputJump /\ k.output \in {au.output, au.output + Wrap}
        /\ k.firstOutput = au.output /\ k.advance = clock.advance /\ k.deviation = clock.deviation
  BY <1>2, <1>3, <1>5
<1>9. sync /\ k.parsed =>
        /\ k.output = au.output /\ k.firstOutput = clock.firstOutput
        /\ k.advance = (au.output - Spa - au.input) % Wrap
        /\ k.outputJump = (ExpectedOutput(clock) # au.output)
        /\ k.deviation = IF k.branch THEN (au.output - clock.firstOutput - clock.counter * Spa) % Wrap
                         ELSE clock.deviation
  BY <1>2, <1>3, <1>4, <1>5
<1>10. k.history = IF k.parsed THEN clock.history + Spa ELSE k.output
  BY <1>2, <1>3, <1>5
<1> QED BY <1>2, <1>3, <1>5, <1>6, <1>7, <1>8, <1>9, <1>10 DEF b, h, k

LEMMA DueOn == ASSUME NEW when \in Int PROVE (when + Spa) % Wrap \in 0 .. Wrap - 1
<1>1. when + Spa \in Int
  BY Sizes
<1> QED BY <1>1, ModCongruent

\* A unit that is read is counted, and keeps the pace.
LEMMA ReadUnitPaced ==
  ASSUME ClockTypes, Paced, NEW sync \in BOOLEAN, ReadUnit(sync)
  PROVE  ClockTypes' /\ Paced'
<1>1. PICK au \in Sent(sync) :
        LET after == HeaderRead(Before(clock, au), au) IN
        /\ sync \/ clock.parsed
        /\ clock' = [Blocked(after, sync) EXCEPT !.parsed = TRUE, !.counter = @ + 1]
        /\ branched' = (after.branch \/ (clock.parsed /\ after.layout # clock.layout))
        /\ Remember(au, after, TRUE)
        /\ drifted' = (drifted \/ (clock.parsed /\ after.layout # clock.layout))
  BY DEF ReadUnit
<1> DEFINE h == HeaderRead(Before(clock, au), au)
           k == Blocked(h, sync)
<1>2. /\ k \in Clocks /\ h \in Clocks
      /\ k.input = au.input /\ k.length = au.length /\ k.rate = au.rate /\ k.layout = au.layout
      /\ h.layout = au.layout
      /\ k.fifo = CeilDiv(au.length, au.rate) /\ k.rate > 0
      /\ k.counter = clock.counter
      /\ k.parsed = (clock.parsed /\ clock.layout = au.layout)
      /\ k.lastSync = IF sync THEN clock.counter ELSE clock.lastSync
      /\ k.branch = h.branch /\ k.outputJump = h.outputJump
      /\ k.history = IF k.parsed THEN clock.history + Spa ELSE k.output
      /\ ~sync =>
           /\ ~k.branch /\ ~k.outputJump /\ k.output = clock.output /\ k.firstOutput = clock.firstOutput
           /\ k.deviation = clock.deviation
           /\ k.advance = (((((clock.counter - clock.lastSync) * Spa + clock.output - au.input) % Wrap) - Spa) % Size)
      /\ sync /\ ~k.parsed =>
           /\ ~k.branch /\ ~k.outputJump /\ k.output \in {au.output, au.output + Wrap}
           /\ k.firstOutput = au.output /\ k.advance = clock.advance /\ k.deviation = clock.deviation
      /\ sync /\ k.parsed =>
           /\ k.output = au.output /\ k.firstOutput = clock.firstOutput
           /\ k.advance = (au.output - Spa - au.input) % Wrap
           /\ k.outputJump = (ExpectedOutput(clock) # au.output)
           /\ k.deviation = IF k.branch THEN (au.output - clock.firstOutput - clock.counter * Spa) % Wrap
                            ELSE clock.deviation
  BY <1>1, BlockRead
<1>3. /\ clock' = [k EXCEPT !.parsed = TRUE, !.counter = @ + 1]
      /\ branched' = (k.branch \/ (clock.parsed /\ k.layout # clock.layout))
      /\ drifted' = (drifted \/ (clock.parsed /\ k.layout # clock.layout))
      /\ due' = ((IF sync THEN au.output ELSE due) + Spa) % Wrap
      /\ aligned' = (k.branch \/ (aligned /\ ~k.outputJump))
  BY <1>1, <1>2, SentFits DEF Remember
<1>4. au \in TimedUnits /\ au.sync = sync /\ clock \in Clocks
      /\ clock.counter \in Nat /\ clock.lastSync \in Nat /\ clock.history \in Int /\ clock.output \in Int
      /\ clock.firstOutput \in Int /\ clock.deviation \in Int /\ clock.advance \in Int
      /\ au.output \in 0 .. Wrap - 1 /\ au.input \in 0 .. Wrap - 1 /\ due \in 0 .. Wrap - 1 /\ Wrap \in Nat
      /\ au.output \in Int /\ au.input \in Int /\ due \in Int
  BY SentFits, Sizes DEF ClockTypes, Clocks, TimedUnits
<1> HIDE DEF h, k
<1>5. /\ clock' \in Clocks /\ clock'.parsed /\ clock'.counter = clock.counter + 1
      /\ clock'.input = k.input /\ clock'.rate = k.rate /\ clock'.length = k.length /\ clock'.fifo = k.fifo
      /\ clock'.output = k.output /\ clock'.firstOutput = k.firstOutput /\ clock'.deviation = k.deviation
      /\ clock'.history = k.history /\ clock'.advance = k.advance /\ clock'.lastSync = k.lastSync
      /\ clock'.branch = k.branch
  <2>1. k.counter \in Nat /\ k.counter + 1 \in Nat
    BY <1>2 DEF Clocks
  <2>2. DOMAIN k = DOMAIN clock' /\ clock' \in Clocks
    BY <1>2, <1>3, <2>1 DEF Clocks
  <2>3. clock'.parsed /\ clock'.counter = k.counter + 1
    BY <1>2, <1>3 DEF Clocks
  <2>4. /\ clock'.input = k.input /\ clock'.rate = k.rate /\ clock'.length = k.length /\ clock'.fifo = k.fifo
        /\ clock'.output = k.output /\ clock'.firstOutput = k.firstOutput /\ clock'.deviation = k.deviation
        /\ clock'.history = k.history /\ clock'.advance = k.advance /\ clock'.lastSync = k.lastSync
        /\ clock'.branch = k.branch
    BY <1>2, <1>3 DEF Clocks
  <2> QED BY <1>2, <2>2, <2>3, <2>4
<1>6. due' \in 0 .. Wrap - 1
  BY <1>3, <1>4, DueOn
<1>7. ClockTypes'
  <2>1. {aligned', drifted', branched'} \subseteq BOOLEAN
    BY <1>2, <1>3 DEF ClockTypes, Clocks
  <2> QED BY <1>2, <1>4, <1>5, <1>6, <2>1 DEF ClockTypes
<1>8. ASSUME ~drifted', ~clock.parsed PROVE Paced'
  <2>1. sync /\ ~k.parsed /\ ~drifted
    BY <1>1, <1>2, <1>3, <1>8
  <2>2. clock.deviation = 0 /\ clock.advance = 0 /\ clock.counter = 0
    BY <1>8, <2>1 DEF Paced
  <2>3. clock'.history = clock'.output /\ clock'.firstOutput = au.output /\ clock'.deviation = 0
        /\ clock'.advance = 0 /\ clock'.lastSync = 0 /\ clock'.counter = 1 /\ ~clock'.branch
        /\ clock'.output \in {au.output, au.output + Wrap}
    BY <1>2, <1>5, <2>1, <2>2
  <2>4. Congruent(clock'.output, au.output) /\ clock'.output \in Int
    BY <2>3, <1>4, CongruentSelf
  <2>5. Congruent(clock'.history, clock'.firstOutput + (clock'.counter - 1) * Spa)
    <3>1. clock'.firstOutput + (clock'.counter - 1) * Spa = au.output
      BY <2>3, <1>4, Sizes
    <3> QED BY <2>3, <2>4, <3>1
  <2>6. Congruent(due', clock'.output + Spa)
    <3>1. due' = (au.output + Spa) % Wrap
      BY <1>3, <2>1
    <3>2. Congruent(due', au.output + Spa)
      BY <1>4, <3>1, SyncPace
    <3>3. Congruent(clock'.output + Spa, au.output + Spa)
      <4>1. Congruent(Spa, Spa) /\ Spa \in Int
        BY CongruentSelf, Sizes
      <4> QED BY <1>4, <2>4, <4>1, CongruentSum, Zenon
    <3>4. clock'.output + Spa \in Int /\ au.output + Spa \in Int /\ due' \in Int
      BY <1>4, <1>6, <2>4, Sizes
    <3>5. Congruent(au.output + Spa, clock'.output + Spa)
      BY <3>3, <3>4, CongruentTo
    <3> QED BY <3>2, <3>4, <3>5, CongruentTo
  <2>7. clock'.deviation + clock'.history + Spa = clock'.output + Spa
        /\ clock'.output + (clock'.counter - clock'.lastSync) * Spa = clock'.output + Spa
    BY <2>3, <2>4, Sizes
  <2> QED BY <1>5, <2>3, <2>5, <2>6, <2>7 DEF Paced
<1>9. ASSUME ~drifted', clock.parsed PROVE Paced'
  <2>1. k.parsed /\ ~drifted /\ (branched' <=> k.branch)
    BY <1>2, <1>3, <1>9 DEF ClockTypes, Clocks
  <2>2. /\ Congruent(clock.history, clock.firstOutput + (clock.counter - 1) * Spa)
        /\ aligned =>
             /\ Congruent(due, clock.deviation + clock.history + Spa)
             /\ Congruent(due, clock.output + (clock.counter - clock.lastSync) * Spa)
    BY <1>9, <2>1 DEF Paced
  <2>3. clock'.history = clock.history + Spa /\ clock'.firstOutput = clock.firstOutput
    BY <1>2, <1>5, <2>1
  <2>4. Congruent(clock'.history, clock'.firstOutput + (clock'.counter - 1) * Spa)
    BY <1>4, <1>5, <2>2, <2>3, HistoryOn
  <2>5. CASE ~sync
    <3>1. /\ aligned' = aligned /\ due' = (due + Spa) % Wrap /\ clock'.output = clock.output
          /\ clock'.deviation = clock.deviation /\ clock'.lastSync = clock.lastSync
          /\ clock'.input = au.input
          /\ clock'.advance = (((((clock.counter - clock.lastSync) * Spa + clock.output - au.input) % Wrap) - Spa) % Size)
      BY <1>2, <1>3, <1>5, <2>5 DEF ClockTypes
    <3>2. ASSUME aligned
          PROVE  /\ Congruent(due', clock'.deviation + clock'.history + Spa)
                 /\ Congruent(due', clock'.output + (clock'.counter - clock'.lastSync) * Spa)
      <4>1. clock.counter \in Int /\ clock.lastSync \in Int
        BY <1>4
      <4>2. /\ Congruent((due + Spa) % Wrap, clock.deviation + (clock.history + Spa) + Spa)
            /\ Congruent((due + Spa) % Wrap, clock.output + (clock.counter + 1 - clock.lastSync) * Spa)
        BY <1>4, <2>2, <3>2, <4>1, PaceOn, Zenon
      <4>3. clock'.deviation + clock'.history + Spa = clock.deviation + (clock.history + Spa) + Spa
        BY <2>3, <3>1
      <4>4. clock'.output + (clock'.counter - clock'.lastSync) * Spa
              = clock.output + (clock.counter + 1 - clock.lastSync) * Spa
        <5>1. clock'.output = clock.output /\ clock'.counter = clock.counter + 1 /\ clock'.lastSync = clock.lastSync
          BY <1>5, <3>1
        <5> QED BY <5>1, <1>4, Sizes
      <4>5. due' = (due + Spa) % Wrap
        BY <3>1
      <4> QED BY <4>2, <4>3, <4>4, <4>5, Zenon
    <3>3. ASSUME aligned PROVE Congruent(clock'.advance, due' - 2 * Spa - clock'.input)
      <4> DEFINE elapsed == (clock.counter - clock.lastSync) * Spa
      <4>1. elapsed \in Int /\ Congruent(due, clock.output + elapsed)
        BY <1>4, <2>2, <3>3, Sizes
      <4> HIDE DEF elapsed
      <4>2. Congruent((((elapsed + clock.output - au.input) % Wrap) - Spa) % Size,
                      ((due + Spa) % Wrap) - 2 * Spa - au.input)
        BY <1>4, <4>1, AdvanceOn
      <4> QED BY <3>1, <4>2 DEF elapsed
    <3> QED BY <1>5, <2>1, <2>4, <3>1, <3>2, <3>3, <1>3 DEF Paced
  <2>6. CASE sync
    <3>1. /\ due' = (au.output + Spa) % Wrap /\ clock'.output = au.output
          /\ clock'.lastSync = clock.counter /\ clock'.input = au.input
          /\ clock'.advance = (au.output - Spa - au.input) % Wrap
      BY <1>2, <1>3, <1>5, <2>1, <2>6
    <3>2. Congruent(clock'.advance, due' - 2 * Spa - clock'.input) /\ Congruent(due', au.output + Spa)
      BY <1>4, <3>1, SyncPace
    <3>3. clock'.output + (clock'.counter - clock'.lastSync) * Spa = au.output + Spa
      BY <1>4, <1>5, <3>1, Sizes
    <3>4. ASSUME aligned' PROVE Congruent(due', clock'.deviation + clock'.history + Spa)
      <4>1. CASE k.branch
        <5>1. clock'.deviation = (au.output - clock.firstOutput - clock.counter * Spa) % Wrap
          BY <1>2, <1>5, <2>1, <2>6, <4>1
        <5>2. clock.counter \in Int
          BY <1>4
        <5>3. Congruent((au.output + Spa) % Wrap,
                ((au.output - clock.firstOutput - clock.counter * Spa) % Wrap) + (clock.history + Spa) + Spa)
          BY <1>4, <2>2, <5>2, BranchPace, Zenon
        <5> QED BY <2>3, <3>1, <5>1, <5>3
      <4>2. CASE ~k.branch
        <5>1. aligned /\ ExpectedOutput(clock) = au.output /\ clock'.deviation = clock.deviation
          BY <1>2, <1>3, <1>5, <2>1, <2>6, <3>4, <4>2
        <5>2. clock.deviation + Spa + clock.history = clock.deviation + clock.history + Spa
              /\ clock.deviation + clock.history + Spa \in Int
          BY <1>4, Sizes
        <5>3. au.output = (clock.deviation + clock.history + Spa) % Wrap
          BY <5>1, <5>2 DEF ExpectedOutput
        <5>4. Congruent(au.output, clock.deviation + clock.history + Spa)
          BY <5>2, <5>3, ModInt
        <5>5. Congruent(au.output, au.output + (0 - 0) * Spa)
          BY <1>4, CongruentSelf, Sizes
        <5>6. Congruent((au.output + Spa) % Wrap, clock.deviation + (clock.history + Spa) + Spa)
          <6>1. 0 \in Int
            OBVIOUS
          <6> QED BY <1>4, <5>4, <5>5, <6>1, PaceOn, Zenon
        <5> QED BY <2>3, <3>1, <5>1, <5>6
      <4> QED BY <4>1, <4>2
    <3> QED BY <1>3, <1>5, <2>1, <2>4, <3>2, <3>3, <3>4 DEF Paced
  <2> QED BY <2>5, <2>6
<1>10. ASSUME drifted' PROVE Paced'
  BY <1>10 DEF Paced
<1> QED BY <1>7, <1>8, <1>9, <1>10

\* An access unit that broke behind its first block is not counted, so that only a first one is without harm,
\* and that only if it does not count as parsed.
LEMMA BrokenPaced ==
  ASSUME ClockTypes, Paced, NEW sync \in BOOLEAN, BrokenSegment(sync)
  PROVE  ClockTypes' /\ Paced'
<1>1. PICK au \in Sent(sync), overlong \in BOOLEAN :
        LET after == HeaderRead(Before(clock, au), au) IN
        /\ sync \/ clock.parsed
        /\ clock' = [Blocked(after, sync) EXCEPT !.parsed = @ \/ overlong]
        /\ Remember(au, after, FALSE)
        /\ drifted' = (drifted \/ clock.parsed \/ overlong)
        /\ branched' = branched
  BY DEF BrokenSegment
<1> DEFINE h == HeaderRead(Before(clock, au), au)
           k == Blocked(h, sync)
<1>2. /\ k \in Clocks /\ h \in Clocks
      /\ k.input = au.input /\ k.length = au.length /\ k.rate = au.rate
      /\ k.fifo = CeilDiv(au.length, au.rate) /\ k.rate > 0
      /\ k.counter = clock.counter
      /\ k.parsed = (clock.parsed /\ clock.layout = au.layout)
      /\ k.branch = h.branch /\ k.outputJump = h.outputJump
      /\ sync /\ ~k.parsed => ~k.branch /\ k.advance = clock.advance /\ k.deviation = clock.deviation
  BY <1>1, BlockRead
<1>3. /\ clock' = [k EXCEPT !.parsed = @ \/ overlong]
      /\ due' = ((IF sync THEN au.output ELSE due) + Spa) % Wrap
      /\ aligned' = (aligned /\ ~k.outputJump /\ ~clock.parsed)
  BY <1>1, <1>2, SentFits DEF Remember
<1>4. au.output \in Int /\ due \in Int /\ au.input \in 0 .. Wrap - 1
  BY SentFits, Sizes DEF ClockTypes, TimedUnits
<1> HIDE DEF h, k
<1>5. ClockTypes'
  <2>1. due' \in 0 .. Wrap - 1
    BY <1>3, <1>4, DueOn
  <2>2. {aligned', drifted', branched'} \subseteq BOOLEAN
    BY <1>1, <1>2, <1>3 DEF ClockTypes, Clocks
  <2>3. clock' \in Clocks /\ clock'.rate = k.rate
    BY <1>2, <1>3 DEF Clocks
  <2> QED BY <1>2, <1>3, <1>4, <2>1, <2>2, <2>3 DEF ClockTypes
<1>6. ASSUME ~drifted' PROVE Paced'
  <2>1. ~clock.parsed /\ ~drifted /\ sync /\ ~overlong
    BY <1>1, <1>6
  <2>2. clock.deviation = 0 /\ clock.advance = 0 /\ clock.counter = 0
    BY <2>1 DEF Paced
  <2>3. ~clock'.branch /\ ~clock'.parsed /\ clock'.deviation = 0 /\ clock'.advance = 0 /\ clock'.counter = 0
    BY <1>2, <1>3, <2>1, <2>2 DEF Clocks
  <2> QED BY <2>3 DEF Paced
<1> QED BY <1>5, <1>6 DEF Paced

\* Nor is one whose parity is wrong; and the outputs are out of line until the next branch.
LEMMA WrongParityPaced ==
  ASSUME ClockTypes, Paced, NEW sync \in BOOLEAN, WrongParity(sync)
  PROVE  ClockTypes' /\ Paced'
<1>1. PICK au \in Sent(sync) :
        LET before == Before(clock, au) IN
        /\ sync \/ clock.parsed
        /\ clock' = [before EXCEPT !.branch = FALSE]
        /\ Remember(au, before, FALSE)
        /\ drifted' = (drifted \/ (clock.parsed /\ before.layout # clock.layout))
        /\ branched' = branched
  BY DEF WrongParity
<1> DEFINE b == Before(clock, au)
<1>2. au \in TimedUnits /\ au.sync = sync /\ Fitting(clock, au) /\ clock \in Clocks
  BY <1>1, SentFits DEF ClockTypes
<1>3. /\ b \in Clocks
      /\ b.input = au.input /\ b.length = au.length /\ b.rate = au.rate /\ b.layout = au.layout
      /\ b.parsed = (clock.parsed /\ clock.layout = au.layout)
      /\ b.lastSync = IF sync THEN clock.counter ELSE clock.lastSync
      /\ b.fifo = CeilDiv(au.length, au.rate) /\ ~b.outputJump
      /\ b.counter = clock.counter /\ b.output = clock.output /\ b.firstOutput = clock.firstOutput
      /\ b.deviation = clock.deviation /\ b.history = clock.history /\ b.advance = clock.advance
  BY <1>2, BeforeFields
<1>4. /\ clock' = [b EXCEPT !.branch = FALSE]
      /\ due' = ((IF sync THEN au.output ELSE due) + Spa) % Wrap
      /\ clock.parsed => ~aligned'
      /\ aligned' \in BOOLEAN
      /\ drifted' = (drifted \/ (clock.parsed /\ b.layout # clock.layout))
  <2>1. b.branch \in BOOLEAN /\ aligned \in BOOLEAN
    BY <1>3 DEF Clocks, ClockTypes
  <2> QED BY <1>1, <1>2, <2>1 DEF Remember
<1> HIDE DEF b
<1>5. /\ clock' \in Clocks /\ ~clock'.branch
      /\ clock'.parsed = b.parsed /\ clock'.input = b.input /\ clock'.rate = b.rate /\ clock'.length = b.length
      /\ clock'.fifo = b.fifo /\ clock'.counter = b.counter /\ clock'.firstOutput = b.firstOutput
      /\ clock'.history = b.history /\ clock'.deviation = b.deviation /\ clock'.advance = b.advance
  BY <1>3, <1>4 DEF Clocks
<1>6. ClockTypes'
  <2>1. due \in Int /\ au.output \in Int /\ au.input \in 0 .. Wrap - 1
    BY <1>2, Sizes DEF ClockTypes, TimedUnits
  <2>2. due' \in 0 .. Wrap - 1
    BY <1>4, <2>1, DueOn
  <2>3. {aligned', drifted', branched'} \subseteq BOOLEAN
    BY <1>1, <1>4 DEF ClockTypes
  <2> QED BY <1>2, <1>3, <1>5, <2>1, <2>2, <2>3 DEF ClockTypes, Fitting
<1>7. ASSUME ~drifted' PROVE Paced'
  <2>1. ~drifted /\ (clock'.parsed <=> clock.parsed)
    BY <1>3, <1>4, <1>5, <1>7
  <2>2. CASE clock.parsed
    BY <1>3, <1>4, <1>5, <2>1, <2>2 DEF Paced
  <2>3. CASE ~clock.parsed
    BY <1>3, <1>5, <2>1, <2>3 DEF Paced
  <2> QED BY <2>2, <2>3
<1> QED BY <1>6, <1>7 DEF Paced

LEMMA NoInitialSyncPaced ==
  ASSUME ClockTypes, Paced, NoInitialSync
  PROVE  ClockTypes' /\ Paced'
<1>1. PICK au \in Sent(FALSE) :
        /\ ~clock.parsed
        /\ clock' = Arrived(clock, au)
        /\ due' = (due + Spa) % Wrap
        /\ UNCHANGED <<panicked, branched, aligned, drifted, syncs>>
  BY DEF NoInitialSync
<1>2. au \in TimedUnits /\ clock \in Clocks /\ due \in Int
  <2>1. clock \in Clocks /\ due \in Int /\ FALSE \in BOOLEAN
    BY Sizes DEF ClockTypes
  <2> QED BY <2>1, SentFits
<1>3. /\ clock' \in Clocks /\ clock'.input = au.input /\ ~clock'.parsed
      /\ clock'.branch = clock.branch /\ clock'.deviation = clock.deviation /\ clock'.advance = clock.advance
      /\ clock'.counter = clock.counter
  BY <1>1, <1>2, ArrivedFields
<1>4. due' \in 0 .. Wrap - 1 /\ au.input \in 0 .. Wrap - 1
  BY <1>1, <1>2, DueOn DEF TimedUnits
<1> QED BY <1>1, <1>3, <1>4 DEF ClockTypes, Paced

\* The invariant holds of every stream, however often it branches and whatever is refused.
THEOREM AlwaysPaced == ClockSpec => [](ClockTypes /\ Paced)
<1>1. ClockInit => ClockTypes /\ Paced
  <2> SUFFICES ASSUME ClockInit PROVE ClockTypes /\ Paced
    OBVIOUS
  <2>1. (CHOOSE l \in Layouts : TRUE) \in Layouts
    BY ClockAssumption
  <2>2. clock \in Clocks /\ clock.input = 0 /\ ~clock.parsed /\ ~clock.branch
        /\ clock.deviation = 0 /\ clock.advance = 0 /\ clock.counter = 0
    BY <2>1 DEF ClockInit, Clocks
  <2>3. due \in 0 .. Wrap - 1 /\ 0 \in 0 .. Wrap - 1
    BY ClockAssumption DEF ClockInit
  <2> QED BY <2>2, <2>3 DEF ClockInit, ClockTypes, Paced
<1>2. ClockTypes /\ Paced /\ [ClockNext]_clock_vars => ClockTypes' /\ Paced'
  <2> SUFFICES ASSUME ClockTypes, Paced, [ClockNext]_clock_vars PROVE ClockTypes' /\ Paced'
    OBVIOUS
  <2>1. ASSUME NEW sync \in BOOLEAN, ReadUnit(sync) PROVE ClockTypes' /\ Paced'
    BY <2>1, ReadUnitPaced
  <2>2. ASSUME NEW sync \in BOOLEAN, WrongParity(sync) PROVE ClockTypes' /\ Paced'
    BY <2>2, WrongParityPaced
  <2>3. ASSUME NEW sync \in BOOLEAN, BrokenSegment(sync) PROVE ClockTypes' /\ Paced'
    BY <2>3, BrokenPaced
  <2>4. CASE NoInitialSync
    BY <2>4, NoInitialSyncPaced
  <2>5. CASE Panic
    BY <2>5 DEF Panic, ClockTypes, Paced
  <2>6. CASE UNCHANGED clock_vars
    BY <2>6 DEF clock_vars, ClockTypes, Paced
  <2> QED BY <2>1, <2>2, <2>3, <2>4, <2>5, <2>6 DEF ClockNext
<1> QED BY <1>1, <1>2, PTL DEF ClockSpec

-----------------------------------------------------------------------------
(* A stream that goes on. *)

LEMMA CeilDivAbove ==
  ASSUME NEW n \in Nat, NEW d \in Nat \ {0}, NEW m \in Nat, CeilDiv(n, d) > m
  PROVE  n > m * d
<1> DEFINE q == (n + d - 1) \div d
           r == (n + d - 1) % d
<1>1. q \in Int /\ r \in 0 .. d - 1 /\ n + d - 1 = q * d + r
  BY SMTT(30)
<1>2. q >= m + 1
  BY <1>1 DEF CeilDiv
<1> HIDE DEF q, r
<1>3. q * d >= (m + 1) * d
  BY <1>1, <1>2, SMTT(30)
<1>4. (m + 1) * d = m * d + d
  BY SMTT(30)
<1>5. q * d \in Int /\ m * d \in Int /\ (m + 1) * d \in Int
  BY <1>1
<1> QED BY <1>1, <1>3, <1>4, <1>5

LEMMA IntervalOn ==
  ASSUME NEW input \in Int
  PROVE  (((input + Spa) % Wrap) - input) % Wrap = Spa
<1> DEFINE next == (input + Spa) % Wrap
<1>1. input + Spa \in Int
  BY Sizes
<1>2. next \in Int /\ Congruent(next, input + Spa)
  BY <1>1, ModInt, Zenon
<1> HIDE DEF next
<1>3. next - input \in Int
  BY <1>2
<1>4. (next - input) % Wrap \in 0 .. Wrap - 1 /\ Congruent((next - input) % Wrap, next - input)
  BY <1>3, ModCongruent
<1>5. PICK k \in Int, l \in Int : next = (input + Spa) + k * Wrap /\ (next - input) % Wrap = (next - input) + l * Wrap
  BY <1>2, <1>4 DEF Congruent
<1>6. (next - input) % Wrap = Spa + (k + l) * Wrap
  BY <1>2, <1>5, Sizes, SMTT(30)
<1>7. Spa \in 0 .. Wrap - 1
  BY ClockAssumption
<1>8. (next - input) % Wrap = Spa
  BY <1>4, <1>6, <1>7, CongruentEqual DEF Congruent
<1> QED BY <1>8 DEF next

\* Where the advance of the unit before is known, going on splices nothing in and takes nothing out.
LEMMA SplicedOn ==
  ASSUME NEW when \in Int, NEW input \in Int, NEW before \in Int,
         Congruent(before, when - 2 * Spa - input)
  PROVE  (Spa + before - ((when - Spa - ((input + Spa) % Wrap)) % Wrap)) % Wrap = Spa
<1> DEFINE next == (input + Spa) % Wrap
           advance == (when - Spa - next) % Wrap
           interval == (Spa + before - advance) % Wrap
<1>1. input + Spa \in Int
  BY Sizes
<1>2. next \in Int /\ Congruent(next, input + Spa)
  BY <1>1, ModInt, Zenon
<1> HIDE DEF next
<1>3. when - Spa - next \in Int
  BY <1>2, Sizes
<1>4. advance \in Int /\ Congruent(advance, when - Spa - next)
  BY <1>3, ModInt, Zenon
<1> HIDE DEF advance
<1>5. Spa + before - advance \in Int
  BY <1>4, Sizes
<1>6. interval \in 0 .. Wrap - 1 /\ Congruent(interval, Spa + before - advance)
  BY <1>5, ModCongruent
<1> HIDE DEF interval
<1>7. PICK j \in Int, k \in Int, l \in Int, m \in Int :
        /\ before = (when - 2 * Spa - input) + j * Wrap
        /\ next = (input + Spa) + k * Wrap
        /\ advance = (when - Spa - next) + l * Wrap
        /\ interval = (Spa + before - advance) + m * Wrap
  BY <1>2, <1>4, <1>6 DEF Congruent
<1>8. interval = Spa + (m + j + k - l) * Wrap
  BY <1>2, <1>4, <1>7, Sizes, SMTT(30)
<1>9. Spa \in 0 .. Wrap - 1
  BY ClockAssumption
<1>10. interval = Spa
  BY <1>6, <1>8, <1>9, CongruentEqual DEF Congruent
<1> QED BY <1>10 DEF interval, advance, next

\* Right after the first unit its advance is still zero.
LEMMA SplicedFirst ==
  ASSUME NEW advance \in 0 .. Wrap - 1, advance <= (0 + 3 * (Spa \div 4)) % Size
  PROVE  (Spa + 0 - advance) % Wrap \in 0 .. Spa
<1>1. 3 * (Spa \div 4) \in 0 .. Spa
  BY Sizes
<1>2. (0 + 3 * (Spa \div 4)) % Size = 3 * (Spa \div 4)
  BY <1>1, ClockAssumption
<1>3. advance \in 0 .. Spa
  BY <1>1, <1>2, Sizes
<1>4. Spa + 0 - advance \in 0 .. Wrap - 1
  BY <1>3, ClockAssumption
<1>5. (Spa + 0 - advance) % Wrap = Spa + 0 - advance
  BY <1>4, Sizes
<1> QED BY <1>3, <1>5, Sizes

\* Longer than the interval at its rate, the unit before does not fit in what is spliced in.
LEMMA TooLong ==
  ASSUME NEW length \in Nat, NEW rate \in Nat \ {0}, NEW interval \in 0 .. Spa, length > Spa * rate
  PROVE  ~(length <= rate * interval)
<1>1. rate * interval <= Spa * rate
  BY Sizes, SMTT(30)
<1>2. rate * interval \in Int /\ Spa * rate \in Int
  BY Sizes
<1> QED BY <1>1, <1>2

LEMMA NoBranchOn ==
  ASSUME ClockTypes, Paced, NEW sync \in BOOLEAN, ReadUnit(sync), aligned, ~drifted, ~branched, GoesOn
  PROVE  ~branched'
<1>1. PICK au \in Sent(sync) :
        LET after == HeaderRead(Before(clock, au), au) IN
        /\ sync \/ clock.parsed
        /\ clock' = [Blocked(after, sync) EXCEPT !.parsed = TRUE, !.counter = @ + 1]
        /\ branched' = (after.branch \/ (clock.parsed /\ after.layout # clock.layout))
  BY DEF ReadUnit
<1> DEFINE b == Before(clock, au)
           h == HeaderRead(b, au)
           k == Blocked(h, sync)
<1>2. /\ k \in Clocks /\ h.layout = au.layout /\ k.layout = au.layout /\ k.input = au.input /\ k.rate = au.rate
      /\ k.parsed = (clock.parsed /\ clock.layout = au.layout)
      /\ k.branch = h.branch /\ k.outputJump = h.outputJump
      /\ ~sync \/ ~k.parsed => ~k.branch
      /\ sync /\ k.parsed => k.output = au.output /\ k.outputJump = (ExpectedOutput(clock) # au.output)
  BY <1>1, BlockRead
<1>3. /\ au \in TimedUnits /\ au.sync = sync /\ Fitting(clock, au) /\ clock \in Clocks
      /\ clock.input \in Int /\ due \in 0 .. Wrap - 1 /\ due \in Int /\ clock.advance \in Int
      /\ clock.history \in Int /\ clock.deviation \in Int
      /\ clock.length \in Nat /\ clock.rate \in Nat
  BY <1>1, SentFits, Sizes DEF ClockTypes, Clocks
<1>4. /\ b \in Clocks /\ b.input = au.input /\ b.rate = au.rate /\ b.rateJump = (clock.parsed /\ clock.rate # au.rate)
      /\ b.inputJump = (b.parsed /\ InputJumps(b))
      /\ b.parsed = (clock.parsed /\ clock.layout = au.layout)
      /\ b.branch = clock.branch
      /\ ~clock.branch =>
           /\ b.prevLength = clock.length /\ b.prevAdvance = clock.advance /\ b.prevFifo = clock.fifo
           /\ b.prevInput = clock.input /\ b.prevRate = clock.rate
  BY <1>3, BeforeFields
<1> HIDE DEF b
<1>5. sync /\ b.parsed =>
        /\ h.advance = Advance(b, au.output)
        /\ h.branch =>
             /\ b.rateJump \/ b.inputJump \/ h.outputJump
             /\ h.advance <= (b.prevAdvance + 3 * (Spa \div 4)) % Size
             /\ b.prevLength <= b.prevRate * ((Spa + b.prevAdvance - h.advance) % Wrap)
  BY <1>3, <1>4, HeaderFields
<1> HIDE DEF h, k
<1>6. clock' = [k EXCEPT !.parsed = TRUE, !.counter = @ + 1]
      /\ branched' = (h.branch \/ (clock.parsed /\ h.layout # clock.layout))
  BY <1>1 DEF h, k, b
<1>7. clock'.input = k.input /\ clock'.output = k.output /\ clock'.rate = k.rate /\ clock'.layout = k.layout
  BY <1>2, <1>6 DEF Clocks
<1>8. k.input = (clock.input + Spa) % Wrap /\ k.output = due /\ k.rate = clock.rate /\ k.layout = clock.layout
  BY <1>7 DEF GoesOn
<1>9. ~h.branch
  <2> SUFFICES ASSUME h.branch PROVE FALSE
    OBVIOUS
  <2>1. sync /\ k.parsed /\ clock.parsed /\ b.parsed
    BY <1>2, <1>4
  <2>2. /\ ~clock.branch
        /\ Congruent(due, clock.deviation + clock.history + Spa)
        /\ clock.advance = 0 \/ Congruent(clock.advance, due - 2 * Spa - clock.input)
        /\ clock.rate > 0 /\ clock.fifo = CeilDiv(clock.length, clock.rate)
    BY <2>1 DEF Paced, ClockTypes
  <2>3. au.rate = clock.rate /\ au.output = due /\ au.input = (clock.input + Spa) % Wrap
    BY <1>2, <1>8, <2>1
  <2>4. ~b.rateJump
    BY <1>4, <2>3
  <2>5. ~h.outputJump
    <3>1. clock.deviation + clock.history + Spa \in Int
          /\ clock.deviation + Spa + clock.history = clock.deviation + clock.history + Spa
      BY <1>3, Sizes
    <3>2. ExpectedOutput(clock) = (clock.deviation + clock.history + Spa) % Wrap
      BY <3>1 DEF ExpectedOutput
    <3>3. ExpectedOutput(clock) \in 0 .. Wrap - 1 /\ Congruent(ExpectedOutput(clock), clock.deviation + clock.history + Spa)
      BY <3>1, <3>2, ModCongruent
    <3>4. Congruent(clock.deviation + clock.history + Spa, due)
      BY <1>3, <2>2, <3>1, CongruentTo
    <3>5. ExpectedOutput(clock) \in Int
      BY <3>3, Sizes
    <3>6. Congruent(ExpectedOutput(clock), due)
      BY <1>3, <3>1, <3>3, <3>4, <3>5, CongruentTo
    <3>7. ExpectedOutput(clock) = due
      BY <1>3, <3>3, <3>6, CongruentEqual
    <3> QED BY <1>2, <2>1, <2>3, <3>7
  <2>6. InputJumps(b)
    BY <1>4, <1>5, <2>1, <2>4, <2>5
  <2>7. InputInterval(b) = Spa
    <3>1. InputInterval(b) = (((clock.input + Spa) % Wrap) - clock.input) % Wrap
      BY <1>4, <2>2, <2>3 DEF InputInterval
    <3> QED BY <1>3, <3>1, IntervalOn
  <2>8. clock.length > Spa * clock.rate
    <3>1. ~(Spa < Spa \div 4) /\ ~(Spa > Window)
      BY ClockAssumption
    <3>2. Spa < clock.fifo \/ clock.length > Spa * clock.rate
      BY <1>4, <2>2, <2>3, <2>6, <2>7, <3>1 DEF InputJumps
    <3>3. ASSUME Spa < clock.fifo PROVE clock.length > Spa * clock.rate
      <4>1. CeilDiv(clock.length, clock.rate) \in Int /\ clock.rate \in Nat \ {0}
        BY <1>3, <2>2, CeilDivInt
      <4>2. CeilDiv(clock.length, clock.rate) > Spa
        BY <2>2, <3>3, <4>1, Sizes
      <4> QED BY <1>3, <4>1, <4>2, CeilDivAbove, Sizes
    <3> QED BY <3>2, <3>3
  <2>9. h.advance = (due - Spa - ((clock.input + Spa) % Wrap)) % Wrap
    BY <1>4, <1>5, <2>1, <2>3 DEF Advance
  <2>10. /\ h.advance <= (clock.advance + 3 * (Spa \div 4)) % Size
         /\ clock.length <= clock.rate * ((Spa + clock.advance - h.advance) % Wrap)
    BY <1>4, <1>5, <2>1, <2>2
  <2>11. (Spa + clock.advance - h.advance) % Wrap \in 0 .. Spa
    <3>1. CASE clock.advance = 0
      <4>1. (clock.input + Spa) % Wrap \in Int
        <5>1. clock.input + Spa \in Int
          BY <1>3, Sizes
        <5> QED BY <5>1, ModInt, Zenon
      <4>2. due - Spa - ((clock.input + Spa) % Wrap) \in Int
        BY <1>3, <4>1, Sizes
      <4>3. h.advance \in 0 .. Wrap - 1
        BY <2>9, <4>2, ModCongruent
      <4>4. h.advance <= (0 + 3 * (Spa \div 4)) % Size
        BY <2>10, <3>1
      <4>5. (Spa + 0 - h.advance) % Wrap \in 0 .. Spa
        BY <4>3, <4>4, SplicedFirst
      <4> QED BY <3>1, <4>5
    <3>2. CASE Congruent(clock.advance, due - 2 * Spa - clock.input)
      <4>1. (Spa + clock.advance - h.advance) % Wrap = Spa
        BY <1>3, <2>9, <3>2, SplicedOn
      <4> QED BY <4>1, Sizes
    <3> QED BY <2>2, <3>1, <3>2
  <2>12. clock.rate \in Nat \ {0}
    BY <1>3, <2>2
  <2> QED BY <1>3, <2>8, <2>10, <2>11, <2>12, TooLong
<1> QED BY <1>2, <1>6, <1>8, <1>9

\* After any accepted branch, a stream that goes on is never taken for another.
THEOREM NeverFalseBranch == ClockSpec => NoFalseBranch
<1> DEFINE Kept == clock'.counter = clock.counter + 1 /\ clock.counter > 0 /\ aligned /\ ~drifted
                     /\ ~branched /\ GoesOn => ~branched'
<1>1. ClockTypes /\ Paced /\ [ClockNext]_clock_vars => [Kept]_clock_vars
  <2> SUFFICES ASSUME ClockTypes, Paced, ClockNext, aligned, ~drifted, ~branched, GoesOn PROVE ~branched'
    OBVIOUS
  <2>1. ASSUME NEW sync \in BOOLEAN, ReadUnit(sync) PROVE ~branched'
    BY <2>1, NoBranchOn
  <2>2. ASSUME NEW sync \in BOOLEAN, WrongParity(sync) \/ BrokenSegment(sync) PROVE ~branched'
    BY <2>2 DEF WrongParity, BrokenSegment
  <2>3. CASE NoInitialSync \/ Panic
    BY <2>3 DEF NoInitialSync, Panic
  <2> QED BY <2>1, <2>2, <2>3 DEF ClockNext
<1> QED BY <1>1, AlwaysPaced, PTL DEF ClockSpec, NoFalseBranch

-----------------------------------------------------------------------------
(***************************************************************************)
(* The high-resolution output timing                                       *)
(*                                                                         *)
(* A parser that saw a field begin keeps step with the zeros sent (Tracks);*)
(* one that was in state 5 when it began has collected what was sent, but  *)
(* for a one held back (Spells).  The rest is what whole fields do for a   *)
(* parser in any state (Whole), and that one which lost nothing since a    *)
(* branch never takes for a field what is none (Clean).                    *)
(***************************************************************************)

\* A set that holds 0 and, up to a bound, with a number the next one, holds all of them.
LEMMA Stepwise ==
  ASSUME NEW k \in Nat, NEW S, 0 \in S, \A n \in 1 .. k : n - 1 \in S => n \in S
  PROVE  \A n \in 0 .. k : n \in S
<1> DEFINE Missing == {n \in 0 .. k : n \notin S}
<1> SUFFICES ASSUME Missing # {} PROVE FALSE
  OBVIOUS
<1>1. Missing \subseteq Nat
  OBVIOUS
<1> HIDE DEF Missing
<1>2. PICK x \in Missing : \A y \in Missing : ~(<<y, x>> \in OpToRel(<, Nat))
  BY <1>1, NatLessThanWellFounded, WFMin
<1>3. x \in 1 .. k /\ x \notin S
  BY DEF Missing
<1>4. x - 1 \in Missing
  BY <1>3 DEF Missing
<1> DEFINE pair == <<x - 1, x>>
<1>5. pair \in Nat \X Nat /\ pair[1] = x - 1 /\ pair[2] = x
  BY <1>3
<1> HIDE DEF pair
<1>6. pair \in OpToRel(<, Nat)
  BY <1>3, <1>5 DEF OpToRel
<1> QED BY <1>2, <1>4, <1>6 DEF pair

\* Halving a number again and again yields numbers, each half of the one before it.
LEMMA Halves ==
  ASSUME NEW number \in Nat
  PROVE  /\ Halved(number)[0] = number
         /\ \A n \in 0 .. Digits : Halved(number)[n] \in Nat
         /\ \A n \in 1 .. Digits : Halved(number)[n] = Halved(number)[n - 1] \div 2
<1> DEFINE Upto(n) == {f \in [0 .. n -> Nat] : f[0] = number /\ \A i \in 1 .. n : f[i] = f[i - 1] \div 2}
           S == {n \in 0 .. Digits : Upto(n) # {}}
           Solves(half) == half = [n \in 0 .. Digits |-> IF n = 0 THEN number ELSE half[n - 1] \div 2]
           all == CHOOSE half : Solves(half)
<1>1. Digits \in Nat
  BY HiresAssumption
<1>2. 0 \in S
  <2>1. [n \in 0 .. 0 |-> number] \in Upto(0)
    OBVIOUS
  <2> QED BY <1>1, <2>1
<1>3. ASSUME NEW n \in 1 .. Digits, n - 1 \in S PROVE n \in S
  <2>1. PICK f \in [0 .. n - 1 -> Nat] : f[0] = number /\ \A i \in 1 .. n - 1 : f[i] = f[i - 1] \div 2
    BY <1>3
  <2> DEFINE g == [i \in 0 .. n |-> IF i = n THEN f[n - 1] \div 2 ELSE f[i]]
  <2>2. f[n - 1] \in Nat /\ f[n - 1] \div 2 \in Nat
    BY <1>1, <2>1
  <2>3. g \in [0 .. n -> Nat]
    BY <1>1, <2>1, <2>2
  <2>4. g[0] = number /\ \A i \in 1 .. n : g[i] = g[i - 1] \div 2
    BY <1>1, <2>1
  <2> HIDE DEF g
  <2>5. g \in Upto(n)
    BY <2>3, <2>4
  <2>6. n \in 0 .. Digits
    BY <1>1
  <2> QED BY <2>5, <2>6
<1>4. Digits \in S
  <2> HIDE DEF S
  <2>1. \A n \in 0 .. Digits : n \in S
    BY <1>1, <1>2, <1>3, Stepwise
  <2> QED BY <1>1, <2>1
<1>5. PICK f \in [0 .. Digits -> Nat] : f[0] = number /\ \A n \in 1 .. Digits : f[n] = f[n - 1] \div 2
  BY <1>4
<1>6. f = [n \in 0 .. Digits |-> IF n = 0 THEN number ELSE f[n - 1] \div 2]
  <2>1. \A n \in 0 .. Digits : n = 0 \/ n \in 1 .. Digits
    BY <1>1
  <2> QED BY <1>5, <2>1
<1>7. Solves(all)
  BY <1>6
<1>8. all = Halved(number)
  BY DEF Halved
<1> HIDE DEF all, Upto, S
<1>9. all[0] = number /\ \A n \in 1 .. Digits : all[n] = all[n - 1] \div 2
  BY <1>1, <1>7
<1>10. \A n \in 0 .. Digits : all[n] \in Nat
  <2> DEFINE T == {n \in 0 .. Digits : all[n] \in Nat}
  <2>1. 0 \in T
    BY <1>1, <1>9
  <2>2. \A n \in 1 .. Digits : n - 1 \in T => n \in T
    BY <1>1, <1>9
  <2> HIDE DEF T
  <2>3. \A n \in 0 .. Digits : n \in T
    BY <1>1, <2>1, <2>2, Stepwise
  <2> QED BY <2>3 DEF T
<1> QED BY <1>8, <1>9, <1>10

\* What the digits sent so far spell, one digit on.
LEMMA Spelling ==
  ASSUME NEW number \in Nat, NEW digits \in 0 .. Digits - 1
  PROVE  /\ Spelt(number, digits) \in Nat
         /\ NextDigit(number, digits) \in {0, 1}
         /\ Spelt(number, digits + 1) = 2 * Spelt(number, digits) + NextDigit(number, digits)
<1>1. Digits \in Nat
  BY HiresAssumption
<1> DEFINE n == Digits - digits
           more == Halved(number)[n - 1]
<1>2. n \in 1 .. Digits /\ n - 1 \in 0 .. Digits /\ n \in 0 .. Digits
  BY <1>1
<1>3. more \in Nat /\ Halved(number)[n] = more \div 2 /\ Halved(number)[n] \in Nat
  BY <1>2, Halves
<1>4. Spelt(number, digits) = more \div 2 /\ Spelt(number, digits + 1) = more
  <2>1. Digits - (digits + 1) = n - 1
    BY <1>1
  <2> QED BY <1>3, <2>1 DEF Spelt
<1> HIDE DEF more
<1>5. more = 2 * (more \div 2) + (more % 2) /\ more % 2 \in {0, 1}
  BY <1>3
<1> QED BY <1>3, <1>4, <1>5 DEF NextDigit

LEMMA Powers ==
  /\ 2^0 = 1
  /\ \A n \in 0 .. 4 : 2^n \in Nat /\ 2^(n + 1) \in Nat /\ 2^(n + 1) = 2 * 2^n
<1>1. 2^0 = 1 /\ 2^1 = 2 /\ 2^2 = 4 /\ 2^3 = 8 /\ 2^4 = 16 /\ 2^5 = 32
  OBVIOUS
<1> SUFFICES ASSUME NEW n \in 0 .. 4 PROVE 2^n \in Nat /\ 2^(n + 1) \in Nat /\ 2^(n + 1) = 2 * 2^n
  BY <1>1
<1>2. CASE n = 0
  BY <1>2
<1>3. CASE n = 1
  BY <1>3
<1>4. CASE n = 2
  BY <1>4
<1>5. CASE n = 3
  BY <1>5
<1>6. CASE n = 4
  BY <1>6
<1> QED BY <1>2, <1>3, <1>4, <1>5, <1>6

-----------------------------------------------------------------------------
(* The parser, bit by bit *)

Offset == 0 .. Lap - 1

Parser ==
  [state : 0 .. 15, timing : Nat, au : Nat, out : Offset,
   prevTiming : Nat, prevAu : Nat, prevOut : Offset, counter : 0 .. 3]

LEMMA ParserFields ==
  ASSUME NEW h \in Parser
  PROVE  /\ h.state \in 0 .. 15 /\ h.timing \in Nat /\ h.counter \in 0 .. 3 /\ h.au \in Nat /\ h.out \in Offset
         /\ h.prevTiming \in Nat /\ h.prevAu \in Nat /\ h.prevOut \in Offset
  BY DEF Parser

\* g is h but for the state, the number collected and the counter.
Differs(h, g, state, timing, counter) ==
  /\ g \in Parser /\ g.state = state /\ g.timing = timing /\ g.counter = counter
  /\ g.au = h.au /\ g.out = h.out
  /\ g.prevTiming = h.prevTiming /\ g.prevAu = h.prevAu /\ g.prevOut = h.prevOut

LEMMA NewState ==
  ASSUME NEW h \in Parser, NEW s \in 0 .. 15, NEW g, g = [h EXCEPT !.state = s]
  PROVE  Differs(h, g, s, h.timing, h.counter)
  BY DEF Parser, Differs

LEMMA NewStateAndTiming ==
  ASSUME NEW h \in Parser, NEW s \in 0 .. 15, NEW t \in Nat, NEW g, g = [h EXCEPT !.state = s, !.timing = t]
  PROVE  Differs(h, g, s, t, h.counter)
  BY DEF Parser, Differs

LEMMA NewStateAndCounter ==
  ASSUME NEW h \in Parser, NEW s \in 0 .. 15, NEW c \in 0 .. 3, NEW g, g = [h EXCEPT !.counter = c, !.state = s]
  PROVE  Differs(h, g, s, h.timing, c)
  BY DEF Parser, Differs

\* Only state 0 changes the counter before a field is over.
Kept(h) == IF h.state = 0 THEN 0 ELSE h.counter

LEMMA Searching ==
  ASSUME NEW h \in Parser, NEW bit \in {0, 1}, h.state \in 0 .. 4, NEW g, g = Search(h, bit)
  PROVE  Differs(h, g, IF bit = 0 THEN h.state + 1 ELSE 0, h.timing, Kept(h))
<1> DEFINE z == IF bit = 0 THEN h.state + 1 ELSE 0
<1>1. z \in 0 .. 15 /\ Kept(h) \in 0 .. 3
  BY ParserFields DEF Kept
<1>2. CASE h.state = 0
  <2>1. g = [h EXCEPT !.counter = Kept(h), !.state = z]
    <3>1. z = (IF bit = 0 THEN 1 ELSE 0) /\ Kept(h) = 0
      BY <1>2 DEF Kept
    <3> QED BY <1>2, <3>1 DEF Search
  <2> HIDE DEF z
  <2>2. Differs(h, g, z, h.timing, Kept(h))
    BY <1>1, <2>1, NewStateAndCounter
  <2> QED BY <2>2 DEF z
<1>3. CASE h.state # 0
  <2>1. g = [h EXCEPT !.state = z] /\ Kept(h) = h.counter
    BY <1>3 DEF Search, Kept
  <2> HIDE DEF z
  <2>2. Differs(h, g, z, h.timing, h.counter)
    BY <1>1, <2>1, NewState
  <2> QED BY <2>1, <2>2 DEF z
<1> QED BY <1>2, <1>3

LEMMA Beginning ==
  ASSUME NEW h \in Parser, NEW au \in Nat, NEW out \in Offset, NEW g, g = Begin(h, 1, au, out)
  PROVE  /\ g \in Parser /\ g.state = 6 /\ g.timing = 0 /\ g.counter = h.counter /\ g.au = au /\ g.out = out
         /\ g.prevTiming = h.prevTiming /\ g.prevAu = h.prevAu /\ g.prevOut = h.prevOut
<1>1. g = [h EXCEPT !.state = 6, !.timing = 0, !.au = au, !.out = out]
  BY DEF Begin
<1>2. /\ g.state = 6 /\ g.timing = 0 /\ g.au = au /\ g.out = out
      /\ g.counter = h.counter /\ g.prevTiming = h.prevTiming
  BY <1>1 DEF Parser
<1>3. g.prevAu = h.prevAu /\ g.prevOut = h.prevOut
  BY <1>1 DEF Parser
<1>4. g = [state |-> 6, timing |-> 0, au |-> au, out |-> out, prevTiming |-> h.prevTiming,
           prevAu |-> h.prevAu, prevOut |-> h.prevOut, counter |-> h.counter]
  BY <1>1 DEF Parser
<1>5. g \in Parser
  BY <1>4, ParserFields DEF Parser
<1> QED BY <1>2, <1>3, <1>5

\* A zero that does not end a field.
LEMMA ZeroBit ==
  ASSUME NEW h \in Parser, NEW sofar, NEW au \in Nat, NEW out \in Offset, h.state # 15,
         NEW done, done = Update(h, sofar, 0, au, out)
  PROVE  /\ done.output = sofar
         /\ Differs(h, done.hires, IF h.state \in {5, 10} THEN 0 ELSE h.state + 1, h.timing, Kept(h))
<1> DEFINE g == done.hires
<1>1. h.state \in 0 .. 15 /\ h.timing \in Nat
  BY ParserFields
<1>2. CASE h.state \in 0 .. 4
  <2>1. done = [hires |-> Search(h, 0), output |-> sofar]
    BY <1>2 DEF Update
  <2>2. g = Search(h, 0) /\ done.output = sofar
    BY <2>1
  <2> HIDE DEF g
  <2>3. Differs(h, g, IF 0 = 0 THEN h.state + 1 ELSE 0, h.timing, Kept(h))
    BY <1>2, <2>2, Searching
  <2>4. (IF 0 = 0 THEN h.state + 1 ELSE 0) = IF h.state \in {5, 10} THEN 0 ELSE h.state + 1
    BY <1>2
  <2> QED BY <2>2, <2>3, <2>4 DEF g
<1>3. CASE h.state \in {5, 10}
  <2>1. done = [hires |-> [h EXCEPT !.state = 0], output |-> sofar]
    BY <1>3 DEF Update, Begin, Zeros
  <2>2. g = [h EXCEPT !.state = 0] /\ done.output = sofar /\ Kept(h) = h.counter
    BY <1>3, <2>1 DEF Kept
  <2> HIDE DEF g
  <2>3. Differs(h, g, 0, h.timing, h.counter)
    BY <2>2, NewState
  <2> QED BY <1>3, <2>2, <2>3 DEF g
<1>4. CASE h.state \in 6 .. 9 \cup 11 .. 14
  <2> DEFINE s == h.state + 1
  <2>1. done = [hires |-> [h EXCEPT !.state = s], output |-> sofar]
    <3>1. CASE h.state \in 6 .. 9
      BY <3>1 DEF Update, Zeros
    <3>2. CASE h.state \in 11 .. 14
      <4>1. done = [hires |-> OneAndZeros(h, 0), output |-> sofar]
        BY <3>2 DEF Update
      <4>2. OneAndZeros(h, 0) = [h EXCEPT !.state = s, !.timing = h.timing]
        BY DEF OneAndZeros
      <4>3. [h EXCEPT !.state = s, !.timing = h.timing] = [h EXCEPT !.state = s]
        BY DEF Parser
      <4> QED BY <4>1, <4>2, <4>3
    <3> QED BY <1>4, <3>1, <3>2
  <2>2. g = [h EXCEPT !.state = s] /\ done.output = sofar /\ Kept(h) = h.counter
    BY <1>4, <2>1 DEF Kept
  <2>3. s \in 0 .. 15
    BY <1>4
  <2>4. s = IF h.state \in {5, 10} THEN 0 ELSE h.state + 1
    BY <1>4
  <2> HIDE DEF g, s
  <2>5. Differs(h, g, s, h.timing, h.counter)
    BY <2>2, <2>3, NewState
  <2> QED BY <2>2, <2>4, <2>5 DEF g
<1> QED BY <1>1, <1>2, <1>3, <1>4

\* A one: the first of a field, or another.
LEMMA FirstBit ==
  ASSUME NEW h \in Parser, NEW sofar, NEW au \in Nat, NEW out \in Offset, h.state = 5,
         NEW done, done = Update(h, sofar, 1, au, out), NEW g, g = done.hires
  PROVE  /\ done.output = sofar
         /\ g \in Parser /\ g.state = 6 /\ g.timing = 0 /\ g.counter = h.counter /\ g.au = au /\ g.out = out
         /\ g.prevTiming = h.prevTiming /\ g.prevAu = h.prevAu /\ g.prevOut = h.prevOut
<1>1. done = [hires |-> Begin(h, 1, au, out), output |-> sofar]
  BY DEF Update
<1>2. g = Begin(h, 1, au, out) /\ done.output = sofar
  BY <1>1
<1> QED BY <1>2, Beginning

LEMMA OneBit ==
  ASSUME NEW h \in Parser, NEW sofar, NEW au \in Nat, NEW out \in Offset, h.state # 5,
         NEW done, done = Update(h, sofar, 1, au, out)
  PROVE  /\ done.output = sofar
         /\ \E timing \in Nat :
              /\ Differs(h, done.hires,
                         IF h.state < 5 THEN 0 ELSE IF h.state \in {10, 15} THEN 6 ELSE 11, timing, Kept(h))
              /\ \A n \in 0 .. 4 : h.state = 6 + n => timing = h.timing * 2^n
              /\ \A n \in 0 .. 4 : h.state = 11 + n => timing = h.timing * 2^(n + 1) + 2^n
<1> DEFINE g == done.hires
           s == IF h.state < 5 THEN 0 ELSE IF h.state \in {10, 15} THEN 6 ELSE 11
<1>1. h.state \in 0 .. 15 /\ h.timing \in Nat /\ s \in 0 .. 15
  BY ParserFields
<1>2. CASE h.state \in 0 .. 4
  <2>1. done = [hires |-> Search(h, 1), output |-> sofar]
    BY <1>2 DEF Update
  <2>2. g = Search(h, 1) /\ done.output = sofar
    BY <2>1
  <2>3. s = IF 1 = 0 THEN h.state + 1 ELSE 0
    BY <1>2
  <2> HIDE DEF g, s
  <2>4. Differs(h, g, s, h.timing, Kept(h))
    BY <1>2, <2>2, <2>3, Searching
  <2>5. \A n \in 0 .. 4 : h.state # 6 + n /\ h.state # 11 + n
    BY <1>2
  <2> QED BY <1>1, <2>2, <2>4, <2>5 DEF g, s
<1>3. CASE h.state \in 6 .. 10
  <2>1. done = [hires |-> Zeros(h, 1), output |-> sofar]
    BY <1>3 DEF Update
  <2> DEFINE n == h.state - 6
             shifted == h.timing * 2^n
  <2>2. n \in 0 .. 4 /\ h.state = 6 + n /\ s = IF n = 4 THEN 6 ELSE 11
    BY <1>3
  <2>3. Zeros(h, 1) = [h EXCEPT !.state = IF n = 4 THEN 6 ELSE 11, !.timing = shifted]
    BY DEF Zeros
  <2> HIDE DEF n
  <2>4. shifted \in Nat
    <3>1. 2^n \in Nat
      BY <2>2, Powers, Zenon
    <3> QED BY <1>1, <3>1
  <2>5. \A m \in 0 .. 4 : h.state = 6 + m => m = n
    BY <2>2
  <2>6. \A m \in 0 .. 4 : h.state = 6 + m => shifted = h.timing * 2^m
    BY <2>5
  <2>7. \A m \in 0 .. 4 : h.state # 11 + m
    BY <1>3
  <2>8. g = [h EXCEPT !.state = s, !.timing = shifted] /\ done.output = sofar /\ Kept(h) = h.counter
    <3>1. h.state # 0
      BY <1>3
    <3> HIDE DEF s, shifted
    <3> QED BY <2>1, <2>2, <2>3, <3>1 DEF Kept
  <2> HIDE DEF g, s, shifted
  <2>9. Differs(h, g, s, shifted, h.counter)
    BY <1>1, <2>4, <2>8, NewStateAndTiming
  <2> QED BY <2>4, <2>6, <2>7, <2>8, <2>9 DEF g, s
<1>4. CASE h.state \in 11 .. 15
  <2>1. done = [hires |-> OneAndZeros(h, 1), output |-> sofar]
    BY <1>4 DEF Update
  <2> DEFINE n == h.state - 11
             count == h.state - 10
             shifted == h.timing * 2^(n + 1) + 2^n
  <2>2. n \in 0 .. 4 /\ h.state = 11 + n /\ count = n + 1 /\ count - 1 = n /\ s = IF count = 5 THEN 6 ELSE 11
    BY <1>4
  <2>3. OneAndZeros(h, 1) = [h EXCEPT !.state = IF count = 5 THEN 6 ELSE 11,
                                      !.timing = h.timing * 2^count + 2^(count - 1)]
    BY DEF OneAndZeros
  <2> HIDE DEF n, count
  <2>4. shifted \in Nat
    <3>1. 2^n \in Nat /\ 2^(n + 1) \in Nat
      BY <2>2, Powers, Zenon
    <3> QED BY <1>1, <3>1
  <2>5. \A m \in 0 .. 4 : h.state = 11 + m => m = n
    BY <2>2
  <2>6. \A m \in 0 .. 4 : h.state = 11 + m => shifted = h.timing * 2^(m + 1) + 2^m
    BY <2>5
  <2>7. \A m \in 0 .. 4 : h.state # 6 + m
    BY <1>4
  <2>8. h.timing * 2^count + 2^(count - 1) = shifted
    BY <2>2
  <2>9. g = [h EXCEPT !.state = s, !.timing = shifted] /\ done.output = sofar /\ Kept(h) = h.counter
    <3>1. h.state # 0
      BY <1>4
    <3> HIDE DEF s, shifted
    <3>2. OneAndZeros(h, 1) = [h EXCEPT !.state = s, !.timing = shifted]
      BY <2>2, <2>3, <2>8
    <3> QED BY <2>1, <3>1, <3>2 DEF Kept
  <2> HIDE DEF g, s, shifted
  <2>10. Differs(h, g, s, shifted, h.counter)
    BY <1>1, <2>4, <2>9, NewStateAndTiming
  <2> QED BY <2>4, <2>6, <2>7, <2>9, <2>10 DEF g, s
<1> QED BY <1>1, <1>2, <1>3, <1>4

LEMMA Refreshing ==
  ASSUME NEW h \in Parser, NEW g, g = Refreshed(h)
  PROVE  /\ g \in Parser /\ g.state = h.state /\ g.timing = h.timing /\ g.counter = h.counter
         /\ g.prevTiming = h.timing /\ g.prevAu = h.au /\ g.prevOut = h.out
  BY DEF Parser, Refreshed

\* The last zero of a field: what was read of it is kept, and remembered unless it does not follow.
LEMMA LastBit ==
  ASSUME NEW h \in Parser, NEW sofar, NEW au \in Nat, NEW out \in Offset, h.state = 15,
         NEW done, done = Update(h, sofar, 0, au, out), NEW g, g = done.hires
  PROVE  /\ g \in Parser
         /\ g.state = 5 /\ g.timing = h.timing
         /\ h.counter = 0 => done.output = h.timing * Lap + h.out - h.au * Unit
         /\ h.counter # 0 => done.output = sofar
         /\ h.counter = 0 \/ Follows(h) =>
              /\ g.prevTiming = h.timing /\ g.prevAu = h.au /\ g.prevOut = h.out
              /\ g.counter = IF h.counter < 3 THEN h.counter + 1 ELSE 3
<1> DEFINE c == IF h.counter < 3 THEN h.counter + 1 ELSE 3
           counted == [h EXCEPT !.counter = c, !.state = 5]
           read == h.timing * Lap + h.out - h.au * Unit
<1>1. done = Finish(h, sofar)
  BY DEF Update
<1>2. h.counter \in 0 .. 3 /\ c \in 0 .. 3 /\ (h.counter = 0 => c < 2) /\ (h.counter # 0 => c >= 2)
  BY ParserFields
<1>3. [h EXCEPT !.state = 5, !.counter = IF @ < 3 THEN @ + 1 ELSE @] = counted
  <2>1. (IF h.counter < 3 THEN h.counter + 1 ELSE h.counter) = c
    BY <1>2
  <2> HIDE DEF c
  <2> QED BY <2>1 DEF Parser
<1>4. Finish(h, sofar) =
        CASE counted.counter < 2 -> [hires |-> Refreshed(counted), output |-> read]
          [] counted.counter >= 2 /\ Follows(h) -> [hires |-> Refreshed(counted), output |-> sofar]
          [] OTHER -> [hires |-> [counted EXCEPT !.counter = 0], output |-> sofar]
  <2> HIDE DEF counted, read
  <2> QED BY <1>3 DEF Finish, read
<1> HIDE DEF c
<1>5. Differs(h, counted, 5, h.timing, c)
  <2> HIDE DEF counted
  <2>1. counted = [h EXCEPT !.counter = c, !.state = 5]
    BY DEF counted
  <2>2. 5 \in 0 .. 15
    OBVIOUS
  <2> QED BY <1>2, <2>1, <2>2, NewStateAndCounter
<1> HIDE DEF counted, read
<1>6. counted \in Parser /\ counted.counter = c /\ counted.timing = h.timing /\ counted.au = h.au /\ counted.out = h.out /\ counted.state = 5
  BY <1>5 DEF Differs
<1>7. CASE h.counter = 0
  <2>1. g = Refreshed(counted) /\ done.output = read
    BY <1>1, <1>2, <1>4, <1>6, <1>7
  <2>2. /\ g \in Parser /\ g.state = 5 /\ g.timing = h.timing /\ g.counter = c
        /\ g.prevTiming = h.timing /\ g.prevAu = h.au /\ g.prevOut = h.out
    BY <1>6, <2>1, Refreshing
  <2> QED BY <1>7, <2>1, <2>2 DEF c, read
<1>8. CASE h.counter # 0 /\ Follows(h)
  <2>1. counted.counter >= 2 /\ ~(counted.counter < 2)
    BY <1>2, <1>6, <1>8
  <2>2. g = Refreshed(counted) /\ done.output = sofar
    BY <1>1, <1>4, <1>8, <2>1
  <2>3. /\ g \in Parser /\ g.state = 5 /\ g.timing = h.timing /\ g.counter = c
        /\ g.prevTiming = h.timing /\ g.prevAu = h.au /\ g.prevOut = h.out
    BY <1>6, <2>2, Refreshing
  <2> QED BY <1>8, <2>2, <2>3 DEF c
<1>9. CASE h.counter # 0 /\ ~Follows(h)
  <2>1. counted.counter >= 2 /\ ~(counted.counter < 2)
    BY <1>2, <1>6, <1>9
  <2>2. g = [counted EXCEPT !.counter = 0] /\ done.output = sofar
    BY <1>1, <1>4, <1>9, <2>1
  <2>3. g = [counted EXCEPT !.counter = 0, !.state = 5]
    BY <1>6, <2>2 DEF Parser
  <2>4. Differs(counted, g, 5, counted.timing, 0)
    <3>1. 5 \in 0 .. 15 /\ 0 \in 0 .. 3
      OBVIOUS
    <3> QED BY <1>6, <2>3, <3>1, NewStateAndCounter
  <2>5. g \in Parser /\ g.state = 5 /\ g.timing = h.timing
    BY <1>6, <2>4 DEF Differs
  <2> QED BY <1>9, <2>2, <2>5
<1> QED BY <1>7, <1>8, <1>9

-----------------------------------------------------------------------------
(* The sender, bit by bit *)

\* Within a field, a bit is a zero of the end mark, a stuffed one, a digit, or the end mark's one.
MarksZero(p, q, bit) == p.mark \in 1 .. 5 /\ bit = 0 /\ q.mark = p.mark + 1
Stuffs(p, q, bit, number) ==
  p.mark = 0 /\ p.zeros = 4 /\ bit = 1 /\ q.mark = 0 /\ q.zeros = 0 /\ Spelt(number, q.digits) = Spelt(number, p.digits)
SendsZero(p, q, bit, number) ==
  /\ p.mark = 0 /\ p.zeros \in 0 .. 3 /\ bit = 0 /\ q.mark = 0 /\ q.zeros = p.zeros + 1
  /\ Spelt(number, q.digits) = 2 * Spelt(number, p.digits)
SendsOne(p, q, bit, number) ==
  /\ p.mark = 0 /\ p.zeros \in 0 .. 3 /\ bit = 1 /\ q.mark = 0 /\ q.zeros = 0
  /\ Spelt(number, q.digits) = 2 * Spelt(number, p.digits) + 1
MarksOne(p, q, bit, number) ==
  p.mark = 0 /\ p.zeros \in 0 .. 3 /\ bit = 1 /\ q.mark = 1 /\ q.zeros = 0 /\ Spelt(number, p.digits) = number

LEMMA PlaceFields ==
  ASSUME NEW p \in Place
  PROVE  p.digits \in 0 .. Digits /\ p.zeros \in 0 .. 4 /\ p.mark \in 0 .. 6
  BY DEF Place

LEMMA Sends ==
  ASSUME NEW number \in Nat, NEW p \in Place, ~FieldOver(p), NEW q, q = Following(number, p), NEW bit, bit = Bit(number, p)
  PROVE  /\ q \in Place
         /\ bit \in {0, 1}
         /\ Spelt(number, p.digits) \in Nat
         /\ \/ MarksZero(p, q, bit)
            \/ Stuffs(p, q, bit, number)
            \/ SendsZero(p, q, bit, number)
            \/ SendsOne(p, q, bit, number)
            \/ MarksOne(p, q, bit, number)
<1>1. Digits \in Nat /\ p.digits \in 0 .. Digits /\ p.zeros \in 0 .. 4 /\ p.mark \in 0 .. 6 /\ p.mark # 6
  BY HiresAssumption, PlaceFields DEF FieldOver
<1>2. Spelt(number, p.digits) \in Nat
  <2>1. Digits - p.digits \in 0 .. Digits
    BY <1>1
  <2> QED BY <2>1, Halves DEF Spelt
<1>3. CASE p.mark > 0
  <2> DEFINE m == p.mark + 1
  <2>1. q = [p EXCEPT !.mark = m] /\ bit = 0
    BY <1>1, <1>3 DEF Following, Bit, FieldOver
  <2>2. m \in 0 .. 6 /\ p.mark \in 1 .. 5
    BY <1>1, <1>3
  <2> HIDE DEF m
  <2>3. q \in Place /\ q.mark = m
    BY <2>1, <2>2 DEF Place
  <2> QED BY <1>2, <2>1, <2>2, <2>3 DEF m, MarksZero
<1>4. CASE p.mark = 0 /\ p.zeros = 4
  <2>1. q = [p EXCEPT !.zeros = 0] /\ bit = 1
    BY <1>4 DEF Following, Bit, FieldOver
  <2>2. q \in Place /\ q.mark = p.mark /\ q.zeros = 0 /\ q.digits = p.digits
    BY <2>1 DEF Place
  <2> QED BY <1>2, <1>4, <2>1, <2>2 DEF Stuffs
<1>5. CASE p.mark = 0 /\ p.zeros # 4 /\ p.digits < Digits
  <2> DEFINE d == p.digits + 1
             z == IF NextDigit(number, p.digits) = 0 THEN p.zeros + 1 ELSE 0
  <2>1. p.digits \in 0 .. Digits - 1 /\ d \in 0 .. Digits /\ z \in 0 .. 4 /\ p.zeros \in 0 .. 3
    BY <1>1, <1>5
  <2>2. q = [p EXCEPT !.digits = d, !.zeros = z]
    BY <1>1, <1>5 DEF Following, FieldOver
  <2>3. bit = NextDigit(number, p.digits)
    BY <1>1, <1>5 DEF Bit, FieldOver
  <2>4. /\ NextDigit(number, p.digits) \in {0, 1}
        /\ Spelt(number, d) = 2 * Spelt(number, p.digits) + NextDigit(number, p.digits)
    BY <2>1, Spelling
  <2>5. z = IF bit = 0 THEN p.zeros + 1 ELSE 0
    BY <2>3
  <2> HIDE DEF d, z
  <2>6. q \in Place /\ q.mark = p.mark /\ q.zeros = z /\ q.digits = d
    BY <2>1, <2>2 DEF Place
  <2>7. CASE bit = 0
    BY <1>2, <1>5, <2>1, <2>3, <2>4, <2>5, <2>6, <2>7 DEF SendsZero
  <2>8. CASE bit = 1
    BY <1>2, <1>5, <2>1, <2>3, <2>4, <2>5, <2>6, <2>8 DEF SendsOne
  <2> QED BY <2>3, <2>4, <2>7, <2>8
<1>6. CASE p.mark = 0 /\ p.zeros # 4 /\ p.digits = Digits
  <2>1. q = [p EXCEPT !.zeros = 0, !.mark = 1] /\ bit = 1
    BY <1>1, <1>6 DEF Following, Bit, FieldOver
  <2>2. q \in Place /\ q.mark = 1 /\ q.zeros = 0
    <3>1. q = [digits |-> p.digits, zeros |-> 0, mark |-> 1]
      BY <2>1 DEF Place
    <3> QED BY <1>1, <3>1 DEF Place
  <2>3. Spelt(number, p.digits) = number
    <3>1. Digits - p.digits = 0
      BY <1>1, <1>6
    <3> QED BY <3>1, Halves DEF Spelt
  <2> QED BY <1>1, <1>2, <1>6, <2>1, <2>2, <2>3 DEF MarksOne
<1> QED BY <1>1, <1>3, <1>4, <1>5, <1>6

-----------------------------------------------------------------------------
(* A bit of a field, sent and read *)

\* Zeros since the field began or since the last one.
Blank(p) == IF p.mark = 0 THEN p.zeros ELSE p.mark - 1

\* The states in which a parser can be that saw the field begin.
Tracks(h, p) == h.state = Blank(p) \/ (p.mark = 0 /\ h.state = 6 + Blank(p)) \/ h.state = 11 + Blank(p)

\* It has understood what was sent: a one last read is held back until it is known for a digit.
Spells(h, number, p) ==
  IF p.mark = 0
  THEN \/ h.state = 6 + p.zeros /\ h.timing * 2^p.zeros = Spelt(number, p.digits)
       \/ h.state = 11 + p.zeros /\ h.timing * 2^(p.zeros + 1) + 2^p.zeros = Spelt(number, p.digits)
  ELSE h.state = 10 + p.mark /\ h.timing = number

LEMMA OneAway ==
  ASSUME NEW number \in Nat, NEW p \in Place, ~FieldOver(p), NEW q, q = Following(number, p),
         NEW bit, bit = Bit(number, p)
  PROVE  /\ q \in Place
         /\ bit \in {0, 1}
         /\ Blank(p) \in 0 .. 4
         /\ Blank(q) = IF bit = 0 THEN Blank(p) + 1 ELSE 0
         /\ FieldOver(q) <=> p.mark = 5
         /\ p.mark = 0 <=> p.mark = 0 /\ q.mark \in 0 .. 1
         /\ q.mark = 0 => p.mark = 0 /\ Blank(q) <= 4
         /\ p.mark = 0 /\ bit = 0 => q.mark = 0 /\ Blank(p) <= 3
         /\ p.mark = 5 => bit = 0 /\ Blank(p) = 4
         /\ p.mark \in 1 .. 4 => bit = 0 /\ Blank(p) <= 3
<1>1. p.mark \in 0 .. 6 /\ p.mark # 6 /\ p.zeros \in 0 .. 4
  BY PlaceFields DEF FieldOver
<1>2. q \in Place /\ bit \in {0, 1}
  BY Sends
<1>3. q.mark \in 0 .. 6 /\ q.zeros \in 0 .. 4
  BY <1>2, PlaceFields
<1>4. \/ MarksZero(p, q, bit)
      \/ Stuffs(p, q, bit, number)
      \/ SendsZero(p, q, bit, number)
      \/ SendsOne(p, q, bit, number)
      \/ MarksOne(p, q, bit, number)
  BY Sends
<1>5. CASE MarksZero(p, q, bit)
  BY <1>1, <1>2, <1>3, <1>5 DEF MarksZero, Blank, FieldOver
<1>6. CASE Stuffs(p, q, bit, number)
  BY <1>1, <1>2, <1>3, <1>6 DEF Stuffs, Blank, FieldOver
<1>7. CASE SendsZero(p, q, bit, number)
  BY <1>1, <1>2, <1>3, <1>7 DEF SendsZero, Blank, FieldOver
<1>8. CASE SendsOne(p, q, bit, number)
  BY <1>1, <1>2, <1>3, <1>8 DEF SendsOne, Blank, FieldOver
<1>9. CASE MarksOne(p, q, bit, number)
  BY <1>1, <1>2, <1>3, <1>9 DEF MarksOne, Blank, FieldOver
<1> QED BY <1>4, <1>5, <1>6, <1>7, <1>8, <1>9

LEMMA StateAfter ==
  ASSUME NEW h \in Parser, NEW sofar, NEW au \in Nat, NEW out \in Offset, NEW bit \in {0, 1},
         NEW done, done = Update(h, sofar, bit, au, out), NEW g, g = done.hires
  PROVE  /\ g \in Parser
         /\ g.state = IF bit = 0
                      THEN IF h.state = 15 THEN 5 ELSE IF h.state \in {5, 10} THEN 0 ELSE h.state + 1
                      ELSE IF h.state < 5 THEN 0 ELSE IF h.state \in {5, 10, 15} THEN 6 ELSE 11
         /\ done.output = sofar \/ done.output = h.timing * Lap + h.out - h.au * Unit
<1>1. CASE bit = 0 /\ h.state = 15
  <2>1. /\ g \in Parser /\ g.state = 5
        /\ h.counter = 0 => done.output = h.timing * Lap + h.out - h.au * Unit
        /\ h.counter # 0 => done.output = sofar
    BY <1>1, LastBit
  <2> QED BY <1>1, <2>1
<1>2. CASE bit = 0 /\ h.state # 15
  <2>1. /\ done.output = sofar
        /\ Differs(h, g, IF h.state \in {5, 10} THEN 0 ELSE h.state + 1, h.timing, Kept(h))
    BY <1>2, ZeroBit
  <2> QED BY <1>2, <2>1 DEF Differs
<1>3. CASE bit = 1 /\ h.state = 5
  <2>1. g \in Parser /\ g.state = 6 /\ done.output = sofar
    BY <1>3, FirstBit
  <2> QED BY <1>3, <2>1
<1>4. CASE bit = 1 /\ h.state # 5
  <2>1. /\ done.output = sofar
        /\ \E timing \in Nat :
             Differs(h, g, IF h.state < 5 THEN 0 ELSE IF h.state \in {10, 15} THEN 6 ELSE 11, timing, Kept(h))
    BY <1>4, OneBit
  <2> QED BY <1>4, <2>1 DEF Differs
<1> QED BY <1>1, <1>2, <1>3, <1>4

\* Unless the bit ends a field, what is remembered stays.
LEMMA MemoryAfter ==
  ASSUME NEW h \in Parser, NEW sofar, NEW au \in Nat, NEW out \in Offset, NEW bit \in {0, 1},
         NEW done, done = Update(h, sofar, bit, au, out), NEW g, g = done.hires,
         ~(bit = 0 /\ h.state = 15)
  PROVE  /\ done.output = sofar
         /\ g.prevTiming = h.prevTiming /\ g.prevAu = h.prevAu /\ g.prevOut = h.prevOut
         /\ g.counter = Kept(h)
         /\ h.state # 5 => g.au = h.au /\ g.out = h.out
<1>1. CASE bit = 0
  BY <1>1, ZeroBit DEF Differs
<1>2. CASE bit = 1 /\ h.state = 5
  BY <1>2, FirstBit DEF Kept
<1>3. CASE bit = 1 /\ h.state # 5
  <2>1. /\ done.output = sofar
        /\ \E timing \in Nat :
             Differs(h, g, IF h.state < 5 THEN 0 ELSE IF h.state \in {10, 15} THEN 6 ELSE 11, timing, Kept(h))
    BY <1>3, OneBit
  <2> QED BY <2>1 DEF Differs
<1> QED BY <1>1, <1>2, <1>3

\* Within a field the parser stays where the zeros sent tell it to be.
LEMMA StaysOnTrack ==
  ASSUME NEW number \in Nat, NEW p \in Place, ~FieldOver(p), NEW q, q = Following(number, p),
         NEW h \in Parser, NEW sofar, NEW au \in Nat, NEW out \in Offset,
         NEW done, done = Update(h, sofar, Bit(number, p), au, out), NEW g, g = done.hires
  PROVE  /\ h.state <= Blank(p) => g.state <= Blank(q)
         /\ h.state = Blank(p) => g.state = Blank(q)
         /\ Tracks(h, p) => IF FieldOver(q) THEN g.state = 5 ELSE Tracks(g, q)
         /\ h.state <= Blank(p) => ~(Bit(number, p) = 0 /\ h.state = 15)
<1> DEFINE bit == Bit(number, p)
           b == Blank(p)
           c == Blank(q)
<1>1. /\ bit \in {0, 1} /\ b \in 0 .. 4 /\ c = (IF bit = 0 THEN b + 1 ELSE 0) /\ (FieldOver(q) <=> p.mark = 5)
      /\ q.mark = 0 => p.mark = 0 /\ c <= 4
      /\ p.mark = 0 /\ bit = 0 => q.mark = 0 /\ b <= 3
      /\ p.mark = 5 => bit = 0 /\ b = 4
      /\ p.mark \in 1 .. 4 => bit = 0 /\ b <= 3
  BY OneAway
<1>2. h.state \in 0 .. 15 /\ p.mark \in 0 .. 6 /\ p.mark # 6
  BY ParserFields, PlaceFields DEF FieldOver
<1>3. g.state = IF bit = 0
                THEN IF h.state = 15 THEN 5 ELSE IF h.state \in {5, 10} THEN 0 ELSE h.state + 1
                ELSE IF h.state < 5 THEN 0 ELSE IF h.state \in {5, 10, 15} THEN 6 ELSE 11
  BY <1>1, StateAfter
<1>4. p.mark = 0 /\ q.mark # 0 => bit = 1 /\ b <= 3
  <2>1. SUFFICES ASSUME p.mark = 0, q.mark # 0 PROVE bit = 1 /\ b <= 3
    OBVIOUS
  <2>2. MarksOne(p, q, bit, number)
    BY <2>1, Sends DEF MarksZero, Stuffs, SendsZero, SendsOne
  <2> QED BY <2>1, <2>2 DEF MarksOne, Blank
<1> HIDE DEF bit, b, c
<1>5. h.state <= b => g.state <= c
  BY <1>1, <1>2, <1>3
<1>6. h.state = b => g.state = c
  BY <1>1, <1>2, <1>3
<1>7. ASSUME Tracks(h, p) PROVE IF FieldOver(q) THEN g.state = 5 ELSE Tracks(g, q)
  <2>1. h.state = b \/ (p.mark = 0 /\ h.state = 6 + b) \/ h.state = 11 + b
    BY <1>7 DEF Tracks, b
  <2>2. CASE FieldOver(q)
    BY <1>1, <1>2, <1>3, <2>1, <2>2
  <2>3. CASE ~FieldOver(q)
    <3>1. g.state = c \/ (q.mark = 0 /\ g.state = 6 + c) \/ g.state = 11 + c
      <4>1. CASE p.mark # 0
        BY <1>1, <1>2, <1>3, <2>1, <2>3, <4>1
      <4>2. CASE p.mark = 0 /\ q.mark = 0
        BY <1>1, <1>2, <1>3, <2>1, <4>2
      <4>3. CASE p.mark = 0 /\ q.mark # 0
        BY <1>1, <1>2, <1>3, <1>4, <2>1, <4>3
      <4> QED BY <4>1, <4>2, <4>3
    <3> QED BY <2>3, <3>1 DEF Tracks, c
  <2> QED BY <2>2, <2>3
<1>8. h.state <= b => ~(bit = 0 /\ h.state = 15)
  BY <1>1, <1>2
<1> QED BY <1>5, <1>6, <1>7, <1>8 DEF b, c, bit

\* What it has understood, it has understood after the next bit.
LEMMA SpellsOn ==
  ASSUME NEW number \in Nat, NEW p \in Place, ~FieldOver(p), NEW q, q = Following(number, p),
         NEW h \in Parser, NEW sofar, NEW au \in Nat, NEW out \in Offset,
         NEW done, done = Update(h, sofar, Bit(number, p), au, out), NEW g, g = done.hires,
         Spells(h, number, p)
  PROVE  IF FieldOver(q) THEN h.state = 15 /\ Bit(number, p) = 0 /\ h.timing = number
         ELSE Spells(g, number, q) /\ h.state \notin {0, 5} /\ ~(Bit(number, p) = 0 /\ h.state = 15)
<1> DEFINE bit == Bit(number, p)
<1>1. h.state \in 0 .. 15 /\ p.mark \in 0 .. 6 /\ p.mark # 6 /\ p.zeros \in 0 .. 4 /\ h.timing \in Nat
  BY ParserFields, PlaceFields DEF FieldOver
<1>2. FieldOver(q) <=> p.mark = 5
  BY OneAway
<1>3. \/ MarksZero(p, q, bit)
      \/ Stuffs(p, q, bit, number)
      \/ SendsZero(p, q, bit, number)
      \/ SendsOne(p, q, bit, number)
      \/ MarksOne(p, q, bit, number)
  BY Sends
<1>4. Spelt(number, p.digits) \in Nat
  BY Sends
<1> DEFINE z == p.zeros
           spelt == Spelt(number, p.digits)
<1>5. ASSUME bit = 0, h.state # 15
      PROVE  g.state = (IF h.state \in {5, 10} THEN 0 ELSE h.state + 1) /\ g.timing = h.timing
  BY <1>5, ZeroBit DEF Differs
<1>6. ASSUME bit = 1, h.state # 5
      PROVE  /\ g.state = IF h.state < 5 THEN 0 ELSE IF h.state \in {10, 15} THEN 6 ELSE 11
             /\ g.timing \in Nat
             /\ \A n \in 0 .. 4 : h.state = 6 + n => g.timing = h.timing * 2^n
             /\ \A n \in 0 .. 4 : h.state = 11 + n => g.timing = h.timing * 2^(n + 1) + 2^n
  BY <1>6, OneBit DEF Differs
<1>7. ASSUME p.mark = 0
      PROVE  \/ h.state = 6 + z /\ h.timing * 2^z = spelt
             \/ h.state = 11 + z /\ h.timing * 2^(z + 1) + 2^z = spelt
  BY <1>7 DEF Spells
\* A one read now: the digits before it are the number collected.
<1>8. ASSUME p.mark = 0, bit = 1 PROVE g.state = (IF z = 4 THEN 6 ELSE 11) /\ g.timing = spelt
  <2>1. h.state # 5 /\ h.state >= 6
    BY <1>1, <1>7, <1>8
  <2>2. g.state = (IF z = 4 THEN 6 ELSE 11)
    BY <1>1, <1>6, <1>7, <1>8, <2>1
  <2>3. CASE h.state = 6 + z /\ h.timing * 2^z = spelt
    <3>1. g.timing = h.timing * 2^z
      BY <1>1, <1>6, <1>8, <2>1, <2>3
    <3> QED BY <2>2, <2>3, <3>1
  <2>4. CASE h.state = 11 + z /\ h.timing * 2^(z + 1) + 2^z = spelt
    <3>1. g.timing = h.timing * 2^(z + 1) + 2^z
      BY <1>1, <1>6, <1>8, <2>1, <2>4
    <3> QED BY <2>2, <2>4, <3>1
  <2> QED BY <1>7, <1>8, <2>3, <2>4
<1> HIDE DEF bit, spelt, z
<1>9. CASE MarksZero(p, q, bit)
  <2>1. h.state = 10 + p.mark /\ h.timing = number /\ p.mark \in 1 .. 5 /\ bit = 0 /\ q.mark = p.mark + 1
    BY <1>9 DEF Spells, MarksZero
  <2>2. CASE p.mark = 5
    BY <1>2, <2>1, <2>2 DEF bit
  <2>3. CASE p.mark # 5
    <3>1. g.state = h.state + 1 /\ g.timing = number
      BY <1>1, <1>5, <2>1, <2>3
    <3>2. g.state = 10 + q.mark /\ q.mark # 0 /\ h.state \notin {0, 5} /\ h.state # 15
      BY <1>1, <2>1, <2>3, <3>1
    <3>3. Spells(g, number, q)
      BY <3>1, <3>2 DEF Spells
    <3> QED BY <1>2, <2>3, <3>2, <3>3 DEF bit
  <2> QED BY <2>2, <2>3
<1>10. CASE Stuffs(p, q, bit, number)
  <2>1. p.mark = 0 /\ z = 4 /\ bit = 1 /\ q.mark = 0 /\ q.zeros = 0 /\ Spelt(number, q.digits) = spelt
    BY <1>10 DEF Stuffs, z, spelt
  <2>2. g.state = 6 /\ g.timing = spelt /\ g.timing * 2^0 = spelt
    BY <1>4, <1>8, <2>1, Powers DEF spelt
  <2>3. Spells(g, number, q)
    <3>1. g.state = 6 + q.zeros /\ g.timing * 2^q.zeros = Spelt(number, q.digits)
      BY <2>1, <2>2
    <3> QED BY <2>1, <3>1 DEF Spells
  <2> QED BY <1>2, <1>7, <2>1, <2>3 DEF bit
<1>11. CASE SendsZero(p, q, bit, number)
  <2>1. /\ p.mark = 0 /\ z \in 0 .. 3 /\ bit = 0 /\ q.mark = 0 /\ q.zeros = z + 1
        /\ Spelt(number, q.digits) = 2 * spelt
    BY <1>11 DEF SendsZero, z, spelt
  <2>2. h.state \notin {0, 5, 10, 15}
    BY <1>7, <2>1
  <2>3. g.state = h.state + 1 /\ g.timing = h.timing
    BY <1>5, <2>1, <2>2
  <2>4. 2^z \in Nat /\ 2^(z + 1) \in Nat /\ 2^(z + 1) = 2 * 2^z /\ 2^(z + 1 + 1) = 2 * 2^(z + 1) /\ 2^(z + 1 + 1) \in Nat
    <3>1. z \in 0 .. 4 /\ z + 1 \in 0 .. 4
      BY <2>1
    <3> QED BY <3>1, Powers, Zenon
  <2>5. CASE h.state = 6 + z /\ h.timing * 2^z = spelt
    <3>1. h.timing * 2^(z + 1) = 2 * spelt
      BY <1>1, <2>4, <2>5
    <3>2. g.state = 6 + q.zeros
      BY <2>1, <2>3, <2>5
    <3>3. g.timing * 2^q.zeros = Spelt(number, q.digits)
      BY <2>1, <2>3, <3>1
    <3> QED BY <1>2, <2>1, <2>2, <3>2, <3>3 DEF bit, Spells
  <2>6. CASE h.state = 11 + z /\ h.timing * 2^(z + 1) + 2^z = spelt
    <3>1. h.timing * 2^(z + 1 + 1) + 2^(z + 1) = 2 * spelt
      <4> DEFINE x == 2^z
                 y == 2^(z + 1)
      <4>1. x \in Nat /\ y \in Nat /\ y = 2 * x /\ 2^(z + 1 + 1) = 2 * y
        BY <2>4
      <4> HIDE DEF x, y
      <4>2. h.timing * (2 * y) = 2 * (h.timing * y)
        BY <1>1, <4>1
      <4>3. h.timing * y + x = spelt
        BY <2>6 DEF x, y
      <4>4. h.timing * y \in Nat
        BY <1>1, <4>1
      <4>5. h.timing * (2 * y) + y = 2 * spelt
        BY <4>1, <4>2, <4>3, <4>4
      <4> QED BY <4>1, <4>5 DEF y
    <3>2. g.state = 11 + q.zeros
      BY <2>1, <2>3, <2>6
    <3>3. g.timing * 2^(q.zeros + 1) + 2^q.zeros = Spelt(number, q.digits)
      BY <2>1, <2>3, <3>1
    <3> QED BY <1>2, <2>1, <2>2, <3>2, <3>3 DEF bit, Spells
  <2> QED BY <1>7, <2>1, <2>5, <2>6
<1>12. CASE SendsOne(p, q, bit, number)
  <2>1. /\ p.mark = 0 /\ z \in 0 .. 3 /\ bit = 1 /\ q.mark = 0 /\ q.zeros = 0
        /\ Spelt(number, q.digits) = 2 * spelt + 1
    BY <1>12 DEF SendsOne, z, spelt
  <2>2. g.state = 11 /\ g.timing = spelt
    BY <1>8, <2>1
  <2>3. spelt * 2^1 + 2^0 = 2 * spelt + 1
    BY <1>4 DEF spelt
  <2>4. g.state = 11 + q.zeros /\ q.zeros + 1 = 1
    BY <2>1, <2>2
  <2>5. g.timing * 2^(q.zeros + 1) + 2^q.zeros = Spelt(number, q.digits)
    BY <2>1, <2>2, <2>3, <2>4
  <2>6. h.state \notin {0, 5}
    BY <1>7, <2>1
  <2> QED BY <1>2, <2>1, <2>4, <2>5, <2>6 DEF bit, Spells
<1>13. CASE MarksOne(p, q, bit, number)
  <2>1. p.mark = 0 /\ z \in 0 .. 3 /\ bit = 1 /\ q.mark = 1 /\ q.zeros = 0 /\ spelt = number
    BY <1>13 DEF MarksOne, z, spelt
  <2>2. g.state = 11 /\ g.timing = number
    BY <1>8, <2>1
  <2>3. h.state \notin {0, 5}
    BY <1>7, <2>1
  <2> QED BY <1>2, <2>1, <2>2, <2>3 DEF bit, Spells
<1> QED BY <1>3, <1>9, <1>10, <1>11, <1>12, <1>13

-----------------------------------------------------------------------------
(* The invariant *)

HiresTypes ==
  /\ hires \in Parser
  /\ announced \in Int \cup {None}
  /\ units \in 0 .. MaxHeaders
  /\ time \in Nat
  /\ value \in Nat
  /\ place \in Place
  /\ intact \in -1 .. 2
  /\ lost \in 0 .. MaxLost
  /\ branches \in 0 .. MaxBranches

\* The number fits a field, and the next one will.
NumberFits ==
  /\ Halved(value)[Digits] = 0
  /\ \E join \in Joins : \E sent \in 0 .. units + lost : time = join + sent * Unit

\* A field with this number, begun in access unit au with this 16-bit time, puts access unit u at time t.
Tells(number, out, u, au, t) == number * Lap + out + (u - au) * Unit = t

\* The field under way is understood so far, and the time it began at was noted.
Understood ==
  /\ Spells(hires, value, place)
  /\ Tells(value, hires.out, units, hires.au, time)

\* What whole fields do for a parser, whatever was lost before.
Whole ==
  /\ intact = -1 => ~FieldOver(place)
  /\ intact >= 0 /\ ~FieldOver(place) => Tracks(hires, place)
  /\ intact >= 1 => IF FieldOver(place) THEN hires.state = 5 ELSE Understood
  /\ intact = 2 /\ FieldOver(place) => hires.timing = value

\* The time announced and the last field's tell the sender's.
Linked ==
  /\ announced \in Int
  /\ announced + units * Unit = time
  /\ Tells(hires.prevTiming, hires.prevOut, units, hires.prevAu, time)

\* Nothing was refused since the last branch: no field is taken for understood that was not.
Clean ==
  lost = 0 =>
    /\ intact = -1 => hires.counter = 0 /\ hires.state <= Blank(place)
    /\ intact = 0 => /\ hires.counter = 0
                     /\ IF FieldOver(place) THEN hires.state <= 5 ELSE hires.state = Blank(place) \/ Understood
    /\ intact = 1 => hires.counter <= 1
    /\ intact = 2 => hires.counter >= 1
    /\ hires.counter >= 1 => Linked

HiresInv == HiresTypes /\ NumberFits /\ Whole /\ Clean

LEMMA Constants ==
  /\ Lap \in Nat \ {0} /\ Unit \in Nat \ {0} /\ Digits \in Nat \ {0}
  /\ MaxHeaders \in Nat /\ MaxLost \in Nat
  /\ \A join \in Joins : join \in Nat
  BY HiresAssumption

\* A time, split as the parser sees it.
LEMMA Split ==
  ASSUME NEW t \in Nat
  PROVE  t \div Lap \in Nat /\ t % Lap \in Offset /\ (t \div Lap) * Lap + (t % Lap) = t
<1>1. Lap \in Nat \ {0}
  BY Constants
<1> QED BY <1>1 DEF Offset

LEMMA NextPlace ==
  ASSUME NEW number \in Nat, NEW p \in Place
  PROVE  /\ Bit(number, p) \in {0, 1}
         /\ Following(number, p) \in Place
         /\ FieldOver(p) => /\ Bit(number, p) = 1 /\ Following(number, p) = FieldBegins
                            /\ Blank(FieldBegins) = 0 /\ ~FieldOver(FieldBegins)
<1>1. CASE FieldOver(p)
  <2>1. Bit(number, p) = 1 /\ Following(number, p) = FieldBegins
    BY <1>1 DEF Bit, Following
  <2>2. FieldBegins \in Place
    BY Constants DEF FieldBegins, Place
  <2> QED BY <2>1, <2>2 DEF FieldBegins, FieldOver, Blank
<1>2. CASE ~FieldOver(p)
  BY <1>2, Sends
<1> QED BY <1>1, <1>2

LEMMA ResetParser ==
  ASSUME NEW h \in Parser, NEW g, g = ResetForBranch(h)
  PROVE  g \in Parser /\ g.state = 0 /\ g.counter = 0
<1>1. g = [h EXCEPT !.counter = 0, !.state = 0]
  BY DEF Parser, ResetForBranch
<1>2. 0 \in 0 .. 15 /\ 0 \in 0 .. 3
  OBVIOUS
<1>3. Differs(h, g, 0, h.timing, 0)
  BY <1>1, <1>2, NewStateAndCounter
<1> QED BY <1>3 DEF Differs

\* A field may begin with any time the sender reaches.
LEMMA TimeFits ==
  ASSUME HiresTypes, NumberFits
  PROVE  Halved(time \div Lap)[Digits] = 0
<1>1. PICK join \in Joins, sent \in 0 .. units + lost : time = join + sent * Unit
  BY DEF NumberFits
<1>2. sent \in 0 .. MaxHeaders + MaxLost
  BY <1>1, Constants DEF HiresTypes
<1>3. Halved((join + sent * Unit) \div Lap)[Digits] = 0
  BY <1>2, HiresAssumption
<1> QED BY <1>1, <1>3

LEMMA JoinFits ==
  ASSUME NEW join \in Joins
  PROVE  Halved(join \div Lap)[Digits] = 0
<1>1. join \in Nat /\ 0 \in 0 .. MaxHeaders + MaxLost /\ join + 0 * Unit = join
  BY Constants
<1>2. Halved((join + 0 * Unit) \div Lap)[Digits] = 0
  BY <1>1, HiresAssumption
<1> QED BY <1>1, <1>2

LEMMA StartOk ==
  HiresInit => HiresInv
<1> SUFFICES ASSUME HiresInit PROVE HiresInv
  OBVIOUS
<1> USE DEF HiresInit
<1>1. Fresh \in Parser /\ Fresh.state = 0 /\ Fresh.counter = 0
  <2>1. 0 \in Offset
    BY Constants DEF Offset
  <2> QED BY <2>1 DEF Fresh, Parser
<1>2. time \in Nat /\ value \in Nat
  <2>1. time \in Nat
    BY Constants
  <2> QED BY <2>1, Split
<1>3. place \in Place /\ FieldOver(place)
  BY Constants DEF Place, FieldOver
<1>4. HiresTypes
  <2>1. branches \in 0 .. MaxBranches
    BY HiresAssumption
  <2> QED BY <1>1, <1>2, <1>3, <2>1, Constants DEF HiresTypes
<1>5. NumberFits
  <2>1. Halved(value)[Digits] = 0
    BY JoinFits
  <2>2. time = time + 0 * Unit /\ 0 \in 0 .. units + lost
    BY <1>2, Constants
  <2> QED BY <2>1, <2>2 DEF NumberFits
<1>6. Whole
  BY <1>3 DEF Whole
<1>7. Clean
  BY <1>1, <1>3 DEF Clean
<1> QED BY <1>4, <1>5, <1>6, <1>7 DEF HiresInv

-----------------------------------------------------------------------------
(* Types, and what the sender still has to send *)

LEMMA HeaderTypes ==
  ASSUME HiresTypes, Header
  PROVE  HiresTypes'
<1> DEFINE number == Sending
           bit == Bit(number, place)
           done == Update(hires, announced, bit, units, time % Lap)
<1>1. number \in Nat /\ time % Lap \in Offset
  BY Split DEF HiresTypes, Sending
<1>2. bit \in {0, 1} /\ Following(number, place) \in Place
  BY <1>1, NextPlace DEF HiresTypes
<1>3. units \in Nat /\ hires \in Parser
  BY Constants DEF HiresTypes
<1>4. /\ done.hires \in Parser
      /\ done.output = announced \/ done.output = hires.timing * Lap + hires.out - hires.au * Unit
  <2> HIDE DEF bit
  <2> QED BY <1>1, <1>2, <1>3, StateAfter
<1>5. hires.timing * Lap + hires.out - hires.au * Unit \in Int
  BY <1>3, ParserFields, Constants DEF Offset
<1>6. /\ hires' = done.hires /\ announced' = done.output /\ units' = units + 1 /\ units < MaxHeaders
      /\ time' = time + Unit /\ value' = number /\ place' = Following(number, place)
      /\ lost' = lost /\ branches' = branches
      /\ intact' \in {intact, intact + 1} /\ intact' <= 2
  BY DEF Header, BitSent, HiresTypes
<1>7. announced' \in Int \cup {None}
  BY <1>4, <1>5, <1>6 DEF HiresTypes
<1> HIDE DEF number, done
<1>8. units' \in 0 .. MaxHeaders /\ time' \in Nat /\ intact' \in -1 .. 2
  BY <1>6, Constants DEF HiresTypes
<1> QED BY <1>1, <1>2, <1>4, <1>6, <1>7, <1>8 DEF HiresTypes

LEMMA RefusedTypes ==
  ASSUME HiresTypes, Refused
  PROVE  HiresTypes'
<1>1. Sending \in Nat
  BY Split DEF HiresTypes, Sending
<1>2. Following(Sending, place) \in Place
  BY <1>1, NextPlace DEF HiresTypes
<1>3. /\ lost < MaxLost /\ lost' = lost + 1 /\ time' = time + Unit /\ value' = Sending
      /\ place' = Following(Sending, place) /\ intact' \in {0, -1}
      /\ hires' = hires /\ announced' = announced /\ units' = units /\ branches' = branches
  BY DEF Refused, BitSent
<1>4. time' \in Nat /\ lost' \in 0 .. MaxLost /\ intact' \in -1 .. 2
  BY <1>3, Constants DEF HiresTypes
<1> QED BY <1>1, <1>2, <1>3, <1>4 DEF HiresTypes

LEMMA BranchTypes ==
  ASSUME HiresTypes, Branch
  PROVE  HiresTypes'
<1>1. PICK join \in Joins : \E entered \in Places(join \div Lap) : Enters(join, entered)
  BY DEF Branch
<1>2. PICK entered \in Places(join \div Lap) : Enters(join, entered)
  BY <1>1
<1> DEFINE number == join \div Lap
           bit == Bit(number, entered)
           h == ResetForBranch(hires)
           done == Update(h, announced, bit, units, join % Lap)
<1>3. join \in Nat /\ number \in Nat /\ join % Lap \in Offset /\ entered \in Place
  BY Constants, Split DEF Places
<1>4. bit \in {0, 1} /\ Following(number, entered) \in Place
  <2> HIDE DEF number
  <2> QED BY <1>3, NextPlace
<1>5. h \in Parser /\ units \in Nat
  BY ResetParser, Constants DEF HiresTypes
<1>6. done.hires \in Parser /\ (done.output = announced \/ done.output = h.timing * Lap + h.out - h.au * Unit)
  <2> HIDE DEF bit, h
  <2> QED BY <1>3, <1>4, <1>5, StateAfter
<1>7. h.timing * Lap + h.out - h.au * Unit \in Int
  <2> HIDE DEF h
  <2> QED BY <1>5, ParserFields, Constants DEF Offset
<1>8. announced' \in Int \cup {None}
  <2>1. announced' = done.output
    BY <1>2 DEF Enters
  <2> HIDE DEF h, done
  <2> QED BY <1>6, <1>7, <2>1 DEF HiresTypes
<1>9. units' \in 0 .. MaxHeaders /\ time' \in Nat /\ intact' \in -1 .. 2 /\ lost' \in 0 .. MaxLost
      /\ branches' \in 0 .. MaxBranches
  BY <1>2, <1>3, Constants, HiresAssumption DEF HiresTypes, Enters
<1>10. hires' = done.hires /\ value' = number /\ place' = Following(number, entered)
  BY <1>2 DEF Enters
<1> HIDE DEF number, done
<1> QED BY <1>3, <1>4, <1>6, <1>8, <1>9, <1>10 DEF HiresTypes

LEMMA StillFits ==
  ASSUME HiresInv, HiresNext
  PROVE  NumberFits'
<1>1. HiresTypes /\ NumberFits
  BY DEF HiresInv
<1>2. CASE Header \/ Refused
  <2>1. PICK join \in Joins, sent \in 0 .. units + lost : time = join + sent * Unit
    BY <1>1 DEF NumberFits
  <2>2. value' = Sending /\ time' = time + Unit /\ units' + lost' = units + lost + 1
    BY <1>1, <1>2, Constants DEF Header, Refused, BitSent, HiresTypes
  <2>3. Halved(value')[Digits] = 0
    <3>1. Halved(time \div Lap)[Digits] = 0 /\ Halved(value)[Digits] = 0
      BY <1>1, TimeFits DEF NumberFits
    <3> QED BY <2>2, <3>1 DEF Sending
  <2>4. sent + 1 \in 0 .. units' + lost' /\ time' = join + (sent + 1) * Unit
    <3>1. join \in Nat /\ Unit \in Nat /\ sent \in Nat /\ (sent + 1) * Unit = sent * Unit + Unit
      BY <1>1, Constants DEF HiresTypes
    <3>2. sent * Unit \in Nat
      BY <3>1
    <3> QED BY <1>1, <2>1, <2>2, <3>1, <3>2, Constants DEF HiresTypes
  <2> QED BY <2>3, <2>4 DEF NumberFits
<1>3. CASE Branch
  <2>1. PICK join \in Joins : time' = join + Unit /\ value' = join \div Lap /\ units' = units + 1 /\ lost' = 0
    BY <1>3 DEF Branch, Enters
  <2>2. Halved(value')[Digits] = 0
    BY <2>1, JoinFits
  <2>3. 1 \in 0 .. units' + lost' /\ time' = join + 1 * Unit
    BY <1>1, <2>1, Constants DEF HiresTypes
  <2> QED BY <2>2, <2>3 DEF NumberFits
<1> QED BY <1>2, <1>3 DEF HiresNext

-----------------------------------------------------------------------------
(* A restart header within a field, at its end, and at the beginning of one *)

\* What Header does, with the parser's input named.
HeaderReads(number, bit, out, done) ==
  /\ number \in Nat /\ bit \in {0, 1} /\ out \in Offset /\ units \in Nat /\ hires \in Parser /\ place \in Place
  /\ number = Sending /\ bit = Bit(number, place) /\ out = time % Lap
  /\ done = Update(hires, announced, bit, units, out)
  /\ hires' = done.hires /\ announced' = done.output
  /\ value' = number /\ place' = Following(number, place)
  /\ units' = units + 1 /\ time' = time + Unit /\ lost' = lost
  /\ intact' = IF FieldOver(place') /\ intact < 2 THEN intact + 1 ELSE intact

LEMMA Heads ==
  ASSUME HiresTypes, Header
  PROVE  LET number == Sending
             bit == Bit(number, place)
         IN  HeaderReads(number, bit, time % Lap, Update(hires, announced, bit, units, time % Lap))
<1>1. Sending \in Nat /\ time % Lap \in Offset /\ units \in Nat
  BY Split, Constants DEF HiresTypes, Sending
<1>2. Bit(Sending, place) \in {0, 1}
  BY <1>1, NextPlace DEF HiresTypes
<1> QED BY <1>1, <1>2 DEF HeaderReads, Header, BitSent, HiresTypes

\* It does so for the next access unit too.
LEMMA OneHeaderOn ==
  ASSUME NEW n \in Nat, NEW b \in Offset, NEW u \in Nat, NEW v \in Nat, NEW t \in Nat, Tells(n, b, u, v, t)
  PROVE  Tells(n, b, u + 1, v, t + Unit)
<1>1. Unit \in Nat /\ n * Lap \in Int /\ b \in Int
  BY Constants DEF Offset
<1>2. (u + 1 - v) * Unit = (u - v) * Unit + Unit /\ (u - v) * Unit \in Int
  BY <1>1
<1>3. n * Lap + b + (u - v) * Unit = t
  BY DEF Tells
<1>4. n * Lap + b + (u + 1 - v) * Unit = t + Unit
  BY <1>1, <1>2, <1>3
<1> QED BY <1>4 DEF Tells

LEMMA ReadingOn ==
  ASSUME HiresTypes, NEW number, NEW bit, NEW out, NEW done, HeaderReads(number, bit, out, done),
         ~FieldOver(place), ~FieldOver(place'), Understood
  PROVE  Understood' /\ hires.state # 0 /\ ~(bit = 0 /\ hires.state = 15)
<1>1. number = value /\ value' = value /\ units' = units + 1 /\ time' = time + Unit
  BY DEF HeaderReads, Sending
<1>2. Spells(hires', value, place') /\ hires.state \notin {0, 5} /\ ~(bit = 0 /\ hires.state = 15)
  BY <1>1, SpellsOn DEF Understood, HeaderReads
<1>3. hires'.au = hires.au /\ hires'.out = hires.out
  BY <1>2, MemoryAfter DEF HeaderReads
<1>4. value \in Nat /\ hires.out \in Offset /\ hires.au \in Nat /\ units \in Nat /\ time \in Nat
  BY ParserFields, Constants DEF HiresTypes
<1>5. Tells(value, hires.out, units + 1, hires.au, time + Unit)
  BY <1>4, OneHeaderOn DEF Understood
<1>6. Tells(value', hires'.out, units', hires'.au, time')
  BY <1>1, <1>3, <1>5
<1>7. Spells(hires', value', place')
  BY <1>1, <1>2
<1> QED BY <1>2, <1>6, <1>7 DEF Understood

LEMMA LinkKept ==
  ASSUME HiresTypes, NEW number, NEW bit, NEW out, NEW done, HeaderReads(number, bit, out, done),
         ~(bit = 0 /\ hires.state = 15), Linked
  PROVE  Linked'
<1>1. /\ announced' = announced /\ hires'.prevTiming = hires.prevTiming
      /\ hires'.prevAu = hires.prevAu /\ hires'.prevOut = hires.prevOut
      /\ units' = units + 1 /\ time' = time + Unit
  BY MemoryAfter DEF HeaderReads
<1>2. /\ hires.prevTiming \in Nat /\ hires.prevOut \in Offset /\ hires.prevAu \in Nat
      /\ units \in Nat /\ time \in Nat /\ Unit \in Nat
  BY ParserFields, Constants DEF HiresTypes
<1>3. /\ Tells(hires.prevTiming, hires.prevOut, units, hires.prevAu, time)
      /\ announced \in Int /\ announced + units * Unit = time
  BY DEF Linked
<1>4. Tells(hires.prevTiming, hires.prevOut, units + 1, hires.prevAu, time + Unit)
  BY <1>2, <1>3, OneHeaderOn
<1>5. announced + (units + 1) * Unit = time + Unit
  <2>1. (units + 1) * Unit = units * Unit + Unit /\ units * Unit \in Int
    BY <1>2
  <2> QED BY <1>2, <1>3, <2>1
<1>6. Tells(hires'.prevTiming, hires'.prevOut, units', hires'.prevAu, time')
  BY <1>1, <1>4
<1>7. announced' \in Int /\ announced' + units' * Unit = time'
  BY <1>1, <1>3, <1>5
<1> QED BY <1>6, <1>7 DEF Linked

\* Within a field.
LEMMA HeaderWithin ==
  ASSUME HiresInv, Header, ~FieldOver(place), ~FieldOver(place')
  PROVE  Whole' /\ Clean'
<1>1. PICK number, bit, out, done : HeaderReads(number, bit, out, done)
  BY Heads DEF HiresInv
<1>2. HiresTypes /\ Whole /\ Clean /\ intact \in -1 .. 2 /\ hires.counter \in 0 .. 3
  BY ParserFields DEF HiresInv, HiresTypes
<1>3. intact' = intact /\ lost' = lost
  BY <1>1 DEF HeaderReads
<1>4. /\ hires.state <= Blank(place) => hires'.state <= Blank(place')
      /\ hires.state = Blank(place) => hires'.state = Blank(place')
      /\ Tracks(hires, place) => Tracks(hires', place')
      /\ hires.state <= Blank(place) => ~(bit = 0 /\ hires.state = 15)
  BY <1>1, StaysOnTrack DEF HeaderReads
<1>5. Understood => Understood' /\ hires.state # 0 /\ ~(bit = 0 /\ hires.state = 15)
  BY <1>1, <1>2, ReadingOn
<1>6. ~(bit = 0 /\ hires.state = 15) => hires'.counter = Kept(hires)
  BY <1>1, MemoryAfter DEF HeaderReads
<1>7. ~(bit = 0 /\ hires.state = 15) /\ Linked => Linked'
  BY <1>1, <1>2, LinkKept
<1>8. Whole'
  BY <1>2, <1>3, <1>4, <1>5 DEF Whole
<1>9. ASSUME lost = 0 PROVE
        /\ ~(bit = 0 /\ hires.state = 15)
        /\ intact = -1 => hires'.counter = 0 /\ hires'.state <= Blank(place')
        /\ intact = 0 => hires'.counter = 0 /\ (hires'.state = Blank(place') \/ Understood')
        /\ intact = 1 => hires'.counter <= 1
        /\ intact = 2 => hires'.counter >= 1
        /\ hires'.counter >= 1 => hires.counter >= 1
  <2>1. /\ intact = -1 => hires.counter = 0 /\ hires.state <= Blank(place)
        /\ intact = 0 => hires.counter = 0 /\ (hires.state = Blank(place) \/ Understood)
        /\ intact = 1 => hires.counter <= 1 /\ Understood
        /\ intact = 2 => hires.counter >= 1 /\ Understood
    BY <1>2, <1>9 DEF Clean, Whole
  <2>2. hires.state \in Nat /\ Blank(place) \in Nat
    <3>1. place \in Place
      BY <1>2 DEF HiresTypes
    <3> QED BY <1>2, <3>1, ParserFields, PlaceFields DEF HiresTypes, Blank
  <2>3. intact = -1 \/ intact = 0 \/ intact = 1 \/ intact = 2
    BY <1>2
  <2>4. hires.state = Blank(place) => hires.state <= Blank(place)
    BY <2>2
  <2>5. ~(bit = 0 /\ hires.state = 15)
    BY <1>4, <1>5, <2>1, <2>3, <2>4
  <2>6. hires'.counter = Kept(hires)
    BY <1>6, <2>5
  <2>7. hires.counter = 0 => Kept(hires) = 0
    BY DEF Kept
  <2>8. Understood => Kept(hires) = hires.counter
    BY <1>5 DEF Kept
  <2>9. Kept(hires) >= 1 => hires.counter >= 1
    BY <1>2 DEF Kept
  <2> QED BY <1>4, <1>5, <2>1, <2>3, <2>5, <2>6, <2>7, <2>8, <2>9
<1>10. Clean'
  <2>1. SUFFICES ASSUME lost = 0 PROVE
          /\ intact = -1 => hires'.counter = 0 /\ hires'.state <= Blank(place')
          /\ intact = 0 => hires'.counter = 0 /\ (hires'.state = Blank(place') \/ Understood')
          /\ intact = 1 => hires'.counter <= 1
          /\ intact = 2 => hires'.counter >= 1
          /\ hires'.counter >= 1 => Linked'
    BY <1>3 DEF Clean
  <2>2. hires'.counter >= 1 => Linked
    BY <1>2, <1>9, <2>1 DEF Clean
  <2> QED BY <1>7, <1>9, <2>1, <2>2
<1> QED BY <1>8, <1>10

\* A new field.
LEMMA HeaderBegins ==
  ASSUME HiresInv, Header, FieldOver(place)
  PROVE  Whole' /\ Clean'
<1>1. PICK number, bit, out, done : HeaderReads(number, bit, out, done) /\ number = time \div Lap /\ out = time % Lap
  <2>1. Sending = time \div Lap
    BY DEF Sending
  <2> QED BY <2>1, Heads DEF HiresInv, HeaderReads
<1>2. HiresTypes /\ NumberFits /\ Whole /\ Clean /\ intact \in -1 .. 2 /\ hires.counter \in 0 .. 3
  BY ParserFields DEF HiresInv, HiresTypes
<1>3. bit = 1 /\ place' = FieldBegins /\ ~FieldOver(place') /\ Blank(place') = 0 /\ place'.mark = 0
  BY <1>1, NextPlace DEF HeaderReads, FieldBegins
<1>4. intact' = intact /\ lost' = lost /\ intact >= 0
  BY <1>1, <1>2, <1>3 DEF HeaderReads, Whole
<1>5. hires'.state = IF hires.state < 5 THEN 0 ELSE IF hires.state \in {5, 10, 15} THEN 6 ELSE 11
  BY <1>1, <1>3, StateAfter DEF HeaderReads
<1>6. Tracks(hires', place')
  BY <1>3, <1>5 DEF Tracks
<1>7. hires'.counter = Kept(hires)
  BY <1>1, <1>3, MemoryAfter DEF HeaderReads
<1>8. ASSUME hires.state = 5 PROVE Understood' /\ Kept(hires) = hires.counter
  <2>1. hires'.state = 6 /\ hires'.timing = 0 /\ hires'.au = units /\ hires'.out = out
    BY <1>1, <1>3, <1>8, FirstBit DEF HeaderReads
  <2>2. Spells(hires', number, place')
    <3>1. place'.zeros = 0 /\ place'.digits = 0
      BY <1>3 DEF FieldBegins
    <3>2. Spelt(number, 0) = 0
      <4>1. Digits - 0 = Digits
        BY Constants
      <4> QED BY <1>1, <1>2, <4>1, TimeFits DEF Spelt
    <3>3. hires'.timing * 2^place'.zeros = Spelt(number, place'.digits)
      <4>1. 0 * 2^0 = 0
        OBVIOUS
      <4> QED BY <2>1, <3>1, <3>2, <4>1
    <3>4. hires'.state = 6 + place'.zeros
      BY <2>1, <3>1
    <3> QED BY <1>3, <3>3, <3>4 DEF Spells
  <2>3. Tells(number, out, units + 1, units, time + Unit)
    <3>1. number * Lap + out = time
      BY <1>1, <1>2, Split DEF HiresTypes
    <3>2. ((units + 1) - units) * Unit = Unit
      BY <1>2, Constants DEF HiresTypes
    <3>3. Unit \in Nat /\ time \in Nat
      BY <1>2, Constants DEF HiresTypes
    <3>4. number * Lap + out + ((units + 1) - units) * Unit = time + Unit
      BY <3>1, <3>2, <3>3
    <3> QED BY <3>4 DEF Tells
  <2>4. value' = number /\ units' = units + 1 /\ time' = time + Unit
    BY <1>1 DEF HeaderReads
  <2>5. Kept(hires) = hires.counter
    BY <1>8 DEF Kept
  <2>6. Tells(value', hires'.out, units', hires'.au, time')
    BY <2>1, <2>3, <2>4
  <2>7. Spells(hires', value', place')
    BY <2>2, <2>4
  <2> QED BY <2>5, <2>6, <2>7 DEF Understood
<1>9. Linked => Linked'
  BY <1>1, <1>2, <1>3, LinkKept
<1>10. Whole'
  BY <1>2, <1>3, <1>4, <1>6, <1>8 DEF Whole
<1>11. Clean'
  <2>1. SUFFICES ASSUME lost = 0 PROVE
          /\ intact = 0 => hires'.counter = 0 /\ (hires'.state = Blank(place') \/ Understood')
          /\ intact = 1 => hires'.counter <= 1
          /\ intact = 2 => hires'.counter >= 1
          /\ hires'.counter >= 1 => Linked'
    BY <1>2, <1>3, <1>4 DEF Clean
  <2>2. /\ intact = 0 => hires.counter = 0 /\ hires.state <= 5
        /\ intact = 1 => hires.counter <= 1 /\ hires.state = 5
        /\ intact = 2 => hires.counter >= 1 /\ hires.state = 5
        /\ hires.counter >= 1 => Linked
    BY <1>2, <2>1 DEF Clean, Whole
  <2>3. Kept(hires) <= hires.counter
    BY <1>2 DEF Kept
  <2>4. ASSUME intact = 0 PROVE hires'.counter = 0 /\ (hires'.state = Blank(place') \/ Understood')
    <3>1. hires'.counter = 0
      BY <1>7, <2>2, <2>4 DEF Kept
    <3>2. hires.state \in 0 .. 15
      BY <1>2, ParserFields DEF HiresTypes
    <3>3. CASE hires.state = 5
      BY <1>8, <3>1, <3>3
    <3>4. CASE hires.state # 5
      <4>1. hires.state < 5
        BY <2>2, <2>4, <3>2, <3>4
      <4> QED BY <1>3, <1>5, <3>1, <4>1
    <3> QED BY <3>3, <3>4
  <2>5. intact = 1 => hires'.counter <= 1
    BY <1>7, <1>8, <2>2
  <2>6. intact = 2 => hires'.counter >= 1
    BY <1>7, <1>8, <2>2
  <2>7. hires'.counter >= 1 => hires.counter >= 1
    BY <1>2, <1>7 DEF Kept
  <2> QED BY <1>9, <2>2, <2>4, <2>5, <2>6, <2>7
<1> QED BY <1>10, <1>11

\* A sum of whole laps and less than one is split in one way only.
LEMMA SplitOnce ==
  ASSUME NEW q \in Int, NEW r \in Offset, NEW n \in Int, n = q * Lap + r
  PROVE  q = n \div Lap
<1>1. Lap \in Nat \ {0} /\ r \in Nat /\ r < Lap
  BY Constants DEF Offset
<1> DEFINE k == n \div Lap
           m == n % Lap
<1>2. k \in Int /\ m \in Nat /\ m < Lap /\ n = k * Lap + m
  BY <1>1
<1> HIDE DEF k, m
<1>3. (q - k) * Lap = m - r
  <2>1. (q - k) * Lap = q * Lap - k * Lap
    BY <1>1, <1>2
  <2>2. q * Lap \in Int /\ k * Lap \in Int
    BY <1>1, <1>2
  <2> QED BY <1>1, <1>2, <2>1, <2>2
<1>4. q - k < 1 /\ q - k > -1
  <2>1. ASSUME q - k >= 1 PROVE FALSE
    <3>1. (q - k) * Lap >= Lap
      BY <1>1, <1>2, <2>1
    <3> QED BY <1>1, <1>2, <1>3, <3>1
  <2>2. ASSUME q - k <= -1 PROVE FALSE
    <3>1. (q - k) * Lap <= -Lap
      BY <1>1, <1>2, <2>2
    <3> QED BY <1>1, <1>2, <1>3, <3>1
  <2> QED BY <1>1, <1>2, <2>1, <2>2
<1> QED BY <1>2, <1>4 DEF k

\* A field whose times agree with those of the last one follows it.
LEMMA TimesFollow ==
  ASSUME HiresTypes, Linked, hires.timing = value, Tells(value, hires.out, units, hires.au, time)
  PROVE  Follows(hires)
<1>1. /\ hires.timing \in Nat /\ hires.prevTiming \in Nat /\ hires.au \in Nat /\ hires.prevAu \in Nat
      /\ hires.out \in Offset /\ hires.prevOut \in Offset /\ units \in Nat /\ time \in Nat /\ value \in Nat
      /\ Lap \in Nat \ {0} /\ Unit \in Nat \ {0}
  BY ParserFields, Constants DEF HiresTypes
<1>2. hires.prevTiming * Lap + hires.prevOut + (units - hires.prevAu) * Unit = time
  BY DEF Linked, Tells
<1> DEFINE n == hires.prevOut + (hires.au - hires.prevAu) * Unit
           q == hires.timing - hires.prevTiming
<1>3. n = q * Lap + hires.out
  <2>1. (hires.au - hires.prevAu) * Unit = (units - hires.prevAu) * Unit - (units - hires.au) * Unit
    BY <1>1
  <2>2. q * Lap = hires.timing * Lap - hires.prevTiming * Lap
    BY <1>1
  <2>3. /\ (units - hires.prevAu) * Unit \in Int /\ (units - hires.au) * Unit \in Int
        /\ hires.timing * Lap \in Int /\ hires.prevTiming * Lap \in Int /\ hires.out \in Int /\ hires.prevOut \in Int
    BY <1>1 DEF Offset
  <2>4. hires.timing * Lap + hires.out + (units - hires.au) * Unit = time
    BY DEF Tells
  <2> DEFINE a == (units - hires.prevAu) * Unit
             b == (units - hires.au) * Unit
             c == hires.timing * Lap
             d == hires.prevTiming * Lap
             f == (hires.au - hires.prevAu) * Unit
  <2>5. /\ a \in Int /\ b \in Int /\ c \in Int /\ d \in Int /\ hires.out \in Int /\ hires.prevOut \in Int
        /\ f = a - b /\ d + hires.prevOut + a = time /\ c + hires.out + b = time
    BY <1>2, <2>1, <2>3, <2>4
  <2> DEFINE laps == q * Lap
  <2>6. n = hires.prevOut + f /\ laps = c - d
    BY <2>2
  <2> HIDE DEF a, b, c, d, f, n, laps
  <2>7. n = laps + hires.out
    BY <1>1, <2>5, <2>6
  <2> QED BY <2>7 DEF laps
<1>4. n \in Int /\ q \in Int
  BY <1>1 DEF Offset
<1> HIDE DEF n, q
<1>5. q = n \div Lap
  BY <1>1, <1>3, <1>4, SplitOnce
<1> QED BY <1>5 DEF n, q, Follows

\* The end of a field.
LEMMA HeaderEnds ==
  ASSUME HiresInv, Header, ~FieldOver(place), FieldOver(place')
  PROVE  Whole' /\ Clean'
<1>1. PICK number, bit, out, done : HeaderReads(number, bit, out, done)
  BY Heads DEF HiresInv
<1>2. HiresTypes /\ Whole /\ Clean /\ intact \in -1 .. 2 /\ hires.counter \in 0 .. 3
  BY ParserFields DEF HiresInv, HiresTypes
<1>3. intact' = (IF intact < 2 THEN intact + 1 ELSE intact) /\ lost' = lost /\ value' = value
      /\ units' = units + 1 /\ time' = time + Unit /\ number = value
  BY <1>1 DEF HeaderReads, Sending
<1>4. Blank(place') = 5
  BY DEF FieldOver, Blank
<1>5. /\ hires.state <= Blank(place) => hires'.state <= 5 /\ ~(bit = 0 /\ hires.state = 15)
      /\ Tracks(hires, place) => hires'.state = 5
  BY <1>1, <1>4, StaysOnTrack DEF HeaderReads
<1>6. Understood => hires.state = 15 /\ bit = 0 /\ hires.timing = value
  BY <1>1, <1>3, SpellsOn DEF HeaderReads, Understood
<1>7. ASSUME Understood
      PROVE  /\ hires'.timing = value
             /\ hires.counter = 0 => announced' = hires.timing * Lap + hires.out - hires.au * Unit
             /\ hires.counter # 0 => announced' = announced
             /\ hires.counter = 0 \/ Follows(hires) =>
                  /\ hires'.prevTiming = hires.timing /\ hires'.prevAu = hires.au /\ hires'.prevOut = hires.out
                  /\ hires'.counter = IF hires.counter < 3 THEN hires.counter + 1 ELSE 3
  BY <1>1, <1>6, <1>7, LastBit DEF HeaderReads
<1>8. Whole'
  <2>1. intact' >= 0 /\ (intact' >= 1 => intact >= 0) /\ (intact' = 2 => intact >= 1)
    BY <1>2, <1>3
  <2>2. intact >= 0 => hires'.state = 5
    BY <1>2, <1>5 DEF Whole
  <2>3. intact >= 1 => hires'.timing = value
    BY <1>2, <1>7 DEF Whole
  <2>4. intact' # -1
    BY <2>1
  <2> QED BY <1>3, <2>1, <2>2, <2>3, <2>4 DEF Whole
<1>9. ASSUME lost = 0, Understood, hires.counter >= 1 => Linked
      PROVE  hires'.counter >= 1 /\ (hires.counter = 0 => hires'.counter = 1) /\ Linked'
  <2>1. /\ hires.timing \in Nat /\ hires.au \in Nat /\ hires.out \in Int /\ units \in Nat /\ time \in Nat
        /\ Lap \in Nat /\ Unit \in Nat /\ value * Lap \in Int
    BY <1>2, ParserFields, Constants DEF HiresTypes, Offset
  <2>2. Tells(value, hires.out, units, hires.au, time) /\ hires.timing = value
    BY <1>6, <1>9 DEF Understood
  <2>3. hires.counter = 0 \/ Follows(hires)
    BY <1>2, <1>9, <2>2, TimesFollow
  <2>4. hires'.counter = (IF hires.counter < 3 THEN hires.counter + 1 ELSE 3)
        /\ hires'.prevTiming = value /\ hires'.prevAu = hires.au /\ hires'.prevOut = hires.out
    BY <1>7, <1>9, <2>2, <2>3
  <2>5. Tells(value, hires.out, units + 1, hires.au, time + Unit)
    <3>1. value \in Nat /\ hires.out \in Offset
      BY <1>2, ParserFields DEF HiresTypes
    <3> QED BY <2>1, <2>2, <3>1, OneHeaderOn
  <2>6. Tells(hires'.prevTiming, hires'.prevOut, units', hires'.prevAu, time')
    BY <1>3, <2>4, <2>5
  <2>7. announced' \in Int /\ announced' + units' * Unit = time'
    <3>1. (units + 1) * Unit = units * Unit + Unit /\ units * Unit \in Int /\ hires.au * Unit \in Int
      BY <2>1
    <3>2. CASE hires.counter = 0
      <4>1. announced' = value * Lap + hires.out - hires.au * Unit
        BY <1>7, <1>9, <2>2, <3>2, Zenon
      <4>2. (units - hires.au) * Unit = units * Unit - hires.au * Unit
        BY <2>1
      <4>3. announced' + (units + 1) * Unit = time + Unit
        <5>1. value * Lap + hires.out + (units - hires.au) * Unit = time
          BY <2>2 DEF Tells
        <5> DEFINE a == value * Lap
                   b == units * Unit
                   c == hires.au * Unit
                   d == (units - hires.au) * Unit
                   f == (units + 1) * Unit
        <5>2. a \in Int /\ b \in Int /\ c \in Int /\ d = b - c /\ f = b + Unit /\ a + hires.out + d = time
              /\ announced' = a + hires.out - c
          BY <2>1, <3>1, <4>1, <4>2, <5>1
        <5> HIDE DEF a, b, c, d
        <5>3. announced' + f = time + Unit
          <6> HIDE DEF f
          <6> QED BY <2>1, <5>2
        <5> QED BY <5>3
      <4>4. announced' \in Int
        BY <2>1, <3>1, <4>1
      <4> QED BY <1>3, <4>3, <4>4, Zenon
    <3>3. CASE hires.counter # 0
      <4>1. announced' = announced /\ announced \in Int /\ announced + units * Unit = time
        BY <1>2, <1>7, <1>9, <3>3 DEF Linked
      <4>2. announced + (units + 1) * Unit = time + Unit
        BY <2>1, <3>1, <4>1
      <4> QED BY <1>3, <4>1, <4>2, Zenon
    <3> QED BY <3>2, <3>3
  <2>8. hires'.counter >= 1 /\ (hires.counter = 0 => hires'.counter = 1)
    BY <1>2, <2>4
  <2> QED BY <2>6, <2>7, <2>8 DEF Linked
<1>10. ASSUME lost = 0
       PROVE  /\ intact = -1 => hires'.counter = 0 /\ hires'.state <= 5
              /\ intact = 0 => hires'.counter <= 1
              /\ intact >= 1 => hires'.counter >= 1
              /\ hires'.counter >= 1 => Linked'
  <2>1. /\ intact = -1 => hires.counter = 0 /\ hires.state <= Blank(place)
        /\ intact = 0 => hires.counter = 0 /\ (hires.state = Blank(place) \/ Understood)
        /\ intact >= 1 => Understood
        /\ hires.counter >= 1 => Linked
    BY <1>2, <1>10 DEF Clean, Whole
  <2>2. hires.state \in Nat /\ Blank(place) \in Nat
    <3>1. place \in Place
      BY <1>2 DEF HiresTypes
    <3> QED BY <1>2, <3>1, ParserFields, PlaceFields DEF HiresTypes, Blank
  <2>3. ASSUME hires.counter = 0, hires.state <= Blank(place) PROVE hires'.counter = 0 /\ hires'.state <= 5
    <3>1. ~(bit = 0 /\ hires.state = 15)
      BY <1>5, <2>3
    <3>2. hires'.counter = Kept(hires)
      BY <1>1, <3>1, MemoryAfter DEF HeaderReads
    <3> QED BY <1>5, <2>3, <3>2 DEF Kept
  <2>4. CASE intact = -1
    BY <2>1, <2>3, <2>4
  <2>5. CASE intact = 0
    <3>1. CASE Understood
      BY <1>9, <1>10, <2>1, <2>5, <3>1
    <3>2. CASE hires.state = Blank(place)
      <4>1. hires.state <= Blank(place)
        BY <2>2, <3>2
      <4> QED BY <2>1, <2>3, <2>5, <4>1
    <3> QED BY <2>1, <2>5, <3>1, <3>2
  <2>6. CASE intact >= 1
    BY <1>9, <1>10, <2>1, <2>6
  <2> QED BY <1>2, <2>4, <2>5, <2>6
<1>11. Clean'
  <2>1. SUFFICES ASSUME lost = 0 PROVE
          /\ intact' = 0 => hires'.counter = 0 /\ hires'.state <= 5
          /\ intact' = 1 => hires'.counter <= 1
          /\ intact' = 2 => hires'.counter >= 1
          /\ hires'.counter >= 1 => Linked'
    <3>1. intact' # -1
      BY <1>2, <1>3
    <3> QED BY <1>3, <3>1 DEF Clean
  <2>2. (intact' = 0 => intact = -1) /\ (intact' = 1 => intact = 0) /\ (intact' = 2 => intact >= 1)
    BY <1>2, <1>3
  <2> QED BY <1>10, <2>1, <2>2
<1> QED BY <1>8, <1>11

-----------------------------------------------------------------------------
(* The other steps *)

\* A bit that is refused leaves the parser as it was, and the field broken.
LEMMA RefusedBreaks ==
  ASSUME HiresInv, Refused
  PROVE  Whole' /\ Clean'
<1>1. intact' = (IF FieldOver(place') THEN 0 ELSE -1) /\ lost' = lost + 1 /\ lost \in Nat
  BY Constants DEF Refused, HiresInv, HiresTypes
<1>2. Whole'
  BY <1>1 DEF Whole
<1>3. lost' # 0
  BY <1>1
<1> QED BY <1>2, <1>3 DEF Clean

\* After a branch the parser searches for the end of the field it was led into.
LEMMA BranchSearches ==
  ASSUME HiresInv, Branch
  PROVE  Whole' /\ Clean'
<1>1. PICK join \in Joins : \E entered \in Places(join \div Lap) : Enters(join, entered)
  BY DEF Branch
<1>2. PICK entered \in Places(join \div Lap) : Enters(join, entered)
  BY <1>1
<1> DEFINE number == join \div Lap
           bit == Bit(number, entered)
           h == ResetForBranch(hires)
           done == Update(h, announced, bit, units, join % Lap)
<1>3. number \in Nat /\ join % Lap \in Offset /\ entered \in Place /\ units \in Nat
  BY Constants, Split DEF Places, HiresInv, HiresTypes
<1>4. h \in Parser /\ h.state = 0 /\ h.counter = 0
  BY ResetParser DEF HiresInv, HiresTypes
<1>5. hires' = done.hires /\ place' = Following(number, entered) /\ lost' = 0
      /\ intact' = IF FieldOver(place') THEN 0 ELSE -1
  BY <1>2 DEF Enters
<1> HIDE DEF number, h
<1>6. bit \in {0, 1} /\ (FieldOver(entered) => bit = 1 /\ place' = FieldBegins /\ Blank(place') = 0)
  BY <1>3, <1>5, NextPlace
<1>7. hires' \in Parser /\ hires'.state = (IF bit = 0 THEN 1 ELSE 0) /\ hires'.counter = 0
  <2> HIDE DEF bit
  <2>1. hires' \in Parser /\ hires'.state = (IF bit = 0 THEN 1 ELSE 0)
    BY <1>3, <1>4, <1>5, <1>6, StateAfter
  <2>2. hires'.counter = Kept(h)
    BY <1>3, <1>4, <1>5, <1>6, MemoryAfter
  <2> QED BY <1>4, <2>1, <2>2 DEF Kept
<1>8. ~FieldOver(place') => hires'.state <= Blank(place')
  <2>1. CASE FieldOver(entered)
    BY <1>6, <1>7, <2>1
  <2>2. CASE ~FieldOver(entered)
    <3>1. 0 <= Blank(entered)
      BY <1>3, <2>2, OneAway
    <3> QED BY <1>3, <1>4, <1>5, <2>2, <3>1, StaysOnTrack
  <2> QED BY <2>1, <2>2
<1>9. Whole'
  BY <1>5 DEF Whole
<1>10. Clean'
  <2>1. hires'.state <= 5 /\ ~(hires'.counter >= 1)
    BY <1>7
  <2>2. intact' = -1 => ~FieldOver(place')
    BY <1>5
  <2>3. intact' = 0 => FieldOver(place')
    BY <1>5
  <2>4. intact' # 1 /\ intact' # 2
    BY <1>5
  <2> QED BY <1>5, <1>7, <1>8, <2>1, <2>2, <2>3, <2>4 DEF Clean
<1> QED BY <1>9, <1>10

LEMMA HiresStep ==
  HiresInv /\ [HiresNext]_hires_vars => HiresInv'
<1> SUFFICES ASSUME HiresInv, [HiresNext]_hires_vars PROVE HiresInv'
  OBVIOUS
<1>1. CASE Header
  <2>1. HiresTypes' /\ NumberFits'
    BY <1>1, HeaderTypes, StillFits DEF HiresInv, HiresNext
  <2>2. Whole' /\ Clean'
    BY <1>1, HeaderWithin, HeaderBegins, HeaderEnds
  <2> QED BY <2>1, <2>2 DEF HiresInv
<1>2. CASE Refused
  BY <1>2, RefusedTypes, StillFits, RefusedBreaks DEF HiresInv, HiresNext
<1>3. CASE Branch
  BY <1>3, BranchTypes, StillFits, BranchSearches DEF HiresInv, HiresNext
<1>4. CASE UNCHANGED hires_vars
  BY <1>4 DEF hires_vars, HiresInv, HiresTypes, NumberFits, Whole, Clean, Understood, Linked
<1> QED BY <1>1, <1>2, <1>3, <1>4 DEF HiresNext

\* Wherever a branch leads, and whatever is lost, the second field received whole in a row is read
\* right, and the time announced is right unless something was lost since the branch: for numbers of
\* any length, any distance between restart headers, and any times that fit.
THEOREM FieldsAlwaysUnderstood == HiresSpec => [](HiresTypes /\ FieldsUnderstood)
<1>1. HiresInv => HiresTypes /\ FieldsUnderstood
  <2> SUFFICES ASSUME HiresInv, FieldOver(place), intact = 2
               PROVE  hires.state = 5 /\ hires.timing = value /\ (lost = 0 => announced + units * Unit = time)
    BY DEF HiresInv, FieldsUnderstood
  <2>1. hires.state = 5 /\ hires.timing = value
    BY DEF HiresInv, Whole
  <2>2. lost = 0 => Linked
    BY DEF HiresInv, Clean
  <2> QED BY <2>1, <2>2 DEF Linked
<1> QED BY <1>1, StartOk, HiresStep, PTL DEF HiresSpec

=============================================================================
