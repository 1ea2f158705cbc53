----------------------------- MODULE Eac3Syntax -----------------------------
(***************************************************************************)
(* The audio blocks of E-AC-3 frames as two readers walk them.  Inspection *)
(* looks for the skip fields between the blocks (the aux walk); the core   *)
(* decoder reads the same blocks again for their samples.  Each keeps its  *)
(* own block syntax from frame to frame: the aux walker works on a copy    *)
(* that it commits when the frame was walked to its end, the core decoder  *)
(* works in place.  What is read depends on what was kept, so the two stay *)
(* useful only as long as they agree.                                      *)
(*                                                                         *)
(* Bits are abstracted to the choices they make; of the values kept there  *)
(* is only whether they were read.  All coupled channels send their        *)
(* coordinates together, and spectral extension is used by all channels.   *)
(*                                                                         *)
(* A definition named Fault_... is a plausible slip in the definition that *)
(* follows it; it serves to show that the properties tell the difference.  *)
(***************************************************************************)
EXTENDS Eac3Mantissas, FiniteSetsExt

CONSTANTS
  N,            \* fullband channels; the readers use the first ones of them
  Frames,       \* frames a stream may hold
  Contents,     \* audio blocks they may hold
  Nothing,      \* None
  MaxFrames     \* bound: frames since the last reset

Channel == 1 .. N

\* The parts of a block that have mantissas: the channels and two more.
Coupling == N + 1
Lfe == N + 2

\* Where a block may turn out to be broken, in the order in which it is read.
Stage == {"spx", "strategy", "coordinates", "exponents", "snr", "leak", "delta", "mantissas"}

\* ParseError, as far as the callers tell its values apart.
Error == {"short", "unsupported", "range", "fatal"}

\* mode: mono and dual mono have no coupling, stereo always couples both channels.
Frame ==
  [layout : Nat,                \* fullband channels, LFE and sample rate
   mode : {"mono", "stereo", "multi"},
   dependent : BOOLEAN,
   skip_fields : BOOLEAN,       \* skip_field_syntax_enabled
   starts : BOOLEAN,            \* one block, or valid block_start_bit_offsets
   snr : 0 .. 3,                \* snr_offset_strategy; 3 is not refused
   updates : Seq(BOOLEAN),      \* coupling strategy bit of each block after the first
   coupled : Seq(BOOLEAN)]      \* coupling in use, where the strategy is sent

\* What the bits of a block say, and where it breaks, if it does.
IsContent(c) ==
  /\ c.spx \in {"on", "off", "keep"}
  /\ c.ecpl \in BOOLEAN /\ c.phase \in BOOLEAN
  /\ c.channels \in SUBSET Channel
  /\ c.coordinates \in BOOLEAN /\ c.leak \in BOOLEAN /\ c.snr \in BOOLEAN
  /\ c.baps \in [1 .. Lfe -> Seq(Bap)]
  /\ c.breaks \in Stage \cup {Nothing}
  /\ c.error \in Error

ASSUME SyntaxAssumption ==
  /\ N \in Nat \ {0}
  /\ \A f \in Frames : f \in Frame /\ f.updates # << >> /\ Len(f.coupled) = Len(f.updates)
  /\ \A c \in Contents : IsContent(c)
  /\ Nothing \notin Stage /\ Nothing \notin Error /\ Nothing \notin Frames
  /\ MaxFrames \in Nat

VARIABLES
  (* AuxDataDecodeState and CoreDecodeState *)
  aux, aux_layout,
  core, core_layout,
  (* the frame under way *)
  frame,        \* Nothing between frames
  walk,         \* the aux walker's copy
  walked,       \* blocks it has walked
  next,         \* the core decoder's state, if the frame gets that far
  decoded,      \* blocks the core decoder has read
  inspected,    \* the aux walk is over, what it found is taken
  frames,       \* since the last reset
  (* history *)
  in_step       \* since they were made, both readers took each frame to its end

kept == <<aux, aux_layout, core, core_layout>>
reading == <<frame, walk, walked, next, decoded, inspected>>
vars == <<kept, reading, frames, in_step>>

----------------------------------------------------------------------------
(***************************************************************************)
(* BlockSyntaxState.  Of its history: given, the coupled channels whose    *)
(* coordinates were read since they were last not coupled; leak, the same  *)
(* of the leak codes; torn, a block broke since coupling was last cleared; *)
(* recent, what was read in this frame, the coupling's offset only as long *)
(* as coupling was not cleared; cleared, cpl_fsnr_offset is the zero that  *)
(* new and clear_coupling leave; error, why its walk ended; taken, the     *)
(* mantissa bits of the last block.                                        *)
(***************************************************************************)

New ==
  [spx |-> FALSE, ecplinu |-> FALSE, phsflginu |-> FALSE, chincpl |-> {},
   first_cpl_coords |-> Channel, first_cpl_leak |-> TRUE,
   given |-> {}, leak |-> FALSE, torn |-> FALSE, recent |-> {}, cleared |-> TRUE,
   error |-> Nothing, taken |-> NoneTaken]

Fail(s, e) == [s EXCEPT !.error = e, !.torn = TRUE]

Then(s, t) == IF s.error = Nothing THEN t ELSE s

Breaks(s, c, stage) == IF c.breaks = stage THEN Fail(s, c.error) ELSE s

Fault_LeakNotCleared(s) ==
  [s EXCEPT !.ecplinu = FALSE, !.phsflginu = FALSE, !.chincpl = {},
            !.first_cpl_coords = Channel, !.given = {}, !.leak = FALSE, !.torn = FALSE,
            !.recent = @ \ {"cplfsnr"}, !.cleared = TRUE]

Fault_OffsetNotCleared(s) ==
  [s EXCEPT !.ecplinu = FALSE, !.phsflginu = FALSE, !.chincpl = {},
            !.first_cpl_coords = Channel, !.first_cpl_leak = TRUE,
            !.given = {}, !.leak = FALSE, !.torn = FALSE, !.recent = @ \ {"cplfsnr"}]

ClearCoupling(s) ==
  [s EXCEPT !.ecplinu = FALSE, !.phsflginu = FALSE, !.chincpl = {},
            !.first_cpl_coords = Channel, !.first_cpl_leak = TRUE,
            !.given = {}, !.leak = FALSE, !.torn = FALSE,
            !.recent = @ \ {"cplfsnr"}, !.cleared = TRUE]

----------------------------------------------------------------------------
(***************************************************************************)
(* What parse_audio_frame tells of the blocks ahead.                       *)
(***************************************************************************)

Couples(f) == f.mode # "mono"

Fault_FirstStrategyOptional(f, b) == Couples(f) /\ f.updates[b]

StrategySent(f, b) == Couples(f) /\ (b = 1 \/ f.updates[b])

CouplingInUse(f, b) ==
  /\ Couples(f)
  /\ f.coupled[Max({1} \cup {i \in 2 .. b : f.updates[i]})]

Blocks(f) == Len(f.updates)

\* No block starts: the aux walker has to pass the mantissas, and keeps its state.
Sequential(f) == f.skip_fields /\ ~f.starts

----------------------------------------------------------------------------
(***************************************************************************)
(* The readers of a block's parts, used by both walkers.                   *)
(***************************************************************************)

ReadSpx(s, b, c) ==
  LET on == IF c.spx = "on" THEN TRUE ELSE IF c.spx = "keep" /\ b # 1 THEN s.spx ELSE FALSE
  IN  Breaks([s EXCEPT !.spx = on], c, "spx")

ReadCouplingStrategy(s, f, b, c) ==
  LET begun == [s EXCEPT !.ecplinu = c.ecpl, !.chincpl = IF f.mode = "stereo" THEN Channel ELSE c.channels]
      flagged == [begun EXCEPT !.phsflginu = f.mode = "stereo" /\ c.phase]
  IN  IF ~Couples(f) THEN ClearCoupling(s)
      ELSE IF ~StrategySent(f, b) THEN s
      ELSE IF ~CouplingInUse(f, b) THEN ClearCoupling(s)
      ELSE IF c.ecpl THEN Fail(begun, "unsupported")
      ELSE Breaks(flagged, c, "strategy")

\* The flag of a channel falls before its coordinates are read: a block that breaks leaves it down.
ReadCouplingCoordinates(s, f, b, c) ==
  LET present == {ch \in s.chincpl : ch \in s.first_cpl_coords \/ c.coordinates}
      broken == c.breaks = "coordinates" /\ present # {}
      seen == IF broken THEN 1 .. Max(present) ELSE Channel
      flagged == [s EXCEPT !.first_cpl_coords = (@ \ seen) \cup (seen \ s.chincpl)]
      had == s.given \cap s.chincpl
  IN  IF ~CouplingInUse(f, b) THEN s
      ELSE IF s.ecplinu THEN Fail(s, "unsupported")
      ELSE IF broken THEN Fail([flagged EXCEPT !.given = had \cup (present \ {Max(present)})], c.error)
      ELSE IF f.mode = "stereo" /\ s.phsflginu /\ present # {}
           THEN Fail([flagged EXCEPT !.given = had \cup present], "unsupported")
      ELSE [flagged EXCEPT !.given = had \cup present]

ReadExponents(s, f, b, c) ==
  IF CouplingInUse(f, b) /\ s.ecplinu THEN Fail(s, "unsupported")
  ELSE Breaks(s, c, "exponents")

\* The coarse offset, the fine ones of the channels and LFE, and the coupling's: strategy 3 sends no
\* fine ones, and strategy 2 the coupling's only in a block that uses coupling.
Offsets(f, b) ==
  {"csnr"} \cup (IF f.snr # 3 THEN {"fsnr"} ELSE {})
           \cup (IF f.snr \in {0, 1} \/ (f.snr = 2 /\ CouplingInUse(f, b)) THEN {"cplfsnr"} ELSE {})

\* From the frame header, or from the block: sent in the first one and where a bit says so.  Where
\* the block breaks, it breaks behind them: the frame is over, and the next one sends them again.
ReadSnrOffsets(s, f, b, c) ==
  LET sent == IF f.snr = 0 \/ b = 1 \/ c.snr THEN Offsets(f, b) ELSE {}
      read == [s EXCEPT !.recent = @ \cup sent, !.cleared = @ /\ "cplfsnr" \notin sent]
  IN  IF f.snr = 0 THEN read ELSE Breaks(read, c, "snr")

\* Sent, or set to their default.
ReadGainCodes(s) == [s EXCEPT !.recent = @ \cup {"gain"}]

\* The flag falls before the codes are read.
ReadCouplingLeakInfo(s, in_use, c) ==
  LET flagged == [s EXCEPT !.first_cpl_leak = FALSE]
  IN  IF ~in_use THEN s
      ELSE IF c.breaks = "leak" THEN Fail(flagged, c.error)
      ELSE IF s.first_cpl_leak \/ c.leak THEN [flagged EXCEPT !.leak = TRUE]
      ELSE s

ReadDeltaBitAllocation(s, c) == Breaks(s, c, "delta")

\* The parts of a block that have mantissas, in their order; first is the first coupled channel.
Parts(first) ==
  LET channels == [ch \in Channel |-> ch]
  IN  (IF first = Nothing THEN channels ELSE InsertAt(channels, first + 1, Coupling)) \o <<Lfe>>

CountedIn(parts, c) ==
  LET taken[n \in 0 .. Len(parts)] ==
        IF n = 0 THEN NoneTaken ELSE CountMantissas(taken[n - 1], c.baps[parts[n]])
  IN  taken[Len(parts)]

ReadIn(parts, c) ==
  LET taken[n \in 0 .. Len(parts)] ==
        IF n = 0 THEN NoneTaken ELSE ReadMantissas(taken[n - 1], c.baps[parts[n]])
  IN  taken[Len(parts)]

FirstCoupled(s) == IF s.chincpl = {} THEN Nothing ELSE Min(s.chincpl)

----------------------------------------------------------------------------
(***************************************************************************)
(* The two walkers.                                                        *)
(***************************************************************************)

\* Everything before the mantissas is read alike, except that the core stops at spectral extension.
ConsumeBlockMantissas(s, f, b, c) ==
  LET first == IF CouplingInUse(f, b) THEN FirstCoupled(s) ELSE Nothing
  IN  IF s.spx THEN Fail(s, "unsupported")
      ELSE Breaks([s EXCEPT !.taken = CountedIn(Parts(first), c)], c, "mantissas")

ParseBlock(s, f, b, c, consume_mantissas) ==
  LET spx == ReadSpx([s EXCEPT !.taken = NoneTaken], b, c)
      strategy == Then(spx, ReadCouplingStrategy(spx, f, b, c))
      coordinates == Then(strategy, ReadCouplingCoordinates(strategy, f, b, c))
      exponents == Then(coordinates, ReadExponents(coordinates, f, b, c))
      snr == Then(exponents, ReadSnrOffsets(exponents, f, b, c))
      gains == Then(snr, ReadGainCodes(snr))
      leak == Then(gains, ReadCouplingLeakInfo(gains, CouplingInUse(f, b), c))
      delta == Then(leak, ReadDeltaBitAllocation(leak, c))
  IN  IF consume_mantissas THEN Then(delta, ConsumeBlockMantissas(delta, f, b, c)) ELSE delta

DecodeMantissas(s, f, c) ==
  Breaks([s EXCEPT !.taken = ReadIn(Parts(FirstCoupled(s)), c)], c, "mantissas")

DecodeBlock(s, f, b, c) ==
  LET spx == ReadSpx([s EXCEPT !.taken = NoneTaken], b, c)
      stopped == IF spx.spx THEN Fail(spx, "unsupported") ELSE spx
      strategy == Then(stopped, ReadCouplingStrategy(stopped, f, b, c))
      coordinates == Then(strategy, ReadCouplingCoordinates(strategy, f, b, c))
      exponents == Then(coordinates, ReadExponents(coordinates, f, b, c))
      snr == Then(exponents, ReadSnrOffsets(exponents, f, b, c))
      gains == Then(snr, ReadGainCodes(snr))
      leak == Then(gains, ReadCouplingLeakInfo(gains, CouplingInUse(f, b), c))
      delta == Then(leak, ReadDeltaBitAllocation(leak, c))
  IN  Then(delta, DecodeMantissas(delta, f, c))

----------------------------------------------------------------------------
(***************************************************************************)
(* A frame: inspected, and then, if the caller needs its samples, decoded. *)
(***************************************************************************)

Init ==
  /\ aux = New /\ aux_layout = Nothing
  /\ core = New /\ core_layout = Nothing
  /\ frame = Nothing /\ walk = New /\ walked = 0 /\ next = New /\ decoded = 0
  /\ inspected = FALSE /\ frames = 0
  /\ in_step = TRUE

\* What a reader starts the frame with: its state, or a new one for another layout.
Prepared(state, layout, f) == IF layout = f.layout THEN state ELSE New

\* The state of the aux walker is made anew before the walk, whether or not that will be committed.
Begin(f) ==
  /\ frame = Nothing /\ frames < MaxFrames
  /\ frame' = f /\ frames' = frames + 1
  /\ IF Sequential(f)
     THEN /\ aux' = Prepared(aux, aux_layout, f)
          /\ aux_layout' = f.layout
          /\ walk' = aux'
     ELSE /\ UNCHANGED <<aux, aux_layout>>
          /\ walk' = New
  /\ walked' = IF f.skip_fields THEN 0 ELSE Blocks(f)
  /\ next' = Prepared(core, core_layout, f)
  /\ decoded' = 0
  /\ in_step' = (Sequential(f) /\ ~f.dependent
                  /\ (in_step \/ (aux_layout # f.layout /\ core_layout # f.layout)))
  /\ UNCHANGED <<core, core_layout, inspected>>

Walking == frame # Nothing /\ ~inspected /\ walked < Blocks(frame) /\ walk.error = Nothing
Decoding == frame # Nothing /\ ~frame.dependent /\ decoded < Blocks(frame) /\ next.error = Nothing

Walk(c) ==
  /\ walk' = ParseBlock(walk, frame, walked + 1, c, Sequential(frame))
  /\ walked' = walked + 1

Decode(c) ==
  /\ next' = DecodeBlock(next, frame, decoded + 1, c)
  /\ decoded' = decoded + 1

\* Readers with the same state find the same content in the same bits.
BothBlocks(c) ==
  /\ in_step /\ Walking /\ Decoding
  /\ Walk(c) /\ Decode(c)
  /\ UNCHANGED <<kept, frame, inspected, frames, in_step>>

\* Otherwise what one of them finds is not where the other one looks.
WalkBlock(c) ==
  /\ ~in_step /\ Walking
  /\ Walk(c)
  /\ UNCHANGED <<kept, frame, next, decoded, inspected, frames, in_step>>

CoreBlock(c) ==
  /\ ~in_step /\ inspected /\ Decoding
  /\ Decode(c)
  /\ UNCHANGED <<kept, frame, walk, walked, inspected, frames, in_step>>

\* Errors that reject the frame; after the others the inspection does without the skip fields.
Fatal == walk.error = "fatal" \/ (walk.error = "range" /\ frame.starts)

Rested(s) == [s EXCEPT !.recent = {}, !.error = Nothing, !.taken = NoneTaken]

Fault_CommittedAnyway == IF Sequential(frame) THEN Rested(walk) ELSE aux

Committed == IF Sequential(frame) /\ walk.error = Nothing THEN Rested(walk) ELSE aux

Inspect ==
  /\ frame # Nothing /\ ~inspected /\ ~Walking /\ ~Fatal
  /\ inspected' = TRUE
  /\ aux' = Committed
  /\ in_step' = (in_step /\ walk.error = Nothing)
  /\ walk' = New /\ walked' = 0
  /\ UNCHANGED <<aux_layout, core, core_layout, frame, next, decoded, frames>>

FrameDone ==
  /\ frame' = Nothing /\ inspected' = FALSE
  /\ walk' = New /\ walked' = 0 /\ next' = New /\ decoded' = 0
  /\ UNCHANGED <<aux, aux_layout, frames>>

\* The frame is rejected by the inspection.
Reject ==
  /\ frame # Nothing /\ ~inspected /\ ~Walking /\ Fatal
  /\ FrameDone
  /\ in_step' = FALSE
  /\ UNCHANGED <<core, core_layout>>

\* Nobody asks for its samples: its length is wrong, it has no objects, or its type is refused.
InspectOnly ==
  /\ inspected
  /\ FrameDone
  /\ in_step' = FALSE
  /\ UNCHANGED <<core, core_layout>>

\* The core decoder works in place: what it read before a block broke stays.
DecodeFrame ==
  /\ inspected
  /\ ~frame.dependent /\ ~Decoding
  /\ core' = Rested(next)
  /\ core_layout' = frame.layout
  /\ FrameDone
  /\ in_step' = (in_step /\ next.error = Nothing)

Reset ==
  /\ frame = Nothing
  /\ aux' = New /\ aux_layout' = Nothing
  /\ core' = New /\ core_layout' = Nothing
  /\ in_step' = TRUE
  /\ frames' = 0
  /\ UNCHANGED reading

Next ==
  \/ \E f \in Frames : Begin(f)
  \/ \E c \in Contents : BothBlocks(c)
  \/ \E c \in Contents : WalkBlock(c)
  \/ \E c \in Contents : CoreBlock(c)
  \/ Inspect
  \/ Reject
  \/ InspectOnly
  \/ DecodeFrame
  \/ Reset

Spec == Init /\ [][Next]_vars

----------------------------------------------------------------------------
(***************************************************************************)
(* Properties.                                                             *)
(***************************************************************************)

Syntax ==
  [spx : BOOLEAN, ecplinu : BOOLEAN, phsflginu : BOOLEAN, chincpl : SUBSET Channel,
   first_cpl_coords : SUBSET Channel, first_cpl_leak : BOOLEAN,
   given : SUBSET Channel, leak : BOOLEAN, torn : BOOLEAN,
   recent : SUBSET {"csnr", "fsnr", "cplfsnr", "gain"}, cleared : BOOLEAN,
   error : Error \cup {Nothing}, taken : [positions : Positions, bits : Nat]]

\* The readers keep a well-formed state, and a mantissa group is never overfull.
TypeOK ==
  /\ aux \in Syntax /\ core \in Syntax /\ walk \in Syntax /\ next \in Syntax
  /\ aux_layout \in Nat \cup {Nothing} /\ core_layout \in Nat \cup {Nothing}
  /\ frame \in Frames \cup {Nothing}
  /\ walked \in Nat /\ decoded \in Nat /\ frames \in 0 .. MaxFrames
  /\ inspected \in BOOLEAN /\ in_step \in BOOLEAN

\* A block that was read to its end, by either reader, and which one it was.
Passed(P(_, _)) ==
  frame # Nothing =>
    /\ (frame.skip_fields /\ walked > 0 /\ walk.error = Nothing) => P(walk, walked)
    /\ (decoded > 0 /\ next.error = Nothing) => P(next, decoded)

\* The aux walker allots coupling mantissas by coupling_in_use of the block, the core decoder by
\* chincpl, kept from earlier blocks and frames: a coupled channel in a block without coupling would
\* make the core decoder read mantissas that are not there.
CouplingGate ==
  Passed(LAMBDA s, b : s.chincpl # {} => CouplingInUse(frame, b))

\* What coupled mantissas are scaled by was read: coordinates and leak since the coupling began,
\* however many frames ago; except in a core decoder that broke off a block since it last was
\* without coupling.
NothingUnread ==
  Passed(LAMBDA s, b : CouplingInUse(frame, b) /\ ~s.torn => s.chincpl \subseteq s.given /\ s.leak)

\* Offsets and gains are those of the frame: a coupling that begins in a block that sends no offsets
\* goes by zero, never by the offset of an earlier coupling.  Strategy 3 leaves the fine offsets as
\* earlier frames left them, and is not covered.
OffsetsOfThisFrame ==
  Passed(LAMBDA s, b :
    /\ {"csnr", "gain"} \subseteq s.recent
    /\ frame.snr # 3 => "fsnr" \in s.recent
    /\ CouplingInUse(frame, b) =>
       \/ frame.snr = 3
       \/ "cplfsnr" \in s.recent
       \/ (frame.snr # 0 /\ s.cleared))

\* What the aux walker keeps never comes from a frame that was not walked to its end.
AuxNeverTorn == ~aux.torn

\* Two readers that took the same frames from the same state find the same things at the same bits,
\* though one counts mantissas and the other reads them, and each has its own copy of the block's
\* order of parts.
ReadersInStep ==
  in_step =>
    IF frame = Nothing THEN aux = core /\ aux_layout = core_layout
    ELSE ~inspected =>
         /\ (walk.error = Nothing) = (next.error = Nothing)
         /\ walk.error = Nothing => walk = next
=============================================================================
