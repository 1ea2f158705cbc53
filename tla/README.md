# Verification of libstarmine_ad

`libstarmine_ad` is a sequential Rust library. It decodes object-based audio (Dolby TrueHD with an Atmos
presentation, and E-AC-3 with joint object coding) one access unit at a time, renders it to 7.1.4 and
offers decoders and renderers to C as handles. There are no threads and no clocks; whoever owns a handle
calls it. What is hard here is what one call leaves behind for the next: copies of the same state kept
in two places, state that is advanced before a later step of the same call fails, caches, samples held
back by a limiter, and the numeric edges of cutting a stream into slots and blocks.

Source paths below are relative to `src/crates/libstarmine_ad/src/`; the line numbers of every
definition are in `PROJECT.json` under `map`.

## Inventory

| component | state it keeps | operations | what is hard about it | what makes it correct |
|---|---|---|---|---|
| renderer (`renderer/render.rs`) | sample rate, stream offset, slot clock, limiter backlog, pending debug rows | `push_frame`, `flush`, `reset` | updates in any order at any sample; frames that fail after they were partly rendered; silence before the first metadata; slots, updates, frames and limiter blocks end at different places | no sample lost or repeated; slots tile the stream however it is cut; updates take effect on their sample; rows follow audio |
| metadata evaluation (`renderer/render.rs`) | payload in force, block states, ramps, sources | `apply_update`, `update_timeslot` | payloads supersede each other in mid-ramp and change dimensions; blocks due in mid-slot | indices exist; gains and places end up as the blocks say; ramps end on time |
| mixing, panning, limiter curve (`renderer/render.rs`) | none control depends on | per sample | floating point | out of scope of TLA+ |
| TrueHD parser (`truehddec/parse.rs`, `access_unit.rs`, `sync.rs`, `substream.rs`, `block.rs`, `restart_header.rs`) | stream format, latched substream count, substream states, timing | `Parser::parse` | an access unit that fails half-way leaves half of its state; formats announced by a sync that then fails | parser and decoder agree on what a block is; a format is used only when confirmed |
| TrueHD presentation decoder (`truehddec/decode.rs`, `mod.rs`) | copy of the stream's state, presentation and mask chosen once, labels, duplicate and info flags | `decode_presentation`, `decoded_access_unit` | choice outlives the sync it was made from; replay of headers under other state than they were read with | every substream of the presentation is decoded; buffers are not overrun |
| TrueHD timing (`truehddec/timing.rs`, `access_unit.rs`, `restart_header.rs`) | serial timing field, unwrapped times, FIFO and rate history, deviation of a branch | per access unit | branches lead anywhere into a field; differences and divisions over fields of the stream; what a refused unit leaves | the field is read right wherever it is joined; a stream that goes on is not taken for a branch |
| TrueHD readers and arithmetic (`oamd.rs`, `evolution.rs`, `extra_data.rs`, `channel.rs`, `filter.rs`, `matrix.rs`, `simd.rs`, `dither.rs`, `crc.rs`, `bitstream.rs`) | none across calls | read, compute | bits | - |
| object PCM session and TrueHD handles (`truehddec/decoder.rs`, `ffi.rs`) | cached layout, counters, frame lent to the client | push, flush, reset | parse, decode, split, translate and render fail one after the other; a flag taken before it is reported; pointers with a life time | labels, layout, flag and counters are those of the stream; a lent frame lives as promised |
| E-AC-3 syncframes (`eac3dec/syncframe.rs`) | block syntax of the aux walk (cloned and committed), and another of the core decoder (in place) | inspect, decode core | what is read depends on what was kept; two readers of the same bits; blocks that break half-way | nothing is used that was never read or that belongs to an earlier coupling; the aux state is of whole frames; both readers stay in step |
| E-AC-3 object metadata (`eac3dec/metadata.rs`) | retained object blocks | parse, resolve | omitted fields come from earlier frames; dimensions change; frames scanned twice, blocks that break after payloads were applied | retained fields are those last sent; clients know what later payloads are completed by |
| E-AC-3 JOC and core arithmetic (`joc.rs`, `qmf.rs`, `allocation.rs`, `imdct.rs`, `pcm.rs`) | gains of the last frame by object, filter histories | per frame | objects come, pause and go; slopes with points inside a frame; rings | a frame goes on where the one before ended; the ring is the last samples |
| E-AC-3 decoder and handles (`eac3dec/decoder.rs`, `ffi.rs`) | all of the above, counters | push, flush, reset | stages fail one after the other, each with state | stages fall apart only by failures |
| command line (`bin/starmine-ad-cli`) | position in the input, what each file latched, counters, the renderer's remainder | run | lengths come from the input; several outputs each with errors of its own; a header written at the end; a remainder to flush | it ends; files are complete when it reports success |

How they interact: all by calls, downwards. A C handle owns a decoder and a renderer; a push goes
parser -> decoder -> session -> render input -> frame walk -> metadata evaluation -> limiter, and an
error at any of these returns at once through all of them. Results come back as frames by value; only
the handles lend memory, until a later call frees it. The parser hands the decoder an access unit, and
the decoder repeats on its own state what the parser did on its own: the two never look at each other.
E-AC-3 has the same shape twice: the aux walk and the core decoder read the same audio blocks, each with
block syntax of its own, and the metadata, the joint objects and the renderer follow in one chain. The
command line sits on top: it cuts a file into access units, pushes each, and writes what comes back.

Panics: `push_access_unit` of the TrueHD session catches panics of the parser and of the decoder and
turns them into errors, except that the release profile (`src/Cargo.toml`) aborts on panic. A panic in
`decoded_access_unit` or in the renderer is outside of it; through the C interface it ends the process.

## Modules

| module | models | composes |
|---|---|---|
| `BlockStream` | abstract specification: what the renderer promises about sample counts | |
| `Renderer714` | `push_frame` statement by statement, `flush`, `reset` | refines `BlockStream` |
| `MetadataRenderer` | `apply_update` and `update_timeslot` | |
| `PresentationMap` | `PresentationMap`, `update_presentation`'s choice (operators only) | |
| `TrueHdDecoder` | one access unit through parser and decoder | uses `PresentationMap` |
| `TrueHdSession` | the object PCM decoder inside a C renderer handle | uses `PresentationMap`; parsing, decoding and rendering by their outcomes |
| `Eac3Bands`, `Eac3Mantissas` | code-to-range arithmetic of a block; how many bits its mantissas take (operators only) | |
| `Eac3Syntax` | the audio blocks as the aux walk and the core decoder read them | uses `Eac3Mantissas`; `MCEac3Syntax` checks `Eac3Bands` |
| `Eac3Payloads` | the readers of OAMD and JOC payloads (operators only) | |
| `Eac3Metadata` | where metadata is looked for in a frame, and the retained object blocks | uses `Eac3Payloads` |
| `Eac3Joint` | gains of joint object coding over timeslots and frames (operators only) | |
| `Eac3Session` | the E-AC-3 front ends as a chain of stages | uses `Eac3Joint`; the other stages by their outcomes |
| `ShiftRegister` | abstract specification: the input history of a filterbank | |
| `MirroredRing` | the ring kept twice in `qmf.rs` | refines `ShiftRegister` |
| `TrueHdHires` | the serial timing field, bit by bit | composed with a sender (external) |
| `TrueHdClock` | the parser's times, jumps and seamless branches | |
| `CommandLine` | the program: splitting, looping, writing, ending | decoders and renderer by their outcomes |
| `MC...` | instances for TLC | each EXTENDS its module |
| `...Proofs` | theorems and proofs | each EXTENDS its module and TLAPS; the ring's are in `Eac3SessionProofs`, the clock's and the serial timing's in `TrueHdDecoderProofs` |

`Fault_X`, where it occurs, is a plausible slip in the definition after it. No specification uses it; it
is there to show that a property notices the slip.

### Renderer714

A call is many steps, since it loops; `pc` tells where it is ("idle", "head": leading updates, "loop":
the walk) and no other call starts before it is idle again. `BeginPush`, `PushWrongRate`,
`PushWithoutMetadata` are the checks at the entry, `ApplyLeadingUpdate`/`RestartClock`/`BeginLoop` the
updates at offset 0, `ApplyDueUpdate`, `SkipSilence`, `MixSegment` one turn of the loop, `FinishPush`
the limiter and the drain of debug rows. `Return` resets what is local to the call. Audio is abstracted
to sample counts, a debug row to the stream position of its slot, metadata to its number of dynamic
objects and its bed channels (what decides between errors). A failure in mid-frame keeps clock and
metadata as they are, as the code does. The panic of `Vec::drain` is a state ("panicked") from which
only `Reset` leads on: a caller that caught the unwinding may reset.

### MetadataRenderer

`ApplyUpdate` is a new payload; `OpenTimeslot` picks the element, `TakeBlock` takes one block that is
due, `CloseTimeslot` or `RampAndClose` moves the sources and ends the slot; `SkipTimeslot` is a slot
without anything to evaluate. Time is relative to the payload. A position is a symbolic place: the
default, the target of a block, or `Between`, anywhere on the way: properties ask whether a source
arrived, not where it is meanwhile. An index out of range is `Panic`. A payload is dated inside the
timeslot in progress, or further back where a push that failed in mid-frame left the clock ahead.

### TrueHdDecoder

The two copies are the variables `p_...` and `d_...`. `PushMajorSync` or `PushContinuation` begins,
`ParseBlock`/`EndSegment`/`EndParse` reads the substreams of the parser's mask and notes in `parsed`
under which state each block was read; `BeginDecode` follows the major sync and chooses the
presentation if the decoder is not valid, `DecodeBlock` replays the headers on the decoder's copy,
`Deliver` is `decoded_access_unit`. Each rejection is a defect of the input, placed where it changes
what has been stored by then. The matrices' and filters' bits are left out; a block keeps its size and
columns. Strict mode (`set_fail_level(Warn)`) matters to the substream count, the substream info and
the lossless check, the warnings that are modelled; the warnings of timing, FIFO and CRC are not.

### TrueHdSession

One call is one step, its guards tell how far it gets. `Told`, `Restarted`, `Decoded`, `FlagTaken` are
what decoding leaves in the decoder, `Resolved` is `resolve_layout`, `Lend`/`Finish` the frame of the
handle and what the structs of the client point to. The actions are the exits of the call in order:
`PushUnparsed`, `PushUndecoded`, `PushUnusable` (layout or translation), `PushWithoutObjects`
(`Ok(None)`), `PushUnrendered`, `PushRendered`; then `Flush`, `Reset`, `NullPointer`. The renderer is
reduced to two facts that `Renderer714` shows: it may refuse a frame, and it may or may not hold back
samples. A panic of the renderer ends the process and is no step.

### Eac3Syntax, Eac3Mantissas, Eac3Bands

`WalkBlock` and `Inspect` are the walk for aux data: the walker copies its block syntax, reads block after
block for the skip fields between them (`ParseBlock`) and commits the copy only if the frame was walked to
its end. `CoreBlock` reads the same block for samples (`DecodeBlock`), in place, and `DecodeFrame` ends it.
While both are in step `BothBlocks` takes the same block through both, one after the other. A block is the choices its bits make (strategy sent or kept,
channels coupled, coordinates, leak, offsets, exponents); of values there is only whether they were read
and since when. Offsets are of four sorts, as `snr_offset_strategy` says (`Offsets`): all in the frame
header (0), all in a block (1), in a block but for coupling only where coupling is in use (2), or the coarse
one alone (3). `recent` is what was read of them in this frame, and `cleared` whether the coupling's is the
zero that `clear_coupling` leaves. `breaks` says at which part a block ends in an error, and which. Where two pieces of
code do the same in a different way, both are modelled: mantissa bits are counted by group in one and
read one by one in the other (`Eac3Mantissas`). `Eac3Bands` is the arithmetic from codes to mantissa and
subband ranges, checked over all codes as assumptions of `MCEac3Syntax`.

### Eac3Payloads, Eac3Metadata

`Eac3Payloads` reads payloads: offsets, ramps, gains, blocks with their status bits, JOC headers. In
`Eac3Metadata` an inspection `Begin`s with the EMDF blocks that the walk's outcome leads to (aux fields, or
recovery of marked regions), takes their payloads in order (`ReadOamd`, `ReadOther`, `EndBlock`), goes over
the whole frame where nothing was found (`ScanFrame`), and checks the unit's length at the very end
(`Return`). `ResolveBlock` is where the retained blocks complete what was
omitted; they are made anew when the dimensions of an element change. `applied` records which payloads
were ever applied, for the properties, and `view` what the client was told last.

### Eac3Joint, Eac3Session

A gain is the frame, data point and band it was computed from, so the properties can say where the
gains of a frame come from; a blend is a set of two. `Eac3Session` is one of four front ends; a call
takes a unit through the stages the front end has: inspect, core, joint, render. Each stage but `joint`
is the number of the unit that advanced it last; `joint` is modelled in full (`Reconfigure`,
`DecodeObject`). A failing stage ends the call and leaves what the stages before it did.

### ShiftRegister, MirroredRing

The filterbanks of `qmf.rs` write each step twice, one ring length apart, so that the window from the head
never wraps. `MirroredRing` is that; the refinement maps its window to `ShiftRegister`'s.

### TrueHdHires

`Update` is the machine of `HiresOutputTimingState`: states 0 to 4 search, 5 waits, 6 to 15 collect. The
sender is not in the repository: it is written from what the machine takes for a field. `place` is how much
of a field it has sent (`Bit` is what comes next, `Following` the place after it), `value` the number the
field spells. Units are refused before their restart header is read, and branches lead into any place of a
field of another stream (`Places`). The assumption on the constants says that no time reached has an upper
part too long for a field.

### TrueHdClock

`clock` is the part of `ParserState` that tells the time; `ReadUnit` is one unit that is read to its end,
`WrongParity`, `BrokenSegment` and `NoInitialSync` are units refused at the places that leave
different state (`overlong`: a unit read to its end and only then found too long, which counts as parsed), `Panic` the division by zero in `restart_header.rs`. Sample counts wrap at `Size` (2^64) as
they do without overflow checks, timings at `Wrap` (2^16), which divides it. `due`, `aligned` and `drifted` are history.

### CommandLine

`at` is what comes next: "start", "split", "decode", a sink, "count", "flush", "finalize", "end". The input
is a function from offsets to the length a unit at that offset would claim. Each sink latches a format
from its first frame. An E-AC-3 frame is whole audio blocks of 256 samples and so whole blocks of the
limiter (64), which is why its modes need no flush: an assumption on `Samples`. `total` and `lengths` are history. Every action that touches a file or a decoder has a failing sibling, and each
of those ends the program.

The variables after the comment "history" are read by no action: what a property compares with.

## Runs

Every variable that grows is bounded in a guard or by the constants; the bounds are named there.

| run | question | bounds, and why they are enough |
|---|---|---|
| `renderer` | do samples, slots, updates, rows and counters stay consistent over any calls? | slots of 3 samples, frames of 1, 2, 4 and no samples, up to 2 updates, streams to sample 7: a slot, a block, an update and a frame can end at, before and after each other, twice in a stream |
| `metadata` | do superseding payloads leave sources as the blocks in force say? | slots of 2, two objects, two blocks, two elements, ramps of 0 to 4, payload age 8, payloads dated up to 3 samples (two slots) before the next slot: blocks at the start, inside and two in one slot; ramps that end inside, at and slots after |
| `truehd` | do the two copies stay together, and does a restart heal them? | 2 and 4 substreams, blocks of 1 to 3 in buffers of 4, all defects: block sizes shrink, grow and overflow; every substream use the fallback choice tells apart; unlimited access units (the state space is finite) |
| `truehd_session` | do labels, layout, flag, counters and lent frames keep their meaning? | 3 decoded units between resets, one struct, 14 sorts of unit: choose, drift, choose again needs two syncs and one more unit to see the effect; undecoded pushes are not limited |
| `truehd_hires` | is the serial field read right wherever it is joined? | numbers of 6 bits (times 0 and 52 are the numbers 000000, with a stuffed one, and 001101), 60 units: a branch into any place of a field, then at least two whole fields; one unit lost, one branch |
| `truehd_clock` | is a stream that goes on ever taken for a branch? | units of 4 samples, 16-bit times as modulo 32, a window of 16, units too long for their interval at the lower rate and not at the higher; 5 units, up to 4 with a sync, one refused: a stream, a branch, a sync that goes on, and one that is refused between any two |
| `eac3_syntax` | do the two walkers stay in step, and is all they use read? | two channels, two blocks and in one frame three, three frames, three modes: a coupling is begun in one frame, kept or broken in the next and used in the third, or ended and begun anew within one; 11 frame headers with all four offset strategies, blocks that break at every part |
| `eac3_metadata` | is what is retained what was sent last? | two objects, one or two blocks and elements, three units of 18 sorts: send, disturb (broken block, double scan, refused length, other shape), complete by what is retained |
| `eac3_session` | do stages stay together, do gains go on? | 17 units, two objects, three subbands in one and two bands, four timeslots, four units: an object is heard, pauses or is gone, and returns; points inside a frame at 1 to 4 of 4 |
| `filter_ring` | is the mirrored ring a shift register? | three steps of two values, any of three values: every head position, with no limit of steps |
| `command_line` | does the program end, with complete files? | inputs of 4 units of length with every claim (0 to 3) at every offset, 9 command lines: every mode, sink, check and limit kind; frames that fill a block and that leave a remainder |
| `claim_silent_start` | a comment of `render.rs` the renderer does not keep | violated |

Three runs say `CHECK_DEADLOCK FALSE`: the program of `command_line` ends, and `truehd_hires` and
`truehd_clock` stop at their number of units (the latter also at a panic). All others must always have a
next step; since a push is several steps in `Renderer714`, `Eac3Session` and `TrueHdDecoder`, that is
also what says that every push returns.

Fairness: only `CommandLine` has any, `WF_vars(Next)`. It is one thread, nothing it does waits for
anything but the operating system, so it takes its next step while it has one; nothing stronger is
assumed, since no choice between steps has to be fair for the program to end. The library itself does
not run: it is called, and whether a client ever calls again is not its promise, so no liveness is
claimed of it.

### What the properties say

*Renderer.* `SampleConservation` and the refinement `BlockContract` say that accepted samples are
returned once, in whole blocks, with less than a block held back. `SlotGrid` says the slot of a sample
depends on its position only, never on how the stream was cut, unless a push failed in mid-frame.
`ClockNeverBehindPayload`, `UpdatesOnTime` and `ObjectsHaveSources` relate the walk to the metadata it
applies; `AlignedRows`, `NoPanicWithoutFault` the debug rows to the audio.

*Metadata.* `NoPanic` holds while the border between bed and dynamic objects moves only with the object
count. `RampsLand`, `GainsInForce`, `RampsOnTime` say that what is left after the last block does not
depend on where slots begin, as long as the blocks are in the order of their offsets: out of order they
are taken by offset from slot to slot but by index within one, and `GainsInForce` fails.

*TrueHD decoder.* `CopiesAgree` and `RestartHeals`: without failures both copies agree; after any
failure, one access unit with restart headers everywhere is read soundly. `PresentationDecoded` covers
the fallback choice; `FormatCommitted` the format of a failed sync.

*Session.* `LabelsKnown`, `SplitAsAnnounced` and `FramesReportChange` hold as long as
no push failed after it was parsed. Without that condition each of them is false in the code: labels
are lost for good when the first unit fails to decode and the next has no sync; the flag of a failed
unit is reported with a later one. `LentFramesLive` needs no condition.

*TrueHD timing.* `FieldsUnderstood`: the second whole field after a branch or a loss is understood, and the
announced time is that of the sender, with the units counted since, unless one was refused.
`NoFalseBranch`: after an accepted branch the deviation is such that the stream itself is no branch;
conditions name the two cases in which the code does not keep this (see below).

*E-AC-3 syntax.* `CouplingGate` and `NothingUnread`: coupling is used only in a frame that sent its
strategy, with coordinates and leak read since the coupling began, however many frames ago.
`OffsetsOfThisFrame`: the offsets and gains in use were read in this frame. The one exception the code
makes is a coupling that begins in a block without offsets, under a strategy that sends them in the
blocks: strategy 2 has then sent none for coupling, and the one in use is the zero of `clear_coupling`,
never that of an earlier coupling. Strategy 3 is not refused and sends no fine offsets: those in use are of
earlier frames, and the property leaves them out.
`AuxNeverTorn`: the aux walk keeps nothing of a frame that broke. `ReadersInStep`: as long as both readers
took the same frames, they find the same at the same bits, one counting and one reading mantissas.

*E-AC-3 metadata.* `RetainedIsLastSent` compares what is kept with a reading of all payloads ever
applied. `AnchorsTellBeds`: an object is tied to a speaker if it is of the bed, unless the border was moved
while its element was kept. `ClientUpToDate`: what the client saw last is what the next payload will
be completed by, unless a payload was applied that it never saw.

*E-AC-3 session.* `StagesTogether`: stages differ only after a failure, and all front ends but the object
decoder have counted every unit. The object decoder counts only those with objects, against its comment
(see below).
`JocCarriesOn` and `SlopesJoin`: the gains kept are those the object's last active frame ended
with, and the next begins there.

*Filterbank and program.* `IsShiftRegister` is the refinement. `SuccessIsComplete`: on success every file
holds every frame, the WAV header tells the right length, positions lie where the audio is.
`Terminates`: whatever lengths the input claims.

### Findings and observations

One comment is contradicted by a run (`findings` in `PROJECT.json` quotes the lines): `render.rs:535`, a
stream that starts with a whole block of silence panics when that block leaves the limiter, since silence
makes no debug row.

The following was met while modelling. Those with a property in the module can be reproduced: add the
property as an INVARIANT to the run's configuration, with the named constant of its MC module.

| where | what | to reproduce |
|---|---|---|
| `render.rs:377` | metadata at offset 0 in mid-block makes one row more than blocks; rows trail audio from then on | `DeferredRowsFollowAudio`, `RestartFrames` |
| `render.rs:825` | turning a bed object into a dynamic one at the same object count passes validation and indexes `update_now` past its end | `DynamicSideValidated`, `ResplitPayloads` |
| `block.rs:92`, `decode.rs:276` | after a failed unit the decoder may query samples the reader never wrote; a change of `substream_info` keeps the old mask, so a substream the presentation needs is not decoded | `QueriedSamplesWritten`, `ValidSamplesDecoded`, `SoundObjectUnits` |
| `ffi.rs:373`, `ffi.rs:621` | the info change of a unit without objects is never reported; flush ends the life of a lent frame, though the header lists push, reset and free only | `ChangeOnThisUnit`, `LentUntilDocumented`, `ChangingUnits` and two views |
| `sync.rs:280`, `decode.rs:297` | the substream count is latched before the sync is checked, also a count above the four substreams there are arrays for; `zero_samples` outlives its terminator | |
| `restart_header.rs:215` | a major sync that repeats the input timing at the expected output timing makes the spliced interval zero: `div_ceil` panics | the step `Panic` of `TrueHdClock` |
| `restart_header.rs`, `access_unit.rs:416` | sums of advance and FIFO delay are not masked and wrap below zero (or panic with overflow checks) | `BranchIsSeamless` |
| `sync.rs`, `access_unit.rs` | after a layout change (which clears `has_parsed_au` but not the counter), or a unit that broke behind its first block, every later sync after a branch is taken for another branch | drop `~drifted` from `NoFalseBranch` |
| `timing.rs` | a lost unit is noticed by the serial field only if the upper bits differ; until then the announced time stays behind | drop `lost = 0` from `FieldsUnderstood` |
| `syncframe.rs` | the core decoder keeps the state a broken block left, the aux walk does not; both readers then differ for good | drop `~s.torn` from `NothingUnread` |
| `pcm.rs:258` | the object decoder accepts a unit without object payloads (`Ok(None)`: "valid E-AC-3", `pcm.rs:228`) and returns before it counts it, though `frames_seen` is documented as the "Number of access units accepted since the last reset" (`pcm.rs:204`); `PcmDecoder` and `Decoder` count each | `FramesSeenCountsAccepted` |
| `syncframe.rs:2121` | offset strategy 3 is accepted but reads no fine offsets: those of earlier frames stay in use | drop `frame.snr = 3` and `frame.snr # 3` from `OffsetsOfThisFrame` |
| `syncframe.rs:2110` | under strategy 2 a coupling that begins in a block without offsets goes by the offset zero, which nothing sent | drop `s.cleared` from `OffsetsOfThisFrame` |
| `render.rs:977` | a differential position is added to the last absolute one that the same block of the same object had, in an earlier payload, not to the block before it | |
| `syncframe.rs` | D15 coupling exponents end two mantissas early: the last two keep what they had | `CouplingExponentsCover` states it |
| `joc.rs` | steep slopes, and the first half of a two-point slope, take the gain by subband where the others take it by parameter band; a one-point steep slope leaves the second offset and row of an earlier frame; payloads for seven channels are always refused | `Eac3Joint` has each as coded |
| `metadata.rs:294` | an object that leaves the bed at the same count stays tied to its speaker | drop the premise of `AnchorsTellBeds` |
| `decoder.rs:78` | metadata of a unit is applied although its length is then found wrong; a retry applies it twice | `RejectUnit` |
| `main.rs:1121` | E-AC-3 rows are placed by the length of the frame in hand times the frames before: wrong if lengths vary | `SuccessIsComplete` without its premise |
| `main.rs` | `--limit 0` decodes one frame; a frame directory ignores `--dump-render-positions-csv`; after any error the WAV file keeps an empty header | `CommandLine` has each as coded |

## Proofs

TLAPS proves the following for every value of the constants that meets the modules' assumptions (which
TLC evaluates in each run). `MaxStream`, `MaxAge`, `MaxDelay` and `MaxUnits` are arbitrary numbers there, so the bounds limit
only how long the behaviours are.

| theorem | argument |
|---|---|
| `Renderer714Proofs!TypeCorrect` | `TypeOK` is inductive; the arithmetic is that a segment ends within its slot (`SegmentBounds`). Flags are a lemma of their own |
| `Renderer714Proofs!CallCorrect` | what the loop variables of a push have in common (`CallInv`): a rate is set and the offset is inside the frame |
| `Renderer714Proofs!Conservation` | only `FinishPush`, `Flush`, `Reset` touch the buffered samples (`StreamSteps`); by division, whole blocks leave a remainder below a block (`BlockDivision`) |
| `Renderer714Proofs!ContractKept` | refinement: `StepRefines` maps each step, the end of a push to `Accept` or `Break` (`FinishRefines`). That nothing is held back without a limiter (`Bypassed`) is needed for the unbuffered case |
| `Renderer714Proofs!UpdatesAreOnTime`, `ObjectsAlwaysHaveSources` | `UpdatesInv` adds to the property that applied updates come before those to do; without it the next one need not be the last in effect. A next update exists since numbers are well founded (`SomeNext`) |
| `Renderer714Proofs!ClockAfterPayload`, `SlotsOnGrid` | a segment moves clock and position alike (`ClockFollows`); `GridInv` is the grid without division, and quotient and remainder are unique (`DivisionUnique`) |
| `Renderer714Proofs!RowsSuffice` | `RowsInv`: the rows, those of the push in progress included, reach past the samples held (`Covered`); so there is one for each complete block (`CoverDrain`) |
| `Renderer714Proofs!RowsFollowBlocks` | `AlignedInv`: they reach exactly as far as the slot in progress will (`Exact`), a block apart (`Dated`) |
| `MetadataRendererProofs!TypeCorrect` | the vectors of an element keep the lengths the loops assume (`ElementOK`) through replacing, taking and ramping |
| `MetadataRendererProofs!IndexSafety` | `SteadyInv`: while the border moves only with the object count, every vector has the length of the layout in force, so every index exists |
| `MetadataRendererProofs!RampsAlwaysLand` | `LandInv` is the property in the middle of a timeslot too; a ramp in flight survives a payload only when the vectors fit it (`UpdateSingle`) |
| `MetadataRendererProofs!GainsAlwaysInForce`, `RampsAlwaysOnTime` | assume `Ascending`: the blocks of a payload are in the order of their offsets. Then those taken always come first (`OrderInv`, `NextInOrder`), and each gain is that of the last of them that sets it |
| `TrueHdDecoderProofs!TypeCorrect` | with `PlaceInv` and `ReadInv`: a block is only decoded where one was read, so there is one to replay |
| `TrueHdDecoderProofs!CopiesAlwaysAgree`, `RestartAlwaysHeals` | `ParseInv`: the parser is ahead by the push in progress, and read its first blocks on the decoder's state or on a restart, which forgets it (`RestartForgets`); `DecodeInv`: the decoder catches up block by block; `RestInv`: then neither is ahead |
| `TrueHdDecoderProofs!AlwaysPresentationDecoded` | the presentation chosen is in the mask of the choice (`ChosenInMask`, over the masks as sets of bits), and choice and mask change together only |
| `TrueHdDecoderProofs!AlwaysFormatCommitted` | a parser that goes on without a sync has not been told another format since the last success |
| `TrueHdDecoderProofs!NeverFalseBranch` | action property, from `AlwaysPaced`, by congruences modulo 2^16 (`Congruent`): `Paced` says what the history, the due time and the advance are congruent to as long as the counter counts every unit. A jump of the input is then a unit too long for its interval, which is no seamless branch either (`SplicedOn`, `TooLong`); right after the first unit its advance is still zero, and the advance allowed rules the branch out (`SplicedFirst`) |
| `TrueHdDecoderProofs!FieldsAlwaysUnderstood` | `HiresInv`: a parser in any state at the beginning of a field keeps step with the zeros sent (`Tracks`, `StaysOnTrack`), so it waits at the end; one that waited has collected what was sent but for a one held back (`Spells`, `SpellsOn`), which is the prefix of the number since halving it again and again gives its digits (`Halves`, by well-foundedness, and `Spelling`). One that lost nothing since a branch takes nothing for a field that is none (`Clean`), and a field it reads follows the last one, since quotient and remainder are unique (`SplitOnce`) |
| `TrueHdSessionProofs!TypeCorrect` | along the call: told, restarted, decoded, resolved (`ToldTypes` ... `DeliverTypes`) |
| `TrueHdSessionProofs!LentFramesAreLive` | inductive by itself |
| `TrueHdSessionProofs!SessionSafety`, `LabelsAlwaysKnown`, `FramesAlwaysReport` | `Consistent` = the four properties and `InStep`: while nothing failed, a decoder that knows a map is valid, the flag is down and the cached layout is the announced one. `InStep` is needed since each of the four reads one of these before the call writes it |
| `Eac3SyntaxProofs!CouplingStaysInside`, `ChannelExponents` | range arithmetic, for every code the checks let through |
| `Eac3SyntaxProofs!AuxIsWhole` | a walk is committed only when it came to its end without an error, and a frame that starts anew is not torn |
| `Eac3SyntaxProofs!NothingStaysUnread` | `SupplyInv`: of every channel, coupled or not, the coordinates were read or are asked for (`Asked`); a strategy may then couple any channels |
| `Eac3SyntaxProofs!OffsetsStayInFrame` | `SupplyInv` again. When the first block's offsets are due, coupling is in use or was cleared (`Ready`); from then on the coupling's offset is one of this frame or the cleared one, whether coupling is in use or begins later (`Settled`), since what ends a coupling clears it |
| `Eac3MetadataProofs!TypeCorrect`, `RetainedIsAlwaysLastSent` | by `EraRead`, a payload either continues the era of an element or begins one, just as it keeps or drops what is retained: `ShapeInv` says that the lengths of what is kept are those all its payloads had. One block at a time: `RetainsMore` |
| `Eac3MetadataProofs!AnchorsAlwaysTellBeds` | from what is retained: with one border all payloads of an era, or none, have the object in the bed |
| `Eac3MetadataProofs!ClientStaysUpToDate` | `ToldInv` states it of all that is told, blocks still being read included |
| `Eac3SyntaxProofs!AlwaysTyped` | every part of a block leaves well-formed states; for the mantissas that a group position stays below the size of its group, read one by one or counted |
| `Eac3SyntaxProofs!ReadAsCounted` | one mantissa more: counting n of them is counting n - 1 and reading one (`CountStep`), since quotient and remainder move together (`OneMore`). Both sides are recursive functions: that they exist (`Iterated`) and are unique (`GoAlike`) rests on `Stepwise` |
| `Eac3SyntaxProofs!AlwaysInStep` | `Paired`: in step, both readers stand at the same block with the same state, or broke there. The blocks differ only at spectral extension, where both fail, and at the mantissas (`BlockAlike`); there `IInv` is needed, or the core decoder would place coupling mantissas where the walk has none |
| `Eac3SyntaxProofs!GateHolds` | `IInv` relates the walk, the core and the frame in hand; one lemma (`Invariance`) that each step keeps it |
| `Eac3SessionProofs!StagesStayTogether` | `StagesInv` states it in the middle of a call: the stages behind the unit have it, those before it have the one before |
| `Eac3SessionProofs!JocAlwaysCarriesOn`, `SlopesAlwaysJoin` | `JocInv`: every object as the property says, and last active in a frame decoded before the unit in hand. One object at a time (`ObjectDecoded`, `SlopeDecoded`); a subband's band is one that was sent (`BandOf`) |
| `CommandLineProofs!AlwaysComplete`, `SuccessIsAlwaysComplete` | `Complete`: a sink that the frame in hand has passed holds all frames, the others lack this one, and WAV and CSV lack what the renderer holds back, which is a remainder (`WholeSum`); the rows so far are those of the samples so far (`RowsJoin`). Sinks are passed in order (`FollowingFacts`) |
| `Eac3SessionProofs!RingIsShiftRegister` | refinement; `RingMirrored` says that the head stands at a whole step and the two copies agree. It is needed where the head wraps: the window then reads the other copy |

Every safety and action property of the passing runs is proved, and the two refinements are.
`AcceptedCounted` (counters of the session) and `TypeOK` of the metadata evaluation and of the E-AC-3
metadata are only proved.
Not provable here: liveness (`Terminates`) and `ENABLED`. No module uses RECURSIVE; what a recursive
function computes is proved from the well-foundedness of numbers (`Stepwise`), a function at a time.

## Not modelled, and why

* Sample values, gains, panning, matrices, filters, transforms, Huffman codes, checksums and the bit
  allocation of E-AC-3: arithmetic, no control. What control takes of them (sizes of blocks, `bap`s,
  whether a check failed) is an input.
* The readers of TrueHD object metadata (`oamd.rs`, `evolution.rs`, `extra_data.rs`, `channel.rs`): one
  payload in, one record out, no state. Their outcome is an input of `TrueHdSession`. The E-AC-3 readers
  are modelled because the retained state depends on what they leave out.
* Warnings: in the default mode they are printed and nothing else.
* Differential positions of the renderer, and with them the place a block keeps from payload to payload
  (`render.rs:977`): what they are added to is arithmetic. Both decoders give every valid position that
  is not a speaker's a place of its own, so otherwise the kept one is never gone back to.
* TrueHD streams that announce no substream, or more than four (the field has four bits).
* The header bits of E-AC-3 frames, with mixing and informational metadata: whether the frame is refused.
* The PCM handle (`StarmineAdTrueHdDecoderHandle`): the session with pointer arrays in place of a rendered
  frame. `free`: no behaviour after it.
* A failed read of the substream directory is one rejection ("directory"), whatever check or parity made it.
* A terminator that claims more samples than the unit has panics only with overflow checks; the model
  has that panic, the build without checks delivers an absurd length instead.
* What the command line prints, and the C example: output and a client.

## Plan

1. Closing the gap between the sessions and the machines below them: that the outcomes `TrueHdSession`
   assumes of decoding (`Told`, `Decoded`) are those of `TrueHdDecoder`, and those of the stages in
   `Eac3Session` those of `Eac3Syntax` and `Eac3Metadata`.
2. The reader of TrueHD object metadata as operators beside `Eac3Payloads`, against the E-AC-3 reader of
   the same syntax.
