---------------------------- MODULE TrueHdClock ----------------------------
(***************************************************************************)
(* The clock of the TrueHD parser: every access unit says when it enters   *)
(* the decoder's buffer, and one with a major sync when its first sample   *)
(* leaves it, both in 16-bit sample counts.  The parser checks each against*)
(* the access unit before it, takes a jump for a seamless branch if the    *)
(* buffer would have survived it, and from then on shifts its own time by  *)
(* the branch's deviation.                                                 *)
(*                                                                         *)
(* Nearly every check only logs a warning; what is modelled is what they   *)
(* change.  Sample counts are usize and wrap without overflow checks; a    *)
(* division by zero is a panic in every build.  Lengths are those of the   *)
(* code times 256, as it compares them.                                    *)
(*                                                                         *)
(* A definition named Fault_... is a plausible slip in the definition that *)
(* follows it; it serves to show that the properties tell the difference.  *)
(***************************************************************************)
EXTENDS Integers

CONSTANTS
  Wrap,         \* 2^16
  Size,         \* 2^64
  Spa,          \* samples_per_au
  Window,       \* samples_per_75ms
  InputSteps,   \* how far an access unit's input timing may be from the last
  OutputSlips,  \* how far a major sync's output timing may be from the due one
  Lengths, Rates, Layouts,
  MaxUnits, MaxSyncs, MaxRefused   \* bounds

ASSUME ClockAssumption ==
  /\ {Wrap, Size, Spa, Window, MaxUnits, MaxSyncs, MaxRefused} \subseteq Nat \ {0}
  /\ Spa >= 4 /\ Spa < Window /\ Window < Wrap /\ Wrap < Size /\ Size % Wrap = 0
  /\ InputSteps \subseteq Nat /\ OutputSlips \subseteq Nat
  /\ Lengths \subseteq Nat /\ Rates \subseteq Nat \ {0} /\ Layouts # {}

VARIABLES
  clock,        \* the fields of ParserState that tell the time
  panicked,     \* a division by zero
  branched,     \* AccessUnit::has_valid_branch of the last one read
  due,          \* history: output time of the next access unit, had the last sync gone on
  aligned,      \* history: no jump of the output but the last branch, none missed
  drifted,      \* history: the layout changed, or an access unit was refused that has
                \*   its place among the outputs, but is not counted
  syncs, refused   \* count towards the bounds

clock_vars == <<clock, panicked, branched, due, aligned, drifted, syncs, refused>>

CeilDiv(n, d) == (n + d - 1) \div d

-----------------------------------------------------------------------------
(* Parts of AccessUnit::read *)

\* The values of the access unit before; those of a branch are not taken over.
Latched(c) ==
  IF c.branch THEN c
  ELSE [c EXCEPT !.prevLength = c.length, !.prevAdvance = c.advance, !.prevFifo = c.fifo,
                 !.prevInput = c.input, !.prevUnwrapped = c.unwrapped, !.prevRate = c.rate]

\* The input timing less the deviation, raised until it is not before the last.
Unwrapped(c, input) ==
  LET low == (input - c.deviation) % Wrap
  IN  IF c.prevUnwrapped <= low THEN low
      ELSE low + Wrap * CeilDiv(c.prevUnwrapped - low, Wrap)

Arrived(c, au) ==
  LET at == Latched(c)
  IN  [at EXCEPT !.input = au.input, !.unwrapped = Unwrapped(at, au.input), !.length = au.length,
                 !.inputJump = FALSE, !.outputJump = FALSE, !.rateJump = FALSE]

\* MajorSyncInfo::read: a new rate is a jump, other substreams begin anew.
Synced(c, au) ==
  [c EXCEPT !.rateJump = c.parsed /\ c.rate # au.rate,
            !.rate = au.rate,
            !.parsed = c.parsed /\ c.layout = au.layout,
            !.layout = au.layout,
            !.lastSync = c.counter]

\* check_fifo
InputInterval(c) ==
  IF c.branch THEN (c.unwrapped - c.prevUnwrapped) % Size ELSE (c.input - c.prevInput) % Wrap

InputJumps(c) ==
  \/ InputInterval(c) < Spa \div 4
  \/ InputInterval(c) < c.prevFifo
  \/ c.prevLength > InputInterval(c) * c.rate
  \/ InputInterval(c) > Window

Checked(c) ==
  LET timed == [c EXCEPT !.fifo = CeilDiv(c.length, c.rate)]
  IN  IF c.parsed THEN [timed EXCEPT !.inputJump = InputJumps(timed)] ELSE timed

-----------------------------------------------------------------------------
(* RestartHeader::read *)

ExpectedOutput(c) == (c.deviation + Spa + c.history) % Wrap

HasJump(c) == c.rateJump \/ c.inputJump \/ c.outputJump

\* What the input interval would be had the jump been spliced in.
SplicedInterval(c) == (Spa + c.prevAdvance - c.advance) % Wrap

\* The buffer neither starves nor overflows at the splice.
BranchIsSeamless(c) ==
  /\ c.advance <= (c.prevAdvance + 3 * (Spa \div 4)) % Size
  /\ c.advance <= (c.prevAdvance + Spa - c.prevFifo) % Size
  /\ c.advance <= Window - Spa
  /\ c.prevLength <= c.prevRate * SplicedInterval(c)

Fault_DeviationFromExpected(c) == (c.output - ExpectedOutput(c)) % Wrap

\* How far the outputs have moved from where the first one put them.
Deviation(c) == (c.output - c.firstOutput - c.counter * Spa) % Wrap

\* The first access unit only says where the outputs begin.
FirstOutput(c, output) ==
  [c EXCEPT !.firstOutput = output, !.output = IF output < c.input THEN output + Wrap ELSE output]

LaterOutput(c, output) ==
  LET at == [c EXCEPT !.output = output, !.advance = (output - Spa - c.input) % Wrap]
  IN  [at EXCEPT !.outputJump = ExpectedOutput(at) # output]

\* A branch that is accepted; one that is not leaves its warnings.
Judged(c) ==
  IF HasJump(c) /\ BranchIsSeamless(c)
  THEN [c EXCEPT !.branch = TRUE, !.deviation = Deviation(c)]
  ELSE c

-----------------------------------------------------------------------------
(* Block::read_into, the first block of the first substream *)

\* The latency and with it the advance; the output history, unwrapped.
Blocked(c, sync) ==
  LET latency == ((c.counter - c.lastSync) * Spa + c.output - c.input) % Wrap
      out == IF c.parsed THEN c.history + Spa ELSE c.output
  IN  [c EXCEPT !.advance = IF sync THEN @ ELSE (latency - Spa) % Size, !.history = out]

-----------------------------------------------------------------------------

Before(c, au) == Checked(IF au.sync THEN Synced(Arrived(c, au), au) ELSE Arrived(c, au))

\* The directories are read, then the first block and its restart header.
HeaderTimes(c, au) ==
  LET open == [c EXCEPT !.branch = FALSE]
  IN  CASE ~au.sync -> open
        [] au.sync /\ ~c.parsed -> FirstOutput(open, au.output)
        [] OTHER -> LaterOutput(open, au.output)

DividesByZero(c) == HasJump(c) /\ SplicedInterval(c) = 0

ClockInit ==
  /\ clock = [parsed |-> FALSE, counter |-> 0, lastSync |-> 0, layout |-> CHOOSE l \in Layouts : TRUE,
              input |-> 0, prevInput |-> 0, unwrapped |-> 0, prevUnwrapped |-> 0,
              output |-> 0, firstOutput |-> 0, deviation |-> 0, history |-> 0,
              advance |-> 0, prevAdvance |-> 0, fifo |-> 0, prevFifo |-> 0,
              length |-> 0, prevLength |-> 0, rate |-> 0, prevRate |-> 0,
              inputJump |-> FALSE, outputJump |-> FALSE, rateJump |-> FALSE, branch |-> FALSE]
  /\ panicked = FALSE
  /\ branched = FALSE
  /\ due = Spa
  /\ aligned = TRUE
  /\ drifted = FALSE
  /\ syncs = 0 /\ refused = 0

\* An access unit as a sender may send it: relative to the one before.
Sent(sync) ==
  {[sync |-> sync, input |-> (clock.input + step) % Wrap, output |-> (due + slip) % Wrap,
    length |-> length, rate |-> rate, layout |-> layout] :
     step \in InputSteps, slip \in IF sync THEN OutputSlips ELSE {0}, length \in Lengths,
     rate \in IF sync THEN Rates ELSE {clock.rate}, layout \in IF sync THEN Layouts ELSE {clock.layout}}

Room(sync) ==
  /\ ~panicked
  /\ clock.counter + refused < MaxUnits
  /\ sync => syncs < MaxSyncs

\* The restart header's and the first block's part.
HeaderRead(before, au) ==
  LET headed == HeaderTimes(before, au)
  IN  IF au.sync /\ before.parsed THEN Judged(headed) ELSE headed

Divides(before, au) == au.sync /\ before.parsed /\ DividesByZero(HeaderTimes(before, au))

\* What the histories say after an access unit that was read, or refused.
Remember(au, after, read) ==
  /\ due' = ((IF au.sync THEN au.output ELSE due) + Spa) % Wrap
  /\ aligned' = \/ read /\ after.branch
                \/ aligned /\ ~after.outputJump /\ (clock.parsed => read)
  /\ syncs' = IF au.sync THEN syncs + 1 ELSE syncs

\* AccessUnit::read of an access unit that is whole.
ReadUnit(sync) ==
  \E au \in Sent(sync) :
    LET before == Before(clock, au)
        after == HeaderRead(before, au)
    IN  /\ Room(sync)
        /\ sync \/ clock.parsed
        /\ ~Divides(before, au)
        /\ clock' = [Blocked(after, sync) EXCEPT !.parsed = TRUE, !.counter = @ + 1]
        /\ branched' = (after.branch \/ (clock.parsed /\ after.layout # clock.layout))
        /\ Remember(au, after, TRUE)
        /\ drifted' = (drifted \/ (clock.parsed /\ after.layout # clock.layout))
        /\ UNCHANGED <<panicked, refused>>

\* The spliced interval is zero: the data rate over it is a division by zero.
Panic ==
  \E au \in Sent(TRUE) :
    /\ Room(TRUE)
    /\ Divides(Before(clock, au), au)
    /\ panicked' = TRUE
    /\ UNCHANGED <<clock, branched, due, aligned, drifted, syncs, refused>>

\* An access unit with an error behind its first block, such as a parity; one that turns out to be
\* too long is refused only after has_parsed_au was set.
BrokenSegment(sync) ==
  \E au \in Sent(sync), overlong \in BOOLEAN :
    LET before == Before(clock, au)
        after == HeaderRead(before, au)
    IN  /\ Room(sync) /\ refused < MaxRefused
        /\ sync \/ clock.parsed
        /\ ~Divides(before, au)
        /\ clock' = [Blocked(after, sync) EXCEPT !.parsed = @ \/ overlong]
        /\ refused' = refused + 1
        /\ Remember(au, after, FALSE)
        /\ drifted' = (drifted \/ clock.parsed \/ overlong)
        /\ UNCHANGED <<panicked, branched>>

\* An access unit without a major sync before any with one.
NoInitialSync ==
  \E au \in Sent(FALSE) :
    /\ Room(FALSE) /\ refused < MaxRefused
    /\ ~clock.parsed
    /\ clock' = Arrived(clock, au)
    /\ due' = (due + Spa) % Wrap
    /\ refused' = refused + 1
    /\ UNCHANGED <<panicked, branched, aligned, drifted, syncs>>

\* An access unit whose nibble parity is wrong: its blocks are not read.
WrongParity(sync) ==
  \E au \in Sent(sync) :
    LET before == Before(clock, au)
    IN  /\ Room(sync) /\ refused < MaxRefused
        /\ sync \/ clock.parsed
        /\ clock' = [before EXCEPT !.branch = FALSE]
        /\ refused' = refused + 1
        /\ Remember(au, before, FALSE)
        /\ drifted' = (drifted \/ (clock.parsed /\ before.layout # clock.layout))
        /\ UNCHANGED <<panicked, branched>>

ClockNext ==
  \/ \E sync \in BOOLEAN : ReadUnit(sync) \/ WrongParity(sync) \/ BrokenSegment(sync)
  \/ NoInitialSync
  \/ Panic

ClockSpec == ClockInit /\ [][ClockNext]_clock_vars

-----------------------------------------------------------------------------
(* Correctness *)

\* Two access units follow one another without a jump.
GoesOn ==
  /\ clock'.input = (clock.input + Spa) % Wrap
  /\ clock'.output = due
  /\ clock'.rate = clock.rate /\ clock'.layout = clock.layout

\* After any branch that was accepted, a stream that simply goes on is not taken
\* for another branch: a major sync whose timing follows from the last one
\* moves nothing, resets nothing and is not reported as one.  A deviation
\* reckoned from anything but the stream's beginning, or kept over a branch,
\* would report a branch at every major sync.  (It does so once the layout
\* changed, or an access unit broke behind its first block.)
NoFalseBranch ==
  [][ clock'.counter = clock.counter + 1 /\ clock.counter > 0 /\ aligned /\ ~drifted
      /\ ~branched /\ GoesOn => ~branched' ]_clock_vars

=============================================================================
