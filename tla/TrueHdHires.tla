---------------------------- MODULE TrueHdHires ----------------------------
(***************************************************************************)
(* The high-resolution output timing of a TrueHD stream: every restart     *)
(* header carries one bit of a serial field that spells the upper part of  *)
(* the output time of the access unit the field began in, and the parser   *)
(* collects it bit by bit.  A field is a one, the bits of the number with  *)
(* a one stuffed after every four zeros, and the end mark: a one and five  *)
(* zeros, which occur nowhere else.                                        *)
(*                                                                         *)
(* The sender is external: it sends fields back to back.  A branch may     *)
(* lead anywhere in a field; an access unit that is refused before its     *)
(* restart header is read loses its bit, and is not counted.               *)
(* Numbers that go below zero wrap as usize does without overflow checks.  *)
(*                                                                         *)
(* A definition named Fault_... is a plausible slip in the definition that *)
(* follows it; it serves to show that the properties tell the difference.  *)
(***************************************************************************)
EXTENDS Integers

CONSTANTS
  Lap,          \* 2^16: what the 16-bit output timing counts to
  Digits,       \* bits of the number in a field
  Unit,         \* samples from one restart header to the next
  Joins,        \* output times at which a stream begins
  MaxHeaders,   \* bound: restart headers read
  MaxLost,      \* bound: access units refused
  MaxBranches,  \* bound: branches
  None          \* Option::None

\* Halved(number)[n] is number \div 2^n: its bits but for the last n.
Halved(number) == LET half[n \in 0 .. Digits] == IF n = 0 THEN number ELSE half[n - 1] \div 2
                  IN  half

\* No time reached has an upper part that is too long for a field.
ASSUME HiresAssumption ==
  /\ Lap \in Nat \ {0} /\ Digits \in Nat \ {0} /\ Unit \in Nat \ {0}
  /\ MaxHeaders \in Nat /\ MaxLost \in Nat /\ MaxBranches \in Nat
  /\ \A at \in Joins :
       /\ at \in Nat
       /\ \A sent \in 0 .. MaxHeaders + MaxLost : Halved((at + sent * Unit) \div Lap)[Digits] = 0
  /\ None \notin Int

VARIABLES
  hires,        \* HiresOutputTimingState of the substream parsed first
  announced,    \* ParserState::hires_output_timing
  units,        \* au_counter
  time,         \* the sender's: output time of the next access unit
  value,        \* the sender's: number in the field it is sending
  place,        \* the sender's: how much of the field it has sent
  intact,       \* history: fields received whole in a row (to 2); -1 inside one that is not
  lost,         \* history: access units refused since the last branch
  branches      \* counts branches

hires_vars == <<hires, announced, units, time, value, place, intact, lost, branches>>

-----------------------------------------------------------------------------
(* The sender *)

\* digits: of the number, sent; zeros: in a row since the field began or a one was sent; mark: of the
\* end mark, sent.
Place == [digits : 0 .. Digits, zeros : 0 .. 4, mark : 0 .. 6]

\* What the digits sent so far spell, and the next one.
Spelt(number, digits) == Halved(number)[Digits - digits]
NextDigit(number, digits) == Spelt(number, digits + 1) % 2

FieldBegins == [digits |-> 0, zeros |-> 0, mark |-> 0]
FieldOver(at) == at.mark = 6

\* The bit that is sent at a place: the one a field begins with, a stuffed one, a digit, or one of the
\* end mark's.
Bit(number, at) ==
  IF FieldOver(at) THEN 1
  ELSE IF at.mark > 0 THEN 0
  ELSE IF at.zeros < 4 /\ at.digits < Digits THEN NextDigit(number, at.digits)
  ELSE 1

\* The place after it.
Following(number, at) ==
  IF FieldOver(at) THEN FieldBegins
  ELSE IF at.mark > 0 THEN [at EXCEPT !.mark = @ + 1]
  ELSE IF at.zeros = 4 THEN [at EXCEPT !.zeros = 0]
  ELSE IF at.digits < Digits
       THEN [at EXCEPT !.digits = @ + 1, !.zeros = IF NextDigit(number, at.digits) = 0 THEN @ + 1 ELSE 0]
  ELSE [at EXCEPT !.zeros = 0, !.mark = 1]

\* The zeros that end the first digits, of which every four are followed by a stuffed one.
EndingZeros(number) ==
  LET ending[digits \in 0 .. Digits] ==
        IF digits = 0 \/ Spelt(number, digits) % 2 = 1 THEN 0 ELSE (ending[digits - 1] % 4) + 1
  IN  ending

\* The places of a field.
Places(number) ==
  {at \in Place :
     IF at.mark = 0 THEN LET ending == EndingZeros(number)[at.digits] IN at.zeros \in {ending, ending % 4}
     ELSE at.digits = Digits /\ at.zeros = 0}

\* The number of the field to which the next bit belongs: a field begins with a time.
Sending == IF FieldOver(place) THEN time \div Lap ELSE value

-----------------------------------------------------------------------------
(* The parser *)

Fresh == [state |-> 0, timing |-> 0, au |-> 0, out |-> 0,
          prevTiming |-> 0, prevAu |-> 0, prevOut |-> 0, counter |-> 0]

ResetForBranch(h) == [h EXCEPT !.state = 0, !.counter = 0]

\* States 0 to 4: five zeros in a row end some field.
Search(h, bit) ==
  IF h.state = 0
  THEN [h EXCEPT !.counter = 0, !.state = IF bit = 0 THEN 1 ELSE 0]
  ELSE [h EXCEPT !.state = IF bit = 0 THEN h.state + 1 ELSE 0]

\* State 5: a one begins a field, in this access unit.
Begin(h, bit, au, out) ==
  IF bit = 1 THEN [h EXCEPT !.state = 6, !.timing = 0, !.au = au, !.out = out]
  ELSE [h EXCEPT !.state = 0]

\* States 6 to 10: zeros since the start or since a stuffed one.
Zeros(h, bit) ==
  LET count == h.state - 6
  IN  CASE bit = 1 -> [h EXCEPT !.state = IF count = 4 THEN 6 ELSE 11, !.timing = @ * 2^count]
        [] bit = 0 /\ count = 4 -> [h EXCEPT !.state = 0]
        [] OTHER -> [h EXCEPT !.state = @ + 1]

Fault_OneNotDeferred(h, bit) ==
  LET count == h.state - 10
  IN  [h EXCEPT !.state = IF bit = 0 THEN @ + 1 ELSE 11,
                !.timing = IF bit = 0 THEN @ ELSE @ * 2^count + 2^(count - 1)]

\* States 11 to 15: a one that is either data or the end mark's, and zeros.
OneAndZeros(h, bit) ==
  LET count == h.state - 10
  IN  [h EXCEPT !.state = IF bit = 0 THEN @ + 1 ELSE IF count = 5 THEN 6 ELSE 11,
                !.timing = IF bit = 0 THEN @ ELSE @ * 2^count + 2^(count - 1)]

\* The number agrees with the one before it and the access units between.
Follows(h) == h.timing - h.prevTiming = (h.prevOut + (h.au - h.prevAu) * Unit) \div Lap

Refreshed(h) == [h EXCEPT !.prevTiming = h.timing, !.prevAu = h.au, !.prevOut = h.out]

\* The fifth zero after a one: the field is over.  The first after a reset, or
\* after one that did not follow, tells when the stream began.
Finish(h, sofar) ==
  LET counted == [h EXCEPT !.state = 5, !.counter = IF @ < 3 THEN @ + 1 ELSE @]
  IN  CASE counted.counter < 2 ->
             [hires |-> Refreshed(counted), output |-> h.timing * Lap + h.out - h.au * Unit]
        [] counted.counter >= 2 /\ Follows(h) -> [hires |-> Refreshed(counted), output |-> sofar]
        [] OTHER -> [hires |-> [counted EXCEPT !.counter = 0], output |-> sofar]

\* HiresOutputTimingState::update
Update(h, sofar, bit, au, out) ==
  CASE h.state \in 0 .. 4 -> [hires |-> Search(h, bit), output |-> sofar]
    [] h.state = 5 -> [hires |-> Begin(h, bit, au, out), output |-> sofar]
    [] h.state \in 6 .. 10 -> [hires |-> Zeros(h, bit), output |-> sofar]
    [] h.state \in 11 .. 15 /\ ~(h.state = 15 /\ bit = 0) ->
         [hires |-> OneAndZeros(h, bit), output |-> sofar]
    [] OTHER -> Finish(h, sofar)

-----------------------------------------------------------------------------

HiresInit ==
  /\ hires = Fresh
  /\ announced = None
  /\ units = 0
  /\ time \in Joins
  /\ value = time \div Lap
  /\ place = [digits |-> Digits, zeros |-> 0, mark |-> 6]
  /\ intact = 0
  /\ lost = 0
  /\ branches = 0

\* The sender's part of a step: a field goes on, or a new one begins.
BitSent == time' = time + Unit /\ value' = Sending /\ place' = Following(Sending, place)

\* A restart header is read: the access unit's bit, its 16-bit output time.
Header ==
  LET done == Update(hires, announced, Bit(Sending, place), units, time % Lap)
  IN  /\ units < MaxHeaders
      /\ hires' = done.hires
      /\ announced' = done.output
      /\ units' = units + 1
      /\ BitSent
      /\ intact' = IF FieldOver(place') /\ intact < 2 THEN intact + 1 ELSE intact
      /\ UNCHANGED <<lost, branches>>

\* An access unit is refused before its restart header is read.
Refused ==
  /\ units < MaxHeaders
  /\ lost < MaxLost
  /\ BitSent
  /\ intact' = IF FieldOver(place') THEN 0 ELSE -1
  /\ lost' = lost + 1
  /\ UNCHANGED <<hires, announced, units, branches>>

\* The access unit is the first of another stream: a seamless branch, or
\* other substreams.  The state is reset before the header's bit is read.
Enters(at, entered) ==
  LET done == Update(ResetForBranch(hires), announced, Bit(at \div Lap, entered), units, at % Lap)
  IN  /\ branches < MaxBranches
      /\ units < MaxHeaders
      /\ hires' = done.hires
      /\ announced' = done.output
      /\ units' = units + 1
      /\ time' = at + Unit
      /\ value' = at \div Lap
      /\ place' = Following(at \div Lap, entered)
      /\ intact' = IF FieldOver(place') THEN 0 ELSE -1
      /\ lost' = 0
      /\ branches' = branches + 1

Branch == \E at \in Joins : \E entered \in Places(at \div Lap) : Enters(at, entered)

HiresNext == Header \/ Refused \/ Branch

HiresSpec == HiresInit /\ [][HiresNext]_hires_vars

-----------------------------------------------------------------------------
(* Correctness *)

\* Wherever in a field the branch led, and whatever was lost before, the second
\* field received whole in a row is read right; and if no access unit was
\* refused since the last branch, the time announced for the beginning of the
\* stream plus the access units counted since is the time the sender is at.  A
\* stuffed one taken for a digit, or the end mark's one for data, would break
\* it.  (Of an access unit that was refused the count knows nothing: the time
\* announced then stays behind until a field happens to show it.)
FieldsUnderstood ==
  FieldOver(place) /\ intact = 2 =>
    /\ hires.state = 5
    /\ hires.timing = value
    /\ lost = 0 => announced + units * Unit = time

=============================================================================
