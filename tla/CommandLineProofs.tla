------------------------- MODULE CommandLineProofs -------------------------
(***************************************************************************)
(* When the command-line program says it succeeded, its files are          *)
(* complete: for every input, command line, size of block and choice of    *)
(* outputs.                                                                *)
(***************************************************************************)
EXTENDS CommandLine, SequenceTheorems, WellFoundedInduction, TLAPS

-----------------------------------------------------------------------------
(* The invariant *)

\* A frame was decoded and is on its way through the sinks.
InHand == at \in Sinks \cup {"count"}

\* What the frame in hand has still to bring to a sink.
Lacking(sink) == IF at \in Sinks /\ Place[at] <= Place[sink] THEN Amount(sink) ELSE 0

HeldBack(sink) == IF sink \in {"wav", "csv"} THEN pending ELSE 0

Emitting == IF InHand THEN unit.emitted ELSE 0

\* Frames decoded, and frames that went through the WAV file.
Decoded == frames + (IF InHand THEN 1 ELSE 0)
ThroughWav == frames + (IF InHand /\ (at \in Sinks => Place[at] > Place["wav"]) THEN 1 ELSE 0)

Alike == \A one, other \in lengths : one = other

Types ==
  /\ run \in Runs
  /\ at \in {"start", "split", "decode", "count", "flush", "finalize", "end"} \cup Active
  /\ exit \in {"running", "success", "failure"}
  /\ exit # "running" => at = "end"
  /\ at = "end" => exit # "running"
  /\ frames \in Nat /\ pending \in Nat /\ rendered \in Nat /\ total \in Nat
  /\ lengths \subseteq Nat
  /\ written \in [Sinks -> Nat]
  /\ format = [sink \in Sinks |-> format[sink]]
  /\ InHand => /\ unit.samples \in Samples[run.mode] /\ unit.samples \in lengths
               /\ unit.format \in Formats
               /\ unit.emitted \in Nat

\* The renderer emits what it was given, in whole blocks; E-AC-3 leaves nothing behind.
RendererInv ==
  /\ Renders => rendered + Emitting + pending = total
  /\ ~Renders \/ run.mode # "truehd" => pending = 0
  /\ InHand => unit.emitted % Block = 0
  /\ InHand /\ Renders /\ run.mode # "truehd" => unit.emitted = unit.samples
  /\ at \notin {"finalize", "end"} => rendered % Block = 0
  /\ at \in {"finalize", "end"} => pending = 0

\* Every sink has all frames, but for the one in hand and what the renderer holds back.
SinksInv == \A sink \in Active : written[sink] + Lacking(sink) + HeldBack(sink) = total

CountInv ==
  /\ lengths = {} <=> Decoded = 0
  /\ lengths = {} => total = 0
  /\ Alike => \A length \in lengths : total = Decoded * length
  /\ "wav" \in Active => (format["wav"] = None <=> ThroughWav = 0)

RowsInv == "csv" \in Active /\ (run.mode = "truehd" \/ Alike) => rows = RowsOf(0, written["csv"])

HeaderInv == exit = "success" /\ "wav" \in Active => header = (IF lengths = {} THEN None ELSE written["wav"])

\* A program that failed promises nothing.
Complete == exit # "failure" => RendererInv /\ SinksInv /\ CountInv /\ RowsInv /\ HeaderInv

-----------------------------------------------------------------------------
(* Sinks and their order *)

LEMMA PlaceFacts ==
  /\ Sinks = {"core", "objects", "joc", "wav", "csv", "frame", "aux"}
  /\ \A sink \in Sinks : Place[sink] \in 1 .. 7
  /\ \A sink, other \in Sinks : Place[sink] = Place[other] => sink = other
  /\ Place["wav"] = 4 /\ Place["csv"] = 5
<1>1. Sinks = {"core", "objects", "joc", "wav", "csv", "frame", "aux"}
  BY DEF Sinks, Place
<1> QED BY <1>1 DEF Place

LEMMA ActiveFacts ==
  ASSUME run \in Runs
  PROVE  /\ run.mode \in {"eac3", "truehd", "dir"}
         /\ Active \subseteq Sinks
         /\ "wav" \in Active \/ "csv" \in Active => Renders
         /\ run.mode = "dir" => "csv" \notin Active
         /\ Samples[run.mode] \subseteq Nat
         /\ run.mode # "truehd" => \A samples \in Samples[run.mode] : samples % Block = 0
<1>1. run.mode \in {"eac3", "truehd", "dir"} /\ run.requested \subseteq Sinks
  BY CommandLineAssumption
<1>2. Active \subseteq Sinks
  BY <1>1 DEF Active
<1>3. "wav" \in Active \/ "csv" \in Active => Renders
  BY DEF Renders
<1>4. run.mode = "dir" => "csv" \notin Active
  BY DEF Active, Offered
<1> QED BY <1>1, <1>2, <1>3, <1>4, CommandLineAssumption

\* Every set of numbers has a least one.
LEMMA LeastNumber ==
  ASSUME NEW T \in SUBSET Nat, T # {}
  PROVE  \E x \in T : \A y \in T : x <= y
<1>1. PICK x \in T : \A y \in T : ~(<<y, x>> \in OpToRel(<, Nat))
  BY NatLessThanWellFounded, WFMin
<1>2. ASSUME NEW y \in T, y < x PROVE FALSE
  <2> DEFINE pair == <<y, x>>
  <2>1. pair \in Nat \X Nat /\ pair[1] = y /\ pair[2] = x
    OBVIOUS
  <2> HIDE DEF pair
  <2>2. pair \in OpToRel(<, Nat)
    BY <1>2, <2>1 DEF OpToRel
  <2> QED BY <1>1, <2>2 DEF pair
<1> QED BY <1>2

\* Among sinks one comes first.
LEMMA FirstSink ==
  ASSUME NEW left \in SUBSET Sinks, left # {}
  PROVE  \E sink \in left : \A other \in left : Place[sink] <= Place[other]
<1> DEFINE places == {Place[sink] : sink \in left}
<1>1. places \in SUBSET Nat /\ places # {}
  <2>1. \A sink \in left : Place[sink] \in Nat
    BY PlaceFacts
  <2> QED BY <2>1
<1>2. \E n \in places : \A m \in places : n <= m
  <2> HIDE DEF places
  <2> QED BY <1>1, LeastNumber
<1> QED BY <1>2

\* The next sink is a later one, and none is left out.
LEMMA FollowingFacts ==
  ASSUME run \in Runs, NEW place \in 0 .. 7
  PROVE  /\ Following(place) \in Active \cup {"count"}
         /\ Following(place) \in Sinks => Following(place) \in Active /\ Place[Following(place)] > place
         /\ \A sink \in Active : Place[sink] > place =>
              Following(place) \in Sinks /\ Place[Following(place)] <= Place[sink]
<1> DEFINE left == {sink \in Active : Place[sink] > place}
           first == CHOOSE sink \in left : \A other \in left : Place[sink] <= Place[other]
<1>1. Active \subseteq Sinks /\ "count" \notin Sinks
  BY ActiveFacts, PlaceFacts
<1>2. CASE left = {}
  BY <1>1, <1>2 DEF Following
<1>3. CASE left # {}
  <2>1. left \in SUBSET Sinks
    BY <1>1
  <2>2. \E sink \in left : \A other \in left : Place[sink] <= Place[other]
    <3> HIDE DEF left
    <3> QED BY <1>3, <2>1, FirstSink
  <2>3. first \in left /\ \A other \in left : Place[first] <= Place[other]
    <3> HIDE DEF left
    <3> QED BY <2>2
  <2>4. Following(place) = first
    BY <1>3 DEF Following
  <2> QED BY <1>1, <2>3, <2>4
<1> QED BY <1>2, <1>3

-----------------------------------------------------------------------------
(* Blocks *)

LEMMA BlockDivision ==
  ASSUME NEW n \in Nat
  PROVE  /\ n \div Block \in Nat /\ n % Block \in 0 .. Block - 1
         /\ (n \div Block) * Block \in Nat
         /\ n = (n \div Block) * Block + (n % Block)
<1>1. Block \in Nat \ {0}
  BY CommandLineAssumption
<1> QED BY <1>1

\* Quotient and remainder are the only ones.
LEMMA DivisionUnique ==
  ASSUME NEW q \in Nat, NEW r \in 0 .. Block - 1, NEW n \in Nat, n = q * Block + r
  PROVE  n \div Block = q /\ n % Block = r
<1> DEFINE d == n \div Block
           m == n % Block
<1>1. Block \in Nat \ {0}
  BY CommandLineAssumption
<1>2. d \in Nat /\ m \in 0 .. Block - 1 /\ n = d * Block + m
  BY BlockDivision
<1> HIDE DEF d, m
<1>3. ASSUME NEW a \in Nat, NEW b \in Nat, a < b
      PROVE  a * Block + Block <= b * Block
  <2>1. PICK k \in Nat : b = a + 1 + k
    <3>1. b - a - 1 \in Nat /\ b = a + 1 + (b - a - 1)
      BY <1>3
    <3> QED BY <3>1
  <2>2. b * Block = a * Block + Block + k * Block
    BY <1>1, <2>1
  <2>3. k * Block \in Nat /\ a * Block \in Nat
    BY <1>1
  <2> QED BY <1>1, <2>2, <2>3
<1>4. q * Block \in Nat /\ d * Block \in Nat
  BY <1>1, <1>2
<1>5. ~(q < d)
  BY <1>1, <1>2, <1>3, <1>4
<1>6. ~(d < q)
  BY <1>1, <1>2, <1>3, <1>4
<1>7. q = d
  BY <1>2, <1>5, <1>6
<1> QED BY <1>1, <1>2, <1>4, <1>7 DEF d, m

\* What is so many blocks leaves nothing over.
LEMMA Multiple ==
  ASSUME NEW q \in Nat
  PROVE  q * Block \in Nat /\ (q * Block) % Block = 0
<1>1. Block \in Nat \ {0}
  BY CommandLineAssumption
<1>2. q * Block \in Nat
  BY <1>1
<1> DEFINE n == q * Block
<1>3. n = q * Block + 0
  BY <1>2
<1> HIDE DEF n
<1>4. n % Block = 0
  BY <1>1, <1>2, <1>3, DivisionUnique DEF n
<1> QED BY <1>2, <1>4 DEF n

LEMMA WholeFacts ==
  ASSUME NEW held \in Nat
  PROVE  /\ Whole(held) \in Nat /\ Whole(held) % Block = 0 /\ held - Whole(held) \in Nat
         /\ held % Block = 0 => Whole(held) = held
<1> DEFINE q == held \div Block
<1>1. Block \in Nat \ {0}
  BY CommandLineAssumption
<1>2. q \in Nat /\ q * Block \in Nat /\ held % Block \in 0 .. Block - 1 /\ held = q * Block + (held % Block)
  BY BlockDivision
<1> HIDE DEF q
<1>3. Whole(held) = q * Block
  BY <1>1, <1>2 DEF Whole
<1>4. (q * Block) % Block = 0
  BY <1>2, Multiple
<1> QED BY <1>1, <1>2, <1>3, <1>4

\* Sums of whole blocks are whole.
LEMMA WholeSum ==
  ASSUME NEW a \in Nat, NEW b \in Nat, a % Block = 0, b % Block = 0
  PROVE  (a + b) % Block = 0
<1> DEFINE m == a \div Block
           n == b \div Block
<1>1. Block \in Nat \ {0}
  BY CommandLineAssumption
<1>2. m \in Nat /\ n \in Nat /\ a = m * Block /\ b = n * Block
  BY <1>1, BlockDivision
<1> HIDE DEF m, n
<1>3. a + b = (m + n) * Block
  BY <1>1, <1>2
<1>4. m + n \in Nat
  BY <1>2
<1> QED BY <1>3, <1>4, Multiple

\* After whole blocks more rows make the rows of all.
LEMMA RowsJoin ==
  ASSUME NEW a \in Nat, NEW b \in Nat, a % Block = 0
  PROVE  RowsOf(0, a) \o RowsOf(a, b) = RowsOf(0, a + b)
<1>1. Block \in Nat \ {0}
  BY CommandLineAssumption
<1> DEFINE m == a \div Block
           n == (b + Block - 1) \div Block
           r == (b + Block - 1) % Block
<1>2. m \in Nat /\ m * Block \in Nat /\ a = m * Block
  BY <1>1, BlockDivision
<1>3. n \in Nat /\ n * Block \in Nat /\ r \in 0 .. Block - 1 /\ b + Block - 1 = n * Block + r
  <2>1. b + Block - 1 \in Nat
    BY <1>1
  <2> QED BY <2>1, BlockDivision
<1> HIDE DEF m, r
<1>4. (a + Block - 1) \div Block = m
  <2>1. a + Block - 1 \in Nat /\ Block - 1 \in 0 .. Block - 1 /\ a + Block - 1 = m * Block + (Block - 1)
    BY <1>1, <1>2
  <2> QED BY <1>2, <2>1, DivisionUnique
<1>5. (a + b + Block - 1) \div Block = m + n
  <2> HIDE DEF n
  <2>1. a + b + Block - 1 \in Nat /\ m + n \in Nat
    BY <1>1, <1>2, <1>3
  <2>2. (m + n) * Block = m * Block + n * Block
    BY <1>1, <1>2, <1>3
  <2>3. a + b + Block - 1 = (m + n) * Block + r
    BY <1>1, <1>2, <1>3, <2>2
  <2> QED BY <1>3, <2>1, <2>3, DivisionUnique
<1> DEFINE At(i) == (i - 1) * Block
           first == [i \in 1 .. m |-> At(i)]
           second == [i \in 1 .. n |-> At(m + i)]
           all == [i \in 1 .. m + n |-> At(i)]
<1>6. RowsOf(0, a) = first
  BY <1>1, <1>2, <1>4, 0 + a = a DEF RowsOf
<1>7. RowsOf(a, b) = second
  <2>1. ASSUME NEW i \in 1 .. n PROVE a + (i - 1) * Block = At(m + i)
    BY <1>1, <1>2, <1>3, <2>1
  <2> QED BY <1>1, <2>1 DEF RowsOf, n
<1>8. RowsOf(0, a + b) = all
  BY <1>1, <1>2, <1>5 DEF RowsOf
<1>9. \A i \in Int : At(i) \in Int
  BY <1>1
<1> HIDE DEF At, n
<1>10. first \in Seq(Int) /\ second \in Seq(Int) /\ Len(first) = m /\ Len(second) = n
  BY <1>2, <1>3, <1>9
<1>11. all \in Seq(Int) /\ Len(all) = m + n
  BY <1>2, <1>3, <1>9
<1>12. ASSUME NEW i \in 1 .. m + n PROVE (first \o second)[i] = all[i]
  <2>1. (first \o second)[i] = IF i <= m THEN first[i] ELSE second[i - m]
    <3> HIDE DEF first, second
    <3>1. \A j \in 1 .. Len(first) + Len(second) :
            (first \o second)[j] = IF j <= Len(first) THEN first[j] ELSE second[j - Len(first)]
      BY <1>10, ConcatProperties
    <3> QED BY <1>10, <3>1
  <2>2. i <= m => first[i] = At(i)
    BY <1>2
  <2>3. ~(i <= m) => second[i - m] = At(i)
    <3>1. ~(i <= m) => i - m \in 1 .. n /\ m + (i - m) = i
      BY <1>2, <1>3
    <3> QED BY <3>1
  <2> HIDE DEF first, second
  <2> QED BY <2>1, <2>2, <2>3
<1>13. first \o second = all
  <2> HIDE DEF first, second, all
  <2>1. first \o second \in Seq(Int) /\ Len(first \o second) = m + n
    BY <1>10
  <2> QED BY <1>11, <1>12, <2>1, SeqEqual
<1> QED BY <1>6, <1>7, <1>8, <1>13

-----------------------------------------------------------------------------
(* Every step keeps the invariant *)

LEMMA SameCommand ==
  ASSUME run' = run
  PROVE  /\ Active' = Active /\ Renders' = Renders
         /\ \A place : Following(place)' = Following(place)
  BY DEF Active, Renders, Offered, Following

LEMMA Beginning ==
  ASSUME Init
  PROVE  Types /\ Complete
<1>1. run \in Runs /\ Active \subseteq Sinks /\ ("wav" \in Active \/ "csv" \in Active => Renders)
  BY ActiveFacts DEF Init
<1>2. at = "start" /\ "start" \notin Sinks /\ ~InHand /\ Block \in Nat \ {0}
  BY PlaceFacts, CommandLineAssumption DEF Init, InHand
<1>3. Types
  BY <1>1, <1>2 DEF Init, Types
<1>4. RendererInv
  BY <1>2 DEF Init, RendererInv, Emitting
<1>5. SinksInv
  BY <1>1, <1>2 DEF Init, SinksInv, Lacking, HeldBack
<1>6. CountInv
  <2>1. "wav" \in Active => format["wav"] = None
    BY <1>1 DEF Init
  <2> QED BY <1>2, <2>1 DEF Init, CountInv, Decoded, ThroughWav
<1>7. RowsInv
  <2>1. "csv" \in Active => written["csv"] = 0
    BY <1>1 DEF Init
  <2>2. RowsOf(0, 0) = << >>
    <3>1. (0 + Block - 1) \div Block = 0
      <4>1. Block - 1 \in 0 .. Block - 1 /\ 0 + Block - 1 = 0 * Block + (Block - 1) /\ 0 + Block - 1 \in Nat
        BY <1>2
      <4> QED BY <4>1, DivisionUnique
    <3>2. RowsOf(0, 0) = [i \in 1 .. 0 |-> 0 + (i - 1) * Block]
      BY <3>1 DEF RowsOf
    <3>3. 1 .. 0 = {}
      OBVIOUS
    <3>4. RowsOf(0, 0) = [i \in {} |-> 0 + (i - 1) * Block]
      BY <3>2, <3>3
    <3> QED BY <3>4
  <2> QED BY <2>1, <2>2 DEF Init, RowsInv
<1> QED BY <1>3, <1>4, <1>5, <1>6, <1>7 DEF Complete, HeaderInv, Init

\* A failure ends the program wherever it is.
LEMMA Failing ==
  ASSUME Types, Fail, UNCHANGED <<run, frames, pending, rendered, total, lengths, written, format>>
  PROVE  Types' /\ Complete'
<1>1. Active' = Active /\ "end" \notin Sinks
  BY SameCommand, PlaceFacts
<1> QED BY <1>1 DEF Types, Complete, Fail, InHand

\* A step with no frame in hand that moves nothing.
LEMMA Quiet ==
  ASSUME Types, Complete, exit = "running", exit' = exit,
         at \in {"start", "split", "decode"}, at' \in {"split", "decode", "flush"},
         UNCHANGED <<run, frames, pending, rendered, outputs, history>>
  PROVE  Types' /\ Complete'
<1>1. Active' = Active /\ Renders' = Renders
  BY SameCommand
<1>2. ~InHand /\ ~InHand' /\ at \notin Sinks /\ at' \notin Sinks
  BY PlaceFacts DEF InHand
<1>3. Types'
  BY <1>1, <1>2 DEF Types, outputs, history
<1>4. RendererInv'
  BY <1>1, <1>2 DEF Complete, RendererInv, Emitting, history
<1>5. SinksInv'
  BY <1>1, <1>2 DEF Complete, SinksInv, Lacking, HeldBack, history, outputs
<1>6. CountInv'
  BY <1>1, <1>2 DEF Complete, CountInv, Decoded, ThroughWav, history, outputs, Alike
<1>7. RowsInv'
  BY <1>1, <1>2 DEF Complete, RowsInv, RowsOf, Alike, history, outputs
<1> QED BY <1>3, <1>4, <1>5, <1>6, <1>7 DEF Complete, HeaderInv

\* What a frame adds is either emitted or held back.
LEMMA Decoding ==
  ASSUME Types, Complete, Decode
  PROVE  Types' /\ Complete'
<1>1. PICK samples \in Samples[run.mode], kind \in Formats :
        LET held == pending + samples
        IN  /\ at = "decode"
            /\ rate' = IF Renders THEN kind.rate ELSE rate
            /\ pending' = IF Renders THEN held - Whole(held) ELSE 0
            /\ unit' = [samples |-> samples, format |-> kind, emitted |-> IF Renders THEN Whole(held) ELSE 0]
            /\ total' = total + samples
            /\ lengths' = lengths \cup {samples}
            /\ at' = Following(0)
            /\ UNCHANGED <<input, offset, synced, exit, frames, rendered, outputs>>
  BY DEF Decode
<1> DEFINE held == pending + samples
           emitted == IF Renders THEN Whole(held) ELSE 0
<1>2. run' = run /\ run \in Runs /\ exit' = exit /\ exit = "running" /\ frames' = frames
      /\ rendered' = rendered /\ written' = written /\ format' = format /\ rows' = rows /\ header' = header
  BY <1>1 DEF input, outputs, Types
<1>3. Active' = Active /\ Renders' = Renders /\ at' = Following(0)
  BY <1>1, <1>2, SameCommand
<1>4. at \notin Sinks /\ ~InHand /\ at' \in Active \cup {"count"} /\ Active \subseteq Sinks /\ InHand'
  BY <1>1, <1>2, <1>3, FollowingFacts, ActiveFacts, PlaceFacts DEF InHand
<1>5. samples \in Nat /\ pending \in Nat /\ held \in Nat /\ frames \in Nat /\ total \in Nat
  BY <1>2, ActiveFacts DEF Types
<1>6. emitted \in Nat /\ pending' \in Nat /\ emitted % Block = 0
      /\ (Renders => emitted + pending' = pending + samples)
  <2>1. Whole(held) \in Nat /\ Whole(held) % Block = 0 /\ held - Whole(held) \in Nat
    BY <1>5, WholeFacts
  <2>2. 0 % Block = 0
    BY CommandLineAssumption
  <2> QED BY <1>1, <1>5, <2>1, <2>2
<1>7. unit'.samples = samples /\ unit'.emitted = emitted /\ unit'.format = kind
  BY <1>1
<1>8. run.mode # "truehd" => pending' = 0 /\ (Renders => emitted = samples)
  <2>1. CASE run.mode # "truehd" /\ Renders
    <3>1. pending = 0 /\ held = samples
      BY <1>2, <1>5, <2>1 DEF Complete, RendererInv
    <3>2. held % Block = 0
      BY <1>2, <2>1, <3>1, ActiveFacts
    <3>3. Whole(held) = held
      BY <1>5, <3>2, WholeFacts
    <3> QED BY <1>1, <1>5, <2>1, <3>1, <3>3
  <2> QED BY <1>1, <2>1
<1> HIDE DEF held, emitted
<1>9. Types'
  <2>1. lengths \subseteq Nat /\ lengths' \subseteq Nat /\ samples \in lengths'
    BY <1>1, <1>5 DEF Types
  <2>2. at' # "end" /\ total' \in Nat
    BY <1>1, <1>4, <1>5, PlaceFacts
  <2> QED BY <1>1, <1>2, <1>3, <1>4, <1>5, <1>6, <1>7, <2>1, <2>2 DEF Types
<1>10. RendererInv'
  <2>1. Renders => rendered + Emitting' + pending' = total'
    <3>1. Renders => rendered + pending = total /\ rendered \in Nat
      BY <1>2, <1>4 DEF Complete, RendererInv, Emitting, Types
    <3> QED BY <1>1, <1>4, <1>5, <1>6, <1>7, <3>1 DEF Emitting
  <2>2. at' \notin {"finalize", "end"}
    BY <1>4, PlaceFacts
  <2>3. rendered % Block = 0
    BY <1>1, <1>2 DEF Complete, RendererInv
  <2> QED BY <1>1, <1>2, <1>3, <1>6, <1>7, <1>8, <2>1, <2>2, <2>3 DEF RendererInv
<1>11. SinksInv'
  <2> SUFFICES ASSUME NEW sink \in Active
               PROVE  written[sink] + Lacking(sink)' + HeldBack(sink)' = total'
    BY <1>2, <1>3 DEF SinksInv
  <2>1. written[sink] + HeldBack(sink) = total /\ written[sink] \in Nat
    BY <1>2, <1>4 DEF Complete, SinksInv, Lacking, Types, HeldBack
  <2>2. Place[sink] > 0
    BY <1>4, PlaceFacts
  <2>3. Lacking(sink)' = Amount(sink)'
    BY <1>2, <1>3, <2>2, FollowingFacts DEF Lacking
  <2>4. CASE sink \in {"wav", "csv"}
    <3>1. Renders
      BY <1>2, <2>4, ActiveFacts
    <3> QED BY <1>1, <1>5, <1>6, <1>7, <2>1, <2>3, <2>4, <3>1 DEF HeldBack, Amount
  <2>5. CASE sink \notin {"wav", "csv"}
    BY <1>1, <1>5, <1>7, <2>1, <2>3, <2>5 DEF HeldBack, Amount
  <2> QED BY <2>4, <2>5
<1>12. CountInv'
  <2>1. lengths' # {} /\ Decoded' = frames + 1 /\ Decoded = frames
    BY <1>1, <1>2, <1>4, <1>5 DEF Decoded
  <2>2. ASSUME Alike' PROVE \A length \in lengths' : total' = Decoded' * length
    <3>1. \A length \in lengths' : length = samples
      BY <1>1, <2>2 DEF Alike
    <3>2. total = frames * samples
      <4>1. CASE lengths = {}
        BY <1>2, <1>5, <2>1, <4>1 DEF Complete, CountInv
      <4>2. CASE lengths # {}
        <5>1. samples \in lengths /\ Alike
          BY <1>1, <3>1, <4>2 DEF Alike
        <5> QED BY <1>2, <2>1, <5>1 DEF Complete, CountInv
      <4> QED BY <4>1, <4>2
    <3>3. (frames + 1) * samples = frames * samples + samples
      BY <1>5
    <3> QED BY <1>1, <2>1, <3>1, <3>2, <3>3
  <2>3. "wav" \in Active => ThroughWav' = frames /\ ThroughWav = frames
    <3>1. "wav" \in Active => at' \in Sinks /\ Place[at'] <= Place["wav"]
      BY <1>2, <1>3, FollowingFacts, PlaceFacts
    <3>2. "wav" \in Active => Place[at'] \in Nat /\ Place["wav"] \in Nat
      BY <1>4, <3>1, PlaceFacts
    <3> QED BY <1>2, <1>4, <1>5, <3>1, <3>2 DEF ThroughWav
  <2> QED BY <1>2, <1>3, <1>5, <2>1, <2>2, <2>3 DEF Complete, CountInv
<1>13. RowsInv'
  <2>1. Alike' => Alike
    BY <1>1 DEF Alike
  <2>2. RowsOf(0, written["csv"])' = RowsOf(0, written["csv"])
    BY <1>2 DEF RowsOf
  <2> QED BY <1>2, <1>3, <2>1, <2>2 DEF Complete, RowsInv
<1> QED BY <1>2, <1>9, <1>10, <1>11, <1>12, <1>13 DEF Complete, HeaderInv

\* The frame in hand reaches one more sink, and goes on to the next.
LEMMA Writing ==
  ASSUME Types, Complete, Write
  PROVE  Types' /\ Complete'
<1>1. /\ at \in Active /\ run' = run /\ run \in Runs /\ exit' = exit /\ frames' = frames /\ pending' = pending
      /\ rendered' = rendered /\ unit' = unit /\ header' = header /\ total' = total /\ lengths' = lengths
      /\ format' = [format EXCEPT ![at] = Latch(at)]
      /\ written' = [written EXCEPT ![at] = @ + Amount(at)]
      /\ rows' = IF at = "csv" THEN rows \o RowsOf(RowsFrom, unit.emitted) ELSE rows
      /\ at' = Following(Place[at])
  BY DEF Write, input, history, Types
<1>2. Active' = Active /\ Renders' = Renders /\ Active \subseteq Sinks
  BY <1>1, SameCommand, ActiveFacts
<1>3. at \in Sinks /\ InHand /\ exit = "running" /\ "end" \notin Sinks
  BY <1>1, <1>2, PlaceFacts DEF InHand, Types
<1>4. Place[at] \in 1 .. 7 /\ \A sink \in Active : Place[sink] \in 1 .. 7
  BY <1>2, <1>3, PlaceFacts
<1>5. /\ at' \in Active \cup {"count"} /\ InHand'
      /\ at' \in Sinks => at' \in Active /\ Place[at'] > Place[at]
      /\ \A sink \in Active : Place[sink] > Place[at] => at' \in Sinks /\ Place[at'] <= Place[sink]
  BY <1>1, <1>2, <1>4, FollowingFacts DEF InHand
<1>6. /\ unit.samples \in Nat /\ unit.emitted \in Nat /\ unit.samples \in lengths /\ unit.format \in Formats
      /\ frames \in Nat /\ total \in Nat /\ pending \in Nat /\ rendered \in Nat
      /\ \A sink \in Sinks : Amount(sink) \in Nat /\ written[sink] \in Nat
  BY <1>1, <1>3, ActiveFacts DEF Types, Amount
<1>7. written \in [Sinks -> Nat] /\ format = [sink \in Sinks |-> format[sink]]
  BY DEF Types
<1>8. Types'
  <2>1. written' \in [Sinks -> Nat]
    BY <1>1, <1>3, <1>6, <1>7
  <2>2. format' = [sink \in Sinks |-> format'[sink]]
    BY <1>1, <1>7
  <2> QED BY <1>1, <1>2, <1>3, <1>5, <1>6, <2>1, <2>2, PlaceFacts DEF Types
<1>9. RendererInv'
  BY <1>1, <1>2, <1>3, <1>5, PlaceFacts DEF Complete, RendererInv, Emitting
<1>10. \A sink \in Active : Amount(sink)' = Amount(sink)
  BY <1>1 DEF Amount
<1>11. SinksInv'
  <2> SUFFICES ASSUME NEW sink \in Active
               PROVE  written'[sink] + Lacking(sink)' + HeldBack(sink)' = total'
    BY <1>2 DEF SinksInv
  <2>1. written[sink] + Lacking(sink) + HeldBack(sink) = total /\ HeldBack(sink)' = HeldBack(sink)
    BY <1>1, <1>3 DEF Complete, SinksInv, HeldBack
  <2>2. CASE sink = at
    <3>1. Lacking(sink) = Amount(sink) /\ Lacking(sink)' = 0
      BY <1>2, <1>3, <1>4, <1>5, <2>2, PlaceFacts DEF Lacking
    <3>2. written'[sink] = written[sink] + Amount(sink)
      BY <1>1, <1>3, <1>7, <2>2
    <3>3. HeldBack(sink) \in Nat
      BY <1>6 DEF HeldBack
    <3> QED BY <1>1, <1>3, <1>6, <2>1, <2>2, <3>1, <3>2, <3>3
  <2>3. CASE sink # at
    <3>1. written'[sink] = written[sink]
      BY <1>1, <1>2, <1>7, <2>3
    <3>2. Place[sink] # Place[at]
      BY <1>2, <1>3, <2>3, PlaceFacts
    <3>3. Lacking(sink)' = Lacking(sink)
      <4>1. CASE Place[sink] < Place[at]
        <5>1. Lacking(sink) = 0
          BY <1>4, <4>1 DEF Lacking
        <5>2. at' \in Sinks => Place[at'] \in 1 .. 7 /\ Place[at'] > Place[at]
          BY <1>5, PlaceFacts
        <5> QED BY <1>4, <4>1, <5>1, <5>2 DEF Lacking
      <4>2. CASE Place[sink] > Place[at]
        BY <1>3, <1>4, <1>5, <1>10, <4>2 DEF Lacking
      <4> QED BY <1>4, <3>2, <4>1, <4>2
    <3> QED BY <1>1, <2>1, <3>1, <3>3
  <2> QED BY <2>2, <2>3
<1>12. CountInv'
  <2>1. Decoded = frames + 1 /\ Decoded' = frames + 1
    BY <1>1, <1>3, <1>5 DEF Decoded
  <2>2. ASSUME "wav" \in Active PROVE (format'["wav"] = None) <=> ThroughWav' = 0
    <3>1. format["wav"] = None <=> ThroughWav = 0
      BY <1>3, <2>2 DEF Complete, CountInv
    <3>2. at' \in Sinks => Place[at'] \in 1 .. 7
      BY PlaceFacts
    <3>3. CASE at = "wav"
      <4>1. ThroughWav' = frames + 1
        BY <1>1, <1>5, <3>3 DEF ThroughWav
      <4>2. format'["wav"] = unit.format.rate
        BY <1>1, <1>3, <1>7, <3>3 DEF Latch
      <4>3. unit.format.rate # None
        BY <1>6, CommandLineAssumption
      <4> QED BY <1>6, <4>1, <4>2, <4>3
    <3>4. CASE at # "wav"
      <4>1. format'["wav"] = format["wav"]
        BY <1>1, <1>2, <1>7, <2>2, <3>4
      <4>2. Place[at] # Place["wav"]
        BY <1>2, <1>3, <2>2, <3>4, PlaceFacts
      <4>3. ThroughWav' = ThroughWav
        <5>1. CASE Place[at] < Place["wav"]
          <6>1. at' \in Sinks /\ Place[at'] <= Place["wav"] /\ Place[at'] \in 1 .. 7
            BY <1>4, <1>5, <2>2, <3>2, <5>1
          <6> QED BY <1>1, <1>3, <1>4, <2>2, <5>1, <6>1 DEF ThroughWav
        <5>2. CASE Place[at] > Place["wav"]
          <6>1. at' \in Sinks => Place[at'] > Place["wav"]
            BY <1>4, <1>5, <2>2, <3>2, <5>2
          <6> QED BY <1>1, <1>3, <1>5, <5>2, <6>1 DEF ThroughWav
        <5> QED BY <1>4, <2>2, <4>2, <5>1, <5>2
      <4> QED BY <3>1, <4>1, <4>3
    <3> QED BY <3>3, <3>4
  <2> QED BY <1>1, <1>2, <1>3, <2>1, <2>2 DEF Complete, CountInv, Alike
<1>13. RowsInv'
  <2> SUFFICES ASSUME "csv" \in Active, run.mode = "truehd" \/ Alike
               PROVE  rows' = RowsOf(0, written'["csv"])
    BY <1>1, <1>2 DEF RowsInv, Alike, RowsOf
  <2>1. rows = RowsOf(0, written["csv"])
    BY <1>3 DEF Complete, RowsInv
  <2>2. CASE at # "csv"
    <3>1. written'["csv"] = written["csv"] /\ rows' = rows
      BY <1>1, <1>2, <1>7, <2>2
    <3> QED BY <2>1, <3>1
  <2>3. CASE at = "csv"
    <3>1. written["csv"] + unit.emitted + pending = total
      <4>1. Lacking("csv") = unit.emitted /\ HeldBack("csv") = pending
        BY <1>3, <1>4, <2>3 DEF Lacking, HeldBack, Amount
      <4> QED BY <1>3, <4>1 DEF Complete, SinksInv
    <3>2. Renders /\ run.mode # "dir" /\ rendered + unit.emitted + pending = total /\ rendered % Block = 0
      BY <1>1, <1>3, ActiveFacts, PlaceFacts DEF Complete, RendererInv, Emitting
    <3>3. rendered = written["csv"] /\ written["csv"] \in Nat
      BY <1>2, <1>6, <3>1, <3>2
    <3>4. RowsFrom = written["csv"]
      <4>1. CASE run.mode = "truehd"
        BY <3>3, <4>1 DEF RowsFrom
      <4>2. CASE run.mode # "truehd"
        <5>1. pending = 0 /\ unit.emitted = unit.samples
          BY <1>3, <3>2, <4>2 DEF Complete, RendererInv
        <5>2. total = (frames + 1) * unit.samples
          BY <1>3, <1>6, <4>2 DEF Complete, CountInv, Decoded
        <5>3. (frames + 1) * unit.samples = frames * unit.samples + unit.samples /\ frames * unit.samples \in Nat
          BY <1>6
        <5>4. written["csv"] = frames * unit.samples
          BY <1>6, <3>1, <3>3, <5>1, <5>2, <5>3
        <5> QED BY <4>2, <5>4 DEF RowsFrom
      <4> QED BY <4>1, <4>2
    <3>5. written'["csv"] = written["csv"] + unit.emitted
      BY <1>1, <1>3, <1>7, <2>3 DEF Amount
    <3>6. rows' = RowsOf(0, written["csv"]) \o RowsOf(written["csv"], unit.emitted)
      BY <1>1, <2>1, <2>3, <3>4
    <3>7. unit.emitted \in Nat /\ written["csv"] % Block = 0
      BY <1>6, <3>2, <3>3
    <3>8. RowsOf(0, written["csv"]) \o RowsOf(written["csv"], unit.emitted) = RowsOf(0, written["csv"] + unit.emitted)
      BY <3>3, <3>7, RowsJoin
    <3> QED BY <3>5, <3>6, <3>8
  <2> QED BY <2>2, <2>3
<1> QED BY <1>1, <1>3, <1>8, <1>9, <1>11, <1>12, <1>13 DEF Complete, HeaderInv

\* The frame in hand is through.
LEMMA Counting ==
  ASSUME Types, Complete, Count
  PROVE  Types' /\ Complete'
<1>1. /\ at = "count" /\ frames' = frames + 1 /\ rendered' = rendered + unit.emitted
      /\ at' \in {"flush", "split"} /\ run' = run /\ exit' = exit /\ pending' = pending
      /\ format' = format /\ written' = written /\ rows' = rows /\ header' = header
      /\ total' = total /\ lengths' = lengths
  BY DEF Count, input, outputs, history
<1>2. Active' = Active /\ Renders' = Renders /\ run \in Runs
  BY <1>1, SameCommand DEF Types
<1>3. InHand /\ ~InHand' /\ at \notin Sinks /\ at' \notin Sinks /\ exit = "running"
  BY <1>1, PlaceFacts, ActiveFacts, <1>2 DEF InHand, Types
<1>4. frames \in Nat /\ rendered \in Nat /\ unit.emitted \in Nat /\ pending \in Nat
  BY <1>3 DEF Types
<1>5. Types'
  BY <1>1, <1>2, <1>3, <1>4 DEF Types
<1>6. RendererInv'
  <2>1. (rendered + unit.emitted) % Block = 0
    BY <1>1, <1>3, <1>4, WholeSum DEF Complete, RendererInv
  <2> QED BY <1>1, <1>2, <1>3, <1>4, <2>1 DEF Complete, RendererInv, Emitting
<1>7. SinksInv'
  BY <1>1, <1>2, <1>3 DEF Complete, SinksInv, Lacking, HeldBack
<1>8. CountInv'
  BY <1>1, <1>2, <1>3, <1>4 DEF Complete, CountInv, Decoded, ThroughWav, Alike
<1>9. RowsInv'
  BY <1>1, <1>2, <1>3 DEF Complete, RowsInv, RowsOf, Alike
<1> QED BY <1>1, <1>3, <1>5, <1>6, <1>7, <1>8, <1>9 DEF Complete, HeaderInv

\* What was held back comes last.
LEMMA Flushing ==
  ASSUME Types, Complete, Flush
  PROVE  Types' /\ Complete'
<1> DEFINE short == IF run.mode = "truehd" /\ Renders THEN pending ELSE 0
<1>1. /\ at = "flush" /\ at' = "finalize" /\ run' = run /\ exit' = exit /\ frames' = frames
      /\ pending' = pending - short /\ rendered' = rendered + short
      /\ written' = [sink \in Sinks |-> written[sink] + IF sink \in Active \cap {"wav", "csv"} THEN short ELSE 0]
      /\ rows' = IF "csv" \in Active THEN rows \o RowsOf(rendered, short) ELSE rows
      /\ format' = format /\ header' = header /\ total' = total /\ lengths' = lengths
  BY DEF Flush, input, history
<1>2. Active' = Active /\ Renders' = Renders /\ run \in Runs /\ Active \subseteq Sinks
  BY <1>1, SameCommand, ActiveFacts DEF Types
<1>3. ~InHand /\ ~InHand' /\ at \notin Sinks /\ at' \notin Sinks /\ exit = "running"
  BY <1>1, PlaceFacts DEF InHand, Types
<1>4. rendered \in Nat /\ pending \in Nat /\ total \in Nat /\ written \in [Sinks -> Nat]
  BY DEF Types
<1>5. short = pending
  BY <1>3 DEF Complete, RendererInv
<1> HIDE DEF short
<1>6. Types'
  <2>1. written' \in [Sinks -> Nat]
    BY <1>1, <1>4, <1>5
  <2>2. pending' \in Nat /\ rendered' \in Nat
    BY <1>1, <1>4, <1>5
  <2> QED BY <1>1, <1>2, <1>3, <2>1, <2>2 DEF Types
<1>7. RendererInv'
  BY <1>1, <1>2, <1>3, <1>4, <1>5 DEF Complete, RendererInv, Emitting
<1>8. SinksInv'
  <2> SUFFICES ASSUME NEW sink \in Active
               PROVE  written'[sink] + Lacking(sink)' + HeldBack(sink)' = total'
    BY <1>2 DEF SinksInv
  <2>1. written[sink] + HeldBack(sink) = total /\ Lacking(sink)' = 0
    BY <1>2, <1>3, <1>4 DEF Complete, SinksInv, Lacking, HeldBack
  <2>2. written'[sink] = written[sink] + IF sink \in {"wav", "csv"} THEN short ELSE 0
    BY <1>1, <1>2
  <2>3. written[sink] \in Nat
    BY <1>2, <1>4
  <2> QED BY <1>1, <1>4, <1>5, <2>1, <2>2, <2>3 DEF HeldBack
<1>9. CountInv'
  BY <1>1, <1>2, <1>3 DEF Complete, CountInv, Decoded, ThroughWav, Alike
<1>10. RowsInv'
  <2> SUFFICES ASSUME "csv" \in Active, run.mode = "truehd" \/ Alike
               PROVE  rows' = RowsOf(0, written'["csv"])
    BY <1>1, <1>2 DEF RowsInv, Alike, RowsOf
  <2>1. rows = RowsOf(0, written["csv"])
    BY <1>3 DEF Complete, RowsInv
  <2>2. written["csv"] + pending = total
    BY <1>2, <1>3, <1>4 DEF Complete, SinksInv, Lacking, HeldBack
  <2>3. rendered + pending = total /\ rendered % Block = 0
    BY <1>1, <1>2, <1>3, <1>4, ActiveFacts DEF Complete, RendererInv, Emitting
  <2>4. rendered = written["csv"] /\ written["csv"] \in Nat
    BY <1>2, <1>4, <2>2, <2>3
  <2>5. written'["csv"] = written["csv"] + pending
    BY <1>1, <1>2, <1>5
  <2>6. rows' = RowsOf(0, written["csv"]) \o RowsOf(written["csv"], pending)
    BY <1>1, <1>5, <2>1, <2>4
  <2> QED BY <1>4, <2>3, <2>4, <2>5, <2>6, RowsJoin
<1> QED BY <1>1, <1>3, <1>6, <1>7, <1>8, <1>9, <1>10 DEF Complete, HeaderInv

\* The header is written over what the file holds.
LEMMA Finalizing ==
  ASSUME Types, Complete, Finalize
  PROVE  Types' /\ Complete'
<1>1. /\ at = "finalize" /\ at' = "end" /\ exit' = "success"
      /\ header' = IF format["wav"] = None THEN None ELSE written["wav"]
      /\ UNCHANGED <<run, frames, pending, rendered, format, written, rows, total, lengths>>
  BY DEF Finalize, input, history
<1>2. Active' = Active /\ Renders' = Renders /\ run \in Runs
  BY <1>1, SameCommand DEF Types
<1>3. ~InHand /\ ~InHand' /\ at \notin Sinks /\ at' \notin Sinks /\ exit = "running" /\ frames \in Nat
  BY <1>1, PlaceFacts DEF InHand, Types
<1>4. Types'
  BY <1>1, <1>2, <1>3 DEF Types
<1>5. RendererInv'
  BY <1>1, <1>2, <1>3 DEF Complete, RendererInv, Emitting
<1>6. SinksInv'
  BY <1>1, <1>2, <1>3 DEF Complete, SinksInv, Lacking, HeldBack
<1>7. CountInv'
  BY <1>1, <1>2, <1>3 DEF Complete, CountInv, Decoded, ThroughWav, Alike
<1>8. RowsInv'
  BY <1>1, <1>2, <1>3 DEF Complete, RowsInv, RowsOf, Alike
<1>9. HeaderInv'
  <2>1. "wav" \in Active => (format["wav"] = None <=> lengths = {})
    BY <1>3 DEF Complete, CountInv, Decoded, ThroughWav
  <2> QED BY <1>1, <1>2, <2>1 DEF HeaderInv
<1> QED BY <1>4, <1>5, <1>6, <1>7, <1>8, <1>9 DEF Complete

-----------------------------------------------------------------------------

\* The invariant holds throughout, whatever the input and the command line.
THEOREM AlwaysComplete == Spec => [](Types /\ Complete)
<1>1. Init => Types /\ Complete
  BY Beginning
<1>2. Types /\ Complete /\ [Next]_vars => (Types /\ Complete)'
  <2> SUFFICES ASSUME Types, Complete, [Next]_vars PROVE (Types /\ Complete)'
    OBVIOUS
  <2>1. at \in {"start", "split", "decode"} => exit = "running"
    BY DEF Types
  <2>2. ASSUME Fail, UNCHANGED <<run, frames, pending, rendered, total, lengths, written, format>>
        PROVE  (Types /\ Complete)'
    BY <2>2, Failing
  <2>3. ASSUME at \in {"start", "split", "decode"}, at' \in {"split", "decode", "flush"}, exit' = exit,
               UNCHANGED <<run, frames, pending, rendered, outputs, history>>
        PROVE  (Types /\ Complete)'
    BY <2>1, <2>3, Quiet
  <2>4. CASE Start
    <3>1. UNCHANGED <<run, frames, pending, rendered, outputs, history>>
      BY <2>4 DEF Start, input
    <3> QED BY <2>2, <2>3, <2>4, <3>1 DEF Start, outputs, history
  <2>5. CASE Split
    <3>1. UNCHANGED <<run, frames, pending, rendered, outputs, history>>
      BY <2>5 DEF Split, input
    <3>2. at = "split" /\ (Fail \/ (at' = "decode" /\ exit' = exit))
      BY <2>5 DEF Split
    <3> QED BY <2>2, <2>3, <3>1, <3>2 DEF outputs, history
  <2>6. CASE Exhausted
    BY <2>3, <2>6 DEF Exhausted, input
  <2>7. CASE Decode
    BY <2>7, Decoding
  <2>8. CASE DecodeNothing
    BY <2>3, <2>8 DEF DecodeNothing, input
  <2>9. CASE DecodeFails
    BY <2>2, <2>9 DEF DecodeFails, input, outputs, history
  <2>10. CASE Write
    BY <2>10, Writing
  <2>11. CASE WriteFails
    BY <2>2, <2>11 DEF WriteFails, input, outputs, history
  <2>12. CASE Count
    BY <2>12, Counting
  <2>13. CASE Flush
    BY <2>13, Flushing
  <2>14. CASE Finalize
    BY <2>14, Finalizing
  <2>15. CASE EndFails
    BY <2>2, <2>15 DEF EndFails, input, outputs, history
  <2>16. CASE UNCHANGED vars
    <3>1. UNCHANGED <<run, at, exit, unit, frames, pending, rendered, format, written, rows, header, total, lengths>>
      BY <2>16 DEF vars, input, outputs, history
    <3>2. Active' = Active /\ Renders' = Renders
      BY <3>1, SameCommand
    <3>3. Types'
      BY <3>1, <3>2 DEF Types, InHand
    <3>4. Complete'
      BY <3>1, <3>2 DEF Complete, RendererInv, SinksInv, CountInv, RowsInv, HeaderInv, Emitting, InHand,
                         Lacking, HeldBack, Amount, Decoded, ThroughWav, Alike, RowsOf
    <3> QED BY <3>3, <3>4
  <2> QED BY <2>4, <2>5, <2>6, <2>7, <2>8, <2>9, <2>10, <2>11, <2>12, <2>13, <2>14, <2>15, <2>16 DEF Next
<1> QED BY <1>1, <1>2, PTL DEF Spec

\* On success every file holds every frame, its header and its rows are right.
THEOREM SuccessIsAlwaysComplete == Spec => []SuccessIsComplete
<1>1. Types /\ Complete => SuccessIsComplete
  <2> SUFFICES ASSUME Types, Complete, exit = "success" PROVE SuccessIsComplete
    BY DEF SuccessIsComplete
  <2>1. at = "end" /\ at \notin Sinks /\ run \in Runs /\ Active \subseteq Sinks
    BY PlaceFacts, ActiveFacts DEF Types
  <2>2. pending = 0 /\ written \in [Sinks -> Nat] /\ total \in Nat
    BY <2>1 DEF Complete, RendererInv, Types
  <2>3. \A sink \in Active : written[sink] = total
    <3> SUFFICES ASSUME NEW sink \in Active PROVE written[sink] = total
      OBVIOUS
    <3>1. written[sink] + Lacking(sink) + HeldBack(sink) = total
      BY DEF Complete, SinksInv
    <3>2. Lacking(sink) = 0 /\ HeldBack(sink) = 0 /\ written[sink] \in Nat
      BY <2>1, <2>2 DEF Lacking, HeldBack
    <3> QED BY <3>1, <3>2
  <2>4. "wav" \in Active => header = (IF lengths = {} THEN None ELSE total)
    BY <2>3 DEF Complete, HeaderInv
  <2>5. "csv" \in Active /\ (run.mode = "truehd" \/ Alike) => rows = RowsOf(0, total)
    BY <2>3 DEF Complete, RowsInv
  <2> QED BY <2>3, <2>4, <2>5 DEF SuccessIsComplete, Alike
<1> QED BY <1>1, AlwaysComplete, PTL

=============================================================================
