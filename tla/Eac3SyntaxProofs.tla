-------------------------- MODULE Eac3SyntaxProofs --------------------------
(***************************************************************************)
(* What the readers of E-AC-3 blocks keep, for every set of frames and     *)
(* contents and however many frames follow each other; and the ranges of   *)
(* mantissas their codes lead to, for every code.  Both walkers come to    *)
(* the same bit, though one counts mantissas and the other reads them.     *)
(***************************************************************************)
EXTENDS Eac3Syntax, Eac3Bands, TLAPS, WellFoundedInduction, FiniteSetTheorems, SequenceTheorems

----------------------------------------------------------------------------
(***************************************************************************)
(* Ranges of mantissas.                                                    *)
(***************************************************************************)

\* Coupling stays inside the mantissas and the band flags.
THEOREM CouplingStaysInside == CouplingFits
  BY DEF CouplingFits, CouplingCode, CouplingStart, CouplingEnd, LastCoupled, LastBandFlag, Subbands, Mantissas, CouplingBands

\* Every mantissa of a channel gets an exponent, and none beyond the last.
THEOREM ChannelExponents == ChannelExponentsCover
<1>1. ASSUME NEW end \in ChannelEnds PROVE end \in 37 .. 253
  BY <1>1 DEF ChannelEnds, ChannelEnd, SpxChannelEnd, CouplingStart, Bandwidth, SpxCode, CouplingCode, SpxBegin
<1>2. ASSUME NEW end \in ChannelEnds PROVE end % 3 = 1
  BY <1>2 DEF ChannelEnds, ChannelEnd, SpxChannelEnd, CouplingStart, Bandwidth, SpxCode, CouplingCode, SpxBegin
<1>3. ASSUME NEW end \in ChannelEnds PROVE ChannelDecodedTo(end, "D15") \in end .. Mantissas
  BY <1>1, <1>2, <1>3 DEF ChannelDecodedTo, DecodedTo, GroupedExponentCount, GroupSize, GroupAdd, GroupDiv, Mantissas
<1>4. ASSUME NEW end \in ChannelEnds PROVE ChannelDecodedTo(end, "D25") \in end .. Mantissas
  BY <1>1, <1>2, <1>4 DEF ChannelDecodedTo, DecodedTo, GroupedExponentCount, GroupSize, GroupAdd, GroupDiv, Mantissas
<1>5. ASSUME NEW end \in ChannelEnds PROVE ChannelDecodedTo(end, "D45") \in end .. Mantissas
  BY <1>1, <1>2, <1>5 DEF ChannelDecodedTo, DecodedTo, GroupedExponentCount, GroupSize, GroupAdd, GroupDiv, Mantissas
<1> QED BY <1>3, <1>4, <1>5 DEF ChannelExponentsCover, Strategy

----------------------------------------------------------------------------
(***************************************************************************)
(* The mantissas of a block, counted and read.                             *)
(***************************************************************************)

\* A set that holds 0 and, up to a bound, with a number the next one, holds all of them.
LEMMA Stepwise ==
  ASSUME NEW k \in Nat, NEW S, 0 \in S, \A n \in 1 .. k : n - 1 \in S => n \in S
  PROVE  \A n \in 0 .. k : n \in S
<1> DEFINE Missing == {n \in 0 .. k : n \notin S}
<1> SUFFICES ASSUME Missing # {} PROVE FALSE
  OBVIOUS
<1>1. Missing \subseteq Nat
  OBVIOUS
<1> HIDE DEF Missing
<1>2. PICK x \in Missing : \A y \in Missing : ~(<<y, x>> \in OpToRel(<, Nat))
  BY <1>1, NatLessThanWellFounded, WFMin
<1>3. x \in 1 .. k /\ x \notin S
  BY DEF Missing
<1>4. x - 1 \in Missing
  BY <1>3 DEF Missing
<1> DEFINE pair == <<x - 1, x>>
<1>5. pair \in Nat \X Nat /\ pair[1] = x - 1 /\ pair[2] = x
  BY <1>3
<1> HIDE DEF pair
<1>6. pair \in OpToRel(<, Nat)
  BY <1>3, <1>5 DEF OpToRel
<1> QED BY <1>2, <1>4, <1>6 DEF pair

\* Functions given by their first value and how each value follows from the one before it.
Iterations(V, base, k, step) ==
  {f \in [0 .. k -> V] : f[0] = base /\ \A n \in 1 .. k : f[n] = step[n][f[n - 1]]}

LEMMA Iterated ==
  ASSUME NEW V, NEW base \in V, NEW k \in Nat, NEW step \in [1 .. k -> [V -> V]]
  PROVE  Iterations(V, base, k, step) # {}
<1> DEFINE Upto(n) == {f \in [0 .. n -> V] : f[0] = base /\ \A i \in 1 .. n : f[i] = step[i][f[i - 1]]}
           S == {n \in 0 .. k : Upto(n) # {}}
<1>1. 0 \in S
  <2>1. [n \in 0 .. 0 |-> base] \in Upto(0)
    OBVIOUS
  <2> QED BY <2>1
<1>2. ASSUME NEW n \in 1 .. k, n - 1 \in S PROVE n \in S
  <2>1. PICK f \in [0 .. n - 1 -> V] : f[0] = base /\ \A i \in 1 .. n - 1 : f[i] = step[i][f[i - 1]]
    BY <1>2
  <2> DEFINE g == [i \in 0 .. n |-> IF i = n THEN step[n][f[n - 1]] ELSE f[i]]
  <2>2. f[n - 1] \in V /\ step[n] \in [V -> V]
    BY <2>1
  <2>3. g \in [0 .. n -> V]
    BY <2>1, <2>2
  <2>4. g[0] = base /\ \A i \in 1 .. n : g[i] = step[i][g[i - 1]]
    BY <2>1
  <2> HIDE DEF g
  <2>5. g \in Upto(n)
    BY <2>3, <2>4
  <2> QED BY <2>5
<1>3. k \in S
  <2> HIDE DEF S
  <2>1. \A n \in 1 .. k : n - 1 \in S => n \in S
    BY <1>2
  <2>2. \A n \in 0 .. k : n \in S
    BY <1>1, <2>1, Stepwise
  <2> QED BY <2>2
<1> QED BY <1>3 DEF Iterations

\* Two functions that start alike and go on alike are the same.
LEMMA GoAlike ==
  ASSUME NEW k \in Nat, NEW f, NEW g, DOMAIN f = 0 .. k, DOMAIN g = 0 .. k, f = [n \in DOMAIN f |-> f[n]], g = [n \in DOMAIN g |-> g[n]],
         f[0] = g[0], \A n \in 1 .. k : f[n - 1] = g[n - 1] => f[n] = g[n]
  PROVE  f = g
<1> DEFINE S == {n \in 0 .. k : f[n] = g[n]}
<1>1. 0 \in S /\ \A n \in 1 .. k : n - 1 \in S => n \in S
  OBVIOUS
<1> HIDE DEF S
<1>2. \A n \in 0 .. k : n \in S
  BY <1>1, Stepwise
<1> QED BY <1>2 DEF S

\* The sizes and groups of mantissas are numbers.
LEMMA BitsOfBap ==
  ASSUME NEW bap \in Bap
  PROVE  BitsOf(bap) \in Nat /\ PerGroup(bap) \in Nat \ {0}
  BY DEF Bap, BitsOf, BAP_BITS, PerGroup

\* What a mantissa takes that is not packed.
More(bap) == IF bap \in Grouped THEN 0 ELSE BitsOf(bap)

\* The bits of those that are not packed add up one by one.
LEMMA PlainBits ==
  ASSUME NEW baps \in Seq(Bap)
  PROVE  \E bits \in [0 .. Len(baps) -> Nat] :
           /\ bits[0] = 0 /\ \A n \in 1 .. Len(baps) : bits[n] = bits[n - 1] + More(baps[n])
           /\ Plain(baps) = bits[Len(baps)]
<1> DEFINE Numbers == Nat
           step == [n \in 1 .. Len(baps) |-> [m \in Numbers |-> m + More(baps[n])]]
           Solves(bits) == bits = [n \in 0 .. Len(baps) |-> IF n = 0 THEN 0 ELSE bits[n - 1] + (IF baps[n] \in Grouped THEN 0 ELSE BitsOf(baps[n]))]
           all == CHOOSE bits : Solves(bits)
<1>1. Plain(baps) = all[Len(baps)]
  BY DEF Plain
<1>2. step \in [1 .. Len(baps) -> [Numbers -> Numbers]] /\ 0 \in Numbers
  BY BitsOfBap DEF More
<1>3. PICK f \in [0 .. Len(baps) -> Numbers] : f[0] = 0 /\ \A n \in 1 .. Len(baps) : f[n] = step[n][f[n - 1]]
  <2>1. Len(baps) \in Nat
    OBVIOUS
  <2> DEFINE k == Len(baps)
  <2>2. k \in Nat /\ step \in [1 .. k -> [Numbers -> Numbers]] /\ 0 \in Numbers
    BY <1>2, <2>1
  <2> HIDE DEF step, Numbers, k
  <2>3. Iterations(Numbers, 0, k, step) # {}
    BY <2>2, Iterated
  <2> QED BY <2>3 DEF k, Iterations
<1>4. f = [n \in 0 .. Len(baps) |-> IF n = 0 THEN 0 ELSE f[n - 1] + (IF baps[n] \in Grouped THEN 0 ELSE BitsOf(baps[n]))]
  <2>1. \A n \in 1 .. Len(baps) : step[n][f[n - 1]] = f[n - 1] + (IF baps[n] \in Grouped THEN 0 ELSE BitsOf(baps[n]))
    BY DEF More
  <2>2. \A n \in 0 .. Len(baps) : n = 0 \/ n \in 1 .. Len(baps)
    OBVIOUS
  <2> HIDE DEF step
  <2> QED BY <1>3, <2>1, <2>2
<1>5. Solves(all)
  BY <1>4
<1>6. DOMAIN all = 0 .. Len(baps) /\ all = [n \in DOMAIN all |-> all[n]]
  <2> HIDE DEF all
  <2> QED BY <1>5
<1>7. all[0] = 0 /\ \A n \in 1 .. Len(baps) : all[n] = all[n - 1] + More(baps[n])
  <2> HIDE DEF all
  <2> QED BY <1>5 DEF More
<1> HIDE DEF all, step, Solves
<1>8. \A n \in 1 .. Len(baps) : f[n - 1] = all[n - 1] => f[n] = all[n]
  BY <1>4, <1>7 DEF More
<1>9. f = all
  <2>1. Len(baps) \in Nat /\ DOMAIN f = 0 .. Len(baps) /\ f = [n \in DOMAIN f |-> f[n]] /\ f[0] = all[0]
    BY <1>4, <1>7
  <2> QED BY <1>6, <1>8, <2>1, GoAlike
<1> QED BY <1>1, <1>7, <1>9

\* How often a bap occurs among the first n mantissas.
OccurredTo(bap, baps, n) == Cardinality({i \in 1 .. n : baps[i] = bap})

LEMMA OccurredOnce ==
  ASSUME NEW bap, NEW baps
  PROVE  /\ OccurredTo(bap, baps, 0) = 0
         /\ \A n \in Nat : OccurredTo(bap, baps, n) \in Nat
         /\ \A n \in Nat \ {0} : OccurredTo(bap, baps, n) = OccurredTo(bap, baps, n - 1) + IF baps[n] = bap THEN 1 ELSE 0
<1> DEFINE at(n) == {i \in 1 .. n : baps[i] = bap}
<1>1. at(0) = {}
  OBVIOUS
<1>2. ASSUME NEW n \in Nat PROVE IsFiniteSet(at(n))
  <2>1. IsFiniteSet(1 .. n)
    BY FS_Interval
  <2> QED BY <2>1, FS_Subset
<1>3. ASSUME NEW n \in Nat \ {0} PROVE at(n) = IF baps[n] = bap THEN at(n - 1) \cup {n} ELSE at(n - 1)
  OBVIOUS
<1>4. ASSUME NEW n \in Nat \ {0} PROVE n \notin at(n - 1) /\ n - 1 \in Nat
  OBVIOUS
<1>5. \A n \in Nat : OccurredTo(bap, baps, n) = Cardinality(at(n))
  BY DEF OccurredTo
<1> HIDE DEF at
<1>6. ASSUME NEW n \in Nat \ {0} PROVE Cardinality(at(n)) = Cardinality(at(n - 1)) + IF baps[n] = bap THEN 1 ELSE 0
  <2>1. IsFiniteSet(at(n - 1)) /\ n \notin at(n - 1)
    BY <1>2, <1>4
  <2>2. Cardinality(at(n - 1)) \in Nat
    BY <2>1, FS_CardinalityType
  <2>3. Cardinality(at(n - 1) \cup {n}) = Cardinality(at(n - 1)) + 1
    BY <2>1, FS_AddElement
  <2> QED BY <1>3, <2>2, <2>3
<1>7. \A n \in Nat : Cardinality(at(n)) \in Nat
  BY <1>2, FS_CardinalityType
<1>8. OccurredTo(bap, baps, 0) = 0
  BY <1>1, <1>5, FS_EmptySet
<1>9. ASSUME NEW n \in Nat \ {0} PROVE OccurredTo(bap, baps, n) = OccurredTo(bap, baps, n - 1) + IF baps[n] = bap THEN 1 ELSE 0
  BY <1>4, <1>5, <1>6
<1> QED BY <1>5, <1>7, <1>8, <1>9

\* One more mantissa in a group.
LEMMA OneMore ==
  ASSUME NEW bap \in Grouped, NEW position \in Nat, position < PerGroup(bap), NEW n \in Nat
  PROVE  LET p == Left(bap, position, n) IN
         /\ p \in 0 .. PerGroup(bap) - 1 /\ Opened(bap, position, n) \in Nat
         /\ p + 1 = PerGroup(bap) =>
              Left(bap, position, n + 1) = 0 /\ Opened(bap, position, n + 1) = Opened(bap, position, n) + 1
         /\ p + 1 # PerGroup(bap) =>
              Left(bap, position, n + 1) = p + 1 /\ Opened(bap, position, n + 1) = Opened(bap, position, n)
<1>1. CASE bap = 4
  BY <1>1 DEF Left, Opened, PerGroup
<1>2. CASE bap # 4
  BY <1>2 DEF Left, Opened, PerGroup
<1> QED BY <1>1, <1>2

\* What count_mantissa_bits would find of the first n mantissas.
CountTo(group, baps, bits, n) ==
  LET occurred(bap) == OccurredTo(bap, baps, n)
      opened(bap) == Opened(bap, group.positions[bap], occurred(bap)) * BitsOf(bap)
  IN  [positions |-> [bap \in Grouped |-> Left(bap, group.positions[bap], occurred(bap))],
       bits |-> group.bits + bits[n] + opened(1) + opened(2) + opened(4)]

\* What a block has taken so far.
Taken == [positions : Positions, bits : Nat]

\* A mantissa read leaves no group overfull.
LEMMA ReadTyped ==
  ASSUME NEW group \in Taken, NEW bap \in Bap
  PROVE  ReadMantissa(group, bap) \in Taken
<1>1. BitsOf(bap) \in Nat /\ group.bits \in Nat /\ group.positions \in Positions
  BY BitsOfBap DEF Taken
<1>2. CASE bap \notin Grouped
  BY <1>1, <1>2 DEF ReadMantissa, Taken
<1>3. CASE bap \in Grouped
  <2>1. group.positions[bap] + 1 \in 0 .. PerGroup(bap) /\ PerGroup(bap) \in {2, 3}
    BY <1>3 DEF Taken, Positions, PerGroup
  <2>2. ASSUME NEW p \in 0 .. 2, p < PerGroup(bap) PROVE [group.positions EXCEPT ![bap] = p] \in Positions
    BY <1>1, <1>3, <2>2 DEF Positions
  <2>3. CASE group.positions[bap] + 1 = PerGroup(bap)
    <3>1. [group.positions EXCEPT ![bap] = 0] \in Positions
      BY <2>1, <2>2
    <3> QED BY <1>1, <1>3, <2>3, <3>1 DEF ReadMantissa, Taken
  <2>4. CASE group.positions[bap] + 1 # PerGroup(bap)
    <3>1. [group.positions EXCEPT ![bap] = group.positions[bap] + 1] \in Positions
      BY <2>1, <2>2, <2>4
    <3>2. ReadMantissa(group, bap) = [group EXCEPT !.positions = [group.positions EXCEPT ![bap] = group.positions[bap] + 1]]
      BY <1>3, <2>4 DEF ReadMantissa, Taken
    <3> QED BY <3>1, <3>2 DEF Taken
  <2> QED BY <2>3, <2>4
<1> QED BY <1>2, <1>3

\* One mantissa read is one more counted.
LEMMA CountStep ==
  ASSUME NEW group \in Taken, NEW baps \in Seq(Bap), NEW bits \in [0 .. Len(baps) -> Nat],
         NEW n \in 1 .. Len(baps), bits[n] = bits[n - 1] + More(baps[n])
  PROVE  /\ CountTo(group, baps, bits, n - 1) \in Taken
         /\ CountTo(group, baps, bits, n) = ReadMantissa(CountTo(group, baps, bits, n - 1), baps[n])
<1> DEFINE bap == baps[n]
           p(b) == group.positions[b]
           o(b) == OccurredTo(b, baps, n - 1)
           was == CountTo(group, baps, bits, n - 1)
           is == CountTo(group, baps, bits, n)
<1>1. bap \in Bap /\ n \in Nat \ {0} /\ n - 1 \in Nat /\ group.bits \in Nat /\ bits[n - 1] \in Nat /\ bits[n] \in Nat
  BY DEF Taken
<1>2. \A b \in Grouped : p(b) \in Nat /\ p(b) < PerGroup(b) /\ o(b) \in Nat /\ BitsOf(b) \in Nat /\ PerGroup(b) \in {2, 3}
  <2>1. \A b \in Grouped : o(b) \in Nat
    BY <1>1, OccurredOnce
  <2>2. \A b \in Grouped : BitsOf(b) \in Nat /\ PerGroup(b) \in {2, 3}
    <3>1. Grouped \subseteq Bap /\ \A b \in Grouped : PerGroup(b) \in {2, 3}
      BY DEF Grouped, Bap, PerGroup
    <3> QED BY <3>1, BitsOfBap
  <2>3. \A b \in Grouped : p(b) \in Nat /\ p(b) < PerGroup(b)
    BY DEF Taken, Positions
  <2> QED BY <2>1, <2>2, <2>3
<1>3. \A b \in Grouped : OccurredTo(b, baps, n) = o(b) + IF bap = b THEN 1 ELSE 0
  BY <1>1, OccurredOnce
<1>4. /\ was.bits = group.bits + bits[n - 1] + Opened(1, p(1), o(1)) * BitsOf(1) + Opened(2, p(2), o(2)) * BitsOf(2) + Opened(4, p(4), o(4)) * BitsOf(4)
      /\ \A b \in Grouped : was.positions[b] = Left(b, p(b), o(b))
      /\ was.positions = [b \in Grouped |-> was.positions[b]]
      /\ was = [positions |-> was.positions, bits |-> was.bits]
  BY DEF CountTo, Grouped
<1>5. /\ is.bits = group.bits + bits[n] + Opened(1, p(1), OccurredTo(1, baps, n)) * BitsOf(1) + Opened(2, p(2), OccurredTo(2, baps, n)) * BitsOf(2) + Opened(4, p(4), OccurredTo(4, baps, n)) * BitsOf(4)
      /\ \A b \in Grouped : is.positions[b] = Left(b, p(b), OccurredTo(b, baps, n))
      /\ is.positions = [b \in Grouped |-> is.positions[b]]
      /\ is = [positions |-> is.positions, bits |-> is.bits]
  BY DEF CountTo, Grouped
<1> HIDE DEF was, is
<1>6. \A b \in Grouped : /\ Left(b, p(b), o(b)) \in 0 .. PerGroup(b) - 1 /\ Opened(b, p(b), o(b)) \in Nat
  BY <1>2, OneMore
<1> DEFINE e(b) == Opened(b, p(b), o(b)) * BitsOf(b)
           d(b) == Opened(b, p(b), OccurredTo(b, baps, n)) * BitsOf(b)
<1>7. was.bits = group.bits + bits[n - 1] + e(1) + e(2) + e(4) /\ is.bits = group.bits + bits[n] + d(1) + d(2) + d(4)
  BY <1>4, <1>5
<1>8. e(1) \in Nat /\ e(2) \in Nat /\ e(4) \in Nat /\ was.bits = group.bits + bits[n - 1] + e(1) + e(2) + e(4)
  <2>1. \A b \in Grouped : e(b) \in Nat
    BY <1>2, <1>6
  <2> HIDE DEF e, d
  <2> QED BY <1>7, <2>1 DEF Grouped
<1>9. ASSUME NEW b \in Grouped
       PROVE  /\ OccurredTo(b, baps, n) = o(b) => d(b) = e(b)
              /\ Opened(b, p(b), OccurredTo(b, baps, n)) = Opened(b, p(b), o(b)) => d(b) = e(b)
              /\ Opened(b, p(b), OccurredTo(b, baps, n)) = Opened(b, p(b), o(b)) + 1 => d(b) = e(b) + BitsOf(b)
  <2>1. Opened(b, p(b), o(b)) \in Nat /\ BitsOf(b) \in Nat
    BY <1>2, <1>6
  <2> QED BY <2>1
<1>10. was \in Taken
  <2>1. was.positions \in Positions
    <3>1. ASSUME NEW b \in Grouped PROVE was.positions[b] \in 0 .. 2 /\ was.positions[b] < PerGroup(b)
      <4>1. was.positions[b] \in 0 .. PerGroup(b) - 1 /\ PerGroup(b) \in {2, 3}
        BY <1>2, <1>4, <1>6
      <4> QED BY <4>1
    <3> QED BY <1>4, <3>1 DEF Positions
  <2>2. was.bits \in Nat
    BY <1>1, <1>4, <1>8
  <2> QED BY <1>4, <2>1, <2>2 DEF Taken
<1>11. CASE bap \notin Grouped
  <2>1. \A b \in Grouped : OccurredTo(b, baps, n) = o(b)
    BY <1>2, <1>3, <1>11
  <2>2. is.positions = was.positions
    BY <1>4, <1>5, <2>1
  <2>3. bits[n] = bits[n - 1] + BitsOf(bap) /\ BitsOf(bap) \in Nat
    BY <1>1, <1>11, BitsOfBap DEF More
  <2>4. is.bits = was.bits + BitsOf(bap)
    <3>1. d(1) = e(1) /\ d(2) = e(2) /\ d(4) = e(4)
      BY <2>1, <1>9 DEF Grouped
    <3>2. is.bits = group.bits + bits[n] + e(1) + e(2) + e(4)
      BY <1>7, <3>1
    <3> HIDE DEF d, e, bap
    <3>3. is.bits = group.bits + (bits[n - 1] + BitsOf(bap)) + e(1) + e(2) + e(4)
      BY <2>3, <3>2
    <3>4. group.bits \in Nat /\ bits[n - 1] \in Nat /\ BitsOf(bap) \in Nat
      BY <1>1, <2>3
    <3> QED BY <1>8, <3>3, <3>4
  <2>5. ReadMantissa(was, bap) = [was EXCEPT !.bits = @ + BitsOf(bap)]
    BY <1>11 DEF ReadMantissa
  <2>6. is = ReadMantissa(was, bap)
    BY <1>4, <1>5, <2>2, <2>4, <2>5
  <2> QED BY <1>10, <2>6 DEF is, was
<1>12. CASE bap \in Grouped
  <2>1. \A b \in Grouped \ {bap} : OccurredTo(b, baps, n) = o(b)
    BY <1>2, <1>3
  <2>2. OccurredTo(bap, baps, n) = o(bap) + 1
    BY <1>3, <1>12
  <2>3. \A b \in Grouped \ {bap} : is.positions[b] = was.positions[b]
    BY <1>4, <1>5, <2>1
  <2>4. bits[n] = bits[n - 1]
    BY <1>1, <1>12 DEF More
  <2> DEFINE left == Left(bap, p(bap), o(bap))
  <2>5. CASE left + 1 = PerGroup(bap)
    <3>1. Left(bap, p(bap), o(bap) + 1) = 0 /\ Opened(bap, p(bap), o(bap) + 1) = Opened(bap, p(bap), o(bap)) + 1
      BY <1>2, <1>12, <2>5, OneMore
    <3>2. is.positions = [was.positions EXCEPT ![bap] = 0]
      BY <1>4, <1>5, <2>2, <2>3, <3>1
    <3>3. is.bits = was.bits + BitsOf(bap)
      <4>1. \A b \in Grouped \ {bap} : d(b) = e(b)
        BY <2>1, <1>9
      <4>2. d(bap) = e(bap) + BitsOf(bap)
        BY <1>12, <1>9, <2>2, <3>1
      <4>3. bap \in {1, 2, 4} /\ BitsOf(bap) \in Nat
        BY <1>2, <1>12 DEF Grouped
      <4>4. is.bits = group.bits + bits[n - 1] + d(1) + d(2) + d(4)
        BY <1>7, <2>4
      <4> HIDE DEF d, e
      <4>5. CASE bap = 1
        <5>1. d(1) = e(1) + BitsOf(bap) /\ d(2) = e(2) /\ d(4) = e(4)
          BY <4>1, <4>2, <4>5 DEF Grouped
        <5> HIDE DEF bap
        <5> QED BY <1>1, <1>8, <4>3, <4>4, <5>1
      <4>6. CASE bap = 2
        <5>1. d(1) = e(1) /\ d(2) = e(2) + BitsOf(bap) /\ d(4) = e(4)
          BY <4>1, <4>2, <4>6 DEF Grouped
        <5> HIDE DEF bap
        <5> QED BY <1>1, <1>8, <4>3, <4>4, <5>1
      <4>7. CASE bap = 4
        <5>1. d(1) = e(1) /\ d(2) = e(2) /\ d(4) = e(4) + BitsOf(bap)
          BY <4>1, <4>2, <4>7 DEF Grouped
        <5> HIDE DEF bap
        <5> QED BY <1>1, <1>8, <4>3, <4>4, <5>1
      <4> QED BY <4>3, <4>5, <4>6, <4>7
    <3>4. was.positions[bap] + 1 = PerGroup(bap)
      BY <1>4, <1>12, <2>5
    <3>5. ReadMantissa(was, bap) = [positions |-> [was.positions EXCEPT ![bap] = 0], bits |-> was.bits + BitsOf(bap)]
      BY <1>12, <3>4 DEF ReadMantissa
    <3>6. is = ReadMantissa(was, bap)
      BY <1>5, <3>2, <3>3, <3>5
    <3> QED BY <1>10, <3>6 DEF is, was
  <2>6. CASE left + 1 # PerGroup(bap)
    <3>1. Left(bap, p(bap), o(bap) + 1) = left + 1 /\ Opened(bap, p(bap), o(bap) + 1) = Opened(bap, p(bap), o(bap))
      BY <1>2, <1>12, <2>6, OneMore
    <3>2. is.positions = [was.positions EXCEPT ![bap] = left + 1]
      BY <1>4, <1>5, <2>2, <2>3, <3>1
    <3>3. is.bits = was.bits
      <4>1. \A b \in Grouped : d(b) = e(b)
        BY <1>12, <1>9, <2>1, <2>2, <3>1
      <4> HIDE DEF d, e
      <4> QED BY <1>7, <2>4, <4>1 DEF Grouped
    <3>4. was.positions[bap] = left
      BY <1>4, <1>12
    <3>5. ReadMantissa(was, bap) = [was EXCEPT !.positions[bap] = left + 1]
      BY <1>12, <2>6, <3>4 DEF ReadMantissa
    <3>6. is = ReadMantissa(was, bap)
      BY <1>4, <1>5, <3>2, <3>3, <3>5
    <3> QED BY <1>10, <3>6 DEF is, was
  <2> QED BY <2>5, <2>6
<1> QED BY <1>11, <1>12

\* Reading the mantissas of a part one by one takes the bits that counting them says, and leaves
\* the groups where counting leaves them.
THEOREM ReadAsCounted ==
  ASSUME NEW group \in Taken, NEW baps \in Seq(Bap)
  PROVE  /\ ReadMantissas(group, baps) = CountMantissas(group, baps)
         /\ CountMantissas(group, baps) \in Taken
<1> DEFINE Solves(read) == read = [n \in 0 .. Len(baps) |-> IF n = 0 THEN group ELSE ReadMantissa(read[n - 1], baps[n])]
           all == CHOOSE read : Solves(read)
           k == Len(baps)
<1>1. ReadMantissas(group, baps) = all[k]
  BY DEF ReadMantissas
<1>2. k \in Nat /\ DOMAIN baps = 1 .. k
  OBVIOUS
<1>3. PICK bits \in [0 .. k -> Nat] :
           /\ bits[0] = 0 /\ \A n \in 1 .. k : bits[n] = bits[n - 1] + More(baps[n])
           /\ Plain(baps) = bits[k]
  BY PlainBits
<1> DEFINE count == [n \in 0 .. k |-> CountTo(group, baps, bits, n)]
<1>4. count[0] = group
  <2>1. \A b \in Grouped : group.positions[b] \in Nat /\ group.positions[b] < PerGroup(b) /\ PerGroup(b) \in {2, 3}
    BY DEF Taken, Positions, PerGroup
  <2>2. ASSUME NEW b \in Grouped PROVE Left(b, group.positions[b], 0) = group.positions[b] /\ Opened(b, group.positions[b], 0) = 0
    <3>1. group.positions[b] \in Nat /\ group.positions[b] < PerGroup(b) /\ PerGroup(b) \in {2, 3}
      BY <2>1
    <3>2. CASE PerGroup(b) = 2
      BY <3>1, <3>2 DEF Left, Opened
    <3>3. CASE PerGroup(b) = 3
      BY <3>1, <3>3 DEF Left, Opened
    <3> QED BY <3>1, <3>2, <3>3
  <2>3. \A b \in Grouped : OccurredTo(b, baps, 0) = 0 /\ BitsOf(b) \in Nat
    <3>1. Grouped \subseteq Bap
      BY DEF Grouped, Bap
    <3> QED BY <3>1, OccurredOnce, BitsOfBap
  <2>4. count[0].positions = [b \in Grouped |-> group.positions[b]] /\ group.positions = [b \in Grouped |-> group.positions[b]]
    BY <1>2, <2>2, <2>3 DEF CountTo, Taken, Positions
  <2>5. count[0].bits = group.bits
    <3> DEFINE opened(b) == Opened(b, group.positions[b], OccurredTo(b, baps, 0)) * BitsOf(b)
    <3>1. \A b \in Grouped : opened(b) = 0
      BY <2>2, <2>3
    <3>2. count[0].bits = group.bits + bits[0] + opened(1) + opened(2) + opened(4)
      BY <1>2 DEF CountTo
    <3> HIDE DEF opened, count
    <3>3. group.bits \in Nat
      BY DEF Taken
    <3> QED BY <1>3, <3>1, <3>2, <3>3 DEF Grouped
  <2>6. count[0] = [positions |-> count[0].positions, bits |-> count[0].bits] /\ group = [positions |-> group.positions, bits |-> group.bits]
    BY <1>2 DEF CountTo, Taken
  <2> HIDE DEF count
  <2> QED BY <2>4, <2>5, <2>6
<1>5. ASSUME NEW n \in 1 .. k PROVE count[n - 1] \in Taken /\ count[n] = ReadMantissa(count[n - 1], baps[n])
  <2>1. n - 1 \in 0 .. k /\ n \in 0 .. k
    BY <1>2
  <2>2. count[n - 1] = CountTo(group, baps, bits, n - 1) /\ count[n] = CountTo(group, baps, bits, n)
    BY <2>1
  <2> HIDE DEF count
  <2> QED BY <1>3, <2>2, CountStep
<1>6. count[k] = CountMantissas(group, baps)
  <2>1. \A b : OccurredTo(b, baps, k) = Occurrences(b, baps)
    BY <1>2 DEF OccurredTo, Occurrences
  <2> QED BY <1>2, <1>3, <2>1 DEF CountTo, CountMantissas
<1>7. count = [n \in 0 .. k |-> IF n = 0 THEN group ELSE ReadMantissa(count[n - 1], baps[n])]
  <2>1. DOMAIN count = 0 .. k /\ count = [n \in 0 .. k |-> count[n]]
    OBVIOUS
  <2>2. \A n \in 0 .. k : n = 0 \/ n \in 1 .. k
    BY <1>2
  <2> HIDE DEF count, k
  <2> QED BY <1>4, <1>5, <2>1, <2>2
<1>8. Solves(all)
  BY <1>7
<1>9. /\ DOMAIN all = 0 .. k /\ all = [n \in DOMAIN all |-> all[n]] /\ all[0] = group
      /\ \A n \in 1 .. k : all[n] = ReadMantissa(all[n - 1], baps[n])
  <2> HIDE DEF all
  <2>1. DOMAIN all = 0 .. k
    BY <1>8
  <2>2. all = [n \in DOMAIN all |-> all[n]]
    BY <1>8
  <2>3. 0 \in 0 .. k /\ \A n \in 1 .. k : n \in 0 .. k /\ n # 0
    BY <1>2
  <2>4. \A n \in 0 .. k : all[n] = IF n = 0 THEN group ELSE ReadMantissa(all[n - 1], baps[n])
    BY <1>8, Zenon
  <2> HIDE DEF Solves, k
  <2> QED BY <2>1, <2>2, <2>3, <2>4
<1>10. all = count
  <2>1. DOMAIN count = 0 .. k /\ count = [n \in DOMAIN count |-> count[n]]
    OBVIOUS
  <2> HIDE DEF count, all, k
  <2>2. \A n \in 1 .. k : all[n - 1] = count[n - 1] => all[n] = count[n]
    BY <1>5, <1>9
  <2> QED BY <1>2, <1>4, <1>9, <2>1, <2>2, GoAlike
<1>11. count[k] \in Taken
  <2>1. CASE k = 0
    BY <1>4, <2>1
  <2>2. CASE k # 0
    <3>1. k \in 1 .. k /\ baps[k] \in Bap
      BY <1>2, <2>2
    <3>2. count[k - 1] \in Taken /\ count[k] = ReadMantissa(count[k - 1], baps[k])
      BY <1>5, <3>1
    <3> HIDE DEF count
    <3> QED BY <3>1, <3>2, ReadTyped
  <2> QED BY <2>1, <2>2
<1> HIDE DEF count, all
<1> QED BY <1>1, <1>6, <1>10, <1>11

\* So it is over all the parts of a block.
LEMMA PartsAsCounted ==
  ASSUME NEW parts \in Seq(1 .. Lfe), NEW c \in Contents
  PROVE  ReadIn(parts, c) = CountedIn(parts, c) /\ CountedIn(parts, c) \in Taken
<1> DEFINE Counts(t) == t = [n \in 0 .. Len(parts) |-> IF n = 0 THEN NoneTaken ELSE CountMantissas(t[n - 1], c.baps[parts[n]])]
           Reads(t) == t = [n \in 0 .. Len(parts) |-> IF n = 0 THEN NoneTaken ELSE ReadMantissas(t[n - 1], c.baps[parts[n]])]
           counted == CHOOSE t : Counts(t)
           read == CHOOSE t : Reads(t)
           k == Len(parts)
           step == [n \in 1 .. k |-> [t \in Taken |-> CountMantissas(t, c.baps[parts[n]])]]
<1>1. CountedIn(parts, c) = counted[k]
  BY DEF CountedIn
<1>2. ReadIn(parts, c) = read[k]
  BY DEF ReadIn
<1>3. k \in Nat
  OBVIOUS
<1>4. ASSUME NEW n \in 1 .. k PROVE c.baps[parts[n]] \in Seq(Bap)
  <2>1. c.baps \in [1 .. Lfe -> Seq(Bap)]
    BY SyntaxAssumption DEF IsContent
  <2>2. parts[n] \in 1 .. Lfe
    BY ElementOfSeq
  <2> QED BY <2>1, <2>2
<1>5. NoneTaken \in Taken
  BY DEF NoneTaken, Taken, NewBlock, Positions, PerGroup, Grouped
<1>6. \A n \in 1 .. k, t \in Taken :
        /\ CountMantissas(t, c.baps[parts[n]]) \in Taken
        /\ ReadMantissas(t, c.baps[parts[n]]) = CountMantissas(t, c.baps[parts[n]])
  <2> HIDE DEF k
  <2> QED BY <1>4, ReadAsCounted
<1>7. step \in [1 .. k -> [Taken -> Taken]]
  <2> HIDE DEF k
  <2> QED BY <1>6
<1>8. PICK f \in [0 .. k -> Taken] : f[0] = NoneTaken /\ \A n \in 1 .. k : f[n] = step[n][f[n - 1]]
  <2> HIDE DEF step, k
  <2>1. Iterations(Taken, NoneTaken, k, step) # {}
    BY <1>3, <1>5, <1>7, Iterated
  <2> QED BY <2>1 DEF Iterations
<1>9. \A n \in 1 .. k : n - 1 \in 0 .. k /\ n \in 0 .. k /\ n # 0
  BY <1>3
<1>10. \A n \in 1 .. k : /\ f[n - 1] \in Taken
                         /\ f[n] = CountMantissas(f[n - 1], c.baps[parts[n]])
                         /\ f[n] = ReadMantissas(f[n - 1], c.baps[parts[n]])
  <2> HIDE DEF k
  <2> QED BY <1>6, <1>8, <1>9
<1>11. \A n \in 0 .. k : n = 0 \/ n \in 1 .. k
  BY <1>3
<1>12. Counts(f) /\ Reads(f)
  <2> HIDE DEF k, step
  <2>1. f = [n \in 0 .. k |-> IF n = 0 THEN NoneTaken ELSE CountMantissas(f[n - 1], c.baps[parts[n]])]
    BY <1>8, <1>10, <1>11
  <2>2. f = [n \in 0 .. k |-> IF n = 0 THEN NoneTaken ELSE ReadMantissas(f[n - 1], c.baps[parts[n]])]
    BY <1>8, <1>10, <1>11
  <2> QED BY <2>1, <2>2 DEF k
<1>13. Counts(counted) /\ Reads(read)
  BY <1>12
<1> HIDE DEF counted, read, step
<1>14. DOMAIN counted = 0 .. k /\ counted = [n \in DOMAIN counted |-> counted[n]]
       /\ \A n \in 0 .. k : counted[n] = IF n = 0 THEN NoneTaken ELSE CountMantissas(counted[n - 1], c.baps[parts[n]])
  <2>1. DOMAIN counted = 0 .. k
    BY <1>13
  <2>2. counted = [n \in DOMAIN counted |-> counted[n]]
    BY <1>13
  <2>3. \A n \in 0 .. k : counted[n] = IF n = 0 THEN NoneTaken ELSE CountMantissas(counted[n - 1], c.baps[parts[n]])
    BY <1>13, Zenon
  <2> QED BY <2>1, <2>2, <2>3
<1>15. DOMAIN read = 0 .. k /\ read = [n \in DOMAIN read |-> read[n]]
       /\ \A n \in 0 .. k : read[n] = IF n = 0 THEN NoneTaken ELSE ReadMantissas(read[n - 1], c.baps[parts[n]])
  <2>1. DOMAIN read = 0 .. k
    BY <1>13
  <2>2. read = [n \in DOMAIN read |-> read[n]]
    BY <1>13
  <2>3. \A n \in 0 .. k : read[n] = IF n = 0 THEN NoneTaken ELSE ReadMantissas(read[n - 1], c.baps[parts[n]])
    BY <1>13, Zenon
  <2> QED BY <2>1, <2>2, <2>3
<1> HIDE DEF Counts, Reads, k
<1>16. DOMAIN f = 0 .. k /\ f = [n \in DOMAIN f |-> f[n]] /\ 0 \in 0 .. k /\ k \in 0 .. k
  BY <1>3
<1>17. counted = f
  <2>1. counted[0] = f[0] /\ \A n \in 1 .. k : counted[n - 1] = f[n - 1] => counted[n] = f[n]
    BY <1>8, <1>9, <1>10, <1>14, <1>16
  <2> QED BY <1>3, <1>14, <1>16, <2>1, GoAlike
<1>18. read = f
  <2>1. read[0] = f[0] /\ \A n \in 1 .. k : read[n - 1] = f[n - 1] => read[n] = f[n]
    BY <1>8, <1>9, <1>10, <1>15, <1>16
  <2> QED BY <1>3, <1>15, <1>16, <2>1, GoAlike
<1> QED BY <1>1, <1>2, <1>16, <1>17, <1>18

\* The parts of a block are those it has.
LEMMA PartsOfBlock ==
  ASSUME NEW first \in Channel \cup {Nothing}
  PROVE  Parts(first) \in Seq(1 .. Lfe)
<1> DEFINE channels == [ch \in Channel |-> ch]
           inserted == InsertAt(channels, first + 1, Coupling)
<1>1. N \in Nat /\ Coupling \in 1 .. Lfe /\ Lfe \in 1 .. Lfe
  BY SyntaxAssumption DEF Coupling, Lfe
<1>2. channels \in Seq(1 .. Lfe) /\ Len(channels) = N
  BY <1>1 DEF Channel, Lfe
<1>3. <<Lfe>> \in Seq(1 .. Lfe) /\ <<Coupling>> \in Seq(1 .. Lfe)
  BY <1>1
<1>4. ASSUME first # Nothing PROVE inserted \in Seq(1 .. Lfe)
  <2>1. first \in 1 .. N /\ (first + 1) - 1 = first /\ first + 1 \in Nat
    BY <1>1, <1>4 DEF Channel
  <2> HIDE DEF channels
  <2>2. SubSeq(channels, 1, first) \in Seq(1 .. Lfe)
    BY <1>1, <1>2, <2>1
  <2>3. SubSeq(channels, first + 1, Len(channels)) \in Seq(1 .. Lfe)
    BY <1>1, <1>2, <2>1
  <2>4. inserted = SubSeq(channels, 1, first) \o <<Coupling>> \o SubSeq(channels, first + 1, Len(channels))
    BY <2>1 DEF InsertAt
  <2> DEFINE a == SubSeq(channels, 1, first)
             b == SubSeq(channels, first + 1, Len(channels))
  <2> HIDE DEF a, b
  <2>5. a \in Seq(1 .. Lfe) /\ b \in Seq(1 .. Lfe)
    BY <2>2, <2>3 DEF a, b
  <2>6. (a \o <<Coupling>>) \in Seq(1 .. Lfe)
    BY <1>3, <2>5
  <2>7. (a \o <<Coupling>>) \o b \in Seq(1 .. Lfe)
    BY <2>5, <2>6
  <2> QED BY <2>4, <2>7 DEF a, b
<1>5. Parts(first) = (IF first = Nothing THEN channels ELSE inserted) \o <<Lfe>>
  BY DEF Parts
<1> HIDE DEF channels, inserted
<1> QED BY <1>2, <1>3, <1>4, <1>5

----------------------------------------------------------------------------
(***************************************************************************)
(* The two walkers, told by what they have in common.                      *)
(***************************************************************************)

\* What both walkers read before the mantissas.
BeforeMantissas(spx, f, b, c) ==
  LET strategy == Then(spx, ReadCouplingStrategy(spx, f, b, c))
      coordinates == Then(strategy, ReadCouplingCoordinates(strategy, f, b, c))
      exponents == Then(coordinates, ReadExponents(coordinates, f, b, c))
      snr == Then(exponents, ReadSnrOffsets(exponents, f, b, c))
      gains == Then(snr, ReadGainCodes(snr))
      leak == Then(gains, ReadCouplingLeakInfo(gains, CouplingInUse(f, b), c))
  IN  Then(leak, ReadDeltaBitAllocation(leak, c))

\* Nothing more is read after an error.
LEMMA HeadFailed ==
  ASSUME NEW spx, spx.error # Nothing, NEW f, NEW b, NEW c
  PROVE  BeforeMantissas(spx, f, b, c) = spx
  BY DEF BeforeMantissas, Then

LEMMA WalkersShape ==
  ASSUME NEW s, NEW f, NEW b, NEW c, NEW consume
  PROVE  LET spx == ReadSpx([s EXCEPT !.taken = NoneTaken], b, c)
             stopped == IF spx.spx THEN Fail(spx, "unsupported") ELSE spx
             parsed == BeforeMantissas(spx, f, b, c)
             read == BeforeMantissas(stopped, f, b, c)
         IN  /\ ParseBlock(s, f, b, c, consume) =
                  IF consume THEN Then(parsed, ConsumeBlockMantissas(parsed, f, b, c)) ELSE parsed
             /\ DecodeBlock(s, f, b, c) = Then(read, DecodeMantissas(read, f, c))
  BY DEF ParseBlock, DecodeBlock, BeforeMantissas

----------------------------------------------------------------------------
(***************************************************************************)
(* A reader that was torn by a block has failed.                           *)
(***************************************************************************)

Fields == DOMAIN New

\* All of the aux walker's readings; the core decoder lives on with what a broken block left.
Shaped(who, s) == DOMAIN s = Fields /\ (who = "aux" => (s.torn => s.error # Nothing))

\* The fields the arguments below are about.
LEMMA FieldNames == {"spx", "ecplinu", "phsflginu", "chincpl", "first_cpl_coords", "first_cpl_leak",
                     "given", "leak", "torn", "recent", "cleared", "error", "taken"} \subseteq Fields
  BY DEF Fields, New

\* To fail is to remember the error.
LEMMA FailShaped ==
  ASSUME NEW who, NEW s, Shaped(who, s), NEW e, e # Nothing
  PROVE  Shaped(who, Fail(s, e)) /\ Fail(s, e).error # Nothing /\ Fail(s, e).chincpl = s.chincpl
  BY FieldNames DEF Shaped, Fail

\* A broken block fails with the error of its content.
LEMMA BreaksShaped ==
  ASSUME NEW who, NEW s, Shaped(who, s), NEW c \in Contents, NEW stage \in Stage
  PROVE  /\ Shaped(who, Breaks(s, c, stage)) /\ Breaks(s, c, stage).chincpl = s.chincpl
         /\ s.error # Nothing => Breaks(s, c, stage).error # Nothing
<1>1. c.error # Nothing
  BY SyntaxAssumption DEF IsContent
<1> QED BY <1>1, FailShaped DEF Breaks

\* What each part of a block leaves of the state.
LEMMA SpxShaped ==
  ASSUME NEW who, NEW s, Shaped(who, s), NEW b, NEW c \in Contents
  PROVE  Shaped(who, ReadSpx(s, b, c)) /\ ReadSpx(s, b, c).chincpl = s.chincpl
<1> DEFINE on == IF c.spx = "on" THEN TRUE ELSE IF c.spx = "keep" /\ b # 1 THEN s.spx ELSE FALSE
<1>1. Shaped(who, [s EXCEPT !.spx = on]) /\ [s EXCEPT !.spx = on].chincpl = s.chincpl
  BY FieldNames DEF Shaped
<1>2. ReadSpx(s, b, c) = Breaks([s EXCEPT !.spx = on], c, "spx")
  BY DEF ReadSpx
<1> HIDE DEF on
<1>3. "spx" \in Stage
  BY DEF Stage
<1>4. Shaped(who, Breaks([s EXCEPT !.spx = on], c, "spx")) /\ Breaks([s EXCEPT !.spx = on], c, "spx").chincpl = [s EXCEPT !.spx = on].chincpl
  BY <1>1, <1>3, BreaksShaped
<1> QED BY <1>1, <1>2, <1>4

LEMMA ClearShaped ==
  ASSUME NEW who, NEW s, Shaped(who, s)
  PROVE  Shaped(who, ClearCoupling(s)) /\ ClearCoupling(s).chincpl = {}
  BY FieldNames DEF Shaped, ClearCoupling

\* After the strategy, channels are coupled only in a block that uses coupling, unless the strategy
\* was not sent and they were coupled before.
LEMMA StrategyShaped ==
  ASSUME NEW who, NEW s, Shaped(who, s), NEW f, NEW b, NEW c \in Contents
  PROVE  LET t == ReadCouplingStrategy(s, f, b, c)
         IN  /\ Shaped(who, t)
             /\ t.error = Nothing /\ t.chincpl # {} =>
                  CouplingInUse(f, b) \/ (Couples(f) /\ ~StrategySent(f, b) /\ t.chincpl = s.chincpl)
<1> DEFINE begun == [s EXCEPT !.ecplinu = c.ecpl, !.chincpl = IF f.mode = "stereo" THEN Channel ELSE c.channels]
           flagged == [begun EXCEPT !.phsflginu = f.mode = "stereo" /\ c.phase]
           t == ReadCouplingStrategy(s, f, b, c)
<1>1. Shaped(who, begun) /\ Shaped(who, flagged)
  BY FieldNames DEF Shaped
<1>2. \/ ~Couples(f) /\ t = ClearCoupling(s)
      \/ Couples(f) /\ ~StrategySent(f, b) /\ t = s
      \/ t = ClearCoupling(s)
      \/ t = Fail(begun, "unsupported")
      \/ CouplingInUse(f, b) /\ t = Breaks(flagged, c, "strategy")
  BY DEF ReadCouplingStrategy
<1> HIDE DEF begun, flagged, t
<1>3. "unsupported" # Nothing /\ "strategy" \in Stage
  BY SyntaxAssumption DEF Error, Stage
<1>4. Shaped(who, ClearCoupling(s)) /\ ClearCoupling(s).chincpl = {}
  BY ClearShaped
<1>5. Shaped(who, Fail(begun, "unsupported")) /\ Fail(begun, "unsupported").error # Nothing
  BY <1>1, <1>3, FailShaped
<1>6. Shaped(who, Breaks(flagged, c, "strategy"))
  BY <1>1, <1>3, BreaksShaped
<1>7. Shaped(who, t) /\ (t.error = Nothing /\ t.chincpl # {} =>
        CouplingInUse(f, b) \/ (Couples(f) /\ ~StrategySent(f, b) /\ t.chincpl = s.chincpl))
  BY <1>2, <1>4, <1>5, <1>6
<1> QED BY <1>7 DEF t

LEMMA CoordinatesShaped ==
  ASSUME NEW who, NEW s, Shaped(who, s), NEW f, NEW b, NEW c \in Contents
  PROVE  /\ Shaped(who, ReadCouplingCoordinates(s, f, b, c))
         /\ ReadCouplingCoordinates(s, f, b, c).chincpl = s.chincpl
<1> DEFINE present == {ch \in s.chincpl : ch \in s.first_cpl_coords \/ c.coordinates}
           broken == c.breaks = "coordinates" /\ present # {}
           seen == IF broken THEN 1 .. Max(present) ELSE Channel
           flagged == [s EXCEPT !.first_cpl_coords = (@ \ seen) \cup (seen \ s.chincpl)]
           had == s.given \cap s.chincpl
           most == [flagged EXCEPT !.given = had \cup (present \ {Max(present)})]
           all == [flagged EXCEPT !.given = had \cup present]
           t == ReadCouplingCoordinates(s, f, b, c)
<1>1. Shaped(who, most) /\ most.chincpl = s.chincpl /\ Shaped(who, all) /\ all.chincpl = s.chincpl
  BY FieldNames DEF Shaped
<1>2. t = s \/ t = Fail(s, "unsupported") \/ t = Fail(most, c.error) \/ t = Fail(all, "unsupported") \/ t = all
  BY DEF ReadCouplingCoordinates
<1> HIDE DEF most, all, t
<1>3. "unsupported" # Nothing /\ c.error # Nothing
  BY SyntaxAssumption DEF Error, IsContent
<1>4. Shaped(who, t) /\ t.chincpl = s.chincpl
  BY <1>1, <1>2, <1>3, FailShaped
<1> QED BY <1>4 DEF t

LEMMA ExponentsShaped ==
  ASSUME NEW who, NEW s, Shaped(who, s), NEW f, NEW b, NEW c \in Contents
  PROVE  Shaped(who, ReadExponents(s, f, b, c)) /\ ReadExponents(s, f, b, c).chincpl = s.chincpl
<1>1. "unsupported" # Nothing /\ "exponents" \in Stage
  BY SyntaxAssumption DEF Error, Stage
<1> QED BY <1>1, FailShaped, BreaksShaped DEF ReadExponents

LEMMA OffsetsShaped ==
  ASSUME NEW who, NEW s, Shaped(who, s), NEW f, NEW b, NEW c \in Contents
  PROVE  Shaped(who, ReadSnrOffsets(s, f, b, c)) /\ ReadSnrOffsets(s, f, b, c).chincpl = s.chincpl
<1> DEFINE sent == IF f.snr = 0 \/ b = 1 \/ c.snr THEN Offsets(f, b) ELSE {}
           read == [s EXCEPT !.recent = @ \cup sent, !.cleared = @ /\ "cplfsnr" \notin sent]
<1>1. Shaped(who, read) /\ read.chincpl = s.chincpl
  <2> HIDE DEF sent
  <2> QED BY FieldNames DEF Shaped
<1>2. ReadSnrOffsets(s, f, b, c) = read \/ ReadSnrOffsets(s, f, b, c) = Breaks(read, c, "snr")
  BY DEF ReadSnrOffsets
<1> HIDE DEF read
<1>3. "snr" \in Stage
  BY DEF Stage
<1>4. Shaped(who, Breaks(read, c, "snr")) /\ Breaks(read, c, "snr").chincpl = read.chincpl
  BY <1>1, <1>3, BreaksShaped
<1> QED BY <1>1, <1>2, <1>4

LEMMA GainsShaped ==
  ASSUME NEW who, NEW s, Shaped(who, s)
  PROVE  Shaped(who, ReadGainCodes(s)) /\ ReadGainCodes(s).chincpl = s.chincpl
  BY FieldNames DEF Shaped, ReadGainCodes

LEMMA LeakShaped ==
  ASSUME NEW who, NEW s, Shaped(who, s), NEW in_use, NEW c \in Contents
  PROVE  Shaped(who, ReadCouplingLeakInfo(s, in_use, c)) /\ ReadCouplingLeakInfo(s, in_use, c).chincpl = s.chincpl
<1> DEFINE flagged == [s EXCEPT !.first_cpl_leak = FALSE]
           read == [flagged EXCEPT !.leak = TRUE]
           t == ReadCouplingLeakInfo(s, in_use, c)
<1>1. Shaped(who, flagged) /\ flagged.chincpl = s.chincpl /\ Shaped(who, read) /\ read.chincpl = s.chincpl
  BY FieldNames DEF Shaped
<1>2. t = s \/ t = read \/ t = Fail(flagged, c.error)
  BY DEF ReadCouplingLeakInfo
<1>3. c.error # Nothing
  BY SyntaxAssumption DEF IsContent
<1> HIDE DEF flagged, read, t
<1>4. Shaped(who, t) /\ t.chincpl = s.chincpl
  BY <1>1, <1>2, <1>3, FailShaped
<1> QED BY <1>4 DEF t

LEMMA DeltaShaped ==
  ASSUME NEW who, NEW s, Shaped(who, s), NEW c \in Contents
  PROVE  Shaped(who, ReadDeltaBitAllocation(s, c)) /\ ReadDeltaBitAllocation(s, c).chincpl = s.chincpl
  BY BreaksShaped DEF ReadDeltaBitAllocation, Stage

LEMMA ConsumeShaped ==
  ASSUME NEW who, NEW s, Shaped(who, s), NEW f, NEW b, NEW c \in Contents
  PROVE  Shaped(who, ConsumeBlockMantissas(s, f, b, c)) /\ ConsumeBlockMantissas(s, f, b, c).chincpl = s.chincpl
<1> DEFINE read(taken) == [s EXCEPT !.taken = taken]
<1>1. ASSUME NEW taken PROVE Shaped(who, read(taken)) /\ read(taken).chincpl = s.chincpl
  BY FieldNames DEF Shaped
<1>2. \/ ConsumeBlockMantissas(s, f, b, c) = Fail(s, "unsupported")
      \/ \E taken : ConsumeBlockMantissas(s, f, b, c) = Breaks(read(taken), c, "mantissas")
  BY DEF ConsumeBlockMantissas
<1>3. "unsupported" # Nothing /\ "mantissas" \in Stage
  BY SyntaxAssumption DEF Error, Stage
<1> HIDE DEF read
<1> QED BY <1>1, <1>2, <1>3, FailShaped, BreaksShaped

LEMMA DecodeShaped ==
  ASSUME NEW who, NEW s, Shaped(who, s), NEW f, NEW c \in Contents
  PROVE  Shaped(who, DecodeMantissas(s, f, c)) /\ DecodeMantissas(s, f, c).chincpl = s.chincpl
<1> DEFINE read == [s EXCEPT !.taken = ReadIn(Parts(FirstCoupled(s)), c)]
<1>1. Shaped(who, read) /\ read.chincpl = s.chincpl
  BY FieldNames DEF Shaped
<1>2. DecodeMantissas(s, f, c) = Breaks(read, c, "mantissas")
  BY DEF DecodeMantissas
<1> HIDE DEF read
<1>3. "mantissas" \in Stage
  BY DEF Stage
<1>4. Shaped(who, Breaks(read, c, "mantissas")) /\ Breaks(read, c, "mantissas").chincpl = read.chincpl
  BY <1>1, <1>3, BreaksShaped
<1> QED BY <1>1, <1>2, <1>4

----------------------------------------------------------------------------
(***************************************************************************)
(* A whole block: what holds of the coupled channels after it.             *)
(***************************************************************************)

\* The block uses coupling, or it sent no strategy and left the coupled channels alone.
Gated(t, s, f, b) ==
  t.error = Nothing /\ t.chincpl # {} =>
    CouplingInUse(f, b) \/ (Couples(f) /\ ~StrategySent(f, b) /\ t.chincpl = s.chincpl)

LEMMA ThenGated ==
  ASSUME NEW who, NEW s, NEW f, NEW b, NEW u, Shaped(who, u), Gated(u, s, f, b), NEW v, Shaped(who, v), v.chincpl = u.chincpl
  PROVE  Shaped(who, Then(u, v)) /\ Gated(Then(u, v), s, f, b)
  BY DEF Then, Gated

\* What both walkers read before the mantissas.
LEMMA HeadGated ==
  ASSUME NEW who, NEW s, Shaped(who, s), NEW spx, Shaped(who, spx), spx.chincpl = s.chincpl, NEW f, NEW b, NEW c \in Contents
  PROVE  LET delta == BeforeMantissas(spx, f, b, c) IN Shaped(who, delta) /\ Gated(delta, s, f, b)
<1> DEFINE strategy == Then(spx, ReadCouplingStrategy(spx, f, b, c))
           coordinates == Then(strategy, ReadCouplingCoordinates(strategy, f, b, c))
           exponents == Then(coordinates, ReadExponents(coordinates, f, b, c))
           snr == Then(exponents, ReadSnrOffsets(exponents, f, b, c))
           gains == Then(snr, ReadGainCodes(snr))
           leak == Then(gains, ReadCouplingLeakInfo(gains, CouplingInUse(f, b), c))
           delta == Then(leak, ReadDeltaBitAllocation(leak, c))
<1>1. Shaped(who, strategy) /\ Gated(strategy, s, f, b)
  BY StrategyShaped DEF Then, Gated
<1>2. Shaped(who, coordinates) /\ Gated(coordinates, s, f, b)
  <2> HIDE DEF strategy
  <2> QED BY <1>1, CoordinatesShaped, ThenGated
<1>3. Shaped(who, exponents) /\ Gated(exponents, s, f, b)
  <2> HIDE DEF coordinates
  <2> QED BY <1>2, ExponentsShaped, ThenGated
<1>4. Shaped(who, snr) /\ Gated(snr, s, f, b)
  <2> HIDE DEF exponents
  <2> QED BY <1>3, OffsetsShaped, ThenGated
<1>5. Shaped(who, gains) /\ Gated(gains, s, f, b)
  <2> HIDE DEF snr
  <2> QED BY <1>4, GainsShaped, ThenGated
<1>6. Shaped(who, leak) /\ Gated(leak, s, f, b)
  <2> HIDE DEF gains
  <2> QED BY <1>5, LeakShaped, ThenGated
<1>7. Shaped(who, delta) /\ Gated(delta, s, f, b)
  <2> HIDE DEF leak
  <2> QED BY <1>6, DeltaShaped, ThenGated
<1>8. BeforeMantissas(spx, f, b, c) = delta
  BY DEF BeforeMantissas
<1> QED BY <1>7, <1>8

LEMMA FreshTaken ==
  ASSUME NEW who, NEW s, Shaped(who, s)
  PROVE  Shaped(who, [s EXCEPT !.taken = NoneTaken]) /\ [s EXCEPT !.taken = NoneTaken].chincpl = s.chincpl
  BY FieldNames DEF Shaped

LEMMA ParseGated ==
  ASSUME NEW who, NEW s, Shaped(who, s), NEW f, NEW b, NEW c \in Contents, NEW consume
  PROVE  LET t == ParseBlock(s, f, b, c, consume) IN Shaped(who, t) /\ Gated(t, s, f, b)
<1> DEFINE fresh == [s EXCEPT !.taken = NoneTaken]
           spx == ReadSpx(fresh, b, c)
           delta == BeforeMantissas(spx, f, b, c)
           t == ParseBlock(s, f, b, c, consume)
<1>1. Shaped(who, spx) /\ spx.chincpl = s.chincpl
  <2>1. Shaped(who, fresh) /\ fresh.chincpl = s.chincpl
    BY FreshTaken
  <2> HIDE DEF fresh
  <2> QED BY <2>1, SpxShaped
<1>2. t = IF consume THEN Then(delta, ConsumeBlockMantissas(delta, f, b, c)) ELSE delta
  BY WalkersShape
<1>3. Shaped(who, delta) /\ Gated(delta, s, f, b)
  <2> HIDE DEF spx
  <2> QED BY <1>1, HeadGated
<1> HIDE DEF delta, t
<1>4. Shaped(who, Then(delta, ConsumeBlockMantissas(delta, f, b, c))) /\ Gated(Then(delta, ConsumeBlockMantissas(delta, f, b, c)), s, f, b)
  BY <1>3, ConsumeShaped, ThenGated
<1>5. Shaped(who, t) /\ Gated(t, s, f, b)
  BY <1>2, <1>3, <1>4
<1> QED BY <1>5 DEF t

LEMMA DecodeGated ==
  ASSUME NEW who, NEW s, Shaped(who, s), NEW f, NEW b, NEW c \in Contents
  PROVE  LET t == DecodeBlock(s, f, b, c) IN Shaped(who, t) /\ Gated(t, s, f, b)
<1> DEFINE fresh == [s EXCEPT !.taken = NoneTaken]
           spx == ReadSpx(fresh, b, c)
           stopped == IF spx.spx THEN Fail(spx, "unsupported") ELSE spx
           delta == BeforeMantissas(stopped, f, b, c)
           t == DecodeBlock(s, f, b, c)
<1>1. Shaped(who, stopped) /\ stopped.chincpl = s.chincpl
  <2>1. Shaped(who, fresh) /\ fresh.chincpl = s.chincpl
    BY FreshTaken
  <2> HIDE DEF fresh
  <2>2. Shaped(who, spx) /\ spx.chincpl = s.chincpl
    BY <2>1, SpxShaped
  <2>3. "unsupported" # Nothing
    BY SyntaxAssumption DEF Error
  <2> HIDE DEF spx
  <2> QED BY <2>2, <2>3, FailShaped
<1>2. t = Then(delta, DecodeMantissas(delta, f, c))
  BY WalkersShape
<1>3. Shaped(who, delta) /\ Gated(delta, s, f, b)
  <2> HIDE DEF stopped
  <2> QED BY <1>1, HeadGated
<1> HIDE DEF delta, t
<1>4. Shaped(who, t) /\ Gated(t, s, f, b)
  BY <1>2, <1>3, DecodeShaped, ThenGated
<1> QED BY <1>4 DEF t

\* A block that sends no strategy continues what the block before it does.
LEMMA StrategyKept ==
  ASSUME NEW f, NEW b \in Nat \ {0}, Couples(f), ~StrategySent(f, b)
  PROVE  b - 1 \in Nat \ {0} /\ (CouplingInUse(f, b) <=> CouplingInUse(f, b - 1))
<1>1. b # 1 /\ ~f.updates[b]
  BY DEF StrategySent
<1>2. {i \in 2 .. b : f.updates[i]} = {i \in 2 .. b - 1 : f.updates[i]}
  BY <1>1
<1> QED BY <1>1, <1>2 DEF CouplingInUse

----------------------------------------------------------------------------
(***************************************************************************)
(* The invariant.                                                          *)
(***************************************************************************)

GateAfter(s, b) == s.error = Nothing /\ s.chincpl # {} => CouplingInUse(frame, b)

IInv ==
  /\ Shaped("aux", aux) /\ ~aux.torn
  /\ Shaped("aux", walk)
  /\ Shaped("core", core) /\ Shaped("core", next)
  /\ walked \in Nat /\ decoded \in Nat
  /\ frame \in Frames \cup {Nothing}
  /\ frame # Nothing =>
       /\ frame.skip_fields /\ walked > 0 => GateAfter(walk, walked)
       /\ decoded > 0 => GateAfter(next, decoded)

\* One more block read by a walker keeps the gate.
LEMMA GateKept ==
  ASSUME NEW s, NEW b \in Nat, b > 0 => GateAfter(s, b), s.error = Nothing,
         NEW t, Gated(t, s, frame, b + 1)
  PROVE  GateAfter(t, b + 1)
<1> SUFFICES ASSUME t.error = Nothing, t.chincpl # {}, Couples(frame), ~StrategySent(frame, b + 1), t.chincpl = s.chincpl
             PROVE  CouplingInUse(frame, b + 1)
  BY DEF GateAfter, Gated
<1>1. (b + 1) - 1 \in Nat \ {0} /\ (CouplingInUse(frame, b + 1) <=> CouplingInUse(frame, (b + 1) - 1))
  BY StrategyKept
<1>2. (b + 1) - 1 = b
  OBVIOUS
<1> QED BY <1>1, <1>2 DEF GateAfter

LEMMA NewShaped ==
  /\ Shaped("aux", New) /\ Shaped("core", New)
  /\ ~New.torn /\ New.chincpl = {}
  BY DEF Shaped, Fields, New

LEMMA RestedShaped ==
  ASSUME NEW who, NEW s, Shaped(who, s)
  PROVE  /\ Rested(s).torn = s.torn
         /\ who = "core" \/ s.error = Nothing => Shaped(who, Rested(s))
  BY FieldNames DEF Shaped, Rested

\* The start, and every step.
LEMMA InitInv == Init => IInv
  BY NewShaped DEF Init, IInv

LEMMA BeginInv ==
  ASSUME IInv, NEW f \in Frames, Begin(f)
  PROVE  IInv'
<1>1. Shaped("aux", Prepared(aux, aux_layout, f)) /\ ~Prepared(aux, aux_layout, f).torn
  BY NewShaped DEF IInv, Prepared
<1>2. Shaped("core", Prepared(core, core_layout, f))
  BY NewShaped DEF IInv, Prepared
<1>3. /\ aux' = aux \/ aux' = Prepared(aux, aux_layout, f)
      /\ walk' = aux' \/ walk' = New
      /\ next' = Prepared(core, core_layout, f) /\ core' = core
      /\ frame' = f /\ decoded' = 0
      /\ IF f.skip_fields THEN walked' = 0 ELSE walked' = Blocks(f)
  BY DEF Begin
<1>4. Blocks(f) \in Nat
  BY SyntaxAssumption DEF Frame, Blocks
<1>5. Shaped("aux", aux') /\ ~aux'.torn /\ Shaped("aux", walk')
  BY <1>1, <1>3, NewShaped DEF IInv
<1>6. Shaped("core", core') /\ Shaped("core", next')
  BY <1>2, <1>3 DEF IInv
<1>7. f.skip_fields => ~(walked' > 0)
  BY <1>3
<1> QED BY <1>3, <1>4, <1>5, <1>6, <1>7 DEF IInv, Shaped

LEMMA WalkInv ==
  ASSUME IInv, Walking, NEW c \in Contents, Walk(c), frame' = frame
  PROVE  /\ Shaped("aux", walk') /\ walked' \in Nat
         /\ frame'.skip_fields /\ walked' > 0 => GateAfter(walk, walked)'
<1>1. Shaped("aux", walk') /\ Gated(walk', walk, frame, walked + 1)
  BY ParseGated DEF Walk, IInv
<1>2. ASSUME frame.skip_fields PROVE GateAfter(walk', walked + 1)
  BY <1>1, <1>2, GateKept DEF IInv, Walking
<1> QED BY <1>1, <1>2 DEF Walk, IInv, GateAfter

LEMMA CoreInv ==
  ASSUME IInv, Decoding, NEW c \in Contents, Decode(c), frame' = frame
  PROVE  /\ Shaped("core", next') /\ decoded' \in Nat
         /\ decoded' > 0 => GateAfter(next, decoded)'
<1>1. Shaped("core", next') /\ Gated(next', next, frame, decoded + 1)
  BY DecodeGated DEF Decode, IInv
<1>2. GateAfter(next', decoded + 1)
  BY <1>1, GateKept DEF IInv, Decoding
<1> QED BY <1>1, <1>2 DEF Decode, IInv, GateAfter

\* The walker of a frame that is taken to its end was not torn.
LEMMA InspectInv ==
  ASSUME IInv, Inspect
  PROVE  IInv'
<1>1. Shaped("aux", Committed) /\ ~Committed.torn
  <2>1. CASE Sequential(frame) /\ walk.error = Nothing
    <3>1. ~walk.torn
      BY <2>1 DEF IInv, Shaped
    <3>2. Shaped("aux", Rested(walk)) /\ Rested(walk).torn = walk.torn
      BY <2>1, RestedShaped DEF IInv
    <3> QED BY <2>1, <3>1, <3>2 DEF Committed
  <2>2. CASE ~(Sequential(frame) /\ walk.error = Nothing)
    BY <2>2 DEF Committed, IInv
  <2> QED BY <2>1, <2>2
<1> QED BY <1>1, NewShaped DEF Inspect, IInv, Shaped, GateAfter

LEMMA DoneInv ==
  ASSUME IInv, FrameDone, core' = core \/ core' = Rested(next)
  PROVE  IInv'
<1>1. Shaped("core", core')
  BY RestedShaped DEF IInv
<1> QED BY <1>1, NewShaped DEF FrameDone, IInv, Shaped

LEMMA StepInv ==
  ASSUME IInv, [Next]_vars
  PROVE  IInv'
<1>1. ASSUME NEW f \in Frames, Begin(f) PROVE IInv'
  BY <1>1, BeginInv
<1>2. ASSUME NEW c \in Contents, BothBlocks(c) PROVE IInv'
  BY <1>2, WalkInv, CoreInv DEF BothBlocks, IInv, kept, Shaped
<1>3. ASSUME NEW c \in Contents, WalkBlock(c) PROVE IInv'
  BY <1>3, WalkInv DEF WalkBlock, IInv, kept, Shaped, GateAfter
<1>4. ASSUME NEW c \in Contents, CoreBlock(c) PROVE IInv'
  BY <1>4, CoreInv DEF CoreBlock, IInv, kept, Shaped, GateAfter
<1>5. CASE Inspect
  BY <1>5, InspectInv
<1>6. CASE Reject
  BY <1>6, DoneInv DEF Reject
<1>7. CASE InspectOnly
  BY <1>7, DoneInv DEF InspectOnly
<1>8. CASE DecodeFrame
  BY <1>8, DoneInv DEF DecodeFrame
<1>9. CASE Reset
  BY <1>9, NewShaped DEF Reset, reading, IInv, Shaped
<1>10. CASE UNCHANGED vars
  BY <1>10 DEF vars, kept, reading, IInv, Shaped, GateAfter
<1> QED BY <1>1, <1>2, <1>3, <1>4, <1>5, <1>6, <1>7, <1>8, <1>9, <1>10 DEF Next

LEMMA Invariance == Spec => []IInv
<1>1. IInv /\ [Next]_vars => IInv'
  BY StepInv
<1> QED BY InitInv, <1>1, PTL DEF Spec

\* What the aux walker keeps never comes from a frame that was not walked to its end.
THEOREM AuxIsWhole == Spec => []AuxNeverTorn
<1>1. IInv => AuxNeverTorn
  BY DEF IInv, AuxNeverTorn
<1> QED BY <1>1, Invariance, PTL

\* After a block, either reader has coupled channels only if the block uses coupling.
THEOREM GateHolds == Spec => []CouplingGate
<1>1. IInv => CouplingGate
  BY DEF IInv, CouplingGate, Passed, GateAfter
<1> QED BY <1>1, Invariance, PTL

----------------------------------------------------------------------------
(***************************************************************************)
(* Nothing is scaled by what was not read, nor by the offsets of another   *)
(* frame.                                                                  *)
(***************************************************************************)

\* Of every channel, coupled or not, the coordinates were read or are asked for when it is coupled;
\* and the leak likewise.
Asked(s) ==
  /\ Channel \subseteq s.first_cpl_coords \cup s.given
  /\ s.leak \/ s.first_cpl_leak

Whole(s) == DOMAIN s = Fields /\ s.chincpl \subseteq Channel /\ (s.torn \/ Asked(s))

\* A part of a block that failed, or left the coupling alone but for the leak.
Keeps(s, t) ==
  /\ Whole(t)
  /\ t.error = Nothing =>
       /\ t.chincpl = s.chincpl /\ t.given = s.given /\ t.torn = s.torn
       /\ s.leak => t.leak
       /\ s.recent \subseteq t.recent
       /\ s.cleared => t.cleared \/ "cplfsnr" \in t.recent

\* The offsets are those of the frame, the coupling's perhaps the zero of clear_coupling.
Settled(s, f) ==
  /\ "csnr" \in s.recent
  /\ f.snr # 3 => "fsnr" \in s.recent /\ ("cplfsnr" \in s.recent \/ s.cleared)

\* Before a block's offsets: the first block sends its own, and has cleared the coupling or uses it.
Ready(s, f, b) ==
  \/ b = 1 /\ (CouplingInUse(f, b) \/ s.cleared \/ "cplfsnr" \in s.recent)
  \/ Settled(s, f)

\* The header's offsets are set anew in each block.
FromHeader(s, f) == f.snr = 0 => "cplfsnr" \in s.recent

\* What the mantissas of a block need.
Supplied(t, f, b) ==
  t.error = Nothing =>
    /\ Settled(t, f) /\ FromHeader(t, f) /\ "gain" \in t.recent
    /\ CouplingInUse(f, b) /\ ~t.torn => t.chincpl \subseteq t.given /\ t.leak

\* Neither is lost by a part that leaves the coupling alone.
LEMMA KeepsSettled ==
  ASSUME NEW s, NEW t, Keeps(s, t), t.error = Nothing, NEW f, NEW b
  PROVE  /\ Settled(s, f) => Settled(t, f)
         /\ Ready(s, f, b) => Ready(t, f, b)
         /\ FromHeader(s, f) => FromHeader(t, f)
  BY DEF Keeps, Settled, Ready, FromHeader

LEMMA FailWhole ==
  ASSUME NEW s, Whole(s), NEW e, e # Nothing
  PROVE  Whole(Fail(s, e)) /\ Fail(s, e).error # Nothing
  BY FieldNames DEF Whole, Fail

LEMMA BreaksKeeps ==
  ASSUME NEW s, NEW t, Keeps(s, t), NEW c \in Contents, NEW stage \in Stage
  PROVE  Keeps(s, Breaks(t, c, stage))
<1>1. c.error # Nothing
  BY SyntaxAssumption DEF IsContent
<1>2. Whole(Fail(t, c.error)) /\ Fail(t, c.error).error # Nothing
  BY <1>1, FailWhole DEF Keeps
<1> QED BY <1>2 DEF Breaks, Keeps

LEMMA UnsupportedKeeps ==
  ASSUME NEW s, NEW t, Whole(t)
  PROVE  Keeps(s, Fail(t, "unsupported"))
<1>1. "unsupported" # Nothing
  BY SyntaxAssumption DEF Error
<1> QED BY <1>1, FailWhole DEF Keeps

LEMMA ThenKeeps ==
  ASSUME NEW s, NEW u, NEW v, Keeps(s, u), Keeps(u, v)
  PROVE  Keeps(s, Then(u, v))
  BY DEF Then, Keeps

\* The parts that leave the coupling alone.
LEMMA SpxKeeps ==
  ASSUME NEW s, Whole(s), NEW b, NEW c \in Contents
  PROVE  Keeps(s, ReadSpx(s, b, c))
<1> DEFINE on == IF c.spx = "on" THEN TRUE ELSE IF c.spx = "keep" /\ b # 1 THEN s.spx ELSE FALSE
           read == [s EXCEPT !.spx = on]
<1>1. ReadSpx(s, b, c) = Breaks(read, c, "spx")
  BY DEF ReadSpx
<1> HIDE DEF on
<1>2. Keeps(s, read)
  BY FieldNames DEF Keeps, Whole, Asked
<1> HIDE DEF read
<1> QED BY <1>1, <1>2, BreaksKeeps DEF Stage

LEMMA ExponentsKeeps ==
  ASSUME NEW s, Whole(s), NEW f, NEW b, NEW c \in Contents
  PROVE  Keeps(s, ReadExponents(s, f, b, c))
<1>1. Keeps(s, s)
  BY DEF Keeps
<1> QED BY <1>1, UnsupportedKeeps, BreaksKeeps DEF ReadExponents, Stage

\* The offsets are sent in the first block of a frame.
LEMMA OffsetsKeeps ==
  ASSUME NEW s, Whole(s), NEW f \in Frames, NEW b, NEW c \in Contents, Ready(s, f, b)
  PROVE  LET t == ReadSnrOffsets(s, f, b, c)
         IN  Keeps(s, t) /\ (t.error = Nothing => Settled(t, f) /\ FromHeader(t, f))
<1> DEFINE sent == IF f.snr = 0 \/ b = 1 \/ c.snr THEN Offsets(f, b) ELSE {}
           read == [s EXCEPT !.recent = @ \cup sent, !.cleared = @ /\ "cplfsnr" \notin sent]
           t == ReadSnrOffsets(s, f, b, c)
<1>1. /\ DOMAIN read = Fields /\ read.error = s.error /\ read.torn = s.torn
      /\ read.chincpl = s.chincpl /\ read.given = s.given /\ read.leak = s.leak
      /\ read.first_cpl_coords = s.first_cpl_coords /\ read.first_cpl_leak = s.first_cpl_leak
      /\ read.recent = s.recent \cup sent
      /\ read.cleared <=> s.cleared /\ "cplfsnr" \notin sent
  <2> HIDE DEF sent
  <2> QED BY FieldNames DEF Whole
<1>2. t = read \/ t = Breaks(read, c, "snr")
  BY DEF ReadSnrOffsets
<1>3. f.snr \in 0 .. 3
  BY SyntaxAssumption DEF Frame
<1>4. ASSUME f.snr = 0 \/ b = 1 \/ c.snr
      PROVE  Settled(read, f) /\ FromHeader(read, f)
  <2>1. /\ "csnr" \in sent
        /\ f.snr # 3 => "fsnr" \in sent
        /\ f.snr = 0 \/ f.snr = 1 \/ (f.snr = 2 /\ CouplingInUse(f, b)) => "cplfsnr" \in sent
    BY <1>4 DEF Offsets
  <2> HIDE DEF sent, read
  <2> QED BY <1>1, <1>3, <2>1 DEF Settled, Ready, FromHeader
<1>5. ASSUME ~(f.snr = 0 \/ b = 1 \/ c.snr)
      PROVE  Settled(read, f) /\ FromHeader(read, f)
  <2>1. sent = {}
    BY <1>5
  <2> HIDE DEF sent, read
  <2> QED BY <1>1, <1>5, <2>1 DEF Settled, Ready, FromHeader
<1> HIDE DEF sent, read, t
<1>6. Settled(read, f) /\ FromHeader(read, f)
  BY <1>4, <1>5
<1>7. Keeps(s, read) /\ Keeps(read, read)
  BY <1>1 DEF Keeps, Whole, Asked
<1>8. Keeps(s, Breaks(read, c, "snr")) /\ Keeps(read, Breaks(read, c, "snr"))
  BY <1>7, BreaksKeeps DEF Stage
<1>9. Keeps(s, t) /\ (t.error = Nothing => Settled(t, f) /\ FromHeader(t, f))
  BY <1>2, <1>6, <1>7, <1>8, KeepsSettled
<1> QED BY <1>9 DEF t

LEMMA GainsKeeps ==
  ASSUME NEW s, Whole(s)
  PROVE  Keeps(s, ReadGainCodes(s)) /\ "gain" \in ReadGainCodes(s).recent
  BY FieldNames DEF Keeps, Whole, Asked, ReadGainCodes

LEMMA LeakKeeps ==
  ASSUME NEW s, Whole(s), NEW in_use, NEW c \in Contents
  PROVE  LET t == ReadCouplingLeakInfo(s, in_use, c)
         IN  Keeps(s, t) /\ (t.error = Nothing /\ in_use /\ ~t.torn => t.leak)
<1> DEFINE flagged == [s EXCEPT !.first_cpl_leak = FALSE]
           read == [flagged EXCEPT !.leak = TRUE]
           t == ReadCouplingLeakInfo(s, in_use, c)
<1>1. Keeps(s, s) /\ Keeps(s, read) /\ read.leak
  BY FieldNames DEF Keeps, Whole, Asked
<1>2. c.error # Nothing
  BY SyntaxAssumption DEF IsContent
<1>3. Whole(Fail(flagged, c.error)) /\ Fail(flagged, c.error).error # Nothing
  BY <1>2, FieldNames DEF Whole, Fail
<1>4. \/ t = s /\ ~in_use
      \/ t = s /\ ~s.first_cpl_leak
      \/ t = read
      \/ t = Fail(flagged, c.error)
  BY DEF ReadCouplingLeakInfo
<1>5. ~s.torn /\ ~s.first_cpl_leak => s.leak
  BY DEF Whole, Asked
<1> HIDE DEF flagged, read, t
<1>6. Keeps(s, t) /\ (t.error = Nothing /\ in_use /\ ~t.torn => t.leak)
  BY <1>1, <1>3, <1>4, <1>5 DEF Keeps
<1> QED BY <1>6 DEF t

LEMMA DeltaKeeps ==
  ASSUME NEW s, Whole(s), NEW c \in Contents
  PROVE  Keeps(s, ReadDeltaBitAllocation(s, c))
  BY BreaksKeeps DEF ReadDeltaBitAllocation, Keeps, Stage

LEMMA TakenKeeps ==
  ASSUME NEW s, Whole(s), NEW taken
  PROVE  Keeps(s, [s EXCEPT !.taken = taken])
  BY FieldNames DEF Keeps, Whole, Asked

LEMMA ConsumeKeeps ==
  ASSUME NEW s, Whole(s), NEW f, NEW b, NEW c \in Contents
  PROVE  Keeps(s, ConsumeBlockMantissas(s, f, b, c))
<1> DEFINE read(taken) == [s EXCEPT !.taken = taken]
<1>1. \A taken : Keeps(s, read(taken))
  BY TakenKeeps
<1>2. \/ ConsumeBlockMantissas(s, f, b, c) = Fail(s, "unsupported")
      \/ \E taken : ConsumeBlockMantissas(s, f, b, c) = Breaks(read(taken), c, "mantissas")
  BY DEF ConsumeBlockMantissas
<1> HIDE DEF read
<1> QED BY <1>1, <1>2, UnsupportedKeeps, BreaksKeeps DEF Stage

LEMMA DecodeKeeps ==
  ASSUME NEW s, Whole(s), NEW f, NEW c \in Contents
  PROVE  Keeps(s, DecodeMantissas(s, f, c))
<1> DEFINE read == [s EXCEPT !.taken = ReadIn(Parts(FirstCoupled(s)), c)]
<1>1. Keeps(s, read)
  BY TakenKeeps
<1>2. DecodeMantissas(s, f, c) = Breaks(read, c, "mantissas")
  BY DEF DecodeMantissas
<1> HIDE DEF read
<1> QED BY <1>1, <1>2, BreaksKeeps DEF Stage

\* The two that change it: the strategy may couple other channels, which are asked for already, or
\* clear the coupling, its offset included.
LEMMA StrategyWhole ==
  ASSUME NEW s, Whole(s), NEW f, NEW b, b = 1 \/ Settled(s, f), NEW c \in Contents
  PROVE  LET t == ReadCouplingStrategy(s, f, b, c)
         IN  Whole(t) /\ (t.error = Nothing => Ready(t, f, b))
<1> DEFINE begun == [s EXCEPT !.ecplinu = c.ecpl, !.chincpl = IF f.mode = "stereo" THEN Channel ELSE c.channels]
           flagged == [begun EXCEPT !.phsflginu = f.mode = "stereo" /\ c.phase]
           t == ReadCouplingStrategy(s, f, b, c)
<1>1. c.channels \subseteq Channel
  BY SyntaxAssumption DEF IsContent
<1>2. Whole(begun) /\ Whole(flagged) /\ flagged.recent = s.recent /\ (flagged.cleared <=> s.cleared)
  BY <1>1, FieldNames DEF Whole, Asked
<1>3. Whole(ClearCoupling(s)) /\ Ready(ClearCoupling(s), f, b)
  <2>1. /\ Whole(ClearCoupling(s)) /\ ClearCoupling(s).cleared
        /\ ClearCoupling(s).recent = s.recent \ {"cplfsnr"}
    BY FieldNames DEF Whole, Asked, ClearCoupling
  <2> QED BY <2>1 DEF Ready, Settled
<1>4. \/ t = s /\ b # 1
      \/ t = ClearCoupling(s)
      \/ t = Fail(begun, "unsupported")
      \/ t = Breaks(flagged, c, "strategy") /\ CouplingInUse(f, b)
  BY DEF ReadCouplingStrategy, StrategySent
<1> HIDE DEF begun, flagged, t
<1>5. Ready(flagged, f, b) \/ ~CouplingInUse(f, b)
  BY <1>2 DEF Ready, Settled
<1>6. c.error # Nothing /\ Whole(Fail(flagged, c.error)) /\ Fail(flagged, c.error).error # Nothing
  BY <1>2, SyntaxAssumption, FailWhole DEF IsContent
<1>7. /\ "unsupported" # Nothing
      /\ Whole(Fail(begun, "unsupported")) /\ Fail(begun, "unsupported").error # Nothing
  BY <1>2, SyntaxAssumption, FailWhole DEF Error
<1>8. b # 1 => Ready(s, f, b)
  BY DEF Ready
<1>9. Whole(t) /\ (t.error = Nothing => Ready(t, f, b))
  BY <1>2, <1>3, <1>4, <1>5, <1>6, <1>7, <1>8 DEF Breaks
<1> QED BY <1>9 DEF t

\* A block that was read to its end has the coordinates of all its coupled channels, and asks for those
\* of the others.
LEMMA CoordinatesWhole ==
  ASSUME NEW s, Whole(s), NEW f, NEW b, NEW c \in Contents
  PROVE  LET t == ReadCouplingCoordinates(s, f, b, c)
         IN  /\ Whole(t)
             /\ t.error = Nothing =>
                  /\ t.recent = s.recent /\ (t.cleared <=> s.cleared)
                  /\ CouplingInUse(f, b) /\ ~t.torn => t.chincpl \subseteq t.given
<1> DEFINE present == {ch \in s.chincpl : ch \in s.first_cpl_coords \/ c.coordinates}
           broken == c.breaks = "coordinates" /\ present # {}
           seen == IF broken THEN 1 .. Max(present) ELSE Channel
           first == (s.first_cpl_coords \ seen) \cup (seen \ s.chincpl)
           flagged == [s EXCEPT !.first_cpl_coords = first]
           had == s.given \cap s.chincpl
           most == [flagged EXCEPT !.given = had \cup (present \ {Max(present)})]
           all == [flagged EXCEPT !.given = had \cup present]
           t == ReadCouplingCoordinates(s, f, b, c)
<1>1. "unsupported" # Nothing /\ c.error # Nothing
  BY SyntaxAssumption DEF Error, IsContent
<1>2. \/ t = s /\ ~CouplingInUse(f, b)
      \/ t = Fail(s, "unsupported")
      \/ t = Fail(most, c.error)
      \/ t = Fail(all, "unsupported")
      \/ t = all /\ ~broken
  BY DEF ReadCouplingCoordinates
<1>3. /\ DOMAIN most = Fields /\ most.chincpl = s.chincpl
      /\ DOMAIN all = Fields /\ all.chincpl = s.chincpl
      /\ all.first_cpl_coords = first /\ all.given = had \cup present
      /\ all.torn = s.torn /\ all.leak = s.leak /\ all.first_cpl_leak = s.first_cpl_leak
      /\ all.recent = s.recent /\ (all.cleared <=> s.cleared)
  <2> HIDE DEF first, had, present
  <2> QED BY FieldNames DEF Whole
<1>4. ASSUME ~broken, ~s.torn
      PROVE  s.chincpl \subseteq had \cup present /\ Channel \subseteq first \cup had \cup present
  <2>1. first = (s.first_cpl_coords \ Channel) \cup (Channel \ s.chincpl)
    BY <1>4
  <2>2. s.chincpl \subseteq Channel /\ Channel \subseteq s.first_cpl_coords \cup s.given
    BY <1>4 DEF Whole, Asked
  <2> HIDE DEF first
  <2> QED BY <2>1, <2>2
<1> HIDE DEF broken, first, had, present, most, all, t
<1>5. ASSUME ~broken PROVE Whole(all) /\ (~all.torn => all.chincpl \subseteq all.given)
  BY <1>3, <1>4, <1>5 DEF Whole, Asked
<1>6. ASSUME NEW u \in {s, most, all}, NEW e, e # Nothing
      PROVE  Whole(Fail(u, e)) /\ Fail(u, e).error # Nothing
  <2>1. DOMAIN u = Fields /\ u.chincpl \subseteq Channel
    BY <1>3, <1>6 DEF Whole
  <2> QED BY <1>6, <2>1, FieldNames DEF Whole, Fail
<1>7. Whole(t) /\ (t.error = Nothing =>
        /\ t.recent = s.recent /\ (t.cleared <=> s.cleared)
        /\ CouplingInUse(f, b) /\ ~t.torn => t.chincpl \subseteq t.given)
  BY <1>1, <1>2, <1>3, <1>5, <1>6
<1> QED BY <1>7 DEF t

\* What a block needs stays with it.
LEMMA SuppliedKept ==
  ASSUME NEW s, NEW t, s.error = Nothing, Keeps(s, t), NEW f, NEW b, Supplied(s, f, b)
  PROVE  Whole(t) /\ Supplied(t, f, b)
<1>1. t.error = Nothing => Settled(t, f) /\ FromHeader(t, f)
  BY KeepsSettled DEF Supplied
<1> QED BY <1>1 DEF Keeps, Supplied

\* What both walkers read before the mantissas, and what they have then.
LEMMA HeadSupplied ==
  ASSUME NEW spx, Whole(spx), NEW f \in Frames, NEW b, b = 1 \/ Settled(spx, f) \/ spx.error # Nothing,
         NEW c \in Contents
  PROVE  LET delta == BeforeMantissas(spx, f, b, c) IN Whole(delta) /\ Supplied(delta, f, b)
<1> DEFINE strategy == Then(spx, ReadCouplingStrategy(spx, f, b, c))
           coordinates == Then(strategy, ReadCouplingCoordinates(strategy, f, b, c))
           exponents == Then(coordinates, ReadExponents(coordinates, f, b, c))
           snr == Then(exponents, ReadSnrOffsets(exponents, f, b, c))
           gains == Then(snr, ReadGainCodes(snr))
           leak == Then(gains, ReadCouplingLeakInfo(gains, CouplingInUse(f, b), c))
           delta == Then(leak, ReadDeltaBitAllocation(leak, c))
           Sends(s) == s.error = Nothing => Ready(s, f, b)
           Coordinated(s) == s.error = Nothing /\ CouplingInUse(f, b) /\ ~s.torn => s.chincpl \subseteq s.given
           Offset(s) == s.error = Nothing => Settled(s, f) /\ FromHeader(s, f)
           Gained(s) == s.error = Nothing => Settled(s, f) /\ FromHeader(s, f) /\ "gain" \in s.recent
<1>1. Whole(strategy) /\ Sends(strategy)
  BY StrategyWhole DEF Then
<1>2. Whole(coordinates) /\ Sends(coordinates) /\ Coordinated(coordinates)
  <2> HIDE DEF strategy
  <2>1. CASE strategy.error = Nothing
    <3> DEFINE t == ReadCouplingCoordinates(strategy, f, b, c)
    <3>1. /\ coordinates = t /\ Whole(t)
          /\ t.error = Nothing =>
               /\ t.recent = strategy.recent /\ (t.cleared <=> strategy.cleared)
               /\ CouplingInUse(f, b) /\ ~t.torn => t.chincpl \subseteq t.given
      BY <1>1, <2>1, CoordinatesWhole DEF Then
    <3> HIDE DEF t, coordinates
    <3> QED BY <1>1, <2>1, <3>1 DEF Ready, Settled
  <2>2. CASE strategy.error # Nothing
    BY <1>1, <2>2 DEF Then
  <2> QED BY <2>1, <2>2
<1>3. Whole(exponents) /\ Sends(exponents) /\ Coordinated(exponents)
  <2> HIDE DEF coordinates
  <2>1. CASE coordinates.error = Nothing
    <3>1. exponents = ReadExponents(coordinates, f, b, c) /\ Keeps(coordinates, exponents)
      BY <1>2, <2>1, ExponentsKeeps DEF Then
    <3> HIDE DEF exponents
    <3>2. exponents.error = Nothing => Ready(exponents, f, b)
      BY <1>2, <2>1, <3>1, KeepsSettled
    <3> QED BY <1>2, <2>1, <3>1, <3>2 DEF Keeps
  <2>2. CASE coordinates.error # Nothing
    BY <1>2, <2>2 DEF Then
  <2> QED BY <2>1, <2>2
<1>4. Whole(snr) /\ Offset(snr) /\ Coordinated(snr)
  <2> HIDE DEF exponents
  <2>1. CASE exponents.error = Nothing
    <3> DEFINE t == ReadSnrOffsets(exponents, f, b, c)
    <3>1. snr = t /\ Keeps(exponents, t) /\ (t.error = Nothing => Settled(t, f) /\ FromHeader(t, f))
      BY <1>3, <2>1, OffsetsKeeps DEF Then
    <3> HIDE DEF t, snr
    <3> QED BY <1>3, <2>1, <3>1 DEF Keeps
  <2>2. CASE exponents.error # Nothing
    BY <1>3, <2>2 DEF Then
  <2> QED BY <2>1, <2>2
<1>5. Whole(gains) /\ Gained(gains) /\ Coordinated(gains)
  <2> HIDE DEF snr
  <2>1. CASE snr.error = Nothing
    <3>1. gains = ReadGainCodes(snr) /\ Keeps(snr, gains) /\ "gain" \in gains.recent
      BY <1>4, <2>1, GainsKeeps DEF Then
    <3> HIDE DEF gains
    <3>2. gains.error = Nothing => Settled(gains, f) /\ FromHeader(gains, f)
      BY <1>4, <2>1, <3>1, KeepsSettled
    <3> QED BY <1>4, <2>1, <3>1, <3>2 DEF Keeps
  <2>2. CASE snr.error # Nothing
    BY <1>4, <2>2 DEF Then
  <2> QED BY <2>1, <2>2
<1>6. Whole(leak) /\ Supplied(leak, f, b)
  <2> HIDE DEF gains
  <2>1. CASE gains.error = Nothing
    <3> DEFINE t == ReadCouplingLeakInfo(gains, CouplingInUse(f, b), c)
    <3>1. /\ leak = t /\ Keeps(gains, t)
          /\ t.error = Nothing /\ CouplingInUse(f, b) /\ ~t.torn => t.leak
      BY <1>5, <2>1, LeakKeeps DEF Then
    <3> HIDE DEF t, leak
    <3>2. t.error = Nothing => Settled(t, f) /\ FromHeader(t, f)
      BY <1>5, <2>1, <3>1, KeepsSettled
    <3> QED BY <1>5, <2>1, <3>1, <3>2 DEF Keeps, Supplied
  <2>2. CASE gains.error # Nothing
    BY <1>5, <2>2 DEF Then, Supplied
  <2> QED BY <2>1, <2>2
<1>7. Whole(delta) /\ Supplied(delta, f, b)
  <2> HIDE DEF leak
  <2>1. CASE leak.error = Nothing
    <3>1. Keeps(leak, delta)
      BY <1>6, <2>1, DeltaKeeps DEF Then
    <3> HIDE DEF delta
    <3> QED BY <1>6, <2>1, <3>1, SuppliedKept
  <2>2. CASE leak.error # Nothing
    BY <1>6, <2>2 DEF Then
  <2> QED BY <2>1, <2>2
<1>8. BeforeMantissas(spx, f, b, c) = delta
  BY DEF BeforeMantissas
<1> QED BY <1>7, <1>8

LEMMA ParseSupplied ==
  ASSUME NEW s, Whole(s), NEW f \in Frames, NEW b, b = 1 \/ Settled(s, f), NEW c \in Contents, NEW consume
  PROVE  LET t == ParseBlock(s, f, b, c, consume) IN Whole(t) /\ Supplied(t, f, b)
<1> DEFINE fresh == [s EXCEPT !.taken = NoneTaken]
           spx == ReadSpx(fresh, b, c)
           delta == BeforeMantissas(spx, f, b, c)
           t == ParseBlock(s, f, b, c, consume)
<1>1. Whole(spx) /\ (b = 1 \/ Settled(spx, f) \/ spx.error # Nothing)
  <2>1. Keeps(s, fresh) /\ Whole(fresh) /\ (Settled(s, f) => Settled(fresh, f))
    BY TakenKeeps, FieldNames DEF Keeps, Whole, Settled
  <2> HIDE DEF fresh
  <2>2. Keeps(fresh, spx)
    BY <2>1, SpxKeeps
  <2> HIDE DEF spx
  <2> QED BY <2>1, <2>2, KeepsSettled DEF Keeps
<1>2. t = IF consume THEN Then(delta, ConsumeBlockMantissas(delta, f, b, c)) ELSE delta
  BY WalkersShape
<1>3. Whole(delta) /\ Supplied(delta, f, b)
  <2> HIDE DEF spx
  <2> QED BY <1>1, HeadSupplied
<1> HIDE DEF delta, t
<1>4. LET u == Then(delta, ConsumeBlockMantissas(delta, f, b, c))
      IN  Whole(u) /\ Supplied(u, f, b)
  BY <1>3, ConsumeKeeps, SuppliedKept DEF Then
<1>5. Whole(t) /\ Supplied(t, f, b)
  BY <1>2, <1>3, <1>4
<1> QED BY <1>5 DEF t

LEMMA DecodeSupplied ==
  ASSUME NEW s, Whole(s), NEW f \in Frames, NEW b, b = 1 \/ Settled(s, f), NEW c \in Contents
  PROVE  LET t == DecodeBlock(s, f, b, c) IN Whole(t) /\ Supplied(t, f, b)
<1> DEFINE fresh == [s EXCEPT !.taken = NoneTaken]
           spx == ReadSpx(fresh, b, c)
           stopped == IF spx.spx THEN Fail(spx, "unsupported") ELSE spx
           delta == BeforeMantissas(stopped, f, b, c)
           t == DecodeBlock(s, f, b, c)
<1>1. Whole(stopped) /\ (b = 1 \/ Settled(stopped, f) \/ stopped.error # Nothing)
  <2>1. Keeps(s, fresh) /\ Whole(fresh) /\ (Settled(s, f) => Settled(fresh, f))
    BY TakenKeeps, FieldNames DEF Keeps, Whole, Settled
  <2> HIDE DEF fresh
  <2>2. Keeps(fresh, spx)
    BY <2>1, SpxKeeps
  <2> HIDE DEF spx
  <2>3. Whole(spx) /\ (b = 1 \/ Settled(spx, f) \/ spx.error # Nothing)
    BY <2>1, <2>2, KeepsSettled DEF Keeps
  <2>4. "unsupported" # Nothing
    BY SyntaxAssumption DEF Error
  <2> QED BY <2>3, <2>4, FailWhole
<1>2. t = Then(delta, DecodeMantissas(delta, f, c))
  BY WalkersShape
<1>3. Whole(delta) /\ Supplied(delta, f, b)
  <2> HIDE DEF stopped
  <2> QED BY <1>1, HeadSupplied
<1> HIDE DEF delta, t
<1>4. Whole(t) /\ Supplied(t, f, b)
  BY <1>2, <1>3, DecodeKeeps, SuppliedKept DEF Then
<1> QED BY <1>4 DEF t

\* All readers, at rest and in the frame, and what they read of the blocks so far; a frame without
\* skip fields is not walked.
SupplyInv ==
  /\ Whole(aux) /\ Whole(walk) /\ Whole(core) /\ Whole(next)
  /\ frame \in Frames \cup {Nothing}
  /\ frame # Nothing =>
       /\ Walking => frame.skip_fields
       /\ frame.skip_fields /\ walked > 0 => Supplied(walk, frame, walked)
       /\ decoded > 0 => Supplied(next, frame, decoded)

LEMMA NewWhole == Whole(New)
  BY DEF Whole, Asked, Fields, New

LEMMA RestedWhole ==
  ASSUME NEW s, Whole(s)
  PROVE  Whole(Rested(s))
  BY FieldNames DEF Whole, Asked, Rested

LEMMA WalkSupplied ==
  ASSUME IInv, SupplyInv, Walking, NEW c \in Contents, Walk(c)
  PROVE  frame.skip_fields /\ Whole(walk') /\ Supplied(walk', frame, walked')
<1>1. frame.skip_fields
  BY DEF SupplyInv, Walking
<1>2. frame \in Frames /\ (walked + 1 = 1 \/ Settled(walk, frame))
  BY <1>1 DEF IInv, SupplyInv, Supplied, Walking
<1> QED BY <1>1, <1>2, ParseSupplied DEF Walk, SupplyInv

LEMMA CoreSupplied ==
  ASSUME IInv, SupplyInv, Decoding, NEW c \in Contents, Decode(c)
  PROVE  Whole(next') /\ Supplied(next', frame, decoded')
<1>1. frame \in Frames /\ (decoded + 1 = 1 \/ Settled(next, frame))
  BY DEF IInv, SupplyInv, Supplied, Decoding
<1> QED BY <1>1, DecodeSupplied DEF Decode, SupplyInv

LEMMA SupplyDone ==
  ASSUME SupplyInv, FrameDone, core' = core \/ core' = Rested(next)
  PROVE  SupplyInv'
  BY NewWhole, RestedWhole DEF SupplyInv, FrameDone, Whole, Asked

LEMMA SupplyStep ==
  ASSUME IInv, SupplyInv, [Next]_vars
  PROVE  SupplyInv'
<1>1. ASSUME NEW f \in Frames, Begin(f) PROVE SupplyInv'
  <2>1. /\ aux' = aux \/ aux' = Prepared(aux, aux_layout, f)
        /\ walk' = aux' \/ walk' = New
        /\ next' = Prepared(core, core_layout, f) /\ core' = core
        /\ frame' = f /\ decoded' = 0
        /\ IF f.skip_fields THEN walked' = 0 ELSE walked' = Blocks(f)
    BY <1>1 DEF Begin
  <2>2. Whole(aux') /\ Whole(walk') /\ Whole(next')
    BY <2>1, NewWhole DEF SupplyInv, Prepared
  <2>3. Blocks(f) \in Nat
    BY SyntaxAssumption DEF Frame, Blocks
  <2>4. Walking' => f.skip_fields
    BY <2>1, <2>3 DEF Walking, Blocks
  <2>5. f.skip_fields => ~(walked' > 0)
    BY <2>1
  <2> QED BY <2>1, <2>2, <2>4, <2>5 DEF SupplyInv, Whole, Asked, Supplied
<1>2. ASSUME NEW c \in Contents, BothBlocks(c) PROVE SupplyInv'
  <2>1. Walking /\ Decoding /\ Walk(c) /\ Decode(c) /\ UNCHANGED <<aux, core, frame>>
    BY <1>2 DEF BothBlocks, kept
  <2> QED BY <2>1, WalkSupplied, CoreSupplied DEF SupplyInv, Whole, Asked, Supplied
<1>3. ASSUME NEW c \in Contents, WalkBlock(c) PROVE SupplyInv'
  <2>1. Walking /\ Walk(c) /\ UNCHANGED <<aux, core, frame, next, decoded>>
    BY <1>3 DEF WalkBlock, kept
  <2> QED BY <2>1, WalkSupplied DEF SupplyInv, Whole, Asked, Supplied
<1>4. ASSUME NEW c \in Contents, CoreBlock(c) PROVE SupplyInv'
  <2>1. Decoding /\ Decode(c) /\ UNCHANGED <<aux, core, frame, walk, walked, inspected>>
    BY <1>4 DEF CoreBlock, kept
  <2> QED BY <2>1, CoreSupplied DEF Walking, SupplyInv, Whole, Asked, Supplied
<1>5. CASE Inspect
  <2>1. Whole(Committed)
    BY RestedWhole DEF Committed, SupplyInv
  <2>2. /\ aux' = Committed /\ walk' = New /\ walked' = 0
        /\ UNCHANGED <<core, frame, next, decoded>> /\ inspected'
    BY <1>5 DEF Inspect
  <2> QED BY <2>1, <2>2, NewWhole DEF Walking, SupplyInv, Whole, Asked, Supplied
<1>6. CASE Reject
  BY <1>6, SupplyDone DEF Reject
<1>7. CASE InspectOnly
  BY <1>7, SupplyDone DEF InspectOnly
<1>8. CASE DecodeFrame
  BY <1>8, SupplyDone DEF DecodeFrame
<1>9. CASE Reset
  BY <1>9, NewWhole DEF Reset, reading, Walking, SupplyInv, Whole, Asked, Supplied
<1>10. CASE UNCHANGED vars
  BY <1>10 DEF vars, kept, reading, Walking, SupplyInv, Whole, Asked, Supplied
<1> QED BY <1>1, <1>2, <1>3, <1>4, <1>5, <1>6, <1>7, <1>8, <1>9, <1>10 DEF Next

LEMMA SupplyAlways == Spec => []SupplyInv
<1>1. Init => SupplyInv
  BY NewWhole DEF Init, SupplyInv
<1>2. IInv /\ SupplyInv /\ [Next]_vars => SupplyInv'
  BY SupplyStep
<1> QED BY <1>1, <1>2, Invariance, PTL DEF Spec

\* What coupled mantissas are scaled by was read since the coupling began, coordinates and leak;
\* except after a block that broke.
THEOREM NothingStaysUnread == Spec => []NothingUnread
<1>1. SupplyInv => NothingUnread
  BY DEF SupplyInv, NothingUnread, Passed, Supplied
<1> QED BY <1>1, SupplyAlways, PTL

\* Offsets and gains are those of the frame, whatever strategy sends them; a coupling that begins
\* where none are sent goes by zero.
THEOREM OffsetsStayInFrame == Spec => []OffsetsOfThisFrame
<1>1. SupplyInv => OffsetsOfThisFrame
  <2>1. ASSUME NEW s, NEW b, s.error = Nothing, Supplied(s, frame, b)
        PROVE  /\ {"csnr", "gain"} \subseteq s.recent
               /\ frame.snr # 3 => "fsnr" \in s.recent
               /\ CouplingInUse(frame, b) =>
                  frame.snr = 3 \/ "cplfsnr" \in s.recent \/ (frame.snr # 0 /\ s.cleared)
    BY <2>1 DEF Supplied, Settled, FromHeader
  <2> QED BY <2>1 DEF SupplyInv, OffsetsOfThisFrame, Passed
<1> QED BY <1>1, SupplyAlways, PTL

----------------------------------------------------------------------------
(***************************************************************************)
(* What a block leaves is well formed, and only read_spx turns spectral    *)
(* extension on or off.                                                    *)
(***************************************************************************)

LEMMA FailTyped ==
  ASSUME NEW s \in Syntax, NEW e \in Error
  PROVE  Fail(s, e) \in Syntax /\ Fail(s, e).spx = s.spx /\ Fail(s, e).error # Nothing
<1>1. e # Nothing
  BY SyntaxAssumption
<1> QED BY <1>1 DEF Fail, Syntax

LEMMA BreaksTyped ==
  ASSUME NEW s \in Syntax, NEW c \in Contents, NEW stage
  PROVE  Breaks(s, c, stage) \in Syntax /\ Breaks(s, c, stage).spx = s.spx
<1>1. c.error \in Error
  BY SyntaxAssumption DEF IsContent
<1> QED BY <1>1, FailTyped DEF Breaks

LEMMA SpxTyped ==
  ASSUME NEW s \in Syntax, NEW b, NEW c \in Contents
  PROVE  ReadSpx(s, b, c) \in Syntax
<1> DEFINE on == IF c.spx = "on" THEN TRUE ELSE IF c.spx = "keep" /\ b # 1 THEN s.spx ELSE FALSE
           read == [s EXCEPT !.spx = on]
<1>1. on \in BOOLEAN
  BY DEF Syntax
<1>2. ReadSpx(s, b, c) = Breaks(read, c, "spx")
  BY DEF ReadSpx
<1> HIDE DEF on
<1>3. read \in Syntax
  BY <1>1 DEF Syntax
<1> HIDE DEF read
<1> QED BY <1>2, <1>3, BreaksTyped

LEMMA ClearTyped ==
  ASSUME NEW s \in Syntax
  PROVE  ClearCoupling(s) \in Syntax /\ ClearCoupling(s).spx = s.spx
  BY DEF ClearCoupling, Syntax

LEMMA StrategyTyped ==
  ASSUME NEW s \in Syntax, NEW f, NEW b, NEW c \in Contents
  PROVE  ReadCouplingStrategy(s, f, b, c) \in Syntax /\ ReadCouplingStrategy(s, f, b, c).spx = s.spx
<1> DEFINE begun == [s EXCEPT !.ecplinu = c.ecpl, !.chincpl = IF f.mode = "stereo" THEN Channel ELSE c.channels]
           flagged == [begun EXCEPT !.phsflginu = f.mode = "stereo" /\ c.phase]
           t == ReadCouplingStrategy(s, f, b, c)
<1>1. c.channels \subseteq Channel /\ c.ecpl \in BOOLEAN /\ c.phase \in BOOLEAN
  BY SyntaxAssumption DEF IsContent
<1>2. begun \in Syntax /\ begun.spx = s.spx
  BY <1>1 DEF Syntax
<1>3. flagged \in Syntax /\ flagged.spx = s.spx
  <2> HIDE DEF begun
  <2> QED BY <1>2 DEF Syntax
<1>4. t = s \/ t = ClearCoupling(s) \/ t = Fail(begun, "unsupported") \/ t = Breaks(flagged, c, "strategy")
  BY DEF ReadCouplingStrategy
<1>5. "unsupported" \in Error
  BY DEF Error
<1> HIDE DEF begun, flagged, t
<1>6. t \in Syntax /\ t.spx = s.spx
  BY <1>2, <1>3, <1>4, <1>5, ClearTyped, FailTyped, BreaksTyped
<1> QED BY <1>6 DEF t

\* Of some channels there is a last and a first one.
LEMMA LastChannel ==
  ASSUME NEW S \in SUBSET Channel, S # {}
  PROVE  Max(S) \in Channel /\ Min(S) \in Channel
<1>1. N \in Nat /\ Channel = 1 .. N
  BY SyntaxAssumption DEF Channel
<1> DEFINE T == {x \in 0 .. N : N - x \in S}
<1>2. S \subseteq Nat /\ T \subseteq Nat
  BY <1>1
<1>3. T # {}
  <2>1. PICK y \in S : TRUE
    OBVIOUS
  <2>2. N - y \in 0 .. N /\ N - (N - y) = y
    BY <1>1
  <2> QED BY <2>1, <2>2
<1>4. PICK x \in S : \A y \in S : ~(<<y, x>> \in OpToRel(<, Nat))
  BY <1>2, NatLessThanWellFounded, WFMin
<1>5. PICK z \in T : \A y \in T : ~(<<y, z>> \in OpToRel(<, Nat))
  <2> HIDE DEF T
  <2> QED BY <1>2, <1>3, NatLessThanWellFounded, WFMin
<1>6. ASSUME NEW i \in Nat, NEW j \in Nat, i < j PROVE <<i, j>> \in OpToRel(<, Nat)
  <2> DEFINE pair == <<i, j>>
  <2>1. pair \in Nat \X Nat /\ pair[1] = i /\ pair[2] = j
    OBVIOUS
  <2> HIDE DEF pair
  <2>2. pair \in OpToRel(<, Nat)
    BY <1>6, <2>1 DEF OpToRel
  <2> QED BY <2>2 DEF pair
<1>7. ASSUME NEW y \in S PROVE x <= y
  <2>1. x \in Nat /\ y \in Nat
    BY <1>2
  <2>2. ~(<<y, x>> \in OpToRel(<, Nat))
    BY <1>4
  <2>3. ~(y < x)
    BY <1>6, <2>1, <2>2
  <2> QED BY <2>1, <2>3
<1>8. \A y \in S : N - z >= y
  <2> SUFFICES ASSUME NEW y \in S, ~(N - z >= y) PROVE FALSE
    OBVIOUS
  <2>1. N - y \in T /\ N - y < z /\ z \in Nat
    BY <1>1
  <2> HIDE DEF T
  <2> QED BY <1>2, <1>5, <1>6, <2>1
<1>9. Min(S) \in S
  BY <1>7 DEF Min
<1>10. N - z \in S
  OBVIOUS
<1>11. Max(S) \in S
  <2> HIDE DEF T
  <2> QED BY <1>8, <1>10 DEF Max
<1> QED BY <1>9, <1>11

LEMMA CoordinatesTyped ==
  ASSUME NEW s \in Syntax, NEW f, NEW b, NEW c \in Contents
  PROVE  ReadCouplingCoordinates(s, f, b, c) \in Syntax /\ ReadCouplingCoordinates(s, f, b, c).spx = s.spx
<1> DEFINE present == {ch \in s.chincpl : ch \in s.first_cpl_coords \/ c.coordinates}
           broken == c.breaks = "coordinates" /\ present # {}
           seen == IF broken THEN 1 .. Max(present) ELSE Channel
           flagged == [s EXCEPT !.first_cpl_coords = (@ \ seen) \cup (seen \ s.chincpl)]
           had == s.given \cap s.chincpl
           most == [flagged EXCEPT !.given = had \cup (present \ {Max(present)})]
           all == [flagged EXCEPT !.given = had \cup present]
           t == ReadCouplingCoordinates(s, f, b, c)
<1>1. s.chincpl \subseteq Channel /\ s.given \subseteq Channel /\ s.first_cpl_coords \subseteq Channel
  BY DEF Syntax
<1>2. present \subseteq Channel /\ had \subseteq Channel
  BY <1>1
<1>3. seen \subseteq Channel
  <2>1. CASE broken
    <3>1. Max(present) \in Channel
      BY <1>2, <2>1, LastChannel
    <3>2. N \in Nat
      BY SyntaxAssumption
    <3> DEFINE last == Max(present)
    <3>3. last \in 1 .. N /\ seen = 1 .. last
      BY <2>1, <3>1 DEF Channel
    <3> HIDE DEF last, seen
    <3> QED BY <3>2, <3>3 DEF Channel
  <2> QED BY <2>1
<1>4. c.error \in Error /\ "unsupported" \in Error
  BY SyntaxAssumption DEF IsContent, Error
<1>5. \/ t = s
      \/ t = Fail(s, "unsupported")
      \/ t = Fail(most, c.error)
      \/ t = Fail(all, "unsupported")
      \/ t = all
  BY DEF ReadCouplingCoordinates
<1> HIDE DEF present, seen, had
<1>6. flagged \in Syntax /\ flagged.spx = s.spx
  BY <1>1, <1>3 DEF Syntax
<1>7. most \in Syntax /\ most.spx = s.spx /\ all \in Syntax /\ all.spx = s.spx
  <2> HIDE DEF flagged
  <2> QED BY <1>2, <1>6 DEF Syntax
<1> HIDE DEF broken, flagged, most, all, t
<1>8. t \in Syntax /\ t.spx = s.spx
  BY <1>4, <1>5, <1>7, FailTyped
<1> QED BY <1>8 DEF t

LEMMA ExponentsTyped ==
  ASSUME NEW s \in Syntax, NEW f, NEW b, NEW c \in Contents
  PROVE  ReadExponents(s, f, b, c) \in Syntax /\ ReadExponents(s, f, b, c).spx = s.spx
<1>1. "unsupported" \in Error
  BY DEF Error
<1> QED BY <1>1, FailTyped, BreaksTyped DEF ReadExponents

LEMMA OffsetsTyped ==
  ASSUME NEW s \in Syntax, NEW f, NEW b, NEW c \in Contents
  PROVE  ReadSnrOffsets(s, f, b, c) \in Syntax /\ ReadSnrOffsets(s, f, b, c).spx = s.spx
<1> DEFINE sent == IF f.snr = 0 \/ b = 1 \/ c.snr THEN Offsets(f, b) ELSE {}
           read == [s EXCEPT !.recent = @ \cup sent, !.cleared = @ /\ "cplfsnr" \notin sent]
<1>1. sent \subseteq {"csnr", "fsnr", "cplfsnr", "gain"}
  BY DEF Offsets
<1>2. read \in Syntax /\ read.spx = s.spx
  <2> HIDE DEF sent
  <2> QED BY <1>1 DEF Syntax
<1>3. ReadSnrOffsets(s, f, b, c) = read \/ ReadSnrOffsets(s, f, b, c) = Breaks(read, c, "snr")
  BY DEF ReadSnrOffsets
<1> HIDE DEF read
<1> QED BY <1>2, <1>3, BreaksTyped

LEMMA GainsTyped ==
  ASSUME NEW s \in Syntax
  PROVE  ReadGainCodes(s) \in Syntax /\ ReadGainCodes(s).spx = s.spx
  BY DEF ReadGainCodes, Syntax

LEMMA LeakTyped ==
  ASSUME NEW s \in Syntax, NEW in_use, NEW c \in Contents
  PROVE  ReadCouplingLeakInfo(s, in_use, c) \in Syntax /\ ReadCouplingLeakInfo(s, in_use, c).spx = s.spx
<1> DEFINE flagged == [s EXCEPT !.first_cpl_leak = FALSE]
           read == [flagged EXCEPT !.leak = TRUE]
           t == ReadCouplingLeakInfo(s, in_use, c)
<1>1. flagged \in Syntax /\ flagged.spx = s.spx /\ read \in Syntax /\ read.spx = s.spx
  BY DEF Syntax
<1>2. t = s \/ t = read \/ t = Fail(flagged, c.error)
  BY DEF ReadCouplingLeakInfo
<1>3. c.error \in Error
  BY SyntaxAssumption DEF IsContent
<1> HIDE DEF flagged, read, t
<1>4. t \in Syntax /\ t.spx = s.spx
  BY <1>1, <1>2, <1>3, FailTyped
<1> QED BY <1>4 DEF t

LEMMA DeltaTyped ==
  ASSUME NEW s \in Syntax, NEW c \in Contents
  PROVE  ReadDeltaBitAllocation(s, c) \in Syntax /\ ReadDeltaBitAllocation(s, c).spx = s.spx
  BY BreaksTyped DEF ReadDeltaBitAllocation

LEMMA TakenTyped ==
  ASSUME NEW s \in Syntax, NEW taken \in Taken
  PROVE  [s EXCEPT !.taken = taken] \in Syntax /\ [s EXCEPT !.taken = taken].spx = s.spx
  BY DEF Syntax, Taken

LEMMA NoneTyped == NoneTaken \in Taken
  BY DEF NoneTaken, Taken, NewBlock, Positions, PerGroup, Grouped

\* The first coupled channel is a channel, if there is one.
LEMMA FirstTyped ==
  ASSUME NEW s \in Syntax
  PROVE  FirstCoupled(s) \in Channel \cup {Nothing}
<1>1. s.chincpl \subseteq Channel
  BY DEF Syntax
<1> QED BY <1>1, LastChannel DEF FirstCoupled

LEMMA ConsumeTyped ==
  ASSUME NEW s \in Syntax, NEW f, NEW b, NEW c \in Contents
  PROVE  ConsumeBlockMantissas(s, f, b, c) \in Syntax
<1> DEFINE first == IF CouplingInUse(f, b) THEN FirstCoupled(s) ELSE Nothing
           read == [s EXCEPT !.taken = CountedIn(Parts(first), c)]
<1>1. first \in Channel \cup {Nothing}
  BY FirstTyped
<1>2. ConsumeBlockMantissas(s, f, b, c) = IF s.spx THEN Fail(s, "unsupported") ELSE Breaks(read, c, "mantissas")
  BY DEF ConsumeBlockMantissas
<1> HIDE DEF first
<1>3. read \in Syntax
  BY <1>1, PartsOfBlock, PartsAsCounted, TakenTyped
<1>4. "unsupported" \in Error
  BY DEF Error
<1> HIDE DEF read
<1> QED BY <1>2, <1>3, <1>4, FailTyped, BreaksTyped

LEMMA DecodeTyped ==
  ASSUME NEW s \in Syntax, NEW f, NEW c \in Contents
  PROVE  DecodeMantissas(s, f, c) \in Syntax
<1> DEFINE read == [s EXCEPT !.taken = ReadIn(Parts(FirstCoupled(s)), c)]
<1>1. read \in Syntax
  BY FirstTyped, PartsOfBlock, PartsAsCounted, TakenTyped
<1>2. DecodeMantissas(s, f, c) = Breaks(read, c, "mantissas")
  BY DEF DecodeMantissas
<1> HIDE DEF read
<1> QED BY <1>1, <1>2, BreaksTyped

LEMMA ThenTyped ==
  ASSUME NEW s \in Syntax, NEW t \in Syntax, t.spx = s.spx
  PROVE  Then(s, t) \in Syntax /\ Then(s, t).spx = s.spx
  BY DEF Then

\* A block up to its mantissas, and to its end.
LEMMA HeadTyped ==
  ASSUME NEW spx \in Syntax, NEW f, NEW b, NEW c \in Contents
  PROVE  BeforeMantissas(spx, f, b, c) \in Syntax /\ BeforeMantissas(spx, f, b, c).spx = spx.spx
<1> DEFINE strategy == Then(spx, ReadCouplingStrategy(spx, f, b, c))
           coordinates == Then(strategy, ReadCouplingCoordinates(strategy, f, b, c))
           exponents == Then(coordinates, ReadExponents(coordinates, f, b, c))
           snr == Then(exponents, ReadSnrOffsets(exponents, f, b, c))
           gains == Then(snr, ReadGainCodes(snr))
           leak == Then(gains, ReadCouplingLeakInfo(gains, CouplingInUse(f, b), c))
           delta == Then(leak, ReadDeltaBitAllocation(leak, c))
<1>1. strategy \in Syntax /\ strategy.spx = spx.spx
  BY StrategyTyped, ThenTyped
<1>2. coordinates \in Syntax /\ coordinates.spx = spx.spx
  <2> HIDE DEF strategy
  <2> QED BY <1>1, CoordinatesTyped, ThenTyped
<1>3. exponents \in Syntax /\ exponents.spx = spx.spx
  <2> HIDE DEF coordinates
  <2> QED BY <1>2, ExponentsTyped, ThenTyped
<1>4. snr \in Syntax /\ snr.spx = spx.spx
  <2> HIDE DEF exponents
  <2> QED BY <1>3, OffsetsTyped, ThenTyped
<1>5. gains \in Syntax /\ gains.spx = spx.spx
  <2> HIDE DEF snr
  <2> QED BY <1>4, GainsTyped, ThenTyped
<1>6. leak \in Syntax /\ leak.spx = spx.spx
  <2> HIDE DEF gains
  <2> QED BY <1>5, LeakTyped, ThenTyped
<1>7. delta \in Syntax /\ delta.spx = spx.spx
  <2> HIDE DEF leak
  <2> QED BY <1>6, DeltaTyped, ThenTyped
<1>8. BeforeMantissas(spx, f, b, c) = delta
  BY DEF BeforeMantissas
<1> QED BY <1>7, <1>8

LEMMA BlockTyped ==
  ASSUME NEW s \in Syntax, NEW f, NEW b, NEW c \in Contents, NEW consume
  PROVE  ParseBlock(s, f, b, c, consume) \in Syntax /\ DecodeBlock(s, f, b, c) \in Syntax
<1> DEFINE fresh == [s EXCEPT !.taken = NoneTaken]
           spx == ReadSpx(fresh, b, c)
           stopped == IF spx.spx THEN Fail(spx, "unsupported") ELSE spx
           parsed == BeforeMantissas(spx, f, b, c)
           read == BeforeMantissas(stopped, f, b, c)
<1>1. spx \in Syntax
  <2>1. fresh \in Syntax
    BY NoneTyped, TakenTyped
  <2> HIDE DEF fresh
  <2> QED BY <2>1, SpxTyped
<1>2. /\ ParseBlock(s, f, b, c, consume) = IF consume THEN Then(parsed, ConsumeBlockMantissas(parsed, f, b, c)) ELSE parsed
      /\ DecodeBlock(s, f, b, c) = Then(read, DecodeMantissas(read, f, c))
  BY WalkersShape
<1>3. stopped \in Syntax
  <2>1. "unsupported" \in Error
    BY DEF Error
  <2> HIDE DEF spx
  <2> QED BY <1>1, <2>1, FailTyped
<1> HIDE DEF spx, stopped
<1>4. parsed \in Syntax /\ read \in Syntax
  BY <1>1, <1>3, HeadTyped
<1> HIDE DEF parsed, read
<1> QED BY <1>2, <1>4, ConsumeTyped, DecodeTyped DEF Then

\* A block that couples channels only if it uses coupling is read to the same end by both walkers,
\* from the same state: they break off it together, or find the same.
LEMMA BlockAlike ==
  ASSUME NEW s \in Syntax, NEW f, NEW b, NEW c \in Contents,
         LET t == ParseBlock(s, f, b, c, FALSE) IN t.error = Nothing /\ t.chincpl # {} => CouplingInUse(f, b)
  PROVE  LET t == ParseBlock(s, f, b, c, TRUE)
             u == DecodeBlock(s, f, b, c)
         IN  (t.error = Nothing) = (u.error = Nothing) /\ (t.error = Nothing => t = u)
<1> DEFINE fresh == [s EXCEPT !.taken = NoneTaken]
           spx == ReadSpx(fresh, b, c)
           stopped == IF spx.spx THEN Fail(spx, "unsupported") ELSE spx
           parsed == BeforeMantissas(spx, f, b, c)
           read == BeforeMantissas(stopped, f, b, c)
           t == ParseBlock(s, f, b, c, TRUE)
           u == DecodeBlock(s, f, b, c)
<1>1. spx \in Syntax
  <2>1. fresh \in Syntax
    BY NoneTyped, TakenTyped
  <2> HIDE DEF fresh
  <2> QED BY <2>1, SpxTyped
<1>2. /\ t = Then(parsed, ConsumeBlockMantissas(parsed, f, b, c))
      /\ u = Then(read, DecodeMantissas(read, f, c))
      /\ ParseBlock(s, f, b, c, FALSE) = parsed
  <2>1. \A consume : ParseBlock(s, f, b, c, consume) = IF consume THEN Then(parsed, ConsumeBlockMantissas(parsed, f, b, c)) ELSE parsed
    BY WalkersShape
  <2>2. DecodeBlock(s, f, b, c) = Then(read, DecodeMantissas(read, f, c))
    BY WalkersShape
  <2> HIDE DEF parsed, read
  <2> QED BY <2>1, <2>2
<1>3. parsed.error = Nothing /\ parsed.chincpl # {} => CouplingInUse(f, b)
  BY <1>2
<1>4. "unsupported" \in Error
  BY DEF Error
<1> SUFFICES (t.error = Nothing) = (u.error = Nothing) /\ (t.error = Nothing => t = u)
  OBVIOUS
<1> HIDE DEF t, u, spx
<1>5. parsed \in Syntax /\ parsed.spx = spx.spx
  BY <1>1, HeadTyped
<1>6. CASE spx.spx
  <2>1. stopped.error # Nothing
    BY <1>1, <1>4, <1>6, FailTyped
  <2> HIDE DEF stopped
  <2>2. read = stopped
    BY <2>1, HeadFailed
  <2>3. u.error # Nothing
    BY <1>2, <2>1, <2>2 DEF Then
  <2> HIDE DEF parsed
  <2>4. ConsumeBlockMantissas(parsed, f, b, c) = Fail(parsed, "unsupported")
    BY <1>5, <1>6 DEF ConsumeBlockMantissas
  <2>5. t.error # Nothing
    BY <1>2, <1>4, <1>5, <2>4, FailTyped DEF Then
  <2> QED BY <2>3, <2>5
<1>7. CASE ~spx.spx
  <2>1. read = parsed
    BY <1>7
  <2> HIDE DEF parsed, read
  <2>2. CASE parsed.error # Nothing
    BY <1>2, <2>1, <2>2 DEF Then
  <2>3. CASE parsed.error = Nothing
    <3> DEFINE first == IF CouplingInUse(f, b) THEN FirstCoupled(parsed) ELSE Nothing
    <3>1. first = FirstCoupled(parsed)
      BY <1>3, <2>3 DEF FirstCoupled
    <3>2. FirstCoupled(parsed) \in Channel \cup {Nothing}
      BY <1>5, FirstTyped
    <3>3. ReadIn(Parts(FirstCoupled(parsed)), c) = CountedIn(Parts(first), c)
      BY <3>1, <3>2, PartsOfBlock, PartsAsCounted
    <3>4. ConsumeBlockMantissas(parsed, f, b, c) = Breaks([parsed EXCEPT !.taken = CountedIn(Parts(first), c)], c, "mantissas")
      BY <1>5, <1>7 DEF ConsumeBlockMantissas
    <3>5. DecodeMantissas(parsed, f, c) = Breaks([parsed EXCEPT !.taken = ReadIn(Parts(FirstCoupled(parsed)), c)], c, "mantissas")
      BY DEF DecodeMantissas
    <3>6. ConsumeBlockMantissas(parsed, f, b, c) = DecodeMantissas(parsed, f, c)
      BY <3>3, <3>4, <3>5
    <3>7. t = u
      BY <1>2, <2>1, <3>6
    <3> QED BY <3>7
  <2> QED BY <2>2, <2>3
<1> QED BY <1>6, <1>7

----------------------------------------------------------------------------
(***************************************************************************)
(* Two readers that go through the same frames stay together.              *)
(***************************************************************************)

\* States at the start, at rest and of a frame.
LEMMA NewTyped == New \in Syntax
<1>1. NoneTaken \in Taken
  BY NoneTyped
<1> QED BY <1>1 DEF New, Syntax, Taken

LEMMA RestedTyped ==
  ASSUME NEW s \in Syntax
  PROVE  Rested(s) \in Syntax
<1>1. NoneTaken \in Taken
  BY NoneTyped
<1> QED BY <1>1 DEF Rested, Syntax, Taken

LEMMA FrameTyped ==
  ASSUME NEW f \in Frames
  PROVE  f \in Frame /\ f.layout \in Nat /\ Blocks(f) \in Nat
  BY SyntaxAssumption DEF Frame, Blocks

\* The end of a frame.
LEMMA DoneTyped ==
  ASSUME TypeOK, FrameDone, in_step' \in BOOLEAN,
         \/ UNCHANGED <<core, core_layout>>
         \/ inspected /\ frame # Nothing /\ core' = Rested(next) /\ core_layout' = frame.layout
  PROVE  TypeOK'
<1>1. core' \in Syntax /\ core_layout' \in Nat \cup {Nothing}
  BY RestedTyped, FrameTyped DEF TypeOK
<1> QED BY <1>1, NewTyped DEF TypeOK, FrameDone

\* One more block.
LEMMA WalkTyped ==
  ASSUME TypeOK, NEW c \in Contents, Walk(c)
  PROVE  walk' \in Syntax /\ walked' \in Nat
<1> DEFINE b == walked + 1
<1>1. walk' = ParseBlock(walk, frame, b, c, TRUE) \/ walk' = ParseBlock(walk, frame, b, c, FALSE)
  <2>1. walk' = ParseBlock(walk, frame, b, c, Sequential(frame))
    BY DEF Walk
  <2> HIDE DEF b
  <2>2. Sequential(frame) = TRUE \/ Sequential(frame) = FALSE
    BY DEF Sequential
  <2> QED BY <2>1, <2>2
<1>2. walked' \in Nat /\ walk \in Syntax
  BY DEF Walk, TypeOK
<1> HIDE DEF b
<1> QED BY <1>1, <1>2, BlockTyped

LEMMA CoreTyped ==
  ASSUME TypeOK, NEW c \in Contents, Decode(c)
  PROVE  next' \in Syntax /\ decoded' \in Nat
  BY BlockTyped DEF Decode, TypeOK

\* Every step leaves well-formed states.
LEMMA TypeStep ==
  ASSUME TypeOK, inspected => frame # Nothing, [Next]_vars
  PROVE  TypeOK'
<1>1. ASSUME NEW f \in Frames, Begin(f) PROVE TypeOK'
  <2>1. f.layout \in Nat /\ Blocks(f) \in Nat
    BY FrameTyped
  <2>2. Prepared(aux, aux_layout, f) \in Syntax /\ Prepared(core, core_layout, f) \in Syntax
    BY NewTyped DEF Prepared, TypeOK
  <2>3. aux' \in Syntax /\ walk' \in Syntax /\ next' \in Syntax /\ core' \in Syntax
    BY <1>1, <2>2, NewTyped DEF Begin, TypeOK
  <2>4. aux_layout' \in Nat \cup {Nothing} /\ core_layout' \in Nat \cup {Nothing} /\ walked' \in Nat /\ decoded' \in Nat
    BY <1>1, <2>1 DEF Begin, TypeOK
  <2>5. frame' \in Frames \cup {Nothing} /\ frames' \in 0 .. MaxFrames /\ inspected' \in BOOLEAN
    BY <1>1, SyntaxAssumption DEF Begin, TypeOK
  <2>6. in_step' \in BOOLEAN
    BY <1>1 DEF Begin
  <2> QED BY <2>3, <2>4, <2>5, <2>6 DEF TypeOK
<1>2. ASSUME NEW c \in Contents, BothBlocks(c) PROVE TypeOK'
  <2>1. walk' \in Syntax /\ next' \in Syntax /\ walked' \in Nat /\ decoded' \in Nat
    BY <1>2, WalkTyped, CoreTyped DEF BothBlocks
  <2> QED BY <1>2, <2>1 DEF BothBlocks, kept, TypeOK
<1>3. ASSUME NEW c \in Contents, WalkBlock(c) PROVE TypeOK'
  <2>1. walk' \in Syntax /\ walked' \in Nat
    BY <1>3, WalkTyped DEF WalkBlock
  <2> QED BY <1>3, <2>1 DEF WalkBlock, kept, TypeOK
<1>4. ASSUME NEW c \in Contents, CoreBlock(c) PROVE TypeOK'
  <2>1. next' \in Syntax /\ decoded' \in Nat
    BY <1>4, CoreTyped DEF CoreBlock
  <2> QED BY <1>4, <2>1 DEF CoreBlock, kept, TypeOK
<1>5. CASE Inspect
  <2>1. Committed \in Syntax
    BY RestedTyped DEF Committed, TypeOK
  <2>2. in_step' \in BOOLEAN
    BY <1>5 DEF Inspect
  <2> QED BY <1>5, <2>1, <2>2, NewTyped DEF Inspect, TypeOK
<1>6. CASE Reject
  BY <1>6, DoneTyped DEF Reject
<1>7. CASE InspectOnly
  BY <1>7, DoneTyped DEF InspectOnly
<1>8. CASE DecodeFrame
  <2>1. in_step' \in BOOLEAN
    BY <1>8 DEF DecodeFrame
  <2> QED BY <1>8, <2>1, DoneTyped DEF DecodeFrame
<1>9. CASE Reset
  BY <1>9, NewTyped, SyntaxAssumption DEF Reset, reading, TypeOK
<1>10. CASE UNCHANGED vars
  BY <1>10 DEF vars, kept, reading, TypeOK
<1> QED BY <1>1, <1>2, <1>3, <1>4, <1>5, <1>6, <1>7, <1>8, <1>9, <1>10 DEF Next

\* Both readers stand at the same block of the frame and have the same state there, or one that broke
\* for both; the readers at rest share their state.
Paired ==
  in_step =>
    IF frame = Nothing THEN aux = core /\ aux_layout = core_layout
    ELSE /\ Sequential(frame) /\ ~frame.dependent /\ aux_layout = frame.layout
         /\ IF inspected THEN aux = Rested(next) /\ next.error = Nothing
            ELSE /\ walked = decoded
                 /\ (walk.error = Nothing) = (next.error = Nothing)
                 /\ walk.error = Nothing => walk = next

\* What every step keeps.
InStep == TypeOK /\ (inspected => frame # Nothing) /\ Paired

\* None is not a frame.
LEMMA FrameIsSome == \A f \in Frames : f # Nothing
  BY SyntaxAssumption

\* A frame begins with both readers at its first block.
LEMMA BeginPaired ==
  ASSUME InStep, NEW f \in Frames, Begin(f)
  PROVE  Paired'
<1> SUFFICES ASSUME in_step' PROVE Paired'
  BY DEF Paired
<1>1. Sequential(f) /\ ~f.dependent /\ (in_step \/ (aux_layout # f.layout /\ core_layout # f.layout))
  BY DEF Begin
<1>2. /\ frame = Nothing /\ frame' = f /\ f # Nothing
      /\ aux_layout' = f.layout /\ inspected' = inspected /\ ~inspected
      /\ walk' = Prepared(aux, aux_layout, f) /\ next' = Prepared(core, core_layout, f)
      /\ walked' = 0 /\ decoded' = 0
  BY <1>1, FrameIsSome DEF Begin, InStep, Sequential
<1>3. walk' = next'
  BY <1>1, <1>2 DEF InStep, Paired, Prepared
<1> QED BY <1>1, <1>2, <1>3 DEF Paired

\* A block takes both on.
LEMMA BothPaired ==
  ASSUME InStep, IInv, NEW c \in Contents, BothBlocks(c)
  PROVE  Paired'
<1>1. /\ in_step /\ frame # Nothing /\ ~inspected
      /\ walk.error = Nothing /\ next.error = Nothing
      /\ UNCHANGED <<aux_layout, frame, inspected, in_step>>
      /\ walk' = ParseBlock(walk, frame, walked + 1, c, Sequential(frame)) /\ walked' = walked + 1
      /\ next' = DecodeBlock(next, frame, decoded + 1, c) /\ decoded' = decoded + 1
  BY DEF BothBlocks, Walking, Decoding, Walk, Decode, kept
<1>2. /\ Sequential(frame) /\ ~frame.dependent /\ aux_layout = frame.layout
      /\ walked = decoded /\ walk = next /\ walk \in Syntax
  BY <1>1 DEF InStep, Paired, TypeOK
<1> DEFINE b == walked + 1
           t == ParseBlock(walk, frame, b, c, TRUE)
           u == DecodeBlock(walk, frame, b, c)
           p == ParseBlock(walk, frame, b, c, FALSE)
<1>3. p.error = Nothing /\ p.chincpl # {} => CouplingInUse(frame, b)
  <2>1. Shaped("aux", walk) /\ walked \in Nat /\ frame.skip_fields /\ (walked > 0 => GateAfter(walk, walked))
    BY <1>1, <1>2 DEF IInv, Sequential
  <2>2. Gated(p, walk, frame, b)
    BY <2>1, ParseGated
  <2> HIDE DEF p
  <2>3. GateAfter(p, b)
    BY <1>1, <2>1, <2>2, GateKept
  <2> QED BY <2>3 DEF GateAfter
<1>4. (t.error = Nothing) = (u.error = Nothing) /\ (t.error = Nothing => t = u)
  <2>1. LET v == ParseBlock(walk, frame, b, c, FALSE) IN v.error = Nothing /\ v.chincpl # {} => CouplingInUse(frame, b)
    BY <1>3
  <2>2. walk \in Syntax
    BY <1>2
  <2> HIDE DEF b, p
  <2> QED BY <2>1, <2>2, BlockAlike
<1>5. walk' = t /\ next' = u /\ walked' = decoded'
  BY <1>1, <1>2
<1> HIDE DEF t, u
<1> QED BY <1>1, <1>2, <1>4, <1>5 DEF Paired

\* The aux walk is committed when it came to the end, and decoding the frame closes the circle.
LEMMA InspectPaired ==
  ASSUME InStep, Inspect
  PROVE  Paired'
<1> SUFFICES ASSUME in_step' PROVE Paired'
  BY DEF Paired
<1>1. /\ in_step /\ walk.error = Nothing /\ frame # Nothing /\ ~inspected
      /\ inspected' /\ aux' = Committed
      /\ UNCHANGED <<aux_layout, frame, next>>
  BY DEF Inspect
<1>2. Sequential(frame) /\ ~frame.dependent /\ aux_layout = frame.layout /\ next.error = Nothing /\ walk = next
  BY <1>1 DEF InStep, Paired
<1>3. aux' = Rested(next)
  BY <1>1, <1>2 DEF Committed
<1> QED BY <1>1, <1>2, <1>3 DEF Paired, Sequential

LEMMA DecodePaired ==
  ASSUME InStep, DecodeFrame
  PROVE  Paired'
<1> SUFFICES ASSUME in_step' PROVE Paired'
  BY DEF Paired
<1>1. /\ in_step /\ inspected /\ frame # Nothing
      /\ core' = Rested(next) /\ core_layout' = frame.layout
      /\ frame' = Nothing /\ UNCHANGED <<aux, aux_layout>>
  BY DEF DecodeFrame, FrameDone, InStep
<1>2. aux = Rested(next) /\ aux_layout = frame.layout
  BY <1>1 DEF InStep, Paired
<1> QED BY <1>1, <1>2 DEF Paired

\* The start, and every step.
LEMMA InStepStep ==
  ASSUME InStep, IInv, [Next]_vars
  PROVE  InStep'
<1>1. TypeOK'
  BY TypeStep DEF InStep
<1>2. inspected' => frame' # Nothing
  <2>1. ASSUME NEW f \in Frames, Begin(f) PROVE ~inspected'
    BY <2>1 DEF Begin, InStep
  <2>2. ASSUME NEW c \in Contents, BothBlocks(c) \/ WalkBlock(c) \/ CoreBlock(c) PROVE UNCHANGED <<inspected, frame>>
    BY <2>2 DEF BothBlocks, WalkBlock, CoreBlock
  <2>3. CASE Inspect
    BY <2>3 DEF Inspect
  <2>4. CASE Reject \/ InspectOnly \/ DecodeFrame
    BY <2>4 DEF Reject, InspectOnly, DecodeFrame, FrameDone
  <2>5. CASE Reset \/ UNCHANGED vars
    BY <2>5 DEF Reset, reading, vars, InStep
  <2> QED BY <2>1, <2>2, <2>3, <2>4, <2>5 DEF Next, InStep
<1>3. Paired'
  <2>1. ASSUME NEW f \in Frames, Begin(f) PROVE Paired'
    BY <2>1, BeginPaired
  <2>2. ASSUME NEW c \in Contents, BothBlocks(c) PROVE Paired'
    BY <2>2, BothPaired
  <2>3. ASSUME NEW c \in Contents, WalkBlock(c) \/ CoreBlock(c) PROVE Paired'
    BY <2>3 DEF WalkBlock, CoreBlock, Paired
  <2>4. CASE Inspect
    BY <2>4, InspectPaired
  <2>5. CASE Reject \/ InspectOnly
    BY <2>5 DEF Reject, InspectOnly, Paired
  <2>6. CASE DecodeFrame
    BY <2>6, DecodePaired
  <2>7. CASE Reset
    <3>1. frame' = Nothing /\ aux' = core' /\ aux_layout' = core_layout'
      BY <2>7 DEF Reset, reading
    <3> QED BY <3>1 DEF Paired
  <2>8. CASE UNCHANGED vars
    BY <2>8 DEF vars, kept, reading, InStep, Paired, Rested, Sequential
  <2> QED BY <2>1, <2>2, <2>3, <2>4, <2>5, <2>6, <2>7, <2>8 DEF Next
<1> QED BY <1>1, <1>2, <1>3 DEF InStep

LEMMA InStepInit == Init => InStep
<1> SUFFICES ASSUME Init PROVE InStep
  OBVIOUS
<1>1. TypeOK
  <2>1. MaxFrames \in Nat
    BY SyntaxAssumption
  <2>2. New \in Syntax
    BY NewTyped
  <2>3. aux \in Syntax /\ core \in Syntax /\ walk \in Syntax /\ next \in Syntax
    BY <2>2 DEF Init
  <2>4. walked \in Nat /\ decoded \in Nat /\ frames \in 0 .. MaxFrames
    BY <2>1 DEF Init
  <2>5. /\ aux_layout \in Nat \cup {Nothing} /\ core_layout \in Nat \cup {Nothing} /\ frame \in Frames \cup {Nothing}
        /\ inspected \in BOOLEAN /\ in_step \in BOOLEAN
    BY DEF Init
  <2> QED BY <2>3, <2>4, <2>5 DEF TypeOK
<1> QED BY <1>1 DEF Init, InStep, Paired

LEMMA InStepAlways == Spec => []InStep
<1>1. InStep /\ IInv /\ [Next]_vars => InStep'
  BY InStepStep
<1> QED BY InStepInit, <1>1, Invariance, PTL DEF Spec

\* The readers keep a well-formed state, and a mantissa group is never overfull.
THEOREM AlwaysTyped == Spec => []TypeOK
<1>1. InStep => TypeOK
  BY DEF InStep
<1> QED BY <1>1, InStepAlways, PTL

\* Two readers that took the same frames from the same state find the same things at the same bits.
THEOREM AlwaysInStep == Spec => []ReadersInStep
<1>1. InStep => ReadersInStep
  BY DEF InStep, Paired, ReadersInStep
<1> QED BY <1>1, InStepAlways, PTL
=============================================================================
