--------------------------- MODULE Eac3Mantissas ---------------------------
(***************************************************************************)
(* How many bits the mantissas of an E-AC-3 block take.  A mantissa's bap  *)
(* chooses its size; those of bap 1, 2 and 4 are packed in groups of       *)
(* three, three and two, and a group stays open from one channel to the    *)
(* next.  The aux walker only counts, a channel at a time; the core        *)
(* decoder reads mantissa by mantissa.  Both must come to the same bit.    *)
(***************************************************************************)
EXTENDS Naturals, FiniteSets, SequencesExt

Bap == 0 .. 15

Grouped == {1, 2, 4}

BAP_BITS ==
  <<0, 5, 7, 3, 7, 4, 5, 6, 7, 8, 9, 10, 11, 12, 14, 16>>

BitsOf(bap) == BAP_BITS[bap + 1]

\* Mantissas per group.
PerGroup(bap) == IF bap = 4 THEN 2 ELSE 3

\* Groups start full, so that the first mantissa of a block opens one.
NewBlock == [bap \in Grouped |-> PerGroup(bap) - 1]

Positions == {at \in [Grouped -> 0 .. 2] : \A bap \in Grouped : at[bap] < PerGroup(bap)}

Occurrences(bap, baps) == Cardinality({i \in DOMAIN baps : baps[i] = bap})

\* The mantissas that are not packed.
Plain(baps) ==
  LET bits[n \in 0 .. Len(baps)] ==
        IF n = 0 THEN 0 ELSE bits[n - 1] + (IF baps[n] \in Grouped THEN 0 ELSE BitsOf(baps[n]))
  IN  bits[Len(baps)]

\* Groups that n more mantissas open, and where the last one then stands.
Opened(bap, position, n) == (position + n) \div PerGroup(bap)
Fault_LeftFromZero(bap, position, n) == n % PerGroup(bap)

Left(bap, position, n) == (position + n) % PerGroup(bap)

\* AllocationState::count_mantissa_bits
CountMantissas(group, baps) ==
  LET n(bap) == Occurrences(bap, baps)
      bits(bap) == Opened(bap, group.positions[bap], n(bap)) * BitsOf(bap)
  IN  [positions |-> [bap \in Grouped |-> Left(bap, group.positions[bap], n(bap))],
       bits |-> group.bits + Plain(baps) + bits(1) + bits(2) + bits(4)]

Fault_GroupNeverEnds(group, bap) ==
  IF bap \notin Grouped THEN [group EXCEPT !.bits = @ + BitsOf(bap)]
  ELSE [group EXCEPT !.positions[bap] = @ + 1]

\* One mantissa of AllocationState::decode_transform_coeffs
ReadMantissa(group, bap) ==
  IF bap \notin Grouped THEN [group EXCEPT !.bits = @ + BitsOf(bap)]
  ELSE LET position == group.positions[bap] + 1
       IN  IF position = PerGroup(bap)
           THEN [positions |-> [group.positions EXCEPT ![bap] = 0], bits |-> group.bits + BitsOf(bap)]
           ELSE [group EXCEPT !.positions[bap] = position]

ReadMantissas(group, baps) ==
  LET read[n \in 0 .. Len(baps)] == IF n = 0 THEN group ELSE ReadMantissa(read[n - 1], baps[n])
  IN  read[Len(baps)]

NoneTaken == [positions |-> NewBlock, bits |-> 0]
=============================================================================
