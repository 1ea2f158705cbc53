----------------------------- MODULE Eac3Bands -----------------------------
(***************************************************************************)
(* The arithmetic that turns the codes of an E-AC-3 block into ranges of   *)
(* its 256 mantissas and 18 coupling subbands, and how many exponents the  *)
(* groups sent for a range are worth.                                      *)
(***************************************************************************)
EXTENDS Integers

Mantissas == 256            \* MAX_ALLOCATION_SIZE
CouplingBands == 18         \* DEF_CPL_BNDSTRC.len()

\* The codes a block may send: 4, 6 and 3 bits, of which chbwcod must not exceed 60.
CouplingCode == 0 .. 15
Bandwidth == 0 .. 60
SpxCode == 0 .. 7

SpxBegin(spxbegf) == IF spxbegf < 6 THEN spxbegf + 2 ELSE spxbegf * 2 - 3
SpxEnd(spxendf) == IF spxendf < 3 THEN spxendf + 5 ELSE spxendf * 2 + 3

CouplingStart(cplbegf) == 37 + 12 * cplbegf
CouplingEnd(cplendf) == 37 + 12 * (cplendf + 3)

\* Where spectral extension is in use, coupling ends where it begins; codes 0 and 1 are refused.
CouplingEndBelow(spxbegf) == IF spxbegf < 6 THEN spxbegf - 2 ELSE spxbegf * 2 - 7

Subbands(cplbegf, cplendf) == 3 + cplendf - cplbegf

\* The last mantissa of a channel, and the last subband, that coupling writes or looks up.
LastCoupled(cplbegf, cplendf) == (cplbegf + Subbands(cplbegf, cplendf) - 1) * 12 + 37 + 11
LastBandFlag(cplbegf, cplendf) == cplbegf + Subbands(cplbegf, cplendf) - 1

ChannelEnd(chbwcod) == (chbwcod + 12) * 3 + 37
SpxChannelEnd(spxbegf) == SpxBegin(spxbegf) * 12 + 25

\* Every end a channel's range may have: its own, that of spectral extension, or where coupling begins.
ChannelEnds ==
  { ChannelEnd(w) : w \in Bandwidth } \cup { SpxChannelEnd(b) : b \in SpxCode }
    \cup { CouplingStart(b) : b \in CouplingCode }

Strategy == {"D15", "D25", "D45"}

\* Mantissas that share an exponent; three exponents make a group.
GroupSize(strategy) == CASE strategy = "D15" -> 1 [] strategy = "D25" -> 2 [] strategy = "D45" -> 4

GroupAdd(strategy) == CASE strategy = "D15" -> -1 [] strategy = "D25" -> 2 [] strategy = "D45" -> 8
GroupDiv(strategy) == CASE strategy = "D15" -> 3 [] strategy = "D25" -> 6 [] strategy = "D45" -> 12

GroupedExponentCount(end, strategy) == (end + GroupAdd(strategy)) \div GroupDiv(strategy)

\* Where the exponents of so many groups end that begin at offset.
DecodedTo(offset, groups, strategy) == offset + groups * 3 * GroupSize(strategy)

ChannelDecodedTo(end, strategy) == DecodedTo(1, GroupedExponentCount(end, strategy), strategy)

CouplingDecodedTo(start, end, strategy) ==
  DecodedTo(start + 1, GroupedExponentCount(end - start, strategy), strategy)

----------------------------------------------------------------------------

\* No code leads out of the mantissas or the subbands: the loops that write coupled mantissas and
\* look up band flags stay inside their arrays.
CouplingFits ==
  \A b, e \in CouplingCode : b <= e =>
    /\ CouplingStart(b) < CouplingEnd(e) /\ CouplingEnd(e) <= Mantissas
    /\ LastCoupled(b, e) < Mantissas
    /\ LastBandFlag(b, e) < CouplingBands

\* The groups sent for a channel bring an exponent for every mantissa of its range, and no more than
\* there is room for.
ChannelExponentsCover ==
  \A end \in ChannelEnds, s \in Strategy : ChannelDecodedTo(end, s) \in end .. Mantissas

\* The same count is used for the coupling channel, whose exponents begin one later: with D15 the
\* last two mantissas of the band keep the exponents of an earlier block.
CouplingExponentsCover ==
  \A b, e \in CouplingCode, s \in Strategy : b <= e =>
    LET to == CouplingDecodedTo(CouplingStart(b), CouplingEnd(e), s)
    IN  to = IF s = "D15" THEN CouplingEnd(e) - 2 ELSE CouplingEnd(e) + 1
=============================================================================
