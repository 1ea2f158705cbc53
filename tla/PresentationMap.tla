--------------------------- MODULE PresentationMap ---------------------------
(***************************************************************************)
(* Which substreams a TrueHD presentation is made of, and which            *)
(* presentation a decoder falls back to.  A bit mask is the set of its     *)
(* bits: substream_info a subset of 0 .. 7, a presentation's mask a set of *)
(* substreams.                                                             *)
(***************************************************************************)
EXTENDS Integers

MaxPresentations == 4

Presentation == 0 .. MaxPresentations - 1

\* with_substream_info: 7 ^ (7 >> extended) are the upper extended bits of three.
Masks(info, extended) ==
  [p \in Presentation |->
     CASE p = 0 -> {0}
       [] p = 1 -> {i \in 0 .. 1 : i + 2 \in info}
       [] p = 2 -> {i \in 0 .. 2 : i + 4 \in info}
       [] p = 3 -> {i \in {3} : 7 \in info} \cup {i \in 0 .. 2 : i >= 3 - extended}]

\* mask >> p # 0
Reaches(mask, p) == \E i \in mask : i >= p

\* substream_mask_by_required_presentations, for all presentations up to p.
RequiredMask(masks, p) == UNION {masks[q] : q \in 0 .. p}

\* The largest member of a set of presentations.
IsTop(p, candidates) == p \in candidates /\ \A q \in candidates : q <= p

\* What presentation p is a copy of.
CopySource(masks, p) == {q \in 0 .. p - 1 : Reaches(masks[p], q)}

Independent(masks) == {q \in Presentation : Reaches(masks[q], q)}

Fault_CopyNotFollowed(masks, p) ==
  CHOOSE q \in Presentation :
    IF masks[p] # {} THEN q = p ELSE IsTop(q, Independent(masks))

\* The presentation that is decoded when p is asked for.
Chosen(masks, p) ==
  CHOOSE q \in Presentation :
    IF Reaches(masks[p], p)
      THEN q = p
      ELSE IF masks[p] # {} THEN IsTop(q, CopySource(masks, p))
                            ELSE IsTop(q, Independent(masks))
=============================================================================
