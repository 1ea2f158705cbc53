------------------------- MODULE Eac3MetadataProofs -------------------------
(***************************************************************************)
(* What E-AC-3 object metadata retain from payload to payload, for every   *)
(* set of payloads and units and however many of them follow each other.   *)
(***************************************************************************)
EXTENDS Eac3Metadata, WellFoundedInduction, TLAPS

----------------------------------------------------------------------------
(***************************************************************************)
(* The last of some times.                                                 *)
(***************************************************************************)

\* Every set of numbers has a least one.
LEMMA Least ==
  ASSUME NEW T \in SUBSET Nat, T # {}
  PROVE  \E x \in T : \A y \in T : x <= y
<1>1. PICK x \in T : \A y \in T : ~(<<y, x>> \in OpToRel(<, Nat))
  BY NatLessThanWellFounded, WFMin
<1>2. ASSUME NEW y \in T, y < x PROVE FALSE
  <2> DEFINE pair == <<y, x>>
  <2>1. pair \in Nat \X Nat /\ pair[1] = y /\ pair[2] = x
    OBVIOUS
  <2> HIDE DEF pair
  <2>2. pair \in OpToRel(<, Nat)
    BY <1>2, <2>1 DEF OpToRel
  <2> QED BY <1>1, <2>2 DEF pair
<1> QED BY <1>2

LEMMA MaxOf ==
  ASSUME NEW S \in SUBSET Nat, S # {}, NEW n \in Nat, \A i \in S : i < n
  PROVE  Max(S) \in S /\ \A i \in S : i <= Max(S)
<1> DEFINE Bounds == {k \in Nat : \A i \in S : i <= k}
<1>1. PICK k \in Bounds : \A l \in Bounds : k <= l
  <2>1. Bounds \in SUBSET Nat /\ n \in Bounds
    OBVIOUS
  <2> HIDE DEF Bounds
  <2> QED BY <2>1, Least
<1>2. k \in S
  <2> SUFFICES ASSUME k \notin S PROVE FALSE
    OBVIOUS
  <2>1. \A i \in S : i < k
    BY <1>1
  <2>2. k > 0
    <3>1. PICK i \in S : TRUE
      OBVIOUS
    <3> QED BY <1>1, <2>1, <3>1
  <2>3. \A i \in S : i <= k - 1
    BY <1>1, <2>1
  <2>4. k - 1 \in Bounds
    BY <1>1, <2>2, <2>3
  <2> QED BY <1>1, <2>4
<1>3. \A i \in S : k >= i
  BY <1>1
<1>4. \E i \in S : \A j \in S : i >= j
  BY <1>2, <1>3
<1> QED BY <1>4 DEF Max

\* One more time, behind all others.
LEMMA MaxWith ==
  ASSUME NEW S \in SUBSET Nat, NEW n \in Nat, \A i \in S : i < n
  PROVE  Max(S \cup {n}) = n
<1>1. S \cup {n} \in SUBSET Nat /\ n + 1 \in Nat /\ \A i \in S \cup {n} : i < n + 1
  OBVIOUS
<1> DEFINE m == Max(S \cup {n})
<1>2. m \in S \cup {n} /\ n <= m
  BY <1>1, MaxOf
<1> HIDE DEF m
<1>3. m = n
  BY <1>2
<1> QED BY <1>3 DEF m

----------------------------------------------------------------------------
(***************************************************************************)
(* One block of one object, when it is told of once more.                  *)
(***************************************************************************)

\* more continues said by what is said at n.
Continues(said, more, n) ==
  /\ DOMAIN said \subseteq Nat /\ n \in Nat
  /\ \A i \in DOMAIN said : i < n
  /\ DOMAIN more = DOMAIN said \cup {n}
  /\ \A i \in DOMAIN said : more[i] = said[i]

LEMMA LastSentMore ==
  ASSUME NEW said, NEW more, NEW n, Continues(said, more, n)
  PROVE  LastSent(more) = Or(more[n], LastSent(said))
<1> DEFINE old == {i \in DOMAIN said : said[i] # Nothing}
           new == {i \in DOMAIN more : more[i] # Nothing}
<1>1. old \in SUBSET Nat /\ n \in Nat /\ \A i \in old : i < n
  BY DEF Continues
<1>2. CASE more[n] = Nothing
  <2>1. new = old
    BY <1>2 DEF Continues
  <2>2. old # {} => Max(old) \in old
    <3> HIDE DEF old
    <3> QED BY <1>1, MaxOf
  <2>3. old # {} => more[Max(old)] = said[Max(old)]
    BY <2>2 DEF Continues
  <2> QED BY <1>2, <2>1, <2>3 DEF LastSent, Or
<1>3. CASE more[n] # Nothing
  <2>1. new = old \cup {n}
    BY <1>3 DEF Continues
  <2>2. Max(new) = n
    <3> HIDE DEF old, new
    <3> QED BY <1>1, <2>1, MaxWith
  <2> QED BY <1>3, <2>1, <2>2 DEF LastSent, Or
<1> QED BY <1>2, <1>3

LEMMA RetainsMore ==
  ASSUME NEW kept, NEW said, NEW more, NEW n, Continues(said, more, n),
         NEW tied \in SUBSET DOMAIN said, Retains(kept, said, tied),
         NEW bed \in BOOLEAN, more[n].screen \in BOOLEAN, more[n].render_sent \in BOOLEAN
  PROVE  Retains(ResolveBlock(kept, more[n], bed), more, IF bed THEN tied \cup {n} ELSE tied)
<1> DEFINE parsed == more[n]
           new == ResolveBlock(kept, parsed, bed)
           then == IF bed THEN tied \cup {n} ELSE tied
           render == {i \in DOMAIN said : said[i].render_sent}
           render2 == {i \in DOMAIN more : more[i].render_sent}
           screen == {i \in DOMAIN said : said[i].screen}
           screen2 == {i \in DOMAIN more : more[i].screen}
<1>1. n \in Nat /\ DOMAIN said \subseteq Nat /\ \A i \in DOMAIN said : i < n
  BY DEF Continues
<1>2. new.gain = LastSent([i \in DOMAIN more |-> more[i].gain])
  <2>1. Continues([i \in DOMAIN said |-> said[i].gain], [i \in DOMAIN more |-> more[i].gain], n)
    BY DEF Continues
  <2>2. [i \in DOMAIN more |-> more[i].gain][n] = parsed.gain
    BY DEF Continues
  <2>3. new.gain = Or(parsed.gain, kept.gain)
    BY DEF ResolveBlock
  <2> QED BY <2>1, <2>2, <2>3, LastSentMore DEF Retains
<1>3. new.position = LastSent([i \in DOMAIN more |-> more[i].position])
  <2>1. Continues([i \in DOMAIN said |-> said[i].position], [i \in DOMAIN more |-> more[i].position], n)
    BY DEF Continues
  <2>2. [i \in DOMAIN more |-> more[i].position][n] = parsed.position
    BY DEF Continues
  <2>3. new.position = Or(parsed.position, kept.position)
    BY DEF ResolveBlock
  <2> QED BY <2>1, <2>2, <2>3, LastSentMore DEF Retains
<1>4. new.size = LastSent([i \in DOMAIN more |-> more[i].size])
  <2>1. Continues([i \in DOMAIN said |-> said[i].size], [i \in DOMAIN more |-> more[i].size], n)
    BY DEF Continues
  <2>2. [i \in DOMAIN more |-> more[i].size][n] = parsed.size
    BY DEF Continues
  <2>3. new.size = Or(parsed.size, kept.size)
    BY DEF ResolveBlock
  <2> QED BY <2>1, <2>2, <2>3, LastSentMore DEF Retains
<1>5. new.valid_position = (render2 # {} /\ more[Max(render2)].position # Nothing)
  <2>1. new.valid_position = IF parsed.render_sent THEN parsed.position # Nothing ELSE kept.valid_position
    BY DEF ResolveBlock
  <2>2. render \in SUBSET Nat /\ \A i \in render : i < n
    BY <1>1
  <2>3. CASE parsed.render_sent
    <3>1. render2 = render \cup {n}
      BY <2>3 DEF Continues
    <3>2. Max(render2) = n
      <4> HIDE DEF render, render2
      <4> QED BY <1>1, <2>2, <3>1, MaxWith
    <3> QED BY <2>1, <2>3, <3>1, <3>2
  <2>4. CASE ~parsed.render_sent
    <3>1. render2 = render
      BY <2>4 DEF Continues
    <3>2. render # {} => Max(render) \in render
      <4> HIDE DEF render
      <4> QED BY <1>1, <2>2, MaxOf
    <3>3. render # {} => more[Max(render)] = said[Max(render)]
      BY <3>2 DEF Continues
    <3>4. kept.valid_position = (render # {} /\ said[Max(render)].position # Nothing)
      BY DEF Retains
    <3> QED BY <2>1, <2>4, <3>1, <3>3, <3>4
  <2> QED BY <2>3, <2>4
<1>6. new.anchor = IF then \cup screen2 = {} THEN "room"
                   ELSE IF Max(then \cup screen2) \in then THEN "speaker" ELSE "screen"
  <2>1. new.anchor = IF bed THEN "speaker" ELSE IF parsed.screen THEN "screen" ELSE kept.anchor
    BY DEF ResolveBlock
  <2>2. tied \cup screen \in SUBSET Nat /\ (\A i \in tied \cup screen : i < n) /\ n \notin tied
    BY <1>1
  <2>3. CASE bed \/ parsed.screen
    <3>1. then \cup screen2 = (tied \cup screen) \cup {n} /\ (n \in then <=> bed)
      BY <2>2, <2>3 DEF Continues
    <3>2. Max(then \cup screen2) = n
      <4> DEFINE before == tied \cup screen
      <4>1. before \in SUBSET Nat /\ (\A i \in before : i < n) /\ then \cup screen2 = before \cup {n}
        BY <2>2, <3>1
      <4> HIDE DEF before, then, screen2
      <4> QED BY <1>1, <4>1, MaxWith
    <3> QED BY <2>1, <2>3, <3>1, <3>2
  <2>4. CASE ~bed /\ ~parsed.screen
    <3>1. then = tied /\ screen2 = screen
      BY <2>4 DEF Continues
    <3>2. kept.anchor = IF tied \cup screen = {} THEN "room"
                        ELSE IF Max(tied \cup screen) \in tied THEN "speaker" ELSE "screen"
      BY DEF Retains
    <3> QED BY <2>1, <2>4, <3>1, <3>2
  <2> QED BY <2>3, <2>4
<1> HIDE DEF new, then
<1>7. Retains(new, more, then)
  BY <1>2, <1>3, <1>4, <1>5, <1>6 DEF Retains
<1> QED BY <1>7 DEF new, then

\* Of nothing said, nothing is kept.
LEMMA RetainsDefault ==
  ASSUME NEW said, DOMAIN said = {}
  PROVE  Retains(Default, said, {})
  BY DEF Retains, Default, LastSent

----------------------------------------------------------------------------
(***************************************************************************)
(* What a payload resolves to.                                             *)
(***************************************************************************)

Oamd == {p \in Payloads : p.id = 11}

LEMMA OamdTypes ==
  ASSUME NEW p \in Oamd
  PROVE  /\ p.object_count \in Nat \ {0}
         /\ p.elements \in Seq(RawElement)
         /\ \A s \in DOMAIN p.elements :
              LET e == p.elements[s]
              IN  /\ e.block_count \in Nat \ {0} /\ e.objects \in Seq(Seq(RawBlock))
                  /\ Len(e.objects) = p.object_count
                  /\ \A o \in DOMAIN e.objects : Len(e.objects[o]) = e.block_count
<1>1. IsOamd(p)
  BY MetadataAssumption DEF Oamd
<1>2. p.elements \in Seq(RawElement)
  BY <1>1 DEF IsOamd
<1>3. ASSUME NEW s \in DOMAIN p.elements
      PROVE  /\ p.elements[s].block_count \in Nat \ {0} /\ p.elements[s].objects \in Seq(Seq(RawBlock))
             /\ p.elements[s] \in ToSet(p.elements)
  <2>1. p.elements[s] \in RawElement
    BY <1>2
  <2> QED BY <2>1 DEF RawElement, ToSet
<1> QED BY <1>1, <1>2, <1>3 DEF IsOamd

Saying(p, s, o, b) ==
  ParseObjectBlock(p.elements[s].objects[o][b], b, o <= BedOrIsfObjects(p.program), Nothing)

LEMMA SaidTypes ==
  ASSUME NEW p \in Oamd, NEW s \in DOMAIN p.elements,
         NEW o \in 1 .. p.object_count, NEW b \in 1 .. p.elements[s].block_count
  PROVE  /\ Saying(p, s, o, b).gain \in Gains \cup {Nothing}
         /\ Saying(p, s, o, b).position \in Position \cup {Nothing}
         /\ Saying(p, s, o, b).size \in Sizes \cup {Nothing}
         /\ Saying(p, s, o, b).render_sent \in BOOLEAN
         /\ Saying(p, s, o, b).screen \in BOOLEAN
         /\ b = 1 /\ Saying(p, s, o, b).position # Nothing => ~Saying(p, s, o, b).position.differential
<1> DEFINE raw == p.elements[s].objects[o][b]
<1>1. raw \in RawBlock
  <2>1. /\ p.elements[s].objects \in Seq(Seq(RawBlock)) /\ Len(p.elements[s].objects) = p.object_count
        /\ \A q \in DOMAIN p.elements[s].objects : Len(p.elements[s].objects[q]) = p.elements[s].block_count
    BY OamdTypes
  <2>2. o \in DOMAIN p.elements[s].objects
    BY <2>1
  <2>3. p.elements[s].objects[o] \in Seq(RawBlock) /\ Len(p.elements[s].objects[o]) = p.elements[s].block_count
    BY <2>1, <2>2
  <2> QED BY <2>3
<1> HIDE DEF raw
<1>2. ASSUME NEW bed \in BOOLEAN
      PROVE  LET said == ParseObjectBlock(raw, b, bed, Nothing)
             IN  /\ said.gain \in Gains \cup {Nothing}
                 /\ said.position \in Position \cup {Nothing}
                 /\ said.size \in Sizes \cup {Nothing}
                 /\ said.render_sent \in BOOLEAN
                 /\ said.screen \in BOOLEAN
                 /\ b = 1 /\ said.position # Nothing => ~said.position.differential
  BY <1>1 DEF ParseObjectBlock, RawBlock, Position, Differential, Sent
<1>3. (o <= BedOrIsfObjects(p.program)) \in BOOLEAN
  OBVIOUS
<1>4. Saying(p, s, o, b) = ParseObjectBlock(raw, b, o <= BedOrIsfObjects(p.program), Nothing)
  BY DEF Saying, raw
<1> QED BY <1>2, <1>3, <1>4

LEMMA ResolveTypes ==
  ASSUME NEW kept \in KeptBlock, kept.valid_position => kept.position # Nothing, NEW said, NEW bed \in BOOLEAN,
         said.gain \in Gains \cup {Nothing}, said.position \in Position \cup {Nothing},
         said.size \in Sizes \cup {Nothing}, said.render_sent \in BOOLEAN, said.screen \in BOOLEAN
  PROVE  /\ ResolveBlock(kept, said, bed) \in KeptBlock
         /\ ResolveBlock(kept, said, bed).valid_position => ResolveBlock(kept, said, bed).position # Nothing
         /\ ResolveBlock(kept, said, bed).position \in {said.position, kept.position}
  BY DEF ResolveBlock, KeptBlock, Anchor, Or

LEMMA DefaultTypes == Default \in KeptBlock /\ ~Default.valid_position /\ Default.position = Nothing
  BY DEF Default, KeptBlock, Anchor

\* What is said of an element completes what was kept of it, if it is kept.
Old(kept, p, e, o, b) == IF Keeps(kept, p, e) THEN kept[o][b] ELSE Default

LEMMA ResolveElementIs ==
  ASSUME NEW p \in Oamd, NEW s \in DOMAIN p.elements, IsObject(p.elements[s]), NEW kept
  PROVE  LET new == ResolveElement(kept, p, p.elements[s])
         IN  /\ new = [o \in 1 .. p.object_count |-> [b \in 1 .. p.elements[s].block_count |-> new[o][b]]]
             /\ \A o \in 1 .. p.object_count : \A b \in 1 .. p.elements[s].block_count :
                  new[o][b] = ResolveBlock(Old(kept, p, p.elements[s], o, b), Saying(p, s, o, b),
                                           o <= BedOrIsfObjects(p.program))
  BY DEF ResolveElement, Old, Saying

\* What is resolved is well-formed, if what was kept is.
LEMMA ElementKept ==
  ASSUME NEW p \in Oamd, NEW s \in DOMAIN p.elements, IsObject(p.elements[s]), NEW kept, Kept(kept), FirstBlockAbsolute(kept)
  PROVE  LET new == ResolveElement(kept, p, p.elements[s])
         IN  /\ Kept(new) /\ FirstBlockAbsolute(new) /\ new # Nothing
             /\ new \in Slot /\ Len(new) = p.object_count /\ DOMAIN new = 1 .. p.object_count
             /\ \A o \in 1 .. p.object_count :
                  Len(new[o]) = p.elements[s].block_count /\ DOMAIN new[o] = 1 .. p.elements[s].block_count
<1> DEFINE e == p.elements[s]
           n == p.object_count
           m == e.block_count
           new == ResolveElement(kept, p, e)
           was(o, b) == Old(kept, p, e, o, b)
<1>1. n \in Nat \ {0} /\ m \in Nat \ {0}
  BY OamdTypes
<1>2. ASSUME NEW o \in 1 .. n, NEW b \in 1 .. m
      PROVE  /\ was(o, b) \in KeptBlock /\ (was(o, b).valid_position => was(o, b).position # Nothing)
             /\ b = 1 /\ was(o, b).position # Nothing => ~was(o, b).position.differential
  <2>1. CASE Keeps(kept, p, e)
    <3>1. kept # Nothing /\ Len(kept) = n /\ Len(kept[1]) = m /\ kept \in Slot
      BY <2>1 DEF Keeps, Kept
    <3>2. o \in DOMAIN kept
      BY <1>1, <3>1 DEF Slot
    <3>3. Len(kept[o]) = m /\ kept[o] \in Seq(KeptBlock)
      BY <3>1, <3>2 DEF Kept, Slot
    <3>4. b \in DOMAIN kept[o]
      BY <3>3
    <3>5. was(o, b) = kept[o][b] /\ kept[o][b] \in KeptBlock
      BY <2>1, <3>3, <3>4 DEF Old
    <3> QED BY <3>1, <3>2, <3>4, <3>5 DEF Kept, FirstBlockAbsolute
  <2>2. CASE ~Keeps(kept, p, e)
    BY <2>2, DefaultTypes DEF Old
  <2> QED BY <2>1, <2>2
<1>3. ASSUME NEW o \in 1 .. n, NEW b \in 1 .. m
      PROVE  /\ new[o][b] \in KeptBlock /\ (new[o][b].valid_position => new[o][b].position # Nothing)
             /\ b = 1 /\ new[o][b].position # Nothing => ~new[o][b].position.differential
  <2>1. new[o][b] = ResolveBlock(was(o, b), Saying(p, s, o, b), o <= BedOrIsfObjects(p.program))
    BY ResolveElementIs
  <2> DEFINE bed == o <= BedOrIsfObjects(p.program)
             said == Saying(p, s, o, b)
             old == was(o, b)
  <2>2. bed \in BOOLEAN
    OBVIOUS
  <2>3. /\ said.gain \in Gains \cup {Nothing} /\ said.position \in Position \cup {Nothing}
        /\ said.size \in Sizes \cup {Nothing} /\ said.render_sent \in BOOLEAN /\ said.screen \in BOOLEAN
        /\ b = 1 /\ said.position # Nothing => ~said.position.differential
    BY SaidTypes
  <2>4. /\ old \in KeptBlock /\ (old.valid_position => old.position # Nothing)
        /\ b = 1 /\ old.position # Nothing => ~old.position.differential
    BY <1>2
  <2>5. new[o][b] = ResolveBlock(old, said, bed)
    BY <2>1
  <2> HIDE DEF was, new, bed, said, old
  <2>6. /\ new[o][b] \in KeptBlock /\ (new[o][b].valid_position => new[o][b].position # Nothing)
        /\ new[o][b].position \in {said.position, old.position}
    BY <2>2, <2>3, <2>4, <2>5, ResolveTypes
  <2> QED BY <2>3, <2>4, <2>6
<1>4. new = [o \in 1 .. n |-> [b \in 1 .. m |-> new[o][b]]]
  BY ResolveElementIs
<1> HIDE DEF new, n, m, was
<1>5. DOMAIN new = 1 .. n /\ \A o \in 1 .. n : DOMAIN new[o] = 1 .. m
  BY <1>4
<1>6. \A o \in 1 .. n : new[o] \in Seq(KeptBlock) /\ Len(new[o]) = m
  <2> TAKE o \in 1 .. n
  <2>1. new[o] = [b \in 1 .. m |-> new[o][b]]
    BY <1>4
  <2> QED BY <1>1, <1>3, <2>1
<1>7. new \in Slot /\ Len(new) = n
  <2> DEFINE row(o) == new[o]
  <2>1. new = [o \in 1 .. n |-> row(o)]
    BY <1>4
  <2>2. \A o \in 1 .. n : row(o) \in Seq(KeptBlock)
    BY <1>6
  <2> HIDE DEF row
  <2>3. [o \in 1 .. n |-> row(o)] \in Seq(Seq(KeptBlock)) /\ Len([o \in 1 .. n |-> row(o)]) = n
    BY <1>1, <2>2
  <2> QED BY <2>1, <2>3 DEF Slot
<1>8. new # Nothing
  BY <1>7, MetadataAssumption
<1>9. Kept(new) /\ FirstBlockAbsolute(new)
  BY <1>1, <1>3, <1>5, <1>6, <1>7 DEF Kept, FirstBlockAbsolute
<1> QED BY <1>5, <1>6, <1>7, <1>8, <1>9 DEF new, n, m

----------------------------------------------------------------------------
(***************************************************************************)
(* What is kept of a slot, and the payloads that said it.                  *)
(***************************************************************************)

\* What was applied, and what is kept of it; the number of elements is that of the last payload.
KeptInv ==
  /\ applied \in Seq(Oamd)
  /\ elements \in Seq(Slot \cup {Nothing})
  /\ IF applied = << >> THEN elements = << >> ELSE Len(elements) = Len(applied[Len(applied)].elements)
  /\ \A s \in DOMAIN elements : Kept(elements[s]) /\ FirstBlockAbsolute(elements[s])

\* All payloads of an era have the shape of what is kept.
ShapeInv ==
  \A s \in DOMAIN elements : \A i \in Era(s) :
    elements[s] # Nothing => Shape(applied[i], s) = <<Len(elements[s]), Len(elements[s][1])>>

\* What one more payload continues.
Start(p, s) == Slots(p)[s]
Carried(p, s) == IF Keeps(Start(p, s), p, p.elements[s]) THEN Era(s) ELSE {}

LEMMA StartKept ==
  ASSUME KeptInv, NEW p \in Oamd, NEW s \in DOMAIN p.elements
  PROVE  /\ DOMAIN Slots(p) = DOMAIN p.elements
         /\ Kept(Start(p, s)) /\ FirstBlockAbsolute(Start(p, s)) /\ Start(p, s) \in Slot \cup {Nothing}
         /\ Len(elements) = Len(p.elements) => s \in DOMAIN elements /\ Start(p, s) = elements[s]
         /\ Len(elements) # Len(p.elements) => Start(p, s) = Nothing
<1>1. p.elements \in Seq(RawElement) /\ elements \in Seq(Slot \cup {Nothing})
  BY OamdTypes DEF KeptInv
<1>2. CASE Len(elements) = Len(p.elements)
  BY <1>1, <1>2 DEF Slots, Start, KeptInv
<1>3. CASE Len(elements) # Len(p.elements)
  BY <1>1, <1>3 DEF Slots, Start, Kept, FirstBlockAbsolute
<1> QED BY <1>2, <1>3

\* The payloads an era has after one more payload.
LEMMA EraRead ==
  ASSUME KeptInv, ShapeInv, RetainedIsLastSent, NEW p \in Oamd, applied' = Append(applied, p),
         Len(elements') = Len(p.elements), NEW s \in DOMAIN p.elements
  PROVE  Era(s)' = IF IsObject(p.elements[s]) THEN Carried(p, s) \cup {Len(applied) + 1}
                   ELSE IF Len(elements) = Len(p.elements) THEN Era(s) ELSE {}
<1> DEFINE n == Len(applied) + 1
           said == IsObject(p.elements[s])
           same == Len(elements) = Len(p.elements)
<1>1. /\ n \in Nat \ {0} /\ DOMAIN applied = 1 .. n - 1 /\ DOMAIN applied' = 1 .. n /\ Len(applied') = n
      /\ applied'[n] = p /\ \A i \in 1 .. n - 1 : applied'[i] = applied[i]
  BY DEF KeptInv
<1>2. n > 1 => Len(elements) = Len(applied[n - 1].elements)
  BY <1>1 DEF KeptInv
<1>3. Describes(p, s) <=> said
  BY DEF Describes
<1>4. Era(s)' = {i \in 1 .. n :
        /\ Describes(applied'[i], s)
        /\ \A j \in i .. n : /\ Len(applied'[j].elements) = Len(p.elements)
                             /\ Describes(applied'[j], s) => Shape(applied'[j], s) = Shape(applied'[i], s)}
  BY <1>1 DEF Era, Describes, Shape, IsObject
<1>5. Era(s) = {i \in 1 .. n - 1 :
        /\ Describes(applied[i], s)
        /\ \A j \in i .. n - 1 : /\ Len(applied[j].elements) = Len(elements)
                                 /\ Describes(applied[j], s) => Shape(applied[j], s) = Shape(applied[i], s)}
  BY <1>1 DEF Era
<1> HIDE DEF n, said, same
<1>6. n \in Era(s)' <=> said
  BY <1>1, <1>3, <1>4
<1>7. ASSUME NEW i \in 1 .. n - 1
      PROVE  i \in Era(s)' <=> /\ i \in Era(s) /\ same
                               /\ said => Shape(p, s) = Shape(applied[i], s)
  <2>1. n - 1 \in i .. n /\ n \in i .. n /\ i \in 1 .. n /\ n - 1 \in 1 .. n - 1 /\ n > 1
    BY <1>1, <1>7
  <2>2. i .. n = (i .. n - 1) \cup {n}
    BY <1>1, <1>7
  <2>3. ASSUME i \in Era(s)' PROVE same
    <3>1. Len(applied'[n - 1].elements) = Len(p.elements)
      BY <1>4, <2>1, <2>3
    <3> QED BY <1>1, <1>2, <2>1, <3>1 DEF same
  <2>4. ASSUME same
        PROVE  i \in Era(s)' <=> i \in Era(s) /\ (said => Shape(p, s) = Shape(applied[i], s))
    <3>1. \A j \in i .. n - 1 : applied'[j] = applied[j]
      BY <1>1
    <3>2. applied'[i] = applied[i]
      BY <1>1
    <3>3. Len(elements) = Len(p.elements)
      BY <2>4 DEF same
    <3> DEFINE Agrees(q) == Len(q.elements) = Len(p.elements) /\ (Describes(q, s) => Shape(q, s) = Shape(applied[i], s))
    <3>4. i \in Era(s)' <=> Describes(applied[i], s) /\ \A j \in i .. n : Agrees(applied'[j])
      BY <1>4, <2>1, <3>2
    <3>5. i \in Era(s) <=> Describes(applied[i], s) /\ \A j \in i .. n - 1 : Agrees(applied[j])
      BY <1>5, <3>3
    <3>6. Agrees(p) <=> (said => Shape(p, s) = Shape(applied[i], s))
      BY <1>3
    <3>7. applied'[n] = p
      BY <1>1
    <3> HIDE DEF Agrees
    <3>8. (\A j \in i .. n : Agrees(applied'[j])) <=> (\A j \in i .. n - 1 : Agrees(applied[j])) /\ Agrees(p)
      BY <2>2, <3>1, <3>7
    <3> QED BY <3>4, <3>5, <3>6, <3>8
  <2> QED BY <2>3, <2>4
<1>8. Era(s)' \subseteq 1 .. n /\ Era(s) \subseteq 1 .. n - 1 /\ 1 .. n = (1 .. n - 1) \cup {n}
  BY <1>1, <1>4, <1>5
<1>9. CASE ~said
  <2>1. \A i \in 1 .. n : i \in Era(s)' <=> i \in Era(s) /\ same
    <3> TAKE i \in 1 .. n
    <3>1. CASE i = n
      BY <1>1, <1>6, <1>8, <1>9, <3>1
    <3>2. CASE i # n
      BY <1>7, <1>8, <1>9, <3>2
    <3> QED BY <3>1, <3>2
  <2>2. Era(s)' = IF same THEN Era(s) ELSE {}
    BY <1>8, <2>1
  <2> QED BY <1>9, <2>2 DEF said, same
<1>10. CASE said
  <2>1. ASSUME NEW i \in Era(s), same
        PROVE  Keeps(Start(p, s), p, p.elements[s]) <=> Shape(p, s) = Shape(applied[i], s)
    <3>1. s \in DOMAIN elements /\ Start(p, s) = elements[s]
      BY <2>1, StartKept DEF same
    <3>2. elements[s] # Nothing
      BY <2>1, <3>1 DEF RetainedIsLastSent
    <3>3. Shape(applied[i], s) = <<Len(elements[s]), Len(elements[s][1])>>
      BY <2>1, <3>1, <3>2 DEF ShapeInv
    <3> QED BY <3>1, <3>2, <3>3 DEF Keeps, Shape
  <2>2. ASSUME ~same PROVE ~Keeps(Start(p, s), p, p.elements[s])
    BY <2>2, StartKept DEF same, Keeps
  <2>3. Era(s)' = Carried(p, s) \cup {n}
    BY <1>6, <1>7, <1>8, <1>10, <2>1, <2>2 DEF Carried
  <2> QED BY <1>10, <2>3 DEF said, n
<1> QED BY <1>9, <1>10

\* A payload is applied.
LEMMA ReadKept ==
  ASSUME KeptInv, NEW p \in Oamd, applied' = Append(applied, p), elements' = Resolved(p)
  PROVE  /\ KeptInv'
         /\ DOMAIN elements' = DOMAIN p.elements /\ Len(elements') = Len(p.elements)
         /\ \A s \in DOMAIN p.elements : elements'[s] = ResolveElement(Start(p, s), p, p.elements[s])
<1>1. p.elements \in Seq(RawElement) /\ applied \in Seq(Oamd)
  BY OamdTypes DEF KeptInv
<1>2. applied' \in Seq(Oamd) /\ applied' # << >> /\ applied'[Len(applied')] = p
  BY <1>1
<1>3. \A s \in DOMAIN p.elements : elements'[s] = ResolveElement(Start(p, s), p, p.elements[s])
  BY DEF Resolved, Start
<1>4. ASSUME NEW s \in DOMAIN p.elements
      PROVE  /\ Kept(elements'[s]) /\ FirstBlockAbsolute(elements'[s]) /\ elements'[s] \in Slot \cup {Nothing}
  <2>1. CASE IsObject(p.elements[s])
    BY <1>3, <2>1, StartKept, ElementKept
  <2>2. CASE ~IsObject(p.elements[s])
    BY <1>3, <2>2, StartKept DEF ResolveElement
  <2> QED BY <2>1, <2>2
<1>5. elements' \in Seq(Slot \cup {Nothing}) /\ DOMAIN elements' = DOMAIN p.elements /\ Len(elements') = Len(p.elements)
  <2>1. elements' = [s \in 1 .. Len(p.elements) |-> elements'[s]]
    BY <1>1 DEF Resolved
  <2> DEFINE value(s) == elements'[s]
  <2>2. \A s \in 1 .. Len(p.elements) : value(s) \in Slot \cup {Nothing}
    BY <1>1, <1>4
  <2>3. elements' = [s \in 1 .. Len(p.elements) |-> value(s)]
    BY <2>1
  <2> HIDE DEF value
  <2> QED BY <1>1, <2>2, <2>3
<1>6. KeptInv'
  BY <1>2, <1>4, <1>5 DEF KeptInv, Kept, FirstBlockAbsolute
<1> QED BY <1>3, <1>5, <1>6

LEMMA ReadShape ==
  ASSUME KeptInv, ShapeInv, RetainedIsLastSent, NEW p \in Oamd, applied' = Append(applied, p), elements' = Resolved(p)
  PROVE  ShapeInv'
<1> SUFFICES ASSUME NEW s \in DOMAIN elements', NEW i \in Era(s)', elements'[s] # Nothing
             PROVE  Shape(applied'[i], s) = <<Len(elements'[s]), Len(elements'[s][1])>>
  BY DEF ShapeInv, Shape
<1>1. /\ s \in DOMAIN p.elements /\ Len(elements') = Len(p.elements)
      /\ elements'[s] = ResolveElement(Start(p, s), p, p.elements[s])
  BY ReadKept
<1>2. /\ Kept(Start(p, s)) /\ FirstBlockAbsolute(Start(p, s))
      /\ Len(elements) = Len(p.elements) => s \in DOMAIN elements /\ Start(p, s) = elements[s]
      /\ Len(elements) # Len(p.elements) => Start(p, s) = Nothing
  BY <1>1, StartKept
<1>3. Era(s)' = IF IsObject(p.elements[s]) THEN Carried(p, s) \cup {Len(applied) + 1}
                ELSE IF Len(elements) = Len(p.elements) THEN Era(s) ELSE {}
  BY <1>1, EraRead
<1>4. /\ Len(applied) \in Nat /\ applied'[Len(applied) + 1] = p
      /\ \A k \in DOMAIN applied : applied'[k] = applied[k]
      /\ Era(s) \subseteq DOMAIN applied
  BY DEF KeptInv, Era
<1>5. CASE IsObject(p.elements[s])
  <2>1. /\ Len(elements'[s]) = p.object_count /\ Len(elements'[s][1]) = p.elements[s].block_count
    <3>1. 1 \in 1 .. p.object_count
      BY OamdTypes
    <3> QED BY <1>1, <1>2, <1>5, <3>1, ElementKept
  <2>2. CASE i = Len(applied) + 1
    BY <1>4, <2>1, <2>2 DEF Shape
  <2>3. CASE i # Len(applied) + 1
    <3>1. i \in Era(s) /\ Keeps(Start(p, s), p, p.elements[s])
      BY <1>3, <1>5, <2>3 DEF Carried
    <3>2. s \in DOMAIN elements /\ Start(p, s) = elements[s] /\ elements[s] # Nothing
      BY <1>2, <3>1 DEF Keeps
    <3>3. Shape(applied[i], s) = <<Len(elements[s]), Len(elements[s][1])>>
      BY <3>1, <3>2 DEF ShapeInv
    <3>4. Len(elements[s]) = p.object_count /\ Len(elements[s][1]) = p.elements[s].block_count
      BY <3>1, <3>2 DEF Keeps
    <3>5. applied'[i] = applied[i]
      BY <1>4, <3>1
    <3> QED BY <2>1, <3>3, <3>4, <3>5
  <2> QED BY <2>2, <2>3
<1>6. CASE ~IsObject(p.elements[s])
  <2>1. Len(elements) = Len(p.elements) /\ i \in Era(s)
    BY <1>3, <1>6
  <2>2. s \in DOMAIN elements /\ elements'[s] = elements[s]
    BY <1>1, <1>2, <1>6, <2>1 DEF ResolveElement
  <2>3. applied'[i] = applied[i]
    BY <1>4, <2>1
  <2> QED BY <2>1, <2>2, <2>3 DEF ShapeInv
<1> QED BY <1>5, <1>6

\* The part of the property about one block.
BlockRetained(kept, s, o, b) ==
  Retains(kept, [i \in Era(s) |-> Said(i, s, o, b)], {i \in Era(s) : o <= Beds(i)})

LEMMA ReadBlock ==
  ASSUME KeptInv, ShapeInv, RetainedIsLastSent, NEW p \in Oamd, applied' = Append(applied, p), elements' = Resolved(p),
         NEW s \in DOMAIN p.elements, IsObject(p.elements[s]),
         NEW o \in 1 .. p.object_count, NEW b \in 1 .. p.elements[s].block_count,
         NEW n, n = Len(applied) + 1
  PROVE  BlockRetained(elements[s][o][b], s, o, b)'
<1> DEFINE F == Carried(p, s)
           old == Old(Start(p, s), p, p.elements[s], o, b)
           said == [i \in F |-> Said(i, s, o, b)]
           tied == {i \in F : o <= Beds(i)}
           more == [i \in F \cup {n} |-> Said(i, s, o, b)']
           bed == o <= BedOrIsfObjects(p.program)
<1>1. /\ n \in Nat /\ applied'[n] = p /\ \A k \in DOMAIN applied : applied'[k] = applied[k]
      /\ F \subseteq DOMAIN applied /\ DOMAIN applied \subseteq Nat /\ \A k \in DOMAIN applied : k < n
  BY DEF KeptInv, Era, Carried
<1>2. Era(s)' = F \cup {n}
  BY ReadKept, EraRead
<1>3. elements'[s][o][b] = ResolveBlock(old, Saying(p, s, o, b), bed)
  <2>1. elements'[s] = ResolveElement(Start(p, s), p, p.elements[s])
    BY ReadKept
  <2>2. ResolveElement(Start(p, s), p, p.elements[s])[o][b]
          = ResolveBlock(old, Saying(p, s, o, b), o <= BedOrIsfObjects(p.program))
    BY ResolveElementIs
  <2> QED BY <2>1, <2>2
<1>4. Said(n, s, o, b)' = Saying(p, s, o, b)
  BY <1>1 DEF Said, Saying, Beds
<1>5. \A i \in F : Said(i, s, o, b)' = Said(i, s, o, b) /\ Beds(i)' = Beds(i)
  BY <1>1 DEF Said, Beds
<1>6. Beds(n)' = BedOrIsfObjects(p.program)
  BY <1>1 DEF Beds
<1>7. Continues(said, more, n)
  BY <1>1, <1>5 DEF Continues
<1>8. Retains(old, said, tied)
  <2>1. CASE Keeps(Start(p, s), p, p.elements[s])
    <3>1. s \in DOMAIN elements /\ Start(p, s) = elements[s] /\ elements[s] # Nothing /\ F = Era(s)
      BY <2>1, StartKept DEF Keeps, Carried
    <3>2. /\ elements[s] \in Slot /\ Len(elements[s]) = p.object_count
          /\ Len(elements[s][1]) = p.elements[s].block_count
          /\ \A q \in DOMAIN elements[s] : Len(elements[s][q]) = Len(elements[s][1])
      BY <2>1, <3>1 DEF Keeps, KeptInv, Kept
    <3>3. o \in DOMAIN elements[s]
      BY <3>2 DEF Slot
    <3>4. b \in DOMAIN elements[s][o]
      <4>1. elements[s][o] \in Seq(KeptBlock) /\ Len(elements[s][o]) = p.elements[s].block_count
        BY <3>2, <3>3 DEF Slot
      <4> QED BY <4>1
    <3>5. old = elements[s][o][b]
      BY <2>1, <3>1 DEF Old
    <3>6. Retains(elements[s][o][b], [i \in Era(s) |-> Said(i, s, o, b)], {i \in Era(s) : o <= Beds(i)})
      BY <3>1, <3>3, <3>4 DEF RetainedIsLastSent
    <3> QED BY <3>1, <3>5, <3>6
  <2>2. CASE ~Keeps(Start(p, s), p, p.elements[s])
    <3>1. F = {} /\ old = Default
      BY <2>2 DEF Carried, Old
    <3>2. DOMAIN said = {} /\ tied = {}
      BY <3>1
    <3> HIDE DEF said, tied, F, old
    <3> QED BY <3>1, <3>2, RetainsDefault
  <2> QED BY <2>1, <2>2
<1>9. more[n] = Saying(p, s, o, b)
  BY <1>4
<1>10. more[n].screen \in BOOLEAN /\ more[n].render_sent \in BOOLEAN /\ bed \in BOOLEAN
  BY <1>9, SaidTypes
<1>11. tied \in SUBSET DOMAIN said
  OBVIOUS
<1>12. {i \in F \cup {n} : o <= Beds(i)'} = IF bed THEN tied \cup {n} ELSE tied
  BY <1>5, <1>6
<1> DEFINE then == {i \in F \cup {n} : o <= Beds(i)'}
<1> HIDE DEF F, old, said, tied, more, bed, then
<1>13. Retains(elements'[s][o][b], more, then)
  <2>1. Retains(ResolveBlock(old, more[n], bed), more, IF bed THEN tied \cup {n} ELSE tied)
    BY <1>7, <1>8, <1>10, <1>11, RetainsMore
  <2>2. (IF bed THEN tied \cup {n} ELSE tied) = then
    BY <1>12 DEF then
  <2>3. elements'[s][o][b] = ResolveBlock(old, more[n], bed)
    BY <1>3, <1>9
  <2> QED BY <2>1, <2>2, <2>3
<1> QED BY <1>2, <1>13 DEF BlockRetained, more, then

LEMMA ReadRetained ==
  ASSUME KeptInv, ShapeInv, RetainedIsLastSent, NEW p \in Oamd, applied' = Append(applied, p), elements' = Resolved(p)
  PROVE  RetainedIsLastSent'
<1>1. ASSUME NEW s \in DOMAIN p.elements, IsObject(p.elements[s])
      PROVE  /\ elements'[s] # Nothing /\ Era(s)' # {}
             /\ DOMAIN elements'[s] = 1 .. p.object_count
             /\ \A o \in 1 .. p.object_count : DOMAIN elements'[s][o] = 1 .. p.elements[s].block_count
  <2>1. elements'[s] = ResolveElement(Start(p, s), p, p.elements[s]) /\ Len(elements') = Len(p.elements)
    BY ReadKept
  <2>2. Kept(Start(p, s)) /\ FirstBlockAbsolute(Start(p, s))
    BY StartKept
  <2>3. Len(applied) + 1 \in Era(s)'
    BY <1>1, <2>1, EraRead
  <2> QED BY <1>1, <2>1, <2>2, <2>3, ElementKept
<1>2. ASSUME NEW s \in DOMAIN p.elements, ~IsObject(p.elements[s])
      PROVE  \/ /\ s \in DOMAIN elements /\ elements'[s] = elements[s] /\ Era(s)' = Era(s)
                /\ \A i \in Era(s) : applied'[i] = applied[i]
             \/ elements'[s] = Nothing /\ Era(s)' = {}
  <2>1. elements'[s] = Start(p, s) /\ Len(elements') = Len(p.elements)
    BY <1>2, ReadKept DEF ResolveElement
  <2>2. Era(s)' = IF Len(elements) = Len(p.elements) THEN Era(s) ELSE {}
    BY <1>2, <2>1, EraRead
  <2>3. \A i \in Era(s) : applied'[i] = applied[i]
    BY DEF Era, KeptInv
  <2> QED BY <2>1, <2>2, <2>3, StartKept
<1>3. ASSUME NEW s \in DOMAIN p.elements
      PROVE  (elements'[s] = Nothing) = (Era(s)' = {})
  BY <1>1, <1>2 DEF RetainedIsLastSent
<1>4. ASSUME NEW s \in DOMAIN p.elements, elements'[s] # Nothing,
             NEW o \in DOMAIN elements'[s], NEW b \in DOMAIN elements'[s][o]
      PROVE  BlockRetained(elements[s][o][b], s, o, b)'
  <2>1. CASE IsObject(p.elements[s])
    <3>1. PICK n : n = Len(applied) + 1
      OBVIOUS
    <3> QED BY <1>1, <1>4, <2>1, <3>1, ReadBlock
  <2>2. CASE ~IsObject(p.elements[s])
    <3>1. /\ s \in DOMAIN elements /\ elements'[s] = elements[s] /\ Era(s)' = Era(s)
          /\ \A i \in Era(s) : applied'[i] = applied[i]
      BY <1>2, <1>4, <2>2
    <3>2. \A i \in Era(s) : Said(i, s, o, b)' = Said(i, s, o, b) /\ Beds(i)' = Beds(i)
      BY <3>1 DEF Said, Beds
    <3>3. [i \in Era(s)' |-> Said(i, s, o, b)'] = [i \in Era(s) |-> Said(i, s, o, b)]
      BY <3>1, <3>2
    <3>4. {i \in Era(s)' : o <= Beds(i)'} = {i \in Era(s) : o <= Beds(i)}
      BY <3>1, <3>2
    <3>5. Retains(elements[s][o][b], [i \in Era(s) |-> Said(i, s, o, b)], {i \in Era(s) : o <= Beds(i)})
      BY <1>4, <3>1 DEF RetainedIsLastSent
    <3> QED BY <3>1, <3>3, <3>4, <3>5 DEF BlockRetained
  <2> QED BY <2>1, <2>2
<1>5. DOMAIN elements' = DOMAIN p.elements
  BY ReadKept
<1> QED BY <1>3, <1>4, <1>5 DEF RetainedIsLastSent, BlockRetained

----------------------------------------------------------------------------
(***************************************************************************)
(* The scan, and what it tells of.                                         *)
(***************************************************************************)

Telling == [at : Nat, elements : Seq(Slot \cup {Nothing})]

\* What a push is about, and the units counted.
ScanInv ==
  /\ unit \in Units \cup {Nothing} /\ source \in {"None", "AuxData", "FrameScanFallback"}
  /\ todo \in Seq(EmdfBlock)
  /\ block \in Seq(Telling \cup {Nothing}) /\ found \in Seq(Telling \cup {Nothing})
  /\ view \in Telling \cup {Nothing}
  /\ todo = << >> => block = << >>
  /\ Idle => todo = << >> /\ found = << >>
  /\ units \in 0 .. MaxUnits /\ frames_seen \in 0 .. units
  /\ ~Idle => frames_seen < units

\* What is told of the last payload applied is what is kept.
Current(v) ==
  v # Nothing =>
    /\ v.at <= Len(applied)
    /\ v.at = Len(applied) =>
         /\ DOMAIN v.elements = DOMAIN elements
         /\ \A s \in DOMAIN elements : v.elements[s] # Nothing => v.elements[s] = elements[s]

ToldInv ==
  /\ Current(view)
  /\ \A i \in DOMAIN block : Current(block[i])
  /\ \A i \in DOMAIN found : Current(found[i])

IInv == KeptInv /\ ShapeInv /\ RetainedIsLastSent /\ ScanInv /\ ToldInv

LEMMA InitInv == Init => IInv
<1> SUFFICES ASSUME Init PROVE IInv
  OBVIOUS
<1> USE DEF Init
<1>1. KeptInv /\ ShapeInv /\ RetainedIsLastSent
  BY DEF KeptInv, ShapeInv, RetainedIsLastSent
<1>2. ScanInv
  BY MetadataAssumption DEF ScanInv, Idle
<1>3. ToldInv
  BY DEF ToldInv, Current
<1> QED BY <1>1, <1>2, <1>3 DEF IInv

\* Steps that apply nothing.
LEMMA KeptStays ==
  ASSUME IInv, UNCHANGED <<elements, applied>>
  PROVE  KeptInv' /\ ShapeInv' /\ RetainedIsLastSent' /\ \A v : Current(v)' <=> Current(v)
<1>1. \A s : Era(s)' = Era(s)
  BY DEF Era, Describes, Shape, IsObject
<1>2. KeptInv'
  BY DEF IInv, KeptInv, Kept, FirstBlockAbsolute
<1>3. ShapeInv'
  BY <1>1 DEF IInv, ShapeInv, Shape
<1>4. \A i, s, o, b : Said(i, s, o, b)' = Said(i, s, o, b) /\ Beds(i)' = Beds(i)
  BY DEF Said, Beds
<1>5. RetainedIsLastSent'
  BY <1>1, <1>4 DEF IInv, RetainedIsLastSent
<1>6. ASSUME NEW v PROVE Current(v)' <=> Current(v)
  BY DEF Current
<1> QED BY <1>2, <1>3, <1>5, <1>6

LEMMA UnitTypes ==
  ASSUME NEW u \in Units
  PROVE  u # Nothing /\ AuxData(u) \in Seq(EmdfBlock) /\ u.scanned \in Seq(EmdfBlock)
<1>1. u # Nothing /\ u \in Unit
  BY MetadataAssumption
<1>2. SkipFields(u) \in Seq(EmdfBlock)
  BY <1>1 DEF SkipFields, Unit
<1> QED BY <1>1, <1>2 DEF AuxData, Unit

\* One payload of a block is behind.
LEMMA AdvanceTypes ==
  ASSUME ScanInv, InBlock, Advance
  PROVE  /\ Head(Head(todo).payloads) \in Payloads
         /\ todo' \in Seq(EmdfBlock) /\ todo' # << >> /\ ~Idle
<1> DEFINE h == Head(todo)
           rest == [h EXCEPT !.payloads = Tail(@)]
<1>1. todo \in Seq(EmdfBlock) /\ todo # << >>
  BY DEF ScanInv, InBlock
<1>2. h \in EmdfBlock /\ Tail(todo) \in Seq(EmdfBlock)
  BY <1>1
<1>3. h.payloads \in Seq(Payloads) /\ h.payloads # << >> /\ h.whole \in BOOLEAN
  BY <1>2 DEF EmdfBlock, InBlock
<1>4. Tail(h.payloads) \in Seq(Payloads) /\ Head(h.payloads) \in Payloads
  BY <1>3
<1>5. rest \in EmdfBlock
  BY <1>2, <1>3, <1>4 DEF EmdfBlock
<1>6. todo' = <<rest>> \o Tail(todo)
  BY DEF Advance
<1> HIDE DEF rest, h
<1>7. todo' \in Seq(EmdfBlock) /\ todo' # << >>
  BY <1>2, <1>5, <1>6
<1> QED BY <1>1, <1>4, <1>7 DEF ScanInv, h

\* A payload is told of as it was resolved, and what was told before is not of the last one any more.
LEMMA ToldCurrent ==
  ASSUME IInv, NEW p \in Oamd, applied' = Append(applied, p), elements' = Resolved(p), NEW told, told = Told(p)
  PROVE  /\ told \in Telling /\ Current(told)'
         /\ \A v \in Telling \cup {Nothing} : Current(v) => Current(v)'
<1>1. /\ KeptInv' /\ DOMAIN elements' = DOMAIN p.elements
      /\ applied \in Seq(Oamd) /\ p.elements \in Seq(RawElement)
  BY ReadKept, OamdTypes DEF IInv, KeptInv
<1>2. Len(applied') = Len(applied) + 1 /\ Len(applied) \in Nat
  BY <1>1
<1> DEFINE entry(s) == IF IsObject(p.elements[s]) THEN elements'[s] ELSE Nothing
<1>3. told = [at |-> Len(applied) + 1, elements |-> [s \in DOMAIN p.elements |-> entry(s)]]
  BY DEF Told
<1>4. told \in Telling
  <2>1. DOMAIN p.elements = 1 .. Len(p.elements) /\ Len(p.elements) \in Nat
    BY <1>1
  <2>2. \A s \in DOMAIN p.elements : entry(s) \in Slot \cup {Nothing}
    BY <1>1 DEF KeptInv
  <2> HIDE DEF entry
  <2>3. [s \in 1 .. Len(p.elements) |-> entry(s)] \in Seq(Slot \cup {Nothing})
    BY <2>1, <2>2
  <2> QED BY <1>2, <1>3, <2>1, <2>3 DEF Telling
<1>5. Current(told)'
  BY <1>1, <1>2, <1>3 DEF Current
<1>6. ASSUME NEW v \in Telling \cup {Nothing}, Current(v) PROVE Current(v)'
  BY <1>2, <1>6 DEF Current, Telling
<1> QED BY <1>4, <1>5, <1>6

LEMMA OtherInv ==
  ASSUME IInv, ReadOther
  PROVE  IInv'
<1>1. /\ InBlock /\ Advance /\ block' = Append(block, Nothing)
      /\ UNCHANGED <<elements, frames_seen, unit, source, found, units, applied, view>>
  BY DEF ReadOther, history
<1>2. KeptInv' /\ ShapeInv' /\ RetainedIsLastSent' /\ \A v : Current(v)' <=> Current(v)
  BY <1>1, KeptStays
<1>3. ScanInv'
  BY <1>1, AdvanceTypes DEF IInv, ScanInv, Idle
<1>4. ToldInv'
  <2>1. \A i \in DOMAIN block' : block'[i] = Nothing \/ (i \in DOMAIN block /\ block'[i] = block[i])
    BY <1>1 DEF IInv, ScanInv
  <2>2. Current(Nothing)
    BY DEF Current
  <2>3. \A i \in DOMAIN block' : Current(block'[i])
    BY <2>1, <2>2 DEF IInv, ToldInv
  <2>4. \A i \in DOMAIN found' : Current(found'[i])
    BY <1>1 DEF IInv, ToldInv
  <2>5. Current(view')
    BY <1>1 DEF IInv, ToldInv
  <2> QED BY <1>2, <2>3, <2>4, <2>5 DEF ToldInv
<1> QED BY <1>2, <1>3, <1>4 DEF IInv

LEMMA OamdInv ==
  ASSUME IInv, ReadOamd
  PROVE  IInv'
<1>1. PICK p : p = Head(Head(todo).payloads)
  OBVIOUS
<1>2. PICK told : told = Told(p)
  OBVIOUS
<1>3. /\ InBlock /\ Advance /\ ~Opaque(p) /\ block' = Append(block, told)
      /\ elements' = Resolved(p) /\ applied' = Append(applied, p)
      /\ UNCHANGED <<frames_seen, unit, source, found, units, view>>
  BY <1>1, <1>2 DEF ReadOamd
<1>4. p \in Oamd
  BY <1>1, <1>3, AdvanceTypes DEF IInv, Opaque, Oamd
<1>5. KeptInv' /\ ShapeInv' /\ RetainedIsLastSent'
  BY <1>3, <1>4, ReadKept, ReadShape, ReadRetained DEF IInv
<1>6. /\ told \in Telling /\ Current(told)'
      /\ \A v \in Telling \cup {Nothing} : Current(v) => Current(v)'
  BY <1>2, <1>3, <1>4, ToldCurrent
<1>7. ScanInv'
  BY <1>3, <1>6, AdvanceTypes DEF IInv, ScanInv, Idle
<1>8. ToldInv'
  <2>1. \A i \in DOMAIN block' : block'[i] = told \/ (i \in DOMAIN block /\ block'[i] = block[i])
    BY <1>3 DEF IInv, ScanInv
  <2>2. ASSUME NEW i \in DOMAIN block' PROVE Current(block[i])'
    <3>1. PICK v : v = block'[i]
      OBVIOUS
    <3>2. Current(v)'
      <4>1. CASE v = told
        BY <1>6, <4>1
      <4>2. CASE i \in DOMAIN block /\ v = block[i]
        BY <1>6, <4>2 DEF IInv, ToldInv, ScanInv
      <4> QED BY <2>1, <3>1, <4>1, <4>2
    <3> QED BY <3>1, <3>2
  <2>3. ASSUME NEW i \in DOMAIN found' PROVE Current(found[i])'
    <3>1. PICK v : v = found[i]
      OBVIOUS
    <3>2. v \in Telling \cup {Nothing} /\ Current(v) /\ v = found'[i]
      BY <1>3, <2>3, <3>1 DEF IInv, ToldInv, ScanInv
    <3> QED BY <1>6, <3>2
  <2>4. Current(view)'
    <3>1. PICK v : v = view
      OBVIOUS
    <3>2. v \in Telling \cup {Nothing} /\ Current(v) /\ v = view'
      BY <1>3, <3>1 DEF IInv, ToldInv, ScanInv
    <3> QED BY <1>6, <3>2
  <2> QED BY <2>2, <2>3, <2>4 DEF ToldInv
<1> QED BY <1>5, <1>7, <1>8 DEF IInv

\* The end of a block keeps what was told, or forgets it.
LEMMA EndInv ==
  ASSUME IInv, EndBlock
  PROVE  IInv'
<1>1. /\ todo # << >> /\ todo' = Tail(todo) /\ block' = << >>
      /\ found' = found \o block \/ found' = found
      /\ UNCHANGED <<elements, frames_seen, unit, source, units, applied, view>>
  BY DEF EndBlock, history
<1>2. KeptInv' /\ ShapeInv' /\ RetainedIsLastSent' /\ \A v : Current(v)' <=> Current(v)
  BY <1>1, KeptStays
<1>3. todo \in Seq(EmdfBlock) /\ found \in Seq(Telling \cup {Nothing}) /\ block \in Seq(Telling \cup {Nothing})
  BY DEF IInv, ScanInv
<1>4. todo' \in Seq(EmdfBlock) /\ found' \in Seq(Telling \cup {Nothing})
  <2>1. Tail(todo) \in Seq(EmdfBlock)
    BY <1>1, <1>3
  <2>2. found \o block \in Seq(Telling \cup {Nothing})
    BY <1>3
  <2> QED BY <1>1, <1>3, <2>1, <2>2
<1>5. ScanInv'
  BY <1>1, <1>4 DEF IInv, ScanInv, Idle
<1>6. ASSUME NEW i \in DOMAIN found' PROVE Current(found'[i])
  <2>1. \/ i \in DOMAIN found /\ found'[i] = found[i]
        \/ \E j \in DOMAIN block : found'[i] = block[j]
    <3>1. CASE found' = found
      BY <1>6, <3>1
    <3>2. CASE found' = found \o block
      <4>1. i \in 1 .. Len(found) + Len(block)
        BY <1>3, <1>6, <3>2
      <4>2. i \in 1 .. Len(found) \/ i - Len(found) \in 1 .. Len(block)
        BY <1>3, <4>1
      <4> QED BY <1>3, <3>2, <4>2
    <3> QED BY <1>1, <3>1, <3>2
  <2> QED BY <2>1 DEF IInv, ToldInv
<1>7. Current(view')
  BY <1>1 DEF IInv, ToldInv
<1>8. ToldInv'
  BY <1>1, <1>2, <1>6, <1>7 DEF ToldInv
<1> QED BY <1>2, <1>5, <1>8 DEF IInv

\* The client is told what a block of the frame told last, or nothing new.
LEMMA LastToldCurrent ==
  ASSUME IInv
  PROVE  LastTold \in Telling \cup {Nothing} /\ Current(LastTold)
<1> DEFINE told == {i \in DOMAIN found : found[i] # Nothing}
<1>1. found \in Seq(Telling \cup {Nothing}) /\ view \in Telling \cup {Nothing} /\ Current(view)
  BY DEF IInv, ScanInv, ToldInv
<1>2. told \in SUBSET Nat /\ Len(found) + 1 \in Nat /\ \A i \in told : i < Len(found) + 1
  BY <1>1
<1>3. told \subseteq DOMAIN found
  OBVIOUS
<1>4. LastTold = IF told = {} THEN view ELSE found[Max(told)]
  BY DEF LastTold
<1> HIDE DEF told
<1>5. told # {} => Max(told) \in DOMAIN found
  BY <1>2, <1>3, MaxOf
<1> QED BY <1>1, <1>4, <1>5 DEF IInv, ToldInv

LEMMA ReturnInv ==
  ASSUME IInv, Return
  PROVE  IInv'
<1>1. PICK last : last = LastTold
  OBVIOUS
<1>2. /\ ~Idle /\ todo = << >> /\ unit' = Nothing /\ source' = "None" /\ found' = << >>
      /\ \/ frames_seen' = frames_seen + 1 /\ view' = last
         \/ UNCHANGED <<frames_seen, view>>
      /\ UNCHANGED <<elements, todo, block, units, applied>>
  BY <1>1 DEF Return
<1>3. KeptInv' /\ ShapeInv' /\ RetainedIsLastSent' /\ \A v : Current(v)' <=> Current(v)
  BY <1>2, KeptStays
<1>4. last \in Telling \cup {Nothing} /\ Current(last)
  BY <1>1, LastToldCurrent
<1>5. ScanInv'
  BY <1>2, <1>4, MetadataAssumption DEF IInv, ScanInv, Idle
<1>6. Current(view') /\ block' = block
  BY <1>2, <1>4 DEF IInv, ToldInv
<1>7. ToldInv'
  BY <1>2, <1>3, <1>6 DEF IInv, ToldInv
<1> QED BY <1>3, <1>5, <1>7 DEF IInv

LEMMA ResetInv ==
  ASSUME IInv, Reset
  PROVE  IInv'
<1>1. /\ Idle /\ elements' = << >> /\ frames_seen' = 0 /\ units' = 0 /\ applied' = << >> /\ view' = Nothing
      /\ UNCHANGED <<unit, source, todo, block, found>>
  BY DEF Reset, push
<1>2. todo = << >> /\ block = << >> /\ found = << >>
  BY <1>1 DEF IInv, ScanInv
<1>3. KeptInv' /\ ShapeInv' /\ RetainedIsLastSent'
  BY <1>1 DEF KeptInv, ShapeInv, RetainedIsLastSent
<1>4. ScanInv'
  BY <1>1, <1>2, MetadataAssumption DEF IInv, ScanInv, Idle
<1>5. ToldInv'
  BY <1>1, <1>2 DEF ToldInv, Current
<1> QED BY <1>3, <1>4, <1>5 DEF IInv

LEMMA MaxUnitsNat == MaxUnits \in Nat
  BY MetadataAssumption

\* The steps between the blocks.
LEMMA ScanStep ==
  ASSUME IInv, (\E u \in Units : Refuse(u)) \/ (\E u \in Units : Begin(u)) \/ ScanFrame \/ UNCHANGED vars
  PROVE  IInv'
<1>1. UNCHANGED <<elements, applied, view, block, found>>
  BY DEF Refuse, Begin, ScanFrame, vars, push, history
<1>2. KeptInv' /\ ShapeInv' /\ RetainedIsLastSent' /\ \A v : Current(v)' <=> Current(v)
  BY <1>1, KeptStays
<1>3. ScanInv'
  <2> USE MaxUnitsNat
  <2>1. ASSUME NEW u \in Units, Refuse(u) PROVE ScanInv'
    BY <2>1 DEF Refuse, push, IInv, ScanInv, Idle
  <2>2. ASSUME NEW u \in Units, Begin(u) PROVE ScanInv'
    BY <2>2, UnitTypes DEF Begin, IInv, ScanInv, Idle
  <2>3. CASE ScanFrame
    <3>1. unit \in Units
      BY <2>3 DEF ScanFrame, IInv, ScanInv, Idle
    <3> QED BY <2>3, <3>1, UnitTypes DEF ScanFrame, history, IInv, ScanInv, Idle
  <2>4. CASE UNCHANGED vars
    BY <2>4 DEF vars, push, history, IInv, ScanInv, Idle
  <2> QED BY <2>1, <2>2, <2>3, <2>4
<1>4. ToldInv'
  <2>1. Current(view') /\ (\A i \in DOMAIN block' : Current(block'[i])) /\ (\A i \in DOMAIN found' : Current(found'[i]))
    BY <1>1 DEF IInv, ToldInv
  <2> QED BY <1>2, <2>1 DEF ToldInv
<1> QED BY <1>2, <1>3, <1>4 DEF IInv

LEMMA Invariance == Spec => []IInv
<1>1. IInv /\ [Next]_vars => IInv'
  BY ScanStep, OtherInv, OamdInv, EndInv, ReturnInv, ResetInv DEF Next
<1> QED BY InitInv, <1>1, PTL DEF Spec

\* What is kept has the shape the next payload relies on, and its first blocks stand for themselves.
THEOREM TypeCorrect == Spec => []TypeOK
<1>1. IInv => TypeOK
  BY DEF IInv, KeptInv, ScanInv, TypeOK
<1> QED BY <1>1, Invariance, PTL

\* A value kept for a block of an object is the last one sent for it since its element was made anew.
THEOREM RetainedIsAlwaysLastSent == Spec => []RetainedIsLastSent
<1>1. IInv => RetainedIsLastSent
  BY DEF IInv
<1> QED BY <1>1, Invariance, PTL

\* An object is tied to speakers exactly if it is a bed object, unless the border was moved.
THEOREM AnchorsAlwaysTellBeds == Spec => []AnchorsTellBeds
<1>1. ASSUME IInv PROVE AnchorsTellBeds
  <2> SUFFICES ASSUME NEW s \in DOMAIN elements, elements[s] # Nothing, \A i, j \in Era(s) : Beds(i) = Beds(j),
                      NEW o \in DOMAIN elements[s], NEW b \in DOMAIN elements[s][o]
               PROVE  (elements[s][o][b].anchor = "speaker") = (\E i \in Era(s) : o <= Beds(i))
    BY DEF AnchorsTellBeds
  <2> DEFINE tied == {i \in Era(s) : o <= Beds(i)}
             said == [i \in Era(s) |-> Said(i, s, o, b)]
             screen == {i \in DOMAIN said : said[i].screen}
  <2>1. elements[s][o][b].anchor = IF tied \cup screen = {} THEN "room"
                                   ELSE IF Max(tied \cup screen) \in tied THEN "speaker" ELSE "screen"
    <3>1. Retains(elements[s][o][b], said, tied)
      BY <1>1 DEF IInv, RetainedIsLastSent
    <3> QED BY <3>1 DEF Retains
  <2>2. CASE tied = {}
    BY <2>1, <2>2
  <2>3. CASE tied # {}
    <3>1. tied = Era(s) /\ screen \subseteq Era(s)
      BY <2>3
    <3>2. tied \cup screen = tied
      BY <3>1
    <3>3. tied \in SUBSET Nat /\ Len(applied) + 1 \in Nat /\ \A i \in tied : i < Len(applied) + 1
      BY <1>1 DEF IInv, KeptInv, Era
    <3>4. Max(tied) \in tied
      <4> HIDE DEF tied
      <4> QED BY <2>3, <3>3, MaxOf
    <3> QED BY <2>1, <2>3, <3>2, <3>4
  <2> QED BY <2>2, <2>3
<1> QED BY <1>1, Invariance, PTL

\* What the client was told last is what the next payload will be completed by, unless one was applied
\* since that it never saw.
THEOREM ClientStaysUpToDate == Spec => []ClientUpToDate
<1>1. IInv => ClientUpToDate
  BY DEF IInv, ToldInv, Current, ClientUpToDate
<1> QED BY <1>1, Invariance, PTL
=============================================================================
