---------------------- MODULE MetadataRendererProofs ----------------------
EXTENDS MetadataRenderer, SequenceTheorems, TLAPS

(***************************************************************************)
(* Vectors                                                                 *)
(***************************************************************************)

LEMMA RepeatTypes ==
  ASSUME NEW S, NEW n \in Nat, NEW v \in S
  PROVE  Repeat(n, v) \in Seq(S) /\ Len(Repeat(n, v)) = n
  BY DEF Repeat

LEMMA ResizedTypes ==
  ASSUME NEW S, NEW vector \in Seq(S), NEW n \in Nat, NEW v \in S
  PROVE  Resized(vector, n, v) \in Seq(S) /\ Len(Resized(vector, n, v)) = n
  BY RepeatTypes DEF Resized

LEMMA MappedTypes ==
  ASSUME NEW S, NEW n \in Nat, NEW f \in [1 .. n -> S]
  PROVE  f \in Seq(S) /\ Len(f) = n
  OBVIOUS

LEMMA SaturatedType ==
  ASSUME NEW m \in Nat, NEW n \in Nat
  PROVE  Saturated(m, n) \in Nat
  BY DEF Saturated

\* What the vectors of one element's state have in common.
ElementOK(e) ==
  /\ e \in ElementState
  /\ Len(e.used) = Len(e.blocks)
  /\ Len(e.update_last) = Len(e.update_now) /\ Len(e.future) = Len(e.update_now)
  /\ \A b \in DOMAIN e.blocks : Len(e.blocks[b].objects) = e.objects

LEMMA DefaultElementOK == ElementOK(DefaultElement)
  BY DEF ElementOK, DefaultElement, ElementState

\* apply_element leaves an element that fits its payload, and never touches the per-object
\* vectors of one that fitted already.
LEMMA AppliedElementOK ==
  ASSUME NEW e, ElementOK(e), NEW n \in Nat, NEW d \in Nat, NEW blocks \in Seq(Block),
         \A b \in DOMAIN blocks : Len(blocks[b].objects) = n
  PROVE  /\ ElementOK(AppliedElement(e, blocks, n, d))
         /\ AppliedElement(e, blocks, n, d).objects = n
         /\ \/ Len(AppliedElement(e, blocks, n, d).update_now) = d
            \/ /\ e.objects = n
               /\ AppliedElement(e, blocks, n, d).update_now = e.update_now
<1> DEFINE a      == AppliedElement(e, blocks, n, d)
           free   == Repeat(Len(blocks), FALSE)
           none   == Repeat(d, FALSE)
           places == Repeat(d, Origin)
<1>1. /\ free \in Seq(BOOLEAN) /\ Len(free) = Len(blocks)
      /\ none \in Seq(BOOLEAN) /\ Len(none) = d
      /\ places \in Seq(Places \cup {Between}) /\ Len(places) = d
  <2>1. Len(blocks) \in Nat
    OBVIOUS
  <2>2. free \in Seq(BOOLEAN) /\ Len(free) = Len(blocks)
    BY <2>1, RepeatTypes, Zenon
  <2>3. none \in Seq(BOOLEAN) /\ Len(none) = d
    BY RepeatTypes, Zenon
  <2>4. Origin \in Places \cup {Between}
    BY MetadataAssumption
  <2>5. places \in Seq(Places \cup {Between}) /\ Len(places) = d
    BY <2>4, RepeatTypes, Zenon
  <2>6. QED
    BY <2>2, <2>3, <2>5
<1>2. CASE Outgrown(e, blocks, n)
  <2>1. a = [objects |-> n, blocks |-> blocks, used |-> free,
             update_last |-> none, update_now |-> none,
             future |-> places, future_distance |-> 0]
    BY <1>2 DEF AppliedElement
  <2> HIDE DEF a, free, none, places
  <2>2. a \in ElementState
    BY <1>1, <2>1 DEF ElementState
  <2>3. QED
    BY <1>1, <2>1, <2>2 DEF ElementOK, a
<1>3. CASE ~Outgrown(e, blocks, n)
  <2>1. a = [e EXCEPT !.blocks = blocks, !.used = free]
    BY <1>3, Zenon DEF AppliedElement
  <2>2. e.objects = n
    BY <1>3 DEF Outgrown
  <2> HIDE DEF a, free, none, places
  <2>3. a \in ElementState
    BY <1>1, <2>1 DEF ElementState, ElementOK
  <2>4. /\ a.blocks = blocks /\ a.used = free /\ a.objects = e.objects
        /\ a.update_last = e.update_last /\ a.update_now = e.update_now /\ a.future = e.future
    BY <2>1 DEF ElementOK, ElementState
  <2>5. QED
    BY <1>1, <2>2, <2>3, <2>4 DEF ElementOK, a
<1>4. QED
  BY <1>2, <1>3

-----------------------------------------------------------------------------
(***************************************************************************)
(* Type correctness                                                        *)
(***************************************************************************)

LEMMA TypeOKUnfolded ==
  TypeOK <=> /\ initialized \in BOOLEAN /\ steady \in BOOLEAN
             /\ adjusted \in Nat /\ object_count \in Nat /\ bed_or_isf_objects \in Nat
             /\ bed_sources \in Seq(Gains) /\ dynamic_sources \in Seq(Source)
             /\ elements \in Seq(ElementState)
             /\ \A k \in DOMAIN elements : ElementOK(elements[k])
             /\ pc \in {"idle", "blocks", "panicked"} /\ active \in Nat \ {0}
             /\ pc = "blocks" => active \in DOMAIN elements
<1>1. elements \in Seq(ElementState) => \A k \in DOMAIN elements : elements[k] \in ElementState
  OBVIOUS
<1>2. QED
  BY <1>1, Zenon DEF TypeOK, ElementOK

\* Replacing one element by one that is well formed.
LEMMA ElementReplaced ==
  ASSUME TypeOK, NEW k \in DOMAIN elements, NEW e, ElementOK(e)
  PROVE  LET next == [elements EXCEPT ![k] = e] IN
         /\ next \in Seq(ElementState) /\ DOMAIN next = DOMAIN elements
         /\ next[k] = e /\ \A j \in DOMAIN elements : j # k => next[j] = elements[j]
         /\ \A j \in DOMAIN next : ElementOK(next[j])
  BY TypeOKUnfolded DEF ElementOK

LEMMA UpdateTypes ==
  ASSUME TypeOK, NEW p \in Payloads, NEW age \in 0 .. MaxDelay, ApplyUpdate(p, age)
  PROVE  /\ bed_sources' \in Seq(Gains) /\ Len(bed_sources') = p.bed_channels
         /\ dynamic_sources' \in Seq(Source)
         /\ Len(dynamic_sources') = Saturated(p.object_count, p.bed_or_isf_objects)
         /\ elements' \in Seq(ElementState)
         /\ \A k \in DOMAIN elements' :
              /\ ElementOK(elements'[k])
              /\ elements'[k].objects = p.object_count
              /\ \/ Len(elements'[k].update_now) = Saturated(p.object_count, p.bed_or_isf_objects)
                 \/ /\ k \in DOMAIN elements /\ elements[k].objects = p.object_count
                    /\ elements'[k].update_now = elements[k].update_now
                 \/ p.object_count = 0 /\ elements'[k].update_now = << >>
<1> DEFINE dynamic == Saturated(p.object_count, p.bed_or_isf_objects)
           kept    == Resized(elements, Len(p.elements), DefaultElement)
           Given(k) == AppliedElement(kept[k], p.elements[k], p.object_count, dynamic)
<1>1. /\ p \in Payload /\ WellFormed(p)
      /\ p.object_count \in Nat /\ p.bed_or_isf_objects \in Nat /\ p.bed_channels \in Nat
      /\ p.elements \in Seq(Seq(Block)) /\ Len(p.elements) \in Nat
  BY MetadataAssumption DEF Payload
<1>2. dynamic \in Nat
  BY <1>1, SaturatedType
<1>3. bed_sources' \in Seq(Gains) /\ Len(bed_sources') = p.bed_channels
  <2>1. bed_sources' = Resized(bed_sources, p.bed_channels, DefaultGain)
    BY DEF ApplyUpdate
  <2>2. DefaultGain \in Gains /\ bed_sources \in Seq(Gains) /\ p.bed_channels \in Nat
    BY <1>1, MetadataAssumption, TypeOKUnfolded
  <2>3. QED
    BY <2>1, <2>2, ResizedTypes, Zenon
<1>4. dynamic_sources' \in Seq(Source) /\ Len(dynamic_sources') = dynamic
  <2>1. dynamic_sources' = Resized(dynamic_sources, dynamic, DefaultSource)
    BY DEF ApplyUpdate
  <2>2. DefaultSource \in Source
    BY MetadataAssumption DEF DefaultSource, Source
  <2>3. dynamic_sources \in Seq(Source)
    BY TypeOKUnfolded
  <2>4. QED
    BY <1>2, <2>1, <2>2, <2>3, ResizedTypes, Zenon
<1>5. /\ kept \in Seq(ElementState) /\ Len(kept) = Len(p.elements)
      /\ \A k \in DOMAIN kept : /\ ElementOK(kept[k])
                                /\ \/ kept[k] = DefaultElement
                                   \/ k \in DOMAIN elements /\ kept[k] = elements[k]
  <2>1. DefaultElement \in ElementState /\ ElementOK(DefaultElement)
    BY DefaultElementOK DEF ElementOK
  <2>2. elements \in Seq(ElementState)
    BY TypeOKUnfolded
  <2>3. kept \in Seq(ElementState) /\ Len(kept) = Len(p.elements)
    BY <1>1, <2>1, <2>2, ResizedTypes, Zenon
  <2>4. CASE Len(elements) = Len(p.elements)
    BY <2>3, <2>4, TypeOKUnfolded DEF Resized
  <2>5. CASE Len(elements) # Len(p.elements)
    <3>1. kept = Repeat(Len(p.elements), DefaultElement)
      BY <2>5 DEF Resized
    <3>2. \A k \in DOMAIN kept : kept[k] = DefaultElement
      BY <3>1 DEF Repeat
    <3>3. QED
      BY <2>1, <2>3, <3>2
  <2>6. QED
    BY <2>4, <2>5, <2>3
<1>6. elements' = [k \in DOMAIN kept |-> Given(k)]
  BY DEF ApplyUpdate
<1>7. ASSUME NEW k \in DOMAIN kept
      PROVE  /\ ElementOK(Given(k)) /\ Given(k).objects = p.object_count
             /\ \/ Len(Given(k).update_now) = dynamic
                \/ kept[k].objects = p.object_count /\ Given(k).update_now = kept[k].update_now
  <2>1. k \in DOMAIN p.elements /\ p.elements[k] \in Seq(Block)
    <3> HIDE DEF kept
    <3>1. QED
      BY <1>1, <1>5
  <2>2. \A b \in DOMAIN p.elements[k] : Len(p.elements[k][b].objects) = p.object_count
    BY <1>1, <2>1 DEF WellFormed
  <2>3. ElementOK(kept[k])
    BY <1>5
  <2>4. p.object_count \in Nat
    BY <1>1
  <2> DEFINE e      == kept[k]
             blocks == p.elements[k]
             n      == p.object_count
  <2>5. ElementOK(e) /\ n \in Nat /\ dynamic \in Nat /\ blocks \in Seq(Block)
        /\ \A b \in DOMAIN blocks : Len(blocks[b].objects) = n
    BY <1>2, <2>1, <2>2, <2>3, <2>4
  <2> HIDE DEF kept, dynamic, e, blocks, n
  <2>6. /\ ElementOK(AppliedElement(e, blocks, n, dynamic))
        /\ AppliedElement(e, blocks, n, dynamic).objects = n
        /\ \/ Len(AppliedElement(e, blocks, n, dynamic).update_now) = dynamic
           \/ e.objects = n /\ AppliedElement(e, blocks, n, dynamic).update_now = e.update_now
    BY <2>5, AppliedElementOK
  <2>7. QED
    BY <2>6 DEF e, blocks, n
<1>8. \A k \in DOMAIN kept : kept[k] = DefaultElement => kept[k].objects = 0 /\ kept[k].update_now = << >>
  BY DEF DefaultElement
<1> HIDE DEF kept
<1>9. elements' \in Seq(ElementState) /\ DOMAIN elements' = DOMAIN kept
  <2>1. kept \in Seq(ElementState) /\ Len(kept) \in Nat /\ DOMAIN kept = 1 .. Len(kept)
    BY <1>5
  <2>2. elements' \in [1 .. Len(kept) -> ElementState]
    BY <1>6, <1>7, <2>1 DEF ElementOK
  <2>3. QED
    BY <2>1, <2>2
<1>10. QED
  BY <1>3, <1>4, <1>5, <1>6, <1>7, <1>8, <1>9

\* What TakeBlock does to the element it evaluates and to the sources, when no index is missing.
LEMMA TakenTypes ==
  ASSUME TypeOK, pc = "blocks", NEW b \in DueBlocks, IndicesExist(elements[active])
  PROVE  LET e == elements[active]
             t == TakenElement(e, b)
             block == e.blocks[b]
         IN /\ ElementOK(t) /\ t.objects = e.objects /\ Len(t.update_now) = Len(e.update_now)
            /\ [k \in DOMAIN bed_sources |-> IfSet(block.objects[k].gain, bed_sources[k])] \in Seq(Gains)
            /\ [i \in DOMAIN dynamic_sources |-> TakenSource(block, i)] \in Seq(Source)
<1> DEFINE e == elements[active]
           block == e.blocks[b]
           t == TakenElement(e, b)
<1>1. /\ e \in ElementState /\ ElementOK(e)
      /\ bed_sources \in Seq(Gains) /\ dynamic_sources \in Seq(Source) /\ bed_or_isf_objects \in Nat
      /\ adjusted \in Nat
  BY TypeOKUnfolded DEF ElementOK
<1>2. /\ e.blocks \in Seq(Block) /\ e.used \in Seq(BOOLEAN) /\ e.objects \in Nat
      /\ e.update_now \in Seq(BOOLEAN) /\ e.future \in Seq(Places \cup {Between})
      /\ Len(e.used) = Len(e.blocks) /\ Len(e.future) = Len(e.update_now)
  BY <1>1 DEF ElementOK, ElementState
<1>3. b \in DOMAIN e.used /\ b \in DOMAIN e.blocks
  BY <1>2 DEF DueBlocks
<1>4. /\ block \in Block /\ block.offset \in Nat /\ block.ramp_duration \in Nat
      /\ block.objects \in Seq(ObjectBlock) /\ Len(block.objects) = e.objects
  <2>1. block \in Block
    BY <1>2, <1>3
  <2>2. Len(block.objects) = e.objects
    BY <1>1, <1>3 DEF ElementOK
  <2>3. QED
    BY <2>1, <2>2 DEF Block
<1> HIDE DEF block
<1>5. ASSUME NEW k \in DOMAIN bed_sources
      PROVE  IfSet(block.objects[k].gain, bed_sources[k]) \in Gains
  <2>1. k \in DOMAIN block.objects
    BY <1>1, <1>2, <1>4 DEF IndicesExist
  <2>2. block.objects[k] \in ObjectBlock /\ bed_sources[k] \in Gains
    BY <1>1, <1>4, <2>1
  <2>3. QED
    BY <2>2 DEF ObjectBlock, IfSet
<1>6. ASSUME NEW i \in DOMAIN dynamic_sources
      PROVE  /\ i \in DOMAIN e.update_now /\ i \in DOMAIN e.future
             /\ Part(block, i) \in ObjectBlock /\ dynamic_sources[i] \in Source
  <2>1. i \in DOMAIN e.update_now /\ i \in DOMAIN e.future
    BY <1>1, <1>2 DEF IndicesExist
  <2>2. i + bed_or_isf_objects \in DOMAIN block.objects
    <3>1. /\ i \in Nat /\ 1 <= i /\ i <= Len(dynamic_sources) /\ dynamic_sources # << >>
          /\ Len(dynamic_sources) \in Nat
      BY <1>1
    <3>2. Len(dynamic_sources) + bed_or_isf_objects <= e.objects
      BY <3>1 DEF IndicesExist
    <3>3. QED
      BY <1>1, <1>2, <1>4, <3>1, <3>2
  <2>3. QED
    BY <1>1, <1>4, <2>1, <2>2 DEF Part
<1>7. ASSUME NEW i \in DOMAIN dynamic_sources
      PROVE  /\ Target(Part(block, i), dynamic_sources[i]) \in Places \cup {Between}
             /\ Part(block, i).position_valid \in BOOLEAN
             /\ TakenSource(block, i) \in Source
  <2>1. /\ Part(block, i).position_valid \in BOOLEAN
        /\ Part(block, i).gain \in Gains \cup {Unset}
        /\ Part(block, i).target \in Places \cup {Unset}
        /\ dynamic_sources[i].gain \in Gains
        /\ dynamic_sources[i].place \in Places \cup {Between}
        /\ dynamic_sources[i].position_valid \in BOOLEAN
    BY <1>6, Zenon DEF ObjectBlock, Source
  <2>2. Target(Part(block, i), dynamic_sources[i]) \in Places \cup {Between}
    BY <2>1 DEF Target, IfSet
  <2>3. IfSet(Part(block, i).gain, dynamic_sources[i].gain) \in Gains
    BY <2>1 DEF IfSet
  <2>4. (Reached(Part(block, i), RampLeft(block)) \/ dynamic_sources[i].position_valid) \in BOOLEAN
    BY <2>1, Zenon DEF Reached
  <2>5. QED
    BY <2>1, <2>2, <2>3, <2>4, Zenon DEF TakenSource, Source
<1>8. RampLeft(block) \in Int
  BY <1>1, <1>4 DEF RampLeft
<1>9. ElementOK(t) /\ t.objects = e.objects /\ Len(t.update_now) = Len(e.update_now)
  <2> DEFINE now  == [i \in DOMAIN e.update_now |->
                        IF i \in DOMAIN dynamic_sources THEN Part(block, i).position_valid
                                                        ELSE e.update_now[i]]
             goal == [i \in DOMAIN e.future |->
                        IF i \in DOMAIN dynamic_sources
                          THEN Target(Part(block, i), dynamic_sources[i]) ELSE e.future[i]]
             done == [e.used EXCEPT ![b] = TRUE]
  <2>1. now \in Seq(BOOLEAN) /\ Len(now) = Len(e.update_now)
    <3>1. DOMAIN e.update_now = 1 .. Len(e.update_now) /\ Len(e.update_now) \in Nat
      BY <1>2
    <3>2. \A i \in DOMAIN e.update_now : e.update_now[i] \in BOOLEAN
      BY <1>2
    <3>3. now \in [1 .. Len(e.update_now) -> BOOLEAN]
      BY <1>7, <3>1, <3>2, Zenon
    <3> HIDE DEF now
    <3>4. QED
      BY <3>1, <3>3, MappedTypes
  <2>2. goal \in Seq(Places \cup {Between}) /\ Len(goal) = Len(e.update_now)
    <3>1. DOMAIN e.future = 1 .. Len(e.future) /\ Len(e.future) \in Nat
      BY <1>2
    <3>2. \A i \in DOMAIN e.future : e.future[i] \in Places \cup {Between}
      BY <1>2
    <3>3. goal \in [1 .. Len(e.future) -> Places \cup {Between}]
      BY <1>7, <3>1, <3>2, Zenon
    <3> HIDE DEF goal
    <3>4. QED
      BY <1>2, <3>1, <3>3, MappedTypes
  <2>3. done \in Seq(BOOLEAN) /\ Len(done) = Len(e.blocks)
    BY <1>2, <1>3
  <2>4. t = [e EXCEPT !.used = done, !.future_distance = RampLeft(block),
                      !.update_now = now, !.future = goal]
    BY <1>1 DEF TakenElement, block, ElementState
  <2> HIDE DEF e, t, now, goal, done
  <2>5. /\ t \in ElementState
        /\ t.used = done /\ t.blocks = e.blocks /\ t.objects = e.objects
        /\ t.update_now = now /\ t.update_last = e.update_last /\ t.future = goal
    BY <1>1, <1>8, <2>1, <2>2, <2>3, <2>4 DEF ElementState
  <2>6. QED
    BY <1>1, <2>1, <2>2, <2>3, <2>5 DEF ElementOK
<1>10. [k \in DOMAIN bed_sources |-> IfSet(block.objects[k].gain, bed_sources[k])] \in Seq(Gains)
  <2>1. DOMAIN bed_sources = 1 .. Len(bed_sources) /\ Len(bed_sources) \in Nat
    BY <1>1
  <2>2. QED
    BY <1>5, <2>1
<1>11. [i \in DOMAIN dynamic_sources |-> TakenSource(block, i)] \in Seq(Source)
  <2>1. DOMAIN dynamic_sources = 1 .. Len(dynamic_sources) /\ Len(dynamic_sources) \in Nat
    BY <1>1
  <2>2. QED
    BY <1>7, <2>1
<1>12. QED
  BY <1>9, <1>10, <1>11 DEF block

\* Moving the sources keeps their types.
LEMMA RampedTypes ==
  ASSUME TypeOK, pc = "blocks", Len(dynamic_sources) <= Len(elements[active].update_now)
  PROVE  [i \in DOMAIN dynamic_sources |-> RampedSource(elements[active], i)] \in Seq(Source)
<1> DEFINE e == elements[active]
<1>1. /\ e \in ElementState /\ ElementOK(e) /\ dynamic_sources \in Seq(Source)
      /\ DOMAIN dynamic_sources = 1 .. Len(dynamic_sources) /\ Len(dynamic_sources) \in Nat
  BY TypeOKUnfolded DEF ElementOK
<1>2. ASSUME NEW i \in DOMAIN dynamic_sources
      PROVE  RampedSource(e, i) \in Source
  <2>1. i \in DOMAIN e.future /\ e.future \in Seq(Places \cup {Between})
    BY <1>1 DEF ElementOK, ElementState
  <2>2. e.future[i] \in Places \cup {Between}
    BY <2>1
  <2>3. Lerp(dynamic_sources[i].place, e.future[i], e.future_distance) \in Places \cup {Between}
    BY <2>2 DEF Lerp
  <2>4. dynamic_sources[i] \in Source
    BY <1>1
  <2> DEFINE place == IF e.update_last[i] /\ dynamic_sources[i].position_valid
                        THEN Lerp(dynamic_sources[i].place, e.future[i], e.future_distance)
                        ELSE e.future[i]
  <2>5. place \in Places \cup {Between}
    BY <2>2, <2>3
  <2>6. RampedSource(e, i) = IF ~e.update_now[i] THEN dynamic_sources[i]
          ELSE [dynamic_sources[i] EXCEPT !.place = place, !.position_valid = TRUE]
    BY DEF RampedSource
  <2> HIDE DEF place, e
  <2>7. QED
    BY <2>4, <2>5, <2>6 DEF Source
<1>3. QED
  BY <1>1, <1>2

\* The distance left on a ramp does not change what makes an element well formed.
LEMMA DistanceReplaced ==
  ASSUME NEW e, ElementOK(e)
  PROVE  LET r == [e EXCEPT !.future_distance = @ - Timeslot] IN
         /\ ElementOK(r) /\ r.objects = e.objects /\ r.update_now = e.update_now
<1> DEFINE r == [e EXCEPT !.future_distance = @ - Timeslot]
<1>1. e \in ElementState
  BY DEF ElementOK
<1>2. e.future_distance - Timeslot \in Int
  BY <1>1, MetadataAssumption DEF ElementState
<1>3. r = [e EXCEPT !.future_distance = e.future_distance - Timeslot]
  BY <1>1 DEF ElementState
<1> HIDE DEF r
<1>4. r \in ElementState
  BY <1>1, <1>2, <1>3 DEF ElementState
<1>5. /\ r.blocks = e.blocks /\ r.used = e.used /\ r.objects = e.objects
      /\ r.update_last = e.update_last /\ r.update_now = e.update_now /\ r.future = e.future
  BY <1>1, <1>3 DEF ElementState
<1>6. QED
  BY <1>4, <1>5 DEF ElementOK, r

LEMMA UpdateLastReplaced ==
  ASSUME NEW e, ElementOK(e)
  PROVE  LET r == [e EXCEPT !.update_last = e.update_now] IN
         /\ ElementOK(r) /\ r.objects = e.objects /\ r.update_now = e.update_now
  BY DEF ElementOK, ElementState

\* Each step on the element in evaluation replaces it by a well-formed one of the same dimensions.
SameShape(e, f) == ElementOK(f) /\ f.objects = e.objects /\ Len(f.update_now) = Len(e.update_now)

LEMMA ElementSteps ==
  ASSUME TypeOK,
         SkipTimeslot \/ OpenTimeslot \/ TakeBlock \/ CloseTimeslot \/ RampAndClose \/ UNCHANGED vars
  PROVE  \/ /\ UNCHANGED elements
            /\ UNCHANGED active \/ pc' # "blocks"
         \/ \E k \in DOMAIN elements, f \in ElementState :
              /\ elements' = [elements EXCEPT ![k] = f]
              /\ SameShape(elements[k], f)
              /\ active' = k
<1>1. CASE OpenTimeslot
  <2>1. PICK k \in DOMAIN elements :
          active' = k /\ elements' = [elements EXCEPT ![k].update_last = elements[k].update_now]
    BY <1>1 DEF OpenTimeslot
  <2> DEFINE f == [elements[k] EXCEPT !.update_last = elements[k].update_now]
  <2>2. elements' = [elements EXCEPT ![k] = f]
    BY <2>1
  <2>3. ElementOK(elements[k])
    BY TypeOKUnfolded
  <2>4. SameShape(elements[k], f)
    BY <2>3, UpdateLastReplaced DEF SameShape
  <2>5. f \in ElementState
    BY <2>4 DEF SameShape, ElementOK
  <2> HIDE DEF f
  <2>6. QED
    BY <2>1, <2>2, <2>4, <2>5
<1>2. CASE TakeBlock
  <2>1. PICK b \in DueBlocks :
          IF ~IndicesExist(elements[active])
            THEN UNCHANGED <<elements, active>>
            ELSE elements' = [elements EXCEPT ![active] = TakenElement(elements[active], b)]
                 /\ UNCHANGED active
    BY <1>2 DEF TakeBlock, Panic
  <2>2. pc = "blocks" /\ active \in DOMAIN elements
    BY <1>2, TypeOKUnfolded DEF TakeBlock
  <2>3. CASE IndicesExist(elements[active])
    <3>1. SameShape(elements[active], TakenElement(elements[active], b))
      BY <2>2, <2>3, TakenTypes DEF SameShape
    <3>2. TakenElement(elements[active], b) \in ElementState
      BY <3>1 DEF SameShape, ElementOK
    <3>3. QED
      BY <2>1, <2>2, <2>3, <3>1, <3>2
  <2>4. QED
    BY <2>1, <2>3
<1>3. CASE RampAndClose
  <2>1. pc = "blocks" /\ active \in DOMAIN elements
    BY <1>3, TypeOKUnfolded DEF RampAndClose
  <2> DEFINE f == [elements[active] EXCEPT !.future_distance = @ - Timeslot]
  <2>2. \/ UNCHANGED <<elements, active>>
        \/ elements' = [elements EXCEPT ![active] = f] /\ UNCHANGED active
    BY <1>3, <2>1 DEF RampAndClose, Panic
  <2>3. ElementOK(elements[active])
    BY <2>1, TypeOKUnfolded
  <2>4. SameShape(elements[active], f)
    BY <2>3, DistanceReplaced DEF SameShape
  <2>5. f \in ElementState
    BY <2>4 DEF SameShape, ElementOK
  <2> HIDE DEF f
  <2>6. QED
    BY <2>1, <2>2, <2>4, <2>5
<1>4. CASE SkipTimeslot
  BY <1>4 DEF SkipTimeslot
<1>5. CASE CloseTimeslot
  BY <1>5 DEF CloseTimeslot
<1>6. CASE UNCHANGED vars
  BY <1>6 DEF vars
<1>7. QED
  BY <1>1, <1>2, <1>3, <1>4, <1>5, <1>6

\* No timeslot changes what the payload in force is like.
LEMMA LayoutUnchanged ==
  ASSUME SkipTimeslot \/ OpenTimeslot \/ TakeBlock \/ CloseTimeslot \/ RampAndClose \/ UNCHANGED vars
  PROVE  UNCHANGED <<initialized, object_count, bed_or_isf_objects, steady>>
<1>1. CASE SkipTimeslot
  BY <1>1 DEF SkipTimeslot, layout
<1>2. CASE OpenTimeslot
  BY <1>2 DEF OpenTimeslot, layout
<1>3. CASE TakeBlock
  BY <1>3 DEF TakeBlock, Panic, layout
<1>4. CASE CloseTimeslot
  BY <1>4 DEF CloseTimeslot, layout
<1>5. CASE RampAndClose
  BY <1>5 DEF RampAndClose, Panic, layout
<1>6. CASE UNCHANGED vars
  BY <1>6 DEF vars, layout
<1>7. QED
  BY <1>1, <1>2, <1>3, <1>4, <1>5, <1>6

LEMMA TypeInvariance == TypeOK /\ [Next]_vars => TypeOK'
<1> SUFFICES ASSUME TypeOK, [Next]_vars PROVE TypeOK'
  OBVIOUS
<1>1. elements' \in Seq(ElementState) /\ \A k \in DOMAIN elements' : ElementOK(elements'[k])
  <2>1. CASE \E p \in Payloads, age \in 0 .. MaxDelay : ApplyUpdate(p, age)
    BY <2>1, UpdateTypes
  <2>2. CASE Reset
    BY <2>2 DEF Reset
  <2>3. CASE UNCHANGED elements
    BY <2>3, TypeOKUnfolded
  <2>4. ASSUME NEW k \in DOMAIN elements, NEW f \in ElementState,
               elements' = [elements EXCEPT ![k] = f], SameShape(elements[k], f)
        PROVE  elements' \in Seq(ElementState) /\ \A j \in DOMAIN elements' : ElementOK(elements'[j])
    <3>1. ElementOK(f)
      BY <2>4 DEF SameShape
    <3>2. QED
      BY <2>4, <3>1, ElementReplaced
  <2>5. QED
    BY <2>1, <2>2, <2>3, <2>4, ElementSteps DEF Next
<1>2. bed_sources' \in Seq(Gains) /\ dynamic_sources' \in Seq(Source)
  <2>1. bed_sources \in Seq(Gains) /\ dynamic_sources \in Seq(Source)
    BY TypeOKUnfolded
  <2>2. CASE \E p \in Payloads, age \in 0 .. MaxDelay : ApplyUpdate(p, age)
    BY <2>2, UpdateTypes
  <2>3. CASE TakeBlock
    BY <2>1, <2>3, TakenTypes DEF TakeBlock, Panic, sources
  <2>4. CASE RampAndClose
    BY <2>1, <2>4, RampedTypes DEF RampAndClose, Panic, sources
  <2>5. CASE SkipTimeslot \/ OpenTimeslot \/ CloseTimeslot \/ UNCHANGED vars
    BY <2>1, <2>5 DEF SkipTimeslot, OpenTimeslot, CloseTimeslot, vars, sources
  <2>6. CASE Reset
    BY <2>6 DEF Reset
  <2>7. QED
    BY <2>2, <2>3, <2>4, <2>5, <2>6 DEF Next
<1>3. initialized' \in BOOLEAN /\ steady' \in BOOLEAN
  <2>1. CASE \E p \in Payloads, age \in 0 .. MaxDelay : ApplyUpdate(p, age)
    <3>1. PICK p \in Payloads, age \in 0 .. MaxDelay : ApplyUpdate(p, age)
      BY <2>1
    <3>2. initialized' = TRUE
      BY <3>1 DEF ApplyUpdate
    <3>3. steady' = (/\ steady
                     /\ p.bed_channels <= p.object_count
                     /\ p.object_count = object_count => p.bed_or_isf_objects = bed_or_isf_objects)
      BY <3>1 DEF ApplyUpdate
    <3>4. steady' \in BOOLEAN
      BY <3>3
    <3>5. QED
      BY <3>2, <3>4, Zenon
  <2>2. CASE Reset
    BY <2>2, Zenon DEF Reset
  <2>3. CASE SkipTimeslot \/ OpenTimeslot \/ TakeBlock \/ CloseTimeslot \/ RampAndClose \/ UNCHANGED vars
    <3>1. initialized' = initialized /\ steady' = steady
      BY <2>3, LayoutUnchanged
    <3>2. QED
      BY <3>1, TypeOKUnfolded, Zenon
  <2>4. QED
    BY <2>1, <2>2, <2>3 DEF Next
<1>4. adjusted' \in Nat
  <2>1. adjusted \in Nat /\ Timeslot \in Nat
    BY TypeOKUnfolded, MetadataAssumption
  <2>2. CASE \E p \in Payloads, age \in 0 .. MaxDelay : ApplyUpdate(p, age)
    BY <2>1, <2>2 DEF ApplyUpdate
  <2>3. CASE SkipTimeslot \/ OpenTimeslot \/ CloseTimeslot \/ RampAndClose
    BY <2>1, <2>3 DEF SkipTimeslot, OpenTimeslot, CloseTimeslot, RampAndClose, Panic
  <2>4. CASE TakeBlock \/ Reset \/ UNCHANGED vars
    BY <2>1, <2>4 DEF TakeBlock, Panic, Reset, vars
  <2>5. QED
    BY <2>2, <2>3, <2>4 DEF Next
<1>5. object_count' \in Nat /\ bed_or_isf_objects' \in Nat
  <2>1. \A p \in Payloads : p.object_count \in Nat /\ p.bed_or_isf_objects \in Nat
    BY MetadataAssumption DEF Payload
  <2>2. CASE \E p \in Payloads, age \in 0 .. MaxDelay : ApplyUpdate(p, age)
    BY <2>1, <2>2 DEF ApplyUpdate
  <2>3. CASE Reset
    BY <2>3 DEF Reset
  <2>4. CASE SkipTimeslot \/ OpenTimeslot \/ TakeBlock \/ CloseTimeslot \/ RampAndClose \/ UNCHANGED vars
    BY <2>4, LayoutUnchanged, TypeOKUnfolded
  <2>5. QED
    BY <2>2, <2>3, <2>4 DEF Next
<1>6. /\ pc' \in {"idle", "blocks", "panicked"} /\ active' \in Nat \ {0}
      /\ pc' = "blocks" => active' \in DOMAIN elements'
  <2>1. /\ pc \in {"idle", "blocks", "panicked"} /\ active \in Nat \ {0}
        /\ pc = "blocks" => active \in DOMAIN elements
        /\ DOMAIN elements \subseteq Nat \ {0}
    BY TypeOKUnfolded
  <2>2. CASE OpenTimeslot
    BY <2>1, <2>2 DEF OpenTimeslot
  <2>3. CASE TakeBlock
    <3>1. pc = "blocks" /\ active' = active /\ pc' \in {pc, "panicked"}
      BY <2>3 DEF TakeBlock, Panic
    <3>2. \/ elements' = elements
          \/ \E f : elements' = [elements EXCEPT ![active] = f]
      BY <2>3 DEF TakeBlock, Panic
    <3>3. DOMAIN elements' = DOMAIN elements
      BY <3>2
    <3>4. QED
      BY <2>1, <3>1, <3>3
  <2>4. CASE \/ \E p \in Payloads, age \in 0 .. MaxDelay : ApplyUpdate(p, age)
             \/ SkipTimeslot \/ CloseTimeslot \/ RampAndClose \/ Reset
    <3>1. pc' \in {"idle", "panicked"}
      BY <2>4 DEF ApplyUpdate, SkipTimeslot, CloseTimeslot, RampAndClose, Reset, Panic
    <3>2. active' \in {active, 1}
      BY <2>4 DEF ApplyUpdate, SkipTimeslot, CloseTimeslot, RampAndClose, Reset, Panic
    <3>3. QED
      BY <2>1, <3>1, <3>2
  <2>5. CASE UNCHANGED vars
    BY <2>1, <2>5 DEF vars
  <2>6. QED
    BY <2>2, <2>3, <2>4, <2>5 DEF Next
<1>7. TypeOK' <=> /\ initialized' \in BOOLEAN /\ steady' \in BOOLEAN
                  /\ adjusted' \in Nat /\ object_count' \in Nat /\ bed_or_isf_objects' \in Nat
                  /\ bed_sources' \in Seq(Gains) /\ dynamic_sources' \in Seq(Source)
                  /\ elements' \in Seq(ElementState)
                  /\ \A k \in DOMAIN elements' : ElementOK(elements'[k])
                  /\ pc' \in {"idle", "blocks", "panicked"} /\ active' \in Nat \ {0}
                  /\ pc' = "blocks" => active' \in DOMAIN elements'
  <2>1. elements' \in Seq(ElementState) =>
          \A k \in DOMAIN elements' : elements'[k] \in ElementState
    OBVIOUS
  <2>2. QED
    BY <2>1, Zenon DEF TypeOK, ElementOK
<1>8. QED
  BY <1>1, <1>2, <1>3, <1>4, <1>5, <1>6, <1>7

\* Every variable keeps its type and the vectors of an element stay as long as their loops assume.
THEOREM TypeCorrect == Spec => []TypeOK
<1>1. Init => TypeOK
  <2> SUFFICES ASSUME Init PROVE TypeOK
    OBVIOUS
  <2>1. << >> \in Seq(Gains) /\ << >> \in Seq(Source) /\ << >> \in Seq(ElementState)
    OBVIOUS
  <2>2. \A k \in DOMAIN elements : ElementOK(elements[k])
    BY DEF Init
  <2>3. /\ adjusted \in Nat /\ object_count \in Nat /\ bed_or_isf_objects \in Nat
        /\ active \in Nat \ {0} /\ pc = "idle"
    BY DEF Init
  <2>4. initialized \in BOOLEAN /\ steady \in BOOLEAN
    BY Zenon DEF Init
  <2>5. /\ bed_sources \in Seq(Gains) /\ dynamic_sources \in Seq(Source)
        /\ elements \in Seq(ElementState)
    BY <2>1, Zenon DEF Init
  <2>6. pc \in {"idle", "blocks", "panicked"} /\ pc # "blocks"
    BY <2>3
  <2>7. QED
    BY <2>2, <2>3, <2>4, <2>5, <2>6, TypeOKUnfolded, Zenon
<1>2. QED
  BY <1>1, TypeInvariance, PTL DEF Spec

-----------------------------------------------------------------------------
(***************************************************************************)
(* Index safety.  While payloads keep the border between bed and dynamic   *)
(* objects, the per-object vectors of every element fit the sources: that  *)
(* is the invariant apply_update re-establishes and no timeslot breaks.    *)
(***************************************************************************)

DynamicCount == Saturated(object_count, bed_or_isf_objects)

Fits ==
  /\ Len(bed_sources) <= object_count
  /\ Len(dynamic_sources) = DynamicCount
  /\ \A k \in DOMAIN elements :
       elements[k].objects = object_count /\ Len(elements[k].update_now) = DynamicCount

SteadyInv == steady => Fits /\ pc # "panicked"

\* What Fits gives an evaluation: every index it takes exists.
LEMMA FitsSuffices ==
  ASSUME TypeOK, Fits, NEW k \in DOMAIN elements
  PROVE  /\ IndicesExist(elements[k])
         /\ Len(dynamic_sources) <= Len(elements[k].update_now)
<1>1. /\ object_count \in Nat /\ bed_or_isf_objects \in Nat
      /\ dynamic_sources \in Seq(Source) /\ Len(dynamic_sources) \in Nat
      /\ elements[k].objects = object_count /\ Len(elements[k].update_now) = DynamicCount
      /\ Len(dynamic_sources) = DynamicCount /\ Len(bed_sources) <= object_count
  BY TypeOKUnfolded DEF Fits
<1>2. dynamic_sources # << >> => Len(dynamic_sources) # 0
  BY <1>1
<1>3. QED
  BY <1>1, <1>2 DEF IndicesExist, DynamicCount, Saturated

LEMMA FitsAfterUpdate ==
  ASSUME TypeOK, SteadyInv, NEW p \in Payloads, NEW age \in 0 .. MaxDelay,
         ApplyUpdate(p, age), steady'
  PROVE  Fits'
<1>1. /\ steady /\ p.bed_channels <= p.object_count
      /\ p.object_count = object_count => p.bed_or_isf_objects = bed_or_isf_objects
      /\ object_count' = p.object_count /\ bed_or_isf_objects' = p.bed_or_isf_objects
  BY DEF ApplyUpdate
<1>2. p.object_count \in Nat /\ p.bed_or_isf_objects \in Nat
  BY MetadataAssumption DEF Payload
<1>3. DynamicCount' = Saturated(p.object_count, p.bed_or_isf_objects)
  BY <1>1 DEF DynamicCount
<1>4. Fits
  BY <1>1 DEF SteadyInv
<1>5. ASSUME NEW k \in DOMAIN elements'
      PROVE  elements'[k].objects = p.object_count /\ Len(elements'[k].update_now) = DynamicCount'
  <2>1. elements'[k].objects = p.object_count
    BY UpdateTypes
  <2>2. \/ Len(elements'[k].update_now) = DynamicCount'
        \/ /\ k \in DOMAIN elements /\ elements[k].objects = p.object_count
           /\ elements'[k].update_now = elements[k].update_now
        \/ p.object_count = 0 /\ elements'[k].update_now = << >>
    BY <1>3, UpdateTypes
  <2>3. CASE /\ k \in DOMAIN elements /\ elements[k].objects = p.object_count
             /\ elements'[k].update_now = elements[k].update_now
    <3>1. elements[k].objects = object_count /\ Len(elements[k].update_now) = DynamicCount
      BY <1>4, <2>3 DEF Fits
    <3>2. DynamicCount' = DynamicCount
      BY <1>1, <1>3, <2>3, <3>1 DEF DynamicCount
    <3>3. QED
      BY <2>1, <2>3, <3>1, <3>2
  <2>4. CASE p.object_count = 0 /\ elements'[k].update_now = << >>
    BY <1>2, <1>3, <2>1, <2>4 DEF Saturated
  <2>5. QED
    BY <2>1, <2>2, <2>3, <2>4
<1>6. Len(bed_sources') = p.bed_channels /\ Len(dynamic_sources') = DynamicCount'
  BY <1>3, UpdateTypes
<1>7. QED
  BY <1>1, <1>5, <1>6 DEF Fits

LEMMA SteadyInvariance == TypeOK /\ SteadyInv /\ [Next]_vars => SteadyInv'
<1> SUFFICES ASSUME TypeOK, SteadyInv, [Next]_vars, steady' PROVE Fits' /\ pc' # "panicked"
  BY DEF SteadyInv
<1>1. CASE \E p \in Payloads, age \in 0 .. MaxDelay : ApplyUpdate(p, age)
  BY <1>1, FitsAfterUpdate DEF ApplyUpdate
<1>2. CASE Reset
  BY <1>2 DEF Reset, Fits, DynamicCount, Saturated
<1>3. CASE SkipTimeslot \/ OpenTimeslot \/ TakeBlock \/ CloseTimeslot \/ RampAndClose \/ UNCHANGED vars
  <2>1. UNCHANGED <<initialized, object_count, bed_or_isf_objects, steady>>
    BY <1>3, LayoutUnchanged
  <2>2. Fits /\ pc # "panicked"
    BY <2>1 DEF SteadyInv
  <2>3. Len(bed_sources') = Len(bed_sources) /\ Len(dynamic_sources') = Len(dynamic_sources)
    <3>1. /\ bed_sources \in Seq(Gains) /\ dynamic_sources \in Seq(Source)
          /\ Len(bed_sources) \in Nat /\ Len(dynamic_sources) \in Nat
      BY TypeOKUnfolded
    <3>2. \/ bed_sources' = bed_sources
          \/ \E block : bed_sources' = [k \in DOMAIN bed_sources |->
                                          IfSet(block.objects[k].gain, bed_sources[k])]
      BY <1>3 DEF SkipTimeslot, OpenTimeslot, TakeBlock, Panic, CloseTimeslot, RampAndClose, vars, sources
    <3>3. Len(bed_sources') = Len(bed_sources)
      BY <3>1, <3>2
    <3>4. \/ dynamic_sources' = dynamic_sources
          \/ \E block : dynamic_sources' = [i \in DOMAIN dynamic_sources |-> TakenSource(block, i)]
          \/ \E e : dynamic_sources' = [i \in DOMAIN dynamic_sources |-> RampedSource(e, i)]
      BY <1>3, Zenon DEF SkipTimeslot, OpenTimeslot, TakeBlock, Panic, CloseTimeslot, RampAndClose, vars, sources
    <3>5. Len(dynamic_sources') = Len(dynamic_sources)
      BY <3>1, <3>4
    <3>6. QED
      BY <3>3, <3>5
  <2>4. \A k \in DOMAIN elements' :
          /\ k \in DOMAIN elements
          /\ elements'[k].objects = elements[k].objects
          /\ Len(elements'[k].update_now) = Len(elements[k].update_now)
    <3>1. CASE UNCHANGED elements
      BY <3>1
    <3>2. ASSUME NEW k \in DOMAIN elements, NEW f \in ElementState,
                 elements' = [elements EXCEPT ![k] = f], SameShape(elements[k], f)
          PROVE  \A j \in DOMAIN elements' :
                   /\ j \in DOMAIN elements
                   /\ elements'[j].objects = elements[j].objects
                   /\ Len(elements'[j].update_now) = Len(elements[j].update_now)
      BY <3>2 DEF SameShape
    <3>3. QED
      BY <1>3, <3>1, <3>2, ElementSteps
  <2>5. Fits'
    BY <2>1, <2>2, <2>3, <2>4 DEF Fits, DynamicCount
  <2>6. pc' # "panicked"
    <3>1. pc = "blocks" => active \in DOMAIN elements
      BY TypeOKUnfolded
    <3>2. pc = "blocks" => /\ IndicesExist(elements[active])
                           /\ ~(Len(dynamic_sources) > Len(elements[active].update_now))
      <4>1. Len(dynamic_sources) \in Nat
        BY TypeOKUnfolded
      <4>2. pc = "blocks" => Len(elements[active].update_now) = DynamicCount /\ DynamicCount \in Nat
        BY <2>2, <3>1, TypeOKUnfolded, SaturatedType DEF Fits, DynamicCount
      <4>3. QED
        BY <2>2, <3>1, <4>1, <4>2, FitsSuffices
    <3>3. QED
      BY <1>3, <2>2, <3>2 DEF SkipTimeslot, OpenTimeslot, TakeBlock, CloseTimeslot, RampAndClose, vars
  <2>7. QED
    BY <2>5, <2>6
<1>4. QED
  BY <1>1, <1>2, <1>3 DEF Next

\* No evaluation indexes past the per-object state, whatever payloads arrive and whenever, as long
\* as they keep the border between bed and dynamic objects at an unchanged object count.
THEOREM IndexSafety == Spec => []NoPanic
<1>1. Init => SteadyInv
  BY DEF Init, SteadyInv, Fits, DynamicCount, Saturated
<1>2. SteadyInv => NoPanic
  BY DEF SteadyInv, NoPanic
<1>3. QED
  BY <1>1, <1>2, TypeCorrect, SteadyInvariance, PTL DEF Spec

-----------------------------------------------------------------------------
(***************************************************************************)
(* A single element, as every stream of objects without alternatives has.  *)
(***************************************************************************)

Single == Len(elements) = 1

e1 == elements[1]

LEMMA LengthKept ==
  ASSUME NEW S, NEW s \in Seq(S), NEW k \in DOMAIN s, NEW value
  PROVE  Len([s EXCEPT ![k] = value]) = Len(s) /\ [s EXCEPT ![k] = value][k] = value
  OBVIOUS

LEMMA SingleTypes ==
  ASSUME TypeOK, Single
  PROVE  /\ 1 \in DOMAIN elements /\ DOMAIN elements = {1} /\ e1 \in ElementState /\ ElementOK(e1)
         /\ pc = "blocks" => active = 1
         /\ DOMAIN e1.used = DOMAIN e1.blocks /\ DOMAIN e1.used \subseteq Nat /\ adjusted \in Nat
         /\ \A b \in DOMAIN e1.blocks : e1.blocks[b] \in Block /\ e1.used[b] \in BOOLEAN
<1>1. /\ elements \in Seq(ElementState) /\ adjusted \in Nat
      /\ \A k \in DOMAIN elements : ElementOK(elements[k])
      /\ pc = "blocks" => active \in DOMAIN elements
  BY TypeOKUnfolded
<1>2. DOMAIN elements = {1}
  BY <1>1 DEF Single
<1>3. e1 \in ElementState /\ ElementOK(e1)
  BY <1>1, <1>2 DEF e1
<1>4. e1.blocks \in Seq(Block) /\ e1.used \in Seq(BOOLEAN) /\ Len(e1.used) = Len(e1.blocks)
  BY <1>3 DEF ElementState, ElementOK
<1> HIDE DEF e1
<1>5. DOMAIN e1.used = DOMAIN e1.blocks /\ DOMAIN e1.used \subseteq Nat
  BY <1>4
<1>6. \A b \in DOMAIN e1.blocks : e1.blocks[b] \in Block /\ e1.used[b] \in BOOLEAN
  BY <1>4, <1>5
<1> QED
  BY <1>1, <1>2, <1>3, <1>5, <1>6

\* What opening a timeslot leaves alone.
LEMMA OpenSingle ==
  ASSUME TypeOK, Single, OpenTimeslot
  PROVE  /\ Single' /\ UNCHANGED <<sources, adjusted, steady, bed_or_isf_objects>>
         /\ e1'.blocks = e1.blocks /\ e1'.used = e1.used /\ e1'.update_now = e1.update_now
         /\ e1'.future = e1.future /\ e1'.future_distance = e1.future_distance
<1>1. DOMAIN elements = {1} /\ e1 \in ElementState /\ elements \in Seq(ElementState)
  BY SingleTypes, TypeOKUnfolded
<1>2. elements' = [elements EXCEPT ![1].update_last = elements[1].update_now]
  BY <1>1 DEF OpenTimeslot
<1>3. elements' = [elements EXCEPT ![1] = [e1 EXCEPT !.update_last = e1.update_now]]
  BY <1>1, <1>2 DEF e1
<1>4. e1' = [e1 EXCEPT !.update_last = e1.update_now] /\ Len(elements') = Len(elements)
  BY <1>1, <1>3 DEF e1
<1> QED
  BY <1>1, <1>4 DEF Single, OpenTimeslot, layout, ElementState

\* What the taking of one block does.
LEMMA TakeSingle ==
  ASSUME TypeOK, Single, TakeBlock
  PROVE  \/ UNCHANGED <<sources, adjusted, steady, bed_or_isf_objects, elements>>
         \/ \E b \in DOMAIN e1.used :
              /\ IsNextBlock(b) /\ IndicesExist(e1)
              /\ Single' /\ UNCHANGED <<adjusted, steady, bed_or_isf_objects>>
              /\ e1' = TakenElement(e1, b)
              /\ bed_sources' = [k \in DOMAIN bed_sources |->
                                   IfSet(e1.blocks[b].objects[k].gain, bed_sources[k])]
              /\ dynamic_sources' = [i \in DOMAIN dynamic_sources |-> TakenSource(e1.blocks[b], i)]
<1>1. /\ DOMAIN elements = {1} /\ elements \in Seq(ElementState) /\ active = 1 /\ elements[active] = e1
  BY SingleTypes, TypeOKUnfolded DEF TakeBlock, e1
<1>2. PICK b \in DueBlocks :
        /\ IsNextBlock(b)
        /\ IF ~IndicesExist(elements[active])
             THEN Panic
             ELSE /\ bed_sources' = [k \in DOMAIN bed_sources |->
                                       IfSet(elements[active].blocks[b].objects[k].gain, bed_sources[k])]
                  /\ dynamic_sources' = [i \in DOMAIN dynamic_sources |->
                                           TakenSource(elements[active].blocks[b], i)]
                  /\ elements' = [elements EXCEPT ![active] = TakenElement(elements[active], b)]
                  /\ UNCHANGED <<layout, adjusted, pc, active>>
  BY Zenon DEF TakeBlock
<1>3. b \in DOMAIN e1.used
  BY <1>1 DEF DueBlocks
<1>4. CASE ~IndicesExist(e1)
  BY <1>1, <1>2, <1>4 DEF Panic, layout, sources
<1>5. CASE IndicesExist(e1)
  <2>1. elements' = [elements EXCEPT ![1] = TakenElement(e1, b)]
    BY <1>1, <1>2, <1>5
  <2>2. e1' = TakenElement(e1, b) /\ Len(elements') = Len(elements)
    <3> DEFINE t == TakenElement(e1, b)
    <3>1. 1 \in DOMAIN elements
      BY <1>1
    <3>2. elements' = [elements EXCEPT ![1] = t]
      BY <2>1
    <3> HIDE DEF t
    <3>3. Len(elements') = Len(elements) /\ elements'[1] = t
      BY <1>1, <3>1, <3>2, LengthKept
    <3> QED
      BY <3>3 DEF e1, t
  <2>3. /\ bed_sources' = [k \in DOMAIN bed_sources |->
                              IfSet(e1.blocks[b].objects[k].gain, bed_sources[k])]
        /\ dynamic_sources' = [i \in DOMAIN dynamic_sources |-> TakenSource(e1.blocks[b], i)]
        /\ UNCHANGED <<layout, adjusted>>
    BY <1>1, <1>2, <1>5
  <2>4. Single' /\ UNCHANGED <<adjusted, steady, bed_or_isf_objects>>
    BY <2>2, <2>3 DEF Single, layout
  <2> QED
    BY <1>2, <1>3, <1>5, <2>2, <2>3, <2>4
<1> QED
  BY <1>4, <1>5

\* The fields of the element a block was taken from.
LEMMA TakenFields ==
  ASSUME NEW e \in ElementState, NEW b \in DOMAIN e.used
  PROVE  LET t == TakenElement(e, b) IN
         /\ t.blocks = e.blocks /\ t.used = [e.used EXCEPT ![b] = TRUE]
         /\ t.future_distance = RampLeft(e.blocks[b])
         /\ t.update_now = [i \in DOMAIN e.update_now |->
              IF i \in DOMAIN dynamic_sources THEN Part(e.blocks[b], i).position_valid
                                              ELSE e.update_now[i]]
         /\ t.future = [i \in DOMAIN e.future |->
              IF i \in DOMAIN dynamic_sources THEN Target(Part(e.blocks[b], i), dynamic_sources[i])
                                              ELSE e.future[i]]
BY DEF TakenElement, ElementState

\* The end of a timeslot with a ramp.
LEMMA RampSingle ==
  ASSUME TypeOK, Single, RampAndClose
  PROVE  \/ UNCHANGED <<sources, adjusted, steady, bed_or_isf_objects, elements>>
         \/ /\ Single' /\ UNCHANGED <<steady, bed_or_isf_objects, bed_sources>>
            /\ adjusted' = adjusted + Timeslot
            /\ dynamic_sources' = [i \in DOMAIN dynamic_sources |-> RampedSource(e1, i)]
            /\ e1'.blocks = e1.blocks /\ e1'.used = e1.used /\ e1'.update_now = e1.update_now
            /\ e1'.future = e1.future /\ e1'.future_distance = e1.future_distance - Timeslot
            /\ e1.future_distance > 0
<1>1. /\ DOMAIN elements = {1} /\ elements \in Seq(ElementState) /\ active = 1 /\ elements[active] = e1
      /\ e1 \in ElementState
  BY SingleTypes, TypeOKUnfolded DEF RampAndClose, e1
<1>2. CASE Panic
  BY <1>2 DEF Panic, layout, sources
<1>3. CASE ~(Len(dynamic_sources) > Len(elements[active].update_now))
  <2>1. /\ dynamic_sources' = [i \in DOMAIN dynamic_sources |-> RampedSource(e1, i)]
        /\ elements' = [elements EXCEPT ![1].future_distance = @ - Timeslot]
        /\ adjusted' = adjusted + Timeslot /\ UNCHANGED <<layout, bed_sources>>
        /\ e1.future_distance > 0
    BY <1>1, <1>3 DEF RampAndClose
  <2>2. elements' = [elements EXCEPT ![1] = [e1 EXCEPT !.future_distance = e1.future_distance - Timeslot]]
    BY <1>1, <2>1 DEF e1, ElementState
  <2>3. /\ e1' = [e1 EXCEPT !.future_distance = e1.future_distance - Timeslot]
        /\ Len(elements') = Len(elements)
    <3>1. 1 \in DOMAIN elements
      BY <1>1
    <3> QED
      BY <1>1, <2>2, <3>1, LengthKept DEF e1
  <2>4. Single' /\ UNCHANGED <<steady, bed_or_isf_objects>>
    BY <2>1, <2>3 DEF Single, layout
  <2>5. /\ e1'.blocks = e1.blocks /\ e1'.used = e1.used /\ e1'.update_now = e1.update_now
        /\ e1'.future = e1.future /\ e1'.future_distance = e1.future_distance - Timeslot
    BY <1>1, <2>3 DEF ElementState
  <2> QED
    BY <2>1, <2>4, <2>5
<1> QED
  BY <1>2, <1>3 DEF RampAndClose

\* A new payload's blocks are all to be taken; a ramp in flight goes on, or there is none.
LEMMA UpdateSingle ==
  ASSUME TypeOK, NEW p \in Payloads, NEW age \in 0 .. MaxDelay, ApplyUpdate(p, age), Single'
  PROVE  /\ \A b \in DOMAIN e1'.used : e1'.used[b] = FALSE
         /\ e1'.blocks = p.elements[1] /\ e1'.objects = p.object_count
         /\ \/ \A i \in DOMAIN e1'.update_now : e1'.update_now[i] = FALSE
            \/ /\ Single /\ e1.objects = p.object_count
               /\ e1'.update_now = e1.update_now /\ e1'.future = e1.future
               /\ e1'.future_distance = e1.future_distance
<1> DEFINE dynamic == Saturated(p.object_count, p.bed_or_isf_objects)
           kept    == Resized(elements, Len(p.elements), DefaultElement)
           Given(k) == AppliedElement(kept[k], p.elements[k], p.object_count, dynamic)
<1>1. /\ p.object_count \in Nat /\ p.bed_or_isf_objects \in Nat
      /\ p.elements \in Seq(Seq(Block)) /\ Len(p.elements) \in Nat
  BY MetadataAssumption DEF Payload
<1>2. dynamic \in Nat
  BY <1>1, SaturatedType
<1>3. /\ elements \in Seq(ElementState) /\ DefaultElement \in ElementState
  BY TypeOKUnfolded, DefaultElementOK DEF ElementOK
<1>4. kept \in Seq(ElementState) /\ Len(kept) = Len(p.elements)
  BY <1>1, <1>3, ResizedTypes, Zenon
<1>5. elements' = [k \in DOMAIN kept |-> Given(k)]
  BY DEF ApplyUpdate
<1>6. \/ kept = elements
      \/ \A k \in DOMAIN kept : kept[k] = DefaultElement
  <2>1. Len(elements) # Len(p.elements) => kept = Repeat(Len(p.elements), DefaultElement)
    BY DEF Resized
  <2>2. Len(elements) = Len(p.elements) => kept = elements
    BY DEF Resized
  <2> QED
    BY <2>1, <2>2 DEF Repeat
<1> HIDE DEF kept, dynamic
<1>7. Len(kept) = 1 /\ DOMAIN kept = {1} /\ e1' = Given(1)
  <2>1. DOMAIN kept = 1 .. Len(kept) /\ Len(kept) \in Nat
    BY <1>4
  <2>2. Len(elements') = Len(kept)
    BY <1>5, <2>1
  <2> QED
    BY <1>5, <2>1, <2>2 DEF Single, e1
<1> HIDE DEF Given
<1>8. kept[1] \in ElementState /\ p.elements[1] \in Seq(Block)
  <2>1. Len(p.elements) = 1 /\ 1 \in DOMAIN p.elements
    <3>1. Len(p.elements) = 1
      BY <1>4, <1>7
    <3>2. p.elements \in Seq(Seq(Block))
      BY <1>1
    <3> QED
      BY <3>1, <3>2
  <2>2. p.elements[1] \in Seq(Block)
    BY <1>1, <2>1
  <2>3. kept[1] \in ElementState
    BY <1>4, <1>7
  <2> QED
    BY <2>2, <2>3
<1> DEFINE blocks == p.elements[1]
<1> USE DEF Given
<1>9. CASE Outgrown(kept[1], blocks, p.object_count)
  <2>1. /\ e1'.objects = p.object_count /\ e1'.blocks = blocks
        /\ e1'.used = Repeat(Len(blocks), FALSE) /\ e1'.update_now = Repeat(dynamic, FALSE)
    BY <1>7, <1>9 DEF AppliedElement
  <2> QED
    BY <1>8, <2>1 DEF Repeat
<1>10. CASE ~Outgrown(kept[1], blocks, p.object_count)
  <2>1. /\ e1'.objects = kept[1].objects /\ e1'.blocks = blocks
        /\ e1'.used = Repeat(Len(blocks), FALSE) /\ e1'.update_now = kept[1].update_now
        /\ e1'.future = kept[1].future /\ e1'.future_distance = kept[1].future_distance
    BY <1>7, <1>8, <1>10 DEF AppliedElement, ElementState
  <2>2. kept[1].objects = p.object_count
    BY <1>10 DEF Outgrown
  <2>3. \A b \in DOMAIN e1'.used : e1'.used[b] = FALSE
    BY <1>8, <2>1 DEF Repeat
  <2>4. CASE kept = elements
    BY <1>7, <2>1, <2>2, <2>3, <2>4 DEF Single, e1
  <2>5. CASE kept[1] = DefaultElement
    <3>1. e1'.update_now = << >>
      BY <2>1, <2>5 DEF DefaultElement
    <3>2. \A i \in DOMAIN e1'.update_now : e1'.update_now[i] = FALSE
      BY <3>1
    <3> QED
      BY <2>1, <2>2, <2>3, <3>2
  <2> QED
    BY <1>6, <1>7, <2>4, <2>5
<1> QED
  BY <1>9, <1>10

-----------------------------------------------------------------------------
(***************************************************************************)
(* Ramps end at their targets.                                             *)
(***************************************************************************)

LandInv ==
  steady /\ Single /\ e1.future_distance <= 0 =>
    \A i \in DOMAIN dynamic_sources :
      e1.update_now[i] => dynamic_sources[i].place = e1.future[i]

\* Every dynamic source has its entry in the vectors of the only element.
LEMMA VectorsReach ==
  ASSUME TypeOK, SteadyInv, steady, Single
  PROVE  /\ dynamic_sources \in Seq(Source)
         /\ \A i \in DOMAIN dynamic_sources : i \in DOMAIN e1.update_now /\ i \in DOMAIN e1.future
<1>1. /\ dynamic_sources \in Seq(Source) /\ e1 \in ElementState /\ ElementOK(e1)
  BY SingleTypes, TypeOKUnfolded
<1>2. Len(e1.update_now) = DynamicCount /\ Len(dynamic_sources) = DynamicCount
  BY SingleTypes DEF SteadyInv, Fits, e1
<1>3. /\ e1.update_now \in Seq(BOOLEAN) /\ e1.future \in Seq(Places \cup {Between})
      /\ Len(e1.future) = Len(e1.update_now)
  BY <1>1 DEF ElementState, ElementOK
<1> HIDE DEF e1
<1> QED
  BY <1>1, <1>2, <1>3

SourcesReach == \A i \in DOMAIN dynamic_sources : i \in DOMAIN e1.update_now

LEMMA SourcesReachNext == TypeOK' /\ SteadyInv' /\ steady' /\ Single' => SourcesReach'
<1>1. TypeOK /\ SteadyInv /\ steady /\ Single => SourcesReach
  BY VectorsReach DEF SourcesReach
<1> QED
  BY <1>1, PTL

\* Taking a block or ramping neither adds nor removes an element.
LEMMA SingleBefore ==
  ASSUME TypeOK, TakeBlock \/ RampAndClose, Single', steady'
  PROVE  Single /\ steady
<1>1. steady' = steady
  BY LayoutUnchanged
<1>2. \/ elements' = elements
      \/ \E f : elements' = [elements EXCEPT ![active] = f]
  BY DEF TakeBlock, RampAndClose, Panic
<1>3. elements \in Seq(ElementState) /\ active \in DOMAIN elements
  BY TypeOKUnfolded DEF TakeBlock, RampAndClose
<1>4. Len(elements') = Len(elements)
  <2>1. ASSUME NEW f, elements' = [elements EXCEPT ![active] = f] PROVE Len(elements') = Len(elements)
    BY <1>3, <2>1, LengthKept
  <2> QED
    BY <1>2, <2>1
<1> QED
  BY <1>1, <1>4 DEF Single

LEMMA LandInvariance == TypeOK /\ SteadyInv /\ LandInv /\ [Next]_vars => LandInv'
<1> SUFFICES ASSUME TypeOK, SteadyInv, LandInv, [Next]_vars,
                    steady', Single', e1'.future_distance <= 0,
                    NEW i \in DOMAIN dynamic_sources', e1'.update_now[i]
             PROVE  dynamic_sources'[i].place = e1'.future[i]
  BY DEF LandInv
<1>1. ASSUME NEW p \in Payloads, NEW age \in 0 .. MaxDelay, ApplyUpdate(p, age)
      PROVE  dynamic_sources'[i].place = e1'.future[i]
  <2>1. Fits' /\ SteadyInv'
    BY <1>1, FitsAfterUpdate DEF SteadyInv, ApplyUpdate
  <2>2. TypeOK'
    BY <1>1, TypeInvariance DEF Next
  <2>3. i \in DOMAIN e1'.update_now
    BY <2>1, <2>2, SourcesReachNext DEF SourcesReach
  <2>4. /\ Single /\ e1.objects = p.object_count
        /\ e1'.update_now = e1.update_now /\ e1'.future = e1.future
        /\ e1'.future_distance = e1.future_distance
    BY <1>1, <2>3, UpdateSingle
  <2>5. /\ steady
        /\ p.object_count = object_count => p.bed_or_isf_objects = bed_or_isf_objects
    BY <1>1 DEF ApplyUpdate
  <2>6. object_count = p.object_count /\ Len(dynamic_sources) = DynamicCount
    <3>1. Fits /\ 1 \in DOMAIN elements
      BY <2>4, <2>5, SingleTypes DEF SteadyInv
    <3> QED
      BY <2>4, <3>1 DEF Fits, e1
  <2>7. dynamic_sources' = dynamic_sources
    BY <1>1, <2>5, <2>6 DEF ApplyUpdate, Resized, DynamicCount
  <2>8. e1.future_distance <= 0 /\ e1.update_now[i] /\ i \in DOMAIN dynamic_sources
    BY <2>4, <2>7
  <2>9. dynamic_sources[i].place = e1.future[i]
    BY <2>4, <2>5, <2>8 DEF LandInv
  <2> QED
    BY <2>4, <2>7, <2>9
<1>2. CASE OpenTimeslot
  <2>1. Single /\ steady
    BY <1>2 DEF OpenTimeslot, Single, layout
  <2> QED
    BY <1>2, <2>1, OpenSingle DEF LandInv, sources
<1>3. CASE TakeBlock
  <2>1. Single /\ steady
    BY <1>3, SingleBefore
  <2>2. CASE UNCHANGED <<sources, elements>>
    BY <2>1, <2>2 DEF LandInv, sources, e1
  <2>3. ASSUME NEW b \in DOMAIN e1.used, e1' = TakenElement(e1, b),
               dynamic_sources' = [j \in DOMAIN dynamic_sources |-> TakenSource(e1.blocks[b], j)]
        PROVE  dynamic_sources'[i].place = e1'.future[i]
    <3>1. i \in DOMAIN dynamic_sources /\ i \in DOMAIN e1.update_now /\ i \in DOMAIN e1.future
      BY <2>1, <2>3, VectorsReach
    <3>2. e1 \in ElementState
      BY <2>1, SingleTypes
    <3>3. /\ e1'.future_distance = RampLeft(e1.blocks[b])
          /\ e1'.update_now[i] = Part(e1.blocks[b], i).position_valid
          /\ e1'.future[i] = Target(Part(e1.blocks[b], i), dynamic_sources[i])
      <4> DEFINE t == TakenElement(e1, b)
      <4>1. /\ t.future_distance = RampLeft(e1.blocks[b])
            /\ t.update_now = [j \in DOMAIN e1.update_now |->
                 IF j \in DOMAIN dynamic_sources THEN Part(e1.blocks[b], j).position_valid
                                                 ELSE e1.update_now[j]]
            /\ t.future = [j \in DOMAIN e1.future |->
                 IF j \in DOMAIN dynamic_sources THEN Target(Part(e1.blocks[b], j), dynamic_sources[j])
                                                 ELSE e1.future[j]]
        BY <3>2, TakenFields
      <4>2. e1' = t
        BY <2>3
      <4> HIDE DEF t
      <4> QED
        BY <3>1, <4>1, <4>2
    <3>4. Reached(Part(e1.blocks[b], i), RampLeft(e1.blocks[b]))
      BY <3>3 DEF Reached
    <3>5. dynamic_sources'[i] = TakenSource(e1.blocks[b], i)
      BY <2>3, <3>1
    <3> QED
      BY <3>3, <3>4, <3>5 DEF TakenSource
  <2> QED
    BY <1>3, <2>1, <2>2, <2>3, TakeSingle
<1>4. CASE RampAndClose
  <2>1. Single /\ steady
    BY <1>4, SingleBefore
  <2>2. CASE UNCHANGED <<sources, elements>>
    BY <2>1, <2>2 DEF LandInv, sources, e1
  <2>3. CASE /\ dynamic_sources' = [j \in DOMAIN dynamic_sources |-> RampedSource(e1, j)]
             /\ e1'.update_now = e1.update_now /\ e1'.future = e1.future
             /\ e1'.future_distance = e1.future_distance - Timeslot
    <3>1. i \in DOMAIN dynamic_sources /\ dynamic_sources[i] \in Source
      BY <2>1, <2>3, VectorsReach
    <3>2. e1.future_distance <= Timeslot
      <4>1. e1.future_distance \in Int /\ Timeslot \in Int
        BY <2>1, SingleTypes, MetadataAssumption DEF ElementState
      <4> QED
        BY <2>3, <4>1
    <3>3. \A place : Lerp(place, e1.future[i], e1.future_distance) = e1.future[i]
      BY <3>2 DEF Lerp
    <3>4. dynamic_sources'[i] = RampedSource(e1, i)
      BY <2>3, <3>1
    <3>5. RampedSource(e1, i).place = e1.future[i]
      BY <2>3, <3>1, <3>3 DEF RampedSource, Source
    <3> QED
      BY <2>3, <3>4, <3>5
  <2> QED
    BY <1>4, <2>1, <2>2, <2>3, RampSingle
<1>5. CASE SkipTimeslot \/ CloseTimeslot \/ UNCHANGED vars
  BY <1>5 DEF SkipTimeslot, CloseTimeslot, vars, layout, sources, LandInv, Single, e1
<1>6. CASE Reset
  BY <1>6 DEF Reset, Single
<1> QED
  BY <1>1, <1>2, <1>3, <1>4, <1>5, <1>6 DEF Next

\* A source whose ramp ran out is at the target of the last block that gave it one, whatever payloads
\* arrived in the meantime.
THEOREM RampsAlwaysLand == Spec => []RampsLand
<1>1. Init => LandInv /\ SteadyInv
  BY DEF Init, LandInv, Single, SteadyInv, Fits, DynamicCount, Saturated
<1>2. LandInv => RampsLand
  BY DEF LandInv, RampsLand, Single, e1
<1> QED
  BY <1>1, <1>2, TypeCorrect, SteadyInvariance, LandInvariance, PTL DEF Spec

-----------------------------------------------------------------------------
(***************************************************************************)
(* Blocks in the order of their offsets.  No reader checks that they are;  *)
(* where they are not, what is in force in the end depends on how the      *)
(* timeslots cut the payload.                                              *)
(***************************************************************************)

InOrder(blocks) == \A b, c \in DOMAIN blocks : b < c => blocks[b].offset <= blocks[c].offset

Ascending == \A p \in Payloads : \A k \in DOMAIN p.elements : InOrder(p.elements[k])

\* What was taken is what comes first.
OrderInv ==
  Single => /\ InOrder(e1.blocks)
            /\ \A b, c \in DOMAIN e1.used : b < c /\ e1.used[c] => e1.used[b]

Latest(b) == e1.used[b] /\ \A c \in DOMAIN e1.used : e1.used[c] => c <= b

\* A ramp that is still on ends when the block that started it says.
TimeInv ==
  Single => \A b \in DOMAIN e1.used : Latest(b) =>
    \/ e1.future_distance <= 0
    \/ e1.future_distance + adjusted = e1.blocks[b].offset + e1.blocks[b].ramp_duration

Sets(b, object) == e1.blocks[b].objects[object].gain # Unset

\* The last block taken so far that sets the gain of an object.
Setter(b, object) ==
  e1.used[b] /\ Sets(b, object) /\ \A c \in DOMAIN e1.used : e1.used[c] /\ Sets(c, object) => c <= b

\* Each source has the gain that this block gave it.
GainInv ==
  Single => \A b \in DOMAIN e1.used :
    /\ \A k \in DOMAIN bed_sources :
         Setter(b, k) => bed_sources[k] = e1.blocks[b].objects[k].gain
    /\ \A i \in DOMAIN dynamic_sources :
         Setter(b, i + bed_or_isf_objects) =>
           dynamic_sources[i].gain = e1.blocks[b].objects[i + bed_or_isf_objects].gain

CutInv == OrderInv /\ TimeInv /\ GainInv

\* The next block comes after all that were taken, and before all that were not.
LEMMA NextInOrder ==
  ASSUME TypeOK, Single, OrderInv, active = 1, NEW b \in DOMAIN e1.used, IsNextBlock(b)
  PROVE  /\ ~e1.used[b] /\ adjusted > e1.blocks[b].offset
         /\ \A c \in DOMAIN e1.used : e1.used[c] => c < b
         /\ \A a \in DOMAIN e1.used : a < b => e1.used[a]
<1>1. /\ DOMAIN e1.used \subseteq Nat /\ DOMAIN e1.used = DOMAIN e1.blocks /\ adjusted \in Nat
      /\ \A c \in DOMAIN e1.blocks : e1.blocks[c].offset \in Nat
  BY SingleTypes DEF Block
<1>2. \A c \in DOMAIN e1.used : c \in DueBlocks <=> ~e1.used[c] /\ adjusted > e1.blocks[c].offset
  BY DEF DueBlocks, Due, e1
<1>3. b \in DueBlocks /\ \A c \in DueBlocks : b <= c
  BY DEF IsNextBlock
<1>4. ~e1.used[b] /\ adjusted > e1.blocks[b].offset
  BY <1>2, <1>3
<1>5. ASSUME NEW c \in DOMAIN e1.used, e1.used[c] PROVE c < b
  <2>1. ~(b < c)
    BY <1>4, <1>5 DEF OrderInv
  <2>2. c # b
    BY <1>4, <1>5
  <2> QED
    BY <1>1, <2>1, <2>2
<1>6. ASSUME NEW a \in DOMAIN e1.used, a < b PROVE e1.used[a]
  <2>1. a \notin DueBlocks
    BY <1>1, <1>3, <1>6
  <2>2. e1.blocks[a].offset <= e1.blocks[b].offset
    BY <1>1, <1>6 DEF OrderInv, InOrder
  <2>3. adjusted > e1.blocks[a].offset
    BY <1>1, <1>4, <2>2
  <2> QED
    BY <1>2, <2>1, <2>3
<1> QED
  BY <1>4, <1>5, <1>6

\* Steps that take no block and keep the gains.
LEMMA CutKept ==
  ASSUME CutInv, Single, Single', e1'.blocks = e1.blocks, e1'.used = e1.used,
         UNCHANGED <<bed_sources, bed_or_isf_objects>>,
         DOMAIN dynamic_sources' = DOMAIN dynamic_sources,
         \A i \in DOMAIN dynamic_sources : dynamic_sources'[i].gain = dynamic_sources[i].gain,
         \/ e1'.future_distance <= 0
         \/ /\ ~(e1.future_distance <= 0)
            /\ e1'.future_distance + adjusted' = e1.future_distance + adjusted
  PROVE  CutInv'
<1>1. OrderInv'
  BY DEF CutInv, OrderInv
<1>2. TimeInv'
  <2>1. \A b \in DOMAIN e1.used : Latest(b)' <=> Latest(b)
    BY DEF Latest
  <2> QED
    BY <2>1, Zenon DEF CutInv, TimeInv
<1>3. GainInv'
  <2>1. \A b \in DOMAIN e1.used : \A object : Setter(b, object)' <=> Setter(b, object)
    BY DEF Setter, Sets
  <2> QED
    BY <2>1 DEF CutInv, GainInv
<1> QED
  BY <1>1, <1>2, <1>3 DEF CutInv

LEMMA CutUpdate ==
  ASSUME Ascending, TypeOK, NEW p \in Payloads, NEW age \in 0 .. MaxDelay, ApplyUpdate(p, age)
  PROVE  CutInv'
<1> SUFFICES ASSUME Single' PROVE CutInv'
  BY DEF CutInv, OrderInv, TimeInv, GainInv
<1>1. (\A b \in DOMAIN e1'.used : ~e1'.used[b]) /\ e1'.blocks = p.elements[1]
  BY UpdateSingle
<1>2. 1 \in DOMAIN p.elements
  <2>1. p.elements \in Seq(Seq(Block)) /\ Len(p.elements) \in Nat
    BY MetadataAssumption DEF Payload
  <2>2. Len(Resized(elements, Len(p.elements), DefaultElement)) = Len(p.elements)
        /\ Resized(elements, Len(p.elements), DefaultElement) \in Seq(ElementState)
    <3>1. elements \in Seq(ElementState) /\ DefaultElement \in ElementState
      BY TypeOKUnfolded, DefaultElementOK DEF ElementOK
    <3> QED
      BY <2>1, <3>1, ResizedTypes, Zenon
  <2> DEFINE kept == Resized(elements, Len(p.elements), DefaultElement)
  <2>3. DOMAIN elements' = DOMAIN kept
    BY DEF ApplyUpdate
  <2> HIDE DEF kept
  <2>4. DOMAIN kept = 1 .. Len(p.elements)
    BY <2>2 DEF kept
  <2>5. elements' \in Seq(ElementState)
    BY UpdateTypes
  <2>6. 1 \in DOMAIN elements'
    BY <2>5 DEF Single
  <2> QED
    BY <2>1, <2>3, <2>4, <2>6
<1>3. InOrder(e1.blocks)'
  BY <1>1, <1>2 DEF Ascending, InOrder
<1> QED
  BY <1>1, <1>3 DEF CutInv, OrderInv, TimeInv, GainInv, Latest, Setter

LEMMA CutTaken ==
  ASSUME TypeOK, CutInv, Single, TakeBlock
  PROVE  CutInv'
<1>1. active = 1 /\ e1 \in ElementState
  BY SingleTypes DEF TakeBlock
<1>2. CASE UNCHANGED <<sources, adjusted, steady, bed_or_isf_objects, elements>>
  BY <1>2 DEF CutInv, OrderInv, TimeInv, GainInv, Latest, Setter, Sets, Single, sources, e1
<1>3. ASSUME NEW b \in DOMAIN e1.used, IsNextBlock(b), Single',
             UNCHANGED <<adjusted, bed_or_isf_objects>>,
             e1' = TakenElement(e1, b),
             bed_sources' = [k \in DOMAIN bed_sources |->
                               IfSet(e1.blocks[b].objects[k].gain, bed_sources[k])],
             dynamic_sources' = [i \in DOMAIN dynamic_sources |-> TakenSource(e1.blocks[b], i)]
      PROVE  CutInv'
  <2>1. /\ ~e1.used[b] /\ adjusted > e1.blocks[b].offset
        /\ \A c \in DOMAIN e1.used : e1.used[c] => c < b
        /\ \A a \in DOMAIN e1.used : a < b => e1.used[a]
    BY <1>1, <1>3, NextInOrder DEF CutInv
  <2>2. /\ DOMAIN e1.used \subseteq Nat /\ DOMAIN e1.used = DOMAIN e1.blocks /\ adjusted \in Nat
        /\ e1.blocks[b].offset \in Nat /\ e1.blocks[b].ramp_duration \in Nat
    BY SingleTypes DEF Block
  <2> DEFINE t == TakenElement(e1, b)
  <2>3. /\ t.blocks = e1.blocks /\ t.used = [e1.used EXCEPT ![b] = TRUE]
        /\ t.future_distance = RampLeft(e1.blocks[b])
    BY <1>1, TakenFields
  <2>4. e1' = t
    BY <1>3
  <2> HIDE DEF t
  <2>5. /\ e1'.blocks = e1.blocks /\ DOMAIN e1'.used = DOMAIN e1.used
        /\ \A c \in DOMAIN e1.used : e1'.used[c] <=> e1.used[c] \/ c = b
        /\ e1'.future_distance = RampLeft(e1.blocks[b])
    BY <2>3, <2>4
  <2>6. OrderInv'
    <3>1. ASSUME NEW a \in DOMAIN e1.used, NEW c \in DOMAIN e1.used, a < c, e1'.used[c]
          PROVE  e1'.used[a]
      <4>1. CASE c = b
        BY <2>1, <2>5, <3>1, <4>1
      <4>2. CASE e1.used[c]
        BY <2>5, <3>1, <4>2 DEF CutInv, OrderInv
      <4> QED
        BY <2>5, <3>1, <4>1, <4>2
    <3>2. InOrder(e1'.blocks)
      BY <2>5 DEF CutInv, OrderInv
    <3> QED
      BY <2>5, <3>1, <3>2 DEF OrderInv, InOrder
  <2>7. TimeInv'
    <3>1. ASSUME NEW c \in DOMAIN e1.used, Latest(c)' PROVE c = b
      <4>1. b <= c /\ (e1.used[c] \/ c = b)
        BY <2>5, <3>1 DEF Latest
      <4> QED
        BY <2>1, <2>2, <4>1
    <3>2. e1'.future_distance + adjusted' = e1.blocks[b].offset + e1.blocks[b].ramp_duration
      <4>1. e1'.future_distance = e1.blocks[b].ramp_duration - (adjusted - e1.blocks[b].offset)
        BY <2>5 DEF RampLeft
      <4> QED
        BY <1>3, <2>2, <4>1
    <3> QED
      BY <2>5, <3>1, <3>2 DEF TimeInv
  <2>8. ASSUME NEW c \in DOMAIN e1.used, NEW object, Setter(c, object)', c # b
        PROVE  ~Sets(b, object) /\ Setter(c, object)
    <3>1. e1.used[c] /\ Sets(c, object)
      BY <2>5, <2>8 DEF Setter, Sets
    <3>2. c < b
      BY <2>1, <3>1
    <3>3. ~Sets(b, object)
      BY <2>2, <2>5, <2>8, <3>2 DEF Setter, Sets
    <3>4. \A d \in DOMAIN e1.used : e1.used[d] /\ Sets(d, object) => d <= c
      BY <2>5, <2>8 DEF Setter, Sets
    <3> QED
      BY <3>1, <3>3, <3>4 DEF Setter
  <2>9. ASSUME NEW c \in DOMAIN e1.used, NEW k \in DOMAIN bed_sources, Setter(c, k)'
        PROVE  bed_sources'[k] = e1.blocks[c].objects[k].gain
    <3>1. bed_sources'[k] = IfSet(e1.blocks[b].objects[k].gain, bed_sources[k])
      BY <1>3
    <3>2. CASE c = b
      BY <2>5, <2>9, <3>1, <3>2 DEF Setter, Sets, IfSet
    <3>3. CASE c # b
      BY <2>8, <2>9, <3>1, <3>3 DEF CutInv, GainInv, Sets, IfSet
    <3> QED
      BY <3>2, <3>3
  <2>10. ASSUME NEW c \in DOMAIN e1.used, NEW i \in DOMAIN dynamic_sources,
                Setter(c, i + bed_or_isf_objects)'
         PROVE  dynamic_sources'[i].gain = e1.blocks[c].objects[i + bed_or_isf_objects].gain
    <3> DEFINE object == i + bed_or_isf_objects
    <3>1. dynamic_sources'[i].gain = IfSet(e1.blocks[b].objects[object].gain, dynamic_sources[i].gain)
      BY <1>3 DEF TakenSource, Part
    <3>2. PICK o : o = object
      OBVIOUS
    <3>3. Setter(c, o)'
      BY <1>3, <2>10, <3>2
    <3>4. CASE c = b
      BY <2>5, <3>1, <3>2, <3>3, <3>4 DEF Setter, Sets, IfSet
    <3>5. CASE c # b
      <4>1. ~Sets(b, o) /\ Setter(c, o)
        BY <2>8, <3>3, <3>5
      <4>2. dynamic_sources[i].gain = e1.blocks[c].objects[object].gain
        BY <3>2, <4>1 DEF CutInv, GainInv
      <4> QED
        BY <3>1, <3>2, <4>1, <4>2 DEF Sets, IfSet
    <3> QED
      BY <3>4, <3>5
  <2>11. GainInv'
    <3>1. DOMAIN bed_sources' = DOMAIN bed_sources /\ DOMAIN dynamic_sources' = DOMAIN dynamic_sources
      BY <1>3
    <3> QED
      BY <1>3, <2>5, <2>9, <2>10, <3>1 DEF GainInv
  <2> QED
    BY <2>6, <2>7, <2>11 DEF CutInv
<1> QED
  BY <1>2, <1>3, TakeSingle

LEMMA CutInvariance == Ascending /\ TypeOK /\ CutInv /\ [Next]_vars => CutInv'
<1> SUFFICES ASSUME Ascending, TypeOK, CutInv, [Next]_vars PROVE CutInv'
  OBVIOUS
<1>1. CASE \E p \in Payloads, age \in 0 .. MaxDelay : ApplyUpdate(p, age)
  BY <1>1, CutUpdate
<1>2. CASE Reset
  BY <1>2 DEF Reset, Single, CutInv, OrderInv, TimeInv, GainInv
<1>3. CASE /\ SkipTimeslot \/ OpenTimeslot \/ TakeBlock \/ CloseTimeslot \/ RampAndClose \/ UNCHANGED vars
           /\ ~Single
  <2>1. Len(elements') = Len(elements)
    <3>1. \/ elements' = elements
          \/ \E k \in DOMAIN elements, f \in ElementState : elements' = [elements EXCEPT ![k] = f]
      BY <1>3, ElementSteps
    <3>2. elements \in Seq(ElementState)
      BY TypeOKUnfolded
    <3>3. ASSUME NEW k \in DOMAIN elements, NEW f, elements' = [elements EXCEPT ![k] = f]
          PROVE  Len(elements') = Len(elements)
      BY <3>2, <3>3, LengthKept
    <3> QED
      BY <3>1, <3>3
  <2> QED
    BY <1>3, <2>1 DEF Single, CutInv, OrderInv, TimeInv, GainInv
<1>4. CASE TakeBlock /\ Single
  BY <1>4, CutTaken
<1>5. CASE OpenTimeslot /\ Single
  <2>1. /\ Single' /\ UNCHANGED <<sources, adjusted, bed_or_isf_objects>>
        /\ e1'.blocks = e1.blocks /\ e1'.used = e1.used /\ e1'.future_distance = e1.future_distance
    BY <1>5, OpenSingle
  <2>2. \/ e1'.future_distance <= 0
        \/ ~(e1.future_distance <= 0) /\ e1'.future_distance + adjusted' = e1.future_distance + adjusted
    BY <2>1
  <2> QED
    BY <1>5, <2>1, <2>2, CutKept DEF sources
<1>6. CASE RampAndClose /\ Single
  <2>1. CASE UNCHANGED <<sources, adjusted, steady, bed_or_isf_objects, elements>>
    BY <2>1 DEF CutInv, OrderInv, TimeInv, GainInv, Latest, Setter, Sets, Single, sources, e1
  <2>2. CASE /\ Single' /\ UNCHANGED <<steady, bed_or_isf_objects, bed_sources>>
             /\ adjusted' = adjusted + Timeslot
             /\ dynamic_sources' = [i \in DOMAIN dynamic_sources |-> RampedSource(e1, i)]
             /\ e1'.blocks = e1.blocks /\ e1'.used = e1.used
             /\ e1'.future_distance = e1.future_distance - Timeslot
             /\ e1.future_distance > 0
    <3>1. /\ e1.future_distance \in Int /\ Timeslot \in Int /\ adjusted \in Int
          /\ dynamic_sources \in Seq(Source)
      BY <1>6, SingleTypes, TypeOKUnfolded, MetadataAssumption DEF ElementState
    <3>2. /\ ~(e1.future_distance <= 0)
          /\ e1'.future_distance + adjusted' = e1.future_distance + adjusted
      BY <2>2, <3>1
    <3>3. \A i \in DOMAIN dynamic_sources : dynamic_sources'[i].gain = dynamic_sources[i].gain
      <4> SUFFICES ASSUME NEW i \in DOMAIN dynamic_sources
                   PROVE  dynamic_sources'[i].gain = dynamic_sources[i].gain
        OBVIOUS
      <4>1. dynamic_sources[i] \in Source /\ dynamic_sources'[i] = RampedSource(e1, i)
        BY <2>2, <3>1
      <4> QED
        BY <4>1 DEF RampedSource, Source
    <3>4. DOMAIN dynamic_sources' = DOMAIN dynamic_sources
      BY <2>2
    <3> QED
      BY <1>6, <2>2, <3>2, <3>3, <3>4, CutKept
  <2> QED
    BY <1>6, <2>1, <2>2, RampSingle
<1>7. CASE SkipTimeslot /\ Single
  <2>1. UNCHANGED <<sources, elements, bed_or_isf_objects>> /\ NothingToEvaluate
    BY <1>7 DEF SkipTimeslot, layout
  <2>2. e1.blocks = << >>
    <3>1. DOMAIN elements = {1}
      BY <1>7, SingleTypes
    <3>2. IsActive(1)
      BY <3>1 DEF IsActive
    <3> QED
      BY <2>1, <3>1, <3>2 DEF NothingToEvaluate, e1
  <2>3. DOMAIN e1.used = {}
    BY <1>7, <2>2, SingleTypes
  <2>4. e1' = e1 /\ Single'
    BY <1>7, <2>1 DEF e1, Single
  <2>5. OrderInv'
    BY <1>7, <2>4 DEF CutInv, OrderInv
  <2>6. TimeInv' /\ GainInv'
    BY <2>3, <2>4 DEF TimeInv, GainInv
  <2> QED
    BY <2>5, <2>6 DEF CutInv
<1>8. CASE CloseTimeslot /\ Single
  <2>1. /\ UNCHANGED <<sources, elements, bed_or_isf_objects>> /\ elements[active].future_distance <= 0
        /\ active = 1
    BY <1>8, SingleTypes DEF CloseTimeslot, layout
  <2>2. e1' = e1 /\ Single' /\ e1.future_distance <= 0
    BY <1>8, <2>1 DEF e1, Single
  <2> QED
    BY <1>8, <2>1, <2>2, CutKept DEF sources
<1>9. CASE UNCHANGED vars
  BY <1>9 DEF vars, layout, CutInv, OrderInv, TimeInv, GainInv, Latest, Setter, Sets, Single, sources, e1
<1> QED
  BY <1>1, <1>2, <1>3, <1>4, <1>5, <1>6, <1>7, <1>8, <1>9 DEF Next

LEMMA CutStart == Init => CutInv
BY DEF Init, Single, CutInv, OrderInv, TimeInv, GainInv

\* Once all blocks of a payload were taken, each source has the gain of the last block that sets it,
\* for any payloads whose blocks are in the order of their offsets.
THEOREM GainsAlwaysInForce == ASSUME Ascending PROVE Spec => []GainsInForce
<1>1. TypeOK /\ CutInv => GainsInForce
  <2> SUFFICES ASSUME TypeOK, CutInv, Single, \A b \in DOMAIN e1.used : e1.used[b]
               PROVE  /\ \A k \in DOMAIN bed_sources : \A b \in GainBlocks(e1.blocks, k) :
                           (\A c \in GainBlocks(e1.blocks, k) : c <= b) =>
                             bed_sources[k] = e1.blocks[b].objects[k].gain
                      /\ \A i \in DOMAIN dynamic_sources :
                           \A b \in GainBlocks(e1.blocks, i + bed_or_isf_objects) :
                             (\A c \in GainBlocks(e1.blocks, i + bed_or_isf_objects) : c <= b) =>
                               dynamic_sources[i].gain =
                                 e1.blocks[b].objects[i + bed_or_isf_objects].gain
    BY DEF GainsInForce, Single, e1
  <2>1. DOMAIN e1.used = DOMAIN e1.blocks
    BY SingleTypes
  <2>2. ASSUME NEW object, NEW b \in GainBlocks(e1.blocks, object),
               \A c \in GainBlocks(e1.blocks, object) : c <= b
        PROVE  b \in DOMAIN e1.used /\ Setter(b, object)
    BY <2>1, <2>2 DEF GainBlocks, Setter, Sets
  <2> QED
    BY <2>2 DEF CutInv, GainInv
<1>2. TypeOK /\ CutInv /\ [Next]_vars => CutInv'
  BY CutInvariance
<1> QED
  BY <1>1, CutStart, <1>2, TypeCorrect, PTL DEF Spec

\* A ramp is over when its samples are, however late in the timeslots its block was taken, for any
\* payloads whose blocks are in the order of their offsets.
THEOREM RampsAlwaysOnTime == ASSUME Ascending PROVE Spec => []RampsOnTime
<1>1. TypeOK /\ CutInv => RampsOnTime
  <2> SUFFICES ASSUME TypeOK, CutInv, Single, NEW b \in DOMAIN e1.used, Latest(b),
                      adjusted >= e1.blocks[b].offset + e1.blocks[b].ramp_duration
               PROVE  e1.future_distance <= 0
    BY DEF RampsOnTime, Single, e1, Latest
  <2>1. /\ e1.future_distance \in Int /\ adjusted \in Int
        /\ e1.blocks[b].offset \in Int /\ e1.blocks[b].ramp_duration \in Int
    BY SingleTypes DEF ElementState, Block
  <2>2. \/ e1.future_distance <= 0
        \/ e1.future_distance + adjusted = e1.blocks[b].offset + e1.blocks[b].ramp_duration
    BY DEF CutInv, TimeInv
  <2> QED
    BY <2>1, <2>2
<1>2. TypeOK /\ CutInv /\ [Next]_vars => CutInv'
  BY CutInvariance
<1> QED
  BY <1>1, CutStart, <1>2, TypeCorrect, PTL DEF Spec
=============================================================================
