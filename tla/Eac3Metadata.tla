---------------------------- MODULE Eac3Metadata ----------------------------
(***************************************************************************)
(* E-AC-3 object metadata from frame to frame: Decoder::push_access_unit   *)
(* looks for EMDF blocks in what the aux walk found (Eac3Syntax) or in the *)
(* whole frame, and completes each object payload by what earlier ones     *)
(* sent for the same slot, object and block.  The state is advanced while  *)
(* the frame is still being judged, by payloads nobody will be told of.    *)
(*                                                                         *)
(* An EMDF block is the payloads found in it until it turns out whole or   *)
(* broken.  Priorities are kept like gains, distances and screen factors   *)
(* like the position and the anchor they come with; they are left out.     *)
(*                                                                         *)
(* A definition named Fault_... is a plausible slip in the definition that *)
(* follows it; it serves to show that the properties tell the difference.  *)
(***************************************************************************)
EXTENDS Eac3Payloads

CONSTANTS
  Gains, Places, Sizes,   \* values that are only told apart
  Payloads,     \* payloads of EMDF blocks
  Units,        \* access units a stream may hold
  Nothing,      \* None
  MaxUnits      \* bound: access units since the last reset

Anchor == {"room", "screen", "speaker"}

Position == [at : Places, differential : BOOLEAN]

\* OamdObjectBlockParseState; a position comes with whether it is a delta.
KeptBlock ==
  [anchor : Anchor, gain : Gains \cup {Nothing}, valid_position : BOOLEAN,
   position : Position \cup {Nothing}, size : Sizes \cup {Nothing}]

\* The blocks of the objects of an element.
Slot == Seq(Seq(KeptBlock))

RawBlock ==
  [inactive : BOOLEAN, basic_status : 0 .. 3, basic : SUBSET Basic, render_status : 0 .. 3, render : SUBSET Render,
   gain : Gains \cup {Nothing}, at : Places, delta : BOOLEAN, size : Sizes \cup {Nothing}, screen : BOOLEAN]

RawElement ==
  [index : Nat, offset_code : 0 .. 3, taken : Nat, length : Nat, block_count : Nat \ {0},
   objects : Seq(Seq(RawBlock))]

\* An object payload: slots of object elements (index 1) and of others, objects by blocks in each.
IsOamd(p) ==
  /\ p.version \in Nat /\ p.object_count \in Nat \ {0}
  /\ p.program.isf \in Nat
  /\ p.elements \in Seq(RawElement)
  /\ \A e \in ToSet(p.elements) :
       /\ Len(e.objects) = p.object_count
       /\ \A o \in DOMAIN e.objects : Len(e.objects[o]) = e.block_count

EmdfBlock == [payloads : Seq(Payloads), whole : BOOLEAN]

\* syntax: does the frame announce skip fields, and what came of the walk.
Unit ==
  [syntax : {"none", "starts", "sequential"},
   walked : {"whole", "unsupported", "mismatch", "fatal"},
   length : {"exact", "short", "long"},
   fields : Seq(EmdfBlock), marked : Seq(EmdfBlock), trailing : Seq(EmdfBlock), scanned : Seq(EmdfBlock)]

ASSUME MetadataAssumption ==
  /\ \A p \in Payloads : p.id = 11 => IsOamd(p)
  /\ Units \subseteq Unit
  /\ Nothing \notin Units \cup Position
  /\ Nothing \notin Slot
  /\ MaxUnits \in Nat

VARIABLES
  elements,     \* OamdPayloadParseState
  frames_seen,
  (* the push under way *)
  unit,         \* Nothing between pushes
  source,       \* EmdfSource
  todo,         \* EMDF blocks the scan has still to meet
  block,        \* payloads read from the one it is in
  found,        \* payloads of the whole blocks
  (* history *)
  units,        \* pushed since the last reset
  applied,      \* object payloads applied to elements, in order
  view          \* the last object payload an accepted push told of

push == <<unit, source, todo, block, found>>
history == <<units, applied, view>>
vars == <<elements, frames_seen, push, history>>

----------------------------------------------------------------------------
(***************************************************************************)
(* Resolving a payload.                                                    *)
(***************************************************************************)

Default ==
  [anchor |-> "room", gain |-> Nothing, valid_position |-> FALSE, position |-> Nothing, size |-> Nothing]

Or(sent, kept) == IF sent = Nothing THEN kept ELSE sent

Fault_GainForgotten(kept, parsed, bed) ==
  [anchor |-> IF bed THEN "speaker" ELSE IF parsed.screen THEN "screen" ELSE kept.anchor,
   gain |-> parsed.gain,
   valid_position |-> IF parsed.render_sent THEN parsed.position # Nothing ELSE kept.valid_position,
   position |-> Or(parsed.position, kept.position),
   size |-> Or(parsed.size, kept.size)]

ResolveBlock(kept, parsed, bed) ==
  [anchor |-> IF bed THEN "speaker" ELSE IF parsed.screen THEN "screen" ELSE kept.anchor,
   gain |-> Or(parsed.gain, kept.gain),
   valid_position |-> IF parsed.render_sent THEN parsed.position # Nothing ELSE kept.valid_position,
   position |-> Or(parsed.position, kept.position),
   size |-> Or(parsed.size, kept.size)]

IsObject(e) == e.index = 1

\* An element is kept while the numbers of its objects and of their blocks are.
Keeps(kept, p, e) ==
  kept # Nothing /\ Len(kept) = p.object_count /\ Len(kept[1]) = e.block_count

ResolveElement(kept, p, e) ==
  LET of(o, b) == IF Keeps(kept, p, e) THEN kept[o][b] ELSE Default
      bed(o) == o <= BedOrIsfObjects(p.program)
  IN  IF ~IsObject(e) THEN kept
      ELSE [o \in 1 .. p.object_count |-> [b \in 1 .. e.block_count |->
             ResolveBlock(of(o, b), ParseObjectBlock(e.objects[o][b], b, bed(o), Nothing), bed(o))]]

Fault_SlotsKept(p) ==
  [s \in DOMAIN p.elements |-> IF s \in DOMAIN elements THEN elements[s] ELSE Nothing]

\* The elements a payload starts from: none of them, if their number is another one.
Slots(p) == IF Len(elements) = Len(p.elements) THEN elements ELSE [s \in DOMAIN p.elements |-> Nothing]

Resolved(p) == [s \in DOMAIN p.elements |-> ResolveElement(Slots(p)[s], p, p.elements[s])]

Fault_ToldBefore(p) ==
  [at |-> Len(applied) + 1,
   elements |-> [s \in DOMAIN p.elements |-> IF IsObject(p.elements[s]) THEN Slots(p)[s] ELSE Nothing]]

\* What the payload says once it is resolved: the state of its object elements.
Told(p) ==
  [at |-> Len(applied) + 1,
   elements |-> [s \in DOMAIN p.elements |-> IF IsObject(p.elements[s]) THEN Resolved(p)[s] ELSE Nothing]]

----------------------------------------------------------------------------
(***************************************************************************)
(* Where EMDF blocks are looked for.                                       *)
(***************************************************************************)

\* Skip fields whose walk failed are found again by the sync words in them, but only where the frame
\* has no block starts; that scan uses a state of its own.
AuxParseStatus(u) ==
  CASE u.syntax = "none" -> "Disabled"
    [] u.walked = "whole" -> "Extracted"
    [] u.syntax = "sequential" /\ u.marked # << >> -> "SyncAnchoredRecovery"
    [] u.walked = "unsupported" -> "UnsupportedSyntax"
    [] u.syntax = "starts" -> "SyntaxMismatch"
    [] OTHER -> "NoBlockStartInfo"

SkipFields(u) ==
  CASE AuxParseStatus(u) = "Extracted" -> u.fields
    [] AuxParseStatus(u) = "SyncAnchoredRecovery" -> u.marked
    [] OTHER -> << >>

\* Of the aux data only its EMDF blocks count: data without any is scanned in vain.
AuxData(u) == SkipFields(u) \o u.trailing

----------------------------------------------------------------------------
(***************************************************************************)
(* Pushing an access unit.                                                 *)
(***************************************************************************)

Idle == unit = Nothing

Init ==
  /\ elements = << >> /\ frames_seen = 0
  /\ unit = Nothing /\ source = "None" /\ todo = << >> /\ block = << >> /\ found = << >>
  /\ units = 0 /\ applied = << >> /\ view = Nothing

\* Its header or its audio blocks get the frame rejected before its metadata is looked at.
Refuse(u) ==
  /\ Idle /\ units < MaxUnits
  /\ u.walked = "fatal"
  /\ units' = units + 1
  /\ UNCHANGED <<elements, frames_seen, push, applied, view>>

Begin(u) ==
  /\ Idle /\ units < MaxUnits
  /\ u.walked # "fatal"
  /\ unit' = u /\ units' = units + 1
  /\ source' = "AuxData"
  /\ todo' = AuxData(u)
  /\ UNCHANGED <<elements, frames_seen, block, found, applied, view>>

InBlock == todo # << >> /\ Head(todo).payloads # << >>

Advance == todo' = <<[Head(todo) EXCEPT !.payloads = Tail(@)]>> \o Tail(todo)

\* A payload that cannot be read, of any kind, and one that is not OAMD: listed, with no effect.
Opaque(p) == ~(p.id = 11 /\ OamdParses(p))

ReadOther ==
  /\ InBlock /\ Opaque(Head(Head(todo).payloads))
  /\ block' = Append(block, Nothing)
  /\ Advance
  /\ UNCHANGED <<elements, frames_seen, unit, source, found, history>>

ReadOamd ==
  /\ InBlock /\ ~Opaque(Head(Head(todo).payloads))
  /\ LET p == Head(Head(todo).payloads)
     IN  /\ elements' = Resolved(p)
         /\ block' = Append(block, Told(p))
         /\ applied' = Append(applied, p)
  /\ Advance
  /\ UNCHANGED <<frames_seen, unit, source, found, units, view>>

\* A block that turns out broken is dropped; what its payloads did to the state is not undone.
EndBlock ==
  /\ todo # << >> /\ Head(todo).payloads = << >>
  /\ found' = IF Head(todo).whole THEN found \o block ELSE found
  /\ block' = << >>
  /\ todo' = Tail(todo)
  /\ UNCHANGED <<elements, frames_seen, unit, source, history>>

\* Without a block in the aux data the whole frame is scanned, its aux data again with it.
ScanFrame ==
  /\ ~Idle /\ todo = << >> /\ source = "AuxData" /\ found = << >>
  /\ todo' = unit.scanned
  /\ source' = "FrameScanFallback"
  /\ UNCHANGED <<elements, frames_seen, unit, block, found, history>>

LastTold ==
  LET told == {i \in DOMAIN found : found[i] # Nothing}
  IN  IF told = {} THEN view ELSE found[Max(told)]

Return ==
  /\ ~Idle /\ todo = << >>
  /\ source = "AuxData" => found # << >>
  /\ IF unit.length = "exact"
     THEN frames_seen' = frames_seen + 1 /\ view' = LastTold
     ELSE UNCHANGED <<frames_seen, view>>
  /\ unit' = Nothing /\ source' = "None" /\ found' = << >>
  /\ UNCHANGED <<elements, todo, block, units, applied>>

Reset ==
  /\ Idle
  /\ elements' = << >> /\ frames_seen' = 0
  /\ units' = 0 /\ applied' = << >> /\ view' = Nothing
  /\ UNCHANGED push

Next ==
  \/ \E u \in Units : Refuse(u)
  \/ \E u \in Units : Begin(u)
  \/ ReadOther
  \/ ReadOamd
  \/ EndBlock
  \/ ScanFrame
  \/ Return
  \/ Reset

Spec == Init /\ [][Next]_vars

----------------------------------------------------------------------------
(***************************************************************************)
(* Properties.                                                             *)
(***************************************************************************)

\* One kept block for each object and each block, whatever came before.
Kept(slot) ==
  slot # Nothing =>
    /\ slot \in Slot /\ Len(slot) > 0
    /\ \A o \in DOMAIN slot :
         /\ Len(slot[o]) = Len(slot[1]) /\ Len(slot[o]) > 0
         /\ \A b \in DOMAIN slot[o] : slot[o][b].valid_position => slot[o][b].position # Nothing

\* A delta is added to the block before it: the first block of an object never holds one.
FirstBlockAbsolute(slot) ==
  slot # Nothing =>
    \A o \in DOMAIN slot : slot[o][1].position # Nothing => ~slot[o][1].position.differential

\* What is kept has the shape the next payload relies on, and its first blocks stand for themselves.
TypeOK ==
  /\ frames_seen \in 0 .. units /\ units \in 0 .. MaxUnits
  /\ unit \in Units \cup {Nothing}
  /\ source \in {"None", "AuxData", "FrameScanFallback"}
  /\ Idle => todo = << >> /\ block = << >> /\ found = << >>
  /\ \A s \in DOMAIN elements : Kept(elements[s]) /\ FirstBlockAbsolute(elements[s])

\* Since when the element in slot s has been kept, told by the payloads alone: the numbers of
\* elements, of objects and of blocks have not changed since.
Describes(p, s) == s \in DOMAIN p.elements /\ IsObject(p.elements[s])
Shape(p, s) == <<p.object_count, p.elements[s].block_count>>

Era(s) ==
  {i \in DOMAIN applied :
     /\ Describes(applied[i], s)
     /\ \A j \in i .. Len(applied) :
          /\ Len(applied[j].elements) = Len(elements)
          /\ Describes(applied[j], s) => Shape(applied[j], s) = Shape(applied[i], s)}

Beds(i) == BedOrIsfObjects(applied[i].program)

Said(i, s, o, b) == ParseObjectBlock(applied[i].elements[s].objects[o][b], b, o <= Beds(i), Nothing)

\* Of values sent one after the other, some of them Nothing, the one that holds.
LastSent(values) ==
  LET sent == {i \in DOMAIN values : values[i] # Nothing}
  IN  IF sent = {} THEN Nothing ELSE values[Max(sent)]

\* What is kept is what was said last; tied are the times the object was in the bed.
Retains(kept, said, tied) ==
  LET render == {i \in DOMAIN said : said[i].render_sent}
      screen == {i \in DOMAIN said : said[i].screen}
  IN  /\ kept.gain = LastSent([i \in DOMAIN said |-> said[i].gain])
      /\ kept.position = LastSent([i \in DOMAIN said |-> said[i].position])
      /\ kept.size = LastSent([i \in DOMAIN said |-> said[i].size])
      /\ kept.valid_position = (render # {} /\ said[Max(render)].position # Nothing)
      /\ kept.anchor = IF tied \cup screen = {} THEN "room"
                       ELSE IF Max(tied \cup screen) \in tied THEN "speaker" ELSE "screen"

\* A value kept for a block of an object is the last one sent for this very block of this object
\* since its element was made anew, over however many frames, rejected ones included; a place in the
\* room is never taken up again.
RetainedIsLastSent ==
  \A s \in DOMAIN elements :
    /\ (elements[s] = Nothing) = (Era(s) = {})
    /\ elements[s] # Nothing => \A o \in DOMAIN elements[s] : \A b \in DOMAIN elements[s][o] :
         Retains(elements[s][o][b], [i \in Era(s) |-> Said(i, s, o, b)], {i \in Era(s) : o <= Beds(i)})

\* An object is tied to speakers exactly if it is a bed object, unless the border between beds and
\* dynamic objects was moved while its element was kept: then it may stay tied to them.
AnchorsTellBeds ==
  \A s \in DOMAIN elements :
    (elements[s] # Nothing /\ \A i, j \in Era(s) : Beds(i) = Beds(j)) =>
      \A o \in DOMAIN elements[s] : \A b \in DOMAIN elements[s][o] :
        (elements[s][o][b].anchor = "speaker") = (\E i \in Era(s) : o <= Beds(i))

\* What the client was told last is what the next payload will be completed by, unless a payload
\* was applied since that it never saw: in a broken block, or in a frame of the wrong length.
ClientUpToDate ==
  (view # Nothing /\ view.at = Len(applied)) =>
    /\ DOMAIN view.elements = DOMAIN elements
    /\ \A s \in DOMAIN elements : view.elements[s] # Nothing => view.elements[s] = elements[s]
=============================================================================
