-------------------------- MODULE MCTrueHdDecoder --------------------------
(***************************************************************************)
(* Small instances of TrueHdDecoder: blocks of 1 to 3 samples in access    *)
(* units of up to 4, so that two blocks of 3 overflow the sample buffers   *)
(* and a block that is larger than its predecessor leaves a hole in it.    *)
(***************************************************************************)
EXTENDS TrueHdDecoder, TLC

Blk(restart, size, defect) == [restart |-> restart, size |-> size, defect |-> defect]

Plain == Blk(Nothing, Nothing, "none")
Resize(n) == Blk(Nothing, n, "none")
Restart(columns) == Blk(columns, Nothing, "none")

Seg(blocks) == [blocks |-> blocks, checks |-> TRUE, zero_samples |-> Nothing]

Sync(n, info, extended, samples) ==
  [substreams |-> n, info |-> info, extended |-> extended, samples |-> samples]

Unit(sync, segments, broken) == [sync |-> sync, segments |-> segments, broken |-> broken]

Two(s, t) == 0 :> s @@ 1 :> t

Four(s, t, u, v) == Two(s, t) @@ 2 :> u @@ 3 :> v

\* substream_info 0x28 and 0x24: the second substream is needed; 0x14: it is not.
Stereo == Sync(2, {3, 5}, 0, 4)
Swapped == Sync(2, {2, 5}, 0, 4)
Mono == Sync(2, {2, 4}, 0, 4)
\* extended_substream_info of a stream with more substreams: accepted with a warning.
Extended == Sync(2, {3, 5}, 1, 4)

First == Seg(<<Restart({0})>>)
Second == Seg(<<Blk({1, 2}, 2, "none")>>)

Headers == Two(First, Second)

Starts ==
  { Unit(sync, Headers, "no") : sync \in {Stereo, Swapped, Mono, Extended, Sync(1, {2, 4}, 0, 4)} }
    \cup { Unit(Stereo, Headers, b) : b \in {"extra", "too long"} }
    \cup { Unit(Mono, Headers, b) : b \in {"sync", "directory"} }

\* Without restart headers; a restart that is too large; a restart in the second block.
OddStarts ==
  { Unit(Stereo, Two(Seg(<<Plain>>), Second), "no"),
    Unit(Sync(2, {3, 5}, 0, 2), Two(First, Seg(<<Blk({1}, 3, "none")>>)), "no"),
    Unit(Stereo, Two(Seg(<<Restart({0}), Restart({0, 1})>>), Second), "no"),
    Unit(Stereo, Two(First, Seg(<<Blk({1, 2}, Nothing, "lossless")>>)), "no") }

Continuations ==
  { Unit(Nothing, Two(Seg(<<b>>), Seg(<<c>>)), "no") :
      b \in {Plain, Resize(3), Blk(Nothing, 1, "data")},
      c \in {Plain, Blk(Nothing, 3, "header"), Blk({1, 2, 3}, Nothing, "saturates")} }
    \cup
  { Unit(Nothing, Two(Seg(<<Resize(3), Plain>>), Seg(<<Plain>>)), "no"),
    Unit(Nothing, Two(Seg(<<Plain>>), [Seg(<<Resize(3)>>) EXCEPT !.checks = FALSE]), "no") }

AnyAccessUnits == Starts \cup OddStarts \cup Continuations

\* Streams with an object presentation; its OAMD rides on the fourth substream.
Objects == Sync(4, {2, 4, 7}, 0, 4)        \* 0x94: the fourth substream alone
MoreObjects == Sync(4, {3, 6, 7}, 1, 4)    \* 0xC8: the third and the fourth

Quad(last) == Four(First, Seg(<<Restart({1})>>), Seg(<<Restart({2})>>), last)

QuadPlain(last) == Four(Seg(<<Plain>>), Seg(<<Plain>>), Seg(<<Plain>>), last)

ObjectAccessUnits ==
  { Unit(sync, Quad(Seg(<<Restart({3})>>)), b) : sync \in {Objects, MoreObjects}, b \in {"no", "oamd"} }
    \cup
  { Unit(Objects, Quad([Seg(<<Restart({3})>>) EXCEPT !.zero_samples = n]), "no") : n \in {1, 5} }
    \cup
  { Unit(Nothing, QuadPlain(Seg(<<b>>)), "no") : b \in {Plain, Resize(3)} }

\* Access units without any defect.
SoundObjectUnits ==
  { au \in ObjectAccessUnits :
      au.broken = "no" /\ \A i \in DOMAIN au.segments : au.segments[i].zero_samples = Nothing }

EveryAccessUnit == AnyAccessUnits \cup ObjectAccessUnits
=============================================================================
