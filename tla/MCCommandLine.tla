--------------------------- MODULE MCCommandLine ---------------------------
(* Small instances of CommandLine: inputs of four units of length, with every *)
(* claim of a length at every offset, and one command line of each kind.      *)
EXTENDS CommandLine

Line(mode, requested, check, limit) ==
  [mode |-> mode, requested |-> requested, check |-> check, limit |-> limit]

SmallRuns == {
  Line("eac3", {"core", "joc", "frame"}, "none", None),
  Line("eac3", {"wav", "csv", "objects", "aux"}, "none", None),
  Line("eac3", {"core"}, "none", 1),
  Line("eac3", {}, "none", 0),
  Line("truehd", {"objects", "wav", "csv"}, "none", None),
  Line("truehd", {"wav"}, "none", 1),
  Line("truehd", {}, "core", None),
  Line("dir", {"core", "objects", "joc", "wav", "csv"}, "render", None),
  Line("dir", {"frame"}, "none", None)}

SmallSamples == [mode \in {"eac3", "truehd", "dir"} |-> IF mode = "truehd" THEN {1, 3} ELSE {2, 4}]

SmallFormats == {[rate |-> 48, shape |-> 1], [rate |-> 48, shape |-> 2], [rate |-> 96, shape |-> 1]}
=============================================================================
