---------------------------- MODULE MCExtraction ----------------------------
(* Small instances of Extraction: a directory with one file in it, and one *)
(* file next to it.                                                        *)
EXTENDS Extraction

MCPaths == {"a", "a/f", "b"}
MCAbove == [p \in MCPaths |-> IF p = "a/f" THEN {"a"} ELSE {}]

\* Two paths that do not nest, when only sizes matter.
FlatPaths == {"a", "b"}
FlatAbove == [p \in FlatPaths |-> {}]

Owner == {"ur", "uw"}
PlainModes == {Owner}
\* 0644, 0444, 0000, 04777: each meets another branch of clampMode.
AwkwardModes == {Owner, {"ur"}, {}, HeaderBits}

Flag(t, f, n) == [total |-> t, file |-> f, entries |-> n]
\* Total binds, file binds, both at the same byte, unset and negative flags.
SizeFlags == {Flag(3, 2, 3), Flag(2, 3, 2), Flag(2, 2, 3), Flag(0, 1, 2), Flag(-1, 0, 0),
              Flag(MaxInt, 2, 2)}
LooseFlags == {Flag(7, 7, 2)}
TinyFlags == {Flag(3, 2, 2), Flag(3, 2, 3)}
MaxIntFlags == {Flag(MaxInt, MaxInt, 2)}
=============================================================================
