---------------------------- MODULE MCRotationFile ----------------------------
(* Instances of RotationFile for TLC. *)
EXTENDS RotationFile, TLC

CONSTANTS a1, a2, b1, b2, c

\* With files of four units, two messages of one unit fit into a file, two of
\* two units do not, and one of four units is too big for any file.  The first
\* four messages have a line end that takes a byte more in the file than it
\* counts, so that a file of three units can take more than four bytes.
FiveMessages == {a1, a2, b1, b2, c}
FiveSizes == [m \in FiveMessages |->
                  CASE m \in {a1, a2} -> 1 [] m \in {b1, b2} -> 2 [] m = c -> 4]
FiveBytes == [m \in FiveMessages |->
                  CASE m \in {a1, a2} -> 2 [] m \in {b1, b2} -> 3 [] m = c -> 4]
BigEarlier == {c}
NoSizeFailure == {"open", "rename", "write"}

SizeSymmetry == Permutations({a1, a2}) \cup Permutations({b1, b2})
=============================================================================
