--------------------------- MODULE MCStridedArray ---------------------------
(***************************************************************************)
(* Four-bit ints: the longest legal calls reach both ends of the int       *)
(* range.                                                                  *)
(***************************************************************************)
EXTENDS StridedArray

MCStrides == -4 .. 4

\* Values are symbols: an operand is its array and index.
SymbolicMem == [b \in Buffers |-> [c \in Index |-> <<b, c>>]]
SymbolicF(x, y) == <<"F", x, y>>

=============================================================================
