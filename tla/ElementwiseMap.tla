--------------------------- MODULE ElementwiseMap ---------------------------
(***************************************************************************)
(* What an array function promises: it replaces the first len elements of  *)
(* its output arrays by the function of the elements that its input arrays *)
(* held when it was CALLED, in any order and as often as it likes, and     *)
(* touches nothing else.  An output array may be one of the input arrays.  *)
(***************************************************************************)
EXTENDS Integers

CONSTANTS
    Buffers,   \* the arrays of the caller
    Index,     \* the indices of their cells, those behind the end included
    Mem0,      \* what they hold when the function is called
    F(_, _)    \* F(o, x): output o of the scalar function for the arguments x

VARIABLES
    in, out,   \* the pointer arguments
    buf,       \* the array each pointer argument points to
    len,       \* the length argument
    mem,       \* the contents of the arrays
    finished

vars == <<in, out, buf, len, mem, finished>>

Result(o, k) == F(o, [s \in in |-> Mem0[buf[s]][k]])

Init ==
    /\ mem = Mem0
    /\ finished = FALSE

\* Some elements lo..hi are written, for the first time or once more.
Fill(lo, hi) ==
    /\ ~finished
    /\ lo .. hi \subseteq 0 .. len - 1
    /\ mem' = [b \in Buffers |-> [k \in Index |->
                  IF k \in lo .. hi /\ \E o \in out : buf[o] = b
                  THEN Result(CHOOSE o \in out : buf[o] = b, k)
                  ELSE mem[b][k]]]
    /\ UNCHANGED <<in, out, buf, len, finished>>

Return ==
    /\ ~finished
    /\ \A o \in out, k \in 0 .. len - 1 : mem[buf[o]][k] = Result(o, k)
    /\ finished' = TRUE
    /\ UNCHANGED <<in, out, buf, len, mem>>

Next == Return \/ \E lo, hi \in Index : Fill(lo, hi)

Spec == Init /\ [][Next]_vars

=============================================================================
