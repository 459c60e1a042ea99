---------------------------- MODULE StridedArray ----------------------------
(***************************************************************************)
(* The indexed arithmetic of the library (vrda_addi, vrsa_fmaxfi and ten   *)
(* more): one loop over i that combines lhs[i*inc_a] and rhs[i*inc_b] into *)
(* dst[i*inc_res].  The subscripts are products of two ints, strides may   *)
(* be negative or zero, and the caller may let the arrays coincide.        *)
(***************************************************************************)
EXTENDS Integers

CONSTANTS
    Buffers,   \* the arrays of the caller
    INT_MAX,   \* the largest int; stands for 2^31 - 1
    MaxLen,    \* bound of the length argument
    Strides,   \* strides passed
    Mem0,      \* contents of the arrays at the call
    F(_, _)    \* the element operation: + - * / max min

INT_MIN == -INT_MAX - 1

\* Cell 0 of an array is the one the pointer argument points to.
Index == INT_MIN .. INT_MAX

ASSUME StrideAssumption ==
    /\ INT_MAX \in Nat /\ MaxLen \in Nat
    /\ Strides \subseteq Index

\* The arrays extend as far as an int subscript reaches.
ASSUME MemoryAssumption == Mem0 = [b \in Buffers |-> [c \in Index |-> Mem0[b][c]]]

VARIABLES
    n, inc, buf,  \* the call: length, stride and array of lhs, rhs, dst
    mem,          \* contents of the arrays
    i,            \* the loop counter
    pc            \* loop, done

vars == <<n, inc, buf, mem, i, pc>>

Ptrs == {"lhs", "rhs", "dst"}

\* An int product.  Overflow is undefined in C: either the low bits are used
\* or, when the compiler widens the subscript, the exact product.
Wrap(k) == ((k - INT_MIN) % (2 * (INT_MAX + 1))) + INT_MIN
Subscripts(k, s) == {k * s, Wrap(k * s)}

-----------------------------------------------------------------------------
(* What the caller has to see to.  The products fit into an int.  Every    *)
(* element has a cell of its own.  An array that is read and written has   *)
(* strides by which the writes never overtake the reads.                   *)

Abs(k) == IF k < 0 THEN -k ELSE k

Fits(s) == (n - 1) * s \in Index

NeverOvertakes(r, s) == r * s < 0 \/ (s # 0 /\ Abs(r) <= Abs(s))

LegalCall ==
    n > 1 => /\ \A p \in Ptrs : Fits(inc[p])
             /\ inc["dst"] # 0
             /\ \A p \in {"lhs", "rhs"} :
                   buf[p] = buf["dst"] => NeverOvertakes(inc["dst"], inc[p])

Init ==
    /\ n \in 0 .. MaxLen
    /\ inc \in [Ptrs -> Strides]
    /\ buf \in [Ptrs -> Buffers]
    /\ LegalCall
    /\ mem = Mem0
    /\ i = 0
    /\ pc = "loop"

\* Slip: the strides of the operands are swapped.
ElementSwapped ==
    /\ pc = "loop" /\ i < n
    /\ \E a \in Subscripts(i, inc["rhs"]), b \in Subscripts(i, inc["lhs"]),
          r \in Subscripts(i, inc["dst"]) :
         mem' = [mem EXCEPT ![buf["dst"]][r] = F(mem[buf["lhs"]][a], mem[buf["rhs"]][b])]
    /\ i' = i + 1
    /\ UNCHANGED pc

\* Slip: the loop runs once too often.
ElementOverrun ==
    /\ pc = "loop" /\ i <= n
    /\ \E a \in Subscripts(i, inc["lhs"]), b \in Subscripts(i, inc["rhs"]),
          r \in Subscripts(i, inc["dst"]) \cap Index :
         mem' = [mem EXCEPT ![buf["dst"]][r] = mem[buf["dst"]][r]]
    /\ i' = i + 1
    /\ UNCHANGED pc

\* Slip: the loop does not advance.
ElementStuck ==
    /\ pc = "loop" /\ i < n
    /\ UNCHANGED <<mem, i, pc>>

\* One round of the loop.
Element ==
    /\ pc = "loop" /\ i < n
    /\ \E a \in Subscripts(i, inc["lhs"]), b \in Subscripts(i, inc["rhs"]),
          r \in Subscripts(i, inc["dst"]) :
         mem' = [mem EXCEPT ![buf["dst"]][r] = F(mem[buf["lhs"]][a], mem[buf["rhs"]][b])]
    /\ i' = i + 1
    /\ UNCHANGED pc

Return ==
    /\ pc = "loop" /\ i >= n
    /\ pc' = "done"
    /\ UNCHANGED <<mem, i>>

Next ==
    /\ Element \/ Return
    /\ UNCHANGED <<n, inc, buf>>

\* The loop is sequential code: its thread runs it to the end.
Spec == Init /\ [][Next]_vars /\ WF_vars(Next)

-----------------------------------------------------------------------------
(* Properties.                                                             *)

TypeOK ==
    /\ n \in 0 .. MaxLen /\ i \in 0 .. n
    /\ inc \in [Ptrs -> Strides] /\ buf \in [Ptrs -> Buffers]
    /\ DOMAIN mem = Buffers /\ \A b \in Buffers : DOMAIN mem[b] = Index
    /\ pc \in {"loop", "done"}

\* What element k of the result must be: the operation on the operands as they
\* were at the call.
Wanted(k) == F(Mem0[buf["lhs"]][k * inc["lhs"]], Mem0[buf["rhs"]][k * inc["rhs"]])

\* For every legal mix of strides and coinciding arrays, the elements computed
\* so far are those of the operands at the call and no other cell has changed.
PrefixFinal ==
    /\ \A k \in 0 .. i - 1 : mem[buf["dst"]][k * inc["dst"]] = Wanted(k)
    /\ \A b \in Buffers : \A c \in Index :
          (b = buf["dst"] /\ \E k \in 0 .. i - 1 : c = k * inc["dst"])
              \/ mem[b][c] = Mem0[b][c]

\* The loop ends, after all elements.
AllComputed == <>(pc = "done" /\ i = n)

=============================================================================
