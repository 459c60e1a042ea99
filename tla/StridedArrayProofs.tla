------------------------- MODULE StridedArrayProofs -------------------------
(***************************************************************************)
(* Proofs about StridedArray for ints of every width, every length, every  *)
(* legal mix of strides and every way to let the arrays coincide.          *)
(***************************************************************************)
EXTENDS StridedArray, TLAPS

\* The loop changes neither the call nor a cell it has not come to, and a legal
\* call stays one.
IInv == TypeOK /\ LegalCall /\ PrefixFinal

-----------------------------------------------------------------------------
(* Subscripts.                                                             *)

\* An int that is in range is not changed by the wrap.
LEMMA WrapFits ==
    ASSUME NEW k \in Index PROVE Wrap(k) = k
BY StrideAssumption DEF Wrap, Index, INT_MIN

\* If the last product fits into an int, the earlier ones do.
LEMMA EarlierFits ==
    ASSUME NEW k \in Nat, NEW m \in Nat, k <= m, NEW s \in Int, m * s \in Index
    PROVE  k * s \in Index
<1>1. k * s \in Int /\ m * s \in Int
  OBVIOUS
<1>2. CASE s >= 0
  <2>1. 0 <= k * s /\ k * s <= m * s
    BY <1>2
  <2> QED
    BY <1>1, <2>1, StrideAssumption DEF Index, INT_MIN
<1>3. CASE s < 0
  <2>1. m * s <= k * s /\ k * s <= 0
    BY <1>3
  <2> QED
    BY <1>1, <2>1, StrideAssumption DEF Index, INT_MIN
<1> QED
  BY <1>2, <1>3

\* Writes with stride r never reach a cell that stride s comes to later.
LEMMA WritesStayBehind ==
    ASSUME NEW k \in Nat, NEW m \in Nat, k < m, NEW r \in Int, NEW s \in Int,
           NeverOvertakes(r, s)
    PROVE  k * r # m * s
<1>1. CASE r * s < 0
  BY <1>1
<1>2. CASE s # 0 /\ Abs(r) <= Abs(s)
  BY <1>2 DEF Abs
<1> QED
  BY <1>1, <1>2 DEF NeverOvertakes

\* Different elements of the result are different cells.
LEMMA CellsDiffer ==
    ASSUME NEW k \in Nat, NEW m \in Nat, k < m, NEW r \in Int, r # 0
    PROVE  k * r # m * r
OBVIOUS

\* What is known of the numbers of a call.
LEMMA CallType ==
    ASSUME TypeOK
    PROVE  /\ n \in Nat /\ i \in Nat /\ i <= n
           /\ \A p \in Ptrs : inc[p] \in Int /\ buf[p] \in Buffers
<1>1. Strides \subseteq Int
  BY StrideAssumption DEF Index, INT_MIN
<1>2. n \in Nat /\ i \in Nat /\ i <= n
  BY StrideAssumption DEF TypeOK
<1>3. inc \in [Ptrs -> Strides] /\ buf \in [Ptrs -> Buffers]
  BY DEF TypeOK
<1> QED
  BY <1>1, <1>2, <1>3

\* In a legal call every subscript is the exact product, and in the array.
LEMMA SubscriptIsProduct ==
    ASSUME TypeOK, LegalCall, NEW k \in 0 .. n - 1, NEW p \in Ptrs
    PROVE  k * inc[p] \in Index /\ Subscripts(k, inc[p]) = {k * inc[p]}
<1>1. k \in Nat /\ n \in Nat /\ k <= n - 1 /\ inc[p] \in Int
  BY CallType
<1>2. k * inc[p] \in Index
  <2>1. CASE n > 1
    <3>1. (n - 1) * inc[p] \in Index /\ n - 1 \in Nat
      BY <1>1, <2>1 DEF LegalCall, Fits
    <3> QED
      BY <1>1, <3>1, EarlierFits
  <2>2. CASE n <= 1
    <3>1. k = 0 /\ k * inc[p] = 0
      BY <1>1, <2>2
    <3> QED
      BY <3>1, StrideAssumption DEF Index, INT_MIN
  <2> QED
    BY <1>1, <2>1, <2>2
<1> QED
  BY <1>2, WrapFits DEF Subscripts

-----------------------------------------------------------------------------
(* The inductive invariant.                                                *)

\* A legal call begins with every cell as it was.
LEMMA InitIInv == Init => IInv
BY StrideAssumption, MemoryAssumption DEF Init, IInv, TypeOK, PrefixFinal, LegalCall

\* An operand that the loop comes to still holds what it held at the call.
LEMMA OperandUntouched ==
    ASSUME IInv, i < n, NEW p \in {"lhs", "rhs"}
    PROVE  mem[buf[p]][i * inc[p]] = Mem0[buf[p]][i * inc[p]]
<1>1. i * inc[p] \in Index /\ buf[p] \in Buffers
  BY SubscriptIsProduct, CallType DEF IInv, Ptrs
<1>2. ASSUME buf[p] = buf["dst"], NEW k \in 0 .. i - 1
      PROVE  i * inc[p] # k * inc["dst"]
  <2>1. /\ n > 1 /\ k \in Nat /\ i \in Nat /\ k < i
        /\ inc["dst"] \in Int /\ inc[p] \in Int
    BY <1>2, CallType DEF IInv, Ptrs
  <2>2. NeverOvertakes(inc["dst"], inc[p])
    BY <1>2, <2>1 DEF IInv, LegalCall
  <2> QED
    BY <2>1, <2>2, WritesStayBehind
<1> QED
  BY <1>1, <1>2 DEF IInv, PrefixFinal

\* One round of the loop.
LEMMA ElementIInv ==
    ASSUME IInv, Element, UNCHANGED <<n, inc, buf>>
    PROVE  IInv'
<1> DEFINE r == i * inc["dst"]
           d == buf["dst"]
<1>1. i < n /\ i' = i + 1 /\ pc' = pc
  BY DEF Element
<1>2. i \in 0 .. n - 1 /\ d \in Buffers /\ r \in Index
  BY <1>1, CallType, SubscriptIsProduct DEF IInv, Ptrs
<1>3. /\ Subscripts(i, inc["lhs"]) = {i * inc["lhs"]}
      /\ Subscripts(i, inc["rhs"]) = {i * inc["rhs"]}
      /\ Subscripts(i, inc["dst"]) = {r}
  BY <1>2, SubscriptIsProduct DEF IInv, Ptrs
<1>4. mem' = [mem EXCEPT ![d][r] = Wanted(i)]
  BY <1>1, <1>3, OperandUntouched DEF Element, Wanted
<1>5. DOMAIN mem = Buffers /\ DOMAIN mem[d] = Index
  BY <1>2 DEF IInv, TypeOK
<1>6. /\ mem'[d][r] = Wanted(i)
      /\ \A b \in Buffers, c \in Index : b # d \/ c # r => mem'[b][c] = mem[b][c]
      /\ DOMAIN mem' = Buffers
      /\ \A b \in Buffers : DOMAIN mem'[b] = DOMAIN mem[b]
  BY <1>2, <1>4, <1>5
<1>7. TypeOK'
  BY <1>1, <1>2, <1>6 DEF IInv, TypeOK
<1>8. LegalCall'
  BY DEF IInv, LegalCall, Fits
<1>9. ASSUME NEW k \in 0 .. i' - 1
      PROVE  mem'[d][k * inc["dst"]] = Wanted(k)
  <2>1. CASE k = i
    BY <1>6, <2>1
  <2>2. CASE k < i
    <3>1. n > 1 /\ k \in Nat /\ k \in 0 .. i - 1 /\ k \in 0 .. n - 1
      BY <1>1, <1>2, <1>9, <2>2, CallType DEF IInv
    <3>2. k * inc["dst"] # r
      BY <2>2, <3>1, CellsDiffer, CallType DEF IInv, LegalCall, Ptrs
    <3>3. k * inc["dst"] \in Index
      BY <3>1, SubscriptIsProduct DEF IInv, Ptrs
    <3> QED
      BY <1>2, <1>6, <3>1, <3>2, <3>3 DEF IInv, PrefixFinal
  <2> QED
    BY <1>1, <1>2, <2>1, <2>2
<1>10. ASSUME NEW b \in Buffers, NEW c \in Index,
              ~(b = d /\ \E k \in 0 .. i' - 1 : c = k * inc["dst"])
       PROVE  mem'[b][c] = Mem0[b][c]
  <2>1. b # d \/ c # r
    BY <1>1, <1>2, <1>10
  <2>2. ~(b = d /\ \E k \in 0 .. i - 1 : c = k * inc["dst"])
    BY <1>1, <1>2, <1>10
  <2> QED
    BY <1>6, <2>1, <2>2 DEF IInv, PrefixFinal
<1>11. PrefixFinal'
  BY <1>9, <1>10 DEF PrefixFinal, Wanted
<1> QED
  BY <1>7, <1>8, <1>11 DEF IInv

\* Every step of the program.
LEMMA NextIInv == IInv /\ [Next]_vars => IInv'
<1> SUFFICES ASSUME IInv, [Next]_vars PROVE IInv'
  OBVIOUS
<1>1. CASE Element /\ UNCHANGED <<n, inc, buf>>
  BY <1>1, ElementIInv
<1>2. CASE Return /\ UNCHANGED <<n, inc, buf>>
  BY <1>2 DEF Return, IInv, TypeOK, LegalCall, Fits, PrefixFinal, Wanted
<1>3. CASE UNCHANGED vars
  BY <1>3 DEF vars, IInv, TypeOK, LegalCall, Fits, PrefixFinal, Wanted
<1> QED
  BY <1>1, <1>2, <1>3 DEF Next

\* The invariant holds all through a call.
LEMMA Invariance == Spec => []IInv
BY InitIInv, NextIInv, PTL DEF Spec

\* The loop never indexes outside an array whose cells an int reaches, whatever
\* the processor does with products that do not fit.
THEOREM TypeCorrect == Spec => []TypeOK
<1>1. IInv => TypeOK
  BY DEF IInv
<1> QED
  BY <1>1, Invariance, PTL

\* For every legal mix of strides, also negative ones and those of arrays that
\* coincide, the results are those of the operands at the call and no other cell
\* changes.
THEOREM ElementsFinal == Spec => []PrefixFinal
<1>1. IInv => PrefixFinal
  BY DEF IInv
<1> QED
  BY <1>1, Invariance, PTL
=============================================================================
