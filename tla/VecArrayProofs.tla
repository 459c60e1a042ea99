--------------------------- MODULE VecArrayProofs ---------------------------
(***************************************************************************)
(* Proofs about VecArray for every width, length, array contents and every *)
(* way to let arrays coincide.  The inductive invariant relates the arrays *)
(* to their contents at the call: the elements in front of j are final,    *)
(* all others are untouched, and the saved registers hold the inputs as    *)
(* they were at the call.                                                  *)
(***************************************************************************)
EXTENDS VecArray, TLAPS

\* The call leaves no driver with an unguarded mask table without an element.
NoEmptyTable ==
    \A c \in Calls : c[1].tail = "saved" /\ c[1].mask = "table" => c[2] > 0

\* How many elements are final.
Final == IF pc \in {"return", "done"} THEN len ELSE j

IsOut(b) == \E o \in drv.out : buf[o] = b
OutOf(b) == CHOOSE o \in drv.out : buf[o] = b

\* What cell k of array b holds while n elements are final.
CellAfter(b, k, n) ==
    IF k \in 0 .. n - 1 /\ IsOut(b)
    THEN F(OutOf(b), [s \in drv.in |-> Mem0[buf[s]][k]])
    ELSE Mem0[b][k]

OutputsDiffer == \A o, p \in drv.out : buf[o] = buf[p] => o = p

MemOK == mem = [b \in Buffers |-> [k \in Index |-> CellAfter(b, k, Final)]]

SavedOK ==
    drv.tail = "saved" /\ pc = "chunks" =>
        saved = [s \in drv.in |-> [l \in Lanes(drv.w) |-> Mem0[buf[s]][len - drv.w + l]]]

\* Where the control is, given the driver and the length.
ControlOK ==
    /\ pc = "entry" => j = 0
    /\ pc = "small" => drv.tail = "saved" /\ len < drv.w /\ (drv.mask # "scalar" => j = 0)
    /\ pc = "chunks" /\ drv.tail = "saved" => len >= drv.w

TypesOK ==
    /\ <<drv, len>> \in Calls
    /\ buf \in [drv.in \cup drv.out -> Buffers]
    /\ j \in 0 .. len
    /\ pc \in {"entry", "chunks", "small", "return", "done"}

IInv == TypesOK /\ OutputsDiffer /\ ControlOK /\ SavedOK /\ MemOK /\ InBounds

-----------------------------------------------------------------------------
\* What the types say of the driver that runs.
LEMMA DriverType ==
    ASSUME TypesOK
    PROVE  /\ drv \in Driver /\ len \in 0 .. MaxLen
           /\ drv.w \in Nat \ {0} /\ drv.w <= MaxWidth
           /\ drv.tail \in {"saved", "masked"} /\ drv.mask \in {"table", "exact", "scalar"}
           /\ drv.tail = "masked" => drv.mask # "scalar"
           /\ drv.mask = "table" => drv.w > 2
           /\ len \in Nat /\ j \in Nat /\ j <= len
           /\ MaxLen \in Nat /\ MaxWidth \in Nat
<1>1. <<drv, len>> \in Driver \X (0 .. MaxLen) BY ArrayAssumption DEF TypesOK
<1>2. drv \in Driver /\ len \in 0 .. MaxLen BY <1>1
<1>3. /\ drv.tail = "masked" => drv.mask # "scalar"
      /\ drv.mask = "table" => drv.w > 2
      BY ArrayAssumption DEF TypesOK
<1> QED BY <1>2, <1>3, ArrayAssumption DEF Driver, TypesOK

\* Registers that hold n inputs as they were at the call, stored from index at
\* on, make the elements up to at + n final if those in front of at were and
\* those already final stay so.
LEMMA StoreMakesFinal ==
    ASSUME IInv, NEW at \in Nat, NEW n \in Nat, NEW reg, NEW m \in Nat,
           at <= m, m <= at + n, at + n <= len,
           mem = [b \in Buffers |-> [k \in Index |-> CellAfter(b, k, m)]],
           \A s \in drv.in, k \in at .. at + n - 1 : reg[s][k - at] = Mem0[buf[s]][k]
    PROVE  Stored(at, n, reg) = [b \in Buffers |-> [k \in Index |-> CellAfter(b, k, at + n)]]
<1> SUFFICES ASSUME NEW b \in Buffers, NEW k \in Index
             PROVE  Stored(at, n, reg)[b][k] = CellAfter(b, k, at + n)
    BY Zenon DEF Stored
<1>0. k \in Nat BY DEF Index
<1>1. CASE k \in at .. at + n - 1 /\ IsOut(b)
  <2>1. Stored(at, n, reg)[b][k] = F(OutOf(b), [s \in drv.in |-> reg[s][k - at]])
        BY <1>1 DEF Stored, IsOut, OutOf
  <2>2. [s \in drv.in |-> reg[s][k - at]] = [s \in drv.in |-> Mem0[buf[s]][k]]
        BY <1>1
  <2>3. k \in 0 .. at + n - 1 BY <1>0, <1>1
  <2> QED BY <1>1, <2>1, <2>2, <2>3 DEF CellAfter
<1>2. CASE ~(k \in at .. at + n - 1 /\ IsOut(b))
  <2>1. Stored(at, n, reg)[b][k] = mem[b][k]
        BY <1>2 DEF Stored, IsOut
  <2>2. mem[b][k] = CellAfter(b, k, m) OBVIOUS
  <2>3. IsOut(b) => (k \in 0 .. m - 1 <=> k \in 0 .. at + n - 1)
        BY <1>0, <1>2
  <2> QED BY <2>1, <2>2, <2>3 DEF CellAfter
<1> QED BY <1>1, <1>2

\* Elements that are not final yet still hold their inputs.
LEMMA LoadsInputs ==
    ASSUME IInv, NEW at \in Nat, NEW n \in Nat, Final <= at, at + n <= len
    PROVE  \A s \in drv.in, l \in Lanes(n) : Loaded(at, n)[s][l] = Mem0[buf[s]][at + l]
<1> SUFFICES ASSUME NEW s \in drv.in, NEW l \in Lanes(n)
             PROVE  mem[buf[s]][at + l] = Mem0[buf[s]][at + l]
    BY DEF Loaded
<1>1. buf[s] \in Buffers BY DEF IInv, TypesOK
<1>2. at + l \in Index /\ at + l \notin 0 .. Final - 1
      BY DriverType DEF IInv, Index, Lanes, Final
<1>3. mem[buf[s]][at + l] = CellAfter(buf[s], at + l, Final) BY <1>1, <1>2 DEF IInv, MemOK
<1> QED BY <1>2, <1>3 DEF CellAfter

-----------------------------------------------------------------------------
(* The inductive invariant.                                                *)

\* At the call nothing is final, nothing saved and nothing touched.
LEMMA InitIInv == Init => IInv
<1> SUFFICES ASSUME Init PROVE IInv OBVIOUS
<1>1. TypesOK /\ Final = 0 BY ArrayAssumption DEF Init, TypesOK, Final, Driver
<1>2. mem = [b \in Buffers |-> [k \in Index |-> Mem0[b][k]]]
      BY MemoryAssumption DEF Init
<1>3. MemOK BY <1>1, <1>2 DEF MemOK, CellAfter
<1> QED BY <1>1, <1>3 DEF Init, IInv, OutputsDiffer, ControlOK, SavedOK, InBounds

\* What a step of the driver leaves alone.
LEMMA CallFixed ==
    ASSUME UNCHANGED <<drv, len, buf>>
    PROVE  /\ OutputsDiffer' = OutputsDiffer
           /\ \A b, k, n : CellAfter(b, k, n)' = CellAfter(b, k, n)
BY DEF OutputsDiffer, CellAfter, IsOut, OutOf

\* A step that stores n registers from index at on, and so makes the elements
\* up to at + n final, preserves the memory part of the invariant.
LEMMA ProcessIInv ==
    ASSUME IInv, UNCHANGED <<drv, len, buf>>,
           NEW at \in Nat, NEW n \in Nat, NEW reg, Process(at, n, reg),
           at <= Final, Final <= at + n, at + n <= len, Final' = at + n,
           \A s \in drv.in, k \in at .. at + n - 1 : reg[s][k - at] = Mem0[buf[s]][k]
    PROVE  MemOK' /\ InBounds'
<1>1. Final \in Nat BY DriverType DEF IInv, Final
<1>2. Stored(at, n, reg) = [b \in Buffers |-> [k \in Index |-> CellAfter(b, k, at + n)]]
      BY <1>1, StoreMakesFinal DEF IInv, MemOK
<1>3. MemOK' BY <1>2, CallFixed DEF Process, MemOK
<1>4. InBounds' BY DriverType DEF IInv, InBounds, Process, Access
<1> QED BY <1>3, <1>4

\* A step that stores nothing and makes no element final.
LEMMA QuietIInv ==
    ASSUME IInv, UNCHANGED <<drv, len, buf, mem>>, Final' = Final
    PROVE  MemOK'
BY CallFixed DEF IInv, MemOK

\* A mask for 1 to w - 1 elements has a lane for each of them.
LEMMA MaskIsExact ==
    ASSUME IInv, NEW rem \in Nat, rem > 0, rem < drv.w
    PROVE  MaskLanes(rem) = rem
BY DriverType DEF IInv, MaskLanes

\* No load and no store of a driver breaks the invariant.
LEMMA StepIInv ==
    ASSUME NoEmptyTable, IInv, Next
    PROVE  IInv'
<1>0. UNCHANGED <<drv, len, buf>> BY DEF Next
<1>d. /\ drv.w \in Nat \ {0} /\ len \in Nat /\ j \in Nat /\ j <= len
      /\ drv.tail \in {"saved", "masked"} /\ drv.mask \in {"table", "exact", "scalar"}
      /\ drv.tail = "masked" => drv.mask # "scalar"
      BY DriverType DEF IInv
<1>o. OutputsDiffer' BY <1>0, CallFixed DEF IInv
\* Registers that were loaded in this step hold inputs as they were at the call.
<1>l. ASSUME NEW at \in Nat, NEW n \in Nat, Final <= at, at + n <= len
      PROVE  \A s \in drv.in, k \in at .. at + n - 1 :
                 Loaded(at, n)[s][k - at] = Mem0[buf[s]][k]
  <2> SUFFICES ASSUME NEW s \in drv.in, NEW k \in at .. at + n - 1
               PROVE  Loaded(at, n)[s][k - at] = Mem0[buf[s]][k]
      OBVIOUS
  <2>1. k - at \in Lanes(n) /\ at + (k - at) = k BY DEF Lanes
  <2> QED BY <1>l, <2>1, LoadsInputs
<1>1. CASE SaveLast
  <2>1. TypesOK' /\ ControlOK' /\ Final' = Final
        BY <1>0, <1>1, <1>d DEF SaveLast, IInv, TypesOK, ControlOK, Final
  <2>2. SavedOK'
    <3>1. len - drv.w \in Nat /\ Final <= len - drv.w /\ (len - drv.w) + drv.w <= len
          BY <1>1, <1>d DEF SaveLast, Final, IInv, ControlOK
    <3>2. \A s \in drv.in, l \in Lanes(drv.w) :
             Loaded(len - drv.w, drv.w)[s][l] = Mem0[buf[s]][len - drv.w + l]
          BY <1>d, <3>1, LoadsInputs
    <3>3. saved' = [s \in drv.in |-> [l \in Lanes(drv.w) |-> Mem0[buf[s]][len - drv.w + l]]]
          BY <1>1, <3>2 DEF SaveLast, Loaded
    <3> QED BY <1>0, <3>3 DEF SavedOK, Lanes
  <2>3. InBounds'
    <3>1. touched' = touched \cup (len - drv.w) .. (len - drv.w) + drv.w - 1
          BY <1>1 DEF SaveLast, Access
    <3>2. (len - drv.w) .. (len - drv.w) + drv.w - 1 \subseteq 0 .. len - 1
          BY <1>1, <1>d DEF SaveLast
    <3> QED BY <1>0, <3>1, <3>2 DEF IInv, InBounds
  <2>4. MemOK' BY <1>0, <1>1, <2>1, QuietIInv DEF SaveLast
  <2> QED BY <1>o, <2>1, <2>2, <2>3, <2>4 DEF IInv
<1>2. CASE EnterSmall \/ EnterMasked
  <2>1. TypesOK' /\ ControlOK' /\ Final' = Final /\ SavedOK' /\ InBounds'
        BY <1>0, <1>2, <1>d
        DEF EnterSmall, EnterMasked, IInv, TypesOK, ControlOK, Final, SavedOK, InBounds
  <2>2. MemOK' BY <1>0, <1>2, <2>1, QuietIInv DEF EnterSmall, EnterMasked
  <2> QED BY <1>o, <2>1, <2>2 DEF IInv
<1>3. CASE Chunk
  <2>1. Final = j /\ Final' = j + drv.w /\ j + drv.w <= len
        BY <1>3, <1>d DEF Chunk, Final
  <2>2. TypesOK' /\ ControlOK' /\ SavedOK'
        BY <1>0, <1>3, <1>d, <2>1 DEF Chunk, IInv, TypesOK, ControlOK, SavedOK, Lanes
  <2>3. MemOK' /\ InBounds'
    <3>1. Process(j, drv.w, Loaded(j, drv.w)) BY <1>3 DEF Chunk
    <3>2. \A s \in drv.in, k \in j .. j + drv.w - 1 :
             Loaded(j, drv.w)[s][k - j] = Mem0[buf[s]][k]
          BY <1>d, <1>l, <2>1
    <3> QED BY <1>0, <1>d, <2>1, <3>1, <3>2, ProcessIInv
  <2> QED BY <1>o, <2>2, <2>3 DEF IInv
<1>4. CASE TailSaved
  <2>1. Final = j /\ Final' = len /\ len >= drv.w /\ len - drv.w < j
        BY <1>0, <1>4, <1>d DEF TailSaved, Final, IInv, ControlOK
  <2>2. TypesOK' /\ ControlOK' /\ SavedOK'
        BY <1>0, <1>4, <1>d DEF TailSaved, IInv, TypesOK, ControlOK, SavedOK
  <2>3. CASE len - j = 0
    <3>1. MemOK' BY <1>0, <1>4, <1>d, <2>1, <2>3, QuietIInv DEF TailSaved
    <3>2. InBounds' BY <1>0, <1>4, <2>3 DEF TailSaved, IInv, InBounds
    <3> QED BY <1>o, <2>2, <3>1, <3>2 DEF IInv
  <2>4. CASE len - j # 0
    <3> DEFINE at == len - drv.w
    <3>1. Process(at, drv.w, saved) BY <1>4, <2>4 DEF TailSaved
    <3>2. \A s \in drv.in, k \in at .. at + drv.w - 1 : saved[s][k - at] = Mem0[buf[s]][k]
      <4> SUFFICES ASSUME NEW s \in drv.in, NEW k \in at .. at + drv.w - 1
                   PROVE  saved[s][k - at] = Mem0[buf[s]][k]
          OBVIOUS
      <4>1. k - at \in Lanes(drv.w) /\ at + (k - at) = k BY <1>d, <2>1 DEF Lanes
      <4>2. saved[s][k - at] = Mem0[buf[s]][at + (k - at)]
            BY <1>4, <4>1 DEF TailSaved, IInv, SavedOK
      <4> QED BY <4>1, <4>2
    <3>3. /\ at \in Nat /\ at <= Final /\ Final <= at + drv.w
          /\ at + drv.w <= len /\ Final' = at + drv.w
          BY <1>d, <2>1
    <3> HIDE DEF at
    <3>4. MemOK' /\ InBounds' BY <1>0, <1>d, <3>1, <3>2, <3>3, ProcessIInv
    <3> QED BY <1>o, <2>2, <3>4 DEF IInv
  <2> QED BY <2>3, <2>4
<1>5. CASE TailMasked
  <2>1. Final = j /\ Final' = len /\ len - drv.w < j
        BY <1>0, <1>5, <1>d DEF TailMasked, Final, IInv
  <2>2. TypesOK' /\ ControlOK' /\ SavedOK'
        BY <1>0, <1>5, <1>d DEF TailMasked, IInv, TypesOK, ControlOK, SavedOK
  <2>3. CASE len - j = 0
    <3>1. MemOK' BY <1>0, <1>5, <1>d, <2>1, <2>3, QuietIInv DEF TailMasked
    <3>2. InBounds' BY <1>0, <1>5, <2>3 DEF TailMasked, IInv, InBounds
    <3> QED BY <1>o, <2>2, <3>1, <3>2 DEF IInv
  <2>4. CASE len - j # 0
    <3>1. MaskLanes(len - j) = len - j BY <1>d, <2>1, <2>4, MaskIsExact
    <3>2. Process(j, len - j, Loaded(j, len - j)) BY <1>5, <2>4, <3>1 DEF TailMasked
    <3>3. len - j \in Nat /\ j + (len - j) = len BY <1>d
    <3>4. \A s \in drv.in, k \in j .. j + (len - j) - 1 :
             Loaded(j, len - j)[s][k - j] = Mem0[buf[s]][k]
          BY <1>d, <1>l, <2>1, <3>3
    <3>5. MemOK' /\ InBounds' BY <1>0, <1>d, <2>1, <3>2, <3>3, <3>4, ProcessIInv
    <3> QED BY <1>o, <2>2, <3>5 DEF IInv
  <2> QED BY <2>3, <2>4
<1>6. CASE SmallMasked
  <2>1. Final = 0 /\ Final' = len /\ len < drv.w
        BY <1>0, <1>6, <1>d DEF SmallMasked, Final, IInv, ControlOK
  <2>2. TypesOK' /\ ControlOK' /\ SavedOK'
        BY <1>0, <1>6, <1>d DEF SmallMasked, IInv, TypesOK, ControlOK, SavedOK
  <2>3. MaskLanes(len) = len
    <3>1. CASE drv.mask = "table"
      <4>1. len > 0 BY <1>6, <3>1 DEF SmallMasked, IInv, ControlOK, TypesOK, NoEmptyTable
      <4> QED BY <1>d, <2>1, <4>1, MaskIsExact
    <3>2. CASE drv.mask # "table" BY <3>2 DEF MaskLanes
    <3> QED BY <3>1, <3>2
  <2>4. Process(0, len, Loaded(0, len)) BY <1>6, <2>3 DEF SmallMasked
  <2>5. \A s \in drv.in, k \in 0 .. 0 + len - 1 : Loaded(0, len)[s][k - 0] = Mem0[buf[s]][k]
        BY <1>d, <1>l, <2>1
  <2>6. MemOK' /\ InBounds' BY <1>0, <1>d, <2>1, <2>4, <2>5, ProcessIInv
  <2> QED BY <1>o, <2>2, <2>6 DEF IInv
<1>7. CASE SmallScalar
  <2> DEFINE n == 1
  <2>1. n \in Nat /\ Final = j /\ j <= j + n /\ Final' = j + n /\ j + n <= len
        BY <1>7, <1>d DEF SmallScalar, Final
  <2>2. TypesOK' /\ ControlOK' /\ SavedOK'
        BY <1>0, <1>7, <1>d DEF SmallScalar, IInv, TypesOK, ControlOK, SavedOK
  <2>3. Process(j, n, Loaded(j, n)) BY <1>7 DEF SmallScalar
  <2> HIDE DEF n
  <2>4. \A s \in drv.in, k \in j .. j + n - 1 : Loaded(j, n)[s][k - j] = Mem0[buf[s]][k]
        BY <1>d, <1>l, <2>1
  <2>5. MemOK' /\ InBounds' BY <1>0, <1>d, <2>1, <2>3, <2>4, ProcessIInv
  <2> QED BY <1>o, <2>2, <2>5 DEF IInv
<1>8. CASE SmallEnd \/ Return
  <2>1. TypesOK' /\ ControlOK' /\ SavedOK' /\ InBounds'
        BY <1>0, <1>8
        DEF SmallEnd, Return, IInv, TypesOK, ControlOK, SavedOK, InBounds
  <2>f. Final' = Final
    <3>1. CASE SmallEnd BY <1>0, <1>d, <3>1 DEF SmallEnd, Final
    <3>2. CASE Return BY <1>0, <3>2 DEF Return, Final
    <3> QED BY <1>8, <3>1, <3>2
  <2>2. MemOK' BY <1>0, <1>8, <2>f, QuietIInv DEF SmallEnd, Return
  <2> QED BY <1>o, <2>1, <2>2 DEF IInv
<1> QED BY <1>1, <1>2, <1>3, <1>4, <1>5, <1>6, <1>7, <1>8 DEF Next

\* At any time the elements in front of j are final and all others untouched.
THEOREM InductiveInvariant == NoEmptyTable => (Spec => []IInv)
<1> SUFFICES ASSUME NoEmptyTable PROVE Spec => []IInv OBVIOUS
<1>1. IInv /\ [Next]_vars => IInv'
  <2> SUFFICES ASSUME IInv, [Next]_vars PROVE IInv' OBVIOUS
  <2>1. CASE Next BY <2>1, StepIInv
  <2>2. CASE UNCHANGED vars
        BY <2>2 DEF vars, IInv, TypesOK, OutputsDiffer, ControlOK, SavedOK, MemOK,
                    InBounds, CellAfter, Final, IsOut, OutOf
  <2> QED BY <2>1, <2>2
<1> QED BY InitIInv, <1>1, PTL DEF Spec

-----------------------------------------------------------------------------
(* The properties of VecArray.                                             *)

\* Type correctness.
THEOREM TypeCorrect == NoEmptyTable => (Spec => []TypeOK)
<1> SUFFICES ASSUME NoEmptyTable PROVE Spec => []TypeOK OBVIOUS
<1>1. IInv => TypeOK
  <2> SUFFICES ASSUME IInv PROVE TypeOK OBVIOUS
  <2>1. DOMAIN mem = Buffers /\ \A b \in Buffers : DOMAIN mem[b] = Index
        BY DEF IInv, MemOK
  <2>2. touched \subseteq Index BY DriverType DEF IInv, InBounds, Index
  <2> QED BY <2>1, <2>2 DEF IInv, TypesOK, TypeOK
<1> QED BY <1>1, InductiveInvariant, PTL

\* Every load and store of every driver stays within the array.
THEOREM AccessesInBounds == NoEmptyTable => (Spec => []InBounds)
<1> SUFFICES ASSUME NoEmptyTable PROVE Spec => []InBounds OBVIOUS
<1>1. IInv => InBounds BY DEF IInv
<1> QED BY <1>1, InductiveInvariant, PTL

-----------------------------------------------------------------------------
(* A driver implements ElementwiseMap.  Each of its steps makes the        *)
(* elements from Final to Final' - 1 final; that the last chunk of a       *)
(* "saved" driver stores some elements again does not show.                *)

\* No step makes a final element provisional again.
LEMMA FinalGrows ==
    ASSUME IInv, Next
    PROVE  Final \in Nat /\ Final' \in Nat /\ Final <= Final'
<1>d. /\ drv.w \in Nat \ {0} /\ len \in Nat /\ j \in Nat /\ j <= len
      BY DriverType DEF IInv
<1>1. CASE SaveLast \/ EnterSmall \/ EnterMasked
      BY <1>1, <1>d DEF SaveLast, EnterSmall, EnterMasked, Final
<1>2. CASE Chunk BY <1>2, <1>d DEF Chunk, Final
<1>3. CASE TailSaved \/ TailMasked BY <1>3, <1>d DEF Next, TailSaved, TailMasked, Final
<1>4. CASE SmallMasked BY <1>4, <1>d DEF Next, SmallMasked, Final
<1>5. CASE SmallScalar BY <1>5, <1>d DEF SmallScalar, Final
<1>6. CASE SmallEnd BY <1>6, <1>d DEF Next, SmallEnd, Final
<1>7. CASE Return BY <1>7, <1>d DEF Next, Return, Final
<1> QED BY <1>1, <1>2, <1>3, <1>4, <1>5, <1>6, <1>7 DEF Next

\* The same elements, in the vocabulary of ElementwiseMap.
LEMMA CellIsResult ==
    ASSUME NEW b \in Buffers, NEW k \in Index, NEW n \in Nat
    PROVE  CellAfter(b, k, n) =
             IF k \in 0 .. n - 1 /\ \E o \in drv.out : buf[o] = b
             THEN EM!Result(CHOOSE o \in drv.out : buf[o] = b, k)
             ELSE Mem0[b][k]
BY Zenon DEF CellAfter, IsOut, OutOf, EM!Result

\* A step that makes elements final fills exactly them with their results.
LEMMA StepFills ==
    ASSUME IInv, IInv', Next, Final < Final'
    PROVE  mem' = [b \in Buffers |-> [k \in Index |->
                      IF k \in Final .. Final' - 1 /\ \E o \in drv.out : buf[o] = b
                      THEN EM!Result(CHOOSE o \in drv.out : buf[o] = b, k)
                      ELSE mem[b][k]]]
<1>1. Final \in Nat /\ Final' \in Nat BY FinalGrows
<1>2. mem' = [b \in Buffers |-> [k \in Index |-> CellAfter(b, k, Final')]]
      BY CallFixed DEF IInv, MemOK, Next
<1>3. ASSUME NEW b \in Buffers, NEW k \in Index
      PROVE  CellAfter(b, k, Final') =
               IF k \in Final .. Final' - 1 /\ \E o \in drv.out : buf[o] = b
               THEN EM!Result(CHOOSE o \in drv.out : buf[o] = b, k)
               ELSE mem[b][k]
  <2>1. mem[b][k] = CellAfter(b, k, Final) BY DEF IInv, MemOK
  <2>2. k \in Nat BY DEF Index
  <2> DEFINE isOut == \E o \in drv.out : buf[o] = b
             result == EM!Result(CHOOSE o \in drv.out : buf[o] = b, k)
  <2>3. /\ CellAfter(b, k, Final) = IF k \in 0 .. Final - 1 /\ isOut THEN result ELSE Mem0[b][k]
        /\ CellAfter(b, k, Final') = IF k \in 0 .. Final' - 1 /\ isOut THEN result ELSE Mem0[b][k]
        BY <1>1, CellIsResult
  <2> HIDE DEF isOut, result
  <2>4. CellAfter(b, k, Final') =
           IF k \in Final .. Final' - 1 /\ isOut THEN result ELSE mem[b][k]
    <3> DEFINE before == k \in 0 .. Final - 1
               after  == k \in 0 .. Final' - 1
               now    == k \in Final .. Final' - 1
    <3>1. (before => after) /\ (now <=> after /\ ~before)
      <4> DEFINE f == Final
                 g == Final'
      <4>1. f \in Nat /\ g \in Nat /\ f < g BY <1>1
      <4> HIDE DEF f, g
      <4>2. (k \in 0 .. f - 1 => k \in 0 .. g - 1)
              /\ (k \in f .. g - 1 <=> k \in 0 .. g - 1 /\ ~(k \in 0 .. f - 1))
            BY <4>1, <2>2
      <4> QED BY <4>2 DEF f, g
    <3>2. /\ mem[b][k] = IF before /\ isOut THEN result ELSE Mem0[b][k]
          /\ CellAfter(b, k, Final') = IF after /\ isOut THEN result ELSE Mem0[b][k]
          BY <2>1, <2>3
    <3> HIDE DEF before, after, now
    <3>3. CellAfter(b, k, Final') = IF now /\ isOut THEN result ELSE mem[b][k]
          BY <3>1, <3>2
    <3> QED BY <3>3 DEF now
  <2> QED BY <2>4 DEF isOut, result
<1> QED BY <1>2, <1>3

\* Every array driver maps its scalar function over the elements its inputs held
\* at the call, whichever arrays the caller lets coincide.
THEOREM DriversMapElementwise == NoEmptyTable => (Spec => MapsElementwise)
<1> SUFFICES ASSUME NoEmptyTable PROVE Spec => MapsElementwise OBVIOUS
<1>1. Init => EM!Init BY DEF Init, EM!Init
<1>2. IInv /\ IInv' /\ [Next]_vars => [EM!Next]_(EM!vars)
  <2> SUFFICES ASSUME IInv, IInv', [Next]_vars PROVE EM!Next \/ UNCHANGED EM!vars
      OBVIOUS
  <2>1. CASE UNCHANGED vars BY <2>1 DEF vars, EM!vars
  <2>2. CASE Next /\ Return
    <3>1. mem' = mem /\ pc = "return" /\ pc' = "done" /\ Final = len
          BY <2>2 DEF Return, Final
    <3>2. ASSUME NEW o \in drv.out, NEW k \in 0 .. len - 1
          PROVE  mem[buf[o]][k] = EM!Result(o, k)
      <4>1. buf[o] \in Buffers /\ k \in Index /\ len \in Nat
            BY DriverType DEF IInv, TypesOK, Index
      <4>2. mem[buf[o]][k] = CellAfter(buf[o], k, len) BY <3>1, <4>1 DEF IInv, MemOK
      <4>3. (CHOOSE p \in drv.out : buf[p] = buf[o]) = o BY DEF IInv, OutputsDiffer
      <4>4. CellAfter(buf[o], k, len) = EM!Result(CHOOSE p \in drv.out : buf[p] = buf[o], k)
            BY <4>1, CellIsResult
      <4> QED BY <4>2, <4>3, <4>4
    <3>3. EM!Return BY <2>2, <3>1, <3>2 DEF EM!Return, Next
    <3> QED BY <3>3 DEF EM!Next
  <2>3. CASE Next /\ ~Return
    <3>1. pc # "done" /\ pc' # "done" /\ UNCHANGED <<drv, len, buf>>
          BY <2>3 DEF Next, SaveLast, EnterSmall, EnterMasked, Chunk, TailSaved,
                      TailMasked, SmallMasked, SmallScalar, SmallEnd
    <3>2. Final \in Nat /\ Final' \in Nat /\ Final <= Final' /\ Final' <= len /\ len \in Nat
          BY <2>3, <3>1, FinalGrows, DriverType DEF IInv, TypesOK, Final
    <3>3. CASE Final' = Final
      <4>1. mem' = mem BY <3>1, <3>3, CallFixed DEF IInv, MemOK
      <4> QED BY <3>1, <4>1 DEF EM!vars
    <3>4. CASE Final < Final'
      <4>1. /\ Final \in Index /\ Final' - 1 \in Index
            /\ Final .. Final' - 1 \subseteq 0 .. len - 1
        <5>1. MaxLen \in Nat /\ MaxWidth \in Nat \ {0} /\ len <= MaxLen
              BY DriverType, ArrayAssumption DEF IInv
        <5> DEFINE f == Final
                   g == Final'
        <5>2. f \in Nat /\ g \in Nat /\ f < g /\ g <= len /\ len \in Nat BY <3>2, <3>4
        <5> HIDE DEF f, g
        <5>3. f \in Index /\ g - 1 \in Index /\ f .. g - 1 \subseteq 0 .. len - 1
              BY <5>1, <5>2 DEF Index
        <5> QED BY <5>3 DEF f, g
      <4>2. EM!Fill(Final, Final' - 1)
            BY <2>3, <3>1, <3>4, <4>1, StepFills DEF EM!Fill
      <4> QED BY <4>1, <4>2 DEF EM!Next
    <3> QED BY <3>2, <3>3, <3>4
  <2> QED BY <2>1, <2>2, <2>3
<1> QED BY <1>1, <1>2, InductiveInvariant, PTL DEF Spec, MapsElementwise, EM!Spec

=============================================================================
