------------------------------ MODULE VecArray ------------------------------
(***************************************************************************)
(* The array variants of the library, vrsa_ and vrda_: a driver cuts the   *)
(* input arrays into chunks of w elements, passes each chunk to a vector   *)
(* function of w lanes and stores the result.  What differs between the    *)
(* some eighty drivers is how they treat the last len % w elements:        *)
(*                                                                         *)
(*   saved   the last w inputs are loaded BEFORE the loop, because the     *)
(*           outputs may overwrite them, and the last chunk overlaps the   *)
(*           one before it; an array shorter than w is treated apart       *)
(*   masked  the last chunk is loaded and stored under a lane mask         *)
(*                                                                         *)
(* A vector function is lane-wise: it is modelled by the scalar function F *)
(* that it applies to each lane.                                           *)
(***************************************************************************)
EXTENDS Integers

CONSTANTS
    Streams,   \* the names of the pointer arguments
    Buffers,   \* the arrays of the caller
    Calls,     \* the calls made: pairs of a driver and a length
    MaxLen,    \* bound of the lengths
    MaxWidth,  \* bound of the number of lanes; cells behind an array's end
    Mem0,      \* the contents of the arrays at the call
    F(_, _)    \* F(o, x): output o of the scalar function for the arguments x

\* mask: how the driver confines a vector to fewer lanes than it has
\* (table, exact), or that it calls the scalar function instead (scalar).
Driver == [w : 1 .. MaxWidth, in : SUBSET Streams, out : SUBSET Streams,
           tail : {"saved", "masked"}, mask : {"table", "exact", "scalar"}]

Index == 0 .. MaxLen + MaxWidth - 1

ASSUME ArrayAssumption ==
    /\ MaxLen \in Nat
    /\ MaxWidth \in Nat \ {0}
    /\ Calls \subseteq Driver \X (0 .. MaxLen)
    /\ \A c \in Calls : /\ c[1].tail = "masked" => c[1].mask # "scalar"
                        /\ c[1].mask = "table" => c[1].w > 2

ASSUME MemoryAssumption == Mem0 = [b \in Buffers |-> [k \in Index |-> Mem0[b][k]]]

VARIABLES
    drv, len, buf,  \* the call: driver, length, array of each pointer
    mem,            \* the contents of the arrays
    j,              \* the loop counter
    saved,          \* the registers that hold the last w inputs
    pc,             \* entry, chunks, small, return, done
    touched         \* the indices that loads and stores have accessed

vars == <<drv, len, buf, mem, j, saved, pc, touched>>

-----------------------------------------------------------------------------
(* Loads, stores and masks.                                                *)

Lanes(n) == 0 .. n - 1

\* The first n lanes of each input from index at on.
Loaded(at, n) == [s \in drv.in |-> [l \in Lanes(n) |-> mem[buf[s]][at + l]]]

\* Memory after the vector function was applied to the registers reg and its
\* results were stored from index at on.
Stored(at, n, reg) ==
    [b \in Buffers |-> [k \in Index |->
        IF k \in at .. at + n - 1 /\ \E o \in drv.out : buf[o] = b
        THEN F(CHOOSE o \in drv.out : buf[o] = b, [s \in drv.in |-> reg[s][k - at]])
        ELSE mem[b][k]]]

\* Slip: the table has no entry for w - 2 lanes.
MaskLanesShort(rem) ==
    IF drv.mask = "table" THEN IF rem \in 1 .. drv.w - 3 THEN rem ELSE drv.w - 1
                          ELSE rem

\* GET_MASK_FLOAT_256_BIT and GET_MASK_DOUBLE_256_BIT: the number of lanes for a
\* remainder; every value that is not listed gets the mask of w - 1 lanes.  The
\* 512-bit drivers shift a full mask instead.
MaskLanes(rem) ==
    IF drv.mask = "table" THEN IF rem \in 1 .. drv.w - 2 THEN rem ELSE drv.w - 1
                          ELSE rem

Access(at, n) == touched' = touched \cup at .. at + n - 1

Process(at, n, reg) == mem' = Stored(at, n, reg) /\ Access(at, n)

-----------------------------------------------------------------------------
(* An output may be in place, that is point to an input's array; two       *)
(* outputs do not share an array.                                          *)

Init ==
    /\ \E c \in Calls : drv = c[1] /\ len = c[2]
    /\ buf \in [drv.in \cup drv.out -> Buffers]
    /\ \A o, p \in drv.out : buf[o] = buf[p] => o = p
    /\ mem = Mem0
    /\ j = 0
    /\ saved = <<>>
    /\ pc = "entry"
    /\ touched = {}

\* "Save the last elements before processing."
SaveLast ==
    /\ pc = "entry" /\ drv.tail = "saved" /\ len >= drv.w
    /\ saved' = Loaded(len - drv.w, drv.w)
    /\ Access(len - drv.w, drv.w)
    /\ pc' = "chunks"
    /\ UNCHANGED <<mem, j>>

EnterSmall ==
    /\ pc = "entry" /\ drv.tail = "saved" /\ len < drv.w
    /\ pc' = "small"
    /\ UNCHANGED <<mem, j, saved, touched>>

EnterMasked ==
    /\ pc = "entry" /\ drv.tail = "masked"
    /\ pc' = "chunks"
    /\ UNCHANGED <<mem, j, saved, touched>>

\* Slips: the loop runs while an element is left; it does not advance.
ChunkOverrun ==
    /\ pc = "chunks" /\ j < len
    /\ Process(j, drv.w, Loaded(j, drv.w))
    /\ j' = j + drv.w
    /\ UNCHANGED <<saved, pc>>

ChunkStuck ==
    /\ pc = "chunks" /\ j <= len - drv.w
    /\ Process(j, drv.w, Loaded(j, drv.w))
    /\ UNCHANGED <<j, saved, pc>>

\* One round of the loop over complete chunks.
Chunk ==
    /\ pc = "chunks" /\ j <= len - drv.w
    /\ Process(j, drv.w, Loaded(j, drv.w))
    /\ j' = j + drv.w
    /\ UNCHANGED <<saved, pc>>

\* Slip: the last inputs are loaded again, when the loop may have overwritten them.
TailReloaded ==
    /\ pc = "chunks" /\ j > len - drv.w /\ drv.tail = "saved"
    /\ IF len - j # 0 THEN Process(len - drv.w, drv.w, Loaded(len - drv.w, drv.w))
                      ELSE UNCHANGED <<mem, touched>>
    /\ pc' = "return"
    /\ UNCHANGED <<j, saved>>

\* The remaining elements, from the saved registers: they end at the array's end.
TailSaved ==
    /\ pc = "chunks" /\ j > len - drv.w /\ drv.tail = "saved"
    /\ IF len - j # 0 THEN Process(len - drv.w, drv.w, saved)
                      ELSE UNCHANGED <<mem, touched>>
    /\ pc' = "return"
    /\ UNCHANGED <<j, saved>>

\* The remaining elements, under a mask.
TailMasked ==
    /\ pc = "chunks" /\ j > len - drv.w /\ drv.tail = "masked"
    /\ LET n == MaskLanes(len - j)
       IN  IF len - j # 0 THEN Process(j, n, Loaded(j, n))
                          ELSE UNCHANGED <<mem, touched>>
    /\ pc' = "return"
    /\ UNCHANGED <<j, saved>>

\* A short array under a mask.  Nothing asks whether there is any element.
SmallMasked ==
    /\ pc = "small" /\ drv.mask # "scalar"
    /\ LET n == MaskLanes(len) IN Process(0, n, Loaded(0, n))
    /\ pc' = "return"
    /\ UNCHANGED <<j, saved>>

\* A short array, element by element.
SmallScalar ==
    /\ pc = "small" /\ drv.mask = "scalar" /\ j < len
    /\ Process(j, 1, Loaded(j, 1))
    /\ j' = j + 1
    /\ UNCHANGED <<saved, pc>>

SmallEnd ==
    /\ pc = "small" /\ drv.mask = "scalar" /\ j >= len
    /\ pc' = "return"
    /\ UNCHANGED <<mem, j, saved, touched>>

Return ==
    /\ pc = "return"
    /\ pc' = "done"
    /\ UNCHANGED <<mem, j, saved, touched>>

Next ==
    /\ \/ SaveLast \/ EnterSmall \/ EnterMasked \/ Chunk \/ TailSaved \/ TailMasked
       \/ SmallMasked \/ SmallScalar \/ SmallEnd \/ Return
    /\ UNCHANGED <<drv, len, buf>>

\* A driver is sequential code: its thread runs it to the end.
Spec == Init /\ [][Next]_vars /\ WF_vars(Next)

-----------------------------------------------------------------------------
(* Properties.                                                             *)

TypeOK ==
    /\ <<drv, len>> \in Calls
    /\ buf \in [drv.in \cup drv.out -> Buffers]
    /\ DOMAIN mem = Buffers /\ \A b \in Buffers : DOMAIN mem[b] = Index
    /\ j \in 0 .. len
    /\ pc \in {"entry", "chunks", "small", "return", "done"}
    /\ touched \subseteq Index

\* No load or store of a driver leaves the len elements of an array, neither in
\* front of it (the overlapping last chunk) nor behind (the masks).  The in-place
\* tests put guard bytes behind the array and state the same
\* (gtests/Gtest_srcs/gtest_main_vec_arr.cc: "Any write outside ... will corrupt
\* guards").
InBounds == touched \subseteq 0 .. len - 1

\* Whatever arrays the caller lets coincide, a driver maps its function over the
\* elements its inputs held at the call: no element is computed from a result,
\* none is left out, every cell holds at all times its old or its final value.
EM == INSTANCE ElementwiseMap WITH in <- drv.in, out <- drv.out, finished <- (pc = "done")

MapsElementwise == EM!Spec

\* A driver returns.
Returns == <>(pc = "done")

=============================================================================
