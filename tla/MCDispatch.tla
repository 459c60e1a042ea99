----------------------------- MODULE MCDispatch -----------------------------
(***************************************************************************)
(* The dispatcher over the real tables of src/iface/*.c and the processors *)
(* that its code tells apart.                                              *)
(***************************************************************************)
EXTENDS Dispatch, IfaceTables, FiniteSets

ShapeEntries == Len(InitializerSeq) + 1

\* The 80 tables without repetitions: a table is all that tells two functions
\* apart, and many are the same.  The last of each is kept, so that the last of
\* all is there.
Distinct == {k \in 1 .. Len(InitializerSeq) :
                \A j \in k + 1 .. Len(InitializerSeq) : InitializerSeq[j] # InitializerSeq[k]}

\* Index 0 is the entry that the enumeration leaves unused.
ShapeInitializers ==
    [k \in 0 .. Len(InitializerSeq) |->
        IF k \in Distinct THEN InitializerSeq[k] ELSE NoInit]

\* remainder_piby2 and remainder_piby2d2f: src/entry_pt_map.c exports them, no
\* initializer owns them.
PiBy2Slots == {<<1000, SCAL_DP>>, <<1001, SCAL_DP>>}

\* The calls are to the first function, one in the middle and the last of them.
CalledFunctions == {k \in Distinct : Cardinality({j \in Distinct : j <= k})
                        \in {1, Cardinality(Distinct) \div 2, Cardinality(Distinct)}}

CalledSlots == {s \in Slots : s[1] \in CalledFunctions}

Cpu(a, ext) == [arch |-> a, isa |-> {"avx2"} \cup ext]
F512 == {"avx512f", "avx512dq"}

AllCpus ==
    {Cpu(a, {}) : a \in {"zen", "zen2", "zen3", "zen4", "zen5", "other"}}
        \cup {Cpu(a, F512) : a \in {"zen4", "zen5", "other"}}
        \cup {Cpu("other", {"avx512f"})}

AllBuilds == {"OFF", "AVX2", "ZEN2", "ZEN3", "ZEN4", "ZEN5", "AVX512"}

=============================================================================
