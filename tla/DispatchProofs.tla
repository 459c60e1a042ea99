--------------------------- MODULE DispatchProofs ---------------------------
(***************************************************************************)
(* Proofs about Dispatch, for every table, processor and build that meets  *)
(* the assumptions of that module.  The inductive invariant says how far   *)
(* the two nested loops have come: exactly the slots they have passed are  *)
(* bound, each to what alm_iface_fixup_one returns for this processor.     *)
(***************************************************************************)
EXTENDS Dispatch, TLAPS

\* What slot e gets on this machine.
Chosen(e) == alm_iface_fixup_one(entry_pt_initializers[e[1]], alm_get_uach, e[2])

\* The loops have passed slot e.
Passed(e) == e[1] < i \/ (phase = "fixup" /\ e[1] = i /\ v < e[2])

LoopsOK ==
    /\ phase = "loaded" => i = 0
    /\ phase = "ready" => i = C_AMD_LAST_ENTRY
    /\ phase = "fixup" => arch_ver = alm_get_uach

SlotsOK ==
    \A e \in Slots :
        slot[e] = IF e \in Filled /\ Passed(e) THEN Chosen(e) ELSE NULL

IInv == TypeOK /\ LoopsOK /\ SlotsOK

-----------------------------------------------------------------------------
(* The search of alm_iface_fixup_one.                                      *)

\* Of the micro-architectures only DEFAULT is caught by the range check.
LEMMA CaughtIsDefault ==
    ASSUME NEW a \in UarchVersions
    PROVE  Caught(a) <=> a = ALM_UARCH_VER_DEFAULT
BY DEF Caught, UarchVersions, UINT_MOD, ALM_UARCH_MAX, ALM_UARCH_VER_DEFAULT

\* The constructor is always told a micro-architecture of the enumeration.
LEMMA UachType == TypeOK => alm_get_uach \in UarchVersions
BY CpuAssumption, BuildAssumption
   DEF TypeOK, alm_get_uach, DynamicUach, StaticUach, UarchVersions, ALM_UARCH_MAX,
       ALM_UARCH_VER_DEFAULT, ALM_UARCH_VER_AVX512, ALM_UARCH_VER_ZEN, ALM_UARCH_VER_ZEN2,
       ALM_UARCH_VER_ZEN3, ALM_UARCH_VER_ZEN4, ALM_UARCH_VER_ZEN5

\* A non-empty set of rows has a highest row.
LEMMA HighestRow ==
    ASSUME NEW S, S \subseteq UarchVersions, S # {}
    PROVE  \E r \in S : \A q \in S : q <= r
<1> DEFINE Top(n) == \A T \in SUBSET (0 .. n) : T # {} => \E r \in T : \A q \in T : q <= r
<1>0. Top(0)
  <2> SUFFICES ASSUME NEW T \in SUBSET (0 .. 0), T # {}
               PROVE  \E r \in T : \A q \in T : q <= r
      OBVIOUS
  <2>1. \A q \in T : q \in 0 .. 0 OBVIOUS
  <2>2. \A q \in T : q = 0 BY <2>1
  <2>3. PICK r \in T : TRUE OBVIOUS
  <2> QED BY <2>2, <2>3
<1>s. ASSUME NEW n \in Nat, Top(n) PROVE Top(n + 1)
  <2> SUFFICES ASSUME NEW T \in SUBSET (0 .. n + 1), T # {}
               PROVE  \E r \in T : \A q \in T : q <= r
      OBVIOUS
  <2>1. CASE n + 1 \in T BY <2>1
  <2>2. CASE n + 1 \notin T
    <3>1. T \in SUBSET (0 .. n) BY <2>2
    <3> QED BY <3>1, <1>s
  <2> QED BY <2>1, <2>2
<1> HIDE DEF Top
<1>1. Top(0 + 1) /\ 0 + 1 = 1 BY <1>0, <1>s
<1>2. Top(1 + 1) /\ 1 + 1 = 2 BY <1>1, <1>s
<1>3. Top(2 + 1) /\ 2 + 1 = 3 BY <1>2, <1>s
<1>4. Top(3 + 1) /\ 3 + 1 = 4 BY <1>3, <1>s
<1>5. Top(4 + 1) /\ 4 + 1 = 5 BY <1>4, <1>s
<1>6. Top(5 + 1) /\ 5 + 1 = 6 BY <1>5, <1>s
<1>7. Top(6 + 1) /\ 6 + 1 = 7 BY <1>6, <1>s
<1>8. Top(7 + 1) /\ 7 + 1 = 8 BY <1>7, <1>s
<1>9. Top(8) BY <1>8
<1> QED BY <1>9 DEF Top, UarchVersions, ALM_UARCH_MAX

\* alm_iface_fixup_one returns the entry of the highest row, not above the
\* processor's own, that has one; a function with a DEFAULT row always has one.
LEMMA FixupOneFinds ==
    ASSUME NEW e \in Filled, NEW a \in UarchVersions
    PROVE  LET row == entry_pt_initializers[e[1]].funcs[e[2]]
               f   == alm_iface_fixup_one(entry_pt_initializers[e[1]], a, e[2])
           IN  /\ f \in Impl
               /\ f # NULL
               /\ \E r \in 0 .. a : /\ f = row[r]
                                    /\ \A q \in 0 .. a : row[q] # NULL => q <= r
<1> DEFINE t   == entry_pt_initializers[e[1]]
           row == t.funcs[e[2]]
           found == {r \in 0 .. a : row[r] # NULL}
           top == CHOOSE r \in found : \A q \in found : q <= r
<1>1. t \in Table /\ e[2] \in Variants /\ t.def_arch = ALM_UARCH_VER_DEFAULT
      BY InterfaceAssumption, TableAssumption DEF Filled
<1>2. StartRow(t, a) = a
      BY <1>1, CaughtIsDefault, ALM_UARCH_VER_DEFAULT \in UarchVersions
      DEF StartRow, UarchVersions, ALM_UARCH_VER_DEFAULT, ALM_UARCH_MAX
<1>3. row \in [UarchVersions -> Impl \cup {NULL}] BY <1>1 DEF Table
<1>4. row[ALM_UARCH_VER_DEFAULT] # NULL BY TableAssumption
<1>5. 0 .. a \subseteq UarchVersions /\ 0 \in 0 .. a
      BY DEF UarchVersions, ALM_UARCH_MAX
<1>6. found \subseteq UarchVersions /\ found # {}
      BY <1>4, <1>5 DEF ALM_UARCH_VER_DEFAULT
<1>7. top \in found /\ \A q \in found : q <= top
  <2>1. \E r \in found : \A q \in found : q <= r BY <1>6, HighestRow
  <2> QED BY <2>1
<1>8. alm_iface_fixup_one(t, a, e[2]) = row[top]
      BY <1>2, <1>6 DEF alm_iface_fixup_one, SearchDown
<1>9. row[top] \in Impl /\ row[top] # NULL BY <1>3, <1>5, <1>7
<1> QED BY <1>7, <1>8, <1>9

-----------------------------------------------------------------------------
(* Type correctness and the inductive invariant.                           *)

\* Before the constructor no slot holds anything.
LEMMA InitIInv == Init => IInv
<1> SUFFICES ASSUME Init PROVE IInv OBVIOUS
<1> USE DEF Init
<1>1. TypeOK
      BY InterfaceAssumption DEF TypeOK, ALM_FUNC_VAR_MAX, ALM_UARCH_VER_DEFAULT, UarchVersions, ALM_UARCH_MAX
<1>2. LoopsOK BY DEF LoopsOK
<1>3. SlotsOK
  <2>1. \A e \in Filled : ~Passed(e) BY DEF Passed, Filled
  <2> QED BY <2>1 DEF SlotsOK, Slots
<1> QED BY <1>1, <1>2, <1>3 DEF IInv

\* A slot is passed when the loops reach it and stays passed: the one step that
\* changes the set of passed slots is FixupSlot, by the slot of the round.
LEMMA ConstructorIInv == IInv /\ Constructor => IInv'
<1> SUFFICES ASSUME IInv, Constructor PROVE IInv' OBVIOUS
<1> USE DEF IInv
<1>0. alm_get_uach' = alm_get_uach /\ alm_get_uach \in UarchVersions
      BY UachType DEF Constructor, alm_get_uach
<1>c. \A e \in Filled : Chosen(e)' = Chosen(e) BY <1>0 DEF Chosen
<1>t. \A e \in Filled : e \in Slots /\ e[1] \in Int /\ e[2] \in Int
                          /\ e[1] < C_AMD_LAST_ENTRY /\ e[2] < ALM_FUNC_VAR_MAX
                          /\ 0 <= e[1] /\ 0 <= e[2]
                          /\ e = <<e[1], e[2]>>
      BY InterfaceAssumption DEF Filled, Slots, Variants, ALM_FUNC_VAR_MAX
<1>i. i \in Int /\ v \in Int /\ C_AMD_LAST_ENTRY \in Nat
      BY InterfaceAssumption DEF TypeOK
\* A step that leaves the slots alone need only leave the passed ones alone.
<1>k. ASSUME UNCHANGED slot, \A e \in Filled : Passed(e)' = Passed(e)
      PROVE  SlotsOK'
      BY <1>k, <1>c DEF SlotsOK
<1>1. CASE InitMapEntryPoints
  <2>1. TypeOK' /\ LoopsOK'
        BY <1>1, <1>i DEF Constructor, InitMapEntryPoints, TypeOK, LoopsOK
  <2>2. \A e \in Filled : Passed(e)' = Passed(e)
        BY <1>1, <1>t DEF InitMapEntryPoints, Passed, LoopsOK
  <2> QED BY <1>1, <1>k, <2>1, <2>2 DEF InitMapEntryPoints
<1>2. CASE SkipInitializer
  <2>1. TypeOK' /\ LoopsOK'
        BY <1>2, <1>i DEF Constructor, SkipInitializer, TypeOK, LoopsOK
  <2>2. \A e \in Filled : e[1] # i
        BY <1>2 DEF SkipInitializer, Filled, NoInit
  <2>3. \A e \in Filled : Passed(e)' = Passed(e)
        BY <1>2, <1>t, <1>i, <2>2 DEF SkipInitializer, Passed
  <2> QED BY <1>2, <1>k, <2>1, <2>3 DEF SkipInitializer
<1>3. CASE CallInitializer
  <2>1. TypeOK' /\ LoopsOK'
        BY <1>3, <1>i, <1>0 DEF Constructor, CallInitializer, TypeOK, LoopsOK, ALM_FUNC_VAR_MAX
  <2>2. \A e \in Filled : Passed(e)' = Passed(e)
        BY <1>3, <1>t, <1>i DEF CallInitializer, Passed, ALM_FUNC_VAR_MAX
  <2> QED BY <1>3, <1>k, <2>1, <2>2 DEF CallInitializer
<1>4. CASE FixupSlot
  <2> DEFINE t == entry_pt_initializers[i]
             f == alm_iface_fixup_one(t, arch_ver, v)
             e0 == <<i, v>>
  <2>1. i < C_AMD_LAST_ENTRY /\ v \in Variants /\ i \in 0 .. C_AMD_LAST_ENTRY - 1
        BY <1>4, <1>i DEF FixupSlot, TypeOK, Variants
  <2>2. v \in t.g_ep <=> e0 \in Filled BY <2>1 DEF Filled
  <2>3. e0 \in Filled => f = Chosen(e0) /\ f \in Impl /\ f # NULL
        BY <1>4, <1>0, FixupOneFinds DEF FixupSlot, LoopsOK, Chosen
  <2>4. slot' = IF e0 \in Filled THEN [slot EXCEPT ![e0] = f] ELSE slot
        BY <1>4, <2>2, <2>3 DEF FixupSlot
  <2>5. TypeOK' /\ LoopsOK'
    <3>1. slot' \in [Slots -> Impl \cup {NULL}] BY <2>3, <2>4 DEF TypeOK
    <3>2. v' \in -1 .. ALM_FUNC_VAR_MAX - 1
          BY <1>4, <2>1 DEF FixupSlot, Variants, ALM_FUNC_VAR_MAX
    <3> QED BY <1>4, <1>0, <3>1, <3>2 DEF Constructor, FixupSlot, TypeOK, LoopsOK
  <2>6. \A e \in Filled : Passed(e)' <=> Passed(e) \/ e = e0
        BY <1>4, <1>t, <1>i, <2>1 DEF FixupSlot, Passed, Variants
  <2>7. SlotsOK'
    <3> SUFFICES ASSUME NEW e \in Slots
                 PROVE  slot'[e] = IF e \in Filled /\ Passed(e)' THEN Chosen(e)' ELSE NULL
        BY DEF SlotsOK
    <3>1. CASE e = e0 /\ e \in Filled
          BY <3>1, <1>c, <2>3, <2>4, <2>6 DEF TypeOK
    <3>2. CASE ~(e = e0 /\ e \in Filled)
      <4>1. slot'[e] = slot[e] BY <3>2, <2>4 DEF TypeOK
      <4>2. e \in Filled => (Passed(e)' <=> Passed(e)) BY <3>2, <2>6
      <4> QED BY <4>1, <4>2, <1>c DEF SlotsOK
    <3> QED BY <3>1, <3>2
  <2> QED BY <2>5, <2>7
<1>5. CASE FixupReturn
  <2>1. TypeOK' /\ LoopsOK'
        BY <1>5, <1>i DEF Constructor, FixupReturn, TypeOK, LoopsOK
  <2>2. \A e \in Filled : Passed(e)' = Passed(e)
        BY <1>5, <1>t, <1>i DEF FixupReturn, Passed
  <2> QED BY <1>5, <1>k, <2>1, <2>2 DEF FixupReturn
<1>6. CASE InitReturn
  <2>1. TypeOK' /\ LoopsOK'
        BY <1>6, <1>i DEF Constructor, InitReturn, TypeOK, LoopsOK
  <2>2. \A e \in Filled : Passed(e)' = Passed(e)
        BY <1>6, <1>t, <1>i DEF InitReturn, Passed
  <2> QED BY <1>6, <1>k, <2>1, <2>2 DEF InitReturn
<1> QED BY <1>1, <1>2, <1>3, <1>4, <1>5, <1>6 DEF Constructor

\* Callers change nothing but the state of the process.
LEMMA CallIInv == ASSUME NEW e \in Called, IInv, Call(e) PROVE IInv'
<1>1. TypeOK' BY DEF IInv, TypeOK, Call
<1>2. alm_get_uach' = alm_get_uach BY DEF Call, alm_get_uach
<1>3. LoopsOK' BY <1>2 DEF IInv, LoopsOK, Call
<1>4. SlotsOK'
  <2>1. slot' = slot /\ i' = i /\ phase' = phase /\ v' = v BY DEF Call
  <2>2. \A x \in Slots : Chosen(x)' = Chosen(x) /\ Passed(x)' = Passed(x)
        BY <1>2, <2>1 DEF Chosen, Passed
  <2> QED BY <2>1, <2>2 DEF IInv, SlotsOK
<1> QED BY <1>1, <1>3, <1>4 DEF IInv

\* No step of the constructor and no call breaks the invariant.
LEMMA InductiveStep == ASSUME IInv, [Next]_vars PROVE IInv'
<1>1. CASE Constructor BY <1>1, ConstructorIInv
<1>2. CASE \E e \in Called : Call(e) BY <1>2, CallIInv
<1>3. CASE UNCHANGED vars
  <2>1. TypeOK' BY <1>3 DEF IInv, TypeOK, vars
  <2>2. alm_get_uach' = alm_get_uach BY <1>3 DEF vars, alm_get_uach
  <2>3. LoopsOK' BY <1>3, <2>2 DEF IInv, LoopsOK, vars
  <2>4. \A x \in Slots : Chosen(x)' = Chosen(x) /\ Passed(x)' = Passed(x)
        BY <1>3, <2>2 DEF Chosen, Passed, vars
  <2>5. SlotsOK' BY <1>3, <2>4 DEF IInv, SlotsOK, vars
  <2> QED BY <2>1, <2>3, <2>5 DEF IInv
<1> QED BY <1>1, <1>2, <1>3 DEF Next

\* The state of the constructor is always that of its loops: the slots passed so
\* far are bound to their implementation and all others are NULL.
THEOREM InductiveInvariant == Spec => []IInv
<1>1. IInv /\ [Next]_vars => IInv' BY InductiveStep
<1> QED BY InitIInv, <1>1, PTL DEF Spec

\* Type correctness of the dispatcher.
THEOREM TypeCorrect == Spec => []TypeOK
<1>1. IInv => TypeOK BY DEF IInv
<1> QED BY <1>1, InductiveInvariant, PTL

-----------------------------------------------------------------------------
(* The instructions in a slot.                                             *)

\* A processor that gets one of the three AVX-512 rows has AVX-512.
LEMMA RowNeedsIsa ==
    ASSUME TypeOK, Supported, alm_get_uach \in Avx512Rows
    PROVE  Extensions \subseteq cpu.isa
<1>1. CASE build = "OFF"
      BY <1>1, CpuAssumption
      DEF TypeOK, alm_get_uach, DynamicUach, Avx512Rows, Extensions, ALM_UARCH_VER_DEFAULT,
          ALM_UARCH_VER_AVX512, ALM_UARCH_VER_ZEN, ALM_UARCH_VER_ZEN2,
          ALM_UARCH_VER_ZEN3, ALM_UARCH_VER_ZEN4, ALM_UARCH_VER_ZEN5
<1>2. CASE build # "OFF"
      BY <1>2, BuildAssumption
      DEF TypeOK, Supported, alm_get_uach, StaticUach, Avx512Rows,
          ALM_UARCH_VER_AVX512, ALM_UARCH_VER_ZEN2, ALM_UARCH_VER_ZEN3,
          ALM_UARCH_VER_ZEN4, ALM_UARCH_VER_ZEN5
<1> QED BY <1>1, <1>2

\* No processor is given a row between DEFAULT and AVX512.
LEMMA UachRows ==
    TypeOK => alm_get_uach = ALM_UARCH_VER_DEFAULT \/ ALM_UARCH_VER_AVX512 <= alm_get_uach
BY CpuAssumption, BuildAssumption
   DEF TypeOK, alm_get_uach, DynamicUach, StaticUach, UarchVersions, ALM_UARCH_MAX,
       ALM_UARCH_VER_DEFAULT, ALM_UARCH_VER_AVX512, ALM_UARCH_VER_ZEN, ALM_UARCH_VER_ZEN2,
       ALM_UARCH_VER_ZEN3, ALM_UARCH_VER_ZEN4, ALM_UARCH_VER_ZEN5

\* On any other row the downward search ends above the AVX-512 row or, from the
\* DEFAULT row, below it.
LEMMA ChosenRuns ==
    ASSUME TypeOK, Supported, NEW e \in Filled, e[2] \in Wide => Extensions \subseteq cpu.isa
    PROVE  Chosen(e) # NULL /\ Chosen(e) \in Impl /\ Needs(Chosen(e)) \subseteq cpu.isa
<1> DEFINE a   == alm_get_uach
           row == entry_pt_initializers[e[1]].funcs[e[2]]
<1>0. a \in UarchVersions BY UachType
<1>1. PICK r \in 0 .. a : /\ Chosen(e) = row[r]
                          /\ \A q \in 0 .. a : row[q] # NULL => q <= r
      BY <1>0, FixupOneFinds DEF Chosen
<1>2. Chosen(e) # NULL /\ Chosen(e) \in Impl BY <1>0, FixupOneFinds DEF Chosen
<1>3. Needs(Chosen(e)) \subseteq Extensions BY DEF Needs, Extensions
<1>4. "avx2" \in cpu.isa BY CpuAssumption DEF TypeOK
<1>5. CASE Extensions \subseteq cpu.isa BY <1>2, <1>3, <1>5
<1>6. CASE ~(Extensions \subseteq cpu.isa)
  <2>1. a \notin Avx512Rows /\ e[2] \notin Wide BY <1>6, RowNeedsIsa
  <2>2. r \notin Avx512Rows
        BY <1>0, <1>1, <1>2, <2>1, TableAssumption, UachRows
        DEF Avx512Rows, UarchVersions, ALM_UARCH_VER_AVX512, ALM_UARCH_VER_ZEN,
            ALM_UARCH_VER_ZEN4, ALM_UARCH_VER_ZEN5, ALM_UARCH_MAX
  <2>3. r \in UarchVersions BY <1>0 DEF UarchVersions, ALM_UARCH_MAX
  <2>4. Needs(Chosen(e)) = {"avx2"} BY <1>1, <1>2, <2>1, <2>2, <2>3, TableAssumption
  <2> QED BY <1>2, <1>4, <2>4
<1> QED BY <1>5, <1>6

\* On a supported machine the dispatcher never puts code in a slot that the
\* processor cannot run: no table, processor or build of the assumed kind leads
\* alm_iface_fixup_one to an AVX-512 build on a machine without AVX-512.
THEOREM SlotsAreRunnable == Spec => []RunnableSlots
<1>1. IInv => RunnableSlots
  <2> SUFFICES ASSUME IInv, Supported, NEW e \in Slots, slot[e] # NULL,
                      e[2] \in Wide => Extensions \subseteq cpu.isa
               PROVE  Needs(slot[e]) \subseteq cpu.isa
      BY Zenon DEF RunnableSlots
  <2>1. e \in Filled /\ slot[e] = Chosen(e) BY DEF IInv, SlotsOK
  <2> QED BY <2>1, ChosenRuns DEF IInv
<1> QED BY <1>1, InductiveInvariant, PTL

\* However its calls interleave with the constructor, a process on a supported
\* machine is never killed by an instruction of the library.
THEOREM NoIllegalInstruction == Spec => []NeverSigill
<1> DEFINE Safe == IInv /\ NeverSigill
<1>1. Init => Safe BY InitIInv DEF Init, NeverSigill
<1>2. Safe /\ [Next]_vars => Safe'
  <2> SUFFICES ASSUME IInv, NeverSigill, [Next]_vars, Supported'
               PROVE  IInv' /\ process' # "sigill"
      BY InductiveStep DEF NeverSigill
  <2>0. IInv' BY InductiveStep
  <2>1. CASE Constructor
        BY <2>0, <2>1 DEF Constructor, Supported, NeverSigill
  <2>2. ASSUME NEW e \in Called, Call(e) PROVE process' # "sigill"
    <3>1. Supported BY <2>2 DEF Call, Supported
    <3>2. e \in Slots BY InterfaceAssumption
    <3>3. slot[e] # NULL => Needs(slot[e]) \subseteq cpu.isa
      <4> SUFFICES ASSUME slot[e] # NULL PROVE Needs(slot[e]) \subseteq cpu.isa
          OBVIOUS
      <4>1. e \in Filled /\ slot[e] = Chosen(e) BY <3>2 DEF IInv, SlotsOK
      <4> QED BY <2>2, <3>1, <4>1, ChosenRuns DEF Call, IInv
    <3> QED BY <2>2, <3>3 DEF Call
  <2>3. CASE UNCHANGED vars
        BY <2>0, <2>3 DEF vars, Supported, NeverSigill
  <2> QED BY <2>0, <2>1, <2>2, <2>3 DEF Next
<1>3. Safe => NeverSigill OBVIOUS
<1> QED BY <1>1, <1>2, <1>3, PTL DEF Spec

-----------------------------------------------------------------------------
(* What a caller can see.                                                  *)

\* Every slot of the table is bound when the constructor has returned.
LEMMA ReadyIsBound ==
    ASSUME IInv, phase = "ready", NEW e \in Filled
    PROVE  slot[e] # NULL
<1>1. e[1] < C_AMD_LAST_ENTRY BY InterfaceAssumption DEF Filled
<1>2. e \in Slots /\ Passed(e) BY <1>1 DEF Passed, IInv, LoopsOK, Slots
<1>3. alm_get_uach \in UarchVersions BY UachType DEF IInv
<1> QED BY <1>2, <1>3, FixupOneFinds DEF IInv, SlotsOK, Chosen

\* After the load, no call of a function of the table jumps through NULL.
THEOREM ReadyCallsAreSafe == Spec => OnlyEarlyCallsFault
<1>1. IInv /\ [Next]_vars =>
        [\A e \in Called \cap Filled : phase = "ready" /\ Call(e) => process' # "segv"]_vars
  <2> SUFFICES ASSUME IInv, NEW e \in Called \cap Filled, phase = "ready", Call(e)
               PROVE  process' # "segv"
      OBVIOUS
  <2>1. slot[e] # NULL BY ReadyIsBound
  <2> QED BY <2>1 DEF Call
<1> QED BY <1>1, InductiveInvariant, PTL DEF Spec, OnlyEarlyCallsFault

\* The dispatcher implements EntryPoints: a thread that calls during the load
\* finds NULL or the final implementation in a slot, never an intermediate one,
\* and the load ends only when all slots of the table are bound.
THEOREM DispatchBindsOnce == Spec => BindsOnce
<1>1. Init => EP!Init BY DEF Init, EP!Init
<1>2. IInv /\ [Next]_vars => [EP!Next]_(EP!vars)
  <2> SUFFICES ASSUME IInv, [Next]_vars PROVE EP!Next \/ UNCHANGED EP!vars
      OBVIOUS
  <2>0. IInv' BY InductiveStep
  <2>1. CASE Constructor /\ FixupSlot
    <3> DEFINE e0 == <<i, v>>
    <3>1. phase' = phase /\ phase = "fixup" BY <2>1 DEF FixupSlot
    <3>2. CASE slot' = slot BY <3>1, <3>2 DEF EP!vars
    <3>3. CASE slot' # slot
      <4>1. e0 \in Filled /\ slot' = [slot EXCEPT ![e0] = slot'[e0]]
        <5>1. /\ v \in entry_pt_initializers[i].g_ep
              /\ slot' = [slot EXCEPT ![e0] =
                               alm_iface_fixup_one(entry_pt_initializers[i], arch_ver, v)]
              BY <2>1, <3>3 DEF FixupSlot
        <5>2. e0 \in Filled
          <6>1. i \in 0 .. C_AMD_LAST_ENTRY - 1
                BY <2>1, InterfaceAssumption DEF FixupSlot, IInv, TypeOK
          <6>2. v \in Variants
                BY <2>1 DEF FixupSlot, IInv, TypeOK, Variants, ALM_FUNC_VAR_MAX
          <6> QED BY <5>1, <6>1, <6>2 DEF Filled
        <5> QED BY <5>1, <5>2 DEF IInv, TypeOK, Slots
      <4>2. slot[e0] = NULL
            BY <3>1, <4>1 DEF IInv, SlotsOK, Slots, Passed, TypeOK
      <4>3. slot'[e0] \in Impl \cup {NULL} BY <2>0, <4>1 DEF IInv, TypeOK, Slots
      <4>4. slot'[e0] # NULL BY <3>3, <4>1, <4>2 DEF IInv, TypeOK
      <4>5. EP!Bind(e0) BY <3>1, <4>1, <4>2, <4>3, <4>4 DEF EP!Bind
      <4> QED BY <4>1, <4>5 DEF EP!Next, Slots
    <3> QED BY <3>2, <3>3
  <2>2. CASE Constructor /\ InitReturn
    <3>1. phase = "iface_init" /\ phase' = "ready" /\ slot' = slot BY <2>2 DEF InitReturn
    <3>2. \A e \in Filled : slot[e] # NULL 
      <4> SUFFICES ASSUME NEW e \in Filled PROVE slot[e] # NULL OBVIOUS
      <4>1. e[1] < i BY <2>2, InterfaceAssumption DEF InitReturn, Filled
      <4>2. alm_get_uach \in UarchVersions BY UachType DEF IInv
      <4> QED BY <4>1, <4>2, FixupOneFinds DEF IInv, SlotsOK, Passed, Chosen, Slots
    <3> QED BY <3>1, <3>2 DEF EP!Next, EP!Publish
  <2>3. CASE Constructor /\ ~FixupSlot /\ ~InitReturn
        BY <2>3 DEF Constructor, InitMapEntryPoints, SkipInitializer, CallInitializer,
                    FixupReturn, EP!vars
  <2>4. CASE \E e \in Called : Call(e) BY <2>4 DEF Call, EP!vars
  <2>5. CASE UNCHANGED vars BY <2>5 DEF vars, EP!vars
  <2> QED BY <2>1, <2>2, <2>3, <2>4, <2>5 DEF Next
<1> QED BY <1>1, <1>2, InductiveInvariant, PTL DEF Spec, BindsOnce, EP!Spec

=============================================================================
