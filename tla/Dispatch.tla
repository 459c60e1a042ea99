------------------------------ MODULE Dispatch ------------------------------
(***************************************************************************)
(* The load-time dispatcher of AOCL-LibM (src/entry_pt.c, src/iface.c,     *)
(* src/iface/*.c, src/entry_pt_macros.h).                                  *)
(*                                                                         *)
(* Every public function amd_f is a trampoline that jumps through a slot,  *)
(* a global function pointer that starts as NULL.  An ELF constructor      *)
(* walks the table of per-function initializers; each asks which           *)
(* micro-architecture the process runs on and stores one implementation in *)
(* each slot of its function.  Other code of the process, constructors of  *)
(* other objects and the threads they start included, may call a           *)
(* trampoline at any time: nothing in the library orders the calls after   *)
(* the constructor.                                                        *)
(***************************************************************************)
EXTENDS Iface

CONSTANTS
    C_AMD_LAST_ENTRY,      \* number of entries of entry_pt_initializers
    entry_pt_initializers, \* the interface table of each function
    Orphans,               \* exported slots that belong to no initializer
    Called,                \* the slots that the rest of the process calls
    Cpus,                  \* processors, as [arch |-> ..., isa |-> ...]
    Builds                 \* values of the cmake option ALM_STATIC_DISPATCH

\* The entry without epi_init (the enumeration leaves index 0 unused).
NoInit == [def_arch |-> ALM_UARCH_VER_DEFAULT, g_ep |-> {},
           funcs |-> [v \in Variants |-> [r \in UarchVersions |-> NULL]]]

Table == [def_arch : UarchVersions, g_ep : SUBSET Variants,
          funcs : [Variants -> [UarchVersions -> Impl \cup {NULL}]]]

\* A slot is named by the initializer and the variant that own it.
Filled == {e \in (0 .. C_AMD_LAST_ENTRY - 1) \X Variants : e[2] \in entry_pt_initializers[e[1]].g_ep}
Slots  == Filled \cup Orphans

ASSUME InterfaceAssumption ==
    /\ C_AMD_LAST_ENTRY \in Nat
    /\ entry_pt_initializers \in [0 .. C_AMD_LAST_ENTRY - 1 -> Table]
    /\ Orphans \cap Filled = {}
    /\ Called \subseteq Slots

\* The processors the library is built for: AVX2 and FMA everywhere; on Zen 4
\* and Zen 5 the AVX-512 extensions are present together or, when the BIOS or a
\* hypervisor hides them, not at all.
ASSUME CpuAssumption ==
    \A c \in Cpus : /\ c.arch \in {"zen", "zen2", "zen3", "zen4", "zen5", "other"}
                    /\ c.isa \subseteq Extensions /\ "avx2" \in c.isa
                    /\ c.arch \in {"zen4", "zen5"} =>
                          ("avx512f" \in c.isa <=> "avx512dq" \in c.isa)

\* Every default is the DEFAULT row.  A narrow entry holds AVX-512 code only in
\* the rows chosen on AVX-512 hardware, and has a Zen row above the AVX-512 row
\* for the downward search to stop at.
Avx512Rows == {ALM_UARCH_VER_AVX512, ALM_UARCH_VER_ZEN4, ALM_UARCH_VER_ZEN5}

ASSUME TableAssumption ==
    /\ \A k \in 0 .. C_AMD_LAST_ENTRY - 1 :
          entry_pt_initializers[k].def_arch = ALM_UARCH_VER_DEFAULT
    /\ \A e \in Filled :
          LET row == entry_pt_initializers[e[1]].funcs[e[2]] IN
              /\ row[ALM_UARCH_VER_DEFAULT] # NULL
              /\ e[2] \notin Wide =>
                    /\ \A r \in UarchVersions \ Avx512Rows :
                          row[r] # NULL => Needs(row[r]) = {"avx2"}
                    /\ row[ALM_UARCH_VER_AVX512] # NULL => row[ALM_UARCH_VER_ZEN] # NULL

ASSUME BuildAssumption ==
    Builds \subseteq {"OFF", "AVX2", "ZEN2", "ZEN3", "ZEN4", "ZEN5", "AVX512"}

VARIABLES
    cpu, build,  \* where the process runs and how the library was configured
    phase,       \* of the constructor: loaded, iface_init, fixup, ready
    i,           \* loop counter of libm_iface_init
    v,           \* loop counter of alm_iface_fixup
    arch_ver,    \* the static variable of alm_iface_fixup
    slot,        \* the global function pointers
    process      \* running, or dead: segv, sigill

vars == <<cpu, build, phase, i, v, arch_ver, slot, process>>

-----------------------------------------------------------------------------
(* alm_get_uach: both the statically configured version and the one that   *)
(* asks the processor.                                                     *)

StaticUach == [AVX2 |-> ALM_UARCH_VER_ZEN2, ZEN2 |-> ALM_UARCH_VER_ZEN2,
               ZEN3 |-> ALM_UARCH_VER_ZEN3, ZEN4 |-> ALM_UARCH_VER_ZEN4,
               ZEN5 |-> ALM_UARCH_VER_ZEN5, AVX512 |-> ALM_UARCH_VER_AVX512]

\* Slip: Zen 4 and Zen 5 trusted without asking for the flags.
DynamicUachUnchecked(c) ==
    CASE c.arch = "zen5" -> ALM_UARCH_VER_ZEN5
      [] c.arch = "zen4" -> ALM_UARCH_VER_ZEN4
      [] OTHER -> ALM_UARCH_VER_DEFAULT

DynamicUach(c) ==
    CASE c.arch = "zen5" -> IF "avx512f" \in c.isa THEN ALM_UARCH_VER_ZEN5
                                                   ELSE ALM_UARCH_VER_ZEN3
      [] c.arch = "zen4" -> IF "avx512f" \in c.isa THEN ALM_UARCH_VER_ZEN4
                                                   ELSE ALM_UARCH_VER_ZEN3
      [] c.arch = "zen3" -> ALM_UARCH_VER_ZEN3
      [] c.arch = "zen2" -> ALM_UARCH_VER_ZEN2
      [] c.arch = "zen"  -> ALM_UARCH_VER_ZEN
      [] OTHER -> IF {"avx512f", "avx512dq"} \subseteq c.isa
                  THEN ALM_UARCH_VER_AVX512 ELSE ALM_UARCH_VER_DEFAULT

alm_get_uach == IF build = "OFF" THEN DynamicUach(cpu) ELSE StaticUach[build]

-----------------------------------------------------------------------------
(* alm_iface_fixup_one: the range check is unsigned arithmetic, so a value *)
(* above ALM_UARCH_MAX wraps round and is caught, and so is DEFAULT.       *)

UINT_MOD == 65536  \* stands for 2^32

Caught(a) == (ALM_UARCH_MAX - a) % UINT_MOD >= ALM_UARCH_MAX - ALM_UARCH_VER_DEFAULT

StartRow(t, a) ==
    LET b == IF Caught(a) THEN t.def_arch ELSE a
    IN  IF Caught(b) THEN ALM_UARCH_VER_DEFAULT ELSE b

\* Slip: only the processor's own row is looked at.
SearchExact(row, a) == row[a]

\* The first row that has an entry, searching downwards from row a.
SearchDown(row, a) ==
    LET found == {r \in 0 .. a : row[r] # NULL}
    IN  IF found = {} THEN NULL
        ELSE row[CHOOSE r \in found : \A q \in found : q <= r]

alm_iface_fixup_one(t, a, idx) == SearchDown(t.funcs[idx], StartRow(t, a))

-----------------------------------------------------------------------------
Init ==
    /\ cpu \in Cpus
    /\ build \in Builds
    /\ phase = "loaded"
    /\ i = 0
    /\ v = ALM_FUNC_VAR_MAX - 1
    /\ arch_ver = ALM_UARCH_VER_DEFAULT
    /\ slot = [e \in Slots |-> NULL]
    /\ process = "running"

\* The CONSTRUCTOR init_map_entry_points enters libm_iface_init.
InitMapEntryPoints ==
    /\ phase = "loaded"
    /\ phase' = "iface_init"
    /\ i' = 0
    /\ UNCHANGED <<v, arch_ver, slot>>

\* An entry without epi_init is passed over.
SkipInitializer ==
    /\ phase = "iface_init" /\ i < C_AMD_LAST_ENTRY
    /\ entry_pt_initializers[i] = NoInit
    /\ i' = i + 1
    /\ UNCHANGED <<phase, v, arch_ver, slot>>

\* epi_init calls alm_iface_fixup, which asks for the micro-architecture again.
CallInitializer ==
    /\ phase = "iface_init" /\ i < C_AMD_LAST_ENTRY
    /\ entry_pt_initializers[i] # NoInit
    /\ phase' = "fixup"
    /\ arch_ver' = alm_get_uach
    /\ v' = ALM_FUNC_VAR_MAX - 1
    /\ UNCHANGED <<i, slot>>

\* One round of the loop in alm_iface_fixup: only a variant the function has
\* and only a function that was found is stored.
FixupSlot ==
    /\ phase = "fixup" /\ v >= 0
    /\ LET t == entry_pt_initializers[i]
           f == alm_iface_fixup_one(t, arch_ver, v)
       IN  slot' = IF v \in t.g_ep /\ f # NULL THEN [slot EXCEPT ![<<i, v>>] = f] ELSE slot
    /\ v' = v - 1
    /\ UNCHANGED <<phase, i, arch_ver>>

\* Slips: the next initializer is skipped; the same one is called again.
FixupReturnTwice ==
    /\ phase = "fixup" /\ v < 0
    /\ phase' = "iface_init"
    /\ i' = i + 2
    /\ UNCHANGED <<v, arch_ver, slot>>

FixupReturnStuck ==
    /\ phase = "fixup" /\ v < 0
    /\ phase' = "iface_init"
    /\ UNCHANGED <<i, v, arch_ver, slot>>

FixupReturn ==
    /\ phase = "fixup" /\ v < 0
    /\ phase' = "iface_init"
    /\ i' = i + 1
    /\ UNCHANGED <<v, arch_ver, slot>>

\* Slip: the constructor stops one entry early.
InitReturnEarly ==
    /\ phase = "iface_init" /\ i = C_AMD_LAST_ENTRY - 1
    /\ phase' = "ready"
    /\ UNCHANGED <<i, v, arch_ver, slot>>

InitReturn ==
    /\ phase = "iface_init" /\ i = C_AMD_LAST_ENTRY
    /\ phase' = "ready"
    /\ UNCHANGED <<i, v, arch_ver, slot>>

Constructor ==
    /\ process = "running"
    /\ \/ InitMapEntryPoints \/ SkipInitializer \/ CallInitializer
       \/ FixupSlot \/ FixupReturn \/ InitReturn
    /\ UNCHANGED <<cpu, build, process>>

\* Any thread of the process jumps through slot e.  The jump is not checked:
\* NULL or an instruction the processor lacks kills the process.  Only a program
\* that itself runs on AVX-512 F and DQ calls a 512-bit variant.
Call(e) ==
    /\ process = "running"
    /\ e[2] \in Wide => Extensions \subseteq cpu.isa
    /\ process' = CASE slot[e] = NULL -> "segv"
                    [] slot[e] # NULL /\ ~(Needs(slot[e]) \subseteq cpu.isa) -> "sigill"
                    [] OTHER -> "running"
    /\ UNCHANGED <<cpu, build, phase, i, v, arch_ver, slot>>

Next == Constructor \/ \E e \in Called : Call(e)

\* The dynamic loader runs constructors to their end; nobody has to call.
Spec == Init /\ [][Next]_vars /\ WF_vars(Constructor)

-----------------------------------------------------------------------------
(* Properties.                                                             *)

TypeOK ==
    /\ cpu \in Cpus /\ build \in Builds
    /\ phase \in {"loaded", "iface_init", "fixup", "ready"}
    /\ i \in 0 .. C_AMD_LAST_ENTRY
    /\ phase = "fixup" => i < C_AMD_LAST_ENTRY
    /\ v \in -1 .. ALM_FUNC_VAR_MAX - 1
    /\ arch_ver \in UarchVersions
    /\ slot \in [Slots -> Impl \cup {NULL}]
    /\ process \in {"running", "segv", "sigill"}

\* The minimum requirement of a statically dispatched library
\* (docs/CMakeBuildSystem.md, "Static Dispatch Configuration").
Supported == build \in {"ZEN4", "ZEN5", "AVX512"} => Extensions \subseteq cpu.isa

\* The dispatcher never puts code in a slot that the processor cannot run,
\* whatever row it fell back to; 512-bit slots are for AVX-512 programs only.
RunnableSlots ==
    Supported => \A e \in Slots :
        slot[e] # NULL /\ (e[2] \in Wide => Extensions \subseteq cpu.isa)
            => Needs(slot[e]) \subseteq cpu.isa

\* A process on a supported machine never dies of an illegal instruction in
\* the library, however its calls interleave with the constructor.
NeverSigill == Supported => process # "sigill"

\* A jump through NULL needs a call that ran before the constructor ended, or
\* an exported function that no initializer fills.
OnlyEarlyCallsFault ==
    [][\A e \in Called \cap Filled : phase = "ready" /\ Call(e) => process' # "segv"]_vars

\* Slots are bound once and for all and all functions of the initializer table
\* are bound when the constructor returns: a thread that calls during the load
\* can only see NULL or the final implementation.
EP == INSTANCE EntryPoints WITH
        Points <- Slots, Promised <- Filled, Code <- Impl, Unbound <- NULL,
        binding <- slot, published <- (phase = "ready")

BindsOnce == EP!Spec

\* What src/entry_pt_map.c says of its list of exported names ("The functions
\* will be mapped as amd_<func_name>"): a loaded library has code behind every
\* exported name.  The two slots of remainder_piby2 contradict it.
ExportsCallable == phase = "ready" => \A e \in Slots : slot[e] # NULL

\* The constructor ends unless a caller brought the process down first.
EventuallyReady == <>(phase = "ready" \/ process # "running")

=============================================================================
