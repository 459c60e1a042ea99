----------------------------- MODULE MCVecArray -----------------------------
(***************************************************************************)
(* The drivers of ArrayDrivers on arrays of up to two chunks and one       *)
(* element, with every way in which the caller can let arrays coincide.    *)
(***************************************************************************)
EXTENDS VecArray, ArrayDrivers, LinearFrac

MCStreams == {"x", "x2", "r", "r2"}
MCMaxWidth == 16
MCMaxLen == 2 * MCMaxWidth + 1

\* The drivers that test for an empty array, or have no need to.
HandlesEmpty(d) == d.tail = "masked" \/ d.mask # "table"

\* The lengths that take a driver of w lanes through 0, 1 and 2 full chunks and
\* every remainder.
LengthsOf(d) == 0 .. 2 * d.w + 1

AllCalls == UNION {{d} \X LengthsOf(d) : d \in AllDrivers}

\* Empty arrays only where the driver handles them.
MCCalls == {c \in AllCalls : c[2] > 0 \/ HandlesEmpty(c[1])}

\* Values are symbols: an input is its array and index, a result is the
\* application of the function.
SymbolicMem == [b \in Buffers |-> [k \in Index |-> <<b, k>>]]
SymbolicF(o, x) == <<"F", o, x>>

-----------------------------------------------------------------------------
(* What linearfrac is called with decides which of its two loops runs: the *)
(* drivers that have the shape of one get the arguments for it.            *)

SpecialLoops == {vrda_linearfrac_special, vrsa_linearfracf_special}
GeneralLoops == {vrda_linearfrac, vrsa_linearfracf}

ElementsOf(d) ==
    {e \in Elements : d \in SpecialLoops => Special(e)} \cap
    {e \in Elements : d \in GeneralLoops => ~Special(e)}

\* All classes for one element in place, one of them for the other calls.
MCInit ==
    /\ Init
    /\ IF drv \in SpecialLoops \cup GeneralLoops /\ len = 1 /\ \A s \in DOMAIN buf : buf[s] = "A"
       THEN element \in ElementsOf(drv)
       ELSE element = CHOOSE e \in ElementsOf(drv) : TRUE

MCNext == Next /\ UNCHANGED element

MCSpec == MCInit /\ [][MCNext]_<<vars, element>> /\ WF_<<vars, element>>(MCNext)

=============================================================================
