---------------------------- MODULE EntryPoints ----------------------------
(***************************************************************************)
(* What the dispatch layer promises the rest of the process: each entry    *)
(* point is bound once, to some implementation, and never moved; after the *)
(* library has been published every promised entry point is bound and      *)
(* nothing changes any more.                                               *)
(***************************************************************************)
CONSTANTS
    Points,    \* the entry points of the library
    Promised,  \* those that must be bound when the library is published
    Code,      \* implementations
    Unbound    \* what an entry point holds before it is bound

VARIABLES binding, published

vars == <<binding, published>>

Init ==
    /\ binding = [p \in Points |-> Unbound]
    /\ published = FALSE

Bind(p) ==
    /\ ~published
    /\ binding[p] = Unbound
    /\ binding'[p] \in Code
    /\ binding' = [binding EXCEPT ![p] = binding'[p]]
    /\ UNCHANGED published

Publish ==
    /\ ~published
    /\ \A p \in Promised : binding[p] # Unbound
    /\ published' = TRUE
    /\ UNCHANGED binding

Next == Publish \/ \E p \in Points : Bind(p)

Spec == Init /\ [][Next]_vars

=============================================================================
