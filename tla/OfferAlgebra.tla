---------------------------- MODULE OfferAlgebra ----------------------------
(***************************************************************************)
(* packages/algebra: interfaces of offers, the operators that wire them,   *)
(* and the port atoms by which two agents find out that they fit.          *)
(***************************************************************************)
EXTENDS FiniteSets

CONSTANT Names      \* port names

Interfaces == [in : SUBSET Names, out : SUBSET Names]

\* fromExposesBinds: what an offer binds it requires, what it exposes it offers.
FromExposesBinds(exposed, bound) == [in |-> bound, out |-> exposed]

\* compose throws unless O1 exposes p and O2 requires it.
Composable(o2, o1, p) == p \in o1.out /\ p \in o2.in

\* Slip: the glue is taken off the whole boundary.
ComposeHiding(o2, o1, p) ==
    [in |-> (o1.in \cup o2.in) \ {p}, out |-> (o2.out \cup o1.out) \ {p}]

Compose(o2, o1, p) ==
    [in |-> o1.in \cup (o2.in \ {p}), out |-> o2.out \cup (o1.out \ {p})]

Parallel(o1, o2) == [in |-> o1.in \cup o2.in, out |-> o1.out \cup o2.out]

Choice(o1, o2) == Parallel(o1, o2)

Hide(o, ports) == [in |-> o.in \ ports, out |-> o.out \ ports]

Rename(o, f) == [in |-> {f[n] : n \in o.in}, out |-> {f[n] : n \in o.out}]

\* applyRenameFamily: names the family does not list pass through.
Renamed(family) == [n \in Names |-> IF n \in DOMAIN family THEN family[n] ELSE n]

\* composeRenameFamilies: g first, then f.
ComposeFamilies(f, g) == [n \in Names |-> Renamed(f)[Renamed(g)[n]]]

\* portAtom and portGlueAtom: SHA-256 over the joined fields, one set of classes.
PortAtom(polarity, name) == <<"port-atom", polarity, name>>
PortGlueAtom(name) == <<"port-glue", name>>

\* structuralComposability, structuralGlueComposability (their intersection).
StructuralIntersection(aOut, bIn) == aOut \cap bIn
GlueIntersection(aOut, bIn) ==
    {PortGlueAtom(n) : n \in aOut} \cap {PortGlueAtom(n) : n \in bIn}
-----------------------------------------------------------------------------
VARIABLE offers     \* three offers whose interfaces are put together

algebraVars == <<offers>>

Families == UNION {[S -> Names] : S \in SUBSET Names}
Injective(f) == \A m, n \in DOMAIN f : f[m] = f[n] => m = n

\* Wiring along a port used once between the two is closing that port in their
\* union; elsewhere the other uses of the name stay on the boundary.
ComposeClosesGlue(o1, o2) ==
    \A p \in Names : Composable(o2, o1, p) =>
        LET o == Compose(o2, o1, p) IN
        /\ p \in o.in <=> p \in o1.in
        /\ p \in o.out <=> p \in o2.out
        /\ Hide(o, {p}) = Hide(Parallel(o1, o2), {p})

\* The order two wires are laid in matters only for a name that has two uses.
ComposeAssociates(o1, o2, o3) ==
    \A p, q \in Names :
        Composable(o2, o1, p) /\ Composable(o3, o2, q)
            /\ (p \notin o3.in \/ p \in o1.in \/ p = q)
            /\ (q \notin o1.out \/ q \in o3.out \/ p = q) =>
        Compose(o3, Compose(o2, o1, p), q) = Compose(Compose(o3, o2, q), o1, p)

\* Renaming with no two names made one commutes with wiring and hiding, and
\* renaming twice is renaming by the composed family.
RenameIsNatural(o1, o2) ==
    \A f \in Families :
        /\ \A g \in Families :
              Rename(Rename(o1, Renamed(g)), Renamed(f)) = Rename(o1, ComposeFamilies(f, g))
        /\ Rename(Parallel(o1, o2), Renamed(f)) =
              Parallel(Rename(o1, Renamed(f)), Rename(o2, Renamed(f)))
        /\ Injective(Renamed(f)) =>
              \A p \in Names : Composable(o2, o1, p) =>
                 Rename(Compose(o2, o1, p), Renamed(f)) =
                 Compose(Rename(o2, Renamed(f)), Rename(o1, Renamed(f)), Renamed(f)[p])

\* The atoms say that two offers fit exactly when some port can be wired, also
\* after a renaming; polarized atoms never do, which is why glue atoms exist.
AtomsFindTheGlue(o1, o2) ==
    /\ \A f \in Families :
          GlueIntersection(Rename(o1, Renamed(f)).out, o2.in) # {} <=>
             \E p \in Names : Composable(o2, Rename(o1, Renamed(f)), p)
    /\ StructuralIntersection({PortAtom("expose", n) : n \in o1.out},
                              {PortAtom("require", n) : n \in o2.in}) = {}

\* The laws hosts rely on when they put offers together and look for partners.
WiringLaws ==
    LET o1 == offers[1] o2 == offers[2] o3 == offers[3] IN
    /\ ComposeClosesGlue(o1, o2)
    /\ ComposeAssociates(o1, o2, o3)
    /\ RenameIsNatural(o1, o2)
    /\ AtomsFindTheGlue(o1, o2)
    /\ \A P \in SUBSET Names :
          Hide(Choice(o1, o2), P) = Choice(Hide(o1, P), Hide(o2, P))
=============================================================================
