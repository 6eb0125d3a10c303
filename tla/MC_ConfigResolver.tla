------------------------- MODULE MC_ConfigResolver -------------------------
(***************************************************************************)
(* Model-checking instances of ConfigResolver.  Two of the five profile    *)
(* aspects stand for all of them (the lookup treats every layer alike;     *)
(* two are what an ambiguity needs).  A list is five distinct scalars, so *)
(* each load picks out a different entry; 75 is a load outside DELAYS.    *)
(***************************************************************************)
EXTENDS ConfigResolver, TLC

CONSTANTS L4, L5, L6, p1, p2

MCAspects  == <<"INPUT", "BUFFER", "LOAD", "ALPHA">>
MCScalars  == {"x", "y"}
\* A list of the length DELAYS has.
MCLists5   == L5 :> <<"a", "b", "c", "d", "e">>
\* Lists one shorter and one longer than DELAYS.
MCListsOff == (L4 :> <<"a", "b", "c", "d">>)
                @@ (L6 :> <<"a", "b", "c", "d", "e", "f">>)
\* Documents in which no key is defined by the profiles of two aspects: the
\* configurations written without the authoring mistake ambiguity reports.
MCUnambiguousFiles ==
  {f \in [sections : [LayerAspects -> {NoValue} \cup [Defined -> Table]],
          top      : Table] :
     \A k \in Keys : \A a, b \in LayerAspects :
        (/\ a # b
         /\ f.sections[a] # NoValue /\ f.sections[b] # NoValue)
          => \A p \in Defined : f.sections[a][p][k] = NoValue
                              \/ f.sections[b][p][k] = NoValue}
MCLoads    == {90, 50, 75}
MCAlphas   == {150}
=============================================================================
