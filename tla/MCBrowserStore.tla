--------------------------- MODULE MCBrowserStore ---------------------------
(* Model-checking instances of BrowserStore: the databases a former session *)
(* left, and the symmetry of the calls.                                     *)
EXTENDS BrowserStore, TLC

CONSTANTS r1, r2, a1, b1, m1

Passageway == Aqueduct(r1, r2)

\* A palace with its Agent and a mythos, two rooms, an avatar in the first
\* and one walk from the first to the second.
Furnished ==
    {<<"table", s>> : s \in Schema}
        \cup {<<"node", n>> : n \in {Palace, Oracle, m1, r1, r2, a1, Passageway,
                                      Birth(Passageway), <<r1, r2, 0>>}}
        \cup {<<"MYTHOS_HEAD", Palace, m1>>, <<"head", Palace, m1>>}
        \cup {<<"CONTAINS", Palace, r1>>, <<"CONTAINS", Palace, r2>>,
              <<"CONTAINS", r1, a1>>, <<"LIVES_IN", a1, r1>>}
        \cup {<<"AQUEDUCT_FROM", Passageway, r1>>, <<"AQUEDUCT_TO", Passageway, r2>>,
              <<"strength", Passageway, 1>>}
        \cup {<<"source", a1, b1>>, <<"revision", a1, 0>>, <<"orphaned", a1, FALSE>>}

FirstOrLater == {{}, Furnished}
Later == {Furnished}

ClickSymmetry == Permutations(Clicks)

=============================================================================
