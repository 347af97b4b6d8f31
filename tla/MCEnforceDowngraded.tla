------------------------ MODULE MCEnforceDowngraded ------------------------
(***************************************************************************)
(* Small instances of EnforceDowngraded: two names and three architectures.*)
(***************************************************************************)
EXTENDS EnforceDowngraded

P(n, a, v) == [name |-> n, arch |-> a, evr |-> v]

\* Package l requires nothing, the others of the repository require it.
MCRequires(p, r) == {r[i] : i \in {j \in 1..Len(r) : r[j].name = "l" /\ p.name # "l"}}

MCInstalls ==
    { {P("k", "x86_64", 2), P("l", "x86_64", 1)},
      {P("k", "x86_64", 2), P("k", "i686", 2), P("l", "noarch", 2)},
      {P("k", "noarch", 2), P("m", "x86_64", 2)} }
MCRepos ==
    { <<P("k", "x86_64", 1), P("k", "x86_64", 0), P("l", "x86_64", 1)>>,
      <<P("k", "x86_64", 1), P("k", "i686", 3), P("k", "x86_64", 3), P("l", "noarch", 1)>>,
      <<P("k", "noarch", 1), P("l", "noarch", 1), P("m", "x86_64", 1)>> }
=============================================================================
