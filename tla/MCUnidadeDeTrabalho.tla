------------------------- MODULE MCUnidadeDeTrabalho -------------------------
EXTENDS UnidadeDeTrabalho, TLC

CONSTANTS p1, p2

\* A unit inside a unit with a write in each, beside a request with one call or an
\* empty unit.
Orcamento == p1 :> 4 @@ p2 :> 1
=============================================================================
