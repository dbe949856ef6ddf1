----------------------------- MODULE MCRentals ------------------------------
(* A small instance of Rentals: the contract runs over the whole clock.    *)
EXTENDS Rentals, TLC
CONSTANTS k1

MCInicioDo == [c \in Contratos |-> 0]
MCFimDo == [c \in Contratos |-> MaxTempo]
Simetria == Permutations(Bloqueios) \union Permutations(Locacoes)
               \union Permutations(Sessoes) \union Permutations(Operadores)
=============================================================================
