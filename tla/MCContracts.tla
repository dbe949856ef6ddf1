---------------------------- MODULE MCContracts -----------------------------
(* A small instance of Contracts: one proposal and its contract.           *)
EXTENDS Contracts, TLC

Simetria == Permutations(Contratos) \union Permutations(Sessoes)
               \union Permutations(Escriventes) \union Permutations(Listas \ {SemItens})
=============================================================================
