----------------------------- MODULE MCSessions -----------------------------
(* A small instance of Sessions: two tabs and two requests at a time.      *)
EXTENDS Sessions, TLC

Simetria == Permutations(Abas) \union Permutations(Requisicoes)
=============================================================================
