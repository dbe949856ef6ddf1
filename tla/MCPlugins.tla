----------------------------- MODULE MCPlugins ------------------------------
(* A small instance of Plugins: two required secrets and one nobody asks.  *)
EXTENDS Plugins, TLC

Simetria == Permutations(Chamadas) \union Permutations(Exigidas)
=============================================================================
