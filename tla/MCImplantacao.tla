---------------------------- MODULE MCImplantacao ----------------------------
(* A small instance of Implantacao: the migrations of the repository, in the *)
(* image that has them all, in the one before the newest file and in one     *)
(* with a file edited after it was published.                                *)
EXTENDS Implantacao

Publicada == [n \in DOMAIN Migracoes |-> <<Migracoes[n], 1>>]

Editada == [Publicada EXCEPT ![3] = <<Migracoes[3], 2>>]

Anterior == SelectSeq(Publicada, LAMBDA x : x[1] # <<"tenancy", "0002">>)

AsImagens == {Publicada, Editada, Anterior}

OsPedidos == {{}, {"crm"}, {"crm-v2"}}

Simetria == Permutations(Deploys) \union Permutations(Operadores)
              \union Permutations(Slugs) \union Permutations(Emails)
=============================================================================
