-------------------------------- MODULE MCTelas --------------------------------
(* A small instance of Telas: two rows, a person who may do everything, one  *)
(* whose module was cancelled and one who may only read.                     *)
EXTENDS Telas, TLC

Plena == [permissoes |-> {Tudo}, escopos |-> {Tudo}, unidades |-> Modulos]

TresAcessos ==
    { Plena, [Plena EXCEPT !.unidades = {<<"crm">>}],
      [Plena EXCEPT !.permissoes = {<<"commercial", "proposal", "send">>,
                                    <<"contracts", "contract", "read">>,
                                    <<"assets", "asset", "read">>}] }

\* Rows are alike.
Simetria == Permutations(Objetos)
=============================================================================
