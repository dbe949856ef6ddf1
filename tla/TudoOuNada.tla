----------------------------- MODULE TudoOuNada -----------------------------
(***************************************************************************)
(* What a use case is promised by packages/database: the writes of one     *)
(* unit of work are stored together or not at all, nothing is added to it  *)
(* once it is stored or undone, and whoever is answered "ok" has lost no   *)
(* write, nor will lose one.                                               *)
(***************************************************************************)
CONSTANTS Pedidos,    \* the requests
          Linhas      \* the rows they may write: pedido, unidade and a number

VARIABLES banco,      \* rows stored
          pendentes,  \* rows written and not stored yet
          perdidas,   \* rows that were undone
          resposta    \* resposta[p]: "nenhuma", "ok" or "erro"

tvars == <<banco, pendentes, perdidas, resposta>>

Unidade(l) == <<l.pedido, l.unidade>>

DaUnidade(S, u) == {l \in S : Unidade(l) = u}

Init == /\ banco = {} /\ pendentes = {} /\ perdidas = {}
        /\ resposta = [p \in Pedidos |-> "nenhuma"]

\* A row of a unit that is open, for somebody who may still be told of a failure.
Escrever(l) ==
    /\ l \notin banco \union pendentes \union perdidas
    /\ DaUnidade(banco \union perdidas, Unidade(l)) = {}
    /\ resposta[l.pedido] # "ok"
    /\ pendentes' = pendentes \union {l}
    /\ UNCHANGED <<banco, perdidas, resposta>>

\* The whole of a unit, whether or not its author is told.
Efetivar(u) ==
    /\ DaUnidade(pendentes, u) # {}
    /\ banco' = banco \union DaUnidade(pendentes, u)
    /\ pendentes' = pendentes \ DaUnidade(pendentes, u)
    /\ UNCHANGED <<perdidas, resposta>>

\* Whole units fail, all of them at once when the process dies.  The failure of
\* one may be what its author answers.
Desfazer ==
    /\ pendentes' \in SUBSET pendentes
    /\ \A l \in pendentes \ pendentes' : DaUnidade(pendentes', Unidade(l)) = {}
    /\ perdidas' = perdidas \union (pendentes \ pendentes')
    /\ UNCHANGED banco
    /\ \/ UNCHANGED resposta
       \/ \E p \in Pedidos : /\ resposta[p] = "nenhuma"
                             /\ resposta' = [resposta EXCEPT ![p] = "erro"]

Responder(p) ==
    /\ resposta[p] = "nenhuma"
    /\ \A l \in pendentes \union perdidas : l.pedido # p
    /\ resposta' = [resposta EXCEPT ![p] = "ok"]
    /\ UNCHANGED <<banco, pendentes, perdidas>>

Next == \/ \E l \in Linhas : Escrever(l)
        \/ \E u \in {Unidade(l) : l \in Linhas} : Efetivar(u)
        \/ Desfazer
        \/ \E p \in Pedidos : Responder(p)

Spec == Init /\ [][Next]_tvars

-----------------------------------------------------------------------------
\* What follows from the promise: a unit is stored, pending or undone, and no two
\* of these in part; the rows of who was answered "ok" are all stored.
Atomica ==
    /\ \A l \in banco : DaUnidade(pendentes \union perdidas, Unidade(l)) = {}
    /\ \A l \in perdidas : DaUnidade(pendentes, Unidade(l)) = {}
    /\ \A l \in pendentes \union perdidas : resposta[l.pedido] # "ok"
=============================================================================
