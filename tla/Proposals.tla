------------------------------ MODULE Proposals ------------------------------
(***************************************************************************)
(* The commercial module (modules/commercial): proposals and their items.  *)
(*                                                                         *)
(* findById reads the header and the items with two statements of one      *)
(* READ COMMITTED transaction, so another request may commit between them: *)
(* a request reads in two steps.  It then decides in memory, and save      *)
(* writes header and items together, whatever the row has become, with the *)
(* event of the use case in the same transaction.                          *)
(***************************************************************************)
EXTENDS Naturals

CONSTANTS
    Propostas,   \* ids of proposals
    Listas,      \* lists of items; a list stands for its total as well
    SemItens,    \* the empty list
    Sessoes,     \* requests being served by the commercial module
    Validades,   \* instants a request may give as validUntil
    MaxTempo,    \* bound of the clock
    Nenhuma      \* "no proposal": not an id

ASSUME ProposalsAssumption ==
    /\ SemItens \in Listas
    /\ Validades \subseteq Nat
    /\ MaxTempo \in Nat
    /\ Nenhuma \notin Propostas

VARIABLES
    agora,       \* the clock
    proposta,    \* proposta[p]: header and items of the stored proposal
    pedido,      \* pedido[s]: the aggregate a request has in memory
    enviadas,    \* history: enviadas[p] = lists announced by proposal.sent
    aprovadas    \* history: aprovadas[p] = lists announced by proposal.approved

pvars == <<proposta, pedido, enviadas, aprovadas>>

-----------------------------------------------------------------------------
Situacoes == {"ausente", "draft", "sent", "accepted", "rejected"}

Linha == [status : Situacoes, itens : Listas, validade : Nat]

Operacoes == {"atualizar", "enviar", "aceitar", "recusar"}

\* lendo: the header is read, the items are not yet.
Pedido == [op : Operacoes \union {"livre"}, lendo : BOOLEAN,
           proposta : Propostas \union {Nenhuma}, itens : Listas, validade : Nat]

Livre == [op |-> "livre", lendo |-> FALSE, proposta |-> Nenhuma,
          itens |-> SemItens, validade |-> 0]

PropostasTypeOK ==
    /\ agora \in Nat
    /\ proposta \in [Propostas -> Linha]
    /\ pedido \in [Sessoes -> Pedido]
    /\ enviadas \in [Propostas -> SUBSET Listas]
    /\ aprovadas \in [Propostas -> SUBSET Listas]

PropostasInit ==
    /\ agora = 0
    /\ proposta = [p \in Propostas |->
                      [status |-> "ausente", itens |-> SemItens, validade |-> 0]]
    /\ pedido = [s \in Sessoes |-> Livre]
    /\ enviadas = [p \in Propostas |-> {}]
    /\ aprovadas = [p \in Propostas |-> {}]

-----------------------------------------------------------------------------
(* Reading and deciding.                                                   *)

\* Proposal.create.
Rascunho(itens, v) == [status |-> "draft", itens |-> itens, validade |-> v]

\* CreateProposalUseCase: a new id and number, a draft with any items.  The
\* validity was still to come when the request looked at the clock.
Criar(p, itens, v) ==
    /\ proposta[p].status = "ausente"
    /\ v > 0
    /\ proposta' = [proposta EXCEPT ![p] = Rascunho(itens, v)]
    /\ UNCHANGED <<agora, pedido, enviadas, aprovadas>>

\* Mutant of StatusExigido: a draft can be rejected.
StatusExigidoSemEnvio(op) == IF op = "aceitar" THEN "sent" ELSE "draft"

\* The status on which exigirRascunho and exigirDecidivel insist.
StatusExigido(op) == IF op \in {"atualizar", "enviar"} THEN "draft" ELSE "sent"

\* exigirProposta, first statement of findById.  A request whose status the
\* aggregate will refuse changes nothing, and is left out.
LerCabecalho(s, p, op) ==
    /\ pedido[s].op = "livre"
    /\ proposta[p].status = StatusExigido(op)
    /\ pedido' = [pedido EXCEPT ![s] =
          [op |-> op, lendo |-> TRUE, proposta |-> p, itens |-> SemItens,
           validade |-> proposta[p].validade]]
    /\ UNCHANGED <<agora, proposta, enviadas, aprovadas>>

\* The second statement brings the items as they are now, then the aggregate
\* decides: itens and v are what it will have saved.
Decidir(s, itens, v) ==
    /\ pedido[s].lendo
    /\ pedido' = [pedido EXCEPT ![s].lendo = FALSE,
                                ![s].itens = itens, ![s].validade = v]
    /\ UNCHANGED <<agora, proposta, enviadas, aprovadas>>

ItensLidos(s) == proposta[pedido[s].proposta].itens

\* atualizarCabecalho and replaceItems: each part is given or kept.
DecidirAtualizacao(s) ==
    /\ pedido[s].op = "atualizar"
    /\ \E itens \in Listas :
       \E v \in {pedido[s].validade} \union {x \in Validades : x > agora} :
          Decidir(s, itens, v)

\* send(): items, and a validity still to come.
DecidirEnvio(s) ==
    /\ pedido[s].op = "enviar"
    /\ ItensLidos(s) # SemItens
    /\ pedido[s].validade > agora
    /\ Decidir(s, ItensLidos(s), pedido[s].validade)

\* accept() and reject(): not expired.
DecidirResposta(s) ==
    /\ pedido[s].op \in {"aceitar", "recusar"}
    /\ pedido[s].validade > agora
    /\ Decidir(s, ItensLidos(s), pedido[s].validade)

-----------------------------------------------------------------------------
(* Saving.                                                                 *)

\* save: the header is updated and the items are replaced by those in memory.
Salvar(s, st) ==
    /\ pedido[s].op # "livre" /\ ~pedido[s].lendo
    /\ proposta' = [proposta EXCEPT ![pedido[s].proposta] =
          [status |-> st, itens |-> pedido[s].itens, validade |-> pedido[s].validade]]
    /\ pedido' = [pedido EXCEPT ![s] = Livre]
    /\ UNCHANGED agora

\* Mutant of GravarAtualizacao: the save leaves the status column alone.
GravarAtualizacaoSemStatus(s) ==
    /\ pedido[s].op = "atualizar"
    /\ Salvar(s, proposta[pedido[s].proposta].status)
    /\ UNCHANGED <<enviadas, aprovadas>>

\* UpdateProposalUseCase: status is saved as it was read, draft.
GravarAtualizacao(s) ==
    /\ pedido[s].op = "atualizar"
    /\ Salvar(s, "draft")
    /\ UNCHANGED <<enviadas, aprovadas>>

\* SendProposalUseCase: commercial.proposal.sent carries the total.
GravarEnvio(s) ==
    /\ pedido[s].op = "enviar"
    /\ Salvar(s, "sent")
    /\ enviadas' = [enviadas EXCEPT ![pedido[s].proposta] = @ \union {pedido[s].itens}]
    /\ UNCHANGED aprovadas

\* DecideProposalUseCase, accepting: commercial.proposal.approved.
GravarAceite(s) ==
    /\ pedido[s].op = "aceitar"
    /\ Salvar(s, "accepted")
    /\ aprovadas' = [aprovadas EXCEPT ![pedido[s].proposta] = @ \union {pedido[s].itens}]
    /\ UNCHANGED enviadas

\* DecideProposalUseCase, rejecting.
GravarRecusa(s) ==
    /\ pedido[s].op = "recusar"
    /\ Salvar(s, "rejected")
    /\ UNCHANGED <<enviadas, aprovadas>>

\* The request ends without a save: refused, or failed and rolled back.
Abandonar(s) ==
    /\ pedido[s].op # "livre"
    /\ pedido' = [pedido EXCEPT ![s] = Livre]
    /\ UNCHANGED <<agora, proposta, enviadas, aprovadas>>

Tique ==
    /\ agora < MaxTempo
    /\ agora' = agora + 1
    /\ UNCHANGED pvars

PropostasNext ==
    \/ Tique
    \/ \E p \in Propostas : \E itens \in Listas, v \in Validades : Criar(p, itens, v)
    \/ \E s \in Sessoes :
          \/ \E p \in Propostas, op \in Operacoes : LerCabecalho(s, p, op)
          \/ DecidirAtualizacao(s) \/ DecidirEnvio(s) \/ DecidirResposta(s)
          \/ GravarAtualizacao(s) \/ GravarEnvio(s)
          \/ GravarAceite(s) \/ GravarRecusa(s)
          \/ Abandonar(s)

-----------------------------------------------------------------------------
(* Properties.                                                             *)

\* While the stored proposal reads as sent or accepted, its items are those an
\* event of that name announced: an update that was read earlier and is saved
\* later replaces status and items together, never one of them.
LinhaAnunciada ==
    \A p \in Propostas :
        /\ proposta[p].status = "sent" => proposta[p].itens \in enviadas[p]
        /\ proposta[p].status = "accepted" => proposta[p].itens \in aprovadas[p]

\* No proposal is approved or rejected that was not sent before, and none is
\* sent without items.
RespostaDepoisDoEnvio ==
    \A p \in Propostas :
        /\ SemItens \notin enviadas[p]
        /\ aprovadas[p] # {} \/ proposta[p].status = "rejected" => enviadas[p] # {}

-----------------------------------------------------------------------------
(* The part of the inductive invariant of the proofs.                      *)

\* What a request in flight remembers: it answers a proposal that was sent,
\* and what it is about to send has items.
PedidoBom(s) ==
    pedido[s].op # "livre" =>
        /\ pedido[s].proposta \in Propostas
        /\ proposta[pedido[s].proposta].status # "ausente"
        /\ pedido[s].op \in {"aceitar", "recusar"} => enviadas[pedido[s].proposta] # {}
        /\ pedido[s].op = "enviar" /\ ~pedido[s].lendo => pedido[s].itens # SemItens

PropostasInv == /\ PropostasTypeOK
                /\ LinhaAnunciada
                /\ RespostaDepoisDoEnvio
                /\ \A s \in Sessoes : PedidoBom(s)

-----------------------------------------------------------------------------
(* What the code's own comments say and the model refutes.                 *)

\* The items of a proposal that was sent no longer change.
EnviadaNaoMuda ==
    [][\A p \in Propostas :
          proposta[p].status = "sent" => proposta'[p].itens = proposta[p].itens]_<<agora, pvars>>
=============================================================================
