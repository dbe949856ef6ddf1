--------------------------- MODULE Contracts_proofs ---------------------------
(***************************************************************************)
(* Theorems about proposals and contracts, for any number of proposals,    *)
(* contracts and requests.  PropostasInv is inductive by itself (contracts *)
(* only read proposals); the invariant of the contracts needs of it only   *)
(* that the sets of announced lists never shrink and that an accepted      *)
(* proposal has been approved.                                             *)
(***************************************************************************)
EXTENDS Contracts, TLAPS

\* What a step of commercial leaves behind for the others: announcements are
\* never taken back.
Cresce == \A p \in Propostas : /\ enviadas[p] \subseteq enviadas'[p]
                               /\ aprovadas[p] \subseteq aprovadas'[p]

\* The initial state of commercial satisfies its invariant.
LEMMA PropostasNoInicio == PropostasInit => PropostasInv
BY ProposalsAssumption
   DEF ProposalsAssumption, PropostasInit, PropostasInv, PropostasTypeOK, Linha, Situacoes,
       Pedido, Operacoes, Livre, LinhaAnunciada, RespostaDepoisDoEnvio, PedidoBom

\* A step that leaves commercial alone keeps its invariant.
LEMMA PropostasParadas ==
    ASSUME PropostasInv, agora' = agora, UNCHANGED pvars
    PROVE  PropostasInv' /\ Cresce
BY DEF PropostasInv, PropostasTypeOK, LinhaAnunciada, RespostaDepoisDoEnvio, PedidoBom,
       pvars, Cresce, ItensLidos

\* Reading steps: only what one request remembers changes.
LEMMA PropostasLidas ==
    ASSUME PropostasInv, NEW s \in Sessoes, UNCHANGED <<agora, proposta, enviadas, aprovadas>>,
           pedido' \in [Sessoes -> Pedido], PedidoBom(s)',
           \A t \in Sessoes \ {s} : pedido'[t] = pedido[t]
    PROVE  PropostasInv' /\ Cresce
<1>1. \A t \in Sessoes : PedidoBom(t)'
  BY DEF PropostasInv, PedidoBom
<1>2. PropostasTypeOK' /\ LinhaAnunciada' /\ RespostaDepoisDoEnvio' /\ Cresce
  BY DEF PropostasInv, PropostasTypeOK, LinhaAnunciada, RespostaDepoisDoEnvio, Cresce
<1>. QED BY <1>1, <1>2 DEF PropostasInv

\* A save: the row becomes what request s decided, and announcements grow
\* with what makes the new status true.
LEMMA PropostasSalvas ==
    ASSUME PropostasInv, NEW s \in Sessoes, NEW st \in Situacoes \ {"ausente"},
           Salvar(s, st), Cresce,
           enviadas' \in [Propostas -> SUBSET Listas],
           aprovadas' \in [Propostas -> SUBSET Listas],
           RespostaDepoisDoEnvio',
           st = "sent" => pedido[s].itens \in enviadas'[pedido[s].proposta],
           st = "accepted" => pedido[s].itens \in aprovadas'[pedido[s].proposta]
    PROVE  PropostasInv'
<1>. DEFINE p == pedido[s].proposta
<1>1. p \in Propostas /\ pedido[s] \in Pedido /\ Livre \in Pedido
  BY ProposalsAssumption
     DEF ProposalsAssumption, PropostasInv, PropostasTypeOK, PedidoBom, Salvar, Pedido, Livre
<1>2. /\ proposta' = [proposta EXCEPT ![p] =
             [status |-> st, itens |-> pedido[s].itens, validade |-> pedido[s].validade]]
      /\ pedido' = [pedido EXCEPT ![s] = Livre] /\ agora' = agora
  BY DEF Salvar
<1>3. PropostasTypeOK'
  BY <1>1, <1>2 DEF PropostasInv, PropostasTypeOK, Linha, Pedido
<1>4. LinhaAnunciada'
  BY <1>1, <1>2 DEF PropostasInv, PropostasTypeOK, Linha, LinhaAnunciada, Cresce
<1>5. ASSUME NEW t \in Sessoes PROVE PedidoBom(t)'
  <2>1. CASE t = s
    BY <2>1, <1>2 DEF PedidoBom, Livre, PropostasInv, PropostasTypeOK
  <2>2. CASE t # s
    <3>1. pedido'[t] = pedido[t]
      BY <2>2, <1>2 DEF PropostasInv, PropostasTypeOK
    <3>2. PedidoBom(t)
      BY DEF PropostasInv
    <3>3. \A q \in Propostas : proposta[q].status # "ausente" => proposta'[q].status # "ausente"
      BY <1>1, <1>2 DEF PropostasInv, PropostasTypeOK, Linha
    <3>. QED BY <3>1, <3>2, <3>3 DEF PedidoBom, Cresce
  <2>. QED BY <2>1, <2>2
<1>. QED BY <1>3, <1>4, <1>5 DEF PropostasInv

\* Every step of commercial keeps its invariant and takes nothing back.
LEMMA PropostasPasso == PropostasInv /\ PropostasNext => PropostasInv' /\ Cresce
<1>. SUFFICES ASSUME PropostasInv, PropostasNext PROVE PropostasInv' /\ Cresce
  OBVIOUS
<1>. USE DEF PropostasInv
<1>1. CASE Tique
  BY <1>1 DEF Tique, pvars, PropostasTypeOK, LinhaAnunciada, RespostaDepoisDoEnvio,
              PedidoBom, Cresce
<1>2. ASSUME NEW p \in Propostas, NEW itens \in Listas, NEW v \in Validades,
             Criar(p, itens, v)
      PROVE  PropostasInv' /\ Cresce
  <2>1. PropostasTypeOK'
    BY <1>2, ProposalsAssumption
       DEF Criar, Rascunho, PropostasTypeOK, Linha, Situacoes, ProposalsAssumption
  <2>2. LinhaAnunciada' /\ RespostaDepoisDoEnvio' /\ Cresce
    BY <1>2 DEF Criar, Rascunho, PropostasTypeOK, LinhaAnunciada, RespostaDepoisDoEnvio, Cresce
  <2>3. \A t \in Sessoes : PedidoBom(t)'
    BY <1>2 DEF Criar, Rascunho, PropostasTypeOK, PedidoBom
  <2>. QED BY <2>1, <2>2, <2>3
<1>3. ASSUME NEW s \in Sessoes, NEW p \in Propostas, NEW op \in Operacoes,
             LerCabecalho(s, p, op)
      PROVE  PropostasInv' /\ Cresce
  <2>1. pedido' \in [Sessoes -> Pedido]
    BY <1>3, ProposalsAssumption
       DEF LerCabecalho, PropostasTypeOK, Pedido, Linha, ProposalsAssumption
  <2>2. PedidoBom(s)'
    BY <1>3 DEF LerCabecalho, PropostasTypeOK, PedidoBom, StatusExigido,
                LinhaAnunciada, Operacoes, Linha
  <2>. QED BY <2>1, <2>2, <1>3, PropostasLidas DEF LerCabecalho, PropostasTypeOK
<1>4. ASSUME NEW s \in Sessoes, NEW itens \in Listas, NEW v \in Nat, Decidir(s, itens, v),
             pedido[s].op # "livre",
             pedido[s].op = "enviar" => itens # SemItens
      PROVE  PropostasInv' /\ Cresce
  <2>1. pedido' \in [Sessoes -> Pedido]
    BY <1>4 DEF Decidir, PropostasTypeOK, Pedido
  <2>2. PedidoBom(s)'
    BY <1>4 DEF Decidir, PropostasTypeOK, PedidoBom, Pedido
  <2>. QED BY <2>1, <2>2, <1>4, PropostasLidas DEF Decidir, PropostasTypeOK
<1>5. ASSUME NEW s \in Sessoes, DecidirAtualizacao(s) PROVE PropostasInv' /\ Cresce
  <2>1. PICK itens \in Listas, v \in {pedido[s].validade} \union {x \in Validades : x > agora} :
           Decidir(s, itens, v)
    BY <1>5 DEF DecidirAtualizacao
  <2>2. v \in Nat
    BY ProposalsAssumption DEF ProposalsAssumption, PropostasTypeOK, Pedido
  <2>. QED BY <1>5, <2>1, <2>2, <1>4 DEF DecidirAtualizacao
<1>6. ASSUME NEW s \in Sessoes, DecidirEnvio(s) \/ DecidirResposta(s)
      PROVE  PropostasInv' /\ Cresce
  <2>1. /\ Decidir(s, ItensLidos(s), pedido[s].validade)
        /\ pedido[s].op # "livre"
        /\ pedido[s].op = "enviar" => ItensLidos(s) # SemItens
    BY <1>6 DEF DecidirEnvio, DecidirResposta
  <2>2. ItensLidos(s) \in Listas /\ pedido[s].validade \in Nat
    BY <2>1 DEF ItensLidos, PropostasTypeOK, Pedido, Linha, PedidoBom
  <2>. QED BY <2>1, <2>2, <1>4
<1>7. ASSUME NEW s \in Sessoes,
             GravarAtualizacao(s) \/ GravarEnvio(s) \/ GravarAceite(s) \/ GravarRecusa(s)
      PROVE  pedido[s].proposta \in Propostas /\ pedido[s].itens \in Listas
  BY <1>7 DEF GravarAtualizacao, GravarEnvio, GravarAceite, GravarRecusa, Salvar,
              PropostasTypeOK, PedidoBom, Pedido
<1>8. ASSUME NEW s \in Sessoes, GravarAtualizacao(s) PROVE PropostasInv' /\ Cresce
  <2>1. Salvar(s, "draft") /\ Cresce
    BY <1>8 DEF GravarAtualizacao, Cresce
  <2>2. RespostaDepoisDoEnvio'
    BY <1>8, <1>7 DEF GravarAtualizacao, Salvar, RespostaDepoisDoEnvio, PropostasTypeOK
  <2>. QED BY <1>8, <2>1, <2>2, PropostasSalvas DEF GravarAtualizacao, PropostasTypeOK, Situacoes
<1>9. ASSUME NEW s \in Sessoes, GravarEnvio(s) PROVE PropostasInv' /\ Cresce
  <2>1. Salvar(s, "sent") /\ Cresce /\ enviadas' \in [Propostas -> SUBSET Listas]
    BY <1>9, <1>7 DEF GravarEnvio, Cresce, PropostasTypeOK
  <2>2. pedido[s].itens # SemItens
    BY <1>9 DEF GravarEnvio, Salvar, PedidoBom
  <2>3. RespostaDepoisDoEnvio'
    BY <1>9, <1>7, <2>2 DEF GravarEnvio, Salvar, RespostaDepoisDoEnvio, PropostasTypeOK
  <2>. QED BY <1>9, <1>7, <2>1, <2>3, PropostasSalvas DEF GravarEnvio, PropostasTypeOK, Situacoes
<1>10. ASSUME NEW s \in Sessoes, GravarAceite(s) PROVE PropostasInv' /\ Cresce
  <2>1. Salvar(s, "accepted") /\ Cresce /\ aprovadas' \in [Propostas -> SUBSET Listas]
    BY <1>10, <1>7 DEF GravarAceite, Cresce, PropostasTypeOK
  <2>2. enviadas[pedido[s].proposta] # {}
    BY <1>10 DEF GravarAceite, PedidoBom
  <2>3. RespostaDepoisDoEnvio'
    BY <1>10, <1>7, <2>2 DEF GravarAceite, Salvar, RespostaDepoisDoEnvio, PropostasTypeOK
  <2>. QED BY <1>10, <1>7, <2>1, <2>3, PropostasSalvas DEF GravarAceite, PropostasTypeOK, Situacoes
<1>11. ASSUME NEW s \in Sessoes, GravarRecusa(s) PROVE PropostasInv' /\ Cresce
  <2>1. Salvar(s, "rejected") /\ Cresce
    BY <1>11 DEF GravarRecusa, Cresce
  <2>2. enviadas[pedido[s].proposta] # {}
    BY <1>11 DEF GravarRecusa, PedidoBom
  <2>3. RespostaDepoisDoEnvio'
    BY <1>11, <1>7, <2>2 DEF GravarRecusa, Salvar, RespostaDepoisDoEnvio, PropostasTypeOK
  <2>. QED BY <1>11, <2>1, <2>3, PropostasSalvas DEF GravarRecusa, PropostasTypeOK, Situacoes
<1>12. ASSUME NEW s \in Sessoes, Abandonar(s) PROVE PropostasInv' /\ Cresce
  <2>1. pedido' \in [Sessoes -> Pedido]
    BY <1>12, ProposalsAssumption
       DEF Abandonar, PropostasTypeOK, Pedido, Livre, ProposalsAssumption
  <2>2. PedidoBom(s)'
    BY <1>12 DEF Abandonar, PropostasTypeOK, PedidoBom, Livre
  <2>. QED BY <2>1, <2>2, <1>12, PropostasLidas DEF Abandonar, PropostasTypeOK
<1>. QED BY <1>1, <1>2, <1>3, <1>5, <1>6, <1>8, <1>9, <1>10, <1>11, <1>12 DEF PropostasNext

-----------------------------------------------------------------------------
(* Contracts.                                                              *)

\* The part of Inv that speaks of contracts.
ContratosInv == /\ contrato \in [Contratos -> LinhaDeContrato]
                /\ tarefa \in [Escriventes -> Tarefa]
                /\ eventos \in [Contratos -> SUBSET Destinos]
                /\ UmContratoPorProposta
                /\ NasceDeAprovacao
                /\ SituacaoAnunciada
                /\ \A c \in Contratos : ContratoBom(c)
                /\ \A o \in Escriventes : TarefaBoa(o)

\* Inv is the invariant of commercial and that of contracts.
LEMMA InvEmPartes == Inv <=> PropostasInv /\ ContratosInv
BY DEF Inv, TypeOK, PropostasInv, ContratosInv

\* Both hold at the start.
LEMMA InvNoInicio == Init => Inv
<1>. SUFFICES ASSUME Init PROVE PropostasInv /\ ContratosInv
  BY InvEmPartes
<1>1. PropostasInv
  BY PropostasNoInicio DEF Init
<1>2. ContratosInv
  BY ProposalsAssumption, ContractsAssumption
     DEF ProposalsAssumption, ContractsAssumption, Init, ContratosInv, LinhaDeContrato,
         SemContrato, Tarefa, SemTarefa, Destinos, UmContratoPorProposta, NasceDeAprovacao,
         SituacaoAnunciada, ContratoBom, TarefaBoa, Existe
<1>. QED BY <1>1, <1>2

\* Whatever commercial does, contracts that stand still stay good.
LEMMA ContratosParados ==
    ASSUME ContratosInv, Cresce, UNCHANGED cvars
    PROVE  ContratosInv'
<1>1. NasceDeAprovacao'
  BY DEF ContratosInv, NasceDeAprovacao, ContratoBom, Existe, cvars, Cresce
<1>2. ASSUME NEW o \in Escriventes PROVE TarefaBoa(o)'
  BY DEF ContratosInv, TarefaBoa, Existe, cvars, Cresce
<1>. QED BY <1>1, <1>2 DEF ContratosInv, UmContratoPorProposta, SituacaoAnunciada,
                           ContratoBom, Existe, cvars

\* Reading steps and given-up requests: one request changes its memory.
LEMMA ContratosLidos ==
    ASSUME ContratosInv, NEW o \in Escriventes, UNCHANGED <<pvars, contrato, eventos>>,
           NEW t \in Tarefa, tarefa' = [tarefa EXCEPT ![o] = t], TarefaBoa(o)'
    PROVE  ContratosInv'
<1>1. ASSUME NEW q \in Escriventes PROVE TarefaBoa(q)'
  <2>1. CASE q = o
    BY <2>1
  <2>2. CASE q # o
    BY <2>2 DEF ContratosInv, TarefaBoa, Existe, pvars
  <2>. QED BY <2>1, <2>2
<1>. QED BY <1>1 DEF ContratosInv, UmContratoPorProposta, SituacaoAnunciada,
                     NasceDeAprovacao, ContratoBom, Existe, pvars

\* Forgetting is always safe.
LEMMA TarefaVazia ==
    ASSUME NEW o \in Escriventes, tarefa \in [Escriventes -> Tarefa], Concluida(o)
    PROVE  SemTarefa \in Tarefa /\ TarefaBoa(o)'
BY ProposalsAssumption
   DEF ProposalsAssumption, Concluida, SemTarefa, Tarefa, TarefaBoa, Destinos

\* The insert of a contract: unique by its proposal, which was approved.
LEMMA ContratosFormalizados ==
    ASSUME Inv, NEW o \in Escriventes, NEW c \in Contratos, GravarFormalizacao(o, c)
    PROVE  ContratosInv'
<1>. DEFINE p == tarefa[o].proposta
<1>1. /\ p \in Propostas /\ aprovadas[p] # {} /\ enviadas[p] # {}
      /\ tarefa[o] \in Tarefa /\ contrato[c].status = "ausente"
  BY DEF Inv, TypeOK, TarefaBoa, PropostasInv, RespostaDepoisDoEnvio, GravarFormalizacao, Inserir
<1>2. /\ contrato' = [contrato EXCEPT ![c] =
             [status |-> "draft", proposta |-> p, valor |-> tarefa[o].valor, fim |-> tarefa[o].fim]]
      /\ Concluida(o) /\ eventos' = eventos /\ UNCHANGED pvars
  BY DEF GravarFormalizacao, Inserir
<1>3. /\ contrato' \in [Contratos -> LinhaDeContrato]
      /\ tarefa' \in [Escriventes -> Tarefa]
      /\ eventos' \in [Contratos -> SUBSET Destinos]
  BY <1>1, <1>2, TarefaVazia DEF Inv, TypeOK, LinhaDeContrato, Tarefa, Concluida
<1>4. UmContratoPorProposta'
  BY <1>1, <1>2 DEF Inv, TypeOK, UmContratoPorProposta, Existe, GravarFormalizacao, Formalizada
<1>5. NasceDeAprovacao'
  BY <1>1, <1>2 DEF Inv, TypeOK, NasceDeAprovacao, Existe, pvars
<1>6. SituacaoAnunciada'
  BY <1>1, <1>2 DEF Inv, TypeOK, SituacaoAnunciada, Destinos, ContratoBom
<1>7. \A d \in Contratos : ContratoBom(d)'
  BY <1>1, <1>2 DEF Inv, TypeOK, ContratoBom, Existe
<1>8. ASSUME NEW q \in Escriventes PROVE TarefaBoa(q)'
  <2>1. CASE q = o
    BY <2>1, <1>2, TarefaVazia DEF Inv, TypeOK
  <2>2. CASE q # o
    BY <2>2, <1>1, <1>2 DEF Inv, TypeOK, TarefaBoa, Existe, Concluida, pvars
  <2>. QED BY <2>1, <2>2
<1>. QED BY <1>3, <1>4, <1>5, <1>6, <1>7, <1>8 DEF ContratosInv

\* The save of an activation or a closing, on whatever the row has become.
LEMMA ContratosGravados ==
    ASSUME Inv, NEW o \in Escriventes, GravarSituacao(o)
    PROVE  ContratosInv'
<1>. DEFINE c == tarefa[o].contrato
            op == tarefa[o].op
<1>1. /\ op \in Destinos /\ c \in Contratos /\ Existe(c)
      /\ op # "active" => "active" \in eventos[c]
  BY DEF Inv, TarefaBoa, GravarSituacao, SalvarSituacao, Destinos
<1>2. /\ contrato' = [contrato EXCEPT ![c].status = op]
      /\ eventos' = [eventos EXCEPT ![c] = @ \union {op}]
      /\ Concluida(o) /\ UNCHANGED pvars
  BY DEF GravarSituacao, SalvarSituacao
<1>3. /\ contrato' \in [Contratos -> LinhaDeContrato]
      /\ tarefa' \in [Escriventes -> Tarefa]
      /\ eventos' \in [Contratos -> SUBSET Destinos]
  BY <1>1, <1>2, TarefaVazia DEF Inv, TypeOK, LinhaDeContrato, Concluida, Destinos
<1>4. \A d \in Contratos : /\ contrato'[d].proposta = contrato[d].proposta
                           /\ Existe(d)' <=> Existe(d)
                           /\ eventos[d] \subseteq eventos'[d]
  BY <1>1, <1>2 DEF Inv, TypeOK, LinhaDeContrato, Existe, Destinos
<1>5. UmContratoPorProposta' /\ NasceDeAprovacao'
  BY <1>2, <1>4 DEF Inv, UmContratoPorProposta, NasceDeAprovacao, pvars
<1>6. SituacaoAnunciada'
  BY <1>1, <1>2 DEF Inv, TypeOK, SituacaoAnunciada, LinhaDeContrato
<1>7. \A d \in Contratos : ContratoBom(d)'
  <2>1. ASSUME NEW d \in Contratos, d # c PROVE ContratoBom(d)'
    BY <2>1, <1>2 DEF Inv, TypeOK, ContratoBom, Existe
  <2>2. ASSUME NEW d \in Contratos, d = c PROVE ContratoBom(d)'
    <3>1. contrato'[d].status = op
      BY <2>2, <1>2 DEF Inv, TypeOK, LinhaDeContrato
    <3>2. contrato[d].proposta \in Propostas
      BY <2>2, <1>1 DEF Inv, ContratoBom
    <3>. QED BY <2>2, <1>1, <1>4, <3>1, <3>2 DEF ContratoBom, Destinos
  <2>. QED BY <2>1, <2>2
<1>8. ASSUME NEW q \in Escriventes PROVE TarefaBoa(q)'
  <2>1. CASE q = o
    BY <2>1, <1>2, TarefaVazia DEF Inv, TypeOK
  <2>2. CASE q # o
    BY <2>2, <1>1, <1>2, <1>4 DEF Inv, TypeOK, TarefaBoa, Concluida, pvars, Destinos
  <2>. QED BY <2>1, <2>2
<1>. QED BY <1>3, <1>5, <1>6, <1>7, <1>8 DEF ContratosInv

\* Every step of the composition keeps Inv.
LEMMA InvNoPasso == Inv /\ [Next]_vars => Inv'
<1>. SUFFICES ASSUME Inv, [Next]_vars PROVE Inv'
  OBVIOUS
<1>0. PropostasInv /\ ContratosInv /\ TypeOK
  BY InvEmPartes DEF Inv
<1>a. PropostasInv' /\ ContratosInv' => Inv'
  BY InvEmPartes, PTL
<1>1. CASE UNCHANGED vars
  <2>1. UNCHANGED <<agora, pvars>> /\ UNCHANGED cvars
    BY <1>1 DEF vars
  <2>2. PropostasInv' /\ Cresce
    BY <2>1, <1>0, PropostasParadas
  <2>. QED BY <2>1, <2>2, <1>0, <1>a, ContratosParados
<1>2. CASE PropostasNext /\ UNCHANGED cvars
  <2>1. PropostasInv' /\ Cresce
    BY <1>2, <1>0, PropostasPasso
  <2>. QED BY <1>2, <2>1, <1>0, <1>a, ContratosParados
<1>3. ASSUME UNCHANGED <<agora, pvars>>, ContratosInv' PROVE Inv'
  <2>1. PropostasInv'
    BY <1>3, <1>0, PropostasParadas
  <2>. QED BY <1>3, <2>1, <1>a
<1>4. ASSUME NEW o \in Escriventes, NEW p \in Propostas, LerProposta(o, p) PROVE Inv'
  <2>. DEFINE t == [SemTarefa EXCEPT !.op = "draft", !.lendo = TRUE, !.proposta = p]
  <2>1. t \in Tarefa /\ tarefa' = [tarefa EXCEPT ![o] = t] /\ proposta[p].status = "accepted"
    BY <1>4, ProposalsAssumption
       DEF LerProposta, SemTarefa, Tarefa, Destinos, ProposalsAssumption
  <2>2. aprovadas[p] # {}
    BY <2>1, <1>0 DEF PropostasInv, LinhaAnunciada
  <2>3. TarefaBoa(o)'
    BY <2>1, <2>2, <1>4 DEF LerProposta, TarefaBoa, TypeOK, Inv, SemTarefa, Destinos, pvars
  <2>. QED BY <2>1, <2>3, <1>4, <1>0, <1>3, ContratosLidos DEF LerProposta
<1>5. ASSUME NEW o \in Escriventes, NEW fim \in Terminos, LerValor(o, fim) PROVE Inv'
  <2>. DEFINE t == [tarefa[o] EXCEPT !.lendo = FALSE, !.fim = fim,
                       !.valor = proposta[tarefa[o].proposta].itens]
  <2>1. tarefa[o] \in Tarefa /\ tarefa[o].op = "draft" /\ tarefa[o].proposta \in Propostas
    BY <1>5, <1>0 DEF LerValor, TypeOK, Inv, TarefaBoa
  <2>2. t \in Tarefa
    BY <2>1, <1>0, ContractsAssumption
       DEF Tarefa, TypeOK, PropostasTypeOK, Linha, ContractsAssumption
  <2>3. tarefa' = [tarefa EXCEPT ![o] = t]
    BY <1>5, <1>0 DEF LerValor, TypeOK, Tarefa
  <2>4. TarefaBoa(o)'
    BY <2>1, <2>3, <1>5, <1>0 DEF LerValor, TarefaBoa, TypeOK, Inv, Destinos, Tarefa, pvars
  <2>. QED BY <2>2, <2>3, <2>4, <1>5, <1>0, <1>3, ContratosLidos DEF LerValor
<1>6. ASSUME NEW o \in Escriventes, NEW c \in Contratos, GravarFormalizacao(o, c) PROVE Inv'
  BY <1>6, <1>3, ContratosFormalizados DEF GravarFormalizacao, Inserir
<1>7. ASSUME NEW o \in Escriventes, NEW c \in Contratos, NEW op \in Destinos,
             LerContrato(o, c, op)
      PROVE  Inv'
  <2>. DEFINE t == [SemTarefa EXCEPT !.op = op, !.contrato = c]
  <2>1. t \in Tarefa /\ tarefa' = [tarefa EXCEPT ![o] = t] /\ Permitida(c, op)
    BY <1>7, ProposalsAssumption
       DEF LerContrato, SemTarefa, Tarefa, Destinos, ProposalsAssumption
  <2>2. /\ Existe(c)
        /\ op # "active" => "active" \in eventos[c]
    BY <2>1 DEF Permitida, Existe, Inv, SituacaoAnunciada, Destinos
  <2>3. TarefaBoa(o)'
    BY <2>1, <2>2, <1>7, <1>0
       DEF LerContrato, TarefaBoa, TypeOK, SemTarefa, Destinos, Existe
  <2>. QED BY <2>1, <2>3, <1>7, <1>0, <1>3, ContratosLidos DEF LerContrato
<1>8. ASSUME NEW o \in Escriventes, GravarSituacao(o) PROVE Inv'
  BY <1>8, <1>3, ContratosGravados DEF GravarSituacao, SalvarSituacao
<1>9. ASSUME NEW o \in Escriventes, Desistir(o) PROVE Inv'
  BY <1>9, <1>0, <1>3, TarefaVazia, ContratosLidos DEF Desistir, Concluida, TypeOK
<1>. QED BY <1>1, <1>2, <1>4, <1>5, <1>6, <1>7, <1>8, <1>9 DEF Next

-----------------------------------------------------------------------------
(* Theorems of the specification.                                          *)

\* The inductive invariant holds in every reachable state.
THEOREM InvSempre == Spec => []Inv
BY InvNoInicio, InvNoPasso, PTL DEF Spec

\* Rows and requests of commercial and contracts keep their types.
THEOREM TiposSempre == Spec => []TypeOK
<1>1. Inv => TypeOK
  BY DEF Inv
<1>. QED BY <1>1, InvSempre, PTL

\* A proposal that reads as sent or accepted has the items that were announced.
THEOREM AnunciadaSempre == Spec => []LinhaAnunciada
<1>1. Inv => LinhaAnunciada
  BY DEF Inv, PropostasInv
<1>. QED BY <1>1, InvSempre, PTL

\* No answer without a sending, and no sending without items.
THEOREM RespostaSempre == Spec => []RespostaDepoisDoEnvio
<1>1. Inv => RespostaDepoisDoEnvio
  BY DEF Inv, PropostasInv
<1>. QED BY <1>1, InvSempre, PTL

\* One proposal never has two contracts.
THEOREM UmContratoSempre == Spec => []UmContratoPorProposta
<1>1. Inv => UmContratoPorProposta
  BY DEF Inv
<1>. QED BY <1>1, InvSempre, PTL

\* No contract without a proposal that was sent and approved.
THEOREM AprovacaoSempre == Spec => []NasceDeAprovacao
<1>1. Inv => NasceDeAprovacao
  BY DEF Inv
<1>. QED BY <1>1, InvSempre, PTL

\* The events tell the whole story of a contract's status.
THEOREM SituacaoSempre == Spec => []SituacaoAnunciada
<1>1. Inv => SituacaoAnunciada
  BY DEF Inv
<1>. QED BY <1>1, InvSempre, PTL

\* What operations assumes of contracts is what contracts do.
THEOREM EvolucaoSempre == Spec => EvoluiComoOperacoesSupoe
<1>. DEFINE Evolui == \A c \in Contratos :
          Existe(c) /\ contrato'[c].status # contrato[c].status =>
              \/ contrato'[c].status = "active"
              \/ contrato[c].status # "draft"
                 /\ contrato'[c].status \in {"finished", "canceled"}
<1>1. ASSUME Inv, [Next]_vars PROVE [Evolui]_vars
  <2>1. CASE contrato' = contrato
    BY <2>1
  <2>2. ASSUME NEW o \in Escriventes, NEW c \in Contratos, GravarFormalizacao(o, c)
        PROVE  Evolui
    BY <1>1, <2>2 DEF GravarFormalizacao, Inserir, Inv, TypeOK, Existe
  <2>3. ASSUME NEW o \in Escriventes, GravarSituacao(o) PROVE Evolui
    <3>1. /\ tarefa[o].contrato \in Contratos /\ tarefa[o].op \in Destinos
          /\ tarefa[o].op # "active" => contrato[tarefa[o].contrato].status # "draft"
      <4>1. tarefa[o].op \in Destinos /\ TarefaBoa(o)
        BY <1>1, <2>3 DEF GravarSituacao, SalvarSituacao, Inv
      <4>2. /\ tarefa[o].contrato \in Contratos
            /\ tarefa[o].op # "active" => "active" \in eventos[tarefa[o].contrato]
        BY <4>1 DEF TarefaBoa, Destinos
      <4>3. ContratoBom(tarefa[o].contrato)
        BY <1>1, <4>2 DEF Inv
      <4>. QED BY <4>1, <4>2, <4>3 DEF ContratoBom
    <3>. QED BY <1>1, <3>1, <2>3 DEF GravarSituacao, SalvarSituacao, Inv, TypeOK, Destinos
  <2>. QED BY <1>1, <2>1, <2>2, <2>3
           DEF Next, vars, cvars, LerProposta, LerValor, LerContrato, Desistir
<1>. QED BY <1>1, InvSempre, PTL DEF Spec, EvoluiComoOperacoesSupoe
=============================================================================
