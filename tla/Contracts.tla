------------------------------ MODULE Contracts ------------------------------
(***************************************************************************)
(* The contracts module (modules/contracts) on top of commercial: a        *)
(* contract is born of an accepted proposal, whose items it reads through  *)
(* the public API of commercial (the same two statements), and then lives  *)
(* by saves that write the status a request decided on, whatever the row   *)
(* has become.  proposal_id is unique, and value and term are written only *)
(* by the insert.                                                          *)
(***************************************************************************)
EXTENDS Proposals

CONSTANTS
    Contratos,    \* ids of contracts
    Escriventes,  \* requests being served by the contracts module
    Terminos,     \* instants a request may give as endsOn
    Nenhum        \* "no contract": not an id

ASSUME ContractsAssumption ==
    /\ Terminos \subseteq Nat
    /\ Nenhum \notin Contratos

VARIABLES
    contrato,     \* contrato[c]: the row of the contract
    tarefa,       \* tarefa[o]: what a request of contracts remembers
    eventos       \* history: eventos[c] = events published for contract c

cvars == <<contrato, tarefa, eventos>>
vars == <<agora, pvars, cvars>>

-----------------------------------------------------------------------------
LinhaDeContrato == [status : {"ausente", "draft", "active", "finished", "canceled"},
                    proposta : Propostas \union {Nenhuma}, valor : Listas, fim : Nat]

SemContrato == [status |-> "ausente", proposta |-> Nenhuma,
                valor |-> SemItens, fim |-> 0]

\* The status a request of each kind will save.
Destinos == {"active", "finished", "canceled"}

\* lendo: the header of the accepted proposal is read, its items are not yet.
Tarefa == [op : Destinos \union {"livre", "draft"}, lendo : BOOLEAN,
           proposta : Propostas \union {Nenhuma},
           contrato : Contratos \union {Nenhum}, valor : Listas, fim : Nat]

SemTarefa == [op |-> "livre", lendo |-> FALSE, proposta |-> Nenhuma,
              contrato |-> Nenhum, valor |-> SemItens, fim |-> 0]

TypeOK ==
    /\ PropostasTypeOK
    /\ contrato \in [Contratos -> LinhaDeContrato]
    /\ tarefa \in [Escriventes -> Tarefa]
    /\ eventos \in [Contratos -> SUBSET Destinos]

Init ==
    /\ PropostasInit
    /\ contrato = [c \in Contratos |-> SemContrato]
    /\ tarefa = [o \in Escriventes |-> SemTarefa]
    /\ eventos = [c \in Contratos |-> {}]

-----------------------------------------------------------------------------
(* Formalisation.                                                          *)

\* findByProposal: the contract of proposal p, if there is one.
Formalizada(p) == \E c \in Contratos : contrato[c].proposta = p

\* Mutant of LerProposta: a proposal that waits for an answer will do.
LerPropostaEnviada(o, p) ==
    /\ tarefa[o].op = "livre"
    /\ proposta[p].status \in {"sent", "accepted"}
    /\ tarefa' = [tarefa EXCEPT ![o] =
          [SemTarefa EXCEPT !.op = "draft", !.lendo = TRUE, !.proposta = p]]
    /\ UNCHANGED <<agora, pvars, contrato, eventos>>

\* CreateContractUseCase: the header read by findProposal is accepted.
LerProposta(o, p) ==
    /\ tarefa[o].op = "livre"
    /\ proposta[p].status = "accepted"
    /\ tarefa' = [tarefa EXCEPT ![o] =
          [SemTarefa EXCEPT !.op = "draft", !.lendo = TRUE, !.proposta = p]]
    /\ UNCHANGED <<agora, pvars, contrato, eventos>>

\* Then its items are read, whose total will be the value; no contract has
\* been made of it, and the term is not over (Contract.draft).
LerValor(o, fim) ==
    /\ tarefa[o].lendo
    /\ ~Formalizada(tarefa[o].proposta)
    /\ fim > agora
    /\ tarefa' = [tarefa EXCEPT ![o].lendo = FALSE, ![o].fim = fim,
                                ![o].valor = proposta[tarefa[o].proposta].itens]
    /\ UNCHANGED <<agora, pvars, contrato, eventos>>

Concluida(o) == tarefa' = [tarefa EXCEPT ![o] = SemTarefa]

\* Inserting the draft as a row of its own.
Inserir(o, c) ==
    /\ tarefa[o].op = "draft" /\ ~tarefa[o].lendo
    /\ contrato[c].status = "ausente"
    /\ contrato' = [contrato EXCEPT ![c] =
          [status |-> "draft", proposta |-> tarefa[o].proposta,
           valor |-> tarefa[o].valor, fim |-> tarefa[o].fim]]
    /\ Concluida(o)
    /\ UNCHANGED <<agora, pvars, eventos>>

\* Mutant of GravarFormalizacao: the table has no unique proposal_id.
FormalizarSemRestricao(o, c) == Inserir(o, c)

\* The insert: proposal_id is unique.
GravarFormalizacao(o, c) ==
    /\ ~Formalizada(tarefa[o].proposta)
    /\ Inserir(o, c)

-----------------------------------------------------------------------------
(* Activation and closing.                                                 *)

\* Mutant of Permitida: a draft can be canceled.
PermitidaEmRascunho(c, op) ==
    \/ op = "active" /\ contrato[c].status = "draft" /\ contrato[c].fim > agora
    \/ op = "finished" /\ contrato[c].status = "active"
    \/ op = "canceled" /\ contrato[c].status \in {"draft", "active"}

\* activate() takes a draft whose term is not over; finish() and cancel() take
\* an active contract, with its term over as well.
Permitida(c, op) ==
    \/ op = "active" /\ contrato[c].status = "draft" /\ contrato[c].fim > agora
    \/ op \in {"finished", "canceled"} /\ contrato[c].status = "active"

\* exigirContrato, then activate(), finish() or cancel() on what was read.
LerContrato(o, c, op) ==
    /\ tarefa[o].op = "livre"
    /\ Permitida(c, op)
    /\ tarefa' = [tarefa EXCEPT ![o] = [SemTarefa EXCEPT !.op = op, !.contrato = c]]
    /\ UNCHANGED <<agora, pvars, contrato, eventos>>

\* save() of a row that is there: of what a contract is made of, only the status.
SalvarSituacao(c, status) == contrato' = [contrato EXCEPT ![c].status = status]

\* Mutant of GravarSituacao: the save stores situacao(), derived on reads.
GravarSituacaoDerivada(o) ==
    LET c == tarefa[o].contrato IN
    /\ tarefa[o].op \in Destinos
    /\ contrato' = [contrato EXCEPT ![c].status =
          IF tarefa[o].op = "active" /\ contrato[c].fim <= agora THEN "expired" ELSE tarefa[o].op]
    /\ eventos' = [eventos EXCEPT ![c] = @ \union {tarefa[o].op}]
    /\ Concluida(o)
    /\ UNCHANGED <<agora, pvars>>

\* The save writes the status decided on and publishes the event of that name.
GravarSituacao(o) ==
    LET c == tarefa[o].contrato IN
    /\ tarefa[o].op \in Destinos
    /\ SalvarSituacao(c, tarefa[o].op)
    /\ eventos' = [eventos EXCEPT ![c] = @ \union {tarefa[o].op}]
    /\ Concluida(o)
    /\ UNCHANGED <<agora, pvars>>

\* The request ends without a save: refused, or failed and rolled back.
Desistir(o) ==
    /\ tarefa[o].op # "livre"
    /\ Concluida(o)
    /\ UNCHANGED <<agora, pvars, contrato, eventos>>

Next ==
    \/ PropostasNext /\ UNCHANGED cvars
    \/ \E o \in Escriventes :
          \/ \E p \in Propostas : LerProposta(o, p)
          \/ \E fim \in Terminos : LerValor(o, fim)
          \/ \E c \in Contratos :
                \/ GravarFormalizacao(o, c)
                \/ \E op \in Destinos : LerContrato(o, c, op)
          \/ GravarSituacao(o)
          \/ Desistir(o)

Spec == Init /\ [][Next]_vars

-----------------------------------------------------------------------------
(* Properties.                                                             *)

Existe(c) == contrato[c].status # "ausente"

\* Two requests that found a proposal without a contract do not both make one.
UmContratoPorProposta ==
    \A c, d \in Contratos :
        c # d /\ Existe(c) => contrato[c].proposta # contrato[d].proposta

\* Every contract was born of a proposal that was sent and approved, even when
\* a late update has taken the proposal back to draft since.
NasceDeAprovacao ==
    \A c \in Contratos : Existe(c) =>
        /\ aprovadas[contrato[c].proposta] # {}
        /\ enviadas[contrato[c].proposta] # {}

\* The stored status was announced by the event of its name, and nothing is
\* announced of a contract before its activation: who only sees the events
\* learns of everything that happened to the row.
SituacaoAnunciada ==
    \A c \in Contratos :
        /\ contrato[c].status \in Destinos => contrato[c].status \in eventos[c]
        /\ eventos[c] # {} => "active" \in eventos[c]

\* What operations assumes of its environment (AndamentoDoContrato in module
\* Rentals): a contract may become active at any time, is closed only when it
\* is no longer a draft, and never returns to draft.
EvoluiComoOperacoesSupoe ==
    [][\A c \in Contratos :
          Existe(c) /\ contrato'[c].status # contrato[c].status =>
              \/ contrato'[c].status = "active"
              \/ contrato[c].status # "draft"
                 /\ contrato'[c].status \in {"finished", "canceled"}]_vars

-----------------------------------------------------------------------------
(* The inductive invariant of the proofs.                                  *)

\* A contract has a proposal, and no event before it leaves draft.
ContratoBom(c) ==
    /\ Existe(c) <=> contrato[c].proposta \in Propostas
    /\ contrato[c].status \in {"ausente", "draft"} => eventos[c] = {}

\* What a request in flight remembers: the proposal it formalises has been
\* approved, the contract it closes has been activated.
TarefaBoa(o) ==
    /\ tarefa[o].op = "draft" =>
          tarefa[o].proposta \in Propostas /\ aprovadas[tarefa[o].proposta] # {}
    /\ tarefa[o].op \in Destinos =>
          tarefa[o].contrato \in Contratos /\ Existe(tarefa[o].contrato)
    /\ tarefa[o].op \in {"finished", "canceled"} =>
          "active" \in eventos[tarefa[o].contrato]
    /\ tarefa[o].lendo => tarefa[o].op = "draft"

\* The properties hold together with what requests in flight remember: none
\* of the saves asks again for what its request read.
Inv == /\ TypeOK
       /\ PropostasInv
       /\ UmContratoPorProposta
       /\ NasceDeAprovacao
       /\ SituacaoAnunciada
       /\ \A c \in Contratos : ContratoBom(c)
       /\ \A o \in Escriventes : TarefaBoa(o)

-----------------------------------------------------------------------------
(* What the code's own comments say and the model refutes.                 *)

\* The value of a contract is the total the customer accepted.
ContratoValeOAceito ==
    \A c \in Contratos : Existe(c) => contrato[c].valor \in aprovadas[contrato[c].proposta]

\* Only a contract in draft is activated (ContractNotDraftError): one that was
\* closed does not come back.
SoRascunhoAtiva ==
    [][\A c \in Contratos : contrato[c].status \in Destinos \ {"active"}
          => contrato'[c].status # "active"]_vars
=============================================================================
