--------------------------------- MODULE Telas ---------------------------------
(***************************************************************************)
(* The screens of apps/web.  A page loads a row from the API with          *)
(* useRecurso, offers on it the buttons its status and the access of the   *)
(* session allow, and reloads after each act.  Meanwhile the row, the      *)
(* access and the date change on the server, searches answer in any order  *)
(* and the person moves on to another row.  A list stands for the row of   *)
(* it that is looked at; what is typed in a form is right or wrong, as the *)
(* server finds.  A page makes one request at a time.                      *)
(***************************************************************************)
EXTENDS Superficie

CONSTANTS
    Objetos,      \* rows a page may be opened on
    Concessoes,   \* accesses the server may resolve for the person
    MaxBuscas,    \* bound: searches of a page
    MaxAlteracoes \* bound: changes on the server by others

\* The person signs in with a password, and the session that makes has no ceiling
\* of scopes.
ASSUME TelasAssumption ==
    /\ Nulo \notin Objetos
    /\ MaxBuscas \in Nat /\ MaxAlteracoes \in Nat
    /\ \A c \in Concessoes : c.escopos = {Tudo}

VARIABLES
    tela,         \* the page that is open
    foco,         \* the row the page was opened on, or Nulo when it is closed
    dados,        \* what the last search brought, kept until another brings more
    carregando, erro,
    serie,        \* number of the last search: the one whose answer counts
    buscas,       \* searches under way
    selecionado,  \* the row the form of holds was opened for, or Nulo
    ato,          \* the request of the button pressed or the form sent, or Nulo
    acesso,       \* the access the session loaded when the person came in
    linha,        \* linha[o]: the row on the server
    concessao,    \* the access the server resolves now, and its version
    alteracoes    \* changes by others so far

servidor == <<linha, concessao, alteracoes>>
recurso == <<dados, carregando, erro, serie, buscas>>
tvars == <<tela, foco, recurso, selecionado, ato, acesso, servidor>>

-----------------------------------------------------------------------------
(* Pages.  ficha: it acts on the row of its address; a list acts on the    *)
(* row it shows.  botoes: the status on which it shows one, the key it     *)
(* asks of the access, the use case it calls.  formularios: offered        *)
(* whatever the row.                                                       *)

Botao(em, caso, chave) == [em |-> em, caso |-> caso, chave |-> chave]

Formulario(caso, chave) == [caso |-> caso, chave |-> chave]

Pagina(ficha, botoes, formularios) ==
    [ficha |-> ficha, botoes |-> botoes, formularios |-> formularios]

NovoCliente == Formulario("CreateCustomer", <<"crm", "customer", "create">>)

PaginaDeClientes == Pagina(FALSE, {}, {NovoCliente})

PaginaDoCliente ==
    Pagina(TRUE, {}, {Formulario("AddCustomerNote", <<"crm", "note", "create">>)})

NovaProposta == Formulario("CreateProposal", <<"commercial", "proposal", "create">>)

PaginaDePropostas == Pagina(FALSE, {}, {NovaProposta})

BotoesDaProposta ==
    { Botao("draft", "SendProposal", <<"commercial", "proposal", "send">>),
      Botao("sent", "DecideProposal.accept", <<"commercial", "proposal", "approve">>),
      Botao("sent", "DecideProposal.reject", <<"commercial", "proposal", "approve">>) }

PaginaDaProposta == Pagina(TRUE, BotoesDaProposta, {})

BotoesDeContratos ==
    { Botao("draft", "ActivateContract", <<"contracts", "contract", "activate">>),
      Botao("active", "CloseContract.finish", <<"contracts", "contract", "close">>) }

NovoContrato == Formulario("CreateContract", <<"contracts", "contract", "create">>)

PaginaDeContratos == Pagina(FALSE, BotoesDeContratos, {NovoContrato})

BotoesDeLocacoes ==
    { Botao("scheduled", "StartRental", <<"operations", "rental", "manage">>),
      Botao("scheduled", "CancelRental", <<"operations", "rental", "manage">>),
      Botao("active", "FinishRental", <<"operations", "rental", "manage">>) }

NovaLocacao == Formulario("ScheduleRental", <<"operations", "rental", "create">>)

PaginaDeLocacoes == Pagina(FALSE, BotoesDeLocacoes, {NovaLocacao})

BotoesDeAtivos == { Botao("held", "ReleaseHold", <<"assets", "asset", "hold">>) }

NovoAtivo == Formulario("RegisterAsset", <<"assets", "asset", "manage">>)

NovoBloqueio == Formulario("HoldAsset", <<"assets", "asset", "hold">>)

\* The board of today: its date is left blank.
PaginaDeAtivos == Pagina(FALSE, BotoesDeAtivos, {NovoAtivo, NovoBloqueio})

Conteudo ==
    [clientes |-> PaginaDeClientes, cliente |-> PaginaDoCliente,
     propostas |-> PaginaDePropostas, proposta |-> PaginaDaProposta,
     contratos |-> PaginaDeContratos, locacoes |-> PaginaDeLocacoes,
     ativos |-> PaginaDeAtivos]

Paginas == DOMAIN Conteudo

Casos(pagina) == {b.caso : b \in Conteudo[pagina].botoes}

CasosDeFormulario(pagina) == {f.caso : f \in Conteudo[pagina].formularios}

\* What each status may become, through whom: the domains of the modules.
Transicao ==
    [caso \in UNION {Casos(pagina) : pagina \in Paginas} |->
        CASE caso = "SendProposal" -> <<"draft", "sent">>
          [] caso = "DecideProposal.accept" -> <<"sent", "accepted">>
          [] caso = "DecideProposal.reject" -> <<"sent", "rejected">>
          [] caso = "ActivateContract" -> <<"draft", "active">>
          [] caso = "CloseContract.finish" -> <<"active", "finished">>
          [] caso = "StartRental" -> <<"scheduled", "active">>
          [] caso = "CancelRental" -> <<"scheduled", "canceled">>
          [] caso = "FinishRental" -> <<"active", "finished">>
          [] caso = "ReleaseHold" -> <<"held", "free">>]

\* Refused whatever the status, once the row is past: its validity is over or it
\* has no items (a proposal), its term is over (a contract), its hold is over (a
\* rental, an asset).
ComPrazo ==
    {"SendProposal", "DecideProposal.accept", "DecideProposal.reject", "ActivateContract",
     "CancelRental", "FinishRental", "ReleaseHold"}

\* Rows no button of the page changes are all alike to it.
Situacoes(pagina) ==
    IF Casos(pagina) = {} THEN {"active"}
    ELSE UNION {{Transicao[c][1], Transicao[c][2]} : c \in Casos(pagina)}

\* Mutant of Mostrada: the stored status, whatever the date.
MostradaSemData(pagina, l) == l.situacao

\* Mutant of Mostrada: the date is applied on every page.
MostradaComData(pagina, l) == IF l.vencida THEN "expired" ELSE l.situacao

\* The status the server shows to a page: the date is applied to a proposal that
\* was sent and to a hold; a contract and a rental are judged by what is stored.
Mostrada(pagina, l) ==
    IF ~l.vencida THEN l.situacao
    ELSE CASE pagina = "proposta" /\ l.situacao = "sent" -> "expired"
           [] pagina = "ativos" -> "free"
           [] OTHER -> l.situacao

\* The decision of the interface: that of the server without the scopes.
PodeNaInterface(chave) ==
    /\ acesso # Nulo
    /\ Contratada(acesso.concessao, chave)
    /\ Concede(acesso.concessao.permissoes, chave)

-----------------------------------------------------------------------------
Vistas(pagina) == Situacoes(pagina) \union IF pagina = "proposta" THEN {"expired"} ELSE {}

Lida == [objeto : Objetos, situacao : Vistas(tela), versao : 0..(MaxAlteracoes + MaxBuscas)]

Busca == [n : 1..MaxBuscas, objeto : Objetos, passo : {"indo", "volta", "falha"},
          traz : Lida \union {Nulo}]

\* visto: the row on screen, Nulo for a form.  versao, acesso: how old what the
\* person saw was.  emDia: it was still so when the server decided.  oculto: a
\* date, or something typed, that the page does not judge stood against the act.
Ato(pagina) ==
    [caso : Casos(pagina) \union CasosDeFormulario(pagina), alvo : Objetos,
     visto : Objetos \union {Nulo},
     versao : 0..(MaxAlteracoes + MaxBuscas), acesso : 0..MaxAlteracoes,
     resposta : {"nenhuma", "aceito", "recusado"}, emDia : BOOLEAN, oculto : BOOLEAN]

\* Null is no request.
ASSUME AtoAssumption == \A pagina \in Paginas : Nulo \notin Ato(pagina)

TelasTypeOK ==
    /\ tela \in Paginas
    /\ foco \in Objetos \union {Nulo}
    /\ dados \in Lida \union {Nulo}
    /\ carregando \in BOOLEAN /\ erro \in BOOLEAN
    /\ serie \in 0..MaxBuscas
    /\ buscas \subseteq Busca
    /\ selecionado \in Objetos \union {Nulo}
    /\ ato \in Ato(tela) \union {Nulo}
    /\ acesso \in [concessao : Concessoes, versao : 0..MaxAlteracoes] \union {Nulo}
    /\ linha \in [Objetos -> [situacao : Situacoes(tela), vencida : BOOLEAN,
                              versao : 0..(MaxAlteracoes + MaxBuscas)]]
    /\ concessao \in [concessao : Concessoes, versao : 0..MaxAlteracoes]
    /\ alteracoes \in 0..MaxAlteracoes

SemBusca == dados = Nulo /\ carregando = TRUE /\ erro = FALSE /\ buscas = {} /\ serie = 0

TelasInit ==
    /\ tela \in Paginas /\ foco = Nulo
    /\ SemBusca
    /\ selecionado = Nulo /\ ato = Nulo /\ acesso = Nulo
    /\ linha \in [Objetos -> [situacao : Situacoes(tela), vencida : BOOLEAN, versao : {0}]]
    /\ concessao \in [concessao : Concessoes, versao : {0}]
    /\ alteracoes = 0

-----------------------------------------------------------------------------
(* useRecurso.                                                             *)

\* The effect: the search before is no longer the active one.  React runs it
\* before it handles another click, so no button is pressed in between.
Buscar(objeto) ==
    /\ serie < MaxBuscas
    /\ serie' = serie + 1
    /\ buscas' = buscas \union {[n |-> serie + 1, objeto |-> objeto, passo |-> "indo",
                                 traz |-> Nulo]}
    /\ carregando' = TRUE /\ erro' = FALSE

\* The server reads the row for a search, or the search fails.
ResponderBusca ==
    /\ \E b \in buscas :
         /\ b.passo = "indo"
         /\ \/ buscas' = (buscas \ {b}) \union
                  {[b EXCEPT !.passo = "volta",
                             !.traz = [objeto |-> b.objeto,
                                       situacao |-> Mostrada(tela, linha[b.objeto]),
                                       versao |-> linha[b.objeto].versao]]}
            \/ buscas' = (buscas \ {b}) \union {[b EXCEPT !.passo = "falha"]}
    /\ UNCHANGED <<tela, foco, dados, carregando, erro, serie, selecionado, ato, acesso, servidor>>

\* Mutant of Ativa: whatever answers last is shown.
AtivaSempre(b) == foco # Nulo

\* Only the search of the last effect of a mounted page may speak.
Ativa(b) == foco # Nulo /\ b.n = serie

ReceberBusca ==
    /\ \E b \in buscas :
         /\ b.passo # "indo"
         /\ buscas' = buscas \ {b}
         /\ IF Ativa(b)
            THEN /\ dados' = IF b.passo = "volta" THEN b.traz ELSE dados
                 /\ erro' = (erro \/ b.passo = "falha")
                 /\ carregando' = FALSE
            ELSE UNCHANGED <<dados, erro, carregando>>
    /\ UNCHANGED <<tela, foco, serie, selecionado, ato, acesso, servidor>>

-----------------------------------------------------------------------------
(* The person.                                                             *)

\* Login, or a session restored: the access is loaded once.
Entrar ==
    /\ acesso = Nulo
    /\ acesso' = concessao
    /\ UNCHANGED <<tela, foco, recurso, selecionado, ato, servidor>>

\* A page is opened on a row, from the menu, a link or its address: it mounts, and
\* searches.
Abrir ==
    /\ acesso # Nulo /\ foco = Nulo /\ buscas = {}
    /\ \E o \in Objetos : foco' = o /\ Buscar(o)
    /\ dados' = Nulo
    /\ UNCHANGED <<tela, selecionado, ato, acesso, servidor>>

\* The address or the filter changes, and the page stays: what it had stays too.
Trocar ==
    /\ foco # Nulo
    /\ \E o \in Objetos \ {foco} : foco' = o /\ Buscar(o)
    /\ UNCHANGED <<tela, dados, selecionado, ato, acesso, servidor>>

\* The page unmounts, and what it had is lost.
Desmontar ==
    /\ foco' = Nulo /\ selecionado' = Nulo /\ ato' = Nulo
    /\ dados' = Nulo /\ carregando' = TRUE /\ erro' = FALSE

\* The person goes elsewhere, or the session ends: the screen forgets.
Fechar ==
    /\ foco # Nulo
    /\ Desmontar
    /\ acesso' \in {acesso, Nulo}
    /\ UNCHANGED <<tela, serie, buscas, servidor>>

\* Nothing of the row is shown while it loads, or when the search failed.
NaTela == foco # Nulo /\ ~carregando /\ ~erro /\ dados # Nulo

Oferecidos ==
    {b \in Conteudo[tela].botoes : NaTela /\ b.em = dados.situacao /\ PodeNaInterface(b.chave)}

\* A button is pressed; all of them stay disabled until the answer.
Apertar ==
    /\ ato = Nulo
    /\ \E b \in Oferecidos :
         ato' = [caso |-> b.caso,
                 alvo |-> IF Conteudo[tela].ficha THEN foco ELSE dados.objeto,
                 visto |-> dados.objeto, versao |-> dados.versao, acesso |-> acesso.versao,
                 resposta |-> "nenhuma", emDia |-> TRUE, oculto |-> FALSE]
    /\ UNCHANGED <<tela, foco, recurso, selecionado, acesso, servidor>>

\* "Bloquear" opens the form of holds for the row on screen, or closes it.  The
\* form stays for that row when the page turns to another.
Selecionar ==
    /\ tela = "ativos" /\ NaTela /\ PodeNaInterface(NovoBloqueio.chave)
    /\ selecionado' = IF selecionado = dados.objeto THEN Nulo ELSE dados.objeto
    /\ UNCHANGED <<tela, foco, recurso, ato, acesso, servidor>>

\* The form of holds is there once it was opened; the others, by the access alone.
Disponivel(f) == IF f = NovoBloqueio THEN selecionado # Nulo ELSE PodeNaInterface(f.chave)

\* A form is sent, while the page loads too.
Enviar ==
    /\ ato = Nulo /\ foco # Nulo
    /\ \E f \in Conteudo[tela].formularios :
         /\ Disponivel(f)
         /\ ato' = [caso |-> f.caso, alvo |-> IF f = NovoBloqueio THEN selecionado ELSE foco,
                    visto |-> Nulo, versao |-> 0, acesso |-> acesso.versao,
                    resposta |-> "nenhuma", emDia |-> TRUE, oculto |-> FALSE]
    /\ UNCHANGED <<tela, foco, recurso, selecionado, acesso, servidor>>

\* An answer that arrives: the page reloads only if the act was accepted, and the
\* form of holds closes.
ReceberAto ==
    /\ ato # Nulo /\ ato.resposta # "nenhuma" /\ ato.caso # "CreateProposal"
    /\ ato' = Nulo
    /\ IF ato.resposta = "aceito"
       THEN /\ Buscar(foco) /\ UNCHANGED dados
            /\ selecionado' = IF ato.caso = "HoldAsset" THEN Nulo ELSE selecionado
       ELSE UNCHANGED <<recurso, selecionado>>
    /\ UNCHANGED <<tela, foco, acesso, servidor>>

\* A new proposal takes the person to its own page.
ReceberProposta ==
    /\ ato # Nulo /\ ato.resposta # "nenhuma" /\ ato.caso = "CreateProposal"
    /\ IF ato.resposta = "aceito"
       THEN Desmontar /\ UNCHANGED <<serie, buscas>>
       ELSE ato' = Nulo /\ UNCHANGED <<foco, recurso, selecionado>>
    /\ UNCHANGED <<tela, acesso, servidor>>

-----------------------------------------------------------------------------
(* The server.                                                             *)

\* A row that changes is another version of itself.
Passar(objeto, situacao, vencida) ==
    linha' = [linha EXCEPT ![objeto] = [situacao |-> situacao, vencida |-> vencida,
                                        versao |-> @.versao + 1]]

Exigidas(caso) == UNION {r.exige : r \in {x \in Rotas : x.caso = caso}}

Aceita(caso, l) ==
    /\ AutorizaTodas(concessao.concessao, Exigidas(caso))
    /\ l.situacao = Transicao[caso][1]
    /\ caso \in ComPrazo => ~l.vencida

ResponderAto ==
    /\ ato # Nulo /\ ato.resposta = "nenhuma" /\ ato.visto # Nulo
    /\ LET l == linha[ato.alvo] IN
       /\ ato' = [ato EXCEPT !.resposta = IF Aceita(ato.caso, l) THEN "aceito" ELSE "recusado",
                             !.emDia = ato.versao = l.versao /\ ato.acesso = concessao.versao,
                             !.oculto = l.vencida]
       /\ IF Aceita(ato.caso, l)
          THEN Passar(ato.alvo, Transicao[ato.caso][2], l.vencida)
          ELSE UNCHANGED linha
    /\ UNCHANGED <<tela, foco, recurso, selecionado, acesso, concessao, alteracoes>>

\* What a form made: a new row, or a hold, which takes a free asset if its period
\* has begun.
Feito ==
    \/ UNCHANGED linha
    \/ /\ ato.caso = "HoldAsset" /\ Mostrada(tela, linha[ato.alvo]) = "free"
       /\ Passar(ato.alvo, "held", FALSE)

\* The server judges what was typed, which the page leaves to it.
ResponderFormulario ==
    /\ ato # Nulo /\ ato.resposta = "nenhuma" /\ ato.visto = Nulo
    /\ \E certo \in BOOLEAN :
         LET aceito == certo /\ AutorizaTodas(concessao.concessao, Exigidas(ato.caso)) IN
         /\ ato' = [ato EXCEPT !.resposta = IF aceito THEN "aceito" ELSE "recusado",
                               !.emDia = ato.acesso = concessao.versao, !.oculto = ~certo]
         /\ IF aceito THEN Feito ELSE UNCHANGED linha
    /\ UNCHANGED <<tela, foco, recurso, selecionado, acesso, concessao, alteracoes>>

\* Somebody else acts on a row, a date passes, an access changes.
Alterar ==
    /\ alteracoes < MaxAlteracoes
    /\ alteracoes' = alteracoes + 1
    /\ \/ /\ \E o \in Objetos, caso \in Casos(tela) :
                /\ linha[o].situacao = Transicao[caso][1]
                /\ caso \in ComPrazo => ~linha[o].vencida
                /\ Passar(o, Transicao[caso][2], linha[o].vencida)
          /\ UNCHANGED concessao
       \/ /\ \E o \in Objetos : ~linha[o].vencida /\ Passar(o, linha[o].situacao, TRUE)
          /\ UNCHANGED concessao
       \/ /\ \E c \in Concessoes : concessao' = [concessao |-> c, versao |-> alteracoes + 1]
          /\ UNCHANGED linha
    /\ UNCHANGED <<tela, foco, recurso, selecionado, ato, acesso>>

TelasNext ==
    \/ Entrar \/ Abrir \/ Trocar \/ Fechar \/ Apertar \/ Selecionar \/ Enviar
    \/ ReceberAto \/ ReceberProposta
    \/ ResponderBusca \/ ReceberBusca \/ ResponderAto \/ ResponderFormulario \/ Alterar

TelasSpec == TelasInit /\ [][TelasNext]_tvars

-----------------------------------------------------------------------------
(* Properties.                                                             *)

\* A button acts on the row the person was looking at, however late and out of
\* order the searches before answered (useRecurso).
AgeNoQueMostra == ato # Nulo /\ ato.visto # Nulo => ato.alvo = ato.visto

\* An act that was offered is refused only if the row or the access changed
\* after they were read, or for what the page does not look at: what is typed in
\* a form, and the dates of a row it offers to send, to activate, to cancel or
\* to return on the stored status alone (podeNaInterface and the pages).
OfertaHonesta ==
    ato # Nulo /\ ato.resposta = "recusado" =>
        \/ ~ato.emDia
        \/ /\ ato.oculto
           /\ ato.visto # Nulo => ato.caso \in {"SendProposal", "ActivateContract",
                                               "CancelRental", "FinishRental"}

-----------------------------------------------------------------------------
(* The inductive invariant.                                                *)

\* Nothing is pressed, nor opened, on a page that is closed, nor before the
\* access is known.
PaginaBoa ==
    /\ acesso = Nulo => foco = Nulo
    /\ foco = Nulo => ato = Nulo /\ selecionado = Nulo
    /\ selecionado # Nulo => tela = "ativos" /\ PodeNaInterface(NovoBloqueio.chave)

\* Every change of a row was counted: as one by others, or as an act of a page
\* whose search comes next.
AindaNaoAgiu == foco # Nulo /\ (ato = Nulo \/ ato.resposta # "aceito")

VersoesContadas ==
    /\ \A o \in Objetos :
          linha[o].versao + (IF AindaNaoAgiu THEN 1 ELSE 0) <= alteracoes + serie
    /\ concessao.versao <= alteracoes

\* A status read of a row is no newer than the row, and what the server would
\* show still, if the row is the same since.
Fiel(objeto, situacao, versao) ==
    /\ versao <= linha[objeto].versao
    /\ versao = linha[objeto].versao => situacao = Mostrada(tela, linha[objeto])

\* The same of an access, as far as a key is concerned.
Podia(versao, chave) ==
    /\ versao <= concessao.versao
    /\ versao = concessao.versao => Contratada(concessao.concessao, chave)
                                   /\ Concede(concessao.concessao.permissoes, chave)

\* The search that counts is of the row in focus, and what it brings is of it.
BuscasBoas ==
    \A b \in buscas :
        /\ b.n <= serie
        /\ b.n = serie /\ foco # Nulo => b.objeto = foco
        /\ b.passo = "volta" =>
              /\ b.traz \in Lida /\ b.traz.objeto = b.objeto
              /\ Fiel(b.objeto, b.traz.situacao, b.traz.versao)

\* So is what is shown.
DadosBons ==
    /\ foco # Nulo /\ ~carregando /\ ~erro => dados \in Lida /\ dados.objeto = foco
    /\ dados # Nulo => Fiel(dados.objeto, dados.situacao, dados.versao)

AcessoBom ==
    acesso # Nulo =>
        /\ acesso.versao <= concessao.versao
        /\ acesso.versao = concessao.versao => acesso.concessao = concessao.concessao

\* What is under way is what a button, or a form, offered on what was read.
OfertaPendente ==
    ato # Nulo /\ ato.resposta = "nenhuma" =>
        IF ato.visto # Nulo
        THEN \E b \in Conteudo[tela].botoes :
                /\ b.caso = ato.caso
                /\ Fiel(ato.alvo, b.em, ato.versao) /\ Podia(ato.acesso, b.chave)
        ELSE \E f \in Conteudo[tela].formularios :
                f.caso = ato.caso /\ Podia(ato.acesso, f.chave)

TelasInv ==
    /\ TelasTypeOK
    /\ PaginaBoa /\ VersoesContadas /\ BuscasBoas /\ DadosBons /\ AcessoBom
    /\ OfertaPendente /\ AgeNoQueMostra /\ OfertaHonesta
=============================================================================
