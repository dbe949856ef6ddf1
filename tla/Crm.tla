---------------------------------- MODULE Crm ----------------------------------
(***************************************************************************)
(* Customers, notes and appointments of one company (modules/crm), and the *)
(* public lookup of a customer, which other modules make in process or     *)
(* over HTTP (apps/crm-service).  Every use case reads in transactions of  *)
(* its own, decides in memory and saves whole rows in one more; only the   *)
(* unique document of a customer is watched by the database.               *)
(***************************************************************************)
EXTENDS Naturals, FiniteSets

CONSTANTS
    Pedidos,       \* requests; a new row has the id of the request that creates it
    Antigo,        \* a customer that was there before
    Documentos,    \* CPF or CNPJ digits
    Responsaveis,  \* users an appointment may be assigned to
    Nulo,          \* null
    Manter,        \* a field the request does not mention
    MaxTempo,      \* bound: instants of the agenda
    MaxAgora,      \* bound: instants of the clock
    MaxItens       \* entries in the timeline of a customer

ASSUME CrmAssumption ==
    /\ Antigo \notin Pedidos /\ Nulo \notin Pedidos \union {Antigo}
    /\ Nulo \notin Responsaveis /\ Manter \notin Documentos \union {Nulo}
    /\ MaxTempo \in Nat /\ MaxAgora \in 0..MaxTempo /\ MaxItens \in Nat

VARIABLES
    cliente,     \* cliente[c]: row of a customer, or Nulo
    agenda,      \* agenda[a]: row of an appointment, or Nulo
    notas,       \* rows of notes
    eventos,     \* events published, each with the request that published it
    agora,       \* the clock
    pedido,      \* pedido[p]: what request p remembers, kept when it is over
    antes        \* history: the requests that were over when p began

vars == <<cliente, agenda, notas, eventos, agora, pedido, antes>>

-----------------------------------------------------------------------------
Clientes == Pedidos \union {Antigo}

Instantes == 0..MaxTempo

\* contato stands for name, e-mail and phone: the request that last gave it.
LinhaDeCliente ==
    [documento : Documentos \union {Nulo}, contato : Clientes,
     situacao : {"active", "archived"}]

LinhaDeAgenda ==
    [cliente : Clientes, inicio : Instantes, fim : Instantes,
     responsavel : Responsaveis \union {Nulo}, situacao : {"scheduled", "done", "canceled"}]

ASSUME LinhaAssumption == Nulo \notin LinhaDeCliente \union LinhaDeAgenda

Nota == [id : Pedidos, cliente : Clientes, em : Instantes]

Item == [tipo : {"note", "appointment"}, id : Pedidos, em : Instantes]

\* alvo: the row it is about.  linha: the row to be saved, or read.  contato:
\* whether it asks to change the contact.  itens: timeline under construction.
\* havia (history): whether the customer looked up existed when it was asked.
Pedido ==
    [op : {"nenhuma", "criar", "alterar", "anotar", "agendar", "encerrar", "ficha", "resumo"},
     passo : {"livre", "conferir", "gravar", "notas", "agenda", "rede", "volta", "fim"},
     alvo : Clientes \union {Nulo},
     linha : LinhaDeCliente \union LinhaDeAgenda \union Nota \union {Nulo},
     contato : BOOLEAN,
     havia : BOOLEAN,
     itens : SUBSET Item,
     resposta : {"nada", "erro", "null", "cliente", "feito"}]

Livre == [op |-> "nenhuma", passo |-> "livre", alvo |-> Nulo, linha |-> Nulo,
          contato |-> FALSE, havia |-> FALSE, itens |-> {}, resposta |-> "nada"]

Evento == [tipo : {"created", "updated", "note", "scheduled", "done", "canceled"},
           alvo : Clientes, por : Pedidos]

Existe(c) == cliente[c] # Nulo

TypeOK ==
    /\ cliente \in [Clientes -> LinhaDeCliente \union {Nulo}]
    /\ agenda \in [Pedidos -> LinhaDeAgenda \union {Nulo}]
    /\ notas \subseteq Nota
    /\ eventos \subseteq Evento
    /\ agora \in 0..MaxAgora
    /\ pedido \in [Pedidos -> Pedido]
    /\ antes \in [Pedidos -> SUBSET Pedidos]

\* No operation archives a customer; one may have been archived by hand.
Init ==
    /\ \E d \in Documentos \union {Nulo}, s \in {"active", "archived"} :
          cliente = [c \in Clientes |->
                        IF c = Antigo
                        THEN [documento |-> d, contato |-> Antigo, situacao |-> s]
                        ELSE Nulo]
    /\ agenda = [a \in Pedidos |-> Nulo]
    /\ notas = {}
    /\ eventos = {}
    /\ agora = 0
    /\ pedido = [p \in Pedidos |-> Livre]
    /\ antes = [p \in Pedidos |-> {}]

-----------------------------------------------------------------------------
(* Steps of a request.                                                     *)

Encerrados == {p \in Pedidos : pedido[p].passo = "fim"}

banco == <<cliente, agenda, notas, eventos>>

\* Request p arrives and makes its first read.
Comecar(p, memoria) ==
    /\ pedido[p].passo = "livre"
    /\ pedido' = [pedido EXCEPT ![p] = memoria]
    /\ antes' = [antes EXCEPT ![p] = Encerrados]
    /\ UNCHANGED <<banco, agora>>

Seguir(p, passo) ==
    /\ pedido' = [pedido EXCEPT ![p].passo = passo]
    /\ UNCHANGED <<banco, agora, antes>>

Terminar(p, resposta) ==
    pedido' = [pedido EXCEPT ![p].passo = "fim", ![p].linha = Nulo,
                             ![p].resposta = resposta]

\* The event of a use case, in the transaction of its save.
Publicar(p, tipo) ==
    eventos' = eventos \union {[tipo |-> tipo, alvo |-> pedido[p].alvo, por |-> p]}

\* A refusal of the domain, a failure or a crash: nothing was written.
Desistir(p) ==
    /\ pedido[p].passo \notin {"livre", "fim"}
    /\ pedido' = [pedido EXCEPT ![p] = [Livre EXCEPT !.passo = "fim", !.resposta = "erro"]]
    /\ UNCHANGED <<banco, agora, antes>>

-----------------------------------------------------------------------------
(* Customers.                                                              *)

DonoDo(d) == {c \in Clientes : Existe(c) /\ cliente[c].documento = d}

NovoCliente(p, d) == [documento |-> d, contato |-> p, situacao |-> "active"]

\* The document is looked up, when there is one.
CriarCliente(p, d) ==
    /\ d # Nulo => DonoDo(d) = {}
    /\ Comecar(p, [Livre EXCEPT !.op = "criar", !.passo = "gravar", !.alvo = p,
                     !.linha = NovoCliente(p, d),
                     !.contato = TRUE])

\* Mutant of Alterada: a field that is not mentioned is taken for null.
AlteradaPorInteiro(linha, p, d, mexe) ==
    [linha EXCEPT !.documento = IF d = Manter THEN Nulo ELSE d,
                  !.contato = IF mexe THEN p ELSE Nulo]

\* Customer.update: the fields the request mentions replace those read.
Alterada(linha, p, d, mexe) ==
    [linha EXCEPT !.documento = IF d = Manter THEN @ ELSE d,
                  !.contato = IF mexe THEN p ELSE @]

\* The customer is read; a document that is mentioned is looked up next.
AlterarCliente(p, c, d, mexe) ==
    /\ Existe(c)
    /\ Comecar(p, [Livre EXCEPT !.op = "alterar", !.alvo = c, !.contato = mexe,
                     !.passo = IF d \in Documentos THEN "conferir" ELSE "gravar",
                     !.linha = Alterada(cliente[c], p, d, mexe)])

ConferirDono(p) ==
    /\ pedido[p].op = "alterar" /\ pedido[p].passo = "conferir"
    /\ DonoDo(pedido[p].linha.documento) \subseteq {pedido[p].alvo}
    /\ Seguir(p, "gravar")

\* The upsert of the whole row, under the unique constraint on the document.
SalvarCliente(c, linha) ==
    /\ linha.documento # Nulo => DonoDo(linha.documento) \subseteq {c}
    /\ cliente' = [cliente EXCEPT ![c] = linha]

GravarCliente(p) ==
    LET r == pedido[p]
    IN  /\ r.op \in {"criar", "alterar"} /\ r.passo = "gravar"
        /\ SalvarCliente(r.alvo, r.linha)
        /\ Publicar(p, IF r.op = "criar" THEN "created" ELSE "updated")
        /\ Terminar(p, "feito")
        /\ UNCHANGED <<agenda, notas, agora, antes>>

-----------------------------------------------------------------------------
(* Notes.                                                                  *)

AceitaInteracao(c) == Existe(c) /\ cliente[c].situacao = "active"

NovaNota(p, c) == [id |-> p, cliente |-> c, em |-> agora]

Anotar(p, c) ==
    /\ AceitaInteracao(c)
    /\ Comecar(p, [Livre EXCEPT !.op = "anotar", !.passo = "gravar", !.alvo = c,
                     !.linha = NovaNota(p, c)])

\* Notes are only ever inserted.
IncluirNota(nota) == notas' = notas \union {nota}

GravarNota(p) ==
    LET r == pedido[p]
    IN  /\ r.op = "anotar" /\ r.passo = "gravar"
        /\ IncluirNota(r.linha)
        /\ Publicar(p, "note")
        /\ Terminar(p, "feito")
        /\ UNCHANGED <<cliente, agenda, agora, antes>>

-----------------------------------------------------------------------------
(* Appointments.                                                           *)

\* Mutant of Conflita: only an appointment that begins during the other conflicts.
ConflitaSeComecaDentro(a, b) ==
    /\ a.situacao = "scheduled" /\ b.situacao = "scheduled"
    /\ a.responsavel # Nulo /\ a.responsavel = b.responsavel
    /\ a.inicio <= b.inicio /\ b.inicio < a.fim

\* Appointment.conflitaCom: touching ends do not conflict.
Conflita(a, b) ==
    /\ a.situacao = "scheduled" /\ b.situacao = "scheduled"
    /\ a.responsavel # Nulo /\ a.responsavel = b.responsavel
    /\ a.inicio < b.fim /\ b.inicio < a.fim

Marcado(c, i, f, u) == [cliente |-> c, inicio |-> i, fim |-> f,
                        responsavel |-> u, situacao |-> "scheduled"]

\* The customer is read and the appointment made, never in the past.
Agendar(p, c, i, f, u) ==
    /\ AceitaInteracao(c)
    /\ agora < i /\ i < f
    /\ Comecar(p, [Livre EXCEPT !.op = "agendar", !.alvo = p,
                     !.passo = IF u = Nulo THEN "gravar" ELSE "conferir",
                     !.linha = Marcado(c, i, f, u)])

\* findOpenForAssignee: the open appointments of the person in that window.
Abertos(linha) ==
    {a \in Pedidos : /\ agenda[a] # Nulo
                     /\ agenda[a].situacao = "scheduled"
                     /\ agenda[a].responsavel = linha.responsavel
                     /\ agenda[a].inicio < linha.fim
                     /\ agenda[a].fim > linha.inicio}

ConferirAgenda(p) ==
    /\ pedido[p].op = "agendar" /\ pedido[p].passo = "conferir"
    /\ \A a \in Abertos(pedido[p].linha) : ~Conflita(pedido[p].linha, agenda[a])
    /\ Seguir(p, "gravar")

\* Mutant of Encerrar: complete and cancel do not ask for an open appointment.
EncerrarSemConferir(p, a, situacao) ==
    /\ agenda[a] # Nulo
    /\ Comecar(p, [Livre EXCEPT !.op = "encerrar", !.passo = "gravar", !.alvo = a,
                     !.linha = [agenda[a] EXCEPT !.situacao = situacao]])

\* Complete or cancel: the appointment is read and must be open.
Encerrar(p, a, situacao) ==
    /\ agenda[a] # Nulo
    /\ agenda[a].situacao = "scheduled"
    /\ Comecar(p, [Livre EXCEPT !.op = "encerrar", !.passo = "gravar", !.alvo = a,
                     !.linha = [agenda[a] EXCEPT !.situacao = situacao]])

\* The upsert of the whole row.
SalvarAgenda(a, linha) == agenda' = [agenda EXCEPT ![a] = linha]

GravarAgenda(p) ==
    LET r == pedido[p]
    IN  /\ r.op \in {"agendar", "encerrar"} /\ r.passo = "gravar"
        /\ SalvarAgenda(r.alvo, r.linha)
        /\ Publicar(p, r.linha.situacao)
        /\ Terminar(p, "feito")
        /\ UNCHANGED <<cliente, notas, agora, antes>>

-----------------------------------------------------------------------------
(* The timeline of a customer.                                             *)

\* Mutant of MaisRecentes: in the order of insertion instead.
MaisAntigos(S, n) ==
    {T \in SUBSET S :
        /\ Cardinality(T) = IF Cardinality(S) < n THEN Cardinality(S) ELSE n
        /\ \A x \in T, y \in S \ T : x.em <= y.em}

\* Which sets an "order by em desc limit n" may return.
MaisRecentes(S, n) ==
    {T \in SUBSET S :
        /\ Cardinality(T) = IF Cardinality(S) < n THEN Cardinality(S) ELSE n
        /\ \A x \in T, y \in S \ T : y.em <= x.em}

ItensDeNotas(c) ==
    {[tipo |-> "note", id |-> n.id, em |-> n.em] : n \in {m \in notas : m.cliente = c}}

\* An appointment stands at the time it is scheduled for.
ItensDaAgenda(c) ==
    {[tipo |-> "appointment", id |-> a, em |-> agenda[a].inicio] :
        a \in {b \in Pedidos : agenda[b] # Nulo /\ agenda[b].cliente = c}}

\* The customer is read, then notes and appointments, each in a transaction.
PedirFicha(p, c) ==
    /\ Existe(c)
    /\ Comecar(p, [Livre EXCEPT !.op = "ficha", !.passo = "notas", !.alvo = c])

ListarNotas(p) ==
    /\ pedido[p].passo = "notas"
    /\ \E T \in MaisRecentes(ItensDeNotas(pedido[p].alvo), MaxItens) :
          pedido' = [pedido EXCEPT ![p].passo = "agenda", ![p].itens = T]
    /\ UNCHANGED <<banco, agora, antes>>

\* The second list, merged with the first, sorted and cut.
ListarAgenda(p) ==
    /\ pedido[p].passo = "agenda"
    /\ \E T \in MaisRecentes(ItensDaAgenda(pedido[p].alvo), MaxItens) :
         \E U \in MaisRecentes(pedido[p].itens \union T, MaxItens) :
            pedido' = [pedido EXCEPT ![p].passo = "fim", ![p].itens = U,
                                     ![p].resposta = "cliente"]
    /\ UNCHANGED <<banco, agora, antes>>

-----------------------------------------------------------------------------
(* The public lookup: in process, or a call to the service.                *)

Achado(c) == IF Existe(c) THEN "cliente" ELSE "null"

\* CrmService.findCustomer in the process of the caller: one read.
Consultar(p, c) ==
    Comecar(p, [Livre EXCEPT !.op = "resumo", !.passo = "fim", !.alvo = c,
                  !.havia = Existe(c), !.resposta = Achado(c)])

\* CrmHttpClient.findCustomer: the call goes out.
Chamar(p, c) ==
    Comecar(p, [Livre EXCEPT !.op = "resumo", !.passo = "rede", !.alvo = c,
                  !.havia = Existe(c)])

\* The service answers 200, with the customer or with null.
Atender(p) ==
    /\ pedido[p].passo = "rede"
    /\ pedido' = [pedido EXCEPT ![p].passo = "volta", ![p].resposta = Achado(pedido[p].alvo)]
    /\ UNCHANGED <<banco, agora, antes>>

Receber(p) ==
    /\ pedido[p].passo = "volta"
    /\ Terminar(p, pedido[p].resposta)
    /\ UNCHANGED <<banco, agora, antes>>

\* The network, the time allowed, the token or the service fails: an error.
Falhar(p) ==
    /\ pedido[p].passo \in {"rede", "volta"}
    /\ Terminar(p, "erro")
    /\ UNCHANGED <<banco, agora, antes>>

\* Any 404 is read as null, whoever answers it: a service without the route, a
\* wrong base address, a proxy on the way.  Our service never answers it.
Receber404(p) ==
    /\ pedido[p].passo = "rede"
    /\ Terminar(p, "null")
    /\ UNCHANGED <<banco, agora, antes>>

-----------------------------------------------------------------------------
PassarTempo ==
    /\ agora < MaxAgora
    /\ agora' = agora + 1
    /\ UNCHANGED <<banco, pedido, antes>>

Chegar(p) ==
    \/ \E d \in Documentos \union {Nulo} : CriarCliente(p, d)
    \/ \E c \in Clientes :
          \/ \E d \in Documentos \union {Nulo, Manter}, mexe \in BOOLEAN :
                AlterarCliente(p, c, d, mexe)
          \/ Anotar(p, c)
          \/ \E i, f \in Instantes, u \in Responsaveis \union {Nulo} : Agendar(p, c, i, f, u)
          \/ PedirFicha(p, c) \/ Consultar(p, c) \/ Chamar(p, c)
    \/ \E a \in Pedidos, s \in {"done", "canceled"} : Encerrar(p, a, s)

Prosseguir(p) ==
    \/ ConferirDono(p) \/ GravarCliente(p) \/ GravarNota(p)
    \/ ConferirAgenda(p) \/ GravarAgenda(p)
    \/ ListarNotas(p) \/ ListarAgenda(p)
    \/ Atender(p) \/ Receber(p) \/ Falhar(p) \/ Receber404(p)
    \/ Desistir(p)

Next == PassarTempo \/ \E p \in Pedidos : Chegar(p) \/ Prosseguir(p)

Spec == Init /\ [][Next]_vars

-----------------------------------------------------------------------------
(* Properties.                                                             *)

\* Neither was over when the other began.
Concorrentes(p, q) == p \notin antes[q] /\ q \notin antes[p]

Publicou(p, tipo, alvo) == [tipo |-> tipo, alvo |-> alvo, por |-> p] \in eventos

\* Two open appointments of one person overlap only if they were scheduled by
\* requests in flight at the same time: nothing in the database forbids it, and
\* the check that ScheduleAppointmentUseCase makes covers everything else.
SobreposicaoSoPorCorrida ==
    \A a, b \in Pedidos :
        a # b /\ agenda[a] # Nulo /\ agenda[b] # Nulo /\ Conflita(agenda[a], agenda[b])
            => Concorrentes(a, b)

\* An appointment that is done or canceled was announced as such, and it is
\* closed a second time only by a request that had read it open while the first
\* was in flight (CloseAppointmentUseCase).
FechoSoPorCorrida ==
    \A a \in Pedidos :
        /\ agenda[a] # Nulo => \E p \in Pedidos : Publicou(p, agenda[a].situacao, a)
        /\ \A p, q \in Pedidos, s, t \in {"done", "canceled"} :
              Publicou(p, s, a) /\ Publicou(q, t, a) /\ p # q
                  => Concorrentes(p, q) /\ agenda[a].situacao # "scheduled"

GravouCliente(p, c) == Publicou(p, "created", c) \/ Publicou(p, "updated", c)

\* The contact somebody gave a customer is the one stored, unless a later
\* request gave another or one in flight at the same time wrote back what it had
\* read (UpdateCustomerUseCase saves whole rows).
AlteracaoSobrevive ==
    \A c \in Clientes, p \in Pedidos :
        GravouCliente(p, c) /\ pedido[p].contato /\ cliente[c].contato # p =>
            \E q \in Pedidos \ {p} :
                /\ GravouCliente(q, c) /\ q \notin antes[p]
                /\ pedido[q].contato \/ Concorrentes(p, q)

\* What p has gathered leaves out an entry of S recorded before p began only if
\* it is full of entries at least as late.
NadaPulado(p, S) ==
    \A x \in S : x.id \in antes[p] /\ x \notin pedido[p].itens =>
        /\ Cardinality(pedido[p].itens) = MaxItens
        /\ \A y \in pedido[p].itens : x.em <= y.em

\* A timeline leaves out what was recorded before it was asked for only when it
\* is full of entries at least as late: cutting each list before the merge
\* (GetCustomerUseCase) loses nothing.
HistoricoNaoPula ==
    \A p \in Pedidos : pedido[p].op = "ficha" /\ pedido[p].resposta = "cliente" =>
        LET c == pedido[p].alvo IN NadaPulado(p, ItensDeNotas(c) \union ItensDaAgenda(c))

-----------------------------------------------------------------------------
(* What the code's own comments say and the model refutes.                 *)

\* Who is told that a customer does not exist asked when it did not: a call that
\* fails is never taken for that answer (CrmHttpClient.findCustomer).
IndisponivelNaoEInexistente ==
    \A p \in Pedidos : pedido[p].passo = "fim" /\ pedido[p].resposta = "null"
        => ~pedido[p].havia

-----------------------------------------------------------------------------
(* The inductive invariant.                                                *)

EmAndamento(p) == pedido[p].passo \notin {"livre", "fim"}

\* What a request remembers is of its kind; closing keeps all it has read.
MemoriaBoa(p) ==
    LET r == pedido[p] IN
    /\ r.passo = "livre" => antes[p] = {}
    /\ r.passo = "conferir" => r.op \in {"alterar", "agendar"}
    /\ r.passo \in {"rede", "volta"} => r.op = "resumo"
    /\ r.havia => r.alvo \in Clientes /\ Existe(r.alvo)
    /\ EmAndamento(p) =>
         /\ r.op \in {"criar", "alterar"} =>
              /\ r.linha \in LinhaDeCliente /\ r.alvo \in Clientes
              /\ r.contato => r.linha.contato = p
         /\ r.op = "criar" => r.contato
         /\ r.op = "anotar" => r.linha \in Nota /\ r.alvo \in Clientes
         /\ r.op = "agendar" =>
              r.linha \in LinhaDeAgenda /\ r.linha.situacao = "scheduled" /\ r.alvo = p
         /\ r.op = "encerrar" =>
              /\ r.linha \in LinhaDeAgenda /\ r.linha.situacao \in {"done", "canceled"}
              /\ r.alvo \in Pedidos /\ agenda[r.alvo] # Nulo
         /\ r.op \in {"ficha", "resumo"} => r.alvo \in Clientes

\* The contact p gave customer c was replaced by another, or by who was in flight.
Coberto(p, c) ==
    \E q \in Pedidos \ {p} : /\ GravouCliente(q, c) /\ q \notin antes[p]
                             /\ pedido[q].contato \/ Concorrentes(p, q)

\* What a request has checked still holds of the requests that were over before it.
PassadoBom(p) ==
    LET r == pedido[p] IN
    /\ antes[p] \subseteq Encerrados
    /\ r.op = "agendar" /\ r.passo = "gravar" =>
         \A a \in antes[p] : agenda[a] # Nulo => ~Conflita(r.linha, agenda[a])
    /\ r.op = "encerrar" /\ EmAndamento(p) =>
         \A q \in antes[p], s \in {"done", "canceled"} : ~Publicou(q, s, r.alvo)
    /\ r.op = "alterar" /\ EmAndamento(p) /\ ~r.contato =>
         \A q \in antes[p] :
            GravouCliente(q, r.alvo) /\ pedido[q].contato /\ r.linha.contato # q
               => Coberto(q, r.alvo)

\* Only who is over has stored or announced anything; what is closed stays closed.
RegistrosBons ==
    /\ \A a \in Pedidos : agenda[a] # Nulo => pedido[a].passo = "fim"
    /\ \A e \in eventos :
         /\ pedido[e.por].passo = "fim"
         /\ e.tipo \in {"done", "canceled"} =>
              /\ e.alvo \in Pedidos /\ agenda[e.alvo] # Nulo
              /\ agenda[e.alvo].situacao # "scheduled"

Inv == /\ TypeOK /\ RegistrosBons
       /\ \A p \in Pedidos : MemoriaBoa(p) /\ PassadoBom(p)
       /\ SobreposicaoSoPorCorrida /\ FechoSoPorCorrida /\ AlteracaoSobrevive

\* What p writes bears its name, and closing an appointment moves no entry; half
\* a timeline already leaves out no note it should have.
FichaBoa(p) ==
    LET r == pedido[p] IN
    /\ r.passo \in {"notas", "agenda"} => r.op = "ficha"
    /\ r.op = "anotar" /\ EmAndamento(p) => r.linha.id = p
    /\ r.op = "encerrar" /\ EmAndamento(p) =>
         /\ r.linha.cliente = agenda[r.alvo].cliente
         /\ r.linha.inicio = agenda[r.alvo].inicio
    /\ r.passo = "agenda" =>
         IsFiniteSet(r.itens) /\ NadaPulado(p, ItensDeNotas(r.alvo))
    /\ r.op = "ficha" /\ r.resposta = "cliente" =>
         r.passo = "fim" /\ NadaPulado(p, ItensDeNotas(r.alvo) \union ItensDaAgenda(r.alvo))

Agendados == {a \in Pedidos : agenda[a] # Nulo}

\* What there is to list is finite, and comes from requests that are over.
ListasBoas ==
    /\ IsFiniteSet(notas) /\ \A n \in notas : pedido[n.id].passo = "fim"
    /\ IsFiniteSet(Agendados)

FichasBoas == ListasBoas /\ \A p \in Pedidos : FichaBoa(p)
=============================================================================
