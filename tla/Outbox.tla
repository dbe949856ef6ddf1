------------------------------- MODULE Outbox -------------------------------
(***************************************************************************)
(* The transactional outbox and its dispatcher (packages/events, apps/     *)
(* worker): the rows of platform_outbox, and the workers that read a batch *)
(* of pending rows in one transaction, call the handlers with no           *)
(* transaction open, and write the outcome of each event back in others.   *)
(*                                                                         *)
(* One step is one transaction of the database or one call of a handler;   *)
(* everything the dispatcher keeps between two of them (the batch, the     *)
(* attempts it read, the handlers still to call) is in worker[w] and is    *)
(* lost when the process dies.                                             *)
(***************************************************************************)
EXTENDS Naturals, FiniteSets

CONSTANTS
    Eventos,             \* rows platform_outbox may come to hold
    Empresas,            \* tenants
    Handlers,            \* names of the registered handlers
    Workers,             \* worker processes (replicas of apps/worker)
    Empresa,             \* Empresa[e]: the tenant that owns e
    Assinantes,          \* Assinantes[e]: handlers for which handlerAtende holds
    Instaveis,           \* handlers whose integration may fail
    MaximoDeTentativas,  \* maximoDeTentativas
    TamanhoDoLote,       \* tamanhoDoLote
    LimiteDeEmpresas,    \* limit of platform_outbox_pending_tenants
    MaxPanes,            \* bound: crashes and database failures in a behaviour
    Ninguem              \* "no event", "no handler"

\* Every handler name is unique, at least one attempt is made, a batch has
\* room for one event and a cycle for one tenant.
ASSUME OutboxAssumption ==
    /\ IsFiniteSet(Eventos) /\ IsFiniteSet(Handlers) /\ IsFiniteSet(Empresas)
    /\ Empresa \in [Eventos -> Empresas]
    /\ Assinantes \in [Eventos -> SUBSET Handlers]
    /\ Instaveis \subseteq Handlers
    /\ MaximoDeTentativas \in Nat \ {0}
    /\ TamanhoDoLote \in Nat \ {0}
    /\ LimiteDeEmpresas \in Nat \ {0}
    /\ MaxPanes \in Nat
    /\ Ninguem \notin Eventos \union Handlers

VARIABLES
    status,        \* status[e]: "ausente" before the row exists
    attempts,      \* attempts[e]
    deliveredTo,   \* deliveredTo[e]: the delivered_to array, as a set
    vez,           \* vez[e]: place of e in the order by available_at among the
                   \*   rows with available_at <= now(); 0 when not eligible
    recebido,      \* history: recebido[e] = handlers whose effect happened
    worker,        \* worker[w]: what the process holds in memory
    panes          \* crashes and failed transactions so far

linhas == <<status, attempts, deliveredTo, vez>>
vars == <<linhas, recebido, worker, panes>>

-----------------------------------------------------------------------------
Fases == {"parado", "ocioso", "ciclo", "entregando", "tratado"}

Memoria == [fase      : Fases,
            empresas  : SUBSET Empresas,           \* tenants left in the cycle
            lote      : SUBSET Eventos,            \* events left in the batch
            lido      : [Eventos -> 0 .. MaximoDeTentativas - 1],
                                                   \* attempts when it was read
            atual     : Eventos \union {Ninguem},
            pendentes : SUBSET Handlers,           \* handlers still to call
            handler   : Handlers \union {Ninguem}, \* called, not yet recorded
            falhou    : BOOLEAN]                   \* falhas.length > 0

Vazia(f) == [fase |-> f, empresas |-> {}, lote |-> {},
             lido |-> [e \in Eventos |-> 0], atual |-> Ninguem,
             pendentes |-> {}, handler |-> Ninguem, falhou |-> FALSE]

TypeOK ==
    /\ status \in [Eventos -> {"ausente", "pending", "delivered", "dead"}]
    /\ attempts \in [Eventos -> 0 .. MaximoDeTentativas]
    /\ deliveredTo \in [Eventos -> SUBSET Handlers]
    /\ vez \in [Eventos -> Nat]
    /\ recebido \in [Eventos -> SUBSET Handlers]
    /\ worker \in [Workers -> Memoria]
    /\ panes \in 0 .. MaxPanes

Init ==
    /\ status = [e \in Eventos |-> "ausente"]
    /\ attempts = [e \in Eventos |-> 0]
    /\ deliveredTo = [e \in Eventos |-> {}]
    /\ vez = [e \in Eventos |-> 0]
    /\ recebido = [e \in Eventos |-> {}]
    /\ worker = [w \in Workers |-> Vazia("ocioso")]
    /\ panes = 0

-----------------------------------------------------------------------------
(* The order by available_at.                                              *)

Elegiveis == {e \in Eventos : vez[e] > 0}

\* e becomes eligible at place k; those behind it move back.
Entrar(e, k) == [x \in Eventos |-> IF x = e THEN k
                                   ELSE IF vez[x] >= k THEN vez[x] + 1
                                   ELSE vez[x]]

\* e leaves the line; those behind it move up.
Sair(e) == [x \in Eventos |-> IF x = e \/ vez[e] = 0
                              THEN IF x = e THEN 0 ELSE vez[x]
                              ELSE IF vez[x] > vez[e] THEN vez[x] - 1
                              ELSE vez[x]]

\* available_at = new Date() of the process that writes it: the row may land
\* anywhere in the line, or behind the clock of the database (place 0).
EntrarPeloRelogioDoProcesso(e) ==
    \/ \E k \in 1 .. Cardinality(Elegiveis) + 1 : vez' = Entrar(e, k)
    \/ UNCHANGED vez

-----------------------------------------------------------------------------
(* Rows.                                                                   *)

\* DrizzleEventPublisher.publish, inside the unit of work of a use case.
Publicar(e) ==
    /\ status[e] = "ausente"
    /\ status' = [status EXCEPT ![e] = "pending"]
    /\ EntrarPeloRelogioDoProcesso(e)
    /\ UNCHANGED <<attempts, deliveredTo, recebido, worker, panes>>

\* available_at passes: the row is now the last of the eligible ones.
Amadurecer(e) ==
    /\ status[e] = "pending" /\ vez[e] = 0
    /\ vez' = Entrar(e, Cardinality(Elegiveis) + 1)
    /\ UNCHANGED <<status, attempts, deliveredTo, recebido, worker, panes>>

\* Mutant of Reviver: the update has no "status = 'dead'" in its where.
ReviverQualquer(e) ==
    /\ status[e] # "ausente"
    /\ status' = [status EXCEPT ![e] = "pending"]
    /\ attempts' = [attempts EXCEPT ![e] = 0]
    /\ EntrarPeloRelogioDoProcesso(e)
    /\ UNCHANGED <<deliveredTo, recebido, worker, panes>>

\* DrizzleOutbox.reviver: only a dead row, and delivered_to is kept.
Reviver(e) ==
    /\ status[e] = "dead"
    /\ status' = [status EXCEPT ![e] = "pending"]
    /\ attempts' = [attempts EXCEPT ![e] = 0]
    /\ EntrarPeloRelogioDoProcesso(e)
    /\ UNCHANGED <<deliveredTo, recebido, worker, panes>>

-----------------------------------------------------------------------------
(* A cycle of worker w.                                                    *)

\* processarCiclo: ask which tenants have an eligible pending row (none, often).
ComPendencia == {Empresa[e] : e \in {x \in Elegiveis : status[x] = "pending"}}

IniciarCiclo(w) ==
    /\ worker[w].fase = "ocioso"
    /\ \E T \in SUBSET ComPendencia :
        /\ \/ T = ComPendencia /\ Cardinality(T) <= LimiteDeEmpresas
           \/ Cardinality(T) = LimiteDeEmpresas
        /\ worker' = [worker EXCEPT ![w].fase = "ciclo", ![w].empresas = T]
    /\ UNCHANGED <<linhas, recebido, panes>>

\* Rows another worker is writing at this moment are locked, and skipped.
PodemEstarTravadas(w) ==
    {worker[v].atual : v \in Workers \ {w}} \ {Ninguem}

\* DrizzleOutbox.lote.  Its transaction ends with it, and so do the locks.
Lote(w, t) ==
    /\ worker[w].fase = "ciclo" /\ worker[w].lote = {}
    /\ t \in worker[w].empresas
    /\ \E puladas \in SUBSET PodemEstarTravadas(w) :
        LET candidatas == {e \in Elegiveis \ puladas :
                              Empresa[e] = t /\ status[e] = "pending"}
            lote == {e \in candidatas :
                       Cardinality({x \in candidatas : vez[x] < vez[e]})
                           < TamanhoDoLote}
        IN worker' = [worker EXCEPT
                ![w].empresas = @ \ {t},
                ![w].lote = lote,
                ![w].lido = [e \in Eventos |->
                                IF e \in lote THEN attempts[e] ELSE 0]]
    /\ UNCHANGED <<linhas, recebido, panes>>

\* Mutant of AbrirEvento: every subscribed handler is called again.
AbrirEventoSemFiltro(w, e) ==
    /\ worker[w].fase = "ciclo"
    /\ e \in worker[w].lote
    /\ worker' = [worker EXCEPT
            ![w].fase = "entregando", ![w].lote = @ \ {e}, ![w].atual = e,
            ![w].pendentes = Assinantes[e], ![w].falhou = FALSE]
    /\ UNCHANGED <<linhas, recebido, panes>>

\* entregar, first part: entreguesA, then the handlers that still miss it.
AbrirEvento(w, e) ==
    /\ worker[w].fase = "ciclo"
    /\ e \in worker[w].lote
    /\ worker' = [worker EXCEPT
            ![w].fase = "entregando",
            ![w].lote = @ \ {e},
            ![w].atual = e,
            ![w].pendentes = Assinantes[e] \ deliveredTo[e],
            ![w].falhou = FALSE]
    /\ UNCHANGED <<linhas, recebido, panes>>

\* handler.handle(evento) resolves: its effect has happened.
TratarComExito(w, h) ==
    /\ worker[w].fase = "entregando"
    /\ h \in worker[w].pendentes
    /\ recebido' = [recebido EXCEPT ![worker[w].atual] = @ \union {h}]
    /\ worker' = [worker EXCEPT ![w].fase = "tratado", ![w].handler = h,
                                ![w].pendentes = @ \ {h}]
    /\ UNCHANGED <<linhas, panes>>

\* Mutant of TratarComFalha: the delivery is recorded in a finally.
TratarComFalhaRegistrada(w, h) ==
    /\ worker[w].fase = "entregando"
    /\ h \in worker[w].pendentes \intersect Instaveis
    /\ worker' = [worker EXCEPT ![w].fase = "tratado", ![w].handler = h,
                       ![w].falhou = TRUE, ![w].pendentes = @ \ {h}]
    /\ UNCHANGED <<linhas, recebido, panes>>

\* Mutant of TratarComFalha: the first failure leaves the loop.
TratarComFalhaInterrompe(w, h) ==
    /\ worker[w].fase = "entregando"
    /\ h \in worker[w].pendentes \intersect Instaveis
    /\ worker' = [worker EXCEPT ![w].falhou = TRUE, ![w].pendentes = {}]
    /\ UNCHANGED <<linhas, recebido, panes>>

\* handler.handle(evento) rejects, before its effect or after it (a timeout
\* of the webhook that did receive the call).
TratarComFalha(w, h) ==
    /\ worker[w].fase = "entregando"
    /\ h \in worker[w].pendentes \intersect Instaveis
    /\ \/ UNCHANGED recebido
       \/ recebido' = [recebido EXCEPT ![worker[w].atual] = @ \union {h}]
    /\ worker' = [worker EXCEPT ![w].falhou = TRUE, ![w].pendentes = @ \ {h}]
    /\ UNCHANGED <<linhas, panes>>

\* registrarEntrega: array_append, unless the handler is already there.
RegistrarEntrega(w) ==
    /\ worker[w].fase = "tratado"
    /\ deliveredTo' = [deliveredTo EXCEPT
            ![worker[w].atual] = @ \union {worker[w].handler}]
    /\ worker' = [worker EXCEPT ![w].fase = "entregando",
                                ![w].handler = Ninguem]
    /\ UNCHANGED <<status, attempts, vez, recebido, panes>>

\* registrarEntrega rejects: the same catch as a handler that failed.
RegistrarEntregaFalha(w) ==
    /\ worker[w].fase = "tratado"
    /\ panes < MaxPanes
    /\ panes' = panes + 1
    /\ worker' = [worker EXCEPT ![w].fase = "entregando",
                                ![w].handler = Ninguem, ![w].falhou = TRUE]
    /\ UNCHANGED <<linhas, recebido>>

\* The worker is done with its current event and forgets it.
FecharAtual(w) ==
    worker' = [worker EXCEPT ![w].fase = "ciclo", ![w].atual = Ninguem,
                             ![w].falhou = FALSE,
                             ![w].lido[worker[w].atual] = 0]

\* Mutant of Concluir: closes the event although a handler failed.
ConcluirComFalha(w) ==
    /\ worker[w].fase = "entregando" /\ worker[w].pendentes = {}
    /\ status' = [status EXCEPT ![worker[w].atual] = "delivered"]
    /\ vez' = Sair(worker[w].atual)
    /\ FecharAtual(w)
    /\ UNCHANGED <<attempts, deliveredTo, recebido, panes>>

\* No handler failed: concluir, whatever the row has become meanwhile.
Concluir(w) ==
    LET e == worker[w].atual IN
    /\ worker[w].fase = "entregando"
    /\ worker[w].pendentes = {} /\ ~worker[w].falhou
    /\ status' = [status EXCEPT ![e] = "delivered"]
    /\ vez' = Sair(e)
    /\ FecharAtual(w)
    /\ UNCHANGED <<attempts, deliveredTo, recebido, panes>>

\* Adiar with k as the new attempts and morto as the test of the limit.
AdiarCom(w, k, morto) ==
    LET e == worker[w].atual IN
    /\ worker[w].fase = "entregando"
    /\ worker[w].pendentes = {} /\ worker[w].falhou
    /\ attempts' = [attempts EXCEPT ![e] = k]
    /\ status' = [status EXCEPT ![e] = IF morto THEN "dead" ELSE @]
    /\ vez' = Sair(e)
    /\ FecharAtual(w)
    /\ UNCHANGED <<deliveredTo, recebido, panes>>

\* Mutants of Adiar: nobody gives up; gives up one early; does not count.
AdiarParaSempre(w) == AdiarCom(w, worker[w].lido[worker[w].atual] + 1, FALSE)
AdiarMorreAntes(w) ==
    LET k == worker[w].lido[worker[w].atual] + 1
    IN AdiarCom(w, k, k >= MaximoDeTentativas - 1)
AdiarSemContar(w) ==
    LET k == worker[w].lido[worker[w].atual]
    IN AdiarCom(w, k, k >= MaximoDeTentativas)

\* Some handler failed: adiar, with the attempts that came with the batch.
Adiar(w) ==
    LET tentativas == worker[w].lido[worker[w].atual] + 1
    IN AdiarCom(w, tentativas, tentativas >= MaximoDeTentativas)

\* No event and no tenant left: the worker sleeps until the next cycle.
TerminarCiclo(w) ==
    /\ worker[w].fase = "ciclo"
    /\ worker[w].lote = {} /\ worker[w].empresas = {}
    /\ worker' = [worker EXCEPT ![w] = Vazia("ocioso")]
    /\ UNCHANGED <<linhas, recebido, panes>>

\* A transaction outside the try (lote, entreguesA, concluir, adiar) rejects:
\* the whole cycle is dropped, and iniciar() starts another one later.
FalharCiclo(w) ==
    /\ \/ worker[w].fase = "ciclo"
       \/ worker[w].fase = "entregando" /\ worker[w].pendentes = {}
    /\ panes < MaxPanes
    /\ panes' = panes + 1
    /\ worker' = [worker EXCEPT ![w] = Vazia("ocioso")]
    /\ UNCHANGED <<linhas, recebido>>

\* The process stops wherever it is: it is killed, or it gets SIGTERM, which
\* clears a flag nobody waits on, closes the pool and calls process.exit(0).
Encerrar(w) ==
    /\ worker[w].fase # "parado"
    /\ panes < MaxPanes
    /\ panes' = panes + 1
    /\ worker' = [worker EXCEPT ![w] = Vazia("parado")]
    /\ UNCHANGED <<linhas, recebido>>

\* The orchestrator starts the process again.
Reiniciar(w) ==
    /\ worker[w].fase = "parado"
    /\ worker' = [worker EXCEPT ![w] = Vazia("ocioso")]
    /\ UNCHANGED <<linhas, recebido, panes>>

-----------------------------------------------------------------------------
\* What worker w does of its own accord, once a cycle is possible.
Passo(w) ==
    \/ IniciarCiclo(w)
    \/ \E t \in Empresas : Lote(w, t)
    \/ \E e \in Eventos : AbrirEvento(w, e)
    \/ \E h \in Handlers : TratarComExito(w, h) \/ TratarComFalha(w, h)
    \/ RegistrarEntrega(w)
    \/ Concluir(w)
    \/ Adiar(w)
    \/ TerminarCiclo(w)
    \/ Reiniciar(w)

Pane(w) ==
    \/ RegistrarEntregaFalha(w)
    \/ FalharCiclo(w)
    \/ Encerrar(w)

Next ==
    \/ \E e \in Eventos : Publicar(e) \/ Amadurecer(e) \/ Reviver(e)
    \/ \E w \in Workers : Passo(w) \/ Pane(w)

Spec == Init /\ [][Next]_vars

\* Time passes, and every worker keeps running (while rodando) and is started
\* again after it dies.  Nothing obliges anyone to publish or to revive.
Fairness ==
    /\ \A e \in Eventos : WF_vars(Amadurecer(e))
    /\ \A w \in Workers : WF_vars(Passo(w))

FairSpec == Spec /\ Fairness
-----------------------------------------------------------------------------
(* Properties with any number of workers.                                  *)

\* A handler's name is in delivered_to only if its effect happened: no crash,
\* failure or second worker records a delivery nobody received.
RegistroTemEfeito == \A e \in Eventos : deliveredTo[e] \subseteq recebido[e]

\* A row that may still be tried has an attempt left.
TentativasRestantes ==
    \A e \in Eventos :
        status[e] \in {"ausente", "pending"} => attempts[e] < MaximoDeTentativas

\* The event worker w is on exists, only subscribers are to be called, and as
\* long as falhas is empty every subscriber already passed has received it.
EmCursoCoerente(w) ==
    LET e == worker[w].atual IN
    worker[w].fase \in {"entregando", "tratado"} =>
        /\ e \in Eventos
        /\ status[e] # "ausente"
        /\ worker[w].pendentes \subseteq Assinantes[e]
        /\ worker[w].falhou \/ Assinantes[e] \ worker[w].pendentes \subseteq recebido[e]
        /\ worker[w].fase = "tratado" => worker[w].handler \in recebido[e]

\* What a worker remembers stays true of the rows while it holds no
\* transaction and the other workers write.
MemoriaCoerente ==
    /\ TentativasRestantes
    /\ \A w \in Workers :
          /\ \A e \in worker[w].lote : status[e] # "ausente"
          /\ EmCursoCoerente(w)

\* The outbox keeps its promise: nothing published disappears, and an event is
\* closed as delivered only when every subscriber has received it.
Promessa == INSTANCE AtLeastOnce WITH situacao <- status
CumpreAPromessa == Promessa!Spec

-----------------------------------------------------------------------------
(* Properties the dispatcher owes to there being one worker.               *)

UmSoWorker == \A v, w \in Workers : v = w

\* A retry, a revival or a restart never calls a handler whose delivery is
\* already recorded, whether the call then succeeds or fails.
RetryNaoRepete ==
    \A w \in Workers : worker[w].fase = "entregando" =>
        worker[w].pendentes \intersect deliveredTo[worker[w].atual] = {}

\* The dead letter queue holds events that used up all their attempts, and
\* only those.
MortoSoNoLimite ==
    \A e \in Eventos : status[e] = "dead" <=> attempts[e] = MaximoDeTentativas

\* A delivered event is never tried, delayed or declared dead afterwards.
EntregueEFinal ==
    [][\A e \in Eventos : status[e] = "delivered" =>
          /\ status'[e] = "delivered"
          /\ attempts'[e] = attempts[e]
          /\ recebido'[e] = recebido[e]]_vars

\* What makes them hold: what the worker remembers of a row is still so when it
\* writes, and no handler is both called and still to be called.
MemoriaFiel(w) ==
    /\ \A e \in worker[w].lote : status[e] = "pending" /\ worker[w].lido[e] = attempts[e]
    /\ worker[w].fase \in {"entregando", "tratado"} =>
          LET e == worker[w].atual IN
          /\ e \notin worker[w].lote
          /\ status[e] = "pending" /\ worker[w].lido[e] = attempts[e]
          /\ worker[w].pendentes \intersect deliveredTo[e] = {}
          /\ worker[w].fase = "tratado" => worker[w].handler \notin worker[w].pendentes

SozinhoInv == MortoSoNoLimite /\ \A w \in Workers : MemoriaFiel(w)

-----------------------------------------------------------------------------
(* Liveness, under FairSpec.                                               *)

\* Every published event is delivered or declared dead in the end.
TodoEventoTermina ==
    \A e \in Eventos : status[e] = "pending" ~> status[e] \in {"delivered", "dead"}

\* An integration that is down never keeps an event from the handlers that
\* work: each of them receives every event it subscribes to.
EstavelRecebe ==
    \A e \in Eventos : \A h \in Assinantes[e] \ Instaveis :
        status[e] = "pending" ~> h \in recebido[e]
=============================================================================
