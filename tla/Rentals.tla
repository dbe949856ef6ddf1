------------------------------ MODULE Rentals -------------------------------
(***************************************************************************)
(* The operations module (modules/operations) on top of assets: a rental   *)
(* is born of a contract in force and owns a hold of the equipment.        *)
(*                                                                         *)
(* A use case reads the rental in a transaction of its own and decides on  *)
(* what it read.  Its unit of work is one transaction: the save of the     *)
(* rental locks the row, then, for a return or a cancellation, the hold is *)
(* read, released and saved, and the commit makes everything visible.      *)
(* Contracts are the environment here: a rental only looks at a contract   *)
(* when it is scheduled.  That real contracts move as AndamentoDoContrato  *)
(* lets them is EvoluiComoOperacoesSupoe of module Contracts.              *)
(***************************************************************************)
EXTENDS Assets

CONSTANTS
    Locacoes,    \* ids of rentals
    Contratos,   \* contracts that reached a customer
    Operadores,  \* requests being served by the operations module
    InicioDo,    \* InicioDo[c], FimDo[c]: the term of contract c
    FimDo

ASSUME RentalsAssumption ==
    /\ InicioDo \in [Contratos -> Nat]
    /\ FimDo \in [Contratos -> Nat]
    /\ Nenhum \notin Locacoes \union Contratos

VARIABLES
    contrato,       \* contrato[c]: the status column; "closed" is finished or
                    \*   canceled, which a rental does not tell apart
    locacao,        \* locacao[r]: the row of the rental
    tarefa,         \* tarefa[o]: what a request of operations remembers
    encerramentos   \* history: rental.finished and rental.canceled events of r

rvars == <<contrato, locacao, tarefa, encerramentos>>
vars == <<agora, avars, rvars>>

-----------------------------------------------------------------------------
Situacoes == {"ausente", "scheduled", "active", "finished", "canceled"}

LinhaDeLocacao == [status : Situacoes, ativo : Ativos \union {Nenhum},
                   bloqueio : Bloqueios \union {Nenhum}, inicio : Nat, fim : Nat]

\* trancada: the unit of work is open and holds the lock of the rental's row.
Tarefa == [op : {"livre", "programar", "reservar", "retirar", "devolver", "cancelar"},
           trancada : BOOLEAN, locacao : Locacoes \union {Nenhum},
           ativo : Ativos \union {Nenhum}, inicio : Nat, fim : Nat]

SemTarefa == [op |-> "livre", trancada |-> FALSE, locacao |-> Nenhum,
              ativo |-> Nenhum, inicio |-> 0, fim |-> 0]

TypeOK ==
    /\ AtivosTypeOK
    /\ contrato \in [Contratos -> {"draft", "active", "closed"}]
    /\ locacao \in [Locacoes -> LinhaDeLocacao]
    /\ tarefa \in [Operadores -> Tarefa]
    /\ encerramentos \in [Locacoes -> Nat]

Init ==
    /\ AtivosInit
    /\ contrato = [c \in Contratos |-> "draft"]
    /\ locacao = [r \in Locacoes |-> [status |-> "ausente", ativo |-> Nenhum,
                     bloqueio |-> Nenhum, inicio |-> 0, fim |-> 0]]
    /\ tarefa = [o \in Operadores |-> SemTarefa]
    /\ encerramentos = [r \in Locacoes |-> 0]

-----------------------------------------------------------------------------
(* Contracts, as operations sees them.                                     *)

\* situacao: an active contract whose term is over reads as "expired".
SituacaoDoContrato(c) ==
    IF contrato[c] = "active" /\ FimDo[c] <= agora THEN "expired" ELSE contrato[c]

\* Mutant of AndamentoDoContrato: the save stores the situation that is only
\* ever derived on a read.
AndamentoGravaSituacao(c, st) ==
    /\ st = "active" \/ contrato[c] # "draft"
    /\ contrato' = [contrato EXCEPT ![c] =
          IF st = "active" /\ FimDo[c] <= agora THEN "expired" ELSE st]
    /\ UNCHANGED <<agora, avars, locacao, tarefa, encerramentos>>

\* Activation and closing.  Their saves carry the status a request decided on
\* earlier, so a late one may undo another; none goes back to draft.
AndamentoDoContrato(c, st) ==
    /\ st = "active" \/ contrato[c] # "draft"
    /\ contrato' = [contrato EXCEPT ![c] = st]
    /\ UNCHANGED <<agora, avars, locacao, tarefa, encerramentos>>

-----------------------------------------------------------------------------
(* Requests of operations.                                                 *)

AtenderOperacao(o, op, r, a, inicio, fim) ==
    /\ tarefa[o].op = "livre"
    /\ tarefa' = [tarefa EXCEPT ![o] =
          [op |-> op, trancada |-> FALSE, locacao |-> r, ativo |-> a,
           inicio |-> inicio, fim |-> fim]]
    /\ UNCHANGED <<agora, avars, contrato, locacao, encerramentos>>

Concluida(o) == tarefa' = [tarefa EXCEPT ![o] = SemTarefa]

\* Another transaction has written the row of r and not committed yet.
Trancada(r) == \E o \in Operadores : tarefa[o].trancada /\ tarefa[o].locacao = r

\* What release() asks of the hold of r, read inside the unit of work.
PodeLiberar(r) ==
    /\ locacao[r].bloqueio # Nenhum
    /\ Aberto(bloqueio[locacao[r].bloqueio], agora)

\* ScheduleRentalUseCase before its unit of work.
LerContrato(o, c, a, inicio, fim) ==
    /\ SituacaoDoContrato(c) = "active"
    /\ inicio >= InicioDo[c] /\ fim <= FimDo[c]
    /\ ativo[a] # "ausente"
    /\ inicio < fim
    /\ AtenderOperacao(o, "programar", Nenhum, a, inicio, fim)

\* Rental.schedule of what request t carries, on hold b.
Programada(t, b) ==
    [status |-> "scheduled", ativo |-> t.ativo, bloqueio |-> b,
     inicio |-> t.inicio, fim |-> t.fim]

\* Its unit of work up to the reservation: HoldAssetUseCase runs inside it and
\* finds an active asset, free for the period.  Nothing is locked by that.
ConferirReserva(o) ==
    LET t == tarefa[o] IN
    /\ t.op = "programar"
    /\ ativo[t.ativo] = "active"
    /\ Desimpedido(t.ativo, t.inicio, t.fim)
    /\ tarefa' = [tarefa EXCEPT ![o].op = "reservar"]
    /\ UNCHANGED <<agora, avars, contrato, locacao, encerramentos>>

\* Mutant of GravarProgramacao: the rental is saved, the hold of another
\* period is reserved (the whole term of the contract: until the bound).
GravarProgramacaoAteOFim(o, r, b) ==
    LET t == tarefa[o] IN
    /\ t.op = "reservar"
    /\ locacao[r].status = "ausente"
    /\ t.fim > agora
    /\ Inserir(b, t.ativo, t.inicio, MaxTempo)
    /\ locacao' = [locacao EXCEPT ![r] = Programada(t, b)]
    /\ Concluida(o)
    /\ UNCHANGED <<agora, ativo, pedido, contrato, encerramentos>>

\* ... and its inserts and commit: the hold, if the constraint accepts it, and
\* the rental with the id of the hold.  Neither the contract nor the asset is
\* looked at again.
GravarProgramacao(o, r, b) ==
    LET t == tarefa[o] IN
    /\ t.op = "reservar"
    /\ locacao[r].status = "ausente"
    /\ t.fim > agora
    /\ Inserir(b, t.ativo, t.inicio, t.fim)
    /\ locacao' = [locacao EXCEPT ![r] = Programada(t, b)]
    /\ Concluida(o)
    /\ UNCHANGED <<agora, ativo, pedido, contrato, encerramentos>>

\* exigirLocacao, then start(), finish() or cancel() on what was read.
LerLocacao(o, r, op) ==
    /\ \/ op = "retirar"  /\ locacao[r].status = "scheduled"
       \/ op = "devolver" /\ locacao[r].status = "active"
       \/ op = "cancelar" /\ locacao[r].status = "scheduled"
    /\ AtenderOperacao(o, op, r, Nenhum, 0, 0)

\* StartRentalUseCase: the save waits for the lock and asks nothing.
GravarRetirada(o) ==
    /\ tarefa[o].op = "retirar"
    /\ ~Trancada(tarefa[o].locacao)
    /\ locacao' = [locacao EXCEPT ![tarefa[o].locacao].status = "active"]
    /\ Concluida(o)
    /\ UNCHANGED <<agora, avars, contrato, encerramentos>>

\* Mutant of Trancar: the hold was released by someone else: go on anyway.
TrancarSemConferir(o) ==
    /\ tarefa[o].op \in {"devolver", "cancelar"} /\ ~tarefa[o].trancada
    /\ ~Trancada(tarefa[o].locacao)
    /\ tarefa' = [tarefa EXCEPT ![o].trancada = TRUE, ![o].inicio = agora]
    /\ UNCHANGED <<agora, avars, contrato, locacao, encerramentos>>

\* Finish and Cancel, the unit of work up to release(): the save locks the
\* row of the rental, the hold is read and must be open; inicio keeps the
\* instant that will be released_at.
Trancar(o) ==
    /\ tarefa[o].op \in {"devolver", "cancelar"} /\ ~tarefa[o].trancada
    /\ ~Trancada(tarefa[o].locacao)
    /\ PodeLiberar(tarefa[o].locacao)
    /\ tarefa' = [tarefa EXCEPT ![o].trancada = TRUE, ![o].inicio = agora]
    /\ UNCHANGED <<agora, avars, contrato, locacao, encerramentos>>

\* Mutant of GravarEncerramento: outside the unit of work, the hold is left
\* for later.
GravarEncerramentoSemLiberar(o) ==
    LET r == tarefa[o].locacao IN
    /\ tarefa[o].trancada
    /\ locacao' = [locacao EXCEPT ![r].status =
                      IF tarefa[o].op = "devolver" THEN "finished" ELSE "canceled"]
    /\ encerramentos' = [encerramentos EXCEPT ![r] = @ + 1]
    /\ Concluida(o)
    /\ UNCHANGED <<agora, avars, contrato>>

\* ... and its commit: status, released_at and the event together.
GravarEncerramento(o) ==
    LET r == tarefa[o].locacao IN
    /\ tarefa[o].trancada
    /\ locacao' = [locacao EXCEPT ![r].status =
                      IF tarefa[o].op = "devolver" THEN "finished" ELSE "canceled"]
    /\ Liberar(locacao[r].bloqueio, tarefa[o].inicio)
    /\ encerramentos' = [encerramentos EXCEPT ![r] = @ + 1]
    /\ Concluida(o)
    /\ UNCHANGED <<agora, ativo, pedido, contrato>>

\* The request ends without a commit: a refusal, or a failure that rolls the
\* unit of work back and gives the lock up.
Desistir(o) ==
    /\ tarefa[o].op # "livre"
    /\ Concluida(o)
    /\ UNCHANGED <<agora, avars, contrato, locacao, encerramentos>>

Next ==
    \/ AtivosNext /\ UNCHANGED rvars
    \/ \E c \in Contratos : \E st \in {"active", "closed"} :
          AndamentoDoContrato(c, st)
    \/ \E o \in Operadores :
          \/ \E c \in Contratos, a \in Ativos : \E i, f \in Instantes :
                LerContrato(o, c, a, i, f)
          \/ ConferirReserva(o)
          \/ \E r \in Locacoes, b \in Bloqueios : GravarProgramacao(o, r, b)
          \/ \E r \in Locacoes : \E op \in {"retirar", "devolver", "cancelar"} :
                LerLocacao(o, r, op)
          \/ GravarRetirada(o) \/ Trancar(o) \/ GravarEncerramento(o)
          \/ Desistir(o)

Spec == Init /\ [][Next]_vars

-----------------------------------------------------------------------------
(* Properties.                                                             *)

\* Every rental owns a hold of its own equipment for exactly its period, and
\* no two rentals share one, although holds are another module's rows.
ReservaDaLocacao ==
    \A r \in Locacoes : locacao[r].status # "ausente" =>
        LET b == locacao[r].bloqueio IN
        /\ b # Nenhum /\ Existe(b)
        /\ bloqueio[b].ativo = locacao[r].ativo
        /\ bloqueio[b].inicio = locacao[r].inicio
        /\ bloqueio[b].fim = locacao[r].fim
        /\ \A q \in Locacoes \ {r} :
              locacao[q].status # "ausente" => locacao[q].bloqueio # b

\* A rental is closed at most once: rental.finished and rental.canceled, which
\* billing consumes, come to one event in all, although every request decides
\* on a status it read earlier and the save asks nothing.
EncerramentoUnico == \A r \in Locacoes : encerramentos[r] <= 1

\* prendeOEquipamento: the rental keeps its equipment for its period.
Viva(r) == locacao[r].status \in {"scheduled", "active"}

\* Two rentals promise one piece of equipment for a common instant.
Dupla(r, q) ==
    /\ r # q /\ Viva(r) /\ Viva(q) /\ locacao[r].ativo = locacao[q].ativo
    /\ locacao[r].inicio < locacao[q].fim /\ locacao[q].inicio < locacao[r].fim

\* Operators who found the same equipment free at the same time, and requests
\* of the assets module among them, promise it to one rental only.  The one way
\* to promise it twice is a hold somebody released under a live rental.
DuplaSoPorLiberacao ==
    \A r, q \in Locacoes : Dupla(r, q) =>
        \E p \in {r, q} : bloqueio[locacao[p].bloqueio].liberado # Nunca

\* A returned or canceled rental no longer keeps its equipment.
EncerradaLibera ==
    \A r \in Locacoes : locacao[r].status \in {"finished", "canceled"} =>
        ~Aberto(bloqueio[locacao[r].bloqueio], agora)

-----------------------------------------------------------------------------
(* The inductive invariant of the proofs.                                  *)

\* A hold is a period, and is released while it is open: before its end, and
\* never at an instant that is still to come.
LinhaBoa(h, t) ==
    /\ h.ativo \in Ativos /\ h.inicio < h.fim
    /\ h.liberado # Nunca => h.liberado < h.fim /\ h.liberado <= t

BloqueiosBons == \A b \in Bloqueios : Existe(b) => LinhaBoa(bloqueio[b], agora)

\* A release instant t of hold b that is on its way to the row.
InstanteBom(b, t) == /\ b \in Bloqueios /\ Existe(b)
                     /\ t \in Nat /\ t <= agora /\ t < bloqueio[b].fim

PedidoBom(s) ==
    /\ pedido[s].op = "bloquear" =>
          pedido[s].ativo \in Ativos /\ pedido[s].inicio < pedido[s].fim
    /\ pedido[s].op = "liberar" => InstanteBom(pedido[s].bloqueio, pedido[s].inicio)
    /\ pedido[s].op \in {"baixar", "editar"} => pedido[s].ativo \in Ativos

\* The lock of a rental belongs to one request, and as long as it is held the
\* rental has not been closed yet.
TarefaBoa(o) ==
    LET t == tarefa[o] IN
    /\ t.op \in {"programar", "reservar"} => t.ativo \in Ativos /\ t.inicio < t.fim
    /\ t.op \in {"retirar", "devolver", "cancelar"} =>
          t.locacao \in Locacoes /\ locacao[t.locacao].status # "ausente"
    /\ t.trancada =>
          /\ t.op \in {"devolver", "cancelar"}
          /\ InstanteBom(locacao[t.locacao].bloqueio, t.inicio)
          /\ encerramentos[t.locacao] = 0
          /\ \A p \in Operadores \ {o} :
                tarefa[p].trancada => tarefa[p].locacao # t.locacao

\* What has been closed was closed once and left a released hold behind: the
\* hold, which can be released once, is what makes the closing unique.
EncerramentoBom(r) ==
    /\ encerramentos[r] <= 1
    /\ locacao[r].status = "ausente" => encerramentos[r] = 0
    /\ encerramentos[r] = 1 => bloqueio[locacao[r].bloqueio].liberado # Nunca
    /\ locacao[r].status \in {"finished", "canceled"} => encerramentos[r] = 1

\* Everything above holds together, with what requests in flight remember:
\* none of it is invariant alone.
Inv == /\ TypeOK
       /\ BloqueiosBons
       /\ SemSobreposicao
       /\ \A s \in Sessoes : PedidoBom(s)
       /\ ReservaDaLocacao
       /\ \A o \in Operadores : TarefaBoa(o)
       /\ \A r \in Locacoes : EncerramentoBom(r)

-----------------------------------------------------------------------------
(* What the code's own comments say and the model refutes.                 *)

\* An overdue rental can be returned: release() accepts its hold.
VencidaPodeDevolver ==
    \A r \in Locacoes :
        locacao[r].status = "active" /\ locacao[r].fim <= agora => PodeLiberar(r)

\* Two rentals never promise the same equipment for a common instant.
SemDuplaLocacao == \A r, q \in Locacoes : ~Dupla(r, q)
=============================================================================
