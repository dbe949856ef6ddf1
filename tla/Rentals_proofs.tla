---------------------------- MODULE Rentals_proofs ---------------------------
(***************************************************************************)
(* For any assets, holds, rentals, contracts and number of requests: a     *)
(* rental owns its hold, no asset is promised twice unless a hold was      *)
(* released under a live rental, a rental is closed at most once although  *)
(* no save checks the status it overwrites, and no hold reopens.           *)
(***************************************************************************)
EXTENDS Rentals, TLAPS

-----------------------------------------------------------------------------
(* Holds.                                                                  *)

\* A good hold that is open has not been released: release() works once.
LEMMA UmaLiberacao ==
    ASSUME NEW h \in Linha, NEW t \in Nat, LinhaBoa(h, t), Aberto(h, t)
    PROVE  h.liberado = Nunca /\ t < h.fim
BY AssetsAssumption DEF Linha, LinhaBoa, Aberto, FimNoDominio, AssetsAssumption

\* A row that the exclusion constraint accepts keeps the holds in order.
LEMMA GravarMantem ==
    ASSUME Inv, NEW b \in Bloqueios, NEW h \in Linha, LinhaBoa(h, agora),
           Gravar(b, h), UNCHANGED agora
    PROVE  bloqueio' \in [Bloqueios -> Linha] /\ BloqueiosBons' /\ SemSobreposicao'
<1>1. bloqueio' \in [Bloqueios -> Linha] /\ bloqueio' = [bloqueio EXCEPT ![b] = h]
  BY DEF Inv, TypeOK, AtivosTypeOK, Gravar
<1>2. BloqueiosBons'
  BY <1>1 DEF Inv, TypeOK, AtivosTypeOK, BloqueiosBons, Existe
<1>3. ASSUME NEW c \in Bloqueios, NEW d \in Bloqueios, c # d,
             bloqueio'[c].ativo # Nenhum, bloqueio'[c].ativo = bloqueio'[d].ativo
      PROVE  ~Sobrepoe(bloqueio'[c], bloqueio'[d])
  <2>1. CASE c # b /\ d # b
    BY <1>1, <1>3, <2>1 DEF Inv, TypeOK, AtivosTypeOK, SemSobreposicao, Existe
  <2>2. CASE c = b
    <3>1. ~Sobrepoe(bloqueio[d], h)
      BY <1>1, <1>3, <2>2 DEF Inv, TypeOK, AtivosTypeOK, Gravar
    <3> QED BY <1>1, <1>3, <2>2, <3>1 DEF Inv, TypeOK, AtivosTypeOK, Sobrepoe
  <2>3. CASE d = b
    BY <1>1, <1>3, <2>3 DEF Inv, TypeOK, AtivosTypeOK, Gravar
  <2> QED BY <2>1, <2>2, <2>3
<1> QED BY <1>1, <1>2, <1>3 DEF SemSobreposicao, Existe

\* No step rewrites what was agreed, or takes a release back.
Combinado == \A c \in Bloqueios : Existe(c) =>
    /\ bloqueio'[c].ativo = bloqueio[c].ativo
    /\ bloqueio'[c].inicio = bloqueio[c].inicio
    /\ bloqueio'[c].fim = bloqueio[c].fim
    /\ bloqueio[c].liberado # Nunca => bloqueio'[c].liberado # Nunca

\* A new row disturbs none of the others.
LEMMA InserirMantem ==
    ASSUME Inv, NEW b \in Bloqueios, NEW a \in Ativos, NEW i \in Nat, NEW f \in Nat, i < f,
           Inserir(b, a, i, f), UNCHANGED agora
    PROVE  /\ bloqueio' \in [Bloqueios -> Linha] /\ BloqueiosBons' /\ SemSobreposicao'
           /\ Combinado
           /\ ~Existe(b)
           /\ bloqueio'[b] = [ativo |-> a, inicio |-> i, fim |-> f, liberado |-> Nunca]
<1> DEFINE h == [ativo |-> a, inicio |-> i, fim |-> f, liberado |-> Nunca]
<1>1. h \in Linha /\ LinhaBoa(h, agora)
  BY DEF Linha, LinhaBoa
<1>2. Gravar(b, h) /\ bloqueio[b].ativo = Nenhum
  BY DEF Inserir
<1> HIDE DEF h
<1>3. bloqueio' \in [Bloqueios -> Linha] /\ BloqueiosBons' /\ SemSobreposicao'
  BY <1>1, <1>2, GravarMantem
<1>4. Combinado /\ ~Existe(b) /\ bloqueio'[b] = h
  BY <1>2 DEF Inv, TypeOK, AtivosTypeOK, Gravar, Combinado, Existe
<1> QED BY <1>3, <1>4 DEF h

\* A release at a past instant before the end keeps the holds in order.
LEMMA LiberarMantem ==
    ASSUME Inv, NEW b, NEW t, InstanteBom(b, t), Liberar(b, t), UNCHANGED agora
    PROVE  /\ bloqueio' \in [Bloqueios -> Linha] /\ BloqueiosBons' /\ SemSobreposicao'
           /\ Combinado
           /\ bloqueio'[b].liberado # Nunca
<1> DEFINE h == [bloqueio[b] EXCEPT !.liberado = t]
<1>1. h \in Linha /\ LinhaBoa(h, agora) /\ b \in Bloqueios
  BY AssetsAssumption
  DEF Inv, TypeOK, AtivosTypeOK, Linha, LinhaBoa, BloqueiosBons, InstanteBom, AssetsAssumption
<1>2. Gravar(b, h)
  BY DEF Liberar
<1>3. /\ h.ativo = bloqueio[b].ativo /\ h.inicio = bloqueio[b].inicio
      /\ h.fim = bloqueio[b].fim /\ h.liberado = t
  BY <1>1 DEF Inv, TypeOK, AtivosTypeOK, Linha
<1>4. t # Nunca
  BY AssetsAssumption DEF InstanteBom, AssetsAssumption
<1> HIDE DEF h
<1>5. bloqueio' \in [Bloqueios -> Linha] /\ BloqueiosBons' /\ SemSobreposicao'
  BY <1>1, <1>2, GravarMantem
<1>6. Combinado /\ bloqueio'[b].liberado # Nunca
  BY <1>1, <1>2, <1>3, <1>4 DEF Inv, TypeOK, AtivosTypeOK, Gravar, Combinado
<1> QED BY <1>5, <1>6

\* A step on holds that keeps what was agreed disturbs no other request.
LEMMA OutrosPedidos ==
    ASSUME Inv, Combinado, UNCHANGED agora, NEW s \in Sessoes, UNCHANGED pedido[s]
    PROVE  PedidoBom(s)'
BY DEF Inv, PedidoBom, InstanteBom, Combinado, Existe, TypeOK, AtivosTypeOK

\* A rental that exists has a hold that exists.
LEMMA LocacaoTemBloqueio ==
    ASSUME Inv, NEW r \in Locacoes, locacao[r].status # "ausente"
    PROVE  locacao[r].bloqueio \in Bloqueios /\ Existe(locacao[r].bloqueio)
BY DEF Inv, TypeOK, LinhaDeLocacao, ReservaDaLocacao

\* The same for the requests of operations and for what has been closed.
LEMMA OutrasTarefas ==
    ASSUME Inv, Combinado, UNCHANGED <<agora, rvars>>
    PROVE  /\ ReservaDaLocacao'
           /\ \A o \in Operadores : TarefaBoa(o)'
           /\ \A r \in Locacoes : EncerramentoBom(r)'
<1>1. ReservaDaLocacao'
  BY LocacaoTemBloqueio DEF Inv, ReservaDaLocacao, Combinado, Existe, rvars
<1>2. ASSUME NEW o \in Operadores PROVE TarefaBoa(o)'
  BY <1>2, LocacaoTemBloqueio DEF Inv, TarefaBoa, InstanteBom, Combinado, Existe, rvars
<1>3. ASSUME NEW r \in Locacoes PROVE EncerramentoBom(r)'
  BY <1>3, LocacaoTemBloqueio DEF Inv, EncerramentoBom, Combinado, rvars
<1> QED BY <1>1, <1>2, <1>3

-----------------------------------------------------------------------------
(* Steps of the assets module.                                             *)

\* Nothing exists yet: the invariant holds.
LEMMA InitInv == Init => Inv
<1> SUFFICES ASSUME Init PROVE Inv
  OBVIOUS
<1>1. TypeOK
  BY DEF Init, AtivosInit, TypeOK, AtivosTypeOK, SemLinha, Linha, Livre, Pedido, Operacoes,
         SemTarefa, Tarefa, Situacoes, LinhaDeLocacao
<1>2. BloqueiosBons /\ SemSobreposicao
  BY DEF Init, AtivosInit, SemLinha, BloqueiosBons, SemSobreposicao, Existe
<1>3. \A s \in Sessoes : PedidoBom(s)
  BY DEF Init, AtivosInit, Livre, PedidoBom
<1>4. /\ ReservaDaLocacao /\ \A o \in Operadores : TarefaBoa(o)
      /\ \A r \in Locacoes : EncerramentoBom(r)
  BY DEF Init, SemTarefa, ReservaDaLocacao, TarefaBoa, EncerramentoBom
<1> QED BY <1>1, <1>2, <1>3, <1>4 DEF Inv

\* The clock only widens the past, where releases lie.
LEMMA TiqueInv == ASSUME Inv, Tique, UNCHANGED rvars PROVE Inv'
<1> USE DEF Tique, avars, rvars
<1>1. TypeOK'
  BY DEF Inv, TypeOK, AtivosTypeOK
<1>2. BloqueiosBons'
  BY AssetsAssumption
  DEF Inv, TypeOK, AtivosTypeOK, Linha, BloqueiosBons, LinhaBoa, Existe, AssetsAssumption
<1>3. SemSobreposicao' /\ ReservaDaLocacao'
  BY DEF Inv, SemSobreposicao, ReservaDaLocacao, Existe
<1>4. \A s \in Sessoes : PedidoBom(s)'
  BY DEF Inv, TypeOK, AtivosTypeOK, PedidoBom, InstanteBom, Existe
<1>5. \A o \in Operadores : TarefaBoa(o)'
  BY DEF Inv, TypeOK, AtivosTypeOK, TarefaBoa, InstanteBom, Existe
<1>6. \A r \in Locacoes : EncerramentoBom(r)'
  BY DEF Inv, EncerramentoBom
<1> QED BY <1>1, <1>2, <1>3, <1>4, <1>5, <1>6 DEF Inv

\* A step that leaves the holds and the clock alone owes only its own request.
LEMMA SemTocarBloqueios ==
    ASSUME Inv, UNCHANGED <<agora, bloqueio, rvars>>, TypeOK',
           \A s \in Sessoes : PedidoBom(s)'
    PROVE  Inv'
<1>1. BloqueiosBons' /\ SemSobreposicao'
  BY DEF Inv, BloqueiosBons, SemSobreposicao, Existe
<1>2. Combinado
  BY DEF Combinado
<1> QED BY <1>1, <1>2, OutrasTarefas DEF Inv

\* A request that starts owes only what it remembers.
LEMMA AtenderInv ==
    ASSUME Inv, UNCHANGED rvars, NEW s \in Sessoes, NEW op \in Operacoes,
           NEW a \in Ativos \union {Nenhum}, NEW b \in Bloqueios \union {Nenhum},
           NEW i \in Nat, NEW f \in Nat, Atender(s, op, a, b, i, f),
           op = "bloquear" => a \in Ativos /\ i < f,
           op = "liberar" => InstanteBom(b, i),
           op \in {"baixar", "editar"} => a \in Ativos
    PROVE  Inv'
<1>1. TypeOK'
  BY DEF Inv, TypeOK, AtivosTypeOK, Atender, Pedido, rvars
<1>2. ASSUME NEW p \in Sessoes PROVE PedidoBom(p)'
  BY <1>2 DEF Inv, TypeOK, AtivosTypeOK, Atender, PedidoBom, InstanteBom, Existe
<1> QED BY <1>1, <1>2, SemTocarBloqueios DEF Atender

\* Every read of the assets module is such a start.
LEMMA LerInv ==
    ASSUME Inv, UNCHANGED rvars, NEW s \in Sessoes,
           \/ \E a \in Ativos : \E i, f \in Instantes : LerBloqueio(s, a, i, f)
           \/ \E b \in Bloqueios : LerLiberacao(s, b)
           \/ \E a \in Ativos : LerBaixa(s, a) \/ LerEdicao(s, a)
    PROVE  Inv'
<1> USE DEF Operacoes
<1>1. ASSUME NEW a \in Ativos, NEW i \in Instantes, NEW f \in Instantes,
             LerBloqueio(s, a, i, f)
      PROVE  Inv'
  <2>1. i \in Nat /\ f \in Nat
    BY AssetsAssumption DEF AssetsAssumption
  <2> QED BY <1>1, <2>1, AtenderInv DEF LerBloqueio
<1>2. ASSUME NEW b \in Bloqueios, LerLiberacao(s, b) PROVE Inv'
  <2>1. bloqueio[b] \in Linha /\ agora \in Nat /\ LinhaBoa(bloqueio[b], agora)
    BY <1>2 DEF Inv, TypeOK, AtivosTypeOK, LerLiberacao, BloqueiosBons, Existe
  <2>2. InstanteBom(b, agora)
    BY <1>2, <2>1, UmaLiberacao DEF LerLiberacao, InstanteBom, Existe
  <2> QED BY <1>2, <2>1, <2>2, AtenderInv DEF LerLiberacao
<1>3. ASSUME NEW a \in Ativos, LerBaixa(s, a) \/ LerEdicao(s, a) PROVE Inv'
  BY <1>3, AtenderInv DEF LerBaixa, LerEdicao
<1> QED BY <1>1, <1>2, <1>3

\* The save of a hold: the constraint keeps it apart from the others.
LEMMA GravarBloqueioInv ==
    ASSUME Inv, UNCHANGED rvars, NEW s \in Sessoes, NEW b \in Bloqueios, GravarBloqueio(s, b)
    PROVE  Inv'
<1>1. /\ pedido[s].ativo \in Ativos /\ pedido[s].inicio \in Nat /\ pedido[s].fim \in Nat
      /\ pedido[s].inicio < pedido[s].fim
  BY DEF Inv, TypeOK, AtivosTypeOK, Pedido, GravarBloqueio, PedidoBom
<1>2. bloqueio' \in [Bloqueios -> Linha] /\ BloqueiosBons' /\ SemSobreposicao' /\ Combinado
  BY <1>1, InserirMantem DEF GravarBloqueio
<1>3. TypeOK'
  BY <1>2 DEF Inv, TypeOK, AtivosTypeOK, GravarBloqueio, Terminar, Livre, Pedido, Operacoes, rvars
<1>4. ASSUME NEW p \in Sessoes PROVE PedidoBom(p)'
  <2>1. CASE p = s
    BY <2>1 DEF Inv, TypeOK, AtivosTypeOK, GravarBloqueio, Terminar, Livre, PedidoBom
  <2>2. CASE p # s
    BY <1>2, <2>2, OutrosPedidos DEF Inv, TypeOK, AtivosTypeOK, GravarBloqueio, Terminar
  <2> QED BY <2>1, <2>2
<1> QED BY <1>2, <1>3, <1>4, OutrasTarefas DEF Inv, GravarBloqueio

\* The save of a release: the instant was read before the end of the hold.
LEMMA GravarLiberacaoInv ==
    ASSUME Inv, UNCHANGED rvars, NEW s \in Sessoes, GravarLiberacao(s)
    PROVE  Inv'
<1>1. InstanteBom(pedido[s].bloqueio, pedido[s].inicio)
  BY DEF Inv, GravarLiberacao, PedidoBom
<1>2. bloqueio' \in [Bloqueios -> Linha] /\ BloqueiosBons' /\ SemSobreposicao' /\ Combinado
  BY <1>1, LiberarMantem DEF GravarLiberacao
<1>3. TypeOK'
  BY <1>2 DEF Inv, TypeOK, AtivosTypeOK, GravarLiberacao, Terminar, Livre, Pedido, Operacoes, rvars
<1>4. ASSUME NEW p \in Sessoes PROVE PedidoBom(p)'
  <2>1. CASE p = s
    BY <2>1 DEF Inv, TypeOK, AtivosTypeOK, GravarLiberacao, Terminar, Livre, PedidoBom
  <2>2. CASE p # s
    BY <1>2, <2>2, OutrosPedidos DEF Inv, TypeOK, AtivosTypeOK, GravarLiberacao, Terminar
  <2> QED BY <2>1, <2>2
<1> QED BY <1>2, <1>3, <1>4, OutrasTarefas DEF Inv, GravarLiberacao

\* Every step of the assets module preserves the invariant.
LEMMA AtivosNextInv == ASSUME Inv, AtivosNext, UNCHANGED rvars PROVE Inv'
<1>1. ASSUME NEW a \in Ativos, Cadastrar(a) PROVE Inv'
  BY <1>1, SemTocarBloqueios
  DEF Inv, TypeOK, AtivosTypeOK, Cadastrar, SalvarAtivo, PedidoBom, InstanteBom, Existe, rvars
<1>2. ASSUME NEW s \in Sessoes, GravarBaixa(s) \/ GravarEdicao(s) \/ Abandonar(s)
      PROVE  Inv'
  <2>1. TypeOK'
    BY <1>2 DEF Inv, TypeOK, AtivosTypeOK, GravarBaixa, GravarEdicao, SalvarAtivo, Abandonar, Terminar,
                Livre, Pedido, Operacoes, rvars
  <2>2. ASSUME NEW p \in Sessoes PROVE PedidoBom(p)'
    BY <1>2, <2>2 DEF Inv, TypeOK, AtivosTypeOK, GravarBaixa, GravarEdicao, SalvarAtivo, Abandonar, Terminar,
                      Livre, PedidoBom, InstanteBom, Existe
  <2> QED BY <1>2, <2>1, <2>2, SemTocarBloqueios DEF GravarBaixa, GravarEdicao, SalvarAtivo, Abandonar
<1> QED BY <1>1, <1>2, TiqueInv, LerInv, GravarBloqueioInv, GravarLiberacaoInv DEF AtivosNext

-----------------------------------------------------------------------------
(* Steps of the operations module.                                         *)

\* A step that leaves holds, clock and requests of assets alone.
LEMMA SemTocarAtivos ==
    ASSUME Inv, UNCHANGED <<agora, avars>>, TypeOK', ReservaDaLocacao',
           \A o \in Operadores : TarefaBoa(o)', \A r \in Locacoes : EncerramentoBom(r)'
    PROVE  Inv'
BY DEF Inv, avars, BloqueiosBons, SemSobreposicao, Existe, PedidoBom, InstanteBom

\* A contract may change under a rental without harm to any of this.
LEMMA AndamentoInv ==
    ASSUME Inv, NEW c \in Contratos, NEW st \in {"active", "closed"},
           AndamentoDoContrato(c, st)
    PROVE  Inv'
<1>1. TypeOK'
  BY DEF Inv, TypeOK, AtivosTypeOK, AndamentoDoContrato, avars
<1>2. /\ ReservaDaLocacao' /\ \A o \in Operadores : TarefaBoa(o)'
      /\ \A r \in Locacoes : EncerramentoBom(r)'
  BY DEF Inv, ReservaDaLocacao, Existe, TarefaBoa, InstanteBom, EncerramentoBom,
         AndamentoDoContrato, avars
<1> QED BY <1>1, <1>2, SemTocarAtivos DEF AndamentoDoContrato

\* A request of operations that starts holds no lock.
LEMMA AtenderOperacaoInv ==
    ASSUME Inv, NEW o \in Operadores, NEW op \in {"programar", "retirar", "devolver", "cancelar"},
           NEW r \in Locacoes \union {Nenhum}, NEW a \in Ativos \union {Nenhum},
           NEW i \in Nat, NEW f \in Nat, AtenderOperacao(o, op, r, a, i, f),
           op = "programar" => a \in Ativos /\ i < f,
           op # "programar" => r \in Locacoes /\ locacao[r].status # "ausente"
    PROVE  Inv'
<1>1. TypeOK'
  BY DEF Inv, TypeOK, AtivosTypeOK, AtenderOperacao, Tarefa, avars
<1>2. ReservaDaLocacao' /\ \A q \in Locacoes : EncerramentoBom(q)'
  BY DEF Inv, ReservaDaLocacao, Existe, EncerramentoBom, AtenderOperacao, avars
<1>3. ASSUME NEW p \in Operadores PROVE TarefaBoa(p)'
  <2>1. CASE p = o
    BY <2>1 DEF Inv, TypeOK, AtenderOperacao, TarefaBoa
  <2>2. CASE p # o
    BY <1>3, <2>2 DEF Inv, TypeOK, AtenderOperacao, TarefaBoa, InstanteBom, Existe, avars
  <2> QED BY <2>1, <2>2
<1> QED BY <1>1, <1>2, <1>3, SemTocarAtivos DEF AtenderOperacao

\* Schedule, its reads.
LEMMA LerContratoInv ==
    ASSUME Inv, NEW o \in Operadores, NEW c \in Contratos, NEW a \in Ativos,
           NEW i \in Instantes, NEW f \in Instantes, LerContrato(o, c, a, i, f)
    PROVE  Inv'
<1>1. i \in Nat /\ f \in Nat
  BY AssetsAssumption DEF AssetsAssumption
<1> QED BY <1>1, AtenderOperacaoInv DEF LerContrato

\* The check inside the unit of work of a schedule only moves the request on.
LEMMA ConferirReservaInv ==
    ASSUME Inv, NEW o \in Operadores, ConferirReserva(o) PROVE Inv'
<1>1. /\ tarefa' = [tarefa EXCEPT ![o] = [tarefa[o] EXCEPT !.op = "reservar"]]
      /\ tarefa \in [Operadores -> Tarefa]
  BY DEF Inv, TypeOK, ConferirReserva
<1>2. TypeOK'
  <2>1. tarefa' \in [Operadores -> Tarefa]
    BY <1>1 DEF Tarefa
  <2> QED BY <2>1 DEF Inv, TypeOK, AtivosTypeOK, ConferirReserva, avars
<1>3. ReservaDaLocacao' /\ \A q \in Locacoes : EncerramentoBom(q)'
  BY DEF Inv, ReservaDaLocacao, Existe, EncerramentoBom, ConferirReserva, avars
<1>4. /\ tarefa'[o].op = "reservar" /\ tarefa'[o].ativo = tarefa[o].ativo
      /\ tarefa'[o].inicio = tarefa[o].inicio /\ tarefa'[o].fim = tarefa[o].fim
      /\ tarefa'[o].trancada = tarefa[o].trancada /\ tarefa[o].op = "programar"
      /\ \A q \in Operadores \ {o} : tarefa'[q] = tarefa[q]
  BY <1>1 DEF Tarefa, ConferirReserva
<1>5. ASSUME NEW p \in Operadores PROVE TarefaBoa(p)'
  <2>1. ~tarefa[o].trancada /\ TarefaBoa(o) /\ TarefaBoa(p)
    BY <1>4, <1>5 DEF Inv, TarefaBoa
  <2>2. CASE p = o
    BY <1>4, <2>1, <2>2 DEF TarefaBoa
  <2>3. CASE p # o
    BY <1>4, <1>5, <2>1, <2>3 DEF TarefaBoa, InstanteBom, Existe, ConferirReserva, avars
  <2> QED BY <2>2, <2>3
<1> QED BY <1>2, <1>3, <1>5, SemTocarAtivos DEF ConferirReserva

\* Start, finish and cancel, their read.
LEMMA LerLocacaoInv ==
    ASSUME Inv, NEW o \in Operadores, NEW r \in Locacoes,
           NEW op \in {"retirar", "devolver", "cancelar"}, LerLocacao(o, r, op)
    PROVE  Inv'
BY AtenderOperacaoInv DEF LerLocacao

\* A new rental takes a hold that did not exist, so nobody else owns it.
LEMMA GravarProgramacaoInv ==
    ASSUME Inv, NEW o \in Operadores, NEW r \in Locacoes, NEW b \in Bloqueios,
           GravarProgramacao(o, r, b)
    PROVE  Inv'
<1> DEFINE t == tarefa[o]
<1>1. /\ t.ativo \in Ativos /\ t.inicio \in Nat /\ t.fim \in Nat /\ t.inicio < t.fim
      /\ t.ativo # Nenhum
  BY AssetsAssumption DEF Inv, TypeOK, Tarefa, GravarProgramacao, Programada, TarefaBoa, AssetsAssumption
<1>2. /\ bloqueio' \in [Bloqueios -> Linha] /\ BloqueiosBons' /\ SemSobreposicao' /\ Combinado
      /\ ~Existe(b)
      /\ bloqueio'[b] = [ativo |-> t.ativo, inicio |-> t.inicio, fim |-> t.fim,
                         liberado |-> Nunca]
  BY <1>1, InserirMantem DEF GravarProgramacao, Programada
<1>3. /\ \A q \in Locacoes \ {r} : locacao'[q] = locacao[q]
      /\ locacao'[r] = [status |-> "scheduled", ativo |-> t.ativo, bloqueio |-> b,
                        inicio |-> t.inicio, fim |-> t.fim]
      /\ locacao[r].status = "ausente"
  BY DEF Inv, TypeOK, GravarProgramacao, Programada
<1>4. TypeOK'
  BY <1>1, <1>2 DEF Inv, TypeOK, AtivosTypeOK, GravarProgramacao, Programada, LinhaDeLocacao, Situacoes,
                    Concluida, SemTarefa, Tarefa
<1>5. ReservaDaLocacao'
  <2>1. ASSUME NEW q \in Locacoes, q # r, locacao[q].status # "ausente"
        PROVE  locacao[q].bloqueio # b
    BY <1>2, <2>1, LocacaoTemBloqueio
  <2>2. ASSUME NEW q \in Locacoes, q # r, locacao[q].status # "ausente"
        PROVE  /\ locacao[q].bloqueio # Nenhum
               /\ bloqueio'[locacao[q].bloqueio].ativo # Nenhum
               /\ bloqueio'[locacao[q].bloqueio].ativo = locacao[q].ativo
               /\ bloqueio'[locacao[q].bloqueio].inicio = locacao[q].inicio
               /\ bloqueio'[locacao[q].bloqueio].fim = locacao[q].fim
    BY <1>2, <2>2, LocacaoTemBloqueio DEF Inv, ReservaDaLocacao, Combinado, Existe
  <2>3. b # Nenhum
    BY AssetsAssumption DEF AssetsAssumption
  <2> QED BY <1>1, <1>2, <1>3, <2>1, <2>2, <2>3 DEF Inv, ReservaDaLocacao, Existe
<1>6. \A s \in Sessoes : PedidoBom(s)'
  BY <1>2, OutrosPedidos DEF GravarProgramacao, Programada
<1>7. ASSUME NEW p \in Operadores PROVE TarefaBoa(p)'
  <2>1. CASE p = o
    BY <2>1 DEF Inv, TypeOK, GravarProgramacao, Programada, Concluida, SemTarefa, TarefaBoa
  <2>2. CASE p # o
    <3>1. tarefa'[p] = tarefa[p] /\ agora' = agora /\ encerramentos' = encerramentos
      BY <2>2 DEF Inv, TypeOK, GravarProgramacao, Programada, Concluida
    <3>2. \A q \in Operadores : tarefa'[q].trancada => tarefa[q].trancada /\ tarefa'[q] = tarefa[q]
      BY DEF Inv, TypeOK, GravarProgramacao, Programada, Concluida, SemTarefa
    <3>3. tarefa[p].op \in {"retirar", "devolver", "cancelar"} =>
              tarefa[p].locacao \in Locacoes \ {r}
      BY <1>3, <1>7 DEF Inv, TarefaBoa
    <3>4. tarefa[p].trancada => tarefa[p].op \in {"devolver", "cancelar"}
      BY <1>7 DEF Inv, TarefaBoa
    <3> QED BY <1>2, <1>3, <1>7, <3>1, <3>2, <3>3, <3>4
            DEF Inv, TarefaBoa, InstanteBom, Combinado, Existe
  <2> QED BY <2>1, <2>2
<1>8. ASSUME NEW q \in Locacoes PROVE EncerramentoBom(q)'
  <2>1. CASE q = r
    BY <1>3, <2>1 DEF Inv, TypeOK, EncerramentoBom, GravarProgramacao, Programada
  <2>2. CASE q # r
    BY <1>2, <1>3, <1>8, <2>2, LocacaoTemBloqueio
    DEF Inv, EncerramentoBom, Combinado, GravarProgramacao, Programada
  <2> QED BY <2>1, <2>2
<1> QED BY <1>2, <1>4, <1>5, <1>6, <1>7, <1>8 DEF Inv

\* A start saved late may overwrite a closing, and still closes nothing.
LEMMA GravarRetiradaInv ==
    ASSUME Inv, NEW o \in Operadores, GravarRetirada(o) PROVE Inv'
<1> DEFINE r == tarefa[o].locacao
<1>1. r \in Locacoes /\ locacao[r].status # "ausente"
  BY DEF Inv, GravarRetirada, TarefaBoa
<1>2. locacao' = [locacao EXCEPT ![r] = [locacao[r] EXCEPT !.status = "active"]]
  BY DEF Inv, TypeOK, GravarRetirada
<1>3. /\ locacao'[r].status = "active" /\ locacao'[r].bloqueio = locacao[r].bloqueio
      /\ locacao'[r].ativo = locacao[r].ativo /\ locacao'[r].inicio = locacao[r].inicio
      /\ locacao'[r].fim = locacao[r].fim
      /\ \A q \in Locacoes \ {r} : locacao'[q] = locacao[q]
  BY <1>1, <1>2 DEF Inv, TypeOK, LinhaDeLocacao
<1>4. TypeOK'
  <2>1. [locacao[r] EXCEPT !.status = "active"] \in LinhaDeLocacao
    BY <1>1 DEF Inv, TypeOK, LinhaDeLocacao, Situacoes
  <2>2. locacao' \in [Locacoes -> LinhaDeLocacao]
    BY <1>1, <1>2, <2>1 DEF Inv, TypeOK
  <2>3. tarefa' \in [Operadores -> Tarefa]
    BY DEF Inv, TypeOK, GravarRetirada, Concluida, SemTarefa, Tarefa
  <2> QED BY <2>2, <2>3 DEF Inv, TypeOK, AtivosTypeOK, GravarRetirada, avars
<1> HIDE DEF r
<1>5. ReservaDaLocacao'
  <2>1. \A q \in Locacoes :
          /\ locacao'[q].bloqueio = locacao[q].bloqueio
          /\ locacao'[q].ativo = locacao[q].ativo
          /\ locacao'[q].inicio = locacao[q].inicio
          /\ locacao'[q].fim = locacao[q].fim
          /\ locacao'[q].status # "ausente" => locacao[q].status # "ausente"
    BY <1>1, <1>3
  <2>2. bloqueio' = bloqueio
    BY DEF GravarRetirada, avars
  <2> QED BY <2>1, <2>2 DEF Inv, ReservaDaLocacao, Existe
<1>6. ASSUME NEW p \in Operadores PROVE TarefaBoa(p)'
  BY <1>1, <1>3, <1>6
  DEF Inv, TypeOK, TarefaBoa, InstanteBom, Existe, GravarRetirada, Concluida, SemTarefa, avars
<1>7. \A q \in Locacoes : EncerramentoBom(q)'
  BY <1>1, <1>3 DEF Inv, EncerramentoBom, GravarRetirada, avars
<1> QED BY <1>4, <1>5, <1>6, <1>7, SemTocarAtivos DEF GravarRetirada

\* The hold is open when the lock is taken, so the rental was never closed.
LEMMA TrancarInv ==
    ASSUME Inv, NEW o \in Operadores, Trancar(o) PROVE Inv'
<1> DEFINE r == tarefa[o].locacao
           b == locacao[r].bloqueio
<1>1. r \in Locacoes /\ locacao[r].status # "ausente" /\ b \in Bloqueios /\ Existe(b)
  <2>1. r \in Locacoes /\ locacao[r].status # "ausente"
    BY DEF Inv, Trancar, TarefaBoa
  <2> QED BY <2>1, LocacaoTemBloqueio
<1>2. bloqueio[b].liberado = Nunca /\ agora < bloqueio[b].fim
  <2>1. bloqueio[b] \in Linha /\ agora \in Nat /\ LinhaBoa(bloqueio[b], agora)
    BY <1>1 DEF Inv, TypeOK, AtivosTypeOK, BloqueiosBons
  <2> QED BY <2>1, UmaLiberacao DEF Trancar, PodeLiberar
<1>3. encerramentos[r] = 0
  BY <1>1, <1>2 DEF Inv, TypeOK, EncerramentoBom
<1>4. InstanteBom(b, agora)
  BY <1>1, <1>2 DEF Inv, TypeOK, AtivosTypeOK, InstanteBom
<1>5. TypeOK'
  <2>1. tarefa \in [Operadores -> Tarefa] /\ agora \in Nat
    BY DEF Inv, TypeOK, AtivosTypeOK
  <2>2. tarefa' \in [Operadores -> Tarefa]
    BY <2>1 DEF Trancar, Tarefa
  <2> QED BY <2>2 DEF Inv, TypeOK, AtivosTypeOK, Trancar, avars
<1>6. ReservaDaLocacao' /\ \A q \in Locacoes : EncerramentoBom(q)'
  BY DEF Inv, ReservaDaLocacao, Existe, EncerramentoBom, Trancar, avars
<1>7. \A q \in Operadores : tarefa[q].trancada => tarefa[q].locacao # r
  BY DEF Trancar, Trancada
<1>8. tarefa' = [tarefa EXCEPT ![o] = [tarefa[o] EXCEPT !.trancada = TRUE, !.inicio = agora]]
  BY DEF Inv, TypeOK, Trancar
<1>9. /\ tarefa'[o].trancada /\ tarefa'[o].inicio = agora /\ tarefa'[o].locacao = r
      /\ tarefa'[o].op \in {"devolver", "cancelar"}
      /\ \A q \in Operadores \ {o} : tarefa'[q] = tarefa[q]
  BY <1>8 DEF Inv, TypeOK, Tarefa, Trancar
<1> HIDE DEF r, b
<1>10. ASSUME NEW p \in Operadores PROVE TarefaBoa(p)'
  <2>1. CASE p = o
    BY <1>1, <1>3, <1>4, <1>7, <1>9, <2>1
    DEF TarefaBoa, InstanteBom, Existe, Trancar, avars, b
  <2>2. CASE p # o
    <3>1. /\ locacao' = locacao /\ bloqueio' = bloqueio /\ agora' = agora
          /\ encerramentos' = encerramentos
      BY DEF Trancar, avars
    <3>2. tarefa'[p] = tarefa[p] /\ TarefaBoa(p)
      BY <1>9, <1>10, <2>2 DEF Inv
    <3>3. \A q \in Operadores \ {p} : tarefa[p].trancada /\ tarefa'[q].trancada
              => tarefa'[q].locacao # tarefa[p].locacao
      BY <1>7, <1>9, <1>10, <3>2 DEF TarefaBoa
    <3> QED BY <3>1, <3>2, <3>3 DEF TarefaBoa, InstanteBom, Existe
  <2> QED BY <2>1, <2>2
<1> QED BY <1>5, <1>6, <1>10, SemTocarAtivos DEF Trancar

\* The commit of a return or a cancellation: the only one for this rental.
LEMMA GravarEncerramentoInv ==
    ASSUME Inv, NEW o \in Operadores, GravarEncerramento(o) PROVE Inv'
<1> DEFINE r == tarefa[o].locacao
           b == locacao[r].bloqueio
           st == IF tarefa[o].op = "devolver" THEN "finished" ELSE "canceled"
<1>1. /\ r \in Locacoes /\ locacao[r].status # "ausente" /\ encerramentos[r] = 0
      /\ InstanteBom(b, tarefa[o].inicio)
      /\ \A p \in Operadores \ {o} : tarefa[p].trancada => tarefa[p].locacao # r
  BY DEF Inv, GravarEncerramento, TarefaBoa
<1>2. /\ bloqueio' \in [Bloqueios -> Linha] /\ BloqueiosBons' /\ SemSobreposicao' /\ Combinado
      /\ bloqueio'[b].liberado # Nunca
  BY <1>1, LiberarMantem DEF GravarEncerramento
<1>3. locacao' = [locacao EXCEPT ![r] = [locacao[r] EXCEPT !.status = st]]
  BY DEF Inv, TypeOK, GravarEncerramento
<1>4. st \in {"finished", "canceled"}
  OBVIOUS
<1>5. [locacao[r] EXCEPT !.status = st] \in LinhaDeLocacao
  BY <1>1, <1>4 DEF Inv, TypeOK, LinhaDeLocacao, Situacoes
<1>6. encerramentos' = [encerramentos EXCEPT ![r] = 1]
  BY <1>1 DEF Inv, TypeOK, GravarEncerramento
<1>7. /\ tarefa'[o] = SemTarefa
      /\ \A p \in Operadores \ {o} : tarefa'[p] = tarefa[p]
  BY DEF Inv, TypeOK, GravarEncerramento, Concluida
<1> HIDE DEF st
<1>8. /\ locacao'[r].status = st
      /\ \A q \in Locacoes :
          /\ locacao'[q].bloqueio = locacao[q].bloqueio
          /\ locacao'[q].ativo = locacao[q].ativo
          /\ locacao'[q].inicio = locacao[q].inicio
          /\ locacao'[q].fim = locacao[q].fim
          /\ locacao'[q].status = "ausente" <=> locacao[q].status = "ausente"
          /\ q # r => locacao'[q] = locacao[q]
  BY <1>1, <1>3, <1>4 DEF Inv, TypeOK, LinhaDeLocacao
<1> HIDE DEF r, b
<1>9. TypeOK'
  <2>1. locacao' \in [Locacoes -> LinhaDeLocacao]
    BY <1>1, <1>3, <1>5 DEF Inv, TypeOK
  <2>2. tarefa' \in [Operadores -> Tarefa]
    BY DEF Inv, TypeOK, GravarEncerramento, Concluida, SemTarefa, Tarefa
  <2> QED BY <1>1, <1>2, <1>6, <2>1, <2>2 DEF Inv, TypeOK, AtivosTypeOK, GravarEncerramento
<1>10. ReservaDaLocacao'
  BY <1>2, <1>8, LocacaoTemBloqueio DEF Inv, ReservaDaLocacao, Combinado, Existe
<1>11. \A s \in Sessoes : PedidoBom(s)'
  BY <1>2, OutrosPedidos DEF GravarEncerramento
<1>12. ASSUME NEW p \in Operadores PROVE TarefaBoa(p)'
  <2>1. CASE p = o
    BY <1>7, <2>1 DEF SemTarefa, TarefaBoa
  <2>2. CASE p # o
    <3>1. tarefa'[p] = tarefa[p] /\ TarefaBoa(p) /\ agora' = agora
      BY <1>7, <1>12, <2>2 DEF Inv, GravarEncerramento
    <3>2. tarefa[p].op \in {"retirar", "devolver", "cancelar"} =>
            /\ tarefa[p].locacao \in Locacoes
            /\ locacao'[tarefa[p].locacao].status # "ausente"
      BY <1>8, <3>1 DEF TarefaBoa
    <3>3. \A q \in Operadores \ {p} : tarefa[p].trancada /\ tarefa'[q].trancada
              => tarefa'[q].locacao # tarefa[p].locacao
      BY <1>7, <3>1 DEF TarefaBoa, SemTarefa
    <3>4. ASSUME tarefa[p].trancada
          PROVE  /\ InstanteBom(locacao[tarefa[p].locacao].bloqueio, tarefa[p].inicio)'
                 /\ encerramentos'[tarefa[p].locacao] = 0
      <4>1. tarefa[p].locacao \in Locacoes /\ tarefa[p].locacao # r
        BY <1>1, <2>2, <1>12, <3>1, <3>4 DEF TarefaBoa
      <4>2. InstanteBom(locacao[tarefa[p].locacao].bloqueio, tarefa[p].inicio)
            /\ encerramentos[tarefa[p].locacao] = 0
        BY <3>1, <3>4 DEF TarefaBoa
      <4> QED BY <1>2, <1>6, <1>8, <3>1, <4>1, <4>2
              DEF Inv, TypeOK, InstanteBom, Combinado, Existe
    <3> QED BY <3>1, <3>2, <3>3, <3>4 DEF TarefaBoa
  <2> QED BY <2>1, <2>2
<1>13. ASSUME NEW q \in Locacoes PROVE EncerramentoBom(q)'
  <2>1. CASE q = r
    BY <1>1, <1>2, <1>6, <1>8, <2>1 DEF Inv, TypeOK, EncerramentoBom, b
  <2>2. CASE q # r
    BY <1>2, <1>6, <1>8, <1>13, <2>2, LocacaoTemBloqueio
    DEF Inv, TypeOK, EncerramentoBom, Combinado
  <2> QED BY <2>1, <2>2
<1> QED BY <1>2, <1>9, <1>10, <1>11, <1>12, <1>13 DEF Inv

\* A request that ends gives its lock up and changes nothing else.
LEMMA DesistirInv ==
    ASSUME Inv, NEW o \in Operadores, Desistir(o) PROVE Inv'
<1>1. TypeOK'
  BY DEF Inv, TypeOK, AtivosTypeOK, Desistir, Concluida, SemTarefa, Tarefa, avars
<1>2. ReservaDaLocacao' /\ \A q \in Locacoes : EncerramentoBom(q)'
  BY DEF Inv, ReservaDaLocacao, Existe, EncerramentoBom, Desistir, avars
<1>3. ASSUME NEW p \in Operadores PROVE TarefaBoa(p)'
  BY <1>3 DEF Inv, TypeOK, Desistir, Concluida, SemTarefa, TarefaBoa, InstanteBom, Existe, avars
<1> QED BY <1>1, <1>2, <1>3, SemTocarAtivos DEF Desistir

-----------------------------------------------------------------------------
(* The theorems.                                                           *)

\* Every step of the two modules preserves the invariant.
LEMMA PassoInv == ASSUME Inv, [Next]_vars PROVE Inv'
<1>1. CASE UNCHANGED vars
  <2>1. TypeOK' /\ \A s \in Sessoes : PedidoBom(s)'
    BY <1>1 DEF Inv, TypeOK, AtivosTypeOK, PedidoBom, InstanteBom, Existe, vars, avars, rvars
  <2> QED BY <1>1, <2>1, SemTocarBloqueios DEF vars, avars
<1>2. CASE Next
  BY <1>2, AtivosNextInv, AndamentoInv, LerContratoInv, ConferirReservaInv, GravarProgramacaoInv, LerLocacaoInv,
     GravarRetiradaInv, TrancarInv, GravarEncerramentoInv, DesistirInv DEF Next
<1> QED BY <1>1, <1>2

\* The inductive invariant holds of every reachable state.
THEOREM InvSempre == Spec => []Inv
BY InitInv, PassoInv, PTL DEF Spec

\* Every row and every request keeps its type.
THEOREM TiposSempre == Spec => []TypeOK
<1>1. Inv => TypeOK
  BY DEF Inv
<1> QED BY <1>1, InvSempre, PTL

\* Any number of operators and requests of assets promise one piece of equipment
\* to two rentals only where a hold was released under a live rental.
THEOREM DuplaSempre == Spec => []DuplaSoPorLiberacao
<1>1. ASSUME Inv PROVE DuplaSoPorLiberacao
  <2>1. ASSUME NEW r \in Locacoes, NEW q \in Locacoes, Dupla(r, q),
               \A p \in {r, q} : bloqueio[locacao[p].bloqueio].liberado = Nunca
        PROVE  FALSE
    <3> DEFINE b == locacao[r].bloqueio
               c == locacao[q].bloqueio
    <3>1. /\ b \in Bloqueios /\ Existe(b) /\ c \in Bloqueios /\ Existe(c) /\ b # c
          /\ bloqueio[b].ativo = bloqueio[c].ativo
          /\ bloqueio[b].inicio < bloqueio[c].fim /\ bloqueio[c].inicio < bloqueio[b].fim
      <4>1. locacao[r].status # "ausente" /\ locacao[q].status # "ausente"
        BY <2>1 DEF Dupla, Viva
      <4> QED BY <1>1, <2>1, <4>1, LocacaoTemBloqueio DEF Inv, ReservaDaLocacao, Dupla
    <3>2. \A d \in {b, c} : bloqueio[d].liberado = Nunca /\ bloqueio[d].inicio < bloqueio[d].fim
      BY <1>1, <2>1, <3>1 DEF Inv, BloqueiosBons, LinhaBoa
    <3>3. bloqueio[b] \in Linha /\ bloqueio[c] \in Linha
      BY <1>1, <3>1 DEF Inv, TypeOK, AtivosTypeOK
    <3>4. Sobrepoe(bloqueio[b], bloqueio[c])
      BY <3>1, <3>2, <3>3 DEF Sobrepoe, FimNoBanco, Linha
    <3>5. ~Sobrepoe(bloqueio[b], bloqueio[c])
      BY <1>1, <3>1 DEF Inv, SemSobreposicao
    <3> QED BY <3>4, <3>5
  <2> QED BY <2>1 DEF DuplaSoPorLiberacao
<1> QED BY <1>1, InvSempre, PTL

\* The domain and the constraint agree on every effective period.
THEOREM EfetivoSempre == Spec => []EfetivoConcorda
<1>1. ASSUME Inv PROVE EfetivoConcorda
  <2>1. ASSUME NEW b \in Bloqueios, Existe(b)
        PROVE  FimNoDominio(bloqueio[b]) = FimNoBanco(bloqueio[b])
    <3>1. bloqueio[b] \in Linha /\ LinhaBoa(bloqueio[b], agora)
      BY <1>1, <2>1 DEF Inv, TypeOK, AtivosTypeOK, BloqueiosBons
    <3> QED BY <3>1, AssetsAssumption
            DEF Linha, LinhaBoa, FimNoDominio, FimNoBanco, AssetsAssumption
  <2> QED BY <2>1 DEF EfetivoConcorda
<1> QED BY <1>1, InvSempre, PTL

\* A rental owns its hold alone, for its own equipment and period.
THEOREM ReservaSempre == Spec => []ReservaDaLocacao
<1>1. Inv => ReservaDaLocacao
  BY DEF Inv
<1> QED BY <1>1, InvSempre, PTL

\* A rental is closed at most once, whatever the requests read and when.
THEOREM EncerramentoUnicoSempre == Spec => []EncerramentoUnico
<1>1. Inv => EncerramentoUnico
  BY DEF Inv, EncerramentoUnico, EncerramentoBom
<1> QED BY <1>1, InvSempre, PTL

\* A closed rental has given its equipment back.
THEOREM EncerradaLiberaSempre == Spec => []EncerradaLibera
<1>1. ASSUME Inv PROVE EncerradaLibera
  <2>1. ASSUME NEW r \in Locacoes, locacao[r].status \in {"finished", "canceled"}
        PROVE  ~Aberto(bloqueio[locacao[r].bloqueio], agora)
    <3> DEFINE h == bloqueio[locacao[r].bloqueio]
    <3>1. h.liberado # Nunca
      BY <1>1, <2>1 DEF Inv, EncerramentoBom
    <3>2. h \in Linha /\ agora \in Nat /\ LinhaBoa(h, agora)
      BY <1>1, <2>1, LocacaoTemBloqueio DEF Inv, TypeOK, AtivosTypeOK, BloqueiosBons
    <3> QED BY <3>1, <3>2, UmaLiberacao
  <2> QED BY <2>1 DEF EncerradaLibera
<1> QED BY <1>1, InvSempre, PTL

\* Every step keeps what was agreed of a hold, and time does not go back.
LEMMA PassoCombinado ==
    ASSUME Inv, [Next]_vars PROVE Combinado /\ agora' >= agora
<1> agora \in Nat
  BY DEF Inv, TypeOK, AtivosTypeOK
<1>1. CASE UNCHANGED bloqueio /\ (Tique \/ UNCHANGED agora)
  BY <1>1 DEF Combinado, Tique
<1>2. ASSUME NEW s \in Sessoes, NEW b \in Bloqueios, GravarBloqueio(s, b)
      PROVE  Combinado /\ UNCHANGED agora
  <2>1. /\ pedido[s].ativo \in Ativos /\ pedido[s].inicio \in Nat /\ pedido[s].fim \in Nat
        /\ pedido[s].inicio < pedido[s].fim
    BY <1>2 DEF Inv, TypeOK, AtivosTypeOK, Pedido, GravarBloqueio, PedidoBom
  <2> QED BY <1>2, <2>1, InserirMantem DEF GravarBloqueio
<1>3. ASSUME NEW s \in Sessoes, GravarLiberacao(s) PROVE Combinado /\ UNCHANGED agora
  BY <1>3, LiberarMantem DEF Inv, GravarLiberacao, PedidoBom
<1>4. ASSUME NEW o \in Operadores, NEW r \in Locacoes, NEW b \in Bloqueios,
             GravarProgramacao(o, r, b)
      PROVE  Combinado /\ UNCHANGED agora
  <2>1. /\ tarefa[o].ativo \in Ativos /\ tarefa[o].inicio \in Nat /\ tarefa[o].fim \in Nat
        /\ tarefa[o].inicio < tarefa[o].fim
    BY <1>4 DEF Inv, TypeOK, Tarefa, GravarProgramacao, Programada, TarefaBoa
  <2> QED BY <1>4, <2>1, InserirMantem DEF GravarProgramacao, Programada
<1>5. ASSUME NEW o \in Operadores, GravarEncerramento(o) PROVE Combinado /\ UNCHANGED agora
  BY <1>5, LiberarMantem DEF Inv, GravarEncerramento, TarefaBoa
<1>6. CASE UNCHANGED vars
  BY <1>1, <1>6 DEF vars, avars
<1>7. ASSUME NEW s \in Sessoes,
             \/ \E a \in Ativos : \E i, f \in Instantes : LerBloqueio(s, a, i, f)
             \/ \E b \in Bloqueios : LerLiberacao(s, b)
             \/ \E a \in Ativos : LerBaixa(s, a) \/ LerEdicao(s, a)
             \/ GravarBaixa(s) \/ GravarEdicao(s) \/ Abandonar(s)
      PROVE  UNCHANGED <<bloqueio, agora>>
  BY <1>7 DEF LerBloqueio, LerLiberacao, LerBaixa, LerEdicao, GravarBaixa, GravarEdicao, SalvarAtivo,
              Abandonar, Atender
<1>8. CASE AtivosNext
  BY <1>1, <1>2, <1>3, <1>7, <1>8 DEF AtivosNext, Cadastrar, SalvarAtivo, Tique, avars
<1>9. CASE \E c \in Contratos : \E st \in {"active", "closed"} :
              AndamentoDoContrato(c, st)
  BY <1>1, <1>9 DEF AndamentoDoContrato, avars
<1>10. ASSUME NEW o \in Operadores,
              \/ \E c \in Contratos, a \in Ativos : \E i, f \in Instantes :
                    LerContrato(o, c, a, i, f)
              \/ \E r \in Locacoes : \E op \in {"retirar", "devolver", "cancelar"} :
                    LerLocacao(o, r, op)
              \/ ConferirReserva(o) \/ GravarRetirada(o) \/ Trancar(o) \/ Desistir(o)
       PROVE  UNCHANGED <<bloqueio, agora>>
  BY <1>10 DEF LerContrato, LerLocacao, ConferirReserva, GravarRetirada, Trancar, Desistir, AtenderOperacao, avars
<1> QED BY <1>1, <1>4, <1>5, <1>6, <1>8, <1>9, <1>10 DEF Next

\* A late release, saved long after it was read, reopens no hold.
THEOREM NaoReabreSempre == Spec => LiberacaoNaoReabre
<1> DEFINE A == \A b \in Bloqueios :
        Existe(b) /\ ~Aberto(bloqueio[b], agora) => ~Aberto(bloqueio'[b], agora')
<1>1. ASSUME Inv, Inv', [Next]_vars PROVE A
  <2>1. ASSUME NEW b \in Bloqueios, Existe(b), Aberto(bloqueio'[b], agora')
        PROVE  Aberto(bloqueio[b], agora)
    <3>1. Combinado /\ agora' >= agora /\ agora \in Nat /\ agora' \in Nat
      BY <1>1, PassoCombinado DEF Inv, TypeOK, AtivosTypeOK
    <3>2. bloqueio[b] \in Linha /\ bloqueio'[b] \in Linha
      BY <1>1 DEF Inv, TypeOK, AtivosTypeOK
    <3>3. bloqueio'[b].ativo # Nenhum
      BY <2>1, <3>1 DEF Combinado, Existe
    <3>4. LinhaBoa(bloqueio'[b], agora')
      BY <1>1, <3>3 DEF Inv, BloqueiosBons, Existe
    <3>5. bloqueio'[b].liberado = Nunca
      BY <2>1, <3>1, <3>2, <3>4, UmaLiberacao
    <3>6. bloqueio[b].liberado = Nunca /\ bloqueio[b].inicio = bloqueio'[b].inicio
          /\ bloqueio[b].fim = bloqueio'[b].fim
      BY <2>1, <3>1, <3>5 DEF Combinado
    <3> QED BY <2>1, <3>1, <3>2, <3>5, <3>6 DEF Aberto, FimNoDominio, Linha
  <2> QED BY <2>1
<1>2. Inv /\ Inv' /\ [Next]_vars => [A]_<<agora, avars>>
  BY <1>1
<1> QED BY <1>2, InvSempre, PTL DEF Spec, LiberacaoNaoReabre
=============================================================================
