--------------------------- MODULE UnidadeDeTrabalho ---------------------------
(***************************************************************************)
(* packages/database: requests of one process share a pool of connections. *)
(* A repository call (withTenant) runs in the transaction of the unit of   *)
(* work it is called from, which it finds through AsyncLocalStorage, or in *)
(* one of its own; either is scoped to a company, and perhaps to a person, *)
(* by settings local to the transaction.                                   *)
(***************************************************************************)
EXTENDS Naturals, Sequences

CONSTANTS
    Pedidos,       \* the requests of one process
    Empresas,      \* the companies
    Conexoes,      \* the connections of the pool (postgres.js, max)
    Nulo,          \* nothing
    MaxPassos,     \* bound: MaxPassos[p] calls made and units opened by request p
    MaxFundo,      \* bound: units of work inside one another
    MaxQuedas      \* bound: deaths of the process

ASSUME UnidadeAssumption ==
    /\ MaxPassos \in [Pedidos -> Nat] /\ MaxFundo \in Nat \ {0} /\ MaxQuedas \in Nat
    /\ Nulo \notin Pedidos \union Empresas \union Conexoes

VARIABLES
    banco,      \* rows stored
    perdidas,   \* history: rows that were undone
    conexao,    \* conexao[c]: its transaction, if it has one
    fila,       \* who waits for a connection, in order: <<request, call or 0>>
    pedido,     \* pedido[p]: where its code is, and the unit it is in
    chamada,    \* chamada[p][i]: a repository call in flight
    consulta,   \* history: the statement of the last step, what it asked for and got
    quedas

vars == <<banco, perdidas, conexao, fila, pedido, chamada, consulta, quedas>>

-----------------------------------------------------------------------------
Passos == UNION {1..MaxPassos[p] : p \in Pedidos}

Calls == 1..2

\* A row, numbered backwards.  unidade: the first number of the unit of work, or of
\* the lone call, it was written from.
Linha == {l \in [pedido : Pedidos, unidade : Passos, n : Passos] :
            l.n <= l.unidade /\ l.unidade <= MaxPassos[l.pedido]}

\* empresa, usuario: app.tenant_id and app.user_id of the transaction.  A person
\* stands for each request.
Conexao == [dono : Pedidos \union {Nulo}, empresa : Empresas \union {Nulo},
            usuario : Pedidos \union {Nulo}, linhas : SUBSET Linha]

SemTransacao == [dono |-> Nulo, empresa |-> Nulo, usuario |-> Nulo, linhas |-> {}]

\* resta: what the bound still allows.  unidade, fundo: the unit it is in and how
\* many of them are open.  em, fixado: the store of AsyncLocalStorage.
Pedido == [empresa : Empresas, passo : {"codigo", "espera", "erro", "fim"},
           resta : Passos \union {0}, unidade : Passos \union {0}, fundo : 0..MaxFundo,
           em : Conexoes \union {Nulo}, fixado : BOOLEAN,
           resposta : {"nenhuma", "ok", "erro"}]

Chamada == [passo : {"livre", "espera", "aberta", "confirmando", "fixando"},
            empresa : Empresas \union {Nulo}, comUsuario : BOOLEAN, grava : BOOLEAN,
            em : Conexoes \union {Nulo}, linha : Linha \union {Nulo}]

SemChamada == [passo |-> "livre", empresa |-> Nulo, comUsuario |-> FALSE, grava |-> FALSE,
               em |-> Nulo, linha |-> Nulo]

Consulta == [empresa : Empresas, usuario : Pedidos \union {Nulo},
             daEmpresa : Empresas \union {Nulo}, doUsuario : Pedidos \union {Nulo}]

TypeOK ==
    /\ banco \subseteq Linha /\ perdidas \subseteq Linha
    /\ conexao \in [Conexoes -> Conexao]
    /\ fila \in Seq(Pedidos \X (0..2))
    /\ pedido \in [Pedidos -> Pedido]
    /\ chamada \in [Pedidos -> [Calls -> Chamada]]
    /\ consulta \in Consulta \union {Nulo}
    /\ quedas \in 0..MaxQuedas

Parado(p) == \A i \in Calls : chamada[p][i].passo = "livre"

EmUnidade(p) == pedido[p].em # Nulo

Init ==
    /\ banco = {} /\ perdidas = {}
    /\ conexao = [c \in Conexoes |-> SemTransacao]
    /\ fila = << >>
    /\ \E empresa \in [Pedidos -> Empresas] :
         pedido = [p \in Pedidos |->
                     [empresa |-> empresa[p], passo |-> "codigo", resta |-> MaxPassos[p],
                      unidade |-> 0, fundo |-> 0, em |-> Nulo, fixado |-> FALSE,
                      resposta |-> "nenhuma"]]
    /\ chamada = [p \in Pedidos |-> [i \in Calls |-> SemChamada]]
    /\ consulta = Nulo
    /\ quedas = 0

-----------------------------------------------------------------------------
(* Transactions.                                                           *)

Efetivada(c) == /\ banco' = banco \union conexao[c].linhas
                /\ UNCHANGED perdidas

Desfeita(c) == /\ perdidas' = perdidas \union conexao[c].linhas
               /\ UNCHANGED banco

\* Settings local to the transaction go with it.
Devolver(c) == conexao' = [conexao EXCEPT ![c] = SemTransacao]

\* One statement of call (p, i) on connection c, under the settings of c.  A row
\* of another company is refused by row level security.
Executar(p, i, c, ch, usuario) ==
    /\ consulta' = [empresa |-> ch.empresa, usuario |-> IF ch.comUsuario THEN p ELSE Nulo,
                    daEmpresa |-> conexao[c].empresa, doUsuario |-> usuario]
    /\ ch.grava => conexao[c].empresa = ch.empresa
    /\ conexao' = [conexao EXCEPT ![c].usuario = usuario,
                                  ![c].linhas = IF ch.grava THEN @ \union {ch.linha} ELSE @]

\* Mutant of TransacaoDaUnidade: each call opens its own transaction.
TransacaoSempreNova(p) == Nulo

\* The transaction a call or a unit of work is to take part in, if any.
TransacaoDaUnidade(p) == pedido[p].em

\* Mutant of EscopoCruzado: the transaction is shared whatever the company.
EscopoLivre(p, empresa) == FALSE

EscopoCruzado(p, empresa) == TransacaoDaUnidade(p) # Nulo /\ empresa # pedido[p].empresa

\* Mutant of PrecisaFixar: the person the unit was opened for is kept.
PrecisaFixarNunca(p, comUsuario) == FALSE

\* A call that asks for a person the transaction is not scoped to.
PrecisaFixar(p, comUsuario) == comUsuario /\ ~pedido[p].fixado

-----------------------------------------------------------------------------
(* Repository calls.                                                       *)

\* The call as it is issued: reads of one request may be in flight together
\* (Promise.all), a write is waited for.
NovaChamada(p, i, empresa, comUsuario, grava) ==
    /\ pedido[p].passo = "codigo" /\ pedido[p].resta > 0
    /\ chamada[p][i].passo = "livre"
    /\ \A j \in Calls : chamada[p][j].passo # "livre" => ~grava /\ ~chamada[p][j].grava
    /\ EmUnidade(p) \/ empresa = pedido[p].empresa

RegistroDe(p, empresa, comUsuario, grava, passo, c) ==
    [passo |-> passo, empresa |-> empresa, comUsuario |-> comUsuario, grava |-> grava,
     em |-> c,
     linha |-> [pedido |-> p, n |-> pedido[p].resta,
                unidade |-> IF EmUnidade(p) THEN pedido[p].unidade ELSE pedido[p].resta]]

\* withTenant outside a unit: wait for a connection.
ChamarFora(p, i) ==
    \E empresa \in Empresas, comUsuario \in BOOLEAN, grava \in BOOLEAN :
        /\ NovaChamada(p, i, empresa, comUsuario, grava)
        /\ ~EscopoCruzado(p, empresa) /\ TransacaoDaUnidade(p) = Nulo
        /\ chamada' = [chamada EXCEPT ![p][i] =
                          RegistroDe(p, empresa, comUsuario, grava, "espera", Nulo)]
        /\ fila' = Append(fila, <<p, i>>)
        /\ pedido' = [pedido EXCEPT ![p].resta = @ - 1]
        /\ consulta' = Nulo
        /\ UNCHANGED <<banco, perdidas, conexao, quedas>>

\* withTenant inside one: the statement goes out at once, after the setting of
\* the person if it needs one.
ChamarDentro(p, i) ==
    \E empresa \in Empresas, comUsuario \in BOOLEAN, grava \in BOOLEAN :
        LET c  == TransacaoDaUnidade(p)
            ch == RegistroDe(p, empresa, comUsuario, grava, "fixando", c) IN
        /\ NovaChamada(p, i, empresa, comUsuario, grava)
        /\ ~EscopoCruzado(p, empresa) /\ c # Nulo
        /\ pedido' = [pedido EXCEPT ![p].resta = @ - 1]
        /\ IF PrecisaFixar(p, comUsuario)
           THEN /\ conexao' = [conexao EXCEPT ![c].usuario = p]
                /\ chamada' = [chamada EXCEPT ![p][i] = ch]
                /\ consulta' = Nulo
           ELSE /\ Executar(p, i, c, ch, conexao[c].usuario)
                /\ UNCHANGED chamada
        /\ UNCHANGED <<banco, perdidas, fila, quedas>>

\* app.user_id is set, and the store says so.
Fixar(p, i) ==
    /\ chamada[p][i].passo = "fixando"
    /\ Executar(p, i, chamada[p][i].em, chamada[p][i], p)
    /\ pedido' = [pedido EXCEPT ![p].fixado = TRUE]
    /\ chamada' = [chamada EXCEPT ![p][i] = SemChamada]
    /\ UNCHANGED <<banco, perdidas, fila, quedas>>

\* The transaction of a lone call.
ExecutarSozinha(p, i) ==
    /\ chamada[p][i].passo = "aberta"
    /\ Executar(p, i, chamada[p][i].em, chamada[p][i], conexao[chamada[p][i].em].usuario)
    /\ chamada' = [chamada EXCEPT ![p][i].passo = "confirmando"]
    /\ UNCHANGED <<banco, perdidas, fila, pedido, quedas>>

ConfirmarSozinha(p, i) ==
    /\ chamada[p][i].passo = "confirmando"
    /\ Efetivada(chamada[p][i].em)
    /\ Devolver(chamada[p][i].em)
    /\ chamada' = [chamada EXCEPT ![p][i] = SemChamada]
    /\ consulta' = Nulo
    /\ UNCHANGED <<fila, pedido, quedas>>

\* A statement fails, or the connection does; at the commit, perhaps after the
\* database has done it.
FalharSozinha(p, i) ==
    LET ch == chamada[p][i] IN
    /\ ch.passo \in {"aberta", "confirmando"}
    /\ \/ Desfeita(ch.em)
       \/ ch.passo = "confirmando" /\ Efetivada(ch.em)
    /\ Devolver(ch.em)
    /\ chamada' = [chamada EXCEPT ![p][i] = SemChamada]
    /\ pedido' = [pedido EXCEPT ![p].passo = IF @ = "codigo" THEN "erro" ELSE @]
    /\ consulta' = Nulo
    /\ UNCHANGED <<fila, quedas>>

-----------------------------------------------------------------------------
(* Units of work.                                                          *)

\* comUnidadeDeTrabalho: inside a unit, take part in it.
Aninhar(p) ==
    /\ pedido[p].passo = "codigo" /\ Parado(p) /\ pedido[p].resta > 0
    /\ TransacaoDaUnidade(p) # Nulo /\ pedido[p].fundo < MaxFundo
    /\ pedido' = [pedido EXCEPT ![p].fundo = @ + 1, ![p].resta = @ - 1]
    /\ consulta' = Nulo
    /\ UNCHANGED <<banco, perdidas, conexao, fila, chamada, quedas>>

AbrirUnidade(p) ==
    /\ pedido[p].passo = "codigo" /\ Parado(p) /\ pedido[p].resta > 0
    /\ ~EmUnidade(p)
    /\ pedido' = [pedido EXCEPT ![p].passo = "espera", ![p].unidade = pedido[p].resta,
                                ![p].resta = @ - 1]
    /\ fila' = Append(fila, <<p, 0>>)
    /\ consulta' = Nulo
    /\ UNCHANGED <<banco, perdidas, conexao, chamada, quedas>>

\* The next in the queue gets a connection: begin, and both settings.
TomarConexao ==
    /\ fila # << >>
    /\ fila' = Tail(fila)
    /\ \E c \in Conexoes :
         LET p == Head(fila)[1]
             i == Head(fila)[2]
             ch == chamada[p][i] IN
         /\ conexao[c].dono = Nulo
         /\ IF i = 0
            THEN /\ conexao' = [conexao EXCEPT ![c] =
                        [dono |-> p, empresa |-> pedido[p].empresa, usuario |-> Nulo, linhas |-> {}]]
                 /\ pedido' = [pedido EXCEPT ![p].passo = "codigo", ![p].em = c, ![p].fundo = 1]
                 /\ UNCHANGED chamada
            ELSE /\ conexao' = [conexao EXCEPT ![c] =
                        [dono |-> p, empresa |-> ch.empresa,
                         usuario |-> IF ch.comUsuario THEN p ELSE Nulo, linhas |-> {}]]
                 /\ chamada' = [chamada EXCEPT ![p][i].passo = "aberta", ![p][i].em = c]
                 /\ UNCHANGED pedido
    /\ consulta' = Nulo
    /\ UNCHANGED <<banco, perdidas, quedas>>

ForaDaUnidade(p) == [pedido[p] EXCEPT !.unidade = 0, !.fundo = 0, !.em = Nulo, !.fixado = FALSE]

\* Mutant of FecharAninhada: the unit inside commits.
FecharAninhadaEfetiva(p) ==
    /\ pedido[p].passo = "codigo" /\ Parado(p) /\ pedido[p].fundo > 1
    /\ Efetivada(pedido[p].em)
    /\ conexao' = [conexao EXCEPT ![pedido[p].em].linhas = {}]
    /\ pedido' = [pedido EXCEPT ![p].fundo = @ - 1]
    /\ consulta' = Nulo
    /\ UNCHANGED <<fila, chamada, quedas>>

\* Mutant of FecharAninhada: a unit that is not open may end.
FecharAninhadaSempre(p) ==
    /\ pedido[p].passo = "codigo" /\ Parado(p)
    /\ pedido' = [pedido EXCEPT ![p].fundo = @ - 1]
    /\ consulta' = Nulo
    /\ UNCHANGED <<banco, perdidas, conexao, fila, chamada, quedas>>

\* The function given to a unit returns: the outermost commits.
FecharAninhada(p) ==
    /\ pedido[p].passo = "codigo" /\ Parado(p) /\ pedido[p].fundo > 1
    /\ pedido' = [pedido EXCEPT ![p].fundo = @ - 1]
    /\ consulta' = Nulo
    /\ UNCHANGED <<banco, perdidas, conexao, fila, chamada, quedas>>

FecharUnidade(p) ==
    /\ pedido[p].passo = "codigo" /\ Parado(p) /\ pedido[p].fundo = 1
    /\ Efetivada(pedido[p].em)
    /\ Devolver(pedido[p].em)
    /\ pedido' = [pedido EXCEPT ![p] = ForaDaUnidade(p)]
    /\ consulta' = Nulo
    /\ UNCHANGED <<fila, chamada, quedas>>

\* The commit fails, perhaps after the database has done it.
FalharAoFechar(p) ==
    /\ pedido[p].passo = "codigo" /\ Parado(p) /\ pedido[p].fundo = 1
    /\ Efetivada(pedido[p].em) \/ Desfeita(pedido[p].em)
    /\ Devolver(pedido[p].em)
    /\ pedido' = [pedido EXCEPT ![p] = [ForaDaUnidade(p) EXCEPT !.passo = "erro"]]
    /\ consulta' = Nulo
    /\ UNCHANGED <<fila, chamada, quedas>>

-----------------------------------------------------------------------------
(* The end of a request.                                                   *)

\* A statement failed, or a call asked for another company inside a unit
\* (EscopoCruzado), or the code throws.  Nothing catches the exception inside a
\* unit: it is undone, and the reads in flight in it are abandoned.
Lancar(p) ==
    /\ \/ pedido[p].passo = "erro"
       \/ /\ pedido[p].passo = "codigo"
          /\ \A i \in Calls : chamada[p][i].passo \in {"livre", "fixando"}
    /\ IF EmUnidade(p)
       THEN /\ Desfeita(pedido[p].em) /\ Devolver(pedido[p].em)
            /\ chamada' = [chamada EXCEPT ![p] = [i \in Calls |-> SemChamada]]
       ELSE UNCHANGED <<banco, perdidas, conexao, chamada>>
    /\ pedido' = [pedido EXCEPT ![p] = [ForaDaUnidade(p) EXCEPT !.passo = "fim",
                                                                !.resposta = "erro"]]
    /\ consulta' = Nulo
    /\ UNCHANGED <<fila, quedas>>

Concluir(p) ==
    /\ pedido[p].passo = "codigo" /\ ~EmUnidade(p) /\ Parado(p)
    /\ pedido' = [pedido EXCEPT ![p].passo = "fim", ![p].resposta = "ok"]
    /\ consulta' = Nulo
    /\ UNCHANGED <<banco, perdidas, conexao, fila, chamada, quedas>>

\* The process dies: its transactions are undone, nobody is answered any more.
Cair ==
    /\ quedas < MaxQuedas
    /\ quedas' = quedas + 1
    /\ perdidas' = perdidas \union UNION {conexao[c].linhas : c \in Conexoes}
    /\ conexao' = [c \in Conexoes |-> SemTransacao]
    /\ fila' = << >>
    /\ pedido' = [p \in Pedidos |-> [ForaDaUnidade(p) EXCEPT !.passo = "fim"]]
    /\ chamada' = [p \in Pedidos |-> [i \in Calls |-> SemChamada]]
    /\ consulta' = Nulo
    /\ UNCHANGED banco

DoPedido(p) ==
    \/ Aninhar(p) \/ AbrirUnidade(p) \/ FecharAninhada(p) \/ FecharUnidade(p)
    \/ FalharAoFechar(p) \/ Lancar(p) \/ Concluir(p)
    \/ \E i \in Calls : ChamarFora(p, i) \/ ChamarDentro(p, i)

DaChamada(p, i) == Fixar(p, i) \/ ExecutarSozinha(p, i) \/ ConfirmarSozinha(p, i)
                   \/ FalharSozinha(p, i)

Next == \/ \E p \in Pedidos : DoPedido(p)
        \/ \E p \in Pedidos, i \in Calls : DaChamada(p, i)
        \/ TomarConexao
        \/ Cair

Spec == Init /\ [][Next]_vars

\* The event loop runs whatever may run, and postgres.js serves its queue.
FairSpec ==
    /\ Spec
    /\ WF_vars(TomarConexao)
    /\ \A p \in Pedidos : WF_vars(DoPedido(p))
    /\ \A p \in Pedidos, i \in Calls : WF_vars(DaChamada(p, i))

-----------------------------------------------------------------------------
(* Properties.                                                             *)

\* Every statement runs under the company its call asked for, and under the
\* person it asked for, if any: whatever the unit it is called from was opened
\* for, and whoever had the connection before (withTenant).
EscopoDaConsulta ==
    consulta # Nulo =>
        /\ consulta.daEmpresa = consulta.empresa
        /\ consulta.usuario # Nulo => consulta.doUsuario = consulta.usuario

Promessa == INSTANCE TudoOuNada WITH
    Linhas <- Linha,
    pendentes <- UNION {conexao[c].linhas : c \in Conexoes},
    resposta <- [p \in Pedidos |-> pedido[p].resposta]

\* Units of work, one inside another and called through repositories that know
\* nothing of them, are atomic; who is answered "ok" lost nothing, wherever
\* statements, commits or the process fail (DrizzleUnitOfWork).
CumpreTudoOuNada == Promessa!Spec

\* Everybody is answered or cut, and every connection comes back: no request
\* waits for a connection while it keeps one from the others.
TodosTerminam ==
    <>[](/\ \A p \in Pedidos : pedido[p].passo = "fim"
         /\ \A c \in Conexoes : conexao[c].dono = Nulo)

-----------------------------------------------------------------------------
(* The inductive invariant.                                                *)

Abertas == {"aberta", "confirmando"}

Todas == banco \union perdidas \union UNION {conexao[c].linhas : c \in Conexoes}

\* Who is in a unit, or waits for one.
ComUnidade(p) == EmUnidade(p) \/ pedido[p].passo = "espera"

\* The unit of p has its transaction to itself, with the settings of p.
UnidadeBoa(p) ==
    LET r == pedido[p] IN
    /\ r.resta <= MaxPassos[p]
    /\ r.passo # "fim" => r.resposta = "nenhuma"
    /\ ~EmUnidade(p) => ~r.fixado /\ r.fundo = 0
    /\ r.passo = "espera" => ~EmUnidade(p) /\ Parado(p)
    /\ ComUnidade(p) => r.resta < r.unidade /\ r.unidade <= MaxPassos[p]
    /\ EmUnidade(p) =>
         /\ r.passo = "codigo"
         /\ conexao[r.em].dono = p /\ conexao[r.em].empresa = r.empresa
         /\ r.fixado => conexao[r.em].usuario = p
         /\ \A l \in conexao[r.em].linhas : l.pedido = p /\ l.unidade = r.unidade

\* A call of a unit is in its transaction; a lone call has one to itself.
ChamadaBoa(p, i) ==
    LET ch == chamada[p][i] IN
    /\ ch.passo # "livre" =>
         /\ ch.empresa \in Empresas /\ ch.linha \in Linha
         /\ ch.linha.pedido = p /\ ch.linha.n > pedido[p].resta
         /\ ch.grava => \A j \in Calls \ {i} : chamada[p][j].passo = "livre"
    /\ ch.passo = "fixando" =>
         /\ EmUnidade(p) /\ ch.em = pedido[p].em
         /\ ch.empresa = pedido[p].empresa /\ ch.linha.unidade = pedido[p].unidade
    /\ ch.passo \in {"espera"} \union Abertas =>
         ~EmUnidade(p) /\ ch.linha.unidade = ch.linha.n
    /\ ch.passo \in Abertas =>
         /\ ch.em # Nulo
         /\ conexao[ch.em].dono = p /\ conexao[ch.em].empresa = ch.empresa
         /\ ch.comUsuario => conexao[ch.em].usuario = p
         /\ conexao[ch.em].linhas = IF ch.grava /\ ch.passo = "confirmando" THEN {ch.linha} ELSE {}
         /\ \A j \in Calls \ {i} : chamada[p][j].passo \in Abertas => chamada[p][j].em # ch.em

NaoEscrita(ch) == ch.grava /\ ch.passo \in {"espera", "aberta", "fixando"}

\* Numbers go down: what p is about to write comes after everything it wrote, and
\* whoever has lost something will not be answered "ok".
LinhasBoas(p) ==
    /\ \A l \in Todas : l.pedido = p =>
          /\ l.n > pedido[p].resta
          /\ \A i \in Calls : NaoEscrita(chamada[p][i]) => l.n > chamada[p][i].linha.n
    /\ \A l \in banco \union perdidas :
          l.pedido = p /\ ComUnidade(p) => l.unidade > pedido[p].unidade
    /\ \A l \in perdidas : l.pedido = p => pedido[p].passo \in {"erro", "fim"}

\* No connection is kept for nobody.
ConexaoBoa(c) ==
    LET p == conexao[c].dono IN
    IF p = Nulo THEN conexao[c].linhas = {}
    ELSE \/ pedido[p].em = c
         \/ \E i \in Calls : chamada[p][i].passo \in Abertas /\ chamada[p][i].em = c

\* Who is in the queue waits, and is there once.
FilaBoa ==
    /\ \A k \in 1..Len(fila) :
          IF fila[k][2] = 0 THEN pedido[fila[k][1]].passo = "espera"
          ELSE chamada[fila[k][1]][fila[k][2]].passo = "espera"
    /\ \A k, l \in 1..Len(fila) : fila[k] = fila[l] => k = l

Bom(p) == UnidadeBoa(p) /\ LinhasBoas(p) /\ \A i \in Calls : ChamadaBoa(p, i)

\* Who was answered "ok" has nothing in flight that could still write.
Calado(p) == pedido[p].resposta = "ok" => pedido[p].passo = "fim" /\ Parado(p)

Inv == /\ TypeOK /\ EscopoDaConsulta /\ FilaBoa
       /\ \A p \in Pedidos : Bom(p)
       /\ \A c \in Conexoes : ConexaoBoa(c)

=============================================================================
