----------------------------- MODULE Crm_proofs -----------------------------
(***************************************************************************)
(* Proofs about Crm: whatever the requests, the documents, the people and  *)
(* the bounds.  Inv is inductive.  Everything stored or announced comes    *)
(* from a request that is over, and a request that is over never changes   *)
(* again: a step of request p can only disturb what is said about p.       *)
(* FichasBoas, what is said of the timelines, is inductive given Inv: what *)
(* was recorded before a timeline was asked for no longer moves.           *)
(***************************************************************************)
EXTENDS Crm, FiniteSetTheorems, TLAPS

\* All that is said of the rows and of the requests that are over.
Feitos == RegistrosBons /\ SobreposicaoSoPorCorrida /\ FechoSoPorCorrida
             /\ AlteracaoSobrevive

\* Request p is the only one that moved.
SoMoveu(p) == \A q \in Pedidos \ {p} : pedido'[q] = pedido[q] /\ antes'[q] = antes[q]

-----------------------------------------------------------------------------
(* The first state.                                                        *)

LEMMA LivreTipo == Livre \in Pedido
BY DEF Livre, Pedido

LEMMA InitInv == Init => Inv
<1> SUFFICES ASSUME Init PROVE Inv
    OBVIOUS
<1>1. TypeOK
  <2>1. cliente \in [Clientes -> LinhaDeCliente \union {Nulo}]
    BY DEF Init, LinhaDeCliente, Clientes
  <2>2. agenda \in [Pedidos -> LinhaDeAgenda \union {Nulo}]
    BY DEF Init
  <2>3. agora \in 0..MaxAgora
    BY CrmAssumption DEF Init
  <2>4. pedido \in [Pedidos -> Pedido]
    BY LivreTipo DEF Init
  <2> QED
    BY <2>1, <2>2, <2>3, <2>4 DEF Init, TypeOK
<1>2. \A p \in Pedidos : /\ pedido[p].op = "nenhuma" /\ pedido[p].passo = "livre"
                         /\ pedido[p].havia = FALSE /\ pedido[p].resposta = "nada"
                         /\ antes[p] = {} /\ agenda[p] = Nulo
  BY DEF Init, Livre
<1>3. eventos = {}
  BY DEF Init
<1>4. RegistrosBons
  BY <1>2, <1>3 DEF RegistrosBons
<1>5. \A p \in Pedidos : MemoriaBoa(p) /\ PassadoBom(p)
  BY <1>2, <1>3 DEF MemoriaBoa, PassadoBom, EmAndamento
<1>6. SobreposicaoSoPorCorrida /\ FechoSoPorCorrida
  BY <1>2, <1>3 DEF SobreposicaoSoPorCorrida, FechoSoPorCorrida, Publicou
<1>7. AlteracaoSobrevive
  BY <1>3 DEF AlteracaoSobrevive, GravouCliente, Publicou
<1> QED
  BY <1>1, <1>4, <1>5, <1>6, <1>7 DEF Inv

-----------------------------------------------------------------------------
(* A step of p that writes nothing.                                        *)

\* What is stored, and what the other requests know, is as it was.
LEMMA Alheio ==
    ASSUME Inv, NEW p \in Pedidos, pedido[p].passo # "fim", SoMoveu(p), UNCHANGED banco
    PROVE  /\ Feitos'
           /\ \A q \in Pedidos \ {p} : MemoriaBoa(q)' /\ PassadoBom(q)'
<1> USE DEF Inv
<1>0. UNCHANGED <<cliente, agenda, notas, eventos>>
  BY DEF banco
<1>1. \A q \in Pedidos : pedido[q].passo = "fim" => q # p
  OBVIOUS
<1>2. \A q, s, c : Publicou(q, s, c)' = Publicou(q, s, c)
  BY <1>0 DEF Publicou
<1>3. \A q \in Pedidos : \A s, c : Publicou(q, s, c) => pedido[q].passo = "fim"
  BY DEF Publicou, RegistrosBons
<1>4. \A q \in Pedidos \ {p} : pedido'[q] = pedido[q] /\ antes'[q] = antes[q]
  BY DEF SoMoveu
<1>5. RegistrosBons'
  <2>1. \A a \in Pedidos : agenda'[a] # Nulo => pedido'[a].passo = "fim"
    BY <1>0, <1>1, <1>4 DEF RegistrosBons
  <2>2. ASSUME NEW e \in eventos'
        PROVE  pedido'[e.por].passo = "fim"
    <3>1. e \in eventos /\ e.por \in Pedidos /\ pedido[e.por].passo = "fim"
      BY <2>2, <1>0 DEF RegistrosBons, TypeOK, Evento
    <3> QED
      BY <3>1, <1>1, <1>4
  <2> QED
    BY <2>1, <2>2, <1>0 DEF RegistrosBons
<1>6. SobreposicaoSoPorCorrida'
  <2> SUFFICES ASSUME NEW a \in Pedidos, NEW b \in Pedidos, a # b,
                      agenda[a] # Nulo, agenda[b] # Nulo, Conflita(agenda[a], agenda[b])
               PROVE  Concorrentes(a, b)'
    BY <1>0 DEF SobreposicaoSoPorCorrida, Conflita
  <2>1. a # p /\ b # p /\ Concorrentes(a, b)
    BY <1>1 DEF RegistrosBons, SobreposicaoSoPorCorrida
  <2> QED
    BY <2>1, <1>4 DEF Concorrentes
<1>7. FechoSoPorCorrida'
  <2> SUFFICES ASSUME NEW a \in Pedidos
               PROVE  /\ agenda[a] # Nulo => \E q \in Pedidos : Publicou(q, agenda[a].situacao, a)
                      /\ \A q, t \in Pedidos, s, u \in {"done", "canceled"} :
                            Publicou(q, s, a) /\ Publicou(t, u, a) /\ q # t
                               => Concorrentes(q, t)' /\ agenda[a].situacao # "scheduled"
    BY <1>0, <1>2 DEF FechoSoPorCorrida, Publicou
  <2>1. \A q, t \in Pedidos : pedido[q].passo = "fim" /\ pedido[t].passo = "fim"
                                  => Concorrentes(q, t)' = Concorrentes(q, t)
    BY <1>1, <1>4 DEF Concorrentes
  <2> QED
    BY <2>1, <1>3 DEF FechoSoPorCorrida
<1>9. ASSUME NEW q \in Pedidos \ {p}, NEW c, Coberto(q, c)
      PROVE  Coberto(q, c)'
  <2>1. PICK t \in Pedidos \ {q} : /\ GravouCliente(t, c) /\ t \notin antes[q]
                                   /\ pedido[t].contato \/ Concorrentes(q, t)
    BY <1>9 DEF Coberto
  <2>2. pedido[t].passo = "fim"
    BY <2>1, <1>3 DEF GravouCliente
  <2>3. t # p
    BY <2>2
  <2> QED
    BY <2>1, <2>3, <1>2, <1>4 DEF Coberto, GravouCliente, Concorrentes
<1>10. AlteracaoSobrevive'
  <2> SUFFICES ASSUME NEW c \in Clientes, NEW q \in Pedidos, GravouCliente(q, c),
                      pedido'[q].contato, cliente[c].contato # q
               PROVE  Coberto(q, c)'
    BY <1>0, <1>2 DEF AlteracaoSobrevive, Coberto, GravouCliente
  <2>1. q # p
    BY <1>3 DEF GravouCliente
  <2>2. Coberto(q, c)
    BY <2>1, <1>4 DEF AlteracaoSobrevive, Coberto
  <2> QED
    BY <2>1, <2>2, <1>9
<1>11. ASSUME NEW q \in Pedidos \ {p}
       PROVE  MemoriaBoa(q)' /\ PassadoBom(q)'
  <2>1. pedido'[q] = pedido[q] /\ antes'[q] = antes[q]
    BY <1>4
  <2>2. MemoriaBoa(q) /\ PassadoBom(q)
    OBVIOUS
  <2>3. MemoriaBoa(q)'
    BY <2>1, <2>2, <1>0 DEF MemoriaBoa, EmAndamento, Existe
  <2>4. antes[q] \subseteq Pedidos \ {p} /\ antes[q] \subseteq Encerrados
    BY <2>2 DEF PassadoBom, Encerrados
  <2>5. antes'[q] \subseteq Encerrados'
    BY <2>1, <2>4, <1>4 DEF Encerrados
  <2>6. pedido[q].op = "agendar" /\ pedido[q].passo = "gravar" =>
           \A a \in antes[q] : agenda'[a] # Nulo => ~Conflita(pedido[q].linha, agenda'[a])
    BY <2>2, <1>0 DEF PassadoBom
  <2>7. PICK c : c = pedido[q].alvo /\ c = pedido'[q].alvo
    BY <2>1
  <2>8. pedido[q].op = "encerrar" /\ EmAndamento(q) =>
           \A t \in antes[q], s \in {"done", "canceled"} : ~Publicou(t, s, c)'
    BY <2>2, <2>7, <1>2 DEF PassadoBom
  <2>9. pedido[q].op = "alterar" /\ EmAndamento(q) /\ ~pedido[q].contato =>
           \A t \in antes[q] :
              GravouCliente(t, c)' /\ pedido'[t].contato /\ pedido[q].linha.contato # t
                 => Coberto(t, c)'
    BY <2>2, <2>4, <2>7, <1>2, <1>4, <1>9 DEF PassadoBom, GravouCliente
  <2>10. PassadoBom(q)'
    BY <2>1, <2>5, <2>6, <2>7, <2>8, <2>9, <1>0
       DEF PassadoBom, EmAndamento, Conflita
  <2> QED
    BY <2>3, <2>10
<1> QED
  BY <1>5, <1>6, <1>7, <1>10, <1>11 DEF Feitos

\* Then the invariant holds when p itself is right.
LEMMA FechaInv ==
    ASSUME NEW p \in Pedidos, TypeOK', Feitos',
           \A q \in Pedidos \ {p} : MemoriaBoa(q)' /\ PassadoBom(q)',
           MemoriaBoa(p)', PassadoBom(p)'
    PROVE  Inv'
<1>1. \A q \in Pedidos : MemoriaBoa(q)' /\ PassadoBom(q)'
  OBVIOUS
<1> QED
  BY <1>1 DEF Inv, Feitos

-----------------------------------------------------------------------------
(* A request arrives.                                                      *)

\* Who was over when p began is over; nothing else of p is known yet.
LEMMA Comeco ==
    ASSUME Inv, NEW p \in Pedidos, NEW m \in Pedido, Comecar(p, m)
    PROVE  /\ TypeOK' /\ UNCHANGED <<cliente, agenda, notas, eventos>>
           /\ pedido'[p] = m /\ antes'[p] = Encerrados
           /\ antes'[p] \subseteq Encerrados'
           /\ Feitos' /\ \A q \in Pedidos \ {p} : MemoriaBoa(q)' /\ PassadoBom(q)'
<1>1. TypeOK
  BY DEF Inv
<1>2. UNCHANGED <<cliente, agenda, notas, eventos, agora>>
  BY DEF Comecar, banco
<1>3. /\ pedido' \in [Pedidos -> Pedido] /\ antes' \in [Pedidos -> SUBSET Pedidos]
      /\ pedido'[p] = m /\ antes'[p] = Encerrados /\ SoMoveu(p)
  BY <1>1 DEF TypeOK, Comecar, SoMoveu, Encerrados
<1>4. TypeOK'
  BY <1>1, <1>2, <1>3 DEF TypeOK
<1>5. pedido[p].passo # "fim" /\ UNCHANGED banco
  BY DEF Comecar
<1>6. antes'[p] \subseteq Encerrados'
  BY <1>3, <1>5 DEF Encerrados, SoMoveu
<1> QED
  BY <1>2, <1>3, <1>4, <1>5, <1>6, Alheio

\* A request that begins with nothing checked has nothing to keep.
LEMMA ComecoInv ==
    ASSUME Inv, NEW p \in Pedidos, NEW m \in Pedido, Comecar(p, m),
           MemoriaBoa(p)',
           ~(m.op = "agendar" /\ m.passo = "gravar"),
           m.op \notin {"encerrar", "alterar"}
    PROVE  Inv'
<1>1. PassadoBom(p)'
  BY Comeco DEF PassadoBom
<1> QED
  BY <1>1, Comeco, FechaInv

LEMMA CriarClienteInv ==
    ASSUME Inv, NEW p \in Pedidos, NEW d \in Documentos \union {Nulo}, CriarCliente(p, d)
    PROVE  Inv'
<1> DEFINE m == [Livre EXCEPT !.op = "criar", !.passo = "gravar", !.alvo = p,
                     !.linha = NovoCliente(p, d), !.contato = TRUE]
<1>1. NovoCliente(p, d) \in LinhaDeCliente /\ NovoCliente(p, d).contato = p
  BY DEF NovoCliente, LinhaDeCliente, Clientes
<1>2. /\ m.op = "criar" /\ m.passo = "gravar" /\ m.alvo = p /\ m.linha = NovoCliente(p, d)
      /\ m.contato = TRUE /\ m.havia = FALSE /\ m.resposta = "nada"
  BY DEF Livre
<1>3. m \in Pedido
  BY <1>1 DEF Pedido, Livre, Clientes
<1>4. Comecar(p, m)
  BY DEF CriarCliente
<1> HIDE DEF m
<1>5. pedido'[p] = m
  BY <1>3, <1>4, Comeco
<1>6. MemoriaBoa(p)'
  BY <1>1, <1>2, <1>5 DEF MemoriaBoa, EmAndamento, Clientes
<1> QED
  BY <1>2, <1>3, <1>4, <1>6, ComecoInv

LEMMA AlterarClienteInv ==
    ASSUME Inv, NEW p \in Pedidos, NEW c \in Clientes,
           NEW d \in Documentos \union {Nulo, Manter}, NEW mexe \in BOOLEAN,
           AlterarCliente(p, c, d, mexe)
    PROVE  Inv'
<1> DEFINE l == Alterada(cliente[c], p, d, mexe)
           m == [Livre EXCEPT !.op = "alterar", !.alvo = c, !.contato = mexe,
                     !.passo = IF d \in Documentos THEN "conferir" ELSE "gravar",
                     !.linha = l]
<1>1. cliente[c] \in LinhaDeCliente
  BY DEF AlterarCliente, Existe, Inv, TypeOK
<1>2. l \in LinhaDeCliente /\ l.contato = (IF mexe THEN p ELSE cliente[c].contato)
  BY <1>1, CrmAssumption DEF Alterada, LinhaDeCliente, Clientes
<1> HIDE DEF l
<1>3. /\ m.op = "alterar" /\ m.passo \in {"conferir", "gravar"} /\ m.alvo = c /\ m.linha = l
      /\ m.contato = mexe /\ m.havia = FALSE /\ m.resposta = "nada"
  BY DEF Livre
<1>4. m \in Pedido
  BY <1>2 DEF Pedido, Livre
<1>5. Comecar(p, m)
  BY DEF AlterarCliente, l
<1> HIDE DEF m
<1>6. pedido'[p] = m /\ antes'[p] = Encerrados /\ UNCHANGED <<cliente, agenda, notas, eventos>>
  BY <1>4, <1>5, Comeco
<1>7. MemoriaBoa(p)'
  BY <1>2, <1>3, <1>6 DEF MemoriaBoa, EmAndamento
<1>8. PassadoBom(p)'
  <2>1. antes'[p] \subseteq Encerrados'
    BY <1>4, <1>5, Comeco
  <2>2. ASSUME ~mexe, NEW q \in Encerrados,
               GravouCliente(q, c)', pedido'[q].contato, l.contato # q
        PROVE  Coberto(q, c)'
    <3>1. q \in Pedidos \ {p} /\ pedido'[q] = pedido[q]
      BY <1>4, <1>5, <2>2 DEF Comecar, Encerrados, Inv, TypeOK
    <3>2. GravouCliente(q, c)
      BY <2>2, <1>6 DEF GravouCliente, Publicou
    <3>3. cliente'[c].contato # q
      BY <1>2, <1>6, <2>2
    <3>4. AlteracaoSobrevive'
      BY <1>4, <1>5, Comeco DEF Feitos
    <3> QED
      BY <2>2, <3>1, <3>3, <3>4 DEF AlteracaoSobrevive, Coberto
  <2> QED
    BY <1>3, <1>6, <2>1, <2>2 DEF PassadoBom
<1> QED
  BY <1>4, <1>5, <1>7, <1>8, Comeco, FechaInv

LEMMA AnotarInv ==
    ASSUME Inv, NEW p \in Pedidos, NEW c \in Clientes, Anotar(p, c)
    PROVE  Inv'
<1> DEFINE m == [Livre EXCEPT !.op = "anotar", !.passo = "gravar", !.alvo = c,
                     !.linha = NovaNota(p, c)]
<1>1. NovaNota(p, c) \in Nota
  <2>1. agora \in Instantes
    BY CrmAssumption DEF Inv, TypeOK, Instantes
  <2> QED
    BY <2>1 DEF NovaNota, Nota
<1>2. /\ m.op = "anotar" /\ m.passo = "gravar" /\ m.alvo = c /\ m.linha = NovaNota(p, c)
      /\ m.contato = FALSE /\ m.havia = FALSE /\ m.resposta = "nada"
  BY DEF Livre
<1>3. m \in Pedido
  BY <1>1 DEF Pedido, Livre
<1>4. Comecar(p, m)
  BY DEF Anotar
<1>5. PICK n \in Nota : m.linha = n
  BY <1>1, <1>2
<1> HIDE DEF m
<1>6. pedido'[p] = m
  BY <1>3, <1>4, Comeco
<1>7. MemoriaBoa(p)'
  BY <1>2, <1>5, <1>6 DEF MemoriaBoa, EmAndamento
<1> QED
  BY <1>2, <1>3, <1>4, <1>7, ComecoInv

LEMMA AgendarInv ==
    ASSUME Inv, NEW p \in Pedidos, NEW c \in Clientes, NEW i \in Instantes,
           NEW f \in Instantes, NEW u \in Responsaveis \union {Nulo}, Agendar(p, c, i, f, u)
    PROVE  Inv'
<1> DEFINE l == Marcado(c, i, f, u)
           m == [Livre EXCEPT !.op = "agendar", !.alvo = p,
                     !.passo = IF u = Nulo THEN "gravar" ELSE "conferir", !.linha = l]
<1>1. l \in LinhaDeAgenda /\ l.situacao = "scheduled" /\ l.responsavel = u
  BY DEF Marcado, LinhaDeAgenda
<1> HIDE DEF l
<1>2. /\ m.op = "agendar" /\ m.passo = (IF u = Nulo THEN "gravar" ELSE "conferir")
      /\ m.alvo = p /\ m.linha = l
      /\ m.contato = FALSE /\ m.havia = FALSE /\ m.resposta = "nada"
  BY DEF Livre
<1>3. m \in Pedido
  BY <1>1 DEF Pedido, Livre, Clientes
<1>4. Comecar(p, m)
  BY DEF Agendar, l
<1> HIDE DEF m
<1>5. pedido'[p] = m /\ antes'[p] \subseteq Encerrados'
  BY <1>3, <1>4, Comeco
<1>6. MemoriaBoa(p)'
  BY <1>1, <1>2, <1>5 DEF MemoriaBoa, EmAndamento
<1>7. m.passo = "gravar" => \A a : ~Conflita(l, a)
  BY <1>1, <1>2 DEF Conflita
<1>8. PassadoBom(p)'
  BY <1>2, <1>5, <1>7 DEF PassadoBom, Conflita
<1> QED
  BY <1>3, <1>4, <1>6, <1>8, Comeco, FechaInv

LEMMA EncerrarInv ==
    ASSUME Inv, NEW p \in Pedidos, NEW a \in Pedidos, NEW s \in {"done", "canceled"},
           Encerrar(p, a, s)
    PROVE  Inv'
<1> DEFINE l == [agenda[a] EXCEPT !.situacao = s]
           m == [Livre EXCEPT !.op = "encerrar", !.passo = "gravar", !.alvo = a, !.linha = l]
<1>1. agenda[a] \in LinhaDeAgenda /\ agenda[a].situacao = "scheduled" /\ agenda[a] # Nulo
  BY DEF Encerrar, Inv, TypeOK
<1>2. l \in LinhaDeAgenda /\ l.situacao = s
  BY <1>1 DEF LinhaDeAgenda
<1> HIDE DEF l
<1>3. /\ m.op = "encerrar" /\ m.passo = "gravar" /\ m.alvo = a /\ m.linha = l
      /\ m.contato = FALSE /\ m.havia = FALSE /\ m.resposta = "nada"
  BY DEF Livre
<1>4. m \in Pedido
  BY <1>2 DEF Pedido, Livre, Clientes
<1>5. Comecar(p, m)
  BY DEF Encerrar, l
<1> HIDE DEF m
<1>6. /\ pedido'[p] = m /\ antes'[p] \subseteq Encerrados'
      /\ UNCHANGED <<cliente, agenda, notas, eventos>>
  BY <1>4, <1>5, Comeco
<1>7. MemoriaBoa(p)'
  BY <1>1, <1>2, <1>3, <1>6 DEF MemoriaBoa, EmAndamento
<1>8. \A q, t : t \in {"done", "canceled"} => ~Publicou(q, t, a)
  BY <1>1 DEF Inv, RegistrosBons, Publicou
<1>9. PassadoBom(p)'
  BY <1>3, <1>6, <1>8 DEF PassadoBom, Publicou
<1> QED
  BY <1>4, <1>5, <1>7, <1>9, Comeco, FechaInv

LEMMA LeituraInv ==
    ASSUME Inv, NEW p \in Pedidos, NEW c \in Clientes,
           PedirFicha(p, c) \/ Consultar(p, c) \/ Chamar(p, c)
    PROVE  Inv'
<1>1. ASSUME NEW m \in Pedido, Comecar(p, m), m.op \in {"ficha", "resumo"}, m.alvo = c,
             m.passo \in {"notas", "rede", "fim"}, m.passo = "rede" => m.op = "resumo",
             m.havia => Existe(c)
      PROVE  Inv'
  <2>1. pedido'[p] = m /\ UNCHANGED <<cliente, agenda, notas, eventos>>
    BY <1>1, Comeco
  <2>2. MemoriaBoa(p)'
    BY <1>1, <2>1 DEF MemoriaBoa, EmAndamento, Existe
  <2> QED
    BY <1>1, <2>2, ComecoInv
<1>2. ASSUME PedirFicha(p, c)
      PROVE  Inv'
  <2> DEFINE m == [Livre EXCEPT !.op = "ficha", !.passo = "notas", !.alvo = c]
  <2>1. /\ m.op = "ficha" /\ m.passo = "notas" /\ m.alvo = c
        /\ m.havia = FALSE /\ m.resposta = "nada" /\ m \in Pedido
    BY DEF Livre, Pedido
  <2>2. Comecar(p, m)
    BY <1>2 DEF PedirFicha
  <2> HIDE DEF m
  <2> QED
    BY <2>1, <2>2, <1>1
<1>3. ASSUME Consultar(p, c)
      PROVE  Inv'
  <2> DEFINE m == [Livre EXCEPT !.op = "resumo", !.passo = "fim", !.alvo = c,
                      !.havia = Existe(c), !.resposta = Achado(c)]
  <2>1. Existe(c) \in BOOLEAN /\ Achado(c) \in {"cliente", "null"}
    BY DEF Existe, Achado
  <2>2. m \in Pedido
    BY <2>1 DEF Livre, Pedido
  <2>3. /\ m.op = "resumo" /\ m.passo = "fim" /\ m.alvo = c
        /\ m.havia = Existe(c) /\ m.resposta = Achado(c)
    BY DEF Livre
  <2>4. Comecar(p, m)
    BY <1>3 DEF Consultar
  <2> HIDE DEF m
  <2> QED
    BY <2>2, <2>3, <2>4, <1>1 DEF Achado
<1>4. ASSUME Chamar(p, c)
      PROVE  Inv'
  <2> DEFINE m == [Livre EXCEPT !.op = "resumo", !.passo = "rede", !.alvo = c,
                      !.havia = Existe(c)]
  <2>1. m \in Pedido
    BY DEF Livre, Pedido, Existe
  <2>2. /\ m.op = "resumo" /\ m.passo = "rede" /\ m.alvo = c
        /\ m.havia = Existe(c) /\ m.resposta = "nada"
    BY DEF Livre
  <2>3. Comecar(p, m)
    BY <1>4 DEF Chamar
  <2> HIDE DEF m
  <2> QED
    BY <2>1, <2>2, <2>3, <1>1
<1> QED
  BY <1>2, <1>3, <1>4

-----------------------------------------------------------------------------
(* A request goes on without writing.                                      *)

\* Only its step, its timeline and its answer change; it is not about to
\* write an appointment it has not checked.
LEMMA AvancoInv ==
    ASSUME Inv, NEW p \in Pedidos, NEW m \in Pedido, EmAndamento(p),
           pedido' = [pedido EXCEPT ![p] = m], UNCHANGED <<banco, agora, antes>>,
           m.op = pedido[p].op, m.alvo = pedido[p].alvo, m.linha = pedido[p].linha,
           m.contato = pedido[p].contato, m.havia = pedido[p].havia,
           m.passo \in {"gravar", "agenda", "volta"},
           m.passo = "volta" => m.op = "resumo",
           m.op = "agendar" /\ m.passo = "gravar" =>
              \A a \in antes[p] : agenda[a] # Nulo => ~Conflita(m.linha, agenda[a])
    PROVE  Inv'
<1>1. TypeOK /\ MemoriaBoa(p) /\ PassadoBom(p)
  BY DEF Inv
<1>2. UNCHANGED <<cliente, agenda, notas, eventos, agora, antes>>
  BY DEF banco
<1>3. /\ pedido' \in [Pedidos -> Pedido] /\ pedido'[p] = m /\ SoMoveu(p)
      /\ pedido[p].passo # "fim"
  BY <1>1, <1>2 DEF TypeOK, SoMoveu, EmAndamento
<1>4. TypeOK'
  BY <1>1, <1>2, <1>3 DEF TypeOK
<1>5. Feitos' /\ \A q \in Pedidos \ {p} : MemoriaBoa(q)' /\ PassadoBom(q)'
  BY <1>3, Alheio
<1>6. MemoriaBoa(p)'
  BY <1>1, <1>2, <1>3 DEF MemoriaBoa, EmAndamento, Existe
<1>7. PassadoBom(p)'
  <2>1. antes[p] \subseteq Pedidos \ {p} /\ antes'[p] \subseteq Encerrados'
    BY <1>1, <1>2, <1>3 DEF PassadoBom, Encerrados, SoMoveu
  <2>2. PICK c : c = pedido[p].alvo /\ c = pedido'[p].alvo
    BY <1>3
  <2>3. \A q, s : Publicou(q, s, c)' = Publicou(q, s, c)
    BY <1>2, <2>2 DEF Publicou
  <2>4. m.op = "encerrar" => \A q \in antes[p], s \in {"done", "canceled"} : ~Publicou(q, s, c)'
    BY <1>1, <2>2, <2>3 DEF PassadoBom
  <2>5. \A q \in antes[p] : Coberto(q, c) => Coberto(q, c)'
    <3>1. ASSUME NEW q \in antes[p], NEW t \in Pedidos, GravouCliente(t, c)
          PROVE  pedido'[t] = pedido[t]
      BY <1>3, <3>1 DEF Inv, RegistrosBons, GravouCliente, Publicou, SoMoveu
    <3> QED
      BY <1>2, <2>3, <3>1 DEF Coberto, GravouCliente, Concorrentes
  <2>6. m.op = "alterar" /\ ~m.contato => 
           \A q \in antes[p] : GravouCliente(q, c)' /\ pedido'[q].contato /\ m.linha.contato # q
                                  => Coberto(q, c)'
    BY <1>1, <1>3, <2>1, <2>2, <2>3, <2>5 DEF PassadoBom, GravouCliente, SoMoveu
  <2> QED
    BY <1>2, <1>3, <2>1, <2>2, <2>4, <2>6 DEF PassadoBom, EmAndamento, Conflita
<1> QED
  BY <1>4, <1>5, <1>6, <1>7, FechaInv

\* It ends, having written nothing.
LEMMA FimInv ==
    ASSUME Inv, NEW p \in Pedidos, NEW m \in Pedido, EmAndamento(p),
           pedido' = [pedido EXCEPT ![p] = m], UNCHANGED <<banco, agora, antes>>,
           m.passo = "fim", m.havia => pedido[p].havia, m.alvo = pedido[p].alvo \/ ~m.havia
    PROVE  Inv'
<1>1. TypeOK /\ MemoriaBoa(p) /\ PassadoBom(p)
  BY DEF Inv
<1>2. UNCHANGED <<cliente, agenda, notas, eventos, agora, antes>>
  BY DEF banco
<1>3. /\ pedido' \in [Pedidos -> Pedido] /\ pedido'[p] = m /\ SoMoveu(p)
      /\ pedido[p].passo # "fim"
  BY <1>1, <1>2 DEF TypeOK, SoMoveu, EmAndamento
<1>4. TypeOK'
  BY <1>1, <1>2, <1>3 DEF TypeOK
<1>5. Feitos' /\ \A q \in Pedidos \ {p} : MemoriaBoa(q)' /\ PassadoBom(q)'
  BY <1>3, Alheio
<1>6. MemoriaBoa(p)'
  BY <1>1, <1>2, <1>3 DEF MemoriaBoa, EmAndamento, Existe
<1>7. PassadoBom(p)'
  BY <1>1, <1>2, <1>3 DEF PassadoBom, EmAndamento, Encerrados, SoMoveu
<1> QED
  BY <1>4, <1>5, <1>6, <1>7, FechaInv

LEMMA ConferirDonoInv ==
    ASSUME Inv, NEW p \in Pedidos, ConferirDono(p)
    PROVE  Inv'
<1> DEFINE m == [pedido[p] EXCEPT !.passo = "gravar"]
<1>1. pedido[p] \in Pedido /\ MemoriaBoa(p)
  BY DEF Inv, TypeOK
<1>2. /\ m \in Pedido /\ m.op = "alterar" /\ m.passo = "gravar" /\ m.linha = pedido[p].linha
      /\ m.alvo = pedido[p].alvo /\ m.contato = pedido[p].contato
      /\ m.havia = pedido[p].havia /\ m.resposta = pedido[p].resposta
  BY <1>1 DEF Pedido, ConferirDono
<1>3. pedido' = [pedido EXCEPT ![p] = m] /\ UNCHANGED <<banco, agora, antes>>
  BY DEF ConferirDono, Seguir
<1>4. EmAndamento(p) /\ pedido[p].op = "alterar"
  BY DEF ConferirDono, EmAndamento
<1> HIDE DEF m
<1> QED
  BY <1>1, <1>2, <1>3, <1>4, AvancoInv DEF MemoriaBoa

LEMMA ConferirAgendaInv ==
    ASSUME Inv, NEW p \in Pedidos, ConferirAgenda(p)
    PROVE  Inv'
<1> DEFINE m == [pedido[p] EXCEPT !.passo = "gravar"]
<1>1. pedido[p] \in Pedido /\ MemoriaBoa(p) /\ PassadoBom(p)
  BY DEF Inv, TypeOK
<1>2. /\ m \in Pedido /\ m.op = "agendar" /\ m.passo = "gravar" /\ m.linha = pedido[p].linha
      /\ m.alvo = pedido[p].alvo /\ m.contato = pedido[p].contato
      /\ m.havia = pedido[p].havia /\ m.resposta = pedido[p].resposta
  BY <1>1 DEF Pedido, ConferirAgenda
<1>3. pedido' = [pedido EXCEPT ![p] = m] /\ UNCHANGED <<banco, agora, antes>>
  BY DEF ConferirAgenda, Seguir
<1>4. EmAndamento(p) /\ pedido[p].op = "agendar"
  BY DEF ConferirAgenda, EmAndamento
<1> HIDE DEF m
<1>5. \A a \in antes[p] : agenda[a] # Nulo => ~Conflita(pedido[p].linha, agenda[a])
  <2> SUFFICES ASSUME NEW a \in antes[p], agenda[a] # Nulo, Conflita(pedido[p].linha, agenda[a])
               PROVE  FALSE
    OBVIOUS
  <2>1. a \in Pedidos
    BY DEF Inv, TypeOK
  <2>2. agenda[a] \in LinhaDeAgenda /\ pedido[p].linha \in LinhaDeAgenda
    BY <1>1, <1>4, <2>1 DEF Inv, TypeOK, MemoriaBoa
  <2>3. a \in Abertos(pedido[p].linha)
    BY <2>1, <2>2 DEF Abertos, Conflita, LinhaDeAgenda, Instantes
  <2> QED
    BY <2>3 DEF ConferirAgenda
<1> QED
  BY <1>1, <1>2, <1>3, <1>4, <1>5, AvancoInv DEF MemoriaBoa

LEMMA FichaInv ==
    ASSUME Inv, NEW p \in Pedidos, ListarNotas(p) \/ ListarAgenda(p)
    PROVE  Inv'
<1>1. pedido[p] \in Pedido /\ MemoriaBoa(p) /\ EmAndamento(p)
  BY DEF Inv, TypeOK, ListarNotas, ListarAgenda, EmAndamento
<1>2. ASSUME ListarNotas(p)
      PROVE  Inv'
  <2>1. PICK T \in SUBSET ItensDeNotas(pedido[p].alvo) :
           pedido' = [pedido EXCEPT ![p].passo = "agenda", ![p].itens = T]
    BY <1>2 DEF ListarNotas, MaisRecentes
  <2>2. T \subseteq Item
    <3>1. \A n \in notas : n \in Nota
      BY DEF Inv, TypeOK
    <3>2. ItensDeNotas(pedido[p].alvo) \subseteq Item
      BY <3>1 DEF ItensDeNotas, Item, Nota
    <3> QED
      BY <2>1, <3>2
  <2> DEFINE m == [pedido[p] EXCEPT !.passo = "agenda", !.itens = T]
  <2>3. /\ m \in Pedido /\ m.op = pedido[p].op /\ m.passo = "agenda"
        /\ m.linha = pedido[p].linha /\ m.alvo = pedido[p].alvo
        /\ m.contato = pedido[p].contato /\ m.havia = pedido[p].havia
        /\ m.resposta = pedido[p].resposta
    BY <1>1, <2>2 DEF Pedido
  <2>4. pedido' = [pedido EXCEPT ![p] = m]
    BY <2>1
  <2>5. UNCHANGED <<banco, agora, antes>>
    BY <1>2 DEF ListarNotas
  <2> HIDE DEF m
  <2> QED
    BY <1>1, <2>3, <2>4, <2>5, AvancoInv DEF MemoriaBoa
<1>3. ASSUME ListarAgenda(p)
      PROVE  Inv'
  <2>1. PICK U \in SUBSET (pedido[p].itens \union ItensDaAgenda(pedido[p].alvo)) :
           pedido' = [pedido EXCEPT ![p].passo = "fim", ![p].itens = U,
                                    ![p].resposta = "cliente"]
    BY <1>3 DEF ListarAgenda, MaisRecentes
  <2>2. U \subseteq Item
    <3>1. \A a \in Pedidos : agenda[a] # Nulo => agenda[a] \in LinhaDeAgenda
      BY DEF Inv, TypeOK
    <3>2. ItensDaAgenda(pedido[p].alvo) \subseteq Item
      BY <3>1 DEF ItensDaAgenda, Item, LinhaDeAgenda
    <3>3. pedido[p].itens \subseteq Item
      BY <1>1 DEF Pedido
    <3> QED
      BY <2>1, <3>2, <3>3
  <2> DEFINE m == [pedido[p] EXCEPT !.passo = "fim", !.itens = U, !.resposta = "cliente"]
  <2>3. /\ m \in Pedido /\ m.passo = "fim" /\ m.alvo = pedido[p].alvo
        /\ m.havia = pedido[p].havia /\ m.resposta = "cliente"
    BY <1>1, <2>2 DEF Pedido
  <2>4. pedido' = [pedido EXCEPT ![p] = m]
    BY <2>1
  <2>5. UNCHANGED <<banco, agora, antes>>
    BY <1>3 DEF ListarAgenda
  <2> HIDE DEF m
  <2> QED
    BY <1>1, <2>3, <2>4, <2>5, FimInv
<1> QED
  BY <1>2, <1>3

LEMMA RedeInv ==
    ASSUME Inv, NEW p \in Pedidos, Atender(p) \/ Receber(p) \/ Falhar(p) \/ Receber404(p)
    PROVE  Inv'
<1>1. pedido[p] \in Pedido /\ MemoriaBoa(p)
  BY DEF Inv, TypeOK
<1>2. EmAndamento(p) /\ pedido[p].op = "resumo"
  BY <1>1 DEF Atender, Receber, Falhar, Receber404, EmAndamento, MemoriaBoa
<1>3. ASSUME Atender(p)
      PROVE  Inv'
  <2> DEFINE m == [pedido[p] EXCEPT !.passo = "volta", !.resposta = Achado(pedido[p].alvo)]
  <2>1. Achado(pedido[p].alvo) \in {"null", "cliente"}
    BY DEF Achado
  <2>2. /\ m \in Pedido /\ m.op = pedido[p].op /\ m.passo = "volta"
        /\ m.linha = pedido[p].linha /\ m.alvo = pedido[p].alvo
        /\ m.contato = pedido[p].contato /\ m.havia = pedido[p].havia
        /\ m.resposta = Achado(pedido[p].alvo)
    BY <1>1, <2>1 DEF Pedido
  <2>3. pedido' = [pedido EXCEPT ![p] = m] /\ UNCHANGED <<banco, agora, antes>>
    BY <1>3 DEF Atender
  <2> HIDE DEF m
  <2> QED
    BY <1>2, <2>2, <2>3, AvancoInv
<1>4. ASSUME NEW r \in {"nada", "erro", "null", "cliente", "feito"}, Terminar(p, r),
             UNCHANGED <<banco, agora, antes>>
      PROVE  Inv'
  <2> DEFINE m == [pedido[p] EXCEPT !.passo = "fim", !.linha = Nulo, !.resposta = r]
  <2>1. /\ m \in Pedido /\ m.passo = "fim" /\ m.alvo = pedido[p].alvo
        /\ m.havia = pedido[p].havia /\ m.resposta = r
    BY <1>1 DEF Pedido
  <2>2. pedido' = [pedido EXCEPT ![p] = m]
    BY <1>4 DEF Terminar
  <2> HIDE DEF m
  <2> QED
    BY <1>2, <1>4, <2>1, <2>2, FimInv
<1>5. ASSUME Receber(p)
      PROVE  Inv'
  <2>1. pedido[p].resposta \in {"nada", "erro", "null", "cliente", "feito"}
    BY <1>1 DEF Pedido
  <2> QED
    BY <1>4, <1>5, <2>1 DEF Receber
<1>6. ASSUME Falhar(p) \/ Receber404(p)
      PROVE  Inv'
  BY <1>4, <1>6 DEF Falhar, Receber404
<1> QED
  BY <1>3, <1>5, <1>6

LEMMA DesistirInv ==
    ASSUME Inv, NEW p \in Pedidos, Desistir(p)
    PROVE  Inv'
<1> DEFINE m == [Livre EXCEPT !.passo = "fim", !.resposta = "erro"]
<1>1. m \in Pedido /\ m.passo = "fim" /\ m.havia = FALSE /\ m.resposta = "erro"
  BY DEF Livre, Pedido
<1>2. pedido' = [pedido EXCEPT ![p] = m] /\ UNCHANGED <<banco, agora, antes>> /\ EmAndamento(p)
  BY DEF Desistir, EmAndamento
<1> HIDE DEF m
<1> QED
  BY <1>1, <1>2, FimInv

-----------------------------------------------------------------------------
(* A request writes: its row, its event and its end are one step.          *)

\* Nobody counts p among those that were over before; what the others have
\* announced is as it was, and p has announced this and nothing else.
LEMMA Gravacao ==
    ASSUME Inv, NEW p \in Pedidos, EmAndamento(p), NEW tipo, NEW alvo,
           alvo = pedido[p].alvo, Publicar(p, tipo), Terminar(p, "feito"), antes' = antes,
           \A c \in Clientes : Existe(c) => Existe(c)'
    PROVE  /\ pedido' \in [Pedidos -> Pedido]
           /\ pedido'[p].passo = "fim" /\ pedido'[p].contato = pedido[p].contato
           /\ \A q \in Pedidos \ {p} : pedido'[q] = pedido[q]
           /\ \A q \in Pedidos : antes[q] \subseteq Pedidos \ {p}
           /\ \A q \in Pedidos : antes'[q] \subseteq Encerrados'
           /\ \A q \in Pedidos \ {p} : \A s, c : Publicou(q, s, c)' = Publicou(q, s, c)
           /\ \A s, c : ~Publicou(p, s, c)
           /\ \A s, c : Publicou(p, s, c)' = (s = tipo /\ c = alvo)
           /\ MemoriaBoa(p)' /\ PassadoBom(p)'
<1>1. TypeOK /\ MemoriaBoa(p) /\ PassadoBom(p) /\ \A q \in Pedidos : PassadoBom(q)
  BY DEF Inv
<1>2. /\ pedido' \in [Pedidos -> Pedido] /\ pedido'[p].passo = "fim"
      /\ pedido'[p].contato = pedido[p].contato /\ pedido'[p].alvo = pedido[p].alvo
      /\ pedido'[p].havia = pedido[p].havia /\ pedido'[p].resposta = "feito"
      /\ \A q \in Pedidos \ {p} : pedido'[q] = pedido[q]
  <2> DEFINE m == [pedido[p] EXCEPT !.passo = "fim", !.linha = Nulo, !.resposta = "feito"]
  <2>0. pedido[p] \in Pedido
    BY <1>1 DEF TypeOK
  <2>1. /\ m \in Pedido /\ m.passo = "fim" /\ m.alvo = pedido[p].alvo
        /\ m.havia = pedido[p].havia /\ m.resposta = "feito" /\ m.contato = pedido[p].contato
    BY <2>0 DEF Pedido
  <2>2. pedido' = [pedido EXCEPT ![p] = m]
    BY DEF Terminar
  <2> HIDE DEF m
  <2> QED
    BY <1>1, <2>1, <2>2 DEF TypeOK
<1>3. \A q \in Pedidos : antes[q] \subseteq Pedidos \ {p}
  BY <1>1 DEF PassadoBom, Encerrados, EmAndamento
<1>4. \A q \in Pedidos : antes'[q] \subseteq Encerrados'
  BY <1>1, <1>2 DEF PassadoBom, Encerrados
<1>5. \A s, c : ~Publicou(p, s, c)
  BY DEF Inv, RegistrosBons, Publicou, EmAndamento
<1>6. eventos' = eventos \union {[tipo |-> tipo, alvo |-> alvo, por |-> p]}
  BY DEF Publicar
<1>7. \A q \in Pedidos \ {p} : \A s, c : Publicou(q, s, c)' = Publicou(q, s, c)
  BY <1>6 DEF Publicou
<1>8. \A s, c : Publicou(p, s, c)' = (s = tipo /\ c = alvo)
  BY <1>5, <1>6 DEF Publicou
<1>9. MemoriaBoa(p)'
  BY <1>1, <1>2 DEF MemoriaBoa, EmAndamento
<1>10. PassadoBom(p)'
  BY <1>2, <1>4 DEF PassadoBom, EmAndamento
<1> QED
  BY <1>2, <1>3, <1>4, <1>5, <1>7, <1>8, <1>9, <1>10

\* Then also: the contacts that were replaced stay replaced.
LEMMA CobertoFica ==
    ASSUME Inv, NEW p \in Pedidos, NEW q \in Pedidos, NEW c, Coberto(q, c), antes' = antes,
           \A t \in Pedidos \ {p} : pedido'[t] = pedido[t],
           \A t \in Pedidos \ {p} : \A s, k : Publicou(t, s, k)' = Publicou(t, s, k),
           \A s, k : ~Publicou(p, s, k)
    PROVE  Coberto(q, c)'
<1>1. PICK t \in Pedidos \ {q} : /\ GravouCliente(t, c) /\ t \notin antes[q]
                                 /\ pedido[t].contato \/ Concorrentes(q, t)
  BY DEF Coberto
<1>2. t # p
  BY <1>1 DEF GravouCliente
<1> QED
  BY <1>1, <1>2 DEF Coberto, GravouCliente, Concorrentes

\* What the writes of a customer or of a note leave as it was.
LEMMA AgendaFica ==
    ASSUME Inv, NEW p \in Pedidos, EmAndamento(p), NEW tipo, NEW alvo,
           alvo = pedido[p].alvo, Publicar(p, tipo), Terminar(p, "feito"),
           antes' = antes, agenda' = agenda, tipo \in {"created", "updated", "note"},
           \A c \in Clientes : Existe(c) => Existe(c)'
    PROVE  /\ RegistrosBons' /\ SobreposicaoSoPorCorrida' /\ FechoSoPorCorrida'
           /\ \A q \in Pedidos \ {p} : MemoriaBoa(q)'
           /\ \A q \in Pedidos : \A s \in {"scheduled", "done", "canceled"} : \A c :
                 Publicou(q, s, c)' = Publicou(q, s, c)
<1>1. /\ pedido'[p].passo = "fim" /\ \A q \in Pedidos \ {p} : pedido'[q] = pedido[q]
      /\ \A q \in Pedidos \ {p} : \A s, c : Publicou(q, s, c)' = Publicou(q, s, c)
      /\ \A s, c : ~Publicou(p, s, c)
      /\ \A s, c : Publicou(p, s, c)' = (s = tipo /\ c = alvo)
  BY Gravacao
<1>2. \A q \in Pedidos : \A s \in {"scheduled", "done", "canceled"} : \A c :
         Publicou(q, s, c)' = Publicou(q, s, c)
  <2> SUFFICES ASSUME NEW q \in Pedidos, NEW s \in {"scheduled", "done", "canceled"}, NEW c
               PROVE  Publicou(q, s, c)' = Publicou(q, s, c)
    OBVIOUS
  <2>1. CASE q = p
    <3>1. ~Publicou(p, s, c) /\ ~Publicou(p, s, c)'
      BY <1>1
    <3>2. Publicou(p, s, c) \in BOOLEAN /\ Publicou(p, s, c)' \in BOOLEAN
      BY DEF Publicou
    <3> QED
      BY <2>1, <3>1, <3>2
  <2>2. CASE q # p
    BY <2>2, <1>1
  <2> QED
    BY <2>1, <2>2
<1>3. RegistrosBons'
  <2>1. \A a \in Pedidos : agenda'[a] # Nulo => pedido'[a].passo = "fim"
    BY <1>1 DEF Inv, RegistrosBons
  <2>2. ASSUME NEW e \in eventos'
        PROVE  /\ pedido'[e.por].passo = "fim"
               /\ e.tipo \in {"done", "canceled"} =>
                    /\ e.alvo \in Pedidos /\ agenda'[e.alvo] # Nulo
                    /\ agenda'[e.alvo].situacao # "scheduled"
    <3>1. CASE e \in eventos
      <4>1. e.por \in Pedidos
        BY <3>1 DEF Inv, TypeOK, Evento
      <4> QED
        BY <3>1, <4>1, <1>1 DEF Inv, RegistrosBons
    <3>2. CASE e = [tipo |-> tipo, alvo |-> alvo, por |-> p]
      BY <3>2, <1>1
    <3> QED
      BY <2>2, <3>1, <3>2 DEF Publicar
  <2> QED
    BY <2>1, <2>2 DEF RegistrosBons
<1>4. SobreposicaoSoPorCorrida'
  BY DEF Inv, SobreposicaoSoPorCorrida, Conflita, Concorrentes
<1>5. FechoSoPorCorrida'
  <2> SUFFICES ASSUME NEW a \in Pedidos
               PROVE  /\ agenda[a] # Nulo => \E q \in Pedidos : \E s : /\ s = agenda[a].situacao
                                                                     /\ Publicou(q, s, a)'
                      /\ \A q, t \in Pedidos, s, u \in {"done", "canceled"} :
                            Publicou(q, s, a)' /\ Publicou(t, u, a)' /\ q # t
                               => Concorrentes(q, t)' /\ agenda[a].situacao # "scheduled"
    BY DEF FechoSoPorCorrida
  <2>1. agenda[a] # Nulo => agenda[a].situacao \in {"scheduled", "done", "canceled"}
    BY DEF Inv, TypeOK, LinhaDeAgenda
  <2>2. \A q, t \in Pedidos : Concorrentes(q, t)' = Concorrentes(q, t)
    BY DEF Concorrentes
  <2> QED
    BY <1>2, <2>1, <2>2 DEF Inv, FechoSoPorCorrida
<1>6. \A q \in Pedidos \ {p} : MemoriaBoa(q)'
  BY <1>1 DEF Inv, MemoriaBoa, EmAndamento
<1> QED
  BY <1>2, <1>3, <1>4, <1>5, <1>6

\* Who gave the customer that contact and lost it was over before p began, and
\* p read another contact then; or p was in flight; or p gives a new contact.
LEMMA GravarClienteInv ==
    ASSUME Inv, NEW p \in Pedidos, GravarCliente(p)
    PROVE  Inv'
<1>1. pedido[p] \in Pedido /\ MemoriaBoa(p) /\ PassadoBom(p) /\ EmAndamento(p) /\ TypeOK
  BY DEF Inv, TypeOK, GravarCliente, EmAndamento
<1>2. PICK c, l : c = pedido[p].alvo /\ l = pedido[p].linha
  OBVIOUS
<1>3. PICK tipo : tipo = IF pedido[p].op = "criar" THEN "created" ELSE "updated"
  OBVIOUS
<1>4. /\ c \in Clientes /\ l \in LinhaDeCliente /\ l # Nulo
      /\ pedido[p].contato => l.contato = p
      /\ ~pedido[p].contato => pedido[p].op = "alterar"
  BY <1>1, <1>2, LinhaAssumption DEF GravarCliente, MemoriaBoa
<1>5. /\ cliente' = [cliente EXCEPT ![c] = l] /\ Publicar(p, tipo) /\ Terminar(p, "feito")
      /\ UNCHANGED <<agenda, notas, agora, antes>> /\ tipo \in {"created", "updated"}
  BY <1>2, <1>3 DEF GravarCliente, SalvarCliente
<1>6. \A k \in Clientes : cliente'[k] = IF k = c THEN l ELSE cliente[k]
  BY <1>1, <1>4, <1>5 DEF TypeOK
<1>7. \A k \in Clientes : Existe(k) => Existe(k)'
  BY <1>4, <1>6 DEF Existe
<1>8. /\ pedido' \in [Pedidos -> Pedido] /\ pedido'[p].contato = pedido[p].contato
      /\ \A q \in Pedidos \ {p} : pedido'[q] = pedido[q]
      /\ \A q \in Pedidos : antes[q] \subseteq Pedidos \ {p}
      /\ \A q \in Pedidos : antes'[q] \subseteq Encerrados'
      /\ \A q \in Pedidos \ {p} : \A s, k : Publicou(q, s, k)' = Publicou(q, s, k)
      /\ \A s, k : ~Publicou(p, s, k)
      /\ \A s, k : Publicou(p, s, k)' = (s = tipo /\ k = c)
      /\ MemoriaBoa(p)' /\ PassadoBom(p)'
  BY <1>1, <1>2, <1>5, <1>7, Gravacao
<1>9. /\ RegistrosBons' /\ SobreposicaoSoPorCorrida' /\ FechoSoPorCorrida'
      /\ \A q \in Pedidos \ {p} : MemoriaBoa(q)'
  BY <1>1, <1>2, <1>5, <1>7, AgendaFica
<1>10. TypeOK'
  <2>1. cliente' \in [Clientes -> LinhaDeCliente \union {Nulo}]
    BY <1>1, <1>4, <1>5 DEF TypeOK
  <2>2. [tipo |-> tipo, alvo |-> c, por |-> p] \in Evento
    BY <1>4, <1>5 DEF Evento
  <2>3. eventos' \subseteq Evento
    BY <1>1, <1>2, <1>5, <2>2 DEF TypeOK, Publicar
  <2> QED
    BY <1>1, <1>5, <1>8, <2>1, <2>3 DEF TypeOK
<1>11. \A q \in Pedidos : \A k : Coberto(q, k) => Coberto(q, k)'
  BY <1>5, <1>8, CobertoFica
<1>12. \A k : GravouCliente(p, k)' = (k = c)
  BY <1>5, <1>8 DEF GravouCliente
<1>13. \A q \in Pedidos \ {p} : \A k : GravouCliente(q, k)' = GravouCliente(q, k)
  BY <1>8 DEF GravouCliente
<1>14. AlteracaoSobrevive'
  <2> SUFFICES ASSUME NEW k \in Clientes, NEW q \in Pedidos, GravouCliente(q, k)',
                      pedido'[q].contato, cliente'[k].contato # q
               PROVE  Coberto(q, k)'
    BY DEF AlteracaoSobrevive, Coberto
  <2>1. q # p
    BY <1>4, <1>6, <1>8, <1>12
  <2>2. GravouCliente(q, k) /\ pedido[q].contato
    BY <2>1, <1>8, <1>13
  <2>3. CASE k # c
    <3>1. Coberto(q, k)
      BY <2>2, <2>3, <1>6 DEF Inv, AlteracaoSobrevive, Coberto
    <3> QED
      BY <3>1, <1>11
  <2>4. CASE k = c
    <3>1. CASE pedido[p].contato \/ q \notin antes[p]
      <4>1. p \notin antes'[q] /\ (pedido'[p].contato \/ Concorrentes(q, p)')
        BY <3>1, <1>5, <1>8 DEF Concorrentes
      <4> QED
        BY <2>1, <2>4, <4>1, <1>12 DEF Coberto
    <3>2. CASE ~pedido[p].contato /\ q \in antes[p]
      <4>1. l.contato # q
        BY <2>4, <1>6
      <4>2. Coberto(q, c)
        BY <3>2, <4>1, <2>2, <2>4, <1>1, <1>2, <1>4 DEF PassadoBom
      <4> QED
        BY <2>4, <4>2, <1>11
    <3> QED
      BY <3>1, <3>2
  <2> QED
    BY <2>3, <2>4
<1>15. ASSUME NEW q \in Pedidos \ {p}
       PROVE  PassadoBom(q)'
  <2>1. PassadoBom(q) /\ pedido'[q] = pedido[q] /\ antes'[q] = antes[q] /\ agenda' = agenda
    BY <1>5, <1>8 DEF Inv
  <2>2. PICK k : k = pedido[q].alvo /\ k = pedido'[q].alvo
    BY <2>1
  <2>3. \A t \in antes[q] : \A s : Publicou(t, s, k)' = Publicou(t, s, k)
    BY <1>8
  <2>4. \A t \in antes[q] : /\ GravouCliente(t, k)' = GravouCliente(t, k)
                            /\ pedido'[t] = pedido[t]
                            /\ Coberto(t, k) => Coberto(t, k)'
    BY <1>8, <1>11, <1>13
  <2>5. pedido[q].op = "encerrar" /\ EmAndamento(q) =>
           \A t \in antes[q], s \in {"done", "canceled"} : ~Publicou(t, s, k)'
    BY <2>1, <2>2, <2>3 DEF PassadoBom
  <2>6. pedido[q].op = "alterar" /\ EmAndamento(q) /\ ~pedido[q].contato =>
           \A t \in antes[q] :
              GravouCliente(t, k)' /\ pedido'[t].contato /\ pedido[q].linha.contato # t
                 => Coberto(t, k)'
    BY <2>1, <2>2, <2>4 DEF PassadoBom
  <2>7. antes'[q] \subseteq Encerrados'
    BY <1>8
  <2> QED
    BY <2>1, <2>2, <2>5, <2>6, <2>7 DEF PassadoBom, EmAndamento, Conflita
<1> QED
  BY <1>8, <1>9, <1>10, <1>14, <1>15, FechaInv DEF Feitos

\* What the writes of a note or of an appointment leave as it was.
LEMMA ClienteFica ==
    ASSUME Inv, NEW p \in Pedidos, antes' = antes, cliente' = cliente,
           \A q \in Pedidos \ {p} : pedido'[q] = pedido[q],
           \A q \in Pedidos : antes[q] \subseteq Pedidos \ {p},
           \A q \in Pedidos : antes'[q] \subseteq Encerrados',
           \A q \in Pedidos \ {p} : \A s, k : Publicou(q, s, k)' = Publicou(q, s, k),
           \A s, k : ~Publicou(p, s, k),
           \A s, k : Publicou(p, s, k)' => s \notin {"created", "updated"},
           \A a \in Pedidos \ {p} : agenda'[a] # Nulo =>
              agenda'[a] = agenda[a] \/ agenda'[a].situacao # "scheduled"
    PROVE  AlteracaoSobrevive' /\ \A q \in Pedidos \ {p} : PassadoBom(q)'
<1>1. \A q \in Pedidos : \A k : Coberto(q, k) => Coberto(q, k)'
  BY CobertoFica
<1>2. \A k : ~GravouCliente(p, k)' /\ ~GravouCliente(p, k)
  BY DEF GravouCliente
<1>3. \A q \in Pedidos \ {p} : \A k : GravouCliente(q, k)' = GravouCliente(q, k)
  BY DEF GravouCliente
<1>4. AlteracaoSobrevive'
  <2> SUFFICES ASSUME NEW k \in Clientes, NEW q \in Pedidos, GravouCliente(q, k)',
                      pedido'[q].contato, cliente'[k].contato # q
               PROVE  Coberto(q, k)'
    BY DEF AlteracaoSobrevive, Coberto
  <2>1. q # p /\ GravouCliente(q, k) /\ pedido[q].contato
    BY <1>2, <1>3
  <2>2. Coberto(q, k)
    BY <2>1 DEF Inv, AlteracaoSobrevive, Coberto
  <2> QED
    BY <2>2, <1>1
<1>5. ASSUME NEW q \in Pedidos \ {p}
      PROVE  PassadoBom(q)'
  <2>1. PassadoBom(q) /\ pedido'[q] = pedido[q] /\ antes'[q] = antes[q]
    BY DEF Inv
  <2>2. PICK k : k = pedido[q].alvo /\ k = pedido'[q].alvo
    BY <2>1
  <2>3. \A t \in antes[q] : \A s : Publicou(t, s, k)' = Publicou(t, s, k)
    OBVIOUS
  <2>4. \A t \in antes[q] : /\ GravouCliente(t, k)' = GravouCliente(t, k)
                            /\ pedido'[t] = pedido[t]
                            /\ Coberto(t, k) => Coberto(t, k)'
    BY <1>1, <1>3
  <2>5. pedido[q].op = "agendar" /\ pedido[q].passo = "gravar" =>
           \A a \in antes[q] : agenda'[a] # Nulo => ~Conflita(pedido[q].linha, agenda'[a])
    BY <2>1 DEF PassadoBom, Conflita
  <2>6. pedido[q].op = "encerrar" /\ EmAndamento(q) =>
           \A t \in antes[q], s \in {"done", "canceled"} : ~Publicou(t, s, k)'
    BY <2>1, <2>2, <2>3 DEF PassadoBom
  <2>7. pedido[q].op = "alterar" /\ EmAndamento(q) /\ ~pedido[q].contato =>
           \A t \in antes[q] :
              GravouCliente(t, k)' /\ pedido'[t].contato /\ pedido[q].linha.contato # t
                 => Coberto(t, k)'
    BY <2>1, <2>2, <2>4 DEF PassadoBom
  <2>8. antes'[q] \subseteq Encerrados'
    OBVIOUS
  <2> QED
    BY <2>1, <2>2, <2>5, <2>6, <2>7, <2>8 DEF PassadoBom, EmAndamento, Conflita
<1> QED
  BY <1>4, <1>5

LEMMA GravarNotaInv ==
    ASSUME Inv, NEW p \in Pedidos, GravarNota(p)
    PROVE  Inv'
<1>1. pedido[p] \in Pedido /\ MemoriaBoa(p) /\ EmAndamento(p) /\ TypeOK
  BY DEF Inv, TypeOK, GravarNota, EmAndamento
<1>2. PICK c : c = pedido[p].alvo
  OBVIOUS
<1>3. c \in Clientes /\ pedido[p].linha \in Nota
  BY <1>1, <1>2 DEF GravarNota, MemoriaBoa
<1>4. /\ notas' = notas \union {pedido[p].linha} /\ Publicar(p, "note") /\ Terminar(p, "feito")
      /\ UNCHANGED <<cliente, agenda, agora, antes>>
  BY DEF GravarNota, IncluirNota
<1>5. \A k \in Clientes : Existe(k) => Existe(k)'
  BY <1>4 DEF Existe
<1>6. /\ pedido' \in [Pedidos -> Pedido]
      /\ \A q \in Pedidos \ {p} : pedido'[q] = pedido[q]
      /\ \A q \in Pedidos : antes[q] \subseteq Pedidos \ {p}
      /\ \A q \in Pedidos : antes'[q] \subseteq Encerrados'
      /\ \A q \in Pedidos \ {p} : \A s, k : Publicou(q, s, k)' = Publicou(q, s, k)
      /\ \A s, k : ~Publicou(p, s, k)
      /\ \A s, k : Publicou(p, s, k)' = (s = "note" /\ k = c)
      /\ MemoriaBoa(p)' /\ PassadoBom(p)'
  BY <1>1, <1>2, <1>4, <1>5, Gravacao
<1>7. /\ RegistrosBons' /\ SobreposicaoSoPorCorrida' /\ FechoSoPorCorrida'
      /\ \A q \in Pedidos \ {p} : MemoriaBoa(q)'
  BY <1>1, <1>2, <1>4, <1>5, AgendaFica
<1>8. TypeOK'
  <2>1. [tipo |-> "note", alvo |-> c, por |-> p] \in Evento
    BY <1>3 DEF Evento
  <2>2. eventos' \subseteq Evento
    BY <1>1, <1>2, <1>4, <2>1 DEF TypeOK, Publicar
  <2> QED
    BY <1>1, <1>3, <1>4, <1>6, <2>2 DEF TypeOK
<1>9. AlteracaoSobrevive' /\ \A q \in Pedidos \ {p} : PassadoBom(q)'
  BY <1>4, <1>6, ClienteFica
<1> QED
  BY <1>6, <1>7, <1>8, <1>9, FechaInv DEF Feitos

\* Nobody over before p closed the appointment p closes, nor has one that
\* conflicts with the one p makes.
LEMMA GravarAgendaInv ==
    ASSUME Inv, NEW p \in Pedidos, GravarAgenda(p)
    PROVE  Inv'
<1>1. pedido[p] \in Pedido /\ MemoriaBoa(p) /\ PassadoBom(p) /\ EmAndamento(p) /\ TypeOK
  BY DEF Inv, TypeOK, GravarAgenda, EmAndamento
<1>2. PICK c, l, tipo : c = pedido[p].alvo /\ l = pedido[p].linha /\ tipo = pedido[p].linha.situacao
  OBVIOUS
<1>3. /\ c \in Pedidos /\ l \in LinhaDeAgenda /\ l # Nulo /\ tipo = l.situacao
      /\ \/ tipo = "scheduled" /\ c = p /\ pedido[p].op = "agendar"
         \/ tipo \in {"done", "canceled"} /\ agenda[c] # Nulo /\ pedido[p].op = "encerrar"
  BY <1>1, <1>2, LinhaAssumption DEF GravarAgenda, MemoriaBoa
<1>4. /\ agenda' = [agenda EXCEPT ![c] = l] /\ Publicar(p, tipo) /\ Terminar(p, "feito")
      /\ UNCHANGED <<cliente, notas, agora, antes>>
  BY <1>2 DEF GravarAgenda, SalvarAgenda
<1>5. \A a \in Pedidos : agenda'[a] = IF a = c THEN l ELSE agenda[a]
  BY <1>1, <1>3, <1>4 DEF TypeOK
<1>6. \A k \in Clientes : Existe(k) => Existe(k)'
  BY <1>4 DEF Existe
<1>7. /\ pedido' \in [Pedidos -> Pedido] /\ pedido'[p].passo = "fim"
      /\ \A q \in Pedidos \ {p} : pedido'[q] = pedido[q]
      /\ \A q \in Pedidos : antes[q] \subseteq Pedidos \ {p}
      /\ \A q \in Pedidos : antes'[q] \subseteq Encerrados'
      /\ \A q \in Pedidos \ {p} : \A s, k : Publicou(q, s, k)' = Publicou(q, s, k)
      /\ \A s, k : ~Publicou(p, s, k)
      /\ \A s, k : Publicou(p, s, k)' = (s = tipo /\ k = c)
      /\ MemoriaBoa(p)' /\ PassadoBom(p)'
  BY <1>1, <1>2, <1>4, <1>6, Gravacao
<1>8. TypeOK'
  <2>1. [tipo |-> tipo, alvo |-> c, por |-> p] \in Evento
    BY <1>3 DEF Evento, Clientes
  <2>2. eventos' \subseteq Evento
    BY <1>1, <1>2, <1>4, <2>1 DEF TypeOK, Publicar
  <2>3. agenda' \in [Pedidos -> LinhaDeAgenda \union {Nulo}]
    BY <1>1, <1>3, <1>4 DEF TypeOK
  <2> QED
    BY <1>1, <1>4, <1>7, <2>2, <2>3 DEF TypeOK
<1>9. agenda[p] = Nulo
  BY <1>1 DEF Inv, RegistrosBons, EmAndamento
<1>10. \A q \in Pedidos : \A s \in {"done", "canceled"}, a \in Pedidos :
          Publicou(q, s, a) => agenda[a] # Nulo /\ agenda[a].situacao # "scheduled" /\ a # p
  BY <1>9 DEF Inv, RegistrosBons, Publicou
<1>11. RegistrosBons'
  <2>1. \A a \in Pedidos : agenda'[a] # Nulo => pedido'[a].passo = "fim"
    BY <1>3, <1>5, <1>7 DEF Inv, RegistrosBons
  <2>2. ASSUME NEW e \in eventos'
        PROVE  /\ pedido'[e.por].passo = "fim"
               /\ e.tipo \in {"done", "canceled"} =>
                    /\ e.alvo \in Pedidos /\ agenda'[e.alvo] # Nulo
                    /\ agenda'[e.alvo].situacao # "scheduled"
    <3>1. CASE e \in eventos
      <4>1. e.por \in Pedidos /\ pedido[e.por].passo = "fim"
        BY <3>1 DEF Inv, TypeOK, Evento, RegistrosBons
      <4>2. e.tipo \in {"done", "canceled"} =>
               /\ e.alvo \in Pedidos /\ agenda[e.alvo] # Nulo
               /\ agenda[e.alvo].situacao # "scheduled"
        BY <3>1 DEF Inv, RegistrosBons
      <4> QED
        BY <4>1, <4>2, <1>3, <1>5, <1>7, <1>9
    <3>2. CASE e = [tipo |-> tipo, alvo |-> c, por |-> p]
      BY <3>2, <1>3, <1>5, <1>7
    <3> QED
      BY <2>2, <3>1, <3>2, <1>2, <1>4 DEF Publicar
  <2> QED
    BY <2>1, <2>2 DEF RegistrosBons
<1>12. SobreposicaoSoPorCorrida'
  <2>1. ASSUME NEW b \in Pedidos \ {p}, agenda[b] # Nulo, tipo = "scheduled",
               Conflita(l, agenda[b])
        PROVE  Concorrentes(p, b)' /\ Concorrentes(b, p)'
    <3>1. b \notin antes[p]
      BY <2>1, <1>1, <1>2, <1>3 DEF PassadoBom, GravarAgenda
    <3> QED
      BY <3>1, <1>4, <1>7 DEF Concorrentes
  <2> SUFFICES ASSUME NEW a \in Pedidos, NEW b \in Pedidos, a # b,
                      agenda'[a] # Nulo, agenda'[b] # Nulo, Conflita(agenda'[a], agenda'[b])
               PROVE  Concorrentes(a, b)'
    BY DEF SobreposicaoSoPorCorrida, Conflita
  <2>2. agenda'[a].situacao = "scheduled" /\ agenda'[b].situacao = "scheduled"
    BY DEF Conflita
  <2>3. CASE a # c /\ b # c
    <3>1. Concorrentes(a, b)
      BY <2>3, <1>5 DEF Inv, SobreposicaoSoPorCorrida
    <3> QED
      BY <3>1, <1>4 DEF Concorrentes
  <2>4. CASE a = c
    BY <2>1, <2>2, <2>4, <1>3, <1>5
  <2>5. CASE b = c
    <3>1. Conflita(agenda'[b], agenda'[a])
      BY DEF Conflita
    <3> QED
      BY <2>1, <2>2, <2>5, <3>1, <1>3, <1>5
  <2> QED
    BY <2>3, <2>4, <2>5
<1>13. FechoSoPorCorrida'
  <2> SUFFICES ASSUME NEW a \in Pedidos
               PROVE  /\ agenda'[a] # Nulo => \E q \in Pedidos : \E s : /\ s = agenda'[a].situacao
                                                                      /\ Publicou(q, s, a)'
                      /\ \A q, t \in Pedidos, s, u \in {"done", "canceled"} :
                            Publicou(q, s, a)' /\ Publicou(t, u, a)' /\ q # t
                               => Concorrentes(q, t)' /\ agenda'[a].situacao # "scheduled"
    BY DEF FechoSoPorCorrida
  <2>1. ASSUME agenda'[a] # Nulo
        PROVE  \E q \in Pedidos : \E s : s = agenda'[a].situacao /\ Publicou(q, s, a)'
    <3>1. CASE a = c
      BY <3>1, <1>3, <1>5, <1>7
    <3>2. CASE a # c
      <4>0. PICK s : s = agenda[a].situacao
        OBVIOUS
      <4>1. PICK q \in Pedidos : s = agenda[a].situacao /\ Publicou(q, s, a)
        BY <2>1, <3>2, <4>0, <1>5 DEF Inv, FechoSoPorCorrida
      <4>2. q # p
        BY <4>1, <1>7
      <4> QED
        BY <3>2, <4>1, <4>2, <1>5, <1>7
    <3> QED
      BY <3>1, <3>2
  <2>2. ASSUME NEW q \in Pedidos, NEW s \in {"done", "canceled"}, Publicou(q, s, a)'
        PROVE  agenda'[a].situacao # "scheduled"
    <3>1. CASE q = p
      BY <2>2, <3>1, <1>3, <1>5, <1>7
    <3>2. CASE q # p
      BY <2>2, <3>2, <1>3, <1>5, <1>7, <1>10
    <3> QED
      BY <3>1, <3>2
  <2>3. ASSUME NEW t \in Pedidos \ {p}, NEW s \in {"done", "canceled"},
               NEW u \in {"done", "canceled"}, Publicou(p, s, a)', Publicou(t, u, a)'
        PROVE  Concorrentes(p, t)' /\ Concorrentes(t, p)'
    <3>0. s = tipo /\ a = c
      BY <2>3, <1>7
    <3>1. a = c /\ pedido[p].op = "encerrar" /\ Publicou(t, u, c)
      BY <2>3, <3>0, <1>3, <1>7
    <3>2. t \notin antes[p]
      BY <3>1, <1>1, <1>2 DEF PassadoBom
    <3> QED
      BY <3>2, <1>4, <1>7 DEF Concorrentes
  <2>4. ASSUME NEW q \in Pedidos \ {p}, NEW t \in Pedidos \ {p}, q # t,
               NEW s \in {"done", "canceled"}, NEW u \in {"done", "canceled"},
               Publicou(q, s, a)', Publicou(t, u, a)'
        PROVE  Concorrentes(q, t)'
    <3>1. Concorrentes(q, t)
      BY <2>4, <1>7 DEF Inv, FechoSoPorCorrida
    <3> QED
      BY <3>1, <1>4 DEF Concorrentes
  <2> QED
    BY <2>1, <2>2, <2>3, <2>4
<1>14. \A q \in Pedidos \ {p} : MemoriaBoa(q)'
  <2>1. \A a \in Pedidos : agenda[a] # Nulo => agenda'[a] # Nulo
    BY <1>3, <1>5
  <2> QED
    BY <2>1, <1>4, <1>6, <1>7 DEF Inv, MemoriaBoa, EmAndamento
<1>15. AlteracaoSobrevive' /\ \A q \in Pedidos \ {p} : PassadoBom(q)'
  BY <1>3, <1>4, <1>5, <1>7, ClienteFica
<1> QED
  BY <1>7, <1>8, <1>11, <1>12, <1>13, <1>14, <1>15, FechaInv DEF Feitos

-----------------------------------------------------------------------------
(* The clock, and the whole.                                               *)

LEMMA ParadoInv ==
    ASSUME Inv, UNCHANGED <<cliente, agenda, notas, eventos, pedido, antes>>,
           agora' \in 0..MaxAgora
    PROVE  Inv'
<1>1. TypeOK'
  BY DEF Inv, TypeOK
<1>2. RegistrosBons'
  BY DEF Inv, RegistrosBons
<1>5. ASSUME NEW q \in Pedidos
      PROVE  MemoriaBoa(q)' /\ PassadoBom(q)'
  <2>1. MemoriaBoa(q) /\ PassadoBom(q)
    BY DEF Inv
  <2>2. MemoriaBoa(q)'
    BY <2>1 DEF MemoriaBoa, EmAndamento, Existe
  <2>3. PassadoBom(q)'
    BY <2>1 DEF PassadoBom, EmAndamento, Encerrados, Conflita, Publicou, GravouCliente,
                Coberto, Concorrentes
  <2> QED
    BY <2>2, <2>3
<1>6. SobreposicaoSoPorCorrida'
  BY DEF Inv, SobreposicaoSoPorCorrida, Conflita, Concorrentes
<1>7. FechoSoPorCorrida'
  BY DEF Inv, FechoSoPorCorrida, Publicou, Concorrentes
<1>8. AlteracaoSobrevive'
  BY DEF Inv, AlteracaoSobrevive, GravouCliente, Publicou, Concorrentes
<1> QED
  BY <1>1, <1>2, <1>5, <1>6, <1>7, <1>8 DEF Inv

\* One step per operation.
LEMMA NextInv == Inv /\ [Next]_vars => Inv'
<1>1. ASSUME Inv, NEW p \in Pedidos, Chegar(p)
      PROVE  Inv'
  BY <1>1, CriarClienteInv, AlterarClienteInv, AnotarInv, AgendarInv, LeituraInv, EncerrarInv
     DEF Chegar
<1>2. ASSUME Inv, NEW p \in Pedidos, Prosseguir(p)
      PROVE  Inv'
  BY <1>2, ConferirDonoInv, GravarClienteInv, GravarNotaInv, ConferirAgendaInv, GravarAgendaInv,
     FichaInv, RedeInv, DesistirInv DEF Prosseguir
<1>3. ASSUME Inv, PassarTempo \/ UNCHANGED vars
      PROVE  Inv'
  <2>1. UNCHANGED <<cliente, agenda, notas, eventos, pedido, antes>>
    BY <1>3 DEF PassarTempo, banco, vars
  <2>2. agora' \in 0..MaxAgora
    BY <1>3, CrmAssumption DEF PassarTempo, vars, Inv, TypeOK
  <2> QED
    BY <1>3, <2>1, <2>2, ParadoInv
<1> QED
  BY <1>1, <1>2, <1>3 DEF Next

\* Whatever the requests and however they interleave, Inv holds (modules/crm).
THEOREM InvSempre == Spec => []Inv
<1> QED
  BY InitInv, NextInv, PTL DEF Spec

\* Rows, events and what each request remembers keep their types.
THEOREM TiposSempre == Spec => []TypeOK
<1>1. Inv => TypeOK
  BY DEF Inv
<1> QED
  BY <1>1, InvSempre, PTL

\* Two open appointments of one person overlap only when the requests that
\* scheduled them were in flight together (ScheduleAppointmentUseCase).
THEOREM SobreposicaoSempre == Spec => []SobreposicaoSoPorCorrida
<1>1. Inv => SobreposicaoSoPorCorrida
  BY DEF Inv
<1> QED
  BY <1>1, InvSempre, PTL

\* An appointment is closed a second time only by who read it open while the
\* first was in flight, and is then closed for good (CloseAppointmentUseCase).
THEOREM FechoSempre == Spec => []FechoSoPorCorrida
<1>1. Inv => FechoSoPorCorrida
  BY DEF Inv
<1> QED
  BY <1>1, InvSempre, PTL

\* The contact given to a customer is stored until somebody gives another, or
\* somebody in flight at that time writes his row back (UpdateCustomerUseCase).
THEOREM AlteracaoSempre == Spec => []AlteracaoSobrevive
<1>1. Inv => AlteracaoSobrevive
  BY DEF Inv
<1> QED
  BY <1>1, InvSempre, PTL

-----------------------------------------------------------------------------
(* What a list cut at n leaves out.                                        *)

\* Entries with a time.
Datado(S) == \A x \in S : x.em \in Nat

\* An entry is left out only when the list is full of entries at least as late.
LEMMA Corte ==
    ASSUME NEW S, IsFiniteSet(S), NEW n \in Nat, NEW T \in MaisRecentes(S, n)
    PROVE  /\ T \subseteq S /\ IsFiniteSet(T)
           /\ \A x \in S \ T : Cardinality(T) = n /\ \A y \in T : x.em <= y.em
<1>1. T \subseteq S
  BY DEF MaisRecentes
<1>2. /\ IsFiniteSet(T)
      /\ Cardinality(S) = Cardinality(T) => S = T
  BY <1>1, FS_Subset
<1>3. Cardinality(T) = n \/ Cardinality(T) = Cardinality(S)
  BY DEF MaisRecentes
<1>4. \A x \in T, y \in S \ T : y.em <= x.em
  BY DEF MaisRecentes
<1> QED
  BY <1>1, <1>2, <1>3, <1>4

\* A list that was full of entries at least as late as x is still so after it
\* was merged into S and cut again: what takes a place is later than who loses it.
LEMMA CorteDaUniao ==
    ASSUME NEW S, IsFiniteSet(S), Datado(S), NEW n \in Nat, NEW U \in MaisRecentes(S, n),
           NEW I \in SUBSET S, Cardinality(I) = n,
           NEW t \in Nat, \A y \in I : t <= y.em
    PROVE  Cardinality(U) = n /\ \A y \in U : t <= y.em
<1>1. /\ U \subseteq S /\ IsFiniteSet(U)
      /\ \A x \in S \ U : \A y \in U : x.em <= y.em
  BY Corte
<1>2. /\ IsFiniteSet(I) /\ Cardinality(I) \in Nat /\ Cardinality(S) \in Nat
      /\ Cardinality(I) <= Cardinality(S)
  BY FS_Subset, FS_CardinalityType
<1>3. Cardinality(U) = n
  BY <1>2 DEF MaisRecentes
<1>4. ASSUME NEW y \in U
      PROVE  t <= y.em
  <2>1. CASE y \in I
    BY <2>1
  <2>2. CASE y \notin I
    <3>1. I # U
      BY <2>2
    <3>2. ~(I \subseteq U)
      BY <3>1, <1>1, <1>3, FS_Subset
    <3>3. PICK z \in I : z \notin U
      BY <3>2
    <3>4. z.em <= y.em /\ t <= z.em
      BY <3>3, <1>1
    <3>5. z.em \in Nat /\ y.em \in Nat
      BY <1>1 DEF Datado
    <3> QED
      BY <3>4, <3>5
  <2> QED
    BY <2>1, <2>2
<1> QED
  BY <1>3, <1>4

LEMMA ItensDeNotasFinitos ==
    ASSUME IsFiniteSet(notas), NEW c
    PROVE  IsFiniteSet(ItensDeNotas(c))
<1> DEFINE N == {m \in notas : m.cliente = c}
           f == [n \in N |-> [tipo |-> "note", id |-> n.id, em |-> n.em]]
<1>1. IsFiniteSet(N)
  BY FS_Subset
<1>2. f \in Surjection(N, ItensDeNotas(c))
  BY DEF Surjection, ItensDeNotas
<1> QED
  BY <1>1, <1>2, FS_Surjection

LEMMA ItensDaAgendaFinitos ==
    ASSUME IsFiniteSet(Agendados), NEW c
    PROVE  IsFiniteSet(ItensDaAgenda(c))
<1> DEFINE A == {b \in Pedidos : agenda[b] # Nulo /\ agenda[b].cliente = c}
           f == [a \in A |-> [tipo |-> "appointment", id |-> a, em |-> agenda[a].inicio]]
<1>1. A \in SUBSET Agendados
  BY DEF Agendados
<1>2. IsFiniteSet(A)
  BY <1>1, FS_Subset
<1>3. f \in Surjection(A, ItensDaAgenda(c))
  BY DEF Surjection, ItensDaAgenda
<1> QED
  BY <1>2, <1>3, FS_Surjection

LEMMA ItensDatados ==
    ASSUME TypeOK, NEW c
    PROVE  Datado(ItensDeNotas(c)) /\ Datado(ItensDaAgenda(c))
<1>1. Instantes \subseteq Nat
  BY CrmAssumption DEF Instantes
<1>2. Datado(ItensDeNotas(c))
  <2> SUFFICES ASSUME NEW x \in ItensDeNotas(c) PROVE x.em \in Nat
    BY DEF Datado
  <2>1. PICK n \in notas : x.em = n.em
    BY DEF ItensDeNotas
  <2> QED
    BY <2>1, <1>1 DEF TypeOK, Nota
<1>3. \A a \in Pedidos : agenda[a] # Nulo => agenda[a].inicio \in Instantes
  BY DEF TypeOK, LinhaDeAgenda
<1>4. Datado(ItensDaAgenda(c))
  <2> SUFFICES ASSUME NEW x \in ItensDaAgenda(c) PROVE x.em \in Nat
    BY DEF Datado
  <2>1. PICK a \in Pedidos : agenda[a] # Nulo /\ x.em = agenda[a].inicio
    BY DEF ItensDaAgenda
  <2> QED
    BY <2>1, <1>1, <1>3
<1> QED
  BY <1>2, <1>4

-----------------------------------------------------------------------------
(* What a step of p does to the lists of the others.                       *)

\* p, which is not over, writes at most a note that bears its name, or an
\* appointment: its own, or one that stays where it was.
Escrita(p) ==
    /\ SoMoveu(p) /\ pedido[p].passo # "fim"
    /\ \/ notas' = notas
       \/ pedido'[p].passo = "fim" /\ \E n \in Nota : n.id = p /\ notas' = notas \union {n}
    /\ \/ agenda' = agenda
       \/ \E a \in Pedidos, l \in LinhaDeAgenda :
             /\ agenda' = [agenda EXCEPT ![a] = l]
             /\ \/ a = p
                \/ /\ agenda[a] # Nulo
                   /\ l.cliente = agenda[a].cliente /\ l.inicio = agenda[a].inicio

\* No appointment of who was over appears, and those there are stay where they were.
LEMMA AgendaParada ==
    ASSUME Inv, NEW p \in Pedidos, Escrita(p), NEW a \in Pedidos, a # p
    PROVE  /\ agenda'[a] # Nulo <=> agenda[a] # Nulo
           /\ agenda'[a].cliente = agenda[a].cliente /\ agenda'[a].inicio = agenda[a].inicio
<1>1. agenda \in [Pedidos -> LinhaDeAgenda \union {Nulo}]
  BY DEF Inv, TypeOK
<1>2. CASE agenda' = agenda
  BY <1>2
<1>3. CASE agenda' # agenda
  <2>1. PICK b \in Pedidos, l \in LinhaDeAgenda :
             /\ agenda' = [agenda EXCEPT ![b] = l]
             /\ \/ b = p
                \/ /\ agenda[b] # Nulo
                   /\ l.cliente = agenda[b].cliente /\ l.inicio = agenda[b].inicio
    BY <1>3 DEF Escrita
  <2>2. l # Nulo
    BY LinhaAssumption
  <2>3. CASE a = b
    BY <2>1, <2>2, <2>3, <1>1
  <2>4. CASE a # b
    BY <2>1, <2>4, <1>1
  <2> QED
    BY <2>3, <2>4
<1> QED
  BY <1>2, <1>3

\* Every entry of who was over before q began was there already.
LEMMA PassadoImovel ==
    ASSUME Inv, NEW p \in Pedidos, Escrita(p), NEW q \in Pedidos, NEW c, NEW x,
           x.id \in antes[q]
    PROVE  /\ x \in ItensDeNotas(c)' => x \in ItensDeNotas(c)
           /\ x \in ItensDaAgenda(c)' => x \in ItensDaAgenda(c)
<1>1. x.id \in Pedidos /\ x.id # p
  BY DEF Inv, PassadoBom, Encerrados, Escrita
<1>2. ASSUME x \in ItensDeNotas(c)'
      PROVE  x \in ItensDeNotas(c)
  <2>1. PICK n \in notas' : n.cliente = c /\ x = [tipo |-> "note", id |-> n.id, em |-> n.em]
    BY <1>2 DEF ItensDeNotas
  <2>2. n.id # p
    BY <2>1, <1>1
  <2>3. n \in notas
    BY <2>2 DEF Escrita
  <2> QED
    BY <2>1, <2>3 DEF ItensDeNotas
<1>3. ASSUME x \in ItensDaAgenda(c)'
      PROVE  x \in ItensDaAgenda(c)
  <2>1. PICK a \in Pedidos : /\ agenda'[a] # Nulo /\ agenda'[a].cliente = c
                             /\ x = [tipo |-> "appointment", id |-> a, em |-> agenda'[a].inicio]
    BY <1>3 DEF ItensDaAgenda
  <2>2. a # p
    BY <2>1, <1>1
  <2>3. agenda[a] # Nulo /\ agenda[a].cliente = c /\ agenda[a].inicio = agenda'[a].inicio
    BY <2>1, <2>2, AgendaParada
  <2> QED
    BY <2>1, <2>3 DEF ItensDaAgenda
<1> QED
  BY <1>2, <1>3

\* What was not left out is not left out now, by who gathers nothing more.
LEMMA NadaPuladoFica ==
    ASSUME Inv, NEW p \in Pedidos, Escrita(p), NEW q \in Pedidos,
           antes'[q] = antes[q], pedido'[q].itens = pedido[q].itens, NEW c
    PROVE  /\ NadaPulado(q, ItensDeNotas(c)) => NadaPulado(q, ItensDeNotas(c))'
           /\ NadaPulado(q, ItensDeNotas(c) \union ItensDaAgenda(c)) =>
                NadaPulado(q, ItensDeNotas(c) \union ItensDaAgenda(c))'
BY PassadoImovel DEF NadaPulado

LEMMA EscritaListas ==
    ASSUME Inv, ListasBoas, NEW p \in Pedidos, Escrita(p)
    PROVE  ListasBoas'
<1>1. IsFiniteSet(notas')
  <2>1. CASE notas' = notas
    BY <2>1 DEF ListasBoas
  <2>2. CASE notas' # notas
    <3>1. PICK n : notas' = notas \union {n}
      BY <2>2 DEF Escrita
    <3> QED
      BY <3>1, FS_AddElement DEF ListasBoas
  <2> QED
    BY <2>1, <2>2
<1>2. ASSUME NEW n \in notas'
      PROVE  pedido'[n.id].passo = "fim"
  <2>1. CASE n \in notas
    <3>1. n.id \in Pedidos /\ pedido[n.id].passo = "fim"
      BY <2>1 DEF ListasBoas, Inv, TypeOK, Nota
    <3> QED
      BY <3>1 DEF Escrita, SoMoveu
  <2>2. CASE n \notin notas
    BY <1>2, <2>2 DEF Escrita
  <2> QED
    BY <2>1, <2>2
<1>3. IsFiniteSet(Agendados')
  <2>1. Agendados' \in SUBSET (Agendados \union {p})
    BY AgendaParada DEF Agendados
  <2>2. IsFiniteSet(Agendados \union {p})
    BY FS_AddElement DEF ListasBoas
  <2> QED
    BY <2>1, <2>2, FS_Subset
<1> QED
  BY <1>1, <1>2, <1>3 DEF ListasBoas

\* What is known of the others is still so.
LEMMA EscritaOutros ==
    ASSUME Inv, FichasBoas, NEW p \in Pedidos, Escrita(p), NEW q \in Pedidos \ {p}
    PROVE  FichaBoa(q)'
<1>1. pedido'[q] = pedido[q] /\ antes'[q] = antes[q]
  BY DEF Escrita, SoMoveu
<1>2. FichaBoa(q) /\ MemoriaBoa(q)
  BY DEF FichasBoas, Inv
<1>3. PICK c : c = pedido[q].alvo /\ c = pedido'[q].alvo
  BY <1>1
<1>4. pedido[q].op = "encerrar" /\ EmAndamento(q) =>
          agenda'[c].cliente = agenda[c].cliente /\ agenda'[c].inicio = agenda[c].inicio
  <2>1. agenda[p] = Nulo
    BY DEF Inv, RegistrosBons, Escrita
  <2>2. pedido[q].op = "encerrar" /\ EmAndamento(q) => c \in Pedidos /\ agenda[c] # Nulo
    BY <1>2, <1>3 DEF MemoriaBoa
  <2> QED
    BY <2>1, <2>2, AgendaParada
<1>5. /\ NadaPulado(q, ItensDeNotas(c)) => NadaPulado(q, ItensDeNotas(c))'
      /\ NadaPulado(q, ItensDeNotas(c) \union ItensDaAgenda(c)) =>
           NadaPulado(q, ItensDeNotas(c) \union ItensDaAgenda(c))'
  BY <1>1, NadaPuladoFica
<1> QED
  BY <1>1, <1>2, <1>3, <1>4, <1>5 DEF FichaBoa, EmAndamento

-----------------------------------------------------------------------------
(* What a step of p does to the timeline of p.                             *)

\* Only a step of a timeline, a note or a closing has something to keep.
LEMMA OutroPassoFicha ==
    ASSUME Inv, FichasBoas, NEW p \in Pedidos, Escrita(p), NEW m, pedido'[p] = m,
           m.passo \notin {"notas", "agenda"},
           m.op = "ficha" => m.resposta # "cliente",
           m.passo \notin {"livre", "fim"} => m.op \notin {"anotar", "encerrar"}
    PROVE  FichasBoas'
<1>1. FichaBoa(p)'
  BY DEF FichaBoa, EmAndamento
<1> QED
  BY <1>1, EscritaListas, EscritaOutros DEF FichasBoas

\* A request that arrives, or waits, writes nothing.
LEMMA SemEscrever ==
    ASSUME Inv, NEW p \in Pedidos, NEW m \in Pedido, pedido[p].passo # "fim",
           pedido' = [pedido EXCEPT ![p] = m], UNCHANGED banco,
           \A q \in Pedidos \ {p} : antes'[q] = antes[q]
    PROVE  Escrita(p) /\ pedido'[p] = m
BY DEF Inv, TypeOK, Escrita, SoMoveu, banco

LEMMA ComecoEscrita ==
    ASSUME Inv, NEW p \in Pedidos, NEW m \in Pedido, Comecar(p, m)
    PROVE  Escrita(p) /\ pedido'[p] = m /\ UNCHANGED <<notas, agenda>>
<1>1. /\ \A q \in Pedidos \ {p} : antes'[q] = antes[q]
      /\ pedido' = [pedido EXCEPT ![p] = m]
      /\ pedido[p].passo # "fim" /\ UNCHANGED banco
  BY DEF Inv, TypeOK, Comecar
<1>2. UNCHANGED <<notas, agenda>>
  BY <1>1 DEF banco
<1> QED
  BY <1>1, <1>2, SemEscrever

LEMMA ChegarFicha ==
    ASSUME Inv, FichasBoas, NEW p \in Pedidos, Chegar(p)
    PROVE  FichasBoas'
<1>1. ASSUME NEW m \in Pedido, Comecar(p, m), m.passo \notin {"notas", "agenda"},
             m.op \notin {"ficha", "anotar", "encerrar"}
      PROVE  FichasBoas'
  BY <1>1, ComecoEscrita, OutroPassoFicha
<1>2. ASSUME NEW d \in Documentos \union {Nulo}, CriarCliente(p, d)
      PROVE  FichasBoas'
  <2> DEFINE m == [Livre EXCEPT !.op = "criar", !.passo = "gravar", !.alvo = p,
                       !.linha = NovoCliente(p, d), !.contato = TRUE]
  <2>1. NovoCliente(p, d) \in LinhaDeCliente
    BY DEF NovoCliente, LinhaDeCliente, Clientes
  <2>2. m \in Pedido /\ m.op = "criar" /\ m.passo = "gravar"
    BY <2>1 DEF Pedido, Livre, Clientes
  <2>3. Comecar(p, m)
    BY <1>2 DEF CriarCliente
  <2> HIDE DEF m
  <2> QED
    BY <2>2, <2>3, <1>1
<1>3. ASSUME NEW c \in Clientes, NEW d \in Documentos \union {Nulo, Manter}, NEW mexe \in BOOLEAN,
             AlterarCliente(p, c, d, mexe)
      PROVE  FichasBoas'
  <2> DEFINE l == Alterada(cliente[c], p, d, mexe)
             m == [Livre EXCEPT !.op = "alterar", !.alvo = c, !.contato = mexe,
                       !.passo = IF d \in Documentos THEN "conferir" ELSE "gravar",
                       !.linha = l]
  <2>1. cliente[c] \in LinhaDeCliente
    BY <1>3 DEF AlterarCliente, Existe, Inv, TypeOK
  <2>2. l \in LinhaDeCliente
    BY <2>1, CrmAssumption DEF Alterada, LinhaDeCliente, Clientes
  <2> HIDE DEF l
  <2>3. m \in Pedido /\ m.op = "alterar" /\ m.passo \in {"conferir", "gravar"}
    BY <2>2 DEF Pedido, Livre
  <2>4. Comecar(p, m)
    BY <1>3 DEF AlterarCliente, l
  <2> HIDE DEF m
  <2> QED
    BY <2>3, <2>4, <1>1
<1>4. ASSUME NEW c \in Clientes, NEW i \in Instantes, NEW f \in Instantes,
             NEW u \in Responsaveis \union {Nulo}, Agendar(p, c, i, f, u)
      PROVE  FichasBoas'
  <2> DEFINE l == Marcado(c, i, f, u)
             m == [Livre EXCEPT !.op = "agendar", !.alvo = p,
                       !.passo = IF u = Nulo THEN "gravar" ELSE "conferir", !.linha = l]
  <2>1. l \in LinhaDeAgenda
    BY DEF Marcado, LinhaDeAgenda
  <2> HIDE DEF l
  <2>2. m \in Pedido /\ m.op = "agendar" /\ m.passo \in {"conferir", "gravar"}
    BY <2>1 DEF Pedido, Livre, Clientes
  <2>3. Comecar(p, m)
    BY <1>4 DEF Agendar, l
  <2> HIDE DEF m
  <2> QED
    BY <2>2, <2>3, <1>1
<1>5. ASSUME NEW c \in Clientes, Consultar(p, c) \/ Chamar(p, c)
      PROVE  FichasBoas'
  <2>1. Existe(c) \in BOOLEAN /\ Achado(c) \in {"cliente", "null"}
    BY DEF Existe, Achado
  <2>2. ASSUME Consultar(p, c)
        PROVE  FichasBoas'
    <3> DEFINE m == [Livre EXCEPT !.op = "resumo", !.passo = "fim", !.alvo = c,
                        !.havia = Existe(c), !.resposta = Achado(c)]
    <3>1. m \in Pedido /\ m.op = "resumo" /\ m.passo = "fim"
      BY <2>1 DEF Pedido, Livre
    <3>2. Comecar(p, m)
      BY <2>2 DEF Consultar
    <3> HIDE DEF m
    <3> QED
      BY <3>1, <3>2, <1>1
  <2>3. ASSUME Chamar(p, c)
        PROVE  FichasBoas'
    <3> DEFINE m == [Livre EXCEPT !.op = "resumo", !.passo = "rede", !.alvo = c,
                        !.havia = Existe(c)]
    <3>1. m \in Pedido /\ m.op = "resumo" /\ m.passo = "rede"
      BY <2>1 DEF Pedido, Livre
    <3>2. Comecar(p, m)
      BY <2>3 DEF Chamar
    <3> HIDE DEF m
    <3> QED
      BY <3>1, <3>2, <1>1
  <2> QED
    BY <1>5, <2>2, <2>3
<1>6. ASSUME NEW c \in Clientes, Anotar(p, c)
      PROVE  FichasBoas'
  <2> DEFINE m == [Livre EXCEPT !.op = "anotar", !.passo = "gravar", !.alvo = c,
                       !.linha = NovaNota(p, c)]
  <2>1. NovaNota(p, c) \in Nota /\ NovaNota(p, c).id = p
    <3>1. agora \in Instantes
      BY CrmAssumption DEF Inv, TypeOK, Instantes
    <3> QED
      BY <3>1 DEF NovaNota, Nota
  <2>2. m \in Pedido /\ m.op = "anotar" /\ m.passo = "gravar" /\ m.linha.id = p
    BY <2>1 DEF Pedido, Livre
  <2>3. Comecar(p, m)
    BY <1>6 DEF Anotar
  <2> HIDE DEF m
  <2>4. Escrita(p) /\ pedido'[p] = m
    BY <2>2, <2>3, ComecoEscrita
  <2>5. FichaBoa(p)'
    BY <2>2, <2>4 DEF FichaBoa
  <2> QED
    BY <2>4, <2>5, EscritaListas, EscritaOutros DEF FichasBoas
<1>7. ASSUME NEW a \in Pedidos, NEW s \in {"done", "canceled"}, Encerrar(p, a, s)
      PROVE  FichasBoas'
  <2> DEFINE l == [agenda[a] EXCEPT !.situacao = s]
             m == [Livre EXCEPT !.op = "encerrar", !.passo = "gravar", !.alvo = a, !.linha = l]
  <2>1. agenda[a] \in LinhaDeAgenda
    BY <1>7 DEF Encerrar, Inv, TypeOK
  <2>2. l \in LinhaDeAgenda /\ l.cliente = agenda[a].cliente /\ l.inicio = agenda[a].inicio
    BY <2>1 DEF LinhaDeAgenda
  <2> HIDE DEF l
  <2>3. m \in Pedido /\ m.op = "encerrar" /\ m.passo = "gravar" /\ m.alvo = a /\ m.linha = l
    BY <2>2 DEF Pedido, Livre, Clientes
  <2>4. Comecar(p, m)
    BY <1>7 DEF Encerrar, l
  <2> HIDE DEF m
  <2>5. Escrita(p) /\ pedido'[p] = m /\ UNCHANGED agenda
    BY <2>3, <2>4, ComecoEscrita
  <2>6. FichaBoa(p)'
    BY <2>2, <2>3, <2>5 DEF FichaBoa
  <2> QED
    BY <2>5, <2>6, EscritaListas, EscritaOutros DEF FichasBoas
<1>8. ASSUME NEW c \in Clientes, PedirFicha(p, c)
      PROVE  FichasBoas'
  <2> DEFINE m == [Livre EXCEPT !.op = "ficha", !.passo = "notas", !.alvo = c]
  <2>1. m \in Pedido /\ m.op = "ficha" /\ m.passo = "notas" /\ m.resposta = "nada"
    BY DEF Pedido, Livre
  <2>2. Comecar(p, m)
    BY <1>8 DEF PedirFicha
  <2> HIDE DEF m
  <2>3. Escrita(p) /\ pedido'[p] = m
    BY <2>1, <2>2, ComecoEscrita
  <2>4. FichaBoa(p)'
    BY <2>1, <2>3 DEF FichaBoa
  <2> QED
    BY <2>3, <2>4, EscritaListas, EscritaOutros DEF FichasBoas
<1> QED
  BY <1>2, <1>3, <1>4, <1>5, <1>6, <1>7, <1>8 DEF Chegar

\* The first list, cut: it leaves out only what is older than all it keeps.
LEMMA ListarNotasFicha ==
    ASSUME Inv, FichasBoas, NEW p \in Pedidos, ListarNotas(p)
    PROVE  FichasBoas'
<1>1. PICK c : c = pedido[p].alvo
  OBVIOUS
<1>2. PICK T \in MaisRecentes(ItensDeNotas(c), MaxItens) :
         pedido' = [pedido EXCEPT ![p].passo = "agenda", ![p].itens = T]
  BY <1>1 DEF ListarNotas
<1>3. TypeOK /\ pedido[p] \in Pedido /\ pedido[p].op = "ficha" /\ FichaBoa(p)
      /\ pedido[p].resposta # "cliente"
  BY DEF Inv, TypeOK, FichasBoas, FichaBoa, ListarNotas
<1>4. /\ IsFiniteSet(T)
      /\ \A x \in ItensDeNotas(c) \ T :
            Cardinality(T) = MaxItens /\ \A y \in T : x.em <= y.em
  BY CrmAssumption, ItensDeNotasFinitos, Corte DEF FichasBoas, ListasBoas
<1>5. UNCHANGED <<notas, agenda, antes>>
  BY DEF ListarNotas, banco
<1>6. /\ pedido'[p].passo = "agenda" /\ pedido'[p].itens = T /\ pedido'[p].alvo = c
      /\ pedido'[p].op = "ficha" /\ pedido'[p].resposta = pedido[p].resposta
      /\ SoMoveu(p)
  BY <1>1, <1>2, <1>3, <1>5 DEF TypeOK, Pedido, SoMoveu
<1>7. Escrita(p)
  BY <1>5, <1>6 DEF Escrita, ListarNotas
<1>8. FichaBoa(p)'
  <2>1. ItensDeNotas(c)' = ItensDeNotas(c)
    BY <1>5 DEF ItensDeNotas
  <2>2. NadaPulado(p, ItensDeNotas(c))'
    BY <2>1, <1>4, <1>6 DEF NadaPulado
  <2> QED
    BY <2>2, <1>3, <1>4, <1>6 DEF FichaBoa
<1> QED
  BY <1>7, <1>8, EscritaListas, EscritaOutros DEF FichasBoas

\* The second list, cut, merged and cut again.
LEMMA ListarAgendaFicha ==
    ASSUME Inv, FichasBoas, NEW p \in Pedidos, ListarAgenda(p)
    PROVE  FichasBoas'
<1>1. PICK c, I : c = pedido[p].alvo /\ I = pedido[p].itens
  OBVIOUS
<1> DEFINE N == ItensDeNotas(c)
           A == ItensDaAgenda(c)
<1>0. PICK T \in MaisRecentes(A, MaxItens) : \E U \in MaisRecentes(I \union T, MaxItens) :
         pedido' = [pedido EXCEPT ![p].passo = "fim", ![p].itens = U, ![p].resposta = "cliente"]
  BY <1>1 DEF ListarAgenda
<1>2. PICK U \in MaisRecentes(I \union T, MaxItens) :
         pedido' = [pedido EXCEPT ![p].passo = "fim", ![p].itens = U, ![p].resposta = "cliente"]
  BY <1>0
<1>3. /\ TypeOK /\ pedido[p] \in Pedido /\ pedido[p].op = "ficha"
      /\ pedido[p].passo = "agenda" /\ FichaBoa(p) /\ MaxItens \in Nat
  BY CrmAssumption DEF Inv, TypeOK, FichasBoas, FichaBoa, ListarAgenda
<1>4. IsFiniteSet(I) /\ NadaPulado(p, N)
  BY <1>1, <1>3 DEF FichaBoa
<1>5. IsFiniteSet(A) /\ Datado(A) /\ Datado(N)
  BY <1>3, ItensDaAgendaFinitos, ItensDatados DEF FichasBoas, ListasBoas
<1>6. /\ T \subseteq A /\ IsFiniteSet(T)
      /\ \A x \in A \ T : Cardinality(T) = MaxItens /\ \A y \in T : x.em <= y.em
  BY <1>3, <1>5, Corte
<1>7. IsFiniteSet(I \union T) /\ Datado(I \union T)
  <2>1. IsFiniteSet(I \union T)
    BY <1>4, <1>6, FS_Union
  <2>2. I \subseteq Item
    BY <1>1, <1>3 DEF Pedido
  <2>3. Instantes \subseteq Nat
    BY CrmAssumption DEF Instantes
  <2> QED
    BY <2>1, <2>2, <2>3, <1>5, <1>6 DEF Datado, Item
<1> HIDE DEF N, A
<1>8. ASSUME NEW x \in N \union A, x.id \in antes[p], x \notin U
      PROVE  Cardinality(U) = MaxItens /\ \A y \in U : x.em <= y.em
  <2>1. CASE x \in I \union T
    BY <2>1, <1>3, <1>7, <1>8, Corte
  <2>2. CASE x \in N \ I
    <3>1. Cardinality(I) = MaxItens /\ \A y \in I : x.em <= y.em
      BY <2>2, <1>1, <1>4, <1>8 DEF NadaPulado
    <3>2. x.em \in Nat
      BY <2>2, <1>5 DEF Datado
    <3> QED
      BY <3>1, <3>2, <1>3, <1>7, CorteDaUniao
  <2>3. CASE x \in A \ T
    <3>1. Cardinality(T) = MaxItens /\ \A y \in T : x.em <= y.em
      BY <2>3, <1>6
    <3>2. x.em \in Nat
      BY <2>3, <1>5 DEF Datado
    <3> QED
      BY <3>1, <3>2, <1>3, <1>7, CorteDaUniao
  <2> QED
    BY <2>1, <2>2, <2>3, <1>8
<1>9. UNCHANGED <<notas, agenda, antes>>
  BY DEF ListarAgenda, banco
<1>10. /\ pedido'[p].passo = "fim" /\ pedido'[p].itens = U /\ pedido'[p].alvo = c
       /\ pedido'[p].op = "ficha" /\ SoMoveu(p)
  BY <1>1, <1>2, <1>3, <1>9 DEF TypeOK, Pedido, SoMoveu
<1>11. Escrita(p)
  BY <1>3, <1>9, <1>10 DEF Escrita
<1>12. FichaBoa(p)'
  <2>1. (ItensDeNotas(c) \union ItensDaAgenda(c))' = N \union A
    BY <1>9 DEF ItensDeNotas, ItensDaAgenda, N, A
  <2>2. NadaPulado(p, ItensDeNotas(c) \union ItensDaAgenda(c))'
    BY <2>1, <1>8, <1>9, <1>10 DEF NadaPulado
  <2> QED
    BY <2>2, <1>10 DEF FichaBoa, EmAndamento
<1> QED
  BY <1>11, <1>12, EscritaListas, EscritaOutros DEF FichasBoas

\* Every other step of a request: it goes on, ends or writes.
LEMMA ProsseguirFicha ==
    ASSUME Inv, FichasBoas, NEW p \in Pedidos, Prosseguir(p)
    PROVE  FichasBoas'
<1>1. TypeOK /\ pedido[p] \in Pedido /\ MemoriaBoa(p) /\ FichaBoa(p)
  BY DEF Inv, TypeOK, FichasBoas
<1>2. ASSUME NEW m \in Pedido, pedido' = [pedido EXCEPT ![p] = m], pedido[p].passo # "fim",
             UNCHANGED <<banco, antes>>, m.op # "ficha", m.passo \notin {"notas", "agenda"},
             m.passo # "fim" => m.op \notin {"anotar", "encerrar"}
      PROVE  FichasBoas'
  BY <1>2, SemEscrever, OutroPassoFicha
<1>3. ASSUME NEW r \in {"nada", "erro", "null", "cliente", "feito"}, Terminar(p, r)
      PROVE  \E m \in Pedido : /\ pedido' = [pedido EXCEPT ![p] = m]
                               /\ m.passo = "fim" /\ m.op = pedido[p].op
  <2> DEFINE m == [pedido[p] EXCEPT !.passo = "fim", !.linha = Nulo, !.resposta = r]
  <2>1. m \in Pedido /\ m.passo = "fim" /\ m.op = pedido[p].op
    BY <1>1 DEF Pedido
  <2>2. pedido' = [pedido EXCEPT ![p] = m]
    BY <1>3 DEF Terminar
  <2> QED
    BY <2>1, <2>2
<1>4. ASSUME Terminar(p, "feito"), antes' = antes, pedido[p].op # "ficha",
             pedido[p].passo # "fim",
             \/ notas' = notas
             \/ \E n \in Nota : n.id = p /\ notas' = notas \union {n},
             \/ agenda' = agenda
             \/ \E a \in Pedidos, l \in LinhaDeAgenda :
                   /\ agenda' = [agenda EXCEPT ![a] = l]
                   /\ \/ a = p
                      \/ /\ agenda[a] # Nulo
                         /\ l.cliente = agenda[a].cliente /\ l.inicio = agenda[a].inicio
      PROVE  FichasBoas'
  <2>1. PICK m \in Pedido : /\ pedido' = [pedido EXCEPT ![p] = m]
                            /\ m.passo = "fim" /\ m.op = pedido[p].op
    BY <1>3, <1>4
  <2>2. pedido'[p] = m /\ SoMoveu(p)
    BY <2>1, <1>1, <1>4 DEF TypeOK, SoMoveu
  <2>3. Escrita(p)
    BY <2>1, <2>2, <1>4 DEF Escrita
  <2> QED
    BY <2>1, <2>2, <2>3, <1>4, OutroPassoFicha
<1>5. ASSUME ConferirDono(p) \/ ConferirAgenda(p)
      PROVE  FichasBoas'
  <2> DEFINE m == [pedido[p] EXCEPT !.passo = "gravar"]
  <2>1. m \in Pedido /\ m.op \in {"alterar", "agendar"} /\ m.passo = "gravar"
    BY <1>1, <1>5 DEF Pedido, ConferirDono, ConferirAgenda
  <2>2. pedido' = [pedido EXCEPT ![p] = m] /\ pedido[p].passo # "fim" /\ UNCHANGED <<banco, antes>>
    BY <1>5 DEF ConferirDono, ConferirAgenda, Seguir
  <2> HIDE DEF m
  <2> QED
    BY <2>1, <2>2, <1>2
<1>6. ASSUME GravarCliente(p)
      PROVE  FichasBoas'
  <2>1. /\ Terminar(p, "feito") /\ antes' = antes /\ notas' = notas /\ agenda' = agenda
        /\ pedido[p].op # "ficha" /\ pedido[p].passo # "fim"
    BY <1>6 DEF GravarCliente
  <2> QED
    BY <2>1, <1>4
<1>7. ASSUME GravarNota(p)
      PROVE  FichasBoas'
  <2>1. PICK n : n = pedido[p].linha
    OBVIOUS
  <2>2. /\ Terminar(p, "feito") /\ antes' = antes /\ agenda' = agenda
        /\ pedido[p].op = "anotar" /\ pedido[p].passo = "gravar" /\ notas' = notas \union {n}
    BY <1>7, <2>1 DEF GravarNota, IncluirNota
  <2>3. n \in Nota /\ n.id = p
    BY <1>1, <2>1, <2>2 DEF MemoriaBoa, FichaBoa, EmAndamento
  <2> QED
    BY <2>2, <2>3, <1>4
<1>8. ASSUME GravarAgenda(p)
      PROVE  FichasBoas'
  <2>1. PICK a, l : a = pedido[p].alvo /\ l = pedido[p].linha
    OBVIOUS
  <2>2. /\ Terminar(p, "feito") /\ antes' = antes /\ notas' = notas
        /\ pedido[p].op \in {"agendar", "encerrar"} /\ pedido[p].passo = "gravar"
        /\ agenda' = [agenda EXCEPT ![a] = l]
    BY <1>8, <2>1 DEF GravarAgenda, SalvarAgenda
  <2>3. /\ a \in Pedidos /\ l \in LinhaDeAgenda
        /\ \/ a = p
           \/ /\ agenda[a] # Nulo
              /\ l.cliente = agenda[a].cliente /\ l.inicio = agenda[a].inicio
    BY <1>1, <2>1, <2>2 DEF MemoriaBoa, FichaBoa, EmAndamento
  <2> QED
    BY <2>2, <2>3, <1>4
<1>9. ASSUME Atender(p)
      PROVE  FichasBoas'
  <2> DEFINE m == [pedido[p] EXCEPT !.passo = "volta", !.resposta = Achado(pedido[p].alvo)]
  <2>1. Achado(pedido[p].alvo) \in {"null", "cliente"}
    BY DEF Achado
  <2>2. m \in Pedido /\ m.op = "resumo" /\ m.passo = "volta"
    BY <1>1, <1>9, <2>1 DEF Pedido, Atender, MemoriaBoa
  <2>3. pedido' = [pedido EXCEPT ![p] = m] /\ pedido[p].passo # "fim" /\ UNCHANGED <<banco, antes>>
    BY <1>9 DEF Atender
  <2> HIDE DEF m
  <2> QED
    BY <2>2, <2>3, <1>2
<1>10. ASSUME Receber(p) \/ Falhar(p) \/ Receber404(p)
       PROVE  FichasBoas'
  <2>1. /\ pedido[p].op = "resumo" /\ pedido[p].passo # "fim" /\ UNCHANGED <<banco, antes>>
        /\ \E r \in {"nada", "erro", "null", "cliente", "feito"} : Terminar(p, r)
    BY <1>1, <1>10 DEF Receber, Falhar, Receber404, MemoriaBoa, Pedido
  <2>2. PICK m \in Pedido : /\ pedido' = [pedido EXCEPT ![p] = m]
                            /\ m.passo = "fim" /\ m.op = pedido[p].op
    BY <2>1, <1>3
  <2> QED
    BY <2>1, <2>2, <1>2
<1>11. ASSUME Desistir(p)
       PROVE  FichasBoas'
  <2> DEFINE m == [Livre EXCEPT !.passo = "fim", !.resposta = "erro"]
  <2>1. m \in Pedido /\ m.op = "nenhuma" /\ m.passo = "fim"
    BY DEF Livre, Pedido
  <2>2. pedido' = [pedido EXCEPT ![p] = m] /\ pedido[p].passo # "fim" /\ UNCHANGED <<banco, antes>>
    BY <1>11 DEF Desistir
  <2> HIDE DEF m
  <2> QED
    BY <2>1, <2>2, <1>2
<1> QED
  BY <1>5, <1>6, <1>7, <1>8, <1>9, <1>10, <1>11, ListarNotasFicha, ListarAgendaFicha
     DEF Prosseguir

LEMMA ParadoFicha ==
    ASSUME FichasBoas, UNCHANGED <<cliente, agenda, notas, eventos, pedido, antes>>
    PROVE  FichasBoas'
<1>1. ListasBoas'
  BY DEF FichasBoas, ListasBoas, Agendados
<1>2. ASSUME NEW p \in Pedidos
      PROVE  FichaBoa(p)'
  <2>1. FichaBoa(p)
    BY DEF FichasBoas
  <2> QED
    BY <2>1 DEF FichaBoa, EmAndamento, NadaPulado, ItensDeNotas, ItensDaAgenda
<1> QED
  BY <1>1, <1>2 DEF FichasBoas

LEMMA InitFichas == Init => FichasBoas
<1> SUFFICES ASSUME Init PROVE FichasBoas
  OBVIOUS
<1>1. notas = {} /\ Agendados = {}
  BY DEF Init, Agendados
<1>2. \A p \in Pedidos : pedido[p].op = "nenhuma" /\ pedido[p].passo = "livre"
  BY DEF Init, Livre
<1>3. ListasBoas
  BY <1>1, FS_EmptySet DEF ListasBoas
<1> QED
  BY <1>2, <1>3 DEF FichasBoas, FichaBoa

LEMMA NextFichas == Inv /\ FichasBoas /\ [Next]_vars => FichasBoas'
<1>1. ASSUME FichasBoas, PassarTempo \/ UNCHANGED vars
      PROVE  FichasBoas'
  <2>1. UNCHANGED <<cliente, agenda, notas, eventos, pedido, antes>>
    BY <1>1 DEF PassarTempo, banco, vars
  <2> QED
    BY <1>1, <2>1, ParadoFicha
<1> QED
  BY <1>1, ChegarFicha, ProsseguirFicha DEF Next

\* A timeline leaves out what was recorded before it was asked for only when it
\* is full of entries at least as late, however many requests and entries there
\* are: cutting each list before the merge loses nothing (GetCustomerUseCase).
THEOREM HistoricoSempre == Spec => []HistoricoNaoPula
<1>1. FichasBoas => HistoricoNaoPula
  BY DEF FichasBoas, FichaBoa, HistoricoNaoPula
<1> QED
  BY <1>1, InvSempre, InitFichas, NextFichas, PTL DEF Spec
=============================================================================
