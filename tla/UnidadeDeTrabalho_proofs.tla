----------------------- MODULE UnidadeDeTrabalho_proofs -----------------------
(***************************************************************************)
(* Theorems about units of work and the scope of statements, for any       *)
(* number of requests, companies, connections and steps.  What a step of   *)
(* one request does to another is nothing (Alheio): that is what owning a  *)
(* connection means, and everything else follows from it.                  *)
(***************************************************************************)
EXTENDS UnidadeDeTrabalho, SequenceTheorems, TLAPS

-----------------------------------------------------------------------------
(* Types.                                                                  *)

\* Steps are positive numbers, and those of a request are up to its bound.
LEMMA DosPassos ==
    /\ Passos \subseteq Nat \ {0} /\ Passos \union {0} \subseteq Nat
    /\ \A p \in Pedidos : MaxPassos[p] \in Nat /\ \A n \in 1..MaxPassos[p] : n \in Passos
BY UnidadeAssumption DEF UnidadeAssumption, Passos

\* The parts of a row.
LEMMA DaLinha ==
    ASSUME NEW l \in Linha
    PROVE  /\ l.pedido \in Pedidos /\ l.unidade \in Nat \ {0} /\ l.n \in Nat \ {0}
           /\ l.n <= l.unidade /\ l.unidade <= MaxPassos[l.pedido]
BY DosPassos DEF Linha

\* A row of p, given its numbers.
LEMMA FazLinha ==
    ASSUME NEW p \in Pedidos, NEW u \in Nat, NEW n \in Nat \ {0},
           n <= u, u <= MaxPassos[p]
    PROVE  [pedido |-> p, n |-> n, unidade |-> u] \in Linha
<1>1. u \in 1..MaxPassos[p] /\ n \in 1..MaxPassos[p]
  BY DosPassos
<1>2. u \in Passos /\ n \in Passos
  BY <1>1, DosPassos
<1>. QED BY <1>2 DEF Linha

\* What TypeOK says of one request.
LEMMA Tipos ==
    ASSUME TypeOK, NEW p \in Pedidos
    PROVE  /\ pedido[p] \in Pedido /\ pedido[p].resta \in Nat /\ pedido[p].unidade \in Nat
           /\ pedido[p].em \in Conexoes \union {Nulo} /\ pedido[p].empresa \in Empresas
           /\ \A i \in Calls : /\ chamada[p][i] \in Chamada
                               /\ chamada[p][i].em \in Conexoes \union {Nulo}
                               /\ chamada[p][i].grava \in BOOLEAN
                               /\ chamada[p][i].comUsuario \in BOOLEAN
           /\ \A c \in Conexoes : conexao[c] \in Conexao
           /\ p # Nulo /\ Nulo \notin Conexoes
<1>1. pedido[p] \in Pedido /\ \A i \in Calls : chamada[p][i] \in Chamada
  BY DEF TypeOK
<1>2. pedido[p].resta \in Nat /\ pedido[p].unidade \in Nat
  <2>1. pedido[p].resta \in Passos \union {0} /\ pedido[p].unidade \in Passos \union {0}
    BY <1>1 DEF Pedido
  <2>. QED BY <2>1, DosPassos
<1>. QED BY <1>1, <1>2, UnidadeAssumption DEF TypeOK, Pedido, Chamada, UnidadeAssumption

\* The rows there are, stored or not.
LEMMA DasLinhas ==
    ASSUME Inv, NEW l \in Todas
    PROVE  l \in Linha /\ l.n \in Nat /\ l.unidade \in Nat /\ l.n <= l.unidade
<1>1. l \in Linha
  BY DEF Inv, TypeOK, Todas, Conexao
<1>. QED BY <1>1, DaLinha

\* Only who is in a unit counts how deep.
LEMMA FundoDentro ==
    ASSUME Inv, NEW p \in Pedidos, pedido[p].fundo > 0 PROVE EmUnidade(p)
<1>1. UnidadeBoa(p)
  BY DEF Inv, Bom
<1>. QED BY <1>1 DEF UnidadeBoa

\* What p may still do, within the bound.
LEMMA Resta ==
    ASSUME Inv, NEW p \in Pedidos, pedido[p].resta > 0
    PROVE  /\ pedido[p].resta \in 1..MaxPassos[p] /\ pedido[p].resta \in Passos
           /\ pedido[p].resta - 1 \in Passos \union {0}
<1>1. pedido[p].resta \in Nat /\ pedido[p].resta <= MaxPassos[p]
  BY Tipos DEF Inv, Bom, UnidadeBoa
<1>2. pedido[p].resta - 1 = 0 \/ pedido[p].resta - 1 \in 1..MaxPassos[p]
  BY <1>1, DosPassos
<1>. QED BY <1>1, <1>2, DosPassos

-----------------------------------------------------------------------------
(* Who has a connection has it alone.                                      *)

\* The rows of a transaction are those of its owner.
LEMMA Donas ==
    ASSUME Inv, NEW c \in Conexoes, NEW l \in conexao[c].linhas
    PROVE  /\ conexao[c].dono \in Pedidos /\ l.pedido = conexao[c].dono /\ l \in Todas
           /\ l \in Linha
<1>0. l \in Linha /\ conexao[c].dono \in Pedidos \union {Nulo} /\ l \in Todas
  BY DEF Inv, TypeOK, Conexao, Todas
<1>1. conexao[c].dono # Nulo
  BY DEF Inv, ConexaoBoa
<1>. DEFINE p == conexao[c].dono
<1>2. p \in Pedidos
  BY <1>0, <1>1
<1>3. ASSUME pedido[p].em = c PROVE l.pedido = p
  BY <1>2, <1>3, Tipos DEF Inv, Bom, UnidadeBoa, EmUnidade
<1>4. ASSUME NEW i \in Calls, chamada[p][i].passo \in Abertas, chamada[p][i].em = c
      PROVE  l.pedido = p
  <2>1. ChamadaBoa(p, i)
    BY <1>2 DEF Inv, Bom
  <2>2. l = chamada[p][i].linha
    BY <1>4, <2>1 DEF ChamadaBoa
  <2>3. chamada[p][i].passo # "livre"
    BY <1>4 DEF Abertas
  <2>. QED BY <2>1, <2>2, <2>3 DEF ChamadaBoa
<1>5. pedido[p].em = c \/ \E i \in Calls : chamada[p][i].passo \in Abertas /\ chamada[p][i].em = c
  BY <1>1 DEF Inv, ConexaoBoa
<1>6. l.pedido = p
  BY <1>3, <1>4, <1>5
<1>. QED BY <1>0, <1>2, <1>6

\* What a step leaves of q, if it neither is of q nor touches a connection of q.
LEMMA Alheio ==
    ASSUME Inv, NEW q \in Pedidos,
           pedido'[q] = pedido[q], chamada'[q] = chamada[q],
           \A c \in Conexoes : conexao[c].dono = q => conexao'[c] = conexao[c],
           \A l \in Todas' : l.pedido = q => l \in Todas,
           \A l \in banco' \union perdidas' : l.pedido = q => l \in banco \union perdidas,
           \A l \in perdidas' : l.pedido = q => l \in perdidas
    PROVE  Bom(q)'
<1>1. UnidadeBoa(q)'
  BY Tipos DEF Inv, Bom, UnidadeBoa, EmUnidade, ComUnidade, Parado
<1>2. ASSUME NEW i \in Calls PROVE ChamadaBoa(q, i)'
  <2>1. ChamadaBoa(q, i)
    BY DEF Inv, Bom
  <2>2. chamada[q][i].passo \in Abertas =>
           /\ conexao'[chamada[q][i].em] = conexao[chamada[q][i].em]
    BY <2>1, Tipos DEF Inv, ChamadaBoa
  <2>. QED BY <2>1, <2>2 DEF ChamadaBoa, EmUnidade, Abertas
<1>3. LinhasBoas(q)'
  <2>1. LinhasBoas(q)
    BY DEF Inv, Bom
  <2>. QED BY <2>1 DEF LinhasBoas, NaoEscrita, ComUnidade, EmUnidade
<1>. QED BY <1>1, <1>2, <1>3 DEF Bom

\* A step of request p, which changes connections of p or free ones.
LEMMA Passo ==
    ASSUME Inv, NEW p \in Pedidos, TypeOK', EscopoDaConsulta', FilaBoa', Bom(p)',
           \A q \in Pedidos \ {p} : pedido'[q] = pedido[q] /\ chamada'[q] = chamada[q],
           \A c \in Conexoes :
              \/ conexao'[c] = conexao[c] /\ conexao[c].dono # p
              \/ conexao[c].dono \in {p, Nulo} /\ ConexaoBoa(c)',
           \A c \in Conexoes : conexao'[c].linhas \subseteq conexao[c].linhas
                                  \union {l \in Linha : l.pedido = p},
           banco' \union perdidas' \subseteq Todas,
           perdidas' \subseteq perdidas \union {l \in Linha : l.pedido = p},
           banco' \union perdidas' \subseteq banco \union perdidas
                                                \union {l \in Linha : l.pedido = p}
    PROVE  Inv'
<1>1. ASSUME NEW q \in Pedidos \ {p} PROVE Bom(q)'
  <2>1. \A c \in Conexoes : conexao[c].dono = q => conexao'[c] = conexao[c]
    BY UnidadeAssumption DEF UnidadeAssumption
  <2>2. \A l \in Todas' : l.pedido = q => l \in Todas
    BY DEF Todas
  <2>. QED BY <2>1, <2>2, Alheio
<1>2. ASSUME NEW c \in Conexoes PROVE ConexaoBoa(c)'
  <2>1. CASE conexao'[c] = conexao[c] /\ conexao[c].dono # p
    <3>1. ConexaoBoa(c) /\ conexao[c].dono \in Pedidos \union {Nulo}
      BY DEF Inv, TypeOK, Conexao
    <3>2. conexao[c].dono # Nulo =>
             /\ pedido'[conexao[c].dono] = pedido[conexao[c].dono]
             /\ chamada'[conexao[c].dono] = chamada[conexao[c].dono]
      BY <2>1, <3>1
    <3>. QED BY <2>1, <3>1, <3>2 DEF ConexaoBoa
  <2>. QED BY <2>1
<1>. QED BY <1>1, <1>2 DEF Inv

\* A step of the code of p that touches neither its calls nor a transaction.
LEMMA PassoDoCodigo ==
    ASSUME Inv, NEW p \in Pedidos, UNCHANGED <<banco, perdidas, conexao, chamada, quedas>>,
           consulta' = Nulo, TypeOK', FilaBoa', Parado(p),
           \A q \in Pedidos \ {p} : pedido'[q] = pedido[q],
           pedido'[p].em = pedido[p].em, pedido'[p].resta <= pedido[p].resta,
           UnidadeBoa(p)', LinhasBoas(p)'
    PROVE  Inv'
<1>1. \A i \in Calls : chamada'[p][i].passo = "livre"
  BY DEF Parado
<1>2. \A i \in Calls : ChamadaBoa(p, i)'
  BY <1>1 DEF ChamadaBoa, Abertas
<1>3. \A c \in Conexoes : ConexaoBoa(c) /\ conexao'[c] = conexao[c]
  BY DEF Inv
<1>4. ASSUME NEW c \in Conexoes, conexao[c].dono = p PROVE ConexaoBoa(c)'
  BY <1>3, <1>4 DEF ConexaoBoa
<1>5. EscopoDaConsulta'
  BY DEF EscopoDaConsulta
<1>6. UNCHANGED Todas
  BY DEF Todas
<1>7. banco' \union perdidas' \subseteq Todas
  BY <1>6 DEF Todas
<1>8. Bom(p)'
  BY <1>2 DEF Bom
<1>. QED BY <1>3, <1>4, <1>5, <1>7, <1>8, Passo

\* Nobody joins or leaves the queue, and who waits in it goes on waiting.
LEMMA FilaMantida ==
    ASSUME Inv, UNCHANGED fila,
           \A p \in Pedidos : pedido[p].passo = "espera" => pedido'[p].passo = "espera",
           \A p \in Pedidos : \A i \in Calls :
              chamada[p][i].passo = "espera" => chamada'[p][i].passo = "espera"
    PROVE  FilaBoa'
<1>1. ASSUME NEW k \in 1..Len(fila)
      PROVE  fila[k][1] \in Pedidos /\ fila[k][2] \in {0} \union Calls
  <2>1. fila[k] \in Pedidos \X (0..2)
    BY <1>1 DEF Inv, TypeOK
  <2>. QED BY <2>1 DEF Calls
<1>2. FilaBoa
  BY DEF Inv
<1>. QED BY <1>1, <1>2 DEF FilaBoa

\* Request p joins the queue, for its call i or (i = 0) for a unit of work.
LEMMA FilaCresce ==
    ASSUME Inv, NEW p \in Pedidos, NEW i \in {0} \union Calls, fila' = Append(fila, <<p, i>>),
           \A q \in Pedidos : pedido[q].passo = "espera" => pedido'[q].passo = "espera",
           \A q \in Pedidos : \A j \in Calls :
              chamada[q][j].passo = "espera" => chamada'[q][j].passo = "espera",
           IF i = 0 THEN pedido[p].passo # "espera" /\ pedido'[p].passo = "espera"
           ELSE chamada[p][i].passo # "espera" /\ chamada'[p][i].passo = "espera"
    PROVE  FilaBoa' /\ fila' \in Seq(Pedidos \X (0..2))
<1>. DEFINE e == <<p, i>>
<1>1. fila \in Seq(Pedidos \X (0..2)) /\ e \in Pedidos \X (0..2)
  BY DEF Inv, TypeOK, Calls
<1>2. fila' \in Seq(Pedidos \X (0..2))
  BY <1>1
<1>3. Len(fila') = Len(fila) + 1 /\ Len(fila) \in Nat
      /\ \A k \in 1..Len(fila) : fila'[k] = fila[k]
  BY <1>1
<1>4. fila'[Len(fila) + 1] = e
  BY <1>1
<1>5. ASSUME NEW k \in 1..Len(fila)
      PROVE  fila[k][1] \in Pedidos /\ fila[k][2] \in {0} \union Calls /\ fila[k] # e
  <2>1. fila[k] \in Pedidos \X (0..2)
    BY <1>1, <1>5
  <2>2. fila[k][1] \in Pedidos /\ fila[k][2] \in {0} \union Calls
    BY <2>1 DEF Calls
  <2>3. FilaBoa
    BY DEF Inv
  <2>4. ASSUME fila[k] = e PROVE FALSE
    <3>1. fila[k][1] = p /\ fila[k][2] = i
      BY <2>4
    <3>. QED BY <2>3, <3>1, <1>5 DEF FilaBoa
  <2>. QED BY <2>2, <2>4
<1>6. ASSUME NEW k \in 1..Len(fila')
      PROVE  IF fila'[k][2] = 0 THEN pedido'[fila'[k][1]].passo = "espera"
             ELSE chamada'[fila'[k][1]][fila'[k][2]].passo = "espera"
  <2>1. CASE k = Len(fila) + 1
    <3>1. fila'[k][1] = p /\ fila'[k][2] = i
      BY <2>1, <1>4
    <3>. QED BY <3>1
  <2>2. CASE k \in 1..Len(fila)
    <3>1. fila'[k] = fila[k] /\ fila[k][1] \in Pedidos /\ fila[k][2] \in {0} \union Calls
      BY <2>2, <1>3, <1>5
    <3>2. IF fila[k][2] = 0 THEN pedido[fila[k][1]].passo = "espera"
          ELSE chamada[fila[k][1]][fila[k][2]].passo = "espera"
      BY <2>2 DEF Inv, FilaBoa
    <3>. QED BY <3>1, <3>2
  <2>. QED BY <1>3, <2>1, <2>2
<1>7. ASSUME NEW k \in 1..Len(fila'), NEW l \in 1..Len(fila'), fila'[k] = fila'[l]
      PROVE  k = l
  <2>1. CASE k \in 1..Len(fila) /\ l \in 1..Len(fila)
    BY <1>3, <1>7, <2>1 DEF Inv, FilaBoa
  <2>2. CASE k = Len(fila) + 1 /\ l \in 1..Len(fila)
    BY <1>3, <1>4, <1>5, <1>7, <2>2
  <2>3. CASE k \in 1..Len(fila) /\ l = Len(fila) + 1
    BY <1>3, <1>4, <1>5, <1>7, <2>3
  <2>. QED BY <1>3, <2>1, <2>2, <2>3
<1>. QED BY <1>2, <1>6, <1>7 DEF FilaBoa

-----------------------------------------------------------------------------
(* The steps of the code of a request.                                     *)

LEMMA AninharInv == ASSUME Inv, NEW p \in Pedidos, Aninhar(p) PROVE Inv'
<1>1. /\ pedido[p].passo = "codigo" /\ Parado(p) /\ pedido[p].resta > 0
      /\ EmUnidade(p) /\ pedido[p].fundo < MaxFundo
      /\ UNCHANGED <<banco, perdidas, conexao, fila, chamada, quedas>> /\ consulta' = Nulo
  BY DEF Aninhar, TransacaoDaUnidade, EmUnidade
<1>2. pedido' = [pedido EXCEPT ![p] =
         [pedido[p] EXCEPT !.fundo = pedido[p].fundo + 1, !.resta = pedido[p].resta - 1]]
  BY DEF Aninhar, Inv, TypeOK
<1>3. pedido \in [Pedidos -> Pedido] /\ pedido[p] \in Pedido
  BY DEF Inv, TypeOK
<1>4. /\ pedido'[p].resta = pedido[p].resta - 1 /\ pedido'[p].unidade = pedido[p].unidade
      /\ pedido'[p].em = pedido[p].em /\ pedido'[p].passo = pedido[p].passo
      /\ pedido'[p].empresa = pedido[p].empresa /\ pedido'[p].fixado = pedido[p].fixado
      /\ pedido'[p].resposta = pedido[p].resposta
      /\ \A q \in Pedidos \ {p} : pedido'[q] = pedido[q]
  BY <1>2, <1>3 DEF Pedido
<1>5. pedido' \in [Pedidos -> Pedido]
  <2>1. pedido[p].fundo + 1 \in 0..MaxFundo /\ pedido[p].resta - 1 \in Passos \union {0}
    BY <1>1, <1>3, Resta, UnidadeAssumption DEF UnidadeAssumption, Pedido
  <2>2. [pedido[p] EXCEPT !.fundo = pedido[p].fundo + 1, !.resta = pedido[p].resta - 1] \in Pedido
    BY <1>3, <2>1 DEF Pedido
  <2>. QED BY <1>2, <1>3, <2>2
<1>6. TypeOK'
  BY <1>1, <1>5 DEF Inv, TypeOK
<1>7. FilaBoa'
  <2>1. \A q \in Pedidos : pedido'[q].passo = pedido[q].passo
    BY <1>4
  <2>. QED BY <1>1, <2>1, FilaMantida
<1>8. UnidadeBoa(p) /\ LinhasBoas(p) /\ pedido[p].resta \in Nat /\ pedido[p].unidade \in Nat
      /\ MaxPassos[p] \in Nat
  BY Tipos, DosPassos DEF Inv, Bom
<1>9. UnidadeBoa(p)'
  BY <1>1, <1>4, <1>8 DEF UnidadeBoa, ComUnidade, EmUnidade, Parado
<1>10. LinhasBoas(p)'
  <2>1. \A l \in Todas : l.n \in Nat
    BY DasLinhas
  <2>. QED BY <1>1, <1>4, <1>8, <2>1 DEF LinhasBoas, ComUnidade, EmUnidade, Todas, NaoEscrita
<1>. QED BY <1>1, <1>4, <1>6, <1>7, <1>8, <1>9, <1>10, PassoDoCodigo

LEMMA AbrirUnidadeInv == ASSUME Inv, NEW p \in Pedidos, AbrirUnidade(p) PROVE Inv'
<1>1. /\ pedido[p].passo = "codigo" /\ Parado(p) /\ pedido[p].resta > 0 /\ ~EmUnidade(p)
      /\ UNCHANGED <<banco, perdidas, conexao, chamada, quedas>> /\ consulta' = Nulo
      /\ fila' = Append(fila, <<p, 0>>)
  BY DEF AbrirUnidade
<1>2. pedido' = [pedido EXCEPT ![p] = [pedido[p] EXCEPT !.passo = "espera",
                     !.unidade = pedido[p].resta, !.resta = pedido[p].resta - 1]]
  BY DEF AbrirUnidade, Inv, TypeOK
<1>3. pedido \in [Pedidos -> Pedido] /\ pedido[p] \in Pedido
  BY DEF Inv, TypeOK
<1>4. /\ pedido'[p].resta = pedido[p].resta - 1 /\ pedido'[p].unidade = pedido[p].resta
      /\ pedido'[p].em = pedido[p].em /\ pedido'[p].passo = "espera"
      /\ pedido'[p].empresa = pedido[p].empresa /\ pedido'[p].fixado = pedido[p].fixado
      /\ pedido'[p].resposta = pedido[p].resposta /\ pedido'[p].fundo = pedido[p].fundo
      /\ \A q \in Pedidos \ {p} : pedido'[q] = pedido[q]
  BY <1>2, <1>3 DEF Pedido
<1>5. pedido' \in [Pedidos -> Pedido]
  <2>1. pedido[p].resta \in Passos \union {0} /\ pedido[p].resta - 1 \in Passos \union {0}
    BY <1>1, Resta
  <2>2. [pedido[p] EXCEPT !.passo = "espera", !.unidade = pedido[p].resta,
                          !.resta = pedido[p].resta - 1] \in Pedido
    BY <1>3, <2>1 DEF Pedido
  <2>. QED BY <1>2, <1>3, <2>2
<1>6. FilaBoa' /\ fila' \in Seq(Pedidos \X (0..2))
  <2>1. \A q \in Pedidos : pedido[q].passo = "espera" => pedido'[q].passo = "espera"
    BY <1>4
  <2>. QED BY <1>1, <1>4, <2>1, FilaCresce
<1>7. TypeOK'
  BY <1>1, <1>5, <1>6 DEF Inv, TypeOK
<1>8. UnidadeBoa(p) /\ LinhasBoas(p) /\ pedido[p].resta \in Nat /\ pedido[p].unidade \in Nat
      /\ MaxPassos[p] \in Nat
  BY Tipos, DosPassos DEF Inv, Bom
<1>9. UnidadeBoa(p)'
  BY <1>1, <1>4, <1>8 DEF UnidadeBoa, ComUnidade, EmUnidade, Parado
<1>10. LinhasBoas(p)'
  <2>1. \A l \in Todas : l.n \in Nat /\ l.unidade \in Nat /\ l.n <= l.unidade
    BY DasLinhas
  <2>. QED BY <1>1, <1>4, <1>8, <2>1 DEF LinhasBoas, ComUnidade, EmUnidade, Todas, NaoEscrita
<1>. QED BY <1>1, <1>4, <1>6, <1>7, <1>8, <1>9, <1>10, PassoDoCodigo

LEMMA FecharAninhadaInv == ASSUME Inv, NEW p \in Pedidos, FecharAninhada(p) PROVE Inv'
<1>1. /\ pedido[p].passo = "codigo" /\ Parado(p) /\ pedido[p].fundo > 1
      /\ UNCHANGED <<banco, perdidas, conexao, fila, chamada, quedas>> /\ consulta' = Nulo
      /\ EmUnidade(p)
  BY FundoDentro DEF FecharAninhada, Inv, TypeOK, Pedido
<1>2. pedido' = [pedido EXCEPT ![p] = [pedido[p] EXCEPT !.fundo = pedido[p].fundo - 1]]
  BY DEF FecharAninhada, Inv, TypeOK
<1>3. pedido \in [Pedidos -> Pedido] /\ pedido[p] \in Pedido
  BY DEF Inv, TypeOK
<1>4. /\ pedido'[p].resta = pedido[p].resta /\ pedido'[p].unidade = pedido[p].unidade
      /\ pedido'[p].em = pedido[p].em /\ pedido'[p].passo = pedido[p].passo
      /\ pedido'[p].empresa = pedido[p].empresa /\ pedido'[p].fixado = pedido[p].fixado
      /\ pedido'[p].resposta = pedido[p].resposta
      /\ \A q \in Pedidos \ {p} : pedido'[q] = pedido[q]
  BY <1>2, <1>3 DEF Pedido
<1>5. pedido' \in [Pedidos -> Pedido]
  <2>1. pedido[p].fundo - 1 \in 0..MaxFundo
    BY <1>1, <1>3, UnidadeAssumption DEF UnidadeAssumption, Pedido
  <2>2. [pedido[p] EXCEPT !.fundo = pedido[p].fundo - 1] \in Pedido
    BY <1>3, <2>1 DEF Pedido
  <2>. QED BY <1>2, <1>3, <2>2
<1>6. TypeOK'
  BY <1>1, <1>5 DEF Inv, TypeOK
<1>7. FilaBoa'
  <2>1. \A q \in Pedidos : pedido'[q].passo = pedido[q].passo
    BY <1>4
  <2>. QED BY <1>1, <2>1, FilaMantida
<1>8. UnidadeBoa(p) /\ LinhasBoas(p) /\ pedido[p].resta \in Nat
  BY Tipos DEF Inv, Bom
<1>9. UnidadeBoa(p)'
  BY <1>1, <1>4, <1>8 DEF UnidadeBoa, ComUnidade, EmUnidade, Parado
<1>10. LinhasBoas(p)'
  BY <1>1, <1>4, <1>8 DEF LinhasBoas, ComUnidade, EmUnidade, Todas, NaoEscrita
<1>. QED BY <1>1, <1>4, <1>6, <1>7, <1>8, <1>9, <1>10, PassoDoCodigo

LEMMA ConcluirInv == ASSUME Inv, NEW p \in Pedidos, Concluir(p) PROVE Inv'
<1>1. /\ pedido[p].passo = "codigo" /\ Parado(p) /\ ~EmUnidade(p)
      /\ UNCHANGED <<banco, perdidas, conexao, fila, chamada, quedas>> /\ consulta' = Nulo
  BY DEF Concluir
<1>2. pedido' = [pedido EXCEPT ![p] = [pedido[p] EXCEPT !.passo = "fim", !.resposta = "ok"]]
  BY DEF Concluir, Inv, TypeOK
<1>3. pedido \in [Pedidos -> Pedido] /\ pedido[p] \in Pedido
  BY DEF Inv, TypeOK
<1>4. /\ pedido'[p].resta = pedido[p].resta /\ pedido'[p].unidade = pedido[p].unidade
      /\ pedido'[p].em = pedido[p].em /\ pedido'[p].passo = "fim"
      /\ pedido'[p].empresa = pedido[p].empresa /\ pedido'[p].fixado = pedido[p].fixado
      /\ pedido'[p].fundo = pedido[p].fundo
      /\ \A q \in Pedidos \ {p} : pedido'[q] = pedido[q]
  BY <1>2, <1>3 DEF Pedido
<1>5. pedido' \in [Pedidos -> Pedido]
  BY <1>2, <1>3 DEF Pedido
<1>6. TypeOK'
  BY <1>1, <1>5 DEF Inv, TypeOK
<1>7. FilaBoa'
  <2>1. \A q \in Pedidos : pedido[q].passo = "espera" => pedido'[q].passo = "espera"
    BY <1>1, <1>4
  <2>. QED BY <1>1, <2>1, FilaMantida
<1>8. UnidadeBoa(p) /\ LinhasBoas(p) /\ pedido[p].resta \in Nat
  BY Tipos DEF Inv, Bom
<1>9. UnidadeBoa(p)'
  BY <1>1, <1>4, <1>8 DEF UnidadeBoa, ComUnidade, EmUnidade, Parado
<1>10. LinhasBoas(p)'
  BY <1>1, <1>4, <1>8 DEF LinhasBoas, ComUnidade, EmUnidade, Todas, NaoEscrita
<1>. QED BY <1>1, <1>4, <1>6, <1>7, <1>8, <1>9, <1>10, PassoDoCodigo

\* A call the step leaves alone, with its transaction, is as it was.
LEMMA ChamadaIntacta ==
    ASSUME Inv, NEW p \in Pedidos, NEW j \in Calls, chamada'[p][j] = chamada[p][j],
           pedido'[p].resta \in Nat, pedido'[p].resta <= pedido[p].resta,
           pedido'[p].em = pedido[p].em,
           EmUnidade(p) => /\ pedido'[p].empresa = pedido[p].empresa
                           /\ pedido'[p].unidade = pedido[p].unidade,
           chamada[p][j].passo # "livre" /\ chamada[p][j].grava =>
              \A k \in Calls \ {j} : chamada'[p][k].passo = "livre",
           chamada[p][j].passo \in Abertas =>
              /\ conexao'[chamada[p][j].em] = conexao[chamada[p][j].em]
              /\ \A k \in Calls \ {j} :
                    chamada'[p][k].passo \in Abertas => chamada'[p][k].em # chamada[p][j].em
    PROVE  ChamadaBoa(p, j)'
<1>. DEFINE ch == chamada[p][j]
<1>1. ChamadaBoa(p, j) /\ pedido[p].resta \in Nat
  BY Tipos DEF Inv, Bom
<1>2. ch.passo # "livre" =>
        /\ ch.empresa \in Empresas /\ ch.linha \in Linha
        /\ ch.linha.pedido = p /\ ch.linha.n > pedido'[p].resta
        /\ ch.grava => \A k \in Calls \ {j} : chamada'[p][k].passo = "livre"
  <2>1. \A l \in Linha : l.n \in Nat
    BY DaLinha
  <2>. QED BY <1>1, <2>1 DEF ChamadaBoa
<1>3. EmUnidade(p)' <=> EmUnidade(p)
  BY DEF EmUnidade
<1>4. ch.passo = "fixando" =>
        /\ EmUnidade(p)' /\ ch.em = pedido'[p].em
        /\ ch.empresa = pedido'[p].empresa /\ ch.linha.unidade = pedido'[p].unidade
  BY <1>1, <1>3 DEF ChamadaBoa
<1>5. ch.passo \in {"espera"} \union Abertas => ~EmUnidade(p)' /\ ch.linha.unidade = ch.linha.n
  BY <1>1, <1>3 DEF ChamadaBoa
<1>6. ch.passo \in Abertas =>
        /\ ch.em # Nulo
        /\ conexao'[ch.em].dono = p /\ conexao'[ch.em].empresa = ch.empresa
        /\ ch.comUsuario => conexao'[ch.em].usuario = p
        /\ conexao'[ch.em].linhas = IF ch.grava /\ ch.passo = "confirmando" THEN {ch.linha} ELSE {}
  BY <1>1 DEF ChamadaBoa
<1>. QED BY <1>2, <1>4, <1>5, <1>6 DEF ChamadaBoa, Abertas

-----------------------------------------------------------------------------
(* The end of a unit of work, and of a lone call.                          *)

\* Connection c is given back, committed or undone: everything there was still is.
LEMMA Devolvida ==
    ASSUME Inv, NEW c \in Conexoes, Devolver(c), Efetivada(c) \/ Desfeita(c)
    PROVE  /\ conexao' \in [Conexoes -> Conexao]
           /\ conexao'[c] = SemTransacao /\ conexao'[c].dono = Nulo /\ conexao'[c].linhas = {}
           /\ \A d \in Conexoes \ {c} : conexao'[d] = conexao[d]
           /\ banco' \subseteq Linha /\ perdidas' \subseteq Linha
           /\ Todas' \subseteq Todas
           /\ banco' \union perdidas' \subseteq banco \union perdidas \union conexao[c].linhas
           /\ perdidas' \subseteq perdidas \union conexao[c].linhas
<1>1. conexao \in [Conexoes -> Conexao] /\ conexao[c].linhas \subseteq Linha
      /\ banco \subseteq Linha /\ perdidas \subseteq Linha
  BY DEF Inv, TypeOK, Conexao
<1>2. SemTransacao \in Conexao /\ SemTransacao.dono = Nulo /\ SemTransacao.linhas = {}
  BY DEF SemTransacao, Conexao
<1>3. conexao' = [conexao EXCEPT ![c] = SemTransacao]
  BY DEF Devolver
<1>. HIDE DEF SemTransacao
<1>4. /\ conexao' \in [Conexoes -> Conexao]
      /\ conexao'[c] = SemTransacao /\ \A d \in Conexoes \ {c} : conexao'[d] = conexao[d]
  BY <1>1, <1>2, <1>3
<1>5. /\ banco' \union perdidas' \subseteq banco \union perdidas \union conexao[c].linhas
      /\ banco' \subseteq Linha /\ perdidas' \subseteq Linha
      /\ perdidas' \subseteq perdidas \union conexao[c].linhas
  BY <1>1 DEF Efetivada, Desfeita
<1>6. Todas' \subseteq Todas
  <2>1. \A d \in Conexoes : conexao'[d].linhas \subseteq conexao[d].linhas
    BY <1>2, <1>4
  <2>. QED BY <1>5, <2>1 DEF Todas
<1>. QED BY <1>2, <1>4, <1>5, <1>6

\* p leaves its unit.  If the transaction may not have been stored, p has failed.
LEMMA FimDaUnidade ==
    ASSUME Inv, NEW p \in Pedidos, EmUnidade(p), Devolver(pedido[p].em),
           NEW passo \in {"codigo", "erro", "fim"}, NEW resposta \in {"nenhuma", "ok", "erro"},
           pedido' = [pedido EXCEPT ![p] = [ForaDaUnidade(p) EXCEPT !.passo = passo,
                                                                    !.resposta = resposta]],
           passo # "fim" => resposta = pedido[p].resposta,
           \/ Efetivada(pedido[p].em)
           \/ Desfeita(pedido[p].em) /\ passo \in {"erro", "fim"},
           chamada' \in [Pedidos -> [Calls -> Chamada]],
           \A q \in Pedidos \ {p} : chamada'[q] = chamada[q],
           \A i \in Calls : chamada'[p][i].passo = "livre",
           UNCHANGED <<fila, quedas>>, consulta' = Nulo
    PROVE  Inv'
<1>1. PICK c \in Conexoes : c = pedido[p].em
  BY Tipos DEF Inv, EmUnidade
<1>2. /\ pedido'[p].em = Nulo /\ pedido'[p].fixado = FALSE /\ pedido'[p].fundo = 0
      /\ pedido'[p].resta = pedido[p].resta
      /\ pedido'[p].passo = passo /\ pedido'[p].resposta = resposta
      /\ \A q \in Pedidos \ {p} : pedido'[q] = pedido[q]
      /\ pedido' \in [Pedidos -> Pedido]
  <2>1. pedido \in [Pedidos -> Pedido] /\ pedido[p] \in Pedido
    BY DEF Inv, TypeOK
  <2>2. 0 \in 0..MaxFundo
    BY UnidadeAssumption DEF UnidadeAssumption
  <2>3. [ForaDaUnidade(p) EXCEPT !.passo = passo, !.resposta = resposta] \in Pedido
    BY <2>1, <2>2 DEF Pedido, ForaDaUnidade
  <2>4. LET r == [ForaDaUnidade(p) EXCEPT !.passo = passo, !.resposta = resposta]
        IN  /\ r.em = Nulo /\ r.fixado = FALSE /\ r.fundo = 0 /\ r.resta = pedido[p].resta
            /\ r.passo = passo /\ r.resposta = resposta
    BY <2>1 DEF Pedido, ForaDaUnidade
  <2>. HIDE DEF ForaDaUnidade
  <2>. QED BY <2>1, <2>3, <2>4
<1>3. UnidadeBoa(p) /\ LinhasBoas(p) /\ \A i \in Calls : ChamadaBoa(p, i)
  BY DEF Inv, Bom
<1>4. \A i \in Calls : chamada[p][i].passo \in {"livre", "fixando"}
  <2>1. \A i \in Calls : chamada[p][i] \in Chamada
    BY Tipos DEF Inv
  <2>. SUFFICES ASSUME NEW i \in Calls PROVE chamada[p][i].passo \in {"livre", "fixando"}
    OBVIOUS
  <2>2. ChamadaBoa(p, i) /\ chamada[p][i] \in Chamada
    BY <1>3, <2>1
  <2>. QED BY <2>2 DEF ChamadaBoa, Chamada, Abertas
<1>5. conexao[c].dono = p /\ pedido[p].passo = "codigo" /\ \A l \in conexao[c].linhas : l.pedido = p
  BY <1>1, <1>3 DEF UnidadeBoa
<1>6. Devolver(c) /\ (Efetivada(c) \/ (Desfeita(c) /\ passo \in {"erro", "fim"}))
  BY <1>1
<1>7. Efetivada(c) \/ Desfeita(c)
  BY <1>6
<1>8. TypeOK'
  BY <1>1, <1>2, <1>6, <1>7, Devolvida DEF Inv, TypeOK
<1>9. FilaBoa'
  <2>1. \A q \in Pedidos : pedido[q].passo = "espera" => pedido'[q].passo = "espera"
    BY <1>2, <1>5
  <2>2. \A q \in Pedidos : \A i \in Calls :
          chamada[q][i].passo = "espera" => chamada'[q][i].passo = "espera"
    BY <1>4
  <2>. QED BY <2>1, <2>2, FilaMantida
<1>10. UnidadeBoa(p)'
  BY <1>2, <1>3, <1>5 DEF UnidadeBoa, ComUnidade, EmUnidade
<1>11. LinhasBoas(p)'
  <2>1. Todas' \subseteq Todas
    BY <1>1, <1>6, <1>7, Devolvida
  <2>2. \A l \in Todas' : l.pedido = p => l.n > pedido'[p].resta
    BY <1>2, <1>3, <2>1 DEF LinhasBoas
  <2>3. \A i \in Calls : ~NaoEscrita(chamada'[p][i])
    BY DEF NaoEscrita
  <2>4. ~ComUnidade(p)'
    BY <1>2 DEF ComUnidade, EmUnidade
  <2>5. \A l \in perdidas' : l.pedido = p => passo \in {"erro", "fim"}
    <3>1. CASE Efetivada(c)
      BY <1>3, <1>5, <3>1 DEF LinhasBoas, Efetivada
    <3>. QED BY <1>6, <3>1
  <2>. QED BY <2>2, <2>3, <2>4, <1>2, <2>5 DEF LinhasBoas
<1>12. \A i \in Calls : ChamadaBoa(p, i)'
  BY DEF ChamadaBoa, Abertas
<1>13. ASSUME NEW d \in Conexoes \ {c} PROVE conexao'[d] = conexao[d] /\ conexao[d].dono # p
  <2>1. conexao'[d] = conexao[d]
    BY <1>1, <1>6, <1>7, Devolvida
  <2>2. ConexaoBoa(d)
    BY DEF Inv
  <2>3. ASSUME conexao[d].dono = p PROVE FALSE
    <3>1. pedido[p].em = d \/ \E i \in Calls : chamada[p][i].passo \in Abertas
      BY <2>2, <2>3, Tipos DEF ConexaoBoa, Inv
    <3>. QED BY <1>1, <1>4, <3>1 DEF Abertas
  <2>. QED BY <2>1, <2>3
<1>14. ConexaoBoa(c)'
  <2>1. conexao'[c].dono = Nulo /\ conexao'[c].linhas = {}
    BY <1>6, <1>7, Devolvida
  <2>. QED BY <2>1 DEF ConexaoBoa
<1>15. \A d \in Conexoes : conexao'[d].linhas \subseteq conexao[d].linhas
  BY <1>1, <1>6, <1>7, <1>13, Devolvida
<1>16. conexao[c].linhas \subseteq {l \in Linha : l.pedido = p} /\ conexao[c].linhas \subseteq Todas
  BY <1>1, <1>5, Donas
<1>17. banco' \union perdidas' \subseteq Todas
  BY <1>1, <1>6, <1>7, <1>16, Devolvida DEF Todas
<1>18. /\ perdidas' \subseteq perdidas \union {l \in Linha : l.pedido = p}
       /\ banco' \union perdidas' \subseteq banco \union perdidas
                                               \union {l \in Linha : l.pedido = p}
  BY <1>1, <1>6, <1>7, <1>16, Devolvida
<1>19. Bom(p)' /\ EscopoDaConsulta'
  BY <1>10, <1>11, <1>12 DEF Bom, EscopoDaConsulta
<1>20. \A q \in Pedidos \ {p} : pedido'[q] = pedido[q] /\ chamada'[q] = chamada[q]
  BY <1>2
<1>21. \A d \in Conexoes :
          \/ conexao'[d] = conexao[d] /\ conexao[d].dono # p
          \/ conexao[d].dono \in {p, Nulo} /\ ConexaoBoa(d)'
  BY <1>5, <1>13, <1>14
<1>. QED BY <1>8, <1>9, <1>15, <1>17, <1>18, <1>19, <1>20, <1>21, Passo

LEMMA FecharUnidadeInv == ASSUME Inv, NEW p \in Pedidos, FecharUnidade(p) PROVE Inv'
<1>1. pedido[p] \in Pedido /\ pedido[p].passo = "codigo" /\ Parado(p) /\ pedido[p].fundo = 1
  BY DEF FecharUnidade, Inv, TypeOK
<1>. DEFINE resposta == pedido[p].resposta
<1>2. EmUnidade(p)
  BY <1>1, FundoDentro
<1>3. pedido' = [pedido EXCEPT ![p] = [ForaDaUnidade(p) EXCEPT !.passo = "codigo",
                                                               !.resposta = resposta]]
  <2>1. ForaDaUnidade(p) = [ForaDaUnidade(p) EXCEPT !.passo = "codigo", !.resposta = resposta]
    BY <1>1 DEF ForaDaUnidade, Pedido
  <2>. QED BY <2>1 DEF FecharUnidade
<1>4. /\ chamada' \in [Pedidos -> [Calls -> Chamada]]
      /\ \A i \in Calls : chamada'[p][i].passo = "livre"
  BY <1>1 DEF FecharUnidade, Inv, TypeOK, Parado
<1>5. /\ UNCHANGED <<fila, quedas>> /\ consulta' = Nulo
      /\ \A q \in Pedidos \ {p} : chamada'[q] = chamada[q]
      /\ Devolver(pedido[p].em) /\ Efetivada(pedido[p].em)
  BY DEF FecharUnidade
<1>6. resposta \in {"nenhuma", "ok", "erro"} /\ resposta = pedido[p].resposta
  BY <1>1 DEF Pedido
<1>. HIDE DEF resposta
<1>. QED BY <1>2, <1>3, <1>4, <1>5, <1>6, FimDaUnidade

LEMMA FalharAoFecharInv == ASSUME Inv, NEW p \in Pedidos, FalharAoFechar(p) PROVE Inv'
<1>1. pedido[p] \in Pedido /\ pedido[p].passo = "codigo" /\ Parado(p) /\ pedido[p].fundo = 1
  BY DEF FalharAoFechar, Inv, TypeOK
<1>. DEFINE resposta == pedido[p].resposta
<1>2. EmUnidade(p)
  BY <1>1, FundoDentro
<1>3. pedido' = [pedido EXCEPT ![p] = [ForaDaUnidade(p) EXCEPT !.passo = "erro",
                                                               !.resposta = resposta]]
  <2>1. [ForaDaUnidade(p) EXCEPT !.passo = "erro"]
            = [ForaDaUnidade(p) EXCEPT !.passo = "erro", !.resposta = resposta]
    BY <1>1 DEF ForaDaUnidade, Pedido
  <2>. QED BY <2>1 DEF FalharAoFechar
<1>4. /\ chamada' \in [Pedidos -> [Calls -> Chamada]]
      /\ \A i \in Calls : chamada'[p][i].passo = "livre"
  BY <1>1 DEF FalharAoFechar, Inv, TypeOK, Parado
<1>5. /\ UNCHANGED <<fila, quedas>> /\ consulta' = Nulo
      /\ \A q \in Pedidos \ {p} : chamada'[q] = chamada[q]
      /\ Devolver(pedido[p].em) /\ (Efetivada(pedido[p].em) \/ Desfeita(pedido[p].em))
  BY DEF FalharAoFechar
<1>6. resposta \in {"nenhuma", "ok", "erro"} /\ resposta = pedido[p].resposta
  BY <1>1 DEF Pedido
<1>. HIDE DEF resposta
<1>. QED BY <1>2, <1>3, <1>4, <1>5, <1>6, FimDaUnidade

LEMMA LancarInv == ASSUME Inv, NEW p \in Pedidos, Lancar(p) PROVE Inv'
<1>1. pedido \in [Pedidos -> Pedido] /\ pedido[p] \in Pedido
      /\ chamada \in [Pedidos -> [Calls -> Chamada]]
  BY DEF Inv, TypeOK
<1>2. pedido' = [pedido EXCEPT ![p] = [ForaDaUnidade(p) EXCEPT !.passo = "fim",
                                                               !.resposta = "erro"]]
      /\ UNCHANGED <<fila, quedas>> /\ consulta' = Nulo
      /\ pedido[p].passo \in {"codigo", "erro"}
  BY DEF Lancar
<1>3. CASE EmUnidade(p)
  <2>1. /\ chamada' = [chamada EXCEPT ![p] = [i \in Calls |-> SemChamada]]
        /\ Desfeita(pedido[p].em) /\ Devolver(pedido[p].em)
    BY <1>3 DEF Lancar
  <2>2. SemChamada \in Chamada /\ SemChamada.passo = "livre"
    BY DEF SemChamada, Chamada
  <2>. HIDE DEF SemChamada
  <2>3. /\ chamada' \in [Pedidos -> [Calls -> Chamada]]
        /\ \A i \in Calls : chamada'[p][i].passo = "livre"
        /\ \A q \in Pedidos \ {p} : chamada'[q] = chamada[q]
    BY <1>1, <2>1, <2>2
  <2>. QED BY <1>2, <1>3, <2>1, <2>3, FimDaUnidade
<1>4. CASE ~EmUnidade(p)
  <2>1. UNCHANGED <<banco, perdidas, conexao, chamada>> /\ pedido[p].em = Nulo
    BY <1>4 DEF Lancar, EmUnidade
  <2>2. /\ pedido'[p].em = Nulo /\ pedido'[p].fixado = FALSE /\ pedido'[p].fundo = 0
        /\ pedido'[p].passo = "fim" /\ pedido'[p].resta = pedido[p].resta
        /\ \A q \in Pedidos \ {p} : pedido'[q] = pedido[q]
        /\ pedido' \in [Pedidos -> Pedido]
    <3>1. 0 \in 0..MaxFundo
      BY UnidadeAssumption DEF UnidadeAssumption
    <3>2. LET r == [ForaDaUnidade(p) EXCEPT !.passo = "fim", !.resposta = "erro"]
          IN  /\ r \in Pedido /\ r.em = Nulo /\ r.fixado = FALSE /\ r.fundo = 0 /\ r.passo = "fim"
              /\ r.resta = pedido[p].resta
      BY <1>1, <3>1 DEF Pedido, ForaDaUnidade
    <3>. HIDE DEF ForaDaUnidade
    <3>. QED BY <1>1, <1>2, <3>2
  <2>3. TypeOK' /\ EscopoDaConsulta'
    BY <1>2, <2>1, <2>2 DEF Inv, TypeOK, EscopoDaConsulta
  <2>4. FilaBoa'
    <3>1. \A q \in Pedidos : pedido[q].passo = "espera" => pedido'[q].passo = "espera"
      BY <1>2, <2>2
    <3>. QED BY <1>2, <2>1, <3>1, FilaMantida
  <2>5. UnidadeBoa(p) /\ LinhasBoas(p) /\ \A i \in Calls : ChamadaBoa(p, i)
    BY DEF Inv, Bom
  <2>6. UnidadeBoa(p)'
    BY <2>2, <2>5 DEF UnidadeBoa, ComUnidade, EmUnidade
  <2>7. LinhasBoas(p)'
    BY <2>1, <2>2, <2>5 DEF LinhasBoas, ComUnidade, EmUnidade, Todas, NaoEscrita
  <2>8. ASSUME NEW i \in Calls PROVE ChamadaBoa(p, i)'
    <3>1. ChamadaBoa(p, i)
      BY <2>5
    <3>2. chamada[p][i].passo # "fixando"
      BY <1>4, <3>1 DEF ChamadaBoa
    <3>. QED BY <2>1, <2>2, <3>1, <3>2 DEF ChamadaBoa, EmUnidade, Abertas
  <2>9. \A c \in Conexoes : ConexaoBoa(c) /\ conexao'[c] = conexao[c]
    BY <2>1 DEF Inv
  <2>10. \A c \in Conexoes : conexao[c].dono = p => ConexaoBoa(c)'
    BY <2>1, <2>2, <2>9 DEF ConexaoBoa
  <2>11. banco' \union perdidas' \subseteq Todas
    BY <2>1 DEF Todas
  <2>12. Bom(p)'
    BY <2>6, <2>7, <2>8 DEF Bom
  <2>. QED BY <2>1, <2>2, <2>3, <2>4, <2>9, <2>10, <2>11, <2>12, Passo
<1>. QED BY <1>3, <1>4

\* A call that ran alone ends, and with it its transaction.
LEMMA FimDaChamada ==
    ASSUME Inv, NEW p \in Pedidos, NEW i \in Calls, chamada[p][i].passo \in Abertas,
           Devolver(chamada[p][i].em),
           NEW passo \in {"codigo", "erro", "fim", "espera"},
           passo = pedido[p].passo \/ (pedido[p].passo = "codigo" /\ passo = "erro"),
           pedido' = [pedido EXCEPT ![p].passo = passo],
           \/ Efetivada(chamada[p][i].em)
           \/ Desfeita(chamada[p][i].em) /\ passo # "codigo",
           chamada' = [chamada EXCEPT ![p][i] = SemChamada],
           UNCHANGED <<fila, quedas>>, consulta' = Nulo
    PROVE  Inv'
<1>1. UnidadeBoa(p) /\ LinhasBoas(p) /\ \A j \in Calls : ChamadaBoa(p, j)
  BY DEF Inv, Bom
<1>2. chamada[p][i].em \in Conexoes /\ ~EmUnidade(p) /\ pedido[p].passo # "espera"
  <2>1. chamada[p][i].em # Nulo /\ ~EmUnidade(p) /\ ~Parado(p)
    BY <1>1 DEF ChamadaBoa, Parado, Abertas
  <2>. QED BY <1>1, <2>1, Tipos DEF Inv, UnidadeBoa
<1>3. PICK c \in Conexoes : c = chamada[p][i].em
  BY <1>2
<1>4. /\ pedido'[p].em = Nulo /\ pedido'[p].fixado = pedido[p].fixado
      /\ pedido'[p].resta = pedido[p].resta /\ pedido'[p].passo = passo
      /\ pedido'[p].resposta = pedido[p].resposta /\ pedido'[p].fundo = pedido[p].fundo
      /\ \A q \in Pedidos \ {p} : pedido'[q] = pedido[q]
      /\ pedido' \in [Pedidos -> Pedido]
  <2>1. pedido \in [Pedidos -> Pedido] /\ pedido[p] \in Pedido /\ pedido[p].em = Nulo
    BY <1>2 DEF Inv, TypeOK, EmUnidade
  <2>. QED BY <2>1 DEF Pedido
<1>5. /\ chamada' \in [Pedidos -> [Calls -> Chamada]] /\ chamada'[p][i].passo = "livre"
      /\ chamada'[p][i].grava = FALSE
      /\ \A q \in Pedidos \ {p} : chamada'[q] = chamada[q]
      /\ \A j \in Calls \ {i} : chamada'[p][j] = chamada[p][j]
  <2>1. chamada \in [Pedidos -> [Calls -> Chamada]]
    BY DEF Inv, TypeOK
  <2>2. SemChamada \in Chamada /\ SemChamada.passo = "livre" /\ SemChamada.grava = FALSE
    BY DEF SemChamada, Chamada
  <2>. HIDE DEF SemChamada
  <2>. QED BY <2>1, <2>2
<1>6. /\ conexao[c].dono = p /\ conexao[c].linhas \subseteq {l \in Linha : l.pedido = p}
      /\ conexao[c].linhas \subseteq Todas
  <2>1. conexao[c].dono = p
    BY <1>1, <1>3 DEF ChamadaBoa
  <2>. QED BY <2>1, Donas
<1>7. Devolver(c) /\ (Efetivada(c) \/ (Desfeita(c) /\ passo # "codigo"))
  BY <1>3
<1>8. Efetivada(c) \/ Desfeita(c)
  BY <1>7
<1>9. TypeOK'
  BY <1>4, <1>5, <1>7, <1>8, Devolvida DEF Inv, TypeOK
<1>10. FilaBoa'
  <2>1. \A q \in Pedidos : pedido[q].passo = "espera" => pedido'[q].passo = "espera"
    BY <1>2, <1>4
  <2>2. \A q \in Pedidos : \A j \in Calls :
          chamada[q][j].passo = "espera" => chamada'[q][j].passo = "espera"
    BY <1>5 DEF Abertas
  <2>. QED BY <2>1, <2>2, FilaMantida
<1>11. UnidadeBoa(p)'
  BY <1>1, <1>2, <1>4 DEF UnidadeBoa, ComUnidade, EmUnidade
<1>12. LinhasBoas(p)'
  <2>1. Todas' \subseteq Todas
    BY <1>7, <1>8, Devolvida
  <2>2. \A j \in Calls : NaoEscrita(chamada'[p][j]) => NaoEscrita(chamada[p][j])
                                                      /\ chamada'[p][j] = chamada[p][j]
    BY <1>5 DEF NaoEscrita
  <2>3. ~ComUnidade(p)'
    BY <1>2, <1>4 DEF ComUnidade, EmUnidade
  <2>4. \A l \in perdidas' : l.pedido = p => passo \in {"erro", "fim"}
    <3>1. CASE Efetivada(c)
      BY <1>1, <3>1 DEF LinhasBoas, Efetivada
    <3>2. CASE Desfeita(c) /\ passo # "codigo"
      BY <1>2, <3>2
    <3>. QED BY <1>7, <3>1, <3>2
  <2>. QED BY <1>1, <1>4, <2>1, <2>2, <2>3, <2>4 DEF LinhasBoas
<1>13. ASSUME NEW d \in Conexoes \ {c}
       PROVE  conexao'[d] = conexao[d] /\ (conexao[d].dono = p => ConexaoBoa(d)')
  <2>1. conexao'[d] = conexao[d]
    BY <1>7, <1>8, Devolvida
  <2>2. ASSUME conexao[d].dono = p PROVE ConexaoBoa(d)'
    <3>1. pedido[p].em = d
          \/ \E j \in Calls : chamada[p][j].passo \in Abertas /\ chamada[p][j].em = d
      BY <2>2, Tipos DEF ConexaoBoa, Inv
    <3>2. PICK j \in Calls \ {i} : chamada[p][j].passo \in Abertas /\ chamada[p][j].em = d
      BY <1>2, <1>3, <3>1, UnidadeAssumption DEF EmUnidade, UnidadeAssumption
    <3>. QED BY <1>5, <2>1, <2>2, <3>2, Tipos DEF ConexaoBoa, Inv
  <2>. QED BY <2>1, <2>2
<1>14. ASSUME NEW j \in Calls PROVE ChamadaBoa(p, j)'
  <2>1. CASE j = i
    BY <1>5, <2>1 DEF ChamadaBoa, Abertas
  <2>2. CASE j # i
    <3>1. chamada[p][j].passo \in Abertas =>
             chamada[p][j].em \in Conexoes /\ conexao'[chamada[p][j].em] = conexao[chamada[p][j].em]
      <4>1. chamada[p][j].passo \in Abertas =>
               chamada[p][j].em # Nulo /\ chamada[p][j].em # chamada[p][i].em
        BY <1>1, <2>2 DEF ChamadaBoa
      <4>2. chamada[p][j].em \in Conexoes \union {Nulo}
        BY Tipos DEF Inv
      <4>. QED BY <1>3, <1>13, <4>1, <4>2
    <3>2. \A k \in Calls : chamada'[p][k] = chamada[p][k] \/ chamada'[p][k].passo = "livre"
      BY <1>5
    <3>3. /\ chamada[p][j].passo # "livre" /\ chamada[p][j].grava =>
                \A k \in Calls \ {j} : chamada'[p][k].passo = "livre"
          /\ chamada[p][j].passo \in Abertas => \A k \in Calls \ {j} :
                chamada'[p][k].passo \in Abertas => chamada'[p][k].em # chamada[p][j].em
      <4>1. ChamadaBoa(p, j)
        BY <1>1
      <4>. QED BY <3>2, <4>1 DEF ChamadaBoa, Abertas
    <3>4. pedido'[p].em = pedido[p].em /\ chamada'[p][j] = chamada[p][j]
          /\ pedido[p].resta \in Nat
      BY <1>2, <1>4, <1>5, <2>2, Tipos DEF EmUnidade, Inv
    <3>. QED BY <1>2, <1>4, <3>1, <3>3, <3>4, ChamadaIntacta
  <2>. QED BY <2>1, <2>2
<1>15. ConexaoBoa(c)' /\ conexao'[c].linhas = {}
  <2>1. conexao'[c].dono = Nulo /\ conexao'[c].linhas = {}
    BY <1>7, <1>8, Devolvida
  <2>. QED BY <2>1 DEF ConexaoBoa
<1>16. \A d \in Conexoes : conexao'[d].linhas \subseteq conexao[d].linhas
  BY <1>13, <1>15
<1>17. /\ banco' \union perdidas' \subseteq Todas
       /\ perdidas' \subseteq perdidas \union {l \in Linha : l.pedido = p}
       /\ banco' \union perdidas' \subseteq banco \union perdidas
                                               \union {l \in Linha : l.pedido = p}
  BY <1>6, <1>7, <1>8, Devolvida DEF Todas
<1>18. Bom(p)' /\ EscopoDaConsulta'
  BY <1>11, <1>12, <1>14 DEF Bom, EscopoDaConsulta
<1>19. \A d \in Conexoes :
          \/ conexao'[d] = conexao[d] /\ conexao[d].dono # p
          \/ conexao[d].dono \in {p, Nulo} /\ ConexaoBoa(d)'
  BY <1>6, <1>13, <1>15
<1>. QED BY <1>4, <1>5, <1>9, <1>10, <1>16, <1>17, <1>18, <1>19, Passo

LEMMA ConfirmarSozinhaInv ==
    ASSUME Inv, NEW p \in Pedidos, NEW i \in Calls, ConfirmarSozinha(p, i) PROVE Inv'
<1>1. pedido \in [Pedidos -> Pedido] /\ pedido[p] \in Pedido
  BY DEF Inv, TypeOK
<1>2. pedido' = [pedido EXCEPT ![p].passo = pedido[p].passo]
  BY <1>1 DEF ConfirmarSozinha, Pedido
<1>3. pedido[p].passo \in {"codigo", "erro", "fim", "espera"}
  BY <1>1 DEF Pedido
<1>. QED BY <1>2, <1>3, FimDaChamada DEF ConfirmarSozinha, Abertas

LEMMA FalharSozinhaInv ==
    ASSUME Inv, NEW p \in Pedidos, NEW i \in Calls, FalharSozinha(p, i) PROVE Inv'
<1>1. pedido \in [Pedidos -> Pedido] /\ pedido[p] \in Pedido
  BY DEF Inv, TypeOK
<1>2. PICK passo \in {"codigo", "erro", "fim", "espera"} :
         passo = IF pedido[p].passo = "codigo" THEN "erro" ELSE pedido[p].passo
  BY <1>1 DEF Pedido
<1>3. pedido' = [pedido EXCEPT ![p].passo = passo]
  BY <1>1, <1>2 DEF FalharSozinha
<1>. QED BY <1>2, <1>3, FimDaChamada DEF FalharSozinha, Abertas

-----------------------------------------------------------------------------
(* Repository calls.                                                       *)

\* The call p issues: its row comes after every row p was to write so far.
LEMMA Registro ==
    ASSUME Inv, NEW p \in Pedidos, pedido[p].resta > 0,
           NEW empresa \in Empresas, NEW comUsuario \in BOOLEAN, NEW grava \in BOOLEAN,
           NEW passo \in {"espera", "fixando"}, NEW c \in Conexoes \union {Nulo}
    PROVE  LET ch == RegistroDe(p, empresa, comUsuario, grava, passo, c) IN
           /\ ch \in Chamada /\ ch.passo = passo /\ ch.empresa = empresa
           /\ ch.comUsuario = comUsuario /\ ch.grava = grava /\ ch.em = c
           /\ ch.linha \in Linha /\ ch.linha.pedido = p /\ ch.linha.n = pedido[p].resta
           /\ ch.linha.unidade = IF EmUnidade(p) THEN pedido[p].unidade ELSE pedido[p].resta
<1>. DEFINE u == IF EmUnidade(p) THEN pedido[p].unidade ELSE pedido[p].resta
            l == [pedido |-> p, n |-> pedido[p].resta, unidade |-> u]
            ch == RegistroDe(p, empresa, comUsuario, grava, passo, c)
<1>1. /\ u \in Nat /\ pedido[p].resta \in Nat \ {0} /\ pedido[p].resta <= u
      /\ u <= MaxPassos[p]
  <2>1. UnidadeBoa(p) /\ pedido[p].resta \in Nat /\ pedido[p].unidade \in Nat
        /\ MaxPassos[p] \in Nat
    BY Tipos, DosPassos DEF Inv, Bom
  <2>. QED BY <2>1 DEF UnidadeBoa, ComUnidade
<1>. HIDE DEF u
<1>2. l \in Linha
  BY <1>1, FazLinha
<1>3. ch = [passo |-> passo, empresa |-> empresa, comUsuario |-> comUsuario, grava |-> grava,
            em |-> c, linha |-> l]
  BY DEF RegistroDe, u
<1>4. l.pedido = p /\ l.n = pedido[p].resta /\ l.unidade = u
  OBVIOUS
<1>. HIDE DEF l, ch
<1>5. ch \in Chamada /\ ch.linha = l /\ ch.passo = passo /\ ch.empresa = empresa
      /\ ch.comUsuario = comUsuario /\ ch.grava = grava /\ ch.em = c
  BY <1>2, <1>3 DEF Chamada
<1>. QED BY <1>2, <1>4, <1>5 DEF u, ch

LEMMA ChamarForaInv ==
    ASSUME Inv, NEW p \in Pedidos, NEW i \in Calls, ChamarFora(p, i) PROVE Inv'
<1>1. PICK empresa \in Empresas, comUsuario \in BOOLEAN, grava \in BOOLEAN :
        /\ NovaChamada(p, i, empresa, comUsuario, grava) /\ TransacaoDaUnidade(p) = Nulo
        /\ chamada' = [chamada EXCEPT ![p][i] =
                          RegistroDe(p, empresa, comUsuario, grava, "espera", Nulo)]
        /\ fila' = Append(fila, <<p, i>>)
        /\ pedido' = [pedido EXCEPT ![p].resta = @ - 1]
        /\ consulta' = Nulo
        /\ UNCHANGED <<banco, perdidas, conexao, quedas>>
  BY DEF ChamarFora
<1>. DEFINE ch == RegistroDe(p, empresa, comUsuario, grava, "espera", Nulo)
<1>2. /\ pedido[p].passo = "codigo" /\ pedido[p].resta > 0 /\ chamada[p][i].passo = "livre"
      /\ \A j \in Calls : chamada[p][j].passo # "livre" => ~grava /\ ~chamada[p][j].grava
      /\ ~EmUnidade(p) /\ pedido[p].em = Nulo
  BY <1>1 DEF NovaChamada, TransacaoDaUnidade, EmUnidade
<1>3. /\ ch \in Chamada /\ ch.passo = "espera" /\ ch.empresa \in Empresas /\ ch.grava = grava
      /\ ch.linha \in Linha /\ ch.linha.pedido = p
      /\ ch.linha.n = pedido[p].resta /\ ch.linha.unidade = ch.linha.n
  BY <1>2, Registro
<1>. HIDE DEF ch
<1>4. /\ chamada' \in [Pedidos -> [Calls -> Chamada]] /\ chamada'[p][i] = ch
      /\ \A q \in Pedidos \ {p} : chamada'[q] = chamada[q]
      /\ \A j \in Calls \ {i} : chamada'[p][j] = chamada[p][j]
  <2>1. chamada \in [Pedidos -> [Calls -> Chamada]] /\ chamada' = [chamada EXCEPT ![p][i] = ch]
    BY <1>1 DEF Inv, TypeOK, ch
  <2>. QED BY <1>3, <2>1
<1>5. /\ pedido'[p].em = Nulo /\ pedido'[p].fixado = pedido[p].fixado
      /\ pedido'[p].resta = pedido[p].resta - 1 /\ pedido'[p].passo = "codigo"
      /\ pedido'[p].resposta = pedido[p].resposta /\ pedido'[p].fundo = pedido[p].fundo
      /\ \A q \in Pedidos \ {p} : pedido'[q] = pedido[q]
      /\ pedido' \in [Pedidos -> Pedido]
  <2>1. pedido \in [Pedidos -> Pedido] /\ pedido[p] \in Pedido
    BY DEF Inv, TypeOK
  <2>2. pedido' = [pedido EXCEPT ![p] = [pedido[p] EXCEPT !.resta = pedido[p].resta - 1]]
    BY <1>1, <2>1
  <2>3. pedido[p].resta - 1 \in Passos \union {0}
    BY <1>2, Resta
  <2>. QED BY <1>2, <2>1, <2>2, <2>3 DEF Pedido
<1>6. FilaBoa' /\ fila' \in Seq(Pedidos \X (0..2))
  <2>1. \A q \in Pedidos : pedido[q].passo = "espera" => pedido'[q].passo = "espera"
    BY <1>2, <1>5
  <2>2. \A q \in Pedidos : \A j \in Calls :
          chamada[q][j].passo = "espera" => chamada'[q][j].passo = "espera"
    BY <1>2, <1>4
  <2>3. chamada[p][i].passo # "espera" /\ chamada'[p][i].passo = "espera" /\ i # 0
    BY <1>2, <1>3, <1>4 DEF Calls
  <2>. QED BY <1>1, <2>1, <2>2, <2>3, FilaCresce
<1>7. TypeOK' /\ EscopoDaConsulta'
  BY <1>1, <1>4, <1>5, <1>6 DEF Inv, TypeOK, EscopoDaConsulta
<1>8. UnidadeBoa(p) /\ LinhasBoas(p) /\ pedido[p].resta \in Nat /\ MaxPassos[p] \in Nat
      /\ \A j \in Calls : ChamadaBoa(p, j)
  BY Tipos, DosPassos DEF Inv, Bom
<1>9. UnidadeBoa(p)'
  BY <1>2, <1>5, <1>8 DEF UnidadeBoa, ComUnidade, EmUnidade
<1>10. LinhasBoas(p)'
  <2>1. \A l \in Todas : l.n \in Nat
    BY DasLinhas
  <2>2. ~ComUnidade(p)'
    BY <1>5 DEF ComUnidade, EmUnidade
  <2>3. UNCHANGED Todas /\ \A l \in Todas : l.pedido = p => l.n > pedido[p].resta
    BY <1>1, <1>8 DEF Todas, LinhasBoas
  <2>4. \A l \in Todas : l.pedido = p =>
           \A j \in Calls : NaoEscrita(chamada'[p][j]) => l.n > chamada'[p][j].linha.n
    <3>1. \A j \in Calls \ {i} : chamada'[p][j] = chamada[p][j]
      BY <1>4
    <3>2. \A l \in Todas : l.pedido = p => l.n > chamada'[p][i].linha.n
      BY <1>3, <1>4, <2>3
    <3>. QED BY <1>8, <3>1, <3>2 DEF LinhasBoas
  <2>. QED BY <1>1, <1>2, <1>5, <1>8, <2>1, <2>2, <2>3, <2>4 DEF LinhasBoas
<1>11. ASSUME NEW j \in Calls PROVE ChamadaBoa(p, j)'
  <2>1. CASE j = i
    <3>1. grava => \A k \in Calls \ {i} : chamada'[p][k].passo = "livre"
      BY <1>2, <1>4
    <3>. QED BY <1>3, <1>4, <1>5, <1>8, <2>1, <3>1 DEF ChamadaBoa, Abertas, EmUnidade
  <2>2. CASE j # i
    <3>1. ChamadaBoa(p, j) /\ chamada'[p][j] = chamada[p][j] /\ chamada'[p][i].passo = "espera"
      BY <1>3, <1>4, <1>8, <2>2
    <3>2. chamada[p][j].passo # "livre" => ~chamada[p][j].grava
      BY <1>2
    <3>3. chamada[p][j].passo \in Abertas =>
             \A k \in Calls \ {j} :
                chamada'[p][k].passo \in Abertas => chamada'[p][k].em # chamada[p][j].em
      BY <1>4, <3>1 DEF ChamadaBoa, Abertas
    <3>4. pedido'[p].resta \in Nat /\ pedido'[p].resta <= pedido[p].resta
      BY <1>2, <1>5, <1>8
    <3>5. UNCHANGED conexao
      BY <1>1
    <3>. QED BY <1>2, <1>5, <3>1, <3>2, <3>3, <3>4, <3>5, ChamadaIntacta
  <2>. QED BY <2>1, <2>2
<1>12. Bom(p)'
  BY <1>9, <1>10, <1>11 DEF Bom
<1>13. ASSUME NEW c \in Conexoes
       PROVE  conexao'[c] = conexao[c] /\ (conexao[c].dono = p => ConexaoBoa(c)')
  <2>1. ConexaoBoa(c) /\ conexao'[c] = conexao[c]
    BY <1>1 DEF Inv
  <2>2. ASSUME conexao[c].dono = p PROVE ConexaoBoa(c)'
    <3>1. PICK j \in Calls : chamada[p][j].passo \in Abertas /\ chamada[p][j].em = c
      BY <1>2, <2>1, <2>2, UnidadeAssumption, Tipos DEF ConexaoBoa, UnidadeAssumption, Inv
    <3>2. chamada'[p][j] = chamada[p][j]
      BY <1>2, <1>4, <3>1 DEF Abertas
    <3>. QED BY <2>1, <2>2, <3>1, <3>2, Tipos DEF ConexaoBoa, Inv
  <2>. QED BY <2>1, <2>2
<1>14. banco' \union perdidas' \subseteq Todas
  BY <1>1 DEF Todas
<1>. QED BY <1>1, <1>4, <1>5, <1>6, <1>7, <1>12, <1>13, <1>14, Passo

\* A statement on a transaction of the right company, scoped to the person it asks
\* for, if any, is in scope; it adds its row and changes nothing else.
LEMMA Execucao ==
    ASSUME Inv, NEW p \in Pedidos, NEW i \in Calls, NEW c \in Conexoes, NEW ch \in Chamada,
           ch.empresa \in Empresas, ch.linha \in Linha, conexao[c].empresa = ch.empresa,
           NEW usuario \in Pedidos \union {Nulo}, ch.comUsuario => usuario = p,
           Executar(p, i, c, ch, usuario)
    PROVE  /\ EscopoDaConsulta' /\ consulta' \in Consulta \union {Nulo}
           /\ conexao' \in [Conexoes -> Conexao]
           /\ \A d \in Conexoes \ {c} : conexao'[d] = conexao[d]
           /\ conexao'[c].dono = conexao[c].dono /\ conexao'[c].empresa = conexao[c].empresa
           /\ conexao'[c].usuario = usuario
           /\ ch.grava => conexao'[c].linhas = conexao[c].linhas \union {ch.linha}
           /\ ~ch.grava => conexao'[c].linhas = conexao[c].linhas
<1>1. conexao \in [Conexoes -> Conexao] /\ conexao[c] \in Conexao /\ ch.comUsuario \in BOOLEAN
  BY DEF Inv, TypeOK, Chamada
<1>2. conexao' = [conexao EXCEPT ![c] = [conexao[c] EXCEPT !.usuario = usuario,
                     !.linhas = IF ch.grava THEN conexao[c].linhas \union {ch.linha}
                                ELSE conexao[c].linhas]]
  BY <1>1 DEF Executar
<1>3. consulta' = [empresa |-> ch.empresa, usuario |-> IF ch.comUsuario THEN p ELSE Nulo,
                   daEmpresa |-> conexao[c].empresa, doUsuario |-> usuario]
  BY DEF Executar
<1>4. consulta' \in Consulta /\ EscopoDaConsulta'
  BY <1>1, <1>3 DEF Consulta, EscopoDaConsulta
<1>5. LET linhas == IF ch.grava THEN conexao[c].linhas \union {ch.linha} ELSE conexao[c].linhas
      IN  linhas \subseteq Linha
  BY <1>1 DEF Conexao
<1>. QED BY <1>1, <1>2, <1>4, <1>5 DEF Conexao

\* A statement of p on a transaction of p leaves to the other connections what they
\* had, and to this one its owner.
LEMMA PassoDaConsulta ==
    ASSUME Inv, NEW p \in Pedidos, NEW c \in Conexoes, conexao[c].dono = p,
           TypeOK', EscopoDaConsulta', FilaBoa', Bom(p)', UNCHANGED <<banco, perdidas>>,
           \A q \in Pedidos \ {p} : pedido'[q] = pedido[q] /\ chamada'[q] = chamada[q],
           pedido'[p].em = pedido[p].em,
           \A i \in Calls : chamada[p][i].passo \in Abertas =>
              chamada'[p][i].passo \in Abertas /\ chamada'[p][i].em = chamada[p][i].em,
           \A d \in Conexoes \ {c} : conexao'[d] = conexao[d],
           conexao'[c].dono = p,
           conexao'[c].linhas \subseteq conexao[c].linhas \union {l \in Linha : l.pedido = p}
    PROVE  Inv'
<1>1. ASSUME NEW d \in Conexoes, conexao[d].dono = p PROVE ConexaoBoa(d)'
  <2>1. conexao'[d].dono = p /\ p # Nulo
    BY <1>1, Tipos DEF Inv
  <2>2. pedido[p].em = d \/ \E i \in Calls : chamada[p][i].passo \in Abertas
                                              /\ chamada[p][i].em = d
    BY <1>1, <2>1 DEF Inv, ConexaoBoa
  <2>. QED BY <2>1, <2>2 DEF ConexaoBoa
<1>2. \A d \in Conexoes : conexao[d].dono # p => conexao'[d] = conexao[d]
  OBVIOUS
<1>3. \A d \in Conexoes :
         conexao'[d].linhas \subseteq conexao[d].linhas \union {l \in Linha : l.pedido = p}
  OBVIOUS
<1>4. banco' \union perdidas' \subseteq Todas
  BY DEF Todas
<1>. QED BY <1>1, <1>2, <1>3, <1>4, Passo

LEMMA ExecutarSozinhaInv ==
    ASSUME Inv, NEW p \in Pedidos, NEW i \in Calls, ExecutarSozinha(p, i) PROVE Inv'
<1>. DEFINE ch == chamada[p][i]
<1>1. UnidadeBoa(p) /\ LinhasBoas(p) /\ \A j \in Calls : ChamadaBoa(p, j)
  BY DEF Inv, Bom
<1>2. ch.passo = "aberta" /\ ch.passo \in Abertas /\ ch \in Chamada
      /\ chamada \in [Pedidos -> [Calls -> Chamada]]
  BY DEF ExecutarSozinha, Abertas, Inv, TypeOK
<1>3. /\ ch.empresa \in Empresas /\ ch.linha \in Linha /\ ch.linha.pedido = p
      /\ ch.linha.n > pedido[p].resta /\ ch.linha.unidade = ch.linha.n /\ ~EmUnidade(p)
      /\ ch.grava => \A j \in Calls \ {i} : chamada[p][j].passo = "livre"
      /\ ch.em # Nulo /\ conexao[ch.em].dono = p /\ conexao[ch.em].empresa = ch.empresa
      /\ ch.comUsuario => conexao[ch.em].usuario = p
      /\ conexao[ch.em].linhas = {}
      /\ \A j \in Calls \ {i} : chamada[p][j].passo \in Abertas => chamada[p][j].em # ch.em
  BY <1>1, <1>2 DEF ChamadaBoa, Abertas
<1>4. PICK c \in Conexoes : c = ch.em
  BY <1>2, <1>3 DEF Chamada
<1>5. /\ Executar(p, i, c, ch, conexao[c].usuario)
      /\ UNCHANGED <<banco, perdidas, fila, pedido, quedas>>
      /\ chamada' = [chamada EXCEPT ![p] = [chamada[p] EXCEPT ![i] =
                                               [chamada[p][i] EXCEPT !.passo = "confirmando"]]]
  BY <1>2, <1>4 DEF ExecutarSozinha
<1>6. conexao[c].usuario \in Pedidos \union {Nulo}
  BY DEF Inv, TypeOK, Conexao
<1>7. /\ chamada' \in [Pedidos -> [Calls -> Chamada]]
      /\ chamada'[p][i].passo = "confirmando" /\ chamada'[p][i].em = c
      /\ chamada'[p][i].empresa = ch.empresa /\ chamada'[p][i].comUsuario = ch.comUsuario
      /\ chamada'[p][i].grava = ch.grava /\ chamada'[p][i].linha = ch.linha
      /\ \A q \in Pedidos \ {p} : chamada'[q] = chamada[q]
      /\ \A j \in Calls \ {i} : chamada'[p][j] = chamada[p][j]
  <2>1. [chamada[p][i] EXCEPT !.passo = "confirmando"] \in Chamada
    BY <1>2 DEF Chamada
  <2>. QED BY <1>2, <1>4, <1>5, <2>1 DEF Chamada
<1>. HIDE DEF ch
<1>8. /\ EscopoDaConsulta' /\ consulta' \in Consulta \union {Nulo}
      /\ conexao' \in [Conexoes -> Conexao]
      /\ \A d \in Conexoes \ {c} : conexao'[d] = conexao[d]
      /\ conexao'[c].dono = p /\ conexao'[c].empresa = ch.empresa
      /\ conexao'[c].usuario = conexao[c].usuario
      /\ conexao'[c].linhas = IF ch.grava THEN {ch.linha} ELSE {}
  <2>1. ch \in Chamada /\ conexao[c].empresa = ch.empresa /\ conexao[c].dono = p
        /\ (ch.comUsuario => conexao[c].usuario = p) /\ conexao[c].linhas = {}
    BY <1>2, <1>3, <1>4 DEF ch
  <2>2. /\ EscopoDaConsulta' /\ consulta' \in Consulta \union {Nulo}
        /\ conexao' \in [Conexoes -> Conexao]
        /\ \A d \in Conexoes \ {c} : conexao'[d] = conexao[d]
        /\ conexao'[c].dono = conexao[c].dono /\ conexao'[c].empresa = conexao[c].empresa
        /\ conexao'[c].usuario = conexao[c].usuario
        /\ ch.grava => conexao'[c].linhas = conexao[c].linhas \union {ch.linha}
        /\ ~ch.grava => conexao'[c].linhas = conexao[c].linhas
    BY <1>3, <1>5, <1>6, <2>1, Execucao
  <2>. QED BY <2>1, <2>2
<1>9. TypeOK'
  BY <1>5, <1>7, <1>8 DEF Inv, TypeOK
<1>10. FilaBoa'
  <2>1. \A q \in Pedidos : \A j \in Calls :
           chamada[q][j].passo = "espera" => chamada'[q][j].passo = "espera"
    BY <1>2, <1>7 DEF ch
  <2>. QED BY <1>5, <2>1, FilaMantida
<1>11. UnidadeBoa(p)'
  <2>1. ~Parado(p)
    BY <1>2 DEF Parado, ch
  <2>. QED BY <1>1, <1>3, <1>5, <2>1 DEF UnidadeBoa, ComUnidade, EmUnidade
<1>12. LinhasBoas(p)'
  <2>1. \A l \in Todas' : l \in Todas \/ (ch.grava /\ l = ch.linha)
    BY <1>5, <1>8 DEF Todas
  <2>2. \A j \in Calls : NaoEscrita(chamada'[p][j]) =>
           NaoEscrita(chamada[p][j]) /\ chamada'[p][j] = chamada[p][j] /\ ~ch.grava
    BY <1>3, <1>7 DEF NaoEscrita
  <2>3. \A l \in Todas' : l.pedido = p => l.n > pedido'[p].resta
    BY <1>1, <1>3, <1>5, <2>1 DEF LinhasBoas
  <2>4. \A l \in Todas' : l.pedido = p =>
           \A j \in Calls : NaoEscrita(chamada'[p][j]) => l.n > chamada'[p][j].linha.n
    BY <1>1, <2>1, <2>2 DEF LinhasBoas
  <2>. QED BY <1>1, <1>5, <2>3, <2>4 DEF LinhasBoas, ComUnidade, EmUnidade
<1>13. ASSUME NEW j \in Calls PROVE ChamadaBoa(p, j)'
  <2>1. CASE j = i
    <3>1. \A k \in Calls \ {i} :
             chamada'[p][k].passo \in Abertas => chamada'[p][k].em # chamada'[p][i].em
      BY <1>3, <1>4, <1>7
    <3>2. ch.grava => \A k \in Calls \ {i} : chamada'[p][k].passo = "livre"
      BY <1>3, <1>7
    <3>3. conexao'[c].usuario = p \/ ~ch.comUsuario
      BY <1>3, <1>4, <1>8
    <3>4. ~EmUnidade(p)' /\ c # Nulo
      BY <1>3, <1>4, <1>5 DEF EmUnidade
    <3>5. /\ chamada'[p][i].empresa \in Empresas /\ chamada'[p][i].linha \in Linha
          /\ chamada'[p][i].linha.pedido = p /\ chamada'[p][i].linha.n > pedido'[p].resta
          /\ chamada'[p][i].linha.unidade = chamada'[p][i].linha.n
          /\ chamada'[p][i].em # Nulo
          /\ chamada'[p][i].grava => \A k \in Calls \ {i} : chamada'[p][k].passo = "livre"
      BY <1>3, <1>5, <1>7, <3>2, <3>4
    <3>6. LET d == chamada'[p][i].em IN
          /\ conexao'[d].dono = p /\ conexao'[d].empresa = chamada'[p][i].empresa
          /\ chamada'[p][i].comUsuario => conexao'[d].usuario = p
          /\ conexao'[d].linhas = IF chamada'[p][i].grava THEN {chamada'[p][i].linha} ELSE {}
      BY <1>7, <1>8, <3>3
    <3>. QED BY <1>7, <2>1, <3>1, <3>4, <3>5, <3>6 DEF ChamadaBoa, Abertas
  <2>2. CASE j # i
    <3>1. ChamadaBoa(p, j) /\ chamada'[p][j] = chamada[p][j]
      BY <1>1, <1>7, <2>2
    <3>2. UNCHANGED pedido /\ pedido[p].resta \in Nat
      BY <1>5, Tipos DEF Inv
    <3>3. chamada[p][j].passo \in Abertas =>
             chamada[p][j].em \in Conexoes /\ conexao'[chamada[p][j].em] = conexao[chamada[p][j].em]
      <4>1. chamada[p][j].em \in Conexoes \union {Nulo}
        BY Tipos DEF Inv
      <4>. QED BY <1>3, <1>4, <1>8, <2>2, <3>1, <4>1 DEF ChamadaBoa
    <3>4. chamada[p][j].passo # "livre" => ~chamada[p][j].grava
      BY <1>2, <2>2, <3>1 DEF ChamadaBoa, ch
    <3>5. chamada[p][j].passo \in Abertas =>
             \A k \in Calls \ {j} :
                chamada'[p][k].passo \in Abertas => chamada'[p][k].em # chamada[p][j].em
      BY <1>2, <1>4, <1>7, <3>1 DEF ChamadaBoa, ch
    <3>. QED BY <3>1, <3>2, <3>3, <3>4, <3>5, ChamadaIntacta
  <2>. QED BY <2>1, <2>2
<1>14. Bom(p)'
  BY <1>11, <1>12, <1>13 DEF Bom
<1>15. \A j \in Calls : chamada[p][j].passo \in Abertas =>
          chamada'[p][j].passo \in Abertas /\ chamada'[p][j].em = chamada[p][j].em
  BY <1>4, <1>7 DEF Abertas, ch
<1>16. conexao[c].dono = p /\ conexao'[c].linhas \subseteq {l \in Linha : l.pedido = p}
  BY <1>3, <1>4, <1>8
<1>. QED BY <1>5, <1>7, <1>8, <1>9, <1>10, <1>14, <1>15, <1>16, PassoDaConsulta

\* A statement inside a unit of work: on its transaction, for one of its calls.
LEMMA PassoNaUnidade ==
    ASSUME Inv, NEW p \in Pedidos, NEW i \in Calls, NEW c \in Conexoes,
           EmUnidade(p), c = pedido[p].em,
           TypeOK', EscopoDaConsulta', UNCHANGED <<banco, perdidas, fila>>,
           \A q \in Pedidos \ {p} : pedido'[q] = pedido[q] /\ chamada'[q] = chamada[q],
           \A j \in Calls \ {i} : chamada'[p][j] = chamada[p][j],
           pedido'[p].em = c, pedido'[p].unidade = pedido[p].unidade,
           pedido'[p].empresa = pedido[p].empresa, pedido'[p].passo = pedido[p].passo,
           pedido'[p].resposta = pedido[p].resposta, pedido'[p].resta <= pedido[p].resta,
           pedido'[p].fixado => conexao'[c].usuario = p,
           \A d \in Conexoes \ {c} : conexao'[d] = conexao[d],
           conexao'[c].dono = conexao[c].dono, conexao'[c].empresa = conexao[c].empresa,
           NEW novas \in SUBSET Linha, conexao'[c].linhas = conexao[c].linhas \union novas,
           \A l \in novas : /\ l.pedido = p /\ l.unidade = pedido[p].unidade
                            /\ l.n > pedido'[p].resta
                            /\ \A j \in Calls : ~NaoEscrita(chamada'[p][j]),
           chamada'[p][i].passo \in {"livre", "fixando"}, ChamadaBoa(p, i)',
           NaoEscrita(chamada'[p][i]) =>
              \A l \in Todas : l.pedido = p => l.n > chamada'[p][i].linha.n,
           \A j \in Calls \ {i} : chamada[p][j].passo # "livre" /\ chamada[p][j].grava =>
              chamada'[p][i].passo = "livre"
    PROVE  Inv'
<1>1. UnidadeBoa(p) /\ LinhasBoas(p) /\ \A j \in Calls : ChamadaBoa(p, j)
  BY DEF Inv, Bom
<1>2. /\ pedido[p].resta \in Nat /\ pedido'[p].resta \in Nat /\ pedido[p].unidade \in Nat
      /\ MaxPassos[p] \in Nat
  <2>1. pedido'[p].resta \in Passos \union {0}
    BY DEF TypeOK, Pedido
  <2>. QED BY <2>1, Tipos, DosPassos DEF Inv
<1>3. /\ conexao[c].dono = p /\ conexao[c].empresa = pedido[p].empresa
      /\ pedido[p].passo = "codigo" /\ pedido[p].resposta = "nenhuma"
      /\ pedido[p].resta < pedido[p].unidade /\ pedido[p].unidade <= MaxPassos[p]
      /\ pedido[p].resta <= MaxPassos[p]
      /\ \A l \in conexao[c].linhas : l.pedido = p /\ l.unidade = pedido[p].unidade
  BY <1>1 DEF UnidadeBoa, ComUnidade
<1>4. \A j \in Calls : chamada[p][j].passo \notin Abertas \union {"espera"}
  BY <1>1 DEF ChamadaBoa
<1>5. FilaBoa'
  <2>1. \A q \in Pedidos : pedido[q].passo = "espera" => pedido'[q].passo = "espera"
    BY <1>3
  <2>2. \A q \in Pedidos : \A j \in Calls :
           chamada[q][j].passo = "espera" => chamada'[q][j].passo = "espera"
    BY <1>4
  <2>. QED BY <2>1, <2>2, FilaMantida
<1>6. UnidadeBoa(p)'
  <2>1. EmUnidade(p)'
    BY DEF EmUnidade
  <2>2. \A l \in conexao'[c].linhas : l.pedido = p /\ l.unidade = pedido[p].unidade
    BY <1>3
  <2>. QED BY <1>2, <1>3, <2>1, <2>2 DEF UnidadeBoa, ComUnidade
<1>7. LinhasBoas(p)'
  <2>1. \A l \in Todas' : l \in Todas \/ l \in novas
    BY DEF Todas
  <2>2. \A l \in Todas : l.n \in Nat
    BY DasLinhas
  <2>3. \A l \in Todas' : l.pedido = p => l.n > pedido'[p].resta
    BY <1>1, <1>2, <2>1, <2>2 DEF LinhasBoas
  <2>4. \A l \in Todas' : l.pedido = p =>
           \A j \in Calls : NaoEscrita(chamada'[p][j]) => l.n > chamada'[p][j].linha.n
    BY <1>1, <2>1 DEF LinhasBoas
  <2>5. ComUnidade(p)
    BY DEF ComUnidade
  <2>. QED BY <1>1, <1>3, <2>3, <2>4, <2>5 DEF LinhasBoas
<1>8. ASSUME NEW j \in Calls PROVE ChamadaBoa(p, j)'
  <2>1. CASE j # i
    <3>1. ChamadaBoa(p, j) /\ chamada[p][j].passo \notin Abertas
          /\ chamada'[p][j] = chamada[p][j]
      BY <1>1, <1>4, <2>1
    <3>2. chamada[p][j].passo # "livre" /\ chamada[p][j].grava =>
             \A k \in Calls \ {j} : chamada'[p][k].passo = "livre"
      <4>1. ASSUME chamada[p][j].passo # "livre", chamada[p][j].grava, NEW k \in Calls \ {j}
            PROVE  chamada'[p][k].passo = "livre"
        <5>1. chamada[p][k].passo = "livre"
          BY <3>1, <4>1 DEF ChamadaBoa
        <5>. QED BY <2>1, <4>1, <5>1
      <4>. QED BY <4>1
    <3>. QED BY <1>2, <3>1, <3>2, ChamadaIntacta
  <2>. QED BY <2>1
<1>9. Bom(p)'
  BY <1>6, <1>7, <1>8 DEF Bom
<1>10. \A l \in conexao'[c].linhas : l \in conexao[c].linhas \/ (l \in Linha /\ l.pedido = p)
  OBVIOUS
<1>. QED BY <1>3, <1>4, <1>5, <1>9, <1>10, PassoDaConsulta

LEMMA FixarInv == ASSUME Inv, NEW p \in Pedidos, NEW i \in Calls, Fixar(p, i) PROVE Inv'
<1>. DEFINE ch == chamada[p][i]
<1>1. UnidadeBoa(p) /\ LinhasBoas(p) /\ ChamadaBoa(p, i) /\ pedido[p] \in Pedido
      /\ pedido \in [Pedidos -> Pedido] /\ chamada \in [Pedidos -> [Calls -> Chamada]]
  BY DEF Inv, Bom, TypeOK
<1>2. /\ ch.passo = "fixando" /\ ch \in Chamada /\ Executar(p, i, ch.em, ch, p)
      /\ pedido' = [pedido EXCEPT ![p] = [pedido[p] EXCEPT !.fixado = TRUE]]
      /\ chamada' = [chamada EXCEPT ![p] = [chamada[p] EXCEPT ![i] = SemChamada]]
      /\ UNCHANGED <<banco, perdidas, fila, quedas>>
  BY <1>1 DEF Fixar
<1>3. /\ ch.empresa = pedido[p].empresa /\ ch.empresa \in Empresas /\ ch.linha \in Linha
      /\ ch.linha.pedido = p /\ ch.linha.n > pedido[p].resta
      /\ ch.linha.unidade = pedido[p].unidade /\ EmUnidade(p) /\ ch.em = pedido[p].em
      /\ ch.grava => \A j \in Calls \ {i} : chamada[p][j].passo = "livre"
  BY <1>1, <1>2 DEF ChamadaBoa
<1>4. PICK c \in Conexoes : c = pedido[p].em
  BY <1>3, Tipos DEF EmUnidade, Inv
<1>5. conexao[c].dono = p /\ conexao[c].empresa = pedido[p].empresa
  BY <1>1, <1>3, <1>4 DEF UnidadeBoa
<1>6. /\ pedido' \in [Pedidos -> Pedido] /\ \A q \in Pedidos \ {p} : pedido'[q] = pedido[q]
      /\ pedido'[p].em = c /\ pedido'[p].unidade = pedido[p].unidade
      /\ pedido'[p].empresa = pedido[p].empresa /\ pedido'[p].passo = pedido[p].passo
      /\ pedido'[p].resposta = pedido[p].resposta /\ pedido'[p].resta = pedido[p].resta
  BY <1>1, <1>2, <1>4 DEF Pedido
<1>7. /\ chamada' \in [Pedidos -> [Calls -> Chamada]]
      /\ chamada'[p][i].passo = "livre" /\ chamada'[p][i].grava = FALSE
      /\ \A q \in Pedidos \ {p} : chamada'[q] = chamada[q]
      /\ \A j \in Calls \ {i} : chamada'[p][j] = chamada[p][j]
  <2>1. SemChamada \in Chamada /\ SemChamada.passo = "livre" /\ SemChamada.grava = FALSE
    BY DEF SemChamada, Chamada
  <2>. HIDE DEF SemChamada
  <2>. QED BY <1>1, <1>2, <2>1
<1>. HIDE DEF ch
<1>8. /\ EscopoDaConsulta' /\ consulta' \in Consulta \union {Nulo}
      /\ conexao' \in [Conexoes -> Conexao]
      /\ \A d \in Conexoes \ {c} : conexao'[d] = conexao[d]
      /\ conexao'[c].dono = conexao[c].dono /\ conexao'[c].empresa = conexao[c].empresa
      /\ conexao'[c].usuario = p
      /\ ch.grava => conexao'[c].linhas = conexao[c].linhas \union {ch.linha}
      /\ ~ch.grava => conexao'[c].linhas = conexao[c].linhas
  <2>1. ch \in Chamada /\ Executar(p, i, c, ch, p)
    BY <1>2, <1>3, <1>4 DEF ch
  <2>. QED BY <1>3, <1>5, <2>1, Execucao
<1>9. TypeOK'
  BY <1>2, <1>6, <1>7, <1>8 DEF Inv, TypeOK
<1>. DEFINE novas == IF ch.grava THEN {ch.linha} ELSE {}
<1>10. /\ novas \in SUBSET Linha /\ conexao'[c].linhas = conexao[c].linhas \union novas
       /\ \A l \in novas : l = ch.linha /\ ch.grava
  BY <1>3, <1>8
<1>. HIDE DEF novas
<1>11. \A l \in novas : /\ l.pedido = p /\ l.unidade = pedido[p].unidade
                        /\ l.n > pedido'[p].resta
                        /\ \A j \in Calls : ~NaoEscrita(chamada'[p][j])
  <2>1. ch.grava => \A j \in Calls : ~NaoEscrita(chamada'[p][j])
    BY <1>3, <1>7 DEF NaoEscrita
  <2>. QED BY <1>3, <1>6, <1>10, <2>1
<1>12. ChamadaBoa(p, i)' /\ ~NaoEscrita(chamada'[p][i])
  BY <1>7 DEF ChamadaBoa, Abertas, NaoEscrita
<1>13. pedido'[p].resta <= pedido[p].resta
  BY <1>6, Tipos DEF Inv
<1>14. UNCHANGED <<banco, perdidas, fila>>
  BY <1>2
<1>. QED BY <1>3, <1>4, <1>6, <1>7, <1>8, <1>9, <1>10, <1>11, <1>12, <1>13, <1>14,
            PassoNaUnidade

LEMMA ChamarDentroInv ==
    ASSUME Inv, NEW p \in Pedidos, NEW i \in Calls, ChamarDentro(p, i) PROVE Inv'
<1>1. PICK empresa \in Empresas, comUsuario \in BOOLEAN, grava \in BOOLEAN :
        LET c  == TransacaoDaUnidade(p)
            ch == RegistroDe(p, empresa, comUsuario, grava, "fixando", c) IN
        /\ NovaChamada(p, i, empresa, comUsuario, grava)
        /\ ~EscopoCruzado(p, empresa) /\ c # Nulo
        /\ pedido' = [pedido EXCEPT ![p].resta = @ - 1]
        /\ IF PrecisaFixar(p, comUsuario)
           THEN /\ conexao' = [conexao EXCEPT ![c].usuario = p]
                /\ chamada' = [chamada EXCEPT ![p][i] = ch]
                /\ consulta' = Nulo
           ELSE /\ Executar(p, i, c, ch, conexao[c].usuario)
                /\ UNCHANGED chamada
        /\ UNCHANGED <<banco, perdidas, fila, quedas>>
  BY DEF ChamarDentro
<1>2. /\ pedido[p].passo = "codigo" /\ pedido[p].resta > 0 /\ chamada[p][i].passo = "livre"
      /\ \A j \in Calls : chamada[p][j].passo # "livre" => ~grava /\ ~chamada[p][j].grava
      /\ EmUnidade(p) /\ empresa = pedido[p].empresa
  BY <1>1 DEF NovaChamada, EscopoCruzado, TransacaoDaUnidade, EmUnidade
<1>3. PICK c \in Conexoes : c = pedido[p].em
  BY <1>2, Tipos DEF EmUnidade, Inv
<1>. DEFINE ch == RegistroDe(p, empresa, comUsuario, grava, "fixando", c)
<1>4. /\ ch \in Chamada /\ ch.passo = "fixando" /\ ch.empresa = empresa
      /\ ch.comUsuario = comUsuario /\ ch.grava = grava /\ ch.em = c
      /\ ch.linha \in Linha /\ ch.linha.pedido = p /\ ch.linha.n = pedido[p].resta
      /\ ch.linha.unidade = pedido[p].unidade
  BY <1>2, Registro
<1>. HIDE DEF ch
<1>5. IF PrecisaFixar(p, comUsuario)
      THEN /\ conexao' = [conexao EXCEPT ![c].usuario = p]
           /\ chamada' = [chamada EXCEPT ![p][i] = ch]
           /\ consulta' = Nulo
      ELSE /\ Executar(p, i, c, ch, conexao[c].usuario)
           /\ UNCHANGED chamada
  BY <1>1, <1>3 DEF TransacaoDaUnidade, ch
<1>6. UnidadeBoa(p) /\ LinhasBoas(p) /\ pedido \in [Pedidos -> Pedido] /\ pedido[p] \in Pedido
      /\ pedido[p].resta \in Nat /\ chamada \in [Pedidos -> [Calls -> Chamada]]
      /\ conexao \in [Conexoes -> Conexao] /\ conexao[c] \in Conexao
  BY Tipos DEF Inv, Bom, TypeOK
<1>7. /\ conexao[c].dono = p /\ conexao[c].empresa = empresa
      /\ pedido[p].fixado => conexao[c].usuario = p
  BY <1>2, <1>3, <1>6 DEF UnidadeBoa
<1>8. /\ pedido' \in [Pedidos -> Pedido] /\ \A q \in Pedidos \ {p} : pedido'[q] = pedido[q]
      /\ pedido'[p].em = c /\ pedido'[p].unidade = pedido[p].unidade
      /\ pedido'[p].empresa = pedido[p].empresa /\ pedido'[p].passo = pedido[p].passo
      /\ pedido'[p].resposta = pedido[p].resposta /\ pedido'[p].fixado = pedido[p].fixado
      /\ pedido'[p].resta = pedido[p].resta - 1
  <2>1. pedido' = [pedido EXCEPT ![p] = [pedido[p] EXCEPT !.resta = pedido[p].resta - 1]]
    BY <1>1, <1>6
  <2>2. pedido[p].resta - 1 \in Passos \union {0}
    BY <1>2, Resta
  <2>. QED BY <1>3, <1>6, <2>1, <2>2 DEF Pedido
<1>9. pedido'[p].resta <= pedido[p].resta /\ pedido[p].resta > pedido'[p].resta
      /\ UNCHANGED <<banco, perdidas, fila, quedas>>
  BY <1>1, <1>6, <1>8
<1>10. CASE PrecisaFixar(p, comUsuario)
  <2>1. /\ conexao' = [conexao EXCEPT ![c] = [conexao[c] EXCEPT !.usuario = p]]
        /\ chamada' = [chamada EXCEPT ![p] = [chamada[p] EXCEPT ![i] = ch]]
        /\ consulta' = Nulo
    BY <1>5, <1>6, <1>10
  <2>2. /\ conexao' \in [Conexoes -> Conexao] /\ \A d \in Conexoes \ {c} : conexao'[d] = conexao[d]
        /\ conexao'[c].dono = conexao[c].dono /\ conexao'[c].empresa = conexao[c].empresa
        /\ conexao'[c].usuario = p /\ conexao'[c].linhas = conexao[c].linhas
    BY <1>6, <2>1 DEF Conexao
  <2>3. /\ chamada' \in [Pedidos -> [Calls -> Chamada]] /\ chamada'[p][i] = ch
        /\ \A q \in Pedidos \ {p} : chamada'[q] = chamada[q]
        /\ \A j \in Calls \ {i} : chamada'[p][j] = chamada[p][j]
    BY <1>4, <1>6, <2>1
  <2>4. TypeOK' /\ EscopoDaConsulta'
    BY <1>8, <1>9, <2>1, <2>2, <2>3 DEF Inv, TypeOK, EscopoDaConsulta
  <2>5. ChamadaBoa(p, i)'
    <3>1. grava => \A j \in Calls \ {i} : chamada'[p][j].passo = "livre"
      BY <1>2, <2>3
    <3>2. EmUnidade(p)'
      BY <1>2, <1>3, <1>8 DEF EmUnidade
    <3>. QED BY <1>2, <1>4, <1>8, <1>9, <2>3, <3>1, <3>2 DEF ChamadaBoa, Abertas
  <2>6. \A l \in Todas : l.pedido = p => l.n > chamada'[p][i].linha.n
    BY <1>4, <1>6, <2>3 DEF LinhasBoas
  <2>7. {} \in SUBSET Linha /\ conexao'[c].linhas = conexao[c].linhas \union {}
        /\ chamada'[p][i].passo = "fixando"
    BY <1>4, <2>2, <2>3
  <2>8. \A j \in Calls \ {i} : ~(chamada[p][j].passo # "livre" /\ chamada[p][j].grava)
    BY <1>2
  <2>. QED BY <1>2, <1>3, <1>8, <1>9, <2>2, <2>3, <2>4, <2>5, <2>6, <2>7, <2>8, PassoNaUnidade
<1>11. CASE ~PrecisaFixar(p, comUsuario)
  <2>1. Executar(p, i, c, ch, conexao[c].usuario) /\ UNCHANGED chamada
    BY <1>5, <1>11
  <2>2. ch.comUsuario => conexao[c].usuario = p
    BY <1>4, <1>7, <1>11 DEF PrecisaFixar
  <2>3. conexao[c].usuario \in Pedidos \union {Nulo} /\ conexao[c].empresa = ch.empresa
    BY <1>4, <1>6, <1>7 DEF Conexao
  <2>4. /\ EscopoDaConsulta' /\ consulta' \in Consulta \union {Nulo}
        /\ conexao' \in [Conexoes -> Conexao]
        /\ \A d \in Conexoes \ {c} : conexao'[d] = conexao[d]
        /\ conexao'[c].dono = conexao[c].dono /\ conexao'[c].empresa = conexao[c].empresa
        /\ conexao'[c].usuario = conexao[c].usuario
        /\ ch.grava => conexao'[c].linhas = conexao[c].linhas \union {ch.linha}
        /\ ~ch.grava => conexao'[c].linhas = conexao[c].linhas
    BY <1>4, <2>1, <2>2, <2>3, Execucao
  <2>5. TypeOK'
    BY <1>8, <1>9, <2>1, <2>4 DEF Inv, TypeOK
  <2>. DEFINE novas == IF ch.grava THEN {ch.linha} ELSE {}
  <2>6. /\ novas \in SUBSET Linha /\ conexao'[c].linhas = conexao[c].linhas \union novas
        /\ \A l \in novas : l = ch.linha /\ ch.grava
    BY <1>4, <2>4
  <2>. HIDE DEF novas
  <2>7. \A l \in novas : /\ l.pedido = p /\ l.unidade = pedido[p].unidade
                         /\ l.n > pedido'[p].resta
                         /\ \A j \in Calls : ~NaoEscrita(chamada'[p][j])
    <3>1. ch.grava => \A j \in Calls : ~NaoEscrita(chamada'[p][j])
      BY <1>2, <1>4, <2>1 DEF NaoEscrita
    <3>. QED BY <1>4, <1>9, <2>6, <3>1
  <2>8. ChamadaBoa(p, i)' /\ ~NaoEscrita(chamada'[p][i]) /\ chamada'[p][i].passo = "livre"
    BY <1>2, <2>1 DEF ChamadaBoa, Abertas, NaoEscrita
  <2>9. \A q \in Pedidos : chamada'[q] = chamada[q]
    BY <2>1
  <2>10. pedido'[p].fixado => conexao'[c].usuario = p
    BY <1>7, <1>8, <2>4
  <2>11. NaoEscrita(chamada'[p][i]) => \A l \in Todas : l.pedido = p => l.n > chamada'[p][i].linha.n
    BY <2>8
  <2>12. \A j \in Calls \ {i} : ~(chamada[p][j].passo # "livre" /\ chamada[p][j].grava)
    BY <1>2
  <2>. QED BY <1>2, <1>3, <1>8, <1>9, <2>4, <2>5, <2>6, <2>7, <2>8, <2>9, <2>10, <2>11,
              <2>12, PassoNaUnidade
<1>. QED BY <1>10, <1>11

-----------------------------------------------------------------------------
(* The pool and the process.                                               *)

\* Who gets a connection leaves the queue, and does not wait any more.
LEMMA FilaAnda ==
    ASSUME Inv, fila # << >>, fila' = Tail(fila),
           \A q \in Pedidos : <<q, 0>> # Head(fila) => pedido'[q].passo = pedido[q].passo,
           \A q \in Pedidos : \A j \in Calls :
              <<q, j>> # Head(fila) => chamada'[q][j].passo = chamada[q][j].passo
    PROVE  FilaBoa' /\ fila' \in Seq(Pedidos \X (0..2))
<1>1. fila \in Seq(Pedidos \X (0..2)) /\ Len(fila) \in Nat /\ Len(fila) > 0
  BY DEF Inv, TypeOK
<1>2. fila' \in Seq(Pedidos \X (0..2)) /\ Len(fila') = Len(fila) - 1
      /\ \A k \in 1..Len(fila') : fila'[k] = fila[k + 1]
  BY <1>1
<1>3. Head(fila) = fila[1] /\ 1 \in 1..Len(fila)
  BY <1>1
<1>4. FilaBoa
  BY DEF Inv
<1>5. ASSUME NEW k \in 1..Len(fila')
      PROVE  /\ k + 1 \in 1..Len(fila) /\ fila'[k] = fila[k + 1] /\ fila'[k] # Head(fila)
             /\ fila'[k][1] \in Pedidos /\ fila'[k][2] \in {0} \union Calls
             /\ fila'[k] = <<fila'[k][1], fila'[k][2]>>
  <2>1. k + 1 \in 1..Len(fila) /\ fila'[k] = fila[k + 1] /\ k + 1 # 1
    BY <1>1, <1>2
  <2>2. fila[k + 1] # fila[1]
    BY <1>3, <1>4, <2>1 DEF FilaBoa
  <2>3. fila[k + 1] \in Pedidos \X (0..2)
    BY <1>1, <2>1
  <2>. QED BY <1>3, <2>1, <2>2, <2>3 DEF Calls
<1>6. ASSUME NEW k \in 1..Len(fila')
      PROVE  IF fila'[k][2] = 0 THEN pedido'[fila'[k][1]].passo = "espera"
             ELSE chamada'[fila'[k][1]][fila'[k][2]].passo = "espera"
  <2>1. IF fila'[k][2] = 0 THEN pedido[fila'[k][1]].passo = "espera"
        ELSE chamada[fila'[k][1]][fila'[k][2]].passo = "espera"
    BY <1>4, <1>5 DEF FilaBoa
  <2>2. CASE fila'[k][2] = 0
    BY <1>5, <2>1, <2>2
  <2>3. CASE fila'[k][2] # 0
    BY <1>5, <2>1, <2>3
  <2>. QED BY <2>2, <2>3
<1>7. ASSUME NEW k \in 1..Len(fila'), NEW l \in 1..Len(fila'), fila'[k] = fila'[l]
      PROVE  k = l
  <2>1. k + 1 = l + 1
    BY <1>4, <1>5, <1>7 DEF FilaBoa
  <2>. QED BY <1>2, <2>1
<1>. QED BY <1>2, <1>6, <1>7 DEF FilaBoa

\* The unit at the head of the queue gets connection c.
LEMMA TomarUnidade ==
    ASSUME Inv, NEW p \in Pedidos, NEW c \in Conexoes, fila # << >>, Head(fila) = <<p, 0>>,
           fila' = Tail(fila), conexao[c].dono = Nulo, pedido[p].passo = "espera",
           conexao' = [conexao EXCEPT ![c] = [dono |-> p, empresa |-> pedido[p].empresa,
                                              usuario |-> Nulo, linhas |-> {}]],
           pedido' = [pedido EXCEPT ![p] = [pedido[p] EXCEPT
                                               !.passo = "codigo", !.em = c, !.fundo = 1]],
           UNCHANGED <<banco, perdidas, chamada, quedas>>, consulta' = Nulo
    PROVE  Inv'
<1>1. /\ UnidadeBoa(p) /\ LinhasBoas(p) /\ pedido \in [Pedidos -> Pedido] /\ pedido[p] \in Pedido
      /\ conexao \in [Conexoes -> Conexao] /\ p # Nulo /\ pedido[p].empresa \in Empresas
      /\ pedido[p].resta \in Nat /\ c # Nulo
  BY Tipos DEF Inv, Bom, TypeOK
<1>2. /\ Parado(p) /\ ~EmUnidade(p) /\ pedido[p].resta < pedido[p].unidade
      /\ pedido[p].unidade <= MaxPassos[p] /\ pedido[p].resta <= MaxPassos[p]
      /\ ~pedido[p].fixado /\ pedido[p].resposta = "nenhuma"
  BY <1>1 DEF UnidadeBoa, ComUnidade
<1>3. /\ pedido' \in [Pedidos -> Pedido] /\ \A q \in Pedidos \ {p} : pedido'[q] = pedido[q]
      /\ pedido'[p].em = c /\ pedido'[p].unidade = pedido[p].unidade
      /\ pedido'[p].empresa = pedido[p].empresa /\ pedido'[p].passo = "codigo"
      /\ pedido'[p].resposta = pedido[p].resposta /\ pedido'[p].fixado = pedido[p].fixado
      /\ pedido'[p].resta = pedido[p].resta
  <2>1. 1 \in 0..MaxFundo
    BY UnidadeAssumption DEF UnidadeAssumption
  <2>. QED BY <1>1, <2>1 DEF Pedido
<1>4. /\ conexao' \in [Conexoes -> Conexao] /\ \A d \in Conexoes \ {c} : conexao'[d] = conexao[d]
      /\ conexao'[c].dono = p /\ conexao'[c].empresa = pedido[p].empresa
      /\ conexao'[c].linhas = {}
  BY <1>1 DEF Conexao
<1>5. conexao[c].linhas = {}
  BY DEF Inv, ConexaoBoa
<1>6. FilaBoa' /\ fila' \in Seq(Pedidos \X (0..2))
  <2>1. \A q \in Pedidos : <<q, 0>> # Head(fila) => pedido'[q].passo = pedido[q].passo
    BY <1>3
  <2>. QED BY <2>1, FilaAnda
<1>7. TypeOK' /\ EscopoDaConsulta'
  BY <1>3, <1>4, <1>6 DEF Inv, TypeOK, EscopoDaConsulta
<1>8. UnidadeBoa(p)'
  BY <1>1, <1>2, <1>3, <1>4 DEF UnidadeBoa, ComUnidade, EmUnidade
<1>9. LinhasBoas(p)'
  <2>1. Todas' \subseteq Todas
    <3>1. \A d \in Conexoes : conexao'[d].linhas = conexao[d].linhas
      BY <1>4, <1>5
    <3>. QED BY <3>1 DEF Todas
  <2>2. ComUnidade(p)
    BY DEF ComUnidade
  <2>3. \A l \in perdidas : l.pedido # p
    BY <1>1 DEF LinhasBoas
  <2>. QED BY <1>1, <1>3, <2>1, <2>2, <2>3 DEF LinhasBoas
<1>10. \A i \in Calls : ChamadaBoa(p, i)'
  BY <1>2 DEF ChamadaBoa, Abertas, Parado
<1>11. Bom(p)'
  BY <1>8, <1>9, <1>10 DEF Bom
<1>12. ASSUME NEW d \in Conexoes, conexao[d].dono = p PROVE FALSE
  <2>1. pedido[p].em = d \/ \E i \in Calls : chamada[p][i].passo \in Abertas
    BY <1>1, <1>12 DEF Inv, ConexaoBoa
  <2>2. pedido[p].em = Nulo /\ d # Nulo
    BY <1>2, Tipos DEF EmUnidade, Inv
  <2>. QED BY <1>2, <2>1, <2>2 DEF Parado, Abertas
<1>13. ConexaoBoa(c)'
  BY <1>3, <1>4 DEF ConexaoBoa
<1>14. \A d \in Conexoes : /\ \/ conexao'[d] = conexao[d] /\ conexao[d].dono # p
                              \/ conexao[d].dono \in {p, Nulo} /\ ConexaoBoa(d)'
                           /\ conexao'[d].linhas \subseteq conexao[d].linhas
  BY <1>4, <1>5, <1>12, <1>13
<1>15. banco' \union perdidas' \subseteq Todas
  BY DEF Todas
<1>. QED BY <1>3, <1>6, <1>7, <1>11, <1>14, <1>15, Passo

\* The call at the head of the queue gets connection c.
LEMMA TomarChamada ==
    ASSUME Inv, NEW p \in Pedidos, NEW i \in Calls, NEW c \in Conexoes, fila # << >>,
           Head(fila) = <<p, i>>, fila' = Tail(fila), conexao[c].dono = Nulo,
           chamada[p][i].passo = "espera",
           conexao' = [conexao EXCEPT ![c] =
                         [dono |-> p, empresa |-> chamada[p][i].empresa,
                          usuario |-> IF chamada[p][i].comUsuario THEN p ELSE Nulo,
                          linhas |-> {}]],
           chamada' = [chamada EXCEPT ![p] = [chamada[p] EXCEPT ![i] =
                         [chamada[p][i] EXCEPT !.passo = "aberta", !.em = c]]],
           UNCHANGED <<banco, perdidas, pedido, quedas>>, consulta' = Nulo
    PROVE  Inv'
<1>. DEFINE ch == chamada[p][i]
<1>1. /\ UnidadeBoa(p) /\ LinhasBoas(p) /\ \A j \in Calls : ChamadaBoa(p, j)
      /\ conexao \in [Conexoes -> Conexao] /\ p # Nulo /\ ch \in Chamada
      /\ chamada \in [Pedidos -> [Calls -> Chamada]]
      /\ pedido[p].resta \in Nat /\ c # Nulo
  BY Tipos DEF Inv, Bom, TypeOK
<1>2. /\ ch.empresa \in Empresas /\ ch.linha \in Linha /\ ch.linha.pedido = p
      /\ ch.linha.n > pedido[p].resta /\ ch.linha.unidade = ch.linha.n /\ ~EmUnidade(p)
      /\ ch.grava => \A j \in Calls \ {i} : chamada[p][j].passo = "livre"
  BY <1>1 DEF ChamadaBoa
<1>3. /\ chamada' \in [Pedidos -> [Calls -> Chamada]]
      /\ chamada'[p][i].passo = "aberta" /\ chamada'[p][i].em = c
      /\ chamada'[p][i].empresa = ch.empresa /\ chamada'[p][i].comUsuario = ch.comUsuario
      /\ chamada'[p][i].grava = ch.grava /\ chamada'[p][i].linha = ch.linha
      /\ \A q \in Pedidos \ {p} : chamada'[q] = chamada[q]
      /\ \A j \in Calls \ {i} : chamada'[p][j] = chamada[p][j]
  <2>1. [chamada[p][i] EXCEPT !.passo = "aberta", !.em = c] \in Chamada
    BY <1>1 DEF Chamada
  <2>. QED BY <1>1, <2>1 DEF Chamada
<1>4. /\ conexao' \in [Conexoes -> Conexao] /\ \A d \in Conexoes \ {c} : conexao'[d] = conexao[d]
      /\ conexao'[c].dono = p /\ conexao'[c].empresa = ch.empresa
      /\ ch.comUsuario => conexao'[c].usuario = p
      /\ conexao'[c].linhas = {}
  BY <1>1, <1>2 DEF Conexao
<1>. HIDE DEF ch
<1>5. conexao[c].linhas = {}
  BY DEF Inv, ConexaoBoa
<1>6. FilaBoa' /\ fila' \in Seq(Pedidos \X (0..2))
  <2>1. \A q \in Pedidos : \A j \in Calls :
           <<q, j>> # Head(fila) => chamada'[q][j].passo = chamada[q][j].passo
    BY <1>3
  <2>. QED BY <2>1, FilaAnda
<1>7. TypeOK' /\ EscopoDaConsulta'
  BY <1>3, <1>4, <1>6 DEF Inv, TypeOK, EscopoDaConsulta
<1>8. UnidadeBoa(p)'
  <2>1. ~Parado(p)
    BY DEF Parado
  <2>. QED BY <1>1, <1>2, <2>1 DEF UnidadeBoa, ComUnidade, EmUnidade
<1>9. LinhasBoas(p)'
  <2>1. Todas' \subseteq Todas
    <3>1. \A d \in Conexoes : conexao'[d].linhas = conexao[d].linhas
      BY <1>4, <1>5
    <3>. QED BY <3>1 DEF Todas
  <2>2. \A j \in Calls : NaoEscrita(chamada'[p][j]) =>
           NaoEscrita(chamada[p][j]) /\ chamada'[p][j].linha = chamada[p][j].linha
    BY <1>3 DEF NaoEscrita, ch
  <2>. QED BY <1>1, <2>1, <2>2 DEF LinhasBoas, ComUnidade, EmUnidade
<1>10. ASSUME NEW j \in Calls PROVE ChamadaBoa(p, j)'
  <2>1. \A k \in Calls : chamada[p][k].passo \in Abertas => chamada[p][k].em # c
    <3>1. \A k \in Calls : chamada[p][k].passo \in Abertas => conexao[chamada[p][k].em].dono = p
      <4>. SUFFICES ASSUME NEW k \in Calls, ChamadaBoa(p, k)
                    PROVE  chamada[p][k].passo \in Abertas => conexao[chamada[p][k].em].dono = p
        BY <1>1
      <4>. QED BY DEF ChamadaBoa
    <3>. QED BY <1>1, <3>1
  <2>2. CASE j = i
    <3>1. \A k \in Calls \ {i} :
             chamada'[p][k].passo \in Abertas => chamada'[p][k].em # chamada'[p][i].em
      BY <1>3, <2>1
    <3>2. /\ chamada'[p][i].empresa \in Empresas /\ chamada'[p][i].linha \in Linha
          /\ chamada'[p][i].linha.pedido = p /\ chamada'[p][i].linha.n > pedido'[p].resta
          /\ chamada'[p][i].linha.unidade = chamada'[p][i].linha.n
          /\ chamada'[p][i].em # Nulo /\ ~EmUnidade(p)'
          /\ chamada'[p][i].grava => \A k \in Calls \ {i} : chamada'[p][k].passo = "livre"
      BY <1>1, <1>2, <1>3 DEF EmUnidade
    <3>3. LET d == chamada'[p][i].em IN
          /\ conexao'[d].dono = p /\ conexao'[d].empresa = chamada'[p][i].empresa
          /\ chamada'[p][i].comUsuario => conexao'[d].usuario = p
          /\ conexao'[d].linhas = {}
      BY <1>3, <1>4
    <3>. QED BY <1>3, <2>2, <3>1, <3>2, <3>3 DEF ChamadaBoa, Abertas
  <2>3. CASE j # i
    <3>1. ChamadaBoa(p, j) /\ chamada'[p][j] = chamada[p][j]
      BY <1>1, <1>3, <2>3
    <3>2. chamada[p][j].passo \in Abertas =>
             conexao'[chamada[p][j].em] = conexao[chamada[p][j].em]
      <4>1. chamada[p][j].em \in Conexoes \union {Nulo}
        BY Tipos DEF Inv
      <4>. QED BY <1>4, <2>1, <3>1, <4>1 DEF ChamadaBoa
    <3>3. chamada[p][j].passo # "livre" => ~chamada[p][j].grava
      BY <2>3, <3>1 DEF ChamadaBoa
    <3>4. chamada[p][j].passo \in Abertas =>
             \A k \in Calls \ {j} :
                chamada'[p][k].passo \in Abertas => chamada'[p][k].em # chamada[p][j].em
      BY <1>3, <2>1, <3>1 DEF ChamadaBoa
    <3>. QED BY <1>1, <3>1, <3>2, <3>3, <3>4, ChamadaIntacta
  <2>. QED BY <2>2, <2>3
<1>11. Bom(p)'
  BY <1>8, <1>9, <1>10 DEF Bom
<1>12. ASSUME NEW d \in Conexoes, conexao[d].dono = p PROVE ConexaoBoa(d)'
  <2>1. d # c /\ conexao'[d].dono = p
    BY <1>1, <1>4, <1>12
  <2>2. pedido[p].em = d
        \/ \E j \in Calls : chamada[p][j].passo \in Abertas /\ chamada[p][j].em = d
    BY <1>1, <1>12 DEF Inv, ConexaoBoa
  <2>3. pedido[p].em = d
        \/ \E j \in Calls : chamada'[p][j].passo \in Abertas /\ chamada'[p][j].em = d
    BY <1>3, <2>2 DEF Abertas
  <2>. QED BY <1>1, <2>1, <2>3 DEF ConexaoBoa
<1>13. ConexaoBoa(c)'
  BY <1>3, <1>4 DEF ConexaoBoa, Abertas
<1>14. \A d \in Conexoes : /\ \/ conexao'[d] = conexao[d] /\ conexao[d].dono # p
                              \/ conexao[d].dono \in {p, Nulo} /\ ConexaoBoa(d)'
                           /\ conexao'[d].linhas \subseteq conexao[d].linhas
  BY <1>4, <1>5, <1>12, <1>13
<1>15. banco' \union perdidas' \subseteq Todas
  BY DEF Todas
<1>. QED BY <1>3, <1>6, <1>7, <1>11, <1>14, <1>15, Passo

LEMMA TomarConexaoInv == ASSUME Inv, TomarConexao PROVE Inv'
<1>. DEFINE p == Head(fila)[1]
            i == Head(fila)[2]
<1>1. /\ p \in Pedidos /\ i \in {0} \union Calls /\ Head(fila) = <<p, i>>
      /\ i = 0 => pedido[p].passo = "espera"
      /\ i # 0 => chamada[p][i].passo = "espera"
  <2>1. fila \in Seq(Pedidos \X (0..2)) /\ fila # << >> /\ FilaBoa
    BY DEF TomarConexao, Inv, TypeOK
  <2>2. 1 \in 1..Len(fila) /\ Head(fila) = fila[1] /\ fila[1] \in Pedidos \X (0..2)
    BY <2>1
  <2>. QED BY <2>1, <2>2 DEF FilaBoa, Calls
<1>. HIDE DEF p, i
<1>2. PICK c \in Conexoes :
        /\ conexao[c].dono = Nulo
        /\ IF i = 0
           THEN /\ conexao' = [conexao EXCEPT ![c] =
                     [dono |-> p, empresa |-> pedido[p].empresa, usuario |-> Nulo, linhas |-> {}]]
                /\ pedido' = [pedido EXCEPT ![p].passo = "codigo", ![p].em = c, ![p].fundo = 1]
                /\ UNCHANGED chamada
           ELSE /\ conexao' = [conexao EXCEPT ![c] =
                     [dono |-> p, empresa |-> chamada[p][i].empresa,
                      usuario |-> IF chamada[p][i].comUsuario THEN p ELSE Nulo, linhas |-> {}]]
                /\ chamada' = [chamada EXCEPT ![p][i].passo = "aberta", ![p][i].em = c]
                /\ UNCHANGED pedido
  BY DEF TomarConexao, p, i
<1>3. fila # << >> /\ fila' = Tail(fila) /\ consulta' = Nulo
      /\ UNCHANGED <<banco, perdidas, quedas>>
  BY DEF TomarConexao
<1>4. pedido \in [Pedidos -> Pedido] /\ chamada \in [Pedidos -> [Calls -> Chamada]]
  BY DEF Inv, TypeOK
<1>5. CASE i = 0
  <2>1. pedido' = [pedido EXCEPT ![p] = [pedido[p] EXCEPT
                                            !.passo = "codigo", !.em = c, !.fundo = 1]]
    BY <1>1, <1>2, <1>4, <1>5
  <2>. QED BY <1>1, <1>2, <1>3, <1>5, <2>1, TomarUnidade
<1>6. CASE i # 0
  <2>1. i \in Calls
    BY <1>1, <1>6
  <2>2. chamada' = [chamada EXCEPT ![p] = [chamada[p] EXCEPT ![i] =
                         [chamada[p][i] EXCEPT !.passo = "aberta", !.em = c]]]
    BY <1>1, <1>2, <1>4, <1>6, <2>1
  <2>. QED BY <1>1, <1>2, <1>3, <1>6, <2>1, <2>2, TomarChamada
<1>. QED BY <1>5, <1>6

\* Nothing is kept and nobody waits: so it is before the first step, and after a death.
Repouso ==
    /\ banco \subseteq Linha /\ perdidas \subseteq Linha /\ quedas \in 0..MaxQuedas
    /\ conexao = [c \in Conexoes |-> SemTransacao] /\ fila = << >> /\ consulta = Nulo
    /\ chamada = [p \in Pedidos |-> [i \in Calls |-> SemChamada]]
    /\ pedido \in [Pedidos -> Pedido]
    /\ \A p \in Pedidos :
          /\ pedido[p].em = Nulo /\ pedido[p].fixado = FALSE /\ pedido[p].fundo = 0
          /\ pedido[p].passo \in {"codigo", "fim"} /\ pedido[p].resta <= MaxPassos[p]
          /\ pedido[p].passo # "fim" => pedido[p].resposta = "nenhuma"
          /\ \A l \in banco \union perdidas : l.pedido = p => l.n > pedido[p].resta
          /\ \A l \in perdidas : l.pedido = p => pedido[p].passo = "fim"

LEMMA RepousoInv == Repouso => Inv
<1>. SUFFICES ASSUME Repouso PROVE Inv
  OBVIOUS
<1>. USE DEF Repouso
<1>1. SemTransacao \in Conexao /\ SemTransacao.dono = Nulo /\ SemTransacao.linhas = {}
  BY DEF SemTransacao, Conexao
<1>2. SemChamada \in Chamada /\ SemChamada.passo = "livre"
  BY DEF SemChamada, Chamada
<1>. HIDE DEF SemTransacao, SemChamada
<1>3. TypeOK /\ EscopoDaConsulta /\ FilaBoa
  BY <1>1, <1>2 DEF TypeOK, EscopoDaConsulta, FilaBoa
<1>4. \A c \in Conexoes : ConexaoBoa(c) /\ conexao[c].linhas = {}
  BY <1>1 DEF ConexaoBoa
<1>5. Todas = banco \union perdidas
  BY <1>4 DEF Todas
<1>6. ASSUME NEW p \in Pedidos PROVE Bom(p)
  <2>1. \A i \in Calls : chamada[p][i].passo = "livre" /\ ChamadaBoa(p, i)
    BY <1>2 DEF ChamadaBoa, Abertas
  <2>2. UnidadeBoa(p)
    BY DEF UnidadeBoa, ComUnidade, EmUnidade
  <2>3. LinhasBoas(p)
    BY <1>5, <2>1 DEF LinhasBoas, ComUnidade, EmUnidade, NaoEscrita
  <2>. QED BY <2>1, <2>2, <2>3 DEF Bom
<1>. QED BY <1>3, <1>4, <1>6 DEF Inv

LEMMA InicioInv == Init => Inv
<1>. SUFFICES ASSUME Init PROVE Inv
  OBVIOUS
<1>1. PICK empresa \in [Pedidos -> Empresas] :
         pedido = [p \in Pedidos |->
                     [empresa |-> empresa[p], passo |-> "codigo", resta |-> MaxPassos[p],
                      unidade |-> 0, fundo |-> 0, em |-> Nulo, fixado |-> FALSE,
                      resposta |-> "nenhuma"]]
  BY DEF Init
<1>2. \A p \in Pedidos : MaxPassos[p] \in Nat /\ MaxPassos[p] \in Passos \union {0}
  <2>1. ASSUME NEW p \in Pedidos PROVE MaxPassos[p] \in Passos \union {0}
    <3>1. MaxPassos[p] \in Nat /\ (MaxPassos[p] # 0 => MaxPassos[p] \in 1..MaxPassos[p])
      BY DosPassos
    <3>. QED BY <3>1, DosPassos
  <2>. QED BY <2>1, DosPassos
<1>3. 0 \in 0..MaxFundo /\ 0 \in 0..MaxQuedas
  BY UnidadeAssumption DEF UnidadeAssumption
<1>4. pedido \in [Pedidos -> Pedido]
  BY <1>1, <1>2, <1>3 DEF Pedido
<1>5. ASSUME NEW p \in Pedidos
      PROVE  /\ pedido[p].em = Nulo /\ pedido[p].fixado = FALSE /\ pedido[p].fundo = 0
             /\ pedido[p].passo = "codigo" /\ pedido[p].resta <= MaxPassos[p]
             /\ pedido[p].resposta = "nenhuma"
  <2>1. pedido[p] = [empresa |-> empresa[p], passo |-> "codigo", resta |-> MaxPassos[p],
                     unidade |-> 0, fundo |-> 0, em |-> Nulo, fixado |-> FALSE,
                     resposta |-> "nenhuma"]
    BY <1>1
  <2>2. MaxPassos[p] \in Nat
    BY <1>2
  <2>3. MaxPassos[p] <= MaxPassos[p]
    BY <2>2
  <2>. QED BY <2>1, <2>3
<1>. QED BY <1>3, <1>4, <1>5, RepousoInv DEF Init, Repouso

LEMMA CairInv == ASSUME Inv, Cair PROVE Inv'
<1>1. /\ banco \subseteq Linha /\ perdidas \subseteq Linha /\ pedido \in [Pedidos -> Pedido]
      /\ \A c \in Conexoes : conexao[c].linhas \subseteq Linha
  BY DEF Inv, TypeOK, Conexao
<1>2. /\ banco' = banco /\ perdidas' = perdidas \union UNION {conexao[c].linhas : c \in Conexoes}
      /\ pedido' = [p \in Pedidos |-> [ForaDaUnidade(p) EXCEPT !.passo = "fim"]]
      /\ quedas' \in 0..MaxQuedas
  BY UnidadeAssumption DEF Cair, Inv, TypeOK, UnidadeAssumption
<1>3. banco' \subseteq Linha /\ perdidas' \subseteq Linha /\ banco' \union perdidas' \subseteq Todas
  BY <1>1, <1>2 DEF Todas
<1>4. ASSUME NEW p \in Pedidos
      PROVE  /\ pedido'[p] \in Pedido /\ pedido'[p].em = Nulo /\ pedido'[p].fixado = FALSE
             /\ pedido'[p].fundo = 0 /\ pedido'[p].passo = "fim"
             /\ pedido'[p].resta = pedido[p].resta
  <2>1. 0 \in 0..MaxFundo
    BY UnidadeAssumption DEF UnidadeAssumption
  <2>2. LET r == [ForaDaUnidade(p) EXCEPT !.passo = "fim"]
        IN  /\ r \in Pedido /\ r.em = Nulo /\ r.fixado = FALSE /\ r.fundo = 0
            /\ r.passo = "fim" /\ r.resta = pedido[p].resta
    BY <1>1, <2>1 DEF Pedido, ForaDaUnidade
  <2>. HIDE DEF ForaDaUnidade
  <2>. QED BY <1>2, <2>2
<1>5. pedido' \in [Pedidos -> Pedido]
  <2>. HIDE DEF ForaDaUnidade
  <2>. QED BY <1>2, <1>4
<1>6. \A p \in Pedidos :
         /\ pedido[p].resta <= MaxPassos[p]
         /\ \A l \in Todas : l.pedido = p => l.n > pedido[p].resta
  BY DEF Inv, Bom, UnidadeBoa, LinhasBoas
<1>7. Repouso'
  BY <1>2, <1>3, <1>4, <1>5, <1>6 DEF Repouso, Cair
<1>8. Repouso' => Inv'
  BY RepousoInv, PTL
<1>. QED BY <1>7, <1>8

LEMMA PassoInv == Inv /\ [Next]_vars => Inv'
<1>. SUFFICES ASSUME Inv, [Next]_vars PROVE Inv'
  OBVIOUS
<1>1. ASSUME NEW p \in Pedidos, DoPedido(p) PROVE Inv'
  BY <1>1, AninharInv, AbrirUnidadeInv, FecharAninhadaInv, FecharUnidadeInv, FalharAoFecharInv,
     LancarInv, ConcluirInv, ChamarForaInv, ChamarDentroInv DEF DoPedido
<1>2. ASSUME NEW p \in Pedidos, NEW i \in Calls, DaChamada(p, i) PROVE Inv'
  BY <1>2, FixarInv, ExecutarSozinhaInv, ConfirmarSozinhaInv, FalharSozinhaInv DEF DaChamada
<1>3. CASE UNCHANGED vars
  <2>1. UNCHANGED <<banco, perdidas, conexao, fila, pedido, chamada, consulta, quedas>>
    BY <1>3 DEF vars
  <2>2. TypeOK' /\ EscopoDaConsulta' /\ FilaBoa' /\ UNCHANGED Todas
    BY <2>1 DEF Inv, TypeOK, EscopoDaConsulta, FilaBoa, Todas
  <2>3. \A p \in Pedidos : Bom(p)'
    BY <2>1, <2>2, Alheio
  <2>4. \A c \in Conexoes : ConexaoBoa(c)'
    BY <2>1 DEF Inv, ConexaoBoa
  <2>. QED BY <2>2, <2>3, <2>4 DEF Inv
<1>. QED BY <1>1, <1>2, <1>3, TomarConexaoInv, CairInv DEF Next

-----------------------------------------------------------------------------
(* Theorems.                                                               *)

\* Who has a connection has it alone, and what was written keeps its order: the
\* invariant the rest follows from (DrizzleUnitOfWork, withTenant).
THEOREM InvSempre == Spec => []Inv
BY InicioInv, PassoInv, PTL DEF Spec

\* The state of the pool, of the requests and of the database has its types.
THEOREM TiposSempre == Spec => []TypeOK
<1>1. Inv => TypeOK
  BY DEF Inv
<1>. QED BY <1>1, InvSempre, PTL

\* Every statement runs under the company, and the person, its call asked for:
\* for any number of requests and connections, however they take turns on them.
THEOREM EscopoSempre == Spec => []EscopoDaConsulta
<1>1. Inv => EscopoDaConsulta
  BY DEF Inv
<1>. QED BY <1>1, InvSempre, PTL

-----------------------------------------------------------------------------
(* All or nothing.                                                         *)

\* The rows written and not stored yet, and the answers: what TudoOuNada is told.
Pendentes == UNION {conexao[c].linhas : c \in Conexoes}

Respostas == [p \in Pedidos |-> pedido[p].resposta]

UnidadeDe(l) == <<l.pedido, l.unidade>>

TodosCalados == \A p \in Pedidos : Calado(p)

\* Until it ends, the code of p answers nobody.
LEMMA CodigoNaoResponde ==
    ASSUME Inv, NEW p \in Pedidos,
           \/ Aninhar(p) \/ AbrirUnidade(p) \/ FecharAninhada(p) \/ FecharUnidade(p)
           \/ FalharAoFechar(p)
    PROVE  \A q \in Pedidos : pedido'[q].resposta = pedido[q].resposta
<1>0. pedido \in [Pedidos -> Pedido] /\ pedido[p] \in Pedido
  BY DEF Inv, TypeOK
<1>1. CASE Aninhar(p) \/ AbrirUnidade(p) \/ FecharAninhada(p)
  <2>1. CASE Aninhar(p)
    BY <1>0, <2>1 DEF Aninhar, Pedido
  <2>2. CASE AbrirUnidade(p)
    <3>1. pedido' = [pedido EXCEPT ![p] = [pedido[p] EXCEPT !.passo = "espera",
                        !.unidade = pedido[p].resta, !.resta = pedido[p].resta - 1]]
      BY <1>0, <2>2 DEF AbrirUnidade
    <3>. QED BY <1>0, <3>1 DEF Pedido
  <2>3. CASE FecharAninhada(p)
    BY <1>0, <2>3 DEF FecharAninhada, Pedido
  <2>. QED BY <1>1, <2>1, <2>2, <2>3
<1>2. /\ ForaDaUnidade(p).resposta = pedido[p].resposta
      /\ [ForaDaUnidade(p) EXCEPT !.passo = "erro"].resposta = pedido[p].resposta
  BY <1>0 DEF ForaDaUnidade, Pedido
<1>3. CASE FecharUnidade(p) \/ FalharAoFechar(p)
  BY <1>0, <1>2, <1>3 DEF FecharUnidade, FalharAoFechar
<1>. QED BY <1>1, <1>3

\* Nor does the pool, which serves a request that waits.
LEMMA TomarNaoResponde ==
    ASSUME Inv, TomarConexao
    PROVE  \A q \in Pedidos :
              /\ pedido'[q].resposta = pedido[q].resposta
              /\ pedido[q].passo = "fim" /\ Parado(q) => pedido'[q].passo = "fim" /\ Parado(q)'
<1>. DEFINE p == Head(fila)[1]
            i == Head(fila)[2]
<1>1. /\ p \in Pedidos /\ i \in {0} \union Calls
      /\ i = 0 => pedido[p].passo = "espera"
      /\ i # 0 => chamada[p][i].passo = "espera"
  <2>1. fila \in Seq(Pedidos \X (0..2)) /\ fila # << >> /\ FilaBoa
    BY DEF TomarConexao, Inv, TypeOK
  <2>2. 1 \in 1..Len(fila) /\ Head(fila) = fila[1] /\ fila[1] \in Pedidos \X (0..2)
    BY <2>1
  <2>. QED BY <2>1, <2>2 DEF FilaBoa, Calls
<1>2. \/ /\ i = 0 /\ UNCHANGED chamada
         /\ \E c \in Conexoes : pedido' = [pedido EXCEPT ![p].passo = "codigo", ![p].em = c,
                                                         ![p].fundo = 1]
      \/ /\ i # 0 /\ UNCHANGED pedido
         /\ \E c \in Conexoes : chamada' = [chamada EXCEPT ![p][i].passo = "aberta",
                                                           ![p][i].em = c]
  BY DEF TomarConexao
<1>. HIDE DEF p, i
<1>3. pedido \in [Pedidos -> Pedido] /\ chamada \in [Pedidos -> [Calls -> Chamada]]
  BY DEF Inv, TypeOK
<1>4. ASSUME NEW c \in Conexoes, i = 0, UNCHANGED chamada,
             pedido' = [pedido EXCEPT ![p].passo = "codigo", ![p].em = c, ![p].fundo = 1],
             NEW q \in Pedidos
      PROVE  /\ pedido'[q].resposta = pedido[q].resposta
             /\ pedido[q].passo = "fim" /\ Parado(q) => pedido'[q].passo = "fim" /\ Parado(q)'
  <2>. DEFINE r == [pedido[p] EXCEPT !.passo = "codigo", !.em = c, !.fundo = 1]
  <2>1. pedido' = [pedido EXCEPT ![p] = r]
    BY <1>1, <1>3, <1>4
  <2>2. r.resposta = pedido[p].resposta
    BY <1>1, <1>3 DEF Pedido
  <2>. HIDE DEF r
  <2>3. pedido'[q] = IF q = p THEN r ELSE pedido[q]
    BY <1>3, <2>1
  <2>. QED BY <1>1, <1>4, <2>2, <2>3 DEF Parado
<1>5. ASSUME NEW c \in Conexoes, i # 0, UNCHANGED pedido,
             chamada' = [chamada EXCEPT ![p][i].passo = "aberta", ![p][i].em = c],
             NEW q \in Pedidos
      PROVE  /\ pedido'[q].resposta = pedido[q].resposta
             /\ pedido[q].passo = "fim" /\ Parado(q) => pedido'[q].passo = "fim" /\ Parado(q)'
  <2>1. ~Parado(p)
    BY <1>1, <1>5 DEF Parado
  <2>2. q # p => chamada'[q] = chamada[q]
    BY <1>3, <1>5
  <2>. QED BY <1>5, <2>1, <2>2 DEF Parado
<1>. QED BY <1>2, <1>4, <1>5

\* An answer "ok" is the last of its request, and nothing is in flight behind it.
LEMMA CaladosPasso == ASSUME Inv, TodosCalados, [Next]_vars PROVE TodosCalados'
<1>. SUFFICES ASSUME NEW p \in Pedidos, pedido'[p].resposta = "ok"
              PROVE  pedido'[p].passo = "fim" /\ Parado(p)'
  BY DEF TodosCalados, Calado
<1>0. /\ pedido \in [Pedidos -> Pedido] /\ pedido[p] \in Pedido
      /\ chamada \in [Pedidos -> [Calls -> Chamada]]
      /\ UnidadeBoa(p) /\ Calado(p)
  BY DEF Inv, TypeOK, Bom, TodosCalados
<1>1. CASE Concluir(p)
  BY <1>0, <1>1 DEF Concluir, Pedido, Parado
<1>2. CASE Lancar(p)
  <2>1. pedido[p].passo # "fim"
    BY <1>2 DEF Lancar
  <2>2. pedido' = [pedido EXCEPT ![p] = [ForaDaUnidade(p) EXCEPT !.passo = "fim",
                                                                 !.resposta = "erro"]]
    BY <1>2 DEF Lancar
  <2>3. [ForaDaUnidade(p) EXCEPT !.passo = "fim", !.resposta = "erro"].resposta = "erro"
    BY <1>0 DEF ForaDaUnidade, Pedido
  <2>. QED BY <1>0, <2>2, <2>3
<1>3. ASSUME pedido'[p].resposta = pedido[p].resposta
      PROVE  pedido[p].passo = "fim" /\ Parado(p)
  BY <1>0, <1>3 DEF Calado
<1>4. CASE \/ Aninhar(p) \/ AbrirUnidade(p) \/ FecharAninhada(p) \/ FecharUnidade(p)
           \/ FalharAoFechar(p)
  <2>1. pedido[p].passo = "codigo"
    BY <1>4 DEF Aninhar, AbrirUnidade, FecharAninhada, FecharUnidade, FalharAoFechar
  <2>2. pedido'[p].resposta = pedido[p].resposta
    BY <1>4, CodigoNaoResponde
  <2>. QED BY <1>3, <2>1, <2>2
<1>5. CASE \E i \in Calls : ChamarFora(p, i) \/ ChamarDentro(p, i)
  <2>1. pedido[p].passo = "codigo" /\ pedido' = [pedido EXCEPT ![p].resta = @ - 1]
    BY <1>5 DEF ChamarFora, ChamarDentro, NovaChamada
  <2>2. pedido'[p].resposta = pedido[p].resposta
    BY <1>0, <2>1 DEF Pedido
  <2>. QED BY <1>3, <2>1, <2>2
<1>6. CASE \E i \in Calls : DaChamada(p, i)
  <2>1. ~Parado(p)
    BY <1>6 DEF DaChamada, Fixar, ExecutarSozinha, ConfirmarSozinha, FalharSozinha, Parado
  <2>2. pedido'[p].resposta = pedido[p].resposta
    BY <1>0, <1>6 DEF DaChamada, Fixar, ExecutarSozinha, ConfirmarSozinha, FalharSozinha, Pedido
  <2>. QED BY <1>3, <2>1, <2>2
<1>7. CASE TomarConexao
  BY <1>3, <1>7, TomarNaoResponde
<1>8. CASE Cair
  <2>1. pedido'[p].passo = "fim"
    BY <1>0, <1>8 DEF Cair, ForaDaUnidade, Pedido
  <2>2. \A i \in Calls : chamada'[p][i].passo = "livre"
    BY <1>8 DEF Cair, SemChamada
  <2>. QED BY <2>1, <2>2 DEF Parado
<1>9. ASSUME NEW q \in Pedidos \ {p}, DoPedido(q) \/ \E i \in Calls : DaChamada(q, i)
      PROVE  pedido'[p] = pedido[p] /\ chamada'[p] = chamada[p]
  BY <1>0, <1>9 DEF DoPedido, DaChamada, Aninhar, AbrirUnidade, FecharAninhada, FecharUnidade,
     FalharAoFechar, Lancar, Concluir, ChamarFora, ChamarDentro, Fixar, ExecutarSozinha,
     ConfirmarSozinha, FalharSozinha
<1>10. CASE UNCHANGED vars
  BY <1>0, <1>10 DEF vars, Calado, Parado
<1>. QED BY <1>1, <1>2, <1>3, <1>4, <1>5, <1>6, <1>7, <1>8, <1>9, <1>10 DEF Next, DoPedido, Parado

\* At any time.
LEMMA CaladosSempre == Spec => []TodosCalados
<1>1. Init => TodosCalados
  BY DEF Init, TodosCalados, Calado
<1>. QED BY <1>1, CaladosPasso, InvSempre, PTL DEF Spec

\* A request has rows pending in one transaction at most, all of one unit.
LEMMA UmaSo ==
    ASSUME Inv, NEW c \in Conexoes, NEW d \in Conexoes, NEW l \in conexao[c].linhas,
           NEW m \in conexao[d].linhas, l.pedido = m.pedido
    PROVE  c = d /\ l.unidade = m.unidade
<1>1. PICK p \in Pedidos : conexao[c].dono = p /\ conexao[d].dono = p
  BY Donas
<1>2. UnidadeBoa(p) /\ \A i \in Calls : ChamadaBoa(p, i)
  BY DEF Inv, Bom
<1>3. ASSUME NEW e \in Conexoes, conexao[e].dono = p
      PROVE  \/ EmUnidade(p) /\ pedido[p].em = e
             \/ ~EmUnidade(p) /\ \E i \in Calls : /\ chamada[p][i].passo \in Abertas
                                                  /\ chamada[p][i].em = e
  <2>1. p # Nulo /\ e # Nulo
    BY Tipos DEF Inv
  <2>2. pedido[p].em = e \/ \E i \in Calls : chamada[p][i].passo \in Abertas
                                              /\ chamada[p][i].em = e
    BY <1>3, <2>1 DEF Inv, ConexaoBoa
  <2>3. \A i \in Calls : chamada[p][i].passo \in Abertas => ~EmUnidade(p)
    BY <1>2 DEF ChamadaBoa
  <2>. QED BY <2>1, <2>2, <2>3 DEF EmUnidade
<1>4. CASE EmUnidade(p)
  <2>1. pedido[p].em = c /\ pedido[p].em = d
    BY <1>1, <1>3, <1>4
  <2>. QED BY <1>2, <1>4, <2>1 DEF UnidadeBoa
<1>5. CASE ~EmUnidade(p)
  <2>1. PICK i \in Calls : chamada[p][i].passo \in Abertas /\ chamada[p][i].em = c
    BY <1>1, <1>3, <1>5
  <2>2. PICK j \in Calls : chamada[p][j].passo \in Abertas /\ chamada[p][j].em = d
    BY <1>1, <1>3, <1>5
  <2>3. /\ chamada[p][i].grava /\ l = chamada[p][i].linha
        /\ \A k \in Calls \ {i} : chamada[p][k].passo = "livre"
    <3>1. ChamadaBoa(p, i) /\ chamada[p][i].passo # "livre"
      BY <1>2, <2>1 DEF Abertas
    <3>2. conexao[c].linhas = IF chamada[p][i].grava /\ chamada[p][i].passo = "confirmando"
                              THEN {chamada[p][i].linha} ELSE {}
      BY <2>1, <3>1 DEF ChamadaBoa
    <3>3. chamada[p][i].grava /\ l = chamada[p][i].linha
      BY <3>2
    <3>. QED BY <3>1, <3>3 DEF ChamadaBoa
  <2>4. i = j /\ c = d
    BY <2>1, <2>2, <2>3 DEF Abertas
  <2>5. m = l
    <3>1. ChamadaBoa(p, i)
      BY <1>2
    <3>. QED BY <2>1, <2>4, <3>1 DEF ChamadaBoa
  <2>. QED BY <2>4, <2>5
<1>. QED BY <1>4, <1>5

\* What is pending once connection c is given back.
LEMMA Resto ==
    ASSUME Inv, NEW c \in Conexoes, Devolver(c), Efetivada(c) \/ Desfeita(c)
    PROVE  /\ Pendentes' = Pendentes \ conexao[c].linhas
           /\ conexao[c].linhas \subseteq Pendentes
           /\ \A l \in conexao[c].linhas, m \in Pendentes : UnidadeDe(m) = UnidadeDe(l) =>
                 m \in conexao[c].linhas
           /\ \A l \in conexao[c].linhas, m \in conexao[c].linhas :
                 UnidadeDe(m) = UnidadeDe(l)
<1>1. conexao'[c].linhas = {} /\ \A d \in Conexoes \ {c} : conexao'[d] = conexao[d]
  BY Devolvida
<1>2. ASSUME NEW l \in conexao[c].linhas, NEW d \in Conexoes, NEW m \in conexao[d].linhas,
             UnidadeDe(m) = UnidadeDe(l)
      PROVE  d = c
  <2>1. m.pedido = l.pedido
    BY <1>2 DEF UnidadeDe
  <2>. QED BY <2>1, UmaSo
<1>3. ASSUME NEW l \in conexao[c].linhas, NEW d \in Conexoes \ {c} PROVE l \notin conexao[d].linhas
  BY <1>2
<1>4. Pendentes' = Pendentes \ conexao[c].linhas
  BY <1>1, <1>3 DEF Pendentes
<1>5. ASSUME NEW l \in conexao[c].linhas, NEW m \in conexao[c].linhas
      PROVE  UnidadeDe(m) = UnidadeDe(l)
  <2>1. l.pedido = m.pedido
    BY Donas
  <2>2. l.unidade = m.unidade
    BY <2>1, UmaSo
  <2>. QED BY <2>1, <2>2 DEF UnidadeDe
<1>. QED BY <1>2, <1>4, <1>5 DEF Pendentes

PromessaCumprida == [Promessa!Next]_(Promessa!tvars)

\* A commit stores a whole unit, or nothing.
LEMMA CumpreEfetivar ==
    ASSUME Inv, NEW c \in Conexoes, Devolver(c), Efetivada(c), UNCHANGED Respostas
    PROVE  PromessaCumprida
<1>1. /\ Pendentes' = Pendentes \ conexao[c].linhas /\ conexao[c].linhas \subseteq Pendentes
      /\ \A l \in conexao[c].linhas, m \in Pendentes : UnidadeDe(m) = UnidadeDe(l) =>
            m \in conexao[c].linhas
      /\ \A l \in conexao[c].linhas, m \in conexao[c].linhas : UnidadeDe(m) = UnidadeDe(l)
  BY Resto
<1>2. banco' = banco \union conexao[c].linhas /\ perdidas' = perdidas
  BY DEF Efetivada
<1>3. CASE conexao[c].linhas = {}
  <2>1. UNCHANGED <<banco, Pendentes, perdidas, Respostas>>
    BY <1>1, <1>2, <1>3
  <2>. QED BY <2>1 DEF PromessaCumprida, Promessa!tvars, Pendentes, Respostas
<1>4. CASE conexao[c].linhas # {}
  <2>1. PICK l \in conexao[c].linhas : TRUE
    BY <1>4
  <2>2. l \in Linha
    BY Donas
  <2>. DEFINE D == {m \in Pendentes : UnidadeDe(m) = UnidadeDe(l)}
  <2>3. D = conexao[c].linhas
    BY <1>1
  <2>4. /\ D # {} /\ banco' = banco \union D /\ Pendentes' = Pendentes \ D
        /\ UNCHANGED <<perdidas, Respostas>>
    BY <1>1, <1>2, <1>4, <2>3
  <2>5. Promessa!Efetivar(Promessa!Unidade(l))
    BY <2>4 DEF Promessa!Efetivar, Promessa!DaUnidade, Promessa!Unidade, Pendentes, Respostas,
                UnidadeDe
  <2>. QED BY <2>2, <2>5 DEF PromessaCumprida, Promessa!Next
<1>. QED BY <1>3, <1>4

\* An undone transaction loses a whole unit; its author may answer it.
LEMMA CumpreDesfazer ==
    ASSUME Inv, NEW c \in Conexoes, Devolver(c), Desfeita(c),
           \/ UNCHANGED Respostas
           \/ \E p \in Pedidos : /\ Respostas[p] = "nenhuma"
                                 /\ Respostas' = [Respostas EXCEPT ![p] = "erro"]
    PROVE  PromessaCumprida
<1>1. /\ Pendentes' = Pendentes \ conexao[c].linhas /\ conexao[c].linhas \subseteq Pendentes
      /\ \A l \in conexao[c].linhas, m \in Pendentes : UnidadeDe(m) = UnidadeDe(l) =>
            m \in conexao[c].linhas
  BY Resto
<1>2. perdidas' = perdidas \union conexao[c].linhas /\ banco' = banco
  BY DEF Desfeita
<1>3. Pendentes \ Pendentes' = conexao[c].linhas
  BY <1>1
<1>4. \A l \in Pendentes \ Pendentes' : {m \in Pendentes' : UnidadeDe(m) = UnidadeDe(l)} = {}
  BY <1>1, <1>3
<1>5. Promessa!Desfazer
  BY <1>1, <1>2, <1>3, <1>4 DEF Promessa!Desfazer, Promessa!DaUnidade, Promessa!Unidade,
       Pendentes, Respostas, UnidadeDe
<1>. QED BY <1>5 DEF PromessaCumprida, Promessa!Next

\* Who has no row pending and touches none has said nothing.
LEMMA CumpreParado ==
    ASSUME UNCHANGED <<banco, perdidas, Respostas>>,
           \A c \in Conexoes : conexao'[c].linhas = conexao[c].linhas
    PROVE  PromessaCumprida
<1>1. UNCHANGED Pendentes
  BY DEF Pendentes
<1>. QED BY <1>1 DEF PromessaCumprida, Promessa!tvars, Pendentes, Respostas

\* The row a call writes is new, and its unit has stored nothing and lost nothing.
LEMMA CumpreEscrever ==
    ASSUME Inv, NEW p \in Pedidos, NEW c \in Conexoes, NEW l \in Linha,
           l.pedido = p, \A m \in Todas : m.pedido = p => m.n > l.n,
           \/ l.unidade = l.n
           \/ ComUnidade(p) /\ l.unidade = pedido[p].unidade,
           pedido[p].resposta # "ok",
           \A d \in Conexoes \ {c} : conexao'[d].linhas = conexao[d].linhas,
           conexao'[c].linhas = conexao[c].linhas \union {l},
           UNCHANGED <<banco, perdidas, Respostas>>
    PROVE  PromessaCumprida
<1>1. l.n \in Nat /\ l.unidade \in Nat /\ l \notin Todas
  <2>1. l.n \in Nat /\ l.unidade \in Nat /\ ~(l.n > l.n)
    BY DaLinha
  <2>. QED BY <2>1
<1>2. l \notin banco \union Pendentes \union perdidas
  BY <1>1 DEF Todas, Pendentes
<1>3. Pendentes' = Pendentes \union {l}
  BY DEF Pendentes
<1>4. ASSUME NEW m \in banco \union perdidas, UnidadeDe(m) = UnidadeDe(l) PROVE FALSE
  <2>1. /\ m.pedido = p /\ m.unidade = l.unidade /\ m \in Todas
    BY <1>4 DEF UnidadeDe, Todas
  <2>2. m.n \in Nat /\ m.unidade \in Nat /\ m.n <= m.unidade /\ m.n > l.n
    BY <2>1, DasLinhas
  <2>3. ASSUME ComUnidade(p), l.unidade = pedido[p].unidade PROVE FALSE
    <3>1. m.unidade > pedido[p].unidade
      BY <2>1, <2>3 DEF Inv, Bom, LinhasBoas
    <3>. QED BY <1>1, <2>1, <2>2, <2>3, <3>1
  <2>. QED BY <1>1, <2>1, <2>2, <2>3
<1>5. {m \in banco \union perdidas : UnidadeDe(m) = UnidadeDe(l)} = {} /\ Respostas[l.pedido] # "ok"
  BY <1>4 DEF Respostas
<1>6. Promessa!Escrever(l)
  BY <1>2, <1>3, <1>5 DEF Promessa!Escrever, Promessa!DaUnidade, Promessa!Unidade,
       Pendentes, Respostas, UnidadeDe
<1>. QED BY <1>6 DEF PromessaCumprida, Promessa!Next

\* Statement of a call, which writes or reads.
LEMMA CumpreExecutar ==
    ASSUME Inv, NEW p \in Pedidos, NEW i \in Calls, NEW c \in Conexoes, NEW ch, NEW usuario,
           Executar(p, i, c, ch, usuario), UNCHANGED <<banco, perdidas, Respostas>>,
           pedido[p].resposta # "ok",
           ch.grava => /\ ch.linha \in Linha /\ ch.linha.pedido = p
                       /\ \A m \in Todas : m.pedido = p => m.n > ch.linha.n
                       /\ \/ ch.linha.unidade = ch.linha.n
                          \/ ComUnidade(p) /\ ch.linha.unidade = pedido[p].unidade
    PROVE  PromessaCumprida
<1>1. conexao \in [Conexoes -> Conexao] /\ conexao[c] \in Conexao
  BY DEF Inv, TypeOK
<1>2. conexao' = [conexao EXCEPT ![c] = [conexao[c] EXCEPT !.usuario = usuario,
                     !.linhas = IF ch.grava THEN conexao[c].linhas \union {ch.linha}
                                ELSE conexao[c].linhas]]
  BY <1>1 DEF Executar
<1>3. /\ \A d \in Conexoes \ {c} : conexao'[d].linhas = conexao[d].linhas
      /\ conexao'[c].linhas = IF ch.grava THEN conexao[c].linhas \union {ch.linha}
                              ELSE conexao[c].linhas
  BY <1>1, <1>2 DEF Conexao
<1>4. CASE ch.grava
  BY <1>3, <1>4, CumpreEscrever
<1>5. CASE ~ch.grava
  BY <1>3, <1>5, CumpreParado
<1>. QED BY <1>4, <1>5

\* Who is answered "ok" has lost nothing, and has nothing pending.
LEMMA CumpreResponder ==
    ASSUME Inv, NEW p \in Pedidos, Concluir(p) PROVE PromessaCumprida
<1>1. /\ pedido[p].passo = "codigo" /\ ~EmUnidade(p) /\ Parado(p)
      /\ pedido' = [pedido EXCEPT ![p] = [pedido[p] EXCEPT !.passo = "fim", !.resposta = "ok"]]
      /\ UNCHANGED <<banco, perdidas, conexao>>
  BY DEF Concluir, Inv, TypeOK
<1>2. UnidadeBoa(p) /\ LinhasBoas(p) /\ pedido \in [Pedidos -> Pedido]
  BY DEF Inv, Bom, TypeOK
<1>3. ASSUME NEW l \in Pendentes \union perdidas, l.pedido = p PROVE FALSE
  <2>1. CASE l \in perdidas
    BY <1>1, <1>2, <1>3, <2>1 DEF LinhasBoas
  <2>2. CASE l \in Pendentes
    <3>1. PICK c \in Conexoes : l \in conexao[c].linhas
      BY <2>2 DEF Pendentes
    <3>2. conexao[c].dono = p /\ ConexaoBoa(c) /\ p # Nulo /\ c # Nulo
      BY <1>3, <3>1, Donas, Tipos DEF Inv
    <3>. QED BY <1>1, <3>2 DEF ConexaoBoa, EmUnidade, Parado, Abertas
  <2>. QED BY <2>1, <2>2
<1>4. Respostas[p] = "nenhuma" /\ Respostas' = [Respostas EXCEPT ![p] = "ok"]
  <2>1. pedido[p].resposta = "nenhuma"
    BY <1>1, <1>2 DEF UnidadeBoa
  <2>2. \A q \in Pedidos : pedido'[q].resposta = IF q = p THEN "ok" ELSE pedido[q].resposta
    BY <1>1, <1>2 DEF Pedido
  <2>. QED BY <2>1, <2>2 DEF Respostas
<1>5. Promessa!Responder(p)
  BY <1>1, <1>3, <1>4 DEF Promessa!Responder, Pendentes, Respostas
<1>. QED BY <1>5 DEF PromessaCumprida, Promessa!Next

\* An exception undoes the unit it is thrown in, and is answered.
LEMMA CumpreLancar ==
    ASSUME Inv, NEW p \in Pedidos, Lancar(p) PROVE PromessaCumprida
<1>1. /\ pedido[p].passo \in {"codigo", "erro"}
      /\ pedido' = [pedido EXCEPT ![p] = [ForaDaUnidade(p) EXCEPT !.passo = "fim",
                                                                  !.resposta = "erro"]]
  BY DEF Lancar
<1>2. UnidadeBoa(p) /\ pedido \in [Pedidos -> Pedido] /\ pedido[p] \in Pedido
  BY DEF Inv, Bom, TypeOK
<1>3. Respostas[p] = "nenhuma" /\ Respostas' = [Respostas EXCEPT ![p] = "erro"]
  <2>1. pedido[p].resposta = "nenhuma"
    BY <1>1, <1>2 DEF UnidadeBoa
  <2>2. LET r == [ForaDaUnidade(p) EXCEPT !.passo = "fim", !.resposta = "erro"]
        IN  r.resposta = "erro"
    BY <1>2 DEF ForaDaUnidade, Pedido
  <2>. HIDE DEF ForaDaUnidade
  <2>3. \A q \in Pedidos : pedido'[q].resposta = IF q = p THEN "erro" ELSE pedido[q].resposta
    BY <1>1, <1>2, <2>2
  <2>. QED BY <2>1, <2>3 DEF Respostas
<1>4. CASE EmUnidade(p)
  <2>1. PICK c \in Conexoes : c = pedido[p].em
    BY <1>4, Tipos DEF EmUnidade, Inv
  <2>2. Desfeita(c) /\ Devolver(c)
    BY <1>4, <2>1 DEF Lancar
  <2>. QED BY <1>3, <2>2, CumpreDesfazer
<1>5. CASE ~EmUnidade(p)
  <2>1. UNCHANGED <<banco, perdidas, conexao>>
    BY <1>5 DEF Lancar
  <2>2. UNCHANGED Pendentes
    BY <2>1 DEF Pendentes
  <2>3. Promessa!Desfazer
    BY <1>3, <2>1, <2>2 DEF Promessa!Desfazer, Pendentes, Respostas
  <2>. QED BY <2>3 DEF PromessaCumprida, Promessa!Next
<1>. QED BY <1>4, <1>5

\* A death undoes everything pending.
LEMMA CumpreCair == ASSUME Inv, Cair PROVE PromessaCumprida
<1>1. /\ banco' = banco /\ perdidas' = perdidas \union Pendentes
      /\ conexao' = [c \in Conexoes |-> SemTransacao]
      /\ pedido' = [p \in Pedidos |-> [ForaDaUnidade(p) EXCEPT !.passo = "fim"]]
  BY DEF Cair, Pendentes
<1>2. Pendentes' = {}
  <2>1. SemTransacao.linhas = {}
    BY DEF SemTransacao
  <2>. HIDE DEF SemTransacao
  <2>. QED BY <1>1, <2>1 DEF Pendentes
<1>3. UNCHANGED Respostas
  <2>1. ASSUME NEW p \in Pedidos PROVE pedido'[p].resposta = pedido[p].resposta
    <3>1. pedido[p] \in Pedido
      BY DEF Inv, TypeOK
    <3>2. pedido'[p] = [ForaDaUnidade(p) EXCEPT !.passo = "fim"]
      BY <1>1
    <3>. QED BY <3>1, <3>2 DEF ForaDaUnidade, Pedido
  <2>. QED BY <2>1 DEF Respostas
<1>4. Promessa!Desfazer
  BY <1>1, <1>2, <1>3 DEF Promessa!Desfazer, Promessa!DaUnidade, Pendentes, Respostas
<1>. QED BY <1>4 DEF PromessaCumprida, Promessa!Next

\* The steps of the code of p that end no request.
LEMMA CumpreCodigo ==
    ASSUME Inv, NEW p \in Pedidos,
           \/ Aninhar(p) \/ AbrirUnidade(p) \/ FecharAninhada(p) \/ FecharUnidade(p)
           \/ FalharAoFechar(p)
    PROVE  PromessaCumprida
<1>1. pedido \in [Pedidos -> Pedido] /\ pedido[p] \in Pedido
  BY DEF Inv, TypeOK
<1>2. \A q \in Pedidos : pedido'[q].resposta = pedido[q].resposta
  BY CodigoNaoResponde
<1>3. UNCHANGED Respostas
  BY <1>2 DEF Respostas
<1>4. CASE Aninhar(p) \/ AbrirUnidade(p) \/ FecharAninhada(p)
  <2>1. UNCHANGED <<banco, perdidas, conexao>>
    BY <1>4 DEF Aninhar, AbrirUnidade, FecharAninhada
  <2>. QED BY <1>3, <2>1, CumpreParado
<1>5. CASE FecharUnidade(p) \/ FalharAoFechar(p)
  <2>1. /\ pedido[p].fundo = 1 /\ Devolver(pedido[p].em)
        /\ Efetivada(pedido[p].em) \/ Desfeita(pedido[p].em)
    BY <1>5 DEF FecharUnidade, FalharAoFechar
  <2>2. PICK c \in Conexoes : c = pedido[p].em
    BY <2>1, FundoDentro, Tipos DEF EmUnidade, Inv
  <2>3. Devolver(c) /\ (Efetivada(c) \/ Desfeita(c))
    BY <2>1, <2>2
  <2>. QED BY <1>3, <2>3, CumpreEfetivar, CumpreDesfazer
<1>. QED BY <1>4, <1>5

\* The calls p issues: alone they wait, inside a unit they run.
LEMMA CumpreChamar ==
    ASSUME Inv, NEW p \in Pedidos, NEW i \in Calls, ChamarFora(p, i) \/ ChamarDentro(p, i)
    PROVE  PromessaCumprida
<1>1. pedido \in [Pedidos -> Pedido] /\ conexao \in [Conexoes -> Conexao]
  BY DEF Inv, TypeOK
<1>2. UNCHANGED <<banco, perdidas>> /\ pedido' = [pedido EXCEPT ![p].resta = @ - 1]
  BY DEF ChamarFora, ChamarDentro
<1>3. UNCHANGED Respostas
  <2>1. \A q \in Pedidos : pedido'[q].resposta = pedido[q].resposta
    BY <1>1, <1>2 DEF Pedido
  <2>. QED BY <2>1 DEF Respostas
<1>4. CASE ChamarFora(p, i)
  <2>1. UNCHANGED conexao
    BY <1>4 DEF ChamarFora
  <2>. QED BY <1>2, <1>3, <2>1, CumpreParado
<1>5. CASE ChamarDentro(p, i)
  <2>1. PICK empresa \in Empresas, comUsuario \in BOOLEAN, grava \in BOOLEAN :
          LET c  == TransacaoDaUnidade(p)
              ch == RegistroDe(p, empresa, comUsuario, grava, "fixando", c) IN
          /\ NovaChamada(p, i, empresa, comUsuario, grava) /\ c # Nulo
          /\ IF PrecisaFixar(p, comUsuario)
             THEN conexao' = [conexao EXCEPT ![c].usuario = p]
             ELSE Executar(p, i, c, ch, conexao[c].usuario)
    BY <1>5 DEF ChamarDentro
  <2>2. pedido[p].resta > 0 /\ EmUnidade(p)
    BY <2>1 DEF NovaChamada, TransacaoDaUnidade, EmUnidade
  <2>3. PICK c \in Conexoes : c = pedido[p].em
    BY <2>2, Tipos DEF EmUnidade, Inv
  <2>. DEFINE ch == RegistroDe(p, empresa, comUsuario, grava, "fixando", c)
  <2>4. IF PrecisaFixar(p, comUsuario)
        THEN conexao' = [conexao EXCEPT ![c].usuario = p]
        ELSE Executar(p, i, c, ch, conexao[c].usuario)
    BY <2>1, <2>3 DEF TransacaoDaUnidade
  <2>5. ch.linha \in Linha /\ ch.linha.pedido = p /\ ch.linha.n = pedido[p].resta
        /\ ch.linha.unidade = pedido[p].unidade
    BY <2>2, Registro
  <2>. HIDE DEF ch
  <2>6. \A m \in Todas : m.pedido = p => m.n > ch.linha.n
    BY <2>5 DEF Inv, Bom, LinhasBoas
  <2>7. CASE PrecisaFixar(p, comUsuario)
    <3>1. conexao' = [conexao EXCEPT ![c] = [conexao[c] EXCEPT !.usuario = p]]
      BY <1>1, <2>4, <2>7
    <3>2. \A d \in Conexoes : conexao'[d].linhas = conexao[d].linhas
      BY <1>1, <3>1 DEF Conexao
    <3>. QED BY <1>2, <1>3, <3>2, CumpreParado
  <2>8. CASE ~PrecisaFixar(p, comUsuario)
    <3>1. Executar(p, i, c, ch, conexao[c].usuario)
      BY <2>4, <2>8
    <3>2. ComUnidade(p) /\ pedido[p].resposta # "ok"
      BY <2>2 DEF ComUnidade, Inv, Bom, UnidadeBoa
    <3>. QED BY <1>2, <1>3, <2>5, <2>6, <3>1, <3>2, CumpreExecutar
  <2>. QED BY <2>7, <2>8
<1>. QED BY <1>4, <1>5

\* The steps of a call in flight.
LEMMA CumpreChamada ==
    ASSUME Inv, NEW p \in Pedidos, Calado(p), NEW i \in Calls, DaChamada(p, i)
    PROVE  PromessaCumprida
<1>1. pedido \in [Pedidos -> Pedido] /\ pedido[p] \in Pedido /\ ChamadaBoa(p, i)
      /\ LinhasBoas(p) /\ chamada[p][i] \in Chamada
  BY DEF Inv, TypeOK, Bom
<1>2. UNCHANGED Respostas
  <2>1. \A q \in Pedidos : pedido'[q].resposta = pedido[q].resposta
    BY <1>1 DEF DaChamada, Fixar, ExecutarSozinha, ConfirmarSozinha, FalharSozinha, Pedido
  <2>. QED BY <2>1 DEF Respostas
<1>3. CASE ConfirmarSozinha(p, i) \/ FalharSozinha(p, i)
  <2>1. /\ chamada[p][i].passo \in Abertas /\ Devolver(chamada[p][i].em)
        /\ Efetivada(chamada[p][i].em) \/ Desfeita(chamada[p][i].em)
    BY <1>3 DEF ConfirmarSozinha, FalharSozinha, Abertas
  <2>2. PICK c \in Conexoes : c = chamada[p][i].em
    BY <1>1, <2>1 DEF ChamadaBoa, Chamada
  <2>3. Devolver(c) /\ (Efetivada(c) \/ Desfeita(c))
    BY <2>1, <2>2
  <2>. QED BY <1>2, <2>3, CumpreEfetivar, CumpreDesfazer
<1>4. CASE Fixar(p, i) \/ ExecutarSozinha(p, i)
  <2>. DEFINE ch == chamada[p][i]
  <2>1. /\ ch.passo \in {"aberta", "fixando"} /\ UNCHANGED <<banco, perdidas>>
        /\ \E usuario : Executar(p, i, ch.em, ch, usuario)
        /\ pedido[p].resposta # "ok"
    BY <1>4 DEF Fixar, ExecutarSozinha, Calado, Parado
  <2>2. /\ ch.linha \in Linha /\ ch.linha.pedido = p
        /\ \/ ch.linha.unidade = ch.linha.n
           \/ ComUnidade(p) /\ ch.linha.unidade = pedido[p].unidade
        /\ ch.em \in Conexoes
    BY <1>1, <2>1, Tipos DEF ChamadaBoa, ComUnidade, EmUnidade, Abertas, Inv
  <2>3. ch.grava => \A m \in Todas : m.pedido = p => m.n > ch.linha.n
    BY <1>1, <2>1 DEF LinhasBoas, NaoEscrita
  <2>4. PICK c \in Conexoes : c = ch.em
    BY <2>2
  <2>5. PICK usuario : Executar(p, i, c, ch, usuario)
    BY <2>1, <2>4
  <2>. HIDE DEF ch
  <2>. QED BY <1>2, <2>1, <2>2, <2>3, <2>5, CumpreExecutar
<1>. QED BY <1>3, <1>4 DEF DaChamada

\* The transaction a connection is taken for has no row, nor had the connection.
LEMMA CumpreTomar == ASSUME Inv, TomarConexao PROVE PromessaCumprida
<1>1. UNCHANGED <<banco, perdidas>> /\ conexao \in [Conexoes -> Conexao]
      /\ pedido \in [Pedidos -> Pedido]
  BY DEF TomarConexao, Inv, TypeOK
<1>2. UNCHANGED Respostas
  BY TomarNaoResponde DEF Respostas
<1>3. PICK c \in Conexoes : /\ conexao[c].dono = Nulo
                            /\ \E t : t.linhas = {} /\ conexao' = [conexao EXCEPT ![c] = t]
  <2>. DEFINE p == Head(fila)[1]
              i == Head(fila)[2]
  <2>1. PICK c \in Conexoes : /\ conexao[c].dono = Nulo
                              /\ \/ conexao' = [conexao EXCEPT ![c] =
                                      [dono |-> p, empresa |-> pedido[p].empresa,
                                       usuario |-> Nulo, linhas |-> {}]]
                                 \/ conexao' = [conexao EXCEPT ![c] =
                                      [dono |-> p, empresa |-> chamada[p][i].empresa,
                                       usuario |-> IF chamada[p][i].comUsuario THEN p ELSE Nulo,
                                       linhas |-> {}]]
    BY DEF TomarConexao
  <2>. HIDE DEF p, i
  <2>. QED BY <2>1
<1>4. conexao[c].linhas = {}
  BY <1>3 DEF Inv, ConexaoBoa
<1>5. \A d \in Conexoes : conexao'[d].linhas = conexao[d].linhas
  BY <1>1, <1>3, <1>4
<1>. QED BY <1>1, <1>2, <1>5, CumpreParado

\* Units of work are atomic, and who is answered "ok" lost nothing: the pool, its
\* requests and the deaths of the process implement TudoOuNada, for any number of
\* them, of connections and of units inside one another (DrizzleUnitOfWork).
THEOREM UnidadeCumpre == Spec => CumpreTudoOuNada
<1>1. Init => Promessa!Init
  <2>. SUFFICES ASSUME Init PROVE Promessa!Init
    OBVIOUS
  <2>1. PICK empresa \in [Pedidos -> Empresas] :
           pedido = [p \in Pedidos |->
                       [empresa |-> empresa[p], passo |-> "codigo", resta |-> MaxPassos[p],
                        unidade |-> 0, fundo |-> 0, em |-> Nulo, fixado |-> FALSE,
                        resposta |-> "nenhuma"]]
    BY DEF Init
  <2>2. Respostas = [p \in Pedidos |-> "nenhuma"]
    BY <2>1 DEF Respostas
  <2>3. Pendentes = {}
    <3>1. SemTransacao.linhas = {}
      BY DEF SemTransacao
    <3>. HIDE DEF SemTransacao
    <3>. QED BY <3>1 DEF Init, Pendentes
  <2>. QED BY <2>2, <2>3 DEF Init, Promessa!Init, Pendentes, Respostas
<1>2. Inv /\ TodosCalados /\ [Next]_vars => PromessaCumprida
  <2>. SUFFICES ASSUME Inv, TodosCalados, [Next]_vars PROVE PromessaCumprida
    OBVIOUS
  <2>1. ASSUME NEW p \in Pedidos, DoPedido(p) PROVE PromessaCumprida
    BY <2>1, CumpreCodigo, CumpreChamar, CumpreLancar, CumpreResponder DEF DoPedido
  <2>2. CASE UNCHANGED vars
    <3>1. UNCHANGED <<banco, perdidas, conexao, pedido>>
      BY <2>2 DEF vars
    <3>2. UNCHANGED Respostas
      BY <3>1 DEF Respostas
    <3>. QED BY <3>1, <3>2, CumpreParado
  <2>. QED BY <2>1, <2>2, CumpreChamada, CumpreTomar, CumpreCair DEF Next, TodosCalados
<1>. QED BY <1>1, <1>2, InvSempre, CaladosSempre, PTL
         DEF Spec, CumpreTudoOuNada, Promessa!Spec, PromessaCumprida

\* The promise keeps itself atomic: only a unit of which nothing was stored or
\* lost grows, and it is stored or lost as one.
LEMMA AtomicaPasso ==
    ASSUME TypeOK, Promessa!Atomica, PromessaCumprida
    PROVE  Promessa!Atomica'
<1>. USE DEF Promessa!DaUnidade
<1>. DEFINE A(B, N, L, R) ==
        /\ \A l \in B : {m \in N \union L : Promessa!Unidade(m) = Promessa!Unidade(l)} = {}
        /\ \A l \in L : {m \in N : Promessa!Unidade(m) = Promessa!Unidade(l)} = {}
        /\ \A l \in N \union L : R[l.pedido] # "ok"
<1>1. A(banco, Pendentes, perdidas, Respostas)
  BY DEF Promessa!Atomica, Pendentes, Respostas
<1>2. \A l \in Pendentes \union perdidas : l.pedido \in Pedidos
  BY DEF TypeOK, Conexao, Linha, Pendentes
<1>3. ASSUME NEW p \in Pedidos, NEW a, Respostas' = [Respostas EXCEPT ![p] = a],
             NEW q \in Pedidos
      PROVE  Respostas'[q] = IF q = p THEN a ELSE Respostas[q]
  <2>1. DOMAIN Respostas = Pedidos
    BY DEF Respostas
  <2>. QED BY <1>3, <2>1
<1>4. SUFFICES A(banco', Pendentes', perdidas', Respostas')
  BY DEF Promessa!Atomica, Pendentes, Respostas
<1>5. CASE UNCHANGED Promessa!tvars
  <2>1. UNCHANGED <<banco, Pendentes, perdidas, Respostas>>
    BY <1>5 DEF Promessa!tvars, Pendentes, Respostas
  <2>. QED BY <1>1, <2>1
<1>6. ASSUME NEW l \in Linha, Promessa!Escrever(l)
      PROVE  A(banco', Pendentes', perdidas', Respostas')
  <2>1. /\ {m \in banco \union perdidas : Promessa!Unidade(m) = Promessa!Unidade(l)} = {}
        /\ Respostas[l.pedido] # "ok" /\ Pendentes' = Pendentes \union {l}
        /\ UNCHANGED <<banco, perdidas, Respostas>>
    BY <1>6 DEF Promessa!Escrever, Pendentes, Respostas
  <2>. QED BY <1>1, <2>1
<1>7. ASSUME NEW u, Promessa!Efetivar(u)
      PROVE  A(banco', Pendentes', perdidas', Respostas')
  <2>. DEFINE D == {m \in Pendentes : Promessa!Unidade(m) = u}
  <2>1. /\ D # {} /\ banco' = banco \union D /\ Pendentes' = Pendentes \ D
        /\ UNCHANGED <<perdidas, Respostas>>
    BY <1>7 DEF Promessa!Efetivar, Pendentes, Respostas
  <2>. QED BY <1>1, <2>1
<1>8. CASE Promessa!Desfazer
  <2>1. /\ Pendentes' \subseteq Pendentes
        /\ \A l \in Pendentes \ Pendentes' :
              {m \in Pendentes' : Promessa!Unidade(m) = Promessa!Unidade(l)} = {}
        /\ perdidas' = perdidas \union (Pendentes \ Pendentes') /\ banco' = banco
        /\ \/ UNCHANGED Respostas
           \/ \E p \in Pedidos : Respostas' = [Respostas EXCEPT ![p] = "erro"]
    BY <1>8 DEF Promessa!Desfazer, Pendentes, Respostas
  <2>2. \A l \in Pendentes \union perdidas : Respostas'[l.pedido] # "ok"
    BY <1>2, <1>1, <1>3, <2>1
  <2>3. /\ \A l \in banco' : {m \in Pendentes' \union perdidas' :
                                 Promessa!Unidade(m) = Promessa!Unidade(l)} = {}
        /\ \A l \in perdidas' : {m \in Pendentes' :
                                 Promessa!Unidade(m) = Promessa!Unidade(l)} = {}
    BY <1>1, <2>1
  <2>. QED BY <2>1, <2>2, <2>3
<1>9. ASSUME NEW p \in Pedidos, Promessa!Responder(p)
      PROVE  A(banco', Pendentes', perdidas', Respostas')
  <2>1. /\ \A l \in Pendentes \union perdidas : l.pedido # p
        /\ Respostas' = [Respostas EXCEPT ![p] = "ok"]
        /\ UNCHANGED <<banco, Pendentes, perdidas>>
    BY <1>9 DEF Promessa!Responder, Pendentes, Respostas
  <2>2. \A l \in Pendentes \union perdidas : Respostas'[l.pedido] = Respostas[l.pedido]
    BY <1>2, <1>3, <2>1
  <2>. QED BY <1>1, <2>1, <2>2
<1>. HIDE DEF A
<1>. QED BY <1>5, <1>6, <1>7, <1>8, <1>9 DEF PromessaCumprida, Promessa!Next

\* Of every unit all rows are stored, all are pending or all were undone, and
\* who was answered "ok" has rows stored only (DrizzleUnitOfWork).
THEOREM AtomicaSempre == Spec => []Promessa!Atomica
<1>1. Promessa!Init => Promessa!Atomica
  BY DEF Promessa!Init, Promessa!Atomica
<1>. QED BY <1>1, AtomicaPasso, TiposSempre, UnidadeCumpre, PTL
         DEF CumpreTudoOuNada, Promessa!Spec, PromessaCumprida

=============================================================================
