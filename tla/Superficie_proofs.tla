-------------------------- MODULE Superficie_proofs --------------------------
(***************************************************************************)
(* Proofs about the three components that reach the routes of Superficie:  *)
(* Acesso, which lets a request in; Telas, which offers it to a person;    *)
(* Implantacao, which makes the schema and the accounts it runs on.        *)
(*                                                                         *)
(* Acesso: the history of a request holds every instant of it, so what was *)
(* read before the decision was seen to hold, and what held all along was  *)
(* read.  What the routes and the capabilities are matters only at the     *)
(* end, where the two are compared.                                        *)
(*                                                                         *)
(* Telas: whatever a page holds of a row, or of the access, is either what *)
(* is there still or older than it, and the search that counts is of the   *)
(* row in focus.                                                           *)
(*                                                                         *)
(* Implantacao: one inductive invariant of the two parts of it, which      *)
(* share nothing.                                                          *)
(***************************************************************************)
EXTENDS Acesso, Telas, Implantacao, TLAPS

-----------------------------------------------------------------------------
(* Acesso: facts.                                                          *)

\* No plugin is a module.
LEMMA Separadas == Modulos \intersect PluginsInstalados = {}
BY DEF Modulos, PluginsInstalados

FatosSao ==
    /\ <<"empresa">> \in Verdades <=> empresa = "active"
    /\ <<"vinculo">> \in Verdades <=> vinculo = TRUE
    /\ \A r \in Papeis : <<"papel", r>> \in Verdades <=> r \in papeis
    /\ \A u \in Modulos : <<"unidade", u>> \in Verdades <=> Vigente(contrato[u], agora)
    /\ \A u \in PluginsInstalados : <<"unidade", u>> \in Verdades <=> u \in habilitados
    /\ \A t \in Tokens : <<"token", t>> \in Verdades <=> Aceito(t)

LEMMA Membros ==
    /\ <<"empresa">> \in Fatos /\ <<"vinculo">> \in Fatos
    /\ \A r \in Papeis : <<"papel", r>> \in Fatos
    /\ \A u : <<"unidade", u>> \in Fatos <=> u \in Modulos \union PluginsInstalados
    /\ \A t \in Tokens : <<"token", t>> \in Fatos
<1>1. \A u : <<"unidade", u>> \in Fatos => u \in Modulos \union PluginsInstalados
  BY DEF Fatos
<1> QED
  BY <1>1 DEF Fatos

LEMMA ValoresDosFatos == TypeOK => FatosSao
<1> SUFFICES ASSUME TypeOK PROVE FatosSao
    OBVIOUS
<1>1. <<"empresa">> \in Verdades <=> empresa = "active"
  BY Membros DEF Verdades, Vale
<1>2. <<"vinculo">> \in Verdades <=> vinculo = TRUE
  <2>1. Vale(<<"vinculo">>) = vinculo
    BY DEF Vale
  <2> QED
    BY <2>1, Membros DEF Verdades, TypeOK
<1>3. \A r \in Papeis : <<"papel", r>> \in Verdades <=> r \in papeis
  BY Membros DEF Verdades, Vale
<1>4. \A u \in Modulos : <<"unidade", u>> \in Verdades <=> Vigente(contrato[u], agora)
  BY Membros DEF Verdades, Vale
<1>5. \A u \in PluginsInstalados : <<"unidade", u>> \in Verdades <=> u \in habilitados
  BY Membros, Separadas DEF Verdades, Vale
<1>6. \A t \in Tokens : <<"token", t>> \in Verdades <=> Aceito(t)
  BY Membros DEF Verdades, Vale
<1> QED
  BY <1>1, <1>2, <1>3, <1>4, <1>5, <1>6 DEF FatosSao

LEMMA VerdadesSaoFatos == Verdades \subseteq Fatos
BY DEF Verdades

\* While it is under way, the history takes in the instant a step leads to.
LEMMA HistoriaEmCurso ==
    ASSUME EmCurso, pedido'.passo # "livre", Historia
    PROVE  /\ visto' = visto \union Verdades'
           /\ faltou \subseteq faltou' /\ Fatos \ Verdades' \subseteq faltou'
           /\ \A u \in Modulos : <<"unidade", u>> \notin faltou' => contrato'[u] = contrato[u]
<1>1. /\ visto' = visto \union Verdades'
      /\ faltou' = faltou \union (Fatos \ Verdades')
            \union {<<"unidade", u>> : u \in {m \in Modulos : contrato'[m] # contrato[m]}}
  BY DEF EmCurso, Historia
<1> QED
  BY <1>1

-----------------------------------------------------------------------------
(* Acesso: the first state, and a request that is forgotten.               *)

\* The kinds of the fields of a request.
DosTokens == Tokens \union {Nulo}
DosPassos == {"livre", "empresa", "vinculo", "leituras", "decidido", "executar", "fim"}
DasPermissoes == (SUBSET PadroesDePapel) \union Escopos \union {Nulo}
DosEscopos == Escopos \union {{Tudo}}
DasLidas == (SUBSET (Modulos \X (Instantes \union {Nulo}))) \union {Nulo}
DosExtras == (SUBSET PluginsInstalados) \union {Nulo}
DasConcessoes ==
    [permissoes : (SUBSET PadroesDePapel) \union Escopos, escopos : Escopos \union {{Tudo}},
     unidades : SUBSET (Modulos \union PluginsInstalados)] \union {Nulo}
DasVias == {"nenhuma", "rest", "mcp"}
DosAbertos == (SUBSET Rotas) \union (SUBSET Catalogo)
DosListados == SUBSET Catalogo
DosCasos == Efeitos \union {""}

LEMMA FormaDoPedido ==
    Pedido = [credencial : {"nenhuma", "sessao", "pessoal", "servico"}, token : DosTokens,
              passo : DosPassos, permissoes : DasPermissoes, escopos : DosEscopos,
              lidas : DasLidas, extras : DosExtras, concessao : DasConcessoes,
              via : DasVias, aberto : DosAbertos, lista : DosListados, caso : DosCasos]
BY DEF Pedido, DosTokens, DosPassos, DasPermissoes, DosEscopos, DasLidas, DosExtras,
       DasConcessoes, DasVias, DosAbertos, DosListados, DosCasos

LEMMA LivreTipo == Livre \in Pedido
BY DEF Livre, Pedido

\* Nothing is claimed of a request that has not come.
LEMMA SemPedido ==
    ASSUME pedido = Livre
    PROVE  MemoriaBoa /\ VistoBom /\ FaltouBom /\ NegadoNaoPassa /\ QuemTemEntra
<1>1. /\ pedido.passo = "livre" /\ pedido.aberto = {} /\ pedido.lista = {}
      /\ pedido.via = "nenhuma" /\ pedido.credencial = "nenhuma"
  BY DEF Livre
<1> QED
  BY <1>1 DEF MemoriaBoa, VistoBom, FaltouBom, NegadoNaoPassa, QuemTemEntra, EmCurso

LEMMA InitInv == Init => Inv
<1> SUFFICES ASSUME Init PROVE Inv
    OBVIOUS
<1>1. TypeOK
  <2>1. padroes \in [Papeis -> SUBSET PadroesDePapel]
    BY DEF Init
  <2>2. contrato \in [Modulos -> LinhaDeContratacao]
    BY AcessoAssumption DEF Init, LinhaDeContratacao, Instantes
  <2>3. token \in [Tokens -> LinhaDeToken]
    <3>1. (CHOOSE e \in Escopos : TRUE) \in Escopos
      BY AcessoAssumption
    <3> QED
      BY <3>1, AcessoAssumption DEF Init, LinhaDeToken, Instantes
  <2>4. agora \in Instantes /\ mudancas \in 0..MaxMudancas
    BY AcessoAssumption DEF Init, Instantes
  <2> QED
    BY <2>1, <2>2, <2>3, <2>4, LivreTipo DEF Init, TypeOK
<1>2. pedido = Livre
  BY DEF Init
<1> QED
  BY <1>1, <1>2, SemPedido DEF Inv

LEMMA EsquecidoInv ==
    ASSUME TypeOK', pedido' = Livre
    PROVE  Inv'
<1>1. (pedido = Livre => MemoriaBoa /\ VistoBom /\ FaltouBom /\ NegadoNaoPassa /\ QuemTemEntra)'
  BY SemPedido, PTL
<1> QED
  BY <1>1 DEF Inv

-----------------------------------------------------------------------------
(* Acesso: everybody else moves.                                           *)

\* What a request could do depends on nothing but the facts, what roles are
\* made of and the credential.
LEMMA AlcancaFica ==
    ASSUME padroes' = padroes, pedido'.credencial = pedido.credencial,
           pedido'.token = pedido.token, pedido'.escopos = pedido.escopos, NEW f, NEW k
    PROVE  Alcanca(f, k)' <=> Alcanca(f, k)
BY DEF Alcanca

\* A request that is not under way is judged by what it was.
LEMMA Julgado ==
    ASSUME Inv, pedido' = pedido, padroes' = padroes, ~EmCurso, Historia
    PROVE  NegadoNaoPassa' /\ QuemTemEntra'
<1>0. NegadoNaoPassa /\ QuemTemEntra /\ MemoriaBoa /\ TypeOK
  BY DEF Inv
<1>1. CASE pedido.passo = "livre"
  <2>1. pedido'.aberto = {} /\ pedido'.lista = {} /\ pedido'.via = "nenhuma" /\ pedido'.passo = "livre"
    BY <1>0, <1>1 DEF MemoriaBoa
  <2> QED
    BY <2>1 DEF NegadoNaoPassa, QuemTemEntra
<1>2. CASE pedido.passo # "livre"
  <2>1. pedido.passo \in {"decidido", "executar", "fim"}
    BY <1>0, <1>2 DEF TypeOK, Pedido, EmCurso
  <2>2. visto' = visto /\ faltou' = faltou
    BY <2>1 DEF Historia
  <2>3. PICK v, f : v = visto /\ f = Fatos \ faltou
    OBVIOUS
  <2>4. \A k : (Alcanca(v, k)' <=> Alcanca(v, k)) /\ (Alcanca(f, k)' <=> Alcanca(f, k))
    BY AlcancaFica
  <2>5. NegadoNaoPassa'
    BY <1>0, <2>2, <2>3, <2>4 DEF NegadoNaoPassa
  <2>6. QuemTemEntra'
    BY <1>0, <2>2, <2>3, <2>4 DEF QuemTemEntra
  <2> QED
    BY <2>5, <2>6
<1> QED
  BY <1>1, <1>2

LEMMA OutrosInv ==
    ASSUME Inv, TypeOK', pedido' = pedido, padroes' = padroes, agora' \in {agora, agora + 1},
           Historia
    PROVE  Inv'
<1>0. TypeOK /\ MemoriaBoa /\ VistoBom /\ FaltouBom /\ MemoriaBoa'
  BY DEF Inv, MemoriaBoa, EmCurso
<1>1. CASE ~EmCurso
  <2>1. VistoBom' /\ FaltouBom'
    BY <1>1 DEF VistoBom, FaltouBom, EmCurso
  <2> QED
    BY <1>0, <1>1, <2>1, Julgado DEF Inv
<1>2. CASE EmCurso
  <2>1. /\ visto \subseteq visto' /\ faltou \subseteq faltou' /\ (Fatos \ Verdades)' \subseteq faltou'
        /\ \A u \in Modulos : <<"unidade", u>> \notin faltou' => contrato'[u] = contrato[u]
    BY <1>2, HistoriaEmCurso DEF EmCurso, Fatos
  <2>2. VistoBom'
    <3>1. pedido.lidas # Nulo =>
             \A l \in pedido.lidas : (l[2] = Nulo \/ l[2] > agora') => <<"unidade", l[1]>> \in visto'
      <4> SUFFICES ASSUME pedido.lidas # Nulo, NEW l \in pedido.lidas,
                          l[2] = Nulo \/ l[2] > agora'
                   PROVE  <<"unidade", l[1]>> \in visto'
        OBVIOUS
      <4>1. l[2] \in Instantes \union {Nulo} /\ agora \in Nat
        <5>1. pedido.lidas \in (SUBSET (Modulos \X (Instantes \union {Nulo}))) \union {Nulo}
          BY <1>0 DEF TypeOK, Pedido
        <5>2. l \in Modulos \X (Instantes \union {Nulo})
          BY <5>1
        <5> QED
          BY <5>2, <1>0, AcessoAssumption DEF TypeOK, Instantes
      <4>2. l[2] = Nulo \/ l[2] > agora
        BY <4>1, AcessoAssumption DEF Instantes
      <4> QED
        BY <4>2, <1>0, <1>2, <2>1 DEF VistoBom
    <3> QED
      BY <3>1, <1>0, <1>2, <2>1 DEF VistoBom, EmCurso
  <2>3. FaltouBom'
    BY <1>0, <1>2, <2>1 DEF FaltouBom, EmCurso
  <2>4. NegadoNaoPassa' /\ QuemTemEntra'
    BY <1>0, <1>2 DEF MemoriaBoa, EmCurso, NegadoNaoPassa, QuemTemEntra
  <2> QED
    BY <1>0, <2>2, <2>3, <2>4 DEF Inv
<1> QED
  BY <1>1, <1>2

LEMMA ParadoInv ==
    ASSUME Inv, UNCHANGED vars
    PROVE  Inv'
<1>0. TypeOK /\ MemoriaBoa /\ VistoBom /\ FaltouBom /\ NegadoNaoPassa /\ QuemTemEntra
  BY DEF Inv
<1>1. UNCHANGED <<empresa, vinculo, papeis, padroes, contrato, habilitados, token, agora,
                  pedido, obra, visto, faltou, mudancas>>
  BY DEF vars, publico
<1>2. TypeOK'
  BY <1>0, <1>1 DEF TypeOK
<1>3. MemoriaBoa'
  BY <1>0, <1>1 DEF MemoriaBoa, EmCurso
<1>4. VistoBom'
  BY <1>0, <1>1 DEF VistoBom, EmCurso
<1>5. FaltouBom'
  <2>1. (Fatos \ Verdades)' = Fatos \ Verdades
    BY <1>1 DEF Fatos, Verdades, Vale, Vigente, Aceito
  <2> QED
    BY <1>0, <1>1, <2>1 DEF FaltouBom, EmCurso
<1>6. NegadoNaoPassa'
  BY <1>0, <1>1 DEF NegadoNaoPassa, Alcanca
<1>7. QuemTemEntra'
  BY <1>0, <1>1 DEF QuemTemEntra, Alcanca
<1> QED
  BY <1>2, <1>3, <1>4, <1>5, <1>6, <1>7 DEF Inv

-----------------------------------------------------------------------------
(* Acesso: the request is let in.                                          *)

\* Facts keep their values, and are all in the history.
LEMMA SoOPedido ==
    ASSUME Inv, pedido' \in Pedido, UNCHANGED <<publico, obra, mudancas>>, Historia,
           pedido'.passo # "livre", EmCurso \/ pedido.passo = "livre"
    PROVE  /\ TypeOK' /\ FatosSao' /\ FatosSao /\ (Fatos \ Verdades)' \subseteq faltou'
           /\ Verdades' = Verdades /\ Verdades \subseteq visto'
           /\ EmCurso => visto \subseteq visto' /\ faltou \subseteq faltou'
           /\ UNCHANGED <<empresa, vinculo, papeis, padroes, contrato, habilitados, token, agora>>
<1>1. UNCHANGED <<empresa, vinculo, papeis, padroes, contrato, habilitados, token, agora>>
  BY DEF publico
<1>2. TypeOK /\ TypeOK'
  BY <1>1 DEF Inv, TypeOK
<1>3. FatosSao /\ FatosSao'
  <2>1. TypeOK' => FatosSao'
    BY ValoresDosFatos, PTL
  <2> QED
    BY <1>2, <2>1, ValoresDosFatos
<1>4. Verdades' = Verdades
  BY <1>1 DEF Fatos, Verdades, Vale, Vigente, Aceito
<1>5. CASE EmCurso
  BY <1>1, <1>2, <1>3, <1>4, <1>5, HistoriaEmCurso DEF Fatos
<1>6. CASE pedido.passo = "livre"
  <2>1. visto' = Verdades' /\ faltou' = Fatos \ Verdades' /\ ~EmCurso
    BY <1>6 DEF Historia, EmCurso
  <2> QED
    BY <1>1, <1>2, <1>3, <1>4, <2>1 DEF Fatos
<1> QED
  BY <1>5, <1>6

\* Under way, nothing is let in or turned away yet.
LEMMA EmCursoInv ==
    ASSUME TypeOK', MemoriaBoa', VistoBom', FaltouBom', EmCurso'
    PROVE  Inv'
<1>1. /\ pedido'.aberto = {} /\ pedido'.lista = {} /\ pedido'.via = "nenhuma"
      /\ pedido'.passo # "fim"
  BY DEF MemoriaBoa, EmCurso
<1>2. NegadoNaoPassa' /\ QuemTemEntra'
  BY <1>1 DEF NegadoNaoPassa, QuemTemEntra
<1> QED
  BY <1>2 DEF Inv

\* Turned away, with a reason.
LEMMA FimInv ==
    ASSUME TypeOK', MemoriaBoa', pedido'.passo = "fim", pedido'.via = "nenhuma",
           \/ <<"empresa">> \in faltou'
           \/ <<"vinculo">> \in faltou' /\ pedido'.credencial \in {"sessao", "pessoal"}
           \/ <<"token", pedido'.token>> \in faltou' /\ pedido'.credencial = "pessoal"
    PROVE  Inv'
<1>1. pedido'.aberto = {} /\ pedido'.lista = {}
  BY DEF MemoriaBoa
<1>2. NegadoNaoPassa'
  BY <1>1 DEF NegadoNaoPassa
<1>3. QuemTemEntra'
  BY DEF QuemTemEntra, Alcanca
<1>4. VistoBom' /\ FaltouBom'
  BY DEF VistoBom, FaltouBom, EmCurso
<1> QED
  BY <1>2, <1>3, <1>4 DEF Inv

LEMMA ChegarInv ==
    ASSUME Inv, Chegar, Historia
    PROVE  Inv'
<1>1. ASSUME NEW m \in Pedido, pedido' = m, m.passo = "empresa", m.via = "nenhuma",
             m.credencial = "sessao" \/ (m.credencial = "servico" /\ m.escopos \in Escopos),
             m.permissoes = Nulo, m.lidas = Nulo, m.extras = Nulo, m.aberto = {}, m.lista = {}
      PROVE  Inv'
  <2>1. pedido.passo = "livre" /\ UNCHANGED <<publico, obra, mudancas>>
    BY DEF Chegar
  <2>2. TypeOK' /\ (Fatos \ Verdades)' \subseteq faltou'
    BY <1>1, <2>1, SoOPedido
  <2>3. MemoriaBoa' /\ VistoBom' /\ FaltouBom' /\ EmCurso'
    BY <1>1, <2>2 DEF MemoriaBoa, VistoBom, FaltouBom, EmCurso
  <2> QED
    BY <2>2, <2>3, EmCursoInv
<1>2. CASE pedido' = [Livre EXCEPT !.credencial = "sessao", !.passo = "empresa"]
  <2> DEFINE m == [Livre EXCEPT !.credencial = "sessao", !.passo = "empresa"]
  <2>1. m \in Pedido
    BY DEF Livre, Pedido
  <2>2. /\ m.passo = "empresa" /\ m.via = "nenhuma" /\ m.credencial = "sessao"
        /\ m.permissoes = Nulo /\ m.lidas = Nulo /\ m.extras = Nulo
        /\ m.aberto = {} /\ m.lista = {}
    BY DEF Livre
  <2>3. pedido' = m
    BY <1>2
  <2> HIDE DEF m
  <2> QED
    BY <2>1, <2>2, <2>3, <1>1
<1>3. ASSUME NEW e \in Escopos,
             pedido' = [Livre EXCEPT !.credencial = "servico", !.passo = "empresa", !.escopos = e]
      PROVE  Inv'
  <2> DEFINE m == [Livre EXCEPT !.credencial = "servico", !.passo = "empresa", !.escopos = e]
  <2>1. m \in Pedido
    BY DEF Livre, Pedido
  <2>2. /\ m.passo = "empresa" /\ m.via = "nenhuma" /\ m.credencial = "servico"
        /\ m.permissoes = Nulo /\ m.lidas = Nulo /\ m.extras = Nulo
        /\ m.aberto = {} /\ m.lista = {} /\ m.escopos = e
    BY DEF Livre
  <2>3. pedido' = m
    BY <1>3
  <2> HIDE DEF m
  <2> QED
    BY <2>1, <2>2, <2>3, <1>1
<1> QED
  BY <1>2, <1>3 DEF Chegar

LEMMA ChegarComTokenInv ==
    ASSUME Inv, NEW t \in Tokens, ChegarComToken(t), Historia
    PROVE  Inv'
<1> DEFINE m == [Livre EXCEPT !.credencial = "pessoal", !.token = t,
                               !.escopos = token[t].escopos,
                               !.passo = IF Aceito(t) THEN "empresa" ELSE "fim"]
<1>1. /\ m.credencial = "pessoal" /\ m.token = t /\ m.escopos = token[t].escopos
      /\ m.passo = (IF Aceito(t) THEN "empresa" ELSE "fim") /\ m.permissoes = Nulo
      /\ m.lidas = Nulo /\ m.extras = Nulo /\ m.aberto = {} /\ m.lista = {}
      /\ m.via = "nenhuma"
  BY DEF Livre
<1>2. m \in Pedido
  <2>1. token[t].escopos \in Escopos
    BY DEF Inv, TypeOK, LinhaDeToken
  <2> QED
    BY <2>1 DEF Pedido, Livre
<1> HIDE DEF m
<1>3. pedido' = m /\ pedido.passo = "livre" /\ UNCHANGED <<publico, obra, mudancas>>
  BY DEF ChegarComToken, m
<1>4. /\ TypeOK' /\ FatosSao /\ (Fatos \ Verdades)' \subseteq faltou' /\ Verdades' = Verdades
      /\ Verdades \subseteq visto'
  BY <1>1, <1>2, <1>3, SoOPedido
<1>5. MemoriaBoa'
  BY <1>1, <1>3 DEF MemoriaBoa, EmCurso
<1>6. CASE Aceito(t)
  <2>1. <<"token", t>> \in visto'
    BY <1>4, <1>6 DEF FatosSao
  <2>2. VistoBom' /\ FaltouBom' /\ EmCurso'
    BY <1>1, <1>3, <1>4, <1>6, <2>1 DEF VistoBom, FaltouBom, EmCurso
  <2> QED
    BY <1>4, <1>5, <2>2, EmCursoInv
<1>7. CASE ~Aceito(t)
  <2>1. <<"token", t>> \in Fatos' /\ <<"token", t>> \notin Verdades'
    BY <1>4, <1>7, Membros DEF FatosSao, Fatos
  <2> QED
    BY <1>1, <1>3, <1>4, <1>5, <1>7, <2>1, FimInv
<1> QED
  BY <1>6, <1>7

LEMMA LerEmpresaInv ==
    ASSUME Inv, LerEmpresa, Historia
    PROVE  Inv'
<1>0. /\ TypeOK /\ MemoriaBoa /\ VistoBom /\ FaltouBom /\ EmCurso /\ pedido.passo = "empresa"
      /\ pedido \in Pedido /\ UNCHANGED <<publico, obra, mudancas>>
  BY DEF Inv, LerEmpresa, EmCurso, TypeOK
<1>1. CASE empresa # "active"
  <2> DEFINE m == [pedido EXCEPT !.passo = "fim"]
  <2>1. /\ m \in Pedido /\ m.passo = "fim" /\ m.via = pedido.via /\ m.aberto = pedido.aberto
        /\ m.lista = pedido.lista /\ m.credencial = pedido.credencial /\ m.token = pedido.token
        /\ m.escopos = pedido.escopos
    BY <1>0, FormaDoPedido DEF DosPassos
  <2> HIDE DEF m
  <2>2. pedido' = m
    BY <1>1 DEF LerEmpresa, Barrado, m
  <2>3. TypeOK' /\ FatosSao /\ (Fatos \ Verdades)' \subseteq faltou' /\ Verdades' = Verdades
    BY <1>0, <2>1, <2>2, SoOPedido
  <2>4. <<"empresa">> \in Fatos' /\ <<"empresa">> \notin Verdades'
    BY <1>1, <2>3, Membros DEF FatosSao, Fatos
  <2>5. MemoriaBoa' /\ pedido'.via = "nenhuma"
    BY <1>0, <2>1, <2>2 DEF MemoriaBoa, EmCurso
  <2> QED
    BY <2>1, <2>2, <2>3, <2>4, <2>5, FimInv
<1>2. CASE empresa = "active"
  <2>1. PICK q \in DasPermissoes, s \in DosPassos :
           /\ q = IF pedido.credencial = "servico" THEN pedido.escopos ELSE Nulo
           /\ s = IF pedido.credencial = "servico" THEN "leituras" ELSE "vinculo"
    BY <1>0 DEF MemoriaBoa, DasPermissoes, DosPassos
  <2> DEFINE m == [pedido EXCEPT !.passo = s, !.permissoes = q]
  <2>2. /\ m \in Pedido /\ m.via = pedido.via /\ m.aberto = pedido.aberto
        /\ m.lista = pedido.lista /\ m.credencial = pedido.credencial /\ m.token = pedido.token
        /\ m.escopos = pedido.escopos /\ m.lidas = pedido.lidas /\ m.extras = pedido.extras
        /\ m.passo = s /\ m.permissoes = q
    BY <1>0, FormaDoPedido
  <2> HIDE DEF m
  <2>3. pedido' = m
    BY <1>2, <2>1 DEF LerEmpresa, m
  <2>4. /\ TypeOK' /\ FatosSao /\ (Fatos \ Verdades)' \subseteq faltou'
        /\ Verdades \subseteq visto' /\ visto \subseteq visto'
    BY <1>0, <2>1, <2>2, <2>3, SoOPedido
  <2>5. <<"empresa">> \in visto'
    BY <1>2, <2>4 DEF FatosSao
  <2>6. MemoriaBoa' /\ EmCurso'
    BY <1>0, <2>1, <2>2, <2>3 DEF MemoriaBoa, EmCurso
  <2>7. VistoBom'
    BY <1>0, <2>1, <2>2, <2>3, <2>4, <2>5 DEF VistoBom, MemoriaBoa, EmCurso
  <2>8. FaltouBom'
    BY <1>0, <2>1, <2>2, <2>3, <2>4 DEF FaltouBom, MemoriaBoa, EmCurso
  <2> QED
    BY <2>4, <2>6, <2>7, <2>8, EmCursoInv
<1> QED
  BY <1>1, <1>2

LEMMA LerVinculoInv ==
    ASSUME Inv, LerVinculo, Historia
    PROVE  Inv'
<1>0. /\ TypeOK /\ MemoriaBoa /\ VistoBom /\ FaltouBom /\ EmCurso /\ pedido.passo = "vinculo"
      /\ pedido \in Pedido /\ UNCHANGED <<publico, obra, mudancas>> /\ vinculo \in BOOLEAN
  BY DEF Inv, LerVinculo, EmCurso, TypeOK
<1>1. PICK passo \in {"leituras", "fim"} :
         /\ pedido' = [pedido EXCEPT !.passo = passo]
         /\ vinculo <=> passo = "leituras"
  BY <1>0 DEF LerVinculo, Barrado
<1> DEFINE m == [pedido EXCEPT !.passo = passo]
<1>2. /\ m \in Pedido /\ m.passo = passo /\ m.via = pedido.via /\ m.aberto = pedido.aberto
      /\ m.lista = pedido.lista /\ m.credencial = pedido.credencial /\ m.token = pedido.token
      /\ m.escopos = pedido.escopos /\ m.lidas = pedido.lidas /\ m.extras = pedido.extras
      /\ m.permissoes = pedido.permissoes
  BY <1>0, FormaDoPedido DEF DosPassos
<1> HIDE DEF m
<1>3. pedido' = m
  BY <1>1 DEF m
<1>4. /\ TypeOK' /\ FatosSao /\ (Fatos \ Verdades)' \subseteq faltou' /\ Verdades' = Verdades
      /\ Verdades \subseteq visto' /\ visto \subseteq visto'
  BY <1>0, <1>1, <1>2, <1>3, SoOPedido
<1>5. MemoriaBoa'
  BY <1>0, <1>1, <1>2, <1>3 DEF MemoriaBoa, EmCurso
<1>6. CASE passo = "leituras"
  <2>1. <<"vinculo">> \in visto'
    <3>1. vinculo = TRUE
      BY <1>0, <1>1, <1>6
    <3> QED
      BY <3>1, <1>4 DEF FatosSao
  <2>2. VistoBom' /\ EmCurso'
    BY <1>0, <1>2, <1>3, <1>4, <1>6, <2>1 DEF VistoBom, MemoriaBoa, EmCurso
  <2>3. FaltouBom'
    BY <1>0, <1>2, <1>3, <1>4, <1>6 DEF FaltouBom, MemoriaBoa, EmCurso
  <2> QED
    BY <1>4, <1>5, <2>2, <2>3, EmCursoInv
<1>7. CASE passo = "fim"
  <2>1. <<"vinculo">> \in Fatos' /\ <<"vinculo">> \notin Verdades'
    <3>1. vinculo # TRUE
      BY <1>0, <1>1, <1>7
    <3> QED
      BY <3>1, <1>4, Membros DEF FatosSao, Fatos
  <2>2. pedido'.credencial \in {"sessao", "pessoal"} /\ pedido'.via = "nenhuma"
    BY <1>0, <1>2, <1>3 DEF MemoriaBoa, EmCurso, Pedido
  <2> QED
    BY <1>2, <1>3, <1>4, <1>5, <1>7, <2>1, <2>2, FimInv
<1> QED
  BY <1>6, <1>7

-----------------------------------------------------------------------------
(* Acesso: the three reads.                                                *)

\* Whatever is read anew is what holds at that instant.
LEMMA LeituraInv ==
    ASSUME Inv, NEW m \in Pedido, pedido' = m, UNCHANGED <<publico, obra, mudancas>>, Historia,
           pedido.passo = "leituras", m.passo = "leituras", m.credencial = pedido.credencial,
           m.token = pedido.token, m.escopos = pedido.escopos, m.via = pedido.via,
           m.aberto = pedido.aberto, m.lista = pedido.lista,
           m.permissoes # pedido.permissoes =>
              /\ pedido.credencial # "servico"
              /\ m.permissoes = UNION {padroes[r] : r \in papeis},
           m.lidas # pedido.lidas =>
              m.lidas = {<<u, contrato[u].vence>> :
                            u \in {k \in Modulos : contrato[k].situacao = "active"}},
           m.extras # pedido.extras => m.extras = habilitados
    PROVE  Inv'
<1>0. TypeOK /\ MemoriaBoa /\ VistoBom /\ FaltouBom /\ EmCurso
  BY DEF Inv, EmCurso
<1>1. /\ TypeOK' /\ FatosSao /\ (Fatos \ Verdades)' \subseteq faltou' /\ Verdades' = Verdades
      /\ Verdades \subseteq visto' /\ visto \subseteq visto' /\ faltou \subseteq faltou'
      /\ UNCHANGED <<empresa, vinculo, papeis, padroes, contrato, habilitados, token, agora>>
  BY <1>0, SoOPedido
<1>2. MemoriaBoa'
  BY <1>0 DEF MemoriaBoa, EmCurso
<1>3. EmCurso'
  BY DEF EmCurso
<1>4. VistoBom'
  <2>1. /\ m.credencial = "pessoal" => <<"token", m.token>> \in visto'
        /\ <<"empresa">> \in visto'
        /\ m.credencial # "servico" => <<"vinculo">> \in visto'
    BY <1>0, <1>1 DEF VistoBom
  <2>2. m.credencial # "servico" /\ m.permissoes # Nulo =>
           \A padrao \in m.permissoes :
              \E r \in Papeis : <<"papel", r>> \in visto' /\ padrao \in padroes[r]
    <3>1. CASE m.permissoes = pedido.permissoes
      BY <1>0, <1>1, <3>1 DEF VistoBom
    <3>2. CASE m.permissoes = UNION {padroes[r] : r \in papeis}
      <4>1. papeis \subseteq Papeis
        BY <1>0 DEF TypeOK
      <4>2. \A r \in papeis : <<"papel", r>> \in visto'
        BY <4>1, <1>1 DEF FatosSao
      <4> QED
        BY <3>2, <4>1, <4>2
    <3> QED
      BY <3>1, <3>2
  <2>3. m.lidas # Nulo =>
           \A l \in m.lidas : (l[2] = Nulo \/ l[2] > agora) => <<"unidade", l[1]>> \in visto'
    <3>1. CASE m.lidas = pedido.lidas
      BY <1>0, <1>1, <3>1 DEF VistoBom
    <3>2. CASE m.lidas = {<<u, contrato[u].vence>> :
                             u \in {k \in Modulos : contrato[k].situacao = "active"}}
      <4> SUFFICES ASSUME NEW u \in Modulos, contrato[u].situacao = "active",
                          contrato[u].vence = Nulo \/ contrato[u].vence > agora
                   PROVE  <<"unidade", u>> \in visto'
        BY <3>2
      <4>1. Vigente(contrato[u], agora)
        BY DEF Vigente
      <4> QED
        BY <4>1, <1>1 DEF FatosSao
    <3> QED
      BY <3>1, <3>2
  <2>4. m.extras # Nulo => \A u \in m.extras : <<"unidade", u>> \in visto'
    <3>1. CASE m.extras = pedido.extras
      BY <1>0, <1>1, <3>1 DEF VistoBom
    <3>2. CASE m.extras = habilitados
      BY <1>0, <1>1, <3>2 DEF FatosSao, TypeOK
    <3> QED
      BY <3>1, <3>2
  <2> QED
    BY <1>1, <2>1, <2>2, <2>3, <2>4 DEF VistoBom
<1>5. FaltouBom'
  <2>0. \A f \in Fatos : f \notin faltou' => f \in Verdades
    BY <1>1 DEF Fatos
  <2>1. m.permissoes # Nulo /\ m.credencial # "servico" =>
           \A r \in Papeis : <<"papel", r>> \notin faltou' => padroes[r] \subseteq m.permissoes
    <3>1. CASE m.permissoes = pedido.permissoes
      BY <1>0, <1>1, <3>1 DEF FaltouBom
    <3>2. CASE m.permissoes = UNION {padroes[r] : r \in papeis}
      <4>1. \A r \in Papeis : <<"papel", r>> \notin faltou' => r \in papeis
        BY <2>0, <1>1, Membros DEF FatosSao
      <4> QED
        BY <3>2, <4>1
    <3> QED
      BY <3>1, <3>2
  <2>2. m.lidas # Nulo =>
           \A u \in Modulos : <<"unidade", u>> \notin faltou' => <<u, contrato[u].vence>> \in m.lidas
    <3>1. CASE m.lidas = pedido.lidas
      BY <1>0, <1>1, <3>1 DEF FaltouBom
    <3>2. CASE m.lidas = {<<u, contrato[u].vence>> :
                             u \in {k \in Modulos : contrato[k].situacao = "active"}}
      <4>1. \A u \in Modulos : <<"unidade", u>> \notin faltou' => contrato[u].situacao = "active"
        BY <2>0, <1>1, Membros DEF FatosSao, Vigente
      <4> QED
        BY <3>2, <4>1
    <3> QED
      BY <3>1, <3>2
  <2>3. m.extras # Nulo =>
           \A u \in PluginsInstalados : <<"unidade", u>> \notin faltou' => u \in m.extras
    <3>1. CASE m.extras = pedido.extras
      BY <1>0, <1>1, <3>1 DEF FaltouBom
    <3>2. CASE m.extras = habilitados
      BY <2>0, <1>1, <3>2, Membros DEF FatosSao
    <3> QED
      BY <3>1, <3>2
  <2> QED
    BY <1>1, <2>1, <2>2, <2>3 DEF FaltouBom
<1> QED
  BY <1>1, <1>2, <1>3, <1>4, <1>5, EmCursoInv

LEMMA LerPermissoesInv ==
    ASSUME Inv, LerPermissoes, Historia
    PROVE  Inv'
<1>0. pedido \in Pedido /\ TypeOK /\ MemoriaBoa
  BY DEF Inv, TypeOK
<1>1. PICK q : q = UNION {padroes[r] : r \in papeis}
  OBVIOUS
<1>2. q \in DasPermissoes
  BY <1>0, <1>1 DEF TypeOK, DasPermissoes
<1> DEFINE m == [pedido EXCEPT !.permissoes = q]
<1>3. /\ m \in Pedido /\ m.via = pedido.via /\ m.aberto = pedido.aberto
      /\ m.lista = pedido.lista /\ m.credencial = pedido.credencial /\ m.token = pedido.token
      /\ m.escopos = pedido.escopos /\ m.lidas = pedido.lidas /\ m.extras = pedido.extras
      /\ m.passo = pedido.passo /\ m.permissoes = q
  BY <1>0, <1>2, FormaDoPedido
<1> HIDE DEF m
<1>4. pedido' = m /\ pedido.passo = "leituras" /\ UNCHANGED <<publico, obra, mudancas>>
  BY <1>1 DEF LerPermissoes, m
<1>5. pedido.credencial # "servico"
  BY <1>0, <1>4, AcessoAssumption DEF MemoriaBoa, LerPermissoes
<1> QED
  BY <1>1, <1>3, <1>4, <1>5, LeituraInv

LEMMA LerContratosInv ==
    ASSUME Inv, LerContratos, Historia
    PROVE  Inv'
<1>0. pedido \in Pedido /\ TypeOK
  BY DEF Inv, TypeOK
<1>1. PICK q : q = {<<u, contrato[u].vence>> : u \in {k \in Modulos : contrato[k].situacao = "active"}}
  OBVIOUS
<1>2. q \in DasLidas
  <2>1. \A u \in Modulos : contrato[u].vence \in Instantes \union {Nulo}
    BY <1>0 DEF TypeOK, LinhaDeContratacao
  <2> QED
    BY <1>1, <2>1 DEF DasLidas
<1> DEFINE m == [pedido EXCEPT !.lidas = q]
<1>3. /\ m \in Pedido /\ m.via = pedido.via /\ m.aberto = pedido.aberto
      /\ m.lista = pedido.lista /\ m.credencial = pedido.credencial /\ m.token = pedido.token
      /\ m.escopos = pedido.escopos /\ m.lidas = q /\ m.extras = pedido.extras
      /\ m.passo = pedido.passo /\ m.permissoes = pedido.permissoes
  BY <1>0, <1>2, FormaDoPedido
<1> HIDE DEF m
<1>4. pedido' = m /\ pedido.passo = "leituras" /\ UNCHANGED <<publico, obra, mudancas>>
  BY <1>1 DEF LerContratos, m
<1> QED
  BY <1>1, <1>3, <1>4, LeituraInv

LEMMA LerExtrasInv ==
    ASSUME Inv, LerExtras, Historia
    PROVE  Inv'
<1>0. pedido \in Pedido /\ habilitados \in DosExtras
  BY DEF Inv, TypeOK, DosExtras
<1> DEFINE m == [pedido EXCEPT !.extras = habilitados]
<1>1. /\ m \in Pedido /\ m.via = pedido.via /\ m.aberto = pedido.aberto
      /\ m.lista = pedido.lista /\ m.credencial = pedido.credencial /\ m.token = pedido.token
      /\ m.escopos = pedido.escopos /\ m.lidas = pedido.lidas /\ m.extras = habilitados
      /\ m.passo = pedido.passo /\ m.permissoes = pedido.permissoes
  BY <1>0, FormaDoPedido
<1> HIDE DEF m
<1>2. pedido' = m /\ pedido.passo = "leituras" /\ UNCHANGED <<publico, obra, mudancas>>
  BY DEF LerExtras, m
<1> QED
  BY <1>1, <1>2, LeituraInv

-----------------------------------------------------------------------------
(* Acesso: the decision.                                                   *)

LEMMA CamposDaConcessao ==
    /\ Concessao.permissoes = pedido.permissoes /\ Concessao.escopos = pedido.escopos
    /\ Concessao.unidades = pedido.extras \union
          {l[1] : l \in {x \in pedido.lidas :
                            Vigente([situacao |-> "active", vence |-> x[2]], agora)}}
BY DEF Concessao

\* What is granted was seen to hold, and what held all along is granted.
LEMMA Decisao ==
    ASSUME Inv, Resolvido, pedido' \in Pedido, UNCHANGED <<publico, obra, mudancas>>, Historia,
           pedido'.passo = "decidido", pedido'.credencial = pedido.credencial,
           pedido'.token = pedido.token, pedido'.escopos = pedido.escopos
    PROVE  /\ \A k : AutorizaTodas(Concessao, k) => Alcanca(visto, k)'
           /\ \A k : Alcanca(Fatos \ faltou, k)' => AutorizaTodas(Concessao, k)
<1>0. /\ TypeOK /\ MemoriaBoa /\ VistoBom /\ FaltouBom /\ EmCurso /\ pedido \in Pedido
      /\ pedido.passo = "leituras"
      /\ pedido.permissoes # Nulo /\ pedido.lidas # Nulo /\ pedido.extras # Nulo
  BY DEF Inv, EmCurso, Resolvido, TypeOK
<1>1. /\ FatosSao /\ (Fatos \ Verdades)' \subseteq faltou' /\ Verdades' = Verdades
      /\ Verdades \subseteq visto' /\ visto \subseteq visto' /\ faltou \subseteq faltou'
      /\ UNCHANGED <<empresa, vinculo, papeis, padroes, contrato, habilitados, token, agora>>
  BY <1>0, SoOPedido
<1>2. \A c : Vigente([situacao |-> "active", vence |-> c], agora) <=> (c = Nulo \/ c > agora)
  BY DEF Vigente
<1>3. ASSUME NEW k, AutorizaTodas(Concessao, k)
      PROVE  Alcanca(visto, k)'
  <2>1. /\ <<"empresa">> \in visto'
        /\ pedido'.credencial \in {"sessao", "pessoal"} => <<"vinculo">> \in visto'
        /\ pedido'.credencial = "pessoal" => <<"token", pedido'.token>> \in visto'
    BY <1>0, <1>1 DEF VistoBom
  <2>2. ASSUME NEW chave \in k
        PROVE  /\ UnidadeDe(chave) # <<"platform">> => <<"unidade", UnidadeDe(chave)>> \in visto'
               /\ Concede(pedido'.escopos, chave)
               /\ pedido'.credencial # "servico" =>
                     \E r \in Papeis : <<"papel", r>> \in visto' /\ Concede(padroes'[r], chave)
    <3>1. /\ Contratada(Concessao, chave) /\ Concede(pedido.permissoes, chave)
          /\ Concede(pedido.escopos, chave)
      BY <1>3, <2>2, CamposDaConcessao DEF AutorizaTodas, Autoriza
    <3>2. ASSUME UnidadeDe(chave) # <<"platform">>
          PROVE  <<"unidade", UnidadeDe(chave)>> \in visto'
      <4>1. PICK u : u = UnidadeDe(chave)
        OBVIOUS
      <4>2. u \in Concessao.unidades
        BY <3>1, <3>2, <4>1 DEF Contratada
      <4>3. CASE u \in pedido.extras
        BY <4>1, <4>3, <1>0, <1>1 DEF VistoBom
      <4>4. CASE \E l \in pedido.lidas : u = l[1] /\ (l[2] = Nulo \/ l[2] > agora)
        BY <4>1, <4>4, <1>0, <1>1 DEF VistoBom
      <4> QED
        BY <4>2, <4>3, <4>4, <1>2, CamposDaConcessao
    <3>3. ASSUME pedido.credencial # "servico"
          PROVE  \E r \in Papeis : <<"papel", r>> \in visto' /\ Concede(padroes[r], chave)
      <4>1. PICK padrao \in pedido.permissoes : Casa(padrao, chave)
        BY <3>1 DEF Concede
      <4>2. PICK r \in Papeis : <<"papel", r>> \in visto /\ padrao \in padroes[r]
        BY <4>1, <3>3, <1>0 DEF VistoBom
      <4> QED
        BY <4>1, <4>2, <1>1 DEF Concede
    <3> QED
      BY <3>1, <3>2, <3>3, <1>1
  <2> QED
    BY <2>1, <2>2 DEF Alcanca
<1>4. ASSUME NEW k, Alcanca(Fatos \ faltou, k)'
      PROVE  AutorizaTodas(Concessao, k)
  <2>0. \A f : f \in (Fatos \ faltou)' => f \in Fatos /\ f \notin faltou' /\ f \notin faltou /\ f \in Verdades
    BY <1>1 DEF Fatos
  <2> SUFFICES ASSUME NEW chave \in k
               PROVE  Autoriza(Concessao, chave)
    BY DEF AutorizaTodas
  <2>1. /\ UnidadeDe(chave) # <<"platform">> => <<"unidade", UnidadeDe(chave)>> \in (Fatos \ faltou)'
        /\ Concede(pedido.escopos, chave)
        /\ pedido.credencial # "servico" =>
              \E r \in Papeis : <<"papel", r>> \in (Fatos \ faltou)' /\ Concede(padroes[r], chave)
    BY <1>1, <1>4 DEF Alcanca
  <2>2. Contratada(Concessao, chave)
    <3>1. CASE UnidadeDe(chave) = <<"platform">>
      BY <3>1 DEF Contratada
    <3>2. CASE UnidadeDe(chave) # <<"platform">>
      <4>1. PICK u : u = UnidadeDe(chave)
        OBVIOUS
      <4>2. <<"unidade", u>> \in Fatos /\ <<"unidade", u>> \notin faltou /\ <<"unidade", u>> \in Verdades
        BY <2>0, <2>1, <3>2, <4>1
      <4>3. u \in Modulos \union PluginsInstalados
        BY <4>2, Membros
      <4>4. CASE u \in PluginsInstalados
        <5>1. u \in pedido.extras
          BY <4>2, <4>4, <1>0 DEF FaltouBom
        <5> QED
          BY <4>1, <5>1, CamposDaConcessao DEF Contratada
      <4>5. CASE u \in Modulos
        <5>1. PICK v : v = contrato[u].vence
          OBVIOUS
        <5>2. PICK l \in pedido.lidas : l = <<u, v>>
          BY <4>2, <4>5, <5>1, <1>0 DEF FaltouBom
        <5>3. v = Nulo \/ v > agora
          BY <4>2, <4>5, <5>1, <1>1 DEF FatosSao, Vigente
        <5>4. u \in Concessao.unidades
          BY <5>2, <5>3, <1>2, CamposDaConcessao
        <5> QED
          BY <4>1, <5>4 DEF Contratada
      <4> QED
        BY <4>3, <4>4, <4>5
    <3> QED
      BY <3>1, <3>2
  <2>3. Concede(pedido.permissoes, chave)
    <3>1. CASE pedido.credencial = "servico"
      BY <2>1, <3>1, <1>0 DEF MemoriaBoa
    <3>2. CASE pedido.credencial # "servico"
      <4>1. PICK r \in Papeis : <<"papel", r>> \in (Fatos \ faltou)' /\ Concede(padroes[r], chave)
        BY <2>1, <3>2
      <4>2. padroes[r] \subseteq pedido.permissoes
        BY <4>1, <2>0, <3>2, <1>0 DEF FaltouBom
      <4> QED
        BY <4>1, <4>2 DEF Concede
    <3> QED
      BY <3>1, <3>2
  <2> QED
    BY <2>1, <2>2, <2>3, CamposDaConcessao DEF Autoriza
<1> QED
  BY <1>3, <1>4

LEMMA TipoDaConcessao ==
    ASSUME Inv, Resolvido
    PROVE  Concessao \in DasConcessoes
<1>1. pedido \in Pedido
  BY DEF Inv, TypeOK
<1>2. /\ pedido.permissoes \in DasPermissoes \ {Nulo} /\ pedido.escopos \in DosEscopos
      /\ pedido.lidas \in DasLidas \ {Nulo} /\ pedido.extras \in DosExtras \ {Nulo}
  BY <1>1, FormaDoPedido DEF Resolvido
<1>3. pedido.permissoes \in (SUBSET PadroesDePapel) \union Escopos
  BY <1>2 DEF DasPermissoes
<1>4. pedido.extras \subseteq PluginsInstalados
  BY <1>2 DEF DosExtras
<1>5. pedido.lidas \subseteq Modulos \X (Instantes \union {Nulo})
  BY <1>2 DEF DasLidas
<1>6. Concessao.unidades \subseteq Modulos \union PluginsInstalados
  BY <1>4, <1>5, CamposDaConcessao
<1>7. pedido.escopos \in Escopos \union {{Tudo}}
  BY <1>2 DEF DosEscopos
<1> QED
  BY <1>3, <1>6, <1>7 DEF DasConcessoes, Concessao

LEMMA DecidirInv ==
    ASSUME Inv, Resolvido, NEW via \in {"rest", "mcp"}, NEW aberto \in DosAbertos,
           NEW lista \in DosListados, Decidir(via, aberto, lista),
           UNCHANGED <<publico, obra, mudancas>>, Historia,
           \A x \in aberto \union lista : AutorizaTodas(Concessao, x.exige),
           via = "rest" => \A r \in Rotas : AutorizaTodas(Concessao, r.exige) => r \in aberto,
           via = "mcp" => \A c \in Catalogo : AutorizaTodas(Concessao, c.exige)
                                                => c \in aberto \intersect lista
    PROVE  Inv'
<1>0. pedido \in Pedido /\ MemoriaBoa
  BY DEF Inv, TypeOK
<1>1. PICK g \in DasConcessoes : g = Concessao
  BY TipoDaConcessao
<1> DEFINE m == [pedido EXCEPT !.passo = "decidido", !.via = via, !.concessao = g,
                             !.aberto = aberto, !.lista = lista,
                             !.permissoes = Nulo, !.lidas = Nulo, !.extras = Nulo]
<1>2. /\ "decidido" \in DosPassos /\ via \in DasVias
      /\ Nulo \in DasPermissoes /\ Nulo \in DasLidas /\ Nulo \in DosExtras
  BY DEF DosPassos, DasVias, DasPermissoes, DasLidas, DosExtras
<1>3. /\ m \in Pedido /\ m.passo = "decidido" /\ m.via = via /\ m.aberto = aberto
      /\ m.lista = lista /\ m.credencial = pedido.credencial /\ m.token = pedido.token
      /\ m.escopos = pedido.escopos
  BY <1>0, <1>1, <1>2, FormaDoPedido
<1> HIDE DEF m
<1>4. pedido' = m
  BY <1>1 DEF Decidir, m
<1>5. TypeOK'
  BY <1>3, <1>4, SoOPedido DEF Resolvido, EmCurso
<1>6. MemoriaBoa' /\ VistoBom' /\ FaltouBom'
  BY <1>0, <1>3, <1>4 DEF MemoriaBoa, VistoBom, FaltouBom, EmCurso
<1>7. /\ \A k : AutorizaTodas(Concessao, k) => Alcanca(visto, k)'
      /\ \A k : Alcanca(Fatos \ faltou, k)' => AutorizaTodas(Concessao, k)
  BY <1>3, <1>4, Decisao
<1>8. NegadoNaoPassa'
  BY <1>3, <1>4, <1>7 DEF NegadoNaoPassa
<1>9. QuemTemEntra'
  BY <1>3, <1>4, <1>7 DEF QuemTemEntra, Rotas, Catalogo
<1> QED
  BY <1>5, <1>6, <1>8, <1>9 DEF Inv

LEMMA GuardarInv ==
    ASSUME Inv, Guardar, Historia
    PROVE  Inv'
<1>1. PICK a : a = {r \in Rotas : AutorizaTodas(Concessao, r.exige)}
  OBVIOUS
<1>2. a \in DosAbertos /\ {} \in DosListados
  BY <1>1 DEF DosAbertos, DosListados
<1> QED
  BY <1>1, <1>2, DecidirInv DEF Guardar

LEMMA AtenderInv ==
    ASSUME Inv, Atender, Historia
    PROVE  Inv'
<1>1. PICK a : a = {c \in Catalogo : AutorizaTodas(Concessao, c.exige)}
  OBVIOUS
<1>2. a \in DosAbertos /\ a \in DosListados
  BY <1>1 DEF DosAbertos, DosListados
<1>3. Alcancaveis(Concessao) = a /\ Visiveis(Concessao) = a
  BY <1>1 DEF Alcancaveis, Visiveis
<1> QED
  BY <1>1, <1>2, <1>3, DecidirInv DEF Atender

-----------------------------------------------------------------------------
(* Acesso: what changes what access is made of.                            *)

\* A request runs a use case it was let in to.
LEMMA EscolherInv ==
    ASSUME Inv, Escolher, Historia
    PROVE  Inv'
<1>0. /\ TypeOK /\ pedido \in Pedido /\ MemoriaBoa /\ NegadoNaoPassa /\ QuemTemEntra
      /\ pedido.passo = "decidido"
      /\ UNCHANGED <<empresa, vinculo, papeis, padroes, contrato, habilitados, token, agora,
                     obra, mudancas>>
  BY DEF Inv, TypeOK, Escolher, publico
<1>1. PICK c \in Efeitos : pedido' = [pedido EXCEPT !.passo = "executar", !.caso = c]
  BY DEF Escolher
<1> DEFINE m == [pedido EXCEPT !.passo = "executar", !.caso = c]
<1>2. "executar" \in DosPassos /\ c \in DosCasos
  BY DEF DosPassos, DosCasos
<1>3. /\ m \in Pedido /\ m.passo = "executar" /\ m.via = pedido.via /\ m.aberto = pedido.aberto
      /\ m.lista = pedido.lista /\ m.credencial = pedido.credencial /\ m.token = pedido.token
      /\ m.escopos = pedido.escopos
  BY <1>0, <1>2, FormaDoPedido
<1>4. pedido' = m
  BY <1>1
<1> HIDE DEF m
<1>5. TypeOK'
  BY <1>0, <1>3, <1>4 DEF TypeOK
<1>6. MemoriaBoa' /\ VistoBom' /\ FaltouBom'
  BY <1>0, <1>3, <1>4 DEF MemoriaBoa, VistoBom, FaltouBom, EmCurso
<1>7. visto' = visto /\ faltou' = faltou
  BY <1>0, <1>3, <1>4 DEF Historia
<1>8. PICK v, f : v = visto /\ f = Fatos \ faltou
  OBVIOUS
<1>9. \A k : (Alcanca(v, k)' <=> Alcanca(v, k)) /\ (Alcanca(f, k)' <=> Alcanca(f, k))
  BY <1>0, <1>3, <1>4, AlcancaFica
<1>10. NegadoNaoPassa'
  BY <1>0, <1>3, <1>4, <1>7, <1>8, <1>9 DEF NegadoNaoPassa
<1>11. QuemTemEntra'
  BY <1>0, <1>3, <1>4, <1>7, <1>8, <1>9 DEF QuemTemEntra
<1> QED
  BY <1>5, <1>6, <1>10, <1>11 DEF Inv

\* The kinds of the variables a use case changes.
DasObras == [Autores -> (Modulos \X (Instantes \union {Nulo})) \union {Nulo}]
DosContratos == [Modulos -> LinhaDeContratacao]
DasLinhasDeToken == [Tokens -> LinhaDeToken]

LEMMA ContratarTipo ==
    ASSUME TypeOK, NEW a \in Autores, NEW u \in EmJogo, NEW v \in {Nulo, MaxAgora},
           Contratar(a, u, v)
    PROVE  obra' \in DasObras
<1>1. u \in Modulos /\ v \in Instantes \union {Nulo}
  BY AcessoAssumption DEF EmJogo, Instantes
<1>2. obra \in DasObras
  BY DEF TypeOK, DasObras
<1>3. obra' = [obra EXCEPT ![a] = <<u, v>>]
  BY DEF Contratar
<1> QED
  BY <1>1, <1>2, <1>3 DEF DasObras

LEMMA SalvarTipo ==
    ASSUME TypeOK, NEW a \in Autores, SalvarContratacao(a)
    PROVE  contrato' \in DosContratos /\ obra' \in DasObras
<1>1. obra \in DasObras /\ contrato \in DosContratos
  BY DEF TypeOK, DasObras, DosContratos
<1>2. PICK u \in Modulos, v \in Instantes \union {Nulo} : obra[a] = <<u, v>>
  BY <1>1 DEF SalvarContratacao, DasObras
<1>3. contrato' = [contrato EXCEPT ![u] = [situacao |-> "active", vence |-> v]]
  BY <1>2 DEF SalvarContratacao
<1>4. [situacao |-> "active", vence |-> v] \in LinhaDeContratacao
  BY DEF LinhaDeContratacao
<1>5. obra' = [obra EXCEPT ![a] = Nulo]
  BY DEF SalvarContratacao
<1>6. contrato' \in DosContratos
  BY <1>1, <1>3, <1>4 DEF DosContratos
<1>7. obra' \in DasObras
  BY <1>1, <1>5 DEF DasObras
<1> QED
  BY <1>6, <1>7

LEMMA DescontratarTipo ==
    ASSUME TypeOK, NEW u \in EmJogo, Descontratar(u)
    PROVE  contrato' \in DosContratos
<1>1. contrato \in [Modulos -> LinhaDeContratacao] /\ u \in Modulos
  BY DEF TypeOK, EmJogo
<1>2. [contrato[u] EXCEPT !.situacao = "suspended"] \in LinhaDeContratacao
  BY <1>1 DEF LinhaDeContratacao
<1>3. contrato' = [contrato EXCEPT ![u] = [contrato[u] EXCEPT !.situacao = "suspended"]]
  BY DEF Descontratar
<1> QED
  BY <1>1, <1>2, <1>3 DEF DosContratos

LEMMA EmitirTipo ==
    ASSUME TypeOK, NEW t \in Tokens, NEW e \in Escopos, EmitirToken(t, e)
    PROVE  token' \in DasLinhasDeToken
<1>1. token \in [Tokens -> LinhaDeToken]
  BY DEF TypeOK
<1>2. [situacao |-> "vivo", vence |-> MaxAgora, escopos |-> e] \in LinhaDeToken
  BY AcessoAssumption DEF LinhaDeToken, Instantes
<1> QED
  BY <1>1, <1>2 DEF EmitirToken, InserirToken, DasLinhasDeToken

LEMMA RevogarTipo ==
    ASSUME TypeOK, NEW t \in Tokens, RevogarToken(t)
    PROVE  token' \in DasLinhasDeToken
<1>1. token \in [Tokens -> LinhaDeToken]
  BY DEF TypeOK
<1>2. [token[t] EXCEPT !.situacao = "revogado"] \in LinhaDeToken
  BY <1>1 DEF LinhaDeToken
<1>3. token' = [token EXCEPT ![t] = [token[t] EXCEPT !.situacao = "revogado"]]
  BY DEF RevogarToken, MarcarRevogado
<1> QED
  BY <1>1, <1>2, <1>3 DEF DasLinhasDeToken

LEMMA MudarTipo ==
    ASSUME TypeOK, Mudar
    PROVE  mudancas' \in 0..MaxMudancas
BY AcessoAssumption DEF TypeOK, Mudar

LEMMA IniciarContratacaoInv ==
    ASSUME Inv, IniciarContratacao, Historia
    PROVE  Inv'
<1>0. TypeOK
  BY DEF Inv
<1>1. PICK u \in EmJogo, v \in {Nulo, MaxAgora} : Contratar("portador", u, v)
  BY DEF IniciarContratacao
<1>2. obra' \in DasObras
  BY <1>0, <1>1, ContratarTipo DEF Autores
<1>3. UNCHANGED <<publico, pedido, mudancas>>
  BY <1>1 DEF Contratar, IniciarContratacao
<1>4. TypeOK'
  BY <1>0, <1>2, <1>3 DEF TypeOK, publico, DasObras
<1> QED
  BY <1>3, <1>4, OutrosInv DEF publico

LEMMA AdministrarInv ==
    ASSUME Inv, Administrar, Historia
    PROVE  Inv'
<1>0. TypeOK /\ mudancas' \in 0..MaxMudancas /\ pedido' = pedido
  BY MudarTipo DEF Inv, Administrar
<1>1. ASSUME NEW u \in EmJogo, NEW v \in {Nulo, MaxAgora}, Contratar("administrador", u, v)
      PROVE  Inv'
  <2>1. obra' \in DasObras /\ UNCHANGED publico
    BY <1>0, <1>1, ContratarTipo DEF Autores, Contratar
  <2>2. TypeOK'
    BY <1>0, <2>1 DEF TypeOK, publico, DasObras
  <2> QED
    BY <1>0, <2>1, <2>2, OutrosInv DEF publico
<1>2. ASSUME NEW u \in EmJogo, Descontratar(u)
      PROVE  Inv'
  <2>1. /\ contrato' \in DosContratos
        /\ UNCHANGED <<empresa, vinculo, papeis, padroes, habilitados, token, agora, obra>>
    BY <1>0, <1>2, DescontratarTipo DEF Descontratar
  <2>2. TypeOK'
    BY <1>0, <2>1 DEF TypeOK, DosContratos
  <2> QED
    BY <1>0, <2>1, <2>2, OutrosInv
<1>3. CASE MudarPlugin(habilitados = {})
  <2>1. /\ habilitados' \subseteq PluginsInstalados
        /\ UNCHANGED <<empresa, vinculo, papeis, padroes, contrato, token, agora, obra>>
    BY <1>3 DEF MudarPlugin
  <2>2. TypeOK'
    BY <1>0, <2>1 DEF TypeOK
  <2> QED
    BY <1>0, <2>1, <2>2, OutrosInv
<1> QED
  BY <1>1, <1>2, <1>3 DEF Administrar

LEMMA ConcluirContratacaoInv ==
    ASSUME Inv, ConcluirContratacao, Historia
    PROVE  Inv'
<1>0. TypeOK /\ SalvarContratacao("administrador") /\ UNCHANGED <<pedido, mudancas>>
  BY DEF Inv, ConcluirContratacao
<1>1. /\ contrato' \in DosContratos /\ obra' \in DasObras
      /\ UNCHANGED <<empresa, vinculo, papeis, padroes, habilitados, token, agora>>
  BY <1>0, SalvarTipo DEF Autores, SalvarContratacao
<1>2. TypeOK'
  BY <1>0, <1>1 DEF TypeOK, DosContratos, DasObras
<1> QED
  BY <1>0, <1>1, <1>2, OutrosInv

LEMMA MudarPorForaInv ==
    ASSUME Inv, MudarPorFora, Historia
    PROVE  Inv'
<1>0. TypeOK /\ mudancas' \in 0..MaxMudancas /\ pedido' = pedido
  BY MudarTipo DEF Inv, MudarPorFora
<1>1. UNCHANGED <<padroes, contrato, habilitados, token, agora, obra>>
  BY DEF MudarPorFora
<1>2. empresa' \in {"active", "suspended"}
  BY <1>0 DEF MudarPorFora, TypeOK
<1>3. vinculo' \in BOOLEAN
  BY <1>0, Zenon DEF MudarPorFora, TypeOK
<1>4. papeis' \subseteq Papeis
  BY <1>0 DEF MudarPorFora, TypeOK
<1>5. TypeOK'
  BY <1>0, <1>1, <1>2, <1>3, <1>4 DEF TypeOK
<1> QED
  BY <1>0, <1>1, <1>5, OutrosInv

LEMMA TiqueInv ==
    ASSUME Inv, Tique, Historia
    PROVE  Inv'
<1>0. TypeOK
  BY DEF Inv
<1>1. /\ agora' = agora + 1 /\ agora' \in Instantes
      /\ UNCHANGED <<empresa, vinculo, papeis, padroes, contrato, habilitados, token>>
      /\ UNCHANGED <<pedido, obra, mudancas>>
  BY <1>0, AcessoAssumption DEF Tique, TypeOK, Instantes
<1>2. TypeOK'
  BY <1>0, <1>1 DEF TypeOK
<1> QED
  BY <1>1, <1>2, OutrosInv

LEMMA ExecutarInv ==
    ASSUME Inv, Executar
    PROVE  Inv'
<1>0. TypeOK /\ mudancas' \in 0..MaxMudancas /\ pedido' = Livre /\ Livre \in Pedido
  BY MudarTipo, LivreTipo DEF Inv, Executar
<1>1. CASE SalvarContratacao("portador")
  <2>1. /\ contrato' \in DosContratos /\ obra' \in DasObras
        /\ UNCHANGED <<empresa, vinculo, papeis, padroes, habilitados, token, agora>>
    BY <1>0, <1>1, SalvarTipo DEF Autores, SalvarContratacao
  <2> QED
    BY <1>0, <2>1, EsquecidoInv DEF TypeOK, DosContratos, DasObras
<1>2. ASSUME NEW u \in EmJogo, Descontratar(u)
      PROVE  Inv'
  <2>1. /\ contrato' \in DosContratos
        /\ UNCHANGED <<empresa, vinculo, papeis, padroes, habilitados, token, agora, obra>>
    BY <1>0, <1>2, DescontratarTipo DEF Descontratar
  <2> QED
    BY <1>0, <2>1, EsquecidoInv DEF TypeOK, DosContratos
<1>3. ASSUME NEW t \in Tokens, NEW e \in Escopos, EmitirToken(t, e)
      PROVE  Inv'
  <2>1. /\ token' \in DasLinhasDeToken
        /\ UNCHANGED <<empresa, vinculo, papeis, padroes, contrato, habilitados, agora, obra>>
    BY <1>0, <1>3, EmitirTipo DEF EmitirToken
  <2> QED
    BY <1>0, <2>1, EsquecidoInv DEF TypeOK, DasLinhasDeToken
<1>4. ASSUME NEW t \in Tokens, RevogarToken(t)
      PROVE  Inv'
  <2>1. /\ token' \in DasLinhasDeToken
        /\ UNCHANGED <<empresa, vinculo, papeis, padroes, contrato, habilitados, agora, obra>>
    BY <1>0, <1>4, RevogarTipo DEF RevogarToken
  <2> QED
    BY <1>0, <2>1, EsquecidoInv DEF TypeOK, DasLinhasDeToken
<1>5. CASE MudarPlugin(TRUE) \/ MudarPlugin(FALSE)
  <2>1. /\ habilitados' \subseteq PluginsInstalados
        /\ UNCHANGED <<empresa, vinculo, papeis, padroes, contrato, token, agora, obra>>
    BY <1>5 DEF MudarPlugin
  <2> QED
    BY <1>0, <2>1, EsquecidoInv DEF TypeOK
<1> QED
  BY <1>1, <1>2, <1>3, <1>4, <1>5 DEF Executar

LEMMA EsquecerInv ==
    ASSUME Inv, Esquecer
    PROVE  Inv'
<1>0. TypeOK /\ pedido' = Livre /\ Livre \in Pedido /\ UNCHANGED <<publico, mudancas>>
  BY LivreTipo DEF Inv, Esquecer
<1>1. obra' \in DasObras
  BY <1>0 DEF TypeOK, Esquecer, DasObras
<1> QED
  BY <1>0, <1>1, EsquecidoInv DEF TypeOK, publico, DasObras

-----------------------------------------------------------------------------
(* Acesso: the theorems.                                                   *)

LEMMA NextInv == Inv /\ [Next]_vars => Inv'
<1> SUFFICES ASSUME Inv, [Next]_vars PROVE Inv'
    OBVIOUS
<1>1. CASE UNCHANGED vars
  BY <1>1, ParadoInv
<1>2. ASSUME Historia, Chegar PROVE Inv'
  BY <1>2, ChegarInv
<1>3. ASSUME Historia, NEW t \in Tokens, ChegarComToken(t) PROVE Inv'
  BY <1>3, ChegarComTokenInv
<1>4. ASSUME Historia, LerEmpresa PROVE Inv'
  BY <1>4, LerEmpresaInv
<1>5. ASSUME Historia, LerVinculo PROVE Inv'
  BY <1>5, LerVinculoInv
<1>6. ASSUME Historia, LerPermissoes \/ LerContratos \/ LerExtras PROVE Inv'
  BY <1>6, LerPermissoesInv, LerContratosInv, LerExtrasInv
<1>7. ASSUME Historia, Guardar \/ Atender PROVE Inv'
  BY <1>7, GuardarInv, AtenderInv
<1>8. ASSUME Historia, Escolher PROVE Inv'
  BY <1>8, EscolherInv
<1>9. ASSUME Historia, IniciarContratacao \/ Administrar \/ ConcluirContratacao PROVE Inv'
  BY <1>9, IniciarContratacaoInv, AdministrarInv, ConcluirContratacaoInv
<1>10. ASSUME Historia, MudarPorFora \/ Tique PROVE Inv'
  BY <1>10, MudarPorForaInv, TiqueInv
<1>11. ASSUME Executar \/ Esquecer PROVE Inv'
  BY <1>11, ExecutarInv, EsquecerInv
<1>12. Next \/ UNCHANGED vars
  OBVIOUS
<1> QED
  BY <1>1, <1>2, <1>3, <1>4, <1>5, <1>6, <1>7, <1>8, <1>9, <1>10, <1>11, <1>12 DEF Next, Passo

\* What a request holds at each step is what the history saw, and what it lacks
\* the history saw fail: the inductive invariant.
THEOREM InvSempre == Spec => []Inv
<1>1. Init => Inv
  BY InitInv
<1>2. Inv /\ [Next]_vars => Inv'
  BY NextInv
<1> QED
  BY <1>1, <1>2, PTL DEF Spec

\* Every variable keeps its kind.
THEOREM TiposSempre == Spec => []TypeOK
<1>1. Inv => TypeOK
  BY DEF Inv
<1> QED
  BY <1>1, InvSempre, PTL

\* Nothing is let in or listed that each thing it needs did not hold for at some
\* instant of the request, although each was read by a statement of its own.
THEOREM NegadoSempre == Spec => []NegadoNaoPassa
<1>1. Inv => NegadoNaoPassa
  BY DEF Inv
<1> QED
  BY <1>1, InvSempre, PTL

\* Nobody is turned away from what everything needed for held all along.
THEOREM QuemTemSempre == Spec => []QuemTemEntra
<1>1. Inv => QuemTemEntra
  BY DEF Inv
<1> QED
  BY <1>1, InvSempre, PTL

-----------------------------------------------------------------------------
(* Acesso: the gateway and the API.                                        *)

\* Whatever a capability runs, a route runs that requires no more than it does,
\* and that only reads if the capability only reads.
LEMMA MesmaChave ==
    ASSUME NEW c \in Catalogo, NEW k \in c.casos
    PROVE  \E r \in Rotas : k \in r.casos /\ r.exige \subseteq c.exige /\ (c.leitura => ~r.escreve)
<1> DEFINE Atualiza(ch) == /\ k \in {"UpdateAsset", "GetAsset"} /\ ~c.leitura
                           /\ ch = <<"assets", "asset", "manage">>
           Tem(rotas, ch) == \/ Ler(k, ch) \in rotas
                             \/ Agir(k, ch) \in rotas /\ ~c.leitura
                             \/ Atualiza(ch)
           Servida(rotas) == c.exige # {} /\ \A ch \in c.exige : Tem(rotas, ch)
<1>1. ASSUME c \in FerramentasDeCrm PROVE Servida(RotasDeClientes \union RotasDeAgenda)
  BY <1>1 DEF FerramentasDeCrm, RotasDeClientes, RotasDeAgenda, Consulta, Acao
<1>2. ASSUME c \in FerramentasDeAtivos PROVE Servida(RotasDeAtivos \union RotasDeBloqueios)
  <2> DEFINE busca == [Consulta("assets.asset.search", {"SearchAssets"},
                                <<"assets", "asset", "read">>) EXCEPT !.app = TelaDoPatio.nome]
  <2>1. CASE c = busca
    <3>1. /\ c.casos = {"SearchAssets"} /\ c.exige = {<<"assets", "asset", "read">>}
      BY <2>1 DEF Consulta
    <3> HIDE DEF busca
    <3> QED
      BY <3>1 DEF RotasDeAtivos
  <2>2. CASE c # busca
    BY <1>2, <2>2 DEF FerramentasDeAtivos, RotasDeAtivos, RotasDeBloqueios, Consulta, Acao
  <2> QED
    BY <2>1, <2>2
<1>3. ASSUME c \in FerramentasDePropostas PROVE Servida(RotasDePropostas)
  BY <1>3 DEF FerramentasDePropostas, AprovarProposta, RotasDePropostas, Consulta, Acao
<1>4. ASSUME c \in FerramentasDeContratos PROVE Servida(RotasDeContratos)
  BY <1>4 DEF FerramentasDeContratos, RotasDeContratos, Consulta, Acao
<1>5. ASSUME c \in FerramentasDeLocacoes PROVE Servida(RotasDeLocacoes)
  BY <1>5 DEF FerramentasDeLocacoes, RotasDeLocacoes, Consulta, Acao
<1>6. ASSUME c \in FerramentasDeNotificacoes PROVE Servida(RotasDeNotificacoes)
  BY <1>6 DEF FerramentasDeNotificacoes, RotasDeNotificacoes, Consulta, Acao
<1>7. ASSUME c \in RecursosDeCrm \union RoteirosDeCrm PROVE Servida(RotasDeClientes)
  BY <1>7 DEF RecursosDeCrm, RoteirosDeCrm, RotasDeClientes, Consulta
<1>8. ASSUME c \in RecursosDeAtivos PROVE Servida(RotasDeAtivos)
  BY <1>8 DEF RecursosDeAtivos, RotasDeAtivos, Consulta
<1>9. c # TelaDoPatio
  BY DEF TelaDoPatio, Consulta
<1>10. \/ c \in FerramentasDeCrm \/ c \in FerramentasDeAtivos \/ c \in FerramentasDePropostas
       \/ c \in FerramentasDeContratos \/ c \in FerramentasDeLocacoes
       \/ c \in FerramentasDeNotificacoes \/ c \in RecursosDeCrm \union RoteirosDeCrm
       \/ c \in RecursosDeAtivos
  BY <1>9 DEF Catalogo, Ferramentas
<1>11. PICK rotas \in SUBSET Rotas : Servida(rotas)
  <2> DEFINE RC == RotasDeClientes \union RotasDeAgenda
             RA == RotasDeAtivos \union RotasDeBloqueios
  <2>1. /\ RC \subseteq Rotas /\ RA \subseteq Rotas /\ RotasDePropostas \subseteq Rotas
        /\ RotasDeContratos \subseteq Rotas /\ RotasDeLocacoes \subseteq Rotas
        /\ RotasDeNotificacoes \subseteq Rotas /\ RotasDeClientes \subseteq Rotas
        /\ RotasDeAtivos \subseteq Rotas
    BY DEF Rotas
  <2> HIDE DEF Servida
  <2> QED
    BY <1>1, <1>2, <1>3, <1>4, <1>5, <1>6, <1>7, <1>8, <1>10, <2>1
<1>12. PICK ch \in c.exige : Tem(rotas, ch)
  BY <1>11
<1>13. CASE Ler(k, ch) \in rotas
  BY <1>12, <1>13 DEF Ler
<1>14. CASE Agir(k, ch) \in rotas /\ ~c.leitura
  BY <1>12, <1>14 DEF Agir
<1>15. CASE Atualiza(ch)
  <2>1. /\ AtualizarAtivo.casos = {"UpdateAsset", "GetAsset"} /\ AtualizarAtivo.exige = {ch}
    BY <1>15 DEF AtualizarAtivo, Agir
  <2>2. AtualizarAtivo \in Rotas
    BY DEF Rotas, RotasDeAtivos
  <2> QED
    BY <1>12, <1>15, <2>1, <2>2
<1> QED
  BY <1>12, <1>13, <1>14, <1>15

\* The decision of the gateway is kept until the request is forgotten.
LEMMA AbertoFica ==
    ASSUME TypeOK, AbertoBom, Passo
    PROVE  AbertoBom'
<1>0. pedido \in Pedido
  BY DEF TypeOK
<1>1. CASE pedido'.via # "mcp"
  BY <1>1 DEF AbertoBom
<1>2. CASE /\ pedido'.via = pedido.via /\ pedido'.aberto = pedido.aberto
           /\ pedido'.concessao = pedido.concessao
  BY <1>2 DEF AbertoBom
<1>3. Livre.via = "nenhuma"
  BY DEF Livre
<1>4. CASE Chegar \/ \E t \in Tokens : ChegarComToken(t)
  <2>1. pedido'.via = "nenhuma"
    BY <1>4 DEF Chegar, ChegarComToken, Livre
  <2> QED
    BY <2>1, <1>1
<1>5. CASE LerEmpresa \/ LerVinculo \/ LerPermissoes \/ LerContratos \/ LerExtras
  <2>1. /\ pedido'.via = pedido.via /\ pedido'.aberto = pedido.aberto
        /\ pedido'.concessao = pedido.concessao
    BY <1>0, <1>5 DEF LerEmpresa, LerVinculo, LerPermissoes, LerContratos, LerExtras, Barrado, Pedido
  <2> QED
    BY <2>1, <1>2
<1>6. CASE Guardar
  <2>1. pedido'.via = "rest"
    BY <1>0, <1>6 DEF Guardar, Decidir, Pedido
  <2> QED
    BY <2>1, <1>1
<1>7. CASE Atender
  <2>1. PICK k : k = Concessao
    OBVIOUS
  <2>2. pedido'.aberto = Alcancaveis(k) /\ pedido'.concessao = k
    BY <1>0, <1>7, <2>1 DEF Atender, Decidir, Pedido
  <2> QED
    BY <2>2 DEF AbertoBom, Alcancaveis
<1>8. CASE Escolher
  <2>1. /\ pedido'.via = pedido.via /\ pedido'.aberto = pedido.aberto
        /\ pedido'.concessao = pedido.concessao
    BY <1>0, <1>8 DEF Escolher, Pedido
  <2> QED
    BY <2>1, <1>2
<1>9. CASE Executar \/ Esquecer
  <2>1. pedido' = Livre
    BY <1>9 DEF Executar, Esquecer
  <2> QED
    BY <2>1, <1>1, <1>3
<1>10. CASE \/ IniciarContratacao \/ Administrar \/ ConcluirContratacao \/ MudarPorFora
            \/ Tique
  <2>1. pedido' = pedido
    BY <1>10 DEF IniciarContratacao, Administrar, ConcluirContratacao, MudarPorFora, Tique
  <2> QED
    BY <2>1, <1>2
<1> QED
  BY <1>4, <1>5, <1>6, <1>7, <1>8, <1>9, <1>10 DEF Passo

\* An agent runs nothing the API would not run for the same person, whatever was
\* granted, and what is offered as reading only runs what a route that only reads
\* runs (McpGateway and the guards of the controllers).
THEOREM PortariaSempre == Spec => []MesmaPortaria
<1>1. Init => AbertoBom
  <2>1. Init => pedido = Livre
    BY DEF Init
  <2>2. Livre.via = "nenhuma"
    BY DEF Livre
  <2> QED
    BY <2>1, <2>2 DEF AbertoBom
<1>2. TypeOK /\ AbertoBom /\ [Next]_vars => AbertoBom'
  <2>1. ASSUME AbertoBom, UNCHANGED vars PROVE AbertoBom'
    BY <2>1 DEF AbertoBom, vars
  <2> QED
    BY <2>1, AbertoFica DEF Next
<1>3. AbertoBom => MesmaPortaria
  <2> SUFFICES ASSUME AbertoBom, pedido.via = "mcp", NEW c \in pedido.aberto,
                      NEW k \in c.casos
               PROVE  \E r \in Rotas :
                          /\ k \in r.casos /\ AutorizaTodas(pedido.concessao, r.exige)
                          /\ c.leitura => ~r.escreve
    BY DEF MesmaPortaria
  <2>1. c \in Catalogo /\ AutorizaTodas(pedido.concessao, c.exige)
    BY DEF AbertoBom
  <2>2. \E r \in Rotas : k \in r.casos /\ r.exige \subseteq c.exige /\ (c.leitura => ~r.escreve)
    BY <2>1, MesmaChave
  <2> QED
    BY <2>1, <2>2 DEF AutorizaTodas
<1> QED
  BY <1>1, <1>2, <1>3, TiposSempre, PTL DEF Spec
-----------------------------------------------------------------------------
(* Telas: what the pages offer.                                            *)

\* The buttons there are.
LEMMA BotoesSao ==
    ASSUME NEW p \in Paginas, NEW b \in Conteudo[p].botoes
    PROVE  \/ p = "proposta" /\ b \in BotoesDaProposta
           \/ p = "contratos" /\ b \in BotoesDeContratos
           \/ p = "locacoes" /\ b \in BotoesDeLocacoes
           \/ p = "ativos" /\ b \in BotoesDeAtivos
<1>1. p \in {"clientes", "cliente", "propostas", "proposta", "contratos", "locacoes", "ativos"}
  BY DEF Paginas, Conteudo
<1>2. CASE p \in {"clientes", "cliente", "propostas"}
  BY <1>2 DEF Conteudo, Pagina, PaginaDeClientes, PaginaDoCliente, PaginaDePropostas
<1>3. CASE p \in {"proposta", "contratos"}
  BY <1>3 DEF Conteudo, Pagina, PaginaDaProposta, PaginaDeContratos
<1>4. CASE p \in {"locacoes", "ativos"}
  BY <1>4 DEF Conteudo, Pagina, PaginaDeLocacoes, PaginaDeAtivos
<1> QED
  BY <1>1, <1>2, <1>3, <1>4

\* The forms there are.
LEMMA FormulariosSao ==
    ASSUME NEW p \in Paginas, NEW f \in Conteudo[p].formularios
    PROVE  \/ p = "clientes" /\ f = NovoCliente
           \/ p = "cliente" /\ f = Formulario("AddCustomerNote", <<"crm", "note", "create">>)
           \/ p = "propostas" /\ f = NovaProposta
           \/ p = "contratos" /\ f = NovoContrato
           \/ p = "locacoes" /\ f = NovaLocacao
           \/ p = "ativos" /\ f \in {NovoAtivo, NovoBloqueio}
<1>1. p \in {"clientes", "cliente", "propostas", "proposta", "contratos", "locacoes", "ativos"}
  BY DEF Paginas, Conteudo
<1>2. CASE p \in {"clientes", "cliente", "propostas"}
  BY <1>2 DEF Conteudo, Pagina, PaginaDeClientes, PaginaDoCliente, PaginaDePropostas
<1>3. CASE p \in {"proposta", "contratos"}
  BY <1>3 DEF Conteudo, Pagina, PaginaDaProposta, PaginaDeContratos
<1>4. CASE p \in {"locacoes", "ativos"}
  BY <1>4 DEF Conteudo, Pagina, PaginaDeLocacoes, PaginaDeAtivos
<1> QED
  BY <1>1, <1>2, <1>3, <1>4

\* What the server requires for a use case is what its route does.
LEMMA ExigidasSao ==
    ASSUME NEW caso, NEW chave, Agir(caso, chave) \in Rotas,
           \A r \in Rotas : r.caso = caso => r.exige = {chave}
    PROVE  Exigidas(caso) = {chave}
<1>1. Agir(caso, chave).caso = caso /\ Agir(caso, chave).exige = {chave}
  BY DEF Agir
<1> QED
  BY <1>1 DEF Exigidas

LEMMA RotasDosBotoes ==
    ASSUME NEW p \in Paginas, NEW b \in Conteudo[p].botoes
    PROVE  Exigidas(b.caso) = {b.chave}
<1>1. Agir(b.caso, b.chave) \in Rotas
  BY BotoesSao DEF BotoesDaProposta, BotoesDeContratos, BotoesDeLocacoes, BotoesDeAtivos, Botao,
     Rotas, RotasDePropostas, RotasDeContratos, RotasDeLocacoes, RotasDeBloqueios
<1>2. \A r \in Rotas : r.caso = b.caso => r.exige = {b.chave}
  BY BotoesSao DEF BotoesDaProposta, BotoesDeContratos, BotoesDeLocacoes, BotoesDeAtivos, Botao,
            Rotas, RotasDeClientes, RotasDeAgenda, RotasDeAtivos, AtualizarAtivo, RotasDeBloqueios,
            RotasDePropostas, RotasDeContratos, RotasDeLocacoes, RotasDePlugins,
            RotasDeNotificacoes, RotasDeModulos, RotasDeAuditoria, RotasDeTokens,
            RotasDeIdentidade, Ler, Agir, SoIdentidade
<1> QED
  BY <1>1, <1>2, ExigidasSao

LEMMA RotasDosFormularios ==
    ASSUME NEW p \in Paginas, NEW f \in Conteudo[p].formularios
    PROVE  Exigidas(f.caso) = {f.chave}
<1>1. Agir(f.caso, f.chave) \in Rotas
  BY FormulariosSao DEF NovoCliente, NovaProposta, NovoContrato, NovaLocacao, NovoAtivo,
     NovoBloqueio, Formulario, Rotas, RotasDeClientes, RotasDePropostas, RotasDeContratos,
     RotasDeLocacoes, RotasDeAtivos, RotasDeBloqueios
<1>2. \A r \in Rotas : r.caso = f.caso => r.exige = {f.chave}
  BY FormulariosSao DEF NovoCliente, NovaProposta, NovoContrato, NovaLocacao, NovoAtivo,
            NovoBloqueio, Formulario,
            Rotas, RotasDeClientes, RotasDeAgenda, RotasDeAtivos, AtualizarAtivo, RotasDeBloqueios,
            RotasDePropostas, RotasDeContratos, RotasDeLocacoes, RotasDePlugins,
            RotasDeNotificacoes, RotasDeModulos, RotasDeAuditoria, RotasDeTokens,
            RotasDeIdentidade, Ler, Agir, SoIdentidade
<1> QED
  BY <1>1, <1>2, ExigidasSao

\* Only one form takes an asset.
LEMMA SoBloqueioSegura ==
    ASSUME NEW p \in Paginas, NEW f \in Conteudo[p].formularios, f.caso = "HoldAsset"
    PROVE  p = "ativos"
BY FormulariosSao DEF NovoCliente, NovaProposta, NovoContrato, NovaLocacao, Formulario

\* A use case of a page has a transition, and its ends are statuses of the page.
LEMMA CasoTransita ==
    ASSUME NEW p \in Paginas, NEW b \in Conteudo[p].botoes
    PROVE  /\ b.caso \in Casos(p) /\ b.caso \in DOMAIN Transicao
           /\ Transicao[b.caso][1] \in Situacoes(p) /\ Transicao[b.caso][2] \in Situacoes(p)
<1>1. b.caso \in Casos(p)
  BY DEF Casos
<1>2. b.caso \in DOMAIN Transicao
  BY <1>1 DEF Transicao
<1>3. Situacoes(p) = UNION {{Transicao[c][1], Transicao[c][2]} : c \in Casos(p)}
  BY <1>1 DEF Situacoes
<1> QED
  BY <1>1, <1>2, <1>3

\* A button is there for the status its use case starts from.
LEMMA BotaoNoEstado ==
    ASSUME NEW p \in Paginas, NEW b \in Conteudo[p].botoes
    PROVE  b.em = Transicao[b.caso][1]
<1>1. b.caso \in DOMAIN Transicao
  BY CasoTransita
<1> QED
  BY <1>1, BotoesSao DEF Transicao, BotoesDaProposta, BotoesDeContratos, BotoesDeLocacoes,
                         BotoesDeAtivos, Botao

\* The status of an asset is one of two, and what is past is free.
LEMMA AtivosSao == {"held", "free"} \subseteq Situacoes("ativos")
<1> DEFINE b == Botao("held", "ReleaseHold", <<"assets", "asset", "hold">>)
<1>1. "ativos" \in Paginas /\ b \in Conteudo["ativos"].botoes
  BY DEF Paginas, Conteudo, PaginaDeAtivos, Pagina, BotoesDeAtivos
<1>2. b.caso = "ReleaseHold"
  BY DEF Botao
<1>3. Transicao["ReleaseHold"] = <<"held", "free">>
  BY <1>1, <1>2, CasoTransita DEF Transicao
<1> QED
  BY <1>1, <1>2, <1>3, CasoTransita

LEMMA MostradaNaTela ==
    ASSUME NEW p \in Paginas, NEW l, l.situacao \in Situacoes(p), l.vencida \in BOOLEAN
    PROVE  Mostrada(p, l) \in Vistas(p)
BY AtivosSao DEF Mostrada, Vistas

\* A button stands for what is stored, and a date that is not looked at stands
\* against four use cases alone.
LEMMA BotaoHonesto ==
    ASSUME NEW p \in Paginas, NEW b \in Conteudo[p].botoes, NEW l, l.vencida \in BOOLEAN,
           b.em = Mostrada(p, l)
    PROVE  /\ l.situacao = b.em
           /\ l.vencida /\ b.caso \in ComPrazo =>
                 b.caso \in {"SendProposal", "ActivateContract", "CancelRental", "FinishRental"}
BY BotoesSao DEF Mostrada, ComPrazo, BotoesDaProposta, BotoesDeContratos, BotoesDeLocacoes,
                 BotoesDeAtivos, Botao

-----------------------------------------------------------------------------
(* Telas: what stays as it was.                                            *)

LEMMA TiposDaTela ==
    ASSUME UNCHANGED tela
    PROVE  /\ Lida' = Lida /\ Busca' = Busca /\ Ato(tela)' = Ato(tela)
           /\ Situacoes(tela)' = Situacoes(tela)
<1>1. Lida' = Lida
  BY DEF Lida
<1>2. Casos(tela)' = Casos(tela) /\ CasosDeFormulario(tela)' = CasosDeFormulario(tela)
  OBVIOUS
<1> QED
  BY <1>1, <1>2 DEF Busca, Ato

\* While the server stands still, what was read stays as true as it was.
LEMMA FielParado ==
    ASSUME UNCHANGED <<tela, servidor>>, NEW o, NEW s, NEW v
    PROVE  Fiel(o, s, v)' = Fiel(o, s, v) /\ Podia(v, s)' = Podia(v, s)
BY DEF Fiel, Podia, servidor

LEMMA BuscasParadas ==
    ASSUME BuscasBoas, UNCHANGED <<tela, servidor, serie, buscas>>, foco' \in {foco, Nulo}
    PROVE  BuscasBoas'
<1> SUFFICES ASSUME NEW b \in buscas
             PROVE  /\ b.n <= serie
                    /\ b.n = serie /\ foco' # Nulo => b.objeto = foco'
                    /\ b.passo = "volta" =>
                          /\ b.traz \in Lida' /\ b.traz.objeto = b.objeto
                          /\ Fiel(b.objeto, b.traz.situacao, b.traz.versao)'
  BY DEF BuscasBoas
<1> QED
  BY TiposDaTela, FielParado DEF BuscasBoas

LEMMA DadosParados ==
    ASSUME DadosBons, UNCHANGED <<tela, servidor>>, dados' \in {dados, Nulo},
           \/ carregando' = TRUE \/ foco' = Nulo \/ UNCHANGED <<foco, carregando, erro, dados>>
    PROVE  DadosBons'
<1>1. dados # Nulo => Fiel(dados.objeto, dados.situacao, dados.versao)
  BY DEF DadosBons
<1>2. dados' # Nulo => Fiel(dados.objeto, dados.situacao, dados.versao)'
  <2> PICK d : d = dados
    OBVIOUS
  <2>1. dados' # Nulo => dados' = d
    OBVIOUS
  <2> QED
    BY <1>1, FielParado
<1> QED
  BY <1>2, TiposDaTela DEF DadosBons

\* A search that begins is the one that counts, and is of the row in focus.
LEMMA BuscarMantem ==
    ASSUME TelasInv, NEW o \in Objetos, Buscar(o), foco' = o, UNCHANGED <<tela, servidor>>
    PROVE  /\ serie' = serie + 1 /\ serie' \in 0..MaxBuscas
           /\ carregando' = TRUE /\ erro' = FALSE
           /\ buscas' \subseteq Busca' /\ BuscasBoas'
<1> DEFINE nova == [n |-> serie + 1, objeto |-> o, passo |-> "indo", traz |-> Nulo]
<1>1. serie \in 0..MaxBuscas /\ serie < MaxBuscas /\ MaxBuscas \in Nat
  BY TelasAssumption DEF TelasInv, TelasTypeOK, Buscar
<1>2. serie' = serie + 1 /\ carregando' = TRUE /\ erro' = FALSE /\ buscas' = buscas \union {nova}
  BY DEF Buscar
<1>3. nova \in Busca /\ buscas \subseteq Busca
  BY <1>1 DEF Busca, TelasInv, TelasTypeOK
<1>4. buscas' \subseteq Busca'
  BY <1>2, <1>3, TiposDaTela
<1>5. BuscasBoas'
  <2> SUFFICES ASSUME NEW b \in buscas'
               PROVE  /\ b.n <= serie'
                      /\ b.n = serie' => b.objeto = o
                      /\ b.passo = "volta" =>
                            /\ b.traz \in Lida' /\ b.traz.objeto = b.objeto
                            /\ Fiel(b.objeto, b.traz.situacao, b.traz.versao)'
    BY DEF BuscasBoas
  <2>1. CASE b = nova
    BY <1>1, <1>2, <2>1
  <2>2. CASE b \in buscas
    <3>1. /\ b.n \in 1..MaxBuscas /\ b.n <= serie
          /\ b.passo = "volta" =>
                /\ b.traz \in Lida /\ b.traz.objeto = b.objeto
                /\ Fiel(b.objeto, b.traz.situacao, b.traz.versao)
      BY <1>3, <2>2 DEF TelasInv, BuscasBoas, Busca
    <3> QED
      BY <1>1, <1>2, <3>1, TiposDaTela, FielParado
  <2> QED
    BY <1>2, <2>1, <2>2
<1> QED
  BY <1>1, <1>2, <1>4, <1>5

\* The access comes once, and is the one of that moment.
LEMMA EntrarMantem ==
    ASSUME TelasInv, Entrar
    PROVE  TelasInv'
<1>1. /\ acesso = Nulo /\ acesso' = concessao /\ foco = Nulo /\ ato = Nulo /\ selecionado = Nulo
      /\ UNCHANGED <<tela, foco, recurso, selecionado, ato, servidor>>
  BY DEF Entrar, TelasInv, PaginaBoa
<1>2. TelasTypeOK'
  BY <1>1, TiposDaTela DEF TelasInv, TelasTypeOK, recurso, servidor
<1>3. PaginaBoa'
  BY <1>1 DEF PaginaBoa
<1>4. VersoesContadas'
  BY <1>1 DEF TelasInv, VersoesContadas, AindaNaoAgiu, recurso, servidor
<1>5. BuscasBoas' /\ DadosBons'
  BY <1>1, BuscasParadas, DadosParados DEF TelasInv, recurso
<1>6. AcessoBom'
  <2>1. concessao.versao \in 0..MaxAlteracoes
    BY DEF TelasInv, TelasTypeOK
  <2> QED
    BY <1>1, <2>1 DEF AcessoBom, servidor
<1>7. (OfertaPendente /\ AgeNoQueMostra /\ OfertaHonesta)'
  BY <1>1 DEF OfertaPendente, AgeNoQueMostra, OfertaHonesta
<1> QED
  BY <1>2, <1>3, <1>4, <1>5, <1>6, <1>7 DEF TelasInv

LEMMA AbrirMantem ==
    ASSUME TelasInv, Abrir
    PROVE  TelasInv'
<1>1. PICK o \in Objetos : foco' = o /\ Buscar(o)
  BY DEF Abrir
<1>2. /\ acesso # Nulo /\ foco = Nulo /\ ato = Nulo /\ selecionado = Nulo /\ dados' = Nulo
      /\ UNCHANGED <<tela, selecionado, ato, acesso, servidor>>
  BY DEF Abrir, TelasInv, PaginaBoa
<1>3. /\ serie' = serie + 1 /\ serie' \in 0..MaxBuscas /\ carregando' = TRUE /\ erro' = FALSE
      /\ buscas' \subseteq Busca' /\ BuscasBoas'
  BY <1>1, <1>2, BuscarMantem
<1>4. TelasTypeOK'
  BY <1>1, <1>2, <1>3, TiposDaTela DEF TelasInv, TelasTypeOK, servidor
<1>5. PaginaBoa'
  BY <1>2 DEF PaginaBoa
<1>6. VersoesContadas'
  BY <1>2, <1>3 DEF TelasInv, TelasTypeOK, VersoesContadas, AindaNaoAgiu, servidor
<1>7. DadosBons'
  BY <1>2, <1>3, DadosParados DEF TelasInv
<1>8. AcessoBom'
  BY <1>2 DEF TelasInv, AcessoBom, servidor
<1>9. (OfertaPendente /\ AgeNoQueMostra /\ OfertaHonesta)'
  BY <1>2 DEF OfertaPendente, AgeNoQueMostra, OfertaHonesta
<1> QED
  BY <1>3, <1>4, <1>5, <1>6, <1>7, <1>8, <1>9 DEF TelasInv

\* What was asked on another row goes on.
LEMMA OfertaParada ==
    ASSUME OfertaPendente, UNCHANGED <<tela, servidor, ato>>
    PROVE  OfertaPendente'
<1> SUFFICES ASSUME ato # Nulo, ato.resposta = "nenhuma"
             PROVE  IF ato.visto # Nulo
                    THEN \E b \in Conteudo[tela].botoes :
                            /\ b.caso = ato.caso
                            /\ Fiel(ato.alvo, b.em, ato.versao)' /\ Podia(ato.acesso, b.chave)'
                    ELSE \E f \in Conteudo[tela].formularios :
                            f.caso = ato.caso /\ Podia(ato.acesso, f.chave)'
  BY DEF OfertaPendente
<1> PICK a : a = ato
  OBVIOUS
<1>1. a' = ato /\ a = ato /\ a = ato'
  OBVIOUS
<1>2. CASE ato.visto # Nulo
  <2>1. PICK b \in Conteudo[tela].botoes :
           b.caso = ato.caso /\ Fiel(a.alvo, b.em, a.versao) /\ Podia(a.acesso, b.chave)
    BY <1>1, <1>2 DEF OfertaPendente
  <2>2. Fiel(a.alvo, b.em, a.versao)' /\ Podia(a.acesso, b.chave)'
    BY <2>1, FielParado
  <2> QED
    BY <1>1, <1>2, <2>1, <2>2
<1>3. CASE ato.visto = Nulo
  <2>1. PICK f \in Conteudo[tela].formularios : f.caso = ato.caso /\ Podia(a.acesso, f.chave)
    BY <1>1, <1>3 DEF OfertaPendente
  <2>2. Podia(a.acesso, f.chave)'
    BY <2>1, FielParado
  <2> QED
    BY <1>1, <1>3, <2>1, <2>2
<1> QED
  BY <1>2, <1>3

LEMMA TrocarMantem ==
    ASSUME TelasInv, Trocar
    PROVE  TelasInv'
<1>1. PICK o \in Objetos : foco' = o /\ Buscar(o)
  BY DEF Trocar
<1>2. foco # Nulo /\ UNCHANGED <<tela, dados, selecionado, ato, acesso, servidor>>
  BY DEF Trocar
<1>3. /\ serie' = serie + 1 /\ serie' \in 0..MaxBuscas /\ carregando' = TRUE /\ erro' = FALSE
      /\ buscas' \subseteq Busca' /\ BuscasBoas'
  BY <1>1, <1>2, BuscarMantem
<1>4. TelasTypeOK'
  BY <1>1, <1>2, <1>3, TiposDaTela DEF TelasInv, TelasTypeOK, servidor
<1>5. PaginaBoa'
  BY <1>1, <1>2, TelasAssumption DEF TelasInv, PaginaBoa, PodeNaInterface
<1>6. VersoesContadas'
  BY <1>1, <1>2, <1>3, TelasAssumption
     DEF TelasInv, TelasTypeOK, VersoesContadas, AindaNaoAgiu, servidor
<1>7. DadosBons'
  BY <1>2, <1>3, DadosParados DEF TelasInv
<1>8. AcessoBom'
  BY <1>2 DEF TelasInv, AcessoBom, servidor
<1>9. (OfertaPendente /\ AgeNoQueMostra /\ OfertaHonesta)'
  BY <1>2, OfertaParada DEF TelasInv, AgeNoQueMostra, OfertaHonesta
<1> QED
  BY <1>3, <1>4, <1>5, <1>6, <1>7, <1>8, <1>9 DEF TelasInv

\* A page that is left forgets what it was about, though its searches go on.
LEMMA DesmontarMantem ==
    ASSUME TelasInv, Desmontar, acesso' \in {acesso, Nulo}, UNCHANGED <<tela, serie, buscas, servidor>>
    PROVE  TelasInv'
<1>1. /\ foco' = Nulo /\ selecionado' = Nulo /\ ato' = Nulo
      /\ dados' = Nulo /\ carregando' = TRUE /\ erro' = FALSE
  BY DEF Desmontar
<1>2. TelasTypeOK'
  BY <1>1, TiposDaTela DEF TelasInv, TelasTypeOK, servidor
<1>3. PaginaBoa'
  BY <1>1 DEF PaginaBoa
<1>4. VersoesContadas'
  BY <1>1 DEF TelasInv, TelasTypeOK, VersoesContadas, AindaNaoAgiu, servidor
<1>5. BuscasBoas' /\ DadosBons'
  BY <1>1, BuscasParadas, DadosParados DEF TelasInv
<1>6. AcessoBom'
  BY DEF TelasInv, AcessoBom, servidor
<1>7. (OfertaPendente /\ AgeNoQueMostra /\ OfertaHonesta)'
  BY <1>1 DEF OfertaPendente, AgeNoQueMostra, OfertaHonesta
<1> QED
  BY <1>2, <1>3, <1>4, <1>5, <1>6, <1>7 DEF TelasInv

LEMMA FecharMantem ==
    ASSUME TelasInv, Fechar
    PROVE  TelasInv'
BY DesmontarMantem DEF Fechar

\* The form of holds opens on the row on screen.
LEMMA SelecionarMantem ==
    ASSUME TelasInv, Selecionar
    PROVE  TelasInv'
<1>1. /\ tela = "ativos" /\ foco # Nulo /\ ~carregando /\ ~erro
      /\ PodeNaInterface(NovoBloqueio.chave) /\ selecionado' \in {dados.objeto, Nulo}
      /\ UNCHANGED <<tela, foco, recurso, ato, acesso, servidor>>
  BY DEF Selecionar, NaTela
<1>2. dados.objeto \in Objetos
  BY <1>1 DEF TelasInv, DadosBons, Lida
<1>3. TelasTypeOK'
  BY <1>1, <1>2, TiposDaTela DEF TelasInv, TelasTypeOK, recurso, servidor
<1>4. PaginaBoa'
  BY <1>1 DEF TelasInv, PaginaBoa, PodeNaInterface
<1>5. VersoesContadas'
  BY <1>1 DEF TelasInv, VersoesContadas, AindaNaoAgiu, recurso, servidor
<1>6. BuscasBoas' /\ DadosBons'
  BY <1>1, BuscasParadas, DadosParados DEF TelasInv, recurso
<1>7. AcessoBom'
  BY <1>1 DEF TelasInv, AcessoBom, servidor
<1>8. (OfertaPendente /\ AgeNoQueMostra /\ OfertaHonesta)'
  BY <1>1, OfertaParada DEF TelasInv, AgeNoQueMostra, OfertaHonesta
<1> QED
  BY <1>3, <1>4, <1>5, <1>6, <1>7, <1>8 DEF TelasInv

\* What the interface shows is what the server would let through, unless the
\* access has changed.
LEMMA PodiaNaInterface ==
    ASSUME TelasInv, NEW chave, PodeNaInterface(chave)
    PROVE  acesso # Nulo /\ acesso.versao \in 0..MaxAlteracoes /\ Podia(acesso.versao, chave)
BY DEF TelasInv, TelasTypeOK, AcessoBom, PodeNaInterface, Podia

\* A request that leaves the page changes nothing else.
LEMMA PedidoMantem ==
    ASSUME TelasInv, NEW a \in Ato(tela), ato' = a, ato = Nulo, foco # Nulo, a.resposta = "nenhuma",
           UNCHANGED <<tela, foco, recurso, selecionado, acesso, servidor>>,
           IF a.visto # Nulo
           THEN /\ a.alvo = a.visto
                /\ \E b \in Conteudo[tela].botoes :
                      /\ b.caso = a.caso
                      /\ Fiel(a.alvo, b.em, a.versao) /\ Podia(a.acesso, b.chave)
           ELSE \E f \in Conteudo[tela].formularios :
                   f.caso = a.caso /\ Podia(a.acesso, f.chave)
    PROVE  TelasInv'
<1>1. TelasTypeOK'
  BY TiposDaTela DEF TelasInv, TelasTypeOK, recurso, servidor
<1>2. PaginaBoa'
  BY DEF TelasInv, PaginaBoa, PodeNaInterface
<1>3. VersoesContadas'
  BY DEF TelasInv, VersoesContadas, AindaNaoAgiu, recurso, servidor
<1>4. BuscasBoas' /\ DadosBons'
  BY BuscasParadas, DadosParados DEF TelasInv, recurso
<1>5. AcessoBom'
  BY DEF TelasInv, AcessoBom, servidor
<1>6. OfertaPendente'
  <2>1. CASE a.visto # Nulo
    <3>1. PICK b \in Conteudo[tela].botoes :
             b.caso = a.caso /\ Fiel(a.alvo, b.em, a.versao) /\ Podia(a.acesso, b.chave)
      BY <2>1
    <3>2. Fiel(a.alvo, b.em, a.versao)' /\ Podia(a.acesso, b.chave)'
      BY <3>1, FielParado
    <3> QED
      BY <2>1, <3>1, <3>2 DEF OfertaPendente
  <2>2. CASE a.visto = Nulo
    <3>1. PICK f \in Conteudo[tela].formularios : f.caso = a.caso /\ Podia(a.acesso, f.chave)
      BY <2>2
    <3>2. Podia(a.acesso, f.chave)'
      BY <3>1, FielParado
    <3> QED
      BY <2>2, <3>1, <3>2 DEF OfertaPendente
  <2> QED
    BY <2>1, <2>2
<1>7. (AgeNoQueMostra /\ OfertaHonesta)'
  BY DEF AgeNoQueMostra, OfertaHonesta
<1> QED
  BY <1>1, <1>2, <1>3, <1>4, <1>5, <1>6, <1>7 DEF TelasInv

\* A button is pressed on the row that is shown, which is the one in focus.
LEMMA ApertarMantem ==
    ASSUME TelasInv, Apertar
    PROVE  TelasInv'
<1>1. PICK b \in Oferecidos :
         ato' = [caso |-> b.caso,
                 alvo |-> IF Conteudo[tela].ficha THEN foco ELSE dados.objeto,
                 visto |-> dados.objeto, versao |-> dados.versao, acesso |-> acesso.versao,
                 resposta |-> "nenhuma", emDia |-> TRUE, oculto |-> FALSE]
  BY DEF Apertar
<1>2. /\ b \in Conteudo[tela].botoes /\ NaTela /\ b.em = dados.situacao
      /\ PodeNaInterface(b.chave)
  BY DEF Oferecidos
<1>3. /\ foco # Nulo /\ dados \in Lida /\ dados.objeto = foco
      /\ Fiel(dados.objeto, dados.situacao, dados.versao)
  BY <1>2 DEF NaTela, TelasInv, DadosBons
<1>4. foco \in Objetos /\ dados.versao \in 0..(MaxAlteracoes + MaxBuscas)
  BY <1>3 DEF Lida
<1>5. acesso.versao \in 0..MaxAlteracoes /\ Podia(acesso.versao, b.chave)
  BY <1>2, PodiaNaInterface
<1>6. b.caso \in Casos(tela)
  BY <1>2 DEF Casos
<1> PICK a : a = [caso |-> b.caso, alvo |-> foco, visto |-> foco, versao |-> dados.versao,
                  acesso |-> acesso.versao, resposta |-> "nenhuma", emDia |-> TRUE,
                  oculto |-> FALSE]
  OBVIOUS
<1>7. /\ a \in Ato(tela) /\ ato' = a
  BY <1>1, <1>3, <1>4, <1>5, <1>6 DEF Ato
<1>8. /\ a.caso = b.caso /\ a.alvo = foco /\ a.visto = foco /\ a.versao = dados.versao
      /\ a.acesso = acesso.versao /\ a.resposta = "nenhuma"
  OBVIOUS
<1>9. ato = Nulo /\ UNCHANGED <<tela, foco, recurso, selecionado, acesso, servidor>>
  BY DEF Apertar
<1>10. Fiel(a.alvo, b.em, a.versao) /\ Podia(a.acesso, b.chave)
  BY <1>2, <1>3, <1>5, <1>8
<1> QED
  BY <1>2, <1>3, <1>7, <1>8, <1>9, <1>10, PedidoMantem

LEMMA EnviarMantem ==
    ASSUME TelasInv, Enviar
    PROVE  TelasInv'
<1>1. PICK f \in Conteudo[tela].formularios :
         /\ Disponivel(f)
         /\ ato' = [caso |-> f.caso, alvo |-> IF f = NovoBloqueio THEN selecionado ELSE foco,
                    visto |-> Nulo, versao |-> 0, acesso |-> acesso.versao,
                    resposta |-> "nenhuma", emDia |-> TRUE, oculto |-> FALSE]
  BY DEF Enviar
<1>2. /\ ato = Nulo /\ foco # Nulo
      /\ UNCHANGED <<tela, foco, recurso, selecionado, acesso, servidor>>
  BY DEF Enviar
<1>3. PodeNaInterface(f.chave) /\ (f = NovoBloqueio => selecionado # Nulo)
  BY <1>1 DEF Disponivel, TelasInv, PaginaBoa
<1>4. acesso.versao \in 0..MaxAlteracoes /\ Podia(acesso.versao, f.chave)
  BY <1>3, PodiaNaInterface
<1>5. f.caso \in CasosDeFormulario(tela)
  BY DEF CasosDeFormulario
<1> PICK alvo : alvo = IF f = NovoBloqueio THEN selecionado ELSE foco
  OBVIOUS
<1>6. alvo \in Objetos
  BY <1>2, <1>3 DEF TelasInv, TelasTypeOK
<1> PICK a : a = [caso |-> f.caso, alvo |-> alvo, visto |-> Nulo, versao |-> 0,
                  acesso |-> acesso.versao, resposta |-> "nenhuma", emDia |-> TRUE,
                  oculto |-> FALSE]
  OBVIOUS
<1>7. a \in Ato(tela) /\ ato' = a
  BY <1>1, <1>4, <1>5, <1>6, TelasAssumption DEF Ato
<1>8. a.caso = f.caso /\ a.visto = Nulo /\ a.acesso = acesso.versao /\ a.resposta = "nenhuma"
  OBVIOUS
<1>9. f.caso = a.caso /\ Podia(a.acesso, f.chave)
  BY <1>4, <1>8
<1> QED
  BY <1>2, <1>7, <1>8, <1>9, PedidoMantem

\* An answer that is read and leaves the page as it was.
LEMMA RecusaMantem ==
    ASSUME TelasInv, ato # Nulo, ato.resposta # "aceito", ato' = Nulo,
           UNCHANGED <<tela, foco, recurso, selecionado, acesso, servidor>>
    PROVE  TelasInv'
<1>1. TelasTypeOK'
  BY TiposDaTela DEF TelasInv, TelasTypeOK, recurso, servidor
<1>2. PaginaBoa'
  BY DEF TelasInv, PaginaBoa, PodeNaInterface
<1>3. VersoesContadas'
  BY DEF TelasInv, VersoesContadas, AindaNaoAgiu, PaginaBoa, recurso, servidor
<1>4. BuscasBoas' /\ DadosBons'
  BY BuscasParadas, DadosParados DEF TelasInv, recurso
<1>5. AcessoBom'
  BY DEF TelasInv, AcessoBom, servidor
<1>6. (OfertaPendente /\ AgeNoQueMostra /\ OfertaHonesta)'
  BY DEF OfertaPendente, AgeNoQueMostra, OfertaHonesta
<1> QED
  BY <1>1, <1>2, <1>3, <1>4, <1>5, <1>6 DEF TelasInv

\* The search after an act is the one its change of the row was counted for.
LEMMA ReceberAtoMantem ==
    ASSUME TelasInv, ReceberAto
    PROVE  TelasInv'
<1>1. ato # Nulo /\ ato' = Nulo /\ UNCHANGED <<tela, foco, acesso, servidor>>
  BY DEF ReceberAto
<1>2. foco # Nulo /\ foco \in Objetos
  BY <1>1 DEF TelasInv, TelasTypeOK, PaginaBoa
<1>3. CASE ato.resposta = "aceito"
  <2>1. Buscar(foco) /\ UNCHANGED dados /\ selecionado' \in {selecionado, Nulo}
    BY <1>3 DEF ReceberAto
  <2>2. /\ serie' = serie + 1 /\ serie' \in 0..MaxBuscas /\ carregando' = TRUE /\ erro' = FALSE
        /\ buscas' \subseteq Busca' /\ BuscasBoas'
    BY <1>1, <1>2, <2>1, BuscarMantem
  <2>3. TelasTypeOK'
    BY <1>1, <2>1, <2>2, TiposDaTela DEF TelasInv, TelasTypeOK, servidor
  <2>4. PaginaBoa'
    BY <1>1, <2>1 DEF TelasInv, PaginaBoa, PodeNaInterface
  <2>5. VersoesContadas'
    BY <1>1, <1>3, <2>2 DEF TelasInv, TelasTypeOK, VersoesContadas, AindaNaoAgiu, servidor
  <2>6. DadosBons'
    BY <1>1, <2>1, <2>2, DadosParados DEF TelasInv
  <2>7. AcessoBom'
    BY <1>1 DEF TelasInv, AcessoBom, servidor
  <2>8. (OfertaPendente /\ AgeNoQueMostra /\ OfertaHonesta)'
    BY <1>1 DEF OfertaPendente, AgeNoQueMostra, OfertaHonesta
  <2> QED
    BY <2>2, <2>3, <2>4, <2>5, <2>6, <2>7, <2>8 DEF TelasInv
<1>4. CASE ato.resposta # "aceito"
  <2>1. UNCHANGED <<recurso, selecionado>>
    BY <1>4 DEF ReceberAto
  <2> QED
    BY <1>1, <1>4, <2>1, RecusaMantem
<1> QED
  BY <1>3, <1>4

LEMMA ReceberPropostaMantem ==
    ASSUME TelasInv, ReceberProposta
    PROVE  TelasInv'
<1>1. CASE ato.resposta = "aceito"
  <2>1. Desmontar /\ UNCHANGED <<tela, serie, buscas, acesso, servidor>>
    BY <1>1 DEF ReceberProposta
  <2> QED
    BY <2>1, DesmontarMantem
<1>2. CASE ato.resposta # "aceito"
  <2>1. /\ ato # Nulo /\ ato' = Nulo
        /\ UNCHANGED <<tela, foco, recurso, selecionado, acesso, servidor>>
    BY <1>2 DEF ReceberProposta
  <2> QED
    BY <1>2, <2>1, RecusaMantem
<1> QED
  BY <1>1, <1>2

-----------------------------------------------------------------------------
(* Telas: the server.                                                      *)

\* The server reads a row for a search as it is.
LEMMA ResponderBuscaMantem ==
    ASSUME TelasInv, ResponderBusca
    PROVE  TelasInv'
<1>1. UNCHANGED <<tela, foco, dados, carregando, erro, serie, selecionado, ato, acesso, servidor>>
  BY DEF ResponderBusca
<1>2. PICK b \in buscas :
         /\ b.passo = "indo"
         /\ \/ buscas' = (buscas \ {b}) \union
                  {[b EXCEPT !.passo = "volta",
                             !.traz = [objeto |-> b.objeto,
                                       situacao |-> Mostrada(tela, linha[b.objeto]),
                                       versao |-> linha[b.objeto].versao]]}
            \/ buscas' = (buscas \ {b}) \union {[b EXCEPT !.passo = "falha"]}
  BY DEF ResponderBusca
<1>3. b \in Busca /\ b.n <= serie /\ (b.n = serie /\ foco # Nulo => b.objeto = foco)
  BY DEF TelasInv, TelasTypeOK, BuscasBoas
<1> PICK o \in Objetos : o = b.objeto
  BY <1>3 DEF Busca
<1> PICK t : t = [objeto |-> o, situacao |-> Mostrada(tela, linha[o]), versao |-> linha[o].versao]
  OBVIOUS
<1>4. t.objeto = o /\ t.situacao = Mostrada(tela, linha[o]) /\ t.versao = linha[o].versao
  OBVIOUS
<1>5. t \in Lida
  <2>1. /\ linha[o].situacao \in Situacoes(tela) /\ linha[o].vencida \in BOOLEAN
        /\ linha[o].versao \in 0..(MaxAlteracoes + MaxBuscas) /\ tela \in Paginas
    BY DEF TelasInv, TelasTypeOK
  <2>2. Mostrada(tela, linha[o]) \in Vistas(tela)
    BY <2>1, MostradaNaTela
  <2> QED
    BY <2>1, <2>2 DEF Lida
<1>6. Fiel(o, t.situacao, t.versao)
  <2>1. linha[o].versao \in Int
    BY DEF TelasInv, TelasTypeOK
  <2> QED
    BY <1>4, <2>1 DEF Fiel
<1>7. PICK c : /\ c \in Busca /\ c.n = b.n /\ c.objeto = o
               /\ c.passo = "volta" => c.traz = t
               /\ buscas' = (buscas \ {b}) \union {c}
  <2>1. CASE buscas' = (buscas \ {b}) \union {[b EXCEPT !.passo = "volta", !.traz = t]}
    <3> DEFINE w == [b EXCEPT !.passo = "volta"]
               c == [w EXCEPT !.traz = t]
    <3>1. w \in Busca /\ w.n = b.n /\ w.objeto = o
      BY <1>3 DEF Busca
    <3>2. [b EXCEPT !.passo = "volta", !.traz = t] = c
      OBVIOUS
    <3> HIDE DEF w
    <3>3. c \in Busca /\ c.n = b.n /\ c.objeto = o /\ c.traz = t
      BY <1>5, <3>1 DEF Busca
    <3> HIDE DEF c
    <3> QED
      BY <2>1, <3>2, <3>3
  <2>2. CASE buscas' = (buscas \ {b}) \union {[b EXCEPT !.passo = "falha"]}
    <3> DEFINE c == [b EXCEPT !.passo = "falha"]
    <3>1. c \in Busca /\ c.n = b.n /\ c.objeto = o /\ c.passo # "volta"
      BY <1>3 DEF Busca
    <3> QED
      BY <2>2, <3>1
  <2> QED
    BY <1>2, <2>1, <2>2
<1>8. TelasTypeOK'
  BY <1>1, <1>7, TiposDaTela DEF TelasInv, TelasTypeOK, servidor
<1>9. BuscasBoas'
  <2> SUFFICES ASSUME NEW x \in buscas'
               PROVE  /\ x.n <= serie
                      /\ x.n = serie /\ foco # Nulo => x.objeto = foco
                      /\ x.passo = "volta" =>
                            /\ x.traz \in Lida' /\ x.traz.objeto = x.objeto
                            /\ Fiel(x.objeto, x.traz.situacao, x.traz.versao)'
    BY <1>1 DEF BuscasBoas
  <2>1. CASE x = c
    BY <1>1, <1>3, <1>4, <1>5, <1>6, <1>7, <2>1, TiposDaTela, FielParado
  <2>2. CASE x \in buscas
    <3>1. /\ x.n <= serie
          /\ x.n = serie /\ foco # Nulo => x.objeto = foco
          /\ x.passo = "volta" =>
                /\ x.traz \in Lida /\ x.traz.objeto = x.objeto
                /\ Fiel(x.objeto, x.traz.situacao, x.traz.versao)
      BY <2>2 DEF TelasInv, BuscasBoas
    <3> QED
      BY <1>1, <3>1, TiposDaTela, FielParado
  <2> QED
    BY <1>7, <2>1, <2>2
<1>10. PaginaBoa'
  BY <1>1 DEF TelasInv, PaginaBoa, PodeNaInterface
<1>11. VersoesContadas'
  BY <1>1 DEF TelasInv, VersoesContadas, AindaNaoAgiu, servidor
<1>12. DadosBons' /\ AcessoBom'
  BY <1>1, DadosParados DEF TelasInv, AcessoBom, servidor
<1>13. (OfertaPendente /\ AgeNoQueMostra /\ OfertaHonesta)'
  BY <1>1, OfertaParada DEF TelasInv, AgeNoQueMostra, OfertaHonesta
<1> QED
  BY <1>8, <1>9, <1>10, <1>11, <1>12, <1>13 DEF TelasInv

\* What is shown is what the search of the row in focus brought.
LEMMA ReceberBuscaMantem ==
    ASSUME TelasInv, ReceberBusca
    PROVE  TelasInv'
<1>1. UNCHANGED <<tela, foco, serie, selecionado, ato, acesso, servidor>>
  BY DEF ReceberBusca
<1>2. PICK b \in buscas :
         /\ b.passo # "indo"
         /\ buscas' = buscas \ {b}
         /\ IF Ativa(b)
            THEN /\ dados' = IF b.passo = "volta" THEN b.traz ELSE dados
                 /\ erro' = (erro \/ b.passo = "falha")
                 /\ carregando' = FALSE
            ELSE UNCHANGED <<dados, erro, carregando>>
  BY DEF ReceberBusca
<1>3. /\ b \in Busca /\ (Ativa(b) => b.objeto = foco)
      /\ b.passo = "volta" =>
            /\ b.traz \in Lida /\ b.traz.objeto = b.objeto
            /\ Fiel(b.objeto, b.traz.situacao, b.traz.versao)
  BY DEF TelasInv, TelasTypeOK, BuscasBoas, Ativa
<1>4. b.passo \in {"volta", "falha"}
  BY <1>2, <1>3 DEF Busca
<1>5. BuscasBoas'
  <2> SUFFICES ASSUME NEW x \in buscas
               PROVE  /\ x.n <= serie
                      /\ x.n = serie /\ foco # Nulo => x.objeto = foco
                      /\ x.passo = "volta" =>
                            /\ x.traz \in Lida' /\ x.traz.objeto = x.objeto
                            /\ Fiel(x.objeto, x.traz.situacao, x.traz.versao)'
    BY <1>1, <1>2 DEF BuscasBoas
  <2>1. /\ x.n <= serie
        /\ x.n = serie /\ foco # Nulo => x.objeto = foco
        /\ x.passo = "volta" =>
              /\ x.traz \in Lida /\ x.traz.objeto = x.objeto
              /\ Fiel(x.objeto, x.traz.situacao, x.traz.versao)
    BY DEF TelasInv, BuscasBoas
  <2> QED
    BY <1>1, <2>1, TiposDaTela, FielParado
<1>6. TelasTypeOK' /\ DadosBons'
  <2>1. CASE Ativa(b) /\ b.passo = "volta"
    <3>1. dados' = b.traz /\ erro' = erro /\ carregando' = FALSE
      BY <1>2, <2>1 DEF TelasInv, TelasTypeOK
    <3>2. TelasTypeOK'
      BY <1>1, <1>2, <1>3, <2>1, <3>1, TiposDaTela DEF TelasInv, TelasTypeOK, servidor
    <3>3. b.traz \in Lida' /\ Fiel(b.objeto, b.traz.situacao, b.traz.versao)'
      BY <1>1, <1>3, <2>1, TiposDaTela, FielParado
    <3> QED
      BY <1>1, <1>3, <2>1, <3>1, <3>2, <3>3 DEF DadosBons
  <2>2. CASE Ativa(b) /\ b.passo = "falha"
    <3>1. dados' = dados /\ erro' = TRUE /\ carregando' = FALSE
      BY <1>2, <2>2
    <3>2. TelasTypeOK'
      BY <1>1, <1>2, <3>1, TiposDaTela DEF TelasInv, TelasTypeOK, servidor
    <3>3. PICK d : d = dados
      OBVIOUS
    <3>4. dados # Nulo => Fiel(d.objeto, d.situacao, d.versao)'
      BY <1>1, <3>3, FielParado DEF TelasInv, DadosBons
    <3> QED
      BY <1>1, <3>1, <3>2, <3>3, <3>4 DEF DadosBons
  <2>3. CASE ~Ativa(b)
    <3>1. UNCHANGED <<dados, erro, carregando>>
      BY <1>2, <2>3
    <3>2. TelasTypeOK'
      BY <1>1, <1>2, <3>1, TiposDaTela DEF TelasInv, TelasTypeOK, servidor
    <3> QED
      BY <1>1, <3>1, <3>2, DadosParados DEF TelasInv
  <2> QED
    BY <1>4, <2>1, <2>2, <2>3
<1>7. PaginaBoa'
  BY <1>1 DEF TelasInv, PaginaBoa, PodeNaInterface
<1>8. VersoesContadas' /\ AcessoBom'
  BY <1>1 DEF TelasInv, VersoesContadas, AindaNaoAgiu, AcessoBom, servidor
<1>9. (OfertaPendente /\ AgeNoQueMostra /\ OfertaHonesta)'
  BY <1>1, OfertaParada DEF TelasInv, AgeNoQueMostra, OfertaHonesta
<1> QED
  BY <1>5, <1>6, <1>7, <1>8, <1>9 DEF TelasInv

\* A row, or the access, that changes becomes newer.
Adiante ==
    /\ UNCHANGED tela
    /\ \A o \in Objetos : linha'[o] = linha[o] \/ linha'[o].versao > linha[o].versao
    /\ concessao' = concessao \/ concessao'.versao > concessao.versao

LEMMA FielAdiante ==
    ASSUME TelasTypeOK, TelasTypeOK', Adiante, NEW o \in Objetos, NEW v \in Nat, NEW s,
           Fiel(o, s, v)
    PROVE  Fiel(o, s, v)'
<1>1. linha[o].versao \in Int /\ linha'[o].versao \in Int
  BY DEF TelasTypeOK
<1> QED
  BY <1>1 DEF Adiante, Fiel

LEMMA PodiaAdiante ==
    ASSUME TelasTypeOK, TelasTypeOK', Adiante, NEW v \in Nat, NEW chave, Podia(v, chave)
    PROVE  Podia(v, chave)'
<1>1. concessao.versao \in Int /\ concessao'.versao \in Int
  BY DEF TelasTypeOK
<1> QED
  BY <1>1 DEF Adiante, Podia

LEMMA LidosAdiante ==
    ASSUME TelasInv, TelasTypeOK', Adiante, UNCHANGED <<foco, recurso, acesso>>
    PROVE  BuscasBoas' /\ DadosBons' /\ AcessoBom'
<1>0. TelasTypeOK /\ BuscasBoas /\ DadosBons /\ AcessoBom /\ UNCHANGED tela
  BY DEF TelasInv, Adiante
<1>1. \A x \in Lida : x.objeto \in Objetos /\ x.versao \in Nat
  BY TelasAssumption DEF Lida
<1>2. BuscasBoas'
  <2> SUFFICES ASSUME NEW b \in buscas
               PROVE  /\ b.n <= serie
                      /\ b.n = serie /\ foco # Nulo => b.objeto = foco
                      /\ b.passo = "volta" =>
                            /\ b.traz \in Lida' /\ b.traz.objeto = b.objeto
                            /\ Fiel(b.objeto, b.traz.situacao, b.traz.versao)'
    BY DEF BuscasBoas, recurso
  <2>1. /\ b.n <= serie
        /\ b.n = serie /\ foco # Nulo => b.objeto = foco
        /\ b.passo = "volta" =>
              /\ b.traz \in Lida /\ b.traz.objeto = b.objeto
              /\ Fiel(b.objeto, b.traz.situacao, b.traz.versao)
    BY <1>0 DEF BuscasBoas
  <2>2. b.passo = "volta" => Fiel(b.objeto, b.traz.situacao, b.traz.versao)'
    BY <1>0, <1>1, <2>1, FielAdiante
  <2> QED
    BY <1>0, <2>1, <2>2, TiposDaTela
<1>3. DadosBons'
  <2>1. PICK d : d = dados
    OBVIOUS
  <2>2. dados # Nulo => d \in Lida /\ Fiel(d.objeto, d.situacao, d.versao)
    BY <1>0, <2>1 DEF DadosBons, TelasTypeOK
  <2>3. dados # Nulo => Fiel(d.objeto, d.situacao, d.versao)'
    BY <1>0, <1>1, <2>2, FielAdiante
  <2> QED
    BY <1>0, <2>1, <2>3, TiposDaTela DEF DadosBons, recurso
<1>4. AcessoBom'
  <2>1. /\ concessao.versao \in Int /\ concessao'.versao \in Int
        /\ acesso # Nulo => acesso.versao \in Int
    BY <1>0 DEF TelasTypeOK
  <2> QED
    BY <1>0, <2>1 DEF AcessoBom, Adiante
<1> QED
  BY <1>2, <1>3, <1>4

\* What a change of a row makes of the rows.
LEMMA PassarMuda ==
    ASSUME TelasTypeOK, NEW o \in Objetos, NEW s \in Situacoes(tela), NEW v \in BOOLEAN,
           Passar(o, s, v)
    PROVE  /\ linha' \in [Objetos -> [situacao : Situacoes(tela), vencida : BOOLEAN,
                                      versao : Nat]]
           /\ \A x \in Objetos : x # o => linha'[x] = linha[x]
           /\ linha'[o].versao = linha[o].versao + 1
<1>1. linha \in [Objetos -> [situacao : Situacoes(tela), vencida : BOOLEAN, versao : Nat]]
  BY TelasAssumption DEF TelasTypeOK
<1> PICK k \in Nat : k = linha[o].versao + 1
  BY <1>1
<1> PICK l : l = [situacao |-> s, vencida |-> v, versao |-> k]
  OBVIOUS
<1>2. l \in [situacao : Situacoes(tela), vencida : BOOLEAN, versao : Nat] /\ l.versao = k
  OBVIOUS
<1>3. linha' = [linha EXCEPT ![o] = l]
  BY DEF Passar
<1> QED
  BY <1>1, <1>2, <1>3

\* So counted, no version passes its bound.
LEMMA VersoesCabem ==
    ASSUME TelasInv, UNCHANGED tela, serie' = serie, alteracoes' \in 0..MaxAlteracoes,
           linha' \in [Objetos -> [situacao : Situacoes(tela), vencida : BOOLEAN, versao : Nat]],
           VersoesContadas'
    PROVE  linha' \in [Objetos -> [situacao : Situacoes(tela), vencida : BOOLEAN,
                                   versao : 0..(MaxAlteracoes + MaxBuscas)]]
<1>1. serie \in 0..MaxBuscas
  BY DEF TelasInv, TelasTypeOK
<1>2. \A o \in Objetos : linha'[o].versao \in 0..(MaxAlteracoes + MaxBuscas)
  <2> SUFFICES ASSUME NEW o \in Objetos
               PROVE  linha'[o].versao \in 0..(MaxAlteracoes + MaxBuscas)
    OBVIOUS
  <2>1. linha'[o].versao + (IF AindaNaoAgiu' THEN 1 ELSE 0) <= alteracoes' + serie'
    BY DEF VersoesContadas
  <2>2. linha'[o].versao \in Nat
    OBVIOUS
  <2>3. linha'[o].versao <= alteracoes' + serie
    BY <1>1, <2>1, <2>2, TelasAssumption
  <2> QED
    BY <1>1, <2>2, <2>3, TelasAssumption
<1> QED
  BY <1>2

\* The answer to a request.
Respondido(a, r, e, o) == [a EXCEPT !.resposta = r, !.emDia = e, !.oculto = o]

\* An answer given: the row was changed by an act that was accepted, or not at all.
LEMMA RespondidoMantem ==
    ASSUME TelasInv, ato # Nulo, ato.resposta = "nenhuma",
           UNCHANGED <<tela, foco, recurso, selecionado, acesso, concessao, alteracoes>>,
           NEW r \in {"aceito", "recusado"}, NEW e \in BOOLEAN, NEW o \in BOOLEAN,
           ato' = Respondido(ato, r, e, o),
           \/ UNCHANGED linha
           \/ /\ r = "aceito"
              /\ \E x \in Objetos, s \in Situacoes(tela), v \in BOOLEAN : Passar(x, s, v),
           r = "recusado" =>
              \/ ~e
              \/ /\ o
                 /\ ato.visto # Nulo => ato.caso \in {"SendProposal", "ActivateContract",
                                                     "CancelRental", "FinishRental"}
    PROVE  TelasInv'
<1> PICK q \in Ato(tela) : q = ato
  BY DEF TelasInv, TelasTypeOK
<1> PICK a : /\ a \in Ato(tela) /\ ato' = a
             /\ a.caso = q.caso /\ a.alvo = q.alvo /\ a.visto = q.visto
             /\ a.resposta = r /\ a.emDia = e /\ a.oculto = o
  <2> DEFINE x == [q EXCEPT !.resposta = r]
             y == [x EXCEPT !.emDia = e]
             z == [y EXCEPT !.oculto = o]
  <2>1. /\ x \in Ato(tela) /\ x.caso = q.caso /\ x.alvo = q.alvo /\ x.visto = q.visto
        /\ x.resposta = r
    BY DEF Ato
  <2>2. ato' = z
    BY DEF Respondido
  <2> HIDE DEF x
  <2>3. /\ y \in Ato(tela) /\ y.caso = q.caso /\ y.alvo = q.alvo /\ y.visto = q.visto
        /\ y.resposta = r /\ y.emDia = e
    BY <2>1 DEF Ato
  <2> HIDE DEF y
  <2>4. /\ z \in Ato(tela) /\ z.caso = q.caso /\ z.alvo = q.alvo /\ z.visto = q.visto
        /\ z.resposta = r /\ z.emDia = e /\ z.oculto = o
    BY <2>3 DEF Ato
  <2> HIDE DEF z
  <2> QED
    BY <2>2, <2>4
<1>1. TelasTypeOK /\ foco # Nulo /\ AindaNaoAgiu
  BY DEF TelasInv, PaginaBoa, AindaNaoAgiu
<1>2. /\ serie \in 0..MaxBuscas /\ alteracoes \in 0..MaxAlteracoes
      /\ \A k \in Objetos : linha[k].versao \in Nat /\ linha[k].versao + 1 <= alteracoes + serie
  BY <1>1, TelasAssumption DEF TelasInv, VersoesContadas, TelasTypeOK
<1>3. /\ linha' \in [Objetos -> [situacao : Situacoes(tela), vencida : BOOLEAN, versao : Nat]]
      /\ \A x \in Objetos : \/ linha'[x] = linha[x]
                            \/ linha'[x].versao > linha[x].versao
                               /\ linha'[x].versao <= alteracoes + serie /\ a.resposta = "aceito"
  <2>1. CASE UNCHANGED linha
    BY <1>1, <2>1, TelasAssumption DEF TelasTypeOK
  <2>2. CASE /\ r = "aceito"
             /\ \E x \in Objetos, s \in Situacoes(tela), v \in BOOLEAN : Passar(x, s, v)
    <3>1. PICK k \in Objetos, s \in Situacoes(tela), v \in BOOLEAN : Passar(k, s, v)
      BY <2>2
    <3>2. /\ linha' \in [Objetos -> [situacao : Situacoes(tela), vencida : BOOLEAN,
                                     versao : Nat]]
          /\ \A x \in Objetos : x # k => linha'[x] = linha[x]
          /\ linha'[k].versao = linha[k].versao + 1
      BY <1>1, <3>1, PassarMuda
    <3>3. linha'[k].versao > linha[k].versao /\ linha'[k].versao <= alteracoes + serie
      BY <1>2, <3>2
    <3> QED
      BY <2>2, <3>2, <3>3
  <2> QED
    BY <2>1, <2>2
<1>4. VersoesContadas'
  <2>1. \A k \in Objetos : linha'[k].versao \in Nat
    BY <1>3
  <2>2. AindaNaoAgiu' => a.resposta # "aceito"
    <3>1. a # Nulo
      BY <1>1, AtoAssumption DEF TelasTypeOK
    <3> QED
      BY <3>1 DEF AindaNaoAgiu
  <2>3. \A k \in Objetos :
           linha'[k].versao + (IF AindaNaoAgiu' THEN 1 ELSE 0) <= alteracoes + serie
    BY <1>2, <1>3, <2>1, <2>2
  <2> QED
    BY <2>3 DEF TelasInv, VersoesContadas, recurso
<1>5. TelasTypeOK'
  <2>1. linha' \in [Objetos -> [situacao : Situacoes(tela), vencida : BOOLEAN,
                                versao : 0..(MaxAlteracoes + MaxBuscas)]]
    BY <1>2, <1>3, <1>4, VersoesCabem DEF recurso
  <2> QED
    BY <1>1, <2>1, TiposDaTela DEF TelasTypeOK, recurso
<1>6. Adiante
  BY <1>3 DEF Adiante
<1>7. BuscasBoas' /\ DadosBons' /\ AcessoBom'
  BY <1>5, <1>6, LidosAdiante
<1>8. PaginaBoa'
  BY <1>1 DEF TelasInv, PaginaBoa, PodeNaInterface
<1>9. OfertaPendente'
  BY DEF OfertaPendente
<1>10. AgeNoQueMostra'
  BY DEF TelasInv, AgeNoQueMostra
<1>11. OfertaHonesta'
  BY DEF OfertaHonesta
<1> QED
  BY <1>4, <1>5, <1>7, <1>8, <1>9, <1>10, <1>11 DEF TelasInv

\* The web has no ceiling of scopes: what the interface allows, the server allows.
LEMMA PodiaAutoriza ==
    ASSUME TelasTypeOK, NEW chave, Podia(concessao.versao, chave)
    PROVE  AutorizaTodas(concessao.concessao, {chave})
<1>1. concessao.concessao.escopos = {Tudo}
  BY TelasAssumption DEF TelasTypeOK
<1>2. Concede(concessao.concessao.escopos, chave)
  BY <1>1 DEF Concede, Casa
<1> QED
  BY <1>2 DEF Podia, AutorizaTodas, Autoriza

\* An act offered on what is so still is refused only for a date the page does
\* not look at.
LEMMA ResponderAtoMantem ==
    ASSUME TelasInv, ResponderAto
    PROVE  TelasInv'
<1>1. /\ ato # Nulo /\ ato.resposta = "nenhuma" /\ ato.visto # Nulo
      /\ UNCHANGED <<tela, foco, recurso, selecionado, acesso, concessao, alteracoes>>
  BY DEF ResponderAto
<1>2. TelasTypeOK /\ ato \in Ato(tela) /\ ato.alvo \in Objetos /\ tela \in Paginas
  BY <1>1 DEF TelasInv, TelasTypeOK, Ato
<1>3. /\ linha[ato.alvo].vencida \in BOOLEAN /\ linha[ato.alvo].versao \in Nat
      /\ linha[ato.alvo].situacao \in Situacoes(tela)
  BY <1>2, TelasAssumption DEF TelasTypeOK
<1> PICK l : l = linha[ato.alvo]
  OBVIOUS
<1> PICK aceita \in BOOLEAN : aceita = Aceita(ato.caso, l)
  BY DEF Aceita
<1> PICK r \in {"aceito", "recusado"} : r = IF aceita THEN "aceito" ELSE "recusado"
  OBVIOUS
<1> PICK e \in BOOLEAN : e = (ato.versao = l.versao /\ ato.acesso = concessao.versao)
  OBVIOUS
<1> PICK o \in BOOLEAN : o = l.vencida
  BY <1>3
<1>4. ato' = Respondido(ato, r, e, o)
  BY DEF ResponderAto, Respondido
<1>5. IF aceita THEN Passar(ato.alvo, Transicao[ato.caso][2], l.vencida) ELSE UNCHANGED linha
  BY DEF ResponderAto
<1>7. PICK b \in Conteudo[tela].botoes :
         b.caso = ato.caso /\ Fiel(ato.alvo, b.em, ato.versao) /\ Podia(ato.acesso, b.chave)
  BY <1>1 DEF TelasInv, OfertaPendente
<1>8. Transicao[ato.caso][2] \in Situacoes(tela) /\ b.em = Transicao[ato.caso][1]
  BY <1>2, <1>7, CasoTransita, BotaoNoEstado
<1>9. ASSUME e, ~aceita
      PROVE  /\ l.vencida
             /\ ato.caso \in {"SendProposal", "ActivateContract", "CancelRental", "FinishRental"}
  <2>1. b.em = Mostrada(tela, l) /\ Podia(concessao.versao, b.chave)
    BY <1>7, <1>9 DEF Fiel
  <2>2. AutorizaTodas(concessao.concessao, Exigidas(ato.caso))
    BY <1>2, <1>7, <2>1, PodiaAutoriza, RotasDosBotoes
  <2>3. /\ l.situacao = b.em
        /\ l.vencida /\ b.caso \in ComPrazo =>
              b.caso \in {"SendProposal", "ActivateContract", "CancelRental", "FinishRental"}
    BY <1>2, <1>3, <2>1, BotaoHonesto
  <2> QED
    BY <1>7, <1>8, <1>9, <2>2, <2>3 DEF Aceita
<1>10. \/ UNCHANGED linha
       \/ /\ r = "aceito"
          /\ \E x \in Objetos, s \in Situacoes(tela), v \in BOOLEAN : Passar(x, s, v)
  BY <1>2, <1>3, <1>5, <1>8
<1>11. r = "recusado" =>
          \/ ~e
          \/ /\ o
             /\ ato.visto # Nulo => ato.caso \in {"SendProposal", "ActivateContract",
                                                 "CancelRental", "FinishRental"}
  <2>1. r = "recusado" => ~aceita
    OBVIOUS
  <2> QED
    BY <1>9, <2>1
<1> QED
  BY <1>1, <1>4, <1>10, <1>11, RespondidoMantem

\* A form is refused only for what was typed, while the access is the same.
LEMMA ResponderFormularioMantem ==
    ASSUME TelasInv, ResponderFormulario
    PROVE  TelasInv'
<1>1. /\ ato # Nulo /\ ato.resposta = "nenhuma" /\ ato.visto = Nulo
      /\ UNCHANGED <<tela, foco, recurso, selecionado, acesso, concessao, alteracoes>>
  BY DEF ResponderFormulario
<1>2. TelasTypeOK /\ ato \in Ato(tela) /\ ato.alvo \in Objetos /\ tela \in Paginas
  BY <1>1 DEF TelasInv, TelasTypeOK, Ato
<1>3. PICK certo \in BOOLEAN :
         LET aceito == certo /\ AutorizaTodas(concessao.concessao, Exigidas(ato.caso)) IN
         /\ ato' = [ato EXCEPT !.resposta = IF aceito THEN "aceito" ELSE "recusado",
                               !.emDia = ato.acesso = concessao.versao, !.oculto = ~certo]
         /\ IF aceito THEN Feito ELSE UNCHANGED linha
  BY DEF ResponderFormulario
<1> PICK aceito \in BOOLEAN :
       aceito = (certo /\ AutorizaTodas(concessao.concessao, Exigidas(ato.caso)))
  OBVIOUS
<1> PICK r \in {"aceito", "recusado"} : r = IF aceito THEN "aceito" ELSE "recusado"
  OBVIOUS
<1> PICK e \in BOOLEAN : e = (ato.acesso = concessao.versao)
  OBVIOUS
<1> PICK o \in BOOLEAN : o = ~certo
  OBVIOUS
<1>4. ato' = Respondido(ato, r, e, o) /\ IF aceito THEN Feito ELSE UNCHANGED linha
  BY <1>3 DEF Respondido
<1>6. PICK f \in Conteudo[tela].formularios : f.caso = ato.caso /\ Podia(ato.acesso, f.chave)
  BY <1>1 DEF TelasInv, OfertaPendente
<1>7. e /\ certo => aceito
  BY <1>2, <1>6, PodiaAutoriza, RotasDosFormularios
<1>8. \/ UNCHANGED linha
      \/ /\ r = "aceito"
         /\ \E x \in Objetos, s \in Situacoes(tela), v \in BOOLEAN : Passar(x, s, v)
  <2>1. CASE aceito /\ ~UNCHANGED linha
    <3>1. ato.caso = "HoldAsset" /\ Passar(ato.alvo, "held", FALSE)
      BY <1>4, <2>1 DEF Feito
    <3>2. tela = "ativos"
      BY <1>2, <1>6, <3>1, SoBloqueioSegura
    <3> QED
      BY <1>2, <2>1, <3>1, <3>2, AtivosSao
  <2> QED
    BY <1>4, <2>1
<1>9. r = "recusado" =>
         \/ ~e
         \/ /\ o
            /\ ato.visto # Nulo => ato.caso \in {"SendProposal", "ActivateContract",
                                                "CancelRental", "FinishRental"}
  BY <1>1, <1>7
<1> QED
  BY <1>1, <1>4, <1>8, <1>9, RespondidoMantem

\* Whoever else acts makes what was read older, and no truer.
LEMMA AlterarMantem ==
    ASSUME TelasInv, Alterar
    PROVE  TelasInv'
<1>1. /\ alteracoes' = alteracoes + 1 /\ alteracoes' \in 0..MaxAlteracoes
      /\ UNCHANGED <<tela, foco, recurso, selecionado, ato, acesso>>
  BY TelasAssumption DEF Alterar, TelasInv, TelasTypeOK
<1>2. TelasTypeOK /\ tela \in Paginas
  BY DEF TelasInv, TelasTypeOK
<1>3. /\ serie \in 0..MaxBuscas /\ alteracoes \in 0..MaxAlteracoes
      /\ \A o \in Objetos : linha[o].versao \in Nat
  BY <1>2, TelasAssumption DEF TelasTypeOK
<1>4. \/ (\E o \in Objetos, s \in Situacoes(tela), v \in BOOLEAN : Passar(o, s, v))
         /\ UNCHANGED concessao
      \/ (\E c \in Concessoes : concessao' = [concessao |-> c, versao |-> alteracoes + 1])
         /\ UNCHANGED linha
  <2>1. ASSUME NEW caso \in Casos(tela) PROVE Transicao[caso][2] \in Situacoes(tela)
    BY <1>2, CasoTransita DEF Casos
  <2>2. \A o \in Objetos : linha[o].situacao \in Situacoes(tela) /\ linha[o].vencida \in BOOLEAN
    BY <1>2 DEF TelasTypeOK
  <2> QED
    BY <2>1, <2>2 DEF Alterar
<1>5. /\ linha' \in [Objetos -> [situacao : Situacoes(tela), vencida : BOOLEAN, versao : Nat]]
      /\ \A x \in Objetos : \/ linha'[x] = linha[x]
                            \/ linha'[x].versao = linha[x].versao + 1
  <2>1. CASE UNCHANGED linha
    BY <1>2, <2>1, TelasAssumption DEF TelasTypeOK
  <2>2. CASE \E o \in Objetos, s \in Situacoes(tela), v \in BOOLEAN : Passar(o, s, v)
    BY <1>2, <2>2, PassarMuda
  <2> QED
    BY <1>4, <2>1, <2>2
<1>6. \/ concessao' = concessao
      \/ /\ concessao' \in [concessao : Concessoes, versao : 0..MaxAlteracoes]
         /\ concessao'.versao = alteracoes + 1
  BY <1>1, <1>4
<1>7. VersoesContadas'
  <2>1. AindaNaoAgiu' = AindaNaoAgiu
    BY <1>1 DEF AindaNaoAgiu
  <2>2. \A o \in Objetos :
           linha'[o].versao + (IF AindaNaoAgiu' THEN 1 ELSE 0) <= alteracoes' + serie
    BY <1>1, <1>3, <1>5, <2>1 DEF TelasInv, VersoesContadas
  <2>3. concessao.versao \in Int /\ concessao.versao <= alteracoes
    BY <1>2 DEF TelasInv, VersoesContadas, TelasTypeOK
  <2>4. concessao'.versao <= alteracoes'
    BY <1>1, <1>3, <1>6, <2>3
  <2> QED
    BY <1>1, <2>2, <2>4 DEF VersoesContadas, recurso
<1>8. TelasTypeOK'
  <2>1. linha' \in [Objetos -> [situacao : Situacoes(tela), vencida : BOOLEAN,
                                versao : 0..(MaxAlteracoes + MaxBuscas)]]
    BY <1>1, <1>5, <1>7, VersoesCabem DEF recurso
  <2>2. concessao' \in [concessao : Concessoes, versao : 0..MaxAlteracoes]
    BY <1>2, <1>6 DEF TelasTypeOK
  <2> QED
    BY <1>1, <1>2, <2>1, <2>2, TiposDaTela DEF TelasTypeOK, recurso
<1>9. Adiante
  <2>1. \A x \in Objetos : linha'[x] = linha[x] \/ linha'[x].versao > linha[x].versao
    BY <1>3, <1>5
  <2>2. concessao' = concessao \/ concessao'.versao > concessao.versao
    <3>1. concessao.versao \in Int /\ concessao.versao <= alteracoes
      BY <1>2 DEF TelasInv, VersoesContadas, TelasTypeOK
    <3> QED
      BY <1>3, <1>6, <3>1
  <2> QED
    BY <1>1, <2>1, <2>2 DEF Adiante
<1>10. BuscasBoas' /\ DadosBons' /\ AcessoBom'
  BY <1>1, <1>8, <1>9, LidosAdiante
<1>11. PaginaBoa'
  BY <1>1 DEF TelasInv, PaginaBoa, PodeNaInterface
<1>12. OfertaPendente'
  <2> SUFFICES ASSUME ato # Nulo, ato.resposta = "nenhuma"
               PROVE  OfertaPendente'
    BY <1>1 DEF OfertaPendente
  <2> PICK a \in Ato(tela) : a = ato
    BY <1>2 DEF TelasTypeOK
  <2>1. a.alvo \in Objetos /\ a.versao \in Nat /\ a.acesso \in Nat
    BY TelasAssumption DEF Ato
  <2>2. CASE ato.visto # Nulo
    <3>1. PICK b \in Conteudo[tela].botoes :
             b.caso = a.caso /\ Fiel(a.alvo, b.em, a.versao) /\ Podia(a.acesso, b.chave)
      BY <2>2 DEF TelasInv, OfertaPendente
    <3>2. Fiel(a.alvo, b.em, a.versao)' /\ Podia(a.acesso, b.chave)'
      BY <1>2, <1>8, <1>9, <2>1, <3>1, FielAdiante, PodiaAdiante
    <3> QED
      BY <1>1, <2>2, <3>1, <3>2 DEF OfertaPendente
  <2>3. CASE ato.visto = Nulo
    <3>1. PICK f \in Conteudo[tela].formularios : f.caso = a.caso /\ Podia(a.acesso, f.chave)
      BY <2>3 DEF TelasInv, OfertaPendente
    <3>2. Podia(a.acesso, f.chave)'
      BY <1>2, <1>8, <1>9, <2>1, <3>1, PodiaAdiante
    <3> QED
      BY <1>1, <2>3, <3>1, <3>2 DEF OfertaPendente
  <2> QED
    BY <2>2, <2>3
<1>13. (AgeNoQueMostra /\ OfertaHonesta)'
  BY <1>1 DEF TelasInv, AgeNoQueMostra, OfertaHonesta
<1> QED
  BY <1>7, <1>8, <1>10, <1>11, <1>12, <1>13 DEF TelasInv

-----------------------------------------------------------------------------
(* Telas: the theorems.                                                    *)

LEMMA TelasInicio == TelasInit => TelasInv
<1> SUFFICES ASSUME TelasInit PROVE TelasInv
  OBVIOUS
<1>1. /\ tela \in Paginas /\ foco = Nulo /\ dados = Nulo /\ carregando = TRUE /\ erro = FALSE
      /\ buscas = {} /\ serie = 0 /\ selecionado = Nulo /\ ato = Nulo /\ acesso = Nulo
      /\ alteracoes = 0
  BY DEF TelasInit, SemBusca
<1>2. /\ linha \in [Objetos -> [situacao : Situacoes(tela), vencida : BOOLEAN, versao : {0}]]
      /\ concessao \in [concessao : Concessoes, versao : {0}]
  BY DEF TelasInit
<1>3. TelasTypeOK
  <2>1. 0 \in 0..MaxAlteracoes /\ 0 \in 0..MaxBuscas /\ 0 \in 0..(MaxAlteracoes + MaxBuscas)
    BY TelasAssumption
  <2> QED
    BY <1>1, <1>2, <2>1 DEF TelasTypeOK
<1>4. VersoesContadas
  BY <1>1, <1>2 DEF VersoesContadas, AindaNaoAgiu
<1>5. PaginaBoa /\ BuscasBoas /\ DadosBons /\ AcessoBom
  BY <1>1 DEF PaginaBoa, BuscasBoas, DadosBons, AcessoBom
<1>6. OfertaPendente /\ AgeNoQueMostra /\ OfertaHonesta
  BY <1>1 DEF OfertaPendente, AgeNoQueMostra, OfertaHonesta
<1> QED
  BY <1>3, <1>4, <1>5, <1>6 DEF TelasInv

LEMMA TelasPasso == TelasInv /\ [TelasNext]_tvars => TelasInv'
<1>1. ASSUME TelasInv, UNCHANGED tvars
      PROVE  TelasInv'
  <2>1. /\ UNCHANGED <<tela, foco, dados, carregando, erro, serie, buscas, selecionado, ato, acesso>>
        /\ UNCHANGED <<linha, concessao, alteracoes>>
    BY <1>1 DEF tvars, recurso, servidor
  <2>2. TelasTypeOK' /\ PaginaBoa' /\ VersoesContadas'
    BY <1>1, <2>1, TiposDaTela
       DEF TelasInv, TelasTypeOK, PaginaBoa, PodeNaInterface, VersoesContadas, AindaNaoAgiu
  <2>3. BuscasBoas' /\ DadosBons' /\ OfertaPendente'
    BY <1>1, <2>1, BuscasParadas, DadosParados, OfertaParada DEF TelasInv, servidor
  <2>4. AcessoBom' /\ AgeNoQueMostra' /\ OfertaHonesta'
    BY <1>1, <2>1 DEF TelasInv, AcessoBom, AgeNoQueMostra, OfertaHonesta
  <2> QED
    BY <2>2, <2>3, <2>4 DEF TelasInv
<1> QED
  BY <1>1, EntrarMantem, AbrirMantem, TrocarMantem, FecharMantem, ApertarMantem,
     SelecionarMantem, EnviarMantem, ReceberAtoMantem, ReceberPropostaMantem,
     ResponderBuscaMantem, ReceberBuscaMantem, ResponderAtoMantem,
     ResponderFormularioMantem, AlterarMantem DEF TelasNext

\* The inductive invariant of the screens, on any number of rows and accesses.
THEOREM TelasInvSempre == TelasSpec => []TelasInv
BY TelasInicio, TelasPasso, PTL DEF TelasSpec

\* What a page keeps, and what it was read from, keep their kinds.
THEOREM TelasTiposSempre == TelasSpec => []TelasTypeOK
<1>1. TelasInv => TelasTypeOK
  BY DEF TelasInv
<1> QED
  BY <1>1, TelasInvSempre, PTL

\* A button acts on the row the person was looking at, however late and out of
\* order the searches before answered (useRecurso).
THEOREM AgeSempre == TelasSpec => []AgeNoQueMostra
<1>1. TelasInv => AgeNoQueMostra
  BY DEF TelasInv
<1> QED
  BY <1>1, TelasInvSempre, PTL

\* What a page offers on what is so still is refused only for what the page does
\* not look at (podeNaInterface and the guards of the API).
THEOREM OfertaSempre == TelasSpec => []OfertaHonesta
<1>1. TelasInv => OfertaHonesta
  BY DEF TelasInv
<1> QED
  BY <1>1, TelasInvSempre, PTL
-----------------------------------------------------------------------------
(* Implantacao: the migrations.                                            *)

\* A migration of an image is one of those there are, and its checksum is known.
LEMMA ImagensSao ==
    ASSUME NEW i \in Imagens \union {<<>>}, NEW n \in DOMAIN i
    PROVE  i \in Imagens /\ i[n][1] \in Arquivos /\ i[n][2] \in Checksums
<1>1. i \in Imagens
  OBVIOUS
<1>2. i \in Seq(ToSet(Migracoes) \X Nat)
  BY <1>1, ImplantacaoAssumption
<1>3. i[n] \in ToSet(Migracoes) \X Nat
  BY <1>2
<1>4. i[n][2] \in {i[k][2] : k \in DOMAIN i}
  OBVIOUS
<1> QED
  BY <1>1, <1>3, <1>4 DEF Arquivos, Checksums

LEMMA ImagensSeq ==
    ASSUME NEW i \in Imagens \union {<<>>}
    PROVE  i \in Seq(ToSet(Migracoes) \X Nat)
<1>1. CASE i \in Imagens
  BY <1>1, ImplantacaoAssumption
<1>2. CASE i = <<>>
  BY <1>2
<1> QED
  BY <1>1, <1>2

\* Where a run of migrate may be.
LEMMA LinhaTipo ==
    ASSUME NEW passo \in {"parado", "ler", "aplicar", "pronto", "falhou"},
           NEW n \in Nat \ {0}, NEW imagem \in Imagens \union {<<>>}
    PROVE  /\ Linha(passo, n, imagem) \in LinhaDeDeploy
           /\ Linha(passo, n, imagem).passo = passo
           /\ Linha(passo, n, imagem).n = n
           /\ Linha(passo, n, imagem).imagem = imagem
BY DEF Linha, LinhaDeDeploy

LEMMA LinhaMuda ==
    ASSUME NEW v \in LinhaDeDeploy
    PROVE  /\ \A p : [v EXCEPT !.passo = p] = Linha(p, v.n, v.imagem)
           /\ \A p, n : [v EXCEPT !.passo = p, !.n = n] = Linha(p, n, v.imagem)
           /\ v.n \in Nat \ {0} /\ v.imagem \in Imagens \union {<<>>}
<1>1. v.n \in Nat \ {0} /\ v.imagem \in Imagens \union {<<>>}
  BY DEF LinhaDeDeploy
<1>2. ASSUME NEW p PROVE [v EXCEPT !.passo = p] = Linha(p, v.n, v.imagem)
  BY DEF Linha, LinhaDeDeploy
<1>3. ASSUME NEW p, NEW n PROVE [v EXCEPT !.passo = p, !.n = n] = Linha(p, n, v.imagem)
  <2> DEFINE w == [v EXCEPT !.passo = p]
  <2>1. w = [passo |-> p, n |-> v.n, imagem |-> v.imagem]
    BY DEF LinhaDeDeploy
  <2> HIDE DEF w
  <2>2. [w EXCEPT !.n = n] = [passo |-> p, n |-> n, imagem |-> v.imagem]
    BY <2>1
  <2>3. [w EXCEPT !.n = n] = [v EXCEPT !.passo = p, !.n = n]
    BY DEF w
  <2> QED
    BY <2>2, <2>3 DEF Linha
<1> QED
  BY <1>1, <1>2, <1>3

LEMMA IrMuda ==
    ASSUME NEW d \in Deploys, deploy[d] \in LinhaDeDeploy, NEW p, Ir(d, p)
    PROVE  deploy' = [deploy EXCEPT ![d] = Linha(p, deploy[d].n, deploy[d].imagem)]
<1>1. [deploy[d] EXCEPT !.passo = p] = Linha(p, deploy[d].n, deploy[d].imagem)
  BY LinhaMuda
<1> QED
  BY <1>1 DEF Ir

LEMMA AvancarMuda ==
    ASSUME NEW d \in Deploys, deploy[d] \in LinhaDeDeploy, Avancar(d)
    PROVE  deploy' = [deploy EXCEPT ![d] = Linha("ler", deploy[d].n + 1, deploy[d].imagem)]
<1>1. [deploy[d] EXCEPT !.passo = "ler", !.n = @ + 1]
        = Linha("ler", deploy[d].n + 1, deploy[d].imagem)
  BY LinhaMuda
<1> QED
  BY <1>1 DEF Avancar

LEMMA ChecksumsSao == Checksums \subseteq Nat /\ Nulo \notin Checksums
<1>1. ASSUME NEW i \in Imagens, NEW n \in DOMAIN i
      PROVE  i[n][2] \in Nat
  <2>1. i \in Seq(ToSet(Migracoes) \X Nat)
    BY ImplantacaoAssumption
  <2> QED
    BY <2>1
<1> QED
  BY <1>1, ImplantacaoAssumption DEF Checksums

TiposDeMigrar ==
    /\ ledger \in [Arquivos -> Checksums \union {Nulo}]
    /\ esquema \in [Arquivos -> Seq(Checksums)]
    /\ \A m \in Arquivos : IsInjective(esquema[m])
    /\ deploy \in [Deploys -> LinhaDeDeploy]
    /\ \A d \in Deploys : deploy[d].passo = "aplicar" => deploy[d].n \in DOMAIN deploy[d].imagem
    /\ sobrepostos \in BOOLEAN

MigrarBom == TiposDeMigrar /\ EsquemaDaImagem /\ SozinhoBom

\* What a run applies next is a known migration with a known checksum.
LEMMA AtualSao ==
    ASSUME TiposDeMigrar, NEW d \in Deploys, deploy[d].n \in DOMAIN deploy[d].imagem
    PROVE  Atual(d)[1] \in Arquivos /\ Atual(d)[2] \in Checksums
<1>1. deploy[d].imagem \in Imagens \union {<<>>}
  BY DEF TiposDeMigrar, LinhaDeDeploy
<1> QED
  BY <1>1, ImagensSao DEF Atual

\* To put an element that is not there at the end of an injective sequence.
LEMMA AcrescentaInjetiva ==
    ASSUME NEW S, NEW s \in Seq(S), IsInjective(s), NEW c \in S, ~Contains(s, c)
    PROVE  Append(s, c) \in Seq(S) /\ IsInjective(Append(s, c))
<1> SUFFICES ASSUME NEW a \in DOMAIN Append(s, c), NEW b \in DOMAIN Append(s, c),
                    Append(s, c)[a] = Append(s, c)[b]
             PROVE  a = b
  BY DEF IsInjective
<1>1. \A k \in 1..Len(s) : s[k] # c
  BY DEF Contains
<1>2. a \in 1..(Len(s) + 1) /\ b \in 1..(Len(s) + 1)
  OBVIOUS
<1>3. CASE a \in 1..Len(s) /\ b \in 1..Len(s)
  BY <1>3 DEF IsInjective
<1>4. CASE a = Len(s) + 1 \/ b = Len(s) + 1
  BY <1>1, <1>2, <1>4
<1> QED
  BY <1>2, <1>3, <1>4

\* The run d has moved: nothing else of the database of migrations has.
LEMMA AndarMantem ==
    ASSUME MigrarBom, NEW d \in Deploys, NEW x \in LinhaDeDeploy,
           UNCHANGED <<ledger, esquema, sobrepostos>>,
           deploy' = [deploy EXCEPT ![d] = x],
           Migrando(d) \/ ~(x.passo \in {"ler", "aplicar"}),
           x.passo = "aplicar" => x.n \in DOMAIN x.imagem /\ ledger[x.imagem[x.n][1]] = Nulo,
           x.passo \in {"ler", "aplicar", "pronto"} /\ ~sobrepostos =>
              \A n \in DOMAIN x.imagem :
                 (x.passo = "pronto" \/ n < x.n) => esquema[x.imagem[n][1]] = <<x.imagem[n][2]>>
    PROVE  MigrarBom'
<1>1. TiposDeMigrar'
  BY DEF MigrarBom, TiposDeMigrar
<1>2. deploy \in [Deploys -> LinhaDeDeploy]
  BY DEF MigrarBom, TiposDeMigrar
<1>3. /\ deploy'[d] = x
      /\ \A e \in Deploys : e # d => deploy'[e] = deploy[e]
  BY <1>2
<1>4. ASSUME x.passo = "aplicar"
      PROVE  esquema[x.imagem[x.n][1]] = <<>>
  <2>1. x.imagem \in Imagens \union {<<>>} /\ x.n \in DOMAIN x.imagem
    BY <1>4 DEF LinhaDeDeploy
  <2>2. x.imagem[x.n][1] \in Arquivos
    BY <2>1, ImagensSao
  <2>3. PICK m \in Arquivos : m = x.imagem[x.n][1]
    BY <2>2
  <2>4. esquema[m] \in Seq(Checksums) /\ ledger[m] = Nulo
    BY <2>3, <1>4 DEF MigrarBom, TiposDeMigrar
  <2>5. ledger[m] = IF esquema[m] = <<>> THEN Nulo ELSE Head(esquema[m])
    BY DEF MigrarBom, EsquemaDaImagem
  <2>6. esquema[m] # <<>> => Head(esquema[m]) \in Checksums
    BY <2>4
  <2> QED
    BY <2>3, <2>4, <2>5, <2>6, ChecksumsSao
<1>5. EsquemaDaImagem'
  <2>1. \A m \in Arquivos :
           ledger'[m] = IF esquema'[m] = <<>> THEN Nulo ELSE Head(esquema'[m])
    BY DEF MigrarBom, EsquemaDaImagem
  <2>2. ASSUME ~sobrepostos, NEW e \in Deploys, deploy'[e].passo = "pronto",
               NEW n \in DOMAIN deploy'[e].imagem
        PROVE  esquema'[deploy'[e].imagem[n][1]] = <<deploy'[e].imagem[n][2]>>
    <3>1. CASE e = d
      BY <3>1, <2>2, <1>3
    <3>2. CASE e # d
      BY <3>2, <2>2, <1>3 DEF MigrarBom, EsquemaDaImagem
    <3> QED
      BY <3>1, <3>2
  <2> QED
    BY <2>1, <2>2 DEF EsquemaDaImagem
<1>6. SozinhoBom'
  <2> SUFFICES ASSUME ~sobrepostos PROVE SozinhoBom'
    BY DEF SozinhoBom
  <2>1. \A a, b \in Deploys : Migrando(a) /\ Migrando(b) => a = b
    BY DEF MigrarBom, SozinhoBom
  <2>2. \A e \in Deploys : Migrando(e)' => Migrando(e) 
    BY <1>3 DEF Migrando
  <2>3. \A a, b \in Deploys : Migrando(a)' /\ Migrando(b)' => a = b
    BY <2>1, <2>2
  <2>4. \A m \in Arquivos : Len(esquema'[m]) <= 1
    BY DEF MigrarBom, SozinhoBom
  <2>5. ASSUME NEW e \in Deploys, deploy'[e].passo = "aplicar"
        PROVE  esquema'[Atual(e)'[1]] = <<>>
    <3>1. CASE e = d
      BY <3>1, <2>5, <1>3, <1>4 DEF Atual
    <3>2. CASE e # d
      BY <3>2, <2>5, <1>3 DEF Atual, MigrarBom, SozinhoBom
    <3> QED
      BY <3>1, <3>2
  <2>6. ASSUME NEW e \in Deploys, Migrando(e)', NEW n \in DOMAIN deploy'[e].imagem,
               n < deploy'[e].n
        PROVE  esquema'[deploy'[e].imagem[n][1]] = <<deploy'[e].imagem[n][2]>>
    <3>1. CASE e = d
      BY <3>1, <2>6, <1>3 DEF Migrando
    <3>2. CASE e # d
      BY <3>2, <2>6, <1>3 DEF Migrando, MigrarBom, SozinhoBom
    <3> QED
      BY <3>1, <3>2
  <2> QED
    BY <2>3, <2>4, <2>5, <2>6 DEF SozinhoBom
<1> QED
  BY <1>1, <1>5, <1>6 DEF MigrarBom

LEMMA ComecarMantem ==
    ASSUME MigrarBom, NEW d \in Deploys, Comecar(d)
    PROVE  MigrarBom'
<1>1. PICK i \in Imagens : deploy' = [deploy EXCEPT ![d] = Linha("ler", 1, i)]
  BY DEF Comecar
<1>2. /\ UNCHANGED <<ledger, esquema>>
      /\ deploy[d].passo \in {"parado", "falhou"}
      /\ sobrepostos' = (sobrepostos \/ \E e \in Deploys \ {d} : Migrando(e))
  BY DEF Comecar
<1>3. PICK x \in LinhaDeDeploy : x = Linha("ler", 1, i)
  BY LinhaTipo
<1>4. x.passo = "ler" /\ x.n = 1 /\ x.imagem = i /\ i \in Seq(ToSet(Migracoes) \X Nat)
  BY <1>3, LinhaTipo, ImagensSeq
<1>5. deploy \in [Deploys -> LinhaDeDeploy] /\ sobrepostos \in BOOLEAN
  BY DEF MigrarBom, TiposDeMigrar
<1>6. /\ deploy' \in [Deploys -> LinhaDeDeploy]
      /\ deploy'[d] = x
      /\ \A e \in Deploys : e # d => deploy'[e] = deploy[e]
  BY <1>1, <1>3, <1>5
<1>7. TiposDeMigrar'
  <2>1. sobrepostos' \in BOOLEAN
    BY <1>2, <1>5
  <2>2. \A e \in Deploys :
           deploy'[e].passo = "aplicar" => deploy'[e].n \in DOMAIN deploy'[e].imagem
    BY <1>4, <1>6 DEF MigrarBom, TiposDeMigrar
  <2> QED
    BY <1>2, <1>6, <2>1, <2>2 DEF MigrarBom, TiposDeMigrar
<1>8. EsquemaDaImagem'
  <2>1. \A m \in Arquivos :
           ledger'[m] = IF esquema'[m] = <<>> THEN Nulo ELSE Head(esquema'[m])
    BY <1>2 DEF MigrarBom, EsquemaDaImagem
  <2>2. ASSUME ~sobrepostos', NEW e \in Deploys, deploy'[e].passo = "pronto",
               NEW n \in DOMAIN deploy'[e].imagem
        PROVE  esquema'[deploy'[e].imagem[n][1]] = <<deploy'[e].imagem[n][2]>>
    BY <2>2, <1>2, <1>4, <1>6 DEF MigrarBom, EsquemaDaImagem
  <2> QED
    BY <2>1, <2>2 DEF EsquemaDaImagem
<1>9. SozinhoBom'
  <2> SUFFICES ASSUME ~sobrepostos' PROVE SozinhoBom'
    BY DEF SozinhoBom
  <2>1. ~sobrepostos /\ \A e \in Deploys : e # d => ~Migrando(e)
    BY <1>2
  <2>2. \A e \in Deploys : e # d => ~Migrando(e)'
    BY <2>1, <1>6 DEF Migrando
  <2>3. \A m \in Arquivos : Len(esquema'[m]) <= 1
    BY <2>1, <1>2 DEF MigrarBom, SozinhoBom
  <2>4. \A e \in Deploys : deploy'[e].passo # "aplicar"
    BY <2>2, <1>4, <1>6 DEF Migrando
  <2>5. ASSUME NEW e \in Deploys, Migrando(e)', NEW n \in DOMAIN deploy'[e].imagem,
               n < deploy'[e].n
        PROVE  FALSE
    BY <2>2, <2>5, <1>4, <1>6
  <2> QED
    BY <2>2, <2>3, <2>4, <2>5 DEF SozinhoBom
<1> QED
  BY <1>7, <1>8, <1>9 DEF MigrarBom

\* A run that failed remembers nothing.
LEMMA FalharMantem ==
    ASSUME MigrarBom, NEW d \in Deploys, Falhar(d), UNCHANGED <<ledger, esquema, sobrepostos>>
    PROVE  MigrarBom'
<1>1. PICK x \in LinhaDeDeploy : x = Linha("falhou", 1, <<>>)
  BY LinhaTipo
<1>2. x.passo = "falhou" /\ deploy' = [deploy EXCEPT ![d] = x]
  BY <1>1, LinhaTipo DEF Falhar
<1> QED
  BY <1>2, AndarMantem

LEMMA LerLedgerMantem ==
    ASSUME MigrarBom, NEW d \in Deploys, LerLedger(d)
    PROVE  MigrarBom'
<1>1. /\ deploy[d].passo = "ler" /\ UNCHANGED <<ledger, esquema, sobrepostos>>
      /\ deploy \in [Deploys -> LinhaDeDeploy]
      /\ Migrando(d)
  BY DEF LerLedger, MigrarBom, TiposDeMigrar, Migrando
<1>2. PICK v \in LinhaDeDeploy : v = deploy[d]
  BY <1>1
<1>3. ~sobrepostos => \A n \in DOMAIN v.imagem :
         n < v.n => esquema[v.imagem[n][1]] = <<v.imagem[n][2]>>
  BY <1>1, <1>2 DEF MigrarBom, SozinhoBom
<1>4. v.n \in Nat \ {0} /\ v.imagem \in Imagens \union {<<>>}
  BY LinhaMuda
<1>5. CASE v.n \in DOMAIN v.imagem /\ ledger[v.imagem[v.n][1]] = Nulo
  <2>1. PICK x \in LinhaDeDeploy : x = Linha("aplicar", v.n, v.imagem)
    <3>1. Linha("aplicar", v.n, v.imagem) \in LinhaDeDeploy
      BY <1>4, LinhaTipo
    <3> QED
      BY <3>1
  <2>2. x.passo = "aplicar" /\ x.n = v.n /\ x.imagem = v.imagem
    BY <1>4, <2>1, LinhaTipo
  <2>3. deploy' = [deploy EXCEPT ![d] = x]
    <3>1. v.imagem[v.n][2] # Nulo
      BY <1>4, <1>5, ImagensSao, ChecksumsSao
    <3>2. Ir(d, "aplicar")
      BY <1>1, <1>2, <1>5, <3>1 DEF LerLedger, Conferir, Atual
    <3> QED
      BY <1>1, <1>2, <2>1, <3>2, IrMuda
  <2> QED
    BY <1>1, <1>3, <1>5, <2>2, <2>3, AndarMantem
<1>6. CASE v.n \in DOMAIN v.imagem /\ ledger[v.imagem[v.n][1]] # Nulo
                                   /\ ledger[v.imagem[v.n][1]] = v.imagem[v.n][2]
  <2>1. PICK x \in LinhaDeDeploy : x = Linha("ler", v.n + 1, v.imagem)
    <3>1. PICK n \in Nat \ {0} : n = v.n + 1
      BY <1>4
    <3>2. Linha("ler", n, v.imagem) \in LinhaDeDeploy
      BY <1>4, LinhaTipo
    <3> QED
      BY <3>1, <3>2
  <2>2. x.passo = "ler" /\ x.n = v.n + 1 /\ x.imagem = v.imagem
    BY <1>4, <2>1, LinhaTipo
  <2>3. deploy' = [deploy EXCEPT ![d] = x]
    <3>1. Avancar(d)
      BY <1>1, <1>2, <1>6 DEF LerLedger, Conferir, Atual
    <3> QED
      BY <1>1, <1>2, <2>1, <3>1, AvancarMuda
  <2>4. PICK m \in Arquivos : m = v.imagem[v.n][1]
    BY <1>4, <1>6, ImagensSao
  <2>5. esquema[m] \in Seq(Checksums)
    BY DEF MigrarBom, TiposDeMigrar
  <2>6. esquema[m] # <<>> /\ Head(esquema[m]) = v.imagem[v.n][2]
    BY <1>6, <2>4 DEF MigrarBom, EsquemaDaImagem
  <2>7. ~sobrepostos => Len(esquema[m]) <= 1
    BY DEF MigrarBom, SozinhoBom
  <2>8. ~sobrepostos => esquema[m] = <<v.imagem[v.n][2]>>
    BY <2>5, <2>6, <2>7
  <2>9. v.imagem \in Seq(ToSet(Migracoes) \X Nat)
    BY <1>4, ImagensSeq
  <2>10. ASSUME ~sobrepostos, NEW n \in DOMAIN x.imagem, n < x.n
         PROVE  esquema[x.imagem[n][1]] = <<x.imagem[n][2]>>
    <3>1. n \in Nat
      BY <2>2, <2>9
    <3>2. CASE n = v.n
      BY <3>2, <2>2, <2>4, <2>8, <2>10
    <3>3. CASE n < v.n
      BY <3>3, <2>2, <2>10, <1>3
    <3> QED
      BY <3>1, <3>2, <3>3, <1>4, <2>2, <2>10
  <2> QED
    BY <1>1, <2>2, <2>3, <2>10, AndarMantem
<1>7. CASE v.n \in DOMAIN v.imagem /\ ledger[v.imagem[v.n][1]] \notin {Nulo, v.imagem[v.n][2]}
  <2>1. Falhar(d)
    BY <1>1, <1>2, <1>7 DEF LerLedger, Conferir, Atual
  <2> QED
    BY <1>1, <2>1, FalharMantem
<1>8. CASE v.n \notin DOMAIN v.imagem
  <2>1. PICK x \in LinhaDeDeploy : x = Linha("pronto", v.n, v.imagem)
    <3>1. Linha("pronto", v.n, v.imagem) \in LinhaDeDeploy
      BY <1>4, LinhaTipo
    <3> QED
      BY <3>1
  <2>2. x.passo = "pronto" /\ x.n = v.n /\ x.imagem = v.imagem
    BY <1>4, <2>1, LinhaTipo
  <2>3. deploy' = [deploy EXCEPT ![d] = x]
    <3>1. Ir(d, "pronto")
      BY <1>1, <1>2, <1>8 DEF LerLedger
    <3> QED
      BY <1>1, <1>2, <2>1, <3>1, IrMuda
  <2>4. v.imagem \in Seq(ToSet(Migracoes) \X Nat)
    BY <1>4, ImagensSeq
  <2>5. \A n \in DOMAIN v.imagem : n < v.n
    BY <1>4, <1>8, <2>4
  <2> QED
    BY <1>1, <1>3, <2>2, <2>3, <2>5, AndarMantem
<1> QED
  BY <1>5, <1>6, <1>7, <1>8

LEMMA AplicarMantem ==
    ASSUME MigrarBom, NEW d \in Deploys, Aplicar(d)
    PROVE  MigrarBom'
<1>1. /\ deploy[d].passo = "aplicar" /\ UNCHANGED sobrepostos
      /\ deploy \in [Deploys -> LinhaDeDeploy]
      /\ deploy[d].n \in DOMAIN deploy[d].imagem
      /\ Migrando(d)
  BY DEF Aplicar, MigrarBom, TiposDeMigrar, Migrando
<1>2. PICK m \in Arquivos, c \in Checksums : m = Atual(d)[1] /\ c = Atual(d)[2]
  BY <1>1, AtualSao DEF MigrarBom
<1>3. CASE ~(\A r \in Refere(m) : esquema[r] # <<>>)
  <2>1. Falhar(d) /\ UNCHANGED <<ledger, esquema>>
    BY <1>2, <1>3 DEF Aplicar
  <2> QED
    BY <1>1, <2>1, FalharMantem
<1>4. CASE \A r \in Refere(m) : esquema[r] # <<>>
  <2> DEFINE s == esquema[m]
  <2>1. /\ esquema' = [esquema EXCEPT ![m] = IF Contains(s, c) THEN s ELSE Append(s, c)]
        /\ ledger' = [ledger EXCEPT ![m] = IF ledger[m] = Nulo THEN c ELSE ledger[m]]
        /\ Avancar(d)
    BY <1>2, <1>4 DEF Aplicar
  <2>2. PICK v \in LinhaDeDeploy : v = deploy[d]
    BY <1>1
  <2>3. PICK x \in LinhaDeDeploy : x = Linha("ler", v.n + 1, v.imagem)
    <3>1. v.n \in Nat \ {0} /\ v.imagem \in Imagens \union {<<>>}
      BY LinhaMuda
    <3> QED
      BY <3>1, LinhaTipo
  <2>4. x.passo = "ler" /\ x.n = v.n + 1 /\ x.imagem = v.imagem /\ v.n \in Nat \ {0}
    <3>1. v.n \in Nat \ {0} /\ v.imagem \in Imagens \union {<<>>}
      BY LinhaMuda
    <3>2. v.n + 1 \in Nat \ {0}
      BY <3>1
    <3> QED
      BY <2>3, <3>1, <3>2, LinhaTipo
  <2>5. deploy' = [deploy EXCEPT ![d] = x]
    BY <1>1, <2>1, <2>2, <2>3, AvancarMuda
  <2>6. /\ deploy' \in [Deploys -> LinhaDeDeploy] /\ deploy'[d] = x
        /\ \A e \in Deploys : e # d => deploy'[e] = deploy[e]
    BY <1>1, <2>5
  <2>7. /\ ledger \in [Arquivos -> Checksums \union {Nulo}]
        /\ esquema \in [Arquivos -> Seq(Checksums)]
        /\ s \in Seq(Checksums) /\ IsInjective(s)
        /\ ledger[m] = IF s = <<>> THEN Nulo ELSE Head(s)
    BY DEF MigrarBom, TiposDeMigrar, EsquemaDaImagem
  <2>8. PICK t \in Seq(Checksums) : /\ t = IF Contains(s, c) THEN s ELSE Append(s, c)
                                    /\ IsInjective(t)
    BY <2>7, AcrescentaInjetiva
  <2>9. /\ esquema' \in [Arquivos -> Seq(Checksums)] /\ esquema'[m] = t
        /\ \A a \in Arquivos : a # m => esquema'[a] = esquema[a]
    BY <2>1, <2>7, <2>8
  <2>10. /\ ledger' \in [Arquivos -> Checksums \union {Nulo}]
         /\ ledger'[m] = IF ledger[m] = Nulo THEN c ELSE ledger[m]
         /\ \A a \in Arquivos : a # m => ledger'[a] = ledger[a]
    BY <2>1, <2>7
  <2>11. s = <<>> <=> ledger[m] = Nulo
    BY <2>7, ChecksumsSao
  <2>12. s = <<>> => t = <<c>>
    BY <2>8 DEF Contains
  <2>13. s # <<>> => t # <<>> /\ Head(t) = Head(s)
    BY <2>7, <2>8
  <2>14. TiposDeMigrar'
    <3>1. \A e \in Deploys :
             deploy'[e].passo = "aplicar" => deploy'[e].n \in DOMAIN deploy'[e].imagem
      BY <2>4, <2>6 DEF MigrarBom, TiposDeMigrar
    <3>2. \A a \in Arquivos : IsInjective(esquema'[a])
      BY <2>8, <2>9 DEF MigrarBom, TiposDeMigrar
    <3>3. sobrepostos' \in BOOLEAN
      BY <1>1 DEF MigrarBom, TiposDeMigrar
    <3> QED
      BY <2>6, <2>9, <2>10, <3>1, <3>2, <3>3 DEF TiposDeMigrar
  \* While the run is alone, the table of m was not there.
  <2>15. ASSUME ~sobrepostos
         PROVE  s = <<>> /\ \A e \in Deploys : e # d => ~Migrando(e)
    BY <1>1, <1>2, <2>15 DEF MigrarBom, SozinhoBom
  <2>16. ASSUME ~sobrepostos, NEW a \in Arquivos, esquema[a] # <<>>
         PROVE  esquema'[a] = esquema[a]
    BY <2>9, <2>15, <2>16
  <2>17. ASSUME ~sobrepostos, NEW e \in Deploys, NEW n \in DOMAIN deploy[e].imagem,
                esquema[deploy[e].imagem[n][1]] = <<deploy[e].imagem[n][2]>>
         PROVE  esquema'[deploy[e].imagem[n][1]] = <<deploy[e].imagem[n][2]>>
    <3>1. deploy[e].imagem \in Imagens \union {<<>>}
      BY <1>1 DEF LinhaDeDeploy
    <3>2. PICK a \in Arquivos : a = deploy[e].imagem[n][1]
      BY <3>1, ImagensSao
    <3>3. esquema[a] # <<>>
      BY <3>2, <2>17
    <3> QED
      BY <2>16, <2>17, <3>2, <3>3
  <2>18. EsquemaDaImagem'
    <3>1. \A a \in Arquivos :
             ledger'[a] = IF esquema'[a] = <<>> THEN Nulo ELSE Head(esquema'[a])
      <4>1. ledger'[m] = IF t = <<>> THEN Nulo ELSE Head(t)
        BY <2>7, <2>10, <2>11, <2>12, <2>13
      <4> QED
        BY <4>1, <2>9, <2>10 DEF MigrarBom, EsquemaDaImagem
    <3>2. ASSUME ~sobrepostos, NEW e \in Deploys, deploy'[e].passo = "pronto",
                 NEW n \in DOMAIN deploy'[e].imagem
          PROVE  esquema'[deploy'[e].imagem[n][1]] = <<deploy'[e].imagem[n][2]>>
      <4>1. deploy'[e] = deploy[e]
        BY <3>2, <2>4, <2>6
      <4>2. esquema[deploy[e].imagem[n][1]] = <<deploy[e].imagem[n][2]>>
        BY <3>2, <4>1 DEF MigrarBom, EsquemaDaImagem
      <4> QED
        BY <3>2, <4>1, <4>2, <2>17
    <3> QED
      BY <1>1, <3>1, <3>2 DEF EsquemaDaImagem
  <2>19. SozinhoBom'
    <3> SUFFICES ASSUME ~sobrepostos PROVE SozinhoBom'
      BY <1>1 DEF SozinhoBom
    <3>1. \A e \in Deploys : e # d => ~Migrando(e)'
      BY <2>6, <2>15 DEF Migrando
    <3>2. ASSUME NEW a \in Arquivos PROVE Len(esquema'[a]) <= 1
      <4>1. Len(<<c>>) <= 1 /\ Len(esquema[a]) <= 1
        BY DEF MigrarBom, SozinhoBom
      <4>2. esquema'[a] = <<c>> \/ esquema'[a] = esquema[a]
        BY <2>9, <2>12, <2>15
      <4> QED
        BY <4>1, <4>2
    <3>3. \A e \in Deploys : deploy'[e].passo # "aplicar"
      BY <3>1, <2>4, <2>6 DEF Migrando
    <3>4. ASSUME NEW n \in DOMAIN x.imagem, n < x.n
          PROVE  esquema'[x.imagem[n][1]] = <<x.imagem[n][2]>>
      <4>1. CASE n = v.n
        BY <4>1, <2>2, <2>4, <2>9, <2>12, <2>15, <1>2 DEF Atual
      <4>2. CASE n # v.n
        <5>1. v.imagem \in Seq(ToSet(Migracoes) \X Nat)
          BY LinhaMuda, ImagensSeq
        <5>2. n \in Nat
          BY <5>1, <2>4
        <5>3. n < v.n
          BY <3>4, <4>2, <5>2, <2>4
        <5>4. esquema[v.imagem[n][1]] = <<v.imagem[n][2]>>
          BY <5>3, <1>1, <2>2, <2>4 DEF MigrarBom, SozinhoBom
        <5> QED
          BY <5>4, <2>2, <2>4, <2>17
      <4> QED
        BY <4>1, <4>2
    <3> QED
      BY <3>1, <3>2, <3>3, <3>4, <2>6 DEF SozinhoBom
  <2> QED
    BY <2>14, <2>18, <2>19 DEF MigrarBom
<1> QED
  BY <1>3, <1>4
-----------------------------------------------------------------------------
(* Implantacao: the modules of the installation.                           *)

LEMMA ManifestosSao ==
    Manifestos = { identityManifest, tenancyManifest, pluginsManifest, crmManifest,
                   commercialManifest, contractsManifest, assetsManifest, operationsManifest }
BY DEF Manifestos, modulosInstalados, ToSet

LEMMA IdsSao ==
    /\ identityManifest.id = "identity" /\ tenancyManifest.id = "tenancy"
    /\ pluginsManifest.id = "plugins" /\ crmManifest.id = "crm"
    /\ commercialManifest.id = "commercial" /\ contractsManifest.id = "contracts"
    /\ assetsManifest.id = "assets" /\ operationsManifest.id = "operations"
BY DEF Manifesto, identityManifest, tenancyManifest, pluginsManifest, crmManifest,
       commercialManifest, contractsManifest, assetsManifest, operationsManifest

\* The core is installed.
LEMMA NucleoInstalado == Nucleo \subseteq ModulosConhecidos
BY ManifestosSao, IdsSao DEF Nucleo, ModulosConhecidos

LEMMA ManifestoDoId ==
    ASSUME NEW u \in ModulosConhecidos
    PROVE  DeId(u) \in Manifestos /\ DeId(u).id = u
<1>1. \E m \in Manifestos : m.id = u
  BY DEF ModulosConhecidos
<1> QED
  BY <1>1 DEF DeId

\* The keys a module brings are its own, or of the platform.
LEMMA ChavesDaCasa ==
    ASSUME NEW m \in Manifestos, NEW chave \in m.permissoes
    PROVE  UnidadeDe(chave) \in {<<m.id>>, <<"platform">>}
<1> DEFINE Curta(k, id) == k[1] \in {id, "platform"} /\ \E b, c : k = <<k[1], b, c>>
<1>1. ASSUME NEW modulo, NEW entidade, NEW atos, NEW k \in Sobre(modulo, entidade, atos)
      PROVE  k[1] = modulo /\ \E b, c : k = <<k[1], b, c>>
  BY DEF Sobre
<1>2. \A k \in identityManifest.permissoes : Curta(k, "identity")
  BY <1>1 DEF Manifesto, identityManifest
<1>3. \A k \in tenancyManifest.permissoes : Curta(k, "tenancy")
  BY <1>1 DEF Manifesto, tenancyManifest
<1>4. \A k \in pluginsManifest.permissoes : Curta(k, "plugins")
  BY <1>1 DEF Manifesto, pluginsManifest
<1>5. \A k \in crmManifest.permissoes : Curta(k, "crm")
  BY <1>1 DEF Manifesto, crmManifest
<1>6. \A k \in commercialManifest.permissoes : Curta(k, "commercial")
  BY <1>1 DEF Manifesto, commercialManifest
<1>7. \A k \in contractsManifest.permissoes : Curta(k, "contracts")
  BY <1>1 DEF Manifesto, contractsManifest
<1>8. \A k \in assetsManifest.permissoes : Curta(k, "assets")
  BY <1>1 DEF Manifesto, assetsManifest
<1>9. \A k \in operationsManifest.permissoes : Curta(k, "operations")
  BY <1>1 DEF Manifesto, operationsManifest
<1>10. Curta(chave, m.id)
  <2> HIDE DEF Curta
  <2> QED
    BY <1>2, <1>3, <1>4, <1>5, <1>6, <1>7, <1>8, <1>9, ManifestosSao, IdsSao
<1>11. m.id # "plugin"
  BY ManifestosSao, IdsSao
<1>12. UnidadeDe(chave) = <<chave[1]>>
  <2>1. PICK a, b, c : chave = <<a, b, c>>
    BY <1>10
  <2>2. chave[1] = a /\ a # "plugin"
    BY <2>1, <1>10, <1>11
  <2>3. UnidadeDe(chave) = SubSeq(<<a, b, c>>, 1, 1)
    BY <2>1, <2>2 DEF UnidadeDe
  <2>4. SubSeq(<<a, b, c>>, 1, 1) = <<a>>
    <3> DEFINE t == SubSeq(<<a, b, c>>, 1, 1)
    <3>1. t \in Seq({a, b, c}) /\ Len(t) = 1 /\ t[1] = a
      OBVIOUS
    <3> HIDE DEF t
    <3>2. t = <<t[1]>>
      BY <3>1
    <3> QED
      BY <3>1, <3>2 DEF t
  <2> QED
    BY <2>2, <2>3, <2>4
<1> QED
  BY <1>10, <1>12

\* An owner has every key of the modules contracted.
LEMMA DonoPode ==
    ASSUME NEW s, NEW u \in ModulosConhecidos, contratos[s][u] = "active",
           NEW chave \in DeId(u).permissoes
    PROVE  Autoriza(ConcessaoDoDono(s), chave)
<1>1. UnidadeDe(chave) \in {<<u>>, <<"platform">>}
  BY ManifestoDoId, ChavesDaCasa
<1>2. ConcessaoDoDono(s).permissoes = {Tudo} /\ ConcessaoDoDono(s).escopos = {Tudo}
  BY DEF ConcessaoDoDono, PapeisDeSistema
<1>3. <<u>> \in ConcessaoDoDono(s).unidades
  BY DEF ConcessaoDoDono
<1>4. Concede({Tudo}, chave)
  BY DEF Concede, Casa
<1> QED
  BY <1>1, <1>2, <1>3, <1>4 DEF Autoriza, Contratada

LEMMA PedidosConhecidos ==
    ASSUME NEW pedidos, pedidos \subseteq ModulosConhecidos
    PROVE  resolverModulos(pedidos) \subseteq ModulosConhecidos
BY NucleoInstalado DEF resolverModulos

-----------------------------------------------------------------------------
(* Implantacao: the commands.                                              *)

TiposDeProvisionar ==
    /\ empresas \subseteq Slugs
    /\ pessoa \in [Emails -> Operadores \union {Nulo}]
    /\ vinculos \in [Slugs -> [Emails -> {"ausente", "active", "revoked"}]]
    /\ dono \subseteq Slugs \X Emails
    /\ contratos \in [Slugs -> [ModulosConhecidos -> {"ausente", "active", "suspended"}]]
    /\ comando \in [Operadores -> Comando]

ProvisionarBom == TiposDeProvisionar /\ ComandosBons

\* A command, field by field.
Run(passo, args, empresaNova, pessoaNova) ==
    [passo |-> passo, args |-> args, empresaNova |-> empresaNova, pessoaNova |-> pessoaNova]

Passos == {"parado", "empresa", "criarEmpresa", "pessoa", "criarPessoa", "vincular",
           "confirmar", "fim", "encerrado"}

LEMMA RunTipo ==
    ASSUME NEW p \in Passos, NEW a \in Argumentos \union {Nulo},
           NEW en \in BOOLEAN, NEW pn \in BOOLEAN
    PROVE  /\ Run(p, a, en, pn) \in Comando
           /\ Run(p, a, en, pn).passo = p /\ Run(p, a, en, pn).args = a
           /\ Run(p, a, en, pn).empresaNova = en /\ Run(p, a, en, pn).pessoaNova = pn
<1>1. /\ Run(p, a, en, pn).passo = p /\ Run(p, a, en, pn).args = a
      /\ Run(p, a, en, pn).empresaNova = en /\ Run(p, a, en, pn).pessoaNova = pn
  BY DEF Run
<1>2. Run(p, a, en, pn) \in Comando
  BY DEF Run, Comando, Passos
<1> QED
  BY <1>1, <1>2

LEMMA SemTipo ==
    ASSUME NEW p \in Passos
    PROVE  Sem(p) \in Comando /\ Sem(p).passo = p /\ ~Sem(p).pessoaNova
<1>1. Sem(p).passo = p /\ ~Sem(p).pessoaNova
  BY DEF Sem
<1>2. Sem(p) \in Comando
  BY DEF Sem, Comando, Passos
<1> QED
  BY <1>1, <1>2

LEMMA ComandoCampos ==
    ASSUME NEW c \in Comando
    PROVE  /\ c.passo \in Passos /\ c.args \in Argumentos \union {Nulo}
           /\ c.empresaNova \in BOOLEAN /\ c.pessoaNova \in BOOLEAN
           /\ c = Run(c.passo, c.args, c.empresaNova, c.pessoaNova)
<1>1. /\ c.passo \in Passos /\ c.args \in Argumentos \union {Nulo}
      /\ c.empresaNova \in BOOLEAN /\ c.pessoaNova \in BOOLEAN
  BY DEF Comando, Passos
<1>2. c = Run(c.passo, c.args, c.empresaNova, c.pessoaNova)
  BY DEF Comando, Run
<1> QED
  BY <1>1, <1>2

LEMMA ComandoMuda ==
    ASSUME NEW c \in Comando, NEW q, NEW b
    PROVE  /\ [c EXCEPT !.passo = q] = Run(q, c.args, c.empresaNova, c.pessoaNova)
           /\ [c EXCEPT !.passo = q, !.args = b] = Run(q, b, c.empresaNova, c.pessoaNova)
           /\ [c EXCEPT !.passo = q, !.empresaNova = b] = Run(q, c.args, b, c.pessoaNova)
<1>1. PICK p, a, en, pn : /\ c = Run(p, a, en, pn)
                          /\ p = c.passo /\ a = c.args
                          /\ en = c.empresaNova /\ pn = c.pessoaNova
  BY ComandoCampos
<1> DEFINE w == [c EXCEPT !.passo = q]
<1>2. w = Run(q, a, en, pn)
  BY <1>1 DEF Run
<1> HIDE DEF w
<1>3. [w EXCEPT !.args = b] = Run(q, b, en, pn)
  BY <1>2 DEF Run
<1>4. [w EXCEPT !.empresaNova = b] = Run(q, a, b, pn)
  BY <1>2 DEF Run
<1> QED
  BY <1>1, <1>2, <1>3, <1>4 DEF w

LEMMA PessoaNovaMuda ==
    ASSUME NEW c \in Comando, NEW q, NEW b
    PROVE  [c EXCEPT !.passo = q, !.pessoaNova = b] = Run(q, c.args, c.empresaNova, b)
<1> DEFINE w == [c EXCEPT !.passo = q]
<1>1. w = Run(q, c.args, c.empresaNova, c.pessoaNova)
  BY ComandoMuda
<1> HIDE DEF w
<1>2. [w EXCEPT !.pessoaNova = b] = Run(q, c.args, c.empresaNova, b)
  BY <1>1 DEF Run
<1> QED
  BY <1>2 DEF w

\* Only the run o has moved, to a step at which nothing is answered yet.
LEMMA SeguirMantem ==
    ASSUME ProvisionarBom, NEW o \in Operadores, NEW x \in Comando,
           UNCHANGED banco, comando' = [comando EXCEPT ![o] = x],
           comando[o].passo \notin {"fim", "encerrado"}, x.passo # "fim",
           x.passo \notin {"parado", "encerrado"} =>
              x.args \in Argumentos /\ x.args.pedidos \subseteq ModulosConhecidos,
           x.pessoaNova => /\ x.passo \in {"vincular", "confirmar"}
                           /\ \A p \in Operadores \ {o} :
                                 Provisionando(p) /\ comando[p].pessoaNova =>
                                    Email(p) # x.args.email,
           x.passo \in {"vincular", "confirmar"} =>
              (x.pessoaNova <=> pessoa[x.args.email] = Nulo)
    PROVE  ProvisionarBom'
<1>1. /\ comando \in [Operadores -> Comando]
      /\ UNCHANGED <<empresas, pessoa, vinculos, dono, contratos>>
  BY DEF ProvisionarBom, TiposDeProvisionar, banco
<1>2. /\ comando' \in [Operadores -> Comando] /\ comando'[o] = x
      /\ \A p \in Operadores : p # o => comando'[p] = comando[p]
  BY <1>1
<1>3. TiposDeProvisionar'
  BY <1>1, <1>2 DEF ProvisionarBom, TiposDeProvisionar
<1>4. UmSoInsere'
  <2> SUFFICES ASSUME NEW a \in Operadores, NEW b \in Operadores, a # b,
                      Provisionando(a)', comando'[a].pessoaNova,
                      Provisionando(b)', comando'[b].pessoaNova
               PROVE  comando'[a].args.email # comando'[b].args.email
    BY DEF UmSoInsere, Email
  <2>1. CASE a = o
    BY <2>1, <1>2 DEF Provisionando, Email
  <2>2. CASE b = o
    BY <2>2, <1>2 DEF Provisionando, Email
  <2>3. CASE a # o /\ b # o
    BY <2>3, <1>2 DEF Provisionando, Email, ProvisionarBom, ComandosBons, UmSoInsere
  <2> QED
    BY <2>1, <2>2, <2>3
<1>5. ASSUME NEW p \in Operadores
      PROVE  ComandoBom(p)' /\ RespostaVale(p)'
  <2>1. ComandoBom(p) /\ RespostaVale(p)
    BY DEF ProvisionarBom, ComandosBons
  <2>2. CASE p = o
    <3>1. \A e \in Emails : pessoa'[e] # o
      BY <2>1, <2>2, <1>1 DEF ComandoBom
    <3> QED
      BY <2>2, <3>1, <1>1, <1>2 DEF ComandoBom, RespostaVale, Email
  <2>3. CASE p # o
    <3>1. comando'[p] = comando[p]
      BY <2>3, <1>2
    <3> QED
      BY <2>1, <3>1, <1>1 DEF ComandoBom, RespostaVale, Email, Slug
  <2> QED
    BY <2>2, <2>3
<1> QED
  BY <1>3, <1>4, <1>5 DEF ProvisionarBom, ComandosBons

\* A run that ended with nothing to show.
LEMMA EncerrarMantem ==
    ASSUME ProvisionarBom, NEW o \in Operadores, UNCHANGED banco,
           comando' = [comando EXCEPT ![o] = Sem("encerrado")],
           comando[o].passo \notin {"fim", "encerrado"}
    PROVE  ProvisionarBom'
<1>1. PICK x : x = Sem("encerrado")
  OBVIOUS
<1>2. x \in Comando /\ x.passo = "encerrado" /\ ~x.pessoaNova
  BY <1>1, SemTipo DEF Passos
<1> QED
  BY <1>1, <1>2, SeguirMantem

LEMMA ProvisionarMantem ==
    ASSUME ProvisionarBom, NEW o \in Operadores, Provisionar(o)
    PROVE  ProvisionarBom'
<1>1. PICK a \in Argumentos :
         /\ a.pedidos \subseteq ModulosConhecidos
         /\ comando' = [comando EXCEPT ![o].passo = "empresa", ![o].args = a]
  BY DEF Provisionar
<1>2. comando[o] \in Comando /\ comando[o].passo = "parado" /\ UNCHANGED banco
  BY DEF Provisionar, ProvisionarBom, TiposDeProvisionar
<1>3. PICK c \in Comando : c = comando[o]
  BY <1>2
<1>4. PICK x : x = Run("empresa", a, c.empresaNova, c.pessoaNova)
  OBVIOUS
<1>5. /\ x \in Comando /\ x.passo = "empresa" /\ x.args = a
      /\ x.pessoaNova = c.pessoaNova
  <2>1. "empresa" \in Passos /\ c.empresaNova \in BOOLEAN /\ c.pessoaNova \in BOOLEAN
    BY ComandoCampos DEF Passos
  <2> QED
    BY <1>4, <2>1, RunTipo
<1>6. comando' = [comando EXCEPT ![o] = x]
  <2>1. [c EXCEPT !.passo = "empresa", !.args = a] = x
    BY <1>4, ComandoMuda
  <2>2. [comando EXCEPT ![o].passo = "empresa", ![o].args = a]
           = [comando EXCEPT ![o] = [c EXCEPT !.passo = "empresa", !.args = a]]
    BY <1>3
  <2> QED
    BY <1>1, <2>1, <2>2
<1>7. ~c.pessoaNova
  BY <1>2, <1>3 DEF ProvisionarBom, ComandosBons, ComandoBom
<1> QED
  BY <1>1, <1>2, <1>3, <1>5, <1>6, <1>7, SeguirMantem

\* A run at work goes on, with what it was asked for.
LEMMA MoverMantem ==
    ASSUME ProvisionarBom, NEW o \in Operadores, UNCHANGED banco, Provisionando(o),
           NEW q \in Passos \ {"parado", "fim", "encerrado"},
           NEW en \in BOOLEAN, NEW pn \in BOOLEAN,
           comando' = [comando EXCEPT ![o] = Run(q, comando[o].args, en, pn)],
           pn => /\ q \in {"vincular", "confirmar"}
                 /\ \A p \in Operadores \ {o} :
                       Provisionando(p) /\ comando[p].pessoaNova => Email(p) # Email(o),
           q \in {"vincular", "confirmar"} => (pn <=> pessoa[Email(o)] = Nulo)
    PROVE  ProvisionarBom'
<1>1. PICK c \in Comando : c = comando[o]
  BY DEF ProvisionarBom, TiposDeProvisionar
<1>2. c.passo \notin {"parado", "fim", "encerrado"}
  BY <1>1 DEF Provisionando
<1>3. c.args \in Argumentos /\ c.args.pedidos \subseteq ModulosConhecidos
  BY <1>1, <1>2 DEF ProvisionarBom, ComandosBons, ComandoBom
<1>4. PICK x : x = Run(q, c.args, en, pn)
  OBVIOUS
<1>5. /\ x \in Comando /\ x.passo = q /\ x.args = c.args /\ x.pessoaNova = pn
  BY <1>3, <1>4, RunTipo
<1>6. Email(o) = x.args.email
  BY <1>1, <1>5 DEF Email
<1>7. comando' = [comando EXCEPT ![o] = x]
  BY <1>1, <1>4
<1>8. x.pessoaNova => /\ x.passo \in {"vincular", "confirmar"}
                      /\ \A p \in Operadores \ {o} :
                            Provisionando(p) /\ comando[p].pessoaNova =>
                               Email(p) # x.args.email
  BY <1>5, <1>6
<1>9. x.passo \in {"vincular", "confirmar"} =>
         (x.pessoaNova <=> pessoa[x.args.email] = Nulo)
  BY <1>5, <1>6
<1>10. /\ x.passo # "fim" /\ comando[o].passo \notin {"fim", "encerrado"}
       /\ x.args \in Argumentos /\ x.args.pedidos \subseteq ModulosConhecidos
  BY <1>1, <1>2, <1>3, <1>5
<1> QED
  BY <1>5, <1>7, <1>8, <1>9, <1>10, SeguirMantem

\* The same, by Seguir, which changes the step alone.
LEMMA SeguirAnda ==
    ASSUME ProvisionarBom, NEW o \in Operadores, UNCHANGED banco, Provisionando(o),
           NEW q \in Passos \ {"parado", "fim", "encerrado"}, Seguir(o, q),
           comando[o].pessoaNova => q = "confirmar" /\ comando[o].passo = "vincular",
           q \in {"vincular", "confirmar"} =>
              (comando[o].pessoaNova <=> pessoa[Email(o)] = Nulo)
    PROVE  ProvisionarBom'
<1>1. PICK c \in Comando : c = comando[o]
  BY DEF ProvisionarBom, TiposDeProvisionar
<1>2. c.empresaNova \in BOOLEAN /\ c.pessoaNova \in BOOLEAN
  BY ComandoCampos
<1>3. comando' = [comando EXCEPT ![o] = Run(q, comando[o].args, c.empresaNova, c.pessoaNova)]
  <2>1. [c EXCEPT !.passo = q] = Run(q, c.args, c.empresaNova, c.pessoaNova)
    BY ComandoMuda
  <2>2. comando' = [comando EXCEPT ![o] = [c EXCEPT !.passo = q]]
    BY <1>1 DEF Seguir
  <2> QED
    BY <1>1, <2>1, <2>2
<1>4. c.pessoaNova => \A p \in Operadores \ {o} :
         Provisionando(p) /\ comando[p].pessoaNova => Email(p) # Email(o)
  BY <1>1 DEF ProvisionarBom, ComandosBons, UmSoInsere
<1>5. c.pessoaNova => q \in {"vincular", "confirmar"}
  BY <1>1
<1>6. q \in {"vincular", "confirmar"} => (c.pessoaNova <=> pessoa[Email(o)] = Nulo)
  BY <1>1
<1> QED
  BY <1>2, <1>3, <1>4, <1>5, <1>6, MoverMantem

LEMMA ProcurarEmpresaMantem ==
    ASSUME ProvisionarBom, NEW o \in Operadores, ProcurarEmpresa(o)
    PROVE  ProvisionarBom'
<1>1. /\ UNCHANGED banco /\ Provisionando(o) /\ comando[o].passo = "empresa"
      /\ ~comando[o].pessoaNova
  BY DEF ProcurarEmpresa, Provisionando, ProvisionarBom, ComandosBons, ComandoBom
<1>2. Seguir(o, "pessoa") \/ Seguir(o, "criarEmpresa")
  BY DEF ProcurarEmpresa
<1> QED
  BY <1>1, <1>2, SeguirAnda DEF Passos

LEMMA CriarEmpresaMantem ==
    ASSUME ProvisionarBom, NEW o \in Operadores, CriarEmpresa(o)
    PROVE  ProvisionarBom'
<1>1. /\ UNCHANGED banco /\ Provisionando(o) /\ comando[o].passo = "criarEmpresa"
      /\ ~comando[o].pessoaNova
  BY DEF CriarEmpresa, Provisionando, ProvisionarBom, ComandosBons, ComandoBom
<1>2. CASE Slug(o) \in empresas
  <2>1. comando' = [comando EXCEPT ![o] = Sem("encerrado")]
    BY <1>2 DEF CriarEmpresa
  <2> QED
    BY <1>1, <2>1, EncerrarMantem
<1>3. CASE Slug(o) \notin empresas
  <2>1. PICK c \in Comando : c = comando[o]
    BY DEF ProvisionarBom, TiposDeProvisionar
  <2>2. comando' = [comando EXCEPT ![o] = [c EXCEPT !.passo = "pessoa", !.empresaNova = TRUE]]
    BY <1>3, <2>1 DEF CriarEmpresa
  <2>3. comando' = [comando EXCEPT ![o] = Run("pessoa", comando[o].args, TRUE, c.pessoaNova)]
    <3>1. [c EXCEPT !.passo = "pessoa", !.empresaNova = TRUE]
             = Run("pessoa", c.args, TRUE, c.pessoaNova)
      BY ComandoMuda
    <3> QED
      BY <2>1, <2>2, <3>1
  <2>4. c.pessoaNova \in BOOLEAN /\ ~c.pessoaNova
    BY <1>1, <2>1, ComandoCampos
  <2> QED
    BY <1>1, <2>3, <2>4, MoverMantem DEF Passos
<1> QED
  BY <1>2, <1>3

LEMMA ProcurarPessoaMantem ==
    ASSUME ProvisionarBom, NEW o \in Operadores, ProcurarPessoa(o)
    PROVE  ProvisionarBom'
<1>1. /\ UNCHANGED banco /\ Provisionando(o) /\ comando[o].passo = "pessoa"
      /\ ~comando[o].pessoaNova
  BY DEF ProcurarPessoa, Provisionando, ProvisionarBom, ComandosBons, ComandoBom
<1>2. CASE pessoa[Email(o)] # Nulo
  <2>1. Seguir(o, "vincular")
    BY <1>2 DEF ProcurarPessoa
  <2> QED
    BY <1>1, <1>2, <2>1, SeguirAnda DEF Passos
<1>3. CASE pessoa[Email(o)] = Nulo
  <2>1. Seguir(o, "criarPessoa")
    BY <1>3 DEF ProcurarPessoa
  <2> QED
    BY <1>1, <2>1, SeguirAnda DEF Passos
<1> QED
  BY <1>2, <1>3

LEMMA CriarPessoaMantem ==
    ASSUME ProvisionarBom, NEW o \in Operadores, CriarPessoa(o)
    PROVE  ProvisionarBom'
<1>1. /\ UNCHANGED banco /\ Provisionando(o) /\ comando[o].passo = "criarPessoa"
      /\ ~EsperaPessoa(o)
  BY DEF CriarPessoa, Provisionando
<1>2. CASE pessoa[Email(o)] # Nulo
  <2>1. comando' = [comando EXCEPT ![o] = Sem("encerrado")]
    BY <1>2 DEF CriarPessoa
  <2> QED
    BY <1>1, <2>1, EncerrarMantem
<1>3. CASE pessoa[Email(o)] = Nulo
  <2>1. PICK c \in Comando : c = comando[o]
    BY DEF ProvisionarBom, TiposDeProvisionar
  <2>2. comando' = [comando EXCEPT ![o] = [c EXCEPT !.passo = "vincular", !.pessoaNova = TRUE]]
    BY <1>3, <2>1 DEF CriarPessoa
  <2>3. comando' = [comando EXCEPT ![o] = Run("vincular", comando[o].args, c.empresaNova, TRUE)]
    <3>1. [c EXCEPT !.passo = "vincular", !.pessoaNova = TRUE]
             = Run("vincular", c.args, c.empresaNova, TRUE)
      BY PessoaNovaMuda
    <3> QED
      BY <2>1, <2>2, <3>1
  <2>4. c.empresaNova \in BOOLEAN
    BY ComandoCampos
  <2>5. \A p \in Operadores \ {o} :
           Provisionando(p) /\ comando[p].pessoaNova => Email(p) # Email(o)
    BY <1>1 DEF EsperaPessoa
  <2> QED
    BY <1>1, <1>3, <2>3, <2>4, <2>5, MoverMantem DEF Passos
<1> QED
  BY <1>2, <1>3

LEMMA VincularMantem ==
    ASSUME ProvisionarBom, NEW o \in Operadores, Vincular(o)
    PROVE  ProvisionarBom'
<1>1. /\ UNCHANGED banco /\ Provisionando(o) /\ comando[o].passo = "vincular"
      /\ Seguir(o, "confirmar")
  BY DEF Vincular, Provisionando
<1>2. comando[o].pessoaNova <=> pessoa[Email(o)] = Nulo
  BY <1>1 DEF ProvisionarBom, ComandosBons, ComandoBom
<1> QED
  BY <1>1, <1>2, SeguirAnda DEF Passos

LEMMA DesfazerMantem ==
    ASSUME ProvisionarBom, NEW o \in Operadores, Desfazer(o)
    PROVE  ProvisionarBom'
BY EncerrarMantem DEF Desfazer, Provisionando

\* What a commit writes.
LEMMA ConfirmarEscreve ==
    ASSUME ProvisionarBom, NEW o \in Operadores, Confirmar(o)
    PROVE  /\ Slug(o) \in Slugs /\ Email(o) \in Emails
           /\ empresas' = empresas \union {Slug(o)} /\ dono' = dono \union {<<Slug(o), Email(o)>>}
           /\ pessoa' \in [Emails -> Operadores \union {Nulo}]
           /\ pessoa'[Email(o)] = IF pessoa[Email(o)] = Nulo THEN o ELSE pessoa[Email(o)]
           /\ \A e \in Emails : e # Email(o) => pessoa'[e] = pessoa[e]
           /\ vinculos' \in [Slugs -> [Emails -> {"ausente", "active", "revoked"}]]
           /\ vinculos'[Slug(o)][Email(o)] = "active"
           /\ \A s \in Slugs, e \in Emails :
                 vinculos[s][e] = "active" => vinculos'[s][e] = "active"
           /\ contratos' \in [Slugs -> [ModulosConhecidos -> {"ausente", "active", "suspended"}]]
           /\ \A u \in resolverModulos(comando[o].args.pedidos) :
                 contratos'[Slug(o)][u] # "ausente"
           /\ \A s \in Slugs, u \in ModulosConhecidos :
                 contratos[s][u] # "ausente" => contratos'[s][u] # "ausente"
<1>1. /\ comando[o].passo = "confirmar" /\ comando[o].args \in Argumentos
      /\ comando[o].args.pedidos \subseteq ModulosConhecidos
  BY DEF Confirmar, ProvisionarBom, ComandosBons, ComandoBom
<1>2. Slug(o) \in Slugs /\ Email(o) \in Emails
  BY <1>1 DEF Slug, Email, Argumentos
<1>3. PICK s \in Slugs, e \in Emails : s = Slug(o) /\ e = Email(o)
  BY <1>2
<1>4. PICK R : R = resolverModulos(comando[o].args.pedidos)
  OBVIOUS
<1>5. R \subseteq ModulosConhecidos
  BY <1>1, <1>4, PedidosConhecidos
<1>6. /\ empresas' = empresas \union {s} /\ dono' = dono \union {<<s, e>>}
      /\ pessoa' = [pessoa EXCEPT ![e] = IF pessoa[e] = Nulo THEN o ELSE pessoa[e]]
      /\ vinculos' = [vinculos EXCEPT ![s][e] = "active"]
      /\ contratos' = [contratos EXCEPT ![s] = [u \in ModulosConhecidos |->
            IF u \in R /\ contratos[s][u] = "ausente" THEN "active" ELSE contratos[s][u]]]
  BY <1>3, <1>4 DEF Confirmar
<1>7. /\ pessoa \in [Emails -> Operadores \union {Nulo}]
      /\ vinculos \in [Slugs -> [Emails -> {"ausente", "active", "revoked"}]]
      /\ contratos \in [Slugs -> [ModulosConhecidos -> {"ausente", "active", "suspended"}]]
  BY DEF ProvisionarBom, TiposDeProvisionar
<1>8. /\ pessoa' \in [Emails -> Operadores \union {Nulo}]
      /\ pessoa'[e] = IF pessoa[e] = Nulo THEN o ELSE pessoa[e]
      /\ \A f \in Emails : f # e => pessoa'[f] = pessoa[f]
  BY <1>6, <1>7
<1>9. /\ vinculos' \in [Slugs -> [Emails -> {"ausente", "active", "revoked"}]]
      /\ vinculos'[s][e] = "active"
      /\ \A z \in Slugs, f \in Emails : vinculos[z][f] = "active" => vinculos'[z][f] = "active"
  BY <1>6, <1>7
<1>10. PICK g \in [ModulosConhecidos -> {"ausente", "active", "suspended"}] :
          g = [u \in ModulosConhecidos |->
                 IF u \in R /\ contratos[s][u] = "ausente" THEN "active" ELSE contratos[s][u]]
  BY <1>7
<1>11. \A u \in ModulosConhecidos : u \in R \/ contratos[s][u] # "ausente" => g[u] # "ausente"
  BY <1>7, <1>10
<1>12. /\ contratos' \in [Slugs -> [ModulosConhecidos -> {"ausente", "active", "suspended"}]]
       /\ contratos'[s] = g /\ \A z \in Slugs : z # s => contratos'[z] = contratos[z]
  BY <1>6, <1>7, <1>10
<1> QED
  BY <1>3, <1>4, <1>5, <1>6, <1>8, <1>9, <1>11, <1>12

LEMMA ConfirmarMantem ==
    ASSUME ProvisionarBom, NEW o \in Operadores, Confirmar(o)
    PROVE  ProvisionarBom'
<1>1. PICK s \in Slugs, e \in Emails : s = Slug(o) /\ e = Email(o)
  BY ConfirmarEscreve
<1>2. PICK c \in Comando : c = comando[o]
  BY DEF ProvisionarBom, TiposDeProvisionar
<1>3. /\ c.passo = "confirmar" /\ c.args \in Argumentos
      /\ c.args.pedidos \subseteq ModulosConhecidos
      /\ (c.pessoaNova <=> pessoa[e] = Nulo)
      /\ \A f \in Emails : pessoa[f] # o
  BY <1>1, <1>2 DEF Confirmar, ProvisionarBom, ComandosBons, ComandoBom
<1>4. comando \in [Operadores -> Comando]
  BY DEF ProvisionarBom, TiposDeProvisionar
\* The run ends with its answer, or the answer is lost.
<1>5. PICK x \in Comando :
         /\ comando' = [comando EXCEPT ![o] = x]
         /\ \/ x.passo = "fim" /\ x.args = c.args /\ (x.pessoaNova <=> c.pessoaNova)
            \/ x.passo = "encerrado" /\ ~x.pessoaNova
  <2>1. CASE Seguir(o, "fim")
    <3>1. [c EXCEPT !.passo = "fim"] = Run("fim", c.args, c.empresaNova, c.pessoaNova)
      BY ComandoMuda
    <3>2. c.empresaNova \in BOOLEAN /\ c.pessoaNova \in BOOLEAN /\ "fim" \in Passos
      BY ComandoCampos DEF Passos
    <3>3. PICK x : x = Run("fim", c.args, c.empresaNova, c.pessoaNova)
      OBVIOUS
    <3>4. /\ x \in Comando /\ x.passo = "fim" /\ x.args = c.args
          /\ x.pessoaNova = c.pessoaNova
      BY <1>3, <3>2, <3>3, RunTipo
    <3>5. comando' = [comando EXCEPT ![o] = x]
      BY <1>2, <2>1, <3>1, <3>3 DEF Seguir
    <3> QED
      BY <3>4, <3>5
  <2>2. CASE comando' = [comando EXCEPT ![o] = Sem("encerrado")]
    <3>1. PICK x : x = Sem("encerrado")
      OBVIOUS
    <3>2. x \in Comando /\ x.passo = "encerrado" /\ ~x.pessoaNova
      BY <3>1, SemTipo DEF Passos
    <3> QED
      BY <2>2, <3>1, <3>2
  <2> QED
    BY <2>1, <2>2 DEF Confirmar
<1>6. /\ comando' \in [Operadores -> Comando] /\ comando'[o] = x
      /\ \A p \in Operadores : p # o => comando'[p] = comando[p]
  BY <1>4, <1>5
<1>7. TiposDeProvisionar'
  BY <1>6, ConfirmarEscreve DEF TiposDeProvisionar, ProvisionarBom
<1>8. UmSoInsere'
  BY <1>5, <1>6 DEF UmSoInsere, Provisionando, Email, ProvisionarBom, ComandosBons
\* Whose password opens which account, afterwards.
<1>9. /\ pessoa'[e] # Nulo
      /\ pessoa'[e] = o <=> c.pessoaNova
      /\ \A f \in Emails : pessoa[f] # Nulo => pessoa'[f] = pessoa[f]
      /\ \A f \in Emails : pessoa'[f] = pessoa[f] \/ (pessoa'[f] = o /\ f = e /\ c.pessoaNova)
  BY <1>1, <1>3, ConfirmarEscreve, ImplantacaoAssumption
<1>10. ComandoBom(o)' /\ RespostaVale(o)'
  <2>1. ComandoBom(o)'
    BY <1>3, <1>5, <1>6 DEF ComandoBom
  <2>2. ASSUME x.passo = "fim" PROVE RespostaVale(o)'
    <3>1. x.args = c.args /\ (x.pessoaNova <=> c.pessoaNova)
      BY <2>2, <1>5
    <3>2. Slug(o)' = s /\ Email(o)' = e
      BY <1>1, <1>2, <1>6, <3>1 DEF Slug, Email
    <3> QED
      BY <1>1, <1>2, <1>6, <1>9, <3>1, <3>2, ConfirmarEscreve DEF RespostaVale
  <2>3. ASSUME x.passo # "fim" PROVE RespostaVale(o)'
    BY <2>3, <1>6 DEF RespostaVale
  <2> QED
    BY <2>1, <2>2, <2>3
<1>11. ASSUME NEW p \in Operadores, p # o PROVE ComandoBom(p)' /\ RespostaVale(p)'
  <2>1. PICK v \in Comando : v = comando[p] /\ v = comando'[p]
    BY <1>4, <1>6, <1>11
  <2>2. ComandoBom(p) /\ RespostaVale(p)
    BY DEF ProvisionarBom, ComandosBons
  <2>3. ASSUME v.passo \notin {"parado", "encerrado"}
        PROVE  /\ v.args \in Argumentos /\ v.args.pedidos \subseteq ModulosConhecidos
               /\ Slug(p) = v.args.slug /\ Slug(p)' = v.args.slug /\ v.args.slug \in Slugs
               /\ Email(p) = v.args.email /\ Email(p)' = v.args.email /\ v.args.email \in Emails
    <3>1. v.args \in Argumentos /\ v.args.pedidos \subseteq ModulosConhecidos
      BY <2>1, <2>2, <2>3 DEF ComandoBom
    <3> QED
      BY <2>1, <3>1 DEF Argumentos, Slug, Email
  <2>4. ComandoBom(p)'
    <3>1. \A f \in Emails : pessoa'[f] = p => pessoa[f] = p
      BY <1>9, <1>11
    <3>2. ASSUME v.passo \in {"vincular", "confirmar"}
          PROVE  v.pessoaNova <=> pessoa'[v.args.email] = Nulo
      <4>1. v.pessoaNova <=> pessoa[v.args.email] = Nulo
        BY <2>1, <2>2, <2>3, <3>2 DEF ComandoBom
      <4>2. ASSUME v.pessoaNova, c.pessoaNova PROVE v.args.email # e
        BY <1>1, <1>2, <1>3, <1>11, <2>1, <2>3, <3>2, <4>2
           DEF ProvisionarBom, ComandosBons, UmSoInsere, Provisionando
      <4> QED
        BY <1>9, <2>3, <3>2, <4>1, <4>2, ImplantacaoAssumption
    <3> QED
      BY <2>1, <2>2, <2>3, <3>1, <3>2 DEF ComandoBom
  <2>5. ASSUME v.passo = "fim" PROVE RespostaVale(p)'
    <3>1. PICK z \in Slugs, f \in Emails :
             z = Slug(p) /\ z = Slug(p)' /\ f = Email(p) /\ f = Email(p)'
      BY <2>3, <2>5
    <3>2. /\ z \in empresas /\ vinculos[z][f] = "active" /\ <<z, f>> \in dono
          /\ pessoa[f] # Nulo /\ (pessoa[f] = p <=> v.pessoaNova)
          /\ \A u \in resolverModulos(v.args.pedidos) : contratos[z][u] # "ausente"
      BY <2>1, <2>2, <2>5, <3>1 DEF RespostaVale
    <3>3. resolverModulos(v.args.pedidos) \subseteq ModulosConhecidos
      BY <2>3, <2>5, PedidosConhecidos
    <3>4. /\ z \in empresas' /\ vinculos'[z][f] = "active" /\ <<z, f>> \in dono'
          /\ \A u \in resolverModulos(v.args.pedidos) : contratos'[z][u] # "ausente"
      BY <3>2, <3>3, ConfirmarEscreve
    <3>5. pessoa'[f] = pessoa[f]
      BY <1>9, <3>2
    <3> QED
      BY <2>1, <3>1, <3>2, <3>4, <3>5 DEF RespostaVale
  <2>6. ASSUME v.passo # "fim" PROVE RespostaVale(p)'
    BY <2>1, <2>6 DEF RespostaVale
  <2> QED
    BY <2>4, <2>5, <2>6
<1> QED
  BY <1>7, <1>8, <1>10, <1>11 DEF ProvisionarBom, ComandosBons

\* What a command answered is forgotten where the membership it speaks of ends.
LEMMA AfastarMantem ==
    ASSUME ProvisionarBom, NEW s \in Slugs, NEW e \in Emails, Afastar(s, e)
    PROVE  ProvisionarBom'
<1>1. /\ comando \in [Operadores -> Comando]
      /\ vinculos \in [Slugs -> [Emails -> {"ausente", "active", "revoked"}]]
      /\ UNCHANGED <<empresas, pessoa, dono, contratos>>
      /\ vinculos' = [vinculos EXCEPT ![s][e] = "revoked"]
      /\ comando' = Esquecidos(s, e)
  BY DEF Afastar, ProvisionarBom, TiposDeProvisionar
<1>2. /\ vinculos' \in [Slugs -> [Emails -> {"ausente", "active", "revoked"}]]
      /\ \A z \in Slugs, f \in Emails : z # s \/ f # e => vinculos'[z][f] = vinculos[z][f]
  BY <1>1
<1>3. PICK x : x = Sem("encerrado")
  OBVIOUS
<1>4. x \in Comando /\ x.passo = "encerrado" /\ ~x.pessoaNova
  BY <1>3, SemTipo DEF Passos
<1>5. ASSUME NEW o \in Operadores
      PROVE  \/ /\ comando'[o] = x /\ comando[o].passo = "fim"
             \/ /\ comando'[o] = comando[o]
                /\ comando[o].passo = "fim" => Slug(o) # s \/ Email(o) # e
  BY <1>1, <1>3 DEF Esquecidos
<1>6. comando' \in [Operadores -> Comando]
  BY <1>1, <1>3, <1>4 DEF Esquecidos
<1>7. TiposDeProvisionar'
  BY <1>1, <1>2, <1>6 DEF ProvisionarBom, TiposDeProvisionar
<1>8. UmSoInsere'
  <2>1. ASSUME NEW o \in Operadores, Provisionando(o)'
        PROVE  comando'[o] = comando[o]
    BY <1>4, <1>5, <2>1 DEF Provisionando
  <2> QED
    BY <2>1 DEF UmSoInsere, Provisionando, Email, ProvisionarBom, ComandosBons
<1>9. ASSUME NEW o \in Operadores
      PROVE  ComandoBom(o)' /\ RespostaVale(o)'
  <2>1. ComandoBom(o) /\ RespostaVale(o)
    BY DEF ProvisionarBom, ComandosBons
  <2>2. CASE comando'[o] = x /\ comando[o].passo = "fim"
    BY <2>1, <2>2, <1>1, <1>4 DEF ComandoBom, RespostaVale
  <2>3. CASE /\ comando'[o] = comando[o]
             /\ comando[o].passo = "fim" => Slug(o) # s \/ Email(o) # e
    <3>1. ComandoBom(o)'
      BY <2>1, <2>3, <1>1 DEF ComandoBom, Email
    <3>2. ASSUME comando[o].passo = "fim" PROVE RespostaVale(o)'
      <4>1. Slug(o) \in Slugs /\ Email(o) \in Emails
        BY <2>1, <3>2 DEF ComandoBom, Argumentos, Slug, Email
      <4>2. vinculos'[Slug(o)][Email(o)] = vinculos[Slug(o)][Email(o)]
        BY <1>2, <2>3, <3>2, <4>1
      <4>3. Slug(o)' = Slug(o) /\ Email(o)' = Email(o)
        BY <2>3 DEF Slug, Email
      <4> QED
        BY <2>1, <2>3, <3>2, <4>2, <4>3, <1>1 DEF RespostaVale
    <3>3. ASSUME comando[o].passo # "fim" PROVE RespostaVale(o)'
      BY <2>3, <3>3 DEF RespostaVale
    <3> QED
      BY <3>1, <3>2, <3>3
  <2> QED
    BY <1>5, <2>2, <2>3
<1> QED
  BY <1>7, <1>8, <1>9 DEF ProvisionarBom, ComandosBons

LEMMA CancelarModuloMantem ==
    ASSUME ProvisionarBom, NEW s \in Slugs, NEW u \in ModulosConhecidos, CancelarModulo(s, u)
    PROVE  ProvisionarBom'
<1>1. /\ UNCHANGED <<empresas, pessoa, vinculos, dono, comando>>
      /\ contratos \in [Slugs -> [ModulosConhecidos -> {"ausente", "active", "suspended"}]]
      /\ contratos' = [contratos EXCEPT ![s][u] = "suspended"]
  BY DEF CancelarModulo, ProvisionarBom, TiposDeProvisionar
<1>2. /\ contratos' \in [Slugs -> [ModulosConhecidos -> {"ausente", "active", "suspended"}]]
      /\ \A z \in Slugs, v \in ModulosConhecidos :
            contratos[z][v] # "ausente" => contratos'[z][v] # "ausente"
  BY <1>1
<1>3. TiposDeProvisionar'
  BY <1>1, <1>2 DEF ProvisionarBom, TiposDeProvisionar
<1>4. UmSoInsere'
  BY <1>1 DEF UmSoInsere, Provisionando, Email, ProvisionarBom, ComandosBons
<1>5. ASSUME NEW o \in Operadores
      PROVE  ComandoBom(o)' /\ RespostaVale(o)'
  <2>1. ComandoBom(o) /\ RespostaVale(o)
    BY DEF ProvisionarBom, ComandosBons
  <2>2. ComandoBom(o)'
    BY <2>1, <1>1 DEF ComandoBom, Email
  <2>3. ASSUME comando[o].passo = "fim" PROVE RespostaVale(o)'
    <3>1. Slug(o) \in Slugs /\ comando[o].args.pedidos \subseteq ModulosConhecidos
      BY <2>1, <2>3 DEF ComandoBom, Argumentos, Slug
    <3>2. resolverModulos(comando[o].args.pedidos) \subseteq ModulosConhecidos
      BY <3>1, PedidosConhecidos
    <3>3. Slug(o)' = Slug(o) /\ Email(o)' = Email(o)
      BY <1>1 DEF Slug, Email
    <3> QED
      BY <2>1, <2>3, <3>1, <3>2, <3>3, <1>1, <1>2 DEF RespostaVale
  <2>4. ASSUME comando[o].passo # "fim" PROVE RespostaVale(o)'
    BY <2>4, <1>1 DEF RespostaVale
  <2> QED
    BY <2>2, <2>3, <2>4
<1> QED
  BY <1>3, <1>4, <1>5 DEF ProvisionarBom, ComandosBons

-----------------------------------------------------------------------------
(* Implantacao: the theorems.                                              *)

LEMMA PartesDaImplantacao == ImplantacaoInv <=> MigrarBom /\ ProvisionarBom
BY DEF ImplantacaoInv, ImplantacaoTypeOK, MigrarBom, TiposDeMigrar, ProvisionarBom,
       TiposDeProvisionar

LEMMA ImplantacaoInicio == ImplantacaoInit => ImplantacaoInv
<1> SUFFICES ASSUME ImplantacaoInit PROVE MigrarBom /\ ProvisionarBom
  BY PartesDaImplantacao
<1>1. MigrarBom
  <2>1. Linha("parado", 1, <<>>) \in LinhaDeDeploy /\ Linha("parado", 1, <<>>).passo = "parado"
    BY LinhaTipo
  <2>2. \A d \in Deploys : deploy[d].passo = "parado"
    BY <2>1 DEF ImplantacaoInit
  <2>3. IsInjective(<<>>)
    BY DEF IsInjective
  <2>4. TiposDeMigrar
    <3>1. PICK v \in LinhaDeDeploy : v = Linha("parado", 1, <<>>)
      BY <2>1
    <3>2. deploy \in [Deploys -> LinhaDeDeploy]
      BY <3>1 DEF ImplantacaoInit
    <3>3. esquema \in [Arquivos -> Seq(Checksums)] /\ \A m \in Arquivos : IsInjective(esquema[m])
      BY <2>3 DEF ImplantacaoInit
    <3>4. ledger \in [Arquivos -> Checksums \union {Nulo}] /\ sobrepostos \in BOOLEAN
      BY DEF ImplantacaoInit
    <3> QED
      BY <2>2, <3>2, <3>3, <3>4 DEF TiposDeMigrar
  <2>5. EsquemaDaImagem
    BY <2>2 DEF ImplantacaoInit, EsquemaDaImagem
  <2>6. SozinhoBom
    BY <2>2 DEF ImplantacaoInit, SozinhoBom, Migrando
  <2> QED
    BY <2>4, <2>5, <2>6 DEF MigrarBom
<1>2. ProvisionarBom
  <2>1. PICK x : x = Sem("parado")
    OBVIOUS
  <2>2. x \in Comando /\ x.passo = "parado" /\ ~x.pessoaNova
    BY <2>1, SemTipo DEF Passos
  <2>3. \A o \in Operadores : comando[o] = x
    BY <2>1 DEF ImplantacaoInit
  <2>4. TiposDeProvisionar
    BY <2>1, <2>2 DEF ImplantacaoInit, TiposDeProvisionar
  <2>5. UmSoInsere
    BY <2>2, <2>3 DEF UmSoInsere
  <2>6. \A o \in Operadores, e \in Emails : pessoa[e] # o
    BY ImplantacaoAssumption DEF ImplantacaoInit
  <2>7. \A o \in Operadores : ComandoBom(o) /\ RespostaVale(o)
    BY <2>2, <2>3, <2>6 DEF ComandoBom, RespostaVale
  <2> QED
    BY <2>4, <2>5, <2>7 DEF ProvisionarBom, ComandosBons
<1> QED
  BY <1>1, <1>2

LEMMA ImplantacaoPasso == ImplantacaoInv /\ [ImplantacaoNext]_ivars => ImplantacaoInv'
<1> SUFFICES ASSUME MigrarBom, ProvisionarBom, [ImplantacaoNext]_ivars
             PROVE  MigrarBom' /\ ProvisionarBom'
  <2>1. ImplantacaoInv' <=> MigrarBom' /\ ProvisionarBom'
    BY PartesDaImplantacao, PTL
  <2> QED
    BY <2>1, PartesDaImplantacao
\* Each half stays as it is while the other moves.
<1>1. ASSUME UNCHANGED <<ledger, esquema, deploy, sobrepostos>> PROVE MigrarBom'
  BY <1>1 DEF MigrarBom, TiposDeMigrar, EsquemaDaImagem, SozinhoBom, Migrando, Atual
<1>2. ASSUME UNCHANGED <<banco, comando>> PROVE ProvisionarBom'
  BY <1>2 DEF ProvisionarBom, TiposDeProvisionar, ComandosBons, UmSoInsere, ComandoBom,
              RespostaVale, Provisionando, Slug, Email, banco
<1>3. ASSUME NEW d \in Deploys, Comecar(d) \/ LerLedger(d) \/ Aplicar(d) \/ Cair(d)
      PROVE  MigrarBom' /\ ProvisionarBom'
  <2>1. UNCHANGED <<banco, comando>>
    BY <1>3 DEF Comecar, LerLedger, Aplicar, Cair
  <2>2. Cair(d) => MigrarBom'
    BY FalharMantem DEF Cair
  <2> QED
    BY <1>2, <1>3, <2>1, <2>2, ComecarMantem, LerLedgerMantem, AplicarMantem
<1>4. ASSUME NEW o \in Operadores,
             \/ Provisionar(o) \/ ProcurarEmpresa(o) \/ CriarEmpresa(o) \/ ProcurarPessoa(o)
             \/ CriarPessoa(o) \/ Vincular(o) \/ Confirmar(o) \/ Desfazer(o)
      PROVE  MigrarBom' /\ ProvisionarBom'
  <2>1. UNCHANGED <<ledger, esquema, deploy, sobrepostos>>
    BY <1>4 DEF Provisionar, ProcurarEmpresa, CriarEmpresa, ProcurarPessoa, CriarPessoa,
                Vincular, Confirmar, Desfazer
  <2> QED
    BY <1>1, <1>4, <2>1, ProvisionarMantem, ProcurarEmpresaMantem, CriarEmpresaMantem,
       ProcurarPessoaMantem, CriarPessoaMantem, VincularMantem, ConfirmarMantem, DesfazerMantem
<1>5. ASSUME NEW s \in Slugs, NEW e \in Emails, Afastar(s, e)
      PROVE  MigrarBom' /\ ProvisionarBom'
  <2>1. UNCHANGED <<ledger, esquema, deploy, sobrepostos>>
    BY <1>5 DEF Afastar
  <2> QED
    BY <1>1, <1>5, <2>1, AfastarMantem
<1>6. ASSUME NEW s \in Slugs, NEW u \in ModulosConhecidos, CancelarModulo(s, u)
      PROVE  MigrarBom' /\ ProvisionarBom'
  <2>1. UNCHANGED <<ledger, esquema, deploy, sobrepostos>>
    BY <1>6 DEF CancelarModulo
  <2> QED
    BY <1>1, <1>6, <2>1, CancelarModuloMantem
<1>7. CASE UNCHANGED ivars
  BY <1>1, <1>2, <1>7 DEF ivars
<1> QED
  BY <1>3, <1>4, <1>5, <1>6, <1>7 DEF ImplantacaoNext

\* The inductive invariant of the two procedures, the migration of the database
\* and the provisioning of companies, run by anyone, at once or after failures.
THEOREM ImplantacaoInvSempre == ImplantacaoSpec => []ImplantacaoInv
BY ImplantacaoInicio, ImplantacaoPasso, PTL DEF ImplantacaoSpec

\* Ledger, tables, runs of migrate and of provision keep their types
\* (runMigrations, provisionarEmpresa).
THEOREM ImplantacaoTiposSempre == ImplantacaoSpec => []ImplantacaoTypeOK
<1>1. ImplantacaoInv => ImplantacaoTypeOK
  BY DEF ImplantacaoInv
<1> QED
  BY <1>1, ImplantacaoInvSempre, PTL

\* The ledger names what the tables were made from, and a run that ended well
\* left those of its image unless two ran at once (runMigrations).
THEOREM EsquemaSempre == ImplantacaoSpec => []EsquemaDaImagem
<1>1. ImplantacaoInv => EsquemaDaImagem
  BY DEF ImplantacaoInv
<1> QED
  BY <1>1, ImplantacaoInvSempre, PTL

\* Whoever the command answered for can do what it answered, whoever else
\* provisions the same company or the same person (provisionarEmpresa).
THEOREM DonoSempre == ImplantacaoSpec => []DonoEntra
<1>1. ASSUME ImplantacaoInv PROVE DonoEntra
  <2> SUFFICES ASSUME NEW o \in Operadores, comando[o].passo = "fim"
               PROVE  LET s == Slug(o)  e == Email(o) IN
                      /\ s \in empresas /\ vinculos[s][e] = "active" /\ <<s, e>> \in dono
                      /\ pessoa[e] # Nulo
                      /\ (pessoa[e] = o) <=> comando[o].pessoaNova
                      /\ \A u \in resolverModulos(comando[o].args.pedidos) :
                            \/ contratos[s][u] = "suspended"
                            \/ \A chave \in DeId(u).permissoes :
                                  Autoriza(ConcessaoDoDono(s), chave)
    BY DEF DonoEntra
  <2>1. ComandoBom(o) /\ RespostaVale(o) /\ TiposDeProvisionar
    BY <1>1, PartesDaImplantacao DEF ProvisionarBom, ComandosBons
  <2>2. /\ Slug(o) \in Slugs
        /\ resolverModulos(comando[o].args.pedidos) \subseteq ModulosConhecidos
    BY <2>1, PedidosConhecidos DEF ComandoBom, Argumentos, Slug
  <2>3. ASSUME NEW u \in resolverModulos(comando[o].args.pedidos)
        PROVE  contratos[Slug(o)][u] \in {"active", "suspended"}
    <3>1. contratos[Slug(o)][u] # "ausente"
      BY <2>1 DEF RespostaVale
    <3>2. contratos[Slug(o)][u] \in {"ausente", "active", "suspended"}
      BY <2>1, <2>2 DEF TiposDeProvisionar
    <3> QED
      BY <3>1, <3>2
  <2> QED
    BY <2>1, <2>2, <2>3, DonoPode DEF RespostaVale
<1> QED
  BY <1>1, ImplantacaoInvSempre, PTL
=============================================================================
