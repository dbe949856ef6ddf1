---------------------------- MODULE Sessions_proofs ----------------------------
(***************************************************************************)
(* Theorems about the rotation of refresh tokens, for any number of tabs,  *)
(* requests and tokens.  Inv is inductive: a rotation between its two      *)
(* writes has its family for itself (EmissaoSozinha), which is what keeps  *)
(* a second living token from appearing.                                   *)
(***************************************************************************)
EXTENDS Sessions, TLAPS

USE DEF Ids

\* The idle request and the absent row are well typed.
LEMMA TiposIniciais == SemToken \in Linha /\ Livre \in Requisicao
BY SessionsAssumption DEF SessionsAssumption, SemToken, Linha, Livre, Requisicao

\* What the invariant says of one token and one request, in the shape of types.
LEMMA Tipos ==
    ASSUME Inv
    PROVE  /\ \A t \in Ids : token[t] \in Linha
           /\ \A q \in Requisicoes : requisicao[q] \in Requisicao
           /\ criados \in 0..MaxTokens /\ criados \in Nat /\ MaxTokens \in Nat
BY SessionsAssumption DEF SessionsAssumption, Inv, TypeOK

\* The initial state satisfies the invariant.
LEMMA InvNoInicio == Init => Inv
<1>. SUFFICES ASSUME Init PROVE Inv
  OBVIOUS
<1>1. TypeOK
  <2>1. 0 \in 0..MaxTokens
    BY SessionsAssumption DEF SessionsAssumption
  <2>. QED BY <2>1, TiposIniciais DEF Init, TypeOK
<1>2. \A t \in Ids : token[t].estado = "ausente" /\ token[t].substituto = 0
  BY DEF Init, SemToken
<1>3. \A q \in Requisicoes : requisicao[q].passo = "livre" /\ requisicao[q].apresentado = 0
  BY DEF Init, Livre
<1>4. TabelaCoerente
  BY <1>2 DEF Init, TabelaCoerente, Existe
<1>5. CadeiaSimples /\ UmaVivaPorFamilia /\ EncerradaNaoVive
  BY <1>2 DEF CadeiaSimples, UmaVivaPorFamilia, EncerradaNaoVive, Viva
<1>6. EmissaoSozinha
  BY <1>3 DEF EmissaoSozinha, Emitindo
<1>7. Referencias /\ SessaoTranquila
  BY <1>3 DEF Init, Referencias, SessaoTranquila, EmVoo
<1>. QED BY <1>1, <1>4, <1>5, <1>6, <1>7 DEF Inv

-----------------------------------------------------------------------------
(* Steps that leave the table alone.                                       *)

\* A step of request q that writes no token: if q does not start to issue and
\* the references and the quiet session are kept, the invariant holds again.
LEMMA SemEscrita ==
    ASSUME Inv, NEW q \in Requisicoes, NEW r \in Requisicao,
           requisicao' = [requisicao EXCEPT ![q] = r],
           \/ r.passo # "emitir"
           \/ /\ r.passo = requisicao[q].passo /\ r.novo = requisicao[q].novo
              /\ r.apresentado = requisicao[q].apresentado,
           UNCHANGED <<token, criados, encerradas>>,
           cookie' \in Ids \union {0}, perturbada' \in BOOLEAN,
           cookie' # 0 => Existe(cookie'),
           r.apresentado # 0 => Existe(r.apresentado),
           r.passo \in {"achar", "revogar", "emitir", "alarme"} => r.apresentado # 0,
           r.passo = "sessao" => r.novo # 0 /\ Existe(r.novo),
           SessaoTranquila'
    PROVE  Inv'
<1>1. requisicao'[q] = r /\ \A p \in Requisicoes \ {q} : requisicao'[p] = requisicao[p]
  BY DEF Inv, TypeOK
<1>2. TypeOK'
  BY DEF Inv, TypeOK
<1>3. (TabelaCoerente /\ CadeiaSimples /\ UmaVivaPorFamilia /\ EncerradaNaoVive)'
  BY DEF Inv, TabelaCoerente, CadeiaSimples, UmaVivaPorFamilia, EncerradaNaoVive, Viva, Existe,
         SemToken
<1>4. EmissaoSozinha'
  <2>1. \A p \in Requisicoes : Emitindo(p)' =>
           /\ Emitindo(p) /\ FamiliaDe(p)' = FamiliaDe(p)
           /\ requisicao'[p].apresentado = requisicao[p].apresentado
           /\ requisicao'[p].novo = requisicao[p].novo
    BY <1>1 DEF Emitindo, FamiliaDe
  <2>. QED BY <2>1 DEF Inv, EmissaoSozinha, Viva, Existe
<1>5. Referencias'
  BY <1>1 DEF Inv, Referencias, Existe
<1>. QED BY <1>2, <1>3, <1>4, <1>5 DEF Inv

\* A request is sent with the cookie of the moment.
LEMMA EnvioMantem ==
    ASSUME Inv, NEW q \in Requisicoes, NEW a \in Abas,
           NEW passo \in {"entrar", "achar", "sair"}, Enviar(q, a, passo),
           passo = "achar" => cookie # 0,
           passo = "achar" =>
              \A p \in Requisicoes : ~(requisicao[p].aba = a /\ requisicao[p].passo \in Renovando)
    PROVE  Inv'
<1>. DEFINE r == [passo |-> passo, aba |-> a, apresentado |-> cookie, novo |-> 0]
<1>1. r \in Requisicao
  BY DEF Requisicao, Inv, TypeOK
<1>2. requisicao' = [requisicao EXCEPT ![q] = r] /\ ~EmVoo(q)
      /\ UNCHANGED <<token, criados, cookie, encerradas>>
  BY DEF Enviar
<1>3. requisicao'[q] = r /\ \A p \in Requisicoes \ {q} : requisicao'[p] = requisicao[p]
  BY <1>2 DEF Inv, TypeOK
<1>4. perturbada' \in BOOLEAN
  BY DEF Enviar, Inv, TypeOK
<1>5. ~perturbada' => ~perturbada /\ \A p \in Requisicoes : ~EmVoo(p)
  BY DEF Enviar, Renovando
<1>6. SessaoTranquila'
  <2>. SUFFICES ASSUME ~perturbada'
                PROVE  /\ \A p, s \in Requisicoes : EmVoo(p)' /\ EmVoo(s)' => p = s
                       /\ cookie = 0 \/ Viva(cookie)
                       /\ \A p \in Requisicoes :
                             /\ requisicao'[p].passo \notin {"alarme", "sessao"}
                             /\ requisicao'[p].passo \in {"achar", "revogar"} =>
                                   requisicao'[p].apresentado = cookie
    BY <1>2 DEF SessaoTranquila, Viva
  <2>1. \A p \in Requisicoes \ {q} : requisicao'[p].passo = "livre"
    BY <1>3, <1>5 DEF EmVoo
  <2>2. cookie = 0 \/ Viva(cookie)
    BY <1>5 DEF Inv, SessaoTranquila, EmVoo
  <2>. QED BY <1>3, <2>1, <2>2 DEF EmVoo
<1>7. cookie # 0 => Existe(cookie)
  BY DEF Inv, Referencias
<1>. QED BY <1>1, <1>2, <1>4, <1>6, <1>7, SemEscrita DEF Inv, TypeOK

\* A reply arrives.
LEMMA RespostaMantem == ASSUME Inv, NEW q \in Requisicoes, Responder(q) PROVE Inv'
<1>1. requisicao' = [requisicao EXCEPT ![q] = Livre] /\ Livre \in Requisicao
      /\ Livre.passo = "livre" /\ Livre.apresentado = 0
  BY TiposIniciais DEF Responder, Livre
<1>2. requisicao'[q] = Livre /\ \A p \in Requisicoes \ {q} : requisicao'[p] = requisicao[p]
  BY <1>1 DEF Inv, TypeOK
<1>3. /\ cookie' \in Ids \union {0}
      /\ cookie' # 0 => Existe(cookie')
  BY Tipos DEF Responder, Inv, TypeOK, Referencias, Requisicao
<1>4. SessaoTranquila'
  <2>. SUFFICES ASSUME ~perturbada
                PROVE  /\ \A p \in Requisicoes : requisicao'[p].passo = "livre"
                       /\ cookie' = 0 \/ Viva(cookie')
    BY DEF SessaoTranquila, Responder, Viva, EmVoo
  <2>1. \A p \in Requisicoes \ {q} : requisicao[p].passo = "livre"
    BY DEF Inv, SessaoTranquila, EmVoo, Responder
  <2>2. cookie' = 0 \/ Viva(cookie')
    <3>1. CASE requisicao[q].passo = "sessao"
      BY <3>1 DEF Responder, Inv, SessaoTranquila
    <3>2. CASE requisicao[q].passo = "adeus"
      BY <3>2 DEF Responder
    <3>3. CASE requisicao[q].passo = "recusa"
      BY <2>1, <3>3 DEF Responder, Inv, SessaoTranquila
    <3>. QED BY <3>1, <3>2, <3>3 DEF Responder
  <2>. QED BY <1>1, <1>2, <2>1, <2>2
<1>. QED BY <1>1, <1>3, <1>4, SemEscrita DEF Responder, Inv, TypeOK

\* The page that waits for a reply is gone.
LEMMA RecargaMantem == ASSUME Inv, NEW q \in Requisicoes, Recarregar(q) PROVE Inv'
<1>. DEFINE r == [requisicao[q] EXCEPT !.aba = Fora]
<1>1. /\ r \in Requisicao /\ r.passo = requisicao[q].passo /\ r.novo = requisicao[q].novo
      /\ r.apresentado = requisicao[q].apresentado
      /\ requisicao' = [requisicao EXCEPT ![q] = r]
  BY Tipos DEF Requisicao, Recarregar
<1>2. SessaoTranquila'
  BY DEF Recarregar, SessaoTranquila
<1>3. UNCHANGED <<token, criados, cookie, encerradas>> /\ perturbada' \in BOOLEAN
      /\ cookie \in Ids \union {0}
  BY DEF Recarregar, Inv, TypeOK
<1>4. /\ cookie # 0 => Existe(cookie)
      /\ r.apresentado # 0 => Existe(r.apresentado)
      /\ r.passo \in {"achar", "revogar", "emitir", "alarme"} => r.apresentado # 0
      /\ r.passo = "sessao" => r.novo # 0 /\ Existe(r.novo)
  BY <1>1 DEF Inv, Referencias
<1>. HIDE DEF r
<1>. QED BY <1>1, <1>2, <1>3, <1>4, SemEscrita

\* The server, or the network, fails.
LEMMA FalhaMantem == ASSUME Inv, NEW q \in Requisicoes, Falhar(q) PROVE Inv'
<1>1. requisicao' = [requisicao EXCEPT ![q] = Livre] /\ Livre \in Requisicao
      /\ Livre.passo = "livre" /\ Livre.apresentado = 0
  BY TiposIniciais DEF Falhar, Livre
<1>2. SessaoTranquila'
  BY DEF Falhar, SessaoTranquila
<1>3. UNCHANGED <<token, criados, encerradas>> /\ perturbada' \in BOOLEAN
      /\ cookie' \in Ids \union {0} /\ (cookie' # 0 => Existe(cookie'))
  BY DEF Falhar, Inv, TypeOK, Referencias
<1>. QED BY <1>1, <1>2, <1>3, SemEscrita

\* Request q goes on to another step, and nothing else changes.
LEMMA SeguirMantem ==
    ASSUME Inv, NEW q \in Requisicoes, NEW passo \in {"alarme", "recusa", "revogar", "adeus"},
           Seguir(q, passo), UNCHANGED <<token, criados, cookie, encerradas, perturbada>>,
           EmVoo(q),
           passo \in {"alarme", "revogar"} => requisicao[q].apresentado # 0,
           passo \in {"recusa", "revogar"} /\ ~perturbada =>
              requisicao[q].apresentado = cookie /\ (cookie = 0 \/ Viva(cookie)),
           passo = "alarme" => perturbada
    PROVE  Inv'
<1>. DEFINE r == [requisicao[q] EXCEPT !.passo = passo]
<1>1. /\ r \in Requisicao /\ r.passo = passo
      /\ r.apresentado = requisicao[q].apresentado
      /\ requisicao' = [requisicao EXCEPT ![q] = r]
  BY Tipos DEF Requisicao, Seguir
<1>. HIDE DEF r
<1>2. requisicao'[q] = r /\ \A p \in Requisicoes \ {q} : requisicao'[p] = requisicao[p]
  BY <1>1 DEF Inv, TypeOK
<1>3. SessaoTranquila'
  <2>. SUFFICES ASSUME ~perturbada
                PROVE  /\ \A p \in Requisicoes \ {q} : requisicao'[p].passo = "livre"
                       /\ cookie = 0 \/ Viva(cookie) \/ r.passo = "adeus"
                       /\ r.passo \notin {"alarme", "sessao"}
                       /\ r.passo \in {"achar", "revogar"} => r.apresentado = cookie
    BY <1>2 DEF SessaoTranquila, EmVoo, Viva
  <2>1. \A p \in Requisicoes \ {q} : requisicao[p].passo = "livre"
    BY DEF Inv, SessaoTranquila, EmVoo
  <2>. QED BY <1>1, <1>2, <2>1
<1>4. /\ cookie # 0 => Existe(cookie)
      /\ r.apresentado # 0 => Existe(r.apresentado)
      /\ cookie \in Ids \union {0} /\ perturbada \in BOOLEAN
  BY <1>1 DEF Inv, Referencias, TypeOK
<1>. QED BY <1>1, <1>3, <1>4, SemEscrita

\* The token presented is looked up.
LEMMA AchadoMantem == ASSUME Inv, NEW q \in Requisicoes, Achar(q) PROVE Inv'
<1>1. requisicao[q].apresentado # 0 /\ Existe(requisicao[q].apresentado)
  BY DEF Achar, Inv, Referencias
<1>2. EmVoo(q) /\ requisicao[q].apresentado \in Ids
  BY <1>1, Tipos DEF Achar, EmVoo, Requisicao
<1>3. token[requisicao[q].apresentado].estado # "revogado" => Viva(requisicao[q].apresentado)
  BY <1>1, <1>2, Tipos DEF Linha, Existe, Viva
<1>4. ~perturbada => requisicao[q].apresentado = cookie /\ Viva(cookie)
  BY <1>1, <1>2 DEF Achar, Inv, SessaoTranquila, EmVoo
<1>5. UNCHANGED <<token, criados, cookie, encerradas, perturbada>>
  BY DEF Achar
<1>6. CASE Seguir(q, "alarme") /\ token[requisicao[q].apresentado].estado = "revogado"
  <2>1. perturbada
    BY <1>4, <1>6 DEF Viva
  <2>. QED BY <1>1, <1>2, <1>5, <1>6, <2>1, SeguirMantem
<1>7. CASE Seguir(q, "recusa")
  BY <1>1, <1>2, <1>4, <1>5, <1>7, SeguirMantem
<1>8. CASE Seguir(q, "revogar")
  BY <1>1, <1>2, <1>4, <1>5, <1>8, SeguirMantem
<1>. QED BY <1>6, <1>7, <1>8 DEF Achar

-----------------------------------------------------------------------------
(* Steps that write the table.                                             *)

\* Signing in: the first token of a family that nothing refers to yet.
LEMMA PrimeiroMantem == ASSUME Inv, NEW q \in Requisicoes, EmitirPrimeiro(q) PROVE Inv'
<1>. DEFINE n == criados + 1
            l == [SemToken EXCEPT !.estado = "vivo", !.familia = n]
            r == [requisicao[q] EXCEPT !.passo = "sessao", !.novo = n]
<1>1. n \in Ids /\ n > criados /\ criados' = n
  BY Tipos DEF EmitirPrimeiro
<1>2. l \in Linha /\ l.estado = "vivo" /\ l.familia = n /\ l.substituto = 0
  BY <1>1, TiposIniciais DEF Linha, SemToken
<1>3. r \in Requisicao /\ r.passo = "sessao" /\ r.novo = n
      /\ r.apresentado = requisicao[q].apresentado
  BY <1>1, Tipos DEF Requisicao
<1>4. /\ token' = [token EXCEPT ![n] = l] /\ requisicao' = [requisicao EXCEPT ![q] = r]
      /\ requisicao[q].passo = "entrar"
      /\ UNCHANGED <<cookie, encerradas, perturbada>>
  BY <1>1 DEF EmitirPrimeiro
<1>. HIDE DEF l, r
<1>5. token'[n] = l /\ \A t \in Ids \ {n} : token'[t] = token[t]
  BY <1>1, <1>4 DEF Inv, TypeOK
<1>6. requisicao'[q] = r /\ \A p \in Requisicoes \ {q} : requisicao'[p] = requisicao[p]
  BY <1>4 DEF Inv, TypeOK
<1>7. ~Existe(n)
  BY <1>1 DEF Inv, TypeOK, Existe, SemToken
<1>8. TypeOK'
  BY <1>1, <1>2, <1>3, <1>4, <1>5 DEF Inv, TypeOK
<1>9. TabelaCoerente'
  BY <1>1, <1>2, <1>4, <1>5, Tipos DEF Inv, TabelaCoerente, Existe
<1>10. CadeiaSimples'
  <2>1. \A t \in Ids : token'[t].substituto # 0 => t # n
    BY <1>2, <1>5
  <2>2. \A u \in Ids : token[u].estado = "revogado" => u # n
    BY <1>7 DEF Existe
  <2>. QED BY <1>2, <1>5, <2>1, <2>2 DEF Inv, CadeiaSimples
<1>11. \A t \in Ids \ {n} : Existe(t) => token[t].familia # n
  BY <1>1, Tipos DEF Inv, TabelaCoerente
<1>12. UmaVivaPorFamilia' /\ EncerradaNaoVive'
  BY <1>1, <1>2, <1>4, <1>5, <1>11, Tipos
     DEF Inv, UmaVivaPorFamilia, EncerradaNaoVive, TabelaCoerente, Viva, Existe
<1>13. \A p \in Requisicoes : requisicao[p].apresentado # 0 => Existe(requisicao[p].apresentado)
                                /\ requisicao[p].apresentado \in Ids \ {n}
  BY <1>7, Tipos DEF Inv, Referencias, Requisicao
<1>14. EmissaoSozinha'
  <2>1. \A p \in Requisicoes : Emitindo(p)' =>
           /\ Emitindo(p) /\ p # q /\ requisicao'[p] = requisicao[p]
           /\ requisicao[p].apresentado \in Ids \ {n} /\ Existe(requisicao[p].apresentado)
           /\ FamiliaDe(p)' = FamiliaDe(p) /\ FamiliaDe(p) # n
    BY <1>3, <1>5, <1>6, <1>11, <1>13 DEF Emitindo, FamiliaDe, Inv, EmissaoSozinha
  <2>2. \A p \in Requisicoes : Emitindo(p) => requisicao[p].novo # n
    BY <1>1, Tipos DEF Inv, EmissaoSozinha, TabelaCoerente, Referencias, Requisicao
  <2>. QED BY <1>2, <1>4, <1>5, <2>1, <2>2, Tipos
           DEF Inv, EmissaoSozinha, Viva, Existe, Requisicao
<1>15. Referencias'
  <2>1. \A t \in Ids : Existe(t) => Existe(t)'
    BY <1>2, <1>5 DEF Existe
  <2>2. cookie # 0 => Existe(cookie)'
    BY <1>4, <2>1 DEF Inv, TypeOK, Referencias
  <2>3. token'[n].estado # "ausente" /\ n # 0
    BY <1>1, <1>2, <1>5
  <2>. QED BY <1>1, <1>3, <1>4, <1>6, <2>1, <2>2, <2>3, Tipos
           DEF Inv, Referencias, Requisicao, Existe
<1>16. SessaoTranquila'
  BY <1>1, <1>2, <1>3, <1>4, <1>5, <1>6 DEF Inv, SessaoTranquila, EmVoo, Viva
<1>. QED BY <1>8, <1>9, <1>10, <1>12, <1>14, <1>15, <1>16 DEF Inv

\* The substitute of a rotation is inserted.
LEMMA EmissaoMantem == ASSUME Inv, NEW q \in Requisicoes, Emitir(q) PROVE Inv'
<1>. DEFINE n == requisicao[q].novo
            a == requisicao[q].apresentado
            f == FamiliaDe(q)
            l == [SemToken EXCEPT !.estado = "vivo", !.familia = f]
            r == [requisicao[q] EXCEPT !.passo = "sessao"]
<1>1. /\ n \in Ids /\ a \in Ids /\ a # n /\ Emitindo(q)
      /\ token[a].estado = "revogado" /\ token[a].substituto = n /\ ~Existe(n)
      /\ f \in 1..criados /\ f \notin encerradas /\ n <= criados
      /\ \A u \in Ids : Viva(u) => token[u].familia # f
  <2>1. Emitindo(q)
    BY DEF Emitir, Emitindo
  <2>2. n \in Ids /\ a \in Ids
    BY <2>1, Tipos DEF Inv, EmissaoSozinha, Requisicao
  <2>. QED BY <2>1, <2>2, Tipos DEF Inv, EmissaoSozinha, TabelaCoerente, Existe, FamiliaDe
<1>2. l \in Linha /\ l.estado = "vivo" /\ l.familia = f /\ l.substituto = 0
  <2>1. f \in Ids
    BY <1>1, Tipos
  <2>. HIDE DEF f
  <2>. QED BY <2>1, TiposIniciais DEF Linha, SemToken
<1>3. r \in Requisicao /\ r.passo = "sessao" /\ r.novo = n /\ r.apresentado = a
  BY Tipos DEF Requisicao
<1>4. /\ token' = [token EXCEPT ![n] = l] /\ requisicao' = [requisicao EXCEPT ![q] = r]
      /\ UNCHANGED <<criados, cookie, encerradas, perturbada>>
  BY DEF Emitir, Seguir, FamiliaDe
<1>. HIDE DEF l, r
<1>5. token'[n] = l /\ \A t \in Ids \ {n} : token'[t] = token[t]
  BY <1>1, <1>4 DEF Inv, TypeOK
<1>6. requisicao'[q] = r /\ \A p \in Requisicoes \ {q} : requisicao'[p] = requisicao[p]
  BY <1>4 DEF Inv, TypeOK
<1>. HIDE DEF n, a, f
<1>7. TypeOK'
  <2>1. \A t \in Ids : t > criados => t # n
    BY <1>1, Tipos
  <2>. QED BY <1>1, <1>2, <1>3, <1>4, <1>5, <2>1 DEF Inv, TypeOK
<1>8. TabelaCoerente'
  BY <1>1, <1>2, <1>4, <1>5, Tipos DEF Inv, TabelaCoerente, Existe
<1>9. CadeiaSimples'
  <2>1. \A t \in Ids : token'[t].substituto # 0 => t # n
    BY <1>2, <1>5
  <2>2. \A u \in Ids : token[u].estado = "revogado" => u # n
    BY <1>1 DEF Existe
  <2>3. token'[a].substituto = n /\ token'[a].estado = "revogado" /\ token'[a].familia = l.familia
    BY <1>1, <1>2, <1>5 DEF a, f, FamiliaDe
  <2>. QED BY <1>1, <1>2, <1>5, <2>1, <2>2, <2>3 DEF Inv, CadeiaSimples
<1>10. UmaVivaPorFamilia' /\ EncerradaNaoVive'
  BY <1>1, <1>2, <1>4, <1>5 DEF Inv, UmaVivaPorFamilia, EncerradaNaoVive, Viva
<1>11. EmissaoSozinha'
  <2>1. \A p \in Requisicoes : Emitindo(p)' =>
           /\ Emitindo(p) /\ p # q /\ requisicao'[p] = requisicao[p]
           /\ requisicao[p].apresentado \in Ids \ {n}
           /\ FamiliaDe(p)' = FamiliaDe(p) /\ FamiliaDe(p) # f
    <3>1. SUFFICES ASSUME NEW p \in Requisicoes, Emitindo(p)'
                   PROVE  /\ Emitindo(p) /\ p # q /\ requisicao'[p] = requisicao[p]
                          /\ requisicao[p].apresentado \in Ids \ {n}
                          /\ FamiliaDe(p)' = FamiliaDe(p) /\ FamiliaDe(p) # f
      OBVIOUS
    <3>2. p # q /\ requisicao'[p] = requisicao[p] /\ Emitindo(p)
      BY <1>3, <1>6, <3>1 DEF Emitindo
    <3>3. requisicao[p].apresentado \in Ids \ {n}
      BY <1>1, <3>2, Tipos DEF Inv, EmissaoSozinha, Existe, Requisicao
    <3>4. FamiliaDe(p) # f
      BY <1>1, <3>2 DEF Inv, EmissaoSozinha, f
    <3>. QED BY <1>5, <3>2, <3>3, <3>4 DEF FamiliaDe
  <2>2. \A p \in Requisicoes : Emitindo(p) /\ p # q => requisicao[p].novo # n
    <3>1. SUFFICES ASSUME NEW p \in Requisicoes, Emitindo(p), p # q
                   PROVE  requisicao[p].novo # n
      OBVIOUS
    <3>2. requisicao[p].apresentado # a
      BY <1>1, <3>1 DEF Inv, EmissaoSozinha, FamiliaDe, a
    <3>3. /\ requisicao[p].apresentado \in Ids
          /\ token[requisicao[p].apresentado].substituto = requisicao[p].novo
          /\ requisicao[p].novo # 0
      BY <3>1, Tipos DEF Inv, EmissaoSozinha, Requisicao
    <3>. QED BY <1>1, <3>2, <3>3 DEF Inv, CadeiaSimples
  <2>3. \A p \in Requisicoes : Emitindo(p) => requisicao[p].novo \in Ids
    BY Tipos DEF Inv, EmissaoSozinha, Requisicao
  <2>. QED BY <1>2, <1>4, <1>5, <2>1, <2>2, <2>3 DEF Inv, EmissaoSozinha, Viva, Existe
<1>12. Referencias'
  <2>1. \A t \in Ids : Existe(t) => Existe(t)'
    BY <1>2, <1>5 DEF Existe
  <2>2. cookie # 0 => Existe(cookie)'
    BY <1>4, <2>1 DEF Inv, TypeOK, Referencias
  <2>3. token'[n].estado # "ausente" /\ n # 0 /\ token'[a].estado # "ausente"
    BY <1>1, <1>2, <1>5
  <2>. QED BY <1>3, <1>4, <1>6, <2>1, <2>2, <2>3, Tipos
           DEF Inv, Referencias, Requisicao, Existe
<1>13. SessaoTranquila'
  BY <1>1, <1>2, <1>3, <1>4, <1>5, <1>6 DEF Inv, SessaoTranquila, EmVoo, Viva, Emitindo
<1>. QED BY <1>7, <1>8, <1>9, <1>10, <1>11, <1>12, <1>13 DEF Inv

\* The token presented is consumed: its family is now the rotation's.
LEMMA RevogacaoMantem ==
    ASSUME Inv, NEW q \in Requisicoes, Revogar(q), Viva(requisicao[q].apresentado)
    PROVE  Inv'
<1>. DEFINE n == criados + 1
            a == requisicao[q].apresentado
            l == [token[a] EXCEPT !.estado = "revogado", !.substituto = n]
            r == [requisicao[q] EXCEPT !.passo = "emitir", !.novo = n]
<1>1. a \in Ids /\ token[a].estado = "vivo" /\ requisicao[q].passo = "revogar"
  BY Tipos DEF Revogar, Inv, Referencias, Requisicao, Viva
<1>2. n \in Ids /\ n > criados /\ criados' = n
  BY Tipos DEF Revogar
<1>3. /\ token' = [token EXCEPT ![a] = l] /\ requisicao' = [requisicao EXCEPT ![q] = r]
      /\ UNCHANGED <<cookie, encerradas, perturbada>>
  BY <1>2 DEF Revogar
<1>4. a # n /\ ~Existe(n)
  BY <1>1, <1>2, Tipos DEF Inv, TypeOK, Existe, SemToken
<1>5. /\ l \in Linha /\ l.estado = "revogado" /\ l.substituto = n
      /\ l.familia = token[a].familia /\ token[a].substituto = 0
      /\ token[a].familia \in 1..criados
  BY <1>1, <1>2, Tipos DEF Inv, TabelaCoerente, Existe, Linha
<1>6. r \in Requisicao /\ r.passo = "emitir" /\ r.novo = n /\ r.apresentado = a
  BY <1>2, Tipos DEF Requisicao
<1>. HIDE DEF l, r
<1>7. token'[a] = l /\ \A t \in Ids \ {a} : token'[t] = token[t]
  BY <1>1, <1>3 DEF Inv, TypeOK
<1>8. requisicao'[q] = r /\ \A p \in Requisicoes \ {q} : requisicao'[p] = requisicao[p]
  BY <1>3 DEF Inv, TypeOK
<1>. HIDE DEF n, a
<1>9. TypeOK'
  <2>1. \A t \in Ids : t > n => t # a /\ t > criados
    BY <1>1, <1>2, Tipos DEF Inv, TypeOK, SemToken
  <2>2. n \in 0..MaxTokens
    BY <1>2, Tipos
  <2>. QED BY <1>1, <1>2, <1>3, <1>5, <1>6, <1>7, <2>1, <2>2 DEF Inv, TypeOK
<1>10. TabelaCoerente'
  BY <1>1, <1>2, <1>3, <1>5, <1>7, Tipos DEF Inv, TabelaCoerente, Existe
<1>11. CadeiaSimples'
  <2>1. \A t \in Ids : token[t].substituto # n
    BY <1>2, Tipos DEF Inv, TabelaCoerente
  <2>2. \A u \in Ids : token[u].estado = "revogado" => u # a
    BY <1>1
  <2>. QED BY <1>1, <1>5, <1>7, <2>1, <2>2 DEF Inv, CadeiaSimples
<1>12. UmaVivaPorFamilia' /\ EncerradaNaoVive'
  BY <1>1, <1>3, <1>5, <1>7 DEF Inv, UmaVivaPorFamilia, EncerradaNaoVive, Viva
<1>13. \A p \in Requisicoes : Emitindo(p) =>
          requisicao[p].apresentado \in Ids \ {a} /\ FamiliaDe(p) # token[a].familia
  BY <1>1, Tipos DEF Inv, EmissaoSozinha, Viva, Requisicao
<1>14. EmissaoSozinha'
  <2>1. FamiliaDe(q)' = token[a].familia
    BY <1>5, <1>6, <1>7, <1>8 DEF FamiliaDe
  <2>2. \A p \in Requisicoes \ {q} : Emitindo(p)' =>
           /\ Emitindo(p) /\ requisicao'[p] = requisicao[p]
           /\ requisicao[p].apresentado \in Ids \ {a}
           /\ FamiliaDe(p)' = FamiliaDe(p) /\ FamiliaDe(p) # token[a].familia
    BY <1>7, <1>8, <1>13 DEF Emitindo, FamiliaDe
  <2>3. \A u \in Ids : Viva(u)' => Viva(u) /\ token'[u].familia # token[a].familia
    BY <1>1, <1>5, <1>7 DEF Inv, UmaVivaPorFamilia, Viva
  <2>4. token[a].familia \notin encerradas
    BY <1>1 DEF Inv, EncerradaNaoVive, Viva
  <2>5. ASSUME NEW p \in Requisicoes \ {q}, Emitindo(p)'
        PROVE  /\ requisicao'[p] = requisicao[p]
               /\ requisicao[p].apresentado # 0 /\ requisicao[p].novo # 0
               /\ token'[requisicao[p].apresentado].estado = "revogado"
               /\ token'[requisicao[p].apresentado].substituto = requisicao[p].novo
               /\ token'[requisicao[p].novo].estado = "ausente"
               /\ \A u \in Ids : Viva(u)' => token'[u].familia # FamiliaDe(p)'
               /\ FamiliaDe(p)' \notin encerradas'
               /\ \A s \in Requisicoes : Emitindo(s)' /\ s # p =>
                     FamiliaDe(s)' # FamiliaDe(p)'
    <3>1. /\ token'[requisicao[p].apresentado] = token[requisicao[p].apresentado]
          /\ requisicao[p].novo \in Ids
      BY <1>7, <2>2, <2>5, Tipos DEF Inv, EmissaoSozinha, Requisicao
    <3>2. token'[requisicao[p].novo].estado = "ausente"
      BY <1>1, <1>7, <2>2, <2>5, <3>1 DEF Inv, EmissaoSozinha, Existe
    <3>3. \A u \in Ids : Viva(u)' => token'[u].familia = token[u].familia
      BY <1>5, <1>7
    <3>4. \A s \in Requisicoes : Emitindo(s)' /\ s # p => FamiliaDe(s)' # FamiliaDe(p)'
      BY <2>1, <2>2, <2>5 DEF Inv, EmissaoSozinha
    <3>5. /\ requisicao[p].apresentado # 0 /\ requisicao[p].novo # 0
          /\ token'[requisicao[p].apresentado].estado = "revogado"
          /\ token'[requisicao[p].apresentado].substituto = requisicao[p].novo
      BY <2>2, <2>5, <3>1 DEF Inv, EmissaoSozinha
    <3>6. \A u \in Ids : Viva(u)' => token'[u].familia # FamiliaDe(p)'
      BY <2>2, <2>3, <2>5, <3>3 DEF Inv, EmissaoSozinha
    <3>7. FamiliaDe(p)' \notin encerradas'
      BY <1>3, <2>2, <2>5 DEF Inv, EmissaoSozinha
    <3>8. requisicao'[p] = requisicao[p]
      BY <2>2, <2>5
    <3>. QED BY <3>2, <3>4, <3>5, <3>6, <3>7, <3>8
  <2>6. /\ a # 0 /\ n # 0 /\ token'[a].estado = "revogado" /\ token'[a].substituto = n
        /\ token'[n].estado = "ausente"
    BY <1>1, <1>2, <1>4, <1>5, <1>7 DEF Existe
  <2>7. \A s \in Requisicoes : Emitindo(s)' /\ s # q => FamiliaDe(s)' # FamiliaDe(q)'
    BY <2>1, <2>2
  <2>8. requisicao'[q].apresentado = a /\ requisicao'[q].novo = n
    BY <1>6, <1>8
  <2>. QED BY <1>3, <2>1, <2>3, <2>4, <2>5, <2>6, <2>7, <2>8 DEF EmissaoSozinha, Existe
<1>15. Referencias'
  <2>1. \A t \in Ids : Existe(t) => Existe(t)'
    BY <1>5, <1>7 DEF Existe
  <2>2. cookie # 0 => Existe(cookie)'
    BY <1>3, <2>1 DEF Inv, TypeOK, Referencias
  <2>3. a # 0 /\ token'[a].estado # "ausente"
    BY <1>1, <1>5, <1>7
  <2>. QED BY <1>3, <1>6, <1>8, <2>1, <2>2, <2>3, Tipos
           DEF Inv, Referencias, Requisicao, Existe
<1>16. SessaoTranquila'
  BY <1>1, <1>3, <1>5, <1>6, <1>7, <1>8 DEF Inv, SessaoTranquila, EmVoo, Viva
<1>. QED BY <1>9, <1>10, <1>11, <1>12, <1>14, <1>15, <1>16 DEF Inv

\* Every session of the user is ended, by the alarm or by signing out.
LEMMA RevogarTudoMantem ==
    ASSUME Inv, NEW q \in Requisicoes, NEW passo, NEW antes,
           <<antes, passo>> \in {<<"alarme", "recusa">>, <<"sair", "adeus">>},
           requisicao[q].passo = antes,
           RevogarTudo, encerradas' = encerradas \union Encerraveis, Seguir(q, passo),
           UNCHANGED <<criados, cookie, perturbada>>
    PROVE  Inv'
<1>. DEFINE r == [requisicao[q] EXCEPT !.passo = passo]
<1>1. /\ r \in Requisicao /\ r.passo = passo /\ passo \in {"recusa", "adeus"}
      /\ antes \in {"alarme", "sair"} /\ (antes = "alarme" <=> passo = "recusa")
      /\ r.apresentado = requisicao[q].apresentado
      /\ requisicao' = [requisicao EXCEPT ![q] = r]
  BY Tipos DEF Requisicao, Seguir
<1>. HIDE DEF r
<1>2. requisicao'[q] = r /\ \A p \in Requisicoes \ {q} : requisicao'[p] = requisicao[p]
  BY <1>1 DEF Inv, TypeOK
<1>3. ASSUME NEW t \in Ids
      PROVE  /\ token'[t] \in Linha
             /\ token[t].estado = "vivo" => token'[t].estado = "revogado"
             /\ token[t].estado # "vivo" => token'[t].estado = token[t].estado
             /\ token'[t].familia = token[t].familia
             /\ token'[t].substituto = token[t].substituto
             /\ token[t].estado = "ausente" => token'[t] = token[t]
  <2>1. token[t] \in Linha
    BY Tipos
  <2>2. token'[t] = [token[t] EXCEPT !.estado =
                       IF token[t].estado = "vivo" THEN "revogado" ELSE token[t].estado]
    BY DEF RevogarTudo
  <2>. QED BY <2>1, <2>2 DEF Linha
<1>4. \A t \in Ids : token[t].estado = "ausente" => token'[t] = token[t]
  BY <1>3
<1>5. \A t \in Ids : ~Viva(t)' /\ (Existe(t)' <=> Existe(t))
  BY <1>3 DEF Viva, Existe
<1>6. Encerraveis \subseteq 1..criados
  <2>1. \A t \in Ids : token[t].familia # 0 => token[t].familia \in 1..criados
    BY DEF Inv, TabelaCoerente, SemToken
  <2>. QED BY <2>1 DEF Encerraveis
<1>7. encerradas' \subseteq 1..criados
  BY <1>6 DEF Inv, TabelaCoerente
<1>8. TypeOK'
  <2>1. token' \in [Ids -> Linha]
    BY <1>3 DEF RevogarTudo
  <2>2. encerradas' \subseteq Ids
    BY <1>7, Tipos
  <2>3. \A t \in Ids : t > criados => token'[t] = SemToken
    <3>1. \A t \in Ids : t > criados => token[t] = SemToken /\ token[t].estado = "ausente"
      BY DEF Inv, TypeOK, SemToken
    <3>. QED BY <1>4, <3>1
  <2>. QED BY <1>1, <2>1, <2>2, <2>3 DEF Inv, TypeOK
<1>9. TabelaCoerente'
  BY <1>3, <1>4, <1>5, <1>7 DEF Inv, TabelaCoerente, Existe
<1>10. CadeiaSimples' /\ UmaVivaPorFamilia' /\ EncerradaNaoVive'
  BY <1>3, <1>5 DEF Inv, CadeiaSimples, UmaVivaPorFamilia, EncerradaNaoVive
<1>11. EmissaoSozinha'
  <2>1. \A p \in Requisicoes : Emitindo(p)' =>
           /\ Emitindo(p) /\ requisicao'[p] = requisicao[p]
           /\ requisicao[p].apresentado \in Ids /\ requisicao[p].novo \in Ids
           /\ FamiliaDe(p)' = FamiliaDe(p)
    <3>1. \A p \in Requisicoes : Emitindo(p)' => Emitindo(p) /\ requisicao'[p] = requisicao[p]
      BY <1>1, <1>2 DEF Emitindo
    <3>2. \A p \in Requisicoes : Emitindo(p) =>
             requisicao[p].apresentado \in Ids /\ requisicao[p].novo \in Ids
      BY Tipos DEF Inv, EmissaoSozinha, Requisicao
    <3>. QED BY <1>3, <3>1, <3>2 DEF FamiliaDe
  <2>2. \A p \in Requisicoes : Emitindo(p) => FamiliaDe(p) \notin Encerraveis
    BY DEF Encerraveis, Emitindo, FamiliaDe
  <2>. QED BY <1>3, <1>5, <2>1, <2>2 DEF Inv, EmissaoSozinha
<1>12. Referencias'
  <2>1. cookie # 0 => Existe(cookie)'
    BY <1>5 DEF Inv, TypeOK, Referencias
  <2>2. ASSUME NEW p \in Requisicoes
        PROVE  /\ requisicao[p].apresentado # 0 =>
                     token'[requisicao[p].apresentado].estado # "ausente"
               /\ requisicao[p].passo = "sessao" => token'[requisicao[p].novo].estado # "ausente"
    BY <1>5, Tipos DEF Inv, Referencias, Requisicao, Existe
  <2>. QED BY <1>1, <1>2, <2>1, <2>2 DEF Inv, Referencias, Existe
<1>13. SessaoTranquila'
  BY <1>1, <1>2 DEF Inv, SessaoTranquila, EmVoo
<1>. QED BY <1>8, <1>9, <1>10, <1>11, <1>12, <1>13 DEF Inv

\* A token expires.
LEMMA VencimentoMantem == ASSUME Inv, NEW t \in Ids, Vencer(t) PROVE Inv'
<1>. DEFINE l == [token[t] EXCEPT !.vencido = TRUE]
<1>1. token' = [token EXCEPT ![t] = l] /\ token[t].estado = "vivo"
      /\ UNCHANGED <<criados, requisicao, cookie, encerradas, perturbada>>
  BY DEF Vencer, Viva
<1>2. l \in Linha /\ l.estado = "vivo" /\ l.familia = token[t].familia
      /\ l.substituto = token[t].substituto
  BY <1>1, Tipos DEF Linha
<1>. HIDE DEF l
<1>3. token'[t] = l /\ \A u \in Ids \ {t} : token'[u] = token[u]
  BY <1>1 DEF Inv, TypeOK
<1>4. ASSUME NEW u \in Ids
      PROVE  /\ token'[u].estado = token[u].estado
             /\ token'[u].familia = token[u].familia
             /\ token'[u].substituto = token[u].substituto
             /\ token[u].estado = "ausente" => token'[u] = token[u]
  BY <1>1, <1>2, <1>3
<1>5. TypeOK'
  <2>1. t <= criados
    BY <1>1, Tipos DEF Inv, TypeOK, SemToken
  <2>. QED BY <1>1, <1>2, <1>3, <2>1, Tipos DEF Inv, TypeOK
<1>6. TabelaCoerente'
  BY <1>1, <1>4 DEF Inv, TabelaCoerente, Existe
<1>7. CadeiaSimples' /\ UmaVivaPorFamilia' /\ EncerradaNaoVive'
  BY <1>1, <1>4 DEF Inv, CadeiaSimples, UmaVivaPorFamilia, EncerradaNaoVive, Viva
<1>8. \A q \in Requisicoes :
         /\ requisicao[q].apresentado # 0 => requisicao[q].apresentado \in Ids
         /\ requisicao[q].novo # 0 => requisicao[q].novo \in Ids
  BY Tipos DEF Requisicao
<1>9. EmissaoSozinha'
  <2>1. \A q \in Requisicoes : Emitindo(q) => FamiliaDe(q)' = FamiliaDe(q)
    BY <1>1, <1>4, <1>8 DEF FamiliaDe, Inv, EmissaoSozinha
  <2>. QED BY <1>1, <1>4, <1>8, <2>1 DEF Inv, EmissaoSozinha, Viva, Existe, Emitindo
<1>10. Referencias'
  BY <1>1, <1>4, <1>8 DEF Inv, Referencias, Existe, TypeOK
<1>11. SessaoTranquila'
  <2>1. Viva(cookie) /\ cookie \in Ids => Viva(cookie)'
    BY <1>1, <1>4 DEF Viva
  <2>. QED BY <1>1, <1>4, <1>8, <2>1 DEF Inv, SessaoTranquila, EmVoo, Viva, TypeOK, Referencias
<1>. QED BY <1>5, <1>6, <1>7, <1>9, <1>10, <1>11 DEF Inv

-----------------------------------------------------------------------------
(* The theorems.                                                           *)

\* Every action keeps the invariant.
LEMMA InvPasso == Inv /\ [Next]_vars => Inv'
<1>. SUFFICES ASSUME Inv, [Next]_vars PROVE Inv'
  OBVIOUS
<1>1. ASSUME NEW q \in Requisicoes, NEW a \in Abas, Entrar(q, a) PROVE Inv'
  BY <1>1, EnvioMantem DEF Entrar
<1>2. ASSUME NEW q \in Requisicoes, NEW a \in Abas, Renovar(q, a) PROVE Inv'
  BY <1>2, EnvioMantem DEF Renovar
<1>3. ASSUME NEW q \in Requisicoes, NEW a \in Abas, Sair(q, a) PROVE Inv'
  BY <1>3, EnvioMantem DEF Sair
<1>4. ASSUME NEW q \in Requisicoes, Revogar(q) PROVE Inv'
  <2>1. CASE Viva(requisicao[q].apresentado)
    BY <1>4, <2>1, RevogacaoMantem
  <2>2. CASE ~Viva(requisicao[q].apresentado)
    <3>1. /\ Seguir(q, "alarme") /\ EmVoo(q) /\ requisicao[q].apresentado # 0
          /\ UNCHANGED <<token, criados, cookie, encerradas, perturbada>>
      BY <1>4, <2>2 DEF Revogar, EmVoo, Inv, Referencias
    <3>2. perturbada
      BY <1>4, <2>2, <3>1 DEF Revogar, EmVoo, Inv, SessaoTranquila
    <3>. QED BY <3>1, <3>2, SeguirMantem
  <2>. QED BY <2>1, <2>2
<1>5. ASSUME NEW q \in Requisicoes, Alarmar(q) PROVE Inv'
  BY <1>5, RevogarTudoMantem DEF Alarmar
<1>6. ASSUME NEW q \in Requisicoes, Encerrar(q) PROVE Inv'
  <2>1. CASE requisicao[q].apresentado = 0
    <3>1. /\ Seguir(q, "adeus") /\ EmVoo(q)
          /\ UNCHANGED <<token, criados, cookie, encerradas, perturbada>>
      BY <1>6, <2>1 DEF Encerrar, EmVoo
    <3>. QED BY <3>1, SeguirMantem
  <2>2. CASE requisicao[q].apresentado # 0
    BY <1>6, <2>2, RevogarTudoMantem DEF Encerrar
  <2>. QED BY <2>1, <2>2
<1>7. ASSUME UNCHANGED vars PROVE Inv'
  BY <1>7 DEF vars, Inv, TypeOK, TabelaCoerente, CadeiaSimples, UmaVivaPorFamilia,
              EncerradaNaoVive, EmissaoSozinha, Referencias, SessaoTranquila, Viva, Existe,
              Emitindo, FamiliaDe, EmVoo
<1>. QED BY <1>1, <1>2, <1>3, <1>4, <1>5, <1>6, <1>7, PrimeiroMantem, AchadoMantem,
            EmissaoMantem, RespostaMantem, RecargaMantem, FalhaMantem, VencimentoMantem
         DEF Next

\* The inductive invariant of tokens, requests and cookie holds at every step of
\* the rotation and of the browser.
THEOREM InvSempre == Spec => []Inv
BY InvNoInicio, InvPasso, PTL DEF Spec

\* Rows and requests keep their types, for any number of tabs and requests.
THEOREM TiposSempre == Spec => []TypeOK
BY InvSempre, PTL DEF Inv

\* A rotation never leaves two valid tokens, however many requests present the
\* same one and wherever they fail (RefreshTokenUseCase.rotate).
THEOREM UmaVivaSempre == Spec => []UmaVivaPorFamilia
BY InvSempre, PTL DEF Inv

\* replaced_by_id tells the story of a family without forks.
THEOREM CadeiaSempre == Spec => []CadeiaSimples
BY InvSempre, PTL DEF Inv

\* A session that was ended while no rotation of it was half done stays ended
\* (revokeSession, revokeAllOfUser).
THEOREM EncerradaSempre == Spec => []EncerradaNaoVive
BY InvSempre, PTL DEF Inv

\* The invariant gives the promise of the single flight.
LEMMA TranquilaVale == Inv => CookieVale
BY DEF Inv, SessaoTranquila, CookieVale, EmVoo

\* With no reply lost and no two requests at once, the single flight is enough
\* for the cookie to stay valid (RenovadorDeSessao.renovar).
THEOREM CookieSempre == Spec => []CookieVale
BY InvSempre, TranquilaVale, PTL
=============================================================================
