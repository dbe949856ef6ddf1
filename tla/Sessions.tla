------------------------------- MODULE Sessions -------------------------------
(***************************************************************************)
(* The session of one user in one browser: the cookie that holds the       *)
(* refresh token, the tabs that renew and end the session through it       *)
(* (packages/api-client), and the rotation of refresh tokens on the server *)
(* (modules/identity behind modules/tenancy and apps/api), whose statements *)
(* are transactions of their own.  Every renewal consumes a token and      *)
(* issues another; a consumed token that comes back ends every session.    *)
(***************************************************************************)
EXTENDS Naturals

CONSTANTS
    Abas,         \* tabs of the browser
    Fora,         \* "no tab": the sender of a request whose page is gone
    Requisicoes,  \* requests in flight at once
    MaxTokens     \* bound: ids of tokens ever drawn

ASSUME SessionsAssumption == MaxTokens \in Nat /\ Fora \notin Abas

VARIABLES
    token,        \* token[t]: the row of refresh token t
    criados,      \* number of ids drawn: they are 1..criados
    requisicao,   \* requisicao[q]: a request, from its sending to its reply
    cookie,       \* the refresh token the browser holds, or 0
    encerradas,   \* history: families revoked with no token of theirs in the making
    perturbada    \* history: requests overlapped, or one failed

vars == <<token, criados, requisicao, cookie, encerradas, perturbada>>

-----------------------------------------------------------------------------
Ids == 1..MaxTokens

\* familia: the token of the login it descends from.  substituto: replaced_by_id.
Linha == [estado : {"ausente", "vivo", "revogado"}, vencido : BOOLEAN,
          familia : Ids \union {0}, substituto : Ids \union {0}]

SemToken == [estado |-> "ausente", vencido |-> FALSE, familia |-> 0, substituto |-> 0]

\* passo: what the server does next, and at the end the reply on its way.
\* apresentado: the token in the cookie when the request was sent.
Requisicao == [passo : {"livre", "entrar", "achar", "revogar", "emitir", "alarme", "sair",
                        "sessao", "recusa", "adeus"},
               aba : Abas \union {Fora}, apresentado : Ids \union {0}, novo : Ids \union {0}]

Livre == [passo |-> "livre", aba |-> Fora, apresentado |-> 0, novo |-> 0]

Viva(t) == token[t].estado = "vivo"

EmVoo(q) == requisicao[q].passo # "livre"

\* The steps of a renewal.
Renovando == {"achar", "revogar", "emitir", "alarme", "sessao", "recusa"}

TypeOK ==
    /\ token \in [Ids -> Linha]
    /\ criados \in 0..MaxTokens
    /\ \A t \in Ids : t > criados => token[t] = SemToken
    /\ requisicao \in [Requisicoes -> Requisicao]
    /\ cookie \in Ids \union {0}
    /\ encerradas \subseteq Ids
    /\ perturbada \in BOOLEAN

Init ==
    /\ token = [t \in Ids |-> SemToken]
    /\ criados = 0
    /\ requisicao = [q \in Requisicoes |-> Livre]
    /\ cookie = 0
    /\ encerradas = {}
    /\ perturbada = FALSE

-----------------------------------------------------------------------------
(* The browser.                                                            *)

\* Tab a sends a request with the cookie of the moment.  Two renewals of one
\* tab are for the tab to keep apart; any other overlap is recorded.
Enviar(q, a, passo) ==
    /\ ~EmVoo(q)
    /\ requisicao' = [requisicao EXCEPT ![q] =
          [passo |-> passo, aba |-> a, apresentado |-> cookie, novo |-> 0]]
    /\ perturbada' = (perturbada \/ \E p \in Requisicoes :
                         EmVoo(p) /\ ~(requisicao[p].aba = a /\ passo = "achar"
                                       /\ requisicao[p].passo \in Renovando))
    /\ UNCHANGED <<token, criados, cookie, encerradas>>

\* Signing in, with credentials that are right (a refusal changes nothing).
Entrar(q, a) == Enviar(q, a, "entrar")

\* Mutant of Renovar: a tab renews once for every request that was refused.
RenovarPorRequisicao(q, a) == cookie # 0 /\ Enviar(q, a, "achar")

\* RenovadorDeSessao.renovar: one renewal at a time in each tab.
Renovar(q, a) ==
    /\ cookie # 0
    /\ \A p \in Requisicoes : ~(requisicao[p].aba = a /\ requisicao[p].passo \in Renovando)
    /\ Enviar(q, a, "achar")

\* Signing out.
Sair(q, a) == Enviar(q, a, "sair")

\* A reply arrives: a session carries its refresh token, signing out clears it,
\* a refusal leaves the cookie as it is.
Responder(q) ==
    /\ requisicao[q].passo \in {"sessao", "recusa", "adeus"}
    /\ requisicao[q].aba # Fora
    /\ cookie' = CASE requisicao[q].passo = "sessao" -> requisicao[q].novo
                   [] requisicao[q].passo = "adeus" -> 0
                   [] OTHER -> cookie
    /\ requisicao' = [requisicao EXCEPT ![q] = Livre]
    /\ UNCHANGED <<token, criados, encerradas, perturbada>>

\* The page is reloaded or closed: the server goes on with the request, whose
\* reply nobody waits for, and the tab may send another.
Recarregar(q) ==
    /\ EmVoo(q)
    /\ requisicao' = [requisicao EXCEPT ![q].aba = Fora]
    /\ perturbada' = TRUE
    /\ UNCHANGED <<token, criados, cookie, encerradas>>

-----------------------------------------------------------------------------
(* The server.                                                             *)

Seguir(q, passo) == requisicao' = [requisicao EXCEPT ![q].passo = passo]

\* SignInUseCase, once credentials and access are verified: the insert of the
\* first token of a family.
EmitirPrimeiro(q) ==
    /\ requisicao[q].passo = "entrar"
    /\ criados < MaxTokens
    /\ criados' = criados + 1
    /\ token' = [token EXCEPT ![criados'] =
          [SemToken EXCEPT !.estado = "vivo", !.familia = criados']]
    /\ requisicao' = [requisicao EXCEPT ![q].passo = "sessao", ![q].novo = criados']
    /\ UNCHANGED <<cookie, encerradas, perturbada>>

\* rotate(): the token is looked up; revoked, it raises the alarm, and expired
\* it is just refused.
Achar(q) ==
    LET t == token[requisicao[q].apresentado]
    IN  /\ requisicao[q].passo = "achar"
        /\ \/ t.estado = "revogado" /\ Seguir(q, "alarme")
           \/ t.estado # "revogado" /\ t.vencido /\ Seguir(q, "recusa")
           \/ t.estado # "revogado" /\ ~t.vencido /\ Seguir(q, "revogar")
        /\ UNCHANGED <<token, criados, cookie, encerradas, perturbada>>

\* Mutant of Revogar: the update does not ask for a token still alive.
RevogarSemCondicao(q) ==
    /\ requisicao[q].passo = "revogar"
    /\ criados < MaxTokens
    /\ criados' = criados + 1
    /\ token' = [token EXCEPT ![requisicao[q].apresentado].estado = "revogado",
                              ![requisicao[q].apresentado].substituto = criados']
    /\ requisicao' = [requisicao EXCEPT ![q].passo = "emitir", ![q].novo = criados']
    /\ UNCHANGED <<cookie, encerradas, perturbada>>

\* revoke(): an update that only finds the row if it is still alive, so that of
\* two rotations one wins.  The id of the substitute is drawn here.
Revogar(q) ==
    LET t == requisicao[q].apresentado
    IN  /\ requisicao[q].passo = "revogar"
        /\ \/ /\ Viva(t)
              /\ criados < MaxTokens
              /\ criados' = criados + 1
              /\ token' = [token EXCEPT ![t].estado = "revogado", ![t].substituto = criados']
              /\ requisicao' = [requisicao EXCEPT ![q].passo = "emitir", ![q].novo = criados']
           \/ /\ ~Viva(t)
              /\ Seguir(q, "alarme")
              /\ UNCHANGED <<token, criados>>
        /\ UNCHANGED <<cookie, encerradas, perturbada>>

\* Mutant of Emitir: the id is drawn again when the substitute is saved.
EmitirOutroId(q) ==
    /\ requisicao[q].passo = "emitir"
    /\ criados < MaxTokens
    /\ token' = [token EXCEPT ![criados + 1] =
          [SemToken EXCEPT !.estado = "vivo",
                           !.familia = token[requisicao[q].apresentado].familia]]
    /\ requisicao' = [requisicao EXCEPT ![q].passo = "sessao", ![q].novo = criados + 1]
    /\ UNCHANGED <<criados, cookie, encerradas, perturbada>>

\* gravar(): the insert of the substitute, another transaction.
Emitir(q) ==
    /\ requisicao[q].passo = "emitir"
    /\ token' = [token EXCEPT ![requisicao[q].novo] =
          [SemToken EXCEPT !.estado = "vivo",
                           !.familia = token[requisicao[q].apresentado].familia]]
    /\ Seguir(q, "sessao")
    /\ UNCHANGED <<criados, cookie, encerradas, perturbada>>

\* revokeAllOfUser(): one update of every token that is alive.
RevogarTudo ==
    token' = [t \in Ids |->
                 [token[t] EXCEPT !.estado = IF @ = "vivo" THEN "revogado" ELSE @]]

\* The families that are over for good: none of their tokens is in the making.
Encerraveis ==
    {token[t].familia : t \in {u \in Ids : u <= criados}}
        \ ({0} \union {token[requisicao[p].apresentado].familia :
                          p \in {r \in Requisicoes : requisicao[r].passo = "emitir"}})

\* The alarm: a token came back after it was consumed.
Alarmar(q) ==
    /\ requisicao[q].passo = "alarme"
    /\ RevogarTudo
    /\ encerradas' = encerradas \union Encerraveis
    /\ Seguir(q, "recusa")
    /\ UNCHANGED <<criados, cookie, perturbada>>

\* Mutant of Encerrar: only the token presented is revoked.
EncerrarSoEste(q) ==
    /\ requisicao[q].passo = "sair"
    /\ \/ /\ requisicao[q].apresentado = 0
          /\ UNCHANGED <<token, encerradas>>
       \/ /\ requisicao[q].apresentado # 0
          /\ token' = [token EXCEPT ![requisicao[q].apresentado].estado = "revogado"]
          /\ encerradas' = encerradas \union Encerraveis
    /\ Seguir(q, "adeus")
    /\ UNCHANGED <<criados, cookie, perturbada>>

\* revokeSession(), when there is a cookie.
Encerrar(q) ==
    /\ requisicao[q].passo = "sair"
    /\ \/ /\ requisicao[q].apresentado = 0
          /\ UNCHANGED <<token, encerradas>>
       \/ /\ requisicao[q].apresentado # 0
          /\ RevogarTudo
          /\ encerradas' = encerradas \union Encerraveis
    /\ Seguir(q, "adeus")
    /\ UNCHANGED <<criados, cookie, perturbada>>

\* The server fails between two statements, access is refused after the
\* rotation, or the reply is lost: what was written stays.  Signing out clears
\* the cookie before it revokes, so its error reply may carry the clearing.
Falhar(q) ==
    /\ EmVoo(q)
    /\ \/ UNCHANGED cookie
       \/ requisicao[q].passo = "sair" /\ cookie' = 0
    /\ requisicao' = [requisicao EXCEPT ![q] = Livre]
    /\ perturbada' = TRUE
    /\ UNCHANGED <<token, criados, encerradas>>

\* A token expires.
Vencer(t) ==
    /\ Viva(t) /\ ~token[t].vencido
    /\ token' = [token EXCEPT ![t].vencido = TRUE]
    /\ UNCHANGED <<criados, requisicao, cookie, encerradas, perturbada>>

Next ==
    \/ \E q \in Requisicoes :
          \/ \E a \in Abas : Entrar(q, a) \/ Renovar(q, a) \/ Sair(q, a)
          \/ EmitirPrimeiro(q) \/ Achar(q) \/ Revogar(q) \/ Emitir(q)
          \/ Alarmar(q) \/ Encerrar(q) \/ Responder(q)
          \/ Recarregar(q) \/ Falhar(q)
    \/ \E t \in Ids : Vencer(t)

Spec == Init /\ [][Next]_vars

-----------------------------------------------------------------------------
(* Properties.                                                             *)

\* Of the tokens that descend from one login at most one is alive: a rotation
\* never leaves two valid tokens, however many requests present the same one
\* and wherever they fail (RefreshTokenUseCase.rotate).
UmaVivaPorFamilia ==
    \A t, u \in Ids : Viva(t) /\ Viva(u) /\ token[t].familia = token[u].familia => t = u

\* The chain of replaced_by_id tells how the tokens of a family followed each
\* other: two tokens never have the same substitute, and a token that exists is
\* the first of its family or the substitute of a revoked token of it.
CadeiaSimples ==
    /\ \A t, u \in Ids : token[t].substituto # 0 /\ token[t].substituto = token[u].substituto
                            => t = u
    /\ \A t \in Ids : token[t].estado # "ausente" =>
          \/ token[t].familia = t
          \/ \E u \in Ids : /\ token[u].substituto = t
                            /\ token[u].estado = "revogado"
                            /\ token[u].familia = token[t].familia

\* Signing out, or the alarm, ends a session for good unless a rotation of it is
\* between its two writes at that moment: a renewal that had found the token
\* alive does not bring it back (revokeSession, revokeAllOfUser).
EncerradaNaoVive == \A t \in Ids : token[t].familia \in encerradas => ~Viva(t)

\* As long as no reply is lost and tabs do not overlap, the cookie of a browser
\* at rest holds a token that is alive: nobody is thrown out by the alarm
\* (RenovadorDeSessao).
CookieVale ==
    (\A q \in Requisicoes : ~EmVoo(q)) /\ ~perturbada /\ cookie # 0 => Viva(cookie)

-----------------------------------------------------------------------------
(* The inductive invariant: why the properties above hold at every step.   *)

Existe(t) == token[t].estado # "ausente"

\* A row that is there belongs to a family that was started, only a revoked row
\* has a substitute, and ids and families of the future are not used.
TabelaCoerente ==
    /\ \A t \in Ids : Existe(t) => token[t].familia \in 1..criados
    /\ \A t \in Ids : ~Existe(t) => token[t] = SemToken
    /\ \A t \in Ids : token[t].substituto \in 0..criados
    /\ \A t \in Ids : token[t].substituto # 0 => token[t].estado = "revogado"
    /\ encerradas \subseteq 1..criados

Emitindo(q) == requisicao[q].passo = "emitir"

FamiliaDe(q) == token[requisicao[q].apresentado].familia

\* Between its two writes a rotation has its family for itself: the token it
\* revoked waits for the substitute, which is not there yet, no other token of
\* the family is alive and nobody else is issuing one.
EmissaoSozinha ==
    \A q \in Requisicoes : Emitindo(q) =>
        LET t == requisicao[q].apresentado  n == requisicao[q].novo
        IN  /\ t # 0 /\ n # 0
            /\ token[t].estado = "revogado" /\ token[t].substituto = n
            /\ ~Existe(n)
            /\ \A u \in Ids : Viva(u) => token[u].familia # FamiliaDe(q)
            /\ FamiliaDe(q) \notin encerradas
            /\ \A p \in Requisicoes : Emitindo(p) /\ p # q => FamiliaDe(p) # FamiliaDe(q)

\* The cookie and the requests only refer to tokens that were issued.
Referencias ==
    /\ cookie # 0 => Existe(cookie)
    /\ \A q \in Requisicoes :
          LET r == requisicao[q]
          IN  /\ r.apresentado # 0 => Existe(r.apresentado)
              /\ r.passo \in {"achar", "revogar", "emitir", "alarme"} => r.apresentado # 0
              /\ r.passo = "sessao" => r.novo # 0 /\ Existe(r.novo)

\* While nothing was disturbed there is one request at most, and the cookie
\* holds a living token but for the time between a write and its reply.
SessaoTranquila ==
    ~perturbada =>
        /\ \A p, q \in Requisicoes : EmVoo(p) /\ EmVoo(q) => p = q
        /\ cookie = 0 \/ Viva(cookie)
              \/ \E q \in Requisicoes : requisicao[q].passo \in {"emitir", "sessao", "adeus"}
        /\ \A q \in Requisicoes :
              LET r == requisicao[q]
              IN  /\ r.passo # "alarme"
                  /\ r.passo \in {"achar", "revogar"} => r.apresentado = cookie
                  /\ r.passo = "sessao" => Viva(r.novo)

Inv ==
    /\ TypeOK /\ TabelaCoerente /\ CadeiaSimples /\ UmaVivaPorFamilia
    /\ EncerradaNaoVive /\ EmissaoSozinha /\ Referencias /\ SessaoTranquila
=============================================================================
