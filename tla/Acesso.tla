-------------------------------- MODULE Acesso --------------------------------
(***************************************************************************)
(* How a request is let in: credential, company, membership, roles,        *)
(* contracted modules and enabled plugins, each read by a statement of its *)
(* own while they change, then the decision of Permissoes on an entry of   *)
(* Superficie, in the guard of the REST API or in the MCP gateway.  One    *)
(* person of one company sends one request after the other; the rest of    *)
(* the company (its administrators, the clock, changes by hand) goes on    *)
(* meanwhile.                                                              *)
(***************************************************************************)
EXTENDS Superficie

CONSTANTS
    Papeis,           \* roles
    PadroesDePapel,   \* the patterns a role may be made of
    Escopos,          \* the sets of scopes asked for a token or given to an account
    Tokens,           \* personal tokens
    MaxAgora,         \* bound: instants of the clock
    MaxMudancas       \* bound: changes to what access is made of

ASSUME AcessoAssumption ==
    /\ Nulo \notin Tokens \union Escopos /\ MaxAgora \in Nat /\ MaxMudancas \in Nat
    /\ Escopos # {}
    /\ CatalogoMontavel

VARIABLES
    empresa,      \* status of the company
    vinculo,      \* whether the membership of the person is active
    papeis,       \* roles of the membership
    padroes,      \* padroes[r]: patterns role r grants
    contrato,     \* contrato[u]: contracting of unit u
    habilitados,  \* plugins enabled
    token,        \* token[t]: row of a personal token
    agora,        \* the clock
    pedido,       \* the request: what it has read, what became of it
    obra,         \* obra[a]: contracting about to be saved, or Nulo
    visto,        \* history: facts that held at some instant of the request
    faltou,       \* history: facts that failed to hold at some instant of it
    mudancas      \* changes so far

publico == <<empresa, vinculo, papeis, padroes, contrato, habilitados, token, agora>>

vars == <<publico, pedido, obra, visto, faltou, mudancas>>

-----------------------------------------------------------------------------
Instantes == 0..MaxAgora

\* The use cases that change what access is made of.
Efeitos ==
    {"ManageEntitlements.grant", "ManageEntitlements.revoke", "PersonalAccessToken.issue",
     "PersonalAccessToken.revoke", "ChangePluginStatus.enable", "ChangePluginStatus.disable"}

Autores == {"portador", "administrador"}

LinhaDeContratacao ==
    [situacao : {"active", "suspended"}, vence : Instantes \union {Nulo}]

LinhaDeToken ==
    [situacao : {"nenhum", "vivo", "revogado"}, vence : Instantes, escopos : Escopos]

\* lidas: contractings read, not yet judged.  What is asked for matters only at
\* the decision, so one decision answers for every entry of the surface: aberto
\* are those it lets in, lista those it shows.  caso: the use case it runs.
Pedido ==
    [credencial : {"nenhuma", "sessao", "pessoal", "servico"},
     token : Tokens \union {Nulo},
     passo : {"livre", "empresa", "vinculo", "leituras", "decidido", "executar", "fim"},
     permissoes : (SUBSET PadroesDePapel) \union Escopos \union {Nulo},
     escopos : Escopos \union {{Tudo}},
     lidas : (SUBSET (Modulos \X (Instantes \union {Nulo}))) \union {Nulo},
     extras : (SUBSET PluginsInstalados) \union {Nulo},
     concessao : [permissoes : (SUBSET PadroesDePapel) \union Escopos,
                  escopos : Escopos \union {{Tudo}},
                  unidades : SUBSET (Modulos \union PluginsInstalados)] \union {Nulo},
     via : {"nenhuma", "rest", "mcp"},
     aberto : (SUBSET Rotas) \union (SUBSET Catalogo),
     lista : SUBSET Catalogo,
     caso : Efeitos \union {""}]

Livre ==
    [credencial |-> "nenhuma", token |-> Nulo, passo |-> "livre", permissoes |-> Nulo,
     escopos |-> {Tudo}, lidas |-> Nulo, extras |-> Nulo, concessao |-> Nulo,
     via |-> "nenhuma", aberto |-> {}, lista |-> {}, caso |-> ""]

TypeOK ==
    /\ empresa \in {"active", "suspended"}
    /\ vinculo \in BOOLEAN
    /\ papeis \subseteq Papeis
    /\ padroes \in [Papeis -> SUBSET PadroesDePapel]
    /\ contrato \in [Modulos -> LinhaDeContratacao]
    /\ habilitados \subseteq PluginsInstalados
    /\ token \in [Tokens -> LinhaDeToken]
    /\ agora \in Instantes
    /\ pedido \in Pedido
    /\ obra \in [Autores -> (Modulos \X (Instantes \union {Nulo})) \union {Nulo}]
    /\ mudancas \in 0..MaxMudancas

Vigente(linha, t) ==
    /\ linha.situacao = "active"
    /\ linha.vence = Nulo \/ linha.vence > t

Aceito(t) == token[t].situacao = "vivo" /\ token[t].vence > agora

\* What access is made of; each fact holds or not at every instant.
Fatos ==
    {<<"empresa">>, <<"vinculo">>} \union ({"papel"} \X Papeis)
      \union ({"unidade"} \X (Modulos \union PluginsInstalados)) \union ({"token"} \X Tokens)

Vale(fato) ==
    CASE fato[1] = "empresa" -> empresa = "active"
      [] fato[1] = "vinculo" -> vinculo
      [] fato[1] = "papel"   -> fato[2] \in papeis
      [] fato[1] = "unidade" -> IF fato[2] \in Modulos THEN Vigente(contrato[fato[2]], agora)
                                                       ELSE fato[2] \in habilitados
      [] fato[1] = "token"   -> Aceito(fato[2])

Verdades == {f \in Fatos : Vale(f)}

\* No row has the hash of t.
SemToken(t) == token[t].situacao = "nenhum"

\* A provisioned company: each role made of one pattern, everything contracted,
\* for good or up to an instant, no plugin enabled.
Init ==
    /\ empresa = "active" /\ vinculo = TRUE /\ papeis = Papeis
    /\ padroes \in [Papeis -> {{p} : p \in PadroesDePapel}]
    /\ \E v \in {Nulo, MaxAgora} :
          contrato = [u \in Modulos |-> [situacao |-> "active", vence |-> v]]
    /\ habilitados = {}
    /\ token = [t \in Tokens |-> [situacao |-> "nenhum", vence |-> 0,
                                  escopos |-> CHOOSE e \in Escopos : TRUE]]
    /\ agora = 0
    /\ pedido = Livre
    /\ obra = [a \in Autores |-> Nulo]
    /\ visto = {} /\ faltou = {}
    /\ mudancas = 0

-----------------------------------------------------------------------------
(* The request is let in.                                                  *)

\* 401 or 403, before anything is decided.
Barrado == pedido' = [pedido EXCEPT !.passo = "fim"]

\* A JWT is verified without reading anything: one that is forged or expired
\* is refused here, and left out.
Chegar ==
    /\ pedido.passo = "livre"
    /\ \/ pedido' = [Livre EXCEPT !.credencial = "sessao", !.passo = "empresa"]
       \/ \E e \in Escopos :
             pedido' = [Livre EXCEPT !.credencial = "servico", !.passo = "empresa",
                                     !.escopos = e]
    /\ UNCHANGED <<publico, obra, mudancas>>

\* A personal token is looked up in the database.
ChegarComToken(t) ==
    /\ pedido.passo = "livre"
    /\ ~SemToken(t)
    /\ pedido' = [Livre EXCEPT !.credencial = "pessoal", !.token = t,
                               !.escopos = token[t].escopos,
                               !.passo = IF Aceito(t) THEN "empresa" ELSE "fim"]
    /\ UNCHANGED <<publico, obra, mudancas>>

LerEmpresa ==
    /\ pedido.passo = "empresa"
    /\ IF empresa # "active" THEN Barrado
       ELSE pedido' = [pedido EXCEPT
              !.passo = IF pedido.credencial = "servico" THEN "leituras" ELSE "vinculo",
              !.permissoes = IF pedido.credencial = "servico" THEN pedido.escopos ELSE Nulo]
    /\ UNCHANGED <<publico, obra, mudancas>>

LerVinculo ==
    /\ pedido.passo = "vinculo"
    /\ IF vinculo THEN pedido' = [pedido EXCEPT !.passo = "leituras"] ELSE Barrado
    /\ UNCHANGED <<publico, obra, mudancas>>

LerPermissoes ==
    /\ pedido.passo = "leituras" /\ pedido.permissoes = Nulo
    /\ pedido' = [pedido EXCEPT !.permissoes = UNION {padroes[r] : r \in papeis}]
    /\ UNCHANGED <<publico, obra, mudancas>>

LerContratos ==
    /\ pedido.passo = "leituras" /\ pedido.lidas = Nulo
    /\ pedido' = [pedido EXCEPT !.lidas =
          {<<u, contrato[u].vence>> : u \in {m \in Modulos : contrato[m].situacao = "active"}}]
    /\ UNCHANGED <<publico, obra, mudancas>>

\* Mutant of LerExtras: plugins are looked up for people only.
LerExtrasDePessoas ==
    /\ pedido.passo = "leituras" /\ pedido.extras = Nulo
    /\ pedido' = [pedido EXCEPT
                     !.extras = IF pedido.credencial = "servico" THEN {} ELSE habilitados]
    /\ UNCHANGED <<publico, obra, mudancas>>

LerExtras ==
    /\ pedido.passo = "leituras" /\ pedido.extras = Nulo
    /\ pedido' = [pedido EXCEPT !.extras = habilitados]
    /\ UNCHANGED <<publico, obra, mudancas>>

\* Validity is judged after the last read, by the clock of that moment.
Concessao ==
    [permissoes |-> pedido.permissoes, escopos |-> pedido.escopos,
     unidades |-> pedido.extras \union
        {l[1] : l \in {x \in pedido.lidas :
                          Vigente([situacao |-> "active", vence |-> x[2]], agora)}}]

Resolvido ==
    /\ pedido.passo = "leituras"
    /\ pedido.permissoes # Nulo /\ pedido.lidas # Nulo /\ pedido.extras # Nulo

Decidir(via, aberto, lista) ==
    pedido' = [pedido EXCEPT !.passo = "decidido", !.via = via, !.concessao = Concessao,
                             !.aberto = aberto, !.lista = lista,
                             !.permissoes = Nulo, !.lidas = Nulo, !.extras = Nulo]

\* Guard of the REST API.
Guardar ==
    /\ Resolvido
    /\ Decidir("rest", {r \in Rotas : AutorizaTodas(Concessao, r.exige)}, {})
    /\ UNCHANGED <<publico, obra, mudancas>>

\* The gateway decides again when a capability is called or read, whatever it
\* has listed.
Atender ==
    /\ Resolvido
    /\ Decidir("mcp", Alcancaveis(Concessao), Visiveis(Concessao))
    /\ UNCHANGED <<publico, obra, mudancas>>

\* The answer is given, or the connection drops, and the next request may come.
\* A contracting under way is abandoned with it.
Esquecer ==
    /\ pedido.passo \in {"decidido", "executar", "fim"}
    /\ pedido' = Livre
    /\ obra' = [obra EXCEPT !["portador"] = Nulo]
    /\ UNCHANGED <<publico, mudancas>>

-----------------------------------------------------------------------------
(* Use cases that change what access is made of.                           *)

\* Bound: only the units a role speaks of are contracted and cancelled.
EmJogo ==
    {u \in Modulos : \E r \in Papeis : \E p \in padroes[r] : p = Tudo \/ p[1] = u[1]}

Mudar == mudancas < MaxMudancas /\ mudancas' = mudancas + 1

\* Contracting: the row is read, and saved in another transaction.
Contratar(autor, u, vence) ==
    /\ obra[autor] = Nulo
    /\ ~Vigente(contrato[u], agora)
    /\ obra' = [obra EXCEPT ![autor] = <<u, vence>>]
    /\ UNCHANGED publico

SalvarContratacao(autor) ==
    /\ obra[autor] # Nulo
    /\ contrato' = [contrato EXCEPT
                      ![obra[autor][1]] = [situacao |-> "active", vence |-> obra[autor][2]]]
    /\ obra' = [obra EXCEPT ![autor] = Nulo]
    /\ UNCHANGED <<empresa, vinculo, papeis, padroes, habilitados, token, agora>>

\* Mutant of Descontratar: the status written is not one a contracting may have.
DescontratarCancelando(u) ==
    /\ contrato' = [contrato EXCEPT ![u].situacao = "canceled"]
    /\ UNCHANGED <<empresa, vinculo, papeis, padroes, habilitados, token, agora, obra>>

Descontratar(u) ==
    /\ contrato' = [contrato EXCEPT ![u].situacao = "suspended"]
    /\ UNCHANGED <<empresa, vinculo, papeis, padroes, habilitados, token, agora, obra>>

\* Another personal token does not do; the account of a service is refused by
\* the foreign key of the row.
PodeEmitir == pedido.credencial \notin {"pessoal", "servico"}

\* save() of a token just made: nobody else knows it yet.
InserirToken(t, escopos) ==
    token' = [token EXCEPT ![t] = [situacao |-> "vivo", vence |-> MaxAgora, escopos |-> escopos]]

EmitirToken(t, escopos) ==
    /\ SemToken(t) /\ PodeEmitir
    /\ InserirToken(t, escopos)
    /\ UNCHANGED <<empresa, vinculo, papeis, padroes, contrato, habilitados, agora, obra>>

\* Once: a token that was revoked stays as it is.
MarcarRevogado(t) ==
    /\ token[t].situacao = "vivo"
    /\ token' = [token EXCEPT ![t].situacao = "revogado"]

RevogarToken(t) ==
    /\ MarcarRevogado(t)
    /\ UNCHANGED <<empresa, vinculo, papeis, padroes, contrato, habilitados, agora, obra>>

MudarPlugin(ligado) ==
    /\ habilitados' = IF ligado THEN PluginsInstalados ELSE {}
    /\ UNCHANGED <<empresa, vinculo, papeis, padroes, contrato, token, agora, obra>>

\* A request that was let in runs its use case.  Those that change nothing of
\* access are modelled by the modules of their components.
Escolher ==
    /\ pedido.passo = "decidido" /\ pedido.via = "rest"
    /\ \E r \in pedido.aberto :
          /\ r.caso \in Efeitos
          /\ pedido' = [pedido EXCEPT !.passo = "executar", !.caso = r.caso]
    /\ UNCHANGED <<publico, obra, mudancas>>

\* The first half of a contracting.
IniciarContratacao ==
    /\ pedido.passo = "executar" /\ pedido.caso = "ManageEntitlements.grant"
    /\ \E u \in EmJogo, v \in {Nulo, MaxAgora} : Contratar("portador", u, v)
    /\ UNCHANGED <<pedido, mudancas>>

Executar ==
    /\ pedido.passo = "executar"
    /\ pedido' = Livre
    /\ Mudar
    /\ \/ pedido.caso = "ManageEntitlements.grant" /\ SalvarContratacao("portador")
       \/ pedido.caso = "ManageEntitlements.revoke" /\ \E u \in EmJogo : Descontratar(u)
       \/ /\ pedido.caso = "PersonalAccessToken.issue"
          /\ \E t \in Tokens, e \in Escopos : EmitirToken(t, e)
       \/ pedido.caso = "PersonalAccessToken.revoke" /\ \E t \in Tokens : RevogarToken(t)
       \/ pedido.caso = "ChangePluginStatus.enable" /\ MudarPlugin(TRUE)
       \/ pedido.caso = "ChangePluginStatus.disable" /\ MudarPlugin(FALSE)

-----------------------------------------------------------------------------
(* The others.                                                             *)

\* An administrator, through requests let in the same way.
Administrar ==
    /\ Mudar /\ UNCHANGED pedido
    /\ \/ \E u \in EmJogo, v \in {Nulo, MaxAgora} : Contratar("administrador", u, v)
       \/ \E u \in EmJogo : contrato[u].situacao = "active" /\ Descontratar(u)
       \/ MudarPlugin(habilitados = {})

ConcluirContratacao ==
    /\ SalvarContratacao("administrador")
    /\ UNCHANGED <<pedido, mudancas>>

\* Company, membership and roles: nothing under src/ changes them once they
\* are provisioned.
MudarPorFora ==
    /\ Mudar /\ UNCHANGED pedido
    /\ \/ /\ empresa' = IF empresa = "active" THEN "suspended" ELSE "active"
          /\ UNCHANGED <<vinculo, papeis>>
       \/ vinculo' = ~vinculo /\ UNCHANGED <<empresa, papeis>>
       \/ /\ \E r \in Papeis : papeis' = IF r \in papeis THEN papeis \ {r} ELSE papeis \union {r}
          /\ UNCHANGED <<empresa, vinculo>>
    /\ UNCHANGED <<padroes, contrato, habilitados, token, agora, obra>>

Tique ==
    /\ agora < MaxAgora
    /\ agora' = agora + 1
    /\ UNCHANGED <<empresa, vinculo, papeis, padroes, contrato, habilitados, token>>
    /\ UNCHANGED <<pedido, obra, mudancas>>

-----------------------------------------------------------------------------
\* The facts of a request are those of the instants from its first read to its
\* decision.  A contracting saved over another one is not the one that was read.
Historia ==
    CASE pedido'.passo = "livre" -> visto' = {} /\ faltou' = {}
      [] pedido.passo = "livre" /\ pedido'.passo # "livre" ->
            visto' = Verdades' /\ faltou' = Fatos \ Verdades'
      [] pedido.passo \in {"decidido", "executar", "fim"} /\ pedido'.passo # "livre" ->
            UNCHANGED <<visto, faltou>>
      [] OTHER -> /\ visto' = visto \union Verdades'
                  /\ faltou' = faltou \union (Fatos \ Verdades')
                       \union {<<"unidade", u>> : u \in {m \in Modulos : contrato'[m] # contrato[m]}}

Passo ==
    \/ Chegar \/ \E t \in Tokens : ChegarComToken(t)
    \/ LerEmpresa \/ LerVinculo \/ LerPermissoes \/ LerContratos \/ LerExtras
    \/ Guardar \/ Atender \/ Escolher \/ IniciarContratacao \/ Executar \/ Esquecer
    \/ Administrar \/ ConcluirContratacao \/ MudarPorFora \/ Tique

Next == Passo /\ Historia

Spec == Init /\ [][Next]_vars

-----------------------------------------------------------------------------
(* Properties.                                                             *)

\* What a request could do, were these facts the ones that hold.
Alcanca(fatos, chaves) ==
    /\ <<"empresa">> \in fatos
    /\ pedido.credencial \in {"sessao", "pessoal"} => <<"vinculo">> \in fatos
    /\ pedido.credencial = "pessoal" => <<"token", pedido.token>> \in fatos
    /\ \A chave \in chaves :
         /\ UnidadeDe(chave) # <<"platform">> => <<"unidade", UnidadeDe(chave)>> \in fatos
         /\ Concede(pedido.escopos, chave)
         /\ pedido.credencial # "servico" =>
               \E r \in Papeis : <<"papel", r>> \in fatos /\ Concede(padroes[r], chave)

\* Nothing is let in, and nothing is listed, without each thing it needs having
\* held at some instant between the first read of the request and the
\* decision: a revocation is felt by the next request, whatever the credential.
NegadoNaoPassa ==
    \A entrada \in pedido.aberto \union pedido.lista : Alcanca(visto, entrada.exige)

\* The other way round: a request is turned away only if something it needed
\* failed to hold at some instant of it.
QuemTemEntra ==
    LET firmes == Fatos \ faltou IN
    /\ pedido.passo = "fim" /\ pedido.via = "nenhuma" => ~Alcanca(firmes, {})
    /\ pedido.via = "rest" =>
          {r \in Rotas : Alcanca(firmes, r.exige)} \subseteq pedido.aberto
    /\ pedido.via = "mcp" =>
          {c \in Catalogo : Alcanca(firmes, c.exige)} \subseteq pedido.aberto \intersect pedido.lista

\* An agent runs nothing the API would not run for the same person: whatever a
\* capability runs, some route that lets the person in runs too, and one that
\* only reads if the capability is offered as reading only.
MesmaPortaria ==
    pedido.via = "mcp" =>
        \A c \in pedido.aberto : \A k \in c.casos : \E r \in Rotas :
            /\ k \in r.casos /\ AutorizaTodas(pedido.concessao, r.exige)
            /\ c.leitura => ~r.escreve

-----------------------------------------------------------------------------
(* The inductive invariant.                                                *)

EmCurso == pedido.passo \in {"empresa", "vinculo", "leituras"}

\* What a request holds at each of its steps.
MemoriaBoa ==
    /\ pedido.passo \notin {"decidido", "executar"} =>
          pedido.aberto = {} /\ pedido.lista = {} /\ pedido.via = "nenhuma"
    /\ pedido.passo \in {"decidido", "executar"} => pedido.via # "nenhuma"
    /\ pedido.passo \in {"empresa", "vinculo"} =>
          pedido.permissoes = Nulo /\ pedido.lidas = Nulo /\ pedido.extras = Nulo
    /\ EmCurso => pedido.credencial # "nenhuma"
    /\ pedido.passo = "vinculo" => pedido.credencial # "servico"
    /\ pedido.credencial = "pessoal" => pedido.token \in Tokens
    /\ pedido.credencial = "servico" =>
          /\ pedido.escopos \in Escopos
          /\ pedido.passo = "leituras" => pedido.permissoes = pedido.escopos

\* What it got past, and everything it read, held when it was read.
VistoBom ==
    EmCurso =>
      /\ pedido.credencial = "pessoal" => <<"token", pedido.token>> \in visto
      /\ pedido.passo # "empresa" => <<"empresa">> \in visto
      /\ pedido.passo = "leituras" /\ pedido.credencial # "servico" =>
            /\ <<"vinculo">> \in visto
            /\ pedido.permissoes # Nulo =>
                  \A padrao \in pedido.permissoes :
                     \E r \in Papeis : <<"papel", r>> \in visto /\ padrao \in padroes[r]
      /\ pedido.lidas # Nulo =>
            \A l \in pedido.lidas : (l[2] = Nulo \/ l[2] > agora) => <<"unidade", l[1]>> \in visto
      /\ pedido.extras # Nulo => \A u \in pedido.extras : <<"unidade", u>> \in visto

\* What it has not read either failed to hold or is yet to be read.
FaltouBom ==
    EmCurso =>
      /\ Fatos \ Verdades \subseteq faltou
      /\ pedido.permissoes # Nulo /\ pedido.credencial # "servico" =>
            \A r \in Papeis : <<"papel", r>> \notin faltou => padroes[r] \subseteq pedido.permissoes
      /\ pedido.lidas # Nulo =>
            \A u \in Modulos : <<"unidade", u>> \notin faltou =>
               <<u, contrato[u].vence>> \in pedido.lidas
      /\ pedido.extras # Nulo =>
            \A u \in PluginsInstalados : <<"unidade", u>> \notin faltou => u \in pedido.extras

\* An agent was let into what the access decided on gives, and nothing else.
AbertoBom ==
    pedido.via = "mcp" =>
        \A c \in pedido.aberto : c \in Catalogo /\ AutorizaTodas(pedido.concessao, c.exige)

Inv == TypeOK /\ MemoriaBoa /\ VistoBom /\ FaltouBom /\ NegadoNaoPassa /\ QuemTemEntra
-----------------------------------------------------------------------------
(* What a description of the repository says and the model refutes.        *)

\* What the permission of a route guards is run for nobody who lacks it, by no
\* other route and by no capability: to see an asset and its holds takes
\* assets.asset.read.
FichaPedeLeitura ==
    \A entrada \in pedido.aberto : \A r \in Rotas :
        r.caso \in entrada.casos => AutorizaTodas(pedido.concessao, r.exige)

=============================================================================
