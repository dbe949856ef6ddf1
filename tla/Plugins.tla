------------------------------- MODULE Plugins -------------------------------
(***************************************************************************)
(* One plugin of the catalogue in one company (modules/plugins): its       *)
(* installation, a row that is unique per company and plugin, and its      *)
(* secrets, rows of another table.  No use case runs in a unit of work:    *)
(* every repository call is a transaction of its own, so a request is a    *)
(* read, a decision in memory and writes that other requests, or a         *)
(* failure, may come between.  A save is an upsert by id of everything the *)
(* request read.                                                           *)
(***************************************************************************)
EXTENDS Naturals

CONSTANTS
    Chamadas,        \* requests being served
    Chaves,          \* keys of secrets a request may send
    Exigidas,        \* requiredSecrets of the manifest
    Permissoes,      \* permissions a request may grant
    Pedidas,         \* permissions of the manifest
    MaxInstalacoes   \* bound: installations ever made

ASSUME PluginsAssumption ==
    /\ Exigidas \subseteq Chaves
    /\ Pedidas \subseteq Permissoes
    /\ MaxInstalacoes \in Nat

VARIABLES
    instalacao,   \* the row of plugin_installations, or Ausente
    segredos,     \* segredos[k]: id of the installation its writer had read, or 0
    chamada,      \* chamada[c]: what a request remembers
    criadas,      \* number of installations made: their ids are 1..criadas
    concedidas,   \* history: concedidas[i] = permissions granted to installation i
    verificadas,  \* history: installations whose required secrets were seen present
    sobrepostas   \* history: two requests that write have overlapped

vars == <<instalacao, segredos, chamada, criadas, concedidas, verificadas, sobrepostas>>

-----------------------------------------------------------------------------
Ids == 1..MaxInstalacoes

Situacoes == {"ausente", "installed", "configured", "enabled", "disabled"}

\* TRANSICOES: where the domain lets each status go.
Transicoes == [installed |-> {"configured"}, configured |-> {"enabled", "configured"},
               enabled |-> {"disabled"}, disabled |-> {"enabled"}]

\* validada: config has passed the schema of the plugin (it starts empty).
Linha == [id : Ids \union {0}, status : Situacoes, validada : BOOLEAN,
          permissoes : SUBSET Permissoes]

Ausente == [id |-> 0, status |-> "ausente", validada |-> FALSE, permissoes |-> {}]

\* faltam: secrets still to be written, or still to be opened.
\* abertas[k]: as segredos[k] when it was opened, or 0.
Chamada == [passo : {"livre", "gravar", "configurar", "listar", "apagarSegredos",
                     "apagarLinha", "abrir"},
            lida : Linha, faltam : SUBSET Chaves, abertas : [Chaves -> Ids \union {0}]]

SemSegredos == [k \in Chaves |-> 0]

Livre == [passo |-> "livre", lida |-> Ausente, faltam |-> {}, abertas |-> SemSegredos]

TypeOK ==
    /\ instalacao \in Linha
    /\ segredos \in [Chaves -> Ids \union {0}]
    /\ chamada \in [Chamadas -> Chamada]
    /\ criadas \in 0..MaxInstalacoes
    /\ concedidas \in [Ids -> SUBSET Permissoes]
    /\ verificadas \subseteq Ids
    /\ sobrepostas \in BOOLEAN

Init ==
    /\ instalacao = Ausente
    /\ segredos = SemSegredos
    /\ chamada = [c \in Chamadas |-> Livre]
    /\ criadas = 0
    /\ concedidas = [i \in Ids |-> {}]
    /\ verificadas = {}
    /\ sobrepostas = FALSE

-----------------------------------------------------------------------------
(* The first transaction of a request: find().                             *)

Instalada == instalacao.status # "ausente"

Escreve(c) == chamada[c].passo \notin {"livre", "abrir"}

\* History of overlaps: request c, which writes, starts.
Sobrepor(c) ==
    sobrepostas' = (sobrepostas \/ \E d \in Chamadas \ {c} : Escreve(d))

\* Request c goes on with what find() returned, as the domain changed it.
Prosseguir(c, passo, linha, faltam) ==
    /\ chamada[c].passo = "livre"
    /\ chamada' = [chamada EXCEPT ![c] =
          [Livre EXCEPT !.passo = passo, !.lida = linha, !.faltam = faltam]]
    /\ UNCHANGED <<instalacao, segredos, verificadas>>

\* Mutant of LerParaInstalar: what is granted is not held against the manifest.
InstalarComQualquer(c, permissoes) ==
    /\ ~Instalada
    /\ criadas < MaxInstalacoes
    /\ criadas' = criadas + 1
    /\ concedidas' = [concedidas EXCEPT ![criadas'] = permissoes]
    /\ Prosseguir(c, "gravar", [id |-> criadas', status |-> "installed", validada |-> FALSE,
                                permissoes |-> permissoes], {})
    /\ Sobrepor(c)

\* InstallPluginUseCase: not installed yet, and only what the manifest asks.
LerParaInstalar(c, permissoes) ==
    /\ ~Instalada
    /\ permissoes \subseteq Pedidas
    /\ criadas < MaxInstalacoes
    /\ criadas' = criadas + 1
    /\ concedidas' = [concedidas EXCEPT ![criadas'] = permissoes]
    /\ Prosseguir(c, "gravar", [id |-> criadas', status |-> "installed", validada |-> FALSE,
                                permissoes |-> permissoes], {})
    /\ Sobrepor(c)

\* ConfigurePluginUseCase, with a configuration the schema accepts.
LerParaConfigurar(c, chaves) ==
    /\ Instalada
    /\ Prosseguir(c, "configurar", instalacao, chaves)
    /\ Sobrepor(c)
    /\ UNCHANGED <<criadas, concedidas>>

\* enable(): the row is read here, the keys in the next transaction.
LerParaHabilitar(c) ==
    /\ Instalada
    /\ Prosseguir(c, "listar", instalacao, {})
    /\ Sobrepor(c)
    /\ UNCHANGED <<criadas, concedidas>>

\* Mutant of LerParaDesabilitar: the transition is not required.
DesabilitarSempre(c) ==
    /\ Instalada
    /\ Prosseguir(c, "gravar", [instalacao EXCEPT !.status = "disabled"], {})
    /\ Sobrepor(c)
    /\ UNCHANGED <<criadas, concedidas>>

\* disable(): of an enabled plugin only.
LerParaDesabilitar(c) ==
    /\ Instalada
    /\ "disabled" \in Transicoes[instalacao.status]
    /\ Prosseguir(c, "gravar", [instalacao EXCEPT !.status = "disabled"], {})
    /\ Sobrepor(c)
    /\ UNCHANGED <<criadas, concedidas>>

\* uninstall().
LerParaDesinstalar(c) ==
    /\ Instalada
    /\ Prosseguir(c, "apagarSegredos", instalacao, {})
    /\ Sobrepor(c)
    /\ UNCHANGED <<criadas, concedidas>>

\* ResolvePluginRuntimeUseCase: a call of the plugin, if it is enabled.
LerParaResolver(c) ==
    /\ instalacao.status = "enabled"
    /\ Prosseguir(c, "abrir", instalacao, Exigidas)
    /\ UNCHANGED <<criadas, concedidas, sobrepostas>>

-----------------------------------------------------------------------------
(* The transactions that follow.                                           *)

Historia == <<criadas, concedidas, sobrepostas>>

Terminar(c) == chamada' = [chamada EXCEPT ![c] = Livre]

\* save(): an upsert by id, that the unique key of company and plugin refuses
\* when another installation has taken the place.
Salvar(c, linha) ==
    /\ Terminar(c)
    /\ \/ /\ instalacao.id \in {0, linha.id}
          /\ instalacao' = linha
       \/ /\ instalacao.id \notin {0, linha.id}
          /\ UNCHANGED instalacao
    /\ UNCHANGED <<segredos, verificadas, Historia>>

\* The save of install, enable and disable.
Gravar(c) == chamada[c].passo = "gravar" /\ Salvar(c, chamada[c].lida)

\* Mutant of GravarConfiguracao: a status that no other part knows.
ConfigurarComoValidada(c) ==
    LET lida == chamada[c].lida
    IN  /\ chamada[c].passo = "configurar"
        /\ chamada[c].faltam = {}
        /\ Salvar(c, [lida EXCEPT !.validada = TRUE, !.status = "validated"])

\* configure() in memory, and its save: only a plugin that was just installed
\* changes status.
GravarConfiguracao(c) ==
    LET lida == chamada[c].lida
    IN  /\ chamada[c].passo = "configurar"
        /\ chamada[c].faltam = {}
        /\ Salvar(c, [lida EXCEPT !.validada = TRUE,
                         !.status = IF @ = "installed" THEN "configured" ELSE @])

\* put(): the secret of key k belongs to installation i from now on.
Guardar(k, i) == segredos' = [segredos EXCEPT ![k] = i]

\* listKeys(): there is a secret of key k, of whatever installation.
Guardado(k) == segredos[k] # 0

\* One turn of the loop over the secrets sent: a key the manifest does not ask
\* for ends the request, whatever was written before it stays.
GravarSegredo(c, k) ==
    /\ chamada[c].passo = "configurar"
    /\ k \in chamada[c].faltam
    /\ \/ /\ k \in Exigidas
          /\ Guardar(k, chamada[c].lida.id)
          /\ chamada' = [chamada EXCEPT ![c].faltam = @ \ {k}]
       \/ /\ k \notin Exigidas
          /\ Terminar(c)
          /\ UNCHANGED segredos
    /\ UNCHANGED <<instalacao, verificadas, Historia>>

\* The decision of enable() on the row it read and on the keys it lists.
PodeHabilitar(c) ==
    /\ "enabled" \in Transicoes[chamada[c].lida.status]
    /\ \A k \in Exigidas : Guardado(k)

\* Mutant of ListarChaves: the status is not looked at.
HabilitarSemTransicao(c) ==
    /\ chamada[c].passo = "listar"
    /\ chamada' = [chamada EXCEPT ![c].passo = "gravar", ![c].lida.status = "enabled"]
    /\ verificadas' = verificadas \union {chamada[c].lida.id}
    /\ UNCHANGED <<instalacao, segredos, Historia>>

\* enable(): listKeys and the decision; it is saved in the next transaction.
ListarChaves(c) ==
    /\ chamada[c].passo = "listar"
    /\ \/ /\ PodeHabilitar(c)
          /\ chamada' = [chamada EXCEPT ![c].passo = "gravar", ![c].lida.status = "enabled"]
          /\ verificadas' = verificadas \union {chamada[c].lida.id}
       \/ /\ ~PodeHabilitar(c)
          /\ Terminar(c)
          /\ UNCHANGED verificadas
    /\ UNCHANGED <<instalacao, segredos, Historia>>

\* Mutant of ApagarSegredos: the deletion is not awaited, and it is lost.
ApagarSegredosDepois(c) ==
    /\ chamada[c].passo = "apagarSegredos"
    /\ chamada' = [chamada EXCEPT ![c].passo = "apagarLinha"]
    /\ UNCHANGED <<instalacao, segredos, verificadas, Historia>>

\* uninstall(), first the secrets ...
ApagarSegredos(c) ==
    /\ chamada[c].passo = "apagarSegredos"
    /\ segredos' = SemSegredos
    /\ chamada' = [chamada EXCEPT ![c].passo = "apagarLinha"]
    /\ UNCHANGED <<instalacao, verificadas, Historia>>

\* ... then the row of this company and plugin, whatever its id is by now.
ApagarLinha(c) ==
    /\ chamada[c].passo = "apagarLinha"
    /\ instalacao' = Ausente
    /\ Terminar(c)
    /\ UNCHANGED <<segredos, verificadas, Historia>>

\* Mutant of AbrirSegredo: a secret that is not there is opened as an empty one.
AbrirMesmoVazio(c, k) ==
    /\ chamada[c].passo = "abrir"
    /\ k \in chamada[c].faltam
    /\ chamada' = [chamada EXCEPT ![c].faltam = @ \ {k}, ![c].abertas[k] = segredos[k]]
    /\ UNCHANGED <<instalacao, segredos, verificadas, Historia>>

\* findSealed of one required secret: the call fails if it is not there.
AbrirSegredo(c, k) ==
    /\ chamada[c].passo = "abrir"
    /\ k \in chamada[c].faltam
    /\ \/ /\ segredos[k] # 0
          /\ chamada' = [chamada EXCEPT ![c].faltam = @ \ {k}, ![c].abertas[k] = segredos[k]]
       \/ /\ segredos[k] = 0
          /\ Terminar(c)
    /\ UNCHANGED <<instalacao, segredos, verificadas, Historia>>

\* The plugin has its runtime: row, permissions and every secret.
Entregue(c) == chamada[c].passo = "abrir" /\ chamada[c].faltam = {}

\* A call of the plugin is over, or a request fails or dies between two
\* transactions: what it wrote stays.
Abandonar(c) ==
    /\ chamada[c].passo # "livre"
    /\ Terminar(c)
    /\ UNCHANGED <<instalacao, segredos, verificadas, Historia>>

Next ==
    \E c \in Chamadas :
        \/ \E p \in SUBSET Permissoes : LerParaInstalar(c, p)
        \/ \E ks \in SUBSET Chaves : LerParaConfigurar(c, ks)
        \/ LerParaHabilitar(c)
        \/ LerParaDesabilitar(c)
        \/ LerParaDesinstalar(c)
        \/ LerParaResolver(c)
        \/ Gravar(c)
        \/ GravarConfiguracao(c)
        \/ \E k \in Chaves : GravarSegredo(c, k) \/ AbrirSegredo(c, k)
        \/ ListarChaves(c)
        \/ ApagarSegredos(c)
        \/ ApagarLinha(c)
        \/ Abandonar(c)

Spec == Init /\ [][Next]_vars

-----------------------------------------------------------------------------
(* What holds however requests interleave and fail.                        *)

\* The rows somebody may act on: the stored one and those requests remember.
Linhas == {instalacao} \union {chamada[c].lida : c \in Chamadas}

\* The permissions a plugin acts with are those granted when that very
\* installation was made, all of them asked for by its manifest, whichever
\* stale save came last (InstallPluginUseCase, assertPermissoesPedidas).
PermissaoDaInstalacao ==
    /\ \A i \in Ids : concedidas[i] \subseteq Pedidas
    /\ \A l \in Linhas : l.id # 0 => l.permissoes = concedidas[l.id]

\* A plugin is enabled, or was, only if its configuration passed the schema and
\* its required secrets were once seen present: no order of saves makes an
\* installation skip a stage (PluginInstallation.enable).
SoHabilitaVerificada ==
    \A l \in Linhas :
        /\ l.status \in {"configured", "enabled", "disabled"} => l.validada
        /\ l.status \in {"enabled", "disabled"} => l.id \in verificadas

-----------------------------------------------------------------------------
(* What holds as long as requests that write come one at a time, though     *)
(* any of them may fail halfway.                                           *)

\* A secret belongs to the installation that is there: none is left without an
\* owner, and none is inherited by a later installation (uninstall: "segredos
\* primeiro").
SegredoDoDono ==
    ~sobrepostas => \A k \in Chaves : segredos[k] \in {0, instalacao.id}

\* A call of the plugin has every required secret, and none that was left by
\* an installation before the one it read (ResolvePluginRuntimeUseCase).
RuntimeInteiro ==
    \A c \in Chamadas : Entregue(c) =>
        \A k \in Exigidas : /\ chamada[c].abertas[k] # 0
                            /\ ~sobrepostas => chamada[c].abertas[k] >= chamada[c].lida.id

\* The stored status follows the transitions of the domain, a new row is a new
\* installation, and what was removed does not come back (TRANSICOES).
CicloDeVida ==
    [][~sobrepostas' =>
          \/ instalacao' = Ausente
          \/ instalacao.id = 0 /\ instalacao'.status = "installed"
          \/ /\ instalacao'.id = instalacao.id
             /\ instalacao'.status \in {instalacao.status} \union Transicoes[instalacao.status]]_vars

-----------------------------------------------------------------------------
(* The inductive invariant.                                                *)

\* Rows that exist have an id that was made, whose permissions are known.
LinhaBoa(l) ==
    /\ l.id <= criadas
    /\ l.id = 0 <=> l.status = "ausente"

\* What a request remembers, whoever else is at work.
PedidoBom(c) ==
    /\ chamada[c].passo = "listar" => chamada[c].lida.status # "ausente"
    /\ chamada[c].passo = "abrir" =>
          \A k \in Exigidas \ chamada[c].faltam : chamada[c].abertas[k] # 0

\* ... and what it knows as long as writing requests have not overlapped: the
\* row is still the one it read, and what it will save is the next stage of it.
SozinhaBoa(c) ==
    /\ Escreve(c) => \A d \in Chamadas \ {c} : ~Escreve(d)
    /\ chamada[c].passo \in {"configurar", "listar"} => chamada[c].lida = instalacao
    /\ chamada[c].passo = "gravar" =>
          \/ /\ instalacao.id = 0
             /\ chamada[c].lida.id = criadas
             /\ chamada[c].lida.status = "installed"
          \/ /\ instalacao.id = chamada[c].lida.id
             /\ chamada[c].lida.status \in Transicoes[instalacao.status]
    /\ chamada[c].passo = "apagarLinha" => segredos = SemSegredos
    /\ chamada[c].passo = "abrir" =>
          /\ instalacao.id = 0 \/ chamada[c].lida.id <= instalacao.id
          /\ \A k \in Chaves : chamada[c].abertas[k] = 0
                               \/ chamada[c].lida.id <= chamada[c].abertas[k]

\* The inductive invariant of the module.
Inv ==
    /\ TypeOK
    /\ PermissaoDaInstalacao
    /\ SoHabilitaVerificada
    /\ SegredoDoDono
    /\ \A l \in Linhas : LinhaBoa(l)
    /\ \A c \in Chamadas : PedidoBom(c) /\ (~sobrepostas => SozinhaBoa(c))

-----------------------------------------------------------------------------
(* What the documentation says and overlapping requests break.             *)

\* Reconfiguring an enabled plugin does not take it down: only disable does
\* (docs/api/plugins.md, PluginInstallation.configure).
ReconfigurarNaoDerruba ==
    [][instalacao.status = "enabled" /\ instalacao'.id = instalacao.id
          => instalacao'.status \in {"enabled", "disabled"}]_vars
=============================================================================
