------------------------------- MODULE Montagem -------------------------------
(***************************************************************************)
(* What this installation is made of, and what is refused at start: the    *)
(* manifests of the modules, the order they are loaded and migrated in,    *)
(* the manifest of the plugin that comes with it.  Everything is known     *)
(* before the first process runs, so there is no state.                    *)
(***************************************************************************)
EXTENDS Superficie

\* A manifest: what the module is called, which modules it needs, the keys it
\* brings and the events it may publish.  A key and the name of an event are
\* the sequences of their segments.
Manifesto(id, dependencias, permissoes, eventos) ==
    [id |-> id, dependencias |-> dependencias,
     permissoes |-> permissoes, eventos |-> eventos]

\* <<a, b, c>> for every c: the acts on one entity of a module.
Sobre(modulo, entidade, atos) == {<<modulo, entidade, ato>> : ato \in atos}

identityManifest ==
    Manifesto("identity", <<>>,
        Sobre("platform", "user", {"read", "manage"}),
        Sobre("identity", "user", {"created"}))

tenancyManifest ==
    Manifesto("tenancy", <<"identity">>,
        Sobre("platform", "tenant", {"read"}) \union Sobre("platform", "module", {"manage"})
          \union Sobre("platform", "audit", {"read"}),
        Sobre("tenancy", "tenant", {"created"}) \union Sobre("tenancy", "entitlement", {"granted"}))

pluginsManifest ==
    Manifesto("plugins", <<>>,
        Sobre("platform", "plugin", {"read", "manage"}),
        Sobre("platform", "plugin", {"enabled", "disabled"}))

crmManifest ==
    Manifesto("crm", <<>>,
        Sobre("crm", "customer", {"read", "create", "update"})
          \union Sobre("crm", "note", {"create"})
          \union Sobre("crm", "appointment", {"read", "schedule", "update"}),
        Sobre("crm", "customer", {"created", "updated"})
          \union Sobre("crm", "note", {"added"})
          \union Sobre("crm", "appointment", {"scheduled", "completed", "canceled"}))

commercialManifest ==
    Manifesto("commercial", <<"crm">>,
        Sobre("commercial", "proposal", {"read", "create", "update", "send", "approve"}),
        Sobre("commercial", "proposal", {"sent", "approved", "rejected"}))

contractsManifest ==
    Manifesto("contracts", <<"commercial">>,
        Sobre("contracts", "contract", {"read", "create", "activate", "close"}),
        Sobre("contracts", "contract", {"activated", "finished", "canceled"}))

assetsManifest ==
    Manifesto("assets", <<>>,
        Sobre("assets", "asset", {"read", "manage", "hold", "retire"}),
        Sobre("assets", "asset", {"registered", "unavailable", "available", "retired"}))

operationsManifest ==
    Manifesto("operations", <<"contracts", "assets">>,
        Sobre("operations", "rental", {"read", "create", "manage"}),
        Sobre("operations", "rental", {"started", "finished", "canceled"}))

modulosInstalados ==
    << identityManifest, tenancyManifest, pluginsManifest, crmManifest,
       commercialManifest, contractsManifest, assetsManifest, operationsManifest >>

-----------------------------------------------------------------------------
(* resolveModules: what it refuses, and the order it answers.              *)

Manifestos == ToSet(modulosInstalados)

ModulosConhecidos == {m.id : m \in Manifestos}

DeId(id) == CHOOSE m \in Manifestos : m.id = id

IdsUnicos == Cardinality(ModulosConhecidos) = Len(modulosInstalados)

DependenciasPresentes ==
    \A m \in Manifestos : ToSet(m.dependencias) \subseteq ModulosConhecidos

\* Of any modules, one at least needs none of the others.
SemCiclos ==
    \A ids \in SUBSET ModulosConhecidos : ids # {} =>
        \E id \in ids : ToSet(DeId(id).dependencias) \intersect ids = {}

PermissaoDeUmSo ==
    \A m, n \in Manifestos : m # n => m.permissoes \intersect n.permissoes = {}

\* Depth first: a module comes after those it depends on.
Visitar[feitos \in Seq(ModulosConhecidos), id \in ModulosConhecidos] ==
    IF Contains(feitos, id) THEN feitos
    ELSE Append(FoldLeft(LAMBDA f, d : Visitar[f, d], feitos, DeId(id).dependencias), id)

Ordenados == FoldLeft(LAMBDA f, m : Visitar[f, m.id], <<>>, modulosInstalados)

-----------------------------------------------------------------------------
(* The plugins of the installation, checked against what was resolved.     *)

EventosConhecidos == UNION {m.eventos : m \in Manifestos}

notificationsManifest ==
    [id |-> "notifications-example", permissoes |-> {<<"crm", "customer", "read">>},
     segredos |-> {"signingSecret"}, consome |-> {}, publica |-> {}]

CatalogoDePlugins == <<notificationsManifest>>

\* A plugin asks for nothing that is its own to give, and knows no event that
\* nobody publishes.
ManifestoValido(p) ==
    /\ \A chave \in p.permissoes : UnidadeDe(chave) # <<"plugin", p.id>>
    /\ p.consome \union p.publica \subseteq EventosConhecidos

PluginsMontaveis ==
    /\ \A i \in DOMAIN CatalogoDePlugins : ManifestoValido(CatalogoDePlugins[i])
    /\ \A i, j \in DOMAIN CatalogoDePlugins :
          CatalogoDePlugins[i].id = CatalogoDePlugins[j].id => i = j

\* The processes start: nothing here is refused.
PlataformaMontavel ==
    /\ IdsUnicos /\ DependenciasPresentes /\ SemCiclos /\ PermissaoDeUmSo
    /\ PluginsMontaveis
    /\ CatalogoMontavel

-----------------------------------------------------------------------------
(* Migrations.                                                             *)

\* The files of a module, in the order of their names.
ArquivosDe(fonte) ==
    IF fonte \in {"identity", "tenancy"} THEN <<"0001", "0002">> ELSE <<"0001">>

\* Audit and outbox come before the modules.
Fontes == <<"audit", "events">> \o Ordenados

Migracoes ==
    FlattenSeq([i \in DOMAIN Fontes |->
        [j \in DOMAIN ArquivosDe(Fontes[i]) |-> <<Fontes[i], ArquivosDe(Fontes[i])[j]>>]])

\* The migrations of tables that those of another file refer to.
Refere(m) ==
    CASE m \in {<<"identity", "0002">>, <<"tenancy", "0001">>} -> {<<"identity", "0001">>}
      [] m = <<"tenancy", "0002">> -> {<<"tenancy", "0001">>}
      [] OTHER -> {}

\* Permissions of the roles every company has from the start.
PapeisDeSistema ==
    [owner |-> {Tudo}, admin |-> {<<"platform", "*">>}, member |-> {}]
=============================================================================
