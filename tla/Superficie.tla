------------------------------ MODULE Superficie ------------------------------
(***************************************************************************)
(* The two surfaces of the platform: the routes of the REST API, one set   *)
(* per controller, and the capabilities of the MCP gateway, one set per    *)
(* module.  Each entry says which use case it runs and what it requires.   *)
(* Bodies, queries and the JSON of the answers are left out.               *)
(***************************************************************************)
EXTENDS Permissoes

CONSTANT Nulo  \* null, in the modules built on this one

\* A route: the use case it is for, all that its handler runs, and the key its
\* decorator requires.
Ler(caso, chave) ==
    [caso |-> caso, casos |-> {caso}, escreve |-> FALSE, exige |-> {chave}]
Agir(caso, chave) ==
    [caso |-> caso, casos |-> {caso}, escreve |-> TRUE, exige |-> {chave}]

\* A route that asks for an identity and nothing else.
SoIdentidade(caso, escreve) ==
    [caso |-> caso, casos |-> {caso}, escreve |-> escreve, exige |-> {}]

RotasDeClientes ==
    { Agir("CreateCustomer", <<"crm", "customer", "create">>),
      Ler("SearchCustomers", <<"crm", "customer", "read">>),
      Ler("GetCustomer", <<"crm", "customer", "read">>),
      Agir("UpdateCustomer", <<"crm", "customer", "update">>),
      Agir("AddCustomerNote", <<"crm", "note", "create">>),
      Ler("ListCustomerNotes", <<"crm", "customer", "read">>) }

RotasDeAgenda ==
    { Agir("ScheduleAppointment", <<"crm", "appointment", "schedule">>),
      Ler("ListAgenda", <<"crm", "appointment", "read">>),
      Agir("CloseAppointment.complete", <<"crm", "appointment", "update">>),
      Agir("CloseAppointment.cancel", <<"crm", "appointment", "update">>) }

\* The asset is read again for the answer: its situation and its current hold.
AtualizarAtivo == [Agir("UpdateAsset", <<"assets", "asset", "manage">>)
                      EXCEPT !.casos = {"UpdateAsset", "GetAsset"}]

RotasDeAtivos ==
    { Agir("RegisterAsset", <<"assets", "asset", "manage">>),
      AtualizarAtivo,
      Agir("RetireAsset", <<"assets", "asset", "retire">>),
      Ler("SearchAssets", <<"assets", "asset", "read">>),
      Ler("GetAsset", <<"assets", "asset", "read">>),
      Ler("CheckAvailability", <<"assets", "asset", "read">>) }

RotasDeBloqueios ==
    { Agir("HoldAsset", <<"assets", "asset", "hold">>),
      Agir("ReleaseHold", <<"assets", "asset", "hold">>) }

RotasDePropostas ==
    { Agir("CreateProposal", <<"commercial", "proposal", "create">>),
      Ler("SearchProposals", <<"commercial", "proposal", "read">>),
      Ler("GetProposal", <<"commercial", "proposal", "read">>),
      Agir("UpdateProposal", <<"commercial", "proposal", "update">>),
      Agir("SendProposal", <<"commercial", "proposal", "send">>),
      Agir("DecideProposal.accept", <<"commercial", "proposal", "approve">>),
      Agir("DecideProposal.reject", <<"commercial", "proposal", "approve">>) }

RotasDeContratos ==
    { Agir("CreateContract", <<"contracts", "contract", "create">>),
      Ler("SearchContracts", <<"contracts", "contract", "read">>),
      Ler("GetContract", <<"contracts", "contract", "read">>),
      Agir("ActivateContract", <<"contracts", "contract", "activate">>),
      Agir("CloseContract.finish", <<"contracts", "contract", "close">>),
      Agir("CloseContract.cancel", <<"contracts", "contract", "close">>) }

RotasDeLocacoes ==
    { Agir("ScheduleRental", <<"operations", "rental", "create">>),
      Ler("SearchRentals", <<"operations", "rental", "read">>),
      Ler("GetRental", <<"operations", "rental", "read">>),
      Agir("StartRental", <<"operations", "rental", "manage">>),
      Agir("FinishRental", <<"operations", "rental", "manage">>),
      Agir("CancelRental", <<"operations", "rental", "manage">>) }

RotasDePlugins ==
    { Ler("ListPlugins", <<"platform", "plugin", "read">>),
      Agir("InstallPlugin", <<"platform", "plugin", "manage">>),
      Agir("ConfigurePlugin", <<"platform", "plugin", "manage">>),
      Agir("ChangePluginStatus.enable", <<"platform", "plugin", "manage">>),
      Agir("ChangePluginStatus.disable", <<"platform", "plugin", "manage">>),
      Agir("ChangePluginStatus.uninstall", <<"platform", "plugin", "manage">>) }

RotasDeNotificacoes ==
    { Agir("SendNotification", <<"plugin", "notifications-example", "message", "send">>) }

RotasDeModulos ==
    { Ler("ManageEntitlements.list", <<"platform", "tenant", "read">>),
      Agir("ManageEntitlements.grant", <<"platform", "module", "manage">>),
      Agir("ManageEntitlements.revoke", <<"platform", "module", "manage">>) }

RotasDeAuditoria == { Ler("AuditLogger.list", <<"platform", "audit", "read">>) }

RotasDeTokens ==
    { SoIdentidade("PersonalAccessToken.issue", TRUE),
      SoIdentidade("PersonalAccessToken.list", FALSE),
      SoIdentidade("PersonalAccessToken.revoke", TRUE) }

RotasDeIdentidade ==
    { SoIdentidade("me", FALSE), SoIdentidade("my-tenants", FALSE) }

\* Login, refresh, logout, service token and health are public: no access is
\* resolved for them.
Rotas ==
    UNION { RotasDeClientes, RotasDeAgenda, RotasDeAtivos, RotasDeBloqueios,
            RotasDePropostas, RotasDeContratos, RotasDeLocacoes, RotasDePlugins,
            RotasDeNotificacoes, RotasDeModulos, RotasDeAuditoria, RotasDeTokens,
            RotasDeIdentidade }

-----------------------------------------------------------------------------
(* Capabilities of the MCP gateway.                                        *)

\* A capability runs its use cases, or the one its arguments choose.  leitura is
\* the hint given to the host: it changes nothing.
Consulta(nome, casos, chave) ==
    [nome |-> nome, casos |-> casos, exige |-> {chave}, leitura |-> TRUE, app |-> "nenhuma"]
Acao(nome, casos, chave) ==
    [nome |-> nome, casos |-> casos, exige |-> {chave}, leitura |-> FALSE, app |-> "nenhuma"]

FerramentasDeCrm ==
    { Consulta("crm.customer.search", {"SearchCustomers"}, <<"crm", "customer", "read">>),
      Consulta("crm.customer.get", {"GetCustomer"}, <<"crm", "customer", "read">>),
      Acao("crm.customer.create", {"CreateCustomer"}, <<"crm", "customer", "create">>),
      Acao("crm.note.add", {"AddCustomerNote"}, <<"crm", "note", "create">>),
      Acao("crm.appointment.schedule", {"ScheduleAppointment"},
           <<"crm", "appointment", "schedule">>),
      Acao("crm.appointment.complete", {"CloseAppointment.complete"},
           <<"crm", "appointment", "update">>),
      Consulta("crm.agenda.list", {"ListAgenda"}, <<"crm", "appointment", "read">>) }

RecursosDeCrm ==
    { Consulta("crm.customer", {"GetCustomer"}, <<"crm", "customer", "read">>),
      Consulta("crm.customer.history", {"GetCustomer"}, <<"crm", "customer", "read">>) }

RoteirosDeCrm ==
    { Consulta("crm.customer.analysis", {"GetCustomer"}, <<"crm", "customer", "read">>) }

\* The board of assets is a screen: it runs nothing by itself.
TelaDoPatio ==
    Consulta("assets.asset.board", {}, <<"assets", "asset", "read">>)

FerramentasDeAtivos ==
    { [Consulta("assets.asset.search", {"SearchAssets"}, <<"assets", "asset", "read">>)
          EXCEPT !.app = TelaDoPatio.nome],
      Consulta("assets.asset.get", {"GetAsset"}, <<"assets", "asset", "read">>),
      Consulta("assets.asset.availability", {"CheckAvailability"},
               <<"assets", "asset", "read">>),
      Acao("assets.asset.register", {"RegisterAsset"}, <<"assets", "asset", "manage">>),
      Acao("assets.asset.update", {"UpdateAsset", "GetAsset"},
           <<"assets", "asset", "manage">>),
      Acao("assets.asset.hold", {"HoldAsset"}, <<"assets", "asset", "hold">>),
      Acao("assets.asset.release", {"ReleaseHold"}, <<"assets", "asset", "hold">>),
      Acao("assets.asset.retire", {"RetireAsset"}, <<"assets", "asset", "retire">>) }

RecursosDeAtivos ==
    { Consulta("assets.asset", {"GetAsset"}, <<"assets", "asset", "read">>) }

\* Mutant of AprovarProposta: whoever sends a proposal may approve it too.
AprovarPorQuemEnvia ==
    Acao("commercial.proposal.approve", {"DecideProposal.accept", "DecideProposal.reject"},
         <<"commercial", "proposal", "send">>)

AprovarProposta ==
    Acao("commercial.proposal.approve", {"DecideProposal.accept", "DecideProposal.reject"},
         <<"commercial", "proposal", "approve">>)

FerramentasDePropostas ==
    { Consulta("commercial.proposal.search", {"SearchProposals"},
               <<"commercial", "proposal", "read">>),
      Consulta("commercial.proposal.get", {"GetProposal"}, <<"commercial", "proposal", "read">>),
      Acao("commercial.proposal.create", {"CreateProposal"},
           <<"commercial", "proposal", "create">>),
      Acao("commercial.proposal.send", {"SendProposal"}, <<"commercial", "proposal", "send">>),
      AprovarProposta }

FerramentasDeContratos ==
    { Consulta("contracts.contract.search", {"SearchContracts"},
               <<"contracts", "contract", "read">>),
      Consulta("contracts.contract.get", {"GetContract"}, <<"contracts", "contract", "read">>),
      Acao("contracts.contract.create", {"CreateContract"},
           <<"contracts", "contract", "create">>),
      Acao("contracts.contract.activate", {"ActivateContract"},
           <<"contracts", "contract", "activate">>),
      Acao("contracts.contract.close", {"CloseContract.finish", "CloseContract.cancel"},
           <<"contracts", "contract", "close">>) }

FerramentasDeLocacoes ==
    { Consulta("operations.rental.search", {"SearchRentals"}, <<"operations", "rental", "read">>),
      Consulta("operations.rental.get", {"GetRental"}, <<"operations", "rental", "read">>),
      Acao("operations.rental.schedule", {"ScheduleRental"},
           <<"operations", "rental", "create">>),
      Acao("operations.rental.start", {"StartRental"}, <<"operations", "rental", "manage">>),
      Acao("operations.rental.close", {"FinishRental", "CancelRental"},
           <<"operations", "rental", "manage">>) }

FerramentasDeNotificacoes ==
    { Acao("plugin.notifications-example.message.send", {"SendNotification"},
           <<"plugin", "notifications-example", "message", "send">>) }

\* What the gateway can do for anyone, before any access is looked at.
Ferramentas ==
    UNION { FerramentasDeCrm, FerramentasDeAtivos, FerramentasDePropostas,
            FerramentasDeContratos, FerramentasDeLocacoes, FerramentasDeNotificacoes }

Catalogo ==
    UNION { Ferramentas, RecursosDeCrm, RecursosDeAtivos, RoteirosDeCrm, {TelaDoPatio} }

\* The gateway starts only with a catalogue in which everything requires
\* something, no two tools share a name and every screen named exists.
CatalogoMontavel ==
    /\ \A c \in Catalogo : c.exige # {}
    /\ \A f, g \in Ferramentas : f.nome = g.nome => f = g
    /\ \A f \in Ferramentas : f.app \in {"nenhuma", TelaDoPatio.nome}

-----------------------------------------------------------------------------
(* What a person may reach, with a given access.                           *)

\* The capabilities a call or a read reaches, and those a listing shows.
Alcancaveis(concessao) == { c \in Catalogo : AutorizaTodas(concessao, c.exige) }

Visiveis(concessao) == { c \in Catalogo : AutorizaTodas(concessao, c.exige) }

\* The modules this installation knows, and the plugins its artifacts carry.
Modulos == { <<"crm">>, <<"assets">>, <<"commercial">>, <<"operations">>, <<"contracts">> }

PluginsInstalados == { <<"plugin", "notifications-example">> }

\* Every key some entry requires.
Chaves == UNION ({ r.exige : r \in Rotas } \union { c.exige : c \in Catalogo })
=============================================================================
