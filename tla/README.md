# ecoJotaduo: TLA+ models, model checking and proofs

ecoJotaduo is a multi-tenant ERP: a TypeScript modular monolith (a NestJS API,
an MCP gateway for agents and a background worker) over one Postgres database
with row-level security per tenant. This directory holds TLA+ models of the parts
of it whose correctness depends on the order in which several processes and
requests act, the TLC configurations that check them on small instances, and
TLAPS proofs of what matters most for instances of any size.

Identifiers in the models keep the (mostly Portuguese) names of the source, so
that a definition can be read beside the code it stands for. `PROJECT.json`
gives, for every definition, the file and the lines it models.

## 1. The system

### How a request becomes a change

Every use case follows one pattern, and it is the source of most of what is
hard here:

1. it reads what it needs, each repository call in a transaction of its own
   (`withTenant`), at `READ COMMITTED`;
2. the aggregate decides in memory (`proposta.send()`, `hold.release()`);
3. `uow.executar` opens one transaction in which the aggregate is saved (an
   upsert by id: no version column, and no condition on the status that was
   read), the event is inserted in the outbox and the audit trail is written.

So between 1 and 3 the decision may have become stale, and the save does not
notice. What still protects the data is in the database: row locks until the
commit, unique and exclusion constraints, and the fact that the three writes of
step 3 happen together or not at all.

### Components

| component | state | operations | who it talks to |
|---|---|---|---|
| events (`packages/events`) | rows of `platform_outbox`: status, attempts, delivered_to, available_at | publish, batch, record a delivery, conclude, delay, revive, count | use cases insert in their own transaction; the dispatcher calls handlers |
| worker (`apps/worker`) | nothing but memory: the batch, the event in hand | cycle, sleep, stop | one dispatcher per process |
| assets | assets (status), holds (period, released_at) | register, update, retire, hold, release; availability | operations, through its public API |
| operations | rentals (status, period, hold id) | schedule, start, finish, cancel | contracts (reads), assets (holds), outbox |
| contracts | contracts (status, term, value) | create from an accepted proposal, activate, finish, cancel | commercial (reads), outbox |
| commercial | proposals and their items | create, update, send, accept, reject | crm (reads), outbox |
| crm, crm-service | customers, notes, appointments | create and update a customer, note, schedule, complete, cancel, timeline; look a customer up, in process or over HTTP | commercial (its public API), outbox |
| plugins | installations, secrets | install, configure, enable, disable, uninstall | permissions (what a plugin may do), handlers |
| identity | users, refresh tokens, personal and service credentials | verify, rotate, issue, revoke | tenancy, which signs in and renews |
| session in the browser (`packages/api-client`, `apps/api/src/auth`) | the cookie, the renewal in course of each tab | sign in, renew, sign out | identity, through the API |
| tenancy, permissions | companies, memberships, roles, contracted modules | resolve a grant, decide, contract and cancel a module | the guard of the API, the MCP gateway |
| HTTP API, MCP gateway | none but the request in hand | routes, tools, resources, prompts and one screen, each with the keys it requires | every use case |
| web | searches, the row on screen, the request of a button or form | seven pages | the API |
| database | the pool, the transaction in scope | unit of work, tenant scope, migrations | all of the above |
| provisioning, migrate (`apps/api/src/cli`) | the ledger of migrations, the first rows of a company | migrate, provision | the database, as its owner |
| platform kernel, plugin SDK, platform core | manifests, constant | resolve modules, validate plugins | every process, when it starts |
| audit, http-kit, config, auth | none shared | logging, translation, cryptography | |

### What is hard

- **Interleaved requests.** Two requests decide on the same row and both save:
  two closings of a rental, a release and a return of the same hold, a late
  update of a proposal that was sent meanwhile.
- **A dispatcher without a transaction.** The worker reads a batch in one
  transaction, calls handlers (webhooks, indexers) with none, and writes each
  outcome in another. It may die between any two of them; a handler may fail
  before or after its effect; and `deploy.md` allows several replicas.
- **Two modules, one transaction.** Scheduling, returning and canceling a
  rental write rows of two modules and must stay whole when the second refuses.
- **Time.** Expired proposals, ended contracts, overdue rentals and open holds
  are derived from the clock at each read; an event delayed by the backoff is
  compared by the database with an instant the process wrote.
- **Use cases of several transactions.** A plugin's configuration is written secret
  by secret, and removed in two steps; a refresh token is consumed in one
  transaction and replaced in another. Any of them may be the last.
- **Access that changes under a request.** A grant is put together from five reads,
  each with a snapshot of its own, and every route and every MCP entry declares by
  hand what it requires.
- **Screens that are late.** Searches answer out of order, the person moves on to
  another row, and buttons are offered by what was true when the page was loaded.
- **Transactions found through the call stack.** A repository takes part in the
  transaction of whoever called it, with its company and its person as settings of
  that transaction, over connections that are few and shared.
- **Commands run twice.** A deploy or a provisioning may overlap with another, or be
  repeated after it broke off.
- **Progress.** Every event must be delivered or declared dead in the end,
  whatever one bad integration does.

The list, hazard by hazard and at the line where each bites, is in `PROJECT.json`
(`hazards`), with the properties that would catch each one.

## 2. Modules

| module | stands for | extends |
|---|---|---|
| `AtLeastOnce` | the abstract promise of the outbox to publishers and consumers | |
| `Outbox` | `packages/events` and `apps/worker` | instantiates `AtLeastOnce` |
| `Outbox_proofs` | theorems about `Outbox` | `Outbox`, `TLAPS` |
| `MCOutbox` | small instances | `Outbox` |
| `Assets` | `modules/assets` | |
| `Rentals` | `modules/operations` composed with assets, contracts as environment | `Assets` |
| `Rentals_proofs` | theorems about `Rentals` | `Rentals`, `TLAPS` |
| `MCRentals` | small instances | `Rentals` |
| `Proposals` | `modules/commercial` | |
| `Contracts` | `modules/contracts` composed with commercial | `Proposals` |
| `Contracts_proofs` | theorems about `Proposals` and `Contracts` | `Contracts`, `TLAPS` |
| `MCContracts` | small instances | `Contracts` |
| `Plugins` | `modules/plugins` | |
| `Plugins_proofs` | theorems about `Plugins` | `Plugins`, `TLAPS` |
| `MCPlugins` | a small instance | `Plugins` |
| `Sessions` | `modules/identity` (refresh tokens), sign-in and renewal of `modules/tenancy`, the cookie of `apps/api`, the renewal of `packages/api-client` | |
| `Sessions_proofs` | theorems about `Sessions` | `Sessions`, `TLAPS` |
| `MCSessions` | a small instance | `Sessions` |
| `Crm` | `modules/crm`, `apps/crm-service` and its client | |
| `Crm_proofs` | theorems about `Crm` | `Crm`, `TLAPS` |
| `Permissoes` | `packages/permissions`: keys, patterns, the decision | |
| `Superficie` | what the routes of `apps/api` and the MCP contributions of the modules require | `Permissoes` |
| `Acesso` | `modules/tenancy`, the personal tokens of `modules/identity`, the guard of the API and the gateway | `Superficie` |
| `Telas` | `apps/web` | `Superficie` |
| `TudoOuNada` | the abstract promise of the kernel's `UnitOfWork` | |
| `UnidadeDeTrabalho` | `packages/database` but its migrations | instantiates `TudoOuNada` |
| `UnidadeDeTrabalho_proofs` | theorems about `UnidadeDeTrabalho` | `UnidadeDeTrabalho`, `TLAPS` |
| `Montagem` | `packages/platform-kernel`, the manifests, `packages/plugin-sdk`, the order of the migrations | `Superficie` |
| `Implantacao` | `packages/database` (migrations), the commands `migrate` and `provisionar-empresa` of `apps/api` | `Montagem` |
| `Superficie_proofs` | theorems about `Acesso`, `Telas` and `Implantacao` | the three of them, `TLAPS` |
| `MCCrm`, `MCAcesso`, `MCTelas`, `MCUnidadeDeTrabalho`, `MCImplantacao` | small instances | the modules of their names |

### Outbox

*State.* `status`, `attempts`, `deliveredTo` are the columns of a row; `vez` is
the row's place in the order by `available_at` among the rows already due (0 when
it is not due), which keeps the order the batch sees without a clock. `worker[w]`
is the memory of a process: where it is in the loop (`fase`), tenants and events
left, the `attempts` it read, the current event, the handlers still to call and
whether one failed. `recebido` is a history variable: the handlers whose effect
has happened.

*Actions.* One step is one database transaction or one handler call.
`Publicar` is `DrizzleEventPublisher.publish` (its row commits with the use case),
`Amadurecer` is time passing, `Reviver` the operator's command. The cycle is
`IniciarCiclo` (`platform_outbox_pending_tenants`), `Lote`, `AbrirEvento`
(`entreguesA`), `TratarComExito`/`TratarComFalha`, `RegistrarEntrega`, `Concluir`,
`Adiar`, `TerminarCiclo`. Failures are `RegistrarEntregaFalha` (caught like a
handler's failure), `FalharCiclo` (anything outside the `try` rejects: the cycle
is dropped) and `Encerrar`/`Reiniciar` (the process dies or is stopped; on
SIGTERM `main.ts` does not wait for the cycle in course).

*Abstractions.* Events of a batch, handlers of an event and tenants of a cycle
are taken in any order, where the code has one: every behaviour of the code is a
behaviour of the model. The exact backoff is left out: a delayed row is due again
some time later. `available_at` is written with the process's clock, so a new row
may land anywhere in the order or behind the database's clock. `PodemEstarTravadas`
lets `skip locked` skip any row another worker is writing at that moment.

### Assets and Rentals

*State.* `ativo` (status of an asset), `bloqueio` (row of a hold: asset, period,
released_at), `locacao` (row of a rental), `contrato` (status of a contract),
`agora` (the clock). `pedido[s]` and `tarefa[o]` are what requests of the two
modules remember between their read and their save. `encerramentos` is a history
variable: closing events published for a rental.

*Actions.* Every use case is a read step (`Ler...`) and a save step
(`Gravar...`); a request may be given up in between (`Abandonar`, `Desistir`: a
refusal or a failure that rolls everything back). `Gravar` is an insert or update
of a hold that the exclusion constraint of `0001_assets.sql` accepts. Scheduling
is one unit of work in two steps, as `HoldAssetUseCase` looks for a free period by
reading and locks nothing: `ConferirReserva` finds the asset active and free,
`GravarProgramacao` inserts hold and rental and commits. A return or a
cancellation is two steps, because the save of the rental locks its row before
the hold is read: `Trancar` takes the lock and reads the hold, `GravarEncerramento`
commits status, release and event together. That the rows of one unit are stored
together is taken from `UnidadeDeTrabalho`, where it is checked and proved. Two consecutive reads of one request
are merged into one step when nothing is written between them and only the later
one guards the save. Contracts are an environment here: any contract becomes
active or closed at any time (`AndamentoDoContrato`), which includes everything
their own stale saves can do, except that none returns to draft. That real
contracts move only as this environment does is a property of `Contracts`
(`EvoluiComoOperacoesSupoe`), checked and proved there.

*Abstractions.* Names, codes, numbers, categories, searches and the started event
carry no property. Periods are pairs of instants of a small clock.

### Proposals and Contracts

*State.* `proposta` (status, items and validity of a stored proposal), `contrato`
(status, proposal, value and end of a contract), `agora`. `pedido[s]` and
`tarefa[o]` are the aggregates that requests of the two modules have in memory.
`enviadas`, `aprovadas` and `eventos` are history variables: what the published
events announced.

*Actions.* A proposal is read in two steps, because `findById` selects header and
items with two statements and each statement of a `READ COMMITTED` transaction has
its own snapshot: `LerCabecalho`, then `Decidir...` (the items as they are now, and
the decision of the aggregate). `Salvar` writes header and items together.
`LerProposta`/`LerValor` are the same two statements for a request of contracts;
`GravarFormalizacao` is the insert under the unique constraint on `proposal_id`;
`GravarSituacao` the saves of activation, finishing and canceling, which write only
the status (and dates) decided on. A request that its aggregate would refuse
changes nothing and is left out at the read.

*Abstractions.* A list of items stands for its total. The instant at which a
new proposal's validity was compared with the clock may be any earlier one, so
`Criar` only asks for a validity later than the start of the clock. The start of
a contract's term, numbers (reserved by one atomic statement), titles, notes and
customers carry no property.

### Plugins

*State.* One plugin of one company: `instalacao` is its row (or `Ausente`),
`segredos[k]` tells whether the secret `k` is stored and which installation its
writer had read, `chamada[c]` is what a request remembers between its
transactions. `concedidas`, `verificadas` and `sobrepostas` are history variables:
permissions granted to each installation, installations whose secrets were seen
present, and whether two requests that write have overlapped.

*Actions.* No use case of this module runs in a unit of work, so each repository
call is a step. `Ler...` is `find()` with the decision of the domain; then `Gravar`
(install and disable), `GravarSegredo` once for each key and `GravarConfiguracao`
(configure), `ListarChaves` and then `Gravar` (enable), `ApagarSegredos` and `ApagarLinha` (uninstall). `Salvar` is the
upsert by id of the whole row, which inserts again a row that was removed, and
which the unique constraint refuses when another installation is there.
`LerParaResolver`, `AbrirSegredo` and `Entregue` are the runtime a call of the plugin
gets; `Abandonar` is a refusal or a failure between any two transactions.

*What holds under which hypothesis.* `PermissaoDaInstalacao`, `SoHabilitaVerificada`
and the first half of `RuntimeInteiro` hold however requests interleave. `SegredoDoDono`,
`CicloDeVida` and the other half only hold while requests that write do not
overlap (`~sobrepostas`): an administrator, one request at a time, any of which may
fail halfway. With overlaps a configure may put back a secret, or a row, that an
uninstall removed, and no source says that it may not; it may also undo an enable (§3, Divergences).

*Abstractions.* The catalogue is constant. Versions, the values of configurations
and secrets, health checks and listings carry no property; whether a configuration
passes its schema is a choice.

### Sessions

*State.* One user in one browser. `token[t]` is a row of `identity_refresh_tokens`
(alive or revoked, expired or not, `substituto` = `replaced_by_id`); `familia`, the
sign-in it descends from, is not stored by the code. `requisicao[q]` follows a
request from its sending to its reply, with the cookie it was sent with. `cookie`
is what the browser holds. `encerradas` and `perturbada` are history variables:
families ended while no rotation of theirs was half done, and whether requests
overlapped or one failed.

*Actions.* In the browser: `Entrar`, `Renovar` (`RenovadorDeSessao`: one renewal in
each tab at a time), `Sair`, `Responder` (the reply sets or clears the cookie),
`Recarregar` (the page is gone, the server goes on). On the server each statement
is a transaction: `EmitirPrimeiro` (sign-in), `Achar` (`findByHash`), `Revogar` (the
conditional update), `Emitir` (the insert of the substitute), `Alarmar` and
`Encerrar` (`revokeAllOfUser`). `Falhar` is a failure between any two of them, access
refused after the rotation, or a lost reply. `Vencer` is expiry.

*Abstractions.* Credentials are right: a refused sign-in changes nothing. The
look-up of `revokeSession` is merged with its update: rows are never deleted, and
the update does not depend on what was read but for the user. A tab asks for a
renewal only when there is a cookie; without one the server refuses before it reads
anything.

### Crm

*State.* `cliente`, `agenda`, `notas` are the rows; `pedido[p]` what a request
remembers, kept when it is over; `eventos` the events with the request that published
each. `antes[p]` is a history variable: the requests that were over when `p` began,
so that two requests are concurrent when neither is among those of the other.

*Actions.* A use case is its reads, each a step (`CriarCliente`, `AlterarCliente` and
`ConferirDono`; `Agendar` and `ConferirAgenda`; `Encerrar`), and its saving transaction
(`GravarCliente`, `GravarNota`, `GravarAgenda`): an upsert of the whole row with its
event, which only the unique document of a customer can refuse. The timeline is
`PedirFicha`, `ListarNotas`, `ListarAgenda`; the merge of the second list is in the
last one. The public lookup is one read (`Consultar`), or a call of the service
(`Chamar`, `Atender`, `Receber`) that may fail in either direction (`Falhar`), or be
answered with a 404 by whatever is at the other end (`Receber404`), which the client reads as null.

*Abstractions.* `contato` stands for name, e-mail and phone, and is told apart by the
request that gave it. `MaxItens` stands for the limit of the timeline. Searches and
the listing of an agenda are reads no property is about. A customer is archived by
hand only: no operation does it.

### Permissoes, Superficie and Acesso

`Permissoes` has no state: `Casa`, `Concede`, `Autoriza` are the functions of
`packages/permissions`, with a key as the sequence of its segments. `Superficie` lists,
controller by controller and contribution by contribution, what is declared: the use
cases each entry runs, whether it writes, the keys it requires. An entry may run more
than the one it is named for: an asset that was updated is read again for the answer
(`AtualizarAtivo`), which is a second use case under the key of the first.

*State of `Acesso`.* What access is made of (`empresa`, `vinculo`, `papeis`, `padroes`,
`contrato`, `habilitados`, `token`), the clock, one request and what it has read so
far, `obra` (contractings decided and not yet saved). `visto` and `faltou` are history
variables: the facts that held, and those that failed to hold, at some instant between
the first read of the request and its decision.

*Actions.* `Chegar` and `ChegarComToken` (`authenticate`), `LerEmpresa`, `LerVinculo`, and
then `LerPermissoes`, `LerContratos` and `LerExtras` in any order (they are issued
together); `Guardar` decides for the API and `Atender` for the gateway. What is asked for
matters only at that point, so one decision answers for every entry at once: `aberto`
are those it lets in, `lista` those it shows. A request that was let in may run a use
case that changes access (`Escolher`, `Executar`); `Administrar` and `MudarPorFora` are
everybody else. Contracting is a read and a save (`Contratar`, `SalvarContratacao`),
two transactions.

*Facts, not snapshots.* Comments of `resolve-access-grant.use-case.ts` and of
`unit-of-work.ts` expect the reads of one unit of work to see one state. Under `READ
COMMITTED` they do not, and `NegadoNaoPassa` and `QuemTemEntra` are stated fact by fact:
each thing a decision needs held at some instant of the request. A contracting that is
rewritten meanwhile counts as one that failed to hold.

*Abstractions.* The verification of a JWT reads nothing and is left out, as are the
trail of refusals and `last_used_at`. A service account passes the check that asks for
a session before it issues a personal token; it is the foreign key of the row that
refuses it (`PodeEmitir`).

### Telas

*State.* The page that is open (`tela`, `foco`: the row of its address), what
`useRecurso` keeps (`dados`, `carregando`, `erro`, the number of the last search), the
searches under way, the request of the button pressed or the form sent (`ato`), the
access loaded at sign-in (`acesso`), and the server's row and grant with their versions.

*Actions.* `Buscar` is the effect of `useRecurso` and part of whatever causes it; `ResponderBusca` and
`ReceberBusca` are the two ends of a search, in any order among searches. `Apertar`
presses one of `Oferecidos`; `Enviar` sends a form; `ResponderAto` and `ResponderFormulario`
are the server, with the domain's transition (`Transicao`) and the keys of the route;
`ReceberAto` reloads the page if the act was accepted. `Trocar` is another address or
filter, with the page still mounted; `Fechar` unmounts it. `Alterar` is what others do
meanwhile, and `Passar` gives a changed row its next version, a number the code does not keep. `Conteudo` gives the buttons and forms of
each page with the status they ask for and the key.

*Abstractions.* A list stands for the row of it that is looked at. What is typed is
right or wrong, as the server finds. A session made with a password has no ceiling of
scopes (`TelasAssumption`). `vencida` is a date that has passed. A page makes
one request at a time, which is a bound: the form of notes has no guard against a
second submission. The lists of options of the form of rentals are read once and are
data. The board is that of today.

### UnidadeDeTrabalho and TudoOuNada

*State.* `conexao[c]` is the transaction of a connection: company, person, rows written.
`fila` is the queue of the pool, `pedido[p]` the code of a request with its store of
`AsyncLocalStorage` (`em`, `fixado`), `chamada[p][i]` a repository call in flight.
`banco`, `perdidas` and `consulta` (the last statement: what it asked for and what it got)
record the effects.

*Actions.* `ChamarFora` and `ChamarDentro` are `withTenant` outside and inside a unit,
`Fixar` the statement that sets the person; `ExecutarSozinha`, `ConfirmarSozinha` and
`FalharSozinha` a lone transaction. `AbrirUnidade`, `Aninhar`, `FecharAninhada`, `FecharUnidade`
are `comUnidadeDeTrabalho`, `TomarConexao` the pool. `FalharAoFechar` is a commit that
fails, perhaps after the database did it; `Lancar` an exception; `Cair` the process.

`TudoOuNada` says what a use case may expect: a unit is stored whole or not at all,
nothing is added to it once it is stored or undone, and who is answered "ok" lost no
write and writes nothing more. `CumpreTudoOuNada` is the
refinement.

*Abstractions.* A person stands for each request. The queue of `postgres.js`, first in
first out, is external, and so is what it does with a read abandoned in a transaction
that is rolled back: it is forgotten. `withUserOnly` (a lone call without a company, at
sign-in) is left out.

### Montagem and Implantacao

`Montagem` has no state: the manifests as they are, what `resolveModules`, `PluginCatalog`
and `validarManifesto` refuse (`PlataformaMontavel`, which `Implantacao` assumes and TLC
evaluates: a manifest that the start would refuse stops the run), the order of modules and migrations.

*State of `Implantacao`.* `ledger` (`platform_migrations`), `esquema[m]` (the contents of file
`m` that were run, each once), `deploy[d]`; the rows of companies, accounts, memberships and
contractings; `comando[o]`. `sobrepostos` is a history variable: two deploys were under way at once.

*Actions.* `LerLedger` asks the ledger, before the lock; `Aplicar` runs and records a file
under the lock; `Cair` breaks off. The command's transaction is `ProcurarEmpresa`, `CriarEmpresa`,
`ProcurarPessoa`, `CriarPessoa`, `Vincular`, `Confirmar`, with the waits that uncommitted rows of another one
impose (`EsperaEmpresa`, `EsperaPessoa`); `Confirmar` may lose its answer.

*Abstractions.* The SQL of a file is the tables it makes and those it refers to; every file
may be run again. Formats, names, `assertAppRoleExists` and other statuses of a
membership are left out. Bounds: no deploy begins once an operator is at work, and a
company is provisioned after a deploy that ended well. A run of the command happens once.

## 3. What the runs check

| run | instance | what it shows |
|---|---|---|
| `outbox` | 2 workers, 2 events of 2 tenants, 2 handlers (one unstable), 2 attempts, batch of 1, 1 failure, fairness | `TypeOK` (attempts stay within the limit), `CumpreAPromessa` (refinement of `AtLeastOnce`), and the liveness `TodoEventoTermina` and `EstavelRecebe` |
| `rentals` | 1 asset, 2 holds, 2 rentals, 1 contract, 2 requests of operations, 1 of assets, instants 0..2 | equipment is promised twice only past a hold somebody released, each rental owns its hold, one closing, a closed rental frees its equipment, a late release reopens no hold |
| `rentals_overdue` | 1 rental, 1 request | violated: an overdue rental cannot be returned |
| `contracts` | 1 proposal, 3 lists of items (one empty), 2 contracts, 2 requests of each module, instants 0..1 | what is stored was announced, and contracts move as `Rentals` supposes, under stale saves and torn reads |
| `contracts_value` | the same | violated: a contract with a value nobody accepted |
| `plugins` | 2 requests of any kind, 2 installations, 2 required secrets and an unknown key, 1 permission asked for and 1 not | what holds however requests interleave and what holds while writes do not overlap (§2) |
| `sessions` | 2 tabs, 2 requests at a time, 3 tokens | one living token per family, ended sessions stay ended, a quiet browser keeps a valid cookie |
| `crm` | 3 requests of any kind, 1 document, 1 person, agenda of 4 instants, clock of 2, timeline of 1 | overlaps, double closings and lost changes only by races; a timeline that skips nothing |
| `acesso` | the whole surface; 1 role made of any key or of a pattern, 2 ceilings, 1 personal token, 2 changes, clock of 2 | nothing passes, and nobody is turned away, without a reason within the request; an agent runs nothing the API would not run for the same access |
| `telas` | the 7 pages, 2 rows, 3 accesses, 3 searches, 1 change | buttons act on the row on screen, and are refused only for what the page could not see |
| `unidade` | 2 requests, 2 companies, 1 connection, 4 and 1 steps, 2 levels, 1 death, fairness | statements run under their own company and person, units are atomic (`TudoOuNada`), nobody waits for ever |
| `implantacao` | 2 deploys of 3 images of the repository's migrations, 2 operators, 2 companies, 2 accounts | the tables are those of the image; what `provision` answered is true and stays so |

*Bounds, and why they are enough.* Two events of two tenants meet in the order by
`available_at` and in a cycle, two workers in one batch; two attempts give a first, a
last and the step between them; two handlers give one that fails and one that does not,
or one delivered and one missing. Two holds are
the fewest that overlap and two requests the fewest that race; three instants give
a period that has ended, one that covers the present and one to come. `MaxPanes`
bounds failures and `MaxTempo` the clock, `MaxInstalacoes` installations and
`MaxTokens` tokens. Proposals do not
interact with each other, so one is enough; two contracts compete for it, two
non-empty lists tell an old total from a new one, and one tick ends validity and
term. Two installations are the fewest of which one can inherit from the other. Three
tokens are a first, its substitute and the substitute of that one, or two families;
two requests are the fewest that present the same token. Three requests of the CRM are
one that makes a row and two that race for it; four instants have periods that
touch, that overlap and that contain one another; a timeline of one entry is full as soon as
there are two. One role is enough for `acesso` because a decision looks for a pattern
in the union of the roles, and it may be made of any key; two changes take away what was read and give it back, or
contract one thing while another goes. Three searches are two that
cross and one after an act; one change is the fewest that makes the page wrong. One connection is
the tightest pool: whatever waits for two, waits for ever; `MaxPassos` gives one request a unit
inside a unit with a write in each, and the other one call or an empty unit.

The runs that do not check deadlock stop where the system does: a rejected proposal
(`contracts`), the last installation removed (`plugins`), all requests answered (`crm`,
`unidade`), the bound on changes and the clock (`acesso`) or on searches (`telas`), the commands run
(`implantacao`). Holds, lists of items, rentals, requests, rows on
screen, deploys, operators, companies and accounts are symmetric (model values no
formula names); the runs with fairness use no symmetry.

*Fairness.* In `Outbox`, `Amadurecer` is weakly fair because time passes, and `Passo(w)`
because `iniciar()` loops while `rodando`, and because the orchestrator starts
a stopped process again. Publishing, reviving and failing are never fair.
`TodoEventoTermina` with an unfair failure and a bounded number of them says that
progress resumes once the failures stop; handler failures are not bounded, and the
unstable handler may fail for ever. In `UnidadeDeTrabalho`, the event loop runs whatever
may run (`DoPedido`, `DaChamada`) and the pool serves its queue (`TomarConexao`); that a
process dies is never fair.

### Findings

- **`rentals_overdue`.** The hold of a rental ends with the rental, `release()`
  refuses a hold that is over, and the return runs both in one unit of work:
  an overdue rental can never be returned, although `finish()` says it can.
- **`contracts_value`.** The header of an accepted proposal and the items of a late
  update can be read by one `findById`, and become a contract whose value was
  never accepted. `NasceDeAprovacao` (proved) is what still holds: there was an approval.

### Divergences

Other places where the code does less than its comments or documents say. The models
have the steps. Where a formula is named, it is in the module of its part and states the comment or
document; TLC finds it violated within seconds in the instance of that part (in place of the
properties there), and no run is kept for it.

- *Replicas of the worker* (`RetryNaoRepete`). The row locks of `lote()` (`drizzle.ts:105`) end with its
  transaction, before the first handler is called: two replicas read the same rows and
  repeat handlers whose delivery is recorded (with one worker they never do: `RetrySempre`).
  The comment there and `docs/operations/deploy.md` promise otherwise. At least once delivery still holds.
- *A rented asset is rented again* (`SemDuplaLocacao`). Anyone who may release holds may release the hold of
  a live rental (`assets.use-cases.ts:301`); the period is then free and is rented again, although the
  rentals use cases say the database makes it impossible. `DuplaSoPorLiberacao` is what holds: there is
  no other way to rent it twice.
- *A retired asset returns* (`BaixaNaoVolta`, with two requests of assets). The save of an update
  (`assets.use-cases.ts:126`) writes back the status it read: a retirement in between is undone, though
  `asset.ts` says it has no way back.
- *A closed contract returns* (`SoRascunhoAtiva`). Activation decides on a contract read earlier
  (`contracts.use-cases.ts:116`) and its save asks nothing of the stored status: of two activations of one
  draft, the later reopens a contract closed in between. `ContractNotDraftError` says that only a draft is activated.
- *A sent proposal changes* (`EnviadaNaoMuda`). Editing asks for a draft in memory and saves without
  asking again (`proposals.use-cases.ts:133`): a late update replaces the items of a
  proposal that was sent meanwhile, which `proposal.ts` says cannot happen.
- *Configuring takes a plugin down* (`ReconfigurarNaoDerruba`). The save writes the status derived from the row
  read at the beginning (`manage-plugins.use-cases.ts:134`): if the plugin was enabled meanwhile it goes back to
  configured, although `docs/api/plugins.md` says that it does not.
- *A failed lookup answers "no such customer"* (`IndisponivelNaoEInexistente`). The client of the CRM service
  reads any 404 as null (`crm.client.ts:72`), whoever answers it: a service without the route, a wrong
  base address, a proxy. The comment above it and that of `crm-service/src/service.ts:118` set out to
  avoid just that. Every other failure is an error.
- *An asset is read without the key to read it* (`FichaPedeLeitura`). Updating an asset, by the API
  (`assets.controller.ts:197`) or by the agent's tool (`mcp/contribution.ts:179`), answers with `GetAsset` under
  `assets.asset.manage` alone: its availability and current hold there, the last hold of its history here. The manifest gives
  `assets.asset.read` for that. Both surfaces do it, so `MesmaPortaria` is kept.
- *Overlapping deploys* (`MigracaoImutavel`). The ledger is read before the lock is taken
  (`migrator.ts:96`) and not again under it. The second deploy runs the file again, which the SQL allows, but an
  edited file goes unnoticed, though the comments say that the lock keeps two replicas from migrating at once and that
  migrations are immutable. Of overlapping deploys `EsquemaDaImagem` says only that the ledger names what was run first;
  `docs/operations/deploy.md` runs `migrate` once.
- *A grant is not one snapshot* (see `Acesso`, §2), nor "always on the safe side" as
  `resolve-access-grant.use-case.ts` says of its own use: it may combine a role that was
  just taken away with a contracting made afterwards.
- *A password nobody saw.* If `provision` dies between its commit and its output, the
  account is there and a new run answers no password for it. And a module the company
  had cancelled stays so, though the command reports it as contracted.
- *The core modules.* `NUCLEO` of the same command says that nobody signs in without
  identity and tenancy contracted; the engine exempts every `platform.*` key instead.
- *Screens.* Activate, send, cancel and return are offered on the stored status after a date made
  them impossible (`OfertaHonesta` names them). "Liberar" is offered on the hold of a rental.
  The form of holds keeps acting on the row it was opened for after the page moved on,
  and does not show which. The customer's page may show the title and the timeline of
  the previous customer while its form of notes acts on the new one.

## 4. What is proved

All theorems hold for every value of the constants that satisfies the modules'
named assumptions (`OutboxAssumption`, `AssetsAssumption`, `RentalsAssumption`,
`ProposalsAssumption`, `ContractsAssumption`, `PluginsAssumption`,
`SessionsAssumption`, `CrmAssumption`, `LinhaAssumption`, `AcessoAssumption`,
`TelasAssumption`, `AtoAssumption`, `ImplantacaoAssumption`,
`UnidadeAssumption`). Most say that bounds are numbers and that `Nulo` is none of the
values it may stand for; `LinhaAssumption` is of this kind (the absent row is no row).

*Outbox* (`Outbox_proofs`). `TiposSempre`, `RegistroSempre`, `MemoriaSempre` and
`OutboxCumpre`: types, records never ahead of effects, the coherence of what a
worker remembers, and the refinement of `AtLeastOnce`, with any number of workers,
tenants, events and handlers. The three invariants are inductive together:
`adiar` writes an attempt count that was read earlier, and what keeps it within
the limit is the type of the memory (a batch only holds pending rows, whose
attempts are below the limit: `TentativasRestantes`); `concluir` closes an event
on the evidence of `falhou`, and what makes the evidence good is
`EmCursoCoerente`: every subscriber already passed either is in `delivered_to`
(hence in `recebido`, by `RegistroTemEfeito`) or was called with success.
From the refinement, `EntregueRecebidoSempre`: a row that stands as delivered was received
by all its subscribers, with any number of workers.
With one worker (`UmSoWorker`, the hypothesis of these three) more is true: the dead letter
queue holds exactly the events that used up their attempts (`MortoSempre`), no handler
is called again once its delivery is recorded (`RetrySempre`), and what was delivered is
final (`EntregueSempre`). What they need is that the memory is exact and not only
coherent (`MemoriaFiel`): rows of the batch are still pending, with the attempts that
were read, and only handlers of which nothing is recorded are still to be called. Two
workers break all three (§3).

*Rentals* (`Rentals_proofs`). `InvSempre` and, from it, `TiposSempre`,
`DuplaSempre`, `EfetivoSempre`, `ReservaSempre`,
`EncerramentoUnicoSempre`, `EncerradaLiberaSempre`, `NaoReabreSempre`. The saves
ask nothing of the status that was read, so uniqueness of the closing cannot come
from the rental's row; it comes from the hold. `Inv` carries the chain: a hold is
released only at an instant before its end and not after now (`LinhaBoa`), so once
released it is no longer open and cannot be released again; a closed rental has a
released hold (`EncerramentoBom`); a request in its unit of work holds the only
lock of the rental's row and the rental has not been closed (`TarefaBoa`). Hence a
second closing is refused by its own hold. `DuplaSempre` goes through the rows of two modules:
rentals that share an instant own different holds of their own periods (`ReservaDaLocacao`), which the
constraint keeps apart (`SemSobreposicao`, a part of `Inv`) for as long as neither was released.

*Proposals and contracts* (`Contracts_proofs`). `InvSempre` and, from it, one theorem
for each property of the run `contracts`. The invariant is in two parts:
`PropostasInv` is inductive by itself (contracts only read proposals), and the
part of contracts needs only that announcements are never taken back (`Cresce`) and
that an accepted proposal has been approved. No save asks for the stored status, so
what makes the properties inductive is what requests remember (`PedidoBom`,
`TarefaBoa`): a request that answers has seen a sent proposal, one that
formalises an approved one, one that closes an activated contract, and none of
these facts is undone by another request, because each of them is about the
events published so far and not about the stored status.

*Plugins* (`Plugins_proofs`). `InvSempre` and, from it, one theorem for each property of
the run `plugins`. The part that holds always speaks of every row somebody may act
on (`Linhas`: the stored one and those in memory), because a save brings a remembered
row back: permissions, validation and verification of a row are about its id, so
they stay true however old the row is. The part for writes one at a time
(`SozinhaBoa`) says that the row a request remembers is still the stored one, or its
successor by the domain.

*Sessions* (`Sessions_proofs`). `InvSempre` and, from it, one theorem for each property
of the run `sessions`. That a family has one living token is not inductive, because
the insert of the substitute asks for nothing. `EmissaoSozinha` is what it needs:
whoever consumed a token has its family for itself until the insert (no token of it
is alive, so nobody else can consume one; the substitute is claimed by that token
only; and the family is not among the ended ones). `SessaoTranquila` carries
`CookieVale` through the steps of the only request in flight.

*CRM* (`Crm_proofs`). `InvSempre` and, from it, the races of the run `crm`: whatever two
requests do to each other, they were in flight together. A request that is over never
changes again, and only such a request has stored or announced anything
(`RegistrosBons`), so each step has to be compared only with the requests that were
over before it began (`antes`): what a request checked still holds of those
(`PassadoBom`), because the requests that could undo it are exactly the ones in flight
with it. A contact is lost only to a save that `Coberto` names. `Alheio` is the frame:
a step of one request leaves what is claimed of the others. For the timeline
(`HistoricoSempre`), what was recorded before it was asked for is there at both reads; notes
already cut at the limit are full of entries at least as late, and merging the
appointments and cutting again keeps that so (`FichaBoa`, `NadaPulado`), whatever the limit.

*Access* (`Superficie_proofs`). `InvSempre` and, from it, `TiposSempre`, `NegadoSempre` and
`QuemTemSempre`. Neither property is inductive, for both speak of a decision and the
reads come before it. The history takes in every instant of a request, so what was read
was seen to hold (`VistoBom`; a contracting is judged by the clock of the decision, which
has only moved on, so the expiry that passes then passed at the read), and what the
history never saw fail was read (`FaltouBom`; a contracting saved over another one counts
as a failure, since the row read was not the one that holds). In all this the routes and
capabilities are never looked into: any surface each of whose entries is decided by the keys
it requires has both properties. They are at the end: `PortariaSempre` finds, for each use case of each capability, a route that
runs it and asks for no more than the gateway does, and that only reads if the capability is offered
as reading (`MesmaChave`); an agent is in only with that (`AbertoBom`). The converse, that no entry runs a
use case on easier terms than the route named for it, is false (`FichaPedeLeitura`, §3).

*Screens* (`Superficie_proofs`). `TelasInvSempre` and, from it, `TelasTiposSempre`,
`AgeSempre` and `OfertaSempre`, on any number of rows, accesses, searches and changes. The
server does not know what a page has on screen, so the invariant compares the two by
version: what was read of a row is no newer than the row, and is what the server would
show still if it is as old (`Fiel`); the same of an access (`Podia`, `AcessoBom`). It
holds of answers on their way, of what is shown, and of the row and key behind the act under way
(`BuscasBoas`, `DadosBons`, `OfertaPendente`), so an act refused though nothing changed was
refused for what the page does not judge. That the act is on the row shown comes from
the number of the search that counts being of the row in focus. `VersoesContadas`
is there for the bounds only. Assumed: `TelasAssumption`, and that null is no
act (`AtoAssumption`).

*Installation and provisioning* (`Superficie_proofs`). `ImplantacaoInvSempre` and, from it,
`ImplantacaoTiposSempre`, `EsquemaSempre` and `DonoSempre`, with any number of deploys,
operators, companies and people. While no two deploys met, one at a time is under way,
so the ledger it asked is still right at each file and what it has gone past is as in
its image (`SozinhoBom`).
For the command, `DonoEntra` speaks of the answer only: it needs that two
transactions never have the same person uncommitted (`UmSoInsere`, from the unique
index), that the one at work inserts the person exactly when there is none (`ComandoBom`),
and that the rows behind an answer stay (`RespostaVale`); what they grant follows from
the roles and manifests as they are. Assumed: `ImplantacaoAssumption`.

*Units of work* (`UnidadeDeTrabalho_proofs`). `InvSempre` and, from it, `TiposSempre` and
`EscopoSempre`, and the refinement of `TudoOuNada` (`UnidadeCumpre`), with any number of
requests, companies, connections and nested units. Everything rests on a connection
having one owner (`ConexaoBoa`, `Bom`): then a step of one request is nothing to another
(`Alheio`), the settings of a transaction are those its owner made, and what a commit
stores or a rollback loses is one whole unit (`UmaSo`). Rows are numbered by the steps left,
which only go down, so what is about to be written is new and belongs to no unit
that ended; and a request that answered "ok" has nothing in flight that could still
write (`Calado`). `AtomicaSempre` says what the promise comes to: the rows of a unit are all
stored, all pending or all undone, and those of a request answered "ok" are all stored.

*Model-checked only.* The liveness properties `TodoEventoTermina`, `EstavelRecebe` and
`TodosTerminam` (fairness and `ENABLED` are outside the prover). Every invariant and action
property of a passing run is a theorem. What is proved and no longer spent a run on, because another property
of the same run is stronger or the proof says it for every instance: `RegistroTemEfeito`,
`MemoriaCoerente`, `EfetivoConcorda`, `RespostaDepoisDoEnvio`,
`UmContratoPorProposta`, `NasceDeAprovacao`, `SituacaoAnunciada`, `PermissaoDaInstalacao`,
`CicloDeVida`, `CadeiaSimples` and the inductive invariants. `MortoSoNoLimite`, `RetryNaoRepete`
and `EntregueEFinal` are proved for a single worker; the run has two, and would refute them.

## 5. What is not modelled

`PROJECT.json` lists each part with the reason. In short: the insert of the audit trail
travels in transactions that are modelled, and nothing reads it back; configuration,
cryptography, the formats of bodies and answers, error translation, rate limits and the
generated API types are pure functions or wiring; the sandbox of the MCP screens and the
layout of the pages are presentation; `notifications-example` is modelled only as one
handler of the outbox. The tenants left out by `platform_outbox_pending_tenants` when there
are more than a hundred depend on an order the database does not state. Tenant
isolation is a matter of row-level security policies in the database: `UnidadeDeTrabalho`
checks that each statement runs under the right company and takes the policies as given;
the other instances are one tenant's data, except in the outbox, where the batch of a tenant only holds its events.

One thing `Sessions` deliberately leaves out of a property: signing out (or the
alarm) while a rotation of the same session is between its two writes. The insert
that follows is of a living token, which nothing revokes until it expires or is
used again. `EncerradaNaoVive` excludes exactly those families.

## 6. Plan

Every component that decides or remembers something has its module, and every invariant
and action property of a passing run its theorem. What is left is `Outbox` with more
tenants than `platform_outbox_pending_tenants` returns: whether every tenant is served in
the end.
