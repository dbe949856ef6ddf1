------------------------------ MODULE Implantacao ------------------------------
(***************************************************************************)
(* A version goes on the air and a company is born on it: the migrations   *)
(* of an image are applied against the ledger of the database, and the     *)
(* operator's command creates company, first person, membership, role and  *)
(* contracted modules in one transaction.  Both may be started twice, at   *)
(* once or after one that broke off.                                       *)
(***************************************************************************)
EXTENDS Montagem

CONSTANTS
    Deploys,      \* runs of migrate
    Imagens,      \* images: sequences of migrations, each with the checksum it has there
    Operadores,   \* runs of provision, each with the password it generates
    Slugs,
    Emails,       \* already in lower case
    Pedidos       \* lists of modules an operator may ask for

ASSUME ImplantacaoAssumption ==
    /\ PlataformaMontavel
    /\ \A i \in Imagens : i \in Seq(ToSet(Migracoes) \X Nat)
    /\ Nulo \notin Operadores \union Nat

VARIABLES
    ledger,       \* platform_migrations: checksum of each migration applied, or Nulo
    esquema,      \* esquema[m]: the contents of m that were run, each once, in order
    deploy,       \* deploy[d]: where a run of migrate is
    sobrepostos,  \* history: two runs of migrate were under way at once
    empresas,     \* slugs of the companies
    pessoa,       \* pessoa[e]: whose password opens the account of e, or Nulo
    vinculos,     \* vinculos[s][e]: status of a membership
    dono,         \* memberships with the role of owner
    contratos,    \* contratos[s][u]: status of a contracting
    comando       \* comando[o]: where a run of provision is

banco == <<empresas, pessoa, vinculos, dono, contratos>>

ivars == <<ledger, esquema, deploy, sobrepostos, banco, comando>>

-----------------------------------------------------------------------------
Arquivos == ToSet(Migracoes)

Checksums == UNION {{i[n][2] : n \in DOMAIN i} : i \in Imagens}

Linha(passo, n, imagem) == [passo |-> passo, n |-> n, imagem |-> imagem]

\* n: the migration of its image it is at, past the last one in the end.
LinhaDeDeploy ==
    [passo : {"parado", "ler", "aplicar", "pronto", "falhou"}, n : Nat \ {0},
     imagem : Imagens \union {<<>>}]

Argumentos == [slug : Slugs, email : Emails, pedidos : Pedidos]

\* empresaNova, pessoaNova: this run inserts them.
Comando ==
    [passo : {"parado", "empresa", "criarEmpresa", "pessoa", "criarPessoa", "vincular",
              "confirmar", "fim", "encerrado"},
     args : Argumentos \union {Nulo},
     empresaNova : BOOLEAN, pessoaNova : BOOLEAN]

Sem(passo) == [passo |-> passo, args |-> Nulo, empresaNova |-> FALSE, pessoaNova |-> FALSE]

ImplantacaoTypeOK ==
    /\ ledger \in [Arquivos -> Checksums \union {Nulo}]
    /\ esquema \in [Arquivos -> Seq(Checksums)]
    /\ \A m \in Arquivos : IsInjective(esquema[m])
    /\ deploy \in [Deploys -> LinhaDeDeploy]
    /\ \A d \in Deploys : deploy[d].passo = "aplicar" => deploy[d].n \in DOMAIN deploy[d].imagem
    /\ sobrepostos \in BOOLEAN
    /\ empresas \subseteq Slugs
    /\ pessoa \in [Emails -> Operadores \union {Nulo}]
    /\ vinculos \in [Slugs -> [Emails -> {"ausente", "active", "revoked"}]]
    /\ dono \subseteq Slugs \X Emails
    /\ contratos \in [Slugs -> [ModulosConhecidos -> {"ausente", "active", "suspended"}]]
    /\ comando \in [Operadores -> Comando]

ImplantacaoInit ==
    /\ ledger = [m \in Arquivos |-> Nulo]
    /\ esquema = [m \in Arquivos |-> <<>>]
    /\ deploy = [d \in Deploys |-> Linha("parado", 1, <<>>)]
    /\ sobrepostos = FALSE
    /\ empresas = {}
    /\ pessoa = [e \in Emails |-> Nulo]
    /\ vinculos = [s \in Slugs |-> [e \in Emails |-> "ausente"]]
    /\ dono = {}
    /\ contratos = [s \in Slugs |-> [u \in ModulosConhecidos |-> "ausente"]]
    /\ comando = [o \in Operadores |-> Sem("parado")]

Migrando(d) == deploy[d].passo \in {"ler", "aplicar"}

Provisionando(o) == comando[o].passo \notin {"parado", "fim", "encerrado"}

-----------------------------------------------------------------------------
(* migrate.                                                                *)

\* What the run d looks at next.
Atual(d) == deploy[d].imagem[deploy[d].n]

\* The image is fixed when it starts; one that broke off may be started again.
\* Bound: no deploy begins once there is an operator at work (no row belongs to
\* both procedures).
Comecar(d) ==
    /\ deploy[d].passo \in {"parado", "falhou"}
    /\ \A o \in Operadores : comando[o].passo = "parado"
    /\ \E i \in Imagens : deploy' = [deploy EXCEPT ![d] = Linha("ler", 1, i)]
    /\ sobrepostos' = (sobrepostos \/ \E e \in Deploys \ {d} : Migrando(e))
    /\ UNCHANGED <<ledger, esquema, banco, comando>>

Ir(d, passo) == deploy' = [deploy EXCEPT ![d].passo = passo]

\* What it had reached is forgotten.
Falhar(d) == deploy' = [deploy EXCEPT ![d] = Linha("falhou", 1, <<>>)]

Avancar(d) == deploy' = [deploy EXCEPT ![d].passo = "ler", ![d].n = @ + 1]

\* Mutant of Conferir: what is in the ledger is taken for what is in the image.
ConferirSemChecksum(d) ==
    IF ledger[Atual(d)[1]] = Nulo THEN Ir(d, "aplicar") ELSE Avancar(d)

\* The ledger is asked before the lock is taken.  A file edited since it was
\* applied stops the run.
Conferir(d) ==
    LET registro == ledger[Atual(d)[1]] IN
    CASE registro = Nulo        -> Ir(d, "aplicar")
      [] registro = Atual(d)[2] -> Avancar(d)
      [] OTHER                  -> Falhar(d)

LerLedger(d) ==
    /\ deploy[d].passo = "ler"
    /\ IF deploy[d].n \in DOMAIN deploy[d].imagem THEN Conferir(d) ELSE Ir(d, "pronto")
    /\ UNCHANGED <<ledger, esquema, sobrepostos, banco, comando>>

\* Mutant of Aplicar: a file that was applied meanwhile is run as if it were new.
AplicarOutraVez(d) ==
    LET m == Atual(d)[1]  c == Atual(d)[2] IN
    /\ deploy[d].passo = "aplicar"
    /\ esquema' = [esquema EXCEPT ![m] = Append(@, c)]
    /\ ledger' = [ledger EXCEPT ![m] = IF @ = Nulo THEN c ELSE @]
    /\ Avancar(d)
    /\ UNCHANGED <<sobrepostos, banco, comando>>

\* One transaction under the advisory lock: the file is run, whatever has
\* become of the ledger since, and recorded unless somebody else did.  Every
\* file may be run again (if not exists, on conflict do nothing), and fails if
\* a table it refers to is not there.
Aplicar(d) ==
    LET m == Atual(d)[1]  c == Atual(d)[2] IN
    /\ deploy[d].passo = "aplicar"
    /\ IF \A r \in Refere(m) : esquema[r] # <<>>
       THEN /\ esquema' = [esquema EXCEPT ![m] = IF Contains(@, c) THEN @ ELSE Append(@, c)]
            /\ ledger' = [ledger EXCEPT ![m] = IF @ = Nulo THEN c ELSE @]
            /\ Avancar(d)
       ELSE Falhar(d) /\ UNCHANGED <<ledger, esquema>>
    /\ UNCHANGED <<sobrepostos, banco, comando>>

\* The process is killed or loses the database; an open transaction is undone.
Cair(d) ==
    /\ Migrando(d)
    /\ Falhar(d)
    /\ UNCHANGED <<ledger, esquema, sobrepostos, banco, comando>>

-----------------------------------------------------------------------------
(* provision: the statements of one READ COMMITTED transaction.  Others see *)
(* its rows when it is confirmed, and wait before that to insert the same.  *)

Nucleo == {"identity", "tenancy"}

resolverModulos(pedidos) ==
    IF pedidos = {} THEN ModulosConhecidos ELSE Nucleo \union pedidos

Slug(o) == comando[o].args.slug
Email(o) == comando[o].args.email

\* Once a version is on the air: its tables are there.  A module nobody knows
\* is refused before the database is asked anything.
Provisionar(o) ==
    /\ comando[o].passo = "parado"
    /\ \A d \in Deploys : ~Migrando(d)
    /\ \E d \in Deploys : deploy[d].passo = "pronto"
    /\ \E a \in Argumentos :
          /\ a.pedidos \subseteq ModulosConhecidos
          /\ comando' = [comando EXCEPT ![o].passo = "empresa", ![o].args = a]
    /\ UNCHANGED <<ledger, esquema, deploy, sobrepostos, banco>>

Seguir(o, passo) == comando' = [comando EXCEPT ![o].passo = passo]

ProcurarEmpresa(o) ==
    /\ comando[o].passo = "empresa"
    /\ Seguir(o, IF Slug(o) \in empresas THEN "pessoa" ELSE "criarEmpresa")
    /\ UNCHANGED <<ledger, esquema, deploy, sobrepostos, banco>>

\* Uncommitted rows of others that an insert has to wait for.
EsperaEmpresa(o) ==
    \E p \in Operadores \ {o} : comando[p].empresaNova /\ Provisionando(p) /\ Slug(p) = Slug(o)

EsperaPessoa(o) ==
    \E p \in Operadores \ {o} : comando[p].pessoaNova /\ Provisionando(p) /\ Email(p) = Email(o)

\* The slug was taken meanwhile: the transaction is undone and the command ends.
CriarEmpresa(o) ==
    /\ comando[o].passo = "criarEmpresa" /\ ~EsperaEmpresa(o)
    /\ comando' = [comando EXCEPT ![o] =
          IF Slug(o) \in empresas THEN Sem("encerrado")
          ELSE [@ EXCEPT !.passo = "pessoa", !.empresaNova = TRUE]]
    /\ UNCHANGED <<ledger, esquema, deploy, sobrepostos, banco>>

ProcurarPessoa(o) ==
    /\ comando[o].passo = "pessoa"
    /\ Seguir(o, IF pessoa[Email(o)] # Nulo THEN "vincular" ELSE "criarPessoa")
    /\ UNCHANGED <<ledger, esquema, deploy, sobrepostos, banco>>

\* Mutant of CriarPessoa: an account made meanwhile is kept, in silence.
CriarPessoaSeFaltar(o) ==
    /\ comando[o].passo = "criarPessoa" /\ ~EsperaPessoa(o)
    /\ comando' = [comando EXCEPT ![o].passo = "vincular", ![o].pessoaNova = TRUE]
    /\ UNCHANGED <<ledger, esquema, deploy, sobrepostos, banco>>

CriarPessoa(o) ==
    /\ comando[o].passo = "criarPessoa" /\ ~EsperaPessoa(o)
    /\ comando' = [comando EXCEPT ![o] =
          IF pessoa[Email(o)] # Nulo THEN Sem("encerrado")
          ELSE [@ EXCEPT !.passo = "vincular", !.pessoaNova = TRUE]]
    /\ UNCHANGED <<ledger, esquema, deploy, sobrepostos, banco>>

\* Membership, role and contractings: what is there already is no error.
Vincular(o) ==
    /\ comando[o].passo = "vincular"
    /\ \A p \in Operadores \ {o} : comando[p].passo = "confirmar" => Slug(p) # Slug(o)
    /\ Seguir(o, "confirmar")
    /\ UNCHANGED <<ledger, esquema, deploy, sobrepostos, banco>>

\* Commit.  The answer of the command is made of what it read; if it is lost,
\* nobody knows the password of an account that was just made.
Confirmar(o) ==
    LET s == Slug(o)  e == Email(o) IN
    /\ comando[o].passo = "confirmar"
    /\ empresas' = empresas \union {s}
    /\ pessoa' = [pessoa EXCEPT ![e] = IF @ = Nulo THEN o ELSE @]
    /\ vinculos' = [vinculos EXCEPT ![s][e] = "active"]
    /\ dono' = dono \union {<<s, e>>}
    /\ contratos' = [contratos EXCEPT ![s] = [u \in ModulosConhecidos |->
          IF u \in resolverModulos(comando[o].args.pedidos) /\ @[u] = "ausente"
          THEN "active" ELSE @[u]]]
    /\ \/ Seguir(o, "fim")
       \/ comando' = [comando EXCEPT ![o] = Sem("encerrado")]
    /\ UNCHANGED <<ledger, esquema, deploy, sobrepostos>>

\* The command dies, or its connection does.
Desfazer(o) ==
    /\ Provisionando(o)
    /\ comando' = [comando EXCEPT ![o] = Sem("encerrado")]
    /\ UNCHANGED <<ledger, esquema, deploy, sobrepostos, banco>>

-----------------------------------------------------------------------------
(* Afterwards.                                                             *)

\* What the command answered for the membership of e in s no longer counts.
Esquecidos(s, e) ==
    [o \in Operadores |->
        IF comando[o].passo = "fim" /\ Slug(o) = s /\ Email(o) = e THEN Sem("encerrado") ELSE comando[o]]

\* A membership is ended, by hand: nothing under src/ does it.
Afastar(s, e) ==
    /\ vinculos[s][e] = "active"
    /\ vinculos' = [vinculos EXCEPT ![s][e] = "revoked"]
    /\ comando' = Esquecidos(s, e)
    /\ UNCHANGED <<ledger, esquema, deploy, sobrepostos, empresas, pessoa, dono, contratos>>

\* A company cancels a module (bound: one of those that operators ask for).
CancelarModulo(s, u) ==
    /\ contratos[s][u] = "active" /\ u \in UNION Pedidos
    /\ contratos' = [contratos EXCEPT ![s][u] = "suspended"]
    /\ UNCHANGED <<ledger, esquema, deploy, sobrepostos, empresas, pessoa, vinculos, dono, comando>>

ImplantacaoNext ==
    \/ \E d \in Deploys : Comecar(d) \/ LerLedger(d) \/ Aplicar(d) \/ Cair(d)
    \/ \E o \in Operadores :
          \/ Provisionar(o) \/ ProcurarEmpresa(o) \/ CriarEmpresa(o) \/ ProcurarPessoa(o)
          \/ CriarPessoa(o) \/ Vincular(o) \/ Confirmar(o) \/ Desfazer(o)
    \/ \E s \in Slugs, e \in Emails : Afastar(s, e)
    \/ \E s \in Slugs, u \in ModulosConhecidos : CancelarModulo(s, u)

ImplantacaoSpec == ImplantacaoInit /\ [][ImplantacaoNext]_ivars

-----------------------------------------------------------------------------
(* Properties.                                                             *)

\* The ledger names the content the tables were made from, and a run that ended
\* well left the tables of its own image, file by file, unless two runs
\* were under way at once: the ledger is asked before the lock is taken, and an
\* edited file then goes unnoticed (runMigrations, MigrationDriftError).
EsquemaDaImagem ==
    /\ \A m \in Arquivos :
          ledger[m] = IF esquema[m] = <<>> THEN Nulo ELSE Head(esquema[m])
    /\ ~sobrepostos =>
          \A d \in Deploys : deploy[d].passo = "pronto" =>
              \A n \in DOMAIN deploy[d].imagem :
                  esquema[deploy[d].imagem[n][1]] = <<deploy[d].imagem[n][2]>>

ConcessaoDoDono(s) ==
    [permissoes |-> PapeisDeSistema.owner, escopos |-> {Tudo},
     unidades |-> {<<u>> : u \in {v \in ModulosConhecidos : contratos[s][v] = "active"}}]

\* What the command answered is true and stays so, whoever else provisions the
\* same company or the same person: the person is an owner of the company, the
\* password shown opens the account (none is shown for an account that was
\* there), and every key of the modules named is granted, but for a module the
\* company has cancelled.
DonoEntra ==
    \A o \in Operadores : comando[o].passo = "fim" =>
        LET s == Slug(o)  e == Email(o) IN
        /\ s \in empresas /\ vinculos[s][e] = "active" /\ <<s, e>> \in dono
        /\ pessoa[e] # Nulo
        /\ (pessoa[e] = o) <=> comando[o].pessoaNova
        /\ \A u \in resolverModulos(comando[o].args.pedidos) :
              \/ contratos[s][u] = "suspended"
              \/ \A chave \in DeId(u).permissoes : Autoriza(ConcessaoDoDono(s), chave)

-----------------------------------------------------------------------------
(* The inductive invariant.                                                *)

\* While no two runs of migrate met: one at a time is under way, no file was run
\* twice, and what the run has gone past is as in its image.
SozinhoBom ==
    ~sobrepostos =>
      /\ \A d, e \in Deploys : Migrando(d) /\ Migrando(e) => d = e
      /\ \A m \in Arquivos : Len(esquema[m]) <= 1
      /\ \A d \in Deploys :
           /\ deploy[d].passo = "aplicar" => esquema[Atual(d)[1]] = <<>>
           /\ Migrando(d) => \A n \in DOMAIN deploy[d].imagem : n < deploy[d].n =>
                  esquema[deploy[d].imagem[n][1]] = <<deploy[d].imagem[n][2]>>

\* A run at work knows what it was asked for, and inserts the person exactly when
\* there is none: nobody else can, before it ends.
ComandoBom(o) ==
    /\ comando[o].passo \notin {"parado", "encerrado"} =>
          comando[o].args \in Argumentos /\ comando[o].args.pedidos \subseteq ModulosConhecidos
    /\ comando[o].pessoaNova => comando[o].passo \in {"vincular", "confirmar", "fim"}
    /\ comando[o].passo \in {"vincular", "confirmar"} =>
          (comando[o].pessoaNova <=> pessoa[Email(o)] = Nulo)
    /\ \A e \in Emails : pessoa[e] = o => comando[o].passo \in {"fim", "encerrado"}

\* Two runs at work never insert the same person.
UmSoInsere ==
    \A o, p \in Operadores :
        /\ Provisionando(o) /\ comando[o].pessoaNova
        /\ Provisionando(p) /\ comando[p].pessoaNova
        /\ o # p
        => Email(o) # Email(p)

\* What was answered, with the contractings as rows and not as what they grant.
RespostaVale(o) ==
    LET s == Slug(o)  e == Email(o) IN
    comando[o].passo = "fim" =>
        /\ s \in empresas /\ vinculos[s][e] = "active" /\ <<s, e>> \in dono
        /\ pessoa[e] # Nulo
        /\ (pessoa[e] = o) <=> comando[o].pessoaNova
        /\ \A u \in resolverModulos(comando[o].args.pedidos) : contratos[s][u] # "ausente"

ComandosBons == UmSoInsere /\ \A o \in Operadores : ComandoBom(o) /\ RespostaVale(o)

ImplantacaoInv == ImplantacaoTypeOK /\ EsquemaDaImagem /\ SozinhoBom /\ ComandosBons
-----------------------------------------------------------------------------
(* What the code's own comments say and the model refutes.                 *)

\* A file that was applied is never run again with other contents: the lock
\* keeps two replicas from migrating at the same time, and an edited file stops
\* the run (LOCK_ID, MigrationDriftError).
MigracaoImutavel == \A m \in Arquivos : Len(esquema[m]) <= 1
=============================================================================
