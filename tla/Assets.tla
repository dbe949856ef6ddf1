------------------------------- MODULE Assets -------------------------------
(***************************************************************************)
(* The assets module (modules/assets): the register of equipment and the   *)
(* holds that take an asset out of circulation for a period [inicio, fim). *)
(*                                                                         *)
(* Every use case reads in transactions of its own, decides in memory and  *)
(* writes in another transaction, so it is two steps here: Ler... and      *)
(* Gravar..., with what it remembers in pedido[s].  A request may be given *)
(* up between the two.  What the database itself guarantees is the         *)
(* exclusion constraint on the effective periods of one asset's holds.     *)
(***************************************************************************)
EXTENDS Naturals

CONSTANTS
    Ativos,      \* ids of assets
    Bloqueios,   \* ids of holds
    Sessoes,     \* requests being served by the assets module
    Instantes,   \* the instants a request may name
    MaxTempo,    \* bound of the clock
    Nenhum,      \* "no asset", "no hold": not an id
    Nunca        \* released_at is null: not an instant

ASSUME AssetsAssumption ==
    /\ Instantes \subseteq Nat
    /\ MaxTempo \in Nat
    /\ Nenhum \notin Ativos \union Bloqueios
    /\ Nunca \notin Nat

VARIABLES
    agora,       \* the clock
    ativo,       \* ativo[a]: the status column, "ausente" without a row
    bloqueio,    \* bloqueio[b]: the row of the hold; ativo = Nenhum without one
    pedido       \* pedido[s]: what the request remembers

avars == <<ativo, bloqueio, pedido>>

-----------------------------------------------------------------------------
Linha == [ativo : Ativos \union {Nenhum}, inicio : Nat, fim : Nat,
          liberado : Nat \union {Nunca}]

SemLinha == [ativo |-> Nenhum, inicio |-> 0, fim |-> 0, liberado |-> Nunca]

Operacoes == {"livre", "bloquear", "liberar", "baixar", "editar"}

Pedido == [op : Operacoes, ativo : Ativos \union {Nenhum},
           bloqueio : Bloqueios \union {Nenhum}, inicio : Nat, fim : Nat]

Livre == [op |-> "livre", ativo |-> Nenhum, bloqueio |-> Nenhum,
          inicio |-> 0, fim |-> 0]

AtivosTypeOK ==
    /\ agora \in Nat
    /\ ativo \in [Ativos -> {"ausente", "active", "retired"}]
    /\ bloqueio \in [Bloqueios -> Linha]
    /\ pedido \in [Sessoes -> Pedido]

AtivosInit ==
    /\ agora = 0
    /\ ativo = [a \in Ativos |-> "ausente"]
    /\ bloqueio = [b \in Bloqueios |-> SemLinha]
    /\ pedido = [s \in Sessoes |-> Livre]

-----------------------------------------------------------------------------
(* Periods.                                                                *)

\* tstzrange(starts_at, greatest(starts_at, coalesce(released_at, ends_at))):
\* where the effective period of a row ends, for the database.
FimNoBanco(h) ==
    LET ate == IF h.liberado = Nunca THEN h.fim ELSE h.liberado
    IN IF ate > h.inicio THEN ate ELSE h.inicio

\* periodoEfetivo, through encerradoEm: where it ends for the domain.
FimNoDominio(h) ==
    IF h.liberado = Nunca THEN h.fim
    ELSE LET depois == IF h.liberado > h.inicio THEN h.liberado ELSE h.inicio
         IN IF depois < h.fim THEN depois ELSE h.fim

\* aberto: the hold takes, or will take, the asset out of circulation.
Aberto(h, t) == FimNoDominio(h) > h.inicio /\ FimNoDominio(h) > t

\* The && of two ranges: an empty range overlaps nothing.
Sobrepoe(h, g) == /\ h.inicio < FimNoBanco(h) /\ g.inicio < FimNoBanco(g)
                  /\ h.inicio < FimNoBanco(g) /\ g.inicio < FimNoBanco(h)

\* findOverlapping: no hold of asset a overlaps [inicio, fim).
Desimpedido(a, inicio, fim) ==
    \A b \in Bloqueios : bloqueio[b].ativo = a =>
        ~Sobrepoe(bloqueio[b],
                  [ativo |-> a, inicio |-> inicio, fim |-> fim, liberado |-> Nunca])

\* findActiveForAssets: some hold of a covers instant t.
Preso(a, t) == \E b \in Bloqueios :
    /\ bloqueio[b].ativo = a
    /\ bloqueio[b].inicio <= t /\ t < FimNoBanco(bloqueio[b])

-----------------------------------------------------------------------------
(* Rows of holds.                                                          *)

\* Mutant of Gravar: the table has no exclusion constraint.
GravarSemRestricao(b, h) == bloqueio' = [bloqueio EXCEPT ![b] = h]

\* An insert or update of row b to h, which the exclusion constraint accepts.
Gravar(b, h) ==
    /\ \A c \in Bloqueios \ {b} :
          bloqueio[c].ativo = h.ativo => ~Sobrepoe(bloqueio[c], h)
    /\ bloqueio' = [bloqueio EXCEPT ![b] = h]

\* AssetHold.abrir, then save: a new row.
Inserir(b, a, inicio, fim) ==
    /\ bloqueio[b].ativo = Nenhum
    /\ Gravar(b, [ativo |-> a, inicio |-> inicio, fim |-> fim, liberado |-> Nunca])

\* Mutant of Liberar: the save writes its own instant, rounded up.
LiberarAoGravar(b, t) == Gravar(b, [bloqueio[b] EXCEPT !.liberado = agora + 1])

\* release(t), then save: only released_at is written.
Liberar(b, t) == Gravar(b, [bloqueio[b] EXCEPT !.liberado = t])

-----------------------------------------------------------------------------
(* Requests.                                                               *)

Atender(s, op, a, b, inicio, fim) ==
    /\ pedido[s].op = "livre"
    /\ pedido' = [pedido EXCEPT ![s] =
          [op |-> op, ativo |-> a, bloqueio |-> b, inicio |-> inicio, fim |-> fim]]
    /\ UNCHANGED <<agora, ativo, bloqueio>>

Terminar(s) == pedido' = [pedido EXCEPT ![s] = Livre]

\* save(): the row of the asset, written as the request last saw it.
SalvarAtivo(a, status) == ativo' = [ativo EXCEPT ![a] = status]

\* RegisterAssetUseCase: one insert, unique by its id and code.
Cadastrar(a) ==
    /\ ativo[a] = "ausente"
    /\ SalvarAtivo(a, "active")
    /\ UNCHANGED <<agora, bloqueio, pedido>>

\* HoldAssetUseCase up to the unit of work: an active asset, a period that
\* findOverlapping finds free.  The period may lie in the past.
LerBloqueio(s, a, inicio, fim) ==
    /\ ativo[a] = "active"
    /\ inicio < fim
    /\ Desimpedido(a, inicio, fim)
    /\ Atender(s, "bloquear", a, Nenhum, inicio, fim)

GravarBloqueio(s, b) ==
    /\ pedido[s].op = "bloquear"
    /\ Inserir(b, pedido[s].ativo, pedido[s].inicio, pedido[s].fim)
    /\ Terminar(s)
    /\ UNCHANGED <<agora, ativo>>

\* Mutant of LerLiberacao: release() does not ask whether the hold is open.
LerLiberacaoSempre(s, b) ==
    /\ bloqueio[b].ativo # Nenhum
    /\ Atender(s, "liberar", Nenhum, b, agora, agora)

\* ReleaseHoldUseCase: the hold is open when it is read; released_at is that
\* instant, kept in pedido[s].inicio, whenever the save happens.
LerLiberacao(s, b) ==
    /\ bloqueio[b].ativo # Nenhum
    /\ Aberto(bloqueio[b], agora)
    /\ Atender(s, "liberar", Nenhum, b, agora, agora)

GravarLiberacao(s) ==
    /\ pedido[s].op = "liberar"
    /\ Liberar(pedido[s].bloqueio, pedido[s].inicio)
    /\ Terminar(s)
    /\ UNCHANGED <<agora, ativo>>

\* RetireAssetUseCase: an active asset that no hold covers now.
LerBaixa(s, a) ==
    /\ ativo[a] = "active"
    /\ ~Preso(a, agora)
    /\ Atender(s, "baixar", a, Nenhum, 0, 0)

GravarBaixa(s) ==
    /\ pedido[s].op = "baixar"
    /\ SalvarAtivo(pedido[s].ativo, "retired")
    /\ Terminar(s)
    /\ UNCHANGED <<agora, bloqueio>>

\* UpdateAssetUseCase: the save writes back the status that was read.
LerEdicao(s, a) ==
    /\ ativo[a] = "active"
    /\ Atender(s, "editar", a, Nenhum, 0, 0)

GravarEdicao(s) ==
    /\ pedido[s].op = "editar"
    /\ SalvarAtivo(pedido[s].ativo, "active")
    /\ Terminar(s)
    /\ UNCHANGED <<agora, bloqueio>>

\* The request ends without a save: the constraint refuses it, the database
\* or the process fails.
Abandonar(s) ==
    /\ pedido[s].op # "livre"
    /\ Terminar(s)
    /\ UNCHANGED <<agora, ativo, bloqueio>>

Tique ==
    /\ agora < MaxTempo
    /\ agora' = agora + 1
    /\ UNCHANGED avars

AtivosNext ==
    \/ Tique
    \/ \E a \in Ativos : Cadastrar(a)
    \/ \E s \in Sessoes :
          \/ \E a \in Ativos : \E i, f \in Instantes : LerBloqueio(s, a, i, f)
          \/ \E b \in Bloqueios : GravarBloqueio(s, b) \/ LerLiberacao(s, b)
          \/ \E a \in Ativos : LerBaixa(s, a) \/ LerEdicao(s, a)
          \/ GravarLiberacao(s) \/ GravarBaixa(s) \/ GravarEdicao(s)
          \/ Abandonar(s)

-----------------------------------------------------------------------------
(* Properties.                                                             *)

Existe(b) == bloqueio[b].ativo # Nenhum

\* Two holds of one asset never cover the same instant, however many requests
\* found it free: this is what the exclusion constraint is there for.
SemSobreposicao ==
    \A b, c \in Bloqueios :
        b # c /\ Existe(b) /\ bloqueio[b].ativo = bloqueio[c].ativo
            => ~Sobrepoe(bloqueio[b], bloqueio[c])

\* The effective period the domain computes (encerradoEm, which stops at the
\* agreed end) is the one the constraint and the queries compute (greatest and
\* coalesce, which do not).
EfetivoConcorda ==
    \A b \in Bloqueios : Existe(b) => FimNoDominio(bloqueio[b]) = FimNoBanco(bloqueio[b])

\* A hold that is over stays over: a release that was read earlier and is
\* saved later never makes it cover the present or the future again.
LiberacaoNaoReabre ==
    [][\A b \in Bloqueios :
          Existe(b) /\ ~Aberto(bloqueio[b], agora) => ~Aberto(bloqueio'[b], agora')]_<<agora, avars>>

-----------------------------------------------------------------------------
(* What the code's own comments say and the model refutes.                 *)

\* Retiring an asset is for good ("Nao tem volta", Asset.retire): no save of
\* another request brings it back into operation.
BaixaNaoVolta ==
    [][\A a \in Ativos : ativo[a] = "retired" => ativo'[a] = "retired"]_<<agora, avars>>
=============================================================================
