---------------------------- MODULE Plugins_proofs ----------------------------
(***************************************************************************)
(* Theorems about the installation of a plugin, for any number of          *)
(* requests, keys, permissions and installations.  Inv has a part that     *)
(* holds whatever overlaps (the rows requests remember are rows of real    *)
(* installations) and a part about requests that write one at a time (the  *)
(* row is still the one the request read).                                 *)
(***************************************************************************)
EXTENDS Plugins, TLAPS

USE DEF Ids

\* The idle request and the absent row are well typed.
LEMMA TiposIniciais == Ausente \in Linha /\ SemSegredos \in [Chaves -> Ids \union {0}]
                       /\ Livre \in Chamada
BY PluginsAssumption
   DEF PluginsAssumption, Ausente, Linha, Situacoes, SemSegredos, Livre, Chamada

\* Membership in Linhas, primed or not, without the set constructor.
LEMMA DasLinhas == /\ instalacao \in Linhas
                   /\ \A c \in Chamadas : chamada[c].lida \in Linhas
BY DEF Linhas

LEMMA DasLinhasDepois == \A l \in Linhas' : \/ l = instalacao'
                                            \/ \E c \in Chamadas : l = chamada'[c].lida
BY DEF Linhas

\* What is asked of every row somebody may act on.
Valida(l) == /\ l.id # 0 => l.permissoes = concedidas[l.id]
             /\ l.status \in {"configured", "enabled", "disabled"} => l.validada
             /\ l.status \in {"enabled", "disabled"} => l.id \in verificadas
             /\ LinhaBoa(l)

\* The parts of the invariant that are about rows, gathered.
LEMMA InvPorLinhas ==
    Inv <=> /\ TypeOK
            /\ \A i \in Ids : concedidas[i] \subseteq Pedidas
            /\ \A l \in Linhas : Valida(l)
            /\ SegredoDoDono
            /\ \A c \in Chamadas : PedidoBom(c) /\ (~sobrepostas => SozinhaBoa(c))
BY DEF Inv, PermissaoDaInstalacao, SoHabilitaVerificada, Valida

\* The initial state satisfies the invariant.
LEMMA InvNoInicio == Init => Inv
<1>. SUFFICES ASSUME Init PROVE Inv
  OBVIOUS
<1>1. TypeOK
  <2>1. 0 \in 0..MaxInstalacoes /\ concedidas \in [Ids -> SUBSET Permissoes]
    BY PluginsAssumption DEF PluginsAssumption, Init
  <2>. QED BY <2>1, TiposIniciais DEF Init, TypeOK
<1>2. \A l \in Linhas : l = Ausente
  BY DEF Linhas, Init, Livre
<1>3. \A l \in Linhas : Valida(l)
  BY <1>2 DEF Valida, LinhaBoa, Ausente, Init
<1>4. SegredoDoDono /\ \A c \in Chamadas : PedidoBom(c) /\ SozinhaBoa(c)
  BY DEF Init, SegredoDoDono, SemSegredos, PedidoBom, SozinhaBoa, Escreve, Livre
<1>. QED BY <1>1, <1>3, <1>4, InvPorLinhas DEF Init

\* A step of request c: if rows and what c remembers are good afterwards, and
\* the others may keep what they knew, the invariant holds again.
LEMMA Passo ==
    ASSUME Inv, NEW c \in Chamadas, NEW r \in Chamada,
           chamada' = [chamada EXCEPT ![c] = r],
           TypeOK',
           \A i \in Ids : concedidas'[i] \subseteq Pedidas,
           \A l \in Linhas : Valida(l) => Valida(l)',
           Valida(instalacao)', Valida(r.lida)',
           SegredoDoDono', PedidoBom(c)', ~sobrepostas' => SozinhaBoa(c)',
           \A d \in Chamadas \ {c} : ~sobrepostas' => SozinhaBoa(d)'
    PROVE  Inv'
<1>1. chamada'[c] = r /\ \A d \in Chamadas \ {c} : chamada'[d] = chamada[d]
  BY DEF Inv, TypeOK
<1>2. \A d \in Chamadas \ {c} : Valida(chamada[d].lida)
  BY DasLinhas, InvPorLinhas
<1>3. \A l \in Linhas' : Valida(l)'
  <2>1. SUFFICES ASSUME NEW l \in Linhas' PROVE Valida(l)'
    OBVIOUS
  <2>2. CASE l = instalacao'
    BY <2>2 DEF Valida, LinhaBoa
  <2>3. ASSUME NEW d \in Chamadas, l = chamada'[d].lida PROVE Valida(l)'
    <3>1. CASE d = c
      BY <1>1, <2>3, <3>1
    <3>2. CASE d # c
      BY <1>1, <1>2, <2>3, <3>2, DasLinhas
    <3>. QED BY <3>1, <3>2
  <2>. QED BY <2>2, <2>3, DasLinhasDepois
<1>4. \A d \in Chamadas : PedidoBom(d)'
  BY <1>1 DEF Inv, PedidoBom
<1>. QED BY <1>3, <1>4 DEF Inv, PermissaoDaInstalacao, SoHabilitaVerificada, Valida

-----------------------------------------------------------------------------
(* Reading steps.                                                          *)

\* The types of what the invariant speaks of.
LEMMA Tipos ==
    ASSUME Inv, NEW c \in Chamadas
    PROVE  /\ instalacao \in Linha /\ chamada[c] \in Chamada /\ chamada[c].lida \in Linha
           /\ criadas \in Nat /\ Valida(instalacao) /\ Valida(chamada[c].lida)
<1>1. instalacao \in Linha /\ chamada[c] \in Chamada /\ criadas \in Nat
  BY PluginsAssumption DEF PluginsAssumption, Inv, TypeOK
<1>2. chamada[c].lida \in Linha
  BY <1>1 DEF Chamada
<1>. QED BY <1>1, <1>2, DasLinhas, InvPorLinhas

\* A request that starts: only what it remembers changes, and, if it writes and
\* nobody has overlapped, no other request is writing.
LEMMA Leitura ==
    ASSUME Inv, NEW c \in Chamadas, NEW passo, NEW linha \in Linha,
           NEW faltam \in SUBSET Chaves,
           passo \in {"gravar", "configurar", "listar", "apagarSegredos", "abrir"},
           Prosseguir(c, passo, linha, faltam),
           criadas' \in 0..MaxInstalacoes, concedidas' \in [Ids -> SUBSET Permissoes],
           \A i \in Ids : concedidas'[i] \subseteq Pedidas,
           \A l \in Linhas : Valida(l) => Valida(l)', Valida(linha)',
           passo # "abrir" => Sobrepor(c),
           passo = "abrir" => UNCHANGED <<sobrepostas, criadas>>,
           passo = "listar" => linha.status # "ausente",
           passo = "abrir" => faltam = Exigidas /\ linha = instalacao,
           passo \in {"configurar", "listar"} => linha = instalacao,
           passo = "gravar" =>
              \/ instalacao.id = 0 /\ linha.id = criadas' /\ linha.status = "installed"
              \/ instalacao.id = linha.id /\ linha.status \in Transicoes[instalacao.status]
    PROVE  Inv'
<1>. DEFINE r == [Livre EXCEPT !.passo = passo, !.lida = linha, !.faltam = faltam]
<1>1. r \in Chamada
  BY TiposIniciais DEF Chamada
<1>2. /\ r.passo = passo /\ r.lida = linha /\ r.faltam = faltam
      /\ r.abertas = SemSegredos
  BY DEF Livre
<1>3. /\ chamada' = [chamada EXCEPT ![c] = r]
      /\ instalacao' = instalacao /\ segredos' = segredos /\ verificadas' = verificadas
      /\ chamada[c].passo = "livre"
  BY DEF Prosseguir
<1>4. chamada'[c] = r /\ \A d \in Chamadas \ {c} : chamada'[d] = chamada[d]
  BY <1>3 DEF Inv, TypeOK
<1>5. sobrepostas' \in BOOLEAN /\ (~sobrepostas' => ~sobrepostas)
  BY DEF Sobrepor, Inv, TypeOK
<1>6. TypeOK'
  BY <1>1, <1>3, <1>5 DEF Inv, TypeOK
<1>7. Valida(instalacao)'
  BY <1>3, DasLinhas, InvPorLinhas
<1>8. SegredoDoDono'
  BY <1>3, <1>5 DEF Inv, SegredoDoDono
<1>9. PedidoBom(c)'
  BY <1>2, <1>4 DEF PedidoBom
<1>10. ASSUME ~sobrepostas', passo # "abrir", NEW d \in Chamadas \ {c} PROVE ~Escreve(d)
  BY <1>10 DEF Sobrepor
<1>11. ASSUME ~sobrepostas' PROVE SozinhaBoa(c)'
  <2>1. Escreve(c)' => \A d \in Chamadas \ {c} : ~Escreve(d)'
    BY <1>2, <1>4, <1>10, <1>11 DEF Escreve
  <2>2. linha.id \in Nat
    BY DEF Linha
  <2>. QED BY <1>2, <1>3, <1>4, <2>1, <2>2 DEF SozinhaBoa, SemSegredos
<1>12. ASSUME ~sobrepostas', NEW d \in Chamadas \ {c} PROVE SozinhaBoa(d)'
  <2>1. SozinhaBoa(d)
    BY <1>5, <1>12 DEF Inv
  <2>2. CASE passo = "abrir"
    <3>1. UNCHANGED <<sobrepostas, criadas>>
      BY <2>2
    <3>. QED BY <1>2, <1>3, <1>4, <2>1, <2>2, <3>1 DEF SozinhaBoa, Escreve
  <2>3. CASE passo # "abrir"
    <3>1. ~Escreve(d) /\ ~Escreve(d)'
      BY <1>4, <1>10, <1>12, <2>3 DEF Escreve
    <3>. QED BY <1>3, <1>4, <2>1, <3>1 DEF SozinhaBoa, Escreve
  <2>. QED BY <2>2, <2>3
<1>. HIDE DEF r
<1>. QED BY <1>1, <1>2, <1>3, <1>6, <1>7, <1>8, <1>9, <1>11, <1>12, Passo

\* Installing: the new id was nobody's, so no row is told by it.
LEMMA Instalar ==
    ASSUME Inv, NEW c \in Chamadas, NEW p \in SUBSET Permissoes, LerParaInstalar(c, p)
    PROVE  Inv'
<1>. PICK linha : linha = [id |-> criadas', status |-> "installed", validada |-> FALSE,
                           permissoes |-> p]
  OBVIOUS
<1>1. criadas' = criadas + 1 /\ criadas' \in Ids /\ criadas' \in 0..MaxInstalacoes
  BY PluginsAssumption DEF PluginsAssumption, Inv, TypeOK, LerParaInstalar
<1>2. linha \in Linha
  BY <1>1 DEF Linha, Situacoes
<1>3. concedidas' = [concedidas EXCEPT ![criadas'] = p] /\ p \subseteq Pedidas
      /\ concedidas' \in [Ids -> SUBSET Permissoes]
  BY <1>1 DEF LerParaInstalar, Inv, TypeOK
<1>4. \A i \in Ids : concedidas'[i] \subseteq Pedidas
  BY <1>3 DEF Inv, TypeOK, PermissaoDaInstalacao
<1>5. ASSUME NEW l \in Linhas, Valida(l) PROVE Valida(l)'
  <2>1. l \in Linha
    BY Tipos DEF Linhas
  <2>2. l.id \in Ids \union {0} /\ l.id # criadas'
    BY <1>1, <1>5, <2>1 DEF Linha, Valida, LinhaBoa, Inv, TypeOK
  <2>3. l.id # 0 => concedidas'[l.id] = concedidas[l.id]
    BY <1>3, <2>2 DEF Inv, TypeOK
  <2>4. verificadas' = verificadas /\ l.id <= criadas'
    BY <1>1, <1>5, <2>1 DEF LerParaInstalar, Prosseguir, Valida, LinhaBoa, Linha, Inv, TypeOK
  <2>. QED BY <1>5, <2>3, <2>4 DEF Valida, LinhaBoa
<1>6. Valida(linha)'
  BY <1>1, <1>3 DEF Valida, LinhaBoa, Inv, TypeOK
<1>7. Prosseguir(c, "gravar", linha, {}) /\ Sobrepor(c) /\ instalacao.id = 0
  BY Tipos DEF LerParaInstalar, Instalada, Valida, LinhaBoa
<1>8. linha.id = criadas' /\ linha.status = "installed"
  OBVIOUS
<1>. QED BY <1>1, <1>2, <1>3, <1>4, <1>5, <1>6, <1>7, <1>8, Leitura

\* The other reading steps take the row as it is, or as the domain changes it.
LEMMA LerInstalada ==
    ASSUME Inv, NEW c \in Chamadas,
           \/ \E ks \in SUBSET Chaves : LerParaConfigurar(c, ks)
           \/ LerParaHabilitar(c)
           \/ LerParaDesabilitar(c)
           \/ LerParaDesinstalar(c)
           \/ LerParaResolver(c)
    PROVE  Inv'
<1>1. /\ criadas' = criadas /\ concedidas' = concedidas /\ verificadas' = verificadas
      /\ instalacao.status # "ausente"
  BY DEF LerParaConfigurar, LerParaHabilitar, LerParaDesabilitar, LerParaDesinstalar,
         LerParaResolver, Prosseguir, Instalada
<1>2. /\ criadas' \in 0..MaxInstalacoes /\ concedidas' \in [Ids -> SUBSET Permissoes]
      /\ \A i \in Ids : concedidas'[i] \subseteq Pedidas
  BY <1>1 DEF Inv, TypeOK, PermissaoDaInstalacao
<1>3. \A l : Valida(l) => Valida(l)'
  BY <1>1 DEF Valida, LinhaBoa
<1>4. instalacao \in Linha /\ Valida(instalacao)
  BY Tipos
<1>5. {} \in SUBSET Chaves /\ Exigidas \in SUBSET Chaves
  BY PluginsAssumption DEF PluginsAssumption
<1>6. ASSUME NEW ks \in SUBSET Chaves, LerParaConfigurar(c, ks) PROVE Inv'
  BY <1>1, <1>2, <1>3, <1>4, <1>6, Leitura DEF LerParaConfigurar
<1>7. CASE LerParaHabilitar(c)
  BY <1>1, <1>2, <1>3, <1>4, <1>5, <1>7, Leitura DEF LerParaHabilitar
<1>8. CASE LerParaDesabilitar(c)
  <2>. PICK linha : linha = [instalacao EXCEPT !.status = "disabled"]
    OBVIOUS
  <2>1. /\ linha \in Linha /\ linha.id = instalacao.id /\ linha.status = "disabled"
        /\ linha.permissoes = instalacao.permissoes /\ linha.validada = instalacao.validada
    BY <1>4 DEF Linha, Situacoes
  <2>2. "disabled" \in Transicoes[instalacao.status] /\ instalacao.status = "enabled"
    BY <1>1, <1>4, <1>8 DEF LerParaDesabilitar, Transicoes, Linha, Situacoes
  <2>3. Valida(linha)'
    BY <1>3, <1>4, <2>1, <2>2 DEF Valida, LinhaBoa
  <2>4. Prosseguir(c, "gravar", linha, {}) /\ Sobrepor(c)
    BY <1>8 DEF LerParaDesabilitar
  <2>. QED BY <1>2, <1>3, <1>5, <2>1, <2>2, <2>3, <2>4, Leitura
<1>9. CASE LerParaDesinstalar(c)
  BY <1>1, <1>2, <1>3, <1>4, <1>5, <1>9, Leitura DEF LerParaDesinstalar
<1>10. CASE LerParaResolver(c)
  BY <1>1, <1>2, <1>3, <1>4, <1>5, <1>10, Leitura DEF LerParaResolver
<1>. QED BY <1>6, <1>7, <1>8, <1>9, <1>10

-----------------------------------------------------------------------------
(* Steps that follow.                                                      *)

\* A step that only changes what request c remembers, and what is known of the
\* secrets of installations.
LEMMA SoPedido ==
    ASSUME Inv, NEW c \in Chamadas, NEW r \in Chamada,
           chamada' = [chamada EXCEPT ![c] = r],
           UNCHANGED <<instalacao, segredos, criadas, concedidas, sobrepostas>>,
           verificadas \subseteq verificadas', verificadas' \subseteq Ids,
           Valida(r.lida)', PedidoBom(c)', ~sobrepostas => SozinhaBoa(c)',
           r.passo \notin {"livre", "abrir"} => Escreve(c)
    PROVE  Inv'
<1>1. chamada'[c] = r /\ \A d \in Chamadas \ {c} : chamada'[d] = chamada[d]
  BY DEF Inv, TypeOK
<1>2. TypeOK'
  BY DEF Inv, TypeOK
<1>3. \A l : Valida(l) => Valida(l)'
  BY DEF Valida, LinhaBoa
<1>4. Valida(instalacao)'
  BY <1>3, Tipos
<1>5. SegredoDoDono' /\ \A i \in Ids : concedidas'[i] \subseteq Pedidas
  BY DEF Inv, SegredoDoDono, PermissaoDaInstalacao
<1>6. ASSUME ~sobrepostas', NEW d \in Chamadas \ {c} PROVE SozinhaBoa(d)'
  <2>1. SozinhaBoa(d)
    BY <1>6 DEF Inv
  <2>2. Escreve(c)' => Escreve(c)
    BY <1>1 DEF Escreve
  <2>. QED BY <1>1, <2>1, <2>2 DEF SozinhaBoa, Escreve
<1>. QED BY <1>1, <1>2, <1>3, <1>4, <1>5, <1>6, Passo

\* A write of request c.  If writes have never overlapped the others are calls
\* of the plugin, for which a row may go, stay or be the newest.
LEMMA Escrita ==
    ASSUME Inv, NEW c \in Chamadas, NEW r \in Chamada, Escreve(c),
           chamada' = [chamada EXCEPT ![c] = r],
           UNCHANGED <<verificadas, criadas, concedidas, sobrepostas>>,
           instalacao' \in Linha, segredos' \in [Chaves -> Ids \union {0}],
           Valida(instalacao)', Valida(r.lida)', SegredoDoDono', PedidoBom(c)',
           ~sobrepostas => /\ r.passo # "livre" => SozinhaBoa(c)'
                           /\ instalacao'.id \in {0, instalacao.id, criadas},
           r.passo # "abrir"
    PROVE  Inv'
<1>1. chamada'[c] = r /\ \A d \in Chamadas \ {c} : chamada'[d] = chamada[d]
  BY DEF Inv, TypeOK
<1>2. TypeOK'
  BY DEF Inv, TypeOK
<1>3. \A l : Valida(l) => Valida(l)'
  BY DEF Valida, LinhaBoa
<1>4. \A i \in Ids : concedidas'[i] \subseteq Pedidas
  BY DEF Inv, PermissaoDaInstalacao
<1>5. ASSUME ~sobrepostas' PROVE SozinhaBoa(c)'
  BY <1>1, <1>5 DEF SozinhaBoa, Escreve
<1>6. ASSUME ~sobrepostas', NEW d \in Chamadas \ {c} PROVE SozinhaBoa(d)'
  <2>1. SozinhaBoa(d) /\ SozinhaBoa(c)
    BY <1>6 DEF Inv
  <2>2. ~Escreve(d) /\ ~Escreve(d)'
    BY <1>1, <2>1 DEF SozinhaBoa, Escreve
  <2>3. chamada[d].lida.id <= criadas
    BY Tipos DEF Valida, LinhaBoa
  <2>. QED BY <1>1, <1>6, <2>1, <2>2, <2>3 DEF SozinhaBoa, Escreve
<1>. QED BY <1>1, <1>2, <1>3, <1>4, <1>5, <1>6, Passo

\* The idle request is good, whatever the rest is.
LEMMA LivreBoa ==
    ASSUME Inv, NEW c \in Chamadas, chamada' = [chamada EXCEPT ![c] = Livre]
    PROVE  chamada'[c] = Livre /\ PedidoBom(c)' /\ SozinhaBoa(c)'
           /\ Livre.lida.id = 0 /\ Livre.lida.status = "ausente" /\ Livre.passo = "livre"
<1>1. chamada'[c] = Livre
  BY DEF Inv, TypeOK
<1>. QED BY <1>1 DEF PedidoBom, SozinhaBoa, Escreve, Livre, Ausente

LEMMA AusenteValida ==
    ASSUME Inv, criadas' = criadas
    PROVE  Valida(Ausente)' /\ Valida(Livre.lida)'
BY PluginsAssumption
   DEF PluginsAssumption, Inv, TypeOK, Valida, LinhaBoa, Ausente, Livre

\* A save: the row is what the request decided, unless the unique key refuses.
LEMMA Salvamento ==
    ASSUME Inv, NEW c \in Chamadas, NEW linha \in Linha, Salvar(c, linha), Escreve(c),
           Valida(linha), linha.id = chamada[c].lida.id,
           chamada[c].passo \in {"gravar", "configurar"}
    PROVE  Inv'
<1>1. /\ chamada' = [chamada EXCEPT ![c] = Livre]
      /\ UNCHANGED <<segredos, verificadas, criadas, concedidas, sobrepostas>>
  BY DEF Salvar, Terminar, Historia
<1>2. \A l : Valida(l) => Valida(l)'
  BY <1>1 DEF Valida, LinhaBoa
<1>3. instalacao' \in Linha /\ Valida(instalacao)'
  BY <1>2, Tipos DEF Salvar
<1>4. ASSUME ~sobrepostas
      PROVE  instalacao'.id \in {instalacao.id, criadas} /\ instalacao.id \in {0, instalacao'.id}
  <2>1. SozinhaBoa(c)
    BY <1>4 DEF Inv
  <2>. QED BY <2>1 DEF SozinhaBoa, Salvar
<1>5. SegredoDoDono'
  BY <1>1, <1>4 DEF Inv, SegredoDoDono
<1>6. segredos' \in [Chaves -> Ids \union {0}]
  BY <1>1 DEF Inv, TypeOK
<1>. QED BY <1>1, <1>3, <1>4, <1>5, <1>6, TiposIniciais, LivreBoa, AusenteValida, Escrita

\* The saves of the use cases.
LEMMA Gravacoes ==
    ASSUME Inv, NEW c \in Chamadas, Gravar(c) \/ GravarConfiguracao(c)
    PROVE  Inv'
<1>1. Escreve(c) /\ chamada[c].lida \in Linha /\ Valida(chamada[c].lida)
  BY Tipos DEF Gravar, GravarConfiguracao, Escreve
<1>2. CASE Gravar(c)
  BY <1>1, <1>2, Salvamento DEF Gravar
<1>3. CASE GravarConfiguracao(c)
  <2>. DEFINE lida == chamada[c].lida
              nova == [lida EXCEPT !.validada = TRUE,
                          !.status = IF @ = "installed" THEN "configured" ELSE @]
  <2>1. /\ nova \in Linha /\ nova.id = lida.id /\ nova.permissoes = lida.permissoes
        /\ nova.validada = TRUE
        /\ nova.status = IF lida.status = "installed" THEN "configured" ELSE lida.status
    BY <1>1 DEF Linha, Situacoes
  <2>2. Valida(nova)
    BY <1>1, <2>1 DEF Valida, LinhaBoa
  <2>3. Salvar(c, nova) /\ chamada[c].passo = "configurar"
    BY <1>3 DEF GravarConfiguracao
  <2>. HIDE DEF nova
  <2>. QED BY <1>1, <2>1, <2>2, <2>3, Salvamento
<1>. QED BY <1>2, <1>3

\* A request that ends without writing.
LEMMA Fim ==
    ASSUME Inv, NEW c \in Chamadas, Terminar(c),
           UNCHANGED <<instalacao, segredos, verificadas, criadas, concedidas, sobrepostas>>
    PROVE  Inv'
<1>1. chamada' = [chamada EXCEPT ![c] = Livre] /\ verificadas' \subseteq Ids
  BY DEF Terminar, Inv, TypeOK
<1>. QED BY <1>1, TiposIniciais, LivreBoa, AusenteValida, SoPedido

\* What a step that keeps the histories keeps of every row.
LEMMA ValidaFica ==
    ASSUME Inv, NEW c \in Chamadas, NEW r \in Chamada, r.lida = chamada[c].lida,
           UNCHANGED <<verificadas, criadas, concedidas>>
    PROVE  Valida(r.lida)' /\ (UNCHANGED instalacao => Valida(instalacao)')
<1>1. \A l : Valida(l) => Valida(l)'
  BY DEF Valida, LinhaBoa
<1>. QED BY <1>1, Tipos

\* One secret is written.
LEMMA Segredo ==
    ASSUME Inv, NEW c \in Chamadas, NEW k \in Chaves, GravarSegredo(c, k)
    PROVE  Inv'
<1>1. CASE k \notin Exigidas
  BY <1>1, Fim DEF GravarSegredo, Guardar, Historia
<1>2. CASE k \in Exigidas
  <2>. PICK r : r = [chamada[c] EXCEPT !.faltam = @ \ {k}]
    OBVIOUS
  <2>1. /\ chamada[c].passo = "configurar"
        /\ segredos' = [segredos EXCEPT ![k] = chamada[c].lida.id]
        /\ chamada' = [chamada EXCEPT ![c] = r]
        /\ UNCHANGED <<instalacao, verificadas, criadas, concedidas, sobrepostas>>
    BY <1>2 DEF GravarSegredo, Guardar, Historia
  <2>2. r \in Chamada /\ r.lida = chamada[c].lida /\ r.passo = "configurar"
    BY <2>1, Tipos DEF Chamada
  <2>3. chamada[c].lida.id \in Ids \union {0} /\ chamada'[c] = r
    BY <2>1, Tipos DEF Linha, Inv, TypeOK
  <2>4. /\ Escreve(c) /\ instalacao' \in Linha
        /\ segredos' \in [Chaves -> Ids \union {0}]
    BY <2>1, <2>3, Tipos DEF Escreve, Inv, TypeOK
  <2>5. PedidoBom(c)'
    BY <2>2, <2>3 DEF PedidoBom
  <2>6. ASSUME ~sobrepostas PROVE SozinhaBoa(c)
    BY <2>6 DEF Inv
  <2>7. SegredoDoDono'
    BY <2>1, <2>3, <2>6 DEF SozinhaBoa, SegredoDoDono, Inv, TypeOK
  <2>8. ASSUME ~sobrepostas PROVE SozinhaBoa(c)'
    BY <2>1, <2>2, <2>3, <2>6, <2>8 DEF SozinhaBoa, Escreve, Inv, TypeOK
  <2>. QED BY <2>1, <2>2, <2>4, <2>5, <2>7, <2>8, ValidaFica, Escrita
<1>. QED BY <1>1, <1>2

\* The decision to enable: the row it will save is one of the next stage.
LEMMA Listagem ==
    ASSUME Inv, NEW c \in Chamadas, ListarChaves(c)
    PROVE  Inv'
<1>1. CASE ~PodeHabilitar(c)
  BY <1>1, Fim DEF ListarChaves, Historia
<1>2. CASE PodeHabilitar(c)
  <2>. DEFINE lida == chamada[c].lida
  <2>. PICK r : r = [chamada[c] EXCEPT !.passo = "gravar", !.lida.status = "enabled"]
    OBVIOUS
  <2>1. /\ chamada[c].passo = "listar"
        /\ chamada' = [chamada EXCEPT ![c] = r]
        /\ verificadas' = verificadas \union {lida.id}
        /\ UNCHANGED <<instalacao, segredos, criadas, concedidas, sobrepostas>>
    BY <1>2 DEF ListarChaves, Historia
  <2>2. lida.status # "ausente" /\ lida.status \in Situacoes
    BY <2>1, Tipos DEF Inv, PedidoBom, Linha
  <2>3. lida.status \in {"configured", "disabled"} /\ "enabled" \in Transicoes[lida.status]
    BY <1>2, <2>2 DEF PodeHabilitar, Guardado, Transicoes, Situacoes
  <2>4. /\ r \in Chamada /\ r.passo = "gravar" /\ r.lida.status = "enabled"
        /\ r.lida.id = lida.id /\ r.lida.validada = lida.validada
        /\ r.lida.permissoes = lida.permissoes
    BY Tipos DEF Chamada, Linha, Situacoes
  <2>5. chamada'[c] = r /\ Escreve(c)
    BY <2>1 DEF Inv, TypeOK, Escreve
  <2>6. lida.id \in Ids /\ Valida(lida)
    BY <2>2, Tipos DEF Linha, Valida, LinhaBoa
  <2>7. verificadas \subseteq verificadas' /\ verificadas' \subseteq Ids
    BY <2>1, <2>6 DEF Inv, TypeOK
  <2>8. Valida(r.lida)'
    BY <2>1, <2>3, <2>4, <2>6 DEF Valida, LinhaBoa
  <2>9. PedidoBom(c)'
    BY <2>4, <2>5 DEF PedidoBom
  <2>10. ASSUME ~sobrepostas PROVE SozinhaBoa(c)'
    <3>1. SozinhaBoa(c)
      BY <2>10 DEF Inv
    <3>2. instalacao = lida
      BY <2>1, <3>1 DEF SozinhaBoa
    <3>3. Escreve(c)' => \A d \in Chamadas \ {c} : ~Escreve(d)'
      BY <2>1, <2>5, <3>1 DEF SozinhaBoa, Escreve, Inv, TypeOK
    <3>. QED BY <2>1, <2>3, <2>4, <2>5, <3>2, <3>3 DEF SozinhaBoa
  <2>. QED BY <2>1, <2>4, <2>5, <2>7, <2>8, <2>9, <2>10, SoPedido
<1>. QED BY <1>1, <1>2

\* Uninstalling removes the secrets ...
LEMMA SegredosApagados ==
    ASSUME Inv, NEW c \in Chamadas, ApagarSegredos(c)
    PROVE  Inv'
<1>. PICK r : r = [chamada[c] EXCEPT !.passo = "apagarLinha"]
  OBVIOUS
<1>1. /\ chamada[c].passo = "apagarSegredos" /\ segredos' = SemSegredos
      /\ chamada' = [chamada EXCEPT ![c] = r]
      /\ UNCHANGED <<instalacao, verificadas, criadas, concedidas, sobrepostas>>
  BY DEF ApagarSegredos, Historia
<1>2. r \in Chamada /\ r.lida = chamada[c].lida /\ r.passo = "apagarLinha"
  BY Tipos DEF Chamada
<1>3. /\ chamada'[c] = r /\ Escreve(c) /\ instalacao' \in Linha
      /\ segredos' \in [Chaves -> Ids \union {0}]
  BY <1>1, Tipos, TiposIniciais DEF Inv, TypeOK, Escreve
<1>4. SegredoDoDono' /\ PedidoBom(c)'
  BY <1>1, <1>2, <1>3 DEF SegredoDoDono, SemSegredos, PedidoBom
<1>5. ASSUME ~sobrepostas PROVE SozinhaBoa(c)'
  <2>1. SozinhaBoa(c)
    BY <1>5 DEF Inv
  <2>. QED BY <1>1, <1>2, <1>3, <2>1 DEF SozinhaBoa, Escreve, SemSegredos, Inv, TypeOK
<1>. QED BY <1>1, <1>2, <1>3, <1>4, <1>5, ValidaFica, Escrita

\* ... and then the row.
LEMMA LinhaApagada ==
    ASSUME Inv, NEW c \in Chamadas, ApagarLinha(c)
    PROVE  Inv'
<1>1. /\ chamada[c].passo = "apagarLinha" /\ instalacao' = Ausente
      /\ chamada' = [chamada EXCEPT ![c] = Livre]
      /\ UNCHANGED <<segredos, verificadas, criadas, concedidas, sobrepostas>>
  BY DEF ApagarLinha, Terminar, Historia
<1>2. Escreve(c) /\ segredos' \in [Chaves -> Ids \union {0}]
  BY <1>1 DEF Escreve, Inv, TypeOK
<1>3. SegredoDoDono'
  BY <1>1 DEF Inv, SozinhaBoa, SegredoDoDono, SemSegredos
<1>4. instalacao'.id = 0 /\ Valida(instalacao)'
  BY <1>1, AusenteValida DEF Ausente, Valida, LinhaBoa
<1>. QED BY <1>1, <1>2, <1>3, <1>4, TiposIniciais, LivreBoa, AusenteValida, Escrita

\* A call of the plugin opens one secret.
LEMMA Abertura ==
    ASSUME Inv, NEW c \in Chamadas, NEW k \in Chaves, AbrirSegredo(c, k)
    PROVE  Inv'
<1>1. CASE segredos[k] = 0
  BY <1>1, Fim DEF AbrirSegredo, Historia
<1>2. CASE segredos[k] # 0
  <2>. PICK r : r = [chamada[c] EXCEPT !.faltam = @ \ {k}, !.abertas[k] = segredos[k]]
    OBVIOUS
  <2>1. /\ chamada[c].passo = "abrir" /\ chamada' = [chamada EXCEPT ![c] = r]
        /\ UNCHANGED <<instalacao, segredos, verificadas, criadas, concedidas, sobrepostas>>
    BY <1>2 DEF AbrirSegredo, Historia
  <2>2. /\ r \in Chamada /\ r.lida = chamada[c].lida /\ r.passo = "abrir"
        /\ r.faltam = chamada[c].faltam \ {k}
        /\ r.abertas = [chamada[c].abertas EXCEPT ![k] = segredos[k]]
        /\ chamada[c].abertas \in [Chaves -> Ids \union {0}]
    BY <2>1, Tipos DEF Chamada, Inv, TypeOK
  <2>3. chamada'[c] = r /\ verificadas' \subseteq Ids
    BY <2>1 DEF Inv, TypeOK
  <2>4. PedidoBom(c)'
    BY <1>2, <2>1, <2>2, <2>3, PluginsAssumption DEF PluginsAssumption, PedidoBom, Inv
  <2>5. ASSUME ~sobrepostas PROVE SozinhaBoa(c)'
    <3>1. SozinhaBoa(c) /\ segredos[k] = instalacao.id
      BY <1>2, <2>5 DEF Inv, SegredoDoDono
    <3>2. instalacao.id # 0 /\ chamada[c].lida.id <= segredos[k]
      BY <1>2, <2>1, <3>1 DEF SozinhaBoa
    <3>3. ~Escreve(c)'
      BY <2>2, <2>3 DEF Escreve
    <3>. QED BY <2>1, <2>2, <2>3, <3>1, <3>2, <3>3 DEF SozinhaBoa
  <2>. QED BY <2>1, <2>2, <2>3, <2>4, <2>5, ValidaFica, SoPedido
<1>. QED BY <1>1, <1>2

-----------------------------------------------------------------------------
(* The theorems.                                                           *)

\* Every step keeps the invariant.
LEMMA InvNosPassos == Inv /\ [Next]_vars => Inv'
<1>. SUFFICES ASSUME Inv, [Next]_vars PROVE Inv'
  OBVIOUS
<1>1. CASE UNCHANGED vars
  BY <1>1 DEF vars, Inv, TypeOK, PermissaoDaInstalacao, SoHabilitaVerificada, SegredoDoDono,
              Linhas, LinhaBoa, PedidoBom, SozinhaBoa, Escreve
<1>2. ASSUME NEW c \in Chamadas, Abandonar(c) PROVE Inv'
  BY <1>2, Fim DEF Abandonar, Historia
<1>3. CASE Next
  BY <1>2, <1>3, Instalar, LerInstalada, Gravacoes, Segredo, Abertura, Listagem,
     SegredosApagados, LinhaApagada DEF Next
<1>. QED BY <1>1, <1>3

\* The inductive invariant holds in every reachable state.
THEOREM InvSempre == Spec => []Inv
BY InvNoInicio, InvNosPassos, PTL DEF Spec

\* Rows and requests keep their types.
THEOREM TiposSempre == Spec => []TypeOK
<1>1. Inv => TypeOK
  BY DEF Inv
<1>. QED BY <1>1, InvSempre, PTL

\* No stale save changes what an installation was granted, which its manifest
\* asked for (InstallPluginUseCase).
THEOREM PermissaoSempre == Spec => []PermissaoDaInstalacao
<1>1. Inv => PermissaoDaInstalacao
  BY DEF Inv
<1>. QED BY <1>1, InvSempre, PTL

\* No order of saves enables what was not configured and verified
\* (PluginInstallation.enable).
THEOREM VerificadaSempre == Spec => []SoHabilitaVerificada
<1>1. Inv => SoHabilitaVerificada
  BY DEF Inv
<1>. QED BY <1>1, InvSempre, PTL

\* While writes do not overlap, no secret is orphan or inherited, wherever a
\* request fails (ChangePluginStatusUseCase.uninstall).
THEOREM SegredoSempre == Spec => []SegredoDoDono
<1>1. Inv => SegredoDoDono
  BY DEF Inv
<1>. QED BY <1>1, InvSempre, PTL

\* A call of the plugin has all its secrets, and none older than the
\* installation it read (ResolvePluginRuntimeUseCase).
THEOREM RuntimeSempre == Spec => []RuntimeInteiro
<1>1. ASSUME Inv PROVE RuntimeInteiro
  <2>1. SUFFICES ASSUME NEW c \in Chamadas, Entregue(c), NEW k \in Exigidas
                 PROVE  /\ chamada[c].abertas[k] # 0
                        /\ ~sobrepostas => chamada[c].abertas[k] >= chamada[c].lida.id
    BY DEF RuntimeInteiro
  <2>2. k \in Chaves /\ chamada[c].passo = "abrir" /\ k \notin chamada[c].faltam
    BY <2>1, PluginsAssumption DEF PluginsAssumption, Entregue
  <2>3. chamada[c].abertas[k] # 0
    BY <1>1, <2>2 DEF Inv, PedidoBom
  <2>4. ASSUME ~sobrepostas PROVE chamada[c].lida.id <= chamada[c].abertas[k]
    BY <1>1, <2>2, <2>3, <2>4 DEF Inv, SozinhaBoa
  <2>5. chamada[c].lida.id \in Nat /\ chamada[c].abertas[k] \in Nat
    BY <1>1, <2>2, Tipos DEF Chamada, Linha
  <2>. QED BY <2>3, <2>4, <2>5
<1>. QED BY <1>1, InvSempre, PTL

\* While writes do not overlap, the stored row goes through the stages of the
\* domain and does not come back once removed (TRANSICOES).
THEOREM CicloSempre == Spec => CicloDeVida
<1>. DEFINE Estagio ==
       ~sobrepostas' =>
          \/ instalacao' = Ausente
          \/ instalacao.id = 0 /\ instalacao'.status = "installed"
          \/ /\ instalacao'.id = instalacao.id
             /\ instalacao'.status \in {instalacao.status} \union Transicoes[instalacao.status]
<1>1. ASSUME Inv, Next PROVE Estagio
  <2>1. ASSUME instalacao' = instalacao PROVE Estagio
    BY <2>1
  <2>2. ASSUME NEW c \in Chamadas, Gravar(c), ~sobrepostas PROVE Estagio
    BY <1>1, <2>2 DEF Inv, SozinhaBoa, Gravar, Salvar
  <2>3. ASSUME NEW c \in Chamadas, GravarConfiguracao(c), ~sobrepostas PROVE Estagio
    <3>1. chamada[c].lida = instalacao
      BY <1>1, <2>3 DEF Inv, SozinhaBoa, GravarConfiguracao
    <3>2. instalacao \in Linha
      BY <1>1, <2>3, Tipos
    <3>3. instalacao'.id = instalacao.id
          /\ instalacao'.status \in {instalacao.status, IF instalacao.status = "installed"
                                        THEN "configured" ELSE instalacao.status}
      BY <2>3, <3>1, <3>2 DEF GravarConfiguracao, Salvar, Linha
    <3>. QED BY <3>3 DEF Transicoes
  <2>4. ASSUME NEW c \in Chamadas, Gravar(c) \/ GravarConfiguracao(c)
        PROVE  sobrepostas' = sobrepostas
    BY <2>4 DEF Gravar, GravarConfiguracao, Salvar, Historia
  <2>5. ASSUME NEW c \in Chamadas, ApagarLinha(c) PROVE Estagio
    BY <2>5 DEF ApagarLinha
  <2>. HIDE DEF Estagio
  <2>6. instalacao' = instalacao \/ \E c \in Chamadas :
           Gravar(c) \/ GravarConfiguracao(c) \/ ApagarLinha(c)
    BY <1>1 DEF Next, LerParaInstalar, LerParaConfigurar, LerParaHabilitar,
         LerParaDesabilitar, LerParaDesinstalar, LerParaResolver, Prosseguir,
         GravarSegredo, Guardar, AbrirSegredo, ListarChaves, ApagarSegredos, Abandonar
  <2>7. CASE ~sobrepostas'
    BY <2>1, <2>2, <2>3, <2>4, <2>5, <2>6, <2>7
  <2>8. CASE sobrepostas'
    BY <2>8 DEF Estagio
  <2>. QED BY <2>7, <2>8
<1>2. Inv /\ [Next]_vars => [Estagio]_vars
  BY <1>1
<1>. QED BY <1>2, InvSempre, PTL DEF Spec, CicloDeVida
=============================================================================
