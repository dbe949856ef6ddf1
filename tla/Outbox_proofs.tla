---------------------------- MODULE Outbox_proofs ----------------------------
(***************************************************************************)
(* For any events, handlers and number of workers, and any sequence of     *)
(* crashes: the dispatcher keeps its memory coherent with the rows, and    *)
(* the outbox implements AtLeastOnce.                                      *)
(***************************************************************************)
EXTENDS Outbox, FiniteSetTheorems, TLAPS

\* The inductive invariant: types, the records of deliveries, and what a
\* worker carries from one transaction to the next.
Inv == TypeOK /\ RegistroTemEfeito /\ MemoriaCoerente

-----------------------------------------------------------------------------
(* The order by available_at.                                              *)

\* Rows entering and leaving the line keep every place a natural number.
LEMMA OrdemTipada ==
    ASSUME TypeOK
    PROVE  /\ Cardinality(Elegiveis) + 1 \in Nat
           /\ \A e \in Eventos : \A k \in Nat : Entrar(e, k) \in [Eventos -> Nat]
           /\ \A e \in Eventos : Sair(e) \in [Eventos -> Nat]
<1>1. IsFiniteSet(Elegiveis)
  BY OutboxAssumption, FS_Subset DEF Elegiveis, OutboxAssumption
<1>2. Cardinality(Elegiveis) + 1 \in Nat
  BY <1>1, FS_CardinalityType
<1>3. \A e \in Eventos : \A k \in Nat : Entrar(e, k) \in [Eventos -> Nat]
  BY DEF TypeOK, Entrar
<1>4. \A e \in Eventos : Sair(e) \in [Eventos -> Nat]
  BY DEF TypeOK, Sair
<1> QED BY <1>2, <1>3, <1>4

\* So does a row written with the process's clock, wherever it lands.
LEMMA RelogioTipado ==
    ASSUME TypeOK, NEW e \in Eventos, EntrarPeloRelogioDoProcesso(e)
    PROVE  vez' \in [Eventos -> Nat]
<1>1. CASE UNCHANGED vez
  BY <1>1 DEF TypeOK
<1>2. CASE \E k \in 1 .. Cardinality(Elegiveis) + 1 : vez' = Entrar(e, k)
  BY <1>2, OrdemTipada
<1> QED BY <1>1, <1>2 DEF EntrarPeloRelogioDoProcesso

-----------------------------------------------------------------------------
(* The memory of one worker.                                               *)

\* Every action of a worker replaces its own memory and nobody else's.
LEMMA MemoriaVazia ==
    ASSUME NEW f \in Fases PROVE Vazia(f) \in Memoria
BY OutboxAssumption DEF Vazia, Memoria, OutboxAssumption

\* The empty table and the idle workers satisfy the invariant.
LEMMA InitInv == Init => Inv
<1> SUFFICES ASSUME Init PROVE Inv
  OBVIOUS
<1>1. Vazia("ocioso") \in Memoria
  BY MemoriaVazia DEF Fases
<1>2. TypeOK
  BY <1>1, OutboxAssumption DEF Init, TypeOK, OutboxAssumption
<1>3. RegistroTemEfeito /\ MemoriaCoerente
  BY OutboxAssumption DEF Init, RegistroTemEfeito, MemoriaCoerente, TentativasRestantes, EmCursoCoerente, Vazia, OutboxAssumption
<1> QED BY <1>2, <1>3 DEF Inv

\* The actions on rows: publication, the passing of time, revival.
LEMMA LinhaInv ==
    ASSUME Inv, NEW e \in Eventos,
           Publicar(e) \/ Amadurecer(e) \/ Reviver(e)
    PROVE  Inv'
<1>1. vez' \in [Eventos -> Nat]
  <2>1. CASE Amadurecer(e)
    BY <2>1, OrdemTipada DEF Inv, Amadurecer
  <2>2. CASE Publicar(e) \/ Reviver(e)
    BY <2>2, RelogioTipado DEF Inv, Publicar, Reviver
  <2> QED BY <2>1, <2>2
<1>2. TypeOK'
  BY <1>1, OutboxAssumption DEF Inv, TypeOK, Publicar, Amadurecer, Reviver, OutboxAssumption
<1>3. RegistroTemEfeito'
  BY DEF Inv, TypeOK, RegistroTemEfeito, Publicar, Amadurecer, Reviver
<1>4. TentativasRestantes'
  BY OutboxAssumption
  DEF Inv, TypeOK, MemoriaCoerente, TentativasRestantes, Publicar, Amadurecer, Reviver,
      OutboxAssumption
<1>5. ASSUME NEW w \in Workers
      PROVE  /\ \A x \in (worker[w].lote)' : status'[x] # "ausente"
             /\ EmCursoCoerente(w)'
  BY <1>5 DEF Inv, TypeOK, Memoria, MemoriaCoerente, EmCursoCoerente, Publicar, Amadurecer, Reviver
<1> QED BY <1>2, <1>3, <1>4, <1>5 DEF Inv, MemoriaCoerente

\* A new cycle only takes note of the tenants.
LEMMA IniciarCicloInv ==
    ASSUME Inv, NEW w \in Workers, IniciarCiclo(w)
    PROVE  Inv'
<1>1. TypeOK'
  <2>1. PICK T \in SUBSET Empresas :
           worker' = [worker EXCEPT ![w].fase = "ciclo", ![w].empresas = T]
    <3>1. ComPendencia \subseteq Empresas
      BY OutboxAssumption DEF ComPendencia, Elegiveis, OutboxAssumption
    <3> QED BY <3>1 DEF IniciarCiclo
  <2>2. [worker[w] EXCEPT !.fase = "ciclo", !.empresas = T] \in Memoria
    BY <2>1 DEF Inv, TypeOK, Memoria, Fases
  <2>3. worker' \in [Workers -> Memoria]
    BY <2>1, <2>2 DEF Inv, TypeOK
  <2> QED BY <2>3 DEF Inv, TypeOK, linhas, IniciarCiclo
<1>2. RegistroTemEfeito'
  BY DEF Inv, TypeOK, Memoria, RegistroTemEfeito, MemoriaCoerente, EmCursoCoerente, linhas, IniciarCiclo
<1>3. TentativasRestantes'
  BY OutboxAssumption
  DEF Inv, TypeOK, Memoria, MemoriaCoerente, TentativasRestantes, EmCursoCoerente, OutboxAssumption,
      linhas, IniciarCiclo
<1>4. ASSUME NEW v \in Workers
      PROVE  /\ \A x \in (worker[v].lote)' : status'[x] # "ausente"
             /\ EmCursoCoerente(v)'
  BY <1>4
  DEF Inv, TypeOK, Memoria, RegistroTemEfeito, MemoriaCoerente, EmCursoCoerente, linhas, IniciarCiclo
<1> QED BY <1>1, <1>2, <1>3, <1>4 DEF Inv, MemoriaCoerente

\* The batch is made of pending rows, which have an attempt left.
LEMMA LoteInv ==
    ASSUME Inv, NEW w \in Workers, NEW t \in Empresas, Lote(w, t)
    PROVE  Inv'
<1>0. PICK lote \in SUBSET {e \in Eventos : status[e] = "pending"} :
         worker' = [worker EXCEPT
             ![w].empresas = @ \ {t},
             ![w].lote = lote,
             ![w].lido = [e \in Eventos |-> IF e \in lote THEN attempts[e] ELSE 0]]
  BY DEF Lote, Elegiveis
<1>1. TypeOK'
  <2>1. [e \in Eventos |-> IF e \in lote THEN attempts[e] ELSE 0]
            \in [Eventos -> 0 .. MaximoDeTentativas - 1]
    BY OutboxAssumption DEF Inv, TypeOK, MemoriaCoerente, TentativasRestantes, OutboxAssumption
  <2>2. [worker[w] EXCEPT !.empresas = @ \ {t}, !.lote = lote,
             !.lido = [e \in Eventos |-> IF e \in lote THEN attempts[e] ELSE 0]] \in Memoria
    BY <2>1 DEF Inv, TypeOK, Memoria
  <2>3. worker' \in [Workers -> Memoria]
    BY <1>0, <2>2 DEF Inv, TypeOK
  <2> QED BY <2>3 DEF Inv, TypeOK, linhas, Lote
<1>2. RegistroTemEfeito'
  BY DEF Inv, TypeOK, Memoria, RegistroTemEfeito, MemoriaCoerente, EmCursoCoerente, linhas, Lote
<1>3. TentativasRestantes'
  BY OutboxAssumption
  DEF Inv, TypeOK, Memoria, MemoriaCoerente, TentativasRestantes, EmCursoCoerente, OutboxAssumption,
      linhas, Lote
<1>4. ASSUME NEW v \in Workers
      PROVE  /\ \A x \in (worker[v].lote)' : status'[x] # "ausente"
             /\ EmCursoCoerente(v)'
  <2>1. CASE v = w
    <3>1. worker'[w].lote = lote /\ worker'[w].fase = "ciclo"
      <4> DEFINE lido == [e \in Eventos |-> IF e \in lote THEN attempts[e] ELSE 0]
      <4>1. worker'[w] = [worker[w] EXCEPT !.empresas = @ \ {t}, !.lote = lote, !.lido = lido]
        BY <1>0 DEF Inv, TypeOK, Memoria
      <4> HIDE DEF lido
      <4>2. worker[w].fase = "ciclo"
        BY DEF Lote
      <4>3. worker[w] \in Memoria
        BY DEF Inv, TypeOK
      <4> QED BY <4>1, <4>2, <4>3 DEF Memoria
    <3> QED BY <2>1, <3>1 DEF EmCursoCoerente, linhas, Lote
  <2>2. CASE v # w
    <3>1. worker'[v] = worker[v]
      BY <1>0, <1>4, <2>2 DEF Inv, TypeOK
    <3> QED BY <1>4, <3>1 DEF Inv, MemoriaCoerente, EmCursoCoerente, linhas, Lote
  <2> QED BY <2>1, <2>2
<1> QED BY <1>1, <1>2, <1>3, <1>4 DEF Inv, MemoriaCoerente

\* The handlers not yet recorded are the ones to call: the record tells the
\* truth, so the others have received the event.
LEMMA AbrirEventoInv ==
    ASSUME Inv, NEW w \in Workers, NEW e \in Eventos, AbrirEvento(w, e)
    PROVE  Inv'
<1>1. TypeOK'
  <2>0. worker[w] \in Memoria /\ Assinantes[e] \ deliveredTo[e] \in SUBSET Handlers
    BY OutboxAssumption DEF Inv, TypeOK, OutboxAssumption
  <2>1. [worker[w] EXCEPT !.fase = "entregando", !.lote = @ \ {e}, !.atual = e,
             !.pendentes = Assinantes[e] \ deliveredTo[e], !.falhou = FALSE] \in Memoria
    BY <2>0 DEF Memoria, Fases
  <2>2. worker' \in [Workers -> Memoria]
    BY <2>1 DEF Inv, TypeOK, AbrirEvento
  <2> QED BY <2>2 DEF Inv, TypeOK, linhas, AbrirEvento
<1>2. RegistroTemEfeito'
  BY DEF Inv, TypeOK, Memoria, RegistroTemEfeito, MemoriaCoerente, EmCursoCoerente, linhas, AbrirEvento
<1>3. TentativasRestantes'
  BY OutboxAssumption
  DEF Inv, TypeOK, Memoria, MemoriaCoerente, TentativasRestantes, EmCursoCoerente, OutboxAssumption,
      linhas, AbrirEvento
<1>4. ASSUME NEW v \in Workers
      PROVE  /\ \A x \in (worker[v].lote)' : status'[x] # "ausente"
             /\ EmCursoCoerente(v)'
  BY <1>4
  DEF Inv, TypeOK, Memoria, RegistroTemEfeito, MemoriaCoerente, EmCursoCoerente, linhas, AbrirEvento
<1> QED BY <1>1, <1>2, <1>3, <1>4 DEF Inv, MemoriaCoerente

\* The effect happens before anything is recorded, so the record stays true.
LEMMA TratarComExitoInv ==
    ASSUME Inv, NEW w \in Workers, NEW h \in Handlers, TratarComExito(w, h)
    PROVE  Inv'
<1>1. TypeOK'
  BY OutboxAssumption
  DEF Inv, TypeOK, Memoria, Fases, MemoriaCoerente, TentativasRestantes, EmCursoCoerente,
      OutboxAssumption, linhas, TratarComExito
<1>2. RegistroTemEfeito'
  BY DEF Inv, TypeOK, Memoria, RegistroTemEfeito, MemoriaCoerente, EmCursoCoerente, linhas, TratarComExito
<1>3. TentativasRestantes'
  BY OutboxAssumption
  DEF Inv, TypeOK, Memoria, MemoriaCoerente, TentativasRestantes, EmCursoCoerente, OutboxAssumption,
      linhas, TratarComExito
<1>4. ASSUME NEW v \in Workers
      PROVE  /\ \A x \in (worker[v].lote)' : status'[x] # "ausente"
             /\ EmCursoCoerente(v)'
  BY <1>4
  DEF Inv, TypeOK, Memoria, RegistroTemEfeito, MemoriaCoerente, EmCursoCoerente, linhas, TratarComExito
<1> QED BY <1>1, <1>2, <1>3, <1>4 DEF Inv, MemoriaCoerente

\* A failed handler makes falhou true, which is all the invariant asks of it.
LEMMA TratarComFalhaInv ==
    ASSUME Inv, NEW w \in Workers, NEW h \in Handlers, TratarComFalha(w, h)
    PROVE  Inv'
<1>1. TypeOK'
  BY OutboxAssumption
  DEF Inv, TypeOK, Memoria, Fases, MemoriaCoerente, TentativasRestantes, EmCursoCoerente,
      OutboxAssumption, linhas, TratarComFalha
<1>2. RegistroTemEfeito'
  BY DEF Inv, TypeOK, Memoria, RegistroTemEfeito, MemoriaCoerente, EmCursoCoerente, linhas, TratarComFalha
<1>3. TentativasRestantes'
  BY OutboxAssumption
  DEF Inv, TypeOK, Memoria, MemoriaCoerente, TentativasRestantes, EmCursoCoerente, OutboxAssumption,
      linhas, TratarComFalha
<1>4. ASSUME NEW v \in Workers
      PROVE  /\ \A x \in (worker[v].lote)' : status'[x] # "ausente"
             /\ EmCursoCoerente(v)'
  BY <1>4
  DEF Inv, TypeOK, Memoria, RegistroTemEfeito, MemoriaCoerente, EmCursoCoerente, linhas, TratarComFalha
<1> QED BY <1>1, <1>2, <1>3, <1>4 DEF Inv, MemoriaCoerente

\* What is recorded is the handler whose effect the invariant remembers.
LEMMA RegistrarEntregaInv ==
    ASSUME Inv, NEW w \in Workers, RegistrarEntrega(w)
    PROVE  Inv'
<1>1. TypeOK'
  BY OutboxAssumption
  DEF Inv, TypeOK, Memoria, Fases, MemoriaCoerente, TentativasRestantes, EmCursoCoerente,
      OutboxAssumption, linhas, RegistrarEntrega
<1>2. RegistroTemEfeito'
  BY DEF Inv, TypeOK, Memoria, RegistroTemEfeito, MemoriaCoerente, EmCursoCoerente, linhas, RegistrarEntrega
<1>3. TentativasRestantes'
  BY OutboxAssumption
  DEF Inv, TypeOK, Memoria, MemoriaCoerente, TentativasRestantes, EmCursoCoerente, OutboxAssumption,
      linhas, RegistrarEntrega
<1>4. ASSUME NEW v \in Workers
      PROVE  /\ \A x \in (worker[v].lote)' : status'[x] # "ausente"
             /\ EmCursoCoerente(v)'
  BY <1>4
  DEF Inv, TypeOK, Memoria, RegistroTemEfeito, MemoriaCoerente, EmCursoCoerente, linhas, RegistrarEntrega
<1> QED BY <1>1, <1>2, <1>3, <1>4 DEF Inv, MemoriaCoerente

\* A record that is lost leaves the handler received and not recorded.
LEMMA RegistrarEntregaFalhaInv ==
    ASSUME Inv, NEW w \in Workers, RegistrarEntregaFalha(w)
    PROVE  Inv'
<1>1. TypeOK'
  BY OutboxAssumption
  DEF Inv, TypeOK, Memoria, Fases, MemoriaCoerente, TentativasRestantes, EmCursoCoerente,
      OutboxAssumption, linhas, RegistrarEntregaFalha
<1>2. RegistroTemEfeito'
  BY DEF Inv, TypeOK, Memoria, RegistroTemEfeito, MemoriaCoerente, EmCursoCoerente, linhas, RegistrarEntregaFalha
<1>3. TentativasRestantes'
  BY OutboxAssumption
  DEF Inv, TypeOK, Memoria, MemoriaCoerente, TentativasRestantes, EmCursoCoerente, OutboxAssumption,
      linhas, RegistrarEntregaFalha
<1>4. ASSUME NEW v \in Workers
      PROVE  /\ \A x \in (worker[v].lote)' : status'[x] # "ausente"
             /\ EmCursoCoerente(v)'
  BY <1>4
  DEF Inv, TypeOK, Memoria, RegistroTemEfeito, MemoriaCoerente, EmCursoCoerente, linhas, RegistrarEntregaFalha
<1> QED BY <1>1, <1>2, <1>3, <1>4 DEF Inv, MemoriaCoerente

\* Closing an event changes no count and no record, only status and the line.
LEMMA ConcluirInv ==
    ASSUME Inv, NEW w \in Workers, Concluir(w)
    PROVE  Inv'
<1>1. TypeOK'
  <2>1. worker[w].atual \in Eventos
    BY DEF Inv, MemoriaCoerente, EmCursoCoerente, Concluir
  <2>2. worker' \in [Workers -> Memoria]
    <3> DEFINE lido == [worker[w].lido EXCEPT ![worker[w].atual] = 0]
    <3>1. lido \in [Eventos -> 0 .. MaximoDeTentativas - 1]
      BY <2>1, OutboxAssumption DEF Inv, TypeOK, Memoria, OutboxAssumption
    <3>2. worker' = [worker EXCEPT ![w] = [worker[w] EXCEPT
               !.fase = "ciclo", !.atual = Ninguem, !.falhou = FALSE, !.lido = lido]]
      <4>1. worker \in [Workers -> Memoria] /\ worker[w] \in Memoria
        BY DEF Inv, TypeOK
      <4>2. worker' = [worker EXCEPT ![w].fase = "ciclo", ![w].atual = Ninguem,
                           ![w].falhou = FALSE, ![w].lido[worker[w].atual] = 0]
        BY DEF FecharAtual, Concluir
      <4> QED BY <4>1, <4>2 DEF Memoria
    <3> HIDE DEF lido
    <3>3. [worker[w] EXCEPT !.fase = "ciclo", !.atual = Ninguem, !.falhou = FALSE,
               !.lido = lido] \in Memoria
      BY <3>1 DEF Inv, TypeOK, Memoria, Fases
    <3> QED BY <3>2, <3>3 DEF Inv, TypeOK
  <2>3. vez' \in [Eventos -> Nat]
    BY <2>1, OrdemTipada DEF Inv, Concluir
  <2>4. status' \in [Eventos -> {"ausente", "pending", "delivered", "dead"}]
    BY <2>1 DEF Inv, TypeOK, Concluir
  <2>5. attempts' \in [Eventos -> 0 .. MaximoDeTentativas]
    BY <2>1, OutboxAssumption DEF Inv, TypeOK, Memoria, OutboxAssumption, Concluir
  <2> QED BY <2>2, <2>3, <2>4, <2>5 DEF Inv, TypeOK, Concluir
<1>2. RegistroTemEfeito'
  BY DEF Inv, TypeOK, Memoria, RegistroTemEfeito, MemoriaCoerente, EmCursoCoerente, linhas, Concluir, FecharAtual, Sair
<1>3. TentativasRestantes'
  BY OutboxAssumption
  DEF Inv, TypeOK, Memoria, MemoriaCoerente, TentativasRestantes, EmCursoCoerente, OutboxAssumption,
      linhas, Concluir, FecharAtual, Sair
<1>4. ASSUME NEW v \in Workers
      PROVE  /\ \A x \in (worker[v].lote)' : status'[x] # "ausente"
             /\ EmCursoCoerente(v)'
  BY <1>4
  DEF Inv, TypeOK, Memoria, RegistroTemEfeito, MemoriaCoerente, EmCursoCoerente, linhas, Concluir, FecharAtual, Sair
<1> QED BY <1>1, <1>2, <1>3, <1>4 DEF Inv, MemoriaCoerente

\* The new count is one more than a count that left an attempt: it never passes
\* maximoDeTentativas, and below it the row keeps an attempt.
LEMMA AdiarInv ==
    ASSUME Inv, NEW w \in Workers, Adiar(w)
    PROVE  Inv'
<1>1. TypeOK'
  <2>1. worker[w].atual \in Eventos
    BY DEF Inv, MemoriaCoerente, EmCursoCoerente, Adiar, AdiarCom
  <2>2. worker' \in [Workers -> Memoria]
    <3> DEFINE lido == [worker[w].lido EXCEPT ![worker[w].atual] = 0]
    <3>1. lido \in [Eventos -> 0 .. MaximoDeTentativas - 1]
      BY <2>1, OutboxAssumption DEF Inv, TypeOK, Memoria, OutboxAssumption
    <3>2. worker' = [worker EXCEPT ![w] = [worker[w] EXCEPT
               !.fase = "ciclo", !.atual = Ninguem, !.falhou = FALSE, !.lido = lido]]
      <4>1. worker \in [Workers -> Memoria] /\ worker[w] \in Memoria
        BY DEF Inv, TypeOK
      <4>2. worker' = [worker EXCEPT ![w].fase = "ciclo", ![w].atual = Ninguem,
                           ![w].falhou = FALSE, ![w].lido[worker[w].atual] = 0]
        BY DEF FecharAtual, Adiar, AdiarCom
      <4> QED BY <4>1, <4>2 DEF Memoria
    <3> HIDE DEF lido
    <3>3. [worker[w] EXCEPT !.fase = "ciclo", !.atual = Ninguem, !.falhou = FALSE,
               !.lido = lido] \in Memoria
      BY <3>1 DEF Inv, TypeOK, Memoria, Fases
    <3> QED BY <3>2, <3>3 DEF Inv, TypeOK
  <2>3. vez' \in [Eventos -> Nat]
    BY <2>1, OrdemTipada DEF Inv, Adiar, AdiarCom
  <2>4. status' \in [Eventos -> {"ausente", "pending", "delivered", "dead"}]
    BY <2>1 DEF Inv, TypeOK, Adiar, AdiarCom
  <2>5. attempts' \in [Eventos -> 0 .. MaximoDeTentativas]
    BY <2>1, OutboxAssumption DEF Inv, TypeOK, Memoria, OutboxAssumption, Adiar, AdiarCom
  <2> QED BY <2>2, <2>3, <2>4, <2>5 DEF Inv, TypeOK, Adiar, AdiarCom
<1>2. RegistroTemEfeito'
  BY DEF Inv, TypeOK, Memoria, RegistroTemEfeito, MemoriaCoerente, EmCursoCoerente, linhas, Adiar, AdiarCom, FecharAtual, Sair
<1>3. TentativasRestantes'
  BY OutboxAssumption
  DEF Inv, TypeOK, Memoria, MemoriaCoerente, TentativasRestantes, EmCursoCoerente, OutboxAssumption,
      linhas, Adiar, AdiarCom, FecharAtual, Sair
<1>4. ASSUME NEW v \in Workers
      PROVE  /\ \A x \in (worker[v].lote)' : status'[x] # "ausente"
             /\ EmCursoCoerente(v)'
  BY <1>4
  DEF Inv, TypeOK, Memoria, RegistroTemEfeito, MemoriaCoerente, EmCursoCoerente, linhas, Adiar, AdiarCom, FecharAtual, Sair
<1> QED BY <1>1, <1>2, <1>3, <1>4 DEF Inv, MemoriaCoerente

\* A worker that forgets everything has nothing left to be wrong about.
LEMMA TerminarCicloInv ==
    ASSUME Inv, NEW w \in Workers, TerminarCiclo(w)
    PROVE  Inv'
<1>1. TypeOK'
  BY OutboxAssumption, MemoriaVazia
  DEF Inv, TypeOK, Memoria, Fases, MemoriaCoerente, TentativasRestantes, EmCursoCoerente,
      OutboxAssumption, linhas, TerminarCiclo, Fases
<1>2. RegistroTemEfeito'
  BY DEF Inv, TypeOK, Memoria, RegistroTemEfeito, MemoriaCoerente, EmCursoCoerente, linhas, TerminarCiclo, Vazia
<1>3. TentativasRestantes'
  BY OutboxAssumption
  DEF Inv, TypeOK, Memoria, MemoriaCoerente, TentativasRestantes, EmCursoCoerente, OutboxAssumption,
      linhas, TerminarCiclo, Vazia
<1>4. ASSUME NEW v \in Workers
      PROVE  /\ \A x \in (worker[v].lote)' : status'[x] # "ausente"
             /\ EmCursoCoerente(v)'
  BY <1>4
  DEF Inv, TypeOK, Memoria, RegistroTemEfeito, MemoriaCoerente, EmCursoCoerente, linhas, TerminarCiclo, Vazia
<1> QED BY <1>1, <1>2, <1>3, <1>4 DEF Inv, MemoriaCoerente

\* The same when the cycle is dropped.
LEMMA FalharCicloInv ==
    ASSUME Inv, NEW w \in Workers, FalharCiclo(w)
    PROVE  Inv'
<1>1. TypeOK'
  BY OutboxAssumption, MemoriaVazia
  DEF Inv, TypeOK, Memoria, Fases, MemoriaCoerente, TentativasRestantes, EmCursoCoerente,
      OutboxAssumption, linhas, FalharCiclo, Fases
<1>2. RegistroTemEfeito'
  BY DEF Inv, TypeOK, Memoria, RegistroTemEfeito, MemoriaCoerente, EmCursoCoerente, linhas, FalharCiclo, Vazia
<1>3. TentativasRestantes'
  BY OutboxAssumption
  DEF Inv, TypeOK, Memoria, MemoriaCoerente, TentativasRestantes, EmCursoCoerente, OutboxAssumption,
      linhas, FalharCiclo, Vazia
<1>4. ASSUME NEW v \in Workers
      PROVE  /\ \A x \in (worker[v].lote)' : status'[x] # "ausente"
             /\ EmCursoCoerente(v)'
  BY <1>4
  DEF Inv, TypeOK, Memoria, RegistroTemEfeito, MemoriaCoerente, EmCursoCoerente, linhas, FalharCiclo, Vazia
<1> QED BY <1>1, <1>2, <1>3, <1>4 DEF Inv, MemoriaCoerente

\* The same when the process dies.
LEMMA EncerrarInv ==
    ASSUME Inv, NEW w \in Workers, Encerrar(w)
    PROVE  Inv'
<1>1. TypeOK'
  BY OutboxAssumption, MemoriaVazia
  DEF Inv, TypeOK, Memoria, Fases, MemoriaCoerente, TentativasRestantes, EmCursoCoerente,
      OutboxAssumption, linhas, Encerrar, Fases
<1>2. RegistroTemEfeito'
  BY DEF Inv, TypeOK, Memoria, RegistroTemEfeito, MemoriaCoerente, EmCursoCoerente, linhas, Encerrar, Vazia
<1>3. TentativasRestantes'
  BY OutboxAssumption
  DEF Inv, TypeOK, Memoria, MemoriaCoerente, TentativasRestantes, EmCursoCoerente, OutboxAssumption,
      linhas, Encerrar, Vazia
<1>4. ASSUME NEW v \in Workers
      PROVE  /\ \A x \in (worker[v].lote)' : status'[x] # "ausente"
             /\ EmCursoCoerente(v)'
  BY <1>4
  DEF Inv, TypeOK, Memoria, RegistroTemEfeito, MemoriaCoerente, EmCursoCoerente, linhas, Encerrar, Vazia
<1> QED BY <1>1, <1>2, <1>3, <1>4 DEF Inv, MemoriaCoerente

\* The same when it starts again.
LEMMA ReiniciarInv ==
    ASSUME Inv, NEW w \in Workers, Reiniciar(w)
    PROVE  Inv'
<1>1. TypeOK'
  BY OutboxAssumption, MemoriaVazia
  DEF Inv, TypeOK, Memoria, Fases, MemoriaCoerente, TentativasRestantes, EmCursoCoerente,
      OutboxAssumption, linhas, Reiniciar, Fases
<1>2. RegistroTemEfeito'
  BY DEF Inv, TypeOK, Memoria, RegistroTemEfeito, MemoriaCoerente, EmCursoCoerente, linhas, Reiniciar, Vazia
<1>3. TentativasRestantes'
  BY OutboxAssumption
  DEF Inv, TypeOK, Memoria, MemoriaCoerente, TentativasRestantes, EmCursoCoerente, OutboxAssumption,
      linhas, Reiniciar, Vazia
<1>4. ASSUME NEW v \in Workers
      PROVE  /\ \A x \in (worker[v].lote)' : status'[x] # "ausente"
             /\ EmCursoCoerente(v)'
  BY <1>4
  DEF Inv, TypeOK, Memoria, RegistroTemEfeito, MemoriaCoerente, EmCursoCoerente, linhas, Reiniciar, Vazia
<1> QED BY <1>1, <1>2, <1>3, <1>4 DEF Inv, MemoriaCoerente

-----------------------------------------------------------------------------
(* The theorems.                                                           *)

\* Every step of the outbox preserves the invariant.
LEMMA PassoInv ==
    ASSUME Inv, [Next]_vars PROVE Inv'
<1>1. CASE UNCHANGED vars
  BY <1>1 DEF Inv, TypeOK, RegistroTemEfeito, MemoriaCoerente, TentativasRestantes,
              EmCursoCoerente, vars, linhas
<1>2. ASSUME NEW e \in Eventos, Publicar(e) \/ Amadurecer(e) \/ Reviver(e) PROVE Inv'
  BY <1>2, LinhaInv
<1>3. ASSUME NEW w \in Workers, Passo(w) PROVE Inv'
  BY <1>3, IniciarCicloInv, LoteInv, AbrirEventoInv, TratarComExitoInv, TratarComFalhaInv,
     RegistrarEntregaInv, ConcluirInv, AdiarInv, TerminarCicloInv, ReiniciarInv DEF Passo
<1>4. ASSUME NEW w \in Workers, Pane(w) PROVE Inv'
  BY <1>4, RegistrarEntregaFalhaInv, FalharCicloInv, EncerrarInv DEF Pane
<1> QED BY <1>1, <1>2, <1>3, <1>4 DEF Next

\* The inductive invariant holds in every reachable state: types, the truth of
\* delivered_to, and what the memory of each worker says of the rows.
THEOREM InvSempre == Spec => []Inv
BY InitInv, PassoInv, PTL DEF Spec

\* Rows and workers' memory keep their types: attempts never passes
\* maximoDeTentativas, with any number of workers reading stale attempts.
THEOREM TiposSempre == Spec => []TypeOK
<1>1. Inv => TypeOK
  BY DEF Inv
<1> QED BY <1>1, InvSempre, PTL

\* No delivery is ever recorded that did not happen.
THEOREM RegistroSempre == Spec => []RegistroTemEfeito
<1>1. Inv => RegistroTemEfeito
  BY DEF Inv
<1> QED BY <1>1, InvSempre, PTL

\* A worker's memory never contradicts the rows it is about to write.
THEOREM MemoriaSempre == Spec => []MemoriaCoerente
<1>1. Inv => MemoriaCoerente
  BY DEF Inv
<1> QED BY <1>1, InvSempre, PTL

\* Nothing published and nothing received: the promise starts there too.
LEMMA InitPromessa == Init => Promessa!Init
BY DEF Init, Promessa!Init

\* A call of a handler maps to Receber, or to nothing when the call repeats.
LEMMA ReceberPromessa ==
    ASSUME Inv, NEW w \in Workers, NEW h \in Handlers, worker[w].fase = "entregando",
           h \in worker[w].pendentes, UNCHANGED status,
           recebido' = [recebido EXCEPT ![worker[w].atual] = @ \union {h}]
    PROVE  Promessa!Next
<1>1. worker[w].atual \in Eventos /\ status[worker[w].atual] # "ausente"
      /\ h \in Assinantes[worker[w].atual]
  BY DEF Inv, MemoriaCoerente, EmCursoCoerente
<1>2. Promessa!Receber(worker[w].atual, h)
  BY <1>1 DEF Promessa!Receber
<1> QED BY <1>1, <1>2 DEF Promessa!Next

\* Every step of the outbox is a step of the promise, or leaves it as it is.
LEMMA PassoPromessa ==
    ASSUME Inv, [Next]_vars PROVE [Promessa!Next]_(Promessa!avars)
<1> USE DEF Promessa!avars
<1>1. CASE UNCHANGED vars
  BY <1>1 DEF vars, linhas
<1>2. ASSUME NEW e \in Eventos, Publicar(e) \/ Amadurecer(e) \/ Reviver(e)
      PROVE  [Promessa!Next]_(Promessa!avars)
  BY <1>2 DEF Publicar, Amadurecer, Reviver, Promessa!Next, Promessa!Publicar, Promessa!Reviver
<1>3. ASSUME NEW w \in Workers, Passo(w) PROVE [Promessa!Next]_(Promessa!avars)
  <2>1. CASE \/ IniciarCiclo(w) \/ \E t \in Empresas : Lote(w, t)
             \/ \E e \in Eventos : AbrirEvento(w, e)
             \/ RegistrarEntrega(w) \/ TerminarCiclo(w) \/ Reiniciar(w)
    BY <2>1 DEF IniciarCiclo, Lote, AbrirEvento, RegistrarEntrega, TerminarCiclo, Reiniciar, linhas
  <2>2. ASSUME NEW h \in Handlers, TratarComExito(w, h)
        PROVE  [Promessa!Next]_(Promessa!avars)
    BY <2>2, ReceberPromessa DEF TratarComExito, linhas
  <2>3. ASSUME NEW h \in Handlers, TratarComFalha(w, h)
        PROVE  [Promessa!Next]_(Promessa!avars)
    BY <2>3, ReceberPromessa DEF TratarComFalha, linhas
  <2>4. CASE Concluir(w)
    <3>1. Promessa!Fechar(worker[w].atual) /\ worker[w].atual \in Eventos
      BY <2>4 DEF Inv, MemoriaCoerente, EmCursoCoerente, Concluir, Promessa!Fechar
    <3> QED BY <3>1 DEF Promessa!Next
  <2>5. CASE Adiar(w)
    <3>1. worker[w].atual \in Eventos /\ status[worker[w].atual] # "ausente"
      BY <2>5 DEF Inv, MemoriaCoerente, EmCursoCoerente, Adiar, AdiarCom
    <3>2. UNCHANGED <<status, recebido>> \/ Promessa!Desistir(worker[w].atual)
      BY <2>5, <3>1 DEF Inv, TypeOK, Adiar, AdiarCom, Promessa!Desistir
    <3> QED BY <3>1, <3>2 DEF Promessa!Next
  <2> QED BY <1>3, <2>1, <2>2, <2>3, <2>4, <2>5 DEF Passo
<1>4. ASSUME NEW w \in Workers, Pane(w) PROVE [Promessa!Next]_(Promessa!avars)
  BY <1>4 DEF Pane, RegistrarEntregaFalha, FalharCiclo, Encerrar, linhas
<1> QED BY <1>1, <1>2, <1>3, <1>4 DEF Next

\* The outbox implements AtLeastOnce: no published event is lost, and none is
\* closed as delivered before every subscriber received it.
THEOREM OutboxCumpre == Spec => CumpreAPromessa
<1>1. Init => Promessa!Init
  BY InitPromessa
<1>2. Inv /\ [Next]_vars => [Promessa!Next]_(Promessa!avars)
  BY PassoPromessa
<1> QED BY <1>1, <1>2, InvSempre, PTL DEF Spec, CumpreAPromessa, Promessa!Spec

\* The promise keeps a closed event received: an event is closed on that evidence
\* only, and nothing received is taken back.
LEMMA EntreguePasso ==
    ASSUME TypeOK, Promessa!EntregueRecebido, [Promessa!Next]_(Promessa!avars)
    PROVE  Promessa!EntregueRecebido'
<1>1. CASE UNCHANGED Promessa!avars
  BY <1>1 DEF Promessa!avars, Promessa!EntregueRecebido
<1>2. ASSUME NEW e \in Eventos,
             \/ Promessa!Publicar(e) \/ Promessa!Fechar(e)
             \/ Promessa!Desistir(e) \/ Promessa!Reviver(e)
      PROVE  Promessa!EntregueRecebido'
  BY <1>2 DEF TypeOK, Promessa!EntregueRecebido, Promessa!Publicar, Promessa!Fechar,
              Promessa!Desistir, Promessa!Reviver
<1>3. ASSUME NEW e \in Eventos, NEW h \in Handlers, Promessa!Receber(e, h)
      PROVE  Promessa!EntregueRecebido'
  BY <1>3 DEF TypeOK, Promessa!EntregueRecebido, Promessa!Receber
<1> QED BY <1>1, <1>2, <1>3 DEF Promessa!Next

\* Whatever stands as delivered in the table was received by every subscriber,
\* with any number of workers, deaths and failures (OutboxDispatcher).
THEOREM EntregueRecebidoSempre == Spec => []Promessa!EntregueRecebido
<1>1. Promessa!Init => Promessa!EntregueRecebido
  BY DEF Promessa!Init, Promessa!EntregueRecebido
<1> QED BY <1>1, EntreguePasso, TiposSempre, OutboxCumpre, PTL
        DEF CumpreAPromessa, Promessa!Spec

-----------------------------------------------------------------------------
(* One worker.                                                             *)

\* Everything was read by the only process that writes: the empty table and the
\* idle worker.
LEMMA SozinhoInicio == Init => SozinhoInv
BY OutboxAssumption
DEF Init, SozinhoInv, MortoSoNoLimite, MemoriaFiel, Vazia, OutboxAssumption

\* Publication, time and revival touch only rows the worker does not have: it
\* has pending ones, and the order of the line is nothing to it.
LEMMA SozinhoLinha ==
    ASSUME Inv, SozinhoInv, NEW e \in Eventos, Publicar(e) \/ Amadurecer(e) \/ Reviver(e)
    PROVE  SozinhoInv'
<1>1. MortoSoNoLimite'
  BY OutboxAssumption
  DEF Inv, TypeOK, MemoriaCoerente, TentativasRestantes, SozinhoInv, MortoSoNoLimite,
      Publicar, Amadurecer, Reviver, OutboxAssumption
<1>2. ASSUME NEW w \in Workers PROVE MemoriaFiel(w)'
  <2>1. MemoriaFiel(w) /\ UNCHANGED <<worker, deliveredTo>>
    BY DEF SozinhoInv, Publicar, Amadurecer, Reviver
  <2>2. \A x \in Eventos : status[x] = "pending" =>
            status'[x] = status[x] /\ attempts'[x] = attempts[x]
    BY DEF Inv, TypeOK, Publicar, Amadurecer, Reviver
  <2>3. worker[w].lote \subseteq Eventos
        /\ (worker[w].fase \in {"entregando", "tratado"} => worker[w].atual \in Eventos)
    BY DEF Inv, TypeOK, Memoria, MemoriaCoerente, EmCursoCoerente
  <2> QED BY <2>1, <2>2, <2>3 DEF MemoriaFiel
<1> QED BY <1>1, <1>2 DEF SozinhoInv

\* A worker that has forgotten everything remembers nothing wrong.
LEMMA SozinhoVazia ==
    ASSUME NEW w \in Workers, NEW f \in {"parado", "ocioso"}, worker'[w] = Vazia(f)
    PROVE  MemoriaFiel(w)'
BY DEF MemoriaFiel, Vazia

\* Until the current event is closed, a cycle writes no status and no count.
LEMMA SozinhoCiclo ==
    ASSUME Inv, SozinhoInv, NEW w \in Workers,
           \/ IniciarCiclo(w)
           \/ \E t \in Empresas : Lote(w, t)
           \/ \E e \in Eventos : AbrirEvento(w, e)
           \/ TerminarCiclo(w) \/ Reiniciar(w) \/ FalharCiclo(w) \/ Encerrar(w)
    PROVE  MemoriaFiel(w)' /\ UNCHANGED <<status, attempts, recebido>>
<1>0. worker \in [Workers -> Memoria] /\ worker[w] \in Memoria /\ MemoriaFiel(w)
  BY DEF Inv, TypeOK, SozinhoInv
<1>1. CASE IniciarCiclo(w)
  <2>1. PICK T : worker' = [worker EXCEPT ![w].fase = "ciclo", ![w].empresas = T]
    BY <1>1 DEF IniciarCiclo
  <2>2. /\ worker'[w].fase = "ciclo" /\ worker'[w].lote = worker[w].lote
        /\ worker'[w].lido = worker[w].lido
    BY <1>0, <2>1 DEF Memoria
  <2> QED BY <1>0, <1>1, <2>2 DEF IniciarCiclo, linhas, MemoriaFiel
<1>2. ASSUME NEW t \in Empresas, Lote(w, t)
      PROVE  MemoriaFiel(w)' /\ UNCHANGED <<status, attempts, recebido>>
  <2> DEFINE lidos(L) == [x \in Eventos |-> IF x \in L THEN attempts[x] ELSE 0]
  <2>1. PICK L \in SUBSET {x \in Eventos : status[x] = "pending"} :
           worker' = [worker EXCEPT ![w].empresas = @ \ {t}, ![w].lote = L, ![w].lido = lidos(L)]
    BY <1>2 DEF Lote, Elegiveis
  <2>2. \A x \in L : lidos(L)[x] = attempts[x]
    OBVIOUS
  <2> HIDE DEF lidos
  <2>3. worker'[w].fase = "ciclo" /\ worker'[w].lote = L /\ worker'[w].lido = lidos(L)
    BY <1>0, <1>2, <2>1 DEF Memoria, Lote
  <2> QED BY <1>2, <2>2, <2>3 DEF Lote, linhas, MemoriaFiel
<1>3. ASSUME NEW e \in Eventos, AbrirEvento(w, e)
      PROVE  MemoriaFiel(w)' /\ UNCHANGED <<status, attempts, recebido>>
  <2>1. /\ worker'[w].lote = worker[w].lote \ {e} /\ worker'[w].atual = e
        /\ worker'[w].lido = worker[w].lido /\ worker'[w].fase = "entregando"
        /\ worker'[w].pendentes = Assinantes[e] \ deliveredTo[e]
    BY <1>0, <1>3 DEF Memoria, AbrirEvento
  <2> QED BY <1>0, <1>3, <2>1 DEF AbrirEvento, linhas, MemoriaFiel
<1>4. CASE TerminarCiclo(w) \/ Reiniciar(w) \/ FalharCiclo(w)
  BY <1>0, <1>4, SozinhoVazia DEF TerminarCiclo, Reiniciar, FalharCiclo, linhas
<1>5. CASE Encerrar(w)
  BY <1>0, <1>5, SozinhoVazia DEF Encerrar, linhas
<1> QED BY <1>1, <1>2, <1>3, <1>4, <1>5

\* Nor does the delivery of an event; a handler goes from those to be called to
\* the one called, and from there to the record.
LEMMA SozinhoEntrega ==
    ASSUME Inv, SozinhoInv, NEW w \in Workers,
           \/ \E h \in Handlers : TratarComExito(w, h) \/ TratarComFalha(w, h)
           \/ RegistrarEntrega(w) \/ RegistrarEntregaFalha(w)
    PROVE  MemoriaFiel(w)' /\ UNCHANGED <<status, attempts>>
<1>0. worker \in [Workers -> Memoria] /\ worker[w] \in Memoria /\ MemoriaFiel(w)
  BY DEF Inv, TypeOK, SozinhoInv
<1>1. ASSUME NEW h \in Handlers, TratarComExito(w, h)
      PROVE  MemoriaFiel(w)' /\ UNCHANGED <<status, attempts>>
  <2>1. /\ worker'[w].lote = worker[w].lote /\ worker'[w].atual = worker[w].atual
        /\ worker'[w].lido = worker[w].lido /\ worker'[w].handler = h
        /\ worker'[w].pendentes = worker[w].pendentes \ {h}
    BY <1>0, <1>1 DEF Memoria, TratarComExito
  <2> QED BY <1>0, <1>1, <2>1 DEF TratarComExito, linhas, MemoriaFiel
<1>2. ASSUME NEW h \in Handlers, TratarComFalha(w, h)
      PROVE  MemoriaFiel(w)' /\ UNCHANGED <<status, attempts>>
  <2>1. /\ worker'[w].lote = worker[w].lote /\ worker'[w].atual = worker[w].atual
        /\ worker'[w].lido = worker[w].lido /\ worker'[w].fase = "entregando"
        /\ worker'[w].pendentes = worker[w].pendentes \ {h}
    BY <1>0, <1>2 DEF Memoria, TratarComFalha
  <2> QED BY <1>0, <1>2, <2>1 DEF TratarComFalha, linhas, MemoriaFiel
<1>3. CASE RegistrarEntrega(w) \/ RegistrarEntregaFalha(w)
  <2>1. /\ worker'[w].lote = worker[w].lote /\ worker'[w].atual = worker[w].atual
        /\ worker'[w].lido = worker[w].lido /\ worker'[w].fase = "entregando"
        /\ worker'[w].pendentes = worker[w].pendentes
    BY <1>0, <1>3 DEF Memoria, RegistrarEntrega, RegistrarEntregaFalha
  <2>2. worker[w].atual \in Eventos /\ deliveredTo \in [Eventos -> SUBSET Handlers]
    BY <1>3 DEF Inv, TypeOK, MemoriaCoerente, EmCursoCoerente, RegistrarEntrega,
                RegistrarEntregaFalha
  <2>3. deliveredTo'[worker[w].atual]
            \subseteq deliveredTo[worker[w].atual] \union {worker[w].handler}
    BY <1>3, <2>2 DEF RegistrarEntrega, RegistrarEntregaFalha, linhas
  <2>4. worker[w].fase = "tratado" /\ UNCHANGED <<status, attempts>>
    BY <1>3 DEF RegistrarEntrega, RegistrarEntregaFalha, linhas
  <2> QED BY <1>0, <2>1, <2>3, <2>4 DEF MemoriaFiel
<1> QED BY <1>1, <1>2, <1>3

\* What closes an event writes on the count the row has still, and on no row of
\* the rest of the batch.
LEMMA SozinhoFecha ==
    ASSUME Inv, SozinhoInv, NEW w \in Workers, Concluir(w) \/ Adiar(w)
    PROVE  MemoriaFiel(w)' /\ MortoSoNoLimite'
<1>0. worker \in [Workers -> Memoria] /\ worker[w] \in Memoria /\ MemoriaFiel(w)
  BY DEF Inv, TypeOK, SozinhoInv
<1>1. PICK e \in Eventos : e = worker[w].atual
  BY DEF Inv, MemoriaCoerente, EmCursoCoerente, Concluir, Adiar, AdiarCom
<1>2. e \notin worker[w].lote /\ status[e] = "pending" /\ worker[w].lido[e] = attempts[e]
  BY <1>0, <1>1 DEF MemoriaFiel, Concluir, Adiar, AdiarCom
<1>3. /\ status \in [Eventos -> {"ausente", "pending", "delivered", "dead"}]
      /\ attempts \in [Eventos -> 0 .. MaximoDeTentativas]
      /\ attempts[e] < MaximoDeTentativas /\ MaximoDeTentativas \in Nat \ {0}
  BY <1>2, OutboxAssumption DEF Inv, TypeOK, MemoriaCoerente, TentativasRestantes, OutboxAssumption
<1>4. MemoriaFiel(w)'
  <2> DEFINE lido == [worker[w].lido EXCEPT ![e] = 0]
  <2>1. worker' = [worker EXCEPT ![w] = [worker[w] EXCEPT
             !.fase = "ciclo", !.atual = Ninguem, !.falhou = FALSE, !.lido = lido]]
    BY <1>0, <1>1 DEF Memoria, FecharAtual, Concluir, Adiar, AdiarCom
  <2>2. \A x \in Eventos \ {e} : lido[x] = worker[w].lido[x]
    BY <1>0 DEF Memoria
  <2> HIDE DEF lido
  <2>3. worker'[w].fase = "ciclo" /\ worker'[w].lote = worker[w].lote /\ worker'[w].lido = lido
    BY <1>0, <2>1 DEF Memoria
  <2>4. worker[w].lote \subseteq Eventos \ {e}
    BY <1>0, <1>2 DEF Memoria
  <2>5. \A x \in Eventos \ {e} : status'[x] = status[x] /\ attempts'[x] = attempts[x]
    BY <1>1, <1>3 DEF Concluir, Adiar, AdiarCom
  <2> QED BY <1>0, <2>2, <2>3, <2>4, <2>5 DEF MemoriaFiel
<1>5. MortoSoNoLimite'
  <2>1. CASE Concluir(w)
    BY <1>1, <1>3, <2>1 DEF SozinhoInv, MortoSoNoLimite, Concluir
  <2>2. CASE Adiar(w)
    <3>1. PICK k \in Nat : k = attempts[e] + 1
      BY <1>3
    <3>2. attempts' = [attempts EXCEPT ![e] = k]
          /\ status' = [status EXCEPT ![e] = IF k >= MaximoDeTentativas THEN "dead" ELSE @]
      BY <1>1, <1>2, <2>2, <3>1 DEF Adiar, AdiarCom
    <3>3. k <= MaximoDeTentativas
      BY <1>3, <3>1
    <3> QED BY <1>2, <1>3, <3>2, <3>3 DEF SozinhoInv, MortoSoNoLimite
  <2> QED BY <2>1, <2>2
<1> QED BY <1>4, <1>5

\* With one worker every step keeps its memory true of the rows.
LEMMA SozinhoPasso ==
    ASSUME UmSoWorker, Inv, SozinhoInv, [Next]_vars PROVE SozinhoInv'
<1>1. CASE UNCHANGED vars
  BY <1>1 DEF SozinhoInv, MortoSoNoLimite, MemoriaFiel, vars, linhas
<1>2. ASSUME NEW e \in Eventos, Publicar(e) \/ Amadurecer(e) \/ Reviver(e) PROVE SozinhoInv'
  BY <1>2, SozinhoLinha
<1>3. ASSUME NEW w \in Workers, Passo(w) \/ Pane(w) PROVE SozinhoInv'
  <2>1. MemoriaFiel(w)' /\ MortoSoNoLimite' => SozinhoInv'
    BY DEF UmSoWorker, SozinhoInv
  <2>2. UNCHANGED <<status, attempts>> => MortoSoNoLimite'
    BY DEF SozinhoInv, MortoSoNoLimite
  <2>3. CASE Concluir(w) \/ Adiar(w)
    BY <2>1, <2>3, SozinhoFecha
  <2>4. CASE \/ \E h \in Handlers : TratarComExito(w, h) \/ TratarComFalha(w, h)
             \/ RegistrarEntrega(w) \/ RegistrarEntregaFalha(w)
    BY <2>1, <2>2, <2>4, SozinhoEntrega
  <2>5. CASE \/ IniciarCiclo(w)
             \/ \E t \in Empresas : Lote(w, t)
             \/ \E e \in Eventos : AbrirEvento(w, e)
             \/ TerminarCiclo(w) \/ Reiniciar(w) \/ FalharCiclo(w) \/ Encerrar(w)
    BY <2>1, <2>2, <2>5, SozinhoCiclo
  <2> QED BY <1>3, <2>3, <2>4, <2>5 DEF Passo, Pane
<1> QED BY <1>1, <1>2, <1>3 DEF Next

\* One process alone remembers every row it works on as it is, whatever dies or
\* is revived meanwhile.
LEMMA SozinhoSempre == ASSUME UmSoWorker PROVE Spec => []SozinhoInv
<1>1. Inv /\ SozinhoInv /\ [Next]_vars => SozinhoInv'
  BY SozinhoPasso
<1> QED BY <1>1, SozinhoInicio, InvSempre, PTL DEF Spec

\* With one worker the dead letter queue holds the events that used up all
\* their attempts, and only those (adiar, reviver).
THEOREM MortoSempre == ASSUME UmSoWorker PROVE Spec => []MortoSoNoLimite
<1>1. SozinhoInv => MortoSoNoLimite
  BY DEF SozinhoInv
<1> QED BY <1>1, SozinhoSempre, PTL

\* With one worker no handler is called again once its delivery is recorded:
\* not by a retry, a revival or a restart (entreguesA, registrarEntrega).
THEOREM RetrySempre == ASSUME UmSoWorker PROVE Spec => []RetryNaoRepete
<1>1. SozinhoInv => RetryNaoRepete
  BY DEF SozinhoInv, MemoriaFiel, RetryNaoRepete
<1> QED BY <1>1, SozinhoSempre, PTL

\* A row whose event is delivered is touched by nobody: the only worker has
\* pending ones.
LEMMA EntregueFica ==
    ASSUME Inv, SozinhoInv, [Next]_vars, NEW e \in Eventos, status[e] = "delivered"
    PROVE  /\ status'[e] = "delivered"
           /\ attempts'[e] = attempts[e]
           /\ recebido'[e] = recebido[e]
<1>1. CASE UNCHANGED vars
  BY <1>1 DEF vars, linhas
<1>2. ASSUME NEW x \in Eventos, Publicar(x) \/ Amadurecer(x) \/ Reviver(x)
      PROVE  /\ status'[e] = status[e]
             /\ attempts'[e] = attempts[e]
             /\ recebido'[e] = recebido[e]
  BY <1>2 DEF Inv, TypeOK, Publicar, Amadurecer, Reviver
<1>3. ASSUME NEW w \in Workers, Passo(w) \/ Pane(w)
      PROVE  /\ status'[e] = status[e]
             /\ attempts'[e] = attempts[e]
             /\ recebido'[e] = recebido[e]
  <2>1. worker[w].fase \in {"entregando", "tratado"} =>
            worker[w].atual \in Eventos \ {e}
    BY DEF SozinhoInv, MemoriaFiel, Inv, MemoriaCoerente, EmCursoCoerente
  <2>2. CASE Concluir(w) \/ Adiar(w)
    BY <2>1, <2>2 DEF Inv, TypeOK, Concluir, Adiar, AdiarCom
  <2>3. CASE \E h \in Handlers : TratarComExito(w, h) \/ TratarComFalha(w, h)
    BY <2>1, <2>3 DEF Inv, TypeOK, TratarComExito, TratarComFalha, linhas
  <2>4. CASE RegistrarEntrega(w) \/ RegistrarEntregaFalha(w)
    BY <2>4 DEF RegistrarEntrega, RegistrarEntregaFalha, linhas
  <2>5. CASE \/ IniciarCiclo(w)
             \/ \E t \in Empresas : Lote(w, t)
             \/ \E x \in Eventos : AbrirEvento(w, x)
             \/ TerminarCiclo(w) \/ Reiniciar(w) \/ FalharCiclo(w) \/ Encerrar(w)
    BY <2>5, SozinhoCiclo
  <2> QED BY <1>3, <2>2, <2>3, <2>4, <2>5 DEF Passo, Pane
<1> QED BY <1>1, <1>2, <1>3 DEF Next

\* With one worker a delivered event is never tried, delayed or declared dead
\* afterwards (concluir).
THEOREM EntregueSempre == ASSUME UmSoWorker PROVE Spec => EntregueEFinal
<1> DEFINE Fica == \A e \in Eventos : status[e] = "delivered" =>
              /\ status'[e] = "delivered"
              /\ attempts'[e] = attempts[e]
              /\ recebido'[e] = recebido[e]
<1>1. Inv /\ SozinhoInv /\ [Next]_vars => [Fica]_vars
  BY EntregueFica
<1> HIDE DEF Fica
<1>2. Spec => [][Fica]_vars
  BY <1>1, SozinhoSempre, InvSempre, PTL DEF Spec
<1> QED BY <1>2 DEF EntregueEFinal, Fica
=============================================================================
