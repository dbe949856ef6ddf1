SPECIFICATION Spec
CONSTANTS
    k1 = k1
    Nenhum = Nenhum
    Nunca = Nunca
    Ativos = {a1}
    Bloqueios = {b1, b2}
    Sessoes = {s1}
    Operadores = {o1, o2}
    Locacoes = {r1, r2}
    Contratos = {k1}
    Instantes = {0, 1, 2}
    MaxTempo = 2
    InicioDo <- MCInicioDo
    FimDo <- MCFimDo
SYMMETRY Simetria
INVARIANTS
    TypeOK
    
    ReservaDaLocacao
    EncerramentoUnico
    EncerradaLibera

PROPERTY LiberacaoNaoReabre
