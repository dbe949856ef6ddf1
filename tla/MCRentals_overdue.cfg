SPECIFICATION Spec
CONSTANTS
    k1 = k1
    Nenhum = Nenhum
    Nunca = Nunca
    Ativos = {a1}
    Bloqueios = {b1, b2}
    Sessoes = {}
    Operadores = {o1}
    Locacoes = {r1}
    Contratos = {k1}
    Instantes = {0, 1, 2}
    MaxTempo = 2
    InicioDo <- MCInicioDo
    FimDo <- MCFimDo
INVARIANT
    VencidaPodeDevolver
