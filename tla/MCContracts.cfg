SPECIFICATION Spec
CONSTANTS
    SemItens = vazia
    Nenhuma = Nenhuma
    Nenhum = Nenhum
    Propostas = {p1}
    Listas = {vazia, l1, l2}
    Sessoes = {s1, s2}
    Validades = {1}
    MaxTempo = 1
    Contratos = {c1, c2}
    Escriventes = {o1, o2}
    Terminos = {1}
CHECK_DEADLOCK FALSE
SYMMETRY Simetria
INVARIANTS
    TypeOK
    LinhaAnunciada
PROPERTY
    EvoluiComoOperacoesSupoe
