SPECIFICATION Spec
CONSTANTS
    k1 = k1
    k2 = k2
    Chamadas = {c1, c2}
    Chaves = {k1, k2, outra}
    Exigidas = {k1, k2}
    Permissoes = {lerCliente, criarCliente}
    Pedidas = {lerCliente}
    MaxInstalacoes = 2
CHECK_DEADLOCK FALSE
SYMMETRY Simetria
INVARIANTS
    TypeOK
    SoHabilitaVerificada
    SegredoDoDono
    RuntimeInteiro
