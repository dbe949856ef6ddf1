SPECIFICATION ImplantacaoSpec
CONSTANTS
    Deploys = {d1, d2}
    Imagens <- AsImagens
    Operadores = {o1, o2}
    Slugs = {s1, s2}
    Emails = {m1, m2}
    Pedidos <- OsPedidos
    Nulo = Nulo
SYMMETRY Simetria
CHECK_DEADLOCK FALSE
INVARIANTS
    ImplantacaoTypeOK
    EsquemaDaImagem
    DonoEntra
