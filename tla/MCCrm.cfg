SPECIFICATION Spec
CONSTANTS
    Antigo = Antigo
    Nulo = Nulo
    Manter = Manter
    Pedidos = {p1, p2, p3}
    Documentos = {d1}
    Responsaveis = {u1}
    MaxTempo = 3
    MaxAgora = 1
    MaxItens = 1
SYMMETRY Simetria
CHECK_DEADLOCK FALSE
INVARIANTS
    TypeOK
    SobreposicaoSoPorCorrida
    FechoSoPorCorrida
    AlteracaoSobrevive
    HistoricoNaoPula
