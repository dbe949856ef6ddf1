SPECIFICATION FairSpec
CONSTANTS
    p1 = p1
    p2 = p2
    Pedidos = {p1, p2}
    Empresas = {e1, e2}
    Conexoes = {c1}
    Nulo = Nulo
    MaxPassos <- Orcamento
    MaxFundo = 2
    MaxQuedas = 1
CHECK_DEADLOCK FALSE
INVARIANTS
    TypeOK
    EscopoDaConsulta
PROPERTIES
    CumpreTudoOuNada
    TodosTerminam
