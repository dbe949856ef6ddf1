SPECIFICATION Spec
CONSTANTS
    Papeis = {r1}
    PadroesDePapel <- TodosOsPadroes
    Escopos <- DoisTetos
    Tokens = {t1}
    Nulo = Nulo
    MaxAgora = 1
    MaxMudancas = 2
CHECK_DEADLOCK FALSE
INVARIANTS
    TypeOK
    NegadoNaoPassa
    QuemTemEntra
    MesmaPortaria
