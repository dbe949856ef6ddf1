SPECIFICATION TelasSpec
CONSTANTS
    Objetos = {o1, o2}
    Concessoes <- TresAcessos
    Nulo = Nulo
    MaxBuscas = 3
    MaxAlteracoes = 1
SYMMETRY Simetria
CHECK_DEADLOCK FALSE
INVARIANTS
    TelasTypeOK
    AgeNoQueMostra
    OfertaHonesta
