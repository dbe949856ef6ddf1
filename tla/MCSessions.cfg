SPECIFICATION Spec
CONSTANTS
    Fora = Fora
    Abas = {a1, a2}
    Requisicoes = {q1, q2}
    MaxTokens = 3
SYMMETRY Simetria
INVARIANTS
    TypeOK
    UmaVivaPorFamilia
    EncerradaNaoVive
    CookieVale
