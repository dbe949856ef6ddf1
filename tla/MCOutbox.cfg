SPECIFICATION FairSpec
CONSTANTS
    e1 = e1
    e2 = e2
    acme = acme
    beta = beta
    aviso = aviso
    indice = indice
    Ninguem = Ninguem
    Eventos = {e1, e2}
    Empresas = {acme, beta}
    Handlers = {aviso, indice}
    Instaveis = {aviso}
    Workers = {w1, w2}
    MaximoDeTentativas = 2
    TamanhoDoLote = 1
    LimiteDeEmpresas = 2
    MaxPanes = 1
    Empresa <- MCEmpresa
    Assinantes <- MCAssinantes
INVARIANTS
    TypeOK
PROPERTIES
    CumpreAPromessa
    TodoEventoTermina
    EstavelRecebe
