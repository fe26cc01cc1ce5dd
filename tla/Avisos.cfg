CONSTANTS
    k1 = k1  k2 = k2  s1 = s1  s2 = s2  NADIE = NADIE
    Tabletas = {a}  Kioskos = {k1, k2}  Sucursales = {s1, s2}  TiendaDelKiosko <- TiendaDeCadaUno
    Peticiones = {r1, r2}  UMBRAL_TICS = 2  MAX_SOLICITUDES = 2  MAX_FALLOS = 1
    Pedidos = {p1}  UnaPeticion = {r1}  Instancias = {w1, w2}
    MAX_CONFIRMACIONES = 1  MAX_DESCARTES_WEB = 1
    MAX_MENSAJES = 2  MAX_MUERTES = 1
SPECIFICATION AvisosSpec
INVARIANTS
    UnRecordatorioPorEspera
    LoNoVistoSeCuentaEnOrden
PROPERTIES
    LaCaidaSeAvisa
    LaBolsaVence
CHECK_DEADLOCK FALSE
