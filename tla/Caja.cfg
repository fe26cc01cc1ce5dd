SPECIFICATION ParteSpec
CONSTANTS
    p1 = p1  v1 = v1  v2 = v2  c1 = c1  a1 = a1  t1 = t1  t2 = t2
    p2 = p2  v3 = v3  c2 = c2  r1 = r1  r2 = r2
    NADIE = NADIE
    Pedidos = {p1, p2}
    PorTransferencia = {p1}
    Ventanillas = {v1, v2, v3}
    Cajeros = {c1, c2}
    Admins = {a1}
    Tiendas = {t1, t2}
    TiendaDePedido <- MCTiendaDePedido
    TiendaDeVentanilla <- MCTiendaDeVentanilla
    TiendaDeCajero <- MCTiendaDeCajero
    Peticiones = {r1, r2}
    INTENTOS_LLAMAR_SIGUIENTE = 2
    Operaciones = {"TOMAR", "LLAMAR", "LIBERAR", "NO_SE_PRESENTO", "ESPERAR_VALIDACION", "ELEGIR", "TOMAR_CONTROL", "SOLTAR", "BORRAR"}
INVARIANTS AtendidoConVentanillaSiNadieCoincide
PROPERTIES ElClienteSigueConSuCajero ElClienteVuelveALaPared
