SPECIFICATION MCSpec
CONSTANTS
    NADIE = NADIE
    BARRENDERO = BARRENDERO
    Pedidos = {p1}
    Mostradores = {m1, m2}
    Operadores = {o1}
    Admins = {a1}
    Usuarios = {u1}
    Peticiones = {r1}
    MAX_TOKENS = 3
    MAX_FALLOS_BARRIDO = 2
CHECK_DEADLOCK FALSE
INVARIANTS AnunciadoConOperadorEnOrden QuienSalioNoTraePedidosEnOrden
PROPERTIES ElLlamadoVuelve SesionCerradaNoRevive QuienSeFueSale
