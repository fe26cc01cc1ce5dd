SPECIFICATION MCSpec
CONSTANTS
    t1 = t1  t2 = t2
    PRODUCTO = PRODUCTO
    Tiendas = {t1, t2}
    TIENDA_GLOBAL = t1
    LOTE = 2
    REINTENTOS_MAXIMOS = 2
    MAX_BANDEJA = 4
    MAX_INCIDENTES = 1
    Incidentes = {}
PROPERTY SubeTodo
