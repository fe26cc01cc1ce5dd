SPECIFICATION MCSpec
CONSTANTS
    t1 = t1  t2 = t2
    PRODUCTO = PRODUCTO
    Tiendas = {t1, t2}
    TIENDA_GLOBAL = t1
    LOTE = 2
    REINTENTOS_MAXIMOS = 2
    MAX_BANDEJA = 3
    MAX_INCIDENTES = 1
    Incidentes = {"SIN_CONEXION", "RECHAZADA", "RESPUESTA_PERDIDA", "FALLA_HANDLER", "CAIDA_NUBE", "CAIDA_AGENTE", "REPITE", "PURGA"}
INVARIANTS NadaSeSalta CargaCompleta
PROPERTIES SubeLoQueAlcanza
