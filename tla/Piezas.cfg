SPECIFICATION MCSpec
CONSTANTS
    NADA = NADA
    a = a  b = b
    Variantes = {a, b}
    PrecioBase <- PrecioDeLista
    PrecioMayoreo <- PrecioDeMayoreo
    SinPar = {}
    PIEZAS_MAYOREO = 3
    MAX_PIEZAS = 2
    MAX_CAMBIOS = 2
    MAX_LISTA = 2
    MAX_CAMBIOS_DEL_AJUSTE = 1
    MAX_FUERA = 2
CHECK_DEADLOCK FALSE
INVARIANTS LaBolsaCuadra LaBolsaDeMasSeAbre NadaQuedaSinDuenoEnOrden SeCobraLoSurtidoEnOrden
PROPERTIES LaPropuestaSeCumple
