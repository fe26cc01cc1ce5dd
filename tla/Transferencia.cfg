SPECIFICATION MCSpec
CONSTANTS
    i1 = i1
    i2 = i2
    i3 = i3
    r1 = r1
    r2 = r2
    NADIE = NADIE
    IdPago = {i1, i2, i3}
    Peticiones = {r1, r2}
    MAX_COMPROBANTES_PENDIENTES = 2
    MAX_COMPROBANTES_POR_PAGO = 3
    MAX_PAGOS_CON_SOLAPE = 2
SYMMETRY Simetria
CHECK_DEADLOCK FALSE
INVARIANTS
    PagoInequivoco
    CanceladoSinPagoAbierto
    AplicadoSoloCobrado
    CanceladoSinDineroAplicadoEnOrden
    AccionesFieles
PROPERTIES
    DineroVerificadoNoSePierde
