CONSTANTS
    b1 = b1  b2 = b2  r1 = r1  r2 = r2  i1 = i1  i2 = i2
    NADIE = NADIE
    Bodegueros  = {b1}
    IdPropuesta = {i1}
    Peticiones  = {r1, r2}
    Operaciones = {"TOMAR", "MARCAR_ITEM", "CONFIRMAR_SURTIDO", "ENVIAR_A_PAGAR", "PAGAR_AGENTE", "CANCELAR_SIN_PAGO", "CANCELAR_PAGADO"}
    MAX_SOLAPES = 2
    MAX_PROPUESTAS_CON_SOLAPE = 1
SPECIFICATION MCSpec
PROPERTY CobradoSoloLoCancelaAdmin
CHECK_DEADLOCK FALSE
