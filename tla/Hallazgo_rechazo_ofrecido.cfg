SPECIFICATION MCSpec
CONSTANTS
    b1 = b1  b2 = b2  r1 = r1  r2 = r2  i1 = i1  i2 = i2
    NADIE = NADIE
    Bodegueros  = {b1}
    IdPropuesta = {i1, i2}
    Peticiones  = {r1}
    Operaciones = {"TOMAR", "MARCAR_ITEM", "CONFIRMAR_SURTIDO", "RESPONDER", "ENVIAR_PROPUESTA",
        "AVISAR_LLEGADA", "RETIRAR_AVISO", "LLAMAR", "DEVOLVER_A_COLA"}
    MAX_SOLAPES = 2
    MAX_PROPUESTAS_CON_SOLAPE = 2
CHECK_DEADLOCK FALSE
INVARIANT RechazoOfrecidoCabe
