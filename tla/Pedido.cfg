SPECIFICATION MCSpec
CONSTANTS
    b1 = b1  b2 = b2  r1 = r1  r2 = r2  i1 = i1  i2 = i2
    NADIE = NADIE
    Bodegueros  = {b1, b2}
    IdPropuesta = {i1, i2}
    Peticiones  = {r1, r2}
    Operaciones = {"TOMAR", "TOMAR_GRUPO", "LIBERAR", "MARCAR_ITEM", "CONFIRMAR_SURTIDO",
        "ENVIAR", "ENVIAR_PROPUESTA", "DEVOLVER_A_BODEGA", "RESPONDER",
        "ENVIAR_A_PAGAR", "AJUSTAR", "CANCELAR_MOSTRADOR", "DEVOLVER_A_COLA",
        "TRAER_A_ENTREGA", "LLAMAR", "ENTREGAR", "AVISAR_LLEGADA",
        "RETIRAR_AVISO", "DESCARTAR", "NO_SE_PRESENTO", "CANCELAR_VENCIDO", "CANCELAR_CLIENTE",
        "CANCELAR_SIN_PAGO", "CANCELAR_PAGADO", "CANCELAR_ERP",
        "PAGAR_AGENTE", "PAGAR_MANUAL", "DTF_TERMINAR", "DTF_REIMPRIMIR"}
    MAX_SOLAPES = 2
    MAX_PROPUESTAS_CON_SOLAPE = 1
SYMMETRY Simetria
CHECK_DEADLOCK FALSE
INVARIANTS
    EncoladoSiiEnCaja
    FilaDeCajaCompleta
    EntregaSinPendientesEnOrden
    TodoPedidoSeVeEnOrden
    LoDemasOfrecidoCabe
PROPERTIES
    ImplementaCicloPedido
