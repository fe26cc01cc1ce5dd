SPECIFICATION FairSpec
CONSTANTS
    p1 = p1  p2 = p2
    Pedidos = {p1}
    SinReferencias = {p1}
    MAX_FOLIO = 4
    MAX_TOKENS = 4
    MAX_RECHAZOS = 2
    REINTENTOS_MAXIMOS = 1
    MAX_INCIDENTES = 2
    Incidentes = {"CAIDA", "CAIDA_TRAS_RESERVAR", "CAIDA_TRAS_GRABAR", "FALLA_RESERVA", "FALLA_GRABADO", "RESPUESTA_PERDIDA", "PETICION_PERDIDA", "AVISO_PERDIDO", "COBRO_DESMARCADO", "EXPIRA"}
INVARIANTS FolioDelTicketEsElDelErp
PROPERTIES LlegaAlErp CobroLlega CancelacionSeAvisa
