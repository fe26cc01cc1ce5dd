SPECIFICATION MCSpec
CONSTANTS
    t1 = t1  t2 = t2  r1 = r1  r2 = r2
    NADIE = NADIE
    Trabajos = {t1, t2}
    Peticiones = {r1, r2}
    MaxVersiones = 2
    Caidas = TRUE
    MAX_SOLAPES = 2
    MAX_ARCHIVOS = 3
    MAX_TRABAJOS_CON_SOLAPE = 1
SYMMETRY Simetria
CHECK_DEADLOCK FALSE
INVARIANTS
    ColaDeRevisionTomable
    ImprimeLoAprobadoEnOrden
    EnDtfEsperaAlgoEnOrden
PROPERTIES
    NadieEntraConDtfPendienteEnOrden
