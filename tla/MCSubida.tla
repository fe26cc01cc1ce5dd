------------------------------ MODULE MCSubida ------------------------------
(* Instances of Subida for TLC.  Two history variables: the events that an   *)
(* administrator has asked to process again (repetidos), and those of the    *)
(* rows that left the outbox without having been uploaded (purgados).        *)
EXTENDS Subida

CONSTANTS t1, t2

VARIABLES repetidos, purgados

Historia ==
    /\ repetidos' = repetidos \cup
          {id \in EventIds : inbox'[id].estado = "ERROR" /\ inbox'[id].intentos = 0}
    /\ purgados' = IF peticion.origen = "OUTBOX" THEN purgados
                   ELSE purgados \cup (EventIdsEnOutbox \ EventIdsEnOutbox')

MCInit == Init /\ repetidos = {} /\ purgados = {}
MCNext == Next /\ Historia
varsMC == <<vars, repetidos, purgados>>
MCSpec ==
    /\ MCInit /\ [][MCNext]_varsMC
    /\ WF_varsMC(PasoDelAgente /\ Historia)
    /\ WF_varsMC(PasoDeLaNube /\ Historia)
    /\ WF_varsMC(VenceEnLaNube /\ Historia)
    /\ WF_varsMC(VenceEnOutbox /\ Historia)

\* Notice n is decided, or was until somebody asked for it again.
Resuelto(n) ==
    Decidido(n) \/ \E s \in {"CON_TIENDA", "SIN_TIENDA"} : <<"BANDEJA", n, s>> \in repetidos

\* The checkpoint of a store never passes over a change that the cloud has not
\* decided, whatever is lost or fails (setCheckpoint of runOnce), in an agent whose
\* stores all have a checkpoint.
NadaSeSalta ==
    ~bootstrap.desdeCero =>
        \A n \in DOMAIN bandeja : n <= checkpoints[TiendaDe(bandeja[n])] => Resuelto(n)

\* When the first load is over, every row of it was taken by the cloud or died
\* there (until somebody asks for it again), or is in the outbox, unless it was
\* purged from there (bootstrapCatalogo).
CargaCompleta ==
    bootstrap.fase = 3 =>
        \A f \in Filas :
            LET id == <<"BOOT", f, "CON_TIENDA">>
            IN  \/ EsTerminal(id) \/ erp[f] = NO_EXISTE
                \/ id \in EventIdsEnOutbox \cup repetidos \cup purgados

\* The same of an agent that starts: the smallest checkpoint of the comment of
\* runOnce is there "Para no perder eventos de tiendas rezagadas".
NingunaTiendaPierde ==
    \A n \in DOMAIN bandeja :
        n <= checkpoints[TiendaDe(bandeja[n])] => Resuelto(n) \/ EnOutbox(n)

\* Every change is eventually decided by the cloud, as long as it is within one
\* batch of the smallest checkpoint, in an agent whose stores all have one.
SubeLoQueAlcanza ==
    \A n \in 1..MAX_BANDEJA :
        (n \in DOMAIN bandeja /\ ~bootstrap.desdeCero)
            ~> (Resuelto(n) \/ n > MinimoCheckpoint + LOTE)

\* Every change is eventually decided by the cloud: C1 of runOnce reads from the
\* smallest checkpoint so that no change of a slow store is lost.
SubeTodo ==
    \A n \in 1..MAX_BANDEJA :
        (n \in DOMAIN bandeja /\ ~bootstrap.desdeCero) ~> Resuelto(n)
=============================================================================
