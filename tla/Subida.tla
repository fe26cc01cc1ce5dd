------------------------------- MODULE Subida -------------------------------
(***************************************************************************)
(* The way up: what changes in the ERP reaches the catalogue of the cloud. *)
(*                                                                         *)
(* The triggers of Firebird append the key of every changed row to         *)
(* BANDEJA_SYNC, one queue for all the stores.  The agent first uploads    *)
(* the whole catalogue in pages (bootstrap); then, in every cycle, it      *)
(* resends its outbox and reads the queue from the smallest checkpoint of  *)
(* its stores, reads the rows as they are NOW and posts one batch per      *)
(* store.  The cloud remembers every event in sync_event_inbox.            *)
(*                                                                         *)
(* The catalogue is one product, of every store, and one price per store;  *)
(* a row is its version, 0 when it does not exist.  A price cannot be      *)
(* stored before its product.  A notice of deletion is a notice like any   *)
(* other: the row is read when the batch is put together, and it is gone.  *)
(*                                                                         *)
(* Events on their way are a function of their places in what was read:    *)
(* the number of the notice, the id in the outbox, the place in the page.  *)
(* The smallest place goes first.                                          *)
(***************************************************************************)
EXTENDS Naturals, Sequences, Functions, FiniteSetsExt

CONSTANTS
    Tiendas,
    TIENDA_GLOBAL,      \* the first active store: rows without a store go with it
    PRODUCTO,           \* the row of the product; a store stands for its price
    LOTE,               \* sync.batchSize
    REINTENTOS_MAXIMOS, \* 5 in the code
    MAX_BANDEJA,        \* bound: notices of the triggers
    MAX_INCIDENTES,     \* bound: faults in a behaviour
    Incidentes          \* which faults may happen

IncidentesConocidos ==
    {"SIN_CONEXION", "RECHAZADA", "RESPUESTA_PERDIDA", "FALLA_HANDLER", "CAIDA_NUBE",
     "CAIDA_AGENTE", "PURGA", "REPITE"}

ASSUME SubidaAssumption ==
    /\ TIENDA_GLOBAL \in Tiendas /\ PRODUCTO \notin Tiendas /\ IsFiniteSet(Tiendas)
    /\ LOTE \in Nat \ {0} /\ REINTENTOS_MAXIMOS \in Nat \ {0}
    /\ MAX_BANDEJA \in Nat \ {0} /\ MAX_INCIDENTES \in Nat
    /\ Incidentes \subseteq IncidentesConocidos

VARIABLES
    erp,            \* the rows in Firebird
    bandeja,        \* BANDEJA_SYNC
    checkpoints,    \* SQLite: the checkpoint of each store, 0 while it has none
    bootstrap,      \* SQLite: bootstrap_estado
    outbox,         \* SQLite: the rows of the table, events to resend
    agente,         \* the memory of the agent
    peticion,       \* the upload that the cloud is processing
    inbox,          \* sync_event_inbox
    catalogo,       \* the rows in the cloud
    incidentes

sqlite == <<checkpoints, bootstrap, outbox>>
nube   == <<inbox, catalogo>>
vars   == <<erp, bandeja, sqlite, agente, peticion, nube, incidentes>>

-----------------------------------------------------------------------------
Filas     == {PRODUCTO} \cup Tiendas
Versiones == 0..(MAX_BANDEJA + 1)
NO_EXISTE == 0
FASES_BOOTSTRAP == <<{PRODUCTO}, Tiendas>>

\* eventId: BANDEJA:<n>:..:<store or GLOBAL>, the same without its last part when
\* the row has no store any more, and BOOT:<table>:<id>.
EventIds == ({"BANDEJA"} \X (1..MAX_BANDEJA) \X {"CON_TIENDA", "SIN_TIENDA"})
                \cup ({"BOOT"} \X Filas \X {"CON_TIENDA"})
Eventos  == [eventId : EventIds, fila : Filas, datos : Versiones, destino : Tiendas]
Estados  == {"NINGUNO", "PROCESANDO", "PROCESADO", "ERROR", "DEAD_LETTER"}
Origenes == {"BOOTSTRAP", "OUTBOX", "BANDEJA"}

Entrada(id, e, espera) == [id |-> id, evento |-> e, espera |-> espera]
\* What the agent is doing, and whether it has read what it has to upload.
Agente(paso) == [paso |-> paso, sube |-> FALSE, porSubir |-> <<>>, hasta |-> 0]
ASubir(paso, eventos, hasta) ==
    [paso |-> paso, sube |-> TRUE, porSubir |-> eventos, hasta |-> hasta]
\* runOnce begins with the bootstrap until it is over.
InicioDeCiclo(fase) == IF fase = 3 THEN "OUTBOX" ELSE "BOOTSTRAP"
SinPeticion == [origen |-> "NINGUNO", eventos |-> <<>>, quedan |-> {}, fallidos |-> {}]
EnInbox(estado, n, espera) == [estado |-> estado, intentos |-> n, espera |-> espera]

TypeOK ==
    /\ erp \in [Filas -> Versiones]
    /\ bandeja \in Seq(Filas) /\ Len(bandeja) <= MAX_BANDEJA
    /\ checkpoints \in [Tiendas -> 0..MAX_BANDEJA]
    /\ bootstrap \in [fase : 1..3, desdeCero : BOOLEAN]
    /\ outbox \subseteq [id : Nat, evento : Eventos, espera : BOOLEAN]
    /\ agente.paso \in Origenes /\ agente.sube \in BOOLEAN
    /\ Range(agente.porSubir) \subseteq Eventos
    /\ agente.hasta \in 0..MAX_BANDEJA
    /\ peticion.origen \in Origenes \cup {"NINGUNO", "HUERFANA"}
    /\ Range(peticion.eventos) \subseteq Eventos
    /\ peticion.quedan \subseteq DOMAIN peticion.eventos
    /\ peticion.fallidos \subseteq EventIds
    /\ inbox \in [EventIds -> [estado : Estados, intentos : 0..REINTENTOS_MAXIMOS,
                               espera : BOOLEAN]]
    /\ catalogo \in [Filas -> Versiones]
    /\ incidentes \in 0..MAX_INCIDENTES

\* Either an agent that starts for the first time, or one at work: the catalogue
\* uploaded and the last notice of every store done.
Init ==
    /\ erp = [f \in Filas |-> 1]
    /\ outbox = {}
    /\ bandeja = <<PRODUCTO>>
    /\ peticion = SinPeticion
    /\ incidentes = 0
    /\ \/ /\ bootstrap = [fase |-> 1, desdeCero |-> TRUE]
          /\ checkpoints = [t \in Tiendas |-> 0]
          /\ inbox = [id \in EventIds |-> EnInbox("NINGUNO", 0, FALSE)]
          /\ catalogo = [f \in Filas |-> NO_EXISTE]
       \/ /\ bootstrap = [fase |-> 3, desdeCero |-> FALSE]
          /\ checkpoints = [t \in Tiendas |-> 1]
          /\ inbox = [id \in EventIds |->
                IF id[1] = "BOOT" \/ (id[2] = 1 /\ id[3] = "CON_TIENDA")
                THEN EnInbox("PROCESADO", 1, FALSE) ELSE EnInbox("NINGUNO", 0, FALSE)]
          /\ catalogo = [f \in Filas |-> 1]
    /\ agente = Agente(InicioDeCiclo(bootstrap.fase))

Incidente(i) ==
    /\ i \in Incidentes /\ incidentes < MAX_INCIDENTES
    /\ incidentes' = incidentes + 1

-----------------------------------------------------------------------------
(* The ERP.                                                                  *)

\* A row changes, or goes: its trigger appends a notice.
CambiaEnElErp(f) ==
    /\ erp[f] # NO_EXISTE /\ Len(bandeja) < MAX_BANDEJA
    /\ \E v \in {erp[f] + 1, NO_EXISTE} : erp' = [erp EXCEPT ![f] = v]
    /\ bandeja' = Append(bandeja, f)
    /\ UNCHANGED <<sqlite, agente, peticion, nube, incidentes>>

-----------------------------------------------------------------------------
(* The agent.                                                                *)

\* minCheckpointPorTienda: a store without a checkpoint does not count.
MinimoCheckpoint ==
    LET conAvance == {checkpoints[t] : t \in Tiendas} \ {0}
    IN  IF conAvance = {} THEN 0 ELSE Min(conAvance)

Menor(a, b) == IF a <= b THEN a ELSE b
Mayor(a, b) == IF a >= b THEN a ELSE b

EventoDeBandeja(n) ==
    LET f == bandeja[n]
        conTienda == f = PRODUCTO \/ erp[f] # NO_EXISTE
    IN  [eventId |-> <<"BANDEJA", n, IF conTienda THEN "CON_TIENDA" ELSE "SIN_TIENDA">>,
         fila |-> f, datos |-> erp[f],
         destino |-> IF f \in Tiendas /\ conTienda THEN f ELSE TIENDA_GLOBAL]

EventoDeBootstrap(f) ==
    [eventId |-> <<"BOOT", f, "CON_TIENDA">>, fila |-> f, datos |-> erp[f],
     destino |-> IF f \in Tiendas THEN f ELSE TIENDA_GLOBAL]

Ordenes(S) == {s \in [1..Cardinality(S) -> S] : Range(s) = S}

NadaPorSubir == DOMAIN agente.porSubir = {}
Subido(paso) == agente.paso = paso /\ agente.sube /\ NadaPorSubir /\ peticion = SinPeticion

\* bootstrapCatalogo: the next page, which is a whole table here.
LeePagina ==
    /\ agente.paso = "BOOTSTRAP" /\ ~agente.sube /\ bootstrap.fase < 3
    /\ \E orden \in Ordenes({f \in FASES_BOOTSTRAP[bootstrap.fase] : erp[f] # NO_EXISTE}) :
          agente' = ASubir("BOOTSTRAP", [i \in DOMAIN orden |-> EventoDeBootstrap(orden[i])], 0)
    /\ UNCHANGED <<erp, bandeja, sqlite, peticion, nube, incidentes>>

\* The page is up: its phase is saved, and the next one waits for its turn or,
\* when the time of the cycle is over, for the next cycle.
TerminaPagina ==
    /\ Subido("BOOTSTRAP")
    /\ bootstrap' = [bootstrap EXCEPT !.fase = @ + 1]
    /\ \E paso \in {InicioDeCiclo(bootstrap'.fase), "OUTBOX"} : agente' = Agente(paso)
    /\ UNCHANGED <<erp, bandeja, checkpoints, outbox, peticion, nube, incidentes>>

\* dueOutbox: the first LOTE rows that are due.
Vencidas == {x \in outbox : ~x.espera}
Primeras(S) == {x \in S : Cardinality({y \in S : y.id < x.id}) < LOTE}

LeeOutbox ==
    /\ agente.paso = "OUTBOX" /\ ~agente.sube
    /\ LET lote == Primeras(Vencidas)
           evento(n) == (CHOOSE x \in lote : x.id = n).evento
       IN  agente' = IF lote = {} THEN Agente("BANDEJA")
                     ELSE ASubir("OUTBOX", [n \in {x.id : x \in lote} |-> evento(n)], 0)
    /\ UNCHANGED <<erp, bandeja, sqlite, peticion, nube, incidentes>>

TerminaOutbox ==
    /\ Subido("OUTBOX")
    /\ agente' = Agente("BANDEJA")
    /\ UNCHANGED <<erp, bandeja, sqlite, peticion, nube, incidentes>>

\* colectar: the LOTE notices after the smallest checkpoint, and their rows.
Colecta ==
    /\ agente.paso = "BANDEJA" /\ ~agente.sube
    /\ LET desde == MinimoCheckpoint
           hasta == Menor(desde + LOTE, Len(bandeja))
       IN  agente' = IF hasta = desde THEN Agente(InicioDeCiclo(bootstrap.fase))
                     ELSE ASubir("BANDEJA", [n \in (desde + 1)..hasta |-> EventoDeBandeja(n)],
                                 hasta)
    /\ UNCHANGED <<erp, bandeja, sqlite, peticion, nube, incidentes>>

TerminaCiclo ==
    /\ Subido("BANDEJA")
    /\ agente' = Agente(InicioDeCiclo(bootstrap.fase))
    /\ UNCHANGED <<erp, bandeja, sqlite, peticion, nube, incidentes>>

\* porTienda: the stores go in the order of their first event.
Destino    == agente.porSubir[Min(DOMAIN agente.porSubir)].destino
DelDestino == {n \in DOMAIN agente.porSubir : agente.porSubir[n].destino = Destino}
LoteActual     == Restrict(agente.porSubir, DelDestino)
LotesQueSiguen == Restrict(agente.porSubir, DOMAIN agente.porSubir \ DelDestino)

PuedeSubir == agente.sube /\ ~NadaPorSubir /\ peticion = SinPeticion

Sube ==
    /\ PuedeSubir
    /\ peticion' = [origen |-> agente.paso, eventos |-> LoteActual,
                    quedan |-> DOMAIN LoteActual, fallidos |-> {}]
    /\ UNCHANGED <<erp, bandeja, sqlite, agente, nube, incidentes>>

\* enqueue: a row for each event, in their order.
UltimoId == IF outbox = {} THEN 0 ELSE Max({x.id : x \in outbox})

Encola(lote) ==
    outbox \cup {Entrada(UltimoId + Cardinality({m \in DOMAIN lote : m <= n}), lote[n], FALSE) :
                    n \in DOMAIN lote}

\* The rows of the outbox that the batch was made of.
EnLote(x, lote) == x.id \in DOMAIN lote /\ lote[x.id] = x.evento

Aplazado(lote) == {Entrada(x.id, x.evento, x.espera \/ EnLote(x, lote)) : x \in outbox}

\* What the agent does when a batch cannot be uploaded.  The bootstrap stops until
\* the next cycle; a batch of the queue goes to the outbox only when the error is
\* one of those that CloudClient calls transient.
TrasFallo(origen, lote, transitorio) ==
    /\ agente' = IF origen = "BOOTSTRAP" THEN Agente("OUTBOX")
                 ELSE [agente EXCEPT !.porSubir = LotesQueSiguen]
    /\ outbox' = CASE origen = "OUTBOX" -> Aplazado(lote)
                   [] origen = "BANDEJA" /\ transitorio -> Encola(lote)
                   [] OTHER -> outbox

\* CloudClient.call: a 5xx, a time-out or a reset is transient; a refused
\* connection, a 400, a 404 or a 413 is not.
NoSube(i) ==
    /\ PuedeSubir
    /\ i \in {"SIN_CONEXION", "RECHAZADA"} /\ Incidente(i)
    /\ TrasFallo(agente.paso, LoteActual, i = "SIN_CONEXION")
    /\ UNCHANGED <<erp, bandeja, checkpoints, bootstrap, peticion, nube>>

-----------------------------------------------------------------------------
(* The cloud.                                                                *)

\* CatalogHandler.  A row that is gone has neither code nor product: it fails.  A
\* price whose product is not here yet is taken as done.
Aplica(e, filas) ==
    IF e.fila # PRODUCTO /\ filas[PRODUCTO] = NO_EXISTE THEN filas
    ELSE [filas EXCEPT ![e.fila] = e.datos]

SeAplica(e) == e.datos # NO_EXISTE

EsTerminal(id)  == inbox[id].estado \in {"PROCESADO", "DEAD_LETTER"}
EnEspera(id)    == inbox[id].estado \in {"ERROR", "PROCESANDO"} /\ inbox[id].espera

ResultadoSinFin(id, ok) ==
    LET intento == inbox[id].intentos + 1
    IN  EnInbox(IF ok THEN "PROCESADO" ELSE "ERROR", Menor(intento, REINTENTOS_MAXIMOS), ~ok)

Resultado(id, ok) ==
    LET intento == inbox[id].intentos + 1
    IN  EnInbox(IF ok THEN "PROCESADO"
                ELSE IF intento < REINTENTOS_MAXIMOS THEN "ERROR" ELSE "DEAD_LETTER",
                intento, ~ok /\ intento < REINTENTOS_MAXIMOS)

\* procesarUpload, one event.
ProcesaEvento ==
    /\ peticion.quedan # {}
    /\ LET n  == Min(peticion.quedan)
           e  == peticion.eventos[n]
           id == e.eventId
           sigue(falla) == [peticion EXCEPT !.quedan = @ \ {n},
                                            !.fallidos = IF falla THEN @ \cup {id} ELSE @]
       IN  \/ /\ EsTerminal(id) \/ EnEspera(id)
              /\ peticion' = sigue(EnEspera(id))
              /\ UNCHANGED <<inbox, catalogo, incidentes>>
           \/ /\ ~EsTerminal(id) /\ ~EnEspera(id)
              /\ \E ok \in BOOLEAN :
                    /\ ok => SeAplica(e)
                    /\ IF SeAplica(e) /\ ~ok THEN Incidente("FALLA_HANDLER")
                       ELSE UNCHANGED incidentes
                    /\ inbox' = [inbox EXCEPT ![id] = Resultado(id, ok)]
                    /\ catalogo' = IF ok THEN Aplica(e, catalogo) ELSE catalogo
                    /\ peticion' = sigue(inbox'[id].estado = "ERROR")
    /\ UNCHANGED <<erp, bandeja, sqlite, agente>>

AvanzaConErrores(origen, lote, fallidos) ==
    /\ checkpoints' = IF origen = "BANDEJA"
                      THEN [checkpoints EXCEPT ![Destino] = Mayor(@, agente.hasta)]
                      ELSE checkpoints
    /\ agente' = [agente EXCEPT !.porSubir = LotesQueSiguen]
    /\ UNCHANGED outbox

BootstrapSinFallidos(origen, lote, fallidos) ==
    /\ checkpoints' = IF origen = "BANDEJA" /\ fallidos = {}
                      THEN [checkpoints EXCEPT ![Destino] = Mayor(@, agente.hasta)]
                      ELSE checkpoints
    /\ outbox' = IF origen = "OUTBOX" /\ fallidos = {}
                 THEN {x \in outbox : ~EnLote(x, lote)} ELSE outbox
    /\ agente' = [agente EXCEPT !.porSubir = LotesQueSiguen]

\* The answer of the upload, and what the agent does with it.
TrasRespuesta(origen, lote, fallidos) ==
    LET errores == fallidos # {}
    IN  /\ checkpoints' = IF origen = "BANDEJA" /\ ~errores
                          THEN [checkpoints EXCEPT ![Destino] = Mayor(@, agente.hasta)]
                          ELSE checkpoints
        /\ outbox' = CASE origen = "BOOTSTRAP" ->
                             Encola(Restrict(lote, {n \in DOMAIN lote : lote[n].eventId \in fallidos}))
                       [] origen = "OUTBOX" /\ errores -> Aplazado(lote)
                       [] origen = "OUTBOX" /\ ~errores ->
                             {x \in outbox : ~EnLote(x, lote)}
                       [] OTHER -> outbox
        /\ agente' = [agente EXCEPT !.porSubir = LotesQueSiguen]

Responde ==
    /\ peticion.origen \in Origenes /\ peticion.quedan = {}
    /\ TrasRespuesta(peticion.origen, peticion.eventos, peticion.fallidos)
    /\ peticion' = SinPeticion
    /\ UNCHANGED <<erp, bandeja, bootstrap, nube, incidentes>>

\* The answer is lost, or the agent stops waiting while the cloud is still at it.
RespuestaPerdida ==
    /\ peticion.origen \in Origenes
    /\ Incidente("RESPUESTA_PERDIDA")
    /\ TrasFallo(peticion.origen, peticion.eventos, TRUE)
    /\ peticion' = [peticion EXCEPT !.origen = "HUERFANA"]
    /\ UNCHANGED <<erp, bandeja, checkpoints, bootstrap, nube>>

\* The request that no agent waits for any more ends alone.
TerminaHuerfana ==
    /\ peticion.origen = "HUERFANA" /\ peticion.quedan = {}
    /\ peticion' = SinPeticion
    /\ UNCHANGED <<erp, bandeja, sqlite, agente, nube, incidentes>>

\* The cloud dies between the claim of an event and its result.
CaeLaNube ==
    /\ peticion.origen \in Origenes /\ peticion.quedan # {}
    /\ Incidente("CAIDA_NUBE")
    /\ LET e == peticion.eventos[Min(peticion.quedan)]
           id == e.eventId
       IN  /\ ~EsTerminal(id) /\ ~EnEspera(id)
           /\ inbox' = [inbox EXCEPT ![id] = EnInbox("PROCESANDO", @.intentos, FALSE)]
           /\ catalogo' \in {catalogo, IF SeAplica(e) THEN Aplica(e, catalogo) ELSE catalogo}
    /\ TrasFallo(peticion.origen, peticion.eventos, TRUE)
    /\ peticion' = SinPeticion
    /\ UNCHANGED <<erp, bandeja, checkpoints, bootstrap>>

CaeElAgente ==
    /\ Incidente("CAIDA_AGENTE")
    /\ agente' = Agente(InicioDeCiclo(bootstrap.fase))
    /\ peticion' = IF peticion = SinPeticion THEN peticion
                   ELSE [peticion EXCEPT !.origen = "HUERFANA"]
    /\ UNCHANGED <<erp, bandeja, sqlite, nube>>

\* purgeOldOutbox, after the days of retention.
Purga ==
    /\ agente = Agente(InicioDeCiclo(bootstrap.fase))
    /\ Incidente("PURGA")
    /\ \E ultima \in outbox : outbox' = {x \in outbox : x.id > ultima.id}
    /\ UNCHANGED <<erp, bandeja, checkpoints, bootstrap, agente, peticion, nube>>

\* reprogramarEvento, of an administrator.
Repite(id) ==
    /\ inbox[id].estado \notin {"NINGUNO", "PROCESADO"}
    /\ Incidente("REPITE")
    /\ inbox' = [inbox EXCEPT ![id] = EnInbox("ERROR", 0, FALSE)]
    /\ UNCHANGED <<erp, bandeja, sqlite, agente, peticion, catalogo>>

VenceEnLaNube ==
    /\ \E id \in EventIds : EnEspera(id) /\ inbox' = [inbox EXCEPT ![id].espera = FALSE]
    /\ UNCHANGED <<erp, bandeja, sqlite, agente, peticion, catalogo, incidentes>>

VenceEnOutbox ==
    /\ \E x \in outbox :
          x.espera /\ outbox' = (outbox \ {x}) \cup {Entrada(x.id, x.evento, FALSE)}
    /\ UNCHANGED <<erp, bandeja, checkpoints, bootstrap, agente, peticion, nube, incidentes>>

-----------------------------------------------------------------------------
PasoDelAgente ==
    \/ LeePagina \/ TerminaPagina \/ LeeOutbox \/ TerminaOutbox
    \/ Colecta \/ TerminaCiclo \/ Sube
PasoDeLaNube == ProcesaEvento \/ Responde \/ TerminaHuerfana

Next ==
    \/ \E f \in Filas : CambiaEnElErp(f)
    \/ PasoDelAgente \/ PasoDeLaNube
    \/ \E i \in Incidentes : NoSube(i)
    \/ RespuestaPerdida \/ CaeLaNube \/ CaeElAgente \/ Purga
    \/ \E id \in EventIds : Repite(id)
    \/ VenceEnLaNube \/ VenceEnOutbox

Spec == Init /\ [][Next]_vars

\* The loop of the agent never stops, a request ends, and time passes.
FairSpec ==
    /\ Spec
    /\ WF_vars(PasoDelAgente) /\ WF_vars(PasoDeLaNube)
    /\ WF_vars(VenceEnLaNube) /\ WF_vars(VenceEnOutbox)

-----------------------------------------------------------------------------
(* Properties.                                                               *)

\* The cloud has finished with notice n.
Decidido(n) ==
    \E s \in {"CON_TIENDA", "SIN_TIENDA"} :
        EsTerminal(<<"BANDEJA", n, s>>)

EventIdsEnOutbox == {x.evento.eventId : x \in outbox}

EnOutbox(n) == \E id \in EventIdsEnOutbox : id[1] = "BANDEJA" /\ id[2] = n

TiendaDe(f) == IF f = PRODUCTO THEN TIENDA_GLOBAL ELSE f

\* A row of the catalogue goes back to an older version only when the outbox sends
\* what it kept (flushOutbox): the queue and the bootstrap always send rows as new
\* as any sent before.
SoloElOutboxEnvejece ==
    [][\A f \in Filas : catalogo'[f] < catalogo[f] => peticion.origen \in {"OUTBOX", "HUERFANA"}]_vars

\* What an administrator asks to process again is processed again.
RepetirReprocesa ==
    \A id \in EventIds :
        (inbox[id].estado = "ERROR" /\ inbox[id].intentos = 0) ~> (inbox[id].intentos # 0)

\* A price whose product is in the cloud is in the cloud some day, while it exists.
ElPrecioLlega ==
    \A t \in Tiendas :
        (bootstrap.fase = 3 /\ catalogo[PRODUCTO] # NO_EXISTE)
            ~> (catalogo[t] # NO_EXISTE \/ erp[t] = NO_EXISTE)
=============================================================================
