------------------------------ MODULE Kioskos -------------------------------
(* The tablets of the stores (modules/kiosko): how a tablet is paired with a *)
(* kiosk and gets its token, its heartbeat, the switch and the unlinking of  *)
(* the panel, and the worker that tells the administrators which kiosks have *)
(* gone silent.                                                              *)
(*                                                                           *)
(* A request of a tablet takes more than one step against the database; one  *)
(* of the panel takes one, for what it reads before it writes never changes. *)
(* A token is known by the pairing it was given for, the only one that ever  *)
(* gives it.  Time is counted in ticks of the worker: a heartbeat is as old  *)
(* as the ticks since then.                                                  *)
EXTENDS Integers, Sequences

CONSTANTS
    Tabletas,           \* tablets; what they do is external
    Kioskos,
    Tiendas,
    TiendaDelKiosko,    \* the store of each kiosk, which never changes
    Peticiones,         \* requests of tablets that may be under way at once
    NADIE,              \* null
    UMBRAL_TICS,        \* UMBRAL_CAIDA_MS / TICK_MS
    MAX_SOLICITUDES,    \* bound: pairings asked for
    MAX_FALLOS          \* bound: ticks of the worker that fail in a row

VARIABLES
    kioskos,        \* estado (activo), deviceTokenHash (token), ultimoHeartbeat
    solicitudes,    \* kiosko_pairing, in order of creation
    tabletas,       \* external: the token it keeps, the pairing it polls
    yaAvisados,     \* in memory: the kiosks already alerted of
    fallos,         \* ticks that have failed in a row
    peticiones      \* requests under way, with what they have read

vars == <<kioskos, solicitudes, tabletas, yaAvisados, fallos, peticiones>>

NUNCA   == -1
MasViejo == UMBRAL_TICS + 1
Ids     == DOMAIN solicitudes
Actores ==
    {[rol |-> "ADMIN", tienda |-> NADIE]}
        \cup {[rol |-> "GERENTE", tienda |-> t] : t \in Tiendas}
Libre   == [op |-> "LIBRE", tableta |-> NADIE, id |-> 0, pista |-> NADIE]

Init ==
    /\ kioskos = [k \in Kioskos |-> [activo |-> TRUE, token |-> 0, latido |-> NUNCA]]
    /\ solicitudes = <<>>
    /\ tabletas = [t \in Tabletas |-> [guarda |-> 0, pide |-> 0]]
    /\ yaAvisados = {}
    /\ fallos = 0
    /\ peticiones = [r \in Peticiones |-> Libre]

-----------------------------------------------------------------------------
\* Asking for a pairing.  The rows that are old enough go first: PENDIENTE as
\* soon as it expires, a finished one after thirty days, APROBADO never.
Purgable(s) ==
    \/ solicitudes[s].estado = "PENDIENTE" /\ solicitudes[s].vencida
    \/ solicitudes[s].estado \in {"RECLAMADO", "CANCELADO"}

TrasPurgar(viejas) ==
    [s \in Ids |-> IF s \in viejas THEN [solicitudes[s] EXCEPT !.estado = "PURGADO"]
                                   ELSE solicitudes[s]]

\* The previous code of the same tablet is cancelled; the new one is created
\* in a second write.
CancelaLasDe(t, filas) ==
    [s \in DOMAIN filas |->
        IF filas[s].estado = "PENDIENTE" /\ filas[s].tableta = t
        THEN [filas[s] EXCEPT !.estado = "CANCELADO"] ELSE filas[s]]

\* External: the store a tablet says it belongs to is that of its last
\* pairing; a new one may say any or none.
PistaDe(t) ==
    IF tabletas[t].guarda = 0 THEN Tiendas \cup {NADIE}
    ELSE {TiendaDelKiosko[solicitudes[tabletas[t].guarda].kiosko]}

\* External: a tablet whose token is good does not ask for another.
TokenVale(t) ==
    /\ tabletas[t].guarda # 0
    /\ kioskos[solicitudes[tabletas[t].guarda].kiosko].token = tabletas[t].guarda

Solicitar(r, t) ==
    /\ peticiones[r] = Libre
    /\ ~TokenVale(t)
    /\ \E viejas \in SUBSET {s \in Ids : Purgable(s)}, pista \in PistaDe(t) :
          /\ \A s \in Ids : solicitudes[s].estado = "PENDIENTE" /\ solicitudes[s].vencida
                               => s \in viejas
          /\ solicitudes' = CancelaLasDe(t, TrasPurgar(viejas))
          /\ peticiones' = [peticiones EXCEPT ![r] =
                [op |-> "CREAR", tableta |-> t, id |-> 0, pista |-> pista]]
    /\ UNCHANGED <<kioskos, tabletas, yaAvisados, fallos>>

Nueva(t, pista) ==
    [tableta |-> t, pista |-> pista, estado |-> "PENDIENTE", kiosko |-> NADIE,
     aprobo |-> NADIE, vencida |-> FALSE]

\* The answer may be lost: the tablet goes on polling what it polled.
CreaSolicitud(r) ==
    /\ peticiones[r].op = "CREAR"
    /\ Len(solicitudes) < MAX_SOLICITUDES
    /\ solicitudes' = Append(solicitudes, Nueva(peticiones[r].tableta, peticiones[r].pista))
    /\ peticiones' = [peticiones EXCEPT ![r] = Libre]
    /\ \E llega \in BOOLEAN :
          tabletas' = IF llega
                      THEN [tabletas EXCEPT ![peticiones[r].tableta].pide = Len(solicitudes')]
                      ELSE tabletas
    /\ UNCHANGED <<kioskos, yaAvisados, fallos>>

-----------------------------------------------------------------------------
\* The panel.  A manager acts on the kiosks of their store.
PuedeTocar(a, k) == a.rol = "GERENTE" => TiendaDelKiosko[k] = a.tienda

\* A manager who confirms it is enough.
PistaAdmiteSiConfirma(s, k, a, confirma) ==
    solicitudes[s].pista \in {NADIE, TiendaDelKiosko[k]} \/ confirma

\* Moving a tablet that says it is of another store is for the administrator,
\* who has to confirm it.
PistaAdmite(s, k, a, confirma) ==
    LET pista == solicitudes[s].pista
    IN  /\ a.rol = "GERENTE" => pista \in {NADIE, a.tienda}
        /\ pista \in {NADIE, TiendaDelKiosko[k]} \/ confirma

Aprobar(s, k, a, confirma) ==
    /\ PuedeTocar(a, k)
    /\ PistaAdmite(s, k, a, confirma)
    /\ solicitudes[s].estado = "PENDIENTE"
    /\ ~solicitudes[s].vencida
    /\ solicitudes' = [solicitudes EXCEPT
            ![s].estado = "APROBADO", ![s].kiosko = k, ![s].aprobo = a.rol]
    /\ UNCHANGED <<kioskos, tabletas, yaAvisados, fallos, peticiones>>

Cancelar(s, a) ==
    /\ a.rol = "GERENTE" => solicitudes[s].pista \in {NADIE, a.tienda}
    /\ solicitudes[s].estado = "PENDIENTE"
    /\ solicitudes' = [solicitudes EXCEPT ![s].estado = "CANCELADO"]
    /\ UNCHANGED <<kioskos, tabletas, yaAvisados, fallos, peticiones>>

\* expiraAt passes.
Vence(s) ==
    /\ solicitudes[s].estado \in {"PENDIENTE", "APROBADO"}
    /\ ~solicitudes[s].vencida
    /\ solicitudes' = [solicitudes EXCEPT ![s].vencida = TRUE]
    /\ UNCHANGED <<kioskos, tabletas, yaAvisados, fallos, peticiones>>

\* The switch.
Actualizar(k, a) ==
    /\ PuedeTocar(a, k)
    /\ kioskos' = [kioskos EXCEPT ![k].activo = ~@]
    /\ UNCHANGED <<solicitudes, tabletas, yaAvisados, fallos, peticiones>>

Desvincular(k, a) ==
    /\ PuedeTocar(a, k)
    /\ kioskos[k].token # 0
    /\ kioskos' = [kioskos EXCEPT ![k].token = 0]
    /\ UNCHANGED <<solicitudes, tabletas, yaAvisados, fallos, peticiones>>

-----------------------------------------------------------------------------
\* Claiming the token: everything is looked at outside the transaction, which
\* looks again only at the state of the pairing.
Reclamar(r, t) ==
    LET s == tabletas[t].pide
    IN  /\ peticiones[r] = Libre
        /\ s # 0
        /\ solicitudes[s].estado = "APROBADO"
        /\ ~solicitudes[s].vencida
        /\ kioskos[solicitudes[s].kiosko].activo
        /\ peticiones' = [peticiones EXCEPT ![r] =
              [op |-> "CANJEAR", tableta |-> t, id |-> s, pista |-> NADIE]]
        /\ UNCHANGED <<kioskos, solicitudes, tabletas, yaAvisados, fallos>>

\* UPDATE ... WHERE estado = APROBADO.
Consumible(s) == solicitudes[s].estado = "APROBADO"

Canjea(r) ==
    LET s == peticiones[r].id
    IN  /\ peticiones[r].op = "CANJEAR"
        /\ \/ /\ Consumible(s)
              /\ solicitudes' = [solicitudes EXCEPT ![s].estado = "RECLAMADO"]
              /\ kioskos' = [kioskos EXCEPT ![solicitudes[s].kiosko].token = s]
              /\ peticiones' = [peticiones EXCEPT ![r].op = "RESPONDER"]
           \/ /\ ~Consumible(s)
              /\ peticiones' = [peticiones EXCEPT ![r] = Libre]
              /\ UNCHANGED <<solicitudes, kioskos>>
        /\ UNCHANGED <<tabletas, yaAvisados, fallos>>

\* The token in the clear travels once: if the answer is lost, so is it.
Responde(r) ==
    /\ peticiones[r].op = "RESPONDER"
    /\ \E llega \in BOOLEAN :
          tabletas' = IF llega
                      THEN [tabletas EXCEPT ![peticiones[r].tableta].guarda = peticiones[r].id]
                      ELSE tabletas
    /\ peticiones' = [peticiones EXCEPT ![r] = Libre]
    /\ UNCHANGED <<kioskos, solicitudes, yaAvisados, fallos>>

-----------------------------------------------------------------------------
\* The heartbeat: the token is validated, then the time is written.
ValidaToken(r, t) ==
    /\ peticiones[r] = Libre
    /\ TokenVale(t)
    /\ kioskos[solicitudes[tabletas[t].guarda].kiosko].activo
    /\ peticiones' = [peticiones EXCEPT ![r] =
          [op |-> "LATIR", tableta |-> t, id |-> tabletas[t].guarda, pista |-> NADIE]]
    /\ UNCHANGED <<kioskos, solicitudes, tabletas, yaAvisados, fallos>>

Heartbeat(r) ==
    LET k == solicitudes[peticiones[r].id].kiosko
    IN  /\ peticiones[r].op = "LATIR"
        /\ kioskos' = IF kioskos[k].activo THEN [kioskos EXCEPT ![k].latido = 0] ELSE kioskos
        /\ peticiones' = [peticiones EXCEPT ![r] = Libre]
        /\ UNCHANGED <<solicitudes, tabletas, yaAvisados, fallos>>

-----------------------------------------------------------------------------
\* calcularSaludKiosko: a kiosk that should beat, has beaten and does not.
Caida(k) ==
    /\ kioskos[k].activo
    /\ kioskos[k].token # 0
    /\ kioskos[k].latido > UMBRAL_TICS

Caidas == {k \in Kioskos : Caida(k)}

Envejece ==
    kioskos' = [k \in Kioskos |->
        IF kioskos[k].latido \in 0..UMBRAL_TICS THEN [kioskos[k] EXCEPT !.latido = @ + 1]
                                                ELSE kioskos[k]]

\* Without forgetting those that recover.
RecuerdaTodo(avisados, caidas) == avisados \cup caidas

\* What the worker remembers after a tick: those that have recovered go, those
\* it tells of now come in.
Recuerda(avisados, caidas) == (avisados \cap caidas) \cup (caidas \ avisados)

\* A tick: it alerts of the silent kiosks it has not alerted of.  A tick that
\* fails, on its only read, leaves everything as it was.
Tic ==
    /\ Envejece
    /\ yaAvisados' = Recuerda(yaAvisados, Caidas')
    /\ fallos' = 0
    /\ UNCHANGED <<solicitudes, tabletas, peticiones>>

TicFalla ==
    /\ fallos < MAX_FALLOS
    /\ Envejece
    /\ fallos' = fallos + 1
    /\ UNCHANGED <<solicitudes, tabletas, yaAvisados, peticiones>>

Avisa(k) == k \in yaAvisados' /\ k \notin yaAvisados

\* The process dies and starts again: the requests under way are lost, and so
\* is what the worker remembered.
Reinicia ==
    /\ yaAvisados' = {}
    /\ peticiones' = [r \in Peticiones |-> Libre]
    /\ fallos' = 0
    /\ UNCHANGED <<kioskos, solicitudes, tabletas>>

Next ==
    \/ \E r \in Peticiones, t \in Tabletas :
          Solicitar(r, t) \/ Reclamar(r, t) \/ ValidaToken(r, t)
    \/ \E r \in Peticiones : CreaSolicitud(r) \/ Canjea(r) \/ Responde(r) \/ Heartbeat(r)
    \/ \E s \in Ids : Vence(s)
    \/ \E s \in Ids, a \in Actores : Cancelar(s, a)
    \/ \E s \in Ids, k \in Kioskos, a \in Actores, c \in BOOLEAN : Aprobar(s, k, a, c)
    \/ \E k \in Kioskos, a \in Actores : Actualizar(k, a) \/ Desvincular(k, a)
    \/ Tic \/ TicFalla \/ Reinicia

Spec == Init /\ [][Next]_vars

-----------------------------------------------------------------------------
TypeOK ==
    /\ kioskos \in [Kioskos ->
          [activo : BOOLEAN, token : 0..MAX_SOLICITUDES, latido : NUNCA..MasViejo]]
    /\ Len(solicitudes) <= MAX_SOLICITUDES
    /\ \A s \in Ids : solicitudes[s] \in
          [tableta : Tabletas, pista : Tiendas \cup {NADIE},
           estado : {"PENDIENTE", "APROBADO", "RECLAMADO", "CANCELADO", "PURGADO"},
           kiosko : Kioskos \cup {NADIE}, aprobo : {"ADMIN", "GERENTE", NADIE},
           vencida : BOOLEAN]
    /\ tabletas \in [Tabletas -> [guarda : 0..MAX_SOLICITUDES, pide : 0..MAX_SOLICITUDES]]
    /\ yaAvisados \subseteq Kioskos
    /\ fallos \in 0..MAX_FALLOS
=============================================================================
