------------------------------ MODULE MCAvisos ------------------------------
(* Instances of Kioskos, SinRecoger and Mensajes for TLC.  The three share   *)
(* no state: parte says which one a behaviour is about, and the others stay  *)
(* in their first state.  Kioskos is in two parts, the pairings of a tablet  *)
(* and the alerts of what has been paired.                                   *)
(*                                                                           *)
(* History variables: whether there has been an alert of the kiosk since its *)
(* last heartbeat (avisada); the reminders of the present wait of an order   *)
(* (recordados); the mails of the first answer of the advisor (correos); and *)
(* whether a message has been created while the transaction of an earlier    *)
(* one was open (cruce).                                                     *)
EXTENDS Integers, Sequences, FiniteSets, TLC

CONSTANTS
    Sucursales, Tabletas, Kioskos, TiendaDelKiosko, Peticiones, NADIE, UMBRAL_TICS,
    MAX_SOLICITUDES, MAX_FALLOS,
    Pedidos, Instancias, UnaPeticion, MAX_CONFIRMACIONES, MAX_DESCARTES_WEB,
    MAX_MENSAJES, MAX_MUERTES, k1, k2, s1, s2

ASSUME KioskosAssumption ==
    /\ TiendaDelKiosko \in [Kioskos -> Sucursales]
    /\ NADIE \notin Sucursales \cup Kioskos \cup Tabletas
    /\ UMBRAL_TICS \in Nat \ {0}
    /\ MAX_SOLICITUDES \in Nat \ {0}
    /\ MAX_FALLOS \in Nat
    /\ IsFiniteSet(Peticiones)

VARIABLES
    parte,
    kioskos, solicitudes, tabletas, yaAvisados, fallos, peticiones, avisada,
    pedidos, barridos, peticionesS, muertesS, recordados,
    mensajes, leido, entregado, enviado, visto, peticionesM, muertesM, correos, cruce

KI == INSTANCE Kioskos WITH Tiendas <- Sucursales
SR == INSTANCE SinRecoger WITH
        Peticiones <- UnaPeticion, peticiones <- peticionesS, muertes <- muertesS
ME == INSTANCE Mensajes WITH peticiones <- peticionesM, muertes <- muertesM

varsK  == <<kioskos, solicitudes, tabletas, yaAvisados, fallos, peticiones, avisada>>
varsS  == <<pedidos, barridos, peticionesS, muertesS, recordados>>
varsC  == <<mensajes, leido, entregado, enviado, visto, peticionesM, muertesM, correos, cruce>>
varsAvisos == <<parte, varsK, varsS, varsC>>

\* A kiosk in each store.
TiendaDeCadaUno == (k1 :> s1) @@ (k2 :> s2)

AvisosInit ==
    /\ parte \in {"vinculos", "alertas", "recoger", "chat"}
    /\ KI!Init /\ SR!Init /\ ME!Init
    /\ parte # "recoger" => \A p \in Pedidos : pedidos[p].canal = "WEB"
    /\ avisada = [k \in Kioskos |-> FALSE]
    /\ recordados = [p \in Pedidos |-> 0]
    /\ correos = 0
    /\ cruce = FALSE

-----------------------------------------------------------------------------
Ocupadas == {r \in Peticiones : peticiones[r] # KI!Libre}

\* Requests of tablets do not overlap here; the panel acts at any time.
SinSolapar == Cardinality(Ocupadas') <= 1

\* Pairings without heartbeats nor ticks; the first one says no store, and
\* only one kiosk is ever turned off.
DeVinculos ==
    /\ parte = "vinculos"
    /\ fallos' = 0
    /\ \A k \in Kioskos : kioskos'[k].latido = KI!NUNCA
    /\ \A r \in Peticiones : peticiones'[r].op # "LATIR"
    /\ Len(solicitudes') = 1 => solicitudes'[1].pista = NADIE
    /\ kioskos'[k2].activo

\* Alerts, of a kiosk paired by a tablet that says no store.
DeAlertas ==
    /\ parte = "alertas"
    /\ Len(solicitudes') <= 1
    /\ \A s \in DOMAIN solicitudes' : solicitudes'[s].pista = NADIE

DeKioskos ==
    /\ SinSolapar
    /\ avisada' = [k \in Kioskos |->
          KI!Avisa(k) \/ (avisada[k] /\ (kioskos'[k].latido = 0 => kioskos[k].latido = 0))]
    /\ DeVinculos \/ DeAlertas
    /\ UNCHANGED <<parte, varsS, varsC>>

\* The wait of the order starts, or starts again.
EmpiezaEspera(p) ==
    \/ pedidos[p].estado \notin SR!ESTADOS_BOLSA_APARTADA
       /\ pedidos'[p].estado \in SR!ESTADOS_BOLSA_APARTADA
    \/ pedidos'[p].interes > pedidos[p].interes
    \/ pedidos'[p].espera = "NULA"

MandaCorreo(p) ==
    \E w \in Instancias :
        /\ barridos[w].fase = "RECORDAR" /\ barridos'[w].fase = "RECORDAR"
        /\ p \in barridos[w].quedan \ barridos'[w].quedan
        /\ SR!SinReclamar(p)

\* What coincides is two sweeps, or a sweep and a request; nobody announces
\* an arrival before the bag is at the delivery table.
DeRecoger ==
    /\ parte = "recoger"
    /\ Cardinality({w \in Instancias : barridos'[w] # SR!Dormido}
                      \cup {r \in UnaPeticion : peticionesS'[r] # SR!Libre}) <= 2
    /\ \A p \in Pedidos :
          pedidos'[p].estado = "ANTES" => pedidos'[p].anunciada = pedidos[p].anunciada
    /\ recordados' = [p \in Pedidos |->
          IF EmpiezaEspera(p) THEN 0
          ELSE IF MandaCorreo(p) THEN recordados[p] + 1 ELSE recordados[p]]
    /\ UNCHANGED <<parte, varsK, varsC>>

DeChat ==
    /\ parte = "chat"
    /\ correos' = correos + Cardinality({r \in Peticiones :
          peticionesM[r].op = "ENVIAR" /\ peticionesM'[r] = ME!Libre /\ muertesM' = muertesM})
    /\ cruce' = (cruce \/ \E r \in Peticiones :
          peticionesM[r].op = "CONFIRMAR" /\ Len(mensajes') > peticionesM[r].id)
    /\ UNCHANGED <<parte, varsK, varsS>>

AvisosNext ==
    \/ KI!Next /\ DeKioskos
    \/ SR!Next /\ DeRecoger
    \/ ME!Next /\ DeChat

AvisosSpec ==
    /\ AvisosInit /\ [][AvisosNext]_varsAvisos
    /\ \A w \in Instancias : WF_varsAvisos(SR!Trabajador(w) /\ DeRecoger)
    /\ \A p \in Pedidos : WF_varsAvisos(SR!Envejece(p) /\ DeRecoger)

-----------------------------------------------------------------------------
\* After a tick of the worker, every silent kiosk has been alerted of since its
\* last heartbeat, even if it had been alerted of before: between two falls the
\* worker always sees it well, unless more ticks fail in a row than fit in the
\* threshold (kiosko-alertas.worker).
LaCaidaSeAvisa == [][KI!Tic => \A k \in Kioskos : KI!Caida(k)' => avisada'[k]]_varsAvisos

\* A tablet that had a kiosk of a store ends in another only if the
\* administrator approved it, while no two of its requests have overlapped
\* (aprobar: "moverla de tienda es del ADMIN").
TiendaQueGuarda(t) == TiendaDelKiosko[solicitudes[tabletas[t].guarda].kiosko]

SoloElAdminMueveTabletas ==
    [][\A t \in Tabletas :
         /\ tabletas[t].guarda # 0
         /\ TiendaQueGuarda(t)' # TiendaQueGuarda(t)
         => solicitudes[tabletas'[t].guarda].aprobo = "ADMIN"]_varsAvisos

\* A bag that waits ends up overdue, or out of the delivery table: the customer
\* cannot put it off for ever by confirming (confirmarInteres).
LaBolsaVence ==
    \A p \in Pedidos :
        pedidos[p].espera # "NULA" ~> pedidos[p].espera \in {"NULA", "VENCIDA"}

\* A wait gets one reminder, whatever the sweeps and answers that coincide.
UnRecordatorioPorEspera == \A p \in Pedidos : recordados[p] <= 1

\* An old notice of arrival nobody attends to stops being in the queue.
ElAvisoCaduca == \A p \in Pedidos : SR!Caducable(p) ~> ~SR!Caducable(p)

\* The customer gets one mail of the first answer of the advisor.
UnSoloCorreo == correos <= 1

\* LoNoVistoSeCuenta: marking as read what one has seen never hides what came
\* after, while no message has overtaken an open transaction.
LoNoVistoSeCuentaEnOrden == ~cruce => ME!LoNoVistoSeCuenta

\* What the comment of cancelarVencidos says ("Se revalida CADA pedido"): the
\* batch cancels nobody whose customer is in the store.
NoSeCancelaAQuienLlego ==
    [][\A r \in UnaPeticion, p \in Pedidos :
         (peticionesS[r].op = "LOTE" /\ pedidos[p].estado # "CANCELADO"
            /\ p \in peticionesS[r].ids \ peticionesS'[r].ids)
         => (pedidos'[p].estado = "CANCELADO" => SR!Vencido(p))]_varsAvisos
=============================================================================
