----------------------------- MODULE SinRecoger -----------------------------
(* The bags nobody picks up (pedidos/core/sin-recoger): the sweep that lets  *)
(* old notices of arrival expire and sends "do you still want it?", the      *)
(* customer's "yes", and the batch with which the counter cancels what is    *)
(* overdue.  The rest of the life of the order (module Pedido) is here only  *)
(* as what moves it into, within and out of the delivery table.              *)
(*                                                                           *)
(* An age is a band, for the thresholds are all that tells ages apart.       *)
EXTENDS Integers, FiniteSets

CONSTANTS
    Pedidos,
    Peticiones,             \* requests that may be under way at once
    Instancias,             \* processes of the backend, each with its worker
    NADIE,
    MAX_CONFIRMACIONES,     \* MAX_CONFIRMACIONES_INTERES
    MAX_DESCARTES_WEB,
    MAX_MUERTES             \* bound: sweeps that die half way

VARIABLES
    pedidos,        \* the columns of the order these services read and write
    barridos,       \* the sweep under way of each process, and its candidates
    peticiones,     \* requests under way, with what they have read
    muertes         \* sweeps that have died

vars == <<pedidos, barridos, peticiones, muertes>>

ESTADOS_ESPERA_CLIENTE == {"REVISADO", "ESPERANDO_APROBACION"}
ESTADOS_BOLSA_APARTADA == ESTADOS_ESPERA_CLIENTE \cup {"EN_ATENCION"}
ESTADOS == ESTADOS_BOLSA_APARTADA \cup {"ANTES", "CAJA", "CANCELADO"}

\* esperaClienteDesdeAt: under recordatorioHoras, over it, over vencidoHoras.
ESPERAS == {"NULA", "RECIENTE", "RECORDABLE", "VENCIDA"}

Presente(p) ==
    /\ ~pedidos[p].descartada
    /\ pedidos[p].canal = "KIOSKO" \/ pedidos[p].anunciada

Libre   == [op |-> "LIBRE", ids |-> {}, leido |-> 0]
Dormido == [fase |-> "DORMIDO", quedan |-> {}]

Init ==
    /\ pedidos \in [Pedidos ->
          {[estado |-> "ANTES", canal |-> c, anunciada |-> FALSE, descartada |-> FALSE,
            avisoViejo |-> FALSE, espera |-> "NULA", recordatorio |-> FALSE,
            interes |-> 0, descartes |-> 0] : c \in {"WEB", "KIOSKO"}}]
    /\ barridos = [w \in Instancias |-> Dormido]
    /\ peticiones = [r \in Peticiones |-> Libre]
    /\ muertes = 0

-----------------------------------------------------------------------------
\* cambiosDeEspera: what a change of state does to the wait.
ConEstado(ped, nuevo) ==
    LET estaba == ped.estado \in ESTADOS_BOLSA_APARTADA
        queda  == nuevo \in ESTADOS_BOLSA_APARTADA
    IN  IF ~estaba /\ queda
        THEN [ped EXCEPT !.estado = nuevo, !.espera = "RECIENTE",
                         !.recordatorio = FALSE, !.interes = 0]
        ELSE IF estaba /\ ~queda
        THEN [ped EXCEPT !.estado = nuevo, !.espera = "NULA", !.recordatorio = FALSE]
        ELSE [ped EXCEPT !.estado = nuevo]

\* The moves of the rest of the system around the delivery table.
Movible ==
    [ANTES                |-> ESTADOS_ESPERA_CLIENTE \cup {"CANCELADO"},
     ESPERANDO_APROBACION |-> {"ANTES", "REVISADO", "CAJA", "CANCELADO"},
     REVISADO             |-> {"ANTES", "CAJA", "CANCELADO"},
     EN_ATENCION          |-> {"ANTES", "REVISADO", "CAJA", "CANCELADO"},
     CAJA                 |-> {"CANCELADO"},
     CANCELADO            |-> {}]

Mueve(p, nuevo) ==
    /\ nuevo \in Movible[pedidos[p].estado]
    /\ pedidos' = [pedidos EXCEPT ![p] = ConEstado(@, nuevo)]
    /\ UNCHANGED <<barridos, peticiones, muertes>>

Llamar(p) ==
    /\ pedidos[p].estado = "REVISADO"
    /\ Presente(p)
    /\ pedidos' = [pedidos EXCEPT ![p] = ConEstado(@, "EN_ATENCION")]
    /\ UNCHANGED <<barridos, peticiones, muertes>>

\* registrarAviso: a write guarded by the absence, and a reaction that may
\* fail without undoing it.
RegistrarAviso(p, canal) ==
    /\ ~Presente(p)
    /\ canal = "WEB" => pedidos[p].descartes < MAX_DESCARTES_WEB
    /\ pedidos[p].estado # "CANCELADO"
    /\ LET con == [pedidos[p] EXCEPT !.anunciada = TRUE, !.descartada = FALSE,
                                     !.avisoViejo = FALSE]
       IN  pedidos' \in {[pedidos EXCEPT ![p] = con]}
              \cup (IF con.estado = "ESPERANDO_APROBACION"
                    THEN {[pedidos EXCEPT ![p] = ConEstado(con, "REVISADO")]} ELSE {})
    /\ UNCHANGED <<barridos, peticiones, muertes>>

\* The notice does not count any more, and one more of the customer has failed.
Descartado(ped) ==
    [ped EXCEPT !.descartada = TRUE,
                !.descartes = IF @ < MAX_DESCARTES_WEB THEN @ + 1 ELSE @]

\* The operator takes a notice for false.
Descartar(p) ==
    /\ Presente(p)
    /\ LET antes == IF pedidos[p].estado = "EN_ATENCION" THEN ConEstado(pedidos[p], "REVISADO")
                    ELSE pedidos[p]
       IN  pedidos' = [pedidos EXCEPT ![p] = Descartado(antes)]
    /\ UNCHANGED <<barridos, peticiones, muertes>>

\* "No se presentó": to the end of the line or, after too many calls, absent.
NoSePresento(p) ==
    /\ pedidos[p].estado = "EN_ATENCION"
    /\ LET regresa == ConEstado(pedidos[p], "REVISADO")
       IN  pedidos' \in {[pedidos EXCEPT ![p] = [regresa EXCEPT !.avisoViejo = FALSE]],
                         [pedidos EXCEPT ![p] = Descartado(regresa)]}
    /\ UNCHANGED <<barridos, peticiones, muertes>>

\* Time.
Envejece(p) ==
    /\ pedidos[p].espera \in {"RECIENTE", "RECORDABLE"}
    /\ pedidos' = [pedidos EXCEPT ![p].espera =
          IF @ = "RECIENTE" THEN "RECORDABLE" ELSE "VENCIDA"]
    /\ UNCHANGED <<barridos, peticiones, muertes>>

AvisoEnvejece(p) ==
    /\ pedidos[p].canal = "KIOSKO" \/ pedidos[p].anunciada
    /\ ~pedidos[p].avisoViejo
    /\ pedidos' = [pedidos EXCEPT ![p].avisoViejo = TRUE]
    /\ UNCHANGED <<barridos, peticiones, muertes>>

-----------------------------------------------------------------------------
\* Requests that read, check and write by id.
Ocupa(r, op, ids, leido) ==
    /\ peticiones[r] = Libre
    /\ peticiones' = [peticiones EXCEPT ![r] = [op |-> op, ids |-> ids, leido |-> leido]]
    /\ UNCHANGED <<pedidos, barridos, muertes>>

Termina(r) == peticiones' = [peticiones EXCEPT ![r] = Libre]

LeeRetirar(r, p) ==
    pedidos[p].estado # "EN_ATENCION" /\ Presente(p) /\ Ocupa(r, "RETIRAR", {p}, 0)

RetirarPorCliente(r) ==
    /\ peticiones[r].op = "RETIRAR"
    /\ pedidos' = [p \in Pedidos |->
          IF p \in peticiones[r].ids THEN [pedidos[p] EXCEPT !.descartada = TRUE] ELSE pedidos[p]]
    /\ Termina(r)
    /\ UNCHANGED <<barridos, muertes>>

\* Without the limit.
PuedeConfirmarSiempre(ped) == ped.interes <= MAX_CONFIRMACIONES

\* confirmarInteres: the write asks only for the count it read.
PuedeConfirmar(ped) == ped.interes < MAX_CONFIRMACIONES

LeeInteres(r, p) ==
    /\ pedidos[p].estado \in ESTADOS_ESPERA_CLIENTE
    /\ ~Presente(p)
    /\ PuedeConfirmar(pedidos[p])
    /\ Ocupa(r, "INTERES", {p}, pedidos[p].interes)

ConfirmarInteres(r) ==
    /\ peticiones[r].op = "INTERES"
    /\ pedidos' = [p \in Pedidos |->
          IF p \in peticiones[r].ids /\ pedidos[p].interes = peticiones[r].leido
          THEN [pedidos[p] EXCEPT !.espera = "RECIENTE", !.recordatorio = FALSE,
                   !.interes = IF @ < MAX_CONFIRMACIONES THEN @ + 1 ELSE @]
          ELSE pedidos[p]]
    /\ Termina(r)
    /\ UNCHANGED <<barridos, muertes>>

\* cancelarVencidos: the batch is looked at once, and cancelled one by one.
Vencido(p) ==
    /\ pedidos[p].estado \in ESTADOS_ESPERA_CLIENTE
    /\ pedidos[p].espera = "VENCIDA"
    /\ ~Presente(p)

LeeVencidos(r, ids) ==
    /\ ids # {}
    /\ \A p \in ids : Vencido(p)
    /\ Ocupa(r, "LOTE", ids, 0)

CancelaUno(r, p) ==
    /\ peticiones[r].op = "LOTE"
    /\ p \in peticiones[r].ids
    /\ pedidos' = IF pedidos[p].estado \in ESTADOS_BOLSA_APARTADA
                  THEN [pedidos EXCEPT ![p] = ConEstado(@, "CANCELADO")] ELSE pedidos
    /\ LET quedan == peticiones[r].ids \ {p}
       IN  peticiones' = [peticiones EXCEPT ![r] =
              IF quedan = {} THEN Libre ELSE [op |-> "LOTE", ids |-> quedan, leido |-> 0]]
    /\ UNCHANGED <<barridos, muertes>>

-----------------------------------------------------------------------------
\* The sweep: expired notices first, reminders then.  Each half reads its
\* candidates and claims them one by one with a conditional write.
Caducable(p) ==
    pedidos[p].estado = "REVISADO" /\ Presente(p) /\ pedidos[p].avisoViejo

Recordable(p) ==
    /\ pedidos[p].estado \in ESTADOS_ESPERA_CLIENTE
    /\ pedidos[p].espera \in {"RECORDABLE", "VENCIDA"}
    /\ ~pedidos[p].recordatorio
    /\ ~Presente(p)

Fase(w, fase, quedan) == barridos' = [barridos EXCEPT ![w] = [fase |-> fase, quedan |-> quedan]]

Barrer(w) ==
    /\ barridos[w] = Dormido
    /\ Fase(w, "CADUCAR", {p \in Pedidos : Caducable(p)})
    /\ UNCHANGED <<pedidos, peticiones, muertes>>

\* WHERE estado = REVISADO AND llegada_descartada_at IS NULL.
CaducaUna(w, p) ==
    /\ barridos[w].fase = "CADUCAR"
    /\ p \in barridos[w].quedan
    /\ pedidos' = IF pedidos[p].estado = "REVISADO" /\ ~pedidos[p].descartada
                  THEN [pedidos EXCEPT ![p].descartada = TRUE] ELSE pedidos
    /\ Fase(w, "CADUCAR", barridos[w].quedan \ {p})
    /\ UNCHANGED <<peticiones, muertes>>

LeeRecordables(w) ==
    /\ barridos[w] = [fase |-> "CADUCAR", quedan |-> {}]
    /\ Fase(w, "RECORDAR", {p \in Pedidos : Recordable(p)})
    /\ UNCHANGED <<pedidos, peticiones, muertes>>

\* Claiming a reminder again.
YaEraCandidato(p) == pedidos[p].estado \in ESTADOS

\* WHERE recordatorio_recoger_at IS NULL; the mail goes only if it is claimed.
SinReclamar(p) == ~pedidos[p].recordatorio

MandaRecordatorio(w, p) ==
    /\ barridos[w].fase = "RECORDAR"
    /\ p \in barridos[w].quedan
    /\ SinReclamar(p)
    /\ pedidos' = [pedidos EXCEPT ![p].recordatorio = TRUE]
    /\ Fase(w, "RECORDAR", barridos[w].quedan \ {p})
    /\ UNCHANGED <<peticiones, muertes>>

YaRecordado(w, p) ==
    /\ barridos[w].fase = "RECORDAR"
    /\ p \in barridos[w].quedan
    /\ ~SinReclamar(p)
    /\ Fase(w, "RECORDAR", barridos[w].quedan \ {p})
    /\ UNCHANGED <<pedidos, peticiones, muertes>>

TerminaBarrido(w) ==
    /\ barridos[w] = [fase |-> "RECORDAR", quedan |-> {}]
    /\ barridos' = [barridos EXCEPT ![w] = Dormido]
    /\ UNCHANGED <<pedidos, peticiones, muertes>>

Trabajador(w) ==
    \/ Barrer(w) \/ LeeRecordables(w) \/ TerminaBarrido(w)
    \/ \E p \in Pedidos : CaducaUna(w, p) \/ MandaRecordatorio(w, p) \/ YaRecordado(w, p)

\* A process dies in the middle of its sweep, or of a request.
Muere(w) ==
    /\ barridos[w] # Dormido
    /\ muertes < MAX_MUERTES
    /\ muertes' = muertes + 1
    /\ barridos' = [barridos EXCEPT ![w] = Dormido]
    /\ UNCHANGED <<pedidos, peticiones>>

Abandona(r) ==
    /\ peticiones[r] # Libre
    /\ Termina(r)
    /\ UNCHANGED <<pedidos, barridos, muertes>>

Next ==
    \/ \E p \in Pedidos :
          \/ \E e \in ESTADOS : Mueve(p, e)
          \/ \E c \in {"WEB", "KIOSKO"} : RegistrarAviso(p, c)
          \/ Llamar(p) \/ Descartar(p) \/ NoSePresento(p) \/ Envejece(p) \/ AvisoEnvejece(p)
    \/ \E r \in Peticiones, p \in Pedidos :
          LeeRetirar(r, p) \/ LeeInteres(r, p) \/ CancelaUno(r, p)
    \/ \E r \in Peticiones, ids \in SUBSET Pedidos : LeeVencidos(r, ids)
    \/ \E r \in Peticiones : RetirarPorCliente(r) \/ ConfirmarInteres(r) \/ Abandona(r)
    \/ \E w \in Instancias : Trabajador(w) \/ Muere(w)

Spec == Init /\ [][Next]_vars

-----------------------------------------------------------------------------
TypeOK ==
    /\ pedidos \in [Pedidos ->
          [estado : ESTADOS, canal : {"WEB", "KIOSKO"}, anunciada : BOOLEAN,
           descartada : BOOLEAN, avisoViejo : BOOLEAN, espera : ESPERAS,
           recordatorio : BOOLEAN, interes : 0..MAX_CONFIRMACIONES,
           descartes : 0..MAX_DESCARTES_WEB]]
    /\ \A w \in Instancias :
          barridos[w] \in [fase : {"DORMIDO", "CADUCAR", "RECORDAR"}, quedan : SUBSET Pedidos]
    /\ \A r \in Peticiones : peticiones[r] \in
          [op : {"LIBRE", "RETIRAR", "INTERES", "LOTE"}, ids : SUBSET Pedidos,
           leido : 0..MAX_CONFIRMACIONES]
    /\ muertes \in 0..MAX_MUERTES
=============================================================================
