--------------------------- MODULE ColaErpProofs ---------------------------
(***************************************************************************)
(* Proofs about the way of the orders to the ERP, for any number of        *)
(* orders, faults and numbers.                                             *)
(*                                                                         *)
(* The folio of an order is copied to seven places: the cloud, the SQLite  *)
(* (twice), the ERP, the orders taken down, and the answers that the agent *)
(* owes or has sent.  Each copy is read at another time, and a crash or a  *)
(* lost answer may leave any of them behind.  That the ticket and the ERP  *)
(* agree is not inductive; that every copy, wherever it is, is the number  *)
(* which the store wrote down for that order, and nobody else's, is.       *)
(***************************************************************************)
EXTENDS ColaErp, TLAPS

\* The number that the store took for the order, once it wrote it down.
Numero(p) == reservado[p].folio

EsSuNumero(p, f) == f = Numero(p) /\ f # SIN_FOLIO
EsSuyo(p, f)     == f \in {SIN_FOLIO, Numero(p)}

\* Both sides at rest carry the number of the order, and the cloud never gave
\* the agent a reason to abandon it.
UnSoloNumero == \A p \in Pedidos :
    /\ EsSuyo(p, pedidos[p].folio)
    /\ EsSuyo(p, entregado[p])
    /\ erp[p].existe => EsSuNumero(p, erp[p].folio)
    /\ reservado[p].estado # 2

\* CONSECUTIVOS gives out each number once.
Distintos ==
    /\ \A p, q \in Pedidos : Numero(p) = Numero(q) /\ Numero(p) # SIN_FOLIO => p = q
    /\ \A p \in Pedidos : Numero(p) <= consecutivo

\* What is on its way says of an order its own number.
LlevaSuNumero(a) == a.exito => EsSuNumero(a.pedido, a.folio)

EnCamino ==
    /\ \A a \in agente.folios : LlevaSuNumero(a)
    /\ \A a \in agente.acks : LlevaSuNumero(a)
    /\ \A a \in salida : LlevaSuNumero(a)
    /\ \A a \in peticion.quedan : LlevaSuNumero(a)
    /\ \A b \in agente.bajadas : EsSuyo(b.pedido, b.folio)
    /\ peticion.leido # <<>> => peticion.leido[1].ack \in peticion.quedan

\* No number and no row of the queue before the folio is asked for: without
\* it a confirmation would be refused.
Pedida(p) == solicitudes[p].estado # "NINGUNA"

TrasPedirla ==
    /\ \A p \in Pedidos : Numero(p) # SIN_FOLIO => Pedida(p)
    /\ \A p \in Pedidos : envios[p].estado # "NINGUNO" => Pedida(p)
    /\ agente.fase \in {"RESERVA", "ARMA"} => \A p \in agente.quedan : Pedida(p)
    /\ agente.fase = "CONFIRMA" => \A p \in agente.quedan : Numero(p) # SIN_FOLIO
    /\ \A b \in agente.bajadas : Pedida(b.pedido)
    /\ \A a \in agente.acks \cup salida \cup peticion.quedan : Pedida(a.pedido)

IInv == TypeOK /\ UnSoloNumero /\ Distintos /\ EnCamino /\ TrasPedirla

-----------------------------------------------------------------------------
(* Types.                                                                  *)

\* An agent that begins a step has empty hands, and perhaps orders to work on.
LEMMA AgenteNuevo ==
    ASSUME NEW f \in Fases, NEW q \in SUBSET Pedidos
    PROVE  LET g == Agente(f)
               h == [Agente(f) EXCEPT !.quedan = q] IN
           /\ g \in Agentes /\ g.fase = f /\ g.quedan = {}
           /\ g.folios = {} /\ g.bajadas = {} /\ g.acks = {}
           /\ h \in Agentes /\ h.fase = f /\ h.quedan = q
           /\ h.folios = {} /\ h.bajadas = {} /\ h.acks = {}
<1>1. SinErp \in EstadosErp
  BY ColaErpAssumption DEF SinErp, EstadosErp, Folios, SIN_FOLIO
<1>2. [p \in Pedidos |-> SinErp] \in [Pedidos -> EstadosErp]
  BY <1>1
<1>3. QED
  BY <1>2 DEF Agente, Agentes

\* The same without orders.
LEMMA AgenteVacio ==
    ASSUME NEW f \in Fases
    PROVE  LET g == Agente(f) IN
           /\ g \in Agentes /\ g.fase = f /\ g.quedan = {}
           /\ g.folios = {} /\ g.bajadas = {} /\ g.acks = {}
<1>1. {} \in SUBSET Pedidos
  OBVIOUS
<1>2. QED
  BY <1>1, AgenteNuevo

\* Nothing has a number at the beginning.
LEMMA InitBien == Init => IInv
<1> SUFFICES ASSUME Init PROVE IInv
  OBVIOUS
<1> USE ColaErpAssumption DEF Init, Folios, Tokens, SIN_FOLIO, SIN_TOKEN
<1>1. TypeOK
  <2>1. agente \in Agentes
    BY AgenteVacio DEF Fases
  <2>2. QED
    BY <2>1 DEF TypeOK, Ordenes, EstadosPedido, Solicitudes, EstadosSolicitud, Envios,
       EstadosEnvio, EstadosErp, SinErp, Reservas, Reservado, Peticiones, SinPeticion
<1>2. UnSoloNumero /\ Distintos
  BY DEF UnSoloNumero, Distintos, EsSuyo, EsSuNumero, Numero, Reservado, SinErp
<1>3. EnCamino /\ TrasPedirla
  BY DEF EnCamino, TrasPedirla, Agente, SinPeticion, Numero, Reservado, Pedida
<1>4. QED
  BY <1>1, <1>2, <1>3 DEF IInv

-----------------------------------------------------------------------------
(* What a step leaves true by not touching it.                             *)

\* Whom the acks, the orders taken down and the work of a step are about.
LEMMA DePedidos ==
    ASSUME TypeOK
    PROVE  /\ \A a \in agente.folios \cup agente.acks \cup salida \cup peticion.quedan :
                 a.pedido \in Pedidos
           /\ \A b \in agente.bajadas : b.pedido \in Pedidos
           /\ \A p \in agente.quedan : p \in Pedidos
  BY DEF TypeOK, Agentes, Peticiones, FolioAcks, Acks, Bajadas

\* A step that takes no number: every copy is the old one or the number of the
\* order,
CopiasSiguen ==
    /\ consecutivo' \in {consecutivo, consecutivo + 1}
    /\ \A p \in Pedidos :
          /\ reservado'[p].folio = reservado[p].folio /\ reservado'[p].estado # 2
          /\ pedidos'[p].folio \in {pedidos[p].folio, Numero(p)}
          /\ entregado'[p] \in {entregado[p], Numero(p)}
          /\ erp'[p].existe => \/ erp[p].existe /\ erp'[p].folio = erp[p].folio
                               \/ EsSuNumero(p, erp'[p].folio)
          /\ Pedida(p) => solicitudes'[p].estado # "NINGUNA"
          /\ envios'[p].estado # "NINGUNO" =>
                 envios[p].estado # "NINGUNO" \/ solicitudes'[p].estado # "NINGUNA"

\* what it puts on the way carries that number too,
LlevanLoSuyo ==
    /\ \A a \in agente'.folios : a \in agente.folios \/ LlevaSuNumero(a)
    /\ \A b \in agente'.bajadas :
          b \in agente.bajadas \/ (EsSuyo(b.pedido, b.folio) /\ Pedida(b.pedido))
    /\ \A a \in agente'.acks : a \in agente.acks \/ (LlevaSuNumero(a) /\ Pedida(a.pedido))
    /\ salida' \subseteq salida \cup agente.acks
    /\ peticion'.quedan \subseteq peticion.quedan \cup salida
    /\ peticion'.leido # <<>> => peticion'.leido[1].ack \in peticion'.quedan

\* and the agent works on orders that asked for a number.
TrabajoPedido ==
    /\ agente'.fase \in {"RESERVA", "ARMA"} => \A p \in agente'.quedan : Pedida(p)
    /\ agente'.fase = "CONFIRMA" => \A p \in agente'.quedan : Numero(p) # SIN_FOLIO

\* Such a step preserves the invariant.
LEMMA SinNumeroNuevo ==
    ASSUME IInv, TypeOK', CopiasSiguen, LlevanLoSuyo, TrabajoPedido
    PROVE  IInv'
<1> USE DEF CopiasSiguen, LlevanLoSuyo, TrabajoPedido
<1> USE DEF IInv
<1>0. consecutivo \in Nat /\ \A p \in Pedidos : Numero(p) \in Nat
  BY ColaErpAssumption DEF TypeOK, Folios, Reservas, Numero
<1>1. UnSoloNumero' /\ Distintos'
  BY <1>0 DEF UnSoloNumero, Distintos, Numero, EsSuNumero, EsSuyo
<1>2. EnCamino'
  <2>0. /\ \A a \in agente'.folios \cup agente'.acks : a.pedido \in Pedidos
        /\ \A b \in agente'.bajadas : b.pedido \in Pedidos
    BY DEF TypeOK, Agentes, FolioAcks, Acks, Bajadas
  <2>1. \A a : a.pedido \in Pedidos /\ LlevaSuNumero(a) => LlevaSuNumero(a)'
    BY DEF LlevaSuNumero, EsSuNumero, Numero
  <2>2. \A b : b.pedido \in Pedidos /\ EsSuyo(b.pedido, b.folio) => EsSuyo(b.pedido, b.folio)'
    BY DEF EsSuyo, Numero
  <2>3. QED
    BY <2>0, <2>1, <2>2, DePedidos DEF EnCamino
<1>3. TrasPedirla'
  <2>1. \A p \in Pedidos : /\ Pedida(p) => Pedida(p)'
                           /\ Numero(p)' = Numero(p)
    BY DEF Pedida, Numero
  <2>2. /\ \A a \in agente'.acks : a.pedido \in Pedidos
        /\ \A b \in agente'.bajadas : b.pedido \in Pedidos
        /\ \A p \in agente'.quedan : p \in Pedidos
    BY DEF TypeOK, Agentes, Acks, Bajadas
  <2>3. /\ \A p \in Pedidos : Numero(p)' # SIN_FOLIO => Pedida(p)'
        /\ \A p \in Pedidos : envios'[p].estado # "NINGUNO" => Pedida(p)'
    BY <2>1 DEF TrasPedirla, Pedida
  <2>4. /\ agente'.fase \in {"RESERVA", "ARMA"} => \A p \in agente'.quedan : Pedida(p)'
        /\ agente'.fase = "CONFIRMA" => \A p \in agente'.quedan : Numero(p)' # SIN_FOLIO
    BY <2>1, <2>2
  <2>5. \A b \in agente'.bajadas : Pedida(b.pedido)'
    BY <2>1, <2>2, DePedidos DEF TrasPedirla
  <2>6. \A a \in (agente.acks \cup salida \cup peticion.quedan)' : Pedida(a.pedido)'
    BY <2>1, <2>2, DePedidos DEF TrasPedirla
  <2>7. QED
    BY <2>3, <2>4, <2>5, <2>6 DEF TrasPedirla
<1>4. QED
  BY <1>1, <1>2, <1>3

\* A step that touches no copy.
LEMMA CopiasQuietas ==
    ASSUME IInv, UNCHANGED <<pedidos, solicitudes, envios, erp, reservado, entregado>>,
           consecutivo' \in {consecutivo, consecutivo + 1}
    PROVE  CopiasSiguen
  BY DEF IInv, UnSoloNumero, Pedida, CopiasSiguen

\* A step that moves the agent alone, and what it owes.
LEMMA SoloElAgente ==
    ASSUME IInv, TypeOK', LlevanLoSuyo, TrabajoPedido,
           UNCHANGED <<pedidos, solicitudes, envios, erp, reservado, entregado>>,
           consecutivo' \in {consecutivo, consecutivo + 1}
    PROVE  IInv'
  BY CopiasQuietas, SinNumeroNuevo

\* A new step of the loop begins with empty hands.
LEMMA ManosVacias ==
    ASSUME IInv, agente'.folios = {}, agente'.bajadas = {}, agente'.acks = {},
           UNCHANGED <<salida, peticion>>
    PROVE  LlevanLoSuyo
  BY DEF LlevanLoSuyo, IInv, EnCamino

\* A step of somebody else: the agent, what it owes and the numbers stay.
LEMMA SinAgente ==
    ASSUME IInv, TypeOK',
           UNCHANGED <<agente, peticion, reservado, entregado, salida, consecutivo>>,
           \A p \in Pedidos :
               /\ pedidos'[p].folio = pedidos[p].folio
               /\ erp'[p].existe = erp[p].existe /\ erp'[p].folio = erp[p].folio
               /\ Pedida(p) => solicitudes'[p].estado # "NINGUNA"
               /\ envios'[p].estado # "NINGUNO" =>
                      envios[p].estado # "NINGUNO" \/ solicitudes'[p].estado # "NINGUNA"
    PROVE  IInv'
<1>1. CopiasSiguen
  BY DEF CopiasSiguen, IInv, UnSoloNumero
<1>2. LlevanLoSuyo /\ TrabajoPedido
  BY DEF LlevanLoSuyo, TrabajoPedido, IInv, TrasPedirla, EnCamino
<1>3. QED
  BY <1>1, <1>2, SinNumeroNuevo

\* A step of the loop that goes on to another one, perhaps with orders to
\* work on.
LEMMA PasaCon ==
    ASSUME IInv, agente' \in Agentes,
           agente'.folios = {}, agente'.bajadas = {}, agente'.acks = {}, TrabajoPedido,
           solicitudes' \in [Pedidos -> Solicitudes],
           envios' \in [Pedidos -> Envios],
           \A p \in Pedidos : /\ Pedida(p) => solicitudes'[p].estado # "NINGUNA"
                              /\ envios'[p].estado # "NINGUNO" => envios[p].estado # "NINGUNO",
           UNCHANGED <<pedidos, tareas, hallazgos, erp, consecutivo, bandeja,
                       reservado, entregado, salida, peticion, referencias>>,
           incidentes' \in 0..MAX_INCIDENTES
    PROVE  IInv'
<1>1. TypeOK'
  BY DEF IInv, TypeOK
<1>2. CopiasSiguen
  BY DEF CopiasSiguen, IInv, UnSoloNumero
<1>3. QED
  BY <1>1, <1>2, ManosVacias, SinNumeroNuevo

\* A step of the loop that only goes on.
LEMMA SoloPasa ==
    ASSUME IInv, NEW f \in Fases, PasaA(f),
           UNCHANGED <<nube, erp, consecutivo, bandeja, local, peticion, referencias>>,
           incidentes' \in 0..MAX_INCIDENTES
    PROVE  IInv'
<1>1. /\ agente' \in Agentes /\ agente'.quedan = {}
      /\ agente'.folios = {} /\ agente'.bajadas = {} /\ agente'.acks = {}
  BY AgenteVacio DEF PasaA
<1>2. QED
  BY <1>1, PasaCon DEF IInv, TypeOK, nube, local, Pedida, TrabajoPedido

\* The faults counted stay within their bound.
LEMMA Presupuesto ==
    ASSUME TypeOK, NEW i, Incidente(i)
    PROVE  incidentes' \in 0..MAX_INCIDENTES
  BY ColaErpAssumption DEF Incidente, TypeOK

-----------------------------------------------------------------------------
(* Staff, the cashier of the ERP and the passing of time.                  *)

\* A step that asks for a folio at most, and moves the order and its row of
\* the queue.
LEMMA DeLaNube ==
    ASSUME IInv,
           pedidos' \in [Pedidos -> Ordenes],
           \A q \in Pedidos : pedidos'[q].folio = pedidos[q].folio,
           solicitudes' \in [Pedidos -> Solicitudes],
           \A q \in Pedidos : Pedida(q) => solicitudes'[q].estado # "NINGUNA",
           envios' \in [Pedidos -> Envios],
           \A q \in Pedidos : envios'[q].estado # "NINGUNO" =>
                            envios[q].estado # "NINGUNO" \/ solicitudes'[q].estado # "NINGUNA",
           tareas' \in [Pedidos -> SUBSET TiposTarea],
           hallazgos' \in [Pedidos -> SUBSET TiposHallazgo],
           erp' \in [Pedidos -> EstadosErp],
           \A q \in Pedidos : erp'[q].existe = erp[q].existe /\ erp'[q].folio = erp[q].folio,
           bandeja' \subseteq Pedidos, referencias' \subseteq Pedidos,
           incidentes' \in 0..MAX_INCIDENTES,
           UNCHANGED <<consecutivo, reservado, entregado, salida, agente, peticion>>
    PROVE  IInv'
<1>1. TypeOK'
  BY DEF IInv, TypeOK
<1>2. QED
  BY <1>1, SinAgente

\* Moving an order leaves its folio.
LEMMA CambiaBien ==
    ASSUME TypeOK, NEW p \in Pedidos, NEW e \in EstadosPedido, Cambia(p, e)
    PROVE  /\ pedidos' \in [Pedidos -> Ordenes]
           /\ \A q \in Pedidos : pedidos'[q].folio = pedidos[q].folio
  BY DEF Cambia, TypeOK, Ordenes

\* PedidoFolioSolicitud: asking twice is asking once.
LEMMA PideFolio ==
    ASSUME IInv, NEW p \in Pedidos
    PROVE  /\ ConSolicitud(p) \in [Pedidos -> Solicitudes]
           /\ \A q \in Pedidos : Pedida(q) => ConSolicitud(p)[q].estado # "NINGUNA"
           /\ ConSolicitud(p)[p].estado # "NINGUNA"
  BY DEF IInv, TypeOK, ConSolicitud, Solicitudes, EstadosSolicitud, Pedida, TrasPedirla,
         UnSoloNumero, EsSuyo

\* A row of the queue is written over itself.
LEMMA FilaDelEnvio ==
    ASSUME NEW m \in Envios, NEW e \in EstadosEnvio, NEW b \in BOOLEAN, NEW t \in Tokens
    PROVE  [m EXCEPT !.estado = e, !.espera = b, !.token = t] \in Envios
  BY DEF Envios

\* No token is a token, for the types.
LEMMA SinTokenEsToken == SIN_TOKEN \in Tokens
  BY ColaErpAssumption DEF SIN_TOKEN, Tokens

\* A row that is withdrawn.
LEMMA RetiraEnvio ==
    ASSUME TypeOK, NEW p \in Pedidos
    PROVE  /\ EnvioRetirado(p) \in [Pedidos -> Envios]
           /\ \A q \in Pedidos \ {p} : EnvioRetirado(p)[q] = envios[q]
<1>1. [envios[p] EXCEPT !.estado = "CANCELADO", !.espera = FALSE, !.token = SIN_TOKEN] \in Envios
  <2>1. envios[p] \in Envios
    BY DEF TypeOK
  <2>2. QED
    BY <2>1, FilaDelEnvio, SinTokenEsToken DEF EstadosEnvio
<1>2. QED
  BY <1>1 DEF TypeOK, EnvioRetirado

\* The staff.
LEMMA PersonalBien ==
    ASSUME IInv, NEW p \in Pedidos,
           \/ CierraSurtido(p) \/ MandaAPagar(p) \/ CancelaPersonal(p) \/ CobraAMano(p)
           \/ Entrega(p) \/ \E t \in TiposTarea : ResuelveTarea(p, t)
    PROVE  IInv'
<1> USE DEF EstadosPedido
<1>0. TypeOK
  BY DEF IInv
<1>1. CASE CierraSurtido(p)
  BY <1>0, <1>1, PideFolio, CambiaBien, DeLaNube DEF CierraSurtido, local, TypeOK
<1>2. CASE MandaAPagar(p)
  <2>1. [envios EXCEPT ![p].estado = "PENDIENTE"] \in [Pedidos -> Envios]
    BY <1>0 DEF TypeOK, Envios, EstadosEnvio
  <2>2. \A q \in Pedidos \ {p} : envios'[q] = envios[q]
    BY <1>0, <1>2 DEF TypeOK, MandaAPagar
  <2>3. QED
    BY <1>0, <1>2, <2>1, <2>2, PideFolio, CambiaBien, DeLaNube DEF MandaAPagar, local, TypeOK
<1>3. CASE CancelaPersonal(p)
  <2>1. tareas' \in [Pedidos -> SUBSET TiposTarea]
    BY <1>0, <1>3 DEF CancelaPersonal, ReflejaCancelacion, TypeOK, TiposTarea
  <2>2. /\ envios' \in [Pedidos -> Envios]
        /\ \A q \in Pedidos : envios'[q].estado # "NINGUNO" => envios[q].estado # "NINGUNO"
    BY <1>0, <1>3, RetiraEnvio
       DEF CancelaPersonal, ReflejaCancelacion, EnvioSinEntregar, TypeOK
  <2>3. QED
    BY <1>0, <1>3, <2>1, <2>2, CambiaBien, DeLaNube DEF CancelaPersonal, local, TypeOK, Pedida
<1>4. CASE CobraAMano(p)
  <2>1. tareas' \in [Pedidos -> SUBSET TiposTarea]
    BY <1>0, <1>4 DEF CobraAMano, TypeOK, TiposTarea
  <2>2. QED
    BY <1>0, <1>4, <2>1, CambiaBien, DeLaNube DEF CobraAMano, local, TypeOK, Pedida
<1>5. CASE Entrega(p)
  BY <1>0, <1>5, CambiaBien, DeLaNube DEF Entrega, local, TypeOK, Pedida
<1>6. ASSUME NEW t \in TiposTarea, ResuelveTarea(p, t) PROVE IInv'
  <2>1. tareas' \in [Pedidos -> SUBSET TiposTarea]
    BY <1>0, <1>6 DEF ResuelveTarea, TypeOK
  <2>2. QED
    BY <1>0, <1>6, <2>1, CambiaBien, DeLaNube DEF ResuelveTarea, local, TypeOK, Pedida
<1>7. QED
  BY <1>1, <1>2, <1>3, <1>4, <1>5, <1>6

\* The cashier of the ERP.
LEMMA ErpBien ==
    ASSUME IInv, NEW p \in Pedidos, CobraEnErp(p) \/ CancelaEnErp(p) \/ DesmarcaCobro(p)
    PROVE  IInv'
<1>0. TypeOK
  BY DEF IInv
<1>1. erp' \in [Pedidos -> EstadosErp] /\
      \A q \in Pedidos : erp'[q].existe = erp[q].existe /\ erp'[q].folio = erp[q].folio
  <2>1. /\ [erp[p] EXCEPT !.finalizada = TRUE] \in EstadosErp
        /\ [erp[p] EXCEPT !.finalizada = FALSE] \in EstadosErp
        /\ [erp[p] EXCEPT !.swcancel = TRUE, !.finalizada = FALSE] \in EstadosErp
    BY <1>0 DEF TypeOK, EstadosErp
  <2>2. PICK e \in EstadosErp : /\ erp' = [erp EXCEPT ![p] = e]
                                /\ e.existe = erp[p].existe /\ e.folio = erp[p].folio
    BY <1>0, <2>1 DEF CobraEnErp, CancelaEnErp, DesmarcaCobro, CambiaEnErp, TypeOK, EstadosErp
  <2>3. QED
    BY <1>0, <2>2 DEF TypeOK
<1>2. incidentes' \in 0..MAX_INCIDENTES
  BY <1>0, Presupuesto DEF CobraEnErp, CancelaEnErp, DesmarcaCobro, TypeOK
<1>3. bandeja' = bandeja \cup {p}
      /\ UNCHANGED <<nube, consecutivo, local, agente, peticion, referencias>>
  BY DEF CobraEnErp, CancelaEnErp, DesmarcaCobro, CambiaEnErp
<1>4. QED
  BY <1>0, <1>1, <1>2, <1>3, DeLaNube DEF TypeOK, nube, local, Pedida

\* Leases, back-offs, the maintenance job and the loss of a notice.
LEMMA TiempoBien ==
    ASSUME IInv, NEW p \in Pedidos,
           \/ LlegaReferencia(p) \/ PierdeAviso(p) \/ ExpiraEnvio(p)
           \/ VenceSolicitud(p) \/ VenceEnvio(p)
    PROVE  IInv'
<1>0. TypeOK
  BY DEF IInv
<1>1. CASE LlegaReferencia(p)
  BY <1>0, <1>1, DeLaNube DEF LlegaReferencia, nube, local, TypeOK, Pedida
<1>2. CASE PierdeAviso(p)
  BY <1>0, <1>2, Presupuesto, DeLaNube DEF PierdeAviso, nube, local, TypeOK, Pedida
<1>3. CASE ExpiraEnvio(p)
  <2>1. /\ envios' \in [Pedidos -> Envios]
        /\ \A q \in Pedidos : envios'[q].estado # "NINGUNO" => envios[q].estado # "NINGUNO"
    BY <1>0, <1>3 DEF ExpiraEnvio, TypeOK, Envios, EstadosEnvio
  <2>2. QED
    BY <1>0, <1>3, <2>1, Presupuesto, DeLaNube DEF ExpiraEnvio, local, TypeOK, Pedida
<1>4. CASE VenceSolicitud(p)
  <2>1. /\ solicitudes' \in [Pedidos -> Solicitudes]
        /\ \A q \in Pedidos : solicitudes'[q].estado = solicitudes[q].estado
    BY <1>0, <1>4 DEF VenceSolicitud, TypeOK, Solicitudes
  <2>2. QED
    BY <1>0, <1>4, <2>1, DeLaNube DEF VenceSolicitud, local, TypeOK, Pedida
<1>5. CASE VenceEnvio(p)
  <2>1. /\ envios' \in [Pedidos -> Envios]
        /\ \A q \in Pedidos : envios'[q].estado = envios[q].estado
    BY <1>0, <1>5 DEF VenceEnvio, TypeOK, Envios
  <2>2. QED
    BY <1>0, <1>5, <2>1, DeLaNube DEF VenceEnvio, local, TypeOK, Pedida
<1>6. QED
  BY <1>1, <1>2, <1>3, <1>4, <1>5

-----------------------------------------------------------------------------
(* The loop of the agent: the numbers.                                     *)

\* What the ERP did, applied in the cloud, changes no folio.
LEMMA ProcesarBien ==
    ASSUME TypeOK, NEW p \in Pedidos, NEW sw \in BOOLEAN, NEW fin \in BOOLEAN, NEW cumplidas,
           Procesar(p, sw, fin, cumplidas)
    PROVE  /\ pedidos' \in [Pedidos -> Ordenes]
           /\ \A q \in Pedidos : pedidos'[q].folio = pedidos[q].folio
           /\ tareas' \in [Pedidos -> SUBSET TiposTarea]
<1>1. TrasProcesar(p, sw, fin) \in EstadosPedido
  BY DEF TrasProcesar, EstadosPedido, TypeOK, Ordenes
<1>2. pedidos' = pedidos \/ Cambia(p, TrasProcesar(p, sw, fin))
  BY DEF Procesar
<1>3. tareas' \in [Pedidos -> SUBSET TiposTarea]
  BY DEF Procesar, TypeOK
<1>4. QED
  BY <1>1, <1>2, <1>3, CambiaBien DEF TypeOK

\* A notice of the trigger.
LEMMA SubeBien ==
    ASSUME IInv, NEW p \in Pedidos, SubeAviso(p)
    PROVE  IInv'
<1>0. TypeOK
  BY DEF IInv
<1>1. erp[p].swcancel \in BOOLEAN /\ erp[p].finalizada \in BOOLEAN
  BY <1>0 DEF TypeOK, EstadosErp
<1>2. incidentes' \in 0..MAX_INCIDENTES /\ bandeja' \subseteq Pedidos
  BY <1>0, Presupuesto DEF SubeAviso, TypeOK
<1>3. QED
  BY <1>0, <1>1, <1>2, ProcesarBien, DeLaNube DEF SubeAviso, local, TypeOK, Pedida

\* An answer of the store about its own number is never refused.
LEMMA SuNumeroSeAcepta ==
    ASSUME IInv, NEW a, a.pedido \in Pedidos, a.exito, EsSuNumero(a.pedido, a.folio)
    PROVE  AceptaFolio(a)
<1> DEFINE p == a.pedido
           r == ResultadoDeGuardar(p, pedidos[p].folio, a.folio, FALSE)
<1>1. pedidos[p].folio \in {SIN_FOLIO, a.folio} /\ Pedida(p)
  BY DEF IInv, UnSoloNumero, EsSuyo, EsSuNumero, TrasPedirla
<1>2. ~FolioEnUso(p, a.folio)
  BY DEF FolioEnUso, IInv, UnSoloNumero, Distintos, EsSuyo, EsSuNumero
<1>3. r \in {"YA_TENIA_ESE", "ASIGNADO"}
  BY <1>1, <1>2 DEF ResultadoDeGuardar
<1>4. QED
  BY <1>1, <1>3 DEF AceptaFolio, Guardado, Pedida

\* Writing a folio down leaves the old one or that one.
LEMMA GuardaFolioBien ==
    ASSUME TypeOK, NEW p \in Pedidos, NEW f \in Folios, NEW r, GuardaFolio(p, f, r)
    PROVE  /\ pedidos' \in [Pedidos -> Ordenes]
           /\ \A q \in Pedidos : \/ pedidos'[q].folio = pedidos[q].folio
                                 \/ q = p /\ pedidos'[q].folio = f
           /\ solicitudes' \in [Pedidos -> Solicitudes]
           /\ \A q \in Pedidos : Pedida(q) => solicitudes'[q].estado # "NINGUNA"
  BY DEF TypeOK, GuardaFolio, Ordenes, Solicitudes, EstadosSolicitud, Pedida

\* folios-ack leaves each order its folio or gives it its number.
LEMMA FoliosAckBien ==
    ASSUME IInv, NEW a, a \in FolioAcks, LlevaSuNumero(a), FoliosAck(a)
    PROVE  /\ pedidos' \in [Pedidos -> Ordenes]
           /\ \A q \in Pedidos : pedidos'[q].folio \in {pedidos[q].folio, Numero(q)}
           /\ solicitudes' \in [Pedidos -> Solicitudes]
           /\ \A q \in Pedidos : Pedida(q) => solicitudes'[q].estado # "NINGUNA"
<1>0. TypeOK /\ a.pedido \in Pedidos /\ a.folio \in Folios
  BY DEF IInv, FolioAcks
<1>1. ASSUME a.exito, NEW r, GuardaFolio(a.pedido, a.folio, r)
      PROVE  /\ pedidos' \in [Pedidos -> Ordenes]
             /\ \A q \in Pedidos : pedidos'[q].folio \in {pedidos[q].folio, Numero(q)}
             /\ solicitudes' \in [Pedidos -> Solicitudes]
             /\ \A q \in Pedidos : Pedida(q) => solicitudes'[q].estado # "NINGUNA"
  <2>1. a.folio = Numero(a.pedido)
    BY <1>1 DEF LlevaSuNumero, EsSuNumero
  <2>2. QED
    BY <1>0, <1>1, <2>1, GuardaFolioBien
<1>2. CASE UNCHANGED <<pedidos, solicitudes>>
  BY <1>0, <1>2 DEF TypeOK, Pedida
<1>3. CASE a.exito
  BY <1>1, <1>2, <1>3 DEF FoliosAck
<1>4. CASE ~a.exito
  <2>1. [estado |-> "PENDIENTE", espera |-> TRUE] \in Solicitudes
    BY DEF Solicitudes, EstadosSolicitud
  <2>2. CASE solicitudes' = [solicitudes EXCEPT ![a.pedido] =
                               [estado |-> "PENDIENTE", espera |-> TRUE]]
    BY <1>0, <1>4, <2>1, <2>2 DEF FoliosAck, TypeOK, Pedida
  <2>3. QED
    BY <1>2, <1>4, <2>2 DEF FoliosAck
<1>5. QED
  BY <1>3, <1>4

\* An agent that changes only the orders that its step has left.
LEMMA AgenteSigue ==
    ASSUME TypeOK, NEW q \in SUBSET Pedidos, NEW b \in BOOLEAN,
           \/ agente' = [agente EXCEPT !.quedan = q]
           \/ agente' = [agente EXCEPT !.quedan = q, !.errores = b]
    PROVE  /\ agente' \in Agentes /\ agente'.fase = agente.fase /\ agente'.quedan = q
           /\ agente'.folios = agente.folios /\ agente'.bajadas = agente.bajadas
           /\ agente'.acks = agente.acks
  BY DEF TypeOK, Agentes

\* A reservation that the cloud has is one still.
LEMMA FilaDeReserva ==
    ASSUME NEW r \in Reservas
    PROVE  LET x == [r EXCEPT !.estado = 1] IN
           x \in Reservas /\ x.folio = r.folio /\ x.estado = 1
  BY DEF Reservas

\* Confirming changes no number.
LEMMA ReservaConfirmada ==
    ASSUME IInv, NEW p \in Pedidos,
           \/ reservado' = reservado
           \/ reservado' = [reservado EXCEPT ![p].estado = 1]
           \/ reservado' = [reservado EXCEPT ![p].estado = @]
    PROVE  /\ reservado' \in [Pedidos -> Reservas]
           /\ \A q \in Pedidos :
                 reservado'[q].folio = reservado[q].folio /\ reservado'[q].estado # 2
<1>1. reservado \in [Pedidos -> Reservas]
  BY DEF IInv, TypeOK
<1>2. CASE reservado' = reservado
  BY <1>1, <1>2 DEF IInv, UnSoloNumero
<1>3. CASE reservado' = [reservado EXCEPT ![p].estado = 1]
  <2>1. PICK x \in Reservas : /\ reservado' = [reservado EXCEPT ![p] = x]
                              /\ x.folio = reservado[p].folio /\ x.estado = 1
    BY <1>1, <1>3, FilaDeReserva
  <2>2. QED
    BY <1>1, <2>1 DEF IInv, UnSoloNumero
<1>4. CASE reservado' = [reservado EXCEPT ![p].estado = @]
  <2>1. PICK x \in Reservas : /\ reservado' = [reservado EXCEPT ![p] = x]
                              /\ x.folio = reservado[p].folio /\ x.estado = reservado[p].estado
    BY <1>1, <1>4 DEF Reservas
  <2>2. QED
    BY <1>1, <2>1 DEF IInv, UnSoloNumero
<1>5. QED
  BY <1>2, <1>3, <1>4

\* The number written down is confirmed, and never refused.
LEMMA ConfirmaBien ==
    ASSUME IInv, NEW p \in Pedidos, Confirma(p)
    PROVE  IInv'
<1> DEFINE a == [pedido |-> p, exito |-> TRUE, folio |-> reservado[p].folio]
<1>0. TypeOK /\ p \in agente.quedan /\ FoliosAck(a)
  BY DEF IInv, Confirma
<1>1. /\ a \in FolioAcks /\ a.pedido = p /\ a.exito
      /\ EsSuNumero(p, a.folio) /\ LlevaSuNumero(a)
  <2>1. reservado[p].folio \in Folios
    BY <1>0 DEF TypeOK, Reservas
  <2>2. Numero(p) # SIN_FOLIO
    BY <1>0 DEF IInv, TrasPedirla, Confirma, Fase
  <2>3. QED
    BY <2>1, <2>2 DEF FolioAcks, EsSuNumero, LlevaSuNumero, Numero
<1> HIDE DEF a
<1>2. AceptaFolio(a)
  BY <1>1, SuNumeroSeAcepta
<1>3. \/ reservado' = reservado
      \/ reservado' = [reservado EXCEPT ![p].estado = 1]
  BY <1>2 DEF Confirma, a
<1>4. /\ reservado' \in [Pedidos -> Reservas]
      /\ \A q \in Pedidos : reservado'[q].folio = reservado[q].folio /\ reservado'[q].estado # 2
  BY <1>3, ReservaConfirmada
<1>5. PICK q \in SUBSET agente.quedan : agente' = [agente EXCEPT !.quedan = q]
  BY DEF Confirma
<1>6. /\ agente' \in Agentes /\ agente'.fase = agente.fase /\ agente'.quedan \subseteq agente.quedan
      /\ agente'.folios = agente.folios /\ agente'.bajadas = agente.bajadas
      /\ agente'.acks = agente.acks
  BY <1>0, <1>5, AgenteSigue DEF TypeOK, Agentes
<1>7. incidentes' \in 0..MAX_INCIDENTES
  BY <1>0, Presupuesto DEF Confirma, TypeOK
<1>8. /\ pedidos' \in [Pedidos -> Ordenes]
      /\ \A o \in Pedidos : pedidos'[o].folio \in {pedidos[o].folio, Numero(o)}
      /\ solicitudes' \in [Pedidos -> Solicitudes]
      /\ \A o \in Pedidos : Pedida(o) => solicitudes'[o].estado # "NINGUNA"
  BY <1>0, <1>1, FoliosAckBien
<1>9. UNCHANGED <<envios, tareas, hallazgos, erp, consecutivo, bandeja, entregado, salida, peticion,
                  referencias>>
  BY DEF Confirma
<1>10. TypeOK'
  BY <1>0, <1>4, <1>6, <1>7, <1>8, <1>9 DEF TypeOK
<1>11. QED
  <2>1. CopiasSiguen
    BY <1>4, <1>8, <1>9 DEF CopiasSiguen
  <2>2. LlevanLoSuyo /\ TrabajoPedido
    BY <1>6, <1>9 DEF LlevanLoSuyo, TrabajoPedido, IInv, EnCamino, TrasPedirla
  <2>3. QED
    BY <1>10, <2>1, <2>2, SinNumeroNuevo

\* The poll of the folios asked for.
LEMMA PollFoliosBien ==
    ASSUME IInv, PollFolios
    PROVE  IInv'
<1>0. TypeOK
  BY DEF IInv
<1>1. /\ solicitudes' \in [Pedidos -> Solicitudes]
      /\ \A p \in Pedidos : Pedida(p) => solicitudes'[p].estado # "NINGUNA"
  <2>1. [estado |-> "PROCESSING", espera |-> TRUE] \in Solicitudes
    BY DEF Solicitudes, EstadosSolicitud
  <2>2. QED
    BY <1>0, <2>1 DEF TypeOK, PollFolios, Pedida
<1>2. SolicitudesLibres \subseteq Pedidos /\ \A p \in SolicitudesLibres : Pedida(p)
  BY DEF SolicitudesLibres, Pedida
<1>3. /\ agente' \in Agentes /\ agente'.quedan \subseteq SolicitudesLibres
      /\ agente'.folios = {} /\ agente'.bajadas = {} /\ agente'.acks = {}
      /\ agente'.fase # "CONFIRMA"
  <2>1. CASE agente' = [Agente("RESERVA") EXCEPT !.quedan = SolicitudesLibres]
    BY <1>2, <2>1, AgenteNuevo DEF Fases
  <2>2. CASE PasaA("VACIA")
    BY <2>2, AgenteVacio DEF PasaA, Fases
  <2>3. QED
    BY <2>1, <2>2 DEF PollFolios
<1>4. incidentes' \in 0..MAX_INCIDENTES
  BY <1>0, Presupuesto DEF PollFolios, TypeOK
<1>5. QED
  BY <1>0, <1>1, <1>2, <1>3, <1>4, PasaCon DEF PollFolios, local, TypeOK, TrabajoPedido

\* A number of the order that was not there before: nothing carries another
\* one of it, and no other order has it.
LEMMA NumeroNuevo ==
    ASSUME IInv, TypeOK', NEW p \in Pedidos, Pedida(p), Numero(p) = SIN_FOLIO,
           consecutivo' = consecutivo + 1,
           UNCHANGED <<pedidos, solicitudes, envios, salida, peticion>>,
           reservado'[p].folio = consecutivo', reservado'[p].estado # 2,
           \A q \in Pedidos \ {p} : /\ reservado'[q] = reservado[q] /\ erp'[q] = erp[q]
                                   /\ entregado'[q] = entregado[q],
           erp'[p].existe => erp[p].existe \/ erp'[p].folio = consecutivo',
           entregado'[p] \in {entregado[p], consecutivo'},
           agente'.fase \notin {"CONFIRMA", "ARMA"},
           agente'.bajadas \subseteq agente.bajadas,
           agente'.fase = "RESERVA" => agente.fase = "RESERVA" /\ agente'.quedan \subseteq agente.quedan,
           \A a \in agente'.folios : a \in agente.folios \/
               (a.pedido = p /\ (a.exito => a.folio = consecutivo')),
           \A a \in agente'.acks : a \in agente.acks \/
               (a.pedido = p /\ (a.exito => a.folio = consecutivo'))
    PROVE  IInv'
<1> USE DEF IInv
<1>0. /\ consecutivo \in Nat /\ \A q \in Pedidos : Numero(q) \in Nat /\ Numero(q) <= consecutivo
      /\ Numero(p)' = consecutivo + 1 /\ consecutivo' # SIN_FOLIO
      /\ \A q \in Pedidos \ {p} : Numero(q)' = Numero(q)
  BY ColaErpAssumption DEF TypeOK, Folios, Reservas, Numero, Distintos, SIN_FOLIO
<1>1. Distintos'
  BY <1>0 DEF Distintos
<1>2. pedidos[p].folio = SIN_FOLIO /\ entregado[p] = SIN_FOLIO /\ ~erp[p].existe
  BY DEF UnSoloNumero, EsSuyo, EsSuNumero
<1>3. UnSoloNumero'
  <2>1. /\ EsSuyo(p, pedidos[p].folio)' /\ EsSuyo(p, entregado[p])'
        /\ (erp[p].existe => EsSuNumero(p, erp[p].folio))'
    BY <1>0, <1>2 DEF EsSuyo, EsSuNumero
  <2>2. \A q \in Pedidos \ {p} :
            /\ EsSuyo(q, pedidos[q].folio)' /\ EsSuyo(q, entregado[q])'
            /\ (erp[q].existe => EsSuNumero(q, erp[q].folio))'
    BY <1>0 DEF EsSuyo, EsSuNumero, UnSoloNumero
  <2>3. QED
    BY <2>1, <2>2 DEF UnSoloNumero
<1>4. EnCamino'
  <2>1. /\ \A a \in agente'.folios \cup agente'.acks : a.pedido \in Pedidos
        /\ \A b \in agente'.bajadas : b.pedido \in Pedidos
    BY DEF TypeOK, Agentes, FolioAcks, Acks, Bajadas
  <2>2. \A a : a.pedido \in Pedidos /\ LlevaSuNumero(a) => LlevaSuNumero(a)'
    BY <1>0 DEF LlevaSuNumero, EsSuNumero
  <2>3. \A b : b.pedido \in Pedidos /\ EsSuyo(b.pedido, b.folio) => EsSuyo(b.pedido, b.folio)'
    BY <1>0 DEF EsSuyo
  <2>4. \A a : a.pedido = p /\ (a.exito => a.folio = consecutivo') => LlevaSuNumero(a)'
    BY <1>0 DEF LlevaSuNumero, EsSuNumero
  <2>5. QED
    BY <2>1, <2>2, <2>3, <2>4, DePedidos DEF EnCamino
<1>5. TrasPedirla'
  <2>1. \A q \in Pedidos : Pedida(q)' = Pedida(q)
    BY DEF Pedida
  <2>2. /\ \A a \in agente'.acks : a.pedido \in Pedidos
        /\ \A b \in agente'.bajadas : b.pedido \in Pedidos
        /\ \A q \in agente'.quedan : q \in Pedidos
    BY DEF TypeOK, Agentes, Acks, Bajadas
  <2>3. /\ \A q \in Pedidos : Numero(q)' # SIN_FOLIO => Pedida(q)'
        /\ \A q \in Pedidos : envios'[q].estado # "NINGUNO" => Pedida(q)'
    BY <1>0, <2>1 DEF TrasPedirla
  <2>4. agente'.fase \in {"RESERVA", "ARMA"} => \A q \in agente'.quedan : Pedida(q)'
    BY <2>1, <2>2 DEF TrasPedirla
  <2>5. /\ \A b \in agente'.bajadas : Pedida(b.pedido)'
        /\ \A a \in (agente.acks \cup salida \cup peticion.quedan)' : Pedida(a.pedido)'
    BY <2>1, <2>2, DePedidos DEF TrasPedirla
  <2>6. QED
    BY <2>3, <2>4, <2>5 DEF TrasPedirla
<1>6. QED
  BY <1>1, <1>3, <1>4, <1>5

\* The next number.
LEMMA TomaBien ==
    ASSUME TypeOK, TomaConsecutivo
    PROVE  /\ consecutivo' \in Folios /\ consecutivo' = consecutivo + 1
           /\ Reservado(consecutivo') \in Reservas
<1>1. consecutivo' \in Folios /\ consecutivo' = consecutivo + 1
  BY ColaErpAssumption DEF TypeOK, TomaConsecutivo, Folios
<1>2. QED
  BY <1>1 DEF Reservado, Reservas

\* A number is reserved: the one written down, or the next one.
LEMMA ReservaBien ==
    ASSUME IInv, NEW p \in Pedidos, ReservaFolio(p)
    PROVE  IInv'
<1>0. TypeOK /\ Pedida(p) /\ agente.fase = "RESERVA" /\ p \in agente.quedan
  BY DEF IInv, ReservaFolio, Fase, TrasPedirla
<1>1. ASSUME NEW e \in BOOLEAN, NEW f \in Folios,
             agente' = [agente EXCEPT !.quedan = @ \ {p},
                           !.folios = @ \cup {[pedido |-> p, exito |-> e, folio |-> f]}]
      PROVE  /\ agente' \in Agentes /\ agente'.fase = "RESERVA"
             /\ agente'.quedan \subseteq agente.quedan
             /\ agente'.bajadas = agente.bajadas /\ agente'.acks = agente.acks
             /\ \A a \in agente'.folios : a \in agente.folios \/
                    (a.pedido = p /\ a.exito = e /\ a.folio = f)
  <2>1. PICK x \in FolioAcks :
           /\ x.pedido = p /\ x.exito = e /\ x.folio = f
           /\ agente' = [agente EXCEPT !.quedan = @ \ {p}, !.folios = @ \cup {x}]
    BY <1>1 DEF FolioAcks
  <2>2. QED
    BY <1>0, <2>1 DEF TypeOK, Agentes
<1>2. UNCHANGED <<nube, erp, bandeja, entregado, salida, peticion, referencias>>
  BY DEF ReservaFolio
<1>3. CASE /\ reservado[p].folio # SIN_FOLIO
           /\ agente' = [agente EXCEPT !.quedan = @ \ {p},
                !.folios = @ \cup {[pedido |-> p, exito |-> TRUE, folio |-> reservado[p].folio]}]
           /\ UNCHANGED <<consecutivo, reservado, incidentes>>
  <2>1. reservado[p].folio \in Folios
    BY <1>0 DEF TypeOK, Reservas
  <2>2. /\ agente' \in Agentes /\ agente'.fase = "RESERVA"
        /\ agente'.quedan \subseteq agente.quedan
        /\ agente'.bajadas = agente.bajadas /\ agente'.acks = agente.acks
        /\ \A a \in agente'.folios : a \in agente.folios \/ LlevaSuNumero(a)
    <3>1. PICK f \in Folios : f = reservado[p].folio /\ f # SIN_FOLIO
      BY <1>3, <2>1
    <3>2. agente' = [agente EXCEPT !.quedan = @ \ {p},
                        !.folios = @ \cup {[pedido |-> p, exito |-> TRUE, folio |-> f]}]
      BY <1>3, <3>1
    <3>3. /\ agente' \in Agentes /\ agente'.fase = "RESERVA"
          /\ agente'.quedan \subseteq agente.quedan
          /\ agente'.bajadas = agente.bajadas /\ agente'.acks = agente.acks
          /\ \A a \in agente'.folios : a \in agente.folios \/
                 (a.pedido = p /\ a.exito = TRUE /\ a.folio = f)
      BY <1>1, <3>2
    <3>4. \A a : a.pedido = p /\ a.folio = f => LlevaSuNumero(a)
      BY <3>1 DEF LlevaSuNumero, EsSuNumero, Numero
    <3> QED
      BY <3>3, <3>4
  <2>3. TypeOK'
    BY <1>0, <1>2, <1>3, <2>2 DEF TypeOK, nube
  <2>4. QED
    <3>1. LlevanLoSuyo /\ TrabajoPedido
      BY <1>0, <1>2, <2>2 DEF LlevanLoSuyo, TrabajoPedido, IInv, EnCamino, TrasPedirla
    <3>2. QED
      BY <1>2, <1>3, <2>3, <3>1, SoloElAgente DEF nube
<1>4. CASE /\ reservado[p].folio = SIN_FOLIO
           /\ TomaConsecutivo
           /\ reservado' = ReservaGuardada(p, consecutivo')
           /\ agente' = [agente EXCEPT !.quedan = @ \ {p},
                !.folios = @ \cup {[pedido |-> p, exito |-> TRUE, folio |-> consecutivo']}]
           /\ UNCHANGED incidentes
  <2>1. /\ consecutivo' \in Folios /\ consecutivo' = consecutivo + 1
        /\ reservado' = [reservado EXCEPT ![p] = Reservado(consecutivo')]
    BY <1>0, <1>4, TomaBien DEF ReservaGuardada
  <2>2. /\ reservado' \in [Pedidos -> Reservas]
        /\ reservado'[p].folio = consecutivo' /\ reservado'[p].estado # 2
        /\ \A q \in Pedidos \ {p} : reservado'[q] = reservado[q]
    BY <1>0, <1>4, <2>1, TomaBien DEF TypeOK, Reservado
  <2>3. /\ agente' \in Agentes /\ agente'.fase = "RESERVA"
        /\ agente'.quedan \subseteq agente.quedan
        /\ agente'.bajadas = agente.bajadas /\ agente'.acks = agente.acks
        /\ \A a \in agente'.folios : a \in agente.folios \/
               (a.pedido = p /\ a.exito = TRUE /\ a.folio = consecutivo')
    BY <1>1, <1>4, <2>1
  <2>4. TypeOK'
    BY <1>0, <1>2, <1>4, <2>1, <2>2, <2>3 DEF TypeOK, nube
  <2>5. Numero(p) = SIN_FOLIO
    BY <1>4 DEF Numero
  <2>6. QED
    BY <1>0, <1>2, <2>1, <2>2, <2>3, <2>4, <2>5, NumeroNuevo DEF nube
<1>5. CASE /\ Incidente("FALLA_RESERVA")
           /\ agente' = [agente EXCEPT !.quedan = @ \ {p},
                !.folios = @ \cup {[pedido |-> p, exito |-> FALSE, folio |-> SIN_FOLIO]}]
           /\ UNCHANGED <<consecutivo, reservado>>
  <2>1. SIN_FOLIO \in Folios
    BY ColaErpAssumption DEF Folios, SIN_FOLIO
  <2>2. /\ agente' \in Agentes /\ agente'.fase = "RESERVA"
        /\ agente'.quedan \subseteq agente.quedan
        /\ agente'.bajadas = agente.bajadas /\ agente'.acks = agente.acks
        /\ \A a \in agente'.folios : a \in agente.folios \/ LlevaSuNumero(a)
    BY <1>1, <1>5, <2>1 DEF LlevaSuNumero
  <2>3. TypeOK'
    BY <1>0, <1>2, <1>5, <2>2, Presupuesto DEF TypeOK, nube
  <2>4. QED
    <3>1. LlevanLoSuyo /\ TrabajoPedido
      BY <1>0, <1>2, <2>2 DEF LlevanLoSuyo, TrabajoPedido, IInv, EnCamino, TrasPedirla
    <3>2. QED
      BY <1>2, <1>5, <2>3, <3>1, SoloElAgente DEF nube
<1>6. QED
  BY <1>3, <1>4, <1>5 DEF ReservaFolio

\* A number is lost: nobody carries it.
LEMMA CaeTrasReservarBien ==
    ASSUME IInv, NEW p \in Pedidos, CaeTrasReservar(p)
    PROVE  IInv'
<1>0. TypeOK
  BY DEF IInv
<1>1. consecutivo' \in Folios /\ consecutivo' = consecutivo + 1
  BY <1>0, TomaBien DEF CaeTrasReservar
<1>2. /\ agente' \in Agentes /\ agente'.fase = "CAIDO"
      /\ agente'.folios = {} /\ agente'.bajadas = {} /\ agente'.acks = {}
  BY AgenteVacio DEF CaeTrasReservar, PasaA, Fases
<1>3. TypeOK'
  BY <1>0, <1>1, <1>2, Presupuesto DEF TypeOK, CaeTrasReservar, nube, local
<1>4. QED
  BY <1>1, <1>2, <1>3, ManosVacias, SoloElAgente DEF CaeTrasReservar, nube, local, TrabajoPedido

\* The batch of numbers is ready,
LEMMA TerminaDeReservarBien ==
    ASSUME IInv, TerminaDeReservar
    PROVE  IInv'
<1>0. TypeOK
  BY DEF IInv
<1>1. /\ agente' \in Agentes /\ agente'.fase = "AVISA_FOLIOS"
      /\ agente'.folios = agente.folios /\ agente'.bajadas = agente.bajadas
      /\ agente'.acks = agente.acks
  <2>1. {a.pedido : a \in agente.folios} \subseteq Pedidos
    BY <1>0, DePedidos
  <2>2. QED
    BY <1>0, <2>1 DEF TerminaDeReservar, TypeOK, Agentes, Fases
<1>2. TypeOK'
  BY <1>0, <1>1 DEF TypeOK, TerminaDeReservar, nube, local
<1>3. QED
  BY <1>1, <1>2, SoloElAgente
     DEF IInv, TerminaDeReservar, nube, local, EnCamino, LlevanLoSuyo, TrabajoPedido

\* each of its answers is handled,
LEMMA AvisaBien ==
    ASSUME IInv, NEW a \in agente.folios, AvisaFolio(a)
    PROVE  IInv'
<1>0. TypeOK /\ agente.fase = "AVISA_FOLIOS" /\ FoliosAck(a)
  BY DEF IInv, AvisaFolio, Fase
<1>1. a \in FolioAcks /\ LlevaSuNumero(a)
  BY <1>0 DEF TypeOK, Agentes, IInv, EnCamino
<1>2. /\ pedidos' \in [Pedidos -> Ordenes]
      /\ \A o \in Pedidos : pedidos'[o].folio \in {pedidos[o].folio, Numero(o)}
      /\ solicitudes' \in [Pedidos -> Solicitudes]
      /\ \A o \in Pedidos : Pedida(o) => solicitudes'[o].estado # "NINGUNA"
  BY <1>0, <1>1, FoliosAckBien
<1>3. PICK q \in SUBSET Pedidos, b \in BOOLEAN :
         agente' = [agente EXCEPT !.quedan = q, !.errores = b]
  <2>1. (agente.quedan \ {a.pedido}) \in SUBSET Pedidos
    BY <1>0 DEF TypeOK, Agentes
  <2>2. (agente.errores \/ ~AceptaFolio(a)) \in BOOLEAN
    OBVIOUS
  <2>3. QED
    BY <2>1, <2>2 DEF AvisaFolio
<1>4. /\ agente' \in Agentes /\ agente'.fase = agente.fase
      /\ agente'.folios = agente.folios /\ agente'.bajadas = agente.bajadas
      /\ agente'.acks = agente.acks
  BY <1>0, <1>3, AgenteSigue
<1>5. UNCHANGED <<envios, tareas, hallazgos, erp, consecutivo, bandeja, reservado, entregado, salida,
                  peticion, referencias, incidentes>>
  BY DEF AvisaFolio, local
<1>6. TypeOK'
  BY <1>0, <1>2, <1>4, <1>5 DEF TypeOK
<1>7. CopiasSiguen
  BY <1>2, <1>5 DEF CopiasSiguen, IInv, UnSoloNumero
<1>8. LlevanLoSuyo /\ TrabajoPedido
  BY <1>0, <1>4, <1>5 DEF LlevanLoSuyo, TrabajoPedido, IInv, EnCamino
<1>9. QED
  BY <1>6, <1>7, <1>8, SinNumeroNuevo

\* and the numbers are marked as confirmed.
LEMMA TerminaDeAvisarBien ==
    ASSUME IInv, TerminaDeAvisarFolios
    PROVE  IInv'
<1>0. TypeOK
  BY DEF IInv
<1>1. /\ reservado' \in [Pedidos -> Reservas]
      /\ \A q \in Pedidos : reservado'[q].folio = reservado[q].folio /\ reservado'[q].estado # 2
  <2>1. CASE reservado' = reservado
    BY <1>0, <2>1 DEF TypeOK, IInv, UnSoloNumero
  <2>2. CASE reservado' = Confirmados(agente.folios)
    BY <1>0, <2>2, FilaDeReserva DEF TypeOK, IInv, UnSoloNumero, Confirmados
  <2>3. QED
    BY <2>1, <2>2 DEF TerminaDeAvisarFolios
<1>2. /\ agente' \in Agentes /\ agente'.fase = "VACIA"
      /\ agente'.folios = {} /\ agente'.bajadas = {} /\ agente'.acks = {}
  BY AgenteVacio DEF TerminaDeAvisarFolios, PasaA, Fases
<1>3. TypeOK'
  BY <1>0, <1>1, <1>2, Presupuesto DEF TypeOK, TerminaDeAvisarFolios, nube
<1>4. CopiasSiguen
  BY <1>1 DEF CopiasSiguen, TerminaDeAvisarFolios, nube, Pedida
<1>5. QED
  BY <1>2, <1>3, <1>4, ManosVacias, SinNumeroNuevo DEF TerminaDeAvisarFolios, TrabajoPedido

-----------------------------------------------------------------------------
(* The acks.                                                               *)

\* The acks owed are sent.
LEMMA MandaBien ==
    ASSUME IInv, NEW f, NEW g \in Fases, NEW h \in Fases, MandaAcks(f, g, h),
           {g, h} \cap {"RESERVA", "ARMA", "CONFIRMA"} = {}
    PROVE  IInv'
<1>0. TypeOK
  BY DEF IInv
<1>1. /\ agente' \in Agentes /\ agente'.fase \in {g, h}
      /\ agente'.folios = {} /\ agente'.bajadas = {} /\ agente'.acks = {}
  <2>1. CASE agente' = Agente(g)
    BY <2>1, AgenteVacio
  <2>2. CASE agente' = Agente(h)
    BY <2>2, AgenteVacio
  <2>3. QED
    BY <2>1, <2>2 DEF MandaAcks, Envia, PasaA
<1>2. peticion' \in Peticiones /\ peticion'.quedan \subseteq salida /\ peticion'.leido = <<>>
  <2>1. CASE peticion' = [SinPeticion EXCEPT !.quedan = salida, !.enviados = salida]
    BY <1>0, <2>1 DEF TypeOK, Peticiones, SinPeticion
  <2>2. CASE peticion' = peticion /\ peticion = SinPeticion
    BY <1>0, <2>2 DEF TypeOK, SinPeticion
  <2>3. QED
    BY <2>1, <2>2 DEF MandaAcks, Envia
<1>3. UNCHANGED <<nube, erp, consecutivo, bandeja, local, referencias, incidentes>>
  BY DEF MandaAcks
<1>4. TypeOK'
  BY <1>0, <1>1, <1>2, <1>3 DEF TypeOK, nube, local
<1>5. LlevanLoSuyo /\ TrabajoPedido
  BY <1>1, <1>2, <1>3 DEF LlevanLoSuyo, TrabajoPedido, local
<1>6. QED
  BY <1>3, <1>4, <1>5, SoloElAgente DEF nube, local

\* The reads before the transaction of an ack.
LEMMA LeeAckBien ==
    ASSUME IInv, NEW a \in peticion.quedan, LeeAck(a)
    PROVE  IInv'
<1>0. TypeOK
  BY DEF IInv
<1>1. /\ peticion' \in Peticiones /\ peticion'.quedan = peticion.quedan
      /\ peticion'.leido[1].ack = a
  <2>1. PICK l \in Lecturas : l.ack = a /\ peticion' = [peticion EXCEPT !.leido = <<l>>]
    BY <1>0 DEF LeeAck, TypeOK, Peticiones, Lecturas, Acks
  <2>2. <<l>> \in [1..1 -> Lecturas] /\ <<l>>[1] = l
    OBVIOUS
  <2>3. QED
    BY <1>0, <2>1, <2>2 DEF TypeOK, Peticiones
<1>2. TypeOK'
  BY <1>0, <1>1 DEF LeeAck, TypeOK, nube, local
<1>3. LlevanLoSuyo /\ TrabajoPedido
  BY <1>1 DEF LlevanLoSuyo, TrabajoPedido, IInv, LeeAck, local, TrasPedirla
<1>4. QED
  BY <1>2, <1>3, SoloElAgente DEF LeeAck, nube, local

\* An ack that was handled leaves the request.
LEMMA AtiendeBien ==
    ASSUME TypeOK, NEW l, NEW e, Atiende(l, e)
    PROVE  /\ peticion' \in Peticiones /\ peticion'.quedan \subseteq peticion.quedan
           /\ peticion'.leido = <<>>
  BY DEF TypeOK, Atiende, Peticiones

\* Whatever the read said, the write of an ack leaves the folio of its order
\* or writes the number of the order down.
LEMMA AplicaAckBien ==
    ASSUME IInv, AplicaAck
    PROVE  IInv'
<1> DEFINE l == peticion.leido[1]
           a == l.ack
           p == a.pedido
<1>0. TypeOK
  BY DEF IInv
<1>1. /\ a \in peticion.quedan /\ LlevaSuNumero(a) /\ Pedida(p)
      /\ a \in Acks /\ p \in Pedidos /\ a.folio \in Folios
  <2>1. a \in peticion.quedan
    BY DEF IInv, EnCamino, AplicaAck
  <2>2. a \in Acks
    BY <1>0, <2>1 DEF TypeOK, Peticiones
  <2>3. QED
    BY <2>1, <2>2 DEF IInv, EnCamino, TrasPedirla, Acks
<1>2. AckDeCancelado(l) \/ AckSinEfecto(l) \/ AckExitoso(l) \/ AckFallido(l)
  BY DEF AplicaAck
<1>3. UNCHANGED <<hallazgos, erp, consecutivo, bandeja, local, agente, referencias, incidentes>>
  BY DEF AplicaAck
<1> HIDE DEF l
<1>4. \E e : Atiende(l, e)
  BY <1>2 DEF AckDeCancelado, AckSinEfecto, AckExitoso, AckFallido
<1>5. /\ peticion' \in Peticiones /\ peticion'.quedan \subseteq peticion.quedan
      /\ peticion'.leido = <<>>
  BY <1>0, <1>4, AtiendeBien
<1>6. \/ UNCHANGED <<pedidos, solicitudes>>
      \/ a.exito /\ GuardaFolio(p, a.folio, ResultadoDeGuardar(p, l.pedido.folio, a.folio, TRUE))
  BY <1>2 DEF AckDeCancelado, AckSinEfecto, AckExitoso, AckFallido
<1>7. /\ pedidos' \in [Pedidos -> Ordenes]
      /\ \A q \in Pedidos : pedidos'[q].folio \in {pedidos[q].folio, Numero(q)}
      /\ solicitudes' \in [Pedidos -> Solicitudes]
      /\ \A q \in Pedidos : Pedida(q) => solicitudes'[q].estado # "NINGUNA"
  <2>1. CASE UNCHANGED <<pedidos, solicitudes>>
    BY <1>0, <2>1 DEF TypeOK, Pedida
  <2>2. ASSUME a.exito, NEW r, GuardaFolio(p, a.folio, r)
        PROVE  <1>7!1 /\ <1>7!2 /\ <1>7!3 /\ <1>7!4
    <3>1. a.folio = Numero(p)
      BY <1>1, <2>2 DEF LlevaSuNumero, EsSuNumero
    <3>2. QED
      BY <1>0, <1>1, <2>2, <3>1, GuardaFolioBien
  <2>3. QED
    BY <1>6, <2>1, <2>2
<1>8. /\ envios' \in [Pedidos -> Envios]
      /\ \A q \in Pedidos \ {p} : envios'[q] = envios[q]
  <2>1. envios[p] \in Envios
    BY <1>0, <1>1 DEF TypeOK
  <2>2. /\ [envios[p] EXCEPT !.estado = "PROCESADO", !.espera = FALSE, !.token = SIN_TOKEN] \in Envios
        /\ [estado |-> "RETRY", espera |-> TRUE, token |-> SIN_TOKEN,
            intentos |-> envios[p].intentos + 1] \in Envios
    <3>1. envios[p].intentos + 1 \in Nat
      BY <2>1 DEF Envios
    <3>2. [estado |-> "RETRY", espera |-> TRUE, token |-> SIN_TOKEN,
           intentos |-> envios[p].intentos + 1] \in Envios
      BY <3>1, SinTokenEsToken DEF Envios, EstadosEnvio
    <3>3. "PROCESADO" \in EstadosEnvio /\ FALSE \in BOOLEAN
      BY DEF EstadosEnvio
    <3>4. QED
      BY <2>1, <3>2, <3>3, FilaDelEnvio, SinTokenEsToken
  <2>3. \/ envios' = envios
        \/ envios' = EnvioRetirado(p)
        \/ \E m \in Envios : envios' = [envios EXCEPT ![p] = m]
    BY <1>2, <2>2 DEF AckDeCancelado, AckSinEfecto, AckExitoso, AckFallido
  <2>4. QED
    BY <1>0, <1>1, <2>3, RetiraEnvio DEF TypeOK
<1>9. tareas' \in [Pedidos -> SUBSET TiposTarea]
  <2>1. tareas' = tareas \/ tareas' = [tareas EXCEPT ![p] = @ \cup {"CANCELAR_EN_ERP"}]
    BY <1>2 DEF AckDeCancelado, AckSinEfecto, AckExitoso, AckFallido, AbreTarea
  <2>2. QED
    BY <1>0, <1>1, <2>1 DEF TypeOK, TiposTarea
<1>10. TypeOK'
  BY <1>0, <1>3, <1>5, <1>7, <1>8, <1>9 DEF TypeOK, local
<1>11. CopiasSiguen
  BY <1>1, <1>3, <1>7, <1>8 DEF CopiasSiguen, IInv, UnSoloNumero, local
<1>12. LlevanLoSuyo /\ TrabajoPedido
  BY <1>3, <1>5 DEF LlevanLoSuyo, TrabajoPedido, IInv, TrasPedirla, local
<1>13. QED
  BY <1>10, <1>11, <1>12, SinNumeroNuevo

\* The answer to the acks, heard or not.
LEMMA RespuestaBien ==
    ASSUME IInv,
           \/ RecibeRespuesta("VACIANDO", "PIDE_PEDIDOS")
           \/ RecibeRespuesta("RECONOCIENDO", "CONCILIA")
           \/ RespuestaSinDestino
    PROVE  IInv'
<1>0. TypeOK
  BY DEF IInv
<1>1. /\ peticion' \in Peticiones /\ peticion'.quedan = {} /\ peticion'.leido = <<>>
  <2>1. peticion' = SinPeticion
    BY DEF RecibeRespuesta, RespuestaSinDestino
  <2>2. QED
    BY <2>1 DEF SinPeticion, Peticiones
<1>2. salida' \subseteq salida
  BY DEF RecibeRespuesta, RespuestaSinDestino, local
<1>3. \/ agente' = agente
      \/ /\ agente' \in Agentes /\ agente'.fase \in {"PIDE_PEDIDOS", "CONCILIA"}
         /\ agente'.folios = {} /\ agente'.bajadas = {} /\ agente'.acks = {}
  <2>1. "PIDE_PEDIDOS" \in Fases /\ "CONCILIA" \in Fases
    BY DEF Fases
  <2>2. CASE agente' = Agente("PIDE_PEDIDOS")
    BY <2>1, <2>2, AgenteVacio
  <2>3. CASE agente' = Agente("CONCILIA")
    BY <2>1, <2>3, AgenteVacio
  <2>4. QED
    BY <2>2, <2>3 DEF RecibeRespuesta, RespuestaSinDestino, PasaA
<1>4. incidentes' \in 0..MAX_INCIDENTES
  BY <1>0, Presupuesto DEF RecibeRespuesta, RespuestaSinDestino, TypeOK
<1>5. UNCHANGED <<nube, erp, consecutivo, bandeja, reservado, entregado, referencias>>
  BY DEF RecibeRespuesta, RespuestaSinDestino, local
<1>6. TypeOK'
  BY <1>0, <1>1, <1>2, <1>3, <1>4, <1>5 DEF TypeOK, nube
<1>7. LlevanLoSuyo
  BY <1>1, <1>2, <1>3 DEF LlevanLoSuyo
<1>8. TrabajoPedido
  BY <1>3 DEF TrabajoPedido, IInv, TrasPedirla
<1>9. QED
  BY <1>5, <1>6, <1>7, <1>8, SoloElAgente DEF nube

-----------------------------------------------------------------------------
(* Orders, from the cloud to the ERP.                                      *)

\* Orders are claimed with a token.
LEMMA PollPedidosBien ==
    ASSUME IInv, PollPedidos
    PROVE  IInv'
<1>0. TypeOK
  BY DEF IInv
<1>1. TokenNuevo \in Tokens
  <2>1. \E t \in 1..MAX_TOKENS : t \notin TokensVivos
    BY DEF PollPedidos
  <2>2. TokenNuevo \in 1..MAX_TOKENS
    BY <2>1 DEF TokenNuevo
  <2>3. QED
    BY <2>2, ColaErpAssumption DEF Tokens
<1>2. envios' \in [Pedidos -> Envios]
  <2>1. \A p \in Pedidos : [envios[p] EXCEPT !.estado = "PROCESSING", !.espera = TRUE,
                                           !.token = TokenNuevo] \in Envios
    <3>1. "PROCESSING" \in EstadosEnvio /\ TRUE \in BOOLEAN
      BY DEF EstadosEnvio
    <3>2. \A p \in Pedidos : envios[p] \in Envios
      BY <1>0 DEF TypeOK
    <3>3. QED
      BY <1>1, <3>1, <3>2, FilaDelEnvio
  <2>2. QED
    BY <1>0, <2>1 DEF PollPedidos, TypeOK
<1>3. \A p \in Pedidos : envios'[p].estado # "NINGUNO" => envios[p].estado # "NINGUNO"
  BY DEF PollPedidos, EnviosLibres
<1>4. /\ agente' \in Agentes /\ agente'.quedan = EnviosLibres /\ agente'.fase = "ARMA"
      /\ agente'.folios = {} /\ agente'.bajadas = {} /\ agente'.acks = {}
  <2>1. "ARMA" \in Fases /\ EnviosLibres \in SUBSET Pedidos
    BY DEF Fases, EnviosLibres
  <2>2. agente' = [Agente("ARMA") EXCEPT !.quedan = EnviosLibres]
    BY DEF PollPedidos
  <2>3. QED
    BY <2>1, <2>2, AgenteNuevo
<1>5. TrabajoPedido
  BY <1>4 DEF TrabajoPedido, EnviosLibres, IInv, TrasPedirla
<1>6. QED
  BY <1>0, <1>2, <1>3, <1>4, <1>5, PasaCon DEF PollPedidos, local, TypeOK, Pedida

\* What is sent of each order carries its number, or none.
LEMMA ArmaBien ==
    ASSUME IInv, ArmaPedidos
    PROVE  IInv'
<1>0. TypeOK /\ agente.fase = "ARMA" /\ agente.quedan \subseteq Pedidos
  BY DEF IInv, ArmaPedidos, Fase, TypeOK, Agentes
<1>1. envios' \in [Pedidos -> Envios]
  <2>1. \A p \in Pedidos : EnvioRetirado(p)[p] \in Envios
    BY <1>0, RetiraEnvio
  <2>2. ASSUME NEW p \in Pedidos PROVE SinReferencia(envios[p]) \in Envios
    <3>1. "ERROR" \in EstadosEnvio /\ "RETRY" \in EstadosEnvio /\ envios[p] \in Envios
      BY <1>0 DEF EstadosEnvio, TypeOK
    <3>2. QED
      BY <3>1, FilaDelEnvio, SinTokenEsToken DEF SinReferencia
  <2>3. QED
    BY <1>0, <2>1, <2>2 DEF ArmaPedidos, TypeOK
<1>2. \A p \in Pedidos : envios'[p].estado # "NINGUNO" => envios[p].estado # "NINGUNO"
  BY DEF ArmaPedidos
<1>3. /\ agente' \in Agentes /\ agente'.fase \in {"GRABA", "RECONOCE"}
      /\ agente'.folios = {} /\ agente'.acks = {}
      /\ \A b \in agente'.bajadas : b.pedido \in agente.quedan /\ b.folio = pedidos[b.pedido].folio
  <2>1. "GRABA" \in Fases /\ "RECONOCE" \in Fases
    BY DEF Fases
  <2>2. CASE PasaA("RECONOCE")
    BY <2>1, <2>2, AgenteVacio DEF PasaA
  <2> DEFINE q == {o \in agente.quedan : SeBaja(o)}
  <2>3. CASE agente' = [Agente("GRABA") EXCEPT !.bajadas =
                 {[pedido |-> p, token |-> envios[p].token, folio |-> pedidos[p].folio] : p \in q}]
    <3>1. \A p \in q : envios[p].token \in Tokens /\ pedidos[p].folio \in Folios /\ p \in Pedidos
      BY <1>0 DEF TypeOK, Envios, Ordenes
    <3> DEFINE x == {[pedido |-> p, token |-> envios[p].token, folio |-> pedidos[p].folio] : p \in q}
    <3>2. /\ agente' = [Agente("GRABA") EXCEPT !.bajadas = x]
          /\ x \in SUBSET Bajadas
          /\ \A b \in x : b.pedido \in q /\ b.folio = pedidos[b.pedido].folio
      BY <2>3, <3>1 DEF Bajadas
    <3> HIDE DEF x
    <3>3. Agente("GRABA") \in Agentes
      BY <2>1, AgenteVacio
    <3>4. agente' \in Agentes /\ agente'.bajadas = x /\ agente'.fase = Agente("GRABA").fase
          /\ agente'.folios = Agente("GRABA").folios /\ agente'.acks = Agente("GRABA").acks
      BY <3>2, <3>3 DEF Agentes
    <3>5. agente'.fase = "GRABA" /\ agente'.folios = {} /\ agente'.acks = {}
      BY <2>1, <3>4, AgenteVacio
    <3>6. QED
      BY <3>2, <3>4, <3>5
  <2>4. QED
    BY <2>2, <2>3 DEF ArmaPedidos
<1>4. TypeOK'
  BY <1>0, <1>1, <1>3, Presupuesto DEF TypeOK, ArmaPedidos, local
<1>5. CopiasSiguen
  BY <1>2 DEF CopiasSiguen, ArmaPedidos, local, IInv, UnSoloNumero, Pedida
<1>6. LlevanLoSuyo /\ TrabajoPedido
  BY <1>0, <1>3 DEF LlevanLoSuyo, TrabajoPedido, ArmaPedidos, local, IInv, EnCamino, TrasPedirla,
     UnSoloNumero
<1>7. QED
  BY <1>4, <1>5, <1>6, SinNumeroNuevo

\* An agent that answers one order.
LEMMA RespondeBien ==
    ASSUME TypeOK, NEW b \in agente.bajadas, NEW e \in BOOLEAN, NEW f \in Folios,
           Responde(b, e, f)
    PROVE  /\ agente' \in Agentes /\ agente'.fase = agente.fase /\ agente'.quedan = agente.quedan
           /\ agente'.folios = agente.folios /\ agente'.bajadas \subseteq agente.bajadas
           /\ \A a \in agente'.acks : a \in agente.acks \/
                  (a.pedido = b.pedido /\ a.exito = e /\ a.folio = f)
<1>1. b.pedido \in Pedidos /\ b.token \in Tokens
  BY DEF TypeOK, Agentes, Bajadas
<1>2. PICK x \in Acks :
         /\ x.pedido = b.pedido /\ x.exito = e /\ x.folio = f
         /\ agente' = [agente EXCEPT !.bajadas = @ \ {b}, !.acks = @ \cup {x}]
  BY <1>1 DEF Responde, Acks
<1>3. QED
  BY <1>2 DEF TypeOK, Agentes

\* The row of the ERP when its folio is written.
LEMMA GrabadoBien ==
    ASSUME TypeOK, NEW p \in Pedidos, NEW f \in Folios
    PROVE  /\ Grabado(p, f) \in [Pedidos -> EstadosErp]
           /\ Grabado(p, f)[p].existe /\ Grabado(p, f)[p].folio = f
           /\ \A q \in Pedidos \ {p} : Grabado(p, f)[q] = erp[q]
<1>1. [erp[p] EXCEPT !.existe = TRUE, !.folio = f] \in EstadosErp
  BY DEF TypeOK, EstadosErp
<1>2. /\ [erp[p] EXCEPT !.existe = TRUE, !.folio = f].existe
      /\ [erp[p] EXCEPT !.existe = TRUE, !.folio = f].folio = f
  BY DEF TypeOK, EstadosErp
<1>3. QED
  BY <1>1, <1>2 DEF TypeOK, Grabado

\* What the three ways in which the write of one order ends may leave.
EscrituraDe(b, f) ==
    LET p == b.pedido IN
    /\ erp' \in [Pedidos -> EstadosErp]
    /\ \A q \in Pedidos \ {p} : erp'[q] = erp[q] /\ entregado'[q] = entregado[q]
    /\ erp'[p] = erp[p] \/ (erp'[p].existe /\ erp'[p].folio = f)
    /\ entregado' \in [Pedidos -> Folios] /\ entregado'[p] \in {entregado[p], f}
    /\ incidentes' \in 0..MAX_INCIDENTES
    /\ agente' \in Agentes /\ agente'.fase \in {"GRABA", "CAIDO"}
    /\ agente'.folios \subseteq agente.folios /\ agente'.bajadas \subseteq agente.bajadas
    /\ \A a \in agente'.acks : a \in agente.acks \/
           (a.pedido = p /\ (a.exito => a.folio = f))

\* So they do.
LEMMA EscrituraBien ==
    ASSUME IInv, NEW b \in agente.bajadas, NEW f \in Folios,
           Fase("GRABA"), Graba(b, f) \/ FallaAlGrabar(b, f) \/ CaeTrasGrabar(b, f)
    PROVE  EscrituraDe(b, f)
<1> DEFINE p == b.pedido
<1> USE DEF EscrituraDe
<1>0. TypeOK /\ p \in Pedidos /\ SIN_FOLIO \in Folios
  BY DePedidos, ColaErpAssumption DEF IInv, Folios, SIN_FOLIO
<1>1. /\ erp' \in [Pedidos -> EstadosErp]
      /\ \A q \in Pedidos \ {p} : erp'[q] = erp[q]
      /\ erp'[p] = erp[p] \/ (erp'[p].existe /\ erp'[p].folio = f)
  <2>1. erp' = erp \/ erp' = Grabado(p, f)
    BY DEF Graba, FallaAlGrabar, CaeTrasGrabar
  <2>2. QED
    BY <1>0, <2>1, GrabadoBien DEF TypeOK
<1>2. /\ entregado' \in [Pedidos -> Folios] /\ entregado'[p] \in {entregado[p], f}
      /\ \A q \in Pedidos \ {p} : entregado'[q] = entregado[q]
  <2>1. entregado' = entregado \/ entregado' = [entregado EXCEPT ![p] = f]
    BY DEF Graba, FallaAlGrabar, CaeTrasGrabar
  <2>2. QED
    BY <1>0, <2>1 DEF TypeOK
<1>3. incidentes' \in 0..MAX_INCIDENTES
  BY <1>0, Presupuesto DEF Graba, FallaAlGrabar, CaeTrasGrabar, TypeOK
<1>4. CASE Responde(b, TRUE, f)
  BY <1>0, <1>1, <1>2, <1>3, <1>4, RespondeBien DEF Fase
<1>5. CASE Responde(b, FALSE, SIN_FOLIO)
  BY <1>0, <1>1, <1>2, <1>3, <1>5, RespondeBien DEF Fase
<1>6. CASE PasaA("CAIDO")
  <2>1. "CAIDO" \in Fases
    BY DEF Fases
  <2>2. QED
    BY <1>0, <1>1, <1>2, <1>3, <1>6, <2>1, AgenteVacio DEF PasaA
<1>7. QED
  BY <1>4, <1>5, <1>6 DEF Graba, FallaAlGrabar, CaeTrasGrabar

\* GRABAR_PEDIDOS.  An order already written, or with a number in the cloud or
\* in the SQLite, gets that number; only one without any takes the next.
LEMMA GrabaBien ==
    ASSUME IInv, NEW b \in agente.bajadas, GrabaPedido(b)
    PROVE  IInv'
<1> DEFINE p == b.pedido
           f == FolioVigente(b)
<1>0. TypeOK /\ Fase("GRABA") /\ p \in Pedidos /\ Pedida(p) /\ SIN_FOLIO \in Folios
  BY DePedidos, ColaErpAssumption DEF IInv, TrasPedirla, GrabaPedido, Folios, SIN_FOLIO
<1>1. f \in {SIN_FOLIO, Numero(p)} /\ (f = SIN_FOLIO => Numero(p) = SIN_FOLIO)
  BY <1>0 DEF FolioVigente, IInv, UnSoloNumero, EnCamino, EsSuyo, Numero
<1>2. UNCHANGED <<nube, bandeja, salida, peticion, referencias>>
  BY DEF GrabaPedido
<1> HIDE DEF f
<1>3. CASE /\ f # SIN_FOLIO /\ consecutivo' = consecutivo
           /\ Graba(b, f) \/ FallaAlGrabar(b, f) \/ CaeTrasGrabar(b, f)
           /\ \/ reservado' = reservado
              \/ reservado' = [reservado EXCEPT ![p].estado = 1]
              \/ reservado' = [reservado EXCEPT ![p].estado = @]
  <2>1. f = Numero(p) /\ f \in Folios
    BY <1>0, <1>1, <1>3 DEF TypeOK, Reservas, Numero
  <2>2. /\ reservado' \in [Pedidos -> Reservas]
        /\ \A q \in Pedidos : reservado'[q].folio = reservado[q].folio /\ reservado'[q].estado # 2
    BY <1>0, <1>3, ReservaConfirmada
  <2>3. EscrituraDe(b, f)
    BY <1>0, <1>3, <2>1, EscrituraBien
  <2>4. TypeOK'
    BY <1>0, <1>2, <1>3, <2>2, <2>3 DEF TypeOK, nube, EscrituraDe
  <2>5. CopiasSiguen
    BY <1>0, <1>2, <1>3, <2>1, <2>2, <2>3 DEF CopiasSiguen, nube, EscrituraDe, EsSuNumero, Pedida
  <2>6. LlevanLoSuyo /\ TrabajoPedido
    BY <1>0, <1>2, <1>3, <2>1, <2>3
       DEF LlevanLoSuyo, TrabajoPedido, EscrituraDe, LlevaSuNumero, EsSuNumero, IInv, EnCamino
  <2>7. QED
    BY <2>4, <2>5, <2>6, SinNumeroNuevo
<1>4. CASE /\ f = SIN_FOLIO /\ TomaConsecutivo
           /\ \/ Graba(b, consecutivo') \/ FallaAlGrabar(b, consecutivo')
              \/ CaeTrasGrabar(b, consecutivo')
           /\ \/ reservado' = [reservado EXCEPT ![p] =
                                [folio |-> consecutivo', estado |-> 1, intentos |-> 0]]
              \/ reservado' = ReservaGuardada(p, consecutivo')
  <2>1. /\ consecutivo' \in Folios /\ consecutivo' = consecutivo + 1
        /\ Numero(p) = SIN_FOLIO
    BY <1>0, <1>1, <1>4, TomaBien
  <2>2. /\ reservado' \in [Pedidos -> Reservas]
        /\ reservado'[p].folio = consecutivo' /\ reservado'[p].estado # 2
        /\ \A q \in Pedidos \ {p} : reservado'[q] = reservado[q]
    <3>1. PICK x \in Reservas : /\ reservado' = [reservado EXCEPT ![p] = x]
                                /\ x.folio = consecutivo' /\ x.estado # 2
      BY <1>4, <2>1 DEF ReservaGuardada, Reservado, Reservas, Numero
    <3>2. QED
      BY <1>0, <3>1 DEF TypeOK
  <2>3. EscrituraDe(b, consecutivo')
    BY <1>0, <1>4, <2>1, EscrituraBien
  <2>4. TypeOK'
    BY <1>0, <1>2, <2>1, <2>2, <2>3 DEF TypeOK, nube, EscrituraDe
  <2>5. QED
    BY <1>0, <1>2, <2>1, <2>2, <2>3, <2>4, NumeroNuevo DEF nube, EscrituraDe
<1>5. QED
  BY <1>3, <1>4 DEF GrabaPedido, f

\* The acks are written to the SQLite.
LEMMA EncolaBien ==
    ASSUME IInv, EncolaAcks
    PROVE  IInv'
<1>0. TypeOK
  BY DEF IInv
<1>1. /\ agente' \in Agentes /\ agente'.fase = "RECONOCE"
      /\ agente'.folios = {} /\ agente'.bajadas = {} /\ agente'.acks = {}
  BY AgenteVacio DEF EncolaAcks, PasaA, Fases
<1>2. TypeOK'
  BY <1>0, <1>1 DEF TypeOK, Agentes, EncolaAcks, nube
<1>3. LlevanLoSuyo /\ TrabajoPedido
  BY <1>1 DEF LlevanLoSuyo, TrabajoPedido, EncolaAcks, IInv, EnCamino
<1>4. QED
  BY <1>2, <1>3, SoloElAgente DEF EncolaAcks, nube

-----------------------------------------------------------------------------
(* The comparison, and the steps that only go on.                          *)

\* What the comparison reads.
LEMMA LeeErpBien ==
    ASSUME IInv, LeeErp
    PROVE  IInv'
<1>0. TypeOK
  BY DEF IInv
<1>1. /\ agente' \in Agentes /\ agente'.fase = "APLICA"
      /\ agente'.folios = {} /\ agente'.bajadas = {} /\ agente'.acks = {}
  <2>1. "APLICA" \in Fases /\ PorConciliar \in SUBSET Pedidos
    BY DEF Fases, PorConciliar
  <2> DEFINE e == [p \in Pedidos |-> IF p \in PorConciliar THEN erp[p] ELSE SinErp]
  <2>2. e \in [Pedidos -> EstadosErp]
    <3>1. SinErp \in EstadosErp
      BY ColaErpAssumption DEF SinErp, EstadosErp, Folios, SIN_FOLIO
    <3>2. QED
      BY <1>0, <3>1 DEF TypeOK
  <2> HIDE DEF e
  <2>3. agente' = [Agente("APLICA") EXCEPT !.quedan = PorConciliar, !.erp = e]
    BY DEF LeeErp, e
  <2> DEFINE g == Agente("APLICA")
  <2>4. g \in Agentes /\ g.fase = "APLICA" /\ g.folios = {} /\ g.bajadas = {} /\ g.acks = {}
    BY <2>1, AgenteVacio
  <2> HIDE DEF g
  <2>5. QED
    BY <2>1, <2>2, <2>3, <2>4 DEF Agentes, g
<1>2. TypeOK'
  BY <1>0, <1>1 DEF TypeOK, LeeErp, nube, local
<1>3. TrabajoPedido
  BY <1>1 DEF TrabajoPedido
<1>4. QED
  BY <1>1, <1>2, <1>3, ManosVacias, SoloElAgente DEF LeeErp, nube, local

\* What it repairs.
LEMMA ConciliaBien ==
    ASSUME IInv, NEW p \in Pedidos, Concilia(p)
    PROVE  IInv'
<1> DEFINE v == Veredicto(agente.erp[p], pedidos[p].estado, tareas[p])
           cancela == v.aplicar = "CANCELACION"
           cobra   == v.aplicar = "COBRO"
<1>0. TypeOK
  BY DEF IInv
<1>1. Procesar(p, cancela, cobra, v.cerrar)
  BY DEF Concilia
<1>2. /\ pedidos' \in [Pedidos -> Ordenes]
      /\ \A q \in Pedidos : pedidos'[q].folio = pedidos[q].folio
      /\ tareas' \in [Pedidos -> SUBSET TiposTarea]
  <2>1. cancela \in BOOLEAN /\ cobra \in BOOLEAN
    OBVIOUS
  <2> HIDE DEF v, cancela, cobra
  <2>2. QED
    BY <1>0, <1>1, <2>1, ProcesarBien
<1>3. hallazgos' \in [Pedidos -> SUBSET TiposHallazgo]
  <2>1. v.hallazgos \subseteq TiposHallazgo
    BY DEF Veredicto, TiposHallazgo
  <2> HIDE DEF v
  <2>2. PICK h \in SUBSET TiposHallazgo : hallazgos' = [hallazgos EXCEPT ![p] = h]
    BY <2>1 DEF Concilia, Registra, v, TiposHallazgo
  <2>3. QED
    BY <1>0, <2>2 DEF TypeOK
<1>4. /\ agente' \in Agentes /\ agente'.fase = "APLICA"
      /\ agente'.folios = agente.folios /\ agente'.bajadas = agente.bajadas
      /\ agente'.acks = agente.acks
  BY <1>0, AgenteSigue DEF Concilia, Fase, TypeOK, Agentes
<1>5. UNCHANGED <<solicitudes, envios, erp, consecutivo, bandeja, reservado, entregado, salida,
                  peticion, referencias, incidentes>>
  BY DEF Concilia, local
<1>6. TypeOK'
  BY <1>0, <1>2, <1>3, <1>4, <1>5 DEF TypeOK
<1>7. CopiasSiguen
  BY <1>2, <1>5 DEF CopiasSiguen, IInv, UnSoloNumero, Pedida
<1>8. LlevanLoSuyo /\ TrabajoPedido
  BY <1>4, <1>5 DEF LlevanLoSuyo, TrabajoPedido, IInv, EnCamino
<1>9. QED
  BY <1>6, <1>7, <1>8, SinNumeroNuevo

\* The numbers not confirmed yet are tried again.
LEMMA TerminaDeSubirBien ==
    ASSUME IInv, TerminaDeSubir
    PROVE  IInv'
<1>1. /\ agente' \in Agentes /\ agente'.fase = "CONFIRMA" /\ agente'.quedan = SinConfirmar
      /\ agente'.folios = {} /\ agente'.bajadas = {} /\ agente'.acks = {}
  <2>1. "CONFIRMA" \in Fases /\ SinConfirmar \in SUBSET Pedidos
    BY DEF Fases, SinConfirmar
  <2>2. QED
    BY <2>1, AgenteNuevo DEF TerminaDeSubir
<1>2. TrabajoPedido
  BY <1>1 DEF TrabajoPedido, SinConfirmar, Numero
<1>3. QED
  BY <1>1, <1>2, PasaCon DEF TerminaDeSubir, nube, local, IInv, TypeOK, Pedida

\* The steps that only go on, a cloud that is not there, and a crash.
LEMMA PasosBien ==
    ASSUME IInv,
           \/ TerminaDeConfirmar \/ NoConcilia \/ TerminaDeConciliar
           \/ PeticionPerdida \/ Cae \/ Arranca
    PROVE  IInv'
<1>1. \E f \in Fases : PasaA(f)
  BY DEF TerminaDeConfirmar, NoConcilia, TerminaDeConciliar, PeticionPerdida, Cae, Arranca,
         Alternativa, Fases
<1>2. UNCHANGED <<nube, erp, consecutivo, bandeja, local, peticion, referencias>>
  BY DEF TerminaDeConfirmar, NoConcilia, TerminaDeConciliar, PeticionPerdida, Cae, Arranca
<1>3. incidentes' \in 0..MAX_INCIDENTES
  BY Presupuesto DEF TerminaDeConfirmar, NoConcilia, TerminaDeConciliar, PeticionPerdida, Cae,
     Arranca, IInv, TypeOK
<1>4. QED
  BY <1>1, <1>2, <1>3, SoloPasa

-----------------------------------------------------------------------------
(* The theorems.                                                           *)

\* Every step preserves the invariant.
LEMMA PasoBien == IInv /\ [Next]_vars => IInv'
<1> SUFFICES ASSUME IInv, [Next]_vars PROVE IInv'
  OBVIOUS
<1>1. CASE Gente
  BY <1>1, PersonalBien, ErpBien, TiempoBien DEF Gente
<1>2. CASE Tiempo
  BY <1>2, TiempoBien DEF Tiempo
<1>3. CASE Vuelta
  <2>1. ASSUME NEW p \in Pedidos,
               \/ SubeAviso(p) \/ Confirma(p) \/ ReservaFolio(p) \/ CaeTrasReservar(p)
               \/ Concilia(p)
        PROVE  IInv'
    BY <2>1, SubeBien, ConfirmaBien, ReservaBien, CaeTrasReservarBien, ConciliaBien
  <2>2. ASSUME NEW a \in agente.folios, AvisaFolio(a) PROVE IInv'
    BY <2>2, AvisaBien
  <2>3. ASSUME NEW b \in agente.bajadas, GrabaPedido(b) PROVE IInv'
    BY <2>3, GrabaBien
  <2>4. ASSUME NEW a \in peticion.quedan, LeeAck(a) PROVE IInv'
    BY <2>4, LeeAckBien
  <2>5. CASE \/ MandaAcks("VACIA", "VACIANDO", "PIDE_PEDIDOS")
             \/ MandaAcks("RECONOCE", "RECONOCIENDO", "CONCILIA")
    BY <2>5, MandaBien DEF Fases
  <2>6. CASE \/ RecibeRespuesta("VACIANDO", "PIDE_PEDIDOS")
             \/ RecibeRespuesta("RECONOCIENDO", "CONCILIA")
             \/ RespuestaSinDestino
    BY <2>6, RespuestaBien
  <2>7. CASE TerminaDeSubir \/ PollFolios \/ TerminaDeReservar \/ TerminaDeAvisarFolios
    BY <2>7, TerminaDeSubirBien, PollFoliosBien, TerminaDeReservarBien, TerminaDeAvisarBien
  <2>8. CASE AplicaAck \/ PollPedidos \/ ArmaPedidos \/ EncolaAcks \/ LeeErp
    BY <2>8, AplicaAckBien, PollPedidosBien, ArmaBien, EncolaBien, LeeErpBien
  <2>9. CASE TerminaDeConfirmar \/ NoConcilia \/ TerminaDeConciliar \/ Arranca
    BY <2>9, PasosBien
  <2>10. QED
    BY <1>3, <2>1, <2>2, <2>3, <2>4, <2>5, <2>6, <2>7, <2>8, <2>9 DEF Vuelta
<1>4. CASE PeticionPerdida \/ Cae
  BY <1>4, PasosBien
<1>5. CASE UNCHANGED vars
  <2>1. TypeOK'
    BY <1>5 DEF vars, nube, local, IInv, TypeOK
  <2>2. QED
    BY <1>5, <2>1, SinAgente DEF vars, nube, local, Pedida
<1>6. QED
  BY <1>1, <1>2, <1>3, <1>4, <1>5 DEF Next

\* The invariant holds always: every copy of a folio is the number of its order.
THEOREM Invariancia == Spec => []IInv
  BY InitBien, PasoBien, PTL DEF Spec

\* The cloud, the queues, the SQLite and the agent always have their types.
THEOREM TipoCorrecto == Spec => []TypeOK
<1>1. IInv => TypeOK
  BY DEF IInv
<1>2. QED
  BY <1>1, Invariancia, PTL

\* The folio on the ticket is the folio in the ERP, whatever was lost and
\* wherever the agent died.
THEOREM FolioDelTicket == Spec => []FolioDelTicketEsElDelErp
<1>1. IInv => FolioDelTicketEsElDelErp
  BY DEF IInv, UnSoloNumero, EsSuyo, EsSuNumero, FolioDelTicketEsElDelErp
<1>2. QED
  BY <1>1, Invariancia, PTL

\* Two orders never carry the same folio in the ERP.
THEOREM FolioSinRepetir == Spec => []FolioUnicoEnErp
<1>1. IInv => FolioUnicoEnErp
  BY DEF IInv, UnSoloNumero, Distintos, EsSuNumero, FolioUnicoEnErp
<1>2. QED
  BY <1>1, Invariancia, PTL
=============================================================================
