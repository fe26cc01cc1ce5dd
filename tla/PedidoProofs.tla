---------------------------- MODULE PedidoProofs ----------------------------
(***************************************************************************)
(* Proofs about Pedido, for any number of requests in flight, of warehouse *)
(* users and of proposals, and any subset of the handlers.                 *)
(***************************************************************************)
EXTENDS MCPedido, TLAPS

-----------------------------------------------------------------------------
(* The state machine of one row (MaquinaPedido).                           *)

\* The columns of a row agree with its state.
Coherente(p) ==
    /\ p.estado \in EnPoderDelErp => p.encolado
    /\ p.encolado => p.estado \in EnPoderDelErp \cup {"CANCELADO"}
    /\ p.espera <=> p.estado \in ESTADOS_BOLSA_APARTADA
    /\ p.llamado => p.estado = "EN_ATENCION"
    /\ p.estado = "PENDIENTE_PAGO" => p.enCaja
    /\ p.enCaja => p.encolado

\* What a write of the row may do: leave a coherent row, move along the table
\* and keep the ERP's row, which is only made on the way to the till.
PasoLegal(p, q) ==
    /\ q \in Pedidos
    /\ Coherente(q)
    /\ q.domicilio = p.domicilio
    /\ q.estado # p.estado => q.estado \in TRANSICIONES[p.estado]
    /\ p.encolado => q.encolado
    /\ ~p.encolado /\ q.encolado => q.estado = "PENDIENTE_PAGO"

\* The columns that ejecutarCambio never writes.
MismosDatos(p, q) ==
    /\ q.presente = p.presente /\ q.lineas = p.lineas /\ q.domicilio = p.domicilio

\* The table: its targets are states, what is at the till or beyond stays there
\* or is cancelled, and only from there is an order charged.
LEMMA Tabla ==
    ASSUME NEW e \in EstadosPedido, NEW d \in TRANSICIONES[e]
    PROVE  /\ d \in EstadosPedido
           /\ e \in EnPoderDelErp => d \in ESTADOS_YA_COBRADOS \cup {"CANCELADO"}
           /\ d \in ESTADOS_YA_COBRADOS => e \in EnPoderDelErp
           /\ e # "CANCELADO"
           /\ d # e
BY DEF EstadosPedido, TRANSICIONES, EnPoderDelErp, ESTADOS_YA_COBRADOS

\* The destination is a state, and the row is queued only on its way to the
\* till when the caller asks for it only there.
LEMMA DestinoEsEstado ==
    ASSUME NEW p \in Pedidos, NEW nuevo \in EstadosPedido, NEW o \in Opciones
    PROVE  /\ Destino(p, nuevo, o) \in EstadosPedido
           /\ Encola(p, nuevo, o) \in BOOLEAN
           /\ Encola(p, nuevo, o) => Destino(p, nuevo, o) = nuevo
BY DEF Destino, Encola, EstadosPedido, Opciones

\* The columns of the row that a transition leaves, one by one.
LEMMA TransitaCampos ==
    ASSUME NEW p \in Pedidos, NEW nuevo \in EstadosPedido, NEW o \in Opciones,
           NEW q, q = Transita(p, nuevo, o),
           NEW d, d = Destino(p, nuevo, o)
    PROVE  /\ q \in Pedidos
           /\ q.encolado = (p.encolado \/ Encola(p, nuevo, o))
           /\ MismosDatos(p, q)
           /\ Salta(p, nuevo, o) =>
                /\ q.estado = p.estado   /\ q.espera = p.espera
                /\ q.llamado = p.llamado /\ q.enCaja = p.enCaja
           /\ ~Salta(p, nuevo, o) =>
                /\ q.estado = d               /\ q.espera = Espera(p, d)
                /\ q.llamado = Llamado(p, d)  /\ q.enCaja = EnCaja(p, d)
<1>1. d \in EstadosPedido /\ Encola(p, nuevo, o) \in BOOLEAN
  BY DestinoEsEstado
<1>2. Asignacion(p, o) \in Bodegueros \cup {NADIE}
  BY DEF Asignacion, Opciones, Pedidos
<1>3. Reloj(p, o) \in BOOLEAN
  BY DEF Reloj, Pedidos
<1>4. Espera(p, d) \in BOOLEAN /\ Llamado(p, d) \in BOOLEAN
  BY DEF Espera, Llamado
<1>5. EnCaja(p, d) \in BOOLEAN
  BY DEF EnCaja, Pedidos
<1>6. (p.encolado \/ Encola(p, nuevo, o)) \in BOOLEAN
  OBVIOUS
<1> DEFINE s == [p EXCEPT !.asignado = Asignacion(p, o),
                          !.corre    = Reloj(p, o),
                          !.encolado = @ \/ Encola(p, nuevo, o)]
<1>7. /\ s \in Pedidos
      /\ s.encolado = (p.encolado \/ Encola(p, nuevo, o))
      /\ s.estado = p.estado   /\ s.espera = p.espera
      /\ s.llamado = p.llamado /\ s.enCaja = p.enCaja
      /\ MismosDatos(p, s)
  BY <1>2, <1>3, <1>6 DEF Pedidos, MismosDatos
<1>8. q = IF Salta(p, nuevo, o) THEN s
          ELSE [s EXCEPT !.estado  = d,             !.espera = Espera(p, d),
                         !.llamado = Llamado(p, d), !.enCaja = EnCaja(p, d)]
  BY DEF Transita
<1> HIDE DEF s
<1>9. CASE Salta(p, nuevo, o)
  BY <1>7, <1>8, <1>9
<1>10. CASE ~Salta(p, nuevo, o)
  <2>1. PICK a \in BOOLEAN, b \in BOOLEAN, c \in BOOLEAN :
           a = Espera(p, d) /\ b = Llamado(p, d) /\ c = EnCaja(p, d)
    BY <1>4, <1>5
  <2>2. q = [s EXCEPT !.estado = d, !.espera = a, !.llamado = b, !.enCaja = c]
    BY <1>8, <1>10, <2>1
  <2>3. /\ q \in Pedidos
        /\ q.estado = d /\ q.espera = a /\ q.llamado = b /\ q.enCaja = c
        /\ q.encolado = s.encolado
        /\ MismosDatos(s, q)
    BY <1>1, <1>7, <2>2 DEF Pedidos, MismosDatos
  <2> QED
    BY <1>7, <1>10, <2>1, <2>3 DEF MismosDatos
<1> QED
  BY <1>9, <1>10

\* A transition that the machine admits is a legal step, for every caller that
\* asks for the ERP only on the way to the till.
LEMMA TransitaLegal ==
    ASSUME NEW p \in Pedidos, Coherente(p),
           NEW nuevo \in EstadosPedido, NEW o \in Opciones,
           o.encolar => nuevo = "PENDIENTE_PAGO",
           Admite(p, nuevo, o)
    PROVE  PasoLegal(p, Transita(p, nuevo, o))
<1> DEFINE q == Transita(p, nuevo, o)
           d == Destino(p, nuevo, o)
<1>1. /\ q \in Pedidos
      /\ q.encolado = (p.encolado \/ Encola(p, nuevo, o))
      /\ q.domicilio = p.domicilio
  BY TransitaCampos DEF MismosDatos
<1>2. Encola(p, nuevo, o) => d = "PENDIENTE_PAGO" /\ ~p.encolado
  BY DestinoEsEstado DEF Encola, Admite
<1>3. CASE Salta(p, nuevo, o)
  <2>1. /\ q.estado = p.estado   /\ q.espera = p.espera
        /\ q.llamado = p.llamado /\ q.enCaja = p.enCaja
    BY <1>3, TransitaCampos
  <2>2. ~Encola(p, nuevo, o)
    BY <1>2, <1>3 DEF Encola, Salta, Coherente, EnPoderDelErp
  <2> QED
    BY <1>1, <2>1, <2>2 DEF PasoLegal, Coherente
<1>4. CASE ~Salta(p, nuevo, o)
  <2>1. /\ q.estado = d               /\ q.espera = Espera(p, d)
        /\ q.llamado = Llamado(p, d)  /\ q.enCaja = EnCaja(p, d)
    BY <1>4, TransitaCampos
  <2>2. /\ d \in TRANSICIONES[p.estado]
        /\ d = "PENDIENTE_PAGO" => Encola(p, nuevo, o) \/ p.encolado
    BY <1>4 DEF Admite, TransicionPermitida
  <2>3. p.estado \in EstadosPedido
    BY DEF Pedidos
  <2>4. /\ d \in EstadosPedido
        /\ p.estado \in EnPoderDelErp => d \in ESTADOS_YA_COBRADOS \cup {"CANCELADO"}
        /\ d \in ESTADOS_YA_COBRADOS => p.estado \in EnPoderDelErp
        /\ p.estado # "CANCELADO"
        /\ d # p.estado
    BY <2>2, <2>3, Tabla
  <2>5. q.espera <=> d \in ESTADOS_BOLSA_APARTADA
    BY <2>1 DEF Espera, Coherente, ESTADOS_BOLSA_APARTADA
  <2>6. q.llamado => d = "EN_ATENCION"
    BY <2>1 DEF Llamado, Coherente
  <2>7. q.enCaja => q.encolado
    BY <1>1, <2>1, <2>2 DEF EnCaja, Coherente
  <2>8. d = "PENDIENTE_PAGO" => q.enCaja
    BY <2>1 DEF EnCaja
  <2>9. d \in EnPoderDelErp => q.encolado
    BY <1>1, <2>2, <2>4 DEF EnPoderDelErp, Coherente
  <2>10. q.encolado => d \in EnPoderDelErp \cup {"CANCELADO"}
    BY <1>1, <1>2, <2>4 DEF EnPoderDelErp, Coherente
  <2>11. Coherente(q)
    BY <2>1, <2>5, <2>6, <2>7, <2>8, <2>9, <2>10 DEF Coherente
  <2> QED
    BY <1>1, <1>2, <2>1, <2>2, <2>11 DEF PasoLegal
<1> QED
  BY <1>3, <1>4

\* A write of the columns that the state does not govern is a legal step.
LEMMA ColumnasLibres ==
    ASSUME NEW p \in Pedidos, Coherente(p), NEW q \in Pedidos,
           q.estado = p.estado, q.encolado = p.encolado, q.espera = p.espera,
           q.llamado = p.llamado, q.enCaja = p.enCaja, q.domicilio = p.domicilio
    PROVE  PasoLegal(p, q)
BY DEF PasoLegal, Coherente

\* The effects of a caller on those columns do not spoil its transition.
LEMMA EfectosLegales ==
    ASSUME NEW p \in Pedidos, NEW q \in Pedidos, NEW s \in Pedidos,
           PasoLegal(p, q),
           s.estado = q.estado, s.encolado = q.encolado, s.espera = q.espera,
           s.llamado = q.llamado, s.enCaja = q.enCaja, s.domicilio = q.domicilio
    PROVE  PasoLegal(p, s)
BY DEF PasoLegal, Coherente

-----------------------------------------------------------------------------
(* The invariant.  Coherence is not inductive alone: an order is charged by *)
(* the agent outside the machine, and what keeps that coherent is that the  *)
(* request was only accepted of an order that the ERP has.                  *)

AgenteCobraEncolado ==
    \A r \in Peticiones : En(r, "PAGAR_AGENTE") => ped.encolado

IInv == TypeOK /\ Coherente(ped) /\ AgenteCobraEncolado

\* What every step does, and all that the theorems need of it.
Avance ==
    /\ PasoLegal(ped, ped')
    /\ propuestas' \in [IdPropuesta -> Propuestas]
    /\ peticiones' \in [Peticiones -> Lecturas]
    /\ AgenteCobraEncolado'

\* The parts of the invariant that almost every step uses.
LEMMA Tipos ==
    ASSUME IInv
    PROVE  /\ ped \in Pedidos /\ Coherente(ped)
           /\ ped.estado \in EstadosPedido
           /\ propuestas \in [IdPropuesta -> Propuestas]
           /\ peticiones \in [Peticiones -> Lecturas]
BY DEF IInv, TypeOK, Pedidos

\* The reading of a request, field by field.
LEMMA TiposLectura ==
    ASSUME IInv, NEW r \in Peticiones
    PROVE  /\ peticiones[r] \in Lecturas
           /\ peticiones[r].quien \in Bodegueros \cup {NADIE}
           /\ peticiones[r].est \in EstadosPedido
           /\ peticiones[r].dest \in EstadosPedido
           /\ peticiones[r].prop \in IdPropuesta \cup {NADIE}
           /\ peticiones[r].dato \in BOOLEAN
BY Tipos DEF Lecturas

\* What a request carries after its read is a reading.
LEMMA LecturasOK ==
    ASSUME IInv, NEW paso \in Pasos
    PROVE  /\ Libre \in Lecturas /\ Libre.paso = "NINGUNO"
           /\ Lectura(paso) \in Lecturas /\ Lectura(paso).paso = paso
           /\ LecturaEstado(paso) \in Lecturas /\ LecturaEstado(paso).paso = paso
<1>1. Libre \in Lecturas /\ Libre.paso = "NINGUNO"
  BY DEF Libre, Lecturas, Pasos, EstadosPedido
<1>2. Lectura(paso) \in Lecturas /\ Lectura(paso).paso = paso
  BY <1>1 DEF Lectura, Lecturas
<1> QED
  BY <1>1, <1>2, Tipos DEF LecturaEstado, Lecturas

\* None of the usual combinations of options queues the order for the ERP.
LEMMA OpcionesOK ==
    /\ SinOpciones \in Opciones /\ ~SinOpciones.encolar
    /\ SaleDeBodega \in Opciones /\ ~SaleDeBodega.encolar
    /\ VuelveABodega \in Opciones /\ ~VuelveABodega.encolar
BY DEF SinOpciones, SaleDeBodega, VuelveABodega, Opciones

\* A request goes on, or ends, and none that the agent sent lost its ground.
LEMMA SigueOK ==
    ASSUME IInv, NEW r \in Peticiones, NEW l \in Lecturas, Sigue(r, l),
           l.paso = "PAGAR_AGENTE" => ped.encolado
    PROVE  /\ peticiones' \in [Peticiones -> Lecturas]
           /\ \A s \in Peticiones : peticiones'[s].paso = "PAGAR_AGENTE" => ped.encolado
BY Tipos DEF Sigue, IInv, AgenteCobraEncolado, En

\* A request that ends leaves the others as they were.
LEMMA TerminaOK ==
    ASSUME IInv, NEW r \in Peticiones, Termina(r)
    PROVE  /\ peticiones' \in [Peticiones -> Lecturas]
           /\ \A s \in Peticiones : peticiones'[s].paso = "PAGAR_AGENTE" => ped.encolado
<1>1. Libre \in Lecturas /\ Libre.paso # "PAGAR_AGENTE"
  BY DEF Libre, Lecturas, Pasos, EstadosPedido
<1> QED
  BY <1>1, SigueOK DEF Termina

\* The four ways in which the handlers write proposals keep their type.
LEMMA PropuestasOK ==
    ASSUME IInv,
           \/ UNCHANGED propuestas
           \/ \E i \in IdPropuesta \cup {NADIE}, e \in EstadosPropuesta : Cierra(i, e)
           \/ \E e \in EstadosPropuesta : CierraPendientes(e)
           \/ \E o \in Origenes : Crea(o)
    PROVE  propuestas' \in [IdPropuesta -> Propuestas]
<1>1. propuestas \in [IdPropuesta -> Propuestas]
  BY Tipos
<1>2. ASSUME NEW i \in IdPropuesta \cup {NADIE}, NEW e \in EstadosPropuesta, Cierra(i, e)
      PROVE  propuestas' \in [IdPropuesta -> Propuestas]
  BY <1>1, <1>2 DEF Cierra, Propuestas
<1>3. ASSUME NEW e \in EstadosPropuesta, CierraPendientes(e)
      PROVE  propuestas' \in [IdPropuesta -> Propuestas]
  <2>1. ASSUME NEW i \in IdPropuesta
        PROVE  [propuestas[i] EXCEPT !.estado = e] \in Propuestas
    BY <1>1 DEF Propuestas
  <2> QED
    BY <1>1, <1>3, <2>1 DEF CierraPendientes
<1>4. ASSUME NEW o \in Origenes, Crea(o)
      PROVE  propuestas' \in [IdPropuesta -> Propuestas]
  BY <1>1, <1>4 DEF Crea, Propuestas, EstadosPropuesta
<1> QED
  BY <1>1, <1>2, <1>3, <1>4

\* The parts of a step make one.
LEMMA Avanza ==
    ASSUME IInv, PasoLegal(ped, ped'),
           propuestas' \in [IdPropuesta -> Propuestas],
           peticiones' \in [Peticiones -> Lecturas],
           \A s \in Peticiones : peticiones'[s].paso = "PAGAR_AGENTE" => ped.encolado
    PROVE  Avance
BY DEF Avance, AgenteCobraEncolado, En, PasoLegal

\* A handler that only moves the order keeps the row legal.
LEMMA CambiaLegal ==
    ASSUME IInv, NEW nuevo \in EstadosPedido, NEW o \in Opciones,
           o.encolar => nuevo = "PENDIENTE_PAGO",
           Cambia(nuevo, o)
    PROVE  PasoLegal(ped, ped')
BY Tipos, TransitaLegal DEF Cambia

\* The row keeps what the transition wrote in the columns of the state.
MismasColumnas(q, s) ==
    /\ s.estado = q.estado   /\ s.encolado = q.encolado /\ s.espera = q.espera
    /\ s.llamado = q.llamado /\ s.enCaja = q.enCaja
    /\ s.domicilio = q.domicilio

\* So does one that writes other columns in the same transaction.
LEMMA CambiaConLegal ==
    ASSUME IInv, NEW nuevo \in EstadosPedido, NEW o \in Opciones,
           o.encolar => nuevo = "PENDIENTE_PAGO",
           NEW q \in Pedidos,
           MismasColumnas(Transita(ped, nuevo, o), q),
           CambiaCon(nuevo, o, q)
    PROVE  PasoLegal(ped, ped')
<1>1. PasoLegal(ped, Transita(ped, nuevo, o)) /\ Transita(ped, nuevo, o) \in Pedidos
  BY Tipos, TransitaLegal DEF CambiaCon, PasoLegal
<1>2. PasoLegal(ped, q)
  BY <1>1, Tipos, EfectosLegales DEF MismasColumnas
<1> QED
  BY <1>2 DEF CambiaCon

\* What ejecutarCambio leaves is a row.
LEMMA TransitaEsPedido ==
    ASSUME IInv, NEW nuevo \in EstadosPedido, NEW o \in Opciones
    PROVE  Transita(ped, nuevo, o) \in Pedidos
BY Tipos, TransitaCampos

\* Rewriting the summary of the lines after a transition.
LEMMA ConLineas ==
    ASSUME NEW q \in Pedidos, NEW l \in EstadosLineas
    PROVE  /\ [q EXCEPT !.lineas = l] \in Pedidos
           /\ MismasColumnas(q, [q EXCEPT !.lineas = l])
BY DEF Pedidos, MismasColumnas

\* A step that writes no column of the state.
LEMMA LibresLegal ==
    ASSUME IInv, ped' \in Pedidos,
           ped'.estado = ped.estado, ped'.encolado = ped.encolado,
           ped'.espera = ped.espera, ped'.llamado = ped.llamado,
           ped'.enCaja = ped.enCaja, ped'.domicilio = ped.domicilio
    PROVE  PasoLegal(ped, ped')
BY Tipos, ColumnasLibres

-----------------------------------------------------------------------------
(* The requests: what a handler reads.                                     *)

\* A new request writes nothing.
LEMMA RecibeLegal ==
    ASSUME IInv, NEW r \in Peticiones, NEW op, NEW l \in Lecturas,
           l.paso = "PAGAR_AGENTE" => ped.encolado,
           Recibe(r, op, l)
    PROVE  Avance
<1>1. Sigue(r, l) /\ ped' = ped /\ propuestas' = propuestas
  BY DEF Recibe, Sigue
<1> QED
  BY <1>1, Tipos, SigueOK, LibresLegal, Avanza

\* Where the handlers send an order is always a state.
LEMMA Destinos ==
    ASSUME IInv
    PROVE  /\ DestinoTrasSurtido \in EstadosPedido
           /\ DestinoTrasSurtidoIncompleto \in EstadosPedido
           /\ DestinoAprobada \in EstadosPedido
BY DEF DestinoTrasSurtido, DestinoTrasSurtidoIncompleto, DestinoAprobada, EstadosPedido

\* The reads of all the handlers.
LEMMA LeeLegal ==
    ASSUME IInv, NEW r \in Peticiones, Lee(r)
    PROVE  Avance
<1> USE DEF Pasos, OperacionesConocidas
<1>1. CASE LeeTomar(r)
  <2>1. PICK u \in Bodegueros :
           Recibe(r, "TOMAR", [LecturaEstado("TOMAR") EXCEPT !.quien = u])
    BY <1>1 DEF LeeTomar
  <2>2. LecturaEstado("TOMAR") \in Lecturas /\ LecturaEstado("TOMAR").paso = "TOMAR"
    BY LecturasOK
  <2>3. /\ [LecturaEstado("TOMAR") EXCEPT !.quien = u] \in Lecturas
        /\ [LecturaEstado("TOMAR") EXCEPT !.quien = u].paso = "TOMAR"
    BY <2>1, <2>2 DEF Lecturas
  <2> QED
    BY <2>1, <2>3, RecibeLegal
<1>2. CASE LeeConfirmarSurtido(r)
  <2>1. PICK u \in Bodegueros \cup {NADIE}, b \in BOOLEAN, d \in EstadosPedido :
           Recibe(r, "CONFIRMAR_SURTIDO",
                  [Lectura("CONFIRMAR_SURTIDO") EXCEPT !.quien = u, !.dato = b, !.dest = d])
    BY <1>2, Destinos DEF LeeConfirmarSurtido
  <2>2. Lectura("CONFIRMAR_SURTIDO") \in Lecturas /\ Lectura("CONFIRMAR_SURTIDO").paso = "CONFIRMAR_SURTIDO"
    BY LecturasOK
  <2>3. /\ [Lectura("CONFIRMAR_SURTIDO") EXCEPT !.quien = u, !.dato = b, !.dest = d] \in Lecturas
        /\ [Lectura("CONFIRMAR_SURTIDO") EXCEPT !.quien = u, !.dato = b, !.dest = d].paso = "CONFIRMAR_SURTIDO"
    BY <2>1, <2>2 DEF Lecturas
  <2> QED
    BY <2>1, <2>3, RecibeLegal
<1>3. CASE LeeResponder(r)
  <2>1. PICK i \in IdPropuesta : \E d \in DECISIONES_POR_ORIGEN[propuestas[i].origen] :
           Recibe(r, "RESPONDER", [Lectura(d) EXCEPT
                    !.prop = i, !.dest = DestinoAprobada,
                    !.dato = ped.lineas = "PENDIENTES"])
    BY <1>3 DEF LeeResponder
  <2>2. PICK d \in DECISIONES_POR_ORIGEN[propuestas[i].origen] :
           Recibe(r, "RESPONDER", [Lectura(d) EXCEPT
                    !.prop = i, !.dest = DestinoAprobada,
                    !.dato = ped.lineas = "PENDIENTES"])
    BY <2>1
  <2>3. propuestas[i].origen \in Origenes
    BY Tipos DEF Propuestas
  <2>4. d \in Pasos /\ d # "PAGAR_AGENTE"
    BY <2>2, <2>3 DEF DECISIONES_POR_ORIGEN, Origenes
  <2>5. PICK b \in BOOLEAN : b = (ped.lineas = "PENDIENTES")
    OBVIOUS
  <2>6. /\ Lectura(d) \in Lecturas /\ Lectura(d).paso = d
        /\ DestinoAprobada \in EstadosPedido
    BY <2>4, LecturasOK, Destinos
  <2>7. /\ [Lectura(d) EXCEPT !.prop = i, !.dest = DestinoAprobada, !.dato = b] \in Lecturas
        /\ [Lectura(d) EXCEPT !.prop = i, !.dest = DestinoAprobada, !.dato = b].paso = d
    BY <2>6 DEF Lecturas
  <2> QED
    BY <2>2, <2>4, <2>5, <2>7, RecibeLegal
<1>4. CASE LeeAjustar(r)
  <2>1. PICK b \in BOOLEAN, d \in EstadosPedido :
           Recibe(r, "AJUSTAR", [Lectura("AJUSTAR") EXCEPT !.dato = b, !.dest = d])
    BY <1>4, Tipos DEF LeeAjustar, EstadosPedido
  <2>2. Lectura("AJUSTAR") \in Lecturas /\ Lectura("AJUSTAR").paso = "AJUSTAR"
    BY LecturasOK
  <2>3. /\ [Lectura("AJUSTAR") EXCEPT !.dato = b, !.dest = d] \in Lecturas
        /\ [Lectura("AJUSTAR") EXCEPT !.dato = b, !.dest = d].paso = "AJUSTAR"
    BY <2>1, <2>2 DEF Lecturas
  <2> QED
    BY <2>1, <2>3, RecibeLegal
<1>5. CASE LeeDescartar(r)
  <2>1. Recibe(r, "DESCARTAR", [LecturaEstado("DESCARTAR") EXCEPT !.dato = TRUE])
    BY <1>5 DEF LeeDescartar
  <2>2. LecturaEstado("DESCARTAR") \in Lecturas /\ LecturaEstado("DESCARTAR").paso = "DESCARTAR"
    BY LecturasOK
  <2>3. /\ [LecturaEstado("DESCARTAR") EXCEPT !.dato = TRUE] \in Lecturas
        /\ [LecturaEstado("DESCARTAR") EXCEPT !.dato = TRUE].paso = "DESCARTAR"
    BY <2>2 DEF Lecturas
  <2> QED
    BY <2>1, <2>3, RecibeLegal
<1>6. CASE LeeNoSePresento(r)
  <2>1. PICK b \in BOOLEAN :
           Recibe(r, "NO_SE_PRESENTO", [LecturaEstado("NO_SE_PRESENTO") EXCEPT !.dato = b])
    BY <1>6 DEF LeeNoSePresento
  <2>2. LecturaEstado("NO_SE_PRESENTO") \in Lecturas /\ LecturaEstado("NO_SE_PRESENTO").paso = "NO_SE_PRESENTO"
    BY LecturasOK
  <2>3. /\ [LecturaEstado("NO_SE_PRESENTO") EXCEPT !.dato = b] \in Lecturas
        /\ [LecturaEstado("NO_SE_PRESENTO") EXCEPT !.dato = b].paso = "NO_SE_PRESENTO"
    BY <2>1, <2>2 DEF Lecturas
  <2> QED
    BY <2>1, <2>3, RecibeLegal
<1>7. CASE LeePagar(r)
  <2>1. PICK op \in {"PAGAR_AGENTE", "PAGAR_MANUAL"} :
           /\ ped.estado # "PENDIENTE_PAGO" => op = "PAGAR_AGENTE" /\ ped.encolado
           /\ Recibe(r, op, Lectura(op))
    BY <1>7 DEF LeePagar
  <2>2. ped.encolado \/ op = "PAGAR_MANUAL"
    BY <2>1, Tipos DEF Coherente, EnPoderDelErp
  <2> QED
    BY <2>1, <2>2, LecturasOK, RecibeLegal
<1>8. CASE LeeLiberar(r)
  BY <1>8, LecturasOK, RecibeLegal DEF LeeLiberar
<1>9. CASE LeeMarcarItem(r)
  BY <1>9, LecturasOK, RecibeLegal DEF LeeMarcarItem
<1>10. CASE LeeEnviar(r)
  BY <1>10, LecturasOK, RecibeLegal DEF LeeEnviar
<1>11. CASE LeeEnviarPropuesta(r)
  BY <1>11, LecturasOK, RecibeLegal DEF LeeEnviarPropuesta
<1>12. CASE LeeDevolverABodega(r)
  BY <1>12, LecturasOK, RecibeLegal DEF LeeDevolverABodega
<1>13. CASE LeeEnviarAPagar(r)
  BY <1>13, LecturasOK, RecibeLegal DEF LeeEnviarAPagar
<1>14. CASE LeeCancelarMostrador(r)
  BY <1>14, LecturasOK, RecibeLegal DEF LeeCancelarMostrador
<1>15. CASE LeeCancelarVencido(r)
  BY <1>15, LecturasOK, RecibeLegal DEF LeeCancelarVencido
<1>16. CASE LeeDevolverACola(r)
  BY <1>16, LecturasOK, RecibeLegal DEF LeeDevolverACola
<1>17. CASE LeeTraerAEntrega(r)
  BY <1>17, LecturasOK, RecibeLegal DEF LeeTraerAEntrega
<1>18. CASE LeeLlamar(r)
  BY <1>18, LecturasOK, RecibeLegal DEF LeeLlamar
<1>19. CASE LeeEntregar(r)
  BY <1>19, LecturasOK, RecibeLegal DEF LeeEntregar
<1>20. CASE LeeAvisarLlegada(r)
  BY <1>20, LecturasOK, RecibeLegal DEF LeeAvisarLlegada
<1>21. CASE LeeRetirarAviso(r)
  BY <1>21, LecturasOK, RecibeLegal DEF LeeRetirarAviso
<1>22. CASE LeeCancelarCliente(r)
  BY <1>22, LecturasOK, RecibeLegal DEF LeeCancelarCliente
<1>23. CASE LeeCancelarTienda(r)
  BY <1>23, LecturasOK, RecibeLegal DEF LeeCancelarTienda
<1>24. CASE LeeCancelarErp(r)
  BY <1>24, LecturasOK, RecibeLegal DEF LeeCancelarErp
<1>25. CASE LeeDtfTerminar(r)
  BY <1>25, LecturasOK, RecibeLegal DEF LeeDtfTerminar
<1>26. CASE LeeDtfReimprimir(r)
  BY <1>26, LecturasOK, RecibeLegal DEF LeeDtfReimprimir
<1>27. CASE LeeTomarGrupo(r)
  <2>1. PICK u \in Bodegueros :
           Recibe(r, "TOMAR_GRUPO", [Lectura("TOMAR_GRUPO") EXCEPT !.quien = u])
    BY <1>27 DEF LeeTomarGrupo
  <2>2. Lectura("TOMAR_GRUPO") \in Lecturas /\ Lectura("TOMAR_GRUPO").paso = "TOMAR_GRUPO"
    BY LecturasOK
  <2>3. /\ [Lectura("TOMAR_GRUPO") EXCEPT !.quien = u] \in Lecturas
        /\ [Lectura("TOMAR_GRUPO") EXCEPT !.quien = u].paso = "TOMAR_GRUPO"
    BY <2>1, <2>2 DEF Lecturas
  <2> QED
    BY <2>1, <2>3, RecibeLegal
<1> QED
  BY <1>27, <1>1, <1>2, <1>3, <1>4, <1>5, <1>6, <1>7, <1>8, <1>9, <1>10, <1>11, <1>12, <1>13, <1>14, <1>15, <1>16, <1>17, <1>18, <1>19, <1>20, <1>21, <1>22, <1>23, <1>24, <1>25, <1>26
     DEF Lee

-----------------------------------------------------------------------------
(* The commits.                                                            *)

\* The proposals are left alone, one is closed, all the pending ones are, or
\* one is opened.
EscribePropuestas ==
    \/ UNCHANGED propuestas
    \/ \E i \in IdPropuesta \cup {NADIE}, e \in EstadosPropuesta : Cierra(i, e)
    \/ \E e \in EstadosPropuesta : CierraPendientes(e)
    \/ \E o \in Origenes : Crea(o)

\* A legal write of the row that ends the request, or goes on with it, is all
\* that a handler does.
LEMMA TerminaLegal ==
    ASSUME IInv, NEW r \in Peticiones, PasoLegal(ped, ped'),
           EscribePropuestas, Termina(r)
    PROVE  Avance
BY PropuestasOK, TerminaOK, Avanza DEF EscribePropuestas

\* A handler that goes on after its commit.
LEMMA SigueLegal ==
    ASSUME IInv, NEW r \in Peticiones, PasoLegal(ped, ped'),
           EscribePropuestas, NEW l \in Lecturas, Sigue(r, l),
           l.paso # "PAGAR_AGENTE"
    PROVE  Avance
BY PropuestasOK, SigueOK, Avanza DEF EscribePropuestas

\* A handler that only moves the order and ends.
LEMMA MueveLegal ==
    ASSUME IInv, NEW r \in Peticiones, NEW nuevo \in EstadosPedido, NEW o \in Opciones,
           o.encolar => nuevo = "PENDIENTE_PAGO",
           Cambia(nuevo, o), EscribePropuestas, Termina(r)
    PROVE  Avance
BY CambiaLegal, TerminaLegal

\* The proposals that the handlers write, case by case.
LEMMA Escrituras ==
    ASSUME IInv, NEW r \in Peticiones
    PROVE  /\ UNCHANGED propuestas => EscribePropuestas
           /\ \A e \in EstadosPropuesta : Cierra(peticiones[r].prop, e) => EscribePropuestas
           /\ \A e \in EstadosPropuesta : CierraPendientes(e) => EscribePropuestas
           /\ \A o \in Origenes : Crea(o) => EscribePropuestas
BY TiposLectura DEF EscribePropuestas

\* Closing a surtido queues the order only on its way to the till.
LEMMA OpcionesDeSurtidoOK ==
    ASSUME NEW dest \in EstadosPedido
    PROVE  /\ OpcionesDeSurtido(dest) \in Opciones
           /\ [OpcionesDeSurtido(dest) EXCEPT !.mismo = TRUE] \in Opciones
           /\ OpcionesDeSurtido(dest).encolar = (dest = "PENDIENTE_PAGO")
           /\ [OpcionesDeSurtido(dest) EXCEPT !.mismo = TRUE].encolar = (dest = "PENDIENTE_PAGO")
<1>1. PICK b \in BOOLEAN : b = (dest = "PENDIENTE_PAGO")
  OBVIOUS
<1>2. OpcionesDeSurtido(dest) = [SaleDeBodega EXCEPT !.encolar = b]
  BY <1>1 DEF OpcionesDeSurtido
<1> QED
  BY <1>1, <1>2, OpcionesOK DEF Opciones

\* Applying the shortages to the lines leaves a summary of lines.
LEMMA SinFaltantesOK ==
    ASSUME NEW l \in EstadosLineas
    PROVE  SinFaltantes(l) \in EstadosLineas
BY DEF SinFaltantes, EstadosLineas

\* The commits of bodega.service and surtido.service.
LEMMA DeBodegaLegal ==
    ASSUME IInv, NEW r \in Peticiones, DeBodega(r)
    PROVE  Avance
<1>1. CASE Retoma(r)
  <2>1. ped' \in Pedidos
    BY <1>1, Tipos, TiposLectura DEF Retoma, Pedidos
  <2>2. PasoLegal(ped, ped')
    BY <1>1, <2>1, Tipos, LibresLegal DEF Retoma, Pedidos
  <2> QED
    BY <1>1, <2>2, Escrituras, TerminaLegal DEF Retoma
<1>2. CASE Toma(r)
  <2> DEFINE o == [SinOpciones EXCEPT !.asignacion = "caller",
                                      !.quien = peticiones[r].quien,
                                      !.reloj = "reanudar"]
  <2>1. o \in Opciones /\ ~o.encolar
    BY OpcionesOK, TiposLectura DEF Opciones
  <2>2. Cambia("EN_REVISION", o) /\ Termina(r) /\ UNCHANGED propuestas
    BY <1>2 DEF Toma
  <2>3. "EN_REVISION" \in EstadosPedido
    BY DEF EstadosPedido
  <2> QED
    BY <2>1, <2>2, <2>3, Escrituras, MueveLegal
<1>3. CASE Libera(r)
  <2>1. ped' \in Pedidos
    BY <1>3, Tipos DEF Libera, Pedidos
  <2>2. PasoLegal(ped, ped')
    BY <1>3, <2>1, Tipos, LibresLegal DEF Libera, Pedidos
  <2> QED
    BY <1>3, <2>2, Escrituras, TerminaLegal DEF Libera
<1>4. CASE MarcaItem(r)
  <2>1. PICK l \in EstadosLineas : ped' = [ped EXCEPT !.lineas = l]
    BY <1>4 DEF MarcaItem
  <2>2. PasoLegal(ped, ped')
    BY <2>1, Tipos, ConLineas, LibresLegal DEF MismasColumnas
  <2> QED
    BY <1>4, <2>2, Escrituras, TerminaLegal DEF MarcaItem
<1>5. CASE ConfirmaSurtido(r)
  <2> DEFINE dest == peticiones[r].dest
             o == OpcionesDeSurtido(dest)
             q == Transita(ped, dest, o)
             l == IF peticiones[r].dato THEN SinFaltantes(q.lineas) ELSE q.lineas
  <2>1. dest \in EstadosPedido /\ o \in Opciones /\ (o.encolar => dest = "PENDIENTE_PAGO")
    BY TiposLectura, OpcionesDeSurtidoOK
  <2>2. q \in Pedidos
    BY <2>1, TransitaEsPedido
  <2>3. l \in EstadosLineas
    BY <2>2, SinFaltantesOK DEF Pedidos
  <2>4. CambiaCon(dest, o, [q EXCEPT !.lineas = l])
    BY <1>5 DEF ConfirmaSurtido
  <2>5. [q EXCEPT !.lineas = l] \in Pedidos /\ MismasColumnas(q, [q EXCEPT !.lineas = l])
    BY <2>2, <2>3, ConLineas
  <2>6. PasoLegal(ped, ped')
    BY <2>1, <2>4, <2>5, CambiaConLegal
  <2>7. EscribePropuestas
    BY <1>5, Escrituras DEF ConfirmaSurtido, Origenes
  <2> QED
    BY <1>5, <2>6, <2>7, TerminaLegal DEF ConfirmaSurtido
<1>6. CASE Envia(r)
  <2>1. "ENVIADO" \in EstadosPedido
    BY DEF EstadosPedido
  <2> QED
    BY <1>6, <2>1, OpcionesOK, Escrituras, MueveLegal DEF Envia
<1>7. CASE TomaGrupo(r)
  <2>1. ped' \in Pedidos /\ ped.estado \in {"SOLICITADO", "EN_REVISION"}
    BY <1>7, Tipos, TiposLectura DEF TomaGrupo, Pedidos, EstadosPedido
  <2>2. /\ ped'.estado = "EN_REVISION" /\ ped'.encolado = ped.encolado
        /\ ped'.espera = ped.espera /\ ped'.llamado = ped.llamado
        /\ ped'.enCaja = ped.enCaja /\ ped'.domicilio = ped.domicilio
    BY <1>7, Tipos DEF TomaGrupo, Pedidos
  <2>3. PasoLegal(ped, ped')
    BY <2>1, <2>2, Tipos
    DEF PasoLegal, Coherente, TRANSICIONES, EnPoderDelErp, ESTADOS_YA_COBRADOS,
        ESTADOS_BOLSA_APARTADA, ESTADOS_ESPERA_CLIENTE
  <2> QED
    BY <1>7, <2>3, Escrituras, TerminaLegal DEF TomaGrupo
<1> QED
  BY <1>1, <1>2, <1>3, <1>4, <1>5, <1>6, <1>7 DEF DeBodega

\* The commits of ventas.service and propuesta.service.
LEMMA DePropuestaLegal ==
    ASSUME IInv, NEW r \in Peticiones, DePropuesta(r)
    PROVE  Avance
<1> USE DEF EstadosPropuesta
<1>0. {"ESPERANDO_APROBACION", "EN_REVISION", "CANCELADO", "EN_ASESORIA"} \subseteq EstadosPedido
  BY DEF EstadosPedido
<1>1. CASE EnviaPropuesta(r)
  BY <1>0, <1>1, OpcionesOK, Escrituras, MueveLegal DEF EnviaPropuesta, Origenes
<1>2. CASE DevuelveABodega(r)
  BY <1>0, <1>2, OpcionesOK, Escrituras, MueveLegal DEF DevuelveABodega
<1>3. CASE ApruebaBodega(r)
  <2> DEFINE dest == peticiones[r].dest
             o == [OpcionesDeSurtido(dest) EXCEPT !.mismo = TRUE]
             q == Transita(ped, dest, o)
             l == SinFaltantes(q.lineas)
  <2>1. dest \in EstadosPedido /\ o \in Opciones /\ (o.encolar => dest = "PENDIENTE_PAGO")
    BY TiposLectura, OpcionesDeSurtidoOK
  <2>2. q \in Pedidos
    BY <2>1, TransitaEsPedido
  <2>3. l \in EstadosLineas
    BY <2>2, SinFaltantesOK DEF Pedidos
  <2>4. CambiaCon(dest, o, [q EXCEPT !.lineas = l])
    BY <1>3 DEF ApruebaBodega
  <2>5. [q EXCEPT !.lineas = l] \in Pedidos /\ MismasColumnas(q, [q EXCEPT !.lineas = l])
    BY <2>2, <2>3, ConLineas
  <2>6. PasoLegal(ped, ped')
    BY <2>1, <2>4, <2>5, CambiaConLegal
  <2> QED
    BY <1>3, <2>6, Escrituras, TerminaLegal DEF ApruebaBodega
<1>4. CASE ApruebaBodegaConResiduo(r)
  <2>1. PICK l \in EstadosLineas : ped' = [ped EXCEPT !.lineas = l]
    BY <1>4 DEF ApruebaBodegaConResiduo, EstadosLineas
  <2>2. PasoLegal(ped, ped')
    BY <2>1, Tipos, ConLineas, LibresLegal DEF MismasColumnas
  <2> DEFINE s == [peticiones[r] EXCEPT !.paso = "APROBADA_CON_RESIDUO"]
  <2>3. s \in Lecturas /\ s.paso # "PAGAR_AGENTE"
    BY TiposLectura DEF Lecturas, Pasos
  <2>4. Sigue(r, s) /\ EscribePropuestas
    BY <1>4, Escrituras DEF ApruebaBodegaConResiduo
  <2> QED
    BY <2>2, <2>3, <2>4, SigueLegal
<1>5. CASE RegresaPorResiduo(r)
  BY <1>0, <1>5, OpcionesOK, Escrituras, MueveLegal DEF RegresaPorResiduo
<1>6. CASE ApruebaVentas(r)
  <2> DEFINE q == Transita(ped, "EN_REVISION", VuelveABodega)
             s == [peticiones[r] EXCEPT !.dest = DestinoTrasSurtido,
                                        !.paso = "APROBADA_SIN_PENDIENTES"]
  <2>1. q \in Pedidos
    BY <1>0, OpcionesOK, TransitaEsPedido
  <2>2. PICK l \in EstadosLineas :
           /\ CambiaCon("EN_REVISION", VuelveABodega, [q EXCEPT !.lineas = l])
           /\ Sigue(r, s) \/ Sigue(r, Libre)
    BY <1>6 DEF ApruebaVentas
  <2>3. PasoLegal(ped, ped')
    BY <1>0, <2>1, <2>2, ConLineas, OpcionesOK, CambiaConLegal
  <2>4. EscribePropuestas
    BY <1>6, Escrituras DEF ApruebaVentas
  <2>5. s \in Lecturas /\ s.paso # "PAGAR_AGENTE"
    BY TiposLectura, Destinos DEF Lecturas, Pasos
  <2> QED
    BY <2>2, <2>3, <2>4, <2>5, SigueLegal, TerminaLegal DEF Termina
<1>7. CASE PasaSinPendientes(r)
  <2>1. peticiones[r].dest \in EstadosPedido
    BY TiposLectura
  <2> QED
    BY <1>7, <2>1, OpcionesDeSurtidoOK, Escrituras, MueveLegal DEF PasaSinPendientes
<1>8. CASE RechazaBodega(r)
  BY <1>0, <1>8, OpcionesOK, Escrituras, MueveLegal DEF RechazaBodega
<1>9. CASE RechazaVentas(r)
  BY <1>0, <1>9, OpcionesOK, Escrituras, MueveLegal DEF RechazaVentas
<1>10. CASE ContactaAsesor(r)
  BY <1>0, <1>10, OpcionesOK, Escrituras, MueveLegal DEF ContactaAsesor
<1>11. CASE CancelaPorPropuesta(r)
  BY <1>0, <1>11, OpcionesOK, Escrituras, MueveLegal DEF CancelaPorPropuesta
<1> QED
  BY <1>1, <1>2, <1>3, <1>4, <1>5, <1>6, <1>7, <1>8, <1>9, <1>10, <1>11 DEF DePropuesta

\* The commits of mostrador.service.
LEMMA DeMostradorLegal ==
    ASSUME IInv, NEW r \in Peticiones, DeMostrador(r)
    PROVE  Avance
<1> USE DEF EstadosPropuesta
<1>0. {"PENDIENTE_PAGO", "CANCELADO", "REVISADO", "EN_ATENCION", "ENTREGADO"} \subseteq EstadosPedido
  BY DEF EstadosPedido
<1>1. /\ Lectura("CONFIRMAR_LLEGADA") \in Lecturas
      /\ Lectura("CONFIRMAR_LLEGADA").paso # "PAGAR_AGENTE"
  BY LecturasOK DEF Pasos
<1>2. CASE EnviaAPagar(r)
  <2> DEFINE o == [SinOpciones EXCEPT !.encolar = TRUE]
  <2>1. o \in Opciones
    BY OpcionesOK DEF Opciones
  <2>2. Cambia("PENDIENTE_PAGO", o) /\ Termina(r) /\ UNCHANGED propuestas
    BY <1>2 DEF EnviaAPagar
  <2> QED
    BY <1>0, <2>1, <2>2, Escrituras, MueveLegal
<1>3. CASE Ajusta(r)
  <2> DEFINE dest == peticiones[r].dest
             o == OpcionesDeAjuste(peticiones[r].dato)
             q == Transita(ped, dest, o)
  <2>1. dest \in EstadosPedido
    BY TiposLectura
  <2>2. o \in Opciones /\ ~o.encolar
    BY OpcionesOK DEF OpcionesDeAjuste, Opciones
  <2>3. q \in Pedidos
    BY <2>1, <2>2, TransitaEsPedido
  <2>4. PICK l \in EstadosLineas : CambiaCon(dest, o, [q EXCEPT !.lineas = l])
    BY <1>3, Tipos DEF Ajusta, EstadosLineas, Pedidos
  <2>5. PasoLegal(ped, ped')
    BY <2>1, <2>2, <2>3, <2>4, ConLineas, CambiaConLegal
  <2>6. EscribePropuestas
    BY <1>3, Escrituras DEF Ajusta
  <2>7. Sigue(r, Lectura("CONFIRMAR_LLEGADA")) \/ Termina(r)
    BY <1>3 DEF Ajusta
  <2> QED
    BY <1>1, <2>5, <2>6, <2>7, SigueLegal, TerminaLegal
<1>4. CASE CancelaMostrador(r)
  BY <1>0, <1>4, OpcionesOK, Escrituras, MueveLegal DEF CancelaMostrador
<1>5. CASE ReleeCancelarVencido(r)
  <2> DEFINE s == [Lectura("CANCELAR_MOSTRADOR") EXCEPT !.dato = TRUE]
  <2>1. Lectura("CANCELAR_MOSTRADOR") \in Lecturas /\ Lectura("CANCELAR_MOSTRADOR").paso = "CANCELAR_MOSTRADOR"
    BY LecturasOK DEF Pasos, OperacionesConocidas
  <2>2. s \in Lecturas /\ s.paso # "PAGAR_AGENTE"
    BY <2>1 DEF Lecturas
  <2>3. Sigue(r, s) /\ ped' = ped /\ propuestas' = propuestas
    BY <1>5 DEF ReleeCancelarVencido
  <2> QED
    BY <2>2, <2>3, Tipos, LibresLegal, Escrituras, SigueLegal
<1>6. CASE DevuelveACola(r)
  BY <1>0, <1>6, OpcionesOK, Escrituras, MueveLegal DEF DevuelveACola
<1>7. CASE TraeAEntrega(r)
  <2>1. PasoLegal(ped, ped')
    BY <1>0, <1>7, OpcionesOK, CambiaLegal DEF TraeAEntrega
  <2> QED
    BY <1>1, <1>7, <2>1, Escrituras, SigueLegal DEF TraeAEntrega
<1>8. CASE Llama(r)
  <2> DEFINE q == Transita(ped, "EN_ATENCION", SinOpciones)
             s == [q EXCEPT !.llamado = TRUE]
  <2>1. Admite(ped, "EN_ATENCION", SinOpciones) /\ ped' = s
    BY <1>8 DEF Llama, CambiaCon
  <2>2. PasoLegal(ped, q)
    BY <1>0, <2>1, Tipos, OpcionesOK, TransitaLegal
  <2>3. ~Salta(ped, "EN_ATENCION", SinOpciones) /\ Destino(ped, "EN_ATENCION", SinOpciones) = "EN_ATENCION"
    BY DEF Salta, SinOpciones, Destino
  <2>4. q \in Pedidos /\ q.estado = "EN_ATENCION"
    <3>1. q \in Pedidos
      BY <1>0, OpcionesOK, TransitaEsPedido
    <3>2. q.estado = "EN_ATENCION"
      BY <2>3, <3>1, Tipos DEF Transita, Pedidos
    <3> QED
      BY <3>1, <3>2
  <2>5. /\ s \in Pedidos /\ s.estado = q.estado /\ s.encolado = q.encolado
        /\ s.espera = q.espera /\ s.enCaja = q.enCaja
        /\ s.domicilio = q.domicilio
    BY <2>4 DEF Pedidos
  <2>6. PasoLegal(ped, s)
    BY <2>2, <2>4, <2>5 DEF PasoLegal, Coherente
  <2> QED
    BY <1>8, <2>1, <2>6, Escrituras, TerminaLegal DEF Llama
<1>9. CASE Entrega(r)
  BY <1>0, <1>9, OpcionesOK, Escrituras, MueveLegal DEF Entrega
<1> QED
  BY <1>2, <1>3, <1>4, <1>5, <1>6, <1>7, <1>8, <1>9 DEF DeMostrador

\* The commits of presencia.service and of the kiosk.
LEMMA DePresenciaLegal ==
    ASSUME IInv, NEW r \in Peticiones, DePresencia(r)
    PROVE  Avance
<1>0. "REVISADO" \in EstadosPedido
  BY DEF EstadosPedido
<1>1. CASE LeeConfirmarLlegada(r)
  <2>1. /\ LecturaEstado("AVISAR_LLEGADA") \in Lecturas
        /\ LecturaEstado("AVISAR_LLEGADA").paso # "PAGAR_AGENTE"
    BY LecturasOK DEF Pasos, OperacionesConocidas
  <2>2. Sigue(r, LecturaEstado("AVISAR_LLEGADA")) /\ ped' = ped /\ propuestas' = propuestas
    BY <1>1 DEF LeeConfirmarLlegada
  <2> QED
    BY <2>1, <2>2, Tipos, LibresLegal, Escrituras, SigueLegal
<1>2. CASE AvisaLlegada(r)
  <2> DEFINE s == [peticiones[r] EXCEPT !.paso = "REACCIONAR"]
  <2>1. ped' \in Pedidos
    BY <1>2, Tipos DEF AvisaLlegada, Pedidos
  <2>2. PasoLegal(ped, ped')
    BY <1>2, <2>1, Tipos, LibresLegal DEF AvisaLlegada, Pedidos
  <2>3. s \in Lecturas /\ s.paso # "PAGAR_AGENTE"
    BY TiposLectura DEF Lecturas, Pasos
  <2>4. (Sigue(r, s) \/ Termina(r)) /\ EscribePropuestas
    BY <1>2, Escrituras DEF AvisaLlegada, Termina
  <2> QED
    BY <2>2, <2>3, <2>4, SigueLegal, TerminaLegal
<1>3. CASE AlLlegarCliente(r)
  BY <1>0, <1>3, OpcionesOK, Escrituras, MueveLegal DEF AlLlegarCliente
<1>4. CASE RetiraAviso(r)
  <2>1. ped' \in Pedidos
    BY <1>4, Tipos DEF RetiraAviso, Pedidos
  <2>2. PasoLegal(ped, ped')
    BY <1>4, <2>1, Tipos, LibresLegal DEF RetiraAviso, Pedidos
  <2> QED
    BY <1>4, <2>2, Escrituras, TerminaLegal DEF RetiraAviso
<1>5. CASE AplicaPresencia(r)
  <2> DEFINE q == Transita(ped, "REVISADO", SinOpciones)
             Ausente(p) == [p EXCEPT !.presente = @ /\ ~peticiones[r].dato]
  <2>1. ASSUME NEW p \in Pedidos
        PROVE  Ausente(p) \in Pedidos /\ MismasColumnas(p, Ausente(p))
    <3>1. PICK b \in BOOLEAN : b = (p.presente /\ ~peticiones[r].dato)
      OBVIOUS
    <3>2. Ausente(p) = [p EXCEPT !.presente = b]
      BY <3>1
    <3> QED
      BY <3>2 DEF Pedidos, MismasColumnas
  <2>2. q \in Pedidos
    BY <1>0, OpcionesOK, TransitaEsPedido
  <2>3. CambiaCon("REVISADO", SinOpciones, Ausente(q)) \/ ped' = Ausente(ped)
    BY <1>5 DEF AplicaPresencia
  <2> HIDE DEF Ausente
  <2>4. PasoLegal(ped, ped')
    <3>1. CASE CambiaCon("REVISADO", SinOpciones, Ausente(q))
      BY <1>0, <2>1, <2>2, <3>1, OpcionesOK, CambiaConLegal
    <3>2. CASE ped' = Ausente(ped)
      BY <2>1, <3>2, Tipos, LibresLegal DEF MismasColumnas
    <3> QED
      BY <2>3, <3>1, <3>2
  <2> QED
    BY <1>5, <2>4, Escrituras, TerminaLegal DEF AplicaPresencia
<1> QED
  BY <1>1, <1>2, <1>3, <1>4, <1>5 DEF DePresencia

\* The charge writes the state outside the machine, on what the ERP has.
LEMMA PagaLegal ==
    ASSUME IInv, NEW r \in Peticiones, Paga(r)
    PROVE  Avance
<1>1. ped.encolado /\ ped.estado = "PENDIENTE_PAGO"
  BY Tipos DEF Paga, IInv, AgenteCobraEncolado, Coherente, EnPoderDelErp
<1>2. ped' \in Pedidos
  BY Tipos DEF Paga, Pedidos, EstadosPedido
<1>3. ped' = [ped EXCEPT !.estado = "PAGADO"]
  BY DEF Paga
<1>4. PasoLegal(ped, ped')
  BY <1>1, <1>2, <1>3, Tipos
     DEF PasoLegal, Coherente, TRANSICIONES, EnPoderDelErp, ESTADOS_YA_COBRADOS,
         ESTADOS_BOLSA_APARTADA, ESTADOS_ESPERA_CLIENTE, Pedidos
<1> QED
  BY <1>4, Escrituras, TerminaLegal DEF Paga

\* The commits that cancel or charge the order.
LEMMA DeCierreLegal ==
    ASSUME IInv, NEW r \in Peticiones, DeCierre(r)
    PROVE  Avance
<1>0. "CANCELADO" \in EstadosPedido
  BY DEF EstadosPedido
<1>1. CASE CancelaCliente(r)
  <2> DEFINE o == [SaleDeBodega EXCEPT !.desde = {peticiones[r].est}]
  <2>1. o \in Opciones /\ ~o.encolar
    BY OpcionesOK, TiposLectura DEF Opciones
  <2>2. Cambia("CANCELADO", o) /\ Termina(r) /\ EscribePropuestas
    BY <1>1, Escrituras DEF CancelaCliente, EstadosPropuesta
  <2> QED
    BY <1>0, <2>1, <2>2, MueveLegal
<1>2. CASE CancelaTienda(r)
  BY <1>0, <1>2, OpcionesOK, Escrituras, MueveLegal DEF CancelaTienda
<1>3. CASE CancelaErp(r)
  BY <1>0, <1>3, OpcionesOK, Escrituras, MueveLegal DEF CancelaErp
<1>4. CASE Paga(r)
  BY <1>4, PagaLegal
<1> QED
  BY <1>1, <1>2, <1>3, <1>4 DEF DeCierre

\* The commits of DTF printing.
LEMMA DeDtfLegal ==
    ASSUME IInv, NEW r \in Peticiones, DeDtf(r)
    PROVE  Avance
<1>0. {"CANCELADO", "EN_DTF"} \subseteq EstadosPedido
  BY DEF EstadosPedido
<1>1. ASSUME NEW p \in {"DTF_RESOLVER", "DTF_REABRIR", "DTF_REABIERTO"}
      PROVE  Lectura(p) \in Lecturas /\ Lectura(p).paso # "PAGAR_AGENTE"
  <2>1. p \in Pasos
    BY DEF Pasos
  <2> QED
    BY <2>1, LecturasOK
<1>2. CASE TerminaDtf(r)
  <2>1. PICK a \in BOOLEAN, b \in BOOLEAN : ped' = [ped EXCEPT !.dtf = a, !.impreso = b]
    BY <1>2, Tipos DEF TerminaDtf, Pedidos
  <2>2. ped' \in Pedidos
    BY <2>1, Tipos DEF Pedidos
  <2>3. PasoLegal(ped, ped')
    BY <2>1, <2>2, Tipos, LibresLegal DEF Pedidos
  <2> QED
    BY <1>1, <1>2, <2>3, Escrituras, SigueLegal DEF TerminaDtf
<1>3. CASE ResuelveDtf(r)
  <2> DEFINE o == [SinOpciones EXCEPT !.encolar = ped.domicilio]
  <2>1. o \in Opciones /\ (o.encolar <=> ped.domicilio)
    BY Tipos, OpcionesOK DEF Opciones, Pedidos
  <2>2. DestinoTrasSurtido \in EstadosPedido /\ (o.encolar => DestinoTrasSurtido = "PENDIENTE_PAGO")
    BY <2>1, Destinos DEF DestinoTrasSurtido
  <2>3. \/ Cambia("CANCELADO", SaleDeBodega)
        \/ Cambia(DestinoTrasSurtido, o)
        \/ UNCHANGED ped
    BY <1>3 DEF ResuelveDtf
  <2>4. PasoLegal(ped, ped')
    BY <1>0, <2>1, <2>2, <2>3, Tipos, OpcionesOK, CambiaLegal, LibresLegal
  <2> QED
    BY <1>3, <2>4, Escrituras, TerminaLegal DEF ResuelveDtf
<1>4. CASE ReimprimeDtf(r)
  <2>1. PICK b \in BOOLEAN : ped' = [ped EXCEPT !.dtf = TRUE, !.impreso = b]
    BY <1>4 DEF ReimprimeDtf
  <2>2. ped' \in Pedidos
    BY <2>1, Tipos DEF Pedidos
  <2>3. PasoLegal(ped, ped')
    BY <2>1, <2>2, Tipos, LibresLegal DEF Pedidos
  <2> QED
    BY <1>1, <1>4, <2>3, Escrituras, SigueLegal DEF ReimprimeDtf
<1>5. CASE LeeDtfReabrir(r)
  BY <1>1, <1>5, Tipos, LibresLegal, Escrituras, SigueLegal DEF LeeDtfReabrir
<1>6. CASE ReabreDtf(r)
  BY <1>0, <1>6, OpcionesOK, Escrituras, MueveLegal DEF ReabreDtf
<1> QED
  BY <1>2, <1>3, <1>4, <1>5, <1>6 DEF DeDtf

\* A request that dies writes nothing.
LEMMA AbandonaLegal ==
    ASSUME IInv, NEW r \in Peticiones, Abandona(r)
    PROVE  Avance
BY Tipos, LibresLegal, Escrituras, TerminaLegal DEF Abandona

-----------------------------------------------------------------------------
(* The theorems.                                                           *)

\* Every step of every handler is a legal write of the row.
LEMMA NextAvanza ==
    ASSUME IInv, Next
    PROVE  Avance
<1>1. PICK r \in Peticiones :
         \/ Lee(r) \/ DeBodega(r) \/ DePropuesta(r) \/ DeMostrador(r)
         \/ DePresencia(r) \/ DeCierre(r) \/ DeDtf(r) \/ Abandona(r)
  BY DEF Next
<1> QED
  BY <1>1, LeeLegal, DeBodegaLegal, DePropuestaLegal, DeMostradorLegal,
     DePresenciaLegal, DeCierreLegal, DeDtfLegal, AbandonaLegal

\* A new order satisfies the invariant.
LEMMA InitIInv == Init => IInv
<1> SUFFICES ASSUME Init PROVE IInv
  OBVIOUS
<1>1. PICK domicilio \in BOOLEAN, soloDtf \in BOOLEAN, dtf \in BOOLEAN, presente \in BOOLEAN :
         ped = [estado    |-> IF soloDtf THEN "EN_DTF" ELSE "SOLICITADO",
                asignado  |-> NADIE,    encolado  |-> FALSE,
                enCaja    |-> FALSE,    espera    |-> FALSE,
                llamado   |-> FALSE,    corre     |-> FALSE,
                presente  |-> presente,
                lineas    |-> IF soloDtf THEN "COMPLETAS" ELSE "PENDIENTES",
                dtf       |-> dtf,      impreso   |-> FALSE,
                soloDtf   |-> soloDtf,  domicilio |-> domicilio]
  BY DEF Init
<1>2. ped \in Pedidos
  BY <1>1 DEF Pedidos, EstadosPedido, EstadosLineas
<1>3. Coherente(ped)
  BY <1>1 DEF Coherente, EnPoderDelErp, ESTADOS_YA_COBRADOS,
              ESTADOS_BOLSA_APARTADA, ESTADOS_ESPERA_CLIENTE
<1>4. propuestas \in [IdPropuesta -> Propuestas]
  BY DEF Init, NoExiste, Propuestas, Origenes
<1>5. Libre \in Lecturas /\ Libre.paso # "PAGAR_AGENTE"
  BY DEF Libre, Lecturas, Pasos, EstadosPedido
<1>6. peticiones \in [Peticiones -> Lecturas] /\ AgenteCobraEncolado
  BY <1>5 DEF Init, AgenteCobraEncolado, En
<1> QED
  BY <1>2, <1>3, <1>4, <1>6 DEF IInv, TypeOK

\* And every step keeps it.
LEMMA IInvInductiva == IInv /\ [Next]_vars => IInv'
<1>1. ASSUME IInv, Next PROVE IInv'
  BY <1>1, NextAvanza DEF Avance, PasoLegal, IInv, TypeOK
<1>2. ASSUME IInv, UNCHANGED vars PROVE IInv'
  BY <1>2 DEF vars, IInv, TypeOK, AgenteCobraEncolado, En
<1> QED
  BY <1>1, <1>2

\* The columns of an order agree with its state, and the agent only charges
\* what got to the ERP, in every interleaving of any number of requests.
THEOREM Invariancia == Spec => []IInv
BY InitIInv, IInvInductiva, PTL DEF Spec

\* Every column and every request in flight keeps its type.
THEOREM TipoCorrecto == Spec => []TypeOK
<1>1. IInv => TypeOK
  BY DEF IInv
<1> QED
  BY <1>1, Invariancia, PTL

\* An order is in the ERP's queue exactly while it is at the till or beyond,
\* with any number of handlers interleaved.
THEOREM ErpSoloDesdeCaja == Spec => []EncoladoSiiEnCaja
<1>1. IInv => EncoladoSiiEnCaja
  BY DEF IInv, Coherente, EncoladoSiiEnCaja
<1> QED
  BY <1>1, Invariancia, PTL

\* The wait of the customer is counted exactly while the bag is on the table.
THEOREM EsperaCorrecta == Spec => []EsperaSiiBolsaApartada
<1>1. IInv => EsperaSiiBolsaApartada
  BY DEF IInv, Coherente, EsperaSiiBolsaApartada
<1> QED
  BY <1>1, Invariancia, PTL

\* The screen calls only customers of orders that are being attended.
THEOREM LlamadoCorrecto == Spec => []LlamadoSoloEnAtencion
<1>1. IInv => LlamadoSoloEnAtencion
  BY DEF IInv, Coherente, LlamadoSoloEnAtencion
<1> QED
  BY <1>1, Invariancia, PTL

\* No order at the till is missing from its line.
THEOREM FilaCorrecta == Spec => []FilaDeCajaCompleta
<1>1. IInv => FilaDeCajaCompleta
  BY DEF IInv, Coherente, FilaDeCajaCompleta
<1> QED
  BY <1>1, Invariancia, PTL

\* No interleaving of the handlers moves an order against the table.
THEOREM TransicionesCorrectas == Spec => SoloTransicionesLegales
<1>1. IInv /\ [Next]_vars => [ped'.estado # ped.estado => ped'.estado \in TRANSICIONES[ped.estado]]_vars
  BY NextAvanza DEF Avance, PasoLegal
<1> QED
  BY <1>1, Invariancia, PTL DEF Spec, SoloTransicionesLegales

\* What the ERP has never comes back to be prepared.
THEOREM CajaSinRegreso == Spec => NuncaVuelveDeCaja
<1>1. IInv /\ [Next]_vars =>
        [ped.estado \in EnPoderDelErp => ped'.estado \in EnPoderDelErp \cup {"CANCELADO"}]_vars
  <2>1. ASSUME IInv, Next, ped.estado \in EnPoderDelErp
        PROVE  ped'.estado \in EnPoderDelErp \cup {"CANCELADO"}
    BY <2>1, NextAvanza, Tipos, Tabla DEF Avance, PasoLegal, EnPoderDelErp
  <2> QED
    BY <2>1
<1> QED
  BY <1>1, Invariancia, PTL DEF Spec, NuncaVuelveDeCaja

-----------------------------------------------------------------------------
(* Refinement: the order's life as CicloPedido promises it.                *)

\* A move along the table is a step of the cycle, or none, and the ERP's row
\* only appears on the way to the till.
LEMMA FaseDeUnPaso ==
    ASSUME NEW e \in EstadosPedido, NEW d \in TRANSICIONES[e]
    PROVE  \/ Fase(d) = Fase(e)
           \/ Fase(e) = "Tienda" /\ Fase(d) = "Caja"
           \/ Fase(e) \in DOMAIN Ciclo!Siguientes /\ Fase(d) \in Ciclo!Siguientes[Fase(e)]
           \/ Fase(e) \in Ciclo!Vivas /\ Fase(d) = "Cancelado"
BY DEF EstadosPedido, TRANSICIONES, Fase, Ciclo!Siguientes, Ciclo!Vivas, Ciclo!Fases

\* A step of the handlers is a step of the cycle, or none.
LEMMA PasoDelCiclo ==
    ASSUME IInv, Next
    PROVE  [Ciclo!Next]_(Ciclo!vars)
<1>1. Avance
  BY NextAvanza
<1>2. /\ ped \in Pedidos /\ Coherente(ped) /\ ped.estado \in EstadosPedido
      /\ PasoLegal(ped, ped') /\ ped' \in Pedidos /\ Coherente(ped')
  BY <1>1, Tipos DEF Avance, PasoLegal
<1>3. /\ ped.encolado \in BOOLEAN /\ ped'.encolado \in BOOLEAN
      /\ ped.encolado => ped'.encolado
      /\ ped'.estado # ped.estado => ped'.estado \in TRANSICIONES[ped.estado]
      /\ ~ped.encolado /\ ped'.encolado => ped'.estado = "PENDIENTE_PAGO"
  BY <1>2 DEF PasoLegal, Pedidos
<1>4. CASE ped'.encolado = ped.encolado /\ ped'.estado = ped.estado
  BY <1>4 DEF Ciclo!vars
<1>5. CASE ~ped.encolado /\ ped'.encolado
  <2>1. ped'.estado = "PENDIENTE_PAGO" /\ ped.estado \notin EnPoderDelErp
    BY <1>2, <1>3, <1>5 DEF Coherente
  <2>2. ped'.estado # ped.estado
    BY <2>1 DEF EnPoderDelErp
  <2>3. ped.estado # "CANCELADO"
    BY <1>2, <1>3, <2>2, Tabla
  <2>4. Fase(ped.estado) = "Tienda" /\ Fase(ped'.estado) = "Caja"
    BY <2>1, <2>3 DEF Fase, EnPoderDelErp, ESTADOS_YA_COBRADOS
  <2>5. Ciclo!PasaACaja
    BY <1>3, <1>5, <2>4 DEF Ciclo!PasaACaja
  <2> QED
    BY <2>5 DEF Ciclo!Next
<1>6. CASE ped'.encolado = ped.encolado /\ ped'.estado # ped.estado
  <2>1. ped'.estado \in TRANSICIONES[ped.estado]
    BY <1>3, <1>6
  <2>2. CASE Fase(ped'.estado) = Fase(ped.estado)
    BY <1>6, <2>2 DEF Ciclo!vars
  <2>3. ~(Fase(ped.estado) = "Tienda" /\ Fase(ped'.estado) = "Caja")
    <3>1. Fase(ped.estado) = "Tienda" => ped.estado \notin EnPoderDelErp \cup {"CANCELADO"}
      BY DEF Fase, EnPoderDelErp, ESTADOS_YA_COBRADOS
    <3>2. Fase(ped'.estado) = "Caja" => ped'.estado \in EnPoderDelErp
      BY DEF Fase, EnPoderDelErp
    <3> QED
      BY <1>2, <1>6, <3>1, <3>2 DEF Coherente
  <2>4. CASE Fase(ped.estado) \in DOMAIN Ciclo!Siguientes
             /\ Fase(ped'.estado) \in Ciclo!Siguientes[Fase(ped.estado)]
    BY <1>6, <2>4 DEF Ciclo!Next, Ciclo!Avanza
  <2>5. CASE Fase(ped.estado) \in Ciclo!Vivas /\ Fase(ped'.estado) = "Cancelado"
    BY <1>6, <2>5 DEF Ciclo!Next, Ciclo!Cancela
  <2> QED
    BY <1>2, <2>1, <2>2, <2>3, <2>4, <2>5, FaseDeUnPaso
<1> QED
  BY <1>3, <1>4, <1>5, <1>6

\* A new order is in the store and not in the ERP.
LEMMA InicioDelCiclo == Init => Ciclo!Init
<1> SUFFICES ASSUME Init PROVE Ciclo!Init
  OBVIOUS
<1>1. ped.estado \in {"EN_DTF", "SOLICITADO"} /\ ped.encolado = FALSE
  BY DEF Init
<1> QED
  BY <1>1 DEF Ciclo!Init, Fase

\* The order, whatever handlers run at once, lives the cycle that CicloPedido
\* promises: once to the till and to the ERP, charged only there, never back.
THEOREM Refinamiento == Spec => ImplementaCicloPedido
<1>1. IInv /\ [Next]_vars => [Ciclo!Next]_(Ciclo!vars)
  <2>1. ASSUME IInv, UNCHANGED vars
        PROVE  UNCHANGED Ciclo!vars
    BY <2>1 DEF vars, Ciclo!vars
  <2> QED
    BY <2>1, PasoDelCiclo
<1> QED
  BY <1>1, InicioDelCiclo, Invariancia, PTL DEF Spec, ImplementaCicloPedido, Ciclo!Spec
-----------------------------------------------------------------------------
(* What a handler read and what it finds.                                  *)

\* Where a transition leads: to the state that the handler asked for, or to
\* wait for the printer.
LlegaA(e, nuevo) == e = nuevo \/ (e = "EN_DTF" /\ nuevo \in {"REVISADO", "PENDIENTE_PAGO"})

\* A transition leads there and leaves alone what ejecutarCambio never writes.
LEMMA TransitaLlega ==
    ASSUME IInv, NEW nuevo \in EstadosPedido, NEW o \in Opciones,
           NEW q, q = Transita(ped, nuevo, o)
    PROVE  q \in Pedidos /\ MismosDatos(ped, q) /\ LlegaA(q.estado, nuevo)
<1> DEFINE d == Destino(ped, nuevo, o)
<1>1. d = nuevo \/ (d = "EN_DTF" /\ nuevo \in {"REVISADO", "PENDIENTE_PAGO"})
  BY DEF Destino, PidenDtfImpreso
<1>2. /\ q \in Pedidos /\ MismosDatos(ped, q)
      /\ Salta(ped, nuevo, o) => q.estado = ped.estado
      /\ ~Salta(ped, nuevo, o) => q.estado = d
  BY Tipos, TransitaCampos
<1> QED
  BY <1>1, <1>2 DEF Salta, LlegaA

\* So does a handler that only moves the order.
LEMMA CambiaLlega ==
    ASSUME IInv, NEW nuevo \in EstadosPedido, NEW o \in Opciones, Cambia(nuevo, o)
    PROVE  MismosDatos(ped, ped') /\ LlegaA(ped'.estado, nuevo)
BY TransitaLlega DEF Cambia

\* Steps of which nothing that was read matters.
PasosLibres ==
    {"NINGUNO", "TOMAR", "TOMAR_GRUPO", "LIBERAR", "ENVIAR", "DEVOLVER_A_BODEGA",
     "CANCELAR_MOSTRADOR", "CANCELAR_VENCIDO", "ENTREGAR", "CANCELAR_CLIENTE",
     "CANCELAR_SIN_PAGO", "CANCELAR_PAGADO", "CANCELAR_ERP", "PAGAR_AGENTE",
     "PAGAR_MANUAL", "DTF_TERMINAR", "DTF_REIMPRIMIR", "CONFIRMAR_LLEGADA",
     "DTF_RESOLVER", "DTF_REABRIR"}

Decisiones == {"APROBAR", "RECHAZAR", "CONTACTAR_ASESOR", "CANCELAR_PEDIDO"}

\* The row p is as the request l read it, in what the rest of its handler
\* takes for granted.
Leyo(p, l) ==
    /\ l.paso = "MARCAR_ITEM" => p.estado = "EN_REVISION"
    /\ l.paso = "CONFIRMAR_SURTIDO" =>
         /\ p.lineas # "PENDIENTES"
         /\ l.dest \in {"REVISADO", "PENDIENTE_PAGO", "ESPERANDO_APROBACION"}
         /\ l.dest = "ESPERANDO_APROBACION" => l.dato
         /\ p.domicilio => l.dest = "PENDIENTE_PAGO"
    /\ l.paso = "ENVIAR_PROPUESTA" => p.estado \in {"EN_ASESORIA", "ESPERANDO_APROBACION"}
    /\ l.paso \in Decisiones =>
         /\ p.estado \in ESTADOS_BOLSA_APARTADA
         /\ l.dato => p.lineas = "PENDIENTES"
         /\ l.dest \in {"REVISADO", "EN_ATENCION", "PENDIENTE_PAGO"}
         /\ l.dest = "EN_ATENCION" => p.estado = "EN_ATENCION"
    /\ l.paso # "APROBADA_CON_RESIDUO"
    /\ l.paso = "APROBADA_SIN_PENDIENTES" =>
         p.lineas # "PENDIENTES" /\ l.dest \in {"REVISADO", "PENDIENTE_PAGO"}
    /\ l.paso = "ENVIAR_A_PAGAR" => p.estado \in {"REVISADO", "EN_ATENCION"}
    /\ l.paso = "AJUSTAR" =>
         /\ p.estado \in ESTADOS_BOLSA_APARTADA
         /\ l.dato => l.dest = "EN_REVISION"
         /\ ~l.dato => l.dest = IF p.estado = "EN_ATENCION" THEN "EN_ATENCION" ELSE "REVISADO"
    /\ l.paso = "DEVOLVER_A_COLA" => p.estado = "EN_ATENCION"
    /\ l.paso = "TRAER_A_ENTREGA" => p.estado = "EN_ASESORIA"
    /\ l.paso = "LLAMAR" => p.estado = "REVISADO" /\ p.presente
    /\ l.paso = "AVISAR_LLEGADA" => p.estado = l.est /\ ~p.domicilio
    /\ l.paso = "REACCIONAR" => p.estado = "ESPERANDO_APROBACION"
    /\ l.paso = "RETIRAR_AVISO" => p.estado # "EN_ATENCION"
    /\ l.paso = "DESCARTAR" => p.estado = l.est
    /\ l.paso = "NO_SE_PRESENTO" => p.estado = l.est /\ p.estado = "EN_ATENCION"
    /\ l.paso = "DTF_REABIERTO" => p.estado \in {"REVISADO", "EN_ATENCION"}

\* A request whose reading does not matter is always up to date.
LEMMA LeyoLibre ==
    ASSUME NEW p, NEW l, l.paso \in PasosLibres
    PROVE  Leyo(p, l)
BY DEF Leyo, PasosLibres, Decisiones

\* A free slot carries no request.
LEMMA LibreEsLibre == Libre.paso = "NINGUNO" /\ Libre.paso \in PasosLibres
BY DEF Libre, PasosLibres

\* A reading keeps its step, and the state of the row when it takes it.
LEMMA DeLectura ==
    ASSUME NEW paso
    PROVE  /\ Lectura(paso).paso = paso
           /\ LecturaEstado(paso).paso = paso
           /\ LecturaEstado(paso).est = ped.estado
BY DEF Lectura, LecturaEstado, Libre

\* The steps at which a request begins.
Primeros == OperacionesConocidas \cup Decisiones

\* What a request carries when it begins: nothing is written, and the row is
\* as it read it.
LeeAsi(r, l) ==
    /\ peticiones[r] = Libre
    /\ Sigue(r, l)
    /\ ped' = ped /\ propuestas' = propuestas
    /\ l.paso \in Primeros
    /\ Leyo(ped, l)

\* A new request whose reading is true begins that way.
LEMMA RecibeAsi ==
    ASSUME NEW r, NEW op, NEW l, Recibe(r, op, l), l.paso \in Primeros, Leyo(ped, l)
    PROVE  \E m : LeeAsi(r, m)
BY DEF Recibe, LeeAsi, Sigue

\* All the handlers begin by reading the row as it is.
LEMMA LeeCierto ==
    ASSUME IInv, NEW r \in Peticiones, Lee(r)
    PROVE  \E l : LeeAsi(r, l)
<1> USE DEF Primeros, OperacionesConocidas, Decisiones
<1>0. ASSUME NEW op, NEW paso \in PasosLibres \cap OperacionesConocidas,
             \/ Recibe(r, op, Lectura(paso)) \/ Recibe(r, op, LecturaEstado(paso))
      PROVE  \E l : LeeAsi(r, l)
  BY <1>0, DeLectura, LeyoLibre, RecibeAsi
<1>1. CASE LeeTomar(r)
  <2>1. PICK u \in Bodegueros :
           Recibe(r, "TOMAR", [LecturaEstado("TOMAR") EXCEPT !.quien = u])
    BY <1>1 DEF LeeTomar
  <2>2. PICK l : l = [LecturaEstado("TOMAR") EXCEPT !.quien = u]
    OBVIOUS
  <2>3. l.paso = "TOMAR" /\ l.paso \in PasosLibres
    BY <2>2 DEF LecturaEstado, Lectura, Libre, PasosLibres
  <2> QED
    BY <2>1, <2>2, <2>3, LeyoLibre, RecibeAsi
<1>2. CASE LeeConfirmarSurtido(r)
  <2>1. PICK u \in Bodegueros \cup {NADIE}, b \in BOOLEAN : \E d :
           /\ ped.lineas # "PENDIENTES"
           /\ b = (ped.lineas = "CON_FALTANTE")
           /\ d = IF ped.lineas = "CON_FALTANTE" THEN DestinoTrasSurtidoIncompleto
                  ELSE DestinoTrasSurtido
           /\ Recibe(r, "CONFIRMAR_SURTIDO",
                     [Lectura("CONFIRMAR_SURTIDO") EXCEPT !.quien = u, !.dato = b, !.dest = d])
    BY <1>2 DEF LeeConfirmarSurtido
  <2>2. PICK d :
           /\ ped.lineas # "PENDIENTES"
           /\ b = (ped.lineas = "CON_FALTANTE")
           /\ d = IF ped.lineas = "CON_FALTANTE" THEN DestinoTrasSurtidoIncompleto
                  ELSE DestinoTrasSurtido
           /\ Recibe(r, "CONFIRMAR_SURTIDO",
                     [Lectura("CONFIRMAR_SURTIDO") EXCEPT !.quien = u, !.dato = b, !.dest = d])
    BY <2>1
  <2>3. PICK l : l = [Lectura("CONFIRMAR_SURTIDO") EXCEPT !.quien = u, !.dato = b, !.dest = d]
    OBVIOUS
  <2>4. l.paso = "CONFIRMAR_SURTIDO" /\ l.dato = b /\ l.dest = d
    BY <2>3 DEF Lectura, Libre
  <2>5. /\ d \in {"REVISADO", "PENDIENTE_PAGO", "ESPERANDO_APROBACION"}
        /\ d = "ESPERANDO_APROBACION" => b
        /\ ped.domicilio => d = "PENDIENTE_PAGO"
    BY <2>2 DEF DestinoTrasSurtido, DestinoTrasSurtidoIncompleto
  <2>6. Leyo(ped, l)
    BY <2>2, <2>4, <2>5 DEF Leyo
  <2> QED
    BY <2>2, <2>3, <2>4, <2>6, RecibeAsi
<1>3. CASE LeeResponder(r)
  <2>1. PICK i \in IdPropuesta : \E d \in DECISIONES_POR_ORIGEN[propuestas[i].origen] :
           /\ ped.estado \in EstadosRespondibles(d)
           /\ Recibe(r, "RESPONDER", [Lectura(d) EXCEPT
                       !.prop = i, !.dest = DestinoAprobada,
                       !.dato = ped.lineas = "PENDIENTES"])
    BY <1>3 DEF LeeResponder
  <2>2. PICK d \in DECISIONES_POR_ORIGEN[propuestas[i].origen] :
           /\ ped.estado \in EstadosRespondibles(d)
           /\ Recibe(r, "RESPONDER", [Lectura(d) EXCEPT
                       !.prop = i, !.dest = DestinoAprobada,
                       !.dato = ped.lineas = "PENDIENTES"])
    BY <2>1
  <2>3. propuestas[i].origen \in Origenes
    BY Tipos DEF Propuestas
  <2>4. d \in Decisiones
    BY <2>2, <2>3 DEF DECISIONES_POR_ORIGEN, Origenes, Decisiones
  <2>5. PICK l : l = [Lectura(d) EXCEPT !.prop = i, !.dest = DestinoAprobada,
                                        !.dato = ped.lineas = "PENDIENTES"]
    OBVIOUS
  <2>6. l.paso = d /\ l.dest = DestinoAprobada /\ l.dato = (ped.lineas = "PENDIENTES")
    BY <2>5 DEF Lectura, Libre
  <2>7. ped.estado \in ESTADOS_BOLSA_APARTADA
    BY <2>2 DEF EstadosRespondibles, ESTADOS_BOLSA_APARTADA, ESTADOS_ESPERA_CLIENTE
  <2>8. /\ DestinoAprobada \in {"REVISADO", "EN_ATENCION", "PENDIENTE_PAGO"}
        /\ DestinoAprobada = "EN_ATENCION" => ped.estado = "EN_ATENCION"
    BY DEF DestinoAprobada, DestinoTrasSurtido
  <2>9. Leyo(ped, l) /\ l.paso \in Primeros
    BY <2>4, <2>6, <2>7, <2>8 DEF Leyo
  <2> QED
    BY <2>2, <2>5, <2>9, RecibeAsi
<1>4. CASE LeeAjustar(r)
  <2>1. PICK b \in BOOLEAN :
           /\ ped.estado \in {"ESPERANDO_APROBACION", "REVISADO", "EN_ATENCION"}
           /\ Recibe(r, "AJUSTAR",
                     [Lectura("AJUSTAR") EXCEPT
                        !.dato = b,
                        !.dest = CASE b -> "EN_REVISION"
                                   [] ~b /\ ped.estado = "ESPERANDO_APROBACION" -> "REVISADO"
                                   [] OTHER -> ped.estado])
    BY <1>4 DEF LeeAjustar
  <2> DEFINE d == CASE b -> "EN_REVISION"
                    [] ~b /\ ped.estado = "ESPERANDO_APROBACION" -> "REVISADO"
                    [] OTHER -> ped.estado
  <2>2. PICK l : l = [Lectura("AJUSTAR") EXCEPT !.dato = b, !.dest = d]
    OBVIOUS
  <2>3. l.paso = "AJUSTAR" /\ l.dato = b /\ l.dest = d
    BY <2>2 DEF Lectura, Libre
  <2>4. /\ b => d = "EN_REVISION"
        /\ ~b => d = IF ped.estado = "EN_ATENCION" THEN "EN_ATENCION" ELSE "REVISADO"
        /\ ped.estado \in ESTADOS_BOLSA_APARTADA
    BY <2>1 DEF ESTADOS_BOLSA_APARTADA, ESTADOS_ESPERA_CLIENTE
  <2>5. Leyo(ped, l)
    BY <2>3, <2>4 DEF Leyo
  <2> QED
    BY <2>1, <2>2, <2>3, <2>5, RecibeAsi
<1>5. CASE LeeDescartar(r)
  <2>1. PICK l : l = [LecturaEstado("DESCARTAR") EXCEPT !.dato = TRUE]
    OBVIOUS
  <2>2. l.paso = "DESCARTAR" /\ l.est = ped.estado
    BY <2>1 DEF LecturaEstado, Lectura, Libre
  <2>3. Leyo(ped, l)
    BY <2>2 DEF Leyo
  <2> QED
    BY <1>5, <2>1, <2>2, <2>3, RecibeAsi DEF LeeDescartar
<1>6. CASE LeeNoSePresento(r)
  <2>1. PICK b \in BOOLEAN :
           /\ ped.estado = "EN_ATENCION"
           /\ Recibe(r, "NO_SE_PRESENTO", [LecturaEstado("NO_SE_PRESENTO") EXCEPT !.dato = b])
    BY <1>6 DEF LeeNoSePresento
  <2>2. PICK l : l = [LecturaEstado("NO_SE_PRESENTO") EXCEPT !.dato = b]
    OBVIOUS
  <2>3. l.paso = "NO_SE_PRESENTO" /\ l.est = ped.estado
    BY <2>2 DEF LecturaEstado, Lectura, Libre
  <2>4. Leyo(ped, l)
    BY <2>1, <2>3 DEF Leyo
  <2> QED
    BY <2>1, <2>2, <2>3, <2>4, RecibeAsi
<1>7. CASE LeePagar(r)
  BY <1>7, <1>0 DEF LeePagar, PasosLibres
<1>8. CASE LeeLiberar(r)
  BY <1>8, <1>0 DEF LeeLiberar, PasosLibres
<1>9. CASE LeeMarcarItem(r)
  <2>1. Leyo(ped, Lectura("MARCAR_ITEM"))
    BY <1>9, DeLectura DEF LeeMarcarItem, Leyo
  <2> QED
    BY <1>9, <2>1, DeLectura, RecibeAsi DEF LeeMarcarItem
<1>10. CASE LeeEnviar(r)
  BY <1>10, <1>0 DEF LeeEnviar, PasosLibres
<1>11. CASE LeeEnviarPropuesta(r)
  <2>1. Leyo(ped, Lectura("ENVIAR_PROPUESTA"))
    BY <1>11, DeLectura DEF LeeEnviarPropuesta, Leyo
  <2> QED
    BY <1>11, <2>1, DeLectura, RecibeAsi DEF LeeEnviarPropuesta
<1>12. CASE LeeDevolverABodega(r)
  BY <1>12, <1>0 DEF LeeDevolverABodega, PasosLibres
<1>13. CASE LeeEnviarAPagar(r)
  <2>1. Leyo(ped, Lectura("ENVIAR_A_PAGAR"))
    BY <1>13, DeLectura DEF LeeEnviarAPagar, Leyo
  <2> QED
    BY <1>13, <2>1, DeLectura, RecibeAsi DEF LeeEnviarAPagar
<1>14. CASE LeeCancelarMostrador(r)
  BY <1>14, <1>0 DEF LeeCancelarMostrador, PasosLibres
<1>15. CASE LeeCancelarVencido(r)
  BY <1>15, <1>0 DEF LeeCancelarVencido, PasosLibres
<1>16. CASE LeeDevolverACola(r)
  <2>1. Leyo(ped, Lectura("DEVOLVER_A_COLA"))
    BY <1>16, DeLectura DEF LeeDevolverACola, Leyo
  <2> QED
    BY <1>16, <2>1, DeLectura, RecibeAsi DEF LeeDevolverACola
<1>17. CASE LeeTraerAEntrega(r)
  <2>1. Leyo(ped, Lectura("TRAER_A_ENTREGA"))
    BY <1>17, DeLectura DEF LeeTraerAEntrega, Leyo
  <2> QED
    BY <1>17, <2>1, DeLectura, RecibeAsi DEF LeeTraerAEntrega
<1>18. CASE LeeLlamar(r)
  <2>1. Leyo(ped, Lectura("LLAMAR"))
    BY <1>18, DeLectura DEF LeeLlamar, Leyo
  <2> QED
    BY <1>18, <2>1, DeLectura, RecibeAsi DEF LeeLlamar
<1>19. CASE LeeEntregar(r)
  BY <1>19, <1>0 DEF LeeEntregar, PasosLibres
<1>20. CASE LeeAvisarLlegada(r)
  <2>1. Leyo(ped, LecturaEstado("AVISAR_LLEGADA"))
    BY <1>20, DeLectura DEF LeeAvisarLlegada, PuedeAvisar, Leyo
  <2> QED
    BY <1>20, <2>1, DeLectura, RecibeAsi DEF LeeAvisarLlegada
<1>21. CASE LeeRetirarAviso(r)
  <2>1. Leyo(ped, Lectura("RETIRAR_AVISO"))
    BY <1>21, DeLectura DEF LeeRetirarAviso, Leyo
  <2> QED
    BY <1>21, <2>1, DeLectura, RecibeAsi DEF LeeRetirarAviso
<1>22. CASE LeeCancelarCliente(r)
  BY <1>22, <1>0 DEF LeeCancelarCliente, PasosLibres
<1>23. CASE LeeCancelarTienda(r)
  BY <1>23, <1>0 DEF LeeCancelarTienda, PasosLibres
<1>24. CASE LeeCancelarErp(r)
  BY <1>24, <1>0 DEF LeeCancelarErp, PasosLibres
<1>25. CASE LeeDtfTerminar(r)
  BY <1>25, <1>0 DEF LeeDtfTerminar, PasosLibres
<1>26. CASE LeeDtfReimprimir(r)
  BY <1>26, <1>0 DEF LeeDtfReimprimir, PasosLibres
<1>27. CASE LeeTomarGrupo(r)
  <2>1. PICK u \in Bodegueros :
           Recibe(r, "TOMAR_GRUPO", [Lectura("TOMAR_GRUPO") EXCEPT !.quien = u])
    BY <1>27 DEF LeeTomarGrupo
  <2>2. PICK l : l = [Lectura("TOMAR_GRUPO") EXCEPT !.quien = u]
    OBVIOUS
  <2>3. l.paso = "TOMAR_GRUPO" /\ l.paso \in PasosLibres
    BY <2>2 DEF Lectura, Libre, PasosLibres
  <2> QED
    BY <2>1, <2>2, <2>3, LeyoLibre, RecibeAsi
<1> QED
  BY <1>1, <1>2, <1>3, <1>4, <1>5, <1>6, <1>7, <1>8, <1>9, <1>10, <1>11, <1>12, <1>13, <1>14, <1>15, <1>16, <1>17, <1>18, <1>19, <1>20, <1>21, <1>22, <1>23, <1>24, <1>25, <1>26, <1>27
     DEF Lee

-----------------------------------------------------------------------------
(* An order that is delivered at home never waits for its customer nor goes *)
(* through the delivery table, whatever its requests interleave.            *)

DeMesaYVentas == {"ESPERANDO_APROBACION", "EN_ASESORIA", "REVISADO", "EN_ATENCION"}

\* The handlers that only an order of the store can have in flight.
PasosDeTienda ==
    Decisiones \cup
    {"ENVIAR_PROPUESTA", "APROBADA_CON_RESIDUO", "APROBADA_SIN_PENDIENTES", "AJUSTAR",
     "ENVIAR_A_PAGAR", "DEVOLVER_A_COLA", "TRAER_A_ENTREGA", "LLAMAR",
     "CONFIRMAR_LLEGADA", "AVISAR_LLEGADA", "REACCIONAR", "NO_SE_PRESENTO",
     "DTF_REABIERTO"}

PasoADomicilio(l) ==
    /\ l.paso \notin PasosDeTienda
    /\ l.paso = "DESCARTAR" => l.est # "EN_ATENCION"
    /\ l.paso = "CONFIRMAR_SURTIDO" => l.dest = "PENDIENTE_PAGO"

AlDomicilio ==
    ped.domicilio =>
      /\ ped.estado \notin DeMesaYVentas
      /\ ~HayPendiente
      /\ \A r \in Peticiones : PasoADomicilio(peticiones[r])

\* What a handler reads of such an order is none of that.
LEMMA LeeADomicilio ==
    ASSUME NEW l, l.paso \in Primeros, Leyo(ped, l),
           ped.domicilio, ped.estado \notin DeMesaYVentas
    PROVE  PasoADomicilio(l)
BY DEF Leyo, PasoADomicilio, PasosDeTienda, Decisiones, DeMesaYVentas,
       ESTADOS_BOLSA_APARTADA, ESTADOS_ESPERA_CLIENTE, Primeros, OperacionesConocidas

\* The steps that need nothing of what was read begin no handler of the store.
LEMMA PasoLibreADomicilio ==
    ASSUME NEW l, l.paso \in PasosLibres, l.paso # "CONFIRMAR_LLEGADA"
    PROVE  PasoADomicilio(l)
BY DEF PasosLibres, PasoADomicilio, PasosDeTienda, Decisiones

\* What the steps of such an order have in common.
EnRuta == IInv /\ AlDomicilio /\ ped.domicilio

\* The order stays out of the table, none of its proposals is opened and its
\* request ends or goes on.
LEMMA SigueADomicilio ==
    ASSUME EnRuta, NEW r \in Peticiones, NEW l, Sigue(r, l), PasoADomicilio(l),
           UNCHANGED propuestas \/ (\E e \in EstadosPropuesta : CierraPendientes(e)),
           ped'.estado \notin DeMesaYVentas
    PROVE  AlDomicilio'
<1>1. peticiones \in [Peticiones -> Lecturas] /\ propuestas \in [IdPropuesta -> Propuestas]
  BY Tipos DEF EnRuta
<1>2. \A s \in Peticiones : PasoADomicilio(peticiones'[s])
  BY <1>1 DEF Sigue, EnRuta, AlDomicilio
<1>3. \A i \in IdPropuesta : propuestas'[i] = propuestas[i]
  BY <1>1 DEF CierraPendientes, HayPendiente, EnRuta, AlDomicilio
<1>4. ~HayPendiente'
  BY <1>3 DEF HayPendiente, Pendiente, EnRuta, AlDomicilio
<1> QED
  BY <1>2, <1>4 DEF AlDomicilio

\* A request of such an order that ends.
LEMMA TerminaADomicilio ==
    ASSUME EnRuta, NEW r \in Peticiones, Termina(r),
           UNCHANGED propuestas \/ (\E e \in EstadosPropuesta : CierraPendientes(e)),
           ped'.estado \notin DeMesaYVentas
    PROVE  AlDomicilio'
<1>1. PasoADomicilio(Libre)
  BY LibreEsLibre, PasoLibreADomicilio
<1> QED
  BY <1>1, SigueADomicilio DEF Termina

\* A handler that moves it, and ends.
LEMMA MueveADomicilio ==
    ASSUME EnRuta, NEW r \in Peticiones, Termina(r),
           UNCHANGED propuestas \/ (\E e \in EstadosPropuesta : CierraPendientes(e)),
           NEW nuevo \in EstadosPedido \ DeMesaYVentas, NEW o \in Opciones,
           Cambia(nuevo, o)
    PROVE  AlDomicilio'
<1>1. LlegaA(ped'.estado, nuevo)
  BY CambiaLlega DEF EnRuta
<1>2. ped'.estado \notin DeMesaYVentas
  BY <1>1 DEF LlegaA, DeMesaYVentas
<1> QED
  BY <1>2, TerminaADomicilio

\* The step of a request in flight is not one of the store's.
LEMMA EnADomicilio ==
    ASSUME EnRuta, NEW r \in Peticiones
    PROVE  /\ PasoADomicilio(peticiones[r])
           /\ peticiones[r].paso \notin PasosDeTienda
BY DEF EnRuta, AlDomicilio, PasoADomicilio

\* The warehouse sends it straight to the till.
LEMMA DeBodegaADomicilio ==
    ASSUME EnRuta, NEW r \in Peticiones, DeBodega(r)
    PROVE  AlDomicilio'
<1>0. /\ ped.estado \notin DeMesaYVentas /\ ped \in Pedidos
      /\ peticiones[r].quien \in Bodegueros \cup {NADIE}
  BY Tipos, TiposLectura DEF EnRuta, AlDomicilio
<1>00. {"EN_REVISION", "ENVIADO", "PENDIENTE_PAGO"} \subseteq EstadosPedido \ DeMesaYVentas
  BY DEF EstadosPedido, DeMesaYVentas
<1>1. CASE Retoma(r) \/ Libera(r)
  <2>1. ped'.estado = ped.estado
    BY <1>0, <1>1 DEF Retoma, Libera, Pedidos
  <2> QED
    BY <1>0, <1>1, <2>1, TerminaADomicilio DEF Retoma, Libera
<1>2. CASE MarcaItem(r)
  <2>1. ped'.estado = ped.estado
    BY <1>0, <1>2 DEF MarcaItem, Pedidos
  <2> QED
    BY <1>0, <1>2, <2>1, TerminaADomicilio DEF MarcaItem
<1>3. CASE Toma(r)
  <2> DEFINE o == [SinOpciones EXCEPT !.asignacion = "caller",
                                      !.quien = peticiones[r].quien,
                                      !.reloj = "reanudar"]
  <2>1. o \in Opciones
    BY <1>0, OpcionesOK DEF Opciones
  <2>2. Cambia("EN_REVISION", o) /\ Termina(r) /\ UNCHANGED propuestas
    BY <1>3 DEF Toma
  <2> HIDE DEF o
  <2> QED
    BY <1>00, <2>1, <2>2, MueveADomicilio
<1>4. CASE TomaGrupo(r)
  <2>1. ped'.estado = "EN_REVISION"
    BY <1>0, <1>4 DEF TomaGrupo, Pedidos
  <2> QED
    BY <1>00, <1>4, <2>1, TerminaADomicilio DEF TomaGrupo
<1>5. CASE ConfirmaSurtido(r)
  <2> DEFINE o == OpcionesDeSurtido("PENDIENTE_PAGO")
  <2>1. peticiones[r].dest = "PENDIENTE_PAGO"
    BY <1>5, EnADomicilio DEF ConfirmaSurtido, En, PasoADomicilio
  <2>2. PICK q : q = Transita(ped, "PENDIENTE_PAGO", o)
    OBVIOUS
  <2>3. q \in Pedidos /\ LlegaA(q.estado, "PENDIENTE_PAGO")
    BY <1>00, <2>2, TransitaLlega, OpcionesDeSurtidoOK DEF EnRuta
  <2>4. PICK x : ped' = [q EXCEPT !.lineas = x]
    BY <1>5, <2>1, <2>2 DEF ConfirmaSurtido, CambiaCon
  <2>5. ped'.estado \notin DeMesaYVentas
    BY <2>3, <2>4 DEF Pedidos, LlegaA, DeMesaYVentas
  <2>6. UNCHANGED propuestas /\ Termina(r)
    BY <1>5, <2>1 DEF ConfirmaSurtido
  <2> QED
    BY <2>5, <2>6, TerminaADomicilio
<1>6. CASE Envia(r)
  BY <1>00, <1>6, OpcionesOK, MueveADomicilio DEF Envia
<1> QED
  BY <1>1, <1>2, <1>3, <1>4, <1>5, <1>6 DEF DeBodega

\* It has no proposal to answer.
LEMMA DePropuestaADomicilio ==
    ASSUME EnRuta, NEW r \in Peticiones, DePropuesta(r)
    PROVE  AlDomicilio'
<1>1. "EN_REVISION" \in EstadosPedido \ DeMesaYVentas /\ "SUPERADA" \in EstadosPropuesta
  BY DEF EstadosPedido, DeMesaYVentas, EstadosPropuesta
<1>2. peticiones[r].paso \notin PasosDeTienda
  BY EnADomicilio
<1>3. DevuelveABodega(r)
  BY <1>2 DEF DePropuesta, EnviaPropuesta, ApruebaBodega, ApruebaBodegaConResiduo,
              RegresaPorResiduo, ApruebaVentas, PasaSinPendientes, RechazaBodega,
              RechazaVentas, ContactaAsesor, CancelaPorPropuesta, Responde, En,
              PasosDeTienda, Decisiones
<1> QED
  BY <1>1, <1>3, OpcionesOK, MueveADomicilio DEF DevuelveABodega

\* At the counter it can only be cancelled or handed over.
LEMMA DeMostradorADomicilio ==
    ASSUME EnRuta, NEW r \in Peticiones, DeMostrador(r)
    PROVE  AlDomicilio'
<1>1. {"CANCELADO", "ENTREGADO"} \subseteq EstadosPedido \ DeMesaYVentas
  BY DEF EstadosPedido, DeMesaYVentas
<1>2. peticiones[r].paso \notin PasosDeTienda
  BY EnADomicilio
<1>3. CancelaMostrador(r) \/ ReleeCancelarVencido(r) \/ Entrega(r)
  BY <1>2 DEF DeMostrador, EnviaAPagar, Ajusta, DevuelveACola, TraeAEntrega, Llama, En,
              PasosDeTienda
<1>4. CASE CancelaMostrador(r)
  BY <1>1, <1>4, OpcionesOK, MueveADomicilio DEF CancelaMostrador
<1>5. CASE ReleeCancelarVencido(r)
  BY <1>5 DEF ReleeCancelarVencido, EnRuta, AlDomicilio, ESTADOS_BOLSA_APARTADA,
              ESTADOS_ESPERA_CLIENTE, DeMesaYVentas
<1>6. CASE Entrega(r)
  BY <1>1, <1>6, OpcionesOK, MueveADomicilio DEF Entrega
<1> QED
  BY <1>3, <1>4, <1>5, <1>6

\* The presence of its customer moves nothing.
LEMMA DePresenciaADomicilio ==
    ASSUME EnRuta, NEW r \in Peticiones, DePresencia(r)
    PROVE  AlDomicilio'
<1>0. ped.estado \notin DeMesaYVentas /\ ped \in Pedidos
  BY Tipos DEF EnRuta, AlDomicilio
<1>1. PasoADomicilio(peticiones[r]) /\ peticiones[r].paso \notin PasosDeTienda
  BY EnADomicilio
<1>2. RetiraAviso(r) \/ AplicaPresencia(r)
  BY <1>1 DEF DePresencia, LeeConfirmarLlegada, AvisaLlegada, AlLlegarCliente, En,
              PasosDeTienda
<1>3. ped'.estado = ped.estado /\ Termina(r) /\ UNCHANGED propuestas
  <2>1. CASE RetiraAviso(r)
    BY <1>0, <2>1 DEF RetiraAviso, Pedidos
  <2>2. CASE AplicaPresencia(r)
    <3>1. peticiones[r].est # "EN_ATENCION"
      BY <1>1, <2>2 DEF AplicaPresencia, En, PasoADomicilio, PasosDeTienda
    <3>2. PICK b : ped' = [ped EXCEPT !.presente = b]
      BY <2>2, <3>1 DEF AplicaPresencia
    <3> QED
      BY <1>0, <2>2, <3>2 DEF AplicaPresencia, Pedidos
  <2> QED
    BY <1>2, <2>1, <2>2
<1> QED
  BY <1>0, <1>3, TerminaADomicilio

\* Cancelling or charging it keeps it out of the table.
LEMMA DeCierreADomicilio ==
    ASSUME EnRuta, NEW r \in Peticiones, DeCierre(r)
    PROVE  AlDomicilio'
<1>0. /\ "CANCELADO" \in EstadosPedido \ DeMesaYVentas /\ "RECHAZADA" \in EstadosPropuesta
      /\ ped \in Pedidos /\ peticiones[r].est \in EstadosPedido
  BY Tipos, TiposLectura DEF EstadosPedido, DeMesaYVentas, EstadosPropuesta, EnRuta
<1>1. CASE CancelaCliente(r)
  <2> DEFINE o == [SaleDeBodega EXCEPT !.desde = {peticiones[r].est}]
  <2>1. o \in Opciones
    BY <1>0, OpcionesOK DEF Opciones
  <2>2. Cambia("CANCELADO", o) /\ Termina(r) /\ CierraPendientes("RECHAZADA")
    BY <1>1 DEF CancelaCliente
  <2> HIDE DEF o
  <2> QED
    BY <1>0, <2>1, <2>2, MueveADomicilio
<1>2. CASE CancelaTienda(r)
  BY <1>0, <1>2, OpcionesOK, MueveADomicilio DEF CancelaTienda
<1>3. CASE CancelaErp(r)
  BY <1>0, <1>3, OpcionesOK, MueveADomicilio DEF CancelaErp
<1>4. CASE Paga(r)
  <2>1. ped'.estado \notin DeMesaYVentas
    BY <1>0, <1>4 DEF Paga, Pedidos, DeMesaYVentas
  <2> QED
    BY <1>4, <2>1, TerminaADomicilio DEF Paga
<1> QED
  BY <1>1, <1>2, <1>3, <1>4 DEF DeCierre

\* The printer sends it to the till.
LEMMA DeDtfADomicilio ==
    ASSUME EnRuta, NEW r \in Peticiones, DeDtf(r)
    PROVE  AlDomicilio'
<1>0. /\ {"CANCELADO", "EN_DTF", "PENDIENTE_PAGO"} \subseteq EstadosPedido \ DeMesaYVentas
      /\ ped \in Pedidos /\ ped.estado \notin DeMesaYVentas /\ ped.domicilio
  BY Tipos DEF EstadosPedido, DeMesaYVentas, EnRuta, AlDomicilio
<1>1. ASSUME NEW p \in {"DTF_RESOLVER", "DTF_REABRIR"}
      PROVE  PasoADomicilio(Lectura(p))
  BY DeLectura, PasoLibreADomicilio DEF PasosLibres
<1>2. CASE TerminaDtf(r)
  <2>1. ped'.estado = ped.estado
    BY <1>0, <1>2 DEF TerminaDtf, Pedidos
  <2> QED
    BY <1>0, <1>1, <1>2, <2>1, SigueADomicilio DEF TerminaDtf
<1>3. CASE ResuelveDtf(r)
  <2> DEFINE o == [SinOpciones EXCEPT !.encolar = ped.domicilio]
  <2>1. o \in Opciones
    BY <1>0, OpcionesOK DEF Opciones, Pedidos
  <2>2. \/ Cambia("CANCELADO", SaleDeBodega)
        \/ Cambia("PENDIENTE_PAGO", o)
        \/ UNCHANGED ped
    BY <1>0, <1>3 DEF ResuelveDtf, DestinoTrasSurtido
  <2>3. Termina(r) /\ UNCHANGED propuestas
    BY <1>3 DEF ResuelveDtf
  <2> HIDE DEF o
  <2> QED
    BY <1>0, <2>1, <2>2, <2>3, OpcionesOK, MueveADomicilio, TerminaADomicilio
<1>4. CASE ReimprimeDtf(r)
  <2>1. ped'.estado = ped.estado
    BY <1>0, <1>4 DEF ReimprimeDtf, Pedidos
  <2> QED
    BY <1>0, <1>1, <1>4, <2>1, SigueADomicilio DEF ReimprimeDtf
<1>5. CASE LeeDtfReabrir(r)
  BY <1>0, <1>5 DEF LeeDtfReabrir, DeMesaYVentas
<1>6. CASE ReabreDtf(r)
  BY <1>0, <1>6, OpcionesOK, MueveADomicilio DEF ReabreDtf
<1> QED
  BY <1>2, <1>3, <1>4, <1>5, <1>6 DEF DeDtf

\* Every step keeps it.
LEMMA DomicilioAvanza ==
    ASSUME IInv, AlDomicilio, Next
    PROVE  AlDomicilio'
<1>1. CASE ~ped.domicilio
  <2>1. ped'.domicilio = ped.domicilio
    BY NextAvanza DEF Avance, PasoLegal
  <2> QED
    BY <1>1, <2>1 DEF AlDomicilio
<1>2. CASE ped.domicilio
  <2>1. EnRuta /\ ped.estado \notin DeMesaYVentas
    BY <1>2 DEF EnRuta, AlDomicilio
  <2>2. PICK r \in Peticiones :
           \/ Lee(r) \/ DeBodega(r) \/ DePropuesta(r) \/ DeMostrador(r)
           \/ DePresencia(r) \/ DeCierre(r) \/ DeDtf(r) \/ Abandona(r)
    BY DEF Next
  <2>3. CASE Lee(r)
    <3>1. PICK l : LeeAsi(r, l)
      BY <2>3, LeeCierto
    <3>2. PasoADomicilio(l)
      BY <1>2, <2>1, <3>1, LeeADomicilio DEF LeeAsi
    <3> QED
      BY <2>1, <3>1, <3>2, SigueADomicilio DEF LeeAsi
  <2>4. CASE Abandona(r)
    BY <2>1, <2>4, TerminaADomicilio DEF Abandona
  <2> QED
    BY <2>1, <2>2, <2>3, <2>4, DeBodegaADomicilio, DePropuestaADomicilio,
       DeMostradorADomicilio, DePresenciaADomicilio, DeCierreADomicilio, DeDtfADomicilio
<1> QED
  BY <1>1, <1>2

\* No new order has its bag on the table.
LEMMA DomicilioAlEmpezar == Init => AlDomicilio
<1> SUFFICES ASSUME Init PROVE AlDomicilio
  OBVIOUS
<1>1. ped.estado \in {"EN_DTF", "SOLICITADO"}
  BY DEF Init
<1>2. ~HayPendiente
  BY DEF Init, HayPendiente, Pendiente, NoExiste
<1>3. \A r \in Peticiones : PasoADomicilio(peticiones[r])
  BY LibreEsLibre, PasoLibreADomicilio DEF Init
<1> QED
  BY <1>1, <1>2, <1>3 DEF AlDomicilio, DeMesaYVentas

\* An order that is delivered at home goes from the warehouse to the till: it
\* is never on the table nor with the sales adviser, and never has a proposal
\* that waits for an answer.
THEOREM DomicilioSinMesa == Spec => []AlDomicilio
<1>1. AlDomicilio /\ IInv /\ [Next]_vars => AlDomicilio'
  <2>1. ASSUME AlDomicilio, UNCHANGED vars PROVE AlDomicilio'
    BY <2>1 DEF vars, AlDomicilio, HayPendiente, Pendiente
  <2> QED
    BY <2>1, DomicilioAvanza
<1> QED
  BY <1>1, DomicilioAlEmpezar, Invariancia, PTL DEF Spec

-----------------------------------------------------------------------------
(* What the manager's panel offers.                                        *)

\* A move along the table that asks for no row of the ERP is admitted, unless
\* it takes the order to be delivered with jobs to print.
LEMMA MueveCabe ==
    ASSUME NEW p \in Pedidos, NEW nuevo \in EstadosPedido \ {"PENDIENTE_PAGO"},
           NEW o \in Opciones, o.desde = EstadosPedido, ~o.encolar,
           nuevo = "EN_REVISION" => o.asignacion # "ninguna",
           \/ Salta(p, nuevo, o)
           \/ /\ nuevo \in TRANSICIONES[p.estado]
              /\ nuevo \notin PidenDtfImpreso
           \/ /\ nuevo = "REVISADO"
              /\ p.estado \in VienenDeBodega
              /\ {"REVISADO", "EN_DTF"} \subseteq TRANSICIONES[p.estado]
    PROVE  Admite(p, nuevo, o)
<1> DEFINE d == Destino(p, nuevo, o)
<1>1. p.estado \in o.desde
  BY DEF Pedidos
<1>2. ~Encola(p, nuevo, o)
  BY DEF Encola
<1>3. d = nuevo \/ d = "EN_DTF"
  BY DEF Destino
<1>4. \/ Salta(p, nuevo, o)
      \/ TransicionPermitida(p.estado, d) /\ DtfListo(p, d)
  BY DEF TransicionPermitida, DtfListo, Destino, PidenDtfImpreso
<1>5. d = "EN_REVISION" => o.asignacion # "ninguna"
  BY <1>3
<1> QED
  BY <1>1, <1>2, <1>3, <1>4, <1>5 DEF Admite

\* The options of the handlers that the panel calls.
LEMMA OpcionesDelPanel ==
    /\ SinOpciones \in Opciones /\ ~SinOpciones.encolar
    /\ SinOpciones.desde = EstadosPedido
    /\ SaleDeBodega \in Opciones /\ ~SaleDeBodega.encolar
    /\ SaleDeBodega.desde = EstadosPedido
    /\ VuelveABodega \in Opciones /\ ~VuelveABodega.encolar
    /\ VuelveABodega.desde = EstadosPedido /\ VuelveABodega.asignacion # "ninguna"
    /\ OpcionesDeAjuste(FALSE) \in Opciones /\ ~OpcionesDeAjuste(FALSE).encolar
    /\ OpcionesDeAjuste(FALSE).desde = EstadosPedido /\ OpcionesDeAjuste(FALSE).mismo
BY DEF SinOpciones, SaleDeBodega, VuelveABodega, OpcionesDeAjuste, Opciones

\* The lists of states of the panel agree with the table.
LEMMA TablaDelPanel ==
    /\ \A e \in RESPONDIBLES_POR_LA_TIENDA : "EN_REVISION" \in TRANSICIONES[e]
    /\ "EN_REVISION" \in TRANSICIONES["EN_ASESORIA"]
    /\ {"REVISADO", "EN_DTF"} \subseteq TRANSICIONES["ESPERANDO_APROBACION"]
    /\ \A e \in CANCELABLES_SIN_PAGO \cup {"PAGADO"} : "CANCELADO" \in TRANSICIONES[e]
    /\ \A e \in {"PAGADO", "ENVIADO"} : "ENTREGADO" \in TRANSICIONES[e]
BY DEF TRANSICIONES, RESPONDIBLES_POR_LA_TIENDA, CANCELABLES_SIN_PAGO, EstadosPedido,
       ESTADOS_YA_COBRADOS

\* Action by action.
LEMMA PanelCabe ==
    ASSUME IInv, AlDomicilio,
           NEW a \in AccionId \ {"RECHAZAR_PROPUESTA"}, Ofrece(a)
    PROVE  Cabe(a)
<1>0. ped \in Pedidos /\ ped.estado \in EstadosPedido /\ Coherente(ped)
  BY Tipos
<1>00. /\ {"EN_REVISION", "REVISADO", "EN_ATENCION", "CANCELADO", "ENTREGADO"}
             \subseteq EstadosPedido \ {"PENDIENTE_PAGO"}
       /\ {"EN_REVISION", "CANCELADO", "ENTREGADO"} \cap PidenDtfImpreso = {}
       /\ "ESPERANDO_APROBACION" \in VienenDeBodega
  BY DEF EstadosPedido, PidenDtfImpreso, VienenDeBodega
<1>1. CASE a = "APROBAR_PROPUESTA"
  <2>1. ped.estado \in RESPONDIBLES_POR_LA_TIENDA
    BY <1>1 DEF Ofrece
  <2>2. ~ped.domicilio
    BY <2>1 DEF AlDomicilio, RESPONDIBLES_POR_LA_TIENDA, DeMesaYVentas
  <2>3. Admite(ped, "EN_REVISION", VuelveABodega)
    BY <1>0, <1>00, <2>1, MueveCabe, OpcionesDelPanel, TablaDelPanel
  <2> DEFINE d == IF ped.estado = "EN_ATENCION" THEN "EN_ATENCION" ELSE "REVISADO"
             o == [OpcionesDeSurtido(d) EXCEPT !.mismo = TRUE]
  <2>4. DestinoAprobada = d
    BY <2>2 DEF DestinoAprobada, DestinoTrasSurtido
  <2>5. o \in Opciones /\ ~o.encolar /\ o.mismo /\ o.desde = EstadosPedido
    BY DEF OpcionesDeSurtido, SaleDeBodega, SinOpciones, Opciones
  <2>6. Salta(ped, d, o) \/ (d = "REVISADO" /\ ped.estado = "ESPERANDO_APROBACION")
    BY <2>1, <2>5 DEF Salta, RESPONDIBLES_POR_LA_TIENDA
  <2>7. d \in EstadosPedido \ {"PENDIENTE_PAGO"} /\ d # "EN_REVISION"
    BY <1>00
  <2> HIDE DEF o, d
  <2>8. Admite(ped, d, o)
    BY <1>0, <1>00, <2>5, <2>6, <2>7, MueveCabe, TablaDelPanel
  <2>9. Admite(ped, DestinoAprobada, [OpcionesDeSurtido(DestinoAprobada) EXCEPT !.mismo = TRUE])
    BY <2>4, <2>8 DEF o
  <2> QED
    BY <1>1, <2>3, <2>9 DEF Cabe
<1>2. CASE a = "DEVOLVER_A_BODEGA"
  <2>1. ped.estado = "EN_ASESORIA"
    BY <1>2 DEF Ofrece
  <2>2. Admite(ped, "EN_REVISION", VuelveABodega)
    BY <1>0, <1>00, <2>1, MueveCabe, OpcionesDelPanel, TablaDelPanel
  <2> QED
    BY <1>2, <2>2 DEF Cabe
<1>3. CASE a = "QUITAR_PRODUCTOS"
  <2>1. ped.estado \in {"ESPERANDO_APROBACION", "REVISADO"}
    BY <1>3 DEF Ofrece, AJUSTABLES_POR_LA_TIENDA
  <2>2. Salta(ped, "REVISADO", OpcionesDeAjuste(FALSE)) \/ ped.estado = "ESPERANDO_APROBACION"
    BY <2>1, OpcionesDelPanel DEF Salta
  <2>3. Admite(ped, "REVISADO", OpcionesDeAjuste(FALSE))
    BY <1>0, <1>00, <2>2, MueveCabe, OpcionesDelPanel, TablaDelPanel
  <2>4. (IF ped.estado = "ESPERANDO_APROBACION" THEN "REVISADO" ELSE ped.estado) = "REVISADO"
    BY <2>1
  <2>5. ped.estado \in RESPONDIBLES_POR_LA_TIENDA
    BY <2>1 DEF RESPONDIBLES_POR_LA_TIENDA
  <2> QED
    BY <1>3, <2>3, <2>4, <2>5 DEF Cabe
<1>4. CASE a = "LIBERAR_BODEGA"
  BY <1>4 DEF Ofrece, Cabe
<1>5. CASE a \in {"CANCELAR_SIN_PAGO", "CANCELAR_PAGADO"}
  <2>1. ped.estado \in CANCELABLES_SIN_PAGO \cup {"PAGADO"}
    BY <1>5 DEF Ofrece
  <2>2. Admite(ped, "CANCELADO", SaleDeBodega)
    BY <1>0, <1>00, <2>1, MueveCabe, OpcionesDelPanel, TablaDelPanel
  <2> QED
    BY <1>5, <2>2 DEF Cabe
<1>6. CASE a = "MARCAR_PAGADO"
  BY <1>0, <1>6 DEF Ofrece, Cabe, Coherente, EnPoderDelErp
<1>7. CASE a = "MARCAR_ENTREGADO"
  <2>1. ped.estado \in {"PAGADO", "ENVIADO"}
    BY <1>7 DEF Ofrece
  <2>2. Admite(ped, "ENTREGADO", SinOpciones)
    BY <1>0, <1>00, <2>1, MueveCabe, OpcionesDelPanel, TablaDelPanel
  <2> QED
    BY <1>7, <2>2 DEF Cabe
<1> QED
  BY <1>1, <1>2, <1>3, <1>4, <1>5, <1>6, <1>7 DEF AccionId

\* What the manager's panel offers of a stuck order can be done, all but
\* refusing a proposal: with any number of handlers interleaved, its lists of
\* states agree with the machine that it will ask.
THEOREM PanelCorrecto == Spec => []LoDemasOfrecidoCabe
<1>1. IInv /\ AlDomicilio => LoDemasOfrecidoCabe
  BY PanelCabe DEF LoDemasOfrecidoCabe
<1> QED
  BY <1>1, Invariancia, DomicilioSinMesa, PTL

-----------------------------------------------------------------------------
(* One request at a time.  While no two have overlapped, the row is as the *)
(* request in flight read it, and that is what keeps the order together.   *)

Una == \A r, s \in Peticiones : peticiones[r] # Libre /\ peticiones[s] # Libre => r = s

\* The states of an order whose lines the warehouse has already looked at.
Vistos == {"ESPERANDO_APROBACION", "EN_ASESORIA", "EN_DTF", "REVISADO", "EN_ATENCION",
           "PENDIENTE_PAGO"}

\* Only the warehouse holds lines that nobody has looked at, and nobody is
\* attended who is not there.
FilaEnOrden(p) ==
    /\ p.estado \in Vistos => p.lineas # "PENDIENTES"
    /\ p.estado = "EN_ATENCION" => p.presente

EnOrden ==
    /\ Una
    /\ FilaEnOrden(ped)
    /\ EsperaAprobacionDeAlgo
    /\ \A r \in Peticiones : Leyo(ped, peticiones[r])

MCInv ==
    /\ IInv
    /\ solapes \in Nat
    /\ ~solapo => EnOrden

\* The request in flight goes on, or ends, and the row is as it leaves it.
LEMMA SigueEnOrden ==
    ASSUME IInv, EnOrden, NEW r \in Peticiones, NEW l, Sigue(r, l),
           \A s \in Peticiones : s # r => peticiones[s] = Libre,
           Leyo(ped', l), FilaEnOrden(ped'), EsperaAprobacionDeAlgo'
    PROVE  EnOrden'
<1>1. peticiones \in [Peticiones -> Lecturas]
  BY Tipos
<1>2. \A s \in Peticiones : peticiones'[s] = IF s = r THEN l ELSE Libre
  BY <1>1 DEF Sigue
<1>3. \A s \in Peticiones : Leyo(ped', peticiones'[s])
  BY <1>2, LibreEsLibre, LeyoLibre
<1>4. Una'
  BY <1>2 DEF Una
<1> QED
  BY <1>3, <1>4 DEF EnOrden

\* A request that has begun is alone.
LEMMA SolaEnOrden ==
    ASSUME EnOrden, NEW r \in Peticiones, peticiones[r].paso # "NINGUNO"
    PROVE  \A s \in Peticiones : s # r => peticiones[s] = Libre
BY LibreEsLibre DEF EnOrden, Una

\* What the commits of this section assume.
AMedias(r) == IInv /\ EnOrden /\ peticiones[r].paso # "NINGUNO"

\* A step of the request in flight that leaves the row in order.
LEMMA PasaEnOrden ==
    ASSUME NEW r \in Peticiones, AMedias(r), NEW l, Sigue(r, l), Leyo(ped', l),
           FilaEnOrden(ped'), EsperaAprobacionDeAlgo'
    PROVE  EnOrden'
BY SigueEnOrden, SolaEnOrden DEF AMedias

\* One with which it ends.
LEMMA AcabaEnOrden ==
    ASSUME NEW r \in Peticiones, AMedias(r), Termina(r),
           FilaEnOrden(ped'), EsperaAprobacionDeAlgo'
    PROVE  EnOrden'
BY PasaEnOrden, LibreEsLibre, LeyoLibre DEF Termina

\* The row in order, as a request finds it.
LEMMA Encuentra ==
    ASSUME NEW r \in Peticiones, AMedias(r)
    PROVE  /\ ped \in Pedidos /\ ped.estado \in EstadosPedido
           /\ FilaEnOrden(ped) /\ EsperaAprobacionDeAlgo
           /\ Leyo(ped, peticiones[r])
BY Tipos DEF AMedias, EnOrden

\* An order that goes where its lines do not matter is in order.
LEMMA SaleEnOrden ==
    ASSUME ped'.estado \notin Vistos
    PROVE  FilaEnOrden(ped') /\ EsperaAprobacionDeAlgo'
BY DEF FilaEnOrden, EsperaAprobacionDeAlgo, Vistos

\* So is one whose lines have been looked at and that waits for nobody.
LEMMA VistoEnOrden ==
    ASSUME ped'.lineas # "PENDIENTES",
           ped'.estado \notin {"ESPERANDO_APROBACION", "EN_ATENCION"}
    PROVE  FilaEnOrden(ped') /\ EsperaAprobacionDeAlgo'
BY DEF FilaEnOrden, EsperaAprobacionDeAlgo

\* And one that stays where it was.
LEMMA QuietoEnOrden ==
    ASSUME FilaEnOrden(ped), EsperaAprobacionDeAlgo,
           ped'.estado = ped.estado, ped'.lineas = ped.lineas,
           ped'.estado = "EN_ATENCION" => ped'.presente = ped.presente,
           UNCHANGED propuestas
    PROVE  FilaEnOrden(ped') /\ EsperaAprobacionDeAlgo'
BY DEF FilaEnOrden, EsperaAprobacionDeAlgo, HayPendiente, Pendiente

\* A move out of the states of the table.
LEMMA MueveFuera ==
    ASSUME NEW r \in Peticiones, AMedias(r), Termina(r),
           NEW nuevo \in {"EN_REVISION", "CANCELADO", "ENVIADO", "ENTREGADO"},
           NEW o \in Opciones, Cambia(nuevo, o)
    PROVE  EnOrden'
<1>1. nuevo \in EstadosPedido /\ nuevo \notin Vistos \cup {"REVISADO", "PENDIENTE_PAGO"}
  BY DEF EstadosPedido, Vistos
<1>2. LlegaA(ped'.estado, nuevo)
  BY <1>1, CambiaLlega DEF AMedias
<1>3. ped'.estado \notin Vistos
  BY <1>1, <1>2 DEF LlegaA
<1> QED
  BY <1>3, SaleEnOrden, AcabaEnOrden

\* A move of an order whose lines have been looked at.
LEMMA MueveVisto ==
    ASSUME NEW r \in Peticiones, AMedias(r),
           NEW nuevo \in {"REVISADO", "PENDIENTE_PAGO", "EN_ASESORIA", "EN_DTF"},
           NEW o \in Opciones, Cambia(nuevo, o), ped.estado \in Vistos \/ ped.lineas # "PENDIENTES"
    PROVE  FilaEnOrden(ped') /\ EsperaAprobacionDeAlgo'
<1>1. nuevo \in EstadosPedido
  BY DEF EstadosPedido
<1>2. LlegaA(ped'.estado, nuevo) /\ ped'.lineas = ped.lineas
  BY <1>1, CambiaLlega DEF AMedias, MismosDatos
<1>3. ped'.estado \notin {"ESPERANDO_APROBACION", "EN_ATENCION"}
  BY <1>2 DEF LlegaA
<1>4. ped'.lineas # "PENDIENTES"
  BY <1>2, Encuentra DEF FilaEnOrden
<1> QED
  BY <1>3, <1>4, VistoEnOrden

\* A new proposal waits for an answer.
LEMMA CreaDeja ==
    ASSUME IInv, NEW o, Crea(o)
    PROVE  HayPendiente'
<1>1. PICK i \in IdPropuesta :
         propuestas' = [propuestas EXCEPT ![i] = [origen |-> o, estado |-> "PENDIENTE"]]
  BY DEF Crea
<1>2. propuestas'[i].estado = "PENDIENTE"
  BY <1>1, Tipos
<1> QED
  BY <1>2 DEF HayPendiente, Pendiente

\* The commits of bodega.service and surtido.service.
LEMMA DeBodegaEnOrden ==
    ASSUME IInv, EnOrden, NEW r \in Peticiones, DeBodega(r)
    PROVE  EnOrden'
<1>0. AMedias(r)
  BY DEF AMedias, DeBodega, Retoma, Toma, TomaGrupo, Libera, MarcaItem, ConfirmaSurtido,
         Envia, En
<1>00. /\ ped \in Pedidos /\ FilaEnOrden(ped) /\ EsperaAprobacionDeAlgo
       /\ Leyo(ped, peticiones[r])
       /\ peticiones[r].quien \in Bodegueros \cup {NADIE}
       /\ peticiones[r].dest \in EstadosPedido
  BY <1>0, Encuentra, TiposLectura
<1>1. CASE Retoma(r) \/ Libera(r)
  <2>1. /\ ped'.estado = ped.estado /\ ped'.lineas = ped.lineas
        /\ ped'.presente = ped.presente
    BY <1>00, <1>1 DEF Retoma, Libera, Pedidos
  <2>2. UNCHANGED propuestas /\ Termina(r)
    BY <1>1 DEF Retoma, Libera
  <2> QED
    BY <1>0, <1>00, <2>1, <2>2, QuietoEnOrden, AcabaEnOrden
<1>2. CASE MarcaItem(r)
  <2>1. ped.estado = "EN_REVISION"
    BY <1>00, <1>2 DEF MarcaItem, En, Leyo
  <2>2. ped'.estado = "EN_REVISION" /\ Termina(r)
    BY <1>00, <1>2, <2>1 DEF MarcaItem, Pedidos
  <2> QED
    BY <1>0, <2>2, SaleEnOrden, AcabaEnOrden DEF Vistos
<1>3. CASE Toma(r)
  <2> DEFINE o == [SinOpciones EXCEPT !.asignacion = "caller",
                                      !.quien = peticiones[r].quien,
                                      !.reloj = "reanudar"]
  <2>1. o \in Opciones
    BY <1>00, OpcionesOK DEF Opciones
  <2>2. Cambia("EN_REVISION", o) /\ Termina(r)
    BY <1>3 DEF Toma
  <2> HIDE DEF o
  <2> QED
    BY <1>0, <2>1, <2>2, MueveFuera
<1>4. CASE TomaGrupo(r)
  <2>1. ped'.estado = "EN_REVISION" /\ Termina(r)
    BY <1>00, <1>4 DEF TomaGrupo, Pedidos
  <2> QED
    BY <1>0, <2>1, SaleEnOrden, AcabaEnOrden DEF Vistos
<1>5. CASE ConfirmaSurtido(r)
  <2> DEFINE l == peticiones[r]
             o == OpcionesDeSurtido(l.dest)
  <2>1. /\ ped.lineas # "PENDIENTES"
        /\ l.dest \in {"REVISADO", "PENDIENTE_PAGO", "ESPERANDO_APROBACION"}
        /\ l.dest = "ESPERANDO_APROBACION" => l.dato
    BY <1>00, <1>5 DEF ConfirmaSurtido, En, Leyo
  <2>2. PICK q : q = Transita(ped, l.dest, o)
    OBVIOUS
  <2>3. q \in Pedidos /\ MismosDatos(ped, q) /\ LlegaA(q.estado, l.dest)
    BY <1>0, <1>00, <2>2, TransitaLlega, OpcionesDeSurtidoOK DEF AMedias
  <2>4. ped' = [q EXCEPT !.lineas = IF l.dato THEN SinFaltantes(q.lineas) ELSE q.lineas]
    BY <1>5, <2>2 DEF ConfirmaSurtido, CambiaCon
  <2>5. q.lineas # "PENDIENTES" /\ SinFaltantes(q.lineas) # "PENDIENTES"
    BY <2>1, <2>3 DEF MismosDatos, SinFaltantes
  <2>6. ped'.estado = q.estado /\ ped'.lineas # "PENDIENTES"
    BY <2>3, <2>4, <2>5 DEF Pedidos
  <2>7. ped'.estado # "EN_ATENCION"
    BY <2>1, <2>3, <2>6 DEF LlegaA
  <2>8. FilaEnOrden(ped')
    BY <2>6, <2>7 DEF FilaEnOrden
  <2>9. EsperaAprobacionDeAlgo'
    <3>1. ASSUME ped'.estado = "ESPERANDO_APROBACION" PROVE HayPendiente'
      <4>1. l.dest = "ESPERANDO_APROBACION"
        BY <2>3, <2>6, <3>1 DEF LlegaA
      <4>2. Crea(IF l.quien = NADIE THEN "ADMIN" ELSE "BODEGA")
        BY <1>5, <2>1, <4>1 DEF ConfirmaSurtido
      <4> QED
        BY <1>0, <4>2, CreaDeja DEF AMedias
    <3> QED
      BY <3>1 DEF EsperaAprobacionDeAlgo
  <2>10. Termina(r)
    BY <1>5 DEF ConfirmaSurtido
  <2> QED
    BY <1>0, <2>8, <2>9, <2>10, AcabaEnOrden
<1>6. CASE Envia(r)
  BY <1>0, <1>6, OpcionesOK, MueveFuera DEF Envia
<1> QED
  BY <1>1, <1>2, <1>3, <1>4, <1>5, <1>6 DEF DeBodega

\* The commits of ventas.service and propuesta.service.
LEMMA DePropuestaEnOrden ==
    ASSUME IInv, EnOrden, NEW r \in Peticiones, DePropuesta(r)
    PROVE  EnOrden'
<1>0. AMedias(r)
  BY DEF AMedias, DePropuesta, EnviaPropuesta, DevuelveABodega, ApruebaBodega,
         ApruebaBodegaConResiduo, RegresaPorResiduo, ApruebaVentas, PasaSinPendientes,
         RechazaBodega, RechazaVentas, ContactaAsesor, CancelaPorPropuesta, Responde, En
<1>00. /\ ped \in Pedidos /\ FilaEnOrden(ped) /\ EsperaAprobacionDeAlgo
       /\ Leyo(ped, peticiones[r])
       /\ peticiones[r].dest \in EstadosPedido
  BY <1>0, Encuentra, TiposLectura
<1>01. ASSUME En(r, "APROBAR") \/ En(r, "RECHAZAR") \/ En(r, "CONTACTAR_ASESOR")
       PROVE  ped.estado \in Vistos /\ ped.lineas # "PENDIENTES" /\ ~peticiones[r].dato
  <2>1. /\ ped.estado \in ESTADOS_BOLSA_APARTADA
        /\ peticiones[r].dato => ped.lineas = "PENDIENTES"
    BY <1>00, <1>01 DEF En, Leyo, Decisiones
  <2>2. ped.estado \in Vistos
    BY <2>1 DEF ESTADOS_BOLSA_APARTADA, ESTADOS_ESPERA_CLIENTE, Vistos
  <2> QED
    BY <1>00, <2>1, <2>2 DEF FilaEnOrden
<1>1. CASE EnviaPropuesta(r)
  <2>1. ped.estado \in {"EN_ASESORIA", "ESPERANDO_APROBACION"}
    BY <1>00, <1>1 DEF EnviaPropuesta, En, Leyo
  <2>2. ped.lineas # "PENDIENTES"
    BY <1>00, <2>1 DEF FilaEnOrden, Vistos
  <2>3. "ESPERANDO_APROBACION" \in EstadosPedido
    BY DEF EstadosPedido
  <2>4. LlegaA(ped'.estado, "ESPERANDO_APROBACION") /\ ped'.lineas = ped.lineas
    BY <1>0, <1>1, <2>3, OpcionesOK, CambiaLlega DEF EnviaPropuesta, AMedias, MismosDatos
  <2>5. FilaEnOrden(ped')
    BY <2>2, <2>4 DEF LlegaA, FilaEnOrden
  <2>6. EsperaAprobacionDeAlgo'
    BY <1>0, <1>1, CreaDeja DEF EnviaPropuesta, AMedias, EsperaAprobacionDeAlgo
  <2> QED
    BY <1>0, <1>1, <2>5, <2>6, AcabaEnOrden DEF EnviaPropuesta
<1>2. CASE DevuelveABodega(r)
  BY <1>0, <1>2, OpcionesOK, MueveFuera DEF DevuelveABodega
<1>3. CASE ApruebaBodega(r)
  <2> DEFINE l == peticiones[r]
             o == [OpcionesDeSurtido(l.dest) EXCEPT !.mismo = TRUE]
  <2>1. /\ l.dest \in {"REVISADO", "EN_ATENCION", "PENDIENTE_PAGO"}
        /\ l.dest = "EN_ATENCION" => ped.estado = "EN_ATENCION"
        /\ ped.lineas # "PENDIENTES"
    BY <1>00, <1>01, <1>3 DEF ApruebaBodega, Responde, En, Leyo, Decisiones
  <2>2. PICK q : q = Transita(ped, l.dest, o)
    OBVIOUS
  <2>3. q \in Pedidos /\ MismosDatos(ped, q) /\ LlegaA(q.estado, l.dest)
    BY <1>0, <1>00, <2>2, TransitaLlega, OpcionesDeSurtidoOK DEF AMedias
  <2>4. ped' = [q EXCEPT !.lineas = SinFaltantes(q.lineas)] /\ Termina(r)
    BY <1>3, <2>2 DEF ApruebaBodega, CambiaCon
  <2>5. SinFaltantes(q.lineas) # "PENDIENTES"
    BY <2>1, <2>3 DEF MismosDatos, SinFaltantes
  <2>6. /\ ped'.estado = q.estado /\ ped'.lineas # "PENDIENTES"
        /\ ped'.presente = ped.presente
    BY <2>3, <2>4, <2>5 DEF Pedidos, MismosDatos
  <2>7. ped'.estado # "ESPERANDO_APROBACION"
    BY <2>1, <2>3, <2>6 DEF LlegaA
  <2>8. ped'.estado = "EN_ATENCION" => ped.estado = "EN_ATENCION"
    BY <2>1, <2>3, <2>6 DEF LlegaA
  <2>9. FilaEnOrden(ped') /\ EsperaAprobacionDeAlgo'
    BY <1>00, <2>6, <2>7, <2>8 DEF FilaEnOrden, EsperaAprobacionDeAlgo
  <2> QED
    BY <1>0, <2>4, <2>9, AcabaEnOrden
<1>4. CASE ApruebaBodegaConResiduo(r)
  BY <1>01, <1>4 DEF ApruebaBodegaConResiduo, Responde
<1>5. CASE RegresaPorResiduo(r)
  BY <1>00, <1>5 DEF RegresaPorResiduo, En, Leyo
<1>6. CASE ApruebaVentas(r)
  <2> DEFINE q == Transita(ped, "EN_REVISION", VuelveABodega)
             s == [peticiones[r] EXCEPT !.dest = DestinoTrasSurtido,
                                        !.paso = "APROBADA_SIN_PENDIENTES"]
  <2>1. PICK l \in EstadosLineas :
           /\ ped' = [q EXCEPT !.lineas = l]
           /\ (Sigue(r, s) /\ l = "COMPLETAS") \/ Sigue(r, Libre)
    BY <1>6 DEF ApruebaVentas, CambiaCon
  <2>2. q \in Pedidos /\ LlegaA(q.estado, "EN_REVISION")
    BY <1>0, OpcionesOK, TransitaLlega DEF AMedias, EstadosPedido
  <2> HIDE DEF q
  <2>3. ped'.estado = "EN_REVISION" /\ ped'.lineas = l
    BY <2>1, <2>2 DEF Pedidos, LlegaA
  <2>4. FilaEnOrden(ped') /\ EsperaAprobacionDeAlgo'
    BY <2>3, SaleEnOrden DEF Vistos
  <2>5. /\ s.paso = "APROBADA_SIN_PENDIENTES"
        /\ s.dest \in {"REVISADO", "PENDIENTE_PAGO"}
    BY TiposLectura DEF Lecturas, DestinoTrasSurtido
  <2> HIDE DEF s
  <2>6. l = "COMPLETAS" => Leyo(ped', s)
    BY <2>3, <2>5 DEF Leyo, Decisiones
  <2>7. CASE Sigue(r, s) /\ l = "COMPLETAS"
    BY <1>0, <2>4, <2>6, <2>7, PasaEnOrden
  <2>8. CASE Sigue(r, Libre)
    BY <1>0, <2>4, <2>8, AcabaEnOrden DEF Termina
  <2> QED
    BY <2>1, <2>7, <2>8
<1>7. CASE PasaSinPendientes(r)
  <2>1. /\ ped.lineas # "PENDIENTES"
        /\ peticiones[r].dest \in {"REVISADO", "PENDIENTE_PAGO"}
    BY <1>00, <1>7 DEF PasaSinPendientes, En, Leyo
  <2>2. FilaEnOrden(ped') /\ EsperaAprobacionDeAlgo'
    BY <1>0, <1>00, <1>7, <2>1, OpcionesDeSurtidoOK, MueveVisto DEF PasaSinPendientes
  <2> QED
    BY <1>0, <1>7, <2>2, AcabaEnOrden DEF PasaSinPendientes
<1>8. CASE RechazaBodega(r)
  BY <1>0, <1>8, OpcionesOK, MueveFuera DEF RechazaBodega
<1>9. CASE RechazaVentas(r)
  <2>1. FilaEnOrden(ped') /\ EsperaAprobacionDeAlgo'
    BY <1>0, <1>01, <1>9, OpcionesOK, MueveVisto DEF RechazaVentas, Responde
  <2> QED
    BY <1>0, <1>9, <2>1, AcabaEnOrden DEF RechazaVentas
<1>10. CASE ContactaAsesor(r)
  <2>1. FilaEnOrden(ped') /\ EsperaAprobacionDeAlgo'
    BY <1>0, <1>01, <1>10, OpcionesOK, MueveVisto DEF ContactaAsesor
  <2> QED
    BY <1>0, <1>10, <2>1, AcabaEnOrden DEF ContactaAsesor
<1>11. CASE CancelaPorPropuesta(r)
  BY <1>0, <1>11, OpcionesOK, MueveFuera DEF CancelaPorPropuesta
<1> QED
  BY <1>1, <1>2, <1>3, <1>4, <1>5, <1>6, <1>7, <1>8, <1>9, <1>10, <1>11 DEF DePropuesta

\* The commits of mostrador.service.
LEMMA DeMostradorEnOrden ==
    ASSUME IInv, EnOrden, NEW r \in Peticiones, DeMostrador(r)
    PROVE  EnOrden'
<1>0. AMedias(r)
  BY DEF AMedias, DeMostrador, EnviaAPagar, Ajusta, CancelaMostrador,
         ReleeCancelarVencido, DevuelveACola, TraeAEntrega, Llama, Entrega, En
<1>00. /\ ped \in Pedidos /\ FilaEnOrden(ped) /\ EsperaAprobacionDeAlgo
       /\ Leyo(ped, peticiones[r])
       /\ peticiones[r].dest \in EstadosPedido
  BY <1>0, Encuentra, TiposLectura
<1>01. Leyo(ped', Lectura("CONFIRMAR_LLEGADA"))
  BY DeLectura, LeyoLibre DEF PasosLibres
<1>1. CASE EnviaAPagar(r)
  <2> DEFINE o == [SinOpciones EXCEPT !.encolar = TRUE]
  <2>1. o \in Opciones
    BY OpcionesOK DEF Opciones
  <2>2. Cambia("PENDIENTE_PAGO", o) /\ Termina(r)
    BY <1>1 DEF EnviaAPagar
  <2>3. ped.estado \in Vistos
    BY <1>00, <1>1 DEF EnviaAPagar, En, Leyo, Vistos
  <2> HIDE DEF o
  <2>4. FilaEnOrden(ped') /\ EsperaAprobacionDeAlgo'
    BY <1>0, <2>1, <2>2, <2>3, MueveVisto
  <2> QED
    BY <1>0, <2>2, <2>4, AcabaEnOrden
<1>2. CASE Ajusta(r)
  <2> DEFINE l == peticiones[r]
             o == OpcionesDeAjuste(l.dato)
  <2>1. /\ ped.estado \in ESTADOS_BOLSA_APARTADA
        /\ l.dato => l.dest = "EN_REVISION"
        /\ ~l.dato => l.dest = IF ped.estado = "EN_ATENCION" THEN "EN_ATENCION" ELSE "REVISADO"
    BY <1>00, <1>2 DEF Ajusta, En, Leyo
  <2>2. ped.lineas # "PENDIENTES"
    BY <1>00, <2>1 DEF FilaEnOrden, Vistos, ESTADOS_BOLSA_APARTADA, ESTADOS_ESPERA_CLIENTE
  <2>3. PICK q : q = Transita(ped, l.dest, o)
    OBVIOUS
  <2>4. o \in Opciones
    BY OpcionesOK DEF OpcionesDeAjuste, Opciones
  <2>5. q \in Pedidos /\ MismosDatos(ped, q) /\ LlegaA(q.estado, l.dest)
    BY <1>0, <1>00, <2>3, <2>4, TransitaLlega DEF AMedias
  <2>6. PICK x \in {ped.lineas, IF l.dato THEN "PENDIENTES" ELSE "COMPLETAS"} :
           ped' = [q EXCEPT !.lineas = x]
    BY <1>2, <2>3 DEF Ajusta, CambiaCon
  <2>7. /\ ped'.estado = q.estado /\ ped'.presente = ped.presente
        /\ ped'.lineas = x
    BY <2>5, <2>6 DEF Pedidos, MismosDatos
  <2>8. FilaEnOrden(ped') /\ EsperaAprobacionDeAlgo'
    <3>1. CASE l.dato
      <4>1. ped'.estado = "EN_REVISION"
        BY <2>1, <2>5, <2>7, <3>1 DEF LlegaA
      <4> QED
        BY <4>1, SaleEnOrden DEF Vistos
    <3>2. CASE ~l.dato
      <4>1. x # "PENDIENTES"
        BY <2>2, <2>6, <3>2
      <4>2. ped'.estado # "ESPERANDO_APROBACION"
        BY <2>1, <2>5, <2>7, <3>2 DEF LlegaA
      <4>3. ped'.estado = "EN_ATENCION" => ped.estado = "EN_ATENCION"
        BY <2>1, <2>5, <2>7, <3>2 DEF LlegaA
      <4> QED
        BY <1>00, <2>7, <4>1, <4>2, <4>3 DEF FilaEnOrden, EsperaAprobacionDeAlgo
    <3> QED
      BY <3>1, <3>2
  <2>9. Sigue(r, Lectura("CONFIRMAR_LLEGADA")) \/ Termina(r)
    BY <1>2 DEF Ajusta
  <2> QED
    BY <1>0, <1>01, <2>8, <2>9, PasaEnOrden, AcabaEnOrden
<1>3. CASE CancelaMostrador(r)
  BY <1>0, <1>3, OpcionesOK, MueveFuera DEF CancelaMostrador
<1>4. CASE ReleeCancelarVencido(r)
  <2>1. PICK s : s = [Lectura("CANCELAR_MOSTRADOR") EXCEPT !.dato = TRUE]
    OBVIOUS
  <2>2. s.paso \in PasosLibres
    BY <2>1 DEF Lectura, Libre, PasosLibres
  <2>3. Sigue(r, s) /\ ped' = ped /\ propuestas' = propuestas
    BY <1>4, <2>1 DEF ReleeCancelarVencido
  <2>4. FilaEnOrden(ped') /\ EsperaAprobacionDeAlgo'
    BY <1>00, <2>3, QuietoEnOrden
  <2>5. Leyo(ped', s)
    BY <2>2, LeyoLibre
  <2> QED
    BY <1>0, <2>3, <2>4, <2>5, PasaEnOrden
<1>5. CASE DevuelveACola(r)
  <2>1. ped.estado \in Vistos
    BY <1>00, <1>5 DEF DevuelveACola, En, Leyo, Vistos
  <2>2. FilaEnOrden(ped') /\ EsperaAprobacionDeAlgo'
    BY <1>0, <1>5, <2>1, OpcionesOK, MueveVisto DEF DevuelveACola
  <2> QED
    BY <1>0, <1>5, <2>2, AcabaEnOrden DEF DevuelveACola
<1>6. CASE TraeAEntrega(r)
  <2>1. ped.estado \in Vistos
    BY <1>00, <1>6 DEF TraeAEntrega, En, Leyo, Vistos
  <2>2. FilaEnOrden(ped') /\ EsperaAprobacionDeAlgo'
    BY <1>0, <1>6, <2>1, OpcionesOK, MueveVisto DEF TraeAEntrega
  <2> QED
    BY <1>0, <1>01, <1>6, <2>2, PasaEnOrden DEF TraeAEntrega
<1>7. CASE Llama(r)
  <2>1. ped.estado = "REVISADO" /\ ped.presente
    BY <1>00, <1>7 DEF Llama, En, Leyo
  <2>2. ped.lineas # "PENDIENTES"
    BY <1>00, <2>1 DEF FilaEnOrden, Vistos
  <2>3. PICK q : q = Transita(ped, "EN_ATENCION", SinOpciones)
    OBVIOUS
  <2>4. q \in Pedidos /\ MismosDatos(ped, q) /\ LlegaA(q.estado, "EN_ATENCION")
    BY <1>0, <2>3, OpcionesOK, TransitaLlega DEF AMedias, EstadosPedido
  <2>5. ped' = [q EXCEPT !.llamado = TRUE] /\ Termina(r)
    BY <1>7, <2>3 DEF Llama, CambiaCon
  <2>6. /\ ped'.estado = "EN_ATENCION" /\ ped'.lineas # "PENDIENTES"
        /\ ped'.presente = ped.presente
    BY <2>2, <2>4, <2>5 DEF Pedidos, MismosDatos, LlegaA
  <2>7. FilaEnOrden(ped') /\ EsperaAprobacionDeAlgo'
    BY <2>1, <2>6 DEF FilaEnOrden, EsperaAprobacionDeAlgo
  <2> QED
    BY <1>0, <2>5, <2>7, AcabaEnOrden
<1>8. CASE Entrega(r)
  BY <1>0, <1>8, OpcionesOK, MueveFuera DEF Entrega
<1> QED
  BY <1>1, <1>2, <1>3, <1>4, <1>5, <1>6, <1>7, <1>8 DEF DeMostrador

\* The commits of presencia.service and of the kiosk.
LEMMA DePresenciaEnOrden ==
    ASSUME IInv, EnOrden, NEW r \in Peticiones, DePresencia(r)
    PROVE  EnOrden'
<1>0. AMedias(r)
  BY DEF AMedias, DePresencia, LeeConfirmarLlegada, AvisaLlegada, AlLlegarCliente,
         RetiraAviso, AplicaPresencia, En
<1>00. /\ ped \in Pedidos /\ FilaEnOrden(ped) /\ EsperaAprobacionDeAlgo
       /\ Leyo(ped, peticiones[r]) /\ peticiones[r] \in Lecturas
  BY <1>0, Encuentra, TiposLectura
<1>1. CASE LeeConfirmarLlegada(r)
  <2>1. PICK s : s = LecturaEstado("AVISAR_LLEGADA")
    OBVIOUS
  <2>2. s.paso = "AVISAR_LLEGADA" /\ s.est = ped.estado /\ ~ped.domicilio
    BY <1>1, <2>1, DeLectura DEF LeeConfirmarLlegada, PuedeAvisar
  <2>3. Sigue(r, s) /\ ped' = ped /\ propuestas' = propuestas
    BY <1>1, <2>1 DEF LeeConfirmarLlegada
  <2>4. Leyo(ped', s)
    BY <2>2, <2>3 DEF Leyo, Decisiones
  <2>5. FilaEnOrden(ped') /\ EsperaAprobacionDeAlgo'
    BY <1>00, <2>3, QuietoEnOrden
  <2> QED
    BY <1>0, <2>3, <2>4, <2>5, PasaEnOrden
<1>2. CASE AvisaLlegada(r)
  <2>1. ped.estado = peticiones[r].est
    BY <1>00, <1>2 DEF AvisaLlegada, En, Leyo
  <2>2. ped' = [ped EXCEPT !.presente = TRUE] /\ propuestas' = propuestas
    BY <1>2 DEF AvisaLlegada
  <2>3. /\ ped'.estado = ped.estado /\ ped'.lineas = ped.lineas
        /\ ped'.presente = TRUE
    BY <1>00, <2>2 DEF Pedidos
  <2>4. FilaEnOrden(ped') /\ EsperaAprobacionDeAlgo'
    BY <1>00, <2>2, <2>3 DEF FilaEnOrden, EsperaAprobacionDeAlgo, HayPendiente, Pendiente
  <2>5. PICK s : s = [peticiones[r] EXCEPT !.paso = "REACCIONAR"]
    OBVIOUS
  <2>6. s.paso = "REACCIONAR"
    BY <1>00, <2>5 DEF Lecturas
  <2>7. CASE peticiones[r].est = "ESPERANDO_APROBACION"
    <3>1. Sigue(r, s)
      BY <1>2, <2>5, <2>7 DEF AvisaLlegada
    <3>2. Leyo(ped', s)
      BY <2>1, <2>3, <2>6, <2>7 DEF Leyo, Decisiones
    <3> QED
      BY <1>0, <2>4, <3>1, <3>2, PasaEnOrden
  <2>8. CASE peticiones[r].est # "ESPERANDO_APROBACION"
    BY <1>0, <1>2, <2>4, <2>8, AcabaEnOrden DEF AvisaLlegada, Termina
  <2> QED
    BY <2>7, <2>8
<1>3. CASE AlLlegarCliente(r)
  <2>1. ped.estado \in Vistos
    BY <1>00, <1>3 DEF AlLlegarCliente, En, Leyo, Vistos
  <2>2. FilaEnOrden(ped') /\ EsperaAprobacionDeAlgo'
    BY <1>0, <1>3, <2>1, OpcionesOK, MueveVisto DEF AlLlegarCliente
  <2> QED
    BY <1>0, <1>3, <2>2, AcabaEnOrden DEF AlLlegarCliente
<1>4. CASE RetiraAviso(r)
  <2>1. ped.estado # "EN_ATENCION"
    BY <1>00, <1>4 DEF RetiraAviso, En, Leyo
  <2>2. ped'.estado = ped.estado /\ ped'.lineas = ped.lineas
    BY <1>00, <1>4 DEF RetiraAviso, Pedidos
  <2>3. FilaEnOrden(ped') /\ EsperaAprobacionDeAlgo'
    BY <1>00, <1>4, <2>1, <2>2, QuietoEnOrden DEF RetiraAviso
  <2> QED
    BY <1>0, <1>4, <2>3, AcabaEnOrden DEF RetiraAviso
<1>5. CASE AplicaPresencia(r)
  <2> DEFINE l == peticiones[r]
  <2>1. l.est = ped.estado
    BY <1>00, <1>5 DEF AplicaPresencia, En, Leyo
  <2>2. Termina(r) /\ propuestas' = propuestas
    BY <1>5 DEF AplicaPresencia
  <2>3. CASE l.est = "EN_ATENCION"
    <3>1. PICK q : q = Transita(ped, "REVISADO", SinOpciones)
      OBVIOUS
    <3>2. q \in Pedidos /\ MismosDatos(ped, q) /\ LlegaA(q.estado, "REVISADO")
      BY <1>0, <3>1, OpcionesOK, TransitaLlega DEF AMedias, EstadosPedido
    <3>3. PICK b : ped' = [q EXCEPT !.presente = b]
      BY <1>5, <2>3, <3>1 DEF AplicaPresencia, CambiaCon
    <3>4. ped'.estado = q.estado /\ ped'.lineas = ped.lineas
      BY <3>2, <3>3 DEF Pedidos, MismosDatos
    <3>5. ped.lineas # "PENDIENTES"
      BY <1>00, <2>1, <2>3 DEF FilaEnOrden, Vistos
    <3>6. FilaEnOrden(ped') /\ EsperaAprobacionDeAlgo'
      BY <3>2, <3>4, <3>5, VistoEnOrden DEF LlegaA
    <3> QED
      BY <1>0, <2>2, <3>6, AcabaEnOrden
  <2>4. CASE l.est # "EN_ATENCION"
    <3>1. PICK b : ped' = [ped EXCEPT !.presente = b]
      BY <1>5, <2>4 DEF AplicaPresencia
    <3>2. ped'.estado = ped.estado /\ ped'.lineas = ped.lineas
      BY <1>00, <3>1 DEF Pedidos
    <3>3. FilaEnOrden(ped') /\ EsperaAprobacionDeAlgo'
      BY <1>00, <2>1, <2>2, <2>4, <3>2, QuietoEnOrden
    <3> QED
      BY <1>0, <2>2, <3>3, AcabaEnOrden
  <2> QED
    BY <2>3, <2>4
<1> QED
  BY <1>1, <1>2, <1>3, <1>4, <1>5 DEF DePresencia

\* The commits that cancel or charge the order.
LEMMA DeCierreEnOrden ==
    ASSUME IInv, EnOrden, NEW r \in Peticiones, DeCierre(r)
    PROVE  EnOrden'
<1>0. AMedias(r)
  BY DEF AMedias, DeCierre, CancelaCliente, CancelaTienda, CancelaErp, Paga, En
<1>00. ped \in Pedidos /\ peticiones[r].est \in EstadosPedido
  BY Tipos, TiposLectura
<1>1. CASE CancelaCliente(r)
  <2> DEFINE o == [SaleDeBodega EXCEPT !.desde = {peticiones[r].est}]
  <2>1. o \in Opciones
    BY <1>00, OpcionesOK DEF Opciones
  <2>2. Cambia("CANCELADO", o) /\ Termina(r)
    BY <1>1 DEF CancelaCliente
  <2> HIDE DEF o
  <2> QED
    BY <1>0, <2>1, <2>2, MueveFuera
<1>2. CASE CancelaTienda(r)
  BY <1>0, <1>2, OpcionesOK, MueveFuera DEF CancelaTienda
<1>3. CASE CancelaErp(r)
  BY <1>0, <1>3, OpcionesOK, MueveFuera DEF CancelaErp
<1>4. CASE Paga(r)
  <2>1. ped'.estado = "PAGADO" /\ Termina(r)
    BY <1>00, <1>4 DEF Paga, Pedidos
  <2> QED
    BY <1>0, <2>1, SaleEnOrden, AcabaEnOrden DEF Vistos
<1> QED
  BY <1>1, <1>2, <1>3, <1>4 DEF DeCierre

\* The commits of DTF printing.
LEMMA DeDtfEnOrden ==
    ASSUME IInv, EnOrden, NEW r \in Peticiones, DeDtf(r)
    PROVE  EnOrden'
<1>0. AMedias(r)
  BY DEF AMedias, DeDtf, TerminaDtf, ResuelveDtf, ReimprimeDtf, LeeDtfReabrir, ReabreDtf, En
<1>00. /\ ped \in Pedidos /\ FilaEnOrden(ped) /\ EsperaAprobacionDeAlgo
       /\ Leyo(ped, peticiones[r])
  BY <1>0, Encuentra
<1>01. ASSUME NEW p \in {"DTF_RESOLVER", "DTF_REABRIR"}
       PROVE  Leyo(ped', Lectura(p))
  BY DeLectura, LeyoLibre DEF PasosLibres
<1>1. CASE TerminaDtf(r) \/ ReimprimeDtf(r)
  <2>1. PICK a, b : ped' = [ped EXCEPT !.dtf = a, !.impreso = b]
    BY <1>1 DEF TerminaDtf, ReimprimeDtf
  <2>2. /\ ped'.estado = ped.estado /\ ped'.lineas = ped.lineas
        /\ ped'.presente = ped.presente /\ propuestas' = propuestas
    BY <1>00, <1>1, <2>1 DEF Pedidos, TerminaDtf, ReimprimeDtf
  <2>3. FilaEnOrden(ped') /\ EsperaAprobacionDeAlgo'
    BY <1>00, <2>2, QuietoEnOrden
  <2>4. Sigue(r, Lectura("DTF_RESOLVER")) \/ Sigue(r, Lectura("DTF_REABRIR"))
    BY <1>1 DEF TerminaDtf, ReimprimeDtf
  <2> QED
    BY <1>0, <1>01, <2>3, <2>4, PasaEnOrden
<1>2. CASE ResuelveDtf(r)
  <2> DEFINE o == [SinOpciones EXCEPT !.encolar = ped.domicilio]
  <2>1. o \in Opciones
    BY <1>00, OpcionesOK DEF Opciones, Pedidos
  <2>2. \/ Cambia("CANCELADO", SaleDeBodega)
        \/ ped.estado = "EN_DTF" /\ Cambia(DestinoTrasSurtido, o)
        \/ ped' = ped
    BY <1>2 DEF ResuelveDtf
  <2>3. Termina(r) /\ propuestas' = propuestas
    BY <1>2 DEF ResuelveDtf
  <2>4. DestinoTrasSurtido \in {"REVISADO", "PENDIENTE_PAGO"} /\ "EN_DTF" \in Vistos
    BY DEF DestinoTrasSurtido, Vistos
  <2> HIDE DEF o
  <2>5. CASE Cambia("CANCELADO", SaleDeBodega)
    BY <1>0, <2>3, <2>5, OpcionesOK, MueveFuera
  <2>6. CASE ped.estado = "EN_DTF" /\ Cambia(DestinoTrasSurtido, o)
    <3>1. FilaEnOrden(ped') /\ EsperaAprobacionDeAlgo'
      BY <1>0, <2>1, <2>4, <2>6, MueveVisto
    <3> QED
      BY <1>0, <2>3, <3>1, AcabaEnOrden
  <2>7. CASE ped' = ped
    <3>1. FilaEnOrden(ped') /\ EsperaAprobacionDeAlgo'
      BY <1>00, <2>3, <2>7, QuietoEnOrden
    <3> QED
      BY <1>0, <2>3, <3>1, AcabaEnOrden
  <2> QED
    BY <2>2, <2>5, <2>6, <2>7
<1>3. CASE LeeDtfReabrir(r)
  <2>1. PICK s : s = Lectura("DTF_REABIERTO")
    OBVIOUS
  <2>2. s.paso = "DTF_REABIERTO" /\ ped.estado \in {"REVISADO", "EN_ATENCION"}
    BY <1>3, <2>1, DeLectura DEF LeeDtfReabrir
  <2>3. Sigue(r, s) /\ ped' = ped /\ propuestas' = propuestas
    BY <1>3, <2>1 DEF LeeDtfReabrir
  <2>4. Leyo(ped', s)
    BY <2>2, <2>3 DEF Leyo, Decisiones
  <2>5. FilaEnOrden(ped') /\ EsperaAprobacionDeAlgo'
    BY <1>00, <2>3, QuietoEnOrden
  <2> QED
    BY <1>0, <2>3, <2>4, <2>5, PasaEnOrden
<1>4. CASE ReabreDtf(r)
  <2>1. ped.estado \in Vistos
    BY <1>00, <1>4 DEF ReabreDtf, En, Leyo, Vistos
  <2>2. FilaEnOrden(ped') /\ EsperaAprobacionDeAlgo'
    BY <1>0, <1>4, <2>1, OpcionesOK, MueveVisto DEF ReabreDtf
  <2> QED
    BY <1>0, <1>4, <2>2, AcabaEnOrden DEF ReabreDtf
<1> QED
  BY <1>1, <1>2, <1>3, <1>4 DEF DeDtf

\* A request that dies leaves the row as it was.
LEMMA AbandonaEnOrden ==
    ASSUME IInv, EnOrden, NEW r \in Peticiones, Abandona(r)
    PROVE  EnOrden'
<1>1. ped' = ped /\ propuestas' = propuestas /\ Sigue(r, Libre)
  BY DEF Abandona, Termina
<1>2. FilaEnOrden(ped') /\ EsperaAprobacionDeAlgo'
  BY <1>1, QuietoEnOrden DEF EnOrden
<1>3. \A s \in Peticiones : s # r => peticiones[s] = Libre
  BY DEF Abandona, EnOrden, Una
<1> QED
  BY <1>1, <1>2, <1>3, SigueEnOrden, LibreEsLibre, LeyoLibre

\* A request begins alone: another one in flight would be an overlap.
LEMMA LeeEnOrden ==
    ASSUME IInv, EnOrden, NEW r \in Peticiones, Lee(r), ~SeSolapan
    PROVE  EnOrden'
<1>1. PICK l : LeeAsi(r, l)
  BY LeeCierto
<1>2. ped' = ped /\ propuestas' = propuestas /\ Sigue(r, l) /\ Leyo(ped, l)
  BY <1>1 DEF LeeAsi
<1>3. FilaEnOrden(ped') /\ EsperaAprobacionDeAlgo'
  BY <1>2, QuietoEnOrden DEF EnOrden
<1>4. l # Libre
  BY <1>1, LibreEsLibre DEF LeeAsi, Primeros, OperacionesConocidas, Decisiones
<1>5. r \notin EnCurso /\ r \in EnCurso'
  BY <1>1, <1>2, <1>4, Tipos DEF LeeAsi, EnCurso, Sigue
<1>6. \A s \in Peticiones : s # r => peticiones[s] = Libre
  BY <1>5 DEF SeSolapan, EnCurso
<1>7. Leyo(ped', l)
  BY <1>2
<1> QED
  BY <1>2, <1>3, <1>6, <1>7, SigueEnOrden

-----------------------------------------------------------------------------
(* The theorems of one request at a time.                                  *)

\* A new order is in order.
LEMMA MCInicio == MCInit => MCInv
<1> SUFFICES ASSUME MCInit PROVE MCInv
  OBVIOUS
<1>1. IInv /\ solapes \in Nat
  BY InitIInv DEF MCInit
<1>2. ped.estado \in {"EN_DTF", "SOLICITADO"} /\ (ped.estado = "EN_DTF" => ped.lineas = "COMPLETAS")
  BY DEF MCInit, Init
<1>3. FilaEnOrden(ped) /\ EsperaAprobacionDeAlgo
  BY <1>2 DEF FilaEnOrden, EsperaAprobacionDeAlgo, Vistos
<1>4. \A r \in Peticiones : peticiones[r] = Libre
  BY DEF MCInit, Init
<1>5. Una /\ \A r \in Peticiones : Leyo(ped, peticiones[r])
  BY <1>4, LibreEsLibre, LeyoLibre DEF Una
<1> QED
  BY <1>1, <1>3, <1>5 DEF MCInv, EnOrden

\* And every step leaves it so until two requests overlap.
LEMMA MCAvanza == MCInv /\ [MCNext]_varsMC => MCInv'
<1>1. ASSUME MCInv, MCNext PROVE MCInv'
  <2>1. IInv /\ Next /\ IInv'
    BY <1>1, IInvInductiva DEF MCInv, MCNext
  <2>2. /\ solapes \in Nat
        /\ solapes' = IF SeSolapan THEN solapes + 1 ELSE solapes
    BY <1>1 DEF MCInv, MCNext
  <2>3. solapes' \in Nat /\ (~solapo' => ~solapo /\ ~SeSolapan)
    BY <2>2 DEF solapo
  <2>4. ASSUME ~solapo' PROVE EnOrden'
    <3>1. EnOrden /\ ~SeSolapan
      BY <1>1, <2>3, <2>4 DEF MCInv
    <3>2. PICK r \in Peticiones :
             \/ Lee(r) \/ DeBodega(r) \/ DePropuesta(r) \/ DeMostrador(r)
             \/ DePresencia(r) \/ DeCierre(r) \/ DeDtf(r) \/ Abandona(r)
      BY <2>1 DEF Next
    <3> QED
      BY <2>1, <3>1, <3>2, LeeEnOrden, DeBodegaEnOrden, DePropuestaEnOrden,
         DeMostradorEnOrden, DePresenciaEnOrden, DeCierreEnOrden, DeDtfEnOrden,
         AbandonaEnOrden
  <2> QED
    BY <2>1, <2>3, <2>4 DEF MCInv
<1>2. ASSUME MCInv, UNCHANGED varsMC PROVE MCInv'
  <2>1. IInv' /\ solapes' = solapes /\ ped' = ped /\ propuestas' = propuestas
        /\ peticiones' = peticiones
    BY <1>2, IInvInductiva DEF MCInv, varsMC, vars
  <2>2. solapes' \in Nat /\ (solapo' <=> solapo)
    BY <1>2, <2>1 DEF MCInv, solapo
  <2>3. EnOrden => EnOrden'
    BY <2>1 DEF EnOrden, Una, EsperaAprobacionDeAlgo, HayPendiente, Pendiente
  <2> QED
    BY <1>2, <2>1, <2>2, <2>3 DEF MCInv
<1> QED
  BY <1>1, <1>2

\* While no two requests have overlapped, what the one in flight read is still
\* true, whatever handlers came before, any number of them.
THEOREM InvarianciaEnOrden == MCSpec => []MCInv
BY MCInicio, MCAvanza, PTL DEF MCSpec

\* Nothing goes to the customer, nor to the table, with lines that the
\* warehouse has not looked at.
THEOREM EntregaRevisada == MCSpec => []EntregaSinPendientesEnOrden
<1>1. MCInv => EntregaSinPendientesEnOrden
  BY DEF MCInv, EnOrden, FilaEnOrden, Vistos, EntregaSinPendientesEnOrden,
         EntregaSinPendientes, PidenDtfImpreso
<1> QED
  BY <1>1, InvarianciaEnOrden, PTL

\* Every live order is in the list of some console and in the control tower.
THEOREM NadaSePierdeDeVista == MCSpec => []TodoPedidoSeVeEnOrden
<1>1. MCInv => TodoPedidoSeVeEnOrden
  <2> SUFFICES ASSUME MCInv, ~solapo,
                      ped.estado \notin {"ENTREGADO", "CANCELADO", "EN_DTF"}
               PROVE  LoVeAlguien /\ (EnLaTorre \/ LoTieneElCliente)
    BY DEF TodoPedidoSeVeEnOrden, TodoPedidoSeVe
  <2>1. /\ ped \in Pedidos /\ ped.estado \in EstadosPedido
        /\ FilaEnOrden(ped) /\ EsperaAprobacionDeAlgo
    BY Tipos DEF MCInv, EnOrden
  <2>2. CASE ped.estado \in {"SOLICITADO", "EN_REVISION"}
    BY <2>1, <2>2 DEF LoVeAlguien, EnLaTorre, EnColumnasDeBodega, EnColaDeBodega, EnFicha,
                      Pedidos
  <2>3. CASE ped.estado \in {"EN_ASESORIA", "ESPERANDO_APROBACION"}
    BY <2>1, <2>3 DEF LoVeAlguien, EnLaTorre, EnColaDeVentas, LoTieneElCliente,
                      EsperaAprobacionDeAlgo
  <2>4. CASE ped.estado \in {"REVISADO", "EN_ATENCION"}
    BY <2>1, <2>4 DEF LoVeAlguien, EnLaTorre, EnColaDelMostrador, EnLaTv, SinAviso,
                      FilaEnOrden, ESTADOS_ESPERA_CLIENTE
  <2>5. CASE ped.estado \in {"PAGADO", "ENVIADO"}
    BY <2>5 DEF LoVeAlguien, EnLaTorre, ListoParaEntregar
  <2>6. CASE ped.estado = "PENDIENTE_PAGO"
    BY <2>6 DEF LoVeAlguien, EnLaTorre, EnColaDeVentanilla, EnFilaDeCaja, LoTieneElCliente
  <2> QED
    BY <2>1, <2>2, <2>3, <2>4, <2>5, <2>6 DEF EstadosPedido
<1> QED
  BY <1>1, InvarianciaEnOrden, PTL
=============================================================================
