----------------------------- MODULE DtfProofs -----------------------------
(***************************************************************************)
(* Proofs about Dtf, for any jobs, any number of requests in flight, any   *)
(* bound on the versions and with or without crashes.                      *)
(***************************************************************************)
EXTENDS MCDtf, TLAPS

-----------------------------------------------------------------------------
(* The invariant.  That nothing is printed without a file does not follow   *)
(* from itself: the printing room writes what it decided on an older read.  *)
(* What it read is still true enough because a version is never lost, and   *)
(* because a row that is about to be approved or printed had one.           *)

ConPelicula == {"APROBADO", "EN_IMPRESION", "IMPRESO"}

\* What holds of each row of PedidoDtf.
FilaOK(f) ==
    /\ f \in Filas
    /\ f.estado \in {"BORRADOR", "RECIBIDO"} => ~f.asignado
    /\ f.estado = "EN_REVISION" => f.asignado
    /\ f.estado \in ConPelicula => f.version > 0
    /\ f.estado = "NO_EXISTE" => f.version = 0

SobreUnTrabajo == {"SUBIR", "CAMBIAR", "CANCELAR", "BORRAR", "REIMPRIMIR"}

\* What a request that writes no job read.
LecturaDelPedido(l) ==
    /\ l \in Lecturas
    /\ l.paso \notin SobreUnTrabajo
    /\ l.paso \in {"RESUELTO", "AVANZAR"} => l.a \in EstadosPedido

\* What a request that writes a job read, and what is still true of it.
LecturaDelTrabajo(l, filas) ==
    /\ l \in Lecturas
    /\ l.paso \in SobreUnTrabajo
    /\ l.trabajo \in Trabajos
    /\ l.paso = "CAMBIAR" => /\ l.a \in DeImpresion
                             /\ l.a \in ConPelicula => l.version > 0
    /\ l.paso = "REIMPRIMIR" => filas[l.trabajo].version > 0

LecturaOK(l, filas) == LecturaDelPedido(l) \/ LecturaDelTrabajo(l, filas)

PedidoOK == pedido \in [estado : EstadosPedido, prendas : BOOLEAN, domicilio : BOOLEAN]

IInv ==
    /\ PedidoOK
    /\ trabajos \in [Trabajos -> Filas]
    /\ \A t \in Trabajos : FilaOK(trabajos[t])
    /\ peticiones \in [Peticiones -> Lecturas]
    /\ \A r \in Peticiones : LecturaOK(peticiones[r], trabajos)

\* A write of one row: it leaves a sound row with the same version or the next.
PasoFila(f, g) == FilaOK(g) /\ g.version \in {f.version, f.version + 1}

\* What every step does.
Avance ==
    /\ IInv'
    /\ \A t \in Trabajos :
          trabajos'[t].version \in {trabajos[t].version, trabajos[t].version + 1}

-----------------------------------------------------------------------------
(* What the requests in flight keep.                                       *)

LEMMA LibreOK == Libre \in Lecturas /\ LecturaDelPedido(Libre)
BY DEF Libre, Lecturas, LecturaDelPedido, SobreUnTrabajo, Pasos, EstadosDtf,
       EstadosPedido, ESTADOS_DTF_PENDIENTES

LEMMA LecturaSola ==
    ASSUME NEW p \in Pasos
    PROVE  Lectura(p) \in Lecturas /\ Lectura(p).paso = p
BY LibreOK DEF Lectura, Lecturas

LEMMA LecturasDelPedido ==
    ASSUME NEW p \in {"RESOLVER", "RESUELTO", "REABRIR", "REABIERTO", "AVANZAR"},
           NEW de \in EstadosPedido, NEW a \in EstadosPedido
    PROVE  LecturaDelPedido([Lectura(p) EXCEPT !.de = de, !.a = a])
<1> DEFINE l == [Lectura(p) EXCEPT !.de = de, !.a = a]
<1>1. Lectura(p) \in Lecturas /\ Lectura(p).paso = p
  BY LecturaSola DEF Pasos
<1>2. l \in Lecturas /\ l.paso = p /\ l.a = a
  BY <1>1 DEF Lecturas
<1> QED
  BY <1>2 DEF LecturaDelPedido, SobreUnTrabajo

\* A version is never lost, so what was read of a job with a file stays true.
LEMMA LecturaSigueOK ==
    ASSUME NEW filas \in [Trabajos -> Filas], NEW nuevas \in [Trabajos -> Filas],
           \A t \in Trabajos : nuevas[t].version \in {filas[t].version, filas[t].version + 1},
           NEW l, LecturaOK(l, filas)
    PROVE  LecturaOK(l, nuevas)
<1>1. ASSUME LecturaDelTrabajo(l, filas)
      PROVE  LecturaDelTrabajo(l, nuevas)
  <2>1. /\ filas[l.trabajo].version \in Nat
        /\ nuevas[l.trabajo].version \in {filas[l.trabajo].version, filas[l.trabajo].version + 1}
    BY <1>1 DEF LecturaDelTrabajo, Filas
  <2>2. filas[l.trabajo].version > 0 => nuevas[l.trabajo].version > 0
    BY <2>1
  <2> QED
    BY <1>1, <2>2 DEF LecturaDelTrabajo
<1> QED
  BY <1>1 DEF LecturaOK

\* A step is sound if the rows it writes are and the request that takes it, if
\* any, leaves a sound reading.
LEMMA AvanceDe ==
    ASSUME IInv, PedidoOK',
           trabajos' \in [Trabajos -> Filas],
           \A t \in Trabajos : PasoFila(trabajos[t], trabajos'[t]),
           \/ UNCHANGED peticiones
           \/ \E r \in Peticiones : \E l \in Lecturas :
                 LecturaOK(l, trabajos') /\ peticiones' = [peticiones EXCEPT ![r] = l]
    PROVE  Avance
<1>1. \A t \in Trabajos :
         trabajos'[t].version \in {trabajos[t].version, trabajos[t].version + 1}
  BY DEF PasoFila
<1>2. \A r \in Peticiones : LecturaOK(peticiones[r], trabajos')
  BY <1>1, LecturaSigueOK DEF IInv
<1>3. peticiones' \in [Peticiones -> Lecturas]
  BY DEF IInv
<1>4. \A r \in Peticiones : LecturaOK(peticiones'[r], trabajos')
  BY <1>2 DEF IInv
<1>5. \A t \in Trabajos : FilaOK(trabajos'[t])
  BY DEF PasoFila
<1> QED
  BY <1>1, <1>3, <1>4, <1>5 DEF Avance, IInv

\* The request of a step, if it has one, leaves a sound reading behind.
SigueBien(filas) ==
    \/ UNCHANGED peticiones
    \/ \E r \in Peticiones : \E l \in Lecturas :
          LecturaOK(l, filas) /\ peticiones' = [peticiones EXCEPT ![r] = l]

LEMMA TerminaBien ==
    ASSUME NEW r \in Peticiones, NEW filas, Termina(r)
    PROVE  SigueBien(filas)
BY LibreOK DEF Termina, Sigue, SigueBien, LecturaOK

LEMMA SigueConBien ==
    ASSUME NEW r \in Peticiones, NEW filas,
           NEW p \in {"RESOLVER", "REABRIR"}, SigueCon(r, p)
    PROVE  SigueBien(filas)
<1>1. LecturaDelPedido(Lectura(p))
  BY LecturaSola DEF LecturaDelPedido, SobreUnTrabajo, Pasos
<1>2. CASE Termina(r)
  BY <1>2, TerminaBien
<1>3. CASE Sigue(r, Lectura(p))
  BY <1>1, <1>3 DEF Sigue, SigueBien, LecturaOK, LecturaDelPedido
<1> QED
  BY <1>2, <1>3 DEF SigueCon

\* A step that writes no row.
LEMMA AvanceSinFilas ==
    ASSUME IInv, PedidoOK', UNCHANGED trabajos, SigueBien(trabajos)
    PROVE  Avance
<1>1. \A t \in Trabajos : PasoFila(trabajos[t], trabajos'[t])
  BY DEF IInv, PasoFila
<1>2. trabajos' \in [Trabajos -> Filas]
  BY DEF IInv
<1> QED
  BY <1>1, <1>2, AvanceDe DEF SigueBien

\* A step that writes the row of one job.
LEMMA AvanceUnaFila ==
    ASSUME IInv, UNCHANGED pedido,
           NEW t \in Trabajos, NEW g, PasoFila(trabajos[t], g), EscribeTrabajo(t, g),
           SigueBien(trabajos')
    PROVE  Avance
<1>1. PedidoOK'
  BY DEF IInv, PedidoOK
<1>2. trabajos' \in [Trabajos -> Filas]
  BY DEF IInv, PasoFila, FilaOK, EscribeTrabajo
<1>3. \A u \in Trabajos : PasoFila(trabajos[u], trabajos'[u])
  BY DEF IInv, PasoFila, FilaOK, EscribeTrabajo, Filas
<1> QED
  BY <1>1, <1>2, <1>3, AvanceDe DEF SigueBien

-----------------------------------------------------------------------------
(* What each write leaves in the row of a job.                             *)

\* A row gets a state that asks for nobody and for no file, and keeps the rest.
LEMMA FilaQueTermina ==
    ASSUME NEW f, FilaOK(f), NEW e \in {"BORRADO", "CANCELADO"}, NEW a \in BOOLEAN
    PROVE  /\ PasoFila(f, [f EXCEPT !.estado = e])
           /\ PasoFila(f, [f EXCEPT !.estado = e, !.asignado = a])
BY DEF FilaOK, PasoFila, Filas, ConPelicula, EstadosDtf, ESTADOS_DTF_PENDIENTES

LEMMA FilaConArchivo ==
    ASSUME NEW f, FilaOK(f), NEW l \in Lecturas, l.version = f.version
    PROVE  PasoFila(f, ConArchivoNuevo(f, l))
<1> DEFINE e == IF l.est = "BORRADOR" THEN "BORRADOR" ELSE "RECIBIDO"
           g == [f EXCEPT !.version = f.version + 1, !.estado = e, !.asignado = FALSE,
                          !.aprobado = FALSE, !.preflight = "PENDIENTE"]
<1>1. e \in {"BORRADOR", "RECIBIDO"}
  OBVIOUS
<1> HIDE DEF e
<1>2. f \in Filas /\ f.version + 1 \in Nat
  BY DEF FilaOK, Filas
<1>3. e \in EstadosDtf
  BY <1>1 DEF EstadosDtf, ESTADOS_DTF_PENDIENTES
<1>4. g \in Filas
  BY <1>2, <1>3 DEF Filas
<1>5. g.estado = e /\ g.version = f.version + 1 /\ g.asignado = FALSE
  BY <1>2 DEF Filas
<1>6. ConArchivoNuevo(f, l) = g
  BY DEF ConArchivoNuevo, e
<1> HIDE DEF g
<1>7. PasoFila(f, g)
  BY <1>1, <1>4, <1>5 DEF PasoFila, FilaOK, ConPelicula
<1> QED
  BY <1>6, <1>7

LEMMA FilaAdjunta ==
    ASSUME NEW f, FilaOK(f), f.estado = "BORRADOR"
    PROVE  PasoFila(f, Adjunto(f))
<1> DEFINE e == IF f.version = 0 THEN "ARCHIVO_PENDIENTE" ELSE "RECIBIDO"
           g == [f EXCEPT !.enPedido = TRUE, !.estado = e]
<1>1. e \in {"ARCHIVO_PENDIENTE", "RECIBIDO"}
  OBVIOUS
<1> HIDE DEF e
<1>2. g \in Filas /\ g.estado = e /\ g.version = f.version /\ g.asignado = f.asignado
  BY <1>1 DEF FilaOK, Filas, EstadosDtf, ESTADOS_DTF_PENDIENTES
<1>3. Adjunto(f) = g
  BY DEF Adjunto, e
<1> HIDE DEF g
<1>4. PasoFila(f, g)
  BY <1>1, <1>2 DEF PasoFila, FilaOK, ConPelicula
<1> QED
  BY <1>3, <1>4

\* The printing room: nobody holds what goes back to the queue.
LEMMA FilaCambiada ==
    ASSUME NEW f, FilaOK(f), NEW a \in DeImpresion, a \in ConPelicula => f.version > 0
    PROVE  PasoFila(f, ConEstado(f, a))
<1>1. f.asignado \in BOOLEAN /\ f.aprobado \in BOOLEAN
  BY DEF FilaOK, Filas
<1>2. PICK x \in BOOLEAN, y \in BOOLEAN :
         /\ ConEstado(f, a) = [f EXCEPT !.estado = a, !.asignado = x, !.aprobado = y]
         /\ a = "RECIBIDO" => ~x
  <2>1. CASE a \in {"APROBADO"}
    BY <1>1, <2>1 DEF ConEstado
  <2>2. CASE a \in {"EN_IMPRESION"}
    BY <1>1, <2>2 DEF ConEstado
  <2>3. CASE a = "IMPRESO"
    BY <1>1, <2>3 DEF ConEstado
  <2>4. CASE a = "NECESITA_CORRECCION"
    BY <1>1, <2>4 DEF ConEstado
  <2>5. CASE a \in {"RECIBIDO", "RECHAZADO"}
    BY <1>1, <2>5 DEF ConEstado
  <2> QED
    BY <2>1, <2>2, <2>3, <2>4, <2>5 DEF DeImpresion
<1> DEFINE g == [f EXCEPT !.estado = a, !.asignado = x, !.aprobado = y]
<1>3. g \in Filas /\ g.estado = a /\ g.version = f.version /\ g.asignado = x
  BY DEF FilaOK, Filas, DeImpresion, EstadosDtf, ESTADOS_DTF_PENDIENTES
<1> HIDE DEF g
<1>4. PasoFila(f, g)
  BY <1>2, <1>3 DEF PasoFila, FilaOK, DeImpresion, ConPelicula
<1> QED
  BY <1>2, <1>4 DEF g

LEMMA FilaTomada ==
    ASSUME NEW f, FilaOK(f)
    PROVE  PasoFila(f, [f EXCEPT !.estado = "EN_REVISION", !.asignado = TRUE])
<1> DEFINE g == [f EXCEPT !.estado = "EN_REVISION", !.asignado = TRUE]
<1>1. g \in Filas /\ g.estado = "EN_REVISION" /\ g.version = f.version /\ g.asignado = TRUE
  BY DEF FilaOK, Filas, EstadosDtf, ESTADOS_DTF_PENDIENTES
<1> HIDE DEF g
<1>2. PasoFila(f, g)
  BY <1>1 DEF PasoFila, FilaOK, ConPelicula
<1> QED
  BY <1>2 DEF g

LEMMA FilaReimpresa ==
    ASSUME NEW f, FilaOK(f), f.version > 0
    PROVE  PasoFila(f, [f EXCEPT !.estado = "EN_IMPRESION"])
BY DEF FilaOK, PasoFila, Filas, ConPelicula, EstadosDtf, ESTADOS_DTF_PENDIENTES

-----------------------------------------------------------------------------
(* Every action.                                                           *)

\* What a request reads of a job that exists.
LEMMA LecturaDeUnTrabajo ==
    ASSUME IInv, NEW t \in Trabajos, trabajos[t].estado \in EstadosDtf,
           NEW p \in SobreUnTrabajo
    PROVE  /\ LecturaDe(p, t) \in Lecturas
           /\ LecturaDe(p, t).paso = p
           /\ LecturaDe(p, t).trabajo = t
           /\ LecturaDe(p, t).version = trabajos[t].version
<1>1. trabajos[t].version \in Nat /\ trabajos[t].enPedido \in BOOLEAN
  BY DEF IInv, Filas
<1>2. p \in Pasos
  BY DEF SobreUnTrabajo, Pasos
<1> QED
  BY <1>1, <1>2, LibreOK DEF LecturaDe, Lecturas

\* Reading a job for any change but those of the printing room.
LEMMA LeeAvance ==
    ASSUME IInv, NEW r \in Peticiones, NEW t \in Trabajos,
           trabajos[t].estado \in EstadosDtf,
           NEW p \in SobreUnTrabajo \ {"CAMBIAR"},
           p = "REIMPRIMIR" => trabajos[t].version > 0,
           Recibe(r, LecturaDe(p, t))
    PROVE  Avance
<1>1. /\ LecturaDe(p, t) \in Lecturas
      /\ LecturaDe(p, t).paso = p /\ LecturaDe(p, t).trabajo = t
  BY LecturaDeUnTrabajo
<1>2. LecturaOK(LecturaDe(p, t), trabajos)
  BY <1>1 DEF LecturaOK, LecturaDelTrabajo
<1>3. SigueBien(trabajos)
  BY <1>1, <1>2 DEF Recibe, Sigue, SigueBien
<1>4. PedidoOK'
  BY DEF Recibe, IInv, PedidoOK
<1> QED
  BY <1>3, <1>4, AvanceSinFilas DEF Recibe

\* What is known of a request that is about to write a job.
LEMMA EnVuelo ==
    ASSUME IInv, NEW r \in Peticiones, peticiones[r].paso \in SobreUnTrabajo
    PROVE  /\ LecturaDelTrabajo(peticiones[r], trabajos)
           /\ peticiones[r] \in Lecturas
           /\ peticiones[r].trabajo \in Trabajos
           /\ FilaOK(trabajos[peticiones[r].trabajo])
BY DEF IInv, LecturaOK, LecturaDelPedido, LecturaDelTrabajo

LEMMA AnalizaAvanza ==
    ASSUME IInv, NEW t \in Trabajos, Analiza(t)
    PROVE  Avance
<1>1. PICK e \in {"OK", "BLOQUEADO"} : EscribeTrabajo(t, [trabajos[t] EXCEPT !.preflight = e])
  BY DEF Analiza
<1>2. PasoFila(trabajos[t], [trabajos[t] EXCEPT !.preflight = e])
  BY DEF IInv, FilaOK, PasoFila, Filas
<1> QED
  BY <1>1, <1>2, AvanceUnaFila DEF Analiza, SigueBien

\* The customer, and the creation of the order.
LEMMA DelClienteAvanza ==
    ASSUME IInv, NEW r \in Peticiones, DelCliente(r)
    PROVE  Avance
<1>1. CASE CreaBorrador(r)
  <2>1. PICK t \in Trabajos : /\ trabajos[t].estado = "NO_EXISTE"
                             /\ EscribeTrabajo(t, [SinCrear EXCEPT !.estado = "BORRADOR"])
    BY <1>1 DEF CreaBorrador
  <2>2. trabajos[t].version = 0
    BY <2>1 DEF IInv, FilaOK
  <2>3. PasoFila(trabajos[t], [SinCrear EXCEPT !.estado = "BORRADOR"])
    BY <2>2 DEF SinCrear, PasoFila, FilaOK, Filas, EstadosDtf, ESTADOS_DTF_PENDIENTES, ConPelicula
  <2> QED
    BY <1>1, <2>1, <2>3, AvanceUnaFila DEF CreaBorrador, DeUnPaso, SigueBien
<1>2. CASE CreaPedido(r)
  <2>1. PICK S \in (SUBSET Trabajos) \ {{}} :
           /\ \A t \in S : trabajos[t].estado = "BORRADOR"
           /\ trabajos' = [t \in Trabajos |->
                             IF t \in S THEN Adjunto(trabajos[t]) ELSE trabajos[t]]
    BY <1>2 DEF CreaPedido
  <2>2. ASSUME NEW t \in Trabajos
        PROVE  PasoFila(trabajos[t], trabajos'[t])
    <3>1. FilaOK(trabajos[t])
      BY DEF IInv
    <3>2. CASE t \in S
      BY <2>1, <3>1, <3>2, FilaAdjunta
    <3>3. CASE t \notin S
      BY <2>1, <3>1, <3>3 DEF PasoFila
    <3> QED
      BY <3>2, <3>3
  <2>3. trabajos' \in [Trabajos -> Filas]
    BY <2>1, <2>2 DEF PasoFila, FilaOK
  <2>4. PedidoOK'
    BY <1>2 DEF CreaPedido, IInv, PedidoOK, EstadosPedido
  <2>5. UNCHANGED peticiones
    BY <1>2 DEF CreaPedido, DeUnPaso
  <2> QED
    BY <2>2, <2>3, <2>4, <2>5, AvanceDe
<1>3. CASE LeeSubir(r)
  <2>1. PICK t \in Trabajos : /\ trabajos[t].estado \in ESTADOS_DTF_EDITABLES_POR_CLIENTE
                             /\ Recibe(r, LecturaDe("SUBIR", t))
    BY <1>3 DEF LeeSubir
  <2> QED
    BY <2>1, LeeAvance
    DEF SobreUnTrabajo, ESTADOS_DTF_EDITABLES_POR_CLIENTE, EstadosDtf
<1>4. CASE Sube(r)
  <2> DEFINE l == peticiones[r]
  <2>1. l \in Lecturas /\ l.trabajo \in Trabajos /\ FilaOK(trabajos[l.trabajo])
    BY <1>4, EnVuelo DEF Sube, En, SobreUnTrabajo
  <2>2. l.version = trabajos[l.trabajo].version
    BY <1>4 DEF Sube, VersionUnica
  <2>3. PasoFila(trabajos[l.trabajo], ConArchivoNuevo(trabajos[l.trabajo], l))
    BY <2>1, <2>2, FilaConArchivo
  <2> QED
    BY <1>4, <2>1, <2>3, AvanceUnaFila, TerminaBien DEF Sube
<1>5. CASE LeeCancelar(r)
  <2>1. PICK t \in Trabajos :
           /\ trabajos[t].estado \in ESTADOS_DTF_EDITABLES_POR_CLIENTE
           /\ Recibe(r, LecturaDe(IF trabajos[t].estado = "BORRADOR" THEN "BORRAR"
                                  ELSE "CANCELAR", t))
    BY <1>5 DEF LeeCancelar
  <2>2. PICK p \in {"BORRAR", "CANCELAR"} : Recibe(r, LecturaDe(p, t))
    BY <2>1
  <2>3. trabajos[t].estado \in EstadosDtf /\ p \in SobreUnTrabajo \ {"CAMBIAR"} /\ p # "REIMPRIMIR"
    BY <2>1 DEF SobreUnTrabajo, ESTADOS_DTF_EDITABLES_POR_CLIENTE, EstadosDtf
  <2> QED
    BY <2>2, <2>3, LeeAvance
<1>6. CASE Borra(r)
  <2> DEFINE t == peticiones[r].trabajo
  <2>1. t \in Trabajos /\ FilaOK(trabajos[t])
    BY <1>6, EnVuelo DEF Borra, En, SobreUnTrabajo
  <2>2. PasoFila(trabajos[t], [trabajos[t] EXCEPT !.estado = "BORRADO"])
    BY <2>1, FilaQueTermina
  <2> QED
    BY <1>6, <2>1, <2>2, AvanceUnaFila, TerminaBien DEF Borra
<1>7. CASE Cancela(r)
  <2> DEFINE t == peticiones[r].trabajo
  <2>1. t \in Trabajos /\ FilaOK(trabajos[t])
    BY <1>7, EnVuelo DEF Cancela, En, SobreUnTrabajo
  <2>2. PasoFila(trabajos[t], [trabajos[t] EXCEPT !.estado = "CANCELADO", !.asignado = FALSE])
    BY <2>1, FilaQueTermina
  <2> QED
    BY <1>7, <2>1, <2>2, AvanceUnaFila, SigueConBien DEF Cancela
<1> QED
  BY <1>1, <1>2, <1>3, <1>4, <1>5, <1>6, <1>7 DEF DelCliente

\* The printing room reads a job: what it will approve or print has a file.
LEMMA LeeCambiarAvanza ==
    ASSUME IInv, NEW r \in Peticiones, LeeCambiar(r)
    PROVE  Avance
<1>1. PICK t \in Trabajos, a \in DeImpresion :
         /\ Existe(t)
         /\ a \in TRANSICIONES_DTF[trabajos[t].estado]
         /\ a = "APROBADO" => ArchivoSinErrores(t)
         /\ Recibe(r, [LecturaDe("CAMBIAR", t) EXCEPT !.a = a])
  BY DEF LeeCambiar
<1> DEFINE l == [LecturaDe("CAMBIAR", t) EXCEPT !.a = a]
<1>2. trabajos[t].estado \in EstadosDtf /\ FilaOK(trabajos[t])
  BY <1>1 DEF Existe, IInv
<1>3. a \in EstadosDtf
  BY DEF DeImpresion, EstadosDtf, ESTADOS_DTF_PENDIENTES
<1>4. /\ LecturaDe("CAMBIAR", t) \in Lecturas
      /\ LecturaDe("CAMBIAR", t).paso = "CAMBIAR"
      /\ LecturaDe("CAMBIAR", t).trabajo = t
      /\ LecturaDe("CAMBIAR", t).version = trabajos[t].version
  BY <1>2, LecturaDeUnTrabajo DEF SobreUnTrabajo
<1>5. /\ l \in Lecturas /\ l.paso = "CAMBIAR" /\ l.trabajo = t
      /\ l.version = trabajos[t].version /\ l.a = a
  BY <1>3, <1>4 DEF Lecturas
<1>6. a \in {"EN_IMPRESION", "IMPRESO"} => trabajos[t].estado \in ConPelicula
  BY <1>1, <1>2 DEF TRANSICIONES_DTF, ConPelicula, EstadosDtf, ESTADOS_DTF_PENDIENTES
<1>7. a \in ConPelicula => trabajos[t].version > 0
  BY <1>1, <1>2, <1>6 DEF FilaOK, ConPelicula, ArchivoSinErrores
<1> HIDE DEF l
<1>8. LecturaOK(l, trabajos)
  BY <1>5, <1>7 DEF LecturaOK, LecturaDelTrabajo, SobreUnTrabajo
<1>9. SigueBien(trabajos)
  BY <1>1, <1>5, <1>8 DEF Recibe, Sigue, SigueBien, l
<1>10. PedidoOK' /\ UNCHANGED trabajos
  BY <1>1 DEF Recibe, IInv, PedidoOK
<1> QED
  BY <1>9, <1>10, AvanceSinFilas

\* The printing room.
LEMMA DeLaImpresionAvanza ==
    ASSUME IInv, NEW r \in Peticiones, DeLaImpresion(r)
    PROVE  Avance
<1>1. CASE Toma(r)
  <2>1. PICK t \in Trabajos :
           EscribeTrabajo(t, [trabajos[t] EXCEPT !.estado = "EN_REVISION", !.asignado = TRUE])
    BY <1>1 DEF Toma
  <2>2. PasoFila(trabajos[t], [trabajos[t] EXCEPT !.estado = "EN_REVISION", !.asignado = TRUE])
    BY FilaTomada DEF IInv
  <2> QED
    BY <1>1, <2>1, <2>2, AvanceUnaFila DEF Toma, DeUnPaso, SigueBien
<1>2. CASE LeeCambiar(r)
  BY <1>2, LeeCambiarAvanza
<1>3. CASE Cambia(r)
  <2> DEFINE l == peticiones[r]
             f == trabajos[l.trabajo]
  <2>1. /\ LecturaDelTrabajo(l, trabajos) /\ l.trabajo \in Trabajos /\ FilaOK(f)
        /\ l.paso = "CAMBIAR"
    BY <1>3, EnVuelo DEF Cambia, En, SobreUnTrabajo
  <2>2. f.version = l.version /\ EscribeTrabajo(l.trabajo, ConEstado(f, l.a))
    BY <1>3 DEF Cambia
  <2>3. l.a \in DeImpresion /\ (l.a \in ConPelicula => f.version > 0)
    BY <2>1, <2>2 DEF LecturaDelTrabajo
  <2>4. PasoFila(f, ConEstado(f, l.a))
    BY <2>1, <2>3, FilaCambiada
  <2>5. SigueCon(r, "RESOLVER") \/ Termina(r)
    BY <1>3 DEF Cambia
  <2>6. SigueBien(trabajos') /\ UNCHANGED pedido
    BY <1>3, <2>5, SigueConBien, TerminaBien DEF Cambia
  <2> QED
    BY <2>1, <2>2, <2>4, <2>6, AvanceUnaFila
<1>4. CASE LeeReimprimir(r)
  <2>1. PICK t \in Trabajos : /\ trabajos[t].estado \in {"EN_IMPRESION", "IMPRESO"}
                             /\ Recibe(r, LecturaDe("REIMPRIMIR", t))
    BY <1>4 DEF LeeReimprimir
  <2>2. trabajos[t].version > 0 /\ trabajos[t].estado \in EstadosDtf
    BY <2>1 DEF IInv, FilaOK, ConPelicula, EstadosDtf, ESTADOS_DTF_PENDIENTES
  <2> QED
    BY <2>1, <2>2, LeeAvance DEF SobreUnTrabajo
<1>5. CASE Reimprime(r)
  <2> DEFINE l == peticiones[r]
             f == trabajos[l.trabajo]
  <2>1. /\ LecturaDelTrabajo(l, trabajos) /\ l.trabajo \in Trabajos /\ FilaOK(f)
        /\ l.paso = "REIMPRIMIR"
    BY <1>5, EnVuelo DEF Reimprime, En, SobreUnTrabajo
  <2>2. PasoFila(f, [f EXCEPT !.estado = "EN_IMPRESION"])
    BY <2>1, FilaReimpresa DEF LecturaDelTrabajo
  <2>3. SigueCon(r, "REABRIR") \/ Termina(r)
    BY <1>5 DEF Reimprime
  <2>4. SigueBien(trabajos')
    BY <2>3, SigueConBien, TerminaBien
  <2> QED
    BY <1>5, <2>1, <2>2, <2>4, AvanceUnaFila DEF Reimprime
<1> QED
  BY <1>1, <1>2, <1>3, <1>4, <1>5 DEF DeLaImpresion

\* A step of the order alone: it stays an order and the request ends.
LEMMA AvancePedido ==
    ASSUME IInv, UNCHANGED trabajos, SigueBien(trabajos),
           \/ UNCHANGED pedido
           \/ \E e \in EstadosPedido : pedido' = [pedido EXCEPT !.estado = e]
    PROVE  Avance
<1>1. PedidoOK'
  BY DEF IInv, PedidoOK
<1> QED
  BY <1>1, AvanceSinFilas

\* A request that read the order and will write what it decided.
LEMMA SigueLeyendo ==
    ASSUME NEW r \in Peticiones, NEW p \in {"RESUELTO", "REABIERTO", "AVANZAR"},
           NEW de \in EstadosPedido, NEW a \in EstadosPedido,
           Sigue(r, [Lectura(p) EXCEPT !.de = de, !.a = a])
    PROVE  SigueBien(trabajos)
<1>1. LecturaDelPedido([Lectura(p) EXCEPT !.de = de, !.a = a])
  BY LecturasDelPedido
<1> QED
  BY <1>1 DEF SigueBien, Sigue, LecturaOK, LecturaDelPedido

LEMMA Escribira ==
    ASSUME IInv, NEW r \in Peticiones, peticiones[r].paso \in {"RESUELTO", "AVANZAR"}
    PROVE  peticiones[r].a \in EstadosPedido
BY DEF IInv, LecturaOK, LecturaDelPedido, LecturaDelTrabajo, SobreUnTrabajo

\* dtf-pedido.service and the gate.
LEMMA DeLaOrdenAvanza ==
    ASSUME IInv, NEW r \in Peticiones, DeLaOrden(r)
    PROVE  Avance
<1>0. pedido.estado \in EstadosPedido
  BY DEF IInv, PedidoOK
<1>1. CASE LeeResolver(r)
  <2>1. CASE Termina(r)
    BY <1>1, <2>1, TerminaBien, AvancePedido DEF LeeResolver
  <2>2. CASE ~Termina(r)
    <3>1. PICK a \in {"CANCELADO", "PENDIENTE_PAGO", "REVISADO"} :
             Sigue(r, [Lectura("RESUELTO") EXCEPT !.de = "EN_DTF", !.a = a])
      BY <1>1, <2>2 DEF LeeResolver, AlSalirDeDtf
    <3>2. a \in EstadosPedido /\ "EN_DTF" \in EstadosPedido
      BY DEF EstadosPedido
    <3> QED
      BY <1>1, <3>1, <3>2, SigueLeyendo, AvancePedido DEF LeeResolver
  <2> QED
    BY <2>1, <2>2
<1>2. CASE Resuelve(r)
  <2>1. peticiones[r].a \in EstadosPedido
    BY <1>2, Escribira DEF Resuelve, En
  <2> QED
    BY <1>2, <2>1, TerminaBien, AvancePedido DEF Resuelve, Mueve
<1>3. CASE LeeReabrir(r)
  <2>1. "EN_DTF" \in EstadosPedido
    BY DEF EstadosPedido
  <2>2. \/ Sigue(r, [Lectura("REABIERTO") EXCEPT !.de = pedido.estado, !.a = "EN_DTF"])
        \/ Termina(r)
    BY <1>3 DEF LeeReabrir
  <2>3. SigueBien(trabajos)
    BY <1>0, <2>1, <2>2, SigueLeyendo, TerminaBien
  <2> QED
    BY <1>3, <2>3, AvancePedido DEF LeeReabrir
<1>4. CASE Reabre(r)
  <2>1. "EN_DTF" \in EstadosPedido
    BY DEF EstadosPedido
  <2> QED
    BY <1>4, <2>1, TerminaBien, AvancePedido DEF Reabre
<1>5. CASE LeeAvanzar(r)
  <2>1. PICK a \in EstadosPedido :
           Recibe(r, [Lectura("AVANZAR") EXCEPT !.de = pedido.estado, !.a = a])
    <3>1. PICK a \in Avances[pedido.estado] :
             Recibe(r, [Lectura("AVANZAR") EXCEPT !.de = pedido.estado,
                                                  !.a  = Compuerta(pedido.estado, a)])
      BY <1>5 DEF LeeAvanzar
    <3>2. pedido.estado \in {"SURTIENDO", "REVISADO", "EN_ATENCION"}
      BY <1>5 DEF LeeAvanzar, Avances
    <3>3. a \in EstadosPedido
      BY <3>2 DEF Avances, EstadosPedido
    <3>4. Compuerta(pedido.estado, a) \in EstadosPedido
      BY <3>3 DEF Compuerta, EstadosPedido
    <3> QED
      BY <3>1, <3>4
  <2>2. SigueBien(trabajos)
    BY <1>0, <2>1, SigueLeyendo DEF Recibe
  <2> QED
    BY <2>1, <2>2, AvancePedido DEF Recibe
<1>6. CASE Avanza(r)
  <2>1. peticiones[r].a \in EstadosPedido
    BY <1>6, Escribira DEF Avanza, En
  <2> QED
    BY <1>6, <2>1, TerminaBien, AvancePedido DEF Avanza, Mueve
<1>7. CASE MuevePedido(r)
  <2>1. \E e \in EstadosPedido : pedido' = [pedido EXCEPT !.estado = e]
    BY <1>7 DEF MuevePedido, EstadosPedido
  <2> QED
    BY <1>7, <2>1, AvancePedido DEF MuevePedido, DeUnPaso, SigueBien
<1> QED
  BY <1>1, <1>2, <1>3, <1>4, <1>5, <1>6, <1>7 DEF DeLaOrden

LEMMA NextAvanza ==
    ASSUME IInv, Next
    PROVE  Avance
<1>1. ASSUME NEW r \in Peticiones, Abandona(r)
      PROVE  Avance
  BY <1>1, TerminaBien, AvancePedido DEF Abandona
<1> QED
  BY <1>1, AnalizaAvanza, DelClienteAvanza, DeLaImpresionAvanza, DeLaOrdenAvanza DEF Next

LEMMA InitIInv ==
    ASSUME Init
    PROVE  IInv
<1>1. FilaOK(SinCrear)
  BY DEF FilaOK, SinCrear, Filas, ConPelicula
<1>2. PedidoOK
  BY DEF Init, PedidoOK, EstadosPedido
<1>3. trabajos \in [Trabajos -> Filas] /\ \A t \in Trabajos : FilaOK(trabajos[t])
  BY <1>1 DEF Init, FilaOK
<1>4. peticiones \in [Peticiones -> Lecturas] /\ \A r \in Peticiones : LecturaOK(peticiones[r], trabajos)
  BY LibreOK DEF Init, LecturaOK
<1> QED
  BY <1>2, <1>3, <1>4 DEF IInv

-----------------------------------------------------------------------------
(* The theorems.                                                           *)

\* Every row is sound and every request in flight read something that is
\* still true enough of it.
THEOREM Invariancia == Spec => []IInv
<1>1. IInv /\ UNCHANGED vars => IInv'
  BY DEF vars, IInv, PedidoOK, FilaOK, LecturaOK, LecturaDelTrabajo, LecturaDelPedido
<1>2. IInv /\ [Next]_vars => IInv'
  BY <1>1, NextAvanza DEF Avance
<1> QED
  BY <1>2, InitIInv, PTL DEF Spec

\* The order, its jobs and the requests in flight have their types: no write by
\* id leaves a state that is none.
THEOREM TipoCorrecto == Spec => []TypeOK
<1>1. IInv => TypeOK
  BY DEF IInv, PedidoOK, TypeOK
<1> QED
  BY <1>1, Invariancia, PTL

\* What waits for review can be taken by somebody, and what is under review is
\* somebody's.
THEOREM ColaCorrecta == Spec => []ColaDeRevisionTomable
<1>1. IInv => ColaDeRevisionTomable
  BY DEF IInv, FilaOK, ColaDeRevisionTomable
<1> QED
  BY <1>1, Invariancia, PTL

\* Nothing is approved or printed without a file.
THEOREM NadaSinArchivo == Spec => []ImpresoConArchivo
<1>1. IInv => ImpresoConArchivo
  BY DEF IInv, FilaOK, ConPelicula, ImpresoConArchivo
<1> QED
  BY <1>1, Invariancia, PTL

\* The uploads of a job give it one version after another.
THEOREM VersionesCorrectas == Spec => VersionSoloSube
<1>1. IInv /\ [Next]_vars =>
        [\A t \in Trabajos :
            trabajos'[t].version \in {trabajos[t].version, trabajos[t].version + 1}]_vars
  BY NextAvanza DEF Avance
<1> QED
  BY <1>1, Invariancia, PTL DEF Spec, VersionSoloSube
-----------------------------------------------------------------------------
(* One request at a time, and none that dies halfway.                      *)

\* A job that the order waits for.
HaceFalta(f) == f.estado \in ESTADOS_DTF_PENDIENTES /\ f.enPedido

\* Why a request writes the job it read, and what it read is still so.
Motivo(l) ==
    /\ l.paso = "SUBIR" => l.est \in ESTADOS_DTF_EDITABLES_POR_CLIENTE
    /\ l.paso = "BORRAR" => l.est = "BORRADOR"
    /\ l.paso = "CAMBIAR" => l.a \in TRANSICIONES_DTF[l.est]
    /\ l.paso = "REIMPRIMIR" => l.est \in {"EN_IMPRESION", "IMPRESO"}

TrabajoComoSeLeyo(l) ==
    l.paso \in SobreUnTrabajo =>
        /\ trabajos[l.trabajo].estado = l.est
        /\ trabajos[l.trabajo].enPedido = l.enPedido

\* What a request that is about to move the order counted is still so.
CuentaComoSeLeyo(l) ==
    /\ l.paso = "AVANZAR" => /\ l.a \in Presentables => Pendientes = {}
                             /\ l.a = "EN_DTF" => Pendientes # {}
    /\ l.paso = "RESUELTO" => Pendientes = {} /\ l.de = "EN_DTF" /\ l.a # "EN_DTF"
    /\ l.paso \in {"REABRIR", "REABIERTO"} => Pendientes # {}

Cierta(l) == Motivo(l) /\ TrabajoComoSeLeyo(l) /\ CuentaComoSeLeyo(l)

Sola(r) == \A s \in Peticiones \ {r} : peticiones[s] = Libre

UnaALaVez == \A r \in Peticiones : peticiones[r] # Libre => Sola(r)

Resolviendo == \E r \in Peticiones : peticiones[r].paso \in {"RESOLVER", "RESUELTO"}

\* An order in EN_DTF waits for a job, or somebody is about to take it out.
EsperaConMotivo == pedido.estado = "EN_DTF" => Pendientes # {} \/ Resolviendo

EnOrden ==
    /\ UnaALaVez
    /\ ImprimeLoAprobado
    /\ EsperaConMotivo
    /\ \A r \in Peticiones : Cierta(peticiones[r])

MCInv == IInv /\ solapes \in Nat /\ (~solapo => EnOrden)

\* What the gate promises of a step.
Puerta ==
    pedido'.estado # pedido.estado /\ pedido'.estado \in Presentables => Pendientes = {}

PasoEnOrden == EnOrden' /\ Puerta

LEMMA PendientesDe ==
    /\ Pendientes = {t \in Trabajos : HaceFalta(trabajos[t])}
    /\ Pendientes' = {t \in Trabajos : HaceFalta(trabajos'[t])}
<1>1. Pendientes = {t \in Trabajos : HaceFalta(trabajos[t])}
  BY DEF Pendientes, DelPedido, Existe, HaceFalta, EstadosDtf
<1>2. Pendientes' = {t \in Trabajos : HaceFalta(trabajos'[t])}
  BY DEF Pendientes, DelPedido, Existe, HaceFalta, EstadosDtf
<1> QED
  BY <1>1, <1>2

\* The request of a step is the only one, before it and after it.
LEMMA SigueSola ==
    ASSUME IInv, NEW r \in Peticiones, Sola(r), NEW l, Sigue(r, l), Cierta(l)'
    PROVE  UnaALaVez' /\ \A s \in Peticiones : Cierta(peticiones[s])'
<1>1. peticiones'[r] = l /\ \A s \in Peticiones \ {r} : peticiones'[s] = Libre
  BY DEF IInv, Sigue, Sola
<1>2. UnaALaVez'
  BY <1>1 DEF UnaALaVez, Sola
<1>3. ASSUME NEW s \in Peticiones PROVE Cierta(peticiones[s])'
  <2>1. CASE s = r
    BY <1>1, <2>1 DEF Cierta, Motivo, TrabajoComoSeLeyo, CuentaComoSeLeyo
  <2>2. CASE s # r
    BY <1>1, <2>2
    DEF Cierta, Motivo, TrabajoComoSeLeyo, CuentaComoSeLeyo, Libre, SobreUnTrabajo
  <2> QED
    BY <2>1, <2>2
<1> QED
  BY <1>2, <1>3

LEMMA LibreCierta == Cierta(Libre)'
BY DEF Cierta, Motivo, TrabajoComoSeLeyo, CuentaComoSeLeyo, Libre, SobreUnTrabajo

LEMMA DeUnPasoSola ==
    ASSUME IInv, EnOrden, NEW r \in Peticiones, Sola(r), DeUnPaso(r)
    PROVE  UnaALaVez' /\ \A s \in Peticiones : Cierta(peticiones[s])'
<1>1. UnaALaVez'
  BY DEF EnOrden, UnaALaVez, Sola, DeUnPaso
<1>2. \A s \in Peticiones : peticiones'[s].paso = "NINGUNO"
  BY DEF DeUnPaso, En, Sola, Libre
<1>3. \A s \in Peticiones : Cierta(peticiones[s])'
  BY <1>2 DEF Cierta, Motivo, TrabajoComoSeLeyo, CuentaComoSeLeyo, SobreUnTrabajo
<1> QED
  BY <1>1, <1>3

\* An order in EN_DTF has something to print, unless the request of the step is
\* the one that takes it out.
LEMMA EsperaSola ==
    ASSUME EnOrden, NEW r \in Peticiones, Sola(r),
           peticiones[r].paso \notin {"RESOLVER", "RESUELTO"}
    PROVE  pedido.estado = "EN_DTF" => Pendientes # {}
BY DEF EnOrden, EsperaConMotivo, Resolviendo, Sola, Libre

\* A step that only reads.
LEMMA LeeEnOrden ==
    ASSUME IInv, EnOrden, NEW r \in Peticiones, Sola(r), NEW l, Sigue(r, l),
           UNCHANGED <<pedido, trabajos>>, Cierta(l)',
           \/ peticiones[r].paso \notin {"RESOLVER", "RESUELTO"}
           \/ l.paso \in {"RESOLVER", "RESUELTO"}
           \/ pedido.estado = "EN_DTF" => Pendientes # {}
    PROVE  PasoEnOrden
<1>1. UnaALaVez' /\ \A s \in Peticiones : Cierta(peticiones[s])'
  BY SigueSola
<1>2. ImprimeLoAprobado' /\ Puerta
  BY DEF EnOrden, ImprimeLoAprobado, Puerta
<1>3. Pendientes' = Pendientes
  BY PendientesDe
<1>4. CASE l.paso \in {"RESOLVER", "RESUELTO"}
  <2>1. peticiones'[r] = l
    BY DEF IInv, Sigue
  <2> QED
    BY <1>1, <1>2, <1>4, <2>1 DEF PasoEnOrden, EnOrden, EsperaConMotivo, Resolviendo
<1>5. CASE pedido.estado = "EN_DTF" => Pendientes # {}
  BY <1>1, <1>2, <1>3, <1>5 DEF PasoEnOrden, EnOrden, EsperaConMotivo
<1> QED
  BY <1>4, <1>5, EsperaSola

\* A write of one job.
Aprobada(f) == f.estado \in ConPelicula => f.aprobado

LEMMA UnaFilaEnOrden ==
    ASSUME IInv, EnOrden, NEW t \in Trabajos, NEW g, EscribeTrabajo(t, g), Aprobada(g)
    PROVE  /\ ImprimeLoAprobado'
           /\ trabajos'[t] = g
           /\ HaceFalta(g) => Pendientes' # {}
           /\ (HaceFalta(trabajos[t]) => HaceFalta(g)) /\ Pendientes # {} => Pendientes' # {}
<1>1. trabajos'[t] = g /\ \A u \in Trabajos \ {t} : trabajos'[u] = trabajos[u]
  BY DEF IInv, EscribeTrabajo
<1>2. ImprimeLoAprobado'
  BY <1>1 DEF EnOrden, ImprimeLoAprobado, Aprobada, ConPelicula
<1>3. HaceFalta(g) => Pendientes' # {}
  BY <1>1, PendientesDe
<1>4. (HaceFalta(trabajos[t]) => HaceFalta(g)) /\ Pendientes # {} => Pendientes' # {}
  BY <1>1, PendientesDe
<1> QED
  BY <1>1, <1>2, <1>3, <1>4

\* The order keeps waiting for something after a request that wrote a job.
LEMMA EscribeEnOrden ==
    ASSUME IInv, EnOrden, NEW r \in Peticiones, Sola(r),
           peticiones[r].paso \notin {"RESOLVER", "RESUELTO"},
           NEW l, Sigue(r, l), Cierta(l)', UNCHANGED pedido,
           NEW t \in Trabajos, NEW g, EscribeTrabajo(t, g), Aprobada(g),
           (HaceFalta(trabajos[t]) => HaceFalta(g)) \/ l.paso = "RESOLVER"
    PROVE  PasoEnOrden
<1>1. UnaALaVez' /\ \A s \in Peticiones : Cierta(peticiones[s])'
  BY SigueSola
<1>2. ImprimeLoAprobado' /\ Puerta
  BY UnaFilaEnOrden DEF Puerta
<1>3. CASE l.paso = "RESOLVER"
  <2>1. peticiones'[r] = l
    BY DEF IInv, Sigue
  <2> QED
    BY <1>1, <1>2, <1>3, <2>1 DEF PasoEnOrden, EnOrden, EsperaConMotivo, Resolviendo
<1>4. CASE HaceFalta(trabajos[t]) => HaceFalta(g)
  <2>1. pedido.estado = "EN_DTF" => Pendientes' # {}
    BY <1>4, EsperaSola, UnaFilaEnOrden
  <2> QED
    BY <1>1, <1>2, <2>1 DEF PasoEnOrden, EnOrden, EsperaConMotivo
<1> QED
  BY <1>3, <1>4

\* A step of one transaction that writes a job.
LEMMA EscribeDeUnPaso ==
    ASSUME IInv, EnOrden, NEW r \in Peticiones, Sola(r), DeUnPaso(r), UNCHANGED pedido,
           NEW t \in Trabajos, NEW g, EscribeTrabajo(t, g), Aprobada(g),
           HaceFalta(trabajos[t]) => HaceFalta(g)
    PROVE  PasoEnOrden
<1>1. UnaALaVez' /\ \A s \in Peticiones : Cierta(peticiones[s])'
  BY DeUnPasoSola
<1>2. ImprimeLoAprobado' /\ Puerta
  BY UnaFilaEnOrden DEF Puerta
<1>3. peticiones[r].paso \notin {"RESOLVER", "RESUELTO"}
  BY DEF DeUnPaso, En
<1>4. pedido.estado = "EN_DTF" => Pendientes' # {}
  BY <1>3, EsperaSola, UnaFilaEnOrden
<1> QED
  BY <1>1, <1>2, <1>4 DEF PasoEnOrden, EnOrden, EsperaConMotivo

\* A step that moves the order alone.
LEMMA MueveEnOrden ==
    ASSUME IInv, EnOrden, UNCHANGED trabajos,
           UnaALaVez' /\ \A s \in Peticiones : Cierta(peticiones[s])',
           NEW e, pedido' = [pedido EXCEPT !.estado = e],
           e = "EN_DTF" => Pendientes # {},
           e \in Presentables => Pendientes = {}
    PROVE  PasoEnOrden
<1>1. ImprimeLoAprobado'
  BY DEF EnOrden, ImprimeLoAprobado
<1>2. Pendientes' = Pendientes
  BY PendientesDe
<1>3. pedido'.estado = e
  BY DEF IInv, PedidoOK
<1> QED
  BY <1>1, <1>2, <1>3 DEF PasoEnOrden, EnOrden, EsperaConMotivo, Puerta

\* What a request that read a job and writes it finds.
LEMMA Encuentra ==
    ASSUME IInv, EnOrden, NEW r \in Peticiones, peticiones[r].paso \in SobreUnTrabajo
    PROVE  \E l \in Lecturas, t \in Trabajos, f \in Filas :
              /\ l = peticiones[r] /\ t = l.trabajo /\ f = trabajos[t]
              /\ f.estado = l.est /\ f.enPedido = l.enPedido /\ Aprobada(f) /\ Motivo(l)
<1>1. PICK l \in Lecturas : l = peticiones[r] /\ l.trabajo \in Trabajos
  BY EnVuelo
<1>2. Cierta(l)
  BY <1>1 DEF EnOrden
<1>3. trabajos[l.trabajo] \in Filas /\ Aprobada(trabajos[l.trabajo])
  BY <1>1 DEF IInv, EnOrden, ImprimeLoAprobado, Aprobada, ConPelicula
<1> QED
  BY <1>1, <1>2, <1>3 DEF Cierta, TrabajoComoSeLeyo

\* What a request goes on with once it wrote its job.
LEMMA SigueConEnOrden ==
    ASSUME NEW r \in Peticiones, NEW p \in {"RESOLVER", "REABRIR"}, SigueCon(r, p),
           p = "REABRIR" /\ peticiones[r].enPedido => Pendientes' # {}
    PROVE  \E l : /\ Sigue(r, l) /\ Cierta(l)'
                  /\ p = "RESOLVER" /\ peticiones[r].enPedido => l.paso = "RESOLVER"
<1>1. CASE peticiones[r].enPedido
  <2>1. Sigue(r, Lectura(p)) /\ Lectura(p).paso = p
    BY <1>1 DEF SigueCon, Lectura, Libre
  <2>2. Cierta(Lectura(p))'
    BY <1>1, <2>1 DEF Cierta, Motivo, TrabajoComoSeLeyo, CuentaComoSeLeyo, SobreUnTrabajo
  <2> QED
    BY <2>1, <2>2
<1>2. CASE ~peticiones[r].enPedido
  BY <1>2, LibreCierta DEF SigueCon, Termina
<1> QED
  BY <1>1, <1>2

LEMMA LeeTrabajoEnOrden ==
    ASSUME IInv, EnOrden, NEW r \in Peticiones, Sola(r), NEW t \in Trabajos,
           NEW p \in SobreUnTrabajo, NEW l, Recibe(r, l),
           l.paso = p, l.trabajo = t, l.est = trabajos[t].estado,
           l.enPedido = trabajos[t].enPedido, Motivo(l)
    PROVE  PasoEnOrden
<1>1. Cierta(l)'
  BY DEF Cierta, Motivo, TrabajoComoSeLeyo, CuentaComoSeLeyo, Recibe, SobreUnTrabajo
<1>2. peticiones[r].paso = "NINGUNO" /\ Sigue(r, l) /\ UNCHANGED <<pedido, trabajos>>
  BY DEF Recibe, En
<1> QED
  BY <1>1, <1>2, LeeEnOrden

LEMMA LecturaDeCampos ==
    ASSUME NEW p \in Pasos, NEW t \in Trabajos
    PROVE  /\ LecturaDe(p, t).paso = p /\ LecturaDe(p, t).trabajo = t
           /\ LecturaDe(p, t).est = trabajos[t].estado
           /\ LecturaDe(p, t).enPedido = trabajos[t].enPedido
BY DEF LecturaDe, Libre

\* The customer.
LEMMA CreaEnOrden ==
    ASSUME IInv, EnOrden, NEW r \in Peticiones, Sola(r), CreaBorrador(r) \/ CreaPedido(r)
    PROVE  PasoEnOrden
<1>1. CASE CreaBorrador(r)
  <2>1. PICK t \in Trabajos : /\ trabajos[t].estado = "NO_EXISTE"
                             /\ EscribeTrabajo(t, [SinCrear EXCEPT !.estado = "BORRADOR"])
    BY <1>1 DEF CreaBorrador
  <2>2. ~HaceFalta(trabajos[t])
    BY <2>1 DEF HaceFalta, ESTADOS_DTF_PENDIENTES
  <2>3. Aprobada([SinCrear EXCEPT !.estado = "BORRADOR"])
    BY DEF Aprobada, SinCrear, ConPelicula
  <2> QED
    BY <1>1, <2>1, <2>2, <2>3, EscribeDeUnPaso DEF CreaBorrador
<1>2. CASE CreaPedido(r)
  <2>1. PICK S \in (SUBSET Trabajos) \ {{}} :
           /\ \A t \in S : trabajos[t].estado = "BORRADOR"
           /\ trabajos' = [t \in Trabajos |->
                             IF t \in S THEN Adjunto(trabajos[t]) ELSE trabajos[t]]
    BY <1>2 DEF CreaPedido
  <2>2. \A t \in S : trabajos'[t].estado \in {"ARCHIVO_PENDIENTE", "RECIBIDO"}
                     /\ trabajos'[t].enPedido
    <3>1. ASSUME NEW t \in S PROVE trabajos[t] \in Filas /\ trabajos'[t] = Adjunto(trabajos[t])
      BY <2>1 DEF IInv
    <3> QED
      BY <3>1 DEF Adjunto, Filas
  <2>3. Pendientes' # {}
    BY <2>1, <2>2, PendientesDe DEF HaceFalta, ESTADOS_DTF_PENDIENTES
  <2>4. ImprimeLoAprobado'
    BY <2>1, <2>2 DEF EnOrden, ImprimeLoAprobado
  <2>5. UnaALaVez' /\ \A s \in Peticiones : Cierta(peticiones[s])'
    BY <1>2, DeUnPasoSola DEF CreaPedido
  <2>6. Puerta
    BY <1>2 DEF CreaPedido, Puerta, Presentables, IInv, PedidoOK
  <2> QED
    BY <2>3, <2>4, <2>5, <2>6 DEF PasoEnOrden, EnOrden, EsperaConMotivo
<1> QED
  BY <1>1, <1>2

LEMMA ClienteLeeEnOrden ==
    ASSUME IInv, EnOrden, NEW r \in Peticiones, Sola(r), LeeSubir(r) \/ LeeCancelar(r)
    PROVE  PasoEnOrden
<1>1. CASE LeeSubir(r)
  <2>1. PICK t \in Trabajos : /\ trabajos[t].estado \in ESTADOS_DTF_EDITABLES_POR_CLIENTE
                             /\ Recibe(r, LecturaDe("SUBIR", t))
    BY <1>1 DEF LeeSubir
  <2>2. Motivo(LecturaDe("SUBIR", t))
    BY <2>1, LecturaDeCampos DEF Motivo, Pasos
  <2> QED
    BY <2>1, <2>2, LecturaDeCampos, LeeTrabajoEnOrden DEF Pasos, SobreUnTrabajo
<1>2. CASE LeeCancelar(r)
  <2>1. PICK t \in Trabajos :
           Recibe(r, LecturaDe(IF trabajos[t].estado = "BORRADOR" THEN "BORRAR"
                               ELSE "CANCELAR", t))
    BY <1>2 DEF LeeCancelar
  <2>2. PICK p \in {"BORRAR", "CANCELAR"} :
           Recibe(r, LecturaDe(p, t)) /\ (p = "BORRAR" => trabajos[t].estado = "BORRADOR")
    BY <2>1
  <2>3. p \in Pasos /\ p \in SobreUnTrabajo
    BY DEF Pasos, SobreUnTrabajo
  <2>4. Motivo(LecturaDe(p, t))
    BY <2>2, <2>3, LecturaDeCampos DEF Motivo
  <2> QED
    BY <2>2, <2>3, <2>4, LecturaDeCampos, LeeTrabajoEnOrden
<1> QED
  BY <1>1, <1>2

\* An upload leaves a draft a draft, and another job waiting again.
LEMMA SubeEnOrden ==
    ASSUME IInv, EnOrden, NEW r \in Peticiones, Sola(r), Sube(r)
    PROVE  PasoEnOrden
<1>1. peticiones[r].paso = "SUBIR"
  BY DEF Sube, En
<1>2. PICK l \in Lecturas, t \in Trabajos, f \in Filas :
         /\ l = peticiones[r] /\ t = l.trabajo /\ f = trabajos[t]
         /\ f.estado = l.est /\ Motivo(l)
  BY <1>1, Encuentra DEF SobreUnTrabajo
<1>3. PICK g : g = ConArchivoNuevo(f, l)
  OBVIOUS
<1>4. g.estado = (IF l.est = "BORRADOR" THEN "BORRADOR" ELSE "RECIBIDO") /\ g.enPedido = f.enPedido
  BY <1>3 DEF ConArchivoNuevo, Filas
<1>5. Aprobada(g) /\ (HaceFalta(f) => HaceFalta(g))
  BY <1>2, <1>4 DEF Aprobada, ConPelicula, HaceFalta, ESTADOS_DTF_PENDIENTES
<1>6. EscribeTrabajo(t, g) /\ Sigue(r, Libre) /\ UNCHANGED pedido
  BY <1>2, <1>3 DEF Sube, Termina
<1> QED
  BY <1>1, <1>2, <1>5, <1>6, LibreCierta, EscribeEnOrden

\* A draft is no job of the order, and the order is told of another one.
LEMMA QuitaEnOrden ==
    ASSUME IInv, EnOrden, NEW r \in Peticiones, Sola(r), Borra(r) \/ Cancela(r)
    PROVE  PasoEnOrden
<1>1. peticiones[r].paso \in {"BORRAR", "CANCELAR"}
  BY DEF Borra, Cancela, En
<1>2. PICK l \in Lecturas, t \in Trabajos, f \in Filas :
         /\ l = peticiones[r] /\ t = l.trabajo /\ f = trabajos[t]
         /\ f.estado = l.est /\ f.enPedido = l.enPedido /\ Motivo(l)
  BY <1>1, Encuentra DEF SobreUnTrabajo
<1>3. CASE Borra(r)
  <2>1. l.paso = "BORRAR" /\ f.estado = "BORRADOR"
    BY <1>2, <1>3 DEF Borra, En, Motivo
  <2>2. ~HaceFalta(f)
    BY <2>1 DEF HaceFalta, ESTADOS_DTF_PENDIENTES
  <2>3. PICK g : g = [f EXCEPT !.estado = "BORRADO"]
    OBVIOUS
  <2>4. Aprobada(g)
    BY <2>3 DEF Aprobada, ConPelicula, Filas
  <2>5. EscribeTrabajo(t, g) /\ Sigue(r, Libre) /\ UNCHANGED pedido
    BY <1>2, <1>3, <2>3 DEF Borra, Termina
  <2> QED
    BY <1>1, <1>2, <2>2, <2>4, <2>5, LibreCierta, EscribeEnOrden
<1>4. CASE Cancela(r)
  <2>1. PICK g : g = [f EXCEPT !.estado = "CANCELADO", !.asignado = FALSE]
    OBVIOUS
  <2>2. Aprobada(g)
    BY <2>1 DEF Aprobada, ConPelicula, Filas
  <2>3. EscribeTrabajo(t, g) /\ SigueCon(r, "RESOLVER") /\ UNCHANGED pedido
    BY <1>2, <1>4, <2>1 DEF Cancela
  <2>4. PICK m : Sigue(r, m) /\ Cierta(m)' /\ (l.enPedido => m.paso = "RESOLVER")
    BY <1>2, <2>3, SigueConEnOrden
  <2>5. HaceFalta(f) => m.paso = "RESOLVER"
    BY <1>2, <2>4 DEF HaceFalta
  <2>6. (HaceFalta(f) => HaceFalta(g)) \/ m.paso = "RESOLVER"
    BY <2>5
  <2> QED
    BY <1>1, <1>2, <2>2, <2>3, <2>4, <2>6, EscribeEnOrden
<1> QED
  BY <1>3, <1>4

\* The printing room.
LEMMA ImpresionLeeEnOrden ==
    ASSUME IInv, EnOrden, NEW r \in Peticiones, Sola(r), LeeCambiar(r) \/ LeeReimprimir(r)
    PROVE  PasoEnOrden
<1>1. CASE LeeCambiar(r)
  <2>1. PICK t \in Trabajos, a \in DeImpresion :
           /\ a \in TRANSICIONES_DTF[trabajos[t].estado]
           /\ Recibe(r, [LecturaDe("CAMBIAR", t) EXCEPT !.a = a])
    BY <1>1 DEF LeeCambiar
  <2>2. PICK l : l = [LecturaDe("CAMBIAR", t) EXCEPT !.a = a]
    OBVIOUS
  <2>3. /\ l.paso = "CAMBIAR" /\ l.trabajo = t /\ l.a = a
        /\ l.est = trabajos[t].estado /\ l.enPedido = trabajos[t].enPedido
    BY <2>2 DEF LecturaDe, Libre
  <2>4. Motivo(l)
    BY <2>1, <2>3 DEF Motivo
  <2> QED
    BY <2>1, <2>2, <2>3, <2>4, LeeTrabajoEnOrden DEF SobreUnTrabajo
<1>2. CASE LeeReimprimir(r)
  <2>1. PICK t \in Trabajos : /\ trabajos[t].estado \in {"EN_IMPRESION", "IMPRESO"}
                             /\ Recibe(r, LecturaDe("REIMPRIMIR", t))
    BY <1>2 DEF LeeReimprimir
  <2>2. Motivo(LecturaDe("REIMPRIMIR", t))
    BY <2>1, LecturaDeCampos DEF Motivo, Pasos
  <2> QED
    BY <2>1, <2>2, LecturaDeCampos, LeeTrabajoEnOrden DEF Pasos, SobreUnTrabajo
<1> QED
  BY <1>1, <1>2

LEMMA TomaEnOrden ==
    ASSUME IInv, EnOrden, NEW r \in Peticiones, Sola(r), Toma(r)
    PROVE  PasoEnOrden
<1>1. PICK t \in Trabajos :
         /\ trabajos[t].estado = "RECIBIDO"
         /\ EscribeTrabajo(t, [trabajos[t] EXCEPT !.estado = "EN_REVISION", !.asignado = TRUE])
  BY DEF Toma
<1>2. PICK g : g = [trabajos[t] EXCEPT !.estado = "EN_REVISION", !.asignado = TRUE]
  OBVIOUS
<1>3. g.estado = "EN_REVISION" /\ g.enPedido = trabajos[t].enPedido
  BY <1>2 DEF IInv, Filas
<1>4. Aprobada(g) /\ (HaceFalta(trabajos[t]) => HaceFalta(g))
  BY <1>3 DEF Aprobada, ConPelicula, HaceFalta, ESTADOS_DTF_PENDIENTES
<1> QED
  BY <1>1, <1>2, <1>4, EscribeDeUnPaso DEF Toma

\* What a change leaves in the row.
LEMMA CambiaFila ==
    ASSUME NEW f \in Filas, NEW l \in Lecturas, l.a \in DeImpresion, f.estado = l.est,
           l.a \in TRANSICIONES_DTF[l.est], l.est \in EstadosDtf, Aprobada(f)
    PROVE  /\ Aprobada(ConEstado(f, l.a))
           /\ l.a \notin {"IMPRESO", "RECHAZADO"} => (HaceFalta(f) => HaceFalta(ConEstado(f, l.a)))
<1>1. PICK x, y :
         /\ ConEstado(f, l.a) = [f EXCEPT !.estado = l.a, !.asignado = x, !.aprobado = y]
         /\ l.a = "APROBADO" => y
         /\ l.a \in {"EN_IMPRESION", "IMPRESO"} => y = f.aprobado
  <2>1. CASE l.a \in {"APROBADO", "EN_IMPRESION"}
    BY <2>1 DEF ConEstado
  <2>2. CASE l.a = "IMPRESO"
    BY <2>2 DEF ConEstado
  <2>3. CASE l.a = "NECESITA_CORRECCION"
    BY <2>3 DEF ConEstado
  <2>4. CASE l.a \in {"RECIBIDO", "RECHAZADO"}
    BY <2>4 DEF ConEstado
  <2> QED
    BY <2>1, <2>2, <2>3, <2>4 DEF DeImpresion
<1>2. PICK g : g = [f EXCEPT !.estado = l.a, !.asignado = x, !.aprobado = y]
  OBVIOUS
<1>3. g.estado = l.a /\ g.aprobado = y /\ g.enPedido = f.enPedido
  BY <1>2 DEF Filas
<1>4. l.a \in {"EN_IMPRESION", "IMPRESO"} => l.est \in ConPelicula
  BY DEF TRANSICIONES_DTF, ConPelicula, EstadosDtf, ESTADOS_DTF_PENDIENTES
<1>5. Aprobada(g)
  BY <1>1, <1>3, <1>4 DEF Aprobada, ConPelicula
<1>6. l.a \notin {"IMPRESO", "RECHAZADO"} => l.a \in ESTADOS_DTF_PENDIENTES
  BY DEF DeImpresion, ESTADOS_DTF_PENDIENTES
<1> QED
  BY <1>1, <1>2, <1>3, <1>5, <1>6 DEF HaceFalta

LEMMA CambiaEnOrden ==
    ASSUME IInv, EnOrden, NEW r \in Peticiones, Sola(r), Cambia(r)
    PROVE  PasoEnOrden
<1>1. peticiones[r].paso = "CAMBIAR"
  BY DEF Cambia, En
<1>2. PICK l \in Lecturas, t \in Trabajos, f \in Filas :
         /\ l = peticiones[r] /\ t = l.trabajo /\ f = trabajos[t]
         /\ f.estado = l.est /\ f.enPedido = l.enPedido /\ Aprobada(f) /\ Motivo(l)
  BY <1>1, Encuentra DEF SobreUnTrabajo
<1>3. l.a \in DeImpresion /\ l.a \in TRANSICIONES_DTF[l.est] /\ l.est \in EstadosDtf
  <2>1. LecturaDelTrabajo(l, trabajos)
    BY <1>1, <1>2, EnVuelo DEF SobreUnTrabajo
  <2> QED
    BY <1>1, <1>2, <2>1 DEF LecturaDelTrabajo, Motivo, Lecturas
<1>4. PICK g : g = ConEstado(f, l.a)
  OBVIOUS
<1>5. /\ Aprobada(g)
      /\ l.a \notin {"IMPRESO", "RECHAZADO"} => (HaceFalta(f) => HaceFalta(g))
  BY <1>2, <1>3, <1>4, CambiaFila
<1>6. EscribeTrabajo(t, g) /\ UNCHANGED pedido
  BY <1>2, <1>4 DEF Cambia
<1>7. CASE l.a \in {"IMPRESO", "RECHAZADO"}
  <2>1. SigueCon(r, "RESOLVER")
    BY <1>2, <1>7 DEF Cambia
  <2>2. PICK m : Sigue(r, m) /\ Cierta(m)' /\ (l.enPedido => m.paso = "RESOLVER")
    BY <1>2, <2>1, SigueConEnOrden
  <2>3. (HaceFalta(f) => HaceFalta(g)) \/ m.paso = "RESOLVER"
    BY <1>2, <2>2 DEF HaceFalta
  <2> QED
    BY <1>1, <1>2, <1>5, <1>6, <2>2, <2>3, EscribeEnOrden
<1>8. CASE l.a \notin {"IMPRESO", "RECHAZADO"}
  <2>1. Sigue(r, Libre)
    BY <1>2, <1>8 DEF Cambia, Termina
  <2> QED
    BY <1>1, <1>2, <1>5, <1>6, <1>8, <2>1, LibreCierta, EscribeEnOrden
<1> QED
  BY <1>7, <1>8

\* A reprint is something to print again, before the order is told of it.
LEMMA ReimprimeEnOrden ==
    ASSUME IInv, EnOrden, NEW r \in Peticiones, Sola(r), Reimprime(r)
    PROVE  PasoEnOrden
<1>1. peticiones[r].paso = "REIMPRIMIR"
  BY DEF Reimprime, En
<1>2. PICK l \in Lecturas, t \in Trabajos, f \in Filas :
         /\ l = peticiones[r] /\ t = l.trabajo /\ f = trabajos[t]
         /\ f.estado = l.est /\ f.enPedido = l.enPedido /\ Aprobada(f) /\ Motivo(l)
  BY <1>1, Encuentra DEF SobreUnTrabajo
<1>3. f.estado \in {"EN_IMPRESION", "IMPRESO"}
  BY <1>1, <1>2 DEF Motivo
<1>4. PICK g : g = [f EXCEPT !.estado = "EN_IMPRESION"]
  OBVIOUS
<1>5. g.estado = "EN_IMPRESION" /\ g.enPedido = f.enPedido /\ g.aprobado = f.aprobado
  BY <1>4 DEF Filas
<1>6. /\ Aprobada(g) /\ (HaceFalta(f) => HaceFalta(g))
      /\ f.enPedido => HaceFalta(g)
  BY <1>2, <1>3, <1>5 DEF Aprobada, ConPelicula, HaceFalta, ESTADOS_DTF_PENDIENTES
<1>7. EscribeTrabajo(t, g) /\ UNCHANGED pedido
  BY <1>2, <1>4 DEF Reimprime
<1>8. peticiones[r].enPedido => Pendientes' # {}
  BY <1>2, <1>6, <1>7, UnaFilaEnOrden
<1>9. PICK m : Sigue(r, m) /\ Cierta(m)'
  <2>1. CASE SigueCon(r, "REABRIR")
    BY <1>8, <2>1, SigueConEnOrden
  <2>2. CASE Termina(r)
    BY <2>2, LibreCierta DEF Termina
  <2> QED
    BY <2>1, <2>2 DEF Reimprime
<1> QED
  BY <1>1, <1>2, <1>6, <1>7, <1>9, EscribeEnOrden

\* The order.
LEMMA ResuelveEnOrden ==
    ASSUME IInv, EnOrden, NEW r \in Peticiones, Sola(r), LeeResolver(r) \/ Resuelve(r)
    PROVE  PasoEnOrden
<1>1. CASE LeeResolver(r)
  <2>1. CASE pedido.estado = "EN_DTF" /\ Pendientes = {}
    <3>1. PICK a \in {"CANCELADO", "PENDIENTE_PAGO", "REVISADO"} :
             Sigue(r, [Lectura("RESUELTO") EXCEPT !.de = "EN_DTF", !.a = a])
      BY <1>1, <2>1 DEF LeeResolver, AlSalirDeDtf
    <3>2. PICK l : l = [Lectura("RESUELTO") EXCEPT !.de = "EN_DTF", !.a = a]
      OBVIOUS
    <3>3. l.paso = "RESUELTO" /\ l.de = "EN_DTF" /\ l.a # "EN_DTF"
      BY <3>2 DEF Lectura, Libre
    <3>4. UNCHANGED <<pedido, trabajos>> /\ Pendientes' = {}
      BY <1>1, <2>1, PendientesDe DEF LeeResolver
    <3>5. Cierta(l)'
      BY <3>3, <3>4 DEF Cierta, Motivo, TrabajoComoSeLeyo, CuentaComoSeLeyo, SobreUnTrabajo
    <3> QED
      BY <3>1, <3>2, <3>3, <3>4, <3>5, LeeEnOrden
  <2>2. CASE ~(pedido.estado = "EN_DTF" /\ Pendientes = {})
    <3>1. Sigue(r, Libre) /\ UNCHANGED <<pedido, trabajos>>
      BY <1>1, <2>2 DEF LeeResolver, Termina
    <3> QED
      BY <2>2, <3>1, LibreCierta, LeeEnOrden
  <2> QED
    BY <2>1, <2>2
<1>2. CASE Resuelve(r)
  <2>1. PICK l : l = peticiones[r]
    OBVIOUS
  <2>2. Pendientes = {} /\ l.de = "EN_DTF" /\ l.a # "EN_DTF"
    BY <1>2, <2>1 DEF Resuelve, En, EnOrden, Cierta, CuentaComoSeLeyo
  <2>3. Sigue(r, Libre) /\ UNCHANGED trabajos
    BY <1>2 DEF Resuelve, Termina
  <2>4. UnaALaVez' /\ \A s \in Peticiones : Cierta(peticiones[s])'
    BY <2>3, LibreCierta, SigueSola
  <2>5. CASE pedido.estado = "EN_DTF"
    <3>1. pedido' = [pedido EXCEPT !.estado = l.a]
      BY <1>2, <2>1, <2>2, <2>5 DEF Resuelve, Mueve
    <3> QED
      BY <2>2, <2>3, <2>4, <3>1, MueveEnOrden
  <2>6. CASE pedido.estado # "EN_DTF"
    <3>1. UNCHANGED pedido
      BY <1>2, <2>1, <2>2, <2>6 DEF Resuelve
    <3> QED
      BY <2>3, <2>6, <3>1, LibreCierta, LeeEnOrden
  <2> QED
    BY <2>5, <2>6
<1> QED
  BY <1>1, <1>2

LEMMA ReabreEnOrden ==
    ASSUME IInv, EnOrden, NEW r \in Peticiones, Sola(r), LeeReabrir(r) \/ Reabre(r)
    PROVE  PasoEnOrden
<1>1. peticiones[r].paso \in {"REABRIR", "REABIERTO"}
  BY DEF LeeReabrir, Reabre, En
<1>2. Pendientes # {}
  BY <1>1 DEF EnOrden, Cierta, CuentaComoSeLeyo
<1>3. CASE LeeReabrir(r)
  <2>1. UNCHANGED <<pedido, trabajos>> /\ Pendientes' # {}
    BY <1>2, <1>3, PendientesDe DEF LeeReabrir
  <2>2. CASE Termina(r)
    BY <1>1, <2>1, <2>2, LibreCierta, LeeEnOrden DEF Termina
  <2>3. CASE ~Termina(r)
    <3>1. PICK l : /\ l = [Lectura("REABIERTO") EXCEPT !.de = pedido.estado, !.a = "EN_DTF"]
                   /\ Sigue(r, l)
      BY <1>3, <2>3 DEF LeeReabrir
    <3>2. l.paso = "REABIERTO"
      BY <3>1 DEF Lectura, Libre
    <3>3. Cierta(l)'
      BY <2>1, <3>2 DEF Cierta, Motivo, TrabajoComoSeLeyo, CuentaComoSeLeyo, SobreUnTrabajo
    <3> QED
      BY <1>1, <2>1, <3>1, <3>3, LeeEnOrden
  <2> QED
    BY <2>2, <2>3
<1>4. CASE Reabre(r)
  <2>1. Sigue(r, Libre) /\ UNCHANGED trabajos
    BY <1>4 DEF Reabre, Termina
  <2>2. UnaALaVez' /\ \A s \in Peticiones : Cierta(peticiones[s])'
    BY <2>1, LibreCierta, SigueSola
  <2>3. CASE pedido' = [pedido EXCEPT !.estado = "EN_DTF"]
    <3>1. "EN_DTF" \notin Presentables
      BY DEF Presentables
    <3> QED
      BY <1>2, <2>1, <2>2, <2>3, <3>1, MueveEnOrden
  <2>4. CASE UNCHANGED pedido
    BY <1>1, <2>1, <2>4, LibreCierta, LeeEnOrden
  <2> QED
    BY <1>4, <2>3, <2>4 DEF Reabre
<1> QED
  BY <1>3, <1>4

\* The gate counts, and what it counted is still so when it writes.
LEMMA AvanzaEnOrden ==
    ASSUME IInv, EnOrden, NEW r \in Peticiones, Sola(r), LeeAvanzar(r) \/ Avanza(r)
    PROVE  PasoEnOrden
<1>1. CASE LeeAvanzar(r)
  <2>1. PICK a \in Avances[pedido.estado] :
           /\ Compuerta(pedido.estado, a) \in Presentables => Pendientes = {}
           /\ Recibe(r, [Lectura("AVANZAR") EXCEPT !.de = pedido.estado,
                                                   !.a  = Compuerta(pedido.estado, a)])
    BY <1>1 DEF LeeAvanzar
  <2>2. a # "EN_DTF"
    <3>1. pedido.estado \in {"SURTIENDO", "REVISADO", "EN_ATENCION"}
      BY <1>1 DEF LeeAvanzar, Avances
    <3> QED
      BY <3>1 DEF Avances
  <2>3. PICK e : e = Compuerta(pedido.estado, a)
    OBVIOUS
  <2>4. e = "EN_DTF" => Pendientes # {}
    BY <2>2, <2>3 DEF Compuerta
  <2>5. PICK l : l = [Lectura("AVANZAR") EXCEPT !.de = pedido.estado, !.a = e]
    OBVIOUS
  <2>6. l.paso = "AVANZAR" /\ l.a = e
    BY <2>5 DEF Lectura, Libre
  <2>7. /\ UNCHANGED <<pedido, trabajos>> /\ Pendientes' = Pendientes
        /\ Sigue(r, l) /\ peticiones[r].paso = "NINGUNO"
    BY <2>1, <2>3, <2>5, PendientesDe DEF Recibe, En
  <2>8. Cierta(l)'
    BY <2>1, <2>3, <2>4, <2>6, <2>7
    DEF Cierta, Motivo, TrabajoComoSeLeyo, CuentaComoSeLeyo, SobreUnTrabajo
  <2> QED
    BY <2>7, <2>8, LeeEnOrden
<1>2. CASE Avanza(r)
  <2>1. PICK l : l = peticiones[r]
    OBVIOUS
  <2>2. /\ l.a \in Presentables => Pendientes = {}
        /\ l.a = "EN_DTF" => Pendientes # {}
    BY <1>2, <2>1 DEF Avanza, En, EnOrden, Cierta, CuentaComoSeLeyo
  <2>3. Sigue(r, Libre) /\ UNCHANGED trabajos /\ pedido' = [pedido EXCEPT !.estado = l.a]
    BY <1>2, <2>1 DEF Avanza, Mueve, Termina
  <2>4. UnaALaVez' /\ \A s \in Peticiones : Cierta(peticiones[s])'
    BY <2>3, LibreCierta, SigueSola
  <2> QED
    BY <2>2, <2>3, <2>4, MueveEnOrden
<1> QED
  BY <1>1, <1>2

LEMMA MuevePedidoEnOrden ==
    ASSUME IInv, EnOrden, NEW r \in Peticiones, Sola(r), MuevePedido(r)
    PROVE  PasoEnOrden
<1>1. PICK e \in {"SURTIENDO", "PAGADO", "ENTREGADO", "CANCELADO"} :
         pedido' = [pedido EXCEPT !.estado = e]
  BY DEF MuevePedido
<1>2. e # "EN_DTF" /\ e \notin Presentables
  BY DEF Presentables
<1>3. UnaALaVez' /\ (\A s \in Peticiones : Cierta(peticiones[s])') /\ UNCHANGED trabajos
  BY DeUnPasoSola DEF MuevePedido
<1> QED
  BY <1>1, <1>2, <1>3, MueveEnOrden

\* A request that dies has nothing written yet.
LEMMA AbandonaEnOrden ==
    ASSUME IInv, EnOrden, NEW r \in Peticiones, Sola(r), Abandona(r),
           peticiones[r].paso \notin Segundos
    PROVE  PasoEnOrden
BY LibreCierta, LeeEnOrden DEF Abandona, Termina, Segundos

\* The automatic review says nothing of the state.
LEMMA AnalizaEnOrden ==
    ASSUME IInv, EnOrden, NEW t \in Trabajos, Analiza(t)
    PROVE  PasoEnOrden
<1>1. /\ UNCHANGED <<pedido, peticiones>>
      /\ \A u \in Trabajos : /\ trabajos'[u].estado = trabajos[u].estado
                             /\ trabajos'[u].enPedido = trabajos[u].enPedido
                             /\ trabajos'[u].aprobado = trabajos[u].aprobado
  BY DEF Analiza, EscribeTrabajo, IInv, Filas
<1>2. Pendientes' = Pendientes
  BY <1>1, PendientesDe DEF HaceFalta
<1>3. ImprimeLoAprobado' /\ UnaALaVez' /\ EsperaConMotivo' /\ Puerta
  BY <1>1, <1>2
  DEF EnOrden, ImprimeLoAprobado, UnaALaVez, Sola, EsperaConMotivo, Resolviendo, Puerta
<1>4. ASSUME NEW s \in Peticiones PROVE Cierta(peticiones[s])'
  <2>1. PICK l : l = peticiones[s] /\ l = peticiones'[s]
    BY <1>1
  <2>2. Cierta(l) /\ (l.paso \in SobreUnTrabajo => l.trabajo \in Trabajos)
    BY <2>1, EnVuelo DEF EnOrden
  <2>3. Cierta(l)'
    BY <1>1, <1>2, <2>2 DEF Cierta, Motivo, TrabajoComoSeLeyo, CuentaComoSeLeyo
  <2> QED
    BY <2>1, <2>3 DEF Cierta, Motivo, TrabajoComoSeLeyo, CuentaComoSeLeyo
<1> QED
  BY <1>3, <1>4 DEF PasoEnOrden, EnOrden

\* A step of a request that is alone.
LEMMA PeticionEnOrden ==
    ASSUME IInv, EnOrden, NEW r \in Peticiones, Sola(r),
           \/ DelCliente(r) \/ DeLaImpresion(r) \/ DeLaOrden(r)
           \/ Abandona(r) /\ peticiones[r].paso \notin Segundos
    PROVE  PasoEnOrden
<1>1. CASE DelCliente(r)
  BY <1>1, CreaEnOrden, ClienteLeeEnOrden, SubeEnOrden, QuitaEnOrden DEF DelCliente
<1>2. CASE DeLaImpresion(r)
  BY <1>2, TomaEnOrden, ImpresionLeeEnOrden, CambiaEnOrden, ReimprimeEnOrden DEF DeLaImpresion
<1>3. CASE DeLaOrden(r)
  BY <1>3, ResuelveEnOrden, ReabreEnOrden, AvanzaEnOrden, MuevePedidoEnOrden DEF DeLaOrden
<1> QED
  BY <1>1, <1>2, <1>3, AbandonaEnOrden

LEMMA MCAvanza ==
    ASSUME MCInv, [MCNext]_varsMC
    PROVE  MCInv' /\ (~solapo' => Puerta \/ UNCHANGED pedido)
<1>1. CASE UNCHANGED varsMC
  <2>1. UNCHANGED vars /\ UNCHANGED solapes
    BY <1>1 DEF varsMC
  <2>2. IInv'
    BY <2>1 DEF MCInv, vars, IInv, PedidoOK, FilaOK, LecturaOK, LecturaDelTrabajo,
                LecturaDelPedido
  <2>3. EnOrden => EnOrden'
    <3>1. UNCHANGED <<pedido, trabajos, peticiones>> /\ Pendientes' = Pendientes
      BY <2>1, PendientesDe DEF vars
    <3> QED
      BY <3>1 DEF EnOrden, UnaALaVez, Sola, ImprimeLoAprobado, EsperaConMotivo, Resolviendo,
                  Cierta, Motivo, TrabajoComoSeLeyo, CuentaComoSeLeyo
  <2> QED
    BY <2>1, <2>2, <2>3 DEF MCInv, solapo, vars
<1>2. CASE MCNext
  <2>1. Next
    BY <1>2 DEF MCNext, Next
  <2>2. IInv'
    BY <2>1, NextAvanza DEF MCInv, Avance
  <2>3. CASE (\E t \in Trabajos : Analiza(t)) /\ UNCHANGED solapes
    <3>1. ~solapo' => ~solapo
      BY <2>3 DEF solapo
    <3>2. ~solapo' => PasoEnOrden
      BY <2>3, <3>1, AnalizaEnOrden DEF MCInv
    <3> QED
      BY <2>2, <2>3, <3>2 DEF MCInv, PasoEnOrden
  <2>4. ASSUME NEW r \in Peticiones, DelCliente(r) \/ DeLaImpresion(r) \/ DeLaOrden(r),
               solapes' = IF Empieza(r) THEN solapes + 1 ELSE solapes
        PROVE  MCInv' /\ (~solapo' => Puerta \/ UNCHANGED pedido)
    <3>1. solapes' \in Nat /\ (~solapo' => ~solapo /\ ~Empieza(r))
      BY <2>4 DEF MCInv, solapo
    <3>2. ASSUME ~solapo' PROVE PasoEnOrden
      <4>1. EnOrden /\ ~Empieza(r)
        BY <3>1, <3>2 DEF MCInv
      <4>2. Sola(r)
        BY <4>1 DEF EnOrden, UnaALaVez, Empieza, Sola
      <4> QED
        BY <2>4, <4>1, <4>2, PeticionEnOrden DEF MCInv
    <3> QED
      BY <2>2, <3>1, <3>2 DEF MCInv, PasoEnOrden
  <2>5. ASSUME NEW r \in Peticiones, Abandona(r),
               solapes' = IF peticiones[r].paso \in Segundos THEN solapes + 1 ELSE solapes
        PROVE  MCInv' /\ (~solapo' => Puerta \/ UNCHANGED pedido)
    <3>1. solapes' \in Nat /\ (~solapo' => ~solapo /\ peticiones[r].paso \notin Segundos)
      BY <2>5 DEF MCInv, solapo
    <3>2. ASSUME ~solapo' PROVE PasoEnOrden
      <4>1. EnOrden /\ peticiones[r].paso \notin Segundos
        BY <3>1, <3>2 DEF MCInv
      <4>2. Sola(r)
        BY <2>5, <4>1 DEF EnOrden, UnaALaVez, Abandona
      <4> QED
        BY <2>5, <4>1, <4>2, PeticionEnOrden DEF MCInv
    <3> QED
      BY <2>2, <3>1, <3>2 DEF MCInv, PasoEnOrden
  <2> QED
    BY <1>2, <2>3, <2>4, <2>5 DEF MCNext
<1> QED
  BY <1>1, <1>2

\* While no two requests have overlapped and none has died halfway, what a
\* request decided is still so when it writes, and an order in EN_DTF waits for
\* something or is being taken out.
THEOREM InvarianciaEnOrden == MCSpec => []MCInv
<1>1. MCInit => MCInv
  <2> SUFFICES ASSUME MCInit PROVE MCInv
    OBVIOUS
  <2>1. IInv /\ solapes \in Nat
    BY InitIInv DEF MCInit
  <2>2. \A r \in Peticiones : peticiones[r] = Libre
    BY DEF MCInit, Init
  <2>3. ImprimeLoAprobado /\ EsperaConMotivo
    BY DEF MCInit, Init, ImprimeLoAprobado, SinCrear, EsperaConMotivo
  <2>4. \A r \in Peticiones : Cierta(peticiones[r])
    BY <2>2
    DEF Cierta, Motivo, TrabajoComoSeLeyo, CuentaComoSeLeyo, Libre, SobreUnTrabajo
  <2> QED
    BY <2>1, <2>2, <2>3, <2>4 DEF MCInv, EnOrden, UnaALaVez
<1>2. MCInv /\ [MCNext]_varsMC => MCInv'
  BY MCAvanza
<1> QED
  BY <1>1, <1>2, PTL DEF MCSpec

\* Only the file that was approved is printed: an upload, a correction or a
\* reprint never leaves another version approved (impresion.service).
THEOREM ImpresionAprobada == MCSpec => []ImprimeLoAprobadoEnOrden
<1>1. MCInv => ImprimeLoAprobadoEnOrden
  BY DEF MCInv, EnOrden, ImprimeLoAprobadoEnOrden
<1> QED
  BY <1>1, InvarianciaEnOrden, PTL

\* No order waits in EN_DTF for nothing: whoever takes its last job out of
\* those to be printed also takes the order out (resolver).
THEOREM EsperaJustificada == MCSpec => []EnDtfEsperaAlgoEnOrden
<1>1. MCInv => EnDtfEsperaAlgoEnOrden
  BY DEF MCInv, EnOrden, EsperaConMotivo, Resolviendo, EnDtfEsperaAlgoEnOrden, EnDtfEsperaAlgo,
         SinPeticiones, Libre
<1> QED
  BY <1>1, InvarianciaEnOrden, PTL

\* No order is put on the table, attended or sent to the till with jobs left to
\* print: the gate and resolver agree on what they count.
THEOREM CompuertaCorrecta == MCSpec => NadieEntraConDtfPendienteEnOrden
<1> DEFINE A == ~solapo' /\ pedido'.estado # pedido.estado /\ pedido'.estado \in Presentables
                  => Pendientes = {}
<1>1. MCInv /\ [MCNext]_varsMC => [A]_varsMC
  BY MCAvanza DEF Puerta
<1> QED
  BY <1>1, InvarianciaEnOrden, PTL DEF MCSpec, NadieEntraConDtfPendienteEnOrden
=============================================================================
