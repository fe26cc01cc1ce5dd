------------------------ MODULE TransferenciaProofs ------------------------
(***************************************************************************)
(* Proofs about Transferencia, for any number of requests in flight, of    *)
(* payments and of comprobantes.                                           *)
(***************************************************************************)
EXTENDS MCTransferencia, TLAPS

-----------------------------------------------------------------------------
(* The inductive invariant.                                                *)

\* An order has no payment before it gets to the till.
TiendaSinPagos ==
    pedido = "TIENDA" => \A i \in IdPago : pagos[i].estado = "NO_EXISTE"

\* What the rows say to each other.
Filas ==
    /\ PagoInequivoco
    /\ CanceladoSinPagoAbierto
    /\ RevisionConComprobante
    /\ ReembolsoSinVenta
    /\ AplicadoSoloCobrado
    /\ TiendaSinPagos

\* Only one transaction holds the row of the order.
UnSoloBloqueo ==
    \A r, s \in Peticiones :
        peticiones[r].paso \in PasosConBloqueo /\ peticiones[s].paso \in PasosConBloqueo
          => r = s

\* A request that is about to write a payment has read one, and the one that
\* resolves a charge, a payment that waited for something.
ConPago(l) ==
    /\ l.paso \in {"CAMBIAR_A_TIENDA", "SUBIR", "APLICAR", "MARCAR_REVISION", "RECHAZAR"}
         => l.pago \in IdPago
    /\ l.paso = "APLICAR" => l.est \in Abiertos

\* Only an order that was charged has its payment resolved by that.
TrasElCobro(l) ==
    l.paso \in {"RESOLVER_COBRO", "APLICAR"} => pedido \notin {"TIENDA", "PENDIENTE_PAGO"}

\* What the refusal read is still so: at most, other comprobantes have come.
RechazoVigente(l) ==
    l.paso = "RECHAZAR" =>
        /\ l.n <= pagos[l.pago].pendientes
        /\ l.quedan => l.n < pagos[l.pago].pendientes

\* What may have become of a payment, without the lock, since the cancellation
\* read it; and it is still the only one it had to find.
Derivas(e) == CASE e = "PENDIENTE"   -> {"PENDIENTE", "EN_REVISION", "CANCELADO"}
                [] e = "EN_REVISION" -> {"EN_REVISION"}
                [] e = "VERIFICADO"  -> {"VERIFICADO", "APLICADO"}
                [] OTHER             -> {"APLICADO"}

CancelacionVigente(l) ==
    l.paso = "CANCELAR" =>
        /\ l.pago \in IdPago =>
              l.est \in AlCancelar /\ pagos[l.pago].estado \in Derivas(l.est)
        /\ \A j \in IdPago : j # l.pago => pagos[j].estado \notin AlCancelar

Vigente(l) ==
    ConPago(l) /\ TrasElCobro(l) /\ RechazoVigente(l) /\ CancelacionVigente(l)

LecturasVigentes == \A r \in Peticiones : Vigente(peticiones[r])

IInv == TypeOK /\ Filas /\ UnSoloBloqueo /\ LecturasVigentes

-----------------------------------------------------------------------------
(* Rows and requests: what a write leaves.                                 *)

\* A payment that was not issued is a row.
LEMMA SinEmitirEsPago == SinEmitir \in Pagos
BY DEF SinEmitir, Pagos

\* What a request carries after its read is a reading.
LEMMA LecturasOK ==
    /\ Libre \in Lecturas
    /\ \A paso \in Pasos : Lectura(paso) \in Lecturas
    /\ \A paso \in Pasos, i \in IdPago : LecturaDe(paso, i) \in Lecturas
BY DEF Libre, Lectura, LecturaDe, Lecturas, Pasos, EstadosPago

\* A write changes one payment, and takes the place of the order only if no
\* other payment has it.
LEMMA EscribeOK ==
    ASSUME TypeOK, NEW i \in IdPago, NEW p \in Pagos, Escribe(i, p)
    PROVE  /\ pagos' \in [IdPago -> Pagos]
           /\ pagos'[i] = p
           /\ \A j \in IdPago \ {i} : pagos'[j] = pagos[j]
           /\ p.estado \in ESTADOS_ACTIVOS =>
                \A j \in IdPago \ {i} : pagos[j].estado \notin ESTADOS_ACTIVOS
BY DEF TypeOK, Escribe, OtroActivo, Activo

\* A request that goes on leaves the others as they were.
LEMMA SigueOK ==
    ASSUME TypeOK, NEW r \in Peticiones, NEW l \in Lecturas, Sigue(r, l)
    PROVE  /\ peticiones' \in [Peticiones -> Lecturas]
           /\ peticiones'[r] = l
           /\ \A s \in Peticiones \ {r} : peticiones'[s] = peticiones[s]
BY DEF TypeOK, Sigue

-----------------------------------------------------------------------------
(* Requests in flight, when another one writes.                            *)

\* What may happen to the payments while a transaction holds the order.
PasoLibre ==
    /\ pedido' = pedido
    /\ \A j \in IdPago :
          /\ pagos'[j].pendientes >= pagos[j].pendientes
          /\ \/ pagos'[j].estado = pagos[j].estado
             \/ pagos[j].estado = "PENDIENTE" /\ pagos'[j].estado \in {"EN_REVISION", "CANCELADO"}
             \/ pagos[j].estado = "VERIFICADO" /\ pagos'[j].estado = "APLICADO"
             \/ pagos[j].estado = "REEMBOLSO_PENDIENTE" /\ pagos'[j].estado = "REEMBOLSADO"

NoVuelveAVenderse ==
    pedido \notin {"TIENDA", "PENDIENTE_PAGO"} => pedido' \notin {"TIENDA", "PENDIENTE_PAGO"}

\* What a request has read outlives the steps that do not need the lock.
LEMMA SobreviveLibre ==
    ASSUME TypeOK, pagos' \in [IdPago -> Pagos], PasoLibre,
           NEW m \in Lecturas, Vigente(m)
    PROVE  Vigente(m)'
<1>1. ConPago(m)' /\ TrasElCobro(m)'
  BY DEF Vigente, ConPago, TrasElCobro, PasoLibre
<1>2. RechazoVigente(m)'
  <2> SUFFICES ASSUME m.paso = "RECHAZAR"
               PROVE  /\ m.n <= pagos'[m.pago].pendientes
                      /\ m.quedan => m.n < pagos'[m.pago].pendientes
    BY DEF RechazoVigente
  <2>1. m.pago \in IdPago
    BY DEF Vigente, ConPago
  <2>2. /\ m.n \in Nat
        /\ pagos[m.pago].pendientes \in Nat /\ pagos'[m.pago].pendientes \in Nat
        /\ pagos'[m.pago].pendientes >= pagos[m.pago].pendientes
    BY <2>1 DEF TypeOK, Pagos, Lecturas, PasoLibre
  <2> QED
    BY <2>2 DEF Vigente, RechazoVigente
<1>3. CancelacionVigente(m)'
  <2> SUFFICES ASSUME m.paso = "CANCELAR"
               PROVE  /\ m.pago \in IdPago =>
                           m.est \in AlCancelar /\ pagos'[m.pago].estado \in Derivas(m.est)
                      /\ \A j \in IdPago : j # m.pago => pagos'[j].estado \notin AlCancelar
    BY DEF CancelacionVigente
  <2>1. m.pago \in IdPago => m.est \in AlCancelar /\ pagos[m.pago].estado \in Derivas(m.est)
    BY DEF Vigente, CancelacionVigente
  <2>2. \A j \in IdPago : j # m.pago => pagos[j].estado \notin AlCancelar
    BY DEF Vigente, CancelacionVigente
  <2>3. m.pago \in IdPago => pagos'[m.pago].estado \in Derivas(m.est)
    BY <2>1 DEF PasoLibre, Derivas, AlCancelar, Abiertos, ESTADOS_NO_COBRAR
  <2>4. \A j \in IdPago : j # m.pago => pagos'[j].estado \notin AlCancelar
    BY <2>2 DEF PasoLibre, AlCancelar, Abiertos, ESTADOS_NO_COBRAR
  <2> QED
    BY <2>1, <2>3, <2>4
<1> QED
  BY <1>1, <1>2, <1>3 DEF Vigente

\* And, if it does not hold the lock itself, those that do.
LEMMA SobreviveBloqueo ==
    ASSUME NoVuelveAVenderse, NEW m \in Lecturas, Vigente(m), m.paso \notin PasosConBloqueo
    PROVE  Vigente(m)'
BY DEF Vigente, ConPago, TrasElCobro, RechazoVigente, CancelacionVigente,
       NoVuelveAVenderse, PasosConBloqueo

\* A step without the lock: the lock stays with its holder, and what it read
\* under it stays valid.
LEMMA ControlLibre ==
    ASSUME IInv, pagos' \in [IdPago -> Pagos], PasoLibre,
           NEW r \in Peticiones, NEW l \in Lecturas, Sigue(r, l), Vigente(l)',
           l.paso \in PasosConBloqueo => PedidoLibre
    PROVE  UnSoloBloqueo' /\ LecturasVigentes'
<1>1. TypeOK /\ UnSoloBloqueo /\ LecturasVigentes
  BY DEF IInv
<1>2. /\ peticiones'[r] = l
      /\ \A s \in Peticiones \ {r} : peticiones'[s] = peticiones[s]
  BY <1>1, SigueOK
<1>3. UnSoloBloqueo'
  BY <1>1, <1>2 DEF UnSoloBloqueo, PedidoLibre
<1>4. ASSUME NEW s \in Peticiones
      PROVE  Vigente(peticiones[s])'
  <2>1. CASE s = r
    BY <1>2, <2>1 DEF Vigente, ConPago, TrasElCobro, RechazoVigente, CancelacionVigente
  <2>2. CASE s # r
    <3>1. PICK m \in Lecturas : m = peticiones[s]
      BY <1>1 DEF TypeOK
    <3>2. Vigente(m)
      BY <1>1, <3>1 DEF LecturasVigentes
    <3>3. Vigente(m)'
      BY <1>1, <3>2, SobreviveLibre
    <3>4. peticiones'[s] = m
      BY <1>2, <2>2, <3>1
    <3> QED
      BY <3>3, <3>4 DEF Vigente, ConPago, TrasElCobro, RechazoVigente, CancelacionVigente
  <2> QED
    BY <2>1, <2>2
<1> QED
  BY <1>3, <1>4 DEF LecturasVigentes

\* The same for an action that has no request of its own, with the lock or
\* without it.
LEMMA ControlSinPeticion ==
    ASSUME IInv, UNCHANGED peticiones,
           \/ pagos' \in [IdPago -> Pagos] /\ PasoLibre
           \/ PedidoLibre /\ NoVuelveAVenderse
    PROVE  UnSoloBloqueo' /\ LecturasVigentes'
<1>1. TypeOK /\ UnSoloBloqueo /\ LecturasVigentes
  BY DEF IInv
<1>2. UnSoloBloqueo'
  BY <1>1 DEF UnSoloBloqueo
<1>3. ASSUME NEW s \in Peticiones
      PROVE  Vigente(peticiones[s])'
  <2>1. PICK m \in Lecturas : m = peticiones[s]
    BY <1>1 DEF TypeOK
  <2>2. Vigente(m)
    BY <1>1, <2>1 DEF LecturasVigentes
  <2>3. Vigente(m)'
    BY <1>1, <2>1, <2>2, SobreviveLibre, SobreviveBloqueo DEF PedidoLibre
  <2>4. peticiones'[s] = m
    BY <2>1
  <2> QED
    BY <2>3, <2>4 DEF Vigente, ConPago, TrasElCobro, RechazoVigente, CancelacionVigente
<1> QED
  BY <1>2, <1>3 DEF LecturasVigentes

\* A step with the lock that ends its transaction.
LEMMA ControlBloqueo ==
    ASSUME IInv, NoVuelveAVenderse,
           NEW r \in Peticiones, NEW l \in Lecturas, Sigue(r, l),
           l.paso \in {"NINGUNO", "RESOLVER_COBRO"}, TrasElCobro(l)',
           PedidoLibre \/ peticiones[r].paso \in PasosConBloqueo
    PROVE  UnSoloBloqueo' /\ LecturasVigentes'
<1>1. TypeOK /\ UnSoloBloqueo /\ LecturasVigentes
  BY DEF IInv
<1>2. /\ peticiones'[r] = l
      /\ \A s \in Peticiones \ {r} : peticiones'[s] = peticiones[s]
  BY <1>1, SigueOK
<1>3. \A s \in Peticiones \ {r} : peticiones[s].paso \notin PasosConBloqueo
  BY <1>1 DEF UnSoloBloqueo, PedidoLibre
<1>4. UnSoloBloqueo'
  BY <1>2, <1>3 DEF UnSoloBloqueo, PasosConBloqueo
<1>5. ASSUME NEW s \in Peticiones
      PROVE  Vigente(peticiones[s])'
  <2>1. CASE s = r
    BY <1>2, <2>1 DEF Vigente, ConPago, TrasElCobro, RechazoVigente, CancelacionVigente
  <2>2. CASE s # r
    <3>1. PICK m \in Lecturas : m = peticiones[s]
      BY <1>1 DEF TypeOK
    <3>2. Vigente(m) /\ m.paso \notin PasosConBloqueo
      BY <1>1, <1>3, <2>2, <3>1 DEF LecturasVigentes
    <3>3. Vigente(m)'
      BY <3>2, SobreviveBloqueo
    <3>4. peticiones'[s] = m
      BY <1>2, <2>2, <3>1
    <3> QED
      BY <3>3, <3>4 DEF Vigente, ConPago, TrasElCobro, RechazoVigente, CancelacionVigente
  <2> QED
    BY <2>1, <2>2
<1> QED
  BY <1>4, <1>5 DEF LecturasVigentes

-----------------------------------------------------------------------------
(* Steps.                                                                  *)

\* Verified money stays where money is applied or given back.
DineroSigue ==
    \A i \in IdPago : pagos[i].estado \in Verificados => pagos'[i].estado \in Verificados

Legal == IInv' /\ DineroSigue

\* A request that only reads.
LEMMA LeeLegal ==
    ASSUME IInv, UNCHANGED <<pedido, pagos>>,
           NEW r \in Peticiones, NEW l \in Lecturas, Sigue(r, l), Vigente(l),
           l.paso \in PasosConBloqueo => PedidoLibre
    PROVE  Legal
<1>1. TypeOK /\ Filas
  BY DEF IInv
<1>2. TypeOK'
  BY <1>1, SigueOK DEF TypeOK
<1>3. Filas' /\ DineroSigue
  BY <1>1 DEF Filas, PagoInequivoco, CanceladoSinPagoAbierto, RevisionConComprobante,
              ReembolsoSinVenta, AplicadoSoloCobrado, TiendaSinPagos, DineroSigue
<1>4. pagos' \in [IdPago -> Pagos] /\ PasoLibre
  BY <1>1 DEF TypeOK, PasoLibre, Pagos
<1>5. Vigente(l)'
  BY DEF Vigente, ConPago, TrasElCobro, RechazoVigente, CancelacionVigente
<1>6. UnSoloBloqueo' /\ LecturasVigentes'
  BY <1>4, <1>5, ControlLibre
<1> QED
  BY <1>2, <1>3, <1>6 DEF Legal, IInv

\* A read that says nothing of the payments.
LEMMA LibreVigente ==
    /\ Vigente(Libre)
    /\ \A i \in IdPago, paso \in {"CAMBIAR_A_TIENDA", "SUBIR", "MARCAR_REVISION"} :
          Vigente(LecturaDe(paso, i))
    /\ \A paso \in {"COBRAR", "COBRAR_MANUAL"} : Vigente(Lectura(paso))
BY DEF Vigente, ConPago, TrasElCobro, RechazoVigente, CancelacionVigente,
       Libre, Lectura, LecturaDe

\* The reads without the lock, and the requests that die.
LEMMA LecturasLegales ==
    ASSUME IInv, NEW r \in Peticiones,
           \/ LeeCobrar(r) \/ LeeCambiarATienda(r) \/ LeeSubir(r)
           \/ LeeMarcarRevision(r) \/ Abandona(r)
    PROVE  Legal
<1>1. PICK l \in Lecturas :
         Sigue(r, l) /\ Vigente(l) /\ l.paso \notin PasosConBloqueo
         /\ UNCHANGED <<pedido, pagos>>
  <2>1. CASE LeeCobrar(r)
    <3>1. Lectura("COBRAR") \in Lecturas /\ Lectura("COBRAR_MANUAL") \in Lecturas
      BY LecturasOK DEF Pasos
    <3> QED
      BY <2>1, <3>1, LibreVigente DEF LeeCobrar, Recibe, Lectura, Libre, PasosConBloqueo
  <2>2. CASE LeeCambiarATienda(r)
    <3>1. \A i \in IdPago : LecturaDe("CAMBIAR_A_TIENDA", i) \in Lecturas
      BY LecturasOK DEF Pasos
    <3> QED
      BY <2>2, <3>1, LibreVigente
      DEF LeeCambiarATienda, Recibe, LecturaDe, Lectura, Libre, PasosConBloqueo
  <2>3. CASE LeeSubir(r)
    <3>1. \A i \in IdPago : LecturaDe("SUBIR", i) \in Lecturas
      BY LecturasOK DEF Pasos
    <3> QED
      BY <2>3, <3>1, LibreVigente
      DEF LeeSubir, Recibe, LecturaDe, Lectura, Libre, PasosConBloqueo
  <2>4. CASE LeeMarcarRevision(r)
    <3>1. \A i \in IdPago : LecturaDe("MARCAR_REVISION", i) \in Lecturas
      BY LecturasOK DEF Pasos
    <3> QED
      BY <2>4, <3>1, LibreVigente
      DEF LeeMarcarRevision, Recibe, LecturaDe, Lectura, Libre, PasosConBloqueo
  <2>5. CASE Abandona(r)
    BY <2>5, LecturasOK, LibreVigente DEF Abandona, Termina, Libre, PasosConBloqueo
  <2> QED
    BY <2>1, <2>2, <2>3, <2>4, <2>5
<1> QED
  BY <1>1, LeeLegal

\* Only an order that was charged is healed.
LEMMA SanaLegal ==
    ASSUME IInv, NEW r \in Peticiones, Sana(r)
    PROVE  Legal
<1> DEFINE l == Lectura("RESOLVER_COBRO")
<1>1. l \in Lecturas
  BY LecturasOK DEF Pasos
<1>2. Vigente(l) /\ l.paso \notin PasosConBloqueo
  BY DEF Sana, YaCobrados, Vigente, ConPago, TrasElCobro, RechazoVigente,
         CancelacionVigente, Lectura, Libre, PasosConBloqueo
<1>3. Sigue(r, l) /\ UNCHANGED <<pedido, pagos>>
  BY DEF Sana, Recibe
<1> QED
  BY <1>1, <1>2, <1>3, LeeLegal

\* The payment that the resolution of the charge reads.
LEMMA LeeAplicarLegal ==
    ASSUME IInv, NEW r \in Peticiones, LeeAplicar(r)
    PROVE  Legal
<1>1. TypeOK /\ LecturasVigentes
  BY DEF IInv
<1>2. UNCHANGED <<pedido, pagos>> /\ En(r, "RESOLVER_COBRO")
  BY DEF LeeAplicar
<1>3. pedido \notin {"TIENDA", "PENDIENTE_PAGO"}
  BY <1>1, <1>2 DEF LecturasVigentes, Vigente, TrasElCobro, En
<1>4. CASE Termina(r)
  BY <1>2, <1>4, LecturasOK, LibreVigente, LeeLegal
  DEF Termina, Libre, PasosConBloqueo
<1>5. ASSUME NEW i \in IdPago, pagos[i].estado \in Abiertos,
             Sigue(r, [LecturaDe("APLICAR", i) EXCEPT !.est = pagos[i].estado])
      PROVE  Legal
  <2> DEFINE l == [LecturaDe("APLICAR", i) EXCEPT !.est = pagos[i].estado]
  <2>1. l \in Lecturas /\ l.paso = "APLICAR" /\ l.pago = i /\ l.est = pagos[i].estado
    BY <1>5 DEF LecturaDe, Lectura, Libre, Lecturas, Pasos, EstadosPago,
                Abiertos, ESTADOS_NO_COBRAR
  <2>2. Vigente(l) /\ l.paso \notin PasosConBloqueo
    BY <1>3, <1>5, <2>1 DEF Vigente, ConPago, TrasElCobro, RechazoVigente,
                            CancelacionVigente, PasosConBloqueo
  <2> QED
    BY <1>2, <1>5, <2>1, <2>2, LeeLegal
<1> QED
  BY <1>4, <1>5 DEF LeeAplicar

\* What the transaction that refuses a comprobante read under the lock.
LEMMA RechazaEmpiezaLegal ==
    ASSUME IInv, NEW r \in Peticiones, RechazaEmpieza(r)
    PROVE  Legal
<1>1. PICK i \in IdPago : \E n \in 1..pagos[i].pendientes :
         /\ PedidoLibre
         /\ pagos[i].estado = "EN_REVISION"
         /\ Recibe(r, [LecturaDe("RECHAZAR", i) EXCEPT
                         !.n = n, !.quedan = n < pagos[i].pendientes])
  BY DEF RechazaEmpieza
<1>2. pagos[i].pendientes \in Nat
  BY DEF IInv, TypeOK, Pagos
<1>3. PICK n \in 1..pagos[i].pendientes :
         /\ PedidoLibre
         /\ pagos[i].estado = "EN_REVISION"
         /\ Recibe(r, [LecturaDe("RECHAZAR", i) EXCEPT
                         !.n = n, !.quedan = n < pagos[i].pendientes])
  BY <1>1
<1>4. n \in Nat /\ n <= pagos[i].pendientes /\ (n < pagos[i].pendientes) \in BOOLEAN
  BY <1>2
<1>5. PICK b \in BOOLEAN : b = (n < pagos[i].pendientes)
  BY <1>4
<1> DEFINE l == [LecturaDe("RECHAZAR", i) EXCEPT !.n = n, !.quedan = b]
<1>6. Sigue(r, l) /\ UNCHANGED <<pedido, pagos>>
  BY <1>3, <1>5 DEF Recibe
<1>7. /\ l \in Lecturas /\ l.paso = "RECHAZAR" /\ l.pago = i
      /\ l.n = n /\ l.quedan = b
  BY <1>4 DEF LecturaDe, Lectura, Libre, Lecturas, Pasos, EstadosPago, PasosConBloqueo
<1> HIDE DEF l
<1>8. Vigente(l)
  BY <1>4, <1>5, <1>7 DEF Vigente, ConPago, TrasElCobro, RechazoVigente, CancelacionVigente
<1> QED
  BY <1>3, <1>6, <1>7, <1>8, LeeLegal

\* The payment that the cancellation finds is the only one to be resolved.
LEMMA CancelaEmpiezaLegal ==
    ASSUME IInv, NEW r \in Peticiones, CancelaEmpieza(r)
    PROVE  Legal
<1>1. TypeOK /\ PagoInequivoco
  BY DEF IInv, Filas
<1>2. PedidoLibre
  BY DEF CancelaEmpieza
<1>3. CASE /\ {i \in IdPago : SeResuelveAlCancelar(pagos[i].estado)} = {}
           /\ Recibe(r, Lectura("CANCELAR"))
  <2> DEFINE l == Lectura("CANCELAR")
  <2>1. l \in Lecturas /\ l.paso = "CANCELAR" /\ l.pago = NADIE
    BY LecturasOK DEF Pasos, PasosConBloqueo, Lectura, Libre
  <2>2. Vigente(l)
    BY <1>3, <2>1, NadieNoEsPago
    DEF Vigente, ConPago, TrasElCobro, RechazoVigente, CancelacionVigente, SeResuelveAlCancelar
  <2> QED
    BY <1>2, <1>3, <2>1, <2>2, LeeLegal DEF Recibe
<1>4. ASSUME NEW i \in IdPago, SeResuelveAlCancelar(pagos[i].estado),
             Recibe(r, [LecturaDe("CANCELAR", i) EXCEPT !.est = pagos[i].estado])
      PROVE  Legal
  <2> DEFINE l == [LecturaDe("CANCELAR", i) EXCEPT !.est = pagos[i].estado]
  <2>1. pagos[i].estado \in AlCancelar
    BY <1>4 DEF SeResuelveAlCancelar
  <2>2. l \in Lecturas /\ l.paso = "CANCELAR" /\ l.pago = i /\ l.est = pagos[i].estado
    BY <2>1 DEF LecturaDe, Lectura, Libre, Lecturas, Pasos, PasosConBloqueo, EstadosPago,
                AlCancelar, Abiertos, ESTADOS_NO_COBRAR
  <2>3. \A j \in IdPago : j # i => pagos[j].estado \notin AlCancelar
    BY <1>1, <2>1 DEF PagoInequivoco
  <2>4. pagos[i].estado \in Derivas(l.est)
    BY <2>1, <2>2 DEF Derivas, AlCancelar, Abiertos, ESTADOS_NO_COBRAR
  <2>5. Vigente(l)
    BY <2>1, <2>2, <2>3, <2>4
    DEF Vigente, ConPago, TrasElCobro, RechazoVigente, CancelacionVigente
  <2> QED
    BY <1>2, <1>4, <2>2, <2>5, LeeLegal DEF Recibe
<1> QED
  BY <1>3, <1>4 DEF CancelaEmpieza

-----------------------------------------------------------------------------
(* Writes.                                                                 *)

\* What a write of one payment has to respect while the order stays where it
\* is: it does not open a payment next to an applied one, nor on an order that
\* no longer waits for it, and it does not lose verified money.
EscrituraSana(i, p) ==
    /\ p.estado \in AlCancelar =>
          \/ pagos[i].estado \in AlCancelar
          \/ p.estado \in ESTADOS_ACTIVOS /\ pedido = "PENDIENTE_PAGO"
    /\ pedido = "CANCELADO" /\ p.estado \in {"PENDIENTE", "VERIFICADO"} => p.estado = pagos[i].estado
    /\ p.estado = "EN_REVISION" => p.pendientes > 0
    /\ pedido = "PENDIENTE_PAGO" /\ p.estado = "REEMBOLSO_PENDIENTE" => p.estado = pagos[i].estado
    /\ pedido \in {"TIENDA", "PENDIENTE_PAGO"} /\ p.estado = "APLICADO" => p.estado = pagos[i].estado
    /\ pedido = "TIENDA" => p.estado = "NO_EXISTE"
    /\ pagos[i].estado \in Verificados => p.estado \in Verificados

\* A sound write of one payment keeps what the rows say to each other.
LEMMA EscribeFilas ==
    ASSUME TypeOK, Filas, NEW i \in IdPago, NEW p \in Pagos,
           Escribe(i, p), EscrituraSana(i, p), pedido' = pedido
    PROVE  pagos' \in [IdPago -> Pagos] /\ Filas' /\ DineroSigue
<1>1. /\ pagos' \in [IdPago -> Pagos]
      /\ pagos'[i] = p
      /\ \A j \in IdPago \ {i} : pagos'[j] = pagos[j]
      /\ p.estado \in ESTADOS_ACTIVOS =>
           \A j \in IdPago \ {i} : pagos[j].estado \notin ESTADOS_ACTIVOS
  BY EscribeOK
<1>2. PagoInequivoco'
  <2>1. ASSUME NEW j \in IdPago \ {i}, p.estado \in AlCancelar
        PROVE  pagos[j].estado \notin AlCancelar
    <3>1. CASE pagos[i].estado \in AlCancelar
      BY <3>1 DEF Filas, PagoInequivoco
    <3>2. CASE p.estado \in ESTADOS_ACTIVOS /\ pedido = "PENDIENTE_PAGO"
      <4>1. pagos[j].estado \notin ESTADOS_ACTIVOS /\ pagos[j].estado # "APLICADO"
        BY <1>1, <3>2 DEF Filas, AplicadoSoloCobrado
      <4> QED
        BY <4>1 DEF AlCancelar, Abiertos, ESTADOS_NO_COBRAR, ESTADOS_ACTIVOS
    <3> QED
      BY <2>1, <3>1, <3>2 DEF EscrituraSana
  <2>2. ASSUME NEW j \in IdPago, NEW k \in IdPago,
               pagos'[j].estado \in AlCancelar, pagos'[k].estado \in AlCancelar
        PROVE  j = k
    <3>1. CASE j = i \/ k = i
      BY <1>1, <2>1, <2>2, <3>1
    <3>2. CASE j # i /\ k # i
      BY <1>1, <2>2, <3>2 DEF Filas, PagoInequivoco
    <3> QED
      BY <3>1, <3>2
  <2> QED
    BY <2>2 DEF PagoInequivoco
<1>3. CanceladoSinPagoAbierto' /\ ReembolsoSinVenta'
  BY <1>1 DEF Filas, EscrituraSana, CanceladoSinPagoAbierto, ReembolsoSinVenta
<1>4. RevisionConComprobante' /\ AplicadoSoloCobrado' /\ TiendaSinPagos'
  BY <1>1 DEF Filas, EscrituraSana, RevisionConComprobante, AplicadoSoloCobrado, TiendaSinPagos
<1>5. DineroSigue
  BY <1>1 DEF EscrituraSana, DineroSigue
<1> QED
  BY <1>1, <1>2, <1>3, <1>4, <1>5 DEF Filas

\* A write under the lock by an action without a request of its own.
LEMMA EscribeSolo ==
    ASSUME IInv, NEW i \in IdPago, NEW p \in Pagos, Escribe(i, p), EscrituraSana(i, p),
           UNCHANGED <<pedido, peticiones>>, PedidoLibre
    PROVE  Legal
<1>1. TypeOK /\ Filas
  BY DEF IInv
<1>2. pagos' \in [IdPago -> Pagos] /\ Filas' /\ DineroSigue
  BY <1>1, EscribeFilas
<1>3. UnSoloBloqueo' /\ LecturasVigentes'
  BY ControlSinPeticion DEF NoVuelveAVenderse
<1>4. TypeOK'
  BY <1>1, <1>2 DEF TypeOK
<1> QED
  BY <1>2, <1>3, <1>4 DEF Legal, IInv

\* A write that ends a request, with the lock.
LEMMA EscribeConBloqueo ==
    ASSUME IInv, NEW i \in IdPago, NEW p \in Pagos, Escribe(i, p), EscrituraSana(i, p),
           NEW r \in Peticiones, Termina(r), pedido' = pedido,
           PedidoLibre \/ peticiones[r].paso \in PasosConBloqueo
    PROVE  Legal
<1>1. TypeOK /\ Filas
  BY DEF IInv
<1>2. pagos' \in [IdPago -> Pagos] /\ Filas' /\ DineroSigue
  BY <1>1, EscribeFilas
<1>3. Libre \in Lecturas /\ Sigue(r, Libre)
  BY LecturasOK DEF Termina
<1>4. TrasElCobro(Libre)' /\ Libre.paso = "NINGUNO"
  BY DEF TrasElCobro, Libre
<1>5. UnSoloBloqueo' /\ LecturasVigentes'
  BY <1>3, <1>4, ControlBloqueo DEF NoVuelveAVenderse
<1>6. TypeOK'
  BY <1>1, <1>2, <1>3, SigueOK DEF TypeOK
<1> QED
  BY <1>2, <1>5, <1>6 DEF Legal, IInv

\* The changes of state that do not wait for the lock.
DerivaLibre(e, f) ==
    \/ f = e
    \/ e = "PENDIENTE" /\ f \in {"EN_REVISION", "CANCELADO"}
    \/ e = "VERIFICADO" /\ f = "APLICADO"

\* A write that ends a request, without the lock.
LEMMA EscribeSinBloqueo ==
    ASSUME IInv, NEW i \in IdPago, NEW p \in Pagos, Escribe(i, p), EscrituraSana(i, p),
           p.pendientes >= pagos[i].pendientes, DerivaLibre(pagos[i].estado, p.estado),
           NEW r \in Peticiones, Termina(r), pedido' = pedido
    PROVE  Legal
<1>1. TypeOK /\ Filas
  BY DEF IInv
<1>2. pagos' \in [IdPago -> Pagos] /\ Filas' /\ DineroSigue
  BY <1>1, EscribeFilas
<1>3. Libre \in Lecturas /\ Sigue(r, Libre)
  BY LecturasOK DEF Termina
<1>4. pagos'[i] = p /\ \A j \in IdPago \ {i} : pagos'[j] = pagos[j]
  BY <1>1, EscribeOK
<1>5. PasoLibre
  <2>1. ASSUME NEW j \in IdPago \ {i}
        PROVE  pagos'[j].pendientes >= pagos[j].pendientes
    BY <1>1, <1>4 DEF TypeOK, Pagos
  <2> QED
    BY <1>4, <2>1 DEF PasoLibre, DerivaLibre
<1>6. Vigente(Libre)' /\ Libre.paso \notin PasosConBloqueo
  BY DEF Vigente, ConPago, TrasElCobro, RechazoVigente, CancelacionVigente, Libre, PasosConBloqueo
<1>7. UnSoloBloqueo' /\ LecturasVigentes'
  BY <1>2, <1>3, <1>5, <1>6, ControlLibre
<1>8. TypeOK'
  BY <1>1, <1>2, <1>3, SigueOK DEF TypeOK
<1> QED
  BY <1>2, <1>7, <1>8 DEF Legal, IInv

-----------------------------------------------------------------------------
(* The actions.                                                            *)

\* The columns of a payment have their types.
LEMMA PagosTipos ==
    ASSUME TypeOK, NEW i \in IdPago
    PROVE  /\ pagos[i] \in Pagos
           /\ pagos[i].pendientes \in Nat /\ pagos[i].total \in Nat
           /\ pagos[i].estado \in EstadosPago \cup {"NO_EXISTE"}
BY DEF TypeOK, Pagos

\* A payment with another state and nothing else changed.
LEMMA ConEstado ==
    ASSUME TypeOK, NEW i \in IdPago, NEW e \in EstadosPago
    PROVE  /\ [pagos[i] EXCEPT !.estado = e] \in Pagos
           /\ [pagos[i] EXCEPT !.estado = e].estado = e
           /\ [pagos[i] EXCEPT !.estado = e].pendientes = pagos[i].pendientes
BY PagosTipos DEF Pagos

\* The mark for Tesoreria moves no payment, whatever its state by then.
LEMMA MarcaLegal ==
    ASSUME IInv, NEW i \in IdPago, Marca(i), NEW r \in Peticiones, Termina(r), pedido' = pedido
    PROVE  Legal
<1> DEFINE p == [pagos[i] EXCEPT !.revision = TRUE]
<1>1. TypeOK /\ Filas
  BY DEF IInv
<1>2. p \in Pagos /\ p.estado = pagos[i].estado /\ p.pendientes = pagos[i].pendientes
  BY <1>1, PagosTipos DEF Pagos
<1>3. Escribe(i, p)
  BY DEF Marca
<1>4. p.pendientes >= pagos[i].pendientes
  BY <1>1, <1>2, PagosTipos
<1> HIDE DEF p
<1>5. EscrituraSana(i, p)
  BY <1>1, <1>2 DEF EscrituraSana, Filas, TiendaSinPagos, RevisionConComprobante
<1> QED
  BY <1>2, <1>3, <1>4, <1>5, EscribeSinBloqueo DEF DerivaLibre

\* Instructions are issued only while the order waits for its money.
LEMMA EmiteLegal ==
    ASSUME IInv, EmiteInstrucciones
    PROVE  Legal
<1>1. PICK i \in IdPago : pagos[i].estado = "NO_EXISTE" /\ Mueve(i, "PENDIENTE")
  BY DEF EmiteInstrucciones, CreaPago
<1> DEFINE p == [pagos[i] EXCEPT !.estado = "PENDIENTE"]
<1>2. p \in Pagos /\ p.estado = "PENDIENTE"
  BY ConEstado DEF IInv, EstadosPago
<1>3. Escribe(i, p)
  BY <1>1 DEF Mueve
<1> HIDE DEF p
<1>4. EscrituraSana(i, p)
  BY <1>1, <1>2 DEF EscrituraSana, EmiteInstrucciones, ESTADOS_ACTIVOS, Verificados
<1> QED
  BY <1>2, <1>3, <1>4, EscribeSolo DEF EmiteInstrucciones

\* The order leaves the store, with a payment or without one.
LEMMA PasaACajaLegal ==
    ASSUME IInv, PasaACaja
    PROVE  Legal
<1>1. /\ TypeOK /\ pedido = "TIENDA" /\ pedido' = "PENDIENTE_PAGO"
      /\ PedidoLibre /\ UNCHANGED peticiones
      /\ \A j \in IdPago : pagos[j].estado = "NO_EXISTE"
  BY DEF IInv, Filas, TiendaSinPagos, PasaACaja
<1>2. /\ pagos' \in [IdPago -> Pagos]
      /\ \E i \in IdPago \cup {NADIE} : \A j \in IdPago :
            pagos'[j].estado = IF j = i THEN "PENDIENTE" ELSE "NO_EXISTE"
  <2>1. CASE UNCHANGED pagos
    BY <1>1, <2>1, NadieNoEsPago DEF TypeOK
  <2>2. CASE CreaPago
    <3>1. PICK i \in IdPago : Mueve(i, "PENDIENTE")
      BY <2>2 DEF CreaPago
    <3> DEFINE p == [pagos[i] EXCEPT !.estado = "PENDIENTE"]
    <3>2. p \in Pagos /\ p.estado = "PENDIENTE" /\ Escribe(i, p)
      BY <1>1, <3>1, ConEstado DEF Mueve, EstadosPago
    <3> HIDE DEF p
    <3>3. pagos' \in [IdPago -> Pagos] /\ pagos'[i] = p
          /\ \A j \in IdPago \ {i} : pagos'[j] = pagos[j]
      BY <1>1, <3>2, EscribeOK
    <3> QED
      BY <1>1, <3>2, <3>3
  <2> QED
    BY <2>1, <2>2 DEF PasaACaja
<1>3. TypeOK'
  BY <1>1, <1>2 DEF TypeOK, EstadosPedido
<1>4. Filas'
  BY <1>1, <1>2 DEF Filas, PagoInequivoco, CanceladoSinPagoAbierto, RevisionConComprobante,
                    ReembolsoSinVenta, AplicadoSoloCobrado, TiendaSinPagos,
                    AlCancelar, Abiertos, ESTADOS_NO_COBRAR
<1>5. DineroSigue
  BY <1>1 DEF DineroSigue, Verificados
<1>6. UnSoloBloqueo' /\ LecturasVigentes'
  BY <1>1, ControlSinPeticion DEF NoVuelveAVenderse
<1> QED
  BY <1>3, <1>4, <1>5, <1>6 DEF Legal, IInv

\* The order is charged or delivered: the payments do not move.
LEMMA SoloElPedido ==
    ASSUME TypeOK, Filas, UNCHANGED pagos, pedido \in {"PENDIENTE_PAGO", "PAGADO"},
           pedido' \in YaCobrados
    PROVE  Filas' /\ DineroSigue /\ NoVuelveAVenderse
BY DEF Filas, PagoInequivoco, CanceladoSinPagoAbierto, RevisionConComprobante, YaCobrados,
       ReembolsoSinVenta, AplicadoSoloCobrado, TiendaSinPagos, DineroSigue, NoVuelveAVenderse

\* The order is delivered.
LEMMA EntregaLegal ==
    ASSUME IInv, EntregaPedido
    PROVE  Legal
<1>1. Filas' /\ DineroSigue /\ NoVuelveAVenderse
  BY SoloElPedido DEF IInv, EntregaPedido, YaCobrados
<1>2. UnSoloBloqueo' /\ LecturasVigentes'
  BY <1>1, ControlSinPeticion DEF EntregaPedido
<1>3. TypeOK'
  BY DEF IInv, TypeOK, EntregaPedido, EstadosPedido
<1> QED
  BY <1>1, <1>2, <1>3 DEF Legal, IInv

\* The order is charged: its payment is resolved by a later transaction.
LEMMA CobraLegal ==
    ASSUME IInv, NEW r \in Peticiones, Cobra(r)
    PROVE  Legal
<1> DEFINE l == Lectura("RESOLVER_COBRO")
<1>1. l \in Lecturas /\ l.paso = "RESOLVER_COBRO"
  BY LecturasOK DEF Pasos, Lectura, Libre
<1>2. Sigue(r, l) /\ PedidoLibre /\ pedido' = "PAGADO" /\ UNCHANGED pagos
  BY DEF Cobra
<1> HIDE DEF l
<1>3. Filas' /\ DineroSigue /\ NoVuelveAVenderse
  BY <1>2, SoloElPedido DEF IInv, Cobra, YaCobrados
<1>4. TrasElCobro(l)'
  BY <1>2 DEF TrasElCobro
<1>5. UnSoloBloqueo' /\ LecturasVigentes'
  BY <1>1, <1>2, <1>3, <1>4, ControlBloqueo
<1>6. TypeOK'
  BY <1>1, <1>2, SigueOK DEF IInv, TypeOK, EstadosPedido
<1> QED
  BY <1>3, <1>5, <1>6 DEF Legal, IInv

\* The customer goes back to paying in the store.
LEMMA CambiaATiendaLegal ==
    ASSUME IInv, NEW r \in Peticiones, CambiaATienda(r)
    PROVE  Legal
<1> DEFINE i == peticiones[r].pago
           p == [pagos[i] EXCEPT !.estado = "CANCELADO"]
<1>1. i \in IdPago
  BY DEF IInv, LecturasVigentes, Vigente, ConPago, CambiaATienda, En
<1>2. pagos[i].estado = "PENDIENTE" /\ Escribe(i, p) /\ PedidoLibre
  BY DEF CambiaATienda, Mueve
<1>3. p \in Pagos /\ p.estado = "CANCELADO"
  BY <1>1, ConEstado DEF IInv, EstadosPago
<1> HIDE DEF p
<1>4. EscrituraSana(i, p)
  BY <1>1, <1>2, <1>3 DEF IInv, Filas, TiendaSinPagos, EscrituraSana, AlCancelar, Abiertos,
                          ESTADOS_NO_COBRAR, Verificados
<1> HIDE DEF i
<1> QED
  BY <1>1, <1>2, <1>3, <1>4, EscribeConBloqueo DEF CambiaATienda

\* The comprobante that has been uploaded, whether or not it is over the limit.
LEMMA SubeLegal ==
    ASSUME IInv, NEW r \in Peticiones, Sube(r)
    PROVE  Legal
<1>1. TypeOK /\ Filas
  BY DEF IInv
<1>2. PICK i \in IdPago : i = peticiones[r].pago
  BY DEF IInv, LecturasVigentes, Vigente, ConPago, Sube, En
<1>3. pagos[i] \in Pagos /\ pagos[i].pendientes \in Nat /\ pagos[i].total \in Nat
  BY <1>1, PagosTipos
<1>4. pagos[i].pendientes + 1 \in Nat /\ pagos[i].total + 1 \in Nat
  BY <1>3
<1>5. PICK n \in Nat : n = pagos[i].pendientes + 1
  BY <1>4
<1>6. PICK t \in Nat : t = pagos[i].total + 1
  BY <1>4
<1>7. n > 0 /\ n >= pagos[i].pendientes
  BY <1>3, <1>5
<1> DEFINE p == [pagos[i] EXCEPT !.estado = "EN_REVISION", !.pendientes = n, !.total = t]
<1>8. pagos[i].estado \in ESTADOS_NO_COBRAR /\ Escribe(i, p) /\ Termina(r) /\ pedido' = pedido
  BY <1>2, <1>5, <1>6 DEF Sube
<1>9. p \in Pagos /\ p.estado = "EN_REVISION" /\ p.pendientes = n
  BY <1>3 DEF Pagos, EstadosPago
<1> HIDE DEF p
<1>10. pedido # "TIENDA"
  BY <1>1, <1>8 DEF Filas, TiendaSinPagos, ESTADOS_NO_COBRAR
<1>11. EscrituraSana(i, p)
  BY <1>7, <1>8, <1>9, <1>10
  DEF EscrituraSana, AlCancelar, Abiertos, ESTADOS_NO_COBRAR, Verificados
<1>12. DerivaLibre(pagos[i].estado, p.estado) /\ p.pendientes >= pagos[i].pendientes
  BY <1>7, <1>8, <1>9 DEF DerivaLibre, ESTADOS_NO_COBRAR
<1> QED
  BY <1>8, <1>9, <1>11, <1>12, EscribeSinBloqueo

\* Tesoreria has the money: from any payment that can be approved, and only on
\* an order that waits for it.
LEMMA ApruebaLegal ==
    ASSUME IInv, NEW i \in IdPago, Aprueba(i)
    PROVE  Legal
<1> DEFINE p == [pagos[i] EXCEPT !.estado = "VERIFICADO", !.pendientes = 0]
<1>1. pagos[i] \in Pagos
  BY PagosTipos DEF IInv
<1>2. p \in Pagos /\ p.estado = "VERIFICADO"
  BY <1>1 DEF Pagos, EstadosPago
<1>3. Escribe(i, p)
  BY DEF Aprueba, Acepta
<1> HIDE DEF p
<1>4. EscrituraSana(i, p)
  BY <1>2 DEF EscrituraSana, Aprueba, ESTADOS_ACTIVOS, Verificados
<1> QED
  BY <1>2, <1>3, <1>4, EscribeSolo DEF Aprueba

\* Money that came for an order that no longer waits for it.
LEMMA AbonoLegal ==
    ASSUME IInv, NEW i \in IdPago, AbonoSinPedido(i)
    PROVE  Legal
<1> DEFINE p == [pagos[i] EXCEPT !.estado     = "REEMBOLSO_PENDIENTE",
                                 !.pendientes = 0,
                                 !.revision   = FALSE]
<1>1. pagos[i] \in Pagos
  BY PagosTipos DEF IInv
<1>2. p \in Pagos /\ p.estado = "REEMBOLSO_PENDIENTE"
  BY <1>1 DEF Pagos, EstadosPago
<1>3. Escribe(i, p)
  BY DEF AbonoSinPedido
<1> HIDE DEF p
<1>4. pedido # "TIENDA" /\ pedido # "PENDIENTE_PAGO"
  BY DEF IInv, Filas, TiendaSinPagos, AbonoSinPedido, ESTADOS_ABONO_SIN_PEDIDO, ESTADOS_NO_COBRAR
<1>5. EscrituraSana(i, p)
  BY <1>2, <1>4 DEF EscrituraSana, AlCancelar, Abiertos, ESTADOS_NO_COBRAR, Verificados
<1> QED
  BY <1>2, <1>3, <1>5, EscribeSolo DEF AbonoSinPedido

\* It does not take the lock, and it has no request.
LEMMA ReembolsoLegal ==
    ASSUME IInv, NEW i \in IdPago, RegistraReembolso(i)
    PROVE  Legal
<1> DEFINE p == [pagos[i] EXCEPT !.estado = "REEMBOLSADO"]
<1>1. TypeOK /\ Filas
  BY DEF IInv
<1>2. /\ pagos[i].estado = "REEMBOLSO_PENDIENTE"
      /\ Escribe(i, p) /\ UNCHANGED <<pedido, peticiones>>
  BY DEF RegistraReembolso, Mueve
<1>3. p \in Pagos /\ p.estado = "REEMBOLSADO" /\ p.pendientes = pagos[i].pendientes
  BY <1>1, ConEstado DEF EstadosPago
<1> HIDE DEF p
<1>4. EscrituraSana(i, p)
  BY <1>1, <1>2, <1>3 DEF Filas, TiendaSinPagos, EscrituraSana, AlCancelar, Abiertos,
                          ESTADOS_NO_COBRAR, Verificados
<1>5. pagos' \in [IdPago -> Pagos] /\ Filas' /\ DineroSigue
  BY <1>1, <1>2, <1>3, <1>4, EscribeFilas
<1>6. PasoLibre
  <2>1. pagos'[i] = p /\ \A j \in IdPago \ {i} : pagos'[j] = pagos[j]
    BY <1>1, <1>2, <1>3, EscribeOK
  <2>2. \A j \in IdPago : pagos[j].pendientes >= pagos[j].pendientes
    BY <1>1 DEF TypeOK, Pagos
  <2> QED
    BY <1>2, <1>3, <2>1, <2>2 DEF PasoLibre
<1>7. UnSoloBloqueo' /\ LecturasVigentes'
  BY <1>2, <1>5, <1>6, ControlSinPeticion
<1>8. TypeOK'
  BY <1>1, <1>2, <1>5 DEF TypeOK
<1> QED
  BY <1>5, <1>7, <1>8 DEF Legal, IInv

\* The mark is removed, or the payment expires.
LEMMA SinMarcaLegal ==
    ASSUME IInv, NEW i \in IdPago, ResuelveRevision(i) \/ Vence(i)
    PROVE  Legal
<1>1. TypeOK /\ Filas
  BY DEF IInv
<1>2. CASE ResuelveRevision(i)
  <2> DEFINE p == [pagos[i] EXCEPT !.estado = pagos[i].estado, !.revision = FALSE]
  <2>1. p \in Pagos /\ p.estado = pagos[i].estado /\ p.pendientes = pagos[i].pendientes
    BY <1>1, PagosTipos DEF Pagos
  <2>2. Escribe(i, p)
    BY <1>2 DEF ResuelveRevision, MueveSinMarca
  <2> HIDE DEF p
  <2>3. EscrituraSana(i, p)
    BY <1>1, <2>1 DEF EscrituraSana, Filas, TiendaSinPagos, RevisionConComprobante
  <2> QED
    BY <1>2, <2>1, <2>2, <2>3, EscribeSolo DEF ResuelveRevision
<1>3. CASE Vence(i)
  <2> DEFINE p == [pagos[i] EXCEPT !.estado = "VENCIDO", !.revision = FALSE]
  <2>1. p \in Pagos /\ p.estado = "VENCIDO"
    BY <1>1, PagosTipos DEF Pagos, EstadosPago
  <2>2. pagos[i].estado = "PENDIENTE" /\ Escribe(i, p)
    BY <1>3 DEF Vence, MueveSinMarca
  <2> HIDE DEF p
  <2>3. EscrituraSana(i, p)
    BY <1>1, <2>1, <2>2 DEF EscrituraSana, Filas, TiendaSinPagos, AlCancelar, Abiertos,
                            ESTADOS_NO_COBRAR, Verificados
  <2> QED
    BY <1>3, <2>1, <2>2, <2>3, EscribeSolo DEF Vence
<1> QED
  BY <1>2, <1>3

\* The refusal leaves the payment under review exactly when there is something
\* left to review, for what it read is still so.
LEMMA RechazaTerminaLegal ==
    ASSUME IInv, NEW r \in Peticiones, RechazaTermina(r)
    PROVE  Legal
<1>1. TypeOK /\ Filas
  BY DEF IInv
<1>2. PICK l \in Lecturas : l = peticiones[r]
  BY <1>1 DEF TypeOK
<1>3. l.paso = "RECHAZAR" /\ Vigente(l)
  BY <1>2 DEF IInv, LecturasVigentes, RechazaTermina, En
<1>4. PICK i \in IdPago : i = l.pago
  BY <1>3 DEF Vigente, ConPago
<1>5. /\ pagos[i] \in Pagos /\ pagos[i].pendientes \in Nat
      /\ l.n \in Nat /\ l.quedan \in BOOLEAN
  BY <1>1, PagosTipos DEF Lecturas
<1>6. l.n <= pagos[i].pendientes /\ (l.quedan => l.n < pagos[i].pendientes)
  BY <1>3, <1>4 DEF Vigente, RechazoVigente
<1>7. PICK b \in BOOLEAN : b = (pagos[i].revision /\ pedido = "PENDIENTE_PAGO")
  BY <1>5 DEF Pagos
<1>8. PICK q \in Nat : q = Quedan(pagos[i], l.n) /\ (l.quedan => q > 0)
  BY <1>5, <1>6 DEF Quedan
<1>9. PICK e \in EstadosPago :
         /\ e = DestinoTrasRechazo(l.quedan)
         /\ e \in {"EN_REVISION", "PENDIENTE", "CANCELADO"}
         /\ e = "EN_REVISION" => l.quedan
         /\ e = "PENDIENTE" => pedido = "PENDIENTE_PAGO"
  BY <1>5 DEF DestinoTrasRechazo, EstadosPago
<1> DEFINE p == [pagos[i] EXCEPT !.estado = e, !.pendientes = q, !.revision = b]
<1>10. p \in Pagos /\ p.estado = e /\ p.pendientes = q
  BY <1>5 DEF Pagos
<1>11. pagos[i].estado = "EN_REVISION" /\ Escribe(i, p) /\ Termina(r) /\ pedido' = pedido
  BY <1>2, <1>4, <1>7, <1>8, <1>9 DEF RechazaTermina
<1> HIDE DEF p
<1>12. pedido # "TIENDA"
  BY <1>1, <1>11 DEF Filas, TiendaSinPagos
<1>13. EscrituraSana(i, p)
  BY <1>8, <1>9, <1>10, <1>11, <1>12
  DEF EscrituraSana, AlCancelar, Abiertos, ESTADOS_NO_COBRAR, Verificados
<1> QED
  BY <1>2, <1>3, <1>10, <1>11, <1>13, EscribeConBloqueo DEF PasosConBloqueo

\* The cancellation leaves nothing open: what it read has only moved, without
\* the lock, to where it needs no resolving, or to review.
LEMMA CancelaTerminaLegal ==
    ASSUME IInv, NEW r \in Peticiones, CancelaTermina(r)
    PROVE  Legal
<1>1. TypeOK /\ Filas
  BY DEF IInv
<1>2. PICK l \in Lecturas : l = peticiones[r]
  BY <1>1 DEF TypeOK
<1>3. l.paso = "CANCELAR" /\ CancelacionVigente(l) /\ pedido' = "CANCELADO" /\ Termina(r)
  BY <1>2 DEF IInv, LecturasVigentes, Vigente, CancelaTermina, En
<1>4. \A j \in IdPago : j # l.pago => pagos[j].estado \notin AlCancelar
  BY <1>3 DEF CancelacionVigente
<1>5. /\ pagos' \in [IdPago -> Pagos]
      /\ \A j \in IdPago : j # l.pago => pagos'[j].estado = pagos[j].estado
                                         /\ pagos'[j].pendientes = pagos[j].pendientes
      /\ l.pago \in IdPago =>
            /\ pagos'[l.pago].estado \notin {"PENDIENTE", "VERIFICADO"}
            /\ pagos'[l.pago].estado = "EN_REVISION" => pagos'[l.pago].pendientes > 0
            /\ pagos[l.pago].estado \in Verificados => pagos'[l.pago].estado \in Verificados
  <2>1. CASE l.pago = NADIE
    BY <1>1, <1>2, <2>1, NadieNoEsPago DEF CancelaTermina, TypeOK
  <2>2. CASE l.pago \in IdPago
    <3>1. PICK i \in IdPago : i = l.pago
      BY <2>2
    <3>2. i # NADIE
      BY NadieNoEsPago
    <3>3. l.est \in AlCancelar /\ pagos[i].estado \in Derivas(l.est)
      BY <1>3, <3>1 DEF CancelacionVigente
    <3>4. CASE l.est = "EN_REVISION"
      <4> DEFINE p == [pagos[i] EXCEPT !.revision = TRUE]
      <4>1. Escribe(i, p)
        BY <1>2, <3>1, <3>2, <3>4 DEF CancelaTermina, Marca
      <4>2. p \in Pagos /\ p.estado = pagos[i].estado /\ p.pendientes = pagos[i].pendientes
        BY <1>1, PagosTipos DEF Pagos
      <4> HIDE DEF p
      <4>3. /\ pagos' \in [IdPago -> Pagos] /\ pagos'[i] = p
            /\ \A j \in IdPago \ {i} : pagos'[j] = pagos[j]
        BY <1>1, <4>1, <4>2, EscribeOK
      <4>4. pagos[i].estado = "EN_REVISION"
        BY <3>3, <3>4 DEF Derivas
      <4>5. pagos[i].pendientes > 0
        BY <1>1, <4>4 DEF Filas, RevisionConComprobante
      <4> QED
        BY <3>1, <4>2, <4>3, <4>4, <4>5 DEF Verificados
    <3>5. CASE l.est # "EN_REVISION" /\ pagos[i].estado # l.est
      <4>1. UNCHANGED pagos
        BY <1>2, <3>1, <3>2, <3>5 DEF CancelaTermina
      <4>2. pagos[i].estado \notin {"PENDIENTE", "VERIFICADO"}
        BY <3>3, <3>5 DEF Derivas, AlCancelar, Abiertos, ESTADOS_NO_COBRAR
      <4>3. pagos' \in [IdPago -> Pagos]
        BY <1>1, <4>1 DEF TypeOK
      <4> QED
        BY <1>1, <3>1, <4>1, <4>2, <4>3 DEF Filas, RevisionConComprobante
    <3>6. CASE l.est # "EN_REVISION" /\ pagos[i].estado = l.est
      <4>1. PICK e \in {"CANCELADO", "REEMBOLSO_PENDIENTE"} :
               /\ e = IF l.est = "PENDIENTE" THEN "CANCELADO" ELSE "REEMBOLSO_PENDIENTE"
               /\ l.est \in Verificados => e \in Verificados
        BY DEF Verificados
      <4> DEFINE p == [pagos[i] EXCEPT !.estado = e]
      <4>2. Escribe(i, p)
        BY <1>2, <3>1, <3>2, <3>6, <4>1 DEF CancelaTermina, Mueve
      <4>3. e \in EstadosPago
        BY DEF EstadosPago
      <4>4. p \in Pagos /\ p.estado = e
        BY <1>1, <4>3, ConEstado
      <4> HIDE DEF p
      <4>5. /\ pagos' \in [IdPago -> Pagos] /\ pagos'[i] = p
            /\ \A j \in IdPago \ {i} : pagos'[j] = pagos[j]
        BY <1>1, <4>2, <4>4, EscribeOK
      <4> QED
        BY <3>1, <3>6, <4>1, <4>4, <4>5
    <3> QED
      BY <3>4, <3>5, <3>6
  <2> QED
    BY <2>1, <2>2 DEF Lecturas
<1>6. Filas'
  <2>1. PagoInequivoco'
    BY <1>4, <1>5 DEF PagoInequivoco
  <2>2. CanceladoSinPagoAbierto'
    <3>1. ASSUME NEW j \in IdPago
          PROVE  pagos'[j].estado \notin {"PENDIENTE", "VERIFICADO"}
      BY <1>4, <1>5 DEF AlCancelar, Abiertos, ESTADOS_NO_COBRAR
    <3> QED
      BY <3>1 DEF CanceladoSinPagoAbierto
  <2>3. RevisionConComprobante'
    BY <1>1, <1>5 DEF Filas, RevisionConComprobante
  <2>4. ReembolsoSinVenta' /\ AplicadoSoloCobrado' /\ TiendaSinPagos'
    BY <1>3 DEF ReembolsoSinVenta, AplicadoSoloCobrado, TiendaSinPagos
  <2> QED
    BY <2>1, <2>2, <2>3, <2>4 DEF Filas
<1>7. DineroSigue
  BY <1>5 DEF DineroSigue
<1>8. Libre \in Lecturas /\ Sigue(r, Libre) /\ Libre.paso = "NINGUNO"
  BY <1>3, LecturasOK DEF Termina, Libre
<1>9. TrasElCobro(Libre)' /\ NoVuelveAVenderse
  BY <1>3 DEF TrasElCobro, Libre, NoVuelveAVenderse
<1>10. peticiones[r].paso \in PasosConBloqueo
  BY <1>2, <1>3 DEF PasosConBloqueo
<1>11. UnSoloBloqueo' /\ LecturasVigentes'
  BY <1>8, <1>9, <1>10, ControlBloqueo
<1>12. TypeOK'
  BY <1>1, <1>3, <1>5, <1>8, SigueOK DEF TypeOK, EstadosPedido
<1> QED
  BY <1>6, <1>7, <1>11, <1>12 DEF Legal, IInv

\* The charge resolves the payment it read, if it is still as it was.
LEMMA AplicaLegal ==
    ASSUME IInv, NEW r \in Peticiones, Aplica(r)
    PROVE  Legal
<1>1. TypeOK /\ Filas
  BY DEF IInv
<1>2. PICK l \in Lecturas : l = peticiones[r]
  BY <1>1 DEF TypeOK
<1>3. l.paso = "APLICAR" /\ Vigente(l) /\ Termina(r) /\ pedido' = pedido
  BY <1>2 DEF IInv, LecturasVigentes, Aplica, En
<1>4. l.est \in Abiertos /\ pedido \notin {"TIENDA", "PENDIENTE_PAGO"}
  BY <1>3 DEF Vigente, ConPago, TrasElCobro
<1>5. PICK i \in IdPago : i = l.pago
  BY <1>3 DEF Vigente, ConPago
<1>6. CASE l.est = "EN_REVISION"
  BY <1>2, <1>3, <1>5, <1>6, MarcaLegal DEF Aplica
<1>7. CASE l.est # "EN_REVISION" /\ pagos[i].estado # l.est
  <2>1. UNCHANGED <<pedido, pagos>> /\ Sigue(r, Libre)
    BY <1>2, <1>3, <1>5, <1>7 DEF Aplica, Termina
  <2> QED
    BY <2>1, LecturasOK, LibreVigente, LeeLegal DEF Libre, PasosConBloqueo
<1>8. CASE l.est # "EN_REVISION" /\ pagos[i].estado = l.est
  <2>1. PICK e \in {"APLICADO", "CANCELADO"} :
           /\ e = IF l.est = "VERIFICADO" THEN "APLICADO" ELSE "CANCELADO"
           /\ DerivaLibre(l.est, e)
           /\ l.est \in Verificados => e \in Verificados
    BY <1>4, <1>8 DEF DerivaLibre, Verificados, Abiertos, ESTADOS_NO_COBRAR
  <2> DEFINE p == [pagos[i] EXCEPT !.estado = e]
  <2>2. e \in EstadosPago
    BY DEF EstadosPago
  <2>3. p \in Pagos /\ p.estado = e /\ p.pendientes = pagos[i].pendientes
    BY <1>1, <2>2, ConEstado
  <2>4. Escribe(i, p)
    BY <1>2, <1>5, <1>8, <2>1 DEF Aplica, Mueve
  <2> HIDE DEF p
  <2>5. EscrituraSana(i, p)
    BY <1>4, <1>8, <2>1, <2>3 DEF EscrituraSana, AlCancelar
  <2>6. p.pendientes >= pagos[i].pendientes
    BY <1>1, <2>3, PagosTipos
  <2> QED
    BY <1>3, <1>8, <2>1, <2>3, <2>4, <2>5, <2>6, EscribeSinBloqueo
<1> QED
  BY <1>6, <1>7, <1>8

\* The total of the order changed in the ERP.
LEMMA MarcaRevisionLegal ==
    ASSUME IInv, NEW r \in Peticiones, MarcaRevision(r)
    PROVE  Legal
<1>1. peticiones[r].pago \in IdPago
  BY DEF IInv, LecturasVigentes, Vigente, ConPago, MarcaRevision, En
<1> QED
  BY <1>1, MarcaLegal DEF MarcaRevision

-----------------------------------------------------------------------------
(* The invariant.                                                          *)

\* Every step keeps the invariant and loses no verified money.
LEMMA NextLegal ==
    ASSUME IInv, [Next]_vars
    PROVE  Legal
<1>1. CASE DelPedido
  BY <1>1, PasaACajaLegal, EntregaLegal, EmiteLegal DEF DelPedido
<1>2. ASSUME NEW i \in IdPago, DeTesoreria(i)
      PROVE  Legal
  BY <1>2, ApruebaLegal, AbonoLegal, ReembolsoLegal, SinMarcaLegal DEF DeTesoreria
<1>3. ASSUME NEW r \in Peticiones, DePeticion(r)
      PROVE  Legal
  BY <1>3, LecturasLegales, CobraLegal, CambiaATiendaLegal, SubeLegal, RechazaEmpiezaLegal,
     RechazaTerminaLegal, CancelaEmpiezaLegal, CancelaTerminaLegal, LeeAplicarLegal,
     AplicaLegal, SanaLegal, MarcaRevisionLegal
  DEF DePeticion
<1>4. CASE UNCHANGED vars
  <2>1. IInv'
    BY <1>4 DEF vars, IInv, TypeOK, Filas, PagoInequivoco, CanceladoSinPagoAbierto,
                RevisionConComprobante, ReembolsoSinVenta, AplicadoSoloCobrado,
                TiendaSinPagos, UnSoloBloqueo, LecturasVigentes, Vigente, ConPago,
                TrasElCobro, RechazoVigente, CancelacionVigente
  <2> QED
    BY <1>4, <2>1 DEF vars, Legal, DineroSigue
<1> QED
  BY <1>1, <1>2, <1>3, <1>4 DEF Next

\* An order without payments satisfies the invariant.
LEMMA InitIInv == Init => IInv
<1> SUFFICES ASSUME Init PROVE IInv
  OBVIOUS
<1>1. TypeOK
  BY SinEmitirEsPago, LecturasOK DEF Init, TypeOK, EstadosPedido
<1>2. Filas
  BY DEF Init, Filas, PagoInequivoco, CanceladoSinPagoAbierto, RevisionConComprobante,
         ReembolsoSinVenta, AplicadoSoloCobrado, TiendaSinPagos, SinEmitir,
         AlCancelar, Abiertos, ESTADOS_NO_COBRAR
<1>3. UnSoloBloqueo
  BY DEF Init, UnSoloBloqueo, Libre, PasosConBloqueo
<1>4. LecturasVigentes
  BY LibreVigente DEF Init, LecturasVigentes
<1> QED
  BY <1>1, <1>2, <1>3, <1>4 DEF IInv

\* The rows of an order, what its requests in flight have read of them and the
\* lock agree in every state, for any number of requests.
THEOREM Invariancia == Spec => []IInv
<1>1. Init => IInv
  BY InitIInv
<1>2. IInv /\ [Next]_vars => IInv'
  BY NextLegal DEF Legal
<1> QED
  BY <1>1, <1>2, PTL DEF Spec

\* Types.
THEOREM TipoCorrecto == Spec => []TypeOK
<1>1. IInv => TypeOK
  BY DEF IInv
<1> QED
  BY <1>1, Invariancia, PTL

\* What resolves "the" payment of an order cannot take the wrong one: no two
\* payments of an order are open or applied at once (hooks.ts).
THEOREM PagoUnico == Spec => []PagoInequivoco
<1>1. IInv => PagoInequivoco
  BY DEF IInv, Filas
<1> QED
  BY <1>1, Invariancia, PTL

\* A cancelled order leaves no instructions that can still be paid and no
\* verified money in the air, whatever ran while it was being cancelled.
THEOREM CancelacionCompleta == Spec => []CanceladoSinPagoAbierto
<1>1. IInv => CanceladoSinPagoAbierto
  BY DEF IInv, Filas
<1> QED
  BY <1>1, Invariancia, PTL

\* No payment is stuck under review with nothing to review, although rechazar
\* counts before it writes and uploads take no lock.
THEOREM RevisionCorrecta == Spec => []RevisionConComprobante
<1>1. IInv => RevisionConComprobante
  BY DEF IInv, Filas
<1> QED
  BY <1>1, Invariancia, PTL

\* An order that waits for its money is not owed a refund.
THEOREM ReembolsoCorrecto == Spec => []ReembolsoSinVenta
<1>1. IInv => ReembolsoSinVenta
  BY DEF IInv, Filas
<1> QED
  BY <1>1, Invariancia, PTL

\* No transfer is applied before its order is charged.
THEOREM AplicacionCorrecta == Spec => []AplicadoSoloCobrado
<1>1. IInv => AplicadoSoloCobrado
  BY DEF IInv, Filas
<1> QED
  BY <1>1, Invariancia, PTL

\* Verified money is always applied or given back, never lost by a step of
\* anybody, with the lock or without it.
THEOREM DineroASalvo == Spec => DineroVerificadoNoSePierde
<1>1. IInv /\ [Next]_vars => [DineroSigue]_vars
  BY NextLegal DEF Legal
<1>2. [DineroSigue]_vars =>
         [\A i \in IdPago :
             pagos[i].estado \in Verificados => pagos'[i].estado \in Verificados]_vars
  BY DEF DineroSigue
<1> QED
  BY <1>1, <1>2, Invariancia, PTL DEF Spec, DineroVerificadoNoSePierde
-----------------------------------------------------------------------------
(* One request at a time: a cancelled order keeps no applied money.        *)

\* While nobody has overlapped, what the resolution of a charge and that of a
\* cancellation read is exactly what they will find when they write.
CobroVigente(l) ==
    l.paso \in {"RESOLVER_COBRO", "APLICAR"} => pedido \in YaCobrados

CancelacionExacta(l) ==
    l.paso = "CANCELAR" /\ l.pago \in IdPago => pagos[l.pago].estado = l.est

EnOrden ==
    /\ ~Coinciden
    /\ CanceladoSinDineroAplicado
    /\ \A r \in Peticiones : CobroVigente(peticiones[r]) /\ CancelacionExacta(peticiones[r])

MCInv == IInv /\ (~solapo => EnOrden)

\* A payment becomes applied only when an order that was charged has it so.
NadieAplicaCancelado ==
    /\ pedido' = "CANCELADO" => pedido = "CANCELADO"
    /\ pedido' = "CANCELADO" =>
         \A i \in IdPago : pagos'[i].estado = "APLICADO" => pagos[i].estado = "APLICADO"

LEMMA SigueSinDinero ==
    ASSUME CanceladoSinDineroAplicado, NadieAplicaCancelado
    PROVE  CanceladoSinDineroAplicado'
BY DEF CanceladoSinDineroAplicado, NadieAplicaCancelado

\* A step of a request: the others do nothing, before it and after it.
LEMMA PeticionEnOrden ==
    ASSUME IInv, EnOrden, ~Coinciden', CanceladoSinDineroAplicado',
           NEW r \in Peticiones, NEW l, Sigue(r, l),
           peticiones[r] # Libre \/ l # Libre,
           CobroVigente(l)', CancelacionExacta(l)'
    PROVE  EnOrden'
<1>1. /\ peticiones'[r] = l
      /\ \A s \in Peticiones \ {r} : peticiones'[s] = peticiones[s]
  BY DEF IInv, TypeOK, Sigue
<1>2. \A s \in Peticiones \ {r} : peticiones'[s] = Libre
  BY <1>1 DEF EnOrden, Coinciden
<1>3. ASSUME NEW s \in Peticiones
      PROVE  CobroVigente(peticiones[s])' /\ CancelacionExacta(peticiones[s])'
  <2>1. CASE s = r
    BY <1>1, <2>1 DEF CobroVigente, CancelacionExacta
  <2>2. CASE s # r
    BY <1>2, <2>2 DEF CobroVigente, CancelacionExacta, Libre
  <2> QED
    BY <2>1, <2>2
<1> QED
  BY <1>3 DEF EnOrden

\* A step without a request: it holds the lock, or only gives money back.
LEMMA SinPeticionEnOrden ==
    ASSUME IInv, EnOrden, UNCHANGED peticiones, NadieAplicaCancelado,
           pedido \in YaCobrados => pedido' \in YaCobrados,
           \/ PedidoLibre
           \/ \A i \in IdPago :
                 pagos'[i].estado = pagos[i].estado \/ pagos[i].estado = "REEMBOLSO_PENDIENTE"
    PROVE  EnOrden'
<1>1. ASSUME NEW s \in Peticiones
      PROVE  CobroVigente(peticiones[s])' /\ CancelacionExacta(peticiones[s])'
  <2>1. PICK m : m = peticiones[s] /\ m = peticiones'[s]
    OBVIOUS
  <2>2. CobroVigente(m) /\ CancelacionExacta(m) /\ CancelacionVigente(m)
    BY <2>1 DEF EnOrden, IInv, LecturasVigentes, Vigente
  <2>3. CobroVigente(m)'
    BY <2>2 DEF CobroVigente
  <2>4. CancelacionExacta(m)'
    <3> SUFFICES ASSUME m.paso = "CANCELAR", m.pago \in IdPago
                 PROVE  pagos'[m.pago].estado = m.est
      BY DEF CancelacionExacta
    <3>1. pagos[m.pago].estado = m.est /\ m.est \in AlCancelar
      BY <2>2 DEF CancelacionExacta, CancelacionVigente
    <3>2. ~PedidoLibre
      BY <2>1 DEF PedidoLibre, PasosConBloqueo
    <3> QED
      BY <3>1, <3>2 DEF AlCancelar, Abiertos, ESTADOS_NO_COBRAR
  <2> QED
    BY <2>1, <2>3, <2>4 DEF CobroVigente, CancelacionExacta
<1>2. CanceladoSinDineroAplicado'
  BY SigueSinDinero DEF EnOrden
<1>3. ~Coinciden'
  BY DEF EnOrden, Coinciden
<1> QED
  BY <1>1, <1>2, <1>3 DEF EnOrden

\* A write that does not apply the payment.
LEMMA EscribeSinAplicar ==
    ASSUME TypeOK, NEW i \in IdPago, NEW e, e # "APLICADO" \/ e = pagos[i].estado,
           NEW p, p.estado = e, Escribe(i, p)
    PROVE  \A j \in IdPago : pagos'[j].estado = "APLICADO" => pagos[j].estado = "APLICADO"
BY DEF TypeOK, Escribe

\* The till, the delivery and the steps of Tesoreria.
LEMMA DelPedidoEnOrden ==
    ASSUME IInv, EnOrden, DelPedido
    PROVE  EnOrden'
<1>1. TypeOK /\ UNCHANGED peticiones /\ PedidoLibre
  BY DEF IInv, DelPedido, PasaACaja, EntregaPedido, EmiteInstrucciones
<1>2. \/ UNCHANGED pagos
      \/ \E i \in IdPago : Escribe(i, [pagos[i] EXCEPT !.estado = "PENDIENTE"])
  BY DEF DelPedido, PasaACaja, EntregaPedido, EmiteInstrucciones, CreaPago, Mueve
<1>3. \A j \in IdPago : pagos'[j].estado = "APLICADO" => pagos[j].estado = "APLICADO"
  BY <1>1, <1>2 DEF Escribe, TypeOK, Pagos
<1>4. /\ pedido' # "CANCELADO" \/ pedido' = pedido
      /\ pedido \in YaCobrados => pedido' \in YaCobrados
  BY DEF DelPedido, PasaACaja, EntregaPedido, EmiteInstrucciones, YaCobrados
<1> QED
  BY <1>1, <1>3, <1>4, SinPeticionEnOrden DEF NadieAplicaCancelado

LEMMA TesoreriaEnOrden ==
    ASSUME IInv, EnOrden, NEW i \in IdPago, DeTesoreria(i)
    PROVE  EnOrden'
<1>1. TypeOK /\ UNCHANGED <<pedido, peticiones>>
  BY DEF IInv, DeTesoreria, Aprueba, AbonoSinPedido, RegistraReembolso, ResuelveRevision, Vence
<1>2. \E p : /\ Escribe(i, p)
             /\ p.estado \in {"VERIFICADO", "REEMBOLSO_PENDIENTE", "REEMBOLSADO", "VENCIDO",
                              pagos[i].estado}
  <2>1. pagos[i] \in Pagos
    BY <1>1 DEF TypeOK
  <2>2. CASE Aprueba(i)
    <3> DEFINE p == [pagos[i] EXCEPT !.estado = "VERIFICADO", !.pendientes = 0]
    <3>1. Escribe(i, p) /\ p.estado = "VERIFICADO"
      BY <2>1, <2>2 DEF Aprueba, Acepta, Pagos
    <3> QED
      BY <3>1
  <2>3. CASE AbonoSinPedido(i)
    <3> DEFINE p == [pagos[i] EXCEPT !.estado = "REEMBOLSO_PENDIENTE", !.pendientes = 0,
                                     !.revision = FALSE]
    <3>1. Escribe(i, p) /\ p.estado = "REEMBOLSO_PENDIENTE"
      BY <2>1, <2>3 DEF AbonoSinPedido, Pagos
    <3> QED
      BY <3>1
  <2>4. CASE RegistraReembolso(i)
    BY <2>1, <2>4 DEF RegistraReembolso, Mueve, Pagos
  <2>5. CASE ResuelveRevision(i)
    <3> DEFINE p == [pagos[i] EXCEPT !.estado = pagos[i].estado, !.revision = FALSE]
    <3>1. Escribe(i, p) /\ p.estado = pagos[i].estado
      BY <2>1, <2>5 DEF ResuelveRevision, MueveSinMarca, Pagos
    <3> QED
      BY <3>1
  <2>6. CASE Vence(i)
    <3> DEFINE p == [pagos[i] EXCEPT !.estado = "VENCIDO", !.revision = FALSE]
    <3>1. Escribe(i, p) /\ p.estado = "VENCIDO"
      BY <2>1, <2>6 DEF Vence, MueveSinMarca, Pagos
    <3> QED
      BY <3>1
  <2> QED
    BY <2>2, <2>3, <2>4, <2>5, <2>6 DEF DeTesoreria
<1>3. NadieAplicaCancelado
  BY <1>1, <1>2, EscribeSinAplicar DEF NadieAplicaCancelado
<1>4. \/ PedidoLibre
      \/ \A j \in IdPago :
            pagos'[j].estado = pagos[j].estado \/ pagos[j].estado = "REEMBOLSO_PENDIENTE"
  <2>1. PedidoLibre \/ RegistraReembolso(i)
    BY DEF DeTesoreria, Aprueba, AbonoSinPedido, ResuelveRevision, Vence
  <2> QED
    BY <1>1, <2>1 DEF RegistraReembolso, Mueve, Escribe, TypeOK
<1> QED
  BY <1>1, <1>3, <1>4, SinPeticionEnOrden

\* What the customer, the till and Tesoreria begin, and the requests that die.
LEMMA LecturasEnOrden ==
    ASSUME IInv, EnOrden, ~Coinciden', NEW r \in Peticiones,
           \/ LeeCobrar(r) \/ LeeCambiarATienda(r) \/ LeeSubir(r) \/ RechazaEmpieza(r)
           \/ LeeMarcarRevision(r) \/ Abandona(r)
    PROVE  EnOrden'
<1>1. UNCHANGED <<pedido, pagos>>
  BY DEF LeeCobrar, LeeCambiarATienda, LeeSubir, RechazaEmpieza, LeeMarcarRevision, Abandona,
         Recibe
<1>2. CanceladoSinDineroAplicado'
  BY <1>1, SigueSinDinero DEF EnOrden, NadieAplicaCancelado
<1>3. PICK l : /\ Sigue(r, l)
               /\ l.paso \notin {"RESOLVER_COBRO", "APLICAR", "CANCELAR"}
               /\ peticiones[r] # Libre \/ l # Libre
  <2>1. CASE LeeCobrar(r)
    BY <2>1 DEF LeeCobrar, Recibe, Lectura, Libre
  <2>2. CASE LeeCambiarATienda(r)
    <3>1. PICK i \in IdPago : Sigue(r, LecturaDe("CAMBIAR_A_TIENDA", i))
      BY <2>2 DEF LeeCambiarATienda, Recibe
    <3>2. LecturaDe("CAMBIAR_A_TIENDA", i).paso = "CAMBIAR_A_TIENDA"
      BY DEF LecturaDe, Lectura, Libre
    <3> QED
      BY <3>1, <3>2 DEF Libre
  <2>3. CASE LeeSubir(r)
    <3>1. PICK i \in IdPago : Sigue(r, LecturaDe("SUBIR", i))
      BY <2>3 DEF LeeSubir, Recibe
    <3>2. LecturaDe("SUBIR", i).paso = "SUBIR"
      BY DEF LecturaDe, Lectura, Libre
    <3> QED
      BY <3>1, <3>2 DEF Libre
  <2>4. CASE RechazaEmpieza(r)
    <3>0. PICK i \in IdPago : \E n \in 1..pagos[i].pendientes :
             Sigue(r, [LecturaDe("RECHAZAR", i) EXCEPT !.n = n, !.quedan = n < pagos[i].pendientes])
      BY <2>4 DEF RechazaEmpieza, Recibe
    <3>1. PICK n \in 1..pagos[i].pendientes :
             Sigue(r, [LecturaDe("RECHAZAR", i) EXCEPT !.n = n, !.quedan = n < pagos[i].pendientes])
      BY <3>0
    <3> DEFINE l == [LecturaDe("RECHAZAR", i) EXCEPT !.n = n, !.quedan = n < pagos[i].pendientes]
    <3>2. l.paso = "RECHAZAR"
      BY DEF LecturaDe, Lectura, Libre
    <3>3. Sigue(r, l)
      BY <3>1
    <3> HIDE DEF l
    <3> QED
      BY <3>2, <3>3 DEF Libre
  <2>5. CASE LeeMarcarRevision(r)
    <3>1. PICK i \in IdPago : Sigue(r, LecturaDe("MARCAR_REVISION", i))
      BY <2>5 DEF LeeMarcarRevision, Recibe
    <3>2. LecturaDe("MARCAR_REVISION", i).paso = "MARCAR_REVISION"
      BY DEF LecturaDe, Lectura, Libre
    <3> QED
      BY <3>1, <3>2 DEF Libre
  <2>6. CASE Abandona(r)
    BY <2>6 DEF Abandona, Termina, Libre
  <2> QED
    BY <2>1, <2>2, <2>3, <2>4, <2>5, <2>6
<1> QED
  BY <1>2, <1>3, PeticionEnOrden DEF CobroVigente, CancelacionExacta

\* The resolution of a charge begins, reads its payment or finds none.
LEMMA CobroEnOrden ==
    ASSUME IInv, EnOrden, ~Coinciden', NEW r \in Peticiones,
           Cobra(r) \/ Sana(r) \/ LeeAplicar(r)
    PROVE  EnOrden'
<1>1. UNCHANGED pagos /\ pedido' \in YaCobrados
  <2>1. CASE Cobra(r)
    BY <2>1 DEF Cobra, YaCobrados
  <2>2. CASE Sana(r)
    BY <2>2 DEF Sana, Recibe
  <2>3. CASE LeeAplicar(r)
    <3>1. CobroVigente(peticiones[r])
      BY DEF EnOrden
    <3> QED
      BY <2>3, <3>1 DEF LeeAplicar, En, CobroVigente
  <2> QED
    BY <2>1, <2>2, <2>3
<1>2. CanceladoSinDineroAplicado'
  BY <1>1, SigueSinDinero DEF EnOrden, NadieAplicaCancelado, YaCobrados
<1>3. PICK l : Sigue(r, l) /\ l.paso # "CANCELAR" /\ (peticiones[r] # Libre \/ l # Libre)
  <2>1. CASE Cobra(r)
    BY <2>1 DEF Cobra, En, Lectura, Libre
  <2>2. CASE Sana(r)
    BY <2>2 DEF Sana, Recibe, Lectura, Libre
  <2>3. CASE LeeAplicar(r) /\ Termina(r)
    BY <2>3 DEF LeeAplicar, En, Termina, Libre
  <2>4. ASSUME LeeAplicar(r), NEW i \in IdPago,
               Sigue(r, [LecturaDe("APLICAR", i) EXCEPT !.est = pagos[i].estado])
        PROVE  \E l : /\ Sigue(r, l) /\ l.paso # "CANCELAR"
                      /\ peticiones[r] # Libre \/ l # Libre
    <3> DEFINE l == [LecturaDe("APLICAR", i) EXCEPT !.est = pagos[i].estado]
    <3>1. Sigue(r, l)
      BY <2>4
    <3>2. l.paso = "APLICAR"
      BY DEF LecturaDe, Lectura, Libre
    <3> HIDE DEF l
    <3> QED
      BY <3>1, <3>2 DEF Libre
  <2> QED
    BY <2>1, <2>2, <2>3, <2>4 DEF LeeAplicar
<1> QED
  BY <1>1, <1>2, <1>3, PeticionEnOrden DEF CobroVigente, CancelacionExacta

\* The requests that end by writing their payment, and do not apply it unless
\* the order was charged.
LEMMA EscriturasEnOrden ==
    ASSUME IInv, EnOrden, ~Coinciden', NEW r \in Peticiones,
           CambiaATienda(r) \/ Sube(r) \/ RechazaTermina(r) \/ Aplica(r) \/ MarcaRevision(r)
    PROVE  EnOrden'
<1>1. UNCHANGED pedido /\ Sigue(r, Libre) /\ peticiones[r] # Libre /\ TypeOK
  BY DEF IInv, CambiaATienda, Sube, RechazaTermina, Aplica, MarcaRevision, Termina, En, Libre
<1>2. NadieAplicaCancelado
  <2>1. CASE Aplica(r)
    <3>1. CobroVigente(peticiones[r])
      BY DEF EnOrden
    <3> QED
      BY <1>1, <2>1, <3>1 DEF Aplica, En, CobroVigente, YaCobrados, NadieAplicaCancelado
  <2>2. CASE ~Aplica(r)
    <3>1. PICK i : i = peticiones[r].pago
      OBVIOUS
    <3>2. i \in IdPago
      <4>1. ConPago(peticiones[r])
        BY DEF IInv, LecturasVigentes, Vigente
      <4> QED
        BY <2>2, <3>1, <4>1
        DEF ConPago, CambiaATienda, Sube, RechazaTermina, MarcaRevision, En
    <3>3. pagos[i] \in Pagos
      BY <1>1, <3>2 DEF TypeOK
    <3>4. \E p : Escribe(i, p) /\ (p.estado # "APLICADO" \/ p.estado = pagos[i].estado)
      <4>1. CASE CambiaATienda(r)
        BY <3>1, <3>3, <4>1 DEF CambiaATienda, Mueve, Pagos
      <4>2. CASE Sube(r)
        <5> DEFINE p == [pagos[i] EXCEPT !.estado = "EN_REVISION", !.pendientes = @ + 1,
                                         !.total = @ + 1]
        <5>1. Escribe(i, p) /\ p.estado = "EN_REVISION"
          BY <3>1, <3>3, <4>2 DEF Sube, Pagos
        <5> QED
          BY <5>1
      <4>3. CASE RechazaTermina(r)
        <5> DEFINE l == peticiones[r]
                   p == [pagos[i] EXCEPT
                           !.estado     = DestinoTrasRechazo(l.quedan),
                           !.pendientes = Quedan(pagos[i], l.n),
                           !.revision   = @ /\ pedido = "PENDIENTE_PAGO"]
        <5>1. Escribe(i, p)
          BY <3>1, <4>3 DEF RechazaTermina
        <5>2. p.estado = DestinoTrasRechazo(l.quedan)
          BY <3>3 DEF Pagos
        <5>3. l.quedan \in BOOLEAN
          BY <1>1 DEF TypeOK, Lecturas
        <5>4. DestinoTrasRechazo(l.quedan) # "APLICADO"
          BY <5>3 DEF DestinoTrasRechazo
        <5> QED
          BY <5>1, <5>2, <5>4
      <4>4. CASE MarcaRevision(r)
        BY <3>1, <3>3, <4>4 DEF MarcaRevision, Marca, Pagos
      <4> QED
        BY <2>2, <4>1, <4>2, <4>3, <4>4
    <3> QED
      BY <1>1, <3>2, <3>4, EscribeSinAplicar DEF NadieAplicaCancelado
  <2> QED
    BY <2>1, <2>2
<1>3. CanceladoSinDineroAplicado'
  BY <1>2, SigueSinDinero DEF EnOrden
<1> QED
  BY <1>1, <1>3, PeticionEnOrden DEF CobroVigente, CancelacionExacta, Libre

LEMMA CancelaEmpiezaEnOrden ==
    ASSUME IInv, EnOrden, ~Coinciden', NEW r \in Peticiones, CancelaEmpieza(r)
    PROVE  EnOrden'
<1>1. UNCHANGED <<pedido, pagos>>
  BY DEF CancelaEmpieza, Recibe
<1>2. CanceladoSinDineroAplicado'
  BY <1>1, SigueSinDinero DEF EnOrden, NadieAplicaCancelado
<1>3. PICK l : /\ Sigue(r, l) /\ l # Libre /\ l.paso = "CANCELAR"
               /\ l.pago \in IdPago => l.est = pagos[l.pago].estado
  <2>1. CASE Sigue(r, Lectura("CANCELAR"))
    <3>1. Lectura("CANCELAR").paso = "CANCELAR" /\ Lectura("CANCELAR").pago = NADIE
      BY DEF Lectura, Libre
    <3> QED
      BY <2>1, <3>1, NadieNoEsPago DEF Libre
  <2>2. ASSUME NEW i \in IdPago,
               Sigue(r, [LecturaDe("CANCELAR", i) EXCEPT !.est = pagos[i].estado])
        PROVE  \E l : /\ Sigue(r, l) /\ l # Libre /\ l.paso = "CANCELAR"
                      /\ l.pago \in IdPago => l.est = pagos[l.pago].estado
    <3> DEFINE l == [LecturaDe("CANCELAR", i) EXCEPT !.est = pagos[i].estado]
    <3>1. Sigue(r, l)
      BY <2>2
    <3>2. l.paso = "CANCELAR" /\ l.pago = i /\ l.est = pagos[i].estado
      BY DEF LecturaDe, Lectura, Libre
    <3> QED
      BY <3>1, <3>2 DEF Libre
  <2> QED
    BY <2>1, <2>2 DEF CancelaEmpieza, Recibe
<1> QED
  BY <1>1, <1>2, <1>3, PeticionEnOrden DEF CobroVigente, CancelacionExacta

\* The cancellation: the payment is still as it was read, and there is no other.
LEMMA CancelaTerminaEnOrden ==
    ASSUME IInv, EnOrden, ~Coinciden', NEW r \in Peticiones, CancelaTermina(r)
    PROVE  EnOrden'
<1>1. PICK l \in Lecturas : l = peticiones[r]
  BY DEF IInv, TypeOK
<1>2. l.paso = "CANCELAR" /\ Sigue(r, Libre) /\ l # Libre /\ TypeOK
  BY <1>1 DEF CancelaTermina, En, Termina, Libre, IInv
<1>3. CancelacionVigente(l) /\ CancelacionExacta(l)
  BY <1>1 DEF EnOrden, IInv, LecturasVigentes, Vigente
<1>4. \A j \in IdPago : j # l.pago => pagos[j].estado # "APLICADO"
  BY <1>2, <1>3 DEF CancelacionVigente, AlCancelar
<1>5. CASE l.pago = NADIE
  <2>1. UNCHANGED pagos
    BY <1>1, <1>5 DEF CancelaTermina
  <2>2. CanceladoSinDineroAplicado'
    BY <1>4, <1>5, <2>1, NadieNoEsPago DEF CanceladoSinDineroAplicado
  <2> QED
    BY <1>1, <1>2, <2>2, PeticionEnOrden DEF CobroVigente, CancelacionExacta, Libre
<1>6. CASE l.pago \in IdPago
  <2>1. PICK i \in IdPago : i = l.pago /\ i # NADIE
    BY <1>6, NadieNoEsPago
  <2>2. pagos[i].estado = l.est /\ pagos[i] \in Pagos
    BY <1>2, <1>3, <2>1 DEF CancelacionExacta, TypeOK
  <2>3. \E p : Escribe(i, p) /\ p.estado # "APLICADO"
    <3>1. CASE l.est = "EN_REVISION"
      BY <1>1, <2>1, <2>2, <3>1 DEF CancelaTermina, Marca, Pagos
    <3>2. CASE l.est # "EN_REVISION"
      <4>1. PICK e : e = (IF l.est = "PENDIENTE" THEN "CANCELADO" ELSE "REEMBOLSO_PENDIENTE")
        OBVIOUS
      <4>2. Escribe(i, [pagos[i] EXCEPT !.estado = e])
        BY <1>1, <2>1, <2>2, <3>2, <4>1 DEF CancelaTermina, Mueve
      <4> QED
        BY <2>2, <4>1, <4>2 DEF Pagos
    <3> QED
      BY <3>1, <3>2
  <2>4. \A j \in IdPago : pagos'[j].estado # "APLICADO"
    BY <1>2, <1>4, <2>1, <2>3 DEF Escribe, TypeOK
  <2>5. CanceladoSinDineroAplicado'
    BY <2>4 DEF CanceladoSinDineroAplicado
  <2> QED
    BY <1>1, <1>2, <2>5, PeticionEnOrden DEF CobroVigente, CancelacionExacta, Libre
<1> QED
  BY <1>5, <1>6 DEF Lecturas

LEMMA PasoEnOrden ==
    ASSUME IInv, EnOrden, ~Coinciden', [Next]_vars
    PROVE  EnOrden'
<1>1. CASE DelPedido
  BY <1>1, DelPedidoEnOrden
<1>2. ASSUME NEW i \in IdPago, DeTesoreria(i)
      PROVE  EnOrden'
  BY <1>2, TesoreriaEnOrden
<1>3. ASSUME NEW r \in Peticiones, DePeticion(r)
      PROVE  EnOrden'
  BY <1>3, LecturasEnOrden, CobroEnOrden, EscriturasEnOrden, CancelaEmpiezaEnOrden,
     CancelaTerminaEnOrden
  DEF DePeticion
<1>4. CASE UNCHANGED vars
  BY <1>4 DEF vars, EnOrden, Coinciden, CanceladoSinDineroAplicado, CobroVigente,
              CancelacionExacta
<1> QED
  BY <1>1, <1>2, <1>3, <1>4 DEF Next

\* No transfer stays applied to an order that was cancelled, as long as no two
\* requests have overlapped: the cancellation gives back what it finds applied,
\* and nothing is applied later (resolverPagoAlCancelarse).
THEOREM DineroDevuelto == MCSpec => []CanceladoSinDineroAplicadoEnOrden
<1>1. MCInit => MCInv
  <2> SUFFICES ASSUME MCInit PROVE MCInv
    OBVIOUS
  <2>1. IInv
    BY InitIInv DEF MCInit
  <2>2. EnOrden
    BY DEF MCInit, Init, EnOrden, Coinciden, CanceladoSinDineroAplicado, CobroVigente,
           CancelacionExacta, Libre
  <2> QED
    BY <2>1, <2>2 DEF MCInv
<1>2. MCInv /\ [MCNext]_varsMC => MCInv'
  <2> SUFFICES ASSUME MCInv, [MCNext]_varsMC PROVE MCInv'
    OBVIOUS
  <2>1. [Next]_vars
    BY DEF MCNext, varsMC
  <2>2. IInv'
    BY <2>1, NextLegal DEF MCInv, Legal
  <2>3. ASSUME ~solapo' PROVE EnOrden'
    <3>1. CASE MCNext
      <4>1. solapo' = (solapo \/ Coinciden')
        BY <3>1 DEF MCNext
      <4>2. ~solapo /\ ~Coinciden'
        BY <2>3, <4>1, Zenon
      <4> QED
        BY <2>1, <4>2, PasoEnOrden DEF MCInv
    <3>2. CASE UNCHANGED varsMC
      <4>1. EnOrden /\ IInv
        BY <2>3, <3>2 DEF MCInv, varsMC
      <4>2. ~Coinciden'
        BY <3>2, <4>1 DEF varsMC, vars, EnOrden, Coinciden
      <4> QED
        BY <2>1, <4>1, <4>2, PasoEnOrden
    <3> QED
      BY <3>1, <3>2
  <2> QED
    BY <2>2, <2>3 DEF MCInv
<1>3. MCInv => CanceladoSinDineroAplicadoEnOrden
  BY DEF MCInv, EnOrden, CanceladoSinDineroAplicadoEnOrden
<1> QED
  BY <1>1, <1>2, <1>3, PTL DEF MCSpec
=============================================================================
