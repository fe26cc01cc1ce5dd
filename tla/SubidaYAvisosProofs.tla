------------------------ MODULE SubidaYAvisosProofs -------------------------
(***************************************************************************)
(* Proofs about the way up (MCSubida) and, after it, about the notices     *)
(* (MCAvisos), which share nothing with it.                                *)
(*                                                                         *)
(* The way up, for any number of stores, notices, faults and attempts, and *)
(* for a batch of any size.  What the cloud has decided stays decided, or  *)
(* somebody has asked for it again (SabidoSigue); every event of the batch *)
(* that has been processed is decided or is among the failed ones          *)
(* (ProcesadosSabidos).  From the time they are read to the answer of      *)
(* their batch, the notices that the checkpoint of a store would pass over *)
(* are on their way to that store (BandejaEnCamino), and so are the rows   *)
(* of the page (PaginaEnCamino).                                           *)
(*                                                                         *)
(* The notices, for any number of tablets, kiosks, orders, processes and   *)
(* requests.  A kiosk the worker remembers has been alerted of since its   *)
(* last heartbeat, unless that heartbeat came after the last good tick     *)
(* (AvisadasEnRegla).  The pairing a tablet polls was asked for when it    *)
(* kept the one it keeps (VinculosEnRegla).  The column of the reminder    *)
(* says that it went in this wait (RecordadoUnaVez).  A side has read no   *)
(* further than what it has seen, and the rest came after (LeidoEnRegla);  *)
(* only who wrote the row of the mail sends it (CorreoEnRegla).            *)
(***************************************************************************)
EXTENDS MCSubida, MCAvisos, FiniteSetTheorems, WellFoundedInduction, NaturalsInduction,
        SequenceTheorems, TLAPS

\* The cloud has finished with an event, or had until somebody asked for it again.
Sabido(id) == EsTerminal(id) \/ id \in repetidos

IdsDe(n)  == {<<"BANDEJA", n, s>> : s \in {"CON_TIENDA", "SIN_TIENDA"}}
BootDe(f) == <<"BOOT", f, "CON_TIENDA">>

\* The state, as far as the rest needs it.
EsLote(f) == \A n \in DOMAIN f : f[n].eventId \in EventIds
EsAgente(a) ==
    /\ a = [paso |-> a.paso, sube |-> a.sube, porSubir |-> a.porSubir, hasta |-> a.hasta]
    /\ EsLote(a.porSubir)
    /\ a.hasta \in 0..Len(bandeja)
EsPeticion(p) ==
    /\ p = [origen |-> p.origen, eventos |-> p.eventos, quedan |-> p.quedan,
            fallidos |-> p.fallidos]
    /\ EsLote(p.eventos)

Tipos ==
    /\ DOMAIN erp = Filas
    /\ bandeja \in Seq(Filas) /\ Len(bandeja) <= MAX_BANDEJA
    /\ checkpoints \in [Tiendas -> 0..Len(bandeja)]
    /\ bootstrap \in [fase : 1..3, desdeCero : BOOLEAN]
    /\ \A x \in outbox : x.evento.eventId \in EventIds
    /\ EsAgente(agente)
    /\ EsPeticion(peticion)
    /\ inbox \in [EventIds -> [estado : Estados, intentos : Nat, espera : BOOLEAN]]

\* The request under way, if its agent is there, is what the agent waits for.
PeticionDelAgente ==
    peticion.origen \in Origenes =>
        /\ agente.sube /\ agente.paso = peticion.origen
        /\ ~NadaPorSubir
        /\ peticion.eventos = LoteActual

ProcesadosSabidos ==
    \A n \in DOMAIN peticion.eventos \ peticion.quedan :
        \/ peticion.eventos[n].eventId \in peticion.fallidos
        \/ Sabido(peticion.eventos[n].eventId)

ConAvance == ~bootstrap.desdeCero => \A t \in Tiendas : checkpoints[t] # 0

\* What is to be uploaded of the queue.  If there is an event for a store, the
\* notices of that store are resolved or they are there, for that same store.
EnCamino(n) ==
    /\ n \in DOMAIN agente.porSubir
    /\ agente.porSubir[n].destino = TiendaDe(bandeja[n])
    /\ agente.porSubir[n].eventId \in IdsDe(n)

BandejaEnCamino ==
    (agente.sube /\ agente.paso = "BANDEJA" /\ ~bootstrap.desdeCero) =>
        /\ DOMAIN agente.porSubir \subseteq Nat
        /\ \A n \in DOMAIN bandeja, i \in DOMAIN agente.porSubir :
              (n <= agente.hasta /\ TiendaDe(bandeja[n]) = agente.porSubir[i].destino)
                 => Resuelto(n) \/ EnCamino(n)

\* A row of the first load is where CargaCompleta says.
Cargada(f) ==
    \/ erp[f] = NO_EXISTE \/ Sabido(BootDe(f))
    \/ BootDe(f) \in EventIdsEnOutbox \cup purgados

FasesCargadas ==
    \A i \in 1..2 : i < bootstrap.fase => \A f \in FASES_BOOTSTRAP[i] : Cargada(f)

EnPagina(f) == \E n \in DOMAIN agente.porSubir : agente.porSubir[n].eventId = BootDe(f)

PaginaEnCamino ==
    (agente.sube /\ agente.paso = "BOOTSTRAP") =>
        /\ bootstrap.fase \in 1..2
        /\ \A f \in FASES_BOOTSTRAP[bootstrap.fase] : Cargada(f) \/ EnPagina(f)

IInv ==
    /\ Tipos /\ PeticionDelAgente /\ ProcesadosSabidos
    /\ ConAvance /\ NadaSeSalta /\ BandejaEnCamino
    /\ FasesCargadas /\ PaginaEnCamino

-----------------------------------------------------------------------------
(* The operators.                                                          *)

\* The smallest of some naturals.
LEMMA ElMenor ==
    ASSUME NEW S, S \subseteq Nat, S # {}
    PROVE  Min(S) \in S /\ \A y \in S : Min(S) <= y
<1>1. PICK i \in S : \A j \in S : ~(j < i)
  <2>1. PICK i \in S : \A j \in S : ~(<<j, i>> \in OpToRel(<, Nat))
    BY NatLessThanWellFounded, WFMin
  <2>2. QED
    BY <2>1 DEF OpToRel
<1>2. \A j \in S : i <= j
  BY <1>1
<1>3. QED
  BY <1>2 DEF Min

LEMMA IdsConocidos ==
    /\ \A n \in 1..MAX_BANDEJA : IdsDe(n) \subseteq EventIds
    /\ \A f \in Filas : BootDe(f) \in EventIds
  BY DEF IdsDe, BootDe, EventIds

LEMMA ResueltoEs ==
    ASSUME NEW n
    PROVE  Resuelto(n) <=> \E id \in IdsDe(n) : Sabido(id)
  BY DEF Resuelto, Decidido, Sabido, IdsDe

\* The smallest checkpoint is that of nobody ahead of it.
LEMMA ElMinimo ==
    ASSUME Tipos
    PROVE  /\ MinimoCheckpoint \in 0..Len(bandeja)
           /\ \A t \in Tiendas : checkpoints[t] # 0 => MinimoCheckpoint <= checkpoints[t]
<1> DEFINE S == {checkpoints[t] : t \in Tiendas} \ {0}
<1>1. S \subseteq 0..Len(bandeja) /\ Len(bandeja) \in Nat
  BY DEF Tipos
<1>2. CASE S = {}
  <2>1. MinimoCheckpoint = 0
    BY <1>2 DEF MinimoCheckpoint
  <2>2. QED
    BY <1>1, <2>1 DEF Tipos
<1>3. CASE S # {}
  <2>1. MinimoCheckpoint = Min(S)
    BY <1>3 DEF MinimoCheckpoint
  <2>2. S \subseteq Nat
    BY <1>1
  <2>3. Min(S) \in S /\ \A y \in S : Min(S) <= y
    BY <1>3, <2>2, ElMenor
  <2>4. QED
    BY <1>1, <2>1, <2>3
<1>4. QED
  BY <1>2, <1>3

-----------------------------------------------------------------------------
(* What every step does.                                                   *)

\* The queue only grows, by its end.
LEMMA BandejaCrece ==
    ASSUME Tipos, [MCNext]_varsMC
    PROVE  /\ Len(bandeja') \in Nat /\ Len(bandeja) <= Len(bandeja')
           /\ bandeja' \in Seq(Filas) /\ Len(bandeja') <= MAX_BANDEJA
           /\ DOMAIN erp' = Filas
           /\ \A n \in 1..Len(bandeja) : bandeja'[n] = bandeja[n]
           /\ \A f \in Filas : erp[f] = NO_EXISTE => erp'[f] = NO_EXISTE
<1> USE SubidaAssumption
<1>1. CASE UNCHANGED <<erp, bandeja>>
  BY <1>1 DEF Tipos
<1>2. CASE \E f \in Filas : CambiaEnElErp(f)
  BY <1>2 DEF Tipos, CambiaEnElErp
<1>3. \/ UNCHANGED <<erp, bandeja>>
      \/ \E f \in Filas : CambiaEnElErp(f)
  BY DEF MCNext, Next, varsMC, vars, PasoDelAgente, PasoDeLaNube, LeePagina, TerminaPagina,
         LeeOutbox, TerminaOutbox, Colecta, TerminaCiclo, Sube, NoSube, ProcesaEvento, Responde,
         RespuestaPerdida, TerminaHuerfana, CaeLaNube, CaeElAgente, Purga, Repite,
         VenceEnLaNube, VenceEnOutbox
<1>4. QED
  BY <1>1, <1>2, <1>3

\* A step of the inbox: a result over what was not decided, a retry, or time.
LEMMA PasoDelInbox ==
    ASSUME [MCNext]_varsMC
    PROVE  \/ inbox' = inbox
           \/ \E id, r : ~EsTerminal(id) /\ inbox' = [inbox EXCEPT ![id] = r]
           \/ \E id \in EventIds : Repite(id)
           \/ VenceEnLaNube
<1>1. CASE ProcesaEvento
  BY <1>1 DEF ProcesaEvento
<1>2. CASE CaeLaNube
  BY <1>2 DEF CaeLaNube
<1>3. CASE UNCHANGED inbox
  BY <1>3
<1>4. \/ ProcesaEvento \/ CaeLaNube \/ VenceEnLaNube \/ \E id \in EventIds : Repite(id)
      \/ UNCHANGED inbox
  BY DEF MCNext, Next, varsMC, vars, nube, PasoDelAgente, PasoDeLaNube, LeePagina, TerminaPagina,
         LeeOutbox, TerminaOutbox, Colecta, TerminaCiclo, Sube, NoSube, Responde, CambiaEnElErp,
         RespuestaPerdida, TerminaHuerfana, CaeElAgente, Purga, VenceEnOutbox
<1>5. QED
  BY <1>1, <1>2, <1>3, <1>4

\* What the cloud has finished with stays so, or somebody asks for it again.
LEMMA SabidoSigue ==
    ASSUME Tipos, [MCNext]_varsMC, NEW id \in EventIds, Sabido(id)
    PROVE  Sabido(id)'
<1>1. repetidos \subseteq repetidos'
  BY DEF MCNext, Historia, varsMC
<1>2. CASE id \in repetidos
  BY <1>1, <1>2 DEF Sabido
<1>3. CASE EsTerminal(id)
  <2>1. CASE inbox' = inbox
    BY <1>3, <2>1 DEF Sabido, EsTerminal
  <2>2. CASE \E i, r : ~EsTerminal(i) /\ inbox' = [inbox EXCEPT ![i] = r]
    BY <1>3, <2>2 DEF Sabido, EsTerminal, Tipos
  <2>3. CASE \E i \in EventIds : Repite(i)
    <3>1. PICK i \in EventIds : Repite(i)
      BY <2>3
    <3>2. inbox' = [inbox EXCEPT ![i] = EnInbox("ERROR", 0, FALSE)]
      BY <3>1 DEF Repite
    <3>3. CASE i = id
      <4>1. inbox'[id].estado = "ERROR" /\ inbox'[id].intentos = 0
        BY <3>2, <3>3 DEF EnInbox, Tipos
      <4>2. inbox' # inbox
        BY <1>3, <4>1 DEF EsTerminal
      <4>3. Historia
        BY <4>2 DEF MCNext, varsMC, vars, nube
      <4>4. QED
        BY <4>1, <4>3 DEF Historia, Sabido
    <3>4. CASE i # id
      BY <1>3, <3>2, <3>4 DEF Sabido, EsTerminal, Tipos
    <3>5. QED
      BY <3>3, <3>4
  <2>4. CASE VenceEnLaNube
    BY <1>3, <2>4 DEF VenceEnLaNube, Sabido, EsTerminal, Tipos
  <2>5. QED
    BY <2>1, <2>2, <2>3, <2>4, PasoDelInbox
<1>4. QED
  BY <1>2, <1>3 DEF Sabido

LEMMA ResueltoSigue ==
    ASSUME Tipos, [MCNext]_varsMC, NEW n \in 1..MAX_BANDEJA, Resuelto(n)
    PROVE  Resuelto(n)'
<1>1. PICK id \in IdsDe(n) : Sabido(id)
  BY ResueltoEs
<1>2. id \in EventIds
  BY IdsConocidos
<1>3. Sabido(id)'
  BY <1>1, <1>2, SabidoSigue
<1>4. QED
  BY <1>3 DEF Resuelto, Decidido, Sabido, IdsDe

-----------------------------------------------------------------------------
(* The outbox.                                                             *)

LEMMA LotesSonLotes ==
    ASSUME EsLote(agente.porSubir)
    PROVE  /\ EsLote(LoteActual) /\ EsLote(LotesQueSiguen)
           /\ DOMAIN LoteActual \subseteq DOMAIN agente.porSubir
           /\ \A n \in DOMAIN LoteActual : LoteActual[n] = agente.porSubir[n]
  BY DEF EsLote, LoteActual, LotesQueSiguen, Restrict, DelDestino

LEMMA EntradaLleva ==
    ASSUME NEW id, NEW e, NEW espera
    PROVE  Entrada(id, e, espera).evento = e
  BY DEF Entrada

\* Two states of the outbox with the same events.
LEMMA MismosEventos ==
    ASSUME Tipos,
           \A x \in outbox' : \E y \in outbox : x.evento = y.evento,
           \A y \in outbox : \E x \in outbox' : x.evento = y.evento
    PROVE  /\ \A x \in outbox' : x.evento.eventId \in EventIds
           /\ EventIdsEnOutbox \subseteq EventIdsEnOutbox'
<1>1. ASSUME NEW id \in EventIdsEnOutbox
      PROVE  id \in EventIdsEnOutbox'
  <2>1. PICK y \in outbox : id = y.evento.eventId
    BY DEF EventIdsEnOutbox
  <2>2. PICK x \in outbox' : x.evento = y.evento
    OBVIOUS
  <2>3. QED
    BY <2>1, <2>2 DEF EventIdsEnOutbox
<1>2. ASSUME NEW x \in outbox'
      PROVE  x.evento.eventId \in EventIds
  <2>1. PICK y \in outbox : x.evento = y.evento
    OBVIOUS
  <2>2. QED
    BY <2>1 DEF Tipos
<1>3. QED
  BY <1>1, <1>2

LEMMA AplazadoConserva ==
    ASSUME Tipos, NEW lote, outbox' = Aplazado(lote)
    PROVE  /\ \A x \in outbox' : x.evento.eventId \in EventIds
           /\ EventIdsEnOutbox \subseteq EventIdsEnOutbox'
<1>1. ASSUME NEW x \in outbox'
      PROVE  \E y \in outbox : x.evento = y.evento
  <2>1. PICK y \in outbox : x = Entrada(y.id, y.evento, y.espera \/ EnLote(y, lote))
    BY DEF Aplazado
  <2>2. QED
    BY <2>1, EntradaLleva
<1>2. ASSUME NEW y \in outbox
      PROVE  \E x \in outbox' : x.evento = y.evento
  <2>1. Entrada(y.id, y.evento, y.espera \/ EnLote(y, lote)) \in outbox'
    BY DEF Aplazado
  <2>2. QED
    BY <2>1, EntradaLleva
<1>3. QED
  BY <1>1, <1>2, MismosEventos

LEMMA EncolaAgrega ==
    ASSUME Tipos, NEW lote, EsLote(lote), outbox' = Encola(lote)
    PROVE  /\ \A x \in outbox' : x.evento.eventId \in EventIds
           /\ EventIdsEnOutbox \subseteq EventIdsEnOutbox'
           /\ \A n \in DOMAIN lote : lote[n].eventId \in EventIdsEnOutbox'
<1> DEFINE fila(n) == Entrada(UltimoId + Cardinality({m \in DOMAIN lote : m <= n}),
                              lote[n], FALSE)
<1>1. ASSUME NEW n \in DOMAIN lote
      PROVE  fila(n) \in outbox' /\ fila(n).evento = lote[n]
  <2>1. fila(n) \in outbox'
    BY DEF Encola
  <2>2. QED
    BY <2>1, EntradaLleva
<1>2. \A x \in outbox' : x \in outbox \/ \E n \in DOMAIN lote : x = fila(n)
  BY DEF Encola
<1>3. outbox \subseteq outbox'
  BY DEF Encola
<1> HIDE DEF fila
<1>4. \A x \in outbox' : x.evento.eventId \in EventIds
  BY <1>1, <1>2 DEF Tipos, EsLote
<1>5. QED
  BY <1>1, <1>3, <1>4 DEF EventIdsEnOutbox

LEMMA TrasFalloOutbox ==
    ASSUME Tipos, NEW o, NEW lote, NEW tr, EsLote(lote), TrasFallo(o, lote, tr)
    PROVE  /\ \A x \in outbox' : x.evento.eventId \in EventIds
           /\ EventIdsEnOutbox \subseteq EventIdsEnOutbox'
<1>1. outbox' \in {Aplazado(lote), Encola(lote), outbox}
  BY DEF TrasFallo
<1>2. CASE outbox' = outbox
  BY <1>2 DEF Tipos, EventIdsEnOutbox
<1>3. CASE outbox' = Aplazado(lote)
  BY <1>3, AplazadoConserva
<1>4. CASE outbox' = Encola(lote)
  BY <1>4, EncolaAgrega
<1>5. QED
  BY <1>1, <1>2, <1>3, <1>4

LEMMA VenceConserva ==
    ASSUME Tipos, VenceEnOutbox
    PROVE  /\ \A x \in outbox' : x.evento.eventId \in EventIds
           /\ EventIdsEnOutbox \subseteq EventIdsEnOutbox'
<1>1. PICK x \in outbox : outbox' = (outbox \ {x}) \cup {Entrada(x.id, x.evento, FALSE)}
  BY DEF VenceEnOutbox
<1> DEFINE z == Entrada(x.id, x.evento, FALSE)
<1>2. z.evento = x.evento
  BY EntradaLleva
<1>3. z \in outbox' /\ \A y \in outbox' : y \in outbox \/ y = z
  BY <1>1
<1>4. \A y \in outbox : y = x \/ y \in outbox'
  BY <1>1
<1> HIDE DEF z
<1>5. QED
  BY <1>2, <1>3, <1>4, MismosEventos

\* A row of the outbox is there after any step but the answer to its batch, or
\* it was purged; when the answer takes it away, the cloud knows the event.
LEMMA EnOutboxSigue ==
    ASSUME IInv, [MCNext]_varsMC, NEW id \in EventIds, id \in EventIdsEnOutbox
    PROVE  id \in EventIdsEnOutbox' \cup purgados' \/ Sabido(id)'
<1>1. CASE UNCHANGED outbox
  BY <1>1 DEF EventIdsEnOutbox
<1>2. CASE peticion.origen # "OUTBOX" /\ Historia
  BY <1>2 DEF Historia
<1>3. CASE peticion.origen = "OUTBOX" /\ MCNext
  <2> USE <1>3
  <2>1. agente.sube /\ peticion.eventos = LoteActual /\ peticion # SinPeticion
    BY DEF IInv, PeticionDelAgente, Origenes, SinPeticion
  <2>2. EsLote(peticion.eventos)
    BY DEF IInv, Tipos, EsPeticion
  <2>3. CASE RespuestaPerdida \/ CaeLaNube
    BY <2>2, <2>3, TrasFalloOutbox DEF RespuestaPerdida, CaeLaNube, IInv
  <2>4. CASE VenceEnOutbox
    BY <2>4, VenceConserva DEF IInv
  <2>5. CASE Purga
    BY <2>1, <2>5 DEF Purga, Agente
  <2>6. CASE \E i \in Incidentes : NoSube(i)
    BY <2>1, <2>6 DEF NoSube, PuedeSubir
  <2>7. CASE Responde
    <3>1. TrasRespuesta("OUTBOX", peticion.eventos, peticion.fallidos) /\ peticion.quedan = {}
      BY <2>7 DEF Responde
    <3>2. CASE peticion.fallidos # {}
      <4>1. outbox' = Aplazado(peticion.eventos)
        BY <3>1, <3>2 DEF TrasRespuesta
      <4>2. QED
        BY <4>1, AplazadoConserva DEF IInv
    <3>3. CASE peticion.fallidos = {}
      <4>1. outbox' = {x \in outbox : ~EnLote(x, peticion.eventos)}
        BY <3>1, <3>3 DEF TrasRespuesta
      <4>2. PICK x \in outbox : x.evento.eventId = id
        BY DEF EventIdsEnOutbox
      <4>3. CASE EnLote(x, peticion.eventos)
        <5>1. Sabido(id)
          BY <3>1, <3>3, <4>2, <4>3 DEF IInv, ProcesadosSabidos, EnLote
        <5>2. QED
          BY <5>1, SabidoSigue DEF IInv
      <4>4. CASE ~EnLote(x, peticion.eventos)
        BY <4>1, <4>2, <4>4 DEF EventIdsEnOutbox
      <4>5. QED
        BY <4>3, <4>4
    <3>4. QED
      BY <3>2, <3>3
  <2>8. \/ RespuestaPerdida \/ CaeLaNube \/ VenceEnOutbox \/ Purga \/ Responde
        \/ \E i \in Incidentes : NoSube(i)
        \/ UNCHANGED outbox
    BY DEF MCNext, Next, sqlite, PasoDelAgente, PasoDeLaNube, LeePagina, TerminaPagina,
           LeeOutbox, TerminaOutbox, Colecta, TerminaCiclo, Sube, CambiaEnElErp, ProcesaEvento,
           TerminaHuerfana, CaeElAgente, Repite, VenceEnLaNube
  <2>9. QED
    BY <1>1, <2>3, <2>4, <2>5, <2>6, <2>7, <2>8
<1>4. QED
  BY <1>1, <1>2, <1>3 DEF MCNext, varsMC, vars, sqlite

LEMMA CargadaSigue ==
    ASSUME IInv, [MCNext]_varsMC, NEW f \in Filas, Cargada(f)
    PROVE  Cargada(f)'
<1>1. BootDe(f) \in EventIds /\ Tipos /\ BootDe(f)' = BootDe(f)
  BY IdsConocidos DEF IInv, BootDe
<1>2. CASE erp[f] = NO_EXISTE
  BY <1>1, <1>2, BandejaCrece DEF Cargada, NO_EXISTE
<1>3. CASE Sabido(BootDe(f))
  BY <1>1, <1>3, SabidoSigue DEF Cargada, BootDe
<1>4. CASE BootDe(f) \in EventIdsEnOutbox
  <2>1. BootDe(f) \in EventIdsEnOutbox' \cup purgados' \/ Sabido(BootDe(f))'
    BY <1>1, <1>4, EnOutboxSigue
  <2>2. QED
    BY <2>1 DEF Cargada, BootDe
<1>5. CASE BootDe(f) \in purgados
  <2>1. purgados \subseteq purgados'
    BY DEF MCNext, Historia, varsMC
  <2>2. QED
    BY <1>1, <1>5, <2>1 DEF Cargada
<1>6. QED
  BY <1>2, <1>3, <1>4, <1>5 DEF Cargada

-----------------------------------------------------------------------------
(* The agent and the request.                                              *)

\* What a step may do to the memory of the agent.
LEMMA PasoDelAgenteEs ==
    ASSUME [MCNext]_varsMC
    PROVE  \/ agente' = agente
           \/ LeePagina \/ LeeOutbox \/ Colecta
           \/ \E p \in Origenes : agente' = Agente(p)
           \/ agente' = [agente EXCEPT !.porSubir = LotesQueSiguen] /\ UNCHANGED bootstrap
<1>1. CASE LeePagina \/ LeeOutbox \/ Colecta \/ agente' = agente
  BY <1>1
<1>2. CASE TerminaPagina \/ TerminaOutbox \/ TerminaCiclo \/ CaeElAgente
  BY <1>2 DEF TerminaPagina, TerminaOutbox, TerminaCiclo, CaeElAgente, InicioDeCiclo, Origenes
<1>3. ASSUME NEW o, NEW lote, NEW tr, TrasFallo(o, lote, tr), UNCHANGED bootstrap
      PROVE  \/ \E p \in Origenes : agente' = Agente(p)
             \/ agente' = [agente EXCEPT !.porSubir = LotesQueSiguen] /\ UNCHANGED bootstrap
  BY <1>3 DEF TrasFallo, Origenes
<1>4. CASE RespuestaPerdida \/ CaeLaNube \/ \E i \in Incidentes : NoSube(i)
  BY <1>3, <1>4 DEF RespuestaPerdida, CaeLaNube, NoSube
<1>5. CASE Responde
  BY <1>5 DEF Responde, TrasRespuesta
<1>6. QED
  BY <1>1, <1>2, <1>4, <1>5
     DEF MCNext, Next, varsMC, vars, PasoDelAgente, PasoDeLaNube, Sube, ProcesaEvento,
         CambiaEnElErp, TerminaHuerfana, Purga, Repite, VenceEnLaNube, VenceEnOutbox

LEMMA AgenteSinNada ==
    ASSUME Tipos, [MCNext]_varsMC, NEW p \in Origenes
    PROVE  EsAgente(Agente(p))'
<1>1. Agente(p) = [paso |-> p, sube |-> FALSE, porSubir |-> <<>>, hasta |-> 0]
  BY DEF Agente
<1>2. EsLote(<<>>)
  BY DEF EsLote
<1>3. 0 \in 0..Len(bandeja')
  BY BandejaCrece
<1>4. QED
  BY <1>1, <1>2, <1>3 DEF EsAgente, EsLote, Agente

\* Events that have just been read.
LEMMA LeidosSonLote ==
    ASSUME Tipos, [MCNext]_varsMC, LeePagina \/ LeeOutbox \/ Colecta
    PROVE  EsAgente(agente)'
<1>0. Len(bandeja) \in Nat /\ Len(bandeja') \in Nat /\ Len(bandeja) <= Len(bandeja')
  BY BandejaCrece DEF Tipos
<1>1. ASSUME NEW o, NEW l, NEW h \in 0..Len(bandeja), EsLote(l), agente' = ASubir(o, l, h)
      PROVE  EsAgente(agente)'
  BY <1>0, <1>1 DEF ASubir, EsAgente, EsLote
<1>2. CASE LeePagina
  <2>1. PICK s \in Ordenes({f \in FASES_BOOTSTRAP[bootstrap.fase] : erp[f] # NO_EXISTE}) :
             agente' = ASubir("BOOTSTRAP", [i \in DOMAIN s |-> EventoDeBootstrap(s[i])], 0)
    BY <1>2 DEF LeePagina
  <2>2. bootstrap.fase \in 1..2
    BY <1>2 DEF LeePagina, Tipos
  <2>3. FASES_BOOTSTRAP[bootstrap.fase] \subseteq Filas
    BY <2>2 DEF FASES_BOOTSTRAP, Filas
  <2>4. \A i \in DOMAIN s : s[i] \in Filas
    BY <2>3 DEF Ordenes
  <2>5. EsLote([i \in DOMAIN s |-> EventoDeBootstrap(s[i])])
    BY <2>4, IdsConocidos DEF EsLote, EventoDeBootstrap, BootDe
  <2>6. QED
    BY <1>0, <1>1, <2>1, <2>5
<1>3. CASE LeeOutbox
  <2> DEFINE lote == Primeras(Vencidas)
             evento(n) == (CHOOSE x \in lote : x.id = n).evento
             l == [n \in {x.id : x \in lote} |-> evento(n)]
  <2>1. agente' = Agente("BANDEJA") \/ agente' = ASubir("OUTBOX", l, 0)
    BY <1>3 DEF LeeOutbox
  <2>2. \A x \in lote : x.evento.eventId \in EventIds
    BY DEF Primeras, Vencidas, Tipos
  <2>3. EsLote(l)
    <3>1. ASSUME NEW n \in DOMAIN l PROVE (CHOOSE x \in lote : x.id = n) \in lote
      <4>1. \E x \in lote : x.id = n
        OBVIOUS
      <4> HIDE DEF lote
      <4>2. QED
        BY <4>1
    <3>2. QED
      BY <2>2, <3>1 DEF EsLote
  <2> HIDE DEF l
  <2>4. QED
    BY <1>0, <1>1, <2>1, <2>3, AgenteSinNada DEF Origenes
<1>4. CASE Colecta
  <2> DEFINE desde == MinimoCheckpoint
             hasta == Menor(desde + LOTE, Len(bandeja))
             l == [n \in (desde + 1)..hasta |-> EventoDeBandeja(n)]
  <2>1. \/ agente' = Agente(InicioDeCiclo(bootstrap.fase))
        \/ agente' = ASubir("BANDEJA", l, hasta)
    BY <1>4 DEF Colecta
  <2>2. desde \in 0..Len(bandeja) /\ LOTE \in Nat
    BY ElMinimo, SubidaAssumption
  <2>3. hasta \in 0..Len(bandeja)
    BY <1>0, <2>2 DEF Menor
  <2>4. \A n \in (desde + 1)..hasta : n \in 1..MAX_BANDEJA
    BY <1>0, <2>2, <2>3, SubidaAssumption DEF Tipos
  <2>5. EsLote(l)
    BY <2>4, IdsConocidos DEF EsLote, EventoDeBandeja, IdsDe
  <2> HIDE DEF l, hasta
  <2>6. CASE agente' = Agente(InicioDeCiclo(bootstrap.fase))
    BY <2>6, AgenteSinNada DEF InicioDeCiclo, Origenes
  <2>7. QED
    BY <1>1, <2>1, <2>3, <2>5, <2>6
<1>5. QED
  BY <1>2, <1>3, <1>4

LEMMA AgenteSigue ==
    ASSUME Tipos, [MCNext]_varsMC
    PROVE  EsAgente(agente)'
<1>0. Len(bandeja) \in Nat /\ Len(bandeja') \in Nat /\ Len(bandeja) <= Len(bandeja')
  BY BandejaCrece DEF Tipos
<1>1. CASE agente' = agente
  BY <1>0, <1>1 DEF Tipos, EsAgente, EsLote
<1>2. CASE agente' = [agente EXCEPT !.porSubir = LotesQueSiguen]
  <2>1. EsLote(LotesQueSiguen)
    BY LotesSonLotes DEF Tipos, EsAgente
  <2>2. QED
    BY <1>0, <1>2, <2>1 DEF Tipos, EsAgente, EsLote
<1>3. CASE \E p \in Origenes : agente' = Agente(p)
  BY <1>3, AgenteSinNada
<1>4. QED
  BY <1>1, <1>2, <1>3, PasoDelAgenteEs, LeidosSonLote

\* What a step may do to the request under way.
LEMMA PeticionSigue ==
    ASSUME Tipos, [MCNext]_varsMC
    PROVE  EsPeticion(peticion)'
<1>1. CASE peticion' = peticion
  BY <1>1 DEF Tipos, EsPeticion, EsLote
<1>2. CASE peticion' = SinPeticion
  BY <1>2 DEF SinPeticion, EsPeticion, EsLote
<1>3. CASE Sube
  <2>1. EsLote(LoteActual)
    BY LotesSonLotes DEF Tipos, EsAgente
  <2>2. QED
    BY <1>3, <2>1 DEF Sube, EsPeticion, EsLote
<1>4. CASE ProcesaEvento
  <2>1. \E q, f : peticion' = [peticion EXCEPT !.quedan = q, !.fallidos = f]
    BY <1>4 DEF ProcesaEvento
  <2>2. QED
    BY <2>1 DEF Tipos, EsPeticion, EsLote
<1>5. CASE peticion' = [peticion EXCEPT !.origen = "HUERFANA"]
  BY <1>5 DEF Tipos, EsPeticion, EsLote
<1>6. QED
  BY <1>1, <1>2, <1>3, <1>4, <1>5
     DEF MCNext, Next, varsMC, vars, PasoDelAgente, PasoDeLaNube, LeePagina, TerminaPagina,
         LeeOutbox, TerminaOutbox, Colecta, TerminaCiclo, NoSube, Responde, CambiaEnElErp,
         RespuestaPerdida, TerminaHuerfana, CaeLaNube, CaeElAgente, Purga, Repite,
         VenceEnLaNube, VenceEnOutbox

LEMMA InboxSigue ==
    ASSUME Tipos, [MCNext]_varsMC
    PROVE  inbox' \in [EventIds -> [estado : Estados, intentos : Nat, espera : BOOLEAN]]
<1> DEFINE R == [estado : Estados, intentos : Nat, espera : BOOLEAN]
<1>0. ASSUME NEW id, NEW r \in R, inbox' = [inbox EXCEPT ![id] = r]
      PROVE  inbox' \in [EventIds -> R]
  BY <1>0 DEF Tipos
<1>1. ASSUME NEW e \in Estados, NEW n \in Nat, NEW b \in BOOLEAN
      PROVE  EnInbox(e, n, b) \in R
  BY DEF EnInbox
<1> HIDE DEF R
<1>2. CASE inbox' = inbox
  BY <1>2 DEF Tipos, R
<1>3. CASE ProcesaEvento
  <2> DEFINE id == peticion.eventos[Min(peticion.quedan)].eventId
  <2>1. CASE UNCHANGED inbox
    BY <2>1 DEF Tipos, R
  <2>2. CASE inbox' # inbox
    <3>1. PICK ok \in BOOLEAN : inbox' = [inbox EXCEPT ![id] = Resultado(id, ok)]
      BY <1>3, <2>2 DEF ProcesaEvento
    <3>2. CASE id \notin EventIds
      BY <2>2, <3>1, <3>2 DEF Tipos
    <3>3. CASE id \in EventIds
      <4>1. inbox[id].intentos + 1 \in Nat /\ REINTENTOS_MAXIMOS \in Nat
        BY <3>3, SubidaAssumption DEF Tipos
      <4>2. Resultado(id, ok) \in R
        BY <1>1, <4>1 DEF Resultado, Estados
      <4>3. QED
        BY <1>0, <3>1, <4>2 DEF R
    <3>4. QED
      BY <3>2, <3>3
  <2>3. QED
    BY <2>1, <2>2
<1>4. CASE CaeLaNube
  <2> DEFINE id == peticion.eventos[Min(peticion.quedan)].eventId
  <2>1. inbox' = [inbox EXCEPT ![id] = EnInbox("PROCESANDO", inbox[id].intentos, FALSE)]
    BY <1>4 DEF CaeLaNube
  <2>2. CASE id \notin EventIds
    BY <2>1, <2>2 DEF Tipos, R
  <2>3. CASE id \in EventIds
    <3>1. EnInbox("PROCESANDO", inbox[id].intentos, FALSE) \in R
      BY <1>1, <2>3 DEF Tipos, Estados
    <3>2. QED
      BY <1>0, <2>1, <3>1 DEF R
  <2>4. QED
    BY <2>2, <2>3
<1>5. CASE \E id \in EventIds : Repite(id)
  <2>1. EnInbox("ERROR", 0, FALSE) \in R
    BY <1>1 DEF Estados
  <2>2. QED
    BY <1>0, <1>5, <2>1 DEF Repite, R
<1>6. CASE VenceEnLaNube
  BY <1>6 DEF VenceEnLaNube, Tipos, R
<1>7. QED
  BY <1>2, <1>3, <1>4, <1>5, <1>6
     DEF MCNext, Next, varsMC, vars, nube, PasoDelAgente, PasoDeLaNube, LeePagina,
         TerminaPagina, LeeOutbox, TerminaOutbox, Colecta, TerminaCiclo, Sube, NoSube, Responde,
         CambiaEnElErp, RespuestaPerdida, TerminaHuerfana, CaeElAgente, Purga, VenceEnOutbox, R

LEMMA OutboxSigue ==
    ASSUME Tipos, [MCNext]_varsMC
    PROVE  \A x \in outbox' : x.evento.eventId \in EventIds
<1>0. EsLote(peticion.eventos) /\ EsLote(LoteActual)
  BY LotesSonLotes DEF Tipos, EsAgente, EsPeticion
<1>1. CASE outbox' \subseteq outbox
  BY <1>1 DEF Tipos
<1>2. CASE RespuestaPerdida \/ CaeLaNube \/ \E i \in Incidentes : NoSube(i)
  BY <1>0, <1>2, TrasFalloOutbox DEF RespuestaPerdida, CaeLaNube, NoSube
<1>3. CASE VenceEnOutbox
  BY <1>3, VenceConserva
<1>4. CASE Purga
  BY <1>4 DEF Purga, Tipos
<1>5. CASE Responde
  <2> DEFINE fallaron == {n \in DOMAIN peticion.eventos :
                              peticion.eventos[n].eventId \in peticion.fallidos}
             reintenta == Restrict(peticion.eventos, fallaron)
  <2>1. outbox' \in {Encola(reintenta), Aplazado(peticion.eventos), outbox,
                     {x \in outbox : ~EnLote(x, peticion.eventos)}}
    BY <1>5 DEF Responde, TrasRespuesta
  <2>2. EsLote(reintenta)
    BY <1>0 DEF EsLote, Restrict
  <2>3. CASE outbox' = Encola(reintenta)
    BY <2>2, <2>3, EncolaAgrega
  <2>4. CASE outbox' = Aplazado(peticion.eventos)
    BY <2>4, AplazadoConserva
  <2>5. CASE outbox' \subseteq outbox
    BY <2>5 DEF Tipos
  <2>6. QED
    BY <2>1, <2>3, <2>4, <2>5
<1>6. QED
  BY <1>1, <1>2, <1>3, <1>4, <1>5
     DEF MCNext, Next, varsMC, vars, sqlite, PasoDelAgente, PasoDeLaNube, LeePagina,
         TerminaPagina, LeeOutbox, TerminaOutbox, Colecta, TerminaCiclo, Sube, CambiaEnElErp,
         ProcesaEvento, TerminaHuerfana, CaeElAgente, Repite, VenceEnLaNube

\* Checkpoints only grow, and never past the end of the queue.
LEMMA CheckpointsSiguen ==
    ASSUME Tipos, [MCNext]_varsMC
    PROVE  /\ checkpoints' \in [Tiendas -> 0..Len(bandeja')]
           /\ \A t \in Tiendas : checkpoints[t] <= checkpoints'[t]
<1>0. /\ Len(bandeja) \in Nat /\ Len(bandeja') \in Nat /\ Len(bandeja) <= Len(bandeja')
      /\ checkpoints \in [Tiendas -> 0..Len(bandeja)] /\ agente.hasta \in 0..Len(bandeja)
  BY BandejaCrece DEF Tipos, EsAgente
<1>1. CASE checkpoints' = checkpoints
  BY <1>0, <1>1
<1>2. CASE checkpoints' = [checkpoints EXCEPT ![Destino] = Mayor(@, agente.hasta)]
  <2>1. ASSUME NEW t \in Tiendas
        PROVE  checkpoints'[t] \in 0..Len(bandeja) /\ checkpoints[t] <= checkpoints'[t]
    <3>1. checkpoints'[t] \in {checkpoints[t], Mayor(checkpoints[t], agente.hasta)}
      BY <1>0, <1>2
    <3>2. checkpoints[t] \in 0..Len(bandeja)
      BY <1>0
    <3>3. QED
      BY <1>0, <3>1, <3>2 DEF Mayor
  <2>2. DOMAIN checkpoints' = Tiendas /\ checkpoints' = [t \in Tiendas |-> checkpoints'[t]]
    BY <1>0, <1>2
  <2>3. \A t \in Tiendas : checkpoints'[t] \in 0..Len(bandeja')
    BY <1>0, <2>1
  <2>4. QED
    BY <2>1, <2>2, <2>3
<1>3. CASE Responde
  BY <1>1, <1>2, <1>3 DEF Responde, TrasRespuesta
<1>4. QED
  BY <1>1, <1>3
     DEF MCNext, Next, varsMC, vars, sqlite, PasoDelAgente, PasoDeLaNube, LeePagina,
         TerminaPagina, LeeOutbox, TerminaOutbox, Colecta, TerminaCiclo, Sube, CambiaEnElErp,
         ProcesaEvento, TerminaHuerfana, CaeElAgente, Repite, VenceEnLaNube, RespuestaPerdida,
         CaeLaNube, NoSube, VenceEnOutbox, Purga

LEMMA BootstrapSigue ==
    ASSUME IInv, [MCNext]_varsMC
    PROVE  /\ bootstrap' \in [fase : 1..3, desdeCero : BOOLEAN]
           /\ bootstrap'.desdeCero = bootstrap.desdeCero
<1>1. CASE bootstrap' = bootstrap
  BY <1>1 DEF IInv, Tipos
<1>2. CASE TerminaPagina
  <2>1. bootstrap.fase \in 1..2
    BY <1>2 DEF TerminaPagina, Subido, IInv, PaginaEnCamino
  <2>2. QED
    BY <1>2, <2>1 DEF TerminaPagina, IInv, Tipos
<1>3. QED
  BY <1>1, <1>2
     DEF MCNext, Next, varsMC, vars, sqlite, PasoDelAgente, PasoDeLaNube, LeePagina,
         LeeOutbox, TerminaOutbox, Colecta, TerminaCiclo, Sube, CambiaEnElErp, Responde,
         ProcesaEvento, TerminaHuerfana, CaeElAgente, Repite, VenceEnLaNube, RespuestaPerdida,
         CaeLaNube, NoSube, VenceEnOutbox, Purga

LEMMA TiposSiguen ==
    ASSUME IInv, [MCNext]_varsMC
    PROVE  Tipos'
<1>1. Tipos
  BY DEF IInv
<1>2. QED
  BY <1>1, BandejaCrece, CheckpointsSiguen, BootstrapSigue, OutboxSigue, AgenteSigue,
     PeticionSigue, InboxSigue
     DEF Tipos

\* Only the start of an upload, and the results, change the events of a request.
LEMMA EventosDeLaPeticion ==
    ASSUME IInv, [MCNext]_varsMC, peticion'.origen \in Origenes
    PROVE  \/ Sube
           \/ /\ agente' = agente
              /\ peticion'.origen = peticion.origen
              /\ peticion'.eventos = peticion.eventos
<1> USE DEF Origenes, SinPeticion
<1>1. CASE ProcesaEvento
  <2>1. \E q, f : peticion' = [peticion EXCEPT !.quedan = q, !.fallidos = f]
    BY <1>1 DEF ProcesaEvento
  <2>2. QED
    BY <1>1, <2>1 DEF ProcesaEvento, IInv, Tipos, EsPeticion
<1>2. CASE Responde \/ TerminaHuerfana \/ CaeLaNube
  <2>1. peticion' = SinPeticion
    BY <1>2 DEF Responde, TerminaHuerfana, CaeLaNube
  <2>2. QED
    BY <2>1
<1>3. CASE CaeElAgente \/ RespuestaPerdida
  <2>1. CASE CaeElAgente
    BY <2>1 DEF CaeElAgente, IInv, Tipos, EsPeticion
  <2>2. CASE RespuestaPerdida
    <3>1. peticion' = [peticion EXCEPT !.origen = "HUERFANA"]
      BY <2>2 DEF RespuestaPerdida
    <3>2. QED
      BY <3>1 DEF IInv, Tipos, EsPeticion
  <2>3. QED
    BY <1>3, <2>1, <2>2
<1>4. CASE LeePagina \/ LeeOutbox \/ Colecta
  BY <1>4 DEF LeePagina, LeeOutbox, Colecta, IInv, PeticionDelAgente
<1>5. CASE TerminaPagina \/ TerminaOutbox \/ TerminaCiclo \/ \E i \in Incidentes : NoSube(i)
  BY <1>5 DEF TerminaPagina, TerminaOutbox, TerminaCiclo, NoSube, PuedeSubir, Subido
<1>6. CASE Sube
  BY <1>6
<1>7. CASE peticion' = peticion /\ agente' = agente
  BY <1>7
<1>8. QED
  BY <1>1, <1>2, <1>3, <1>4, <1>5, <1>6, <1>7
     DEF MCNext, Next, varsMC, vars, PasoDelAgente, PasoDeLaNube, CambiaEnElErp, Purga, Repite,
         VenceEnLaNube, VenceEnOutbox

LEMMA PeticionDelAgenteSigue ==
    ASSUME IInv, [MCNext]_varsMC
    PROVE  PeticionDelAgente'
<1> SUFFICES ASSUME peticion'.origen \in Origenes
             PROVE  /\ agente'.sube /\ agente'.paso = peticion'.origen
                    /\ ~NadaPorSubir'
                    /\ peticion'.eventos = LoteActual'
  BY DEF PeticionDelAgente
<1>1. CASE Sube
  <2>1. agente' = agente
    BY <1>1 DEF Sube
  <2>2. QED
    BY <1>1, <2>1
       DEF Sube, PuedeSubir, NadaPorSubir, LoteActual, DelDestino, Destino
<1>2. CASE /\ agente' = agente
           /\ peticion'.origen = peticion.origen
           /\ peticion'.eventos = peticion.eventos
  BY <1>2 DEF IInv, PeticionDelAgente, NadaPorSubir, LoteActual, DelDestino, Destino
<1>3. QED
  BY <1>1, <1>2, EventosDeLaPeticion

LEMMA ProcesadosSiguen ==
    ASSUME IInv, [MCNext]_varsMC
    PROVE  ProcesadosSabidos'
<1> DEFINE Listo(n) == \/ peticion.eventos[n].eventId \in peticion.fallidos
                       \/ Sabido(peticion.eventos[n].eventId)
<1>0. Tipos /\ EsPeticion(peticion)
  BY DEF IInv, Tipos
<1>1. ASSUME NEW n \in DOMAIN peticion.eventos, n \notin peticion.quedan,
             peticion'.eventos = peticion.eventos,
             peticion.fallidos \subseteq peticion'.fallidos
      PROVE  Listo(n)'
  <2>1. peticion.eventos[n].eventId \in EventIds
    BY <1>0 DEF EsPeticion, EsLote
  <2>2. Listo(n)
    BY <1>1 DEF IInv, ProcesadosSabidos
  <2>3. QED
    BY <1>0, <1>1, <2>1, <2>2, SabidoSigue DEF Sabido, EsTerminal
<1>2. CASE peticion' = peticion
  BY <1>1, <1>2 DEF ProcesadosSabidos
<1>3. CASE peticion' = SinPeticion
  BY <1>3 DEF SinPeticion, ProcesadosSabidos
<1>4. CASE Sube
  BY <1>4 DEF Sube, ProcesadosSabidos
<1>5. CASE peticion' = [peticion EXCEPT !.origen = "HUERFANA"]
  <2>1. /\ peticion'.eventos = peticion.eventos /\ peticion'.quedan = peticion.quedan
        /\ peticion'.fallidos = peticion.fallidos
    BY <1>0, <1>5 DEF EsPeticion
  <2>2. QED
    BY <1>1, <2>1 DEF ProcesadosSabidos
<1>6. CASE ProcesaEvento
  <2>0. PICK m, id : m = Min(peticion.quedan) /\ id = peticion.eventos[m].eventId
    OBVIOUS
  <2>1. PICK falla \in BOOLEAN :
           /\ peticion' = [peticion EXCEPT !.quedan = @ \ {m},
                              !.fallidos = IF falla THEN @ \cup {id} ELSE @]
           /\ \/ EsTerminal(id) /\ UNCHANGED inbox
              \/ falla
              \/ \E ok \in BOOLEAN : /\ inbox' = [inbox EXCEPT ![id] = Resultado(id, ok)]
                                     /\ inbox'[id].estado # "ERROR"
    <3>1. CASE EsTerminal(id)
      BY <1>6, <2>0, <3>1 DEF ProcesaEvento, EsTerminal, EnEspera
    <3>2. CASE EnEspera(id)
      BY <1>6, <2>0, <3>2 DEF ProcesaEvento, EnEspera
    <3>3. CASE ~EsTerminal(id) /\ ~EnEspera(id)
      BY <1>6, <2>0, <3>3 DEF ProcesaEvento
    <3>4. QED
      BY <3>1, <3>2, <3>3
  <2>2. /\ peticion'.eventos = peticion.eventos
        /\ peticion'.quedan = peticion.quedan \ {m}
        /\ peticion'.fallidos = IF falla THEN peticion.fallidos \cup {id} ELSE peticion.fallidos
    BY <1>0, <2>1 DEF EsPeticion
  <2>3. ASSUME m \in DOMAIN peticion.eventos
        PROVE  id \in peticion'.fallidos \/ Sabido(id)'
    <3>1. id \in EventIds
      BY <1>0, <2>0, <2>3 DEF EsPeticion, EsLote
    <3>2. CASE EsTerminal(id) /\ UNCHANGED inbox
      BY <3>2 DEF Sabido, EsTerminal
    <3>3. CASE falla
      BY <2>2, <3>3
    <3>4. ASSUME NEW ok \in BOOLEAN, inbox' = [inbox EXCEPT ![id] = Resultado(id, ok)],
                 inbox'[id].estado # "ERROR"
          PROVE  Sabido(id)'
      <4>1. inbox'[id] = Resultado(id, ok)
        BY <1>0, <3>1, <3>4 DEF Tipos
      <4>2. Resultado(id, ok).estado \in {"PROCESADO", "ERROR", "DEAD_LETTER"}
        BY DEF Resultado, EnInbox
      <4>3. inbox'[id].estado \in {"PROCESADO", "DEAD_LETTER"}
        BY <3>4, <4>1, <4>2
      <4>4. QED
        BY <4>3 DEF Sabido, EsTerminal
    <3>5. QED
      BY <2>1, <3>2, <3>3, <3>4
  <2>4. ASSUME NEW n \in DOMAIN peticion'.eventos, n \notin peticion'.quedan
        PROVE  \/ peticion'.eventos[n].eventId \in peticion'.fallidos
               \/ Sabido(peticion.eventos[n].eventId)'
    <3>1. CASE n = m
      BY <2>0, <2>2, <2>3, <2>4, <3>1
    <3>2. CASE n # m
      BY <1>1, <2>2, <2>4, <3>2
    <3>3. QED
      BY <3>1, <3>2
  <2>5. QED
    BY <2>4 DEF ProcesadosSabidos, Sabido, EsTerminal
<1>7. QED
  BY <1>2, <1>3, <1>4, <1>5, <1>6
     DEF MCNext, Next, varsMC, vars, PasoDelAgente, PasoDeLaNube, LeePagina, TerminaPagina,
         LeeOutbox, TerminaOutbox, Colecta, TerminaCiclo, NoSube, Responde, CambiaEnElErp,
         RespuestaPerdida, TerminaHuerfana, CaeLaNube, CaeElAgente, Purga, Repite,
         VenceEnLaNube, VenceEnOutbox

LEMMA ConAvanceSigue ==
    ASSUME IInv, [MCNext]_varsMC
    PROVE  ConAvance'
<1>1. ASSUME ~bootstrap'.desdeCero, NEW t \in Tiendas
      PROVE  checkpoints'[t] # 0
  <2>1. checkpoints[t] # 0 /\ checkpoints[t] \in Nat
    BY <1>1, BootstrapSigue DEF IInv, ConAvance, Tipos
  <2>2. checkpoints[t] <= checkpoints'[t] /\ checkpoints'[t] \in Nat
    BY CheckpointsSiguen, BandejaCrece DEF IInv
  <2>3. QED
    BY <2>1, <2>2
<1>2. QED
  BY <1>1 DEF ConAvance

-----------------------------------------------------------------------------
(* The checkpoints.                                                        *)

LEMMA TiendaDeUnaFila ==
    ASSUME NEW f \in Filas
    PROVE  TiendaDe(f) \in Tiendas
  BY SubidaAssumption DEF Filas, TiendaDe

\* What the answer without failures of a batch of the queue says of a notice that
\* was on its way to the store of the batch.
LEMMA LaRespuestaResuelve ==
    ASSUME IInv, peticion.origen = "BANDEJA", peticion.quedan = {}, peticion.fallidos = {},
           ~bootstrap.desdeCero,
           NEW n \in DOMAIN bandeja, n <= agente.hasta, TiendaDe(bandeja[n]) = Destino
    PROVE  Resuelto(n)
<1>1. /\ agente.sube /\ agente.paso = "BANDEJA" /\ ~NadaPorSubir
      /\ peticion.eventos = LoteActual
  BY DEF IInv, PeticionDelAgente, Origenes
<1>2. /\ DOMAIN agente.porSubir \subseteq Nat
      /\ \A i \in DOMAIN agente.porSubir :
            TiendaDe(bandeja[n]) = agente.porSubir[i].destino => Resuelto(n) \/ EnCamino(n)
  BY <1>1 DEF IInv, BandejaEnCamino
<1>3. Min(DOMAIN agente.porSubir) \in DOMAIN agente.porSubir
  BY <1>1, <1>2, ElMenor DEF NadaPorSubir
<1>4. Resuelto(n) \/ EnCamino(n)
  BY <1>2, <1>3 DEF Destino
<1>5. CASE EnCamino(n)
  <2>1. /\ n \in DOMAIN agente.porSubir /\ agente.porSubir[n].destino = Destino
        /\ agente.porSubir[n].eventId \in IdsDe(n)
    BY <1>5 DEF EnCamino
  <2>2. n \in DOMAIN LoteActual /\ LoteActual[n] = agente.porSubir[n]
    BY <2>1 DEF LoteActual, Restrict, DelDestino
  <2>3. Sabido(agente.porSubir[n].eventId)
    BY <1>1, <2>2 DEF IInv, ProcesadosSabidos
  <2>4. QED
    BY <2>1, <2>3, ResueltoEs
<1>6. QED
  BY <1>4, <1>5

LEMMA NadaSeSaltaSigue ==
    ASSUME IInv, [MCNext]_varsMC
    PROVE  NadaSeSalta'
<1> SUFFICES ASSUME ~bootstrap'.desdeCero, NEW n \in DOMAIN bandeja',
                    n <= checkpoints'[TiendaDe(bandeja'[n])]
             PROVE  Resuelto(n)'
  BY DEF NadaSeSalta, TiendaDe
<1>0. Tipos /\ ~bootstrap.desdeCero
  BY BootstrapSigue DEF IInv
<1>1. /\ Len(bandeja) \in Nat /\ n \in 1..Len(bandeja') /\ bandeja' \in Seq(Filas)
      /\ Len(bandeja) <= MAX_BANDEJA /\ Len(bandeja') \in Nat /\ MAX_BANDEJA \in Nat
      /\ \A k \in 1..Len(bandeja) : bandeja'[k] = bandeja[k]
  BY <1>0, BandejaCrece, SubidaAssumption DEF Tipos
<1> DEFINE t == TiendaDe(bandeja'[n])
<1>2. t \in Tiendas
  BY <1>1, TiendaDeUnaFila
<1>3. checkpoints[t] \in 0..Len(bandeja) /\ agente.hasta \in 0..Len(bandeja)
  BY <1>0, <1>2 DEF Tipos, EsAgente
<1>4. CASE n <= checkpoints[t]
  <2>1. n \in 1..Len(bandeja) /\ n \in DOMAIN bandeja /\ n \in 1..MAX_BANDEJA
    BY <1>0, <1>1, <1>3, <1>4 DEF Tipos
  <2>2. bandeja'[n] = bandeja[n]
    BY <1>1, <2>1
  <2>3. Resuelto(n)
    BY <1>0, <1>4, <2>1, <2>2 DEF IInv, NadaSeSalta
  <2>4. QED
    BY <1>0, <2>1, <2>3, ResueltoSigue
<1>5. CASE ~(n <= checkpoints[t])
  <2>1. /\ Responde /\ peticion.origen = "BANDEJA" /\ peticion.fallidos = {}
        /\ checkpoints' = [checkpoints EXCEPT ![Destino] = Mayor(@, agente.hasta)]
    <3>1. checkpoints' # checkpoints
      BY <1>5
    <3>2. Responde
      BY <3>1
         DEF MCNext, Next, varsMC, vars, sqlite, PasoDelAgente, PasoDeLaNube, LeePagina,
             TerminaPagina, LeeOutbox, TerminaOutbox, Colecta, TerminaCiclo, Sube,
             CambiaEnElErp, ProcesaEvento, TerminaHuerfana, CaeElAgente, Repite, VenceEnLaNube,
             RespuestaPerdida, CaeLaNube, NoSube, VenceEnOutbox, Purga
    <3>3. QED
      BY <3>1, <3>2 DEF Responde, TrasRespuesta
  <2>2. t = Destino /\ n <= Mayor(checkpoints[t], agente.hasta)
    BY <1>0, <1>2, <1>5, <2>1 DEF Tipos
  <2>3. n <= agente.hasta /\ n \in 1..Len(bandeja) /\ n \in DOMAIN bandeja /\ n \in 1..MAX_BANDEJA
    BY <1>0, <1>1, <1>3, <1>5, <2>2 DEF Mayor, Tipos
  <2>4. TiendaDe(bandeja[n]) = Destino
    BY <1>1, <2>2, <2>3
  <2>5. Resuelto(n)
    BY <1>0, <2>1, <2>3, <2>4, LaRespuestaResuelve DEF Responde
  <2>6. QED
    BY <1>0, <2>3, <2>5, ResueltoSigue
<1>6. QED
  BY <1>4, <1>5

\* The notices of a store with an event in what has just been read: those before
\* are resolved, and the others go to that store.
LEMMA ColectaEnCamino ==
    ASSUME IInv, [MCNext]_varsMC, Colecta, ~bootstrap.desdeCero, agente'.sube
    PROVE  BandejaEnCamino'
<1> DEFINE desde == MinimoCheckpoint
           hasta == Menor(desde + LOTE, Len(bandeja))
<1>0. Tipos
  BY DEF IInv
<1>1. /\ agente'.porSubir = [n \in (desde + 1)..hasta |-> EventoDeBandeja(n)]
      /\ agente'.hasta = hasta
      /\ UNCHANGED <<erp, bandeja>>
  BY DEF Colecta, Agente, ASubir
<1>2. /\ desde \in 0..Len(bandeja) /\ LOTE \in Nat /\ Len(bandeja) \in Nat
      /\ \A t \in Tiendas : desde <= checkpoints[t]
  BY <1>0, ElMinimo, SubidaAssumption DEF IInv, ConAvance, Tipos
<1>3. hasta \in 0..Len(bandeja)
  BY <1>2 DEF Menor
<1> HIDE DEF hasta, desde
<1>4. (desde + 1)..hasta \subseteq Nat
  BY <1>2, <1>3
<1>5. ASSUME NEW n \in DOMAIN bandeja, NEW i \in (desde + 1)..hasta, n <= hasta,
             TiendaDe(bandeja[n]) = EventoDeBandeja(i).destino
      PROVE  Resuelto(n)' \/ EnCamino(n)'
  <2>1. /\ n \in 1..Len(bandeja) /\ i \in 1..Len(bandeja) /\ n \in 1..MAX_BANDEJA
        /\ bandeja[n] \in Filas /\ bandeja[i] \in Filas
    BY <1>0, <1>2, <1>3, <1>5, SubidaAssumption DEF Tipos
  <2>2. CASE n <= desde
    <3>1. TiendaDe(bandeja[n]) \in Tiendas
      BY <2>1, TiendaDeUnaFila
    <3>2. checkpoints[TiendaDe(bandeja[n])] \in 0..Len(bandeja)
      BY <1>0, <3>1 DEF Tipos
    <3>3. n <= checkpoints[TiendaDe(bandeja[n])]
      BY <1>2, <2>1, <2>2, <3>1, <3>2
    <3>4. Resuelto(n)
      BY <1>5, <3>3 DEF IInv, NadaSeSalta
    <3>5. QED
      BY <1>0, <2>1, <3>4, ResueltoSigue
  <2>3. CASE n > desde
    <3>1. n \in (desde + 1)..hasta
      BY <1>2, <1>3, <1>5, <2>1, <2>3
    <3>2. EventoDeBandeja(n).eventId \in IdsDe(n)
      BY DEF EventoDeBandeja, IdsDe
    <3>3. EventoDeBandeja(n).destino = TiendaDe(bandeja[n])
      <4>1. CASE bandeja[n] = PRODUCTO
        BY <4>1, SubidaAssumption DEF EventoDeBandeja, TiendaDe
      <4>2. CASE bandeja[n] # PRODUCTO /\ TiendaDe(bandeja[n]) = TIENDA_GLOBAL
        BY <2>1, <4>2, SubidaAssumption DEF EventoDeBandeja, TiendaDe, Filas
      <4>3. CASE bandeja[n] # PRODUCTO /\ TiendaDe(bandeja[n]) # TIENDA_GLOBAL
        <5>1. bandeja[i] = bandeja[n] /\ erp[bandeja[n]] # NO_EXISTE
          BY <1>5, <4>3 DEF EventoDeBandeja, TiendaDe
        <5>2. QED
          BY <2>1, <4>3, <5>1 DEF EventoDeBandeja, TiendaDe, Filas
      <4>4. QED
        BY <4>1, <4>2, <4>3
    <3>4. agente'.porSubir[n] = EventoDeBandeja(n) /\ n \in DOMAIN agente'.porSubir
      BY <1>1, <3>1
    <3>5. QED
      BY <1>1, <3>2, <3>3, <3>4 DEF EnCamino, TiendaDe, IdsDe
  <2>4. QED
    BY <1>2, <2>1, <2>2, <2>3
<1>6. \A i \in DOMAIN agente'.porSubir :
          i \in (desde + 1)..hasta /\ agente'.porSubir[i] = EventoDeBandeja(i)
  BY <1>1
<1>7. DOMAIN agente'.porSubir = (desde + 1)..hasta
  BY <1>1
<1>8. QED
  BY <1>1, <1>4, <1>5, <1>6, <1>7 DEF BandejaEnCamino, TiendaDe

LEMMA BandejaEnCaminoSigue ==
    ASSUME IInv, [MCNext]_varsMC
    PROVE  BandejaEnCamino'
<1> SUFFICES ASSUME agente'.sube, agente'.paso = "BANDEJA", ~bootstrap'.desdeCero
             PROVE  BandejaEnCamino'
  BY DEF BandejaEnCamino
<1>0. Tipos /\ ~bootstrap.desdeCero
  BY BootstrapSigue DEF IInv
<1>1. /\ Len(bandeja) \in Nat /\ Len(bandeja) <= MAX_BANDEJA /\ MAX_BANDEJA \in Nat
      /\ Len(bandeja') \in Nat /\ DOMAIN bandeja' = 1..Len(bandeja')
      /\ DOMAIN bandeja = 1..Len(bandeja)
      /\ \A k \in 1..Len(bandeja) : bandeja'[k] = bandeja[k]
      /\ agente.hasta \in 0..Len(bandeja)
  BY <1>0, BandejaCrece, SubidaAssumption DEF Tipos, EsAgente
<1>2. ASSUME agente.sube, agente.paso = "BANDEJA", agente'.hasta = agente.hasta,
             DOMAIN agente'.porSubir \subseteq DOMAIN agente.porSubir,
             \A i \in DOMAIN agente'.porSubir : agente'.porSubir[i] = agente.porSubir[i],
             \A i \in DOMAIN agente'.porSubir, n \in DOMAIN agente.porSubir :
                agente.porSubir[n].destino = agente.porSubir[i].destino
                   => n \in DOMAIN agente'.porSubir
      PROVE  BandejaEnCamino'
  <2>1. /\ DOMAIN agente.porSubir \subseteq Nat
        /\ \A n \in DOMAIN bandeja, i \in DOMAIN agente.porSubir :
              (n <= agente.hasta /\ TiendaDe(bandeja[n]) = agente.porSubir[i].destino)
                 => Resuelto(n) \/ EnCamino(n)
    BY <1>0, <1>2 DEF IInv, BandejaEnCamino
  <2>2. ASSUME NEW n \in DOMAIN bandeja', NEW i \in DOMAIN agente'.porSubir,
               n <= agente'.hasta, TiendaDe(bandeja'[n]) = agente'.porSubir[i].destino
        PROVE  Resuelto(n)' \/ EnCamino(n)'
    <3>1. n \in DOMAIN bandeja /\ bandeja'[n] = bandeja[n] /\ n \in 1..MAX_BANDEJA
      BY <1>1, <1>2, <2>2
    <3>2. Resuelto(n) \/ EnCamino(n)
      BY <1>2, <2>1, <2>2, <3>1
    <3>3. CASE EnCamino(n)
      BY <1>2, <2>2, <3>1, <3>3 DEF EnCamino, TiendaDe, IdsDe
    <3>4. QED
      BY <1>0, <3>1, <3>2, <3>3, ResueltoSigue
  <2>3. QED
    BY <1>2, <2>1, <2>2 DEF BandejaEnCamino, TiendaDe
<1>3. CASE agente' = agente
  BY <1>2, <1>3
<1>4. CASE agente' = [agente EXCEPT !.porSubir = LotesQueSiguen]
  <2>1. agente = [paso |-> agente.paso, sube |-> agente.sube, porSubir |-> agente.porSubir,
                  hasta |-> agente.hasta]
    BY <1>0 DEF Tipos, EsAgente
  <2>2. /\ agente'.porSubir = LotesQueSiguen /\ agente'.hasta = agente.hasta
        /\ agente.sube /\ agente.paso = "BANDEJA"
    BY <1>4, <2>1
  <2>3. /\ \A i \in DOMAIN LotesQueSiguen : i \in DOMAIN agente.porSubir
                /\ LotesQueSiguen[i] = agente.porSubir[i]
                /\ agente.porSubir[i].destino # Destino
        /\ \A i \in DOMAIN agente.porSubir :
                agente.porSubir[i].destino # Destino => i \in DOMAIN LotesQueSiguen
    BY DEF LotesQueSiguen, Restrict, DelDestino
  <2>4. QED
    BY <1>2, <2>2, <2>3
<1>5. CASE LeePagina \/ LeeOutbox \/ \E p \in Origenes : agente' = Agente(p)
  <2>1. ASSUME NEW o, NEW l, agente' = ASubir(o, l, 0), o # "BANDEJA"
        PROVE  FALSE
    BY <2>1 DEF ASubir
  <2>2. ASSUME NEW o, agente' = Agente(o)
        PROVE  FALSE
    BY <2>2 DEF Agente
  <2>3. \/ \E o : agente' = Agente(o)
        \/ \E o, l : o # "BANDEJA" /\ agente' = ASubir(o, l, 0)
    BY <1>5 DEF LeePagina, LeeOutbox
  <2>4. QED
    BY <2>1, <2>2, <2>3
<1>6. CASE Colecta
  BY <1>0, <1>6, ColectaEnCamino
<1>7. QED
  BY <1>3, <1>4, <1>5, <1>6, PasoDelAgenteEs

-----------------------------------------------------------------------------
(* The first load.                                                         *)

LEMMA BootstrapEs ==
    ASSUME [MCNext]_varsMC
    PROVE  bootstrap' = bootstrap \/ TerminaPagina
  BY DEF MCNext, Next, varsMC, vars, sqlite, PasoDelAgente, PasoDeLaNube, LeePagina,
         LeeOutbox, TerminaOutbox, Colecta, TerminaCiclo, Sube, CambiaEnElErp, Responde,
         ProcesaEvento, TerminaHuerfana, CaeElAgente, Repite, VenceEnLaNube, RespuestaPerdida,
         CaeLaNube, NoSube, VenceEnOutbox, Purga

LEMMA FilasDeUnaFase ==
    ASSUME NEW i \in 1..2
    PROVE  FASES_BOOTSTRAP[i] \subseteq Filas
  BY DEF FASES_BOOTSTRAP, Filas

LEMMA FasesSiguen ==
    ASSUME IInv, [MCNext]_varsMC
    PROVE  FasesCargadas'
<1> SUFFICES ASSUME NEW i \in 1..2, i < bootstrap'.fase, NEW f \in FASES_BOOTSTRAP[i]
             PROVE  Cargada(f)'
  BY DEF FasesCargadas, FASES_BOOTSTRAP
<1>1. f \in Filas
  BY FilasDeUnaFase
<1>2. CASE bootstrap' = bootstrap
  BY <1>1, <1>2, CargadaSigue DEF IInv, FasesCargadas
<1>3. CASE TerminaPagina
  <2>1. /\ agente.sube /\ agente.paso = "BOOTSTRAP" /\ NadaPorSubir
        /\ bootstrap'.fase = bootstrap.fase + 1
    BY <1>3 DEF TerminaPagina, Subido, IInv, Tipos
  <2>2. /\ bootstrap.fase \in 1..2
        /\ \A g \in FASES_BOOTSTRAP[bootstrap.fase] : Cargada(g)
    BY <2>1 DEF IInv, PaginaEnCamino, EnPagina, NadaPorSubir
  <2>3. i < bootstrap.fase \/ i = bootstrap.fase
    BY <2>1, <2>2
  <2>4. Cargada(f)
    BY <2>2, <2>3 DEF IInv, FasesCargadas
  <2>5. QED
    BY <1>1, <2>4, CargadaSigue
<1>4. QED
  BY <1>2, <1>3, BootstrapEs

LEMMA LaPaginaLeidaEstaEnCamino ==
    ASSUME IInv, [MCNext]_varsMC, LeePagina
    PROVE  PaginaEnCamino'
<1> DEFINE S == {f \in FASES_BOOTSTRAP[bootstrap.fase] : erp[f] # NO_EXISTE}
<1>1. bootstrap.fase \in 1..2 /\ bootstrap' = bootstrap
  BY DEF LeePagina, sqlite, IInv, Tipos
<1>2. PICK s \in Ordenes(S) :
         agente' = ASubir("BOOTSTRAP", [i \in DOMAIN s |-> EventoDeBootstrap(s[i])], 0)
  BY DEF LeePagina
<1>3. agente'.porSubir = [i \in DOMAIN s |-> EventoDeBootstrap(s[i])]
  BY <1>2 DEF ASubir
<1>4. Range(s) = S
  BY DEF Ordenes
<1>5. ASSUME NEW f \in FASES_BOOTSTRAP[bootstrap.fase]
      PROVE  Cargada(f)' \/ EnPagina(f)'
  <2>1. f \in Filas
    BY <1>1, FilasDeUnaFase
  <2>2. CASE erp[f] = NO_EXISTE
    BY <2>1, <2>2, CargadaSigue DEF Cargada
  <2>3. CASE erp[f] # NO_EXISTE
    <3>1. f \in Range(s)
      BY <1>4, <2>3
    <3>2. PICK i \in DOMAIN s : s[i] = f
      BY <3>1 DEF Range
    <3>3. i \in DOMAIN agente'.porSubir /\ agente'.porSubir[i] = EventoDeBootstrap(f)
      BY <1>3, <3>2
    <3>4. EventoDeBootstrap(f).eventId = BootDe(f)
      BY DEF EventoDeBootstrap, BootDe
    <3>5. QED
      BY <3>3, <3>4 DEF EnPagina, BootDe
  <2>4. QED
    BY <2>2, <2>3
<1>6. QED
  BY <1>1, <1>5 DEF PaginaEnCamino, FASES_BOOTSTRAP

\* The answer to a batch of the page: its rows are known, or they are queued.
LEMMA LaRespuestaDeLaPagina ==
    ASSUME IInv, [MCNext]_varsMC, Responde, agente.paso = "BOOTSTRAP"
    PROVE  PaginaEnCamino'
<1> DEFINE fallaron == {n \in DOMAIN peticion.eventos :
                            peticion.eventos[n].eventId \in peticion.fallidos}
           reintenta == Restrict(peticion.eventos, fallaron)
<1>0. /\ Tipos /\ EsLote(peticion.eventos)
      /\ agente = [paso |-> agente.paso, sube |-> agente.sube, porSubir |-> agente.porSubir,
                   hasta |-> agente.hasta]
  BY DEF IInv, Tipos, EsPeticion, EsAgente
<1>1. /\ agente.sube /\ peticion.eventos = LoteActual /\ peticion.quedan = {}
      /\ peticion.origen = "BOOTSTRAP"
  BY DEF Responde, IInv, PeticionDelAgente
<1>2. /\ outbox' = Encola(reintenta)
      /\ agente' = [agente EXCEPT !.porSubir = LotesQueSiguen]
      /\ bootstrap' = bootstrap
  BY <1>1 DEF Responde, TrasRespuesta
<1>3. EsLote(reintenta)
  BY <1>0 DEF EsLote, Restrict
<1>4. \A n \in fallaron : peticion.eventos[n].eventId \in EventIdsEnOutbox'
  <2>1. \A n \in fallaron : n \in DOMAIN reintenta /\ reintenta[n] = peticion.eventos[n]
    BY DEF Restrict
  <2> HIDE DEF reintenta
  <2>2. \A n \in DOMAIN reintenta : reintenta[n].eventId \in EventIdsEnOutbox'
    BY <1>0, <1>2, <1>3, EncolaAgrega
  <2>3. QED
    BY <2>1, <2>2
<1>5. agente'.porSubir = LotesQueSiguen
  BY <1>0, <1>2
<1>6. /\ bootstrap.fase \in 1..2
      /\ \A f \in FASES_BOOTSTRAP[bootstrap.fase] : Cargada(f) \/ EnPagina(f)
  BY <1>1 DEF IInv, PaginaEnCamino
<1>7. ASSUME NEW f \in FASES_BOOTSTRAP[bootstrap.fase]
      PROVE  Cargada(f)' \/ EnPagina(f)'
  <2>1. f \in Filas /\ BootDe(f) \in EventIds
    BY <1>6, FilasDeUnaFase, IdsConocidos
  <2>2. CASE Cargada(f)
    BY <2>1, <2>2, CargadaSigue
  <2>3. CASE EnPagina(f)
    <3>1. PICK n \in DOMAIN agente.porSubir : agente.porSubir[n].eventId = BootDe(f)
      BY <2>3 DEF EnPagina
    <3>2. CASE n \in DelDestino
      <4>1. n \in DOMAIN peticion.eventos /\ peticion.eventos[n].eventId = BootDe(f)
        BY <1>1, <3>1, <3>2 DEF LoteActual, Restrict, DelDestino
      <4>2. BootDe(f) \in peticion.fallidos \/ Sabido(BootDe(f))
        BY <1>1, <4>1 DEF IInv, ProcesadosSabidos
      <4>3. CASE BootDe(f) \in peticion.fallidos
        BY <1>4, <4>1, <4>3 DEF Cargada, BootDe
      <4>4. CASE Sabido(BootDe(f))
        BY <1>0, <2>1, <4>4, SabidoSigue DEF Cargada, BootDe
      <4>5. QED
        BY <4>2, <4>3, <4>4
    <3>3. CASE n \notin DelDestino
      <4>1. n \in DOMAIN LotesQueSiguen /\ LotesQueSiguen[n] = agente.porSubir[n]
        BY <3>1, <3>3 DEF LotesQueSiguen, Restrict
      <4>2. QED
        BY <1>5, <3>1, <4>1 DEF EnPagina, BootDe
    <3>4. QED
      BY <3>2, <3>3
  <2>4. QED
    BY <1>6, <2>2, <2>3
<1>8. QED
  BY <1>2, <1>6, <1>7 DEF PaginaEnCamino, FASES_BOOTSTRAP

LEMMA PaginaEnCaminoSigue ==
    ASSUME IInv, [MCNext]_varsMC
    PROVE  PaginaEnCamino'
<1> SUFFICES ASSUME agente'.sube, agente'.paso = "BOOTSTRAP"
             PROVE  PaginaEnCamino'
  BY DEF PaginaEnCamino
<1>0. agente = [paso |-> agente.paso, sube |-> agente.sube, porSubir |-> agente.porSubir,
                hasta |-> agente.hasta]
  BY DEF IInv, Tipos, EsAgente
<1>1. ASSUME NEW o, agente' = Agente(o)
      PROVE  FALSE
  BY <1>1 DEF Agente
<1>2. bootstrap' = bootstrap
  BY <1>1, BootstrapEs DEF TerminaPagina
<1>3. CASE agente' = agente
  <2>1. /\ bootstrap.fase \in 1..2
        /\ \A f \in FASES_BOOTSTRAP[bootstrap.fase] :
              f \in Filas /\ (Cargada(f) \/ EnPagina(f))
    BY <1>3, FilasDeUnaFase DEF IInv, PaginaEnCamino
  <2>2. \A f \in FASES_BOOTSTRAP[bootstrap.fase] : Cargada(f)' \/ EnPagina(f)'
    BY <1>3, <2>1, CargadaSigue DEF EnPagina, BootDe
  <2>3. QED
    BY <1>2, <2>1, <2>2 DEF PaginaEnCamino, FASES_BOOTSTRAP
<1>4. CASE LeePagina
  BY <1>4, LaPaginaLeidaEstaEnCamino
<1>5. ASSUME NEW o, NEW l, NEW h, agente' = ASubir(o, l, h), o # "BOOTSTRAP"
      PROVE  FALSE
  BY <1>5 DEF ASubir
<1>6. CASE LeeOutbox \/ Colecta
  BY <1>1, <1>5, <1>6 DEF LeeOutbox, Colecta
<1>7. CASE agente' = [agente EXCEPT !.porSubir = LotesQueSiguen] /\ agente' # agente
  <2>1. agente.paso = "BOOTSTRAP"
    BY <1>0, <1>7
  <2>2. CASE Responde
    BY <2>1, <2>2, LaRespuestaDeLaPagina
  <2>3. ASSUME NEW lote, NEW tr, TrasFallo("BOOTSTRAP", lote, tr)
        PROVE  FALSE
    BY <1>1, <2>3 DEF TrasFallo
  <2>4. CASE RespuestaPerdida \/ CaeLaNube
    <3>1. peticion.origen \in Origenes /\ TrasFallo(peticion.origen, peticion.eventos, TRUE)
      BY <2>4 DEF RespuestaPerdida, CaeLaNube
    <3>2. peticion.origen = "BOOTSTRAP"
      BY <2>1, <3>1 DEF IInv, PeticionDelAgente
    <3>3. QED
      BY <2>3, <3>1, <3>2
  <2>5. CASE \E i \in Incidentes : NoSube(i)
    BY <2>1, <2>3, <2>5 DEF NoSube
  <2>6. QED
    BY <1>1, <1>4, <1>6, <1>7, <2>2, <2>4, <2>5
       DEF MCNext, Next, varsMC, vars, PasoDelAgente, PasoDeLaNube, Sube, ProcesaEvento,
           CambiaEnElErp, TerminaHuerfana, Purga, Repite, VenceEnLaNube, VenceEnOutbox,
           TerminaPagina, TerminaOutbox, TerminaCiclo, CaeElAgente
<1>8. QED
  BY <1>1, <1>3, <1>4, <1>6, <1>7, PasoDelAgenteEs

-----------------------------------------------------------------------------
(* The theorems.                                                           *)

LEMMA TiposAlEmpezar ==
    ASSUME MCInit
    PROVE  Tipos
<1> DEFINE R == [estado : Estados, intentos : Nat, espera : BOOLEAN]
<1>1. DOMAIN erp = Filas
  BY DEF MCInit, Init
<1>2. bandeja \in Seq(Filas) /\ Len(bandeja) = 1 /\ Len(bandeja) <= MAX_BANDEJA
  BY SubidaAssumption DEF MCInit, Init, Filas
<1>3. checkpoints \in [Tiendas -> 0..Len(bandeja)]
  <2>1. checkpoints = [t \in Tiendas |-> 0] \/ checkpoints = [t \in Tiendas |-> 1]
    BY DEF MCInit, Init
  <2>2. 0 \in 0..Len(bandeja) /\ 1 \in 0..Len(bandeja)
    BY <1>2
  <2>3. QED
    BY <2>1, <2>2
<1>4. bootstrap \in [fase : 1..3, desdeCero : BOOLEAN]
  <2>1. \/ bootstrap = [fase |-> 1, desdeCero |-> TRUE]
        \/ bootstrap = [fase |-> 3, desdeCero |-> FALSE]
    BY DEF MCInit, Init
  <2>2. CASE bootstrap = [fase |-> 1, desdeCero |-> TRUE]
    BY <2>2
  <2>3. CASE bootstrap = [fase |-> 3, desdeCero |-> FALSE]
    BY <2>3
  <2>4. QED
    BY <2>1, <2>2, <2>3
<1>5. \A x \in outbox : x.evento.eventId \in EventIds
  BY DEF MCInit, Init
<1>6. EsAgente(agente)
  BY <1>2 DEF MCInit, Init, Agente, EsAgente, EsLote
<1>7. EsPeticion(peticion)
  BY DEF MCInit, Init, SinPeticion, EsPeticion, EsLote
<1>8. inbox \in [EventIds -> R]
  <2>1. EnInbox("NINGUNO", 0, FALSE) \in R /\ EnInbox("PROCESADO", 1, FALSE) \in R
    BY DEF EnInbox, Estados
  <2> HIDE DEF R
  <2>2. QED
    BY <2>1 DEF MCInit, Init
<1>9. QED
  BY <1>1, <1>2, <1>3, <1>4, <1>5, <1>6, <1>7, <1>8 DEF Tipos

LEMMA AlEmpezar ==
    ASSUME MCInit
    PROVE  IInv
<1>1. /\ agente = Agente(InicioDeCiclo(bootstrap.fase))
      /\ peticion = SinPeticion
      /\ bandeja = <<PRODUCTO>>
  BY DEF MCInit, Init
<1>2. PeticionDelAgente /\ ProcesadosSabidos
  BY <1>1 DEF PeticionDelAgente, ProcesadosSabidos, SinPeticion, Origenes
<1>3. BandejaEnCamino /\ PaginaEnCamino
  BY <1>1 DEF BandejaEnCamino, PaginaEnCamino, Agente
<1>4. ConAvance /\ NadaSeSalta /\ FasesCargadas
  <2>1. CASE bootstrap = [fase |-> 1, desdeCero |-> TRUE]
    BY <2>1 DEF ConAvance, NadaSeSalta, FasesCargadas
  <2>2. CASE bootstrap = [fase |-> 3, desdeCero |-> FALSE]
    <3>1. /\ checkpoints = [t \in Tiendas |-> 1]
          /\ inbox = [id \in EventIds |->
                IF id[1] = "BOOT" \/ (id[2] = 1 /\ id[3] = "CON_TIENDA")
                THEN EnInbox("PROCESADO", 1, FALSE) ELSE EnInbox("NINGUNO", 0, FALSE)]
      BY <2>2 DEF MCInit, Init
    <3>2. EnInbox("PROCESADO", 1, FALSE).estado = "PROCESADO"
      BY DEF EnInbox
    <3>3. ConAvance
      BY <3>1 DEF ConAvance
    <3>4. NadaSeSalta
      <4>1. <<"BANDEJA", 1, "CON_TIENDA">> \in EventIds
        BY SubidaAssumption DEF EventIds
      <4>2. EsTerminal(<<"BANDEJA", 1, "CON_TIENDA">>)
        BY <3>1, <3>2, <4>1 DEF EsTerminal
      <4>3. Resuelto(1)
        BY <4>2 DEF Resuelto, Decidido
      <4>4. \A n \in DOMAIN bandeja : n = 1
        BY <1>1
      <4>5. QED
        BY <4>3, <4>4 DEF NadaSeSalta
    <3>5. FasesCargadas
      <4>1. ASSUME NEW f \in Filas PROVE Sabido(BootDe(f))
        <5>1. BootDe(f) \in EventIds /\ BootDe(f)[1] = "BOOT"
          BY IdsConocidos DEF BootDe
        <5>2. QED
          BY <3>1, <3>2, <5>1 DEF Sabido, EsTerminal
      <4>2. QED
        BY <4>1, FilasDeUnaFase DEF FasesCargadas, Cargada
    <3>6. QED
      BY <3>3, <3>4, <3>5
  <2>3. QED
    BY <2>1, <2>2 DEF MCInit, Init
<1>5. QED
  BY <1>2, <1>3, <1>4, TiposAlEmpezar DEF IInv

\* What keeps a change from being lost on the way up holds in every state.
THEOREM Invariancia == MCSpec => []IInv
<1>1. MCInit => IInv
  BY AlEmpezar
<1>2. IInv /\ [MCNext]_varsMC => IInv'
  BY TiposSiguen, PeticionDelAgenteSigue, ProcesadosSiguen, ConAvanceSigue, NadaSeSaltaSigue,
     BandejaEnCaminoSigue, FasesSiguen, PaginaEnCaminoSigue
     DEF IInv
<1>3. QED
  BY <1>1, <1>2, PTL DEF MCSpec

\* The checkpoint of a store never passes over a change that the cloud has not
\* decided (setCheckpoint of runOnce, in an agent whose stores all have one).
THEOREM NadaSeSaltaSiempre == MCSpec => []NadaSeSalta
<1>1. IInv => NadaSeSalta
  BY DEF IInv
<1>2. QED
  BY <1>1, Invariancia, PTL

\* Once the first load is over every row of it was taken by the cloud, died there,
\* or is in the outbox or was purged from it (bootstrapCatalogo).
THEOREM CargaCompletaSiempre == MCSpec => []CargaCompleta
<1>1. ASSUME IInv, bootstrap.fase = 3, NEW f \in Filas
      PROVE  Cargada(f)
  <2>1. f \in FASES_BOOTSTRAP[1] \/ f \in FASES_BOOTSTRAP[2]
    BY DEF FASES_BOOTSTRAP, Filas
  <2>2. QED
    BY <1>1, <2>1 DEF IInv, FasesCargadas
<1>2. IInv => CargaCompleta
  BY <1>1 DEF CargaCompleta, Cargada, Sabido, BootDe
<1>3. QED
  BY <1>2, Invariancia, PTL

\* What the cloud has finished with (an event processed, or dead after its last
\* attempt) stays so, until an administrator asks for it again (procesarUpload,
\* reprogramarEvento): no late answer and no fall of the cloud takes it back.
THEOREM LoDecididoSeQueda ==
    MCSpec => [][\A id \in EventIds : EsTerminal(id) => EsTerminal(id)' \/ id \in repetidos']_varsMC
<1>1. IInv /\ [MCNext]_varsMC
         => [\A id \in EventIds : EsTerminal(id) => EsTerminal(id)' \/ id \in repetidos']_varsMC
  BY SabidoSigue DEF IInv, Sabido
<1>2. QED
  BY <1>1, Invariancia, PTL DEF MCSpec

-----------------------------------------------------------------------------
(* The notices: the alerts of silent tablets.                             *)

\* A kiosk the worker remembers has been alerted of since its last heartbeat, or
\* that heartbeat is more recent than the last tick that did not fail.
AvisadasEnRegla ==
    /\ DOMAIN kioskos = Kioskos
    /\ \A k \in Kioskos :
          /\ kioskos[k] = [activo |-> kioskos[k].activo, token |-> kioskos[k].token,
                           latido |-> kioskos[k].latido]
          /\ kioskos[k].latido \in Int
    /\ fallos \in Nat /\ fallos <= MAX_FALLOS
    /\ \A k \in Kioskos \cap yaAvisados :
          avisada[k] \/ (0 <= kioskos[k].latido /\ kioskos[k].latido <= fallos)

\* What a step does to the last heartbeat of each kiosk.
Late(k)     == kioskos'[k].latido = 0
SinLatir(k) == kioskos'[k].latido = kioskos[k].latido

LEMMA PasoDeLosKioskos ==
    ASSUME AvisadasEnRegla, UMBRAL_TICS \in Nat, KI!Next
    PROVE  /\ DOMAIN kioskos' = Kioskos
           /\ \A k \in Kioskos :
                 /\ kioskos'[k] = [activo |-> kioskos'[k].activo, token |-> kioskos'[k].token,
                                   latido |-> kioskos'[k].latido]
                 /\ kioskos'[k].latido \in Int
           /\ \/ /\ \A k \in Kioskos : Late(k) \/ SinLatir(k)
                 /\ \/ yaAvisados' = yaAvisados /\ fallos' = fallos
                    \/ yaAvisados' = {} /\ fallos' = 0
              \/ KI!Tic \/ KI!TicFalla
<1> USE DEF AvisadasEnRegla, Late, SinLatir
<1>1. CASE UNCHANGED kioskos
  <2>1. \/ UNCHANGED <<yaAvisados, fallos>>
        \/ yaAvisados' = {} /\ fallos' = 0
        \/ KI!Tic \/ KI!TicFalla
    BY DEF KI!Next, KI!Solicitar, KI!Reclamar, KI!ValidaToken, KI!CreaSolicitud, KI!Canjea,
           KI!Responde, KI!Heartbeat, KI!Vence, KI!Cancelar, KI!Aprobar, KI!Actualizar,
           KI!Desvincular, KI!Reinicia
  <2>2. QED
    BY <1>1, <2>1
<1>2. CASE KI!Tic \/ KI!TicFalla
  <2>1. KI!Envejece
    BY <1>2 DEF KI!Tic, KI!TicFalla
  <2>2. QED
    BY <1>2, <2>1 DEF KI!Envejece
<1>3. ASSUME NEW q, NEW f,
             \/ kioskos' = [kioskos EXCEPT ![q].token = f]
             \/ kioskos' = [kioskos EXCEPT ![q].activo = f]
             \/ kioskos' = [kioskos EXCEPT ![q].latido = 0],
             UNCHANGED <<yaAvisados, fallos>>
      PROVE  /\ DOMAIN kioskos' = Kioskos
             /\ \A k \in Kioskos :
                   /\ kioskos'[k] = [activo |-> kioskos'[k].activo, token |-> kioskos'[k].token,
                                     latido |-> kioskos'[k].latido]
                   /\ kioskos'[k].latido \in Int
                   /\ Late(k) \/ SinLatir(k)
  BY <1>3
<1>4. CASE \E r \in Peticiones : KI!Canjea(r)
  BY <1>1, <1>3, <1>4 DEF KI!Canjea
<1>5. CASE \E r \in Peticiones : KI!Heartbeat(r)
  BY <1>1, <1>3, <1>5 DEF KI!Heartbeat
<1>6. CASE \E k \in Kioskos, a \in KI!Actores : KI!Actualizar(k, a) \/ KI!Desvincular(k, a)
  BY <1>3, <1>6 DEF KI!Actualizar, KI!Desvincular
<1>7. QED
  BY <1>1, <1>2, <1>4, <1>5, <1>6
     DEF KI!Next, KI!Solicitar, KI!Reclamar, KI!ValidaToken, KI!CreaSolicitud, KI!Responde,
         KI!Vence, KI!Cancelar, KI!Aprobar, KI!Reinicia

\* Since the last heartbeat of a kiosk there has been an alert of it.
LEMMA QuienSigueAvisada ==
    ASSUME DeKioskos, NEW k \in Kioskos, avisada[k],
           kioskos'[k].latido = 0 => kioskos[k].latido = 0
    PROVE  avisada'[k]
  BY Zenon DEF DeKioskos

LEMMA QuienSeAvisa ==
    ASSUME DeKioskos, NEW k \in Kioskos, k \in yaAvisados', k \notin yaAvisados
    PROVE  avisada'[k]
  BY Zenon DEF DeKioskos, KI!Avisa

\* After a tick, the worker remembers the kiosks that are down.
LEMMA CaidasRecordadas ==
    ASSUME KI!Tic, NEW k
    PROVE  k \in yaAvisados' <=> k \in Kioskos /\ KI!Caida(k)'
  BY DEF KI!Tic, KI!Recuerda, KI!Caidas, KI!Caida

LEMMA AvisadasSiguen ==
    ASSUME MAX_FALLOS < UMBRAL_TICS, AvisadasEnRegla, [AvisosNext]_varsAvisos
    PROVE  AvisadasEnRegla'
<1> MAX_FALLOS \in Nat /\ UMBRAL_TICS \in Nat
  BY KioskosAssumption
<1>1. CASE UNCHANGED varsK
  BY <1>1 DEF varsK, AvisadasEnRegla
<1>2. CASE KI!Next /\ DeKioskos
  <2>1. fallos \in Nat /\ \A k \in Kioskos : kioskos[k].latido \in Int
    BY DEF AvisadasEnRegla
  <2>2. fallos' \in Nat /\ fallos' <= MAX_FALLOS
    <3>1. CASE KI!Tic
      BY <3>1 DEF KI!Tic
    <3>2. CASE KI!TicFalla
      BY <2>1, <3>2 DEF KI!TicFalla
    <3>3. CASE UNCHANGED fallos \/ fallos' = 0
      BY <3>3 DEF AvisadasEnRegla
    <3>4. QED
      BY <1>2, <3>1, <3>2, <3>3, PasoDeLosKioskos
  <2>3. ASSUME NEW k \in Kioskos, k \in yaAvisados'
        PROVE  avisada'[k] \/ (0 <= kioskos'[k].latido /\ kioskos'[k].latido <= fallos')
    <3>1. CASE k \notin yaAvisados
      BY <1>2, <2>3, <3>1, QuienSeAvisa
    <3>2. CASE k \in yaAvisados /\ kioskos'[k].latido = 0
      BY <2>2, <3>2
    <3>3. CASE k \in yaAvisados /\ kioskos'[k].latido # 0
      <4>1. CASE avisada[k]
        BY <1>2, <3>3, <4>1, QuienSigueAvisada
      <4>2. CASE 0 <= kioskos[k].latido /\ kioskos[k].latido <= fallos
        <5>1. CASE KI!TicFalla
          BY <2>1, <4>2, <5>1 DEF KI!TicFalla, KI!Envejece
        <5>2. CASE KI!Tic
          <6>1. kioskos'[k].latido > UMBRAL_TICS
            BY <2>3, <5>2, CaidasRecordadas DEF KI!Caida
          <6>2. kioskos'[k].latido = kioskos[k].latido + 1
            BY <2>1, <4>2, <5>2, <6>1 DEF KI!Tic, KI!Envejece, AvisadasEnRegla
          <6>3. QED
            BY <2>1, <4>2, <6>1, <6>2 DEF AvisadasEnRegla
        <5>3. CASE SinLatir(k) /\ UNCHANGED fallos
          BY <4>2, <5>3 DEF SinLatir
        <5>4. QED
          BY <1>2, <2>3, <3>3, <5>1, <5>2, <5>3, PasoDeLosKioskos DEF Late
      <4>3. QED
        BY <3>3, <4>1, <4>2 DEF AvisadasEnRegla
    <3>4. QED
      BY <3>1, <3>2, <3>3
  <2>4. QED
    BY <1>2, <2>2, <2>3, PasoDeLosKioskos DEF AvisadasEnRegla
<1>3. QED
  BY <1>1, <1>2 DEF AvisosNext, varsAvisos, DeRecoger, DeChat

\* After a tick that does not fail every silent kiosk has been alerted of since its
\* last heartbeat, for any number of kiosks, whatever has failed and died before, as
\* long as fewer ticks fail in a row than fit in the threshold (kiosko-alertas.worker).
THEOREM CaidaAvisada ==
    ASSUME MAX_FALLOS < UMBRAL_TICS
    PROVE  AvisosSpec => LaCaidaSeAvisa
<1> MAX_FALLOS \in Nat /\ UMBRAL_TICS \in Nat
  BY KioskosAssumption
<1>1. AvisosInit => AvisadasEnRegla
  BY DEF AvisosInit, KI!Init, KI!NUNCA, AvisadasEnRegla
<1>2. AvisadasEnRegla /\ [AvisosNext]_varsAvisos => AvisadasEnRegla'
  BY AvisadasSiguen
<1>3. ASSUME AvisadasEnRegla, [AvisosNext]_varsAvisos, KI!Tic, NEW k \in Kioskos, KI!Caida(k)'
      PROVE  avisada'[k]
  <2>1. /\ kioskos'[k].latido > UMBRAL_TICS /\ k \in yaAvisados'
        /\ fallos \in Nat /\ fallos <= MAX_FALLOS /\ kioskos[k].latido \in Int
    BY <1>3, CaidasRecordadas DEF KI!Caida, AvisadasEnRegla
  <2>2. CASE KI!Next /\ DeKioskos
    <3>1. CASE k \notin yaAvisados
      BY <2>1, <2>2, <3>1, QuienSeAvisa
    <3>2. CASE k \in yaAvisados
      <4>1. kioskos'[k].latido \in {kioskos[k].latido, kioskos[k].latido + 1}
        BY <1>3 DEF KI!Tic, KI!Envejece, AvisadasEnRegla
      <4>2. avisada[k]
        BY <1>3, <2>1, <3>2, <4>1 DEF AvisadasEnRegla
      <4>3. kioskos'[k].latido # 0
        BY <2>1
      <4>4. QED
        BY <2>2, <4>2, <4>3, QuienSigueAvisada
    <3>3. QED
      BY <3>1, <3>2
  <2>3. CASE UNCHANGED varsK
    <3>1. k \in yaAvisados /\ kioskos[k].latido > UMBRAL_TICS
      BY <2>1, <2>3 DEF varsK
    <3>2. avisada[k]
      BY <1>3, <2>1, <3>1 DEF AvisadasEnRegla
    <3>3. QED
      BY <2>3, <3>2, Zenon DEF varsK
  <2>4. QED
    BY <1>3, <2>2, <2>3 DEF AvisosNext, varsAvisos, DeRecoger, DeChat
<1>4. AvisadasEnRegla /\ [AvisosNext]_varsAvisos
         => [KI!Tic => \A k \in Kioskos : KI!Caida(k)' => avisada'[k]]_varsAvisos
  BY <1>3
<1>5. QED
  BY <1>1, <1>2, <1>4, PTL DEF AvisosSpec, LaCaidaSeAvisa

-----------------------------------------------------------------------------
(* The pairings.                                                           *)

Solicitud ==
    [tableta : Tabletas, pista : Sucursales \cup {NADIE},
     estado : {"PENDIENTE", "APROBADO", "RECLAMADO", "CANCELADO", "PURGADO"},
     kiosko : Kioskos \cup {NADIE}, aprobo : {"ADMIN", "GERENTE", NADIE}, vencida : BOOLEAN]

\* A pairing has its kiosk and who approved it from the approval on; a manager
\* approves that of a tablet of another store never.
BienAprobada(f) ==
    /\ f.estado = "PENDIENTE" => f.kiosko = NADIE
    /\ f.estado \in {"APROBADO", "RECLAMADO"} => f.kiosko \in Kioskos
    /\ f.kiosko \in Kioskos =>
          /\ f.aprobo \in {"ADMIN", "GERENTE"}
          /\ f.aprobo = "GERENTE" /\ f.pista # NADIE => TiendaDelKiosko[f.kiosko] = f.pista

\* What a step may do to a pairing.
SigueSiendo(f, g) ==
    /\ g.pista = f.pista
    /\ f.kiosko \in Kioskos => g.kiosko = f.kiosko /\ g.aprobo = f.aprobo
    /\ f.estado \in {"RECLAMADO", "PURGADO"} => g.estado \in {"RECLAMADO", "PURGADO"}

SolicitudesEnRegla ==
    /\ solicitudes \in Seq(Solicitud)
    /\ \A s \in DOMAIN solicitudes : BienAprobada(solicitudes[s])

\* The pairing a tablet polls was asked for when it kept the one it keeps.
TabletaEnRegla(t) ==
    LET guarda == tabletas[t].guarda
        pide   == tabletas[t].pide
    IN  /\ guarda \in 0..Len(solicitudes) /\ pide \in 0..Len(solicitudes)
        /\ guarda # 0 =>
              /\ solicitudes[guarda].kiosko \in Kioskos
              /\ solicitudes[guarda].estado \in {"RECLAMADO", "PURGADO"}
              /\ pide # 0
              /\ pide # guarda =>
                    solicitudes[pide].pista = TiendaDelKiosko[solicitudes[guarda].kiosko]

\* What a request under way has read still holds, for there is no other.
PeticionEnRegla(f) ==
    /\ f = [op |-> f.op, tableta |-> f.tableta, id |-> f.id, pista |-> f.pista]
    /\ f.op = "CREAR" =>
          /\ f.tableta \in Tabletas /\ f.pista \in Sucursales \cup {NADIE}
          /\ tabletas[f.tableta].guarda # 0 =>
                f.pista = TiendaDelKiosko[solicitudes[tabletas[f.tableta].guarda].kiosko]
    /\ f.op \in {"CANJEAR", "RESPONDER"} =>
          /\ f.tableta \in Tabletas /\ f.id # 0 /\ f.id = tabletas[f.tableta].pide
          /\ solicitudes[f.id].kiosko \in Kioskos
    /\ f.op = "RESPONDER" => solicitudes[f.id].estado \in {"RECLAMADO", "PURGADO"}

Ocupada(r) == peticiones[r] # KI!Libre

VinculosEnRegla ==
    /\ SolicitudesEnRegla
    /\ tabletas \in [Tabletas -> [guarda : Nat, pide : Nat]]
    /\ \A t \in Tabletas : TabletaEnRegla(t)
    /\ DOMAIN peticiones = Peticiones
    /\ \A r \in Peticiones : PeticionEnRegla(peticiones[r])
    /\ \A r, q \in Peticiones : Ocupada(r) /\ Ocupada(q) => r = q

\* The effect of each step on the pairings.
LosDemasSiguen ==
    /\ SolicitudesEnRegla'
    /\ Len(solicitudes') >= Len(solicitudes)
    /\ \A s \in DOMAIN solicitudes : SigueSiendo(solicitudes[s], solicitudes'[s])

LEMMA UnaSolicitudCambia ==
    ASSUME SolicitudesEnRegla, NEW s \in DOMAIN solicitudes, NEW g \in Solicitud,
           BienAprobada(g), SigueSiendo(solicitudes[s], g),
           solicitudes' = [solicitudes EXCEPT ![s] = g]
    PROVE  LosDemasSiguen
<1>1. solicitudes \in Seq(Solicitud) /\ s \in 1..Len(solicitudes)
  BY DEF SolicitudesEnRegla
<1>2. solicitudes' \in Seq(Solicitud) /\ Len(solicitudes') = Len(solicitudes)
  BY <1>1, ExceptSeq
<1>3. DOMAIN solicitudes' = DOMAIN solicitudes
      /\ \A i \in DOMAIN solicitudes : solicitudes'[i] = IF i = s THEN g ELSE solicitudes[i]
  BY <1>1, <1>2
<1>4. \A i \in DOMAIN solicitudes : SigueSiendo(solicitudes[i], solicitudes'[i])
  BY <1>3 DEF SigueSiendo
<1>5. \A i \in DOMAIN solicitudes' : BienAprobada(solicitudes'[i])
  BY <1>3 DEF SolicitudesEnRegla
<1>6. Len(solicitudes') >= Len(solicitudes)
  BY <1>1, <1>2
<1>7. QED
  BY <1>2, <1>4, <1>5, <1>6 DEF LosDemasSiguen, SolicitudesEnRegla, BienAprobada

LEMMA PasoDeLasSolicitudes ==
    ASSUME VinculosEnRegla, KI!Next
    PROVE  LosDemasSiguen
<1>0. /\ solicitudes \in Seq(Solicitud) /\ Len(solicitudes) \in Nat
      /\ DOMAIN solicitudes = 1..Len(solicitudes) /\ KI!Ids = DOMAIN solicitudes
      /\ \A s \in DOMAIN solicitudes : solicitudes[s] \in Solicitud /\ BienAprobada(solicitudes[s])
      /\ SolicitudesEnRegla
  BY DEF VinculosEnRegla, SolicitudesEnRegla, KI!Ids
<1>1. CASE UNCHANGED solicitudes
  BY <1>0, <1>1 DEF LosDemasSiguen, SolicitudesEnRegla, BienAprobada, SigueSiendo
<1>2. ASSUME NEW s \in DOMAIN solicitudes, NEW k \in Kioskos, NEW a \in KI!Actores,
             NEW c \in BOOLEAN, KI!Aprobar(s, k, a, c)
      PROVE  LosDemasSiguen
  <2> DEFINE f == solicitudes[s]
             g == [f EXCEPT !.estado = "APROBADO", !.kiosko = k, !.aprobo = a.rol]
  <2>1. solicitudes' = [solicitudes EXCEPT ![s] = g]
    BY <1>0, <1>2 DEF KI!Aprobar, Solicitud
  <2>2. a.rol \in {"ADMIN", "GERENTE"}
    BY DEF KI!Actores
  <2>3. a.rol = "GERENTE" => TiendaDelKiosko[k] = a.tienda /\ f.pista \in {NADIE, a.tienda}
    BY <1>2 DEF KI!Aprobar, KI!PuedeTocar, KI!PistaAdmite
  <2>4. f.estado = "PENDIENTE" /\ f.kiosko = NADIE /\ f.kiosko \notin Kioskos
    BY <1>0, <1>2, KioskosAssumption DEF KI!Aprobar, BienAprobada
  <2>5. /\ g \in Solicitud /\ g.estado = "APROBADO" /\ g.kiosko = k /\ g.aprobo = a.rol
        /\ g.pista = f.pista
    BY <1>0, <2>2 DEF Solicitud
  <2> HIDE DEF g
  <2>6. BienAprobada(g)
    BY <2>2, <2>3, <2>5 DEF BienAprobada
  <2>7. SigueSiendo(f, g)
    BY <2>4, <2>5 DEF SigueSiendo
  <2>8. QED
    BY <1>0, <2>1, <2>5, <2>6, <2>7, UnaSolicitudCambia
<1>3. ASSUME NEW s \in DOMAIN solicitudes, NEW e,
             \/ solicitudes[s].estado = "PENDIENTE" /\ e = "CANCELADO"
             \/ solicitudes[s].estado = "APROBADO" /\ e = "RECLAMADO",
             solicitudes' = [solicitudes EXCEPT ![s].estado = e]
      PROVE  LosDemasSiguen
  <2> DEFINE f == solicitudes[s]
             g == [f EXCEPT !.estado = e]
  <2>1. solicitudes' = [solicitudes EXCEPT ![s] = g]
    BY <1>3
  <2>2. e \in {"CANCELADO", "RECLAMADO"}
    BY <1>3
  <2>3. /\ g \in Solicitud /\ g.estado = e /\ g.kiosko = f.kiosko /\ g.aprobo = f.aprobo
        /\ g.pista = f.pista
    BY <1>0, <2>2 DEF Solicitud
  <2> HIDE DEF g
  <2>4. BienAprobada(g) /\ SigueSiendo(f, g)
    BY <1>0, <1>3, <2>3 DEF BienAprobada, SigueSiendo
  <2>5. QED
    BY <1>0, <2>1, <2>3, <2>4, UnaSolicitudCambia
<1>4. ASSUME NEW s \in DOMAIN solicitudes, KI!Vence(s)
      PROVE  LosDemasSiguen
  <2> DEFINE f == solicitudes[s]
             g == [f EXCEPT !.vencida = TRUE]
  <2>1. solicitudes' = [solicitudes EXCEPT ![s] = g]
    BY <1>4 DEF KI!Vence
  <2>2. /\ g \in Solicitud /\ g.estado = f.estado /\ g.kiosko = f.kiosko /\ g.aprobo = f.aprobo
        /\ g.pista = f.pista
    BY <1>0 DEF Solicitud
  <2> HIDE DEF g
  <2>3. BienAprobada(g) /\ SigueSiendo(f, g)
    BY <1>0, <2>2 DEF BienAprobada, SigueSiendo
  <2>4. QED
    BY <1>0, <2>1, <2>2, <2>3, UnaSolicitudCambia
<1>5. ASSUME NEW r \in Peticiones, KI!CreaSolicitud(r)
      PROVE  LosDemasSiguen
  <2> DEFINE n == KI!Nueva(peticiones[r].tableta, peticiones[r].pista)
  <2>1. solicitudes' = Append(solicitudes, n)
    BY <1>5 DEF KI!CreaSolicitud
  <2>2. peticiones[r].tableta \in Tabletas /\ peticiones[r].pista \in Sucursales \cup {NADIE}
    BY <1>5 DEF VinculosEnRegla, PeticionEnRegla, KI!CreaSolicitud
  <2>3. n \in Solicitud /\ n.estado = "PENDIENTE" /\ n.kiosko = NADIE
    BY <2>2 DEF KI!Nueva, Solicitud
  <2>4. BienAprobada(n)
    BY <2>3, KioskosAssumption DEF BienAprobada
  <2> HIDE DEF n
  <2>5. /\ solicitudes' \in Seq(Solicitud) /\ Len(solicitudes') = Len(solicitudes) + 1
        /\ \A s \in DOMAIN solicitudes : solicitudes'[s] = solicitudes[s]
        /\ solicitudes'[Len(solicitudes) + 1] = n
        /\ DOMAIN solicitudes' = 1..(Len(solicitudes) + 1)
    BY <1>0, <2>1, <2>3
  <2>6. \A s \in DOMAIN solicitudes' : s \in DOMAIN solicitudes \/ s = Len(solicitudes) + 1
    BY <1>0, <2>5
  <2>7. \A s \in DOMAIN solicitudes' : BienAprobada(solicitudes'[s])
    BY <1>0, <2>4, <2>5, <2>6
  <2>8. \A s \in DOMAIN solicitudes : SigueSiendo(solicitudes[s], solicitudes'[s])
    BY <2>5 DEF SigueSiendo
  <2>9. Len(solicitudes') >= Len(solicitudes)
    BY <1>0, <2>5
  <2>10. QED
    BY <2>5, <2>7, <2>8, <2>9 DEF LosDemasSiguen, SolicitudesEnRegla, BienAprobada
<1>6. ASSUME NEW r \in Peticiones, NEW t \in Tabletas, KI!Solicitar(r, t)
      PROVE  LosDemasSiguen
  <2>1. PICK viejas \in SUBSET {s \in KI!Ids : KI!Purgable(s)} :
           solicitudes' = KI!CancelaLasDe(t, KI!TrasPurgar(viejas))
    BY <1>6 DEF KI!Solicitar
  <2> DEFINE filas == KI!TrasPurgar(viejas)
  <2>2. filas = [s \in DOMAIN solicitudes |->
                   IF s \in viejas THEN [solicitudes[s] EXCEPT !.estado = "PURGADO"]
                                   ELSE solicitudes[s]]
    BY <1>0 DEF KI!TrasPurgar
  <2>3. DOMAIN filas = DOMAIN solicitudes
    BY <2>2
  <2>4. DOMAIN solicitudes' = DOMAIN solicitudes
        /\ \A s \in DOMAIN solicitudes : solicitudes'[s] =
              IF filas[s].estado = "PENDIENTE" /\ filas[s].tableta = t
              THEN [filas[s] EXCEPT !.estado = "CANCELADO"] ELSE filas[s]
    BY <2>1, <2>3 DEF KI!CancelaLasDe
  <2>5. ASSUME NEW s \in DOMAIN solicitudes
        PROVE  /\ filas[s] \in Solicitud /\ BienAprobada(filas[s])
               /\ SigueSiendo(solicitudes[s], filas[s])
    <3> DEFINE f == solicitudes[s]
               g == [f EXCEPT !.estado = "PURGADO"]
    <3>1. filas[s] = f \/ (s \in viejas /\ filas[s] = g)
      BY <2>2
    <3>2. /\ g \in Solicitud /\ g.estado = "PURGADO" /\ g.kiosko = f.kiosko
          /\ g.aprobo = f.aprobo /\ g.pista = f.pista
      BY <1>0 DEF Solicitud
    <3>3. s \in viejas => f.estado \in {"PENDIENTE", "RECLAMADO", "CANCELADO"}
      BY DEF KI!Purgable
    <3> HIDE DEF g, filas
    <3>4. BienAprobada(g) /\ SigueSiendo(f, g)
      BY <1>0, <3>2 DEF BienAprobada, SigueSiendo
    <3>5. QED
      BY <1>0, <3>1, <3>2, <3>4 DEF SigueSiendo
  <2> HIDE DEF filas
  <2>6. ASSUME NEW s \in DOMAIN solicitudes
        PROVE  /\ solicitudes'[s] \in Solicitud /\ BienAprobada(solicitudes'[s])
               /\ SigueSiendo(solicitudes[s], solicitudes'[s])
    <3> DEFINE f == filas[s]
               g == [f EXCEPT !.estado = "CANCELADO"]
    <3>1. solicitudes'[s] = f \/ (f.estado = "PENDIENTE" /\ solicitudes'[s] = g)
      BY <2>4
    <3>2. /\ f \in Solicitud /\ BienAprobada(f) /\ SigueSiendo(solicitudes[s], f)
      BY <2>5
    <3>3. /\ g \in Solicitud /\ g.estado = "CANCELADO" /\ g.kiosko = f.kiosko
          /\ g.aprobo = f.aprobo /\ g.pista = f.pista
      BY <3>2 DEF Solicitud
    <3> HIDE DEF g, f
    <3>4. f.estado = "PENDIENTE" => BienAprobada(g) /\ SigueSiendo(solicitudes[s], g)
      BY <3>2, <3>3 DEF BienAprobada, SigueSiendo
    <3>5. QED
      BY <3>1, <3>2, <3>3, <3>4
  <2>7. solicitudes' \in Seq(Solicitud) /\ Len(solicitudes') = Len(solicitudes)
    <3>1. solicitudes' = [s \in 1..Len(solicitudes) |-> solicitudes'[s]]
      BY <1>0, <2>1, <2>3, <2>4 DEF KI!CancelaLasDe, filas
    <3>2. \A s \in 1..Len(solicitudes) : solicitudes'[s] \in Solicitud
      BY <1>0, <2>6
    <3>3. QED
      BY <1>0, <3>1, <3>2
  <2>8. Len(solicitudes') >= Len(solicitudes)
    BY <1>0, <2>7
  <2>9. \A s \in DOMAIN solicitudes' : BienAprobada(solicitudes'[s])
    BY <2>4, <2>6
  <2>10. QED
    BY <2>6, <2>7, <2>8, <2>9 DEF LosDemasSiguen, SolicitudesEnRegla, BienAprobada
<1>7. ASSUME NEW r \in Peticiones, KI!Canjea(r)
      PROVE  LosDemasSiguen
  <2>1. CASE KI!Consumible(peticiones[r].id) /\ peticiones[r].id \in DOMAIN solicitudes
    BY <1>3, <1>7, <2>1 DEF KI!Canjea, KI!Consumible
  <2>2. CASE ~KI!Consumible(peticiones[r].id)
    BY <1>1, <1>7, <2>2 DEF KI!Canjea
  <2>3. peticiones[r].id \in DOMAIN solicitudes
    <3>1. /\ peticiones[r].tableta \in Tabletas /\ peticiones[r].id # 0
          /\ peticiones[r].id = tabletas[peticiones[r].tableta].pide
      BY <1>7 DEF VinculosEnRegla, PeticionEnRegla, KI!Canjea
    <3>2. tabletas[peticiones[r].tableta].pide \in 0..Len(solicitudes)
      BY <3>1 DEF VinculosEnRegla, TabletaEnRegla
    <3>3. QED
      BY <1>0, <3>1, <3>2
  <2>4. QED
    BY <2>1, <2>2, <2>3
<1>8. ASSUME NEW s \in DOMAIN solicitudes, NEW a \in KI!Actores, KI!Cancelar(s, a)
      PROVE  LosDemasSiguen
  <2>1. /\ solicitudes[s].estado = "PENDIENTE"
        /\ solicitudes' = [solicitudes EXCEPT ![s].estado = "CANCELADO"]
    BY <1>8 DEF KI!Cancelar
  <2>2. QED
    BY <1>3, <2>1
<1>9. QED
  BY <1>0, <1>1, <1>2, <1>4, <1>5, <1>6, <1>7, <1>8
     DEF KI!Next, KI!Reclamar, KI!ValidaToken, KI!Responde, KI!Heartbeat, KI!Actualizar,
         KI!Desvincular, KI!Tic, KI!TicFalla, KI!Reinicia

\* No two requests of tablets at once, as the instances have it.
LEMMA UnaSolaPeticion ==
    ASSUME SinSolapar, NEW r \in Peticiones, NEW q \in Peticiones,
           Ocupada(r)', Ocupada(q)'
    PROVE  r = q
<1> DEFINE T == {x \in Peticiones : peticiones'[x] # KI!Libre}
<1>2. Cardinality(T) <= 1
  BY DEF SinSolapar, Ocupadas
<1>3. IsFiniteSet(T) /\ Cardinality(T) \in Nat
  BY KioskosAssumption, FS_Subset, FS_CardinalityType
<1>4. {r, q} \subseteq T
  BY DEF Ocupada
<1>5. Cardinality({r, q}) <= Cardinality(T)
  BY <1>3, <1>4, FS_Subset
<1>6. ASSUME r # q
      PROVE  Cardinality({r, q}) = 2
  <2>1. {r, q} = {r} \cup {q} /\ q \notin {r}
    BY <1>6
  <2>2. Cardinality({r}) = 1 /\ IsFiniteSet({r})
    BY FS_Singleton
  <2>3. QED
    BY <2>1, <2>2, FS_AddElement
<1>7. QED
  BY <1>2, <1>3, <1>5, <1>6

\* A tablet whose row does not change stays right, and so does what a request has
\* read of it.
LEMMA QuienNoCambia ==
    ASSUME VinculosEnRegla, LosDemasSiguen
    PROVE  /\ \A t \in Tabletas : tabletas'[t] = tabletas[t] => TabletaEnRegla(t)'
           /\ UNCHANGED tabletas =>
                 \A f : PeticionEnRegla(f) => PeticionEnRegla(f)'
<1>0. /\ solicitudes \in Seq(Solicitud) /\ Len(solicitudes) \in Nat
      /\ DOMAIN solicitudes = 1..Len(solicitudes)
      /\ \A t \in Tabletas : TabletaEnRegla(t)
  BY DEF VinculosEnRegla, SolicitudesEnRegla
<1>1. /\ Len(solicitudes') \in Nat /\ Len(solicitudes') >= Len(solicitudes)
      /\ \A s \in 1..Len(solicitudes) : SigueSiendo(solicitudes[s], solicitudes'[s])
  BY <1>0 DEF LosDemasSiguen, SolicitudesEnRegla
<1>2. ASSUME NEW t \in Tabletas, tabletas'[t] = tabletas[t]
      PROVE  TabletaEnRegla(t)'
  <2> DEFINE guarda == tabletas[t].guarda
             pide   == tabletas[t].pide
  <2>1. /\ guarda \in 0..Len(solicitudes) /\ pide \in 0..Len(solicitudes)
        /\ guarda # 0 =>
              /\ solicitudes[guarda].kiosko \in Kioskos
              /\ solicitudes[guarda].estado \in {"RECLAMADO", "PURGADO"}
              /\ pide # 0
              /\ pide # guarda =>
                    solicitudes[pide].pista = TiendaDelKiosko[solicitudes[guarda].kiosko]
    BY <1>0 DEF TabletaEnRegla
  <2> HIDE DEF guarda, pide
  <2>2. guarda \in 0..Len(solicitudes') /\ pide \in 0..Len(solicitudes')
    BY <1>0, <1>1, <2>1
  <2>3. guarda # 0 =>
              /\ solicitudes'[guarda].kiosko \in Kioskos
              /\ solicitudes'[guarda].estado \in {"RECLAMADO", "PURGADO"}
              /\ pide # 0
              /\ pide # guarda =>
                    solicitudes'[pide].pista = TiendaDelKiosko[solicitudes'[guarda].kiosko]
    BY <1>0, <1>1, <2>1 DEF SigueSiendo
  <2>4. QED
    BY <1>2, <2>2, <2>3 DEF TabletaEnRegla, guarda, pide
<1>3. ASSUME UNCHANGED tabletas, NEW f, PeticionEnRegla(f)
      PROVE  PeticionEnRegla(f)'
  <2>1. f.tableta \in Tabletas => TabletaEnRegla(f.tableta)
    BY <1>0
  <2>2. ASSUME f.op = "CREAR", tabletas[f.tableta].guarda # 0
        PROVE  f.pista = TiendaDelKiosko[solicitudes'[tabletas[f.tableta].guarda].kiosko]
    <3>1. /\ f.tableta \in Tabletas
          /\ f.pista = TiendaDelKiosko[solicitudes[tabletas[f.tableta].guarda].kiosko]
      BY <1>3, <2>2 DEF PeticionEnRegla
    <3>2. /\ tabletas[f.tableta].guarda \in 1..Len(solicitudes)
          /\ solicitudes[tabletas[f.tableta].guarda].kiosko \in Kioskos
      BY <1>0, <2>1, <2>2, <3>1 DEF TabletaEnRegla
    <3>3. QED
      BY <1>1, <3>1, <3>2 DEF SigueSiendo
  <2>3. ASSUME f.op \in {"CANJEAR", "RESPONDER"}
        PROVE  /\ solicitudes'[f.id].kiosko \in Kioskos
               /\ solicitudes[f.id].estado \in {"RECLAMADO", "PURGADO"} =>
                     solicitudes'[f.id].estado \in {"RECLAMADO", "PURGADO"}
    <3>1. /\ f.tableta \in Tabletas /\ f.id # 0 /\ f.id = tabletas[f.tableta].pide
          /\ solicitudes[f.id].kiosko \in Kioskos
      BY <1>3, <2>3 DEF PeticionEnRegla
    <3>2. f.id \in 1..Len(solicitudes)
      BY <1>0, <2>1, <3>1 DEF TabletaEnRegla
    <3>3. QED
      BY <1>1, <3>1, <3>2 DEF SigueSiendo
  <2>4. QED
    BY <1>3, <2>2, <2>3 DEF PeticionEnRegla
<1>4. QED
  BY <1>2, <1>3

\* The two steps that write the row of a tablet.
LEMMA TabletaQueCambia ==
    ASSUME VinculosEnRegla, KI!Next, LosDemasSiguen
    PROVE  /\ tabletas' \in [Tabletas -> [guarda : Nat, pide : Nat]]
           /\ \A t \in Tabletas : TabletaEnRegla(t)'
           /\ \/ UNCHANGED tabletas
              \/ \E r \in Peticiones :
                    Ocupada(r) /\ peticiones' = [peticiones EXCEPT ![r] = KI!Libre]
<1>0. /\ solicitudes \in Seq(Solicitud) /\ Len(solicitudes) \in Nat
      /\ DOMAIN solicitudes = 1..Len(solicitudes)
      /\ tabletas \in [Tabletas -> [guarda : Nat, pide : Nat]]
      /\ \A t \in Tabletas : TabletaEnRegla(t)
      /\ Len(solicitudes') \in Nat /\ Len(solicitudes') >= Len(solicitudes)
      /\ \A s \in 1..Len(solicitudes) : SigueSiendo(solicitudes[s], solicitudes'[s])
  BY DEF VinculosEnRegla, SolicitudesEnRegla, LosDemasSiguen
<1>1. CASE UNCHANGED tabletas
  BY <1>0, <1>1, QuienNoCambia
<1>2. KI!Libre.op = "LIBRE"
  BY DEF KI!Libre
<1>3. ASSUME NEW r \in Peticiones, KI!CreaSolicitud(r), ~UNCHANGED tabletas
      PROVE  /\ tabletas' \in [Tabletas -> [guarda : Nat, pide : Nat]]
             /\ \A t \in Tabletas : TabletaEnRegla(t)'
             /\ Ocupada(r) /\ peticiones' = [peticiones EXCEPT ![r] = KI!Libre]
  <2>0. PICK t, pista, n, guarda :
           /\ t = peticiones[r].tableta /\ pista = peticiones[r].pista
           /\ n = Len(solicitudes') /\ guarda = tabletas[t].guarda
    OBVIOUS
  <2>1. /\ tabletas' = [tabletas EXCEPT ![t].pide = n]
        /\ solicitudes' = Append(solicitudes, KI!Nueva(t, pista))
        /\ peticiones[r].op = "CREAR" /\ peticiones' = [peticiones EXCEPT ![r] = KI!Libre]
    BY <1>3, <2>0 DEF KI!CreaSolicitud
  <2>2. /\ t \in Tabletas
        /\ guarda # 0 => pista = TiendaDelKiosko[solicitudes[guarda].kiosko]
    BY <2>0, <2>1 DEF VinculosEnRegla, PeticionEnRegla
  <2>3. n = Len(solicitudes) + 1 /\ solicitudes'[n].pista = pista
    BY <1>0, <2>0, <2>1 DEF KI!Nueva
  <2>4. /\ tabletas' \in [Tabletas -> [guarda : Nat, pide : Nat]]
        /\ tabletas'[t].guarda = guarda /\ tabletas'[t].pide = n
        /\ \A u \in Tabletas : u # t => tabletas'[u] = tabletas[u]
    BY <1>0, <2>0, <2>1, <2>2, <2>3
  <2>5. guarda \in 0..Len(solicitudes)
        /\ (guarda # 0 => /\ solicitudes[guarda].kiosko \in Kioskos
                          /\ solicitudes[guarda].estado \in {"RECLAMADO", "PURGADO"})
    BY <1>0, <2>0, <2>2 DEF TabletaEnRegla
  <2>6. guarda # 0 => /\ solicitudes'[guarda].kiosko = solicitudes[guarda].kiosko
                      /\ solicitudes'[guarda].estado \in {"RECLAMADO", "PURGADO"}
    BY <1>0, <2>5 DEF SigueSiendo
  <2>7. guarda \in 0..n /\ n \in 0..n /\ n # 0 /\ n = Len(solicitudes')
    BY <1>0, <2>0, <2>3, <2>5
  <2>8. TabletaEnRegla(t)'
    BY <2>2, <2>3, <2>4, <2>5, <2>6, <2>7 DEF TabletaEnRegla
  <2>9. Ocupada(r)
    BY <1>2, <2>1 DEF Ocupada
  <2>10. QED
    BY <2>1, <2>4, <2>8, <2>9, QuienNoCambia
<1>4. ASSUME NEW r \in Peticiones, KI!Responde(r), ~UNCHANGED tabletas
      PROVE  /\ tabletas' \in [Tabletas -> [guarda : Nat, pide : Nat]]
             /\ \A t \in Tabletas : TabletaEnRegla(t)'
             /\ Ocupada(r) /\ peticiones' = [peticiones EXCEPT ![r] = KI!Libre]
  <2>0. PICK t, id : t = peticiones[r].tableta /\ id = peticiones[r].id
    OBVIOUS
  <2>1. /\ tabletas' = [tabletas EXCEPT ![t].guarda = id] /\ UNCHANGED solicitudes
        /\ peticiones[r].op = "RESPONDER" /\ peticiones' = [peticiones EXCEPT ![r] = KI!Libre]
    BY <1>4, <2>0 DEF KI!Responde
  <2>2. /\ t \in Tabletas /\ id # 0 /\ id = tabletas[t].pide
        /\ solicitudes[id].kiosko \in Kioskos
        /\ solicitudes[id].estado \in {"RECLAMADO", "PURGADO"}
    BY <2>0, <2>1 DEF VinculosEnRegla, PeticionEnRegla
  <2>3. id \in 0..Len(solicitudes) /\ id \in Nat
    BY <1>0, <2>2 DEF TabletaEnRegla
  <2>4. /\ tabletas' \in [Tabletas -> [guarda : Nat, pide : Nat]]
        /\ tabletas'[t].guarda = id /\ tabletas'[t].pide = id
        /\ \A u \in Tabletas : u # t => tabletas'[u] = tabletas[u]
    BY <1>0, <2>1, <2>2, <2>3
  <2>5. TabletaEnRegla(t)'
    BY <2>1, <2>2, <2>3, <2>4 DEF TabletaEnRegla
  <2>6. Ocupada(r)
    BY <1>2, <2>1 DEF Ocupada
  <2>7. QED
    BY <2>1, <2>4, <2>5, <2>6, QuienNoCambia
<1>5. QED
  BY <1>1, <1>3, <1>4
     DEF KI!Next, KI!Solicitar, KI!Reclamar, KI!ValidaToken, KI!Canjea, KI!Heartbeat, KI!Vence,
         KI!Cancelar, KI!Aprobar, KI!Actualizar, KI!Desvincular, KI!Tic, KI!TicFalla, KI!Reinicia

\* What a request under way has read, after any step.
LEMMA LasPeticionesEnRegla ==
    ASSUME VinculosEnRegla, KI!Next, SinSolapar, LosDemasSiguen,
           \/ UNCHANGED tabletas
           \/ \E r \in Peticiones : Ocupada(r) /\ peticiones' = [peticiones EXCEPT ![r] = KI!Libre]
    PROVE  /\ DOMAIN peticiones' = Peticiones
           /\ \A r \in Peticiones : PeticionEnRegla(peticiones[r])'
<1>0. /\ DOMAIN peticiones = Peticiones /\ Len(solicitudes) \in Nat
      /\ DOMAIN solicitudes = 1..Len(solicitudes)
      /\ \A r \in Peticiones : PeticionEnRegla(peticiones[r])
      /\ \A r, q \in Peticiones : Ocupada(r) /\ Ocupada(q) => r = q
      /\ \A t \in Tabletas : TabletaEnRegla(t)
      /\ \A s \in 1..Len(solicitudes) :
            BienAprobada(solicitudes[s]) /\ SigueSiendo(solicitudes[s], solicitudes'[s])
  BY DEF VinculosEnRegla, SolicitudesEnRegla, LosDemasSiguen
<1>1. PeticionEnRegla(KI!Libre)'
  BY DEF PeticionEnRegla, KI!Libre
<1>2. ASSUME NEW r \in Peticiones, NEW f, PeticionEnRegla(f)',
             peticiones' = [peticiones EXCEPT ![r] = f],
             UNCHANGED tabletas
      PROVE  /\ DOMAIN peticiones' = Peticiones
             /\ \A q \in Peticiones : PeticionEnRegla(peticiones[q])'
  <2>1. DOMAIN peticiones' = Peticiones
        /\ \A q \in Peticiones : peticiones'[q] = IF q = r THEN f ELSE peticiones[q]
    BY <1>0, <1>2
  <2>2. \A q \in Peticiones : PeticionEnRegla(peticiones[q])
    BY <1>0
  <2>3. QED
    BY <1>2, <2>1, <2>2, QuienNoCambia
<1>3. CASE \E r \in Peticiones : Ocupada(r) /\ peticiones' = [peticiones EXCEPT ![r] = KI!Libre]
  <2>1. DOMAIN peticiones' = Peticiones /\ \A q \in Peticiones : peticiones'[q] = KI!Libre
    BY <1>0, <1>3 DEF Ocupada
  <2>2. QED
    BY <1>1, <2>1
<1>4. CASE peticiones' = [r \in Peticiones |-> KI!Libre]
  BY <1>1, <1>4
<1>5. CASE UNCHANGED <<peticiones, tabletas>>
  BY <1>0, <1>5, QuienNoCambia
<1>6. ASSUME NEW r \in Peticiones, NEW t \in Tabletas, KI!Solicitar(r, t)
      PROVE  /\ DOMAIN peticiones' = Peticiones
             /\ \A q \in Peticiones : PeticionEnRegla(peticiones[q])'
  <2>1. PICK pista \in KI!PistaDe(t) :
           peticiones' = [peticiones EXCEPT
              ![r] = [op |-> "CREAR", tableta |-> t, id |-> 0, pista |-> pista]]
    BY <1>6 DEF KI!Solicitar
  <2>2. UNCHANGED tabletas
    BY <1>6 DEF KI!Solicitar
  <2>3. tabletas[t].guarda # 0 =>
           /\ pista = TiendaDelKiosko[solicitudes[tabletas[t].guarda].kiosko]
           /\ solicitudes[tabletas[t].guarda].kiosko \in Kioskos
           /\ tabletas[t].guarda \in 1..Len(solicitudes)
    BY <1>0 DEF KI!PistaDe, TabletaEnRegla
  <2>4. pista \in Sucursales \cup {NADIE}
    BY <2>3, KioskosAssumption DEF KI!PistaDe
  <2>5. tabletas[t].guarda # 0 =>
           pista = TiendaDelKiosko[solicitudes'[tabletas[t].guarda].kiosko]
    BY <1>0, <2>3 DEF SigueSiendo
  <2> DEFINE f == [op |-> "CREAR", tableta |-> t, id |-> 0, pista |-> pista]
  <2>6. PeticionEnRegla(f)'
    BY <2>2, <2>4, <2>5 DEF PeticionEnRegla
  <2> HIDE DEF f
  <2>7. QED
    BY <1>2, <2>1, <2>2, <2>6 DEF f
<1>7. ASSUME NEW r \in Peticiones, NEW t \in Tabletas, KI!Reclamar(r, t)
      PROVE  /\ DOMAIN peticiones' = Peticiones
             /\ \A q \in Peticiones : PeticionEnRegla(peticiones[q])'
  <2>0. PICK s : s = tabletas[t].pide
    OBVIOUS
  <2> DEFINE f == [op |-> "CANJEAR", tableta |-> t, id |-> s, pista |-> NADIE]
  <2>1. /\ peticiones' = [peticiones EXCEPT ![r] = f]
        /\ s # 0 /\ solicitudes[s].estado = "APROBADO"
        /\ UNCHANGED <<solicitudes, tabletas>>
    BY <1>7, <2>0 DEF KI!Reclamar
  <2>2. s \in 1..Len(solicitudes)
    BY <1>0, <2>0, <2>1 DEF TabletaEnRegla
  <2>3. solicitudes'[s].kiosko \in Kioskos
    BY <1>0, <2>1, <2>2 DEF BienAprobada
  <2>4. PeticionEnRegla(f)'
    BY <2>0, <2>1, <2>3 DEF PeticionEnRegla
  <2> HIDE DEF f
  <2>5. QED
    BY <1>2, <2>1, <2>4
<1>8. ASSUME NEW r \in Peticiones, NEW t \in Tabletas, KI!ValidaToken(r, t)
      PROVE  /\ DOMAIN peticiones' = Peticiones
             /\ \A q \in Peticiones : PeticionEnRegla(peticiones[q])'
  <2>0. PICK s : s = tabletas[t].guarda
    OBVIOUS
  <2> DEFINE f == [op |-> "LATIR", tableta |-> t, id |-> s, pista |-> NADIE]
  <2>1. peticiones' = [peticiones EXCEPT ![r] = f] /\ UNCHANGED tabletas
    BY <1>8, <2>0 DEF KI!ValidaToken
  <2>2. PeticionEnRegla(f)'
    BY DEF PeticionEnRegla
  <2> HIDE DEF f
  <2>3. QED
    BY <1>2, <2>1, <2>2
<1>9. ASSUME NEW r \in Peticiones, KI!Canjea(r)
      PROVE  /\ DOMAIN peticiones' = Peticiones
             /\ \A q \in Peticiones : PeticionEnRegla(peticiones[q])'
  <2>1. peticiones[r].op = "CANJEAR" /\ UNCHANGED tabletas /\ PeticionEnRegla(peticiones[r])
    BY <1>0, <1>9 DEF KI!Canjea
  <2>2. CASE peticiones' = [peticiones EXCEPT ![r] = KI!Libre]
    BY <1>1, <1>2, <2>1, <2>2
  <2>3. CASE /\ KI!Consumible(peticiones[r].id)
             /\ solicitudes' = [solicitudes EXCEPT ![peticiones[r].id].estado = "RECLAMADO"]
             /\ peticiones' = [peticiones EXCEPT ![r].op = "RESPONDER"]
    <3>0. PICK t, s, pista : peticiones[r] = [op |-> "CANJEAR", tableta |-> t, id |-> s,
                                              pista |-> pista]
      BY <2>1 DEF PeticionEnRegla
    <3> DEFINE f == [op |-> "RESPONDER", tableta |-> t, id |-> s, pista |-> pista]
    <3>1. peticiones' = [peticiones EXCEPT ![r] = f]
      <4>1. peticiones' = [peticiones EXCEPT ![r] = [peticiones[r] EXCEPT !.op = "RESPONDER"]]
        BY <2>3
      <4>2. [peticiones[r] EXCEPT !.op = "RESPONDER"] = f
        BY <3>0
      <4>3. QED
        BY <4>1, <4>2
    <3>2. t \in Tabletas /\ s # 0 /\ s = tabletas[t].pide /\ solicitudes[s].kiosko \in Kioskos
      BY <2>1, <3>0 DEF PeticionEnRegla
    <3>3. s \in 1..Len(solicitudes)
      BY <1>0, <3>2 DEF TabletaEnRegla
    <3>4. solicitudes'[s].estado = "RECLAMADO"
      <4>1. solicitudes[s].estado = "APROBADO"
        BY <2>3, <3>0 DEF KI!Consumible
      <4>2. solicitudes[s] \in Solicitud
        BY <1>0, <3>3 DEF VinculosEnRegla, SolicitudesEnRegla
      <4>3. QED
        BY <1>0, <2>3, <3>0, <3>3, <4>2 DEF Solicitud
    <3>5. solicitudes'[s].kiosko \in Kioskos
      BY <1>0, <3>2, <3>3 DEF SigueSiendo
    <3>6. PeticionEnRegla(f)'
      BY <2>1, <3>2, <3>4, <3>5 DEF PeticionEnRegla
    <3> HIDE DEF f
    <3>7. QED
      BY <1>2, <2>1, <3>1, <3>6
  <2>4. QED
    BY <1>9, <2>2, <2>3 DEF KI!Canjea
<1>10. ASSUME NEW r \in Peticiones, KI!Heartbeat(r)
       PROVE  /\ DOMAIN peticiones' = Peticiones
              /\ \A q \in Peticiones : PeticionEnRegla(peticiones[q])'
  <2>1. peticiones' = [peticiones EXCEPT ![r] = KI!Libre] /\ UNCHANGED tabletas
    BY <1>10 DEF KI!Heartbeat
  <2>2. QED
    BY <1>1, <1>2, <2>1
<1>11. ASSUME NEW r \in Peticiones, KI!CreaSolicitud(r) \/ KI!Responde(r)
       PROVE  /\ DOMAIN peticiones' = Peticiones
              /\ \A q \in Peticiones : PeticionEnRegla(peticiones[q])'
  <2>1. peticiones' = [peticiones EXCEPT ![r] = KI!Libre]
    BY <1>11 DEF KI!CreaSolicitud, KI!Responde
  <2>2. Ocupada(r)
    BY <1>11 DEF KI!CreaSolicitud, KI!Responde, Ocupada, KI!Libre
  <2>3. QED
    BY <1>3, <2>1, <2>2
<1>12. QED
  BY <1>4, <1>5, <1>6, <1>7, <1>8, <1>9, <1>10, <1>11
     DEF KI!Next, KI!Vence, KI!Cancelar, KI!Aprobar, KI!Actualizar, KI!Desvincular, KI!Tic,
         KI!TicFalla, KI!Reinicia

LEMMA VinculosSiguen ==
    ASSUME VinculosEnRegla, [AvisosNext]_varsAvisos
    PROVE  VinculosEnRegla'
<1>1. CASE UNCHANGED varsK
  BY <1>1 DEF varsK, VinculosEnRegla, SolicitudesEnRegla, BienAprobada, TabletaEnRegla,
     PeticionEnRegla, Ocupada
<1>2. CASE KI!Next /\ DeKioskos
  <2>1. LosDemasSiguen
    BY <1>2, PasoDeLasSolicitudes
  <2>2. /\ tabletas' \in [Tabletas -> [guarda : Nat, pide : Nat]]
        /\ \A t \in Tabletas : TabletaEnRegla(t)'
        /\ \/ UNCHANGED tabletas
           \/ \E r \in Peticiones : Ocupada(r) /\ peticiones' = [peticiones EXCEPT ![r] = KI!Libre]
    BY <1>2, <2>1, TabletaQueCambia
  <2>3. SinSolapar
    BY <1>2 DEF DeKioskos
  <2>4. /\ DOMAIN peticiones' = Peticiones
        /\ \A r \in Peticiones : PeticionEnRegla(peticiones[r])'
    BY <1>2, <2>1, <2>2, <2>3, LasPeticionesEnRegla
  <2>5. \A r, q \in Peticiones : Ocupada(r)' /\ Ocupada(q)' => r = q
    BY <2>3, UnaSolaPeticion
  <2>6. SolicitudesEnRegla'
    BY <2>1 DEF LosDemasSiguen
  <2>7. QED
    BY <2>2, <2>4, <2>5, <2>6 DEF VinculosEnRegla
<1>3. QED
  BY <1>1, <1>2 DEF AvisosNext, varsAvisos, DeRecoger, DeChat

\* A tablet that had a kiosk of a store ends in another only if the administrator
\* approved it, for any number of tablets, kiosks and pairings, whatever answers are
\* lost and whoever dies, while no two of its requests overlap (aprobar, reclamar).
THEOREM MoverEsDelAdmin == AvisosSpec => SoloElAdminMueveTabletas
<1>1. AvisosInit => VinculosEnRegla
  <2> SUFFICES ASSUME AvisosInit
               PROVE  VinculosEnRegla
    OBVIOUS
  <2>1. /\ solicitudes = <<>> /\ peticiones = [r \in Peticiones |-> KI!Libre]
        /\ tabletas = [t \in Tabletas |-> [guarda |-> 0, pide |-> 0]]
    BY DEF AvisosInit, KI!Init
  <2>2. \A t \in Tabletas : TabletaEnRegla(t)
    BY <2>1 DEF TabletaEnRegla
  <2>3. PeticionEnRegla(KI!Libre)
    BY DEF PeticionEnRegla, KI!Libre
  <2>4. tabletas \in [Tabletas -> [guarda : Nat, pide : Nat]]
    BY <2>1
  <2>5. SolicitudesEnRegla
    BY <2>1 DEF SolicitudesEnRegla
  <2>6. QED
    BY <2>1, <2>2, <2>3, <2>4, <2>5 DEF VinculosEnRegla, Ocupada
<1>2. VinculosEnRegla /\ [AvisosNext]_varsAvisos => VinculosEnRegla'
  BY VinculosSiguen
<1>3. ASSUME VinculosEnRegla, [AvisosNext]_varsAvisos, NEW t \in Tabletas, tabletas[t].guarda # 0,
             TiendaQueGuarda(t)' # TiendaQueGuarda(t)
      PROVE  solicitudes[tabletas'[t].guarda].aprobo = "ADMIN"
  <2>0. /\ solicitudes \in Seq(Solicitud) /\ Len(solicitudes) \in Nat
        /\ DOMAIN solicitudes = 1..Len(solicitudes)
        /\ tabletas \in [Tabletas -> [guarda : Nat, pide : Nat]]
        /\ \A s \in DOMAIN solicitudes : BienAprobada(solicitudes[s])
        /\ TabletaEnRegla(t)
    BY <1>3 DEF VinculosEnRegla, SolicitudesEnRegla
  <2>1. /\ tabletas[t].guarda \in 1..Len(solicitudes)
        /\ solicitudes[tabletas[t].guarda].kiosko \in Kioskos
    BY <1>3, <2>0 DEF TabletaEnRegla
  <2>2. CASE UNCHANGED varsK
    BY <1>3, <2>2 DEF varsK, TiendaQueGuarda
  <2>3. CASE KI!Next /\ DeKioskos
    <3>1. LosDemasSiguen
      BY <1>3, <2>3, PasoDeLasSolicitudes
    <3>2. tabletas'[t].guarda # tabletas[t].guarda
      <4>1. solicitudes'[tabletas[t].guarda].kiosko = solicitudes[tabletas[t].guarda].kiosko
        BY <2>0, <2>1, <3>1 DEF LosDemasSiguen, SigueSiendo
      <4>2. QED
        BY <1>3, <4>1 DEF TiendaQueGuarda
    <3>3. PICK r \in Peticiones : KI!Responde(r)
      <4>1. ASSUME NEW r \in Peticiones, KI!CreaSolicitud(r)
            PROVE  tabletas'[t].guarda = tabletas[t].guarda
        BY <2>0, <4>1 DEF KI!CreaSolicitud
      <4>2. ~UNCHANGED tabletas
        BY <3>2
      <4>3. QED
        BY <2>3, <3>2, <4>1, <4>2
           DEF KI!Next, KI!Solicitar, KI!Reclamar, KI!ValidaToken, KI!Canjea, KI!Heartbeat,
               KI!Vence, KI!Cancelar, KI!Aprobar, KI!Actualizar, KI!Desvincular, KI!Tic,
               KI!TicFalla, KI!Reinicia
    <3>4. PICK u, id : u = peticiones[r].tableta /\ id = peticiones[r].id
      OBVIOUS
    <3>5. /\ tabletas' = [tabletas EXCEPT ![u].guarda = id] /\ UNCHANGED solicitudes
          /\ peticiones[r].op = "RESPONDER"
      BY <3>2, <3>3, <3>4 DEF KI!Responde
    <3>6. u = t /\ tabletas'[t].guarda = id
      BY <2>0, <3>2, <3>5
    <3>7. id # 0 /\ id = tabletas[t].pide /\ solicitudes[id].kiosko \in Kioskos
      <4>1. PeticionEnRegla(peticiones[r])
        BY <1>3 DEF VinculosEnRegla
      <4>2. /\ peticiones[r].id # 0 /\ peticiones[r].id = tabletas[peticiones[r].tableta].pide
            /\ solicitudes[peticiones[r].id].kiosko \in Kioskos
        BY <3>5, <4>1 DEF PeticionEnRegla
      <4>3. QED
        BY <3>4, <3>6, <4>2
    <3>8. id \in 1..Len(solicitudes)
          /\ solicitudes[id].pista = TiendaDelKiosko[solicitudes[tabletas[t].guarda].kiosko]
      BY <1>3, <2>0, <3>2, <3>6, <3>7 DEF TabletaEnRegla
    <3>9. solicitudes[id].pista # NADIE
      BY <2>1, <3>8, KioskosAssumption
    <3>10. TiendaDelKiosko[solicitudes[id].kiosko] # solicitudes[id].pista
      BY <1>3, <3>5, <3>6, <3>8 DEF TiendaQueGuarda
    <3>11. solicitudes[id].aprobo = "ADMIN"
      BY <2>0, <3>7, <3>8, <3>9, <3>10 DEF BienAprobada
    <3>12. QED
      BY <3>5, <3>6, <3>11
  <2>4. QED
    BY <1>3, <2>2, <2>3 DEF AvisosNext, varsAvisos, DeRecoger, DeChat
<1>4. VinculosEnRegla /\ [AvisosNext]_varsAvisos
         => [\A t \in Tabletas :
                /\ tabletas[t].guarda # 0
                /\ TiendaQueGuarda(t)' # TiendaQueGuarda(t)
                => solicitudes[tabletas'[t].guarda].aprobo = "ADMIN"]_varsAvisos
  BY <1>3
<1>5. QED
  BY <1>1, <1>2, <1>4, PTL DEF AvisosSpec, SoloElAdminMueveTabletas

-----------------------------------------------------------------------------
(* The bags nobody picks up.                                               *)

PedidosDeBolsa ==
    [estado : SR!ESTADOS, canal : {"WEB", "KIOSKO"}, anunciada : BOOLEAN,
     descartada : BOOLEAN, avisoViejo : BOOLEAN, espera : SR!ESPERAS,
     recordatorio : BOOLEAN, interes : Nat, descartes : Nat]

\* An order has its reminder at most once in a wait: the column says so, and only a
\* wait that starts again clears it.  A confirmation writes over the count it read,
\* which was under the limit.
RecordadoUnaVez ==
    /\ pedidos \in [Pedidos -> PedidosDeBolsa]
    /\ DOMAIN barridos = Instancias
    /\ DOMAIN peticionesS = UnaPeticion
    /\ \A r \in UnaPeticion :
          /\ peticionesS[r] = [op |-> peticionesS[r].op, ids |-> peticionesS[r].ids,
                               leido |-> peticionesS[r].leido]
          /\ peticionesS[r].op = "INTERES" =>
                peticionesS[r].leido \in Nat /\ peticionesS[r].leido < MAX_CONFIRMACIONES
    /\ recordados \in [Pedidos -> 0..1]
    /\ \A p \in Pedidos : recordados[p] = 1 => pedidos[p].recordatorio

\* From f to g the wait starts again, or what was reminded is still so.
OtraEspera(f, g) ==
    \/ f.estado \notin SR!ESTADOS_BOLSA_APARTADA /\ g.estado \in SR!ESTADOS_BOLSA_APARTADA
    \/ g.interes > f.interes
    \/ g.espera = "NULA"
Conserva(f, g) == f.recordatorio => g.recordatorio \/ OtraEspera(f, g)

LEMMA EstadosDeBolsa ==
    /\ SR!ESTADOS_BOLSA_APARTADA \subseteq SR!ESTADOS
    /\ {"REVISADO", "EN_ATENCION", "CANCELADO"} \subseteq SR!ESTADOS
    /\ {"NULA", "RECIENTE", "RECORDABLE", "VENCIDA"} \subseteq SR!ESPERAS
  BY DEF SR!ESTADOS_BOLSA_APARTADA, SR!ESTADOS, SR!ESTADOS_ESPERA_CLIENTE, SR!ESPERAS

\* cambiosDeEspera.
LEMMA ElCambioDeEspera ==
    ASSUME NEW f \in PedidosDeBolsa, NEW n \in SR!ESTADOS
    PROVE  /\ SR!ConEstado(f, n) \in PedidosDeBolsa
           /\ Conserva(f, SR!ConEstado(f, n))
<1>1. CASE f.estado \notin SR!ESTADOS_BOLSA_APARTADA /\ n \in SR!ESTADOS_BOLSA_APARTADA
  <2>1. SR!ConEstado(f, n) = [f EXCEPT !.estado = n, !.espera = "RECIENTE",
                                        !.recordatorio = FALSE, !.interes = 0]
    BY <1>1 DEF SR!ConEstado
  <2> DEFINE g == [f EXCEPT !.estado = n, !.espera = "RECIENTE", !.recordatorio = FALSE,
                            !.interes = 0]
  <2>2. "RECIENTE" \in SR!ESPERAS /\ 0 \in Nat
    BY EstadosDeBolsa
  <2>3. g \in PedidosDeBolsa /\ g.estado = n
    BY <2>2 DEF PedidosDeBolsa
  <2> HIDE DEF g
  <2>4. Conserva(f, g)
    BY <1>1, <2>3 DEF Conserva, OtraEspera
  <2>5. QED
    BY <2>1, <2>3, <2>4 DEF g
<1>2. CASE f.estado \in SR!ESTADOS_BOLSA_APARTADA /\ n \notin SR!ESTADOS_BOLSA_APARTADA
  <2>1. SR!ConEstado(f, n) = [f EXCEPT !.estado = n, !.espera = "NULA", !.recordatorio = FALSE]
    BY <1>2 DEF SR!ConEstado
  <2> DEFINE g == [f EXCEPT !.estado = n, !.espera = "NULA", !.recordatorio = FALSE]
  <2>2. "NULA" \in SR!ESPERAS
    BY EstadosDeBolsa
  <2>3. g \in PedidosDeBolsa /\ g.espera = "NULA"
    BY <2>2 DEF PedidosDeBolsa
  <2> HIDE DEF g
  <2>4. Conserva(f, g)
    BY <2>3 DEF Conserva, OtraEspera
  <2>5. QED
    BY <2>1, <2>3, <2>4 DEF g
<1>3. CASE \/ f.estado \in SR!ESTADOS_BOLSA_APARTADA /\ n \in SR!ESTADOS_BOLSA_APARTADA
           \/ f.estado \notin SR!ESTADOS_BOLSA_APARTADA /\ n \notin SR!ESTADOS_BOLSA_APARTADA
  <2>1. SR!ConEstado(f, n) = [f EXCEPT !.estado = n]
    BY <1>3 DEF SR!ConEstado
  <2>2. QED
    BY <2>1 DEF PedidosDeBolsa, Conserva, OtraEspera
<1>4. QED
  BY <1>1, <1>2, <1>3

\* A step that writes one order.
LEMMA UnPedidoCambia ==
    ASSUME RecordadoUnaVez, NEW p \in Pedidos, NEW g \in PedidosDeBolsa,
           Conserva(pedidos[p], g), pedidos' = [pedidos EXCEPT ![p] = g]
    PROVE  /\ pedidos' \in [Pedidos -> PedidosDeBolsa]
           /\ \A q \in Pedidos : Conserva(pedidos[q], pedidos'[q])
<1>1. pedidos \in [Pedidos -> PedidosDeBolsa]
  BY DEF RecordadoUnaVez
<1>2. \A q \in Pedidos : pedidos'[q] = IF q = p THEN g ELSE pedidos[q]
  BY <1>1
<1>3. pedidos' \in [Pedidos -> PedidosDeBolsa]
  BY <1>1
<1>4. QED
  BY <1>2, <1>3 DEF Conserva

LEMMA PasoDeUnPedido ==
    ASSUME RecordadoUnaVez, NEW p \in Pedidos,
           \/ \E e \in SR!ESTADOS : SR!Mueve(p, e)
           \/ \E c \in {"WEB", "KIOSKO"} : SR!RegistrarAviso(p, c)
           \/ SR!Llamar(p) \/ SR!Descartar(p) \/ SR!NoSePresento(p)
           \/ SR!Envejece(p) \/ SR!AvisoEnvejece(p)
    PROVE  /\ pedidos' \in [Pedidos -> PedidosDeBolsa]
           /\ \A q \in Pedidos : Conserva(pedidos[q], pedidos'[q])
<1> DEFINE f == pedidos[p]
<1>0. f \in PedidosDeBolsa /\ pedidos \in [Pedidos -> PedidosDeBolsa]
  BY DEF RecordadoUnaVez
<1>1. CASE \E e \in SR!ESTADOS : SR!Mueve(p, e)
  <2>1. PICK e \in SR!ESTADOS : pedidos' = [pedidos EXCEPT ![p] = SR!ConEstado(pedidos[p], e)]
    BY <1>1 DEF SR!Mueve
  <2>2. QED
    BY <1>0, <2>1, ElCambioDeEspera, UnPedidoCambia
<1>2. CASE SR!Llamar(p)
  <2>1. pedidos' = [pedidos EXCEPT ![p] = SR!ConEstado(pedidos[p], "EN_ATENCION")]
    BY <1>2 DEF SR!Llamar
  <2>2. QED
    BY <1>0, <2>1, ElCambioDeEspera, EstadosDeBolsa, UnPedidoCambia
<1>3. CASE \E c \in {"WEB", "KIOSKO"} : SR!RegistrarAviso(p, c)
  <2> DEFINE con == [f EXCEPT !.anunciada = TRUE, !.descartada = FALSE, !.avisoViejo = FALSE]
  <2>1. \/ pedidos' = [pedidos EXCEPT ![p] = con]
        \/ pedidos' = [pedidos EXCEPT ![p] = SR!ConEstado(con, "REVISADO")]
    BY <1>3 DEF SR!RegistrarAviso
  <2>2. /\ con \in PedidosDeBolsa
        /\ con.recordatorio = f.recordatorio /\ con.estado = f.estado /\ con.interes = f.interes
    BY <1>0 DEF PedidosDeBolsa
  <2> HIDE DEF con
  <2>3. Conserva(f, con)
    BY <2>2 DEF Conserva
  <2>4. /\ SR!ConEstado(con, "REVISADO") \in PedidosDeBolsa
        /\ Conserva(con, SR!ConEstado(con, "REVISADO"))
    BY <2>2, ElCambioDeEspera, EstadosDeBolsa
  <2>5. Conserva(f, SR!ConEstado(con, "REVISADO"))
    BY <2>2, <2>4 DEF Conserva, OtraEspera
  <2>6. QED
    BY <2>1, <2>2, <2>3, <2>4, <2>5, UnPedidoCambia
<1>4. ASSUME NEW g \in PedidosDeBolsa, Conserva(f, g), NEW h \in PedidosDeBolsa,
             h.recordatorio = g.recordatorio, h.estado = g.estado, h.interes = g.interes,
             h.espera = g.espera
      PROVE  Conserva(f, h)
  BY <1>4 DEF Conserva, OtraEspera
<1>5. ASSUME NEW g \in PedidosDeBolsa, Conserva(f, g)
      PROVE  /\ SR!Descartado(g) \in PedidosDeBolsa
             /\ Conserva(f, SR!Descartado(g))
  <2> DEFINE n == IF g.descartes < MAX_DESCARTES_WEB THEN g.descartes + 1 ELSE g.descartes
  <2>0. n \in Nat
    BY DEF PedidosDeBolsa
  <2>1. SR!Descartado(g) = [g EXCEPT !.descartada = TRUE, !.descartes = n]
    BY DEF SR!Descartado
  <2> HIDE DEF n
  <2> DEFINE h == [g EXCEPT !.descartada = TRUE, !.descartes = n]
  <2>2. /\ h \in PedidosDeBolsa
        /\ h.recordatorio = g.recordatorio /\ h.estado = g.estado /\ h.interes = g.interes
        /\ h.espera = g.espera
    BY <2>0 DEF PedidosDeBolsa
  <2> HIDE DEF h
  <2>3. Conserva(f, h)
    BY <1>4, <1>5, <2>2
  <2>4. QED
    BY <2>1, <2>2, <2>3 DEF h
<1>6. ASSUME NEW g \in PedidosDeBolsa, Conserva(f, g), NEW b \in BOOLEAN
      PROVE  /\ [g EXCEPT !.avisoViejo = b] \in PedidosDeBolsa
             /\ Conserva(f, [g EXCEPT !.avisoViejo = b])
  <2> DEFINE h == [g EXCEPT !.avisoViejo = b]
  <2>1. /\ h \in PedidosDeBolsa
        /\ h.recordatorio = g.recordatorio /\ h.estado = g.estado /\ h.interes = g.interes
        /\ h.espera = g.espera
    BY DEF PedidosDeBolsa
  <2> HIDE DEF h
  <2>2. Conserva(f, h)
    BY <1>4, <1>6, <2>1
  <2>3. QED
    BY <2>1, <2>2 DEF h
<1>7. /\ SR!ConEstado(f, "REVISADO") \in PedidosDeBolsa
      /\ Conserva(f, SR!ConEstado(f, "REVISADO"))
      /\ Conserva(f, f)
  BY <1>0, ElCambioDeEspera, EstadosDeBolsa DEF Conserva
<1>8. CASE SR!Descartar(p)
  <2>1. \/ pedidos' = [pedidos EXCEPT ![p] = SR!Descartado(SR!ConEstado(f, "REVISADO"))]
        \/ pedidos' = [pedidos EXCEPT ![p] = SR!Descartado(f)]
    BY <1>8 DEF SR!Descartar
  <2>2. QED
    BY <1>0, <1>5, <1>7, <2>1, UnPedidoCambia
<1>9. CASE SR!NoSePresento(p)
  <2> DEFINE g == SR!ConEstado(f, "REVISADO")
             h == [g EXCEPT !.avisoViejo = FALSE]
  <2>1. \/ pedidos' = [pedidos EXCEPT ![p] = h]
        \/ pedidos' = [pedidos EXCEPT ![p] = SR!Descartado(g)]
    BY <1>9 DEF SR!NoSePresento
  <2>2. h \in PedidosDeBolsa /\ Conserva(f, h)
    BY <1>6, <1>7
  <2> HIDE DEF h
  <2>3. QED
    BY <1>5, <1>7, <2>1, <2>2, UnPedidoCambia
<1>10. CASE SR!Envejece(p)
  <2>1. PICK e \in {"RECORDABLE", "VENCIDA"} :
           pedidos' = [pedidos EXCEPT ![p] = [f EXCEPT !.espera = e]]
    BY <1>10 DEF SR!Envejece
  <2>2. [f EXCEPT !.espera = e] \in PedidosDeBolsa
    BY <1>0, EstadosDeBolsa DEF PedidosDeBolsa
  <2>3. [f EXCEPT !.espera = e].recordatorio = f.recordatorio
    BY <1>0 DEF PedidosDeBolsa
  <2>4. QED
    BY <2>1, <2>2, <2>3, UnPedidoCambia DEF Conserva
<1>11. CASE SR!AvisoEnvejece(p)
  <2> DEFINE h == [f EXCEPT !.avisoViejo = TRUE]
  <2>1. pedidos' = [pedidos EXCEPT ![p] = h]
    BY <1>11 DEF SR!AvisoEnvejece
  <2>2. h \in PedidosDeBolsa /\ Conserva(f, h)
    BY <1>0, <1>6, <1>7
  <2> HIDE DEF h
  <2>3. QED
    BY <2>1, <2>2, UnPedidoCambia
<1>12. QED
  BY <1>1, <1>2, <1>3, <1>8, <1>9, <1>10, <1>11

\* The whole step: the rest of the requests and the sweep.
LEMMA PasoDeLosPedidos ==
    ASSUME RecordadoUnaVez, SR!Next
    PROVE  /\ pedidos' \in [Pedidos -> PedidosDeBolsa]
           /\ \A q \in Pedidos : Conserva(pedidos[q], pedidos'[q])
<1>0. pedidos \in [Pedidos -> PedidosDeBolsa]
  BY DEF RecordadoUnaVez
<1>1. CASE UNCHANGED pedidos
  BY <1>0, <1>1 DEF Conserva
<1>2. ASSUME NEW r \in UnaPeticion, SR!RetirarPorCliente(r)
      PROVE  /\ pedidos' \in [Pedidos -> PedidosDeBolsa]
             /\ \A q \in Pedidos : Conserva(pedidos[q], pedidos'[q])
  <2>1. pedidos' = [q \in Pedidos |-> IF q \in peticionesS[r].ids
                       THEN [pedidos[q] EXCEPT !.descartada = TRUE] ELSE pedidos[q]]
    BY <1>2 DEF SR!RetirarPorCliente
  <2>2. ASSUME NEW f \in PedidosDeBolsa
        PROVE  /\ [f EXCEPT !.descartada = TRUE] \in PedidosDeBolsa
               /\ Conserva(f, [f EXCEPT !.descartada = TRUE]) /\ Conserva(f, f)
    BY DEF PedidosDeBolsa, Conserva
  <2>3. QED
    BY <1>0, <2>1, <2>2
<1>3. ASSUME NEW r \in UnaPeticion, SR!ConfirmarInteres(r)
      PROVE  /\ pedidos' \in [Pedidos -> PedidosDeBolsa]
             /\ \A q \in Pedidos : Conserva(pedidos[q], pedidos'[q])
  <2> DEFINE Con(f) == [f EXCEPT !.espera = "RECIENTE", !.recordatorio = FALSE,
                                 !.interes = f.interes + 1]
  <2>1. pedidos' = [q \in Pedidos |->
           IF q \in peticionesS[r].ids /\ pedidos[q].interes = peticionesS[r].leido
           THEN [pedidos[q] EXCEPT !.espera = "RECIENTE", !.recordatorio = FALSE,
                   !.interes = IF @ < MAX_CONFIRMACIONES THEN @ + 1 ELSE @]
           ELSE pedidos[q]]
    BY <1>3 DEF SR!ConfirmarInteres
  <2>2. peticionesS[r].leido < MAX_CONFIRMACIONES
    BY <1>3 DEF RecordadoUnaVez, SR!ConfirmarInteres
  <2>3. \A q \in Pedidos : pedidos'[q] = Con(pedidos[q]) \/ pedidos'[q] = pedidos[q]
    BY <2>1, <2>2
  <2>4. DOMAIN pedidos' = Pedidos /\ pedidos' = [q \in Pedidos |-> pedidos'[q]]
    BY <2>1
  <2>5. ASSUME NEW f \in PedidosDeBolsa
        PROVE  Con(f) \in PedidosDeBolsa /\ Conserva(f, Con(f)) /\ Conserva(f, f)
    <3>1. f.interes \in Nat /\ f.interes + 1 \in Nat /\ f.interes + 1 > f.interes
      BY DEF PedidosDeBolsa
    <3>2. "RECIENTE" \in SR!ESPERAS
      BY EstadosDeBolsa
    <3>3. Con(f) \in PedidosDeBolsa /\ Con(f).interes = f.interes + 1
      BY <3>1, <3>2 DEF PedidosDeBolsa
    <3> HIDE DEF Con
    <3>4. QED
      BY <3>1, <3>3 DEF Conserva, OtraEspera
  <2> HIDE DEF Con
  <2>6. QED
    BY <1>0, <2>3, <2>4, <2>5
<1>4. ASSUME NEW r \in UnaPeticion, NEW p \in Pedidos, SR!CancelaUno(r, p)
      PROVE  /\ pedidos' \in [Pedidos -> PedidosDeBolsa]
             /\ \A q \in Pedidos : Conserva(pedidos[q], pedidos'[q])
  <2>1. \/ pedidos' = [pedidos EXCEPT ![p] = SR!ConEstado(pedidos[p], "CANCELADO")]
        \/ UNCHANGED pedidos
    BY <1>4 DEF SR!CancelaUno
  <2>2. QED
    BY <1>0, <1>1, <2>1, ElCambioDeEspera, EstadosDeBolsa, UnPedidoCambia
<1>5. ASSUME NEW w \in Instancias, NEW p \in Pedidos, SR!CaducaUna(w, p)
      PROVE  /\ pedidos' \in [Pedidos -> PedidosDeBolsa]
             /\ \A q \in Pedidos : Conserva(pedidos[q], pedidos'[q])
  <2> DEFINE g == [pedidos[p] EXCEPT !.descartada = TRUE]
  <2>1. pedidos' = [pedidos EXCEPT ![p] = g] \/ UNCHANGED pedidos
    BY <1>5 DEF SR!CaducaUna
  <2>2. g \in PedidosDeBolsa /\ Conserva(pedidos[p], g)
    BY <1>0 DEF PedidosDeBolsa, Conserva
  <2> HIDE DEF g
  <2>3. QED
    BY <1>1, <2>1, <2>2, UnPedidoCambia
<1>6. ASSUME NEW w \in Instancias, NEW p \in Pedidos, SR!MandaRecordatorio(w, p)
      PROVE  /\ pedidos' \in [Pedidos -> PedidosDeBolsa]
             /\ \A q \in Pedidos : Conserva(pedidos[q], pedidos'[q])
  <2> DEFINE g == [pedidos[p] EXCEPT !.recordatorio = TRUE]
  <2>1. pedidos' = [pedidos EXCEPT ![p] = g]
    BY <1>6 DEF SR!MandaRecordatorio
  <2>2. g \in PedidosDeBolsa /\ Conserva(pedidos[p], g)
    BY <1>0 DEF PedidosDeBolsa, Conserva
  <2> HIDE DEF g
  <2>3. QED
    BY <2>1, <2>2, UnPedidoCambia
<1>7. \/ UNCHANGED pedidos
      \/ \E p \in Pedidos :
            \/ \E e \in SR!ESTADOS : SR!Mueve(p, e)
            \/ \E c \in {"WEB", "KIOSKO"} : SR!RegistrarAviso(p, c)
            \/ SR!Llamar(p) \/ SR!Descartar(p) \/ SR!NoSePresento(p)
            \/ SR!Envejece(p) \/ SR!AvisoEnvejece(p)
      \/ \E r \in UnaPeticion : SR!RetirarPorCliente(r) \/ SR!ConfirmarInteres(r)
      \/ \E r \in UnaPeticion, p \in Pedidos : SR!CancelaUno(r, p)
      \/ \E w \in Instancias, p \in Pedidos : SR!CaducaUna(w, p) \/ SR!MandaRecordatorio(w, p)
  BY DEF SR!Next, SR!LeeRetirar, SR!LeeInteres, SR!LeeVencidos, SR!Ocupa, SR!Abandona,
         SR!Trabajador, SR!Barrer, SR!LeeRecordables, SR!TerminaBarrido, SR!YaRecordado,
         SR!Muere
<1>8. QED
  BY <1>1, <1>2, <1>3, <1>4, <1>5, <1>6, <1>7, PasoDeUnPedido

\* What a confirmation has read was under the limit when it was read.
LEMMA PasoDeLasPeticiones ==
    ASSUME RecordadoUnaVez, SR!Next
    PROVE  /\ DOMAIN barridos' = Instancias
           /\ DOMAIN peticionesS' = UnaPeticion
           /\ \A r \in UnaPeticion :
                 /\ peticionesS'[r] = [op |-> peticionesS'[r].op, ids |-> peticionesS'[r].ids,
                                       leido |-> peticionesS'[r].leido]
                 /\ peticionesS'[r].op = "INTERES" =>
                       /\ peticionesS'[r].leido \in Nat
                       /\ peticionesS'[r].leido < MAX_CONFIRMACIONES
<1> DEFINE EnRegla(f) ==
              /\ f = [op |-> f.op, ids |-> f.ids, leido |-> f.leido]
              /\ f.op = "INTERES" => f.leido \in Nat /\ f.leido < MAX_CONFIRMACIONES
<1>0. /\ DOMAIN barridos = Instancias /\ DOMAIN peticionesS = UnaPeticion
      /\ \A r \in UnaPeticion : EnRegla(peticionesS[r])
      /\ \A p \in Pedidos : pedidos[p].interes \in Nat
  BY DEF RecordadoUnaVez, PedidosDeBolsa
<1>1. DOMAIN barridos' = Instancias
  BY <1>0 DEF SR!Next, SR!Mueve, SR!RegistrarAviso, SR!Llamar, SR!Descartar,
     SR!NoSePresento, SR!Envejece, SR!AvisoEnvejece, SR!LeeRetirar, SR!LeeInteres,
     SR!LeeVencidos, SR!Ocupa, SR!CancelaUno, SR!RetirarPorCliente, SR!ConfirmarInteres,
     SR!Abandona, SR!Trabajador, SR!Barrer, SR!LeeRecordables, SR!TerminaBarrido,
     SR!YaRecordado, SR!Muere, SR!CaducaUna, SR!MandaRecordatorio, SR!Fase
<1>2. ASSUME NEW r \in UnaPeticion, NEW f, EnRegla(f),
             peticionesS' = [peticionesS EXCEPT ![r] = f]
      PROVE  /\ DOMAIN peticionesS' = UnaPeticion
             /\ \A q \in UnaPeticion : EnRegla(peticionesS'[q])
  <2>1. DOMAIN peticionesS' = UnaPeticion
        /\ \A q \in UnaPeticion : peticionesS'[q] = IF q = r THEN f ELSE peticionesS[q]
    BY <1>0, <1>2
  <2> HIDE DEF EnRegla
  <2>2. QED
    BY <1>0, <1>2, <2>1
<1>3. EnRegla(SR!Libre)
  BY DEF SR!Libre
<1>4. ASSUME NEW o, NEW ids, NEW n, o = "INTERES" => n \in Nat /\ n < MAX_CONFIRMACIONES
      PROVE  EnRegla([op |-> o, ids |-> ids, leido |-> n])
  BY <1>4
<1>5. ASSUME NEW r \in UnaPeticion, NEW o \in {"RETIRAR", "LOTE"}, NEW ids,
             peticionesS' = [peticionesS EXCEPT ![r] = [op |-> o, ids |-> ids, leido |-> 0]]
      PROVE  /\ DOMAIN peticionesS' = UnaPeticion
             /\ \A q \in UnaPeticion : EnRegla(peticionesS'[q])
  <2>1. EnRegla([op |-> o, ids |-> ids, leido |-> 0])
    BY <1>4
  <2> HIDE DEF EnRegla
  <2>2. QED
    BY <1>2, <1>5, <2>1
<1>6. ASSUME NEW r \in UnaPeticion, NEW p \in Pedidos, SR!LeeInteres(r, p)
      PROVE  /\ DOMAIN peticionesS' = UnaPeticion
             /\ \A q \in UnaPeticion : EnRegla(peticionesS'[q])
  <2>1. peticionesS' = [peticionesS EXCEPT
           ![r] = [op |-> "INTERES", ids |-> {p}, leido |-> pedidos[p].interes]]
    BY <1>6 DEF SR!LeeInteres, SR!Ocupa
  <2>2. pedidos[p].interes \in Nat /\ pedidos[p].interes < MAX_CONFIRMACIONES
    BY <1>0, <1>6 DEF SR!LeeInteres, SR!PuedeConfirmar
  <2>3. EnRegla([op |-> "INTERES", ids |-> {p}, leido |-> pedidos[p].interes])
    BY <1>4, <2>2
  <2> HIDE DEF EnRegla
  <2>4. QED
    BY <1>2, <2>1, <2>3
<1>7. ASSUME NEW r \in UnaPeticion, NEW p \in Pedidos, SR!CancelaUno(r, p)
      PROVE  /\ DOMAIN peticionesS' = UnaPeticion
             /\ \A q \in UnaPeticion : EnRegla(peticionesS'[q])
  <2> DEFINE quedan == peticionesS[r].ids \ {p}
  <2>1. \/ peticionesS' = [peticionesS EXCEPT ![r] = SR!Libre]
        \/ peticionesS' = [peticionesS EXCEPT
                ![r] = [op |-> "LOTE", ids |-> quedan, leido |-> 0]]
    BY <1>7 DEF SR!CancelaUno
  <2> HIDE DEF quedan, EnRegla
  <2>2. QED
    BY <1>2, <1>3, <1>5, <2>1
<1>8. ASSUME NEW r \in UnaPeticion,
             \/ \E p \in Pedidos : SR!LeeRetirar(r, p)
             \/ \E ids \in SUBSET Pedidos : SR!LeeVencidos(r, ids)
      PROVE  /\ DOMAIN peticionesS' = UnaPeticion
             /\ \A q \in UnaPeticion : EnRegla(peticionesS'[q])
  <2>1. PICK ids \in SUBSET Pedidos :
           SR!Ocupa(r, "RETIRAR", ids, 0) \/ SR!Ocupa(r, "LOTE", ids, 0)
    BY <1>8 DEF SR!LeeRetirar, SR!LeeVencidos
  <2> HIDE DEF EnRegla
  <2>2. QED
    BY <1>5, <2>1 DEF SR!Ocupa
<1>9. \/ UNCHANGED peticionesS
      \/ \E r \in UnaPeticion : peticionesS' = [peticionesS EXCEPT ![r] = SR!Libre]
      \/ \E r \in UnaPeticion :
            \/ \E p \in Pedidos : SR!LeeRetirar(r, p)
            \/ \E ids \in SUBSET Pedidos : SR!LeeVencidos(r, ids)
      \/ \E r \in UnaPeticion, p \in Pedidos : SR!CancelaUno(r, p) \/ SR!LeeInteres(r, p)
  BY DEF SR!Next, SR!Mueve, SR!RegistrarAviso, SR!Llamar, SR!Descartar,
     SR!NoSePresento, SR!Envejece, SR!AvisoEnvejece, SR!RetirarPorCliente,
     SR!ConfirmarInteres, SR!Abandona, SR!Trabajador, SR!Barrer, SR!LeeRecordables,
     SR!TerminaBarrido, SR!YaRecordado, SR!Muere, SR!CaducaUna, SR!MandaRecordatorio,
     SR!Termina
<1>10. /\ DOMAIN peticionesS' = UnaPeticion
       /\ \A r \in UnaPeticion : EnRegla(peticionesS'[r])
  <2> HIDE DEF EnRegla
  <2>1. CASE UNCHANGED peticionesS
    BY <1>0, <2>1
  <2>2. QED
    BY <1>2, <1>3, <1>6, <1>7, <1>8, <1>9, <2>1
<1>11. QED
  BY <1>1, <1>10

\* A mail goes only with the claim of its reminder.
LEMMA ElCorreoReclama ==
    ASSUME RecordadoUnaVez, SR!Next, NEW p \in Pedidos, MandaCorreo(p)
    PROVE  ~pedidos[p].recordatorio /\ pedidos'[p].recordatorio
<1>1. PICK w \in Instancias :
         /\ barridos[w].fase = "RECORDAR" /\ barridos'[w].fase = "RECORDAR"
         /\ p \in barridos[w].quedan \ barridos'[w].quedan
  BY DEF MandaCorreo
<1>2. ~pedidos[p].recordatorio
  BY DEF MandaCorreo, SR!SinReclamar
<1>3. barridos'[w] # barridos[w]
  BY <1>1
<1>4. DOMAIN barridos = Instancias /\ pedidos \in [Pedidos -> PedidosDeBolsa]
  BY DEF RecordadoUnaVez
<1>5. \/ \E v \in Instancias : barridos' = [barridos EXCEPT ![v] = SR!Dormido]
      \/ \E v \in Instancias : \E ps : SR!Fase(v, "CADUCAR", ps)
      \/ \E v \in Instancias : SR!LeeRecordables(v)
      \/ \E v \in Instancias, q \in Pedidos : SR!MandaRecordatorio(v, q) \/ SR!YaRecordado(v, q)
  <2>1. ~UNCHANGED barridos
    BY <1>3
  <2>2. QED
    BY <2>1 DEF SR!Next, SR!Mueve, SR!RegistrarAviso, SR!Llamar, SR!Descartar,
     SR!NoSePresento, SR!Envejece, SR!AvisoEnvejece, SR!LeeRetirar, SR!LeeInteres,
     SR!LeeVencidos, SR!Ocupa, SR!CancelaUno, SR!RetirarPorCliente, SR!ConfirmarInteres,
     SR!Abandona, SR!Trabajador, SR!Barrer, SR!TerminaBarrido, SR!Muere, SR!CaducaUna
<1>6. ASSUME NEW v \in Instancias, barridos' = [barridos EXCEPT ![v] = SR!Dormido]
      PROVE  FALSE
  BY <1>1, <1>3, <1>4, <1>6 DEF SR!Dormido
<1>7. ASSUME NEW v \in Instancias, NEW ps, SR!Fase(v, "CADUCAR", ps)
      PROVE  FALSE
  BY <1>1, <1>3, <1>4, <1>7 DEF SR!Fase
<1>8. ASSUME NEW v \in Instancias, SR!LeeRecordables(v)
      PROVE  FALSE
  <2>1. barridos[v] = [fase |-> "CADUCAR", quedan |-> {}]
    BY <1>8 DEF SR!LeeRecordables
  <2>2. v = w
    BY <1>3, <1>4, <1>8 DEF SR!LeeRecordables, SR!Fase
  <2>3. QED
    BY <1>1, <2>1, <2>2
<1>9. ASSUME NEW v \in Instancias, NEW q \in Pedidos,
             SR!MandaRecordatorio(v, q) \/ SR!YaRecordado(v, q)
      PROVE  pedidos'[p].recordatorio
  <2>1. barridos' = [barridos EXCEPT
           ![v] = [fase |-> "RECORDAR", quedan |-> barridos[v].quedan \ {q}]]
    BY <1>9 DEF SR!MandaRecordatorio, SR!YaRecordado, SR!Fase
  <2>2. v = w
    BY <1>3, <1>4, <2>1
  <2>3. q = p
    BY <1>1, <1>4, <2>1, <2>2
  <2>4. SR!MandaRecordatorio(v, p)
    BY <1>2, <1>9, <2>3 DEF SR!YaRecordado, SR!SinReclamar
  <2>5. pedidos' = [pedidos EXCEPT ![p] = [pedidos[p] EXCEPT !.recordatorio = TRUE]]
    BY <2>4 DEF SR!MandaRecordatorio
  <2>6. QED
    BY <1>4, <2>5 DEF PedidosDeBolsa
<1>10. QED
  BY <1>2, <1>5, <1>6, <1>7, <1>8, <1>9

LEMMA RecordadoSigue ==
    ASSUME RecordadoUnaVez, [AvisosNext]_varsAvisos
    PROVE  RecordadoUnaVez'
<1>1. CASE UNCHANGED varsS
  BY <1>1 DEF varsS, RecordadoUnaVez
<1>2. CASE SR!Next /\ DeRecoger
  <2>1. recordados' = [p \in Pedidos |->
           IF EmpiezaEspera(p) THEN 0
           ELSE IF MandaCorreo(p) THEN recordados[p] + 1 ELSE recordados[p]]
    BY <1>2 DEF DeRecoger
  <2>2. /\ pedidos' \in [Pedidos -> PedidosDeBolsa]
        /\ \A q \in Pedidos : Conserva(pedidos[q], pedidos'[q])
    BY <1>2, PasoDeLosPedidos
  <2>3. ASSUME NEW p \in Pedidos
        PROVE  recordados'[p] \in 0..1
               /\ (recordados'[p] = 1 => pedidos'[p].recordatorio)
    <3>0. recordados[p] \in 0..1 /\ (recordados[p] = 1 => pedidos[p].recordatorio)
      BY DEF RecordadoUnaVez
    <3>1. CASE EmpiezaEspera(p)
      BY <2>1, <3>1
    <3>2. CASE ~EmpiezaEspera(p) /\ MandaCorreo(p)
      <4>1. ~pedidos[p].recordatorio /\ pedidos'[p].recordatorio
        BY <1>2, <3>2, ElCorreoReclama
      <4>2. recordados[p] = 0
        BY <3>0, <4>1
      <4>3. recordados'[p] = 1
        BY <2>1, <3>2, <4>2
      <4>4. QED
        BY <4>1, <4>3
    <3>3. CASE ~EmpiezaEspera(p) /\ ~MandaCorreo(p)
      <4>1. recordados'[p] = recordados[p]
        BY <2>1, <3>3
      <4>2. ~OtraEspera(pedidos[p], pedidos'[p])
        BY <3>3 DEF OtraEspera, EmpiezaEspera
      <4>3. QED
        BY <2>2, <3>0, <4>1, <4>2 DEF Conserva
    <3>4. QED
      BY <3>1, <3>2, <3>3
  <2>4. recordados' \in [Pedidos -> 0..1]
    BY <2>1, <2>3
  <2>5. QED
    BY <1>2, <2>2, <2>3, <2>4, PasoDeLasPeticiones DEF RecordadoUnaVez
<1>3. QED
  BY <1>1, <1>2 DEF AvisosNext, varsAvisos, DeKioskos, DeChat

\* A wait gets one reminder, whatever the sweeps, the deaths and the confirmations
\* that coincide, with any number of orders and of processes (barrerRecordatorios).
THEOREM UnSoloRecordatorio == AvisosSpec => []UnRecordatorioPorEspera
<1>1. AvisosInit => RecordadoUnaVez
  <2> SUFFICES ASSUME AvisosInit
               PROVE  RecordadoUnaVez
    OBVIOUS
  <2>1. "ANTES" \in SR!ESTADOS /\ "NULA" \in SR!ESPERAS /\ 0 \in Nat
    BY DEF SR!ESTADOS, SR!ESPERAS
  <2>2. pedidos \in [Pedidos -> PedidosDeBolsa]
    <3>1. \A c \in {"WEB", "KIOSKO"} :
             [estado |-> "ANTES", canal |-> c, anunciada |-> FALSE, descartada |-> FALSE,
              avisoViejo |-> FALSE, espera |-> "NULA", recordatorio |-> FALSE,
              interes |-> 0, descartes |-> 0] \in PedidosDeBolsa
      BY <2>1 DEF PedidosDeBolsa
    <3>2. QED
      BY <3>1 DEF AvisosInit, SR!Init
  <2>3. QED
    BY <2>2 DEF AvisosInit, SR!Init, SR!Libre, RecordadoUnaVez
<1>2. RecordadoUnaVez /\ [AvisosNext]_varsAvisos => RecordadoUnaVez'
  BY RecordadoSigue
<1>3. RecordadoUnaVez => UnRecordatorioPorEspera
  BY DEF RecordadoUnaVez, UnRecordatorioPorEspera
<1>4. QED
  BY <1>1, <1>2, <1>3, PTL DEF AvisosSpec

-----------------------------------------------------------------------------
(* The chat of an order.                                                   *)

Mensaje == [autor : ME!Lados, visible : BOOLEAN, confirmado : BOOLEAN]

\* A request to mark as read goes no further than what its side has seen.
PideLoVisto(f) ==
    /\ f = [op |-> f.op, lado |-> f.lado, id |-> f.id]
    /\ f.lado \in ME!Lados /\ f.id \in Nat
    /\ f.op = "LEIDO" => \E j \in visto[f.lado] : f.id <= j

\* A side has read no further than what it has seen and, while no message has
\* overtaken an open transaction, what it has not seen came after all it has.
LeidoEnRegla ==
    /\ mensajes \in Seq(Mensaje)
    /\ leido \in [ME!Lados -> Nat]
    /\ DOMAIN visto = ME!Lados
    /\ DOMAIN peticionesM = Peticiones
    /\ \A l \in ME!Lados :
          /\ visto[l] \subseteq ME!VisiblesPara(l)
          /\ leido[l] = 0 \/ \E j \in visto[l] : leido[l] <= j
    /\ \A r \in Peticiones : PideLoVisto(peticionesM[r])
    /\ ~cruce => \A l \in ME!Lados : \A i \in ME!VisiblesPara(l) \ visto[l] :
                    \A j \in visto[l] : j < i

LEMMA ElMayor ==
    ASSUME NEW S, S \subseteq Nat, S # {}, NEW n \in Nat, \A x \in S : x <= n
    PROVE  ME!Max(S) \in S
<1> DEFINE T == {n - x : x \in S}
<1>1. T \subseteq Nat /\ T # {}
  <2>1. ASSUME NEW x \in S
        PROVE  n - x \in Nat
    <3>1. x \in Nat /\ x <= n
      OBVIOUS
    <3>2. QED
      BY <3>1
  <2>2. T \subseteq Nat
    BY <2>1
  <2>3. PICK x : x \in S
    OBVIOUS
  <2>4. n - x \in T
    BY <2>3
  <2>5. QED
    BY <2>2, <2>4
<1>2. Min(T) \in T /\ \A y \in T : Min(T) <= y
  BY <1>1, ElMenor
<1>3. PICK m \in S : Min(T) = n - m
  BY <1>2
<1>4. \A x \in S : m >= x
  <2>1. ASSUME NEW x \in S
        PROVE  m >= x
    <3>1. n - m <= n - x
      BY <1>2, <1>3
    <3>2. m \in Nat /\ x \in Nat
      OBVIOUS
    <3>3. QED
      BY <3>1, <3>2
  <2>2. QED
    BY <2>1
<1>5. QED
  BY <1>4 DEF ME!Max

LEMMA DeDosNumeros ==
    ASSUME NEW a \in Nat, NEW b \in Nat
    PROVE  /\ ME!Max({a, b}) \in {a, b}
           /\ ME!Min({a, b}) \in {a, b} /\ ME!Min({a, b}) <= a
<1>1. ME!Max({a, b}) \in {a, b}
  <2>1. \E x \in {a, b} : \A y \in {a, b} : x >= y
    OBVIOUS
  <2>2. QED
    BY <2>1 DEF ME!Max
<1>2. ME!Min({a, b}) \in {a, b} /\ \A y \in {a, b} : ME!Min({a, b}) <= y
  <2>1. \E x \in {a, b} : \A y \in {a, b} : x <= y
    OBVIOUS
  <2>2. QED
    BY <2>1 DEF ME!Min
<1>3. QED
  BY <1>1, <1>2

\* What a step does to the messages: none, one more, or one that commits.
LEMMA PasoDeLosMensajes ==
    ASSUME LeidoEnRegla, ME!Next
    PROVE  \/ UNCHANGED mensajes
           \/ \E m \in Mensaje : mensajes' = Append(mensajes, m)
           \/ \E r \in Peticiones :
                 /\ peticionesM[r].op = "CONFIRMAR"
                 /\ mensajes' = [mensajes EXCEPT ![peticionesM[r].id].confirmado = TRUE]
<1>1. CASE UNCHANGED mensajes
  BY <1>1
<1>2. ASSUME NEW r \in Peticiones, NEW autor \in ME!Lados, NEW visible \in BOOLEAN,
             ME!Crear(r, autor, visible)
      PROVE  \E m \in Mensaje : mensajes' = Append(mensajes, m)
  <2>1. [autor |-> autor, visible |-> visible, confirmado |-> TRUE] \in Mensaje
    BY DEF Mensaje
  <2>2. QED
    BY <1>2, <2>1 DEF ME!Crear
<1>3. ASSUME NEW r \in Peticiones, NEW autor \in ME!Lados, ME!InsertaConAdjunto(r, autor)
      PROVE  \E m \in Mensaje : mensajes' = Append(mensajes, m)
  <2>1. [autor |-> autor, visible |-> TRUE, confirmado |-> FALSE] \in Mensaje
    BY DEF Mensaje
  <2>2. QED
    BY <1>3, <2>1 DEF ME!InsertaConAdjunto
<1>4. CASE \E r \in Peticiones : ME!CrearConAdjunto(r)
  BY <1>4 DEF ME!CrearConAdjunto
<1>5. QED
  BY <1>1, <1>2, <1>3, <1>4
     DEF ME!Next, ME!LeeUltimo, ME!MiraEnviado, ME!MarcaEnviado, ME!SendEmail,
         ME!AvanzaLeido, ME!AvanzaEntregado, ME!Abandona, ME!Listar

\* What a side may see only grows; while no message overtakes an open transaction,
\* with what comes after all of it.
LEMMA LoVisibleCrece ==
    ASSUME LeidoEnRegla, ME!Next, DeChat, NEW l \in ME!Lados
    PROVE  /\ mensajes' \in Seq(Mensaje)
           /\ ME!VisiblesPara(l) \subseteq ME!VisiblesPara(l)'
           /\ ~cruce' => \A i \in ME!VisiblesPara(l)' \ ME!VisiblesPara(l) :
                            \A j \in ME!VisiblesPara(l) : j < i
<1>0. mensajes \in Seq(Mensaje)
  BY DEF LeidoEnRegla
<1>1. CASE UNCHANGED mensajes
  BY <1>0, <1>1 DEF ME!VisiblesPara, ME!Confirmados
<1>2. ASSUME NEW m \in Mensaje, mensajes' = Append(mensajes, m)
      PROVE  /\ mensajes' \in Seq(Mensaje)
             /\ ME!VisiblesPara(l) \subseteq ME!VisiblesPara(l)'
             /\ \A i \in ME!VisiblesPara(l)' \ ME!VisiblesPara(l) :
                   \A j \in ME!VisiblesPara(l) : j < i
  <2>1. /\ mensajes' \in Seq(Mensaje) /\ Len(mensajes') = Len(mensajes) + 1
        /\ Len(mensajes) \in Nat
        /\ \A i \in 1..Len(mensajes) : mensajes'[i] = mensajes[i]
        /\ DOMAIN mensajes = 1..Len(mensajes) /\ DOMAIN mensajes' = 1..Len(mensajes')
    BY <1>0, <1>2
  <2>2. QED
    BY <2>1 DEF ME!VisiblesPara, ME!Confirmados
<1>3. ASSUME NEW r \in Peticiones, peticionesM[r].op = "CONFIRMAR",
             mensajes' = [mensajes EXCEPT ![peticionesM[r].id].confirmado = TRUE]
      PROVE  /\ mensajes' \in Seq(Mensaje)
             /\ ME!VisiblesPara(l) \subseteq ME!VisiblesPara(l)'
             /\ ~cruce' => \A i \in ME!VisiblesPara(l)' \ ME!VisiblesPara(l) :
                              \A j \in ME!VisiblesPara(l) : j < i
  <2> DEFINE id == peticionesM[r].id
             m == [mensajes[id] EXCEPT !.confirmado = TRUE]
  <2>1. mensajes' = [mensajes EXCEPT ![id] = m] /\ id \in Nat
    BY <1>3 DEF LeidoEnRegla, PideLoVisto
  <2>2. ~cruce' => ~(Len(mensajes') > id)
    BY <1>3 DEF DeChat
  <2>3. CASE id \notin 1..Len(mensajes)
    <3>1. mensajes' = mensajes
      BY <1>0, <2>1, <2>3
    <3>2. QED
      BY <1>1, <3>1
  <2>4. CASE id \in 1..Len(mensajes)
    <3>0. ASSUME NEW e \in Mensaje
          PROVE  /\ [e EXCEPT !.confirmado = TRUE] \in Mensaje
                 /\ [e EXCEPT !.confirmado = TRUE].visible = e.visible
                 /\ [e EXCEPT !.confirmado = TRUE].confirmado
      BY DEF Mensaje
    <3>1. m \in Mensaje /\ m.visible = mensajes[id].visible /\ m.confirmado
      <4>1. mensajes[id] \in Mensaje
        BY <1>0, <2>4
      <4>2. QED
        BY <3>0, <4>1
    <3> HIDE DEF id, m
    <3>2. mensajes' \in Seq(Mensaje) /\ Len(mensajes') = Len(mensajes)
      BY <1>0, <2>1, <2>4, <3>1, ExceptSeq
    <3>3. /\ Len(mensajes) \in Nat
          /\ DOMAIN mensajes = 1..Len(mensajes) /\ DOMAIN mensajes' = DOMAIN mensajes
          /\ \A i \in DOMAIN mensajes : mensajes'[i] = IF i = id THEN m ELSE mensajes[i]
      BY <1>0, <2>1, <3>2
    <3>4. ME!VisiblesPara(l) \subseteq ME!VisiblesPara(l)'
      BY <3>1, <3>3 DEF ME!VisiblesPara, ME!Confirmados
    <3>5. ASSUME NEW i \in ME!VisiblesPara(l)', i \notin ME!VisiblesPara(l)
          PROVE  i = id
      BY <3>3, <3>5 DEF ME!VisiblesPara, ME!Confirmados
    <3>6. ME!VisiblesPara(l) \subseteq 1..Len(mensajes)
      BY <3>3 DEF ME!VisiblesPara, ME!Confirmados
    <3>7. QED
      BY <2>1, <2>2, <3>2, <3>3, <3>4, <3>5, <3>6
  <2>5. QED
    BY <2>3, <2>4
<1>4. QED
  BY <1>1, <1>2, <1>3, PasoDeLosMensajes

\* What a side has seen: as before, or all it may see.
LEMMA LoVistoCrece ==
    ASSUME LeidoEnRegla, ME!Next, DeChat
    PROVE  /\ DOMAIN visto' = ME!Lados
           /\ \A l \in ME!Lados :
                 /\ visto[l] \subseteq visto'[l]
                 /\ \/ visto'[l] = visto[l]
                    \/ visto'[l] = ME!VisiblesPara(l)' /\ UNCHANGED mensajes
<1>0. /\ DOMAIN visto = ME!Lados
      /\ \A l \in ME!Lados : visto[l] \subseteq ME!VisiblesPara(l)
  BY DEF LeidoEnRegla
<1>1. CASE UNCHANGED visto
  BY <1>0, <1>1
<1>2. ASSUME NEW lado \in ME!Lados, ME!Listar(lado)
      PROVE  /\ DOMAIN visto' = ME!Lados
             /\ \A l \in ME!Lados :
                   /\ visto[l] \subseteq visto'[l]
                   /\ \/ visto'[l] = visto[l]
                      \/ visto'[l] = ME!VisiblesPara(l)' /\ UNCHANGED mensajes
  <2>1. \A l \in ME!Lados : ME!VisiblesPara(l)' = ME!VisiblesPara(l)
    BY <1>2 DEF ME!Listar, ME!VisiblesPara, ME!Confirmados
  <2>2. QED
    BY <1>0, <1>2, <2>1 DEF ME!Listar
<1>3. QED
  BY <1>1, <1>2
     DEF ME!Next, ME!Crear, ME!InsertaConAdjunto, ME!CrearConAdjunto, ME!LeeUltimo,
         ME!MiraEnviado, ME!MarcaEnviado, ME!SendEmail, ME!AvanzaLeido,
         ME!AvanzaEntregado, ME!Abandona

\* What is asked to be marked is cut to what the side has seen.
LEMMA SePideLoVisto ==
    ASSUME LeidoEnRegla, NEW r \in Peticiones, NEW lado \in ME!Lados, ME!LeeUltimo(r, lado)
    PROVE  \E n \in Nat :
              /\ peticionesM' = [peticionesM EXCEPT
                    ![r] = [op |-> "LEIDO", lado |-> lado, id |-> n]]
              /\ \E j \in visto[lado] : n <= j
<1> DEFINE a == ME!Max(visto[lado])
           b == ME!Max(ME!Confirmados)
<1>1. /\ visto[lado] # {} /\ visto[lado] \subseteq ME!Confirmados
      /\ ME!Confirmados \subseteq 1..Len(mensajes) /\ Len(mensajes) \in Nat
  BY DEF LeidoEnRegla, ME!LeeUltimo, ME!VisiblesPara, ME!Confirmados
<1>2. ASSUME NEW T, T # {}, T \subseteq 1..Len(mensajes)
      PROVE  ME!Max(T) \in T /\ ME!Max(T) \in Nat
  <2>1. T \subseteq Nat /\ \A x \in T : x <= Len(mensajes)
    BY <1>1, <1>2
  <2>2. ME!Max(T) \in T
    BY <1>1, <1>2, <2>1, ElMayor
  <2>3. QED
    BY <2>1, <2>2
<1>3. a \in visto[lado] /\ a \in Nat /\ b \in Nat
  <2>1. visto[lado] \subseteq 1..Len(mensajes) /\ ME!Confirmados # {}
    BY <1>1
  <2>2. QED
    BY <1>1, <1>2, <2>1
<1>4. peticionesM' = [peticionesM EXCEPT
         ![r] = [op |-> "LEIDO", lado |-> lado, id |-> ME!Min({a, b})]]
  BY DEF ME!LeeUltimo, ME!Recortado
<1> DEFINE n == ME!Min({a, b})
<1>5. n \in Nat /\ n <= a
  <2> HIDE DEF a, b
  <2>1. ME!Min({a, b}) \in {a, b} /\ ME!Min({a, b}) <= a
    BY <1>3, DeDosNumeros
  <2>2. QED
    BY <1>3, <2>1
<1> HIDE DEF a, n
<1>6. QED
  BY <1>3, <1>4, <1>5 DEF n

\* The requests.
LEMMA LasPeticionesSiguen ==
    ASSUME LeidoEnRegla, ME!Next, DeChat
    PROVE  /\ DOMAIN peticionesM' = Peticiones
           /\ \A r \in Peticiones : PideLoVisto(peticionesM[r])'
<1>0. /\ DOMAIN peticionesM = Peticiones /\ mensajes \in Seq(Mensaje)
      /\ \A r \in Peticiones : PideLoVisto(peticionesM[r])
      /\ \A l \in ME!Lados : visto[l] \subseteq visto'[l]
  BY LoVistoCrece DEF LeidoEnRegla
<1> DEFINE EnRegla(f) ==
              /\ f = [op |-> f.op, lado |-> f.lado, id |-> f.id]
              /\ f.lado \in ME!Lados /\ f.id \in Nat
              /\ f.op = "LEIDO" => \E j \in visto'[f.lado] : f.id <= j
<1>1. \A f : PideLoVisto(f) => EnRegla(f)
  BY <1>0 DEF PideLoVisto
<1>2. ASSUME NEW r \in Peticiones, NEW f, EnRegla(f),
             peticionesM' = [peticionesM EXCEPT ![r] = f]
      PROVE  /\ DOMAIN peticionesM' = Peticiones
             /\ \A q \in Peticiones : EnRegla(peticionesM'[q])
  <2>1. DOMAIN peticionesM' = Peticiones
        /\ \A q \in Peticiones : peticionesM'[q] = IF q = r THEN f ELSE peticionesM[q]
    BY <1>0, <1>2
  <2> HIDE DEF EnRegla
  <2>2. QED
    BY <1>0, <1>1, <1>2, <2>1
<1>3. ASSUME NEW o, NEW l \in ME!Lados, NEW n \in Nat,
             o = "LEIDO" => \E j \in visto[l] : n <= j
      PROVE  EnRegla([op |-> o, lado |-> l, id |-> n])
  BY <1>0, <1>3
<1>4. EnRegla(ME!Libre) /\ EnRegla([ME!Libre EXCEPT !.op = "MIRAR_ENVIADO"])
  BY DEF ME!Libre, ME!Lados
<1>5. ASSUME NEW r \in Peticiones, NEW autor, NEW visible, ME!Sigue(r, autor, visible)
      PROVE  /\ DOMAIN peticionesM' = Peticiones
             /\ \A q \in Peticiones : EnRegla(peticionesM'[q])
  <2> HIDE DEF EnRegla
  <2>1. QED
    BY <1>2, <1>4, <1>5 DEF ME!Sigue
<1>6. ASSUME NEW r \in Peticiones, NEW o \in {"MARCAR", "ENVIAR", "ENTREGADO"}, ME!Pasa(r, o)
      PROVE  /\ DOMAIN peticionesM' = Peticiones
             /\ \A q \in Peticiones : EnRegla(peticionesM'[q])
  <2> DEFINE f == [op |-> o, lado |-> peticionesM[r].lado, id |-> peticionesM[r].id]
  <2>1. peticionesM' = [peticionesM EXCEPT ![r] = f]
    <3>1. peticionesM' = [peticionesM EXCEPT ![r] = [peticionesM[r] EXCEPT !.op = o]]
      BY <1>6 DEF ME!Pasa
    <3>2. [peticionesM[r] EXCEPT !.op = o] = f
      BY <1>0 DEF PideLoVisto
    <3>3. QED
      BY <3>1, <3>2
  <2>2. EnRegla(f)
    BY <1>0, <1>3 DEF PideLoVisto
  <2> HIDE DEF f, EnRegla
  <2>3. QED
    BY <1>2, <2>1, <2>2
<1>7. ASSUME NEW r \in Peticiones, NEW autor \in ME!Lados, ME!InsertaConAdjunto(r, autor)
      PROVE  /\ DOMAIN peticionesM' = Peticiones
             /\ \A q \in Peticiones : EnRegla(peticionesM'[q])
  <2>1. PICK m \in Mensaje : mensajes' = Append(mensajes, m)
    <3>1. [autor |-> autor, visible |-> TRUE, confirmado |-> FALSE] \in Mensaje
      BY DEF Mensaje
    <3>2. QED
      BY <1>7, <3>1 DEF ME!InsertaConAdjunto
  <2>2. Len(mensajes') \in Nat
    BY <1>0, <2>1
  <2>3. peticionesM' = [peticionesM EXCEPT
           ![r] = [op |-> "CONFIRMAR", lado |-> autor, id |-> Len(mensajes')]]
    BY <1>7 DEF ME!InsertaConAdjunto
  <2>4. EnRegla([op |-> "CONFIRMAR", lado |-> autor, id |-> Len(mensajes')])
    BY <1>3, <2>2
  <2> HIDE DEF EnRegla
  <2>5. QED
    BY <1>2, <2>3, <2>4
<1>8. ASSUME NEW r \in Peticiones, NEW lado \in ME!Lados, ME!LeeUltimo(r, lado)
      PROVE  /\ DOMAIN peticionesM' = Peticiones
             /\ \A q \in Peticiones : EnRegla(peticionesM'[q])
  <2>1. PICK n \in Nat :
           /\ peticionesM' = [peticionesM EXCEPT
                 ![r] = [op |-> "LEIDO", lado |-> lado, id |-> n]]
           /\ \E j \in visto[lado] : n <= j
    BY <1>8, SePideLoVisto
  <2>2. EnRegla([op |-> "LEIDO", lado |-> lado, id |-> n])
    BY <1>3, <2>1
  <2> HIDE DEF EnRegla
  <2>3. QED
    BY <1>2, <2>1, <2>2
<1>9. \/ UNCHANGED peticionesM
      \/ \E r \in Peticiones : peticionesM' = [peticionesM EXCEPT ![r] = ME!Libre]
      \/ \E r \in Peticiones : \E autor, visible : ME!Sigue(r, autor, visible)
      \/ \E r \in Peticiones, o \in {"MARCAR", "ENVIAR", "ENTREGADO"} : ME!Pasa(r, o)
      \/ \E r \in Peticiones, l \in ME!Lados : ME!InsertaConAdjunto(r, l) \/ ME!LeeUltimo(r, l)
  <2>1. ASSUME NEW r \in Peticiones, NEW autor, NEW visible, ME!Crear(r, autor, visible)
        PROVE  ME!Sigue(r, autor, visible)
    BY <2>1 DEF ME!Crear
  <2>2. ASSUME NEW r \in Peticiones, ME!CrearConAdjunto(r)
        PROVE  ME!Sigue(r, peticionesM[r].lado, TRUE)
    BY <2>2 DEF ME!CrearConAdjunto
  <2>3. QED
    BY <2>1, <2>2
       DEF ME!Next, ME!MiraEnviado, ME!MarcaEnviado, ME!CreaFlag, ME!SendEmail,
           ME!AvanzaLeido, ME!AvanzaEntregado, ME!Abandona, ME!Listar
<1>10. /\ DOMAIN peticionesM' = Peticiones
       /\ \A q \in Peticiones : EnRegla(peticionesM'[q])
  <2> HIDE DEF EnRegla
  <2>1. CASE UNCHANGED peticionesM
    BY <1>0, <1>1, <2>1
  <2>2. QED
    BY <1>2, <1>4, <1>5, <1>6, <1>7, <1>8, <1>9, <2>1
<1>11. QED
  BY <1>10 DEF PideLoVisto

LEMMA LeidoSigue ==
    ASSUME LeidoEnRegla, [AvisosNext]_varsAvisos
    PROVE  LeidoEnRegla'
<1>1. CASE UNCHANGED varsC
  BY <1>1 DEF varsC, LeidoEnRegla, PideLoVisto, ME!VisiblesPara, ME!Confirmados
<1>2. CASE ME!Next /\ DeChat
  <2>0. /\ leido \in [ME!Lados -> Nat]
        /\ \A l \in ME!Lados : leido[l] = 0 \/ \E j \in visto[l] : leido[l] <= j
        /\ \A l \in ME!Lados : visto[l] \subseteq ME!VisiblesPara(l)
    BY DEF LeidoEnRegla
  <2>1. /\ mensajes' \in Seq(Mensaje) /\ DOMAIN visto' = ME!Lados
        /\ DOMAIN peticionesM' = Peticiones
        /\ \A r \in Peticiones : PideLoVisto(peticionesM[r])'
    BY <1>2, LoVisibleCrece, LoVistoCrece, LasPeticionesSiguen DEF ME!Lados
  <2>2. ASSUME NEW l \in ME!Lados
        PROVE  visto'[l] \subseteq ME!VisiblesPara(l)'
    BY <1>2, <2>0, LoVisibleCrece, LoVistoCrece
  <2>3. /\ leido' \in [ME!Lados -> Nat]
        /\ \A l \in ME!Lados : leido'[l] = 0 \/ \E j \in visto'[l] : leido'[l] <= j
    <3>1. CASE UNCHANGED leido
      BY <1>2, <2>0, <3>1, LoVistoCrece
    <3>2. ASSUME NEW r \in Peticiones, ME!AvanzaLeido(r)
          PROVE  /\ leido' \in [ME!Lados -> Nat]
                 /\ \A l \in ME!Lados : leido'[l] = 0 \/ \E j \in visto'[l] : leido'[l] <= j
      <4> DEFINE lado == peticionesM[r].lado
                 id == peticionesM[r].id
                 n == ME!Max({leido[lado], id})
      <4>1. lado \in ME!Lados /\ id \in Nat /\ \E j \in visto[lado] : id <= j
        BY <3>2 DEF LeidoEnRegla, PideLoVisto, ME!AvanzaLeido
      <4>2. leido' = [leido EXCEPT ![lado] = n] /\ UNCHANGED visto
        BY <3>2 DEF ME!AvanzaLeido
      <4>3. n \in {leido[lado], id}
        BY <2>0, <4>1, DeDosNumeros
      <4> HIDE DEF lado, id, n
      <4>4. QED
        BY <2>0, <4>1, <4>2, <4>3
    <3>3. QED
      BY <1>2, <3>1, <3>2
         DEF ME!Next, ME!Crear, ME!InsertaConAdjunto, ME!CrearConAdjunto, ME!LeeUltimo,
             ME!MiraEnviado, ME!MarcaEnviado, ME!SendEmail, ME!AvanzaEntregado,
             ME!Abandona, ME!Listar
  <2>4. ASSUME ~cruce', NEW l \in ME!Lados, NEW i \in ME!VisiblesPara(l)' \ visto'[l],
               NEW j \in visto'[l]
        PROVE  j < i
    <3>1. ~cruce
      BY <1>2, <2>4 DEF DeChat
    <3>2. visto'[l] = visto[l]
      BY <1>2, LoVistoCrece
    <3>3. j \in ME!VisiblesPara(l)
      BY <2>0, <3>2
    <3>4. CASE i \in ME!VisiblesPara(l)
      BY <3>1, <3>2, <3>4 DEF LeidoEnRegla
    <3>5. CASE i \notin ME!VisiblesPara(l)
      BY <1>2, <2>4, <3>3, <3>5, LoVisibleCrece
    <3>6. QED
      BY <3>4, <3>5
  <2>5. QED
    BY <2>1, <2>2, <2>3, <2>4 DEF LeidoEnRegla
<1>3. QED
  BY <1>1, <1>2 DEF AvisosNext, varsAvisos, DeKioskos, DeRecoger

LEMMA LeidoSiempre == AvisosSpec => []LeidoEnRegla
<1>1. AvisosInit => LeidoEnRegla
  <2> SUFFICES ASSUME AvisosInit
               PROVE  LeidoEnRegla
    OBVIOUS
  <2>1. /\ mensajes = <<>> /\ leido = [l \in ME!Lados |-> 0]
        /\ visto = [l \in ME!Lados |-> {}]
        /\ peticionesM = [r \in Peticiones |-> ME!Libre]
    BY DEF AvisosInit, ME!Init
  <2>2. \A r \in Peticiones : PideLoVisto(peticionesM[r])
    BY <2>1 DEF PideLoVisto, ME!Libre, ME!Lados
  <2>3. QED
    BY <2>1, <2>2 DEF LeidoEnRegla
<1>2. LeidoEnRegla /\ [AvisosNext]_varsAvisos => LeidoEnRegla'
  BY LeidoSigue
<1>3. QED
  BY <1>1, <1>2, PTL DEF AvisosSpec

\* Marking as read what one has seen never hides what came after, for any number of
\* messages and of requests under way, while no message has overtaken an open
\* transaction (marcarLeido, contarMensajesNoLeidos).
THEOREM LoNoVistoEnOrden == AvisosSpec => []LoNoVistoSeCuentaEnOrden
<1>1. LeidoEnRegla => LoNoVistoSeCuentaEnOrden
  <2> SUFFICES ASSUME LeidoEnRegla, ~cruce, NEW l \in ME!Lados,
                      NEW i \in ME!VisiblesPara(l), mensajes[i].autor # l, i \notin visto[l]
               PROVE  i \in ME!NoLeidos(l)
    BY DEF LoNoVistoSeCuentaEnOrden, ME!LoNoVistoSeCuenta
  <2>1. i \in Nat \ {0} /\ visto[l] \subseteq Nat /\ leido[l] \in Nat
    BY DEF LeidoEnRegla, ME!VisiblesPara, ME!Confirmados
  <2>2. CASE leido[l] = 0
    BY <2>1, <2>2 DEF ME!NoLeidos
  <2>3. CASE \E j \in visto[l] : leido[l] <= j
    <3>1. PICK j \in visto[l] : leido[l] <= j
      BY <2>3
    <3>2. j < i
      BY DEF LeidoEnRegla
    <3>3. QED
      BY <2>1, <3>1, <3>2 DEF ME!NoLeidos
  <2>4. QED
    BY <2>2, <2>3 DEF LeidoEnRegla
<1>2. QED
  BY <1>1, LeidoSiempre, PTL

\* One mail of the first answer, and only one request that is going to send it.
Envia(r) == peticionesM[r].op = "ENVIAR"

CorreoEnRegla ==
    /\ enviado \in BOOLEAN /\ muertesM \in Nat
    /\ correos \in {0, 1}
    /\ DOMAIN peticionesM = Peticiones
    /\ ~enviado => correos = 0 /\ \A r \in Peticiones : ~Envia(r)
    /\ \A r \in Peticiones : Envia(r) => correos = 0 /\ \A q \in Peticiones : Envia(q) => q = r

\* The mails that go in a step.
Enviados == {r \in Peticiones : Envia(r) /\ peticionesM'[r] = ME!Libre /\ muertesM' = muertesM}

\* A request that was not going to send the mail nor is now.
NadieEmpieza == \A r \in Peticiones : Envia(r)' <=> Envia(r)

LEMMA PasoDelCorreo ==
    ASSUME CorreoEnRegla, LeidoEnRegla, ME!Next
    PROVE  /\ enviado' \in BOOLEAN /\ muertesM' \in Nat /\ (enviado => enviado')
           /\ DOMAIN peticionesM' = Peticiones
           /\ \/ NadieEmpieza
              \/ \E r \in Peticiones :
                    /\ ~enviado /\ enviado'
                    /\ \A q \in Peticiones : Envia(q)' => q = r
              \/ \E r \in Peticiones :
                    /\ Envia(r) /\ UNCHANGED enviado
                    /\ peticionesM'[r] = ME!Libre
                    /\ \A q \in Peticiones : Envia(q)' => Envia(q) /\ q # r
<1>0. DOMAIN peticionesM = Peticiones
      /\ enviado \in BOOLEAN /\ muertesM \in Nat
      /\ \A r \in Peticiones : peticionesM[r] = [op |-> peticionesM[r].op,
            lado |-> peticionesM[r].lado, id |-> peticionesM[r].id]
  BY DEF CorreoEnRegla, LeidoEnRegla, PideLoVisto
<1> DEFINE Hecho ==
       /\ enviado' \in BOOLEAN /\ muertesM' \in Nat /\ (enviado => enviado')
       /\ DOMAIN peticionesM' = Peticiones
       /\ \/ NadieEmpieza
          \/ \E r \in Peticiones :
                /\ ~enviado /\ enviado'
                /\ \A q \in Peticiones : Envia(q)' => q = r
          \/ \E r \in Peticiones :
                /\ Envia(r) /\ UNCHANGED enviado
                /\ peticionesM'[r] = ME!Libre
                /\ \A q \in Peticiones : Envia(q)' => Envia(q) /\ q # r
<1>1. ASSUME NEW r \in Peticiones, NEW f, f.op # "ENVIAR", ~Envia(r),
             peticionesM' = [peticionesM EXCEPT ![r] = f],
             UNCHANGED <<enviado, muertesM>>
      PROVE  Hecho
  <2>1. /\ DOMAIN peticionesM' = Peticiones /\ peticionesM'[r] = f
        /\ \A q \in Peticiones : q # r => peticionesM'[q] = peticionesM[q]
    BY <1>0, <1>1
  <2>2. NadieEmpieza
    BY <1>1, <2>1 DEF Envia, NadieEmpieza
  <2>3. enviado' \in BOOLEAN /\ muertesM' \in Nat /\ (enviado => enviado')
    BY <1>0, <1>1
  <2>4. QED
    BY <2>1, <2>2, <2>3
<1>2. ASSUME UNCHANGED <<peticionesM, enviado, muertesM>>
      PROVE  Hecho
  BY <1>0, <1>2 DEF Envia, NadieEmpieza
<1>3. ME!Libre.op # "ENVIAR" /\ [ME!Libre EXCEPT !.op = "MIRAR_ENVIADO"].op # "ENVIAR"
  BY DEF ME!Libre
<1>4. ASSUME NEW r \in Peticiones, NEW o \in {"MARCAR", "ENTREGADO"}, ~Envia(r),
             ME!Pasa(r, o), UNCHANGED <<enviado, muertesM>>
      PROVE  Hecho
  <2> DEFINE f == [peticionesM[r] EXCEPT !.op = o]
  <2>1. peticionesM' = [peticionesM EXCEPT ![r] = f]
    BY <1>4 DEF ME!Pasa
  <2>2. f.op # "ENVIAR"
    BY <1>0
  <2> HIDE DEF f, Hecho
  <2>3. QED
    BY <1>1, <1>4, <2>1, <2>2
<1>5. ASSUME NEW r \in Peticiones, NEW autor, NEW visible, ME!Sigue(r, autor, visible),
             ~Envia(r), UNCHANGED <<enviado, muertesM>>
      PROVE  Hecho
  <2> HIDE DEF Hecho
  <2>1. QED
    BY <1>1, <1>3, <1>5 DEF ME!Sigue
<1>6. ASSUME NEW r \in Peticiones, ME!MarcaEnviado(r)
      PROVE  Hecho
  <2>1. ~Envia(r) /\ enviado' = TRUE /\ UNCHANGED muertesM
    BY <1>6 DEF ME!MarcaEnviado, Envia
  <2>2. CASE enviado
    <3>1. peticionesM' = [peticionesM EXCEPT ![r] = ME!Libre]
      BY <1>6, <2>2 DEF ME!MarcaEnviado, ME!CreaFlag
    <3>2. UNCHANGED <<enviado, muertesM>>
      BY <1>0, <2>1, <2>2
    <3> HIDE DEF Hecho
    <3>3. QED
      BY <1>1, <1>3, <2>1, <3>1, <3>2
  <2>3. CASE ~enviado
    <3>1. DOMAIN peticionesM' = Peticiones
          /\ \A q \in Peticiones : q # r => peticionesM'[q] = peticionesM[q]
      BY <1>0, <1>6, <2>3 DEF ME!MarcaEnviado, ME!CreaFlag, ME!Pasa
    <3>2. \A q \in Peticiones : ~Envia(q)
      BY <2>3 DEF CorreoEnRegla
    <3>3. \A q \in Peticiones : Envia(q)' => q = r
      BY <3>1, <3>2 DEF Envia
    <3>4. QED
      BY <1>0, <2>1, <2>3, <3>1, <3>3
  <2>4. QED
    BY <1>0, <2>2, <2>3
<1>7. ASSUME NEW r \in Peticiones, UNCHANGED enviado, muertesM' \in Nat,
             peticionesM' = [peticionesM EXCEPT ![r] = ME!Libre]
      PROVE  Hecho
  <2>1. /\ DOMAIN peticionesM' = Peticiones /\ peticionesM'[r] = ME!Libre
        /\ \A q \in Peticiones : q # r => peticionesM'[q] = peticionesM[q]
    BY <1>0, <1>7
  <2>2. CASE Envia(r)
    <3>1. \A q \in Peticiones : Envia(q)' => Envia(q) /\ q # r
      BY <1>3, <2>1 DEF Envia
    <3>2. QED
      BY <1>0, <1>7, <2>1, <2>2, <3>1
  <2>3. CASE ~Envia(r)
    <3>1. NadieEmpieza
      BY <1>3, <2>1, <2>3 DEF Envia, NadieEmpieza
    <3>2. QED
      BY <1>0, <1>7, <2>1, <3>1
  <2>4. QED
    BY <2>2, <2>3
<1>8. ASSUME NEW r \in Peticiones, ME!MiraEnviado(r) \/ ME!AvanzaLeido(r)
      PROVE  Hecho
  <2> HIDE DEF Hecho
  <2>1. ~Envia(r) /\ UNCHANGED <<enviado, muertesM>>
    BY <1>8 DEF ME!MiraEnviado, ME!AvanzaLeido, Envia
  <2>2. \/ peticionesM' = [peticionesM EXCEPT ![r] = ME!Libre]
        \/ ME!Pasa(r, "MARCAR") \/ ME!Pasa(r, "ENTREGADO")
    BY <1>8 DEF ME!MiraEnviado, ME!AvanzaLeido
  <2>3. QED
    BY <1>1, <1>3, <1>4, <2>1, <2>2
<1>9. ASSUME NEW r \in Peticiones, NEW l,
             ME!InsertaConAdjunto(r, l) \/ ME!LeeUltimo(r, l)
      PROVE  Hecho
  <2>1. ~Envia(r) /\ UNCHANGED <<enviado, muertesM>>
    BY <1>3, <1>9 DEF ME!InsertaConAdjunto, ME!LeeUltimo, Envia
  <2> HIDE DEF Hecho
  <2>2. CASE ME!InsertaConAdjunto(r, l)
    <3> DEFINE f == [op |-> "CONFIRMAR", lado |-> l, id |-> Len(mensajes')]
    <3>1. peticionesM' = [peticionesM EXCEPT ![r] = f]
      BY <2>2 DEF ME!InsertaConAdjunto
    <3>2. f.op # "ENVIAR"
      OBVIOUS
    <3> HIDE DEF f
    <3>3. QED
      BY <1>1, <2>1, <3>1, <3>2
  <2>3. CASE ME!LeeUltimo(r, l)
    <3> DEFINE f == [op |-> "LEIDO", lado |-> l,
                     id |-> ME!Recortado(ME!Max(visto[l]), ME!Max(ME!Confirmados))]
    <3>1. peticionesM' = [peticionesM EXCEPT ![r] = f]
      BY <2>3 DEF ME!LeeUltimo
    <3>2. f.op # "ENVIAR"
      OBVIOUS
    <3> HIDE DEF f
    <3>3. QED
      BY <1>1, <2>1, <3>1, <3>2
  <2>4. QED
    BY <1>9, <2>2, <2>3
<1>10. ASSUME NEW r \in Peticiones, ME!SendEmail(r) \/ ME!AvanzaEntregado(r) \/ ME!Abandona(r)
       PROVE  Hecho
  <2> HIDE DEF Hecho
  <2>1. UNCHANGED enviado /\ muertesM' \in Nat
        /\ peticionesM' = [peticionesM EXCEPT ![r] = ME!Libre]
    BY <1>0, <1>10 DEF ME!SendEmail, ME!AvanzaEntregado, ME!Abandona
  <2>2. QED
    BY <1>7, <2>1
<1>11. ASSUME NEW r \in Peticiones, NEW autor, NEW visible, ME!Crear(r, autor, visible)
       PROVE  Hecho
  <2> HIDE DEF Hecho
  <2>1. ME!Sigue(r, autor, visible) /\ ~Envia(r) /\ UNCHANGED <<enviado, muertesM>>
    BY <1>3, <1>11 DEF ME!Crear, Envia
  <2>2. QED
    BY <1>5, <2>1
<1>12. ASSUME NEW r \in Peticiones, ME!CrearConAdjunto(r)
       PROVE  Hecho
  <2> HIDE DEF Hecho
  <2>1. ME!Sigue(r, peticionesM[r].lado, TRUE) /\ ~Envia(r) /\ UNCHANGED <<enviado, muertesM>>
    BY <1>12 DEF ME!CrearConAdjunto, Envia
  <2>2. QED
    BY <1>5, <2>1
<1>13. Hecho
  <2> HIDE DEF Hecho
  <2>1. CASE \E l \in ME!Lados : ME!Listar(l)
    <3>1. UNCHANGED <<peticionesM, enviado, muertesM>>
      BY <2>1 DEF ME!Listar
    <3>2. QED
      BY <1>2, <3>1
  <2>2. QED
    BY <1>6, <1>8, <1>9, <1>10, <1>11, <1>12, <2>1 DEF ME!Next
<1>14. QED
  BY <1>13

LEMMA CorreoSigue ==
    ASSUME CorreoEnRegla, LeidoEnRegla, [AvisosNext]_varsAvisos
    PROVE  CorreoEnRegla'
<1>1. CASE UNCHANGED varsC
  BY <1>1 DEF varsC, CorreoEnRegla, Envia
<1>2. CASE ME!Next /\ DeChat
  <2>1. correos' = correos + Cardinality(Enviados)
    BY <1>2 DEF DeChat, Enviados, Envia
  <2>2. /\ enviado' \in BOOLEAN /\ muertesM' \in Nat /\ (enviado => enviado')
        /\ DOMAIN peticionesM' = Peticiones
    BY <1>2, PasoDelCorreo
  <2>3. CASE Enviados = {}
    <3>1. correos' = correos
      BY <2>1, <2>3, FS_EmptySet DEF CorreoEnRegla
    <3>2. CASE NadieEmpieza
      BY <2>2, <3>1, <3>2 DEF CorreoEnRegla, NadieEmpieza
    <3>3. ASSUME NEW r \in Peticiones, ~enviado /\ enviado',
                 \A q \in Peticiones : Envia(q)' => q = r
          PROVE  CorreoEnRegla'
      BY <2>2, <3>1, <3>3 DEF CorreoEnRegla
    <3>4. ASSUME NEW r \in Peticiones, UNCHANGED enviado,
                 \A q \in Peticiones : Envia(q)' => Envia(q) /\ q # r
          PROVE  CorreoEnRegla'
      BY <2>2, <3>1, <3>4 DEF CorreoEnRegla
    <3>5. QED
      BY <1>2, <3>2, <3>3, <3>4, PasoDelCorreo
  <2>4. ASSUME NEW r \in Enviados
        PROVE  CorreoEnRegla'
    <3>1. r \in Peticiones /\ Envia(r) /\ ~(Envia(r)')
      BY DEF Enviados, Envia, ME!Libre
    <3>2. enviado /\ correos = 0 /\ \A q \in Peticiones : Envia(q) => q = r
      BY <3>1 DEF CorreoEnRegla
    <3>3. Enviados = {r}
      BY <3>2 DEF Enviados
    <3>4. correos' = 1
      <4>1. Cardinality({r}) = 1
        BY FS_Singleton
      <4>2. QED
        BY <2>1, <3>2, <3>3, <4>1
    <3>5. \A q \in Peticiones : ~(Envia(q)')
      BY <1>2, <3>1, <3>2, PasoDelCorreo DEF NadieEmpieza
    <3>6. QED
      BY <2>2, <3>2, <3>4, <3>5 DEF CorreoEnRegla
  <2>5. QED
    BY <2>3, <2>4
<1>3. QED
  BY <1>1, <1>2 DEF AvisosNext, varsAvisos, DeKioskos, DeRecoger

\* The customer gets one mail of the first answer of the advisor, whatever answers
\* coincide and whoever dies half way (dispararEmailPrimeraRespuestaAsesor).
THEOREM UnSoloCorreoSiempre == AvisosSpec => []UnSoloCorreo
<1>1. AvisosInit => CorreoEnRegla
  <2> SUFFICES ASSUME AvisosInit
               PROVE  CorreoEnRegla
    OBVIOUS
  <2>1. /\ enviado = FALSE /\ muertesM = 0 /\ correos = 0
        /\ peticionesM = [r \in Peticiones |-> ME!Libre]
    BY DEF AvisosInit, ME!Init
  <2>2. \A r \in Peticiones : ~Envia(r)
    BY <2>1 DEF Envia, ME!Libre
  <2>3. QED
    BY <2>1, <2>2 DEF CorreoEnRegla
<1>2. CorreoEnRegla /\ LeidoEnRegla /\ [AvisosNext]_varsAvisos => CorreoEnRegla'
  BY CorreoSigue
<1>3. CorreoEnRegla => UnSoloCorreo
  BY DEF CorreoEnRegla, UnSoloCorreo
<1>4. QED
  BY <1>1, <1>2, <1>3, LeidoSiempre, PTL DEF AvisosSpec
=============================================================================
