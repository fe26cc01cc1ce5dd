# Verification of demo-backend

TLA+ models of the order back end in `src/src` (NestJS + Prisma + PostgreSQL): the orders of a
clothing store that are picked in the warehouse, settled with the customer at a counter, charged
at a till or by bank transfer, and sent to an ERP by an agent. Each module translates the source
files named in `PROJECT.json`; TLC checks small instances and TLAPS proves theorems for all of them.

## 1. The system

| Component | State | Operations | Interacts with |
|---|---|---|---|
| State machine of the order (`pedidos/core/pedido-state.service.ts`) | `Pedido.estado`, assignment, clock, wait, call, place at the till; the ERP queue row | `cambiarEstado`, `cambiarEstadoPorSistema` | everybody calls it inside their transaction; it calls `dtf`, `pagos`, `reposicion` hooks |
| Warehouse (`pedidos/bodega`) | assignment, item states | take, retake, take a group, release, mark an item, close the picking, ship | state machine, proposals (a shortage opens one), DTF |
| Proposals and sales (`pedidos/propuesta`, `ventas`, chat) | `PedidoPropuesta` | send, approve, reject, ask for an adviser, cancel, give back to the warehouse | state machine, counter |
| Counter (`mostrador`) | order, items | send to the till, adjust, cancel, cancel the unclaimed, call, give back, deliver | state machine, proposals, presence |
| Presence and kiosk arrival (`core/presencia.service.ts`, `kiosko`) | `presenteDesdeAt` and its attempts | notice, withdraw, discard, no-show | state machine |
| Customer (`cliente`), store unblocking (`destrabar`), payment (`admin`, `sync/handlers/pedido-pago`) | order | create, cancel, charge | state machine, transfers, ERP tasks |
| Transfers (`pagos/transferencia`) | payments and comprobantes | issue, upload, verify, reject, expire, refund, apply | state machine (hooks), till |
| DTF printing (`dtf`) | printing jobs | analyse, quote, take, print, correct, reprint | leaves or enters `EN_DTF` |
| Till (`pedidos/cajero`) | cashier of an order, its place in line | call, take, release, no-show, wait | state machine |
| Counters and windows (`mostradores`, `ventanillas`, `estaciones`) | who holds each one, heartbeats | take, release, release the inactive | counter, till |
| ERP synchronisation (`sync`, `agent`) | outbox, inbox, checkpoints, deliveries with leases, folios | pull, acknowledge, retry, reconcile; upload the catalogue | orders, payments |
| Restocking (`pedidos/reposicion`), ERP tasks (`tareas-erp`), unclaimed orders | lists, tasks, reminders | create, merge, confirm, close | adjustments, cancellations |
| Quantities and totals (`core/*.util.ts`) | the lines of the order | adjust, cancel lines, totals, promotions | every handler that touches items |
| Chat (`pedidos/messages`) | messages, watermarks of what was read | send, list, mark as read | proposals |
| Sessions (`auth`) | families of refresh tokens | log in, rotate, log out | presence of the warehouse |
| Kiosks (`kiosko`) | pairings, tokens, heartbeats | pair, unlink, alert | arrivals |
| Work lists and screens (monitors, `admin-torre`, `destrabar`, Tesoreria) | none | read | everybody works from them |
| Realtime outbox, catalogue, users, mail | own rows | CRUD, publication | — |

What is hard here: a handler **reads the order outside any transaction**, decides, and commits
later with a guard that often does not repeat what it read; several handlers run **two
transactions**, or go on after the commit; the order, its proposals, its payments, its DTF jobs
and its ERP row are **columns of different tables that must agree**, and twenty services move
them; payments are written **without the lock** of the order by some of their writers; the ERP is
written by an agent that dies, retries and repeats. `PROJECT.json` lists the hazards line by line.

## 2. Modules

| Module | What it models | From |
|---|---|---|
| `MaquinaPedido` | the row of an order and one transition of it: `TRANSICIONES`, the guards of `ejecutarCambio`, the diversion to `EN_DTF`, and every column that moves with the state (`Transita`) | `pedidos/core/pedido-state.service.ts` |
| `Pedido` | the handlers: what each reads and what it commits, interleaved; the proposals of the order | `bodega`, `surtido`, `propuesta`, `ventas`, `mostrador`, `presencia`, `kiosko-llegada`, `cliente`, `destrabar`, `admin`, `pedido-pago.handler`, `dtf-pedido` |
| `CicloPedido` | abstract specification: store → till (and the ERP, once) → paid → sent → delivered, or cancelled; nothing goes back | implemented by `Pedido` through `Fase` and `ped.encolado` |
| `Vistas` | the work lists of every console and screen, and what the panel of the store offers, as predicates on the order of `Pedido` | monitors, `mostrador-query`, `ventas`, `torre-control`, `destrabar` |
| `Transferencia` | the bank transfers of an order: issue, upload of comprobantes, review, expiry, late transfers, refunds, and the hooks that resolve them when the order is charged or cancelled | `pagos/transferencia/*` |
| `VistasPagos` | the lists of Tesoreria and the buttons of its detail, over `Transferencia` | `tesoreria.service.ts` |
| `Dtf` | the DTF printing jobs of an order: upload, review, print, reprint, deletion; the order that waits in `EN_DTF` and the gate that counts its jobs | `dtf/*` |
| `Caja` | the line of the till, who attends each order, the windows, their cashiers and the sweep | `cajero`, `cola-caja.util`, `ventanillas`, `estaciones.worker` |
| `ColaErp` | the way of an order to the ERP and back: folios, leases, acks, retries, dead letters, tasks, findings and reconciliation, with an agent that dies and calls that are lost | `sync/*`, `tareas-erp`, `agent/src/*` |
| `Subida` | the way up of the catalogue: first load, outbox, checkpoint of each store, inbox of the cloud | `up-processor`, `checkpoint-store`, `sync-agent`, `catalog.handler` |
| `Lineas` | the arithmetic of a line and of the total, as operators without state | `core/ajuste-cantidad`, `calculadora-ajuste`, `cancelacion-linea`, `promo-volumen`, `totales`, `aplicar-*` |
| `Piezas` | the pieces of an order: rows against the bag, proposals, adjustments, restocking | `surtido`, `propuesta`, `mostrador`, `reposicion`, `bodega` |
| `Mostradores` | the counters, the calls made from them and their return | `mostradores`, `mostrador.llamar`, `presencia` |
| `Presencia` | families of refresh tokens, and who is online in the warehouse with which orders | `auth`, `bodega-presencia` |
| `SinRecoger` | the bags nobody picks up: reminders, expiry of notices, interest, the batch that cancels | `core/sin-recoger*`, `mostrador.cancelarVencidos` |
| `Mensajes` | the chat of an order and its watermarks | `pedidos/messages`, `mensajes-no-leidos.util` |
| `Kioskos` | pairing of tablets, tokens, heartbeats, alerts | `kiosko/*` |
| `MC...` | instances for TLC: model values, symmetry, history variables | |
| `...Proofs` | theorems and their proofs (`Pedido`, `Transferencia`, `Dtf`, `Caja`, `Piezas`, `ColaErp`, `Estaciones`, `SubidaYAvisos`) | |

`Pedido` EXTENDS `MaquinaPedido`, `Vistas` EXTENDS `Pedido`, `VistasPagos` EXTENDS `Transferencia`,
`Piezas` EXTENDS `Lineas`; `MCEstaciones` puts `Mostradores` and `Presencia` side by side, `MCAvisos`
`Kioskos`, `SinRecoger` and `Mensajes`. Each module keeps of the order what its own operations tell
apart, and takes the steps of the others as actions of its own (`Transferencia` has `PasaACaja` and
`EntregaPedido`, `Dtf` has `MuevePedido`, `Caja` has `EntraACaja` and `SaleDeCaja`, `ColaErp` has `MandaAPagar`
and the till of the ERP, `SinRecoger` has `Mueve`, `Pedido` has `TerminaDtf`).

### How state and actions correspond to the code

**A request.** Every handler of this back end has the same shape: `findUnique` outside any
transaction, validations that throw, then one or more Prisma transactions with conditional writes
(`updateMany ... where { id, estado }`). So each module has a variable `peticiones` with one slot
per request in flight. `Lee...(r)` is the read with its validations; it stores in the slot what
the handler uses later, and nothing else. The action named after the handler is its commit: its
guard is what the transaction re-checks, and nothing of what was only read. A handler with two
transactions, or that goes on after its commit, has one action for each. `Abandona` ends a request
at any of these points: a refused guard, a `409`, a rollback, a crash.

**A worker** has a variable with what it still has to do (`barrido`, `barridos`) and takes its steps
like a request: it reads the candidates once and writes them one by one, so the rest of the
system moves in between, and it may die half way.

**Time.** No clock is modelled. A column of type date is set or null, or a band when a threshold
tells ages apart (`espera` of `SinRecoger` is recent, to be reminded or overdue; `latido` of
`Presencia` is recent, old or null). An action lets the band go on; leases and back-offs are a
Boolean that an action ends.

**`Pedido`.** `ped` is the row of `Pedido` plus whether `PedidoPendienteEnvio` has its row
(`encolado`) and whether DTF jobs are left to print (`dtf`). `asignado`, `corre`, `espera`, `llamado`,
`presente`, `enCaja` stand for `asignadoAId`, the running clock (`bodegaTurnoDesdeAt`),
`esperaClienteDesdeAt`, `llamadoAt`, `presenteDesdeAt` and `colaCajaDesdeAt`. `lineas` summarises
`PedidoItem.estadoSurtido`: some pending, some short, or complete. `Cambia(nuevo, o)` is
`cambiarEstado` with its options as a record (`desde`, `asignacion`, `reloj`, `encolar`, `mismo`); it is
the only way to move the order except `Paga`, which translates `marcarComoPagado` and, as the
code, does not consult the table.

**`Transferencia`.** Almost every transaction starts by locking the row of the order. Two that
take the lock cannot interleave, so they are one action each; one that an unlocked writer (an
upload, a mark for review, the resolution after a charge) can disturb is split in two and holds the
lock between (`PasosConBloqueo`, `PedidoLibre`). The partial unique index `..._activo_unico` is a
guard of `Escribe`.

**`Dtf`.** Jobs have no lock. `Cambia` (the printing room) writes on condition of the state and the
version that were read; `Sube`, `Cancela`, `Borra` and `Reimprime` write by id, as in the code.
`Analiza` is the automatic review, in the background.

**`Caja`.** `fila` is the order of `colaCajaDesdeAt`; `LlamablesDe` and `SiguienteDe` are `ordenarFilaDeCaja` after
`WHERE_LLAMABLE`. `Toma` has the condition of the `updateMany` of `tomarPedidoCajeroInterno`; `Libera` and
`SueltaPorId` write by id. `Llama` retries as many times as `INTENTOS_LLAMAR_SIGUIENTE`. A request of nobody in particular (`NADIE`) in
`LeeLiberar` is the manager of the store, who releases a turn through `destrabar.service.ts:576`.

**`ColaErp`.** `agente` has the phase of the loop of `index.ts` (`Fases`) and what is in its memory;
`reservado` and `acks` are its SQLite, which survives `Cae`. `envios` is `PedidoPendienteEnvio` with its
lease token, `solicitudes` `PedidoFolioSolicitud`. `erp` and `consecutivo` are external, written by
`GRABAR_PEDIDOS` and the tills of the store. `incidentes` counts the faults, each of a kind of
`Incidentes`, and bounds them.

**`Subida`.** A row of the ERP is its version; an event carries the version read when the batch was put
together. `bootstrap` is `bootstrap_estado`, `outbox` and `checkpoints` the SQLite, `inbox`
`sync_event_inbox`. What is to be uploaded is a function from the place of each notice in the queue (or of each row in the page) to its event,
so the batch of a store is a restriction of it; the outbox is a set of rows. `ProcesaEvento` is one turn of the loop of
`procesarUpload`; `CaeLaNube` is a crash of the cloud inside one. `RespuestaPerdida` is also the agent that stops waiting while the cloud is still at it: the request goes on as `HUERFANA`.

**`Lineas` and `Piezas`.** A line has what the customer takes (`cantidad`), what was found (`surtida`), what
somebody took out again (`retiradas`), the floor of what may be marked (`base`) and what was asked for.
Next to the rows there are two counts that only exist in the store: `bolsa`, the pieces in the bag, and
`fuera`, those out of it that nobody has put back. The people are assumed to do what the screens
ask. `LaBolsaCuadra` and `NadaQuedaSinDueno` are about the rows and those counts agreeing.

**`Mostradores`, `Presencia`.** `activo` and `latido` are the heartbeats. Giving up a counter is, as in the
code, reading it, freeing it, listing the orders called from it and returning each: four kinds of steps. The sweep may fail or die
before each of them (`BarridoFalla`), a request too (`Abandona`), and the return of one customer may be skipped whatever its reason
(`Regresa`: the `catch` of `regresarLlamados` takes any error); a counter that was freed is not among the `Inactivos` of the next turn. An ADMIN may sit at a counter. A token
of `Presencia` is live, rotated (revoked with `replacedBy`) or closed (revoked without it), and its
`hace` says whether that was less than `GRACIA_REFRESH_MS` ago.

**`SinRecoger`, `Mensajes`, `Kioskos`.** Two processes of the back end may sweep at once. A message has
its id when it is inserted and is seen when its transaction commits. Time in `Kioskos` is counted in ticks of
the worker, so `UMBRAL_TICS` is `UMBRAL_CAIDA_MS / TICK_MS` (2).

### Abstractions

- A transaction is atomic at its commit, and the reads of a handler before it are one read. Where
  the code reads and counts inside the transaction without a lock, the module that is about that
  count splits it: `Dtf` for the count of the gate, `Transferencia` for the comprobantes left. `Pedido`
  takes the count of DTF jobs as current, so it states nothing about it.
- `Pedido`: one order; quantities, prices, folios, notes and history are left out (quantities are
  `Piezas`, folios `ColaErp`); `tomarGrupo` is one order of the group; `forzarAprobacion` and
  `responderPorLaTienda` are `RESPONDER`; the other actions of `destrabar` call handlers that are
  modelled. `eliminarPedidoCancelado` is not modelled.
- `Transferencia`: `PAGADO` and `ENVIADO` are one state, so are all the states before the till
  (`TIENDA`). Amounts, tracking keys, the home delivery check and `forzar` only decide refusals
  (`Abandona`). In `VistasPagos` the total always equals the amount expected.
- `Dtf`: `SURTIENDO` is any state of the warehouse or of an adviser; `asignado` is whether somebody has
  the job, because an ADMIN may do what its holder may. `resolver`'s two counts and the gate's recount
  inside it are one read. The code does not cancel the jobs of a cancelled order, and neither does the model.
- `Caja`: no home deliveries, which the same operations serve. Creating and renumbering windows are left out.
- `ColaErp`: one store. The loss of the SQLite of the agent, a `CONSECUTIVOS` that goes back, and two
  requests of one agent at once are left out.
- `Subida`: one product of every store and one price per store; `TIENDA_GLOBAL` does not change; a batch is
  not split by size; identical rows of the outbox count once; insert, update and delete are one notice,
  because the row is read when the batch is put together. The checkpoint the cloud stores is never read. The claim of an event and its result are
  one step unless the cloud dies between them, so an administrator's `Repite` meets `PROCESANDO` only then. The cloud
  handles one upload at a time: an agent that uploads again while its previous request is still running is left out.
- `Piezas`: one line per variant, `marcarItem` atomic, `EN_ATENCION` inside `REVISADO`; what is left of
  an approval that is not finished is `Pedido`'s; the checklist of withdrawal is all or nothing; home
  delivery, DTF, the cancellation by the ERP and `forzarAprobacion` are left out.
- `Presencia`: a request that closes sessions is authenticated by one issued recently, or comes from `resetearPassword`, which closes all of
  them and asks for none; taking an order asks for none, because the access token outlives the session. Passwords themselves,
  registration and the lock after failed attempts are left out.
- `SinRecoger`, `Mensajes`, `Kioskos`: contents, names, the filter of home deliveries, the size of the
  batches, `primerConexionAt` and the count of no-shows are left out.

## 3. What the runs check

| Run | Instance | States | Shows |
|---|---|---|---|
| `pedido` | all 29 operations, 2 warehouse users, 2 proposals, 2 requests (which overlap at most `MAX_SOLAPES` = 2 times, with 1 proposal from then on) | 541,018 | an order has a row in the ERP queue exactly from the till on; an order at the till is in its line; **`Pedido` implements `CicloPedido`**; what the panel of the store offers can be done, refusing a proposal aside (section 4); in order: nothing goes to the customer with lines nobody looked at, every live order is in somebody's list |
| `transferencia` | 3 payments, 2 requests (2 payments once they overlap) | 399,674 | one payment to resolve at most, none left open by a cancellation, verified money never lost; the buttons of Tesoreria are what the handlers would accept; in order, no applied money on a cancelled order |
| `dtf` | 2 jobs with 3 files between them (`MAX_ARCHIVOS`), 2 requests, crashes (2 overlaps, 1 job from the first one on) | 1,051,013 | the review queue can be taken; in order: only the approved file is printed, an order waits in `EN_DTF` only for something, and none passes the gate with jobs left |
| `caja` | 2 orders, one of them payable by transfer; 1 cashier, 1 administrator, 2 windows in 2 stores, 1 request and the sweep; beside it 2 cashiers, 2 windows of one store and 2 requests | 554,574 | a customer leaves a cashier only towards the line, and only by who may take them out; nobody is attended from a window without cashier; a customer sent to pay is on the wall of the store or comes back to it |
| `cola_erp` | 1 order whose variant the ERP learns late, 2 faults of any of 10 kinds | 115,239 | the folio of the ticket is the one in the ERP; the order gets to the ERP; the charge and the cancellation reach the other side |
| `subida` | 2 stores, batch of 2, 3 changes, 1 fault of any of 8 kinds | 442,463 | no checkpoint passes over an undecided change; the first load loses nothing; what a batch reaches is uploaded |
| `estaciones` | 1 order, 2 counters, an operator and an administrator, a sweep that leaves its work half done twice at most (`MAX_FALLOS_BARRIDO`); 1 picker with 3 tokens; 1 request and the sweep (one token less once they overlap) | 374,553 | who leaves returns the customers they called and the orders they were picking, in the end too if they just vanish and the sweep fails before it frees their counter; a closed session does not come back |
| `piezas` | 2 products with different wholesale prices, 2 pieces each, adjustments of 1 product (`MAX_CAMBIOS_DEL_AJUSTE`), 2 pieces to put back (`MAX_FUERA`), 1 request (1 product once something changes under it) | 649,726 | the rows count what is in the bag; what is charged is what was found; a bag with pieces of more is opened; pieces taken out are on a list; a proposal costs and gives what it said |
| `avisos` | 2 kiosks of 2 stores and a tablet; 1 bag, 2 sweeping processes; a chat of 2 messages, 2 requests | 296,119 | one reminder per wait; a bag cannot be put off for ever; reading hides nothing that was not seen; every silent tablet is alerted of |

Two requests in flight show every pair of a read and a commit that comes between, with any number of
complete requests before, between and after; the handlers read and write one order, so that is where
their conflicts are. Two proposals are needed for one that supersedes another, two payments for one
that was issued again and three for what accumulates, two jobs for the last one that releases the order,
two stores for a checkpoint that lags, two products for a price that depends on the whole order.

**Properties in order.** Several guarantees are of one request at a time: with two, TLC refutes them
(section 5). A history variable of the `MC` module (`solapo`, or the count `solapes` it stands for) says
whether two requests have overlapped (or, in `MCDtf` and `MCEstaciones`, one died between its writes; in
`MCPiezas`, something changed under a request), and a property whose name ends in `EnOrden` or
`SiNadieCoincide`, and the sessions of `MCEstaciones`, are stated while it is false. The
others hold with every overlap. Where a run also says "once they overlap", the bound of the instance gets
smaller from then on (`MAX_..._CON_SOLAPE`, the guards of `MCNext` in `MCPiezas` and `MCEstaciones`), and in `pedido` and
`dtf` requests overlap twice at most (`MAX_SOLAPES`: a request can still come between the read and the commit of
each of two others), because the full product is out of reach; the theorems hold for every value of these bounds,
and those of `Spec` (section 6) have none. In `MCEstaciones` the counters are not followed past an overlap, where every property of theirs says nothing. `desvio` of `MCEstaciones` excludes what
the code lets happen in order (section 5): a customer left announced at a counter that was freed, because the operator moved to another one or the return was left half way, and an order taken by somebody who is not online. `ElLlamadoVuelve` excludes it only of a freed counter: one that still has its operator is swept, whatever happened before; and `cruce` of `MCAvisos` a message that
commits after a later one. `MCSubida` remembers the events that an administrator asked to process again (`repetidos`) and those of the
rows that left the outbox without being uploaded (`purgados`, `purgeOldOutbox`): the exceptions of `NadaSeSalta` and `CargaCompleta`.

**Parts side by side.** `MCCaja` has two instances of one module: two stores with the sweep, and two cashiers of one store who call the next
customer, release and change windows at once, so that `Llama` finds its customer taken and tries again. `MCEstaciones` and `MCAvisos` hold modules that share no variable. `parte` says which one
the behaviour is about: they run in one instance each, one part at a time.

**Fairness.** The modules of handlers (`Pedido`, `Transferencia`, `Dtf`, `Piezas`) assume none: a person or the
agent calls them, and nothing in the code makes them do it. Where the code schedules, it is stated:

- `Caja`, `Mostradores`, `Presencia`, `SinRecoger`: weak fairness of the sweeping worker (`setInterval` of
  `estaciones.worker`, `sin-recoger.worker`), of the end of a request that is already running in the step
  that frees a counter, and of the passing of time where a threshold ends a session or ages a wait.
- `ColaErp`: weak fairness of the loop of the agent (`index.ts` restarts it after a crash) and of the end of
  leases and back-offs; strong fairness of `LeeErp`, because the reconciliation only gets its turn in
  some of the cycles, and again and again. Nothing is assumed of the people of the ERP.
- `Subida`: weak fairness of the next step of the agent, of the cloud, and of the end of the back-offs.
- Faults are bounded (`MAX_INCIDENTES`, `MAX_FALLOS_BARRIDO`): liveness says that the system recovers once they stop.

`LlegaAlErp` lets the maintenance job give an order up (`EXPIRADO`) as the code does. `SubeLoQueAlcanza` says
"within one batch of the smallest checkpoint" because without it the property is false (section 4).

`CHECK_DEADLOCK FALSE` where the system really stops: an order that was delivered or cancelled with its
payments, jobs and pieces over, or a model whose bounds of tokens, messages or requests are spent.

### Every property can be broken

Each property of a passing run is paired with a mutant of a definition, a bug that the code could have:

| Run | Property | Definition → variant |
|---|---|---|
| `pedido` | `EncoladoSiiEnCaja` | `MaquinaPedido!Encola` → `EncolaAunqueDesvie` |
| `pedido` | `FilaDeCajaCompleta` | `MaquinaPedido!EnCaja` → `EnCajaSinEntrada` |
| `pedido` | `EntregaSinPendientesEnOrden` | `Pedido!SinFaltantes` → `SinFaltantesReabiertos` |
| `pedido` | `TodoPedidoSeVeEnOrden` | `Vistas!EnColaDelMostrador` → `EnColaSoloRevisado` |
| `pedido` | `LoDemasOfrecidoCabe` | `Vistas!AJUSTABLES_POR_LA_TIENDA` → `AjustablesEnAsesoria` |
| `pedido` | `ImplementaCicloPedido` | `Pedido!Paga` → `PagaSinReleer` |
| `transferencia` | `PagoInequivoco` | `Transferencia!EmiteInstrucciones` → `EmiteAunqueEsteCobrado` |
| `transferencia` | `CanceladoSinPagoAbierto` | `Transferencia!PedidoLibre` → `SinBloqueo` |
| `transferencia` | `AplicadoSoloCobrado` | `Transferencia!Sana` → `SanaAntesDeCobrar` |
| `transferencia` | `CanceladoSinDineroAplicadoEnOrden` | `Transferencia!SeResuelveAlCancelar` → `CancelarSoloAbiertos` |
| `transferencia` | `DineroVerificadoNoSePierde` | `Transferencia!Sube` → `SubeSinReleer` |
| `transferencia` | `AccionesFieles` | `VistasPagos!puedeAprobar` → `ApruebaSinMirarOtro` |
| `dtf` | `ColaDeRevisionTomable` | `Dtf!ConArchivoNuevo` → `ConArchivoSinSoltar` |
| `dtf` | `ImprimeLoAprobadoEnOrden` | `Dtf!ConArchivoNuevo` → `ConArchivoSinCola` |
| `dtf` | `EnDtfEsperaAlgoEnOrden` | `Dtf!Cancela` → `CancelaSinResolver` |
| `dtf` | `NadieEntraConDtfPendienteEnOrden` | `Dtf!LeeAvanzar` → `LeeAvanzarSinContar` |
| `caja` | `AtendidoConVentanillaSiNadieCoincide` | `Caja!SueltaPorId` → `SueltaSinRegresar` |
| `caja` | `ElClienteSigueConSuCajero` | `Caja!PuedeTomar` → `PuedeTomarDeOtro` |
| `caja` | `ElClienteVuelveALaPared` | `Caja!Inactivas` → `InactivasDeCajeros` |
| `cola_erp` | `FolioDelTicketEsElDelErp` | `ColaErp!FolioVigente` → `FolioSinReserva` |
| `cola_erp` | `LlegaAlErp` | `ColaErp!EnviosLibres` → `EnviosSinTomar` |
| `cola_erp` | `CobroLlega` | `ColaErp!PorConciliar` → `ConciliarSinPorPagar` |
| `cola_erp` | `CancelacionSeAvisa` | `ColaErp!PorConciliar` → `ConciliarSinCancelados` |
| `subida` | `NadaSeSalta` | `Subida!TrasRespuesta` → `AvanzaConErrores` |
| `subida` | `CargaCompleta` | `Subida!TrasRespuesta` → `BootstrapSinFallidos` |
| `subida` | `SubeLoQueAlcanza` | `Subida!Resultado` → `ResultadoSinFin` |
| `estaciones` | `AnunciadoConOperadorEnOrden` | `Mostradores!Suelta` → `SueltaYTermina` |
| `estaciones` | `QuienSalioNoTraePedidosEnOrden` | `Presencia!Devueltos` → `SinDevolver` |
| `estaciones` | `ElLlamadoVuelve` | `Mostradores!Inactivos` → `InactivosSinLlamados` |
| `estaciones` | `SesionCerradaNoRevive` | `Presencia!CerradaAProposito` → `CerradaNunca` |
| `estaciones` | `QuienSeFueSale` | `Presencia!Vencidos` → `VencidosDeBodega` |
| `piezas` | `LaBolsaCuadra` | `Lineas!AjustarLinea` → `AjustarSinContar` |
| `piezas` | `LaBolsaDeMasSeAbre` | `Piezas!TraeAjuste` → `TraeAjusteSinSobrante` |
| `piezas` | `NadaQuedaSinDuenoEnOrden` | `Piezas!CrearDesdePedido` → `CrearSiNoHay` |
| `piezas` | `SeCobraLoSurtidoEnOrden` | `Piezas!Surtido` → `SurtidoSinRecuento` |
| `piezas` | `LaPropuestaSeCumple` | `Piezas!Recalcula` → `RecalculaSinPromo` |
| `avisos` | `UnRecordatorioPorEspera` | `SinRecoger!SinReclamar` → `YaEraCandidato` |
| `avisos` | `LoNoVistoSeCuentaEnOrden` | `Mensajes!Recortado` → `HastaElUltimo` |
| `avisos` | `LaCaidaSeAvisa` | `Kioskos!Recuerda` → `RecuerdaTodo` |
| `avisos` | `LaBolsaVence` | `SinRecoger!PuedeConfirmar` → `PuedeConfirmarSiempre` |

## 4. Findings

Three runs end in a counterexample: a statement of the repository about itself that the code refutes.

| Run | Statement | What TLC shows |
|---|---|---|
| `rechazo_ofrecido` | `destrabar.service.ts:318` "Rechazar la propuesta (regresa con el asesor)" | the panel offers it on an order that is on the delivery table, from where the machine does not let it go back to `EN_ASESORIA`; one request at a time |
| `cancela_cobrado` | `destrabar.service.ts:48` "cancelar un pedido YA pagado (solo ADMIN)" | `CANCELAR_SIN_PAGO` validates an unpaid order, the agent charges it, and `PAGADO → CANCELADO` is legal |
| `sube_todo` | `up-processor.ts:126-129` "Para no perder eventos de tiendas "rezagadas", leemos desde el MÍNIMO" | a store without changes keeps the smallest checkpoint; with more rows than a batch above it, every cycle reads the same rows and never the next ones, without any fault |

## 5. Further disagreements, without a run

They were found with the same modules; no run repeats them. A name in parentheses is the definition that
states it.

Orders (`Pedido`, `Vistas`, `Piezas`), two requests except where it says so:

- `propuesta.service.ts:478`: the check is outside the transaction and the write is by id, so two answers to
  one proposal are both accepted and the second replaces the first, against line 479 "Esta propuesta ya
  fue respondida." (`RespuestaUnica`).
- `bodega.service.ts:247`: the state that lets an order be taken is read before the transition; by the
  commit the order may be on the delivery table, although line 246 says of that arc "Un bodeguero
  nunca debe iniciarlo".
- `mostrador.service.ts:133`: the pending proposal is looked for before the transaction, so an order can
  get to the till with one ("El operador tiene que resolverlo").
- `propuesta.service.ts:778`: the destination of an approval is decided on an old state; an order given
  back to the line meanwhile is attended with nobody called.
- `admin.service.ts:205`: a transfer begun after the read does not stop a manual charge.
- `mostrador.service.ts:832` and `destrabar.service.ts:672`, **one request**: cancelling leaves the
  pending proposal `PENDIENTE`, the outcome `cliente.service.ts:566-568` says was fixed.
- `ventas.service.ts:47-50`, **one request**: a proposal an ADMIN sent is not in the queue of sales, against
  lines 70-73 "así el vendedor ve en una sola lista todo lo que tiene entre manos" (`PropuestaDeAsesorSeVe`).
- `surtido.service.ts:391`: an adjustment that decided it did not need the warehouse commits after the order
  changed, and what is charged is not what is in the bag, against lines 385-387 "la que atrapa CUALQUIER camino
  futuro" (`SeCobraLoSurtido`).
- `reposicion.service.ts:385` and `mostrador.service.ts:460`: pieces merged into a list that is being confirmed
  stay out of the bag with nobody to return them (`NadaQuedaSinDueno`).
- `calculadora-ajuste.util.ts:291-296` and `promo-volumen.util.ts:52`, **one request**: with one line older than the
  promotion, `aplicarPromoVolumen` does nothing at all and the calculator prices the other lines at wholesale, so
  a proposal is charged at another total (`LaPropuestaSeCumple` with `SinPar = {a}`).
- `bodega.service.ts:735-748`, **one request**: a product added and then found by nobody is brought back by a
  "reponer", and a line that was of the order with nothing in the bag is not announced, against "hay productos nuevos que
  traer del anaquel" (`LoQueFaltaSeAnuncia`). `bolsa-en-bodega.util.ts` says there is no bag after `liberar`, although the
  marks of the lines stay.

Transfers (`Transferencia`, `VistasPagos`):

- `hooks.ts:194`: `VERIFICADO → APLICADO` between the read and the write of a cancellation leaves the money applied to
  a cancelled order, against line 135 (`CanceladoSinDineroAplicado`).
- `hooks.ts:157`: a comprobante that lands between the read and the write of a cancellation leaves
  the payment `EN_REVISION` without the mark for Tesorería that `cliente.service.ts:627-628` promises.
- `tesoreria.service.ts:1001`, **one request**: refusing one of two comprobantes of a cancelled order
  clears the mark of the payment with the other one still to review.
- `tesoreria.service.ts:986`: an upload between the count and the write of a refusal leaves a comprobante in
  a payment that goes back to `PENDIENTE` and can then expire, against lines 536-537.
- `tesoreria.service.ts:430`, **one request**: the button of a transfer without order does not look for another payment
  under way, which the unique index refuses, against line 411 "Son las mismas guardas" (`AbonoOfrecidoCabe`).
- `hooks.ts:172`: a mark for review lands by id on a payment that has just expired: it cannot be approved and
  `requieren-revision` does not list it (`LoMarcadoSeVe`).

DTF (`Dtf`):

- `impresion.service.ts:450`: `imprimir` accepts a printed job and does not tell the order, which stays on the table with
  something to print, against `pedido-state.service.ts:476`, **one request** (`PlanchaSinDtfPendiente`).
- `dtf-trabajo.service.ts:289`: an upload begun on a draft writes `BORRADOR` over the job of the order created meanwhile, which
  waits in `EN_DTF` for nothing, against `dtf-pedido.service.ts:27` (`EnDtfEsperaAlgo`).
- `dtf-pedido.service.ts:42` and `impresion.service.ts:461`: the lost wakeup between the last print and the gate, and a
  failure between a print and `resolver` (`loteImpreso` swallows it), also leave an order in `EN_DTF` for nothing.

Till, counters and sessions (`Caja`, `Mostradores`, `Presencia`):

- `cajero-monitor.service.ts` says that verified transfers go first; `ordenarFilaDeCaja` orders by arrival only.
- `cajero.service.ts:341`: a release that read its own turn and commits after another cashier took the customer sends away the customer of that one,
  against line 337 "Solo el cajero asignado al pedido (o un admin) puede liberarlo". So `ElClienteSigueConSuCajero` lets a release in flight
  take a customer from whoever has them.
- `mostradores.service.ts:194-196`: choosing another counter frees the first one without returning the customers
  called from it, against "soltar el mostrador dejaba el folio anunciado en la TV" (`AnunciadoConOperadorSiNadieCoincide`, **one
  request**); a call that reads the counter and commits after it was freed does the same (`mostrador.service.ts:1198-1275`).
- `mostradores.service.ts:253-254` and `288-293`: a sweep or a request that fails or dies between freeing a counter and returning its customers, or skips one of them
  for any error, leaves them announced in front of nobody, and no later sweep looks at that counter, because it has no operator: they wait until
  somebody sits there and gives it up again. `ElLlamadoVuelveAunqueFalle`, which is `ElLlamadoVuelve` of every counter, is violated by one failure, as by the move to another counter (**no overlap**), against lines 263-268
  and `estaciones.worker.ts:15` "el barrido es idempotente". The windows do not have it: `ventanillas.service.ts` frees and returns in one transaction.
- `presencia.service.ts:103`, `138`, `239`: a notice withdrawn while the customer is being called leaves an order attended without customer.
- `bodega-presencia.service.ts:199-203`: the list of the inactive is read once, so somebody who came back is taken out; line 82: a
  heartbeat that read its session before the logout puts them back; an ADMIN who never gave a heartbeat is never swept.
- `bodega-presencia.service.ts:24-30`: taking an order without being online leaves it with somebody who is not there
  (`QuienSalioNoTraePedidosSiNadieCoincide`, **one request**).
- `auth.service.ts:264-272`, `381`: a refresh within the grace that counts before the logout writes issues a token in a closed family.

ERP and catalogue (`ColaErp`, `Subida`), one agent:

- `pedido-descarga.handler.ts:238-242`: the limit for an unknown variant ("se marca ERROR terminal, no RETRY infinito") compares
  `intentos`, which only a failed ack increments (`sync-agent.service.ts:508`); an order left out of every batch is never
  acknowledged, so it stays in RETRY (`ReintentosAcotados`).
- `tareas-erp.util.ts:76-77`: an order cancelled while the agent writes it "lo resuelve el ACK"; if that ack is refused for a lease
  that ended and the row is never taken again, nobody is told (`CanceladoVivoSeAvisa`).
- A manual charge while the row is not `PROCESADO` opens no task. `exito: false` acks never leave `ack_outbox`; resending a
  good one opens `CANCELAR_EN_ERP` again. An `EXPIRADO` row refuses a successful ack for ever. `GRABAR_MOVPED` with `IDMOVPED` 0 on a retry
  may repeat lines. A folio refused as `FOLIO_EN_USO` can still be written. An event processed between the first read and the transaction of
  `marcarComoPagado` does not close the `REGISTRAR` task.
- `Subida`: of an agent that starts, a store whose checkpoint is still 0 does not count for the minimum and a refused event of it is
  passed over (`NingunaTiendaPierde`); a price whose handler failed is given up after 5 attempts; deletions never reach the
  cloud; an event of the outbox can overwrite a newer row.

Reminders, chat and kiosks (`SinRecoger`, `Mensajes`, `Kioskos`):

- `mostrador.service.ts:899`: the batch is validated once, against lines 855-862 "Se revalida CADA pedido"; a customer who arrives in
  between finds the order cancelled (`NoSeCancelaAQuienLlego`).
- `sin-recoger.service.ts:200`: `confirmarInteres` is conditional on its count only and restarts the wait of an order that is at the till by
  then. (`EsperaCorrecta` of section 6 is about the handlers of `Pedido`.) The sweep may remind of an order that left the table. A customer
  present for 24 hours and discarded after 72 can be cancelled without a reminder.
- `messages.service.ts:451`: a message that takes its id before another and commits after it is passed over by the watermark
  (`LoNoVistoSeCuenta` with `cruce`); a death between the two watermarks leaves one read and not delivered; a crash after the flag loses the mail.
- `kiosko`: `reclamar` and `desvincular` leave the old heartbeat, so a tablet just paired can be alerted of; a kiosk switched off between the read and
  the transaction of `reclamar` still gets its token; two requests of a code at once leave two live ones; a heartbeat validated before
  `desvincular` writes after it. `LaCaidaSeAvisa` is false with two failed ticks in a row: the threshold is two ticks.
- `realtime.service.ts:53`: rows are always written with `emitidoAt`, so the worker that re-emits the ones without it never finds any.

## 6. What is proved

TLAPS proves these for **every** value of the constants: any number of requests in flight, users, proposals, payments, jobs,
versions, windows, counters, tokens, folios, variants and prices, and every set of operations. The assumptions are the named `ASSUME`s of the modules: the
"nobody" and "nothing" values are none of the things they stand for, the limits are naturals, the stores and prices are functions of the right
domains, `Operaciones` are known operations. A theorem is of `Spec`, with every overlap, unless it says "in order": those are
theorems of `MCSpec` (`AvisosSpec` in `MCAvisos`), the same steps with the history variable that tells whether anything has overlapped, and of
any value of the bounds that `MCNext` adds.

`PedidoProofs`: `TypeOK`, `EncoladoSiiEnCaja`, `EsperaSiiBolsaApartada`, `LlamadoSoloEnAtencion`,
`FilaDeCajaCompleta`, `SoloTransicionesLegales`, `NuncaVuelveDeCaja` and the refinement
`ImplementaCicloPedido`. The invariant is

    IInv == TypeOK /\ Coherente(ped) /\ AgenteCobraEncolado

`Coherente` joins the columns with the state. It is not inductive alone: `marcarComoPagado` moves
the order to `PAGADO` from whatever state it is in, and what keeps that legal is that the request of
the agent was only accepted of an order with an ERP row (`AgenteCobraEncolado`), which with `Coherente` leaves only
the states of the till. `TransitaLegal` shows once that any transition the machine admits is a
`PasoLegal`; `ColumnasLibres` and `EfectosLegales` that the other writes are; then one lemma per group
of handlers, and every theorem, the refinement too, follows from `NextAvanza`.

`LoDemasOfrecidoCabe` needs one invariant more, `AlDomicilio`: an order that is delivered at home is never on the
table, nor with an adviser, nor waits for an answer. The panel offers to send an order to the till or
back to the warehouse by its state alone, and the table of transitions allows it only because the states where it would not
are never those of a home delivery. It is a theorem too, with any overlap.

In order (`EntregaSinPendientesEnOrden`, `TodoPedidoSeVeEnOrden`) the invariant adds that one request at most is in flight
and the row is as it read it (`Leyo`): so its decisions are about lines, proposals and presence that are still those. From
that, only the warehouse holds lines nobody has looked at, `ESPERANDO_APROBACION` has a pending proposal and
`EN_ATENCION` a customer who is present (`FilaEnOrden`).

`TransferenciaProofs`: `TypeOK`, `PagoInequivoco`, `CanceladoSinPagoAbierto`, `RevisionConComprobante`,
`ReembolsoSinVenta`, `AplicadoSoloCobrado`, `DineroVerificadoNoSePierde`. The invariant is

    IInv == TypeOK /\ Filas /\ UnSoloBloqueo /\ LecturasVigentes

The rows alone are not inductive because requests write what they decided earlier: `UnSoloBloqueo`
says that the lock has one holder and `LecturasVigentes` what is still true of each reading. Its core is
`Derivas`: what may have become, without the lock, of the payment a cancellation read.
`CanceladoSinDineroAplicadoEnOrden` sharpens it in order: the payment is exactly as the cancellation read it
(`CancelacionExacta`), and whoever is about to apply one does it to an order that was charged (`CobroVigente`).

`DtfProofs`: `TypeOK`, `ColaDeRevisionTomable`, `ImpresoConArchivo`, `VersionSoloSube`. The invariant says
of each row what those need (`FilaOK`; a draft has nobody, a row never created has no version) and of each request
in flight (`LecturaOK`) that what it is about to approve or print had a file when it was read. A reprint
writes by id with no condition: it is safe only because a version is never lost.

In order (`ImprimeLoAprobadoEnOrden`, `EnDtfEsperaAlgoEnOrden`, `NadieEntraConDtfPendienteEnOrden`) the job a request read is as
it read it, what it counted of the order is still so (`Cierta`), and an order in `EN_DTF` waits for a job or the
request that will take it out is in flight (`EsperaConMotivo`). A process that dies between the two writes of a request breaks
the last one, so `solapes` counts it as an overlap.

`CajaProofs`: the types, `ElClienteSigueConSuCajero`, `EnSuTienda` and, in order, `AtendidoConVentanillaSiNadieCoincide`. The first is an action
property of any number of cashiers with every overlap: types are its only invariant, and the argument goes write by write: one that sets an owner does it under the
condition that there is none or it is the same, and one that clears it either repeats the owner in its condition (`noSePresento`, `esperarValidacion`), or is the release of a
window and clears those of whom it moves or sweeps, or is the `liberar` of that order. `AtendidoConVentanilla` is inductive with what was read of the window
(`LeidoVale`, `BarridoVale`) and with one fact that is about everybody, `EnSuTienda`: taking an order asks of a cashier only that they have
some window, and that it is one of the store of the order follows from a cashier sitting only in their own.

`PiezasProofs`: `LaBolsaCuadra`, `LaBolsaDeMasSeAbre`, `LaPropuestaSeCumple` and, in order, `NadaQuedaSinDuenoEnOrden` and
`SeCobraLoSurtidoEnOrden`. The invariant is

    IInv == Sanas(lineas) /\ LaBolsaCuadra /\ PropuestaVigente /\ PeticionBien(peticion)

The count alone is not inductive: it needs lines where nobody withdrew more than can be out of the bag, a line not available has
nothing found and a live short line has no more than was asked for (`Sanas`), and a pending proposal that adds exactly the
products the order lacks (`PropuestaVigente`), or applying it would overwrite a line with pieces in the bag. Each operator of
`Lineas` has its lemma (`AjusteConserva`, `RetiroConserva`, `FaltaConserva`, `ReposicionConserva`, `ParcialConserva`): it keeps a
line sound and changes its count by what it says went in or out. `LaBolsaDeMasSeAbre` follows: a sound line with more in the
bag than the customer takes is one that `TraeAjuste` sees.

`LaPropuestaSeCumple` needs `PropuestaFiel`: while a proposal is pending nobody moves its lines, so what it would leave is
still what was calculated. Its total is a sum over other lines than the ones charged (those without pieces count zero), so the proof has to say that two sums of the
same amounts are equal; `SumFunction` folds a set by `CHOOSE`, and the lemmas from `HaySuma` to `SumaSinCeros` unfold it by
induction on finite sets. The hypothesis `SinPar = {}` says that every line has its pair of prices: with a line
older than the promotion the property is false (section 5).

In order the invariant adds that outside the warehouse every line says exactly what the bag has of it (`BolsaExacta`), that the
pieces out of the bag are on the list that somebody will confirm (`NadaQuedaSinDueno`, `ListaBien`), and that what the request in flight read is still so
(`PeticionVigente`): an adjustment that decided it does not need the warehouse really does not.

`ColaErpProofs`: `FolioDelTicketEsElDelErp`, `FolioUnicoEnErp`, the types. The invariant is

    IInv == TypeOK /\ UnSoloNumero /\ Distintos /\ EnCamino /\ TrasPedirla

That ticket and ERP agree is not inductive, because the folio is copied to seven places and a crash or a lost answer leaves
any of them behind. What is inductive is that every copy, at rest (`UnSoloNumero`) or in what the agent carries, owes or has sent
(`EnCamino`), is the number that the store wrote for that order and for no other (`Distintos`). `TrasPedirla` says that nothing
about an order moves before its folio was asked for: so no confirmation of a folio is ever refused, and the agent never abandons one after
`MAX_RECHAZOS` (`reservado[p].estado # 2`).

`EstacionesProofs` is of `MCSpec`: `AnunciadoConOperadorEnOrden`, `LlamadoPresenteSiNadieCoincide`, `QuienSalioNoTraePedidosEnOrden`,
`SesionCerradaNoRevive`, `NadieSaleConOtraSesion`, the types. While nobody overlaps, what a request read holds at its
commit (`LeidoVale`, `LeidoValeB`). Freeing a counter is several steps, and between them its customers are announced in front of nobody:
`ConQuienLoRegrese` says that each is on the list of whoever freed it, or that list is still to be made (`LoRegresa`), until a return is left half way (`desvio`). For the sessions,
a family is of one user (`UnDueno`), its tokens are numbered (`Seguidos`) and it is closed whole (`CerradasDelTodo`): so the
grace of a lost race, which looks at one token, finds an open family or none.

`SubidaYAvisosProofs`, the way up: `NadaSeSalta`, `CargaCompleta` and, as an action property, that nothing decided is taken back
(`LoDecididoSeQueda`). They are of `MCSpec`, with every overlap and fault, and of any value of its constants. The invariant is

    IInv == Tipos /\ PeticionDelAgente /\ ProcesadosSabidos /\ ConAvance /\ NadaSeSalta
              /\ BandejaEnCamino /\ FasesCargadas /\ PaginaEnCamino

That a checkpoint passes over nothing is not inductive: it is written when the answer for a store arrives, from what was read
of the queue several steps, and several stores, before. `BandejaEnCamino` says that meanwhile, if anything goes to a store, each
notice of it up to the place that was read is decided or is among what is to be uploaded, for that same store (`TiendaResolver` sends the
notices of a row that is gone to the global one). `PeticionDelAgente` ties what the cloud is processing to that, unless the agent that asked is dead;
`ProcesadosSabidos` says that each event the loop has gone through is decided or reported as failed; `ConAvance` that no
store is left out of the minimum from which the queue is read. For the first load, `PaginaEnCamino` says the same of the rows of a
page and `FasesCargadas` of the phases that are over. All rest on one fact about the cloud, `SabidoSigue`: what it decided stays so, or
somebody asked for it again.

`SubidaYAvisosProofs`, the notices, each of the `AvisosSpec` of `MCAvisos` and with an invariant of its own:

- `LaCaidaSeAvisa` (`AvisadasEnRegla`): a kiosk the worker remembers was alerted of since its last heartbeat, unless that heartbeat
  came after the last good tick. Its hypothesis is `MAX_FALLOS < UMBRAL_TICS`: fewer ticks fail in a row than fit in
  the threshold. With two and two it is false (section 5).
- `UnRecordatorioPorEspera` (`RecordadoUnaVez`): an order that was reminded in this wait has its column set, whatever
  sweeps coincide. A confirmation of interest clears it, but what it read was under the limit, so it moves the count on and another wait starts.
- `LoNoVistoSeCuentaEnOrden` (`LeidoEnRegla`): a side has read no further than something it saw, what each request is
  about to write included; and while no message has overtaken an open transaction, what it did not see came after all it saw.
- `UnSoloCorreo` (`CorreoEnRegla`): only the request that wrote the row of the mail is going to send it, and then none has gone.
- `SoloElAdminMueveTabletas` (`VinculosEnRegla`): the pairing a tablet polls was asked for when it kept the kiosk it keeps, whatever
  answers were lost, so the store that `aprobar` compares is the one it would be moved from. It is about one request of a tablet at a time (`SinSolapar`).

`EsperaSiiBolsaApartada`, `LlamadoSoloEnAtencion`, `SoloTransicionesLegales`, `NuncaVuelveDeCaja`, `AlDomicilio`, `RevisionConComprobante`,
`ReembolsoSinVenta`, `ImpresoConArchivo`, `VersionSoloSube`, `EnSuTienda`, `FolioUnicoEnErp`, `LlamadoPresenteSiNadieCoincide`, `NadieSaleConOtraSesion`,
`LoDecididoSeQueda`, `UnSoloCorreo`, `SoloElAdminMueveTabletas` and the types are theorems and are in no run: what TLC would say of an instance, the theorem says of all.

## 7. What is only model-checked

- Liveness (`ElClienteVuelveALaPared`, `LlegaAlErp`, `CobroLlega`, `CancelacionSeAvisa`, `SubeLoQueAlcanza`, `ElLlamadoVuelve`,
  `QuienSeFueSale`, `LaBolsaVence`) and `ENABLED` (`AccionesFieles`) are out of the prover's reach. So is induction with an operator as its
  parameter; the sums of `PiezasProofs` only need the well-founded orders of the library, which are about sets.
- Every other property of a passing run is a theorem. Of the types, those of `Subida`, `SinRecoger`, `Mensajes` and `Kioskos` are proved only as
  far as the invariants above need them.
- The properties in order are theorems of one request at a time only: with overlaps they are false (section 5).

## 8. Not modelled

- Realtime outbox: losing an event delays a screen that asks again anyway, and its worker has nothing to do (section 5).
- Notifications and mail: fired after the commit, never read back. Catalogue queries, images, favourites, stores, users, configuration, bank
  accounts: CRUD over single rows.
- The limit of attempts of a kiosk and the lock of an account after failed passwords: counters of one row that only refuse.
- The SQL inside Firebird: external; `ColaErp` and `Subida` take what the agent sees of it.
- Stock, the validation of a cart, DTF measures and prices, amounts and tracking keys of transfers, reports, the ages and pages of lists.
- The limit of orders per warehouse user (`surtido.service.ts:730`) and the suggestions of groups, which are over several orders.

What could come next: an abstract "each order is in the ERP exactly once" refined by
`ColaErp` (`FolioUnicoEnErp` is its first piece); `Pedido` composed with the jobs of `Dtf` in the place of its flag; several orders per warehouse user.

## 9. How to run

    tlc -workers 2 -config Pedido.cfg MCPedido
    tlapm PedidoProofs.tla
