------------------------------ MODULE Mensajes ------------------------------
(* The chat of one order (pedidos/messages): the messages of both sides, the *)
(* watermarks of what each has read, from which the unread ones are counted, *)
(* and the one mail the first answer of the advisor sends.                   *)
(*                                                                           *)
(* A message gets its id when it is inserted and is seen when its            *)
(* transaction commits.  Contents, items and the proposal a message may      *)
(* carry (module Pedido) are left out.                                       *)
EXTENDS Integers, Sequences, FiniteSetsExt

CONSTANTS
    Peticiones,         \* requests that may be under way at once
    MAX_MENSAJES,       \* bound: messages of the chat
    MAX_MUERTES         \* bound: requests that die half way

VARIABLES
    mensajes,       \* autor_rol, visible_para_cliente, and whether it is committed
    leido,          \* {cliente,tienda}_ultimo_mensaje_leido_id; 0 is null
    entregado,      \* cliente_ultimo_mensaje_entregado_id; 0 is null
    enviado,        \* mensajes_bodeguero_enviados has the row of the order
    visto,          \* external: the ids each side has had on its screen
    peticiones,     \* requests under way, with what they have read
    muertes         \* requests that have died

vars == <<mensajes, leido, entregado, enviado, visto, peticiones, muertes>>

Lados == {"cliente", "tienda"}
Libre == [op |-> "LIBRE", lado |-> "cliente", id |-> 0]
Confirmados == {i \in DOMAIN mensajes : mensajes[i].confirmado}

\* El cliente solo ve lo visible para él.
VisiblesPara(lado) == {i \in Confirmados : lado = "cliente" => mensajes[i].visible}

Init ==
    /\ mensajes = <<>>
    /\ leido = [l \in Lados |-> 0]
    /\ entregado = 0
    /\ enviado = FALSE
    /\ visto = [l \in Lados |-> {}]
    /\ peticiones = [r \in Peticiones |-> Libre]
    /\ muertes = 0

-----------------------------------------------------------------------------
Pasa(r, op) == peticiones' = [peticiones EXCEPT ![r].op = op]

\* After its message, the request of an advisor, not that of an administrator,
\* looks whether the mail has gone.
Sigue(r, autor, visible) ==
    \/ peticiones' = [peticiones EXCEPT ![r] = Libre]
    \/ /\ autor = "tienda" /\ visible
       /\ peticiones' = [peticiones EXCEPT ![r] = [Libre EXCEPT !.op = "MIRAR_ENVIADO"]]

\* crear: one insert, which commits by itself.
Crear(r, autor, visible) ==
    /\ peticiones[r] = Libre
    /\ Len(mensajes) < MAX_MENSAJES
    /\ autor = "cliente" => visible
    /\ mensajes' = Append(mensajes, [autor |-> autor, visible |-> visible, confirmado |-> TRUE])
    /\ Sigue(r, autor, visible)
    /\ UNCHANGED <<leido, entregado, enviado, visto, muertes>>

\* crearConAdjunto: the insert is the last write of a transaction with the
\* proposal; its id is taken before the commit.
InsertaConAdjunto(r, autor) ==
    /\ peticiones[r] = Libre
    /\ Len(mensajes) < MAX_MENSAJES
    /\ mensajes' = Append(mensajes, [autor |-> autor, visible |-> TRUE, confirmado |-> FALSE])
    /\ peticiones' = [peticiones EXCEPT ![r] =
          [op |-> "CONFIRMAR", lado |-> autor, id |-> Len(mensajes')]]
    /\ UNCHANGED <<leido, entregado, enviado, visto, muertes>>

CrearConAdjunto(r) ==
    /\ peticiones[r].op = "CONFIRMAR"
    /\ mensajes' = [mensajes EXCEPT ![peticiones[r].id].confirmado = TRUE]
    /\ Sigue(r, peticiones[r].lado, TRUE)
    /\ UNCHANGED <<leido, entregado, enviado, visto, muertes>>

-----------------------------------------------------------------------------
\* dispararEmailPrimeraRespuestaAsesor: the row is created before sending, and
\* its unique key decides between two answers that coincide.
MiraEnviado(r) ==
    /\ peticiones[r].op = "MIRAR_ENVIADO"
    /\ IF enviado THEN peticiones' = [peticiones EXCEPT ![r] = Libre] ELSE Pasa(r, "MARCAR")
    /\ UNCHANGED <<mensajes, leido, entregado, enviado, visto, muertes>>

\* pedido_id is unique: the second create is refused.
CreaFlag(r) == IF enviado THEN peticiones' = [peticiones EXCEPT ![r] = Libre] ELSE Pasa(r, "ENVIAR")

MarcaEnviado(r) ==
    /\ peticiones[r].op = "MARCAR"
    /\ CreaFlag(r)
    /\ enviado' = TRUE
    /\ UNCHANGED <<mensajes, leido, entregado, visto, muertes>>

SendEmail(r) ==
    /\ peticiones[r].op = "ENVIAR"
    /\ peticiones' = [peticiones EXCEPT ![r] = Libre]
    /\ UNCHANGED <<mensajes, leido, entregado, enviado, visto, muertes>>

-----------------------------------------------------------------------------
\* listar: what the side has on its screen.
Listar(lado) ==
    /\ visto' = [visto EXCEPT ![lado] = VisiblesPara(lado)]
    /\ UNCHANGED <<mensajes, leido, entregado, enviado, peticiones, muertes>>

\* Everything there is, seen or not.
HastaElUltimo(id, ultimo) == ultimo

\* marcarLeido: the id the side has seen, never over the last one there is.
Recortado(id, ultimo) == Min({id, ultimo})

LeeUltimo(r, lado) ==
    /\ peticiones[r] = Libre
    /\ visto[lado] # {}
    /\ peticiones' = [peticiones EXCEPT ![r] =
          [op |-> "LEIDO", lado |-> lado, id |-> Recortado(Max(visto[lado]), Max(Confirmados))]]
    /\ UNCHANGED <<mensajes, leido, entregado, enviado, visto, muertes>>

\* Each watermark only rises, in an update of its own.
AvanzaLeido(r) ==
    LET pet == peticiones[r]
    IN  /\ pet.op = "LEIDO"
        /\ leido' = [leido EXCEPT ![pet.lado] = Max({@, pet.id})]
        /\ IF pet.lado = "cliente" THEN Pasa(r, "ENTREGADO")
                                   ELSE peticiones' = [peticiones EXCEPT ![r] = Libre]
        /\ UNCHANGED <<mensajes, entregado, enviado, visto, muertes>>

AvanzaEntregado(r) ==
    /\ peticiones[r].op = "ENTREGADO"
    /\ entregado' = Max({entregado, peticiones[r].id})
    /\ peticiones' = [peticiones EXCEPT ![r] = Libre]
    /\ UNCHANGED <<mensajes, leido, enviado, visto, muertes>>

\* The process dies.  An insert that had not committed leaves a hole in the ids.
Abandona(r) ==
    /\ peticiones[r] # Libre
    /\ muertes < MAX_MUERTES
    /\ muertes' = muertes + 1
    /\ peticiones' = [peticiones EXCEPT ![r] = Libre]
    /\ UNCHANGED <<mensajes, leido, entregado, enviado, visto>>

Next ==
    \/ \E r \in Peticiones, autor \in Lados, visible \in BOOLEAN : Crear(r, autor, visible)
    \/ \E r \in Peticiones, l \in Lados : InsertaConAdjunto(r, l) \/ LeeUltimo(r, l)
    \/ \E r \in Peticiones :
          \/ CrearConAdjunto(r) \/ MiraEnviado(r) \/ MarcaEnviado(r) \/ SendEmail(r)
          \/ AvanzaLeido(r) \/ AvanzaEntregado(r) \/ Abandona(r)
    \/ \E l \in Lados : Listar(l)

Spec == Init /\ [][Next]_vars

-----------------------------------------------------------------------------
TypeOK ==
    /\ Len(mensajes) <= MAX_MENSAJES
    /\ \A i \in DOMAIN mensajes :
          mensajes[i] \in [autor : Lados, visible : BOOLEAN, confirmado : BOOLEAN]
    /\ leido \in [Lados -> 0..MAX_MENSAJES]
    /\ entregado \in 0..MAX_MENSAJES
    /\ enviado \in BOOLEAN
    /\ visto \in [Lados -> SUBSET (1..MAX_MENSAJES)]
    /\ \A r \in Peticiones : peticiones[r] \in
          [op : {"LIBRE", "CONFIRMAR", "MIRAR_ENVIADO", "MARCAR", "ENVIAR", "LEIDO", "ENTREGADO"},
           lado : Lados, id : 0..MAX_MENSAJES]
    /\ muertes \in 0..MAX_MUERTES

\* contarMensajesNoLeidos: what the badge of a side counts.
NoLeidos(lado) ==
    {i \in VisiblesPara(lado) : mensajes[i].autor # lado /\ i > leido[lado]}

\* A message of the other side that a side has never had on its screen counts
\* as unread: marking as read what one has seen never hides what came after.
LoNoVistoSeCuenta ==
    \A l \in Lados :
        {i \in VisiblesPara(l) : mensajes[i].autor # l} \ visto[l] \subseteq NoLeidos(l)

\* What the comment of marcarLeido asks for: "un leído implica entregado".
LeidoImplicaEntregado ==
    leido["cliente"] > entregado => \E r \in Peticiones : peticiones[r].op = "ENTREGADO"
=============================================================================
