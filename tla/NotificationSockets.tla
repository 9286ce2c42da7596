------------------------ MODULE NotificationSockets ------------------------
(***************************************************************************)
(* The WebSockets of one user over several instances of the server.  A     *)
(* ticket from Redis opens one socket on the instance the client reaches;  *)
(* each instance keeps its own sockets and drops those that stopped        *)
(* answering its pings.  A revoked session closes the sockets of the       *)
(* instance that served the revocation.                                    *)
(***************************************************************************)
EXTENDS Naturals, FiniteSets

CONSTANTS Servers, SocketIds, WsTickets,
          PingsMissed,     \* unanswered pings after which a socket is dropped
          NoServer, NoTicket

ASSUME SocketsAssumption == PingsMissed \in Nat /\ NoTicket \notin WsTickets

VARIABLES wsTicket,    \* "none", "live" or "spent"
          socket,      \* [phase, at, ticket, client, missed]
          revokedOn,   \* instances that served a revocation
          told,        \* history: sockets written to since the revocation on their instance
          closedThen,  \* history: sockets that were open where it was served
          hasty        \* history: sockets dropped although they answered

socketsVars == <<wsTicket, socket, revokedOn, told, closedThen, hasty>>

\* phase: "none", "opening" (its ticket is read), "open" (registered), "gone".
\* client: the other end is "there", "away" (closed) or "cut" (unreachable).
NoSocket == [phase |-> "none", at |-> NoServer, ticket |-> NoTicket, client |-> "there", missed |-> 0]

SocketsInit ==
  /\ wsTicket = [t \in WsTickets |-> "none"]
  /\ socket = [s \in SocketIds |-> NoSocket]
  /\ revokedOn = {} /\ told = {} /\ closedThen = {} /\ hasty = {}

\* connections
Registered(i) == {s \in SocketIds : socket[s].phase = "open" /\ socket[s].at = i}

----------------------------------------------------------------------------
(* Opening.                                                                *)

\* issueWsTicket
IssueTicket(t) ==
  /\ wsTicket[t] = "none" /\ wsTicket' = [wsTicket EXCEPT ![t] = "live"]
  /\ UNCHANGED <<socket, revokedOn, told, closedThen, hasty>>
TicketLapses(t) ==
  /\ wsTicket[t] = "live" /\ wsTicket' = [wsTicket EXCEPT ![t] = "spent"]
  /\ UNCHANGED <<socket, revokedOn, told, closedThen, hasty>>

\* Mutant: the ticket is read and left to expire.
Mutant_KeepsTicket(t) == wsTicket[t]
\* consumeWsTicket: GETDEL
TicketAfter(t) == IF wsTicket[t] = "live" THEN "spent" ELSE wsTicket[t]

\* onOpen, up to its await: an unknown ticket closes the socket.
Open(s, i, t) ==
  /\ socket[s].phase = "none"
  /\ wsTicket[t] = "live"
  /\ wsTicket' = [wsTicket EXCEPT ![t] = TicketAfter(t)]
  /\ socket' = [socket EXCEPT ![s] = [NoSocket EXCEPT !.phase = "opening", !.at = i, !.ticket = t]]
  /\ UNCHANGED <<revokedOn, told, closedThen, hasty>>
\* onOpen after it, whether or not the socket is still there.
AddSocket(s) ==
  /\ socket[s].phase = "opening" /\ socket' = [socket EXCEPT ![s].phase = "open"]
  /\ UNCHANGED <<wsTicket, revokedOn, told, closedThen, hasty>>

----------------------------------------------------------------------------
(* Closing.                                                                *)

\* onClose, onError: no user is known before the ticket was read, so there
\* is nothing to remove, and nobody will.
Close(s) ==
  /\ socket[s].phase \in {"opening", "open"} /\ socket[s].client # "away"
  /\ socket' = [socket EXCEPT ![s].client = "away",
                              ![s].phase = IF @ = "open" THEN "gone" ELSE @]
  /\ UNCHANGED <<wsTicket, revokedOn, told, closedThen, hasty>>
\* The cable is pulled: nobody is told.
Cut(s) ==
  /\ socket[s].phase = "open" /\ socket[s].client = "there"
  /\ socket' = [socket EXCEPT ![s].client = "cut"]
  /\ UNCHANGED <<wsTicket, revokedOn, told, closedThen, hasty>>

\* Mutant: the last ping that may be missed drops the socket already.
Mutant_TooSoon(s) == socket[s].missed + 1 >= PingsMissed
\* now - seen > HEARTBEAT_TIMEOUT_MS
Stale(s) == socket[s].missed >= PingsMissed

\* One tick of the interval: stale sockets are dropped, the others pinged.
Heartbeat(i) ==
  /\ Registered(i) # {}
  /\ socket' = [s \in SocketIds |->
       IF s \notin Registered(i) THEN socket[s]
       ELSE IF Stale(s) THEN [socket[s] EXCEPT !.phase = "gone"]
       ELSE [socket[s] EXCEPT !.missed = @ + 1]]
  /\ hasty' = hasty \cup {s \in Registered(i) : Stale(s) /\ socket[s].missed < PingsMissed}
  /\ UNCHANGED <<wsTicket, revokedOn, told, closedThen>>
\* markAlive
Pong(s) ==
  /\ socket[s].phase = "open" /\ socket[s].client = "there" /\ socket[s].missed > 0
  /\ socket' = [socket EXCEPT ![s].missed = 0]
  /\ UNCHANGED <<wsTicket, revokedOn, told, closedThen, hasty>>

\* Mutant: only sockets that still answer are closed.
Mutant_ClosesAnswering(i) == {s \in Registered(i) : socket[s].missed = 0}
ToClose(i) == Registered(i)
\* revokeUserSessions, closeConnectionsForUser; once on each instance (a bound).
RevokeOn(i) ==
  /\ i \notin revokedOn
  /\ revokedOn' = revokedOn \cup {i}
  /\ closedThen' = closedThen \cup Registered(i)
  /\ socket' = [s \in SocketIds |->
       IF s \in ToClose(i) THEN [socket[s] EXCEPT !.phase = "gone"] ELSE socket[s]]
  /\ UNCHANGED <<wsTicket, told, hasty>>

----------------------------------------------------------------------------
\* A message of the channel reaches the instance: deliverLocal.  One that
\* comes before the revocation leaves nothing the model keeps.
DeliverLocal(i) ==
  /\ i \in revokedOn /\ ~(Registered(i) \subseteq told)
  /\ told' = told \cup Registered(i)
  /\ UNCHANGED <<wsTicket, socket, revokedOn, closedThen, hasty>>

SocketsNext ==
  \/ \E t \in WsTickets : IssueTicket(t) \/ TicketLapses(t)
  \/ \E s \in SocketIds :
       \/ AddSocket(s) \/ Close(s) \/ Cut(s) \/ Pong(s)
       \/ \E i \in Servers, t \in WsTickets : Open(s, i, t)
  \/ \E i \in Servers : Heartbeat(i) \/ RevokeOn(i) \/ DeliverLocal(i)

SocketsSpec == SocketsInit /\ [][SocketsNext]_socketsVars

----------------------------------------------------------------------------
SocketsTypeOK ==
  /\ wsTicket \in [WsTickets -> {"none", "live", "spent"}]
  /\ socket \in [SocketIds ->
       [phase : {"none", "opening", "open", "gone"}, at : Servers \cup {NoServer},
        ticket : WsTickets \cup {NoTicket}, client : {"there", "away", "cut"}, missed : 0..PingsMissed]]
  /\ revokedOn \subseteq Servers /\ told \cup closedThen \cup hasty \subseteq SocketIds
OneSocketPerTicket ==
  \A t \in WsTickets : Cardinality({s \in SocketIds : socket[s].ticket = t}) <= 1
RevokedAreClosed == \A s \in closedThen : socket[s].phase = "gone" /\ s \notin told

(* Every variable keeps its type, so no socket is kept that missed more    *)
(* pings than it may, one that closed while its ticket was read included   *)
(* (notifications.routes.ts:46); a ticket opens one socket; a socket that  *)
(* answers in time is not dropped; and a socket that was open where its    *)
(* session was revoked is closed and told nothing more, which does not     *)
(* hold of other instances or of a socket being opened                     *)
(* (notifications.gateway.ts:61).                                          *)
SocketsSound == SocketsTypeOK /\ OneSocketPerTicket /\ hasty = {} /\ RevokedAreClosed
=============================================================================
