------------------------------- MODULE WsHub -------------------------------
(***************************************************************************)
(* pkg/wshub/wshub.go: one handshake and the life of its connection.  The  *)
(* bearer comes in the Authorization header or as a subprotocol; it is     *)
(* decoded before the upgrade, and the handler runs once with the          *)
(* connection, which is closed when it returns.                            *)
(***************************************************************************)
EXTENDS Integers, Sequences, SequencesExt, FiniteSetsExt

CONSTANTS Good,     \* bearers the Verifier accepts, with a subject
          Bad,      \* bearers it refuses
          Unnamed,  \* bearers it accepts without a subject
          NoBearer, \* the empty bearer
          MaxProtocols \* bound: subprotocols of a request

Bearer == Good \cup Bad \cup Unnamed

ASSUME HubAssumption ==
  NoBearer \notin Bearer /\ Good \cap (Bad \cup Unnamed) = {} /\ MaxProtocols \in Nat

(* The Authorization header: absent or of another scheme, or a bearer; the    *)
(* subprotocols: bearer.<token>, or another name.                             *)
Header == [scheme : {"none"}] \cup [scheme : {"Bearer"}, token : Bearer \cup {NoBearer}]
Subprotocol == [name : {"other"}] \cup [name : {"bearer"}, token : Bearer]

VARIABLES
  verifier,   \* whether Options.Verifier is set
  hub,        \* where Serve is
  header,     \* the request's Authorization header
  protocols,  \* its Sec-WebSocket-Protocol values
  conn,       \* the Conn's Bearer, whose subject it is bound to
  echoed      \* whether a subprotocol was accepted

hubVars == <<verifier, hub, header, protocols, conn, echoed>>

HubInit ==
  /\ verifier \in BOOLEAN
  /\ hub = "listening"
  /\ header = [scheme |-> "none"] /\ protocols = <<>>
  /\ conn = NoBearer /\ echoed = FALSE

(* Mutant of bearerFrom: the subprotocol is looked at first. *)
bearerFromProtocol ==
  LET named == SelectInSeq(protocols, LAMBDA p : p.name = "bearer")
  IN  IF named # 0 THEN [token |-> protocols[named].token, protocol |-> TRUE]
      ELSE [token |-> IF header.scheme = "Bearer" THEN header.token ELSE NoBearer,
            protocol |-> FALSE]

(* The header first, and if it is no bearer the first such subprotocol. *)
bearerFrom ==
  LET named == SelectInSeq(protocols, LAMBDA p : p.name = "bearer")
  IN  IF header.scheme = "Bearer" THEN [token |-> header.token, protocol |-> FALSE]
      ELSE IF named # 0 THEN [token |-> protocols[named].token, protocol |-> TRUE]
      ELSE [token |-> NoBearer, protocol |-> FALSE]

Request(h, ps) ==
  /\ hub = "listening"
  /\ header' = h /\ protocols' = ps
  /\ hub' = "deciding"
  /\ UNCHANGED <<verifier, conn, echoed>>

(* DecodeToken and the checks around it. *)
Accepted(token) == verifier /\ token \in Good

(* No bearer: 401; no verifier: 500; refused, or without a subject: 401.  No  *)
(* socket is opened.                                                          *)
Reject ==
  /\ hub = "deciding" /\ ~Accepted(bearerFrom.token)
  /\ hub' = "rejected"
  /\ UNCHANGED <<verifier, header, protocols, conn, echoed>>

(* websocket.Accept refuses, by its origin patterns for one. *)
UpgradeFails ==
  /\ hub = "deciding" /\ Accepted(bearerFrom.token)
  /\ hub' = "rejected"
  /\ UNCHANGED <<verifier, header, protocols, conn, echoed>>

Upgrade ==
  /\ hub = "deciding" /\ Accepted(bearerFrom.token)
  /\ conn' = bearerFrom.token /\ echoed' = bearerFrom.protocol
  /\ hub' = "handling"
  /\ UNCHANGED <<verifier, header, protocols>>

(* The client goes, or sends what is no text: Read gives the handler an       *)
(* error, which it takes for the end.  Or it has had enough.                  *)
HandlerReturns ==
  /\ hub = "handling"
  /\ hub' = "closed"
  /\ UNCHANGED <<verifier, header, protocols, conn, echoed>>

Again ==
  /\ hub \in {"rejected", "closed"}
  /\ hub' = "listening"
  /\ header' = [scheme |-> "none"] /\ protocols' = <<>>
  /\ conn' = NoBearer /\ echoed' = FALSE
  /\ UNCHANGED verifier

HubNext ==
  \/ \E h \in Header, ps \in BoundedSeq(Subprotocol, MaxProtocols) : Request(h, ps)
  \/ Reject \/ UpgradeFails \/ Upgrade \/ HandlerReturns \/ Again

HubSpec == HubInit /\ [][HubNext]_hubVars

(* An open socket belongs to one bearer the Verifier accepted, and where a    *)
(* request carries several it is the Authorization header's: a subprotocol is *)
(* accepted only if the bearer came with it, so the two ends never disagree   *)
(* on who is connected (wshub.go Serve, bearerFrom).                          *)
SocketHasOneOwner ==
  hub = "handling" =>
    /\ conn \in Good
    /\ IF echoed THEN header.scheme # "Bearer" /\ [name |-> "bearer", token |-> conn] \in ToSet(protocols)
       ELSE header = [scheme |-> "Bearer", token |-> conn]
=============================================================================
