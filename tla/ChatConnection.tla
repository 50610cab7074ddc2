--------------------------- MODULE ChatConnection ---------------------------
(***************************************************************************)
(* websocket_custom.js: the connection of the chat page, what its status   *)
(* line says, and which frames go over which WebSocket.  The handlers of a *)
(* socket never use that socket but this.ws, which a second click on       *)
(* Connect replaces and the close of any socket sets to null.              *)
(***************************************************************************)
EXTENDS PageParameters

VARIABLES
  sockets,  \* sockets[s]: the state of the s-th socket, "none" before it is made
  ws,       \* this.ws, 0 for null
  linked,   \* is "Connected" displayed? It disables Connect, or everything else
  frames,   \* frames[s]: the kinds of frames that went over socket s
  typed,    \* is there a text in the chat input?
  hurried   \* history: was Connect clicked while a socket was not closed yet?

connection == <<sockets, ws, linked, frames, typed, hurried>>

Sockets == 1..MaxSockets
FrameKinds == {"CONNECT", "SUBSCRIBE", "SEND", "DISCONNECT"}
Live(s) == sockets[s] \in {"connecting", "open"}

ChatTypeOK ==
  /\ sockets \in [Sockets -> {"none", "connecting", "open", "closed"}]
  /\ ws \in 0..MaxSockets
  /\ frames \in [Sockets -> SUBSET FrameKinds]
  /\ {linked, typed, hurried} \subseteq BOOLEAN

ChatInit ==
  /\ sockets = [s \in Sockets |-> "none"]
  /\ ws = 0
  /\ linked = FALSE
  /\ frames = [s \in Sockets |-> {}]
  /\ typed = FALSE
  /\ hurried = FALSE

----------------------------------------------------------------------------

\* this.ws.send(kinds), with the sockets in the states `now`: null or a socket
\* that is connecting throws, one that is closed discards the frames.
Sent(kinds, now) ==
  IF ws # 0 /\ now[ws] = "open" THEN [frames EXCEPT ![ws] = @ \cup kinds] ELSE frames

\* apiConnect, with a one time token from getOTT; without one it only tells the
\* user.  getOTT blocks the page, no event comes in between.
Connect(s) ==
  /\ ~linked
  /\ sockets[s] = "none" /\ \A r \in 1..(s - 1) : sockets[r] # "none"
  /\ sockets' = [sockets EXCEPT ![s] = "connecting"]
  /\ ws' = s
  /\ hurried' = (hurried \/ \E r \in Sockets : Live(r))
  /\ UNCHANGED <<linked, frames, typed>>

\* ws.onopen of socket s
Opened(s) ==
  /\ sockets[s] = "connecting"
  /\ sockets' = [sockets EXCEPT ![s] = "open"]
  /\ linked' = TRUE
  /\ frames' = Sent({"CONNECT", "SUBSCRIBE"}, sockets')
  /\ UNCHANGED <<ws, typed, hurried>>

\* Mutant: only a close that was asked for changes the status line.
StatusAfterQuiet(s) == linked /\ "DISCONNECT" \notin frames[s]

\* onConnectionStatusChanged(false)
StatusAfter(s) == FALSE

\* ws.onclose of socket s: refused, lost, or closed by the server.
Closed(s) ==
  /\ Live(s)
  /\ sockets' = [sockets EXCEPT ![s] = "closed"]
  /\ linked' = StatusAfter(s)
  /\ ws' = 0
  /\ UNCHANGED <<frames, typed, hurried>>

\* apiDisconnect: the server is asked to close the connection.
Disconnect ==
  /\ linked /\ ws # 0
  /\ frames' = Sent({"DISCONNECT"}, sockets)
  /\ UNCHANGED <<sockets, ws, linked, typed, hurried>>

\* The chat input is enabled while the page is connected.
Type ==
  /\ linked
  /\ typed' = TRUE
  /\ UNCHANGED <<sockets, ws, linked, frames, hurried>>

\* apiSendMessage, by Send or Enter; it returns at once unless this.ws is open.
SendMessage ==
  /\ linked /\ typed
  /\ ws # 0 /\ sockets[ws] = "open"
  /\ frames' = Sent({"SEND"}, sockets)
  /\ typed' = FALSE
  /\ UNCHANGED <<sockets, ws, linked, hurried>>

ChatNext ==
  \/ \E s \in Sockets : Connect(s)
  \/ \E s \in Sockets : Opened(s)
  \/ \E s \in Sockets : Closed(s)
  \/ Disconnect
  \/ Type
  \/ SendMessage

ChatSpec == ChatInit /\ [][ChatNext]_connection

\* The server closes a connection that asks for it.
ChatFairness == \A s \in Sockets :
  WF_connection("DISCONNECT" \in frames[s] /\ Closed(s))

----------------------------------------------------------------------------

IsOpen(s) == s # 0 /\ sockets[s] = "open"

\* "Connected" is never displayed without an open connection, and what the user
\* says goes to a room: this.ws has been announced and subscribed as soon as it
\* is open.  Unless the user clicked Connect during a connection attempt, the
\* status line is exact: it says "Connected" if and only if this.ws is open, and
\* no other connection is left behind.
StatusIsTrue ==
  /\ linked => \E s \in Sockets : IsOpen(s)
  /\ IsOpen(ws) => {"CONNECT", "SUBSCRIBE"} \subseteq frames[ws]
  /\ (\A s \in Sockets : ~Live(s)) => ws = 0
  /\ ~hurried => /\ linked <=> IsOpen(ws)
                 /\ \A s \in Sockets : Live(s) => s = ws

\* A click on Disconnect ends with the page disconnected, and with Connect
\* enabled again.
DisconnectObeyed ==
  (~hurried /\ ws # 0 /\ "DISCONNECT" \in frames[ws]) ~> ~linked
=============================================================================
