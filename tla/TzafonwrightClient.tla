------------------------ MODULE TzafonwrightClient ------------------------
(***************************************************************************)
(* TzafonWrightClient (tzafonwright/client.py) and the server it talks to. *)
(* The coroutines that share one client object are its callers; an action  *)
(* is the code between two awaits.                                         *)
(***************************************************************************)
EXTENDS TzafonwrightServer

CONSTANTS
    Callers,        \* coroutines that share the client
    Cancellable     \* the awaits at which a caller may be cancelled

ASSUME CancellableAssumption == Cancellable \subseteq {"connecting", "sent", "receiving", "closing"}

VARIABLES
    connection,   \* self.connection
    call,         \* what each caller is doing and its last result
    sent,         \* history: the commands sent on each connection
    received      \* history: the results received from each connection

clientVars == <<connection, clientEnd, call, sent, received>>
vars == <<serverVars, clientVars>>

Idle == [at |-> "idle", conn |-> None, cmd |-> None, result |-> None]

Call == [at : {"idle", "connecting", "sent", "receiving", "closing"},
         conn : Connections \cup {None}, cmd : Commands \cup {None},
         result : Commands \cup {"error", None}]

ClientTypeOK ==
    /\ ServerTypeOK
    /\ connection \in Connections \cup {None}
    /\ call \in [Callers -> Call]
    /\ \A p \in Callers : call[p].at \in {"receiving", "closing"} => call[p].conn # None
    /\ sent \in [Connections -> Seq(Commands)]
    /\ received \in [Connections -> Seq(Commands)]

Init ==
    /\ ServerInit
    /\ connection = None
    /\ call = [p \in Callers |-> Idle]
    /\ sent = [c \in Connections |-> <<>>]
    /\ received = [c \in Connections |-> <<>>]

IsConnected == connection # None /\ clientEnd[connection] = "open"

Used == {call[p].cmd : p \in Callers} \cup UNION {ToSet(sent[c]) : c \in Connections}

----------------------------------------------------------------------------
(* connect.                                                                *)

\* Mutant: without the look at is_connected.
ConnectAgain(p) ==
    /\ call[p].at = "idle"
    /\ call' = [call EXCEPT ![p] = [Idle EXCEPT !.at = "connecting"]]
    /\ UNCHANGED <<serverVars, connection, clientEnd, sent, received>>

Connect(p) ==
    /\ call[p].at = "idle" /\ ~ IsConnected
    /\ call' = [call EXCEPT ![p] = [Idle EXCEPT !.at = "connecting"]]
    /\ UNCHANGED <<serverVars, connection, clientEnd, sent, received>>

\* Mutant: the connection is set up and no handler runs for it.
ConnectedUnserved(p) ==
    /\ call[p].at = "connecting" /\ phase = "serving"
    /\ \E c \in Connections :
          /\ clientEnd[c] = "unused"
          /\ clientEnd' = [clientEnd EXCEPT ![c] = "open"]
          /\ serverEnd' = [serverEnd EXCEPT ![c] = "open"]
          /\ connection' = c
    /\ call' = [call EXCEPT ![p] = Idle]
    /\ UNCHANGED <<life, handler, wire, sent, received>>

Connected(p) ==
    /\ call[p].at = "connecting" /\ phase = "serving"
    /\ \E c \in Connections :
          /\ clientEnd[c] = "unused"
          /\ clientEnd' = [clientEnd EXCEPT ![c] = "open"]
          /\ serverEnd' = [serverEnd EXCEPT ![c] = "open"]
          /\ handler' = [handler EXCEPT ![c] = "waiting"]
          /\ connection' = c
    /\ call' = [call EXCEPT ![p] = Idle]
    /\ UNCHANGED <<life, wire, sent, received>>

ConnectFails(p) ==
    /\ call[p].at = "connecting"
    /\ connection' = None
    /\ call' = [call EXCEPT ![p] = Idle]
    /\ UNCHANGED <<serverVars, clientEnd, sent, received>>

----------------------------------------------------------------------------
(* send_action.                                                            *)

NotConnected(p) ==
    /\ call[p].at = "idle" /\ ~ IsConnected
    /\ call' = [call EXCEPT ![p] = [Idle EXCEPT !.result = "error"]]
    /\ UNCHANGED <<serverVars, connection, clientEnd, sent, received>>

SendAction(p) ==
    /\ call[p].at = "idle" /\ IsConnected
    /\ \E cmd \in Commands \ Used :
          /\ call' = [call EXCEPT ![p] = [Idle EXCEPT !.at = "sent", !.cmd = cmd]]
          /\ sent' = [sent EXCEPT ![connection] = Append(@, cmd)]
          /\ toServer' = Delivered(toServer, serverEnd, connection, cmd)
    /\ UNCHANGED <<life, serverEnd, handler, toClient, connection, clientEnd, received>>

Returns(p, result) ==
    call' = [call EXCEPT ![p] = [Idle EXCEPT !.cmd = call[p].cmd, !.result = result]]

\* After the send, self.connection is read again.  Another caller may have
\* cleared or replaced it, or be receiving from it (ConcurrencyError).
Receive(p) ==
    /\ call[p].at = "sent"
    /\ IF connection = None
          \/ \E q \in Callers : call[q].at = "receiving" /\ call[q].conn = connection
       THEN Returns(p, "error")
       ELSE call' = [call EXCEPT ![p].at = "receiving", ![p].conn = connection]
    /\ UNCHANGED <<serverVars, connection, clientEnd, sent, received>>

\* The next message of the connection is the result.
Deliver(p) ==
    /\ call[p].at = "receiving"
    /\ LET c == call[p].conn IN
          /\ toClient[c] # <<>>
          /\ Returns(p, Head(toClient[c]))
          /\ toClient' = [toClient EXCEPT ![c] = Tail(@)]
          /\ received' = [received EXCEPT ![c] = Append(@, Head(toClient[c]))]
    /\ UNCHANGED <<life, serverEnd, handler, toServer, connection, clientEnd, sent>>

----------------------------------------------------------------------------
(* close: it takes self.connection, closes it if it is open, waits for at  *)
(* most five seconds, and clears self.connection whatever it holds then.   *)

StartClose(p, outcome) ==
    IF IsConnected
    THEN /\ clientEnd' = [clientEnd EXCEPT ![connection] = "closed"]
         /\ call' = [call EXCEPT ![p] = [outcome EXCEPT !.at = "closing", !.conn = connection]]
         /\ UNCHANGED connection
    ELSE /\ connection' = None
         /\ call' = [call EXCEPT ![p] = outcome]
         /\ UNCHANGED clientEnd

Close(p) ==
    /\ call[p].at = "idle" /\ connection # None
    /\ StartClose(p, Idle)
    /\ UNCHANGED <<serverVars, sent, received>>

\* The connection closed during send_action: its handler calls close().
ReceiveClosed(p) ==
    /\ call[p].at = "receiving"
    /\ toClient[call[p].conn] = <<>> /\ clientEnd[call[p].conn] = "closed"
    /\ StartClose(p, [Idle EXCEPT !.cmd = call[p].cmd, !.result = "error"])
    /\ UNCHANGED <<serverVars, sent, received>>

Closed(p) ==
    /\ call[p].at = "closing"
    /\ connection' = None
    /\ call' = [call EXCEPT ![p].at = "idle", ![p].conn = None]
    /\ UNCHANGED <<serverVars, clientEnd, sent, received>>

\* CancelledError is not an Exception: none of the handlers runs.
Cancel(p) ==
    /\ call[p].at \in Cancellable
    /\ call' = [call EXCEPT ![p] = Idle]
    /\ UNCHANGED <<serverVars, connection, clientEnd, sent, received>>

----------------------------------------------------------------------------
(* The client's end of the wire.                                           *)

ClientEndCloses(c) ==
    /\ clientEnd[c] = "open"
    /\ clientEnd' = [clientEnd EXCEPT ![c] = "closed"]
    /\ UNCHANGED <<serverVars, connection, call, sent, received>>

ResultLost(c) ==
    /\ clientEnd[c] = "closed" /\ toClient[c] # <<>>
    /\ toClient' = [toClient EXCEPT ![c] = Front(@)]
    /\ UNCHANGED <<life, serverEnd, handler, toServer, clientVars>>

CallStep(p) ==
    Connected(p) \/ ConnectFails(p) \/ Receive(p) \/ Deliver(p) \/ ReceiveClosed(p) \/ Closed(p)

Next ==
    \/ ServerNext /\ UNCHANGED clientVars
    \/ \E p \in Callers :
          \/ CallStep(p) \/ Cancel(p)
          \/ Connect(p) \/ SendAction(p) \/ NotConnected(p) \/ Close(p)
    \/ \E c \in Connections : ClientEndCloses(c) \/ ResultLost(c)

\* The event loop runs what can run, and the pings of either end find out
\* that the other end is closed.  Only the commands with a time limit are sure
\* to come back.
Fairness ==
    /\ WF_vars(LifeStep /\ UNCHANGED clientVars)
    /\ \A c \in Connections :
          /\ WF_vars(~ Hangs(c) /\ HandlerStep(c) /\ UNCHANGED clientVars)
          /\ WF_vars(serverEnd[c] = "closed" /\ ClientEndCloses(c))
    /\ \A p \in Callers : WF_vars(CallStep(p))

Spec == Init /\ [][Next]_vars /\ Fairness

----------------------------------------------------------------------------
(* Properties.                                                             *)

(* On every connection the results that were received or are under way     *)
(* belong to the commands sent on it, in that order and one for each,      *)
(* whatever the callers do and wherever the connection breaks              *)
(* (handle_connection, server.py:174-221).                                 *)
RepliesInOrder ==
    \A c \in Connections : IsPrefix(received[c] \o toClient[c], sent[c])

(* The result that send_action returns is the result of the command it was *)
(* given (client.py:51-52).                                                *)
ResultIsOfAction ==
    \A p \in Callers : call[p].result \in Commands => call[p].result = call[p].cmd

(* The client holds on to every connection that is open at its end: none   *)
(* is left open after close() or hidden by a later connect()               *)
(* (client.py:31-37 and 123-146).                                          *)
NoConnectionLeaked ==
    \A c \in Connections : clientEnd[c] = "open" => connection = c

(* A call returns, even if the connection breaks between the send and the  *)
(* receive (client.py:63-66): connect(), send_action() and close() do not  *)
(* wait for good, unless the connection that the call receives from is     *)
(* held by a command that never comes back.                                *)
CallsEnd ==
    \A p \in Callers :
        call[p].at # "idle" ~>
            (call[p].at = "idle" \/ \E c \in Connections : [](call[p].conn = c /\ Hangs(c)))
============================================================================
