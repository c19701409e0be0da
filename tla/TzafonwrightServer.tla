------------------------ MODULE TzafonwrightServer ------------------------
(***************************************************************************)
(* The Tzafonwright server of a browser container                          *)
(* (tzafonwright/server.py): one page, driven by the commands of every     *)
(* WebSocket connection, and the start and stop of the process around it.  *)
(*                                                                         *)
(* A connection is two queues and two ends.  The library behind it         *)
(* (websockets) delivers in order what was sent before an end closed;      *)
(* what had not arrived by then may be lost, the newest first.  Closing    *)
(* the server waits for the handlers of its connections.                   *)
(***************************************************************************)
EXTENDS SequencesExt

CONSTANTS
    Connections,   \* WebSocket connections, each opened at most once
    Commands,      \* commands, each sent at most once
    MayHang,       \* those of them that the page may leave unanswered for good
    None

\* A command is none of the other things a handler or a caller may hold.
ASSUME CommandsAssumption ==
    /\ Commands \cap {"none", "waiting", "done", "error"} = {}
    /\ None \notin Connections \cup Commands

\* The mouse and the keyboard have no time limit, and goto has the client's, which may
\* be none.
ASSUME MayHangAssumption == MayHang \subseteq Commands

VARIABLES
    phase,       \* where start() stands
    page,        \* self._page is set and its page is open
    stopEvent,   \* self._stop_event
    serverEnd,   \* the server's end of each connection
    clientEnd,   \* the other end, which is the client's to change
    handler,     \* handle_connection: at its loop, on a command, or returned
    toServer,    \* commands under way or buffered
    toClient     \* results under way or buffered, by their commands

wire == <<toServer, toClient>>
life == <<phase, page, stopEvent>>
serverVars == <<life, serverEnd, handler, wire>>

Ends == {"unused", "open", "closed"}

\* What is sent to an end that has closed is lost.
Delivered(queues, ends, c, message) ==
    IF ends[c] = "open" THEN [queues EXCEPT ![c] = Append(@, message)] ELSE queues

ServerTypeOK ==
    /\ phase \in {"initialising", "binding", "serving", "closing", "stopping", "stopped"}
    /\ {page, stopEvent} \subseteq BOOLEAN
    /\ {serverEnd, clientEnd} \subseteq [Connections -> Ends]
    /\ handler \in [Connections -> Commands \cup {"none", "waiting", "done"}]
    /\ \A c \in Connections :
          (serverEnd[c] = "unused" <=> clientEnd[c] = "unused") /\
          (serverEnd[c] = "unused" <=> handler[c] = "none")
    /\ toServer \in [Connections -> Seq(Commands)]
    /\ toClient \in [Connections -> Seq(Commands)]

ServerInit ==
    /\ phase = "initialising"
    /\ page = FALSE /\ stopEvent = FALSE
    /\ serverEnd = [c \in Connections |-> "unused"] /\ clientEnd = serverEnd
    /\ handler = [c \in Connections |-> "none"]
    /\ toServer = [c \in Connections |-> <<>>]
    /\ toClient = [c \in Connections |-> <<>>]

----------------------------------------------------------------------------
(* The life of the server.                                                 *)

InitializePlaywright ==
    /\ phase = "initialising"
    /\ phase' = "binding" /\ page' = TRUE
    /\ UNCHANGED <<stopEvent, serverEnd, handler, wire>>

\* stop() runs here, in start() and in main_async: the second and third
\* time it finds nothing to do.
InitializationFails ==
    /\ phase = "initialising"
    /\ phase' = "stopped"
    /\ UNCHANGED <<page, stopEvent, serverEnd, handler, wire>>

Serve ==
    /\ phase = "binding"
    /\ phase' \in {"serving", "stopping"}
    /\ UNCHANGED <<page, stopEvent, serverEnd, handler, wire>>

\* SIGINT or SIGTERM, at any time: main_async triggers the stop.
TriggerStop ==
    /\ phase # "stopped" /\ ~ stopEvent
    /\ stopEvent' = TRUE
    /\ UNCHANGED <<phase, page, serverEnd, handler, wire>>

\* Mutant: the open connections are left open.
CloseServerOnly ==
    /\ phase = "serving" /\ stopEvent
    /\ phase' = "closing"
    /\ UNCHANGED <<page, stopEvent, serverEnd, handler, wire>>

CloseServer ==
    /\ phase = "serving" /\ stopEvent
    /\ phase' = "closing"
    /\ serverEnd' = [c \in Connections |->
                        IF serverEnd[c] = "open" THEN "closed" ELSE serverEnd[c]]
    /\ UNCHANGED <<page, stopEvent, handler, wire>>

\* Mutant: without waiting for the handlers.
WaitForNobody ==
    /\ phase = "closing"
    /\ phase' = "stopping"
    /\ UNCHANGED <<page, stopEvent, serverEnd, handler, wire>>

WaitClosed ==
    /\ phase = "closing"
    /\ \A c \in Connections : handler[c] \in {"none", "done"}
    /\ phase' = "stopping"
    /\ UNCHANGED <<page, stopEvent, serverEnd, handler, wire>>

Stop ==
    /\ phase = "stopping"
    /\ phase' = "stopped" /\ page' = FALSE
    /\ UNCHANGED <<stopEvent, serverEnd, handler, wire>>

----------------------------------------------------------------------------
(* handle_connection.                                                      *)

TakeCommand(c) ==
    /\ handler[c] = "waiting" /\ toServer[c] # <<>>
    /\ handler' = [handler EXCEPT ![c] = Head(toServer[c])]
    /\ toServer' = [toServer EXCEPT ![c] = Tail(@)]
    /\ UNCHANGED <<life, serverEnd, toClient>>

\* Mutant: the result is sent where it is made and again at the end.
ReplyTwice(c) ==
    /\ handler[c] \in Commands
    /\ toClient' = Delivered(Delivered(toClient, clientEnd, c, handler[c]), clientEnd, c, handler[c])
    /\ handler' = [handler EXCEPT ![c] = "waiting"]
    /\ UNCHANGED <<life, serverEnd, toServer>>

\* Mutant: a command that fails is not answered.
ReplyToSuccess(c) ==
    /\ handler[c] \in Commands
    /\ toClient' \in {toClient, Delivered(toClient, clientEnd, c, handler[c])}
    /\ handler' = [handler EXCEPT ![c] = "waiting"]
    /\ UNCHANGED <<life, serverEnd, toServer>>

\* If _process_command comes back it is with a result, whatever happened to
\* the page, and the result is sent.  When that fails the handler leaves its
\* loop.
Reply(c) ==
    /\ handler[c] \in Commands
    /\ \/ /\ serverEnd[c] = "open"
          /\ toClient' = Delivered(toClient, clientEnd, c, handler[c])
          /\ handler' = [handler EXCEPT ![c] = "waiting"]
       \/ /\ serverEnd[c] = "closed"
          /\ handler' = [handler EXCEPT ![c] = "done"]
          /\ UNCHANGED toClient
    /\ UNCHANGED <<life, serverEnd, toServer>>

\* What was buffered before the end closed is read first.
EndOfMessages(c) ==
    /\ handler[c] = "waiting" /\ serverEnd[c] = "closed" /\ toServer[c] = <<>>
    /\ handler' = [handler EXCEPT ![c] = "done"]
    /\ UNCHANGED <<life, serverEnd, wire>>

\* The client closed, the network broke or a ping was not answered.
ServerEndCloses(c) ==
    /\ serverEnd[c] = "open"
    /\ serverEnd' = [serverEnd EXCEPT ![c] = "closed"]
    /\ UNCHANGED <<life, handler, wire>>

CommandLost(c) ==
    /\ serverEnd[c] = "closed" /\ toServer[c] # <<>>
    /\ toServer' = [toServer EXCEPT ![c] = Front(@)]
    /\ UNCHANGED <<life, serverEnd, handler, toClient>>

HandlerStep(c) == TakeCommand(c) \/ Reply(c) \/ EndOfMessages(c)

\* The page has not come back to the handler.
Hangs(c) == handler[c] \in MayHang

LifeStep ==
    InitializePlaywright \/ InitializationFails \/ Serve \/ CloseServer \/ WaitClosed \/ Stop

ServerNext ==
    \/ LifeStep \/ TriggerStop
    \/ \E c \in Connections : HandlerStep(c) \/ ServerEndCloses(c) \/ CommandLost(c)

----------------------------------------------------------------------------
(* The page outlives the commands: no command of any connection is being   *)
(* processed while the page is not open, in the start or the stop of the   *)
(* server, although stop() takes no notice of the handlers                 *)
(* (server.py:258-264 and 271-303).                                        *)
PageOutlivesCommands ==
    \A c \in Connections : handler[c] \in Commands => page

(* A server that was told to stop ends, unless a command without a time    *)
(* limit never comes back: nothing else that a connection does or its      *)
(* client leaves undone can hold up wait_closed() (server.py:258-264,      *)
(* main_async, server.py:344-347).                                         *)
ServerStops == stopEvent ~> (phase = "stopped" \/ \E c \in Connections : []Hangs(c))
============================================================================
