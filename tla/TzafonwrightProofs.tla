------------------------- MODULE TzafonwrightProofs -------------------------
(***************************************************************************)
(* Proofs about the Tzafonwright server and its clients, for any number of *)
(* connections and callers, with cancellation: commands meet an open page, *)
(* and what comes back on a connection answers what was sent on it.        *)
(***************************************************************************)
EXTENDS TzafonwrightClient, SequenceLemmas

----------------------------------------------------------------------------
(* Sequences.                                                              *)

Associate(s, t, u) == (s \o t) \o u = s \o (t \o u)

LEMMA Associative == \A s, t, u \in Seq(Commands) : Associate(s, t, u)
BY ConcatAssociative DEF Associate

LEMMA Concatenation ==
    /\ \A s, t \in Seq(Commands) : s \o t \in Seq(Commands)
    /\ \A s \in Seq(Commands) : s \o <<>> = s /\ <<>> \o s = s
    /\ <<>> \in Seq(Commands) /\ \A cmd \in Commands : <<cmd>> \in Seq(Commands)
BY ConcatProperties, ConcatEmptySeq, EmptySeq

----------------------------------------------------------------------------
(* Types.                                                                  *)

LEMMA DeliveredType ==
    ASSUME NEW q \in [Connections -> Seq(Commands)], NEW ends, NEW c \in Connections,
           NEW cmd \in Commands
    PROVE  Delivered(q, ends, c, cmd) \in [Connections -> Seq(Commands)]
BY AppendProperties DEF Delivered

LEMMA TypesInit == Init => ClientTypeOK
<1> SUFFICES ASSUME Init PROVE ClientTypeOK
  OBVIOUS
<1>1. ServerTypeOK
  BY EmptySeq DEF Init, ServerInit, ServerTypeOK, Ends
<1>2. Idle \in Call /\ Idle.at = "idle"
  BY DEF Idle, Call
<1>3. QED
  BY <1>1, <1>2, EmptySeq DEF Init, ClientTypeOK

LEMMA TypesServer ==
    ASSUME ClientTypeOK, ServerNext, UNCHANGED clientVars
    PROVE  ClientTypeOK'
<1> USE DEF ClientTypeOK, ServerTypeOK, Ends, clientVars
<1>1. CASE LifeStep \/ TriggerStop
  <2>1. CASE CloseServer
    BY <2>1 DEF CloseServer, wire
  <2>2. CASE InitializePlaywright \/ InitializationFails \/ Serve \/ WaitClosed \/ Stop
    BY <2>2 DEF InitializePlaywright, InitializationFails, Serve, WaitClosed, Stop, wire
  <2>3. CASE TriggerStop
    BY <2>3 DEF TriggerStop, wire
  <2>4. QED
    BY <1>1, <2>1, <2>2, <2>3 DEF LifeStep
<1>2. ASSUME NEW c \in Connections, TakeCommand(c) PROVE ClientTypeOK'
  <2>1. Head(toServer[c]) \in Commands /\ Tail(toServer[c]) \in Seq(Commands)
    BY <1>2, HeadAndTail DEF TakeCommand
  <2>2. QED
    BY <1>2, <2>1, CommandsAssumption DEF TakeCommand, life
<1>3. ASSUME NEW c \in Connections, Reply(c) PROVE ClientTypeOK'
  <2>1. Delivered(toClient, clientEnd, c, handler[c]) \in [Connections -> Seq(Commands)]
    BY <1>3, DeliveredType DEF Reply
  <2>2. QED
    BY <1>3, <2>1, CommandsAssumption DEF Reply, life
<1>4. ASSUME NEW c \in Connections, EndOfMessages(c) PROVE ClientTypeOK'
  BY <1>4 DEF EndOfMessages, life, wire
<1>5. ASSUME NEW c \in Connections, ServerEndCloses(c) PROVE ClientTypeOK'
  BY <1>5 DEF ServerEndCloses, life, wire
<1>6. ASSUME NEW c \in Connections, CommandLost(c) PROVE ClientTypeOK'
  <2>1. Front(toServer[c]) \in Seq(Commands)
    BY <1>6, FrontAndLast DEF CommandLost
  <2>2. QED
    BY <1>6, <2>1 DEF CommandLost, life
<1>7. QED
  BY <1>1, <1>2, <1>3, <1>4, <1>5, <1>6 DEF ServerNext, HandlerStep

\* A caller's record is replaced by another one.
LEMMA CallChanges ==
    ASSUME ClientTypeOK, NEW p \in Callers, NEW new \in Call,
           new.at \in {"receiving", "closing"} => new.conn # None,
           call' = [call EXCEPT ![p] = new]
    PROVE  /\ call' \in [Callers -> Call]
           /\ \A q \in Callers : call'[q].at \in {"receiving", "closing"} => call'[q].conn # None
BY DEF ClientTypeOK

LEMMA TypesClient ==
    ASSUME ClientTypeOK, NEW p \in Callers,
           \/ CallStep(p) \/ Cancel(p)
           \/ Connect(p) \/ SendAction(p) \/ NotConnected(p) \/ Close(p)
    PROVE  ClientTypeOK'
<1> DEFINE Kept == /\ call' \in [Callers -> Call]
                     /\ \A q \in Callers :
                           call'[q].at \in {"receiving", "closing"} => call'[q].conn # None
<1>1. call[p] \in Call
  BY DEF ClientTypeOK
<1>2. /\ Idle \in Call /\ Idle.at = "idle"
      /\ [Idle EXCEPT !.at = "connecting"] \in Call
      /\ [Idle EXCEPT !.result = "error"] \in Call
      /\ [Idle EXCEPT !.cmd = call[p].cmd, !.result = "error"] \in Call
  BY <1>1 DEF Idle, Call
<1>3. CASE Connect(p) \/ NotConnected(p) \/ Cancel(p) \/ ConnectFails(p)
  <2>1. /\ [Idle EXCEPT !.at = "connecting"].at = "connecting"
        /\ [Idle EXCEPT !.result = "error"].at = "idle"
    BY DEF Idle
  <2>2. PICK new \in Call : call' = [call EXCEPT ![p] = new] /\ new.at \in {"idle", "connecting"}
    BY <1>2, <1>3, <2>1 DEF Connect, NotConnected, Cancel, ConnectFails
  <2>3. Kept
    BY <2>2, CallChanges
  <2>4. QED
    BY <1>3, <2>3 DEF Connect, NotConnected, Cancel, ConnectFails, ClientTypeOK, ServerTypeOK,
                      serverVars, life, wire
<1>4. CASE Connected(p)
  <2>1. Kept
    BY <1>2, <1>4, CallChanges DEF Connected
  <2>2. QED
    BY <1>4, <2>1, CommandsAssumption DEF Connected, ClientTypeOK, ServerTypeOK, life, wire, Ends
<1>5. CASE SendAction(p)
  <2>1. connection \in Connections
    BY <1>5 DEF SendAction, IsConnected, ClientTypeOK
  <2>2. PICK cmd \in Commands :
            /\ call' = [call EXCEPT ![p] = [Idle EXCEPT !.at = "sent", !.cmd = cmd]]
            /\ sent' = [sent EXCEPT ![connection] = Append(@, cmd)]
            /\ toServer' = Delivered(toServer, serverEnd, connection, cmd)
    BY <1>5 DEF SendAction
  <2>3. /\ Append(sent[connection], cmd) \in Seq(Commands)
        /\ toServer' \in [Connections -> Seq(Commands)]
    BY <2>1, <2>2, AppendProperties, DeliveredType DEF ClientTypeOK, ServerTypeOK
  <2>4. [Idle EXCEPT !.at = "sent", !.cmd = cmd] \in Call
    BY DEF Idle, Call
  <2>5. Kept
    BY <2>2, <2>4, CallChanges DEF Idle
  <2>6. QED
    BY <1>5, <2>1, <2>2, <2>3, <2>5 DEF SendAction, ClientTypeOK, ServerTypeOK, life
<1>6. CASE Receive(p)
  <2> DEFINE failed == [Idle EXCEPT !.cmd = call[p].cmd, !.result = "error"]
             waits == [call[p] EXCEPT !.at = "receiving", !.conn = connection]
  <2>1. \/ call' = [call EXCEPT ![p] = failed]
        \/ connection # None /\ call' = [call EXCEPT ![p] = waits]
    BY <1>6 DEF Receive, Returns
  <2>2. failed \in Call /\ failed.at = "idle"
    BY <1>1 DEF Idle, Call
  <2>3. waits \in Call /\ waits.conn = connection
    BY <1>1 DEF Call, ClientTypeOK
  <2>4. Kept
    BY <2>1, <2>2, <2>3, CallChanges
  <2>5. QED
    BY <1>6, <2>4 DEF Receive, ClientTypeOK, ServerTypeOK, serverVars, life, wire
<1>7. CASE Deliver(p)
  <2> DEFINE c == call[p].conn
             new == [Idle EXCEPT !.cmd = call[p].cmd, !.result = Head(toClient[c])]
  <2>1. c \in Connections /\ toClient[c] \in Seq(Commands) /\ toClient[c] # <<>>
    BY <1>1, <1>7 DEF Deliver, ClientTypeOK, ServerTypeOK, Call
  <2>2. Head(toClient[c]) \in Commands /\ Tail(toClient[c]) \in Seq(Commands)
    BY <2>1, HeadAndTail
  <2>3. Append(received[c], Head(toClient[c])) \in Seq(Commands)
    BY <2>1, <2>2, AppendProperties DEF ClientTypeOK
  <2>4. new \in Call /\ new.at = "idle"
    BY <1>1, <2>2 DEF Idle, Call
  <2>5. Kept
    BY <1>7, <2>4, CallChanges DEF Deliver, Returns
  <2>6. QED
    BY <1>7, <2>1, <2>2, <2>3, <2>5 DEF Deliver, ClientTypeOK, ServerTypeOK, life
<1>8. ASSUME NEW outcome \in Call, outcome.at = "idle", StartClose(p, outcome)
      PROVE  /\ Kept
             /\ connection' \in Connections \cup {None}
             /\ clientEnd' \in [Connections -> Ends]
             /\ \A c \in Connections : clientEnd'[c] = "unused" <=> clientEnd[c] = "unused"
  <2> DEFINE new == [outcome EXCEPT !.at = "closing", !.conn = connection]
  <2>1. CASE IsConnected
    <3>1. /\ clientEnd' = [clientEnd EXCEPT ![connection] = "closed"]
          /\ call' = [call EXCEPT ![p] = new] /\ connection' = connection
          /\ connection \in Connections /\ clientEnd[connection] = "open" /\ connection # None
      BY <1>8, <2>1 DEF StartClose, IsConnected, ClientTypeOK
    <3>2. new \in Call /\ new.conn = connection
      BY <3>1 DEF Call
    <3>3. Kept
      BY <3>1, <3>2, CallChanges
    <3>4. QED
      BY <3>1, <3>3 DEF ClientTypeOK, ServerTypeOK, Ends
  <2>2. CASE ~ IsConnected
    <3>1. Kept
      BY <1>8, <2>2, CallChanges DEF StartClose
    <3>2. QED
      BY <1>8, <2>2, <3>1 DEF StartClose, ClientTypeOK, ServerTypeOK
  <2>3. QED
    BY <2>1, <2>2
<1>9. CASE Close(p) \/ ReceiveClosed(p)
  <2> DEFINE failed == [Idle EXCEPT !.cmd = call[p].cmd, !.result = "error"]
  <2>1. failed \in Call /\ failed.at = "idle"
    BY <1>1 DEF Idle, Call
  <2>2. PICK outcome \in Call : outcome.at = "idle" /\ StartClose(p, outcome)
    BY <1>2, <1>9, <2>1 DEF Close, ReceiveClosed
  <2>3. UNCHANGED <<serverVars, sent, received>>
    BY <1>9 DEF Close, ReceiveClosed
  <2>4. QED
    BY <1>8, <2>2, <2>3 DEF ClientTypeOK, ServerTypeOK, serverVars, life, wire
<1>10. CASE Closed(p)
  <2> DEFINE new == [call[p] EXCEPT !.at = "idle", !.conn = None]
  <2>1. new \in Call /\ new.at = "idle"
    BY <1>1 DEF Call
  <2>2. call' = [call EXCEPT ![p] = new]
    BY <1>10 DEF Closed
  <2>3. Kept
    BY <2>1, <2>2, CallChanges
  <2>4. QED
    BY <1>10, <2>3 DEF Closed, ClientTypeOK, ServerTypeOK, serverVars, life, wire
<1>11. QED
  BY <1>3, <1>4, <1>5, <1>6, <1>7, <1>9, <1>10 DEF CallStep

LEMMA TypesStep == ClientTypeOK /\ [Next]_vars => ClientTypeOK'
<1> SUFFICES ASSUME ClientTypeOK, [Next]_vars PROVE ClientTypeOK'
  OBVIOUS
<1>1. ASSUME NEW c \in Connections, ClientEndCloses(c) PROVE ClientTypeOK'
  BY <1>1 DEF ClientEndCloses, ClientTypeOK, ServerTypeOK, serverVars, life, wire, Ends
<1>2. ASSUME NEW c \in Connections, ResultLost(c) PROVE ClientTypeOK'
  <2>1. Front(toClient[c]) \in Seq(Commands)
    BY <1>2, FrontAndLast DEF ResultLost, ClientTypeOK, ServerTypeOK
  <2>2. QED
    BY <1>2, <2>1 DEF ResultLost, ClientTypeOK, ServerTypeOK, life, clientVars
<1>3. CASE UNCHANGED vars
  BY <1>3 DEF vars, serverVars, clientVars, life, wire, ClientTypeOK, ServerTypeOK
<1>4. QED
  BY <1>1, <1>2, <1>3, TypesServer, TypesClient DEF Next

\* The server and its clients keep every variable within its type.
THEOREM TzTypeCorrect == Spec => []ClientTypeOK
BY TypesInit, TypesStep, PTL DEF Spec

----------------------------------------------------------------------------
(* The page.                                                               *)

\* The page is there from the start to the stop, and a handler is at work only
\* while the server accepts connections or waits for those it has closed.
PageInv ==
    /\ page \in BOOLEAN /\ (page <=> phase \in {"binding", "serving", "closing", "stopping"})
    /\ \A c \in Connections : handler[c] \notin {"none", "done"}
                                  => phase \in {"serving", "closing"}

LEMMA PageInvStep == ClientTypeOK /\ PageInv /\ [Next]_vars => PageInv'
<1> SUFFICES ASSUME ClientTypeOK, PageInv, [Next]_vars PROVE PageInv'
  OBVIOUS
<1> USE DEF PageInv
<1>1. ASSUME UNCHANGED <<life, handler>> PROVE PageInv'
  BY <1>1 DEF life
<1>2. CASE LifeStep
  <2>1. CASE InitializePlaywright
    BY <2>1 DEF InitializePlaywright
  <2>2. CASE InitializationFails
    BY <2>2 DEF InitializationFails
  <2>3. CASE Serve
    BY <2>3 DEF Serve
  <2>4. CASE CloseServer
    BY <2>4 DEF CloseServer
  <2>5. CASE WaitClosed
    BY <2>5 DEF WaitClosed
  <2>6. CASE Stop
    BY <2>6 DEF Stop
  <2>7. QED
    BY <1>2, <2>1, <2>2, <2>3, <2>4, <2>5, <2>6 DEF LifeStep
<1>3. CASE TriggerStop
  BY <1>3 DEF TriggerStop
<1>4. ASSUME NEW c \in Connections, HandlerStep(c) PROVE PageInv'
  <2>1. handler[c] \notin {"none", "done"} /\ UNCHANGED life
    BY <1>4, CommandsAssumption DEF HandlerStep, TakeCommand, Reply, EndOfMessages
  <2>2. \A d \in Connections \ {c} : handler'[d] = handler[d]
    BY <1>4 DEF HandlerStep, TakeCommand, Reply, EndOfMessages, ClientTypeOK, ServerTypeOK
  <2>3. QED
    BY <2>1, <2>2 DEF life
<1>5. ASSUME NEW c \in Connections,
             ServerEndCloses(c) \/ CommandLost(c) \/ ClientEndCloses(c) \/ ResultLost(c)
      PROVE  PageInv'
  <2>1. CASE ServerEndCloses(c) \/ CommandLost(c)
    BY <1>1, <2>1 DEF ServerEndCloses, CommandLost
  <2>2. CASE ClientEndCloses(c)
    BY <1>1, <2>2 DEF ClientEndCloses, serverVars
  <2>3. CASE ResultLost(c)
    BY <1>1, <2>3 DEF ResultLost
  <2>4. QED
    BY <1>5, <2>1, <2>2, <2>3
<1>6. ASSUME NEW p \in Callers, Connected(p) PROVE PageInv'
  <2>1. PICK c \in Connections : handler' = [handler EXCEPT ![c] = "waiting"]
    BY <1>6, Zenon DEF Connected
  <2>2. \A d \in Connections \ {c} : handler'[d] = handler[d]
    BY <2>1 DEF ClientTypeOK, ServerTypeOK
  <2>3. phase = "serving" /\ UNCHANGED life
    BY <1>6 DEF Connected
  <2>4. QED
    BY <2>2, <2>3 DEF life
<1>7. ASSUME NEW p \in Callers,
             \/ ConnectFails(p) \/ Receive(p) \/ Deliver(p) \/ ReceiveClosed(p) \/ Closed(p)
             \/ Cancel(p) \/ Connect(p) \/ SendAction(p) \/ NotConnected(p) \/ Close(p)
      PROVE  PageInv'
  BY <1>1, <1>7, Zenon DEF ConnectFails, Receive, Deliver, ReceiveClosed, Closed, Cancel, Connect,
                    SendAction, NotConnected, Close, serverVars
<1>8. CASE UNCHANGED vars
  BY <1>1, <1>8 DEF vars, serverVars
<1>9. QED
  BY <1>2, <1>3, <1>4, <1>5, <1>6, <1>7, <1>8 DEF Next, ServerNext, CallStep

\* A command always meets an open page.
THEOREM PageAlwaysOutlives == Spec => []PageOutlivesCommands
<1>1. Init => PageInv
  BY DEF Init, ServerInit, PageInv
<1>2. ClientTypeOK /\ PageInv => PageOutlivesCommands
  BY CommandsAssumption DEF PageInv, PageOutlivesCommands
<1>3. QED
  BY <1>1, <1>2, PageInvStep, TzTypeCorrect, PTL DEF Spec

----------------------------------------------------------------------------
(* The order of the results.                                               *)

\* The results a connection has brought or is bringing, and the commands that are
\* still to be answered, the one in work first.
Answered(c) == received[c] \o toClient[c]
Due(c) == (IF handler[c] \in Commands THEN <<handler[c]>> ELSE <<>>) \o toServer[c]

\* Results answer a prefix of what was sent.  As long as the client listens and the
\* handler works, what is due comes next; as long as both ends are open, there is
\* nothing else.  A connection that is not set up has carried nothing.
LineOK(c) ==
    /\ clientEnd[c] = "unused" =>
          sent[c] = <<>> /\ received[c] = <<>> /\ toClient[c] = <<>> /\ toServer[c] = <<>>
    /\ handler[c] = "done" => serverEnd[c] = "closed"
    /\ \E lost \in Seq(Commands) : sent[c] = Answered(c) \o lost
    /\ clientEnd[c] = "open" /\ handler[c] # "done" =>
          \E lost \in Seq(Commands) : sent[c] = (Answered(c) \o Due(c)) \o lost
    /\ clientEnd[c] = "open" /\ serverEnd[c] = "open" => sent[c] = Answered(c) \o Due(c)

OrderInv == \A c \in Connections : LineOK(c)

LEMMA LineTypes ==
    ASSUME ClientTypeOK, NEW c \in Connections
    PROVE  /\ received[c] \in Seq(Commands) /\ toClient[c] \in Seq(Commands)
           /\ toServer[c] \in Seq(Commands) /\ sent[c] \in Seq(Commands)
           /\ Answered(c) \in Seq(Commands) /\ Due(c) \in Seq(Commands)
<1>1. /\ received[c] \in Seq(Commands) /\ toClient[c] \in Seq(Commands)
      /\ toServer[c] \in Seq(Commands) /\ sent[c] \in Seq(Commands)
  BY DEF ClientTypeOK, ServerTypeOK
<1>2. Answered(c) \in Seq(Commands)
  BY <1>1, Concatenation DEF Answered
<1>3. (IF handler[c] \in Commands THEN <<handler[c]>> ELSE <<>>) \in Seq(Commands)
  BY EmptySeq
<1>4. QED
  BY <1>1, <1>2, <1>3, Concatenation DEF Due

\* The state of one connection is all that LineOK speaks of.
LEMMA LineUntouched ==
    ASSUME NEW c \in Connections, LineOK(c),
           clientEnd'[c] = clientEnd[c], serverEnd'[c] = serverEnd[c],
           handler'[c] = handler[c], toServer'[c] = toServer[c], toClient'[c] = toClient[c],
           sent'[c] = sent[c], received'[c] = received[c]
    PROVE  LineOK(c)'
BY DEF LineOK, Answered, Due

LEMMA TakeKeepsLine ==
    ASSUME ClientTypeOK, NEW c \in Connections, LineOK(c), TakeCommand(c),
           UNCHANGED clientVars
    PROVE  LineOK(c)'
<1>1. /\ handler[c] = "waiting" /\ toServer[c] # <<>>
      /\ handler'[c] = Head(toServer[c]) /\ toServer'[c] = Tail(toServer[c])
      /\ UNCHANGED <<serverEnd, clientEnd, toClient, sent, received>>
  BY DEF TakeCommand, ClientTypeOK, ServerTypeOK, clientVars
<1>2. /\ Head(toServer[c]) \in Commands
      /\ toServer[c] = <<Head(toServer[c])>> \o Tail(toServer[c])
  BY <1>1, LineTypes, HeadAndTail
<1>3. handler'[c] \in Commands /\ handler'[c] # "done" /\ handler[c] \notin Commands
  BY <1>1, <1>2, CommandsAssumption
<1>4. Due(c)' = toServer[c] /\ Due(c) = <<>> \o toServer[c]
  BY <1>1, <1>2, <1>3 DEF Due
<1>5. Due(c)' = Due(c) /\ Answered(c)' = Answered(c)
  BY <1>1, <1>4, LineTypes, Concatenation DEF Answered
<1>6. clientEnd[c] # "unused"
  BY <1>1 DEF LineOK
<1>7. QED
  BY <1>1, <1>3, <1>5, <1>6 DEF LineOK

LEMMA ReplyKeepsLine ==
    ASSUME ClientTypeOK, NEW c \in Connections, LineOK(c), Reply(c), UNCHANGED clientVars
    PROVE  LineOK(c)'
<1>0. /\ received[c] \in Seq(Commands) /\ toClient[c] \in Seq(Commands)
      /\ toServer[c] \in Seq(Commands) /\ sent[c] \in Seq(Commands)
      /\ Answered(c) \in Seq(Commands) /\ Due(c) \in Seq(Commands)
  BY LineTypes
<1> DEFINE cmd == handler[c]
<1>1. /\ cmd \in Commands /\ cmd # "done" /\ cmd # "none"
      /\ UNCHANGED <<serverEnd, clientEnd, toServer, sent, received>>
  BY CommandsAssumption DEF Reply, clientVars
<1>2. clientEnd[c] # "unused"
  BY <1>1 DEF ClientTypeOK, ServerTypeOK
<1>3. CASE serverEnd[c] = "closed"
  <2>1. handler'[c] = "done" /\ toClient' = toClient
    BY <1>3 DEF Reply, ClientTypeOK, ServerTypeOK
  <2>2. Answered(c)' = Answered(c)
    BY <1>1, <2>1 DEF Answered
  <2>3. QED
    BY <1>1, <1>2, <1>3, <2>1, <2>2 DEF LineOK
<1>4. CASE serverEnd[c] = "open"
  <2>1. /\ handler'[c] = "waiting" /\ handler'[c] \notin Commands
        /\ toClient' = Delivered(toClient, clientEnd, c, cmd)
    BY <1>4, CommandsAssumption DEF Reply, ClientTypeOK, ServerTypeOK
  <2>2. Due(c) = <<cmd>> \o toServer[c] /\ Due(c)' = toServer[c]
    BY <1>1, <2>1, LineTypes, Concatenation DEF Due
  <2>3. CASE clientEnd[c] # "open"
    <3>1. Answered(c)' = Answered(c)
      BY <1>1, <2>1, <2>3 DEF Answered, Delivered
    <3>2. QED
      BY <1>1, <1>2, <1>4, <2>1, <2>3, <3>1 DEF LineOK
  <2>4. CASE clientEnd[c] = "open"
    <3>1. toClient'[c] = toClient[c] \o <<cmd>>
      BY <1>1, <2>1, <2>4, LineTypes, AppendIsConcat DEF Delivered, ClientTypeOK, ServerTypeOK
    <3>2. PICK one \in Seq(Commands) : one = <<cmd>>
      BY <1>1, Concatenation
    <3>3. Answered(c)' = Answered(c) \o one
      <4>1. Answered(c)' = received[c] \o (toClient[c] \o one)
        BY <1>1, <3>1, <3>2 DEF Answered
      <4>2. Associate(received[c], toClient[c], one)
        BY <1>0, Associative
      <4>3. QED
        BY <4>1, <4>2 DEF Answered, Associate
    <3>4. Answered(c)' \o Due(c)' = Answered(c) \o Due(c)
      <4>1. Associate(Answered(c), one, toServer[c])
        BY <1>0, Associative
      <4>2. QED
        BY <2>2, <3>2, <3>3, <4>1 DEF Associate
    <3>5. sent[c] = Answered(c)' \o Due(c)'
      BY <1>4, <2>4, <3>4 DEF LineOK
    <3>6. Answered(c)' \in Seq(Commands) /\ Due(c)' \in Seq(Commands)
      BY <2>2, <3>2, <3>3, LineTypes, Concatenation
    <3>7. /\ \E lost \in Seq(Commands) : sent[c] = Answered(c)' \o lost
          /\ \E lost \in Seq(Commands) : sent[c] = (Answered(c)' \o Due(c)') \o lost
      <4>1. (Answered(c)' \o Due(c)') \o <<>> = Answered(c)' \o Due(c)'
        BY <3>6, Concatenation
      <4>2. QED
        BY <3>5, <3>6, <4>1, EmptySeq
    <3>8. QED
      BY <1>1, <1>2, <1>4, <2>1, <3>5, <3>7 DEF LineOK
  <2>5. QED
    BY <2>3, <2>4
<1>5. QED
  BY <1>3, <1>4 DEF Reply

LEMMA LossKeepsLine ==
    ASSUME ClientTypeOK, NEW c \in Connections, LineOK(c),
           (CommandLost(c) /\ UNCHANGED clientVars) \/ ResultLost(c)
    PROVE  LineOK(c)'
<1>0. /\ received[c] \in Seq(Commands) /\ toClient[c] \in Seq(Commands)
      /\ toServer[c] \in Seq(Commands) /\ sent[c] \in Seq(Commands)
      /\ Answered(c) \in Seq(Commands) /\ Due(c) \in Seq(Commands)
  BY LineTypes
<1>1. CASE CommandLost(c) /\ UNCHANGED clientVars
  <2>1. /\ serverEnd[c] = "closed" /\ toServer[c] # <<>> /\ toServer'[c] = Front(toServer[c])
        /\ UNCHANGED <<serverEnd, clientEnd, handler, toClient, sent, received>>
    BY <1>1 DEF CommandLost, ClientTypeOK, ServerTypeOK, clientVars
  <2>2. PICK newest \in Seq(Commands) :
            toServer'[c] \in Seq(Commands) /\ toServer[c] = toServer'[c] \o newest
    <3>1. /\ Front(toServer[c]) \in Seq(Commands) /\ <<Last(toServer[c])>> \in Seq(Commands)
          /\ toServer[c] = Front(toServer[c]) \o <<Last(toServer[c])>>
      BY <2>1, LineTypes, FrontAndLast, Concatenation
    <3>2. QED
      BY <2>1, <3>1
  <2>3. PICK work \in Seq(Commands) :
            Due(c) = work \o toServer[c] /\ Due(c)' = work \o toServer'[c]
    <3>1. (IF handler[c] \in Commands THEN <<handler[c]>> ELSE <<>>) \in Seq(Commands)
      BY EmptySeq
    <3>2. QED
      BY <2>1, <3>1 DEF Due
  <2>4. Due(c) = Due(c)' \o newest /\ Due(c)' \in Seq(Commands)
    <3>1. Associate(work, toServer'[c], newest)
      BY <2>2, Associative
    <3>2. work \o toServer'[c] \in Seq(Commands)
      BY <2>2, Concatenation
    <3>3. QED
      BY <2>2, <2>3, <3>1, <3>2 DEF Associate
  <2>5. Answered(c)' = Answered(c)
    BY <2>1 DEF Answered
  <2>6. ASSUME NEW lost \in Seq(Commands), sent[c] = (Answered(c) \o Due(c)) \o lost
        PROVE  \E more \in Seq(Commands) : sent[c] = (Answered(c)' \o Due(c)') \o more
    <3>1. Answered(c) \o Due(c) = (Answered(c) \o Due(c)') \o newest
      <4>1. Associate(Answered(c), Due(c)', newest)
        BY <1>0, <2>4, Associative
      <4>2. QED
        BY <2>4, <4>1 DEF Associate
    <3>2. Answered(c) \o Due(c)' \in Seq(Commands)
      BY <1>0, <2>4, Concatenation
    <3>3. sent[c] = (Answered(c) \o Due(c)') \o (newest \o lost)
      <4>1. Associate(Answered(c) \o Due(c)', newest, lost)
        BY <3>2, Associative
      <4>2. QED
        BY <2>6, <3>1, <4>1 DEF Associate
    <3>4. newest \o lost \in Seq(Commands)
      BY <2>2, Concatenation
    <3>5. QED
      BY <2>5, <3>3, <3>4
  <2>7. clientEnd[c] # "unused"
    BY <2>1 DEF LineOK
  <2>8. QED
    BY <2>1, <2>5, <2>6, <2>7 DEF LineOK
<1>2. CASE ResultLost(c)
  <2>1. /\ clientEnd[c] = "closed" /\ toClient[c] # <<>> /\ toClient'[c] = Front(toClient[c])
        /\ UNCHANGED <<serverEnd, clientEnd, handler, toServer, sent, received>>
    BY <1>2 DEF ResultLost, ClientTypeOK, ServerTypeOK, clientVars
  <2>2. PICK newest \in Seq(Commands) :
            toClient'[c] \in Seq(Commands) /\ toClient[c] = toClient'[c] \o newest
    <3>1. /\ Front(toClient[c]) \in Seq(Commands) /\ <<Last(toClient[c])>> \in Seq(Commands)
          /\ toClient[c] = Front(toClient[c]) \o <<Last(toClient[c])>>
      BY <2>1, LineTypes, FrontAndLast, Concatenation
    <3>2. QED
      BY <2>1, <3>1
  <2>3. Answered(c)' = received[c] \o toClient'[c] /\ Answered(c)' \in Seq(Commands)
    BY <2>1, <2>2, LineTypes, Concatenation DEF Answered
  <2>4. Answered(c) = Answered(c)' \o newest
    <3>1. Associate(received[c], toClient'[c], newest)
      BY <1>0, <2>2, Associative
    <3>2. QED
      BY <2>2, <2>3, <3>1 DEF Answered, Associate
  <2>5. PICK lost \in Seq(Commands) : sent[c] = Answered(c) \o lost
    BY DEF LineOK
  <2>6. sent[c] = Answered(c)' \o (newest \o lost)
    <3>1. Associate(Answered(c)', newest, lost)
      BY <2>3, Associative
    <3>2. QED
      BY <2>4, <2>5, <3>1 DEF Associate
  <2>7. newest \o lost \in Seq(Commands)
    BY <2>2, Concatenation
  <2>8. QED
    BY <2>1, <2>6, <2>7 DEF LineOK
<1>3. QED
  BY <1>1, <1>2

LEMMA SendKeepsLine ==
    ASSUME ClientTypeOK, NEW p \in Callers, SendAction(p), LineOK(connection)
    PROVE  connection \in Connections /\ LineOK(connection)'
<1> DEFINE c == connection
<1>1. /\ c \in Connections /\ clientEnd[c] = "open" /\ connection' = connection
      /\ UNCHANGED <<serverEnd, clientEnd, handler, toClient, received>>
  BY DEF SendAction, IsConnected, ClientTypeOK, life
<1>2. PICK cmd \in Commands :
          /\ sent' = [sent EXCEPT ![c] = Append(@, cmd)]
          /\ toServer' = Delivered(toServer, serverEnd, c, cmd)
  BY DEF SendAction
<1>3. /\ toServer[c] \in Seq(Commands) /\ sent[c] \in Seq(Commands)
      /\ Answered(c) \in Seq(Commands) /\ Due(c) \in Seq(Commands)
  BY <1>1, LineTypes
<1>4. PICK one \in Seq(Commands) : one = <<cmd>>
  BY Concatenation
<1>5. sent'[c] = sent[c] \o one
  BY <1>1, <1>2, <1>3, <1>4, AppendIsConcat DEF ClientTypeOK
<1>6. Answered(c)' = Answered(c)
  BY <1>1 DEF Answered
<1>7. ASSUME NEW done \in Seq(Commands), NEW lost \in Seq(Commands), sent[c] = done \o lost
      PROVE  \E more \in Seq(Commands) : sent'[c] = done \o more
  <2>1. Associate(done, lost, one)
    BY Associative
  <2>2. lost \o one \in Seq(Commands)
    BY Concatenation
  <2>3. QED
    BY <1>5, <1>7, <2>1, <2>2 DEF Associate
<1>8. \E lost \in Seq(Commands) : sent'[c] = Answered(c)' \o lost
  BY <1>3, <1>6, <1>7 DEF LineOK
<1>9. CASE serverEnd[c] # "open"
  <2>1. toServer'[c] = toServer[c]
    BY <1>2, <1>9 DEF Delivered
  <2>2. Due(c)' = Due(c)
    BY <1>1, <2>1 DEF Due
  <2>3. Answered(c) \o Due(c) \in Seq(Commands)
    BY <1>3, Concatenation
  <2>4. handler[c] # "done" =>
            \E lost \in Seq(Commands) : sent'[c] = (Answered(c)' \o Due(c)') \o lost
    BY <1>1, <1>6, <1>7, <2>2, <2>3 DEF LineOK
  <2>5. QED
    BY <1>1, <1>8, <1>9, <2>4 DEF LineOK
<1>10. CASE serverEnd[c] = "open"
  <2>1. toServer'[c] = toServer[c] \o one
    <3>1. toServer' = [toServer EXCEPT ![c] = Append(@, cmd)]
      BY <1>2, <1>10 DEF Delivered
    <3>2. toServer'[c] = Append(toServer[c], cmd)
      BY <1>1, <3>1 DEF ClientTypeOK, ServerTypeOK
    <3>3. QED
      BY <1>3, <1>4, <3>2, AppendIsConcat, Zenon
  <2>2. PICK work \in Seq(Commands) :
            Due(c) = work \o toServer[c] /\ Due(c)' = work \o toServer'[c]
    <3>1. (IF handler[c] \in Commands THEN <<handler[c]>> ELSE <<>>) \in Seq(Commands)
      BY EmptySeq
    <3>2. QED
      BY <1>1, <3>1 DEF Due
  <2>3. Associate(work, toServer[c], one)
    BY <1>3, Associative
  <2>4. Due(c)' = Due(c) \o one
    BY <2>1, <2>2, <2>3 DEF Associate
  <2>5. (Answered(c) \o Due(c)) \o one = Answered(c) \o (Due(c) \o one)
    <3>1. Associate(Answered(c), Due(c), one)
      BY <1>3, Associative
    <3>2. QED
      BY <3>1 DEF Associate
  <2>6. sent'[c] = Answered(c)' \o Due(c)'
    BY <1>1, <1>5, <1>6, <1>10, <2>4, <2>5 DEF LineOK
  <2>7. Answered(c)' \o Due(c)' \in Seq(Commands)
    BY <1>3, <1>6, <2>4, Concatenation
  <2>8. \E lost \in Seq(Commands) : sent'[c] = (Answered(c)' \o Due(c)') \o lost
    <3>1. (Answered(c)' \o Due(c)') \o <<>> = Answered(c)' \o Due(c)'
      BY <2>7, Concatenation, Zenon
    <3>2. QED
      BY <2>6, <3>1, EmptySeq
  <2>9. QED
    BY <1>1, <1>8, <1>10, <2>6, <2>8 DEF LineOK
<1>11. QED
  BY <1>1, <1>9, <1>10

LEMMA DeliverKeepsLine ==
    ASSUME ClientTypeOK, NEW p \in Callers, NEW c \in Connections, c = call[p].conn,
           Deliver(p), LineOK(c)
    PROVE  LineOK(c)'
<1>1. /\ toClient[c] # <<>>
      /\ toClient'[c] = Tail(toClient[c])
      /\ received'[c] = Append(received[c], Head(toClient[c]))
      /\ UNCHANGED <<serverEnd, clientEnd, handler, toServer, sent>>
  <2>1. /\ toClient[c] # <<>>
        /\ toClient' = [toClient EXCEPT ![c] = Tail(@)]
        /\ received' = [received EXCEPT ![c] = Append(@, Head(toClient[c]))]
        /\ UNCHANGED <<serverEnd, clientEnd, handler, toServer, sent>>
    BY DEF Deliver
  <2>2. QED
    BY <2>1 DEF ClientTypeOK, ServerTypeOK
<1>2. received[c] \in Seq(Commands) /\ toClient[c] \in Seq(Commands)
  BY LineTypes
<1>3. /\ Head(toClient[c]) \in Commands /\ toClient'[c] \in Seq(Commands)
      /\ toClient[c] = <<Head(toClient[c])>> \o toClient'[c]
  BY <1>1, <1>2, HeadAndTail
<1>4. PICK one \in Seq(Commands) : one = <<Head(toClient[c])>>
  BY <1>3, Concatenation
<1>5. received'[c] = received[c] \o one
  BY <1>1, <1>2, <1>3, <1>4, AppendIsConcat, Zenon
<1>6. (received[c] \o one) \o toClient'[c] = received[c] \o (one \o toClient'[c])
  <2>1. received[c] \in Seq(Commands) /\ toClient'[c] \in Seq(Commands)
    BY <1>2, <1>3
  <2>2. Associate(received[c], one, toClient'[c])
    BY <2>1, Associative, Zenon
  <2>3. QED
    BY <2>2 DEF Associate
<1>7. Answered(c)' = Answered(c)
  BY <1>3, <1>4, <1>5, <1>6, Zenon DEF Answered
<1>8. Due(c)' = Due(c)
  BY <1>1 DEF Due
<1>9. clientEnd[c] # "unused"
  BY <1>1 DEF LineOK
<1>10. QED
  BY <1>1, <1>7, <1>8, <1>9 DEF LineOK

\* A step at one connection, and the others are left alone.
LEMMA OrderAt ==
    ASSUME OrderInv, NEW c \in Connections, LineOK(c)',
           \A d \in Connections \ {c} :
               /\ clientEnd'[d] = clientEnd[d] /\ serverEnd'[d] = serverEnd[d]
               /\ handler'[d] = handler[d] /\ toServer'[d] = toServer[d]
               /\ toClient'[d] = toClient[d] /\ sent'[d] = sent[d] /\ received'[d] = received[d]
    PROVE  OrderInv'
<1>1. ASSUME NEW d \in Connections \ {c} PROVE LineOK(d)'
  BY <1>1, LineUntouched DEF OrderInv
<1>2. QED
  BY <1>1 DEF OrderInv

\* An end that closes, at the client or at the server, makes no promise.
LEMMA CloseKeepsLine ==
    ASSUME ClientTypeOK, NEW c \in Connections, LineOK(c),
           UNCHANGED <<handler, toServer, toClient, sent, received>>,
           clientEnd'[c] \in {clientEnd[c], "closed"},
           serverEnd'[c] \in {serverEnd[c], "closed"}
    PROVE  LineOK(c)'
BY DEF LineOK, Answered, Due

LEMMA OrderServer ==
    ASSUME ClientTypeOK, OrderInv, ServerNext, UNCHANGED clientVars
    PROVE  OrderInv'
<1>0. UNCHANGED <<clientEnd, sent, received>>
  BY DEF clientVars
<1>1. ASSUME UNCHANGED <<handler, wire>>,
             \A c \in Connections : serverEnd'[c] \in {serverEnd[c], "closed"}
      PROVE  OrderInv'
  BY <1>0, <1>1, CloseKeepsLine DEF OrderInv, wire
<1>2. CASE LifeStep \/ TriggerStop
  <2>1. CASE CloseServer
    BY <1>1, <2>1 DEF CloseServer, ClientTypeOK, ServerTypeOK
  <2>2. CASE ~ CloseServer
    <3>1. UNCHANGED <<handler, wire, serverEnd>>
      BY <1>2, <2>2 DEF LifeStep, TriggerStop, InitializePlaywright, InitializationFails, Serve,
                        WaitClosed, Stop
    <3>2. QED
      BY <1>1, <3>1
  <2>3. QED
    BY <2>1, <2>2
<1>3. ASSUME NEW c \in Connections, TakeCommand(c) PROVE OrderInv'
  <2>1. LineOK(c)'
    BY <1>3, TakeKeepsLine DEF OrderInv
  <2>2. QED
    BY <1>0, <1>3, <2>1, OrderAt DEF TakeCommand, ClientTypeOK, ServerTypeOK
<1>4. ASSUME NEW c \in Connections, Reply(c) PROVE OrderInv'
  <2>1. LineOK(c)'
    BY <1>4, ReplyKeepsLine DEF OrderInv
  <2>2. QED
    BY <1>0, <1>4, <2>1, OrderAt DEF Reply, Delivered, ClientTypeOK, ServerTypeOK
<1>5. ASSUME NEW c \in Connections, EndOfMessages(c) PROVE OrderInv'
  <2>1. LineOK(c)'
    <3>1. /\ handler[c] = "waiting" /\ handler'[c] = "done" /\ serverEnd[c] = "closed"
          /\ UNCHANGED <<serverEnd, clientEnd, toServer, toClient, sent, received>>
      BY <1>0, <1>5 DEF EndOfMessages, wire, ClientTypeOK, ServerTypeOK
    <3>2. Answered(c)' = Answered(c) /\ LineOK(c)
      BY <3>1 DEF Answered, OrderInv
    <3>3. QED
      BY <3>1, <3>2 DEF LineOK
  <2>2. QED
    BY <1>0, <1>5, <2>1, OrderAt DEF EndOfMessages, wire, ClientTypeOK, ServerTypeOK
<1>6. ASSUME NEW c \in Connections, ServerEndCloses(c) PROVE OrderInv'
  BY <1>1, <1>6 DEF ServerEndCloses, ClientTypeOK, ServerTypeOK
<1>7. ASSUME NEW c \in Connections, CommandLost(c) PROVE OrderInv'
  <2>1. LineOK(c)'
    BY <1>7, LossKeepsLine DEF OrderInv
  <2>2. QED
    BY <1>0, <1>7, <2>1, OrderAt DEF CommandLost, ClientTypeOK, ServerTypeOK
<1>8. QED
  BY <1>2, <1>3, <1>4, <1>5, <1>6, <1>7 DEF ServerNext, HandlerStep

LEMMA OrderClient ==
    ASSUME ClientTypeOK, OrderInv, NEW p \in Callers,
           \/ CallStep(p) \/ Cancel(p)
           \/ Connect(p) \/ SendAction(p) \/ NotConnected(p) \/ Close(p)
    PROVE  OrderInv'
<1>1. ASSUME UNCHANGED <<serverVars, sent, received>>,
             \A c \in Connections : clientEnd'[c] \in {clientEnd[c], "closed"}
      PROVE  OrderInv'
  BY <1>1, CloseKeepsLine DEF OrderInv, serverVars, wire
<1>2. CASE Connect(p) \/ NotConnected(p) \/ Cancel(p) \/ ConnectFails(p) \/ Receive(p) \/ Closed(p)
  BY <1>1, <1>2 DEF Connect, NotConnected, Cancel, ConnectFails, Receive, Closed
<1>3. CASE Close(p) \/ ReceiveClosed(p)
  <2>1. UNCHANGED <<serverVars, sent, received>>
    BY <1>3 DEF Close, ReceiveClosed
  <2>2. \/ clientEnd' = [clientEnd EXCEPT ![connection] = "closed"]
        \/ clientEnd' = clientEnd
    BY <1>3 DEF Close, ReceiveClosed, StartClose
  <2>3. QED
    BY <1>1, <2>1, <2>2 DEF ClientTypeOK, ServerTypeOK
<1>4. CASE Connected(p)
  <2>1. PICK c \in Connections :
            /\ clientEnd[c] = "unused"
            /\ clientEnd' = [clientEnd EXCEPT ![c] = "open"]
            /\ serverEnd' = [serverEnd EXCEPT ![c] = "open"]
            /\ handler' = [handler EXCEPT ![c] = "waiting"]
    BY <1>4 DEF Connected
  <2>2. UNCHANGED <<toServer, toClient, sent, received>>
    BY <1>4 DEF Connected, wire
  <2>3. /\ sent[c] = <<>> /\ received[c] = <<>> /\ toClient[c] = <<>> /\ toServer[c] = <<>>
    BY <2>1 DEF OrderInv, LineOK
  <2>4. clientEnd'[c] = "open" /\ handler'[c] = "waiting" /\ handler'[c] \notin Commands
    BY <2>1, CommandsAssumption DEF ClientTypeOK, ServerTypeOK
  <2>5. /\ Answered(c)' = <<>> \o <<>> /\ Due(c)' = <<>> \o <<>> /\ sent'[c] = <<>>
    BY <2>2, <2>3, <2>4 DEF Answered, Due
  <2>6. <<>> \o <<>> = <<>> /\ <<>> \in Seq(Commands)
    BY Concatenation
  <2>7. LineOK(c)'
    BY <2>4, <2>5, <2>6 DEF LineOK
  <2>8. QED
    BY <2>1, <2>2, <2>7, OrderAt DEF ClientTypeOK, ServerTypeOK
<1>5. CASE SendAction(p)
  <2>1. PICK c \in Connections : c = connection
    BY <1>5 DEF SendAction, IsConnected, ClientTypeOK
  <2>2. connection' = c
    BY <1>5, <2>1 DEF SendAction
  <2>3. LineOK(c)'
    BY <1>5, <2>1, <2>2, SendKeepsLine DEF OrderInv
  <2>4. QED
    BY <1>5, <2>1, <2>3, OrderAt DEF SendAction, Delivered, ClientTypeOK, ServerTypeOK, life
<1>6. CASE Deliver(p)
  <2>1. PICK c \in Connections : c = call[p].conn
    BY <1>6 DEF Deliver, ClientTypeOK, Call
  <2>2. LineOK(c)'
    BY <1>6, <2>1, DeliverKeepsLine DEF OrderInv
  <2>3. QED
    BY <1>6, <2>1, <2>2, OrderAt DEF Deliver, ClientTypeOK, ServerTypeOK, life
<1>7. QED
  BY <1>2, <1>3, <1>4, <1>5, <1>6 DEF CallStep

LEMMA OrderStep == ClientTypeOK /\ OrderInv /\ [Next]_vars => OrderInv'
<1> SUFFICES ASSUME ClientTypeOK, OrderInv, [Next]_vars PROVE OrderInv'
  OBVIOUS
<1>1. ASSUME NEW c \in Connections, ClientEndCloses(c) PROVE OrderInv'
  BY <1>1, CloseKeepsLine
     DEF ClientEndCloses, OrderInv, serverVars, wire, ClientTypeOK, ServerTypeOK
<1>2. ASSUME NEW c \in Connections, ResultLost(c) PROVE OrderInv'
  <2>1. LineOK(c)'
    BY <1>2, LossKeepsLine DEF OrderInv
  <2>2. QED
    BY <1>2, <2>1, OrderAt DEF ResultLost, ClientTypeOK, ServerTypeOK, life, clientVars
<1>3. CASE UNCHANGED vars
  BY <1>3, LineUntouched DEF vars, serverVars, clientVars, life, wire, OrderInv
<1>4. QED
  BY <1>1, <1>2, <1>3, OrderServer, OrderClient DEF Next

LEMMA OrderInvariant == Spec => []OrderInv
<1>1. Init => OrderInv
  <2> SUFFICES ASSUME Init, NEW c \in Connections PROVE LineOK(c)
    BY DEF OrderInv
  <2>1. /\ clientEnd[c] = "unused" /\ handler[c] = "none"
        /\ sent[c] = <<>> /\ received[c] = <<>> /\ toClient[c] = <<>> /\ toServer[c] = <<>>
    BY DEF Init, ServerInit
  <2>2. Answered(c) = <<>> /\ <<>> \o <<>> = <<>> /\ <<>> \in Seq(Commands)
    BY <2>1, Concatenation DEF Answered
  <2>3. QED
    BY <2>1, <2>2 DEF LineOK
<1>2. QED
  BY <1>1, OrderStep, TzTypeCorrect, PTL DEF Spec

\* Results come back in the order of their commands, one for each, from any number of
\* callers, cancelled or not, and wherever connections break.
THEOREM RepliesAlwaysInOrder == Spec => []RepliesInOrder
<1>1. ClientTypeOK /\ OrderInv => RepliesInOrder
  <2> SUFFICES ASSUME ClientTypeOK, OrderInv, NEW c \in Connections
               PROVE  IsPrefix(received[c] \o toClient[c], sent[c])
    BY DEF RepliesInOrder
  <2>1. PICK lost \in Seq(Commands) : sent[c] = Answered(c) \o lost
    BY DEF OrderInv, LineOK
  <2>2. Answered(c) \in Seq(Commands)
    BY LineTypes
  <2>3. IsPrefix(Answered(c), Answered(c) \o lost)
    BY <2>2, PrefixOfConcat
  <2>4. QED
    BY <2>1, <2>3 DEF Answered
<1>2. QED
  BY <1>1, OrderInvariant, TzTypeCorrect, PTL

----------------------------------------------------------------------------
(* A client that is not shared, and not cancelled during send_action.      *)

SoleCaller == Cancellable \cap {"sent", "receiving"} = {} /\ \A p, q \in Callers : p = q

\* Between two calls nothing is under way on the open connection; during a call the
\* command it sent is all that is.  While it connects or closes there is no open one.
CallOK(p) ==
    /\ call[p].result \in Commands => call[p].result = call[p].cmd
    /\ call[p].at = "idle" /\ IsConnected => sent[connection] = received[connection]
    /\ call[p].at \in {"sent", "receiving"} =>
          /\ call[p].cmd \in Commands /\ call[p].result = None
          /\ connection # None => sent[connection] = Append(received[connection], call[p].cmd)
    /\ call[p].at = "receiving" => call[p].conn = connection
    /\ call[p].at \in {"connecting", "closing"} => ~ IsConnected

CallInv == SoleCaller => \A p \in Callers : CallOK(p)

\* The one result that can be delivered is that of the command.
LEMMA DeliversItsResult ==
    ASSUME ClientTypeOK, OrderInv, NEW p \in Callers, CallOK(p), Deliver(p)
    PROVE  /\ connection \in Connections /\ call[p].conn = connection
           /\ Head(toClient[connection]) = call[p].cmd
           /\ received'[connection] = sent[connection]
<1> DEFINE c == connection
           cmd == call[p].cmd
<1>1. /\ call[p].at = "receiving" /\ call[p].conn = c /\ toClient[c] # <<>>
      /\ received' = [received EXCEPT ![c] = Append(@, Head(toClient[c]))]
  BY DEF Deliver, CallOK
<1>2. c \in Connections
  BY <1>1 DEF ClientTypeOK
<1>3. /\ cmd \in Commands /\ sent[c] = Append(received[c], cmd)
  BY <1>1, <1>2, CommandsAssumption DEF CallOK
<1>4. PICK lost \in Seq(Commands) : sent[c] = Answered(c) \o lost
  BY <1>2 DEF OrderInv, LineOK
<1>5. /\ received[c] \in Seq(Commands) /\ toClient[c] \in Seq(Commands)
      /\ Answered(c) \in Seq(Commands)
  BY <1>2, LineTypes
<1>6. PICK n \in Nat : n = Len(received[c])
  BY <1>5, LenProperties
<1>7. PICK k \in Nat \ {0} : k = Len(toClient[c]) /\ toClient[c][1] = Head(toClient[c])
  <2> DEFINE q == toClient[c]
  <2>1. q \in Seq(Commands) /\ q # <<>>
    BY <1>1, <1>5
  <2> HIDE DEF q
  <2>2. Len(q) \in Nat \ {0} /\ q[1] = Head(q)
    BY <2>1, EmptySeq
  <2>3. QED
    BY <2>2 DEF q
<1>8. Len(Answered(c)) = n + k /\ Answered(c)[n + 1] = toClient[c][1]
  <2>1. /\ Len(received[c] \o toClient[c]) = Len(received[c]) + Len(toClient[c])
        /\ \A i \in 1 .. Len(received[c]) + Len(toClient[c]) :
              (received[c] \o toClient[c])[i] =
                  IF i <= Len(received[c]) THEN received[c][i]
                                           ELSE toClient[c][i - Len(received[c])]
    BY <1>5, ConcatProperties
  <2>2. n + 1 \in 1 .. n + k /\ ~ (n + 1 <= n) /\ (n + 1) - n = 1
    OBVIOUS
  <2>3. QED
    BY <1>6, <1>7, <2>1, <2>2 DEF Answered
<1>9. sent[c][n + 1] = Answered(c)[n + 1]
  <2>1. \A i \in 1 .. Len(Answered(c)) + Len(lost) :
            (Answered(c) \o lost)[i] = IF i <= Len(Answered(c)) THEN Answered(c)[i]
                                        ELSE lost[i - Len(Answered(c))]
    BY <1>5, ConcatProperties
  <2>2. Len(lost) \in Nat
    BY LenProperties
  <2>3. n + 1 \in 1 .. (n + k) + Len(lost) /\ n + 1 <= n + k
    BY <2>2
  <2>4. QED
    BY <1>4, <1>8, <2>1, <2>3
<1>10. sent[c][n + 1] = cmd
  BY <1>3, <1>5, <1>6, AppendProperties
<1>11. received'[c] = Append(received[c], Head(toClient[c]))
  BY <1>1, <1>2 DEF ClientTypeOK
<1>12. QED
  BY <1>1, <1>2, <1>3, <1>7, <1>8, <1>9, <1>10, <1>11

LEMMA CallStepOK ==
    ASSUME ClientTypeOK, OrderInv, SoleCaller, NEW p \in Callers, CallOK(p),
           \/ CallStep(p) \/ Connect(p) \/ SendAction(p) \/ NotConnected(p) \/ Close(p)
    PROVE  CallOK(p)'
<1>1. call[p] \in Call /\ connection # None => connection \in Connections
  BY DEF ClientTypeOK
<1>2. ASSUME NEW new, call' = [call EXCEPT ![p] = new] PROVE call'[p] = new
  BY <1>2 DEF ClientTypeOK
<1>3. CASE Connect(p)
  <2>1. call'[p] = [Idle EXCEPT !.at = "connecting"]
    BY <1>2, <1>3 DEF Connect
  <2>2. call'[p].at = "connecting" /\ call'[p].result = None /\ ~ IsConnected'
    BY <1>3, <2>1 DEF Connect, Idle, IsConnected
  <2>3. QED
    BY <2>2, CommandsAssumption DEF CallOK
<1>4. CASE NotConnected(p)
  <2>1. call'[p] = [Idle EXCEPT !.result = "error"]
    BY <1>2, <1>4 DEF NotConnected
  <2>2. call'[p].at = "idle" /\ call'[p].result = "error"
    BY <2>1 DEF Idle
  <2>3. ~ IsConnected'
    BY <1>4 DEF NotConnected, IsConnected
  <2>4. QED
    BY <2>2, <2>3, CommandsAssumption DEF CallOK
<1>5. CASE ConnectFails(p)
  <2>1. call'[p] = Idle /\ connection' = None
    BY <1>2, <1>5 DEF ConnectFails
  <2>2. call'[p].at = "idle" /\ call'[p].result = None /\ ~ IsConnected'
    BY <2>1 DEF Idle, IsConnected
  <2>3. QED
    BY <2>2, CommandsAssumption DEF CallOK
<1>6. CASE Connected(p)
  <2>1. call'[p] = Idle /\ UNCHANGED <<sent, received>>
    BY <1>2, <1>6 DEF Connected
  <2>2. PICK c \in Connections : clientEnd[c] = "unused" /\ connection' = c
    BY <1>6 DEF Connected
  <2>3. sent[c] = <<>> /\ received[c] = <<>>
    BY <2>2 DEF OrderInv, LineOK
  <2>4. call'[p].at = "idle" /\ call'[p].result = None
    BY <2>1 DEF Idle
  <2>5. QED
    BY <2>1, <2>2, <2>3, <2>4, CommandsAssumption DEF CallOK
<1>7. CASE SendAction(p)
  <2>1. call[p].at = "idle" /\ IsConnected /\ connection \in Connections
    BY <1>7 DEF SendAction, IsConnected, ClientTypeOK
  <2>2. PICK cmd \in Commands :
            /\ call' = [call EXCEPT ![p] = [Idle EXCEPT !.at = "sent", !.cmd = cmd]]
            /\ sent' = [sent EXCEPT ![connection] = Append(@, cmd)]
    BY <1>7 DEF SendAction
  <2>3. call'[p] = [Idle EXCEPT !.at = "sent", !.cmd = cmd]
    BY <1>2, <2>2
  <2>4. call'[p].at = "sent" /\ call'[p].cmd = cmd /\ call'[p].result = None
    BY <2>3 DEF Idle
  <2>5. sent'[connection] = Append(sent[connection], cmd)
    BY <2>1, <2>2 DEF ClientTypeOK
  <2>6. connection' = connection /\ received' = received
    BY <1>7 DEF SendAction
  <2>7. sent[connection] = received[connection]
    BY <2>1 DEF CallOK
  <2>8. QED
    BY <2>4, <2>5, <2>6, <2>7, CommandsAssumption DEF CallOK
<1>8. CASE Receive(p)
  <2>1. call[p].at = "sent" /\ UNCHANGED <<connection, sent, received>>
    BY <1>8 DEF Receive
  <2>2. \A q \in Callers : call[q].at # "receiving"
    BY <2>1 DEF SoleCaller
  <2>3. CASE connection = None
    <3>1. call'[p] = [Idle EXCEPT !.cmd = call[p].cmd, !.result = "error"]
      BY <1>2, <1>8, <2>3 DEF Receive, Returns
    <3>2. call'[p].at = "idle" /\ call'[p].result = "error" /\ ~ IsConnected'
      BY <2>1, <2>3, <3>1 DEF Idle, IsConnected
    <3>3. QED
      BY <3>2, CommandsAssumption DEF CallOK
  <2>4. CASE connection # None
    <3>1. call'[p] = [call[p] EXCEPT !.at = "receiving", !.conn = connection]
      BY <1>8, <2>2, <2>4 DEF Receive, ClientTypeOK, Call
    <3>2. /\ call'[p].at = "receiving" /\ call'[p].conn = connection
          /\ call'[p].cmd = call[p].cmd /\ call'[p].result = call[p].result
      BY <3>1, <1>1, <2>4 DEF Call, ClientTypeOK
    <3>3. QED
      BY <2>1, <3>2, CommandsAssumption DEF CallOK
  <2>5. QED
    BY <2>3, <2>4
<1>9. CASE Deliver(p)
  <2>1. /\ connection \in Connections /\ call[p].conn = connection
        /\ Head(toClient[connection]) = call[p].cmd
        /\ received'[connection] = sent[connection]
    BY <1>9, DeliversItsResult
  <2>2. UNCHANGED <<connection, sent>>
    BY <1>9 DEF Deliver
  <2>3. call'[p] = [Idle EXCEPT !.cmd = call[p].cmd, !.result = call[p].cmd]
    BY <1>2, <1>9, <2>1 DEF Deliver, Returns
  <2>4. call'[p].at = "idle" /\ call'[p].cmd = call[p].cmd /\ call'[p].result = call[p].cmd
    BY <2>3 DEF Idle
  <2>5. QED
    BY <2>1, <2>2, <2>4 DEF CallOK
<1>10. ASSUME NEW outcome \in Call, StartClose(p, outcome), outcome.at = "idle",
              outcome.result \notin Commands
       PROVE  CallOK(p)'
  <2>1. CASE IsConnected
    <3>1. call'[p] = [outcome EXCEPT !.at = "closing", !.conn = connection]
      BY <1>2, <1>10, <2>1 DEF StartClose
    <3>2. call'[p].at = "closing" /\ call'[p].result = outcome.result
      BY <3>1 DEF Call
    <3>3. ~ IsConnected'
      <4>1. connection \in Connections /\ connection' = connection
            /\ clientEnd' = [clientEnd EXCEPT ![connection] = "closed"]
        BY <1>10, <2>1 DEF StartClose, IsConnected, ClientTypeOK
      <4>2. QED
        BY <4>1 DEF IsConnected, ClientTypeOK, ServerTypeOK
    <3>4. QED
      BY <1>10, <3>2, <3>3 DEF CallOK
  <2>2. CASE ~ IsConnected
    <3>1. call'[p] = outcome /\ connection' = None
      BY <1>2, <1>10, <2>2 DEF StartClose
    <3>2. QED
      BY <1>10, <3>1 DEF CallOK, IsConnected
  <2>3. QED
    BY <2>1, <2>2
<1>11. CASE Close(p)
  <2>1. Idle \in Call /\ Idle.at = "idle" /\ Idle.result \notin Commands
    BY CommandsAssumption DEF Idle, Call
  <2>2. QED
    BY <1>10, <1>11, <2>1 DEF Close
<1>12. CASE ReceiveClosed(p)
  <2> DEFINE failed == [Idle EXCEPT !.cmd = call[p].cmd, !.result = "error"]
  <2>1. failed \in Call /\ failed.at = "idle" /\ failed.result \notin Commands
    <3>1. call[p] \in Call
      BY DEF ClientTypeOK
    <3>2. QED
      BY <3>1, CommandsAssumption DEF Idle, Call
  <2>2. StartClose(p, failed)
    BY <1>12 DEF ReceiveClosed
  <2> HIDE DEF failed
  <2>3. QED
    BY <1>10, <2>1, <2>2
<1>13. CASE Closed(p)
  <2>1. call'[p] = [call[p] EXCEPT !.at = "idle", !.conn = None] /\ connection' = None
    BY <1>13 DEF Closed, ClientTypeOK
  <2>2. /\ call'[p].at = "idle" /\ ~ IsConnected'
        /\ call'[p].cmd = call[p].cmd /\ call'[p].result = call[p].result
    <3>1. call[p] \in Call
      BY DEF ClientTypeOK
    <3>2. QED
      BY <2>1, <3>1 DEF Call, IsConnected
  <2>3. QED
    BY <2>2 DEF CallOK
<1>14. QED
  BY <1>3, <1>4, <1>5, <1>6, <1>7, <1>8, <1>9, <1>11, <1>12, <1>13 DEF CallStep

LEMMA CallInvStep == ClientTypeOK /\ OrderInv /\ CallInv /\ [Next]_vars => CallInv'
<1> SUFFICES ASSUME ClientTypeOK, OrderInv, CallInv, [Next]_vars, SoleCaller, NEW p \in Callers
             PROVE  CallOK(p)'
  BY DEF CallInv, SoleCaller
<1>1. /\ CallOK(p) /\ \A q \in Callers : q = p
      /\ Cancel(p) => call[p].at \in {"connecting", "closing"}
  BY CancellableAssumption DEF CallInv, SoleCaller, Cancel
<1>2. ASSUME UNCHANGED <<connection, call, sent, received>>,
             \A c \in Connections : clientEnd'[c] = "open" => clientEnd[c] = "open"
      PROVE  CallOK(p)'
  <2>1. IsConnected' => IsConnected
    BY <1>2 DEF IsConnected, ClientTypeOK
  <2>2. QED
    BY <1>1, <1>2, <2>1 DEF CallOK
<1>3. ASSUME NEW q \in Callers,
             \/ CallStep(q) \/ Cancel(q)
             \/ Connect(q) \/ SendAction(q) \/ NotConnected(q) \/ Close(q)
      PROVE  CallOK(p)'
  <2>1. q = p
    BY <1>1
  <2>2. CASE Cancel(p)
    <3>1. call'[p] = Idle /\ IsConnected' = IsConnected /\ ~ IsConnected
      BY <1>1, <2>2 DEF Cancel, CallOK, ClientTypeOK, IsConnected
    <3>2. call'[p].at = "idle" /\ call'[p].result = None /\ ~ IsConnected'
      BY <3>1 DEF Idle
    <3>3. QED
      BY <3>2, CommandsAssumption DEF CallOK
  <2>3. QED
    BY <1>1, <1>3, <2>1, <2>2, CallStepOK
<1>4. ASSUME NEW c \in Connections, ClientEndCloses(c) PROVE CallOK(p)'
  BY <1>2, <1>4 DEF ClientEndCloses, ClientTypeOK, ServerTypeOK
<1>5. ASSUME NEW c \in Connections, ResultLost(c) PROVE CallOK(p)'
  BY <1>2, <1>5 DEF ResultLost, clientVars
<1>6. CASE UNCHANGED clientVars
  BY <1>2, <1>6 DEF clientVars
<1>7. QED
  BY <1>3, <1>4, <1>5, <1>6 DEF Next, vars

\* A caller that has the client to itself and is not cancelled in send_action gets
\* the result of its own command from every call, across any number of breaks and
\* reconnections.
THEOREM SoleCallerGetsItsResults == Spec => [](SoleCaller => ResultIsOfAction)
<1>1. Init => CallInv
  <2>1. ASSUME Init, NEW p \in Callers PROVE CallOK(p)
    <3>1. call[p].at = "idle" /\ call[p].result = None /\ ~ IsConnected
      BY <2>1 DEF Init, Idle, IsConnected
    <3>2. QED
      BY <3>1, CommandsAssumption DEF CallOK
  <2>2. QED
    BY <2>1 DEF CallInv
<1>2. CallInv => (SoleCaller => ResultIsOfAction)
  BY DEF CallInv, CallOK, ResultIsOfAction
<1>3. QED
  BY <1>1, <1>2, CallInvStep, OrderInvariant, TzTypeCorrect, PTL DEF Spec

----------------------------------------------------------------------------
(* A client that is not shared, and may be cancelled at any await.         *)

NotShared == \A p, q \in Callers : p = q

\* The one connection that may be open is the one the client holds; while it connects
\* or closes there is none.
HeldInv ==
    NotShared =>
        /\ NoConnectionLeaked
        /\ \A p \in Callers : call[p].at \in {"connecting", "closing"}
               => \A c \in Connections : clientEnd[c] # "open"

\* A step that opens no connection, keeps the one it holds and begins neither to
\* connect nor to close changes nothing of this.
LEMMA HeldUntouched ==
    ASSUME HeldInv, connection' = connection,
           \A c \in Connections : clientEnd'[c] = "open" => clientEnd[c] = "open",
           \A p \in Callers : call'[p].at \in {"connecting", "closing"} => call'[p] = call[p]
    PROVE  HeldInv'
BY DEF HeldInv, NotShared, NoConnectionLeaked

\* A step after which no connection is open is fine whatever else it does.
LEMMA NoneOpenHeld ==
    ASSUME \A c \in Connections : clientEnd'[c] # "open"
    PROVE  HeldInv'
BY DEF HeldInv, NoConnectionLeaked

LEMMA HeldInvStep == ClientTypeOK /\ HeldInv /\ [Next]_vars => HeldInv'
<1> SUFFICES ASSUME ClientTypeOK, HeldInv, [Next]_vars, NotShared PROVE HeldInv'
  BY DEF HeldInv, NotShared
<1>1. /\ \A c \in Connections : clientEnd[c] = "open" => connection = c
      /\ \A p \in Callers : call[p].at \in {"connecting", "closing"}
             => \A c \in Connections : clientEnd[c] # "open"
  BY DEF HeldInv, NoConnectionLeaked
<1>2. ~ IsConnected => \A c \in Connections : clientEnd[c] # "open"
  BY <1>1, CommandsAssumption DEF IsConnected
<1>3. ASSUME NEW p \in Callers,
             Receive(p) \/ Deliver(p) \/ Cancel(p) \/ SendAction(p) \/ NotConnected(p)
      PROVE  HeldInv'
  <2>1. /\ UNCHANGED <<connection, clientEnd>>
        /\ \E new : call' = [call EXCEPT ![p] = new] /\ new.at \notin {"connecting", "closing"}
    <3>1. /\ Idle.at = "idle" /\ [Idle EXCEPT !.result = "error"].at = "idle"
          /\ \A x, y : [Idle EXCEPT !.cmd = x, !.result = y].at = "idle"
          /\ \A x : [Idle EXCEPT !.at = "sent", !.cmd = x].at = "sent"
      BY DEF Idle
    <3>2. [call[p] EXCEPT !.at = "receiving", !.conn = connection].at = "receiving"
      BY DEF ClientTypeOK, Call
    <3>3. CASE Receive(p)
      <4> DEFINE failed == [Idle EXCEPT !.cmd = call[p].cmd, !.result = "error"]
                 waits == [call[p] EXCEPT !.at = "receiving", !.conn = connection]
      <4>1. call' = [call EXCEPT ![p] = failed] \/ call' = [call EXCEPT ![p] = waits]
        BY <3>3 DEF Receive, Returns
      <4>2. failed.at = "idle" /\ waits.at = "receiving"
        BY <3>1, <3>2
      <4>3. UNCHANGED <<connection, clientEnd>>
        BY <3>3 DEF Receive
      <4> HIDE DEF failed, waits
      <4>4. QED
        BY <4>1, <4>2, <4>3
    <3>4. CASE Deliver(p)
      BY <3>1, <3>4 DEF Deliver, Returns
    <3>5. CASE Cancel(p) \/ SendAction(p) \/ NotConnected(p)
      BY <3>1, <3>5 DEF Cancel, SendAction, NotConnected
    <3>6. QED
      BY <1>3, <3>3, <3>4, <3>5
  <2>2. QED
    BY <2>1, HeldUntouched DEF ClientTypeOK
<1>4. ASSUME NEW p \in Callers, Connect(p) \/ ConnectFails(p) \/ Closed(p) PROVE HeldInv'
  <2>1. UNCHANGED clientEnd /\ \A c \in Connections : clientEnd[c] # "open"
    BY <1>1, <1>2, <1>4 DEF Connect, ConnectFails, Closed
  <2>2. QED
    BY <2>1, NoneOpenHeld
<1>5. ASSUME NEW p \in Callers, Connected(p) PROVE HeldInv'
  <2>1. \A c \in Connections : clientEnd[c] # "open"
    BY <1>1, <1>5 DEF Connected
  <2>2. PICK c \in Connections : clientEnd' = [clientEnd EXCEPT ![c] = "open"] /\ connection' = c
    BY <1>5 DEF Connected
  <2>3. \A d \in Connections : clientEnd'[d] = "open" => connection' = d
    BY <2>1, <2>2 DEF ClientTypeOK, ServerTypeOK
  <2>4. \A q \in Callers : call'[q].at = "idle"
    BY <1>5 DEF Connected, NotShared, ClientTypeOK, Idle
  <2>5. QED
    BY <2>3, <2>4 DEF HeldInv, NoConnectionLeaked
<1>6. ASSUME NEW p \in Callers, Close(p) \/ ReceiveClosed(p) PROVE HeldInv'
  <2>1. CASE IsConnected
    <3>1. /\ connection \in Connections
          /\ clientEnd' = [clientEnd EXCEPT ![connection] = "closed"]
      BY <1>6, <2>1 DEF Close, ReceiveClosed, StartClose, IsConnected, ClientTypeOK
    <3>2. \A c \in Connections : clientEnd'[c] # "open"
      BY <1>1, <3>1 DEF ClientTypeOK, ServerTypeOK
    <3>3. QED
      BY <3>2, NoneOpenHeld
  <2>2. CASE ~ IsConnected
    <3>1. clientEnd' = clientEnd
      BY <1>6, <2>2 DEF Close, ReceiveClosed, StartClose
    <3>2. QED
      BY <1>2, <2>2, <3>1, NoneOpenHeld
  <2>3. QED
    BY <2>1, <2>2
<1>7. ASSUME NEW c \in Connections, ClientEndCloses(c) PROVE HeldInv'
  <2>1. \A d \in Connections : clientEnd'[d] = "open" => clientEnd[d] = "open"
    BY <1>7 DEF ClientEndCloses, ClientTypeOK, ServerTypeOK
  <2>2. UNCHANGED <<connection, call>>
    BY <1>7 DEF ClientEndCloses
  <2>3. QED
    BY <2>1, <2>2, HeldUntouched
<1>8. CASE UNCHANGED clientVars
  BY <1>8, HeldUntouched DEF clientVars
<1>9. QED
  BY <1>3, <1>4, <1>5, <1>6, <1>7, <1>8 DEF Next, CallStep, ResultLost, vars

\* A client used by one coroutine holds on to every connection that is open at its end,
\* wherever that coroutine is cancelled: none is left behind by close() or connect().
THEOREM SoleCallerLeaksNothing == Spec => [](NotShared => NoConnectionLeaked)
<1>1. Init => HeldInv
  BY DEF Init, ServerInit, HeldInv, NoConnectionLeaked
<1>2. HeldInv => (NotShared => NoConnectionLeaked)
  BY DEF HeldInv
<1>3. QED
  BY <1>1, <1>2, HeldInvStep, TzTypeCorrect, PTL DEF Spec
=============================================================================
