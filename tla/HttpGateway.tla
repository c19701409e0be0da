---------------------------- MODULE HttpGateway ----------------------------
(***************************************************************************)
(* One connection through the HTTP gateway (socket_gateway/http_proxy.rs,  *)
(* simple_gateway.rs): the request head is read, rewritten and written to  *)
(* the server, and from then on bytes are copied both ways until both      *)
(* sides have finished or a connection breaks.                             *)
(*                                                                         *)
(* A stream is a sequence of lines: the request line, header lines, the    *)
(* end of the head (the empty line), and then data.  A path is the         *)
(* sequence of its segments: "/" is <<"">>, "/a/b" is <<"a", "b">> and     *)
(* "/a/" is <<"a", "">>.                                                   *)
(*                                                                         *)
(* A text is a sequence of numbers.  On a connection they are bytes.  The  *)
(* gateway reads each byte as the character of that number, so reading     *)
(* changes no text; it writes the characters in UTF-8, which makes two     *)
(* bytes of each character from 128 to 255.  The ": " between the key and  *)
(* the value of a header belongs to neither.                               *)
(***************************************************************************)
EXTENDS SequencesExt

CONSTANTS
    Text,              \* texts, the empty one among them
    Trim,              \* a text without the white space around it, Unicode's
    Utf8,              \* the bytes that a text is written as
    PathOverrides,     \* the path overrides of configurations
    HeaderOverrides,   \* overide_headers, in the order of its HashMap
    ClientStreams,     \* what clients may send
    ServerStream       \* what the server sends

Empty == ""
Path == Seq(Text)
HeaderLine == [kind : {"header"}, key : Text, value : Text]
EndOfHead == [kind |-> "end"]
Line == [kind : {"request"}, path : Path] \cup HeaderLine \cup {EndOfHead}
          \cup [kind : {"data"}, n : Nat] \cup [kind : {"garbage"}]

\* Nothing else is written like an overridden key, or like the empty text.
ASSUME TextAssumption ==
    /\ Empty \in Text /\ Trim \in [Text -> Text] /\ Utf8 \in [Text -> Text]
    /\ \A t \in Text :
           /\ Utf8[t] = Empty <=> t = Empty
           /\ \A h \in ToSet(HeaderOverrides) : Utf8[t] = Utf8[h.key] => t = h.key

\* The keys of a HashMap differ.
ASSUME GatewayAssumption ==
    /\ PathOverrides \subseteq [mode : {"Replace", "Prefix", "Append"}, path : Path]
    /\ HeaderOverrides \in Seq(HeaderLine)
    /\ \A m, n \in DOMAIN HeaderOverrides :
           HeaderOverrides[m].key = HeaderOverrides[n].key => m = n
    /\ ClientStreams \subseteq Seq(Line) /\ ServerStream \in Seq(Line)

VARIABLES
    override,    \* path_override of the configuration
    stream,      \* what the client is going to send
    sent,        \* how much of it the client has sent,
    read,        \*   and how much of that the gateway has taken
    answered,    \* how much of ServerStream the server has sent,
    relayed,     \*   and how much of that the gateway has passed on
    finished,    \* the sides that have closed their sending half
    shut,        \* the sides whose end the gateway has passed on
    broken,      \* one of the two connections is broken
    phase,       \* where the connection stands
    pending,     \* lines of the head read, or still to be written
    toServer     \* everything written to the server

client == <<stream, sent>>
server == <<answered, relayed>>
vars == <<override, client, read, server, finished, shut, broken, phase, pending, toServer>>

Request(path) == [kind |-> "request", path |-> path]
Header(key, value) == [kind |-> "header", key |-> key, value |-> value]
Data(n) == [kind |-> "data", n |-> n]
Garbage == [kind |-> "garbage"]
Root == <<Empty>>

----------------------------------------------------------------------------
(* Request::new and modify_request.                                        *)

WellFormed(head) ==
    /\ head # <<>> /\ head[1].kind = "request"
    /\ \A n \in 2 .. Len(head) : head[n].kind = "header"

\* The headers as Request::new returns them.
ParsedHeaders(lines) ==
    [n \in DOMAIN lines |-> Header(Trim[lines[n].key], Trim[lines[n].value])]

\* Mutant: "/" is joined like any other path.
PathAfterNoRoot(o, path) ==
    CASE o.mode = "Replace" -> o.path
      [] o.mode = "Prefix" -> o.path \o path
      [] o.mode = "Append" -> path \o o.path

PathAfter(o, path) ==
    IF o.mode = "Replace" \/ path = Root THEN o.path
    ELSE IF o.mode = "Prefix" THEN o.path \o path ELSE path \o o.path

OverriddenKeys == {h.key : h \in ToSet(HeaderOverrides)}

\* Mutant: the overriding headers are added, and none is removed.
HeadersAfterExtendOnly(headers) == headers \o HeaderOverrides

\* The headers that are retained.  Keys are compared as they are written, upper and
\* lower case apart.
NotOverridden(headers) ==
    LET retained[n \in 0 .. Len(headers)] ==
            IF n = 0 THEN <<>>
            ELSE IF headers[n].key \in OverriddenKeys THEN retained[n - 1]
            ELSE Append(retained[n - 1], headers[n])
    IN  retained[Len(headers)]

HeadersAfter(headers) == NotOverridden(headers) \o HeaderOverrides

ModifyRequest(o, head) ==
    <<Request(PathAfter(o, head[1].path))>> \o HeadersAfter(ParsedHeaders(Tail(head)))
        \o <<EndOfHead>>

----------------------------------------------------------------------------
(* The two ends.                                                           *)

Connected == phase \in {"writing", "copying"}

ClientSends ==
    /\ "client" \notin finished /\ sent < Len(stream)
    /\ sent' = sent + 1
    /\ UNCHANGED <<override, stream, read, server, finished, shut, broken, phase, pending, toServer>>

ServerSends ==
    /\ Connected /\ "server" \notin finished /\ answered < Len(ServerStream)
    /\ answered' = answered + 1
    /\ UNCHANGED <<override, client, read, relayed, finished, shut, broken, phase, pending, toServer>>

Finishes(side) ==
    /\ side \notin finished
    /\ side = "server" => Connected
    /\ finished' = finished \cup {side}
    /\ UNCHANGED <<override, client, read, server, shut, broken, phase, pending, toServer>>

Breaks ==
    /\ ~ broken /\ phase \in {"head", "writing", "copying"}
    /\ broken' = TRUE
    /\ UNCHANGED <<override, client, read, server, finished, shut, phase, pending, toServer>>

----------------------------------------------------------------------------
(* start_http_proxy_connection.                                            *)

\* Mutant: a buffered reader takes what has arrived, beyond the end of the head.
ReadHeadBuffered ==
    /\ phase = "head" /\ read < sent
    /\ LET line == stream[read + 1] IN
          IF line = EndOfHead
          THEN phase' = "parsing" /\ read' = sent /\ UNCHANGED pending
          ELSE pending' = Append(pending, line) /\ read' = read + 1 /\ UNCHANGED phase
    /\ UNCHANGED <<override, client, server, finished, shut, broken, toServer>>

\* Mutant: the head is passed on while it is read.
ReadHeadForwarding ==
    /\ phase = "head" /\ read < sent
    /\ read' = read + 1
    /\ LET line == stream[read + 1] IN
          /\ toServer' = Append(toServer, line)
          /\ IF line = EndOfHead
             THEN phase' = "parsing" /\ UNCHANGED pending
             ELSE pending' = Append(pending, line) /\ UNCHANGED phase
    /\ UNCHANGED <<override, client, server, finished, shut, broken>>

\* Byte by byte up to the empty line, and not beyond it.
ReadHead ==
    /\ phase = "head" /\ read < sent
    /\ read' = read + 1
    /\ LET line == stream[read + 1] IN
          IF line = EndOfHead
          THEN phase' = "parsing" /\ UNCHANGED pending
          ELSE pending' = Append(pending, line) /\ UNCHANGED phase
    /\ UNCHANGED <<override, client, server, finished, shut, broken, toServer>>

GiveUp ==
    /\ \/ phase = "head" /\ (broken \/ ("client" \in finished /\ read = sent))
       \/ phase = "parsing" /\ ~ WellFormed(pending)
    /\ phase' = "given up"
    /\ UNCHANGED <<override, client, read, server, finished, shut, broken, pending, toServer>>

\* new_connection: the request is modified and the server connected, or not.
NewConnection ==
    /\ phase = "parsing" /\ WellFormed(pending)
    /\ \/ phase' = "writing" /\ pending' = ModifyRequest(override, pending)
       \/ phase' = "given up" /\ UNCHANGED pending
    /\ UNCHANGED <<override, client, read, server, finished, shut, broken, toServer>>

\* A line of the head as the server reads it.
Written(line) ==
    CASE line.kind = "request" -> Request([n \in DOMAIN line.path |-> Utf8[line.path[n]]])
      [] line.kind = "header" -> Header(Utf8[line.key], Utf8[line.value])
      [] OTHER -> line

WriteToStream ==
    /\ phase = "writing" /\ pending # <<>>
    /\ toServer' = Append(toServer, Written(Head(pending)))
    /\ pending' = Tail(pending)
    /\ UNCHANGED <<override, client, read, server, finished, shut, broken, phase>>

StartCopy ==
    /\ phase = "writing" /\ pending = <<>>
    /\ phase' = "copying"
    /\ UNCHANGED <<override, client, read, server, finished, shut, broken, pending, toServer>>

CopyToServer ==
    /\ phase = "copying" /\ read < sent
    /\ read' = read + 1
    /\ toServer' = Append(toServer, stream[read + 1])
    /\ UNCHANGED <<override, client, server, finished, shut, broken, phase, pending>>

CopyToClient ==
    /\ phase = "copying" /\ relayed < answered
    /\ relayed' = relayed + 1
    /\ UNCHANGED <<override, client, read, answered, finished, shut, broken, phase, pending, toServer>>

\* A side has finished and everything it sent is through.
ShutDown(side) ==
    /\ phase = "copying" /\ side \in finished \ shut
    /\ IF side = "client" THEN read = sent ELSE relayed = answered
    /\ shut' = shut \cup {side}
    /\ UNCHANGED <<override, client, read, server, finished, broken, phase, pending, toServer>>

\* Mutant: the copy ends with the first of its directions.
CopyEndsOneWay ==
    /\ \/ phase = "copying" /\ shut # {}
       \/ Connected /\ broken
    /\ phase' = "closing"
    /\ UNCHANGED <<override, client, read, server, finished, shut, broken, pending, toServer>>

\* copy_bidirectional waits for both directions; an error ends it, or the writing.
CopyEnds ==
    /\ \/ phase = "copying" /\ shut = {"client", "server"}
       \/ Connected /\ broken
    /\ phase' = "closing"
    /\ UNCHANGED <<override, client, read, server, finished, shut, broken, pending, toServer>>

\* Mutant: on_close runs after a copy without error only.
OnCloseOfGoodOnes ==
    /\ phase = "closing" /\ ~ broken
    /\ phase' = "done"
    /\ UNCHANGED <<override, client, read, server, finished, shut, broken, pending, toServer>>

OnClose ==
    /\ phase = "closing"
    /\ phase' = "done"
    /\ UNCHANGED <<override, client, read, server, finished, shut, broken, pending, toServer>>

GatewayStep ==
    \/ ReadHead \/ GiveUp \/ NewConnection \/ WriteToStream \/ StartCopy
    \/ CopyToServer \/ CopyToClient \/ ShutDown("client") \/ ShutDown("server")
    \/ CopyEnds \/ OnClose

Init ==
    /\ override \in PathOverrides /\ stream \in ClientStreams
    /\ sent = 0 /\ read = 0 /\ answered = 0 /\ relayed = 0
    /\ finished = {} /\ shut = {} /\ broken = FALSE
    /\ phase = "head" /\ pending = <<>> /\ toServer = <<>>

Next ==
    \/ ClientSends \/ ServerSends \/ Finishes("client") \/ Finishes("server") \/ Breaks
    \/ GatewayStep

\* The runtime runs the gateway's tasks; the two ends do what they like.
Spec == Init /\ [][Next]_vars /\ WF_vars(GatewayStep)

----------------------------------------------------------------------------
(* Properties.                                                             *)

(* The counters and the phases fit together: nothing is taken that was not *)
(* sent, and no end is passed on before the copying has begun.             *)
TypeOK ==
    /\ read \in 0 .. sent /\ sent \in 0 .. Len(stream)
    /\ relayed \in 0 .. answered /\ answered \in 0 .. Len(ServerStream)
    /\ shut \subseteq finished /\ finished \subseteq {"client", "server"}
    /\ phase \in {"head", "parsing", "writing", "copying", "closing", "done", "given up"}
    /\ shut # {} => phase \in {"copying", "closing", "done"}
    /\ phase \in {"head", "parsing"} => toServer = <<>> /\ answered = 0

\* Where the head of a stream ends, and its lines but for the empty one.
EndOf(lines) ==
    CHOOSE n \in 1 .. Len(lines) :
        lines[n] = EndOfHead /\ \A j \in 1 .. n - 1 : lines[j] # EndOfHead
HeadOf(lines) == SubSeq(lines, 1, EndOf(lines) - 1)

\* What the server is to see of a stream: the head rewritten, the rest as it is.
Encoded(lines) == [n \in DOMAIN lines |-> Written(lines[n])]
Rewritten(lines) ==
    Encoded(ModifyRequest(override, HeadOf(lines)))
        \o SubSeq(lines, EndOf(lines) + 1, Len(lines))

(* The server receives the rewritten head and then what the client sent    *)
(* after its head, complete and in order, even if it arrived together with *)
(* the head or while the connection to the server was being set up         *)
(* (http_proxy.rs:140-153).                                                *)
StreamIsKept == toServer # <<>> => IsPrefix(toServer, Rewritten(stream))

(* A session whose connections did not break ends when everything that     *)
(* either side sent has reached the other one, also when one of them has   *)
(* finished long before (http_proxy.rs:153-158).                           *)
NothingIsCutOff ==
    phase \in {"closing", "done"} /\ ~ broken =>
        toServer = Rewritten(SubSeq(stream, 1, sent)) /\ relayed = answered

\* ASCII without white space around it.
Plain(text) == Trim[text] = text /\ Utf8[text] = text

(* The server sees each overriding header once, with the configured key    *)
(* and value, and no other header with that key, however the client had    *)
(* padded it.  If the client's headers are plain, the server sees those    *)
(* that are not overridden, and before the overriding ones, as the client  *)
(* sent them (simple_gateway.rs:68-73, http_proxy.rs:17-22, 70-85).        *)
HeadersAreOverridden ==
    phase = "copying" =>
        LET seen == Tail(HeadOf(toServer))
            asked == Tail(HeadOf(stream))
        IN  /\ \A h \in ToSet(HeaderOverrides) :
                   \E n \in DOMAIN seen :
                       /\ seen[n] = Written(h)
                       /\ \A j \in DOMAIN seen \ {n} : seen[j].key # Utf8[h.key]
            /\ (\A h \in ToSet(asked) : Plain(h.key) /\ Plain(h.value)) =>
                   SubSeq(seen, 1, Len(seen) - Len(HeaderOverrides)) = NotOverridden(asked)

Clean(path) == path = Root \/ Empty \notin ToSet(path)

(* A path and an override that does not end in "/" join without "//" and   *)
(* without a trailing "/"; "/" itself may replace a path (the examples at  *)
(* simple_gateway.rs:13-28).                                               *)
PathsStayClean ==
    LET joinable == Clean(override.path) /\ (override.path = Root => override.mode = "Replace")
    IN  toServer # <<>> /\ joinable /\ Clean(stream[1].path) => Clean(toServer[1].path)

(* When both sides have finished or a connection has broken, the gateway   *)
(* is through with the connection, and on_close has run if there was a     *)
(* session (http_proxy.rs:150-166).                                        *)
SessionsEnd ==
    broken \/ finished = {"client", "server"} ~> phase \in {"done", "given up"}
============================================================================
