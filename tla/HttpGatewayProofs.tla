-------------------------- MODULE HttpGatewayProofs --------------------------
(***************************************************************************)
(* Proofs about one connection through the gateway, for any streams, any   *)
(* overrides and any number of overriding headers.                         *)
(***************************************************************************)
EXTENDS HttpGateway, SequenceLemmas

----------------------------------------------------------------------------
(* The headers that are retained.                                          *)

\* f is the recursive function that NotOverridden defines.
Retain(h, f, n) ==
    IF h[n].key \in OverriddenKeys THEN f[n - 1] ELSE Append(f[n - 1], h[n])
Retained(h, f, m) == f[0] = <<>> /\ \A n \in 1 .. m : f[n] = Retain(h, f, n)

LEMMA RetainedExists ==
    ASSUME NEW V, NEW h \in Seq(V)
    PROVE  \E f \in [0 .. Len(h) -> Seq(V)] : Retained(h, f, Len(h))
<1> DEFINE S == {m \in Nat : m <= Len(h) => \E f \in [0 .. m -> Seq(V)] : Retained(h, f, m)}
<1>1. 0 \in S
  <2> DEFINE f == [n \in 0 .. 0 |-> <<>>]
  <2>1. f \in [0 .. 0 -> Seq(V)] /\ Retained(h, f, 0)
    BY EmptySeq DEF Retained
  <2>2. QED
    BY <2>1
<1>2. ASSUME NEW m \in S PROVE m + 1 \in S
  <2>1. m \in Nat
    OBVIOUS
  <2>2. SUFFICES ASSUME m + 1 <= Len(h)
                 PROVE  \E f \in [0 .. m + 1 -> Seq(V)] : Retained(h, f, m + 1)
    BY <2>1
  <2>3. PICK g \in [0 .. m -> Seq(V)] : Retained(h, g, m)
    BY <2>1, <2>2, LenProperties
  <2> DEFINE next == IF h[m + 1].key \in OverriddenKeys THEN g[m] ELSE Append(g[m], h[m + 1])
             f == [n \in 0 .. m + 1 |-> IF n = m + 1 THEN next ELSE g[n]]
  <2>4. next \in Seq(V)
    <3>1. h[m + 1] \in V /\ g[m] \in Seq(V)
      BY <2>1, <2>2, ElementOfSeq, LenProperties
    <3>2. QED
      BY <3>1, AppendProperties
  <2> HIDE DEF next
  <2>5. f \in [0 .. m + 1 -> Seq(V)]
    BY <2>1, <2>4
  <2>6. f[0] = g[0] /\ f[m + 1] = next /\ \A n \in 0 .. m : f[n] = g[n]
    BY <2>1
  <2> HIDE DEF f
  <2>7. ASSUME NEW n \in 1 .. m + 1 PROVE f[n] = Retain(h, f, n)
    <3>1. CASE n = m + 1
      BY <2>1, <2>6, <3>1 DEF Retain, next
    <3>2. CASE n \in 1 .. m
      <4>1. f[n] = g[n] /\ f[n - 1] = g[n - 1]
        BY <2>1, <2>6, <3>2
      <4>2. g[n] = Retain(h, g, n)
        BY <2>3, <3>2 DEF Retained
      <4>3. QED
        BY <4>1, <4>2 DEF Retain
    <3>3. QED
      BY <2>1, <3>1, <3>2
  <2>8. QED
    BY <2>3, <2>5, <2>6, <2>7 DEF Retained
<1> HIDE DEF S
<1>3. S = Nat
  <2>1. S \in SUBSET Nat
    BY DEF S
  <2>2. QED
    BY <1>1, <1>2, <2>1, SetInduction
<1>4. QED
  BY <1>3, LenProperties DEF S

\* Two sequences that agree on their first m headers retain the same of them.
LEMMA RetainedUnique ==
    ASSUME NEW m \in Nat, NEW g, NEW h, NEW f, NEW k, Retained(g, f, m), Retained(h, k, m),
           \A n \in 1 .. m : g[n] = h[n]
    PROVE  f[m] = k[m]
<1> DEFINE S == {n \in Nat : n <= m => f[n] = k[n]}
<1>1. 0 \in S
  BY DEF Retained
<1>2. ASSUME NEW n \in S PROVE n + 1 \in S
  <2>1. CASE n + 1 <= m
    <3>1. f[n] = k[n] /\ g[n + 1] = h[n + 1] /\ n + 1 \in 1 .. m /\ (n + 1) - 1 = n
      BY <2>1
    <3>2. f[n + 1] = Retain(g, f, n + 1) /\ k[n + 1] = Retain(h, k, n + 1)
      BY <3>1 DEF Retained
    <3>3. f[n + 1] = k[n + 1]
      BY <3>1, <3>2 DEF Retain
    <3>4. QED
      BY <3>3
  <2>2. CASE ~ (n + 1 <= m)
    BY <2>2
  <2>3. QED
    BY <2>1, <2>2
<1> HIDE DEF S
<1>3. S \in SUBSET Nat
  BY DEF S
<1>4. S = Nat
  BY <1>1, <1>2, <1>3, SetInduction
<1>5. QED
  BY <1>4 DEF S

\* What NotOverridden returns is the last value of any such function.
LEMMA NotOverriddenIs ==
    ASSUME NEW V, NEW h \in Seq(V), NEW f, Retained(h, f, Len(h))
    PROVE  NotOverridden(h) = f[Len(h)] /\ NotOverridden(h) \in Seq(V)
<1> DEFINE m == Len(h)
           Defines(g) == g = [n \in 0 .. m |-> IF n = 0 THEN <<>>
                                  ELSE IF h[n].key \in OverriddenKeys THEN g[n - 1]
                                  ELSE Append(g[n - 1], h[n])]
           retained == CHOOSE g : Defines(g)
<1>1. m \in Nat
  BY LenProperties
<1>2. PICK g \in [0 .. m -> Seq(V)] : Retained(h, g, m)
  BY RetainedExists
<1>3. Defines(g)
  <2> DEFINE e == [n \in 0 .. m |-> IF n = 0 THEN <<>>
                                  ELSE IF h[n].key \in OverriddenKeys THEN g[n - 1]
                                  ELSE Append(g[n - 1], h[n])]
  <2>1. ASSUME NEW n \in 0 .. m PROVE g[n] = e[n]
    <3>1. CASE n = 0
      BY <1>2, <3>1 DEF Retained
    <3>2. CASE n # 0
      <4>1. n \in 1 .. m
        BY <1>1, <3>2
      <4>2. g[n] = Retain(h, g, n)
        BY <1>2, <4>1 DEF Retained
      <4>3. QED
        BY <3>2, <4>2 DEF Retain
    <3>3. QED
      BY <3>1, <3>2
  <2>2. g = [n \in 0 .. m |-> g[n]]
    BY <1>2
  <2>3. QED
    BY <2>1, <2>2
<1>4. Defines(retained)
  BY <1>3, Zenon
<1> HIDE DEF m
<1>5. Retained(h, retained, m)
  <2> HIDE DEF retained
  <2>1. \A n \in 0 .. m : retained[n] = IF n = 0 THEN <<>>
                                         ELSE IF h[n].key \in OverriddenKeys THEN retained[n - 1]
                                         ELSE Append(retained[n - 1], h[n])
    BY <1>4
  <2>2. retained[0] = <<>>
    BY <1>1, <2>1
  <2>3. ASSUME NEW n \in 1 .. m PROVE retained[n] = Retain(h, retained, n)
    BY <1>1, <2>1 DEF Retain
  <2>4. QED
    BY <2>2, <2>3 DEF Retained
<1>6. NotOverridden(h) = retained[m]
  BY DEF NotOverridden, m
<1> HIDE DEF retained, Defines
<1>7. \A k : Retained(h, k, m) => retained[m] = k[m]
  BY <1>1, <1>5, RetainedUnique
<1>8. g[m] \in Seq(V)
  BY <1>1, <1>2
<1>9. QED
  BY <1>2, <1>6, <1>7, <1>8 DEF m

LEMMA NotOverriddenEmpty == NotOverridden(<<>>) = <<>>
<1>1. <<>> \in Seq({}) /\ Len(<<>>) = 0
  BY EmptySeq
<1>2. PICK f : Retained(<<>>, f, Len(<<>>))
  BY <1>1, RetainedExists
<1>3. QED
  BY <1>1, <1>2, NotOverriddenIs DEF Retained

LEMMA NotOverriddenAppend ==
    ASSUME NEW V, NEW h \in Seq(V), NEW e \in V
    PROVE  NotOverridden(Append(h, e)) = IF e.key \in OverriddenKeys THEN NotOverridden(h)
                                         ELSE Append(NotOverridden(h), e)
<1> DEFINE m == Len(h)
           g == Append(h, e)
<1>1. /\ m \in Nat /\ g \in Seq(V) /\ Len(g) = m + 1
      /\ g[m + 1] = e /\ \A n \in 1 .. m : g[n] = h[n]
  BY LenProperties, AppendProperties
<1> HIDE DEF g
<1>2. PICK f : Retained(h, f, m)
  BY RetainedExists
<1>3. PICK k : Retained(g, k, m + 1)
  BY <1>1, RetainedExists
<1>4. Retained(g, k, m)
  BY <1>1, <1>3 DEF Retained
<1>5. k[m] = f[m]
  BY <1>1, <1>2, <1>4, RetainedUnique
<1>6. k[m + 1] = Retain(g, k, m + 1)
  BY <1>1, <1>3 DEF Retained
<1>7. NotOverridden(h) = f[m] /\ NotOverridden(g) = k[m + 1]
  BY <1>1, <1>2, <1>3, NotOverriddenIs
<1>8. QED
  BY <1>1, <1>5, <1>6, <1>7 DEF Retain, g

\* What is retained of two lists one after the other.
LEMMA NotOverriddenConcat ==
    ASSUME NEW V, NEW s \in Seq(V), NEW t \in Seq(V)
    PROVE  NotOverridden(s \o t) = NotOverridden(s) \o NotOverridden(t)
<1> DEFINE S == {u \in Seq(V) : NotOverridden(s \o u) = NotOverridden(s) \o NotOverridden(u)}
<1>0. \A u \in Seq(V) : NotOverridden(u) \in Seq(V)
  BY RetainedExists, NotOverriddenIs
<1>1. <<>> \in S
  BY <1>0, NotOverriddenEmpty, EmptySeq, ConcatEmptySeq
<1>2. ASSUME NEW u \in Seq(V), u \in S, NEW e \in V PROVE Append(u, e) \in S
  <2>1. s \o Append(u, e) = Append(s \o u, e) /\ s \o u \in Seq(V) /\ Append(u, e) \in Seq(V)
    BY AppendToConcat, ConcatProperties, AppendProperties
  <2>2. NotOverridden(s \o u) = NotOverridden(s) \o NotOverridden(u)
    BY <1>2
  <2>3. CASE e.key \in OverriddenKeys
    BY <2>1, <2>2, <2>3, NotOverriddenAppend
  <2>4. CASE e.key \notin OverriddenKeys
    <3>1. NotOverridden(s) \o Append(NotOverridden(u), e)
              = Append(NotOverridden(s) \o NotOverridden(u), e)
      BY <1>0, AppendToConcat
    <3>2. /\ NotOverridden(Append(s \o u, e)) = Append(NotOverridden(s \o u), e)
          /\ NotOverridden(Append(u, e)) = Append(NotOverridden(u), e)
      BY <2>1, <2>4, NotOverriddenAppend
    <3>3. QED
      BY <2>1, <2>2, <3>1, <3>2
  <2>5. QED
    BY <2>3, <2>4
<1> HIDE DEF S
<1>3. \A u \in Seq(V) : u \in S
  BY <1>1, <1>2, SequenceInduction
<1>4. QED
  BY <1>3 DEF S

\* What is retained is not overridden; a list without overridden headers is retained as
\* it is, and nothing is of a list of overridden ones.
LEMMA RetainedAreNotOverridden ==
    ASSUME NEW V, NEW h \in Seq(V)
    PROVE  NotOverridden(h) \in Seq({e \in V : e.key \notin OverriddenKeys})
<1> DEFINE W == {e \in V : e.key \notin OverriddenKeys}
           S == {u \in Seq(V) : NotOverridden(u) \in Seq(W)}
<1>1. <<>> \in S
  BY NotOverriddenEmpty, EmptySeq
<1>2. ASSUME NEW u \in Seq(V), u \in S, NEW e \in V PROVE Append(u, e) \in S
  <2>1. Append(u, e) \in Seq(V) /\ NotOverridden(u) \in Seq(W)
    BY <1>2, AppendProperties
  <2>2. CASE e.key \in OverriddenKeys
    BY <2>1, <2>2, NotOverriddenAppend
  <2>3. CASE e \in W
    <3> HIDE DEF W
    <3>1. Append(NotOverridden(u), e) \in Seq(W)
      BY <2>1, <2>3, AppendProperties
    <3>2. e.key \notin OverriddenKeys
      BY <2>3 DEF W
    <3>3. NotOverridden(Append(u, e)) = Append(NotOverridden(u), e)
      BY <3>2, NotOverriddenAppend
    <3>4. QED
      BY <2>1, <3>1, <3>3
  <2>4. QED
    BY <2>2, <2>3
<1> HIDE DEF S
<1>3. \A u \in Seq(V) : u \in S
  BY <1>1, <1>2, SequenceInduction
<1>4. QED
  BY <1>3 DEF S

LEMMA RetainsAll ==
    ASSUME NEW V, \A e \in V : e.key \notin OverriddenKeys, NEW h \in Seq(V)
    PROVE  NotOverridden(h) = h
<1> DEFINE S == {u \in Seq(V) : NotOverridden(u) = u}
<1>1. <<>> \in S
  BY NotOverriddenEmpty, EmptySeq
<1>2. ASSUME NEW u \in Seq(V), u \in S, NEW e \in V PROVE Append(u, e) \in S
  BY <1>2, NotOverriddenAppend, AppendProperties
<1> HIDE DEF S
<1>3. \A u \in Seq(V) : u \in S
  BY <1>1, <1>2, SequenceInduction
<1>4. QED
  BY <1>3 DEF S

LEMMA RetainsNone ==
    ASSUME NEW V, \A e \in V : e.key \in OverriddenKeys, NEW h \in Seq(V)
    PROVE  NotOverridden(h) = <<>>
<1> DEFINE S == {u \in Seq(V) : NotOverridden(u) = <<>>}
<1>1. <<>> \in S
  BY NotOverriddenEmpty, EmptySeq
<1>2. ASSUME NEW u \in Seq(V), u \in S, NEW e \in V PROVE Append(u, e) \in S
  BY <1>2, NotOverriddenAppend, AppendProperties
<1> HIDE DEF S
<1>3. \A u \in Seq(V) : u \in S
  BY <1>1, <1>2, SequenceInduction
<1>4. QED
  BY <1>3 DEF S
----------------------------------------------------------------------------
(* Types.                                                                  *)

\* The configuration and the client's plans stay what they are.
Given == override \in PathOverrides /\ stream \in ClientStreams

LEMMA GivenTypes ==
    ASSUME Given
    PROVE  /\ stream \in Seq(Line) /\ Len(stream) \in Nat /\ Len(ServerStream) \in Nat
           /\ override.path \in Path /\ override.mode \in {"Replace", "Prefix", "Append"}
BY GatewayAssumption, LenProperties DEF Given

\* The two halves of TypeOK: how far everybody has got, and what there is when.
Counters ==
    /\ sent \in 0 .. Len(stream) /\ read \in 0 .. sent
    /\ answered \in 0 .. Len(ServerStream) /\ relayed \in 0 .. answered
Phases ==
    /\ shut \subseteq finished /\ finished \subseteq {"client", "server"}
    /\ phase \in {"head", "parsing", "writing", "copying", "closing", "done", "given up"}
    /\ shut # {} => phase \in {"copying", "closing", "done"}
    /\ phase \in {"head", "parsing"} => toServer = <<>> /\ answered = 0

LEMMA TypeParts == TypeOK <=> Counters /\ Phases
BY DEF TypeOK, Counters, Phases

LEMMA CountersStep == Given /\ Counters /\ [Next]_vars => Given' /\ Counters'
<1> SUFFICES ASSUME Given, Counters, [Next]_vars PROVE Given' /\ Counters'
  OBVIOUS
<1>0. Len(stream) \in Nat /\ Len(ServerStream) \in Nat
  BY GivenTypes
<1>1. Given' /\ stream' = stream
  BY DEF Given, Next, GatewayStep, vars, client, ClientSends, ServerSends, Finishes, Breaks,
         ReadHead, GiveUp, NewConnection, WriteToStream, StartCopy, CopyToServer,
         CopyToClient, ShutDown, CopyEnds, OnClose
<1>2. CASE UNCHANGED <<sent, read, answered, relayed>>
  BY <1>1, <1>2 DEF Counters
<1>3. CASE ClientSends
  BY <1>0, <1>1, <1>3 DEF ClientSends, server, Counters
<1>4. CASE ServerSends
  BY <1>0, <1>1, <1>4 DEF ServerSends, client, Counters
<1>5. CASE ReadHead \/ CopyToServer
  BY <1>0, <1>1, <1>5 DEF ReadHead, CopyToServer, client, server, Counters
<1>6. CASE CopyToClient
  BY <1>0, <1>1, <1>6 DEF CopyToClient, client, Counters
<1>7. QED
  BY <1>1, <1>2, <1>3, <1>4, <1>5, <1>6
     DEF Next, GatewayStep, vars, client, server, Finishes, Breaks, GiveUp, NewConnection,
         WriteToStream, StartCopy, ShutDown, CopyEnds, OnClose

LEMMA PhasesStep == Phases /\ [Next]_vars => Phases'
<1> SUFFICES ASSUME Phases, [Next]_vars PROVE Phases'
  OBVIOUS
<1> USE DEF Phases
<1>1. CASE ClientSends \/ Breaks
  BY <1>1 DEF ClientSends, Breaks, server
<1>2. CASE ServerSends
  BY <1>2 DEF ServerSends, Connected
<1>3. ASSUME NEW side \in {"client", "server"}, Finishes(side) PROVE Phases'
  BY <1>3 DEF Finishes, server
<1>4. CASE ReadHead
  BY <1>4 DEF ReadHead, server
<1>5. CASE GiveUp \/ NewConnection
  BY <1>5 DEF GiveUp, NewConnection, server
<1>6. CASE WriteToStream \/ StartCopy \/ CopyEnds \/ OnClose
  BY <1>6 DEF WriteToStream, StartCopy, CopyEnds, OnClose, Connected, server
<1>7. CASE CopyToServer \/ CopyToClient
  BY <1>7 DEF CopyToServer, CopyToClient, server
<1>8. ASSUME NEW side \in {"client", "server"}, ShutDown(side) PROVE Phases'
  BY <1>8 DEF ShutDown, server
<1>9. CASE UNCHANGED vars
  BY <1>9 DEF vars, server
<1>10. QED
  BY <1>1, <1>2, <1>3, <1>4, <1>5, <1>6, <1>7, <1>8, <1>9 DEF Next, GatewayStep

\* The counters, the sides and the phases of a connection always fit together.
THEOREM GatewayTypeCorrect == Spec => [](Given /\ TypeOK)
<1>1. Init => Given /\ Counters /\ Phases
  <2> SUFFICES ASSUME Init PROVE Given /\ Counters /\ Phases
    OBVIOUS
  <2>1. Given
    BY DEF Init, Given
  <2>2. Counters
    BY <2>1, GivenTypes DEF Init, Counters
  <2>3. Phases
    BY DEF Init, Phases
  <2>4. QED
    BY <2>1, <2>2, <2>3
<1>2. Given /\ Counters /\ Phases /\ [Next]_vars => Given' /\ Counters' /\ Phases'
  BY CountersStep, PhasesStep
<1>3. QED
  BY <1>1, <1>2, TypeParts, PTL DEF Spec

----------------------------------------------------------------------------
(* What the server gets.                                                   *)

\* The first end of a head among these lines is at n.
EndsAt(lines, n) ==
    /\ n \in 1 .. Len(lines) /\ lines[n] = EndOfHead
    /\ \A j \in 1 .. n - 1 : lines[j] # EndOfHead

\* Until the head is rewritten, what has been read of the stream is pending.
HeadIsRead ==
    /\ phase = "head" =>
          pending = SubSeq(stream, 1, read) /\ \A n \in 1 .. read : stream[n] # EndOfHead
    /\ phase = "parsing" => EndsAt(stream, read) /\ pending = SubSeq(stream, 1, read - 1)
    /\ phase \in {"head", "parsing", "given up"} => toServer = <<>>

NewHead == Encoded(ModifyRequest(override, HeadOf(stream)))

\* From then on, what is written and what is pending, once it is written, are the rewritten
\* head and what was read behind it.
HeadIsRewritten ==
    phase \in {"writing", "copying", "closing", "done"} =>
        LET end == EndOf(stream) IN
        /\ EndsAt(stream, end) /\ end <= read /\ WellFormed(HeadOf(stream))
        /\ toServer \o Encoded(pending) = NewHead \o SubSeq(stream, end + 1, read)
        /\ phase = "writing" => read = end
        /\ phase = "copying" => pending = <<>>
        /\ phase \in {"closing", "done"} /\ ~ broken =>
              pending = <<>> /\ shut = {"client", "server"}

\* An end is passed on behind everything that side has sent, and nothing follows it.
EndsAreLast ==
    /\ "client" \in shut => read = sent
    /\ "server" \in shut => relayed = answered

GatewayInv ==
    /\ pending \in Seq(Line) /\ toServer \in Seq(Line)
    /\ HeadIsRead /\ HeadIsRewritten /\ EndsAreLast

LEMMA EndsAtUnique ==
    ASSUME NEW lines, Len(lines) \in Nat, NEW n, EndsAt(lines, n)
    PROVE  EndOf(lines) = n /\ HeadOf(lines) = SubSeq(lines, 1, n - 1)
<1>1. \A k \in 1 .. Len(lines) : EndsAt(lines, k) => k = n
  BY DEF EndsAt
<1>2. EndsAt(lines, EndOf(lines)) /\ EndOf(lines) \in 1 .. Len(lines)
  BY DEF EndsAt, EndOf
<1>3. QED
  BY <1>1, <1>2 DEF HeadOf

LEMMA OneElement ==
    ASSUME NEW S, NEW e \in S
    PROVE  <<e>> \in Seq(S) /\ Len(<<e>>) = 1 /\ <<e>>[1] = e
BY Singleton

\* Parsing and writing act line by line.
LEMMA EachOf ==
    ASSUME NEW V, NEW W, NEW s \in Seq(V), NEW f, f = [n \in DOMAIN s |-> f[n]],
           \A n \in 1 .. Len(s) : f[n] \in W
    PROVE  f \in Seq(W) /\ Len(f) = Len(s)
<1>1. DOMAIN s = 1 .. Len(s) /\ Len(s) \in Nat
  BY LenProperties
<1>2. f \in [1 .. Len(s) -> W]
  BY <1>1
<1>3. QED
  BY <1>1, <1>2, LenProperties

LEMMA WrittenTypes ==
    /\ \A line \in Line : Written(line) \in Line
    /\ \A line \in HeaderLine :
          Written(line) = Header(Utf8[line.key], Utf8[line.value]) /\ Written(line) \in HeaderLine
    /\ \A path \in Path :
          /\ Written(Request(path)).kind = "request"
          /\ Written(Request(path)).path = [n \in DOMAIN path |-> Utf8[path[n]]]
    /\ Written(EndOfHead) = EndOfHead
<1>1. ASSUME NEW path \in Path
      PROVE  /\ [n \in DOMAIN path |-> Utf8[path[n]]] \in Path
             /\ Written(Request(path)) = Request([n \in DOMAIN path |-> Utf8[path[n]]])
  <2> DEFINE f == [n \in DOMAIN path |-> Utf8[path[n]]]
  <2>1. path \in Seq(Text) /\ \A n \in 1 .. Len(path) : f[n] \in Text
    BY ElementOfSeq, LenProperties, TextAssumption DEF Path
  <2>2. f = [n \in DOMAIN path |-> f[n]]
    OBVIOUS
  <2> HIDE DEF f
  <2>3. f \in Seq(Text)
    BY <2>1, <2>2, EachOf
  <2>4. QED
    BY <2>3 DEF f, Path, Written, Request
<1>0. ASSUME NEW path \in Path
      PROVE  /\ Written(Request(path)).kind = "request"
             /\ Written(Request(path)).path = [n \in DOMAIN path |-> Utf8[path[n]]]
  <2> DEFINE f == [n \in DOMAIN path |-> Utf8[path[n]]]
  <2>1. Written(Request(path)) = Request(f)
    BY <1>1
  <2> HIDE DEF f
  <2>2. Request(f).kind = "request" /\ Request(f).path = f
    BY DEF Request
  <2>3. QED
    BY <2>1, <2>2 DEF f
<1>2. ASSUME NEW line \in HeaderLine
      PROVE  Written(line) = Header(Utf8[line.key], Utf8[line.value]) /\ Written(line) \in HeaderLine
  BY TextAssumption DEF HeaderLine, Written, Header
<1>3. Written(EndOfHead) = EndOfHead
  BY DEF Written, EndOfHead
<1>4. ASSUME NEW line \in Line PROVE Written(line) \in Line
  <2>1. CASE line \in [kind : {"request"}, path : Path]
    <3>1. line = Request(line.path) /\ line.path \in Path
      BY <2>1 DEF Request
    <3>2. PICK path \in Path : Written(line) = Request(path)
      BY <1>1, <3>1
    <3>3. QED
      BY <3>2 DEF Line, Request
  <2>2. CASE line \in HeaderLine
    BY <1>2, <2>2 DEF Line
  <2>3. CASE line.kind \notin {"request", "header"}
    BY <2>3 DEF Written
  <2>4. line \in [kind : {"request"}, path : Path] \/ line \in HeaderLine
            \/ line.kind \notin {"request", "header"}
    BY DEF Line, EndOfHead
  <2>5. QED
    BY <2>1, <2>2, <2>3, <2>4
<1>5. QED
  BY <1>0, <1>2, <1>3, <1>4

LEMMA EncodedTypes ==
    ASSUME NEW W, \A line \in W : Written(line) \in W, NEW s \in Seq(W)
    PROVE  /\ Encoded(s) \in Seq(W) /\ Len(Encoded(s)) = Len(s)
           /\ \A n \in 1 .. Len(s) : Encoded(s)[n] = Written(s[n])
<1> DEFINE f == Encoded(s)
<1>1. f = [n \in DOMAIN s |-> f[n]] /\ \A n \in 1 .. Len(s) : f[n] = Written(s[n])
  BY LenProperties DEF Encoded
<1>2. \A n \in 1 .. Len(s) : f[n] \in W
  BY <1>1, ElementOfSeq
<1> HIDE DEF f
<1>3. f \in Seq(W) /\ Len(f) = Len(s)
  BY <1>1, <1>2, EachOf
<1>4. QED
  BY <1>1, <1>3 DEF f

LEMMA EncodedEmpty == Encoded(<<>>) = <<>>
<1>1. <<>> \in Seq(Line) /\ Len(<<>>) = 0
  BY EmptySeq
<1>2. Encoded(<<>>) \in Seq(Line) /\ Len(Encoded(<<>>)) = 0
  BY <1>1, WrittenTypes, EncodedTypes
<1>3. QED
  BY <1>2, EmptySeq

LEMMA EncodedConcat ==
    ASSUME NEW W, \A line \in W : Written(line) \in W, NEW s \in Seq(W), NEW t \in Seq(W)
    PROVE  Encoded(s \o t) = Encoded(s) \o Encoded(t)
<1>1. /\ s \o t \in Seq(W) /\ Len(s \o t) = Len(s) + Len(t) /\ Len(s) \in Nat /\ Len(t) \in Nat
      /\ \A i \in 1 .. Len(s) + Len(t) :
            (s \o t)[i] = IF i <= Len(s) THEN s[i] ELSE t[i - Len(s)]
  BY ConcatProperties, LenProperties
<1>2. /\ Encoded(s \o t) \in Seq(W) /\ Len(Encoded(s \o t)) = Len(s) + Len(t)
      /\ \A i \in 1 .. Len(s) + Len(t) : Encoded(s \o t)[i] = Written((s \o t)[i])
  BY <1>1, EncodedTypes
<1>3. /\ Encoded(s) \in Seq(W) /\ Len(Encoded(s)) = Len(s)
      /\ \A i \in 1 .. Len(s) : Encoded(s)[i] = Written(s[i])
      /\ Encoded(t) \in Seq(W) /\ Len(Encoded(t)) = Len(t)
      /\ \A i \in 1 .. Len(t) : Encoded(t)[i] = Written(t[i])
  BY EncodedTypes
<1> DEFINE es == Encoded(s)
           et == Encoded(t)
<1>4. /\ es \o et \in Seq(W) /\ Len(es \o et) = Len(s) + Len(t)
      /\ \A i \in 1 .. Len(s) + Len(t) :
            (es \o et)[i] = IF i <= Len(s) THEN es[i] ELSE et[i - Len(s)]
  <2>1. es \in Seq(W) /\ et \in Seq(W) /\ Len(es) = Len(s) /\ Len(et) = Len(t)
    BY <1>3
  <2> HIDE DEF es, et
  <2>2. /\ es \o et \in Seq(W) /\ Len(es \o et) = Len(es) + Len(et)
        /\ \A i \in 1 .. Len(es) + Len(et) :
              (es \o et)[i] = IF i <= Len(es) THEN es[i] ELSE et[i - Len(es)]
    BY <2>1, ConcatProperties
  <2>3. QED
    BY <2>1, <2>2
<1>5. ASSUME NEW i \in 1 .. Len(s) + Len(t)
      PROVE  Encoded(s \o t)[i] = (Encoded(s) \o Encoded(t))[i]
  <2>1. CASE i <= Len(s)
    BY <1>1, <1>2, <1>3, <1>4, <2>1
  <2>2. CASE ~ (i <= Len(s))
    <3>1. i - Len(s) \in 1 .. Len(t)
      BY <1>1, <2>2
    <3>2. QED
      BY <1>1, <1>2, <1>3, <1>4, <2>2, <3>1
  <2>3. QED
    BY <2>1, <2>2
<1>6. QED
  BY <1>2, <1>4, <1>5, SeqEqual

LEMMA EncodedHead ==
    ASSUME NEW s \in Seq(Line), s # <<>>
    PROVE  /\ Written(Head(s)) \in Line /\ Encoded(Tail(s)) \in Seq(Line)
           /\ Encoded(s) = <<Written(Head(s))>> \o Encoded(Tail(s))
<1>1. Head(s) \in Line /\ Tail(s) \in Seq(Line) /\ s = <<Head(s)>> \o Tail(s)
  BY HeadAndTail
<1>2. PICK first \in Seq(Line) : first = <<Head(s)>> /\ Len(first) = 1 /\ first[1] = Head(s)
  BY <1>1, OneElement
<1>3. PICK one \in Seq(Line) :
          one = <<Written(Head(s))>> /\ Len(one) = 1 /\ one[1] = Written(Head(s))
  BY <1>1, WrittenTypes, OneElement
<1>4. Encoded(s) = Encoded(first) \o Encoded(Tail(s))
  BY <1>1, <1>2, WrittenTypes, EncodedConcat
<1>5. Encoded(first) = one
  <2>1. /\ Encoded(first) \in Seq(Line) /\ Len(Encoded(first)) = 1
        /\ Encoded(first)[1] = Written(Head(s))
    <3>1. \A line \in Line : Written(line) \in Line
      BY WrittenTypes
    <3> HIDE DEF Line
    <3>2. /\ Encoded(first) \in Seq(Line) /\ Len(Encoded(first)) = Len(first)
          /\ \A n \in 1 .. Len(first) : Encoded(first)[n] = Written(first[n])
      BY <1>2, <3>1, EncodedTypes
    <3>3. QED
      BY <1>2, <3>2
  <2> DEFINE e == Encoded(first)
  <2>2. e \in Seq(Line) /\ Len(e) = Len(one) /\ \A i \in 1 .. Len(e) : e[i] = one[i]
    BY <1>3, <2>1
  <2> HIDE DEF e
  <2>3. e = one
    BY <2>2, SeqEqual
  <2>4. QED
    BY <2>3 DEF e
<1>6. QED
  BY <1>1, <1>3, <1>4, <1>5, WrittenTypes, EncodedTypes

LEMMA ParsedTypes ==
    ASSUME NEW lines \in Seq(HeaderLine)
    PROVE  /\ ParsedHeaders(lines) \in Seq(HeaderLine)
           /\ Len(ParsedHeaders(lines)) = Len(lines)
           /\ \A n \in 1 .. Len(lines) :
                 ParsedHeaders(lines)[n] = Header(Trim[lines[n].key], Trim[lines[n].value])
<1> DEFINE f == ParsedHeaders(lines)
<1>1. /\ f = [n \in DOMAIN lines |-> f[n]]
      /\ \A n \in 1 .. Len(lines) : f[n] = Header(Trim[lines[n].key], Trim[lines[n].value])
  BY LenProperties DEF ParsedHeaders
<1>2. ASSUME NEW n \in 1 .. Len(lines) PROVE f[n] \in HeaderLine
  <2>1. lines[n] \in HeaderLine
    BY ElementOfSeq
  <2>2. QED
    <3>1. lines[n].key \in Text /\ lines[n].value \in Text
      BY <2>1 DEF HeaderLine
    <3>2. Trim[lines[n].key] \in Text /\ Trim[lines[n].value] \in Text
      BY <3>1, TextAssumption
    <3>3. f[n] = Header(Trim[lines[n].key], Trim[lines[n].value])
      BY <1>1
    <3> HIDE DEF f
    <3>4. QED
      BY <3>2, <3>3 DEF HeaderLine, Header
<1> HIDE DEF f
<1>3. f \in Seq(HeaderLine) /\ Len(f) = Len(lines)
  BY <1>1, <1>2, EachOf
<1>4. QED
  BY <1>1, <1>3 DEF f

\* What modify_request makes of a well formed head.
LEMMA ModifyRequestTypes ==
    ASSUME NEW o, o.path \in Path, o.mode \in {"Replace", "Prefix", "Append"},
           NEW head \in Seq(Line), WellFormed(head)
    PROVE  /\ Tail(head) \in Seq(HeaderLine) /\ head[1].path \in Path
           /\ PathAfter(o, head[1].path) \in Path
           /\ HeadersAfter(ParsedHeaders(Tail(head))) \in Seq(HeaderLine)
           /\ ModifyRequest(o, head) \in Seq(Line)
           /\ Len(ModifyRequest(o, head)) = Len(HeadersAfter(ParsedHeaders(Tail(head)))) + 2
           /\ ModifyRequest(o, head)[1] = Request(PathAfter(o, head[1].path))
           /\ \A i \in 1 .. Len(HeadersAfter(ParsedHeaders(Tail(head)))) :
                  ModifyRequest(o, head)[i + 1] = HeadersAfter(ParsedHeaders(Tail(head)))[i]
           /\ ModifyRequest(o, head)[Len(HeadersAfter(ParsedHeaders(Tail(head)))) + 2] = EndOfHead
<1>1. Len(head) \in Nat \ {0} /\ \A i \in 1 .. Len(head) : head[i] \in Line
  BY EmptySeq, ElementOfSeq DEF WellFormed
<1>2. Tail(head) \in Seq(HeaderLine)
  <2>1. Tail(head) = SubSeq(head, 2, Len(head))
    BY TailIsSubSeq DEF WellFormed
  <2>2. \A i \in 2 .. Len(head) : head[i] \in HeaderLine
    BY <1>1 DEF WellFormed, Line, HeaderLine, EndOfHead
  <2>3. 2 \in Int /\ Len(head) \in Int
    BY <1>1
  <2>4. SubSeq(head, 2, Len(head)) \in Seq(HeaderLine)
    BY <2>2, <2>3, SubSeqProperties
  <2>5. QED
    BY <2>1, <2>4
<1>3. head[1].path \in Path
  BY <1>1 DEF WellFormed, Line, HeaderLine, EndOfHead
<1>4. PathAfter(o, head[1].path) \in Path
  BY <1>3, ConcatProperties DEF PathAfter, Path
<1> DEFINE r == Request(PathAfter(o, head[1].path))
           h == HeadersAfter(ParsedHeaders(Tail(head)))
<1>5. r \in Line /\ EndOfHead \in Line
  BY <1>4 DEF Line, Request
<1>6. h \in Seq(HeaderLine)
  BY <1>2, ParsedTypes, RetainedExists, NotOverriddenIs, GatewayAssumption, ConcatProperties
     DEF HeadersAfter
<1>7. ModifyRequest(o, head) = <<r>> \o h \o <<EndOfHead>>
  BY DEF ModifyRequest
<1> HIDE DEF r, h
<1>8. PICK first \in Seq(Line), last \in Seq(Line) : first = <<r>> /\ last = <<EndOfHead>>
  BY <1>5, Singleton
<1>9. h \in Seq(Line)
  BY <1>6, SeqMonotonic DEF Line
<1>10. Len(first) = 1 /\ first[1] = r /\ Len(last) = 1 /\ last[1] = EndOfHead /\ Len(h) \in Nat
  BY <1>8, <1>9, LenProperties
<1>11. /\ first \o h \in Seq(Line) /\ Len(first \o h) = Len(h) + 1
       /\ (first \o h)[1] = r /\ \A i \in 1 .. Len(h) : (first \o h)[i + 1] = h[i]
  <2>1. /\ first \o h \in Seq(Line) /\ Len(first \o h) = Len(first) + Len(h)
        /\ \A i \in 1 .. Len(first) + Len(h) :
              (first \o h)[i] = IF i <= Len(first) THEN first[i] ELSE h[i - Len(first)]
    BY <1>8, <1>9, ConcatProperties
  <2>2. QED
    BY <1>10, <2>1
<1>12. /\ (first \o h) \o last \in Seq(Line) /\ Len((first \o h) \o last) = Len(h) + 2
       /\ \A i \in 1 .. Len(h) + 1 : ((first \o h) \o last)[i] = (first \o h)[i]
       /\ ((first \o h) \o last)[Len(h) + 2] = EndOfHead
  BY <1>10, <1>11, ConcatProperties
<1> HIDE DEF Path, Line
<1>13. /\ ((first \o h) \o last)[1] = r
       /\ \A i \in 1 .. Len(h) : ((first \o h) \o last)[i + 1] = h[i]
  BY <1>10, <1>11, <1>12
<1>14. QED
  BY <1>2, <1>3, <1>4, <1>6, <1>7, <1>8, <1>12, <1>13 DEF r, h

\* The rewritten head as it is written.
LEMMA NewHeadIs ==
    ASSUME NEW o, o.path \in Path, o.mode \in {"Replace", "Prefix", "Append"},
           NEW head \in Seq(Line), WellFormed(head),
           NEW h, h = Encoded(HeadersAfter(ParsedHeaders(Tail(head)))),
           NEW e, e = Encoded(ModifyRequest(o, head))
    PROVE  /\ h \in Seq(HeaderLine) /\ e \in Seq(Line) /\ Len(e) = Len(h) + 2
           /\ e[1] = Written(Request(PathAfter(o, head[1].path)))
           /\ \A i \in 1 .. Len(h) : e[i + 1] = h[i]
           /\ e[Len(h) + 2] = EndOfHead
<1> DEFINE k == HeadersAfter(ParsedHeaders(Tail(head)))
           r == ModifyRequest(o, head)
<1>1. /\ k \in Seq(HeaderLine) /\ r \in Seq(Line) /\ Len(r) = Len(k) + 2
      /\ r[1] = Request(PathAfter(o, head[1].path))
      /\ \A i \in 1 .. Len(k) : r[i + 1] = k[i]
      /\ r[Len(k) + 2] = EndOfHead
  BY ModifyRequestTypes
<1>2. h = Encoded(k) /\ e = Encoded(r)
  OBVIOUS
<1> HIDE DEF k, r
<1>3. /\ h \in Seq(HeaderLine) /\ Len(h) = Len(k) /\ Len(k) \in Nat
      /\ \A i \in 1 .. Len(k) : h[i] = Written(k[i])
  BY <1>1, <1>2, WrittenTypes, EncodedTypes, LenProperties
<1>4. /\ e \in Seq(Line) /\ Len(e) = Len(k) + 2
      /\ \A i \in 1 .. Len(k) + 2 : e[i] = Written(r[i])
  BY <1>1, <1>2, WrittenTypes, EncodedTypes
<1>5. ASSUME NEW i \in 1 .. Len(h) PROVE e[i + 1] = h[i]
  BY <1>1, <1>3, <1>4
<1>6. e[1] = Written(Request(PathAfter(o, head[1].path))) /\ e[Len(h) + 2] = EndOfHead
  BY <1>1, <1>3, <1>4, WrittenTypes
<1>7. QED
  BY <1>3, <1>4, <1>5, <1>6

\* The well formed head of a stream, and what becomes of it.
LEMMA HeadTypes ==
    ASSUME Given, NEW end, EndsAt(stream, end), WellFormed(SubSeq(stream, 1, end - 1))
    PROVE  /\ end \in 2 .. Len(stream) /\ EndOf(stream) = end
           /\ HeadOf(stream) = SubSeq(stream, 1, end - 1) /\ HeadOf(stream) \in Seq(Line)
           /\ Len(HeadOf(stream)) = end - 1 /\ HeadOf(stream)[1] = stream[1]
           /\ NewHead \in Seq(Line)
<1>1. /\ stream \in Seq(Line) /\ Len(stream) \in Nat /\ override.path \in Path
      /\ override.mode \in {"Replace", "Prefix", "Append"}
  BY GivenTypes
<1>2. /\ EndOf(stream) = end /\ HeadOf(stream) = SubSeq(stream, 1, end - 1)
      /\ end \in 1 .. Len(stream)
  BY <1>1, EndsAtUnique DEF EndsAt
<1>3. end # 1
  BY SubSeqEmpty DEF WellFormed
<1>4. /\ SubSeq(stream, 1, end - 1) \in Seq(Line) /\ Len(SubSeq(stream, 1, end - 1)) = end - 1
      /\ SubSeq(stream, 1, end - 1)[1] = stream[1]
  <2>1. 1 \in 1 .. Len(stream) + 1 /\ end - 1 \in 1 - 1 .. Len(stream) /\ 1 \in 1 .. end - 1
    BY <1>1, <1>2, <1>3
  <2>2. /\ SubSeq(stream, 1, end - 1) \in Seq(Line)
        /\ Len(SubSeq(stream, 1, end - 1)) = (end - 1) - 1 + 1
        /\ \A i \in 1 .. (end - 1) - 1 + 1 : SubSeq(stream, 1, end - 1)[i] = stream[1 + i - 1]
    BY <1>1, <2>1, SubSeqExtends
  <2>3. QED
    BY <2>1, <2>2
<1>5. NewHead \in Seq(Line)
  <2>1. ModifyRequest(override, HeadOf(stream)) \in Seq(Line)
    BY <1>1, <1>2, <1>4, ModifyRequestTypes
  <2>2. QED
    BY <2>1, WrittenTypes, EncodedTypes DEF NewHead
<1>6. QED
  BY <1>1, <1>2, <1>3, <1>4, <1>5

LEMMA GatewayInvInit == Init => GatewayInv
<1>1. ASSUME Init PROVE SubSeq(stream, 1, read) = <<>> /\ <<>> \in Seq(Line)
  BY <1>1, SubSeqEmpty, EmptySeq DEF Init
<1>2. QED
  BY <1>1 DEF Init, GatewayInv, HeadIsRead, HeadIsRewritten, EndsAreLast

\* The two ends, and the end of a connection, do not touch what is written.
LEMMA EndsStepInv ==
    ASSUME Given, Counters, Phases, GatewayInv,
           \/ ClientSends \/ ServerSends \/ Finishes("client") \/ Finishes("server") \/ Breaks
           \/ CopyToClient \/ ShutDown("client") \/ ShutDown("server") \/ UNCHANGED vars
    PROVE  GatewayInv'
<1>1. /\ UNCHANGED <<override, stream, read, phase, pending, toServer>>
      /\ phase \in {"closing", "done"} => UNCHANGED <<broken, shut>>
  BY DEF ClientSends, ServerSends, Finishes, Breaks, CopyToClient, ShutDown, vars, client, server
<1>2. EndsAreLast'
  <2> USE DEF EndsAreLast
  <2>1. EndsAreLast /\ shut \subseteq finished
    BY DEF GatewayInv, Phases
  <2>2. CASE ClientSends \/ ServerSends
    BY <2>1, <2>2 DEF ClientSends, ServerSends, client, server
  <2>3. CASE CopyToClient
    BY <2>1, <2>3 DEF CopyToClient, client, Counters
  <2>4. CASE ShutDown("client") \/ ShutDown("server")
    BY <2>1, <2>4 DEF ShutDown, client, server
  <2>5. CASE Finishes("client") \/ Finishes("server") \/ Breaks \/ UNCHANGED vars
    BY <2>1, <2>5 DEF Finishes, Breaks, vars, client, server
  <2>6. QED
    BY <2>2, <2>3, <2>4, <2>5
<1>3. HeadIsRead'
  BY <1>1 DEF GatewayInv, HeadIsRead
<1>4. HeadIsRewritten'
  BY <1>1 DEF GatewayInv, HeadIsRewritten, NewHead
<1>5. QED
  BY <1>1, <1>2, <1>3, <1>4 DEF GatewayInv

LEMMA ReadHeadInv == ASSUME Given, Counters, Phases, GatewayInv, ReadHead PROVE GatewayInv'
<1>1. /\ stream \in Seq(Line) /\ Len(stream) \in Nat /\ read \in Nat /\ read < Len(stream)
      /\ stream' = stream /\ sent' = sent /\ read < sent /\ toServer' = toServer
      /\ shut' = shut /\ relayed' = relayed /\ answered' = answered /\ read' = read + 1
      /\ toServer = <<>> /\ shut = {} /\ toServer \in Seq(Line)
  BY GivenTypes DEF ReadHead, Counters, client, server, Phases, GatewayInv
<1>2. pending = SubSeq(stream, 1, read) /\ \A n \in 1 .. read : stream[n] # EndOfHead
  BY DEF ReadHead, GatewayInv, HeadIsRead
<1>3. CASE stream[read + 1] = EndOfHead
  <2>1. phase' = "parsing" /\ pending' = pending
    BY <1>3 DEF ReadHead
  <2>2. EndsAt(stream, read + 1) /\ (read + 1) - 1 = read
    BY <1>1, <1>2, <1>3 DEF EndsAt
  <2>3. HeadIsRead' /\ HeadIsRewritten' /\ EndsAreLast'
    BY <1>1, <1>2, <2>1, <2>2 DEF HeadIsRead, HeadIsRewritten, EndsAreLast
  <2>4. QED
    BY <1>1, <2>1, <2>3 DEF GatewayInv
<1>4. CASE stream[read + 1] # EndOfHead
  <2>1. phase' = "head" /\ pending' = Append(pending, stream[read + 1])
    BY <1>4 DEF ReadHead, Phases
  <2>2. 1 \in 1 .. Len(stream) + 1 /\ read \in 1 - 1 .. Len(stream)
    BY <1>1
  <2>3. /\ SubSeq(stream, 1, read + 1) = Append(SubSeq(stream, 1, read), stream[read + 1])
        /\ SubSeq(stream, 1, read) \in Seq(Line) /\ stream[read + 1] \in Line
    BY <1>1, <2>2, SubSeqExtends
  <2>4. \A n \in 1 .. read + 1 : stream[n] # EndOfHead
    BY <1>1, <1>2, <1>4
  <2>5. pending' \in Seq(Line)
    BY <1>2, <2>1, <2>3, AppendProperties
  <2>6. HeadIsRead' /\ HeadIsRewritten' /\ EndsAreLast'
    BY <1>1, <1>2, <2>1, <2>3, <2>4 DEF HeadIsRead, HeadIsRewritten, EndsAreLast
  <2>7. QED
    BY <1>1, <2>5, <2>6 DEF GatewayInv
<1>5. QED
  BY <1>3, <1>4

LEMMA NewConnectionInv ==
    ASSUME Given, Counters, Phases, GatewayInv, GiveUp \/ NewConnection
    PROVE  GatewayInv'
<1>1. /\ phase \in {"head", "parsing"} /\ stream' = stream /\ override' = override
      /\ shut' = shut /\ sent' = sent /\ read' = read /\ relayed' = relayed
      /\ answered' = answered /\ toServer' = toServer
  BY DEF GiveUp, NewConnection, client, server
<1>2. toServer = <<>> /\ shut = {} /\ toServer \in Seq(Line) /\ pending \in Seq(Line)
  BY <1>1 DEF Phases, GatewayInv
<1>3. EndsAreLast'
  BY <1>1, <1>2 DEF EndsAreLast
<1>4. CASE phase' = "given up"
  <2>1. pending' = pending
    BY <1>4 DEF GiveUp, NewConnection
  <2>2. HeadIsRead' /\ HeadIsRewritten'
    BY <1>1, <1>2, <1>4 DEF HeadIsRead, HeadIsRewritten
  <2>3. QED
    BY <1>1, <1>2, <1>3, <2>1, <2>2 DEF GatewayInv
<1>5. CASE phase' # "given up"
  <2>1. /\ phase = "parsing" /\ phase' = "writing" /\ WellFormed(pending)
        /\ pending' = ModifyRequest(override, pending)
    BY <1>5 DEF GiveUp, NewConnection
  <2>2. EndsAt(stream, read) /\ pending = SubSeq(stream, 1, read - 1)
    BY <2>1 DEF GatewayInv, HeadIsRead
  <2>3. /\ EndOf(stream) = read /\ HeadOf(stream) = pending /\ read \in 2 .. Len(stream)
        /\ Encoded(pending') = NewHead /\ NewHead \in Seq(Line) /\ pending' \in Seq(Line)
    <3>1. /\ EndOf(stream) = read /\ HeadOf(stream) = pending /\ read \in 2 .. Len(stream)
          /\ NewHead \in Seq(Line)
      BY <2>1, <2>2, HeadTypes
    <3>2. pending' \in Seq(Line)
      BY <1>2, <2>1, GivenTypes, ModifyRequestTypes
    <3>3. QED
      BY <2>1, <3>1, <3>2 DEF NewHead
  <2>4. SubSeq(stream, read + 1, read) = <<>>
    BY <2>3, SubSeqEmpty
  <2>5. toServer' \o Encoded(pending') = NewHead /\ NewHead \o <<>> = NewHead
    BY <1>1, <1>2, <2>3, ConcatEmptySeq
  <2>6. HeadIsRead'
    BY <2>1 DEF HeadIsRead
  <2>7. HeadIsRewritten'
    BY <1>1, <2>1, <2>2, <2>3, <2>4, <2>5 DEF HeadIsRewritten, NewHead
  <2>8. QED
    BY <1>1, <1>2, <1>3, <2>1, <2>3, <2>6, <2>7 DEF GatewayInv
<1>6. QED
  BY <1>4, <1>5

LEMMA WritingInv ==
    ASSUME Given, Counters, Phases, GatewayInv, WriteToStream \/ StartCopy
    PROVE  GatewayInv'
<1>1. /\ phase = "writing" /\ stream' = stream /\ override' = override /\ shut' = shut
      /\ sent' = sent /\ read' = read /\ relayed' = relayed /\ answered' = answered
  BY DEF WriteToStream, StartCopy, client, server
<1>2. toServer \in Seq(Line) /\ pending \in Seq(Line) /\ HeadIsRewritten /\ EndsAreLast
  BY DEF GatewayInv
<1>3. CASE WriteToStream
  <2>1. /\ phase' = "writing" /\ pending # <<>> /\ pending' = Tail(pending)
        /\ toServer' = Append(toServer, Written(Head(pending)))
    BY <1>1, <1>3 DEF WriteToStream
  <2>2. /\ Written(Head(pending)) \in Line /\ Tail(pending) \in Seq(Line)
        /\ Encoded(Tail(pending)) \in Seq(Line)
        /\ Encoded(pending) = <<Written(Head(pending))>> \o Encoded(Tail(pending))
    BY <1>2, <2>1, HeadAndTail, EncodedHead
  <2>3. PICK first \in Seq(Line) : first = <<Written(Head(pending))>>
    BY <2>2, Singleton
  <2>4. Append(toServer, Written(Head(pending))) = toServer \o first
    BY <1>2, <2>2, <2>3, AppendIsConcat
  <2>5. (toServer \o first) \o Encoded(Tail(pending)) = toServer \o Encoded(pending)
    BY <1>2, <2>2, <2>3, ConcatAssociative
  <2>6. toServer' \in Seq(Line)
    BY <1>2, <2>1, <2>2, AppendProperties
  <2>7. HeadIsRead' /\ HeadIsRewritten' /\ EndsAreLast'
    BY <1>1, <1>2, <2>1, <2>4, <2>5 DEF HeadIsRead, HeadIsRewritten, EndsAreLast, NewHead
  <2>8. QED
    BY <2>1, <2>2, <2>6, <2>7 DEF GatewayInv
<1>4. CASE StartCopy
  <2>1. phase' = "copying" /\ pending = <<>> /\ pending' = pending /\ toServer' = toServer
    BY <1>4 DEF StartCopy
  <2>2. HeadIsRead' /\ HeadIsRewritten' /\ EndsAreLast'
    BY <1>1, <1>2, <2>1 DEF HeadIsRead, HeadIsRewritten, EndsAreLast, NewHead
  <2>3. QED
    BY <1>2, <2>1, <2>2 DEF GatewayInv
<1>5. QED
  BY <1>3, <1>4

LEMMA CopyToServerInv ==
    ASSUME Given, Counters, Phases, GatewayInv, CopyToServer
    PROVE  GatewayInv'
<1> DEFINE end == EndOf(stream)
<1>1. /\ phase = "copying" /\ phase' = phase /\ stream' = stream /\ override' = override
      /\ shut' = shut /\ sent' = sent /\ relayed' = relayed /\ answered' = answered
      /\ read' = read + 1 /\ toServer' = Append(toServer, stream[read + 1])
      /\ pending' = pending /\ read < sent
  BY DEF CopyToServer, client, server
<1>2. /\ toServer \in Seq(Line) /\ pending = <<>> /\ EndsAreLast
      /\ EndsAt(stream, end) /\ end <= read /\ WellFormed(HeadOf(stream))
      /\ toServer \o Encoded(pending) = NewHead \o SubSeq(stream, end + 1, read)
  BY <1>1 DEF GatewayInv, HeadIsRewritten
<1>3. /\ stream \in Seq(Line) /\ Len(stream) \in Nat /\ read \in Nat /\ read < Len(stream)
  BY <1>1, GivenTypes DEF Counters
<1>4. end \in 1 .. Len(stream) /\ NewHead \in Seq(Line)
  <2>1. HeadOf(stream) = SubSeq(stream, 1, end - 1)
    BY DEF HeadOf
  <2>2. QED
    BY <1>2, <2>1, HeadTypes DEF EndsAt
<1> HIDE DEF end
<1>5. end + 1 \in 1 .. Len(stream) + 1 /\ read \in (end + 1) - 1 .. Len(stream)
  BY <1>2, <1>3, <1>4
<1>6. /\ SubSeq(stream, end + 1, read) \in Seq(Line) /\ stream[read + 1] \in Line
      /\ SubSeq(stream, end + 1, read + 1) = Append(SubSeq(stream, end + 1, read), stream[read + 1])
  BY <1>3, <1>5, SubSeqExtends
<1> DEFINE copied == SubSeq(stream, end + 1, read)
           next == stream[read + 1]
<1>7. toServer = NewHead \o copied
  <2>1. toServer \o <<>> = toServer
    BY <1>2, ConcatEmptySeq
  <2>2. QED
    BY <1>2, <2>1, EncodedEmpty
<1>8. NewHead \o Append(copied, next) = Append(NewHead \o copied, next)
  <2>1. copied \in Seq(Line) /\ next \in Line
    BY <1>6
  <2> HIDE DEF copied, next
  <2>2. QED
    BY <1>4, <2>1, AppendToConcat
<1> HIDE DEF copied, next
<1>9. /\ toServer' \in Seq(Line) /\ pending' \in Seq(Line)
      /\ toServer' \o Encoded(pending') = toServer'
  <2>1. Append(toServer, next) \in Seq(Line)
    BY <1>2, <1>6, AppendProperties DEF next
  <2>2. Append(toServer, next) \o <<>> = Append(toServer, next)
    BY <2>1, ConcatEmptySeq
  <2>3. QED
    BY <1>1, <1>2, <2>1, <2>2, EmptySeq, EncodedEmpty DEF next
<1>10. HeadIsRead' /\ EndsAreLast'
  BY <1>1, <1>2, <1>3 DEF HeadIsRead, EndsAreLast, Counters
<1>11. end <= read + 1
  BY <1>2, <1>3, <1>4
<1>12. HeadIsRewritten'
  <2>1. toServer' \o Encoded(pending') = NewHead \o SubSeq(stream, end + 1, read + 1)
    BY <1>1, <1>6, <1>7, <1>8, <1>9 DEF copied, next
  <2>2. QED
    BY <1>1, <1>2, <1>11, <2>1 DEF HeadIsRewritten, NewHead, end
<1>13. QED
  BY <1>9, <1>10, <1>12 DEF GatewayInv

LEMMA ClosingInv ==
    ASSUME Given, Counters, Phases, GatewayInv, CopyEnds \/ OnClose
    PROVE  GatewayInv'
<1>1. /\ phase \in {"writing", "copying", "closing"} /\ phase' \in {"closing", "done"}
      /\ UNCHANGED <<override, stream, sent, read, answered, relayed, shut, broken, pending, toServer>>
      /\ phase # "closing" => broken \/ (phase = "copying" /\ shut = {"client", "server"})
  BY DEF CopyEnds, OnClose, Connected, client, server
<1>2. HeadIsRead' /\ EndsAreLast'
  BY <1>1 DEF GatewayInv, HeadIsRead, EndsAreLast
<1>3. HeadIsRewritten'
  BY <1>1 DEF GatewayInv, HeadIsRewritten, NewHead
<1>4. QED
  BY <1>1, <1>2, <1>3 DEF GatewayInv

LEMMA GatewayInvStep == Given /\ Counters /\ Phases /\ GatewayInv /\ [Next]_vars => GatewayInv'
BY EndsStepInv, ReadHeadInv, NewConnectionInv, WritingInv, CopyToServerInv, ClosingInv
   DEF Next, GatewayStep

LEMMA GatewayInvHolds == Spec => [](Given /\ Counters /\ Phases /\ GatewayInv)
BY GatewayTypeCorrect, TypeParts, GatewayInvInit, GatewayInvStep, PTL DEF Spec

----------------------------------------------------------------------------
(* What the runs check.                                                    *)

\* The rewritten stream, cut where the gateway has read to.
LEMMA RewrittenParts ==
    ASSUME Given, Counters, NEW end, EndsAt(stream, end), WellFormed(HeadOf(stream)),
           HeadOf(stream) = SubSeq(stream, 1, end - 1), end <= read
    PROVE  /\ NewHead \in Seq(Line) /\ SubSeq(stream, end + 1, read) \in Seq(Line)
           /\ SubSeq(stream, read + 1, Len(stream)) \in Seq(Line)
           /\ Rewritten(stream) = (NewHead \o SubSeq(stream, end + 1, read))
                                     \o SubSeq(stream, read + 1, Len(stream))
           /\ Rewritten(SubSeq(stream, 1, read)) = NewHead \o SubSeq(stream, end + 1, read)
<1> DEFINE copied == SubSeq(stream, end + 1, read)
           rest == SubSeq(stream, read + 1, Len(stream))
           now == SubSeq(stream, 1, read)
<1>1. /\ stream \in Seq(Line) /\ Len(stream) \in Nat /\ read \in 0 .. Len(stream)
      /\ end \in 2 .. Len(stream) /\ EndOf(stream) = end /\ NewHead \in Seq(Line)
  BY GivenTypes, HeadTypes DEF Counters
<1>2. /\ copied \in Seq(Line) /\ rest \in Seq(Line) /\ now \in Seq(Line) /\ Len(now) = read
      /\ \A i \in 1 .. read : now[i] = stream[i]
  <2>1. /\ end + 1 \in 1 .. Len(stream) + 1 /\ read \in (end + 1) - 1 .. Len(stream)
        /\ read + 1 \in 1 .. Len(stream) + 1 /\ Len(stream) \in (read + 1) - 1 .. Len(stream)
        /\ 1 \in 1 .. Len(stream) + 1 /\ read \in 1 - 1 .. Len(stream)
    BY <1>1
  <2>2. copied \in Seq(Line)
    BY <1>1, <2>1, SubSeqExtends
  <2>3. rest \in Seq(Line)
    BY <1>1, <2>1, SubSeqExtends
  <2>4. /\ now \in Seq(Line) /\ Len(now) = read - 1 + 1
        /\ \A i \in 1 .. read - 1 + 1 : now[i] = stream[1 + i - 1]
    BY <1>1, <2>1, SubSeqExtends
  <2>5. QED
    BY <1>1, <2>2, <2>3, <2>4
<1>3. SubSeq(stream, end + 1, Len(stream)) = copied \o rest
  <2>1. /\ end + 1 \in 1 .. Len(stream) + 1 /\ read \in (end + 1) - 1 .. Len(stream)
        /\ Len(stream) \in read .. Len(stream)
    BY <1>1
  <2>2. QED
    BY <1>1, <2>1, ConcatAdjacentSubSeq
<1>4. Rewritten(stream) = NewHead \o (copied \o rest)
  BY <1>1, <1>3 DEF Rewritten, NewHead
<1>5. EndOf(now) = end /\ HeadOf(now) = SubSeq(now, 1, end - 1)
  <2>1. EndsAt(now, end) /\ Len(now) \in Nat
    BY <1>1, <1>2 DEF EndsAt
  <2>2. QED
    BY <2>1, EndsAtUnique
<1>6. SubSeq(now, 1, end - 1) = SubSeq(stream, 1, end - 1)
  <2>1. /\ 1 \in 1 .. Len(stream) /\ read \in 1 .. Len(stream)
        /\ 1 \in 1 .. read - 1 + 1 /\ end - 1 \in 1 .. read - 1 + 1
        /\ 1 + 1 - 1 = 1 /\ 1 + (end - 1) - 1 = end - 1
    BY <1>1
  <2>2. QED
    BY <1>1, <2>1, SubSeqOfSubSeq
<1>7. SubSeq(now, end + 1, read) = copied
  <2>1. CASE end = read
    <3>1. read + 1 \in Int /\ read \in Int /\ read < read + 1
      BY <1>1
    <3>2. QED
      BY <2>1, <3>1, SubSeqEmpty
  <2>2. CASE end # read
    <3>1. /\ 1 \in 1 .. Len(stream) /\ read \in 1 .. Len(stream)
          /\ end + 1 \in 1 .. read - 1 + 1 /\ read \in 1 .. read - 1 + 1
          /\ 1 + (end + 1) - 1 = end + 1 /\ 1 + read - 1 = read
      BY <1>1, <2>2
    <3>2. QED
      BY <1>1, <3>1, SubSeqOfSubSeq
  <2>3. QED
    BY <2>1, <2>2
<1>8. Rewritten(now) = NewHead \o copied
  BY <1>2, <1>5, <1>6, <1>7 DEF Rewritten, NewHead
<1>9. (NewHead \o copied) \o rest = NewHead \o (copied \o rest)
  <2>1. NewHead \in Seq(Line) /\ copied \in Seq(Line) /\ rest \in Seq(Line)
    BY <1>1, <1>2
  <2> HIDE DEF copied, rest
  <2>2. QED
    BY <2>1, ConcatAssociative
<1>10. QED
  BY <1>1, <1>2, <1>4, <1>8, <1>9

\* The server receives the rewritten head and then what followed the head in the stream,
\* complete and in order, however it arrived.
THEOREM StreamStaysWhole == Spec => []StreamIsKept
<1>1. ASSUME Given, Counters, Phases, GatewayInv PROVE StreamIsKept
  <2> SUFFICES ASSUME toServer # <<>> PROVE IsPrefix(toServer, Rewritten(stream))
    BY DEF StreamIsKept
  <2> DEFINE end == EndOf(stream)
             copied == SubSeq(stream, end + 1, read)
             rest == SubSeq(stream, read + 1, Len(stream))
             written == Encoded(pending)
  <2>1. phase \in {"writing", "copying", "closing", "done"}
    BY <1>1 DEF Phases, GatewayInv, HeadIsRead
  <2>2. /\ EndsAt(stream, end) /\ end <= read /\ WellFormed(HeadOf(stream))
        /\ toServer \o written = NewHead \o copied
        /\ toServer \in Seq(Line) /\ pending \in Seq(Line)
    BY <1>1, <2>1 DEF GatewayInv, HeadIsRewritten
  <2>3. HeadOf(stream) = SubSeq(stream, 1, end - 1) /\ written \in Seq(Line)
    BY <2>2, WrittenTypes, EncodedTypes DEF HeadOf
  <2>4. Rewritten(stream) = (NewHead \o copied) \o rest /\ rest \in Seq(Line)
    BY <1>1, <2>2, <2>3, RewrittenParts
  <2> HIDE DEF copied, rest, written
  <2>5. written \o rest \in Seq(Line)
    BY <2>3, <2>4, ConcatProperties
  <2>6. (toServer \o written) \o rest = toServer \o (written \o rest)
    <3>1. toServer \in Seq(Line) /\ written \in Seq(Line) /\ rest \in Seq(Line)
      BY <2>2, <2>3, <2>4
    <3>2. QED
      BY <3>1, ConcatAssociative
  <2>7. Rewritten(stream) = toServer \o (written \o rest)
    BY <2>2, <2>4, <2>6
  <2>8. QED
    BY <2>2, <2>5, <2>7, PrefixOfConcat
<1>2. QED
  BY <1>1, GatewayInvHolds, PTL

\* A session that ends without a broken connection has delivered everything.
THEOREM SessionsAreComplete == Spec => []NothingIsCutOff
<1>1. ASSUME Given, Counters, Phases, GatewayInv PROVE NothingIsCutOff
  <2> SUFFICES ASSUME phase \in {"closing", "done"}, ~ broken
               PROVE  toServer = Rewritten(SubSeq(stream, 1, sent)) /\ relayed = answered
    BY DEF NothingIsCutOff
  <2> DEFINE end == EndOf(stream)
             copied == SubSeq(stream, end + 1, read)
  <2>1. /\ EndsAt(stream, end) /\ end <= read /\ WellFormed(HeadOf(stream))
        /\ toServer \o Encoded(pending) = NewHead \o copied /\ toServer \in Seq(Line)
        /\ pending = <<>> /\ shut = {"client", "server"}
    BY <1>1 DEF GatewayInv, HeadIsRewritten
  <2>2. read = sent /\ relayed = answered
    BY <1>1, <2>1 DEF GatewayInv, EndsAreLast
  <2>3. HeadOf(stream) = SubSeq(stream, 1, end - 1)
    BY DEF HeadOf
  <2>4. Rewritten(SubSeq(stream, 1, read)) = NewHead \o copied
    BY <1>1, <2>1, <2>3, RewrittenParts
  <2>5. toServer = NewHead \o copied
    BY <2>1, ConcatEmptySeq, EncodedEmpty
  <2>6. QED
    BY <2>2, <2>4, <2>5
<1>2. QED
  BY <1>1, GatewayInvHolds, PTL

\* What the server sees of the head, while the rest is copied.
LEMMA HeadersSeen ==
    ASSUME Given, Counters, GatewayInv, phase = "copying"
    PROVE  /\ Tail(HeadOf(stream)) \in Seq(HeaderLine)
           /\ Tail(HeadOf(toServer)) = Encoded(HeadersAfter(ParsedHeaders(Tail(HeadOf(stream)))))
<1> DEFINE end == EndOf(stream)
           h == Encoded(HeadersAfter(ParsedHeaders(Tail(HeadOf(stream)))))
           copied == SubSeq(stream, end + 1, read)
<1>1. /\ EndsAt(stream, end) /\ end <= read /\ WellFormed(HeadOf(stream))
      /\ toServer \o Encoded(pending) = NewHead \o copied /\ pending = <<>>
      /\ toServer \in Seq(Line)
  BY DEF GatewayInv, HeadIsRewritten
<1>2. HeadOf(stream) = SubSeq(stream, 1, end - 1)
  BY DEF HeadOf
<1>3. toServer = NewHead \o copied /\ copied \in Seq(Line) /\ NewHead \in Seq(Line)
  <2>1. toServer \o <<>> = toServer
    BY <1>1, ConcatEmptySeq
  <2>2. copied \in Seq(Line) /\ NewHead \in Seq(Line)
    BY <1>1, <1>2, RewrittenParts
  <2>3. QED
    BY <1>1, <2>1, <2>2, EncodedEmpty
<1>4. HeadOf(stream) \in Seq(Line)
  BY <1>1, <1>2, HeadTypes
<1>5. /\ Tail(HeadOf(stream)) \in Seq(HeaderLine) /\ h \in Seq(HeaderLine)
      /\ Len(NewHead) = Len(h) + 2 /\ NewHead[Len(h) + 2] = EndOfHead
      /\ NewHead[1] # EndOfHead
      /\ \A i \in 1 .. Len(h) : NewHead[i + 1] = h[i]
  <2>1. /\ override.path \in Path /\ override.mode \in {"Replace", "Prefix", "Append"}
        /\ Tail(HeadOf(stream)) \in Seq(HeaderLine)
        /\ PathAfter(override, HeadOf(stream)[1].path) \in Path
    BY <1>1, <1>4, GivenTypes, ModifyRequestTypes
  <2>2. Written(Request(PathAfter(override, HeadOf(stream)[1].path))) # EndOfHead
    <3>1. Written(Request(PathAfter(override, HeadOf(stream)[1].path))).kind = "request"
      BY <2>1, WrittenTypes
    <3>2. QED
      BY <3>1 DEF EndOfHead
  <2>3. QED
    BY <1>1, <1>4, <2>1, <2>2, NewHeadIs DEF NewHead
<1> HIDE DEF copied, h, end
<1>6. /\ Len(h) \in Nat /\ Len(copied) \in Nat /\ Len(toServer) \in Nat
      /\ \A i \in 1 .. Len(h) : h[i] \in HeaderLine
  BY <1>1, <1>3, <1>5, LenProperties, ElementOfSeq
<1>7. Len(h) + 2 <= Len(toServer) /\ \A i \in 1 .. Len(h) + 2 : toServer[i] = NewHead[i]
  <2>1. /\ Len(NewHead \o copied) = Len(NewHead) + Len(copied)
        /\ \A i \in 1 .. Len(NewHead) + Len(copied) :
               (NewHead \o copied)[i]
                  = IF i <= Len(NewHead) THEN NewHead[i] ELSE copied[i - Len(NewHead)]
    BY <1>3, ConcatProperties
  <2>2. QED
    BY <1>3, <1>5, <1>6, <2>1
<1>8. EndsAt(toServer, Len(h) + 2)
  <2>1. ASSUME NEW j \in 1 .. Len(h) + 1 PROVE toServer[j] # EndOfHead
    <3>1. CASE j = 1
      BY <1>5, <1>6, <1>7, <3>1
    <3>2. CASE j # 1
      <4>1. j - 1 \in 1 .. Len(h) /\ (j - 1) + 1 = j
        BY <1>6, <3>2
      <4>2. toServer[j] = h[j - 1] /\ h[j - 1] \in HeaderLine
        BY <1>5, <1>6, <1>7, <4>1
      <4>3. QED
        BY <4>2 DEF HeaderLine, EndOfHead
    <3>3. QED
      BY <3>1, <3>2
  <2>2. (Len(h) + 2) - 1 = Len(h) + 1
    BY <1>6
  <2>3. Len(h) + 2 \in 1 .. Len(toServer) /\ toServer[Len(h) + 2] = EndOfHead
    BY <1>5, <1>6, <1>7
  <2>4. QED
    BY <2>1, <2>2, <2>3 DEF EndsAt
<1>9. HeadOf(toServer) = SubSeq(toServer, 1, Len(h) + 1)
  <2>1. (Len(h) + 2) - 1 = Len(h) + 1
    BY <1>6
  <2>2. HeadOf(toServer) = SubSeq(toServer, 1, (Len(h) + 2) - 1)
    BY <1>6, <1>8, EndsAtUnique
  <2>3. QED
    BY <2>1, <2>2
<1>10. Tail(SubSeq(toServer, 1, Len(h) + 1)) = SubSeq(toServer, 1 + 1, Len(h) + 1)
  <2>1. 1 \in 1 .. Len(toServer) /\ Len(h) + 1 \in 1 .. Len(toServer)
    BY <1>6, <1>7
  <2>2. QED
    BY <1>1, <2>1, HeadTailOfSubSeq
<1>11. SubSeq(toServer, 2, Len(h) + 1) = h
  <2>1. 2 \in 1 .. Len(toServer) + 1 /\ Len(h) + 1 \in 2 - 1 .. Len(toServer)
    BY <1>6, <1>7
  <2>2. /\ SubSeq(toServer, 2, Len(h) + 1) \in Seq(Line)
        /\ Len(SubSeq(toServer, 2, Len(h) + 1)) = (Len(h) + 1) - 2 + 1
        /\ \A i \in 1 .. (Len(h) + 1) - 2 + 1 :
               SubSeq(toServer, 2, Len(h) + 1)[i] = toServer[2 + i - 1]
    BY <1>1, <2>1, SubSeqExtends
  <2>3. ASSUME NEW i \in 1 .. Len(h) PROVE SubSeq(toServer, 2, Len(h) + 1)[i] = h[i]
    <3>1. i \in 1 .. (Len(h) + 1) - 2 + 1 /\ 2 + i - 1 = i + 1 /\ i + 1 \in 1 .. Len(h) + 2
      BY <1>6
    <3>2. QED
      BY <1>5, <1>7, <2>2, <3>1
  <2>4. h \in Seq(Line) /\ Len(SubSeq(toServer, 2, Len(h) + 1)) = Len(h)
    BY <1>5, <1>6, <2>2, SeqMonotonic DEF Line
  <2>5. QED
    BY <2>2, <2>3, <2>4, SeqEqual
<1>12. QED
  BY <1>5, <1>9, <1>10, <1>11 DEF h

\* What is written of the headers after the override.
LEMMA HeadersWritten ==
    ASSUME NEW asked \in Seq(HeaderLine),
           NEW kept, kept = NotOverridden(ParsedHeaders(asked)),
           NEW seen, seen = Encoded(HeadersAfter(ParsedHeaders(asked)))
    PROVE  /\ HeaderOverrides \in Seq(HeaderLine) /\ Len(HeaderOverrides) \in Nat
           /\ kept \in Seq(HeaderLine) /\ Len(kept) \in Nat
           /\ \A i \in 1 .. Len(kept) : kept[i].key \notin OverriddenKeys
           /\ seen \in Seq(HeaderLine) /\ Len(seen) = Len(kept) + Len(HeaderOverrides)
           /\ \A i \in 1 .. Len(kept) : seen[i] = Written(kept[i])
           /\ \A m \in 1 .. Len(HeaderOverrides) : seen[Len(kept) + m] = Written(HeaderOverrides[m])
<1> DEFINE parsed == ParsedHeaders(asked)
           all == HeadersAfter(parsed)
           W == {e \in HeaderLine : e.key \notin OverriddenKeys}
<1>1. HeaderOverrides \in Seq(HeaderLine) /\ all = kept \o HeaderOverrides
  BY GatewayAssumption DEF HeadersAfter
<1>2. kept \in Seq(W)
  <2>1. parsed \in Seq(HeaderLine) /\ kept = NotOverridden(parsed)
    BY ParsedTypes
  <2> HIDE DEF parsed
  <2>2. QED
    BY <2>1, RetainedAreNotOverridden
<1>3. /\ kept \in Seq(HeaderLine) /\ Len(kept) \in Nat /\ Len(HeaderOverrides) \in Nat
      /\ \A i \in 1 .. Len(kept) : kept[i].key \notin OverriddenKeys
  <2>1. W \subseteq HeaderLine /\ \A e \in W : e.key \notin OverriddenKeys
    OBVIOUS
  <2> HIDE DEF W
  <2>2. kept \in Seq(HeaderLine) /\ Len(kept) \in Nat /\ Len(HeaderOverrides) \in Nat
    BY <1>1, <1>2, <2>1, SeqMonotonic, LenProperties
  <2>3. \A i \in 1 .. Len(kept) : kept[i] \in W
    BY <1>2, ElementOfSeq
  <2>4. QED
    BY <2>1, <2>2, <2>3
<1>4. /\ all \in Seq(HeaderLine) /\ Len(all) = Len(kept) + Len(HeaderOverrides)
      /\ \A i \in 1 .. Len(kept) + Len(HeaderOverrides) :
            all[i] = IF i <= Len(kept) THEN kept[i] ELSE HeaderOverrides[i - Len(kept)]
  BY <1>1, <1>3, ConcatProperties
<1>5. seen = Encoded(all)
  OBVIOUS
<1> HIDE DEF all, parsed, W
<1>6. /\ seen \in Seq(HeaderLine) /\ Len(seen) = Len(all)
      /\ \A i \in 1 .. Len(all) : seen[i] = Written(all[i])
  BY <1>4, <1>5, WrittenTypes, EncodedTypes
<1>7. ASSUME NEW i \in 1 .. Len(kept) PROVE seen[i] = Written(kept[i])
  BY <1>3, <1>4, <1>6
<1>8. ASSUME NEW m \in 1 .. Len(HeaderOverrides)
      PROVE  seen[Len(kept) + m] = Written(HeaderOverrides[m])
  <2>1. /\ Len(kept) + m \in 1 .. Len(kept) + Len(HeaderOverrides)
        /\ ~ (Len(kept) + m <= Len(kept)) /\ (Len(kept) + m) - Len(kept) = m
    BY <1>3
  <2>2. QED
    BY <1>4, <1>6, <2>1
<1>9. QED
  BY <1>1, <1>3, <1>4, <1>6, <1>7, <1>8

\* Each overriding header is written once, and no other one with its key.
LEMMA OverridesOnce ==
    ASSUME NEW asked \in Seq(HeaderLine),
           NEW seen, seen = Encoded(HeadersAfter(ParsedHeaders(asked))),
           NEW h \in ToSet(HeaderOverrides)
    PROVE  \E n \in DOMAIN seen :
               seen[n] = Written(h) /\ \A j \in DOMAIN seen \ {n} : seen[j].key # Utf8[h.key]
<1> DEFINE kept == NotOverridden(ParsedHeaders(asked))
<1>1. /\ HeaderOverrides \in Seq(HeaderLine) /\ Len(HeaderOverrides) \in Nat
      /\ kept \in Seq(HeaderLine) /\ Len(kept) \in Nat
      /\ \A i \in 1 .. Len(kept) : kept[i].key \notin OverriddenKeys
      /\ seen \in Seq(HeaderLine) /\ Len(seen) = Len(kept) + Len(HeaderOverrides)
      /\ \A i \in 1 .. Len(kept) : seen[i] = Written(kept[i])
      /\ \A m \in 1 .. Len(HeaderOverrides) : seen[Len(kept) + m] = Written(HeaderOverrides[m])
  BY HeadersWritten
<1> HIDE DEF kept
<1>2. /\ DOMAIN seen = 1 .. Len(kept) + Len(HeaderOverrides)
      /\ DOMAIN HeaderOverrides = 1 .. Len(HeaderOverrides)
  BY <1>1, LenProperties
<1>3. PICK m \in 1 .. Len(HeaderOverrides) : h = HeaderOverrides[m]
  BY <1>2 DEF ToSet
<1>4. h.key \in OverriddenKeys
  BY DEF OverriddenKeys
<1>5. ASSUME NEW g \in HeaderLine, g.key # h.key PROVE Written(g).key # Utf8[h.key]
  <2>1. Written(g).key = Utf8[g.key] /\ g.key \in Text
    BY WrittenTypes DEF Header, HeaderLine
  <2>2. QED
    BY <1>5, <2>1, TextAssumption
<1>6. ASSUME NEW j \in DOMAIN seen \ {Len(kept) + m} PROVE seen[j].key # Utf8[h.key]
  <2>1. CASE j <= Len(kept)
    <3>1. j \in 1 .. Len(kept)
      BY <1>1, <1>2, <2>1
    <3>2. kept[j] \in HeaderLine /\ kept[j].key # h.key /\ seen[j] = Written(kept[j])
      BY <1>1, <1>4, <3>1, ElementOfSeq
    <3>3. QED
      BY <1>5, <3>2
  <2>2. CASE ~ (j <= Len(kept))
    <3>1. PICK k \in 1 .. Len(HeaderOverrides) : k # m /\ j = Len(kept) + k
      <4>1. /\ j - Len(kept) \in 1 .. Len(HeaderOverrides) /\ j - Len(kept) # m
            /\ j = Len(kept) + (j - Len(kept))
        BY <1>1, <1>2, <2>2
      <4>2. QED
        BY <4>1
    <3>2. HeaderOverrides[k].key # h.key
      BY <1>2, <1>3, <3>1, GatewayAssumption
    <3>3. HeaderOverrides[k] \in HeaderLine /\ seen[j] = Written(HeaderOverrides[k])
      BY <1>1, <3>1, ElementOfSeq
    <3>4. QED
      BY <1>5, <3>2, <3>3
  <2>3. QED
    BY <2>1, <2>2
<1>7. Len(kept) + m \in DOMAIN seen /\ seen[Len(kept) + m] = Written(h)
  BY <1>1, <1>2, <1>3
<1>8. QED
  BY <1>6, <1>7

\* Of plain headers, those that are not overridden are written as they came.
LEMMA PlainHeadersKept ==
    ASSUME NEW asked \in Seq(HeaderLine),
           NEW seen, seen = Encoded(HeadersAfter(ParsedHeaders(asked))),
           \A h \in ToSet(asked) : Plain(h.key) /\ Plain(h.value)
    PROVE  SubSeq(seen, 1, Len(seen) - Len(HeaderOverrides)) = NotOverridden(asked)
<1> DEFINE V == {e \in HeaderLine : Plain(e.key) /\ Plain(e.value)}
           kept == NotOverridden(asked)
<1>1. Len(asked) \in Nat /\ DOMAIN asked = 1 .. Len(asked)
  BY LenProperties
<1>2. ASSUME NEW n \in 1 .. Len(asked) PROVE asked[n] \in V
  <2>1. asked[n] \in HeaderLine
    BY ElementOfSeq
  <2>2. asked[n] \in ToSet(asked)
    BY <1>1 DEF ToSet
  <2>3. QED
    BY <2>1, <2>2
<1>3. asked \in Seq(V)
  <2>1. SubSeq(asked, 1, Len(asked)) = asked
    BY SubSeqFull
  <2> HIDE DEF V
  <2>2. SubSeq(asked, 1, Len(asked)) \in Seq(V)
    BY <1>1, <1>2, SubSeqProperties
  <2>3. QED
    BY <2>1, <2>2
<1>4. ParsedHeaders(asked) = asked
  <2>1. /\ ParsedHeaders(asked) \in Seq(HeaderLine) /\ Len(ParsedHeaders(asked)) = Len(asked)
        /\ \A n \in 1 .. Len(asked) :
              ParsedHeaders(asked)[n] = Header(Trim[asked[n].key], Trim[asked[n].value])
    BY ParsedTypes
  <2>2. ASSUME NEW n \in 1 .. Len(asked) PROVE ParsedHeaders(asked)[n] = asked[n]
    <3>1. /\ asked[n] = Header(asked[n].key, asked[n].value)
          /\ Trim[asked[n].key] = asked[n].key /\ Trim[asked[n].value] = asked[n].value
      BY <1>2 DEF HeaderLine, Header, Plain
    <3>2. QED
      BY <2>1, <3>1
  <2>3. QED
    BY <2>1, <2>2, SeqEqual
<1>5. /\ Len(HeaderOverrides) \in Nat /\ kept \in Seq(HeaderLine) /\ Len(kept) \in Nat
      /\ seen \in Seq(HeaderLine) /\ Len(seen) = Len(kept) + Len(HeaderOverrides)
      /\ \A i \in 1 .. Len(kept) : seen[i] = Written(kept[i])
  BY <1>4, HeadersWritten
<1>6. ASSUME NEW i \in 1 .. Len(kept) PROVE seen[i] = kept[i]
  <2>1. kept[i] \in V
    <3>1. kept \in Seq({e \in V : e.key \notin OverriddenKeys})
      BY <1>3, RetainedAreNotOverridden
    <3> HIDE DEF V, kept
    <3>2. kept[i] \in {e \in V : e.key \notin OverriddenKeys}
      BY <3>1, ElementOfSeq
    <3>3. QED
      BY <3>2
  <2> HIDE DEF kept
  <2>2. Written(kept[i]) = kept[i]
    BY <2>1, WrittenTypes DEF Plain, Header, HeaderLine
  <2>3. QED
    BY <1>5, <2>2
<1> HIDE DEF kept
<1>7. Len(seen) - Len(HeaderOverrides) = Len(kept)
  BY <1>5
<1>8. /\ SubSeq(seen, 1, Len(kept)) \in Seq(HeaderLine)
      /\ Len(SubSeq(seen, 1, Len(kept))) = Len(kept)
      /\ \A i \in 1 .. Len(kept) : SubSeq(seen, 1, Len(kept))[i] = seen[i]
  <2>1. 1 \in 1 .. Len(seen) + 1 /\ Len(kept) \in 1 - 1 .. Len(seen)
    BY <1>5
  <2>2. /\ SubSeq(seen, 1, Len(kept)) \in Seq(HeaderLine)
        /\ Len(SubSeq(seen, 1, Len(kept))) = Len(kept) - 1 + 1
        /\ \A i \in 1 .. Len(kept) - 1 + 1 : SubSeq(seen, 1, Len(kept))[i] = seen[1 + i - 1]
    BY <1>5, <2>1, SubSeqExtends
  <2>3. QED
    BY <1>5, <2>2
<1>9. SubSeq(seen, 1, Len(kept)) = kept
  BY <1>5, <1>6, <1>8, SeqEqual
<1>10. QED
  BY <1>7, <1>9 DEF kept

\* The server sees every overriding header once and no other one with its key, whatever the
\* client sent, and all other headers of a client whose headers are plain as it sent them.
THEOREM OverridesApply == Spec => []HeadersAreOverridden
<1>1. ASSUME Given, Counters, Phases, GatewayInv PROVE HeadersAreOverridden
  <2> SUFFICES ASSUME phase = "copying" PROVE HeadersAreOverridden
    BY DEF HeadersAreOverridden
  <2> DEFINE seen == Tail(HeadOf(toServer))
             asked == Tail(HeadOf(stream))
  <2>1. asked \in Seq(HeaderLine) /\ seen = Encoded(HeadersAfter(ParsedHeaders(asked)))
    BY <1>1, HeadersSeen
  <2> HIDE DEF seen, asked
  <2>2. \A h \in ToSet(HeaderOverrides) :
            \E n \in DOMAIN seen :
               seen[n] = Written(h) /\ \A j \in DOMAIN seen \ {n} : seen[j].key # Utf8[h.key]
    BY <2>1, OverridesOnce
  <2>3. (\A h \in ToSet(asked) : Plain(h.key) /\ Plain(h.value)) =>
            SubSeq(seen, 1, Len(seen) - Len(HeaderOverrides)) = NotOverridden(asked)
    BY <2>1, PlainHeadersKept
  <2>4. QED
    BY <2>2, <2>3 DEF HeadersAreOverridden, seen, asked
<1>2. QED
  BY <1>1, GatewayInvHolds, PTL

LEMMA PathAfterIsClean ==
    ASSUME NEW o, o.path \in Path, o.mode \in {"Replace", "Prefix", "Append"}, NEW path \in Path,
           Clean(o.path), o.path = Root => o.mode = "Replace", Clean(path)
    PROVE  Clean(PathAfter(o, path))
<1>1. CASE o.mode = "Replace" \/ path = Root
  BY <1>1 DEF PathAfter
<1>2. CASE o.mode # "Replace" /\ path # Root
  <2>1. Empty \notin ToSet(o.path) /\ Empty \notin ToSet(path)
    BY <1>2 DEF Clean
  <2>2. /\ ToSet(o.path \o path) = ToSet(o.path) \cup ToSet(path)
        /\ ToSet(path \o o.path) = ToSet(path) \cup ToSet(o.path)
    BY SetOfConcat DEF Path
  <2>3. PathAfter(o, path) = o.path \o path \/ PathAfter(o, path) = path \o o.path
    BY <1>2 DEF PathAfter
  <2>4. QED
    BY <2>1, <2>2, <2>3 DEF Clean
<1>3. QED
  BY <1>1, <1>2

\* A clean path is written as one.
LEMMA WrittenIsClean ==
    ASSUME NEW path \in Path, Clean(path)
    PROVE  Clean(Written(Request(path)).path)
<1> DEFINE f == [n \in DOMAIN path |-> Utf8[path[n]]]
<1>1. Written(Request(path)).path = f
  BY WrittenTypes
<1>2. path \in Seq(Text) /\ Len(path) \in Nat /\ DOMAIN path = 1 .. Len(path)
  BY LenProperties DEF Path
<1>3. f = [n \in DOMAIN path |-> f[n]] /\ \A n \in 1 .. Len(path) : f[n] = Utf8[path[n]]
  BY <1>2
<1>4. \A n \in 1 .. Len(path) : f[n] \in Text
  BY <1>2, <1>3, ElementOfSeq, TextAssumption
<1> HIDE DEF f
<1>5. f \in Seq(Text) /\ Len(f) = Len(path) /\ DOMAIN f = 1 .. Len(path)
  BY <1>2, <1>3, <1>4, EachOf, LenProperties
<1>6. CASE path = Root
  <2>1. PICK root \in Seq(Text) : root = Root /\ Len(root) = 1 /\ root[1] = Empty
    BY TextAssumption, OneElement DEF Root
  <2>2. Len(f) = 1 /\ f[1] = Empty
    BY <1>2, <1>3, <1>5, <1>6, <2>1, TextAssumption
  <2>3. f = root
    BY <1>5, <2>1, <2>2, SeqEqual
  <2>4. QED
    BY <1>1, <2>1, <2>3 DEF Clean
<1>7. CASE Empty \notin ToSet(path)
  <2>1. ASSUME NEW n \in 1 .. Len(path) PROVE f[n] # Empty
    <3>1. path[n] \in Text /\ path[n] # Empty
      BY <1>2, <1>7, ElementOfSeq DEF ToSet
    <3>2. QED
      BY <1>3, <3>1, TextAssumption
  <2>2. QED
    BY <1>1, <1>5, <2>1 DEF Clean, ToSet
<1>8. QED
  BY <1>6, <1>7 DEF Clean

\* An override that does not end in "/", or is "/" and replaces the path, makes no path with
\* "//" in it or with a "/" at its end of one without.
THEOREM PathsAreJoinedClean == Spec => []PathsStayClean
<1>1. ASSUME Given, Counters, Phases, GatewayInv PROVE PathsStayClean
  <2> SUFFICES ASSUME toServer # <<>>, Clean(override.path),
                      override.path = Root => override.mode = "Replace", Clean(stream[1].path)
               PROVE  Clean(toServer[1].path)
    BY DEF PathsStayClean
  <2> DEFINE end == EndOf(stream)
             copied == SubSeq(stream, end + 1, read)
  <2>1. phase \in {"writing", "copying", "closing", "done"}
    BY <1>1 DEF Phases, GatewayInv, HeadIsRead
  <2>2. /\ EndsAt(stream, end) /\ end <= read /\ WellFormed(HeadOf(stream))
        /\ toServer \o Encoded(pending) = NewHead \o copied
        /\ toServer \in Seq(Line) /\ pending \in Seq(Line)
    BY <1>1, <2>1 DEF GatewayInv, HeadIsRewritten
  <2>3. HeadOf(stream) = SubSeq(stream, 1, end - 1)
    BY DEF HeadOf
  <2>4. copied \in Seq(Line) /\ NewHead \in Seq(Line)
    BY <1>1, <2>2, <2>3, RewrittenParts
  <2>5. HeadOf(stream) \in Seq(Line) /\ HeadOf(stream)[1] = stream[1]
    BY <1>1, <2>2, <2>3, HeadTypes
  <2>6. /\ PathAfter(override, stream[1].path) \in Path /\ stream[1].path \in Path
        /\ override.path \in Path /\ override.mode \in {"Replace", "Prefix", "Append"}
    BY <1>1, <2>2, <2>5, GivenTypes, ModifyRequestTypes
  <2>7. NewHead[1] = Written(Request(PathAfter(override, stream[1].path))) /\ Len(NewHead) \in Nat \ {0}
    <3> DEFINE h == Encoded(HeadersAfter(ParsedHeaders(Tail(HeadOf(stream)))))
    <3>1. /\ NewHead[1] = Written(Request(PathAfter(override, stream[1].path)))
          /\ Len(NewHead) = Len(h) + 2 /\ h \in Seq(HeaderLine)
      BY <2>2, <2>5, <2>6, NewHeadIs DEF NewHead
    <3> HIDE DEF h
    <3>2. QED
      BY <3>1, LenProperties
  <2> DEFINE written == Encoded(pending)
  <2>8. written \in Seq(Line) /\ toServer \o written = NewHead \o copied
    BY <2>2, WrittenTypes, EncodedTypes
  <2> HIDE DEF copied, end, written
  <2>9. toServer[1] = NewHead[1]
    <3>1. Len(toServer) \in Nat \ {0} /\ Len(written) \in Nat /\ Len(copied) \in Nat
      BY <2>2, <2>4, <2>8, EmptySeq, LenProperties
    <3>2. (toServer \o written)[1] = toServer[1]
      BY <2>2, <2>8, <3>1, ConcatProperties
    <3>3. (NewHead \o copied)[1] = NewHead[1]
      BY <2>4, <2>7, <3>1, ConcatProperties
    <3>4. QED
      BY <2>8, <3>2, <3>3
  <2>10. Clean(PathAfter(override, stream[1].path))
    BY <2>6, PathAfterIsClean
  <2>11. QED
    BY <2>6, <2>7, <2>9, <2>10, WrittenIsClean
<1>2. QED
  BY <1>1, GatewayInvHolds, PTL
============================================================================
