--------------------------- MODULE MCHttpGateway ---------------------------
(* Clients with data or a second request behind their head, a Host header    *)
(* spelt in two ways or padded, a path or "/", text that is not ASCII, and   *)
(* heads that are malformed or never end.                                    *)
EXTENDS HttpGateway

\* "e9" is the one byte of this number.  It is written as the two bytes "c3 a9", which
\* would be written as four: "longer" stands for all texts beyond those that are sent.
MCText == {"", "a", "p", "q", "Host", " Host", "host", "server", "gateway", "Accept",
           "all", "all ", "e9", "c3 a9", "longer"}
MCTrim == [t \in MCText |-> CASE t = " Host" -> "Host" [] t = "all " -> "all" [] OTHER -> t]
MCUtf8 == [t \in MCText |->
              CASE t = "e9" -> "c3 a9" [] t = "c3 a9" -> "longer" [] OTHER -> t]

\* The overrides of the documentation, the proxy's and the default.
MCPathOverrides ==
    {[mode |-> m, path |-> <<"p", "q">>] : m \in {"Prefix", "Replace", "Append"}}
    \cup {[mode |-> m, path |-> Root] : m \in {"Replace", "Prefix"}}
MCHeaderOverrides == <<Header("Host", "server")>>

Heads == {<<Request(path), Header("Host", "gateway"), Header("Accept", "all"),
            Header("host", "gateway"), EndOfHead>> : path \in {Root, <<"a">>}}
OtherHead == <<Request(<<"e9">>), Header(" Host", "gateway"), Header("Accept", "all "),
               Header("e9", "c3 a9"), EndOfHead>>

MCClientStreams ==
    {head \o <<Data(1), Data(2)>> : head \in Heads}
    \cup {head \o head : head \in Heads \cup {OtherHead}}
    \cup {<<Request(Root), Garbage, EndOfHead>>, <<Request(Root), Header("Host", "gateway")>>}

MCServerStream == <<Data(3), Data(4)>>
============================================================================
