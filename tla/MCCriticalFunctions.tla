------------------------ MODULE MCCriticalFunctions ------------------------
(***************************************************************************)
(* Small instances of the inputs of module CriticalFunctions.              *)
(***************************************************************************)
EXTENDS CriticalFunctions

\* 05 and 5 are one length, 7 is over the limit of 6 and 99 over the u64 of 20.
MCMembers ==
    {<<>>, <<0>>, <<0, 5>>, <<5, Space>>, <<7>>, <<9, 9>>, <<5, Space, 5>>, <<Junk>>,
     <<Space, Coding>>}

MCField(name, value) == [name |-> name, value |-> value]

MCHeaderFields ==
    {MCField(name, value) : name \in {"content-length", "transfer-encoding"},
                            value \in {<<m>> : m \in MCMembers}
                                      \cup {<<m, <<5>>>> : m \in MCMembers}
                                      \cup {<<<<Coding>>, m>> : m \in MCMembers}}
    \cup {MCField("other", <<<<5>>>>)}

MCRule(host, prefix, order, bad) ==
    [host |-> host, path_prefix |-> prefix, upstream |-> "u", declaration_order |-> order,
     bad |-> bad]

\* Orders 0 and 4 fall into one slot of four; 0 is also repeated.
MCRules ==
    {MCRule("h", <<Slash>>, 1, "none"), MCRule("h", <<Slash, 1>>, 0, "none"),
     MCRule("h", <<Slash, 1>>, 4, "none"), MCRule("h", <<Slash, 1, Slash, 2>>, 2, "none"),
     MCRule("g", <<Slash, 1>>, 0, "none"), MCRule("h", <<Slash, 1>>, 3, "prefix")}

MCAuthorities == {"h", "g", "k"}

MCTarget(form, path) == [form |-> form, routing_path |-> path]

MCTargets ==
    {MCTarget("Origin", <<Slash, 1>>), MCTarget("Origin", <<Slash, 1, 2>>),
     MCTarget("Absolute", <<Slash, 1, Slash, 2>>), MCTarget("Asterisk", <<3>>)}

MCHost(kind, name) == [kind |-> kind, name |-> name]

MCRoute(host, kind, path, methods, schemes) ==
    [host |-> host, match_kind |-> kind, path |-> path, methods |-> methods, schemes |-> schemes]

MCSiteRoutes ==
    {MCRoute(host, "BoundaryPrefix", <<Separator, 1>>, {}, {}) :
        host \in {MCHost("exact", <<"c", "b", "a">>)}}
    \cup {MCRoute(host, kind, path, {}, {}) :
            host \in {MCHost("any", <<>>), MCHost("wildcard", <<"b", "a">>),
                      MCHost("exact", <<"c", "b", "a">>)},
            kind \in {"Exact", "Prefix"}, path \in {<<Separator>>, <<Separator, 1>>}}
    \cup {MCRoute(MCHost("wildcard", <<"a">>), "Prefix", <<Separator>>, {"get"}, {}),
          MCRoute(MCHost("any", <<>>), "Prefix", <<Separator, 1, 2>>, {}, {"https"})}

MCRequests ==
    [host : {<<"c", "b", "a">>, <<"b", "a">>}, method : {"get", "post"}, scheme : {"http", "https"},
     path : {<<Separator>>, <<Separator, 1>>, <<Separator, 1, 2>>, <<Separator, 1, Separator>>}]

\* x is a prefix of x-y, te is fixed, X and Te are upper case.
MCHopFields ==
    {MCField(Connection, value) :
        value \in {<<>>, <<Ows>>, <<"X">>, <<Ows, "x", Ows>>, <<"x", "y">>, <<"x", Comma, "Te">>,
                   <<"x", Comma>>, <<"x", Ows, "y">>, <<"x", Bad>>, <<"y", Comma, Ows, "x", "y">>}}
    \cup {MCField(name, <<"v">>) : name \in {<<"te">>, <<"x">>, <<"x", "y">>, <<"y">>, <<"host">>}}

MCHandshake ==
    <<MCField(Connection, <<"keep-alive", Comma, Ows, "Upgrade">>),
      MCField(<<"upgrade">>, <<"WebSocket">>),
      MCField(<<"sec-websocket-version">>, <<"13">>),
      MCField(<<"sec-websocket-key">>, <<"canonical">>)>>

\* A complete handshake, the handshake without one of its fields, and fields
\* that complete it, repeat it or spoil it.
MCUpgradeParts ==
    {MCHandshake}
    \cup {SelectSeq(MCHandshake, LAMBDA field : field # MCHandshake[i]) : i \in 1 .. 4}
    \cup {<<MCHandshake[i]>> : i \in 1 .. 4}
    \cup {<<MCField(name, value)>> : name \in {Connection}, value \in {<<"te">>, <<"upgrade", Comma>>}}
    \cup {<<MCField(<<"upgrade">>, <<"h2c">>)>>,
          <<MCField(<<"sec-websocket-version">>, <<"8">>)>>,
          <<MCField(<<"sec-websocket-key">>, <<"trailing">>)>>,
          <<MCField(<<"sec-websocket-key">>, <<"short">>)>>,
          <<MCField(PROTOCOL, <<"x", Comma, "y">>)>>,
          <<MCField(PROTOCOL, <<"x", Comma, "x">>)>>,
          <<MCField(<<"sec-websocket-extensions">>, <<"x">>)>>,
          <<MCField(CONTENT_LENGTH, <<"0">>)>>,
          <<MCField(TRANSFER_ENCODING, <<"chunked">>)>>,
          <<MCField(<<"host">>, <<"v">>)>>}

MCUpgradeRequests ==
    {[method |-> "get", target |-> "Origin"], [method |-> "get", target |-> "Absolute"],
     [method |-> "post", target |-> "Origin"], [method |-> "options", target |-> "Asterisk"]}

MCFramings == {"None", "ContentLength", "Chunked"}

MCRepeat(symbol, n) == [i \in 1 .. n |-> symbol]

\* The limit is 12: 4 symbols leave room for an IPv4 hop and not for an IPv6
\* hop, 9 for an address, 10 for none, and 13 is over by itself.
MCForwardingFields ==
    {MCField(name, value) :
        name \in {<<"forwarded">>, <<"x-forwarded-for">>},
        value \in {<<"a">>, <<"a", Comma, Blank, "b">>, <<"a", Comma, Blank>>, <<Comma, "a">>, <<"a", Bad>>,
                   MCRepeat("a", 9), MCRepeat("a", 10), MCRepeat("a", 13)}}
    \cup {MCField(name, value) : name \in {<<"x-forwarded-proto">>, <<"x-forwarded-host">>},
                                 value \in {<<"a">>, MCRepeat("a", 10)}}
    \cup {MCField(<<"host">>, <<"v">>)}

MCClient(family) == [text |-> "ip", family |-> family, canonical |-> TRUE]

MCPolicies ==
    [trust_incoming : BOOLEAN, client : {MCClient("V4"), MCClient("V6")}, proto : {"https"},
     host : {"h"}, host_valid : {TRUE}]

\* Sizes of one, two and three digits with a limit of 32 and two digits, and
\* lines with one or two extensions begun.
MCChunkStarts ==
    {<<>>, <<1>>, <<15, 15>>, <<0, 0, 1>>, <<1, Semicolon, Letter>>,
     <<1, Semicolon, Capital, Equals, Quote>>, <<1, Semicolon, Letter, Semicolon, Letter, Equals, Quote>>}

MCChunkPieces ==
    {<<byte>> : byte \in {1, Letter, Semicolon, Equals, Quote, Escape, Plain, Control, CR, LF, Wide, Broken}}

\* Names of one and two bytes, and of three, over the limit of 2; lines that are
\* good, folded, without a colon, padded before it, forbidden; loose bytes.
MCTrailerPieces ==
    {<<Letter, Colon, Padding, Plain, CR, LF>>, <<Capital, 1, Colon, CR, LF>>, <<1, Colon, CR, LF>>,
     <<Letter, 1, 1, Colon, CR, LF>>, <<Titled, Colon, CR, LF>>, <<Prefixed, 1, Colon, CR, LF>>,
     <<1, Padding, Colon, CR, LF>>, <<Padding, Letter, Colon>>, <<Letter>>, <<Colon, Control>>,
     <<CR>>, <<LF>>, <<CR, LF>>}

MCDeclaredNames ==
    {<<>>, <<<<Letter>>, <<1>>>>, <<<<Letter, 1>>, <<Letter>>, <<1>>>>, <<<<Letter, 1>>, <<1>>>>,
     <<<<1>>, <<Letter>>, <<1>>>>, <<<<1>>, <<Prefixed, 1>>>>, <<<<1>>, <<1>>, <<Reserved>>>>,
     <<<<Reserved>>>>, <<<<Plain>>, <<1>>, <<1>>>>}
=============================================================================
