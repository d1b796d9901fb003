-------------------------------- MODULE Links --------------------------------
(***************************************************************************)
(* The representations a client gets of one inbound: the share link        *)
(* (util/genLink.go), the outbound another panel or this one reads from    *)
(* the link (util/linkToJson.go), the outbound of the JSON subscription    *)
(* (util/outJson.go, sub/jsonService.go) and the proxy of the Clash        *)
(* subscription made from either outbound (sub/clashService.go).           *)
(*                                                                         *)
(* Each is a function from the names of the fields it has to their values; *)
(* a field that is absent or empty reads as Unset, a flag set as "1".      *)
(* An inbound is such a function too, with the TLS row and the transport   *)
(* it has; an address of it is what the address overrides TLS with.  What  *)
(* is the same constant in every outbound of a type is left out.           *)
(***************************************************************************)
EXTENDS Naturals, Sequences

CONSTANTS
    Overrides       \* the address lists considered

Unset == "unset"
None  == <<>>
One(field, value)  == [k \in {field} |-> value]
Opt(field, value)  == IF value = Unset THEN None ELSE One(field, value)
Get(f, field)      == IF field \in DOMAIN f THEN f[field] ELSE Unset
Only(f, fields)    == [k \in DOMAIN f \cap fields |-> f[k]]
Carry(f, from, to) == Opt(to, Get(f, from))

\* The fields of f, and those of g that f has not.
f ++ g == [k \in DOMAIN f \cup DOMAIN g |-> IF k \in DOMAIN f THEN f[k] ELSE g[k]]

-----------------------------------------------------------------------------
(* Inbounds.  *)

OverTransport == {"vless", "vmess", "trojan"}
OverQuic      == {"hysteria", "hysteria2", "tuic"}
LinkTypes     == OverTransport \cup OverQuic \cup {"anytls", "naive", "shadowsocks"}

\* Fields of the client's TLS map that no link has.
JsonTls == {"ech", "certificate", "minVersion", "maxVersion", "cipherSuites"}

\* The TLS map of the client: a fingerprint may be stored with utls switched off,
\* and utls be on without one.
ClientTls ==
    {None, One("fp", "chrome") ++ One("utls", "1"), One("utls", "1"),
     One("fp", "chrome") ++ [f \in JsonTls |-> "x"]}

TlsRows ==
    { One("tls", "1") ++ Opt("sni", sni) ++ Opt("alpn", alpn) ++ client ++ kind :
        sni \in {Unset, "a"}, alpn \in {Unset, "h2"}, client \in ClientTls,
        kind \in {None, One("insecure", "1"), One("disableSni", "1"),
                  One("reality", "1") ++ One("pbk", "key") ++ One("sid", "id")} }

\* mux is what an administrator sets for the clients in the outbound itself.
Transports ==
    { None, One("transport", "quic") ++ One("mux", "x"),
      One("transport", "grpc") ++ One("service", "s") }
    \cup { One("transport", t) ++ more :
             t \in {"http", "ws", "httpupgrade"},
             more \in {None, One("host", "h"), One("path", "p"),
                       One("host", "h") ++ One("path", "p") ++ One("earlyData", "e")} }

\* Only the functions of outJson.go take recvWindow to quicControl over.
HysteriaOptions ==
    { None, One("up", "10") ++ One("down", "20") ++ One("obfs", "o"),
      One("ports", "1:9") ++ [f \in {"fastOpen", "recvWindow", "mtuDiscovery"} |-> "x"] }
TuicOptions ==
    { None, One("mode", "native"), One("congestion", "bbr"),
      One("mode", "native") ++ One("congestion", "bbr")
        ++ [f \in {"zeroRtt", "heartbeat"} |-> "x"] }
NaiveOptions == { Opt("quicControl", c) : c \in {Unset, "bbr_standard", "bbr"} }

Options ==
    [ t \in LinkTypes |->
        CASE t \in OverTransport -> { x ++ y : x \in Transports, y \in {None} \cup TlsRows }
          [] t \in {"hysteria", "hysteria2"} -> { x ++ y : x \in HysteriaOptions, y \in TlsRows }
          [] t = "tuic"   -> { x ++ y : x \in TuicOptions, y \in TlsRows }
          [] t = "naive"  -> { x ++ y : x \in NaiveOptions, y \in TlsRows }
          [] t = "anytls" -> TlsRows
          [] OTHER -> {None} ]

\* An address switches TLS on when it has an override, and may name the server;
\* an inbound that has lost its TLS row may still have such addresses.
Override(name) == One("tls", "1") ++ Opt("sni", name)

InboundsWith(t, o) ==
    { [type |-> t, options |-> o, flow |-> flow, addrs |-> addrs] :
        flow   \in IF t = "vless" THEN {Unset, "vision"} ELSE {Unset},
        addrs  \in IF t = "shadowsocks" THEN {<<>>} ELSE Overrides }

Inbounds == UNION { UNION { InboundsWith(t, o) : o \in Options[t] } : t \in LinkTypes }

HasTls(i)    == Get(i.options, "tls") = "1"
Plain(i)     == Get(i.options, "transport") = Unset
Addresses(i) == IF i.addrs = <<>> THEN <<None>> ELSE i.addrs

\* The TLS of one address: the override, else the row's.
Overridden(i, n) == Addresses(i)[n] ++ i.options
Secured(o)       == Get(o, "tls") = "1"

-----------------------------------------------------------------------------
(* The link.  *)

\* getTlsParams.
TlsParams(o, insecureKey) ==
    (IF Get(o, "reality") = "1"
     THEN One("security", "reality") ++ Carry(o, "pbk", "pbk") ++ Carry(o, "sid", "sid")
     ELSE One("security", "tls") ++ Carry(o, "insecure", insecureKey)
                                ++ Carry(o, "disableSni", "disable_sni"))
    ++ Carry(o, "fp", "fp") ++ Carry(o, "sni", "sni") ++ Carry(o, "alpn", "alpn")

\* A gRPC link without its service: a wrong TransportParams.
TransportParamsBare(o) ==
    LET t == Get(o, "transport")
    IN  One("type", IF t = Unset THEN "tcp" ELSE t)
        ++ (IF t \in {"http", "ws", "httpupgrade"}
            THEN Carry(o, "host", "host") ++ Carry(o, "path", "path") ELSE None)

\* getTransportParams.
TransportParams(o) ==
    LET t == Get(o, "transport")
    IN  One("type", IF t = Unset THEN "tcp" ELSE t)
        ++ (IF t \in {"http", "ws", "httpupgrade"}
            THEN Carry(o, "host", "host") ++ Carry(o, "path", "path") ELSE None)
        ++ (IF t = "grpc" THEN Carry(o, "service", "serviceName") ELSE None)

\* vlessLink: xtls-rprx-vision only over TLS on plain TCP.
FlowParam(i, o) == IF Secured(o) /\ Plain(i) THEN Opt("flow", i.flow) ELSE None

\* vmessLink: a JSON object of its own, which takes from the transport its type,
\* host and path, and from TLS what is not of reality.
VmessObject(o) ==
    LET t == Get(TransportParams(o), "type")
    IN  One("net", IF t = "http" THEN "tcp" ELSE t)
        ++ (IF t = "http" THEN One("type", "http") ELSE None)
        ++ Only(TransportParams(o), {"host", "path"})
        ++ (IF Secured(o)
            THEN One("tls", "tls") ++ Only(TlsParams(o, "allowInsecure"),
                                          {"allowInsecure", "sni", "fp", "alpn"})
            ELSE One("tls", "none"))

\* The speeds of the server are those of the client the other way round.
SpeedParams(o) == Carry(o, "up", "downmbps") ++ Carry(o, "down", "upmbps")

\* vlessLink, trojanLink.
StreamParams(i, o) ==
    TransportParams(o) ++ FlowParam(i, o)
    ++ (IF Secured(o) THEN TlsParams(o, "allowInsecure") ELSE None)

\* hysteriaLink, hysteria2Link.
HysteriaParams(type, o) ==
    SpeedParams(o) ++ TlsParams(o, "insecure") ++ Carry(o, "ports", "mport")
    ++ Carry(o, "fastOpen", "fastopen")
    ++ (IF Get(o, "obfs") = Unset THEN None
        ELSE IF type = "hysteria" THEN One("obfs", o["obfs"])
             ELSE One("obfs", "salamander") ++ One("obfs-password", o["obfs"]))

\* tuicLink: a mode that is not set is written as the one the server prefers.
TuicParams(o) ==
    TlsParams(o, "insecure") ++ Carry(o, "congestion", "congestion_control")
    ++ One("udp_relay_mode", IF Get(o, "mode") = Unset THEN "quic" ELSE o["mode"])

\* naiveLink.
NaiveParams(o) ==
    Carry(o, "sni", "peer") ++ Carry(o, "alpn", "alpn") ++ Carry(o, "insecure", "insecure")

\* LinkGenerator.
LinkParams(i, n) ==
    LET o == Overridden(i, n)
    IN  CASE i.type \in {"vless", "trojan"}       -> StreamParams(i, o)
          [] i.type = "vmess"                     -> VmessObject(o)
          [] i.type \in {"hysteria", "hysteria2"} -> HysteriaParams(i.type, o)
          [] i.type = "tuic"                      -> TuicParams(o)
          [] i.type = "anytls"                    -> TlsParams(o, "insecure")
          [] i.type = "naive"                     -> NaiveParams(o)
          [] OTHER                                -> None

-----------------------------------------------------------------------------
(* The outbound read from a link.  *)

\* getTls: a fingerprint switches utls on.
GetTls(security, q) ==
    (IF security = Unset THEN None ELSE One("tls", "1"))
    ++ (IF security = "reality"
        THEN One("reality", "1") ++ Carry(q, "pbk", "pbk") ++ Carry(q, "sid", "sid") ELSE None)
    ++ Carry(q, "sni", "sni") ++ Carry(q, "alpn", "alpn") ++ Carry(q, "fp", "fp")
    ++ (IF Get(q, "fp") = Unset THEN None ELSE One("utls", "1")) ++ Carry(q, "ech", "ech")
    ++ (IF "1" \in {Get(q, "insecure"), Get(q, "allowInsecure")} THEN One("insecure", "1") ELSE None)
    ++ Carry(q, "disable_sni", "disableSni")

\* getTransport.
GetTransport(type, q) ==
    CASE type \in {"http", "ws", "httpupgrade"} ->
            One("transport", type) ++ Carry(q, "host", "host") ++ Carry(q, "path", "path")
      [] type = "grpc" -> One("transport", "grpc") ++ Carry(q, "serviceName", "service")
      [] type = "quic" -> One("transport", "quic")
      [] OTHER -> None

\* vmess: the service of gRPC is looked for in the path, and a websocket gets the
\* header of early data.
FromVmess(q) ==
    LET type == IF Get(q, "net") = "tcp" THEN Get(q, "type") ELSE q["net"]
    IN  (IF type = "grpc" THEN One("transport", "grpc") ++ Carry(q, "path", "service")
                          ELSE GetTransport(type, q))
        ++ (IF type = "ws" THEN One("earlyData", "Sec-WebSocket-Protocol") ELSE None)
        ++ (IF q["tls"] = "tls" THEN GetTls("tls", q) ELSE None)

\* A link without "security" over QUIC or anytls is one with TLS.
SecurityOr(default, q) == IF Get(q, "security") = Unset THEN default ELSE q["security"]

\* trojan, and vless, which has a flow as well.
FromTrojan(q) == GetTls(Get(q, "security"), q) ++ GetTransport(Get(q, "type"), q)
FromVless(q)  == FromTrojan(q) ++ Carry(q, "flow", "flow")

\* hy, hy2.
FromHysteria(type, q) ==
    GetTls(SecurityOr("tls", q), q) ++ Carry(q, "upmbps", "up") ++ Carry(q, "downmbps", "down")
    ++ (IF type = "hysteria"
        THEN Carry(q, "obfsParam", "obfs") ++ Carry(q, "recv_window_conn", "recvWindow")
        ELSE Carry(q, "mport", "ports") ++ Carry(q, "fastopen", "fastOpen")
             ++ (IF Get(q, "obfs") = "salamander"
                 THEN Carry(q, "obfs-password", "obfs") ELSE None))

\* anytls, tuic.
FromAnytls(q) == GetTls(SecurityOr("tls", q), q)
FromTuic(q) ==
    FromAnytls(q) ++ Carry(q, "udp_relay_mode", "mode")
    ++ Carry(q, "congestion_control", "congestion")

\* parseNaiveLink.
FromNaive(q) ==
    One("tls", "1") ++ Carry(q, "peer", "sni") ++ Carry(q, "alpn", "alpn")
    ++ Carry(q, "insecure", "insecure")

\* GetOutbound.
FromLink(type, q) ==
    CASE type = "vless"                     -> FromVless(q)
      [] type = "trojan"                    -> FromTrojan(q)
      [] type = "vmess"                     -> FromVmess(q)
      [] type \in {"hysteria", "hysteria2"} -> FromHysteria(type, q)
      [] type = "tuic"                      -> FromTuic(q)
      [] type = "anytls"                    -> FromAnytls(q)
      [] type = "naive"                     -> FromNaive(q)
      [] OTHER                              -> None

-----------------------------------------------------------------------------
(* The outbound of the JSON subscription.  *)

\* getOutbounds: the copies of the outbound made for the addresses share the TLS
\* map, so each of them ends with the overrides of all.
SharedTls(i) ==
    LET with(f) == { n \in DOMAIN i.addrs : f \in DOMAIN i.addrs[n] }
        last(f) == CHOOSE n \in with(f) : \A m \in with(f) : m <= n
    IN  [ f \in UNION { DOMAIN i.addrs[n] : n \in DOMAIN i.addrs } |-> i.addrs[last(f)][f] ]
          ++ i.options
\* Without a TLS row there is no map to share.
OutTls(i, n) == IF HasTls(i) THEN SharedTls(i) ELSE Overridden(i, n)

\* getOutbounds on the client's credentials: the flow goes where no TLS row or
\* another transport is.
OutFlow(i) == IF HasTls(i) /\ Plain(i) THEN Opt("flow", i.flow) ELSE None

\* naiveOut: the congestion control of QUIC has other names at the client.
NaiveQuic(control) ==
    One("quic", "1") ++ One("quicControl", CASE control = "bbr_standard" -> "bbr"
                                             [] control = "bbr2_variant" -> "bbr2"
                                             [] OTHER -> control)

\* addTls, and what the functions of the types take over from the inbound: the
\* speeds the other way round and tuic's default congestion control.
OutOptions(type, o) ==
    Only(o, DOMAIN o \ {"up", "down", "fastOpen", "quicControl"})
    ++ Carry(o, "up", "down") ++ Carry(o, "down", "up")
    ++ (IF type = "tuic" THEN One("congestion", "cubic") ELSE None)
    ++ (IF Get(o, "quicControl") = Unset THEN None ELSE NaiveQuic(o["quicControl"]))

\* FillOutJson, completed by getOutbounds.
JsonOutbound(i, n) == OutOptions(i.type, OutTls(i, n)) ++ OutFlow(i)

-----------------------------------------------------------------------------
(* The Clash proxy: ConvertToClashMeta on an outbound that came out of a JSON *)
(* text (decoded), or on one read from a link, whose lists and numbers are    *)
(* still Go's and are skipped.                                                *)

Typed(out, field, decoded) == IF decoded THEN Carry(out, field, field) ELSE None

\* The TLS map an outbound read from a link always has is taken for TLS.
ClashHasTls(out, decoded) == Get(out, "tls") = "1" \/ ~decoded

ClashOptions(out, decoded) ==
    Only(out, {"flow", "mode", "congestion", "obfs", "mux"})
    ++ Typed(out, "up", decoded) ++ Typed(out, "down", decoded) ++ Typed(out, "ports", decoded)

ClashTls(out, decoded) ==
    IF ~ClashHasTls(out, decoded) THEN None
    ELSE Only(out, {"tls", "reality", "pbk", "sid", "sni", "insecure", "ech"})
         ++ (IF Get(out, "utls") = "1" THEN Carry(out, "fp", "fp") ELSE None)
         ++ Typed(out, "alpn", decoded)

\* The host of a websocket without one of its own is the server name.
ClashTransport(out, decoded) ==
    LET t == Get(out, "transport")
    IN  CASE t = "http" ->
               One("network", IF ClashHasTls(out, decoded) THEN "h2" ELSE "http")
               ++ Carry(out, "path", "path") ++ Typed(out, "host", decoded)
          [] t \in {"ws", "httpupgrade"} ->
               One("network", t) ++ Carry(out, "path", "path")
               ++ Carry(out, "earlyData", "earlyData")
               ++ Opt("host", IF t = "ws" /\ Get(out, "host") # Unset
                              THEN out["host"] ELSE Get(out, "sni"))
          [] t = "grpc" -> One("network", "grpc") ++ Carry(out, "service", "service")
          [] OTHER -> None

ClashProxy(out, decoded) ==
    ClashOptions(out, decoded) ++ ClashTls(out, decoded) ++ ClashTransport(out, decoded)

-----------------------------------------------------------------------------
\* What no link carries, whatever the type; only that of vmess is read as if it
\* named the header of early data, and that of hysteria2 alone has fast open.
LinkLacks == JsonTls \cup {"earlyData", "mux", "recvWindow", "mtuDiscovery", "zeroRtt", "heartbeat",
                          "quic", "quicControl", "fastOpen"}

\* What a link does not carry of each type, or carries where nobody reads it; a
\* flow of vless where only the address has TLS is in the link alone, and utls is
\* on for whoever reads a fingerprint from a link.
Lost(i) ==
    LinkLacks
    \cup (IF (Get(i.options, "fp") = Unset) = (Get(i.options, "utls") = Unset) THEN {} ELSE {"utls"})
    \cup (CASE i.type = "vmess"    -> {"service", "reality", "pbk", "sid", "disableSni"}
            [] i.type = "vless"    -> (IF HasTls(i) THEN {} ELSE {"flow"})
            [] i.type = "hysteria" -> {"obfs", "ports"}
            [] i.type = "naive"    -> {"fp", "utls", "disableSni", "reality", "pbk", "sid"}
            [] i.type = "tuic" -> (IF Get(i.options, "mode") = Unset THEN {"mode"} ELSE {})
                                  \cup (IF Get(i.options, "congestion") = Unset THEN {"congestion"} ELSE {})
            [] OTHER -> {})

Agree(f, g, but) ==
    \A field \in (DOMAIN f \cup DOMAIN g) \ but : Get(f, field) = Get(g, field)

\* A link read back gives the client of every address the outbound the JSON
\* subscription gives it: the same security, server name, transport, flow,
\* obfuscation and speeds, up to what Lost names.
LinkMatchesJson(i) ==
    \A n \in DOMAIN Addresses(i) :
        Agree(FromLink(i.type, LinkParams(i, n)), JsonOutbound(i, n), Lost(i))

\* A Clash proxy made from a link has no lists and numbers, which are not decoded
\* from JSON, has a fingerprint that is switched off, and takes HTTP for HTTP/2.
ClashLost(i) ==
    Lost(i) \cup {"alpn", "ports", "up", "down"}
    \cup (IF Get(i.options, "fp") # Unset /\ Get(i.options, "utls") = Unset THEN {"fp"} ELSE {})
    \cup (IF Get(i.options, "transport") # "http" THEN {}
          ELSE {"host"} \cup IF HasTls(i) THEN {} ELSE {"network"})

\* A link taken into a Clash subscription gives the proxy the inbound itself
\* gives there, up to what ClashLost names.
ClashMatches(i) ==
    i.type # "naive" => \A n \in DOMAIN Addresses(i) :
        Agree(ClashProxy(FromLink(i.type, LinkParams(i, n)), FALSE),
              ClashProxy(JsonOutbound(i, n), TRUE), ClashLost(i))
=============================================================================
