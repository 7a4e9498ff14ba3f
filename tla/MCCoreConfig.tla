---------------------------- MODULE MCCoreConfig ----------------------------
(***************************************************************************)
(* CoreConfig as TLC runs it: every panel of a handful of lists of         *)
(* outbounds and of lists of at most two rules, and the odd ones: sections *)
(* and flags in another case, outbounds with a mark or without a tag, two  *)
(* profiles with one server, a plain list of servers.                      *)
(***************************************************************************)
EXTENDS CoreConfig

MCListed == {"app"}
MCPrograms == {"app", "other"}
MCCheckNames == {"checkName"}
MCCheckIPs == {"checkIP"}
MCPrivate == {"private"}
MCSites == {"ru", "site"}
MCKnownLists == {"geosite:ru"}
MCLists == {"geosite:ru", "geosite:gone"}
MCNames == {"direct", "block", "proxy", "p1", "p2", "p3", "all"}
MCProtocols == {"freedom", "blackhole", "dns", "vless", "trojan"}
MCServers == {"s1", "s2", "s3"}
MCInboundTags == {"tun", "probe", "socks", "http", "redirect"}

Direct == Outbound("direct", "freedom", None)
Block == Outbound("block", "blackhole", None)
P1 == Outbound("p1", "vless", "s1")
P2 == Outbound("p2", "vless", "s2")
Trojan == Outbound("p3", "trojan", "s3")
Untagged == Outbound(None, "vless", "s2")
With(o, flag) == [o EXCEPT !.insecure = flag]

Panel(outbounds, rules, balancers) ==
  [panel |-> TRUE, outbounds |-> outbounds, rules |-> rules, balancers |-> balancers,
   routing |-> TRUE, spelt |-> FALSE, twice |-> FALSE, lists |-> {}]

OutboundLists ==
  {<<P1, Direct, Block>>, <<Direct, P1, P2, Block>>, <<Block, P1, Direct>>, <<P1, P2>>,
   <<Untagged, P1, Direct>>, <<P1, P2, Trojan, Direct>>}

Balancers == {<<>>, <<[tag |-> "all", over |-> {"p1", "p2"}]>>,
              <<[tag |-> "all", over |-> {"p1", "p3"}]>>}

OneRules ==
  {Rule({"ru"}, {}, {}, "direct", None),
   Rule({"checkName", "checkIP"}, {}, {}, "direct", None),
   Rule({"site"}, {}, {}, "block", None),
   Rule({"site"}, {"other"}, {}, "p1", None),
   Rule({"ru"}, {}, {}, "p2", None),
   Rule({}, {}, {}, "p1", None),
   Rule({}, {}, {}, None, "all")}

RuleLists == {<<>>} \cup {<<r>> : r \in OneRules} \cup {<<r, q>> : r, q \in OneRules}

Plain == {p \in {Panel(o, r, b) : o \in OutboundLists, r \in RuleLists, b \in Balancers} :
            Starts(p)}

Ru == Rule({"ru"}, {}, {}, "direct", None)

Odd ==
  {[Panel(<<P1, Direct>>, <<Ru>>, <<>>) EXCEPT !.spelt = TRUE],
   [Panel(<<P1, Direct>>, <<Ru>>, <<>>) EXCEPT !.twice = TRUE],
   [Panel(<<P1, Direct>>, <<>>, <<>>) EXCEPT !.routing = FALSE],
   [Panel(<<P1, Direct>>, <<Ru>>, <<>>) EXCEPT !.lists = {"geosite:ru"}],
   [Panel(<<P1, Direct>>, <<Ru>>, <<>>) EXCEPT !.lists = {"geosite:gone"}],
   Panel(<<P1, [Direct EXCEPT !.mark = "own"]>>, <<Ru>>, <<>>),
   Panel(<<P1, [P2 EXCEPT !.file = TRUE], Direct>>, <<Ru>>, <<>>),
   Panel(<<Outbound("block", "dns", None), P1, Direct>>, <<Rule({"ru"}, {}, {}, "block", None)>>, <<>>),
   Panel(<<P1, [P2 EXCEPT !.tag = "p1"], Direct>>, <<Ru>>, <<>>),
   Panel(<<[P1 EXCEPT !.tag = "direct"], P2>>, <<Rule({"ru"}, {}, {}, "direct", None)>>, <<>>),
   Panel(<<P1, P2, Direct>>, <<Ru>>, <<[tag |-> None, over |-> {"p1"}]>>),
   Panel(<<P1, P2, Direct>>, <<Rule({"ru"}, {}, {}, None, None)>>, <<>>),
   Panel(<<P1, P2, Direct>>, <<Rule({"ru"}, {}, {}, "p3", None)>>, <<>>)}
    \cup {Panel(<<P1, With(P2, f), Direct>>, <<Ru>>, <<>>) : f \in {"on", "spelt", "twice", "odd"}}

Links == [Panel(<<P1, With(P2, "on")>>, <<>>, <<>>) EXCEPT !.panel = FALSE, !.routing = FALSE]

MCSubscriptions ==
  {<<p>> : p \in Plain \cup Odd \cup {Links}}
    \cup {<<Panel(<<P1, Direct>>, <<>>, <<>>), Panel(<<P1, Direct>>, <<Ru>>, <<>>)>>}

=============================================================================
