----------------------------- MODULE CoreConfig -----------------------------
(***************************************************************************)
(* What the core is handed: the configs of a session, of its preview and   *)
(* of a ping, built out of what the panel sent, and where a core that runs  *)
(* one sends each connection.                                              *)
(*                                                                         *)
(* A profile, as a config, is a record of a list of outbounds, a list of   *)
(* rules, a list of balancers, and whether it has a routing section. A     *)
(* rule holds when each of its conditions does, and an empty condition is  *)
(* none; the first rule that holds names the outbound, or the balancer, a  *)
(* connection takes, and without one it takes the first outbound. What the *)
(* properties do not tell apart - transports, dns, logs, ports - is left   *)
(* out of both.                                                            *)
(***************************************************************************)
EXTENDS Naturals, Sequences, FiniteSets, SequencesExt

CONSTANTS
  Subscriptions,  \* what a panel may have sent: lists of profiles
  Listed,         \* the programs a user lists in apps.txt
  Programs,       \* every program, those listed or named by a rule among them
  CheckNames,     \* check hosts given by name
  CheckIPs,       \* check hosts given by address
  Private,        \* destinations of the template's own rule
  Sites,          \* every other destination
  Lists,          \* geo lists
  KnownLists,     \* those in the databases in use
  Names,          \* tags of outbounds and balancers
  Protocols,      \* of outbounds
  Servers,        \* addresses an outbound dials
  InboundTags,    \* tags of inbounds, ours and those only a panel's rules name
  None, Refused, NoRouting

VARIABLES
  sub,      \* the profiles of the open subscription
  windows,  \* system.SplitOverTUN: xray matches the process itself
  allow,    \* ALLOW_INSECURE
  mode,     \* App.mode
  apps,     \* App.splitApps
  split,    \* App.split, as resolveSplit left it
  job       \* what runs on a config: a session, a preview, a ping

configVars == <<sub, windows, allow, mode, apps, split, job>>

Dests == CheckNames \cup CheckIPs \cup Private \cup Sites

OutboundSet ==
  [tag : Names \cup {None}, proto : Protocols, server : Servers \cup {None},
   insecure : {"off", "on", "spelt", "twice", "odd"}, mark : {"none", "own", "ours"},
   file : BOOLEAN]

RuleSet ==
  [dest : SUBSET Dests, procs : SUBSET Programs, inb : SUBSET InboundTags,
   tag : Names \cup {None}, balancer : Names \cup {None}]

\* A balancer with the outbounds its selector matches.
BalancerSet == [tag : Names \cup {None}, over : SUBSET Names]

\* What a panel sends; a plain list of links is one with panel FALSE.
Profile ==
  [panel : BOOLEAN, outbounds : Seq(OutboundSet), rules : Seq(RuleSet),
   balancers : Seq(BalancerSet), routing : BOOLEAN, spelt : BOOLEAN, twice : BOOLEAN,
   lists : SUBSET Lists]

Config ==
  [outbounds : Seq(OutboundSet), rules : Seq(RuleSet), balancers : Seq(BalancerSet),
   routing : BOOLEAN, lists : SUBSET Lists, inbounds : SUBSET InboundTags]

ASSUME CoreConfigAssumption ==
  /\ Subscriptions \subseteq Seq(Profile)
  /\ Listed \subseteq Programs
  /\ KnownLists \subseteq Lists
  /\ {"direct", "block", "proxy"} \subseteq Names
  /\ {"freedom", "blackhole"} \subseteq Protocols
  /\ {"tun", "probe", "socks", "http", "redirect"} \subseteq InboundTags
  /\ None \notin Names \cup Servers \cup OutboundSet
  /\ Refused \notin Config /\ NoRouting \notin Config /\ Refused # NoRouting

-----------------------------------------------------------------------------
(* The core: where a connection goes. *)

Outbounds(cfg) == ToSet(cfg.outbounds)

Tags(cfg) == {o.tag : o \in Outbounds(cfg)} \ {None}

\* The core does not start on a tag used twice or on a rule that leads nowhere; a
\* balancer's selector matches outbounds that are there.
Starts(cfg) ==
  /\ \A i, j \in DOMAIN cfg.outbounds :
       cfg.outbounds[i].tag = cfg.outbounds[j].tag /\ i # j => cfg.outbounds[i].tag = None
  /\ \A b \in ToSet(cfg.balancers) : b.over \subseteq Tags(cfg)
  /\ \A r \in ToSet(cfg.rules) :
       IF r.balancer = None THEN r.tag \in Tags(cfg)
       ELSE \E b \in ToSet(cfg.balancers) : b.tag = r.balancer

Holds(r, p) ==
  /\ r.dest = {} \/ p.dest \in r.dest
  /\ r.procs = {} \/ p.proc \in r.procs
  /\ r.inb = {} \/ p.inb \in r.inb

Hits(cfg, p) == {i \in DOMAIN cfg.rules : Holds(cfg.rules[i], p)}

Behind(cfg, r) ==
  LET tags == IF r.balancer = None THEN {r.tag}
              ELSE UNION {b.over : b \in {c \in ToSet(cfg.balancers) : c.tag = r.balancer}}
  IN {o \in Outbounds(cfg) : o.tag \in tags}

\* The outbounds a connection may leave by: several behind a balancer.
Way(cfg, p) ==
  IF Hits(cfg, p) = {} THEN {cfg.outbounds[1]}
  ELSE Behind(cfg, cfg.rules[Min(Hits(cfg, p))])

-----------------------------------------------------------------------------
(* The subscription: servers out of profiles, and what is picked. *)

IsLocal(o) == o.proto \in {"freedom", "blackhole", "dns"}

\* outboundToEntry: the outbounds the client knows as servers.
IsEntry(o) == o.proto \in {"vless", "vmess", "shadowsocks", "hysteria"} /\ o.server # None

EntriesOf(prof) == {o \in Outbounds(prof) : IsEntry(o)}

Firsts(prof) == {o.server : o \in EntriesOf(prof)}

\* Of two outbounds to one server a profile keeps the first.
EntryOf(prof, s) ==
  prof.outbounds[Min({i \in DOMAIN prof.outbounds :
    IsEntry(prof.outbounds[i]) /\ prof.outbounds[i].server = s})]

IsBalancer(prof) == prof.panel /\ prof.balancers # <<>> /\ Cardinality(Firsts(prof)) > 1

AllSingle == \A i \in DOMAIN sub : ~IsBalancer(sub[i])

\* Enter on a balancer's row, or on a server's.
Rows ==
  {[prof |-> i, server |-> None] : i \in {k \in DOMAIN sub : IsBalancer(sub[k])}}
    \cup UNION {{[prof |-> i, server |-> s] : s \in Firsts(sub[i])} : i \in DOMAIN sub}

\* A row of the tree knows its profile; one of a flat list is looked up by its
\* server, and the first profile that has it is its owner.
Owner(row) ==
  IF ~AllSingle THEN sub[row.prof]
  ELSE sub[Min({i \in DOMAIN sub : row.server \in Firsts(sub[i])})]

Target(row) ==
  [entry |-> IF row.server = None THEN None ELSE EntryOf(sub[row.prof], row.server),
   raw |-> Owner(row),
   srvs |-> Firsts(Owner(row))]

IsProfile(t) == t.entry = None

ServerHosts(t) == t.srvs \cup IF IsProfile(t) THEN {} ELSE {t.entry.server}

-----------------------------------------------------------------------------
(* The steps of a config. *)

Unless(cfg, Op(_)) == IF cfg \in {Refused, NoRouting} THEN cfg ELSE Op(cfg)

\* canonicalTopKeys: a section in another case is the core's section too.
Canonical(prof) == [prof EXCEPT !.spelt = FALSE]

HasRouting(cfg) == cfg.routing /\ ~cfg.spelt

ProfileBase(prof, inbounds) ==
  IF prof.twice \/ prof.outbounds = <<>> THEN Refused
  ELSE [outbounds |-> prof.outbounds, rules |-> prof.rules, balancers |-> prof.balancers,
        routing |-> HasRouting(Canonical(prof)), lists |-> prof.lists, inbounds |-> inbounds]

MergeProfile(prof, inbounds) == ProfileBase(prof, inbounds)

\* The first outbound of the tag comes first, the others keep their order.
PinOutbound(obs, tag) ==
  LET i == Min({k \in DOMAIN obs : obs[k].tag = tag})
  IN [k \in DOMAIN obs |-> obs[IF k = 1 THEN i ELSE IF k <= i THEN k - 1 ELSE k]]

Repoint(r, tag) == IF r.balancer = None THEN r ELSE [r EXCEPT !.balancer = None, !.tag = tag]

DropBalancers(cfg, tag) ==
  [cfg EXCEPT !.balancers = <<>>,
              !.rules = [i \in DOMAIN cfg.rules |-> Repoint(cfg.rules[i], tag)]]

MergeProfileSingle(prof, tag, inbounds) ==
  LET Pinned(cfg) ==
        IF ~cfg.routing THEN NoRouting
        ELSE IF tag = None \/ tag \notin Tags(cfg) THEN Refused
        ELSE DropBalancers([cfg EXCEPT !.outbounds = PinOutbound(@, tag)], tag)
  IN Unless(ProfileBase(prof, inbounds), Pinned)

Rule(dest, procs, inb, tag, balancer) ==
  [dest |-> dest, procs |-> procs, inb |-> inb, tag |-> tag, balancer |-> balancer]

Outbound(tag, proto, server) ==
  [tag |-> tag, proto |-> proto, server |-> server, insecure |-> "off",
   mark |-> "none", file |-> FALSE]

\* Mutant: the policy reads the flag in its own case only.
Flags_Exact == {"on"}

\* The core reads the flag whatever its case, and so does the policy.
Flags == {"on", "spelt"}

\* BuildOutboundJSON: a link's own flag counts behind the opt-in only.
BuildOutbound(entry) ==
  [entry EXCEPT !.insecure = IF allow /\ @ \in Flags THEN "on" ELSE "off"]

\* A panel's outbound as it is, a link's built of its fields.
ProxyOutbound(panel, entry) ==
  [(IF panel THEN entry ELSE BuildOutbound(entry)) EXCEPT !.tag = "proxy"]

\* The template's outbounds behind the server, its rule and the catch-all.
MergeConfig(outbound, inbounds) ==
  [outbounds |-> <<outbound, Outbound("direct", "freedom", None),
                   Outbound("block", "blackhole", None)>>,
   rules |-> <<Rule(Private, {}, {}, "direct", None), Rule({}, {}, {}, "proxy", None)>>,
   balancers |-> <<>>, routing |-> TRUE, lists |-> {}, inbounds |-> inbounds]

Freedoms(cfg) ==
  {i \in DOMAIN cfg.outbounds : cfg.outbounds[i].proto = "freedom" /\ cfg.outbounds[i].tag # None}

LocalTags(cfg) == {o.tag : o \in {q \in Outbounds(cfg) : IsLocal(q)}} \ {None}

DefaultTag(cfg) ==
  LET o == cfg.outbounds[1] IN IF o.tag # None /\ o.tag \notin LocalTags(cfg) THEN o.tag ELSE None

\* Mutant: a rule that names programs keeps them, listed or not.
ForProcesses_Own(r, listed) == [r EXCEPT !.procs = IF @ = {} THEN listed ELSE @]

\* forProcesses: the listed programs, or those the rule names among them.
ForProcesses(r, listed) == [r EXCEPT !.procs = IF @ = {} THEN listed ELSE @ \cap listed]

KeptLocal(r, local) == r.balancer = None /\ r.tag \in local

Narrows(r, listed) ==
  /\ r.balancer # None \/ r.tag # None
  /\ ForProcesses(r, listed).procs # {}

\* Where a config's direct traffic leaves, which the mode adds where it is missing.
DirectTag(cfg) ==
  IF Freedoms(cfg) = {} THEN "direct" ELSE cfg.outbounds[Min(Freedoms(cfg))].tag

WithDirect(cfg) ==
  IF Freedoms(cfg) # {} THEN cfg.outbounds
  ELSE Append(cfg.outbounds, Outbound("direct", "freedom", None))

SplitLocal(cfg) == LocalTags(cfg) \cup {DirectTag(cfg)}

\* The places of the rules that stay.
Stays(cfg, listed) ==
  {i \in DOMAIN cfg.rules :
     KeptLocal(cfg.rules[i], SplitLocal(cfg)) \/ Narrows(cfg.rules[i], listed)}

Narrowed(cfg, r, listed) ==
  IF KeptLocal(r, SplitLocal(cfg)) THEN r ELSE ForProcesses(r, listed)

\* Numbers in their order.
InOrder(ns, max) ==
  CHOOSE f \in UNION {[1..n -> ns] : n \in 0..max} :
    /\ \A i, j \in DOMAIN f : i < j => f[i] < f[j]
    /\ \A n \in ns : \E i \in DOMAIN f : f[i] = n

SplitRest(cfg, listed) ==
  IF DefaultTag(cfg) = None THEN <<>> ELSE <<Rule({}, listed, {}, DefaultTag(cfg), None)>>

ApplySplitRouting(cfg, listed) ==
  LET where == InOrder(Stays(cfg, listed), Len(cfg.rules))
      narrowed == [i \in DOMAIN where |-> Narrowed(cfg, cfg.rules[where[i]], listed)]
      tunnel == \/ DefaultTag(cfg) # None
                \/ \E i \in Stays(cfg, listed) : ~KeptLocal(cfg.rules[i], SplitLocal(cfg))
  IN IF listed = {} \/ ~tunnel THEN Refused
     ELSE [cfg EXCEPT
             !.outbounds = WithDirect(cfg),
             !.rules = narrowed \o SplitRest(cfg, listed) \o <<Rule({}, {}, {}, DirectTag(cfg), None)>>]

FirstTunnelTag(cfg) ==
  LET where == {i \in DOMAIN cfg.outbounds : cfg.outbounds[i].tag # None /\ ~IsLocal(cfg.outbounds[i])}
  IN IF where = {} THEN None ELSE cfg.outbounds[Min(where)].tag

\* splitProbeHosts: a name and an address are never one rule's conditions.
ProbeRules(inb, tag, balancer) ==
  (IF CheckNames = {} THEN <<>> ELSE <<Rule(CheckNames, {}, inb, tag, balancer)>>)
    \o (IF CheckIPs = {} THEN <<>> ELSE <<Rule(CheckIPs, {}, inb, tag, balancer)>>)

\* A profile's balancer, or the first server's outbound, or nothing to aim at.
ProbeAims(cfg, inb) ==
  IF cfg.balancers # <<>> /\ cfg.balancers[1].tag # None
  THEN ProbeRules(inb, None, cfg.balancers[1].tag)
  ELSE IF FirstTunnelTag(cfg) # None THEN ProbeRules(inb, FirstTunnelTag(cfg), None)
  ELSE <<>>

\* Mutant: the probe rules come after the panel's.
PrependProbeRule_Last(cfg, inb) == [cfg EXCEPT !.rules = @ \o ProbeAims(cfg, inb)]

PrependProbeRule(cfg, inb) == [cfg EXCEPT !.rules = ProbeAims(cfg, inb) \o @]

ClearInsecure(o) == IF o.insecure \in Flags THEN [o EXCEPT !.insecure = "off"] ELSE o

ApplySecurityPolicy(cfg) ==
  IF \E o \in Outbounds(cfg) : o.insecure \in {"twice", "odd"} THEN Refused
  ELSE IF allow THEN cfg
  ELSE [cfg EXCEPT !.outbounds = [i \in DOMAIN @ |-> ClearInsecure(@[i])]]

\* Databases that cannot be read are not checked against.
CheckGeoLists(cfg) ==
  IF KnownLists = {} \/ cfg.lists \subseteq KnownLists THEN cfg ELSE Refused

FinalizeConfig(cfg) == Unless(Unless(cfg, ApplySecurityPolicy), CheckGeoLists)

Bind(o) == IF o.proto = "freedom" THEN [o EXCEPT !.mark = "ours"] ELSE o

BindDirectOutbounds(cfg) == [cfg EXCEPT !.outbounds = [i \in DOMAIN @ |-> Bind(@[i])]]

-----------------------------------------------------------------------------
(* A session's config, a ping's, and the service's. *)

TunMode(s) == mode = "tun" \/ (s /\ windows)

Inbounds(s) ==
  IF TunMode(s) THEN {"tun", "probe"}
  ELSE {"socks", "http"} \cup IF s THEN {"redirect"} ELSE {}

\* Mutant: the probe rules hold for the traffic of every inbound.
ProbeInbounds_None(s) == {}

ProbeInbounds(s) == IF TunMode(s) THEN {"probe"} ELSE {}

WithSplitRouting(cfg, s) == IF s /\ windows THEN ApplySplitRouting(cfg, apps) ELSE cfg

Probed(cfg, s) ==
  LET Split(c) == WithSplitRouting(c, s)
      Probe(c) == PrependProbeRule(c, ProbeInbounds(s))
  IN Unless(Unless(cfg, Split), Probe)

SingleServerFromProfile(t, inbounds) ==
  IF ~t.raw.panel THEN NoRouting ELSE MergeProfileSingle(t.raw, t.entry.tag, inbounds)

\* A profile as it is, a server under its profile's rules, or the template.
Source(t, inbounds) ==
  IF IsProfile(t) THEN MergeProfile(t.raw, inbounds)
  ELSE LET single == SingleServerFromProfile(t, inbounds)
       IN IF single = NoRouting THEN MergeConfig(ProxyOutbound(t.raw.panel, t.entry), inbounds)
          ELSE single

BuildModeSource(t, s) == Probed(Source(t, Inbounds(s)), s)

BuildModeConfig(t, s) == FinalizeConfig(BuildModeSource(t, s))

BuildSessionConfig(t, s) ==
  LET cfg == BuildModeConfig(t, s)
  IN IF TunMode(s) THEN Unless(cfg, BindDirectOutbounds) ELSE cfg

\* What the service's rights are not for: a file or a unix socket by name, a
\* socket option past tuning.
Reaches(o) == o.file \/ o.mark # "none"

ValidParts(cfg) == ~\E o \in Outbounds(cfg) : Reaches(o)

\* ExtractClientParts and AssembleService: the client's outbounds and routing
\* around the service's own inbounds.
AssembleService(parts) ==
  IF ValidParts(parts) THEN [parts EXCEPT !.inbounds = {"tun", "probe"}] ELSE Refused

ServiceConfig(parts) ==
  Unless(FinalizeConfig(Unless(parts, AssembleService)), BindDirectOutbounds)

\* Mutant: only the servers of the protocols a subscription's list knows.
OutboundServers_Entries(cfg) == {o.server : o \in {q \in Outbounds(cfg) : IsEntry(q)}}

OutboundServers(cfg) ==
  {o.server : o \in {q \in Outbounds(cfg) : ~IsLocal(q)}} \ {None}

BenchInbounds == {"socks", "http"}

BenchProbe(cfg) == PrependProbeRule(cfg, {})

\* An entry is measured under the profile it was parsed out of.
BuildSingleBench(prof, entry) ==
  LET single == IF prof.panel THEN MergeProfileSingle(prof, entry.tag, BenchInbounds)
                ELSE NoRouting
  IN IF single = NoRouting THEN BenchProbe(MergeConfig(ProxyOutbound(prof.panel, entry), BenchInbounds))
     ELSE Unless(single, BenchProbe)

BenchConfig(row) ==
  FinalizeConfig(
    IF row.server = None THEN Unless(MergeProfile(sub[row.prof], BenchInbounds), BenchProbe)
    ELSE BuildSingleBench(sub[row.prof], EntryOf(sub[row.prof], row.server)))

-----------------------------------------------------------------------------
ConfigInit ==
  /\ sub \in Subscriptions
  /\ windows \in BOOLEAN /\ allow \in BOOLEAN
  /\ mode \in {"proxy", "tun"}
  /\ apps = {} /\ split = FALSE
  /\ job = None

Idle == job = None

Job(kind, row, cfg, service, hosts) ==
  job' = [kind |-> kind, row |-> row, cfg |-> cfg, service |-> service, kept |-> hosts]

\* The screen of programs: the list is saved, split stays as it was resolved.
ChooseApps ==
  /\ Idle
  /\ apps' \in {{}, Listed}
  /\ UNCHANGED <<sub, windows, allow, mode, split, job>>

\* b on the list screen.
Ping ==
  /\ Idle
  /\ \E row \in Rows : BenchConfig(row) # Refused /\ Job("ping", row, BenchConfig(row), FALSE, {})
  /\ UNCHANGED <<sub, windows, allow, mode, apps, split>>

\* c on the list screen.
Preview ==
  /\ Idle
  /\ \E row \in Rows :
       LET cfg == BuildModeConfig(Target(row), split)
       IN cfg # Refused /\ Job("preview", row, cfg, FALSE, {})
  /\ UNCHANGED <<sub, windows, allow, mode, apps, split>>

\* resolveSplit: what the tunnel needs may be missing.
ResolveSplit(s) ==
  \/ s = (mode = "proxy" /\ apps # {})
  \/ mode = "proxy" /\ apps # {} /\ windows /\ ~s

\* A session in the program's own process.
Connect ==
  /\ Idle
  /\ \E s \in BOOLEAN, row \in Rows :
       LET t == Target(row)
           cfg == BuildSessionConfig(t, s)
       IN /\ ResolveSplit(s)
          /\ split' = s
          /\ cfg # Refused
          /\ Job("session", row, cfg, FALSE, ServerHosts(t))
  /\ UNCHANGED <<sub, windows, allow, mode, apps>>

\* A session the service runs: on the tunnel only.
ConnectService ==
  /\ Idle
  /\ \E s \in BOOLEAN, row \in Rows :
       LET parts == BuildModeConfig(Target(row), s)
           cfg == ServiceConfig(parts)
       IN /\ ResolveSplit(s) /\ TunMode(s)
          /\ split' = s
          /\ cfg # Refused
          /\ OutboundServers(parts) # {}
          /\ Job("session", row, cfg, TRUE, OutboundServers(parts))
  /\ UNCHANGED <<sub, windows, allow, mode, apps>>

\* The session is over, the viewer closed, the number in.
JobDone ==
  /\ ~Idle
  /\ job' = None
  /\ UNCHANGED <<sub, windows, allow, mode, apps, split>>

\* m on the status screen ends the session; the next one is of the other mode.
SwitchMode ==
  /\ ~Idle /\ job.kind = "session"
  /\ mode' = IF mode = "proxy" THEN "tun" ELSE "proxy"
  /\ job' = None
  /\ UNCHANGED <<sub, windows, allow, apps, split>>

ConfigNext ==
  \/ ChooseApps \/ Ping \/ Preview \/ Connect \/ ConnectService \/ JobDone \/ SwitchMode

ConfigSpec == ConfigInit /\ [][ConfigNext]_configVars

-----------------------------------------------------------------------------
InSession == ~Idle /\ job.kind = "session"

Packets(inbounds) == [inb : inbounds, proc : Programs, dest : Dests]

\* What the programs send and what the check sends.
Theirs == Packets(job.cfg.inbounds \ {"probe"})

Probes(cfg) ==
  [inb : IF "probe" \in cfg.inbounds THEN {"probe"} ELSE {"http"},
   proc : Programs, dest : CheckNames \cup CheckIPs]

Through(cfg, p) == {IF IsLocal(o) THEN o.proto ELSE o.server : o \in Way(cfg, p)}

\* The row was measured under the profile that it connects under: not so in a
\* flat list where two profiles have the same server.
OwnsRow(row) == Owner(row) = sub[row.prof]

\* A panel's balancers choose among servers.
BalancesServers(cfg) ==
  \A b \in ToSet(cfg.balancers) :
    b.over # {} /\ b.over \subseteq Tags(cfg) \ LocalTags(cfg)

\* A ping measures what a session runs: the number of a row and the health of
\* a session with it come through the same servers, and through servers, in
\* every mode, and whatever the panel's rules say of the check hosts, when the
\* core starts and the profile balances over servers.
PingIsOfSession ==
  (/\ InSession /\ OwnsRow(job.row) /\ FirstTunnelTag(job.cfg) # None
   /\ Starts(job.cfg) /\ BalancesServers(job.cfg)) =>
    \A p \in Probes(job.cfg) :
      LET ping == BenchConfig(job.row)
      IN /\ \A o \in Way(job.cfg, p) : ~IsLocal(o)
         /\ ping # Refused => Through(ping, [p EXCEPT !.inb = "http"]) = Through(job.cfg, p)

\* An answer to a connection, ours or the panel's own.
Answer(cfg, p) == {IF IsLocal(o) THEN o.proto ELSE "tunnel" : o \in Way(cfg, p)}

Caught(p) == "probe" \notin job.cfg.inbounds /\ p.dest \in CheckNames \cup CheckIPs

\* The panel's rules hold under whatever is picked of its subscription: what a
\* rule of a profile sends past the tunnel, blocks or tunnels, a session with
\* the profile or with a server of it treats so too, and its core starts if one
\* would start on the profile itself. Without a tunnel the check hosts are the
\* probe's; the split's direct way is SplitIsSafe's. In a flat list where two
\* profiles have a server, its row is asked about a profile without balancers.
RulesArePanels ==
  ~Idle /\ job.kind \in {"session", "preview"} /\ ~(split /\ windows) =>
    LET prof == Owner(job.row)
    IN prof.panel /\ prof.routing /\ Starts(prof) /\ BalancesServers(prof) =>
         /\ Starts(job.cfg)
         /\ OwnsRow(job.row) \/ prof.balancers = <<>> =>
              \A p \in Theirs :
                Hits(prof, p) # {} /\ ~Caught(p) => Answer(job.cfg, p) = Answer(prof, p)

\* Split over the tunnel: a program that is not listed never travels the
\* tunnel, whatever the panel's rules say and though a probe may; a listed one
\* goes where a session on the tunnel would send it, when what no rule names
\* goes to a server there.
SplitIsSafe ==
  InSession /\ split /\ windows /\ Starts(job.cfg) =>
    LET whole == Source(Target(job.row), {"tun"})
    IN \A p \in Theirs :
         /\ p.proc \notin Listed => \A o \in Way(job.cfg, p) : IsLocal(o)
         /\ p.proc \in Listed /\ Starts(whole) /\ DefaultTag(whole) # None =>
              Through(job.cfg, p) = Through(whole, p)

\* Nothing the core sends comes back to it over the tunnel: what leaves
\* directly carries our mark, and in a session of the service every server an
\* outbound dials is kept off the tunnel.
NothingLoops ==
  InSession /\ "tun" \in job.cfg.inbounds =>
    \A p \in Theirs \cup Probes(job.cfg) : \A o \in Way(job.cfg, p) :
      /\ o.proto = "freedom" => o.mark = "ours"
      /\ job.service /\ ~IsLocal(o) => o.server \in job.kept \cup {None}

\* Mutant: what no rule names is taken for tunnelled.
HasBypassRules_Rules(cfg) ==
  \E r \in ToSet(cfg.rules) : r.balancer = None /\ r.tag \in LocalTags(cfg)

\* The label of a session on the tunnel, "all traffic through the VPN", says
\* what the core does.
HasBypassRules(cfg) ==
  \/ IsLocal(cfg.outbounds[1])
  \/ \E r \in ToSet(cfg.rules) : r.balancer = None /\ r.tag \in LocalTags(cfg)

LabelIsTrue ==
  InSession /\ mode = "tun" /\ ~HasBypassRules(job.cfg) =>
    \A p \in Theirs : \A o \in Way(job.cfg, p) : ~IsLocal(o)

\* Without the opt-in no core, a session's or a ping's, is handed a server
\* whose certificate it is told not to check.
InsecureStaysOff ==
  ~Idle /\ ~allow => \A o \in Outbounds(job.cfg) : o.insecure \in {"off"}

\* Every server the session may connect to is kept off its tunnel
\* (target.serverHosts, navigate.go:54).
EveryServerIsKeptOff ==
  InSession /\ "tun" \in job.cfg.inbounds =>
    \A p \in Theirs : \A o \in Way(job.cfg, p) : IsLocal(o) \/ o.server \in job.kept

=============================================================================
