----------------------------- MODULE PortalMode -----------------------------
(***************************************************************************)
(* Portal mode (DESIGN 5.1) and the protections it pauses.                 *)
(*                                                                         *)
(* HTTP handlers and the goroutine RunPortalWatch act on three shared      *)
(* things, and no lock orders them: the router (UCI configuration and the  *)
(* services that run from it), the bbolt store, and the channel            *)
(* portalKick.  Every process is a program counter pc[p] over the external *)
(* commands and store transactions of its handler; whatever happens        *)
(* between two of them is an interleaving.                                 *)
(*                                                                         *)
(* The router is abstracted to the sections the daemon owns:               *)
(*   lanwan  the lan->wan forwarding; the kill switch is ON iff absent     *)
(*   doh     dnsmasq forwards to the DoH forwarder; Enabled() iff present  *)
(*   dns53   the port-53 rules mistui_dns_out, _fwd and _hijack            *)
(*   dnsks   the fail-closed rule mistui_dns_ks                            *)
(* cfg is the committed configuration, live what dnsmasq and the firewall  *)
(* run with; a restart or reload copies the one into the other.            *)
(***************************************************************************)
EXTENDS Integers, FiniteSets

CONSTANTS
    Clients,     \* concurrent HTTP requests (one process each)
    Watch,       \* the goroutine RunPortalWatch
    Ops,         \* the handlers the clients may call
    Faults,      \* which failures may happen: "ctx", "cmd", "store"
    Urls, NoUrl, \* portal addresses a probe may report, and none
    NoRec,       \* no portal_mode key in the store
    Window,      \* portalWindow, in clock ticks
    MaxReqs,     \* bound on requests started
    MaxCrashes   \* bound on daemon restarts and reboots

AllOps == {"enter", "exit", "ksOn", "ksOff", "dnsOn", "dnsOff",
           "ap", "join", "vpnUp", "vpnDown", "import"}

\* Handlers that change the protections or the pause record.
PostureOps == {"enter", "exit", "ksOn", "ksOff", "dnsOn", "dnsOff", "ap"}

Sections == {"lanwan", "doh", "dns53", "dnsks"}

\* The pause record: what was on, time left to the deadline, portal address.
PortalRecord == [saved : SUBSET {"ks", "dns"}, left : 0..Window, url : Urls \cup {NoUrl}]

ASSUME WatchAssumption  == Watch \notin Clients
ASSUME OpsAssumption    == Ops \subseteq AllOps
ASSUME FaultsAssumption == Faults \subseteq {"ctx", "cmd", "store"}
ASSUME WindowAssumption == Window \in Nat \ {0}
ASSUME UrlAssumption    == NoUrl \notin Urls
ASSUME RecAssumption    == NoRec \notin PortalRecord
ASSUME HeldAssumption   == \A I \in SUBSET {"ks", "dns"} : NoRec # I
ASSUME BoundAssumption  == MaxReqs \in Nat /\ MaxCrashes \in Nat

VARIABLES
    cfg,       \* sections committed in UCI
    live,      \* sections the running services enforce
    wg,        \* the tunnel interface: "absent", "down", "up"
    flows,     \* open over the raw WAN: client flows "raw", DoH connections "doh"
    keys,      \* of the store's keys: "vpn_summary", "dns_defaulted"
    rec,       \* the store's portal_mode key
    kick,      \* portalKick, a channel of capacity one
    note,      \* portalNote
    pc, op, loc, \* per process: next step, handler, local record copy
    cancelled, \* processes whose context is done
    reqs, crashes,
    intent,    \* history: the posture the user last chose
    history    \* history: what has disturbed the record so far

router  == <<cfg, live, wg, flows>>
store   == <<keys, rec>>
process == <<pc, op, loc, cancelled>>
ghost   == <<intent, history>>
bounds  == <<reqs, crashes>>
vars    == <<cfg, live, wg, flows, keys, rec, kick, note, pc, op, loc, cancelled,
             reqs, crashes, intent, history>>

Procs    == Clients \cup {Watch}
EmptyRec == [saved |-> {}, left |-> 0, url |-> NoUrl]

-----------------------------------------------------------------------------
(* Program counters *)

EnterPCs  == {"e_read", "e_ks", "e_dns", "e_save", "e_down", "e_end"}
ExitPCs   == {"x_read", "x_up", "x_del"}
KsPCs     == {"ks_script", "ks_flush"}
DnsPCs    == {"en_dhcp", "en_fw", "dis_dhcp", "dis_fw", "dns_restart", "dns_reload"}
FcPCs     == {"fc_cfg", "fc_reload"}
TogglePCs == {"k_dnsq", "d_ksq", "d_mark", "c_read", "c_del",
              "ap_wifi", "ap_read", "ap_mark"}
OtherPCs  == {"j_join", "v_up", "v_down", "im_apply", "im_sum"}
WatchPCs  == {"w_loop", "w_idle", "w_probe", "w_save", "w_wait",
              "s_check", "s_probe", "s_sleep"}

BusyPCs == EnterPCs \cup ExitPCs \cup KsPCs \cup DnsPCs \cup FcPCs \cup TogglePCs
PCs     == BusyPCs \cup OtherPCs \cup WatchPCs \cup {"idle", "ret"}

\* A process that is inside a handler of PostureOps.
Busy(p) == pc[p] \in BusyPCs
Quiet   == \A p \in Procs : ~Busy(p)

Goto(p, l) == pc' = [pc EXCEPT ![p] = l]
Rest(p)    == IF p = Watch THEN "w_loop" ELSE "idle"

-----------------------------------------------------------------------------
(* Postures *)

\* What KillSwitch and Enabled report of a configuration.
Posture(c) == (IF "lanwan" \notin c THEN {"ks"} ELSE {})
              \cup (IF "doh" \in c THEN {"dns"} ELSE {})

\* The sections that belong to a posture: the kill switch removes the
\* forwarding, encrypted DNS brings its rules, both together the fail-closed one.
Target(I) == (IF "ks" \notin I THEN {"lanwan"} ELSE {})
             \cup (IF "dns" \in I THEN {"doh", "dns53"} ELSE {})
             \cup (IF {"ks", "dns"} \subseteq I THEN {"dnsks"} ELSE {})

\* dnsmasq restart and firewall reload.
Restart(l, c) == (l \ {"doh"}) \cup (c \cap {"doh"})
Reload(l, c)  == (l \cap {"doh"}) \cup (c \ {"doh"})

\* The posture after a completed toggle outside a pause.
Toggled(I, o) == CASE o = "ksOn"  -> I \cup {"ks"}
                   [] o = "ksOff" -> I \ {"ks"}
                   [] o = "dnsOn" -> I \cup {"dns"}
                   [] OTHER       -> I \ {"dns"}

\* History: a handler of PostureOps begins while another one is under way.
Overlap(p) == IF \E q \in Procs \ {p} : Busy(q) THEN "disturbed" ELSE history

-----------------------------------------------------------------------------
Init ==
    /\ intent \in SUBSET {"ks", "dns"}
    /\ cfg = Target(intent)
    /\ live = cfg
    /\ wg \in {"absent", "down"}
    /\ flows = {}
    /\ keys \in SUBSET {"vpn_summary", "dns_defaulted"}
    /\ "vpn_summary" \in keys <=> wg # "absent"
    /\ "dns" \in intent => "dns_defaulted" \in keys
    /\ rec = NoRec
    /\ kick = 0
    /\ note = "none"
    /\ pc = [p \in Procs |-> Rest(p)]
    /\ op = [p \in Procs |-> "none"]
    /\ loc = [p \in Procs |-> EmptyRec]
    /\ cancelled = {}
    /\ reqs = 0
    /\ crashes = 0
    /\ history = "clean"

-----------------------------------------------------------------------------
(* Commands.  runAll and Exec.Run: a command either takes effect, or fails *)
(* and the caller goes on at `no`.  With its context done every command    *)
(* fails at once; the store takes no context.                              *)

Fails(p) == p \in cancelled \/ "cmd" \in Faults

Run(p, c, l, yes, no) ==
    \/ /\ p \notin cancelled
       /\ cfg' = c
       /\ live' = l
       /\ Goto(p, yes)
    \/ /\ Fails(p)
       /\ Goto(p, no)
       /\ UNCHANGED <<cfg, live>>

\* enterPortalMode and exitPortalMode log an error and go on, the handlers
\* of the toggles answer 502 and return.
OnError(p, l) == IF op[p] \in {"enter", "exit"} THEN l ELSE "ret"

\* Every reader of the store drops the error of a read that fails and takes
\* the key for absent.
ReadFails == "store" \in Faults

Query(p, l) == /\ Goto(p, l)
               /\ UNCHANGED <<router, store, kick, note, op, cancelled, bounds, ghost>>

-----------------------------------------------------------------------------
(* vpn.SetKillSwitch: one shell script, then the conntrack flush *)

TurnsOn(p) == op[p] \in {"exit", "ksOn"}

AfterKS(p) ==
    CASE op[p] = "enter" -> IF "dns" \in loc[p].saved THEN "dis_dhcp" ELSE "e_end"
      [] op[p] = "exit"  -> IF "dns" \in loc[p].saved THEN "en_dhcp" ELSE "x_del"
      [] OTHER           -> "k_dnsq"

Switched(p) == IF TurnsOn(p) THEN cfg \ {"lanwan"} ELSE cfg \cup {"lanwan"}

\* The script reloads the firewall only when it changed the configuration.
\* Switching ON ends in `|| true`, so a failed reload goes unreported; a
\* context that ends between commit and reload kills the script there.
KillSwitchScript(p) ==
    /\ pc[p] = "ks_script"
    /\ LET yes == IF TurnsOn(p) THEN "ks_flush" ELSE AfterKS(p)
           no  == OnError(p, AfterKS(p))
       IN  \/ /\ Run(p, Switched(p),
                     IF Switched(p) # cfg THEN Reload(live, Switched(p)) ELSE live, yes, no)
              /\ UNCHANGED cancelled
           \/ /\ p \notin cancelled
              /\ Switched(p) # cfg
              /\ cfg' = Switched(p)
              /\ \/ /\ "cmd" \in Faults
                    /\ Goto(p, IF TurnsOn(p) THEN yes ELSE no)
                    /\ UNCHANGED cancelled
                 \/ /\ "ctx" \in Faults
                    /\ cancelled' = cancelled \cup {p}
                    /\ Goto(p, no)
              /\ UNCHANGED live
    /\ UNCHANGED <<wg, flows, store, kick, note, op, loc, bounds, ghost>>

\* Variant: the kill switch does not flush established flows.
NoFlush(p) ==
    /\ pc[p] = "ks_flush"
    /\ Goto(p, AfterKS(p))
    /\ UNCHANGED <<router, store, kick, note, op, loc, cancelled, bounds, ghost>>

\* The flush talks netlink directly and takes no context.
FlushConntrack(p) ==
    /\ pc[p] = "ks_flush"
    /\ \/ /\ flows' = flows \ {"raw"}
          /\ Goto(p, AfterKS(p))
       \/ /\ "cmd" \in Faults
          /\ Goto(p, OnError(p, AfterKS(p)))
          /\ UNCHANGED flows
    /\ UNCHANGED <<cfg, live, wg, store, kick, note, op, loc, cancelled, bounds, ghost>>

-----------------------------------------------------------------------------
(* dns.Enable, dns.Disable, dns.SetFailClosed: uci commits, then services *)

\* Variant: the restore forgets the fail-closed rule.
AfterDnsNoFailClosed(p) ==
    CASE op[p] = "enter"  -> "e_end"
      [] op[p] = "exit"   -> "x_del"
      [] op[p] = "dnsOn"  -> "d_ksq"
      [] op[p] = "dnsOff" -> "d_mark"
      [] OTHER            -> "ap_mark"

AfterDns(p) ==
    CASE op[p] = "enter"  -> "e_end"
      [] op[p] = "exit"   -> IF "ks" \in loc[p].saved THEN "fc_cfg" ELSE "x_del"
      [] op[p] = "dnsOn"  -> "d_ksq"
      [] op[p] = "dnsOff" -> "d_mark"
      [] OTHER            -> "ap_mark"

AfterFC(p) ==
    CASE op[p] = "exit"  -> "x_del"
      [] op[p] = "dnsOn" -> "d_mark"
      [] OTHER           -> "c_read"

Command(p, from, c, l, yes, after) ==
    /\ pc[p] = from
    /\ Run(p, c, l, yes, OnError(p, after))
    /\ UNCHANGED <<wg, flows, store, kick, note, op, loc, cancelled, bounds, ghost>>

EnableDhcp(p)   == Command(p, "en_dhcp", cfg \cup {"doh"}, live, "en_fw", AfterDns(p))
EnableRules(p)  == Command(p, "en_fw", cfg \cup {"dns53"}, live, "dns_restart", AfterDns(p))

\* `uci -q delete ... || true`: a delete that fails leaves its section and goes
\* unnoticed.
Deleted(S) == IF "cmd" \in Faults THEN SUBSET S ELSE {S}

DisableDhcp(p) ==
    \E gone \in Deleted({"doh"}) :
       Command(p, "dis_dhcp", cfg \ gone, live, "dis_fw", AfterDns(p))
DisableRules(p) ==
    \E gone \in Deleted({"dns53", "dnsks"}) :
       Command(p, "dis_fw", cfg \ gone, live, "dns_restart", AfterDns(p))
RestartDnsmasq(p) == Command(p, "dns_restart", cfg, Restart(live, cfg), "dns_reload",
                             AfterDns(p))
ReloadFirewall(p) == Command(p, "dns_reload", cfg, Reload(live, cfg), AfterDns(p), AfterDns(p))

FailClosedRule(p) ==
    \E gone \in Deleted({"dnsks"}) :
       Command(p, "fc_cfg", IF op[p] = "ksOff" THEN cfg \ gone ELSE cfg \cup {"dnsks"},
               live, "fc_reload", AfterFC(p))

\* With the rule enforced the forwarder's warm connections are cut.
FailClosedReload(p) ==
    /\ pc[p] = "fc_reload"
    /\ \/ /\ p \notin cancelled
          /\ live' = Reload(live, cfg)
          /\ flows' = IF op[p] = "ksOff" THEN flows ELSE flows \ {"doh"}
          /\ Goto(p, AfterFC(p))
       \/ /\ Fails(p)
          /\ Goto(p, OnError(p, AfterFC(p)))
          /\ UNCHANGED <<live, flows>>
    /\ UNCHANGED <<cfg, wg, store, kick, note, op, loc, cancelled, bounds, ghost>>

Service(p) ==
    \/ KillSwitchScript(p) \/ FlushConntrack(p)
    \/ EnableDhcp(p) \/ EnableRules(p) \/ DisableDhcp(p) \/ DisableRules(p)
    \/ RestartDnsmasq(p) \/ ReloadFirewall(p)
    \/ FailClosedRule(p) \/ FailClosedReload(p)

-----------------------------------------------------------------------------
(* enterPortalMode *)

\* Variant: re-entering captures the posture again.
EnterReadAgain(p) ==
    /\ pc[p] = "e_read"
    /\ UNCHANGED loc
    /\ Query(p, "e_ks")

\* An existing record is kept; a portal address found by the scout replaces
\* the recorded one.  A re-entry whose read fails takes the pause for a new
\* one: it captures the relaxed state and writes it over the record.
EnterRead(p) ==
    /\ pc[p] = "e_read"
    /\ \/ /\ rec # NoRec
          /\ loc' = [loc EXCEPT ![p] =
                       [rec EXCEPT !.url = IF loc[p].url # NoUrl THEN loc[p].url ELSE @]]
          /\ Goto(p, "e_save")
          /\ UNCHANGED history
       \/ /\ rec = NoRec \/ ReadFails
          /\ history' = IF rec = NoRec THEN history ELSE "disturbed"
          /\ Goto(p, "e_ks")
          /\ UNCHANGED loc
    /\ UNCHANGED <<router, store, kick, note, op, cancelled, bounds, intent>>

\* A failed status query counts as "off".
EnterQueryKS(p) ==
    /\ pc[p] = "e_ks"
    /\ \/ /\ p \notin cancelled
          /\ loc' = [loc EXCEPT ![p].saved = Posture(cfg) \cap {"ks"}]
       \/ Fails(p) /\ UNCHANGED loc
    /\ Query(p, "e_dns")

\* Variant: the protections go down before the record is saved.
EnterUnsaved(p) ==
    /\ pc[p] = "e_dns"
    /\ loc' = [loc EXCEPT ![p].saved = @ \cup (Posture(cfg) \cap {"dns"})]
    /\ Query(p, "e_down")

EnterQueryDNS(p) ==
    /\ pc[p] = "e_dns"
    /\ \/ /\ p \notin cancelled
          /\ loc' = [loc EXCEPT ![p].saved = @ \cup (Posture(cfg) \cap {"dns"})]
       \/ Fails(p) /\ UNCHANGED loc
    /\ Query(p, "e_save")

\* Variant: a re-entry adds the window to the recorded deadline.
EnterSaveExtends(p) ==
    /\ pc[p] = "e_save"
    /\ LET new == [loc[p] EXCEPT !.left = @ + Window]
       IN  /\ loc' = [loc EXCEPT ![p] = new]
           /\ rec' = new \/ ("store" \in Faults /\ rec' = rec)
    /\ history' = IF rec' = NoRec THEN "disturbed" ELSE history
    /\ Goto(p, "e_down")
    /\ UNCHANGED <<router, keys, kick, note, op, cancelled, bounds, intent>>

\* A failed PutConfig is logged and the handler goes on; a pause that begins
\* so has no record at all.
EnterSave(p) ==
    /\ pc[p] = "e_save"
    /\ LET new == [loc[p] EXCEPT !.left = Window]
       IN  /\ loc' = [loc EXCEPT ![p] = new]
           /\ rec' = new \/ ("store" \in Faults /\ rec' = rec)
    /\ history' = IF rec' = NoRec THEN "disturbed" ELSE history
    /\ Goto(p, "e_down")
    /\ UNCHANGED <<router, keys, kick, note, op, cancelled, bounds, intent>>

\* Variant: the tunnel stays up in a pause.
EnterKeepsTunnel(p) ==
    /\ pc[p] = "e_down"
    /\ Goto(p, IF "ks" \in loc[p].saved THEN "ks_script" ELSE AfterKS(p))
    /\ UNCHANGED <<router, store, kick, note, op, loc, cancelled, bounds, ghost>>

EnterDown(p) ==
    /\ pc[p] = "e_down"
    /\ \/ /\ p \notin cancelled
          /\ wg' = IF wg = "up" THEN "down" ELSE wg
       \/ Fails(p) /\ UNCHANGED wg
    /\ Goto(p, IF "ks" \in loc[p].saved THEN "ks_script" ELSE AfterKS(p))
    /\ UNCHANGED <<cfg, live, flows, store, kick, note, op, loc, cancelled, bounds, ghost>>

EnterDone(p) ==
    /\ pc[p] = "e_end"
    /\ note' = "none"
    /\ kick' = 1
    /\ history' = IF history = "cut" THEN "clean" ELSE history
    /\ Goto(p, "ret")
    /\ UNCHANGED <<router, store, op, loc, cancelled, bounds, intent>>

Enter(p) ==
    \/ EnterRead(p) \/ EnterQueryKS(p) \/ EnterQueryDNS(p)
    \/ EnterSave(p) \/ EnterDown(p) \/ EnterDone(p)

-----------------------------------------------------------------------------
(* exitPortalMode *)

\* Without a record, or with a read that fails, nothing is restored.
ExitRead(p) ==
    /\ pc[p] = "x_read"
    /\ \/ /\ rec # NoRec
          /\ loc' = [loc EXCEPT ![p] = rec]
          /\ Query(p, "x_up")
       \/ /\ rec = NoRec \/ ReadFails
          /\ Query(p, "ret")
          /\ UNCHANGED loc

ExitUp(p) ==
    /\ pc[p] = "x_up"
    /\ \/ /\ "vpn_summary" \in keys
          /\ p \notin cancelled
          /\ wg' = IF wg = "absent" THEN wg ELSE "up"
       \/ /\ "vpn_summary" \notin keys \/ ReadFails \/ Fails(p)
          /\ UNCHANGED wg
    /\ Goto(p, IF "ks" \in loc[p].saved THEN "ks_script" ELSE AfterKS(p))
    /\ UNCHANGED <<cfg, live, flows, store, kick, note, op, loc, cancelled, bounds, ghost>>

ExitClear(p) ==
    /\ pc[p] = "x_del"
    /\ rec' = NoRec \/ ("store" \in Faults /\ rec' = rec)
    /\ note' = "restored"
    /\ history' = IF history = "cut" /\ rec' = NoRec THEN "clean" ELSE history
    /\ Goto(p, "ret")
    /\ UNCHANGED <<router, keys, kick, op, loc, cancelled, bounds, intent>>

Exit(p) == ExitRead(p) \/ ExitUp(p) \/ ExitClear(p)

-----------------------------------------------------------------------------
(* killSwitchSet, dnsSet, applyDNSDefault and cancelPortalMode *)

\* The fail-closed rule follows the kill switch while encrypted DNS is on;
\* a failed status query skips it.
KillSwitchAskDNS(p) ==
    /\ pc[p] = "k_dnsq"
    /\ \/ p \notin cancelled /\ Query(p, IF "dns" \in Posture(cfg) THEN "fc_cfg" ELSE "c_read")
       \/ Fails(p) /\ Query(p, "c_read")
    /\ UNCHANGED loc

DnsAskKS(p) ==
    /\ pc[p] = "d_ksq"
    /\ \/ p \notin cancelled /\ Query(p, IF "ks" \in Posture(cfg) THEN "fc_cfg" ELSE "d_mark")
       \/ Fails(p) /\ Query(p, "d_mark")
    /\ UNCHANGED loc

\* dnsSet records the user's choice, applyDNSDefault its own.
DnsMark(p) ==
    /\ pc[p] \in {"d_mark", "ap_mark"}
    /\ keys' = keys \cup {"dns_defaulted"} \/ ("store" \in Faults /\ keys' = keys)
    /\ intent' = IF pc[p] = "ap_mark" THEN intent \cup {"dns"} ELSE intent
    /\ Goto(p, IF pc[p] = "ap_mark" THEN "ret" ELSE "c_read")
    /\ UNCHANGED <<router, rec, kick, note, op, loc, cancelled, bounds, history>>

\* History: in a pause the user's choice is what the router has now.
TakesOver == /\ intent' = Posture(cfg)
             /\ history' = IF history = "clean" THEN "clean" ELSE "disturbed"

\* A toggle whose read of the record fails leaves the pause to go on.
CancelRead(p) ==
    /\ pc[p] = "c_read"
    /\ \/ /\ rec # NoRec
          /\ Goto(p, "c_del")
          /\ UNCHANGED ghost
       \/ /\ rec = NoRec
          /\ intent' = Toggled(intent, op[p])
          /\ Goto(p, "ret")
          /\ UNCHANGED history
       \/ /\ rec # NoRec /\ ReadFails
          /\ TakesOver
          /\ Goto(p, "ret")
    /\ UNCHANGED <<router, store, kick, note, op, loc, cancelled, bounds>>

\* The pause is dropped and what the router has now stands.
CancelDelete(p) ==
    /\ pc[p] = "c_del"
    /\ rec' = NoRec \/ ("store" \in Faults /\ rec' = rec)
    /\ note' = "canceled"
    /\ TakesOver
    /\ Goto(p, "ret")
    /\ UNCHANGED <<router, keys, kick, op, loc, cancelled, bounds>>

SetAP(p) ==
    /\ pc[p] = "ap_wifi"
    /\ \/ p \notin cancelled /\ Query(p, "ap_read")
       \/ Fails(p) /\ Query(p, "ret")
    /\ UNCHANGED loc

\* A read that fails counts as "never decided".
ApplyDNSDefault(p) ==
    /\ pc[p] = "ap_read"
    /\ \/ "dns_defaulted" \in keys /\ Query(p, "ret")
       \/ ("dns_defaulted" \notin keys \/ ReadFails) /\ Query(p, "en_dhcp")
    /\ UNCHANGED loc

Toggle(p) ==
    \/ KillSwitchAskDNS(p) \/ DnsAskKS(p) \/ DnsMark(p)
    \/ CancelRead(p) \/ CancelDelete(p) \/ SetAP(p) \/ ApplyDNSDefault(p)

-----------------------------------------------------------------------------
(* wifiJoinUplink, vpnUp, vpnDown and vpnImport *)

JoinUplink(p) ==
    /\ pc[p] = "j_join"
    /\ \/ p \notin cancelled /\ kick' = 1
       \/ Fails(p) /\ UNCHANGED kick
    /\ Goto(p, "ret")
    /\ UNCHANGED <<router, store, note, op, loc, cancelled, bounds, ghost>>

SetTunnel(p) ==
    /\ pc[p] \in {"v_up", "v_down"}
    /\ \/ /\ p \notin cancelled
          /\ wg' = IF wg = "absent" THEN wg ELSE IF pc[p] = "v_up" THEN "up" ELSE "down"
       \/ Fails(p) /\ UNCHANGED wg
    /\ Goto(p, "ret")
    /\ UNCHANGED <<cfg, live, flows, store, kick, note, op, loc, cancelled, bounds, ghost>>

\* auto=0: an imported tunnel stays down until Up; whether netifd keeps a
\* running tunnel up across the re-import depends on what changed.
Import(p) ==
    /\ pc[p] = "im_apply"
    /\ \/ /\ p \notin cancelled
          /\ wg' \in {"down"} \cup ({wg} \cap {"up"})
          /\ Goto(p, "im_sum")
       \/ /\ Fails(p)
          /\ Goto(p, "ret")
          /\ UNCHANGED wg
    /\ UNCHANGED <<cfg, live, flows, store, kick, note, op, loc, cancelled, bounds, ghost>>

ImportSummary(p) ==
    /\ pc[p] = "im_sum"
    /\ keys' = keys \cup {"vpn_summary"} \/ ("store" \in Faults /\ keys' = keys)
    /\ Goto(p, "ret")
    /\ UNCHANGED <<router, rec, kick, note, op, loc, cancelled, bounds, ghost>>

Other(p) == JoinUplink(p) \/ SetTunnel(p) \/ Import(p) \/ ImportSummary(p)

-----------------------------------------------------------------------------
(* Handlers begin and return *)

First(o) == CASE o = "enter"  -> "e_read"
              [] o = "exit"   -> "x_read"
              [] o \in {"ksOn", "ksOff"} -> "ks_script"
              [] o = "dnsOn"  -> "en_dhcp"
              [] o = "dnsOff" -> "dis_dhcp"
              [] o = "ap"     -> "ap_wifi"
              [] o = "join"   -> "j_join"
              [] o = "vpnUp"  -> "v_up"
              [] o = "vpnDown" -> "v_down"
              [] OTHER        -> "im_apply"

Begin(p, o, r) ==
    /\ op' = [op EXCEPT ![p] = o]
    /\ loc' = [loc EXCEPT ![p] = r]
    /\ Goto(p, First(o))
    /\ history' = IF o \in PostureOps THEN Overlap(p) ELSE history

Request(c, o) ==
    /\ pc[c] = "idle"
    /\ reqs < MaxReqs
    /\ reqs' = reqs + 1
    /\ Begin(c, o, EmptyRec)
    /\ UNCHANGED <<router, store, kick, note, cancelled, crashes, intent>>

Return(p) ==
    /\ pc[p] = "ret"
    /\ pc' = [pc EXCEPT ![p] = Rest(p)]
    /\ op' = [op EXCEPT ![p] = "none"]
    /\ loc' = [loc EXCEPT ![p] = EmptyRec]
    /\ cancelled' = cancelled \ {p}
    /\ UNCHANGED <<router, store, kick, note, bounds, ghost>>

\* The client disconnects or the handler's timeout passes.
ContextDone(p) ==
    /\ "ctx" \in Faults
    /\ op[p] # "none"
    /\ p \notin cancelled
    /\ cancelled' = cancelled \cup {p}
    /\ UNCHANGED <<router, store, kick, note, pc, op, loc, bounds, ghost>>

-----------------------------------------------------------------------------
(* RunPortalWatch and portalScout *)

Silent == UNCHANGED <<router, store, note, cancelled, bounds, intent>>

\* Variant: the loop does not look at the deadline.
WatchLoopForever ==
    /\ pc[Watch] = "w_loop"
    /\ \/ /\ rec = NoRec
          /\ Goto(Watch, "w_idle")
          /\ UNCHANGED loc
       \/ /\ rec # NoRec
          /\ loc' = [loc EXCEPT ![Watch] = rec]
          /\ Goto(Watch, "w_probe")
    /\ UNCHANGED <<kick, op, history>> /\ Silent

\* The loop's head: idle without a record, restore after the deadline, probe
\* otherwise.  The record read here is the one a later save writes back; a
\* read that fails leaves the loop idle until the next kick.
WatchLoop ==
    /\ pc[Watch] = "w_loop"
    /\ \/ /\ rec = NoRec \/ ReadFails
          /\ Goto(Watch, "w_idle")
          /\ UNCHANGED <<op, loc, history>>
       \/ /\ rec # NoRec /\ rec.left = 0
          /\ Begin(Watch, "exit", EmptyRec)
       \/ /\ rec # NoRec /\ rec.left > 0
          /\ loc' = [loc EXCEPT ![Watch] = rec]
          /\ Goto(Watch, "w_probe")
          /\ UNCHANGED <<op, history>>
    /\ UNCHANGED kick /\ Silent

WatchIdle ==
    /\ pc[Watch] = "w_idle"
    /\ kick = 1
    /\ kick' = 0
    /\ Goto(Watch, "s_check")
    /\ UNCHANGED <<op, loc, history>> /\ Silent

WatchProbeOnline ==
    /\ pc[Watch] = "w_probe"
    /\ Begin(Watch, "exit", EmptyRec)
    /\ UNCHANGED kick /\ Silent

\* Captive at an address the record does not have yet.
WatchProbeNewUrl ==
    /\ pc[Watch] = "w_probe"
    /\ \E u \in Urls \ {loc[Watch].url} : loc' = [loc EXCEPT ![Watch].url = u]
    /\ Goto(Watch, "w_save")
    /\ UNCHANGED <<kick, op, history>> /\ Silent

\* Captive as before, or neither online nor captive.
WatchProbeSame ==
    /\ pc[Watch] = "w_probe"
    /\ Goto(Watch, "w_wait")
    /\ UNCHANGED <<kick, op, loc, history>> /\ Silent

\* The copy read before the probe is written back as a whole.
WatchSave ==
    /\ pc[Watch] = "w_save"
    /\ rec' = loc[Watch] \/ ("store" \in Faults /\ rec' = rec)
    /\ history' = IF /\ rec # NoRec
                     /\ rec.saved = loc[Watch].saved
                     /\ \A p \in Clients : ~Busy(p)
                  THEN history ELSE "disturbed"
    /\ Goto(Watch, "w_wait")
    /\ UNCHANGED <<router, keys, kick, note, op, loc, cancelled, bounds, intent>>

\* Woken by a kick, which it consumes, or by the probe timer.
WatchWait ==
    /\ pc[Watch] = "w_wait"
    /\ kick' \in {0, kick}
    /\ Goto(Watch, "w_loop")
    /\ loc' = [loc EXCEPT ![Watch] = EmptyRec]
    /\ UNCHANGED <<op, history>> /\ Silent

\* A read that fails lets the scout probe, and enter, over a record.
ScoutCheck ==
    /\ pc[Watch] = "s_check"
    /\ \/ rec # NoRec /\ Goto(Watch, "w_loop")
       \/ (rec = NoRec \/ ReadFails) /\ Goto(Watch, "s_probe")
    /\ UNCHANGED <<kick, op, loc, history>> /\ Silent

ScoutCaptive ==
    /\ pc[Watch] = "s_probe"
    /\ \E u \in Urls \cup {NoUrl} : Begin(Watch, "enter", [EmptyRec EXCEPT !.url = u])
    /\ UNCHANGED kick /\ Silent

\* Online ends the scout, offline waits for the next round.
ScoutOther ==
    /\ pc[Watch] = "s_probe"
    /\ \E l \in {"w_loop", "s_sleep"} : Goto(Watch, l)
    /\ UNCHANGED <<kick, op, loc, history>> /\ Silent

\* The next round, or the end of portalScoutFor.
ScoutSleep ==
    /\ pc[Watch] = "s_sleep"
    /\ \E l \in {"w_loop", "s_check"} : Goto(Watch, l)
    /\ UNCHANGED <<kick, op, loc, history>> /\ Silent

Watching ==
    \/ WatchLoop \/ WatchIdle \/ WatchProbeOnline \/ WatchProbeNewUrl \/ WatchProbeSame
    \/ WatchSave \/ WatchWait \/ ScoutCheck \/ ScoutCaptive \/ ScoutOther \/ ScoutSleep

-----------------------------------------------------------------------------
(* Environment: the clock, client traffic, restarts *)

Later(r) == [r EXCEPT !.left = IF @ > 0 THEN @ - 1 ELSE 0]

\* Deadlines are kept as the time left, so the clock ages every copy.
Tick ==
    /\ \/ rec # NoRec /\ rec.left > 0
       \/ \E p \in Procs : loc[p].left > 0
    /\ rec' = IF rec = NoRec THEN NoRec ELSE Later(rec)
    /\ loc' = [p \in Procs |-> Later(loc[p])]
    /\ UNCHANGED <<router, keys, kick, note, pc, op, cancelled, bounds, ghost>>

\* A client reaches the uplink directly, or a lookup dials its resolver there.
OpenFlow ==
    /\ \/ /\ "lanwan" \in live
          /\ flows' = flows \cup {"raw"}
       \/ /\ "doh" \in live /\ "dnsks" \notin live /\ wg # "up"
          /\ flows' = flows \cup {"doh"}
    /\ UNCHANGED <<cfg, live, wg, store, kick, note, process, bounds, ghost>>

\* The daemon dies; procd respawns it.  Only the store survives in it.
Killed ==
    /\ crashes < MaxCrashes
    /\ crashes' = crashes + 1
    /\ kick' = 0
    /\ note' = "none"
    /\ pc' = [p \in Procs |-> Rest(p)]
    /\ op' = [p \in Procs |-> "none"]
    /\ loc' = [p \in Procs |-> EmptyRec]
    /\ cancelled' = {}
    /\ history' = IF \E p \in Procs : Busy(p) /\ op[p] \notin {"enter", "exit"}
                  THEN "disturbed"
                  ELSE IF rec # NoRec /\ ~Quiet /\ history = "clean" THEN "cut" ELSE history
    /\ UNCHANGED <<cfg, store, reqs, intent>>

Crash ==
    /\ Killed
    /\ flows' = flows \ {"doh"}
    /\ UNCHANGED <<live, wg>>

\* The router reboots: services start from the committed configuration.
Reboot ==
    /\ Killed
    /\ live' = cfg
    /\ flows' = {}
    /\ wg' = IF wg = "up" THEN "down" ELSE wg

-----------------------------------------------------------------------------
Step(p) == Service(p) \/ Enter(p) \/ Exit(p) \/ Toggle(p) \/ Other(p) \/ Return(p)

Environment == Tick \/ OpenFlow \/ Crash \/ Reboot

Next ==
    \/ \E c \in Clients : \E o \in Ops : Request(c, o)
    \/ \E p \in Procs : Step(p) \/ ContextDone(p)
    \/ Watching
    \/ Environment

Fairness ==
    /\ \A c \in Clients : WF_vars(Step(c))
    /\ WF_vars(Step(Watch) \/ Watching)
    /\ WF_vars(Tick)

Spec == Init /\ [][Next]_vars /\ Fairness

-----------------------------------------------------------------------------
(* Properties *)

\* Every variable has its type; a section, key or record is one the code knows.
TypeOK ==
    /\ cfg \in SUBSET Sections
    /\ live \in SUBSET Sections
    /\ wg \in {"absent", "down", "up"}
    /\ flows \in SUBSET {"raw", "doh"}
    /\ keys \in SUBSET {"vpn_summary", "dns_defaulted"}
    /\ rec \in PortalRecord \cup {NoRec}
    /\ kick \in {0, 1}
    /\ note \in {"none", "restored", "canceled"}
    /\ pc \in [Procs -> PCs]
    /\ op \in [Procs -> AllOps \cup {"none"}]
    /\ loc \in [Procs -> PortalRecord]
    /\ cancelled \in SUBSET Procs
    /\ reqs \in 0..MaxReqs
    /\ crashes \in 0..MaxCrashes
    /\ intent \in SUBSET {"ks", "dns"}
    /\ history \in {"clean", "cut", "disturbed"}

\* A pause that ran by itself (however often the daemon or the router was
\* restarted in it) strands nothing: with no record left and no handler under
\* way, configuration and services are exactly the posture the user chose.
NeverStranded ==
    (history # "disturbed" /\ rec = NoRec /\ Quiet)
        => (cfg = Target(intent) /\ live = cfg)

\* The record never holds a relaxed state as the posture to restore, neither
\* after re-entering nor after a restart in the middle of a pause.
SavedIsPosture ==
    (history # "disturbed" /\ rec # NoRec) => rec.saved = intent

\* A pause that was not interrupted is complete: every protection is off in
\* the configuration and in the services, and the tunnel is held down.
PauseRelaxesAll ==
    (history = "clean" /\ rec # NoRec /\ Quiet)
        => (cfg = Target({}) /\ live = cfg /\ wg # "up")

\* Rules stop new connections only.  Once the kill switch is back on, nothing
\* opened over the raw WAN meanwhile survives: no client flow and, with
\* encrypted DNS, no warm DoH connection, wherever a restart cut the restore.
FlowsCut ==
    (history # "disturbed" /\ rec = NoRec /\ Quiet /\ "ks" \in Posture(cfg))
        => ("raw" \notin flows /\ ("dns" \in Posture(cfg) => "doh" \notin flows))

\* enterPortalMode records before it relaxes: from the first relaxing step on
\* the store holds what this pause will have to restore.  Two store failures
\* void it, as the code takes them (both disturb the history): the first
\* record is refused, or a re-entry cannot read the record there is.
RecordFirst ==
    \A p \in Procs :
        (history # "disturbed" /\ op[p] = "enter"
            /\ pc[p] \in BusyPCs \ {"e_read", "e_ks", "e_dns", "e_save"})
        => (rec # NoRec /\ rec.saved = loc[p].saved)

\* While a pause lasts, whatever command, context or store write fails in it,
\* and whichever read of the watch, the scout, an exit or a toggle, the posture
\* it will restore is fixed: re-entering and portal-address updates keep it.
\* The one exception is a re-entry that cannot read the record (EnterRead).
RecordKeepsPosture ==
    [][(rec # NoRec /\ rec' # NoRec /\ history' # "disturbed") => rec'.saved = rec.saved]_vars

\* Undisturbed, the daemon implements PortalPause, over any restarts: at every
\* step, not only between handlers, what changes in the services is a
\* protection of the recorded posture, or one the user is switching.
Undisturbed == history # "disturbed"
UserToggles == \E p \in Procs : Busy(p) /\ op[p] \in {"ksOn", "ksOff", "dnsOn", "dnsOff"}
Held        == IF rec = NoRec THEN NoRec ELSE rec.saved

Pause == INSTANCE PortalPause WITH
             Protections <- {"ks", "dns"}, NoRecord <- NoRec, posture <- intent,
             on <- Posture(live), held <- Held, user <- UserToggles, calm <- Undisturbed
PauseAsPromised == Pause!Spec

\* With the kill switch and encrypted DNS both on, the rule that denies DoH
\* the raw WAN is enforced, whichever of two concurrent handlers was last.
FailClosedArmed ==
    (Quiet /\ Posture(cfg) = {"ks", "dns"}) => "dnsks" \in live

\* The window is hard-bounded: every pause ends, whatever the probes say.
PauseEnds == rec # NoRec ~> rec = NoRec

-----------------------------------------------------------------------------
(* What the comments promise without qualification.  The code keeps none of *)
(* these in every case: TLC finds a counterexample to each.                 *)

\* "a manual kill-switch or DNS toggle during the pause cancels the machine":
\* only enterPortalMode brings a record into being.
OnlyEnterStartsPause ==
    [][(rec = NoRec /\ rec' # NoRec) => \E p \in Procs : pc[p] = "e_save"]_vars

\* mistd "restores them the moment real connectivity appears (or the window
\* expires)": when a pause is over, the protections are the chosen ones.  A
\* watch that is online at once restores between the save and the relaxing
\* commands of the enter that began the pause.
NoPauseStrands == (rec = NoRec /\ Quiet) => cfg = Target(intent)

\* enterPortalMode "must never record the relaxed state": a re-entry whose read
\* of the record fails does.
RelaxedNeverSaved == rec # NoRec => rec.saved = intent

\* The note "protections restored" is shown when they have been.
NoteIsTrue ==
    (note = "restored" /\ history # "disturbed" /\ rec = NoRec /\ Quiet)
        => live = Target(intent)

\* Kill switch ON means "clients cannot reach the uplink directly".
SwitchIsEnforced == (Quiet /\ "lanwan" \notin cfg) => "lanwan" \notin live

\* After a join "the portal scout probes the new uplink in the background".
JoinScouted ==
    \A c \in Clients : (pc[c] = "j_join") ~> (pc[Watch] \in {"s_probe", "w_probe"})
=============================================================================
