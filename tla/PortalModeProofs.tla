-------------------------- MODULE PortalModeProofs --------------------------
(***************************************************************************)
(* What holds of PortalMode for every set of requests, window and bound:   *)
(* first whatever command or store transaction fails, then what a pause    *)
(* and its end leave behind when none does, and that undisturbed the       *)
(* daemon implements PortalPause.                                          *)
(*                                                                         *)
(* RestoreInv is the invariant behind NeverStranded and SavedIsPosture,    *)
(* when no command and no store transaction fails and applyDNSDefault does *)
(* not run.  NeverStranded speaks of states with no handler under way; to  *)
(* reach the next such state one has to know what every handler has        *)
(* already done at each of its steps, what a pause that a restart cut      *)
(* short leaves behind, and that undisturbed handlers do not overlap.      *)
(* PauseInv adds what FlowsCut and PauseRelaxesAll need: which connections *)
(* a step leaves open, and where the tunnel may be up during a pause.      *)
(* RecordInv, behind RecordFirst and RecordKeepsPosture, needs none of     *)
(* those assumptions: it holds whatever command or transaction fails.      *)
(***************************************************************************)
EXTENDS PortalMode, TLAPS

-----------------------------------------------------------------------------
(* The invariants *)

DnsSections == {"doh", "dns53", "dnsks"}

\* Which handlers can be at which step.
OpOfPc(o, l) ==
    /\ l \in EnterPCs => o = "enter"
    /\ l \in ExitPCs => o = "exit"
    /\ l = "ks_script" => o \in {"enter", "exit", "ksOn", "ksOff"}
    /\ l = "ks_flush" => o \in {"exit", "ksOn"}
    /\ l \in {"en_dhcp", "en_fw"} => o \in {"exit", "dnsOn"}
    /\ l \in {"dis_dhcp", "dis_fw"} => o \in {"enter", "dnsOff"}
    /\ l \in {"dns_restart", "dns_reload"} => o \in {"enter", "exit", "dnsOn", "dnsOff"}
    /\ l \in FcPCs => o \in {"exit", "ksOn", "ksOff", "dnsOn"}
    /\ l = "k_dnsq" => o \in {"ksOn", "ksOff"}
    /\ l = "d_ksq" => o = "dnsOn"
    /\ l = "d_mark" => o \in {"dnsOn", "dnsOff"}
    /\ l \in {"c_read", "c_del"} => o \in {"ksOn", "ksOff", "dnsOn", "dnsOff"}
    /\ l = "v_up" => o = "vpnUp"
    /\ l \notin {"ap_wifi", "ap_read", "ap_mark"}

OpsMatch == \A p \in Procs : OpOfPc(op[p], pc[p])

\* Undisturbed handlers run one at a time.
OneBusy == \A p, q \in Procs : Busy(p) /\ Busy(q) => p = q

\* The posture the router is in when no handler is under way: the user's, or
\* none at all during a pause that was not cut short.
Base    == IF rec = NoRec THEN intent ELSE {}
Settled == cfg = Target(Base) /\ live = cfg

\* Half-way into or out of a pause: only what the record names has changed,
\* and the forwarding is always in force as configured.
PausedRouter ==
    /\ "lanwan" \in cfg <=> "lanwan" \in live
    /\ "ks" \notin intent => "lanwan" \in cfg /\ "dnsks" \notin cfg /\ "dnsks" \notin live
    /\ "dns" \notin intent => \A s \in DnsSections : s \notin cfg /\ s \notin live

Idle ==
    /\ (rec = NoRec \/ history = "clean") => Settled
    /\ rec # NoRec => PausedRouter

\* enterPortalMode: nothing changes before the record is saved; afterwards the
\* protections go off in order.
EnterInv(p) ==
    /\ pc[p] \in {"e_read", "e_save"} => Idle
    /\ pc[p] \in {"e_ks", "e_dns"} => rec = NoRec /\ Settled
    /\ pc[p] = "e_dns" => loc[p].saved = intent \cap {"ks"}
    /\ pc[p] = "e_read" => loc[p].saved = {}
    /\ pc[p] = "e_save" => loc[p].saved = intent
    /\ pc[p] \notin {"e_read", "e_ks", "e_dns", "e_save"} =>
         /\ rec # NoRec
         /\ loc[p].saved = intent
         /\ PausedRouter
         /\ pc[p] \in {"dis_dhcp", "dis_fw", "dns_restart", "dns_reload"} => "lanwan" \in cfg
         /\ pc[p] \in {"dis_fw", "dns_restart", "dns_reload"} => "doh" \notin cfg
         /\ pc[p] \in {"dns_restart", "dns_reload"} => "dns53" \notin cfg /\ "dnsks" \notin cfg
         /\ pc[p] = "dns_reload" => "doh" \notin live
         /\ pc[p] = "e_end" => cfg = Target({}) /\ live = cfg

\* exitPortalMode: what is on again at each step.
ExitInv(p) ==
    /\ pc[p] = "x_read" => Idle
    /\ pc[p] # "x_read" =>
         /\ rec # NoRec
         /\ loc[p].saved = intent
         /\ PausedRouter
    /\ pc[p] = "ks_script" => "ks" \in intent
    /\ pc[p] \notin {"x_read", "x_up", "ks_script"} => ("lanwan" \in cfg => "ks" \notin intent)
    /\ pc[p] \in DnsPCs \cup FcPCs => "dns" \in intent
    /\ pc[p] \in FcPCs => "ks" \in intent
    /\ pc[p] \in {"en_fw", "dns_restart", "dns_reload", "fc_cfg", "fc_reload"} => "doh" \in cfg
    /\ pc[p] \in {"dns_restart", "dns_reload", "fc_cfg", "fc_reload"} => "dns53" \in cfg
    /\ pc[p] \in {"dns_reload", "fc_cfg", "fc_reload"} => "doh" \in live
    /\ pc[p] = "fc_reload" => "dnsks" \in cfg
    /\ pc[p] = "x_del" => cfg = Target(intent) /\ live = cfg

\* A toggle outside a pause, or in one that is complete.
ToggleInv(p) ==
    LET t == Target(Base)
        new == Target(Toggled(Base, op[p]))
    IN  /\ pc[p] \in {"ks_script", "en_dhcp", "dis_dhcp"} => Settled
        /\ pc[p] = "ks_flush" \/ (op[p] = "ksOn" /\ pc[p] \in {"k_dnsq", "fc_cfg"})
             => cfg = t \ {"lanwan"} /\ live = cfg
        /\ op[p] = "ksOff" /\ pc[p] \in {"k_dnsq", "fc_cfg"}
             => cfg = t \cup {"lanwan"} /\ live = cfg
        /\ op[p] \in {"ksOn", "ksOff"} /\ pc[p] = "fc_cfg" => "dns" \in Base
        /\ pc[p] = "en_fw" => cfg = t \cup {"doh"}
        /\ op[p] = "dnsOn" /\ pc[p] \in {"dns_restart", "dns_reload", "d_ksq", "fc_cfg"}
             => cfg = t \cup {"doh", "dns53"}
        /\ op[p] = "dnsOn" /\ pc[p] \in {"d_ksq", "fc_cfg"} => live = cfg
        /\ op[p] = "dnsOn" /\ pc[p] = "fc_cfg" => "ks" \in Base
        /\ pc[p] = "dis_fw" => cfg = t \ {"doh"}
        /\ op[p] = "dnsOff" /\ pc[p] \in {"dns_restart", "dns_reload"}
             => cfg = t \ DnsSections
        /\ pc[p] \in {"dns_reload", "fc_reload"} => ("doh" \in cfg <=> "doh" \in live)
        /\ pc[p] = "fc_reload" => cfg = new
        /\ pc[p] \in {"d_mark", "c_read", "c_del"} => cfg = new /\ live = cfg

BusyInv(p) ==
    /\ op[p] = "enter" => EnterInv(p)
    /\ op[p] = "exit" => ExitInv(p)
    /\ (op[p] \notin {"enter", "exit"} /\ (rec = NoRec \/ history = "clean")) => ToggleInv(p)

CutHasRecord == history = "cut" => rec # NoRec

\* Between two handlers and at each step of one, the router is as far as the
\* code has brought it.
Progress ==
    /\ OneBusy
    /\ SavedIsPosture
    /\ CutHasRecord
    /\ Quiet => Idle
    /\ \A p \in Procs : Busy(p) => BusyInv(p)

\* The inductive invariant of the daemon: as long as handlers do not overlap,
\* the record names the user's posture and every handler is where it should be.
RestoreInv ==
    /\ cancelled = {}
    /\ OpsMatch
    /\ Undisturbed => Progress

-----------------------------------------------------------------------------
(* Connections and the tunnel *)

\* What a posture leaves open over the raw WAN: with the kill switch no client
\* flow, with encrypted DNS as well no DoH connection.
Tight(I) == "ks" \in I => "raw" \notin flows /\ ("dns" \in I => "doh" \notin flows)

\* The forwarding is gone from the firewall and so is every flow over it.
Sealed == "lanwan" \notin live /\ "raw" \notin flows

\* Without a record the user's posture is tight up to the step that saves one.
UnpausedFlows(p) ==
    (rec = NoRec /\ pc[p] \in {"e_read", "e_ks", "e_dns", "e_save", "x_read"}) => Tight(intent)

\* The restore flushes after the kill switch, and cuts DoH after the rule.
ExitFlows(p) ==
    /\ (pc[p] \notin {"x_read", "x_up", "ks_script", "ks_flush"} /\ "ks" \in intent)
         => "raw" \notin flows
    /\ pc[p] = "x_del" => Tight(intent)

\* So do the toggles; the one that leaves the kill switch alone never opens it.
ToggleFlows(p) ==
    /\ (op[p] \in {"dnsOn", "dnsOff"} /\ "ks" \in Base) => Sealed
    /\ (op[p] = "ksOn" /\ pc[p] \notin {"ks_script", "ks_flush"}) => Sealed
    /\ pc[p] \in {"d_mark", "c_read", "c_del"} => Tight(Toggled(Base, op[p]))

BusyFlows(p) ==
    /\ op[p] \in {"enter", "exit"} => UnpausedFlows(p)
    /\ op[p] = "exit" => ExitFlows(p)
    /\ (op[p] \notin {"enter", "exit"} /\ (rec = NoRec \/ history = "clean")) => ToggleFlows(p)

FlowInv ==
    /\ (Quiet /\ rec = NoRec) => Tight(intent)
    /\ \A p \in Procs : Busy(p) => BusyFlows(p)

\* In a pause that was not cut short the tunnel is up only before it is taken
\* down and after it is brought up again.
TunnelMayBeUp(p) ==
    \/ op[p] = "enter" /\ pc[p] = "e_down"
    \/ op[p] = "exit" /\ pc[p] \in BusyPCs \ {"x_read", "x_up"}

TunnelInv ==
    /\ (history = "clean" /\ rec # NoRec /\ wg = "up") => \E p \in Procs : TunnelMayBeUp(p)
    /\ \A p \in Procs :
         (op[p] = "enter" /\ pc[p] \in BusyPCs \ {"e_read", "e_ks", "e_dns", "e_save", "e_down"})
           => wg # "up"

\* Nobody brings the tunnel up by hand.
NoTunnelUp == \A p \in Procs : op[p] # "vpnUp"

PauseInv ==
    /\ RestoreInv
    /\ Undisturbed => FlowInv
    /\ NoTunnelUp
    /\ Undisturbed => TunnelInv

-----------------------------------------------------------------------------
(* The record, whatever fails *)

\* The steps of enterPortalMode, the shared ones included.
EnterSteps ==
    EnterPCs \cup {"ks_script", "dis_dhcp", "dis_fw", "dns_restart", "dns_reload", "ret"}

EnterAtSteps == \A p \in Procs : op[p] = "enter" => pc[p] \in EnterSteps

\* A posture is captured only where there is no record; what is about to be
\* saved over an existing record has its posture.
AboutToSave(p) ==
    /\ pc[p] \in {"e_ks", "e_dns"} => rec = NoRec
    /\ (pc[p] = "e_save" /\ rec # NoRec) => loc[p].saved = rec.saved

\* RecordFirst, for one process.
RecordedFirst(p) ==
    (op[p] = "enter" /\ pc[p] \in BusyPCs \ {"e_read", "e_ks", "e_dns", "e_save"})
        => (rec # NoRec /\ rec.saved = loc[p].saved)

RecordInv ==
    /\ EnterAtSteps
    /\ Undisturbed =>
         /\ OneBusy
         /\ \A p \in Procs : AboutToSave(p) /\ RecordedFirst(p)

USE DEF Procs

-----------------------------------------------------------------------------
(* Type correctness *)

\* The continuations of the shared services are program counters.
LEMMA ContinuationType ==
    ASSUME NEW p \in Procs
    PROVE  /\ AfterKS(p) \in PCs
           /\ AfterDns(p) \in PCs
           /\ AfterFC(p) \in PCs
           /\ \A l \in PCs : OnError(p, l) \in PCs
           /\ Rest(p) \in PCs
           /\ \A o \in AllOps : First(o) \in PCs
<1> USE DEF PCs, BusyPCs, EnterPCs, ExitPCs, KsPCs, DnsPCs, FcPCs, TogglePCs,
            OtherPCs, WatchPCs
<1>1. AfterKS(p) \in PCs
  BY DEF AfterKS
<1>2. AfterDns(p) \in PCs
  BY DEF AfterDns
<1>3. AfterFC(p) \in PCs
  BY DEF AfterFC
<1>4. \A l \in PCs : OnError(p, l) \in PCs
  BY DEF OnError
<1>5. Rest(p) \in PCs
  BY DEF Rest
<1>6. \A o \in AllOps : First(o) \in PCs
  BY DEF First
<1>. QED
  BY <1>1, <1>2, <1>3, <1>4, <1>5, <1>6

LEMMA InitType == Init => TypeOK
<1> SUFFICES ASSUME Init PROVE TypeOK
  OBVIOUS
<1>1. EmptyRec \in PortalRecord
  BY WindowAssumption DEF EmptyRec, PortalRecord
<1>2. \A p \in Procs : Rest(p) \in PCs
  BY ContinuationType
<1>3. Target(intent) \in SUBSET Sections
  BY DEF Target, Sections
<1>. QED
  BY <1>1, <1>2, <1>3, BoundAssumption DEF Init, TypeOK

\* A service command writes sections and moves its process on.
LEMMA ServiceType ==
    ASSUME TypeOK, NEW p \in Procs, Service(p)
    PROVE  TypeOK'
<1>1. CASE KillSwitchScript(p)
  <2> DEFINE w   == Switched(p)
             yes == IF TurnsOn(p) THEN "ks_flush" ELSE AfterKS(p)
             no  == OnError(p, AfterKS(p))
  <2>1. w \in SUBSET Sections
    BY DEF TypeOK, Switched, Sections
  <2>2. Reload(live, w) \in SUBSET Sections
    BY <2>1 DEF TypeOK, Reload
  <2>3. yes \in PCs /\ no \in PCs
    BY ContinuationType DEF PCs, BusyPCs, KsPCs
  <2>4. \/ cfg' = w \/ cfg' = cfg
    BY <1>1 DEF KillSwitchScript, Run
  <2>5. \/ live' = Reload(live, w) \/ live' = live
    BY <1>1 DEF KillSwitchScript, Run
  <2>6. pc' = [pc EXCEPT ![p] = yes] \/ pc' = [pc EXCEPT ![p] = no]
    BY <1>1 DEF KillSwitchScript, Run, Goto
  <2> HIDE DEF w, yes, no
  <2>7. cfg' \in SUBSET Sections /\ live' \in SUBSET Sections
    BY <2>1, <2>2, <2>4, <2>5 DEF TypeOK
  <2>8. pc' \in [Procs -> PCs]
    BY <2>3, <2>6 DEF TypeOK
  <2>. QED
    BY <1>1, <2>7, <2>8 DEF TypeOK, KillSwitchScript, store, bounds, ghost
<1>2. CASE FlushConntrack(p)
  <2>1. flows' \in SUBSET {"raw", "doh"}
    BY <1>2 DEF TypeOK, FlushConntrack
  <2>2. pc' \in [Procs -> PCs]
    BY <1>2, ContinuationType DEF TypeOK, FlushConntrack, Goto
  <2>. QED
    BY <1>2, <2>1, <2>2 DEF TypeOK, FlushConntrack, store, bounds, ghost
<1>3. ASSUME NEW from, NEW c \in SUBSET Sections, NEW l \in SUBSET Sections,
             NEW yes \in PCs, NEW after \in PCs, Command(p, from, c, l, yes, after)
      PROVE  TypeOK'
  BY <1>3, ContinuationType DEF TypeOK, Command, Run, Goto, store, bounds, ghost
<1>4. {"en_fw", "dns_restart", "dis_fw", "dns_reload", "fc_reload"} \subseteq PCs
  BY DEF PCs, BusyPCs, DnsPCs, FcPCs
<1>5. /\ cfg \in SUBSET Sections
      /\ live \in SUBSET Sections
      /\ Restart(live, cfg) \in SUBSET Sections
      /\ Reload(live, cfg) \in SUBSET Sections
      /\ \A s \in SUBSET Sections : cfg \cup s \in SUBSET Sections
      /\ \A s : cfg \ s \in SUBSET Sections
  BY DEF TypeOK, Restart, Reload, Sections
<1>6. {"doh"} \subseteq Sections /\ {"dns53"} \subseteq Sections /\ {"dnsks"} \subseteq Sections
  BY DEF Sections
<1>7. CASE EnableDhcp(p)
  BY <1>7, <1>3, <1>4, <1>5, <1>6, ContinuationType DEF EnableDhcp
<1>8. CASE EnableRules(p)
  BY <1>8, <1>3, <1>4, <1>5, <1>6, ContinuationType DEF EnableRules
<1>9. CASE DisableDhcp(p)
  BY <1>9, <1>3, <1>4, <1>5, <1>6, ContinuationType DEF DisableDhcp
<1>10. CASE DisableRules(p)
  BY <1>10, <1>3, <1>4, <1>5, <1>6, ContinuationType DEF DisableRules
<1>11. CASE RestartDnsmasq(p)
  BY <1>11, <1>3, <1>4, <1>5, <1>6, ContinuationType DEF RestartDnsmasq
<1>12. CASE ReloadFirewall(p)
  BY <1>12, <1>3, <1>4, <1>5, <1>6, ContinuationType DEF ReloadFirewall
<1>13. CASE FailClosedRule(p)
  BY <1>13, <1>3, <1>4, <1>5, <1>6, ContinuationType DEF FailClosedRule
<1>14. CASE FailClosedReload(p)
  <2>1. live' \in SUBSET Sections /\ flows' \in SUBSET {"raw", "doh"}
    BY <1>14, <1>5 DEF TypeOK, FailClosedReload
  <2>2. pc' \in [Procs -> PCs]
    BY <1>14, ContinuationType DEF TypeOK, FailClosedReload, Goto
  <2>. QED
    BY <1>14, <2>1, <2>2 DEF TypeOK, FailClosedReload, store, bounds, ghost
<1>. QED
  BY <1>1, <1>2, <1>7, <1>8, <1>9, <1>10, <1>11, <1>12, <1>13, <1>14 DEF Service


LEMMA EnterType ==
    ASSUME TypeOK, NEW p \in Procs, Enter(p)
    PROVE  TypeOK'
<1>1. {"e_ks", "e_dns", "e_save", "e_down", "ks_script", "ret"} \subseteq PCs
  BY DEF PCs, BusyPCs, EnterPCs, KsPCs
<1>2. loc[p] \in PortalRecord
  BY DEF TypeOK
<1>3. CASE EnterRead(p)
  <2>1. loc' \in [Procs -> PortalRecord]
    BY <1>2, <1>3 DEF TypeOK, EnterRead, PortalRecord
  <2>2. pc' \in [Procs -> PCs]
    BY <1>1, <1>3 DEF TypeOK, EnterRead, Query, Goto
  <2>. QED
    BY <1>3, <2>1, <2>2 DEF TypeOK, EnterRead, Query, router, store, bounds, ghost
<1>4. CASE EnterQueryKS(p)
  <2>1. loc' \in [Procs -> PortalRecord]
    BY <1>2, <1>4 DEF TypeOK, EnterQueryKS, PortalRecord
  <2>2. pc' \in [Procs -> PCs]
    BY <1>1, <1>4 DEF TypeOK, EnterQueryKS, Query, Goto
  <2>. QED
    BY <1>4, <2>1, <2>2 DEF TypeOK, EnterQueryKS, Query, router, store, bounds, ghost
<1>5. CASE EnterQueryDNS(p)
  <2>1. loc' \in [Procs -> PortalRecord]
    BY <1>2, <1>5 DEF TypeOK, EnterQueryDNS, PortalRecord
  <2>2. pc' \in [Procs -> PCs]
    BY <1>1, <1>5 DEF TypeOK, EnterQueryDNS, Query, Goto
  <2>. QED
    BY <1>5, <2>1, <2>2 DEF TypeOK, EnterQueryDNS, Query, router, store, bounds, ghost
<1>6. CASE EnterSave(p)
  <2>1. [loc[p] EXCEPT !.left = Window] \in PortalRecord
    BY <1>2, WindowAssumption DEF PortalRecord
  <2>2. loc' \in [Procs -> PortalRecord] /\ rec' \in PortalRecord \cup {NoRec}
    BY <1>6, <2>1 DEF TypeOK, EnterSave
  <2>3. pc' \in [Procs -> PCs]
    BY <1>1, <1>6 DEF TypeOK, EnterSave, Goto
  <2>. QED
    BY <1>6, <2>2, <2>3 DEF TypeOK, EnterSave, router, bounds, ghost
<1>7. CASE EnterDown(p)
  <2>1. wg' \in {"absent", "down", "up"}
    BY <1>7 DEF TypeOK, EnterDown
  <2>2. pc' \in [Procs -> PCs]
    BY <1>1, <1>7, ContinuationType DEF TypeOK, EnterDown, Goto
  <2>. QED
    BY <1>7, <2>1, <2>2 DEF TypeOK, EnterDown, store, bounds, ghost
<1>8. CASE EnterDone(p)
  <2>1. pc' \in [Procs -> PCs]
    BY <1>1, <1>8 DEF TypeOK, EnterDone, Goto
  <2>. QED
    BY <1>8, <2>1 DEF TypeOK, EnterDone, router, store, bounds
<1>. QED
  BY <1>3, <1>4, <1>5, <1>6, <1>7, <1>8 DEF Enter

LEMMA ExitType ==
    ASSUME TypeOK, NEW p \in Procs, Exit(p)
    PROVE  TypeOK'
<1>1. {"x_up", "ks_script", "ret"} \subseteq PCs
  BY DEF PCs, BusyPCs, ExitPCs, KsPCs
<1>2. CASE ExitRead(p)
  <2>1. loc' \in [Procs -> PortalRecord]
    BY <1>2 DEF TypeOK, ExitRead
  <2>2. pc' \in [Procs -> PCs]
    BY <1>1, <1>2 DEF TypeOK, ExitRead, Query, Goto
  <2>. QED
    BY <1>2, <2>1, <2>2 DEF TypeOK, ExitRead, Query, router, store, bounds, ghost
<1>3. CASE ExitUp(p)
  <2>1. wg' \in {"absent", "down", "up"}
    BY <1>3 DEF TypeOK, ExitUp
  <2>2. pc' \in [Procs -> PCs]
    BY <1>1, <1>3, ContinuationType DEF TypeOK, ExitUp, Goto
  <2>. QED
    BY <1>3, <2>1, <2>2 DEF TypeOK, ExitUp, store, bounds, ghost
<1>4. CASE ExitClear(p)
  <2>1. pc' \in [Procs -> PCs]
    BY <1>1, <1>4 DEF TypeOK, ExitClear, Goto
  <2>. QED
    BY <1>4, <2>1 DEF TypeOK, ExitClear, router, bounds
<1>. QED
  BY <1>2, <1>3, <1>4 DEF Exit

LEMMA ToggleType ==
    ASSUME TypeOK, NEW p \in Procs, Toggle(p)
    PROVE  TypeOK'
<1>1. {"fc_cfg", "c_read", "c_del", "d_mark", "ap_read", "en_dhcp", "ret"} \subseteq PCs
  BY DEF PCs, BusyPCs, FcPCs, TogglePCs, DnsPCs
<1>2. ASSUME NEW l \in PCs, Query(p, l), UNCHANGED loc
      PROVE  TypeOK'
  <2>1. pc' \in [Procs -> PCs]
    BY <1>2 DEF TypeOK, Query, Goto
  <2>. QED
    BY <1>2, <2>1 DEF TypeOK, Query, router, store, bounds, ghost
<1>3. CASE KillSwitchAskDNS(p)
  BY <1>1, <1>2, <1>3 DEF KillSwitchAskDNS
<1>4. CASE DnsAskKS(p)
  BY <1>1, <1>2, <1>4 DEF DnsAskKS
<1>5. CASE DnsMark(p)
  <2>1. pc' \in [Procs -> PCs]
    BY <1>1, <1>5 DEF TypeOK, DnsMark, Goto
  <2>2. keys' \in SUBSET {"vpn_summary", "dns_defaulted"} /\ intent' \in SUBSET {"ks", "dns"}
    BY <1>5 DEF TypeOK, DnsMark
  <2>. QED
    BY <1>5, <2>1, <2>2 DEF TypeOK, DnsMark, router, bounds
<1>6. CASE CancelRead(p)
  <2>1. pc' \in [Procs -> PCs]
    BY <1>1, <1>6 DEF TypeOK, CancelRead, Goto
  <2>2. {Toggled(intent, op[p]), Posture(cfg)} \subseteq SUBSET {"ks", "dns"}
    BY DEF TypeOK, Toggled, Posture
  <2>. QED
    BY <1>6, <2>1, <2>2 DEF TypeOK, CancelRead, TakesOver, router, store, bounds, ghost
<1>7. CASE CancelDelete(p)
  <2>1. pc' \in [Procs -> PCs]
    BY <1>1, <1>7 DEF TypeOK, CancelDelete, Goto
  <2>2. Posture(cfg) \in SUBSET {"ks", "dns"}
    BY DEF Posture
  <2>. QED
    BY <1>7, <2>1, <2>2 DEF TypeOK, CancelDelete, TakesOver, router, bounds
<1>8. CASE SetAP(p)
  BY <1>1, <1>2, <1>8 DEF SetAP
<1>9. CASE ApplyDNSDefault(p)
  BY <1>1, <1>2, <1>9 DEF ApplyDNSDefault
<1>. QED
  BY <1>3, <1>4, <1>5, <1>6, <1>7, <1>8, <1>9 DEF Toggle

LEMMA OtherType ==
    ASSUME TypeOK, NEW p \in Procs, Other(p)
    PROVE  TypeOK'
<1>1. {"im_sum", "ret"} \subseteq PCs
  BY DEF PCs, OtherPCs
<1>2. CASE JoinUplink(p)
  <2>1. pc' \in [Procs -> PCs]
    BY <1>1, <1>2 DEF TypeOK, JoinUplink, Goto
  <2>. QED
    BY <1>2, <2>1 DEF TypeOK, JoinUplink, router, store, bounds, ghost
<1>3. CASE SetTunnel(p)
  <2>1. pc' \in [Procs -> PCs]
    BY <1>1, <1>3 DEF TypeOK, SetTunnel, Goto
  <2>. QED
    BY <1>3, <2>1 DEF TypeOK, SetTunnel, store, bounds, ghost
<1>4. CASE Import(p)
  <2>1. pc' \in [Procs -> PCs]
    BY <1>1, <1>4 DEF TypeOK, Import, Goto
  <2>2. wg' \in {"absent", "down", "up"}
    BY <1>4 DEF TypeOK, Import
  <2>. QED
    BY <1>4, <2>1, <2>2 DEF TypeOK, Import, store, bounds, ghost
<1>5. CASE ImportSummary(p)
  <2>1. pc' \in [Procs -> PCs]
    BY <1>1, <1>5 DEF TypeOK, ImportSummary, Goto
  <2>2. keys' \in SUBSET {"vpn_summary", "dns_defaulted"}
    BY <1>5 DEF TypeOK, ImportSummary
  <2>. QED
    BY <1>5, <2>1, <2>2 DEF TypeOK, ImportSummary, router, bounds, ghost
<1>. QED
  BY <1>2, <1>3, <1>4, <1>5 DEF Other

\* Handlers begin, return and lose their context.
LEMMA HandlerType ==
    ASSUME TypeOK, NEW p \in Procs
    PROVE  /\ \A o \in AllOps, r \in PortalRecord : Begin(p, o, r) =>
                 /\ op' \in [Procs -> AllOps \cup {"none"}]
                 /\ loc' \in [Procs -> PortalRecord]
                 /\ pc' \in [Procs -> PCs]
                 /\ history' \in {"clean", "cut", "disturbed"}
           /\ \A o \in AllOps : Request(p, o) => TypeOK'
           /\ Return(p) => TypeOK'
           /\ ContextDone(p) => TypeOK'
<1>1. EmptyRec \in PortalRecord
  BY WindowAssumption DEF EmptyRec, PortalRecord
<1>2. ASSUME NEW o \in AllOps, NEW r \in PortalRecord, Begin(p, o, r)
      PROVE  /\ op' \in [Procs -> AllOps \cup {"none"}]
             /\ loc' \in [Procs -> PortalRecord]
             /\ pc' \in [Procs -> PCs]
             /\ history' \in {"clean", "cut", "disturbed"}
  <2>1. pc' \in [Procs -> PCs]
    BY <1>2, ContinuationType DEF TypeOK, Begin, Goto
  <2>. QED
    BY <1>2, <2>1 DEF TypeOK, Begin, Overlap
<1>3. ASSUME NEW o \in AllOps, Request(p, o)
      PROVE  TypeOK'
  <2>1. Begin(p, o, EmptyRec) /\ reqs' \in 0..MaxReqs
    BY <1>3, BoundAssumption DEF TypeOK, Request
  <2>. QED
    BY <1>1, <1>2, <1>3, <2>1 DEF TypeOK, Request, router, store
<1>4. ASSUME Return(p)
      PROVE  TypeOK'
  <2>1. pc' \in [Procs -> PCs]
    BY <1>4, ContinuationType DEF TypeOK, Return
  <2>. QED
    BY <1>1, <1>4, <2>1 DEF TypeOK, Return, router, store, bounds, ghost
<1>5. ASSUME ContextDone(p)
      PROVE  TypeOK'
  BY <1>5 DEF TypeOK, ContextDone, router, store, bounds, ghost
<1>. QED
  BY <1>2, <1>3, <1>4, <1>5

LEMMA WatchType ==
    ASSUME TypeOK, Watching
    PROVE  TypeOK'
<1> USE DEF Silent, router, store, bounds
<1>1. {"w_idle", "w_loop", "w_probe", "w_save", "w_wait", "s_check", "s_probe", "s_sleep"}
        \subseteq PCs
  BY DEF PCs, WatchPCs
<1>2. EmptyRec \in PortalRecord /\ Watch \in Procs
  BY WindowAssumption DEF EmptyRec, PortalRecord
<1>3. ASSUME NEW l \in PCs, Goto(Watch, l)
      PROVE  pc' \in [Procs -> PCs]
  BY <1>3 DEF TypeOK, Goto
<1>4. CASE WatchLoop
  <2>1. CASE Goto(Watch, "w_idle") /\ UNCHANGED <<op, loc, history>>
    BY <1>1, <1>3, <1>4, <2>1 DEF TypeOK, WatchLoop
  <2>2. CASE Begin(Watch, "exit", EmptyRec)
    BY <1>2, <1>4, <2>2, HandlerType DEF TypeOK, WatchLoop, AllOps
  <2>3. CASE /\ rec # NoRec
             /\ loc' = [loc EXCEPT ![Watch] = rec]
             /\ Goto(Watch, "w_probe")
             /\ UNCHANGED <<op, history>>
    BY <1>1, <1>3, <1>4, <2>3 DEF TypeOK, WatchLoop
  <2>. QED
    BY <1>4, <2>1, <2>2, <2>3 DEF WatchLoop
<1>5. CASE WatchIdle
  BY <1>1, <1>3, <1>5 DEF TypeOK, WatchIdle
<1>6. CASE WatchProbeOnline
  BY <1>2, <1>6, HandlerType DEF TypeOK, WatchProbeOnline, AllOps
<1>7. CASE WatchProbeNewUrl
  <2>1. loc' \in [Procs -> PortalRecord]
    BY <1>2, <1>7 DEF TypeOK, WatchProbeNewUrl, PortalRecord
  <2>. QED
    BY <1>1, <1>3, <1>7, <2>1 DEF TypeOK, WatchProbeNewUrl
<1>8. CASE WatchProbeSame
  BY <1>1, <1>3, <1>8 DEF TypeOK, WatchProbeSame
<1>9. CASE WatchSave
  <2>1. loc[Watch] \in PortalRecord
    BY <1>2 DEF TypeOK
  <2>2. rec' \in PortalRecord \cup {NoRec}
    BY <1>9, <2>1 DEF TypeOK, WatchSave
  <2>3. history' \in {"clean", "cut", "disturbed"}
    BY <1>9 DEF TypeOK, WatchSave
  <2>. QED
    BY <1>1, <1>3, <1>9, <2>2, <2>3 DEF TypeOK, WatchSave
<1>10. CASE WatchWait
  <2>1. loc' \in [Procs -> PortalRecord]
    BY <1>2, <1>10 DEF TypeOK, WatchWait
  <2>. QED
    BY <1>1, <1>3, <1>10, <2>1 DEF TypeOK, WatchWait
<1>11. CASE ScoutCheck
  BY <1>1, <1>3, <1>11 DEF TypeOK, ScoutCheck
<1>12. CASE ScoutCaptive
  <2>1. \A u \in Urls \cup {NoUrl} : [EmptyRec EXCEPT !.url = u] \in PortalRecord
    BY <1>2 DEF EmptyRec, PortalRecord
  <2>. QED
    BY <1>2, <1>12, <2>1, HandlerType DEF TypeOK, ScoutCaptive, AllOps
<1>13. CASE ScoutOther
  BY <1>1, <1>3, <1>13 DEF TypeOK, ScoutOther
<1>14. CASE ScoutSleep
  BY <1>1, <1>3, <1>14 DEF TypeOK, ScoutSleep
<1>. QED
  BY <1>4, <1>5, <1>6, <1>7, <1>8, <1>9, <1>10, <1>11, <1>12, <1>13, <1>14 DEF Watching

LEMMA EnvironmentType ==
    ASSUME TypeOK, Environment
    PROVE  TypeOK'
<1>1. EmptyRec \in PortalRecord
  BY WindowAssumption DEF EmptyRec, PortalRecord
<1>2. CASE Tick
  <2>1. \A r \in PortalRecord : Later(r) \in PortalRecord
    BY WindowAssumption DEF Later, PortalRecord
  <2>2. loc' \in [Procs -> PortalRecord] /\ rec' \in PortalRecord \cup {NoRec}
    BY <1>2, <2>1 DEF TypeOK, Tick
  <2>. QED
    BY <1>2, <2>2 DEF TypeOK, Tick, router, bounds, ghost
<1>3. CASE OpenFlow
  BY <1>3 DEF TypeOK, OpenFlow, store, process, bounds, ghost
<1>4. ASSUME Killed
      PROVE  /\ UNCHANGED <<cfg, keys, rec, reqs, intent>>
             /\ kick' \in {0, 1}
             /\ note' \in {"none", "restored", "canceled"}
             /\ pc' \in [Procs -> PCs]
             /\ op' \in [Procs -> AllOps \cup {"none"}]
             /\ loc' \in [Procs -> PortalRecord]
             /\ cancelled' \in SUBSET Procs
             /\ crashes' \in 0..MaxCrashes
             /\ history' \in {"clean", "cut", "disturbed"}
  <2>1. pc' \in [Procs -> PCs]
    BY <1>4, ContinuationType DEF Killed
  <2>2. crashes' \in 0..MaxCrashes
    BY <1>4, BoundAssumption DEF Killed, TypeOK
  <2>. QED
    BY <1>1, <1>4, <2>1, <2>2 DEF Killed, TypeOK, store
<1>5. CASE Crash
  <2>1. flows' \in SUBSET {"raw", "doh"}
    BY <1>5 DEF TypeOK, Crash
  <2>. QED
    BY <1>4, <1>5, <2>1 DEF TypeOK, Crash
<1>6. CASE Reboot
  BY <1>4, <1>6 DEF TypeOK, Reboot
<1>. QED
  BY <1>2, <1>3, <1>5, <1>6 DEF Environment

\* Type correctness of the whole daemon, for every instance.
THEOREM TypeCorrect == Spec => []TypeOK
<1>1. Init => TypeOK
  BY InitType
<1>2. TypeOK /\ [Next]_vars => TypeOK'
  <2> SUFFICES ASSUME TypeOK, [Next]_vars PROVE TypeOK'
    OBVIOUS
  <2>1. CASE UNCHANGED vars
    BY <2>1 DEF TypeOK, vars
  <2>2. ASSUME NEW c \in Clients, NEW o \in Ops, Request(c, o) PROVE TypeOK'
    BY <2>2, HandlerType, OpsAssumption
  <2>3. ASSUME NEW p \in Procs, Step(p) PROVE TypeOK'
    BY <2>3, ServiceType, EnterType, ExitType, ToggleType, OtherType, HandlerType DEF Step
  <2>4. ASSUME NEW p \in Procs, ContextDone(p) PROVE TypeOK'
    BY <2>4, HandlerType
  <2>5. CASE Watching
    BY <2>5, WatchType
  <2>6. CASE Environment
    BY <2>6, EnvironmentType
  <2>. QED
    BY <2>1, <2>2, <2>3, <2>4, <2>5, <2>6 DEF Next
<1>. QED
  BY <1>1, <1>2, PTL DEF Spec

-----------------------------------------------------------------------------
(* The record: saved before anything is relaxed, and fixed from then on *)

\* A disturbed history stays disturbed.
LEMMA DisturbedStays ==
    ASSUME history = "disturbed", [Next]_vars
    PROVE  history' = "disturbed"
<1> USE DEF ghost
<1>1. CASE UNCHANGED vars
  BY <1>1 DEF vars
<1>2. ASSUME NEW p, NEW o, NEW r, Begin(p, o, r)
      PROVE  history' = "disturbed"
  BY <1>2 DEF Begin, Overlap
<1>3. ASSUME NEW c \in Clients, NEW o \in Ops, Request(c, o)
      PROVE  history' = "disturbed"
  BY <1>2, <1>3 DEF Request
<1>4. ASSUME NEW p \in Procs, Service(p)
      PROVE  history' = "disturbed"
  BY <1>4 DEF Service, KillSwitchScript, FlushConntrack, Command, EnableDhcp, EnableRules,
              DisableDhcp, DisableRules, RestartDnsmasq, ReloadFirewall, FailClosedRule,
              FailClosedReload
<1>5. ASSUME NEW p \in Procs, Enter(p)
      PROVE  history' = "disturbed"
  BY <1>5 DEF Enter, EnterRead, EnterQueryKS, EnterQueryDNS, EnterSave, EnterDown, EnterDone,
              Query
<1>6. ASSUME NEW p \in Procs, Exit(p)
      PROVE  history' = "disturbed"
  BY <1>6 DEF Exit, ExitRead, ExitUp, ExitClear, Query
<1>7. ASSUME NEW p \in Procs, Toggle(p)
      PROVE  history' = "disturbed"
  BY <1>7 DEF Toggle, KillSwitchAskDNS, DnsAskKS, DnsMark, CancelRead, CancelDelete, TakesOver, SetAP,
              ApplyDNSDefault, Query
<1>8. ASSUME NEW p \in Procs, Other(p) \/ Return(p) \/ ContextDone(p)
      PROVE  history' = "disturbed"
  BY <1>8 DEF Other, JoinUplink, SetTunnel, Import, ImportSummary, Return, ContextDone
<1>9. CASE Watching
  BY <1>2, <1>9 DEF Watching, WatchLoop, WatchIdle, WatchProbeOnline, WatchProbeNewUrl,
              WatchProbeSame, WatchSave, WatchWait, ScoutCheck, ScoutCaptive, ScoutOther,
              ScoutSleep
<1>10. CASE Environment
  BY <1>10 DEF Environment, Tick, OpenFlow, Crash, Reboot, Killed
<1>. QED
  BY <1>1, <1>3, <1>4, <1>5, <1>6, <1>7, <1>8, <1>9, <1>10 DEF Next, Step

\* One process moves.  Undisturbed, either no other one is inside a handler of
\* PostureOps, or it leaves the record alone and is outside them itself.
LEMMA RecordMove ==
    ASSUME RecordInv, NEW p \in Procs,
           Undisturbed' => Undisturbed,
           \A q \in Procs \ {p} :
               pc'[q] = pc[q] /\ op'[q] = op[q] /\ loc'[q].saved = loc[q].saved,
           Undisturbed' => \/ \A q \in Procs \ {p} : ~Busy(q)
                           \/ rec' = rec /\ pc'[p] \notin BusyPCs,
           op'[p] = "enter" => pc'[p] \in EnterSteps,
           Undisturbed' => AboutToSave(p)' /\ RecordedFirst(p)'
    PROVE  RecordInv'
<1>1. EnterAtSteps'
  BY DEF RecordInv, EnterAtSteps, EnterSteps
<1>2. ASSUME Undisturbed'
      PROVE  OneBusy'
  BY <1>2 DEF RecordInv, OneBusy, Busy
<1>3. ASSUME Undisturbed', NEW q \in Procs
      PROVE  AboutToSave(q)' /\ RecordedFirst(q)'
  <2>1. CASE q = p
    BY <1>3, <2>1
  <2>2. CASE q # p /\ ~Busy(q)
    BY <1>3, <2>2 DEF Busy, BusyPCs, EnterPCs, AboutToSave, RecordedFirst
  <2>3. CASE q # p /\ rec' = rec
    BY <1>3, <2>3 DEF RecordInv, AboutToSave, RecordedFirst
  <2>. QED
    BY <1>3, <2>1, <2>2, <2>3
<1>. QED
  BY <1>1, <1>2, <1>3 DEF RecordInv

\* A service command moves on to another step of the handler it belongs to.
LEMMA ServiceMove ==
    ASSUME TypeOK, RecordInv, NEW p \in Procs, Service(p)
    PROVE  /\ Busy(p)
           /\ UNCHANGED <<rec, op, loc, history>>
           /\ \E l \in PCs \ {"e_read", "e_ks", "e_dns", "e_save"} :
                 /\ pc' = [pc EXCEPT ![p] = l]
                 /\ op[p] = "enter" => l \in EnterSteps
           /\ op[p] = "enter" => pc[p] \notin {"e_read", "e_ks", "e_dns", "e_save"}
<1> DEFINE S == PCs \ {"e_read", "e_ks", "e_dns", "e_save"}
           F(l) == l \in S /\ (op[p] = "enter" => l \in EnterSteps)
<1>1. /\ F(AfterKS(p))
      /\ op[p] = "enter" => F("dis_fw") /\ F("dns_restart") /\ F("dns_reload")
      /\ F(AfterDns(p))
      /\ op[p] # "enter" => F(AfterFC(p)) /\ F("ks_flush") /\ F("ret")
  BY DEF AfterKS, AfterDns, AfterFC, EnterSteps, PCs, BusyPCs, EnterPCs, ExitPCs, KsPCs,
         DnsPCs, FcPCs, TogglePCs
<1>2. op[p] # "enter" => \A l \in {"en_fw", "dis_fw", "dns_restart", "dns_reload", "fc_reload"} :
                             F(l)
  BY DEF PCs, BusyPCs, DnsPCs, FcPCs
<1>3. op[p] = "enter" => pc[p] \in EnterSteps
  BY DEF RecordInv, EnterAtSteps
<1>4. \A l : F(l) => F(OnError(p, l))
  BY <1>1 DEF OnError
<1>5. ASSUME NEW from \in KsPCs \cup DnsPCs \cup FcPCs, pc[p] = from
      PROVE  Busy(p) /\ (op[p] = "enter" => pc[p] \notin {"e_read", "e_ks", "e_dns", "e_save"})
  BY <1>5 DEF Busy, BusyPCs, KsPCs, DnsPCs, FcPCs
<1>6. ASSUME UNCHANGED <<rec, op, loc, history>>, pc[p] \in KsPCs \cup DnsPCs \cup FcPCs,
             NEW l, F(l), pc' = [pc EXCEPT ![p] = l]
      PROVE  /\ Busy(p)
             /\ UNCHANGED <<rec, op, loc, history>>
             /\ \E k \in S : /\ pc' = [pc EXCEPT ![p] = k]
                             /\ op[p] = "enter" => k \in EnterSteps
             /\ op[p] = "enter" => pc[p] \notin {"e_read", "e_ks", "e_dns", "e_save"}
  BY <1>5, <1>6
<1> HIDE DEF F, S
<1>7. ASSUME NEW from \in KsPCs \cup DnsPCs \cup FcPCs, NEW c, NEW v, NEW yes, NEW after,
             F(yes), F(after), Command(p, from, c, v, yes, after)
      PROVE  \E l : /\ UNCHANGED <<rec, op, loc, history>>
                    /\ pc[p] \in KsPCs \cup DnsPCs \cup FcPCs
                    /\ F(l) /\ pc' = [pc EXCEPT ![p] = l]
  BY <1>4, <1>7 DEF Command, Run, Goto, store, ghost
<1>8. \E l : /\ UNCHANGED <<rec, op, loc, history>>
             /\ pc[p] \in KsPCs \cup DnsPCs \cup FcPCs
             /\ F(l) /\ pc' = [pc EXCEPT ![p] = l]
  <2> USE DEF KsPCs, DnsPCs, FcPCs
  <2>1. CASE KillSwitchScript(p)
    <3>1. TurnsOn(p) => op[p] # "enter"
      BY DEF TurnsOn
    <3>2. \/ pc' = [pc EXCEPT ![p] = IF TurnsOn(p) THEN "ks_flush" ELSE AfterKS(p)]
          \/ pc' = [pc EXCEPT ![p] = OnError(p, AfterKS(p))]
      BY <2>1 DEF KillSwitchScript, Run, Goto
    <3>3. pc[p] \in KsPCs /\ UNCHANGED <<rec, op, loc, history>>
      BY <2>1 DEF KillSwitchScript, store, ghost
    <3>. QED
      BY <1>1, <1>4, <3>1, <3>2, <3>3
  <2>2. CASE FlushConntrack(p)
    <3>1. \/ pc' = [pc EXCEPT ![p] = AfterKS(p)]
          \/ pc' = [pc EXCEPT ![p] = OnError(p, AfterKS(p))]
      BY <2>2 DEF FlushConntrack, Goto
    <3>2. pc[p] \in KsPCs /\ UNCHANGED <<rec, op, loc, history>>
      BY <2>2 DEF FlushConntrack, store, ghost
    <3>. QED
      BY <1>1, <1>4, <3>1, <3>2
  <2>3. CASE EnableDhcp(p)
    <3>1. op[p] # "enter"
      BY <1>3, <2>3 DEF EnableDhcp, Command, EnterSteps, EnterPCs
    <3>. QED
      BY <1>1, <1>2, <1>7, <2>3, <3>1 DEF EnableDhcp
  <2>4. CASE EnableRules(p)
    BY <1>1, <1>2, <1>7, <2>4 DEF EnableRules
  <2>5. CASE DisableDhcp(p)
    BY <1>1, <1>2, <1>7, <2>5 DEF DisableDhcp
  <2>6. CASE DisableRules(p)
    BY <1>1, <1>2, <1>7, <2>6 DEF DisableRules
  <2>7. CASE RestartDnsmasq(p)
    BY <1>1, <1>2, <1>7, <2>7 DEF RestartDnsmasq
  <2>8. CASE ReloadFirewall(p)
    BY <1>1, <1>7, <2>8 DEF ReloadFirewall
  <2>9. CASE FailClosedRule(p)
    <3>1. op[p] # "enter"
      BY <1>3, <2>9 DEF FailClosedRule, Command, EnterSteps, EnterPCs
    <3>. QED
      BY <1>1, <1>2, <1>7, <2>9, <3>1 DEF FailClosedRule
  <2>10. CASE FailClosedReload(p)
    <3>1. op[p] # "enter"
      BY <1>3, <2>10 DEF FailClosedReload, EnterSteps, EnterPCs
    <3>2. \/ pc' = [pc EXCEPT ![p] = AfterFC(p)]
          \/ pc' = [pc EXCEPT ![p] = OnError(p, AfterFC(p))]
      BY <2>10 DEF FailClosedReload, Goto
    <3>3. pc[p] \in FcPCs /\ UNCHANGED <<rec, op, loc, history>>
      BY <2>10 DEF FailClosedReload, store, ghost
    <3>. QED
      BY <1>1, <1>4, <3>1, <3>2, <3>3
  <2>. QED
    BY <2>1, <2>2, <2>3, <2>4, <2>5, <2>6, <2>7, <2>8, <2>9, <2>10 DEF Service
<1>. QED
  BY <1>6, <1>8 DEF S

\* While one handler of PostureOps is at a step, no other one is.
LEMMA OthersQuiet ==
    ASSUME RecordInv, Undisturbed, NEW p \in Procs, Busy(p)
    PROVE  \A q \in Procs \ {p} : ~Busy(q)
BY DEF RecordInv, OneBusy

LEMMA ServiceRecord ==
    ASSUME TypeOK, RecordInv, NEW p \in Procs, Service(p)
    PROVE  RecordInv'
<1>1. PICK l \in PCs \ {"e_read", "e_ks", "e_dns", "e_save"} :
        /\ pc' = [pc EXCEPT ![p] = l]
        /\ op[p] = "enter" => l \in EnterSteps
  BY ServiceMove
<1>2. /\ Busy(p) /\ UNCHANGED <<rec, op, loc, history>>
      /\ op[p] = "enter" => pc[p] \notin {"e_read", "e_ks", "e_dns", "e_save"}
  BY ServiceMove
<1>3. pc'[p] = l /\ \A q \in Procs \ {p} : pc'[q] = pc[q]
  BY <1>1 DEF TypeOK
<1>4. Undisturbed' => Undisturbed
  BY <1>2 DEF Undisturbed
<1>5. Undisturbed' => AboutToSave(p)' /\ RecordedFirst(p)'
  BY <1>1, <1>2, <1>3, <1>4 DEF RecordInv, AboutToSave, RecordedFirst, Busy
<1>6. Undisturbed' => \A q \in Procs \ {p} : ~Busy(q)
  BY <1>2, <1>4, OthersQuiet
<1>. QED
  BY <1>1, <1>2, <1>3, <1>4, <1>5, <1>6, RecordMove

\* Re-entering copies the record and its posture; a first pause captures the
\* posture only where there is no record, and saves it before it goes on.
LEMMA EnterRecord ==
    ASSUME TypeOK, RecordInv, NEW p \in Procs, Enter(p)
    PROVE  /\ RecordInv'
           /\ (rec # NoRec /\ rec' # NoRec /\ Undisturbed') => rec'.saved = rec.saved
<1> USE DEF EnterPCs
<1>1. Busy(p) /\ UNCHANGED op
  BY DEF Enter, EnterRead, EnterQueryKS, EnterQueryDNS, EnterSave, EnterDown, EnterDone,
         Query, Busy, BusyPCs
<1>2. Undisturbed' => Undisturbed
  BY DEF Enter, EnterRead, EnterQueryKS, EnterQueryDNS, EnterSave, EnterDown, EnterDone,
         Query, ghost, Undisturbed
<1>3. Undisturbed' => \A q \in Procs \ {p} : ~Busy(q)
  BY <1>1, <1>2, OthersQuiet
<1>4. \A q \in Procs \ {p} : pc'[q] = pc[q] /\ op'[q] = op[q] /\ loc'[q].saved = loc[q].saved
  BY <1>1 DEF Enter, EnterRead, EnterQueryKS, EnterQueryDNS, EnterSave, EnterDown, EnterDone,
              Query, Goto, TypeOK
<1>5. ASSUME op'[p] = "enter" => pc'[p] \in EnterSteps,
             Undisturbed' => AboutToSave(p)' /\ RecordedFirst(p)'
      PROVE  RecordInv'
  BY <1>1, <1>2, <1>3, <1>4, <1>5, RecordMove
<1>6. loc[p] \in PortalRecord /\ (rec # NoRec => rec \in PortalRecord)
  BY DEF TypeOK
<1>7. CASE EnterRead(p)
  <2>1. CASE rec # NoRec /\ pc' = [pc EXCEPT ![p] = "e_save"]
    <3>1. rec' = rec /\ pc'[p] = "e_save"
      BY <1>7, <2>1 DEF EnterRead, TypeOK, store
    <3>2. loc'[p].saved = rec.saved
      BY <1>6, <1>7, <2>1 DEF EnterRead, Goto, TypeOK, PortalRecord
    <3>3. AboutToSave(p)' /\ RecordedFirst(p)' /\ pc'[p] \in EnterSteps
      BY <3>1, <3>2 DEF AboutToSave, RecordedFirst, EnterSteps
    <3>. QED
      BY <1>5, <3>1, <3>3
  <2>2. CASE pc' = [pc EXCEPT ![p] = "e_ks"]
    <3>1. rec' = rec /\ pc'[p] = "e_ks" /\ (Undisturbed' => rec = NoRec)
      BY <1>7, <2>2 DEF EnterRead, Goto, TypeOK, store, Undisturbed
    <3>2. Undisturbed' => AboutToSave(p)' /\ RecordedFirst(p)'
      BY <3>1 DEF AboutToSave, RecordedFirst
    <3>3. pc'[p] \in EnterSteps
      BY <3>1 DEF EnterSteps
    <3>. QED
      BY <1>5, <3>1, <3>2, <3>3
  <2>. QED
    BY <1>7, <2>1, <2>2 DEF EnterRead, Goto
<1>8. CASE EnterQueryKS(p) \/ EnterQueryDNS(p)
  <2>1. rec' = rec /\ pc[p] \in {"e_ks", "e_dns"} /\ pc'[p] \in {"e_dns", "e_save"}
    BY <1>8 DEF EnterQueryKS, EnterQueryDNS, Query, Goto, TypeOK, store
  <2>2. Undisturbed' => AboutToSave(p)' /\ RecordedFirst(p)'
    BY <1>2, <2>1 DEF RecordInv, AboutToSave, RecordedFirst
  <2>. QED
    BY <1>5, <2>1, <2>2 DEF EnterSteps
<1>9. CASE EnterSave(p)
  <2> DEFINE new == [loc[p] EXCEPT !.left = Window]
  <2>1. new.saved = loc[p].saved /\ new \in PortalRecord
    BY <1>6, WindowAssumption DEF PortalRecord
  <2>2. /\ loc'[p] = new /\ pc[p] = "e_save" /\ pc'[p] = "e_down"
        /\ rec' = new \/ rec' = rec
        /\ Undisturbed' => rec' # NoRec
    BY <1>9 DEF EnterSave, Goto, TypeOK, Undisturbed
  <2> HIDE DEF new
  <2>3. Undisturbed' => (rec # NoRec => loc[p].saved = rec.saved)
    BY <1>2, <2>2 DEF RecordInv, AboutToSave
  <2>4. Undisturbed' => AboutToSave(p)' /\ RecordedFirst(p)'
    BY <2>1, <2>2, <2>3 DEF AboutToSave, RecordedFirst
  <2>. QED
    BY <1>5, <2>1, <2>2, <2>3, <2>4 DEF EnterSteps
<1>10. CASE EnterDown(p)
  <2>1. /\ rec' = rec /\ loc' = loc /\ pc[p] = "e_down"
        /\ pc'[p] = IF "ks" \in loc[p].saved THEN "ks_script" ELSE AfterKS(p)
    BY <1>10 DEF EnterDown, Goto, TypeOK, store
  <2>2. op[p] = "enter" => pc'[p] \in EnterSteps
    BY <2>1 DEF AfterKS, EnterSteps
  <2>3. pc'[p] \notin {"e_ks", "e_dns", "e_save"}
    BY <2>1 DEF AfterKS
  <2>4. Undisturbed' => AboutToSave(p)' /\ RecordedFirst(p)'
    BY <1>1, <1>2, <2>1, <2>3 DEF RecordInv, AboutToSave, RecordedFirst, Busy
  <2>. QED
    BY <1>1, <1>5, <2>1, <2>2, <2>4
<1>11. CASE EnterDone(p)
  <2>1. rec' = rec /\ pc'[p] = "ret"
    BY <1>11 DEF EnterDone, Goto, TypeOK, store
  <2>2. AboutToSave(p)' /\ RecordedFirst(p)'
    BY <2>1 DEF AboutToSave, RecordedFirst, BusyPCs, EnterPCs, ExitPCs, KsPCs, DnsPCs, FcPCs,
                TogglePCs
  <2>. QED
    BY <1>5, <2>1, <2>2 DEF EnterSteps
<1>. QED
  BY <1>7, <1>8, <1>9, <1>10, <1>11 DEF Enter

\* exitPortalMode and cancelPortalMode delete the record and never rewrite it.
LEMMA ExitToggleRecord ==
    ASSUME TypeOK, RecordInv, NEW p \in Procs, Exit(p) \/ Toggle(p)
    PROVE  RecordInv' /\ rec' \in {rec, NoRec}
<1> USE DEF ExitPCs, TogglePCs, EnterPCs
<1>1. /\ Busy(p) /\ UNCHANGED op
      /\ pc[p] \in ExitPCs \cup TogglePCs
      /\ rec' \in {rec, NoRec}
      /\ Undisturbed' => Undisturbed
  <2>1. CASE Exit(p)
    BY <2>1 DEF Exit, ExitRead, ExitUp, ExitClear, Query, Busy, BusyPCs, store, ghost,
                Undisturbed
  <2>2. CASE Toggle(p)
    BY <2>2 DEF Toggle, KillSwitchAskDNS, DnsAskKS, DnsMark, CancelRead, CancelDelete, TakesOver, SetAP,
                ApplyDNSDefault, Query, Busy, BusyPCs, store, ghost, Undisturbed
  <2>. QED
    BY <2>1, <2>2
<1>2. op[p] # "enter"
  BY <1>1 DEF RecordInv, EnterAtSteps, EnterSteps
<1>3. pc'[p] \notin EnterPCs
  <2>1. CASE Exit(p)
    BY <1>2, <2>1 DEF Exit, ExitRead, ExitUp, ExitClear, Query, Goto, TypeOK, AfterKS
  <2>2. CASE Toggle(p)
    BY <2>2 DEF Toggle, KillSwitchAskDNS, DnsAskKS, DnsMark, CancelRead, CancelDelete, SetAP,
                ApplyDNSDefault, Query, Goto, TypeOK
  <2>. QED
    BY <2>1, <2>2
<1>4. \A q \in Procs \ {p} : pc'[q] = pc[q] /\ loc'[q] = loc[q]
  <2>1. CASE Exit(p)
    BY <2>1 DEF Exit, ExitRead, ExitUp, ExitClear, Query, Goto, TypeOK
  <2>2. CASE Toggle(p)
    BY <2>2 DEF Toggle, KillSwitchAskDNS, DnsAskKS, DnsMark, CancelRead, CancelDelete, SetAP,
                ApplyDNSDefault, Query, Goto, TypeOK
  <2>. QED
    BY <2>1, <2>2
<1>5. AboutToSave(p)' /\ RecordedFirst(p)'
  BY <1>1, <1>2, <1>3 DEF AboutToSave, RecordedFirst
<1>. QED
  BY <1>1, <1>2, <1>4, <1>5, OthersQuiet, RecordMove

\* A handler begins: undisturbed, no other one is under way.
LEMMA BeginRecord ==
    ASSUME TypeOK, RecordInv, NEW p \in Procs, NEW o \in AllOps, NEW r,
           Begin(p, o, r), UNCHANGED rec
    PROVE  RecordInv'
<1>1. /\ op'[p] = o /\ pc'[p] = First(o)
      /\ \A q \in Procs \ {p} : pc'[q] = pc[q] /\ op'[q] = op[q] /\ loc'[q] = loc[q]
  BY DEF Begin, Goto, TypeOK
<1>2. Undisturbed' => Undisturbed
  BY DEF Begin, Overlap, Undisturbed
<1>3. o \notin PostureOps => First(o) \notin BusyPCs
  BY DEF First, PostureOps, AllOps, BusyPCs, EnterPCs, ExitPCs, KsPCs, DnsPCs, FcPCs, TogglePCs
<1>4. (o \in PostureOps /\ Undisturbed') => \A q \in Procs \ {p} : ~Busy(q)
  BY DEF Begin, Overlap, Undisturbed
<1>5. First(o) \notin EnterPCs \ {"e_read"} /\ (o = "enter" => First(o) = "e_read")
  BY DEF First, EnterPCs, AllOps
<1>6. AboutToSave(p)' /\ RecordedFirst(p)'
  BY <1>1, <1>5 DEF AboutToSave, RecordedFirst, EnterPCs
<1>7. op'[p] = "enter" => pc'[p] \in EnterSteps
  BY <1>1, <1>5 DEF EnterSteps, EnterPCs
<1>. QED
  BY <1>1, <1>2, <1>3, <1>4, <1>6, <1>7, RecordMove

\* A process outside the handlers of PostureOps moves and leaves the record alone.
LEMMA OutsideRecord ==
    ASSUME TypeOK, RecordInv, NEW p \in Procs, NEW l \in PCs \ BusyPCs, Goto(p, l),
           \A q \in Procs \ {p} : loc'[q] = loc[q],
           UNCHANGED <<rec, history>>,
           \/ UNCHANGED op /\ (op[p] = "enter" => l = "ret")
           \/ op' = [op EXCEPT ![p] = "none"]
    PROVE  RecordInv'
<1>1. pc'[p] = l /\ \A q \in Procs \ {p} : pc'[q] = pc[q] /\ op'[q] = op[q]
  BY DEF Goto, TypeOK
<1>2. op'[p] = "enter" => pc'[p] \in EnterSteps
  BY <1>1 DEF TypeOK, EnterSteps
<1>3. AboutToSave(p)' /\ RecordedFirst(p)'
  BY <1>1 DEF AboutToSave, RecordedFirst, BusyPCs, EnterPCs
<1>. QED
  BY <1>1, <1>2, <1>3, RecordMove DEF Undisturbed

LEMMA RestRecord ==
    ASSUME TypeOK, RecordInv, NEW p \in Procs, Other(p) \/ Return(p) \/ ContextDone(p)
    PROVE  RecordInv' /\ rec' = rec
<1>1. {"ret", "im_sum", "idle", "w_loop"} \subseteq PCs \ BusyPCs
  BY DEF PCs, OtherPCs, WatchPCs, BusyPCs, EnterPCs, ExitPCs, KsPCs, DnsPCs, FcPCs, TogglePCs
<1>2. op[p] = "enter" => pc[p] \in EnterSteps
  BY DEF RecordInv, EnterAtSteps
<1>3. CASE Other(p)
  <2>1. UNCHANGED <<rec, history, op, loc>>
    BY <1>3 DEF Other, JoinUplink, SetTunnel, Import, ImportSummary, store, ghost
  <2>2. op[p] # "enter"
    BY <1>2, <1>3 DEF Other, JoinUplink, SetTunnel, Import, ImportSummary, EnterSteps, EnterPCs
  <2>3. Goto(p, "ret") \/ Goto(p, "im_sum")
    BY <1>3 DEF Other, JoinUplink, SetTunnel, Import, ImportSummary
  <2>. QED
    BY <1>1, <2>1, <2>2, <2>3, OutsideRecord
<1>4. CASE Return(p)
  BY <1>1, <1>4, OutsideRecord DEF Return, Goto, Rest, TypeOK, store, ghost
<1>5. CASE ContextDone(p)
  <2>1. UNCHANGED <<rec, history, op, loc, pc>>
    BY <1>5 DEF ContextDone, store, ghost
  <2>. QED
    BY <2>1 DEF RecordInv, EnterAtSteps, Undisturbed, OneBusy, Busy, AboutToSave, RecordedFirst
<1>. QED
  BY <1>3, <1>4, <1>5

\* The watch rewrites the record from its copy; undisturbed, the copy has the
\* record's posture and no handler is under way.
LEMMA WatchRecord ==
    ASSUME TypeOK, RecordInv, Watching
    PROVE  /\ RecordInv'
           /\ (rec # NoRec /\ rec' # NoRec /\ Undisturbed') => rec'.saved = rec.saved
<1> USE DEF Silent, store
<1>1. {"w_idle", "w_loop", "w_probe", "w_save", "w_wait", "s_check", "s_probe", "s_sleep"}
        \subseteq PCs \ BusyPCs
  BY DEF PCs, WatchPCs, BusyPCs, EnterPCs, ExitPCs, KsPCs, DnsPCs, FcPCs, TogglePCs
<1>2. Watch \in Procs /\ {"enter", "exit"} \subseteq AllOps
  BY DEF AllOps
<1>3. pc[Watch] \in WatchPCs
  BY DEF Watching, WatchLoop, WatchIdle, WatchProbeOnline, WatchProbeNewUrl, WatchProbeSame,
         WatchSave, WatchWait, ScoutCheck, ScoutCaptive, ScoutOther, ScoutSleep, WatchPCs
<1>4. op[Watch] # "enter"
  BY <1>2, <1>3 DEF RecordInv, EnterAtSteps, EnterSteps, EnterPCs, WatchPCs
<1>5. ASSUME NEW l \in PCs \ BusyPCs, Goto(Watch, l), UNCHANGED <<rec, op, history>>,
             \A q \in Procs \ {Watch} : loc'[q] = loc[q]
      PROVE  RecordInv' /\ rec' = rec
  BY <1>2, <1>4, <1>5, OutsideRecord
<1>6. CASE WatchSave
  <2>1. /\ pc' = [pc EXCEPT ![Watch] = "w_wait"] /\ UNCHANGED <<op, loc>>
        /\ rec' = loc[Watch] \/ rec' = rec
        /\ Undisturbed' => /\ Undisturbed
                           /\ rec # NoRec /\ rec.saved = loc[Watch].saved
                           /\ \A q \in Procs \ {Watch} : ~Busy(q)
    BY <1>6 DEF WatchSave, Goto, Undisturbed
  <2>2. pc'[Watch] = "w_wait" /\ \A q \in Procs \ {Watch} : pc'[q] = pc[q]
    BY <1>2, <2>1 DEF TypeOK
  <2>3. AboutToSave(Watch)' /\ RecordedFirst(Watch)'
    BY <1>4, <2>1, <2>2 DEF AboutToSave, RecordedFirst
  <2>4. RecordInv'
    BY <1>2, <1>4, <2>1, <2>2, <2>3, RecordMove
  <2>. QED
    BY <2>1, <2>4
<1>7. CASE WatchLoop
  <2>1. CASE Begin(Watch, "exit", EmptyRec)
    BY <1>2, <1>7, <2>1, BeginRecord DEF WatchLoop
  <2>2. CASE /\ Goto(Watch, "w_idle") \/ Goto(Watch, "w_probe")
             /\ UNCHANGED <<op, history>>
             /\ loc' = loc \/ loc' = [loc EXCEPT ![Watch] = rec]
    <3>1. \A q \in Procs \ {Watch} : loc'[q] = loc[q]
      BY <2>2 DEF TypeOK
    <3>. QED
      BY <1>1, <1>5, <1>7, <2>2, <3>1 DEF WatchLoop
  <2>. QED
    BY <1>7, <2>1, <2>2 DEF WatchLoop
<1>8. CASE WatchProbeOnline
  BY <1>2, <1>8, BeginRecord DEF WatchProbeOnline
<1>9. CASE ScoutCaptive
  <2>1. PICK u \in Urls \cup {NoUrl} : Begin(Watch, "enter", [EmptyRec EXCEPT !.url = u])
    BY <1>9 DEF ScoutCaptive
  <2>. QED
    BY <1>2, <1>9, <2>1, BeginRecord DEF ScoutCaptive
<1>10. CASE WatchProbeNewUrl
  <2>1. \A q \in Procs \ {Watch} : loc'[q] = loc[q]
    BY <1>10 DEF WatchProbeNewUrl, TypeOK
  <2>. QED
    BY <1>1, <1>5, <1>10, <2>1 DEF WatchProbeNewUrl
<1>11. CASE WatchWait
  <2>1. \A q \in Procs \ {Watch} : loc'[q] = loc[q]
    BY <1>11 DEF WatchWait, TypeOK
  <2>. QED
    BY <1>1, <1>5, <1>11, <2>1 DEF WatchWait
<1>12. CASE WatchIdle
  BY <1>1, <1>5, <1>12 DEF WatchIdle
<1>13. CASE WatchProbeSame
  BY <1>1, <1>5, <1>13 DEF WatchProbeSame
<1>14. CASE ScoutCheck
  BY <1>1, <1>5, <1>14 DEF ScoutCheck
<1>15. CASE ScoutOther
  BY <1>1, <1>5, <1>15 DEF ScoutOther
<1>16. CASE ScoutSleep
  BY <1>1, <1>5, <1>16 DEF ScoutSleep
<1>. QED
  BY <1>6, <1>7, <1>8, <1>9, <1>10, <1>11, <1>12, <1>13, <1>14, <1>15, <1>16 DEF Watching

\* The clock ages every copy of the record, a restart drops all but the store's.
LEMMA EnvironmentRecord ==
    ASSUME TypeOK, RecordInv, Environment
    PROVE  /\ RecordInv'
           /\ (rec # NoRec /\ rec' # NoRec) => rec'.saved = rec.saved
<1>1. CASE Tick
  <2>1. \A r \in PortalRecord : Later(r).saved = r.saved /\ Later(r) # NoRec
    <3>1. \A r \in PortalRecord : Later(r).saved = r.saved /\ Later(r) \in PortalRecord
      BY WindowAssumption DEF Later, PortalRecord
    <3>. QED
      BY <3>1, RecAssumption
  <2>2. /\ rec # NoRec => rec' # NoRec /\ rec'.saved = rec.saved
        /\ rec = NoRec => rec' = NoRec
        /\ \A q \in Procs : loc'[q].saved = loc[q].saved
    BY <1>1, <2>1 DEF Tick, TypeOK
  <2>3. UNCHANGED <<pc, op, history>>
    BY <1>1 DEF Tick, ghost
  <2>. QED
    BY <2>2, <2>3
    DEF RecordInv, EnterAtSteps, Undisturbed, OneBusy, Busy, AboutToSave, RecordedFirst
<1>2. CASE OpenFlow
  <2>1. UNCHANGED <<rec, pc, op, loc, history>>
    BY <1>2 DEF OpenFlow, store, process, ghost
  <2>. QED
    BY <2>1
    DEF RecordInv, EnterAtSteps, Undisturbed, OneBusy, Busy, AboutToSave, RecordedFirst
<1>3. ASSUME Killed
      PROVE  RecordInv' /\ rec' = rec
  <2>1. rec' = rec /\ \A q \in Procs : op'[q] = "none" /\ pc'[q] \in {"idle", "w_loop"}
    BY <1>3 DEF Killed, Rest, store
  <2>. QED
    BY <2>1 DEF RecordInv, EnterAtSteps, OneBusy, Busy, AboutToSave, RecordedFirst, BusyPCs,
                EnterPCs, ExitPCs, KsPCs, DnsPCs, FcPCs, TogglePCs
<1>. QED
  BY <1>1, <1>2, <1>3 DEF Environment, Crash, Reboot

LEMMA InitRecord == Init => RecordInv
<1> SUFFICES ASSUME Init PROVE RecordInv
  OBVIOUS
<1>1. \A q \in Procs : op[q] = "none" /\ pc[q] \in {"idle", "w_loop"}
  BY DEF Init, Rest
<1>. QED
  BY <1>1 DEF RecordInv, EnterAtSteps, OneBusy, Busy, AboutToSave, RecordedFirst, BusyPCs,
              EnterPCs, ExitPCs, KsPCs, DnsPCs, FcPCs, TogglePCs

LEMMA NextRecord ==
    ASSUME TypeOK, RecordInv, [Next]_vars
    PROVE  /\ RecordInv'
           /\ (rec # NoRec /\ rec' # NoRec /\ Undisturbed') => rec'.saved = rec.saved
<1>1. CASE UNCHANGED vars
  BY <1>1 DEF vars, RecordInv, EnterAtSteps, Undisturbed, OneBusy, Busy, AboutToSave,
              RecordedFirst
<1>2. ASSUME NEW c \in Clients, NEW o \in Ops, Request(c, o)
      PROVE  RecordInv' /\ rec' = rec
  BY <1>2, BeginRecord, OpsAssumption DEF Request, store
<1>3. ASSUME NEW p \in Procs, Service(p)
      PROVE  RecordInv' /\ rec' = rec
  BY <1>3, ServiceRecord, ServiceMove
<1>4. ASSUME NEW p \in Procs, Step(p) \/ ContextDone(p)
      PROVE  /\ RecordInv'
             /\ (rec # NoRec /\ rec' # NoRec /\ Undisturbed') => rec'.saved = rec.saved
  BY <1>3, <1>4, EnterRecord, ExitToggleRecord, RestRecord DEF Step
<1>. QED
  BY <1>1, <1>2, <1>4, WatchRecord, EnvironmentRecord DEF Next

\* enterPortalMode records before it relaxes, for every interleaving of requests
\* and whichever command or store transaction fails: an undisturbed pause has its
\* posture in the store from the first relaxing step on.
THEOREM RecordComesFirst == Spec => []RecordFirst
<1>1. RecordInv => RecordFirst
  BY DEF RecordInv, RecordFirst, RecordedFirst, Undisturbed
<1>. QED
  BY <1>1, InitRecord, NextRecord, TypeCorrect, PTL DEF Spec

\* As long as a pause lasts, no step of an undisturbed history changes the
\* posture the store says will be restored, whatever fails meanwhile.
THEOREM RecordedPostureFixed == Spec => RecordKeepsPosture
<1>1. TypeOK /\ RecordInv /\ [Next]_vars
        => [(rec # NoRec /\ rec' # NoRec /\ history' # "disturbed")
              => rec'.saved = rec.saved]_vars
  BY NextRecord DEF Undisturbed
<1>. QED
  BY <1>1, InitRecord, NextRecord, TypeCorrect, PTL DEF Spec, RecordKeepsPosture

-----------------------------------------------------------------------------
(***************************************************************************)
(* What a pause and its end leave behind: posture (NeverStranded,          *)
(* SavedIsPosture), connections (FlowsCut) and completeness                *)
(* (PauseRelaxesAll).  From here on no command fails (Faults = {}) and     *)
(* applyDNSDefault does not run; for completeness nobody brings the tunnel *)
(* up by hand either.                                                      *)
(***************************************************************************)

-----------------------------------------------------------------------------
(* Handlers and steps *)

\* A process that moves to a step of its handler keeps steps and handlers matched.
LEMMA MatchMove ==
    ASSUME TypeOK, OpsMatch, NEW p \in Procs, NEW l, NEW o,
           pc' = [pc EXCEPT ![p] = l],
           \/ op' = [op EXCEPT ![p] = o]
           \/ op' = op /\ o = op[p],
           OpOfPc(o, l)
    PROVE  OpsMatch'
<1> SUFFICES ASSUME NEW q \in Procs PROVE OpOfPc(op'[q], pc'[q])
  BY DEF OpsMatch, OpOfPc
<1>1. CASE q = p
  BY <1>1 DEF TypeOK
<1>2. CASE q # p
  BY <1>2 DEF TypeOK, OpsMatch
<1>. QED
  BY <1>1, <1>2

\* Where the shared services of a handler continue.
LEMMA MatchContinuations ==
    ASSUME NEW p \in Procs
    PROVE  /\ op[p] \in {"enter", "exit", "ksOn", "ksOff"} => OpOfPc(op[p], AfterKS(p))
           /\ op[p] \in {"enter", "exit", "dnsOn", "dnsOff"} => OpOfPc(op[p], AfterDns(p))
           /\ op[p] \in {"exit", "ksOn", "ksOff", "dnsOn"} => OpOfPc(op[p], AfterFC(p))
           /\ \A o : /\ OpOfPc(o, "ret") /\ OpOfPc(o, "idle") /\ OpOfPc(o, "im_sum")
                    /\ \A l \in WatchPCs : OpOfPc(o, l)
           /\ \A o \in AllOps \ {"ap"} : OpOfPc(o, First(o))
<1> USE DEF OpOfPc, EnterPCs, ExitPCs, FcPCs
<1>1. op[p] \in {"enter", "exit", "ksOn", "ksOff"} => OpOfPc(op[p], AfterKS(p))
  BY DEF AfterKS
<1>2. op[p] \in {"enter", "exit", "dnsOn", "dnsOff"} => OpOfPc(op[p], AfterDns(p))
  BY DEF AfterDns
<1>3. op[p] \in {"exit", "ksOn", "ksOff", "dnsOn"} => OpOfPc(op[p], AfterFC(p))
  BY DEF AfterFC
<1>4. \A o : /\ OpOfPc(o, "ret") /\ OpOfPc(o, "idle") /\ OpOfPc(o, "im_sum")
             /\ \A l \in WatchPCs : OpOfPc(o, l)
  BY DEF WatchPCs
<1>5. \A o \in AllOps \ {"ap"} : OpOfPc(o, First(o))
  BY DEF First, AllOps
<1>. QED
  BY <1>1, <1>2, <1>3, <1>4, <1>5

LEMMA MatchService ==
    ASSUME TypeOK, OpsMatch, Faults = {}, cancelled = {}, NEW p \in Procs, Service(p)
    PROVE  OpsMatch' /\ cancelled' = {}
<1>1. ~Fails(p)
  BY DEF Fails
<1>2. OpOfPc(op[p], pc[p])
  BY DEF OpsMatch
<1>3. ASSUME NEW from, NEW c, NEW l, NEW yes, NEW after,
             Command(p, from, c, l, yes, after), OpOfPc(op[p], yes)
      PROVE  OpsMatch' /\ cancelled' = {}
  BY <1>1, <1>3, MatchMove DEF Command, Run, Goto
<1>4. CASE KillSwitchScript(p)
  <2>1. op[p] \in {"enter", "exit", "ksOn", "ksOff"}
    BY <1>2, <1>4 DEF KillSwitchScript, OpOfPc
  <2>2. TurnsOn(p) => OpOfPc(op[p], "ks_flush")
    BY DEF TurnsOn, OpOfPc, EnterPCs, ExitPCs, FcPCs
  <2>3. pc' = [pc EXCEPT ![p] = IF TurnsOn(p) THEN "ks_flush" ELSE AfterKS(p)]
    BY <1>1, <1>4 DEF KillSwitchScript, Run, Goto
  <2>. QED
    BY <1>4, <2>1, <2>2, <2>3, MatchMove, MatchContinuations DEF KillSwitchScript
<1>5. CASE FlushConntrack(p)
  <2>1. op[p] \in {"enter", "exit", "ksOn", "ksOff"}
    BY <1>2, <1>5 DEF FlushConntrack, OpOfPc
  <2>2. pc' = [pc EXCEPT ![p] = AfterKS(p)]
    BY <1>5 DEF FlushConntrack, Goto
  <2>. QED
    BY <1>5, <2>1, <2>2, MatchMove, MatchContinuations DEF FlushConntrack
<1>6. CASE EnableDhcp(p)
  <2>1. OpOfPc(op[p], "en_fw")
    BY <1>2, <1>6 DEF EnableDhcp, Command, OpOfPc, EnterPCs, ExitPCs, FcPCs
  <2>. QED
    BY <1>3, <1>6, <2>1 DEF EnableDhcp
<1>7. CASE EnableRules(p)
  <2>1. OpOfPc(op[p], "dns_restart")
    BY <1>2, <1>7 DEF EnableRules, Command, OpOfPc, EnterPCs, ExitPCs, FcPCs
  <2>. QED
    BY <1>3, <1>7, <2>1 DEF EnableRules
<1>8. CASE DisableDhcp(p)
  <2>1. OpOfPc(op[p], "dis_fw")
    BY <1>2, <1>8 DEF DisableDhcp, Command, OpOfPc, EnterPCs, ExitPCs, FcPCs
  <2>. QED
    BY <1>3, <1>8, <2>1 DEF DisableDhcp
<1>9. CASE DisableRules(p)
  <2>1. OpOfPc(op[p], "dns_restart")
    BY <1>2, <1>9 DEF DisableRules, Command, OpOfPc, EnterPCs, ExitPCs, FcPCs
  <2>. QED
    BY <1>3, <1>9, <2>1 DEF DisableRules
<1>10. CASE RestartDnsmasq(p)
  <2>1. OpOfPc(op[p], "dns_reload")
    BY <1>2, <1>10 DEF RestartDnsmasq, Command, OpOfPc, EnterPCs, ExitPCs, FcPCs
  <2>. QED
    BY <1>3, <1>10, <2>1 DEF RestartDnsmasq
<1>11. CASE ReloadFirewall(p)
  <2>1. op[p] \in {"enter", "exit", "dnsOn", "dnsOff"}
    BY <1>2, <1>11 DEF ReloadFirewall, Command, OpOfPc
  <2>. QED
    BY <1>3, <1>11, <2>1, MatchContinuations DEF ReloadFirewall
<1>12. CASE FailClosedRule(p)
  <2>1. OpOfPc(op[p], "fc_reload")
    BY <1>2, <1>12 DEF FailClosedRule, Command, OpOfPc, EnterPCs, ExitPCs, FcPCs
  <2>. QED
    BY <1>3, <1>12, <2>1 DEF FailClosedRule
<1>13. CASE FailClosedReload(p)
  <2>1. op[p] \in {"exit", "ksOn", "ksOff", "dnsOn"}
    BY <1>2, <1>13 DEF FailClosedReload, OpOfPc, FcPCs
  <2>2. pc' = [pc EXCEPT ![p] = AfterFC(p)]
    BY <1>1, <1>13 DEF FailClosedReload, Goto
  <2>. QED
    BY <1>13, <2>1, <2>2, MatchMove, MatchContinuations DEF FailClosedReload
<1>. QED
  BY <1>4, <1>5, <1>6, <1>7, <1>8, <1>9, <1>10, <1>11, <1>12, <1>13 DEF Service

LEMMA MatchHandlers ==
    ASSUME TypeOK, OpsMatch, Faults = {}, cancelled = {}, NEW p \in Procs,
           Enter(p) \/ Exit(p) \/ Toggle(p) \/ Other(p) \/ Return(p)
    PROVE  OpsMatch' /\ cancelled' = {}
<1> USE DEF Query, Goto
<1>1. ~Fails(p)
  BY DEF Fails
<1>2. OpOfPc(op[p], pc[p])
  BY DEF OpsMatch
<1>3. /\ op[p] = "enter" => \A l \in EnterPCs \cup {"ks_script"} : OpOfPc(op[p], l)
      /\ op[p] = "exit" => \A l \in ExitPCs \cup {"ks_script"} : OpOfPc(op[p], l)
  BY DEF OpOfPc, EnterPCs, ExitPCs, FcPCs
<1>4. CASE Enter(p)
  <2>1. op[p] = "enter"
    BY <1>2, <1>4 DEF Enter, EnterRead, EnterQueryKS, EnterQueryDNS, EnterSave, EnterDown,
                     EnterDone, OpOfPc, EnterPCs
  <2>2. \E l \in EnterPCs \cup {"ks_script", "ret", AfterKS(p)} : pc' = [pc EXCEPT ![p] = l]
    BY <1>4 DEF Enter, EnterRead, EnterQueryKS, EnterQueryDNS, EnterSave, EnterDown,
                     EnterDone, EnterPCs
  <2>3. op' = op /\ cancelled' = {}
    BY <1>4 DEF Enter, EnterRead, EnterQueryKS, EnterQueryDNS, EnterSave, EnterDown, EnterDone
  <2>. QED
    BY <1>3, <2>1, <2>2, <2>3, MatchMove, MatchContinuations
<1>5. CASE Exit(p)
  <2>1. op[p] = "exit"
    BY <1>2, <1>5 DEF Exit, ExitRead, ExitUp, ExitClear, OpOfPc, ExitPCs
  <2>2. \E l \in ExitPCs \cup {"ks_script", "ret", AfterKS(p)} : pc' = [pc EXCEPT ![p] = l]
    BY <1>5 DEF Exit, ExitRead, ExitUp, ExitClear, ExitPCs
  <2>3. op' = op /\ cancelled' = {}
    BY <1>5 DEF Exit, ExitRead, ExitUp, ExitClear
  <2>. QED
    BY <1>3, <2>1, <2>2, <2>3, MatchMove, MatchContinuations
<1>6. CASE Toggle(p)
  <2>1. ~SetAP(p) /\ ~ApplyDNSDefault(p) /\ pc[p] # "ap_mark"
    BY <1>2 DEF SetAP, ApplyDNSDefault, OpOfPc
  <2>2. op' = op /\ cancelled' = {}
    BY <1>6, <2>1 DEF Toggle, KillSwitchAskDNS, DnsAskKS, DnsMark, CancelRead, CancelDelete
  <2>3. \E l : pc' = [pc EXCEPT ![p] = l] /\ OpOfPc(op[p], l)
    BY <1>1, <1>2, <1>6, <2>1
    DEF Toggle, KillSwitchAskDNS, DnsAskKS, DnsMark, CancelRead, CancelDelete, OpOfPc,
        EnterPCs, ExitPCs, FcPCs
  <2>. QED
    BY <2>2, <2>3, MatchMove
<1>7. CASE Other(p)
  <2>1. \E l \in {"ret", "im_sum"} : pc' = [pc EXCEPT ![p] = l]
    BY <1>7 DEF Other, JoinUplink, SetTunnel, Import, ImportSummary
  <2>2. op' = op /\ cancelled' = {}
    BY <1>7 DEF Other, JoinUplink, SetTunnel, Import, ImportSummary
  <2>. QED
    BY <2>1, <2>2, MatchMove, MatchContinuations
<1>8. CASE Return(p)
  <2>1. Rest(p) \in WatchPCs \cup {"idle"}
    BY DEF Rest, WatchPCs
  <2>. QED
    BY <1>8, <2>1, MatchMove, MatchContinuations DEF Return
<1>. QED
  BY <1>4, <1>5, <1>6, <1>7, <1>8

\* Steps and handlers stay matched, and no context is ever done.
LEMMA MatchNext ==
    ASSUME TypeOK, OpsMatch, cancelled = {}, Faults = {}, "ap" \notin Ops, [Next]_vars
    PROVE  OpsMatch' /\ cancelled' = {}
<1> USE DEF Goto
<1>1. CASE UNCHANGED vars
  BY <1>1 DEF vars, OpsMatch
<1>2. ASSUME NEW p \in Procs, NEW o \in AllOps \ {"ap"}, NEW r, Begin(p, o, r)
      PROVE  OpsMatch'
  BY <1>2, MatchMove, MatchContinuations DEF Begin
<1>3. ASSUME NEW c \in Clients, NEW o \in Ops, Request(c, o)
      PROVE  OpsMatch' /\ cancelled' = {}
  <2>1. o \in AllOps \ {"ap"} /\ c \in Procs
    BY OpsAssumption
  <2>2. Begin(c, o, EmptyRec) /\ cancelled' = {}
    BY <1>3 DEF Request
  <2>. QED
    BY <1>2, <2>1, <2>2
<1>4. ASSUME NEW p \in Procs, Step(p)
      PROVE  OpsMatch' /\ cancelled' = {}
  BY <1>4, MatchService, MatchHandlers DEF Step
<1>5. ASSUME NEW p \in Procs
      PROVE  ~ContextDone(p)
  BY DEF ContextDone
<1>6. CASE Watching
  <2>1. cancelled' = {}
    BY <1>6 DEF Watching, WatchLoop, WatchIdle, WatchProbeOnline, WatchProbeNewUrl,
              WatchProbeSame, WatchSave, WatchWait, ScoutCheck, ScoutCaptive, ScoutOther,
              ScoutSleep, Silent
  <2>2. CASE \E o \in {"enter", "exit"} : \E r : Begin(Watch, o, r)
    <3>1. PICK o \in {"enter", "exit"} : \E r : Begin(Watch, o, r)
      BY <2>2
    <3>2. PICK r : Begin(Watch, o, r)
      BY <3>1
    <3>3. o \in AllOps \ {"ap"} /\ Watch \in Procs
      BY DEF AllOps
    <3>. QED
      BY <1>2, <2>1, <3>2, <3>3
  <2>3. CASE op' = op /\ \E l \in WatchPCs : pc' = [pc EXCEPT ![Watch] = l]
    <3>1. PICK l \in WatchPCs : pc' = [pc EXCEPT ![Watch] = l]
      BY <2>3
    <3>2. OpOfPc(op[Watch], l) /\ Watch \in Procs
      BY MatchContinuations
    <3>. QED
      BY <2>1, <2>3, <3>1, <3>2, MatchMove
  <2>. QED
    BY <1>6, <2>2, <2>3 DEF Watching, WatchLoop, WatchIdle, WatchProbeOnline,
              WatchProbeNewUrl, WatchProbeSame, WatchSave, WatchWait, ScoutCheck,
              ScoutCaptive, ScoutOther, ScoutSleep, WatchPCs
<1>7. CASE Environment
  <2>1. CASE Tick \/ OpenFlow
    BY <2>1 DEF Tick, OpenFlow, process, OpsMatch
  <2>2. CASE Crash \/ Reboot
    <3>1. Killed
      BY <2>2 DEF Crash, Reboot
    <3>2. \A p \in Procs : Rest(p) \in WatchPCs \cup {"idle"}
      BY DEF Rest, WatchPCs
    <3>. QED
      BY <3>1, <3>2, MatchContinuations DEF Killed, OpsMatch
  <2>. QED
    BY <1>7, <2>1, <2>2 DEF Environment
<1>. QED
  BY <1>1, <1>3, <1>4, <1>5, <1>6, <1>7 DEF Next

-----------------------------------------------------------------------------
(* Progress of one handler *)

\* When the only process that is or becomes busy moves, its own step decides.
LEMMA ProgressMove ==
    ASSUME TypeOK, Progress, NEW p \in Procs, Busy(p) \/ Quiet,
           NEW l, pc' = [pc EXCEPT ![p] = l],
           SavedIsPosture', CutHasRecord',
           l \in BusyPCs => BusyInv(p)',
           l \notin BusyPCs => Idle'
    PROVE  Progress'
<1>1. \A q \in Procs : q # p => ~Busy(q)
  BY DEF Progress, OneBusy, Quiet
<1>2. \A q \in Procs : q # p => pc'[q] = pc[q]
  BY DEF TypeOK
<1>3. \A q \in Procs : q # p => pc'[q] \notin BusyPCs
  BY <1>1, <1>2 DEF Busy
<1>4. pc'[p] = l
  BY DEF TypeOK
<1>5. OneBusy'
  BY <1>3 DEF OneBusy, Busy
<1>6. (Quiet => Idle)'
  BY <1>4 DEF Quiet, Busy
<1>7. (\A q \in Procs : Busy(q) => BusyInv(q))'
  <2> SUFFICES ASSUME NEW q \in Procs, pc'[q] \in BusyPCs PROVE BusyInv(q)'
    BY DEF Busy
  <2>. QED
    BY <1>3, <1>4
<1>. QED
  BY <1>5, <1>6, <1>7 DEF Progress

LEMMA KillSwitchProgress ==
    ASSUME TypeOK, RestoreInv, Undisturbed, Faults = {}, NEW p \in Procs, KillSwitchScript(p)
    PROVE  Progress'
<1> DEFINE l == IF TurnsOn(p) THEN "ks_flush" ELSE AfterKS(p)
<1>1. /\ Progress /\ Busy(p) /\ BusyInv(p)
      /\ cfg' = Switched(p)
      /\ live' = IF Switched(p) # cfg THEN Reload(live, Switched(p)) ELSE live
      /\ pc' = [pc EXCEPT ![p] = l]
      /\ UNCHANGED <<rec, op, loc, intent, history>>
  BY DEF RestoreInv, Progress, KillSwitchScript, Run, Fails, Goto, Busy, BusyPCs, KsPCs, store,
         ghost
<1>2. SavedIsPosture' /\ CutHasRecord'
  BY <1>1 DEF Progress, SavedIsPosture, CutHasRecord
<1>3. op[p] \in {"enter", "exit", "ksOn", "ksOff"} /\ pc[p] = "ks_script"
  BY DEF RestoreInv, OpsMatch, OpOfPc, KillSwitchScript
<1>4. l \in BusyPCs
  BY DEF AfterKS, BusyPCs, EnterPCs, ExitPCs, KsPCs, DnsPCs, TogglePCs
<1>5. pc'[p] = l
  BY <1>1 DEF TypeOK
<1>6. cfg \subseteq Sections /\ live \subseteq Sections /\ intent \subseteq {"ks", "dns"}
  BY DEF TypeOK
<1>7. CASE op[p] = "enter"
  <2>1. /\ rec # NoRec /\ loc[p].saved = intent /\ PausedRouter
    BY <1>1, <1>3, <1>7 DEF BusyInv, EnterInv
  <2>2. cfg' = cfg \cup {"lanwan"} /\ l = AfterKS(p)
    BY <1>1, <1>7 DEF Switched, TurnsOn
  <2>3. PausedRouter'
    BY <1>1, <2>1, <2>2 DEF PausedRouter, Reload, DnsSections
  <2>4. "dns" \notin intent => cfg' = {"lanwan"} /\ live' = {"lanwan"}
    BY <1>1, <1>6, <2>1, <2>2 DEF PausedRouter, Reload, DnsSections, Sections
  <2>5. l = IF "dns" \in intent THEN "dis_dhcp" ELSE "e_end"
    BY <1>7, <2>1, <2>2 DEF AfterKS
  <2>6. EnterInv(p)'
    BY <1>1, <1>5, <2>1, <2>2, <2>3, <2>4, <2>5 DEF EnterInv, Target
  <2>. QED
    BY <1>1, <1>2, <1>4, <1>7, <2>6, ProgressMove DEF BusyInv
<1>8. CASE op[p] = "exit"
  <2>1. /\ rec # NoRec /\ loc[p].saved = intent /\ PausedRouter /\ "ks" \in intent
    BY <1>1, <1>3, <1>8 DEF BusyInv, ExitInv
  <2>2. cfg' = cfg \ {"lanwan"} /\ l = "ks_flush"
    BY <1>1, <1>8 DEF Switched, TurnsOn
  <2>3. PausedRouter'
    BY <1>1, <2>1, <2>2 DEF PausedRouter, Reload, DnsSections
  <2>4. ExitInv(p)'
    BY <1>1, <1>5, <2>1, <2>2, <2>3 DEF ExitInv, DnsPCs, FcPCs
  <2>. QED
    BY <1>1, <1>2, <1>4, <1>8, <2>4, ProgressMove DEF BusyInv
<1>9. CASE op[p] \in {"ksOn", "ksOff"}
  <2> SUFFICES ASSUME rec = NoRec \/ history = "clean"
               PROVE  ToggleInv(p)'
    BY <1>1, <1>2, <1>4, <1>9, ProgressMove DEF BusyInv
  <2>1. Settled
    BY <1>1, <1>3, <1>9 DEF BusyInv, ToggleInv
  <2>2. Base' = Base
    BY <1>1 DEF Base
  <2>3. CASE op[p] = "ksOn"
    BY <1>1, <1>5, <2>1, <2>2, <2>3 DEF ToggleInv, Settled, Switched, TurnsOn, Reload
  <2>4. CASE op[p] = "ksOff"
    BY <1>1, <1>5, <2>1, <2>2, <2>4 DEF ToggleInv, Settled, Switched, TurnsOn, Reload, AfterKS
  <2>. QED
    BY <1>9, <2>3, <2>4
<1>. QED
  BY <1>3, <1>7, <1>8, <1>9

LEMMA SubsetOfOne ==
    ASSUME NEW c, NEW x, c \subseteq {x}
    PROVE  c = IF x \in c THEN {x} ELSE {}
<1>1. CASE x \in c
  <2>1. \A y : y \in c <=> y \in {x}
    BY <1>1
  <2>. QED
    BY <1>1, <2>1, Zenon
<1>2. CASE x \notin c
  <2>1. \A y : y \in c <=> y \in {}
    BY <1>2
  <2>. QED
    BY <1>2, <2>1, Zenon
<1>. QED
  BY <1>1, <1>2

LEMMA FlushProgress ==
    ASSUME TypeOK, RestoreInv, Undisturbed, Faults = {}, NEW p \in Procs, FlushConntrack(p)
    PROVE  Progress'
<1>1. /\ Progress /\ Busy(p) /\ BusyInv(p)
      /\ pc' = [pc EXCEPT ![p] = AfterKS(p)]
      /\ UNCHANGED <<cfg, live, rec, op, loc, intent, history>>
  BY DEF RestoreInv, Progress, FlushConntrack, Goto, Busy, BusyPCs, KsPCs, store, ghost
<1>2. SavedIsPosture' /\ CutHasRecord'
  BY <1>1 DEF Progress, SavedIsPosture, CutHasRecord
<1>3. op[p] \in {"exit", "ksOn"} /\ pc[p] = "ks_flush"
  BY DEF RestoreInv, OpsMatch, OpOfPc, FlushConntrack
<1>4. AfterKS(p) \in BusyPCs
  BY DEF AfterKS, BusyPCs, EnterPCs, ExitPCs, KsPCs, DnsPCs, TogglePCs
<1>5. pc'[p] = AfterKS(p)
  BY <1>1 DEF TypeOK
<1>6. CASE op[p] = "exit"
  <2>1. /\ rec # NoRec /\ loc[p].saved = intent /\ PausedRouter
        /\ "lanwan" \in cfg => "ks" \notin intent
    BY <1>1, <1>3, <1>6 DEF BusyInv, ExitInv
  <2>2. ASSUME "dns" \notin intent
        PROVE  cfg = Target(intent) /\ live = cfg
    <3>1. cfg \subseteq {"lanwan"} /\ live \subseteq {"lanwan"}
      BY <2>1, <2>2 DEF PausedRouter, DnsSections, TypeOK, Sections
    <3>2. Target(intent) = IF "ks" \in intent THEN {} ELSE {"lanwan"}
      BY <2>2 DEF Target
    <3>3. /\ "lanwan" \in cfg <=> "ks" \notin intent
          /\ "lanwan" \in live <=> "ks" \notin intent
      BY <2>1 DEF PausedRouter
    <3>4. cfg = IF "lanwan" \in cfg THEN {"lanwan"} ELSE {}
      BY <3>1, SubsetOfOne
    <3>5. live = IF "lanwan" \in live THEN {"lanwan"} ELSE {}
      BY <3>1, SubsetOfOne
    <3>. QED
      BY <3>2, <3>3, <3>4, <3>5
  <2>3. ExitInv(p)'
    BY <1>1, <1>5, <1>6, <2>1, <2>2 DEF ExitInv, DnsPCs, FcPCs, AfterKS, PausedRouter
  <2>. QED
    BY <1>1, <1>2, <1>4, <1>6, <2>3, ProgressMove DEF BusyInv
<1>7. CASE op[p] = "ksOn"
  <2>1. rec = NoRec \/ history = "clean" => ToggleInv(p)'
    BY <1>1, <1>3, <1>5, <1>7 DEF BusyInv, ToggleInv, AfterKS, Base
  <2>. QED
    BY <1>1, <1>2, <1>4, <1>7, <2>1, ProgressMove DEF BusyInv
<1>. QED
  BY <1>3, <1>6, <1>7

\* What a command of the DNS service leaves alone, and what is known before it.
LEMMA CommandMove ==
    ASSUME TypeOK, RestoreInv, Undisturbed, Faults = {}, NEW p \in Procs,
           NEW from \in BusyPCs, NEW c, NEW l, NEW yes, NEW after,
           Command(p, from, c, l, yes, after)
    PROVE  /\ Progress /\ Busy(p) /\ BusyInv(p) /\ OpOfPc(op[p], from)
           /\ pc[p] = from /\ pc'[p] = yes
           /\ pc' = [pc EXCEPT ![p] = yes]
           /\ cfg' = c /\ live' = l
           /\ UNCHANGED <<rec, op, loc, intent, history>>
           /\ SavedIsPosture' /\ CutHasRecord' /\ Base' = Base
<1>1. /\ Progress /\ Busy(p) /\ BusyInv(p) /\ pc[p] = from
      /\ cfg' = c /\ live' = l /\ pc' = [pc EXCEPT ![p] = yes]
      /\ UNCHANGED <<rec, op, loc, intent, history>>
  BY DEF RestoreInv, Progress, Command, Run, Fails, Goto, Busy, store, ghost
<1>2. OpOfPc(op[p], from)
  BY <1>1 DEF RestoreInv, OpsMatch
<1>3. SavedIsPosture' /\ CutHasRecord' /\ Base' = Base
  BY <1>1 DEF Progress, SavedIsPosture, CutHasRecord, Base
<1>4. pc'[p] = yes
  BY <1>1 DEF TypeOK
<1>. QED
  BY <1>1, <1>2, <1>3, <1>4

LEMMA EnableProgress ==
    ASSUME TypeOK, RestoreInv, Undisturbed, Faults = {}, NEW p \in Procs,
           EnableDhcp(p) \/ EnableRules(p)
    PROVE  Progress'
<1> USE DEF DnsPCs, FcPCs
<1>1. {"en_dhcp", "en_fw", "dns_restart"} \subseteq BusyPCs
  BY DEF BusyPCs
<1>2. CASE EnableDhcp(p)
  <2>1. Command(p, "en_dhcp", cfg \cup {"doh"}, live, "en_fw", AfterDns(p))
    BY <1>2 DEF EnableDhcp
  <2>2. op[p] \in {"exit", "dnsOn"}
    BY <1>1, <2>1, CommandMove DEF OpOfPc
  <2>3. CASE op[p] = "exit"
    <3>1. PausedRouter' /\ ExitInv(p)'
      BY <1>1, <2>1, <2>3, CommandMove DEF BusyInv, ExitInv, PausedRouter, DnsSections
    <3>. QED
      BY <1>1, <2>1, <2>3, <3>1, CommandMove, ProgressMove DEF BusyInv
  <2>4. CASE op[p] = "dnsOn"
    <3>1. rec = NoRec \/ history = "clean" => ToggleInv(p)'
      BY <1>1, <2>1, <2>4, CommandMove DEF BusyInv, ToggleInv, Settled
    <3>. QED
      BY <1>1, <2>1, <2>4, <3>1, CommandMove, ProgressMove DEF BusyInv
  <2>. QED
    BY <2>2, <2>3, <2>4
<1>3. CASE EnableRules(p)
  <2>1. Command(p, "en_fw", cfg \cup {"dns53"}, live, "dns_restart", AfterDns(p))
    BY <1>3 DEF EnableRules
  <2>2. op[p] \in {"exit", "dnsOn"}
    BY <1>1, <2>1, CommandMove DEF OpOfPc
  <2>3. CASE op[p] = "exit"
    <3>1. PausedRouter' /\ ExitInv(p)'
      BY <1>1, <2>1, <2>3, CommandMove DEF BusyInv, ExitInv, PausedRouter, DnsSections
    <3>. QED
      BY <1>1, <2>1, <2>3, <3>1, CommandMove, ProgressMove DEF BusyInv
  <2>4. CASE op[p] = "dnsOn"
    <3>1. rec = NoRec \/ history = "clean" => ToggleInv(p)'
      BY <1>1, <2>1, <2>4, CommandMove DEF BusyInv, ToggleInv, Settled
    <3>. QED
      BY <1>1, <2>1, <2>4, <3>1, CommandMove, ProgressMove DEF BusyInv
  <2>. QED
    BY <2>2, <2>3, <2>4
<1>. QED
  BY <1>2, <1>3

LEMMA DisableProgress ==
    ASSUME TypeOK, RestoreInv, Undisturbed, Faults = {}, NEW p \in Procs,
           DisableDhcp(p) \/ DisableRules(p)
    PROVE  Progress'
<1> USE DEF DnsPCs, FcPCs
<1>1. {"dis_dhcp", "dis_fw", "dns_restart"} \subseteq BusyPCs
  BY DEF BusyPCs
<1>2. CASE DisableDhcp(p)
  <2>1. Command(p, "dis_dhcp", cfg \ {"doh"}, live, "dis_fw", AfterDns(p))
    BY <1>2 DEF DisableDhcp, Deleted
  <2>2. op[p] \in {"enter", "dnsOff"}
    BY <1>1, <2>1, CommandMove DEF OpOfPc
  <2>3. CASE op[p] = "enter"
    <3>1. PausedRouter' /\ EnterInv(p)'
      BY <1>1, <2>1, <2>3, CommandMove DEF BusyInv, EnterInv, PausedRouter, DnsSections
    <3>. QED
      BY <1>1, <2>1, <2>3, <3>1, CommandMove, ProgressMove DEF BusyInv
  <2>4. CASE op[p] = "dnsOff"
    <3>1. rec = NoRec \/ history = "clean" => ToggleInv(p)'
      BY <1>1, <2>1, <2>4, CommandMove DEF BusyInv, ToggleInv, Settled
    <3>. QED
      BY <1>1, <2>1, <2>4, <3>1, CommandMove, ProgressMove DEF BusyInv
  <2>. QED
    BY <2>2, <2>3, <2>4
<1>3. CASE DisableRules(p)
  <2>1. Command(p, "dis_fw", cfg \ {"dns53", "dnsks"}, live, "dns_restart", AfterDns(p))
    BY <1>3 DEF DisableRules, Deleted
  <2>2. op[p] \in {"enter", "dnsOff"}
    BY <1>1, <2>1, CommandMove DEF OpOfPc
  <2>3. CASE op[p] = "enter"
    <3>1. PausedRouter' /\ EnterInv(p)'
      BY <1>1, <2>1, <2>3, CommandMove DEF BusyInv, EnterInv, PausedRouter, DnsSections
    <3>. QED
      BY <1>1, <2>1, <2>3, <3>1, CommandMove, ProgressMove DEF BusyInv
  <2>4. CASE op[p] = "dnsOff"
    <3>1. rec = NoRec \/ history = "clean" => ToggleInv(p)'
      BY <1>1, <2>1, <2>4, CommandMove DEF BusyInv, ToggleInv, Settled, DnsSections
    <3>. QED
      BY <1>1, <2>1, <2>4, <3>1, CommandMove, ProgressMove DEF BusyInv
  <2>. QED
    BY <2>2, <2>3, <2>4
<1>. QED
  BY <1>2, <1>3

\* Sets of sections are equal when they agree on each of the four.
LEMMA SectionsEqual ==
    ASSUME NEW c \in SUBSET Sections, NEW d \in SUBSET Sections,
           "lanwan" \in c <=> "lanwan" \in d,
           "doh" \in c <=> "doh" \in d,
           "dns53" \in c <=> "dns53" \in d,
           "dnsks" \in c <=> "dnsks" \in d
    PROVE  c = d
<1>1. \A s : s \in c <=> s \in d
  BY DEF Sections
<1>. QED
  BY <1>1, Zenon

\* Which sections a posture has, and that KillSwitch and Enabled read it back.
LEMMA TargetSections ==
    ASSUME NEW I \in SUBSET {"ks", "dns"}
    PROVE  /\ Target(I) \in SUBSET Sections
           /\ "lanwan" \in Target(I) <=> "ks" \notin I
           /\ "doh" \in Target(I) <=> "dns" \in I
           /\ "dns53" \in Target(I) <=> "dns" \in I
           /\ "dnsks" \in Target(I) <=> "ks" \in I /\ "dns" \in I
           /\ Posture(Target(I)) = I
<1>1. /\ Target(I) \in SUBSET Sections
      /\ "lanwan" \in Target(I) <=> "ks" \notin I
      /\ "doh" \in Target(I) <=> "dns" \in I
      /\ "dns53" \in Target(I) <=> "dns" \in I
      /\ "dnsks" \in Target(I) <=> "ks" \in I /\ "dns" \in I
  BY DEF Target, Sections
<1>2. \A x : x \in Posture(Target(I)) <=> x \in I
  BY <1>1 DEF Posture
<1>3. Posture(Target(I)) = I
  BY <1>2, Zenon
<1>. QED
  BY <1>1, <1>3

LEMMA BaseType ==
    ASSUME TypeOK
    PROVE  /\ Base \in SUBSET {"ks", "dns"}
           /\ \A o : Toggled(Base, o) \in SUBSET {"ks", "dns"}
BY DEF TypeOK, Base, Toggled

LEMMA RestartProgress ==
    ASSUME TypeOK, RestoreInv, Undisturbed, Faults = {}, NEW p \in Procs, RestartDnsmasq(p)
    PROVE  Progress'
<1> USE DEF DnsPCs, FcPCs
<1>1. Command(p, "dns_restart", cfg, Restart(live, cfg), "dns_reload", AfterDns(p))
  BY DEF RestartDnsmasq
<1>2. "dns_restart" \in BusyPCs /\ "dns_reload" \in BusyPCs
  BY DEF BusyPCs
<1>3. op[p] \in {"enter", "exit", "dnsOn", "dnsOff"}
  BY <1>1, <1>2, CommandMove DEF OpOfPc
<1>4. CASE op[p] = "enter"
  <2>1. PausedRouter' /\ EnterInv(p)'
    BY <1>1, <1>2, <1>4, CommandMove
    DEF BusyInv, EnterInv, PausedRouter, DnsSections, Restart
  <2>. QED
    BY <1>1, <1>2, <1>4, <2>1, CommandMove, ProgressMove DEF BusyInv
<1>5. CASE op[p] = "exit"
  <2>1. PausedRouter' /\ ExitInv(p)'
    BY <1>1, <1>2, <1>5, CommandMove
    DEF BusyInv, ExitInv, PausedRouter, DnsSections, Restart
  <2>. QED
    BY <1>1, <1>2, <1>5, <2>1, CommandMove, ProgressMove DEF BusyInv
<1>6. CASE op[p] \in {"dnsOn", "dnsOff"}
  <2>1. rec = NoRec \/ history = "clean" => ToggleInv(p)'
    BY <1>1, <1>2, <1>6, CommandMove DEF BusyInv, ToggleInv, Restart
  <2>. QED
    BY <1>1, <1>2, <1>6, <2>1, CommandMove, ProgressMove DEF BusyInv
<1>. QED
  BY <1>3, <1>4, <1>5, <1>6

LEMMA ReloadProgress ==
    ASSUME TypeOK, RestoreInv, Undisturbed, Faults = {}, NEW p \in Procs, ReloadFirewall(p)
    PROVE  Progress'
<1> USE DEF DnsPCs, FcPCs
<1>1. Command(p, "dns_reload", cfg, Reload(live, cfg), AfterDns(p), AfterDns(p))
  BY DEF ReloadFirewall
<1>2. "dns_reload" \in BusyPCs /\ AfterDns(p) \in BusyPCs
  BY DEF BusyPCs, AfterDns, EnterPCs, ExitPCs, TogglePCs
<1>3. op[p] \in {"enter", "exit", "dnsOn", "dnsOff"}
  BY <1>1, <1>2, CommandMove DEF OpOfPc
<1>4. ASSUME "doh" \in cfg <=> "doh" \in live
      PROVE  Reload(live, cfg) = cfg
  <2>1. cfg \in SUBSET Sections /\ Reload(live, cfg) \in SUBSET Sections
    BY DEF TypeOK, Reload
  <2>. QED
    BY <1>4, <2>1, SectionsEqual DEF Reload
<1>5. CASE op[p] = "enter"
  <2>1. /\ "lanwan" \in cfg /\ "doh" \notin cfg /\ "dns53" \notin cfg /\ "dnsks" \notin cfg
        /\ "doh" \notin live
    BY <1>1, <1>2, <1>5, CommandMove DEF BusyInv, EnterInv
  <2>2. cfg = Target({})
    BY <2>1, SectionsEqual, TargetSections DEF TypeOK
  <2>3. PausedRouter' /\ EnterInv(p)'
    BY <1>1, <1>2, <1>4, <1>5, <2>1, <2>2, CommandMove
    DEF BusyInv, EnterInv, PausedRouter, DnsSections, AfterDns
  <2>. QED
    BY <1>1, <1>2, <1>5, <2>3, CommandMove, ProgressMove DEF BusyInv
<1>6. CASE op[p] = "exit"
  <2>1. /\ "lanwan" \in cfg <=> "ks" \notin intent
        /\ "doh" \in cfg /\ "dns53" \in cfg /\ "dns" \in intent /\ "doh" \in live
        /\ "ks" \notin intent => "dnsks" \notin cfg
        /\ loc[p].saved = intent
    BY <1>1, <1>2, <1>6, CommandMove DEF BusyInv, ExitInv, PausedRouter
  <2>2. "ks" \notin intent => cfg = Target(intent)
    BY <2>1, SectionsEqual, TargetSections DEF TypeOK
  <2>3. PausedRouter' /\ ExitInv(p)'
    BY <1>1, <1>2, <1>4, <1>6, <2>1, <2>2, CommandMove
    DEF BusyInv, ExitInv, PausedRouter, DnsSections, AfterDns
  <2>. QED
    BY <1>1, <1>2, <1>6, <2>3, CommandMove, ProgressMove DEF BusyInv
<1>7. CASE op[p] = "dnsOn"
  <2>1. rec = NoRec \/ history = "clean" => ToggleInv(p)'
    BY <1>1, <1>2, <1>4, <1>7, CommandMove DEF BusyInv, ToggleInv, AfterDns
  <2>. QED
    BY <1>1, <1>2, <1>7, <2>1, CommandMove, ProgressMove DEF BusyInv
<1>8. CASE op[p] = "dnsOff"
  <2>1. ASSUME rec = NoRec \/ history = "clean"
        PROVE  ToggleInv(p)'
    <3>1. cfg = Target(Base) \ DnsSections /\ ("doh" \in cfg <=> "doh" \in live)
      BY <1>1, <1>2, <1>8, <2>1, CommandMove DEF BusyInv, ToggleInv
    <3>2. Toggled(Base, op[p]) = Base \ {"dns"} /\ Base \ {"dns"} \in SUBSET {"ks", "dns"}
      BY <1>8, BaseType DEF Toggled
    <3>3. cfg = Target(Toggled(Base, op[p]))
      BY <3>1, <3>2, BaseType, TargetSections, SectionsEqual DEF TypeOK, DnsSections
    <3>. QED
      BY <1>1, <1>2, <1>4, <1>8, <3>1, <3>3, CommandMove DEF ToggleInv, AfterDns
  <2>. QED
    BY <1>1, <1>2, <1>8, <2>1, CommandMove, ProgressMove DEF BusyInv
<1>. QED
  BY <1>3, <1>5, <1>6, <1>7, <1>8

LEMMA FailClosedProgress ==
    ASSUME TypeOK, RestoreInv, Undisturbed, Faults = {}, NEW p \in Procs, FailClosedRule(p)
    PROVE  Progress'
<1> USE DEF DnsPCs, FcPCs
<1> DEFINE c == IF op[p] = "ksOff" THEN cfg \ {"dnsks"} ELSE cfg \cup {"dnsks"}
<1>1. Command(p, "fc_cfg", c, live, "fc_reload", AfterFC(p))
  BY DEF FailClosedRule, Deleted
<1>2. "fc_cfg" \in BusyPCs /\ "fc_reload" \in BusyPCs
  BY DEF BusyPCs
<1>3. op[p] \in {"exit", "ksOn", "ksOff", "dnsOn"}
  BY <1>1, <1>2, CommandMove DEF OpOfPc
<1>4. CASE op[p] = "exit"
  <2>1. c = cfg \cup {"dnsks"}
    BY <1>4
  <2>2. PausedRouter' /\ ExitInv(p)'
    BY <1>1, <1>2, <1>4, <2>1, CommandMove DEF BusyInv, ExitInv, PausedRouter, DnsSections
  <2>. QED
    BY <1>1, <1>2, <1>4, <2>2, CommandMove, ProgressMove DEF BusyInv
<1>5. CASE op[p] \in {"ksOn", "ksOff", "dnsOn"}
  <2>1. ASSUME rec = NoRec \/ history = "clean"
        PROVE  ToggleInv(p)'
    <3>1. ToggleInv(p) /\ live = cfg
      BY <1>1, <1>2, <1>5, <2>1, CommandMove DEF BusyInv, ToggleInv
    <3>2. c \in SUBSET Sections
      BY DEF TypeOK, Sections
    <3>3. Base \in SUBSET {"ks", "dns"} /\ Toggled(Base, op[p]) \in SUBSET {"ks", "dns"}
      BY BaseType
    <3>4. ASSUME op[p] = "ksOn"
          PROVE  c = Target(Toggled(Base, op[p]))
      <4>1. cfg = Target(Base) \ {"lanwan"} /\ "dns" \in Base
        BY <1>1, <1>2, <3>1, <3>4, CommandMove DEF ToggleInv
      <4>2. Toggled(Base, op[p]) = Base \cup {"ks"} /\ c = cfg \cup {"dnsks"}
        BY <3>4 DEF Toggled
      <4> HIDE DEF c
      <4>. QED
        BY <3>2, <3>3, <4>1, <4>2, TargetSections, SectionsEqual
    <3>5. ASSUME op[p] = "ksOff"
          PROVE  c = Target(Toggled(Base, op[p]))
      <4>1. cfg = Target(Base) \cup {"lanwan"} /\ "dns" \in Base
        BY <1>1, <1>2, <3>1, <3>5, CommandMove DEF ToggleInv
      <4>2. Toggled(Base, op[p]) = Base \ {"ks"} /\ c = cfg \ {"dnsks"}
        BY <3>5 DEF Toggled
      <4> HIDE DEF c
      <4>. QED
        BY <3>2, <3>3, <4>1, <4>2, TargetSections, SectionsEqual
    <3>6. ASSUME op[p] = "dnsOn"
          PROVE  c = Target(Toggled(Base, op[p]))
      <4>1. cfg = Target(Base) \cup {"doh", "dns53"} /\ "ks" \in Base
        BY <1>1, <1>2, <3>1, <3>6, CommandMove DEF ToggleInv
      <4>2. Toggled(Base, op[p]) = Base \cup {"dns"} /\ c = cfg \cup {"dnsks"}
        BY <3>6 DEF Toggled
      <4> HIDE DEF c
      <4>. QED
        BY <3>2, <3>3, <4>1, <4>2, TargetSections, SectionsEqual
    <3>7. c = Target(Toggled(Base, op[p])) /\ ("doh" \in c <=> "doh" \in live)
      BY <1>5, <3>1, <3>4, <3>5, <3>6
    <3> HIDE DEF c
    <3>. QED
      BY <1>1, <1>2, <1>5, <3>7, CommandMove DEF ToggleInv
  <2>. QED
    BY <1>1, <1>2, <1>5, <2>1, CommandMove, ProgressMove DEF BusyInv
<1>. QED
  BY <1>3, <1>4, <1>5

LEMMA FailClosedReloadProgress ==
    ASSUME TypeOK, RestoreInv, Undisturbed, Faults = {}, NEW p \in Procs, FailClosedReload(p)
    PROVE  Progress'
<1> USE DEF DnsPCs, FcPCs
<1>1. /\ Progress /\ Busy(p) /\ BusyInv(p)
      /\ pc[p] = "fc_reload"
      /\ pc' = [pc EXCEPT ![p] = AfterFC(p)]
      /\ live' = Reload(live, cfg)
      /\ UNCHANGED <<cfg, rec, op, loc, intent, history>>
  BY DEF RestoreInv, Progress, FailClosedReload, Fails, Goto, Busy, BusyPCs, store, ghost
<1>2. SavedIsPosture' /\ CutHasRecord' /\ Base' = Base
  BY <1>1 DEF Progress, SavedIsPosture, CutHasRecord, Base
<1>3. op[p] \in {"exit", "ksOn", "ksOff", "dnsOn"}
  BY <1>1 DEF RestoreInv, OpsMatch, OpOfPc
<1>4. AfterFC(p) \in BusyPCs
  BY DEF AfterFC, BusyPCs, ExitPCs, TogglePCs
<1>5. pc'[p] = AfterFC(p)
  BY <1>1 DEF TypeOK
<1>6. ASSUME "doh" \in cfg <=> "doh" \in live
      PROVE  live' = cfg
  <2>1. cfg \in SUBSET Sections /\ Reload(live, cfg) \in SUBSET Sections
    BY DEF TypeOK, Reload
  <2>. QED
    BY <1>1, <1>6, <2>1, SectionsEqual DEF Reload
<1>7. CASE op[p] = "exit"
  <2>1. /\ "lanwan" \notin cfg /\ "ks" \in intent /\ "dns" \in intent
        /\ "doh" \in cfg /\ "dns53" \in cfg /\ "dnsks" \in cfg /\ "doh" \in live
    BY <1>1, <1>7 DEF BusyInv, ExitInv
  <2>2. cfg = Target(intent)
    BY <2>1, SectionsEqual, TargetSections DEF TypeOK
  <2>3. live' = cfg
    BY <1>6, <2>1
  <2>4. PausedRouter' /\ ExitInv(p)'
    BY <1>1, <1>5, <1>7, <2>1, <2>2, <2>3
    DEF BusyInv, ExitInv, PausedRouter, DnsSections, AfterFC
  <2>. QED
    BY <1>1, <1>2, <1>4, <1>7, <2>4, ProgressMove DEF BusyInv
<1>8. CASE op[p] \in {"ksOn", "ksOff", "dnsOn"}
  <2>1. rec = NoRec \/ history = "clean" => ToggleInv(p)'
    BY <1>1, <1>2, <1>5, <1>6, <1>8 DEF BusyInv, ToggleInv, AfterFC
  <2>. QED
    BY <1>1, <1>2, <1>4, <1>8, <2>1, ProgressMove DEF BusyInv
<1>. QED
  BY <1>3, <1>7, <1>8

LEMMA ServiceProgress ==
    ASSUME TypeOK, RestoreInv, Undisturbed, Faults = {}, NEW p \in Procs, Service(p)
    PROVE  Progress'
BY KillSwitchProgress, FlushProgress, EnableProgress, DisableProgress, RestartProgress,
   ReloadProgress, FailClosedProgress, FailClosedReloadProgress
DEF Service

LEMMA EnterProgress ==
    ASSUME TypeOK, RestoreInv, Undisturbed, Faults = {}, NEW p \in Procs, Enter(p)
    PROVE  Progress'
<1> USE DEF router, store, ghost
<1>1. /\ Progress /\ Busy(p) /\ op[p] = "enter" /\ EnterInv(p) /\ ~Fails(p) /\ p \notin cancelled
  BY DEF RestoreInv, Progress, OpsMatch, OpOfPc, Enter, EnterRead, EnterQueryKS, EnterQueryDNS,
         EnterSave, EnterDown, EnterDone, Busy, BusyPCs, EnterPCs, BusyInv, Fails
<1>2. {"e_ks", "e_dns", "e_save", "e_down", "ks_script"} \subseteq BusyPCs /\ "ret" \notin BusyPCs
  BY DEF BusyPCs, EnterPCs, ExitPCs, KsPCs, DnsPCs, FcPCs, TogglePCs
<1>3. rec # NoRec => rec.saved = intent
  BY <1>1 DEF Progress, SavedIsPosture, Undisturbed
<1>4. rec \in PortalRecord \cup {NoRec} /\ loc[p] \in PortalRecord
      /\ intent \in SUBSET {"ks", "dns"}
  BY DEF TypeOK
<1>5. ASSUME UNCHANGED <<cfg, live, rec, intent, history>>
      PROVE  /\ SavedIsPosture' /\ CutHasRecord'
             /\ Idle' <=> Idle
             /\ Settled' <=> Settled
             /\ PausedRouter' <=> PausedRouter
  BY <1>1, <1>5 DEF Progress, SavedIsPosture, CutHasRecord, Idle, Settled, PausedRouter, Base
<1>6. CASE EnterRead(p)
  <2>1. /\ UNCHANGED <<cfg, live, rec, intent, history, op>> /\ pc[p] = "e_read"
        /\ pc' = [pc EXCEPT ![p] = IF rec = NoRec THEN "e_ks" ELSE "e_save"]
        /\ pc'[p] = IF rec = NoRec THEN "e_ks" ELSE "e_save"
    BY <1>6 DEF ReadFails, EnterRead, Query, Goto, TypeOK
  <2>2. rec # NoRec => loc'[p].saved = rec.saved
    BY <1>4, <1>6 DEF ReadFails, EnterRead, TypeOK, PortalRecord
  <2>3. EnterInv(p)'
    BY <1>1, <1>3, <1>5, <2>1, <2>2 DEF EnterInv, Idle
  <2>. QED
    BY <1>1, <1>2, <1>5, <2>1, <2>3, ProgressMove DEF BusyInv
<1>7. CASE EnterQueryKS(p)
  <2>1. /\ UNCHANGED <<cfg, live, rec, intent, history, op>> /\ pc[p] = "e_ks"
        /\ pc' = [pc EXCEPT ![p] = "e_dns"] /\ pc'[p] = "e_dns"
    BY <1>7 DEF EnterQueryKS, Query, Goto, TypeOK
  <2>2. Posture(cfg) = intent
    BY <1>1, <1>4, <2>1, TargetSections DEF EnterInv, Settled, Base
  <2>3. loc'[p].saved = intent \cap {"ks"}
    BY <1>1, <1>4, <1>7, <2>2 DEF EnterQueryKS, TypeOK, PortalRecord
  <2>4. EnterInv(p)'
    BY <1>1, <1>5, <2>1, <2>3 DEF EnterInv
  <2>. QED
    BY <1>1, <1>2, <1>5, <2>1, <2>4, ProgressMove DEF BusyInv
<1>8. CASE EnterQueryDNS(p)
  <2>1. /\ UNCHANGED <<cfg, live, rec, intent, history, op>> /\ pc[p] = "e_dns"
        /\ pc' = [pc EXCEPT ![p] = "e_save"] /\ pc'[p] = "e_save"
    BY <1>8 DEF EnterQueryDNS, Query, Goto, TypeOK
  <2>2. Posture(cfg) = intent
    BY <1>1, <1>4, <2>1, TargetSections DEF EnterInv, Settled, Base
  <2>3. loc'[p].saved = (intent \cap {"ks"}) \cup (intent \cap {"dns"})
    BY <1>1, <1>4, <1>8, <2>1, <2>2 DEF EnterQueryDNS, TypeOK, PortalRecord, EnterInv
  <2>4. loc'[p].saved = intent
    BY <1>4, <2>3
  <2>5. EnterInv(p)'
    BY <1>1, <1>5, <2>1, <2>4 DEF EnterInv, Idle
  <2>. QED
    BY <1>1, <1>2, <1>5, <2>1, <2>5, ProgressMove DEF BusyInv
<1>9. CASE EnterSave(p)
  <2> DEFINE new == [loc[p] EXCEPT !.left = Window]
  <2>0. new \in PortalRecord /\ new # NoRec
    BY <1>1, <1>2, RecAssumption, WindowAssumption DEF PortalRecord, TypeOK
  <2>1. /\ UNCHANGED <<cfg, live, intent, history, op>> /\ pc[p] = "e_save"
        /\ pc' = [pc EXCEPT ![p] = "e_down"] /\ pc'[p] = "e_down"
        /\ rec' = [loc[p] EXCEPT !.left = Window]
        /\ loc'[p] = [loc[p] EXCEPT !.left = Window]
    BY <1>9, <2>0 DEF EnterSave, Goto, TypeOK, router
  <2>2. rec' # NoRec /\ rec'.saved = intent /\ loc'[p].saved = intent
    BY <1>1, <1>4, <2>1, RecAssumption, WindowAssumption DEF EnterInv, PortalRecord
  <2>3. PausedRouter
    <3>1. CASE rec # NoRec
      BY <1>1, <2>1, <3>1 DEF EnterInv, Idle
    <3>2. CASE rec = NoRec
      BY <1>1, <1>4, <2>1, <3>2, TargetSections
      DEF EnterInv, Idle, Settled, Base, PausedRouter, DnsSections
    <3>. QED
      BY <3>1, <3>2
  <2>4. PausedRouter' /\ SavedIsPosture' /\ CutHasRecord'
    BY <2>1, <2>2, <2>3 DEF PausedRouter, SavedIsPosture, CutHasRecord
  <2>5. EnterInv(p)'
    BY <2>1, <2>2, <2>4 DEF EnterInv
  <2>. QED
    BY <1>1, <1>2, <2>1, <2>4, <2>5, ProgressMove DEF BusyInv
<1>10. CASE EnterDown(p)
  <2> DEFINE l == IF "ks" \in loc[p].saved THEN "ks_script" ELSE AfterKS(p)
  <2>1. /\ UNCHANGED <<cfg, live, rec, loc, intent, history, op>> /\ pc[p] = "e_down"
        /\ pc' = [pc EXCEPT ![p] = l] /\ pc'[p] = l
    BY <1>10 DEF EnterDown, Goto, TypeOK
  <2>2. l \in BusyPCs
    BY <1>2 DEF AfterKS, BusyPCs, EnterPCs, ExitPCs, DnsPCs, TogglePCs
  <2>3. rec # NoRec /\ loc[p].saved = intent /\ PausedRouter
    BY <1>1, <2>1 DEF EnterInv
  <2>4. l = IF "ks" \in intent THEN "ks_script" ELSE IF "dns" \in intent THEN "dis_dhcp" ELSE "e_end"
    BY <1>1, <2>3 DEF AfterKS
  <2>5. "ks" \notin intent /\ "dns" \notin intent => cfg = Target({}) /\ live = cfg
    BY <2>3, TargetSections, SectionsEqual DEF TypeOK, PausedRouter, DnsSections
  <2> HIDE DEF l
  <2>6. EnterInv(p)'
    BY <1>5, <2>1, <2>3, <2>4, <2>5 DEF EnterInv, PausedRouter
  <2>. QED
    BY <1>1, <1>5, <2>1, <2>2, <2>6, ProgressMove DEF BusyInv
<1>11. CASE EnterDone(p)
  <2>1. /\ UNCHANGED <<cfg, live, rec, intent>> /\ pc[p] = "e_end"
        /\ pc' = [pc EXCEPT ![p] = "ret"]
        /\ history' = IF history = "cut" THEN "clean" ELSE history
    BY <1>11 DEF EnterDone, Goto
  <2>2. rec # NoRec /\ PausedRouter /\ cfg = Target({}) /\ live = cfg
    BY <1>1, <2>1 DEF EnterInv
  <2>3. Idle' /\ SavedIsPosture' /\ CutHasRecord'
    BY <1>3, <2>1, <2>2
    DEF Idle, Settled, Base, PausedRouter, SavedIsPosture, CutHasRecord, Undisturbed
  <2>. QED
    BY <1>1, <1>2, <2>1, <2>3, ProgressMove
<1>. QED
  BY <1>6, <1>7, <1>8, <1>9, <1>10, <1>11 DEF Enter

LEMMA ExitProgress ==
    ASSUME TypeOK, RestoreInv, Undisturbed, Faults = {}, NEW p \in Procs, Exit(p)
    PROVE  Progress'
<1> USE DEF router, store, ghost
<1>1. Progress /\ Busy(p) /\ op[p] = "exit" /\ ExitInv(p)
  BY DEF RestoreInv, Progress, OpsMatch, OpOfPc, Exit, ExitRead, ExitUp, ExitClear, Busy, BusyPCs,
         ExitPCs, BusyInv
<1>2. {"x_up", "ks_script"} \subseteq BusyPCs /\ "ret" \notin BusyPCs
  BY DEF BusyPCs, EnterPCs, ExitPCs, KsPCs, DnsPCs, FcPCs, TogglePCs
<1>3. rec # NoRec => rec.saved = intent
  BY <1>1 DEF Progress, SavedIsPosture, Undisturbed
<1>4. ASSUME UNCHANGED <<cfg, live, rec, intent, history>>
      PROVE  /\ SavedIsPosture' /\ CutHasRecord'
             /\ Idle' <=> Idle
             /\ PausedRouter' <=> PausedRouter
  BY <1>1, <1>4 DEF Progress, SavedIsPosture, CutHasRecord, Idle, Settled, PausedRouter, Base
<1>5. CASE ExitRead(p)
  <2> DEFINE l == IF rec = NoRec THEN "ret" ELSE "x_up"
  <2>1. /\ UNCHANGED <<cfg, live, rec, intent, history, op>> /\ pc[p] = "x_read"
        /\ pc' = [pc EXCEPT ![p] = l] /\ pc'[p] = l
        /\ rec # NoRec => loc'[p] = rec
    BY <1>5 DEF ReadFails, ExitRead, Query, Goto, TypeOK
  <2>2. Idle
    BY <1>1, <2>1 DEF ExitInv
  <2>3. rec # NoRec => ExitInv(p)'
    BY <1>3, <1>4, <2>1, <2>2 DEF ExitInv, Idle, DnsPCs, FcPCs
  <2>. QED
    BY <1>1, <1>2, <1>4, <2>1, <2>2, <2>3, ProgressMove DEF BusyInv
<1>6. CASE ExitUp(p)
  <2> DEFINE l == IF "ks" \in loc[p].saved THEN "ks_script" ELSE AfterKS(p)
  <2>1. /\ UNCHANGED <<cfg, live, rec, loc, intent, history, op>> /\ pc[p] = "x_up"
        /\ pc' = [pc EXCEPT ![p] = l] /\ pc'[p] = l
    BY <1>6 DEF ExitUp, Goto, TypeOK
  <2>2. l \in BusyPCs
    BY <1>2 DEF AfterKS, BusyPCs, EnterPCs, ExitPCs, DnsPCs, TogglePCs
  <2>3. rec # NoRec /\ loc[p].saved = intent /\ PausedRouter
    BY <1>1, <2>1 DEF ExitInv
  <2>4. l = IF "ks" \in intent THEN "ks_script" ELSE IF "dns" \in intent THEN "en_dhcp" ELSE "x_del"
    BY <1>1, <2>3 DEF AfterKS
  <2>5. "ks" \notin intent /\ "dns" \notin intent => cfg = Target(intent) /\ live = cfg
    BY <2>3, TargetSections, SectionsEqual DEF TypeOK, PausedRouter, DnsSections
  <2> HIDE DEF l
  <2>6. ExitInv(p)'
    BY <1>4, <2>1, <2>3, <2>4, <2>5 DEF ExitInv, DnsPCs, FcPCs
  <2>. QED
    BY <1>1, <1>4, <2>1, <2>2, <2>6, ProgressMove DEF BusyInv
<1>7. CASE ExitClear(p)
  <2>1. /\ UNCHANGED <<cfg, live, intent>> /\ pc[p] = "x_del" /\ rec' = NoRec
        /\ pc' = [pc EXCEPT ![p] = "ret"]
        /\ history' = IF history = "cut" THEN "clean" ELSE history
    BY <1>7 DEF ExitClear, Goto
  <2>2. cfg = Target(intent) /\ live = cfg
    BY <1>1, <2>1 DEF ExitInv
  <2>3. Idle' /\ SavedIsPosture' /\ CutHasRecord'
    BY <2>1, <2>2 DEF Idle, Settled, Base, SavedIsPosture, CutHasRecord
  <2>. QED
    BY <1>1, <1>2, <2>1, <2>3, ProgressMove
<1>. QED
  BY <1>5, <1>6, <1>7 DEF Exit

LEMMA ToggleProgress ==
    ASSUME TypeOK, RestoreInv, Undisturbed, Faults = {}, NEW p \in Procs, Toggle(p), Undisturbed'
    PROVE  Progress'
<1> USE DEF router, store, ghost
<1>1. /\ Progress /\ Busy(p) /\ BusyInv(p) /\ ~Fails(p) /\ p \notin cancelled
      /\ OpOfPc(op[p], pc[p])
      /\ op[p] \in {"ksOn", "ksOff", "dnsOn", "dnsOff"}
      /\ ~SetAP(p) /\ ~ApplyDNSDefault(p) /\ pc[p] # "ap_mark"
  BY DEF RestoreInv, Progress, OpsMatch, OpOfPc, Toggle, KillSwitchAskDNS, DnsAskKS, DnsMark,
         CancelRead, CancelDelete, SetAP, ApplyDNSDefault, Busy, BusyPCs, TogglePCs, Fails
<1>2. {"fc_cfg", "c_read", "c_del", "d_mark"} \subseteq BusyPCs /\ "ret" \notin BusyPCs
  BY DEF BusyPCs, EnterPCs, ExitPCs, KsPCs, DnsPCs, FcPCs, TogglePCs
<1>3. rec = NoRec \/ history = "clean" => ToggleInv(p)
  BY <1>1 DEF BusyInv
<1>4. ASSUME UNCHANGED <<cfg, live, rec, intent, history>>
      PROVE  SavedIsPosture' /\ CutHasRecord' /\ Base' = Base
  BY <1>1, <1>4 DEF Progress, SavedIsPosture, CutHasRecord, Base
<1>5. Base \in SUBSET {"ks", "dns"} /\ Toggled(Base, op[p]) \in SUBSET {"ks", "dns"}
      /\ intent \in SUBSET {"ks", "dns"} /\ cfg \in SUBSET Sections
  BY BaseType DEF TypeOK
<1>6. CASE KillSwitchAskDNS(p)
  <2> DEFINE l == IF "dns" \in Posture(cfg) THEN "fc_cfg" ELSE "c_read"
  <2>1. /\ UNCHANGED <<cfg, live, rec, loc, intent, history, op>> /\ pc[p] = "k_dnsq"
        /\ pc' = [pc EXCEPT ![p] = l] /\ pc'[p] = l
    BY <1>1, <1>6 DEF KillSwitchAskDNS, Query, Goto, TypeOK
  <2>2. l = IF "doh" \in cfg THEN "fc_cfg" ELSE "c_read"
    BY DEF Posture
  <2>3. op[p] \in {"ksOn", "ksOff"}
    BY <1>1, <2>1 DEF OpOfPc
  <2> HIDE DEF l
  <2>4. ASSUME rec = NoRec \/ history = "clean"
        PROVE  ToggleInv(p)'
    <3>1. /\ op[p] = "ksOn" => cfg = Target(Base) \ {"lanwan"}
          /\ op[p] = "ksOff" => cfg = Target(Base) \cup {"lanwan"}
          /\ live = cfg
      BY <1>3, <2>1, <2>3, <2>4 DEF ToggleInv
    <3>2. "doh" \in cfg <=> "dns" \in Base
      BY <1>5, <2>3, <3>1, TargetSections
    <3>3. ASSUME op[p] = "ksOn", "doh" \notin cfg
          PROVE  cfg = Target(Toggled(Base, op[p]))
      <4>1. Toggled(Base, op[p]) = Base \cup {"ks"}
        BY <3>3 DEF Toggled
      <4>. QED
        BY <1>5, <3>1, <3>2, <3>3, <4>1, TargetSections, SectionsEqual
    <3>4. ASSUME op[p] = "ksOff", "doh" \notin cfg
          PROVE  cfg = Target(Toggled(Base, op[p]))
      <4>1. Toggled(Base, op[p]) = Base \ {"ks"}
        BY <3>4 DEF Toggled
      <4>. QED
        BY <1>5, <3>1, <3>2, <3>4, <4>1, TargetSections, SectionsEqual
    <3>. QED
      BY <1>4, <2>1, <2>2, <2>3, <3>1, <3>2, <3>3, <3>4 DEF ToggleInv
  <2>. QED
    BY <1>1, <1>2, <1>4, <2>1, <2>2, <2>4, ProgressMove DEF BusyInv
<1>7. CASE DnsAskKS(p)
  <2> DEFINE l == IF "ks" \in Posture(cfg) THEN "fc_cfg" ELSE "d_mark"
  <2>1. /\ UNCHANGED <<cfg, live, rec, loc, intent, history, op>> /\ pc[p] = "d_ksq"
        /\ pc' = [pc EXCEPT ![p] = l] /\ pc'[p] = l
    BY <1>1, <1>7 DEF DnsAskKS, Query, Goto, TypeOK
  <2>2. l = IF "lanwan" \notin cfg THEN "fc_cfg" ELSE "d_mark"
    BY DEF Posture
  <2>3. op[p] = "dnsOn"
    BY <1>1, <2>1 DEF OpOfPc
  <2> HIDE DEF l
  <2>4. ASSUME rec = NoRec \/ history = "clean"
        PROVE  ToggleInv(p)'
    <3>1. cfg = Target(Base) \cup {"doh", "dns53"} /\ live = cfg
      BY <1>3, <2>1, <2>3, <2>4 DEF ToggleInv
    <3>2. "lanwan" \notin cfg <=> "ks" \in Base
      BY <1>5, <3>1, TargetSections
    <3>3. Toggled(Base, op[p]) = Base \cup {"dns"}
      BY <2>3 DEF Toggled
    <3>4. "lanwan" \in cfg => cfg = Target(Toggled(Base, op[p]))
      BY <1>5, <3>1, <3>2, <3>3, TargetSections, SectionsEqual
    <3>. QED
      BY <1>4, <2>1, <2>2, <2>3, <3>1, <3>2, <3>4 DEF ToggleInv
  <2>. QED
    BY <1>1, <1>2, <1>4, <2>1, <2>2, <2>4, ProgressMove DEF BusyInv
<1>8. CASE DnsMark(p)
  <2>1. /\ UNCHANGED <<cfg, live, rec, loc, intent, history, op>> /\ pc[p] = "d_mark"
        /\ pc' = [pc EXCEPT ![p] = "c_read"] /\ pc'[p] = "c_read"
    BY <1>1, <1>8 DEF DnsMark, Goto, TypeOK
  <2>2. rec = NoRec \/ history = "clean" => ToggleInv(p)'
    BY <1>3, <1>4, <2>1 DEF ToggleInv
  <2>. QED
    BY <1>1, <1>2, <1>4, <2>1, <2>2, ProgressMove DEF BusyInv
<1>9. CASE CancelRead(p)
  <2>1. /\ UNCHANGED <<cfg, live, rec, loc, history, op>> /\ pc[p] = "c_read"
        /\ intent' = IF rec = NoRec THEN Toggled(intent, op[p]) ELSE intent
        /\ pc' = [pc EXCEPT ![p] = IF rec = NoRec THEN "ret" ELSE "c_del"]
        /\ pc'[p] = IF rec = NoRec THEN "ret" ELSE "c_del"
    BY <1>9 DEF ReadFails, CancelRead, Goto, TypeOK
  <2>2. CASE rec = NoRec
    <3>1. cfg = Target(intent') /\ live = cfg
      BY <1>3, <2>1, <2>2 DEF ToggleInv, Base
    <3>2. Idle' /\ SavedIsPosture' /\ CutHasRecord'
      BY <1>1, <2>1, <2>2, <3>1
      DEF Idle, Settled, Base, SavedIsPosture, CutHasRecord, Progress
    <3>. QED
      BY <1>1, <1>2, <2>1, <2>2, <3>2, ProgressMove
  <2>3. CASE rec # NoRec
    <3>1. intent' = intent /\ pc'[p] = "c_del" /\ pc' = [pc EXCEPT ![p] = "c_del"]
      BY <2>1, <2>3
    <3>2. history = "clean" => ToggleInv(p)'
      BY <1>3, <1>4, <2>1, <3>1 DEF ToggleInv
    <3>. QED
      BY <1>1, <1>2, <1>4, <2>1, <2>3, <3>1, <3>2, ProgressMove DEF BusyInv
  <2>. QED
    BY <2>2, <2>3
<1>10. CASE CancelDelete(p)
  <2>1. /\ UNCHANGED <<cfg, live>> /\ pc[p] = "c_del" /\ rec' = NoRec
        /\ intent' = Posture(cfg) /\ history = "clean" /\ history' = "clean"
        /\ pc' = [pc EXCEPT ![p] = "ret"]
    BY <1>10 DEF CancelDelete, TakesOver, Goto, Undisturbed
  <2>2. cfg = Target(Toggled(Base, op[p])) /\ live = cfg
    BY <1>3, <2>1 DEF ToggleInv
  <2>3. intent' = Toggled(Base, op[p])
    BY <1>5, <2>1, <2>2, TargetSections
  <2>4. Idle' /\ SavedIsPosture' /\ CutHasRecord'
    BY <2>1, <2>2, <2>3 DEF Idle, Settled, Base, SavedIsPosture, CutHasRecord
  <2>. QED
    BY <1>1, <1>2, <2>1, <2>4, ProgressMove
<1>. QED
  BY <1>1, <1>6, <1>7, <1>8, <1>9, <1>10 DEF Toggle

-----------------------------------------------------------------------------
(* Steps outside the handlers of PostureOps *)

\* What is known of a handler depends on its step, its record and the router.
LEMMA SameStep ==
    ASSUME NEW q \in Procs, pc'[q] = pc[q], op'[q] = op[q], loc'[q].saved = loc[q].saved,
           UNCHANGED <<cfg, live, intent, history>>, rec' = NoRec <=> rec = NoRec
    PROVE  BusyInv(q)' <=> BusyInv(q)
<1>1. Base' = Base
  BY DEF Base
<1>2. /\ Settled' <=> Settled
      /\ PausedRouter' <=> PausedRouter
  BY <1>1 DEF Settled, PausedRouter
<1>3. Idle' <=> Idle
  BY <1>2 DEF Idle
<1>4. EnterInv(q)' <=> EnterInv(q)
  BY <1>2, <1>3 DEF EnterInv
<1>5. ExitInv(q)' <=> ExitInv(q)
  BY <1>2, <1>3 DEF ExitInv
<1>6. ToggleInv(q)' <=> ToggleInv(q)
  BY <1>1, <1>2 DEF ToggleInv
<1>. QED
  BY <1>4, <1>5, <1>6 DEF BusyInv

\* A step that neither touches the router nor moves a busy process.
LEMMA ProgressAside ==
    ASSUME Progress, Undisturbed,
           UNCHANGED <<cfg, live, intent, history>>, rec' = NoRec <=> rec = NoRec,
           rec # NoRec => rec'.saved = rec.saved,
           \A q \in Procs : /\ Busy(q)' <=> Busy(q)
                            /\ Busy(q) => /\ pc'[q] = pc[q] /\ op'[q] = op[q]
                                          /\ loc'[q].saved = loc[q].saved
    PROVE  Progress'
<1>1. OneBusy'
  BY DEF OneBusy, Progress
<1>2. SavedIsPosture' /\ CutHasRecord'
  BY DEF SavedIsPosture, CutHasRecord, Progress
<1>3. (Quiet => Idle)'
  <2>1. Idle' <=> Idle
    BY DEF Idle, Settled, Base, PausedRouter
  <2>. QED
    BY <2>1 DEF Quiet, Progress
<1>4. (\A q \in Procs : Busy(q) => BusyInv(q))'
  <2> SUFFICES ASSUME NEW q \in Procs, Busy(q)' PROVE BusyInv(q)'
    OBVIOUS
  <2>. QED
    BY SameStep DEF Progress
<1>. QED
  BY <1>1, <1>2, <1>3, <1>4 DEF Progress

\* An idle process moves between steps that belong to no handler of PostureOps.
LEMMA MoveAside ==
    ASSUME TypeOK, Progress, Undisturbed, NEW p \in Procs, ~Busy(p), NEW l, l \notin BusyPCs,
           pc' = [pc EXCEPT ![p] = l],
           \A q \in Procs : q # p => op'[q] = op[q] /\ loc'[q] = loc[q],
           UNCHANGED <<cfg, live, rec, intent, history>>
    PROVE  Progress'
<1>1. \A q \in Procs : pc'[q] = IF q = p THEN l ELSE pc[q]
  BY DEF TypeOK
<1>2. \A q \in Procs : Busy(q) => q # p
  OBVIOUS
<1>3. \A q \in Procs : Busy(q)' <=> Busy(q)
  BY <1>1 DEF Busy
<1>4. \A q \in Procs : Busy(q) => /\ pc'[q] = pc[q] /\ op'[q] = op[q]
                                  /\ loc'[q].saved = loc[q].saved
  BY <1>1, <1>2
<1>. QED
  BY <1>3, <1>4, ProgressAside

\* A handler that begins undisturbed finds nobody else under way.
LEMMA BeginProgress ==
    ASSUME TypeOK, Progress, Undisturbed, NEW p \in Procs, ~Busy(p),
           NEW o \in AllOps \ {"ap"}, NEW r, r.saved = {}, Begin(p, o, r),
           UNCHANGED <<cfg, live, rec, intent>>, Undisturbed'
    PROVE  Progress'
<1>1. /\ pc' = [pc EXCEPT ![p] = First(o)] /\ pc'[p] = First(o)
      /\ op'[p] = o /\ loc'[p].saved = {}
      /\ \A q \in Procs : q # p => op'[q] = op[q] /\ loc'[q] = loc[q]
  BY DEF Begin, Goto, TypeOK
<1>2. CASE o \notin PostureOps
  <2>1. First(o) \notin BusyPCs
    BY <1>2 DEF First, AllOps, PostureOps, BusyPCs, EnterPCs, ExitPCs, KsPCs, DnsPCs, FcPCs,
                TogglePCs
  <2>2. history' = history
    BY <1>2 DEF Begin
  <2>. QED
    BY <1>1, <2>1, <2>2, MoveAside
<1>3. CASE o \in PostureOps
  <2>1. history' = history /\ \A q \in Procs \ {p} : ~Busy(q)
    BY <1>3 DEF Begin, Overlap, Undisturbed
  <2>2. Quiet
    BY <2>1 DEF Quiet
  <2>3. Idle
    BY <2>2 DEF Progress
  <2>4. /\ Idle' /\ SavedIsPosture' /\ CutHasRecord'
        /\ rec = NoRec \/ history = "clean" => Settled'
    BY <2>1, <2>3
    DEF Idle, Settled, PausedRouter, Base, Progress, SavedIsPosture, CutHasRecord
  <2>5. First(o) \in BusyPCs
    BY <1>3 DEF First, PostureOps, BusyPCs, EnterPCs, ExitPCs, KsPCs, DnsPCs, TogglePCs
  <2>6. CASE o = "enter"
    <3>1. pc'[p] = "e_read"
      BY <1>1, <2>6 DEF First
    <3>2. EnterInv(p)'
      BY <1>1, <2>4, <3>1 DEF EnterInv
    <3>. QED
      BY <1>1, <2>2, <2>4, <2>6, <3>2, ProgressMove DEF BusyInv
  <2>7. CASE o = "exit"
    <3>1. pc'[p] = "x_read"
      BY <1>1, <2>7 DEF First
    <3>2. ExitInv(p)'
      BY <1>1, <2>4, <3>1 DEF ExitInv, DnsPCs, FcPCs
    <3>. QED
      BY <1>1, <2>2, <2>4, <2>7, <3>2, ProgressMove DEF BusyInv
  <2>8. CASE o \in {"ksOn", "ksOff", "dnsOn", "dnsOff"}
    <3>1. pc'[p] \in {"ks_script", "en_dhcp", "dis_dhcp"}
      BY <1>1, <2>8 DEF First
    <3>2. rec = NoRec \/ history = "clean" => ToggleInv(p)'
      BY <1>1, <2>4, <3>1 DEF ToggleInv
    <3>. QED
      BY <1>1, <2>1, <2>2, <2>4, <2>8, <3>2, ProgressMove DEF BusyInv
  <2>. QED
    BY <1>3, <2>6, <2>7, <2>8 DEF PostureOps
<1>. QED
  BY <1>2, <1>3

\* What a restart finds in the middle of a pause or a restore.
LEMMA BusyRouter ==
    ASSUME TypeOK, Progress, NEW p \in Procs, Busy(p), op[p] \in {"enter", "exit"}
    PROVE  /\ rec = NoRec => Settled
           /\ rec # NoRec => PausedRouter
BY DEF Progress, BusyInv, EnterInv, ExitInv, Idle, Settled

\* Restarts and reboots, in the middle of a handler or not.
LEMMA KilledProgress ==
    ASSUME TypeOK, Progress, Undisturbed, Crash \/ Reboot, Undisturbed'
    PROVE  Progress'
<1>1. Killed /\ cfg' = cfg /\ live' \in {live, cfg} /\ UNCHANGED <<rec, intent>>
  BY DEF Crash, Reboot, Killed, store
<1>2. \A p \in Procs : Busy(p) => op[p] \in {"enter", "exit"}
  BY <1>1 DEF Killed, Undisturbed
<1>3. history' = IF rec # NoRec /\ ~Quiet /\ history = "clean" THEN "cut" ELSE history
  BY <1>1, <1>2 DEF Killed
<1>4. \A p \in Procs : ~Busy(p)'
  BY <1>1 DEF Killed, Busy, Rest, BusyPCs, EnterPCs, ExitPCs, KsPCs, DnsPCs, FcPCs, TogglePCs
<1>5. SavedIsPosture' /\ CutHasRecord'
  BY <1>1, <1>3 DEF Progress, SavedIsPosture, CutHasRecord, Undisturbed
<1>6. /\ rec = NoRec => Settled
      /\ rec # NoRec => PausedRouter
  <2>1. CASE Quiet
    BY <2>1 DEF Progress, Idle
  <2>2. CASE ~Quiet
    BY <1>2, <2>2, BusyRouter DEF Quiet
  <2>. QED
    BY <2>1, <2>2
<1>7. Idle'
  <2>1. rec # NoRec => PausedRouter'
    BY <1>1, <1>6 DEF PausedRouter
  <2>2. rec = NoRec => Settled'
    BY <1>1, <1>6 DEF Settled, Base
  <2>3. ASSUME rec # NoRec, history' = "clean"
        PROVE  Settled'
    <3>1. Quiet /\ history = "clean"
      BY <1>3, <2>3
    <3>. QED
      BY <1>1, <3>1 DEF Progress, Idle, Settled, Base
  <2>. QED
    BY <1>1, <2>1, <2>2, <2>3 DEF Idle
<1>. QED
  BY <1>4, <1>5, <1>7 DEF Progress, OneBusy, Quiet

\* The watch goroutine saves, calls enterPortalMode or exitPortalMode, or moves on.
LEMMA WatchKinds ==
    ASSUME TypeOK, Watching
    PROVE  /\ Watch \in Procs /\ ~Busy(Watch) /\ WatchPCs \cap BusyPCs = {}
           /\ \/ WatchSave
              \/ /\ UNCHANGED <<cfg, live, wg, flows, rec, intent>>
                 /\ \E o \in {"enter", "exit"}, u \in Urls \cup {NoUrl} :
                       Begin(Watch, o, [EmptyRec EXCEPT !.url = u])
              \/ /\ UNCHANGED <<cfg, live, wg, flows, rec, intent, op, history>>
                 /\ \E l \in WatchPCs : pc' = [pc EXCEPT ![Watch] = l]
                 /\ \A q \in Procs : q # Watch => loc'[q] = loc[q]
<1> USE DEF router, store, Goto
<1>1. Watch \in Procs /\ pc[Watch] \in WatchPCs
  BY DEF Watching, WatchLoop, WatchIdle, WatchProbeOnline, WatchProbeNewUrl, WatchProbeSame,
         WatchSave, WatchWait, ScoutCheck, ScoutCaptive, ScoutOther, ScoutSleep, WatchPCs
<1>2. WatchPCs \cap BusyPCs = {}
  BY DEF WatchPCs, BusyPCs, EnterPCs, ExitPCs, KsPCs, DnsPCs, FcPCs, TogglePCs
<1>3. ~Busy(Watch)
  BY <1>1, <1>2 DEF Busy
<1>4. EmptyRec = [EmptyRec EXCEPT !.url = NoUrl]
  BY DEF EmptyRec
<1>5. ASSUME Begin(Watch, "exit", EmptyRec)
      PROVE  \E o \in {"enter", "exit"}, u \in Urls \cup {NoUrl} :
                 Begin(Watch, o, [EmptyRec EXCEPT !.url = u])
  BY <1>4, <1>5
<1>6. ASSUME ~WatchSave
      PROVE  UNCHANGED <<cfg, live, wg, flows, rec, intent>>
  BY <1>6 DEF Watching, WatchLoop, WatchIdle, WatchProbeOnline, WatchProbeNewUrl,
         WatchProbeSame, WatchWait, ScoutCheck, ScoutCaptive, ScoutOther, ScoutSleep, Silent
<1>7. ASSUME ~WatchSave
      PROVE  \/ \E o \in {"enter", "exit"}, u \in Urls \cup {NoUrl} :
                   Begin(Watch, o, [EmptyRec EXCEPT !.url = u])
             \/ /\ \E l \in WatchPCs : pc' = [pc EXCEPT ![Watch] = l]
                /\ op' = op /\ history' = history
                /\ \A q \in Procs : q # Watch => loc'[q] = loc[q]
  <2>1. CASE WatchLoop
    BY <1>5, <2>1 DEF WatchLoop, WatchPCs, TypeOK
  <2>2. CASE WatchProbeOnline
    BY <1>5, <2>2 DEF WatchProbeOnline
  <2>3. CASE ScoutCaptive
    BY <2>3 DEF ScoutCaptive
  <2>4. CASE WatchIdle \/ WatchProbeSame \/ ScoutCheck \/ ScoutOther \/ ScoutSleep
    BY <2>4 DEF WatchIdle, WatchProbeSame, ScoutCheck, ScoutOther, ScoutSleep, WatchPCs
  <2>5. CASE WatchProbeNewUrl \/ WatchWait
    BY <2>5 DEF WatchProbeNewUrl, WatchWait, WatchPCs, TypeOK
  <2>. QED
    BY <1>7, <2>1, <2>2, <2>3, <2>4, <2>5 DEF Watching
<1>. QED
  BY <1>1, <1>2, <1>3, <1>6, <1>7

\* Undisturbed, the watch saves a record of the same posture while nobody is busy.
LEMMA WatchSaveAside ==
    ASSUME TypeOK, Faults = {}, WatchSave, Undisturbed'
    PROVE  /\ UNCHANGED <<cfg, live, wg, flows, intent, history, op, loc>>
           /\ rec # NoRec /\ rec' # NoRec /\ rec'.saved = rec.saved
           /\ \A q \in Procs : ~Busy(q) /\ ~Busy(q)'
<1>1. /\ rec # NoRec /\ rec.saved = loc[Watch].saved /\ \A c \in Clients : ~Busy(c)
      /\ rec' = loc[Watch] /\ pc' = [pc EXCEPT ![Watch] = "w_wait"] /\ pc[Watch] = "w_save"
      /\ UNCHANGED <<cfg, live, wg, flows, intent, history, op, loc>>
  BY DEF WatchSave, Undisturbed, Goto, router
<1>2. rec' # NoRec /\ rec'.saved = rec.saved
  BY <1>1, RecAssumption DEF TypeOK
<1>3. \A q \in Procs : pc'[q] = IF q = Watch THEN "w_wait" ELSE pc[q]
  BY <1>1 DEF TypeOK
<1>4. "w_wait" \notin BusyPCs /\ "w_save" \notin BusyPCs
  BY DEF BusyPCs, EnterPCs, ExitPCs, KsPCs, DnsPCs, FcPCs, TogglePCs
<1>5. \A q \in Procs : ~Busy(q) /\ ~Busy(q)'
  BY <1>1, <1>3, <1>4 DEF Busy
<1>. QED
  BY <1>1, <1>2, <1>5

LEMMA WatchProgress ==
    ASSUME TypeOK, Progress, Undisturbed, Faults = {}, Watching, Undisturbed'
    PROVE  Progress'
<1>1. Watch \in Procs /\ ~Busy(Watch) /\ WatchPCs \cap BusyPCs = {}
  BY WatchKinds
<1>2. CASE WatchSave
  BY <1>2, WatchSaveAside, ProgressAside
<1>3. ASSUME NEW o \in {"enter", "exit"}, NEW u \in Urls \cup {NoUrl},
             Begin(Watch, o, [EmptyRec EXCEPT !.url = u]),
             UNCHANGED <<cfg, live, rec, intent>>
      PROVE  Progress'
  <2>1. [EmptyRec EXCEPT !.url = u].saved = {} /\ o \in AllOps \ {"ap"}
    BY DEF EmptyRec, AllOps
  <2>. QED
    BY <1>1, <1>3, <2>1, BeginProgress
<1>4. ASSUME NEW l \in WatchPCs, pc' = [pc EXCEPT ![Watch] = l],
             UNCHANGED <<cfg, live, rec, intent, op, history>>,
             \A q \in Procs : q # Watch => loc'[q] = loc[q]
      PROVE  Progress'
  <2>1. l \notin BusyPCs
    BY <1>1
  <2>. QED
    BY <1>1, <1>4, <2>1, MoveAside
<1>. QED
  BY <1>2, <1>3, <1>4, WatchKinds

\* Handlers of no concern to the record, the clock and client traffic.
LEMMA AsideProgress ==
    ASSUME TypeOK, Progress, Undisturbed,
           (\E p \in Procs : Other(p) \/ Return(p)) \/ Tick \/ OpenFlow \/ UNCHANGED vars
    PROVE  Progress'
<1> USE DEF router, store, ghost, Goto
<1>1. ASSUME NEW p \in Procs, Other(p) \/ Return(p)
      PROVE  Progress'
  <2>1. \E l \in {"ret", "im_sum", Rest(p)} : pc' = [pc EXCEPT ![p] = l]
    BY <1>1 DEF Other, JoinUplink, SetTunnel, Import, ImportSummary, Return
  <2>2. PICK l \in {"ret", "im_sum", Rest(p)} : pc' = [pc EXCEPT ![p] = l]
    BY <2>1
  <2>3. l \notin BusyPCs /\ ~Busy(p)
    BY <1>1 DEF Rest, Busy, Other, JoinUplink, SetTunnel, Import, ImportSummary, Return, BusyPCs,
                EnterPCs, ExitPCs, KsPCs, DnsPCs, FcPCs, TogglePCs
  <2>4. /\ UNCHANGED <<cfg, live, rec, intent, history>>
        /\ \A q \in Procs : q # p => op'[q] = op[q] /\ loc'[q] = loc[q]
    BY <1>1 DEF Other, JoinUplink, SetTunnel, Import, ImportSummary, Return, TypeOK
  <2>. QED
    BY <2>2, <2>3, <2>4, MoveAside
<1>2. CASE Tick
  <2>1. ASSUME NEW r \in PortalRecord
        PROVE  Later(r) \in PortalRecord /\ Later(r).saved = r.saved
    BY <2>1, WindowAssumption DEF Later, PortalRecord
  <2>2. /\ rec' = NoRec <=> rec = NoRec
        /\ rec # NoRec => rec'.saved = rec.saved
    BY <1>2, <2>1, RecAssumption DEF Tick, TypeOK
  <2>3. \A q \in Procs : loc'[q].saved = loc[q].saved
    BY <1>2, <2>1 DEF Tick, TypeOK
  <2>4. UNCHANGED <<cfg, live, intent, history, pc, op>>
    BY <1>2 DEF Tick
  <2>. QED
    BY <2>2, <2>3, <2>4, ProgressAside DEF Busy
<1>3. CASE OpenFlow \/ UNCHANGED vars
  <2>1. UNCHANGED <<cfg, live, rec, intent, history, pc, op, loc>>
    BY <1>3 DEF OpenFlow, vars, process
  <2>. QED
    BY <2>1, ProgressAside DEF Busy
<1>. QED
  BY <1>1, <1>2, <1>3

-----------------------------------------------------------------------------
(* The theorems *)

LEMMA InitRestore == Init => RestoreInv
<1> SUFFICES ASSUME Init PROVE RestoreInv
  OBVIOUS
<1>1. \A p \in Procs : pc[p] \in {"w_loop", "idle"}
  BY DEF Init, Rest
<1>2. OpsMatch
  BY <1>1 DEF OpsMatch, OpOfPc, EnterPCs, ExitPCs, FcPCs
<1>3. \A p \in Procs : ~Busy(p)
  BY <1>1 DEF Busy, BusyPCs, EnterPCs, ExitPCs, KsPCs, DnsPCs, FcPCs, TogglePCs
<1>4. Idle
  BY DEF Init, Idle, Settled, Base
<1>. QED
  BY <1>2, <1>3, <1>4
  DEF Init, RestoreInv, Progress, OneBusy, Quiet, SavedIsPosture, CutHasRecord

LEMMA NextRestore ==
    ASSUME TypeOK, RestoreInv, Faults = {}, "ap" \notin Ops, [Next]_vars
    PROVE  RestoreInv'
<1>1. OpsMatch' /\ cancelled' = {}
  BY MatchNext DEF RestoreInv
<1>2. ASSUME Undisturbed'
      PROVE  Progress'
  <2>1. Undisturbed /\ Progress
    BY <1>2, DisturbedStays DEF Undisturbed, RestoreInv
  <2>2. ASSUME NEW c \in Clients, NEW o \in Ops, Request(c, o)
        PROVE  Progress'
    <3>1. /\ c \in Procs /\ o \in AllOps \ {"ap"} /\ Begin(c, o, EmptyRec)
          /\ UNCHANGED <<cfg, live, rec, intent>>
      BY <2>2, OpsAssumption DEF Request, router, store
    <3>2. ~Busy(c) /\ EmptyRec.saved = {}
      BY <2>2 DEF Request, EmptyRec, Busy, BusyPCs, EnterPCs, ExitPCs, KsPCs, DnsPCs, FcPCs,
                  TogglePCs
    <3>. QED
      BY <1>2, <2>1, <3>1, <3>2, BeginProgress
  <2>3. ASSUME NEW p \in Procs, Step(p)
        PROVE  Progress'
    BY <1>2, <2>1, <2>3, ServiceProgress, EnterProgress, ExitProgress, ToggleProgress,
       AsideProgress
    DEF Step
  <2>4. ASSUME NEW p \in Procs
        PROVE  ~ContextDone(p)
    BY DEF ContextDone
  <2>5. CASE Environment
    BY <1>2, <2>1, <2>5, AsideProgress, KilledProgress DEF Environment
  <2>6. CASE UNCHANGED vars
    BY <2>1, <2>6, AsideProgress
  <2>7. CASE Watching
    BY <1>2, <2>1, <2>7, WatchProgress
  <2>. QED
    BY <2>2, <2>3, <2>4, <2>5, <2>6, <2>7 DEF Next
<1>. QED
  BY <1>1, <1>2 DEF RestoreInv

\* Where no command fails and the first-boot DNS default does not run, every
\* step of the daemon keeps RestoreInv: undisturbed handlers run one at a time
\* and each has the router exactly as far as its code has brought it.
THEOREM RestoreInvariant ==
    ASSUME Faults = {}, "ap" \notin Ops
    PROVE  Spec => []RestoreInv
<1>1. TypeOK /\ RestoreInv /\ [Next]_vars => RestoreInv'
  BY NextRestore
<1>. QED
  BY <1>1, InitRestore, TypeCorrect, PTL DEF Spec

\* A pause that ran by itself strands nothing, for any number of clients,
\* requests, restarts and any window: when the record is gone and no handler is
\* under way, the router is in the posture the user chose.
THEOREM RestoreNeverStrands ==
    ASSUME Faults = {}, "ap" \notin Ops
    PROVE  Spec => []NeverStranded
<1>1. RestoreInv => NeverStranded
  BY DEF RestoreInv, Progress, NeverStranded, Undisturbed, Idle, Settled, Base
<1>. QED
  BY <1>1, RestoreInvariant, PTL

\* The record never names a relaxed state as the posture to restore.
THEOREM RecordNamesPosture ==
    ASSUME Faults = {}, "ap" \notin Ops
    PROVE  Spec => []SavedIsPosture
<1>1. RestoreInv => SavedIsPosture
  BY DEF RestoreInv, Progress, SavedIsPosture, Undisturbed
<1>. QED
  BY <1>1, RestoreInvariant, PTL

-----------------------------------------------------------------------------
(* Connections over the raw WAN *)

\* The process that moves is the only one inside a handler of PostureOps.
LEMMA FlowMove ==
    ASSUME Progress, NEW p \in Procs, Busy(p),
           \A q \in Procs \ {p} : pc'[q] = pc[q],
           pc'[p] \in BusyPCs => BusyFlows(p)',
           (pc'[p] \notin BusyPCs /\ rec' = NoRec) => Tight(intent)'
    PROVE  FlowInv'
<1>1. \A q \in Procs \ {p} : ~Busy(q)'
  BY DEF Progress, OneBusy, Busy
<1>2. (Quiet /\ rec = NoRec)' => Tight(intent)'
  BY DEF Quiet, Busy
<1>3. ASSUME NEW q \in Procs, Busy(q)'
      PROVE  BusyFlows(q)'
  BY <1>1, <1>3 DEF Busy
<1>. QED
  BY <1>2, <1>3 DEF FlowInv

\* A command of the DNS service opens no forwarding and leaves every flow alone.
LEMMA CommandFlows ==
    ASSUME TypeOK, RestoreInv, Undisturbed, Faults = {}, FlowInv, NEW p \in Procs,
           NEW from \in DnsPCs \cup {"fc_cfg"}, NEW c, NEW l,
           NEW yes \in BusyPCs \ {"x_read", "e_read", "e_ks", "e_dns", "e_save", "c_read", "c_del"},
           NEW after, Command(p, from, c, l, yes, after),
           op[p] = "ksOn" => l = live,
           (op[p] \in {"dnsOn", "dnsOff"} /\ (rec = NoRec \/ history = "clean")
              /\ "ks" \in Base) => ("lanwan" \in l => "lanwan" \in live),
           op[p] = "exit" /\ yes = "x_del" => "ks" \notin loc[p].saved,
           yes = "d_mark" => op[p] \in {"dnsOff", "exit", "enter"}
    PROVE  FlowInv'
<1>1. from \in BusyPCs
  BY DEF BusyPCs, FcPCs
<1>2. /\ Progress /\ Busy(p) /\ BusyInv(p) /\ OpOfPc(op[p], from)
      /\ pc[p] = from /\ pc'[p] = yes
      /\ pc' = [pc EXCEPT ![p] = yes]
      /\ live' = l /\ Base' = Base
      /\ UNCHANGED <<rec, op, loc, intent, history>>
  BY <1>1, CommandMove
<1>3. flows' = flows /\ BusyFlows(p)
  BY <1>2 DEF Command, FlowInv
<1>4. /\ from \notin {"ks_script", "ks_flush", "x_read", "x_up"}
      /\ op[p] \in {"enter", "exit", "ksOn", "ksOff", "dnsOn", "dnsOff"}
      /\ op[p] = "ksOn" => from = "fc_cfg"
  BY <1>2 DEF DnsPCs, OpOfPc, FcPCs
<1>5. UnpausedFlows(p)'
  BY <1>2 DEF UnpausedFlows
<1>6. op[p] = "exit" => ExitFlows(p)'
  <2> SUFFICES ASSUME op[p] = "exit" PROVE ExitFlows(p)'
    OBVIOUS
  <2>1. loc[p].saved = intent
    BY <1>2, <1>4 DEF BusyInv, ExitInv
  <2>. QED
    BY <1>2, <1>3, <1>4, <2>1 DEF BusyFlows, ExitFlows, Tight
<1>7. ASSUME op[p] \notin {"enter", "exit"}, rec = NoRec \/ history = "clean"
      PROVE  ToggleFlows(p)'
  <2>1. ToggleFlows(p)
    BY <1>3, <1>7 DEF BusyFlows
  <2>2. (op[p] \in {"dnsOn", "dnsOff"} /\ "ks" \in Base) => Sealed'
    BY <1>2, <1>3, <1>7, <2>1 DEF ToggleFlows, Sealed
  <2>3. op[p] = "ksOn" => Sealed'
    BY <1>2, <1>3, <1>4, <2>1 DEF ToggleFlows, Sealed
  <2>4. yes = "d_mark" => Tight(Toggled(Base, op[p]))'
    <3> SUFFICES ASSUME yes = "d_mark" PROVE Tight(Toggled(Base, op[p]))'
      OBVIOUS
    <3>1. op[p] = "dnsOff"
      BY <1>7
    <3>2. Toggled(Base, op[p]) = Base \ {"dns"}
      BY <3>1 DEF Toggled
    <3>3. "ks" \in Base => "raw" \notin flows'
      BY <2>2, <3>1 DEF Sealed
    <3>4. Toggled(Base', op'[p]) = Base \ {"dns"}
      BY <1>2, <3>2
    <3>. QED
      BY <3>3, <3>4 DEF Tight
  <2>. QED
    BY <1>2, <2>2, <2>3, <2>4 DEF ToggleFlows
<1>8. BusyFlows(p)'
  BY <1>2, <1>5, <1>6, <1>7 DEF BusyFlows
<1>9. \A q \in Procs \ {p} : pc'[q] = pc[q]
  BY <1>2 DEF TypeOK
<1>. QED
  BY <1>2, <1>8, <1>9, FlowMove

LEMMA DnsFlows ==
    ASSUME TypeOK, RestoreInv, Undisturbed, Faults = {}, FlowInv, NEW p \in Procs,
           \/ EnableDhcp(p) \/ EnableRules(p) \/ DisableDhcp(p) \/ DisableRules(p)
           \/ RestartDnsmasq(p) \/ ReloadFirewall(p) \/ FailClosedRule(p)
    PROVE  FlowInv'
<1> USE DEF DnsPCs
<1>1. {"en_fw", "dns_restart", "dis_fw", "dns_reload", "fc_reload"} \subseteq
        BusyPCs \ {"x_read", "e_read", "e_ks", "e_dns", "e_save", "c_read", "c_del"}
  BY DEF BusyPCs, FcPCs
<1>2. CASE EnableDhcp(p)
  BY <1>1, <1>2, CommandFlows DEF EnableDhcp
<1>3. CASE EnableRules(p)
  BY <1>1, <1>3, CommandFlows DEF EnableRules
<1>4. CASE DisableDhcp(p)
  BY <1>1, <1>4, CommandFlows DEF DisableDhcp
<1>5. CASE DisableRules(p)
  BY <1>1, <1>5, CommandFlows DEF DisableRules
<1>6. CASE RestartDnsmasq(p)
  <2>1. "lanwan" \in Restart(live, cfg) => "lanwan" \in live
    BY DEF Restart
  <2>2. op[p] # "ksOn"
    BY <1>6 DEF RestartDnsmasq, Command, RestoreInv, OpsMatch, OpOfPc
  <2>. QED
    BY <1>1, <1>6, <2>1, <2>2, CommandFlows DEF RestartDnsmasq
<1>7. CASE ReloadFirewall(p)
  <2>1. pc[p] = "dns_reload" /\ op[p] \in {"enter", "exit", "dnsOn", "dnsOff"}
    BY <1>7 DEF ReloadFirewall, Command, RestoreInv, OpsMatch, OpOfPc
  <2>2. ASSUME op[p] \in {"dnsOn", "dnsOff"}, rec = NoRec \/ history = "clean", "ks" \in Base
        PROVE  "lanwan" \notin Reload(live, cfg)
    <3>1. Busy(p)
      BY <2>1 DEF Busy, BusyPCs
    <3>2. ToggleInv(p)
      BY <2>2, <3>1 DEF RestoreInv, Progress, BusyInv
    <3>3. "lanwan" \notin Target(Base)
      BY <2>2, BaseType, TargetSections
    <3>4. "lanwan" \notin cfg
      BY <2>1, <2>2, <3>2, <3>3 DEF ToggleInv
    <3>. QED
      BY <3>4 DEF Reload
  <2>3. AfterDns(p) \in BusyPCs \ {"x_read", "e_read", "e_ks", "e_dns", "e_save", "c_read", "c_del"}
    BY <2>1 DEF AfterDns, BusyPCs, EnterPCs, ExitPCs, FcPCs, TogglePCs
  <2>4. /\ op[p] = "exit" /\ AfterDns(p) = "x_del" => "ks" \notin loc[p].saved
        /\ AfterDns(p) = "d_mark" => op[p] \in {"dnsOff", "exit", "enter"}
    BY <2>1 DEF AfterDns
  <2>. QED
    BY <1>7, <2>1, <2>2, <2>3, <2>4, CommandFlows DEF ReloadFirewall
<1>8. CASE FailClosedRule(p)
  BY <1>1, <1>8, CommandFlows DEF FailClosedRule
<1>. QED
  BY <1>2, <1>3, <1>4, <1>5, <1>6, <1>7, <1>8

\* The script that switches the kill switch on is followed by the flush.
LEMMA KillSwitchFlows ==
    ASSUME TypeOK, RestoreInv, Undisturbed, Faults = {}, FlowInv, NEW p \in Procs,
           KillSwitchScript(p)
    PROVE  FlowInv'
<1>1. /\ Progress /\ Busy(p) /\ BusyInv(p) /\ BusyFlows(p)
      /\ pc' = [pc EXCEPT ![p] = IF TurnsOn(p) THEN "ks_flush" ELSE AfterKS(p)]
      /\ UNCHANGED <<flows, rec, op, loc, intent, history>>
  BY DEF RestoreInv, Progress, FlowInv, KillSwitchScript, Run, Fails, Goto, Busy, BusyPCs, KsPCs,
         store, ghost
<1>2. pc[p] = "ks_script" /\ op[p] \in {"enter", "exit", "ksOn", "ksOff"}
  BY DEF RestoreInv, OpsMatch, OpOfPc, KillSwitchScript
<1>3. /\ pc'[p] = IF TurnsOn(p) THEN "ks_flush" ELSE AfterKS(p)
      /\ \A q \in Procs \ {p} : pc'[q] = pc[q]
  BY <1>1 DEF TypeOK
<1>4. CASE TurnsOn(p)
  <2>1. BusyFlows(p)' /\ pc'[p] \in BusyPCs
    BY <1>1, <1>2, <1>3, <1>4
    DEF BusyFlows, TurnsOn, UnpausedFlows, ExitFlows, ToggleFlows, BusyPCs, KsPCs
  <2>. QED
    BY <1>1, <1>3, <2>1, FlowMove
<1>5. CASE ~TurnsOn(p)
  <2>1. op[p] \in {"enter", "ksOff"} /\ pc'[p] \in {"dis_dhcp", "e_end", "k_dnsq"}
    BY <1>2, <1>3, <1>5 DEF TurnsOn, AfterKS
  <2>2. BusyFlows(p)' /\ pc'[p] \in BusyPCs
    BY <1>1, <2>1
    DEF BusyFlows, UnpausedFlows, ToggleFlows, BusyPCs, EnterPCs, DnsPCs, TogglePCs
  <2>. QED
    BY <1>1, <1>3, <2>2, FlowMove
<1>. QED
  BY <1>4, <1>5

\* The flush seals what the script has closed.
LEMMA FlushFlows ==
    ASSUME TypeOK, RestoreInv, Undisturbed, Faults = {}, FlowInv, NEW p \in Procs,
           FlushConntrack(p)
    PROVE  FlowInv'
<1>1. /\ Progress /\ Busy(p) /\ BusyInv(p)
      /\ pc' = [pc EXCEPT ![p] = AfterKS(p)]
      /\ "raw" \notin flows'
      /\ UNCHANGED <<live, rec, op, loc, intent, history>>
  BY DEF RestoreInv, Progress, FlushConntrack, Goto, Busy, BusyPCs, KsPCs, store, ghost
<1>2. pc[p] = "ks_flush" /\ op[p] \in {"exit", "ksOn"}
  BY DEF RestoreInv, OpsMatch, OpOfPc, FlushConntrack
<1>3. pc'[p] = AfterKS(p) /\ \A q \in Procs \ {p} : pc'[q] = pc[q]
  BY <1>1 DEF TypeOK
<1>4. CASE op[p] = "exit"
  <2>1. loc[p].saved = intent /\ rec # NoRec
    BY <1>1, <1>2, <1>4 DEF BusyInv, ExitInv
  <2>2. pc'[p] = IF "dns" \in intent THEN "en_dhcp" ELSE "x_del"
    BY <1>3, <1>4, <2>1 DEF AfterKS
  <2>3. BusyFlows(p)' /\ pc'[p] \in BusyPCs
    BY <1>1, <1>4, <2>1, <2>2
    DEF BusyFlows, UnpausedFlows, ExitFlows, Tight, BusyPCs, DnsPCs, ExitPCs
  <2>. QED
    BY <1>1, <1>3, <2>3, FlowMove
<1>5. CASE op[p] = "ksOn"
  <2>1. pc'[p] = "k_dnsq"
    BY <1>3, <1>5 DEF AfterKS
  <2>2. rec = NoRec \/ history = "clean" => "lanwan" \notin live
    BY <1>1, <1>2, <1>5 DEF BusyInv, ToggleInv
  <2>3. BusyFlows(p)' /\ pc'[p] \in BusyPCs
    BY <1>1, <1>5, <2>1, <2>2 DEF BusyFlows, ToggleFlows, Sealed, BusyPCs, TogglePCs
  <2>. QED
    BY <1>1, <1>3, <2>3, FlowMove
<1>. QED
  BY <1>2, <1>4, <1>5

\* With the fail-closed rule in force the warm DoH connections are cut.
LEMMA FailClosedReloadFlows ==
    ASSUME TypeOK, RestoreInv, Undisturbed, Faults = {}, FlowInv, NEW p \in Procs,
           FailClosedReload(p)
    PROVE  FlowInv'
<1>1. /\ Progress /\ Busy(p) /\ BusyInv(p) /\ BusyFlows(p)
      /\ pc' = [pc EXCEPT ![p] = AfterFC(p)]
      /\ live' = Reload(live, cfg)
      /\ flows' = IF op[p] = "ksOff" THEN flows ELSE flows \ {"doh"}
      /\ UNCHANGED <<cfg, rec, op, loc, intent, history>>
  BY DEF RestoreInv, Progress, FlowInv, FailClosedReload, Fails, Goto, Busy, BusyPCs, FcPCs,
         store, ghost
<1>2. pc[p] = "fc_reload" /\ op[p] \in {"exit", "ksOn", "ksOff", "dnsOn"}
  BY DEF RestoreInv, OpsMatch, OpOfPc, FailClosedReload, FcPCs
<1>3. pc'[p] = AfterFC(p) /\ \A q \in Procs \ {p} : pc'[q] = pc[q]
  BY <1>1 DEF TypeOK
<1>4. AfterFC(p) \in BusyPCs
  BY DEF AfterFC, BusyPCs, ExitPCs, TogglePCs
<1>5. Base' = Base
  BY <1>1 DEF Base
<1>6. CASE op[p] = "exit"
  <2>1. rec # NoRec /\ ExitFlows(p)
    BY <1>1, <1>2, <1>6 DEF BusyInv, ExitInv, BusyFlows
  <2>2. BusyFlows(p)'
    BY <1>1, <1>2, <1>6, <2>1 DEF BusyFlows, UnpausedFlows, ExitFlows, Tight
  <2>. QED
    BY <1>1, <1>3, <1>4, <2>2, FlowMove
<1>7. CASE op[p] # "exit"
  <2>1. ASSUME rec = NoRec \/ history = "clean"
        PROVE  ToggleFlows(p)'
    <3>1. ToggleInv(p) /\ ToggleFlows(p)
      BY <1>1, <1>2, <1>7, <2>1 DEF BusyInv, BusyFlows
    <3>2. cfg = Target(Toggled(Base, op[p]))
      BY <1>2, <3>1 DEF ToggleInv
    <3>3. "ks" \in Toggled(Base, op[p]) => "lanwan" \notin live'
      <4>1. "ks" \in Toggled(Base, op[p]) => "lanwan" \notin cfg
        BY <3>2, BaseType, TargetSections
      <4>. QED
        BY <1>1, <4>1 DEF Reload
    <3>4. /\ op[p] = "ksOn" => "ks" \in Toggled(Base, op[p])
          /\ op[p] = "ksOff" => "ks" \notin Toggled(Base, op[p])
          /\ op[p] = "dnsOn" => ("ks" \in Toggled(Base, op[p]) <=> "ks" \in Base)
      BY DEF Toggled
    <3>5. (op[p] # "ksOff" /\ "ks" \in Toggled(Base, op[p])) => "raw" \notin flows
      BY <1>2, <1>7, <3>1, <3>4 DEF ToggleFlows, Sealed
    <3>6. (op[p] # "ksOff" /\ "ks" \in Toggled(Base, op[p]))
            => Sealed' /\ "doh" \notin flows'
      BY <1>1, <3>3, <3>5 DEF Sealed
    <3>7. Toggled(Base, op[p])' = Toggled(Base, op[p])
      BY <1>1, <1>5
    <3>8. Tight(Toggled(Base, op[p]))'
      BY <3>4, <3>6, <3>7 DEF Tight, Sealed
    <3>. QED
      BY <1>1, <1>2, <1>5, <1>7, <3>4, <3>6, <3>8 DEF ToggleFlows
  <2>2. BusyFlows(p)'
    BY <1>1, <1>2, <1>7, <2>1 DEF BusyFlows
  <2>. QED
    BY <1>1, <1>3, <1>4, <2>2, FlowMove
<1>. QED
  BY <1>6, <1>7

LEMMA ServiceFlows ==
    ASSUME TypeOK, RestoreInv, Undisturbed, Faults = {}, FlowInv, NEW p \in Procs, Service(p)
    PROVE  FlowInv'
BY KillSwitchFlows, FlushFlows, FailClosedReloadFlows, DnsFlows DEF Service

\* Up to the save enterPortalMode changes nothing, afterwards there is a record.
LEMMA EnterFlows ==
    ASSUME TypeOK, RestoreInv, RestoreInv', Undisturbed, Undisturbed', Faults = {}, FlowInv,
           NEW p \in Procs, Enter(p)
    PROVE  FlowInv'
<1> USE DEF EnterPCs
<1>1. /\ Progress /\ Busy(p) /\ BusyInv(p) /\ BusyFlows(p) /\ op[p] = "enter"
      /\ UNCHANGED <<flows, op, intent>>
  BY DEF RestoreInv, Progress, FlowInv, OpsMatch, OpOfPc, Enter, EnterRead, EnterQueryKS,
         EnterQueryDNS, EnterSave, EnterDown, EnterDone, Query, Busy, BusyPCs, router, store, ghost
<1>2. \A q \in Procs \ {p} : pc'[q] = pc[q]
  BY DEF Enter, EnterRead, EnterQueryKS, EnterQueryDNS, EnterSave, EnterDown, EnterDone, Query,
         Goto, TypeOK
<1>3. rec' = NoRec => Tight(intent)
  <2>1. CASE EnterRead(p) \/ EnterQueryKS(p) \/ EnterQueryDNS(p)
    BY <1>1, <2>1
    DEF EnterRead, EnterQueryKS, EnterQueryDNS, Query, store, BusyFlows, UnpausedFlows
  <2>2. CASE EnterSave(p)
    BY <2>2 DEF EnterSave, Undisturbed
  <2>3. CASE EnterDown(p) \/ EnterDone(p)
    BY <1>1, <2>3 DEF EnterDown, EnterDone, store, BusyInv, EnterInv
  <2>. QED
    BY <2>1, <2>2, <2>3 DEF Enter
<1>4. BusyFlows(p)' /\ (rec' = NoRec => Tight(intent)')
  BY <1>1, <1>3 DEF BusyFlows, UnpausedFlows, Tight
<1>. QED
  BY <1>1, <1>2, <1>4, FlowMove

LEMMA ExitStepFlows ==
    ASSUME TypeOK, RestoreInv, Undisturbed, Faults = {}, FlowInv, NEW p \in Procs, Exit(p)
    PROVE  FlowInv'
<1> USE DEF ExitPCs
<1>1. /\ Progress /\ Busy(p) /\ BusyInv(p) /\ BusyFlows(p) /\ op[p] = "exit"
      /\ UNCHANGED <<flows, op, intent>>
  BY DEF RestoreInv, Progress, FlowInv, OpsMatch, OpOfPc, Exit, ExitRead, ExitUp, ExitClear,
         Query, Busy, BusyPCs, router, store, ghost
<1>2. \A q \in Procs \ {p} : pc'[q] = pc[q]
  BY DEF Exit, ExitRead, ExitUp, ExitClear, Query, Goto, TypeOK
<1>3. CASE ExitRead(p)
  <2>1. rec' = rec /\ pc[p] = "x_read" /\ pc'[p] = IF rec = NoRec THEN "ret" ELSE "x_up"
    BY <1>3 DEF ReadFails, ExitRead, Query, Goto, TypeOK, store
  <2>2. rec = NoRec => Tight(intent)'
    BY <1>1, <2>1 DEF BusyFlows, UnpausedFlows, Tight
  <2>3. BusyFlows(p)'
    BY <1>1, <2>1, <2>2 DEF BusyFlows, UnpausedFlows, ExitFlows, Tight
  <2>. QED
    BY <1>1, <1>2, <2>1, <2>2, <2>3, FlowMove
<1>4. CASE ExitUp(p)
  <2>1. /\ rec' = rec /\ loc' = loc /\ pc[p] = "x_up"
        /\ pc'[p] = IF "ks" \in loc[p].saved THEN "ks_script" ELSE AfterKS(p)
    BY <1>4 DEF ExitUp, Goto, TypeOK, store
  <2>2. rec # NoRec /\ loc[p].saved = intent
    BY <1>1, <2>1 DEF BusyInv, ExitInv
  <2>3. BusyFlows(p)'
    BY <1>1, <2>1, <2>2 DEF BusyFlows, UnpausedFlows, ExitFlows, Tight
  <2>. QED
    BY <1>1, <1>2, <2>1, <2>2, <2>3, FlowMove
<1>5. CASE ExitClear(p)
  <2>1. pc[p] = "x_del" /\ pc'[p] = "ret"
    BY <1>5 DEF ExitClear, Goto, TypeOK
  <2>2. Tight(intent)'
    BY <1>1, <2>1 DEF BusyFlows, ExitFlows, Tight
  <2>3. "ret" \notin BusyPCs
    BY DEF BusyPCs, EnterPCs, KsPCs, DnsPCs, FcPCs, TogglePCs
  <2>. QED
    BY <1>1, <1>2, <2>1, <2>2, <2>3, FlowMove
<1>. QED
  BY <1>3, <1>4, <1>5 DEF Exit

\* The toggles: what a query, a mark or the cancellation of a pause leaves open.
LEMMA ToggleStepFlows ==
    ASSUME TypeOK, RestoreInv, Undisturbed, Undisturbed', Faults = {}, FlowInv,
           NEW p \in Procs, Toggle(p)
    PROVE  FlowInv'
<1> USE DEF TogglePCs
<1>1. /\ Progress /\ Busy(p) /\ BusyInv(p) /\ BusyFlows(p)
      /\ UNCHANGED <<live, flows, op>>
      /\ op[p] \in {"ksOn", "ksOff", "dnsOn", "dnsOff"}
  BY DEF RestoreInv, Progress, FlowInv, OpsMatch, OpOfPc, Toggle, KillSwitchAskDNS, DnsAskKS,
         DnsMark, CancelRead, CancelDelete, SetAP, ApplyDNSDefault, Query, Busy, BusyPCs, router
<1>2. \A q \in Procs \ {p} : pc'[q] = pc[q]
  BY DEF Toggle, KillSwitchAskDNS, DnsAskKS, DnsMark, CancelRead, CancelDelete, SetAP,
         ApplyDNSDefault, Query, Goto, TypeOK
<1>3. pc[p] \notin {"ap_wifi", "ap_read", "ap_mark"} /\ p \notin cancelled /\ ~Fails(p)
  BY DEF RestoreInv, OpsMatch, OpOfPc, Fails
<1>4. (rec = NoRec \/ history = "clean") => ToggleInv(p) /\ ToggleFlows(p)
  BY <1>1 DEF BusyInv, BusyFlows
<1>5. Base \in SUBSET {"ks", "dns"} /\ Toggled(Base, op[p]) \in SUBSET {"ks", "dns"}
  BY BaseType
<1>6. ASSUME UNCHANGED <<rec, intent, history>>,
             pc'[p] \in BusyPCs \ {"ks_script", "ks_flush"},
             pc[p] \notin {"ks_script", "ks_flush"},
             (rec = NoRec \/ history = "clean") =>
                 (pc'[p] \in {"d_mark", "c_read", "c_del"} => Tight(Toggled(Base, op[p])))
      PROVE  FlowInv'
  <2>1. Base' = Base /\ Toggled(Base, op[p])' = Toggled(Base, op[p])
    BY <1>1, <1>6 DEF Base
  <2>2. BusyFlows(p)'
    BY <1>1, <1>4, <1>6, <2>1 DEF BusyFlows, ToggleFlows, Sealed, Tight
  <2>. QED
    BY <1>1, <1>2, <1>6, <2>2, FlowMove
<1>7. {"fc_cfg", "c_read", "c_del", "d_mark"} \subseteq BusyPCs \ {"ks_script", "ks_flush"}
  BY DEF BusyPCs, FcPCs
<1>8. CASE KillSwitchAskDNS(p)
  <2>1. /\ pc[p] = "k_dnsq" /\ UNCHANGED <<rec, intent, history>>
        /\ pc'[p] = IF "dns" \in Posture(cfg) THEN "fc_cfg" ELSE "c_read"
        /\ op[p] \in {"ksOn", "ksOff"}
    BY <1>3, <1>8 DEF KillSwitchAskDNS, Query, Goto, TypeOK, store, ghost, RestoreInv, OpsMatch,
                      OpOfPc
  <2>2. ASSUME rec = NoRec \/ history = "clean", pc'[p] = "c_read"
        PROVE  Tight(Toggled(Base, op[p]))
    <3>1. "doh" \notin cfg
      BY <2>1, <2>2 DEF Posture
    <3>2. "doh" \notin Target(Base)
      BY <1>4, <2>1, <2>2, <3>1 DEF ToggleInv
    <3>3. "dns" \notin Base
      BY <1>5, <3>2, TargetSections
    <3>4. op[p] = "ksOn" => "raw" \notin flows
      BY <1>4, <2>1, <2>2 DEF ToggleFlows, Sealed
    <3>. QED
      BY <2>1, <3>3, <3>4 DEF Toggled, Tight
  <2>. QED
    BY <1>6, <1>7, <2>1, <2>2
<1>9. CASE DnsAskKS(p)
  <2>1. /\ pc[p] = "d_ksq" /\ UNCHANGED <<rec, intent, history>>
        /\ pc'[p] = IF "ks" \in Posture(cfg) THEN "fc_cfg" ELSE "d_mark"
        /\ op[p] = "dnsOn"
    BY <1>3, <1>9 DEF DnsAskKS, Query, Goto, TypeOK, store, ghost, RestoreInv, OpsMatch, OpOfPc
  <2>2. ASSUME rec = NoRec \/ history = "clean", pc'[p] = "d_mark"
        PROVE  Tight(Toggled(Base, op[p]))
    <3>1. "lanwan" \in cfg
      BY <2>1, <2>2 DEF Posture
    <3>2. "lanwan" \in Target(Base)
      BY <1>4, <2>1, <2>2, <3>1 DEF ToggleInv
    <3>3. "ks" \notin Base
      BY <1>5, <3>2, TargetSections
    <3>. QED
      BY <2>1, <3>3 DEF Toggled, Tight
  <2>. QED
    BY <1>6, <1>7, <2>1, <2>2
<1>10. CASE DnsMark(p)
  <2>1. pc[p] = "d_mark" /\ pc'[p] = "c_read" /\ UNCHANGED <<rec, intent, history>>
    BY <1>3, <1>10 DEF DnsMark, Goto, TypeOK
  <2>. QED
    BY <1>4, <1>6, <1>7, <2>1 DEF ToggleFlows
<1>11. CASE CancelRead(p)
  <2>1. /\ pc[p] = "c_read" /\ UNCHANGED <<rec, history>>
        /\ pc'[p] = IF rec = NoRec THEN "ret" ELSE "c_del"
        /\ intent' = IF rec = NoRec THEN Toggled(intent, op[p]) ELSE intent
    BY <1>11 DEF ReadFails, ghost, CancelRead, Goto, TypeOK, store
  <2>2. CASE rec = NoRec
    <3>1. intent' = Toggled(Base, op[p])
      BY <2>1, <2>2 DEF Base
    <3>2. Tight(intent')
      BY <1>4, <2>1, <2>2, <3>1 DEF ToggleFlows
    <3>3. Tight(intent)'
      BY <1>1, <3>2 DEF Tight
    <3>4. "ret" \notin BusyPCs
      BY DEF BusyPCs, EnterPCs, ExitPCs, KsPCs, DnsPCs, FcPCs
    <3>. QED
      BY <1>1, <1>2, <2>1, <2>2, <3>3, <3>4, FlowMove
  <2>3. CASE rec # NoRec
    BY <1>4, <1>6, <1>7, <2>1, <2>3 DEF ToggleFlows
  <2>. QED
    BY <2>2, <2>3
<1>12. CASE CancelDelete(p)
  <2>1. /\ pc[p] = "c_del" /\ pc'[p] = "ret" /\ history = "clean"
        /\ intent' = Posture(cfg)
    BY <1>12 DEF CancelDelete, TakesOver, Goto, TypeOK, Undisturbed
  <2>2. cfg = Target(Toggled(Base, op[p])) /\ Tight(Toggled(Base, op[p]))
    BY <1>4, <2>1 DEF ToggleInv, ToggleFlows
  <2>3. intent' = Toggled(Base, op[p])
    BY <1>5, <2>1, <2>2, TargetSections
  <2>4. Tight(intent)'
    BY <1>1, <2>2, <2>3 DEF Tight
  <2>5. "ret" \notin BusyPCs
    BY DEF BusyPCs, EnterPCs, ExitPCs, KsPCs, DnsPCs, FcPCs
  <2>. QED
    BY <1>1, <1>2, <2>1, <2>4, <2>5, FlowMove
<1>13. CASE SetAP(p) \/ ApplyDNSDefault(p)
  BY <1>3, <1>13 DEF SetAP, ApplyDNSDefault
<1>. QED
  BY <1>8, <1>9, <1>10, <1>11, <1>12, <1>13 DEF Toggle

\* A step that opens nothing and moves no busy process.
LEMMA FlowsAside ==
    ASSUME FlowInv, UNCHANGED <<live, flows, intent, history>>, rec' = NoRec <=> rec = NoRec,
           \A q \in Procs : /\ Busy(q)' <=> Busy(q)
                            /\ Busy(q) => pc'[q] = pc[q] /\ op'[q] = op[q]
    PROVE  FlowInv'
<1>1. Base' = Base
  BY DEF Base
<1>2. (Quiet /\ rec = NoRec)' => Tight(intent)'
  BY DEF FlowInv, Quiet, Tight
<1>3. ASSUME NEW q \in Procs, Busy(q)'
      PROVE  BusyFlows(q)'
  <2>1. BusyFlows(q) /\ pc'[q] = pc[q] /\ op'[q] = op[q]
    BY <1>3 DEF FlowInv
  <2>2. Toggled(Base, op[q])' = Toggled(Base, op[q])
    BY <1>1, <2>1
  <2>. QED
    BY <1>1, <2>1, <2>2 DEF BusyFlows, UnpausedFlows, ExitFlows, ToggleFlows, Sealed, Tight
<1>. QED
  BY <1>2, <1>3 DEF FlowInv

LEMMA MoveFlowsAside ==
    ASSUME TypeOK, FlowInv, NEW p \in Procs, ~Busy(p), NEW l, l \notin BusyPCs,
           pc' = [pc EXCEPT ![p] = l],
           \A q \in Procs : q # p => op'[q] = op[q],
           UNCHANGED <<live, flows, rec, intent, history>>
    PROVE  FlowInv'
<1>1. \A q \in Procs : pc'[q] = IF q = p THEN l ELSE pc[q]
  BY DEF TypeOK
<1>2. \A q \in Procs : Busy(q)' <=> Busy(q)
  BY <1>1 DEF Busy
<1>3. \A q \in Procs : Busy(q) => pc'[q] = pc[q] /\ op'[q] = op[q]
  BY <1>1
<1>. QED
  BY <1>2, <1>3, FlowsAside

\* A handler that begins undisturbed finds the posture tight.
LEMMA BeginFlows ==
    ASSUME TypeOK, Progress, Undisturbed, Undisturbed', FlowInv, NEW p \in Procs, ~Busy(p),
           NEW o \in AllOps \ {"ap"}, NEW r, Begin(p, o, r),
           UNCHANGED <<live, flows, rec, intent>>
    PROVE  FlowInv'
<1>1. /\ pc' = [pc EXCEPT ![p] = First(o)] /\ pc'[p] = First(o) /\ op'[p] = o
      /\ \A q \in Procs : q # p => op'[q] = op[q] /\ pc'[q] = pc[q]
  BY DEF Begin, Goto, TypeOK
<1>2. CASE o \notin PostureOps
  <2>1. First(o) \notin BusyPCs
    BY <1>2 DEF First, AllOps, PostureOps, BusyPCs, EnterPCs, ExitPCs, KsPCs, DnsPCs, FcPCs,
                TogglePCs
  <2>2. history' = history
    BY <1>2 DEF Begin
  <2>. QED
    BY <1>1, <2>1, <2>2, MoveFlowsAside
<1>3. CASE o \in PostureOps
  <2>1. history' = history /\ \A q \in Procs : ~Busy(q)
    BY <1>3 DEF Begin, Overlap, Undisturbed
  <2>2. Idle /\ (rec = NoRec => Tight(intent)) /\ Base' = Base
    BY <2>1 DEF Quiet, Progress, FlowInv, Base
  <2>3. rec = NoRec => Tight(intent)'
    BY <2>2 DEF Tight
  <2>4. (o \in {"dnsOn", "dnsOff"} /\ "ks" \in Base) => Sealed'
    <3> SUFFICES ASSUME "ks" \in Base PROVE Sealed'
      OBVIOUS
    <3>1. rec = NoRec /\ "ks" \in intent
      BY DEF Base
    <3>2. live = Target(Base)
      BY <2>2, <3>1 DEF Idle, Settled
    <3>3. "lanwan" \notin live
      BY <3>2, BaseType, TargetSections
    <3>. QED
      BY <2>2, <3>1, <3>3 DEF Tight, Sealed
  <2>5. BusyFlows(p)'
    <3>1. First(o) \in {"e_read", "x_read", "ks_script", "en_dhcp", "dis_dhcp"}
      BY <1>3 DEF First, PostureOps
    <3>2. o = "ksOn" => First(o) = "ks_script"
      BY DEF First
    <3>3. o = "exit" => First(o) = "x_read"
      BY DEF First
    <3>. QED
      BY <1>1, <2>2, <2>3, <2>4, <3>1, <3>2, <3>3
      DEF BusyFlows, UnpausedFlows, ExitFlows, ToggleFlows
  <2>6. \A q \in Procs \ {p} : ~Busy(q)'
    BY <1>1, <2>1 DEF Busy
  <2>7. Busy(p)'
    BY <1>1, <1>3 DEF Busy, First, PostureOps, BusyPCs, EnterPCs, ExitPCs, KsPCs, DnsPCs, TogglePCs
  <2>. QED
    BY <2>5, <2>6, <2>7 DEF FlowInv, Quiet
<1>. QED
  BY <1>2, <1>3

\* A restart opens nothing; where there is no record, none of the handlers it
\* ends had changed anything.
LEMMA KilledFlows ==
    ASSUME TypeOK, Progress, Undisturbed', FlowInv, Crash \/ Reboot
    PROVE  FlowInv'
<1>1. Killed /\ flows' \subseteq flows /\ UNCHANGED <<rec, intent>>
  BY DEF Crash, Reboot, Killed, store
<1>2. \A p \in Procs : Busy(p) => op[p] \in {"enter", "exit"}
  BY <1>1 DEF Killed, Undisturbed
<1>3. \A p \in Procs : ~Busy(p)'
  BY <1>1 DEF Killed, Busy, Rest, BusyPCs, EnterPCs, ExitPCs, KsPCs, DnsPCs, FcPCs, TogglePCs
<1>4. rec = NoRec => Tight(intent)
  <2>1. CASE Quiet
    BY <2>1 DEF FlowInv
  <2>2. ASSUME NEW p \in Procs, Busy(p), rec = NoRec
        PROVE  Tight(intent)
    <3>1. pc[p] \in {"e_read", "e_ks", "e_dns", "e_save", "x_read"}
      BY <1>2, <2>2 DEF Progress, BusyInv, EnterInv, ExitInv
    <3>. QED
      BY <1>2, <2>2, <3>1 DEF FlowInv, BusyFlows, UnpausedFlows
  <2>. QED
    BY <2>1, <2>2 DEF Quiet
<1>5. rec' = NoRec => Tight(intent)'
  BY <1>1, <1>4 DEF Tight
<1>. QED
  BY <1>3, <1>5 DEF FlowInv

\* Client traffic opens what the running firewall lets through, and no more.
LEMMA OpenFlows ==
    ASSUME TypeOK, Progress, FlowInv, OpenFlow
    PROVE  FlowInv'
<1>1. UNCHANGED <<cfg, live, rec, pc, op, loc, intent, history>>
  BY DEF OpenFlow, store, process, ghost
<1>2. /\ "lanwan" \notin live => ("raw" \in flows' => "raw" \in flows)
      /\ "dnsks" \in live => ("doh" \in flows' => "doh" \in flows)
  BY DEF OpenFlow
<1>3. ASSUME NEW I \in SUBSET {"ks", "dns"}, live = Target(I), Tight(I)
      PROVE  "ks" \in I => "raw" \notin flows' /\ ("dns" \in I => "doh" \notin flows')
  <2>1. "ks" \in I => "lanwan" \notin live /\ ("dns" \in I => "dnsks" \in live)
    BY <1>3, TargetSections
  <2>. QED
    BY <1>2, <1>3, <2>1 DEF Tight
<1>4. intent \in SUBSET {"ks", "dns"} /\ (rec = NoRec => Base = intent)
  BY DEF TypeOK, Base
<1>5. (Quiet /\ rec = NoRec)' => Tight(intent)'
  <2> SUFFICES ASSUME Quiet, rec = NoRec PROVE Tight(intent)'
    BY <1>1 DEF Quiet, Busy
  <2>1. live = Target(intent) /\ Tight(intent)
    BY <1>4 DEF Progress, Idle, Settled, FlowInv
  <2>. QED
    BY <1>1, <1>3, <1>4, <2>1 DEF Tight
<1>6. ASSUME NEW q \in Procs, Busy(q)
      PROVE  BusyFlows(q)'
  <2>1. BusyInv(q) /\ BusyFlows(q)
    BY <1>6 DEF Progress, FlowInv
  <2>2. ASSUME op[q] \in {"enter", "exit"}
        PROVE  UnpausedFlows(q)'
    <3> SUFFICES ASSUME rec = NoRec, pc[q] \in {"e_read", "e_ks", "e_dns", "e_save", "x_read"}
                 PROVE  Tight(intent)'
      BY <1>1 DEF UnpausedFlows
    <3>1. Tight(intent)
      BY <2>1, <2>2 DEF BusyFlows, UnpausedFlows
    <3>2. live = Target(intent)
      BY <1>4, <2>1, <2>2 DEF BusyInv, EnterInv, ExitInv, Idle, Settled
    <3>. QED
      BY <1>1, <1>3, <1>4, <3>1, <3>2 DEF Tight
  <2>3. ASSUME op[q] = "exit"
        PROVE  ExitFlows(q)'
    <3>1. ExitInv(q) /\ ExitFlows(q)
      BY <2>1, <2>3 DEF BusyInv, BusyFlows
    <3>2. (pc[q] \notin {"x_read", "x_up", "ks_script", "ks_flush"} /\ "ks" \in intent)
            => "lanwan" \notin live
      BY <3>1 DEF ExitInv, PausedRouter
    <3>3. pc[q] = "x_del" => Tight(intent)'
      <4> SUFFICES ASSUME pc[q] = "x_del" PROVE Tight(intent)'
        OBVIOUS
      <4>1. live = Target(intent) /\ Tight(intent)
        BY <3>1 DEF ExitInv, ExitFlows
      <4>. QED
        BY <1>1, <1>3, <1>4, <4>1 DEF Tight
    <3>. QED
      BY <1>1, <1>2, <3>1, <3>2, <3>3 DEF ExitFlows
  <2>4. ASSUME op[q] \notin {"enter", "exit"}, rec = NoRec \/ history = "clean"
        PROVE  ToggleFlows(q)'
    <3>1. ToggleInv(q) /\ ToggleFlows(q)
      BY <2>1, <2>4 DEF BusyInv, BusyFlows
    <3>2. Base' = Base /\ Toggled(Base, op[q])' = Toggled(Base, op[q])
      BY <1>1 DEF Base
    <3>3. Sealed => Sealed'
      BY <1>1, <1>2 DEF Sealed
    <3>4. pc[q] \in {"d_mark", "c_read", "c_del"} => Tight(Toggled(Base, op[q]))'
      <4> SUFFICES ASSUME pc[q] \in {"d_mark", "c_read", "c_del"}
                   PROVE  Tight(Toggled(Base, op[q]))'
        OBVIOUS
      <4>1. live = Target(Toggled(Base, op[q])) /\ Tight(Toggled(Base, op[q]))
        BY <3>1 DEF ToggleInv, ToggleFlows
      <4>2. Toggled(Base, op[q]) \in SUBSET {"ks", "dns"}
        BY BaseType
      <4>. QED
        BY <1>3, <3>2, <4>1, <4>2 DEF Tight
    <3>. QED
      BY <1>1, <3>1, <3>2, <3>3, <3>4 DEF ToggleFlows
  <2>. QED
    BY <1>1, <2>2, <2>3, <2>4 DEF BusyFlows
<1>. QED
  BY <1>1, <1>5, <1>6 DEF FlowInv, Busy

LEMMA WatchFlows ==
    ASSUME TypeOK, Progress, Undisturbed, Undisturbed', Faults = {}, FlowInv, Watching
    PROVE  FlowInv'
<1>1. Watch \in Procs /\ ~Busy(Watch) /\ WatchPCs \cap BusyPCs = {}
  BY WatchKinds
<1>2. CASE WatchSave
  BY <1>2, WatchSaveAside, FlowsAside
<1>3. ASSUME NEW o \in {"enter", "exit"}, NEW u \in Urls \cup {NoUrl},
             Begin(Watch, o, [EmptyRec EXCEPT !.url = u]),
             UNCHANGED <<live, flows, rec, intent>>
      PROVE  FlowInv'
  <2>1. o \in AllOps \ {"ap"}
    BY DEF AllOps
  <2>. QED
    BY <1>1, <1>3, <2>1, BeginFlows
<1>4. ASSUME NEW l \in WatchPCs, pc' = [pc EXCEPT ![Watch] = l],
             UNCHANGED <<live, flows, rec, intent, op, history>>
      PROVE  FlowInv'
  <2>1. l \notin BusyPCs
    BY <1>1
  <2>. QED
    BY <1>1, <1>4, <2>1, MoveFlowsAside
<1>. QED
  BY <1>2, <1>3, <1>4, WatchKinds

LEMMA NextFlows ==
    ASSUME TypeOK, RestoreInv, RestoreInv', Undisturbed, Undisturbed', FlowInv,
           Faults = {}, "ap" \notin Ops, [Next]_vars
    PROVE  FlowInv'
<1> USE DEF router, store, ghost, Goto
<1>1. Progress
  BY DEF RestoreInv
<1>2. ASSUME NEW c \in Clients, NEW o \in Ops, Request(c, o)
      PROVE  FlowInv'
  <2>1. /\ c \in Procs /\ o \in AllOps \ {"ap"} /\ Begin(c, o, EmptyRec)
        /\ UNCHANGED <<live, flows, rec, intent>>
    BY <1>2, OpsAssumption DEF Request
  <2>2. ~Busy(c)
    BY <1>2 DEF Request, Busy, BusyPCs, EnterPCs, ExitPCs, KsPCs, DnsPCs, FcPCs, TogglePCs
  <2>. QED
    BY <1>1, <2>1, <2>2, BeginFlows
<1>3. ASSUME NEW p \in Procs, Other(p) \/ Return(p)
      PROVE  FlowInv'
  <2>1. PICK l \in {"ret", "im_sum", Rest(p)} : pc' = [pc EXCEPT ![p] = l]
    BY <1>3 DEF Other, JoinUplink, SetTunnel, Import, ImportSummary, Return
  <2>2. l \notin BusyPCs /\ ~Busy(p)
    BY <1>3 DEF Rest, Busy, Other, JoinUplink, SetTunnel, Import, ImportSummary, Return, BusyPCs,
                EnterPCs, ExitPCs, KsPCs, DnsPCs, FcPCs, TogglePCs
  <2>3. /\ UNCHANGED <<live, flows, rec, intent, history>>
        /\ \A q \in Procs : q # p => op'[q] = op[q]
    BY <1>3 DEF Other, JoinUplink, SetTunnel, Import, ImportSummary, Return, TypeOK
  <2>. QED
    BY <2>1, <2>2, <2>3, MoveFlowsAside
<1>4. ASSUME NEW p \in Procs
      PROVE  ~ContextDone(p)
  BY DEF ContextDone
<1>5. CASE Tick
  <2>1. \A r \in PortalRecord : Later(r) \in PortalRecord
    BY WindowAssumption DEF Later, PortalRecord
  <2>2. /\ rec' = NoRec <=> rec = NoRec
        /\ UNCHANGED <<live, flows, intent, history, pc, op>>
    BY <1>5, <2>1, RecAssumption DEF Tick, TypeOK
  <2>. QED
    BY <2>2, FlowsAside DEF Busy
<1>6. CASE UNCHANGED vars
  <2>1. UNCHANGED <<live, flows, rec, intent, history, pc, op>>
    BY <1>6 DEF vars
  <2>. QED
    BY <2>1, FlowsAside DEF Busy
<1>7. ASSUME NEW p \in Procs, Step(p)
      PROVE  FlowInv'
  BY <1>3, <1>7, ServiceFlows, EnterFlows, ExitStepFlows, ToggleStepFlows DEF Step
<1>8. CASE Environment
  BY <1>1, <1>5, <1>8, OpenFlows, KilledFlows DEF Environment
<1>9. CASE Watching
  BY <1>1, <1>9, WatchFlows
<1>. QED
  BY <1>2, <1>4, <1>6, <1>7, <1>8, <1>9 DEF Next

\* Once the kill switch is back on and nothing is under way, no connection that
\* was opened over the raw WAN survives, wherever a restart cut the restore and
\* for any number of clients, requests and restarts.
THEOREM RestoreCutsFlows ==
    ASSUME Faults = {}, "ap" \notin Ops
    PROVE  Spec => []FlowsCut
<1> DEFINE I == Undisturbed => FlowInv
<1>1. Init => I
  <2> SUFFICES ASSUME Init PROVE FlowInv
    OBVIOUS
  <2>1. \A p \in Procs : ~Busy(p)
    BY DEF Init, Rest, Busy, BusyPCs, EnterPCs, ExitPCs, KsPCs, DnsPCs, FcPCs, TogglePCs
  <2>. QED
    BY <2>1 DEF Init, FlowInv, Tight
<1>2. TypeOK /\ RestoreInv /\ RestoreInv' /\ I /\ [Next]_vars => I'
  BY NextFlows, DisturbedStays DEF Undisturbed
<1>3. TypeOK /\ RestoreInv /\ I => FlowsCut
  <2> SUFFICES ASSUME TypeOK, RestoreInv, I, Undisturbed, rec = NoRec, Quiet,
                      "ks" \in Posture(cfg)
               PROVE  "raw" \notin flows /\ ("dns" \in Posture(cfg) => "doh" \notin flows)
    BY DEF FlowsCut, Undisturbed
  <2>1. cfg = Target(intent)
    BY DEF RestoreInv, Progress, Idle, Settled, Base
  <2>2. Posture(cfg) = intent
    BY <2>1, TargetSections DEF TypeOK
  <2>. QED
    BY <2>2 DEF FlowInv, Tight
<1> HIDE DEF I
<1>. QED
  BY <1>1, <1>2, <1>3, RestoreInvariant, TypeCorrect, PTL DEF Spec

-----------------------------------------------------------------------------
(* The tunnel during a pause *)

\* The process that moves is the only one inside a handler of PostureOps.
LEMMA TunnelMove ==
    ASSUME Progress, NEW p \in Procs, Busy(p),
           \A q \in Procs \ {p} : pc'[q] = pc[q],
           (history' = "clean" /\ rec' # NoRec /\ wg' = "up") => TunnelMayBeUp(p)',
           (op'[p] = "enter"
              /\ pc'[p] \in BusyPCs \ {"e_read", "e_ks", "e_dns", "e_save", "e_down"})
             => wg' # "up"
    PROVE  TunnelInv'
<1>1. \A q \in Procs \ {p} : ~Busy(q)'
  BY DEF Progress, OneBusy, Busy
<1>. QED
  BY <1>1 DEF TunnelInv, Busy

\* Whoever may hold the tunnel up is that process.
LEMMA TunnelHolder ==
    ASSUME Progress, TunnelInv, NEW p \in Procs, Busy(p),
           history = "clean", rec # NoRec, wg = "up"
    PROVE  TunnelMayBeUp(p)
<1>1. PICK q \in Procs : TunnelMayBeUp(q)
  BY DEF TunnelInv
<1>2. Busy(q)
  BY <1>1 DEF TunnelMayBeUp, Busy, BusyPCs, EnterPCs
<1>. QED
  BY <1>1, <1>2 DEF Progress, OneBusy

LEMMA ServiceTunnel ==
    ASSUME TypeOK, RestoreInv, Undisturbed, Faults = {}, TunnelInv, NEW p \in Procs, Service(p)
    PROVE  TunnelInv'
<1> DEFINE S == BusyPCs \ {"x_read", "x_up", "e_read", "e_ks", "e_dns", "e_save", "e_down"}
<1>1. Progress /\ cancelled = {} /\ ~Fails(p)
  BY DEF RestoreInv, Fails
<1>2. /\ AfterKS(p) \in S /\ AfterDns(p) \in S /\ AfterFC(p) \in S
      /\ {"ks_flush", "en_fw", "dns_restart", "dis_fw", "dns_reload", "fc_reload"} \subseteq S
      /\ KsPCs \cup DnsPCs \cup FcPCs \subseteq S
  BY DEF AfterKS, AfterDns, AfterFC, BusyPCs, EnterPCs, ExitPCs, KsPCs, DnsPCs, FcPCs, TogglePCs
<1> HIDE DEF S
<1>3. ASSUME NEW from \in KsPCs \cup DnsPCs \cup FcPCs, NEW c, NEW v, NEW yes \in S, NEW after,
             Command(p, from, c, v, yes, after)
      PROVE  /\ pc[p] \in KsPCs \cup DnsPCs \cup FcPCs
             /\ \E l \in S : pc' = [pc EXCEPT ![p] = l]
             /\ UNCHANGED <<wg, rec, op, history>>
  BY <1>1, <1>3 DEF Command, Run, Goto, store, ghost
<1>4. /\ pc[p] \in KsPCs \cup DnsPCs \cup FcPCs
      /\ \E l \in S : pc' = [pc EXCEPT ![p] = l]
      /\ UNCHANGED <<wg, rec, op, history>>
  <2> USE DEF KsPCs, DnsPCs, FcPCs
  <2>1. CASE KillSwitchScript(p)
    BY <1>1, <1>2, <2>1 DEF KillSwitchScript, Run, Goto, store, ghost
  <2>2. CASE FlushConntrack(p)
    BY <1>2, <2>2 DEF FlushConntrack, Goto, store, ghost
  <2>3. CASE EnableDhcp(p)
    BY <1>2, <1>3, <2>3 DEF EnableDhcp
  <2>4. CASE EnableRules(p)
    BY <1>2, <1>3, <2>4 DEF EnableRules
  <2>5. CASE DisableDhcp(p)
    BY <1>2, <1>3, <2>5 DEF DisableDhcp
  <2>6. CASE DisableRules(p)
    BY <1>2, <1>3, <2>6 DEF DisableRules
  <2>7. CASE RestartDnsmasq(p)
    BY <1>2, <1>3, <2>7 DEF RestartDnsmasq
  <2>8. CASE ReloadFirewall(p)
    BY <1>2, <1>3, <2>8 DEF ReloadFirewall
  <2>9. CASE FailClosedRule(p)
    BY <1>2, <1>3, <2>9 DEF FailClosedRule
  <2>10. CASE FailClosedReload(p)
    BY <1>1, <1>2, <2>10 DEF FailClosedReload, Goto, store, ghost
  <2>. QED
    BY <2>1, <2>2, <2>3, <2>4, <2>5, <2>6, <2>7, <2>8, <2>9, <2>10 DEF Service
<1>5. PICK l \in S : pc' = [pc EXCEPT ![p] = l]
  BY <1>4
<1>6. pc'[p] = l /\ \A q \in Procs \ {p} : pc'[q] = pc[q]
  BY <1>5 DEF TypeOK
<1>7. pc[p] \in S /\ Busy(p)
  BY <1>2, <1>4 DEF S, Busy
<1>8. (history' = "clean" /\ rec' # NoRec /\ wg' = "up") => TunnelMayBeUp(p)'
  BY <1>1, <1>4, <1>5, <1>6, <1>7, TunnelHolder DEF TunnelMayBeUp, S
<1>9. op'[p] = "enter" => wg' # "up"
  BY <1>4, <1>7 DEF TunnelInv, S
<1>. QED
  BY <1>1, <1>6, <1>7, <1>8, <1>9, TunnelMove

\* The tunnel goes down right after the save, before the protections.
LEMMA EnterTunnel ==
    ASSUME TypeOK, RestoreInv, Undisturbed, Faults = {}, TunnelInv, NEW p \in Procs, Enter(p)
    PROVE  TunnelInv'
<1> USE DEF EnterPCs
<1>1. Progress /\ Busy(p) /\ op[p] = "enter" /\ op' = op /\ cancelled = {} /\ ~Fails(p)
  BY DEF RestoreInv, Progress, OpsMatch, OpOfPc, Enter, EnterRead, EnterQueryKS, EnterQueryDNS,
         EnterSave, EnterDown, EnterDone, Query, Busy, BusyPCs, Fails
<1>2. \A q \in Procs \ {p} : pc'[q] = pc[q]
  BY DEF Enter, EnterRead, EnterQueryKS, EnterQueryDNS, EnterSave, EnterDown, EnterDone, Query,
         Goto, TypeOK
<1>3. CASE EnterRead(p) \/ EnterQueryKS(p) \/ EnterQueryDNS(p)
  <2>1. /\ pc[p] \in {"e_read", "e_ks", "e_dns"} /\ pc'[p] \in {"e_ks", "e_dns", "e_save"}
        /\ UNCHANGED <<wg, rec, history>>
    BY <1>3 DEF ReadFails, EnterRead, EnterQueryKS, EnterQueryDNS, Query, Goto, TypeOK, router, store, ghost
  <2>2. ~TunnelMayBeUp(p)
    BY <1>1, <2>1 DEF TunnelMayBeUp
  <2>3. ~(history' = "clean" /\ rec' # NoRec /\ wg' = "up")
    BY <1>1, <2>1, <2>2, TunnelHolder
  <2>. QED
    BY <1>1, <1>2, <2>1, <2>3, TunnelMove
<1>4. CASE EnterSave(p)
  <2>1. pc'[p] = "e_down"
    BY <1>4 DEF EnterSave, Goto, TypeOK
  <2>. QED
    BY <1>1, <1>2, <2>1, TunnelMove DEF TunnelMayBeUp
<1>5. CASE EnterDown(p)
  <2>1. wg' # "up"
    BY <1>1, <1>5 DEF EnterDown
  <2>. QED
    BY <1>1, <1>2, <2>1, TunnelMove
<1>6. CASE EnterDone(p)
  <2>1. pc[p] = "e_end" /\ wg' = wg
    BY <1>6 DEF EnterDone, router
  <2>2. wg' # "up"
    BY <1>1, <2>1 DEF TunnelInv, Busy
  <2>. QED
    BY <1>1, <1>2, <2>2, TunnelMove
<1>. QED
  BY <1>3, <1>4, <1>5, <1>6 DEF Enter

LEMMA ExitTunnel ==
    ASSUME TypeOK, RestoreInv, Undisturbed, Faults = {}, TunnelInv, NEW p \in Procs, Exit(p)
    PROVE  TunnelInv'
<1> USE DEF ExitPCs
<1>1. Progress /\ Busy(p) /\ op[p] = "exit" /\ op' = op
  BY DEF RestoreInv, Progress, OpsMatch, OpOfPc, Exit, ExitRead, ExitUp, ExitClear, Query, Busy,
         BusyPCs
<1>2. \A q \in Procs \ {p} : pc'[q] = pc[q]
  BY DEF Exit, ExitRead, ExitUp, ExitClear, Query, Goto, TypeOK
<1>3. CASE ExitRead(p)
  <2>1. pc[p] = "x_read" /\ UNCHANGED <<wg, rec, history>>
    BY <1>3 DEF ExitRead, Query, router, store, ghost
  <2>2. ~TunnelMayBeUp(p)
    BY <1>1, <2>1 DEF TunnelMayBeUp
  <2>3. ~(history' = "clean" /\ rec' # NoRec /\ wg' = "up")
    BY <1>1, <2>1, <2>2, TunnelHolder
  <2>. QED
    BY <1>1, <1>2, <2>3, TunnelMove
<1>4. CASE ExitUp(p)
  <2>1. pc'[p] = IF "ks" \in loc[p].saved THEN "ks_script" ELSE AfterKS(p)
    BY <1>4 DEF ExitUp, Goto, TypeOK
  <2>2. pc'[p] \in {"ks_script", "en_dhcp", "x_del"}
    BY <1>1, <2>1 DEF AfterKS
  <2>3. TunnelMayBeUp(p)'
    BY <1>1, <2>2 DEF TunnelMayBeUp, BusyPCs, KsPCs, DnsPCs
  <2>. QED
    BY <1>1, <1>2, <2>3, TunnelMove
<1>5. CASE ExitClear(p)
  <2>1. rec' = NoRec
    BY <1>5 DEF ExitClear
  <2>. QED
    BY <1>1, <1>2, <2>1, TunnelMove
<1>. QED
  BY <1>3, <1>4, <1>5 DEF Exit

LEMMA ToggleTunnel ==
    ASSUME TypeOK, RestoreInv, Undisturbed, Undisturbed', TunnelInv, NEW p \in Procs, Toggle(p)
    PROVE  TunnelInv'
<1> USE DEF TogglePCs
<1>1. /\ Progress /\ Busy(p) /\ UNCHANGED <<wg, op>>
      /\ op[p] \in {"ksOn", "ksOff", "dnsOn", "dnsOff"}
      /\ rec' # NoRec => rec # NoRec
      /\ history' = "clean" => history = "clean"
  BY DEF RestoreInv, Progress, OpsMatch, OpOfPc, Toggle, KillSwitchAskDNS, DnsAskKS, DnsMark,
         CancelRead, TakesOver, CancelDelete, SetAP, ApplyDNSDefault, Query, Busy, BusyPCs, router, store,
         ghost, Undisturbed
<1>2. \A q \in Procs \ {p} : pc'[q] = pc[q]
  BY DEF Toggle, KillSwitchAskDNS, DnsAskKS, DnsMark, CancelRead, CancelDelete, SetAP,
         ApplyDNSDefault, Query, Goto, TypeOK
<1>3. ~TunnelMayBeUp(p)
  BY <1>1 DEF TunnelMayBeUp
<1>4. ~(history' = "clean" /\ rec' # NoRec /\ wg' = "up")
  BY <1>1, <1>3, TunnelHolder
<1>. QED
  BY <1>1, <1>2, <1>4, TunnelMove

\* A step that does not bring the tunnel up and moves no busy process.
LEMMA TunnelAside ==
    ASSUME TunnelInv, wg' = "up" => wg = "up",
           (history' = "clean" /\ rec' # NoRec) => (history = "clean" /\ rec # NoRec),
           \A q \in Procs :
               /\ Busy(q) => pc'[q] = pc[q] /\ op'[q] = op[q]
               /\ Busy(q)' => Busy(q) \/ (op'[q] = "enter" => pc'[q] = "e_read")
    PROVE  TunnelInv'
<1>1. \A q \in Procs : TunnelMayBeUp(q) => TunnelMayBeUp(q)'
  BY DEF TunnelMayBeUp, Busy, BusyPCs, EnterPCs
<1>. QED
  BY <1>1 DEF TunnelInv, Busy

\* Handlers that begin: enterPortalMode starts by reading the record.
LEMMA BeginTunnel ==
    ASSUME TypeOK, TunnelInv, NEW p \in Procs, ~Busy(p), NEW o \in AllOps, NEW r, Begin(p, o, r),
           UNCHANGED <<wg, rec>>
    PROVE  TunnelInv'
<1>1. /\ pc'[p] = First(o) /\ op'[p] = o
      /\ \A q \in Procs : q # p => op'[q] = op[q] /\ pc'[q] = pc[q]
      /\ history' = "clean" => history = "clean"
  BY DEF Begin, Goto, TypeOK, Overlap
<1>2. o = "enter" => First(o) = "e_read"
  BY DEF First
<1>. QED
  BY <1>1, <1>2, TunnelAside DEF Busy

\* Restarts: a pause that one cuts short is no longer a clean one.
LEMMA KilledTunnel ==
    ASSUME TypeOK, TunnelInv, Crash \/ Reboot
    PROVE  TunnelInv'
<1>1. Killed /\ rec' = rec /\ (wg' = "up" => wg = "up")
  BY DEF Crash, Reboot, Killed, store
<1>2. \A p \in Procs : ~Busy(p)'
  BY <1>1 DEF Killed, Busy, Rest, BusyPCs, EnterPCs, ExitPCs, KsPCs, DnsPCs, FcPCs, TogglePCs
<1>3. (history' = "clean" /\ rec' # NoRec) => Quiet /\ history = "clean"
  BY <1>1 DEF Killed
<1>4. \A p \in Procs : TunnelMayBeUp(p) => Busy(p)
  BY DEF TunnelMayBeUp, Busy, BusyPCs, EnterPCs
<1>. QED
  BY <1>1, <1>2, <1>3, <1>4 DEF TunnelInv, Quiet, Busy

\* Handlers change their operation only when they begin or end.
LEMMA NextNoTunnelUp ==
    ASSUME TypeOK, NoTunnelUp, "vpnUp" \notin Ops, [Next]_vars
    PROVE  NoTunnelUp'
<1>1. ASSUME NEW p \in Procs, NEW o, NEW r, Begin(p, o, r), o # "vpnUp"
      PROVE  NoTunnelUp'
  BY <1>1 DEF Begin, NoTunnelUp, TypeOK
<1>2. ASSUME UNCHANGED op
      PROVE  NoTunnelUp'
  BY <1>2 DEF NoTunnelUp
<1>3. ASSUME NEW c \in Clients, NEW o \in Ops, Request(c, o)
      PROVE  NoTunnelUp'
  BY <1>1, <1>3 DEF Request
<1>4. ASSUME NEW p \in Procs, Service(p)
      PROVE  UNCHANGED op
  BY <1>4 DEF Service, KillSwitchScript, FlushConntrack, Command, EnableDhcp, EnableRules,
              DisableDhcp, DisableRules, RestartDnsmasq, ReloadFirewall, FailClosedRule,
              FailClosedReload
<1>5. ASSUME NEW p \in Procs, Enter(p) \/ Exit(p)
      PROVE  UNCHANGED op
  BY <1>5 DEF Enter, EnterRead, EnterQueryKS, EnterQueryDNS, EnterSave, EnterDown, EnterDone,
              Query, Exit, ExitRead, ExitUp, ExitClear
<1>6. ASSUME NEW p \in Procs, Toggle(p) \/ Other(p) \/ ContextDone(p)
      PROVE  UNCHANGED op
  BY <1>6 DEF Toggle, KillSwitchAskDNS, DnsAskKS, DnsMark, CancelRead, CancelDelete, SetAP,
              ApplyDNSDefault, Query, Other, JoinUplink, SetTunnel, Import, ImportSummary,
              ContextDone
<1>7. ASSUME NEW p \in Procs, Return(p)
      PROVE  NoTunnelUp'
  BY <1>7 DEF Return, NoTunnelUp, TypeOK
<1>8. CASE Watching
  <2>1. CASE WatchSave
    BY <1>2, <2>1 DEF WatchSave
  <2>. QED
    BY <1>1, <1>2, <1>8, <2>1, WatchKinds
<1>9. CASE Environment
  BY <1>2, <1>9 DEF Environment, Tick, OpenFlow, process, Crash, Reboot, Killed, NoTunnelUp
<1>10. CASE UNCHANGED vars
  BY <1>2, <1>10 DEF vars
<1>. QED
  BY <1>2, <1>3, <1>4, <1>5, <1>6, <1>7, <1>8, <1>9, <1>10 DEF Next, Step

LEMMA NextTunnel ==
    ASSUME TypeOK, RestoreInv, Undisturbed, Undisturbed', TunnelInv, NoTunnelUp,
           Faults = {}, [Next]_vars
    PROVE  TunnelInv'
<1> USE DEF router, store, ghost, Goto
<1>1. ASSUME NEW c \in Clients, NEW o \in Ops, Request(c, o)
      PROVE  TunnelInv'
  <2>1. ~Busy(c)
    BY <1>1 DEF Request, Busy, BusyPCs, EnterPCs, ExitPCs, KsPCs, DnsPCs, FcPCs, TogglePCs
  <2>. QED
    BY <1>1, <2>1, BeginTunnel, OpsAssumption DEF Request
<1>2. ASSUME NEW p \in Procs, Other(p) \/ Return(p)
      PROVE  TunnelInv'
  <2>1. PICK l \in {"ret", "im_sum", Rest(p)} : pc' = [pc EXCEPT ![p] = l]
    BY <1>2 DEF Other, JoinUplink, SetTunnel, Import, ImportSummary, Return
  <2>2. l \notin BusyPCs /\ ~Busy(p)
    BY <1>2 DEF Rest, Busy, Other, JoinUplink, SetTunnel, Import, ImportSummary, Return, BusyPCs,
                EnterPCs, ExitPCs, KsPCs, DnsPCs, FcPCs, TogglePCs
  <2>3. pc[p] # "v_up"
    BY DEF NoTunnelUp, RestoreInv, OpsMatch, OpOfPc
  <2>4. wg' = "up" => wg = "up"
    BY <1>2, <2>3 DEF Other, JoinUplink, SetTunnel, Import, ImportSummary, Return
  <2>5. /\ UNCHANGED <<rec, history>>
        /\ \A q \in Procs : q # p => op'[q] = op[q]
    BY <1>2 DEF Other, JoinUplink, SetTunnel, Import, ImportSummary, Return, TypeOK
  <2>6. \A q \in Procs : pc'[q] = IF q = p THEN l ELSE pc[q]
    BY <2>1 DEF TypeOK
  <2>. QED
    BY <2>2, <2>4, <2>5, <2>6, TunnelAside DEF Busy
<1>3. CASE Tick \/ OpenFlow \/ UNCHANGED vars
  <2>1. UNCHANGED <<wg, pc, op, history>> /\ (rec' # NoRec => rec # NoRec)
    BY <1>3 DEF Tick, OpenFlow, process, vars
  <2>. QED
    BY <2>1, TunnelAside DEF Busy
<1>4. ASSUME NEW p \in Procs, Step(p) \/ ContextDone(p)
      PROVE  TunnelInv'
  BY <1>2, <1>4, ServiceTunnel, EnterTunnel, ExitTunnel, ToggleTunnel DEF Step, ContextDone
<1>5. CASE Watching
  <2>1. Watch \in Procs /\ ~Busy(Watch) /\ WatchPCs \cap BusyPCs = {}
    BY <1>5, WatchKinds
  <2>2. CASE WatchSave
    BY <2>2, WatchSaveAside, TunnelAside
  <2>3. ASSUME NEW o \in {"enter", "exit"}, NEW u \in Urls \cup {NoUrl},
               Begin(Watch, o, [EmptyRec EXCEPT !.url = u]), UNCHANGED <<wg, rec>>
        PROVE  TunnelInv'
    BY <2>1, <2>3, BeginTunnel DEF AllOps
  <2>4. ASSUME NEW l \in WatchPCs, pc' = [pc EXCEPT ![Watch] = l],
               UNCHANGED <<wg, rec, op, history>>
        PROVE  TunnelInv'
    <3>1. \A q \in Procs : pc'[q] = IF q = Watch THEN l ELSE pc[q]
      BY <2>4 DEF TypeOK
    <3>2. l \notin BusyPCs
      BY <2>1
    <3>. QED
      BY <2>1, <2>4, <3>1, <3>2, TunnelAside DEF Busy
  <2>. QED
    BY <1>5, <2>2, <2>3, <2>4, WatchKinds
<1>6. CASE Environment
  BY <1>3, <1>6, KilledTunnel DEF Environment
<1>. QED
  BY <1>1, <1>3, <1>4, <1>5, <1>6 DEF Next

\* PauseInv is an invariant of the daemon where, besides, nobody brings the
\* tunnel up by hand.
THEOREM PauseInvariant ==
    ASSUME Faults = {}, "ap" \notin Ops, "vpnUp" \notin Ops
    PROVE  Spec => []PauseInv
<1>1. Init => PauseInv
  <2> SUFFICES ASSUME Init PROVE PauseInv
    OBVIOUS
  <2>1. \A p \in Procs : ~Busy(p)
    BY DEF Init, Rest, Busy, BusyPCs, EnterPCs, ExitPCs, KsPCs, DnsPCs, FcPCs, TogglePCs
  <2>. QED
    BY <2>1, InitRestore DEF Init, PauseInv, FlowInv, Tight, NoTunnelUp, TunnelInv, Busy
<1>2. TypeOK /\ PauseInv /\ [Next]_vars => PauseInv'
  BY NextRestore, NextFlows, NextNoTunnelUp, NextTunnel, DisturbedStays DEF PauseInv, Undisturbed
<1>. QED
  BY <1>1, <1>2, TypeCorrect, PTL DEF Spec

\* A pause that was not interrupted is complete, for every set of clients and
\* any number of requests and restarts: with no handler under way every
\* protection is off in the configuration and in the services, and the tunnel
\* is held down as long as nobody brings it up by hand.
THEOREM PauseIsComplete ==
    ASSUME Faults = {}, "ap" \notin Ops, "vpnUp" \notin Ops
    PROVE  Spec => []PauseRelaxesAll
<1>1. PauseInv => PauseRelaxesAll
  <2> SUFFICES ASSUME PauseInv, history = "clean", rec # NoRec, Quiet
               PROVE  cfg = Target({}) /\ live = cfg /\ wg # "up"
    BY DEF PauseRelaxesAll
  <2>1. Undisturbed
    BY DEF Undisturbed
  <2>2. cfg = Target({}) /\ live = cfg
    BY <2>1 DEF PauseInv, RestoreInv, Progress, Idle, Settled, Base
  <2>3. \A p \in Procs : ~TunnelMayBeUp(p)
    BY DEF Quiet, TunnelMayBeUp, Busy, BusyPCs, EnterPCs
  <2>. QED
    BY <2>1, <2>2, <2>3 DEF PauseInv, TunnelInv
<1>. QED
  BY <1>1, PauseInvariant, PTL

-----------------------------------------------------------------------------
(* PortalMode implements PortalPause *)

\* What the daemon shows of itself to PortalPause.
Shown == <<intent, Posture(live), Held, UserToggles, Undisturbed>>

\* The user acts through four handlers.
Toggles == {"ksOn", "ksOff", "dnsOn", "dnsOff"}

\* Without a record the services are the user's posture, also in the middle of
\* enterPortalMode or exitPortalMode; under one they are at most that.
ServicesFollow ==
    (Undisturbed /\ ~UserToggles)
        => IF rec = NoRec THEN Posture(live) = intent ELSE Posture(live) \subseteq intent

\* What KillSwitch and Enabled report, protection by protection.
LEMMA PostureIs ==
    ASSUME NEW l
    PROVE  /\ Posture(l) \subseteq {"ks", "dns"}
           /\ "ks" \in Posture(l) <=> "lanwan" \notin l
           /\ "dns" \in Posture(l) <=> "doh" \in l
BY DEF Posture

LEMMA TogglesBoolean ==
    /\ UserToggles \in BOOLEAN /\ UserToggles' \in BOOLEAN
    /\ Undisturbed \in BOOLEAN /\ Undisturbed' \in BOOLEAN
BY DEF UserToggles, Undisturbed

\* A step that shows nothing.
LEMMA ShowsNothing ==
    ASSUME intent' = intent, live' = live, Held' = Held,
           UserToggles' <=> UserToggles, Undisturbed' <=> Undisturbed
    PROVE  UNCHANGED Shown
<1>1. UserToggles' = UserToggles /\ Undisturbed' = Undisturbed
  BY TogglesBoolean
<1>. QED
  BY <1>1 DEF Shown, Posture

\* Services that agree on one of the two protections differ in the other at most.
LEMMA OneProtection ==
    ASSUME NEW l, NEW m,
           \/ "doh" \in m <=> "doh" \in l
           \/ "lanwan" \in m <=> "lanwan" \in l
    PROVE  \E x \in {"ks", "dns"} : 
              /\ Posture(m) \cup {x} = Posture(l) \cup {x}
              /\ \/ Posture(m) = Posture(l)
                 \/ x \in Posture(l) /\ Posture(m) = Posture(l) \ {x}
                 \/ x \notin Posture(l) /\ x \in Posture(m) /\ Posture(m) = Posture(l) \cup {x}
<1>1. CASE "doh" \in m <=> "doh" \in l
  BY <1>1 DEF Posture
<1>2. CASE "lanwan" \in m <=> "lanwan" \in l
  BY <1>2 DEF Posture
<1>. QED
  BY <1>1, <1>2

\* The machine changes one protection of the recorded posture.
LEMMA MachineMoves ==
    ASSUME Undisturbed, Undisturbed', ~UserToggles, ~UserToggles',
           intent' = intent, Held' = Held, Held # NoRec, Held = intent,
           \/ "doh" \in live' <=> "doh" \in live
           \/ "lanwan" \in live' <=> "lanwan" \in live,
           Posture(live') \subseteq intent
    PROVE  Pause!Next \/ UNCHANGED Shown
<1>1. PICK x \in {"ks", "dns"} :
              \/ Posture(live') = Posture(live)
              \/ x \in Posture(live) /\ Posture(live') = Posture(live) \ {x}
              \/ x \notin Posture(live) /\ x \in Posture(live')
                 /\ Posture(live') = Posture(live) \cup {x}
  <2>1. PICK m : m = live'
    OBVIOUS
  <2>. QED
    BY <2>1, OneProtection
<1>2. Posture(live)' = Posture(live')
  BY DEF Posture
<1>3. CASE Posture(live') = Posture(live)
  <2>1. UserToggles' = UserToggles /\ Undisturbed' = Undisturbed
    BY TogglesBoolean
  <2>. QED
    BY <1>2, <1>3, <2>1 DEF Shown
<1>4. CASE x \in Posture(live) /\ Posture(live') = Posture(live) \ {x}
  <2>1. Pause!Relax(x)
    BY <1>2, <1>4 DEF Pause!Relax
  <2>. QED
    BY <2>1 DEF Pause!Next, Pause!Machine
<1>5. CASE /\ x \notin Posture(live) /\ x \in Posture(live')
           /\ Posture(live') = Posture(live) \cup {x}
  <2>1. x \in Held
    BY <1>5
  <2>2. Pause!Restore(x)
    BY <1>2, <1>5, <2>1 DEF Pause!Restore
  <2>. QED
    BY <2>2 DEF Pause!Next, Pause!Machine
<1>. QED
  BY <1>1, <1>3, <1>4, <1>5

\* The user switches one protection.
LEMMA UserMoves ==
    ASSUME Undisturbed, Undisturbed', UserToggles, UserToggles',
           intent' = intent, Held' = Held,
           \/ "doh" \in live' <=> "doh" \in live
           \/ "lanwan" \in live' <=> "lanwan" \in live
    PROVE  Pause!Next
<1>1. PICK x \in {"ks", "dns"} : Posture(live') \cup {x} = Posture(live) \cup {x}
  <2>1. PICK m : m = live'
    OBVIOUS
  <2>. QED
    BY <2>1, OneProtection
<1>2. Posture(live)' = Posture(live')
  BY DEF Posture
<1>3. Pause!Switch
  BY <1>1, <1>2 DEF Pause!Switch
<1>. QED
  BY <1>3 DEF Pause!Next

\* Undisturbed, the one handler under way tells whether the user is switching.
LEMMA TogglesMove ==
    ASSUME TypeOK, Progress, NEW p \in Procs, Busy(p) \/ Quiet,
           NEW l, pc' = [pc EXCEPT ![p] = l],
           \A q \in Procs : q # p => op'[q] = op[q]
    PROVE  /\ UserToggles <=> Busy(p) /\ op[p] \in Toggles
           /\ UserToggles' <=> l \in BusyPCs /\ op'[p] \in Toggles
<1>1. \A q \in Procs : q # p => ~Busy(q)
  BY DEF Progress, OneBusy, Quiet
<1>2. \A q \in Procs : q # p => pc'[q] \notin BusyPCs
  BY <1>1 DEF Busy, TypeOK
<1>3. pc'[p] = l
  BY DEF TypeOK
<1>4. UserToggles <=> Busy(p) /\ op[p] \in Toggles
  BY <1>1 DEF UserToggles, Toggles
<1>5. UserToggles' <=> l \in BusyPCs /\ op'[p] \in Toggles
  BY <1>2, <1>3 DEF UserToggles, Toggles, Busy
<1>. QED
  BY <1>4, <1>5

\* A service command goes on with its handler, and brings at most one
\* protection into force or out of it.
LEMMA ServiceShows ==
    ASSUME TypeOK, RestoreInv, Undisturbed, Faults = {}, NEW p \in Procs, Service(p)
    PROVE  /\ Busy(p) /\ pc[p] \in KsPCs \cup DnsPCs \cup FcPCs
           /\ UNCHANGED <<rec, op, loc, intent, history>>
           /\ \E l \in BusyPCs : pc' = [pc EXCEPT ![p] = l]
           /\ \/ "doh" \in live' <=> "doh" \in live
              \/ "lanwan" \in live' <=> "lanwan" \in live
<1>1. ~Fails(p)
  BY DEF Fails, RestoreInv
<1>2. OpOfPc(op[p], pc[p])
  BY DEF RestoreInv, OpsMatch
<1>3. {AfterKS(p), AfterFC(p), "ks_flush", "en_fw", "dis_fw", "dns_restart", "dns_reload", "fc_reload"}
        \subseteq BusyPCs
  BY DEF AfterKS, AfterFC, BusyPCs, EnterPCs, ExitPCs, KsPCs, DnsPCs, FcPCs, TogglePCs
<1>4. AfterDns(p) \in BusyPCs
  BY DEF AfterDns, BusyPCs, EnterPCs, ExitPCs, FcPCs, TogglePCs
<1>5. ASSUME NEW from \in KsPCs \cup DnsPCs \cup FcPCs, NEW c, NEW l, NEW yes \in BusyPCs, NEW after,
             Command(p, from, c, l, yes, after)
      PROVE  /\ Busy(p) /\ pc[p] \in KsPCs \cup DnsPCs \cup FcPCs
             /\ UNCHANGED <<rec, op, loc, intent, history>>
             /\ \E n \in BusyPCs : pc' = [pc EXCEPT ![p] = n]
             /\ live' = l
  BY <1>1, <1>5 DEF Command, Run, Goto, Busy, BusyPCs, store, ghost
<1>6. {"en_dhcp", "en_fw", "dis_dhcp", "dis_fw", "dns_restart", "dns_reload", "fc_cfg"}
        \subseteq KsPCs \cup DnsPCs \cup FcPCs
  BY DEF DnsPCs, FcPCs
<1>7. CASE KillSwitchScript(p)
  BY <1>1, <1>3, <1>7
  DEF KillSwitchScript, Run, Goto, Busy, BusyPCs, KsPCs, Reload, store, ghost
<1>8. CASE FlushConntrack(p)
  BY <1>3, <1>8 DEF FlushConntrack, Goto, Busy, BusyPCs, KsPCs, store, ghost
<1>9. CASE EnableDhcp(p)
  BY <1>3, <1>5, <1>6, <1>9 DEF EnableDhcp
<1>10. CASE EnableRules(p)
  BY <1>3, <1>5, <1>6, <1>10 DEF EnableRules
<1>11. CASE DisableDhcp(p)
  BY <1>3, <1>5, <1>6, <1>11 DEF DisableDhcp
<1>12. CASE DisableRules(p)
  BY <1>3, <1>5, <1>6, <1>12 DEF DisableRules
<1>13. CASE RestartDnsmasq(p)
  <2>1. "lanwan" \in Restart(live, cfg) <=> "lanwan" \in live
    BY DEF Restart
  <2>. QED
    BY <1>3, <1>5, <1>6, <1>13, <2>1 DEF RestartDnsmasq
<1>14. CASE ReloadFirewall(p)
  <2>1. "doh" \in Reload(live, cfg) <=> "doh" \in live
    BY DEF Reload
  <2>. QED
    BY <1>4, <1>5, <1>6, <1>14, <2>1 DEF ReloadFirewall
<1>15. CASE FailClosedRule(p)
  BY <1>3, <1>5, <1>6, <1>15 DEF FailClosedRule
<1>16. CASE FailClosedReload(p)
  BY <1>1, <1>3, <1>16
  DEF FailClosedReload, Goto, Busy, BusyPCs, FcPCs, Reload, store, ghost
<1>. QED
  BY <1>7, <1>8, <1>9, <1>10, <1>11, <1>12, <1>13, <1>14, <1>15, <1>16 DEF Service

\* A record that is held is a posture, so it is told apart from none.
LEMMA HeldIs ==
    ASSUME TypeOK
    PROVE  /\ rec = NoRec => Held = NoRec
           /\ rec # NoRec => Held = rec.saved /\ Held # NoRec
BY HeldAssumption DEF Held, TypeOK, PortalRecord

LEMMA ServicePause ==
    ASSUME TypeOK, RestoreInv, Undisturbed, Faults = {}, NEW p \in Procs, Service(p)
    PROVE  Pause!Next \/ UNCHANGED Shown
<1>1. /\ Busy(p) /\ pc[p] \in KsPCs \cup DnsPCs \cup FcPCs
      /\ UNCHANGED <<rec, op, loc, intent, history>>
      /\ \E l \in BusyPCs : pc' = [pc EXCEPT ![p] = l]
      /\ \/ "doh" \in live' <=> "doh" \in live
         \/ "lanwan" \in live' <=> "lanwan" \in live
  BY ServiceShows
<1>2. Progress /\ BusyInv(p) /\ Undisturbed' /\ Held' = Held
  BY <1>1 DEF RestoreInv, Progress, Undisturbed, Held
<1>3. PICK l \in BusyPCs : pc' = [pc EXCEPT ![p] = l]
  BY <1>1
<1>4. (UserToggles <=> op[p] \in Toggles) /\ (UserToggles' <=> op[p] \in Toggles)
  BY <1>1, <1>2, <1>3, TogglesMove
<1>5. CASE op[p] \in Toggles
  BY <1>1, <1>2, <1>4, <1>5, UserMoves
<1>6. CASE op[p] \notin Toggles
  <2>1. op[p] \in {"enter", "exit"}
    BY <1>1, <1>6 DEF RestoreInv, OpsMatch, OpOfPc, KsPCs, DnsPCs, FcPCs, Toggles
  <2>2. rec # NoRec /\ Held # NoRec /\ Held = intent
    <3>1. rec # NoRec
      BY <1>1, <1>2, <2>1 DEF BusyInv, EnterInv, ExitInv, KsPCs, DnsPCs, FcPCs
    <3>2. rec.saved = intent
      BY <1>2, <3>1 DEF Progress, SavedIsPosture, Undisturbed
    <3>. QED
      BY <3>1, <3>2, HeldIs
  <2>3. PausedRouter'
    <3>1. Progress'
      BY ServiceProgress
    <3>2. Busy(p)' /\ op'[p] \in {"enter", "exit"} /\ rec' # NoRec
      BY <1>1, <1>3, <2>1, <2>2 DEF Busy, TypeOK
    <3>. QED
      BY <3>1, <3>2 DEF Progress, BusyInv, EnterInv, ExitInv, Idle
  <2>4. Posture(live') \subseteq intent
    <3>1. PausedRouter' => Posture(live') \subseteq intent'
      BY <1>1, PostureIs DEF PausedRouter, DnsSections, TypeOK
    <3>. QED
      BY <1>1, <2>3, <3>1
  <2>. QED
    BY <1>1, <1>2, <1>4, <1>6, <2>2, <2>4, MachineMoves
<1>. QED
  BY <1>5, <1>6

\* enterPortalMode shows the record it saves, and nothing else of itself.
LEMMA EnterPause ==
    ASSUME TypeOK, RestoreInv, Undisturbed, Faults = {}, NEW p \in Procs, Enter(p), Undisturbed'
    PROVE  Pause!Next \/ UNCHANGED Shown
<1> USE DEF router, store, ghost
<1>1. /\ Progress /\ Busy(p) /\ op[p] = "enter" /\ EnterInv(p) /\ ~Fails(p)
  BY DEF RestoreInv, Progress, OpsMatch, OpOfPc, Enter, EnterRead, EnterQueryKS, EnterQueryDNS,
         EnterSave, EnterDown, EnterDone, Busy, BusyPCs, EnterPCs, BusyInv, Fails
<1>2. UNCHANGED <<live, intent, op>> /\ \E l : pc' = [pc EXCEPT ![p] = l]
  BY DEF Enter, EnterRead, EnterQueryKS, EnterQueryDNS, EnterSave, EnterDown, EnterDone, Query,
         Goto
<1>3. ~UserToggles /\ ~UserToggles'
  BY <1>1, <1>2, TogglesMove DEF Toggles
<1>4. CASE EnterSave(p)
  <2>1. rec' = [loc[p] EXCEPT !.left = Window] /\ loc[p].saved = intent /\ Idle
    BY <1>1, <1>4 DEF EnterSave, EnterInv
  <2>2. rec' \in PortalRecord /\ rec'.saved = intent
    BY <2>1, WindowAssumption DEF TypeOK, PortalRecord
  <2>3. rec' # NoRec
    BY <2>2, RecAssumption
  <2>4. Held' = intent
    BY <2>2, <2>3 DEF Held
  <2>5. CASE rec = NoRec
    <3>1. Posture(live) = intent
      BY <2>1, <2>5, TargetSections DEF Idle, Settled, Base, TypeOK
    <3>2. Posture(live)' = Posture(live)
      BY <1>2 DEF Posture
    <3>3. Pause!Pause
      BY <1>2, <2>4, <2>5, <3>1, <3>2, HeldIs DEF Pause!Pause
    <3>. QED
      BY <1>3, <3>3 DEF Pause!Next, Pause!Machine
  <2>6. CASE rec # NoRec
    <3>1. Held = intent
      BY <1>1, <2>6, HeldIs DEF Progress, SavedIsPosture, Undisturbed
    <3>. QED
      BY <1>2, <1>3, <2>4, <3>1, ShowsNothing
  <2>. QED
    BY <2>5, <2>6
<1>5. CASE ~EnterSave(p)
  <2>1. Held' = Held
    BY <1>5 DEF Enter, EnterRead, EnterQueryKS, EnterQueryDNS, EnterDown, EnterDone, Query, Held
  <2>. QED
    BY <1>2, <1>3, <2>1, ShowsNothing
<1>. QED
  BY <1>4, <1>5

\* exitPortalMode gives the record up when all of the posture is back.
LEMMA ExitPause ==
    ASSUME TypeOK, RestoreInv, Undisturbed, Faults = {}, NEW p \in Procs, Exit(p), Undisturbed'
    PROVE  Pause!Next \/ UNCHANGED Shown
<1> USE DEF router, store, ghost
<1>1. Progress /\ Busy(p) /\ op[p] = "exit" /\ ExitInv(p)
  BY DEF RestoreInv, Progress, OpsMatch, OpOfPc, Exit, ExitRead, ExitUp, ExitClear, Busy, BusyPCs,
         ExitPCs, BusyInv
<1>2. UNCHANGED <<live, intent, op>> /\ \E l : pc' = [pc EXCEPT ![p] = l]
  BY DEF Exit, ExitRead, ExitUp, ExitClear, Query, Goto
<1>3. ~UserToggles /\ ~UserToggles'
  BY <1>1, <1>2, TogglesMove DEF Toggles
<1>4. CASE ExitClear(p)
  <2>1. rec' = NoRec /\ rec # NoRec /\ live = Target(intent)
    BY <1>1, <1>4 DEF ExitClear, ExitInv
  <2>2. Posture(live) = intent /\ Posture(live)' = Posture(live)
    BY <1>2, <2>1, TargetSections DEF TypeOK, Posture
  <2>3. Held = intent /\ Held # NoRec /\ Held' = NoRec
    BY <1>1, <2>1, HeldIs DEF Progress, SavedIsPosture, Undisturbed, Held
  <2>4. Pause!Resume
    BY <1>2, <2>2, <2>3 DEF Pause!Resume
  <2>. QED
    BY <1>3, <2>4 DEF Pause!Next, Pause!Machine
<1>5. CASE ~ExitClear(p)
  <2>1. Held' = Held
    BY <1>5 DEF Exit, ExitRead, ExitUp, Query, Held
  <2>. QED
    BY <1>2, <1>3, <2>1, ShowsNothing
<1>. QED
  BY <1>4, <1>5

\* A toggle that returns leaves a posture that is the user's from then on.
LEMMA TogglePause ==
    ASSUME TypeOK, RestoreInv, Undisturbed, Faults = {}, NEW p \in Procs, Toggle(p), Undisturbed'
    PROVE  Pause!Next \/ UNCHANGED Shown
<1> USE DEF router, store, ghost
<1>1. /\ Progress /\ Busy(p) /\ BusyInv(p) /\ ~Fails(p)
      /\ op[p] \in Toggles
      /\ ~SetAP(p) /\ ~ApplyDNSDefault(p) /\ pc[p] # "ap_mark"
  BY DEF RestoreInv, Progress, OpsMatch, OpOfPc, Toggle, KillSwitchAskDNS, DnsAskKS, DnsMark,
         CancelRead, CancelDelete, SetAP, ApplyDNSDefault, Busy, BusyPCs, TogglePCs, Fails, Toggles
<1>2. {"fc_cfg", "c_read", "c_del", "d_mark"} \subseteq BusyPCs /\ "ret" \notin BusyPCs
  BY DEF BusyPCs, EnterPCs, ExitPCs, KsPCs, DnsPCs, FcPCs, TogglePCs
<1>3. rec = NoRec \/ history = "clean" => ToggleInv(p)
  BY <1>1 DEF BusyInv, Toggles
<1>4. UNCHANGED <<live, op>> /\ UserToggles
  <2>1. UNCHANGED <<live, op>> /\ \E l : pc' = [pc EXCEPT ![p] = l]
    BY DEF Toggle, KillSwitchAskDNS, DnsAskKS, DnsMark, CancelRead, CancelDelete, SetAP,
           ApplyDNSDefault, Query, Goto
  <2>. QED
    BY <1>1, <2>1, TogglesMove
<1>5. ASSUME ~UserToggles', Posture(live) = intent', rec' = NoRec
      PROVE  Pause!Next
  <2>1. Held' = NoRec /\ Posture(live)' = Posture(live)
    BY <1>4, <1>5 DEF Held, Posture
  <2>2. Pause!HandBack
    BY <1>4, <1>5, <2>1 DEF Pause!HandBack
  <2>. QED
    BY <2>2 DEF Pause!Next
<1>6. ASSUME NEW l \in BusyPCs, pc' = [pc EXCEPT ![p] = l], UNCHANGED <<rec, intent>>
      PROVE  UNCHANGED Shown
  <2>1. UserToggles' /\ Held' = Held
    BY <1>1, <1>4, <1>6, TogglesMove DEF Held
  <2>. QED
    BY <1>4, <1>6, <2>1, ShowsNothing
<1>7. ASSUME pc' = [pc EXCEPT ![p] = "ret"]
      PROVE  ~UserToggles'
  BY <1>1, <1>2, <1>4, <1>7, TogglesMove
<1>8. Toggled(Base, op[p]) \in SUBSET {"ks", "dns"}
  BY BaseType
<1>9. CASE KillSwitchAskDNS(p)
  BY <1>1, <1>2, <1>6, <1>9 DEF KillSwitchAskDNS, Query, Goto
<1>10. CASE DnsAskKS(p)
  BY <1>1, <1>2, <1>6, <1>10 DEF DnsAskKS, Query, Goto
<1>11. CASE DnsMark(p)
  BY <1>1, <1>2, <1>6, <1>11 DEF DnsMark, Goto
<1>12. CASE CancelRead(p)
  <2>1. CASE rec = NoRec
    <3>1. intent' = Toggled(Base, op[p]) /\ rec' = NoRec /\ pc' = [pc EXCEPT ![p] = "ret"]
      BY <1>12, <2>1 DEF CancelRead, Goto, Base
    <3>2. live = Target(Toggled(Base, op[p]))
      BY <1>3, <1>12, <2>1 DEF ToggleInv, CancelRead
    <3>. QED
      BY <1>5, <1>7, <1>8, <3>1, <3>2, TargetSections
  <2>2. CASE rec # NoRec
    BY <1>2, <1>6, <1>12, <2>2 DEF CancelRead, ReadFails, Goto
  <2>. QED
    BY <2>1, <2>2
<1>13. CASE CancelDelete(p)
  <2>1. /\ rec' = NoRec /\ intent' = Posture(cfg) /\ history = "clean" /\ pc[p] = "c_del"
        /\ pc' = [pc EXCEPT ![p] = "ret"]
    BY <1>13 DEF CancelDelete, TakesOver, Goto, Undisturbed
  <2>2. live = cfg
    BY <1>3, <2>1 DEF ToggleInv
  <2>. QED
    BY <1>5, <1>7, <2>1, <2>2
<1>. QED
  BY <1>1, <1>9, <1>10, <1>11, <1>12, <1>13 DEF Toggle

\* Nobody's business of the pause: no busy process moves, none becomes busy.
LEMMA AsidePause ==
    ASSUME Undisturbed, Undisturbed', UNCHANGED <<live, intent>>, Held' = Held,
           \A q \in Procs : /\ Busy(q)' <=> Busy(q)
                            /\ Busy(q) => op'[q] = op[q]
    PROVE  UNCHANGED Shown
<1>1. UserToggles' <=> UserToggles
  BY DEF UserToggles
<1>. QED
  BY <1>1, ShowsNothing

\* A handler begins: the user takes over with a toggle, otherwise nothing shows.
LEMMA BeginPause ==
    ASSUME TypeOK, Progress, Undisturbed, NEW p \in Procs, ~Busy(p),
           NEW o \in AllOps \ {"ap"}, NEW r, Begin(p, o, r),
           UNCHANGED <<live, rec, intent>>, Undisturbed'
    PROVE  Pause!Next \/ UNCHANGED Shown
<1>1. /\ pc' = [pc EXCEPT ![p] = First(o)] /\ op'[p] = o
      /\ \A q \in Procs : q # p => op'[q] = op[q] /\ pc'[q] = pc[q]
      /\ pc'[p] = First(o)
  BY DEF Begin, Goto, TypeOK
<1>2. Held' = Held
  BY DEF Held
<1>3. CASE o \notin PostureOps
  <2>1. First(o) \notin BusyPCs
    BY <1>3 DEF First, AllOps, PostureOps, BusyPCs, EnterPCs, ExitPCs, KsPCs, DnsPCs, FcPCs,
                TogglePCs
  <2>2. \A q \in Procs : /\ Busy(q)' <=> Busy(q)
                         /\ Busy(q) => op'[q] = op[q]
    BY <1>1, <2>1 DEF Busy
  <2>. QED
    BY <1>2, <2>2, AsidePause
<1>4. CASE o \in PostureOps
  <2>1. Quiet
    BY <1>4 DEF Begin, Overlap, Undisturbed, Quiet
  <2>2. ~UserToggles /\ (UserToggles' <=> First(o) \in BusyPCs /\ o \in Toggles)
    BY <1>1, <2>1, TogglesMove
  <2>3. CASE o \in Toggles
    <3>1. UserToggles'
      BY <2>2, <2>3 DEF First, Toggles, BusyPCs, KsPCs, DnsPCs
    <3>2. Posture(live)' = Posture(live)
      BY DEF Posture
    <3>3. Pause!TakeOver
      BY <1>2, <2>2, <3>1, <3>2 DEF Pause!TakeOver
    <3>. QED
      BY <3>3 DEF Pause!Next
  <2>4. CASE o \notin Toggles
    BY <1>2, <2>2, <2>4, ShowsNothing
  <2>. QED
    BY <2>3, <2>4
<1>. QED
  BY <1>3, <1>4

\* A restart may bring encrypted DNS into force or out of it, where a pause or
\* a restore was cut between the commit and the service.
LEMMA KilledPause ==
    ASSUME TypeOK, Progress, Undisturbed, Crash \/ Reboot, Undisturbed'
    PROVE  Pause!Next \/ UNCHANGED Shown
<1>1. Killed /\ live' \in {live, cfg} /\ UNCHANGED <<rec, intent>>
  BY DEF Crash, Reboot, Killed, store
<1>2. \A p \in Procs : Busy(p) => op[p] \in {"enter", "exit"}
  BY <1>1 DEF Killed, Undisturbed
<1>3. \A p \in Procs : ~Busy(p)'
  BY <1>1 DEF Killed, Busy, Rest, BusyPCs, EnterPCs, ExitPCs, KsPCs, DnsPCs, FcPCs, TogglePCs
<1>4. ~UserToggles /\ ~UserToggles' /\ Held' = Held
  BY <1>1, <1>2, <1>3 DEF UserToggles, Held
<1>5. /\ rec = NoRec => Settled
      /\ rec # NoRec => PausedRouter
  <2>1. CASE Quiet
    BY <2>1 DEF Progress, Idle
  <2>2. CASE ~Quiet
    BY <1>2, <2>2, BusyRouter DEF Quiet
  <2>. QED
    BY <2>1, <2>2
<1>6. CASE rec = NoRec
  BY <1>1, <1>4, <1>5, <1>6, ShowsNothing DEF Settled
<1>7. CASE rec # NoRec
  <2>1. Held # NoRec /\ Held = intent
    BY <1>7, HeldIs DEF Progress, SavedIsPosture, Undisturbed
  <2>2. "lanwan" \in live' <=> "lanwan" \in live
    BY <1>1, <1>5, <1>7 DEF PausedRouter
  <2>3. /\ "ks" \notin intent => "lanwan" \in live'
        /\ "dns" \notin intent => "doh" \notin live'
    BY <1>1, <1>5, <1>7 DEF PausedRouter, DnsSections
  <2>4. Posture(live') \subseteq intent
    BY <2>3, PostureIs
  <2>. QED
    BY <1>1, <1>4, <2>1, <2>2, <2>4, MachineMoves
<1>. QED
  BY <1>6, <1>7

\* Handlers of no concern to the pause, the clock and client traffic.
LEMMA OthersPause ==
    ASSUME TypeOK, Undisturbed, Undisturbed',
           (\E p \in Procs : Other(p) \/ Return(p)) \/ Tick \/ OpenFlow \/ UNCHANGED vars
    PROVE  UNCHANGED Shown
<1> USE DEF router, store, ghost, Goto
<1>1. ASSUME NEW p \in Procs, Other(p) \/ Return(p)
      PROVE  UNCHANGED Shown
  <2>1. \E l \in {"ret", "im_sum", Rest(p)} : pc' = [pc EXCEPT ![p] = l]
    BY <1>1 DEF Other, JoinUplink, SetTunnel, Import, ImportSummary, Return
  <2>2. PICK l \in {"ret", "im_sum", Rest(p)} : pc' = [pc EXCEPT ![p] = l]
    BY <2>1
  <2>3. l \notin BusyPCs /\ ~Busy(p)
    BY <1>1 DEF Rest, Busy, Other, JoinUplink, SetTunnel, Import, ImportSummary, Return, BusyPCs,
                EnterPCs, ExitPCs, KsPCs, DnsPCs, FcPCs, TogglePCs
  <2>4. /\ UNCHANGED <<live, rec, intent>>
        /\ \A q \in Procs : q # p => op'[q] = op[q]
    BY <1>1 DEF Other, JoinUplink, SetTunnel, Import, ImportSummary, Return, TypeOK
  <2>5. \A q \in Procs : pc'[q] = IF q = p THEN l ELSE pc[q]
    BY <2>2 DEF TypeOK
  <2>6. \A q \in Procs : /\ Busy(q)' <=> Busy(q)
                         /\ Busy(q) => op'[q] = op[q]
    BY <2>3, <2>4, <2>5 DEF Busy
  <2>7. Held' = Held
    BY <2>4 DEF Held
  <2>. QED
    BY <2>4, <2>6, <2>7, AsidePause
<1>2. CASE Tick
  <2>1. ASSUME NEW r \in PortalRecord
        PROVE  Later(r) \in PortalRecord /\ Later(r).saved = r.saved
    BY <2>1, WindowAssumption DEF Later, PortalRecord
  <2>2. Held' = Held
    BY <1>2, <2>1, RecAssumption DEF Tick, TypeOK, Held
  <2>3. UNCHANGED <<live, intent, pc, op>>
    BY <1>2 DEF Tick
  <2>. QED
    BY <2>2, <2>3, AsidePause DEF Busy
<1>3. CASE OpenFlow \/ UNCHANGED vars
  <2>1. UNCHANGED <<live, rec, intent, pc, op>>
    BY <1>3 DEF OpenFlow, vars, process
  <2>2. Held' = Held
    BY <2>1 DEF Held
  <2>. QED
    BY <2>1, <2>2, AsidePause DEF Busy
<1>. QED
  BY <1>1, <1>2, <1>3

LEMMA WatchPause ==
    ASSUME TypeOK, Progress, Undisturbed, Faults = {}, Watching, Undisturbed'
    PROVE  Pause!Next \/ UNCHANGED Shown
<1>1. Watch \in Procs /\ ~Busy(Watch) /\ WatchPCs \cap BusyPCs = {}
  BY WatchKinds
<1>2. CASE WatchSave
  <2>1. /\ UNCHANGED <<live, intent>>
        /\ rec # NoRec /\ rec' # NoRec /\ rec'.saved = rec.saved
        /\ \A q \in Procs : ~Busy(q) /\ ~Busy(q)'
    BY <1>2, WatchSaveAside
  <2>2. Held' = Held
    BY <2>1 DEF Held
  <2>. QED
    BY <2>1, <2>2, AsidePause
<1>3. ASSUME NEW o \in {"enter", "exit"}, NEW u \in Urls \cup {NoUrl},
             Begin(Watch, o, [EmptyRec EXCEPT !.url = u]),
             UNCHANGED <<live, rec, intent>>
      PROVE  Pause!Next \/ UNCHANGED Shown
  <2>1. o \in AllOps \ {"ap"}
    BY DEF AllOps
  <2>2. PICK r : r = [EmptyRec EXCEPT !.url = u]
    OBVIOUS
  <2>. QED
    BY <1>1, <1>3, <2>1, <2>2, BeginPause
<1>4. ASSUME NEW l \in WatchPCs, pc' = [pc EXCEPT ![Watch] = l],
             UNCHANGED <<live, rec, intent, op>>
      PROVE  UNCHANGED Shown
  <2>1. \A q \in Procs : pc'[q] = IF q = Watch THEN l ELSE pc[q]
    BY <1>4 DEF TypeOK
  <2>2. \A q \in Procs : Busy(q)' <=> Busy(q)
    BY <1>1, <2>1 DEF Busy
  <2>3. Held' = Held
    BY <1>4 DEF Held
  <2>. QED
    BY <1>4, <2>2, <2>3, AsidePause
<1>. QED
  BY <1>2, <1>3, <1>4, WatchKinds

LEMMA InitPause == Init => Pause!Init
<1> SUFFICES ASSUME Init PROVE Pause!Init
  OBVIOUS
<1>1. intent \in SUBSET {"ks", "dns"} /\ Posture(live) = intent
  BY TargetSections DEF Init
<1>2. Held = NoRec
  BY DEF Init, Held
<1>3. UserToggles = FALSE
  BY DEF Init, UserToggles
<1>4. Undisturbed = TRUE
  BY DEF Init, Undisturbed
<1>. QED
  BY <1>1, <1>2, <1>3, <1>4 DEF Pause!Init

LEMMA StepPause ==
    ASSUME Faults = {}, "ap" \notin Ops
    PROVE  TypeOK /\ RestoreInv /\ [Next]_vars => [Pause!Next]_Shown
<1> SUFFICES ASSUME TypeOK, RestoreInv, [Next]_vars
             PROVE  Pause!Next \/ UNCHANGED Shown
  OBVIOUS
<1>1. CASE ~Undisturbed'
  BY <1>1 DEF Pause!Next
<1>2. CASE Undisturbed'
  <2>1. Undisturbed /\ Progress
    BY <1>2, DisturbedStays DEF Undisturbed, RestoreInv
  <2>2. ASSUME NEW c \in Clients, NEW o \in Ops, Request(c, o)
        PROVE  Pause!Next \/ UNCHANGED Shown
    <3>1. /\ c \in Procs /\ o \in AllOps \ {"ap"} /\ Begin(c, o, EmptyRec)
          /\ UNCHANGED <<live, rec, intent>>
      BY <2>2, OpsAssumption DEF Request, router, store
    <3>2. ~Busy(c)
      BY <2>2 DEF Request, Busy, BusyPCs, EnterPCs, ExitPCs, KsPCs, DnsPCs, FcPCs, TogglePCs
    <3>. QED
      BY <1>2, <2>1, <3>1, <3>2, BeginPause
  <2>3. ASSUME NEW p \in Procs, Step(p)
        PROVE  Pause!Next \/ UNCHANGED Shown
    BY <1>2, <2>1, <2>3, ServicePause, EnterPause, ExitPause, TogglePause, OthersPause DEF Step
  <2>4. ASSUME NEW p \in Procs
        PROVE  ~ContextDone(p)
    BY DEF ContextDone
  <2>5. CASE Environment
    BY <1>2, <2>1, <2>5, OthersPause, KilledPause DEF Environment
  <2>6. CASE UNCHANGED vars
    BY <1>2, <2>1, <2>6, OthersPause
  <2>7. CASE Watching
    BY <1>2, <2>1, <2>7, WatchPause
  <2>. QED
    BY <2>2, <2>3, <2>4, <2>5, <2>6, <2>7 DEF Next
<1>. QED
  BY <1>1, <1>2

\* Where no command fails and the first-boot DNS default does not run, the
\* daemon implements PortalPause, for any number of clients, requests and
\* restarts and any window: until something disturbs it, protections go off
\* only under a record of the user's posture and come back only as recorded.
THEOREM DaemonImplementsPause ==
    ASSUME Faults = {}, "ap" \notin Ops
    PROVE  Spec => PauseAsPromised
<1>1. TypeOK /\ RestoreInv /\ [Next]_vars
        => [Pause!Next]_<<intent, Posture(live), Held, UserToggles, Undisturbed>>
  BY StepPause DEF Shown
<1>. QED
  BY <1>1, InitPause, TypeCorrect, RestoreInvariant, PTL
  DEF Spec, PauseAsPromised, Pause!Spec

\* At every instant, within a handler and after a restart at any of its steps,
\* an undisturbed daemon enforces all of the user's posture or has it on record,
\* and it never enforces a protection that the user had not chosen.
THEOREM ServicesFollowRecord ==
    ASSUME Faults = {}, "ap" \notin Ops
    PROVE  Spec => []ServicesFollow
<1>1. TypeOK /\ RestoreInv => ServicesFollow
  <2> SUFFICES ASSUME TypeOK, RestoreInv, Undisturbed, ~UserToggles
               PROVE  IF rec = NoRec THEN Posture(live) = intent ELSE Posture(live) \subseteq intent
    BY DEF ServicesFollow
  <2>1. Progress /\ intent \in SUBSET {"ks", "dns"}
    BY DEF RestoreInv, TypeOK
  <2>2. \A p \in Procs : Busy(p) => op[p] \in {"enter", "exit"}
    BY DEF UserToggles, RestoreInv, OpsMatch, OpOfPc, Busy, BusyPCs, EnterPCs, ExitPCs, KsPCs,
           DnsPCs, FcPCs, TogglePCs
  <2>3. /\ rec = NoRec => Settled
        /\ rec # NoRec => PausedRouter
    BY <2>1, <2>2, BusyRouter DEF Progress, Idle, Quiet
  <2>4. CASE rec = NoRec
    BY <2>1, <2>3, <2>4, TargetSections DEF Settled, Base
  <2>5. CASE rec # NoRec
    BY <2>1, <2>3, <2>5, PostureIs DEF PausedRouter, DnsSections
  <2>. QED
    BY <2>4, <2>5
<1>. QED
  BY <1>1, TypeCorrect, RestoreInvariant, PTL
=============================================================================
