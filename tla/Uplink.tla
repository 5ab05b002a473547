------------------------------- MODULE Uplink -------------------------------
(***************************************************************************)
(* Wi-Fi and the identity the hotel sees: the travel AP, joining an        *)
(* uplink, and rolling the MAC and hostname by hand or daily.              *)
(*                                                                         *)
(* Every operation is a list of commands run one by one with no lock over  *)
(* it.  `uci set` and `uci delete` stage a change under /tmp, for all to   *)
(* see and to commit; `uci commit` writes what is staged in one package to *)
(* flash; a reload makes one package's flash contents live.  What is       *)
(* staged outlives the request and the daemon, but not the device.         *)
(***************************************************************************)
EXTENDS Integers, Sequences, FiniteSets, Functions

CONSTANTS
    Requests,   \* HTTP requests that run at once
    Networks,   \* SSIDs, each with its own credentials
    MaxIds,     \* spoofed MACs told apart; one no longer in use is reused
    Day,        \* ticks of the hourly ticker in a day
    MaxFaults   \* bound on failed commands, reads and writes, crashes, power
                \* cuts and overlaps

ASSUME BoundAssumption == MaxIds \in Nat \ {0} /\ {Day, MaxFaults} \subseteq Nat
\* Flash, the radio, what is staged and each job hold at most one MAC each.
ASSUME IdsAssumption   == IsFiniteSet(Requests) /\ MaxIds > Cardinality(Requests) + 4
ASSUME NoneAssumption  == "none" \notin Networks
ASSUME LoopAssumption  == "loop" \notin Requests

Jobs  == Requests \cup {"loop"}
Modes == {"off", "on-join", "daily"}

Profiles == {"generic", "vendor"}

\* The hardware address; the hostname of the generic profile, that is, none.
Hw == 0
NoHost == "generic"

\* The options told apart, by UCI package: ssid (with encryption and key) and
\* mac of mistui_sta, and wwan's hostname.  Those of the AP are not.
Wireless == {"ssid", "mac"}
Network  == {"host"}
Options  == Wireless \cup Network
Package  == [wireless |-> Wireless, network |-> Network]

VARIABLES
    staged,   \* uncommitted changes: option to value
    saved,    \* the packages in flash
    live,     \* what the radio and the DHCP client run with
    zoned,    \* wwan is in the firewall's wan zone
    job,      \* per job: what it does and the commands it has yet to run
    mode,     \* mac_schedule
    profile,  \* mac_profile: "generic" or a vendor's
    age,      \* hours since mac_last_roll, Day standing for more or no key
    faults,   \* how many there were
    want,     \* history: what the last join asked for, rolls included
    met,      \* history: networks that have seen the live MAC
    gap,      \* history: hours the live spoofed MAC has been in use
    history   \* "clean", "hushed" by a failure nobody heard of, "cut" by a
              \* power loss, or "mixed" (see Hush and Mix)

uci     == <<staged, saved, live, zoned>>
prefs   == <<mode, profile>>
radio   == <<met, gap>>
vars    == <<staged, saved, live, zoned, job, mode, profile, age, faults, want, met, gap, history>>

Value == [mac |-> 0..MaxIds, host |-> Profiles, ssid |-> Networks \cup {"none"}]

NoStage == [o \in {} |-> 0]

\* The values of f, and those of g for the options f leaves out.
Over(f, g) == [o \in DOMAIN f \cup DOMAIN g |-> IF o \in DOMAIN f THEN f[o] ELSE g[o]]

NoIdent == [mac |-> Hw, host |-> NoHost]
Unset   == Over(NoIdent, [ssid |-> "none"])
Idle    == [kind |-> "none", net |-> "none", ident |-> NoIdent, todo |-> << >>,
            alone |-> TRUE, whole |-> TRUE]
Busy(p) == job[p].kind # "none"

Init ==
    /\ staged = NoStage /\ saved = Unset /\ live = Unset
    /\ zoned = FALSE
    /\ job = [p \in Jobs |-> Idle]
    /\ mode = "on-join" /\ profile = "generic"
    /\ age = Day /\ faults = 0
    /\ want = Unset
    /\ met = {} /\ gap = Day
    /\ history = "clean"

-----------------------------------------------------------------------------
(* Commands *)

Set(o, v) == [do |-> "set", key |-> o, val |-> v]
Commit(k) == [do |-> "commit", key |-> k, val |-> "none"]
Reload(k) == [do |-> "reload", key |-> k, val |-> "none"]
Zone      == [do |-> "zone", key |-> "firewall", val |-> "none"]

\* Variant: the hostname is set after the commit of its package.
IdentifyLate(id) == <<Set("mac", id.mac), Commit("wireless"), Commit("network"),
                      Set("host", id.host)>>

\* Identity and commits, in the order of JoinUplink and ApplySTAIdentity.
Identify(id) == <<Set("mac", id.mac), Set("host", id.host),
                  Commit("wireless"), Commit("network")>>

SetAPCmds == <<Commit("wireless"), Reload("wireless")>>

\* Variant: the network is committed before its identity is set.
JoinCmdsEarly(n, id) ==
    <<Set("ssid", n), Commit("wireless")>> \o Identify(id) \o
    <<Zone, Reload("network"), Reload("wireless")>>

JoinCmds(n, id) ==
    <<Set("ssid", n)>> \o Identify(id) \o
    <<Zone, Reload("network"), Reload("wireless")>>

RollCmds(id) == Identify(id) \o <<Reload("network"), Reload("wireless")>>

\* `uci -q delete ... || true`, which clears an option of the identity, and the
\* script that ends in `uci commit firewall` say nothing of what fails in them.
\* (The key an open network leaves behind by the same means is not used.)
Deaf(c) == \/ c.do = "zone"
           \/ c.do = "set" /\ c.key \in DOMAIN NoIdent /\ c.val = NoIdent[c.key]

-----------------------------------------------------------------------------
(* What a command does *)

Keep(f, k) == Restrict(f, DOMAIN f \ Package[k])
Only(f, k) == Restrict(f, DOMAIN f \cap Package[k])

\* The live configuration becomes l: the network joined sees the MAC.
Run(l) ==
    LET seen == {l.ssid} \ {"none"}
        same == l.mac = live.mac
    IN  /\ live' = l
        /\ met' = IF same THEN met \cup seen ELSE seen
        /\ gap' = IF same THEN gap ELSE IF l.mac = Hw THEN Day ELSE 0

Stage(c) ==
    /\ c.do = "set"
    /\ staged' = Over([o \in {c.key} |-> c.val], staged)
    /\ UNCHANGED <<saved, live, zoned, radio>>

CommitPackage(c) ==
    /\ c.do = "commit"
    /\ saved' = Over(Only(staged, c.key), saved)
    /\ staged' = Keep(staged, c.key)
    /\ UNCHANGED <<live, zoned, radio>>

AddToZone(c) ==
    /\ c.do = "zone"
    /\ zoned' = TRUE
    /\ UNCHANGED <<staged, saved, live, radio>>

ReloadPackage(c) ==
    /\ c.do = "reload"
    /\ Run(Over(Only(saved, c.key), live))
    /\ UNCHANGED <<staged, saved, zoned>>

Effect(c) == Stage(c) \/ CommitPackage(c) \/ AddToZone(c) \/ ReloadPackage(c)

-----------------------------------------------------------------------------
(* Jobs *)

\* The history is mixed once a job fails, dies with the daemon, overlaps
\* another or could not note its roll, until a join runs alone and succeeds.
Mix == history' = "mixed"

Fault == faults < MaxFaults /\ faults' = faults + 1

\* History is hushed once a job goes on after a command that failed unheard.
Hush == history' = IF history \in {"clean", "hushed"} THEN "hushed" ELSE "mixed"

\* What a setting is taken for: reads that fail give the default.
Read(v, default) == {v, default}

\* Job p begins; those it overlaps are no longer alone.  It may have misread a
\* setting, and be hasty for it: a roll before its time.
Begin(p, j, misread, hasty) ==
    LET others == \E q \in Jobs : Busy(q)
    IN  /\ job' = [q \in Jobs |->
                     IF q = p THEN [j EXCEPT !.alone = ~others]
                     ELSE [job[q] EXCEPT !.alone = @ /\ ~Busy(q)]]
        /\ IF others \/ hasty THEN Mix ELSE UNCHANGED history
        /\ IF others \/ misread \/ hasty THEN Fault ELSE UNCHANGED faults

\* MACs staged, saved, live or held by a job, and one that is not.
Used == {saved.mac, live.mac} \cup {job[p].ident.mac : p \in Jobs}
        \cup {staged[o] : o \in DOMAIN staged \cap {"mac"}}
Fresh == CHOOSE i \in 1..MaxIds : i \notin Used

\* A vendor's MAC comes with a hostname of the vendor's, a generic one with none.
GenerateIdentity(f) == [mac |-> Fresh, host |-> f]

JoinUplink(r, n) ==
    \E m \in Read(mode, "on-join"), f \in Read(profile, "generic") :
        LET id == IF m = "off" THEN NoIdent ELSE GenerateIdentity(f)
        IN  /\ ~Busy(r)
            /\ Begin(r, [Idle EXCEPT !.kind = "join", !.net = n, !.ident = id,
                                     !.todo = JoinCmds(n, id)],
                     m # mode \/ f # profile, FALSE)
            /\ UNCHANGED <<uci, prefs, age, want, radio>>

SetAP(r) ==
    /\ ~Busy(r)
    /\ Begin(r, [Idle EXCEPT !.kind = "ap", !.todo = SetAPCmds], FALSE, FALSE)
    /\ UNCHANGED <<uci, prefs, age, want, radio>>

\* uci get answers for a section that is staged, too.
Configured == saved.ssid # "none" \/ "ssid" \in DOMAIN staged

ApplySTAIdentity(p, hasty) ==
    \E f \in Read(profile, "generic") :
        LET id == GenerateIdentity(f)
        IN  /\ Configured
            /\ Begin(p, [Idle EXCEPT !.kind = "roll", !.ident = id, !.todo = RollCmds(id)],
                     f # profile, hasty)

RollMAC(r) ==
    /\ ~Busy(r)
    /\ ApplySTAIdentity(r, FALSE)
    /\ UNCHANGED <<uci, prefs, age, want, radio>>

\* runAll: the next command.
Step(p) ==
    /\ job[p].todo # << >>
    /\ Effect(Head(job[p].todo))
    /\ job' = [job EXCEPT ![p].todo = Tail(@)]
    /\ UNCHANGED <<prefs, age, faults, want, history>>

\* A command fails, or is killed at the deadline with its work done; the
\* rest is not run and nothing is taken back.
StepFails(p) ==
    /\ job[p].todo # << >>
    /\ \/ Effect(Head(job[p].todo))
       \/ UNCHANGED <<uci, radio>>
    /\ job' = [job EXCEPT ![p] = Idle]
    /\ Mix /\ Fault
    /\ UNCHANGED <<prefs, age, want>>

\* A command fails and the job does not hear of it: nothing done, the list
\* goes on, and the job will report success.
StepFailsUnheard(p) ==
    /\ job[p].todo # << >>
    /\ Deaf(Head(job[p].todo))
    /\ job' = [job EXCEPT ![p].todo = Tail(@), ![p].whole = FALSE]
    /\ Hush /\ Fault
    /\ UNCHANGED <<uci, prefs, age, want, radio>>

\* Variant: the join does not note the roll it made.
NotesRollsOnly(j) == j.kind = "roll"

\* mac_last_roll is written after a roll, and after a join with an identity.
NotesRoll(j) == j.kind = "roll" \/ (j.kind = "join" /\ j.ident.mac # Hw)

\* All commands ran, as far as it knows.  A failure to note the roll is ignored.
Finish(p) ==
    LET j == job[p]
    IN  /\ Busy(p) /\ j.todo = << >>
        /\ job' = [job EXCEPT ![p] = Idle]
        /\ want' = CASE j.kind = "join" -> Over(j.ident, [ssid |-> j.net])
                     [] j.kind = "roll" -> Over(j.ident, want)
                     [] OTHER           -> want
        /\ \/ /\ age' = IF NotesRoll(j) THEN 0 ELSE age
              /\ history' = IF j.kind = "join" /\ j.alone
                            THEN IF j.whole THEN "clean" ELSE "hushed"
                            ELSE history
              /\ UNCHANGED faults
           \/ /\ NotesRoll(j)
              /\ Mix /\ Fault
              /\ UNCHANGED age
        /\ UNCHANGED <<uci, prefs, radio>>

-----------------------------------------------------------------------------
(* Settings, the schedule, failures *)

\* Variant: the mode is stored as it was sent.
MacScheduleSetAny(m) == mode # m /\ mode' = "weekly" /\ UNCHANGED profile

MacScheduleSet(m) == mode # m /\ mode' = m /\ UNCHANGED profile
MacProfileSet(f)  == profile # f /\ profile' = f /\ UNCHANGED mode

Settings ==
    /\ (\E m \in Modes : MacScheduleSet(m)) \/ (\E f \in Profiles : MacProfileSet(f))
    /\ UNCHANGED <<uci, job, age, faults, want, radio, history>>

\* Variant: an error ends the schedule.
DueUntilError(m, last) == m = "daily" /\ last = Day /\ faults = 0

\* Not before a day after the last roll that was noted.
Due(m, last) == m = "daily" /\ last = Day

\* An hour passes and the ticker wakes RunMACSchedule, which rolls or goes back
\* to sleep; its own rolls are over long before the next tick.  It misses a roll
\* if it cannot read the mode, and rolls at once if not when it last did.
Hour ==
    LET older(h) == IF h < Day THEN h + 1 ELSE h
    IN  /\ ~Busy("loop")
        /\ age' = older(age) /\ gap' = older(gap)
        /\ \E m \in Read(mode, "on-join"), last \in Read(age', Day) :
              IF Due(m, last) /\ Configured
              THEN ApplySTAIdentity("loop", last # age')
              ELSE /\ IF m # mode \/ last # age' THEN Fault ELSE UNCHANGED faults
                   /\ UNCHANGED <<job, history>>
        /\ UNCHANGED <<uci, prefs, want, met>>

\* The jobs end with the daemon or the device.
Killed == /\ job' = [p \in Jobs |-> Idle]
          /\ Fault
          /\ UNCHANGED <<saved, zoned, prefs, age, want>>

\* The daemon dies: what is staged stays.
Crash ==
    /\ Killed
    /\ IF \E p \in Jobs : Busy(p) THEN Mix ELSE UNCHANGED history
    /\ UNCHANGED <<staged, live, radio>>

\* Power loss: what is staged is gone, the device comes up with its flash.
Reboot ==
    /\ Killed
    /\ staged' = NoStage
    /\ Run(saved)
    /\ history' = IF \E p \in Jobs : Busy(p)
                  THEN IF history \in {"clean", "cut"} THEN "cut" ELSE "mixed"
                  ELSE history

Request(r) == \/ \E n \in Networks : JoinUplink(r, n)
              \/ SetAP(r) \/ RollMAC(r)
Work(p) == Step(p) \/ StepFails(p) \/ StepFailsUnheard(p) \/ Finish(p)

Next == \/ \E r \in Requests : Request(r)
        \/ \E p \in Jobs : Work(p)
        \/ Settings \/ Hour \/ Crash \/ Reboot

\* Time passes, the loop with it, and commands end, one way or the other.
Fairness == SF_vars(Hour) /\ \A p \in Jobs : WF_vars(Work(p))

Spec == Init /\ [][Next]_vars /\ Fairness

-----------------------------------------------------------------------------
(* Properties *)

Config(f) == DOMAIN f \subseteq Options /\ \A o \in DOMAIN f : f[o] \in Value[o]
Ident     == [mac : 0..MaxIds, host : Profiles]

TypeOK ==
    /\ Config(staged) /\ Config(saved) /\ Config(live)
    /\ DOMAIN saved = Options /\ DOMAIN live = Options
    /\ zoned \in BOOLEAN
    /\ \A p \in Jobs : job[p].ident \in Ident /\ {job[p].alone, job[p].whole} \subseteq BOOLEAN
    /\ mode \in Modes /\ profile \in Profiles
    /\ age \in 0..Day /\ gap \in 0..Day /\ faults \in 0..MaxFaults
    /\ met \subseteq Networks

Quiet == \A p \in Jobs : ~Busy(p)

\* A join that ran alone and reported success, whatever failed and overlapping
\* requests had left staged, leaves the radio with what is in flash, and both
\* with the network, the credentials and the spoofed MAC and hostname it set;
\* rolls and AP changes after it change the identity alone.  Unless a command
\* of theirs failed unheard, what they cleared is clear and wwan is in the wan
\* zone as well.
JoinTakes ==
    (history \in {"clean", "hushed"} /\ want.ssid # "none" /\ Quiet) =>
        /\ \A o \in Options :
              /\ live[o] = saved[o]
              /\ (history = "clean" \/ want[o] # Unset[o]) => live[o] = want[o]
        /\ history = "clean" => zoned

\* "clears the override, restoring the hardware address" (wifi.go:215-216), of
\* every join that ran alone and reported success.
JoinClears ==
    (history \in {"clean", "hushed"} /\ want.ssid # "none" /\ want.mac = Hw /\ Quiet) =>
        live.mac = Hw

\* No two networks see one spoofed MAC, across power cuts in the middle of
\* any request: MAC and SSID reach flash in one commit.  (In a hushed history
\* they may: the join that keeps its hardware address kept the spoofed one.)
MACPerNetwork ==
    (history \in {"clean", "cut"} /\ live.mac # Hw) => \A m, n \in met : m = n

\* "A fresh identity for every network" (netops.go:22-24), whatever happened.
FreshIdentity == live.mac # Hw => \A m, n \in met : m = n

\* The daily schedule replaces no MAC that was rolled, by whomever, less than
\* a day ago, as long as it can read when that was.
RollsSpaced ==
    [][(history = "clean" /\ job["loop"].kind = "roll" /\ live'.mac # live.mac
        /\ job'["loop"].kind = "roll") => gap = Day]_vars

\* In daily mode an uplink is given a new identity once a day has passed since
\* the last, if not at the first try: once failures cease, a roll succeeds.
RollsComeRound ==
    (mode = "daily" /\ age = Day /\ Configured) ~>
        (age = 0 \/ mode # "daily" \/ ~Configured)
=============================================================================
