---------------------------- MODULE UplinkProofs ----------------------------
(***************************************************************************)
(* A join takes, no MAC meets two networks and scheduled rolls are a day   *)
(* apart, for any number of requests, networks and faults.                 *)
(*                                                                         *)
(* What a job has staged, committed and made live follows from how many of *)
(* its commands are left, provided it runs alone.  A join that does is     *)
(* right whatever it finds; a roll or a change of the AP needs to find the *)
(* flash, the radio and the staging area level, which is so in any history *)
(* that is not mixed.  What it set is so even if what it cleared is not,   *)
(* for a failure it did not hear of.                                       *)
(***************************************************************************)
EXTENDS Uplink, FiniteSetTheorems, TLAPS

-----------------------------------------------------------------------------
(* The inductive invariant *)

Command == [do  : {"set", "commit", "reload", "zone"},
            key : Options \cup {"wireless", "network", "firewall"},
            val : (0..MaxIds) \cup Profiles \cup Networks \cup {"none"}]

Job == [kind : {"none", "join", "roll", "ap"}, net : Networks \cup {"none"}, ident : Ident,
        todo : Seq(Command), alone : BOOLEAN, whole : BOOLEAN]

\* All the commands of a job; those it has yet to run are the last of them.
Plan(j) == CASE j.kind = "join" -> JoinCmds(j.net, j.ident)
             [] j.kind = "roll" -> RollCmds(j.ident)
             [] j.kind = "ap"   -> SetAPCmds
             [] OTHER           -> << >>

Left(j) == Len(j.todo)

EndOf(s, p, n) == Len(s) <= n /\ \A i \in 1..Len(s) : s[i] = p[i + n - Len(s)]

OnPlan(j) == EndOf(j.todo, Plan(j), Len(Plan(j)))

TypeInv ==
    /\ TypeOK
    /\ job \in [Jobs -> Job]
    /\ history \in {"clean", "hushed", "cut", "mixed"}
    /\ DOMAIN want = Options
    /\ live.mac = Hw => gap = Day
    /\ \A p \in Jobs : OnPlan(job[p])

\* A job that is alone is the only one; unless the history is mixed, all are,
\* and in a clean or cut one they are whole.
AloneInv ==
    \A p \in Jobs : Busy(p) =>
        /\ job[p].alone => \A q \in Jobs \ {p} : ~Busy(q)
        /\ history # "mixed" => job[p].alone
        /\ history \in {"clean", "cut"} => job[p].whole

\* Nothing is staged and the radio runs with what is in flash.
Level == DOMAIN staged = {} /\ \A o \in Options : live[o] = saved[o]

\* The flash has what was set, in a clean history all that was asked for, and
\* then no roll went unnoted.
Kept == /\ want.ssid # "none" => saved.ssid = want.ssid
        /\ (history = "clean" \/ want.mac # Hw) => saved.mac = want.mac
        /\ (history = "clean" \/ want.host # NoHost) => saved.host = want.host
        /\ history = "clean" => (want.ssid # "none" => zoned) /\ age <= gap

LevelInv == (history # "mixed" => Level) /\ (history \in {"clean", "hushed"} => Kept)

QuietInv == (\A p \in Jobs : ~Busy(p)) => LevelInv

\* The live MAC has met only the network that has it now, in flash as well.
MetInv ==
    (history \in {"clean", "cut"} /\ live.mac # Hw) =>
        /\ met \subseteq {live.ssid}
        /\ saved.mac = live.mac => saved.ssid = live.ssid

Staged(o, v) == o \in DOMAIN staged /\ staged[o] = v

\* What a job set, and what it cleared if it heard of every failure.
SureMac(j)  == j.whole \/ j.ident.mac # Hw
SureHost(j) == j.whole \/ j.ident.host # NoHost

\* A join that is alone, whatever it found.
JoinInv(j) ==
    /\ Left(j) \in 5..7 => Staged("ssid", j.net)
    /\ (Left(j) \in 5..6 /\ SureMac(j)) => Staged("mac", j.ident.mac)
    /\ (Left(j) \in 4..5 /\ SureHost(j)) => Staged("host", j.ident.host)
    /\ Left(j) <= 4 => /\ saved.ssid = j.net /\ (SureMac(j) => saved.mac = j.ident.mac)
                       /\ DOMAIN staged \subseteq Network
    /\ Left(j) <= 3 => (SureHost(j) => saved.host = j.ident.host) /\ DOMAIN staged = {}
    /\ Left(j) <= 2 => (j.whole => zoned)
    /\ Left(j) <= 1 => live.host = saved.host
    /\ Left(j) > 0 => (j.ident.mac # Hw => live.mac # j.ident.mac)
    /\ Left(j) = 0 => /\ live.ssid = j.net /\ live.mac = saved.mac
                      /\ (SureMac(j) /\ live.mac # Hw) => met \subseteq {live.ssid}

\* A roll that is alone and found everything level.
RollInv(j) ==
    /\ j.ident.mac # Hw
    /\ saved.ssid = live.ssid
    /\ "ssid" \notin DOMAIN staged
    /\ (history \in {"clean", "hushed"} /\ want.ssid # "none") => saved.ssid = want.ssid
    /\ (history = "clean" /\ want.ssid # "none") => zoned
    /\ Left(j) \in 4..5 => Staged("mac", j.ident.mac)
    /\ (Left(j) \in 3..4 /\ SureHost(j)) => Staged("host", j.ident.host)
    /\ Left(j) <= 3 => saved.mac = j.ident.mac /\ "mac" \notin DOMAIN staged
    /\ Left(j) <= 2 => (SureHost(j) => saved.host = j.ident.host) /\ DOMAIN staged = {}
    /\ Left(j) <= 1 => live.host = saved.host
    /\ Left(j) > 0 => live.mac # j.ident.mac
    /\ Left(j) = 0 => live.mac = j.ident.mac

\* The schedule rolls a MAC that has been in use for a day.
LoopInv ==
    (history = "clean" /\ job["loop"].kind = "roll" /\ Left(job["loop"]) > 0) => gap = Day

JobInv(p) ==
    (Busy(p) /\ job[p].alone) =>
        /\ job[p].kind = "join" => JoinInv(job[p])
        /\ (job[p].kind = "roll" /\ history # "mixed") => RollInv(job[p])
        /\ job[p].kind = "ap" => LevelInv

UplinkInv ==
    /\ TypeInv
    /\ AloneInv
    /\ QuietInv
    /\ MetInv
    /\ LoopInv
    /\ \A p \in Jobs : JobInv(p)

-----------------------------------------------------------------------------
(* Commands *)

\* The lists of commands, one by one.
LEMMA JoinPlan ==
    ASSUME NEW n, NEW id
    PROVE  /\ Len(JoinCmds(n, id)) = 8
           /\ JoinCmds(n, id)[1] = Set("ssid", n)
           /\ JoinCmds(n, id)[2] = Set("mac", id.mac)
           /\ JoinCmds(n, id)[3] = Set("host", id.host)
           /\ JoinCmds(n, id)[4] = Commit("wireless")
           /\ JoinCmds(n, id)[5] = Commit("network")
           /\ JoinCmds(n, id)[6] = Zone
           /\ JoinCmds(n, id)[7] = Reload("network")
           /\ JoinCmds(n, id)[8] = Reload("wireless")
BY DEF JoinCmds, Identify

LEMMA RollPlan ==
    ASSUME NEW id
    PROVE  /\ Len(RollCmds(id)) = 6
           /\ RollCmds(id)[1] = Set("mac", id.mac)
           /\ RollCmds(id)[2] = Set("host", id.host)
           /\ RollCmds(id)[3] = Commit("wireless")
           /\ RollCmds(id)[4] = Commit("network")
           /\ RollCmds(id)[5] = Reload("network")
           /\ RollCmds(id)[6] = Reload("wireless")
BY DEF RollCmds, Identify

LEMMA APPlan ==
    /\ Len(SetAPCmds) = 2
    /\ SetAPCmds[1] = Commit("wireless")
    /\ SetAPCmds[2] = Reload("wireless")
BY DEF SetAPCmds

\* What a command does, option by option.
LEMMA StageEffect ==
    ASSUME NEW o \in Options, NEW v, Effect(Set(o, v))
    PROVE  /\ DOMAIN staged' = DOMAIN staged \cup {o}
           /\ staged'[o] = v
           /\ \A k \in DOMAIN staged \ {o} : staged'[k] = staged[k]
           /\ UNCHANGED <<saved, live, zoned, met, gap>>
<1>1. staged' = Over([k \in {o} |-> v], staged) /\ UNCHANGED <<saved, live, zoned, met, gap>>
  BY DEF Effect, Stage, CommitPackage, AddToZone, ReloadPackage, Set, radio
<1>. QED
  BY <1>1 DEF Over

LEMMA PackageOptions ==
    /\ Package["wireless"] = {"ssid", "mac"}
    /\ Package["network"] = {"host"}
    /\ Options = {"ssid", "mac", "host"}
BY DEF Package, Wireless, Network, Options

LEMMA CommitEffect ==
    ASSUME NEW k \in {"wireless", "network"}, Effect(Commit(k)),
           DOMAIN saved = Options, DOMAIN staged \subseteq Options
    PROVE  /\ DOMAIN staged' = DOMAIN staged \ Package[k]
           /\ \A o \in DOMAIN staged' : staged'[o] = staged[o]
           /\ DOMAIN saved' = Options
           /\ \A o \in Options :
                 saved'[o] = IF o \in Package[k] /\ o \in DOMAIN staged THEN staged[o] ELSE saved[o]
           /\ UNCHANGED <<live, zoned, met, gap>>
<1>1. /\ saved' = Over(Only(staged, k), saved)
      /\ staged' = Keep(staged, k)
      /\ UNCHANGED <<live, zoned, met, gap>>
  BY DEF Effect, Stage, CommitPackage, AddToZone, ReloadPackage, Commit, radio
<1>. QED
  BY <1>1, PackageOptions DEF Only, Keep, Restrict, Over

LEMMA ZoneEffect ==
    ASSUME Effect(Zone)
    PROVE  zoned' = TRUE /\ UNCHANGED <<staged, saved, live, met, gap>>
BY DEF Effect, Stage, CommitPackage, AddToZone, ReloadPackage, Zone, radio

LEMMA ReloadEffect ==
    ASSUME NEW k \in {"wireless", "network"}, Effect(Reload(k)),
           DOMAIN saved = Options, DOMAIN live = Options
    PROVE  /\ DOMAIN live' = Options
           /\ \A o \in Options : live'[o] = IF o \in Package[k] THEN saved[o] ELSE live[o]
           /\ Run(live')
           /\ UNCHANGED <<staged, saved, zoned>>
<1>1. Run(Over(Only(saved, k), live)) /\ UNCHANGED <<staged, saved, zoned>>
  BY DEF Effect, Stage, CommitPackage, AddToZone, ReloadPackage, Reload
<1>2. live' = Over(Only(saved, k), live)
  BY <1>1 DEF Run
<1>3. Run(live')
  BY <1>1, <1>2
<1>. QED
  BY <1>1, <1>2, <1>3, PackageOptions DEF Only, Restrict, Over

-----------------------------------------------------------------------------
(* The MAC and the commands of a job *)

LEMMA JobsFinite == IsFiniteSet(Jobs) /\ Cardinality(Jobs) = Cardinality(Requests) + 1
BY FS_AddElement, IdsAssumption, LoopAssumption DEF Jobs

\* There are more MACs than places for one: a generated MAC is a new one.
LEMMA FreshUnused ==
    ASSUME TypeInv
    PROVE  Fresh \in 1..MaxIds /\ Fresh \notin Used
<1>. DEFINE held == [p \in Jobs |-> job[p].ident.mac]
            H == {job[p].ident.mac : p \in Jobs}
            x == IF "mac" \in DOMAIN staged THEN staged["mac"] ELSE Hw
            H1 == H \cup {saved.mac}
            H2 == H1 \cup {live.mac}
            H3 == H2 \cup {x}
<1>1. held \in Surjection(Jobs, H)
  BY DEF Surjection
<1>2. IsFiniteSet(H) /\ Cardinality(H) <= Cardinality(Requests) + 1
  <2>. HIDE DEF held, H
  <2>. QED
    BY <1>1, JobsFinite, FS_Surjection
<1>3. IsFiniteSet(H3) /\ Cardinality(H3) < MaxIds
  <2>. HIDE DEF H, x
  <2>1. Cardinality(H) \in Nat /\ Cardinality(Requests) \in Nat /\ MaxIds \in Nat
    BY <1>2, FS_CardinalityType, IdsAssumption, BoundAssumption
  <2>2. IsFiniteSet(H1) /\ Cardinality(H1) \in Nat /\ Cardinality(H1) <= Cardinality(H) + 1
    BY <1>2, <2>1, FS_AddElement
  <2>. HIDE DEF H1
  <2>3. IsFiniteSet(H2) /\ Cardinality(H2) \in Nat /\ Cardinality(H2) <= Cardinality(H1) + 1
    BY <2>2, FS_AddElement
  <2>. HIDE DEF H2
  <2>4. IsFiniteSet(H3) /\ Cardinality(H3) \in Nat /\ Cardinality(H3) <= Cardinality(H2) + 1
    BY <2>3, FS_AddElement
  <2>. QED
    BY <1>2, <2>1, <2>2, <2>3, <2>4, IdsAssumption
<1>4. Used \subseteq H3
  BY DEF Used
<1>5. \E i \in 1..MaxIds : i \notin Used
  <2>. SUFFICES ASSUME 1..MaxIds \subseteq Used
                PROVE  FALSE
    OBVIOUS
  <2>. HIDE DEF H3
  <2>1. 1..MaxIds \subseteq H3
    BY <1>4
  <2>2. Cardinality(1..MaxIds) <= Cardinality(H3)
    BY <1>3, <2>1, FS_Subset
  <2>3. Cardinality(1..MaxIds) = MaxIds /\ Cardinality(H3) \in Nat
    BY <1>3, FS_Interval, FS_CardinalityType, BoundAssumption
  <2>. QED
    BY <1>3, <2>2, <2>3, BoundAssumption
<1>. QED
  BY <1>5 DEF Fresh

\* A generated identity is typed, and not the one on the radio.
LEMMA FreshIdent ==
    ASSUME TypeInv, NEW f \in Profiles
    PROVE  /\ GenerateIdentity(f) \in Ident
           /\ GenerateIdentity(f).mac # live.mac /\ GenerateIdentity(f).mac # Hw
<1>1. Fresh \in 1..MaxIds /\ Fresh # live.mac
  BY FreshUnused DEF Used
<1>. QED
  BY <1>1, BoundAssumption DEF GenerateIdentity, Ident, Hw, TypeInv, TypeOK

\* How many commands a job has.
LEMMA PlanLength ==
    ASSUME NEW j \in Job
    PROVE  /\ j.kind = "join" => Len(Plan(j)) = 8
           /\ j.kind = "roll" => Len(Plan(j)) = 6
           /\ j.kind = "ap" => Len(Plan(j)) = 2
           /\ j.kind = "none" => Len(Plan(j)) = 0
BY JoinPlan, RollPlan, APPlan DEF Plan, Job

\* If s is the end of p, of length n, its head is in p and its tail ends p.
LEMMA TailOfEnd ==
    ASSUME NEW S, NEW s \in Seq(S), s # << >>, NEW p, NEW n \in Nat, EndOf(s, p, n)
    PROVE  /\ Len(s) \in Nat \ {0} /\ Len(s) <= n
           /\ Head(s) = p[n - Len(s) + 1]
           /\ Tail(s) \in Seq(S) /\ Len(Tail(s)) = Len(s) - 1
           /\ EndOf(Tail(s), p, n)
<1>1. Len(s) \in Nat \ {0}
  OBVIOUS
<1>2. Tail(s) \in Seq(S) /\ Len(Tail(s)) = Len(s) - 1 /\ Head(s) = s[1]
  BY <1>1
<1>3. Head(s) = p[n - Len(s) + 1]
  <2>1. 1 + n - Len(s) = n - Len(s) + 1 /\ 1 \in 1..Len(s)
    BY <1>1
  <2>2. s[1] = p[1 + n - Len(s)]
    BY <2>1 DEF EndOf
  <2>. QED
    BY <1>2, <2>1, <2>2
<1>4. ASSUME NEW i \in 1..Len(Tail(s))
      PROVE  Tail(s)[i] = p[i + n - Len(Tail(s))]
  <2>1. i + 1 \in 1..Len(s) /\ Tail(s)[i] = s[i + 1]
    BY <1>1, <1>2
  <2>2. (i + 1) + n - Len(s) = i + n - Len(Tail(s))
    BY <1>1, <1>2
  <2>3. s[i + 1] = p[(i + 1) + n - Len(s)]
    BY <2>1 DEF EndOf
  <2>. QED
    BY <2>1, <2>2, <2>3
<1>5. Len(s) <= n
  BY DEF EndOf
<1>6. EndOf(Tail(s), p, n)
  BY <1>1, <1>2, <1>4, <1>5 DEF EndOf
<1>. QED
  BY <1>1, <1>2, <1>3, <1>5, <1>6

\* A job's next command is the one its plan has there, and so for the rest.
LEMMA NextCommand ==
    ASSUME NEW j \in Job, OnPlan(j), j.todo # << >>
    PROVE  /\ j.kind # "none"
           /\ Left(j) \in Nat \ {0} /\ Left(j) <= Len(Plan(j))
           /\ Head(j.todo) = Plan(j)[Len(Plan(j)) - Left(j) + 1]
           /\ Tail(j.todo) \in Seq(Command) /\ Len(Tail(j.todo)) = Left(j) - 1
           /\ EndOf(Tail(j.todo), Plan(j), Len(Plan(j)))
<1>1. j.todo \in Seq(Command)
  BY DEF Job
<1>2. Len(Plan(j)) \in Nat /\ (j.kind = "none" => Len(Plan(j)) = 0)
  BY PlanLength DEF Job
<1>3. EndOf(j.todo, Plan(j), Len(Plan(j)))
  BY DEF OnPlan
<1>4. /\ Len(j.todo) \in Nat \ {0} /\ Len(j.todo) <= Len(Plan(j))
      /\ Head(j.todo) = Plan(j)[Len(Plan(j)) - Len(j.todo) + 1]
      /\ Tail(j.todo) \in Seq(Command) /\ Len(Tail(j.todo)) = Len(j.todo) - 1
      /\ EndOf(Tail(j.todo), Plan(j), Len(Plan(j)))
  BY <1>1, <1>2, <1>3, TailOfEnd
<1>5. j.kind # "none"
  BY <1>2, <1>4
<1>. QED
  BY <1>4, <1>5 DEF Left

\* The job once that command is done, or has failed unheard.
LEMMA AfterCommand ==
    ASSUME NEW j \in Job, OnPlan(j), j.todo # << >>,
           NEW r, r.todo = Tail(j.todo), r.kind = j.kind, r.net = j.net, r.ident = j.ident
    PROVE  OnPlan(r) /\ Left(r) = Left(j) - 1
<1>1. /\ Len(Tail(j.todo)) = Left(j) - 1
      /\ EndOf(Tail(j.todo), Plan(j), Len(Plan(j)))
  BY NextCommand
<1>2. Plan(r) = Plan(j)
  BY DEF Plan
<1>. QED
  BY <1>1, <1>2 DEF OnPlan, Left

\* The next command of each kind of job, by how many are left.
LEMMA JoinNext ==
    ASSUME NEW j \in Job, OnPlan(j), j.todo # << >>, j.kind = "join"
    PROVE  \/ Left(j) = 8 /\ Head(j.todo) = Set("ssid", j.net)
           \/ Left(j) = 7 /\ Head(j.todo) = Set("mac", j.ident.mac)
           \/ Left(j) = 6 /\ Head(j.todo) = Set("host", j.ident.host)
           \/ Left(j) = 5 /\ Head(j.todo) = Commit("wireless")
           \/ Left(j) = 4 /\ Head(j.todo) = Commit("network")
           \/ Left(j) = 3 /\ Head(j.todo) = Zone
           \/ Left(j) = 2 /\ Head(j.todo) = Reload("network")
           \/ Left(j) = 1 /\ Head(j.todo) = Reload("wireless")
<1>1. Plan(j) = JoinCmds(j.net, j.ident)
  BY DEF Plan
<1>2. /\ Left(j) \in Nat \ {0} /\ Left(j) <= Len(Plan(j))
      /\ Head(j.todo) = Plan(j)[Len(Plan(j)) - Left(j) + 1]
  BY NextCommand
<1>3. Len(Plan(j)) = 8
  BY PlanLength
<1>4. Left(j) \in 1..8 /\ Head(j.todo) = JoinCmds(j.net, j.ident)[8 - Left(j) + 1]
  BY <1>1, <1>2, <1>3
<1>. QED
  BY <1>4, JoinPlan

LEMMA RollNext ==
    ASSUME NEW j \in Job, OnPlan(j), j.todo # << >>, j.kind = "roll"
    PROVE  \/ Left(j) = 6 /\ Head(j.todo) = Set("mac", j.ident.mac)
           \/ Left(j) = 5 /\ Head(j.todo) = Set("host", j.ident.host)
           \/ Left(j) = 4 /\ Head(j.todo) = Commit("wireless")
           \/ Left(j) = 3 /\ Head(j.todo) = Commit("network")
           \/ Left(j) = 2 /\ Head(j.todo) = Reload("network")
           \/ Left(j) = 1 /\ Head(j.todo) = Reload("wireless")
<1>1. Plan(j) = RollCmds(j.ident)
  BY DEF Plan
<1>2. /\ Left(j) \in Nat \ {0} /\ Left(j) <= Len(Plan(j))
      /\ Head(j.todo) = Plan(j)[Len(Plan(j)) - Left(j) + 1]
  BY NextCommand
<1>3. Len(Plan(j)) = 6
  BY PlanLength
<1>4. Left(j) \in 1..6 /\ Head(j.todo) = RollCmds(j.ident)[6 - Left(j) + 1]
  BY <1>1, <1>2, <1>3
<1>. QED
  BY <1>4, RollPlan

LEMMA APNext ==
    ASSUME NEW j \in Job, OnPlan(j), j.todo # << >>, j.kind = "ap"
    PROVE  \/ Left(j) = 2 /\ Head(j.todo) = Commit("wireless")
           \/ Left(j) = 1 /\ Head(j.todo) = Reload("wireless")
<1>1. Plan(j) = SetAPCmds
  BY DEF Plan
<1>2. /\ Left(j) \in Nat \ {0} /\ Left(j) <= Len(Plan(j))
      /\ Head(j.todo) = Plan(j)[Len(Plan(j)) - Left(j) + 1]
  BY NextCommand
<1>3. Len(Plan(j)) = 2
  BY PlanLength
<1>4. Left(j) \in 1..2 /\ Head(j.todo) = SetAPCmds[2 - Left(j) + 1]
  BY <1>1, <1>2, <1>3
<1>. QED
  BY <1>4, APPlan

-----------------------------------------------------------------------------
(* Types *)

\* The part of TypeInv that commands touch, option by option.
ConfigInv ==
    /\ DOMAIN staged \subseteq Options
    /\ DOMAIN saved = Options /\ DOMAIN live = Options
    /\ {saved.mac, live.mac} \subseteq 0..MaxIds
    /\ {saved.host, live.host} \subseteq Profiles
    /\ {saved.ssid, live.ssid} \subseteq Networks \cup {"none"}
    /\ "mac" \in DOMAIN staged => staged.mac \in 0..MaxIds
    /\ "host" \in DOMAIN staged => staged.host \in Profiles
    /\ "ssid" \in DOMAIN staged => staged.ssid \in Networks \cup {"none"}
    /\ zoned \in BOOLEAN
    /\ met \subseteq Networks
    /\ gap \in 0..Day /\ (live.mac = Hw => gap = Day)

LEMMA ConfigTyped ==
    ConfigInv <=> /\ Config(staged) /\ Config(saved) /\ Config(live)
                  /\ DOMAIN saved = Options /\ DOMAIN live = Options
                  /\ zoned \in BOOLEAN /\ met \subseteq Networks
                  /\ gap \in 0..Day /\ (live.mac = Hw => gap = Day)
<1>1. Value["mac"] = 0..MaxIds /\ Value["host"] = Profiles /\ Value["ssid"] = Networks \cup {"none"}
  BY DEF Value
<1>2. \A f : Config(f) <=> /\ DOMAIN f \subseteq Options
                           /\ "mac" \in DOMAIN f => f["mac"] \in 0..MaxIds
                           /\ "host" \in DOMAIN f => f["host"] \in Profiles
                           /\ "ssid" \in DOMAIN f => f["ssid"] \in Networks \cup {"none"}
  <2>. TAKE f
  <2>. HIDE DEF Value
  <2>1. DOMAIN f \subseteq Options =>
          ((\A o \in DOMAIN f : f[o] \in Value[o]) <=>
            /\ "mac" \in DOMAIN f => f["mac"] \in Value["mac"]
            /\ "host" \in DOMAIN f => f["host"] \in Value["host"]
            /\ "ssid" \in DOMAIN f => f["ssid"] \in Value["ssid"])
    BY PackageOptions
  <2>. QED
    BY <1>1, <2>1 DEF Config
<1>. QED
  BY <1>2, PackageOptions DEF ConfigInv

\* The rest of TypeInv.
RestInv ==
    /\ job \in [Jobs -> Job]
    /\ \A p \in Jobs : OnPlan(job[p])
    /\ mode \in Modes /\ profile \in Profiles
    /\ age \in 0..Day /\ faults \in 0..MaxFaults
    /\ history \in {"clean", "hushed", "cut", "mixed"}
    /\ DOMAIN want = Options

LEMMA TypeParts == TypeInv <=> ConfigInv /\ RestInv
<1>1. job \in [Jobs -> Job] =>
        \A p \in Jobs : job[p].ident \in Ident /\ {job[p].alone, job[p].whole} \subseteq BOOLEAN
  BY DEF Job
<1>. QED
  BY <1>1, ConfigTyped DEF TypeInv, TypeOK, RestInv

\* What the radio runs with, and who saw it.
LEMMA RunEffect ==
    ASSUME NEW l, Run(l)
    PROVE  /\ live' = l
           /\ l.mac = live.mac => met' = met \cup ({l.ssid} \ {"none"}) /\ gap' = gap
           /\ l.mac # live.mac => /\ met' = {l.ssid} \ {"none"}
                                  /\ gap' = IF l.mac = Hw THEN Day ELSE 0
BY DEF Run

\* The commands a job may be about to run.
LEMMA NextIsOneOf ==
    ASSUME NEW j \in Job, OnPlan(j), j.todo # << >>
    PROVE  \/ Head(j.todo) = Set("ssid", j.net)
           \/ Head(j.todo) = Set("mac", j.ident.mac)
           \/ Head(j.todo) = Set("host", j.ident.host)
           \/ Head(j.todo) = Zone
           \/ \E k \in {"wireless", "network"} :
                 Head(j.todo) = Commit(k) \/ Head(j.todo) = Reload(k)
<1>1. j.kind # "none" /\ j.kind \in {"none", "join", "roll", "ap"}
  BY NextCommand DEF Job
<1>2. CASE j.kind = "join"
  BY <1>2, JoinNext
<1>3. CASE j.kind = "roll"
  BY <1>3, RollNext
<1>4. CASE j.kind = "ap"
  BY <1>4, APNext
<1>. QED
  BY <1>1, <1>2, <1>3, <1>4

\* A command keeps the configuration typed.
LEMMA EffectTyped ==
    ASSUME ConfigInv, NEW j \in Job, OnPlan(j), j.todo # << >>, Effect(Head(j.todo))
    PROVE  ConfigInv'
<1>. USE PackageOptions
<1>1. /\ j.net \in Networks \cup {"none"}
      /\ j.ident.mac \in 0..MaxIds /\ j.ident.host \in Profiles
  BY DEF Job, Ident
<1>2. CASE Head(j.todo) = Set("ssid", j.net)
  BY <1>1, <1>2, StageEffect DEF ConfigInv
<1>3. CASE Head(j.todo) = Set("mac", j.ident.mac)
  BY <1>1, <1>3, StageEffect DEF ConfigInv
<1>4. CASE Head(j.todo) = Set("host", j.ident.host)
  BY <1>1, <1>4, StageEffect DEF ConfigInv
<1>5. CASE Head(j.todo) = Zone
  BY <1>5, ZoneEffect DEF ConfigInv
<1>6. ASSUME NEW k \in {"wireless", "network"}, Head(j.todo) = Commit(k)
      PROVE  ConfigInv'
  BY <1>6, CommitEffect DEF ConfigInv
<1>7. ASSUME NEW k \in {"wireless", "network"}, Head(j.todo) = Reload(k)
      PROVE  ConfigInv'
  <2>1. /\ DOMAIN live' = Options
        /\ \A o \in Options : live'[o] = IF o \in Package[k] THEN saved[o] ELSE live[o]
        /\ Run(live')
        /\ UNCHANGED <<staged, saved, zoned>>
    BY <1>7, ReloadEffect DEF ConfigInv
  <2>2. met' \subseteq Networks
    BY <2>1, RunEffect DEF ConfigInv
  <2>3. gap' \in 0..Day /\ (live'.mac = Hw => gap' = Day)
    BY <2>1, RunEffect, BoundAssumption DEF ConfigInv
  <2>. QED
    BY <2>1, <2>2, <2>3 DEF ConfigInv
<1>. QED
  BY <1>2, <1>3, <1>4, <1>5, <1>6, <1>7, NextIsOneOf

-----------------------------------------------------------------------------
(* The commands of a job that is alone *)

\* A commit of one package, option by option.
LEMMA CommitWireless ==
    ASSUME ConfigInv, Effect(Commit("wireless"))
    PROVE  /\ DOMAIN staged' = DOMAIN staged \ {"ssid", "mac"}
           /\ "host" \in DOMAIN staged => staged'.host = staged.host
           /\ "ssid" \in DOMAIN staged => saved'.ssid = staged.ssid
           /\ "ssid" \notin DOMAIN staged => saved'.ssid = saved.ssid
           /\ "mac" \in DOMAIN staged => saved'.mac = staged.mac
           /\ "mac" \notin DOMAIN staged => saved'.mac = saved.mac
           /\ saved'.host = saved.host
           /\ UNCHANGED <<live, zoned, met, gap>>
<1>1. DOMAIN saved = Options /\ DOMAIN staged \subseteq Options
  BY DEF ConfigInv
<1>2. /\ DOMAIN staged' = DOMAIN staged \ Package["wireless"]
      /\ \A o \in DOMAIN staged' : staged'[o] = staged[o]
      /\ \A o \in Options :
            saved'[o] = IF o \in Package["wireless"] /\ o \in DOMAIN staged
                        THEN staged[o] ELSE saved[o]
      /\ UNCHANGED <<live, zoned, met, gap>>
  BY <1>1, CommitEffect
<1>. QED
  BY <1>2, PackageOptions

LEMMA CommitNetwork ==
    ASSUME ConfigInv, Effect(Commit("network"))
    PROVE  /\ DOMAIN staged' = DOMAIN staged \ {"host"}
           /\ "ssid" \in DOMAIN staged => staged'.ssid = staged.ssid
           /\ "mac" \in DOMAIN staged => staged'.mac = staged.mac
           /\ saved'.ssid = saved.ssid /\ saved'.mac = saved.mac
           /\ "host" \in DOMAIN staged => saved'.host = staged.host
           /\ "host" \notin DOMAIN staged => saved'.host = saved.host
           /\ UNCHANGED <<live, zoned, met, gap>>
<1>1. DOMAIN saved = Options /\ DOMAIN staged \subseteq Options
  BY DEF ConfigInv
<1>2. /\ DOMAIN staged' = DOMAIN staged \ Package["network"]
      /\ \A o \in DOMAIN staged' : staged'[o] = staged[o]
      /\ \A o \in Options :
            saved'[o] = IF o \in Package["network"] /\ o \in DOMAIN staged
                        THEN staged[o] ELSE saved[o]
      /\ UNCHANGED <<live, zoned, met, gap>>
  BY <1>1, CommitEffect
<1>. QED
  BY <1>2, PackageOptions

\* The next command of a join brings it one command further.
LEMMA JoinStep ==
    ASSUME ConfigInv, NEW j \in Job, OnPlan(j), j.kind = "join", j.todo # << >>,
           Effect(Head(j.todo)), JoinInv(j), MetInv, UNCHANGED history,
           history \in {"clean", "cut"} => j.whole,
           NEW r \in Job, Left(r) = Left(j) - 1, r.net = j.net, r.ident = j.ident,
           r.whole = j.whole
    PROVE  JoinInv(r)' /\ MetInv'
<1>. USE PackageOptions DEF SureMac, SureHost
<1>1. CASE Left(j) = 8 /\ Head(j.todo) = Set("ssid", j.net)
  BY <1>1, StageEffect DEF JoinInv, MetInv, Staged
<1>2. CASE Left(j) = 7 /\ Head(j.todo) = Set("mac", j.ident.mac)
  BY <1>2, StageEffect DEF JoinInv, MetInv, Staged
<1>3. CASE Left(j) = 6 /\ Head(j.todo) = Set("host", j.ident.host)
  BY <1>3, StageEffect DEF JoinInv, MetInv, Staged
<1>4. CASE Left(j) = 5 /\ Head(j.todo) = Commit("wireless")
  <2>1. /\ DOMAIN staged' = DOMAIN staged \ {"ssid", "mac"}
        /\ "host" \in DOMAIN staged => staged'.host = staged.host
        /\ saved'.ssid = j.net /\ (SureMac(j) => saved'.mac = j.ident.mac)
        /\ UNCHANGED <<live, zoned, met, gap>>
    BY <1>4, CommitWireless DEF JoinInv, Staged
  <2>. QED
    BY <1>4, <2>1 DEF JoinInv, MetInv, Staged, ConfigInv, Network
<1>5. CASE Left(j) = 4 /\ Head(j.todo) = Commit("network")
  <2>1. /\ DOMAIN staged' = DOMAIN staged \ {"host"}
        /\ SureHost(j) => saved'.host = j.ident.host
        /\ saved'.ssid = saved.ssid /\ saved'.mac = saved.mac
        /\ UNCHANGED <<live, zoned, met, gap>>
    BY <1>5, CommitNetwork DEF JoinInv, Staged
  <2>. QED
    BY <1>5, <2>1 DEF JoinInv, MetInv, Network
<1>6. CASE Left(j) = 3 /\ Head(j.todo) = Zone
  <2>1. zoned' = TRUE /\ UNCHANGED <<staged, saved, live, met>>
    BY <1>6, ZoneEffect
  <2>. QED
    BY <1>6, <2>1 DEF JoinInv, MetInv, Network
<1>7. CASE Left(j) = 2 /\ Head(j.todo) = Reload("network")
  <2>1. /\ live'.host = saved.host /\ live'.ssid = live.ssid /\ live'.mac = live.mac
        /\ Run(live') /\ UNCHANGED <<staged, saved, zoned>>
    BY <1>7, ReloadEffect DEF ConfigInv
  <2>2. met' = met \cup ({live.ssid} \ {"none"})
    BY <2>1, RunEffect
  <2>. QED
    BY <1>7, <2>1, <2>2 DEF JoinInv, MetInv, Network
<1>8. CASE Left(j) = 1 /\ Head(j.todo) = Reload("wireless")
  <2>1. /\ live'.host = live.host /\ live'.ssid = saved.ssid /\ live'.mac = saved.mac
        /\ Run(live') /\ UNCHANGED <<staged, saved, zoned>>
    BY <1>8, ReloadEffect DEF ConfigInv
  <2>2. (SureMac(j) /\ live'.mac # Hw) => met' \subseteq {live'.ssid}
    BY <1>8, <2>1, RunEffect DEF JoinInv
  <2>. QED
    BY <1>8, <2>1, <2>2 DEF JoinInv, MetInv, Network
<1>. QED
  BY <1>1, <1>2, <1>3, <1>4, <1>5, <1>6, <1>7, <1>8, JoinNext

\* So does that of a roll, which leaves the MAC live until its last one.
LEMMA RollStep ==
    ASSUME ConfigInv, NEW j \in Job, OnPlan(j), j.kind = "roll", j.todo # << >>,
           Effect(Head(j.todo)), RollInv(j), MetInv, history # "mixed",
           UNCHANGED <<history, want>>,
           NEW r \in Job, Left(r) = Left(j) - 1, r.ident = j.ident, r.whole = j.whole
    PROVE  RollInv(r)' /\ MetInv' /\ (Left(r) > 0 => UNCHANGED gap)
<1>. USE PackageOptions DEF SureMac, SureHost
<1>1. CASE Left(j) = 6 /\ Head(j.todo) = Set("mac", j.ident.mac)
  BY <1>1, StageEffect DEF RollInv, MetInv, Staged
<1>2. CASE Left(j) = 5 /\ Head(j.todo) = Set("host", j.ident.host)
  BY <1>2, StageEffect DEF RollInv, MetInv, Staged
<1>3. CASE Left(j) = 4 /\ Head(j.todo) = Commit("wireless")
  <2>1. /\ DOMAIN staged' = DOMAIN staged \ {"ssid", "mac"}
        /\ "host" \in DOMAIN staged => staged'.host = staged.host
        /\ saved'.ssid = saved.ssid /\ saved'.mac = j.ident.mac
        /\ UNCHANGED <<live, zoned, met, gap>>
    BY <1>3, CommitWireless DEF RollInv, Staged
  <2>. QED
    BY <1>3, <2>1 DEF RollInv, MetInv, Staged, ConfigInv
<1>4. CASE Left(j) = 3 /\ Head(j.todo) = Commit("network")
  <2>1. /\ DOMAIN staged' = DOMAIN staged \ {"host"}
        /\ SureHost(j) => saved'.host = j.ident.host
        /\ saved'.ssid = saved.ssid /\ saved'.mac = saved.mac
        /\ UNCHANGED <<live, zoned, met, gap>>
    BY <1>4, CommitNetwork DEF RollInv, Staged
  <2>. QED
    BY <1>4, <2>1 DEF RollInv, MetInv, ConfigInv
<1>5. CASE Left(j) = 2 /\ Head(j.todo) = Reload("network")
  <2>1. /\ live'.host = saved.host /\ live'.ssid = live.ssid /\ live'.mac = live.mac
        /\ Run(live') /\ UNCHANGED <<staged, saved, zoned>>
    BY <1>5, ReloadEffect DEF ConfigInv
  <2>2. met' = met \cup ({live.ssid} \ {"none"}) /\ gap' = gap
    BY <2>1, RunEffect
  <2>. QED
    BY <1>5, <2>1, <2>2 DEF RollInv, MetInv
<1>6. CASE Left(j) = 1 /\ Head(j.todo) = Reload("wireless")
  <2>1. /\ live'.host = live.host /\ live'.ssid = saved.ssid /\ live'.mac = saved.mac
        /\ Run(live') /\ UNCHANGED <<staged, saved, zoned>>
    BY <1>6, ReloadEffect DEF ConfigInv
  <2>2. met' \subseteq {live'.ssid}
    BY <1>6, <2>1, RunEffect DEF RollInv
  <2>. QED
    BY <1>6, <2>1, <2>2 DEF RollInv, MetInv
<1>. QED
  BY <1>1, <1>2, <1>3, <1>4, <1>5, <1>6, RollNext

\* A change of the AP finds nothing to commit and nothing to load.
LEMMA APStep ==
    ASSUME ConfigInv, NEW j \in Job, OnPlan(j), j.kind = "ap", j.todo # << >>,
           Effect(Head(j.todo)), LevelInv, MetInv, UNCHANGED <<history, want, age>>
    PROVE  LevelInv' /\ MetInv'
<1>. USE PackageOptions
<1>. SUFFICES ASSUME history # "mixed"
              PROVE  LevelInv' /\ MetInv'
  BY DEF LevelInv, MetInv
<1>1. CASE Head(j.todo) = Commit("wireless")
  <2>1. /\ DOMAIN staged' = {}
        /\ \A o \in Options : saved'[o] = saved[o]
        /\ UNCHANGED <<live, zoned, met, gap>>
    BY <1>1, CommitEffect DEF LevelInv, Level, ConfigInv
  <2>. QED
    BY <2>1 DEF LevelInv, Level, Kept, MetInv
<1>2. CASE Head(j.todo) = Reload("wireless")
  <2>1. /\ \A o \in Options : live'[o] = live[o]
        /\ Run(live') /\ UNCHANGED <<staged, saved, zoned>>
    BY <1>2, ReloadEffect DEF LevelInv, Level, ConfigInv
  <2>2. met' = met \cup ({live.ssid} \ {"none"}) /\ gap' = gap
    BY <2>1, RunEffect
  <2>. QED
    BY <2>1, <2>2 DEF LevelInv, Level, Kept, MetInv
<1>. QED
  BY <1>1, <1>2, APNext

\* A command that fails unheard clears an option or adds to the zone: what is
\* said of the rest is as true as it was.
LEMMA DeafCommand ==
    ASSUME NEW j \in Job, OnPlan(j), j.todo # << >>, Deaf(Head(j.todo))
    PROVE  \/ j.kind = "join" /\ Left(j) = 7 /\ j.ident.mac = Hw
           \/ j.kind = "join" /\ Left(j) = 6 /\ j.ident.host = NoHost
           \/ j.kind = "join" /\ Left(j) = 3
           \/ j.kind = "roll" /\ Left(j) = 6 /\ j.ident.mac = Hw
           \/ j.kind = "roll" /\ Left(j) = 5 /\ j.ident.host = NoHost
<1>1. j.kind # "none" /\ j.kind \in {"none", "join", "roll", "ap"}
  BY NextCommand DEF Job
<1>2. /\ \A n : ~Deaf(Set("ssid", n))
      /\ \A m : Deaf(Set("mac", m)) => m = Hw
      /\ \A h : Deaf(Set("host", h)) => h = NoHost
      /\ \A k : ~Deaf(Commit(k)) /\ ~Deaf(Reload(k))
  BY DEF Deaf, NoIdent, Set, Commit, Reload
<1>3. CASE j.kind = "join"
  BY <1>2, <1>3, JoinNext
<1>4. CASE j.kind = "roll"
  BY <1>2, <1>4, RollNext
<1>5. CASE j.kind = "ap"
  BY <1>2, <1>5, APNext
<1>. QED
  BY <1>1, <1>3, <1>4, <1>5

LEMMA JoinUnheard ==
    ASSUME NEW j \in Job, OnPlan(j), j.kind = "join", j.todo # << >>, Deaf(Head(j.todo)),
           JoinInv(j), UNCHANGED <<staged, saved, live, zoned, met>>,
           NEW r \in Job, Left(r) = Left(j) - 1, r.net = j.net, r.ident = j.ident, ~r.whole
    PROVE  JoinInv(r)'
<1>1. \/ Left(j) = 7 /\ j.ident.mac = Hw
      \/ Left(j) = 6 /\ j.ident.host = NoHost
      \/ Left(j) = 3
  BY DeafCommand
<1>. QED
  BY <1>1 DEF JoinInv, SureMac, SureHost, Staged

LEMMA RollUnheard ==
    ASSUME NEW j \in Job, OnPlan(j), j.kind = "roll", j.todo # << >>, Deaf(Head(j.todo)),
           RollInv(j), Hush, UNCHANGED <<staged, saved, live, zoned, want>>,
           NEW r \in Job, Left(r) = Left(j) - 1, r.ident = j.ident, ~r.whole
    PROVE  history' # "mixed" => RollInv(r)'
<1>1. Left(j) = 5 /\ j.ident.host = NoHost
  BY DeafCommand DEF RollInv
<1>2. history' # "mixed" => history \in {"clean", "hushed"} /\ history' = "hushed"
  BY DEF Hush
<1>. QED
  BY <1>1, <1>2 DEF RollInv, SureHost, Staged

-----------------------------------------------------------------------------
(* Every step keeps the invariant *)

LEMMA TypePartsNext == ConfigInv' /\ RestInv' => TypeInv'
BY TypeParts, PTL

\* In a mixed history, or with nobody busy, most of the invariant is idle.
LEMMA MixedInv ==
    ASSUME TypeInv', AloneInv', history' = "mixed",
           \A q \in Jobs : ~(Busy(q)' /\ job'[q].alone)
    PROVE  UplinkInv'
BY DEF UplinkInv, QuietInv, LevelInv, MetInv, LoopInv, JobInv

LEMMA IdleInv ==
    ASSUME TypeInv', \A q \in Jobs : ~Busy(q)', LevelInv', MetInv'
    PROVE  UplinkInv'
<1>1. ~Busy("loop")'
  BY DEF Jobs
<1>. QED
  BY <1>1 DEF UplinkInv, AloneInv, QuietInv, LoopInv, JobInv, Busy

LEMMA StepInv ==
    ASSUME UplinkInv, NEW p \in Jobs, Step(p)
    PROVE  UplinkInv'
<1>. SUFFICES ASSUME NEW j, j = job[p], NEW r, r = [j EXCEPT !.todo = Tail(@)]
              PROVE  UplinkInv'
  OBVIOUS
<1>1. ConfigInv /\ RestInv
  BY TypeParts DEF UplinkInv
<1>2. j \in Job /\ OnPlan(j) /\ j.todo # << >> /\ Effect(Head(j.todo))
  BY <1>1 DEF RestInv, Step
<1>3. /\ j.kind # "none" /\ Left(j) \in Nat \ {0}
      /\ r \in Job /\ OnPlan(r) /\ Left(r) = Left(j) - 1
      /\ r.kind = j.kind /\ r.net = j.net /\ r.ident = j.ident /\ r.alone = j.alone
      /\ r.whole = j.whole
  <2>1. j.kind # "none" /\ Left(j) \in Nat \ {0} /\ Tail(j.todo) \in Seq(Command)
    BY <1>2, NextCommand
  <2>2. /\ r \in Job /\ r.todo = Tail(j.todo) /\ r.whole = j.whole
        /\ r.kind = j.kind /\ r.net = j.net /\ r.ident = j.ident /\ r.alone = j.alone
    BY <1>2, <2>1 DEF Job
  <2>3. OnPlan(r) /\ Left(r) = Left(j) - 1
    BY <1>2, <2>2, AfterCommand
  <2>. QED
    BY <2>1, <2>2, <2>3
<1>4. /\ job' = [job EXCEPT ![p] = r]
      /\ UNCHANGED <<mode, profile, age, faults, want, history>>
  BY <1>1 DEF Step, prefs, RestInv
<1>5. job'[p] = r /\ \A q \in Jobs \ {p} : job'[q] = job[q]
  BY <1>1, <1>4 DEF RestInv
<1>6. TypeInv'
  <2>1. ConfigInv'
    BY <1>1, <1>2, EffectTyped
  <2>2. RestInv'
    BY <1>1, <1>3, <1>4, <1>5 DEF RestInv
  <2>. QED
    BY <2>1, <2>2, TypePartsNext
<1>7. \A q \in Jobs : /\ Busy(q)' <=> Busy(q)
                     /\ job'[q].alone = job[q].alone /\ job'[q].kind = job[q].kind
                     /\ job'[q].whole = job[q].whole
  BY <1>3, <1>5 DEF Busy
<1>8. AloneInv'
  BY <1>4, <1>7 DEF AloneInv, UplinkInv
<1>9. /\ Busy(p) /\ (job[p].alone => \A q \in Jobs \ {p} : ~Busy(q))
      /\ history \in {"clean", "cut"} => j.whole
  BY <1>3 DEF Busy, AloneInv, UplinkInv
<1>10. CASE ~j.alone
  <2>1. history' = "mixed"
    BY <1>4, <1>9, <1>10 DEF UplinkInv, AloneInv
  <2>2. \A q \in Jobs : ~(Busy(q)' /\ job'[q].alone)
    BY <1>7, <1>9, <1>10 DEF UplinkInv, AloneInv
  <2>. QED
    BY <1>6, <1>8, <2>1, <2>2, MixedInv
<1>11. CASE j.alone
  <2>1. \A q \in Jobs \ {p} : ~Busy(q)'
    BY <1>7, <1>9, <1>11
  <2>2. QuietInv'
    BY <1>7, <1>9 DEF QuietInv
  <2>3. JobInv(p) /\ MetInv /\ LoopInv
    BY DEF UplinkInv
  <2>4. MetInv' /\ LoopInv' /\ JobInv(p)'
    <3>1. CASE j.kind = "join"
      <4>1. JoinInv(j)
        BY <1>9, <1>11, <2>3, <3>1 DEF JobInv
      <4>2. JoinInv(r)' /\ MetInv'
        BY <1>1, <1>2, <1>3, <1>4, <1>9, <2>3, <3>1, <4>1, JoinStep
      <4>3. job'["loop"].kind # "roll"
        BY <1>7, <2>1, <3>1 DEF Jobs, Busy
      <4>4. JobInv(p)'
        BY <1>3, <1>5, <3>1, <4>2 DEF JobInv
      <4>. QED
        BY <4>2, <4>3, <4>4 DEF LoopInv
    <3>2. CASE j.kind = "roll" /\ history # "mixed"
      <4>1. RollInv(j)
        BY <1>9, <1>11, <2>3, <3>2 DEF JobInv
      <4>2. RollInv(r)' /\ MetInv' /\ (Left(r) > 0 => UNCHANGED gap)
        BY <1>1, <1>2, <1>3, <1>4, <2>3, <3>2, <4>1, RollStep
      <4>3. LoopInv'
        <5>1. CASE p = "loop"
          BY <1>3, <1>4, <1>5, <2>3, <3>2, <4>2, <5>1 DEF LoopInv
        <5>2. CASE p # "loop"
          BY <2>1, <5>2 DEF Jobs, Busy, LoopInv
        <5>. QED
          BY <5>1, <5>2
      <4>4. JobInv(p)'
        BY <1>3, <1>5, <3>2, <4>2 DEF JobInv
      <4>. QED
        BY <4>2, <4>3, <4>4
    <3>3. CASE j.kind = "roll" /\ history = "mixed"
      BY <1>3, <1>4, <1>5, <3>3 DEF MetInv, LoopInv, JobInv
    <3>4. CASE j.kind = "ap"
      <4>1. LevelInv
        BY <1>9, <1>11, <2>3, <3>4 DEF JobInv
      <4>2. LevelInv' /\ MetInv'
        BY <1>1, <1>2, <1>4, <2>3, <3>4, <4>1, APStep
      <4>3. job'["loop"].kind # "roll"
        BY <1>7, <2>1, <3>4 DEF Jobs, Busy
      <4>4. JobInv(p)'
        BY <1>3, <1>5, <3>4, <4>2 DEF JobInv
      <4>. QED
        BY <4>2, <4>3, <4>4 DEF LoopInv
    <3>. QED
      BY <1>2, <1>3, <3>1, <3>2, <3>3, <3>4 DEF Job
  <2>5. \A q \in Jobs : JobInv(q)'
    BY <2>1, <2>4 DEF JobInv
  <2>. QED
    BY <1>6, <1>8, <2>2, <2>4, <2>5 DEF UplinkInv
<1>. QED
  BY <1>10, <1>11

LEMMA IdleJob == Idle \in Job /\ Idle.kind = "none" /\ OnPlan(Idle)
<1>1. Idle \in Job /\ Idle.kind = "none" /\ Idle.todo = << >>
  BY BoundAssumption DEF Idle, Job, NoIdent, Ident, Hw, NoHost, Profiles
<1>2. Len(Plan(Idle)) = 0
  BY <1>1, PlanLength
<1>. QED
  BY <1>1, <1>2 DEF OnPlan, EndOf

LEMMA FaultTyped ==
    ASSUME faults \in 0..MaxFaults, Fault
    PROVE  faults' \in 0..MaxFaults
BY BoundAssumption DEF Fault

LEMMA StepFailsInv ==
    ASSUME UplinkInv, NEW p \in Jobs, StepFails(p)
    PROVE  UplinkInv'
<1>1. ConfigInv /\ RestInv
  BY TypeParts DEF UplinkInv
<1>2. /\ job[p] \in Job /\ OnPlan(job[p]) /\ job[p].todo # << >>
      /\ job' = [job EXCEPT ![p] = Idle] /\ history' = "mixed" /\ Fault
      /\ UNCHANGED <<mode, profile, age, want>>
  BY <1>1 DEF RestInv, StepFails, Mix, prefs
<1>3. ConfigInv'
  <2>1. CASE Effect(Head(job[p].todo))
    BY <1>1, <1>2, <2>1, EffectTyped
  <2>2. CASE UNCHANGED <<uci, radio>>
    BY <1>1, <2>2 DEF ConfigInv, uci, radio
  <2>. QED
    BY <2>1, <2>2 DEF StepFails
<1>4. job'[p] = Idle /\ \A q \in Jobs \ {p} : job'[q] = job[q]
  BY <1>1, <1>2 DEF RestInv
<1>5. RestInv'
  BY <1>1, <1>2, <1>4, IdleJob, FaultTyped DEF RestInv
<1>6. TypeInv'
  BY <1>3, <1>5, TypePartsNext
<1>7. Busy(p) /\ ~Busy(p)'
  BY <1>2, <1>4, NextCommand, IdleJob DEF Busy
<1>8. \A q \in Jobs \ {p} : (Busy(q)' <=> Busy(q)) /\ job'[q].alone = job[q].alone
  BY <1>4 DEF Busy
<1>9. AloneInv'
  BY <1>2, <1>7, <1>8 DEF AloneInv, UplinkInv
<1>10. \A q \in Jobs : ~(Busy(q)' /\ job'[q].alone)
  BY <1>7, <1>8 DEF AloneInv, UplinkInv
<1>. QED
  BY <1>2, <1>6, <1>9, <1>10, MixedInv

LEMMA StepFailsUnheardInv ==
    ASSUME UplinkInv, NEW p \in Jobs, StepFailsUnheard(p)
    PROVE  UplinkInv'
<1>. SUFFICES ASSUME NEW j, j = job[p], NEW r, r = [j EXCEPT !.todo = Tail(@), !.whole = FALSE]
              PROVE  UplinkInv'
  OBVIOUS
<1>1. ConfigInv /\ RestInv
  BY TypeParts DEF UplinkInv
<1>2. j \in Job /\ OnPlan(j) /\ j.todo # << >> /\ Deaf(Head(j.todo))
  BY <1>1 DEF RestInv, StepFailsUnheard
<1>3. /\ j.kind # "none" /\ r \in Job /\ OnPlan(r) /\ Left(r) = Left(j) - 1
      /\ r.kind = j.kind /\ r.net = j.net /\ r.ident = j.ident /\ r.alone = j.alone
      /\ ~r.whole
  <2>1. j.kind # "none" /\ Tail(j.todo) \in Seq(Command)
    BY <1>2, NextCommand
  <2>2. /\ r \in Job /\ r.todo = Tail(j.todo) /\ ~r.whole
        /\ r.kind = j.kind /\ r.net = j.net /\ r.ident = j.ident /\ r.alone = j.alone
    BY <1>2, <2>1 DEF Job
  <2>3. OnPlan(r) /\ Left(r) = Left(j) - 1
    BY <1>2, <2>2, AfterCommand
  <2>. QED
    BY <2>1, <2>2, <2>3
<1>4. /\ job' = [job EXCEPT ![p] = r] /\ Hush /\ Fault
      /\ UNCHANGED <<staged, saved, live, zoned, mode, profile, age, want, met, gap>>
  BY <1>1 DEF StepFailsUnheard, uci, prefs, radio, RestInv
<1>5. job'[p] = r /\ \A q \in Jobs \ {p} : job'[q] = job[q]
  BY <1>1, <1>4 DEF RestInv
<1>6. history' \in {"hushed", "mixed"} /\ (history = "mixed" => history' = "mixed")
  BY <1>4 DEF Hush
<1>7. TypeInv'
  <2>1. ConfigInv'
    BY <1>1, <1>4 DEF ConfigInv
  <2>2. RestInv'
    BY <1>1, <1>3, <1>4, <1>5, <1>6, FaultTyped DEF RestInv
  <2>. QED
    BY <2>1, <2>2, TypePartsNext
<1>8. \A q \in Jobs : (Busy(q)' <=> Busy(q)) /\ job'[q].alone = job[q].alone
  <2>1. job'[p].kind = job[p].kind /\ job'[p].alone = job[p].alone
    BY <1>3, <1>5
  <2>. QED
    BY <1>5, <2>1 DEF Busy
<1>9. AloneInv'
  BY <1>6, <1>8 DEF AloneInv, UplinkInv
<1>10. Busy(p) /\ (j.alone => \A q \in Jobs \ {p} : ~Busy(q))
  BY <1>3 DEF Busy, AloneInv, UplinkInv
<1>11. QuietInv' /\ MetInv' /\ LoopInv'
  BY <1>6, <1>8, <1>10 DEF QuietInv, MetInv, LoopInv
<1>12. ASSUME NEW q \in Jobs, Busy(q)', job'[q].alone
       PROVE  JobInv(q)'
  <2>1. q = p /\ j.alone
    BY <1>8, <1>10, <1>12 DEF UplinkInv, AloneInv
  <2>2. JobInv(p)
    BY DEF UplinkInv
  <2>3. CASE j.kind = "join"
    <3>1. JoinInv(r)'
      BY <1>2, <1>3, <1>4, <1>10, <2>1, <2>2, <2>3, JoinUnheard DEF JobInv
    <3>. QED
      BY <1>3, <1>5, <2>1, <2>3, <3>1 DEF JobInv
  <2>4. CASE j.kind = "roll"
    <3>1. history' # "mixed" => RollInv(r)'
      BY <1>2, <1>3, <1>4, <1>6, <1>10, <2>1, <2>2, <2>4, RollUnheard DEF JobInv
    <3>. QED
      BY <1>3, <1>5, <2>1, <2>4, <3>1 DEF JobInv
  <2>. QED
    BY <1>2, <2>3, <2>4, DeafCommand
<1>13. \A q \in Jobs : JobInv(q)'
  BY <1>12 DEF JobInv
<1>. QED
  BY <1>7, <1>9, <1>11, <1>13 DEF UplinkInv

\* A step of the clock or the settings disturbs no job.
LEMMA FrameInv ==
    ASSUME UplinkInv, UNCHANGED <<staged, saved, live, zoned, job, want, met, history>>,
           mode' \in Modes, profile' \in Profiles, faults' \in 0..MaxFaults,
           age' \in 0..Day, gap' \in 0..Day, live.mac = Hw => gap' = Day,
           age <= gap => age' <= gap', LoopInv'
    PROVE  UplinkInv'
<1>1. ConfigInv /\ RestInv
  BY TypeParts DEF UplinkInv
<1>2. TypeInv'
  <2>1. ConfigInv'
    BY <1>1 DEF ConfigInv
  <2>2. RestInv'
    BY <1>1 DEF RestInv, OnPlan, Plan
  <2>. QED
    BY <2>1, <2>2, TypePartsNext
<1>3. LevelInv => LevelInv'
  BY DEF LevelInv, Level, Kept
<1>4. AloneInv' /\ MetInv'
  BY DEF UplinkInv, AloneInv, MetInv, Busy
<1>5. QuietInv'
  BY <1>3 DEF UplinkInv, QuietInv, Busy
<1>6. ASSUME NEW q \in Jobs
      PROVE  JobInv(q)'
  <2>1. JobInv(q)
    BY DEF UplinkInv
  <2>2. JoinInv(job[q]) => JoinInv(job[q])'
    BY DEF JoinInv, Staged, SureMac, SureHost
  <2>3. RollInv(job[q]) => RollInv(job[q])'
    BY DEF RollInv, Staged, SureMac, SureHost
  <2>. QED
    BY <1>3, <2>1, <2>2, <2>3 DEF JobInv, Busy
<1>. QED
  BY <1>2, <1>4, <1>5, <1>6 DEF UplinkInv

LEMMA SettingsInv ==
    ASSUME UplinkInv, Settings \/ UNCHANGED vars
    PROVE  UplinkInv'
<1>1. ConfigInv /\ RestInv
  BY TypeParts DEF UplinkInv
<1>2. /\ UNCHANGED <<staged, saved, live, zoned, job, age, faults, want, met, gap, history>>
      /\ mode' \in Modes /\ profile' \in Profiles
  BY <1>1 DEF Settings, MacScheduleSet, MacProfileSet, RestInv, uci, radio, vars
<1>3. LoopInv'
  BY <1>2 DEF UplinkInv, LoopInv
<1>. QED
  BY <1>1, <1>2, <1>3, FrameInv DEF ConfigInv, RestInv

LEMMA CrashInv ==
    ASSUME UplinkInv, Crash
    PROVE  UplinkInv'
<1>1. ConfigInv /\ RestInv
  BY TypeParts DEF UplinkInv
<1>2. /\ job' = [p \in Jobs |-> Idle] /\ Fault
      /\ UNCHANGED <<staged, saved, live, zoned, mode, profile, age, want, met, gap>>
      /\ IF \E p \in Jobs : Busy(p) THEN history' = "mixed" ELSE history' = history
  BY DEF Crash, Killed, prefs, radio, Mix
<1>3. TypeInv'
  <2>1. ConfigInv'
    BY <1>1, <1>2 DEF ConfigInv
  <2>2. RestInv'
    BY <1>1, <1>2, IdleJob, FaultTyped DEF RestInv
  <2>. QED
    BY <2>1, <2>2, TypePartsNext
<1>4. \A q \in Jobs : ~Busy(q)'
  BY <1>2, IdleJob DEF Busy
<1>5. CASE \E p \in Jobs : Busy(p)
  <2>1. LevelInv' /\ MetInv'
    BY <1>2, <1>5 DEF LevelInv, MetInv
  <2>. QED
    BY <1>3, <1>4, <2>1, IdleInv
<1>6. CASE \A p \in Jobs : ~Busy(p)
  <2>1. LevelInv /\ MetInv
    BY <1>6 DEF UplinkInv, QuietInv
  <2>2. LevelInv' /\ MetInv'
    BY <1>2, <1>6, <2>1 DEF LevelInv, Level, Kept, MetInv
  <2>. QED
    BY <1>3, <1>4, <2>2, IdleInv
<1>. QED
  BY <1>5, <1>6

LEMMA RebootInv ==
    ASSUME UplinkInv, Reboot
    PROVE  UplinkInv'
<1>. USE PackageOptions
<1>1. ConfigInv /\ RestInv
  BY TypeParts DEF UplinkInv
<1>2. /\ job' = [p \in Jobs |-> Idle] /\ Fault
      /\ UNCHANGED <<saved, zoned, mode, profile, age, want>>
      /\ staged' = NoStage /\ Run(saved)
      /\ history' = IF \E p \in Jobs : Busy(p)
                    THEN IF history \in {"clean", "cut"} THEN "cut" ELSE "mixed"
                    ELSE history
  BY DEF Reboot, Killed, prefs
<1>3. /\ live' = saved
      /\ saved.mac = live.mac => met' = met \cup ({saved.ssid} \ {"none"}) /\ gap' = gap
      /\ saved.mac # live.mac => /\ met' = {saved.ssid} \ {"none"}
                                 /\ gap' = IF saved.mac = Hw THEN Day ELSE 0
  BY <1>2, RunEffect
<1>4. DOMAIN staged' = {}
  BY <1>2 DEF NoStage
<1>5. TypeInv'
  <2>1. met' \subseteq Networks /\ gap' \in 0..Day /\ (saved.mac = Hw => gap' = Day)
    BY <1>1, <1>3, BoundAssumption DEF ConfigInv
  <2>2. ConfigInv'
    BY <1>1, <1>2, <1>3, <1>4, <2>1 DEF ConfigInv
  <2>3. RestInv'
    BY <1>1, <1>2, IdleJob, FaultTyped DEF RestInv
  <2>. QED
    BY <2>2, <2>3, TypePartsNext
<1>6. \A q \in Jobs : ~Busy(q)'
  BY <1>2, IdleJob DEF Busy
<1>7. MetInv'
  BY <1>2, <1>3 DEF UplinkInv, MetInv
<1>8. LevelInv'
  <2>1. Level'
    BY <1>2, <1>3, <1>4 DEF Level
  <2>2. ASSUME history' \in {"clean", "hushed"}
        PROVE  Kept'
    <3>1. history' = history /\ \A p \in Jobs : ~Busy(p)
      BY <1>2, <2>2
    <3>2. Level /\ Kept
      BY <2>2, <3>1 DEF UplinkInv, QuietInv, LevelInv
    <3>. QED
      BY <1>2, <1>3, <3>1, <3>2 DEF Level, Kept
  <2>. QED
    BY <2>1, <2>2 DEF LevelInv
<1>. QED
  BY <1>5, <1>6, <1>7, <1>8, IdleInv

\* What is wanted once a job has finished, option by option.
LEMMA WantEffect ==
    ASSUME NEW j \in Job, NEW w, DOMAIN w = Options
    PROVE  /\ LET v == Over(j.ident, [ssid |-> j.net])
              IN  /\ DOMAIN v = Options
                  /\ v.mac = j.ident.mac /\ v.host = j.ident.host /\ v.ssid = j.net
           /\ LET v == Over(j.ident, w)
              IN  /\ DOMAIN v = Options
                  /\ v.mac = j.ident.mac /\ v.host = j.ident.host /\ v.ssid = w.ssid
<1>1. j.ident \in Ident /\ DOMAIN j.ident = {"mac", "host"}
  BY DEF Job, Ident
<1>2. DOMAIN [ssid |-> j.net] = {"ssid"} /\ [ssid |-> j.net]["ssid"] = j.net
  OBVIOUS
<1>. QED
  BY <1>1, <1>2, PackageOptions DEF Over

LEMMA FinishInv ==
    ASSUME UplinkInv, NEW p \in Jobs, Finish(p)
    PROVE  UplinkInv'
<1>. USE PackageOptions
<1>. SUFFICES ASSUME NEW j, j = job[p]
              PROVE  UplinkInv'
  OBVIOUS
<1>1. ConfigInv /\ RestInv
  BY TypeParts DEF UplinkInv
<1>2. /\ j \in Job /\ Busy(p) /\ j.kind # "none" /\ Left(j) = 0
      /\ job' = [job EXCEPT ![p] = Idle]
      /\ UNCHANGED <<staged, saved, live, zoned, mode, profile, met, gap>>
  BY <1>1 DEF RestInv, Finish, Busy, Left, uci, prefs, radio
<1>3. \/ /\ age' = IF NotesRoll(j) THEN 0 ELSE age
         /\ history' = IF j.kind = "join" /\ j.alone
                       THEN IF j.whole THEN "clean" ELSE "hushed"
                       ELSE history
         /\ UNCHANGED faults
      \/ history' = "mixed" /\ Fault /\ UNCHANGED age
  BY DEF Finish, Mix
<1>4. /\ j.kind = "join" => want' = Over(j.ident, [ssid |-> j.net])
      /\ j.kind = "roll" => want' = Over(j.ident, want)
      /\ j.kind = "ap" => want' = want
  BY DEF Finish
<1>5. /\ DOMAIN want' = Options
      /\ j.kind \in {"join", "roll"} => want'.mac = j.ident.mac /\ want'.host = j.ident.host
      /\ want'.ssid = IF j.kind = "join" THEN j.net ELSE want.ssid
  BY <1>1, <1>2, <1>4, WantEffect DEF RestInv, Job
<1>6. job'[p] = Idle /\ \A q \in Jobs \ {p} : job'[q] = job[q]
  BY <1>1, <1>2 DEF RestInv
<1>7. TypeInv'
  <2>1. ConfigInv'
    BY <1>1, <1>2 DEF ConfigInv
  <2>2. age' \in 0..Day
    BY <1>1, <1>3, BoundAssumption DEF RestInv
  <2>3. RestInv'
    BY <1>1, <1>2, <1>3, <1>5, <1>6, <2>2, IdleJob, FaultTyped DEF RestInv
  <2>. QED
    BY <2>1, <2>3, TypePartsNext
<1>8. ~Busy(p)' /\ \A q \in Jobs \ {p} : /\ Busy(q)' <=> Busy(q)
                                          /\ job'[q].alone = job[q].alone
  BY <1>6, IdleJob DEF Busy
<1>9. CASE ~j.alone
  <2>1. history' = "mixed"
    BY <1>2, <1>3, <1>9 DEF UplinkInv, AloneInv
  <2>2. AloneInv'
    BY <1>8, <2>1 DEF UplinkInv, AloneInv
  <2>3. \A q \in Jobs : ~(Busy(q)' /\ job'[q].alone)
    BY <1>2, <1>8 DEF UplinkInv, AloneInv
  <2>. QED
    BY <1>7, <2>1, <2>2, <2>3, MixedInv
<1>10. CASE j.alone
  <2>1. \A q \in Jobs : ~Busy(q)'
    BY <1>2, <1>8, <1>10 DEF UplinkInv, AloneInv
  <2>2. JobInv(p) /\ MetInv
    BY DEF UplinkInv
  <2>3. CASE history' = "mixed"
    BY <1>7, <2>1, <2>3, IdleInv DEF LevelInv, MetInv
  <2>4. CASE history' # "mixed" /\ j.kind = "join"
    <3>1. JoinInv(j)
      BY <1>2, <1>10, <2>2, <2>4 DEF JobInv
    <3>2. /\ saved.ssid = j.net /\ live.ssid = j.net
          /\ (j.whole \/ j.ident.mac # Hw) => saved.mac = j.ident.mac
          /\ (j.whole \/ j.ident.host # NoHost) => saved.host = j.ident.host
          /\ live.mac = saved.mac /\ live.host = saved.host
          /\ DOMAIN staged = {} /\ (j.whole => zoned)
          /\ (j.whole /\ live.mac # Hw) => met \subseteq {live.ssid}
      BY <1>2, <3>1 DEF JoinInv, SureMac, SureHost
    <3>3. /\ age' = IF NotesRoll(j) THEN 0 ELSE age
          /\ history' = IF j.whole THEN "clean" ELSE "hushed"
      BY <1>3, <1>10, <2>4
    <3>4. j.whole => age' <= gap
      BY <1>1, <2>4, <3>2, <3>3, BoundAssumption DEF NotesRoll, ConfigInv, RestInv
    <3>5. LevelInv' /\ MetInv'
      BY <1>2, <1>5, <2>4, <3>2, <3>3, <3>4 DEF LevelInv, Level, Kept, MetInv
    <3>. QED
      BY <1>7, <2>1, <3>5, IdleInv
  <2>5. CASE history' # "mixed" /\ j.kind = "roll"
    <3>1. history' = history /\ age' = 0
      BY <1>3, <2>5 DEF NotesRoll
    <3>2. RollInv(j)
      BY <1>2, <1>10, <2>2, <2>5, <3>1 DEF JobInv
    <3>3. /\ saved.mac = j.ident.mac /\ live.mac = j.ident.mac
          /\ (j.whole \/ j.ident.host # NoHost) => saved.host = j.ident.host
          /\ live.host = saved.host /\ saved.ssid = live.ssid /\ DOMAIN staged = {}
          /\ (history \in {"clean", "hushed"} /\ want.ssid # "none") => saved.ssid = want.ssid
          /\ (history = "clean" /\ want.ssid # "none") => zoned
          /\ history = "clean" => j.whole
      BY <1>2, <3>2 DEF RollInv, SureHost, UplinkInv, AloneInv
    <3>4. age' <= gap
      BY <1>1, <3>1, BoundAssumption DEF ConfigInv
    <3>5. LevelInv' /\ MetInv'
      BY <1>2, <1>5, <2>2, <2>5, <3>1, <3>3, <3>4 DEF LevelInv, Level, Kept, MetInv
    <3>. QED
      BY <1>7, <2>1, <3>5, IdleInv
  <2>6. CASE history' # "mixed" /\ j.kind = "ap"
    <3>1. history' = history /\ age' = age /\ want' = want
      BY <1>3, <1>4, <2>6 DEF NotesRoll
    <3>2. LevelInv
      BY <1>2, <1>10, <2>2, <2>6 DEF JobInv
    <3>3. LevelInv' /\ MetInv'
      BY <1>2, <2>2, <3>1, <3>2 DEF LevelInv, Level, Kept, MetInv
    <3>. QED
      BY <1>7, <2>1, <3>3, IdleInv
  <2>. QED
    BY <1>2, <2>3, <2>4, <2>5, <2>6 DEF Job
<1>. QED
  BY <1>9, <1>10

\* What all know of a job that begins.
Begun(p, j) ==
    /\ j.whole = TRUE
    /\ job' = [q \in Jobs |-> IF q = p THEN [j EXCEPT !.alone = ~\E o \in Jobs : Busy(o)]
                              ELSE [job[q] EXCEPT !.alone = @ /\ ~Busy(q)]]
    /\ (\E q \in Jobs : Busy(q)) => history' = "mixed"
    /\ history' \in {history, "mixed"}
    /\ faults' \in 0..MaxFaults

\* A job begins: with nobody else busy it is alone, else nobody is.
LEMMA BeginEffect ==
    ASSUME RestInv, AloneInv, NEW p \in Jobs, ~Busy(p),
           NEW j \in Job, j.kind # "none", OnPlan(j), Begun(p, j),
           mode' \in Modes, profile' \in Profiles, age' \in 0..Day, UNCHANGED want,
           NEW k, k = [j EXCEPT !.alone = ~\E q \in Jobs : Busy(q)]
    PROVE  /\ RestInv' /\ AloneInv'
           /\ job'[p] = k /\ k \in Job /\ k.alone = ~\E q \in Jobs : Busy(q)
           /\ k.kind = j.kind /\ k.net = j.net /\ k.ident = j.ident /\ Left(k) = Left(j)
           /\ \A q \in Jobs \ {p} : (Busy(q)' <=> Busy(q)) /\ ~(Busy(q)' /\ job'[q].alone)
           /\ (\E q \in Jobs : Busy(q)) => history' = "mixed"
           /\ history' \in {history, "mixed"}
<1>. DEFINE lone(i) == [i EXCEPT !.alone = @ /\ ~(i.kind # "none")]
<1>1. /\ k \in Job /\ k.alone = ~\E q \in Jobs : Busy(q)
      /\ k.kind = j.kind /\ k.net = j.net /\ k.ident = j.ident /\ k.todo = j.todo
      /\ k.whole
  BY DEF Job, Begun
<1>2. OnPlan(k) /\ Left(k) = Left(j)
  BY <1>1 DEF OnPlan, Plan, Left
<1>3. /\ job' = [q \in Jobs |-> IF q = p THEN k ELSE lone(job[q])]
      /\ (\E q \in Jobs : Busy(q)) => history' = "mixed"
      /\ history' \in {history, "mixed"} /\ faults' \in 0..MaxFaults
  BY DEF Begun, Busy
<1>4. ASSUME NEW i \in Job, OnPlan(i)
      PROVE  /\ lone(i) \in Job /\ lone(i).kind = i.kind /\ OnPlan(lone(i))
             /\ ~(i.kind # "none" /\ lone(i).alone)
  <2>1. /\ lone(i) \in Job /\ lone(i).kind = i.kind /\ lone(i).net = i.net
        /\ lone(i).ident = i.ident /\ lone(i).todo = i.todo
        /\ ~(i.kind # "none" /\ lone(i).alone)
    BY <1>4 DEF Job
  <2>. HIDE DEF lone
  <2>. QED
    BY <1>4, <2>1 DEF OnPlan, Plan
<1>. HIDE DEF lone
<1>5. job'[p] = k /\ \A q \in Jobs \ {p} : job'[q] = lone(job[q])
  BY <1>3
<1>6. RestInv'
  <2>1. job' \in [Jobs -> Job] /\ \A q \in Jobs : OnPlan(job'[q])
    BY <1>1, <1>2, <1>3, <1>4, <1>5 DEF RestInv
  <2>. QED
    BY <1>3, <2>1 DEF RestInv, OnPlan, Plan
<1>7. \A q \in Jobs \ {p} : (Busy(q)' <=> Busy(q)) /\ ~(Busy(q)' /\ job'[q].alone)
  BY <1>4, <1>5 DEF RestInv, Busy
<1>8. AloneInv'
  BY <1>1, <1>3, <1>5, <1>7 DEF AloneInv
<1>. QED
  BY <1>1, <1>2, <1>3, <1>5, <1>6, <1>7, <1>8

LEMMA BeginInv ==
    ASSUME UplinkInv, NEW p \in Jobs, ~Busy(p), NEW j \in Job, OnPlan(j), Begun(p, j),
           UNCHANGED <<staged, saved, live, zoned, mode, profile, want, met>>,
           age' \in 0..Day, gap' \in 0..Day, live.mac = Hw => gap' = Day,
           age <= gap => age' <= gap',
           \/ j.kind = "join" /\ Left(j) = 8 /\ (j.ident.mac # Hw => live.mac # j.ident.mac)
           \/ j.kind = "roll" /\ Left(j) = 6 /\ j.ident.mac # Hw /\ live.mac # j.ident.mac
           \/ j.kind = "ap",
           (p = "loop" /\ history' # "mixed" /\ age <= gap) => gap' = Day
    PROVE  UplinkInv'
<1>. USE PackageOptions
<1>. SUFFICES ASSUME NEW k, k = [j EXCEPT !.alone = ~\E q \in Jobs : Busy(q)]
              PROVE  UplinkInv'
  OBVIOUS
<1>1. ConfigInv /\ RestInv /\ AloneInv
  BY TypeParts DEF UplinkInv
<1>2. /\ RestInv' /\ AloneInv'
      /\ job'[p] = k /\ k \in Job /\ k.alone = ~\E q \in Jobs : Busy(q)
      /\ k.kind = j.kind /\ k.net = j.net /\ k.ident = j.ident /\ Left(k) = Left(j)
      /\ \A q \in Jobs \ {p} : (Busy(q)' <=> Busy(q)) /\ ~(Busy(q)' /\ job'[q].alone)
      /\ (\E q \in Jobs : Busy(q)) => history' = "mixed"
      /\ history' \in {history, "mixed"}
  <2>1. mode' \in Modes /\ profile' \in Profiles /\ j.kind # "none"
    BY <1>1 DEF RestInv
  <2>. QED
    BY <1>1, <2>1, BeginEffect
<1>3. TypeInv'
  <2>1. ConfigInv'
    BY <1>1 DEF ConfigInv
  <2>. QED
    BY <1>2, <2>1, TypePartsNext
<1>4. CASE \E q \in Jobs : Busy(q)
  <2>1. \A q \in Jobs : ~(Busy(q)' /\ job'[q].alone)
    BY <1>2, <1>4
  <2>. QED
    BY <1>2, <1>3, <1>4, <2>1, MixedInv
<1>5. CASE \A q \in Jobs : ~Busy(q)
  <2>1. /\ history' \in {history, "mixed"}
        /\ k.alone /\ Busy(p)' /\ \A q \in Jobs \ {p} : ~Busy(q)'
    BY <1>2, <1>5 DEF Busy
  <2>2. LevelInv /\ MetInv
    BY <1>5 DEF UplinkInv, QuietInv
  <2>3. LevelInv' /\ MetInv'
    BY <2>1, <2>2 DEF LevelInv, Level, Kept, MetInv
  <2>4. LoopInv'
    <3>1. CASE p = "loop"
      BY <2>1, <2>2, <3>1 DEF LoopInv, LevelInv, Kept
    <3>2. CASE p # "loop"
      BY <2>1, <3>2 DEF LoopInv, Busy, Jobs
    <3>. QED
      BY <3>1, <3>2
  <2>5. j.kind = "join" => JoinInv(k)'
    BY <1>2 DEF JoinInv
  <2>6. (j.kind = "roll" /\ history' # "mixed") => RollInv(k)'
    <3>. SUFFICES ASSUME j.kind = "roll", history' # "mixed"
                  PROVE  RollInv(k)'
      OBVIOUS
    <3>1. Level /\ (history \in {"clean", "hushed"} => Kept) /\ history' = history
      BY <2>1, <2>2 DEF LevelInv
    <3>. QED
      BY <1>2, <2>1, <3>1 DEF RollInv, Level, Kept
  <2>7. JobInv(p)'
    BY <1>2, <2>3, <2>5, <2>6 DEF JobInv
  <2>8. \A q \in Jobs : JobInv(q)'
    BY <2>1, <2>7 DEF JobInv
  <2>9. QuietInv'
    BY <2>1 DEF QuietInv
  <2>. QED
    BY <1>2, <1>3, <2>3, <2>4, <2>8, <2>9 DEF UplinkInv
<1>. QED
  BY <1>4, <1>5

\* A job that has all its commands to run is on its plan.
LEMMA WholePlan ==
    ASSUME NEW j \in Job, j.todo = Plan(j)
    PROVE  OnPlan(j) /\ Left(j) = Len(Plan(j))
<1>1. Len(j.todo) \in Nat
  BY DEF Job
<1>2. \A i \in 1..Len(j.todo) : i + Len(j.todo) - Len(j.todo) = i
  BY <1>1
<1>. QED
  BY <1>1, <1>2 DEF OnPlan, EndOf, Left

LEMMA IdentifyTyped ==
    ASSUME NEW id \in Ident
    PROVE  /\ RollCmds(id) \in Seq(Command)
           /\ \A n \in Networks : JoinCmds(n, id) \in Seq(Command)
           /\ SetAPCmds \in Seq(Command)
<1>1. /\ Set("mac", id.mac) \in Command /\ Set("host", id.host) \in Command
      /\ \A n \in Networks : Set("ssid", n) \in Command
  BY PackageOptions DEF Set, Command, Ident
<1>2. /\ Commit("wireless") \in Command /\ Commit("network") \in Command /\ Zone \in Command
      /\ Reload("wireless") \in Command /\ Reload("network") \in Command
  BY DEF Commit, Reload, Zone, Command
<1>. HIDE DEF Command
<1>. QED
  BY <1>1, <1>2 DEF RollCmds, JoinCmds, SetAPCmds, Identify

LEMMA JoinUplinkInv ==
    ASSUME UplinkInv, NEW r \in Requests, NEW n \in Networks, JoinUplink(r, n)
    PROVE  UplinkInv'
<1>1. ConfigInv /\ RestInv
  BY TypeParts DEF UplinkInv
<1>2. PICK m \in Read(mode, "on-join"), f \in Read(profile, "generic") :
        LET id == IF m = "off" THEN NoIdent ELSE GenerateIdentity(f)
        IN  /\ ~Busy(r)
            /\ Begin(r, [Idle EXCEPT !.kind = "join", !.net = n, !.ident = id,
                                     !.todo = JoinCmds(n, id)],
                     m # mode \/ f # profile, FALSE)
            /\ UNCHANGED <<uci, prefs, age, want, radio>>
  BY DEF JoinUplink
<1>. SUFFICES ASSUME NEW id, id = IF m = "off" THEN NoIdent ELSE GenerateIdentity(f),
                     NEW j, j = [Idle EXCEPT !.kind = "join", !.net = n, !.ident = id,
                                             !.todo = JoinCmds(n, id)]
              PROVE  UplinkInv'
  OBVIOUS
<1>3. id \in Ident /\ (id.mac # Hw => live.mac # id.mac)
  <2>1. NoIdent \in Ident /\ NoIdent.mac = Hw
    BY BoundAssumption DEF NoIdent, Ident, Hw, NoHost, Profiles
  <2>2. f \in Profiles
    BY <1>1 DEF Read, Profiles, RestInv
  <2>. QED
    BY <2>1, <2>2, FreshIdent DEF UplinkInv
<1>4. /\ j \in Job /\ j.kind = "join" /\ j.net = n /\ j.ident = id /\ j.todo = JoinCmds(n, id)
      /\ j.whole = TRUE
  BY <1>3, IdentifyTyped DEF Idle, Job
<1>5. OnPlan(j) /\ Left(j) = 8
  <2>1. Plan(j) = JoinCmds(n, id)
    BY <1>4 DEF Plan
  <2>2. Len(JoinCmds(n, id)) = 8
    BY JoinPlan
  <2>3. OnPlan(j) /\ Left(j) = Len(Plan(j))
    BY <1>4, <2>1, WholePlan
  <2>. QED
    BY <2>1, <2>2, <2>3
<1>6. Begin(r, j, m # mode \/ f # profile, FALSE)
  BY <1>2
<1>7. ~Busy(r) /\ Begun(r, j)
  BY <1>1, <1>2, <1>4, <1>6, FaultTyped DEF Begin, Begun, Mix, RestInv
<1>8. UNCHANGED <<staged, saved, live, zoned, mode, profile, age, want, met, gap>>
  BY <1>2 DEF uci, prefs, radio
<1>9. r \in Jobs /\ r # "loop"
  BY LoopAssumption DEF Jobs
<1>. QED
  BY <1>1, <1>3, <1>4, <1>5, <1>7, <1>8, <1>9, BeginInv DEF ConfigInv, RestInv

LEMMA SetAPInv ==
    ASSUME UplinkInv, NEW r \in Requests, SetAP(r)
    PROVE  UplinkInv'
<1>. SUFFICES ASSUME NEW j, j = [Idle EXCEPT !.kind = "ap", !.todo = SetAPCmds]
              PROVE  UplinkInv'
  OBVIOUS
<1>1. ConfigInv /\ RestInv
  BY TypeParts DEF UplinkInv
<1>2. NoIdent \in Ident
  BY BoundAssumption DEF NoIdent, Ident, Hw, NoHost, Profiles
<1>3. j \in Job /\ j.kind = "ap" /\ j.todo = SetAPCmds /\ j.whole = TRUE
  BY <1>2, IdentifyTyped DEF Idle, Job
<1>4. OnPlan(j)
  BY <1>3, WholePlan DEF Plan
<1>5. /\ ~Busy(r) /\ Begin(r, j, FALSE, FALSE)
      /\ UNCHANGED <<staged, saved, live, zoned, mode, profile, age, want, met, gap>>
  BY DEF SetAP, uci, prefs, radio
<1>6. Begun(r, j)
  BY <1>1, <1>3, <1>5, FaultTyped DEF Begin, Begun, Mix, RestInv
<1>7. r \in Jobs /\ r # "loop"
  BY LoopAssumption DEF Jobs
<1>. QED
  BY <1>1, <1>3, <1>4, <1>5, <1>6, <1>7, BeginInv DEF ConfigInv, RestInv

\* The roll that ApplySTAIdentity begins.
LEMMA RollBegins ==
    ASSUME UplinkInv, NEW p \in Jobs, NEW hasty \in BOOLEAN, ApplySTAIdentity(p, hasty)
    PROVE  \E j \in Job : /\ OnPlan(j) /\ j.kind = "roll" /\ Left(j) = 6
                          /\ j.ident.mac # Hw /\ live.mac # j.ident.mac
                          /\ Begun(p, j) /\ (hasty => history' = "mixed")
<1>1. ConfigInv /\ RestInv
  BY TypeParts DEF UplinkInv
<1>2. PICK f \in Read(profile, "generic") :
        LET id == GenerateIdentity(f)
        IN  Begin(p, [Idle EXCEPT !.kind = "roll", !.ident = id, !.todo = RollCmds(id)],
                  f # profile, hasty)
  BY DEF ApplySTAIdentity
<1>3. PICK id : id = GenerateIdentity(f)
  OBVIOUS
<1>4. PICK j : j = [Idle EXCEPT !.kind = "roll", !.ident = id, !.todo = RollCmds(id)]
  OBVIOUS
<1>5. id \in Ident /\ live.mac # id.mac /\ id.mac # Hw
  <2>1. f \in Profiles
    BY <1>1 DEF Read, Profiles, RestInv
  <2>. QED
    BY <1>3, <2>1, FreshIdent DEF UplinkInv
<1>6. /\ j \in Job /\ j.kind = "roll" /\ j.ident = id /\ j.todo = RollCmds(id)
      /\ j.whole = TRUE
  BY <1>4, <1>5, IdentifyTyped DEF Idle, Job
<1>7. Begin(p, j, f # profile, hasty)
  BY <1>2, <1>3, <1>4
<1>8. Begun(p, j) /\ (hasty => history' = "mixed")
  BY <1>1, <1>6, <1>7, FaultTyped DEF Begin, Begun, Mix, RestInv
<1>9. OnPlan(j) /\ Left(j) = 6
  BY <1>6, WholePlan, RollPlan DEF Plan
<1>. QED
  BY <1>5, <1>6, <1>8, <1>9

LEMMA RollMACInv ==
    ASSUME UplinkInv, NEW r \in Requests, RollMAC(r)
    PROVE  UplinkInv'
<1>1. ConfigInv /\ RestInv
  BY TypeParts DEF UplinkInv
<1>2. r \in Jobs /\ r # "loop"
  BY LoopAssumption DEF Jobs
<1>3. /\ ~Busy(r) /\ ApplySTAIdentity(r, FALSE)
      /\ UNCHANGED <<staged, saved, live, zoned, mode, profile, age, want, met, gap>>
  BY DEF RollMAC, uci, prefs, radio
<1>4. PICK j \in Job : /\ OnPlan(j) /\ j.kind = "roll" /\ Left(j) = 6
                      /\ j.ident.mac # Hw /\ live.mac # j.ident.mac /\ Begun(r, j)
  BY <1>2, <1>3, RollBegins
<1>. QED
  BY <1>1, <1>2, <1>3, <1>4, BeginInv DEF ConfigInv, RestInv

LEMMA HourInv ==
    ASSUME UplinkInv, Hour
    PROVE  UplinkInv'
<1>1. ConfigInv /\ RestInv
  BY TypeParts DEF UplinkInv
<1>2. Day \in Nat /\ age \in 0..Day /\ gap \in 0..Day /\ (live.mac = Hw => gap = Day)
  BY <1>1, BoundAssumption DEF ConfigInv, RestInv
<1>3. /\ ~Busy("loop") /\ "loop" \in Jobs
      /\ age' = IF age < Day THEN age + 1 ELSE age
      /\ gap' = IF gap < Day THEN gap + 1 ELSE gap
      /\ UNCHANGED <<staged, saved, live, zoned, mode, profile, want, met>>
  BY DEF Hour, uci, prefs, Jobs
<1>4. /\ age' \in 0..Day /\ gap' \in 0..Day /\ (live.mac = Hw => gap' = Day)
      /\ age <= gap => age' <= gap'
  BY <1>2, <1>3
<1>5. PICK m \in Read(mode, "on-join"), last \in Read(age', Day) :
        IF Due(m, last) /\ Configured
        THEN ApplySTAIdentity("loop", last # age')
        ELSE /\ IF m # mode \/ last # age' THEN Fault ELSE UNCHANGED faults
             /\ UNCHANGED <<job, history>>
  BY DEF Hour
<1>6. CASE Due(m, last) /\ Configured
  <2>1. PICK j \in Job : /\ OnPlan(j) /\ j.kind = "roll" /\ Left(j) = 6
                        /\ j.ident.mac # Hw /\ live.mac # j.ident.mac /\ Begun("loop", j)
                        /\ (last = age' \/ history' = "mixed")
    <3>1. CASE last # age'
      <4>1. ApplySTAIdentity("loop", TRUE)
        BY <1>5, <1>6, <3>1
      <4>. QED
        BY <1>3, <4>1, RollBegins
    <3>2. CASE last = age'
      <4>1. ApplySTAIdentity("loop", FALSE)
        BY <1>5, <1>6, <3>2
      <4>. QED
        BY <1>3, <3>2, <4>1, RollBegins
    <3>. QED
      BY <3>1, <3>2
  <2>2. (history' # "mixed" /\ age <= gap) => gap' = Day
    <3>. SUFFICES ASSUME history' # "mixed", age <= gap
                  PROVE  gap' = Day
      OBVIOUS
    <3>1. age' = Day
      BY <1>6, <2>1 DEF Due
    <3>. QED
      BY <1>2, <1>3, <3>1
  <2>3. \/ j.kind = "join" /\ Left(j) = 8 /\ (j.ident.mac # Hw => live.mac # j.ident.mac)
        \/ j.kind = "roll" /\ Left(j) = 6 /\ j.ident.mac # Hw /\ live.mac # j.ident.mac
        \/ j.kind = "ap"
    BY <2>1
  <2>. QED
    BY <1>3, <1>4, <2>1, <2>2, <2>3, BeginInv
<1>7. CASE ~(Due(m, last) /\ Configured)
  <2>1. UNCHANGED <<job, history>> /\ faults' \in 0..MaxFaults
    BY <1>1, <1>5, <1>7, FaultTyped DEF RestInv
  <2>2. LoopInv'
    BY <1>3, <2>1 DEF LoopInv, Busy
  <2>. QED
    BY <1>1, <1>3, <1>4, <2>1, <2>2, FrameInv DEF RestInv
<1>. QED
  BY <1>6, <1>7

-----------------------------------------------------------------------------
(* Theorems *)

LEMMA InitInv == Init => UplinkInv
<1>. SUFFICES ASSUME Init
              PROVE  UplinkInv
  OBVIOUS
<1>. USE PackageOptions
<1>1. /\ DOMAIN Unset = Options
      /\ Unset.mac = Hw /\ Unset.host = NoHost /\ Unset.ssid = "none"
  BY DEF Unset, NoIdent, Over
<1>2. DOMAIN staged = {} /\ saved = Unset /\ live = Unset /\ want = Unset
  BY DEF Init, NoStage
<1>3. \A p \in Jobs : job[p] = Idle /\ ~Busy(p)
  BY IdleJob DEF Init, Busy
<1>4. ConfigInv
  <2>1. zoned = FALSE /\ met = {} /\ gap = Day /\ Day \in Nat /\ MaxIds \in Nat
    BY BoundAssumption DEF Init
  <2>2. Hw \in 0..MaxIds /\ NoHost \in Profiles
    BY <2>1 DEF Hw, NoHost, Profiles
  <2>3. /\ saved.mac = Hw /\ saved.host = NoHost /\ saved.ssid = "none" /\ DOMAIN saved = Options
        /\ live.mac = Hw /\ live.host = NoHost /\ live.ssid = "none" /\ DOMAIN live = Options
    BY <1>1, <1>2
  <2>4. /\ {saved.mac, live.mac} \subseteq 0..MaxIds
        /\ {saved.host, live.host} \subseteq Profiles
        /\ {saved.ssid, live.ssid} \subseteq Networks \cup {"none"}
    BY <2>2, <2>3
  <2>5. DOMAIN staged = {}
    BY <1>2
  <2>6. zoned \in BOOLEAN /\ met \subseteq Networks
    BY <2>1
  <2>7. gap \in 0..Day /\ gap = Day
    BY <2>1
  <2>. QED
    BY <2>3, <2>4, <2>5, <2>6, <2>7 DEF ConfigInv
<1>5. RestInv
  BY <1>1, <1>2, <1>3, IdleJob, BoundAssumption DEF Init, RestInv, Modes, Profiles
<1>6. TypeInv
  BY <1>4, <1>5, TypeParts
<1>7. LevelInv /\ MetInv
  BY <1>1, <1>2, BoundAssumption DEF Init, LevelInv, Level, Kept, MetInv
<1>8. ~Busy("loop")
  BY <1>3 DEF Jobs
<1>. QED
  BY <1>3, <1>6, <1>7, <1>8 DEF UplinkInv, AloneInv, QuietInv, LoopInv, JobInv, Busy

LEMMA NextInv == UplinkInv /\ [Next]_vars => UplinkInv'
<1>. SUFFICES ASSUME UplinkInv, [Next]_vars
              PROVE  UplinkInv'
  OBVIOUS
<1>1. ASSUME NEW r \in Requests, Request(r)
      PROVE  UplinkInv'
  BY <1>1, JoinUplinkInv, SetAPInv, RollMACInv DEF Request
<1>2. ASSUME NEW p \in Jobs, Work(p)
      PROVE  UplinkInv'
  BY <1>2, StepInv, StepFailsInv, StepFailsUnheardInv, FinishInv DEF Work
<1>3. CASE Settings \/ UNCHANGED vars
  BY <1>3, SettingsInv
<1>4. CASE Hour
  BY <1>4, HourInv
<1>5. CASE Crash
  BY <1>5, CrashInv
<1>6. CASE Reboot
  BY <1>6, RebootInv
<1>. QED
  BY <1>1, <1>2, <1>3, <1>4, <1>5, <1>6 DEF Next

LEMMA UplinkInvariant == Spec => []UplinkInv
BY InitInv, NextInv, PTL DEF Spec

\* The configuration, the jobs and the clocks stay well typed (wifi.go, netops.go).
THEOREM UplinkTypeCorrect == Spec => []TypeOK
<1>1. UplinkInv => TypeOK
  BY DEF UplinkInv, TypeInv
<1>. QED
  BY <1>1, UplinkInvariant, PTL

\* A join that ran alone leaves radio and flash with what it set, whatever earlier
\* requests had left staged, and unless a command failed unheard with what it
\* cleared as well and in the wan zone (JoinUplink).
THEOREM JoinLeavesWhatItAsked == Spec => []JoinTakes
<1>1. UplinkInv => JoinTakes
  <2>. SUFFICES ASSUME UplinkInv, history \in {"clean", "hushed"}, want.ssid # "none", Quiet
                PROVE  /\ \A o \in Options :
                             /\ live[o] = saved[o]
                             /\ (history = "clean" \/ want[o] # Unset[o]) => live[o] = want[o]
                       /\ history = "clean" => zoned
    BY DEF JoinTakes
  <2>1. Level /\ Kept
    BY DEF UplinkInv, QuietInv, LevelInv, Quiet
  <2>2. Unset.mac = Hw /\ Unset.host = NoHost
    BY DEF Unset, NoIdent, Over
  <2>. QED
    BY <2>1, <2>2, PackageOptions DEF Level, Kept
<1>. QED
  BY <1>1, UplinkInvariant, PTL

\* No two networks see one spoofed MAC while no request overlapped another,
\* failed, heard or unheard, or died, across power cuts at any command
\* (JoinUplink, ApplySTAIdentity).
THEOREM OneNetworkPerMAC == Spec => []MACPerNetwork
<1>1. UplinkInv => MACPerNetwork
  BY DEF UplinkInv, MetInv, MACPerNetwork
<1>. QED
  BY <1>1, UplinkInvariant, PTL

\* The daily schedule replaces no MAC that is less than a day old, a roll by
\* hand or a join's being noted as the schedule's own are (RunMACSchedule).
THEOREM ScheduledRollsSpaced == Spec => RollsSpaced
<1>. DEFINE A == (history = "clean" /\ job["loop"].kind = "roll" /\ live'.mac # live.mac
                  /\ job'["loop"].kind = "roll") => gap = Day
<1>1. UplinkInv /\ [Next]_vars => A
  <2>. SUFFICES ASSUME UplinkInv, [Next]_vars, history = "clean", job["loop"].kind = "roll",
                       live'.mac # live.mac, job'["loop"].kind = "roll"
                PROVE  gap = Day
    OBVIOUS
  <2>1. RestInv /\ "loop" \in Jobs
    BY TypeParts DEF UplinkInv, Jobs
  <2>2. Busy("loop") /\ \A q \in Jobs \ {"loop"} : ~Busy(q)
    BY <2>1 DEF UplinkInv, AloneInv, Busy
  <2>3. job' # [p \in Jobs |-> Idle]
    BY <2>1, IdleJob
  <2>4. PICK p \in Jobs : Step(p) \/ StepFails(p) \/ StepFailsUnheard(p)
    BY <2>3 DEF Next, Request, JoinUplink, SetAP, RollMAC, Work, Finish, Settings, Hour, Crash,
                Reboot, Killed, uci, vars
  <2>5. job[p].todo # << >> /\ job[p] \in Job /\ OnPlan(job[p])
    BY <2>1, <2>4 DEF Step, StepFails, StepFailsUnheard, RestInv
  <2>6. p = "loop" /\ Left(job[p]) \in Nat \ {0}
    BY <2>2, <2>5, NextCommand DEF Busy
  <2>. QED
    BY <2>6 DEF UplinkInv, LoopInv
<1>2. RollsSpaced <=> [][A]_vars
  BY DEF RollsSpaced
<1>. QED
  BY <1>1, <1>2, UplinkInvariant, PTL DEF Spec
=============================================================================
