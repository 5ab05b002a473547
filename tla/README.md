# A TLA+ verification of MistUI

MistUI is one daemon, `mistd`, that runs on a travel router and changes its
network configuration on behalf of a browser. This directory models the parts of
it whose correctness depends on the order of things: handlers that interleave,
goroutines that watch an uplink or rotate its identity, lists of commands that stop
half-way, a daemon that dies, files that are cut short. TLC checks the models on small
instances; TLAPS proves every safety property of the passing runs for every instance.

References such as `portalmode.go:85` are to files of `src/` (`internal/httpapi/`
unless a directory is given).

## 1. Inventory

| Component | State | Operations | What is hard, and what makes it correct |
|---|---|---|---|
| **Portal mode** (`portalmode.go`) | record `portal_mode` in the store (saved posture, deadline, portal URL), `portalNote`, channel `portalKick` | `enterPortalMode`, `exitPortalMode`, `cancelPortalMode`, goroutine `RunPortalWatch` with `portalScout` | No lock: handlers and watch interleave between any two commands; it must survive restarts. Every pause ends, restores exactly the posture it paused, and never takes the relaxed router for that posture. |
| **Kill switch** (`vpn/killswitch.go`) | UCI forwarding lan→wan, running firewall, conntrack table | `SetKillSwitch` (script, reload, flush), `KillSwitch` | A masked reload error; flows older than the rules. Switch on means that nothing reaches the raw WAN. |
| **Tunnel** (`vpn/vpn.go`, `api.go`) | UCI interface, key `vpn_summary` | `Import`, `Up`, `Down` | Paused and brought back by portal mode. |
| **Encrypted DNS** (`dns/service.go`, `dnsops.go`) | dnsmasq and firewall sections, keys `dns_defaulted`, `dns_provider` | `Enable`, `Disable`, `SetFailClosed`, `dnsSet`, `applyDNSDefault`, provider choice | The fail-closed rule depends on DNS *and* kill switch, which different handlers change. |
| **DoH forwarder** (`dns/forwarder.go`, `providers.go`) | listeners, 32-slot semaphore, pooled upstream connections, active provider | `serveUDP`, `serveTCP`, `exchange`, `SetProvider`, `CloseUpstream` | A full semaphore stops the reader; connections older than the rules. Every query is answered or its connection ended, and a shutdown ends. |
| **Sessions** (`store/store.go`, `authflow.go`) | bucket `sessions` | `issueSession`, `sessionValid`, `logout` | Read, decide, write in separate transactions; times without fractions. Idle and absolute cap; an ended session stays ended. |
| **Ceremonies, recovery, step-up** (`authflow.go`) | two in-memory `ttlSet`s, bucket `credentials`, key `recovery_hash` | `registerBegin/Finish`, `loginBegin/Finish`, `loginRecovery`, `stepUpBegin/Finish`, `recoveryRegenerate`, `requireStepUp` | One ceremony per challenge, one action per touch, whichever requests run together; a code never is the only way in. |
| **WebAuthn verification** (`auth/`) | none | CBOR, COSE, ECDSA | Pure functions. |
| **Store** (`store/store.go`) | one bbolt file | one transaction per call | Atomic per call, nothing across calls. |
| **TLS material** (`certgen/certgen.go`, `cmd/mistd/main.go`) | four PEM files | `EnsureMaterial`, the listener | Rewritten in place; a start may be cut short anywhere. What is served is in date, a key pair, and signed by the CA offered for install. |
| **Portal probe, conntrack flush, command runner** (`netcfg/portal.go`, `netcfg/conntrack.go`, `run/run.go`) | none | `ProbePortal`, `FlushConntrack`, `Exec.Run` | May fail at any call; a command fails at once when its context is done. |
| **WiFi** (`netcfg/wifi.go`, `netops.go`) | staged, committed and live wireless and network sections | `SetAP`, `JoinUplink`, `ApplySTAIdentity`, `Scan` | Lists of commands without a lock: one that stops half-way leaves changes staged for the next commit of anybody. A join that succeeds leaves what it asked for, whatever it found. It kicks the watch; the first network setup runs the DNS default. |
| **MAC identity** (`netops.go`, `netcfg/identity.go`) | keys `mac_schedule`, `mac_profile`, `mac_last_roll` | `RunMACSchedule`, `rollMAC`, `macScheduleSet`, `macProfileSet`, `GenerateIdentity` | Rotation beside joins, failures and restarts. One network never sees the MAC another one saw; rolls are a day apart and do come. |
| **VPN import** (`vpn/config.go`, `api.go`, `dnsops.go`) | none while parsing | `ParseConfig`, `validate`, `Summary`, `pinEndpoints` | One pass with three variables must decide what the file as a whole says; some lookups fail. |
| **Maintenance** (`maint/maint.go`, `maintops.go`) | one image file, two detached commands | upload, test, flash, factory reset | Concurrent uploads share the file; test and use are two steps; the commands must outlive the daemon. |
| **Routing, start-up** (`api.go`, `cmd/mistd/main.go`) | none of its own | middleware, goroutines | Which handler is behind a session or a step-up. |
| **Browser UI, packaging, OUI generator** | – | – | Clients of the API, and build and install scripts. |

How they interact. A request's goroutine and the watch's goroutine act on three
shared things without a common lock: the router (UCI and its services, through
`run.Exec`), the store (through bbolt transactions) and `portalKick` (a channel of
one). The goroutine of `RunMACSchedule` shares router and store with them, and the
forwarder's goroutines the pool that `SetFailClosed` cuts. A toggle of kill switch or DNS cancels a pause; a join kicks the watch; the
watch enters and leaves the pause like a request does. Everything in memory
(challenges, credits, note, kick) dies with the daemon, which procd starts again.

`PROJECT.json` lists the hazards this leads to, each at its line and with the
properties that watch over it.

## 2. Modules

| Module | Contents |
|---|---|
| `PortalPause` | abstract specification: what a pause promises the user |
| `PortalMode` | portal mode, kill switch, encrypted DNS, tunnel, watch: composed in one module, since they share the router and the record |
| `PortalModeProofs` | the inductive invariants `RecordInv`, `RestoreInv` and `PauseInv`; types and the record, under every fault; what a pause and its end leave behind; the refinement of `PortalPause` |
| `SessionLife` | abstract specification: tokens are issued once, and end for good |
| `Sessions`, `SessionsProofs` | the bucket and the policy of `authflow.go`; caps and refinement |
| `Ceremonies`, `CeremoniesProofs` | the handlers of `authflow.go`; it sees sessions as `SessionLife` promises them |
| `Certgen`, `CertgenProofs` | the TLS files, start by start |
| `Maint`, `MaintProofs` | upload, test, flash and factory reset |
| `Forwarder`, `ForwarderProofs` | the DoH forwarder, its pool and its provider |
| `Uplink`, `UplinkProofs` | travel AP, uplink and the identity it shows, command by command |
| `VpnConfig`, `VpnConfigProofs` | the parser, a definition of what a file means, and the import |
| `MCPortalMode`, `MCSessions`, `MCCeremonies`, `MCCertgen`, `MCMaint`, `MCForwarder`, `MCUplink`, `MCVpnConfig` | model values, symmetry and state constraints for TLC |

Definitions whose comment begins with "Variant:" are plausible bugs. They are part
of no specification; `PROJECT.json` names for each property the variant that
breaks it.

### PortalMode

State. `cfg` is what UCI has committed and `live` what dnsmasq and the firewall
run with, both as sets of the four sections the daemon owns: the lan→wan
forwarding, dnsmasq's DoH upstream, the port-53 rules, the fail-closed rule.
`wg` is the tunnel, `flows` what is open over the raw WAN. `rec` is the store's
`portal_mode`, `keys` the two other keys that matter, `kick` the channel, `note`
the text shown to the user. Each process has `pc`, `op` (its handler), `loc` (the
Go variable of type `portalRecord`) and, in `cancelled`, whether its context is
done. `intent` and `history` are history variables: the posture the user last
chose, and whether the current pause ran undisturbed (`"clean"`), was cut by a
restart (`"cut"`), or met another handler, a store that refused its record or a
re-entry that could not read it (`"disturbed"`).

Actions. One action is one external command or store transaction, from its call to
its outcome; a handler is a path over them. `Enter`: read the record, query switch
and DNS, save, take the tunnel down, switch off, disable DNS. `Exit`: read, tunnel
up, switch on (script, then flush), enable DNS, fail-closed rule, delete the
record, set the note. `Toggle`: `killSwitchSet` and `dnsSet` with the cross-query,
the marks, `cancelPortalMode`; `wifiSetAP` with `applyDNSDefault`. `Other`: join and
the tunnel's operations. `Watching`: the loop of `RunPortalWatch` and
`portalScout`, with the verdict of each probe open. `Environment`: clock, traffic,
death of the daemon, reboot of the router.

Failures (`Faults`): `"cmd"`, a command fails, and so does in silence each delete that
ends in `|| true` (`Deleted`); `"ctx"`, a context ends at any step, also within the
kill-switch script between commit and reload; `"store"`, a transaction fails. A failed
write is logged and the handler goes on; a failed read is taken for an absent key
(`ReadFails`, from `portalmode.go:48`), by whoever reads: a re-entry captures the
relaxed router anew, an exit or a cancellation does nothing, the watch goes idle over a
standing record, the scout enters over one, `applyDNSDefault` decides again.

Abstract view. `PortalPause` knows the user's posture, the protections in force, the
posture on record and whether the user is switching something. `PortalMode` shows it
`intent`, what `KillSwitch` and `Enabled` would say of the running services, the record
without deadline and address, and whether a toggle is under way. Saving the record is
`Pause`, deleting it `Resume`; each command that brings a protection out of force or
back is `Relax` or `Restore`, a reboot that makes a commit effective too; a toggle is
`TakeOver`, `Switch`, `HandBack`. Nothing is promised once the history is disturbed.

Abstractions. The `uci` commands up to a commit are one step; uncommitted changes
that a failed group leaves staged are not state. A script orphaned by a death of
the daemon is taken to have finished before the daemon is back. Deadlines are kept
as time left. The wireless configuration (module `Uplink`) and the forwarder's
queries and provider (module `Forwarder`) are not state here.

### Sessions

One action per transaction: `PutSession`, `ReadSession` (with the decision of
`sessionValid`), `BumpSession`, `DeleteExpired`, `Logout`. `Stored` is what RFC 3339
makes of a time: it drops the fraction of a second. The history variables `born`,
`real` and `ok` are the true times of login, of the last real request accepted and
of the last request of any kind. The clock only runs forward.

### Ceremonies

A request is a path over `Provisioned`, `CheckSession`, `IssueChallenge`,
`VerifyCeremony`, `VerifyAssertion`, `PutCredential`, `MintCode`, `Login`,
`CompareCode`, `BurnCode`, `GrantCredit`, `SpendCredit`. The two `ttlSet`s map
entries to the time left. Whether bytes verify is open, and every store
transaction may fail. A session may end at any time.

### Certgen

`EnsureMaterial` file by file: `LoadCA`, `CreateCA`, `WriteCA`, `WriteCAKey`,
`RemoveCert`, `RemoveKey`, `CheckLeaf`, `CreateLeaf`, `WriteCert`, `WriteKey`,
then `Listen`. A write that fails or is cut short leaves the old file or a torn
one; `history` becomes `"cut"` when this first happens. A key is an identity, a
certificate names its key, its signer and the time left. The host name is fixed.
Time passes while the daemon serves or is down, not within a start. Data that a
completed write has not yet brought to the flash is not modelled.

### Maint

`file` is what the path of the image holds: a sequence of blocks, each the i-th
block of some image, or a hole where a writer went on past a truncation. Each upload
has its own offset (`up`); `linked` are the uploads whose descriptor is still the
file at that path. `OpenImage` truncates under whoever writes, `CopyFails` removes
under whoever writes. `FlashTest` decides on the file of that moment, `FlashStart`
and `ResetStart` add a detached command to `jobs`, which `Crash` leaves alone
(`Setsid`) and `Rebooted` ends. `Accepts` is `sysupgrade --test`: the whole images
for this device. The step-up before a flash or reset is in `Ceremonies`.

### Forwarder

`msg` follows each query: sent, held by the UDP loop, in its handler (`"start"`),
waiting for a connection (`"want"`), in an exchange (`"fly"`), answered (`"rest"`) or
met with silence. `ReadUDP` and `Dispatch` are the two halves of the loop around the
semaphore, `ReadTCP` the loop of one connection. `conns` and `dialing` are
connections over the raw WAN, one per provider since HTTP/2 shares them; a query that
goes through the tunnel only completes. `Fail` is every way an exchange fails,
`exchangeTTL` included. `PutProvider` and `SetProvider` are the two steps of
`dnsProviderSet`, `FailClosedRule` and `CloseUpstream` those of `SetFailClosed` once
the rule is in force. The end of the context (`Stop`) closes the listeners and ends the
exchanges; `serveConn` looks at neither and goes on with a connection as long as
messages come in on it (`Send`). `Restart` may fail to read the stored provider and then
runs with the default. A query of an address record, its name and its answer are
not told apart; datagrams that a full socket buffer drops are those not sent.

### Uplink

A job (a request, or the schedule loop) is the list of commands it has still to run.
`uci set` and `uci delete` stage a change that everybody sees and commits, `uci
commit` writes one package, a reload makes it live. Options told apart: `ssid` (with
encryption and key), `mac`, and the DHCP hostname in the other package. `StepFails`
stops a list anywhere and takes nothing back; a command that is killed at the
deadline may have had its effect. `StepFailsUnheard` is the failure of a delete that
ends in `|| true` (`netcfg/wifi.go:115`, 219, 227) or within the firewall script
(`wifi.go:126`): nothing is done, the list goes on and success is reported. `Reboot`
loses what is staged and runs the flash. `Hour` is one tick of `RunMACSchedule`. A
failed read of a setting gives its default (`Read`), one of `mac_last_roll` rolls at once. History: `want` is what the last join asked
for, `met` the networks that saw the live MAC, `gap` its age; `history` is mixed after a
failure or overlap, cut after a power loss in a clean job, and clean again once a join
succeeds alone; hushed, if a command of that join or of a job after it failed unheard
(`whole` says so of a job under way). A MAC is a number that is not in
use: the random MACs of the code are taken to differ. Not state: options of the AP,
changes that other parts stage in the same packages (a VPN import in `network`), the
firewall package as a whole.

### VpnConfig

The state is that of `ParseConfig`: `section`, `cfg` and the lines read so far, then
the steps of `vpnImport`. A line is a header, a key and its value, or neither, and of
a value matters whether it is well formed for its key. The second half of the module
defines, without reading in order, when a line of a file is out of place
(`Misplaced`: a second `[Interface]` always is) and when a file is complete
(`Meaningful`). `Tolerated` names the second headers that the parser lets pass all the
same.

## 3. Runs

### Runs that pass

| Run | Question and answer |
|---|---|
| `Restore` | Three requests in any order, two deaths or reboots at any step, no failing command. A pause is complete (`PauseRelaxesAll`), its record names the user's posture (`SavedIsPosture`), at its end configuration and services are exactly that posture (`NeverStranded`), and no flow opened meanwhile outlives the switch (`FlowsCut`). Step by step the daemon implements `PortalPause` (`PauseAsPromised`). 1.8 million states. |
| `Faults` | One request to any handler beside the watch; any command, any read or write of the store and any toggle's context fails. From the first relaxing step on the store holds what the pause will restore (`RecordFirst`), and the posture of a standing record never changes (`RecordKeepsPosture`): up to a first record that is refused, and a re-entry that cannot read the record. 5.5 million states. |
| `Window` | `PauseEnds`: every pause ends, whatever the probes say. One client makes two requests one after the other (enter, re-enter, toggle, join), or one with a restart, and races the watch. 0.5 million states. |
| `SessionPolicy` | Two interleaved requests, failing transactions, restarts. Polls never extend a session (`IdleCap`), activity never beyond the absolute cap (`AbsoluteCap`), and `Sessions` implements `SessionLife` (`SessionsEndForGood`). |
| `Ceremonies` | Two concurrent requests to any handlers, timeouts, failures, restarts. `ChallengeOnce`, `CreditPerTouch`, `CodeNeedsPasskey`; a recovery code that was taken is gone for good (`CodeGone`). 0.2 million states. |
| `Boot` | Renewals of leaf and CA, factory resets, starts that are cut short anywhere. What is served is in date (`ChainInDate`); as long as no start was cut, it is a key pair (`MaterialServes`) under the offered CA (`LeafSignedByCA`), and a router that is down comes up with a fresh leaf (`Heals`). 0.6 million states. |
| `Maint` | Three requests on the one image file, uploads that break off, deaths of the daemon, reboots. Once nobody writes, no truncated image is left (`NoTruncatedLeft`); what is flashed is the image that was tested, unless an upload was under way since (`FlashesTested`); an answered reset happens (`ResetHappens`). 0.8 million states. |
| `Forwarder` | Two queries for one slot, one TCP connection, two providers, hanging upstreams, the fail-closed rule, shutdown, restarts. No query meets silence (`NoSilence`), each is disposed of (`QueriesEnd`). After shutdown the UDP loop ends with the queries it took, and a TCP connection ends when its client falls silent (`ServeEnds`). The provider in use is the one that was chosen, over deaths between store and switch, overlapping choices and failed reads excepted (`ProviderKept`). Once the pool is cut a raw connection is left only where an exchange or dial was under way (`RawNeedsOverlap`). 0.2 million states. |
| `Uplink` | A request beside the schedule loop, and one fault (failed command, heard or not, failed read, death, power cut, overlap) anywhere. `JoinTakes`: a join that runs alone and reports success leaves all it set in flash and radio, whatever it found staged, and all it cleared unless a failure went unheard. `MACPerNetwork`: power cuts included, no spoofed MAC is seen by two networks. `RollsSpaced`, `RollsComeRound`: the schedule keeps a day's distance from every roll, and a due roll is made in the end. 0.5 million states. |
| `VpnConfig` | Every file of up to nine lines (room for two complete peers) that departs from a plain one in one line. The parser refuses and accepts what the whole file means, but for a repeated `[Interface]` it tolerates (`ParsesAsMeant`); only host names are pinned, each in its own peer, and the summary keeps what was pasted (`PinsOnlyHosts`). 0.5 million states. |

### Runs that end in a counterexample

Each checks a sentence of the repository that the code does not keep in every case;
`PROJECT.json` quotes it under `findings`.

| Run | What TLC finds |
|---|---|
| `ExitVsEnter` | One request to pause, and no fault. Between the save and the kill-switch script of `enterPortalMode` the watch finds the record and an uplink that is online, and starts to restore by setting the switch that is still on. The script then switches it off, and the restore deletes the record: the router stays relaxed and nothing will restore it. |
| `DnsDefault` | First network setup with the kill switch already on: `applyDNSDefault` enables encrypted DNS without the fail-closed rule. |

### Further disagreements

The modules state some more promises that TLC refutes in the same way. They are
consequences of the same causes (no lock over record and router, two transactions
where one is meant, files replaced in place, errors that are masked) and have no
run of their own. `PortalMode` with one client, no faults and two requests where
nothing else is said:

| Property | Instance | Counterexample |
|---|---|---|
| `OnlyEnterStartsPause` | `Ops = {"enter", "ksOff"}` | The watch writes back (`portalmode.go:187`) the record it read before its probe and revives a pause that a toggle has cancelled. |
| `RelaxedNeverSaved` | two clients, `Ops = {"enter"}` | The slower of two first calls of `enterPortalMode` reads no record and an already relaxed router. |
| `RelaxedNeverSaved` | `Ops = {"enter"}`, `Faults = {"store"}` | A re-entry whose read of the record fails takes the pause for a new one and writes the relaxed state over the saved posture (`portalmode.go:48`; 70-72: "it must never record the relaxed state as the posture to restore"). |
| `FailClosedArmed` | two clients, `Ops = {"ksOn", "ksOff"}` | Two toggles act on answers that are stale; with `{"ksOn", "dnsOn"}` alone the rule is always armed. |
| `SwitchIsEnforced` | `Ops = {"ksOn"}`, `Faults = {"cmd"}` | `\|\| true` hides a failed firewall reload (`vpn/killswitch.go:33`). |
| `JoinScouted` | `Ops = {"join"}` | A kick that arrives as a pause ends is consumed by the wait in the pause; the join is not probed. |
| `NoteIsTrue` | `Ops = {"enter", "exit"}`, `Faults = {"ctx"}` | The client that asked to leave portal mode goes away. Every remaining command fails and is only logged, the record goes all the same, and the note says that the protections are back (`portalmode.go:9`: "exactly that gets restored"). |
| `SeenAdvances` (`Sessions`) | two clients | Two slides are written in the other order. `SlideKeepsUp` holds for one client without faults. |
| `ShownCodeWorks` (`Ceremonies`) | two clients | A recovery login deletes a hash that was regenerated after its comparison. |
| `CodeUsedOnce` (`Ceremonies`) | two clients | Two requests with the recovery code both compare before either deletes the hash, and both get a session (`authflow.go:323`: "Single-use"). `CodeGone` is what does hold. |
| `StartsServe` (`Certgen`) | as `Boot` | A start is cut short at `key.pem`. `leafUsable` only looks whether the file exists, so starts go on failing until the leaf nears expiry (`certgen/certgen.go:40`). |
| `OldLeafDies` (`Certgen`) | as `Boot` | A start is cut short between writing a new CA and removing the old leaf, or the removal fails, which is ignored. The next start finds a CA and a leaf in date, and serves a leaf of the old CA (`certgen/certgen.go:62`: "the old leaf dies with it"). |
| `ServesUntilDone` (`Forwarder`) | as `Forwarder` | A client that keeps sending keeps its TCP connection, and is answered by SERVFAIL, after the context is done: `serveConn` renews its deadline for each message (`dns/forwarder.go:155`: "Serve answers stub queries until ctx is done"). |
| `JoinClears` (`Uplink`) | as `Uplink` | `uci delete ... macaddr` fails, `\|\| true` hides it, and a join without rotation reports success with the old spoofed MAC (`netcfg/wifi.go:215`: "clears the override, restoring the hardware address"). |
| `OneInterface` (`VpnConfig`) | as `VpnConfig` | Two `[Interface]` headers, the first with neither key nor address, are imported as one (`vpn/config.go:26`: "one [Interface]"; 76: "multiple [Interface] sections"). |
| `FreshIdentity` (`Uplink`) | as `Uplink` | A join of B fails after its network was staged; the next change of the AP commits it, and B sees the MAC that A saw (`netops.go:22`: "a fresh identity for every network, rolled *before* association"). |

What properties that hold except, through their history variables, and what they do not say:

* `RecordFirst` excepts a pause whose first record the store refuses: that is logged,
  and the router is relaxed without one (`portalmode.go:61`). `EnterSave` marks it.
* `RecordFirst` and `RecordKeepsPosture` except a re-entry that cannot read the record
  (`RelaxedNeverSaved` above). `EnterRead` marks it.
* `FlashesTested` excepts uploads. The comment at `maintops.go:59` reads "the upload
  may be stale or tampered with"; an upload within the two seconds after the test is
  flashed untested by the daemon.
* An upload's answer describes the file at the path, which another upload may have
  replaced. A daemon that dies during an upload leaves the truncated file
  (`maint/maint.go:109`: "never leave a truncated image around"); the test refuses it.
* `ResetHappens` lets a reboot stand for the reset: a flash that is pending at the same
  time reboots first, and the reset, a process like any other, dies with it.
* `RawNeedsOverlap` excepts an exchange or dial under way at the cut: the connection
  stays in the pool and carries later queries over the raw WAN, which
  `dns/forwarder.go:112` sets out to prevent.
* The semaphore bounds UDP queries only; `dns/forwarder.go:168` speaks of all
  "in-flight upstreams", and each TCP connection adds one.
* Two overlapping `dnsProviderSet` requests can leave the stored provider different
  from the active one until the next start, and a start that fails to read the choice
  runs with the default until the next one (`mixed`; `api.go:59` drops the error).
* A failed command of a join or roll that goes unheard (see `Uplink`) leaves an identity
  that was to be cleared, or a network outside the wan zone: `JoinTakes` says what holds
  even so, `MACPerNetwork` excepts it. A failed read of `mac_schedule` or `mac_profile`
  gives a join the default identity.
* `RollsSpaced` excepts a failed read of `mac_last_roll`: the schedule then rolls within
  the day (`netops.go:231` drops the error).
* A failed count of credentials counts as none (`authflow.go:79` drops the error); the
  properties of `Ceremonies` hold with it.
* A power cut between the commits of `wireless` and `network` leaves a MAC with the
  hostname of another identity.
* The daily roll takes no notice of a portal grant; `netcfg/wifi.go:91` says the
  identity is "never rolled while a portal grant is live", `netops.go:22` confines
  that to on-join. A roll whose note the store refuses is made again at the next
  full hour.
* `ParsesAsMeant` excepts a second `[Interface]` after one that gave neither key nor
  address (`Tolerated`; `OneInterface` above). `vpn/config.go:75` takes "seen before"
  for "has set something".

### Bounds, constraints, deadlock

* `MaxReqs` and `MaxCrashes` bound requests and restarts. Three requests allow
  enter, re-enter or toggle, exit, beside the pauses the scout starts by itself; a
  second restart can hit the recovery from the first. The proofs drop these bounds.
* `Window = 1`, TTLs of 1: what is told apart is "before the deadline" and "after".
  A re-entry sets the full window again.
* One portal address: with "none" it gives every case of the address update.
* Constraints of `MCPortalMode`: `Undisturbed` leaves out overlapping handlers where
  the property is about a pause by itself (overlaps are what `ExitVsEnter`, `Window`
  and the table above are about), `NoTraffic` client flows where no property speaks
  of them, `SetUp` starts from a router with a tunnel and a decided DNS default, and
  `RaceOrRestart` combines a restart with one request, not with two. All runs have one
  client beside the watch; two clients are in the table above. `ToggleCancelled`
  lets only toggles lose their context in `Faults`, where every command of a pause
  may fail by itself. `Restore` has client traffic and every initial configuration.
* Sessions: `Idle = 3`, `Absolute = 6`, `BumpMin = 1`, two ticks to the second, clock
  to 9. A session can slide twice, expire either way, and lose a half second.
* Ceremonies: two tokens, challenges and codes, one credential: enough for two
  requests that meet over one of each. When the values are used up the remaining
  requests still run.
* Certgen: lifetimes 6 and 4, margin 2, so leaf and CA are renewed at different times;
  six keys are never all in use at once.
* Maint: images of none to three blocks, two of which fit, valid and not. Three
  requests: two uploads that meet and a flash.
* Forwarder: one slot and two queries make the loop block. `Apart` looks at shutdown
  with default settings, as the two share no state but the queries. `MaxSets = 2` lets
  two choices overlap, and `ChoicesApart` looks at these, and at starts that miss the
  stored choice, without queries under way.
* Uplink: two networks, a day of two hours, one fault of any kind, at any command, so
  that a join meets every leftover a single failure can stage. Combinations of several
  faults are covered by the proofs.
  `QuietSettings` changes settings between requests only: a job reads them once, when
  it begins. Six MACs are never all in use (`IdsAssumption`).
* VpnConfig: `OneOdd` keeps to files that are plain but for one line; a plain file has the
  usual keys once and in order. Two peers tell "this peer" from "the first" and "the last".
* Symmetry is used for invariants and action properties only.
* `CHECK_DEADLOCK FALSE` in the runs of `PortalMode`: once the bound on requests is
  reached the idle daemon waits for a request that does not come.

### Fairness

`PortalMode`: weak fairness of every process (a started handler runs on, since
goroutines are scheduled and a context timeout bounds every command) and of the clock; none for
requests, traffic, failures or restarts. The watch may probe any number of times; it
is never assumed that a probe succeeds. `Certgen`: weak fairness of a start's steps
and of starting at all, which is procd's `respawn`; its limit on rapid restarts is
left out. `Maint`: weak fairness of the two detached commands, which sleep and then
start; none for requests. `Forwarder`: weak fairness of handlers, of failing (the
client's timeout) and of closing a connection (its deadline); strong fairness of
reading each query, which stands for the socket buffer being a queue. `Uplink`: weak
fairness of each job (commands end, one way or the other) and strong fairness of the
hourly tick, which the bound on overlaps may keep waiting although the ticker does
not. `Sessions`, `Ceremonies` and `VpnConfig` have safety properties only.

## 4. Proofs

| Theorem | For every |
|---|---|
| `TypeCorrect` | set of clients, handlers and faults, window, number of requests and restarts |
| `RecordComesFirst`, `RecordedPostureFixed` | the same |
| `RestoreInvariant`, `RestoreNeverStrands`, `RecordNamesPosture`, `RestoreCutsFlows` | the same, with `Faults = {}` and without `wifiSetAP` |
| `DaemonImplementsPause`, `ServicesFollowRecord` | the same |
| `PauseInvariant`, `PauseIsComplete` | the same, and nobody brings the tunnel up by hand |
| `SessionsTypeCorrect`, `SessionsCapped`, `SessionsImplementLife` | timeout, throttle, resolution of stored times, number of clients and tokens, with failing transactions and restarts |
| `CeremoniesTypeCorrect`, `OneCeremonyPerChallenge`, `OneActionPerTouch`, `CodeComesAfterPasskey`, `TakenCodeIsGone` | number of requests, tokens, challenges, codes; every TTL |
| `CertgenTypeCorrect`, `ServedChainInDate`, `CleanStartsServe` | lifetimes with `0 < RenewBefore < LeafValidity < CAValidity`, every place where a start is cut |
| `MaintTypeCorrect`, `UploadsLeaveNoTruncated`, `FlashIsTested` | number of requests, sizes of images, limit on an upload |
| `ForwarderTypeCorrect`, `EveryQueryAnswered`, `CutLeavesNoRaw`, `ChosenProviderKept` | number of queries, connections, slots and providers |
| `UplinkTypeCorrect`, `JoinLeavesWhatItAsked`, `OneNetworkPerMAC`, `ScheduledRollsSpaced` | number of requests, networks and faults, length of a day |
| `ParserDecidesAsMeant`, `ImportPinsOnlyHosts` | length of a file, number of peers, order and repetition of keys, outcome of each lookup |

*Restore.* `NeverStranded` only speaks of moments when no handler is under way. To
get from one to the next, `RestoreInv` says for every step of every handler what it
has already done to `cfg` and `live` (`EnterInv`, `ExitInv`, `ToggleInv`), that in
an undisturbed history handlers do not overlap (`OneBusy`), that the record names
the user's posture, and what a pause that a restart cut short may look like
(`PausedRouter`: only what the record names has changed, and the forwarding is in
force as configured). From such a state `exitPortalMode` still arrives at the
posture, because each of its commands sets its section whatever was there before.
`applyDNSDefault` is excluded because `DnsDefault` shows the posture it leaves is
not one of the user's; faults because under them the code promises no posture.

*Refinement.* `StepPause` maps each step to a step of `PortalPause` or to none, with
`RestoreInv` for what a step alone does not tell: that a pause begins from the user's
posture, that the record goes when the services are at that posture, that a toggle ends
with the services at the posture it records as the user's, and that a reboot in the
middle of a pause or restore can only bring encrypted DNS in or out, and only if the
record names it. No command changes both protections in force. `ServicesFollow` is what
this says of a state: where `NeverStranded` speaks of quiet moments, it holds at every
instant in which the user switches nothing.

*Connections and tunnel.* `FlowsCut` and `PauseRelaxesAll` too speak of quiet moments
only. `FlowInv` says at which step of a restore or a toggle the flows over the raw WAN
are gone: from the flush on for client flows, and from the cut after the fail-closed
rule on for DoH. A step that keeps them gone needs to know that the forwarding is out of
the firewall (`Sealed`), which is what `RestoreInv` says. `TunnelInv` names the steps
around which the tunnel of a pause may be up. `vpnUp` is excluded from it: a tunnel
that the user brings up during a pause stays up.

*The record, whatever fails.* `RecordInv` needs nothing of the router. A posture is
captured only where there is no record, what is about to be saved over a record has the
record's posture (`AboutToSave`), and in an undisturbed history handlers do not overlap.
A record that the store refuses, or will not give to a re-entry, disturbs the history.

*Sessions.* `SessionInv` relates what is stored to the true times: a record's
`issued` is the login rounded down, its `seen` is never later than the last real
request, and a slide in flight carries a time no later than that. Rounding down can
only shorten a session, so the caps hold on true time.

*Ceremonies.* `CeremonyInv` adds to the types what requests carry at each step, that
a challenge is in the set or accepted but not both, and that whoever is or will be
let in was preceded by a passkey (`PasskeyFirst`). `CodeInv` follows a recovery code
through the requests: they carry codes that were shown, so a code that was taken is
one that was minted, what is minted next is another one, and the taken one is not
stored.

*Maint.* At the end of `SaveImage` the file is whole although others may have truncated,
overwritten or unlinked it meanwhile. `LastInv` finds who is responsible for its last
block: either it ends its image, or some upload that still has the file open wrote it
last, and will append to it or, failing, remove the file. For the flash, `AloneInv`: from
the test to the next upload the file is the one tested.

*Forwarder.* `NoSilence` and `RawNeedsOverlap` are inductive given the types. For
`ProviderKept`, `ChoiceInv` says that within a request the stored choice is the one about
to become active, so a restart between the two steps agrees with both.

*Uplink.* How far a job has got follows from the commands it has left, which are always
the end of its plan (`OnPlan`). `JoinInv` says, by their number, what a join that runs
alone has staged, committed and made live; it holds whatever the join found, since it
sets every option that it commits; what it clears is only claimed while no command
failed unheard (`SureMac`, `SureHost`). `RollInv` is the same for a roll, which needs to
find flash and radio level and nothing staged (`Level`), as is the case in any history
that is not mixed. A job that is not alone makes the history mixed, and nothing is
claimed. `MetInv` gives one network per MAC: network and MAC reach the flash in one
commit, and the MAC is not the live one, because there are more MACs than places that
hold one (`FreshUnused`). `LoopInv` gives the spacing: the noted age of a roll
is at most the age of the MAC (`Kept`), so at the tick at which a roll is due the MAC is a
day old.

*VpnConfig.* `ParseInv` says that `section` and `cfg` are what the definitions `Under`,
`Last1`, `Says` and `Peers` make of the lines read so far: the section is that of the last
header, the n-th peer holds what the lines under the n-th peer header say. Each action
appends a line, so its proof needs what each definition makes of a file with one more
line (`UnderAppend`, `Last1Append`, `SaysAppend`, `MembersAppend` and others). These speak
of the last line with some property and of the number of headers up to a line; where
that takes induction it is by a least counterexample, since every set of naturals that is
not empty has a least element (`WFMin`).

*Certgen.* `DateInv` follows what a start has found or put in date up to the
listener, `PairInv` which files belong together as long as no start was cut.

The assumptions on constants are the `ASSUME`s of the modules; TLC evaluates them in
every run.

Only model-checked: `PauseEnds`, `Heals`, `ResetHappens`, `QueriesEnd`, `ServeEnds` and
`RollsComeRound` (liveness under fairness is beyond the prover), and the two runs that
end in a counterexample.

## 5. What is not modelled

* WebAuthn's byte formats and cryptography, random numbers, bbolt, netifd, dnsmasq
  and fw4 themselves: their outcomes are open or as the code expects them.
* Clocks that jump. The router has no battery-backed clock; sessions and deadlines
  depend on it.
* What only reads: `Scan`, `Status`, `BoardInfo`, the counters of the forwarder.
* UCI changes staged by one part and committed by another across the modules: within
  `Uplink` they are modelled, between the VPN import and a join they are not.
* Lexical detail of a wg-quick file (comments, white space, case) and of DNS messages.
* The browser UI (requests in any order stand for it), packaging, logging, texts.

## 6. Plan

Done: portal mode with what it pauses and its abstract specification; sessions with
theirs; ceremonies; TLS material; maintenance; the forwarder; the uplink and its
identity; the VPN parser; theorems on all of these. What would come next:

1. `Ceremonies` composed with `Sessions` in place of the abstract view of sessions.
2. The parts of `PortalPause` that survive failing commands: which of its promises
   still hold of the record, if not of the services, when a command of a pause fails.
3. A lock around the handlers of portal mode, should the code get one: with it
   `ExitVsEnter` would have to pass, and `history` could go.
