------------------------------ MODULE Certgen ------------------------------
(***************************************************************************)
(* The device's TLS material: EnsureMaterial at every start of the daemon, *)
(* over four PEM files that are rewritten in place, and the HTTPS listener *)
(* that loads two of them.                                                 *)
(*                                                                         *)
(* A key is an identity; a certificate names the key it is for, the key    *)
(* that signed it and the time it has left.  Time is coarse (the constants *)
(* of the code are months and years), so it passes while the daemon runs   *)
(* or is off, never between two steps of its start.                        *)
(***************************************************************************)
EXTENDS Integers

CONSTANTS
    Keys,           \* key pairs
    Absent, Torn,   \* a file that is missing; one that was cut short
    CAValidity, LeafValidity, RenewBefore

ASSUME LifeAssumption ==
    /\ RenewBefore \in Nat \ {0}
    /\ LeafValidity \in Nat /\ LeafValidity > RenewBefore
    /\ CAValidity \in Nat /\ CAValidity > LeafValidity

Cert == [pub : Keys, by : Keys, left : 0..CAValidity]

ASSUME FileAssumption ==
    /\ Absent # Torn
    /\ {Absent, Torn} \cap (Cert \cup Keys) = {}

VARIABLES
    ca, caKey, cert, key, \* ca.pem, ca-key.pem, cert.pem, key.pem
    mem,    \* EnsureMaterial's caCert and caKey
    leaf,   \* createLeaf's certificate; its key is leaf.pub
    pc,     \* where the start stands: "up" while serving, "down" without a daemon
    served, \* the certificate the listener loaded
    age,    \* time since it loaded it, up to RenewBefore
    history \* history: "cut" once a start was cut short or one of its operations failed

files == <<ca, caKey, cert, key>>
boot  == <<mem, leaf>>
vars  == <<ca, caKey, cert, key, mem, leaf, pc, served, age, history>>

Init ==
    /\ ca = Absent /\ caKey = Absent /\ cert = Absent /\ key = Absent
    /\ mem = [cert |-> Absent, key |-> Absent]
    /\ leaf = Absent
    /\ pc = "down"
    /\ served = Absent
    /\ age = 0
    /\ history = "clean"

Readable(f) == f \notin {Absent, Torn}

\* The keys some file, or the start itself, still knows.
InUse == LET signed(c) == IF Readable(c) THEN {c.pub, c.by} ELSE {}
         IN  signed(ca) \cup signed(cert) \cup signed(leaf) \cup {caKey, key, mem.key}

\* rand.Reader never repeats a key.
FreshKeys == Keys \ InUse

Goto(l) == pc' = l

\* An error of EnsureMaterial or of the listener ends the process.
Exit == Goto("down")

\* A step of a start fails, or the start ends in it.
Fault == history' = "cut"
Fine  == UNCHANGED history

-----------------------------------------------------------------------------
(* Starting *)

\* init starts the daemon, at power-on and again whenever it exits.
Start ==
    /\ pc = "down"
    /\ Goto("loadCA")
    /\ mem' = [cert |-> Absent, key |-> Absent]
    /\ leaf' = Absent
    /\ served' = Absent
    /\ UNCHANGED <<files, age, history>>

\* Variant: an expiring CA is good enough.
CAUsableForever == Readable(ca) /\ Readable(caKey)

\* loadCA reads both files and the date; it does not compare the two keys.
CAUsable == Readable(ca) /\ Readable(caKey) /\ ca.left >= RenewBefore

LoadCA ==
    /\ pc = "loadCA"
    /\ IF CAUsable
       THEN mem' = [cert |-> ca, key |-> caKey] /\ Goto("leafUsable")
       ELSE UNCHANGED mem /\ Goto("createCA")
    /\ UNCHANGED <<files, leaf, served, age, history>>

\* Variant: the renewal margin is added to the lifetime.
CreateLongCA ==
    /\ pc = "createCA"
    /\ \E k \in FreshKeys :
         mem' = [cert |-> [pub |-> k, by |-> k, left |-> CAValidity + RenewBefore], key |-> k]
    /\ Goto("writeCA")
    /\ UNCHANGED <<files, leaf, served, age, history>>

CreateCA ==
    /\ pc = "createCA"
    /\ \/ \E k \in FreshKeys :
            /\ mem' = [cert |-> [pub |-> k, by |-> k, left |-> CAValidity], key |-> k]
            /\ Goto("writeCA")
            /\ Fine
       \/ Exit /\ Fault /\ UNCHANGED mem
    /\ UNCHANGED <<files, leaf, served, age>>

\* writePEM truncates and rewrites; a failure or a crash leaves what it leaves.
Written(old, new, next, failed) ==
    \/ new /\ Goto(next) /\ Fine
    \/ (old \/ failed) /\ Exit /\ Fault

WriteCA ==
    /\ pc = "writeCA"
    /\ Written(ca' = ca, ca' = mem.cert, "writeCAKey", ca' = Torn)
    /\ UNCHANGED <<caKey, cert, key, boot, served, age>>

WriteCAKey ==
    /\ pc = "writeCAKey"
    /\ Written(caKey' = caKey, caKey' = mem.key, "removeCert", caKey' = Torn)
    /\ UNCHANGED <<ca, cert, key, boot, served, age>>

\* Variant: a new CA leaves the old leaf in place.
KeepLeaf ==
    /\ pc = "removeCert"
    /\ Goto("leafUsable")
    /\ UNCHANGED <<files, boot, served, age, history>>

\* The old leaf is removed; errors are not looked at.
RemoveCert ==
    /\ pc = "removeCert"
    /\ (cert' = Absent /\ Fine) \/ (cert' = cert /\ Fault)
    /\ Goto("removeKey")
    /\ UNCHANGED <<ca, caKey, key, boot, served, age>>

RemoveKey ==
    /\ pc = "removeKey"
    /\ (key' = Absent /\ Fine) \/ (key' = key /\ Fault)
    /\ Goto("leafUsable")
    /\ UNCHANGED <<ca, caKey, cert, boot, served, age>>

\* Variant: a leaf exactly at the margin is kept.
LeafUsableTooLong == key # Absent /\ Readable(cert) /\ cert.left >= RenewBefore

\* leafUsable: the key need only exist, the certificate must be readable.
LeafUsable == key # Absent /\ Readable(cert) /\ cert.left > RenewBefore

CheckLeaf ==
    /\ pc = "leafUsable"
    /\ Goto(IF LeafUsable THEN "listen" ELSE "createLeaf")
    /\ UNCHANGED <<files, boot, served, age, history>>

\* x509.CreateCertificate refuses a key that is not the parent's.
CreateLeaf ==
    /\ pc = "createLeaf"
    /\ \/ /\ mem.key = mem.cert.pub
          /\ \E k \in FreshKeys : leaf' = [pub |-> k, by |-> mem.key, left |-> LeafValidity]
          /\ Goto("writeCert")
          /\ Fine
       \/ mem.key # mem.cert.pub /\ Exit /\ Fine /\ UNCHANGED leaf
       \/ Exit /\ Fault /\ UNCHANGED leaf
    /\ UNCHANGED <<files, mem, served, age>>

WriteCert ==
    /\ pc = "writeCert"
    /\ Written(cert' = cert, cert' = leaf, "writeKey", cert' = Torn)
    /\ UNCHANGED <<ca, caKey, key, boot, served, age>>

\* Variant: the key of the leaf before this one is kept.
KeepKey ==
    /\ pc = "writeKey"
    /\ key' = IF key = Absent THEN leaf.pub ELSE key
    /\ Goto("listen")
    /\ UNCHANGED <<ca, caKey, cert, boot, served, age, history>>

WriteKey ==
    /\ pc = "writeKey"
    /\ Written(key' = key, key' = leaf.pub, "listen", key' = Torn)
    /\ UNCHANGED <<ca, caKey, cert, boot, served, age>>

\* What tls.LoadX509KeyPair accepts.
KeyPair == Readable(cert) /\ Readable(key) /\ cert.pub = key

\* ListenAndServeTLS.
Listen ==
    /\ pc = "listen"
    /\ IF KeyPair
       THEN Goto("up") /\ served' = cert /\ age' = 0
       ELSE Exit /\ UNCHANGED <<served, age>>
    /\ UNCHANGED <<files, boot, history>>

-----------------------------------------------------------------------------
(* Environment *)

\* Power goes, or the daemon dies: while serving, or half-way into a start.
Stop ==
    /\ pc # "down"
    /\ IF pc = "up" THEN Fine ELSE Fault
    /\ Exit
    /\ UNCHANGED <<files, boot, served, age>>

\* The factory reset deletes the directory and reboots.
FactoryReset ==
    /\ pc = "up"
    /\ ca' = Absent /\ caKey' = Absent /\ cert' = Absent /\ key' = Absent
    /\ Exit
    /\ UNCHANGED <<boot, served, age, history>>

Older(f) == IF Readable(f) /\ f.left > 0 THEN [f EXCEPT !.left = @ - 1] ELSE f

Tick ==
    /\ pc \in {"up", "down"}
    /\ ca' = Older(ca)
    /\ cert' = Older(cert)
    /\ served' = Older(served)
    /\ age' = IF age < RenewBefore THEN age + 1 ELSE age
    /\ UNCHANGED <<caKey, key, boot, pc, history>>

Step ==
    \/ Start \/ LoadCA \/ CreateCA \/ WriteCA \/ WriteCAKey \/ RemoveCert \/ RemoveKey
    \/ CheckLeaf \/ CreateLeaf \/ WriteCert \/ WriteKey \/ Listen

Next == Step \/ Stop \/ FactoryReset \/ Tick

\* init keeps starting the daemon, and a running process runs on.
Spec == Init /\ [][Next]_vars /\ WF_vars(Step)

-----------------------------------------------------------------------------
(* Properties *)

File == {Absent, Torn} \cup Cert

\* Every variable has its type.
TypeOK ==
    /\ ca \in File /\ cert \in File
    /\ caKey \in Keys \cup {Absent, Torn} /\ key \in Keys \cup {Absent, Torn}
    /\ mem \in [cert : File, key : Keys \cup {Absent, Torn}]
    /\ leaf \in File /\ served \in File
    /\ pc \in {"down", "loadCA", "createCA", "writeCA", "writeCAKey", "removeCert", "removeKey",
               "leafUsable", "createLeaf", "writeCert", "writeKey", "listen", "up"}
    /\ age \in 0..RenewBefore
    /\ history \in {"clean", "cut"}

\* What a browser is shown is in date for as long as the daemon has been up
\* for less than renewBefore, whatever was cut short before it came up.
ChainInDate ==
    (pc = "up" /\ age < RenewBefore) =>
        /\ served.left > 0
        /\ Readable(ca) /\ ca.left > 0

\* Starts that run to their end, over any renewals of leaf and CA and any
\* factory resets, hand the listener a certificate and key that belong together.
MaterialServes == (history = "clean" /\ pc = "listen") => KeyPair

\* "The TLS leaf is signed by that CA", the one ca.pem offers for install: with
\* a fresh CA the old leaf goes.
LeafSignedByCA == (history = "clean" /\ pc = "up") => served.by = ca.pub

\* "A router that stays up past the leaf's expiry heals on its next reboot."
Heals == (pc = "down") ~> (history = "cut" \/ (pc = "up" /\ served.left > RenewBefore))

-----------------------------------------------------------------------------
(* What the comments promise without qualification *)

\* EnsureMaterial "returns TLS material", whatever an earlier start left.
StartsServe == pc = "listen" => KeyPair

\* "mint a fresh one; the old leaf dies with it" (certgen.go:62): a start that is
\* cut short between the two, or a removal that fails, leaves both.
OldLeafDies == pc = "up" => served.by = ca.pub
=============================================================================
