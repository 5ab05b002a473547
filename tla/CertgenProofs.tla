--------------------------- MODULE CertgenProofs ---------------------------
(* What a start of the daemon leaves on disk: for every lifetime and every  *)
(* place where one is cut short, a chain in date; as long as none was cut,   *)
(* also a key pair under the CA that is offered.                            *)
EXTENDS Certgen, TLAPS

\* The steps of EnsureMaterial after ca.pem is good.
AfterCA == {"writeCAKey", "removeCert", "removeKey", "leafUsable", "createLeaf", "writeCert",
            "writeKey", "listen"}

\* What the start holds, and has found or put in date, on its way to the listener.
DateInv ==
    /\ pc \in AfterCA => ca \in Cert /\ ca.left >= RenewBefore
    /\ pc \in AfterCA \cup {"writeCA"} => mem.cert \in Cert
    /\ pc = "writeCA" => mem.cert.left = CAValidity
    /\ pc \in {"writeCert", "writeKey"} => leaf \in Cert /\ leaf.left = LeafValidity
    /\ pc = "writeKey" => cert = leaf
    /\ pc = "listen" => cert \in Cert /\ cert.left > RenewBefore
    /\ pc = "up" => /\ served \in Cert /\ ca \in Cert
                    /\ age < RenewBefore => /\ served.left + age > RenewBefore
                                            /\ ca.left + age >= RenewBefore

Pair(c, k) == (c = Absent /\ k = Absent) \/ (c \in Cert /\ k = c.pub)

\* When no start was cut short every file has its counterpart, except
\* between the two writes (or removals) that replace a pair.
Paired ==
    /\ pc # "writeCAKey" => Pair(ca, caKey)
    /\ pc \notin {"removeKey", "writeKey"} => Pair(cert, key)
    /\ pc = "removeKey" => cert = Absent
    /\ pc \in AfterCA \cup {"writeCA"} => mem.key = mem.cert.pub
    /\ pc \in AfterCA => mem.cert = ca
    /\ pc \in {"writeCert", "writeKey"} => leaf.by = ca.pub
    /\ (pc \notin {"writeCAKey", "removeCert"} /\ cert \in Cert) => ca \in Cert /\ cert.by = ca.pub
    /\ pc = "listen" => cert \in Cert
    /\ pc = "up" => served.by = ca.pub

PairInv == history = "clean" => Paired

-----------------------------------------------------------------------------
LEMMA InitInv == Init => TypeOK /\ DateInv /\ PairInv
BY LifeAssumption, FileAssumption
DEF Init, TypeOK, DateInv, PairInv, Paired, Pair, AfterCA, File

LEMMA AgeType ==
    ASSUME NEW f \in File
    PROVE  /\ Older(f) \in File
           /\ f \in Cert => /\ Older(f) \in Cert
                             /\ Older(f).pub = f.pub /\ Older(f).by = f.by
                             /\ Older(f).left = IF f.left > 0 THEN f.left - 1 ELSE 0
           /\ f \notin Cert => Older(f) = f
<1>1. CASE f \in {Absent, Torn}
  BY <1>1, FileAssumption DEF Older, Readable, File
<1>2. CASE f \in Cert
  <2>1. Readable(f)
    BY <1>2, FileAssumption DEF Readable
  <2>2. f.left \in 0..CAValidity
    BY <1>2 DEF Cert
  <2>3. CASE f.left > 0
    <3>1. Older(f) = [f EXCEPT !.left = f.left - 1]
      BY <2>1, <2>3 DEF Older
    <3>2. f.left - 1 \in 0..CAValidity
      BY <2>2, <2>3, LifeAssumption
    <3>. QED
      BY <1>2, <2>3, <3>1, <3>2 DEF Cert, File
  <2>4. CASE ~(f.left > 0)
    BY <1>2, <2>1, <2>2, <2>4, LifeAssumption DEF Older, File
  <2>. QED
    BY <2>3, <2>4
<1>. QED
  BY <1>1, <1>2 DEF File

LEMMA NextType ==
    ASSUME TypeOK, DateInv, [Next]_vars
    PROVE  TypeOK'
<1> USE LifeAssumption, FileAssumption DEF files, boot, Goto, Exit, Fault, Fine, Readable, File
<1>1. CASE Start
  BY <1>1 DEF Start, TypeOK
<1>2. CASE LoadCA
  BY <1>2 DEF LoadCA, TypeOK
<1>3. CASE CreateCA
  BY <1>3 DEF CreateCA, TypeOK, Cert, FreshKeys
<1>4. CASE WriteCA
  BY <1>4 DEF WriteCA, Written, TypeOK
<1>5. CASE WriteCAKey
  BY <1>5 DEF WriteCAKey, Written, TypeOK
<1>6. CASE RemoveCert
  BY <1>6 DEF RemoveCert, TypeOK
<1>7. CASE RemoveKey
  BY <1>7 DEF RemoveKey, TypeOK
<1>8. CASE CheckLeaf
  BY <1>8 DEF CheckLeaf, TypeOK
<1>9. CASE CreateLeaf
  BY <1>9 DEF CreateLeaf, TypeOK, Cert, FreshKeys, DateInv, AfterCA
<1>10. CASE WriteCert
  BY <1>10 DEF WriteCert, Written, TypeOK
<1>11. CASE WriteKey
  BY <1>11 DEF WriteKey, Written, TypeOK, DateInv, Cert
<1>12. CASE Listen
  BY <1>12 DEF Listen, TypeOK
<1>13. CASE Stop
  BY <1>13 DEF Stop, TypeOK
<1>14. CASE FactoryReset
  BY <1>14 DEF FactoryReset, TypeOK
<1>15. CASE Tick
  BY <1>15, AgeType DEF Tick, TypeOK
<1>16. CASE UNCHANGED vars
  BY <1>16 DEF vars, TypeOK
<1>. QED
  BY <1>1, <1>2, <1>3, <1>4, <1>5, <1>6, <1>7, <1>8, <1>9, <1>10, <1>11, <1>12, <1>13, <1>14, <1>15, <1>16 DEF Next, Step

LEMMA NextDate ==
    ASSUME TypeOK, DateInv, [Next]_vars
    PROVE  DateInv'
<1> USE LifeAssumption, FileAssumption DEF files, boot, Goto, Exit, Fault, Fine, Readable, File
<1>1. CASE Start
  BY <1>1 DEF Start, TypeOK, DateInv, AfterCA
<1>2. CASE LoadCA
  BY <1>2 DEF LoadCA, TypeOK, DateInv, AfterCA, CAUsable
<1>3. CASE CreateCA
  BY <1>3 DEF CreateCA, TypeOK, DateInv, AfterCA, Cert, FreshKeys
<1>4. CASE WriteCA
  BY <1>4 DEF WriteCA, Written, TypeOK, DateInv, AfterCA
<1>5. CASE WriteCAKey
  BY <1>5 DEF WriteCAKey, Written, TypeOK, DateInv, AfterCA
<1>6. CASE RemoveCert
  BY <1>6 DEF RemoveCert, TypeOK, DateInv, AfterCA
<1>7. CASE RemoveKey
  BY <1>7 DEF RemoveKey, TypeOK, DateInv, AfterCA
<1>8. CASE CheckLeaf
  BY <1>8 DEF CheckLeaf, TypeOK, DateInv, AfterCA, LeafUsable
<1>9. CASE CreateLeaf
  BY <1>9 DEF CreateLeaf, TypeOK, DateInv, AfterCA, Cert, FreshKeys
<1>10. CASE WriteCert
  BY <1>10 DEF WriteCert, Written, TypeOK, DateInv, AfterCA
<1>11. CASE WriteKey
  BY <1>11 DEF WriteKey, Written, TypeOK, DateInv, AfterCA
<1>12. CASE Listen
  <2>1. cert \in Cert /\ cert.left \in Nat /\ ca \in Cert /\ ca.left \in Nat
    BY <1>12 DEF Listen, DateInv, AfterCA, Cert
  <2>. QED
    BY <1>12, <2>1 DEF Listen, TypeOK, DateInv, AfterCA
<1>13. CASE Stop
  BY <1>13 DEF Stop, TypeOK, DateInv, AfterCA
<1>14. CASE FactoryReset
  BY <1>14 DEF FactoryReset, TypeOK, DateInv, AfterCA
<1>15. CASE Tick
  <2>1. CASE pc = "down"
    BY <1>15, <2>1 DEF Tick, DateInv, AfterCA
  <2>2. CASE pc = "up"
    <3>1. served \in Cert /\ ca \in Cert /\ served.left \in Nat /\ ca.left \in Nat
      BY <2>2 DEF DateInv, Cert
    <3>2. /\ served' \in Cert /\ ca' \in Cert
          /\ served'.left = IF served.left > 0 THEN served.left - 1 ELSE 0
          /\ ca'.left = IF ca.left > 0 THEN ca.left - 1 ELSE 0
      BY <1>15, <3>1, AgeType DEF Tick
    <3>3. age \in Nat /\ age' = IF age < RenewBefore THEN age + 1 ELSE age
      BY <1>15 DEF Tick, TypeOK
    <3>4. age' < RenewBefore => served'.left + age' > RenewBefore /\ ca'.left + age' >= RenewBefore
      BY <2>2, <3>1, <3>2, <3>3 DEF DateInv
    <3>. QED
      BY <1>15, <2>2, <3>2, <3>4 DEF Tick, DateInv, AfterCA
  <2>. QED
    BY <1>15, <2>1, <2>2 DEF Tick
<1>16. CASE UNCHANGED vars
  BY <1>16 DEF vars, TypeOK, DateInv, AfterCA
<1>. QED
  BY <1>1, <1>2, <1>3, <1>4, <1>5, <1>6, <1>7, <1>8, <1>9, <1>10, <1>11, <1>12, <1>13, <1>14, <1>15, <1>16 DEF Next, Step

LEMMA NextPair ==
    ASSUME TypeOK, DateInv, PairInv, [Next]_vars
    PROVE  PairInv'
<1> SUFFICES ASSUME history' = "clean" PROVE Paired'
  BY DEF PairInv
<1> USE LifeAssumption, FileAssumption DEF files, boot, Goto, Exit, Fault, Fine, Readable, File
<1>0. history = "clean" /\ Paired
  BY DEF Next, Step, vars, PairInv, TypeOK, Start, LoadCA, CreateCA, WriteCA, WriteCAKey, Written,
         RemoveCert, RemoveKey, CheckLeaf, CreateLeaf, WriteCert, WriteKey, Listen, Stop,
         FactoryReset, Tick
<1>1. CASE Start
  BY <1>0, <1>1 DEF Start, TypeOK, DateInv, Paired, Pair, AfterCA
<1>2. CASE LoadCA
  BY <1>0, <1>2 DEF LoadCA, TypeOK, DateInv, Paired, Pair, AfterCA, CAUsable
<1>3. CASE CreateCA
  BY <1>0, <1>3 DEF CreateCA, TypeOK, DateInv, Paired, Pair, AfterCA, Cert, FreshKeys
<1>4. CASE WriteCA
  BY <1>0, <1>4 DEF WriteCA, Written, TypeOK, DateInv, Paired, Pair, AfterCA
<1>5. CASE WriteCAKey
  BY <1>0, <1>5 DEF WriteCAKey, Written, TypeOK, DateInv, Paired, Pair, AfterCA
<1>6. CASE RemoveCert
  BY <1>0, <1>6 DEF RemoveCert, TypeOK, DateInv, Paired, Pair, AfterCA
<1>7. CASE RemoveKey
  BY <1>0, <1>7 DEF RemoveKey, TypeOK, DateInv, Paired, Pair, AfterCA
<1>8. CASE CheckLeaf
  BY <1>0, <1>8 DEF CheckLeaf, TypeOK, DateInv, Paired, Pair, AfterCA, LeafUsable
<1>9. CASE CreateLeaf
  BY <1>0, <1>9 DEF CreateLeaf, TypeOK, DateInv, Paired, Pair, AfterCA, Cert, FreshKeys
<1>10. CASE WriteCert
  BY <1>0, <1>10 DEF WriteCert, Written, TypeOK, DateInv, Paired, Pair, AfterCA
<1>11. CASE WriteKey
  BY <1>0, <1>11 DEF WriteKey, Written, TypeOK, DateInv, Paired, Pair, AfterCA
<1>12. CASE Listen
  BY <1>0, <1>12 DEF Listen, TypeOK, DateInv, Paired, Pair, AfterCA, KeyPair
<1>13. CASE Stop
  BY <1>0, <1>13 DEF Stop, TypeOK, DateInv, Paired, Pair, AfterCA
<1>14. CASE FactoryReset
  BY <1>0, <1>14 DEF FactoryReset, TypeOK, DateInv, Paired, Pair, AfterCA
<1>15. CASE Tick
  BY <1>0, <1>15, AgeType DEF Tick, TypeOK, DateInv, Paired, Pair, AfterCA
<1>16. CASE UNCHANGED vars
  BY <1>0, <1>16 DEF vars, TypeOK, DateInv, Paired, Pair, AfterCA
<1>. QED
  BY <1>1, <1>2, <1>3, <1>4, <1>5, <1>6, <1>7, <1>8, <1>9, <1>10, <1>11, <1>12, <1>13, <1>14, <1>15, <1>16 DEF Next, Step

-----------------------------------------------------------------------------
(* Theorems *)

LEMMA StartInvariant == Spec => [](TypeOK /\ DateInv)
<1>1. TypeOK /\ DateInv /\ [Next]_vars => (TypeOK /\ DateInv)'
  BY NextType, NextDate
<1>. QED
  BY InitInv, <1>1, PTL DEF Spec

\* The files, and what the start holds of them, keep their types.
THEOREM CertgenTypeCorrect == Spec => []TypeOK
BY StartInvariant, PTL

\* loadCA and leafUsable renew early enough for every lifetime longer than
\* renewBefore, wherever earlier starts were cut short.
THEOREM ServedChainInDate == Spec => []ChainInDate
<1>1. TypeOK /\ DateInv => ChainInDate
  BY LifeAssumption, FileAssumption DEF TypeOK, DateInv, ChainInDate, Readable, Cert
<1>. QED
  BY StartInvariant, <1>1, PTL

\* As long as no start was cut short and no write failed, EnsureMaterial hands
\* the listener a key pair, signed by the CA that ca.pem offers.
THEOREM CleanStartsServe == Spec => [](MaterialServes /\ LeafSignedByCA)
<1>1. TypeOK /\ DateInv /\ PairInv /\ [Next]_vars => (TypeOK /\ DateInv /\ PairInv)'
  BY NextType, NextDate, NextPair
<1>2. TypeOK /\ DateInv /\ PairInv => MaterialServes /\ LeafSignedByCA
  BY FileAssumption
  DEF PairInv, Paired, Pair, MaterialServes, LeafSignedByCA, KeyPair, Readable, Cert
<1>. QED
  BY InitInv, <1>1, <1>2, PTL DEF Spec
=============================================================================
