--------------------------- MODULE VpnConfigProofs ---------------------------
(* What holds of VpnConfig for files of any length: the parser decides as   *)
(* the file read as a whole, and the import pins host names only.           *)
EXTENDS VpnConfig, FiniteSetTheorems, WellFoundedInduction, TLAPS

-----------------------------------------------------------------------------
(* The inductive invariant *)

Keys == InterfaceKeys \cup PeerKeys
Vals == {"", "good", "bad", "commas", "host", "ip"}

PeerType   == [publickey : Vals, presharedkey : Vals, allowedips : Seq(Vals),
               endpoint : Vals, persistentkeepalive : Vals]
ConfigType == [privatekey : Vals, address : Seq(Vals), dns : Seq(Vals), mtu : Vals,
               peers : Seq(PeerType)]

VpnTypeOK ==
    /\ text \in Seq(Line)
    /\ section \in {"", "interface", "peer"}
    /\ cfg \in ConfigType
    /\ uci \in ConfigType
    /\ next \in Nat \ {0}
    /\ st \in {"read", "invalid", "pin", "rejected", "import", "failed", "done"}

\* The section a header opens.
NameOf(k) == CASE k = "" -> "" [] k = "[interface]" -> "interface" [] k = "[peer]" -> "peer"
               [] OTHER -> "other"

\* The entries s of list k are the ones the lines I give it.
Lists1(t, I, k, s) ==
    /\ s # << >> <=> Says(t, I, k, "good") \/ Says(t, I, k, "bad")
    /\ AllGood(s) <=> ~Says(t, I, k, "bad")

\* What was read of the interface, and of the peer under header h, is what
\* their lines say.
ReadInterface(t, c) ==
    /\ c.privatekey = Last1(t, InInterface(t), "privatekey")
    /\ Lists1(t, InInterface(t), "address", c.address)
    /\ c.mtu = Last1(t, InInterface(t), "mtu")

ReadPeer(t, h, p) ==
    /\ p.publickey = Last1(t, InPeer(t, h), "publickey")
    /\ p.presharedkey = Last1(t, InPeer(t, h), "presharedkey")
    /\ Lists1(t, InPeer(t, h), "allowedips", p.allowedips)
    /\ p.endpoint = Last1(t, InPeer(t, h), "endpoint")
    /\ p.persistentkeepalive = Last1(t, InPeer(t, h), "persistentkeepalive")

\* No value read is empty and no section unknown.
Clean(t) == \A i \in 1..Len(t) : /\ t[i].key \in Keys => t[i].val # ""
                                 /\ t[i].key # "[other]"

\* Section sec and configuration c say of the text what it means.
Reads(t, sec, c) ==
    /\ Clean(t)
    /\ sec = NameOf(SectionOf(t, Len(t)))
    /\ ReadInterface(t, c)
    /\ Len(c.peers) = Cardinality(Peers(t))
    /\ \A h \in Peers(t) : ReadPeer(t, h, c.peers[PeerNo(t, h)])

ReadInv == st = "read" => Reads(text, section, cfg)

\* c has the peers of the file, at most with a host name replaced.
Pinned(c) ==
    /\ Len(c.peers) = Cardinality(Peers(text))
    /\ \A n \in 1..Len(c.peers) :
         \/ c.peers[n].endpoint = Pasted(text)[n]
         \/ Pasted(text)[n] = "host" /\ c.peers[n].endpoint = "ip"

PinInv ==
    /\ st \in {"pin", "import"} => Pinned(cfg) /\ sum.endpoints = Named(Pasted(text))
    /\ st \in {"import", "done"} => Pinned(uci)
    /\ st = "done" => stored.endpoints = Named(Pasted(text))

ParseInv == VpnTypeOK /\ ReadInv /\ ParsesAsMeant /\ PinInv

-----------------------------------------------------------------------------
(* Induction over naturals, by a least counterexample *)

Below == {p \in Nat \X Nat : p[1] < p[2]}

LEMMA BelowWellFounded == IsWellFoundedOn(Below, Nat)
  BY NatLessThanWellFounded DEF OpToRel, Below

\* A nonempty set of naturals has a least element.
LEMMA LeastNat ==
    ASSUME NEW T \in SUBSET Nat, T # {}
    PROVE  \E x \in T : \A y \in T : x <= y
<1>1. PICK x \in T : \A y \in T : ~(<<y, x>> \in Below)
  BY WFMin, BelowWellFounded
<1>2. ASSUME NEW y \in T PROVE x <= y
  <2>1. CASE y < x
    <3>1. <<y, x>> \in Nat \X Nat
      OBVIOUS
    <3>2. <<y, x>> \in Below
      BY <2>1, <3>1 DEF Below
    <3>. QED
      BY <3>2, <1>1
  <2>. QED
    BY <2>1
<1>. QED
  BY <1>2

\* A nonempty set of naturals up to n has a greatest element.
LEMMA GreatestNat ==
    ASSUME NEW n \in Nat, NEW T \in SUBSET (0..n), T # {}
    PROVE  \E x \in T : \A y \in T : y <= x
<1> DEFINE U == {u \in 0..n : n - u \in T}
<1>1. \A y \in T : n - y \in U
  <2> TAKE y \in T
  <2>1. n - y \in 0..n /\ n - (n - y) = y
    OBVIOUS
  <2>. QED
    BY <2>1
<1>2. \A u \in U : n - u \in T /\ u \in Nat
  OBVIOUS
<1> HIDE DEF U
<1>3. U \in SUBSET Nat /\ U # {}
  BY <1>1, <1>2
<1>4. PICK u \in U : \A y \in U : u <= y
  BY LeastNat, <1>3
<1>5. \A y \in T : y <= n - u
  BY <1>4, <1>1, <1>2
<1>. QED
  BY <1>5, <1>2

-----------------------------------------------------------------------------
(* Lines *)

\* What a line can say.
LEMMA LineType ==
    ASSUME NEW l \in Line
    PROVE  /\ l.key \in Keys \cup HookKeys \cup Headers \cup {"junk", "blank"}
           /\ l.val \in Vals
           /\ l.key \in {"address", "allowedips"} => l.val \in {"good", "bad", "commas", ""}
           /\ l.key \in {"privatekey", "publickey"} => l.val \in {"good", "bad"}
           /\ l.key = "dns" => l.val = "good"
<1>1. PICK k \in Keys \cup HookKeys \cup Headers \cup {"junk", "blank"} :
         l \in [key : {k}, val : Values(k)]
  BY DEF Line, Keys
<1>2. l.key = k /\ l.val \in Values(k)
  BY <1>1
<1>3. Values(k) \in SUBSET Vals
  BY DEF Vals, Values, Keys, InterfaceKeys, PeerKeys, HookKeys, Headers
<1>4. k \in {"address", "allowedips"} => Values(k) = {"good", "bad", "commas", ""}
  BY DEF Values, HookKeys, Headers
<1>5. k \in {"privatekey", "publickey"} => Values(k) = {"good", "bad"}
  BY DEF Values, HookKeys, Headers
<1>6. k = "dns" => Values(k) = {"good"}
  BY DEF Values, HookKeys, Headers
<1>7. l.val \in Vals
  BY <1>2, <1>3
<1>. QED
  BY <1>2, <1>4, <1>5, <1>6, <1>7

\* A file and the file with one more line.
LEMMA AppendLine ==
    ASSUME NEW t \in Seq(Line), NEW l \in Line
    PROVE  /\ Append(t, l) \in Seq(Line)
           /\ Len(t) \in Nat
           /\ Len(Append(t, l)) = Len(t) + 1
           /\ \A i \in 1..Len(t) : Append(t, l)[i] = t[i]
           /\ Append(t, l)[Len(t) + 1] = l
           /\ 1..Len(Append(t, l)) = (1..Len(t)) \cup {Len(t) + 1}
  OBVIOUS

-----------------------------------------------------------------------------
(* Headers and sections *)

IsUnder(t, i, h) ==
    /\ h \in HeadersOf(t) \cup {0}
    /\ h <= i
    /\ \A g \in HeadersOf(t) : g <= i => g <= h

\* Under is the last header up to a line, and the only one with that property.
LEMMA UnderIs ==
    ASSUME NEW t \in Seq(Line), NEW i \in 0..Len(t)
    PROVE  /\ IsUnder(t, i, Under(t, i))
           /\ Under(t, i) \in 0..i
           /\ \A h : IsUnder(t, i, h) => h = Under(t, i)
<1> DEFINE T == {h \in HeadersOf(t) \cup {0} : h <= i}
<1>1. HeadersOf(t) \in SUBSET (1..Len(t)) /\ Len(t) \in Nat
  BY DEF HeadersOf
<1>2. T \in SUBSET (0..i) /\ 0 \in T /\ i \in Nat
  BY <1>1
<1>3. PICK h \in T : \A y \in T : y <= h
  BY <1>2, GreatestNat
<1>4. IsUnder(t, i, h)
  BY <1>3 DEF IsUnder
<1>5. IsUnder(t, i, Under(t, i))
  BY <1>4 DEF IsUnder, Under
<1>6. \A g : IsUnder(t, i, g) => g \in 0..i
  BY <1>1 DEF IsUnder
<1>7. \A f, g : IsUnder(t, i, f) /\ IsUnder(t, i, g) => f = g
  <2> SUFFICES ASSUME NEW f, NEW g, IsUnder(t, i, f), IsUnder(t, i, g) PROVE f = g
    OBVIOUS
  <2>1. f \in 0..i /\ g \in 0..i
    BY <1>6
  <2>2. f <= g /\ g <= f
    BY <2>1, <1>1 DEF IsUnder
  <2>. QED
    BY <2>1, <2>2
<1>. QED
  BY <1>5, <1>6, <1>7

\* One more line changes nothing above it, and stands under itself if it is
\* a header and otherwise under the last one.
LEMMA UnderAppend ==
    ASSUME NEW t \in Seq(Line), NEW l \in Line
    PROVE  /\ \A i \in 0..Len(t) : Under(Append(t, l), i) = Under(t, i)
           /\ Under(Append(t, l), Len(t) + 1) =
                IF l.key \in Headers THEN Len(t) + 1 ELSE Under(t, Len(t))
<1> DEFINE t2 == Append(t, l)
           n == Len(t)
<1>1. t2 \in Seq(Line) /\ n \in Nat /\ Len(t2) = n + 1
  BY AppendLine
<1>2. HeadersOf(t2) = HeadersOf(t) \cup (IF l.key \in Headers THEN {n + 1} ELSE {})
  BY AppendLine DEF HeadersOf
<1>3. HeadersOf(t) \in SUBSET (1..n)
  BY DEF HeadersOf
<1> HIDE DEF t2, n
<1>4. ASSUME NEW i \in 0..n PROVE Under(t2, i) = Under(t, i)
  <2>1. IsUnder(t, i, Under(t, i)) /\ Under(t, i) \in 0..i
    BY <1>1, UnderIs DEF n
  <2>2. IsUnder(t2, i, Under(t, i))
    BY <2>1, <1>1, <1>2, <1>3 DEF IsUnder
  <2>. QED
    BY <2>2, <1>1, UnderIs
<1>5. CASE l.key \in Headers
  <2>1. IsUnder(t2, n + 1, n + 1)
    BY <1>5, <1>1, <1>2, <1>3 DEF IsUnder
  <2>2. Under(t2, n + 1) = n + 1
    BY <2>1, <1>1, UnderIs
  <2>. QED
    BY <1>4, <1>5, <2>2 DEF t2, n
<1>6. CASE l.key \notin Headers
  <2>1. IsUnder(t, n, Under(t, n)) /\ Under(t, n) \in 0..n
    BY <1>1, UnderIs DEF n
  <2>2. IsUnder(t2, n + 1, Under(t, n))
    BY <1>6, <2>1, <1>1, <1>2, <1>3 DEF IsUnder
  <2>3. Under(t2, n + 1) = Under(t, n)
    BY <2>2, <1>1, UnderIs
  <2>. QED
    BY <1>4, <1>6, <2>3 DEF t2, n
<1>. QED
  BY <1>5, <1>6
\* The sections likewise.
LEMMA SectionAppend ==
    ASSUME NEW t \in Seq(Line), NEW l \in Line
    PROVE  /\ \A i \in 0..Len(t) : SectionOf(Append(t, l), i) = SectionOf(t, i)
           /\ SectionOf(Append(t, l), Len(t) + 1) =
                IF l.key \in Headers THEN l.key ELSE SectionOf(t, Len(t))
<1>1. ASSUME NEW i \in 0..Len(t) PROVE Under(t, i) = 0 \/ Under(t, i) \in 1..Len(t)
  BY UnderIs
<1>a. \A u \in 1..Len(t) : Append(t, l)[u].key = t[u].key
  BY AppendLine
<1>2. ASSUME NEW i \in 0..Len(t) PROVE SectionOf(Append(t, l), i) = SectionOf(t, i)
  <2>1. Under(Append(t, l), i) = Under(t, i)
    BY UnderAppend
  <2>. QED
    BY <2>1, <1>1, <1>a DEF SectionOf
<1>3. Len(t) \in 0..Len(t) /\ Len(t) + 1 # 0
  BY AppendLine
<1>4. CASE l.key \in Headers
  BY <1>2, <1>3, <1>4, UnderAppend, AppendLine DEF SectionOf
<1>5. CASE l.key \notin Headers
  <2>1. Under(Append(t, l), Len(t) + 1) = Under(t, Len(t))
    BY <1>5, UnderAppend
  <2>2. SectionOf(Append(t, l), Len(t) + 1) = SectionOf(t, Len(t))
    BY <2>1, <1>1, <1>3, <1>a DEF SectionOf
  <2>. QED
    BY <1>2, <1>5, <2>2
<1>. QED
  BY <1>4, <1>5

\* Which lines belong to the interface, are peers, and belong to a peer.
LEMMA MembersAppend ==
    ASSUME NEW t \in Seq(Line), NEW l \in Line
    PROVE  LET n == Len(t) + 1 IN
           /\ InInterface(Append(t, l)) = InInterface(t) \cup
                (IF SectionOf(Append(t, l), n) = "[interface]" THEN {n} ELSE {})
           /\ Peers(Append(t, l)) = Peers(t) \cup (IF l.key = "[peer]" THEN {n} ELSE {})
           /\ \A h : InPeer(Append(t, l), h) = InPeer(t, h) \cup
                (IF Under(Append(t, l), n) = h THEN {n} ELSE {})
<1>1. \A i \in 1..Len(t) : i \in 0..Len(t)
  BY AppendLine
<1>2. InInterface(Append(t, l)) = InInterface(t) \cup
        (IF SectionOf(Append(t, l), Len(t) + 1) = "[interface]" THEN {Len(t) + 1} ELSE {})
  BY <1>1, AppendLine, SectionAppend DEF InInterface
<1>3. Peers(Append(t, l)) = Peers(t) \cup (IF l.key = "[peer]" THEN {Len(t) + 1} ELSE {})
  BY AppendLine DEF Peers
<1>4. ASSUME NEW h
      PROVE  InPeer(Append(t, l), h) = InPeer(t, h) \cup
               (IF Under(Append(t, l), Len(t) + 1) = h THEN {Len(t) + 1} ELSE {})
  BY <1>1, AppendLine, UnderAppend DEF InPeer
<1>. QED
  BY <1>2, <1>3, <1>4

LEMMA MembersType ==
    ASSUME NEW t \in Seq(Line)
    PROVE  /\ InInterface(t) \in SUBSET (1..Len(t))
           /\ Peers(t) \in SUBSET (1..Len(t))
           /\ \A h : InPeer(t, h) \in SUBSET (1..Len(t))
  BY DEF InInterface, Peers, InPeer

-----------------------------------------------------------------------------
(* What the lines of a section say *)

\* Last1 is the value of the last line with the key.
LEMMA Last1Is ==
    ASSUME NEW t \in Seq(Line), NEW I \in SUBSET (1..Len(t)), NEW k, With(t, I, k) # {}
    PROVE  \E i \in With(t, I, k) : /\ \A j \in With(t, I, k) : j <= i
                                   /\ Last1(t, I, k) = t[i].val
<1>1. With(t, I, k) \in SUBSET (0..Len(t)) /\ Len(t) \in Nat
  <2>1. With(t, I, k) \in SUBSET I
    BY DEF With
  <2>2. I \in SUBSET (0..Len(t)) /\ Len(t) \in Nat
    OBVIOUS
  <2>. QED
    BY <2>1, <2>2
<1>2. \E i \in With(t, I, k) : \A j \in With(t, I, k) : j <= i
  BY <1>1, GreatestNat
<1>. QED
  BY <1>2 DEF Last1

\* The last line with the key is the only one with that property.
LEMMA Last1Unique ==
    ASSUME NEW t \in Seq(Line), NEW I \in SUBSET (1..Len(t)), NEW k,
           NEW i \in With(t, I, k), \A j \in With(t, I, k) : j <= i
    PROVE  Last1(t, I, k) = t[i].val
<1>1. With(t, I, k) # {} /\ With(t, I, k) \in SUBSET (1..Len(t))
  BY DEF With
<1>2. PICK h \in With(t, I, k) : /\ \A j \in With(t, I, k) : j <= h
                                 /\ Last1(t, I, k) = t[h].val
  BY <1>1, Last1Is
<1>3. h = i
  BY <1>1, <1>2
<1>. QED
  BY <1>2, <1>3

\* One more line leaves the value of a key among earlier lines alone, and is
\* the last to speak for its own key.
LEMMA Last1Append ==
    ASSUME NEW t \in Seq(Line), NEW l \in Line, NEW I \in SUBSET (1..Len(t)), NEW k
    PROVE  /\ Last1(Append(t, l), I, k) = Last1(t, I, k)
           /\ Last1(Append(t, l), I \cup {Len(t) + 1}, k) =
                IF l.key = k THEN l.val ELSE Last1(t, I, k)
<1> DEFINE t2 == Append(t, l)
           n == Len(t)
           J == I \cup {n + 1}
<1>1. t2 \in Seq(Line) /\ n \in Nat /\ I \in SUBSET (1..Len(t2)) /\ J \in SUBSET (1..Len(t2))
  BY AppendLine
<1>2. /\ With(t2, I, k) = With(t, I, k)
      /\ With(t2, J, k) = With(t, I, k) \cup (IF l.key = k THEN {n + 1} ELSE {})
  <2>1. \A i \in I : t2[i] = t[i]
    BY AppendLine
  <2>2. t2[n + 1] = l
    BY AppendLine
  <2> HIDE DEF t2, n
  <2>. QED
    BY <2>1, <2>2 DEF With
<1>3. With(t, I, k) \in SUBSET (1..n)
  BY DEF With
<1>4. \A i \in With(t, I, k) : t2[i] = t[i]
  BY <1>3, AppendLine
<1>5. t2[n + 1] = l
  BY AppendLine
<1> HIDE DEF t2, n, J
<1>6. ASSUME NEW K \in SUBSET (1..Len(t2)), With(t2, K, k) = With(t, I, k)
      PROVE  Last1(t2, K, k) = Last1(t, I, k)
  <2>1. CASE With(t, I, k) = {}
    BY <2>1, <1>6 DEF Last1
  <2>2. CASE With(t, I, k) # {}
    <3>1. PICK i \in With(t, I, k) : /\ \A j \in With(t, I, k) : j <= i
                                     /\ Last1(t, I, k) = t[i].val
      BY <2>2, Last1Is
    <3>2. Last1(t2, K, k) = t2[i].val
      BY <3>1, <1>6, <1>1, Last1Unique
    <3>. QED
      BY <3>1, <3>2, <1>4
  <2>. QED
    BY <2>1, <2>2
<1>7. Last1(t2, I, k) = Last1(t, I, k)
  BY <1>1, <1>2, <1>6
<1>8. CASE l.key = k
  <2>1. n + 1 \in With(t2, J, k) /\ \A j \in With(t2, J, k) : j <= n + 1
    BY <1>8, <1>1, <1>2, <1>3
  <2>2. Last1(t2, J, k) = l.val
    BY <2>1, <1>1, <1>5, Last1Unique
  <2>. QED
    BY <1>7, <1>8, <2>2 DEF t2, n, J
<1>9. CASE l.key # k
  <2>1. Last1(t2, J, k) = Last1(t, I, k)
    BY <1>9, <1>1, <1>2, <1>6
  <2>. QED
    BY <1>7, <1>9, <2>1 DEF t2, n, J
<1>. QED
  BY <1>8, <1>9

LEMMA SaysAppend ==
    ASSUME NEW t \in Seq(Line), NEW l \in Line, NEW I \in SUBSET (1..Len(t)), NEW k, NEW v
    PROVE  /\ Says(Append(t, l), I, k, v) <=> Says(t, I, k, v)
           /\ Says(Append(t, l), I \cup {Len(t) + 1}, k, v) <=>
                Says(t, I, k, v) \/ (l.key = k /\ l.val = v)
  BY AppendLine DEF Says, With
LEMMA OneMore ==
    ASSUME NEW s \in Seq(Vals), NEW v \in Vals
    PROVE  /\ s \o <<v>> \in Seq(Vals)
           /\ s \o << >> = s
           /\ Len(s) \in Nat
           /\ Len(s \o <<v>>) = Len(s) + 1
           /\ \A i \in 1..Len(s) : (s \o <<v>>)[i] = s[i]
           /\ (s \o <<v>>)[Len(s) + 1] = v
  OBVIOUS

\* The list of a key grows by what the line lists.
LEMMA Lists1Append ==
    ASSUME NEW t \in Seq(Line), NEW l \in Line, NEW I \in SUBSET (1..Len(t)), NEW k,
           NEW s \in Seq(Vals), Lists1(t, I, k, s)
    PROVE  /\ Lists1(Append(t, l), I, k, s)
           /\ l.key # k => Lists1(Append(t, l), I \cup {Len(t) + 1}, k, s)
           /\ l.key = k /\ l.val \in {"good", "bad", "commas"}
                => Lists1(Append(t, l), I \cup {Len(t) + 1}, k, s \o splitList(l.val))
<1>1. Lists1(Append(t, l), I, k, s)
  BY SaysAppend DEF Lists1
<1>2. ASSUME l.key # k PROVE Lists1(Append(t, l), I \cup {Len(t) + 1}, k, s)
  BY <1>2, SaysAppend DEF Lists1
<1>3. ASSUME l.key = k, l.val = "commas"
      PROVE  Lists1(Append(t, l), I \cup {Len(t) + 1}, k, s \o splitList(l.val))
  <2>1. s \o splitList(l.val) = s
    BY <1>3 DEF splitList
  <2>. QED
    BY <2>1, <1>3, SaysAppend DEF Lists1
<1>4. ASSUME l.key = k, l.val \in {"good", "bad"}
      PROVE  Lists1(Append(t, l), I \cup {Len(t) + 1}, k, s \o splitList(l.val))
  <2>1. splitList(l.val) = <<l.val>>
    BY <1>4 DEF splitList
  <2>2. /\ s \o <<l.val>> # << >>
        /\ AllGood(s \o <<l.val>>) <=> AllGood(s) /\ l.val = "good"
    <3>1. /\ Len(s) \in Nat
          /\ Len(s \o <<l.val>>) = Len(s) + 1
          /\ \A i \in 1..Len(s) : (s \o <<l.val>>)[i] = s[i]
          /\ (s \o <<l.val>>)[Len(s) + 1] = l.val
      BY LineType, OneMore
    <3>. QED
      BY <3>1 DEF AllGood
  <2>3. /\ Says(Append(t, l), I \cup {Len(t) + 1}, k, "good")
              <=> Says(t, I, k, "good") \/ l.val = "good"
        /\ Says(Append(t, l), I \cup {Len(t) + 1}, k, "bad")
              <=> Says(t, I, k, "bad") \/ l.val = "bad"
    BY <1>4, SaysAppend
  <2>. QED
    BY <1>4, <2>1, <2>2, <2>3 DEF Lists1
<1>. QED
  BY <1>1, <1>2, <1>3, <1>4

\* A line of another key changes neither, whether or not it is in the section.
LEMMA OtherKey ==
    ASSUME NEW t \in Seq(Line), NEW l \in Line, NEW I \in SUBSET (1..Len(t)), NEW k,
           NEW J, \/ J = I
                  \/ J = I \cup {Len(t) + 1} /\ l.key # k
    PROVE  /\ Last1(Append(t, l), J, k) = Last1(t, I, k)
           /\ \A s \in Seq(Vals) : Lists1(t, I, k, s) => Lists1(Append(t, l), J, k, s)
<1>1. CASE J = I
  BY <1>1, Last1Append, Lists1Append
<1>2. CASE J = I \cup {Len(t) + 1} /\ l.key # k
  <2>1. Last1(Append(t, l), J, k) = Last1(t, I, k)
    BY <1>2, Last1Append
  <2>2. ASSUME NEW s \in Seq(Vals), Lists1(t, I, k, s) PROVE Lists1(Append(t, l), J, k, s)
    BY <1>2, <2>2, Lists1Append
  <2>. QED
    BY <2>1, <2>2
<1>. QED
  BY <1>1, <1>2

-----------------------------------------------------------------------------
(* The peers by number *)

\* PeerNo numbers the peers, in their order, from 1 on.
LEMMA PeerNoIs ==
    ASSUME NEW t \in Seq(Line)
    PROVE  /\ IsFiniteSet(Peers(t)) /\ Cardinality(Peers(t)) \in Nat
           /\ \A h \in Peers(t) : PeerNo(t, h) \in 1..Cardinality(Peers(t))
           /\ \A g, h \in Peers(t) : PeerNo(t, g) = PeerNo(t, h) => g = h
           /\ \A n \in 1..Cardinality(Peers(t)) :
                PeerAt(t, n) \in Peers(t) /\ PeerNo(t, PeerAt(t, n)) = n
<1> DEFINE N == Cardinality(Peers(t))
           Upto(h) == {g \in Peers(t) : g <= h}
<1>1. Peers(t) \in SUBSET (1..Len(t)) /\ Len(t) \in Nat
  BY MembersType
<1>2. IsFiniteSet(Peers(t)) /\ N \in Nat
  <2>1. IsFiniteSet(1..Len(t))
    BY <1>1, FS_Interval
  <2>. QED
    BY <2>1, <1>1, FS_Subset, FS_CardinalityType
<1>3. ASSUME NEW h \in Peers(t)
      PROVE  /\ IsFiniteSet(Upto(h))
             /\ Cardinality(Upto(h)) \in 1..N
             /\ h \in Upto(h)
  <2>1. Upto(h) \in SUBSET Peers(t) /\ h \in Upto(h)
    BY <1>1
  <2>2. IsFiniteSet(Upto(h)) /\ Cardinality(Upto(h)) <= N
    BY <2>1, <1>2, FS_Subset
  <2>3. Cardinality(Upto(h)) \in Nat /\ Cardinality(Upto(h)) # 0
    BY <2>1, <2>2, FS_CardinalityType, FS_EmptySet
  <2>. QED
    BY <1>2, <2>1, <2>2, <2>3
<1>4. ASSUME NEW g \in Peers(t), NEW h \in Peers(t), g < h
      PROVE  Cardinality(Upto(g)) # Cardinality(Upto(h))
  <2>1. Upto(g) \in SUBSET Upto(h) /\ h \notin Upto(g) /\ h \in Upto(h)
    BY <1>1, <1>4
  <2>. QED
    BY <2>1, <1>3, FS_Subset
<1>5. \A g, h \in Peers(t) : PeerNo(t, g) = PeerNo(t, h) => g = h
  <2> SUFFICES ASSUME NEW g \in Peers(t), NEW h \in Peers(t), PeerNo(t, g) = PeerNo(t, h)
               PROVE  g = h
    OBVIOUS
  <2>1. ~(g < h) /\ ~(h < g)
    BY <1>4 DEF PeerNo
  <2>. QED
    BY <2>1, <1>1
<1>6. \A h \in Peers(t) : PeerNo(t, h) \in 1..N
  BY <1>3 DEF PeerNo
<1>7. ASSUME NEW n \in 1..N PROVE \E h \in Peers(t) : PeerNo(t, h) = n
  <2> DEFINE f == [h \in Peers(t) |-> PeerNo(t, h)]
  <2>1. f \in Injection(Peers(t), 1..N)
    BY <1>5, <1>6 DEF Injection, IsInjective
  <2>2. IsFiniteSet(1..N) /\ Cardinality(1..N) = N
    BY <1>2, FS_Interval
  <2>3. f \in Surjection(Peers(t), 1..N)
    BY <2>1, <2>2, FS_Injection
  <2>. QED
    BY <2>3 DEF Surjection
<1>8. \A n \in 1..N : PeerAt(t, n) \in Peers(t) /\ PeerNo(t, PeerAt(t, n)) = n
  BY <1>7 DEF PeerAt
<1>. QED
  BY <1>2, <1>5, <1>6, <1>8

\* One more line keeps the numbers; a peer's header gets the next one.
LEMMA PeerNoAppend ==
    ASSUME NEW t \in Seq(Line), NEW l \in Line
    PROVE  /\ \A h \in Peers(t) : PeerNo(Append(t, l), h) = PeerNo(t, h)
           /\ l.key # "[peer]" => Cardinality(Peers(Append(t, l))) = Cardinality(Peers(t))
           /\ l.key = "[peer]" =>
                /\ Cardinality(Peers(Append(t, l))) = Cardinality(Peers(t)) + 1
                /\ PeerNo(Append(t, l), Len(t) + 1) = Cardinality(Peers(t)) + 1
<1>1. Peers(t) \in SUBSET (1..Len(t)) /\ Len(t) \in Nat /\ IsFiniteSet(Peers(t))
  BY MembersType, PeerNoIs
<1>2. Peers(Append(t, l)) = Peers(t) \cup (IF l.key = "[peer]" THEN {Len(t) + 1} ELSE {})
  BY MembersAppend
<1>3. ASSUME NEW h \in Peers(t) PROVE PeerNo(Append(t, l), h) = PeerNo(t, h)
  <2>1. {g \in Peers(Append(t, l)) : g <= h} = {g \in Peers(t) : g <= h}
    BY <1>1, <1>2
  <2>. QED
    BY <2>1 DEF PeerNo
<1>4. ASSUME l.key = "[peer]"
      PROVE  /\ Cardinality(Peers(Append(t, l))) = Cardinality(Peers(t)) + 1
             /\ PeerNo(Append(t, l), Len(t) + 1) = Cardinality(Peers(t)) + 1
  <2>1. Len(t) + 1 \notin Peers(t)
    BY <1>1
  <2>2. Cardinality(Peers(Append(t, l))) = Cardinality(Peers(t)) + 1
    BY <1>1, <1>2, <1>4, <2>1, FS_AddElement
  <2>3. {g \in Peers(Append(t, l)) : g <= Len(t) + 1} = Peers(Append(t, l))
    BY <1>1, <1>2
  <2>. QED
    BY <2>2, <2>3 DEF PeerNo
<1>. QED
  BY <1>2, <1>3, <1>4

\* The peer that is being read is the last one.
LEMMA LastPeer ==
    ASSUME NEW t \in Seq(Line), SectionOf(t, Len(t)) = "[peer]"
    PROVE  /\ Under(t, Len(t)) \in Peers(t)
           /\ PeerNo(t, Under(t, Len(t))) = Cardinality(Peers(t))
           /\ \A h \in Peers(t) : h # Under(t, Len(t)) => PeerNo(t, h) # Cardinality(Peers(t))
<1> DEFINE g == Under(t, Len(t))
<1>1. Len(t) \in Nat /\ Len(t) \in 0..Len(t)
  OBVIOUS
<1>2. IsUnder(t, Len(t), g)
  BY <1>1, UnderIs
<1>3. g # 0 /\ t[g].key = "[peer]"
  BY DEF SectionOf
<1>4. g \in Peers(t)
  BY <1>2, <1>3 DEF IsUnder, HeadersOf, Peers
<1>5. {h \in Peers(t) : h <= g} = Peers(t)
  BY <1>2 DEF IsUnder, HeadersOf, Headers, Peers
<1>6. PeerNo(t, g) = Cardinality(Peers(t))
  BY <1>5 DEF PeerNo
<1>. QED
  BY <1>4, <1>6, PeerNoIs
-----------------------------------------------------------------------------
(* Types *)

LEMMA NoConfigType == NoConfig \in ConfigType /\ NoPeer \in PeerType
  BY DEF NoConfig, ConfigType, NoPeer, PeerType, Vals

LEMMA PeerOfType ==
    ASSUME NEW c \in ConfigType, NEW n \in 1..Len(c.peers)
    PROVE  c.peers[n] \in PeerType
<1>1. \A s \in Seq(PeerType) : \A i \in 1..Len(s) : s[i] \in PeerType
  OBVIOUS
<1>2. c.peers \in Seq(PeerType)
  BY DEF ConfigType
<1>. QED
  BY <1>1, <1>2

\* What Put changes, key by key.
LEMMA PutInterface ==
    ASSUME NEW c \in ConfigType, NEW l \in Line, l.key \in InterfaceKeys
    PROVE  /\ Put(c, l) \in ConfigType
           /\ Put(c, l).peers = c.peers
           /\ Put(c, l).privatekey = IF l.key = "privatekey" THEN l.val ELSE c.privatekey
           /\ Put(c, l).mtu = IF l.key = "mtu" THEN l.val ELSE c.mtu
           /\ Put(c, l).address = IF l.key = "address" THEN c.address \o splitList(l.val)
                                  ELSE c.address
<1>1. l.val \in Vals
  BY LineType
<1>2. \A s \in Seq(Vals) : s \o splitList(l.val) \in Seq(Vals)
  BY <1>1, OneMore DEF splitList
<1>3. CASE l.key = "privatekey"
  BY <1>1, <1>3 DEF Put, ConfigType, Lists
<1>4. CASE l.key = "address"
  BY <1>2, <1>4 DEF Put, ConfigType, Lists
<1>5. CASE l.key = "dns"
  BY <1>2, <1>5 DEF Put, ConfigType, Lists
<1>6. CASE l.key = "mtu"
  BY <1>1, <1>6 DEF Put, ConfigType, Lists
<1>. QED
  BY <1>3, <1>4, <1>5, <1>6 DEF InterfaceKeys

LEMMA PutPeer ==
    ASSUME NEW p \in PeerType, NEW l \in Line, l.key \in PeerKeys
    PROVE  /\ Put(p, l) \in PeerType
           /\ Put(p, l).publickey = IF l.key = "publickey" THEN l.val ELSE p.publickey
           /\ Put(p, l).presharedkey = IF l.key = "presharedkey" THEN l.val ELSE p.presharedkey
           /\ Put(p, l).allowedips = IF l.key = "allowedips" THEN p.allowedips \o splitList(l.val)
                                     ELSE p.allowedips
           /\ Put(p, l).endpoint = IF l.key = "endpoint" THEN l.val ELSE p.endpoint
           /\ Put(p, l).persistentkeepalive =
                IF l.key = "persistentkeepalive" THEN l.val ELSE p.persistentkeepalive
<1>1. l.val \in Vals
  BY LineType
<1>2. \A s \in Seq(Vals) : s \o splitList(l.val) \in Seq(Vals)
  BY <1>1, OneMore DEF splitList
<1>3. CASE l.key = "publickey"
  BY <1>1, <1>3 DEF Put, PeerType, Lists
<1>4. CASE l.key = "presharedkey"
  BY <1>1, <1>4 DEF Put, PeerType, Lists
<1>5. CASE l.key = "allowedips"
  BY <1>2, <1>5 DEF Put, PeerType, Lists
<1>6. CASE l.key = "endpoint"
  BY <1>1, <1>6 DEF Put, PeerType, Lists
<1>7. CASE l.key = "persistentkeepalive"
  BY <1>1, <1>7 DEF Put, PeerType, Lists
<1>. QED
  BY <1>3, <1>4, <1>5, <1>6, <1>7 DEF PeerKeys

\* Types: a header adds a peer, a key of a peer goes to the last one.
LEMMA AddPeer ==
    ASSUME NEW c \in ConfigType
    PROVE  LET d == [c EXCEPT !.peers = Append(@, NoPeer)] IN
           /\ d \in ConfigType
           /\ d.privatekey = c.privatekey /\ d.address = c.address /\ d.mtu = c.mtu
           /\ Len(c.peers) \in Nat /\ Len(d.peers) = Len(c.peers) + 1
           /\ \A i \in 1..Len(c.peers) : d.peers[i] = c.peers[i]
           /\ d.peers[Len(c.peers) + 1] = NoPeer
<1>1. c.peers \in Seq(PeerType) /\ NoPeer \in PeerType
  BY NoConfigType DEF ConfigType
<1>2. /\ Append(c.peers, NoPeer) \in Seq(PeerType)
      /\ Len(c.peers) \in Nat /\ Len(Append(c.peers, NoPeer)) = Len(c.peers) + 1
      /\ \A i \in 1..Len(c.peers) : Append(c.peers, NoPeer)[i] = c.peers[i]
      /\ Append(c.peers, NoPeer)[Len(c.peers) + 1] = NoPeer
  BY <1>1
<1>. QED
  BY <1>2 DEF ConfigType

\* The n-th peer of c is replaced by p; what d = Replaced(c, n, p) keeps.
Replaced(c, n, p) == [c EXCEPT !.peers[n] = p]

DiffersAt(c, d, n, p) ==
    /\ d \in ConfigType
    /\ d.privatekey = c.privatekey /\ d.address = c.address /\ d.mtu = c.mtu
    /\ Len(d.peers) = Len(c.peers)
    /\ d.peers[n] = p
    /\ \A i \in 1..Len(c.peers) : i # n => d.peers[i] = c.peers[i]

LEMMA SetPeer ==
    ASSUME NEW c \in ConfigType, NEW n \in 1..Len(c.peers), NEW p \in PeerType
    PROVE  DiffersAt(c, Replaced(c, n, p), n, p)
<1>1. c.peers \in Seq(PeerType)
  BY DEF ConfigType
<1>2. /\ [c.peers EXCEPT ![n] = p] \in Seq(PeerType)
      /\ Len([c.peers EXCEPT ![n] = p]) = Len(c.peers)
      /\ \A i \in 1..Len(c.peers) : [c.peers EXCEPT ![n] = p][i] = IF i = n THEN p ELSE c.peers[i]
  BY <1>1
<1>. QED
  BY <1>2 DEF ConfigType, Replaced, DiffersAt
-----------------------------------------------------------------------------
(* A line is refused exactly if it is out of place *)

\* The section of the text so far, and the one the parser remembers.
LEMMA SectionNow ==
    ASSUME NEW t \in Seq(Line), Clean(t)
    PROVE  /\ SectionOf(t, Len(t)) \in {"", "[interface]", "[peer]"}
           /\ NameOf(SectionOf(t, Len(t))) = "interface" <=> SectionOf(t, Len(t)) = "[interface]"
           /\ NameOf(SectionOf(t, Len(t))) = "peer" <=> SectionOf(t, Len(t)) = "[peer]"
           /\ NameOf(SectionOf(t, Len(t))) \in {"", "interface", "peer"}
<1>1. Len(t) \in Nat /\ Len(t) \in 0..Len(t)
  OBVIOUS
<1>2. Under(t, Len(t)) \in HeadersOf(t) \cup {0}
  BY <1>1, UnderIs DEF IsUnder
<1>3. SectionOf(t, Len(t)) \in {"", "[interface]", "[peer]"}
  BY <1>2 DEF SectionOf, HeadersOf, Headers, Clean
<1>. QED
  BY <1>3 DEF NameOf

\* The parser's test for a second interface section.
LEMMA InterfaceOpen ==
    ASSUME NEW t \in Seq(Line), Clean(t), NEW c, ReadInterface(t, c)
    PROVE  c.privatekey # "" \/ c.address # << >> <=>
             \E j \in InInterface(t) : /\ t[j].key \in {"privatekey", "address"}
                                       /\ t[j].val # "commas"
<1> DEFINE I == InInterface(t)
<1>1. I \in SUBSET (1..Len(t))
  BY MembersType
<1>2. \A j \in I : t[j] \in Line
  BY <1>1
<1>3. \A j \in I : /\ t[j].key = "privatekey" => t[j].val \in {"good", "bad"}
                   /\ t[j].key = "address" => t[j].val \in {"good", "bad", "commas"}
  <2>1. \A j \in I : t[j].key \in {"privatekey", "address"} => t[j].val # ""
    BY <1>1 DEF Clean, Keys, InterfaceKeys
  <2>. QED
    BY <1>2, <2>1, LineType
<1> HIDE DEF I
<1>4. c.privatekey # "" <=> \E j \in I : t[j].key = "privatekey"
  <2>1. c.privatekey = Last1(t, I, "privatekey")
    BY DEF ReadInterface, I
  <2>2. CASE With(t, I, "privatekey") = {}
    BY <2>1, <2>2 DEF Last1, With
  <2>3. CASE With(t, I, "privatekey") # {}
    <3>1. PICK i \in With(t, I, "privatekey") : Last1(t, I, "privatekey") = t[i].val
      BY <2>3, <1>1, Last1Is
    <3>. QED
      BY <3>1, <2>1, <1>3 DEF With
  <2>. QED
    BY <2>2, <2>3
<1>5. c.address # << >> <=> \E j \in I : t[j].key = "address" /\ t[j].val \in {"good", "bad"}
  BY DEF ReadInterface, Lists1, Says, With, I
<1>. QED
  BY <1>3, <1>4, <1>5 DEF I

\* The lines the parser is to refuse.
Barred(t, i) == Misplaced(t, i) /\ ~Tolerated(t, i)

\* Whether the next line is one, told from the text before it.
LEMMA BarredNext ==
    ASSUME NEW t \in Seq(Line), NEW l \in Line
    PROVE  Barred(Append(t, l), Len(t) + 1) <=>
             \/ l.key \in {"[other]", "junk"} \cup HookKeys
             \/ l.key \in InterfaceKeys /\ (SectionOf(t, Len(t)) # "[interface]" \/ l.val = "")
             \/ l.key \in PeerKeys /\ (SectionOf(t, Len(t)) # "[peer]" \/ l.val = "")
             \/ l.key = "endpoint" /\ l.val = "bad"
             \/ /\ l.key = "[interface]"
                /\ \E j \in InInterface(t) : /\ t[j].key \in {"privatekey", "address"}
                                             /\ t[j].val # "commas"
<1> DEFINE t2 == Append(t, l)
           n == Len(t)
           Second(u, j) == u[j].key \in {"privatekey", "address"} /\ u[j].val # "commas"
<1>1. l.key \in Keys => SectionOf(t2, n + 1) = SectionOf(t, n)
  BY SectionAppend DEF Keys, InterfaceKeys, PeerKeys, Headers
<1>2. t2[n + 1] = l /\ n \in Nat
  BY AppendLine
<1>3. InInterface(t) \in SUBSET (1..n) /\ \A j \in 1..n : t2[j] = t[j]
  BY MembersType, AppendLine
<1>4. \A j : j \in InInterface(t2) /\ j < n + 1 <=> j \in InInterface(t)
  <2> HIDE DEF Second
  <2>. QED
    BY <1>2, <1>3, MembersAppend
<1>5. Tolerated(t2, n + 1) <=> l.key = "[interface]" /\ ~\E j \in InInterface(t) : Second(t, j)
  <2> HIDE DEF t2, n
  <2>1. \A j \in InInterface(t) : Second(t2, j) <=> Second(t, j)
    BY <1>3
  <2>2. Tolerated(t2, n + 1) <=>
          l.key = "[interface]" /\ \A j \in InInterface(t2) : j < n + 1 => ~Second(t2, j)
    BY <1>2 DEF Tolerated
  <2> HIDE DEF Second
  <2>. QED
    BY <1>4, <2>1, <2>2
<1>6. (\E j \in InInterface(t) : Second(t, j)) => \E h \in 1..n : t2[h].key = "[interface]"
  <2>. SUFFICES ASSUME NEW j \in InInterface(t)
                PROVE  \E h \in 1..n : t2[h].key = "[interface]"
    OBVIOUS
  <2>1. j \in 1..n /\ SectionOf(t, j) = "[interface]"
    BY <1>3 DEF InInterface
  <2>2. Under(t, j) \in HeadersOf(t) \cup {0}
    BY <1>2, <2>1, UnderIs DEF IsUnder
  <2>3. Under(t, j) \in 1..n /\ t[Under(t, j)].key = "[interface]"
    BY <2>1, <2>2 DEF SectionOf, HeadersOf
  <2> HIDE DEF t2
  <2>. QED
    BY <1>3, <2>3
<1> HIDE DEF t2, n, Second
<1>7. Misplaced(t2, n + 1) <=>
        \/ l.key \in {"[other]", "junk"} \cup HookKeys
        \/ l.key \in InterfaceKeys /\ (SectionOf(t, n) # "[interface]" \/ l.val = "")
        \/ l.key \in PeerKeys /\ (SectionOf(t, n) # "[peer]" \/ l.val = "")
        \/ l.key = "endpoint" /\ l.val = "bad"
        \/ l.key = "[interface]" /\ \E h \in 1..n : t2[h].key = "[interface]"
  <2>1. (n + 1) - 1 = n
    BY <1>2
  <2>. QED
    BY <1>1, <1>2, <2>1 DEF Misplaced, Keys
<1>8. l.key = "[interface]" => l.key \notin {"[other]", "junk"} \cup HookKeys \cup InterfaceKeys
                                            \cup PeerKeys \cup {"endpoint"}
  BY DEF HookKeys, InterfaceKeys, PeerKeys
<1>9. Barred(t2, n + 1) <=>
        \/ l.key \in {"[other]", "junk"} \cup HookKeys
        \/ l.key \in InterfaceKeys /\ (SectionOf(t, n) # "[interface]" \/ l.val = "")
        \/ l.key \in PeerKeys /\ (SectionOf(t, n) # "[peer]" \/ l.val = "")
        \/ l.key = "endpoint" /\ l.val = "bad"
        \/ l.key = "[interface]" /\ \E j \in InInterface(t) : Second(t, j)
  BY <1>5, <1>6, <1>7, <1>8 DEF Barred
<1>. QED
  BY <1>9 DEF t2, n, Second
-----------------------------------------------------------------------------
(* What an accepted line adds *)

\* A line that is no key of the interface leaves it as read.
LEMMA KeepsInterface ==
    ASSUME NEW t \in Seq(Line), NEW l \in Line, NEW c \in ConfigType, NEW d \in ConfigType,
           ReadInterface(t, c), l.key \notin {"privatekey", "address", "mtu"},
           d.privatekey = c.privatekey, d.address = c.address, d.mtu = c.mtu
    PROVE  ReadInterface(Append(t, l), d)
<1> DEFINE I == InInterface(t)
           J == InInterface(Append(t, l))
<1>1. I \in SUBSET (1..Len(t)) /\ (J = I \/ J = I \cup {Len(t) + 1})
  BY MembersType, MembersAppend
<1>2. c.address \in Seq(Vals)
  BY DEF ConfigType
<1> HIDE DEF I, J
<1>3. Last1(Append(t, l), J, "privatekey") = Last1(t, I, "privatekey")
  <2>1. J = I \/ (J = I \cup {Len(t) + 1} /\ l.key # "privatekey")
    BY <1>1
  <2>. QED
    BY <1>1, <2>1, OtherKey
<1>4. Last1(Append(t, l), J, "mtu") = Last1(t, I, "mtu")
  <2>1. J = I \/ (J = I \cup {Len(t) + 1} /\ l.key # "mtu")
    BY <1>1
  <2>. QED
    BY <1>1, <2>1, OtherKey
<1>5. Lists1(Append(t, l), J, "address", c.address)
  <2>1. Lists1(t, I, "address", c.address)
    BY DEF ReadInterface, I
  <2>. QED
    BY <1>1, <1>2, <2>1, OtherKey
<1>. QED
  BY <1>3, <1>4, <1>5 DEF ReadInterface, I, J

\* A key of the interface is put where its line says.
LEMMA TakesInterface ==
    ASSUME NEW t \in Seq(Line), NEW l \in Line, NEW c \in ConfigType,
           ReadInterface(t, c), SectionOf(t, Len(t)) = "[interface]",
           l.key \in InterfaceKeys, l.val # ""
    PROVE  ReadInterface(Append(t, l), Put(c, l))
<1> DEFINE I == InInterface(t)
           J == InInterface(Append(t, l))
<1>1. I \in SUBSET (1..Len(t)) /\ J = I \cup {Len(t) + 1}
  BY MembersType, MembersAppend, SectionAppend DEF InterfaceKeys, Headers
<1>2. c.address \in Seq(Vals)
  BY DEF ConfigType
<1> HIDE DEF I, J
<1>a. \A k : Last1(Append(t, l), J, k) = IF l.key = k THEN l.val ELSE Last1(t, I, k)
  BY <1>1, Last1Append
<1>3. Put(c, l).privatekey = Last1(Append(t, l), J, "privatekey")
  BY <1>a, PutInterface DEF ReadInterface, I
<1>4. Put(c, l).mtu = Last1(Append(t, l), J, "mtu")
  BY <1>a, PutInterface DEF ReadInterface, I
<1>5. Lists1(Append(t, l), J, "address", Put(c, l).address)
  <2>1. Lists1(t, I, "address", c.address)
    BY DEF ReadInterface, I
  <2>2. CASE l.key = "address"
    <3>1. l.val \in {"good", "bad", "commas"}
      BY <2>2, LineType
    <3>2. Put(c, l).address = c.address \o splitList(l.val)
      BY <2>2, PutInterface
    <3>. QED
      BY <1>1, <1>2, <2>1, <2>2, <3>1, <3>2, Lists1Append
  <2>3. CASE l.key # "address"
    <3>1. Put(c, l).address = c.address
      BY <2>3, PutInterface
    <3>. QED
      BY <1>1, <1>2, <2>1, <2>3, <3>1, Lists1Append
  <2>. QED
    BY <2>2, <2>3
<1>. QED
  BY <1>3, <1>4, <1>5 DEF ReadInterface, J

\* A line that is no key of a peer, or of another peer, leaves it as read.
LEMMA KeepsPeer ==
    ASSUME NEW t \in Seq(Line), NEW l \in Line, NEW h, NEW p \in PeerType,
           ReadPeer(t, h, p),
           l.key \notin PeerKeys \/ Under(Append(t, l), Len(t) + 1) # h
    PROVE  ReadPeer(Append(t, l), h, p)
<1> DEFINE I == InPeer(t, h)
           J == InPeer(Append(t, l), h)
<1>1. I \in SUBSET (1..Len(t)) /\ (J = I \/ (J = I \cup {Len(t) + 1} /\ l.key \notin PeerKeys))
  <2>1. J = I \cup (IF Under(Append(t, l), Len(t) + 1) = h THEN {Len(t) + 1} ELSE {})
    BY MembersAppend
  <2>2. I \in SUBSET (1..Len(t))
    BY MembersType
  <2>. QED
    BY <2>1, <2>2
<1>2. p.allowedips \in Seq(Vals)
  BY DEF PeerType
<1> HIDE DEF I, J
<1>3. \A k \in PeerKeys : Last1(Append(t, l), J, k) = Last1(t, I, k)
  <2> SUFFICES ASSUME NEW k \in PeerKeys
               PROVE  Last1(Append(t, l), J, k) = Last1(t, I, k)
    OBVIOUS
  <2>1. CASE J = I
    BY <2>1, <1>1, Last1Append
  <2>2. CASE J = I \cup {Len(t) + 1} /\ l.key # k
    BY <2>2, <1>1, Last1Append
  <2>. QED
    BY <1>1, <2>1, <2>2
<1>4. Lists1(Append(t, l), J, "allowedips", p.allowedips)
  <2>1. Lists1(t, I, "allowedips", p.allowedips)
    BY DEF ReadPeer, I
  <2>2. J = I \/ (J = I \cup {Len(t) + 1} /\ l.key # "allowedips")
    BY <1>1 DEF PeerKeys
  <2>. QED
    BY <1>1, <1>2, <2>1, <2>2, OtherKey
<1>. QED
  BY <1>3, <1>4 DEF ReadPeer, PeerKeys, I, J

\* A key of the peer being read is put where its line says.
LEMMA TakesPeer ==
    ASSUME NEW t \in Seq(Line), NEW l \in Line, NEW p \in PeerType,
           ReadPeer(t, Under(t, Len(t)), p), l.key \in PeerKeys, l.val # ""
    PROVE  ReadPeer(Append(t, l), Under(t, Len(t)), Put(p, l))
<1> DEFINE h == Under(t, Len(t))
           I == InPeer(t, h)
           J == InPeer(Append(t, l), h)
<1>1. I \in SUBSET (1..Len(t)) /\ J = I \cup {Len(t) + 1}
  <2>1. Under(Append(t, l), Len(t) + 1) = h
    BY UnderAppend DEF PeerKeys, Headers
  <2>2. J = I \cup (IF Under(Append(t, l), Len(t) + 1) = h THEN {Len(t) + 1} ELSE {})
    BY MembersAppend
  <2>3. I \in SUBSET (1..Len(t))
    BY MembersType
  <2>. QED
    BY <2>1, <2>2, <2>3
<1>2. p.allowedips \in Seq(Vals)
  BY DEF PeerType
<1> HIDE DEF h, I, J
<1>3. \A k \in PeerKeys : Last1(Append(t, l), J, k) = IF l.key = k THEN l.val ELSE Last1(t, I, k)
  BY <1>1, Last1Append
<1>4. /\ Put(p, l).publickey = Last1(Append(t, l), J, "publickey")
      /\ Put(p, l).presharedkey = Last1(Append(t, l), J, "presharedkey")
      /\ Put(p, l).endpoint = Last1(Append(t, l), J, "endpoint")
      /\ Put(p, l).persistentkeepalive = Last1(Append(t, l), J, "persistentkeepalive")
  BY <1>3, PutPeer DEF ReadPeer, PeerKeys, I, h
<1>5. Lists1(Append(t, l), J, "allowedips", Put(p, l).allowedips)
  <2>1. Lists1(t, I, "allowedips", p.allowedips)
    BY DEF ReadPeer, I, h
  <2>2. CASE l.key = "allowedips"
    <3>1. l.val \in {"good", "bad", "commas"}
      BY <2>2, LineType
    <3>2. Put(p, l).allowedips = p.allowedips \o splitList(l.val)
      BY <2>2, PutPeer
    <3>. QED
      BY <1>1, <1>2, <2>1, <2>2, <3>1, <3>2, Lists1Append
  <2>3. CASE l.key # "allowedips"
    <3>1. Put(p, l).allowedips = p.allowedips
      BY <2>3, PutPeer
    <3>. QED
      BY <1>1, <1>2, <2>1, <2>3, <3>1, Lists1Append
  <2>. QED
    BY <2>2, <2>3
<1>. QED
  BY <1>4, <1>5 DEF ReadPeer, J, h

\* A peer's header opens a peer that says nothing yet.
LEMMA OpensPeer ==
    ASSUME NEW t \in Seq(Line), NEW l \in Line, l.key = "[peer]"
    PROVE  ReadPeer(Append(t, l), Len(t) + 1, NoPeer)
<1> DEFINE J == InPeer(Append(t, l), Len(t) + 1)
<1>1. InPeer(t, Len(t) + 1) = {}
  <2>1. ASSUME NEW i \in 1..Len(t) PROVE Under(t, i) # Len(t) + 1
    <3>1. Under(t, i) \in 0..i /\ i \in 0..Len(t)
      BY UnderIs
    <3>. QED
      BY <3>1
  <2>. QED
    BY <2>1 DEF InPeer
<1>2. J \in SUBSET {Len(t) + 1}
  BY <1>1, MembersAppend
<1>3. Append(t, l)[Len(t) + 1].key = "[peer]"
  BY AppendLine
<1> HIDE DEF J
<1>4. \A k \in PeerKeys : With(Append(t, l), J, k) = {}
  BY <1>2, <1>3 DEF With, PeerKeys
<1>5. \A k \in PeerKeys : /\ Last1(Append(t, l), J, k) = ""
                          /\ \A v : ~Says(Append(t, l), J, k, v)
  BY <1>4 DEF Last1, Says
<1>6. Lists1(Append(t, l), J, "allowedips", << >>)
  <2>1. AllGood(<< >>)
    BY DEF AllGood
  <2>2. "allowedips" \in PeerKeys
    BY DEF PeerKeys
  <2>. QED
    BY <1>5, <2>1, <2>2 DEF Lists1
<1>. QED
  BY <1>5, <1>6 DEF ReadPeer, NoPeer, PeerKeys, J
-----------------------------------------------------------------------------
(* Every accepted line keeps section and cfg in step with the text *)

\* The peers, when the line is neither a key of a peer nor the header of one.
LEMMA KeepsPeers ==
    ASSUME NEW t \in Seq(Line), NEW l \in Line, NEW sec, NEW c \in ConfigType, NEW d,
           Reads(t, sec, c), l.key \notin PeerKeys \cup {"[peer]"}, d.peers = c.peers
    PROVE  /\ Len(d.peers) = Cardinality(Peers(Append(t, l)))
           /\ \A h \in Peers(Append(t, l)) :
                ReadPeer(Append(t, l), h, d.peers[PeerNo(Append(t, l), h)])
<1>1. Peers(Append(t, l)) = Peers(t)
  BY MembersAppend
<1>2. Len(d.peers) = Cardinality(Peers(Append(t, l)))
  BY <1>1 DEF Reads
<1>3. ASSUME NEW h \in Peers(t)
      PROVE  ReadPeer(Append(t, l), h, c.peers[PeerNo(Append(t, l), h)])
  <2>1. PeerNo(Append(t, l), h) = PeerNo(t, h) /\ PeerNo(t, h) \in 1..Len(c.peers)
    BY PeerNoAppend, PeerNoIs DEF Reads
  <2>2. c.peers[PeerNo(t, h)] \in PeerType
    BY <2>1 DEF ConfigType
  <2>3. ReadPeer(t, h, c.peers[PeerNo(t, h)])
    BY DEF Reads
  <2>. QED
    BY <2>1, <2>2, <2>3, KeepsPeer
<1>. QED
  BY <1>1, <1>2, <1>3

LEMMA CleanAppend ==
    ASSUME NEW t \in Seq(Line), NEW l \in Line, Clean(t), l.key # "[other]",
           l.key \in Keys => l.val # ""
    PROVE  Clean(Append(t, l))
<1> SUFFICES ASSUME NEW i \in 1..Len(Append(t, l))
             PROVE  /\ Append(t, l)[i].key \in Keys => Append(t, l)[i].val # ""
                    /\ Append(t, l)[i].key # "[other]"
  BY DEF Clean
<1>1. CASE i \in 1..Len(t)
  <2>1. Append(t, l)[i] = t[i]
    BY <1>1, AppendLine
  <2>. QED
    BY <1>1, <2>1 DEF Clean
<1>2. CASE i = Len(t) + 1
  <2>1. Append(t, l)[i] = l
    BY <1>2, AppendLine
  <2>. QED
    BY <2>1
<1>3. i \in (1..Len(t)) \cup {Len(t) + 1}
  BY AppendLine
<1>. QED
  BY <1>1, <1>2, <1>3

\* The section after one more line: its own if it is a header.
LEMMA SectionAfter ==
    ASSUME NEW t \in Seq(Line), NEW l \in Line
    PROVE  SectionOf(Append(t, l), Len(Append(t, l))) =
             IF l.key \in Headers THEN l.key ELSE SectionOf(t, Len(t))
<1>1. Len(Append(t, l)) = Len(t) + 1
  BY AppendLine
<1>. QED
  BY <1>1, SectionAppend

LEMMA ReadBlank ==
    ASSUME NEW t \in Seq(Line), NEW l \in Line, NEW sec, NEW c \in ConfigType,
           Reads(t, sec, c), l.key = "blank"
    PROVE  Reads(Append(t, l), sec, c)
<1>1. Clean(Append(t, l))
  BY CleanAppend DEF Reads, Keys, InterfaceKeys, PeerKeys
<1>2. sec = NameOf(SectionOf(Append(t, l), Len(Append(t, l))))
  BY SectionAfter DEF Reads, Headers
<1>3. ReadInterface(Append(t, l), c)
  BY KeepsInterface DEF Reads
<1>4. l.key \notin PeerKeys \cup {"[peer]"}
  BY DEF PeerKeys
<1>. QED
  BY <1>1, <1>2, <1>3, <1>4, KeepsPeers DEF Reads

LEMMA ReadInterfaceHeader ==
    ASSUME NEW t \in Seq(Line), NEW l \in Line, NEW sec, NEW c \in ConfigType,
           Reads(t, sec, c), l.key = "[interface]"
    PROVE  Reads(Append(t, l), "interface", c)
<1>1. Clean(Append(t, l))
  BY CleanAppend DEF Reads, Keys, InterfaceKeys, PeerKeys
<1>2. "interface" = NameOf(SectionOf(Append(t, l), Len(Append(t, l))))
  <2>1. SectionOf(Append(t, l), Len(Append(t, l))) = "[interface]"
    BY SectionAfter DEF Headers
  <2>. QED
    BY <2>1 DEF NameOf
<1>3. ReadInterface(Append(t, l), c)
  BY KeepsInterface DEF Reads
<1>4. l.key \notin PeerKeys \cup {"[peer]"}
  BY DEF PeerKeys
<1>. QED
  BY <1>1, <1>2, <1>3, <1>4, KeepsPeers DEF Reads

LEMMA ReadInterfaceKey ==
    ASSUME NEW t \in Seq(Line), NEW l \in Line, NEW c \in ConfigType,
           Reads(t, "interface", c), l.key \in InterfaceKeys, l.val # ""
    PROVE  Reads(Append(t, l), "interface", Put(c, l)) /\ Put(c, l) \in ConfigType
<1>1. Clean(Append(t, l))
  BY CleanAppend DEF Reads, InterfaceKeys
<1>2. SectionOf(t, Len(t)) = "[interface]"
  BY SectionNow DEF Reads
<1>3. "interface" = NameOf(SectionOf(Append(t, l), Len(Append(t, l))))
  <2>1. SectionOf(Append(t, l), Len(Append(t, l))) = "[interface]"
    BY <1>2, SectionAfter DEF Headers, InterfaceKeys
  <2>. QED
    BY <2>1 DEF NameOf
<1>4. ReadInterface(Append(t, l), Put(c, l))
  BY <1>2, TakesInterface DEF Reads
<1>5. l.key \notin PeerKeys \cup {"[peer]"}
  BY DEF PeerKeys, InterfaceKeys
<1>6. Put(c, l) \in ConfigType /\ Put(c, l).peers = c.peers
  BY PutInterface
<1>. QED
  BY <1>1, <1>3, <1>4, <1>5, <1>6, KeepsPeers DEF Reads

LEMMA ReadPeerHeader ==
    ASSUME NEW t \in Seq(Line), NEW l \in Line, NEW sec, NEW c \in ConfigType,
           Reads(t, sec, c), l.key = "[peer]",
           NEW d, d = [c EXCEPT !.peers = Append(@, NoPeer)]
    PROVE  Reads(Append(t, l), "peer", d) /\ d \in ConfigType
<1>1. Clean(Append(t, l))
  BY CleanAppend DEF Reads, Keys, InterfaceKeys, PeerKeys
<1>2. "peer" = NameOf(SectionOf(Append(t, l), Len(Append(t, l))))
  <2>1. SectionOf(Append(t, l), Len(Append(t, l))) = "[peer]"
    BY SectionAfter DEF Headers
  <2>. QED
    BY <2>1 DEF NameOf
<1>3. /\ d \in ConfigType
      /\ d.privatekey = c.privatekey /\ d.address = c.address /\ d.mtu = c.mtu
      /\ Len(c.peers) \in Nat /\ Len(d.peers) = Len(c.peers) + 1
      /\ \A i \in 1..Len(c.peers) : d.peers[i] = c.peers[i]
      /\ d.peers[Len(c.peers) + 1] = NoPeer
  BY AddPeer
<1>4. ReadInterface(Append(t, l), d)
  BY <1>3, KeepsInterface DEF Reads
<1>5. Len(d.peers) = Cardinality(Peers(Append(t, l)))
  BY <1>3, PeerNoAppend DEF Reads
<1>6. ASSUME NEW h \in Peers(Append(t, l))
      PROVE  ReadPeer(Append(t, l), h, d.peers[PeerNo(Append(t, l), h)])
  <2>1. CASE h \in Peers(t)
    <3>1. PeerNo(Append(t, l), h) = PeerNo(t, h) /\ PeerNo(t, h) \in 1..Len(c.peers)
      BY <2>1, PeerNoAppend, PeerNoIs DEF Reads
    <3>2. c.peers[PeerNo(t, h)] \in PeerType
      BY <3>1 DEF ConfigType
    <3>3. ReadPeer(t, h, c.peers[PeerNo(t, h)])
      BY <2>1 DEF Reads
    <3>4. l.key \notin PeerKeys
      BY DEF PeerKeys
    <3>5. ReadPeer(Append(t, l), h, c.peers[PeerNo(t, h)])
      BY <3>2, <3>3, <3>4, KeepsPeer
    <3>. QED
      BY <1>3, <3>1, <3>5
  <2>2. CASE h \notin Peers(t)
    <3>1. h = Len(t) + 1
      BY <2>2, MembersAppend
    <3>2. PeerNo(Append(t, l), h) = Len(c.peers) + 1
      BY <3>1, PeerNoAppend DEF Reads
    <3>. QED
      BY <1>3, <3>1, <3>2, OpensPeer
  <2>. QED
    BY <2>1, <2>2
<1>. QED
  BY <1>1, <1>2, <1>3, <1>4, <1>5, <1>6 DEF Reads

LEMMA ReadPeerKey ==
    ASSUME NEW t \in Seq(Line), NEW l \in Line, NEW c \in ConfigType,
           Reads(t, "peer", c), l.key \in PeerKeys, l.val # ""
    PROVE  LET d == [c EXCEPT !.peers[Len(c.peers)] = Put(@, l)]
           IN  Reads(Append(t, l), "peer", d) /\ d \in ConfigType
<1>1. Clean(Append(t, l))
  BY CleanAppend DEF Reads, PeerKeys
<1>2. SectionOf(t, Len(t)) = "[peer]"
  BY SectionNow DEF Reads
<1>3. "peer" = NameOf(SectionOf(Append(t, l), Len(Append(t, l))))
  <2>1. SectionOf(Append(t, l), Len(Append(t, l))) = "[peer]"
    BY <1>2, SectionAfter DEF Headers, PeerKeys
  <2>. QED
    BY <2>1 DEF NameOf
<1>4. PICK N, g : N = Len(c.peers) /\ g = Under(t, Len(t))
  OBVIOUS
<1>5. /\ g \in Peers(t) /\ PeerNo(t, g) = N /\ N \in 1..N
      /\ \A h \in Peers(t) : h # g => PeerNo(t, h) # N
  <2>1. N = Cardinality(Peers(t))
    BY <1>4 DEF Reads
  <2>2. g \in Peers(t) /\ PeerNo(t, g) = N
    BY <1>2, <1>4, <2>1, LastPeer
  <2>3. \A h \in Peers(t) : h # g => PeerNo(t, h) # N
    BY <1>2, <1>4, <2>1, LastPeer
  <2>4. PeerNo(t, g) \in 1..N
    BY <2>1, <2>2, PeerNoIs
  <2>. QED
    BY <2>2, <2>3, <2>4
<1>6. PICK p : p = Put(c.peers[N], l)
  OBVIOUS
<1>7. c.peers[N] \in PeerType /\ p \in PeerType
  <2>1. N \in 1..Len(c.peers)
    BY <1>4, <1>5
  <2>2. c.peers[N] \in PeerType
    BY <2>1, PeerOfType
  <2>. QED
    BY <2>2, <1>6, PutPeer
<1>8. PICK d : d = Replaced(c, N, p)
  OBVIOUS
<1>9. d = [c EXCEPT !.peers[Len(c.peers)] = Put(@, l)]
  BY <1>4, <1>5, <1>6, <1>8 DEF ConfigType, Replaced
<1>10. /\ d \in ConfigType
       /\ d.privatekey = c.privatekey /\ d.address = c.address /\ d.mtu = c.mtu
       /\ Len(d.peers) = Len(c.peers)
       /\ d.peers[N] = p
       /\ \A i \in 1..Len(c.peers) : i # N => d.peers[i] = c.peers[i]
  <2>1. N \in 1..Len(c.peers)
    BY <1>4, <1>5
  <2>2. p \in PeerType
    BY <1>7
  <2>3. DiffersAt(c, Replaced(c, N, p), N, p)
    BY <2>1, <2>2, SetPeer
  <2>. QED
    BY <1>8, <2>3 DEF DiffersAt
<1>11. ReadInterface(Append(t, l), d)
  BY <1>10, KeepsInterface DEF Reads, PeerKeys
<1>12. Peers(Append(t, l)) = Peers(t)
  BY MembersAppend DEF PeerKeys
<1>13. Under(Append(t, l), Len(t) + 1) = g
  BY <1>4, UnderAppend DEF PeerKeys, Headers
<1>14. ASSUME NEW h \in Peers(t)
       PROVE  ReadPeer(Append(t, l), h, d.peers[PeerNo(Append(t, l), h)])
  <2>1. PeerNo(Append(t, l), h) = PeerNo(t, h)
    BY PeerNoAppend
  <2>2. PeerNo(t, h) \in 1..N
    BY <1>4, PeerNoIs DEF Reads
  <2>3. ReadPeer(t, h, c.peers[PeerNo(t, h)])
    BY DEF Reads
  <2>4. c.peers[PeerNo(t, h)] \in PeerType
    BY <1>4, <2>2, PeerOfType
  <2>5. CASE h = g
    <3>1. ReadPeer(t, Under(t, Len(t)), c.peers[N])
      BY <1>4, <1>5, <2>3, <2>5
    <3>2. ReadPeer(Append(t, l), Under(t, Len(t)), Put(c.peers[N], l))
      BY <1>7, <3>1, TakesPeer
    <3>. QED
      BY <1>4, <1>5, <1>6, <1>10, <2>1, <2>5, <3>2
  <2>6. CASE h # g
    <3>1. ReadPeer(Append(t, l), h, c.peers[PeerNo(t, h)])
      BY <1>13, <2>3, <2>4, <2>6, KeepsPeer
    <3>. QED
      BY <1>4, <1>5, <1>10, <2>1, <2>2, <2>6, <3>1
  <2>. QED
    BY <2>5, <2>6
<1>15. Len(d.peers) = Cardinality(Peers(Append(t, l)))
  BY <1>10, <1>12 DEF Reads
<1>16. Reads(Append(t, l), "peer", d)
  BY <1>1, <1>3, <1>11, <1>12, <1>14, <1>15 DEF Reads
<1>. QED
  BY <1>9, <1>10, <1>16
-----------------------------------------------------------------------------
(* The end of the text *)

\* What the file says of the peer under header h is complete and well formed.
GoodPeer(t, h) ==
    /\ Last1(t, InPeer(t, h), "publickey") = "good"
    /\ Says(t, InPeer(t, h), "allowedips", "good") /\ ~Says(t, InPeer(t, h), "allowedips", "bad")
    /\ Last1(t, InPeer(t, h), "presharedkey") # "bad"
    /\ Last1(t, InPeer(t, h), "persistentkeepalive") # "bad"

LEMMA ValidPeerIff ==
    ASSUME NEW t, NEW h, NEW p, ReadPeer(t, h, p)
    PROVE  validPeer(p) <=> GoodPeer(t, h)
  BY DEF ReadPeer, Lists1, validPeer, GoodPeer

\* validate decides as the file read as a whole.
LEMMA ValidateIff ==
    ASSUME NEW t \in Seq(Line), NEW sec, NEW c \in ConfigType, Reads(t, sec, c)
    PROVE  validate(c) <=> Meaningful(t)
<1> DEFINE I == InInterface(t)
<1>1. /\ c.privatekey = "good" <=> Last1(t, I, "privatekey") = "good"
      /\ c.address # << >> /\ AllGood(c.address)
           <=> Says(t, I, "address", "good") /\ ~Says(t, I, "address", "bad")
      /\ c.mtu # "bad" <=> Last1(t, I, "mtu") # "bad"
  BY DEF Reads, ReadInterface, Lists1
<1>2. c.peers # << >> <=> Peers(t) # {}
  <2>1. c.peers \in Seq(PeerType) /\ Len(c.peers) = Cardinality(Peers(t))
    BY DEF Reads, ConfigType
  <2>2. c.peers = << >> <=> Len(c.peers) = 0
    BY <2>1
  <2>3. Cardinality(Peers(t)) = 0 <=> Peers(t) = {}
    BY PeerNoIs, FS_EmptySet
  <2>. QED
    BY <2>1, <2>2, <2>3
<1>3. (\A i \in 1..Len(c.peers) : validPeer(c.peers[i])) <=> \A h \in Peers(t) : GoodPeer(t, h)
  <2>1. \A h \in Peers(t) : validPeer(c.peers[PeerNo(t, h)]) <=> GoodPeer(t, h)
    BY ValidPeerIff DEF Reads
  <2>2. Len(c.peers) = Cardinality(Peers(t))
    BY DEF Reads
  <2>3. \A h \in Peers(t) : PeerNo(t, h) \in 1..Len(c.peers)
    BY <2>2, PeerNoIs
  <2>4. \A i \in 1..Len(c.peers) : PeerAt(t, i) \in Peers(t) /\ PeerNo(t, PeerAt(t, i)) = i
    BY <2>2, PeerNoIs
  <2>. QED
    BY <2>1, <2>3, <2>4
<1> HIDE DEF I
<1>4. Meaningful(t) <=>
        /\ Last1(t, I, "privatekey") = "good"
        /\ Says(t, I, "address", "good") /\ ~Says(t, I, "address", "bad")
        /\ Last1(t, I, "mtu") # "bad"
        /\ Peers(t) # {}
        /\ \A h \in Peers(t) : GoodPeer(t, h)
  BY DEF Meaningful, GoodPeer, I
<1>. QED
  BY <1>1, <1>2, <1>3, <1>4 DEF validate

\* The endpoints read are the ones pasted.
LEMMA PastedRead ==
    ASSUME NEW t \in Seq(Line), NEW sec, NEW c \in ConfigType, Reads(t, sec, c)
    PROVE  Pasted(t) = [i \in 1..Len(c.peers) |-> c.peers[i].endpoint]
<1>1. Len(c.peers) = Cardinality(Peers(t))
  BY DEF Reads
<1>2. ASSUME NEW i \in 1..Len(c.peers)
      PROVE  Last1(t, InPeer(t, PeerAt(t, i)), "endpoint") = c.peers[i].endpoint
  <2>1. PeerAt(t, i) \in Peers(t) /\ PeerNo(t, PeerAt(t, i)) = i
    BY <1>1, PeerNoIs
  <2>2. ReadPeer(t, PeerAt(t, i), c.peers[i])
    BY <2>1 DEF Reads
  <2>. QED
    BY <2>2 DEF ReadPeer
<1>. QED
  BY <1>1, <1>2 DEF Pasted

-----------------------------------------------------------------------------
(* The invariant *)

LEMMA InitParse == Init => ParseInv
<1> SUFFICES ASSUME Init PROVE ParseInv
  OBVIOUS
<1>1. text = << >> /\ text \in Seq(Line) /\ Len(text) = 0
  <2>1. << >> \in Seq(Line) /\ Len(<< >>) = 0
    OBVIOUS
  <2>2. text = << >>
    BY DEF Init
  <2>. QED
    BY <2>1, <2>2
<1>2. VpnTypeOK
  <2>1. cfg \in ConfigType /\ uci \in ConfigType
    BY NoConfigType DEF Init
  <2>2. section = "" /\ next = 1 /\ st = "read"
    BY DEF Init
  <2>4. next \in Nat \ {0}
    <3>1. next = 1
      BY <2>2
    <3>2. 1 \in Nat \ {0}
      OBVIOUS
    <3>. QED
      BY <3>1, <3>2
  <2>3. text \in Seq(Line)
    BY <1>1
  <2>. QED
    BY <2>1, <2>2, <2>3, <2>4 DEF VpnTypeOK
<1>3. /\ HeadersOf(text) = {} /\ InInterface(text) = {} /\ Peers(text) = {}
      /\ Clean(text)
  BY <1>1 DEF HeadersOf, InInterface, Peers, Clean
<1>4. section = NameOf(SectionOf(text, Len(text)))
  <2>1. Under(text, 0) = 0
    <3>1. 0 \in 0..Len(text) /\ \A u \in 0..0 : u = 0
      BY <1>1
    <3>2. Under(text, 0) \in 0..0
      BY <1>1, <3>1, UnderIs
    <3>. QED
      BY <3>1, <3>2
  <2>. QED
    BY <1>1, <2>1 DEF SectionOf, NameOf, Init
<1>5. ReadInterface(text, cfg)
  <2>1. \A k : With(text, InInterface(text), k) = {}
    BY <1>3 DEF With
  <2>2. AllGood(<< >>)
    BY DEF AllGood
  <2>. QED
    BY <2>1, <2>2 DEF ReadInterface, Last1, Lists1, Says, Init, NoConfig
<1>6. Len(cfg.peers) = Cardinality(Peers(text))
  BY <1>3, FS_EmptySet DEF Init, NoConfig
<1>7. ReadInv
  BY <1>3, <1>4, <1>5, <1>6 DEF ReadInv, Reads
<1>8. ParsesAsMeant /\ PinInv
  BY <1>1 DEF Init, ParsesAsMeant, PinInv
<1>. QED
  BY <1>2, <1>7, <1>8 DEF ParseInv

\* An accepted line: what is left to show once section and cfg are in step.
LEMMA AcceptedLine ==
    ASSUME ParseInv, NEW l \in Line, ReadLine(l), st' = "read",
           ~Barred(Append(text, l), Len(text) + 1),
           Reads(Append(text, l), section', cfg'), cfg' \in ConfigType
    PROVE  ParseInv'
<1>1. text' = Append(text, l) /\ text \in Seq(Line) /\ UNCHANGED <<next, sum, uci, stored>>
  BY DEF ReadLine, ParseInv, VpnTypeOK
<1>2. text' \in Seq(Line) /\ Len(text') = Len(text) + 1
  BY <1>1, AppendLine
<1>3. section' \in {"", "interface", "peer"}
  BY <1>1, <1>2, SectionNow DEF Reads
<1>4. VpnTypeOK'
  BY <1>1, <1>2, <1>3 DEF ParseInv, VpnTypeOK
<1>5. ReadInv'
  BY <1>1 DEF ReadInv
<1>6. ParsesAsMeant'
  BY <1>1, <1>2 DEF ParsesAsMeant, Barred
<1>7. PinInv'
  BY DEF PinInv
<1>. QED
  BY <1>4, <1>5, <1>6, <1>7 DEF ParseInv

\* A refused one.
LEMMA RefusedLine ==
    ASSUME ParseInv, NEW l \in Line, ReadLine(l), Error,
           Barred(Append(text, l), Len(text) + 1)
    PROVE  ParseInv'
<1>1. /\ text' = Append(text, l) /\ text \in Seq(Line)
      /\ st' = "invalid" /\ UNCHANGED <<section, cfg, next, sum, uci, stored>>
  BY DEF ReadLine, Error, ParseInv, VpnTypeOK
<1>2. text' \in Seq(Line) /\ Len(text') = Len(text) + 1 /\ Len(text) \in Nat
  BY <1>1, AppendLine
<1>3. VpnTypeOK'
  BY <1>1, <1>2 DEF ParseInv, VpnTypeOK
<1>4. text' # << >>
  BY <1>2
<1>5. ParsesAsMeant'
  BY <1>1, <1>2, <1>4 DEF ParsesAsMeant, Barred
<1>6. ReadInv' /\ PinInv'
  BY <1>1 DEF ReadInv, PinInv
<1>. QED
  BY <1>3, <1>5, <1>6 DEF ParseInv
LEMMA ReadLineParse ==
    ASSUME ParseInv, NEW l \in Line, ReadLine(l)
    PROVE  ParseInv'
<1> DEFINE t2 == Append(text, l)
<1>1. text \in Seq(Line) /\ cfg \in ConfigType /\ st = "read" /\ Reads(text, section, cfg)
  BY DEF ParseInv, VpnTypeOK, ReadInv, ReadLine
<1>2. /\ section = "interface" <=> SectionOf(text, Len(text)) = "[interface]"
      /\ section = "peer" <=> SectionOf(text, Len(text)) = "[peer]"
  BY <1>1, SectionNow DEF Reads
<1>3. Barred(t2, Len(text) + 1) <=>
        \/ l.key \in {"[other]", "junk"} \cup HookKeys
        \/ l.key \in InterfaceKeys /\ (section # "interface" \/ l.val = "")
        \/ l.key \in PeerKeys /\ (section # "peer" \/ l.val = "")
        \/ l.key = "endpoint" /\ l.val = "bad"
        \/ l.key = "[interface]" /\ (cfg.privatekey # "" \/ cfg.address # << >>)
  <2>1. ReadInterface(text, cfg) /\ Clean(text)
    BY <1>1 DEF Reads
  <2>2. cfg.privatekey # "" \/ cfg.address # << >> <=>
          \E j \in InInterface(text) : /\ text[j].key \in {"privatekey", "address"}
                                       /\ text[j].val # "commas"
    BY <1>1, <2>1, InterfaceOpen
  <2>3. PICK again \in BOOLEAN : again <=>
          \E j \in InInterface(text) : /\ text[j].key \in {"privatekey", "address"}
                                       /\ text[j].val # "commas"
    OBVIOUS
  <2>4. Barred(t2, Len(text) + 1) <=>
          \/ l.key \in {"[other]", "junk"} \cup HookKeys
          \/ l.key \in InterfaceKeys /\ (SectionOf(text, Len(text)) # "[interface]" \/ l.val = "")
          \/ l.key \in PeerKeys /\ (SectionOf(text, Len(text)) # "[peer]" \/ l.val = "")
          \/ l.key = "endpoint" /\ l.val = "bad"
          \/ l.key = "[interface]" /\ again
    BY <1>1, <2>3, BarredNext
  <2>. QED
    BY <1>2, <2>2, <2>3, <2>4
<1> HIDE DEF t2
<1> USE DEF InterfaceKeys, PeerKeys, HookKeys
<1>4. CASE Skip(l)
  <2>1. l.key = "blank" /\ st' = "read" /\ UNCHANGED <<section, cfg>>
    BY <1>1, <1>4 DEF Skip, Accept
  <2>2. ~Barred(t2, Len(text) + 1)
    BY <1>3, <2>1
  <2>3. Reads(t2, section', cfg') /\ cfg' \in ConfigType
    BY <1>1, <2>1, ReadBlank DEF t2
  <2>. QED
    BY <2>1, <2>2, <2>3, AcceptedLine DEF t2
<1>5. CASE Interface(l)
  <2>1. l.key = "[interface]"
    BY <1>5 DEF Interface
  <2>2. CASE cfg.privatekey # "" \/ cfg.address # << >>
    <3>1. Error
      BY <1>5, <2>2 DEF Interface
    <3>2. Barred(t2, Len(text) + 1)
      BY <1>3, <2>1, <2>2
    <3>. QED
      BY <3>1, <3>2, RefusedLine DEF t2
  <2>3. CASE ~(cfg.privatekey # "" \/ cfg.address # << >>)
    <3>1. st' = "read" /\ section' = "interface" /\ cfg' = cfg
      BY <1>1, <1>5, <2>3 DEF Interface, Accept
    <3>2. ~Barred(t2, Len(text) + 1)
      BY <1>3, <2>1, <2>3
    <3>3. Reads(t2, section', cfg') /\ cfg' \in ConfigType
      BY <1>1, <2>1, <3>1, ReadInterfaceHeader DEF t2
    <3>. QED
      BY <3>1, <3>2, <3>3, AcceptedLine DEF t2
  <2>. QED
    BY <2>2, <2>3
<1>6. CASE PeerHeader(l)
  <2>1. l.key = "[peer]" /\ st' = "read" /\ section' = "peer"
    BY <1>1, <1>6 DEF PeerHeader, Accept
  <2>2. cfg' = [cfg EXCEPT !.peers = Append(@, NoPeer)]
    BY <1>6 DEF PeerHeader
  <2>3. ~Barred(t2, Len(text) + 1)
    BY <1>3, <2>1
  <2>4. Reads(t2, section', cfg') /\ cfg' \in ConfigType
    BY <1>1, <2>1, <2>2, ReadPeerHeader DEF t2
  <2>. QED
    BY <2>1, <2>3, <2>4, AcceptedLine DEF t2
<1>7. CASE InterfaceKey(l)
  <2>1. /\ section = "interface" /\ l.key \in InterfaceKeys /\ l.val # ""
        /\ st' = "read" /\ section' = section /\ cfg' = Put(cfg, l)
    BY <1>1, <1>7 DEF InterfaceKey, Accept
  <2>2. ~Barred(t2, Len(text) + 1)
    BY <1>3, <2>1
  <2>3. Reads(t2, section', cfg') /\ cfg' \in ConfigType
    BY <1>1, <2>1, ReadInterfaceKey DEF t2
  <2>. QED
    BY <2>1, <2>2, <2>3, AcceptedLine DEF t2
<1>8. CASE PeerKey(l)
  <2>1. /\ section = "peer" /\ l.key \in PeerKeys /\ l.val # ""
        /\ ~(l.key = "endpoint" /\ l.val = "bad")
        /\ st' = "read" /\ section' = section
    BY <1>1, <1>8 DEF PeerKey, Accept
  <2>2. cfg' = [cfg EXCEPT !.peers[Len(cfg.peers)] = Put(@, l)]
    BY <1>8 DEF PeerKey
  <2>3. ~Barred(t2, Len(text) + 1)
    BY <1>3, <2>1
  <2>4. Reads(t2, section', cfg') /\ cfg' \in ConfigType
    BY <1>1, <2>1, <2>2, ReadPeerKey DEF t2
  <2>. QED
    BY <2>1, <2>3, <2>4, AcceptedLine DEF t2
<1>9. CASE Refused(l)
  <2>1. Error
    BY <1>9 DEF Refused
  <2>2. l.key \in Keys \cup HookKeys \cup Headers \cup {"junk", "blank"}
    BY LineType
  <2>3. l.key \in Keys \cup HookKeys \cup {"[other]", "junk"}
    BY <1>9, <2>2 DEF Refused, Keys, Headers
  <2>4. \/ l.key \in {"[other]", "junk"} \cup HookKeys
        \/ l.val = ""
        \/ section # (IF l.key \in InterfaceKeys THEN "interface" ELSE "peer")
        \/ l.key = "endpoint" /\ l.val = "bad"
    BY <1>9 DEF Refused
  <2>5. Barred(t2, Len(text) + 1)
    BY <1>3, <2>3, <2>4 DEF Keys
  <2>. QED
    BY <2>1, <2>5, RefusedLine DEF t2
<1>. QED
  BY <1>4, <1>5, <1>6, <1>7, <1>8, <1>9 DEF ReadLine

LEMMA EndOfTextParse ==
    ASSUME ParseInv, EndOfText
    PROVE  ParseInv'
<1>1. /\ text \in Seq(Line) /\ cfg \in ConfigType /\ st = "read" /\ Reads(text, section, cfg)
      /\ UNCHANGED <<text, section, cfg, next, uci, stored>>
  BY DEF ParseInv, VpnTypeOK, ReadInv, EndOfText, request
<1>2. validate(cfg) <=> Meaningful(text)
  BY <1>1, ValidateIff
<1>3. st' \in {"pin", "rejected"} /\ (st' = "pin" <=> validate(cfg))
  BY DEF EndOfText
<1>4. VpnTypeOK' /\ ReadInv'
  BY <1>1, <1>3 DEF ParseInv, VpnTypeOK, ReadInv
<1>5. ParsesAsMeant'
  BY <1>1, <1>2, <1>3 DEF ParseInv, ParsesAsMeant
<1>6. PinInv'
  <2>1. Pasted(text) = [i \in 1..Len(cfg.peers) |-> cfg.peers[i].endpoint]
    BY <1>1, PastedRead
  <2>2. Pinned(cfg)
    BY <1>1, <2>1 DEF Pinned, Reads
  <2>3. st' = "pin" => sum'.endpoints = Named(Pasted(text))
    BY <2>1, <1>3 DEF EndOfText, Summary
  <2>. QED
    BY <1>1, <1>3, <2>2, <2>3 DEF PinInv, Pinned
<1>. QED
  BY <1>4, <1>5, <1>6 DEF ParseInv
LEMMA PinEndpointParse ==
    ASSUME ParseInv, PinEndpoint
    PROVE  ParseInv'
<1>1. /\ st = "pin" /\ next \in 1..Len(cfg.peers) /\ next' = next + 1
      /\ UNCHANGED <<text, section, st, sum, uci, stored>>
      /\ cfg \in ConfigType
  <2>1. /\ st = "pin" /\ next <= Len(cfg.peers) /\ next' = next + 1
        /\ UNCHANGED <<text, section, st, sum, uci, stored>>
    BY DEF PinEndpoint
  <2>2. cfg \in ConfigType /\ next \in Nat \ {0}
    BY DEF ParseInv, VpnTypeOK
  <2>3. Len(cfg.peers) \in Nat
    BY <2>2 DEF ConfigType
  <2>4. next \in 1..Len(cfg.peers)
    BY <2>1, <2>2, <2>3
  <2>. QED
    BY <2>1, <2>2, <2>4
<1>2. Pinned(cfg)
  BY <1>1 DEF ParseInv, PinInv
<1>3. cfg' \in ConfigType /\ Pinned(cfg)'
  <2>1. CASE cfg' = cfg
    BY <1>1, <1>2, <2>1 DEF Pinned
  <2>2. CASE /\ cfg.peers[next].endpoint = "host"
             /\ cfg' = [cfg EXCEPT !.peers[next].endpoint = "ip"]
    <3>1. PICK p : p = [cfg.peers[next] EXCEPT !.endpoint = "ip"]
      OBVIOUS
    <3>2. cfg.peers[next] \in PeerType
      BY <1>1, PeerOfType
    <3>3. p \in PeerType /\ p.endpoint = "ip"
      BY <3>1, <3>2 DEF PeerType, Vals
    <3>4. cfg' = Replaced(cfg, next, p)
      BY <2>2, <3>1 DEF Replaced
    <3>5. /\ cfg' \in ConfigType
          /\ Len(cfg'.peers) = Len(cfg.peers)
          /\ cfg'.peers[next] = p
          /\ \A i \in 1..Len(cfg.peers) : i # next => cfg'.peers[i] = cfg.peers[i]
      <4>1. DiffersAt(cfg, Replaced(cfg, next, p), next, p)
        BY <1>1, <3>3, SetPeer
      <4>. QED
        BY <3>4, <4>1 DEF DiffersAt
    <3>6. Pasted(text)[next] = "host"
      BY <1>1, <1>2, <2>2 DEF Pinned
    <3>. QED
      BY <1>1, <1>2, <3>3, <3>5, <3>6 DEF Pinned
  <2>. QED
    BY <2>1, <2>2 DEF PinEndpoint
<1>4. VpnTypeOK' /\ ReadInv'
  <2>1. next' \in Nat \ {0}
    BY <1>1
  <2>2. VpnTypeOK'
    BY <1>1, <1>3, <2>1 DEF ParseInv, VpnTypeOK
  <2>. QED
    BY <1>1, <2>2 DEF ReadInv
<1>5. ParsesAsMeant'
  BY <1>1 DEF ParseInv, ParsesAsMeant
<1>6. PinInv'
  BY <1>1, <1>3 DEF ParseInv, PinInv
<1>. QED
  BY <1>4, <1>5, <1>6 DEF ParseInv

LEMMA NextParse == ParseInv /\ [Next]_vars => ParseInv'
<1> SUFFICES ASSUME ParseInv, [Next]_vars PROVE ParseInv'
  OBVIOUS
<1>1. ASSUME NEW l \in Line, ReadLine(l) PROVE ParseInv'
  BY <1>1, ReadLineParse
<1>2. CASE EndOfText
  BY <1>2, EndOfTextParse
<1>3. CASE PinEndpoint
  BY <1>3, PinEndpointParse
<1>4. CASE ImportConfig
  <2>1. /\ st = "pin" /\ UNCHANGED <<text, section, cfg, next, sum, stored>>
        /\ \/ st' = "import" /\ uci' = cfg
           \/ st' = "failed" /\ uci' = uci
    BY <1>4 DEF ImportConfig, request
  <2>2. VpnTypeOK' /\ ReadInv'
    BY <2>1 DEF ParseInv, VpnTypeOK, ReadInv
  <2>3. ParsesAsMeant'
    BY <2>1 DEF ParseInv, ParsesAsMeant
  <2>4. PinInv'
    BY <2>1 DEF ParseInv, PinInv, Pinned
  <2>. QED
    BY <2>2, <2>3, <2>4 DEF ParseInv
<1>5. CASE StoreSummary
  <2>1. /\ st = "import" /\ UNCHANGED <<text, section, cfg, next, sum, uci>>
        /\ \/ st' = "done" /\ stored' = sum
           \/ st' = "failed" /\ stored' = stored
    BY <1>5 DEF StoreSummary, request
  <2>2. VpnTypeOK' /\ ReadInv'
    BY <2>1 DEF ParseInv, VpnTypeOK, ReadInv
  <2>3. ParsesAsMeant'
    BY <2>1 DEF ParseInv, ParsesAsMeant
  <2>4. PinInv'
    BY <2>1 DEF ParseInv, PinInv, Pinned
  <2>. QED
    BY <2>2, <2>3, <2>4 DEF ParseInv
<1>6. CASE UNCHANGED vars
  <2>1. UNCHANGED <<text, section, cfg, st, next, sum, uci, stored>>
    BY <1>6 DEF vars
  <2>2. VpnTypeOK' /\ ReadInv'
    BY <2>1 DEF ParseInv, VpnTypeOK, ReadInv
  <2>3. ParsesAsMeant'
    BY <2>1 DEF ParseInv, ParsesAsMeant
  <2>4. PinInv'
    BY <2>1 DEF ParseInv, PinInv, Pinned
  <2>. QED
    BY <2>2, <2>3, <2>4 DEF ParseInv
<1>. QED
  BY <1>1, <1>2, <1>3, <1>4, <1>5, <1>6 DEF Next, Ended

LEMMA SpecParse == Spec => []ParseInv
  BY InitParse, NextParse, PTL DEF Spec

\* A file is refused at the first line that is out of place, repeated
\* [Interface] headers with neither key nor address before them aside, and taken
\* if and only if every section is complete and well formed: ParseConfig, with
\* a section name, a peer pointer and the fields so far, decides for a file of
\* any length as if it had the whole text before it.
THEOREM ParserDecidesAsMeant == Spec => []ParsesAsMeant
<1>1. ParseInv => ParsesAsMeant
  BY DEF ParseInv
<1>. QED
  BY <1>1, SpecParse, PTL

\* However many peers a file has and whichever lookups fail, pinEndpoints
\* changes nothing but host names, each into an address of its own peer, and
\* the summary that is stored names what was pasted.
THEOREM ImportPinsOnlyHosts == Spec => []PinsOnlyHosts
<1>1. ParseInv => PinsOnlyHosts
  <2> SUFFICES ASSUME ParseInv PROVE PinsOnlyHosts
    OBVIOUS
  <2>1. Cardinality(Peers(text)) \in Nat
    BY PeerNoIs DEF ParseInv, VpnTypeOK
  <2>2. Len(Pasted(text)) = Cardinality(Peers(text))
    BY <2>1 DEF Pasted
  <2>3. ASSUME st \in {"import", "done"}
        PROVE  /\ Len(uci.peers) = Len(Pasted(text))
               /\ \A i \in 1..Len(Pasted(text)) :
                    uci.peers[i].endpoint # Pasted(text)[i]
                      => Pasted(text)[i] = "host" /\ uci.peers[i].endpoint = "ip"
    BY <2>2, <2>3 DEF ParseInv, PinInv, Pinned
  <2>. QED
    BY <2>3 DEF ParseInv, PinInv, PinsOnlyHosts
<1>. QED
  BY <1>1, SpecParse, PTL
=============================================================================
