----------------------------- MODULE WifiProofs -----------------------------
(***************************************************************************)
(* The list of networks catches up too, for every value of the bounds      *)
(* (WP!WifiInv), however scans, answers, signals and restarts of the       *)
(* service cross; and with it all that LabelsSettle says of the shells.    *)
(***************************************************************************)
EXTENDS LabelProofs

-----------------------------------------------------------------------------
(* The networks.                                                           *)

\* A member of T in a sequence, and each member of B followed by one of T.
Some(q, T) == \E i \in 1 .. Len(q) : q[i] \in T
Fol(q, B, T) == \A i \in 1 .. Len(q) : q[i] \in B => \E j \in 1 .. Len(q) : j > i /\ q[j] \in T
Count(q, S) == Cardinality(Marks(q, S))

\* In a sequence with one more.
LEMMA SomeMore ==
    ASSUME NEW S, NEW q \in Seq(S), NEW x \in S
    PROVE  /\ Append(q, x) \in Seq(S)
           /\ \A T : Some(Append(q, x), T) <=> Some(q, T) \/ x \in T
           /\ \A B, T : x \notin B /\ (x \in T \/ Fol(q, B, T)) => Fol(Append(q, x), B, T)
           /\ \A T : Count(Append(q, x), T) = Count(q, T) + (IF x \in T THEN 1 ELSE 0)
           /\ \A T : Count(q, T) \in Nat /\ Count(Append(q, x), T) \in Nat
  <1> DEFINE r == Append(q, x)
  <1>1. /\ Len(q) \in Nat /\ Len(r) = Len(q) + 1 /\ r \in Seq(S) /\ r[Len(q) + 1] = x /\ Len(q) + 1 \in 1 .. Len(r)
        /\ \A i \in 1 .. Len(q) : r[i] = q[i] /\ i \in 1 .. Len(r) /\ i < Len(q) + 1
        /\ \A i \in 1 .. Len(r) : i \in 1 .. Len(q) \/ i = Len(q) + 1
    OBVIOUS
  <1>2. \A T : Count(r, T) = Count(q, T) + (IF x \in T THEN 1 ELSE 0)
    BY MarksAppend DEF Count
  <1>3. \A T : Count(q, T) \in Nat /\ Count(r, T) \in Nat
    BY <1>1, MarksFinite DEF Count
  <1> HIDE DEF r
  <1>4. \A T : Some(r, T) <=> Some(q, T) \/ x \in T
    BY <1>1 DEF Some
  <1>5. ASSUME NEW B, NEW T, x \notin B, x \in T \/ Fol(q, B, T)
        PROVE  Fol(r, B, T)
    <2> SUFFICES ASSUME NEW i \in 1 .. Len(r), r[i] \in B PROVE \E j \in 1 .. Len(r) : j > i /\ r[j] \in T
      BY DEF Fol
    <2>1. i \in 1 .. Len(q) /\ q[i] \in B
      BY <1>1, <1>5
    <2>2. CASE x \in T
      BY <1>1, <2>1, <2>2
    <2>3. CASE Fol(q, B, T)
      BY <1>1, <2>1, <2>3 DEF Fol
    <2> QED
      BY <1>5, <2>2, <2>3
  <1> QED
    BY <1>1, <1>2, <1>3, <1>4, <1>5 DEF r

\* In one with its first less.
LEMMA SomeLess ==
    ASSUME NEW S, NEW q \in Seq(S), q # <<>>
    PROVE  /\ Tail(q) \in Seq(S) /\ Head(q) \in S /\ q[1] = Head(q) /\ 1 \in 1 .. Len(q)
           /\ \A T : Some(q, T) <=> Head(q) \in T \/ Some(Tail(q), T)
           /\ \A B, T : Fol(q, B, T) => Fol(Tail(q), B, T) /\ (Head(q) \in B => Some(Tail(q), T))
           /\ \A T : Count(q, T) = Count(Tail(q), T) + (IF Head(q) \in T THEN 1 ELSE 0)
           /\ \A T : Count(q, T) \in Nat /\ Count(Tail(q), T) \in Nat
  <1> DEFINE r == Tail(q)
  <1>1. /\ Len(q) \in Nat \ {0} /\ Len(r) = Len(q) - 1 /\ r \in Seq(S) /\ Head(q) = q[1] /\ 1 \in 1 .. Len(q)
        /\ Head(q) \in S
        /\ \A i \in 1 .. Len(r) : r[i] = q[i + 1] /\ i + 1 \in 1 .. Len(q)
        /\ \A i \in 1 .. Len(q) : i = 1 \/ (i - 1 \in 1 .. Len(r) /\ r[i - 1] = q[i])
    OBVIOUS
  <1>2. \A T : Count(q, T) = Count(r, T) + (IF Head(q) \in T THEN 1 ELSE 0)
    BY MarksTail DEF Count
  <1>3. \A T : Count(q, T) \in Nat /\ Count(r, T) \in Nat
    BY <1>1, MarksFinite DEF Count
  <1> HIDE DEF r
  <1>4. \A T : Some(q, T) <=> Head(q) \in T \/ Some(r, T)
    <2> TAKE T
    <2>1. ASSUME NEW i \in 1 .. Len(q), q[i] \in T PROVE Head(q) \in T \/ Some(r, T)
      BY <1>1, <2>1 DEF Some
    <2>2. ASSUME NEW i \in 1 .. Len(r), r[i] \in T PROVE Some(q, T)
      BY <1>1, <2>2 DEF Some
    <2>3. Head(q) \in T => Some(q, T)
      BY <1>1 DEF Some
    <2> QED
      BY <2>1, <2>2, <2>3 DEF Some
  <1>5. ASSUME NEW B, NEW T, Fol(q, B, T)
        PROVE  Fol(r, B, T) /\ (Head(q) \in B => Some(r, T))
    <2>1. ASSUME NEW i \in 1 .. Len(r), r[i] \in B PROVE \E j \in 1 .. Len(r) : j > i /\ r[j] \in T
      <3>1. PICK j \in 1 .. Len(q) : j > i + 1 /\ q[j] \in T
        BY <1>1, <1>5, <2>1 DEF Fol
      <3>2. j - 1 \in 1 .. Len(r) /\ r[j - 1] = q[j] /\ j - 1 > i
        BY <1>1, <3>1
      <3> QED
        BY <3>1, <3>2
    <2>2. ASSUME Head(q) \in B PROVE Some(r, T)
      <3>1. PICK j \in 1 .. Len(q) : j > 1 /\ q[j] \in T
        BY <1>1, <1>5, <2>2 DEF Fol
      <3>2. j - 1 \in 1 .. Len(r) /\ r[j - 1] = q[j]
        BY <1>1, <3>1
      <3> QED
        BY <3>1, <3>2 DEF Some
    <2> QED
      BY <2>1, <2>2 DEF Fol
  <1> QED
    BY <1>1, <1>2, <1>3, <1>4, <1>5 DEF r

\* In two, one after the other.
LEMMA SomeBoth ==
    ASSUME NEW S, NEW p \in Seq(S), NEW q \in Seq(S)
    PROVE  /\ p \o q \in Seq(S)
           /\ \A T : Some(p \o q, T) <=> Some(p, T) \/ Some(q, T)
           /\ \A B, T : Fol(q, B, T) /\ (Some(q, T) \/ Fol(p, B, T)) => Fol(p \o q, B, T)
           /\ \A T : Count(p \o q, T) = Count(p, T) + Count(q, T)
           /\ \A T : Count(p, T) \in Nat /\ Count(q, T) \in Nat
  <1> DEFINE r == p \o q
             n == Len(p)
  <1>1. /\ Len(p) = n /\ n \in Nat /\ Len(q) \in Nat /\ Len(r) = n + Len(q) /\ r \in Seq(S)
        /\ \A i \in 1 .. Len(p) : r[i] = p[i] /\ i \in 1 .. Len(r)
        /\ \A i \in 1 .. Len(q) : r[i + n] = q[i] /\ i + n \in 1 .. Len(r) /\ \A k \in 1 .. n : i + n > k
        /\ \A i \in 1 .. Len(r) : i \in 1 .. n \/ (i - n \in 1 .. Len(q) /\ r[i] = q[i - n])
    OBVIOUS
  <1>2. \A T : Count(r, T) = Count(p, T) + Count(q, T)
    BY MarksConcat DEF Count
  <1>3. \A T : Count(p, T) \in Nat /\ Count(q, T) \in Nat
    BY <1>1, MarksFinite DEF Count
  <1> HIDE DEF r, n
  <1>4. \A T : Some(r, T) <=> Some(p, T) \/ Some(q, T)
    <2> TAKE T
    <2>1. ASSUME NEW i \in 1 .. Len(r), r[i] \in T PROVE Some(p, T) \/ Some(q, T)
      BY <1>1, <2>1 DEF Some
    <2>2. ASSUME NEW i \in 1 .. Len(p), p[i] \in T PROVE Some(r, T)
      BY <1>1, <2>2 DEF Some
    <2>3. ASSUME NEW i \in 1 .. Len(q), q[i] \in T PROVE Some(r, T)
      BY <1>1, <2>3 DEF Some
    <2> QED
      BY <2>1, <2>2, <2>3 DEF Some
  <1>5. ASSUME NEW B, NEW T, Fol(q, B, T), Some(q, T) \/ Fol(p, B, T)
        PROVE  Fol(r, B, T)
    <2> SUFFICES ASSUME NEW i \in 1 .. Len(r), r[i] \in B PROVE \E j \in 1 .. Len(r) : j > i /\ r[j] \in T
      BY DEF Fol
    <2>1. CASE i \in 1 .. n
      <3>1. p[i] \in B
        BY <1>1, <2>1
      <3>2. CASE Some(q, T)
        <4>1. PICK j \in 1 .. Len(q) : q[j] \in T
          BY <3>2 DEF Some
        <4> QED
          BY <1>1, <2>1, <4>1
      <3>3. CASE Fol(p, B, T)
        <4>1. PICK j \in 1 .. Len(p) : j > i /\ p[j] \in T
          BY <1>1, <2>1, <3>1, <3>3 DEF Fol
        <4> QED
          BY <1>1, <4>1
      <3> QED
        BY <1>5, <3>2, <3>3
    <2>2. CASE i - n \in 1 .. Len(q) /\ r[i] = q[i - n]
      <3>1. PICK j \in 1 .. Len(q) : j > i - n /\ q[j] \in T
        BY <1>5, <2>2 DEF Fol
      <3>2. j + n > i
        BY <1>1, <3>1
      <3> QED
        BY <1>1, <3>1, <3>2
    <2> QED
      BY <1>1, <2>1, <2>2
  <1> QED
    BY <1>1, <1>2, <1>3, <1>4, <1>5 DEF r

\* The messages, and sets of calls and of messages.
Msgs == WP!Signals \cup WP!Replies
CallsFor(kinds) == {c \in WP!Call : c.kind \in kinds}
RepliesTo(kinds) == {m \in WP!Replies : m.call.kind \in kinds}
OwnerMsgs == {x \in Msgs : x.type = "owner"}
RadioMsgs == {x \in Msgs : x.type \in {"owner", "property"}}
ReadMsgs == {x \in Msgs : x.type \in {"changed", "property", "gone", "owner"}}
OldOwners(sv) == {x \in OwnerMsgs : x.life # sv}
OldRadios(r) == {x \in RadioMsgs : x.wifi # r}
TrueAnswers(o, sv, cur) == {x \in WP!Replies :
    /\ x.call.kind = "list"
    /\ \/ x.call.owner # o \/ x.result = "timeout"
       \/ x.result = "error" /\ sv = 0
       \/ x.result = "ok" /\ x.found = cur}
FalseClaims(p, s) == {x \in Msgs : WP!Claim(x, p) /\ WP!Claimed(x) # s}
Truths(p, s) == {x \in Msgs : \/ x.type = "owner"
                              \/ x.type \in {"state", "gone"} /\ WP!Claim(x, p) /\ WP!Claimed(x) = s}

\* The proxy's own call is the first.
Due(c) == c # <<>> /\ c[1].kind = "proxy"
ProxyFirst(c, sv) == \A i \in 1 .. Len(c) : c[i].kind = "proxy" => i = 1 /\ sv # 0

\* What is told of the owner and of the radio, of given values.
OwnerTold(m, due, o, sv) ==
    /\ o # sv => due \/ Some(m, OwnerMsgs)
    /\ due \/ Fol(m, OldOwners(sv), OwnerMsgs)
RadioTold(m, due, w, r) ==
    /\ ~(w <=> r) => due \/ Some(m, RadioMsgs)
    /\ due \/ Fol(m, OldRadios(r), RadioMsgs)

\* What will be read, listed and shown.
Reads(sc, ld, ag, c, m) == sc \/ (ld /\ ag) \/ Due(c) \/ Some(m, ReadMsgs)
ListDue(sc, ld, ag, c, m, o, sv, cur, st, found) ==
    \/ Reads(sc, ld, ag, c, m)
    \/ Some(c, CallsFor({"list"}))
    \/ Some(m, TrueAnswers(o, sv, cur))
    \/ ~ld /\ (st \/ found = cur)
ButtonsRight(us, rem, cnt, dv, ls, so, lo) ==
    /\ so <=> us /\ rem = 0 /\ dv # {}
    /\ ls # {} => (lo <=> us /\ ~cnt)
Follow(m, cn) == \A p \in WP!Paths : Fol(m, FalseClaims(p, cn[p]), Truths(p, cn[p]))
Progressed(m, cn, w, pg) == w # 0 => pg \in {cn[w], "unreadable"} \/ Some(m, Truths(w, cn[w]))
One(b) == IF b THEN 1 ELSE 0

\* The bounds and names.
LEMMA WifiNames ==
    /\ IsFiniteSet(Adapters) /\ NoArgument \notin Networks \cup Adapters
    /\ MaxService \in Nat \ {0} /\ MaxPaths \in Nat /\ MaxActs \in Nat
  BY ShellAssumption DEF WP!WifiAssumption, WP!IsFiniteSet, IsFiniteSet

\* What a call is.
LEMMA CallFields ==
    ASSUME NEW c \in WP!Call
    PROVE  /\ c.kind \in {"proxy", "list", "scan", "activate", "add", "status"}
           /\ c.owner \in 0 .. MaxService
           /\ c.kind = "list" => c \in WP!CallOf({"list"}, {NoArgument})
           /\ c.kind = "scan" => c \in WP!CallOf({"scan"}, Adapters)
           /\ c.kind \in {"activate", "add"} => c \in WP!CallOf({"activate", "add"}, Networks) /\ c.arg \in Networks
           /\ c.kind = "status" => c \in WP!CallOf({"status"}, WP!Paths) /\ c.arg \in WP!Paths
           /\ c.kind # "proxy" <=> c \in WP!Asked
  BY DEF WP!Call, WP!Asked, WP!CallOf

\* What a message is.
LEMMA WifiMessages ==
    ASSUME NEW x \in Msgs
    PROVE  /\ x.type \in {"changed", "property", "owner", "state", "gone", "reply"}
           /\ x.type \in {"property", "owner"} => x.wifi \in BOOLEAN
           /\ x.type = "owner" => x.life \in 0 .. MaxService
           /\ x.type \in {"state", "gone"} => x.path \in WP!Paths
           /\ x.type = "state" => x.state \in WP!States \cup {"ended"}
           /\ x.type = "reply" <=> x \in WP!Replies
  BY DEF Msgs, WP!Signals, WP!Replies

\* What a reply is.
LEMMA ReplyFields ==
    ASSUME NEW x \in WP!Replies
    PROVE  /\ x \in Msgs /\ x.type = "reply"
           /\ x.call \in WP!Asked /\ x.call \in WP!Call /\ x.call.kind # "proxy"
           /\ x.result \in {"ok", "error", "timeout"}
           /\ x.result = "ok" /\ x.call.kind = "list" =>
                x.found \in [adapters : SUBSET Adapters, networks : SUBSET Networks]
           /\ x.result = "ok" /\ x.call.kind \in {"activate", "add"} => x.path \in WP!Paths
           /\ x.result = "ok" /\ x.call.kind = "status" => x.state \in WP!States
  <1>1. x \in Msgs
    BY DEF Msgs
  <1>2. /\ x.type = "reply" /\ x.call \in WP!Asked
        /\ x.result \in {"ok", "error", "timeout"}
        /\ x.result = "ok" /\ x.call.kind = "list" =>
                x.found \in [adapters : SUBSET Adapters, networks : SUBSET Networks]
        /\ x.result = "ok" /\ x.call.kind \in {"activate", "add"} => x.path \in WP!Paths
        /\ x.result = "ok" /\ x.call.kind = "status" => x.state \in WP!States
    BY DEF WP!Replies, WP!Asked, WP!CallOf
  <1>3. x.call \in WP!Call
    BY <1>2 DEF WP!Call
  <1> QED
    BY <1>1, <1>2, <1>3, CallFields

\* The messages that are made.
LEMMA MessagesMade ==
    /\ WP!Changed \in Msgs /\ WP!Changed.type = "changed"
    /\ \A b \in BOOLEAN : WP!Property(b) \in Msgs /\ WP!Property(b).type = "property" /\ WP!Property(b).wifi = b
    /\ \A l \in 0 .. MaxService, b \in BOOLEAN : WP!Owner(l, b) \in Msgs
    /\ \A l, b : WP!Owner(l, b).type = "owner" /\ WP!Owner(l, b).life = l /\ WP!Owner(l, b).wifi = b
    /\ \A p \in WP!Paths, s \in WP!States \cup {"ended"} : WP!State(p, s) \in Msgs
    /\ \A p, s : WP!State(p, s).type = "state" /\ WP!State(p, s).path = p /\ WP!State(p, s).state = s
    /\ \A p \in WP!Paths : WP!Gone(p) \in Msgs
    /\ \A p : WP!Gone(p).type = "gone" /\ WP!Gone(p).path = p
  BY DEF Msgs, WP!Signals, WP!Changed, WP!Property, WP!Owner, WP!State, WP!Gone

\* The replies that are made.
LEMMA RepliesMade ==
    ASSUME NEW c \in WP!Asked
    PROVE  /\ \A r \in {"error", "timeout"} : WP!Reply(c, r) \in WP!Replies
           /\ c.kind = "scan" => WP!Reply(c, "ok") \in WP!Replies
           /\ \A r : WP!Reply(c, r).call = c /\ WP!Reply(c, r).result = r /\ WP!Reply(c, r).type = "reply"
           /\ c.kind = "list" => \A f \in [adapters : SUBSET Adapters, networks : SUBSET Networks] :
                WP!ListFound(c, f) \in WP!Replies
           /\ \A f : WP!ListFound(c, f).call = c /\ WP!ListFound(c, f).result = "ok" /\ WP!ListFound(c, f).found = f
           /\ c.kind \in {"activate", "add"} => \A p \in WP!Paths : WP!Begun(c, p) \in WP!Replies
           /\ \A p : WP!Begun(c, p).call = c /\ WP!Begun(c, p).result = "ok" /\ WP!Begun(c, p).path = p
           /\ c.kind = "status" => \A s \in WP!States : WP!Status(c, s) \in WP!Replies
           /\ \A s : WP!Status(c, s).call = c /\ WP!Status(c, s).result = "ok" /\ WP!Status(c, s).state = s
  <1>1. /\ c.kind = "list" => c \in WP!CallOf({"list"}, {NoArgument})
        /\ c.kind = "scan" => c \in WP!CallOf({"scan"}, Adapters)
        /\ c.kind \in {"activate", "add"} => c \in WP!CallOf({"activate", "add"}, Networks)
        /\ c.kind = "status" => c \in WP!CallOf({"status"}, WP!Paths)
    BY CallFields DEF WP!Call
  <1>2. /\ \A r \in {"error", "timeout"} : WP!Reply(c, r) \in WP!Replies
        /\ c.kind = "scan" => WP!Reply(c, "ok") \in WP!Replies
        /\ \A r : WP!Reply(c, r).call = c /\ WP!Reply(c, r).result = r /\ WP!Reply(c, r).type = "reply"
    BY <1>1 DEF WP!Reply, WP!Replies
  <1>3. /\ c.kind = "list" => \A f \in [adapters : SUBSET Adapters, networks : SUBSET Networks] :
                WP!ListFound(c, f) \in WP!Replies
        /\ \A f : WP!ListFound(c, f).call = c /\ WP!ListFound(c, f).result = "ok" /\ WP!ListFound(c, f).found = f
    BY <1>1 DEF WP!ListFound, WP!Replies
  <1>4. /\ c.kind \in {"activate", "add"} => \A p \in WP!Paths : WP!Begun(c, p) \in WP!Replies
        /\ \A p : WP!Begun(c, p).call = c /\ WP!Begun(c, p).result = "ok" /\ WP!Begun(c, p).path = p
    BY <1>1 DEF WP!Begun, WP!Replies
  <1>5. /\ c.kind = "status" => \A s \in WP!States : WP!Status(c, s) \in WP!Replies
        /\ \A s : WP!Status(c, s).call = c /\ WP!Status(c, s).result = "ok" /\ WP!Status(c, s).state = s
    BY <1>1 DEF WP!Status, WP!Replies
  <1> QED
    BY <1>2, <1>3, <1>4, <1>5

\* What the variables are.
LEMMA WifiTyped ==
    ASSUME WP!WifiTypeOK
    PROVE  /\ networkManager \in 0 .. MaxService /\ lives \in 0 .. MaxService
           /\ adapters \subseteq Adapters /\ air \subseteq Networks
           /\ radio \in BOOLEAN /\ wifi \in BOOLEAN /\ wifiMapped \in BOOLEAN /\ loading \in BOOLEAN
           /\ loadAgain \in BOOLEAN /\ scheduled \in BOOLEAN /\ listOn \in BOOLEAN /\ scanOn \in BOOLEAN
           /\ connecting \in BOOLEAN /\ stale \in BOOLEAN
           /\ conns \in [WP!Paths -> WP!States \cup {"none", "ended"}]
           /\ wifiCalls \in Seq(WP!Call) /\ wifiMail \in Seq(Msgs)
           /\ nameOwner \in 0 .. MaxService
           /\ devices \subseteq Adapters /\ networks \subseteq Networks
           /\ remaining \in Nat
           /\ form \in Networks \cup {NoArgument} /\ watched \in WP!Paths \cup {0}
           /\ progress \in WP!States \cup {"blank", "ended", "unreadable", "lost"}
           /\ IsFiniteSet(devices)
  BY WifiNames, FS_Subset DEF WP!WifiTypeOK, Msgs

\* The invariant, with its counts and places named.
WifiRead == Reads(scheduled, loading, loadAgain, wifiCalls, wifiMail)
Shown == [adapters |-> devices, networks |-> networks]
Answering(kinds) == Count(wifiCalls, CallsFor(kinds)) + Count(wifiMail, RepliesTo(kinds))
WifiCounts ==
    /\ Answering({"list"}) = One(loading)
    /\ Answering({"activate", "add"}) = One(connecting)
    /\ Answering({"scan"}) = remaining
    /\ ProxyFirst(wifiCalls, networkManager)
WifiTold ==
    /\ OwnerTold(wifiMail, Due(wifiCalls), nameOwner, networkManager)
    /\ networkManager # 0 => RadioTold(wifiMail, Due(wifiCalls), wifi, radio)
WifiList == wifiMapped =>
    ListDue(scheduled, loading, loadAgain, wifiCalls, wifiMail, nameOwner, networkManager, WP!Current, stale, Shown)
WifiButtons == wifiMapped =>
    WifiRead \/ loading \/ ButtonsRight(WP!Usable, remaining, connecting, devices, networks, scanOn, listOn)
WifiFollows == Follow(wifiMail, conns) /\ Progressed(wifiMail, conns, watched, progress)
WifiLaw ==
    /\ WP!WifiTypeOK /\ WifiCounts /\ WifiTold /\ WifiList /\ WifiButtons /\ WifiFollows

\* The counts are those of the invariant.
LEMMA CountsMatch ==
    ASSUME WP!WifiTypeOK
    PROVE  WP!AnswersCome <=> WifiCounts
  <1>1. wifiCalls \in Seq(WP!Call) /\ wifiMail \in Seq(Msgs)
    BY WifiTyped
  <1>2. DOMAIN wifiCalls = 1 .. Len(wifiCalls) /\ DOMAIN wifiMail = 1 .. Len(wifiMail)
    BY <1>1
  <1>3. ASSUME NEW kinds PROVE WP!Waiting(kinds) = Answering(kinds)
    <2>1. {i \in DOMAIN wifiCalls : wifiCalls[i] \in {c \in WP!Call : c.kind \in kinds}} = Marks(wifiCalls, CallsFor(kinds))
      BY <1>2 DEF Marks, CallsFor
    <2>2. {i \in DOMAIN wifiMail : wifiMail[i] \in {m \in WP!Replies : m.call.kind \in kinds}} = Marks(wifiMail, RepliesTo(kinds))
      BY <1>2 DEF Marks, RepliesTo
    <2>3. /\ WP!CountOf(wifiCalls, {c \in WP!Call : c.kind \in kinds}) = Count(wifiCalls, CallsFor(kinds))
          /\ WP!CountOf(wifiMail, {m \in WP!Replies : m.call.kind \in kinds}) = Count(wifiMail, RepliesTo(kinds))
      <3>1. \A S : WP!Cardinality(S) = Cardinality(S)
        BY DEF WP!Cardinality, Cardinality, WP!IsFiniteSet, IsFiniteSet
      <3> QED
        BY <2>1, <2>2, <3>1 DEF WP!CountOf, Count
    <2> QED
      BY <2>3 DEF WP!Waiting, Answering
  <1> QED
    BY <1>2, <1>3 DEF WP!AnswersCome, WifiCounts, One, ProxyFirst

\* Whether the proxy's own call is under way: it can only be the first.
LEMMA DueMatches ==
    ASSUME WP!WifiTypeOK, ProxyFirst(wifiCalls, networkManager)
    PROVE  WP!ProxyDue <=> Due(wifiCalls)
  <1>1. wifiCalls \in Seq(WP!Call) /\ DOMAIN wifiCalls = 1 .. Len(wifiCalls)
    BY WifiTyped
  <1>2. wifiCalls # <<>> => 1 \in 1 .. Len(wifiCalls)
    BY <1>1
  <1>3. ASSUME NEW i \in 1 .. Len(wifiCalls), wifiCalls[i].kind = "proxy" PROVE Due(wifiCalls)
    <2>1. i = 1
      BY <1>3 DEF ProxyFirst
    <2>2. wifiCalls # <<>>
      BY <1>1
    <2> QED
      BY <1>3, <2>1, <2>2 DEF Due
  <1> QED
    BY <1>1, <1>2, <1>3 DEF WP!ProxyDue, Due

\* The places of the mail that hold messages of a type.
LEMMA PlacesMatch ==
    ASSUME WP!WifiTypeOK
    PROVE  /\ DOMAIN wifiMail = 1 .. Len(wifiMail)
           /\ \A i \in 1 .. Len(wifiMail) : wifiMail[i] \in Msgs
           /\ \A i \in 1 .. Len(wifiMail) :
                /\ WP!IsA(i, {"owner"}) <=> wifiMail[i] \in OwnerMsgs
                /\ WP!IsA(i, {"owner", "property"}) <=> wifiMail[i] \in RadioMsgs
                /\ WP!IsA(i, {"changed", "property", "gone", "owner"}) <=> wifiMail[i] \in ReadMsgs
                /\ WP!IsA(i, {"reply"}) <=> wifiMail[i] \in WP!Replies
  <1>1. wifiMail \in Seq(Msgs)
    BY WifiTyped
  <1>2. DOMAIN wifiMail = 1 .. Len(wifiMail) /\ \A i \in 1 .. Len(wifiMail) : wifiMail[i] \in Msgs
    BY <1>1
  <1>3. ASSUME NEW i \in 1 .. Len(wifiMail)
        PROVE  /\ WP!IsA(i, {"owner"}) <=> wifiMail[i] \in OwnerMsgs
               /\ WP!IsA(i, {"owner", "property"}) <=> wifiMail[i] \in RadioMsgs
               /\ WP!IsA(i, {"changed", "property", "gone", "owner"}) <=> wifiMail[i] \in ReadMsgs
               /\ WP!IsA(i, {"reply"}) <=> wifiMail[i] \in WP!Replies
    <2>1. wifiMail[i] \in Msgs /\ i \in DOMAIN wifiMail
      BY <1>2
    <2> QED
      BY <2>1, WifiMessages DEF WP!IsA, OwnerMsgs, RadioMsgs, ReadMsgs
  <1> QED
    BY <1>2, <1>3

\* What the proxy was told.
LEMMA ToldMatch ==
    ASSUME WP!WifiTypeOK, ProxyFirst(wifiCalls, networkManager)
    PROVE  WP!OwnerIsTold /\ WP!RadioIsTold <=> WifiTold
  <1>1. WP!ProxyDue <=> Due(wifiCalls)
    BY DueMatches
  <1>2. /\ DOMAIN wifiMail = 1 .. Len(wifiMail)
        /\ \A i \in 1 .. Len(wifiMail) : WP!IsA(i, {"owner"}) <=> wifiMail[i] \in OwnerMsgs
        /\ \A i \in 1 .. Len(wifiMail) : WP!IsA(i, {"owner", "property"}) <=> wifiMail[i] \in RadioMsgs
    BY PlacesMatch
  <1>3. WP!OwnerIsTold <=> OwnerTold(wifiMail, Due(wifiCalls), nameOwner, networkManager)
    <2>1. (\E j \in DOMAIN wifiMail : WP!IsA(j, {"owner"})) <=> Some(wifiMail, OwnerMsgs)
      BY <1>2 DEF Some
    <2>2. (\A i \in DOMAIN wifiMail : WP!IsA(i, {"owner"}) /\ wifiMail[i].life # networkManager =>
            WP!ProxyDue \/ \E j \in DOMAIN wifiMail : j > i /\ WP!IsA(j, {"owner"}))
          <=> Due(wifiCalls) \/ Fol(wifiMail, OldOwners(networkManager), OwnerMsgs)
      BY <1>1, <1>2 DEF Fol, OldOwners
    <2> QED
      BY <1>1, <2>1, <2>2 DEF WP!OwnerIsTold, OwnerTold
  <1>4. WP!RadioIsTold <=> (networkManager # 0 => RadioTold(wifiMail, Due(wifiCalls), wifi, radio))
    <2>1. (\E j \in DOMAIN wifiMail : WP!IsA(j, {"owner", "property"})) <=> Some(wifiMail, RadioMsgs)
      BY <1>2 DEF Some
    <2>2. \A i \in 1 .. Len(wifiMail) : wifiMail[i] \in RadioMsgs => wifiMail[i].wifi \in BOOLEAN
      BY WifiMessages DEF RadioMsgs
    <2>3. (\A i \in DOMAIN wifiMail : WP!IsA(i, {"owner", "property"}) /\ wifiMail[i].wifi # radio =>
            WP!ProxyDue \/ \E j \in DOMAIN wifiMail : j > i /\ WP!IsA(j, {"owner", "property"}))
          <=> Due(wifiCalls) \/ Fol(wifiMail, OldRadios(radio), RadioMsgs)
      BY <1>1, <1>2 DEF Fol, OldRadios
    <2>4. wifi # radio <=> ~(wifi <=> radio)
      <3>1. wifi \in BOOLEAN /\ radio \in BOOLEAN
        BY WifiTyped
      <3> QED
        BY <3>1
    <2> QED
      BY <1>1, <2>1, <2>3, <2>4 DEF WP!RadioIsTold, RadioTold
  <1> QED
    BY <1>3, <1>4 DEF WifiTold

\* What is read, listed and shown.
LEMMA ListMatches ==
    ASSUME WP!WifiTypeOK, ProxyFirst(wifiCalls, networkManager)
    PROVE  (WP!ListIsDue <=> WifiList) /\ (WP!ButtonsAreDue <=> WifiButtons)
  <1>1. WP!ProxyDue <=> Due(wifiCalls)
    BY DueMatches
  <1>2. /\ DOMAIN wifiMail = 1 .. Len(wifiMail)
        /\ \A i \in 1 .. Len(wifiMail) :
             WP!IsA(i, {"changed", "property", "gone", "owner"}) <=> wifiMail[i] \in ReadMsgs
        /\ \A i \in 1 .. Len(wifiMail) : WP!IsA(i, {"reply"}) <=> wifiMail[i] \in WP!Replies
    BY PlacesMatch
  <1>3. WP!ToRead <=> WifiRead
    <2>1. (\E i \in DOMAIN wifiMail : WP!IsA(i, {"changed", "property", "gone", "owner"})) <=> Some(wifiMail, ReadMsgs)
      BY <1>2 DEF Some
    <2> QED
      BY <1>1, <2>1 DEF WP!ToRead, WifiRead, Reads
  <1>4. (\E i \in DOMAIN wifiCalls : wifiCalls[i].kind = "list") <=> Some(wifiCalls, CallsFor({"list"}))
    <2>1. wifiCalls \in Seq(WP!Call)
      BY WifiTyped
    <2>2. DOMAIN wifiCalls = 1 .. Len(wifiCalls) /\ \A i \in 1 .. Len(wifiCalls) : wifiCalls[i] \in WP!Call
      BY <2>1
    <2> QED
      BY <2>2 DEF Some, CallsFor
  <1>5. (\E i \in DOMAIN wifiMail : WP!IsA(i, {"reply"}) /\ wifiMail[i].call.kind = "list" /\ WP!TrueAnswer(wifiMail[i]))
        <=> Some(wifiMail, TrueAnswers(nameOwner, networkManager, WP!Current))
    <2>1. ASSUME NEW i \in 1 .. Len(wifiMail)
          PROVE  WP!IsA(i, {"reply"}) /\ wifiMail[i].call.kind = "list" /\ WP!TrueAnswer(wifiMail[i])
                 <=> wifiMail[i] \in TrueAnswers(nameOwner, networkManager, WP!Current)
      BY <1>2 DEF WP!TrueAnswer, TrueAnswers
    <2> QED
      BY <1>2, <2>1 DEF Some
  <1>6. WP!ListIsDue <=> WifiList
    BY <1>3, <1>4, <1>5 DEF WP!ListIsDue, WifiList, ListDue, WifiRead, Shown
  <1>7. (scanOn = (WP!Usable /\ remaining = 0 /\ devices # {})) <=> (scanOn <=> WP!Usable /\ remaining = 0 /\ devices # {})
    <2>1. scanOn \in BOOLEAN
      BY WifiTyped
    <2> QED
      BY <2>1
  <1>8. (listOn = (WP!Usable /\ ~connecting)) <=> (listOn <=> WP!Usable /\ ~connecting)
    <2>1. listOn \in BOOLEAN
      BY WifiTyped
    <2> QED
      BY <2>1
  <1>9. WP!ButtonsAreDue <=> WifiButtons
    BY <1>3, <1>7, <1>8 DEF WP!ButtonsAreDue, WifiButtons, ButtonsRight
  <1> QED
    BY <1>6, <1>9

\* What is said of the connections.
LEMMA ClaimsMatch ==
    ASSUME WP!WifiTypeOK
    PROVE  WP!ClaimsAreTrue /\ WP!ProgressIsDue <=> WifiFollows
  <1>1. /\ DOMAIN wifiMail = 1 .. Len(wifiMail)
        /\ \A i \in 1 .. Len(wifiMail) : wifiMail[i] \in Msgs
    BY PlacesMatch
  <1>2. ASSUME NEW j \in 1 .. Len(wifiMail), NEW p
        PROVE  WP!Truth(j, p) <=> wifiMail[j] \in Truths(p, conns[p])
    BY <1>1 DEF WP!Truth, Truths
  <1>3. WP!ClaimsAreTrue <=> Follow(wifiMail, conns)
    BY <1>1, <1>2 DEF WP!ClaimsAreTrue, Follow, Fol, FalseClaims
  <1>4. WP!ProgressIsDue <=> Progressed(wifiMail, conns, watched, progress)
    BY <1>1, <1>2 DEF WP!ProgressIsDue, Progressed, Some
  <1> QED
    BY <1>3, <1>4 DEF WifiFollows

\* With nothing on its way, what is shown is right.
LEMMA WifiShown ==
    ASSUME WifiLaw
    PROVE  WP!NetworksShown /\ WP!ConnectionIsTrue
  <1> SUFFICES ASSUME WP!Quiet
               PROVE  /\ ~scheduled /\ wifiMapped /\ ~stale =>
                            /\ networks = IF networkManager = 0 THEN {} ELSE WP!Snapshot.networks
                            /\ scanOn = (networkManager # 0 /\ radio /\ adapters # {})
                            /\ networks # {} => listOn = radio
                      /\ ~loading /\ remaining = 0 /\ ~connecting
                      /\ watched # 0 => progress \in {conns[watched], "unreadable"}
    BY DEF WP!NetworksShown, WP!ConnectionIsTrue
  <1>1. wifiCalls = <<>> /\ wifiMail = <<>>
    BY DEF WP!Quiet
  <1>2. /\ ~Due(wifiCalls) /\ \A T : ~Some(wifiCalls, T) /\ ~Some(wifiMail, T)
        /\ \A T : Marks(wifiCalls, T) = {} /\ Marks(wifiMail, T) = {}
    BY <1>1 DEF Due, Some, Marks
  <1>3. \A T : Count(wifiCalls, T) = 0 /\ Count(wifiMail, T) = 0
    BY <1>2, FS_EmptySet DEF Count
  <1>4. ~loading /\ remaining = 0 /\ ~connecting
    BY <1>3 DEF WifiLaw, WifiCounts, Answering, One
  <1>5. watched # 0 => progress \in {conns[watched], "unreadable"}
    BY <1>2 DEF WifiLaw, WifiFollows, Progressed
  <1>6. ASSUME ~scheduled, wifiMapped, ~stale
        PROVE  /\ networks = IF networkManager = 0 THEN {} ELSE WP!Snapshot.networks
               /\ scanOn = (networkManager # 0 /\ radio /\ adapters # {})
               /\ networks # {} => listOn = radio
    <2>1. ~WifiRead
      BY <1>2, <1>4, <1>6 DEF WifiRead, Reads
    <2>2. Shown = WP!Current
      BY <1>2, <1>6, <2>1 DEF WifiLaw, WifiList, ListDue, WifiRead
    <2>3. ButtonsRight(WP!Usable, remaining, connecting, devices, networks, scanOn, listOn)
      BY <1>4, <1>6, <2>1 DEF WifiLaw, WifiButtons
    <2>4. nameOwner = networkManager
      BY <1>2 DEF WifiLaw, WifiTold, OwnerTold
    <2>5. networkManager # 0 => (wifi <=> radio)
      BY <1>2 DEF WifiLaw, WifiTold, RadioTold
    <2>6. /\ wifi \in BOOLEAN /\ radio \in BOOLEAN /\ scanOn \in BOOLEAN /\ listOn \in BOOLEAN
      BY WifiTyped DEF WifiLaw
    <2>7. /\ networks = IF networkManager = 0 THEN {} ELSE WP!Snapshot.networks
          /\ devices = IF networkManager = 0 THEN {} ELSE adapters
      BY <2>2 DEF Shown, WP!Current, WP!Snapshot
    <2>8. WP!Usable <=> networkManager # 0 /\ radio
      BY <2>4, <2>5 DEF WP!Usable
    <2>9. networks # {} => networkManager # 0
      BY <2>7
    <2>10. scanOn <=> networkManager # 0 /\ radio /\ adapters # {}
      BY <1>4, <2>3, <2>7, <2>8 DEF ButtonsRight
    <2>11. networks # {} => (listOn <=> radio)
      BY <1>4, <2>3, <2>8, <2>9 DEF ButtonsRight
    <2> QED
      BY <2>6, <2>7, <2>10, <2>11
  <1> QED
    BY <1>4, <1>5, <1>6

\* The invariant is its parts by their names.
LEMMA WifiLawful == WP!WifiInv <=> WifiLaw
  <1>1. ASSUME WP!WifiInv PROVE WifiLaw
    <2>1. WP!WifiTypeOK /\ WifiCounts
      BY <1>1, CountsMatch DEF WP!WifiInv
    <2>2. ProxyFirst(wifiCalls, networkManager)
      BY <2>1 DEF WifiCounts
    <2> QED
      BY <1>1, <2>1, <2>2, ToldMatch, ListMatches, ClaimsMatch DEF WP!WifiInv, WifiLaw
  <1>2. ASSUME WifiLaw PROVE WP!WifiInv
    <2>1. WP!WifiTypeOK /\ ProxyFirst(wifiCalls, networkManager)
      BY <1>2 DEF WifiLaw, WifiCounts
    <2> QED
      BY <1>2, <2>1, CountsMatch, ToldMatch, ListMatches, ClaimsMatch, WifiShown DEF WP!WifiInv, WifiLaw
  <1> QED
    BY <1>1, <1>2

\* The same of the next state.
LEMMA WifiLawfulNext == WP!WifiInv' <=> WifiLaw'
  BY WifiLawful, PTL

\* Sequences of one and of two.
LEMMA SomeOne ==
    ASSUME NEW S, NEW x \in S
    PROVE  /\ <<x>> \in Seq(S)
           /\ \A T : Some(<<x>>, T) <=> x \in T
           /\ \A B, T : x \notin B => Fol(<<x>>, B, T)
           /\ \A T : Count(<<x>>, T) = IF x \in T THEN 1 ELSE 0
  <1>1. /\ <<x>> \in Seq(S) /\ Len(<<x>>) = 1 /\ <<x>>[1] = x /\ 1 .. 1 = {1}
    OBVIOUS
  <1>2. /\ \A T : Some(<<x>>, T) <=> x \in T
        /\ \A B, T : x \notin B => Fol(<<x>>, B, T)
    BY <1>1 DEF Some, Fol
  <1>3. \A T : Count(<<x>>, T) = IF x \in T THEN 1 ELSE 0
    BY MarksOne DEF Count
  <1> QED
    BY <1>1, <1>2, <1>3

\* And of two.
LEMMA SomeTwo ==
    ASSUME NEW S, NEW x \in S, NEW y \in S
    PROVE  /\ <<x>> \o <<y>> \in Seq(S)
           /\ \A T : Some(<<x>> \o <<y>>, T) <=> x \in T \/ y \in T
           /\ \A B, T : y \notin B /\ (x \notin B \/ y \in T) => Fol(<<x>> \o <<y>>, B, T)
           /\ \A T : x \notin T /\ y \notin T => Count(<<x>> \o <<y>>, T) = 0
  <1> DEFINE p == <<x>>
             q == <<y>>
  <1>1. /\ p \in Seq(S) /\ \A T : Some(p, T) <=> x \in T
        /\ \A B, T : x \notin B => Fol(p, B, T)
        /\ \A T : Count(p, T) = IF x \in T THEN 1 ELSE 0
    BY SomeOne
  <1>2. /\ q \in Seq(S) /\ \A T : Some(q, T) <=> y \in T
        /\ \A B, T : y \notin B => Fol(q, B, T)
        /\ \A T : Count(q, T) = IF y \in T THEN 1 ELSE 0
    BY SomeOne
  <1> HIDE DEF p, q
  <1>3. /\ p \o q \in Seq(S) /\ \A T : Some(p \o q, T) <=> Some(p, T) \/ Some(q, T)
        /\ \A B, T : Fol(q, B, T) /\ (Some(q, T) \/ Fol(p, B, T)) => Fol(p \o q, B, T)
        /\ \A T : Count(p \o q, T) = Count(p, T) + Count(q, T)
    BY <1>1, <1>2, SomeBoth
  <1>4. \A T : x \notin T /\ y \notin T => Count(p \o q, T) = 0
    BY <1>1, <1>2, <1>3
  <1>5. \A B, T : y \notin B /\ (x \notin B \/ y \in T) => Fol(p \o q, B, T)
    BY <1>1, <1>2, <1>3
  <1>6. \A T : Some(p \o q, T) <=> x \in T \/ y \in T
    BY <1>1, <1>2, <1>3
  <1> QED
    BY <1>3, <1>4, <1>5, <1>6 DEF p, q

\* Nothing counted, nothing there.
LEMMA CountNone ==
    ASSUME NEW S, NEW q \in Seq(S), NEW T
    PROVE  /\ Count(q, T) \in Nat /\ (Count(q, T) = 0 <=> ~Some(q, T))
           /\ \A i \in 1 .. Len(q) : q[i] \in S
  BY MarksFinite DEF Count, Some

\* Calls that are added; the proxy's own call is still the first.
LEMMA CallsAdded ==
    ASSUME NEW q \in Seq(WP!Call), NEW add \in Seq(WP!Call), NEW sv,
           \A i \in 1 .. Len(add) : add[i].kind # "proxy"
    PROVE  /\ q \o add \in Seq(WP!Call)
           /\ ProxyFirst(q, sv) => ProxyFirst(q \o add, sv)
           /\ Due(q \o add) <=> Due(q)
           /\ \A T : Some(q \o add, T) <=> Some(q, T) \/ Some(add, T)
           /\ \A T : Count(q \o add, T) = Count(q, T) + Count(add, T)
           /\ \A T : Count(q, T) \in Nat /\ Count(add, T) \in Nat
  <1> DEFINE r == q \o add
             n == Len(q)
  <1>1. /\ n \in Nat /\ Len(add) \in Nat /\ Len(r) = n + Len(add) /\ r \in Seq(WP!Call)
        /\ \A i \in 1 .. n : r[i] = q[i]
        /\ \A i \in 1 .. Len(r) : i \in 1 .. n \/ (i - n \in 1 .. Len(add) /\ r[i] = add[i - n])
        /\ q = <<>> => r = add
        /\ q # <<>> => 1 \in 1 .. n /\ r # <<>>
        /\ add # <<>> => 1 \in 1 .. Len(add)
    OBVIOUS
  <1>2. /\ \A T : Some(r, T) <=> Some(q, T) \/ Some(add, T)
        /\ \A T : Count(r, T) = Count(q, T) + Count(add, T)
        /\ \A T : Count(q, T) \in Nat /\ Count(add, T) \in Nat
    BY SomeBoth
  <1> HIDE DEF r, n
  <1>3. ProxyFirst(q, sv) => ProxyFirst(r, sv)
    BY <1>1 DEF ProxyFirst, n
  <1>4. Due(r) <=> Due(q)
    <2>1. CASE q = <<>>
      BY <1>1, <2>1 DEF Due
    <2>2. CASE q # <<>>
      BY <1>1, <2>2 DEF Due
    <2> QED
      BY <2>1, <2>2
  <1> QED
    BY <1>1, <1>2, <1>3, <1>4 DEF r

\* The first call answered.
LEMMA CallAnswered ==
    ASSUME NEW q \in Seq(WP!Call), NEW sv, q # <<>>, ProxyFirst(q, sv)
    PROVE  /\ Head(q) \in WP!Call /\ Tail(q) \in Seq(WP!Call)
           /\ Due(q) <=> Head(q).kind = "proxy"
           /\ Due(q) => sv # 0
           /\ ~Due(Tail(q)) /\ ProxyFirst(Tail(q), sv)
           /\ \A T : Some(q, T) <=> Head(q) \in T \/ Some(Tail(q), T)
           /\ \A T : Count(q, T) = Count(Tail(q), T) + (IF Head(q) \in T THEN 1 ELSE 0)
           /\ \A T : Count(q, T) \in Nat /\ Count(Tail(q), T) \in Nat
           /\ \A i \in 1 .. Len(Tail(q)) : Tail(q)[i] \in WP!Asked
  <1> DEFINE r == Tail(q)
  <1>1. /\ Head(q) \in WP!Call /\ r \in Seq(WP!Call) /\ q[1] = Head(q) /\ Len(q) \in Nat /\ 1 \in 1 .. Len(q)
        /\ \A i \in 1 .. Len(r) : r[i] = q[i + 1] /\ i + 1 \in 1 .. Len(q) /\ i + 1 # 1 /\ r[i] \in WP!Call
        /\ r # <<>> => 1 \in 1 .. Len(r)
    OBVIOUS
  <1>2. /\ \A T : Some(q, T) <=> Head(q) \in T \/ Some(r, T)
        /\ \A T : Count(q, T) = Count(r, T) + (IF Head(q) \in T THEN 1 ELSE 0)
        /\ \A T : Count(q, T) \in Nat /\ Count(r, T) \in Nat
    BY SomeLess
  <1>3. \A i \in 1 .. Len(r) : r[i].kind # "proxy"
    BY <1>1 DEF ProxyFirst
  <1>4. \A i \in 1 .. Len(r) : r[i] \in WP!Asked
    BY <1>1, <1>3, CallFields
  <1>5. ~Due(r) /\ ProxyFirst(r, sv)
    BY <1>1, <1>3 DEF Due, ProxyFirst
  <1>6. (Due(q) <=> Head(q).kind = "proxy") /\ (Due(q) => sv # 0)
    BY <1>1 DEF Due, ProxyFirst
  <1> HIDE DEF r
  <1> QED
    BY <1>1, <1>2, <1>4, <1>5, <1>6 DEF r

\* What each message says of a connection.
LEMMA MessageSays ==
    ASSUME NEW x \in Msgs, NEW p, NEW s
    PROVE  /\ x.type \in {"changed", "property", "owner"} => x \notin FalseClaims(p, s)
           /\ x.type = "owner" => x \in Truths(p, s)
           /\ x.type \in {"changed", "property", "reply"} => x \notin Truths(p, s)
           /\ x.type = "state" =>
                /\ x \in FalseClaims(p, s) <=> x.path = p /\ x.state # s
                /\ x \in Truths(p, s) <=> x.path = p /\ x.state = s
           /\ x.type = "gone" =>
                /\ x \in FalseClaims(p, s) <=> x.path = p /\ "ended" # s
                /\ x \in Truths(p, s) <=> x.path = p /\ "ended" = s
           /\ x.type = "reply" =>
                /\ x.result # "ok" => x \notin FalseClaims(p, s)
                /\ x.call.kind \in {"list", "scan"} => x \notin FalseClaims(p, s)
                /\ x.result = "ok" /\ x.call.kind = "status" => (x \in FalseClaims(p, s) <=> x.call.arg = p /\ x.state # s)
                /\ x.result = "ok" /\ x.call.kind \in {"activate", "add"} =>
                        (x \in FalseClaims(p, s) <=> x.path = p /\ "activating" # s)
  BY DEF FalseClaims, Truths, WP!Claim, WP!Claimed

\* Nothing that is said of a connection is that there is none.
LEMMA NothingSaysNone ==
    ASSUME NEW x \in Msgs, NEW p
    PROVE  /\ \A s : x \in FalseClaims(p, s) => x \in FalseClaims(p, "none")
           /\ \A s : x \in Truths(p, "none") => x \in Truths(p, s)
  <1>1. WP!Claim(x, p) => WP!Claimed(x) # "none"
    <2>1. CASE x.type = "state"
      BY <2>1, WifiMessages DEF WP!Claimed, WP!States
    <2>2. CASE x.type = "gone"
      BY <2>2 DEF WP!Claimed
    <2>3. CASE x.type = "reply"
      BY <2>3, WifiMessages, ReplyFields DEF WP!Claim, WP!Claimed, WP!States
    <2> QED
      BY <2>1, <2>2, <2>3 DEF WP!Claim
  <1> QED
    BY <1>1 DEF FalseClaims, Truths

\* What the panel keeps.
wifiPanel == <<nameOwner, wifi, wifiMapped, loading, loadAgain, stale, scheduled, devices,
    networks, listOn, scanOn, remaining, connecting, form, watched, progress>>

\* Messages without an answer leave the counts; those that do not call for a
\* reading leave the lists true.
LEMMA WorldSays ==
    ASSUME WifiLaw, NEW add \in Seq(Msgs), wifiMail' = wifiMail \o add,
           UNCHANGED <<wifiCalls, wifiPanel, networkManager>>,
           \A T : T \subseteq WP!Replies => Count(add, T) = 0,
           UNCHANGED <<adapters, air>> \/ Some(add, ReadMsgs),
           ~Some(add, OwnerMsgs),
           (UNCHANGED radio /\ ~Some(add, RadioMsgs)) \/ (Some(add, RadioMsgs) /\ Fol(add, OldRadios(radio'), RadioMsgs)),
           radio' \in BOOLEAN
    PROVE  WifiCounts' /\ WifiTold' /\ WifiList' /\ WifiButtons' /\ wifiMail' \in Seq(Msgs)
  <1>1. /\ wifiMail' \in Seq(Msgs)
        /\ \A T : Some(wifiMail', T) <=> Some(wifiMail, T) \/ Some(add, T)
        /\ \A B, T : Fol(add, B, T) /\ (Some(add, T) \/ Fol(wifiMail, B, T)) => Fol(wifiMail', B, T)
        /\ \A T : Count(wifiMail', T) = Count(wifiMail, T) + Count(add, T)
        /\ \A T : Count(wifiMail, T) \in Nat
    BY WifiTyped, SomeBoth DEF WifiLaw
  <1>2. /\ wifiCalls' = wifiCalls /\ networkManager' = networkManager
        /\ nameOwner' = nameOwner /\ (wifi' <=> wifi) /\ (wifiMapped' <=> wifiMapped) /\ (loading' <=> loading)
        /\ (loadAgain' <=> loadAgain) /\ (stale' <=> stale) /\ (scheduled' <=> scheduled)
        /\ devices' = devices /\ networks' = networks /\ (listOn' <=> listOn) /\ (scanOn' <=> scanOn)
        /\ remaining' = remaining /\ (connecting' <=> connecting)
    BY DEF wifiPanel
  <1>3. \A k : Count(wifiMail', RepliesTo(k)) = Count(wifiMail, RepliesTo(k))
    <2>1. \A k : Count(add, RepliesTo(k)) = 0
      BY DEF RepliesTo
    <2> QED
      BY <1>1, <2>1
  <1>4. WifiCounts'
    BY <1>2, <1>3 DEF WifiLaw, WifiCounts, Answering, One, wifiPanel
  <1>5. WifiTold'
    <2>1. OwnerTold(wifiMail', Due(wifiCalls'), nameOwner', networkManager')
      <3>1. Fol(add, OldOwners(networkManager), OwnerMsgs)
        BY DEF Fol, Some, OldOwners
      <3> QED
        BY <1>1, <1>2, <3>1 DEF WifiLaw, WifiTold, OwnerTold
    <2>2. ASSUME networkManager' # 0 PROVE RadioTold(wifiMail', Due(wifiCalls'), wifi', radio')
      <3>1. RadioTold(wifiMail, Due(wifiCalls), wifi, radio)
        BY <1>2, <2>2 DEF WifiLaw, WifiTold
      <3>2. CASE UNCHANGED radio /\ ~Some(add, RadioMsgs)
        <4>1. Fol(add, OldRadios(radio), RadioMsgs)
          BY <3>2 DEF Fol, Some, OldRadios
        <4> QED
          BY <1>1, <1>2, <3>1, <3>2, <4>1 DEF RadioTold
      <3>3. CASE Some(add, RadioMsgs) /\ Fol(add, OldRadios(radio'), RadioMsgs)
        BY <1>1, <1>2, <3>3 DEF RadioTold
      <3> QED
        BY <3>2, <3>3
    <2> QED
      BY <2>1, <2>2 DEF WifiTold
  <1>6. WifiRead => WifiRead'
    BY <1>1, <1>2 DEF WifiRead, Reads
  <1>7. Some(add, ReadMsgs) => WifiRead'
    BY <1>1 DEF WifiRead, Reads
  <1>8. WifiList'
    <2>1. CASE Some(add, ReadMsgs)
      BY <1>7, <2>1 DEF WifiList, ListDue, WifiRead
    <2>2. CASE UNCHANGED <<adapters, air>>
      <3>1. WP!Current' = WP!Current /\ Shown' = Shown
        BY <1>2, <2>2 DEF WP!Current, WP!Snapshot, Shown
      <3>2. /\ ListDue(scheduled, loading, loadAgain, wifiCalls, wifiMail, nameOwner, networkManager, WP!Current, stale, Shown)
               => ListDue(scheduled, loading, loadAgain, wifiCalls, wifiMail', nameOwner, networkManager, WP!Current, stale, Shown)
        BY <1>1 DEF ListDue, Reads
      <3> QED
        BY <1>2, <3>1, <3>2 DEF WifiLaw, WifiList, wifiPanel
    <2> QED
      BY <2>1, <2>2
  <1>9. WifiButtons'
    <2>1. WP!Usable' <=> WP!Usable
      BY <1>2 DEF WP!Usable
    <2> QED
      BY <1>2, <1>6, <2>1 DEF WifiLaw, WifiButtons, ButtonsRight
  <1> QED
    BY <1>1, <1>4, <1>5, <1>8, <1>9

\* What is said of the connections after messages.
LEMMA FollowSays ==
    ASSUME WifiLaw, NEW add \in Seq(Msgs), wifiMail' = wifiMail \o add, UNCHANGED <<watched, progress>>,
           \A p \in WP!Paths :
                /\ Fol(add, FalseClaims(p, conns'[p]), Truths(p, conns'[p]))
                /\ UNCHANGED conns \/ conns'[p] = conns[p] \/ Some(add, Truths(p, conns'[p]))
    PROVE  WifiFollows'
  <1>1. /\ \A T : Some(wifiMail', T) <=> Some(wifiMail, T) \/ Some(add, T)
        /\ \A B, T : Fol(add, B, T) /\ (Some(add, T) \/ Fol(wifiMail, B, T)) => Fol(wifiMail', B, T)
    BY WifiTyped, SomeBoth DEF WifiLaw
  <1>2. \A p \in WP!Paths : conns'[p] = conns[p] \/ Some(add, Truths(p, conns'[p]))
    OBVIOUS
  <1>3. Follow(wifiMail', conns')
    <2> SUFFICES ASSUME NEW p \in WP!Paths
                 PROVE  Fol(wifiMail', FalseClaims(p, conns'[p]), Truths(p, conns'[p]))
      BY DEF Follow
    <2>1. Fol(wifiMail, FalseClaims(p, conns[p]), Truths(p, conns[p]))
      BY DEF WifiLaw, WifiFollows, Follow
    <2>2. Fol(add, FalseClaims(p, conns'[p]), Truths(p, conns'[p]))
      OBVIOUS
    <2>3. CASE conns'[p] = conns[p]
      <3>1. Fol(wifiMail, FalseClaims(p, conns'[p]), Truths(p, conns'[p]))
        BY <2>1, <2>3
      <3> QED
        BY <1>1, <2>2, <3>1
    <2>4. CASE Some(add, Truths(p, conns'[p]))
      BY <1>1, <2>2, <2>4
    <2> QED
      BY <1>2, <2>3, <2>4
  <1>4. Progressed(wifiMail', conns', watched', progress')
    <2> SUFFICES ASSUME watched # 0
                 PROVE  progress \in {conns'[watched], "unreadable"} \/ Some(wifiMail', Truths(watched, conns'[watched]))
      BY DEF Progressed
    <2>1. watched \in WP!Paths
      BY WifiTyped DEF WifiLaw
    <2>2. progress \in {conns[watched], "unreadable"} \/ Some(wifiMail, Truths(watched, conns[watched]))
      BY DEF WifiLaw, WifiFollows, Progressed
    <2>3. CASE conns'[watched] = conns[watched]
      BY <1>1, <2>2, <2>3
    <2>4. CASE Some(add, Truths(watched, conns'[watched]))
      BY <1>1, <2>4
    <2> QED
      BY <1>2, <2>1, <2>3, <2>4
  <1> QED
    BY <1>3, <1>4 DEF WifiFollows

\* The adapters or the networks in reach change.
LEMMA AirChangesStep == ASSUME WifiLaw, WP!AirChanges PROVE WifiLaw'
  <1> DEFINE x == WP!Changed
             add == <<WP!Changed>>
  <1>1. /\ x \in Msgs /\ x.type = "changed"
        /\ add \in Seq(Msgs) /\ \A T : Some(add, T) <=> x \in T
        /\ \A B, T : x \notin B => Fol(add, B, T)
        /\ \A T : Count(add, T) = IF x \in T THEN 1 ELSE 0
    BY MessagesMade, SomeOne
  <1>2. /\ wifiMail' = wifiMail \o add /\ UNCHANGED <<wifiCalls, wifiPanel, networkManager, lives, radio, conns>>
        /\ adapters' \subseteq Adapters /\ air' \subseteq Networks
    BY WifiTyped DEF WifiLaw, WP!AirChanges, WP!Says, WP!panelVars, WP!proxy, WP!reading, WP!lists, WP!connection, wifiPanel
  <1> HIDE DEF x, add
  <1>3. /\ x \notin WP!Replies /\ x \in ReadMsgs /\ x \notin OwnerMsgs /\ x \notin RadioMsgs
        /\ \A p, s : x \notin FalseClaims(p, s)
    BY <1>1, WifiMessages, MessageSays DEF ReadMsgs, OwnerMsgs, RadioMsgs
  <1>4. WifiCounts' /\ WifiTold' /\ WifiList' /\ WifiButtons' /\ wifiMail' \in Seq(Msgs)
    <2>1. radio' \in BOOLEAN
      BY <1>2, WifiTyped DEF WifiLaw
    <2>2. UNCHANGED <<wifiCalls, wifiPanel, networkManager>> /\ UNCHANGED radio
      BY <1>2
    <2>3. Some(add, ReadMsgs) /\ ~Some(add, RadioMsgs) /\ ~Some(add, OwnerMsgs)
      BY <1>1, <1>3
    <2>4. \A T : T \subseteq WP!Replies => Count(add, T) = 0
      BY <1>1, <1>3
    <2>5. /\ UNCHANGED <<adapters, air>> \/ Some(add, ReadMsgs)
          /\ (UNCHANGED radio /\ ~Some(add, RadioMsgs)) \/ (Some(add, RadioMsgs) /\ Fol(add, OldRadios(radio'), RadioMsgs))
          /\ ~Some(add, OwnerMsgs) /\ add \in Seq(Msgs) /\ wifiMail' = wifiMail \o add
      BY <1>1, <1>2, <2>2, <2>3
    <2> QED
      BY <2>1, <2>2, <2>4, <2>5, WorldSays
  <1>5. WifiFollows'
    <2>1. UNCHANGED <<watched, progress>>
      BY <1>2 DEF wifiPanel
    <2>2. \A p \in WP!Paths : Fol(add, FalseClaims(p, conns'[p]), Truths(p, conns'[p]))
      BY <1>1, <1>3
    <2> QED
      BY <1>1, <1>2, <2>1, <2>2, FollowSays
  <1>6. WP!WifiTypeOK'
    BY <1>2, <1>4 DEF WifiLaw, WP!WifiTypeOK, wifiPanel, Msgs
  <1> QED
    BY <1>4, <1>5, <1>6 DEF WifiLaw

\* The radio is switched.
LEMMA RadioSwitchedStep == ASSUME WifiLaw, WP!RadioSwitched PROVE WifiLaw'
  <1>0. radio \in BOOLEAN
    BY WifiTyped DEF WifiLaw
  <1> DEFINE x == WP!Property(~radio)
             add == <<WP!Property(~radio)>>
  <1>1. /\ x \in Msgs /\ x.type = "property" /\ x.wifi = ~radio
    BY <1>0, MessagesMade
  <1>2. /\ add \in Seq(Msgs) /\ \A T : Some(add, T) <=> x \in T
        /\ \A B, T : x \notin B => Fol(add, B, T)
        /\ \A T : Count(add, T) = IF x \in T THEN 1 ELSE 0
    BY <1>1, SomeOne
  <1>3. /\ wifiMail' = wifiMail \o add
        /\ UNCHANGED <<wifiCalls, wifiPanel, networkManager, lives, adapters, air, conns>>
        /\ radio' = ~radio
    BY DEF WP!RadioSwitched, WP!Says, WP!panelVars, WP!proxy, WP!reading, WP!lists, WP!connection, wifiPanel
  <1> HIDE DEF x, add
  <1>4. /\ x \notin WP!Replies /\ x \in ReadMsgs /\ x \notin OwnerMsgs /\ x \in RadioMsgs /\ x \notin OldRadios(radio')
        /\ \A p, s : x \notin FalseClaims(p, s)
    BY <1>1, <1>3, WifiMessages, MessageSays DEF ReadMsgs, OwnerMsgs, RadioMsgs, OldRadios
  <1>5. WifiCounts' /\ WifiTold' /\ WifiList' /\ WifiButtons' /\ wifiMail' \in Seq(Msgs)
    <2>1. radio' \in BOOLEAN
      BY <1>3
    <2>2. UNCHANGED <<wifiCalls, wifiPanel, networkManager>> /\ UNCHANGED <<adapters, air>>
      BY <1>3
    <2>3. Some(add, RadioMsgs) /\ Fol(add, OldRadios(radio'), RadioMsgs) /\ ~Some(add, OwnerMsgs)
      BY <1>2, <1>4
    <2>4. \A T : T \subseteq WP!Replies => Count(add, T) = 0
      BY <1>2, <1>4
    <2> QED
      BY <1>2, <1>3, <2>1, <2>2, <2>3, <2>4, WorldSays
  <1>6. WifiFollows'
    <2>1. UNCHANGED <<watched, progress>> /\ UNCHANGED conns
      BY <1>3 DEF wifiPanel
    <2>2. \A p \in WP!Paths : Fol(add, FalseClaims(p, conns'[p]), Truths(p, conns'[p]))
      BY <1>2, <1>4
    <2> QED
      BY <1>2, <1>3, <2>1, <2>2, FollowSays
  <1>7. WP!WifiTypeOK'
    <2>1. radio' \in BOOLEAN
      BY <1>3
    <2> QED
      BY <1>3, <1>5, <2>1 DEF WifiLaw, WP!WifiTypeOK, wifiPanel, Msgs
  <1> QED
    BY <1>5, <1>6, <1>7 DEF WifiLaw

\* The states of a connection.
LEMMA ConnectionEnds ==
    ASSUME NEW s \in WP!States
    PROVE  \A t \in WP!After(s) : t \in WP!States \cup {"ended"}
  BY DEF WP!After, WP!States

\* A connection moves: the last that is said of it is true.
LEMMA ConnectionMovesStep == ASSUME WifiLaw, NEW p \in WP!Paths, WP!ConnectionMoves(p) PROVE WifiLaw'
  <1>1. /\ UNCHANGED <<wifiCalls, wifiPanel, networkManager, lives, adapters, air, radio>>
        /\ conns \in [WP!Paths -> WP!States \cup {"none", "ended"}] /\ wifiMail \in Seq(Msgs) /\ radio \in BOOLEAN
    BY WifiTyped DEF WifiLaw, WP!ConnectionMoves, WP!panelVars, WP!proxy, WP!reading, WP!lists, WP!connection, wifiPanel
  <1>2. PICK s \in WP!States \cup {"ended"} :
            /\ conns' = [conns EXCEPT ![p] = s]
            /\ \/ s # "ended" /\ wifiMail' = wifiMail \o <<WP!State(p, s)>>
               \/ s = "ended" /\ \E last \in {<<>>, <<WP!State(p, s)>>} : wifiMail' = wifiMail \o (last \o <<WP!Gone(p)>>)
    <2>1. PICK s \in WP!After(conns[p]) :
            /\ conns' = [conns EXCEPT ![p] = s]
            /\ \/ s # "ended" /\ wifiMail' = wifiMail \o <<WP!State(p, s)>>
               \/ s = "ended" /\ \E last \in {<<>>, <<WP!State(p, s)>>} : wifiMail' = wifiMail \o (last \o <<WP!Gone(p)>>)
      BY DEF WP!ConnectionMoves, WP!Says
    <2>2. s \in WP!States \cup {"ended"}
      BY ConnectionEnds DEF WP!ConnectionMoves
    <2> QED
      BY <2>1, <2>2
  <1>3. conns' \in [WP!Paths -> WP!States \cup {"none", "ended"}] /\ conns'[p] = s
        /\ \A q \in WP!Paths : q # p => conns'[q] = conns[q]
    BY <1>1, <1>2
  <1> DEFINE x == WP!State(p, s)
             y == WP!Gone(p)
  <1>4. /\ x \in Msgs /\ x.type = "state" /\ x.path = p /\ x.state = s
        /\ y \in Msgs /\ y.type = "gone" /\ y.path = p
    BY MessagesMade
  <1>5. PICK add \in Seq(Msgs) :
            /\ wifiMail' = wifiMail \o add
            /\ Some(add, Truths(p, s)) /\ \A q \in WP!Paths : Fol(add, FalseClaims(q, conns'[q]), Truths(q, conns'[q]))
            /\ ~Some(add, OwnerMsgs) /\ ~Some(add, RadioMsgs)
            /\ \A T : T \subseteq WP!Replies => Count(add, T) = 0
    <2> HIDE DEF x, y
    <2>1. /\ \A T : T \subseteq WP!Replies => x \notin T /\ y \notin T
          /\ x \notin OwnerMsgs /\ y \notin OwnerMsgs /\ x \notin RadioMsgs /\ y \notin RadioMsgs
      BY <1>4, WifiMessages DEF OwnerMsgs, RadioMsgs
    <2>2. /\ x \in Truths(p, s) /\ \A q \in WP!Paths : x \notin FalseClaims(q, conns'[q])
      BY <1>3, <1>4, MessageSays
    <2>3. s = "ended" => y \in Truths(p, s) /\ \A q \in WP!Paths : y \notin FalseClaims(q, conns'[q])
      BY <1>3, <1>4, MessageSays
    <2>4. CASE wifiMail' = wifiMail \o <<x>>
      <3> DEFINE add == <<x>>
      <3>1. /\ add \in Seq(Msgs) /\ \A T : Some(add, T) <=> x \in T
            /\ \A B, T : x \notin B => Fol(add, B, T)
            /\ \A T : Count(add, T) = IF x \in T THEN 1 ELSE 0
        BY <1>4, SomeOne
      <3>2. wifiMail' = wifiMail \o add
        BY <2>4
      <3> HIDE DEF add
      <3>3. /\ Some(add, Truths(p, s)) /\ \A q \in WP!Paths : Fol(add, FalseClaims(q, conns'[q]), Truths(q, conns'[q]))
            /\ ~Some(add, OwnerMsgs) /\ ~Some(add, RadioMsgs)
            /\ \A T : T \subseteq WP!Replies => Count(add, T) = 0
        BY <2>1, <2>2, <2>4, <3>1
      <3> QED
        BY <3>1, <3>2, <3>3
    <2>5. CASE s = "ended" /\ wifiMail' = wifiMail \o <<y>>
      <3> DEFINE add == <<y>>
      <3>1. /\ add \in Seq(Msgs) /\ \A T : Some(add, T) <=> y \in T
            /\ \A B, T : y \notin B => Fol(add, B, T)
            /\ \A T : Count(add, T) = IF y \in T THEN 1 ELSE 0
        BY <1>4, SomeOne
      <3>2. wifiMail' = wifiMail \o add
        BY <2>5
      <3> HIDE DEF add
      <3>3. /\ Some(add, Truths(p, s)) /\ \A q \in WP!Paths : Fol(add, FalseClaims(q, conns'[q]), Truths(q, conns'[q]))
            /\ ~Some(add, OwnerMsgs) /\ ~Some(add, RadioMsgs)
            /\ \A T : T \subseteq WP!Replies => Count(add, T) = 0
        BY <2>1, <2>3, <2>5, <3>1
      <3> QED
        BY <3>1, <3>2, <3>3
    <2>6. CASE s = "ended" /\ wifiMail' = wifiMail \o (<<x>> \o <<y>>)
      <3> DEFINE add == <<x>> \o <<y>>
      <3>1. /\ add \in Seq(Msgs) /\ \A T : Some(add, T) <=> x \in T \/ y \in T
            /\ \A B, T : y \notin B /\ (x \notin B \/ y \in T) => Fol(add, B, T)
            /\ \A T : x \notin T /\ y \notin T => Count(add, T) = 0
        BY <1>4, SomeTwo
      <3>2. wifiMail' = wifiMail \o add
        BY <2>6
      <3> HIDE DEF add
      <3>3. /\ Some(add, Truths(p, s)) /\ \A q \in WP!Paths : Fol(add, FalseClaims(q, conns'[q]), Truths(q, conns'[q]))
            /\ ~Some(add, OwnerMsgs) /\ ~Some(add, RadioMsgs)
            /\ \A T : T \subseteq WP!Replies => Count(add, T) = 0
        BY <2>1, <2>2, <2>3, <2>6, <3>1
      <3> QED
        BY <3>1, <3>2, <3>3
    <2>7. <<>> \o <<y>> = <<y>>
      BY <1>4
    <2> QED
      BY <1>2, <2>4, <2>5, <2>6, <2>7 DEF x, y
  <1>6. WifiCounts' /\ WifiTold' /\ WifiList' /\ WifiButtons' /\ wifiMail' \in Seq(Msgs)
    <2>1. /\ UNCHANGED <<wifiCalls, wifiPanel, networkManager>> /\ UNCHANGED radio /\ UNCHANGED <<adapters, air>>
          /\ radio' \in BOOLEAN
      BY <1>1
    <2>2. /\ UNCHANGED <<adapters, air>> \/ Some(add, ReadMsgs)
          /\ (UNCHANGED radio /\ ~Some(add, RadioMsgs)) \/ (Some(add, RadioMsgs) /\ Fol(add, OldRadios(radio'), RadioMsgs))
      BY <1>5, <2>1
    <2> QED
      BY <1>5, <2>1, <2>2, WorldSays
  <1>7. WifiFollows'
    <2>1. UNCHANGED <<watched, progress>>
      BY <1>1 DEF wifiPanel
    <2>2. \A q \in WP!Paths : conns'[q] = conns[q] \/ Some(add, Truths(q, conns'[q]))
      BY <1>3, <1>5
    <2> QED
      BY <1>5, <2>1, <2>2, FollowSays
  <1>8. WP!WifiTypeOK'
    BY <1>1, <1>3, <1>6 DEF WifiLaw, WP!WifiTypeOK, wifiPanel, Msgs
  <1> QED
    BY <1>6, <1>7, <1>8 DEF WifiLaw

\* The errors that stand for calls without an answer.
LEMMA ErrorsMade ==
    ASSUME NEW u \in Seq(WP!Asked)
    PROVE  LET e == [i \in DOMAIN u |-> WP!Reply(u[i], "error")] IN
           /\ e \in Seq(Msgs)
           /\ \A k : Count(e, RepliesTo(k)) = Count(u, CallsFor(k))
           /\ \A p, s : ~Some(e, FalseClaims(p, s)) /\ ~Some(e, OwnerMsgs)
  <1> DEFINE e == [i \in DOMAIN u |-> WP!Reply(u[i], "error")]
  <1>1. /\ DOMAIN e = 1 .. Len(u) /\ Len(u) \in Nat
        /\ \A i \in 1 .. Len(u) : u[i] \in WP!Asked /\ e[i] = WP!Reply(u[i], "error")
    OBVIOUS
  <1>2. \A i \in 1 .. Len(u) : /\ e[i] \in WP!Replies /\ e[i] \in Msgs /\ e[i].call = u[i] /\ e[i].result = "error"
                               /\ e[i].type = "reply"
    <2> TAKE i \in 1 .. Len(u)
    <2>1. u[i] \in WP!Asked /\ e[i] = WP!Reply(u[i], "error")
      BY <1>1
    <2> HIDE DEF e
    <2>2. e[i] \in WP!Replies /\ e[i].call = u[i] /\ e[i].result = "error"
      BY <2>1, RepliesMade
    <2> QED
      BY <2>2, ReplyFields
  <1>3. \A i \in 1 .. Len(u) : u[i] \in WP!Call
    BY <1>1 DEF WP!Call
  <1>4. e \in Seq(Msgs) /\ Len(e) = Len(u)
    <2>1. e = [i \in 1 .. Len(u) |-> e[i]]
      BY <1>1
    <2> HIDE DEF e
    <2> QED
      BY <1>1, <1>2, <2>1
  <1> HIDE DEF e
  <1>5. ASSUME NEW k PROVE Count(e, RepliesTo(k)) = Count(u, CallsFor(k))
    <2>1. Marks(e, RepliesTo(k)) = Marks(u, CallsFor(k))
      BY <1>2, <1>3, <1>4 DEF Marks, RepliesTo, CallsFor
    <2> QED
      BY <2>1 DEF Count
  <1>6. ASSUME NEW p, NEW s PROVE ~Some(e, FalseClaims(p, s)) /\ ~Some(e, OwnerMsgs)
    <2>1. \A i \in 1 .. Len(e) : e[i] \notin FalseClaims(p, s) /\ e[i] \notin OwnerMsgs
      BY <1>2, <1>4, MessageSays DEF OwnerMsgs
    <2> QED
      BY <2>1 DEF Some
  <1> QED
    BY <1>4, <1>5, <1>6 DEF e

\* NetworkManager starts; the proxy asks it before it knows it.
LEMMA ServiceStartsStep == ASSUME WifiLaw, WP!ServiceStarts PROVE WifiLaw'
  <1> DEFINE c == [kind |-> "proxy", owner |-> lives + 1, arg |-> NoArgument]
  <1>1. /\ networkManager = 0 /\ wifiCalls = <<>> /\ lives < MaxService
        /\ networkManager' = lives + 1 /\ lives' = lives + 1 /\ wifiCalls' = <<c>>
        /\ UNCHANGED <<wifiMail, wifiPanel, adapters, air, radio, conns>>
    BY DEF WP!ServiceStarts, WP!panelVars, WP!proxy, WP!reading, WP!lists, WP!connection, wifiPanel
  <1>2. lives + 1 \in 0 .. MaxService /\ lives + 1 # 0 /\ lives + 1 # networkManager
    BY <1>1, WifiTyped, WifiNames DEF WifiLaw
  <1>3. c \in WP!Call /\ c.kind = "proxy"
    BY <1>2 DEF WP!Call, WP!CallOf
  <1> HIDE DEF c
  <1>4. /\ wifiCalls' \in Seq(WP!Call) /\ Len(wifiCalls') = 1 /\ wifiCalls'[1] = c /\ wifiCalls' # <<>>
        /\ \A T : Count(wifiCalls', T) = IF c \in T THEN 1 ELSE 0
    BY <1>1, <1>3, SomeOne
  <1>5. Due(wifiCalls') /\ ProxyFirst(wifiCalls', networkManager')
    BY <1>1, <1>2, <1>3, <1>4 DEF Due, ProxyFirst
  <1>6. \A T : Count(wifiCalls, T) = 0
    BY <1>1, FS_EmptySet DEF Count, Marks
  <1>7. WifiCounts'
    <2>1. /\ c \notin CallsFor({"list"}) /\ c \notin CallsFor({"activate", "add"}) /\ c \notin CallsFor({"scan"})
      BY <1>3 DEF CallsFor
    <2>2. \A k \in {{"list"}, {"activate", "add"}, {"scan"}} : Answering(k)' = Answering(k)
      BY <1>1, <1>4, <1>6, <2>1 DEF Answering
    <2> QED
      BY <1>1, <1>5, <2>2 DEF WifiLaw, WifiCounts, wifiPanel
  <1>8. WifiTold' /\ WifiList' /\ WifiButtons'
    BY <1>5 DEF WifiTold, OwnerTold, RadioTold, WifiList, ListDue, WifiButtons, WifiRead, Reads
  <1>9. WifiFollows'
    BY <1>1 DEF WifiLaw, WifiFollows, wifiPanel
  <1>10. WP!WifiTypeOK'
    BY <1>1, <1>2, <1>4 DEF WifiLaw, WP!WifiTypeOK, wifiPanel
  <1> QED
    BY <1>7, <1>8, <1>9, <1>10 DEF WifiLaw

\* A sequence of members of a set.
LEMMA SeqOf ==
    ASSUME NEW S, NEW T, NEW q \in Seq(S), \A i \in 1 .. Len(q) : q[i] \in T
    PROVE  q \in Seq(T)
  OBVIOUS

\* The calls that NetworkManager leaves without an answer.
LEMMA Unanswered ==
    ASSUME WifiLaw
    PROVE  LET own == wifiCalls # <<>> /\ Head(wifiCalls).kind = "proxy"
               u == IF own THEN Tail(wifiCalls) ELSE wifiCalls IN
           /\ u \in Seq(WP!Asked)
           /\ \A k \in {{"list"}, {"activate", "add"}, {"scan"}} : Count(u, CallsFor(k)) = Count(wifiCalls, CallsFor(k))
  <1> DEFINE own == wifiCalls # <<>> /\ Head(wifiCalls).kind = "proxy"
             u == IF own THEN Tail(wifiCalls) ELSE wifiCalls
  <1>1. wifiCalls \in Seq(WP!Call) /\ ProxyFirst(wifiCalls, networkManager)
    BY WifiTyped DEF WifiLaw, WifiCounts
  <1>2. CASE own
    <2>1. u = Tail(wifiCalls) /\ wifiCalls # <<>> /\ Head(wifiCalls).kind = "proxy"
      BY <1>2
    <2>2. /\ Tail(wifiCalls) \in Seq(WP!Call) /\ \A i \in 1 .. Len(Tail(wifiCalls)) : Tail(wifiCalls)[i] \in WP!Asked
          /\ \A T : Count(wifiCalls, T) = Count(Tail(wifiCalls), T) + (IF Head(wifiCalls) \in T THEN 1 ELSE 0)
          /\ \A T : Count(Tail(wifiCalls), T) \in Nat
      BY <1>1, <2>1, CallAnswered
    <2>3. \A k \in {{"list"}, {"activate", "add"}, {"scan"}} : Head(wifiCalls) \notin CallsFor(k)
      BY <2>1 DEF CallsFor
    <2>4. Tail(wifiCalls) \in Seq(WP!Asked)
      BY <2>2, SeqOf
    <2> HIDE DEF u
    <2> QED
      BY <2>1, <2>2, <2>3, <2>4 DEF u
  <1>3. CASE ~own
    <2>1. \A i \in 1 .. Len(wifiCalls) : wifiCalls[i] \in WP!Call /\ wifiCalls[i].kind # "proxy"
      BY <1>1, <1>3 DEF ProxyFirst
    <2>2. \A i \in 1 .. Len(wifiCalls) : wifiCalls[i] \in WP!Asked
      BY <2>1, CallFields
    <2>3. wifiCalls \in Seq(WP!Asked)
      BY <1>1, <2>2
    <2> QED
      BY <1>3, <2>3
  <1> QED
    BY <1>2, <1>3

\* NetworkManager quits: the proxy is told, and whoever waits gets an error.
LEMMA ServiceQuitsStep == ASSUME WifiLaw, WP!ServiceQuits PROVE WifiLaw'
  <1> DEFINE own == wifiCalls # <<>> /\ Head(wifiCalls).kind = "proxy"
             u == IF own THEN Tail(wifiCalls) ELSE wifiCalls
             e == [i \in DOMAIN u |-> WP!Reply(u[i], "error")]
             x == WP!Owner(0, FALSE)
             first == <<x>>
             add == first \o e
  <1>1. /\ networkManager' = 0 /\ conns' = [p \in WP!Paths |-> "none"] /\ wifiCalls' = <<>>
        /\ wifiMail' = wifiMail \o add
        /\ UNCHANGED <<wifiPanel, lives, adapters, air, radio>>
    BY DEF WP!ServiceQuits, WP!Says, WP!panelVars, WP!proxy, WP!reading, WP!lists, WP!connection, wifiPanel
  <1>2. /\ u \in Seq(WP!Asked)
        /\ \A k \in {{"list"}, {"activate", "add"}, {"scan"}} : Count(u, CallsFor(k)) = Count(wifiCalls, CallsFor(k))
    BY Unanswered
  <1> HIDE DEF own, u
  <1>3. /\ e \in Seq(Msgs) /\ \A k : Count(e, RepliesTo(k)) = Count(u, CallsFor(k))
        /\ \A p, s : ~Some(e, FalseClaims(p, s)) /\ ~Some(e, OwnerMsgs)
    BY <1>2, ErrorsMade
  <1>4. x \in Msgs /\ x.type = "owner" /\ x.life = 0
    <2>1. 0 \in 0 .. MaxService
      BY WifiNames
    <2>2. [type |-> "owner", life |-> 0, wifi |-> FALSE] \in [type : {"owner"}, life : 0 .. MaxService, wifi : BOOLEAN]
      BY <2>1
    <2>3. [type : {"owner"}, life : 0 .. MaxService, wifi : BOOLEAN] \subseteq Msgs
      BY Zenon DEF Msgs, WP!Signals
    <2> QED
      BY <2>2, <2>3 DEF WP!Owner
  <1> HIDE DEF e, x
  <1>5. /\ first \in Seq(Msgs) /\ \A T : Some(first, T) <=> x \in T
        /\ \A T : Count(first, T) = IF x \in T THEN 1 ELSE 0
    BY <1>4, SomeOne
  <1> HIDE DEF first
  <1>6. /\ add \in Seq(Msgs) /\ \A T : Some(add, T) <=> Some(first, T) \/ Some(e, T)
        /\ \A T : Count(add, T) = Count(first, T) + Count(e, T)
        /\ \A T : Count(e, T) \in Nat
    BY <1>3, <1>5, SomeBoth
  <1> HIDE DEF add
  <1>7. /\ x \in OwnerMsgs /\ x \in ReadMsgs /\ x \notin OldOwners(0) /\ x \notin WP!Replies
        /\ \A p, s : x \notin FalseClaims(p, s) /\ x \in Truths(p, s)
    BY <1>4, WifiMessages, MessageSays DEF OwnerMsgs, ReadMsgs, OldOwners
  <1>8. /\ wifiMail' \in Seq(Msgs)
        /\ \A T : Some(wifiMail', T) <=> Some(wifiMail, T) \/ Some(add, T)
        /\ \A B, T : Fol(add, B, T) /\ (Some(add, T) \/ Fol(wifiMail, B, T)) => Fol(wifiMail', B, T)
        /\ \A T : Count(wifiMail', T) = Count(wifiMail, T) + Count(add, T)
        /\ \A T : Count(wifiMail, T) \in Nat
    BY <1>1, <1>6, WifiTyped, SomeBoth DEF WifiLaw
  <1>9. \A B, T : ~Some(add, B) => Fol(add, B, T)
    BY DEF Some, Fol
  <1>10. WifiCounts'
    <2>1. ~\E i \in 1 .. Len(<<>>) : TRUE
      OBVIOUS
    <2>2. \A T : Count(<<>>, T) = 0
      BY <2>1, FS_EmptySet DEF Count, Marks
    <2>3. \A k : x \notin RepliesTo(k)
      BY <1>7 DEF RepliesTo
    <2>4. \A k : Count(add, RepliesTo(k)) = Count(u, CallsFor(k)) /\ Count(u, CallsFor(k)) \in Nat
      BY <1>3, <1>5, <1>6, <2>3
    <2>5. \A k \in {{"list"}, {"activate", "add"}, {"scan"}} :
            Count(wifiMail', RepliesTo(k)) = Count(wifiMail, RepliesTo(k)) + Count(wifiCalls, CallsFor(k))
      BY <1>2, <1>8, <2>4
    <2>6. \A k \in {{"list"}, {"activate", "add"}, {"scan"}} : Answering(k)' = Answering(k)
      <3> TAKE k \in {{"list"}, {"activate", "add"}, {"scan"}}
      <3>1. Count(wifiCalls, CallsFor(k)) \in Nat /\ Count(wifiMail, RepliesTo(k)) \in Nat
        BY <1>2, <1>8, <2>4
      <3>2. Count(wifiCalls', CallsFor(k)) = 0
        BY <1>1, <2>2
      <3>3. Count(wifiMail', RepliesTo(k)) = Count(wifiMail, RepliesTo(k)) + Count(wifiCalls, CallsFor(k))
        BY <2>5
      <3>4. Answering(k)' = Count(wifiCalls', CallsFor(k)) + Count(wifiMail', RepliesTo(k))
        BY DEF Answering, CallsFor, RepliesTo
      <3> QED
        BY <3>1, <3>2, <3>3, <3>4 DEF Answering
    <2>7. ProxyFirst(wifiCalls', networkManager')
      BY <1>1, <2>1 DEF ProxyFirst
    <2> QED
      BY <1>1, <2>6, <2>7 DEF WifiLaw, WifiCounts, wifiPanel
  <1>11. WifiTold'
    <2>1. Some(add, OwnerMsgs) /\ ~Some(add, OldOwners(0))
      <3>1. ~Some(e, OldOwners(0))
        BY <1>3 DEF Some, OldOwners
      <3> QED
        BY <1>5, <1>6, <1>7, <3>1
    <2> QED
      BY <1>1, <1>8, <1>9, <2>1 DEF WifiTold, OwnerTold
  <1>12. WifiList' /\ WifiButtons'
    <2>1. Some(wifiMail', ReadMsgs)
      BY <1>5, <1>6, <1>7, <1>8
    <2> QED
      BY <2>1 DEF WifiList, ListDue, WifiButtons, WifiRead, Reads
  <1>13. WifiFollows'
    <2>1. UNCHANGED <<watched, progress>>
      BY <1>1 DEF wifiPanel
    <2>2. \A p \in WP!Paths : Some(add, Truths(p, conns'[p])) /\ ~Some(add, FalseClaims(p, conns'[p]))
      BY <1>3, <1>5, <1>6, <1>7
    <2> QED
      BY <1>1, <1>6, <1>9, <2>1, <2>2, FollowSays
  <1>14. WP!WifiTypeOK'
    <2>1. wifiCalls' \in Seq(WP!Call) /\ networkManager' \in 0 .. MaxService
      BY <1>1, WifiNames
    <2>2. conns' \in [WP!Paths -> WP!States \cup {"none", "ended"}]
      BY <1>1
    <2> QED
      BY <1>1, <1>8, <2>1, <2>2 DEF WifiLaw, WP!WifiTypeOK, wifiPanel, Msgs
  <1> QED
    BY <1>10, <1>11, <1>12, <1>13, <1>14 DEF WifiLaw

\* The first call gets its reply.
LEMMA ReplyGiven ==
    ASSUME WifiLaw, wifiCalls # <<>>, Head(wifiCalls).kind # "proxy",
           NEW r \in WP!Replies, r.call = Head(wifiCalls),
           wifiCalls' = Tail(wifiCalls), wifiMail' = wifiMail \o <<r>>,
           UNCHANGED <<wifiPanel, networkManager, lives, adapters, air, radio>>,
           conns' \in [WP!Paths -> WP!States \cup {"none", "ended"}],
           r.call.kind = "list" => r \in TrueAnswers(nameOwner, networkManager, WP!Current),
           WifiFollows'
    PROVE  WifiLaw'
  <1>1. wifiCalls \in Seq(WP!Call) /\ ProxyFirst(wifiCalls, networkManager)
    BY WifiTyped DEF WifiLaw, WifiCounts
  <1>2. /\ wifiCalls' \in Seq(WP!Call) /\ ~Due(wifiCalls) /\ ~Due(wifiCalls')
        /\ ProxyFirst(wifiCalls', networkManager)
        /\ \A T : Some(wifiCalls, T) <=> r.call \in T \/ Some(wifiCalls', T)
        /\ \A T : Count(wifiCalls, T) = Count(wifiCalls', T) + (IF r.call \in T THEN 1 ELSE 0)
        /\ \A T : Count(wifiCalls', T) \in Nat
    BY <1>1, CallAnswered
  <1>3. r \in Msgs /\ r.type = "reply" /\ r.call \in WP!Call
    BY ReplyFields
  <1>4. /\ <<r>> \in Seq(Msgs) /\ \A T : Some(<<r>>, T) <=> r \in T
        /\ \A B, T : r \notin B => Fol(<<r>>, B, T)
        /\ \A T : Count(<<r>>, T) = IF r \in T THEN 1 ELSE 0
    BY <1>3, SomeOne
  <1> DEFINE add == <<r>>
  <1> HIDE DEF add
  <1>5. /\ wifiMail' \in Seq(Msgs)
        /\ \A T : Some(wifiMail', T) <=> Some(wifiMail, T) \/ r \in T
        /\ \A B, T : r \notin B /\ Fol(wifiMail, B, T) => Fol(wifiMail', B, T)
        /\ \A T : Count(wifiMail', T) = Count(wifiMail, T) + (IF r \in T THEN 1 ELSE 0)
        /\ \A T : Count(wifiMail, T) \in Nat
    <2>1. /\ wifiMail \o add \in Seq(Msgs)
          /\ \A T : Some(wifiMail \o add, T) <=> Some(wifiMail, T) \/ Some(add, T)
          /\ \A B, T : Fol(add, B, T) /\ (Some(add, T) \/ Fol(wifiMail, B, T)) => Fol(wifiMail \o add, B, T)
          /\ \A T : Count(wifiMail \o add, T) = Count(wifiMail, T) + Count(add, T)
          /\ \A T : Count(wifiMail, T) \in Nat
      BY <1>4, WifiTyped, SomeBoth DEF WifiLaw, add
    <2>2. wifiMail' = wifiMail \o add
      BY DEF add
    <2>3. /\ \A T : Some(add, T) <=> r \in T
          /\ \A B, T : r \notin B => Fol(add, B, T)
          /\ \A T : Count(add, T) = IF r \in T THEN 1 ELSE 0
      BY <1>4 DEF add
    <2>4. ASSUME NEW B, NEW T, r \notin B, Fol(wifiMail, B, T) PROVE Fol(wifiMail', B, T)
      BY <2>1, <2>2, <2>3, <2>4, SMTT(30)
    <2>5. \A T : Count(wifiMail', T) = Count(wifiMail, T) + (IF r \in T THEN 1 ELSE 0)
      BY <2>1, <2>2, <2>3
    <2>6. \A T : Some(wifiMail', T) <=> Some(wifiMail, T) \/ r \in T
      BY <2>1, <2>2, <2>3
    <2> QED
      BY <2>1, <2>2, <2>4, <2>5, <2>6
  <1>6. /\ networkManager' = networkManager /\ adapters' = adapters /\ air' = air /\ (radio' <=> radio)
        /\ nameOwner' = nameOwner /\ (wifi' <=> wifi) /\ (wifiMapped' <=> wifiMapped) /\ (loading' <=> loading)
        /\ (loadAgain' <=> loadAgain) /\ (stale' <=> stale) /\ (scheduled' <=> scheduled)
        /\ devices' = devices /\ networks' = networks /\ (listOn' <=> listOn) /\ (scanOn' <=> scanOn)
        /\ remaining' = remaining /\ (connecting' <=> connecting)
    BY DEF wifiPanel
  <1>7. \A k : r \in RepliesTo(k) <=> r.call \in CallsFor(k)
    BY <1>3 DEF RepliesTo, CallsFor
  <1>8. WifiCounts'
    <2>1. \A k : Answering(k)' = Answering(k)
      <3> TAKE k
      <3>1. /\ Count(wifiCalls, CallsFor(k)) = Count(wifiCalls', CallsFor(k)) + (IF r.call \in CallsFor(k) THEN 1 ELSE 0)
            /\ Count(wifiMail', RepliesTo(k)) = Count(wifiMail, RepliesTo(k)) + (IF r.call \in CallsFor(k) THEN 1 ELSE 0)
            /\ Count(wifiMail, RepliesTo(k)) \in Nat /\ Count(wifiCalls', CallsFor(k)) \in Nat
        BY <1>2, <1>5, <1>7
      <3> QED
        BY <3>1 DEF Answering
    <2> QED
      BY <1>2, <1>6, <2>1 DEF WifiLaw, WifiCounts, One
  <1>9. r \notin OwnerMsgs /\ r \notin RadioMsgs /\ r \notin ReadMsgs
    BY <1>3 DEF OwnerMsgs, RadioMsgs, ReadMsgs
  <1>10. WifiTold'
    <2>1. \A sv, b : r \notin OldOwners(sv) /\ r \notin OldRadios(b)
      BY <1>9 DEF OldOwners, OldRadios
    <2>2. OwnerTold(wifiMail', Due(wifiCalls'), nameOwner', networkManager')
      BY <1>2, <1>5, <1>6, <2>1 DEF WifiLaw, WifiTold, OwnerTold
    <2>3. ASSUME networkManager # 0 PROVE RadioTold(wifiMail', Due(wifiCalls'), wifi', radio')
      <3>1. RadioTold(wifiMail, Due(wifiCalls), wifi, radio)
        BY <2>3 DEF WifiLaw, WifiTold
      <3>2. radio' = radio
        OBVIOUS
      <3> QED
        BY <1>2, <1>5, <1>6, <2>1, <3>1, <3>2 DEF RadioTold
    <2> QED
      BY <1>6, <2>2, <2>3 DEF WifiTold
  <1>11. WifiRead => WifiRead'
    BY <1>2, <1>5, <1>6 DEF WifiRead, Reads
  <1>12. WifiList'
    <2>1. WP!Current' = WP!Current /\ Shown' = Shown
      BY <1>6 DEF WP!Current, WP!Snapshot, Shown
    <2>2. r.call \in CallsFor({"list"}) => r \in TrueAnswers(nameOwner, networkManager, WP!Current)
      BY DEF CallsFor
    <2>3. Some(wifiCalls, CallsFor({"list"})) => Some(wifiCalls', CallsFor({"list"})) \/ Some(wifiMail', TrueAnswers(nameOwner, networkManager, WP!Current))
      BY <1>2, <1>5, <2>2
    <2>4. Some(wifiMail, TrueAnswers(nameOwner, networkManager, WP!Current)) => Some(wifiMail', TrueAnswers(nameOwner, networkManager, WP!Current))
      BY <1>5
    <2> QED
      BY <1>6, <1>11, <2>1, <2>3, <2>4 DEF WifiLaw, WifiList, ListDue, WifiRead
  <1>13. WifiButtons'
    <2>1. WP!Usable' <=> WP!Usable
      BY <1>6 DEF WP!Usable
    <2> QED
      BY <1>6, <1>11, <2>1 DEF WifiLaw, WifiButtons, ButtonsRight
  <1>14. WP!WifiTypeOK'
    BY <1>2, <1>5 DEF WifiLaw, WP!WifiTypeOK, wifiPanel, Msgs
  <1> QED
    BY <1>8, <1>10, <1>12, <1>13, <1>14 DEF WifiLaw

\* What is said of the connections after a reply that says nothing false.
LEMMA FollowReply ==
    ASSUME WifiLaw, NEW r \in WP!Replies, wifiMail' = wifiMail \o <<r>>, UNCHANGED <<conns, watched, progress>>,
           \A p \in WP!Paths : r \notin FalseClaims(p, conns[p])
    PROVE  WifiFollows'
  <1> DEFINE add == <<r>>
  <1>1. /\ add \in Seq(Msgs) /\ \A B, T : r \notin B => Fol(add, B, T)
    <2>1. r \in Msgs
      BY ReplyFields
    <2> QED
      BY <2>1, SomeOne
  <1>2. wifiMail' = wifiMail \o add
    OBVIOUS
  <1> HIDE DEF add
  <1>3. UNCHANGED <<watched, progress>> /\ UNCHANGED conns
    OBVIOUS
  <1>4. \A p \in WP!Paths : Fol(add, FalseClaims(p, conns'[p]), Truths(p, conns'[p]))
    BY <1>1, <1>3
  <1> QED
    BY <1>1, <1>2, <1>3, <1>4, FollowSays

\* A reply that is no claim or a true one, and a list that is true.
LEMMA ReplyTrue ==
    ASSUME WifiLaw, wifiCalls # <<>>, Head(wifiCalls).kind # "proxy",
           NEW r \in WP!Replies, r.call = Head(wifiCalls),
           wifiCalls' = Tail(wifiCalls), wifiMail' = wifiMail \o <<r>>,
           UNCHANGED <<wifiPanel, networkManager, lives, adapters, air, radio>>, UNCHANGED conns,
           r.call.kind = "list" =>
                r.result = "timeout" \/ (r.result = "error" /\ networkManager = 0) \/ (r.result = "ok" /\ r.found = WP!Current),
           \/ r.result # "ok" \/ r.call.kind \in {"list", "scan"}
           \/ r.call.kind = "status" /\ r.state = conns[r.call.arg]
    PROVE  WifiLaw'
  <1>1. r.call.kind = "list" => r \in TrueAnswers(nameOwner, networkManager, WP!Current)
    BY DEF TrueAnswers
  <1>2. \A p \in WP!Paths : r \notin FalseClaims(p, conns[p])
    <2>1. r \in Msgs /\ r.type = "reply"
      BY ReplyFields
    <2> QED
      BY <2>1, ReplyFields, MessageSays
  <1>3. WifiFollows'
    <2>1. UNCHANGED <<conns, watched, progress>>
      BY DEF wifiPanel
    <2> QED
      BY <1>2, <2>1, FollowReply
  <1>4. conns' \in [WP!Paths -> WP!States \cup {"none", "ended"}]
    BY WifiTyped DEF WifiLaw
  <1> QED
    BY <1>1, <1>3, <1>4, ReplyGiven

\* A connection begins, with a number that none had in this life.
LEMMA BegunStep ==
    ASSUME WifiLaw, wifiCalls # <<>>, NEW c \in WP!Asked, c = Head(wifiCalls), c.kind \in {"activate", "add"},
           NEW p \in WP!Paths, conns[p] = "none", conns' = [conns EXCEPT ![p] = "activating"],
           wifiCalls' = Tail(wifiCalls), wifiMail' = wifiMail \o <<WP!Begun(c, p)>>,
           UNCHANGED <<wifiPanel, networkManager, lives, adapters, air, radio>>
    PROVE  WifiLaw'
  <1> DEFINE r == WP!Begun(c, p)
             add == <<r>>
  <1>1. r \in WP!Replies /\ r.call = c /\ r.result = "ok" /\ r.path = p
    BY RepliesMade
  <1>2. wifiMail' = wifiMail \o add
    OBVIOUS
  <1> HIDE DEF r
  <1>3. r \in Msgs /\ r.type = "reply"
    BY <1>1, ReplyFields
  <1>4. /\ add \in Seq(Msgs) /\ \A B, T : r \notin B => Fol(add, B, T)
        /\ \A T : Some(add, T) <=> r \in T
    BY <1>3, SomeOne
  <1> HIDE DEF add
  <1>5. /\ conns \in [WP!Paths -> WP!States \cup {"none", "ended"}] /\ wifiMail \in Seq(Msgs)
        /\ progress \in WP!States \cup {"blank", "ended", "unreadable", "lost"} /\ watched \in WP!Paths \cup {0}
    BY WifiTyped DEF WifiLaw
  <1>6. /\ conns' \in [WP!Paths -> WP!States \cup {"none", "ended"}] /\ conns'[p] = "activating"
        /\ \A q \in WP!Paths : q # p => conns'[q] = conns[q]
    BY <1>5 DEF WP!States
  <1>7. /\ \A T : Some(wifiMail', T) <=> Some(wifiMail, T) \/ Some(add, T)
        /\ \A B, T : Fol(add, B, T) /\ (Some(add, T) \/ Fol(wifiMail, B, T)) => Fol(wifiMail', B, T)
    BY <1>2, <1>4, <1>5, SomeBoth
  <1>8. \A q \in WP!Paths : r \notin FalseClaims(q, conns'[q])
    BY <1>1, <1>3, <1>6, MessageSays
  <1>9. /\ \A s : FalseClaims(p, s) \subseteq FalseClaims(p, "none")
        /\ \A s : Truths(p, "none") \subseteq Truths(p, s)
    <2>1. \A x \in Msgs : /\ \A s : x \in FalseClaims(p, s) => x \in FalseClaims(p, "none")
                          /\ \A s : x \in Truths(p, "none") => x \in Truths(p, s)
      BY NothingSaysNone
    <2>2. \A s : FalseClaims(p, s) \subseteq Msgs /\ Truths(p, s) \subseteq Msgs
      BY DEF FalseClaims, Truths
    <2> QED
      BY <2>1, <2>2
  <1>10. Follow(wifiMail', conns')
    <2> SUFFICES ASSUME NEW q \in WP!Paths
                 PROVE  Fol(wifiMail', FalseClaims(q, conns'[q]), Truths(q, conns'[q]))
      BY DEF Follow
    <2>1. Fol(wifiMail, FalseClaims(q, conns[q]), Truths(q, conns[q]))
      BY DEF WifiLaw, WifiFollows, Follow
    <2>2. Fol(wifiMail, FalseClaims(q, conns'[q]), Truths(q, conns'[q]))
      <3>1. CASE q # p
        BY <1>6, <2>1, <3>1
      <3>2. CASE q = p
        <4>1. Fol(wifiMail, FalseClaims(p, "none"), Truths(p, "none"))
          BY <2>1, <3>2
        <4>2. Fol(wifiMail, FalseClaims(p, "activating"), Truths(p, "activating"))
          BY <1>9, <4>1 DEF Fol
        <4> QED
          BY <1>6, <3>2, <4>2
      <3> QED
        BY <3>1, <3>2
    <2> QED
      BY <1>4, <1>7, <1>8, <2>2
  <1>11. Progressed(wifiMail', conns', watched', progress')
    <2> SUFFICES ASSUME watched # 0
                 PROVE  progress \in {conns'[watched], "unreadable"} \/ Some(wifiMail', Truths(watched, conns'[watched]))
      BY DEF Progressed, wifiPanel
    <2>1. progress \in {conns[watched], "unreadable"} \/ Some(wifiMail, Truths(watched, conns[watched]))
      BY DEF WifiLaw, WifiFollows, Progressed
    <2>2. CASE watched # p
      BY <1>5, <1>6, <1>7, <2>1, <2>2
    <2>3. CASE watched = p
      <3>1. progress # "none"
        BY <1>5 DEF WP!States
      <3>2. progress = "unreadable" \/ Some(wifiMail, Truths(p, "none"))
        BY <2>1, <2>3, <3>1
      <3>3. Some(wifiMail, Truths(p, "none")) => Some(wifiMail, Truths(p, "activating"))
        BY <1>9 DEF Some
      <3> QED
        BY <1>6, <1>7, <2>3, <3>2, <3>3
    <2> QED
      BY <2>2, <2>3
  <1>12. WifiFollows'
    BY <1>10, <1>11 DEF WifiFollows
  <1>13. wifiMail' = wifiMail \o <<r>> /\ r.call = Head(wifiCalls) /\ Head(wifiCalls).kind # "proxy" /\ r.call.kind # "list"
    BY <1>1, <1>2 DEF add
  <1> QED
    BY <1>1, <1>6, <1>12, <1>13, ReplyGiven

\* The proxy's own call is answered: it knows the owner and the radio.
LEMMA ProxyAnswered ==
    ASSUME WifiLaw, wifiCalls # <<>>, Head(wifiCalls).kind = "proxy",
           wifiCalls' = Tail(wifiCalls), wifiMail' = wifiMail \o <<WP!Owner(networkManager, radio)>>,
           UNCHANGED <<wifiPanel, networkManager, lives, adapters, air, radio>>, UNCHANGED conns
    PROVE  WifiLaw'
  <1>1. /\ wifiCalls \in Seq(WP!Call) /\ ProxyFirst(wifiCalls, networkManager) /\ wifiMail \in Seq(Msgs)
        /\ networkManager \in 0 .. MaxService /\ radio \in BOOLEAN
    BY WifiTyped DEF WifiLaw, WifiCounts
  <1> DEFINE x == WP!Owner(networkManager, radio)
             add == <<x>>
  <1>2. x \in Msgs /\ x.type = "owner" /\ x.life = networkManager /\ x.wifi = radio
    BY <1>1, MessagesMade
  <1>3. wifiMail' = wifiMail \o add
    OBVIOUS
  <1> HIDE DEF x
  <1>4. /\ add \in Seq(Msgs) /\ \A B, T : x \notin B => Fol(add, B, T)
        /\ \A T : Some(add, T) <=> x \in T
        /\ \A T : Count(add, T) = IF x \in T THEN 1 ELSE 0
    BY <1>2, SomeOne
  <1> HIDE DEF add
  <1>5. /\ wifiMail' \in Seq(Msgs)
        /\ \A T : Some(wifiMail', T) <=> Some(wifiMail, T) \/ Some(add, T)
        /\ \A B, T : Fol(add, B, T) /\ (Some(add, T) \/ Fol(wifiMail, B, T)) => Fol(wifiMail', B, T)
        /\ \A T : Count(wifiMail', T) = Count(wifiMail, T) + Count(add, T)
        /\ \A T : Count(wifiMail, T) \in Nat
    <2>1. /\ wifiMail \o add \in Seq(Msgs)
          /\ \A T : Some(wifiMail \o add, T) <=> Some(wifiMail, T) \/ Some(add, T)
          /\ \A B, T : Fol(add, B, T) /\ (Some(add, T) \/ Fol(wifiMail, B, T)) => Fol(wifiMail \o add, B, T)
          /\ \A T : Count(wifiMail \o add, T) = Count(wifiMail, T) + Count(add, T)
          /\ \A T : Count(wifiMail, T) \in Nat
      BY <1>1, <1>4, SomeBoth, ZenonT(40)
    <2> QED
      BY <1>3, <2>1
  <1>6. /\ x \in OwnerMsgs /\ x \in RadioMsgs /\ x \in ReadMsgs /\ x \notin WP!Replies
        /\ x \notin OldOwners(networkManager) /\ x \notin OldRadios(radio)
        /\ \A p, s : x \notin FalseClaims(p, s)
    BY <1>2, WifiMessages, MessageSays DEF OwnerMsgs, RadioMsgs, ReadMsgs, OldOwners, OldRadios
  <1>7. /\ wifiCalls' \in Seq(WP!Call) /\ ProxyFirst(wifiCalls', networkManager)
        /\ \A T : Count(wifiCalls, T) = Count(wifiCalls', T) + (IF Head(wifiCalls) \in T THEN 1 ELSE 0)
        /\ \A T : Count(wifiCalls', T) \in Nat
    BY <1>1, CallAnswered
  <1>8. WifiCounts'
    <2>1. \A k \in {{"list"}, {"activate", "add"}, {"scan"}} : Answering(k)' = Answering(k)
      <3> TAKE k \in {{"list"}, {"activate", "add"}, {"scan"}}
      <3>1. Head(wifiCalls) \notin CallsFor(k) /\ x \notin RepliesTo(k)
        BY <1>6 DEF CallsFor, RepliesTo
      <3>2. Count(wifiCalls', CallsFor(k)) = Count(wifiCalls, CallsFor(k)) /\ Count(wifiMail', RepliesTo(k)) = Count(wifiMail, RepliesTo(k))
        BY <1>4, <1>5, <1>7, <3>1
      <3>3. Answering(k)' = Count(wifiCalls', CallsFor(k)) + Count(wifiMail', RepliesTo(k))
        BY DEF Answering, CallsFor, RepliesTo
      <3> QED
        BY <3>2, <3>3 DEF Answering
    <2> QED
      BY <1>7, <2>1 DEF WifiLaw, WifiCounts, wifiPanel
  <1>9. WifiTold'
    <2>1. /\ Some(wifiMail', OwnerMsgs) /\ Fol(wifiMail', OldOwners(networkManager), OwnerMsgs)
          /\ Some(wifiMail', RadioMsgs) /\ Fol(wifiMail', OldRadios(radio), RadioMsgs)
      BY <1>4, <1>5, <1>6
    <2>2. OwnerTold(wifiMail', Due(wifiCalls'), nameOwner', networkManager')
      BY <2>1 DEF OwnerTold
    <2>3. RadioTold(wifiMail', Due(wifiCalls'), wifi', radio')
      <3>1. radio' = radio
        OBVIOUS
      <3> QED
        BY <2>1, <3>1 DEF RadioTold
    <2> QED
      BY <2>2, <2>3 DEF WifiTold
  <1>10. WifiList' /\ WifiButtons'
    <2>1. Some(wifiMail', ReadMsgs)
      BY <1>4, <1>5, <1>6
    <2> QED
      BY <2>1 DEF WifiList, ListDue, WifiButtons, WifiRead, Reads
  <1>11. WifiFollows'
    <2>1. UNCHANGED <<watched, progress>>
      BY DEF wifiPanel
    <2>2. \A p \in WP!Paths : Fol(add, FalseClaims(p, conns'[p]), Truths(p, conns'[p]))
      BY <1>4, <1>6
    <2> QED
      BY <1>3, <1>4, <2>1, <2>2, FollowSays
  <1>12. WP!WifiTypeOK'
    BY <1>5, <1>7 DEF WifiLaw, WP!WifiTypeOK, wifiPanel, Msgs
  <1> QED
    BY <1>8, <1>9, <1>10, <1>11, <1>12 DEF WifiLaw

\* The first call is answered.
LEMMA AnswerStep == ASSUME WifiLaw, WP!Answer PROVE WifiLaw'
  <1>1. /\ wifiCalls # <<>> /\ UNCHANGED <<wifiPanel, networkManager, lives, adapters, air, radio>>
    BY DEF WP!Answer, WP!panelVars, WP!proxy, WP!reading, WP!lists, WP!connection, wifiPanel
  <1>2. PICK c \in WP!Call : c = Head(wifiCalls)
    BY <1>1, WifiTyped, SomeLess DEF WifiLaw
  <1>3. (Due(wifiCalls) <=> c.kind = "proxy") /\ (c.kind = "proxy" => networkManager # 0)
    BY <1>1, <1>2, WifiTyped, CallAnswered DEF WifiLaw, WifiCounts
  <1>4. c.kind # "proxy" => c \in WP!Asked
    BY CallFields
  <1>5. conns \in [WP!Paths -> WP!States \cup {"none", "ended"}]
    BY WifiTyped DEF WifiLaw
  <1>6. CASE c.kind = "proxy"
    <2>1. wifiCalls' = Tail(wifiCalls) /\ wifiMail' = wifiMail \o <<WP!Owner(networkManager, radio)>> /\ UNCHANGED conns
      BY <1>2, <1>3, <1>6 DEF WP!Answer, WP!Says
    <2> QED
      BY <1>1, <1>2, <1>6, <2>1, ProxyAnswered
  <1>7. ASSUME NEW r \in WP!Replies, r.call = c, WP!Answered(r), UNCHANGED conns, c.kind # "proxy",
               c.kind = "list" => (r.result = "error" /\ networkManager = 0) \/ (r.result = "ok" /\ r.found = WP!Current),
               r.result # "ok" \/ c.kind \in {"list", "scan"} \/ (c.kind = "status" /\ r.state = conns[c.arg])
        PROVE  WifiLaw'
    <2>1. wifiCalls' = Tail(wifiCalls) /\ wifiMail' = wifiMail \o <<r>>
      BY <1>7 DEF WP!Answered, WP!Says
    <2> QED
      BY <1>1, <1>2, <1>7, <2>1, ReplyTrue
  <1>8. CASE c.kind # "proxy" /\ networkManager = 0
    <2>1. WP!Answered(WP!Reply(c, "error")) /\ UNCHANGED conns
      BY <1>2, <1>8 DEF WP!Answer
    <2>2. WP!Reply(c, "error") \in WP!Replies /\ WP!Reply(c, "error").call = c /\ WP!Reply(c, "error").result = "error"
      BY <1>4, <1>8, RepliesMade
    <2> QED
      BY <1>7, <1>8, <2>1, <2>2
  <1>9. CASE networkManager # 0 /\ c.kind = "list"
    <2>1. WP!Answered(WP!ListFound(c, WP!Snapshot)) /\ UNCHANGED conns
      BY <1>2, <1>9 DEF WP!Answer
    <2>2. WP!Snapshot \in [adapters : SUBSET Adapters, networks : SUBSET Networks] /\ WP!Current = WP!Snapshot
      BY <1>9, WifiTyped DEF WifiLaw, WP!Snapshot, WP!Current
    <2>3. /\ WP!ListFound(c, WP!Snapshot) \in WP!Replies /\ WP!ListFound(c, WP!Snapshot).call = c
          /\ WP!ListFound(c, WP!Snapshot).result = "ok" /\ WP!ListFound(c, WP!Snapshot).found = WP!Current
      BY <1>4, <1>9, <2>2, RepliesMade
    <2> QED
      BY <1>7, <1>9, <2>1, <2>3
  <1>10. CASE networkManager # 0 /\ c.kind = "scan"
    <2>1. (WP!Answered(WP!Reply(c, "ok")) \/ WP!Answered(WP!Reply(c, "error"))) /\ UNCHANGED conns
      BY <1>2, <1>10 DEF WP!Answer
    <2>2. /\ WP!Reply(c, "ok") \in WP!Replies /\ WP!Reply(c, "ok").call = c
          /\ WP!Reply(c, "error") \in WP!Replies /\ WP!Reply(c, "error").call = c
      BY <1>4, <1>10, RepliesMade
    <2> QED
      BY <1>7, <1>10, <2>1, <2>2
  <1>11. CASE networkManager # 0 /\ c.kind \in {"activate", "add"}
    <2>1. \/ \E p \in WP!Paths : /\ conns[p] = "none" /\ conns' = [conns EXCEPT ![p] = "activating"]
                                 /\ WP!Answered(WP!Begun(c, p))
          \/ WP!Answered(WP!Reply(c, "error")) /\ UNCHANGED conns
      BY <1>2, <1>11 DEF WP!Answer
    <2>2. CASE WP!Answered(WP!Reply(c, "error")) /\ UNCHANGED conns
      <3>1. /\ WP!Reply(c, "error") \in WP!Replies /\ WP!Reply(c, "error").call = c
            /\ WP!Reply(c, "error").result = "error"
        BY <1>4, <1>11, RepliesMade
      <3> QED
        BY <1>7, <1>11, <2>2, <3>1
    <2>3. ASSUME NEW p \in WP!Paths, conns[p] = "none", conns' = [conns EXCEPT ![p] = "activating"],
                 WP!Answered(WP!Begun(c, p))
          PROVE  WifiLaw'
      <3>1. wifiCalls' = Tail(wifiCalls) /\ wifiMail' = wifiMail \o <<WP!Begun(c, p)>>
        BY <2>3 DEF WP!Answered, WP!Says
      <3>2. c \in WP!Asked /\ c.kind \in {"activate", "add"}
        BY <1>4, <1>11
      <3> QED
        BY <1>1, <1>2, <2>3, <3>1, <3>2, BegunStep
    <2> QED
      BY <2>1, <2>2, <2>3
  <1>12. CASE networkManager # 0 /\ c.kind = "status"
    <2>1. /\ WP!Answered(IF conns[c.arg] \in WP!States THEN WP!Status(c, conns[c.arg]) ELSE WP!Reply(c, "error"))
          /\ UNCHANGED conns
      BY <1>2, <1>12 DEF WP!Answer
    <2>2. /\ WP!Reply(c, "error") \in WP!Replies /\ WP!Reply(c, "error").call = c
          /\ WP!Reply(c, "error").result = "error"
          /\ \A s \in WP!States : WP!Status(c, s) \in WP!Replies /\ WP!Status(c, s).call = c
                /\ WP!Status(c, s).state = s
      BY <1>4, <1>12, RepliesMade
    <2>3. CASE conns[c.arg] \in WP!States
      <3>1. WP!Answered(WP!Status(c, conns[c.arg])) /\ UNCHANGED conns
        BY <2>1, <2>3
      <3> QED
        BY <1>7, <1>12, <2>2, <2>3, <3>1
    <2>4. CASE conns[c.arg] \notin WP!States
      <3>1. WP!Answered(WP!Reply(c, "error")) /\ UNCHANGED conns
        BY <2>1, <2>4
      <3> QED
        BY <1>7, <1>12, <2>2, <3>1
    <2> QED
      BY <2>3, <2>4
  <1> QED
    BY <1>6, <1>8, <1>9, <1>10, <1>11, <1>12, CallFields

\* A call's time is up.
LEMMA TimesOutStep == ASSUME WifiLaw, WP!TimesOut PROVE WifiLaw'
  <1>1. /\ wifiCalls # <<>> /\ Head(wifiCalls).kind # "proxy"
        /\ UNCHANGED <<wifiPanel, networkManager, lives, adapters, air, radio>> /\ UNCHANGED conns
        /\ wifiCalls' = Tail(wifiCalls) /\ wifiMail' = wifiMail \o <<WP!Reply(Head(wifiCalls), "timeout")>>
    BY DEF WP!TimesOut, WP!Answered, WP!Says, WP!world, WP!panelVars, WP!proxy, WP!reading, WP!lists, WP!connection, wifiPanel
  <1>2. PICK c \in WP!Call : c = Head(wifiCalls)
    BY <1>1, WifiTyped, SomeLess DEF WifiLaw
  <1>3. /\ WP!Reply(c, "timeout") \in WP!Replies /\ WP!Reply(c, "timeout").call = c
        /\ WP!Reply(c, "timeout").result = "timeout"
    BY <1>1, <1>2, CallFields, RepliesMade
  <1> DEFINE r == WP!Reply(c, "timeout")
  <1>4. wifiMail' = wifiMail \o <<r>> /\ r.call = Head(wifiCalls)
    BY <1>1, <1>2, <1>3
  <1> HIDE DEF r
  <1> QED
    BY <1>1, <1>3, <1>4, ReplyTrue DEF r

\* What refresh leaves: an open panel has a reading under way, and one that
\* begins now or another one after it.
LEMMA RefreshLeaves ==
    ASSUME WifiLaw, NEW STATE yes, NEW STATE busy, NEW STATE once, NEW STATE life,
           yes \in BOOLEAN, busy \in BOOLEAN, once \in BOOLEAN, life \in 0 .. MaxService,
           WP!Refresh(yes, busy, once, life)
    PROVE  /\ wifiCalls' \in Seq(WP!Call) /\ ProxyFirst(wifiCalls', networkManager)
           /\ Due(wifiCalls') <=> Due(wifiCalls)
           /\ \A T : Some(wifiCalls, T) => Some(wifiCalls', T)
           /\ Count(wifiCalls', CallsFor({"scan"})) = Count(wifiCalls, CallsFor({"scan"}))
           /\ Count(wifiCalls', CallsFor({"activate", "add"})) = Count(wifiCalls, CallsFor({"activate", "add"}))
           /\ Count(wifiCalls', CallsFor({"list"})) + One(busy) = Count(wifiCalls, CallsFor({"list"})) + One(loading')
           /\ loading' \in BOOLEAN /\ loadAgain' \in BOOLEAN
           /\ yes => loading' /\ (loadAgain' \/ Some(wifiCalls', CallsFor({"list"})))
           /\ \A T : Count(wifiCalls, T) \in Nat /\ Count(wifiCalls', T) \in Nat
  <1>1. wifiCalls \in Seq(WP!Call) /\ ProxyFirst(wifiCalls, networkManager)
    BY WifiTyped DEF WifiLaw, WifiCounts
  <1>2. /\ loading' = (busy \/ yes) /\ loadAgain' = (once \/ (yes /\ busy))
        /\ yes /\ ~busy => wifiCalls' = Append(wifiCalls, [kind |-> "list", owner |-> life, arg |-> NoArgument])
        /\ ~(yes /\ ~busy) => wifiCalls' = wifiCalls
    BY DEF WP!Refresh
  <1>3. \A T : Count(wifiCalls, T) \in Nat
    BY <1>1, CountNone
  <1>4. CASE ~(yes /\ ~busy)
    <2>1. wifiCalls' = wifiCalls /\ (loading' <=> busy) /\ (yes => loadAgain') /\ loading' \in BOOLEAN /\ loadAgain' \in BOOLEAN
      BY <1>2, <1>4
    <2>2. One(loading') = One(busy)
      BY <2>1 DEF One
    <2> QED
      BY <1>1, <1>3, <1>4, <2>1, <2>2
  <1>5. CASE yes /\ ~busy
    <2> DEFINE c == [kind |-> "list", owner |-> life, arg |-> NoArgument]
               add == <<c>>
    <2>1. c \in WP!Call /\ c.kind = "list"
      BY DEF WP!Call, WP!Asked, WP!CallOf
    <2>2. wifiCalls' = wifiCalls \o add /\ loading' = TRUE /\ loadAgain' \in BOOLEAN
      <3>1. loadAgain' \in BOOLEAN /\ loading' = TRUE
        BY <1>2, <1>5
      <3>2. wifiCalls' = Append(wifiCalls, c)
        BY <1>2, <1>5
      <3> HIDE DEF c
      <3>3. Append(wifiCalls, c) = wifiCalls \o <<c>>
        BY <1>1, <2>1
      <3> QED
        BY <3>1, <3>2, <3>3
    <2> HIDE DEF c
    <2>3. /\ add \in Seq(WP!Call) /\ \A T : Some(add, T) <=> c \in T
          /\ \A T : Count(add, T) = IF c \in T THEN 1 ELSE 0
          /\ \A i \in 1 .. Len(add) : add[i].kind # "proxy"
      BY <2>1, SomeOne
    <2> HIDE DEF add
    <2>4. /\ wifiCalls' \in Seq(WP!Call)
          /\ ProxyFirst(wifiCalls, networkManager) => ProxyFirst(wifiCalls', networkManager)
          /\ Due(wifiCalls') <=> Due(wifiCalls)
          /\ \A T : Some(wifiCalls', T) <=> Some(wifiCalls, T) \/ Some(add, T)
          /\ \A T : Count(wifiCalls', T) = Count(wifiCalls, T) + Count(add, T)
      <3>1. /\ wifiCalls \o add \in Seq(WP!Call)
            /\ ProxyFirst(wifiCalls, networkManager) => ProxyFirst(wifiCalls \o add, networkManager)
            /\ Due(wifiCalls \o add) <=> Due(wifiCalls)
            /\ \A T : Some(wifiCalls \o add, T) <=> Some(wifiCalls, T) \/ Some(add, T)
            /\ \A T : Count(wifiCalls \o add, T) = Count(wifiCalls, T) + Count(add, T)
        BY <1>1, <2>3, CallsAdded
      <3> QED
        BY <2>2, <3>1
    <2>5. c \in CallsFor({"list"}) /\ c \notin CallsFor({"scan"}) /\ c \notin CallsFor({"activate", "add"})
      BY <2>1 DEF CallsFor
    <2>6. One(busy) = 0 /\ One(loading') = 1
      BY <1>5, <2>2 DEF One
    <2>7. /\ Count(wifiCalls', CallsFor({"list"})) = Count(wifiCalls, CallsFor({"list"})) + 1
          /\ Count(wifiCalls', CallsFor({"scan"})) = Count(wifiCalls, CallsFor({"scan"}))
          /\ Count(wifiCalls', CallsFor({"activate", "add"})) = Count(wifiCalls, CallsFor({"activate", "add"}))
      BY <1>3, <2>3, <2>4, <2>5
    <2>8. \A T : Count(wifiCalls', T) \in Nat
      BY <2>4, CountNone
    <2> QED
      BY <1>1, <1>3, <2>2, <2>3, <2>4, <2>5, <2>6, <2>7, <2>8
  <1> QED
    BY <1>4, <1>5

\* An open panel whose reading was asked for shows what there is in the end.
LEMMA ReadingDue ==
    ASSUME wifiMapped' => loading' /\ (loadAgain' \/ Some(wifiCalls', CallsFor({"list"})))
    PROVE  WifiList' /\ WifiButtons'
  BY DEF WifiList, WifiButtons, ListDue, Reads

\* The timer of queue_refresh, and the panel that opens.
LEMMA RefreshedStep ==
    ASSUME WifiLaw, wifiMapped' \in BOOLEAN, scheduled' \in BOOLEAN,
           UNCHANGED <<networkManager, lives, adapters, air, radio, conns, wifiMail, nameOwner, wifi, stale,
                       devices, networks, listOn, scanOn, remaining, connecting, form, watched, progress>>,
           NEW STATE yes, yes \in BOOLEAN, WP!Refresh(yes, loading, loadAgain, nameOwner), wifiMapped' <=> yes
    PROVE  WifiLaw'
  <1>1. /\ loading \in BOOLEAN /\ loadAgain \in BOOLEAN /\ nameOwner \in 0 .. MaxService
    BY WifiTyped DEF WifiLaw
  <1>2. /\ wifiCalls' \in Seq(WP!Call) /\ ProxyFirst(wifiCalls', networkManager)
        /\ Due(wifiCalls') <=> Due(wifiCalls)
        /\ Count(wifiCalls', CallsFor({"scan"})) = Count(wifiCalls, CallsFor({"scan"}))
        /\ Count(wifiCalls', CallsFor({"activate", "add"})) = Count(wifiCalls, CallsFor({"activate", "add"}))
        /\ Count(wifiCalls', CallsFor({"list"})) + One(loading) = Count(wifiCalls, CallsFor({"list"})) + One(loading')
        /\ loading' \in BOOLEAN /\ loadAgain' \in BOOLEAN
        /\ yes => loading' /\ (loadAgain' \/ Some(wifiCalls', CallsFor({"list"})))
        /\ \A T : Count(wifiCalls, T) \in Nat /\ Count(wifiCalls', T) \in Nat
    BY <1>1, RefreshLeaves
  <1>3. WifiCounts'
    <2>1. /\ One(loading) \in Nat /\ One(loading') \in Nat /\ \A T : Count(wifiMail, T) \in Nat
      BY WifiTyped, CountNone DEF WifiLaw, One
    <2>2. Answering({"list"})' = One(loading')
      BY <1>2, <2>1, SMTT(30) DEF WifiLaw, WifiCounts, Answering
    <2>3. Answering({"scan"})' = remaining' /\ Answering({"activate", "add"})' = One(connecting)
      BY <1>2 DEF WifiLaw, WifiCounts, Answering
    <2> QED
      BY <1>2, <2>2, <2>3 DEF WifiCounts, One
  <1>4. WifiTold'
    BY <1>2 DEF WifiLaw, WifiTold, OwnerTold, RadioTold
  <1>5. WifiList' /\ WifiButtons'
    BY <1>2, ReadingDue
  <1>6. WifiFollows'
    BY DEF WifiLaw, WifiFollows
  <1>7. WP!WifiTypeOK'
    BY <1>2 DEF WifiLaw, WP!WifiTypeOK
  <1> QED
    BY <1>3, <1>4, <1>5, <1>6, <1>7 DEF WifiLaw

\* The timer fires.
LEMMA TimerFiresStep == ASSUME WifiLaw, WP!TimerFires PROVE WifiLaw'
  <1>1. /\ scheduled' = FALSE /\ WP!Refresh(wifiMapped, loading, loadAgain, nameOwner) /\ wifiMapped' = wifiMapped
        /\ UNCHANGED <<networkManager, lives, adapters, air, radio, conns, wifiMail, nameOwner, wifi, stale,
                       devices, networks, listOn, scanOn, remaining, connecting, form, watched, progress>>
    BY DEF WP!TimerFires, WP!world, WP!proxy, WP!lists, WP!connection
  <1>2. wifiMapped \in BOOLEAN /\ wifiMapped' \in BOOLEAN /\ scheduled' \in BOOLEAN
    BY <1>1, WifiTyped DEF WifiLaw
  <1> QED
    BY <1>1, <1>2, RefreshedStep

\* The panel opens.
LEMMA PanelOpens == ASSUME WifiLaw, WP!Open PROVE WifiLaw'
  <1>1. /\ wifiMapped' = TRUE /\ WP!Refresh(TRUE, loading, loadAgain, nameOwner) /\ scheduled' = scheduled
        /\ UNCHANGED <<networkManager, lives, adapters, air, radio, conns, wifiMail, nameOwner, wifi, stale,
                       devices, networks, listOn, scanOn, remaining, connecting, form, watched, progress>>
    BY DEF WP!Open, WP!world, WP!proxy, WP!lists, WP!connection
  <1>2. wifiMapped' \in BOOLEAN /\ scheduled' \in BOOLEAN
    BY <1>1, WifiTyped DEF WifiLaw
  <1>3. \A b \in BOOLEAN : b = TRUE => (WP!Refresh(TRUE, loading, loadAgain, nameOwner) => WP!Refresh(b, loading, loadAgain, nameOwner))
    OBVIOUS
  <1>4. PICK b \in BOOLEAN : b = TRUE
    OBVIOUS
  <1>5. WP!Refresh(b, loading, loadAgain, nameOwner) /\ (wifiMapped' <=> b)
    BY <1>1, <1>4
  <1> QED
    BY <1>1, <1>2, <1>4, <1>5, RefreshedStep

\* The panel closes.
LEMMA PanelShuts == ASSUME WifiLaw, WP!Shut PROVE WifiLaw'
  <1>1. /\ wifiMapped' = FALSE /\ form' = NoArgument
        /\ UNCHANGED <<networkManager, lives, adapters, air, radio, conns, wifiCalls, wifiMail, nameOwner, wifi,
                       loading, loadAgain, stale, scheduled,
                       devices, networks, listOn, scanOn, remaining, connecting, watched, progress>>
    BY DEF WP!Shut, WP!world, WP!bus, WP!proxy, WP!reading, WP!lists
  <1>2. WifiCounts' /\ WifiTold' /\ WifiFollows'
    BY <1>1 DEF WifiLaw, WifiCounts, Answering, WifiTold, WifiFollows
  <1>3. WifiList' /\ WifiButtons'
    BY <1>1 DEF WifiList, WifiButtons
  <1>4. WP!WifiTypeOK'
    BY <1>1 DEF WifiLaw, WP!WifiTypeOK
  <1> QED
    BY <1>2, <1>3, <1>4 DEF WifiLaw

\* The proxy is told of an owner.
LEMMA HandleOwnerStep == ASSUME WifiLaw, WP!HandleOwner PROVE WifiLaw'
  <1>1. PICK m \in Msgs : m = Head(wifiMail) /\ m.type = "owner" /\ wifiMail # <<>>
    BY WifiTyped, SomeLess DEF WifiLaw, WP!HandleOwner, WP!Taken, WP!First
  <1>2. /\ wifiMail' = Tail(wifiMail) /\ nameOwner' = m.life /\ wifi' = m.wifi
        /\ watched' = 0 /\ progress' = IF watched # 0 THEN "lost" ELSE progress
        /\ form' = NoArgument /\ networks' = {} /\ devices' = {} /\ scanOn' = FALSE
        /\ WP!Refresh(wifiMapped, loading, loadAgain, m.life)
        /\ UNCHANGED <<networkManager, lives, adapters, air, radio, conns, wifiMapped, stale, scheduled, listOn,
                       remaining, connecting>>
    BY <1>1 DEF WP!HandleOwner, WP!Taken, WP!First, WP!Lost, WP!world
  <1>3. /\ wifiMapped \in BOOLEAN /\ loading \in BOOLEAN /\ loadAgain \in BOOLEAN
        /\ m.life \in 0 .. MaxService /\ m.wifi \in BOOLEAN
    BY <1>1, WifiTyped, WifiMessages DEF WifiLaw
  <1>4. /\ wifiCalls' \in Seq(WP!Call) /\ ProxyFirst(wifiCalls', networkManager)
        /\ Due(wifiCalls') <=> Due(wifiCalls)
        /\ Count(wifiCalls', CallsFor({"scan"})) = Count(wifiCalls, CallsFor({"scan"}))
        /\ Count(wifiCalls', CallsFor({"activate", "add"})) = Count(wifiCalls, CallsFor({"activate", "add"}))
        /\ Count(wifiCalls', CallsFor({"list"})) + One(loading) = Count(wifiCalls, CallsFor({"list"})) + One(loading')
        /\ loading' \in BOOLEAN /\ loadAgain' \in BOOLEAN
        /\ wifiMapped => loading' /\ (loadAgain' \/ Some(wifiCalls', CallsFor({"list"})))
        /\ \A T : Count(wifiCalls, T) \in Nat /\ Count(wifiCalls', T) \in Nat
    BY <1>2, <1>3, RefreshLeaves
  <1>5. /\ wifiMail' \in Seq(Msgs)
        /\ \A T : Some(wifiMail, T) <=> m \in T \/ Some(wifiMail', T)
        /\ \A B, T : Fol(wifiMail, B, T) => Fol(wifiMail', B, T) /\ (m \in B => Some(wifiMail', T))
        /\ \A T : Count(wifiMail, T) = Count(wifiMail', T) + (IF m \in T THEN 1 ELSE 0)
        /\ \A T : Count(wifiMail', T) \in Nat
    BY <1>1, <1>2, WifiTyped, SomeLess DEF WifiLaw
  <1>6. \A k : m \notin RepliesTo(k)
    BY <1>1, WifiMessages DEF RepliesTo
  <1>7. WifiCounts'
    <2>1. One(loading) \in Nat /\ One(loading') \in Nat
      BY DEF One
    <2>2. \A k : Count(wifiMail', RepliesTo(k)) = Count(wifiMail, RepliesTo(k))
      BY <1>5, <1>6
    <2>3. Answering({"list"})' = One(loading')
      <3>1. /\ Count(wifiMail', RepliesTo({"list"})) = Count(wifiMail, RepliesTo({"list"}))
            /\ Count(wifiMail', RepliesTo({"list"})) \in Nat
            /\ Count(wifiCalls, CallsFor({"list"})) \in Nat /\ Count(wifiCalls', CallsFor({"list"})) \in Nat
        BY <1>4, <1>5, <2>2
      <3>2. Count(wifiCalls, CallsFor({"list"})) + Count(wifiMail, RepliesTo({"list"})) = One(loading)
        BY DEF WifiLaw, WifiCounts, Answering
      <3>3. Count(wifiCalls', CallsFor({"list"})) + Count(wifiMail', RepliesTo({"list"})) = One(loading')
        BY <1>4, <2>1, <3>1, <3>2
      <3> QED
        BY <3>3 DEF Answering, CallsFor, RepliesTo
    <2>4. Answering({"scan"})' = remaining' /\ Answering({"activate", "add"})' = One(connecting)
      BY <1>2, <1>4, <2>2 DEF WifiLaw, WifiCounts, Answering
    <2> QED
      BY <1>2, <1>4, <2>3, <2>4 DEF WifiCounts, One
  <1>8. WifiTold'
    <2>1. OwnerTold(wifiMail', Due(wifiCalls'), nameOwner', networkManager')
      <3>1. Due(wifiCalls) \/ (Fol(wifiMail', OldOwners(networkManager), OwnerMsgs)
                               /\ (m \in OldOwners(networkManager) => Some(wifiMail', OwnerMsgs)))
        BY <1>5 DEF WifiLaw, WifiTold, OwnerTold
      <3>2. nameOwner' # networkManager => m \in OldOwners(networkManager)
        BY <1>1, <1>2 DEF OldOwners, OwnerMsgs
      <3> QED
        BY <1>2, <1>4, <3>1, <3>2 DEF OwnerTold
    <2>2. ASSUME networkManager # 0 PROVE RadioTold(wifiMail', Due(wifiCalls'), wifi', radio')
      <3>1. Due(wifiCalls) \/ (Fol(wifiMail', OldRadios(radio), RadioMsgs)
                               /\ (m \in OldRadios(radio) => Some(wifiMail', RadioMsgs)))
        BY <1>5, <2>2 DEF WifiLaw, WifiTold, RadioTold
      <3>2. ~(wifi' <=> radio) => m \in OldRadios(radio)
        BY <1>1, <1>2 DEF OldRadios, RadioMsgs
      <3>3. radio' = radio
        BY <1>2
      <3> QED
        BY <1>4, <3>1, <3>2, <3>3 DEF RadioTold
    <2> QED
      BY <1>2, <2>1, <2>2 DEF WifiTold
  <1>9. WifiList' /\ WifiButtons'
    BY <1>2, <1>4, ReadingDue
  <1>10. WifiFollows'
    <2>1. Follow(wifiMail', conns')
      BY <1>2, <1>5 DEF WifiLaw, WifiFollows, Follow
    <2> QED
      BY <1>2, <2>1 DEF WifiFollows, Progressed
  <1>11. WP!WifiTypeOK'
    <2>1. progress' \in WP!States \cup {"blank", "ended", "unreadable", "lost"}
      BY <1>2, WifiTyped DEF WifiLaw
    <2>2. {radio', wifi', wifiMapped', loading', loadAgain', scheduled', listOn', scanOn', connecting', stale'} \subseteq BOOLEAN
      BY <1>2, <1>3, <1>4, WifiTyped DEF WifiLaw
    <2> QED
      BY <1>2, <1>3, <1>4, <1>5, <2>1, <2>2 DEF WifiLaw, WP!WifiTypeOK, Msgs
  <1> QED
    BY <1>7, <1>8, <1>9, <1>10, <1>11 DEF WifiLaw

\* Calls of one kind for some arguments, all of them counted.
LEMMA CallsMade ==
    ASSUME NEW kind, NEW n \in Nat, NEW add \in Seq(WP!Call), Len(add) = n, kind # "proxy",
           \A i \in 1 .. n : add[i].kind = kind
    PROVE  /\ \A i \in 1 .. Len(add) : add[i].kind # "proxy"
           /\ \A k : Count(add, CallsFor(k)) = IF kind \in k THEN n ELSE 0
  <1>1. \A i \in 1 .. n : add[i] \in WP!Call
    OBVIOUS
  <1>2. ASSUME NEW k, kind \in k PROVE Count(add, CallsFor(k)) = n
    <2>1. Marks(add, CallsFor(k)) = 1 .. n
      BY <1>1, <1>2 DEF Marks, CallsFor
    <2>2. Cardinality(1 .. n) = n
      <3>1. 1 \in Int /\ n \in Int
        OBVIOUS
      <3>2. Cardinality(1 .. n) = IF 1 > n THEN 0 ELSE n - 1 + 1
        BY <3>1, FS_Interval
      <3> QED
        BY <3>2
    <2> QED
      BY <2>1, <2>2 DEF Count
  <1>3. ASSUME NEW k, kind \notin k PROVE Count(add, CallsFor(k)) = 0
    <2>1. Marks(add, CallsFor(k)) = {}
      BY <1>1, <1>3 DEF Marks, CallsFor
    <2> QED
      BY <2>1, FS_EmptySet DEF Count
  <1> QED
    BY <1>2, <1>3

\* The panel asks for scans or for a connection.
LEMMA AskedFor ==
    ASSUME WifiLaw, NEW kind, NEW n \in Nat, NEW add \in Seq(WP!Call), Len(add) = n, kind \in {"scan", "activate", "add"},
           \A i \in 1 .. n : add[i].kind = kind, wifiCalls' = wifiCalls \o add,
           UNCHANGED <<networkManager, lives, adapters, air, radio, conns, wifiMail, nameOwner, wifi, wifiMapped,
                       loading, loadAgain, stale, scheduled, devices, networks>>
    PROVE  /\ wifiCalls' \in Seq(WP!Call) /\ ProxyFirst(wifiCalls', networkManager) /\ WifiTold' /\ WifiList'
           /\ WifiRead => WifiRead'
           /\ Answering({"list"})' = One(loading')
           /\ Answering({"scan"})' = remaining + (IF kind = "scan" THEN n ELSE 0)
           /\ Answering({"activate", "add"})' = One(connecting) + (IF kind = "scan" THEN 0 ELSE n)
  <1>1. wifiCalls \in Seq(WP!Call) /\ ProxyFirst(wifiCalls, networkManager) /\ wifiMail \in Seq(Msgs)
    BY WifiTyped DEF WifiLaw, WifiCounts
  <1>2. /\ \A i \in 1 .. Len(add) : add[i].kind # "proxy"
        /\ \A k : Count(add, CallsFor(k)) = IF kind \in k THEN n ELSE 0
    <2>1. kind # "proxy"
      OBVIOUS
    <2> QED
      BY <2>1, CallsMade, SMTT(30)
  <1>3. /\ wifiCalls' \in Seq(WP!Call) /\ ProxyFirst(wifiCalls', networkManager)
        /\ Due(wifiCalls') <=> Due(wifiCalls)
        /\ \A T : Some(wifiCalls, T) => Some(wifiCalls', T)
        /\ \A T : Count(wifiCalls', T) = Count(wifiCalls, T) + Count(add, T)
        /\ \A T : Count(wifiCalls, T) \in Nat /\ Count(add, T) \in Nat
    <2>1. /\ wifiCalls \o add \in Seq(WP!Call)
          /\ ProxyFirst(wifiCalls, networkManager) => ProxyFirst(wifiCalls \o add, networkManager)
          /\ Due(wifiCalls \o add) <=> Due(wifiCalls)
          /\ \A T : Some(wifiCalls \o add, T) <=> Some(wifiCalls, T) \/ Some(add, T)
          /\ \A T : Count(wifiCalls \o add, T) = Count(wifiCalls, T) + Count(add, T)
          /\ \A T : Count(wifiCalls, T) \in Nat /\ Count(add, T) \in Nat
      BY <1>1, <1>2, CallsAdded
    <2> QED
      BY <1>1, <2>1
  <1>4. WifiRead => WifiRead'
    BY <1>3 DEF WifiRead, Reads
  <1>5. WifiTold'
    BY <1>3 DEF WifiLaw, WifiTold, OwnerTold, RadioTold
  <1>6. WifiList'
    <2>1. WP!Current' = WP!Current /\ Shown' = Shown
      BY DEF WP!Current, WP!Snapshot, Shown
    <2> QED
      BY <1>3, <1>4, <2>1 DEF WifiLaw, WifiList, ListDue, WifiRead
  <1>7. ASSUME NEW k PROVE Answering(k)' = Answering(k) + (IF kind \in k THEN n ELSE 0)
    <2>1. /\ Count(wifiCalls', CallsFor(k)) = Count(wifiCalls, CallsFor(k)) + (IF kind \in k THEN n ELSE 0)
          /\ Count(wifiCalls, CallsFor(k)) \in Nat /\ Count(wifiMail, RepliesTo(k)) \in Nat
      BY <1>1, <1>2, <1>3, CountNone
    <2> QED
      BY <2>1 DEF Answering
  <1>8. /\ Answering({"list"})' = One(loading')
        /\ Answering({"scan"})' = remaining + (IF kind = "scan" THEN n ELSE 0)
        /\ Answering({"activate", "add"})' = One(connecting) + (IF kind = "scan" THEN 0 ELSE n)
    <2>1. Answering({"list"})' = Answering({"list"}) + 0 /\ Answering({"list"}) = One(loading) /\ One(loading) \in Nat
          /\ One(loading') = One(loading)
      BY <1>7 DEF WifiLaw, WifiCounts, One
    <2> QED
      BY <1>7, <2>1 DEF WifiLaw, WifiCounts
  <1> QED
    BY <1>3, <1>4, <1>5, <1>6, <1>8

\* A scan asks each adapter.
LEMMA ScanStep == ASSUME WifiLaw, WP!Scan PROVE WifiLaw'
  <1>1. /\ wifiMapped /\ remaining = 0 /\ devices # {} /\ scanOn' = FALSE
        /\ UNCHANGED <<networkManager, lives, adapters, air, radio, conns, wifiMail, nameOwner, wifi, wifiMapped,
                       loading, loadAgain, stale, scheduled, devices, networks, listOn, connecting, form, watched, progress>>
    BY DEF WP!Scan, WP!world, WP!proxy, WP!reading, WP!connection
  <1>2. /\ devices \subseteq Adapters /\ IsFiniteSet(devices) /\ nameOwner \in 0 .. MaxService
        /\ wifiCalls \in Seq(WP!Call)
    BY WifiTyped DEF WifiLaw
  <1>3. PICK order \in WP!Orders(devices) : remaining' = Len(order) /\ wifiCalls' = WP!AddCalls("scan", order)
    BY DEF WP!Scan
  <1> DEFINE n == Cardinality(devices)
  <1>4. /\ n \in Nat
        /\ order \in [1 .. n -> devices] /\ \A a \in devices : \E i \in 1 .. n : order[i] = a
    <2>1. n \in Nat
      BY <1>2, FS_CardinalityType
    <2>2. WP!Cardinality(devices) = Cardinality(devices)
      BY DEF WP!Cardinality, Cardinality, WP!IsFiniteSet, IsFiniteSet
    <2> QED
      BY <2>1, <2>2 DEF WP!Orders
  <1> HIDE DEF n
  <1>5. order \in Seq(devices) /\ Len(order) = n /\ n # 0 /\ DOMAIN order = 1 .. n
    BY <1>1, <1>4
  <1> DEFINE add == [i \in DOMAIN order |-> [kind |-> "scan", owner |-> nameOwner, arg |-> order[i]]]
  <1>6. /\ add \in Seq(WP!Call) /\ Len(add) = n /\ \A i \in 1 .. n : add[i].kind = "scan"
    <2>1. \A i \in 1 .. n : /\ [kind |-> "scan", owner |-> nameOwner, arg |-> order[i]] \in WP!Call
      BY <1>2, <1>4 DEF WP!Call, WP!Asked, WP!CallOf
    <2>2. add = [i \in 1 .. n |-> [kind |-> "scan", owner |-> nameOwner, arg |-> order[i]]]
      BY <1>5
    <2> QED
      BY <1>4, <2>1, <2>2
  <1>7. wifiCalls' = wifiCalls \o add
    BY <1>3 DEF WP!AddCalls
  <1> HIDE DEF add
  <1>8. /\ wifiCalls' \in Seq(WP!Call) /\ ProxyFirst(wifiCalls', networkManager) /\ WifiTold' /\ WifiList'
        /\ WifiRead => WifiRead'
        /\ Answering({"list"})' = One(loading')
        /\ Answering({"scan"})' = remaining + n
        /\ Answering({"activate", "add"})' = One(connecting) + 0
    BY <1>1, <1>4, <1>6, <1>7, AskedFor
  <1>9. WifiCounts'
    <2>1. One(connecting) \in Nat /\ One(connecting') = One(connecting)
      BY <1>1 DEF One
    <2> QED
      BY <1>1, <1>3, <1>4, <1>5, <1>8, <2>1 DEF WifiCounts
  <1>10. WifiButtons'
    <2>1. WP!Usable' <=> WP!Usable
      BY <1>1 DEF WP!Usable
    <2>2. remaining' # 0 /\ remaining = 0 /\ devices # {}
      BY <1>1, <1>3, <1>5
    <2> QED
      BY <1>1, <1>8, <2>1, <2>2 DEF WifiLaw, WifiButtons, ButtonsRight
  <1>11. WifiFollows'
    BY <1>1 DEF WifiLaw, WifiFollows
  <1>12. WP!WifiTypeOK'
    <2>1. remaining' \in Nat /\ scanOn' \in BOOLEAN
      BY <1>1, <1>3, <1>4, <1>5
    <2> QED
      BY <1>1, <1>8, <2>1 DEF WifiLaw, WP!WifiTypeOK
  <1> QED
    BY <1>8, <1>9, <1>10, <1>11, <1>12 DEF WifiLaw

\* A connection is asked for: the one that was followed is no more.
LEMMA AsksStep ==
    ASSUME WifiLaw, NEW kind \in {"activate", "add"}, NEW net \in Networks, WP!Asks(kind, net),
           form' \in Networks \cup {NoArgument}
    PROVE  WifiLaw'
  <1>1. /\ wifiMapped /\ WP!Usable /\ ~connecting /\ connecting' = TRUE /\ listOn' = FALSE
        /\ watched' = 0 /\ progress' = "blank" /\ wifiCalls' = WP!AddCalls(kind, <<net>>)
        /\ UNCHANGED <<networkManager, lives, adapters, air, radio, conns, wifiMail, nameOwner, wifi, wifiMapped,
                       loading, loadAgain, stale, scheduled, devices, networks, scanOn, remaining>>
    BY DEF WP!Asks, WP!world, WP!proxy, WP!reading
  <1>2. /\ nameOwner \in 0 .. MaxService /\ wifiCalls \in Seq(WP!Call) /\ remaining \in Nat
    BY WifiTyped DEF WifiLaw
  <1> DEFINE c == [kind |-> kind, owner |-> nameOwner, arg |-> net]
             add == <<c>>
  <1>3. c \in WP!Call /\ c.kind = kind
    BY <1>2 DEF WP!Call, WP!Asked, WP!CallOf
  <1>4. wifiCalls' = wifiCalls \o add
    <2>1. [i \in DOMAIN <<net>> |-> [kind |-> kind, owner |-> nameOwner, arg |-> <<net>>[i]]] = add
      OBVIOUS
    <2> QED
      BY <1>1, <2>1 DEF WP!AddCalls
  <1> HIDE DEF c
  <1>5. /\ add \in Seq(WP!Call) /\ Len(add) = 1 /\ \A i \in 1 .. 1 : add[i].kind = kind
    BY <1>3
  <1> HIDE DEF add
  <1>6. /\ wifiCalls' \in Seq(WP!Call) /\ ProxyFirst(wifiCalls', networkManager) /\ WifiTold' /\ WifiList'
        /\ WifiRead => WifiRead'
        /\ Answering({"list"})' = One(loading')
        /\ Answering({"scan"})' = remaining + 0
        /\ Answering({"activate", "add"})' = One(connecting) + 1
    BY <1>1, <1>4, <1>5, AskedFor
  <1>7. WifiCounts'
    <2>1. One(connecting) = 0 /\ One(connecting') = 1
      BY <1>1 DEF One
    <2> QED
      BY <1>1, <1>2, <1>6, <2>1 DEF WifiCounts
  <1>8. WifiButtons'
    <2>1. WP!Usable' <=> WP!Usable
      BY <1>1 DEF WP!Usable
    <2> QED
      BY <1>1, <1>6, <2>1 DEF WifiLaw, WifiButtons, ButtonsRight
  <1>9. WifiFollows'
    BY <1>1 DEF WifiLaw, WifiFollows, Progressed
  <1>10. WP!WifiTypeOK'
    <2>1. connecting' \in BOOLEAN /\ listOn' \in BOOLEAN
      BY <1>1
    <2> QED
      BY <1>1, <1>6, <2>1 DEF WifiLaw, WP!WifiTypeOK
  <1> QED
    BY <1>6, <1>7, <1>8, <1>9, <1>10 DEF WifiLaw

\* A row is chosen.
LEMMA ChooseStep == ASSUME WifiLaw, NEW net \in Networks, WP!Choose(net) PROVE WifiLaw'
  BY AsksStep DEF WP!Choose

\* The form is sent.
LEMMA SubmitStep == ASSUME WifiLaw, WP!Submit PROVE WifiLaw'
  <1>1. PICK net \in Networks : net = form
    BY WifiTyped DEF WifiLaw, WP!Submit
  <1>2. WP!Asks("add", net) /\ form' \in Networks \cup {NoArgument}
    BY <1>1 DEF WP!Submit
  <1> QED
    BY <1>2, AsksStep

\* A signal is dispatched: what it says was true, or the truth follows.
LEMMA HandleSignalStep == ASSUME WifiLaw, WP!HandleSignal PROVE WifiLaw'
  <1>1. PICK m \in Msgs : m = Head(wifiMail) /\ m.type \in {"changed", "property", "state", "gone"} /\ wifiMail # <<>>
    BY WifiTyped, SomeLess DEF WifiLaw, WP!HandleSignal, WP!Taken, WP!First
  <1>2. /\ wifiMail' = Tail(wifiMail) /\ wifi' = IF m.type = "property" THEN m.wifi ELSE wifi
        /\ \/ m.type = "state" /\ WP!Moved(m.path, m.state) /\ scheduled' = scheduled
           \/ m.type = "gone" /\ WP!Moved(m.path, "ended") /\ scheduled' = (scheduled \/ wifiMapped)
           \/ m.type \in {"changed", "property"} /\ scheduled' = (scheduled \/ wifiMapped) /\ UNCHANGED <<watched, progress>>
        /\ UNCHANGED <<networkManager, lives, adapters, air, radio, conns, wifiCalls, nameOwner, wifiMapped, loading, loadAgain,
                       stale, devices, networks, listOn, scanOn, remaining, connecting, form>>
    BY <1>1 DEF WP!HandleSignal, WP!Taken, WP!First, WP!QueueRefresh, WP!world, WP!reading, WP!lists
  <1>3. /\ wifiMail' \in Seq(Msgs)
        /\ \A T : Some(wifiMail, T) <=> m \in T \/ Some(wifiMail', T)
        /\ \A B, T : Fol(wifiMail, B, T) => Fol(wifiMail', B, T) /\ (m \in B => Some(wifiMail', T))
        /\ \A T : Count(wifiMail, T) = Count(wifiMail', T) + (IF m \in T THEN 1 ELSE 0)
        /\ \A T : Count(wifiMail', T) \in Nat
    BY <1>1, <1>2, WifiTyped, SomeLess DEF WifiLaw
  <1>4. /\ scheduled \in BOOLEAN /\ wifiMapped \in BOOLEAN /\ wifi \in BOOLEAN /\ radio \in BOOLEAN
        /\ watched \in WP!Paths \cup {0} /\ progress \in WP!States \cup {"blank", "ended", "unreadable", "lost"}
    BY WifiTyped DEF WifiLaw
  <1>5. /\ m \notin WP!Replies /\ m \notin OwnerMsgs
        /\ m \in RadioMsgs => m.type = "property" /\ m.wifi \in BOOLEAN
        /\ m.type # "state" => m \in ReadMsgs
        /\ m.type = "state" => m \notin ReadMsgs /\ m.path \in WP!Paths /\ m.state \in WP!States \cup {"ended"}
        /\ m.type = "gone" => m.path \in WP!Paths
    BY <1>1, WifiMessages DEF OwnerMsgs, RadioMsgs, ReadMsgs
  <1>6. WifiCounts'
    <2>1. \A k : Count(wifiMail', RepliesTo(k)) = Count(wifiMail, RepliesTo(k))
      <3>1. \A k : m \notin RepliesTo(k)
        BY <1>5 DEF RepliesTo
      <3> QED
        BY <1>3, <3>1
    <2> QED
      BY <1>2, <2>1 DEF WifiLaw, WifiCounts, Answering, One
  <1>7. WifiTold'
    <2>1. OwnerTold(wifiMail', Due(wifiCalls'), nameOwner', networkManager')
      <3>1. Some(wifiMail, OwnerMsgs) <=> Some(wifiMail', OwnerMsgs)
        BY <1>3, <1>5
      <3> QED
        BY <1>2, <1>3, <3>1 DEF WifiLaw, WifiTold, OwnerTold
    <2>2. ASSUME networkManager # 0 PROVE RadioTold(wifiMail', Due(wifiCalls'), wifi', radio')
      <3>1. /\ ~(wifi <=> radio) => Due(wifiCalls) \/ m \in RadioMsgs \/ Some(wifiMail', RadioMsgs)
            /\ Due(wifiCalls) \/ (Fol(wifiMail', OldRadios(radio), RadioMsgs)
                                  /\ (m \in OldRadios(radio) => Some(wifiMail', RadioMsgs)))
        BY <1>3, <2>2 DEF WifiLaw, WifiTold, RadioTold
      <3>2. radio' = radio
        BY <1>2
      <3>3. CASE m.type = "property"
        <4>1. wifi' = m.wifi /\ m \in RadioMsgs
          BY <1>1, <1>2, <3>3 DEF RadioMsgs
        <4>2. ~(wifi' <=> radio) => m \in OldRadios(radio)
          BY <4>1 DEF OldRadios
        <4> QED
          BY <1>2, <3>1, <3>2, <4>2 DEF RadioTold
      <3>4. CASE m.type # "property"
        <4>1. wifi' = wifi /\ m \notin RadioMsgs
          BY <1>2, <1>5, <3>4
        <4> QED
          BY <1>2, <3>1, <3>2, <4>1 DEF RadioTold
      <3> QED
        BY <3>3, <3>4
    <2> QED
      BY <1>2, <2>1, <2>2 DEF WifiTold
  <1>8. m.type # "state" => WifiList' /\ WifiButtons'
    <2>1. m.type # "state" => (wifiMapped' => scheduled')
      BY <1>2
    <2> QED
      BY <2>1 DEF WifiList, WifiButtons, ListDue, WifiRead, Reads
  <1>9. m.type = "state" => WifiList' /\ WifiButtons'
    <2> SUFFICES ASSUME m.type = "state" PROVE WifiList' /\ WifiButtons'
      OBVIOUS
    <2>1. (scheduled' <=> scheduled) /\ (wifi' <=> wifi) /\ scheduled' = scheduled /\ wifi' = wifi
      BY <1>2
    <2>2. WifiRead => WifiRead'
      BY <1>2, <1>3, <1>5, <2>1 DEF WifiRead, Reads
    <2>3. WP!Current' = WP!Current /\ Shown' = Shown /\ (WP!Usable' <=> WP!Usable)
      BY <1>2, <2>1 DEF WP!Current, WP!Snapshot, Shown, WP!Usable
    <2>4. \A o, sv, cur : m \notin TrueAnswers(o, sv, cur)
      BY <1>5 DEF TrueAnswers
    <2>5. \A o, sv, cur : Some(wifiMail, TrueAnswers(o, sv, cur)) => Some(wifiMail', TrueAnswers(o, sv, cur))
      BY <1>3, <2>4
    <2>6. WifiList'
      BY <1>2, <2>2, <2>3, <2>5 DEF WifiLaw, WifiList, ListDue, WifiRead
    <2>7. WifiButtons'
      BY <1>2, <2>2, <2>3 DEF WifiLaw, WifiButtons, ButtonsRight
    <2> QED
      BY <2>6, <2>7
  <1>10. Follow(wifiMail', conns')
    BY <1>2, <1>3 DEF WifiLaw, WifiFollows, Follow
  <1>11. ASSUME NEW p \in WP!Paths, NEW s, m \in FalseClaims(p, conns[p]) \/ s = conns[p], WP!Moved(p, s),
                watched # p => m \notin Truths(watched, conns[watched])
         PROVE  Progressed(wifiMail', conns', watched', progress')
    <2>1. CASE watched # p
      <3>1. watched' = watched /\ progress' = progress
        BY <1>11, <2>1 DEF WP!Moved
      <3> QED
        BY <1>2, <1>3, <1>11, <2>1, <3>1 DEF WifiLaw, WifiFollows, Progressed
    <2>2. CASE watched = p
      <3>1. progress' = s /\ watched' = IF s = "ended" THEN 0 ELSE p
        BY <1>11, <2>2 DEF WP!Moved
      <3>2. Fol(wifiMail, FalseClaims(p, conns[p]), Truths(p, conns[p]))
        BY DEF WifiLaw, WifiFollows, Follow
      <3>3. m \in FalseClaims(p, conns[p]) => Some(wifiMail', Truths(p, conns[p]))
        BY <1>3, <3>2
      <3> QED
        BY <1>2, <1>11, <3>1, <3>3 DEF Progressed
    <2> QED
      BY <2>1, <2>2
  <1>12. Progressed(wifiMail', conns', watched', progress')
    <2>1. CASE m.type = "state" /\ WP!Moved(m.path, m.state)
      <3>1. /\ m \in FalseClaims(m.path, conns[m.path]) \/ m.state = conns[m.path]
            /\ watched # m.path => m \notin Truths(watched, conns[watched])
        BY <1>1, <2>1, MessageSays
      <3> QED
        BY <1>5, <1>11, <2>1, <3>1
    <2>2. CASE m.type = "gone" /\ WP!Moved(m.path, "ended")
      <3>1. /\ m \in FalseClaims(m.path, conns[m.path]) \/ "ended" = conns[m.path]
            /\ watched # m.path => m \notin Truths(watched, conns[watched])
        BY <1>1, <2>2, MessageSays
      <3> QED
        BY <1>5, <1>11, <2>2, <3>1
    <2>3. CASE m.type \in {"changed", "property"} /\ UNCHANGED <<watched, progress>>
      <3>1. m \notin Truths(watched, conns[watched])
        BY <1>1, <2>3, MessageSays
      <3> QED
        BY <1>2, <1>3, <2>3, <3>1 DEF WifiLaw, WifiFollows, Progressed
    <2> QED
      BY <1>2, <2>1, <2>2, <2>3
  <1>13. WP!WifiTypeOK'
    <2>1. scheduled' \in BOOLEAN
      BY <1>2, <1>4
    <2>2. wifi' \in BOOLEAN
      BY <1>1, <1>2, <1>4, WifiMessages
    <2>3. \A p \in WP!Paths, s \in WP!States \cup {"ended"} : WP!Moved(p, s) =>
            watched' \in WP!Paths \cup {0} /\ progress' \in WP!States \cup {"blank", "ended", "unreadable", "lost"}
      BY <1>4 DEF WP!Moved
    <2>4. watched' \in WP!Paths \cup {0} /\ progress' \in WP!States \cup {"blank", "ended", "unreadable", "lost"}
      BY <1>2, <1>4, <1>5, <2>3
    <2> QED
      BY <1>2, <1>3, <2>1, <2>2, <2>4 DEF WifiLaw, WP!WifiTypeOK, Msgs
  <1> QED
    BY <1>6, <1>7, <1>8, <1>9, <1>10, <1>12, <1>13 DEF WifiLaw, WifiFollows

\* A reply is dispatched: the owner, the radio and the connections are told as before.
LEMMA ReplyTaken ==
    ASSUME WifiLaw, wifiMail # <<>>, NEW m \in WP!Replies, m = Head(wifiMail), wifiMail' = Tail(wifiMail),
           UNCHANGED <<networkManager, lives, adapters, air, radio, conns, nameOwner, wifi, wifiMapped, scheduled>>,
           Due(wifiCalls') <=> Due(wifiCalls)
    PROVE  /\ wifiMail' \in Seq(Msgs) /\ WifiTold' /\ Follow(wifiMail', conns')
           /\ \A T : Some(wifiMail, T) <=> m \in T \/ Some(wifiMail', T)
           /\ Some(wifiMail, ReadMsgs) <=> Some(wifiMail', ReadMsgs)
           /\ \A p \in WP!Paths : m \in FalseClaims(p, conns[p]) => Some(wifiMail', Truths(p, conns[p]))
           /\ \A p, s : Some(wifiMail, Truths(p, s)) <=> Some(wifiMail', Truths(p, s))
           /\ \A k : /\ Count(wifiMail, RepliesTo(k)) = Count(wifiMail', RepliesTo(k)) + (IF m.call.kind \in k THEN 1 ELSE 0)
                     /\ Count(wifiMail', RepliesTo(k)) \in Nat
           /\ WP!Current' = WP!Current /\ (WP!Usable' <=> WP!Usable)
  <1>1. /\ wifiMail' \in Seq(Msgs)
        /\ \A T : Some(wifiMail, T) <=> m \in T \/ Some(wifiMail', T)
        /\ \A B, T : Fol(wifiMail, B, T) => Fol(wifiMail', B, T) /\ (m \in B => Some(wifiMail', T))
        /\ \A T : Count(wifiMail, T) = Count(wifiMail', T) + (IF m \in T THEN 1 ELSE 0)
        /\ \A T : Count(wifiMail', T) \in Nat
    BY WifiTyped, SomeLess DEF WifiLaw
  <1>2. /\ m \in Msgs /\ m.type = "reply" /\ m \notin OwnerMsgs /\ m \notin RadioMsgs /\ m \notin ReadMsgs
        /\ \A p, s : m \notin Truths(p, s)
        /\ \A k : m \in RepliesTo(k) <=> m.call.kind \in k
    <2>1. m \in Msgs /\ m.type = "reply"
      BY ReplyFields
    <2> QED
      BY <2>1, MessageSays DEF OwnerMsgs, RadioMsgs, ReadMsgs, RepliesTo
  <1>3. WifiTold'
    <2>1. OwnerTold(wifiMail', Due(wifiCalls'), nameOwner', networkManager')
      <3>1. Some(wifiMail, OwnerMsgs) <=> Some(wifiMail', OwnerMsgs)
        BY <1>1, <1>2
      <3> QED
        BY <1>1, <3>1 DEF WifiLaw, WifiTold, OwnerTold
    <2>2. ASSUME networkManager # 0 PROVE RadioTold(wifiMail', Due(wifiCalls'), wifi', radio')
      <3>1. RadioTold(wifiMail, Due(wifiCalls), wifi, radio)
        BY <2>2 DEF WifiLaw, WifiTold
      <3>2. Some(wifiMail, RadioMsgs) <=> Some(wifiMail', RadioMsgs)
        BY <1>1, <1>2
      <3>3. wifi' = wifi /\ radio' = radio
        OBVIOUS
      <3> QED
        BY <1>1, <3>1, <3>2, <3>3 DEF RadioTold
    <2> QED
      BY <2>1, <2>2 DEF WifiTold
  <1>4. /\ Follow(wifiMail', conns')
        /\ \A p \in WP!Paths : m \in FalseClaims(p, conns[p]) => Some(wifiMail', Truths(p, conns[p]))
    BY <1>1 DEF WifiLaw, WifiFollows, Follow
  <1>5. WP!Current' = WP!Current /\ (WP!Usable' <=> WP!Usable)
    BY DEF WP!Current, WP!Snapshot, WP!Usable
  <1>6. Some(wifiMail, ReadMsgs) <=> Some(wifiMail', ReadMsgs)
    BY <1>1, <1>2
  <1>7. \A p, s : Some(wifiMail, Truths(p, s)) <=> Some(wifiMail', Truths(p, s))
    BY <1>1, <1>2
  <1>8. \A k : /\ Count(wifiMail, RepliesTo(k)) = Count(wifiMail', RepliesTo(k)) + (IF m.call.kind \in k THEN 1 ELSE 0)
               /\ Count(wifiMail', RepliesTo(k)) \in Nat
    BY <1>1, <1>2
  <1> QED
    BY <1>1, <1>3, <1>4, <1>5, <1>6, <1>7, <1>8

\* A reading that begins, or not, when none is under way.
LEMMA RefreshAfter ==
    ASSUME WifiLaw, NEW STATE once, once \in BOOLEAN, WP!Refresh(wifiMapped, FALSE, once, nameOwner)
    PROVE  /\ wifiCalls' \in Seq(WP!Call) /\ ProxyFirst(wifiCalls', networkManager)
           /\ Due(wifiCalls') <=> Due(wifiCalls)
           /\ Count(wifiCalls', CallsFor({"scan"})) = Count(wifiCalls, CallsFor({"scan"}))
           /\ Count(wifiCalls', CallsFor({"activate", "add"})) = Count(wifiCalls, CallsFor({"activate", "add"}))
           /\ Count(wifiCalls', CallsFor({"list"})) = Count(wifiCalls, CallsFor({"list"})) + One(loading')
           /\ loading' \in BOOLEAN /\ loadAgain' \in BOOLEAN
           /\ wifiMapped => loading' /\ (loadAgain' \/ Some(wifiCalls', CallsFor({"list"})))
           /\ \A T : Count(wifiCalls, T) \in Nat /\ Count(wifiCalls', T) \in Nat
  <1>1. wifiMapped \in BOOLEAN /\ nameOwner \in 0 .. MaxService
    BY WifiTyped DEF WifiLaw
  <1>2. PICK b \in BOOLEAN : b = FALSE
    OBVIOUS
  <1>3. WP!Refresh(wifiMapped, b, once, nameOwner)
    BY <1>2
  <1>4. /\ wifiCalls' \in Seq(WP!Call) /\ ProxyFirst(wifiCalls', networkManager)
        /\ Due(wifiCalls') <=> Due(wifiCalls)
        /\ Count(wifiCalls', CallsFor({"scan"})) = Count(wifiCalls, CallsFor({"scan"}))
        /\ Count(wifiCalls', CallsFor({"activate", "add"})) = Count(wifiCalls, CallsFor({"activate", "add"}))
        /\ Count(wifiCalls', CallsFor({"list"})) + One(b) = Count(wifiCalls, CallsFor({"list"})) + One(loading')
        /\ loading' \in BOOLEAN /\ loadAgain' \in BOOLEAN
        /\ wifiMapped => loading' /\ (loadAgain' \/ Some(wifiCalls', CallsFor({"list"})))
        /\ \A T : Count(wifiCalls, T) \in Nat /\ Count(wifiCalls', T) \in Nat
    BY <1>1, <1>3, RefreshLeaves
  <1>5. One(b) = 0
    BY <1>2 DEF One
  <1>6. Count(wifiCalls', CallsFor({"list"})) \in Nat
    BY <1>4
  <1> QED
    BY <1>4, <1>5, <1>6

\* A reading is answered while it was the only one, and the panel asks again:
\* after the answer of another life of the service, or when it was told to.
LEMMA ReadAgain ==
    ASSUME WifiLaw, wifiMail # <<>>, NEW m \in WP!Replies, m = Head(wifiMail), m.call.kind = "list",
           wifiMail' = Tail(wifiMail),
           NEW STATE once, once \in BOOLEAN, WP!Refresh(wifiMapped, FALSE, once, nameOwner),
           UNCHANGED <<networkManager, lives, adapters, air, radio, conns, nameOwner, wifi, wifiMapped, scheduled,
                       remaining, connecting, form, watched, progress>>
    PROVE  /\ WifiCounts' /\ WifiTold' /\ WifiList' /\ WifiButtons' /\ WifiFollows'
           /\ wifiMail' \in Seq(Msgs) /\ wifiCalls' \in Seq(WP!Call)
           /\ loading' \in BOOLEAN /\ loadAgain' \in BOOLEAN
  <1>1. /\ wifiCalls' \in Seq(WP!Call) /\ ProxyFirst(wifiCalls', networkManager)
        /\ Due(wifiCalls') <=> Due(wifiCalls)
        /\ Count(wifiCalls', CallsFor({"scan"})) = Count(wifiCalls, CallsFor({"scan"}))
        /\ Count(wifiCalls', CallsFor({"activate", "add"})) = Count(wifiCalls, CallsFor({"activate", "add"}))
        /\ Count(wifiCalls', CallsFor({"list"})) = Count(wifiCalls, CallsFor({"list"})) + One(loading')
        /\ loading' \in BOOLEAN /\ loadAgain' \in BOOLEAN
        /\ wifiMapped => loading' /\ (loadAgain' \/ Some(wifiCalls', CallsFor({"list"})))
        /\ \A T : Count(wifiCalls, T) \in Nat /\ Count(wifiCalls', T) \in Nat
    BY RefreshAfter
  <1>2. /\ wifiMail' \in Seq(Msgs) /\ WifiTold' /\ Follow(wifiMail', conns')
        /\ \A p, s : Some(wifiMail, Truths(p, s)) <=> Some(wifiMail', Truths(p, s))
        /\ \A k : /\ Count(wifiMail, RepliesTo(k)) = Count(wifiMail', RepliesTo(k)) + (IF m.call.kind \in k THEN 1 ELSE 0)
                  /\ Count(wifiMail', RepliesTo(k)) \in Nat
    BY <1>1, ReplyTaken
  <1>3. WifiCounts'
    <2>1. Answering({"list"})' = One(loading')
      <3>1. One(loading) \in 0 .. 1 /\ One(loading') \in 0 .. 1
        BY DEF One
      <3>2. Count(wifiCalls, CallsFor({"list"})) + Count(wifiMail, RepliesTo({"list"})) = One(loading)
        BY DEF WifiLaw, WifiCounts, Answering
      <3>3. Count(wifiMail, RepliesTo({"list"})) = Count(wifiMail', RepliesTo({"list"})) + 1
        BY <1>2
      <3>4. Count(wifiMail', RepliesTo({"list"})) \in Nat /\ Count(wifiCalls, CallsFor({"list"})) \in Nat
        BY <1>1, <1>2
      <3>5. Count(wifiCalls', CallsFor({"list"})) + Count(wifiMail', RepliesTo({"list"})) = One(loading')
        BY <1>1, <3>1, <3>2, <3>3, <3>4
      <3> QED
        BY <3>5 DEF Answering, CallsFor, RepliesTo
    <2>2. Answering({"scan"})' = remaining' /\ Answering({"activate", "add"})' = One(connecting)
      <3>1. /\ Count(wifiMail', RepliesTo({"scan"})) = Count(wifiMail, RepliesTo({"scan"}))
            /\ Count(wifiMail', RepliesTo({"activate", "add"})) = Count(wifiMail, RepliesTo({"activate", "add"}))
        BY <1>2
      <3> QED
        BY <1>1, <3>1 DEF WifiLaw, WifiCounts, Answering
    <2> QED
      BY <1>1, <2>1, <2>2 DEF WifiCounts, One
  <1>4. WifiList' /\ WifiButtons'
    <2>1. wifiMapped' => loading' /\ (loadAgain' \/ Some(wifiCalls', CallsFor({"list"})))
      BY <1>1
    <2> QED
      BY <2>1, ReadingDue
  <1>5. WifiFollows'
    BY <1>2 DEF WifiLaw, WifiFollows, Progressed
  <1> QED
    BY <1>1, <1>2, <1>3, <1>4, <1>5

\* The reply of a reading.
LEMMA ListReadStep ==
    ASSUME WifiLaw, wifiMail # <<>>, NEW m \in WP!Replies, m = Head(wifiMail), m.call.kind = "list",
           wifiMail' = Tail(wifiMail), WP!Read(m),
           UNCHANGED <<networkManager, lives, adapters, air, radio, conns, nameOwner, wifi, wifiMapped, scheduled,
                       remaining, connecting, form, watched, progress>>
    PROVE  WifiLaw'
  <1>0. /\ loadAgain \in BOOLEAN /\ connecting \in BOOLEAN /\ wifi \in BOOLEAN /\ listOn \in BOOLEAN
    BY WifiTyped DEF WifiLaw
  <1>1. CASE nameOwner # m.call.owner
    <2>1. /\ WP!Refresh(wifiMapped, FALSE, loadAgain, nameOwner)
          /\ UNCHANGED <<devices, networks, listOn, scanOn, stale>>
      BY <1>1 DEF WP!Read, WP!OverRead, WP!lists
    <2>2. /\ WifiCounts' /\ WifiTold' /\ WifiList' /\ WifiButtons' /\ WifiFollows'
          /\ wifiMail' \in Seq(Msgs) /\ wifiCalls' \in Seq(WP!Call)
          /\ loading' \in BOOLEAN /\ loadAgain' \in BOOLEAN
      BY <1>0, <2>1, ReadAgain
    <2>3. WP!WifiTypeOK'
      BY <2>1, <2>2 DEF WifiLaw, WP!WifiTypeOK, Msgs
    <2> QED
      BY <2>2, <2>3 DEF WifiLaw
  <1>2. CASE nameOwner = m.call.owner
    <2>1. /\ devices' = IF m.result # "ok" THEN {} ELSE m.found.adapters
          /\ networks' = IF m.result # "ok" THEN {} ELSE m.found.networks
          /\ scanOn' = (WP!Usable /\ remaining = 0 /\ devices' # {})
          /\ listOn' = IF m.result # "ok" THEN listOn ELSE ~connecting /\ WP!Usable
          /\ stale' = (m.result = "timeout")
          /\ loadAgain => WP!Refresh(wifiMapped, FALSE, FALSE, nameOwner)
          /\ ~loadAgain => loading' = FALSE /\ loadAgain' = FALSE /\ UNCHANGED wifiCalls
      BY <1>2 DEF WP!Read, WP!Failed
    <2>2. /\ devices' \subseteq Adapters /\ networks' \subseteq Networks
      <3>1. m.result = "ok" => m.found \in [adapters : SUBSET Adapters, networks : SUBSET Networks]
        BY ReplyFields
      <3> QED
        BY <2>1, <3>1
    <2>3. scanOn' \in BOOLEAN /\ stale' \in BOOLEAN
      BY <2>1
    <2>4. listOn' \in BOOLEAN
      BY <1>0, <2>1 DEF WP!Usable
    <2>5. CASE loadAgain
      <3>1. PICK b \in BOOLEAN : b = FALSE
        OBVIOUS
      <3>2. WP!Refresh(wifiMapped, FALSE, b, nameOwner)
        BY <2>1, <2>5, <3>1
      <3>3. /\ WifiCounts' /\ WifiTold' /\ WifiList' /\ WifiButtons' /\ WifiFollows'
            /\ wifiMail' \in Seq(Msgs) /\ wifiCalls' \in Seq(WP!Call)
            /\ loading' \in BOOLEAN /\ loadAgain' \in BOOLEAN
        BY <3>2, ReadAgain
      <3>4. WP!WifiTypeOK'
        BY <2>2, <2>3, <2>4, <3>3 DEF WifiLaw, WP!WifiTypeOK, Msgs
      <3> QED
        BY <3>3, <3>4 DEF WifiLaw
    <2>6. CASE ~loadAgain
      <3>1. loading' = FALSE /\ loadAgain' = FALSE /\ wifiCalls' = wifiCalls
        BY <2>1, <2>6
      <3>2. /\ wifiMail' \in Seq(Msgs) /\ WifiTold' /\ Follow(wifiMail', conns')
            /\ \A T : Some(wifiMail, T) <=> m \in T \/ Some(wifiMail', T)
            /\ Some(wifiMail, ReadMsgs) <=> Some(wifiMail', ReadMsgs)
            /\ \A p, s : Some(wifiMail, Truths(p, s)) <=> Some(wifiMail', Truths(p, s))
            /\ \A k : /\ Count(wifiMail, RepliesTo(k)) = Count(wifiMail', RepliesTo(k)) + (IF m.call.kind \in k THEN 1 ELSE 0)
                      /\ Count(wifiMail', RepliesTo(k)) \in Nat
            /\ WP!Current' = WP!Current /\ (WP!Usable' <=> WP!Usable)
        BY <3>1, ReplyTaken
      <3>3. wifiCalls \in Seq(WP!Call)
        BY WifiTyped DEF WifiLaw
      <3>4. /\ loading
            /\ Count(wifiCalls, CallsFor({"list"})) = 0 /\ Count(wifiMail', RepliesTo({"list"})) = 0
        <4>1. Count(wifiCalls, CallsFor({"list"})) + Count(wifiMail, RepliesTo({"list"})) = One(loading)
          BY DEF WifiLaw, WifiCounts, Answering
        <4>2. /\ Count(wifiMail, RepliesTo({"list"})) = Count(wifiMail', RepliesTo({"list"})) + 1
              /\ Count(wifiMail', RepliesTo({"list"})) \in Nat /\ Count(wifiCalls, CallsFor({"list"})) \in Nat
          BY <3>2, <3>3, CountNone
        <4>3. One(loading) = 1 /\ Count(wifiCalls, CallsFor({"list"})) = 0 /\ Count(wifiMail', RepliesTo({"list"})) = 0
          <5>1. One(loading) \in 0 .. 1
            BY DEF One
          <5> QED
            BY <4>1, <4>2, <5>1
        <4> QED
          BY <4>3 DEF One
      <3>5. ~Some(wifiCalls, CallsFor({"list"})) /\ ~Some(wifiMail', RepliesTo({"list"}))
        BY <3>2, <3>3, <3>4, CountNone
      <3>6. WifiCounts'
        <4>1. Answering({"list"})' = 0
          BY <3>1, <3>4 DEF Answering, CallsFor, RepliesTo
        <4>2. /\ Count(wifiMail', RepliesTo({"scan"})) = Count(wifiMail, RepliesTo({"scan"}))
              /\ Count(wifiMail', RepliesTo({"activate", "add"})) = Count(wifiMail, RepliesTo({"activate", "add"}))
          BY <3>2
        <4> QED
          BY <3>1, <4>1, <4>2 DEF WifiLaw, WifiCounts, Answering, One
      <3>7. WifiList'
        <4> SUFFICES ASSUME wifiMapped, ~WifiRead'
                     PROVE  Shown' = WP!Current' \/ stale'
          BY <3>1 DEF WifiList, ListDue, WifiRead
        <4>1. ~WifiRead
          BY <2>6, <3>1, <3>2 DEF WifiRead, Reads
        <4>2. Some(wifiMail, TrueAnswers(nameOwner, networkManager, WP!Current))
          BY <3>4, <3>5, <4>1 DEF WifiLaw, WifiList, ListDue, WifiRead
        <4>3. ~Some(wifiMail', TrueAnswers(nameOwner, networkManager, WP!Current))
          BY <3>5 DEF Some, TrueAnswers, RepliesTo
        <4>4. m \in TrueAnswers(nameOwner, networkManager, WP!Current)
          BY <3>2, <4>2, <4>3
        <4>5. m.result = "timeout" \/ (m.result = "error" /\ networkManager = 0) \/ (m.result = "ok" /\ m.found = WP!Current)
          BY <1>2, <4>4 DEF TrueAnswers
        <4>6. CASE m.result = "timeout"
          BY <2>1, <4>6
        <4>7. CASE m.result = "error" /\ networkManager = 0
          BY <2>1, <3>2, <4>7 DEF Shown, WP!Current
        <4>8. CASE m.result = "ok" /\ m.found = WP!Current
          <5>1. devices' = m.found.adapters /\ networks' = m.found.networks
            BY <2>1, <4>8
          <5>2. m.found \in [adapters : SUBSET Adapters, networks : SUBSET Networks]
            BY <4>8, ReplyFields
          <5>3. Shown' = m.found
            BY <5>1, <5>2 DEF Shown
          <5> QED
            BY <3>2, <4>8, <5>3
        <4> QED
          BY <4>5, <4>6, <4>7, <4>8
      <3>8. WifiButtons'
        <4>1. scanOn' <=> WP!Usable' /\ remaining' = 0 /\ devices' # {}
          BY <2>1, <3>2
        <4>2. networks' # {} => (listOn' <=> WP!Usable' /\ ~connecting')
          BY <2>1, <3>2
        <4> QED
          BY <4>1, <4>2 DEF WifiButtons, ButtonsRight
      <3>9. WifiFollows'
        BY <3>2 DEF WifiLaw, WifiFollows, Progressed
      <3>10. WP!WifiTypeOK'
        <4>1. loading' \in BOOLEAN /\ loadAgain' \in BOOLEAN
          BY <3>1
        <4> QED
          BY <2>2, <2>3, <2>4, <3>1, <3>2, <4>1 DEF WifiLaw, WP!WifiTypeOK, Msgs
      <3> QED
        BY <3>2, <3>6, <3>7, <3>8, <3>9, <3>10 DEF WifiLaw
    <2> QED
      BY <2>5, <2>6
  <1> QED
    BY <1>1, <1>2

\* The answer of a scan; the last one ends it.
LEMMA ScannedStep ==
    ASSUME WifiLaw, wifiMail # <<>>, NEW m \in WP!Replies, m = Head(wifiMail), m.call.kind = "scan",
           wifiMail' = Tail(wifiMail), WP!Scanned,
           UNCHANGED <<networkManager, lives, adapters, air, radio, conns, nameOwner, wifi, wifiMapped, scheduled,
                       wifiCalls, loading, loadAgain, stale, devices, networks, listOn, connecting, form, watched, progress>>
    PROVE  WifiLaw'
  <1>1. /\ remaining' = remaining - 1
        /\ scanOn' = IF remaining = 1 THEN WP!Usable /\ devices # {} ELSE scanOn
    BY DEF WP!Scanned
  <1>2. /\ wifiMail' \in Seq(Msgs) /\ WifiTold' /\ Follow(wifiMail', conns')
        /\ \A T : Some(wifiMail, T) <=> m \in T \/ Some(wifiMail', T)
        /\ Some(wifiMail, ReadMsgs) <=> Some(wifiMail', ReadMsgs)
        /\ \A p, s : Some(wifiMail, Truths(p, s)) <=> Some(wifiMail', Truths(p, s))
        /\ \A k : /\ Count(wifiMail, RepliesTo(k)) = Count(wifiMail', RepliesTo(k)) + (IF m.call.kind \in k THEN 1 ELSE 0)
                  /\ Count(wifiMail', RepliesTo(k)) \in Nat
        /\ WP!Current' = WP!Current /\ (WP!Usable' <=> WP!Usable)
    <2>1. Due(wifiCalls') <=> Due(wifiCalls)
      OBVIOUS
    <2> QED
      BY <2>1, ReplyTaken
  <1>3. wifiCalls \in Seq(WP!Call) /\ remaining \in Nat /\ scanOn \in BOOLEAN /\ wifi \in BOOLEAN
    BY WifiTyped DEF WifiLaw
  <1>4. remaining # 0 /\ Answering({"scan"})' = remaining'
    <2>1. /\ Count(wifiCalls, CallsFor({"scan"})) + Count(wifiMail, RepliesTo({"scan"})) = remaining
      BY DEF WifiLaw, WifiCounts, Answering
    <2>2. /\ Count(wifiMail, RepliesTo({"scan"})) = Count(wifiMail', RepliesTo({"scan"})) + 1
          /\ Count(wifiMail', RepliesTo({"scan"})) \in Nat /\ Count(wifiCalls, CallsFor({"scan"})) \in Nat
      BY <1>2, <1>3, CountNone
    <2>3. Answering({"scan"})' = Count(wifiCalls, CallsFor({"scan"})) + Count(wifiMail', RepliesTo({"scan"}))
      BY DEF Answering, CallsFor, RepliesTo
    <2> QED
      BY <1>1, <1>3, <2>1, <2>2, <2>3
  <1>5. WifiCounts'
    <2>1. /\ Count(wifiMail', RepliesTo({"list"})) = Count(wifiMail, RepliesTo({"list"}))
          /\ Count(wifiMail', RepliesTo({"activate", "add"})) = Count(wifiMail, RepliesTo({"activate", "add"}))
      BY <1>2
    <2> QED
      BY <1>4, <2>1 DEF WifiLaw, WifiCounts, Answering, One
  <1>6. WifiRead => WifiRead'
    BY <1>2 DEF WifiRead, Reads
  <1>7. WifiList'
    <2>1. Shown' = Shown /\ \A o, sv, cur : m \notin TrueAnswers(o, sv, cur)
      BY DEF Shown, TrueAnswers
    <2>2. \A o, sv, cur : Some(wifiMail, TrueAnswers(o, sv, cur)) => Some(wifiMail', TrueAnswers(o, sv, cur))
      BY <1>2, <2>1
    <2> QED
      BY <1>2, <1>6, <2>1, <2>2 DEF WifiLaw, WifiList, ListDue, WifiRead
  <1>8. WifiButtons'
    <2> SUFFICES ASSUME wifiMapped, ~WifiRead', ~loading
                 PROVE  ButtonsRight(WP!Usable', remaining', connecting, devices, networks, scanOn', listOn)
      BY DEF WifiButtons
    <2>1. ButtonsRight(WP!Usable, remaining, connecting, devices, networks, scanOn, listOn)
      BY <1>6 DEF WifiLaw, WifiButtons
    <2>2. scanOn' <=> WP!Usable' /\ remaining' = 0 /\ devices # {}
      <3>1. CASE remaining = 1
        <4>1. scanOn' = (WP!Usable /\ devices # {}) /\ remaining' = 0
          BY <1>1, <3>1
        <4>2. scanOn' <=> WP!Usable /\ devices # {}
          BY <4>1
        <4> QED
          BY <1>2, <4>1, <4>2
      <3>2. CASE remaining # 1
        <4>1. ~scanOn /\ scanOn' = scanOn /\ remaining' # 0
          BY <1>1, <1>3, <1>4, <2>1, <3>2 DEF ButtonsRight
        <4> QED
          BY <4>1
      <3> QED
        BY <3>1, <3>2
    <2> QED
      BY <1>2, <2>1, <2>2 DEF ButtonsRight
  <1>9. WifiFollows'
    BY <1>2 DEF WifiLaw, WifiFollows, Progressed
  <1>10. WP!WifiTypeOK'
    <2>1. remaining' \in Nat
      BY <1>1, <1>3, <1>4
    <2>2. scanOn' \in BOOLEAN
      BY <1>1, <1>3
    <2> QED
      BY <1>2, <2>1, <2>2 DEF WifiLaw, WP!WifiTypeOK, Msgs
  <1> QED
    BY <1>2, <1>5, <1>7, <1>8, <1>9, <1>10 DEF WifiLaw

\* The reply of a connection: the panel follows it, or opens the form.
LEMMA ConnectedStep ==
    ASSUME WifiLaw, wifiMail # <<>>, NEW m \in WP!Replies, m = Head(wifiMail), m.call.kind \in {"activate", "add"},
           wifiMail' = Tail(wifiMail), WP!Connected(m),
           UNCHANGED <<networkManager, lives, adapters, air, radio, conns, nameOwner, wifi, wifiMapped, scheduled,
                       loading, loadAgain, stale, devices, networks, scanOn, remaining>>
    PROVE  WifiLaw'
  <1>1. /\ connecting' = FALSE /\ listOn' = WP!Usable
        /\ \/ form' = (IF m.call.kind = "activate" THEN WP!FormFor(m.call.arg) ELSE form)
           \/ form' = (IF m.call.kind = "add" THEN NoArgument ELSE form)
        /\ \/ UNCHANGED <<watched, progress, wifiCalls>>
           \/ m.result = "ok" /\ watched' = m.path /\ progress' = "activating" /\ wifiCalls' = WP!AddCalls("status", <<m.path>>)
    <2>1. CASE WP!Failed(m)
      BY <2>1 DEF WP!Connected
    <2>2. CASE ~WP!Failed(m)
      BY <2>2 DEF WP!Connected, WP!Watch, WP!Failed
    <2> QED
      BY <2>1, <2>2
  <1>2. /\ wifiCalls \in Seq(WP!Call) /\ ProxyFirst(wifiCalls, networkManager) /\ nameOwner \in 0 .. MaxService
        /\ form \in Networks \cup {NoArgument} /\ watched \in WP!Paths \cup {0}
        /\ progress \in WP!States \cup {"blank", "ended", "unreadable", "lost"} /\ wifi \in BOOLEAN
    BY WifiTyped DEF WifiLaw, WifiCounts
  <1>3. /\ m \in Msgs /\ m.type = "reply" /\ m.call \in WP!Call /\ m.call.arg \in Networks
        /\ m.result = "ok" => m.path \in WP!Paths
    <2>1. /\ m \in Msgs /\ m.type = "reply" /\ m.call \in WP!Call
          /\ m.result = "ok" => m.path \in WP!Paths
      BY ReplyFields
    <2> QED
      BY <2>1, CallFields
  <1>4. /\ wifiCalls' \in Seq(WP!Call) /\ ProxyFirst(wifiCalls', networkManager)
        /\ Due(wifiCalls') <=> Due(wifiCalls)
        /\ \A T : Some(wifiCalls, T) => Some(wifiCalls', T)
        /\ \A k \in {{"list"}, {"activate", "add"}, {"scan"}} : Count(wifiCalls', CallsFor(k)) = Count(wifiCalls, CallsFor(k))
        /\ \A T : Count(wifiCalls, T) \in Nat
    <2>0. \A T : Count(wifiCalls, T) \in Nat
      BY <1>2, CountNone
    <2>1. CASE wifiCalls' = wifiCalls
      BY <1>2, <2>0, <2>1
    <2>2. CASE m.result = "ok" /\ wifiCalls' = WP!AddCalls("status", <<m.path>>)
      <3> DEFINE c == [kind |-> "status", owner |-> nameOwner, arg |-> m.path]
                 add == <<c>>
      <3>1. c \in WP!Call /\ c.kind = "status"
        BY <1>2, <1>3, <2>2 DEF WP!Call, WP!Asked, WP!CallOf
      <3>2. wifiCalls' = wifiCalls \o add
        <4>1. [i \in DOMAIN <<m.path>> |-> [kind |-> "status", owner |-> nameOwner, arg |-> <<m.path>>[i]]] = add
          OBVIOUS
        <4> QED
          BY <2>2, <4>1 DEF WP!AddCalls
      <3> HIDE DEF c
      <3>3. /\ add \in Seq(WP!Call) /\ \A i \in 1 .. Len(add) : add[i].kind # "proxy"
            /\ \A T : Count(add, T) = IF c \in T THEN 1 ELSE 0
        BY <3>1, SomeOne
      <3> HIDE DEF add
      <3>4. /\ wifiCalls \o add \in Seq(WP!Call)
            /\ ProxyFirst(wifiCalls, networkManager) => ProxyFirst(wifiCalls \o add, networkManager)
            /\ Due(wifiCalls \o add) <=> Due(wifiCalls)
            /\ \A T : Some(wifiCalls \o add, T) <=> Some(wifiCalls, T) \/ Some(add, T)
            /\ \A T : Count(wifiCalls \o add, T) = Count(wifiCalls, T) + Count(add, T)
        BY <1>2, <3>3, CallsAdded
      <3>5. \A k \in {{"list"}, {"activate", "add"}, {"scan"}} : Count(add, CallsFor(k)) = 0
        <4>1. \A k \in {{"list"}, {"activate", "add"}, {"scan"}} : c \notin CallsFor(k)
          BY <3>1 DEF CallsFor
        <4> QED
          BY <3>3, <4>1
      <3>6. \A k \in {{"list"}, {"activate", "add"}, {"scan"}} : Count(wifiCalls', CallsFor(k)) = Count(wifiCalls, CallsFor(k))
        <4> TAKE k \in {{"list"}, {"activate", "add"}, {"scan"}}
        <4>1. /\ Count(add, CallsFor(k)) = 0 /\ Count(wifiCalls, CallsFor(k)) \in Nat
              /\ Count(wifiCalls \o add, CallsFor(k)) = Count(wifiCalls, CallsFor(k)) + Count(add, CallsFor(k))
          BY <2>0, <3>4, <3>5
        <4>2. Count(wifiCalls \o add, CallsFor(k)) = Count(wifiCalls, CallsFor(k))
          BY <4>1
        <4> QED
          BY <3>2, <4>2
      <3> QED
        BY <1>2, <2>0, <3>2, <3>4, <3>6
    <2> QED
      BY <1>1, <2>1, <2>2
  <1>5. /\ wifiMail' \in Seq(Msgs) /\ WifiTold' /\ Follow(wifiMail', conns')
        /\ \A T : Some(wifiMail, T) <=> m \in T \/ Some(wifiMail', T)
        /\ Some(wifiMail, ReadMsgs) <=> Some(wifiMail', ReadMsgs)
        /\ \A p \in WP!Paths : m \in FalseClaims(p, conns[p]) => Some(wifiMail', Truths(p, conns[p]))
        /\ \A p, s : Some(wifiMail, Truths(p, s)) <=> Some(wifiMail', Truths(p, s))
        /\ \A k : /\ Count(wifiMail, RepliesTo(k)) = Count(wifiMail', RepliesTo(k)) + (IF m.call.kind \in k THEN 1 ELSE 0)
                  /\ Count(wifiMail', RepliesTo(k)) \in Nat
        /\ WP!Current' = WP!Current /\ (WP!Usable' <=> WP!Usable)
    BY <1>4, ReplyTaken
  <1>6. WifiCounts'
    <2>1. Answering({"activate", "add"})' = 0
      <3>1. Count(wifiCalls, CallsFor({"activate", "add"})) + Count(wifiMail, RepliesTo({"activate", "add"})) = One(connecting)
        BY DEF WifiLaw, WifiCounts, Answering
      <3>2. /\ Count(wifiMail, RepliesTo({"activate", "add"})) = Count(wifiMail', RepliesTo({"activate", "add"})) + 1
            /\ Count(wifiMail', RepliesTo({"activate", "add"})) \in Nat /\ Count(wifiCalls, CallsFor({"activate", "add"})) \in Nat
            /\ Count(wifiCalls', CallsFor({"activate", "add"})) = Count(wifiCalls, CallsFor({"activate", "add"}))
        BY <1>4, <1>5
      <3>3. One(connecting) \in 0 .. 1
        BY DEF One
      <3>4. Count(wifiCalls', CallsFor({"activate", "add"})) + Count(wifiMail', RepliesTo({"activate", "add"})) = 0
        BY <3>1, <3>2, <3>3
      <3> QED
        BY <3>4 DEF Answering, CallsFor, RepliesTo
    <2>2. /\ Count(wifiMail', RepliesTo({"list"})) = Count(wifiMail, RepliesTo({"list"}))
          /\ Count(wifiMail', RepliesTo({"scan"})) = Count(wifiMail, RepliesTo({"scan"}))
          /\ Count(wifiCalls', CallsFor({"list"})) = Count(wifiCalls, CallsFor({"list"}))
          /\ Count(wifiCalls', CallsFor({"scan"})) = Count(wifiCalls, CallsFor({"scan"}))
      BY <1>4, <1>5
    <2> QED
      BY <1>1, <1>4, <2>1, <2>2 DEF WifiLaw, WifiCounts, Answering, One
  <1>7. WifiRead => WifiRead'
    BY <1>4, <1>5 DEF WifiRead, Reads
  <1>8. WifiList'
    <2>1. Shown' = Shown /\ \A o, sv, cur : m \notin TrueAnswers(o, sv, cur)
      BY DEF Shown, TrueAnswers
    <2>2. \A o, sv, cur : Some(wifiMail, TrueAnswers(o, sv, cur)) => Some(wifiMail', TrueAnswers(o, sv, cur))
      BY <1>5, <2>1
    <2> QED
      BY <1>4, <1>5, <1>7, <2>1, <2>2 DEF WifiLaw, WifiList, ListDue, WifiRead
  <1>9. WifiButtons'
    <2>1. listOn' <=> WP!Usable' /\ ~connecting'
      BY <1>1, <1>5
    <2> QED
      BY <1>5, <1>7, <2>1 DEF WifiLaw, WifiButtons, ButtonsRight
  <1>10. Progressed(wifiMail', conns', watched', progress')
    <2>1. CASE UNCHANGED <<watched, progress>>
      BY <1>5, <2>1 DEF WifiLaw, WifiFollows, Progressed
    <2>2. CASE m.result = "ok" /\ watched' = m.path /\ progress' = "activating"
      <3>1. m.path \in WP!Paths
        BY <1>3, <2>2
      <3>2. "activating" # conns[m.path] => m \in FalseClaims(m.path, conns[m.path])
        BY <1>3, <2>2, MessageSays
      <3> QED
        BY <1>5, <2>2, <3>1, <3>2 DEF Progressed
    <2> QED
      BY <1>1, <2>1, <2>2
  <1>11. WP!WifiTypeOK'
    <2>1. connecting' \in BOOLEAN
      BY <1>1
    <2>2. listOn' \in BOOLEAN
      BY <1>1, <1>2 DEF WP!Usable
    <2>3. form' \in Networks \cup {NoArgument}
      BY <1>1, <1>2, <1>3 DEF WP!FormFor
    <2>4. watched' \in WP!Paths \cup {0} /\ progress' \in WP!States \cup {"blank", "ended", "unreadable", "lost"}
      BY <1>1, <1>2, <1>3 DEF WP!States
    <2> QED
      BY <1>4, <1>5, <2>1, <2>2, <2>3, <2>4 DEF WifiLaw, WP!WifiTypeOK, Msgs
  <1> QED
    BY <1>5, <1>6, <1>8, <1>9, <1>10, <1>11 DEF WifiLaw, WifiFollows

\* The reply that tells the state of the connection.
LEMMA StatusReadStep ==
    ASSUME WifiLaw, wifiMail # <<>>, NEW m \in WP!Replies, m = Head(wifiMail), m.call.kind = "status",
           wifiMail' = Tail(wifiMail), WP!StatusRead(m),
           UNCHANGED <<networkManager, lives, adapters, air, radio, conns, nameOwner, wifi, wifiMapped, scheduled,
                       wifiCalls, loading, loadAgain, stale, devices, networks, listOn, scanOn, remaining, connecting, form>>
    PROVE  WifiLaw'
  <1>1. /\ wifiMail' \in Seq(Msgs) /\ WifiTold' /\ Follow(wifiMail', conns')
        /\ \A T : Some(wifiMail, T) <=> m \in T \/ Some(wifiMail', T)
        /\ Some(wifiMail, ReadMsgs) <=> Some(wifiMail', ReadMsgs)
        /\ \A p \in WP!Paths : m \in FalseClaims(p, conns[p]) => Some(wifiMail', Truths(p, conns[p]))
        /\ \A p, s : Some(wifiMail, Truths(p, s)) <=> Some(wifiMail', Truths(p, s))
        /\ \A k : /\ Count(wifiMail, RepliesTo(k)) = Count(wifiMail', RepliesTo(k)) + (IF m.call.kind \in k THEN 1 ELSE 0)
                  /\ Count(wifiMail', RepliesTo(k)) \in Nat
        /\ WP!Current' = WP!Current /\ (WP!Usable' <=> WP!Usable)
    <2>1. Due(wifiCalls') <=> Due(wifiCalls)
      OBVIOUS
    <2> QED
      BY <2>1, ReplyTaken
  <1>2. /\ watched \in WP!Paths \cup {0} /\ progress \in WP!States \cup {"blank", "ended", "unreadable", "lost"}
    BY WifiTyped DEF WifiLaw
  <1>3. /\ m \in Msgs /\ m.type = "reply" /\ m.call.arg \in WP!Paths
        /\ m.result = "ok" => m.state \in WP!States
    <2>1. /\ m \in Msgs /\ m.type = "reply" /\ m.call \in WP!Call
          /\ m.result = "ok" => m.state \in WP!States
      BY ReplyFields
    <2> QED
      BY <2>1, CallFields
  <1>4. "ended" \notin WP!States
    BY DEF WP!States
  <1>5. \/ watched' = watched /\ progress' = progress
        \/ watched' = watched /\ progress' = "unreadable"
        \/ m.result = "ok" /\ watched = m.call.arg /\ watched' = watched /\ progress' = m.state
    <2>1. CASE nameOwner # m.call.owner
      BY <2>1 DEF WP!StatusRead
    <2>2. CASE nameOwner = m.call.owner /\ m.result # "ok"
      BY <2>2 DEF WP!StatusRead, WP!Failed
    <2>3. CASE nameOwner = m.call.owner /\ m.result = "ok"
      BY <1>3, <1>4, <2>3 DEF WP!StatusRead, WP!Failed, WP!Moved
    <2> QED
      BY <2>1, <2>2, <2>3
  <1>6. WifiCounts'
    <2>1. /\ Count(wifiMail', RepliesTo({"list"})) = Count(wifiMail, RepliesTo({"list"}))
          /\ Count(wifiMail', RepliesTo({"scan"})) = Count(wifiMail, RepliesTo({"scan"}))
          /\ Count(wifiMail', RepliesTo({"activate", "add"})) = Count(wifiMail, RepliesTo({"activate", "add"}))
      BY <1>1
    <2> QED
      BY <2>1 DEF WifiLaw, WifiCounts, Answering, One
  <1>7. WifiRead => WifiRead'
    BY <1>1 DEF WifiRead, Reads
  <1>8. WifiList'
    <2>1. Shown' = Shown /\ \A o, sv, cur : m \notin TrueAnswers(o, sv, cur)
      BY DEF Shown, TrueAnswers
    <2>2. \A o, sv, cur : Some(wifiMail, TrueAnswers(o, sv, cur)) => Some(wifiMail', TrueAnswers(o, sv, cur))
      BY <1>1, <2>1
    <2> QED
      BY <1>1, <1>7, <2>1, <2>2 DEF WifiLaw, WifiList, ListDue, WifiRead
  <1>9. WifiButtons'
    BY <1>1, <1>7 DEF WifiLaw, WifiButtons, ButtonsRight
  <1>10. Progressed(wifiMail', conns', watched', progress')
    <2>1. CASE watched' = watched /\ progress' = progress
      BY <1>1, <2>1 DEF WifiLaw, WifiFollows, Progressed
    <2>2. CASE watched' = watched /\ progress' = "unreadable"
      BY <2>2 DEF Progressed
    <2>3. CASE m.result = "ok" /\ watched = m.call.arg /\ watched' = watched /\ progress' = m.state
      <3>1. m.state # conns[m.call.arg] => m \in FalseClaims(m.call.arg, conns[m.call.arg])
        BY <1>3, <2>3, MessageSays
      <3> QED
        BY <1>1, <1>3, <2>3, <3>1 DEF Progressed
    <2> QED
      BY <1>5, <2>1, <2>2, <2>3
  <1>11. WP!WifiTypeOK'
    <2>1. watched' \in WP!Paths \cup {0} /\ progress' \in WP!States \cup {"blank", "ended", "unreadable", "lost"}
      BY <1>2, <1>3, <1>5
    <2> QED
      BY <1>1, <2>1 DEF WifiLaw, WP!WifiTypeOK, Msgs
  <1> QED
    BY <1>1, <1>6, <1>8, <1>9, <1>10, <1>11 DEF WifiLaw, WifiFollows

\* A reply is dispatched.
LEMMA HandleReplyStep == ASSUME WifiLaw, WP!HandleReply PROVE WifiLaw'
  <1>1. PICK m \in Msgs : m = Head(wifiMail) /\ m.type = "reply" /\ wifiMail # <<>>
    BY WifiTyped, SomeLess DEF WifiLaw, WP!HandleReply, WP!Taken, WP!First
  <1>2. m \in WP!Replies
    BY <1>1, WifiMessages
  <1>3. /\ wifiMail' = Tail(wifiMail)
        /\ UNCHANGED <<networkManager, lives, adapters, air, radio, conns, nameOwner, wifi, wifiMapped, scheduled>>
    BY DEF WP!HandleReply, WP!Taken, WP!world, WP!proxy
  <1>4. \/ m.call.kind = "list" /\ WP!Read(m) /\ UNCHANGED <<remaining, connecting, form, watched, progress>>
        \/ /\ m.call.kind = "scan" /\ WP!Scanned
           /\ UNCHANGED <<wifiCalls, loading, loadAgain, stale, devices, networks, listOn, connecting, form, watched, progress>>
        \/ /\ m.call.kind \in {"activate", "add"} /\ WP!Connected(m)
           /\ UNCHANGED <<loading, loadAgain, stale, devices, networks, scanOn, remaining>>
        \/ /\ m.call.kind = "status" /\ WP!StatusRead(m)
           /\ UNCHANGED <<wifiCalls, loading, loadAgain, stale, devices, networks, listOn, scanOn, remaining, connecting, form>>
    BY <1>1 DEF WP!HandleReply, WP!First, WP!connection, WP!reading, WP!lists
  <1>5. CASE m.call.kind = "list" /\ WP!Read(m) /\ UNCHANGED <<remaining, connecting, form, watched, progress>>
    BY <1>1, <1>2, <1>3, <1>5, ListReadStep
  <1>6. CASE /\ m.call.kind = "scan" /\ WP!Scanned
             /\ UNCHANGED <<wifiCalls, loading, loadAgain, stale, devices, networks, listOn, connecting, form, watched, progress>>
    BY <1>1, <1>2, <1>3, <1>6, ScannedStep
  <1>7. CASE /\ m.call.kind \in {"activate", "add"} /\ WP!Connected(m)
             /\ UNCHANGED <<loading, loadAgain, stale, devices, networks, scanOn, remaining>>
    BY <1>1, <1>2, <1>3, <1>7, ConnectedStep
  <1>8. CASE /\ m.call.kind = "status" /\ WP!StatusRead(m)
             /\ UNCHANGED <<wifiCalls, loading, loadAgain, stale, devices, networks, listOn, scanOn, remaining, connecting, form>>
    BY <1>1, <1>2, <1>3, <1>8, StatusReadStep
  <1> QED
    BY <1>4, <1>5, <1>6, <1>7, <1>8

\* The menu is not open at first, and nothing is asked.
LEMMA WifiStart == ASSUME WP!WifiInit PROVE WP!WifiInv
  <1>1. /\ networkManager = 1 /\ lives = 1 /\ adapters = Adapters /\ air = Networks /\ radio = TRUE
        /\ conns = [p \in WP!Paths |-> "none"] /\ wifiCalls = <<>> /\ wifiMail = <<>>
        /\ nameOwner = 1 /\ wifi = TRUE
        /\ wifiMapped = FALSE /\ loading = FALSE /\ loadAgain = FALSE /\ scheduled = FALSE
        /\ devices = {} /\ networks = {} /\ listOn = TRUE /\ remaining = 0 /\ scanOn = FALSE
        /\ connecting = FALSE /\ form = NoArgument /\ watched = 0 /\ progress = "blank" /\ stale = FALSE
    BY DEF WP!WifiInit
  <1>2. \A T : ~Some(wifiCalls, T) /\ ~Some(wifiMail, T) /\ Marks(wifiCalls, T) = {} /\ Marks(wifiMail, T) = {}
    BY <1>1 DEF Some, Marks
  <1>3. \A T : Count(wifiCalls, T) = 0 /\ Count(wifiMail, T) = 0
    BY <1>2, FS_EmptySet DEF Count
  <1>4. \A B, T : Fol(wifiMail, B, T)
    BY <1>1 DEF Fol
  <1>5. WifiCounts
    BY <1>1, <1>3 DEF WifiCounts, Answering, One, ProxyFirst
  <1>6. WifiTold
    BY <1>1, <1>4 DEF WifiTold, OwnerTold, RadioTold
  <1>7. WifiList /\ WifiButtons /\ WifiFollows
    BY <1>1, <1>4 DEF WifiList, WifiButtons, WifiFollows, Follow, Progressed
  <1>8. WP!WifiTypeOK
    <2>1. conns \in [WP!Paths -> WP!States \cup {"none", "ended"}]
      BY <1>1
    <2>2. wifiCalls \in Seq(WP!Call) /\ wifiMail \in Seq(WP!Signals \cup WP!Replies)
      BY <1>1
    <2>3. {radio, wifi, wifiMapped, loading, loadAgain, scheduled, listOn, scanOn, connecting, stale} \subseteq BOOLEAN
      BY <1>1
    <2>4. 1 \in 0 .. MaxService
      BY WifiNames
    <2> QED
      BY <1>1, <2>1, <2>2, <2>3, <2>4 DEF WP!WifiTypeOK
  <1> QED
    BY <1>5, <1>6, <1>7, <1>8, WifiLawful DEF WifiLaw

\* Nothing changes.
LEMMA WifiStays == ASSUME WifiLaw, UNCHANGED wifiVars PROVE WifiLaw'
  BY DEF wifiVars, WifiLaw, WifiCounts, Answering, WifiTold, WifiList, WifiButtons, WifiRead, WifiFollows, Shown,
         WP!Current, WP!Snapshot, WP!Usable, WP!WifiTypeOK

\* Each step keeps the invariant.
LEMMA WifiStep == ASSUME WP!WifiInv, WP!WifiNext \/ UNCHANGED wifiVars PROVE WP!WifiInv'
  <1>1. WifiLaw
    BY WifiLawful
  <1>2. WifiLaw'
    BY <1>1, AirChangesStep, RadioSwitchedStep, ConnectionMovesStep, ServiceQuitsStep, ServiceStartsStep, AnswerStep,
       TimesOutStep, TimerFiresStep, HandleSignalStep, HandleOwnerStep, HandleReplyStep, PanelOpens, PanelShuts, ScanStep,
       SubmitStep, ChooseStep, WifiStays DEF WP!WifiNext
  <1> QED
    BY <1>2, WifiLawfulNext

-----------------------------------------------------------------------------
(* The four together.                                                      *)

\* A step of the service's monitors, or none.
LEMMA MonitorsKept == SM!MonitorsInv /\ [SM!MonitorsNext]_monitorVars => SM!MonitorsInv'
  <1>1. ASSUME SM!MonitorsInv, UNCHANGED monitorVars PROVE SM!MonitorsInv'
    <2>1. SM!MonitorsTypeOK' /\ SM!SentIsCurrent'
      BY <1>1 DEF SM!MonitorsInv, SM!MonitorsTypeOK, SM!SentIsCurrent, SM!LastSent, SM!Due, monitorVars
    <2>2. SM!ReadIsCurrent' /\ SM!NewIsNoted'
      BY <1>1 DEF SM!MonitorsInv, SM!ReadIsCurrent, SM!NewIsNoted, SM!Due, SM!Hears, monitorVars
    <2> QED
      BY <2>1, <2>2, LabelLawNext DEF SM!MonitorsInv
  <1> QED
    BY <1>1, MonitorsStep

\* Each part starts with its invariant.
LEMMA LabelsStart == ShellInit => LabelsSettle
  <1> SUFFICES ASSUME ShellInit PROVE LabelsSettle
    OBVIOUS
  <1>1. SM!MonitorsInit /\ MP!PositionInit /\ AU!AudioInit /\ WP!WifiInit
    BY DEF ShellInit
  <1> QED
    BY <1>1, MonitorsStart, PositionStart, AudioStart, WifiStart DEF LabelsSettle

\* A step is one of the part that runs; its invariant is kept by that part.
LEMMA LabelsKept == LabelsSettle /\ [ShellNext]_shellVars => LabelsSettle'
  <1> SUFFICES ASSUME LabelsSettle, [ShellNext]_shellVars PROVE LabelsSettle'
    OBVIOUS
  <1>1. /\ part' = part
        /\ In("monitors") => [SM!MonitorsNext]_monitorVars
        /\ In("position") => [MP!PositionNext]_positionVars
        /\ In("audio") => [AU!AudioNext]_audioVars
        /\ In("wifi") => [WP!WifiNext]_wifiVars
    BY DEF ShellNext, shellVars
  <1> QED
    BY <1>1, MonitorsKept, PositionStep, AudioStep, WifiStep DEF LabelsSettle, In

\* A label, a position, a volume or a list of networks that is out of date is
\* about to be replaced, however events, answers and restarts cross, and the
\* last volume the user gave is the one that stays (shell-sctk/src/main.rs;
\* shell/src/media.rs, audio.rs and wifi.rs).
THEOREM LabelsStaySettled == ShellSpec => []LabelsSettle
  <1> QED
    BY LabelsStart, LabelsKept, PTL DEF ShellSpec
=============================================================================
