--------------------------- MODULE TrackerTiersProofs ---------------------------
(***************************************************************************)
(* The tiers of TrackerManager, for every announce list and every sequence *)
(* of answers and failures.                                                *)
(*                                                                         *)
(* The argument is about one call of try_tier (TryTierKeeps): the tier it  *)
(* leaves is the tier it found under a permutation of the slots (From)     *)
(* that moves one slot to the front and keeps the order of the others.     *)
(***************************************************************************)
EXTENDS TrackerTiers, WellFoundedInduction, TLAPS

\* The wait of an entry that is due at time x.
WaitOK(x) == x - now <= MaxBackoff \/ \E r \in Intervals : x - now <= r

\* A tier t in the order s, whose trackers answered last in the calls ok, of n calls.
TierOK(t, s, ok, n) ==
    /\ s \in Seq(TierEntry)
    /\ Len(s) = Len(AnnounceList[t])
    /\ \A k \in DOMAIN s : s[k].url \in UrlsOf(t)
    /\ \A u \in UrlsOf(t) : \E k \in DOMAIN s : s[k].url = u
    /\ \A j, k \in DOMAIN s : s[j].url = s[k].url => j = k
    /\ \A u \in UrlsOf(t) : ok[u] \in 0 .. n
    /\ \A j, k \in DOMAIN s : j < k => ok[s[k].url] <= ok[s[j].url]
    /\ \A k \in DOMAIN s : WaitOK(s[k].next_announce)

TiersInv ==
    /\ DOMAIN tiers = Tiers
    /\ \A t \in Tiers : TierOK(t, tiers[t], lastOk[t], calls)
    /\ min_interval \in Nat
    /\ now \in 0 .. MaxTime
    /\ calls \in 0 .. MaxCalls

\* A set of naturals has a least one.
LEMMA LeastOf ==
    ASSUME NEW S, S \subseteq Nat, S # {}
    PROVE  \E m \in S : \A k \in S : m <= k
<1>1. OpToRel(<, Nat) = {p \in Nat \X Nat : p[1] < p[2]}
  BY DEF OpToRel
<1>2. PICK m \in S : \A k \in S : <<k, m>> \notin OpToRel(<, Nat)
  BY NatLessThanWellFounded, WFMin
<1>3. ASSUME NEW k \in S PROVE m <= k
  <2>1. k \in Nat /\ m \in Nat
    OBVIOUS
  <2>2. <<k, m>> \notin {p \in Nat \X Nat : p[1] < p[2]}
    BY <1>1, <1>2, Zenon
  <2>3. ~(k < m)
    BY <2>1, <2>2
  <2> QED
    BY <2>1, <2>3
<1> QED
  BY <1>3

\* The backoff is a number, and bounded.
LEMMA BackoffBound ==
    ASSUME NEW f \in Nat PROVE Backoff(f) \in Nat /\ Backoff(f) <= MaxBackoff
<1>1. Lesser(f, 5) \in 0 .. 5
  BY DEF Lesser
<1>2. 2 ^ Lesser(f, 5) \in Nat
  BY <1>1, BackoffAssumption
<1> QED
  BY <1>2 DEF Backoff, Lesser, MaxBackoff

\* The tracker that answers is in the tier, if there is one.
LEMMA FirstUpBound ==
    ASSUME NEW s \in Seq(TierEntry), NEW down
    PROVE  FirstUp(s, down) = 0 \/ FirstUp(s, down) \in DOMAIN s
<1> DEFINE up == {i \in DOMAIN s : s[i].url \notin down}
<1>1. CASE up = {}
  BY <1>1 DEF FirstUp
<1>2. CASE up # {}
  <2>1. up \subseteq Nat
    OBVIOUS
  <2>2. \E m \in up : \A k \in up : m <= k
    BY <1>2, <2>1, LeastOf
  <2>3. FirstUp(s, down) = CHOOSE i \in up : \A j \in up : i <= j
    BY <1>2 DEF FirstUp
  <2> QED
    BY <2>2, <2>3
<1> QED
  BY <1>1, <1>2

-----------------------------------------------------------------------------
\* The slot of the old tier whose tracker is in slot k of the new one, when i answered.
From(i, k) == IF i = 0 THEN k ELSE IF k = 1 THEN i ELSE IF k \in 2 .. i THEN k - 1 ELSE k

\* An entry that fails or is renewed stays an entry of its tracker, due within bounds.
LEMMA EntryKept ==
    ASSUME NEW e \in TierEntry, NEW resp \in Response, now \in Nat
    PROVE  /\ Failed(e) \in TierEntry /\ Failed(e).url = e.url
           /\ WaitOK(Failed(e).next_announce)
           /\ Renewed(e, resp) \in TierEntry /\ Renewed(e, resp).url = e.url
           /\ WaitOK(Renewed(e, resp).next_announce)
<1>1. /\ e.failures + 1 \in Nat /\ resp.interval \in Intervals /\ resp.interval \in Int
      /\ Backoff(e.failures + 1) \in Nat /\ Backoff(e.failures + 1) <= MaxBackoff
  <2>1. e.failures + 1 \in Nat
    BY DEF TierEntry
  <2>2. Intervals \subseteq Int
    BY TiersAssumption
  <2>3. resp.interval \in Intervals
    BY DEF Response
  <2> QED
    BY <2>1, <2>2, <2>3, BackoffBound
<1>2. /\ Failed(e) \in TierEntry /\ Failed(e).url = e.url
      /\ Failed(e).next_announce = now + Backoff(e.failures + 1)
  <2> DEFINE b == now + Backoff(e.failures + 1)
             f == e.failures + 1
  <2>1. b \in Int /\ f \in Nat
    BY <1>1
  <2>2. Failed(e) = [e EXCEPT !.failures = f, !.next_announce = b]
    BY DEF Failed, TierEntry
  <2> HIDE DEF b, f
  <2>3. Failed(e) \in TierEntry /\ Failed(e).url = e.url /\ Failed(e).next_announce = b
    BY <2>1, <2>2 DEF TierEntry
  <2> QED
    BY <2>3 DEF b
<1>3. /\ Renewed(e, resp) \in TierEntry /\ Renewed(e, resp).url = e.url
      /\ Renewed(e, resp).next_announce = now + resp.interval
  <2> DEFINE b == now + resp.interval
             r == resp.interval
  <2>1. b \in Int /\ r \in Int
    BY <1>1
  <2>2. Renewed(e, resp) = [e EXCEPT !.failures = 0, !.interval = r, !.next_announce = b]
    BY DEF Renewed, TierEntry
  <2> HIDE DEF b, r
  <2>3. Renewed(e, resp) = [url |-> e.url, failures |-> 0, interval |-> r, next_announce |-> b]
    BY <2>2 DEF TierEntry
  <2>4. Renewed(e, resp) \in TierEntry /\ Renewed(e, resp).url = e.url
        /\ Renewed(e, resp).next_announce = b
    BY <2>1, <2>3 DEF TierEntry
  <2> QED
    BY <2>4 DEF b
<1>4. WaitOK(Failed(e).next_announce)
  BY <1>1, <1>2 DEF WaitOK, MaxBackoff
<1>5. WaitOK(Renewed(e, resp).next_announce)
  BY <1>1, <1>3 DEF WaitOK
<1> QED
  BY <1>2, <1>3, <1>4, <1>5

\* What try_tier makes of a tier, slot by slot.
LEMMA TryTierSlots ==
    ASSUME NEW s \in Seq(TierEntry), NEW down, NEW resp \in Response, now \in Nat,
           \A k \in DOMAIN s : WaitOK(s[k].next_announce)
    PROVE  /\ TryTier(s, down, resp) \in Seq(TierEntry)
           /\ Len(TryTier(s, down, resp)) = Len(s)
           /\ \A k \in DOMAIN s :
                 /\ From(FirstUp(s, down), k) \in DOMAIN s
                 /\ TryTier(s, down, resp)[k].url = s[From(FirstUp(s, down), k)].url
                 /\ WaitOK(TryTier(s, down, resp)[k].next_announce)
<1> DEFINE i     == FirstUp(s, down)
           new   == TryTier(s, down, resp)
           tried == [k \in DOMAIN s |-> IF i = 0 \/ k < i THEN Failed(s[k]) ELSE s[k]]
<1>1. i = 0 \/ i \in DOMAIN s
  BY FirstUpBound
<1>2. DOMAIN s = 1 .. Len(s) /\ Len(s) \in Nat /\ \A k \in DOMAIN s : s[k] \in TierEntry
  OBVIOUS
<1>3. \A k \in DOMAIN s : tried[k] \in TierEntry /\ tried[k].url = s[k].url
                          /\ WaitOK(tried[k].next_announce)
  BY <1>2, EntryKept
<1> HIDE DEF i
<1>4. CASE i = 0
  <2>1. new = tried
    BY <1>4 DEF TryTier, i
  <2>2. \A k \in DOMAIN s : From(i, k) = k
    BY <1>4 DEF From
  <2>3. tried \in Seq(TierEntry) /\ Len(tried) = Len(s)
    <3>1. tried \in [1 .. Len(s) -> TierEntry]
      BY <1>2, <1>3
    <3> QED
      BY <1>2, <3>1
  <2> QED
    BY <1>3, <2>1, <2>2, <2>3 DEF i
<1>5. CASE i \in DOMAIN s
  <2> DEFINE moved == MovedToFront(tried, i)
  <2>1. new = [moved EXCEPT ![i] = Renewed(@, resp)]
    BY <1>2, <1>5 DEF TryTier, i
  <2>2. DOMAIN tried = DOMAIN s
    OBVIOUS
  <2>3. \A k \in DOMAIN s : From(i, k) \in DOMAIN s
    BY <1>2, <1>5 DEF From
  <2>4. DOMAIN moved = DOMAIN s /\ \A k \in DOMAIN s : moved[k] = tried[From(i, k)]
    BY <1>2, <1>5, <2>2 DEF MovedToFront, From
  <2>5. \A k \in DOMAIN s : moved[k] \in TierEntry /\ moved[k].url = s[From(i, k)].url
                            /\ WaitOK(moved[k].next_announce)
    BY <1>3, <2>3, <2>4
  <2>6. DOMAIN new = DOMAIN s
        /\ \A k \in DOMAIN s : new[k] = IF k = i THEN Renewed(moved[i], resp) ELSE moved[k]
    BY <1>5, <2>1, <2>4
  <2>7. ASSUME NEW k \in DOMAIN s
        PROVE  new[k] \in TierEntry /\ new[k].url = moved[k].url /\ WaitOK(new[k].next_announce)
    <3> HIDE DEF new, moved
    <3>1. CASE k = i
      <4>1. new[k] = Renewed(moved[k], resp) /\ moved[k] \in TierEntry
        BY <2>5, <2>6, <3>1
      <4> QED
        BY <4>1, EntryKept
    <3>2. CASE k # i
      BY <2>5, <2>6, <3>2
    <3> QED
      BY <3>1, <3>2
  <2>8. new \in [1 .. Len(s) -> TierEntry]
    <3>1. new = [k \in DOMAIN s |-> new[k]]
      BY <2>1, <2>4, <2>6
    <3> QED
      BY <1>2, <2>7, <3>1
  <2>9. new \in Seq(TierEntry) /\ Len(new) = Len(s)
    BY <1>2, <2>8
  <2> QED
    BY <2>3, <2>5, <2>7, <2>9 DEF i
<1> QED
  BY <1>1, <1>4, <1>5

\* From is a permutation of the slots, which moves none but the i-th ahead of another.
LEMMA FromPermutes ==
    ASSUME NEW n \in Nat, NEW i \in 0 .. n
    PROVE  /\ \A j, k \in 1 .. n : From(i, j) = From(i, k) => j = k
           /\ \A m \in 1 .. n : \E k \in 1 .. n : From(i, k) = m
           /\ \A j, k \in 1 .. n : j < k => From(i, j) = i \/ From(i, j) < From(i, k)
           /\ \A k \in 2 .. n : From(i, k) # i \/ i = 0
<1>1. \A j, k \in 1 .. n : From(i, j) = From(i, k) => j = k
  BY DEF From
<1>2. ASSUME NEW m \in 1 .. n PROVE \E k \in 1 .. n : From(i, k) = m
  <2>1. CASE m = i
    BY <2>1 DEF From
  <2>2. CASE m < i
    <3>1. m + 1 \in 1 .. n /\ From(i, m + 1) = m
      BY <2>2 DEF From
    <3> QED
      BY <3>1
  <2>3. CASE m > i
    BY <2>3 DEF From
  <2> QED
    BY <2>1, <2>2, <2>3
<1>3. \A j, k \in 1 .. n : j < k => From(i, j) = i \/ From(i, j) < From(i, k)
  BY DEF From
<1>4. \A k \in 2 .. n : From(i, k) # i \/ i = 0
  BY DEF From
<1> QED
  BY <1>1, <1>2, <1>3, <1>4

\* One call of try_tier: the tier keeps its trackers, and its order.
LEMMA TryTierKeeps ==
    ASSUME NEW t \in Tiers, NEW s, NEW ok, NEW n \in Nat, TierOK(t, s, ok, n),
           NEW down, NEW resp \in Response, now \in Nat
    PROVE  LET i == FirstUp(s, down)
           IN  TierOK(t, TryTier(s, down, resp),
                      [u \in UrlsOf(t) |-> IF i # 0 /\ u = s[i].url THEN n + 1 ELSE ok[u]],
                      n + 1)
<1> DEFINE i   == FirstUp(s, down)
           new == TryTier(s, down, resp)
           ok2 == [u \in UrlsOf(t) |-> IF i # 0 /\ u = s[i].url THEN n + 1 ELSE ok[u]]
<1>1. /\ s \in Seq(TierEntry) /\ DOMAIN s = 1 .. Len(s) /\ Len(s) \in Nat
      /\ \A k \in DOMAIN s : WaitOK(s[k].next_announce)
  BY DEF TierOK
<1>2. /\ new \in Seq(TierEntry) /\ Len(new) = Len(s) /\ DOMAIN new = DOMAIN s
      /\ \A k \in DOMAIN s : /\ From(i, k) \in DOMAIN s
                             /\ new[k].url = s[From(i, k)].url
                             /\ WaitOK(new[k].next_announce)
  BY <1>1, TryTierSlots
<1>3. i \in 0 .. Len(s)
  BY <1>1, FirstUpBound
<1> HIDE DEF i, new
<1>4. /\ \A j, k \in DOMAIN s : From(i, j) = From(i, k) => j = k
      /\ \A m \in DOMAIN s : \E k \in DOMAIN s : From(i, k) = m
      /\ \A j, k \in DOMAIN s : j < k => From(i, j) = i \/ From(i, j) < From(i, k)
      /\ \A k \in DOMAIN s : k > 1 => From(i, k) # i \/ i = 0
  <2>1. Len(s) \in Nat /\ i \in 0 .. Len(s)
    BY <1>1, <1>3
  <2>2. /\ \A j, k \in 1 .. Len(s) : From(i, j) = From(i, k) => j = k
        /\ \A m \in 1 .. Len(s) : \E k \in 1 .. Len(s) : From(i, k) = m
        /\ \A j, k \in 1 .. Len(s) : j < k => From(i, j) = i \/ From(i, j) < From(i, k)
        /\ \A k \in 2 .. Len(s) : From(i, k) # i \/ i = 0
    BY <2>1, FromPermutes
  <2>3. \A k \in 1 .. Len(s) : k > 1 => k \in 2 .. Len(s)
    BY <1>1
  <2> QED
    BY <1>1, <2>2, <2>3
<1>5. \A k \in DOMAIN new : new[k].url \in UrlsOf(t)
  BY <1>2 DEF TierOK
<1>6. \A u \in UrlsOf(t) : \E k \in DOMAIN new : new[k].url = u
  <2> SUFFICES ASSUME NEW u \in UrlsOf(t) PROVE \E k \in DOMAIN new : new[k].url = u
    OBVIOUS
  <2>1. PICK m \in DOMAIN s : s[m].url = u
    BY DEF TierOK
  <2>2. PICK k \in DOMAIN s : From(i, k) = m
    BY <1>4
  <2> QED
    BY <1>2, <2>1, <2>2
<1>7. \A j, k \in DOMAIN new : new[j].url = new[k].url => j = k
  BY <1>2, <1>4 DEF TierOK
<1>8. \A u \in UrlsOf(t) : ok[u] \in 0 .. n /\ ok2[u] \in 0 .. n + 1
  BY DEF TierOK
<1>9. ASSUME NEW j \in DOMAIN new, NEW k \in DOMAIN new, j < k
      PROVE  ok2[new[k].url] <= ok2[new[j].url]
  <2> DEFINE a == From(i, j)
             b == From(i, k)
  <2>1. a \in DOMAIN s /\ b \in DOMAIN s /\ new[j].url = s[a].url /\ new[k].url = s[b].url
        /\ s[a].url \in UrlsOf(t) /\ s[b].url \in UrlsOf(t)
    BY <1>2, <1>9 DEF TierOK
  <2>2. k > 1 /\ (b # i \/ i = 0) /\ (a = i \/ a < b)
    <3>1. j \in DOMAIN s /\ k \in DOMAIN s /\ k > 1
      BY <1>1, <1>2, <1>9
    <3>2. a = i \/ a < b
      BY <1>4, <1>9, <3>1
    <3>3. b # i \/ i = 0
      BY <1>4, <3>1
    <3> QED
      BY <3>1, <3>2, <3>3
  <2> HIDE DEF a, b
  <2>3. ok2[s[b].url] = ok[s[b].url]
    <3>1. ASSUME i # 0 PROVE s[b].url # s[i].url
      <4>1. i \in DOMAIN s /\ b # i
        BY <1>1, <1>3, <2>2, <3>1
      <4> QED
        BY <2>1, <4>1 DEF TierOK
    <3> QED
      BY <2>1, <3>1
  <2>4. CASE a = i
    <3>1. i # 0 /\ ok2[s[a].url] = n + 1
      BY <1>1, <2>1, <2>4
    <3> QED
      BY <1>8, <2>1, <2>3, <3>1
  <2>5. CASE a # i
    <3>1. a < b /\ ok2[s[a].url] = ok[s[a].url]
      BY <1>1, <1>3, <2>1, <2>2, <2>5 DEF TierOK
    <3> QED
      BY <2>1, <2>3, <3>1 DEF TierOK
  <2> QED
    BY <2>4, <2>5
<1>10. Len(new) = Len(AnnounceList[t]) /\ \A k \in DOMAIN new : WaitOK(new[k].next_announce)
  BY <1>2 DEF TierOK
<1>11. TierOK(t, new, ok2, n + 1)
  BY <1>2, <1>5, <1>6, <1>7, <1>8, <1>9, <1>10 DEF TierOK
<1> QED
  BY <1>11 DEF i, new

-----------------------------------------------------------------------------
LEMMA TiersInit == Init => TiersInv
<1> SUFFICES ASSUME Init PROVE TiersInv
  OBVIOUS
<1>1. now = 0 /\ calls = 0 /\ min_interval = 30 /\ DOMAIN tiers = Tiers
      /\ 0 \in 0 .. MaxTime /\ 0 \in 0 .. MaxCalls
  BY TiersAssumption DEF Init, DefaultInterval
<1>2. ASSUME NEW t \in Tiers PROVE TierOK(t, tiers[t], lastOk[t], calls)
  <2> DEFINE l == AnnounceList[t]
             s == [k \in DOMAIN l |-> NewEntry(l[k])]
  <2>1. /\ l \in Seq(STRING) /\ DOMAIN l = 1 .. Len(l) /\ Len(l) \in Nat
        /\ \A j, k \in DOMAIN l : l[j] = l[k] => j = k
    BY TiersAssumption DEF Tiers
  <2>2. tiers[t] = s /\ lastOk[t] = [u \in UrlsOf(t) |-> 0]
    BY DEF Init
  <2>3. \A k \in DOMAIN l : /\ s[k] \in TierEntry /\ s[k].url = l[k]
                            /\ s[k].next_announce = 0
    BY <2>1 DEF NewEntry, TierEntry, DefaultInterval
  <2>4. s \in [1 .. Len(l) -> TierEntry]
    BY <2>1, <2>3
  <2>5. s \in Seq(TierEntry) /\ Len(s) = Len(l) /\ DOMAIN s = DOMAIN l
    BY <2>1, <2>4
  <2> HIDE DEF s
  <2>6. \A k \in DOMAIN s : WaitOK(s[k].next_announce)
    BY <1>1, <2>3, <2>5 DEF WaitOK, MaxBackoff
  <2>7. UrlsOf(t) = {l[k] : k \in DOMAIN l}
    BY DEF UrlsOf
  <2>8. /\ \A k \in DOMAIN s : s[k].url \in UrlsOf(t)
        /\ \A u \in UrlsOf(t) : \E k \in DOMAIN s : s[k].url = u
        /\ \A j, k \in DOMAIN s : s[j].url = s[k].url => j = k
    BY <2>1, <2>3, <2>5, <2>7
  <2>9. /\ \A u \in UrlsOf(t) : lastOk[t][u] \in 0 .. calls
        /\ \A j, k \in DOMAIN s : lastOk[t][s[k].url] <= lastOk[t][s[j].url]
    BY <1>1, <2>2, <2>8
  <2> QED
    BY <2>2, <2>5, <2>6, <2>8, <2>9 DEF TierOK
<1> QED
  BY <1>1, <1>2 DEF TiersInv

\* Time passes: every wait gets shorter.
LEMMA TickTiers == ASSUME TiersInv, Tick PROVE TiersInv'
<1>1. /\ now \in Nat /\ now' \in Nat /\ now <= now' /\ now' <= MaxTime
      /\ MaxTime \in Nat
  BY TiersAssumption DEF TiersInv, Tick
<1>2. UNCHANGED <<tiers, min_interval, calls, streak, lastOk>>
  BY DEF Tick
<1>3. ASSUME NEW x \in Int, WaitOK(x) PROVE WaitOK(x)'
  <2>1. /\ x - now' <= x - now /\ x - now \in Int /\ x - now' \in Int
        /\ \A r \in Intervals : r \in Int
    BY <1>1, TiersAssumption
  <2> QED
    BY <1>3, <2>1 DEF WaitOK, MaxBackoff
<1>4. ASSUME NEW t \in Tiers PROVE TierOK(t, tiers[t], lastOk[t], calls)'
  <2>1. TierOK(t, tiers[t], lastOk[t], calls)
    BY DEF TiersInv
  <2>2. \A k \in DOMAIN tiers[t] : tiers[t][k].next_announce \in Int
    <3>1. \A k \in DOMAIN tiers[t] : tiers[t][k] \in TierEntry
      BY <2>1 DEF TierOK
    <3> QED
      BY <3>1 DEF TierEntry
  <2>3. \A k \in DOMAIN tiers[t] : WaitOK(tiers[t][k].next_announce)'
    BY <1>2, <1>3, <2>1, <2>2 DEF TierOK
  <2> QED
    BY <1>2, <2>1, <2>3 DEF TierOK
<1> QED
  BY <1>1, <1>2, <1>4 DEF TiersInv

\* A call: the tiers it contacts keep their trackers and order, the others are as they were.
LEMMA ContactTiers ==
    ASSUME TiersInv, calls < MaxCalls, NEW due \in SUBSET Tiers,
           NEW down, NEW resp \in [Tiers -> Response], Contact(due, down, resp)
    PROVE  TiersInv'
<1>1. /\ calls' = calls + 1 /\ now' = now /\ calls \in Nat /\ now \in Nat
      /\ calls' \in 0 .. MaxCalls /\ now' \in 0 .. MaxTime
  BY TiersAssumption DEF TiersInv, Contact
<1>2. min_interval' \in Nat
  <2>1. \A t \in Tiers : resp[t].min_interval \in Int
    BY TiersAssumption DEF Response
  <2>2. min_interval' \in {min_interval} \cup
            {n \in {resp[t].min_interval : t \in {t \in due : FirstUp(tiers[t], down[t]) # 0}} :
                n > 0}
    BY DEF Contact
  <2> QED
    BY <2>1, <2>2 DEF TiersInv
<1>3. ASSUME NEW t \in Tiers PROVE TierOK(t, tiers[t], lastOk[t], calls)'
  <2> DEFINE i == FirstUp(tiers[t], down[t])
  <2>1. TierOK(t, tiers[t], lastOk[t], calls)
    BY DEF TiersInv
  <2>2. tiers'[t] = IF t \in due THEN TryTier(tiers[t], down[t], resp[t]) ELSE tiers[t]
    BY DEF Contact
  <2>3. lastOk'[t] = [u \in UrlsOf(t) |-> IF t \in due /\ i # 0 /\ u = tiers[t][i].url
                                            THEN calls + 1 ELSE lastOk[t][u]]
    BY DEF Contact
  <2>4. \A x : WaitOK(x)' <=> WaitOK(x)
    BY <1>1 DEF WaitOK
  <2>5. CASE t \in due
    <3>1. TierOK(t, tiers'[t], lastOk'[t], calls + 1)
      BY <1>1, <2>1, <2>2, <2>3, <2>5, TryTierKeeps
    <3> QED
      BY <1>1, <2>4, <3>1 DEF TierOK
  <2>6. CASE t \notin due
    <3>1. tiers'[t] = tiers[t] /\ \A u \in UrlsOf(t) : lastOk'[t][u] = lastOk[t][u]
      BY <2>2, <2>3, <2>6
    <3>2. \A u \in UrlsOf(t) : lastOk'[t][u] \in 0 .. calls + 1
      BY <1>1, <2>1, <3>1 DEF TierOK
    <3>3. \A j, k \in DOMAIN tiers[t] :
             j < k => lastOk'[t][tiers[t][k].url] <= lastOk'[t][tiers[t][j].url]
      BY <2>1, <3>1 DEF TierOK
    <3> QED
      BY <1>1, <2>1, <2>4, <3>1, <3>2, <3>3 DEF TierOK
  <2> QED
    BY <2>5, <2>6
<1>4. (DOMAIN tiers)' = Tiers
  BY DEF Contact
<1> QED
  BY <1>1, <1>2, <1>3, <1>4 DEF TiersInv

LEMMA TiersStep == TiersInv /\ [Next]_vars => TiersInv'
<1> SUFFICES ASSUME TiersInv, [Next]_vars PROVE TiersInv'
  OBVIOUS
<1>1. ASSUME NEW due \in SUBSET Tiers, Call(due) PROVE TiersInv'
  BY <1>1, ContactTiers DEF Call
<1>2. CASE Announce
  BY <1>1, <1>2 DEF Announce
<1>3. CASE ReannounceIfDue
  BY <1>1, <1>3 DEF ReannounceIfDue, DueTiers
<1>4. CASE Tick
  BY <1>4, TickTiers
<1>5. CASE UNCHANGED vars
  BY <1>5 DEF vars, TiersInv, TierOK, WaitOK
<1> QED
  BY <1>2, <1>3, <1>4, <1>5 DEF Next

LEMMA TiersInvHolds == Spec => []TiersInv
BY TiersInit, TiersStep, PTL DEF Spec

\* The types of the manager's state, for every announce list, intervals of either sign
\* and every bound.
THEOREM TiersTypesHold == Spec => []TiersTypeOK
<1>1. TiersInv => TiersTypeOK
  BY DEF TiersInv, TierOK, TiersTypeOK
<1> QED
  BY <1>1, TiersInvHolds, PTL

\* try_tier, which rotates the vector it iterates over, neither loses nor repeats a tracker.
THEOREM TrackersAreKept == Spec => []TrackersKept
<1>1. TiersInv => TrackersKept
  BY DEF TiersInv, TierOK, TrackersKept
<1> QED
  BY <1>1, TiersInvHolds, PTL

\* A tier of any length is in the order its trackers answered last, after any calls.
THEOREM RecentIsFirst == Spec => []RecentFirst
<1>1. TiersInv => RecentFirst
  BY DEF TiersInv, TierOK, RecentFirst
<1> QED
  BY <1>1, TiersInvHolds, PTL

\* No mix of failures, answers and rotations makes a tracker wait beyond the backoff's
\* bound or an interval that was answered.
THEOREM NobodyIsForgotten == Spec => []NobodyWaitsLonger
<1>1. TiersInv => NobodyWaitsLonger
  BY DEF TiersInv, TierOK, NobodyWaitsLonger, WaitOK
<1> QED
  BY <1>1, TiersInvHolds, PTL
=============================================================================
