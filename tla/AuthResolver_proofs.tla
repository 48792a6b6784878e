------------------------ MODULE AuthResolver_proofs ------------------------
(***************************************************************************)
(* A host never puts another host's key in cooldown; a key that is marked  *)
(* stays out of use, its cooldown is not restarted, and a refresh uses the *)
(* token in memory: for every set of hosts, providers and keys, however    *)
(* they interleave.                                                        *)
(***************************************************************************)
EXTENDS AuthResolver, WellFoundedInduction, TLAPS

KeyMaps == [Providers -> KeyIndexes]

\* Where a host still has the session that its credential fields describe.
Held == {"running", "refresh", "compact", "recover"}

HostsTyped ==
    /\ host \in [Agents -> Hosts]
    /\ activeKeys \in KeyMaps
    /\ session = [a \in Agents |-> session[a]]

\* What is said of sessions holds if they take their keys from their own AuthStorage.
Attributed ==
    KeysFrom = "session" =>
        \A a \in Agents : host[a].at \in Held /\ session[a] # NoCred => Own(a) = session[a]

Blames == KeysFrom = "session" => BlamesOwnKey

IInv == HostsTyped /\ Attributed /\ Blames

-----------------------------------------------------------------------------
(* What the searches return *)

(* The lists of credentials consist of credentials. *)
LEMMA ListTypes ==
    /\ OAuthCreds \in Seq(Creds)
    /\ KeyCreds \in Seq(Creds)
    /\ Ranked \in Seq(Creds)
<1>1. /\ OAuthOrder \in Seq(Providers)
      /\ ApiKeys \in Seq([provider : Providers, key : KeyIndexes])
      /\ 0 \in KeyIndexes
  BY CredentialsAssumption
<1>2. OAuthCreds \in Seq(Creds)
  <2>1. \A i \in 1..Len(OAuthOrder) : OAuthCred(OAuthOrder[i]) \in Creds
    BY <1>1 DEF OAuthCred, Creds, Tiers
  <2>2. OAuthCreds = [i \in 1..Len(OAuthOrder) |-> OAuthCred(OAuthOrder[i])]
    BY <1>1 DEF OAuthCreds
  <2> QED BY <1>1, <2>1, <2>2
<1>3. KeyCreds \in Seq(Creds)
  <2>1. ASSUME NEW i \in 1..Len(ApiKeys)
        PROVE  KeyCred(ApiKeys[i].provider, ApiKeys[i].key) \in Creds
    <3> DEFINE R == [provider : Providers, key : KeyIndexes]
    <3>1. ApiKeys[i] \in R
      <4>1. ApiKeys \in Seq(R)
        BY <1>1
      <4> HIDE DEF R
      <4> QED BY <4>1
    <3>2. ApiKeys[i].provider \in Providers /\ ApiKeys[i].key \in KeyIndexes
      BY <3>1
    <3> QED BY <3>2 DEF KeyCred, Creds, Tiers
  <2>2. KeyCreds = [i \in 1..Len(ApiKeys) |-> KeyCred(ApiKeys[i].provider, ApiKeys[i].key)]
    BY <1>1 DEF KeyCreds
  <2> QED BY <1>1, <2>1, <2>2
<1> QED BY <1>2, <1>3 DEF Ranked

(* A search returns a credential of the set searched for, or none. *)
LEMMA LookType ==
    ASSUME NEW list \in Seq(Creds), NEW S, NEW cd
    PROVE  Look(list, S, cd).cred \in (Creds \cap S) \cup {NoCred}
<1> DEFINE open == {i \in DOMAIN list : list[i] \in S /\ Available(cd, list[i])}
           last == IF open = {} THEN Len(list) ELSE CHOOSE i \in open : \A j \in open : i <= j
<1>1. Look(list, S, cd).cred = IF open = {} THEN NoCred ELSE list[last]
  BY DEF Look
<1>2. CASE open = {}
  BY <1>1, <1>2
<1>3. CASE open # {}
  <2>1. open \subseteq Nat
    OBVIOUS
  <2>2. \E i \in open : \A j \in open : i <= j
    <3>1. PICK i \in open : \A j \in open : <<j, i>> \notin OpToRel(<, Nat)
      <4> HIDE DEF open
      <4> QED BY <1>3, <2>1, NatLessThanWellFounded, WFMin
    <3>2. \A j \in open : ~ (j < i)
      BY <2>1, <3>1 DEF OpToRel
    <3> QED BY <2>1, <3>2
  <2>3. last \in open
    BY <1>3, <2>2
  <2>4. list[last] \in Creds \cap S
    BY <2>3
  <2> QED BY <1>1, <1>3, <2>4
<1> QED BY <1>2, <1>3

(* getActiveCredential returns a credential or none. *)
LEMMA NextType ==
    ASSUME NEW cd
    PROVE  NextCred(cd).cred \in Creds \cup {NoCred}
BY ListTypes, LookType DEF NextCred

(* getActiveKey returns a credential of the provider it is asked for, or none. *)
LEMMA StoredType ==
    ASSUME NEW p \in Providers, NEW cd, NEW keys \in KeyMaps
    PROVE  /\ Stored(p, cd, keys).cred \in Creds \cup {NoCred}
           /\ Stored(p, cd, keys).cred # NoCred => Stored(p, cd, keys).cred.provider = p
<1> DEFINE list == OAuthCreds \o <<KeyCred(p, keys[p])>> \o KeyCreds
<1>1. KeyCred(p, keys[p]) \in Creds
  BY DEF KeyCred, Creds, Tiers, KeyMaps
<1>2. list \in Seq(Creds)
  BY <1>1, ListTypes
<1>3. Stored(p, cd, keys).cred \in (Creds \cap OfProvider(p)) \cup {NoCred}
  BY <1>2, LookType DEF Stored
<1>4. \A c \in OfProvider(p) : c.provider = p
  BY DEF OfProvider
<1> QED BY <1>3, <1>4

(* Finding a credential leaves an index for every provider. *)
LEMMA PointedType ==
    ASSUME NEW keys \in KeyMaps, NEW cred \in Creds \cup {NoCred}
    PROVE  Pointed(keys, cred) \in KeyMaps
BY DEF Pointed, KeyMaps, Creds, NoCred

(* So does building an AuthStorage. *)
LEMMA StorageKeysType ==
    ASSUME NEW cd, NEW keys \in KeyMaps
    PROVE  StorageKeys(cd, keys) \in KeyMaps
<1>1. ASSUME NEW p \in Providers
      PROVE  Pointed(keys, Stored(p, cd, keys).cred)[p] \in KeyIndexes
  BY StoredType, PointedType DEF KeyMaps
<1> QED BY <1>1 DEF StorageKeys, KeyMaps

-----------------------------------------------------------------------------
(* What the parts of a step do to the hosts *)

(* Only host a changed, and it keeps its fields or its session is on the way out. *)
Moved(a) ==
    /\ host' \in [Agents -> Hosts]
    /\ activeKeys' \in KeyMaps
    /\ \A b \in Agents \ {a} : host'[b] = host[b]
    /\ \/ host'[a].at \notin Held
       \/ host[a].at \in Held /\ Own(a)' = Own(a)

(* A host that stays keeps its fields. *)
LEMMA StayMoves ==
    ASSUME HostsTyped, NEW a \in Agents, host[a].at \in Held,
           NEW cd, NEW keys \in KeyMaps, Stay(a, cd, keys)
    PROVE  Moved(a)
<1>1. host' = [host EXCEPT ![a] = [host[a] EXCEPT !.at = "running"]]
  BY DEF Stay
<1>2. host[a] \in Hosts
  BY DEF HostsTyped
<1>3. /\ [host[a] EXCEPT !.at = "running"] \in Hosts
      /\ [host[a] EXCEPT !.at = "running"].tier = host[a].tier
      /\ [host[a] EXCEPT !.at = "running"].provider = host[a].provider
      /\ [host[a] EXCEPT !.at = "running"].key = host[a].key
  BY <1>2 DEF Hosts
<1> QED BY <1>1, <1>3 DEF Stay, Moved, HostsTyped, Own

(* A host that compacts before its switch keeps its fields. *)
LEMMA CompactMoves ==
    ASSUME HostsTyped, NEW a \in Agents, host[a].at \in Held,
           NEW at \in {"compact", "recover"}, NEW p \in Providers,
           NEW cd, NEW keys \in KeyMaps, Compact(a, at, p, cd, keys)
    PROVE  Moved(a)
<1> DEFINE h == [host[a] EXCEPT !.at = at, !.target = p]
<1>1. host' = [host EXCEPT ![a] = h]
  BY DEF Compact
<1>2. host[a] \in Hosts
  BY DEF HostsTyped
<1>3. /\ h \in Hosts
      /\ h.tier = host[a].tier /\ h.provider = host[a].provider /\ h.key = host[a].key
  BY <1>2 DEF Hosts
<1> QED BY <1>1, <1>3 DEF Compact, Moved, HostsTyped, Own

(* A reinitialization that starts gives up the session. *)
LEMMA StartReinitMoves ==
    ASSUME HostsTyped, NEW a \in Agents, NEW p \in Providers,
           NEW cd, NEW keys \in KeyMaps, StartReinit(a, p, cd, keys)
    PROVE  Moved(a)
<1> DEFINE own == Stored(p, cd, keys)
           none == own.cred = NoCred
           h == [host[a] EXCEPT !.at = "reinit", !.provider = p, !.target = p,
                                !.tier = IF none THEN "api_keys" ELSE own.cred.tier,
                                !.key = IF none THEN 0 ELSE own.cred.key]
<1>1. host' = [host EXCEPT ![a] = h]
  BY DEF StartReinit
<1>2. host[a] \in Hosts
  BY DEF HostsTyped
<1>3. own.cred \in Creds \cup {NoCred}
  BY StoredType
<1>4. (IF none THEN "api_keys" ELSE own.cred.tier) \in Tiers
  BY <1>3 DEF Creds, Tiers
<1>5. (IF none THEN 0 ELSE own.cred.key) \in KeyIndexes
  BY <1>3, CredentialsAssumption DEF Creds
<1>6. h \in Hosts /\ h.at = "reinit"
  <2> HIDE DEF own, none
  <2> QED BY <1>2, <1>4, <1>5 DEF Hosts
<1>7. activeKeys' \in KeyMaps
  BY <1>3, PointedType DEF StartReinit
<1>8. host'[a] = h /\ \A b \in Agents \ {a} : host'[b] = host[b]
  BY <1>1 DEF HostsTyped
<1>9. host' \in [Agents -> Hosts]
  <2> HIDE DEF h
  <2> QED BY <1>1, <1>6 DEF HostsTyped
<1> QED
  <2> HIDE DEF h
  <2> QED BY <1>6, <1>7, <1>8, <1>9 DEF Moved, Held

(* A move of one host keeps every host attributed. *)
LEMMA MovedKeepsAttributed ==
    ASSUME HostsTyped, Attributed, NEW a \in Agents, Moved(a), session' = session
    PROVE  HostsTyped' /\ Attributed'
<1>1. HostsTyped'
  BY DEF HostsTyped, Moved
<1>2. ASSUME KeysFrom = "session", NEW b \in Agents, host'[b].at \in Held,
             session'[b] # NoCred
      PROVE  Own(b)' = session'[b]
  <2>1. CASE b = a
    <3>1. host[a].at \in Held /\ Own(a)' = Own(a)
      BY <1>2, <2>1 DEF Moved
    <3> QED BY <1>2, <2>1, <3>1 DEF Attributed
  <2>2. CASE b # a
    <3>1. host'[b] = host[b]
      BY <2>2 DEF Moved
    <3>2. Own(b)' = Own(b)
      BY <3>1 DEF Own
    <3> QED BY <1>2, <3>1, <3>2 DEF Attributed
  <2> QED BY <2>1, <2>2
<1> QED BY <1>1, <1>2 DEF Attributed

(* Rotating to the next key or failing over is a move. *)
LEMMA SwitchMoves ==
    ASSUME HostsTyped, NEW a \in Agents, host[a].at \in Held, NEW p \in Providers,
           NEW cd, NEW keys \in KeyMaps, SwitchTo(a, p, cd, keys)
    PROVE  Moved(a)
BY StartReinitMoves, CompactMoves DEF SwitchTo

(* The mark names the key of the host that makes it, and the host moves. *)
LEMMA MarkMoves ==
    ASSUME HostsTyped, NEW a \in Agents, host[a].at \in Held,
           NEW kind, NEW cd, MarkKeyFailed(a, kind, cd)
    PROVE  /\ Moved(a)
           /\ marked'.cred = Own(a) /\ marked'.used = session[a]
<1> DEFINE failed == Marked(cd, Blamed(a), Reason(kind))
           left   == NextCred(failed)
           after  == Purge(failed, left.seen)
           lifted == WithoutTransient(after)
           last   == NextCred(lifted)
<1>1. marked'.cred = Own(a) /\ marked'.used = session[a]
  BY DEF MarkKeyFailed, Blamed
<1>2. left.cred \in Creds \cup {NoCred} /\ last.cred \in Creds \cup {NoCred}
  BY NextType
<1>3. activeKeys \in KeyMaps
  BY DEF HostsTyped
<1>4. Pointed(activeKeys, left.cred) \in KeyMaps /\ Pointed(activeKeys, last.cred) \in KeyMaps
  BY <1>2, <1>3, PointedType
<1>5. CASE left.cred # NoCred
  <2>1. SwitchTo(a, left.cred.provider, after, Pointed(activeKeys, left.cred))
    BY <1>5 DEF MarkKeyFailed
  <2>2. left.cred.provider \in Providers
    BY <1>2, <1>5 DEF Creds
  <2> HIDE DEF after
  <2>3. Moved(a)
    BY <1>4, <2>1, <2>2, SwitchMoves
  <2> QED BY <1>1, <2>3
<1>6. CASE left.cred = NoCred /\ (kind # "client" \/ last.cred = NoCred)
  <2>1. Stay(a, after, activeKeys) \/ Stay(a, lifted, activeKeys)
    BY <1>6 DEF MarkKeyFailed
  <2> HIDE DEF after, lifted
  <2>2. Moved(a)
    BY <1>3, <2>1, StayMoves
  <2> QED BY <1>1, <2>2
<1>7. CASE left.cred = NoCred /\ kind = "client" /\ last.cred # NoCred
  <2>1. Compact(a, "recover", last.cred.provider, Purge(lifted, last.seen),
                Pointed(activeKeys, last.cred))
    BY <1>7 DEF MarkKeyFailed
  <2>2. last.cred.provider \in Providers
    BY <1>2, <1>7 DEF Creds
  <2>3. Moved(a)
    BY <1>4, <2>1, <2>2, CompactMoves
  <2> QED BY <1>1, <2>3
<1> QED BY <1>5, <1>6, <1>7

(* Whatever the error handler decides is a move, and a mark names the host's own key. *)
LEMMA FailoverMoves ==
    ASSUME HostsTyped, NEW a \in Agents, host[a].at \in Held,
           NEW kind, NEW exhausted, Failover(a, kind, exhausted)
    PROVE  /\ Moved(a)
           /\ \/ marked' = NoMark
              \/ marked'.cred = Own(a) /\ marked'.used = session[a]
<1> DEFINE cd == Purge(cooldowns, {Own(a)})
           next == NextCred(cd)
           looked == IF Available(cd, Own(a)) THEN cd ELSE Purge(cd, next.seen)
<1>1. next.cred \in Creds \cup {NoCred}
  BY NextType
<1>2. activeKeys \in KeyMaps
  BY DEF HostsTyped
<1>3. CASE ~Available(cd, Own(a)) /\ next.cred # NoCred
  <2>1. /\ StartReinit(a, next.cred.provider, Purge(cd, next.seen),
                       Pointed(activeKeys, next.cred))
        /\ marked' = NoMark
    BY <1>3 DEF Failover
  <2>2. next.cred.provider \in Providers
    BY <1>1, <1>3 DEF Creds
  <2>3. Pointed(activeKeys, next.cred) \in KeyMaps
    BY <1>1, <1>2, PointedType
  <2>4. Moved(a)
    BY <2>1, <2>2, <2>3, StartReinitMoves
  <2> QED BY <2>1, <2>4
<1>4. CASE ~(~Available(cd, Own(a)) /\ next.cred # NoCred)
  <2>1. \/ Stay(a, looked, activeKeys) /\ marked' = NoMark
        \/ MarkKeyFailed(a, kind, looked)
    BY <1>4 DEF Failover
  <2> HIDE DEF looked
  <2> QED BY <1>2, <2>1, StayMoves, MarkMoves
<1> QED BY <1>3, <1>4

-----------------------------------------------------------------------------
(* The invariant *)

(* Initially every host has a session on the first credential. *)
LEMMA InitInvariant == Init => IInv
<1> SUFFICES ASSUME Init PROVE IInv
  OBVIOUS
<1> DEFINE first == NextCred({}).cred
<1>1. first \in Creds
  BY NextType DEF Init
<1>2. host = [a \in Agents |-> [at |-> "running", provider |-> first.provider,
                                tier |-> first.tier, key |-> first.key,
                                target |-> first.provider, attempted |-> {}]]
      /\ session = [a \in Agents |-> first]
  BY DEF Init
<1>3. activeKeys \in KeyMaps
  BY CredentialsAssumption DEF Init, KeyMaps
<1>4. first.provider \in Providers /\ first.tier \in Tiers /\ first.key \in KeyIndexes
      /\ first = [tier |-> first.tier, provider |-> first.provider, key |-> first.key]
  BY <1>1 DEF Creds
<1>5. HostsTyped
  <2> HIDE DEF first
  <2> QED BY <1>2, <1>3, <1>4 DEF HostsTyped, Hosts
<1>6. Attributed
  <2> HIDE DEF first
  <2> QED BY <1>2, <1>4 DEF Attributed, Own
<1>7. Blames
  BY DEF Init, Blames, BlamesOwnKey, NoMark
<1> QED BY <1>5, <1>6, <1>7 DEF IInv

(* A step that marks nothing, or the own key of an attributed host, blames rightly. *)
LEMMA MarkBlames ==
    ASSUME Attributed, NEW a \in Agents, host[a].at \in Held,
           \/ marked' = NoMark
           \/ marked'.cred = Own(a) /\ marked'.used = session[a]
    PROVE  Blames'
BY DEF Attributed, Blames, BlamesOwnKey, NoMark

(* A request that fails. *)
LEMMA RequestFailsStep ==
    ASSUME IInv, NEW a \in Agents, RequestFails(a)
    PROVE  IInv'
<1>1. HostsTyped /\ Attributed /\ host[a].at = "running" /\ host[a].at \in Held
      /\ session' = session
  BY DEF IInv, RequestFails, sdkVars, Held
<1>2. CASE host' = [host EXCEPT ![a].at = "refresh",
                               ![a].attempted = @ \cup {host[a].provider}]
           /\ marked' = NoMark /\ activeKeys' = activeKeys
  <2> DEFINE h == [host[a] EXCEPT !.at = "refresh", !.attempted = @ \cup {host[a].provider}]
  <2>1. host[a] \in Hosts
    BY <1>1 DEF HostsTyped
  <2>2. h \in Hosts /\ h.tier = host[a].tier /\ h.provider = host[a].provider
        /\ h.key = host[a].key
    BY <2>1 DEF Hosts
  <2>3. host' = [host EXCEPT ![a] = h]
    BY <1>2, <1>1 DEF HostsTyped
  <2>4. Moved(a)
    <3> HIDE DEF h
    <3> QED BY <1>1, <1>2, <2>2, <2>3 DEF Moved, HostsTyped, Own
  <2> QED BY <1>1, <1>2, <2>4, MovedKeepsAttributed, MarkBlames DEF IInv
<1>3. ASSUME NEW kind, NEW exhausted, Failover(a, kind, exhausted) PROVE IInv'
  BY <1>1, <1>3, FailoverMoves, MovedKeepsAttributed, MarkBlames DEF IInv
<1> QED BY <1>2, <1>3 DEF RequestFails

(* A run that ends well only forgets the refreshes of its host. *)
LEMMA RunSucceedsStep ==
    ASSUME IInv, NEW a \in Agents, RunSucceeds(a)
    PROVE  IInv'
<1>1. HostsTyped /\ Attributed /\ host[a].at \in Held /\ session' = session
      /\ activeKeys' = activeKeys /\ marked' = NoMark
  BY DEF IInv, RunSucceeds, sdkVars, resolverVars, Held
<1> DEFINE h == [host[a] EXCEPT !.attempted = {}]
<1>2. host[a] \in Hosts /\ host' = [host EXCEPT ![a] = h]
  BY <1>1 DEF HostsTyped, RunSucceeds
<1>3. h \in Hosts /\ h.tier = host[a].tier /\ h.provider = host[a].provider
      /\ h.key = host[a].key
  BY <1>2 DEF Hosts
<1>4. Moved(a)
  <2> HIDE DEF h
  <2> QED BY <1>1, <1>2, <1>3 DEF Moved, HostsTyped, Own
<1> QED BY <1>1, <1>4, MovedKeepsAttributed, MarkBlames DEF IInv

(* The compaction before a switch, or the recovery after a 400, ends. *)
LEMMA CompactionEndsStep ==
    ASSUME IInv, NEW a \in Agents, CompactionEnds(a)
    PROVE  IInv'
<1>1. HostsTyped /\ Attributed /\ session' = session /\ marked' = NoMark
      /\ host[a].at \in {"compact", "recover"} /\ host[a].at \in Held
  BY DEF IInv, CompactionEnds, sdkVars, Held
<1>2. activeKeys \in KeyMaps /\ host[a].target \in Providers
  BY <1>1 DEF HostsTyped, Hosts
<1> DEFINE next == NextCred(cooldowns)
           cd   == Purge(cooldowns, next.seen)
           keys == Pointed(activeKeys, next.cred)
<1>3. next.cred \in Creds \cup {NoCred}
  BY NextType
<1>4. keys \in KeyMaps
  BY <1>2, <1>3, PointedType
<1>5. Moved(a)
  <2>1. CASE StartReinit(a, host[a].target, cooldowns, activeKeys)
    BY <1>1, <1>2, <2>1, StartReinitMoves
  <2>2. CASE next.cred # NoCred /\ Compact(a, "compact", next.cred.provider, cd, keys)
    <3>1. next.cred.provider \in Providers
      BY <1>3, <2>2 DEF Creds
    <3> HIDE DEF next, cd, keys
    <3> QED BY <1>1, <1>4, <2>2, <3>1, CompactMoves
  <2>3. CASE Stay(a, cd, keys)
    <3> HIDE DEF next, cd, keys
    <3> QED BY <1>1, <1>4, <2>3, StayMoves
  <2> QED BY <2>1, <2>2, <2>3 DEF CompactionEnds
<1> QED BY <1>1, <1>5, MovedKeepsAttributed, MarkBlames DEF IInv

(* A step that leaves the hosts, their sessions and the active keys alone. *)
LEMMA HostsUntouched ==
    ASSUME IInv, host' = host, session' = session, activeKeys' = activeKeys, marked' = NoMark
    PROVE  IInv'
<1>1. HostsTyped'
  BY DEF IInv, HostsTyped
<1>2. Attributed'
  BY DEF IInv, Attributed, Own
<1>3. Blames'
  BY DEF Blames, BlamesOwnKey, NoMark
<1> QED BY <1>1, <1>2, <1>3 DEF IInv

(* The refresh of a 401 returns. *)
LEMMA RefreshReturnsStep ==
    ASSUME IInv, NEW a \in Agents, RefreshReturns(a)
    PROVE  IInv'
<1>1. HostsTyped /\ Attributed /\ session' = session /\ host[a].at \in Held
  BY DEF IInv, RefreshReturns, sdkVars, Held
<1>2. CASE Failover(a, "auth401", TRUE)
  BY <1>1, <1>2, FailoverMoves, MovedKeepsAttributed, MarkBlames DEF IInv
<1>3. CASE StartReinit(a, host[a].provider, cooldowns, activeKeys) /\ marked' = NoMark
  <2>1. host[a].provider \in Providers /\ activeKeys \in KeyMaps
    BY <1>1 DEF HostsTyped, Hosts
  <2>2. Moved(a)
    BY <1>1, <1>3, <2>1, StartReinitMoves
  <2> QED BY <1>1, <1>3, <2>2, MovedKeepsAttributed, MarkBlames DEF IInv
<1> QED BY <1>2, <1>3 DEF RefreshReturns

(* The refresh of a reinitialization returns: the session is still on its way out. *)
LEMMA ReinitReturnsStep ==
    ASSUME IInv, NEW a \in Agents, ReinitReturns(a)
    PROVE  IInv'
<1>1. HostsTyped /\ Attributed /\ session' = session /\ marked' = NoMark
  BY DEF IInv, ReinitReturns
<1> DEFINE cd   == StoragePurge(cooldowns, activeKeys)
           keys == StorageKeys(cooldowns, activeKeys)
           own  == Stored(host[a].provider, cd, keys).cred
           k    == IF own = NoCred THEN 0 ELSE own.key
           h    == [host[a] EXCEPT !.at = "reload", !.key = k]
<1>2. host[a] \in Hosts /\ activeKeys \in KeyMaps
  BY <1>1 DEF HostsTyped
<1>3. keys \in KeyMaps
  BY <1>2, StorageKeysType
<1>4. own \in Creds \cup {NoCred}
  <2>1. host[a].provider \in Providers
    BY <1>2 DEF Hosts
  <2> HIDE DEF cd, keys
  <2> QED BY <1>3, <2>1, StoredType
<1>5. k \in KeyIndexes
  <2> HIDE DEF own
  <2> QED BY <1>4, CredentialsAssumption DEF Creds
<1>6. host' = [host EXCEPT ![a] = h] /\ activeKeys' = keys
  BY DEF ReinitReturns
<1>7. Moved(a)
  <2> HIDE DEF k, keys
  <2>1. h \in Hosts /\ h.at = "reload"
    BY <1>2, <1>5 DEF Hosts
  <2> HIDE DEF h
  <2> QED BY <1>1, <1>3, <1>6, <2>1 DEF Moved, Held, HostsTyped
<1> QED
  <2>1. HostsTyped' /\ Attributed'
    BY <1>1, <1>7, MovedKeepsAttributed
  <2>2. Blames'
    BY <1>1 DEF Blames, BlamesOwnKey, NoMark
  <2> QED BY <2>1, <2>2 DEF IInv

(* The reload ends: still no session of the new credential. *)
LEMMA ReloadEndsStep ==
    ASSUME IInv, NEW a \in Agents, ReloadEnds(a)
    PROVE  IInv'
<1>1. HostsTyped /\ Attributed /\ session' = session /\ marked' = NoMark
      /\ activeKeys' = activeKeys
  BY DEF IInv, ReloadEnds, sdkVars, resolverVars
<1> DEFINE h == [host[a] EXCEPT !.at = "init"]
<1>2. host[a] \in Hosts /\ host' = [host EXCEPT ![a] = h]
  BY <1>1 DEF HostsTyped, ReloadEnds
<1>3. h \in Hosts /\ h.at = "init"
  BY <1>2 DEF Hosts
<1>4. Moved(a)
  <2> HIDE DEF h
  <2> QED BY <1>1, <1>2, <1>3 DEF Moved, Held, HostsTyped
<1>5. HostsTyped' /\ Attributed'
  BY <1>1, <1>4, MovedKeepsAttributed
<1>6. Blames'
  BY <1>1 DEF Blames, BlamesOwnKey, NoMark
<1> QED BY <1>5, <1>6 DEF IInv

(* A session begins on the credential whose tier and index the host has read again. *)
LEMMA InitReturnsStep ==
    ASSUME IInv, NEW a \in Agents, InitReturns(a)
    PROVE  IInv'
<1>1. HostsTyped /\ Attributed /\ marked' = NoMark
  BY DEF IInv, InitReturns
<1> DEFINE own == Stored(host[a].provider, cooldowns, activeKeys).cred
           r   == [host[a] EXCEPT !.at = "running"]
           h   == Adopt(r, own)
<1>2. host[a] \in Hosts /\ activeKeys \in KeyMaps /\ host[a].provider \in Providers
  BY <1>1 DEF HostsTyped, Hosts
<1>3. own \in Creds \cup {NoCred} /\ (own # NoCred => own.provider = host[a].provider)
  BY <1>2, StoredType
<1>4. /\ host' = [host EXCEPT ![a] = h]
      /\ session' = [session EXCEPT ![a] = IF KeysFrom = "session" THEN own ELSE registry[a]]
      /\ activeKeys' = StorageKeys(cooldowns, activeKeys)
  BY DEF InitReturns
<1>5. r \in Hosts /\ r.provider = host[a].provider
  BY <1>2 DEF Hosts
<1>6. h \in Hosts /\ (own # NoCred => /\ h.tier = own.tier /\ h.key = own.key
                                     /\ h.provider = own.provider)
  <2> HIDE DEF own, r
  <2> QED BY <1>3, <1>5 DEF Adopt, Hosts, Creds, Tiers
<1>7. own # NoCred => own = [tier |-> own.tier, provider |-> own.provider, key |-> own.key]
  <2> HIDE DEF own
  <2> QED BY <1>3 DEF Creds
<1> HIDE DEF own, r, h
<1>8. HostsTyped'
  BY <1>1, <1>2, <1>4, <1>6, StorageKeysType DEF HostsTyped
<1>9. Attributed'
  <2> SUFFICES ASSUME KeysFrom = "session", NEW b \in Agents,
                      host'[b].at \in Held, session'[b] # NoCred
               PROVE  Own(b)' = session'[b]
    BY DEF Attributed
  <2>1. CASE b = a
    <3>1. host'[b] = h /\ session'[b] = own
      BY <1>1, <1>4, <2>1 DEF HostsTyped
    <3> QED BY <1>6, <1>7, <3>1 DEF Own
  <2>2. CASE b # a
    <3>1. host'[b] = host[b] /\ session'[b] = session[b]
      BY <1>1, <1>4, <2>2 DEF HostsTyped
    <3>2. Own(b)' = Own(b)
      BY <3>1 DEF Own
    <3> QED BY <1>1, <3>1, <3>2 DEF Attributed
  <2> QED BY <2>1, <2>2
<1>10. Blames'
  BY <1>1 DEF Blames, BlamesOwnKey, NoMark
<1> QED BY <1>8, <1>9, <1>10 DEF IInv

(* Every step keeps the invariant. *)
LEMMA NextInvariant ==
    ASSUME IInv, [Next]_vars
    PROVE  IInv'
<1>1. CASE UNCHANGED vars
  BY <1>1 DEF IInv, vars, sdkVars, resolverVars, HostsTyped, Attributed, Own, Blames,
              BlamesOwnKey
<1>2. ASSUME NEW a \in Agents, HostStep(a) PROVE IInv'
  <2>1. CASE CompactionEnds(a)
    BY <2>1, CompactionEndsStep
  <2>2. CASE LoopStops(a)
    BY <2>2, HostsUntouched DEF LoopStops, sdkVars
  <2>3. CASE LoopEnds(a)
    BY <2>3, HostsUntouched DEF LoopEnds, sdkVars, resolverVars
  <2>4. CASE Wakes(a)
    <3>1. marked' = NoMark /\ UNCHANGED <<host, session, activeKeys>>
      BY <2>4 DEF Wakes, sdkVars
    <3> QED BY <3>1, HostsUntouched
  <2>5. CASE RefreshEnds(a)
    BY <2>5, HostsUntouched DEF RefreshEnds, sdkVars
  <2>6. CASE RefreshReturns(a)
    BY <2>6, RefreshReturnsStep
  <2>7. CASE ReinitReturns(a)
    BY <2>7, ReinitReturnsStep
  <2>8. CASE ReloadEnds(a)
    BY <2>8, ReloadEndsStep
  <2>9. CASE InitReturns(a)
    BY <2>9, InitReturnsStep
  <2> QED BY <1>2, <2>1, <2>2, <2>3, <2>4, <2>5, <2>6, <2>7, <2>8, <2>9 DEF HostStep
<1>3. ASSUME NEW a \in Agents, RequestFails(a) \/ RunSucceeds(a) PROVE IInv'
  BY <1>3, RequestFailsStep, RunSucceedsStep
<1>4. ASSUME NEW e \in cooldowns, CooldownEnds(e) PROVE IInv'
  BY <1>4, HostsUntouched DEF CooldownEnds, sdkVars
<1>5. ASSUME NEW p \in OAuthProviders, TokenAges(p) PROVE IInv'
  BY <1>5, HostsUntouched DEF TokenAges, sdkVars
<1> QED BY <1>1, <1>2, <1>3, <1>4, <1>5 DEF Next

(* If the SDK takes a session's key from the AuthStorage the session is created with,
   then a host only ever reports the key its own session worked with, whatever the
   other hosts rotate, mark and refresh meanwhile (markKeyFailed at host.ts 1270). *)
THEOREM OwnKeyBlamed ==
    ASSUME KeysFrom = "session"
    PROVE  Spec => []BlamesOwnKey
<1>1. Init => IInv
  BY InitInvariant
<1>2. IInv /\ [Next]_vars => IInv'
  BY NextInvariant
<1>3. IInv => BlamesOwnKey
  BY DEF IInv, Blames
<1> QED BY <1>1, <1>2, <1>3, PTL DEF Spec

-----------------------------------------------------------------------------
(* Cooldowns *)

Entries == [cred : Creds, reason : Reasons, over : BOOLEAN]

CooldownsTyped ==
    /\ cooldowns \subseteq Entries
    /\ \A e, f \in cooldowns : e.cred = f.cred => e = f

\* Only entries that are over are missing from cd.
Thinned(cd) == cd \subseteq cooldowns /\ \A e \in cooldowns : e \notin cd => e.over

\* What a step may make of the cooldowns.
Steady(cd) ==
    /\ cd \subseteq Entries
    /\ \A e, f \in cd : e.cred = f.cred => e = f
    /\ \A e \in cooldowns, f \in cd : e.cred = f.cred /\ ~e.over /\ ~f.over => e = f

(* Looking credentials up only deletes entries that are over. *)
LEMMA PurgeThins ==
    ASSUME NEW cd, Thinned(cd), NEW S
    PROVE  Thinned(Purge(cd, S))
BY DEF Thinned, Purge

(* The cooldowns as they are have lost nothing. *)
LEMMA NowThinned == Thinned(cooldowns)
BY DEF Thinned

(* To lose only entries that are over restarts none. *)
LEMMA ThinnedSteady ==
    ASSUME CooldownsTyped, NEW cd, Thinned(cd)
    PROVE  Steady(cd)
BY DEF CooldownsTyped, Thinned, Steady

(* Entries may go. *)
LEMMA SubsetSteady ==
    ASSUME NEW cd, Steady(cd), NEW sub \in SUBSET cd
    PROVE  Steady(sub)
BY DEF Steady

(* A search over steady cooldowns leaves them steady. *)
LEMMA PurgeSteady ==
    ASSUME NEW cd, Steady(cd), NEW S
    PROVE  Steady(Purge(cd, S))
<1>1. Purge(cd, S) \in SUBSET cd
  BY DEF Purge
<1> QED BY <1>1, SubsetSteady

(* markKeyFailed adds an entry where there is none or the one there was is over. *)
LEMMA MarkedSteady ==
    ASSUME CooldownsTyped, NEW cd, Thinned(cd), NEW c \in Creds, NEW r \in Reasons
    PROVE  Steady(Marked(cd, c, r))
<1> DEFINE new == [cred |-> c, reason |-> r, over |-> FALSE]
<1>1. Steady(cd)
  BY ThinnedSteady
<1>2. CASE \E e \in cd : e.cred = c
  BY <1>1, <1>2 DEF Marked
<1>3. CASE ~ \E e \in cd : e.cred = c
  <2>1. Marked(cd, c, r) = cd \cup {new}
    BY <1>3 DEF Marked
  <2>2. new \in Entries /\ new.cred = c
    BY DEF Entries
  <2> HIDE DEF new
  <2>3. \A e \in cd : e.cred # new.cred
    BY <1>3, <2>2
  <2>4. \A e \in cooldowns : e.cred = new.cred => e.over
    BY <2>3 DEF Thinned
  <2>5. cd \cup {new} \subseteq Entries
    BY <1>1, <2>2 DEF Steady
  <2>6. \A e, f \in cd \cup {new} : e.cred = f.cred => e = f
    BY <1>1, <2>3 DEF Steady
  <2>7. \A e \in cooldowns, f \in cd \cup {new} : e.cred = f.cred /\ ~e.over /\ ~f.over => e = f
    BY <1>1, <2>4 DEF Steady
  <2> QED BY <2>1, <2>5, <2>6, <2>7 DEF Steady
<1> QED BY <1>2, <1>3

(* It benches the key, unless an entry that is over is still there. *)
LEMMA MarkedBenches ==
    ASSUME NEW cd, NEW c, NEW r, \A e \in cd : e.cred = c => ~e.over
    PROVE  ~Available(Marked(cd, c, r), c)
<1> DEFINE new == [cred |-> c, reason |-> r, over |-> FALSE]
<1>1. CASE \E e \in cd : e.cred = c
  BY <1>1 DEF Marked, Available
<1>2. CASE ~ \E e \in cd : e.cred = c
  <2>1. new \in Marked(cd, c, r) /\ new.cred = c /\ ~new.over
    BY <1>2 DEF Marked
  <2> QED BY <2>1 DEF Available
<1> QED BY <1>1, <1>2

(* A benched key stays so whatever is looked up. *)
LEMMA PurgeKeepsBenched ==
    ASSUME NEW cd, NEW c, ~Available(cd, c), NEW S
    PROVE  ~Available(Purge(cd, S), c)
BY DEF Purge, Available

(* Where a step that begins with the cooldowns cd can leave them. *)
LEMMA StartReinitLeaves ==
    ASSUME NEW a, NEW p, NEW cd, NEW keys, StartReinit(a, p, cd, keys)
    PROVE  \E S : cooldowns' = Purge(cd, S)
BY DEF StartReinit

(* A switch only looks: what it does to the cooldowns are searches. *)
LEMMA SwitchLeaves ==
    ASSUME NEW a, NEW p, NEW cd, NEW keys, SwitchTo(a, p, cd, keys)
    PROVE  cooldowns' = cd \/ \E S : cooldowns' = Purge(cd, S)
BY StartReinitLeaves DEF SwitchTo, Compact

(* The mark of a failing key, and the search for another. *)
LEMMA MarkKeyFailedCooldowns ==
    ASSUME HostsTyped, CooldownsTyped, NEW a \in Agents, NEW kind,
           NEW cd, Thinned(cd), \A e \in cd : e.cred = Own(a) => ~e.over,
           MarkKeyFailed(a, kind, cd)
    PROVE  Steady(cooldowns') /\ FailedKeyBenched'
<1> DEFINE failed == Marked(cd, Blamed(a), Reason(kind))
           left   == NextCred(failed)
           after  == Purge(failed, left.seen)
           lifted == WithoutTransient(after)
           last   == NextCred(lifted)
<1>1. Own(a) \in Creds
  BY DEF HostsTyped, Hosts, Own, Creds
<1>2. Reason(kind) \in Reasons
  BY DEF Reason, Reasons
<1>3. Steady(failed) /\ ~Available(failed, Own(a))
  BY <1>1, <1>2, MarkedSteady, MarkedBenches DEF Blamed
<1>4. Steady(after) /\ ~Available(after, Own(a))
  <2> HIDE DEF failed
  <2> QED BY <1>3, PurgeSteady, PurgeKeepsBenched
<1>5. Steady(lifted)
  <2>1. lifted \in SUBSET after
    BY DEF WithoutTransient
  <2> HIDE DEF lifted, after
  <2> QED BY <1>4, <2>1, SubsetSteady
<1>6. marked'.cred = Own(a) /\ marked'.lifted = (left.cred = NoCred /\ kind = "client")
  BY DEF MarkKeyFailed, Blamed
<1>7. CASE left.cred # NoCred
  <2>1. SwitchTo(a, left.cred.provider, after, Pointed(activeKeys, left.cred))
    BY <1>7 DEF MarkKeyFailed
  <2> HIDE DEF after, left
  <2>2. cooldowns' = after \/ \E S : cooldowns' = Purge(after, S)
    BY <2>1, SwitchLeaves
  <2>3. Steady(cooldowns') /\ ~Available(cooldowns', Own(a))
    BY <1>4, <2>2, PurgeSteady, PurgeKeepsBenched
  <2> QED BY <1>6, <2>3 DEF FailedKeyBenched
<1>8. CASE left.cred = NoCred /\ kind # "client"
  <2>1. cooldowns' = after
    BY <1>8 DEF MarkKeyFailed, Stay
  <2> HIDE DEF after
  <2> QED BY <1>4, <1>6, <2>1 DEF FailedKeyBenched
<1>9. CASE left.cred = NoCred /\ kind = "client"
  <2>1. cooldowns' = lifted \/ cooldowns' = Purge(lifted, last.seen)
    BY <1>9 DEF MarkKeyFailed, Stay, Compact
  <2> HIDE DEF lifted
  <2>2. Steady(cooldowns')
    BY <1>5, <2>1, PurgeSteady
  <2> QED BY <1>6, <1>9, <2>2 DEF FailedKeyBenched
<1> QED BY <1>7, <1>8, <1>9

(* Whatever the error handler decides keeps the cooldowns that run. *)
LEMMA FailoverCooldowns ==
    ASSUME HostsTyped, CooldownsTyped, NEW a \in Agents, NEW kind, NEW exhausted,
           Failover(a, kind, exhausted)
    PROVE  Steady(cooldowns') /\ FailedKeyBenched'
<1> DEFINE cd == Purge(cooldowns, {Own(a)})
           next == NextCred(cd)
           looked == IF Available(cd, Own(a)) THEN cd ELSE Purge(cd, next.seen)
<1>1. Thinned(cd)
  BY NowThinned, PurgeThins
<1>2. \A e \in cd : e.cred = Own(a) => ~e.over
  BY DEF Purge
<1>3. Thinned(looked) /\ \A e \in looked : e.cred = Own(a) => ~e.over
  <2> HIDE DEF cd, next
  <2>1. Thinned(Purge(cd, next.seen)) /\ Purge(cd, next.seen) \subseteq cd
    BY <1>1, PurgeThins DEF Purge
  <2> QED BY <1>1, <1>2, <2>1
<1>4. CASE ~Available(cd, Own(a)) /\ next.cred # NoCred
  <2>1. /\ StartReinit(a, next.cred.provider, Purge(cd, next.seen),
                       Pointed(activeKeys, next.cred))
        /\ marked' = NoMark
    BY <1>4 DEF Failover
  <2> HIDE DEF cd, next
  <2>2. PICK S : cooldowns' = Purge(Purge(cd, next.seen), S)
    BY <2>1, StartReinitLeaves
  <2>3. Thinned(cooldowns')
    BY <1>1, <2>2, PurgeThins
  <2> QED BY <2>1, <2>3, ThinnedSteady DEF FailedKeyBenched, NoMark
<1>5. CASE ~(~Available(cd, Own(a)) /\ next.cred # NoCred)
  <2>1. \/ Stay(a, looked, activeKeys) /\ marked' = NoMark
        \/ MarkKeyFailed(a, kind, looked)
    BY <1>5 DEF Failover
  <2> HIDE DEF looked
  <2>2. CASE Stay(a, looked, activeKeys) /\ marked' = NoMark
    BY <1>3, <2>2, ThinnedSteady DEF Stay, FailedKeyBenched, NoMark
  <2>3. CASE MarkKeyFailed(a, kind, looked)
    BY <1>3, <2>3, MarkKeyFailedCooldowns
  <2> QED BY <2>1, <2>2, <2>3
<1> QED BY <1>4, <1>5

(* A step that marks no credential leaves nothing to bench. *)
LEMMA UnmarkedBenched ==
    ASSUME marked' = NoMark
    PROVE  FailedKeyBenched'
<1>1. marked'.by = Nobody
  BY DEF NoMark
<1> QED BY <1>1 DEF FailedKeyBenched

(* A step that marks nothing and at most looks credentials up. *)
LEMMA LooksOnly ==
    ASSUME CooldownsTyped, marked' = NoMark,
           cooldowns' = cooldowns \/ \E S : cooldowns' = Purge(cooldowns, S)
    PROVE  Steady(cooldowns') /\ FailedKeyBenched'
<1>1. Thinned(cooldowns')
  BY NowThinned, PurgeThins
<1> QED BY <1>1, ThinnedSteady, UnmarkedBenched

(* Every step is steady, and after it whoever has just been marked is benched. *)
LEMMA StepCooldowns ==
    ASSUME HostsTyped, CooldownsTyped, FailedKeyBenched, [Next]_vars
    PROVE  Steady(cooldowns') /\ FailedKeyBenched'
<1>1. CASE UNCHANGED vars
  <2>1. cooldowns' = cooldowns /\ marked' = marked
    BY <1>1 DEF vars, resolverVars
  <2> QED BY <2>1, NowThinned, ThinnedSteady DEF FailedKeyBenched
<1>2. ASSUME NEW a \in Agents, HostStep(a) PROVE Steady(cooldowns') /\ FailedKeyBenched'
  <2>1. CASE CompactionEnds(a)
    <3>1. marked' = NoMark
      BY <2>1 DEF CompactionEnds
    <3>2. cooldowns' = cooldowns \/ \E S : cooldowns' = Purge(cooldowns, S)
      BY <2>1, StartReinitLeaves DEF CompactionEnds, Compact, Stay
    <3> QED BY <3>1, <3>2, LooksOnly
  <2>2. CASE LoopStops(a) \/ LoopEnds(a) \/ Wakes(a) \/ ReloadEnds(a)
    BY <2>2, LooksOnly DEF LoopStops, LoopEnds, Wakes, ReloadEnds, resolverVars
  <2>3. CASE RefreshEnds(a)
    <3>1. marked' = NoMark /\ cooldowns' \in SUBSET cooldowns
      BY <2>3 DEF RefreshEnds
    <3>2. Steady(cooldowns')
      BY <3>1, NowThinned, ThinnedSteady, SubsetSteady
    <3>3. FailedKeyBenched'
      BY <3>1, UnmarkedBenched
    <3> QED BY <3>2, <3>3
  <2>4. CASE RefreshReturns(a)
    <3>1. CASE Failover(a, "auth401", TRUE)
      BY <3>1, FailoverCooldowns
    <3>2. CASE StartReinit(a, host[a].provider, cooldowns, activeKeys) /\ marked' = NoMark
      BY <3>2, StartReinitLeaves, LooksOnly
    <3> QED BY <2>4, <3>1, <3>2 DEF RefreshReturns
  <2>5. CASE ReinitReturns(a) \/ InitReturns(a)
    BY <2>5, LooksOnly DEF ReinitReturns, InitReturns, StoragePurge
  <2> QED BY <1>2, <2>1, <2>2, <2>3, <2>4, <2>5 DEF HostStep
<1>3. ASSUME NEW a \in Agents, RequestFails(a) PROVE Steady(cooldowns') /\ FailedKeyBenched'
  <2>1. CASE marked' = NoMark /\ cooldowns' = cooldowns
    BY <2>1, LooksOnly
  <2>2. ASSUME NEW kind, NEW exhausted, Failover(a, kind, exhausted)
        PROVE  Steady(cooldowns') /\ FailedKeyBenched'
    BY <2>2, FailoverCooldowns
  <2> QED BY <1>3, <2>1, <2>2 DEF RequestFails
<1>4. ASSUME NEW a \in Agents, RunSucceeds(a) PROVE Steady(cooldowns') /\ FailedKeyBenched'
  BY <1>4, LooksOnly DEF RunSucceeds, resolverVars
<1>5. ASSUME NEW e \in cooldowns, CooldownEnds(e) PROVE Steady(cooldowns') /\ FailedKeyBenched'
  <2> DEFINE f == [e EXCEPT !.over = TRUE]
  <2>1. cooldowns' = (cooldowns \ {e}) \cup {f} /\ marked' = NoMark
    BY <1>5 DEF CooldownEnds
  <2>2. f \in Entries /\ f.cred = e.cred /\ f.over
    BY DEF CooldownsTyped, Entries
  <2> HIDE DEF f
  <2>3. Steady(cooldowns')
    BY <2>1, <2>2 DEF Steady, CooldownsTyped
  <2> QED BY <2>1, <2>3 DEF FailedKeyBenched, NoMark
<1>6. ASSUME NEW p \in OAuthProviders, TokenAges(p) PROVE Steady(cooldowns') /\ FailedKeyBenched'
  BY <1>6, LooksOnly DEF TokenAges
<1> QED BY <1>1, <1>2, <1>3, <1>4, <1>5, <1>6 DEF Next

CInv == IInv /\ CooldownsTyped /\ FailedKeyBenched

(* The cooldowns are well formed in every state. *)
LEMMA CooldownsInvariant ==
    /\ Init => CInv
    /\ CInv /\ [Next]_vars => CInv' /\ Steady(cooldowns')
<1>1. Init => CInv
  BY InitInvariant DEF Init, CInv, CooldownsTyped, FailedKeyBenched, NoMark
<1>2. ASSUME CInv, [Next]_vars PROVE CInv' /\ Steady(cooldowns')
  <2>1. IInv' /\ HostsTyped
    BY <1>2, NextInvariant DEF CInv, IInv
  <2>2. Steady(cooldowns') /\ FailedKeyBenched'
    BY <1>2, <2>1, StepCooldowns DEF CInv
  <2>3. CooldownsTyped'
    BY <2>2 DEF Steady, CooldownsTyped
  <2> QED BY <2>1, <2>2, <2>3 DEF CInv
<1> QED BY <1>1, <1>2

(* A key that a host reports is not given back to it by the search that follows, nor
   to anyone else: its failure is always on record (markKeyFailed at host.ts 1270, after
   isKeyInCooldown at host.ts 1125 has deleted an entry that is over).            *)
THEOREM FailedKeyStaysOut == Spec => []FailedKeyBenched
<1>1. CInv => FailedKeyBenched
  BY DEF CInv
<1> QED BY <1>1, CooldownsInvariant, PTL DEF Spec

(* The failures of other hosts that hold a key never restart its cooldown or change
   its reason, however their steps interleave (markKeyFailed, auth-resolver.ts).  *)
THEOREM CooldownRunsOnce == Spec => CooldownNotRestarted
<1> DEFINE Once == \A e \in cooldowns, f \in cooldowns' :
                      e.cred = f.cred /\ ~e.over /\ ~f.over => e = f
<1>1. CInv /\ [Next]_vars => Once
  BY CooldownsInvariant DEF Steady
<1>2. CInv /\ [Next]_vars => CInv'
  BY CooldownsInvariant
<1> HIDE DEF Once
<1>3. Spec => [][Once]_vars
  BY <1>1, <1>2, CooldownsInvariant, PTL DEF Spec
<1> QED BY <1>3 DEF CooldownNotRestarted, Once

-----------------------------------------------------------------------------
(* Refreshes *)

\* What a host's ensureFresh() call is described by.
Shape(c) == DOMAIN c = {"at", "next", "on", "token", "forced"}

CallsShaped ==
    /\ call = [a \in Agents |-> call[a]]
    /\ \A a \in Agents : Shape(call[a])

\* What a step may make of a call: a refresh that begins has the token in memory.
Starts(c, d) ==
    /\ Shape(d)
    /\ d.at = "refreshing" => c.at = "refreshing" \/ d.token = token[OAuthOrder[d.next]]

\* The calls after a step.
CallsStep ==
    /\ call' = [a \in Agents |-> call'[a]]
    /\ \A a \in Agents : Starts(call[a], call'[a])

(* A call that is new, over or failed is none that refreshes. *)
LEMMA NewCallStarts ==
    ASSUME NEW c, NEW forced, NEW at \in {"done", "failed"}
    PROVE  Starts(c, NoCall) /\ Starts(c, Fresh(forced)) /\ Starts(c, [NoCall EXCEPT !.at = at])
<1>1. Shape(NoCall) /\ NoCall.at = "none"
  BY DEF NoCall, Shape
<1>2. Shape(Fresh(forced)) /\ Fresh(forced).at = "loop"
  BY <1>1 DEF Fresh, Shape
<1>3. Shape([NoCall EXCEPT !.at = at]) /\ [NoCall EXCEPT !.at = at].at = at
  BY <1>1 DEF Shape
<1> QED BY <1>1, <1>2, <1>3 DEF Starts

(* Nor does one become one by being left alone. *)
LEMMA SameCallStarts ==
    ASSUME NEW c, Shape(c)
    PROVE  Starts(c, c)
BY DEF Starts

(* A step that no refresh takes part in keeps every call as it is. *)
LEMMA SameCalls ==
    ASSUME CallsShaped, call' = call
    PROVE  CallsStep
BY SameCallStarts DEF CallsShaped, CallsStep

(* A step that changes one call. *)
LEMMA OneCallChanges ==
    ASSUME CallsShaped, NEW a \in Agents, NEW d, Starts(call[a], d),
           call' = [call EXCEPT ![a] = d]
    PROVE  CallsStep
<1>1. call' = [b \in Agents |-> IF b = a THEN d ELSE call[b]]
  BY DEF CallsShaped
<1>2. ASSUME NEW b \in Agents PROVE Starts(call[b], call'[b])
  <2>1. CASE b = a
    BY <1>1, <2>1
  <2>2. CASE b # a
    BY <1>1, <2>2, SameCallStarts DEF CallsShaped
  <2> QED BY <2>1, <2>2
<1>3. call' = [b \in Agents |-> call'[b]]
  BY <1>1
<1> QED BY <1>2, <1>3 DEF CallsStep

(* A call of ensureFresh begins, or ends, for one host. *)
LEMMA NewCall ==
    ASSUME CallsShaped, NEW a \in Agents,
           \/ call' = [call EXCEPT ![a] = NoCall]
           \/ \E forced : call' = [call EXCEPT ![a] = Fresh(forced)]
    PROVE  CallsStep
BY NewCallStarts, OneCallChanges

(* The error handler begins a new call or none. *)
LEMMA FailoverCalls ==
    ASSUME CallsShaped, NEW a \in Agents, NEW kind, NEW exhausted,
           Failover(a, kind, exhausted)
    PROVE  CallsStep
<1>1. ASSUME NEW p, NEW cd, NEW keys, StartReinit(a, p, cd, keys) PROVE CallsStep
  BY <1>1, NewCall DEF StartReinit
<1>2. ASSUME NEW cd, NEW keys, Stay(a, cd, keys) PROVE CallsStep
  BY <1>2, NewCall DEF Stay
<1>3. ASSUME NEW at, NEW p, NEW cd, NEW keys, Compact(a, at, p, cd, keys) PROVE CallsStep
  BY <1>3, NewCall DEF Compact
<1>4. ASSUME NEW cd, MarkKeyFailed(a, kind, cd) PROVE CallsStep
  BY <1>1, <1>2, <1>3, <1>4 DEF MarkKeyFailed, SwitchTo
<1> QED BY <1>1, <1>2, <1>4 DEF Failover

(* doRefresh is called with the credential of the provider as it is now. *)
LEMMA StartRefreshCalls ==
    ASSUME CallsShaped, NEW a \in Agents, NEW i, StartRefresh(a, i)
    PROVE  CallsStep
<1> DEFINE d == [call[a] EXCEPT !.at = "refreshing", !.next = i, !.token = token[OAuthOrder[i]]]
<1>1. Shape(call[a])
  BY DEF CallsShaped
<1>2. Shape(d) /\ d.next = i /\ d.token = token[OAuthOrder[i]]
  BY <1>1 DEF Shape
<1>3. call' = [call EXCEPT ![a] = d]
  BY DEF StartRefresh
<1> HIDE DEF d
<1>4. Starts(call[a], d)
  BY <1>2 DEF Starts
<1> QED BY <1>3, <1>4, OneCallChanges

(* The loop reaches a provider that needs a refresh. *)
LEMMA LoopStopsCalls ==
    ASSUME CallsShaped, NEW a \in Agents, LoopStops(a)
    PROVE  CallsStep
<1>1. PICK i \in Pending(a) :
        \/ StartRefresh(a, i)
        \/ call' = [call EXCEPT ![a] = [@ EXCEPT !.at = "waiting", !.next = i,
                      !.on = refreshLocks[OAuthOrder[i]], !.token = token[OAuthOrder[i]]]]
  BY DEF LoopStops
<1> DEFINE d == [call[a] EXCEPT !.at = "waiting", !.next = i,
                      !.on = refreshLocks[OAuthOrder[i]], !.token = token[OAuthOrder[i]]]
<1>2. CASE call' = [call EXCEPT ![a] = d]
  <2>1. Shape(call[a])
    BY DEF CallsShaped
  <2>2. Shape(d) /\ d.at = "waiting"
    BY <2>1 DEF Shape
  <2> HIDE DEF d
  <2>3. Starts(call[a], d)
    BY <2>2 DEF Starts
  <2> QED BY <1>2, <2>3, OneCallChanges
<1> QED BY <1>1, <1>2, StartRefreshCalls

(* A waiter goes on: it refreshes itself, or continues its loop. *)
LEMMA WakesCalls ==
    ASSUME CallsShaped, NEW a \in Agents, Wakes(a)
    PROVE  CallsStep
<1> DEFINE d == [call[a] EXCEPT !.at = "loop", !.token = 0, !.next = call[a].next + 1]
<1>1. StartRefresh(a, call[a].next) \/ call' = [call EXCEPT ![a] = d]
  BY DEF Wakes
<1>2. CASE call' = [call EXCEPT ![a] = d]
  <2>1. Shape(call[a])
    BY DEF CallsShaped
  <2>2. Shape(d) /\ d.at = "loop"
    BY <2>1 DEF Shape
  <2> HIDE DEF d
  <2>3. Starts(call[a], d)
    BY <2>2 DEF Starts
  <2> QED BY <1>2, <2>3, OneCallChanges
<1> QED BY <1>1, <1>2, StartRefreshCalls

(* The end of a refresh starts no other. *)
LEMMA RefreshEndsCalls ==
    ASSUME CallsShaped, NEW a \in Agents, RefreshEnds(a)
    PROVE  CallsStep
<1>1. PICK ok \in BOOLEAN : LET on == {Settled(a, ok)[i] : i \in DOMAIN Settled(a, ok)} IN
        call' = [b \in Agents |->
            IF b = a /\ ok THEN [call[b] EXCEPT !.at = "loop", !.next = @ + 1, !.token = 0]
            ELSE IF b \in on /\ ok THEN [call[b] EXCEPT !.at = "woken", !.on = Nobody]
            ELSE IF b \in on \cup {a} THEN [NoCall EXCEPT !.at = "failed"]
            ELSE call[b]]
  BY DEF RefreshEnds
<1>2. ASSUME NEW b \in Agents PROVE Starts(call[b], call'[b])
  <2> DEFINE looping == [call[b] EXCEPT !.at = "loop", !.next = @ + 1, !.token = 0]
             woken   == [call[b] EXCEPT !.at = "woken", !.on = Nobody]
  <2>1. call'[b] \in {looping, woken, [NoCall EXCEPT !.at = "failed"], call[b]}
    BY <1>1
  <2>2. Shape(call[b])
    BY DEF CallsShaped
  <2>3. Shape(looping) /\ looping.at = "loop" /\ Shape(woken) /\ woken.at = "woken"
    BY <2>2 DEF Shape
  <2> HIDE DEF looping, woken
  <2>4. Starts(call[b], looping) /\ Starts(call[b], woken)
    BY <2>3 DEF Starts
  <2>5. Starts(call[b], [NoCall EXCEPT !.at = "failed"]) /\ Starts(call[b], call[b])
    BY <2>2, NewCallStarts, SameCallStarts
  <2> QED BY <2>1, <2>4, <2>5
<1>3. call' = [b \in Agents |-> call'[b]]
  BY <1>1
<1> QED BY <1>2, <1>3 DEF CallsStep

(* Every refresh that a step begins has the token in memory. *)
LEMMA StepCalls ==
    ASSUME CallsShaped, [Next]_vars
    PROVE  CallsStep
<1>1. CASE UNCHANGED vars
  BY <1>1, SameCalls DEF vars, callVars
<1>2. ASSUME NEW a \in Agents, HostStep(a) PROVE CallsStep
  <2>1. CASE CompactionEnds(a)
    BY <2>1, NewCall DEF CompactionEnds, StartReinit, Compact, Stay
  <2>2. CASE LoopStops(a)
    BY <2>2, LoopStopsCalls
  <2>3. CASE LoopEnds(a)
    BY <2>3, NewCallStarts, OneCallChanges DEF LoopEnds
  <2>4. CASE Wakes(a)
    BY <2>4, WakesCalls
  <2>5. CASE RefreshEnds(a)
    BY <2>5, RefreshEndsCalls
  <2>6. CASE RefreshReturns(a)
    BY <2>6, FailoverCalls, NewCall DEF RefreshReturns, StartReinit
  <2>7. CASE ReinitReturns(a) \/ InitReturns(a) \/ ReloadEnds(a)
    BY <2>7, NewCall DEF ReinitReturns, InitReturns, ReloadEnds
  <2> QED BY <1>2, <2>1, <2>2, <2>3, <2>4, <2>5, <2>6, <2>7 DEF HostStep
<1>3. ASSUME NEW a \in Agents, RequestFails(a) PROVE CallsStep
  BY <1>3, FailoverCalls, NewCall DEF RequestFails
<1>4. ASSUME NEW a \in Agents, RunSucceeds(a) PROVE CallsStep
  BY <1>4, SameCalls DEF RunSucceeds, callVars
<1>5. ASSUME NEW e \in cooldowns, CooldownEnds(e) PROVE CallsStep
  BY <1>5, SameCalls DEF CooldownEnds, callVars
<1>6. ASSUME NEW p \in OAuthProviders, TokenAges(p) PROVE CallsStep
  BY <1>6, SameCalls DEF TokenAges, callVars
<1> QED BY <1>1, <1>2, <1>3, <1>4, <1>5, <1>6 DEF Next

(* The shape of the calls is kept by whatever starts only from proper places. *)
LEMMA StepShapes ==
    ASSUME CallsStep
    PROVE  CallsShaped'
BY DEF CallsStep, CallsShaped, Starts, Shape

(* A refresh is started with the credential in memory, also by a host that has waited
   for another's refresh of the same provider (ensureFresh, "Bug B fix").           *)
THEOREM PresentTokenRefreshed == Spec => RefreshesPresentToken
<1> DEFINE Present == \A a \in Agents :
                         call[a].at # "refreshing" /\ call'[a].at = "refreshing" =>
                             call'[a].token = token[OAuthOrder[call'[a].next]]
<1>1. Init => CallsShaped
  <2>1. Shape(NoCall)
    BY DEF Shape, NoCall
  <2> QED BY <2>1 DEF Init, CallsShaped
<1>2. CallsShaped /\ [Next]_vars => CallsShaped'
  BY StepCalls, StepShapes
<1>3. CallsShaped /\ [Next]_vars => Present
  BY StepCalls DEF CallsStep, Starts
<1> HIDE DEF Present
<1>4. Spec => [][Present]_vars
  BY <1>1, <1>2, <1>3, PTL DEF Spec
<1> QED BY <1>4 DEF RefreshesPresentToken, Present
=============================================================================
