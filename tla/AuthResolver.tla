---------------------------- MODULE AuthResolver ----------------------------
(***************************************************************************)
(* The credentials that all AgentHosts share                               *)
(* (src/server/agents/auth-resolver.ts) and what each host does with them  *)
(* when a request fails (handlePotentialError, reinitializeWithProvider    *)
(* and initialize in src/server/agents/host.ts, src/server/agents/retry.ts):*)
(* cooldowns that expire lazily, the rotation of API keys, the refresh of  *)
(* OAuth tokens under a per-provider lock, and the snapshot of the         *)
(* credentials a new SDK session works with.                               *)
(*                                                                         *)
(* An action is the code from one await to the next. Promise continuations *)
(* run before any other event, in the order their awaits were reached:     *)
(* `ready` holds the hosts whose ensureFresh() continues. A host handles   *)
(* one error at a time here, its sessions can be created, and every        *)
(* provider has a model.                                                   *)
(***************************************************************************)
EXTENDS Integers, Sequences, FiniteSets

CONSTANTS
    Agents,       \* the hosts that share the resolver
    Providers,
    OAuthOrder,   \* oauthOrder: the OAuth providers that have credentials
    ApiKeys,      \* the API keys in failover order, as records [provider, key]
    KeyIndexes,   \* the indexes a key may have
    Nobody,       \* no host
    KeysFrom,     \* where the SDK takes a session's key from (it is given both):
                  \* "session", its own AuthStorage, or "registry", the ModelRegistry's
    ErrorKinds,   \* the kinds of errors that occur
    MaxErrors,    \* how many requests fail
    MaxToken      \* a token up to this one may come near its expiry

OAuthProviders == {OAuthOrder[i] : i \in DOMAIN OAuthOrder}

\* extractStatusCode, of a message: what the type of an Anthropic error stands for,
\* or a number from 400 to 599 in its text; 0 for neither.
Statuses == {0, 400, 401, 402, 403, 404, 413, 429, 500, 503, 504, 529}

\* What its words say: a token limit or a payload limit (two lists of patterns), or neither.
Wordings == {"token_overflow", "wire_overflow", "other"}

\* categorizeError: an overflow comes before the status. A network error and an
\* unknown one, which have no status, are handled like a transient one. The host
\* tells a 401 from the other auth errors.
Category(status, wording) ==
    IF wording # "other" THEN "context_overflow"
    ELSE CASE status = 401 -> "auth401"
           [] status = 403 -> "auth"
           [] status = 429 -> "rate_limit"
           [] status \in 400..499 \ {401, 403, 429} -> "client"
           [] OTHER -> "transient"

\* The categories that concern the credentials; AgentDelivery has the overflows.
Kinds == {Category(s, w) : s \in Statuses, w \in Wordings} \ {"context_overflow"}

ASSUME CredentialsAssumption ==
    /\ OAuthOrder \in Seq(Providers)
    /\ ApiKeys \in Seq([provider : Providers, key : KeyIndexes])
    /\ KeyIndexes \subseteq Nat
    /\ 0 \in KeyIndexes
    /\ Nobody \notin Agents
    /\ KeysFrom \in {"session", "registry"}
    /\ ErrorKinds \subseteq Kinds
    /\ MaxErrors \in Nat
    /\ MaxToken \in Nat

VARIABLES
    cooldowns,   \* the entries of the map: a credential, the reason, whether its time is over
    activeKeys,  \* the key index each provider was last found to use
    token,       \* the version of each OAuth credential
    expiring,    \* OAuth providers whose token is expiring soon
    refreshLocks,\* whose refresh the lock of each OAuth provider stands for
    call,        \* the ensureFresh() call of each host
    waiting,     \* hosts that await another's lock, in the order they came
    ready,       \* hosts whose ensureFresh() continues, in order
    host,        \* the credential fields of each AgentHost and where it is
    registry,    \* what the AuthStorage of each host's ModelRegistry holds
    session,     \* history: the credential each host's session works with
    marked,      \* history: the markKeyFailed() of the last step
    errors       \* the requests that have failed

resolverVars == <<cooldowns, activeKeys, token, expiring, refreshLocks>>
callVars     == <<call, waiting, ready>>
sdkVars      == <<registry, session>>
vars == <<resolverVars, callVars, host, sdkVars, marked, errors>>

-----------------------------------------------------------------------------
(* Credentials and cooldowns *)

Tiers   == {"oauth", "api_keys"}
Reasons == {"auth", "rate_limit", "transient"}
Creds   == [tier : Tiers, provider : Providers, key : KeyIndexes]
NoCred  == [tier |-> "none"]

OAuthCred(p)   == [tier |-> "oauth", provider |-> p, key |-> 0]
KeyCred(p, k)  == [tier |-> "api_keys", provider |-> p, key |-> k]

OAuthCreds == [i \in DOMAIN OAuthOrder |-> OAuthCred(OAuthOrder[i])]
KeyCreds   == [i \in DOMAIN ApiKeys |-> KeyCred(ApiKeys[i].provider, ApiKeys[i].key)]

\* isKeyUnavailable is FALSE: no cooldown, or one that is over.
Available(cd, c) == \A e \in cd : e.cred = c => e.over

\* Fault: looking a credential up leaves an entry that is over in place.
PurgeNothing(cd, S) == cd

\* isKeyUnavailable deletes an entry that is over.
Purge(cd, S) == {e \in cd : e.cred \in S => ~e.over}

\* The first available credential of a list that is in S, and those looked at to find it.
Look(list, S, cd) ==
    LET open == {i \in DOMAIN list : list[i] \in S /\ Available(cd, list[i])}
        last == IF open = {} THEN Len(list)
                ELSE CHOOSE i \in open : \A j \in open : i <= j
    IN  [cred |-> IF open = {} THEN NoCred ELSE list[last],
         seen |-> {list[i] : i \in 1..last} \cap S]

\* Finding an API key makes it the active key of its provider.
Pointed(keys, cred) ==
    IF cred.tier = "api_keys" THEN [keys EXCEPT ![cred.provider] = cred.key] ELSE keys

\* getActiveCredential, getNextProvider: the OAuth tier, then the keys.
Ranked == OAuthCreds \o KeyCreds
NextCred(cd) == Look(Ranked, Creds, cd)

\* getActiveKey: the OAuth credential of p, its active key, its other keys.
OfProvider(p) == {Ranked[i] : i \in DOMAIN Ranked} \cap [tier : Tiers, provider : {p}, key : KeyIndexes]
Stored(p, cd, keys) ==
    Look(OAuthCreds \o <<KeyCred(p, keys[p])>> \o KeyCreds, OfProvider(p), cd)

\* createAuthStorage: getActiveKey for every provider.
StoragePurge(cd, keys) == Purge(cd, UNION {Stored(p, cd, keys).seen : p \in Providers})
StorageKeys(cd, keys) == [p \in Providers |-> Pointed(keys, Stored(p, cd, keys).cred)[p]]

\* Fault: a further failure adds a second entry.
MarkedTwice(cd, c, reason) == cd \cup {[cred |-> c, reason |-> reason, over |-> FALSE]}

\* Fault: a further failure restarts the cooldown with its own reason.
MarkedAgain(cd, c, reason) ==
    {e \in cd : e.cred # c} \cup {[cred |-> c, reason |-> reason, over |-> FALSE]}

\* markKeyFailed: an entry that exists is left as it is.
Marked(cd, c, reason) ==
    IF \E e \in cd : e.cred = c THEN cd
    ELSE cd \cup {[cred |-> c, reason |-> reason, over |-> FALSE]}

\* clearTransientCooldowns
WithoutTransient(cd) == {e \in cd : e.reason # "transient"}

-----------------------------------------------------------------------------
(* States *)

NoCall == [at |-> "none", next |-> 1, on |-> Nobody, token |-> 0, forced |-> {}]
Fresh(forced) == [NoCall EXCEPT !.at = "loop", !.forced = forced]

NoMark == [by |-> Nobody]

Init ==
    /\ cooldowns = {}
    /\ activeKeys = [p \in Providers |-> 0]
    /\ token = [p \in OAuthProviders |-> 1]
    /\ expiring = {}
    /\ refreshLocks = [p \in OAuthProviders |-> Nobody]
    /\ call = [a \in Agents |-> NoCall]
    /\ waiting = <<>>
    /\ ready = <<>>
    /\ LET first == NextCred({}).cred  \* server.ts requires one
       IN  /\ first # NoCred
           /\ host = [a \in Agents |-> [at |-> "running", provider |-> first.provider,
                                        tier |-> first.tier, key |-> first.key,
                                        target |-> first.provider, attempted |-> {}]]
           /\ session = [a \in Agents |-> first]
           /\ registry = session
    /\ marked = NoMark
    /\ errors = 0

Others(a) == SelectSeq(ready, LAMBDA b : b # a)

-----------------------------------------------------------------------------
(* Beginning and ending a reinitialization *)

\* The host keeps running on the session it has.
Stay(a, cd, keys) ==
    /\ host' = [host EXCEPT ![a].at = "running"]
    /\ call' = [call EXCEPT ![a] = NoCall]
    /\ ready' = Others(a)
    /\ cooldowns' = cd
    /\ activeKeys' = keys

\* reinitializeWithProvider(p) up to the loop of its ensureFresh().
StartReinit(a, p, cd, keys) ==
    LET own == Stored(p, cd, keys)
        none == own.cred = NoCred
    IN  /\ host' = [host EXCEPT ![a] = [@ EXCEPT !.at = "reinit", !.provider = p, !.target = p,
                                          !.tier = IF none THEN "api_keys" ELSE own.cred.tier,
                                          !.key = IF none THEN 0 ELSE own.cred.key]]
        /\ call' = [call EXCEPT ![a] = Fresh({})]
        /\ ready' = <<a>> \o Others(a)
        /\ cooldowns' = Purge(cd, own.seen)
        /\ activeKeys' = Pointed(keys, own.cred)

\* compactForProvider or handleContextOverflow precede the switch to provider p.
Compact(a, at, p, cd, keys) ==
    /\ host' = [host EXCEPT ![a] = [@ EXCEPT !.at = at, !.target = p]]
    /\ call' = [call EXCEPT ![a] = NoCall]
    /\ ready' = Others(a)
    /\ cooldowns' = cd
    /\ activeKeys' = keys

-----------------------------------------------------------------------------
(* handlePotentialError after its checks for 401 *)

Own(a) == [tier |-> host[a].tier, provider |-> host[a].provider, key |-> host[a].key]

\* shouldRetry: only these, and only while attempts are left.
MayRetry(kind, exhausted) == kind \in {"rate_limit", "transient"} /\ ~exhausted

Reason(kind) ==
    IF kind \in {"auth401", "auth"} THEN "auth"
    ELSE IF kind = "rate_limit" THEN "rate_limit" ELSE "transient"

\* Fault: the key marked is the one the provider was last found to use.
BlamedActive(a) == [Own(a) EXCEPT !.key = activeKeys[host[a].provider]]

\* The credential markKeyFailed is told of.
Blamed(a) == Own(a)

SwitchTo(a, p, cd, keys) ==
    IF p = host[a].provider THEN StartReinit(a, p, cd, keys)
                            ELSE Compact(a, "compact", p, cd, keys)

(* The failing key is marked and the host moves on. With nothing left after a 400,
   the transient cooldowns are lifted and the overflow recovery is tried.       *)
MarkKeyFailed(a, kind, cd) ==
    LET failed == Marked(cd, Blamed(a), Reason(kind))
        left   == NextCred(failed)
        after  == Purge(failed, left.seen)
        lifted == WithoutTransient(after)
        last   == NextCred(lifted)
    IN  /\ marked' = [by |-> a, cred |-> Blamed(a), used |-> session[a],
                      lifted |-> left.cred = NoCred /\ kind = "client"]
        /\ IF left.cred # NoCred
           THEN SwitchTo(a, left.cred.provider, after, Pointed(activeKeys, left.cred))
           ELSE IF kind # "client" THEN Stay(a, after, activeKeys)
           ELSE IF last.cred = NoCred THEN Stay(a, lifted, activeKeys)
           ELSE Compact(a, "recover", last.cred.provider, Purge(lifted, last.seen),
                        Pointed(activeKeys, last.cred))

\* Another host has put the key in cooldown: no retry, no mark, just the next one.
Failover(a, kind, exhausted) ==
    LET cd   == Purge(cooldowns, {Own(a)})       \* isKeyInCooldown
        next == NextCred(cd)
    IN  IF ~Available(cd, Own(a)) /\ next.cred # NoCred
        THEN /\ StartReinit(a, next.cred.provider, Purge(cd, next.seen),
                            Pointed(activeKeys, next.cred))
             /\ marked' = NoMark
        ELSE LET looked == IF Available(cd, Own(a)) THEN cd ELSE Purge(cd, next.seen)
             IN  IF MayRetry(kind, exhausted)
                 THEN Stay(a, looked, activeKeys) /\ marked' = NoMark
                 ELSE MarkKeyFailed(a, kind, looked)

\* A request of the host fails. A 401 of an OAuth token is refreshed once.
RequestFails(a) ==
    /\ ready = <<>>
    /\ host[a].at = "running"
    /\ errors < MaxErrors
    /\ errors' = errors + 1
    /\ \E kind \in ErrorKinds, exhausted \in BOOLEAN :
          IF kind = "auth401" /\ host[a].tier = "oauth" /\ host[a].provider \notin host[a].attempted
          THEN /\ host' = [host EXCEPT ![a].at = "refresh",
                                       ![a].attempted = @ \cup {host[a].provider}]
               /\ call' = [call EXCEPT ![a] = Fresh({host[a].provider})]
               /\ ready' = <<a>>
               /\ marked' = NoMark
               /\ UNCHANGED <<cooldowns, activeKeys>>
          ELSE Failover(a, kind, exhausted)
    /\ UNCHANGED <<token, expiring, refreshLocks, waiting, sdkVars>>

\* A run that ends well re-arms the refresh of the next 401.
RunSucceeds(a) ==
    /\ ready = <<>>
    /\ host[a].at = "running"
    /\ session[a] # NoCred
    /\ host[a].attempted # {}
    /\ host' = [host EXCEPT ![a].attempted = {}]
    /\ marked' = NoMark
    /\ UNCHANGED <<resolverVars, callVars, sdkVars, errors>>

\* The compaction before a switch ends, or the recovery after a 400 does or does not help.
CompactionEnds(a) ==
    /\ ready = <<>>
    /\ \/ /\ host[a].at \in {"compact", "recover"}
          /\ StartReinit(a, host[a].target, cooldowns, activeKeys)
       \/ /\ host[a].at = "recover"
          /\ LET next == NextCred(cooldowns)
                 cd   == Purge(cooldowns, next.seen)
                 keys == Pointed(activeKeys, next.cred)
             IN  IF next.cred # NoCred /\ next.cred.provider # host[a].provider
                 THEN Compact(a, "compact", next.cred.provider, cd, keys)
                 ELSE Stay(a, cd, keys)
    /\ marked' = NoMark
    /\ UNCHANGED <<token, expiring, refreshLocks, waiting, sdkVars, errors>>

-----------------------------------------------------------------------------
(* ensureFresh *)

Continues(a) == ready # <<>> /\ Head(ready) = a

Needs(a, p) == p \in call[a].forced \/ p \in expiring

\* Fault: the refresh uses the credential read before the lock was awaited.
StartRefreshStale(a, i) ==
    /\ refreshLocks' = [refreshLocks EXCEPT ![OAuthOrder[i]] = a]
    /\ call' = [call EXCEPT ![a] = [@ EXCEPT !.at = "refreshing", !.next = i,
                   !.token = IF @ = 0 THEN token[OAuthOrder[i]] ELSE @]]
    /\ ready' = Tail(ready)

\* doRefresh is called with the present credential, and its promise is the lock.
StartRefresh(a, i) ==
    /\ refreshLocks' = [refreshLocks EXCEPT ![OAuthOrder[i]] = a]
    /\ call' = [call EXCEPT ![a] = [@ EXCEPT !.at = "refreshing", !.next = i,
                                             !.token = token[OAuthOrder[i]]]]
    /\ ready' = Tail(ready)

\* The providers from call[a].next on that need a refresh.
Pending(a) == {i \in DOMAIN OAuthOrder : i >= call[a].next /\ Needs(a, OAuthOrder[i])}

\* The loop reaches a provider whose token needs a refresh: wait for a lock, or take it.
LoopStops(a) ==
    /\ Continues(a)
    /\ call[a].at = "loop"
    /\ \E i \in Pending(a) :
          /\ \A j \in Pending(a) : i <= j
          /\ LET p == OAuthOrder[i]
             IN  IF refreshLocks[p] = Nobody
                 THEN StartRefresh(a, i) /\ UNCHANGED waiting
                 ELSE /\ call' = [call EXCEPT ![a] = [@ EXCEPT !.at = "waiting", !.next = i,
                                                !.on = refreshLocks[p], !.token = token[p]]]
                      /\ waiting' = Append(waiting, a)
                      /\ ready' = Tail(ready)
                      /\ UNCHANGED refreshLocks
    /\ marked' = NoMark
    /\ UNCHANGED <<cooldowns, activeKeys, token, expiring, host, sdkVars, errors>>

\* The awaited lock is free again. The lock itself is not looked at a second time.
Wakes(a) ==
    /\ Continues(a)
    /\ call[a].at = "woken"
    /\ IF Needs(a, OAuthOrder[call[a].next])
       THEN StartRefresh(a, call[a].next)
       ELSE /\ call' = [call EXCEPT ![a] = [@ EXCEPT !.at = "loop", !.token = 0,
                                                !.next = call[a].next + 1]]
            /\ UNCHANGED <<refreshLocks, ready>>
    /\ marked' = NoMark
    /\ UNCHANGED <<cooldowns, activeKeys, token, expiring, waiting, host, sdkVars, errors>>

\* The loop is over: the caller continues behind those that are already ready.
LoopEnds(a) ==
    /\ Continues(a)
    /\ call[a].at = "loop"
    /\ Pending(a) = {}
    /\ call' = [call EXCEPT ![a] = [NoCall EXCEPT !.at = "done"]]
    /\ ready' = Append(Tail(ready), a)
    /\ marked' = NoMark
    /\ UNCHANGED <<resolverVars, waiting, host, sdkVars, errors>>

\* Hosts that await the refresh of a.
WaitingOn(a) == SelectSeq(waiting, LAMBDA b : call[b].on = a)

\* Fault: a refresh that fails does not settle its lock.
SettledOnSuccess(a, ok) == IF ok THEN WaitingOn(a) ELSE <<>>

\* The waiters the end of a refresh sets going, however it ended.
Settled(a, ok) == WaitingOn(a)

(* doRefresh ends. Its finally deletes the provider's lock, whosever it is by now,
   and the promise settles: the host itself goes on, then those that wait for it. *)
RefreshEnds(a) ==
    /\ ready = <<>>
    /\ call[a].at = "refreshing"
    /\ \E ok \in BOOLEAN :
          LET p   == OAuthOrder[call[a].next]
              set == Settled(a, ok)
              on  == {set[i] : i \in DOMAIN set}
          IN  /\ token' = IF ok THEN [token EXCEPT ![p] = @ + 1] ELSE token
              /\ expiring' = IF ok THEN expiring \ {p} ELSE expiring
              /\ cooldowns' = IF ok THEN {e \in cooldowns : e.cred # OAuthCred(p)}
                                    ELSE cooldowns
              /\ refreshLocks' = [refreshLocks EXCEPT ![p] = Nobody]
              /\ call' = [b \in Agents |->
                    IF b = a /\ ok THEN [call[b] EXCEPT !.at = "loop", !.next = @ + 1, !.token = 0]
                    ELSE IF b \in on /\ ok THEN [call[b] EXCEPT !.at = "woken", !.on = Nobody]
                    ELSE IF b \in on \cup {a} THEN [NoCall EXCEPT !.at = "failed"]
                    ELSE call[b]]
              /\ ready' = <<a>> \o set
              /\ waiting' = SelectSeq(waiting, LAMBDA b : b \notin on)
    /\ marked' = NoMark
    /\ UNCHANGED <<activeKeys, host, sdkVars, errors>>

-----------------------------------------------------------------------------
(* What follows ensureFresh *)

Returns(a) == call[a].at \in {"done", "failed"}

\* The forced refresh of a 401 is done: reinitialize, or fail over as for any 401.
RefreshReturns(a) ==
    /\ Continues(a)
    /\ host[a].at = "refresh"
    /\ Returns(a)
    /\ IF call[a].at = "failed"
       THEN Failover(a, "auth401", TRUE)
       ELSE /\ StartReinit(a, host[a].provider, cooldowns, activeKeys)
            /\ marked' = NoMark
    /\ UNCHANGED <<token, expiring, refreshLocks, waiting, sdkVars, errors>>

\* createAuthStorage for the model registry, then initialize() up to its reload.
ReinitReturns(a) ==
    /\ Continues(a)
    /\ host[a].at = "reinit"
    /\ Returns(a)
    /\ LET cd   == StoragePurge(cooldowns, activeKeys)
           keys == StorageKeys(cooldowns, activeKeys)
           own  == Stored(host[a].provider, cd, keys).cred
       IN  /\ host' = [host EXCEPT ![a] = [@ EXCEPT !.at = "reload",
                                             !.key = IF own = NoCred THEN 0 ELSE own.key]]
           /\ registry' = IF KeysFrom = "registry" THEN [registry EXCEPT ![a] = own]
                                                   ELSE registry
           /\ cooldowns' = cd
           /\ activeKeys' = keys
    /\ call' = [call EXCEPT ![a] = NoCall]
    /\ ready' = Tail(ready)
    /\ marked' = NoMark
    /\ UNCHANGED <<token, expiring, refreshLocks, waiting, session, errors>>

ReloadEnds(a) ==
    /\ ready = <<>>
    /\ host[a].at = "reload"
    /\ host' = [host EXCEPT ![a].at = "init"]
    /\ call' = [call EXCEPT ![a] = Fresh({})]
    /\ ready' = <<a>>
    /\ marked' = NoMark
    /\ UNCHANGED <<resolverVars, waiting, sdkVars, errors>>

\* The host takes over tier and index of the credential found, if there is one.
Adopt(h, cred) ==
    IF cred = NoCred THEN h ELSE [h EXCEPT !.tier = cred.tier, !.key = cred.key]

\* initialize() reads the active credential again and gives the SDK its snapshot.
InitReturns(a) ==
    /\ Continues(a)
    /\ host[a].at = "init"
    /\ Returns(a)
    /\ LET own  == Stored(host[a].provider, cooldowns, activeKeys).cred
       IN  /\ host' = [host EXCEPT ![a] = Adopt([@ EXCEPT !.at = "running"], own)]
           /\ session' = [session EXCEPT ![a] =
                 IF KeysFrom = "session" THEN own ELSE registry[a]]
           /\ cooldowns' = StoragePurge(cooldowns, activeKeys)
           /\ activeKeys' = StorageKeys(cooldowns, activeKeys)
    /\ call' = [call EXCEPT ![a] = NoCall]
    /\ ready' = Tail(ready)
    /\ marked' = NoMark
    /\ UNCHANGED <<token, expiring, refreshLocks, waiting, registry, errors>>

-----------------------------------------------------------------------------
(* Time *)

CooldownEnds(e) ==
    /\ ready = <<>>
    /\ ~e.over
    /\ cooldowns' = (cooldowns \ {e}) \cup {[e EXCEPT !.over = TRUE]}
    /\ marked' = NoMark
    /\ UNCHANGED <<activeKeys, token, expiring, refreshLocks, callVars, host, sdkVars, errors>>

TokenAges(p) ==
    /\ ready = <<>>
    /\ p \notin expiring
    /\ token[p] <= MaxToken
    /\ expiring' = expiring \cup {p}
    /\ marked' = NoMark
    /\ UNCHANGED <<cooldowns, activeKeys, token, refreshLocks, callVars, host, sdkVars, errors>>

HostStep(a) ==
    \/ CompactionEnds(a)
    \/ LoopStops(a) \/ LoopEnds(a) \/ Wakes(a) \/ RefreshEnds(a)
    \/ RefreshReturns(a) \/ ReinitReturns(a) \/ ReloadEnds(a) \/ InitReturns(a)

Next ==
    \/ \E a \in Agents : HostStep(a) \/ RequestFails(a) \/ RunSucceeds(a)
    \/ \E e \in cooldowns : CooldownEnds(e)
    \/ \E p \in OAuthProviders : TokenAges(p)

\* When HostStep(a) is possible: its ENABLED, written out.
CanStep(a) ==
    \/ Continues(a)
    \/ /\ ready = <<>>
       /\ host[a].at \in {"compact", "recover", "reload"} \/ call[a].at = "refreshing"

\* While CanStep(a) holds, HostStep(a) and nothing else does this.
Moves(a) == <<host[a], call[a]>>' # <<host[a], call[a]>>

\* WF_vars(HostStep(a)): reloads, compactions and refreshes end, one way or the other.
Fairness == \A a \in Agents : <>[]CanStep(a) => []<><<Moves(a)>>_vars

Spec == Init /\ [][Next]_vars /\ Fairness

-----------------------------------------------------------------------------
(* Properties *)

\* The values the variables take.
Calls == [at : {"none", "loop", "refreshing", "waiting", "woken", "done", "failed"},
          next : Nat, on : Agents \cup {Nobody}, token : Nat, forced : SUBSET Providers]
Hosts == [at : {"running", "refresh", "reinit", "reload", "init", "compact", "recover"},
          provider : Providers, tier : Tiers, key : KeyIndexes, target : Providers,
          attempted : SUBSET Providers]

TypeOK ==
    /\ cooldowns \subseteq [cred : Creds, reason : Reasons, over : BOOLEAN]
    /\ \A e, f \in cooldowns : e.cred = f.cred => e = f
    /\ activeKeys \in [Providers -> KeyIndexes]
    /\ token \in [OAuthProviders -> Nat]
    /\ expiring \subseteq OAuthProviders
    /\ refreshLocks \in [OAuthProviders -> Agents \cup {Nobody}]
    /\ call \in [Agents -> Calls]
    /\ waiting \in Seq(Agents)
    /\ ready \in Seq(Agents)
    /\ host \in [Agents -> Hosts]
    /\ session \in [Agents -> Creds \cup {NoCred}]
    /\ registry \in [Agents -> Creds \cup {NoCred}]
    /\ errors \in 0..MaxErrors

(* When a host reports a failure, the key it puts in cooldown is the one its session
   worked with, however often other hosts have rotated the shared active key or
   refreshed tokens since the session began (the comment at host.ts 1268).       *)
BlamesOwnKey ==
    marked.by # Nobody /\ marked.used # NoCred => marked.cred = marked.used

(* A host that reports its key does not get it back from the search that follows: an
   entry that is over has been deleted by isKeyInCooldown before markKeyFailed sees
   it, so that the failure is recorded. Only the last resort after a 400 lifts it. *)
FailedKeyBenched ==
    marked.by # Nobody /\ ~marked.lifted => ~Available(cooldowns, marked.cred)

(* A refresh is started with the credential in memory, never with one that a
   refresh awaited in between has replaced (ensureFresh, "Bug B fix").          *)
RefreshesPresentToken ==
    [][\A a \in Agents : call[a].at # "refreshing" /\ call'[a].at = "refreshing" =>
          call'[a].token = token[OAuthOrder[call'[a].next]]]_vars

(* A cooldown that runs is neither restarted nor given another reason by the
   failures of the other hosts that hold the same key.                          *)
CooldownNotRestarted ==
    [][\A e \in cooldowns, f \in cooldowns' : e.cred = f.cred /\ ~e.over /\ ~f.over => e = f]_vars

(* Every failed request is dealt with: no host waits forever for a lock, whether the
   refresh it waits for succeeds or fails.                                      *)
FailuresHandled == \A a \in Agents : host[a].at # "running" ~> host[a].at = "running"

(* "Concurrent callers are serialized per provider so refresh runs once"
   (auth-resolver.ts 376): one provider's token is not refreshed twice at a time. *)
OneRefreshPerProvider ==
    \A a, b \in Agents :
        a # b /\ call[a].at = "refreshing" /\ call[b].at = "refreshing"
        => call[a].next # call[b].next
=============================================================================
