-------------------------- MODULE NorthboundAccess --------------------------
(***************************************************************************)
(* How an MCP request reaches the Hub's tools: the loopback credential and *)
(* per-peer budget of the trusted-proxy mode, the global rate and          *)
(* concurrency guard, the resource guard that takes the bearer token off   *)
(* the request, and the two token verifiers, an introspection call per     *)
(* request and signed tokens checked against a cached key set.             *)
(*                                                                         *)
(* A request is good except for at most one flaw, and its token names one   *)
(* of Keys: for signed tokens the provider's signing key, for introspection *)
(* the provider's record of the token.  `standing' is what the provider     *)
(* holds now; it changes while a fetch is under way, and fetches fail.      *)
(* Moments are kept as ages in ticks, counted only as far as they matter.   *)
(***************************************************************************)
EXTENDS Naturals, FiniteSets, Sequences

CONSTANTS
  Modes,            \* authentication modes to run
  Calls,            \* requests
  Peers,            \* loopback peers
  Keys,             \* signing keys, or introspected tokens
  JwksTtl,          \* ticks a fetched key set is fresh
  KidInterval,      \* ticks between refreshes for an unknown key id
  HttpTimeout,      \* ticks a fetch may take
  RateWindow,       \* ticks of the sliding rate window
  GlobalSlots, GlobalRate, PeerSlots, PeerRate

(* What the two constructors refuse to start with.                         *)
ValidOidcConfig ==
  /\ {JwksTtl, KidInterval, HttpTimeout} \subseteq Nat \ {0}
  /\ KidInterval <= JwksTtl
ValidLimits == {RateWindow, GlobalSlots, GlobalRate, PeerSlots, PeerRate} \subseteq Nat \ {0}

ASSUME AccessConstants == ValidOidcConfig /\ ValidLimits /\ "none" \notin Calls

VARIABLES
  mode,        \* the mode the router was built for
  standing,    \* what the provider holds
  dropped,     \* ticks since each key was withdrawn
  cache,       \* [set, age, tried]: the key set, its age, the last attempt's
  holder,      \* the call that holds the cache lock, or "none"
  fetch,       \* [age, read, set]: the holder's fetch
  inquiry,     \* [age, active]: each call's introspection, and what it was told
  call,        \* each call's place
  ask,         \* each call's request
  spent,       \* the global rate window: [age, refused] of each request charged
  peerSpent,   \* each peer's window: ages of the requests charged
  proven       \* calls let in, with whether their evidence stood

accessVars == <<mode, standing, dropped, cache, holder, fetch, inquiry,
                call, ask, spent, peerSpent, proven>>

(* A flaw, by the step that looks for it: a remote peer or a wrong proxy    *)
(* secret; a foreign Origin, a token missing, malformed or in the query, or *)
(* an algorithm other than the two allowed; a key not meant for signatures; *)
(* a signature, issuer, audience, lifetime, subject or scope that is wrong. *)
Flaws == {"none", "credential", "envelope", "key", "claims"}
Requests == [peer : Peers, key : Keys, flaw : Flaws]
\* The proxy has seen to the token, whatever it was.
ProxiedRequests == [peer : Peers, key : {"none"}, flaw : {"none", "credential", "envelope"}]
NoFetch == [age |-> 0, read |-> FALSE, set |-> {}]
NoInquiry == [age |-> 0, active |-> FALSE]
NoAsk == [peer |-> "none", key |-> "none", flaw |-> "none"]

AccessInit ==
  /\ mode \in Modes
  /\ standing \in {S \in SUBSET Keys : S # {}}
  /\ dropped = [k \in Keys |-> JwksTtl + HttpTimeout]
  /\ cache = [set |-> {}, age |-> JwksTtl, tried |-> KidInterval]
  /\ holder = "none" /\ fetch = NoFetch
  /\ inquiry = [c \in Calls |-> NoInquiry]
  /\ call = [c \in Calls |-> "idle"]
  /\ ask = [c \in Calls |-> NoAsk]
  /\ spent = <<>> /\ peerSpent = [p \in Peers |-> <<>>]
  /\ proven = [c \in Calls |-> TRUE]

provider == <<standing, dropped>>
keyCache == <<cache, holder, fetch>>
verifier == <<keyCache, inquiry>>
budgets == <<spent, peerSpent>>

Holding == {"guard", "verify", "locked", "fetching", "asking", "reading", "decode", "inside"}
Answer(c) == call' = [call EXCEPT ![c] = "idle"] /\ ask' = [ask EXCEPT ![c] = NoAsk]
MoveTo(c, place) == call' = [call EXCEPT ![c] = place] /\ UNCHANGED ask

(* The outermost layer of the router: the proxy gate comes before the      *)
(* global guard.                                                           *)
FirstLayer == IF mode = "proxy" THEN "peer" ELSE "limits"

Arrive(c) ==
  /\ call[c] = "idle"
  /\ \E r \in IF mode = "proxy" THEN ProxiedRequests ELSE Requests :
       /\ mode # "proxy" => r.flaw # "credential" /\ r.peer = CHOOSE p \in Peers : TRUE
       /\ r.flaw = "key" => mode = "oidc"  \* an introspected token names no key
       /\ ask' = [ask EXCEPT ![c] = r]
  /\ call' = [call EXCEPT ![c] = FirstLayer]
  /\ UNCHANGED <<mode, provider, verifier, budgets, proven>>

PeerInFlight(p) ==
  Cardinality({d \in Calls : call[d] \in Holding \cup {"limits"} /\ ask[d].peer = p})

(* The peer's own window is charged before its slot is asked for; a refused *)
(* credential is charged to nobody.                                        *)
enforce_trusted_proxy_loopback(c) ==
  LET p == ask[c].peer
  IN  /\ call[c] = "peer"
      /\ IF ask[c].flaw = "credential" \/ Len(peerSpent[p]) >= PeerRate
           THEN Answer(c) /\ UNCHANGED peerSpent
           ELSE /\ peerSpent' = [peerSpent EXCEPT ![p] = Append(@, 0)]
                /\ IF PeerInFlight(p) >= PeerSlots THEN Answer(c)
                   ELSE MoveTo(c, "limits")
      /\ UNCHANGED <<mode, provider, verifier, spent, proven>>

enforce_http_limits(c) ==
  LET inFlight == {d \in Calls : call[d] \in Holding}
  IN  /\ call[c] = "limits"
      /\ IF Len(spent) >= GlobalRate THEN Answer(c) /\ UNCHANGED spent
         ELSE /\ spent' = Append(spent, [age |-> 0, refused |-> ask[c].flaw = "credential"])
              /\ IF Cardinality(inFlight) >= GlobalSlots THEN Answer(c)
                 ELSE MoveTo(c, "guard")
      /\ UNCHANGED <<mode, provider, verifier, peerSpent, proven>>

Enters(c, stands) ==
  /\ call' = [call EXCEPT ![c] = "inside"]
  /\ ask' = [ask EXCEPT ![c] = [NoAsk EXCEPT !.peer = ask[c].peer]]
  /\ proven' = [proven EXCEPT ![c] = stands]

(* Identity in proxy mode is the configured principal and nothing a header *)
(* says.                                                                   *)
trusted_proxy_guard(c) ==
  /\ call[c] = "guard" /\ mode = "proxy"
  /\ IF ask[c].flaw = "envelope" THEN Answer(c) /\ UNCHANGED proven
     ELSE Enters(c, ask[c].flaw = "none")
  /\ UNCHANGED <<mode, provider, verifier, budgets>>

(* Origin, token placement and token syntax, before the verifier is asked. *)
oauth_resource_guard(c) ==
  /\ call[c] = "guard" /\ mode # "proxy"
  /\ IF ask[c].flaw = "envelope" THEN Answer(c)
     ELSE MoveTo(c, IF mode = "oidc" THEN "verify" ELSE "asking")
  /\ UNCHANGED <<mode, provider, verifier, budgets, proven>>

-----------------------------------------------------------------------------
(* Signed tokens: one caller at a time holds the key cache.                *)
CacheFresh == cache.age < JwksTtl
MayRefreshUnknown == cache.tried >= KidInterval

LockCache(c) ==
  /\ call[c] = "verify" /\ holder = "none"
  /\ holder' = c
  /\ LET known == CacheFresh /\ ask[c].key \in cache.set
         fetches == ~CacheFresh \/ (~known /\ MayRefreshUnknown)
     IN  IF fetches
           THEN /\ MoveTo(c, "fetching")
                /\ cache' = [cache EXCEPT !.tried = 0]
                /\ fetch' = [age |-> 0, read |-> FALSE, set |-> {}]
           ELSE /\ MoveTo(c, "locked")
                /\ UNCHANGED <<cache, fetch>>
  /\ UNCHANGED <<mode, provider, inquiry, budgets, proven>>

(* The provider answers at some moment of the fetch.                       *)
FetchReads ==
  /\ holder # "none" /\ call[holder] = "fetching" /\ ~fetch.read
  /\ fetch' = [fetch EXCEPT !.read = TRUE, !.set = standing]
  /\ UNCHANGED <<mode, provider, cache, holder, inquiry, call, ask, budgets, proven>>

(* A usable set replaces the cached one and is fresh from now on.          *)
refresh_locked(c) ==
  /\ call[c] = "fetching" /\ fetch.read /\ fetch.set # {}
  /\ cache' = [cache EXCEPT !.set = fetch.set, !.age = 0]
  /\ fetch' = NoFetch
  /\ MoveTo(c, "locked")
  /\ UNCHANGED <<mode, provider, holder, inquiry, budgets, proven>>

\* Mutant: a failed fetch makes the cached keys fresh again.
FailureStampsTheCache(c) ==
  /\ call[c] = "fetching"
  /\ Answer(c)
  /\ holder' = "none" /\ fetch' = NoFetch
  /\ cache' = [cache EXCEPT !.age = 0]
  /\ UNCHANGED <<mode, provider, inquiry, budgets, proven>>

(* A failed fetch leaves the cache as it was and fails the request.        *)
FetchFails(c) ==
  /\ call[c] = "fetching"
  /\ Answer(c)
  /\ holder' = "none" /\ fetch' = NoFetch
  /\ UNCHANGED <<mode, provider, cache, inquiry, budgets, proven>>

(* The key is found and the lock let go, or the token is invalid.          *)
decoding_key_for(c) ==
  /\ call[c] = "locked"
  /\ holder' = "none"
  /\ IF ask[c].key \in cache.set /\ ask[c].flaw # "key"
       THEN MoveTo(c, "decode") ELSE Answer(c)
  /\ UNCHANGED <<mode, provider, cache, fetch, inquiry, budgets, proven>>

(* What the evidence is worth when the call is let in: the key or token was *)
(* the provider's, or ceased to be so no longer ago than the mode allows: a  *)
(* set may be fetched and kept, an introspection only be under way.          *)
Grace == IF mode = "oidc" THEN JwksTtl + HttpTimeout ELSE HttpTimeout + 1
Stands(k) == k \in standing \/ dropped[k] < Grace

(* Signature, issuer, audience, lifetime and subject, then the scopes.     *)
VerifyToken(c) ==
  /\ call[c] = "decode"
  /\ IF ask[c].flaw = "claims" THEN Answer(c) /\ UNCHANGED proven
     ELSE Enters(c, ask[c].flaw = "none" /\ Stands(ask[c].key))
  /\ UNCHANGED <<mode, provider, verifier, budgets>>

-----------------------------------------------------------------------------
(* Introspection: one exchange with the provider for each request.  The     *)
(* provider decides about the token at some moment of it ...                *)
ProviderIntrospects(c) ==
  /\ call[c] = "asking"
  /\ inquiry' = [inquiry EXCEPT ![c].active = ask[c].key \in standing]
  /\ MoveTo(c, "reading")
  /\ UNCHANGED <<mode, provider, keyCache, budgets, proven>>

(* ... and its answer is read later, if it comes at all: neither the status  *)
(* nor the body need arrive.  An answer in full is judged as it stands       *)
(* (validate_response), whatever has become of the token since.              *)
IntrospectionAnswers(c) ==
  /\ call[c] \in {"asking", "reading"}
  /\ \/ Answer(c) /\ UNCHANGED proven
     \/ /\ call[c] = "reading"
        /\ IF inquiry[c].active /\ ask[c].flaw # "claims"
           THEN Enters(c, ask[c].flaw = "none" /\ Stands(ask[c].key))
           ELSE Answer(c) /\ UNCHANGED proven
  /\ inquiry' = [inquiry EXCEPT ![c] = NoInquiry]
  /\ UNCHANGED <<mode, provider, keyCache, budgets>>

(* The handler answers.                                                    *)
Leave(c) ==
  /\ call[c] = "inside"
  /\ Answer(c)
  /\ proven' = [proven EXCEPT ![c] = TRUE]
  /\ UNCHANGED <<mode, provider, verifier, budgets>>

(* The client goes away: its permits and, if it held it, the lock go too.  *)
Disconnect(c) ==
  /\ call[c] \in {"verify", "fetching", "asking", "reading", "inside"}
  /\ Answer(c)
  /\ proven' = [proven EXCEPT ![c] = TRUE]
  /\ holder' = IF holder = c THEN "none" ELSE holder
  /\ fetch' = IF holder = c THEN NoFetch ELSE fetch
  /\ inquiry' = [inquiry EXCEPT ![c] = NoInquiry]
  /\ UNCHANGED <<mode, provider, cache, budgets>>

(* The provider rotates its keys, or tokens are revoked.                   *)
Rotate(k) ==
  /\ mode # "proxy"
  /\ IF k \in standing
       THEN /\ standing' = standing \ {k}
            /\ dropped' = [dropped EXCEPT ![k] = 0]
       ELSE /\ standing' = standing \cup {k}
            /\ UNCHANGED dropped
  /\ UNCHANGED <<mode, verifier, call, ask, budgets, proven>>

(* Neither a fetch nor an introspection outlives the HTTP client's timeout, *)
(* and a step that awaits nothing takes no time.                           *)
Exchanging(c) == call[c] \in {"asking", "reading"}
Older(age, limit) == IF age < limit THEN age + 1 ELSE limit
\* A rate window grows at the back, so what has left it is popped off the front.
Tick ==
  /\ \A c \in Calls : call[c] \notin {"locked", "decode"}
  /\ holder # "none" => fetch.age < HttpTimeout
  /\ \A c \in Calls : Exchanging(c) => inquiry[c].age < HttpTimeout
  /\ dropped' = [k \in Keys |-> Older(dropped[k], JwksTtl + HttpTimeout)]
  /\ cache' = [cache EXCEPT !.age = Older(@, JwksTtl), !.tried = Older(@, KidInterval)]
  /\ fetch' = [fetch EXCEPT !.age = IF holder = "none" THEN 0 ELSE @ + 1]
  /\ inquiry' = [c \in Calls |->
       IF Exchanging(c) THEN [inquiry[c] EXCEPT !.age = @ + 1] ELSE inquiry[c]]
  /\ spent' = LET lapsed == {i \in 1..Len(spent) : spent[i].age + 1 >= RateWindow}
              IN  [i \in 1..Len(spent) - Cardinality(lapsed) |->
                     LET e == spent[Cardinality(lapsed) + i]
                     IN  [age |-> e.age + 1, refused |-> e.refused]]
  /\ peerSpent' = [p \in Peers |->
       LET lapsed == {i \in 1..Len(peerSpent[p]) : peerSpent[p][i] + 1 >= RateWindow}
       IN  [i \in 1..Len(peerSpent[p]) - Cardinality(lapsed) |->
              peerSpent[p][Cardinality(lapsed) + i] + 1]]
  /\ UNCHANGED <<mode, standing, holder, call, ask, proven>>

AccessNext ==
  \/ \E c \in Calls :
       \/ Arrive(c) \/ enforce_trusted_proxy_loopback(c) \/ enforce_http_limits(c)
       \/ trusted_proxy_guard(c) \/ oauth_resource_guard(c) \/ LockCache(c)
       \/ refresh_locked(c) \/ FetchFails(c) \/ decoding_key_for(c)
       \/ VerifyToken(c) \/ ProviderIntrospects(c) \/ IntrospectionAnswers(c) \/ Leave(c)
       \/ Disconnect(c)
  \/ FetchReads \/ Tick
  \/ \E k \in Keys : Rotate(k)

AccessSpec == AccessInit /\ [][AccessNext]_accessVars

-----------------------------------------------------------------------------
(* Whoever is inside was proven to be: over loopback with the proxy's       *)
(* credential, or with a token for this issuer, audience and scopes under   *)
(* evidence the provider stands by.  A withdrawn signing key is honoured no *)
(* longer than the cache lifetime plus one fetch, a revoked token no longer *)
(* than one introspection, however exchanges fail, overlap a rotation, or   *)
(* are abandoned by a client that goes away.                                *)
AccessIsProven == \A c \in Calls : call[c] = "inside" => proven[c]

(* Behind a trusted proxy, traffic its gate refuses costs the callers        *)
(* nothing (in the token modes it does: the global guard charges its window *)
(* and a slot before the token is looked at, v2_limits.rs:412-436): no      *)
(* refused request is charged to the global window, and no loopback peer    *)
(* takes more of the global slots than its own share.                       *)
RefusedTrafficIsFree ==
  mode = "proxy" =>
    /\ \A i \in 1..Len(spent) : ~spent[i].refused
    /\ \A p \in Peers :
         Cardinality({c \in Calls : call[c] \in Holding /\ ask[c].peer = p}) <= PeerSlots

\* Only proven callers get in, and what the proxy gate turns away is charged to no
\* budget the proxied callers share.
AccessSafe == AccessIsProven /\ RefusedTrafficIsFree
=============================================================================
